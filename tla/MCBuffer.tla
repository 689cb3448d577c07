------------------------------ MODULE MCBuffer ------------------------------
EXTENDS Buffer, SequencesExt

\* Pieces of up to three bytes, as long as a third of the bound and more.
MCChunks == SeqOf(Byte, 3)
=============================================================================
