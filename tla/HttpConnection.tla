--------------------------- MODULE HttpConnection ---------------------------
(***************************************************************************)
(* One connection of src/http/http.cpp over its whole life: the worker     *)
(* that receives, processes and sends (ReceiveFrom, SendTo and Process of  *)
(* include/web_server.h), the parser of src/http/request.cpp and the       *)
(* builder of src/http/response.cpp.  WebServer shows that one thread at a *)
(* time does this, and Buffer that the two buffers are queues of bytes.    *)
(*                                                                         *)
(* The bytes of a line are two pieces and the line's CRLF, so that a       *)
(* receive can end inside a line.  The bytes of a response are its head    *)
(* and its content, as pieces that name the response they belong to.       *)
(***************************************************************************)
EXTENDS Naturals, Sequences, SequencesExt

CONSTANTS
    Requests,       \* what clients may send: sequences of lines
    Files,          \* paths of files that exist
    FileSize,       \* size of a mapped file, in pieces
    MaxRequests,    \* bound: requests on the connection
    MaxAnswers      \* bound: responses, never reached

ASSUME SizeAssumption == FileSize \in Nat \ {0}

VARIABLES
    asked,          \* number of requests the client has sent
    inflight,       \* their bytes that have not been received
    step,           \* "in", "out": armed in epoll for a worker that receives or
                    \* sends; "process", "parse", "send": a worker is there;
                    \* "spin": it never returns; "marked": to be closed
    read_buf, write_buf, keep_alive,
    file,           \* file_: the response it belongs to, 0 if none is mapped
    request,        \* the Request of Process
    file_size,      \* bytes of the file that Send has written
    answers,        \* history: the responses built
    wire            \* history: what was written to the socket

client == <<asked, inflight>>
vars == <<asked, inflight, step, read_buf, write_buf, keep_alive, file,
          request, file_size, answers, wire>>

-----------------------------------------------------------------------------
(* Lines and the bytes they are sent as.                                   *)

Status(method, path) == [kind |-> "status", method |-> method, path |-> path]
Header(field)        == [kind |-> "header", field |-> field]
Empty                == [kind |-> "empty"]
Body                 == [kind |-> "body"]

Piece(line, part) == [line |-> line, part |-> part]

\* A body is not followed by a CRLF, an empty line is nothing else.
Bytes(line) ==
    CASE line.kind = "empty" -> <<Piece(line, "crlf")>>
      [] line.kind = "body"  -> <<Piece(line, "begin"), Piece(line, "end")>>
      [] OTHER -> <<Piece(line, "begin"), Piece(line, "end"), Piece(line, "crlf")>>

Stream(lines) == FlattenSeq([i \in DOMAIN lines |-> Bytes(lines[i])])

-----------------------------------------------------------------------------
(* Request: a parser whose state decides what a line is.                   *)

NewRequest ==
    [state |-> "NotStarted", method |-> "Get", path |-> "none", current |-> FALSE,
     headers |-> {}, post |-> "none"]

\* A line as the parser finds it: all the bytes up to a CRLF or the end.
Whole(line, kind) ==
    Len(line) = 2 /\ line = <<Piece(line[1].line, "begin"), Piece(line[1].line, "end")>>
                  /\ line[1].line.kind = kind
Starts(line, kind) ==
    line # <<>> /\ line[1].line.kind = kind /\ line[1].part = "begin"

\* The parser throws; what it has set so far remains.
Thrown(r) == [r EXCEPT !.state = "Thrown"]

\* A status line that is cut off in its version is accepted with that version.
ParseStatusLine(r, line) ==
    LET accepted(current) ==
            [r EXCEPT !.state = "Header", !.method = line[1].line.method,
                      !.path = line[1].line.path, !.current = current]
    IN  CASE Whole(line, "status") -> {accepted(TRUE)}
          [] Len(line) = 1 /\ Starts(line, "status") -> {accepted(FALSE), Thrown(r)}
          [] OTHER -> {Thrown(r)}

\* A header that is cut off behind its colon is accepted with what is there.
ParseHeader(r, line) ==
    CASE line = <<>> -> {[r EXCEPT !.state = "Body"]}
      [] Whole(line, "header") -> {[r EXCEPT !.headers = @ \cup {line[1].line.field}]}
      [] Len(line) = 1 /\ Starts(line, "header") -> {r, Thrown(r)}
      [] OTHER -> {Thrown(r)}

\* Defect: the form is read, but not kept in the request.
ParseBodyForgets(r, line) ==
    IF r.method # "Post" \/ "form" \notin r.headers \/ ~Whole(line, "body") THEN {Thrown(r)}
    ELSE {[r EXCEPT !.state = "Finished"]}

\* The body of a POST with a form; when bytes are missing, or those of the
\* next request follow, it may still look like a form.
ParseBody(r, line) ==
    IF r.method # "Post" \/ "form" \notin r.headers THEN {Thrown(r)}
    ELSE CASE Whole(line, "body") -> {[r EXCEPT !.state = "Finished", !.post = "input"]}
           [] Starts(line, "body") /\ ~Whole(line, "body") ->
                  {[r EXCEPT !.state = "Finished", !.post = "part"], Thrown(r)}
           [] OTHER -> {Thrown(r)}

Parse(r, line) ==
    CASE r.state = "NotStarted" -> ParseStatusLine(r, line)
      [] r.state = "Header"     -> ParseHeader(r, line)
      [] r.state = "Body"       -> ParseBody(r, line)
      [] r.state = "Finished"   -> {Thrown(r)}

\* Request::KeepAlive
KeepAlive(r) == "keep-alive" \in r.headers /\ r.current

-----------------------------------------------------------------------------
(* Response: what Build leaves in the buffer and in the mapped file.       *)

\* The content of response n: one piece in the buffer, or the mapped file.
Content(n, mapped) ==
    IF mapped THEN [i \in 1 .. FileSize |-> [of |-> n, part |-> "file", at |-> i]]
    ELSE <<[of |-> n, part |-> "body", at |-> 1]>>

HeadOf(n) == <<[of |-> n, part |-> "head", at |-> 1]>>

\* The bytes that response n promises: its head gives the content's length.
Promised(a, n) == HeadOf(n) \o Content(n, a.mapped)

-----------------------------------------------------------------------------
Init ==
    /\ asked = 0 /\ inflight = <<>>
    /\ step = "in"
    /\ read_buf = <<>> /\ write_buf = <<>>
    /\ keep_alive = FALSE
    /\ file = 0 /\ request = NewRequest /\ file_size = 0
    /\ answers = <<>> /\ wire = <<>>

\* The client sends a request, whether or not the last one was answered.
Ask ==
    /\ asked < MaxRequests /\ step # "marked"
    /\ \E lines \in Requests : inflight' = inflight \o Stream(lines)
    /\ asked' = asked + 1
    /\ UNCHANGED <<step, read_buf, write_buf, keep_alive, file, request, file_size,
                   answers, wire>>

\* Receive reads what has arrived, up to EAGAIN.
Receive ==
    /\ step = "in" /\ inflight # <<>>
    /\ \E n \in 1 .. Len(inflight) :
           /\ read_buf' = read_buf \o SubSeq(inflight, 1, n)
           /\ inflight' = SubSeq(inflight, n + 1, Len(inflight))
    /\ step' = "process"
    /\ UNCHANGED <<asked, write_buf, keep_alive, file, request, file_size, answers, wire>>

\* Receive fails after what it could read, or never ends because the client has
\* closed its side.
ReceiveFails ==
    /\ step = "in"
    /\ \E n \in 0 .. Len(inflight) :
           /\ read_buf' = read_buf \o SubSeq(inflight, 1, n)
           /\ inflight' = SubSeq(inflight, n + 1, Len(inflight))
    /\ step' \in {"marked", "spin"}
    /\ UNCHANGED <<asked, write_buf, keep_alive, file, request, file_size, answers, wire>>

\* Defect: the file of the last response stays mapped.
ProcessKeepsFile ==
    /\ step = "process"
    /\ step' = IF read_buf = <<>> THEN "in" ELSE "parse"
    /\ request' = NewRequest
    /\ UNCHANGED <<client, read_buf, write_buf, keep_alive, file, file_size, answers, wire>>

\* The beginning of ConnectionImpl::Process.
Process ==
    /\ step = "process"
    /\ file' = 0
    /\ step' = IF read_buf = <<>> THEN "in" ELSE "parse"
    /\ request' = NewRequest
    /\ UNCHANGED <<client, read_buf, write_buf, keep_alive, file_size, answers, wire>>

\* One round of the loop of Request::Parse.  A line that throws stays in the
\* buffer.
ParseLine ==
    /\ step = "parse" /\ request.state # "Thrown" /\ read_buf # <<>>
    /\ LET crlf == SelectInSeq(read_buf, LAMBDA p : p.part = "crlf")
           line == SubSeq(read_buf, 1, IF crlf = 0 THEN Len(read_buf) ELSE crlf - 1)
           size == IF crlf = 0 THEN Len(read_buf) ELSE crlf
       IN  /\ request' \in Parse(request, line)
           /\ read_buf' = IF request'.state = "Thrown" THEN read_buf
                          ELSE SubSeq(read_buf, size + 1, Len(read_buf))
    /\ UNCHANGED <<client, step, write_buf, keep_alive, file, file_size, answers, wire>>

\* Defect: a request that is refused leaves keep_alive_ as it was.
AnswerKeepsAlive(r) == IF r.state = "Thrown" THEN keep_alive ELSE KeepAlive(r)

Persist(r) == KeepAlive(r)

\* Whether the file can be mapped; the pages of the server itself can fail too.
Mapped(path) == IF path \in Files THEN BOOLEAN ELSE {FALSE}

\* What the index page shows of a form; a part of one may lack the user.
ExtractUserMessage(r) == IF r.post = "part" THEN {"part", "none"} ELSE {r.post}

\* Response::Build for an error, for the index page with a message, or for a file.
Response(r, ok, message) ==
    LET found == r.state # "Thrown" /\ ok
    IN  [status |-> IF found THEN "OK" ELSE "BadRequest", method |-> r.method,
         mapped |-> found /\ r.path # "index",
         echo   |-> IF found /\ r.path = "index" THEN message ELSE "none"]

\* The rest of ConnectionImpl::Process.
Build ==
    /\ step = "parse" /\ (request.state = "Thrown" \/ read_buf = <<>>)
    /\ Len(answers) < MaxAnswers
    /\ keep_alive' = Persist(request)
    /\ \E ok \in Mapped(request.path), message \in ExtractUserMessage(request) :
         LET n == Len(answers) + 1
             a == Response(request, ok, message)
         IN  /\ answers' = Append(answers, a)
             /\ write_buf' = write_buf \o HeadOf(n)
                                \o (IF a.mapped THEN <<>> ELSE Content(n, FALSE))
             /\ file' = IF a.mapped THEN n ELSE file
    /\ step' = "out"
    /\ UNCHANGED <<client, read_buf, request, file_size, wire>>

\* The socket is writable: a worker calls Send.
StartSend ==
    /\ step = "out"
    /\ step' = "send" /\ file_size' = 0
    /\ UNCHANGED <<client, read_buf, write_buf, keep_alive, file, request, answers, wire>>

\* One write of the buffer; the socket may take a part of it.
SendBuffer ==
    /\ step = "send" /\ write_buf # <<>>
    /\ \E n \in 1 .. Len(write_buf) :
           /\ wire' = wire \o SubSeq(write_buf, 1, n)
           /\ write_buf' = SubSeq(write_buf, n + 1, Len(write_buf))
    /\ UNCHANGED <<client, step, read_buf, keep_alive, file, request, file_size, answers>>

SizeOfFile == IF file = 0 THEN 0 ELSE FileSize

\* One write of the file, from where the last one ended.
SendFile ==
    /\ step = "send" /\ write_buf = <<>> /\ file_size < SizeOfFile
    /\ \E n \in file_size + 1 .. SizeOfFile :
           /\ wire' = wire \o SubSeq(Content(file, TRUE), file_size + 1, n)
           /\ file_size' = n
    /\ UNCHANGED <<client, step, read_buf, write_buf, keep_alive, file, request, answers>>

\* A write fails or would block: Send throws and the client is marked.
SendFails ==
    /\ step = "send" /\ (write_buf # <<>> \/ file_size < SizeOfFile)
    /\ step' = "marked"
    /\ UNCHANGED <<client, read_buf, write_buf, keep_alive, file, request, file_size,
                   answers, wire>>

SendDone ==
    /\ step = "send" /\ write_buf = <<>> /\ file_size = SizeOfFile
    /\ step' = IF keep_alive THEN "process" ELSE "marked"
    /\ UNCHANGED <<client, read_buf, write_buf, keep_alive, file, request, file_size,
                   answers, wire>>

\* The alive time passes while nobody works on the connection.
TimeOut ==
    /\ step \in {"in", "out"}
    /\ step' = "marked"
    /\ UNCHANGED <<client, read_buf, write_buf, keep_alive, file, request, file_size,
                   answers, wire>>

Worker ==
    Process \/ ParseLine \/ Build \/ StartSend \/ SendBuffer \/ SendFile
    \/ SendFails \/ SendDone

Next == Ask \/ Receive \/ ReceiveFails \/ Worker \/ TimeOut

Spec == Init /\ [][Next]_vars

\* The worker runs.  A client that does not read is closed by its timer.
FairSpec == Spec /\ WF_vars(Worker \/ (step = "out" /\ TimeOut))

-----------------------------------------------------------------------------
(* Properties.                                                             *)

\* What the server promised in the heads of its responses, in their order.
AllPromised == FlattenSeq([n \in DOMAIN answers |-> Promised(answers[n], n)])

\* The client can tell the responses apart: what was written is the responses
\* in order, each with the content its head announces, and a connection that
\* goes on has sent them to the end.  No file of an earlier request is sent
\* with a later response, no part of a response twice.
WellFramed ==
    /\ IsPrefix(wire, AllPromised)
    /\ step \in {"in", "process"} => wire = AllPromised

\* A parser error leaves bytes in the buffer, and a client that keeps alive is
\* processed again without receiving: the server does not answer the same
\* bytes for ever, but waits for others or closes.
AnsweringEnds == step \in {"process", "parse", "out", "send"} ~> step \in {"in", "marked"}

\* A part of the last request that was begun has not been received.
Unfinished ==
    inflight # <<>> /\ ~(Head(inflight).line.kind = "status" /\ Head(inflight).part = "begin")

\* "If a user inputs a name <user> and a message <msg>, the server will reply
\* with <user> said "<msg>"", however the requests arrive: a page that answers
\* a form without its input was built before the form had arrived (Parse takes
\* what is there for the whole), or the bytes of the next request followed it.
InputIsEchoed ==
    [][\A n \in DOMAIN answers' \ DOMAIN answers :
          /\ answers'[n].method = "Post" /\ answers'[n].status = "OK"
          /\ answers'[n].echo # "input"
          => Unfinished \/ (asked > 1 /\ request.post = "part")]_vars
=============================================================================
