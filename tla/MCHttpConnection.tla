-------------------------- MODULE MCHttpConnection --------------------------
EXTENDS HttpConnection

\* A page that closes the connection, a file, a file that is not there, and
\* input to the index page, the last three on a connection that stays open.
GetIndex == <<Status("Get", "index"), Empty>>
GetFile  == <<Status("Get", "file"), Header("keep-alive"), Empty>>
GetOther == <<Status("Get", "missing"), Header("keep-alive"), Empty>>
PostForm == <<Status("Post", "index"), Header("keep-alive"), Header("form"), Empty, Body>>

MCRequests == {GetIndex, GetFile, GetOther, PostForm}
=============================================================================
