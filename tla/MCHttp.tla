------------------------------- MODULE MCHttp -------------------------------
(* Instances of HttpHandler for TLC. *)
EXTENDS HttpHandler, TLC

Keep == <<<<"Host", " localhost", "12138">>, <<"connection", " Keep-Alive">>>>

GetA == [line |-> <<"GET", "/", "HTTP/1.1">>, headers |-> Keep]
GetB == [line |-> <<"get", "/b.PNG", "HTTP/1.1">>, headers |-> Keep]
HeadA == [line |-> <<"HEAD", "/index.html", "HTTP/1.1">>, headers |-> Keep]
LastA == [line |-> <<"GET", "/index.html", "http/1.1">>, headers |-> <<<<"Connection", " close">>>>]
Missing == [line |-> <<"GET", "/none", "HTTP/1.1">>, headers |-> Keep]
Folder == [line |-> <<"GET", "/img", "HTTP/1.1">>, headers |-> <<>>]
Long == [line |-> <<"GET", "/long", "HTTP/1.1">>, headers |-> Keep]
Cgi == [line |-> <<"GET", "/cgi_bin/x", "HTTP/1.1">>, headers |-> Keep]
BadLine == [line |-> <<"GET", "/index.html">>, headers |-> Keep]
BadHeader == [line |-> <<"GET", "/index.html", "HTTP/1.1">>, headers |-> <<<<"Host">>>>]

AllTexts == {GetA, GetB, HeadA, LastA, Missing, Folder, Long, Cgi, BadLine, BadHeader}
HeadTexts == {GetA, HeadA}

Paths == {"/index.html", "/b.PNG", "/none", "/img", "/long"}
Routes == "/" :> "/index.html"
LastDot == "/index.html" :> "html" @@ "/b.PNG" :> "PNG" @@ "/none" :> "/http_dir//none" @@
           "/img" :> "/http_dir//img" @@ "/long" :> "/http_dir//long"
Types == "/index.html" :> "text/html" @@ "/b.PNG" :> "image/png" @@
         "/none" :> "application/octet-stream" @@ "/img" :> "application/octet-stream" @@
         "/long" :> "application/octet-stream"
Cgis == {"/cgi_bin/x"}
Disk == "/index.html" :> 1 @@ "/b.PNG" :> 2 @@ "/none" :> None @@ "/img" :> Dir @@ "/long" :> Unknown
Changes == "/index.html" :> {2, None, Dir, Unknown} @@ "/b.PNG" :> {1, None} @@ "/none" :> {1} @@
           "/img" :> {} @@ "/long" :> {}
Alone == "c1" :> "l1"
=============================================================================
