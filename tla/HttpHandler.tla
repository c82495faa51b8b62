----------------------------- MODULE HttpHandler -----------------------------
(***************************************************************************)
(* http/http_server.cc: ParseHttpRequest, the handler that a reactor runs  *)
(* for every readable connection, with the request parser, the response    *)
(* builder, Buffer::FindAndPopTill and Connection::Send it calls.  The     *)
(* cache is the one LRU specifies (Cache implements it), and the files it  *)
(* serves change underneath.                                               *)
(*                                                                         *)
(* A byte stream is a sequence of fragments: Part carries no \r\n\r\n, any *)
(* other fragment is the request text that its terminator completes.  A    *)
(* text is its request line split at spaces and its header lines split at  *)
(* colons.  File contents differ in their length, so a length stands for   *)
(* the contents; a response takes one unit for its head, one per byte of   *)
(* its body.                                                               *)
(***************************************************************************)
EXTENDS Integers, Sequences, FiniteSets, SequencesExt

CONSTANTS
  Conns, Loopers,
  Home,            \* Connection::owner_looper_
  Texts,           \* the request texts clients send
  Files,           \* paths of the served directory
  Index,           \* urls that end in '/' -> the same url with DEFAULT_ROUTE appended
  CgiUrls,         \* urls that contain CGI_BIN
  Suffix,          \* what follows the last dot of a full path, the directory's dots included
  TypeOf,          \* the type that the name of a file promises its readers
  Sizes,           \* lengths of files
  Start,           \* the files at the beginning
  Becomes,         \* what each of them may change into
  Capacity,        \* of the cache
  SendBuf,         \* units the socket's send buffer takes
  MaxAsked,        \* bound: requests a client sends
  MaxEdits,        \* bound: changes of a file
  Part, None,      \* an unfinished fragment; nothing
  Dir, Unknown     \* instead of a file: a directory, a path that the file system refuses
                   \* to look up (too long a name, no permission, a loop of links)

Kinds == Sizes \cup {Dir, None, Unknown}

ASSUME HttpAssumption ==
  /\ Home \in [Conns -> Loopers] /\ Start \in [Files -> Kinds]
  /\ Becomes \in [Files -> SUBSET Kinds]
  /\ Sizes \subseteq Nat /\ Capacity \in Nat /\ SendBuf \in Nat \ {0}
  /\ {MaxAsked, MaxEdits} \subseteq Nat
  /\ \A u \in DOMAIN Index : Index[u] \in Files
  /\ DOMAIN Suffix \subseteq Files /\ DOMAIN TypeOf = Files
  /\ Part \notin Texts
  /\ None \notin Conns \cup Loopers /\ {None, Dir, Unknown} \cap Nat = {}
  /\ None # Dir /\ Unknown \notin {None, Dir}

VARIABLES
  inbuf, eof, reset,   \* per connection: received bytes, FIN seen, RST seen
  room,                \* free units of its send buffer
  pending,             \* an edge-triggered event the reactor has not taken yet
  alive,               \* the Connection object exists
  readBuf,             \* read_buffer_
  asked, answers,      \* what its client sent and what it was sent, completely
  file, edits,         \* the file system
  order, size,         \* the cache
  pc, frame,           \* per looper: where its handler is, and its locals
  down                 \* None, or the looper whose handler ended the process or left it
                       \* undefined

netVars == <<inbuf, eof, reset, room, pending, asked>>
connVars == <<alive, readBuf, answers>>
fileVars == <<file, edits>>
cacheVars == <<order, size>>
vars == <<netVars, connVars, fileVars, cacheVars, pc, frame, down>>

LRUCache == INSTANCE LRU WITH Keys <- Files

\* The locals of ParseHttpRequest: the request, the response under construction
\* (its should_close_, its url_ being there or not), cache_buf and no_more_parse; and,
\* as history, what the handler saw when it first looked for the file.
NoFrame == [conn |-> None, text |-> None, seen |-> None, status |-> 0, close |-> FALSE,
            length |-> 0, url |-> FALSE, cached |-> None, body |-> 0, noMore |-> FALSE,
            written |-> 0]

Init ==
  /\ inbuf = [c \in Conns |-> <<>>] /\ readBuf = [c \in Conns |-> <<>>]
  /\ eof = [c \in Conns |-> FALSE] /\ reset = [c \in Conns |-> FALSE]
  /\ room = [c \in Conns |-> SendBuf] /\ pending = [c \in Conns |-> FALSE]
  /\ alive = [c \in Conns |-> TRUE]
  /\ asked = [c \in Conns |-> <<>>] /\ answers = [c \in Conns |-> <<>>]
  /\ file = Start /\ edits = 0
  /\ LRUCache!Init
  /\ pc = [l \in Loopers |-> "idle"] /\ frame = [l \in Loopers |-> NoFrame]
  /\ down = None

-----------------------------------------------------------------------------
(* Requests.                                                               *)

\* Format: trimmed and in upper case.  Tokens that are no keyword stay apart.
Format(s) ==
  CASE s \in {"GET", "get"} -> "GET"
    [] s \in {"HEAD", "head"} -> "HEAD"
    [] s \in {"HTTP/1.1", "http/1.1"} -> "HTTP/1.1"
    [] s \in {"Connection", "connection"} -> "CONNECTION"
    [] s \in {" Keep-Alive", "keep-alive"} -> "KEEP-ALIVE"
    [] s \in {"html", "HTML"} -> "HTML"
    [] s \in {"png", "PNG"} -> "PNG"
    [] OTHER -> s

Methods == {"GET", "HEAD"}
Extensions == {"HTML", "CSS", "PNG", "JPG", "JPEG", "GIF"}

ToMethod(s) == IF Format(s) \in Methods THEN Format(s) ELSE "UNSUPPORTED"
ToVersion(s) == IF Format(s) = "HTTP/1.1" THEN "HTTP_1_1" ELSE "UNSUPPORTED"

ParseRequestLine(line) ==
  /\ Len(line) = 3
  /\ ToMethod(line[1]) # "UNSUPPORTED"
  /\ ToVersion(line[3]) # "UNSUPPORTED"

\* Header(header_line): Split drops an empty last token, so "Key:" is invalid.
HeaderValid(h) == Len(h) >= 2

\* The value of a header with a colon in it starts with ':' after Join.
HeaderValue(h) == IF Len(h) = 2 THEN h[2] ELSE ":"

IsValid(t) == ParseRequestLine(t.line) /\ \A i \in DOMAIN t.headers : HeaderValid(t.headers[i])

ShouldClose(t) ==
  ~\E i \in DOMAIN t.headers : /\ Format(t.headers[i][1]) = "CONNECTION"
                               /\ Format(HeaderValue(t.headers[i])) = "KEEP-ALIVE"

GetMethod(t) == ToMethod(t.line[1])

\* The path: the url, with the default route where it names a directory.
Path(t) == IF t.line[2] \in DOMAIN Index THEN Index[t.line[2]] ELSE t.line[2]

IsCgiRequest(t) == Path(t) \in CgiUrls

\* Files has every path that is looked for, the ones that do not exist too.
ASSUME TextAssumption == \A t \in Texts : IsValid(t) /\ ~IsCgiRequest(t) => Path(t) \in Files

ToExtension(s) == IF Format(s) \in Extensions THEN Format(s) ELSE "OCTET"

Mime == [HTML |-> "text/html", CSS |-> "text/css", PNG |-> "image/png", JPG |-> "image/jpg",
         JPEG |-> "image/jpeg", GIF |-> "image/gif", OCTET |-> "application/octet-stream"]

ExtensionToMime(e) == Mime[e]

\* The Content-Type header of a response with a file: none for a path without a dot.
ContentType(p) == IF p \in DOMAIN Suffix THEN ExtensionToMime(ToExtension(Suffix[p])) ELSE None

\* A search that starts at the end of the buffer.
TerminatorLast(buf) == SelectLastInSeq(buf, LAMBDA x : x # Part)

\* Position of the first terminator; 0 if the buffer has none.
Terminator(buf) == SelectInSeq(buf, LAMBDA x : x # Part)

\* What FindAndPopTill leaves in the buffer.
Popped(buf) == SubSeq(buf, Terminator(buf) + 1, Len(buf))

-----------------------------------------------------------------------------
(* The clients, the network and the file system.                           *)

Arrives(c) == pending' = [pending EXCEPT ![c] = TRUE]

\* A client sends the rest of a request, perhaps after a first piece of it.
PeerSend(c, t) ==
  /\ ~eof[c] /\ ~reset[c] /\ Len(asked[c]) < MaxAsked
  /\ inbuf' = [inbuf EXCEPT ![c] = Append(@, t)]
  /\ asked' = [asked EXCEPT ![c] = Append(@, t)]
  /\ Arrives(c)
  /\ UNCHANGED <<eof, reset, room, connVars, fileVars, cacheVars, pc, frame, down>>

PeerSendPart(c) ==
  /\ ~eof[c] /\ ~reset[c] /\ Len(asked[c]) < MaxAsked
  /\ Part \notin ToSet(inbuf[c] \o readBuf[c])
  /\ inbuf' = [inbuf EXCEPT ![c] = Append(@, Part)]
  /\ Arrives(c)
  /\ UNCHANGED <<eof, reset, room, asked, connVars, fileVars, cacheVars, pc, frame, down>>

PeerRead(c) ==
  /\ room[c] < SendBuf
  /\ room' = [room EXCEPT ![c] = SendBuf]
  /\ UNCHANGED <<inbuf, eof, reset, pending, asked, connVars, fileVars, cacheVars, pc, frame, down>>

PeerClose(c) ==
  /\ ~eof[c]
  /\ eof' = [eof EXCEPT ![c] = TRUE]
  /\ Arrives(c)
  /\ UNCHANGED <<inbuf, reset, room, asked, connVars, fileVars, cacheVars, pc, frame, down>>

PeerReset(c) ==
  /\ ~reset[c]
  /\ reset' = [reset EXCEPT ![c] = TRUE]
  /\ inbuf' = [inbuf EXCEPT ![c] = <<>>]
  /\ Arrives(c)
  /\ UNCHANGED <<eof, room, asked, connVars, fileVars, cacheVars, pc, frame, down>>

\* A file is replaced, created or removed, or its path can be looked up no longer.
EditFile(f, n) ==
  /\ edits < MaxEdits /\ file[f] # n
  /\ file' = [file EXCEPT ![f] = n]
  /\ edits' = edits + 1
  /\ UNCHANGED <<netVars, connVars, cacheVars, pc, frame, down>>

-----------------------------------------------------------------------------
(* The handler.  Each step ends where another thread, a client or the file *)
(* system can come in between.                                             *)

Cur(l) == frame[l].conn
Goto(l, from, to) == pc[l] = from /\ pc' = [pc EXCEPT ![l] = to]
Set(l, f) == frame' = [frame EXCEPT ![l] = f]

\* The handler returns to EventLooper::loop.
Return(l) == pc' = [pc EXCEPT ![l] = "idle"] /\ frame' = [frame EXCEPT ![l] = NoFrame]

\* An assertion fails, an exception leaves the handler or a signal arrives.
Dies(l) ==
  /\ down' = l
  /\ UNCHANGED <<netVars, connVars, fileVars, cacheVars, pc, frame>>

RunCallback(l, c) ==
  /\ pc[l] = "idle" /\ Home[c] = l /\ pending[c] /\ alive[c]
  /\ pc' = [pc EXCEPT ![l] = "recv"]
  /\ frame' = [frame EXCEPT ![l].conn = c]
  /\ pending' = [pending EXCEPT ![c] = FALSE]
  /\ UNCHANGED <<inbuf, eof, reset, room, asked, connVars, fileVars, cacheVars, down>>

\* Recv: what is there goes to read_buffer_ ...
RecvChunk(l) ==
  LET c == Cur(l)
  IN /\ pc[l] = "recv" /\ inbuf[c] # <<>>
     /\ readBuf' = [readBuf EXCEPT ![c] = @ \o inbuf[c]]
     /\ inbuf' = [inbuf EXCEPT ![c] = <<>>]
     /\ UNCHANGED <<eof, reset, room, pending, asked, alive, answers, fileVars, cacheVars, pc, frame, down>>

\* ... until the peer has gone, whatever it sent before, or EAGAIN.
RecvReturn(l) ==
  LET c == Cur(l)
  IN /\ pc[l] = "recv" /\ inbuf[c] = <<>>
     /\ Goto(l, "recv", IF eof[c] \/ reset[c] THEN "delete" ELSE "parse")
     /\ UNCHANGED <<netVars, connVars, fileVars, cacheVars, frame, down>>

\* FindAndPopTill finds no terminator: the loop is over.
ParseNothing(l) ==
  /\ pc[l] = "parse" /\ Terminator(readBuf[Cur(l)]) = 0
  /\ Return(l)
  /\ UNCHANGED <<netVars, connVars, fileVars, cacheVars, down>>

\* It finds one: a malformed request is answered 400, a CGI request not at all.
Parse(l) ==
  LET c == Cur(l)
      t == readBuf[c][Terminator(readBuf[c])]
  IN /\ pc[l] = "parse" /\ Terminator(readBuf[c]) # 0
     /\ readBuf' = [readBuf EXCEPT ![c] = Popped(@)]
     /\ \/ /\ ~IsValid(t)
           /\ Goto(l, "parse", "send")
           /\ Set(l, [frame[l] EXCEPT !.text = t, !.status = 400, !.close = TRUE, !.length = 0, !.url = FALSE,
                                        !.noMore = TRUE])
        \/ /\ IsValid(t) /\ IsCgiRequest(t)
           /\ Return(l)
        \/ /\ IsValid(t) /\ ~IsCgiRequest(t)
           /\ Goto(l, "parse", "exists")
           /\ Set(l, [frame[l] EXCEPT !.text = t])
     /\ UNCHANGED <<netVars, alive, answers, fileVars, cacheVars, down>>

OnDisk(l) == file[Path(frame[l].text)]

\* IsFileExist forgotten by the handler.
FileExistsAlways(l) ==
  /\ Goto(l, "exists", "make")
  /\ Set(l, [frame[l] EXCEPT !.seen = OnDisk(l)])
  /\ UNCHANGED <<netVars, connVars, fileVars, cacheVars, down>>

\* IsFileExist, or a 404 response; exists() throws where it cannot tell.
FileExists(l) ==
  \/ /\ pc[l] = "exists" /\ OnDisk(l) # Unknown
     /\ \/ /\ OnDisk(l) # None
           /\ Goto(l, "exists", "make")
           /\ Set(l, [frame[l] EXCEPT !.seen = OnDisk(l)])
        \/ /\ OnDisk(l) = None
           /\ Goto(l, "exists", "send")
           /\ Set(l, [frame[l] EXCEPT !.status = 404, !.close = TRUE, !.length = 0, !.url = FALSE,
                                     !.noMore = TRUE])
     /\ UNCHANGED <<netVars, connVars, fileVars, cacheVars, down>>
  \/ pc[l] = "exists" /\ OnDisk(l) = Unknown /\ Dies(l)

\* A Make200Response that does not pass should_close on.
MakeResponseKeepAlive(l) ==
  /\ pc[l] = "make" /\ OnDisk(l) # Unknown
  /\ \/ /\ OnDisk(l) # None
        /\ Goto(l, "make", "fileSize")
        /\ Set(l, [frame[l] EXCEPT !.status = 200, !.url = TRUE])
     \/ /\ OnDisk(l) = None
        /\ Goto(l, "make", "tryLoad")
        /\ Set(l, [frame[l] EXCEPT !.status = 200, !.url = FALSE, !.length = 0])
  /\ UNCHANGED <<netVars, connVars, fileVars, cacheVars, down>>

\* The constructor of the 200 response writes the Connection header and looks again: a
\* file that vanished has length 0, ...
MakeResponse(l) ==
  LET made == [frame[l] EXCEPT !.status = 200, !.close = ShouldClose(frame[l].text)]
  IN \/ /\ pc[l] = "make" /\ OnDisk(l) # Unknown
        /\ \/ /\ OnDisk(l) # None
              /\ Goto(l, "make", "fileSize")
              /\ Set(l, [made EXCEPT !.url = TRUE])
           \/ /\ OnDisk(l) = None
              /\ Goto(l, "make", "tryLoad")
              /\ Set(l, [made EXCEPT !.url = FALSE, !.length = 0])
        /\ UNCHANGED <<netVars, connVars, fileVars, cacheVars, down>>
     \/ pc[l] = "make" /\ OnDisk(l) = Unknown /\ Dies(l)

\* ... and FileSize throws for a directory and asserts that the file is there.
FileSize(l) ==
  \/ /\ pc[l] = "fileSize" /\ OnDisk(l) \in Sizes
     /\ Goto(l, "fileSize", "tryLoad")
     /\ Set(l, [frame[l] EXCEPT !.length = OnDisk(l)])
     /\ UNCHANGED <<netVars, connVars, fileVars, cacheVars, down>>
  \/ pc[l] = "fileSize" /\ OnDisk(l) \notin Sizes /\ Dies(l)

\* A second reactor has a hit at the same time: both rewrite the list under the shared
\* lock (see Cache), and nothing is known of the cache or the process from then on.
Racing(l) ==
  \E m \in Loopers \ {l} : pc[m] = "tryLoad" /\ Path(frame[m].text) \in ToSet(order)

\* What a hit copies into cache_buf.
Copied(p) == size[p]

TryLoad(l) ==
  LET p == Path(frame[l].text)
  IN /\ Goto(l, "tryLoad", "serialize")
     /\ \/ /\ p \in ToSet(order) /\ LRUCache!Load(p)
           /\ Set(l, [frame[l] EXCEPT !.cached = Copied(p)])
           /\ down' \in IF Racing(l) THEN {None, l} ELSE {None}
        \/ /\ p \notin ToSet(order) /\ UNCHANGED <<cacheVars, down>>
           /\ Set(l, [frame[l] EXCEPT !.cached = None])
     /\ UNCHANGED <<netVars, connVars, fileVars>>

\* SetShouldTransferContent that forgets a cached body is appended as well.
TransferContentTwice(l) == GetMethod(frame[l].text) # "HEAD"

TransferContent(l) == GetMethod(frame[l].text) # "HEAD" /\ frame[l].cached = None

\* Serialize reads the file's contents if they are to be sent and not cached; the
\* stream that LoadFile asserts open may not be, for want of a descriptor or of
\* permission.  A cached body is appended whatever the method.
Serialize(l) ==
  LET loads == frame[l].url /\ TransferContent(l)
      hit == frame[l].cached
  IN \/ /\ pc[l] = "serialize" /\ (loads => OnDisk(l) \in Sizes)
        /\ Goto(l, "serialize", IF hit = None THEN "loadFile" ELSE "send")
        /\ Set(l, [frame[l] EXCEPT !.noMore = ShouldClose(frame[l].text),
                                 !.body = (IF loads THEN OnDisk(l) ELSE 0) + (IF hit = None THEN 0 ELSE hit)])
        /\ UNCHANGED <<netVars, connVars, fileVars, cacheVars, down>>
     \/ pc[l] = "serialize" /\ loads /\ Dies(l)

\* After a miss the file is read once more, with the same risk, into cache_buf, ...
LoadFile(l) ==
  \/ /\ pc[l] = "loadFile" /\ OnDisk(l) \in Sizes
     /\ Goto(l, "loadFile", "tryInsert")
     /\ Set(l, [frame[l] EXCEPT !.cached = OnDisk(l)])
     /\ UNCHANGED <<netVars, connVars, fileVars, cacheVars, down>>
  \/ pc[l] = "loadFile" /\ Dies(l)

\* ... and offered to the cache, which refuses what it has or cannot hold.
TryInsert(l) ==
  LET p == Path(frame[l].text)
      n == frame[l].cached
  IN /\ Goto(l, "tryInsert", "send")
     /\ \/ LRUCache!Insert(p, n)
        \/ (p \in ToSet(order) \/ n > Capacity) /\ UNCHANGED cacheVars
     /\ UNCHANGED <<netVars, connVars, fileVars, frame, down>>

\* What Response::Serialize writes: the status line and the headers the constructor
\* made (Connection, Content-Length, Content-Type), and the body after them.
Answer(f) ==
  [text |-> f.text, status |-> f.status, close |-> f.close, length |-> f.length,
   type |-> IF f.url THEN ContentType(Path(f.text)) ELSE None, body |-> f.body]

\* Connection::Send spins until everything is written.
Left(l) == 1 + frame[l].body - frame[l].written

Send(l) ==
  LET c == Cur(l)
      f == frame[l]
      n == IF room[c] < Left(l) THEN room[c] ELSE Left(l)
  IN /\ pc[l] = "send" /\ ~reset[c] /\ n > 0
     /\ room' = [room EXCEPT ![c] = @ - n]
     /\ \/ /\ n < Left(l)
           /\ Set(l, [f EXCEPT !.written = @ + n])
           /\ UNCHANGED <<pc, answers>>
        \/ /\ n = Left(l)
           /\ Goto(l, "send", "next")
           /\ Set(l, [frame[l] EXCEPT !.written = 0])
           /\ answers' = [answers EXCEPT ![c] = Append(@, Answer(f))]
     /\ UNCHANGED <<inbuf, eof, reset, pending, asked, alive, readBuf, fileVars, cacheVars, down>>

\* On a connection the peer reset, send() reports the error, and the output is
\* dropped, or raises SIGPIPE, which the program does not handle.
SendError(l) ==
  /\ pc[l] = "send" /\ reset[Cur(l)]
  /\ \/ /\ Goto(l, "send", "next")
        /\ Set(l, [frame[l] EXCEPT !.written = 0])
        /\ UNCHANGED <<netVars, connVars, fileVars, cacheVars, down>>
     \/ Dies(l)

\* One request per event.
NextRequestNever(l) ==
  /\ pc[l] = "next"
  /\ \/ frame[l].noMore /\ Goto(l, "next", "delete") /\ UNCHANGED frame
     \/ ~frame[l].noMore /\ Return(l)
  /\ UNCHANGED <<netVars, connVars, fileVars, cacheVars, down>>

NextRequest(l) ==
  /\ Goto(l, "next", IF frame[l].noMore THEN "delete" ELSE "parse")
  /\ frame' = [frame EXCEPT ![l] = [NoFrame EXCEPT !.conn = Cur(l)]]
  /\ UNCHANGED <<netVars, connVars, fileVars, cacheVars, down>>

\* DeleteConnection: the object, its buffers and its descriptor go.
DeleteConnection(l) ==
  /\ pc[l] = "delete"
  /\ alive' = [alive EXCEPT ![Cur(l)] = FALSE]
  /\ readBuf' = [readBuf EXCEPT ![Cur(l)] = <<>>]
  /\ Return(l)
  /\ UNCHANGED <<netVars, answers, fileVars, cacheVars, down>>

Handle(l) ==
  \/ RecvChunk(l) \/ RecvReturn(l) \/ ParseNothing(l) \/ Parse(l) \/ FileExists(l)
  \/ MakeResponse(l) \/ FileSize(l) \/ TryLoad(l) \/ Serialize(l) \/ LoadFile(l)
  \/ TryInsert(l) \/ Send(l) \/ SendError(l) \/ NextRequest(l) \/ DeleteConnection(l)

-----------------------------------------------------------------------------
\* Nothing a client does after the server closed its socket is seen.
Peer(c) ==
  /\ alive[c]
  /\ \/ \E t \in Texts : PeerSend(c, t)
     \/ PeerSendPart(c) \/ PeerRead(c) \/ PeerClose(c) \/ PeerReset(c)

Next ==
  /\ down = None
  /\ \/ \E l \in Loopers, c \in Conns : RunCallback(l, c)
     \/ \E l \in Loopers : Handle(l)
     \/ \E c \in Conns : Peer(c)
     \/ \E f \in Files, n \in Kinds : n \in Becomes[f] /\ EditFile(f, n)

Spec == Init /\ [][Next]_vars

\* Reactors keep running and clients keep reading what they are sent.
FairSpec ==
  /\ Spec
  /\ \A l \in Loopers : WF_vars(down = None /\ (Handle(l) \/ \E c \in Conns : RunCallback(l, c)))
  /\ \A c \in Conns : WF_vars(down = None /\ PeerRead(c))

-----------------------------------------------------------------------------
(* Properties.                                                             *)

\* The elements of s that are in S, in their order.
Only(s, S) ==
  LET upTo[n \in 0..Len(s)] ==
        IF n = 0 THEN <<>>
        ELSE IF s[n] \in S THEN Append(upTo[n - 1], s[n]) ELSE upTo[n - 1]
  IN upTo[Len(s)]

\* The requests of a client that the server has to answer.
AnsweredKinds == {t \in Texts : ~(IsValid(t) /\ IsCgiRequest(t))}
Answerable(c) == Only(asked[c], AnsweredKinds)
Answered(c) == [i \in DOMAIN answers[c] |-> answers[c][i].text]

\* However the requests of a client are cut into pieces and batched, the n-th
\* response answers its n-th request (CGI requests get none), and a request is
\* passed over only after a failed write to a client that is gone.
AnsweredInOrder == \A c \in Conns : ~reset[c] => IsPrefix(Answered(c), Answerable(c))

\* The handler returns with a complete request left in read_buffer_, where only
\* the client's next bytes wake it, in one case: it met a CGI request.
NothingStranded ==
  \A c \in Conns :
    /\ alive[c] /\ (\A l \in Loopers : Cur(l) # c)
    /\ \A i \in DOMAIN asked[c] : ~(IsValid(asked[c][i]) /\ IsCgiRequest(asked[c][i]))
    => Terminator(readBuf[c]) = 0

\* What the Connection header says is what happens: nothing follows a response
\* that announced the end, and its connection is deleted; a client that did not
\* leave is never disconnected without having been told.
CloseIsAnnounced ==
  \A c \in Conns :
    /\ \A i \in DOMAIN answers[c] : answers[c][i].close =>
         /\ i = Len(answers[c])
         /\ alive[c] => \E l \in Loopers : Cur(l) = c /\ pc[l] \in {"next", "delete"}
    /\ ~alive[c] /\ ~eof[c] /\ ~reset[c] =>
         answers[c] # <<>> /\ Last(answers[c]).close

\* While no file changes, Content-Length is the length of the body of every
\* response to a GET, from the cache or not, and of every error response; and a
\* file that was found is sent with the type its name announces, in any case of letters.
Framed ==
  edits = 0 => \A c \in Conns : \A i \in DOMAIN answers[c] :
    LET a == answers[c][i]
    IN /\ a.status # 200 \/ GetMethod(a.text) = "GET" => a.body = a.length
       /\ a.status # 200 => a.type = None
       /\ a.status = 200 => a.type = TypeOf[Path(a.text)]

\* A response to HEAD carries no body.
HeadHasNoBody ==
  \A c \in Conns : \A i \in DOMAIN answers[c] :
    LET a == answers[c][i]
    IN a.status = 200 /\ GetMethod(a.text) = "HEAD" => a.body = 0

\* What may end the process, and where the handler then is: the first look at a path
\* that cannot be looked up; a later look at a directory, or at something else than the
\* first one saw; a file that was not in the cache and cannot be opened; two hits at
\* once; a client that reset.  So none of the assertions that the file is there fires
\* while files stay as they are, and after a hit alone in the cache, or once the file
\* has been read, no file can do harm.
Survives ==
  down # None =>
    LET at == pc[down]
        seen == frame[down].seen
        missed == frame[down].cached = None
    IN \/ at = "exists" /\ OnDisk(down) = Unknown
       \/ /\ at \in {"make", "fileSize", "serialize", "loadFile"} /\ OnDisk(down) \notin Sizes
          /\ OnDisk(down) = Dir \/ OnDisk(down) # seen
       \/ at \in {"serialize", "loadFile"} /\ missed /\ OnDisk(down) \in Sizes
       \/ at = "serialize" /\ ~missed /\ \E m \in Loopers \ {down} : pc[m] = "tryLoad"
       \/ at = "send" /\ reset[Cur(down)]

\* Every request is answered in the end, if its client stays, reads what it is
\* sent and does not ask for CGI, and the process survives.
Served ==
  \A c \in Conns : \A n \in 1..MaxAsked :
    Len(asked[c]) >= n ~>
      \/ Len(answers[c]) >= n \/ ~alive[c] \/ down # None
      \/ \E i \in DOMAIN asked[c] : IsValid(asked[c][i]) /\ IsCgiRequest(asked[c][i])
=============================================================================
