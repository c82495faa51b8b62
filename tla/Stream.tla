------------------------------- MODULE Stream -------------------------------
(***************************************************************************)
(* Bytes on one connection: from the client through the kernel's buffers   *)
(* and Connection::Recv into read_buffer_, through a handler, and through  *)
(* write_buffer_ and Connection::Send back.  Two handlers: the echo server *)
(* of simple_demo with its own client, which types, sends and receives in  *)
(* turn; and the HTTP server's request loop, which pops whole requests.    *)
(*                                                                         *)
(* The k-th byte typed at the echo client is the number k.  HTTP text is   *)
(* written in pieces, but the network may cut it anywhere.                 *)
(***************************************************************************)
EXTENDS HttpText

CONSTANTS
  Pieces,       \* what an HTTP client may write at once
  MaxPieces,    \* bound: pieces it writes
  MaxTyped,     \* bound: bytes typed at the echo client
  BufSize,      \* BUF_SIZE of the echo client
  TempBufSize,  \* TEMP_BUF_SIZE of Connection::Recv
  NetSize       \* what each kernel buffer holds in each direction

Chars == UNION {ToSet(p) : p \in Pieces}

ASSUME StreamAssumption ==
  /\ Pieces \subseteq Seq(Chars)
  /\ MaxPieces \in Nat /\ MaxTyped \in Nat
  /\ BufSize \in Nat \ {0} /\ TempBufSize \in Nat \ {0} /\ NetSize \in Nat \ {0}

VARIABLES
  app,       \* which handler the server has: "echo" or "http"
  sent,      \* history: everything the client wrote
  writes,    \* how often
  unsent,    \* what send() has not taken yet: the client is inside it
  waiting,   \* the echo client is inside recv()
  net,       \* on the way to the server
  inq,       \* in the server's receive buffer
  fin,       \* the client closed its end
  reset,     \* the connection is broken
  pc,        \* server: idle, recv, handle, send; or the connection is "gone"
  rbuf,      \* read_buffer_
  wbuf,      \* write_buffer_
  curWrite,  \* cur_write: the bytes of wbuf that send() took
  popped,    \* history: the requests the HTTP handler popped
  outq,      \* on the way back
  got        \* what the client received

clientVars == <<sent, writes, unsent, waiting, got>>
netVars == <<net, inq, fin, reset, outq>>
serverVars == <<pc, rbuf, wbuf, curWrite, popped>>
vars == <<app, clientVars, netVars, serverVars>>

Init ==
  /\ app \in {"echo", "http"}
  /\ sent = <<>> /\ writes = 0 /\ unsent = <<>> /\ waiting = FALSE /\ got = <<>>
  /\ net = <<>> /\ inq = <<>> /\ fin = FALSE /\ reset = FALSE /\ outq = <<>>
  /\ pc = "idle" /\ rbuf = <<>> /\ wbuf = <<>> /\ curWrite = 0 /\ popped = <<>>

Least(m, n) == IF m <= n THEN m ELSE n
Take(s, n) == SubSeq(s, 1, n)

\* Buffer::Append, in all its forms.
BufferAppend(buf, data) == buf \o data

\* Buffer::Size, n bytes at Data() + i, and Clear.
BufferSize(buf) == Len(buf)
BufferData(buf, i, n) == SubSeq(buf, i + 1, i + n)
BufferClear(buf) == <<>>

GetWriteBufferSize == BufferSize(wbuf)

WriteToReadBuffer(data) == rbuf' = BufferAppend(rbuf, data)
WriteToWriteBuffer(data) == wbuf' = BufferAppend(wbuf, data)

\* A copy: read_buffer_ keeps what it has.
ReadAsString == rbuf

-----------------------------------------------------------------------------
(* Clients and the network.                                                *)

\* EchoClient::Begin: read() from the keyboard, then send().
Type(n) ==
  /\ app = "echo" /\ unsent = <<>> /\ ~waiting /\ Len(sent) + n <= MaxTyped
  /\ unsent' = [i \in 1..n |-> Len(sent) + i]
  /\ sent' = sent \o unsent'
  /\ UNCHANGED <<app, writes, waiting, got, netVars, serverVars>>

Write(piece) ==
  /\ app = "http" /\ unsent = <<>> /\ writes < MaxPieces /\ ~fin
  /\ unsent' = piece /\ sent' = sent \o piece /\ writes' = writes + 1
  /\ UNCHANGED <<app, waiting, got, netVars, serverVars>>

\* A blocking send() goes on until everything is taken; the echo client then receives.
ClientSend(n) ==
  /\ unsent # <<>> /\ n <= Len(unsent) /\ Len(net) + n <= NetSize /\ ~reset
  /\ net' = net \o Take(unsent, n)
  /\ unsent' = From(unsent, n + 1)
  /\ waiting' = (app = "echo" /\ unsent' = <<>>)
  /\ UNCHANGED <<app, sent, writes, got, inq, fin, reset, outq, serverVars>>

\* One recv() of at most BUF_SIZE bytes, all of it printed.
ClientRecv ==
  /\ waiting /\ outq # <<>>
  /\ LET n == Least(BufSize, Len(outq))
     IN got' = got \o Take(outq, n) /\ outq' = From(outq, n + 1)
  /\ waiting' = FALSE
  /\ UNCHANGED <<app, sent, writes, unsent, net, inq, fin, reset, serverVars>>

Deliver(n) ==
  /\ n <= Len(net) /\ Len(inq) + n <= NetSize
  /\ inq' = inq \o Take(net, n) /\ net' = From(net, n + 1)
  /\ UNCHANGED <<app, clientVars, fin, reset, outq, serverVars>>

ClientClose ==
  /\ ~fin /\ unsent = <<>>
  /\ fin' = TRUE
  /\ UNCHANGED <<app, clientVars, net, inq, reset, outq, serverVars>>

ClientReset ==
  /\ ~reset
  /\ reset' = TRUE /\ net' = <<>> /\ inq' = <<>> /\ outq' = <<>>
  /\ UNCHANGED <<app, clientVars, fin, serverVars>>

-----------------------------------------------------------------------------
(* Connection.                                                             *)

\* The reactor calls the handler when there is something to read.
Ready ==
  /\ pc = "idle" /\ (inq # <<>> \/ reset \/ (fin /\ net = <<>>))
  /\ pc' = "recv"
  /\ UNCHANGED <<app, clientVars, netVars, rbuf, wbuf, curWrite, popped>>

\* A Recv that appends the whole temporary buffer, not what recv() filled.
RecvChunkWhole ==
  /\ pc = "recv" /\ inq # <<>>
  /\ LET n == Least(TempBufSize, Len(inq))
     IN /\ rbuf' = rbuf \o Take(inq, n) \o [i \in 1..(TempBufSize - n) |-> 0]
        /\ inq' = From(inq, n + 1)
  /\ UNCHANGED <<app, clientVars, net, fin, reset, outq, pc, wbuf, curWrite, popped>>

\* Recv: up to TEMP_BUF_SIZE bytes at a time into read_buffer_ ...
RecvChunk ==
  /\ pc = "recv" /\ inq # <<>>
  /\ LET n == Least(TempBufSize, Len(inq))
     IN WriteToReadBuffer(Take(inq, n)) /\ inq' = From(inq, n + 1)
  /\ UNCHANGED <<app, clientVars, net, fin, reset, outq, pc, wbuf, curWrite, popped>>

\* ... until EAGAIN, the end of the stream or an error; the last two make the
\* handler delete the connection, with what this Recv has read.
RecvReturn ==
  /\ pc = "recv" /\ inq = <<>>
  /\ pc' = IF reset \/ (fin /\ net = <<>>) THEN "gone" ELSE "handle"
  /\ UNCHANGED <<app, clientVars, netVars, rbuf, wbuf, curWrite, popped>>

\* Send: as much as the kernel takes; a full buffer (EAGAIN) is tried again at once.
SendSome(n) ==
  /\ pc = "send" /\ n <= GetWriteBufferSize - curWrite /\ Len(outq) + n <= NetSize /\ ~reset
  /\ outq' = outq \o BufferData(wbuf, curWrite, n)
  /\ curWrite' = curWrite + n
  /\ UNCHANGED <<app, clientVars, net, inq, fin, reset, pc, rbuf, wbuf, popped>>

\* Everything is sent, or an error makes Send give up; both clear write_buffer_,
\* and the echo handler then clears read_buffer_.
SendReturn ==
  /\ pc = "send" /\ (curWrite = GetWriteBufferSize \/ reset)
  /\ wbuf' = BufferClear(wbuf) /\ curWrite' = 0 /\ rbuf' = BufferClear(rbuf) /\ pc' = "idle"
  /\ UNCHANGED <<app, clientVars, netVars, popped>>

-----------------------------------------------------------------------------
(* The handlers.                                                           *)

\* if (read > 1)
HandleEchoMany ==
  /\ app = "echo" /\ pc = "handle"
  /\ IF Len(rbuf) <= 1 THEN UNCHANGED wbuf ELSE wbuf' = BufferAppend(wbuf, rbuf)
  /\ pc' = IF Len(rbuf) <= 1 THEN "idle" ELSE "send"
  /\ UNCHANGED <<app, clientVars, netVars, rbuf, curWrite, popped>>

\* Echo: if (read), WriteToWriteBuffer(ReadAsString()), then Send.
HandleEcho ==
  /\ app = "echo" /\ pc = "handle"
  /\ WriteToWriteBuffer(ReadAsString)
  /\ pc' = IF rbuf = <<>> THEN "idle" ELSE "send"
  /\ UNCHANGED <<app, clientVars, netVars, rbuf, curWrite, popped>>

\* if, where the code has while: one request for each Recv.
HandleHttpOnce ==
  /\ app = "http" /\ pc = "handle" /\ pc' = "idle"
  /\ LET f == FindAndPopTill(rbuf, CRLF \o CRLF)
     IN IF f.found THEN popped' = Append(popped, f.res) /\ rbuf' = f.rest
                   ELSE UNCHANGED <<popped, rbuf>>
  /\ UNCHANGED <<app, clientVars, netVars, wbuf, curWrite>>

\* HTTP: pop a request, until none is left; what remains waits for the next Recv.
\* (A request that ends the loop early ends the stream too: HttpHandler.tla.)
HandleHttp ==
  /\ app = "http" /\ pc = "handle"
  /\ LET f == FindAndPopTill(rbuf, CRLF \o CRLF)
     IN IF f.found THEN popped' = Append(popped, f.res) /\ rbuf' = f.rest /\ UNCHANGED pc
                   ELSE pc' = "idle" /\ UNCHANGED <<popped, rbuf>>
  /\ UNCHANGED <<app, clientVars, netVars, wbuf, curWrite>>

Server ==
  \/ Ready \/ RecvChunk \/ RecvReturn \/ HandleEcho \/ HandleHttp \/ SendReturn
  \/ \E n \in 1..NetSize : SendSome(n)

Next ==
  \/ \E n \in 1..BufSize : Type(n)
  \/ \E piece \in Pieces : Write(piece)
  \/ \E n \in 1..NetSize : ClientSend(n) \/ Deliver(n)
  \/ ClientRecv \/ ClientClose \/ ClientReset \/ Server

\* The reactor, the network and a client inside send() or recv() go on; nobody has to type.
Spec ==
  /\ Init /\ [][Next]_vars
  /\ WF_vars(Server) /\ WF_vars(\E n \in 1..NetSize : Deliver(n))
  /\ WF_vars(\E n \in 1..NetSize : ClientSend(n)) /\ WF_vars(ClientRecv)

-----------------------------------------------------------------------------
(* Properties.                                                             *)

\* The requests a text holds, whatever its cuts: each ends at the first terminator
\* that begins after the last one ended.
Frames(text) ==
  LET from[b \in 1..(Len(text) + 1)] ==
        LET t == Find(text, CRLF \o CRLF, b)
        IN IF t = Npos THEN <<>> ELSE <<SubSeq(text, b, t + 3)>> \o from[t + 4]
  IN from[1]

\* No byte is lost, doubled or overtaken on its way: what was received or popped,
\* what sits in the buffers and what is on the way is what was sent, for any sizes
\* of chunks, partial sends and full kernel buffers, as long as the connection lives.
StreamKept ==
  ~reset /\ pc # "gone" =>
    sent = (IF app = "http" THEN FlattenSeq(popped) ELSE got) \o outq
           \o (IF pc = "send" THEN From(wbuf, curWrite + 1) ELSE rbuf) \o inq \o net \o unsent

\* How the stream was cut does not show: the requests popped so far are the first
\* of the text as a whole, and all of them once everything has been handled.
FramesAreExact ==
  app = "http" =>
    /\ IsPrefix(popped, Frames(sent))
    /\ pc = "idle" /\ ~reset /\ inq = <<>> /\ net = <<>> /\ unsent = <<>> => popped = Frames(sent)

\* Split loses nothing but the delimiters: put between the tokens they give the
\* text back, except for one at its end; and no token holds a delimiter.
SplitIsExact ==
  app = "http" => \A d \in {<<Colon>>, CRLF} :
    LET w == Split(sent, d)
    IN /\ sent # <<>> => Glue(w, d) = sent \/ Glue(w, d) \o d = sent
       /\ \A i \in DOMAIN w : ~Has(w[i], d)

\* What FindAndPopTill hands to Request always passes the two format tests of its
\* constructor (at least two lines, the last one empty) and holds one terminator;
\* and of its lines, each that is a header with one colon, not at its end, is what
\* Serialize makes of the header parsed.
PoppedIsARequest ==
  \A i \in DOMAIN popped :
    LET lines == Split(popped[i], CRLF)
    IN /\ Len(lines) >= 2 /\ Last(lines) = <<>>
       /\ Find(popped[i], CRLF \o CRLF, 1) = Len(popped[i]) - 3
       /\ \A k \in DOMAIN lines :
            LET h == Header(lines[k])
            IN h.valid /\ Last(lines[k]) # Colon /\ Len(Split(lines[k], <<Colon>>)) = 2 =>
                 Serialize(h) = lines[k] \o CRLF

\* Every byte typed comes back as far as the client's socket, unless the client
\* leaves or lags behind for good: it receives once for each time it sends, so the
\* way back may fill up, and then the reactor spins in Send.
EchoArrives ==
  \A k \in 1..MaxTyped :
    (Len(sent) >= k) ~> \/ app = "http" \/ Len(got) + Len(outq) >= k \/ reset \/ fin
                        \/ [](Len(outq) = NetSize /\ pc = "send")
=============================================================================
