----------------------------- MODULE HttpProofs -----------------------------
(***************************************************************************)
(* Proofs about HttpHandler, for any connections, reactors, requests,      *)
(* files, cache and send buffer.                                           *)
(*                                                                         *)
(* A connection is handled by the looper it belongs to and by no other, so *)
(* the invariant is one predicate per looper and one per connection, and a *)
(* step of a handler can only disturb those of the two it is about.        *)
(***************************************************************************)
EXTENDS HttpHandler, Lemmas

Bytes == Texts \cup {Part}

Frame ==
  [conn : Conns \cup {None}, text : Texts \cup {None}, status : Nat, length : Nat,
   url : BOOLEAN, cached : Nat \cup {None}, body : Nat, noMore : BOOLEAN, written : Nat,
   seen : Kinds, close : BOOLEAN]

Reply ==
  [text : Texts, status : Nat, close : BOOLEAN, length : Nat,
   type : {None} \cup {ContentType(Path(t)) : t \in Texts}, body : Nat]

\* Where a handler works on a request that asks for a file ...
Asking == {"exists", "make", "fileSize", "tryLoad", "serialize", "loadFile", "tryInsert"}
\* ... and where it is between two of them.
Between == {"recv", "parse", "next", "delete"}
Pcs == {"idle", "send"} \cup Asking \cup Between

TypeOK ==
  /\ inbuf \in [Conns -> Seq(Bytes)] /\ readBuf \in [Conns -> Seq(Bytes)]
  /\ asked \in [Conns -> Seq(Texts)] /\ answers \in [Conns -> Seq(Reply)]
  /\ eof \in [Conns -> BOOLEAN] /\ reset \in [Conns -> BOOLEAN] /\ alive \in [Conns -> BOOLEAN]
  /\ room \in [Conns -> Nat]
  /\ file \in [Files -> Kinds] /\ edits \in Nat
  /\ size \in [Files -> Nat]
  /\ pc \in [Loopers -> Pcs]
  /\ frame \in [Loopers -> Frame]
  /\ down \in Loopers \cup {None}

\* What a handler that found a file knows of it; the header and no_more_parse, which
\* are set at different places, agree as soon as both are set; and only a miss leads to
\* reading the file for the cache.
Settled(x, f) ==
  /\ x \in {"make", "fileSize", "tryLoad", "serialize", "loadFile"} => f.seen \notin {None, Unknown}
  /\ x \in {"fileSize", "tryLoad", "serialize"} => f.close = ShouldClose(f.text)
  /\ x \in {"loadFile", "tryInsert", "send", "next"} => f.close = f.noMore
  /\ x = "loadFile" => f.cached = None

\* The last response of a connection announced the end.
Announced(c) == answers[c] # <<>> /\ Last(answers[c]).close

\* A handler's connection is its own and is there; its request came from that
\* client, and is one that asks for a file where the file is looked for; while no
\* file changes, a file that was found stays; and a connection is deleted only if
\* the client left or was told.
LooperInv(l) ==
  LET c == Cur(l)
  IN /\ pc[l] = "idle" => c = None
     /\ pc[l] # "idle" => c \in Conns /\ Home[c] = l /\ alive[c]
     /\ pc[l] \in Asking \cup {"send"} => frame[l].text \in Texts /\ frame[l].text \in Range(asked[c])
     /\ pc[l] \in Asking => IsValid(frame[l].text) /\ ~IsCgiRequest(frame[l].text)
     /\ pc[l] = "tryInsert" => frame[l].cached \in Nat
     /\ Settled(pc[l], frame[l])
     /\ edits = 0 /\ pc[l] \in {"make", "fileSize"} => OnDisk(l) # None
     /\ edits = 0 /\ pc[l] \in {"tryLoad", "serialize", "loadFile", "tryInsert"} => OnDisk(l) \in Sizes
     /\ pc[l] = "delete" => eof[c] \/ reset[c] \/ Announced(c)
     /\ pc[l] = "next" /\ frame[l].noMore => reset[c] \/ Announced(c)

\* The handler is about to delete the connection.
Leaving(c) ==
  LET l == Home[c]
  IN Cur(l) = c /\ (pc[l] = "delete" \/ (pc[l] = "next" /\ frame[l].noMore))

NoCgi(c) == \A t \in Range(asked[c]) : ~(IsValid(t) /\ IsCgiRequest(t))

\* What is in the buffers came from the client; a response that announces the end is
\* the last one and its connection goes, and goes only then or after the client;
\* what the handler leaves in read_buffer_ is no request.
ConnInv(c) ==
  /\ Range(inbuf[c]) \cup Range(readBuf[c]) \subseteq {Part} \cup Range(asked[c])
  /\ \A i \in DOMAIN answers[c] : answers[c][i].close => i = Len(answers[c]) /\ (alive[c] => Leaving(c))
  /\ ~alive[c] => eof[c] \/ reset[c] \/ Announced(c)
  /\ alive[c] /\ Cur(Home[c]) # c /\ NoCgi(c) => Terminator(readBuf[c]) = 0

\* The safety properties made inductive.
HttpInv ==
  /\ TypeOK
  /\ \A l \in Loopers : LooperInv(l)
  /\ \A c \in Conns : ConnInv(c)
  /\ Survives

-----------------------------------------------------------------------------
(* The buffer.                                                             *)

\* What FindAndPopTill finds and what it leaves.
LEMMA Popping ==
  ASSUME NEW buf \in Seq(Bytes)
  PROVE  /\ Terminator(buf) # 0 => buf[Terminator(buf)] \in Texts /\ buf[Terminator(buf)] \in Range(buf)
         /\ Popped(buf) \in Seq(Bytes) /\ Range(Popped(buf)) \subseteq Range(buf)
<1> DEFINE I == {i \in 1..Len(buf) : buf[i] # Part}
           n == Terminator(buf)
<1>1. Len(buf) \in Nat /\ DOMAIN buf = 1..Len(buf) /\ \A i \in 1..Len(buf) : buf[i] \in Bytes
  BY LenProperties, ElementOfSeq
<1>2. n = IF I # {} THEN Min(I) ELSE 0
  BY DEF Terminator, SelectInSeq
<1>3. I # {} => n \in I
  <2> SUFFICES ASSUME I # {} PROVE n \in I
    OBVIOUS
  <2>1. I \subseteq Nat
    BY <1>1
  <2>2. \E x \in I : \A y \in I : x <= y
    BY <2>1, LeastNat
  <2> HIDE DEF I
  <2> QED
    BY <1>2, <2>2 DEF Min
<1>4. n \in 0..Len(buf) /\ (n # 0 => buf[n] \in Texts /\ buf[n] \in Range(buf))
  <2>1. CASE I = {}
    BY <1>1, <1>2, <2>1
  <2>2. CASE I # {}
    <3>1. n \in 1..Len(buf) /\ buf[n] # Part
      BY <1>3, <2>2
    <3> HIDE DEF n
    <3> QED
      BY <1>1, <3>1 DEF Bytes, Range
  <2> QED
    BY <2>1, <2>2
<1>5. \A i \in n + 1 .. Len(buf) : buf[i] \in Range(buf)
  BY <1>1, <1>4 DEF Range
<1> HIDE DEF n
<1>6. SubSeq(buf, n + 1, Len(buf)) \in Seq(Range(buf))
  BY <1>1, <1>4, <1>5, SubSeqProperties
<1>7. Range(buf) \subseteq Bytes
  BY <1>1 DEF Range
<1>8. Popped(buf) \in Seq(Range(buf))
  BY <1>6 DEF Popped, n
<1>9. Range(Popped(buf)) \subseteq Range(buf)
  BY <1>8, RangeOfSeq
<1> QED
  BY <1>4, <1>7, <1>8, <1>9, SeqMonotonic DEF n

-----------------------------------------------------------------------------
(* What a step has to show.                                                *)

\* The connection of a handler that runs, and that nobody else handles it.
LEMMA Handling ==
  ASSUME HttpInv, NEW l \in Loopers, pc[l] # "idle"
  PROVE  /\ Cur(l) \in Conns /\ Home[Cur(l)] = l /\ alive[Cur(l)]
         /\ \A k \in Loopers \ {l} : Cur(k) # Cur(l)
<1>1. Cur(l) \in Conns /\ Home[Cur(l)] = l /\ alive[Cur(l)]
  BY DEF HttpInv, LooperInv
<1>2. ASSUME NEW k \in Loopers, Cur(k) = Cur(l) PROVE k = l
  <2>1. pc[k] # "idle"
    BY <1>1, <1>2, HttpAssumption DEF HttpInv, LooperInv
  <2> QED
    BY <1>1, <1>2, <2>1 DEF HttpInv, LooperInv
<1> QED
  BY <1>1, <1>2

\* A step of one handler.
LEMMA OneHandler ==
  ASSUME TypeOK, NEW l \in Loopers, NEW x \in Pcs, NEW f \in Frame,
         pc' = [pc EXCEPT ![l] = x], frame' = [frame EXCEPT ![l] = f]
  PROVE  /\ pc' \in [Loopers -> Pcs] /\ frame' \in [Loopers -> Frame]
         /\ pc'[l] = x /\ frame'[l] = f
         /\ \A k \in Loopers \ {l} : pc'[k] = pc[k] /\ frame'[k] = frame[k]
BY DEF TypeOK

\* A handler's step can only disturb its looper and its connection.
LEMMA HandlerStep ==
  ASSUME HttpInv, NEW l \in Loopers, NEW c \in Conns, pc[l] # "idle", c = Cur(l),
         TypeOK', down' = None \/ Survives', UNCHANGED <<asked, eof, reset, file, edits>>,
         \A k \in Loopers \ {l} : pc'[k] = pc[k] /\ frame'[k] = frame[k],
         frame'[l].conn \in {c, None},
         \A d \in Conns \ {c} : /\ inbuf'[d] = inbuf[d] /\ readBuf'[d] = readBuf[d]
                               /\ answers'[d] = answers[d] /\ alive'[d] = alive[d],
         LooperInv(l)', ConnInv(c)'
  PROVE  HttpInv'
<1>1. c = Cur(l) /\ Home[c] = l /\ \A k \in Loopers \ {l} : Cur(k) # c
  BY Handling
<1>2. ASSUME NEW k \in Loopers \ {l} PROVE LooperInv(k)'
  <2>1. LooperInv(k)
    BY DEF HttpInv
  <2>2. Cur(k) # c /\ frame'[k] = frame[k] /\ pc'[k] = pc[k]
    BY <1>1
  <2>3. CASE pc[k] = "idle"
    BY <2>1, <2>2, <2>3 DEF LooperInv, Cur, Asking
  <2>4. CASE pc[k] # "idle"
    <3>1. frame[k].conn \in Conns \ {c}
      BY <2>1, <2>2, <2>4 DEF LooperInv, Cur
    <3> QED
      BY <2>1, <2>2, <3>1 DEF LooperInv, Cur, OnDisk, Announced
  <2> QED
    BY <2>3, <2>4
<1>3. ASSUME NEW d \in Conns \ {c} PROVE ConnInv(d)'
  <2>1. ConnInv(d) /\ Home[d] \in Loopers
    BY HttpAssumption DEF HttpInv
  <2>2. CASE Home[d] # l
    BY <2>1, <2>2 DEF ConnInv, Leaving, Announced, NoCgi, Cur
  <2>3. CASE Home[d] = l
    <3>1. frame[l].conn # d /\ frame'[l].conn # d
      BY <1>1, HttpAssumption DEF Cur
    <3> QED
      BY <2>1, <2>3, <3>1 DEF ConnInv, Leaving, Announced, NoCgi, Cur
  <2> QED
    BY <2>2, <2>3
<1> QED
  BY <1>2, <1>3 DEF HttpInv, Survives

\* What a client does only adds to what its connection has seen.
LEMMA PeerStep ==
  ASSUME HttpInv, NEW c \in Conns, alive[c], down = None, TypeOK',
         UNCHANGED <<connVars, fileVars, cacheVars, pc, frame, down>>,
         \A d \in Conns \ {c} : /\ inbuf'[d] = inbuf[d] /\ asked'[d] = asked[d]
                               /\ eof'[d] = eof[d] /\ reset'[d] = reset[d],
         Range(asked[c]) \subseteq Range(asked'[c]), eof[c] => eof'[c], reset[c] => reset'[c],
         Range(inbuf'[c]) \subseteq {Part} \cup Range(asked'[c])
  PROVE  HttpInv'
<1>1. ASSUME NEW l \in Loopers PROVE LooperInv(l)'
  <2>1. LooperInv(l) /\ pc' = pc /\ frame' = frame /\ alive' = alive /\ answers' = answers
        /\ file' = file /\ edits' = edits
    BY DEF HttpInv, connVars, fileVars
  <2>2. pc[l] # "idle" => Cur(l) \in Conns
    BY <2>1 DEF LooperInv
  <2>3. \A d \in Conns : Range(asked[d]) \subseteq Range(asked'[d]) /\ (eof[d] => eof'[d]) /\ (reset[d] => reset'[d])
    OBVIOUS
  <2> QED
    BY <2>1, <2>2, <2>3 DEF LooperInv, Cur, OnDisk, Announced, Asking
<1>2. ASSUME NEW d \in Conns PROVE ConnInv(d)'
  <2>1. ConnInv(d) /\ UNCHANGED <<pc, frame, alive, answers, readBuf>>
    BY DEF HttpInv, connVars
  <2>2. CASE d # c
    BY <2>1, <2>2 DEF ConnInv, Leaving, Announced, NoCgi, Cur
  <2>3. CASE d = c
    BY <2>1, <2>3 DEF ConnInv, Leaving, Announced, NoCgi, Cur
  <2> QED
    BY <2>2, <2>3
<1> QED
  BY <1>1, <1>2 DEF HttpInv, Survives

\* A handler that dies leaves everything as it is: what killed it is in the state.
LEMMA DyingStep ==
  ASSUME HttpInv, NEW l \in Loopers, Dies(l), Survives'
  PROVE  HttpInv'
<1>1. TypeOK'
  BY DEF HttpInv, TypeOK, Dies, netVars, connVars, fileVars, cacheVars
<1>2. ASSUME NEW k \in Loopers PROVE LooperInv(k)'
  BY DEF HttpInv, LooperInv, Cur, OnDisk, Announced, Dies, netVars, connVars, fileVars
<1>3. ASSUME NEW d \in Conns PROVE ConnInv(d)'
  BY DEF HttpInv, ConnInv, Leaving, Announced, NoCgi, Cur, Dies, netVars, connVars
<1> QED
  BY <1>1, <1>2, <1>3 DEF HttpInv

\* A step between RecvReturn and Send changes nothing but the handler's own state.
LEMMA LocalStep ==
  ASSUME HttpInv, NEW l \in Loopers, down = None, pc[l] \in Asking \cup {"recv"},
         NEW x \in {"send"} \cup Asking \cup Between, NEW f \in Frame, f.conn = Cur(l),
         pc' = [pc EXCEPT ![l] = x], frame' = [frame EXCEPT ![l] = f],
         UNCHANGED <<netVars, connVars, fileVars>>, size' \in [Files -> Nat],
         down' \in Loopers \cup {None}, down' = None \/ Survives', Settled(x, f),
         f.text = frame[l].text, x = "tryInsert" => f.cached \in Nat,
         x \in Asking \cup {"send"} => pc[l] \in Asking,
         x \in Asking /\ edits = 0 => OnDisk(l) # None,
         x \in {"tryLoad", "serialize", "loadFile", "tryInsert"} /\ edits = 0 => OnDisk(l) \in Sizes,
         x = "delete" => eof[Cur(l)] \/ reset[Cur(l)], x # "next"
  PROVE  HttpInv'
<1>0. PICK c \in Conns : c = Cur(l)
  BY Handling DEF Asking
<1>1. c = Cur(l) /\ Home[c] = l /\ alive[c] /\ pc[l] # "idle"
  BY <1>0, Handling DEF Asking
<1>2. /\ TypeOK' /\ pc'[l] = x /\ frame'[l] = f
      /\ \A k \in Loopers \ {l} : pc'[k] = pc[k] /\ frame'[k] = frame[k]
  <2>1. x \in Pcs
    BY DEF Pcs
  <2>2. /\ pc' \in [Loopers -> Pcs] /\ frame' \in [Loopers -> Frame]
        /\ pc'[l] = x /\ frame'[l] = f
        /\ \A k \in Loopers \ {l} : pc'[k] = pc[k] /\ frame'[k] = frame[k]
    BY <2>1, OneHandler DEF HttpInv
  <2>3. TypeOK'
    BY <2>2 DEF HttpInv, TypeOK, netVars, connVars, fileVars
  <2> QED
    BY <2>2, <2>3
<1>3. LooperInv(l)'
  <2>1. LooperInv(l) /\ UNCHANGED <<inbuf, eof, reset, asked, alive, readBuf, answers, file, edits>>
    BY DEF HttpInv, netVars, connVars, fileVars
  <2>2. x # "idle"
    BY DEF Asking, Between
  <2>3. OnDisk(l)' = OnDisk(l)
    BY <1>2, <2>1 DEF OnDisk
  <2>4. "next" \notin Asking /\ "delete" \notin Asking
    BY DEF Asking
  <2> QED
    BY <1>1, <1>2, <2>1, <2>2, <2>3, <2>4 DEF LooperInv, Cur, Asking
<1>4. ConnInv(c)'
  <2>1. ConnInv(c) /\ ~Leaving(c)
    BY <1>1 DEF HttpInv, Leaving, Asking
  <2>2. /\ UNCHANGED <<inbuf, eof, reset, asked, alive, readBuf, answers>>
        /\ frame'[l].conn = c
    BY <1>1, <1>2 DEF netVars, connVars
  <2> QED
    BY <1>1, <2>1, <2>2 DEF ConnInv, Cur
<1> QED
  BY <1>1, <1>2, <1>3, <1>4, HandlerStep DEF netVars, connVars, fileVars, Cur

-----------------------------------------------------------------------------
(* Every action keeps the invariant.                                       *)

LEMMA RunCallbackKeeps ==
  ASSUME HttpInv, NEW l \in Loopers, NEW c \in Conns, RunCallback(l, c), down = None
  PROVE  HttpInv'
<1>1. /\ pc[l] = "idle" /\ Home[c] = l /\ alive[c]
      /\ UNCHANGED <<inbuf, eof, reset, room, asked, connVars, fileVars, cacheVars, down>>
  BY DEF RunCallback
<1>2. /\ TypeOK' /\ pc'[l] = "recv" /\ frame'[l].conn = c
      /\ \A k \in Loopers \ {l} : pc'[k] = pc[k] /\ frame'[k] = frame[k]
  <2> DEFINE f == [frame[l] EXCEPT !.conn = c]
  <2>1. frame[l] \in Frame /\ f \in Frame /\ f.conn = c
    BY DEF HttpInv, TypeOK, Frame
  <2>2. pc' = [pc EXCEPT ![l] = "recv"] /\ frame' = [frame EXCEPT ![l] = f] /\ "recv" \in Pcs
    BY DEF RunCallback, Pcs, Between
  <2> HIDE DEF f
  <2>3. /\ pc' \in [Loopers -> Pcs] /\ frame' \in [Loopers -> Frame]
        /\ pc'[l] = "recv" /\ frame'[l] = f
        /\ \A k \in Loopers \ {l} : pc'[k] = pc[k] /\ frame'[k] = frame[k]
    BY <2>1, <2>2, OneHandler DEF HttpInv
  <2>4. TypeOK'
    BY <1>1, <2>3 DEF HttpInv, TypeOK, connVars, fileVars, cacheVars
  <2> QED
    BY <2>1, <2>3, <2>4
<1>3. frame[l].conn = None /\ None \notin Conns
  BY <1>1, HttpAssumption DEF HttpInv, LooperInv, Cur
<1>4. ASSUME NEW k \in Loopers PROVE LooperInv(k)'
  <2>1. CASE k = l
    BY <1>1, <1>2, <2>1 DEF LooperInv, Cur, Asking, Settled, connVars
  <2>2. CASE k # l
    BY <1>1, <1>2, <2>2 DEF HttpInv, LooperInv, Cur, OnDisk, Announced, connVars, fileVars
  <2> QED
    BY <2>1, <2>2
<1>5. ASSUME NEW d \in Conns PROVE ConnInv(d)'
  <2>1. ConnInv(d) /\ Home[d] \in Loopers
    BY HttpAssumption DEF HttpInv
  <2>2. CASE Home[d] # l
    BY <1>1, <1>2, <2>1, <2>2 DEF ConnInv, Leaving, Announced, NoCgi, Cur, connVars
  <2>3. CASE Home[d] = l
    BY <1>1, <1>2, <1>3, <2>1, <2>3 DEF ConnInv, Leaving, Announced, NoCgi, Cur, connVars
  <2> QED
    BY <2>2, <2>3
<1> QED
  BY <1>1, <1>2, <1>4, <1>5 DEF HttpInv, Survives

LEMMA RecvChunkKeeps ==
  ASSUME HttpInv, NEW l \in Loopers, RecvChunk(l), down = None
  PROVE  HttpInv'
<1>0. PICK c \in Conns : c = Cur(l)
  BY Handling DEF RecvChunk
<1>1. pc[l] = "recv" /\ c = Cur(l) /\ Home[c] = l /\ alive[c]
  BY <1>0, Handling DEF RecvChunk
<1>2. UNCHANGED <<eof, reset, room, asked, alive, answers, fileVars, cacheVars, pc, frame, down>>
  BY DEF RecvChunk
<1>3. /\ inbuf' \in [Conns -> Seq(Bytes)] /\ readBuf' \in [Conns -> Seq(Bytes)]
      /\ Range(readBuf'[c]) = Range(readBuf[c]) \cup Range(inbuf[c]) /\ inbuf'[c] = <<>>
      /\ \A d \in Conns \ {c} : inbuf'[d] = inbuf[d] /\ readBuf'[d] = readBuf[d]
  <2>1. inbuf[c] \in Seq(Bytes) /\ readBuf[c] \in Seq(Bytes)
    BY <1>1 DEF HttpInv, TypeOK
  <2>2. /\ readBuf[c] \o inbuf[c] \in Seq(Bytes)
        /\ Range(readBuf[c] \o inbuf[c]) = Range(readBuf[c]) \cup Range(inbuf[c])
    BY <2>1, ConcatProperties, RangeConcatenation
  <2>3. <<>> \in Seq(Bytes)
    BY EmptySeq
  <2> QED
    BY <1>1, <2>2, <2>3 DEF RecvChunk, HttpInv, TypeOK
<1>4. TypeOK'
  BY <1>2, <1>3 DEF HttpInv, TypeOK, fileVars, cacheVars
<1>5. LooperInv(l)'
  BY <1>1, <1>2 DEF HttpInv, LooperInv, Cur, Asking
<1>6. ConnInv(c)'
  <2>1. ConnInv(c) /\ ~Leaving(c)
    BY <1>1 DEF HttpInv, Leaving
  <2>2. Range(<<>>) = {}
    BY DEF Range
  <2>3. frame'[l].conn = c
    BY <1>1, <1>2 DEF Cur
  <2> QED
    BY <1>1, <1>2, <1>3, <2>1, <2>2, <2>3 DEF ConnInv, Cur
<1> QED
  BY <1>1, <1>2, <1>3, <1>4, <1>5, <1>6, HandlerStep DEF fileVars, Cur

LEMMA RecvReturnKeeps ==
  ASSUME HttpInv, NEW l \in Loopers, RecvReturn(l), down = None
  PROVE  HttpInv'
<1> DEFINE x == IF eof[Cur(l)] \/ reset[Cur(l)] THEN "delete" ELSE "parse"
<1>1. /\ pc[l] = "recv" /\ pc' = [pc EXCEPT ![l] = x] /\ frame' = frame
      /\ UNCHANGED <<netVars, connVars, fileVars, cacheVars, down>>
  BY DEF RecvReturn, Goto
<1>2. frame[l] \in Frame /\ frame' = [frame EXCEPT ![l] = frame[l]] /\ size' \in [Files -> Nat]
  BY <1>1 DEF HttpInv, TypeOK, cacheVars
<1>3. /\ x \in Between /\ x \notin Asking \cup {"send", "next"} /\ (x = "delete" => eof[Cur(l)] \/ reset[Cur(l)])
      /\ Settled(x, frame[l])
  BY DEF Between, Asking, Settled
<1> HIDE DEF x
<1> QED
  BY <1>1, <1>2, <1>3, LocalStep DEF Cur, Asking

\* The path of the request a handler works on is one the model has a file for.
LEMMA AskedPath ==
  ASSUME HttpInv, NEW l \in Loopers, pc[l] \in Asking
  PROVE  /\ frame[l] \in Frame /\ Path(frame[l].text) \in Files
         /\ OnDisk(l) \in Kinds /\ Sizes \subseteq Nat
         /\ size[Path(frame[l].text)] \in Nat
<1>1. frame[l].text \in Texts /\ IsValid(frame[l].text) /\ ~IsCgiRequest(frame[l].text)
  BY DEF HttpInv, LooperInv
<1>2. Path(frame[l].text) \in Files
  BY <1>1, TextAssumption
<1> QED
  BY <1>2, HttpAssumption DEF HttpInv, TypeOK, OnDisk

\* What ends the process on account of a file: it cannot be looked up, is not what it
\* was, is a directory, or cannot be opened after a miss.
LEMMA FileKills ==
  ASSUME HttpInv, NEW l \in Loopers, Dies(l), pc[l] \in Asking,
         \/ pc[l] = "exists" /\ OnDisk(l) = Unknown
         \/ pc[l] \in {"make", "fileSize", "serialize", "loadFile"} /\ OnDisk(l) \notin Sizes
         \/ pc[l] \in {"serialize", "loadFile"} /\ frame[l].cached = None
  PROVE  HttpInv'
<1>1. UNCHANGED <<file, pc, frame>> /\ down' = l
  BY DEF Dies, fileVars
<1>2. OnDisk(l)' = OnDisk(l) /\ OnDisk(l) \in Kinds
  BY <1>1, AskedPath DEF OnDisk
<1>3. Settled(pc[l], frame[l])
  BY DEF HttpInv, LooperInv
<1>4. \/ pc[l] = "exists" /\ OnDisk(l) = Unknown
      \/ /\ pc[l] \in {"make", "fileSize", "serialize", "loadFile"} /\ OnDisk(l) \notin Sizes
         /\ OnDisk(l) = Dir \/ OnDisk(l) # frame[l].seen
      \/ pc[l] \in {"serialize", "loadFile"} /\ frame[l].cached = None /\ OnDisk(l) \in Sizes
  BY <1>2, <1>3 DEF Settled, Kinds
<1>5. Survives'
  BY <1>1, <1>2, <1>4 DEF Survives, OnDisk
<1> QED
  BY <1>5, DyingStep

\* The response to a request that cannot be served.
Refused(g, n) ==
  [g EXCEPT !.status = n, !.close = TRUE, !.length = 0, !.url = FALSE, !.noMore = TRUE]

LEMMA RefusedFrame ==
  ASSUME NEW g \in Frame, NEW n \in Nat
  PROVE  /\ Refused(g, n) \in Frame /\ Refused(g, n).conn = g.conn /\ Refused(g, n).text = g.text
         /\ Settled("send", Refused(g, n))
<1> DEFINE a == [g EXCEPT !.status = n, !.length = 0]
           f == [a EXCEPT !.close = TRUE, !.url = FALSE, !.noMore = TRUE]
<1>1. a \in Frame /\ a.conn = g.conn /\ a.text = g.text
  BY DEF Frame
<1>2. f = Refused(g, n)
  BY DEF Refused
<1> HIDE DEF a
<1>3. f \in Frame /\ f.conn = a.conn /\ f.text = a.text /\ f.close = f.noMore
  BY <1>1 DEF Frame
<1> QED
  BY <1>1, <1>2, <1>3 DEF Settled

LEMMA FileExistsKeeps ==
  ASSUME HttpInv, NEW l \in Loopers, FileExists(l), down = None
  PROVE  HttpInv'
<1>1. pc[l] = "exists" /\ pc[l] \in Asking
  BY DEF FileExists, Asking
<1>2. CASE OnDisk(l) = Unknown
  BY <1>1, <1>2, FileKills DEF FileExists
<1>3. CASE OnDisk(l) # Unknown
  <2>1. UNCHANGED <<netVars, connVars, fileVars, cacheVars, down>>
    BY <1>3 DEF FileExists
  <2>2. frame[l] \in Frame /\ size' \in [Files -> Nat] /\ OnDisk(l) \in Kinds
    BY <1>1, <2>1, AskedPath DEF HttpInv, TypeOK, cacheVars
  <2>3. CASE OnDisk(l) # None
    <3> DEFINE n == OnDisk(l)
               f == [frame[l] EXCEPT !.seen = n]
    <3>1. /\ "make" \in Asking /\ "make" \notin {"tryLoad", "serialize", "loadFile", "tryInsert", "delete", "next"}
          /\ pc' = [pc EXCEPT ![l] = "make"] /\ frame' = [frame EXCEPT ![l] = f]
      BY <1>3, <2>3 DEF FileExists, Goto, Set, Asking
    <3> HIDE DEF n
    <3>2. f \in Frame /\ f.conn = Cur(l) /\ f.text = frame[l].text /\ f.seen = n
      BY <2>2 DEF Frame, Cur, n
    <3> HIDE DEF f
    <3>3. Settled("make", f)
      BY <1>3, <2>3, <3>2 DEF Settled, n
    <3> QED
      BY <1>1, <2>1, <2>2, <2>3, <3>1, <3>2, <3>3, LocalStep
  <2>4. CASE OnDisk(l) = None
    <3> DEFINE f == Refused(frame[l], 404)
    <3>1. f \in Frame /\ f.conn = Cur(l) /\ f.text = frame[l].text /\ Settled("send", f)
      BY <2>2, RefusedFrame DEF Cur
    <3>2. /\ "send" \notin Asking /\ "send" \notin {"delete", "next"}
          /\ pc' = [pc EXCEPT ![l] = "send"] /\ frame' = [frame EXCEPT ![l] = f]
      BY <1>3, <2>4 DEF FileExists, Goto, Set, Asking, Refused
    <3> HIDE DEF f
    <3> QED
      BY <1>1, <2>1, <2>2, <3>1, <3>2, LocalStep DEF Asking
  <2> QED
    BY <2>3, <2>4
<1> QED
  BY <1>2, <1>3

\* The 200 response under construction.
Made(g) == [g EXCEPT !.status = 200, !.close = ShouldClose(g.text)]

LEMMA MadeFrame ==
  ASSUME NEW g \in Frame
  PROVE  LET f == [Made(g) EXCEPT !.url = TRUE]
             h == [Made(g) EXCEPT !.url = FALSE, !.length = 0]
         IN /\ f \in Frame /\ f.conn = g.conn /\ f.text = g.text /\ f.seen = g.seen
            /\ f.close = ShouldClose(f.text) /\ f.status = 200 /\ f.url /\ f.body = g.body
            /\ h \in Frame /\ h.conn = g.conn /\ h.text = g.text /\ h.seen = g.seen
            /\ h.close = ShouldClose(h.text)
<1> DEFINE b == ShouldClose(g.text)
           a == [g EXCEPT !.status = 200]
           m == [a EXCEPT !.close = b]
<1>1. b \in BOOLEAN
  BY DEF ShouldClose
<1>2. m = Made(g)
  BY DEF Made
<1>3. /\ a \in Frame /\ a.conn = g.conn /\ a.text = g.text /\ a.seen = g.seen
      /\ a.status = 200 /\ a.body = g.body
  BY DEF Frame
<1> HIDE DEF a, b
<1>4. /\ m \in Frame /\ m.conn = a.conn /\ m.text = a.text /\ m.seen = a.seen
      /\ m.close = b /\ m.status = a.status /\ m.body = a.body
  BY <1>1, <1>3 DEF Frame
<1> HIDE DEF m
<1>5. LET f == [m EXCEPT !.url = TRUE]
      IN /\ f \in Frame /\ f.conn = m.conn /\ f.text = m.text /\ f.seen = m.seen /\ f.close = m.close
         /\ f.status = m.status /\ f.url /\ f.body = m.body
  BY <1>4 DEF Frame
<1>6. LET h == [m EXCEPT !.url = FALSE, !.length = 0]
      IN h \in Frame /\ h.conn = m.conn /\ h.text = m.text /\ h.seen = m.seen /\ h.close = m.close
  BY <1>4 DEF Frame
<1> QED
  BY <1>2, <1>3, <1>4, <1>5, <1>6 DEF b

LEMMA MakeResponseKeeps ==
  ASSUME HttpInv, NEW l \in Loopers, MakeResponse(l), down = None
  PROVE  HttpInv'
<1>1. pc[l] = "make" /\ pc[l] \in Asking
  BY DEF MakeResponse, Asking
<1>2. CASE OnDisk(l) = Unknown
  <2>1. OnDisk(l) \notin Sizes
    BY <1>2, HttpAssumption
  <2> QED
    BY <1>1, <1>2, <2>1, FileKills DEF MakeResponse
<1>3. CASE OnDisk(l) # Unknown
  <2>1. UNCHANGED <<netVars, connVars, fileVars, cacheVars, down>>
    BY <1>3 DEF MakeResponse
  <2>2. /\ frame[l] \in Frame /\ size' \in [Files -> Nat] /\ (edits = 0 => OnDisk(l) # None)
        /\ frame[l].seen \notin {None, Unknown}
    BY <1>1, <2>1, AskedPath DEF HttpInv, TypeOK, cacheVars, LooperInv, Settled
  <2>3. CASE OnDisk(l) # None
    <3> DEFINE f == [Made(frame[l]) EXCEPT !.url = TRUE]
    <3>1. f \in Frame /\ f.conn = Cur(l) /\ f.text = frame[l].text /\ Settled("fileSize", f)
      <4>1. /\ f \in Frame /\ f.conn = frame[l].conn /\ f.text = frame[l].text
            /\ f.seen = frame[l].seen /\ f.close = ShouldClose(f.text)
        BY <2>2, MadeFrame
      <4> HIDE DEF f
      <4> QED
        BY <2>2, <4>1 DEF Settled, Cur
    <3>2. /\ "fileSize" \in Asking
          /\ "fileSize" \notin {"tryLoad", "serialize", "loadFile", "tryInsert", "delete", "next"}
          /\ pc' = [pc EXCEPT ![l] = "fileSize"] /\ frame' = [frame EXCEPT ![l] = f]
      BY <1>3, <2>3 DEF MakeResponse, Goto, Set, Asking, Made
    <3> HIDE DEF f
    <3> QED
      BY <1>1, <2>1, <2>2, <2>3, <3>1, <3>2, LocalStep
  <2>4. CASE OnDisk(l) = None
    <3> DEFINE f == [Made(frame[l]) EXCEPT !.url = FALSE, !.length = 0]
    <3>1. f \in Frame /\ f.conn = Cur(l) /\ f.text = frame[l].text /\ Settled("tryLoad", f)
      <4>1. /\ f \in Frame /\ f.conn = frame[l].conn /\ f.text = frame[l].text
            /\ f.seen = frame[l].seen /\ f.close = ShouldClose(f.text)
        BY <2>2, MadeFrame
      <4> HIDE DEF f
      <4> QED
        BY <2>2, <4>1 DEF Settled, Cur
    <3>2. /\ "tryLoad" \in Asking /\ "tryLoad" \notin {"delete", "next"}
          /\ pc' = [pc EXCEPT ![l] = "tryLoad"] /\ frame' = [frame EXCEPT ![l] = f]
      BY <1>3, <2>4 DEF MakeResponse, Goto, Set, Asking, Made
    <3> HIDE DEF f
    <3> QED
      BY <1>1, <2>1, <2>2, <2>4, <3>1, <3>2, LocalStep
  <2> QED
    BY <2>3, <2>4
<1> QED
  BY <1>2, <1>3

LEMMA FileSizeKeeps ==
  ASSUME HttpInv, NEW l \in Loopers, FileSize(l), down = None
  PROVE  HttpInv'
<1>1. pc[l] = "fileSize" /\ pc[l] \in Asking
  BY DEF FileSize, Asking
<1>2. CASE OnDisk(l) \notin Sizes
  BY <1>1, <1>2, FileKills DEF FileSize
<1>3. CASE OnDisk(l) \in Sizes
  <2> DEFINE n == OnDisk(l)
             f == [frame[l] EXCEPT !.length = n]
  <2>1. /\ pc' = [pc EXCEPT ![l] = "tryLoad"] /\ frame' = [frame EXCEPT ![l] = f]
        /\ UNCHANGED <<netVars, connVars, fileVars, cacheVars, down>>
    BY <1>3 DEF FileSize, Goto, Set
  <2>2. frame[l] \in Frame /\ n \in Nat /\ size' \in [Files -> Nat] /\ n # None
    BY <1>1, <1>3, <2>1, AskedPath, HttpAssumption DEF HttpInv, TypeOK, cacheVars
  <2> HIDE DEF n
  <2>3. f \in Frame /\ f.conn = Cur(l) /\ f.text = frame[l].text /\ Settled("tryLoad", f)
    <3>1. /\ f \in Frame /\ f.conn = Cur(l) /\ f.text = frame[l].text
          /\ f.seen = frame[l].seen /\ f.close = frame[l].close
      BY <2>2 DEF Frame, Cur
    <3> HIDE DEF f
    <3> QED
      BY <1>1, <3>1 DEF HttpInv, LooperInv, Settled
  <2>4. "tryLoad" \in Asking /\ "tryLoad" \notin {"delete", "next"}
    BY DEF Asking
  <2> HIDE DEF f
  <2> QED
    BY <1>1, <1>3, <2>1, <2>2, <2>3, <2>4, LocalStep DEF n
<1> QED
  BY <1>2, <1>3

LEMMA TryLoadKeeps ==
  ASSUME HttpInv, NEW l \in Loopers, TryLoad(l), down = None
  PROVE  HttpInv'
<1>1. /\ pc[l] = "tryLoad" /\ pc[l] \in Asking /\ pc' = [pc EXCEPT ![l] = "serialize"]
      /\ UNCHANGED <<netVars, connVars, fileVars>> /\ down' \in {None, l}
  BY DEF TryLoad, Goto, Asking
<1>2. frame[l] \in Frame /\ size[Path(frame[l].text)] \in Nat /\ (edits = 0 => OnDisk(l) \in Sizes)
  BY <1>1, AskedPath DEF HttpInv, LooperInv
<1>3. PICK v \in Nat \cup {None} : size' = size /\ frame' = [frame EXCEPT ![l] = [frame[l] EXCEPT !.cached = v]]
  BY <1>2 DEF TryLoad, Copied, Set, cacheVars, LRUCache!Load
<1> DEFINE f == [frame[l] EXCEPT !.cached = v]
<1>4. f \in Frame /\ f.conn = Cur(l) /\ f.text = frame[l].text /\ Settled("serialize", f)
  <2>1. /\ f \in Frame /\ f.conn = Cur(l) /\ f.text = frame[l].text
        /\ f.seen = frame[l].seen /\ f.close = frame[l].close
    BY <1>2 DEF Frame, Cur
  <2> HIDE DEF f
  <2> QED
    BY <1>1, <2>1 DEF HttpInv, LooperInv, Settled
<1>5. size' \in [Files -> Nat] /\ frame' = [frame EXCEPT ![l] = f]
  BY <1>3 DEF HttpInv, TypeOK
<1>6. "serialize" \in Asking /\ "serialize" \notin {"delete", "next"}
  BY DEF Asking
<1>7. edits = 0 => OnDisk(l) # None
  BY <1>2, HttpAssumption
<1>8. down' = None \/ Survives'
  <2> SUFFICES ASSUME down' # None PROVE Survives'
    OBVIOUS
  <2>1. down' = l /\ Racing(l) /\ v # None /\ frame'[l].cached = v
    <3>1. down' = l /\ Path(frame[l].text) \in ToSet(order)
      BY <1>1 DEF TryLoad
    <3>2. Racing(l) /\ frame'[l] = [frame[l] EXCEPT !.cached = size[Path(frame[l].text)]]
      BY <3>1, HttpAssumption DEF TryLoad, Copied, Set, HttpInv, TypeOK
    <3>3. frame'[l].cached = size[Path(frame[l].text)] /\ frame'[l].cached = v
      BY <1>2, <1>3, <3>2 DEF Frame, HttpInv, TypeOK
    <3> QED
      BY <1>2, <3>1, <3>2, <3>3, HttpAssumption
  <2>2. PICK k \in Loopers \ {l} : pc[k] = "tryLoad"
    BY <2>1 DEF Racing
  <2>3. pc'[l] = "serialize" /\ pc'[k] = "tryLoad"
    BY <1>1, <2>2 DEF HttpInv, TypeOK
  <2> QED
    BY <2>1, <2>2, <2>3 DEF Survives
<1> HIDE DEF f
<1> QED
  BY <1>1, <1>2, <1>4, <1>5, <1>6, <1>7, <1>8, LocalStep

LEMMA SerializeKeeps ==
  ASSUME HttpInv, NEW l \in Loopers, Serialize(l), down = None
  PROVE  HttpInv'
<1> DEFINE loads == frame[l].url /\ TransferContent(l)
           hit == frame[l].cached
           m == ShouldClose(frame[l].text)
           n == (IF loads THEN OnDisk(l) ELSE 0) + (IF hit = None THEN 0 ELSE hit)
           f == [frame[l] EXCEPT !.noMore = m, !.body = n]
<1>1. pc[l] = "serialize" /\ pc[l] \in Asking
  BY DEF Serialize, Asking
<1>2. CASE loads /\ Dies(l)
  BY <1>1, <1>2, FileKills DEF TransferContent
<1>3. CASE ~(loads /\ Dies(l))
  <2> DEFINE x == IF hit = None THEN "loadFile" ELSE "send"
  <2>1. /\ pc' = [pc EXCEPT ![l] = x] /\ frame' = [frame EXCEPT ![l] = f]
        /\ UNCHANGED <<netVars, connVars, fileVars, cacheVars, down>>
        /\ loads => OnDisk(l) \in Sizes
    BY <1>3 DEF Serialize, Goto, Set
  <2>2. frame[l] \in Frame /\ Sizes \subseteq Nat /\ size' \in [Files -> Nat]
    BY <1>1, <2>1, AskedPath DEF HttpInv, TypeOK, cacheVars
  <2>3. hit \in Nat \cup {None}
    BY <2>2 DEF Frame
  <2>4. n \in Nat
    <3> DEFINE a == IF loads THEN OnDisk(l) ELSE 0
               b == IF hit = None THEN 0 ELSE hit
    <3>1. a \in Nat
      <4> HIDE DEF loads
      <4> QED
        BY <2>1, <2>2
    <3>2. b \in Nat
      <4> HIDE DEF hit
      <4> QED
        BY <2>3
    <3> HIDE DEF a, b
    <3>3. a + b \in Nat
      BY <3>1, <3>2
    <3> QED
      BY <3>3 DEF a, b
  <2>5. m \in BOOLEAN
    BY DEF ShouldClose
  <2> HIDE DEF n, m
  <2>6. f \in Frame /\ f.conn = Cur(l) /\ f.text = frame[l].text /\ Settled(x, f)
    <3>1. /\ f \in Frame /\ f.conn = Cur(l) /\ f.text = frame[l].text /\ f.noMore = m
          /\ f.seen = frame[l].seen /\ f.close = frame[l].close /\ f.cached = hit
      BY <2>2, <2>4, <2>5 DEF Frame, Cur
    <3> HIDE DEF f
    <3> QED
      BY <1>1, <3>1 DEF HttpInv, LooperInv, Settled, m
  <2>7. x \in Asking \cup {"send"} /\ x \notin {"delete", "next"} /\ (x \in Asking => x = "loadFile")
    BY DEF Asking
  <2>8. edits = 0 => OnDisk(l) \in Sizes /\ OnDisk(l) # None
    BY <1>1, HttpAssumption DEF HttpInv, LooperInv
  <2> HIDE DEF f, x
  <2> QED
    BY <1>1, <2>1, <2>2, <2>6, <2>7, <2>8, LocalStep
<1> QED
  BY <1>2, <1>3

LEMMA LoadFileKeeps ==
  ASSUME HttpInv, NEW l \in Loopers, LoadFile(l), down = None
  PROVE  HttpInv'
<1>1. pc[l] = "loadFile" /\ pc[l] \in Asking
  BY DEF LoadFile, Asking
<1>2. CASE Dies(l)
  <2>1. frame[l].cached = None
    BY <1>1 DEF HttpInv, LooperInv, Settled
  <2> QED
    BY <1>1, <1>2, <2>1, FileKills
<1>3. CASE OnDisk(l) \in Sizes /\ ~Dies(l)
  <2> DEFINE n == OnDisk(l)
             f == [frame[l] EXCEPT !.cached = n]
  <2>1. /\ pc' = [pc EXCEPT ![l] = "tryInsert"] /\ frame' = [frame EXCEPT ![l] = f]
        /\ UNCHANGED <<netVars, connVars, fileVars, cacheVars, down>>
    BY <1>3 DEF LoadFile, Goto, Set
  <2>2. frame[l] \in Frame /\ n \in Nat /\ size' \in [Files -> Nat] /\ n # None
    BY <1>1, <1>3, <2>1, AskedPath, HttpAssumption DEF HttpInv, TypeOK, cacheVars
  <2> HIDE DEF n
  <2>3. f \in Frame /\ f.conn = Cur(l) /\ f.text = frame[l].text /\ f.cached = n /\ Settled("tryInsert", f)
    <3>1. /\ f \in Frame /\ f.conn = Cur(l) /\ f.text = frame[l].text /\ f.cached = n
          /\ f.noMore = frame[l].noMore /\ f.close = frame[l].close
      BY <2>2 DEF Frame, Cur
    <3> HIDE DEF f
    <3> QED
      BY <1>1, <3>1 DEF HttpInv, LooperInv, Settled
  <2>4. "tryInsert" \in Asking /\ "tryInsert" \notin {"delete", "next"}
    BY DEF Asking
  <2> HIDE DEF f
  <2> QED
    BY <1>1, <1>3, <2>1, <2>2, <2>3, <2>4, LocalStep DEF n
<1> QED
  BY <1>2, <1>3 DEF LoadFile

LEMMA TryInsertKeeps ==
  ASSUME HttpInv, NEW l \in Loopers, TryInsert(l), down = None
  PROVE  HttpInv'
<1>1. /\ pc[l] = "tryInsert" /\ pc[l] \in Asking /\ pc' = [pc EXCEPT ![l] = "send"]
      /\ UNCHANGED <<netVars, connVars, fileVars, frame, down>>
  BY DEF TryInsert, Goto, Asking
<1>2. frame[l] \in Frame /\ frame' = [frame EXCEPT ![l] = frame[l]] /\ size \in [Files -> Nat]
  BY <1>1 DEF HttpInv, TypeOK
<1>3. size' \in [Files -> Nat]
  <2> DEFINE p == Path(frame[l].text)
             n == frame[l].cached
  <2>1. n \in Nat
    BY <1>1 DEF HttpInv, LooperInv
  <2>2. CASE LRUCache!Insert(p, n)
    <3> HIDE DEF n
    <3> QED
      BY <1>2, <2>1, <2>2 DEF LRUCache!Insert
  <2>3. CASE UNCHANGED cacheVars
    BY <1>2, <2>3 DEF cacheVars
  <2> QED
    BY <2>2, <2>3 DEF TryInsert
<1>4. "send" \notin Asking /\ "send" \notin {"delete", "next"} /\ Settled("send", frame[l])
  BY <1>1 DEF Asking, HttpInv, LooperInv, Settled
<1> QED
  BY <1>1, <1>2, <1>3, <1>4, LocalStep DEF Cur, Asking

\* A handler that returns leaves an idle looper.
LEMMA Returning ==
  ASSUME HttpInv, NEW l \in Loopers, Return(l)
  PROVE  /\ pc' \in [Loopers -> Pcs] /\ frame' \in [Loopers -> Frame]
         /\ pc'[l] = "idle" /\ frame'[l].conn = None
         /\ \A k \in Loopers \ {l} : pc'[k] = pc[k] /\ frame'[k] = frame[k]
         /\ LooperInv(l)'
<1>1. NoFrame \in Frame /\ NoFrame.conn = None /\ "idle" \in Pcs
  BY DEF NoFrame, Frame, Pcs, Kinds
<1>2. /\ pc' \in [Loopers -> Pcs] /\ frame' \in [Loopers -> Frame]
      /\ pc'[l] = "idle" /\ frame'[l] = NoFrame
      /\ \A k \in Loopers \ {l} : pc'[k] = pc[k] /\ frame'[k] = frame[k]
  BY <1>1, OneHandler DEF Return, HttpInv
<1>3. LooperInv(l)'
  BY <1>1, <1>2 DEF LooperInv, Cur, Asking, Settled
<1> QED
  BY <1>1, <1>2, <1>3

LEMMA ParseNothingKeeps ==
  ASSUME HttpInv, NEW l \in Loopers, ParseNothing(l), down = None
  PROVE  HttpInv'
<1>0. PICK c \in Conns : c = Cur(l)
  BY Handling DEF ParseNothing
<1>1. pc[l] = "parse" /\ c = Cur(l) /\ Home[c] = l /\ alive[c] /\ Terminator(readBuf[c]) = 0
  BY <1>0, Handling DEF ParseNothing
<1>2. Return(l) /\ UNCHANGED <<netVars, connVars, fileVars, cacheVars, down>>
  BY DEF ParseNothing
<1>3. TypeOK'
  BY <1>2, Returning DEF HttpInv, TypeOK, netVars, connVars, fileVars, cacheVars
<1>4. ConnInv(c)'
  <2>1. ConnInv(c) /\ ~Leaving(c)
    BY <1>1 DEF HttpInv, Leaving
  <2>2. UNCHANGED <<inbuf, eof, reset, asked, alive, readBuf, answers>>
    BY <1>2 DEF netVars, connVars
  <2>3. Terminator(readBuf[c])' = 0
    BY <1>1, <2>2
  <2> QED
    BY <1>1, <2>1, <2>2, <2>3 DEF ConnInv
<1> QED
  BY <1>1, <1>2, <1>3, <1>4, Returning, HandlerStep DEF netVars, connVars, fileVars

\* A request taken out of read_buffer_: whatever becomes of it, the rest stays.
LEMMA ParseKeeps ==
  ASSUME HttpInv, NEW l \in Loopers, Parse(l), down = None
  PROVE  HttpInv'
<1>0. PICK c \in Conns : c = Cur(l)
  BY Handling DEF Parse
<1>1. pc[l] = "parse" /\ c = Cur(l) /\ Home[c] = l /\ alive[c] /\ Terminator(readBuf[c]) # 0
  BY <1>0, Handling DEF Parse
<1>2. PICK t : t = readBuf[c][Terminator(readBuf[c])]
  OBVIOUS
<1>3. t \in Texts /\ t \in Range(readBuf[c]) /\ t \in Range(asked[c])
  <2>1. t \in Texts /\ t \in Range(readBuf[c])
    BY <1>1, <1>2, Popping DEF HttpInv, TypeOK
  <2> QED
    BY <2>1, HttpAssumption DEF HttpInv, ConnInv
<1>4. /\ readBuf' \in [Conns -> Seq(Bytes)] /\ Range(readBuf'[c]) \subseteq Range(readBuf[c])
      /\ \A d \in Conns \ {c} : readBuf'[d] = readBuf[d]
      /\ UNCHANGED <<netVars, alive, answers, fileVars, cacheVars, down>>
  <2>1. /\ readBuf' = [readBuf EXCEPT ![c] = Popped(readBuf[c])]
        /\ UNCHANGED <<netVars, alive, answers, fileVars, cacheVars, down>>
    BY <1>1 DEF Parse
  <2>2. Popped(readBuf[c]) \in Seq(Bytes) /\ Range(Popped(readBuf[c])) \subseteq Range(readBuf[c])
    BY Popping DEF HttpInv, TypeOK
  <2> QED
    BY <2>1, <2>2 DEF HttpInv, TypeOK
<1>5. ConnInv(c) /\ ~Leaving(c)
  BY <1>1 DEF HttpInv, Leaving
<1>6. ASSUME NEW x \in Pcs, NEW f \in Frame, f.conn = c, x \in {"send", "exists"}, f.text = t,
             x = "exists" => IsValid(t) /\ ~IsCgiRequest(t), Settled(x, f),
             pc' = [pc EXCEPT ![l] = x], frame' = [frame EXCEPT ![l] = f]
      PROVE  HttpInv'
  <2>1. /\ pc' \in [Loopers -> Pcs] /\ frame' \in [Loopers -> Frame]
        /\ pc'[l] = x /\ frame'[l] = f
        /\ \A k \in Loopers \ {l} : pc'[k] = pc[k] /\ frame'[k] = frame[k]
    BY <1>6, OneHandler DEF HttpInv
  <2>2. TypeOK'
    BY <1>4, <2>1 DEF HttpInv, TypeOK, netVars, fileVars, cacheVars
  <2>3. LooperInv(l)'
    BY <1>1, <1>3, <1>4, <1>6, <2>1 DEF LooperInv, Cur, Asking, netVars
  <2>4. ConnInv(c)'
    BY <1>1, <1>4, <1>5, <1>6, <2>1 DEF ConnInv, Cur, netVars
  <2> QED
    BY <1>1, <1>4, <1>6, <2>1, <2>2, <2>3, <2>4, HandlerStep DEF netVars, fileVars
<1>7. frame[l] \in Frame
  BY DEF HttpInv, TypeOK
<1>8. CASE ~IsValid(t)
  <2> DEFINE g == [frame[l] EXCEPT !.text = t]
             f == Refused(g, 400)
  <2>1. g \in Frame /\ g.conn = frame[l].conn /\ g.text = t
    BY <1>3, <1>7 DEF Frame
  <2>2. pc' = [pc EXCEPT ![l] = "send"] /\ frame' = [frame EXCEPT ![l] = f]
    BY <1>1, <1>2, <1>8 DEF Parse, Goto, Set, Refused
  <2>3. "send" \in Pcs
    BY DEF Pcs
  <2> HIDE DEF g
  <2>4. f \in Frame /\ f.conn = g.conn /\ f.text = g.text /\ Settled("send", f)
    BY <2>1, RefusedFrame
  <2> HIDE DEF f
  <2> QED
    BY <1>1, <1>6, <2>1, <2>2, <2>3, <2>4 DEF Cur
<1>9. CASE IsValid(t) /\ ~IsCgiRequest(t)
  <2> DEFINE f == [frame[l] EXCEPT !.text = t]
  <2>1. f \in Frame /\ f.conn = frame[l].conn /\ f.text = t
    BY <1>3, <1>7 DEF Frame
  <2>2. pc' = [pc EXCEPT ![l] = "exists"] /\ frame' = [frame EXCEPT ![l] = f]
    BY <1>1, <1>2, <1>9 DEF Parse, Goto, Set
  <2>3. "exists" \in Pcs /\ Settled("exists", f)
    BY DEF Pcs, Asking, Settled
  <2> HIDE DEF f
  <2> QED
    BY <1>1, <1>6, <1>9, <2>1, <2>2, <2>3 DEF Cur
<1>10. CASE IsValid(t) /\ IsCgiRequest(t)
  <2>1. Return(l)
    BY <1>1, <1>2, <1>10 DEF Parse
  <2>2. TypeOK'
    BY <1>4, <2>1, Returning DEF HttpInv, TypeOK, netVars, fileVars, cacheVars
  <2>3. ~NoCgi(c)'
    BY <1>3, <1>4, <1>10 DEF NoCgi, netVars
  <2>4. ConnInv(c)'
    BY <1>1, <1>4, <1>5, <2>3 DEF ConnInv, netVars
  <2> QED
    BY <1>1, <1>4, <2>1, <2>2, <2>4, Returning, HandlerStep DEF netVars, fileVars
<1> QED
  BY <1>8, <1>9, <1>10

\* Sending changes no field but written, and only the last piece of a response adds
\* to what the client was sent.
LEMMA SendKeeps ==
  ASSUME HttpInv, NEW l \in Loopers, Send(l), down = None
  PROVE  HttpInv'
<1>0. PICK c \in Conns : c = Cur(l)
  BY Handling DEF Send
<1>1. pc[l] = "send" /\ c = Cur(l) /\ Home[c] = l /\ alive[c]
  BY <1>0, Handling DEF Send
<1>2. /\ frame[l] \in Frame /\ frame[l].text \in Texts /\ frame[l].text \in Range(asked[c])
      /\ frame[l].body \in Nat /\ frame[l].written \in Nat
  BY <1>1 DEF HttpInv, TypeOK, LooperInv, Frame
<1>3. UNCHANGED <<inbuf, eof, reset, asked, alive, readBuf, fileVars, cacheVars, down>>
  BY DEF Send
<1>4. ConnInv(c) /\ ~Leaving(c)
  BY <1>1 DEF HttpInv, Leaving
<1> DEFINE n == IF room[c] < Left(l) THEN room[c] ELSE Left(l)
           Written(v) == [frame[l] EXCEPT !.written = v]
<1>9. room[c] \in Nat /\ Left(l) \in Int /\ n > 0 /\ room' = [room EXCEPT ![c] = room[c] - n]
  BY <1>1, <1>2 DEF Send, Left, HttpInv, TypeOK
<1>10. n \in Nat /\ room' \in [Conns -> Nat]
  <2>1. n \in Nat /\ n <= room[c]
    BY <1>9
  <2> HIDE DEF n
  <2> QED
    BY <1>9, <2>1 DEF HttpInv, TypeOK
<1>5. ASSUME NEW v \in Nat
      PROVE  /\ Written(v) \in Frame /\ Written(v).conn = c
             /\ Written(v).text = frame[l].text /\ Written(v).noMore = frame[l].noMore
             /\ Settled("send", Written(v)) /\ Settled("next", Written(v))
  <2>1. /\ Written(v) \in Frame /\ Written(v).conn = c
        /\ Written(v).text = frame[l].text /\ Written(v).noMore = frame[l].noMore
        /\ Written(v).close = frame[l].close
    BY <1>1, <1>2 DEF Frame, Cur
  <2>2. frame[l].close = frame[l].noMore
    BY <1>1 DEF HttpInv, LooperInv, Settled
  <2> HIDE DEF Written
  <2> QED
    BY <2>1, <2>2 DEF Settled
<1>6. CASE n < Left(l)
  <2> DEFINE v == frame[l].written + n
  <2>2. v \in Nat
    <3> HIDE DEF n
    <3> QED
      BY <1>2, <1>10
  <2>3. frame' = [frame EXCEPT ![l] = Written(v)] /\ pc' = [pc EXCEPT ![l] = "send"] /\ answers' = answers
    <3>1. Set(l, [frame[l] EXCEPT !.written = @ + n]) /\ pc' = pc /\ answers' = answers
      BY <1>1, <1>6, <1>9 DEF Send, Goto
    <3>2. pc = [pc EXCEPT ![l] = "send"]
      BY <1>1 DEF HttpInv, TypeOK
    <3> QED
      BY <3>1, <3>2 DEF Set
  <2> HIDE DEF Written, v
  <2>4. /\ pc' \in [Loopers -> Pcs] /\ frame' \in [Loopers -> Frame]
        /\ pc'[l] = "send" /\ frame'[l] = Written(v)
        /\ \A k \in Loopers \ {l} : pc'[k] = pc[k] /\ frame'[k] = frame[k]
    BY <1>5, <2>2, <2>3, OneHandler DEF HttpInv, Pcs
  <2>5. TypeOK'
    BY <1>3, <1>10, <2>3, <2>4 DEF HttpInv, TypeOK, fileVars, cacheVars
  <2>6. LooperInv(l)'
    BY <1>1, <1>2, <1>3, <1>5, <2>2, <2>4 DEF LooperInv, Cur, Asking
  <2>7. ConnInv(c)'
    BY <1>1, <1>3, <1>4, <1>5, <2>2, <2>3, <2>4 DEF ConnInv, Cur
  <2> QED
    BY <1>1, <1>3, <1>5, <2>2, <2>3, <2>4, <2>5, <2>6, <2>7, HandlerStep DEF fileVars
<1>7. CASE ~(n < Left(l))
  <2> DEFINE a == Answer(frame[l])
  <2>1. /\ frame' = [frame EXCEPT ![l] = Written(0)] /\ pc' = [pc EXCEPT ![l] = "next"]
        /\ answers' = [answers EXCEPT ![c] = Append(answers[c], a)]
    BY <1>1, <1>7 DEF Send, Set, Goto
  <2>2. a \in Reply /\ a.close = frame[l].noMore
    <3>1. frame[l].close = frame[l].noMore
      BY <1>1 DEF HttpInv, LooperInv, Settled
    <3> QED
      BY <1>2, <3>1 DEF Answer, Reply, Frame
  <2> HIDE DEF Written, a
  <2>3. /\ pc' \in [Loopers -> Pcs] /\ frame' \in [Loopers -> Frame]
        /\ pc'[l] = "next" /\ frame'[l] = Written(0)
        /\ \A k \in Loopers \ {l} : pc'[k] = pc[k] /\ frame'[k] = frame[k]
    BY <1>5, <2>1, OneHandler DEF HttpInv, Pcs, Between
  <2>4. /\ answers' \in [Conns -> Seq(Reply)] /\ answers'[c] = Append(answers[c], a)
        /\ answers[c] \in Seq(Reply) /\ \A d \in Conns \ {c} : answers'[d] = answers[d]
    BY <2>1, <2>2, AppendProperties DEF HttpInv, TypeOK
  <2>5. /\ Len(answers[c]) \in Nat /\ DOMAIN answers[c] = 1..Len(answers[c])
        /\ DOMAIN answers'[c] = 1..(Len(answers[c]) + 1) /\ Len(answers'[c]) = Len(answers[c]) + 1
        /\ \A i \in 1..Len(answers[c]) : answers'[c][i] = answers[c][i]
        /\ answers'[c][Len(answers[c]) + 1] = a
        /\ answers'[c] # <<>>
    BY <2>2, <2>4, AppendFacts
  <2>6. TypeOK'
    BY <1>3, <1>10, <2>3, <2>4 DEF HttpInv, TypeOK, fileVars, cacheVars
  <2>7. frame[l].noMore => Announced(c)'
    BY <2>2, <2>5 DEF Announced, Last
  <2>8. frame'[l].conn = c /\ frame'[l].noMore = frame[l].noMore /\ Settled(pc'[l], frame'[l])
    BY <1>5, <2>3
  <2>9. LooperInv(l)'
    BY <1>1, <1>3, <2>3, <2>7, <2>8 DEF LooperInv, Cur, Asking
  <2>10. ConnInv(c)'
    <3>1. ASSUME NEW i \in DOMAIN answers'[c], answers'[c][i].close
          PROVE  i = Len(answers'[c]) /\ Leaving(c)'
      <4>1. i = Len(answers[c]) + 1
        BY <1>1, <1>4, <2>5, <3>1 DEF ConnInv
      <4>2. frame[l].noMore
        BY <2>2, <2>5, <3>1, <4>1
      <4> QED
        BY <1>1, <2>3, <2>5, <2>8, <4>1, <4>2 DEF Leaving, Cur
    <3> QED
      BY <1>1, <1>3, <1>4, <2>8, <3>1 DEF ConnInv, Cur
  <2> QED
    BY <1>1, <1>3, <2>3, <2>4, <2>6, <2>8, <2>9, <2>10, HandlerStep DEF fileVars
<1> QED
  BY <1>6, <1>7

LEMMA SendErrorKeeps ==
  ASSUME HttpInv, NEW l \in Loopers, SendError(l), down = None
  PROVE  HttpInv'
<1>0. PICK c \in Conns : c = Cur(l)
  BY Handling DEF SendError
<1>1. pc[l] = "send" /\ c = Cur(l) /\ Home[c] = l /\ alive[c] /\ reset[c]
  BY <1>0, Handling DEF SendError
<1>2. CASE Dies(l)
  <2>1. Survives'
    BY <1>1, <1>2 DEF Survives, Dies, Cur, netVars
  <2> QED
    BY <1>2, <2>1, DyingStep
<1>3. CASE ~Dies(l)
  <2> DEFINE f == [frame[l] EXCEPT !.written = 0]
  <2>1. /\ pc' = [pc EXCEPT ![l] = "next"] /\ frame' = [frame EXCEPT ![l] = f]
        /\ UNCHANGED <<netVars, connVars, fileVars, cacheVars, down>>
    BY <1>3 DEF SendError, Goto, Set
  <2>2. f \in Frame /\ f.conn = c /\ Settled("next", f)
    <3>1. frame[l] \in Frame
      BY DEF HttpInv, TypeOK
    <3>2. f \in Frame /\ f.conn = c /\ f.close = frame[l].close /\ f.noMore = frame[l].noMore
      BY <1>1, <3>1 DEF Frame, Cur
    <3> HIDE DEF f
    <3> QED
      BY <1>1, <3>2 DEF HttpInv, LooperInv, Settled
  <2> HIDE DEF f
  <2>3. /\ pc' \in [Loopers -> Pcs] /\ frame' \in [Loopers -> Frame]
        /\ pc'[l] = "next" /\ frame'[l] = f
        /\ \A k \in Loopers \ {l} : pc'[k] = pc[k] /\ frame'[k] = frame[k]
    BY <2>1, <2>2, OneHandler DEF HttpInv, Pcs, Between
  <2>4. TypeOK'
    BY <2>1, <2>3 DEF HttpInv, TypeOK, netVars, connVars, fileVars, cacheVars
  <2>5. LooperInv(l)'
    BY <1>1, <2>1, <2>2, <2>3 DEF LooperInv, Cur, Asking, netVars, connVars
  <2>6. ConnInv(c)'
    <3>1. ConnInv(c) /\ ~Leaving(c)
      BY <1>1 DEF HttpInv, Leaving
    <3> QED
      BY <1>1, <2>1, <2>2, <2>3, <3>1 DEF ConnInv, Cur, netVars, connVars
  <2> QED
    BY <1>1, <2>1, <2>2, <2>3, <2>4, <2>5, <2>6, HandlerStep DEF netVars, connVars, fileVars
<1> QED
  BY <1>2, <1>3

LEMMA NextRequestKeeps ==
  ASSUME HttpInv, NEW l \in Loopers, NextRequest(l), down = None
  PROVE  HttpInv'
<1>0. PICK c \in Conns : c = Cur(l)
  BY Handling DEF NextRequest, Goto
<1>1. pc[l] = "next" /\ c = Cur(l) /\ Home[c] = l /\ alive[c]
  BY <1>0, Handling DEF NextRequest, Goto
<1> DEFINE x == IF frame[l].noMore THEN "delete" ELSE "parse"
           f == [NoFrame EXCEPT !.conn = c]
<1>2. /\ pc' = [pc EXCEPT ![l] = x] /\ frame' = [frame EXCEPT ![l] = f]
      /\ UNCHANGED <<netVars, connVars, fileVars, cacheVars, down>>
  BY <1>1 DEF NextRequest, Goto
<1>3. f \in Frame /\ f.conn = c
  BY DEF NoFrame, Frame, Kinds
<1>4. x \in Pcs /\ x \in {"delete", "parse"} /\ (frame[l].noMore <=> x = "delete")
  BY DEF Pcs, Between, HttpInv, TypeOK, Frame
<1> HIDE DEF f, x
<1>5. /\ pc' \in [Loopers -> Pcs] /\ frame' \in [Loopers -> Frame]
      /\ pc'[l] = x /\ frame'[l] = f
      /\ \A k \in Loopers \ {l} : pc'[k] = pc[k] /\ frame'[k] = frame[k]
  BY <1>2, <1>3, <1>4, OneHandler DEF HttpInv
<1>6. TypeOK'
  BY <1>2, <1>5 DEF HttpInv, TypeOK, netVars, connVars, fileVars, cacheVars
<1>7. LooperInv(l)'
  <2>1. x = "delete" => reset[c] \/ Announced(c)
    BY <1>1, <1>4 DEF HttpInv, LooperInv
  <2> QED
    BY <1>1, <1>2, <1>3, <1>4, <1>5, <2>1 DEF LooperInv, Cur, Asking, Settled, Announced, netVars, connVars
<1>8. ConnInv(c)'
  <2>1. ConnInv(c) /\ (Leaving(c) => x = "delete")
    BY <1>1, <1>4 DEF HttpInv, Leaving
  <2>2. x = "delete" => Leaving(c)'
    BY <1>1, <1>3, <1>5 DEF Leaving, Cur
  <2> QED
    BY <1>1, <1>2, <1>3, <1>5, <2>1, <2>2 DEF ConnInv, Cur, netVars, connVars
<1> QED
  BY <1>1, <1>2, <1>3, <1>5, <1>6, <1>7, <1>8, HandlerStep DEF netVars, connVars, fileVars

LEMMA DeleteConnectionKeeps ==
  ASSUME HttpInv, NEW l \in Loopers, DeleteConnection(l), down = None
  PROVE  HttpInv'
<1>0. PICK c \in Conns : c = Cur(l)
  BY Handling DEF DeleteConnection
<1>1. pc[l] = "delete" /\ c = Cur(l) /\ Home[c] = l /\ alive[c]
  BY <1>0, Handling DEF DeleteConnection
<1>2. Return(l) /\ UNCHANGED <<netVars, answers, fileVars, cacheVars, down>>
  BY DEF DeleteConnection
<1>3. /\ alive' \in [Conns -> BOOLEAN] /\ ~alive'[c] /\ readBuf' \in [Conns -> Seq(Bytes)]
      /\ readBuf'[c] = <<>> /\ \A d \in Conns \ {c} : alive'[d] = alive[d] /\ readBuf'[d] = readBuf[d]
  BY <1>1, EmptySeq DEF DeleteConnection, HttpInv, TypeOK
<1>4. TypeOK'
  BY <1>2, <1>3, Returning DEF HttpInv, TypeOK, netVars, fileVars, cacheVars
<1>5. ConnInv(c)'
  <2>1. ConnInv(c) /\ (eof[c] \/ reset[c] \/ Announced(c)) /\ Range(<<>>) = {}
    BY <1>1 DEF HttpInv, LooperInv, Range
  <2> QED
    BY <1>2, <1>3, <2>1 DEF ConnInv, Announced, netVars
<1> QED
  BY <1>1, <1>2, <1>3, <1>4, <1>5, Returning, HandlerStep DEF netVars, fileVars

-----------------------------------------------------------------------------
(* The clients and the file system.                                        *)

LEMMA PeerKeeps ==
  ASSUME HttpInv, NEW c \in Conns, Peer(c), down = None
  PROVE  HttpInv'
<1>1. alive[c] /\ inbuf[c] \in Seq(Bytes) /\ asked[c] \in Seq(Texts)
      /\ Range(inbuf[c]) \subseteq {Part} \cup Range(asked[c])
  BY DEF Peer, HttpInv, TypeOK, ConnInv
<1>2. ASSUME NEW t \in Texts, PeerSend(c, t) PROVE HttpInv'
  <2>1. /\ inbuf' = [inbuf EXCEPT ![c] = Append(inbuf[c], t)]
        /\ asked' = [asked EXCEPT ![c] = Append(asked[c], t)]
        /\ UNCHANGED <<eof, reset, room, connVars, fileVars, cacheVars, pc, frame, down>>
    BY <1>2 DEF PeerSend
  <2>2. /\ Append(inbuf[c], t) \in Seq(Bytes) /\ Append(asked[c], t) \in Seq(Texts)
        /\ Range(Append(inbuf[c], t)) = Range(inbuf[c]) \cup {t}
        /\ Range(Append(asked[c], t)) = Range(asked[c]) \cup {t}
    <3>1. t \in Bytes
      BY DEF Bytes
    <3> QED
      BY <1>1, <3>1, AppendProperties, RangeAppend
  <2>3. TypeOK'
    BY <2>1, <2>2 DEF HttpInv, TypeOK, connVars, fileVars, cacheVars
  <2>4. /\ asked'[c] = Append(asked[c], t) /\ inbuf'[c] = Append(inbuf[c], t)
        /\ \A d \in Conns \ {c} : inbuf'[d] = inbuf[d] /\ asked'[d] = asked[d]
    BY <2>1 DEF HttpInv, TypeOK
  <2> QED
    BY <1>1, <2>1, <2>2, <2>3, <2>4, PeerStep
<1>3. ASSUME PeerSendPart(c) PROVE HttpInv'
  <2>1. /\ inbuf' = [inbuf EXCEPT ![c] = Append(inbuf[c], Part)]
        /\ UNCHANGED <<eof, reset, room, asked, connVars, fileVars, cacheVars, pc, frame, down>>
    BY <1>3 DEF PeerSendPart
  <2>2. /\ Append(inbuf[c], Part) \in Seq(Bytes)
        /\ Range(Append(inbuf[c], Part)) = Range(inbuf[c]) \cup {Part}
    <3>1. Part \in Bytes
      BY DEF Bytes
    <3> QED
      BY <1>1, <3>1, AppendProperties, RangeAppend
  <2>3. TypeOK'
    BY <2>1, <2>2 DEF HttpInv, TypeOK, connVars, fileVars, cacheVars
  <2>4. inbuf'[c] = Append(inbuf[c], Part) /\ \A d \in Conns \ {c} : inbuf'[d] = inbuf[d]
    BY <2>1 DEF HttpInv, TypeOK
  <2> QED
    BY <1>1, <2>1, <2>2, <2>3, <2>4, PeerStep
<1>4. ASSUME PeerRead(c) PROVE HttpInv'
  <2>1. /\ room' = [room EXCEPT ![c] = SendBuf]
        /\ UNCHANGED <<inbuf, eof, reset, asked, connVars, fileVars, cacheVars, pc, frame, down>>
    BY <1>4 DEF PeerRead
  <2>2. TypeOK'
    BY <2>1, HttpAssumption DEF HttpInv, TypeOK, connVars, fileVars, cacheVars
  <2> QED
    BY <1>1, <2>1, <2>2, PeerStep
<1>5. ASSUME PeerClose(c) PROVE HttpInv'
  <2>1. /\ eof' = [eof EXCEPT ![c] = TRUE]
        /\ UNCHANGED <<inbuf, reset, room, asked, connVars, fileVars, cacheVars, pc, frame, down>>
    BY <1>5 DEF PeerClose
  <2>2. eof' \in [Conns -> BOOLEAN] /\ eof'[c] /\ \A d \in Conns \ {c} : eof'[d] = eof[d]
    BY <2>1 DEF HttpInv, TypeOK
  <2>3. TypeOK'
    BY <2>1, <2>2 DEF HttpInv, TypeOK, connVars, fileVars, cacheVars
  <2> QED
    BY <1>1, <2>1, <2>2, <2>3, PeerStep
<1>6. ASSUME PeerReset(c) PROVE HttpInv'
  <2>1. /\ reset' = [reset EXCEPT ![c] = TRUE] /\ inbuf' = [inbuf EXCEPT ![c] = <<>>]
        /\ UNCHANGED <<eof, room, asked, connVars, fileVars, cacheVars, pc, frame, down>>
    BY <1>6 DEF PeerReset
  <2>2. reset' \in [Conns -> BOOLEAN] /\ reset'[c] /\ \A d \in Conns \ {c} : reset'[d] = reset[d]
    BY <2>1 DEF HttpInv, TypeOK
  <2>3. inbuf' \in [Conns -> Seq(Bytes)] /\ inbuf'[c] = <<>> /\ \A d \in Conns \ {c} : inbuf'[d] = inbuf[d]
    BY <2>1, EmptySeq DEF HttpInv, TypeOK
  <2>4. TypeOK'
    BY <2>1, <2>2, <2>3 DEF HttpInv, TypeOK, connVars, fileVars, cacheVars
  <2>5. Range(<<>>) = {}
    BY DEF Range
  <2> QED
    BY <1>1, <2>1, <2>2, <2>3, <2>4, <2>5, PeerStep
<1> QED
  BY <1>2, <1>3, <1>4, <1>5, <1>6 DEF Peer

\* After a change of a file nothing is claimed of what a handler finds.
LEMMA EditFileKeeps ==
  ASSUME HttpInv, NEW f \in Files, NEW n \in Kinds, EditFile(f, n), down = None
  PROVE  HttpInv'
<1>1. UNCHANGED <<netVars, connVars, cacheVars, pc, frame, down>>
  BY DEF EditFile
<1>2. file' \in [Files -> Kinds] /\ edits' \in Nat /\ edits' # 0
  BY DEF EditFile, HttpInv, TypeOK
<1>3. TypeOK'
  BY <1>1, <1>2 DEF HttpInv, TypeOK, netVars, connVars, cacheVars
<1>4. ASSUME NEW l \in Loopers PROVE LooperInv(l)'
  BY <1>1, <1>2 DEF HttpInv, LooperInv, Cur, Announced, netVars, connVars
<1>5. ASSUME NEW c \in Conns PROVE ConnInv(c)'
  BY <1>1 DEF HttpInv, ConnInv, Leaving, Announced, NoCgi, Cur, netVars, connVars
<1> QED
  BY <1>1, <1>3, <1>4, <1>5 DEF HttpInv, Survives

-----------------------------------------------------------------------------
(* The theorems.                                                           *)

LEMMA HttpInitially == Init => HttpInv
<1> SUFFICES ASSUME Init PROVE HttpInv
  OBVIOUS
<1>1. NoFrame \in Frame /\ NoFrame.conn = None
  BY DEF NoFrame, Frame, Kinds
<1>2. \A S : <<>> \in Seq(S)
  BY EmptySeq
<1>3. TypeOK
  BY <1>1, <1>2, HttpAssumption DEF Init, TypeOK, LRUCache!Init, Pcs
<1>4. ASSUME NEW l \in Loopers PROVE LooperInv(l)
  BY <1>1 DEF Init, LooperInv, Cur, Asking, Settled
<1>5. ASSUME NEW c \in Conns PROVE ConnInv(c)
  <2>1. /\ inbuf[c] = <<>> /\ readBuf[c] = <<>> /\ answers[c] = <<>> /\ alive[c]
    BY DEF Init
  <2>2. Terminator(<<>>) = 0
    <3>1. {i \in 1..Len(<<>>) : <<>>[i] # Part} = {}
      OBVIOUS
    <3> QED
      BY <3>1 DEF Terminator, SelectInSeq
  <2>3. Range(<<>>) = {} /\ DOMAIN <<>> = {}
    BY DEF Range
  <2> QED
    BY <2>1, <2>2, <2>3 DEF ConnInv
<1> QED
  BY <1>3, <1>4, <1>5 DEF HttpInv, Survives, Init

LEMMA HttpStep == HttpInv /\ [Next]_vars => HttpInv'
<1> SUFFICES ASSUME HttpInv, [Next]_vars PROVE HttpInv'
  OBVIOUS
<1>1. ASSUME NEW l \in Loopers, Handle(l), down = None PROVE HttpInv'
  BY <1>1, RecvChunkKeeps, RecvReturnKeeps, ParseNothingKeeps, ParseKeeps, FileExistsKeeps,
     MakeResponseKeeps, FileSizeKeeps, TryLoadKeeps, SerializeKeeps, LoadFileKeeps, TryInsertKeeps,
     SendKeeps, SendErrorKeeps, NextRequestKeeps, DeleteConnectionKeeps DEF Handle
<1>2. CASE UNCHANGED vars
  <2>1. UNCHANGED <<inbuf, eof, reset, room, asked, alive, readBuf, answers, file, edits, size, pc, frame, down>>
    BY <1>2 DEF vars, netVars, connVars, fileVars, cacheVars
  <2>2. TypeOK'
    BY <2>1 DEF HttpInv, TypeOK
  <2>3. ASSUME NEW l \in Loopers PROVE LooperInv(l)'
    BY <2>1 DEF HttpInv, LooperInv, Cur, OnDisk, Announced
  <2>4. ASSUME NEW c \in Conns PROVE ConnInv(c)'
    BY <2>1 DEF HttpInv, ConnInv, Leaving, Announced, NoCgi, Cur
  <2>5. Survives'
    BY <2>1 DEF HttpInv, Survives, OnDisk, Cur
  <2> QED
    BY <2>2, <2>3, <2>4, <2>5 DEF HttpInv
<1> QED
  BY <1>1, <1>2, RunCallbackKeeps, PeerKeeps, EditFileKeeps DEF Next

\* Whatever the clients send and however it is cut into pieces, every handler works on
\* a live connection of its own reactor and on a request its client sent.
THEOREM HttpInvariant == Spec => []HttpInv
<1> QED
  BY HttpInitially, HttpStep, PTL DEF Spec

\* A response that says the connection closes is the last one and is followed by the
\* deletion of its connection, and a client that stayed is not cut off untold.
THEOREM ClosesAsAnnounced == Spec => []CloseIsAnnounced
<1>1. HttpInv => CloseIsAnnounced
  <2> SUFFICES ASSUME HttpInv, NEW c \in Conns
               PROVE  /\ \A i \in DOMAIN answers[c] : answers[c][i].close =>
                           /\ i = Len(answers[c])
                           /\ alive[c] => \E l \in Loopers : Cur(l) = c /\ pc[l] \in {"next", "delete"}
                      /\ ~alive[c] /\ ~eof[c] /\ ~reset[c] => answers[c] # <<>> /\ Last(answers[c]).close
    BY DEF CloseIsAnnounced
  <2>1. ConnInv(c) /\ Home[c] \in Loopers
    BY HttpAssumption DEF HttpInv
  <2> QED
    BY <2>1 DEF ConnInv, Leaving, Announced
<1> QED
  BY <1>1, HttpInvariant, PTL

\* A handler leaves no complete request behind in read_buffer_, unless its client
\* asked for CGI.
THEOREM LeavesNothing == Spec => []NothingStranded
<1>1. HttpInv => NothingStranded
  <2> SUFFICES ASSUME HttpInv, NEW c \in Conns, alive[c], \A l \in Loopers : Cur(l) # c,
                      \A i \in DOMAIN asked[c] : ~(IsValid(asked[c][i]) /\ IsCgiRequest(asked[c][i]))
               PROVE  Terminator(readBuf[c]) = 0
    BY DEF NothingStranded
  <2>1. ConnInv(c) /\ Home[c] \in Loopers
    BY HttpAssumption DEF HttpInv
  <2>2. NoCgi(c)
    BY DEF NoCgi, Range
  <2> QED
    BY <2>1, <2>2 DEF ConnInv
<1> QED
  BY <1>1, HttpInvariant, PTL

\* The process ends only where the file system, the cache's race or a client that reset
\* ends it, on whatever reactors: no other sequence of requests does.
THEOREM StaysUp == Spec => []Survives
<1>1. HttpInv => Survives
  BY DEF HttpInv
<1> QED
  BY <1>1, HttpInvariant, PTL

-----------------------------------------------------------------------------
(* What a response says of itself.                                         *)

\* The type of every file that is served is one its name lets the extension table find.
Named == \A p \in Files : Start[p] \in Sizes => ContentType(p) = TypeOf[p]

Sound(a) ==
  /\ a.status # 200 \/ GetMethod(a.text) = "GET" => a.body = a.length
  /\ a.status # 200 => a.type = None
  /\ a.status = 200 => a.type = TypeOf[Path(a.text)]

Loading == {"tryLoad", "serialize", "loadFile", "tryInsert"}

\* What a handler that is at x with locals f knows of its file: its length, then its
\* contents, from the cache or from the disk; what has no file has no body.
FrameAt(x, f) ==
  LET d == file[Path(f.text)]
  IN /\ x \notin {"loadFile", "tryInsert", "send", "next"} => f.body = 0
     /\ x \in {"fileSize"} \cup Loading => f.status = 200 /\ f.url
     /\ x \in Loading => f.length = d
     /\ x = "serialize" => f.cached \in {None, d}
     /\ x = "tryInsert" => f.cached = d
     /\ x \in {"loadFile", "tryInsert"} /\ GetMethod(f.text) = "GET" => f.body = d
     /\ x = "send" => Sound(Answer(f))

\* What the cache holds is what is on the disk.
CacheInv == order \in Seq(Files) /\ \A p \in ToSet(order) : size[p] = file[p]

\* Framed made inductive: it lasts until the first change of a file.
FramingInv ==
  edits = 0 => /\ file = Start
               /\ CacheInv
               /\ \A l \in Loopers : FrameAt(pc[l], frame[l])
               /\ \A c \in Conns : \A i \in DOMAIN answers[c] : Sound(answers[c][i])

\* Removing an entry and evicting the oldest ones leave entries of the list.
LEMMA Removing ==
  ASSUME NEW s \in Seq(Files), NEW k \in Files
  PROVE  LRUCache!RemoveFirst(s, k) \in Seq(Files) /\ ToSet(LRUCache!RemoveFirst(s, k)) \subseteq ToSet(s)
<1> DEFINE I == {i \in 1..Len(s) : s[i] = k}
           n == LRUCache!SelectInSeq(s, LAMBDA v : v = k)
<1>1. Len(s) \in Nat /\ DOMAIN s = 1..Len(s) /\ \A i \in 1..Len(s) : s[i] \in Files /\ s[i] \in ToSet(s)
  BY LenProperties, ElementOfSeq DEF ToSet
<1>2. ToSet(s) \subseteq Files
  BY <1>1 DEF ToSet
<1>3. CASE I = {}
  BY <1>3 DEF LRUCache!RemoveFirst
<1>4. CASE I # {}
  <2>1. n = LRUCache!Min(I)
    BY <1>4 DEF LRUCache!SelectInSeq
  <2>2. \E x \in I : \A y \in I : x <= y
    <3>1. I \subseteq Nat
      BY <1>1
    <3> HIDE DEF I
    <3> QED
      BY <1>4, <3>1, LeastNat
  <2>3. n \in I
    <3> HIDE DEF I, n
    <3> QED
      BY <2>1, <2>2 DEF LRUCache!Min
  <2>4. n \in 1..Len(s)
    <3> HIDE DEF n
    <3> QED
      BY <2>3
  <2>5. LRUCache!RemoveFirst(s, k) = SubSeq(s, 1, n - 1) \o SubSeq(s, n + 1, Len(s))
    BY <1>4 DEF LRUCache!RemoveFirst, LRUCache!RemoveAt
  <2> HIDE DEF n
  <2>6. SubSeq(s, 1, n - 1) \in Seq(ToSet(s)) /\ SubSeq(s, n + 1, Len(s)) \in Seq(ToSet(s))
    <3>1. n - 1 \in Int /\ n + 1 \in Int /\ (\A i \in 1..(n - 1) : i \in 1..Len(s)) /\ (\A i \in (n + 1)..Len(s) : i \in 1..Len(s))
      BY <1>1, <2>4
    <3> QED
      BY <1>1, <3>1, SubSeqProperties
  <2>7. LRUCache!RemoveFirst(s, k) \in Seq(ToSet(s))
    BY <2>5, <2>6, ConcatProperties
  <2>8. Range(LRUCache!RemoveFirst(s, k)) = ToSet(LRUCache!RemoveFirst(s, k))
    BY DEF Range, ToSet
  <2> QED
    BY <1>2, <2>7, <2>8, RangeOfSeq, SeqMonotonic
<1> QED
  BY <1>3, <1>4

LEMMA NothingToSum ==
  ASSUME NEW s, DOMAIN s = {}
  PROVE  LRUCache!Total(s, size) = 0
<1> DEFINE S == LRUCache!ToSet(s)
           Sum(h) == [T \in SUBSET S |-> IF T = {} THEN 0
                                         ELSE LET x == CHOOSE x \in T : TRUE IN size[x] + h[T \ {x}]]
           g == [T \in SUBSET S |-> 0]
           it == CHOOSE it : it = Sum(it)
<1>1. S = {}
  BY DEF LRUCache!ToSet
<1>2. LRUCache!Total(s, size) = it[S]
  BY Zenon DEF LRUCache!Total, LRUCache!MapThenSumSet, LRUCache!MapThenFoldSet
<1> HIDE DEF S
<1>3. g = Sum(g)
  BY <1>1
<1>4. it = Sum(it)
  BY <1>3
<1> HIDE DEF it
<1>5. it[S] = 0
  BY <1>1, <1>4
<1> QED
  BY <1>2, <1>5

LEMMA Fitting ==
  ASSUME NEW s \in Seq(Files), NEW n \in Nat, n <= Capacity
  PROVE  /\ LRUCache!Fit(s, size, n) \in Seq(Files)
         /\ ToSet(LRUCache!Fit(s, size, n)) \subseteq ToSet(s)
<1> DEFINE I == {i \in 1..Len(s) + 1 : LRUCache!Total(SubSeq(s, i, Len(s)), size) <= Capacity - n}
           from == LRUCache!Min(I)
<1>1. Len(s) \in Nat /\ DOMAIN s = 1..Len(s) /\ \A i \in 1..Len(s) : s[i] \in Files /\ s[i] \in ToSet(s)
  BY LenProperties, ElementOfSeq DEF ToSet
<1>2. LRUCache!Total(SubSeq(s, Len(s) + 1, Len(s)), size) = 0
  <2> DEFINE e == SubSeq(s, Len(s) + 1, Len(s))
  <2>1. DOMAIN e = {}
    <3>1. e \in Seq(Files) /\ Len(e) = 0
      BY <1>1, SubSeqProperties
    <3> QED
      BY <3>1, EmptySeq
  <2> HIDE DEF e
  <2>2. LRUCache!Total(e, size) = 0
    BY <2>1, NothingToSum
  <2> QED
    BY <2>2 DEF e
<1>3. Len(s) + 1 \in I
  BY <1>1, <1>2, HttpAssumption
<1>4. I \subseteq 1..Len(s) + 1
  OBVIOUS
<1>5. LRUCache!Fit(s, size, n) = SubSeq(s, from, Len(s))
  BY DEF LRUCache!Fit
<1> HIDE DEF I
<1>6. from \in I
  <2>1. \E x \in I : \A y \in I : x <= y
    <3>1. I \subseteq Nat /\ I # {}
      BY <1>1, <1>3, <1>4
    <3> QED
      BY <3>1, LeastNat
  <2> QED
    BY <2>1 DEF LRUCache!Min
<1> HIDE DEF from
<1>7. SubSeq(s, from, Len(s)) \in Seq(ToSet(s))
  BY <1>1, <1>4, <1>6, SubSeqProperties
<1>8. Range(SubSeq(s, from, Len(s))) = ToSet(SubSeq(s, from, Len(s)))
  BY DEF Range, ToSet
<1>9. ToSet(s) \subseteq Files
  BY <1>1 DEF ToSet
<1> QED
  BY <1>5, <1>7, <1>8, <1>9, RangeOfSeq, SeqMonotonic

\* A step of one handler while no file changes.
LEMMA FramingStep ==
  ASSUME HttpInv, FramingInv, edits = 0, NEW l \in Loopers, NEW x, NEW f,
         pc' = [pc EXCEPT ![l] = x], frame' = [frame EXCEPT ![l] = f],
         UNCHANGED fileVars, FrameAt(x, f), CacheInv',
         \A c \in Conns : \A i \in DOMAIN answers'[c] : Sound(answers'[c][i])
  PROVE  FramingInv'
<1>1. file' = file /\ edits' = edits
  BY DEF fileVars
<1>2. ASSUME NEW k \in Loopers PROVE FrameAt(pc[k], frame[k])'
  <2>1. FrameAt(pc[k], frame[k])
    BY DEF FramingInv
  <2>2. CASE k = l
    <3>1. pc'[k] = x /\ frame'[k] = f
      BY <2>2 DEF HttpInv, TypeOK
    <3> QED
      BY <1>1, <3>1 DEF FrameAt
  <2>3. CASE k # l
    <3>1. pc'[k] = pc[k] /\ frame'[k] = frame[k]
      BY <2>3 DEF HttpInv, TypeOK
    <3> QED
      BY <1>1, <2>1, <3>1 DEF FrameAt
  <2> QED
    BY <2>2, <2>3
<1> QED
  BY <1>1, <1>2 DEF FramingInv

\* Most steps leave the cache and the answers alone.
LEMMA PlainStep ==
  ASSUME HttpInv, FramingInv, edits = 0, NEW l \in Loopers, NEW x, NEW f,
         pc' = [pc EXCEPT ![l] = x], frame' = [frame EXCEPT ![l] = f],
         UNCHANGED <<answers, fileVars, cacheVars>>, FrameAt(x, f)
  PROVE  FramingInv'
<1>1. CacheInv'
  BY DEF FramingInv, CacheInv, cacheVars, fileVars
<1>2. \A c \in Conns : \A i \in DOMAIN answers'[c] : Sound(answers'[c][i])
  BY DEF FramingInv
<1> QED
  BY <1>1, <1>2, FramingStep

LEMMA IdleStep ==
  ASSUME FramingInv, UNCHANGED <<pc, frame, answers, fileVars, cacheVars>>
  PROVE  FramingInv'
<1>1. UNCHANGED <<file, edits, order, size>>
  BY DEF fileVars, cacheVars
<1>2. CacheInv => CacheInv'
  BY <1>1 DEF CacheInv
<1>3. ASSUME NEW l \in Loopers, FrameAt(pc[l], frame[l]) PROVE FrameAt(pc[l], frame[l])'
  BY <1>1, <1>3 DEF FrameAt
<1> QED
  BY <1>1, <1>2, <1>3 DEF FramingInv

LEMMA ReturningFramed ==
  ASSUME HttpInv, FramingInv, edits = 0, NEW l \in Loopers, Return(l),
         UNCHANGED <<answers, fileVars, cacheVars>>
  PROVE  FramingInv'
<1>1. FrameAt("idle", NoFrame)
  BY DEF FrameAt, NoFrame, Loading
<1> QED
  BY <1>1, PlainStep DEF Return

LEMMA RefusedFramed ==
  ASSUME NEW g \in Frame, NEW n \in Nat, n # 200, g.body = 0
  PROVE  FrameAt("send", Refused(g, n))
<1> DEFINE f == Refused(g, n)
<1>1. f.status = n /\ f.length = 0 /\ f.body = 0 /\ ~f.url
  BY DEF Refused, Frame
<1> HIDE DEF f
<1>2. Answer(f).status = n /\ Answer(f).length = 0 /\ Answer(f).body = 0 /\ Answer(f).type = None
  BY <1>1 DEF Answer
<1> QED
  BY <1>2 DEF FrameAt, Sound, Loading, f

LEMMA ReceivingFramed ==
  ASSUME HttpInv, FramingInv, edits = 0, NEW l \in Loopers, RecvReturn(l) \/ NextRequest(l)
  PROVE  FramingInv'
<1>1. FrameAt(pc[l], frame[l]) /\ frame[l] \in Frame
  BY DEF FramingInv, HttpInv, TypeOK
<1>2. CASE RecvReturn(l)
  <2> DEFINE x == IF eof[Cur(l)] \/ reset[Cur(l)] THEN "delete" ELSE "parse"
  <2>1. /\ pc[l] = "recv" /\ pc' = [pc EXCEPT ![l] = x] /\ frame' = frame
        /\ UNCHANGED <<answers, fileVars, cacheVars>>
    BY <1>2 DEF RecvReturn, Goto, connVars
  <2>2. frame' = [frame EXCEPT ![l] = frame[l]]
    BY <2>1 DEF HttpInv, TypeOK
  <2>3. FrameAt(x, frame[l])
    BY <1>1, <2>1 DEF FrameAt, Loading
  <2> HIDE DEF x
  <2> QED
    BY <2>1, <2>2, <2>3, PlainStep
<1>3. CASE NextRequest(l)
  <2> DEFINE x == IF frame[l].noMore THEN "delete" ELSE "parse"
             f == [NoFrame EXCEPT !.conn = Cur(l)]
  <2>1. /\ pc' = [pc EXCEPT ![l] = x] /\ frame' = [frame EXCEPT ![l] = f]
        /\ UNCHANGED <<answers, fileVars, cacheVars>>
    BY <1>3 DEF NextRequest, Goto, connVars
  <2>2. f.body = 0
    BY DEF NoFrame
  <2> HIDE DEF f
  <2>3. FrameAt(x, f)
    BY <2>2 DEF FrameAt, Loading
  <2> HIDE DEF x
  <2> QED
    BY <2>1, <2>3, PlainStep
<1> QED
  BY <1>2, <1>3

LEMMA ParseFramed ==
  ASSUME HttpInv, FramingInv, edits = 0, NEW l \in Loopers, Parse(l)
  PROVE  FramingInv'
<1>0. PICK c \in Conns : c = Cur(l)
  BY Handling DEF Parse
<1>1. PICK t : t = readBuf[c][Terminator(readBuf[c])]
  OBVIOUS
<1>2. pc[l] = "parse" /\ UNCHANGED <<answers, fileVars, cacheVars>>
  BY DEF Parse
<1>3. t \in Texts
  BY <1>0, <1>1, Popping DEF Parse, HttpInv, TypeOK
<1>4. frame[l] \in Frame /\ frame[l].body = 0
  BY <1>2 DEF FramingInv, FrameAt, HttpInv, TypeOK
<1> DEFINE g == [frame[l] EXCEPT !.text = t]
<1>5. g \in Frame /\ g.body = 0
  BY <1>3, <1>4 DEF Frame
<1>6. CASE ~IsValid(t)
  <2>1. pc' = [pc EXCEPT ![l] = "send"] /\ frame' = [frame EXCEPT ![l] = Refused(g, 400)]
    BY <1>0, <1>1, <1>6 DEF Parse, Goto, Set, Refused
  <2> HIDE DEF g
  <2>2. FrameAt("send", Refused(g, 400))
    BY <1>5, RefusedFramed
  <2> QED
    BY <1>2, <2>1, <2>2, PlainStep
<1>7. CASE IsValid(t) /\ ~IsCgiRequest(t)
  <2>1. pc' = [pc EXCEPT ![l] = "exists"] /\ frame' = [frame EXCEPT ![l] = g]
    BY <1>0, <1>1, <1>7 DEF Parse, Goto, Set
  <2> HIDE DEF g
  <2>2. FrameAt("exists", g)
    BY <1>5 DEF FrameAt, Loading
  <2> QED
    BY <1>2, <2>1, <2>2, PlainStep
<1>8. CASE IsValid(t) /\ IsCgiRequest(t)
  <2>1. Return(l)
    BY <1>0, <1>1, <1>8 DEF Parse
  <2> QED
    BY <1>2, <2>1, ReturningFramed
<1> QED
  BY <1>6, <1>7, <1>8

\* While no file changes, what the first look found is there at the second.
LEMMA FindingFramed ==
  ASSUME HttpInv, FramingInv, edits = 0, NEW l \in Loopers, FileExists(l) \/ MakeResponse(l)
  PROVE  FramingInv'
<1>1. pc[l] \in {"exists", "make"}
  BY DEF FileExists, MakeResponse
<1>2. frame[l] \in Frame /\ frame[l].body = 0
  BY <1>1 DEF FramingInv, FrameAt, HttpInv, TypeOK
<1>3. CASE Dies(l)
  BY <1>3, IdleStep DEF Dies, connVars
<1>4. CASE ~Dies(l)
  <2>1. UNCHANGED <<answers, fileVars, cacheVars>>
    BY <1>4 DEF FileExists, MakeResponse, connVars
  <2>2. CASE FileExists(l) /\ OnDisk(l) # None
    <3> DEFINE n == OnDisk(l)
               f == [frame[l] EXCEPT !.seen = n]
    <3>1. pc' = [pc EXCEPT ![l] = "make"] /\ frame' = [frame EXCEPT ![l] = f]
      BY <1>4, <2>2 DEF FileExists, Goto, Set
    <3> HIDE DEF n
    <3>2. f.body = 0
      BY <1>2 DEF Frame
    <3> HIDE DEF f
    <3>3. FrameAt("make", f)
      BY <3>2 DEF FrameAt, Loading
    <3> QED
      BY <2>1, <3>1, <3>3, PlainStep
  <2>3. CASE FileExists(l) /\ OnDisk(l) = None
    <3>1. pc' = [pc EXCEPT ![l] = "send"] /\ frame' = [frame EXCEPT ![l] = Refused(frame[l], 404)]
      BY <1>4, <2>3 DEF FileExists, Goto, Set, Refused
    <3>2. FrameAt("send", Refused(frame[l], 404))
      BY <1>2, RefusedFramed
    <3> QED
      BY <2>1, <3>1, <3>2, PlainStep
  <2>4. CASE MakeResponse(l)
    <3>1. OnDisk(l) # None
      BY <2>4 DEF MakeResponse, HttpInv, LooperInv
    <3> DEFINE f == [Made(frame[l]) EXCEPT !.url = TRUE]
    <3>2. pc' = [pc EXCEPT ![l] = "fileSize"] /\ frame' = [frame EXCEPT ![l] = f]
      BY <1>4, <2>4, <3>1 DEF MakeResponse, Goto, Set, Made
    <3>3. f.body = 0 /\ f.status = 200 /\ f.url
      BY <1>2, MadeFrame
    <3> HIDE DEF f
    <3>4. FrameAt("fileSize", f)
      BY <3>3 DEF FrameAt, Loading
    <3> QED
      BY <2>1, <3>2, <3>4, PlainStep
  <2> QED
    BY <2>2, <2>3, <2>4
<1> QED
  BY <1>3, <1>4

\* What a handler that loads a file knows.
LEMMA LoadingFile ==
  ASSUME HttpInv, FramingInv, edits = 0, NEW l \in Loopers, pc[l] \in Loading
  PROVE  /\ frame[l] \in Frame /\ frame[l].text \in Texts /\ OnDisk(l) \in Nat /\ OnDisk(l) \in Sizes
         /\ OnDisk(l) = file[Path(frame[l].text)] /\ OnDisk(l) # None /\ Path(frame[l].text) \in Files
         /\ frame[l].status = 200 /\ frame[l].url /\ frame[l].length = OnDisk(l)
<1>1. pc[l] \in Asking
  BY DEF Asking, Loading
<1>2. OnDisk(l) \in Sizes /\ frame[l].text \in Texts
  BY <1>1 DEF HttpInv, LooperInv, Loading
<1>3. FrameAt(pc[l], frame[l]) /\ OnDisk(l) = file[Path(frame[l].text)]
  BY DEF FramingInv, OnDisk
<1> QED
  BY <1>1, <1>2, <1>3, AskedPath, HttpAssumption DEF FrameAt

LEMMA FileSizeFramed ==
  ASSUME HttpInv, FramingInv, edits = 0, NEW l \in Loopers, FileSize(l)
  PROVE  FramingInv'
<1>1. pc[l] = "fileSize" /\ pc[l] \in Asking
  BY DEF FileSize, Asking
<1>2. CASE Dies(l)
  BY <1>2, IdleStep DEF Dies, connVars
<1>3. CASE ~Dies(l)
  <2> DEFINE n == OnDisk(l)
             f == [frame[l] EXCEPT !.length = n]
  <2>1. /\ pc' = [pc EXCEPT ![l] = "tryLoad"] /\ frame' = [frame EXCEPT ![l] = f]
        /\ UNCHANGED <<answers, fileVars, cacheVars>>
    BY <1>3 DEF FileSize, Goto, Set, connVars
  <2>2. /\ frame[l] \in Frame /\ frame[l].body = 0 /\ frame[l].status = 200 /\ frame[l].url
        /\ n = file[Path(frame[l].text)]
    BY <1>1 DEF FramingInv, FrameAt, HttpInv, TypeOK, OnDisk
  <2> HIDE DEF n
  <2>3. f.body = 0 /\ f.status = 200 /\ f.url /\ f.length = n /\ f.text = frame[l].text
    BY <2>2 DEF Frame
  <2> HIDE DEF f
  <2>4. FrameAt("tryLoad", f)
    BY <2>2, <2>3 DEF FrameAt, Loading
  <2> QED
    BY <2>1, <2>4, PlainStep
<1> QED
  BY <1>2, <1>3

\* A hit hands out what is on the disk and moves its entry to the end of the list.
LEMMA TryLoadFramed ==
  ASSUME HttpInv, FramingInv, edits = 0, NEW l \in Loopers, TryLoad(l)
  PROVE  FramingInv'
<1>1. /\ pc[l] = "tryLoad" /\ pc[l] \in Loading /\ pc' = [pc EXCEPT ![l] = "serialize"]
      /\ UNCHANGED <<answers, fileVars>>
  BY DEF TryLoad, Goto, Loading, connVars
<1>2. /\ frame[l] \in Frame /\ OnDisk(l) = file[Path(frame[l].text)] /\ frame[l].status = 200
      /\ frame[l].url /\ frame[l].length = OnDisk(l) /\ Path(frame[l].text) \in Files
  BY <1>1, LoadingFile
<1>3. frame[l].body = 0
  BY <1>1 DEF FramingInv, FrameAt
<1>4. ASSUME NEW v \in {None, OnDisk(l)}, frame' = [frame EXCEPT ![l] = [frame[l] EXCEPT !.cached = v]], CacheInv'
      PROVE  FramingInv'
  <2> DEFINE f == [frame[l] EXCEPT !.cached = v]
  <2>1. f.body = 0 /\ f.status = 200 /\ f.url /\ f.length = OnDisk(l) /\ f.text = frame[l].text /\ f.cached = v
    BY <1>2, <1>3 DEF Frame
  <2>2. frame' = [frame EXCEPT ![l] = f]
    BY <1>4
  <2> HIDE DEF f
  <2>3. FrameAt("serialize", f)
    BY <1>2, <2>1 DEF FrameAt, Loading
  <2>4. \A c \in Conns : \A i \in DOMAIN answers'[c] : Sound(answers'[c][i])
    BY <1>1 DEF FramingInv
  <2> QED
    BY <1>1, <1>4, <2>2, <2>3, <2>4, FramingStep
<1>5. CacheInv
  BY DEF FramingInv
<1> DEFINE p == Path(frame[l].text)
<1>6. CASE p \in ToSet(order)
  <2>1. order' = Append(LRUCache!RemoveFirst(order, p), p) /\ size' = size
    BY <1>6 DEF TryLoad, LRUCache!Load
  <2>2. frame' = [frame EXCEPT ![l] = [frame[l] EXCEPT !.cached = size[p]]]
    BY <1>6 DEF TryLoad, Copied, Set
  <2>3. size[p] = OnDisk(l)
    BY <1>2, <1>5, <1>6 DEF CacheInv
  <2>4. CacheInv'
    <3> DEFINE r == LRUCache!RemoveFirst(order, p)
    <3> HIDE DEF p
    <3>1. r \in Seq(Files) /\ ToSet(r) \subseteq ToSet(order)
      BY <1>2, <1>5, Removing DEF CacheInv, p
    <3> HIDE DEF r
    <3>2. Append(r, p) \in Seq(Files) /\ Range(Append(r, p)) = Range(r) \cup {p}
      BY <1>2, <3>1, AppendProperties, RangeAppend DEF p
    <3>3. ToSet(order') \subseteq ToSet(order) /\ order' \in Seq(Files)
      BY <1>6, <2>1, <3>1, <3>2 DEF ToSet, Range, r
    <3> QED
      BY <1>1, <1>5, <2>1, <3>3 DEF CacheInv, fileVars
  <2> HIDE DEF p
  <2> QED
    BY <1>4, <2>2, <2>3, <2>4
<1>7. CASE p \notin ToSet(order)
  <2>1. frame' = [frame EXCEPT ![l] = [frame[l] EXCEPT !.cached = None]] /\ UNCHANGED cacheVars
    BY <1>7 DEF TryLoad, Copied, Set
  <2>2. CacheInv'
    BY <1>1, <1>5, <2>1 DEF CacheInv, cacheVars, fileVars
  <2> QED
    BY <1>4, <2>1, <2>2
<1> QED
  BY <1>6, <1>7

\* A response with a file, its body the whole of it, says the truth.
LEMMA FileAnswer ==
  ASSUME HttpInv, FramingInv, Named, edits = 0, NEW l \in Loopers, pc[l] \in Loading, NEW f,
         f.text = frame[l].text, f.status = 200, f.url, f.length = OnDisk(l),
         GetMethod(f.text) = "GET" => f.body = OnDisk(l)
  PROVE  FrameAt("send", f)
<1>1. OnDisk(l) = file[Path(f.text)] /\ OnDisk(l) \in Sizes /\ Path(f.text) \in Files /\ file = Start
  BY LoadingFile DEF FramingInv
<1>2. ContentType(Path(f.text)) = TypeOf[Path(f.text)]
  BY <1>1 DEF Named
<1>3. /\ Answer(f).text = f.text /\ Answer(f).status = 200 /\ Answer(f).length = f.length
      /\ Answer(f).body = f.body /\ Answer(f).type = ContentType(Path(f.text))
  BY DEF Answer
<1> QED
  BY <1>2, <1>3 DEF FrameAt, Sound, Loading

LEMMA SerializeFramed ==
  ASSUME HttpInv, FramingInv, Named, edits = 0, NEW l \in Loopers, Serialize(l)
  PROVE  FramingInv'
<1> DEFINE loads == frame[l].url /\ TransferContent(l)
           hit == frame[l].cached
           m == ShouldClose(frame[l].text)
           n == (IF loads THEN OnDisk(l) ELSE 0) + (IF hit = None THEN 0 ELSE hit)
           f == [frame[l] EXCEPT !.noMore = m, !.body = n]
<1>1. pc[l] = "serialize" /\ pc[l] \in Loading
  BY DEF Serialize, Loading
<1>2. /\ frame[l] \in Frame /\ OnDisk(l) = file[Path(frame[l].text)] /\ frame[l].status = 200
      /\ frame[l].url /\ frame[l].length = OnDisk(l) /\ OnDisk(l) \in Nat /\ OnDisk(l) # None
      /\ OnDisk(l) \in Sizes
  BY <1>1, LoadingFile
<1>3. CASE Dies(l)
  BY <1>3, IdleStep DEF Dies, connVars
<1>4. CASE ~Dies(l)
  <2> DEFINE x == IF hit = None THEN "loadFile" ELSE "send"
  <2>1. /\ pc' = [pc EXCEPT ![l] = x] /\ frame' = [frame EXCEPT ![l] = f]
        /\ UNCHANGED <<answers, fileVars, cacheVars>>
    BY <1>4 DEF Serialize, Goto, Set, connVars
  <2>2. hit \in {None, OnDisk(l)}
    BY <1>1, <1>2 DEF FramingInv, FrameAt
  <2>3. GetMethod(frame[l].text) = "GET" => n = OnDisk(l)
    <3> SUFFICES ASSUME GetMethod(frame[l].text) = "GET" PROVE n = OnDisk(l)
      OBVIOUS
    <3>1. loads <=> hit = None
      BY <1>2 DEF TransferContent
    <3> HIDE DEF loads, hit
    <3>2. CASE hit = None
      BY <1>2, <3>1, <3>2
    <3>3. CASE hit # None
      BY <1>2, <2>2, <3>1, <3>3
    <3> QED
      BY <3>2, <3>3
  <2>4. m \in BOOLEAN
    BY DEF ShouldClose
  <2> HIDE DEF n, m
  <2>5. f.body = n /\ f.status = 200 /\ f.url /\ f.length = OnDisk(l) /\ f.text = frame[l].text
    BY <1>2, <2>4 DEF Frame
  <2> HIDE DEF f
  <2>6. CASE hit = None
    <3>1. FrameAt("loadFile", f)
      BY <1>2, <2>3, <2>5 DEF FrameAt, Loading
    <3> QED
      BY <2>1, <2>6, <3>1, PlainStep
  <2>7. CASE hit # None
    <3>1. FrameAt("send", f)
      BY <1>1, <2>3, <2>5, FileAnswer
    <3> QED
      BY <2>1, <2>7, <3>1, PlainStep
  <2> QED
    BY <2>6, <2>7
<1> QED
  BY <1>3, <1>4

LEMMA LoadFileFramed ==
  ASSUME HttpInv, FramingInv, edits = 0, NEW l \in Loopers, LoadFile(l)
  PROVE  FramingInv'
<1>1. pc[l] = "loadFile" /\ pc[l] \in Loading
  BY DEF LoadFile, Loading
<1>2. CASE Dies(l)
  BY <1>2, IdleStep DEF Dies, connVars
<1>3. CASE ~Dies(l)
  <2> DEFINE n == OnDisk(l)
             f == [frame[l] EXCEPT !.cached = n]
  <2>1. /\ pc' = [pc EXCEPT ![l] = "tryInsert"] /\ frame' = [frame EXCEPT ![l] = f]
        /\ UNCHANGED <<answers, fileVars, cacheVars>>
    BY <1>3 DEF LoadFile, Goto, Set, connVars
  <2>2. /\ frame[l] \in Frame /\ n = file[Path(frame[l].text)] /\ frame[l].status = 200
        /\ frame[l].url /\ frame[l].length = n
    BY <1>1, LoadingFile
  <2>3. GetMethod(frame[l].text) = "GET" => frame[l].body = n
    BY <1>1, <2>2 DEF FramingInv, FrameAt
  <2> HIDE DEF n
  <2>4. /\ f.body = frame[l].body /\ f.status = 200 /\ f.url /\ f.length = n /\ f.text = frame[l].text
        /\ f.cached = n
    BY <2>2 DEF Frame
  <2> HIDE DEF f
  <2>5. FrameAt("tryInsert", f)
    BY <2>2, <2>3, <2>4 DEF FrameAt, Loading
  <2> QED
    BY <2>1, <2>5, PlainStep
<1> QED
  BY <1>2, <1>3

\* What goes into the cache is what is on the disk, and what stays was there before.
LEMMA TryInsertFramed ==
  ASSUME HttpInv, FramingInv, Named, edits = 0, NEW l \in Loopers, TryInsert(l)
  PROVE  FramingInv'
<1> DEFINE p == Path(frame[l].text)
           n == frame[l].cached
<1>1. /\ pc[l] = "tryInsert" /\ pc[l] \in Loading /\ pc' = [pc EXCEPT ![l] = "send"]
      /\ UNCHANGED <<answers, fileVars, frame>>
  BY DEF TryInsert, Goto, Loading, connVars
<1>2. /\ frame[l] \in Frame /\ OnDisk(l) = file[p] /\ frame[l].status = 200 /\ p \in Files
      /\ frame[l].url /\ frame[l].length = OnDisk(l) /\ OnDisk(l) \in Nat
  BY <1>1, LoadingFile
<1>3. n = file[p] /\ (GetMethod(frame[l].text) = "GET" => frame[l].body = OnDisk(l))
  BY <1>1, <1>2 DEF FramingInv, FrameAt
<1>4. FrameAt("send", frame[l])
  BY <1>1, <1>2, <1>3, FileAnswer
<1>5. CacheInv
  BY DEF FramingInv
<1>6. CacheInv'
  <2>1. CASE UNCHANGED cacheVars
    BY <1>1, <1>5, <2>1 DEF CacheInv, cacheVars, fileVars
  <2>2. CASE ~UNCHANGED cacheVars
    <3> DEFINE r == LRUCache!Fit(order, size, n)
    <3>1. LRUCache!Insert(p, n)
      BY <2>2 DEF TryInsert
    <3>2. n \in Nat /\ n <= Capacity
      BY <1>2, <1>3, <3>1 DEF LRUCache!Insert
    <3> HIDE DEF p, n
    <3>3. /\ order' = Append(r, p)
          /\ size' = [x \in Files |-> CASE x = p -> n [] x \in LRUCache!ToSet(r) -> size[x] [] OTHER -> 0]
      BY <3>1 DEF LRUCache!Insert
    <3>4. r \in Seq(Files) /\ ToSet(r) \subseteq ToSet(order) /\ LRUCache!ToSet(r) = ToSet(r)
      BY <1>5, <3>2, Fitting DEF CacheInv, LRUCache!ToSet, ToSet
    <3> HIDE DEF r
    <3>5. Append(r, p) \in Seq(Files) /\ Range(Append(r, p)) = Range(r) \cup {p}
      BY <1>2, <3>4, AppendProperties, RangeAppend
    <3>6. ToSet(order') = ToSet(r) \cup {p} /\ ToSet(order') \subseteq Files
      BY <1>2, <3>3, <3>5, RangeOfSeq DEF ToSet, Range
    <3>7. ASSUME NEW x \in ToSet(order') PROVE size'[x] = file[x]
      <4>1. CASE x = p
        <5>1. p \notin ToSet(r)
          BY <3>1, <3>4 DEF LRUCache!Insert, LRUCache!ToSet, ToSet
        <5> QED
          BY <1>2, <1>3, <3>3, <3>4, <4>1, <5>1
      <4>2. CASE x # p
        <5>1. x \in ToSet(r) /\ x \in Files /\ size[x] = file[x]
          BY <1>5, <3>4, <3>6, <4>2 DEF CacheInv
        <5> QED
          BY <3>3, <3>4, <4>2, <5>1
      <4> QED
        BY <4>1, <4>2
    <3> QED
      BY <1>1, <3>3, <3>5, <3>7 DEF CacheInv, fileVars
  <2> QED
    BY <2>1, <2>2
<1>7. \A c \in Conns : \A i \in DOMAIN answers'[c] : Sound(answers'[c][i])
  BY <1>1 DEF FramingInv
<1>8. frame' = [frame EXCEPT ![l] = frame[l]]
  BY <1>1 DEF HttpInv, TypeOK
<1> QED
  BY <1>1, <1>4, <1>6, <1>7, <1>8, FramingStep

LEMMA SendFramed ==
  ASSUME HttpInv, FramingInv, edits = 0, NEW l \in Loopers, Send(l) \/ SendError(l)
  PROVE  FramingInv'
<1>1. pc[l] = "send" /\ frame[l] \in Frame /\ Sound(Answer(frame[l]))
  BY DEF Send, SendError, FramingInv, FrameAt, HttpInv, TypeOK
<1>0. PICK c \in Conns : c = Cur(l)
  BY <1>1, Handling
<1> DEFINE Written(v) == [frame[l] EXCEPT !.written = v]
<1>2. \A v : FrameAt("next", Written(v))
  BY DEF FrameAt, Loading
<1>3. CASE SendError(l) /\ Dies(l)
  BY <1>3, IdleStep DEF Dies, connVars
<1>4. CASE SendError(l) /\ ~Dies(l)
  <2>1. /\ pc' = [pc EXCEPT ![l] = "next"] /\ frame' = [frame EXCEPT ![l] = Written(0)]
        /\ UNCHANGED <<answers, fileVars, cacheVars>>
    BY <1>4 DEF SendError, Goto, Set, connVars
  <2> HIDE DEF Written
  <2> QED
    BY <1>2, <2>1, PlainStep
<1>5. CASE Send(l)
  <2>1. UNCHANGED <<fileVars, cacheVars>>
    BY <1>5 DEF Send
  <2>2. CASE UNCHANGED <<pc, answers>>
    <3>1. PICK v : frame' = [frame EXCEPT ![l] = Written(v)]
      BY <1>5 DEF Send, Set
    <3>2. pc' = [pc EXCEPT ![l] = "send"]
      BY <1>1, <2>2 DEF HttpInv, TypeOK
    <3>3. /\ Written(v).text = frame[l].text /\ Written(v).status = frame[l].status
          /\ Written(v).close = frame[l].close /\ Written(v).length = frame[l].length
          /\ Written(v).url = frame[l].url /\ Written(v).body = frame[l].body
      BY <1>1 DEF Frame
    <3> HIDE DEF Written
    <3>4. Answer(Written(v)) = Answer(frame[l])
      BY <3>3 DEF Answer
    <3>5. FrameAt("send", Written(v))
      BY <1>1, <3>4 DEF FrameAt, Loading
    <3> QED
      BY <2>1, <2>2, <3>1, <3>2, <3>5, PlainStep
  <2>3. CASE ~UNCHANGED <<pc, answers>>
    <3> DEFINE a == Answer(frame[l])
    <3>1. /\ pc' = [pc EXCEPT ![l] = "next"] /\ frame' = [frame EXCEPT ![l] = Written(0)]
          /\ answers' = [answers EXCEPT ![c] = Append(answers[c], a)]
      BY <1>0, <1>5, <2>3 DEF Send, Goto, Set
    <3> HIDE DEF Written, a
    <3>2. answers \in [Conns -> Seq(Reply)]
      BY DEF HttpInv, TypeOK
    <3>3. ASSUME NEW d \in Conns, NEW i \in DOMAIN answers'[d] PROVE Sound(answers'[d][i])
      <4>1. CASE d # c
        BY <3>1, <3>2, <3>3, <4>1 DEF FramingInv
      <4>2. CASE d = c
        <5>1. answers'[c] = Append(answers[c], a) /\ answers[c] \in Seq(Reply)
          BY <3>1, <3>2
        <5>2. /\ Len(answers[c]) \in Nat /\ DOMAIN answers[c] = 1..Len(answers[c])
              /\ DOMAIN Append(answers[c], a) = 1..(Len(answers[c]) + 1)
              /\ \A j \in 1..Len(answers[c]) : Append(answers[c], a)[j] = answers[c][j]
              /\ Append(answers[c], a)[Len(answers[c]) + 1] = a
          BY <5>1
        <5>3. i \in 1..Len(answers[c]) \/ i = Len(answers[c]) + 1
          BY <4>2, <5>1, <5>2
        <5> QED
          BY <1>1, <4>2, <5>1, <5>2, <5>3 DEF FramingInv, a
      <4> QED
        BY <4>1, <4>2
    <3>4. CacheInv'
      BY <2>1 DEF FramingInv, CacheInv, cacheVars, fileVars
    <3> QED
      BY <1>2, <2>1, <3>1, <3>3, <3>4, FramingStep
  <2> QED
    BY <2>2, <2>3
<1> QED
  BY <1>3, <1>4, <1>5

LEMMA RunCallbackFramed ==
  ASSUME HttpInv, FramingInv, edits = 0, NEW l \in Loopers, NEW c \in Conns, RunCallback(l, c)
  PROVE  FramingInv'
<1> DEFINE f == [frame[l] EXCEPT !.conn = c]
<1>1. /\ pc[l] = "idle" /\ pc' = [pc EXCEPT ![l] = "recv"] /\ frame' = [frame EXCEPT ![l] = f]
      /\ UNCHANGED <<answers, fileVars, cacheVars>>
  BY DEF RunCallback, connVars
<1>2. frame[l] \in Frame /\ frame[l].body = 0
  BY <1>1 DEF FramingInv, FrameAt, HttpInv, TypeOK
<1>3. f.body = 0
  BY <1>2 DEF Frame
<1> HIDE DEF f
<1>4. FrameAt("recv", f)
  BY <1>3 DEF FrameAt, Loading
<1> QED
  BY <1>1, <1>4, PlainStep

LEMMA FramingKept ==
  ASSUME Named, HttpInv, FramingInv, [Next]_vars
  PROVE  FramingInv'
<1>1. CASE UNCHANGED vars
  BY <1>1, IdleStep DEF vars, connVars
<1>2. ASSUME NEW c \in Conns, Peer(c) PROVE FramingInv'
  <2>1. UNCHANGED <<pc, frame, answers, fileVars, cacheVars>>
    BY <1>2 DEF Peer, PeerSend, PeerSendPart, PeerRead, PeerClose, PeerReset, connVars
  <2> QED
    BY <2>1, IdleStep
<1>3. ASSUME NEW f \in Files, NEW n \in Kinds, EditFile(f, n) PROVE FramingInv'
  BY <1>3 DEF EditFile, FramingInv, HttpInv, TypeOK
<1>4. ASSUME edits # 0, UNCHANGED fileVars PROVE FramingInv'
  BY <1>4 DEF FramingInv, fileVars
<1>5. ASSUME NEW l \in Loopers, Handle(l) PROVE FramingInv'
  <2>1. UNCHANGED fileVars
    BY <1>5 DEF Handle, RecvChunk, RecvReturn, ParseNothing, Parse, FileExists, MakeResponse, FileSize,
                TryLoad, Serialize, LoadFile, TryInsert, Send, SendError, NextRequest, DeleteConnection, Dies
  <2>2. CASE edits # 0
    BY <1>4, <2>1, <2>2
  <2>3. CASE edits = 0
    <3>1. CASE RecvChunk(l)
      BY <3>1, IdleStep DEF RecvChunk
    <3>2. CASE ParseNothing(l)
      BY <2>3, <3>2, ReturningFramed DEF ParseNothing, connVars
    <3>3. CASE DeleteConnection(l)
      BY <2>3, <3>3, ReturningFramed DEF DeleteConnection
    <3> QED
      BY <1>5, <2>3, <3>1, <3>2, <3>3, ReceivingFramed, ParseFramed, FindingFramed, FileSizeFramed,
         TryLoadFramed, SerializeFramed, LoadFileFramed, TryInsertFramed, SendFramed DEF Handle
  <2> QED
    BY <2>2, <2>3
<1>6. ASSUME NEW l \in Loopers, NEW c \in Conns, RunCallback(l, c) PROVE FramingInv'
  BY <1>4, <1>6, RunCallbackFramed DEF RunCallback
<1> QED
  BY <1>1, <1>2, <1>3, <1>5, <1>6 DEF Next

\* While no file changes, every response to a GET and every refusal is as long as it
\* says, whether its body came from the cache or from the disk; and the type is the one
\* the name of the file promises, if the extension table knows it.
THEOREM FramedAsAnnounced ==
  ASSUME Named
  PROVE  Spec => []Framed
<1>1. Init => FramingInv
  <2> SUFFICES ASSUME Init PROVE FramingInv
    OBVIOUS
  <2>1. order = <<>> /\ file = Start /\ answers = [c \in Conns |-> <<>>]
    BY DEF Init, LRUCache!Init
  <2>2. CacheInv
    BY <2>1, EmptySeq DEF CacheInv, ToSet
  <2>3. ASSUME NEW l \in Loopers PROVE FrameAt(pc[l], frame[l])
    BY DEF Init, FrameAt, NoFrame, Loading
  <2> QED
    BY <2>1, <2>2, <2>3 DEF FramingInv
<1>2. HttpInv /\ FramingInv /\ [Next]_vars => FramingInv'
  BY FramingKept
<1>3. FramingInv => Framed
  BY DEF FramingInv, Framed, Sound
<1> QED
  BY <1>1, <1>2, <1>3, HttpInvariant, PTL DEF Spec

-----------------------------------------------------------------------------
(* The elements of a sequence that are in a set.                           *)

\* How far the elements of s that are in S have been collected.
Collects(f, s, S) ==
  /\ f[0] = <<>>
  /\ \A n \in 1..Len(s) : f[n] = IF s[n] \in S THEN Append(f[n - 1], s[n]) ELSE f[n - 1]

\* Only, as its recursion computes it.
LEMMA OnlyIs ==
  ASSUME NEW X, NEW s \in Seq(X), NEW S
  PROVE  \E f \in [0..Len(s) -> Seq(X)] : Collects(f, s, S) /\ Only(s, S) = f[Len(s)]
<1> DEFINE N == Len(s)
           Up(g) == [n \in 0..Len(s) |-> IF n = 0 THEN <<>>
                                 ELSE IF s[n] \in S THEN Append(g[n - 1], s[n]) ELSE g[n - 1]]
           it == CHOOSE it : it = Up(it)
           step == [p \in (1..N) \X Seq(X) |-> IF s[p[1]] \in S THEN Append(p[2], s[p[1]]) ELSE p[2]]
<1>1. N \in Nat /\ \A n \in 1..N : s[n] \in X
  BY LenProperties, ElementOfSeq
<1>2. step \in [(1..N) \X Seq(X) -> Seq(X)]
  <2> SUFFICES ASSUME NEW p \in (1..N) \X Seq(X)
               PROVE  (IF s[p[1]] \in S THEN Append(p[2], s[p[1]]) ELSE p[2]) \in Seq(X)
    OBVIOUS
  <2>1. p[1] \in 1..N /\ p[2] \in Seq(X) /\ s[p[1]] \in X
    BY <1>1
  <2>2. Append(p[2], s[p[1]]) \in Seq(X)
    BY <2>1, AppendProperties
  <2> QED
    BY <2>1, <2>2
<1>3. PICK f \in [0..N -> Seq(X)] : Steps(f, <<>>, step, N)
  <2>1. <<>> \in Seq(X)
    BY EmptySeq
  <2> HIDE DEF step, N
  <2> QED
    BY <1>1, <1>2, <2>1, UpwardExists
<1>4. ASSUME NEW n \in 1..N
      PROVE  f[n] = IF s[n] \in S THEN Append(f[n - 1], s[n]) ELSE f[n - 1]
  <2>1. f[n] = step[<<n, f[n - 1]>>]
    BY <1>3 DEF Steps
  <2>2. n - 1 \in 0..N
    BY <1>1
  <2>3. f[n - 1] \in Seq(X)
    BY <2>2
  <2>4. <<n, f[n - 1]>> \in (1..N) \X Seq(X)
    BY <2>3
  <2> QED
    BY <2>1, <2>4
<1>5. f = Up(f)
  <2> DEFINE Val(n) == IF n = 0 THEN <<>> ELSE IF s[n] \in S THEN Append(f[n - 1], s[n]) ELSE f[n - 1]
  <2>1. f[0] = <<>>
    BY <1>3 DEF Steps
  <2>2. ASSUME NEW n \in 0..N PROVE f[n] = Val(n)
    <3>1. CASE n = 0
      BY <2>1, <3>1
    <3>2. CASE n # 0
      <4>1. n \in 1..N
        BY <1>1, <3>2
      <4> QED
        BY <1>4, <3>2, <4>1
    <3> QED
      BY <3>1, <3>2
  <2>3. f = [n \in 0..N |-> f[n]]
    OBVIOUS
  <2>4. Up(f) = [n \in 0..N |-> Val(n)]
    BY Zenon
  <2> HIDE DEF Val
  <2>5. [n \in 0..N |-> f[n]] = [n \in 0..N |-> Val(n)]
    BY <2>2, Zenon
  <2> QED
    BY <2>3, <2>4, <2>5, Zenon
<1>6. it = Up(it)
  <2>1. \E g : g = Up(g)
    BY <1>5, Zenon
  <2> QED
    BY <2>1, Zenon
<1>7. Only(s, S) = it[N]
  BY Zenon DEF Only
<1>8. it[0] = <<>> /\ \A n \in 1..N : it[n] = IF s[n] \in S THEN Append(it[n - 1], s[n]) ELSE it[n - 1]
  <2> HIDE DEF it
  <2>1. \A n \in 0..N : it[n] = IF n = 0 THEN <<>>
                                 ELSE IF s[n] \in S THEN Append(it[n - 1], s[n]) ELSE it[n - 1]
    BY <1>6, Zenon
  <2> QED
    BY <1>1, <2>1
<1>9. ASSUME NEW n \in 0..N PROVE it[n] = f[n]
  <2> DEFINE T == {i \in Nat : i <= N => it[i] = f[i]}
  <2> HIDE DEF it
  <2>1. 0 \in T
    BY <1>3, <1>8 DEF Steps
  <2>2. ASSUME NEW i \in T PROVE i + 1 \in T
    <3> SUFFICES ASSUME i + 1 <= N PROVE it[i + 1] = f[i + 1]
      OBVIOUS
    <3>1. i + 1 \in 1..N /\ (i + 1) - 1 = i /\ it[i] = f[i]
      BY <1>1, <2>2
    <3> QED
      BY <1>4, <1>8, <3>1
  <2>3. T = Nat
    <3>1. T \subseteq Nat
      OBVIOUS
    <3> HIDE DEF T
    <3> QED
      BY <2>1, <2>2, <3>1, SetInduction
  <2> QED
    BY <1>1, <2>3
<1>10. Only(s, S) = f[N]
  <2>1. N \in 0..N
    BY <1>1
  <2> QED
    BY <1>7, <1>9, <2>1, Zenon
<1> QED
  BY <1>3, <1>4, <1>10 DEF Collects, Steps

\* s and t begin alike.
Alike(s, t, k) == k <= Len(s) /\ k <= Len(t) /\ \A i \in 1..k : s[i] = t[i]

\* Sequences that begin alike are collected alike.
LEMMA CollectsAlike ==
  ASSUME NEW X, NEW s \in Seq(X), NEW t \in Seq(X), NEW S, NEW f, NEW g, NEW k \in Nat,
         Collects(f, s, S), Collects(g, t, S), Alike(s, t, k)
  PROVE  f[k] = g[k]
<1> DEFINE T == {i \in Nat : i <= k => f[i] = g[i]}
<1>0. Len(s) \in Nat /\ Len(t) \in Nat
  BY LenProperties
<1>1. 0 \in T
  BY DEF Collects
<1>2. ASSUME NEW i \in T PROVE i + 1 \in T
  <2> SUFFICES ASSUME i + 1 <= k PROVE f[i + 1] = g[i + 1]
    OBVIOUS
  <2>1. /\ i + 1 \in 1..Len(s) /\ i + 1 \in 1..Len(t) /\ i + 1 \in 1..k
        /\ (i + 1) - 1 = i /\ f[i] = g[i]
    BY <1>0, <1>2 DEF Alike
  <2> QED
    BY <2>1 DEF Collects, Alike
<1>3. T = Nat
  <2>1. T \subseteq Nat
    OBVIOUS
  <2> HIDE DEF T
  <2> QED
    BY <1>1, <1>2, <2>1, SetInduction
<1> QED
  BY <1>3

\* Nothing of nothing.
LEMMA OnlyEmpty ==
  ASSUME NEW S
  PROVE  Only(<<>>, S) = <<>>
<1>1. <<>> \in Seq({}) /\ Len(<<>>) = 0
  BY EmptySeq
<1>2. PICK f \in [0..Len(<<>>) -> Seq({})] : Collects(f, <<>>, S) /\ Only(<<>>, S) = f[Len(<<>>)]
  BY <1>1, OnlyIs
<1> QED
  BY <1>1, <1>2 DEF Collects

\* What one more element makes of the elements in S, and what concatenation does;
\* named, so that a step can cite one case of them.
OnlyGrows(s, x, S) == Only(Append(s, x), S) = IF x \in S THEN Append(Only(s, S), x) ELSE Only(s, S)
OnlyJoins(s, t, S) == Only(s \o t, S) = Only(s, S) \o Only(t, S)

\* What one more element adds.
LEMMA OnlyAppend ==
  ASSUME NEW X, NEW s \in Seq(X), NEW x \in X, NEW S
  PROVE  OnlyGrows(s, x, S)
<1> DEFINE t == Append(s, x)
           n == Len(s)
<1>1. /\ n \in Nat /\ t \in Seq(X) /\ Len(t) = n + 1 /\ t[n + 1] = x
      /\ \A i \in 1..n : s[i] = t[i]
  BY AppendProperties, LenProperties
<1>2. PICK f \in [0..n -> Seq(X)] : Collects(f, s, S) /\ Only(s, S) = f[n]
  BY OnlyIs
<1> HIDE DEF t
<1>3. PICK g \in [0..Len(t) -> Seq(X)] : Collects(g, t, S) /\ Only(t, S) = g[Len(t)]
  BY <1>1, OnlyIs
<1>4. f[n] = g[n]
  <2>1. Alike(s, t, n)
    BY <1>1 DEF Alike
  <2> QED
    BY <1>1, <1>2, <1>3, <2>1, CollectsAlike
<1>5. n + 1 \in 1..Len(t) /\ (n + 1) - 1 = n /\ n \in 0..n
  BY <1>1
<1>6. Only(t, S) = IF t[n + 1] \in S THEN Append(g[n], t[n + 1]) ELSE g[n]
  BY <1>1, <1>3, <1>5 DEF Collects
<1>7. Only(t, S) = IF x \in S THEN Append(Only(s, S), x) ELSE Only(s, S)
  BY <1>1, <1>2, <1>4, <1>6, Zenon
<1> QED
  BY <1>7 DEF t, OnlyGrows

\* What is kept is in both sets.
LEMMA OnlyIn ==
  ASSUME NEW X, NEW s \in Seq(X), NEW S
  PROVE  Only(s, S) \in Seq(X \cap S)
<1> DEFINE Y == {q \in Seq(X) : Only(q, S) \in Seq(X \cap S)}
<1>1. <<>> \in Y
  BY OnlyEmpty, EmptySeq
<1>2. ASSUME NEW q \in Seq(X), NEW x \in X, q \in Y PROVE Append(q, x) \in Y
  <2>1. Append(q, x) \in Seq(X)
    BY AppendProperties
  <2>2. OnlyGrows(q, x, S)
    BY OnlyAppend
  <2>3. x \in S => Append(Only(q, S), x) \in Seq(X \cap S)
    BY <1>2, AppendProperties
  <2> QED
    BY <1>2, <2>1, <2>2, <2>3 DEF OnlyGrows
<1>3. Seq(X) \subseteq Y
  <2> HIDE DEF Y
  <2> QED
    BY <1>1, <1>2, SeqInduction
<1> QED
  BY <1>3

\* What is kept of a concatenation is kept of its parts.
LEMMA OnlyConcat ==
  ASSUME NEW X, NEW s \in Seq(X), NEW t \in Seq(X), NEW S
  PROVE  OnlyJoins(s, t, S)
<1> DEFINE Y == {q \in Seq(X) : Only(s \o q, S) = Only(s, S) \o Only(q, S)}
<1>0. Only(s, S) \in Seq(X \cap S)
  BY OnlyIn
<1>1. <<>> \in Y
  <2>1. <<>> \in Seq(X) /\ s \o <<>> = s /\ Only(s, S) \o <<>> = Only(s, S)
    BY <1>0, EmptySeq, ConcatEmptySeq
  <2> QED
    BY <2>1, OnlyEmpty
<1>2. ASSUME NEW q \in Seq(X), NEW x \in X, q \in Y PROVE Append(q, x) \in Y
  <2>1. Append(q, x) \in Seq(X) /\ s \o q \in Seq(X) /\ s \o Append(q, x) = Append(s \o q, x)
    BY AppendProperties, ConcatProperties, ConcatAppend
  <2>2. Only(q, S) \in Seq(X \cap S)
    BY OnlyIn
  <2>3. OnlyGrows(q, x, S) /\ OnlyGrows(s \o q, x, S)
    BY <2>1, OnlyAppend
  <2>5. x \in S => Only(s, S) \o Append(Only(q, S), x) = Append(Only(s, S) \o Only(q, S), x)
    BY <1>0, <2>2, ConcatAppend
  <2>6. Only(s \o q, S) = Only(s, S) \o Only(q, S)
    BY <1>2
  <2>7. Only(s \o Append(q, x), S) = Only(s, S) \o Only(Append(q, x), S)
    BY <2>1, <2>3, <2>5, <2>6, Zenon DEF OnlyGrows
  <2> QED
    BY <2>1, <2>7
<1>3. Seq(X) \subseteq Y
  <2> HIDE DEF Y
  <2> QED
    BY <1>1, <1>2, SeqInduction
<1> QED
  BY <1>3 DEF OnlyJoins

\* Nothing is kept of a sequence without elements of the set.
LEMMA OnlyNone ==
  ASSUME NEW X, NEW S, NEW s \in Seq(X \ S)
  PROVE  Only(s, S) = <<>>
<1> DEFINE Y == {q \in Seq(X \ S) : Only(q, S) = <<>>}
<1>1. <<>> \in Y
  BY OnlyEmpty, EmptySeq
<1>2. ASSUME NEW q \in Seq(X \ S), NEW x \in X \ S, q \in Y PROVE Append(q, x) \in Y
  <2>1. Append(q, x) \in Seq(X \ S)
    BY AppendProperties
  <2>2. OnlyGrows(q, x, S)
    <3> DEFINE D == X \ S
    <3>1. q \in Seq(D) /\ x \in D /\ x \notin S
      OBVIOUS
    <3> HIDE DEF D
    <3> QED
      BY <3>1, OnlyAppend
  <2> QED
    BY <1>2, <2>1, <2>2 DEF OnlyGrows
<1>3. Seq(X \ S) \subseteq Y
  <2> HIDE DEF Y
  <2> QED
    BY <1>1, <1>2, SeqInduction
<1> QED
  BY <1>3

\* The first request of a buffer is the one FindAndPopTill takes out of it.
LEMMA OnlyPopped ==
  ASSUME NEW buf \in Seq(Bytes), Terminator(buf) # 0
  PROVE  Only(buf, Texts) = <<buf[Terminator(buf)]>> \o Only(Popped(buf), Texts)
<1> DEFINE I == {i \in 1..Len(buf) : buf[i] # Part}
           n == Terminator(buf)
           x == buf[n]
           a == SubSeq(buf, 1, n - 1)
           b == SubSeq(buf, n, Len(buf))
           z == SubSeq(buf, n + 1, Len(buf))
<1>1. Len(buf) \in Nat /\ \A i \in 1..Len(buf) : buf[i] \in Bytes
  BY LenProperties, ElementOfSeq
<1>2. n = IF I # {} THEN Min(I) ELSE 0
  BY DEF Terminator, SelectInSeq
<1>3. n \in I /\ \A i \in I : n <= i
  <2>1. I \subseteq Nat /\ I # {}
    BY <1>1, <1>2
  <2>2. \E m \in I : \A i \in I : m <= i
    BY <2>1, LeastNat
  <2> HIDE DEF I
  <2> QED
    BY <1>2, <2>1, <2>2 DEF Min
<1>4. n \in 1..Len(buf) /\ x \in Texts
  BY <1>1, <1>3 DEF Bytes
<1>5. ASSUME NEW i \in 1..(n - 1) PROVE buf[i] \in Bytes \ Texts
  <2>1. i \in 1..Len(buf) /\ ~(n <= i)
    BY <1>1, <1>4
  <2>2. buf[i] = Part
    BY <1>3, <2>1
  <2> QED
    BY <2>2, HttpAssumption DEF Bytes
<1> HIDE DEF n, I
<1>6. a \in Seq(Bytes \ Texts) /\ a \in Seq(Bytes)
  <2>1. a \in Seq(Bytes \ Texts)
    BY <1>1, <1>4, <1>5, SubSeqProperties
  <2> HIDE DEF a
  <2> QED
    BY <2>1, SeqMonotonic
<1>7. b \in Seq(Bytes) /\ z \in Seq(Bytes)
  BY <1>1, <1>4, SubSeqProperties
<1>8. buf = a \o b
  <2>1. 1 \in 1..(Len(buf) + 1) /\ n - 1 \in (1 - 1)..Len(buf) /\ Len(buf) \in (n - 1)..Len(buf) /\ (n - 1) + 1 = n
    BY <1>1, <1>4
  <2>2. a \o SubSeq(buf, (n - 1) + 1, Len(buf)) = SubSeq(buf, 1, Len(buf))
    BY <2>1, ConcatAdjacentSubSeq
  <2> QED
    BY <2>1, <2>2, SubSeqFull
<1>9. b = <<x>> \o z
  <2>1. Len(buf) \in n..Len(buf)
    BY <1>1, <1>4
  <2> QED
    BY <1>4, <2>1, SubSeqRecursiveFirst
<1> HIDE DEF a, b, z, x
<1>10. Only(<<x>>, Texts) = <<x>> /\ <<x>> \in Seq(Bytes)
  <2>1. <<>> \in Seq(Bytes) /\ x \in Bytes /\ Append(<<>>, x) = <<x>>
    BY <1>4, EmptySeq DEF Bytes
  <2>2. OnlyGrows(<<>>, x, Texts) /\ Append(<<>>, x) \in Seq(Bytes)
    BY <2>1, OnlyAppend, AppendProperties
  <2> QED
    BY <1>4, <2>1, <2>2, OnlyEmpty DEF OnlyGrows
<1>11. OnlyJoins(a, b, Texts) /\ OnlyJoins(<<x>>, z, Texts)
  BY <1>6, <1>7, <1>10, OnlyConcat
<1>12. Only(buf, Texts) = Only(a, Texts) \o Only(b, Texts) /\ Only(b, Texts) = <<x>> \o Only(z, Texts)
  BY <1>8, <1>9, <1>10, <1>11, Zenon DEF OnlyJoins
<1>13. Only(a, Texts) = <<>>
  BY <1>6, OnlyNone
<1>14. Only(b, Texts) \in Seq(Bytes \cap Texts)
  BY <1>7, OnlyIn
<1>15. <<>> \o Only(b, Texts) = Only(b, Texts)
  BY <1>14, ConcatEmptySeq
<1>16. Popped(buf) = z
  BY DEF Popped, n, z
<1> QED
  BY <1>12, <1>13, <1>15, <1>16 DEF x, n

-----------------------------------------------------------------------------
(* Requests are answered in their order.                                   *)

\* Where a handler has a request in hand that it will answer.
Answering == Asking \cup {"send"}

Hand(c) == IF Cur(Home[c]) = c /\ pc[Home[c]] \in Answering THEN <<frame[Home[c]].text>> ELSE <<>>

\* The requests of a connection that nobody has looked at.
Waiting(c) == Only(readBuf[c] \o inbuf[c], Texts)

\* What a client asked is what is done with and the rest; what was to be answered of
\* the first was, and the rest is in hand or waiting, as long as the connection lives.
Order(c, done, rest) ==
  /\ asked[c] = done \o rest
  /\ Answered(c) = Only(done, AnsweredKinds)
  /\ alive[c] => rest = Hand(c) \o Waiting(c)

InOrder(c) == ~reset[c] => \E done, rest \in Seq(Texts) : Order(c, done, rest)

OrderInv ==
  /\ \A l \in Loopers : pc[l] = "send" => frame[l].text \in AnsweredKinds
  /\ \A c \in Conns : InOrder(c)

\* A connection of which nothing changes but that it may go, or that its client may leave.
LEMMA OrderStays ==
  ASSUME NEW c, InOrder(c), reset[c] => reset'[c], asked'[c] = asked[c], answers'[c] = answers[c],
         alive'[c] => alive[c] /\ Hand(c)' = Hand(c) /\ Waiting(c)' = Waiting(c)
  PROVE  InOrder(c)'
<1> SUFFICES ASSUME ~reset'[c]
             PROVE  \E done, rest \in Seq(Texts) : Order(c, done, rest)'
  BY DEF InOrder
<1>1. PICK done \in Seq(Texts), rest \in Seq(Texts) : Order(c, done, rest)
  BY DEF InOrder
<1>2. Answered(c)' = Answered(c)
  BY DEF Answered
<1>3. Order(c, done, rest)'
  BY <1>1, <1>2 DEF Order
<1> QED
  BY <1>3

\* What the handlers have in hand changes only where one of them takes or leaves a request.
LEMMA HandStays ==
  ASSUME NEW l \in Loopers, NEW d \in Conns,
         \A k \in Loopers \ {l} : pc'[k] = pc[k] /\ frame'[k] = frame[k],
         pc'[l] \in Answering <=> pc[l] \in Answering,
         pc[l] \in Answering => frame'[l].conn = frame[l].conn /\ frame'[l].text = frame[l].text
  PROVE  Hand(d)' = Hand(d)
<1>1. Home[d] \in Loopers
  BY HttpAssumption
<1>2. CASE Home[d] # l
  BY <1>1, <1>2 DEF Hand, Cur
<1>3. CASE Home[d] = l
  <2>1. CASE pc[l] \in Answering
    BY <1>3, <2>1 DEF Hand, Cur
  <2>2. CASE pc[l] \notin Answering
    BY <1>3, <2>2 DEF Hand, Cur
  <2> QED
    BY <2>1, <2>2
<1> QED
  BY <1>2, <1>3

\* A step of a handler that neither takes a request nor is done with one.
LEMMA QuietStep ==
  ASSUME OrderInv, NEW l \in Loopers,
         \A k \in Loopers \ {l} : pc'[k] = pc[k] /\ frame'[k] = frame[k],
         pc'[l] \in Answering <=> pc[l] \in Answering,
         pc[l] \in Answering => frame'[l].conn = frame[l].conn /\ frame'[l].text = frame[l].text,
         pc'[l] = "send" => frame'[l].text \in AnsweredKinds,
         UNCHANGED <<inbuf, reset, asked, answers>>,
         \A d \in Conns : alive'[d] => alive[d] /\ readBuf'[d] = readBuf[d]
  PROVE  OrderInv'
<1>1. ASSUME NEW d \in Conns PROVE InOrder(d)'
  <2>1. InOrder(d) /\ Hand(d)' = Hand(d)
    BY HandStays DEF OrderInv
  <2>2. alive'[d] => alive[d] /\ Waiting(d)' = Waiting(d)
    BY DEF Waiting
  <2> QED
    BY <2>1, <2>2, OrderStays
<1>2. ASSUME NEW k \in Loopers, pc'[k] = "send" PROVE frame'[k].text \in AnsweredKinds
  BY <1>2 DEF OrderInv
<1>3. AnsweredKinds' = AnsweredKinds
  BY DEF AnsweredKinds
<1> QED
  BY <1>1, <1>2, <1>3 DEF OrderInv

\* Between taking a request and answering it.
LEMMA AskingOrder ==
  ASSUME HttpInv, OrderInv, NEW l \in Loopers, down = None,
         \/ FileExists(l) \/ MakeResponse(l) \/ FileSize(l) \/ TryLoad(l) \/ Serialize(l)
         \/ LoadFile(l) \/ TryInsert(l)
  PROVE  OrderInv'
<1>1. frame[l] \in Frame /\ pc \in [Loopers -> Pcs] /\ frame \in [Loopers -> Frame]
  BY DEF HttpInv, TypeOK
<1>2. pc[l] \in Asking
  BY DEF FileExists, MakeResponse, FileSize, TryLoad, Serialize, LoadFile, TryInsert, Goto, Asking
<1>3. frame[l].text \in AnsweredKinds
  BY <1>2 DEF HttpInv, LooperInv, AnsweredKinds
<1>4. CASE Dies(l)
  BY <1>3, <1>4, QuietStep DEF Dies, netVars, connVars, OrderInv
<1>5. ASSUME ~Dies(l)
      PROVE  /\ UNCHANGED <<netVars, connVars>> /\ \E x \in Answering : pc' = [pc EXCEPT ![l] = x]
             /\ \E f : f.conn = frame[l].conn /\ f.text = frame[l].text /\ frame' = [frame EXCEPT ![l] = f]
  <2>1. frame = [frame EXCEPT ![l] = frame[l]]
    BY <1>1
  <2>2. CASE FileExists(l)
    <3>1. pc[l] = "exists" /\ OnDisk(l) # Unknown
      BY <1>5, <2>2 DEF FileExists
    <3>2. UNCHANGED <<netVars, connVars>> /\ \E x \in Answering : pc' = [pc EXCEPT ![l] = x]
      BY <2>2, <3>1, Zenon DEF FileExists, Goto, Answering, Asking
    <3>3. \E f : f.conn = frame[l].conn /\ f.text = frame[l].text /\ frame' = [frame EXCEPT ![l] = f]
      <4> DEFINE n == OnDisk(l)
                 h == [frame[l] EXCEPT !.seen = n]
                 g == Refused(frame[l], 404)
      <4>1. g.conn = frame[l].conn /\ g.text = frame[l].text
        BY <1>1, RefusedFrame
      <4>2. frame' = [frame EXCEPT ![l] = h] \/ frame' = [frame EXCEPT ![l] = g]
        BY <2>2, <3>1, Zenon DEF FileExists, Set, Refused
      <4> HIDE DEF g, n
      <4>3. h.conn = frame[l].conn /\ h.text = frame[l].text
        BY <1>1 DEF Frame
      <4> HIDE DEF h
      <4> QED
        BY <4>1, <4>2, <4>3, Zenon
    <3> QED
      BY <3>2, <3>3
  <2>3. CASE MakeResponse(l)
    <3>1. pc[l] = "make" /\ OnDisk(l) # Unknown
      BY <1>5, <2>3 DEF MakeResponse
    <3>2. UNCHANGED <<netVars, connVars>> /\ \E x \in Answering : pc' = [pc EXCEPT ![l] = x]
      BY <2>3, <3>1, Zenon DEF MakeResponse, Goto, Answering, Asking
    <3>3. \E f : f.conn = frame[l].conn /\ f.text = frame[l].text /\ frame' = [frame EXCEPT ![l] = f]
      <4> DEFINE g == [Made(frame[l]) EXCEPT !.url = TRUE]
                 h == [Made(frame[l]) EXCEPT !.url = FALSE, !.length = 0]
      <4>1. g.conn = frame[l].conn /\ g.text = frame[l].text /\ h.conn = frame[l].conn /\ h.text = frame[l].text
        BY <1>1, MadeFrame
      <4>2. frame' = [frame EXCEPT ![l] = g] \/ frame' = [frame EXCEPT ![l] = h]
        BY <2>3, <3>1, Zenon DEF MakeResponse, Set, Made
      <4> HIDE DEF g, h
      <4> QED
        BY <4>1, <4>2, Zenon
    <3> QED
      BY <3>2, <3>3
  <2>4. CASE FileSize(l)
    BY <1>1, <1>5, <2>1, <2>4 DEF FileSize, Goto, Set, Answering, Asking, Frame
  <2>5. CASE TryLoad(l)
    BY <1>1, <1>5, <2>1, <2>5 DEF TryLoad, Copied, Goto, Set, Answering, Asking, Frame
  <2>6. CASE Serialize(l)
    BY <1>1, <1>5, <2>1, <2>6 DEF Serialize, Goto, Set, Answering, Asking, Frame
  <2>7. CASE LoadFile(l)
    BY <1>1, <1>5, <2>1, <2>7 DEF LoadFile, Goto, Set, Answering, Asking, Frame
  <2>8. CASE TryInsert(l)
    BY <1>1, <1>5, <2>1, <2>8 DEF TryInsert, Goto, Set, Answering, Asking, Frame
  <2> QED
    BY <2>2, <2>3, <2>4, <2>5, <2>6, <2>7, <2>8
<1>6. CASE ~Dies(l)
  <2>1. /\ \A k \in Loopers \ {l} : pc'[k] = pc[k] /\ frame'[k] = frame[k]
        /\ pc'[l] \in Answering /\ frame'[l].conn = frame[l].conn /\ frame'[l].text = frame[l].text
    BY <1>1, <1>5, <1>6
  <2>2. pc[l] \in Answering
    BY <1>2 DEF Answering
  <2> QED
    BY <1>3, <1>5, <1>6, <2>1, <2>2, QuietStep DEF netVars, connVars
<1> QED
  BY <1>4, <1>6

\* The other steps of a handler that neither take a request nor are done with one.
LEMMA IdlingOrder ==
  ASSUME HttpInv, OrderInv, NEW l \in Loopers, down = None,
         \/ \E c \in Conns : RunCallback(l, c)
         \/ RecvReturn(l) \/ ParseNothing(l) \/ NextRequest(l) \/ DeleteConnection(l)
  PROVE  OrderInv'
<1>1. pc \in [Loopers -> Pcs] /\ frame \in [Loopers -> Frame]
  BY DEF HttpInv, TypeOK
<1>2. pc[l] \notin Answering /\ pc'[l] \notin Answering
  BY <1>1 DEF RunCallback, RecvReturn, ParseNothing, NextRequest, DeleteConnection, Goto, Return, Answering, Asking
<1>3. \A k \in Loopers \ {l} : pc'[k] = pc[k] /\ frame'[k] = frame[k]
  BY <1>1 DEF RunCallback, RecvReturn, ParseNothing, NextRequest, DeleteConnection, Goto, Return
<1>4. UNCHANGED <<inbuf, reset, asked, answers>>
  BY DEF RunCallback, RecvReturn, ParseNothing, NextRequest, DeleteConnection, netVars, connVars
<1>5. ASSUME NEW d \in Conns, alive'[d] PROVE alive[d] /\ readBuf'[d] = readBuf[d]
  <2>1. CASE DeleteConnection(l)
    BY <1>5, <2>1 DEF DeleteConnection, HttpInv, TypeOK
  <2>2. CASE ~DeleteConnection(l)
    BY <1>5, <2>2 DEF RunCallback, RecvReturn, ParseNothing, NextRequest, connVars
  <2> QED
    BY <2>1, <2>2
<1>6. pc'[l] # "send"
  BY <1>2 DEF Answering
<1> QED
  BY <1>2, <1>3, <1>4, <1>5, <1>6, QuietStep

\* The types of what the order of a connection is made of.
LEMMA OrderTypes ==
  ASSUME HttpInv, NEW c \in Conns
  PROVE  /\ readBuf[c] \in Seq(Bytes) /\ inbuf[c] \in Seq(Bytes) /\ readBuf[c] \o inbuf[c] \in Seq(Bytes)
         /\ Hand(c) \in Seq(Texts) /\ Waiting(c) \in Seq(Texts) /\ Home[c] \in Loopers
<1>1. readBuf[c] \in Seq(Bytes) /\ inbuf[c] \in Seq(Bytes) /\ readBuf[c] \o inbuf[c] \in Seq(Bytes)
  BY ConcatProperties DEF HttpInv, TypeOK
<1>2. Bytes \cap Texts = Texts
  BY DEF Bytes
<1>3. Waiting(c) \in Seq(Texts)
  BY <1>1, <1>2, OnlyIn DEF Waiting
<1>4. Home[c] \in Loopers
  BY HttpAssumption
<1>5. Hand(c) \in Seq(Texts)
  BY <1>4 DEF Hand, HttpInv, LooperInv, Answering
<1> QED
  BY <1>1, <1>3, <1>4, <1>5

\* Receiving moves requests from one buffer to the next.
LEMMA RecvChunkOrder ==
  ASSUME HttpInv, OrderInv, NEW l \in Loopers, RecvChunk(l)
  PROVE  OrderInv'
<1>1. PICK c \in Conns : c = Cur(l)
  BY Handling DEF RecvChunk
<1>2. /\ readBuf' = [readBuf EXCEPT ![c] = readBuf[c] \o inbuf[c]] /\ inbuf' = [inbuf EXCEPT ![c] = <<>>]
      /\ UNCHANGED <<reset, asked, alive, answers, pc, frame>>
  BY <1>1 DEF RecvChunk
<1>3. ASSUME NEW d \in Conns PROVE InOrder(d)'
  <2>1. InOrder(d) /\ Hand(d)' = Hand(d)
    BY <1>2 DEF OrderInv, Hand, Cur
  <2>2. readBuf'[d] \o inbuf'[d] = readBuf[d] \o inbuf[d]
    <3>1. CASE d = c
      <4>1. readBuf'[d] = readBuf[d] \o inbuf[d] /\ inbuf'[d] = <<>>
        BY <1>2, <3>1 DEF HttpInv, TypeOK
      <4>2. readBuf[d] \o inbuf[d] \in Seq(Bytes)
        BY OrderTypes
      <4> QED
        BY <4>1, <4>2, ConcatEmptySeq
    <3>2. CASE d # c
      BY <1>2, <3>2 DEF HttpInv, TypeOK
    <3> QED
      BY <3>1, <3>2
  <2>3. Waiting(d)' = Waiting(d)
    BY <2>2 DEF Waiting
  <2> QED
    BY <1>2, <2>1, <2>3, OrderStays
<1> QED
  BY <1>2, <1>3 DEF OrderInv, AnsweredKinds

\* A request that is taken is the first one waiting; one that asks for CGI is done with.
LEMMA ParseOrder ==
  ASSUME HttpInv, OrderInv, NEW l \in Loopers, Parse(l), down = None
  PROVE  OrderInv'
<1>1. PICK c \in Conns : c = Cur(l)
  BY Handling DEF Parse
<1>2. pc[l] = "parse" /\ Home[c] = l /\ alive[c] /\ Terminator(readBuf[c]) # 0
  BY <1>1, Handling DEF Parse
<1>3. PICK t : t = readBuf[c][Terminator(readBuf[c])]
  OBVIOUS
<1>4. readBuf[c] \in Seq(Bytes) /\ inbuf[c] \in Seq(Bytes) /\ t \in Texts
  BY <1>2, <1>3, OrderTypes, Popping
<1>5. /\ readBuf' = [readBuf EXCEPT ![c] = Popped(readBuf[c])]
      /\ UNCHANGED <<inbuf, reset, asked, alive, answers>>
  BY <1>1 DEF Parse, netVars
<1>6. Waiting(c) = <<t>> \o Waiting(c)' /\ Waiting(c)' \in Seq(Texts)
  <2> DEFINE p == Popped(readBuf[c])
             w == Only(inbuf[c], Texts)
             v == Only(p, Texts)
  <2>1. p \in Seq(Bytes) /\ readBuf'[c] = p /\ inbuf'[c] = inbuf[c]
    BY <1>4, <1>5, Popping DEF HttpInv, TypeOK
  <2>2. Only(readBuf[c], Texts) = <<t>> \o v
    BY <1>2, <1>3, <1>4, OnlyPopped
  <2>3. Bytes \cap Texts = Texts
    BY DEF Bytes
  <2> HIDE DEF p
  <2>4. OnlyJoins(readBuf[c], inbuf[c], Texts) /\ OnlyJoins(p, inbuf[c], Texts)
    BY <1>4, <2>1, OnlyConcat
  <2>5. w \in Seq(Texts) /\ v \in Seq(Texts)
    BY <1>4, <2>1, <2>3, OnlyIn
  <2>6. Waiting(c) = (<<t>> \o v) \o w /\ Waiting(c)' = v \o w
    BY <2>1, <2>2, <2>4, Zenon DEF Waiting, OnlyJoins
  <2>7. <<t>> \in Seq(Texts)
    BY <1>4
  <2> HIDE DEF v, w
  <2>8. (<<t>> \o v) \o w = <<t>> \o (v \o w) /\ v \o w \in Seq(Texts)
    BY <2>5, <2>7, ConcatAssociative, ConcatProperties
  <2> QED
    BY <2>6, <2>8
<1>7. Hand(c) = <<>>
  BY <1>2 DEF Hand, Answering, Asking
<1>8. pc \in [Loopers -> Pcs] /\ frame \in [Loopers -> Frame] /\ frame[l].conn = c
  BY <1>1 DEF HttpInv, TypeOK, Cur
<1>9. /\ \A k \in Loopers \ {l} : pc'[k] = pc[k] /\ frame'[k] = frame[k]
      /\ IF t \in AnsweredKinds
         THEN pc'[l] \in Answering /\ frame'[l].conn = c /\ frame'[l].text = t
         ELSE pc'[l] = "idle"
  <2>1. CASE ~IsValid(t)
    <3> DEFINE f == [frame[l] EXCEPT !.text = t, !.status = 400, !.close = TRUE, !.length = 0, !.url = FALSE,
                                !.noMore = TRUE]
    <3>1. pc' = [pc EXCEPT ![l] = "send"] /\ frame' = [frame EXCEPT ![l] = f]
      BY <1>1, <1>3, <2>1 DEF Parse, Goto, Set
    <3>2. f.conn = c /\ f.text = t
      BY <1>8 DEF Frame
    <3>3. t \in AnsweredKinds
      BY <1>4, <2>1 DEF AnsweredKinds
    <3> HIDE DEF f
    <3> QED
      BY <1>8, <3>1, <3>2, <3>3 DEF Answering
  <2>2. CASE IsValid(t) /\ IsCgiRequest(t)
    BY <1>1, <1>3, <1>4, <1>8, <2>2 DEF Parse, Return, AnsweredKinds
  <2>3. CASE IsValid(t) /\ ~IsCgiRequest(t)
    BY <1>1, <1>3, <1>4, <1>8, <2>3 DEF Parse, Goto, Set, Frame, Answering, Asking, AnsweredKinds
  <2> QED
    BY <2>1, <2>2, <2>3
<1>10. InOrder(c)'
  <2> SUFFICES ASSUME ~reset'[c] PROVE \E done, rest \in Seq(Texts) : Order(c, done, rest)'
    BY DEF InOrder
  <2>1. PICK done \in Seq(Texts), rest \in Seq(Texts) : Order(c, done, rest)
    BY <1>5 DEF OrderInv, InOrder
  <2>2. Answered(c)' = Answered(c) /\ Answered(c) = Only(done, AnsweredKinds) /\ asked'[c] = done \o rest
    BY <1>5, <2>1 DEF Answered, Order
  <2>3. rest = <<t>> \o Waiting(c)'
    <3>1. rest = <<>> \o Waiting(c) /\ Waiting(c) \in Seq(Texts)
      BY <1>2, <1>7, <2>1, OrderTypes DEF Order
    <3> QED
      BY <1>6, <3>1, ConcatEmptySeq
  <2>4. CASE t \in AnsweredKinds
    <3>1. Hand(c)' = <<t>>
      BY <1>2, <1>9, <2>4 DEF Hand, Cur
    <3>2. Order(c, done, rest)'
      BY <2>2, <2>3, <3>1 DEF Order, AnsweredKinds
    <3> QED
      BY <3>2
  <2>5. CASE t \notin AnsweredKinds
    <3>1. Hand(c)' = <<>>
      BY <1>2, <1>9, <2>5 DEF Hand, Cur, Answering, Asking
    <3> DEFINE e == Append(done, t)
    <3>0. PICK w \in Seq(Texts) : w = Waiting(c)'
      BY <1>6
    <3>2. e \in Seq(Texts) /\ e = done \o <<t>> /\ <<t>> \in Seq(Texts)
      BY <1>4, AppendProperties, AppendIsConcat
    <3>3. OnlyGrows(done, t, AnsweredKinds)
      BY <1>4, OnlyAppend
    <3>4. Only(e, AnsweredKinds) = Only(done, AnsweredKinds)
      BY <2>5, <3>3, Zenon DEF OnlyGrows
    <3>5. e \o w = done \o (<<t>> \o w)
      BY <3>2, ConcatAssociative
    <3>6. <<>> \o w = w
      BY ConcatEmptySeq
    <3>7. Order(c, e, w)'
      <4> HIDE DEF e
      <4> QED
        BY <2>2, <2>3, <3>0, <3>1, <3>4, <3>5, <3>6 DEF Order, AnsweredKinds
    <3> QED
      BY <3>2, <3>7
  <2> QED
    BY <2>4, <2>5
<1>11. ASSUME NEW d \in Conns \ {c} PROVE InOrder(d)'
  <2>1. Hand(d)' = Hand(d)
    <3>1. Home[d] \in Loopers /\ frame[l].conn # d /\ (pc'[l] \in Answering => frame'[l].conn # d)
      BY <1>8, <1>9, HttpAssumption DEF Answering, Asking
    <3> QED
      BY <1>9, <3>1 DEF Hand, Cur
  <2>2. Waiting(d)' = Waiting(d)
    BY <1>5 DEF Waiting, HttpInv, TypeOK
  <2> QED
    BY <1>5, <2>1, <2>2, OrderStays DEF OrderInv
<1>12. ASSUME NEW k \in Loopers, pc'[k] = "send" PROVE frame'[k].text \in AnsweredKinds
  BY <1>9, <1>12 DEF OrderInv
<1> QED
  BY <1>10, <1>11, <1>12 DEF OrderInv, AnsweredKinds

\* The last piece of a response is the answer to the request in hand.
LEMMA SendOrder ==
  ASSUME HttpInv, OrderInv, NEW l \in Loopers, Send(l), down = None
  PROVE  OrderInv'
<1>1. PICK c \in Conns : c = Cur(l)
  BY Handling DEF Send
<1>2. pc[l] = "send" /\ Home[c] = l /\ alive[c] /\ ~reset[c] /\ \A k \in Loopers \ {l} : Cur(k) # c
  BY <1>1, Handling DEF Send
<1>3. pc \in [Loopers -> Pcs] /\ frame \in [Loopers -> Frame] /\ frame[l] \in Frame /\ frame[l].conn = c
  BY <1>1 DEF HttpInv, TypeOK, Cur
<1>4. UNCHANGED <<inbuf, reset, asked, alive, readBuf>>
  BY DEF Send
<1> DEFINE t == frame[l].text
<1>5. t \in AnsweredKinds /\ t \in Texts
  BY <1>2 DEF OrderInv, AnsweredKinds
<1>6. ASSUME UNCHANGED <<pc, answers>>, NEW v, frame' = [frame EXCEPT ![l] = [frame[l] EXCEPT !.written = v]]
      PROVE  OrderInv'
  <2>1. /\ \A k \in Loopers \ {l} : pc'[k] = pc[k] /\ frame'[k] = frame[k]
        /\ frame'[l].conn = frame[l].conn /\ frame'[l].text = frame[l].text
    BY <1>3, <1>6 DEF Frame
  <2> QED
    BY <1>4, <1>5, <1>6, <2>1, QuietStep
<1>7. ASSUME pc' = [pc EXCEPT ![l] = "next"], frame' = [frame EXCEPT ![l] = [frame[l] EXCEPT !.written = 0]],
             answers' = [answers EXCEPT ![c] = Append(answers[c], Answer(frame[l]))]
      PROVE  OrderInv'
  <2>1. /\ \A k \in Loopers \ {l} : pc'[k] = pc[k] /\ frame'[k] = frame[k]
        /\ pc'[l] = "next" /\ frame'[l].conn = c
    BY <1>3, <1>7 DEF Frame
  <2>2. Hand(c) = <<t>> /\ Hand(c)' = <<>>
    <3>1. Hand(c) = <<t>>
      BY <1>2, <1>3 DEF Hand, Cur, Answering
    <3>2. Hand(c)' = <<>>
      BY <1>2, <2>1 DEF Hand, Answering, Asking
    <3> QED
      BY <3>1, <3>2
  <2>3. ASSUME NEW d \in Conns PROVE Waiting(d)' = Waiting(d)
    BY <1>4 DEF Waiting
  <2>4. ASSUME NEW d \in Conns \ {c} PROVE InOrder(d)'
    <3>1. Hand(d)' = Hand(d)
      BY <1>2, <1>3, <2>1, HttpAssumption DEF Hand, Cur
    <3>2. answers'[d] = answers[d]
      BY <1>7 DEF HttpInv, TypeOK
    <3> QED
      BY <1>4, <2>3, <3>1, <3>2, OrderStays DEF OrderInv
  <2>5. Answered(c)' = Append(Answered(c), t) /\ Answered(c) \in Seq(Texts)
    <3> DEFINE s == answers[c]
               a == Answer(frame[l])
               r == Answered(c)
    <3>1. a \in Reply /\ a.text = t
      BY <1>3, <1>5 DEF Answer, Reply, Frame
    <3>2. s \in Seq(Reply) /\ answers'[c] = Append(s, a)
      BY <1>7 DEF HttpInv, TypeOK
    <3> HIDE DEF a
    <3>3. /\ Len(s) \in Nat /\ DOMAIN s = 1..Len(s) /\ DOMAIN Append(s, a) = 1..(Len(s) + 1)
          /\ \A i \in 1..Len(s) : Append(s, a)[i] = s[i]
          /\ Append(s, a)[Len(s) + 1] = a
      BY <3>1, <3>2, AppendFacts
    <3>4. Answered(c)' = [i \in 1..(Len(s) + 1) |-> Append(s, a)[i].text]
      BY <3>2, <3>3 DEF Answered
    <3>5. r = [i \in 1..Len(s) |-> s[i].text]
      BY <3>3 DEF Answered
    <3>6. ASSUME NEW i \in 1..Len(s) PROVE s[i].text \in Texts
      <4>1. s[i] \in Reply
        BY <3>2, ElementOfSeq
      <4> QED
        BY <4>1 DEF Reply
    <3>7. r \in Seq(Texts) /\ Len(r) = Len(s)
      BY <3>3, <3>5, <3>6
    <3>8. [i \in 1..(Len(s) + 1) |-> Append(s, a)[i].text] = Append(r, t)
      <4> DEFINE u == [i \in 1..(Len(s) + 1) |-> Append(s, a)[i].text]
      <4>1. Append(r, t) \in Seq(Texts) /\ Len(Append(r, t)) = Len(s) + 1
            /\ (\A i \in 1..Len(s) : Append(r, t)[i] = r[i]) /\ Append(r, t)[Len(s) + 1] = t
        BY <1>5, <3>7, AppendProperties
      <4>2. ASSUME NEW i \in 1..(Len(s) + 1) PROVE u[i] = Append(r, t)[i]
        <5>1. CASE i = Len(s) + 1
          BY <3>1, <3>3, <4>1, <5>1
        <5>2. CASE i # Len(s) + 1
          <6>1. i \in 1..Len(s)
            BY <3>3, <5>2
          <6> QED
            BY <3>3, <3>5, <4>1, <6>1
        <5> QED
          BY <5>1, <5>2
      <4>3. DOMAIN Append(r, t) = 1..(Len(s) + 1) /\ Append(r, t) \in [1..(Len(s) + 1) -> Texts]
        BY <4>1, LenProperties
      <4> HIDE DEF r, s
      <4>4. u = [i \in 1..(Len(s) + 1) |-> Append(r, t)[i]]
        BY <4>2
      <4> QED
        BY <4>3, <4>4
    <3> QED
      BY <3>4, <3>7, <3>8
  <2>6. InOrder(c)'
    <3>1. PICK done \in Seq(Texts), rest \in Seq(Texts) : Order(c, done, rest)
      BY <1>2 DEF OrderInv, InOrder
    <3>2. PICK w \in Seq(Texts) : w = Waiting(c)
      BY OrderTypes
    <3>3. rest = <<t>> \o w /\ asked[c] = done \o rest /\ Answered(c) = Only(done, AnsweredKinds)
      BY <1>2, <2>2, <3>1, <3>2 DEF Order
    <3> DEFINE e == Append(done, t)
    <3>4. e \in Seq(Texts) /\ e = done \o <<t>> /\ <<t>> \in Seq(Texts)
      BY <1>5, AppendProperties, AppendIsConcat
    <3>5. OnlyGrows(done, t, AnsweredKinds)
      BY <1>5, OnlyAppend
    <3>6. Only(e, AnsweredKinds) = Append(Only(done, AnsweredKinds), t)
      BY <1>5, <3>5, Zenon DEF OnlyGrows
    <3>7. e \o w = done \o (<<t>> \o w)
      BY <3>4, ConcatAssociative
    <3>8. <<>> \o w = w
      BY ConcatEmptySeq
    <3>9. Waiting(c)' = w
      BY <2>3, <3>2
    <3>10. PICK h : h = e
      OBVIOUS
    <3>11. Order(c, h, w)'
      <4>1. asked'[c] = h \o w
        BY <1>4, <3>3, <3>7, <3>10
      <4>2. Answered(c)' = Only(h, AnsweredKinds)
        BY <2>5, <3>3, <3>6, <3>10
      <4>3. w = Hand(c)' \o Waiting(c)'
        BY <2>2, <3>8, <3>9
      <4> QED
        BY <4>1, <4>2, <4>3 DEF Order, AnsweredKinds
    <3> QED
      BY <3>4, <3>10, <3>11 DEF InOrder
  <2>7. ASSUME NEW k \in Loopers, pc'[k] = "send" PROVE frame'[k].text \in AnsweredKinds
    BY <2>1, <2>7 DEF OrderInv
  <2> QED
    BY <2>4, <2>6, <2>7 DEF OrderInv, AnsweredKinds
<1> QED
  BY <1>1, <1>6, <1>7 DEF Send, Set, Goto

\* A failed write passes over a request, to a client that is gone.
LEMMA SendErrorOrder ==
  ASSUME HttpInv, OrderInv, NEW l \in Loopers, SendError(l), down = None
  PROVE  OrderInv'
<1>1. PICK c \in Conns : c = Cur(l)
  BY Handling DEF SendError
<1>2. pc[l] = "send" /\ Home[c] = l /\ reset[c] /\ UNCHANGED <<inbuf, reset, asked, alive, readBuf, answers>>
  BY <1>1, Handling DEF SendError, Dies, netVars, connVars
<1>3. pc \in [Loopers -> Pcs] /\ frame \in [Loopers -> Frame] /\ frame[l] \in Frame /\ frame[l].conn = c
  BY <1>1 DEF HttpInv, TypeOK, Cur
<1>4. /\ \A k \in Loopers \ {l} : pc'[k] = pc[k] /\ frame'[k] = frame[k]
      /\ frame'[l].conn = c /\ frame'[l].text = frame[l].text
  BY <1>3 DEF SendError, Dies, Goto, Set, Frame
<1>5. ASSUME NEW d \in Conns PROVE InOrder(d)'
  <2>1. CASE d = c
    BY <1>2, <2>1 DEF InOrder
  <2>2. CASE d # c
    <3>1. Hand(d)' = Hand(d)
      BY <1>2, <1>3, <1>4, <2>2, HttpAssumption DEF Hand, Cur
    <3>2. Waiting(d)' = Waiting(d)
      BY <1>2 DEF Waiting
    <3> QED
      BY <1>2, <3>1, <3>2, OrderStays DEF OrderInv
  <2> QED
    BY <2>1, <2>2
<1>6. ASSUME NEW k \in Loopers, pc'[k] = "send" PROVE frame'[k].text \in AnsweredKinds
  BY <1>2, <1>4, <1>6 DEF OrderInv
<1> QED
  BY <1>5, <1>6 DEF OrderInv, AnsweredKinds

\* A request that a client sends waits behind those it sent before.
LEMMA PeerSendOrder ==
  ASSUME HttpInv, OrderInv, NEW c \in Conns, alive[c], NEW t \in Texts, PeerSend(c, t)
  PROVE  InOrder(c)'
<1>1. /\ inbuf'[c] = Append(inbuf[c], t) /\ asked'[c] = Append(asked[c], t) /\ ~reset[c]
      /\ UNCHANGED <<reset, alive, readBuf, answers, pc, frame>>
  BY DEF PeerSend, connVars, HttpInv, TypeOK
<1>2. PICK done \in Seq(Texts), rest \in Seq(Texts) : Order(c, done, rest)
  BY <1>1 DEF OrderInv, InOrder
<1>3. PICK w \in Seq(Texts) : w = Waiting(c)
  BY OrderTypes
<1>4. PICK h \in Seq(Texts) : h = Hand(c)
  BY OrderTypes
<1>5. asked[c] = done \o rest /\ rest = h \o w /\ Answered(c) = Only(done, AnsweredKinds)
  BY <1>2, <1>3, <1>4 DEF Order
<1>6. Answered(c)' = Answered(c) /\ Hand(c)' = Hand(c)
  BY <1>1 DEF Answered, Hand, Cur
<1>7. Waiting(c)' = Append(w, t)
  <2> DEFINE b == readBuf[c] \o inbuf[c]
  <2>1. t \in Bytes /\ b \in Seq(Bytes) /\ readBuf[c] \in Seq(Bytes) /\ inbuf[c] \in Seq(Bytes)
    BY OrderTypes DEF Bytes
  <2>2. readBuf'[c] \o inbuf'[c] = Append(b, t)
    <3>1. ASSUME NEW p \in Seq(Bytes), NEW q \in Seq(Bytes) PROVE p \o Append(q, t) = Append(p \o q, t)
      BY <2>1, ConcatAppend
    <3> QED
      BY <1>1, <2>1, <3>1, Zenon
  <2> HIDE DEF b
  <2>3. OnlyGrows(b, t, Texts)
    BY <2>1, OnlyAppend
  <2>4. Only(Append(b, t), Texts) = Append(Only(b, Texts), t)
    BY <2>3, Zenon DEF OnlyGrows
  <2> QED
    BY <1>3, <2>2, <2>4 DEF Waiting, b
<1>8. PICK r : r = Append(rest, t)
  OBVIOUS
<1>9. r \in Seq(Texts) /\ asked'[c] = done \o r
  <2>1. Append(rest, t) \in Seq(Texts) /\ done \o Append(rest, t) = Append(done \o rest, t)
    BY AppendProperties, ConcatAppend
  <2> QED
    BY <1>1, <1>5, <1>8, <2>1, Zenon
<1>10. r = h \o Append(w, t)
  BY <1>5, <1>8, ConcatAppend
<1>11. Order(c, done, r)'
  BY <1>4, <1>5, <1>6, <1>7, <1>9, <1>10 DEF Order, AnsweredKinds
<1> QED
  BY <1>9, <1>11 DEF InOrder

\* What a client does can only add to the end of its queue.
LEMMA PeerOrder ==
  ASSUME HttpInv, OrderInv, NEW c \in Conns, Peer(c)
  PROVE  OrderInv'
<1>1. alive[c] /\ UNCHANGED <<alive, readBuf, answers, pc, frame>>
  BY DEF Peer, PeerSend, PeerSendPart, PeerRead, PeerClose, PeerReset, connVars
<1>2. \A d \in Conns : Hand(d)' = Hand(d)
  BY <1>1 DEF Hand, Cur
<1>3. ASSUME NEW d \in Conns \ {c} PROVE InOrder(d)'
  <2>1. inbuf'[d] = inbuf[d] /\ asked'[d] = asked[d] /\ reset'[d] = reset[d]
    BY DEF Peer, PeerSend, PeerSendPart, PeerRead, PeerClose, PeerReset, HttpInv, TypeOK
  <2>2. Waiting(d)' = Waiting(d)
    BY <1>1, <2>1 DEF Waiting
  <2> QED
    BY <1>1, <1>2, <2>1, <2>2, OrderStays DEF OrderInv
<1>4. ASSUME NEW t \in Texts, PeerSend(c, t) PROVE InOrder(c)'
  BY <1>1, <1>4, PeerSendOrder
<1>5. ASSUME PeerSendPart(c) PROVE InOrder(c)'
  <2>1. inbuf'[c] = Append(inbuf[c], Part) /\ asked' = asked /\ reset' = reset
    BY <1>5 DEF PeerSendPart, HttpInv, TypeOK
  <2> DEFINE b == readBuf[c] \o inbuf[c]
  <2>2. Part \in Bytes /\ b \in Seq(Bytes) /\ readBuf[c] \in Seq(Bytes) /\ inbuf[c] \in Seq(Bytes)
    BY OrderTypes DEF Bytes
  <2>3. readBuf'[c] \o inbuf'[c] = Append(b, Part)
    <3>1. ASSUME NEW p \in Seq(Bytes), NEW q \in Seq(Bytes) PROVE p \o Append(q, Part) = Append(p \o q, Part)
      BY <2>2, ConcatAppend
    <3>2. readBuf'[c] = readBuf[c] /\ inbuf'[c] = Append(inbuf[c], Part)
      BY <1>1, <2>1
    <3> QED
      BY <2>2, <3>1, <3>2, Zenon
  <2> HIDE DEF b
  <2>4. OnlyGrows(b, Part, Texts)
    BY <2>2, OnlyAppend
  <2>5. Only(Append(b, Part), Texts) = Only(b, Texts)
    BY <2>4, HttpAssumption, Zenon DEF OnlyGrows
  <2>6. Waiting(c)' = Waiting(c)
    BY <2>3, <2>5 DEF Waiting, b
  <2> QED
    BY <1>1, <1>2, <2>1, <2>6, OrderStays DEF OrderInv
<1>6. ASSUME PeerRead(c) \/ PeerClose(c) PROVE InOrder(c)'
  <2>1. inbuf' = inbuf /\ asked' = asked /\ reset' = reset
    BY <1>6 DEF PeerRead, PeerClose
  <2>2. Waiting(c)' = Waiting(c)
    BY <1>1, <2>1 DEF Waiting
  <2> QED
    BY <1>1, <1>2, <2>1, <2>2, OrderStays DEF OrderInv
<1>7. ASSUME PeerReset(c) PROVE InOrder(c)'
  BY <1>7 DEF PeerReset, InOrder, HttpInv, TypeOK
<1>8. InOrder(c)'
  BY <1>4, <1>5, <1>6, <1>7 DEF Peer
<1> QED
  BY <1>1, <1>3, <1>8 DEF OrderInv, AnsweredKinds

\* Nothing happens to a connection when a file changes, or nothing at all.
LEMMA NothingOrder ==
  ASSUME OrderInv, UNCHANGED <<inbuf, reset, asked, alive, readBuf, answers, pc, frame>>
  PROVE  OrderInv'
<1>1. ASSUME NEW d \in Conns PROVE InOrder(d)'
  <2>1. Hand(d)' = Hand(d) /\ Waiting(d)' = Waiting(d)
    BY DEF Hand, Cur, Waiting
  <2> QED
    BY <2>1, OrderStays DEF OrderInv
<1> QED
  BY <1>1 DEF OrderInv, AnsweredKinds

LEMMA OrderInitially == Init => OrderInv
<1> SUFFICES ASSUME Init PROVE OrderInv
  OBVIOUS
<1>1. ASSUME NEW c \in Conns PROVE Order(c, <<>>, <<>>)
  <2>1. /\ asked[c] = <<>> /\ answers[c] = <<>> /\ readBuf[c] = <<>> /\ inbuf[c] = <<>>
        /\ <<>> \o <<>> = <<>>
    BY DEF Init
  <2>2. Home[c] \in Loopers /\ pc[Home[c]] = "idle"
    BY HttpAssumption DEF Init
  <2>3. Hand(c) = <<>>
    BY <2>2 DEF Hand, Answering, Asking
  <2>4. Answered(c) = <<>>
    BY <2>1 DEF Answered
  <2> QED
    BY <2>1, <2>3, <2>4, OnlyEmpty DEF Order, Waiting
<1>2. <<>> \in Seq(Texts)
  BY EmptySeq
<1>3. \A c \in Conns : InOrder(c)
  BY <1>1, <1>2 DEF InOrder
<1>4. \A l \in Loopers : pc[l] # "send"
  BY DEF Init
<1> QED
  BY <1>3, <1>4 DEF OrderInv

LEMMA OrderKept == HttpInv /\ OrderInv /\ [Next]_vars => OrderInv'
<1> SUFFICES ASSUME HttpInv, OrderInv, [Next]_vars PROVE OrderInv'
  OBVIOUS
<1>1. ASSUME NEW l \in Loopers, Handle(l), down = None PROVE OrderInv'
  BY <1>1, RecvChunkOrder, IdlingOrder, ParseOrder, AskingOrder, SendOrder, SendErrorOrder DEF Handle
<1>2. ASSUME NEW l \in Loopers, NEW c \in Conns, RunCallback(l, c), down = None PROVE OrderInv'
  BY <1>2, IdlingOrder
<1>3. CASE UNCHANGED vars
  BY <1>3, NothingOrder DEF vars, netVars, connVars
<1>4. ASSUME NEW f, NEW n, EditFile(f, n) PROVE OrderInv'
  BY <1>4, NothingOrder DEF EditFile, netVars, connVars
<1> QED
  BY <1>1, <1>2, <1>3, <1>4, PeerOrder DEF Next

\* However the requests of a client are cut and batched, its responses answer them one
\* by one in their order, until a write fails because the client is gone.
THEOREM AnswersInOrder == Spec => []AnsweredInOrder
<1>1. HttpInv /\ OrderInv => AnsweredInOrder
  <2> SUFFICES ASSUME HttpInv, OrderInv, NEW c \in Conns, ~reset[c]
               PROVE  IsPrefix(Answered(c), Answerable(c))
    BY DEF AnsweredInOrder
  <2>1. PICK done \in Seq(Texts), rest \in Seq(Texts) : Order(c, done, rest)
    BY DEF OrderInv, InOrder
  <2>2. OnlyJoins(done, rest, AnsweredKinds)
    BY OnlyConcat
  <2>3. Answerable(c) = Answered(c) \o Only(rest, AnsweredKinds)
    BY <2>1, <2>2, Zenon DEF Answerable, Order, OnlyJoins
  <2>4. Answered(c) \in Seq(Texts \cap AnsweredKinds) /\ Only(rest, AnsweredKinds) \in Seq(Texts \cap AnsweredKinds)
    BY <2>1, OnlyIn DEF Order
  <2> QED
    BY <2>3, <2>4, ConcatBegins DEF IsPrefix
<1>2. Init => HttpInv /\ OrderInv
  BY HttpInitially, OrderInitially
<1>3. HttpInv /\ OrderInv /\ [Next]_vars => (HttpInv /\ OrderInv)'
  BY HttpStep, OrderKept
<1> QED
  BY <1>1, <1>2, <1>3, PTL DEF Spec
=============================================================================
