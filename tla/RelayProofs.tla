---------------------------- MODULE RelayProofs ----------------------------
(***************************************************************************)
(* Proofs about the relay of an attached client, for any sizes of buffers, *)
(* pumps and windows and any loads: each direction is a Conduit, and       *)
(* neither is ended ahead of its last byte.                                *)
(***************************************************************************)
EXTENDS RelayProperties, SequenceTheorems, TLAPS

Bytes == Seq(Nat)
s ++ t == s \o t
Starts(s, t) == Len(s) <= Len(t) /\ s = SubSeq(t, 1, Len(s))

-----------------------------------------------------------------------------
(* The inductive invariant *)

Fds == {"stdin", "socket", "channel"}
Snapshots == SUBSET (Fds \X (Readable \cup {"OUT"}))
Places == {"poll", "stdin", "sockIn", "sockOut", "stdout", "finish", "flush"}

StreamsOK ==
  /\ typed \in Bytes /\ got \in Bytes /\ up \in Bytes /\ toSocket \in Bytes
  /\ said \in Bytes /\ out \in Bytes /\ down \in Bytes /\ toStdout \in Bytes
  /\ channel \in Bytes /\ batch \in Bytes
  /\ Len(up) <= SockCap /\ Len(channel) <= ChannelCap
WorldOK ==
  /\ load \in Loads
  /\ stdin \in [held : Bytes, end : {"open"} \cup StdinEnds]
  /\ stdout \in [mode : {"blocking", "nonblocking"}, end : {"open", "left", "full"}]
  /\ daemon \in {"open", "shut", "closed"} /\ unread \in Nat
ThreadsOK ==
  /\ relay \in [pc : Places, stdinOpen : BOOLEAN, socketOpen : BOOLEAN, stdoutOpen : BOOLEAN,
                halfClosed : BOOLEAN, ready : Snapshots,
                left : Nat, result : {"running", "ok", "failed", "TimedOut"}]
  /\ relay.result = "running" => relay.left > 0
  /\ worker \in [pc : {"fill", "poll", "write", "status", "close", "gone"}, moved : BOOLEAN,
                 end : {"ok", "failed"}]
  /\ status \in {"none", "ok", "failed"}
  /\ shut \in BOOLEAN /\ progress \in BOOLEAN /\ quiet \in Nat
TypeOK == StreamsOK /\ WorldOK /\ ThreadsOK

(* A byte is in one place of its direction, in its turn, until the worker   *)
(* or the daemon is gone and the pump before it drops what it owed.         *)
OutputKept ==
  IF WorkerGone THEN Starts(out, said)
  ELSE said = out ++ (batch ++ (channel ++ (toStdout ++ down)))
InputKept ==
  IF daemon = "closed" THEN Starts(got, typed)
  ELSE typed = got ++ (up ++ (toSocket ++ stdin.held))
BatchIsWritten == Works("fill") => batch = <<>>

(* What a snapshot says of an end stays so, and one that saw stdin found    *)
(* its pump empty.                                                          *)
SnapshotHolds ==
  /\ <<"channel", "HUP">> \in relay.ready => WorkerGone
  /\ <<"stdin", "NVAL">> \in relay.ready => stdin.end = "nval"
  /\ <<"stdin", "ERR">> \in relay.ready => stdin.end = "err"
  /\ <<"socket", "ERR">> \in relay.ready => daemon = "closed"
  /\ At("stdin") /\ Found("stdin") # {} => toSocket = <<>> /\ relay.stdinOpen

(* An end that was read is one nothing comes from any more.                 *)
SocketIsRead == ~relay.socketOpen => down = <<>> /\ daemon # "open"
StdinIsRead ==
  /\ relay.halfClosed => ~relay.stdinOpen
  /\ relay.halfClosed => stdin.end # "open"
  /\ relay.halfClosed /\ stdin.end = "hup" => stdin.held = <<>> /\ toSocket = <<>>
FlushIsLast ==
  /\ shut <=> At("flush")
  /\ shut \/ At("finish") => WorkerGone \/ (toStdout = <<>> /\ ~relay.socketOpen)

(* What the worker's end says of stdout, and what the clock of the last     *)
(* flush has seen.                                                          *)
WorkerIsTrue ==
  /\ worker.pc \in {"status", "close", "gone"} /\ worker.end = "ok" =>
       stdout.end = "left" \/ (out = said /\ daemon # "open")
  /\ status # "none" => status = worker.end /\ worker.pc \in {"close", "gone"}
  /\ relay.result = "ok" => status = "ok"
ClockIsTrue ==
  /\ At("flush") /\ ~progress /\ relay.result = "running" => quiet + relay.left >= Window
  /\ relay.result = "TimedOut" => quiet >= Window

IInv ==
  /\ TypeOK /\ OutputKept /\ InputKept /\ BatchIsWritten /\ SnapshotHolds
  /\ SocketIsRead /\ StdinIsRead /\ FlushIsLast /\ WorkerIsTrue /\ ClockIsTrue

-----------------------------------------------------------------------------
(* Sequences of bytes *)

LEMMA BytesAssociate ==
  ASSUME NEW s \in Bytes, NEW t \in Bytes, NEW u \in Bytes
  PROVE  (s ++ t) ++ u = s ++ (t ++ u)
BY SMTT(30) DEF Bytes, ++

LEMMA BytesJoin ==
  ASSUME NEW s \in Bytes, NEW t \in Bytes
  PROVE  s ++ t \in Bytes /\ Len(s ++ t) = Len(s) + Len(t) /\ Len(s) \in Nat /\ Len(t) \in Nat
BY ConcatProperties, LenProperties DEF Bytes, ++

(* Bytes pass from the head of one place to the tail of the one before it.  *)
LEMMA BytesMove ==
  ASSUME NEW s \in Bytes, NEW p \in Bytes, NEW t \in Bytes, NEW u \in Bytes
  PROVE  (s ++ p) ++ (t ++ u) = s ++ ((p ++ t) ++ u)
<1>1. t ++ u \in Bytes
  BY BytesJoin
<1>2. (s ++ p) ++ (t ++ u) = s ++ (p ++ (t ++ u))
  BY <1>1, BytesAssociate
<1> QED  BY <1>2, BytesAssociate

LEMMA BytesAppend ==
  ASSUME NEW s \in Bytes, NEW t \in Bytes, NEW x \in Nat
  PROVE  s ++ Append(t, x) = Append(s ++ t, x)
BY DEF Bytes, ++

LEMMA NoBytes ==
  ASSUME NEW s \in Bytes
  PROVE  <<>> \in Bytes /\ <<>> ++ s = s /\ s ++ <<>> = s /\ Len(<<>>) = 0
BY EmptySeq, ConcatEmptySeq DEF Bytes, ++

LEMMA TakenAndLeft ==
  ASSUME NEW s \in Bytes, NEW n \in 0 .. Len(s)
  PROVE  /\ SubSeq(s, 1, n) \in Bytes /\ SubSeq(s, n + 1, Len(s)) \in Bytes
         /\ Len(SubSeq(s, 1, n)) = n /\ Len(SubSeq(s, n + 1, Len(s))) = Len(s) - n
         /\ SubSeq(s, 1, n) \o SubSeq(s, n + 1, Len(s)) = s
<1>1. s \in Seq(Nat) /\ Len(s) \in Nat /\ n \in Nat /\ \A i \in 1 .. Len(s) : s[i] \in Nat
  BY LenProperties, ElementOfSeq DEF Bytes
<1>2. SubSeq(s, 1, n) \in Seq(Nat) /\ Len(SubSeq(s, 1, n)) = n
  <2>1. \A i \in 1 .. n : s[i] \in Nat
    BY <1>1
  <2>2. Len(SubSeq(s, 1, n)) = IF 1 <= n THEN n - 1 + 1 ELSE 0
    BY <1>1, <2>1, SubSeqProperties
  <2> QED  BY <1>1, <2>1, <2>2, SubSeqProperties
<1>3. /\ SubSeq(s, n + 1, Len(s)) \in Seq(Nat)
      /\ Len(SubSeq(s, n + 1, Len(s))) = Len(s) - n
  <2>1. \A i \in n + 1 .. Len(s) : s[i] \in Nat
    BY <1>1
  <2>2. Len(SubSeq(s, n + 1, Len(s))) = IF n + 1 <= Len(s) THEN Len(s) - (n + 1) + 1 ELSE 0
    BY <1>1, <2>1, SubSeqProperties
  <2> QED  BY <1>1, <2>1, <2>2, SubSeqProperties
<1>4. SubSeq(s, 1, n) \o SubSeq(s, n + 1, Len(s)) = SubSeq(s, 1, Len(s))
  <2>1. 1 \in 1 .. Len(s) + 1 /\ n \in 1 - 1 .. Len(s) /\ Len(s) \in n .. Len(s)
    BY <1>1
  <2> QED  BY <1>1, <2>1, ConcatAdjacentSubSeq
<1>5. SubSeq(s, 1, Len(s)) = s
  BY <1>1, SubSeqFull
<1> QED  BY <1>2, <1>3, <1>4, <1>5 DEF Bytes

(* What one read takes, and what it leaves.                                 *)
LEMMA FirstAndRest ==
  ASSUME NEW s \in Bytes, NEW n \in Nat
  PROVE  /\ First(s, n) \in Bytes /\ Rest(s, n) \in Bytes /\ First(s, n) ++ Rest(s, n) = s
         /\ Rest(s, Len(First(s, n))) = Rest(s, n) /\ Len(First(s, n)) <= n
         /\ Len(Rest(s, n)) <= Len(s) /\ Len(First(s, n)) \in Nat
         /\ s = <<>> => First(s, n) = <<>> /\ Rest(s, n) = <<>>
<1> DEFINE m == SmallerOf(n, Len(s))
<1>1. Len(s) \in Nat /\ m \in 0 .. Len(s) /\ m <= n
  BY LenProperties DEF Bytes, SmallerOf
<1>2. First(s, n) = SubSeq(s, 1, m)
  BY DEF First
<1>3. Rest(s, n) = SubSeq(s, m + 1, Len(s))
  <2>1. CASE n < Len(s)
    BY <2>1 DEF SmallerOf, Rest
  <2>2. CASE ~(n < Len(s))
    <3>1. n >= Len(s) /\ m = Len(s)
      BY <1>1, <2>2 DEF SmallerOf
    <3>2. SubSeq(s, n + 1, Len(s)) = <<>> /\ SubSeq(s, m + 1, Len(s)) = <<>>
      BY <1>1, <3>1, SubSeqEmpty DEF Bytes
    <3> QED  BY <3>2 DEF Rest
  <2> QED  BY <2>1, <2>2
<1> HIDE DEF m
<1>4. /\ SubSeq(s, 1, m) \in Bytes /\ SubSeq(s, m + 1, Len(s)) \in Bytes
      /\ Len(SubSeq(s, 1, m)) = m /\ Len(SubSeq(s, m + 1, Len(s))) = Len(s) - m
      /\ SubSeq(s, 1, m) \o SubSeq(s, m + 1, Len(s)) = s
  BY <1>1, TakenAndLeft
<1>5. Rest(s, m) = Rest(s, n)
  BY <1>3 DEF Rest
<1>6. s = <<>> => First(s, n) = <<>> /\ Rest(s, n) = <<>>
  <2> SUFFICES ASSUME s = <<>> PROVE First(s, n) = <<>> /\ Rest(s, n) = <<>>
    OBVIOUS
  <2>1. Len(s) = 0 /\ m = 0
    BY <1>1, NoBytes
  <2>2. Len(First(s, n)) = 0 /\ Len(Rest(s, n)) = 0
    BY <1>2, <1>3, <1>4, <2>1
  <2> QED  BY <1>2, <1>3, <1>4, <2>2, EmptySeq DEF Bytes
<1>7. Len(First(s, n)) = m /\ Len(Rest(s, n)) = Len(s) - m
  BY <1>2, <1>3, <1>4
<1>8. Rest(s, Len(First(s, n))) = Rest(s, n)
  BY <1>5, <1>7
<1>9. First(s, n) ++ Rest(s, n) = s
  BY <1>2, <1>3, <1>4 DEF ++
<1>10. /\ Len(First(s, n)) <= n /\ Len(Rest(s, n)) <= Len(s) /\ Len(First(s, n)) \in Nat
  BY <1>1, <1>7
<1> QED  BY <1>2, <1>3, <1>4, <1>6, <1>8, <1>9, <1>10

LEMMA OneMore ==
  ASSUME NEW s \in Bytes, NEW x \in Nat
  PROVE  /\ Append(s, x) \in Bytes /\ Append(s, x) = s ++ <<x>> /\ <<x>> \in Bytes
         /\ Len(Append(s, x)) = Len(s) + 1 /\ Len(s) \in Nat
<1>1. Append(s, x) \in Seq(Nat) /\ Len(Append(s, x)) = Len(s) + 1 /\ Len(s) \in Nat
  BY AppendProperties, LenProperties DEF Bytes
<1>2. Append(s, x) = s ++ <<x>>
  BY DEF Bytes, ++
<1>3. <<x>> \in Seq(Nat)
  OBVIOUS
<1> QED  BY <1>1, <1>2, <1>3 DEF Bytes

LEMMA OneLess ==
  ASSUME NEW s \in Bytes, s # <<>>
  PROVE  s[1] \in Nat /\ Rest(s, 1) \in Bytes /\ <<s[1]>> ++ Rest(s, 1) = s
<1>1. Len(s) \in Nat \ {0} /\ s[1] \in Nat
  BY LenProperties, EmptySeq, ElementOfSeq DEF Bytes
<1>2. First(s, 1) = SubSeq(s, 1, 1)
  BY <1>1 DEF First, SmallerOf
<1>3. SubSeq(s, 1, 1) = <<s[1]>>
  <2> DEFINE v == SubSeq(s, 1, 1)
             x == s[1]
  <2>1. 1 \in 0 .. Len(s) /\ s \in Seq(Nat)
    BY <1>1 DEF Bytes
  <2>2. v \in Seq(Nat) /\ Len(v) = 1
    BY <2>1, TakenAndLeft DEF Bytes
  <2>3. v[1] = x
    BY <2>1
  <2>4. <<x>> \in Seq(Nat) /\ Len(<<x>>) = 1 /\ <<x>>[1] = x
    BY <1>1
  <2> HIDE DEF v, x
  <2>5. v = <<x>>
    BY <2>2, <2>3, <2>4, SeqEqual
  <2> QED  BY <2>5 DEF v, x
<1>4. First(s, 1) ++ Rest(s, 1) = s /\ Rest(s, 1) \in Bytes
  BY FirstAndRest
<1> QED  BY <1>1, <1>2, <1>3, <1>4

LEMMA StartsItself ==
  ASSUME NEW s \in Bytes, NEW t \in Bytes
  PROVE  Starts(s, s ++ t)
<1>1. /\ Len(s) \in Nat /\ Len(t) \in Nat /\ Len(s \o t) = Len(s) + Len(t)
      /\ \A i \in 1 .. Len(s) + Len(t) :
           (s \o t)[i] = IF i <= Len(s) THEN s[i] ELSE t[i - Len(s)]
  BY LenProperties, ConcatProperties DEF Bytes
<1> DEFINE u == s \o t
<1>2. u \in Seq(Nat) /\ s \in Seq(Nat)
  BY ConcatProperties DEF Bytes
<1>3. Len(u) = Len(s) + Len(t) /\ \A i \in 1 .. Len(s) : u[i] = s[i]
  BY <1>1
<1> HIDE DEF u
<1>4. /\ SubSeq(u, 1, Len(s)) \in Seq(Nat) /\ Len(SubSeq(u, 1, Len(s))) = Len(s)
      /\ \A i \in 1 .. Len(s) : SubSeq(u, 1, Len(s))[i] = u[i]
  <2>1. Len(s) \in 0 .. Len(u) /\ u \in Bytes
    BY <1>1, <1>2, <1>3 DEF Bytes
  <2>2. SubSeq(u, 1, Len(s)) \in Seq(Nat) /\ Len(SubSeq(u, 1, Len(s))) = Len(s)
    BY <2>1, TakenAndLeft DEF Bytes
  <2>3. \A i \in 1 .. Len(s) : SubSeq(u, 1, Len(s))[i] = u[i]
    BY <1>1, <1>2, <1>3
  <2> QED  BY <2>2, <2>3
<1> DEFINE v == SubSeq(u, 1, Len(s))
<1>5. v \in Seq(Nat) /\ Len(v) = Len(s) /\ \A i \in 1 .. Len(s) : v[i] = s[i]
  BY <1>3, <1>4
<1> HIDE DEF v
<1>6. v = s
  BY <1>2, <1>5, SeqEqual
<1> QED  BY <1>1, <1>3, <1>6 DEF Starts, ++, u, v

LEMMA StartsLonger ==
  ASSUME NEW s \in Bytes, NEW t \in Bytes, NEW x \in Nat, Starts(s, t)
  PROVE  Starts(s, Append(t, x)) /\ Starts(t, Append(t, x)) /\ Len(Append(t, x)) = Len(t) + 1
<1>1. /\ Len(s) \in Nat /\ Len(t) \in Nat /\ Len(Append(t, x)) = Len(t) + 1
      /\ Append(t, x) \in Seq(Nat)
      /\ \A i \in 1 .. Len(t) : Append(t, x)[i] = t[i]
  BY LenProperties, AppendProperties DEF Bytes
<1>2. Len(s) <= Len(t) /\ s = SubSeq(t, 1, Len(s))
  BY DEF Starts
<1>3. <<x>> \in Bytes /\ t ++ <<x>> = Append(t, x)
  BY OneMore
<1>4. Starts(t, Append(t, x))
  BY <1>3, StartsItself
<1> DEFINE u == SubSeq(t, Len(s) + 1, Len(t))
           v == u ++ <<x>>
<1>5. u \in Bytes /\ s ++ u = t
  <2>1. Len(s) \in 0 .. Len(t)
    BY <1>1, <1>2
  <2> QED  BY <1>2, <2>1, TakenAndLeft DEF ++
<1> HIDE DEF u
<1>6. v \in Bytes /\ s ++ v = Append(t, x)
  <2>1. v \in Bytes
    BY <1>3, <1>5, BytesJoin
  <2>2. (s ++ u) ++ <<x>> = s ++ v
    BY <1>3, <1>5, BytesAssociate
  <2> QED  BY <1>3, <1>5, <2>1, <2>2
<1> HIDE DEF v
<1>7. Starts(s, Append(t, x))
  BY <1>6, StartsItself
<1> QED  BY <1>1, <1>4, <1>7

-----------------------------------------------------------------------------
(* Types *)

LEMMA StreamsStayTyped ==
  ASSUME TypeOK, Next
  PROVE  StreamsOK'
<1>1. StreamsOK /\ RelayAssumption /\ stdin.held \in Bytes /\ SockCap \in Nat /\ ChannelCap \in Nat
      /\ RELAY_CHUNK \in Nat
  BY RelayAssumption DEF TypeOK, WorldOK, RelayAssumption
<1>2. CASE ReadStdin
  <2>1. toSocket' \in {toSocket, <<>>, First(stdin.held, RELAY_CHUNK)}
    BY <1>2 DEF ReadStdin, StdinBatch
  <2>2. toSocket' \in Bytes
    BY <1>1, <2>1, FirstAndRest, NoBytes DEF StreamsOK
  <2> QED  BY <1>1, <1>2, <2>2 DEF ReadStdin, StreamsOK, threads
<1>3. CASE ReadSocket
  <2>1. /\ toStdout' \in {toStdout, First(down, RELAY_CHUNK)}
        /\ down' \in {down, Rest(down, RELAY_CHUNK)}
    BY <1>3 DEF ReadSocket
  <2>2. First(down, RELAY_CHUNK) \in Bytes /\ Rest(down, RELAY_CHUNK) \in Bytes
    BY <1>1, FirstAndRest DEF StreamsOK
  <2>3. toStdout' \in Bytes /\ down' \in Bytes
    BY <1>1, <2>1, <2>2 DEF StreamsOK
  <2> QED  BY <1>1, <1>3, <2>3 DEF ReadSocket, StreamsOK, threads, world
<1>4. CASE WriteSocket
  <2> DEFINE n == SockCap - Len(up)
             p == First(toSocket, n)
  <2>1. Len(up) \in Nat /\ n \in Nat /\ Len(up) + n = SockCap
    BY <1>1, BytesJoin DEF StreamsOK
  <2>2. p \in Bytes /\ Len(p) <= n /\ Rest(toSocket, Len(p)) \in Bytes /\ Len(p) \in Nat
    BY <1>1, <2>1, FirstAndRest DEF StreamsOK
  <2>3. up ++ p \in Bytes /\ Len(up ++ p) = Len(up) + Len(p)
    BY <1>1, <2>2, BytesJoin DEF StreamsOK
  <2>4. \/ toSocket' = <<>> /\ up' = up
        \/ up' = up ++ p /\ toSocket' = Rest(toSocket, Len(p))
    BY <1>4 DEF WriteSocket, Uploaded, ++
  <2> HIDE DEF n, p
  <2>5. up' \in Bytes /\ toSocket' \in Bytes /\ Len(up') <= SockCap
    <3>1. CASE toSocket' = <<>> /\ up' = up
      BY <1>1, <3>1, NoBytes DEF StreamsOK
    <3>2. CASE up' = up ++ p /\ toSocket' = Rest(toSocket, Len(p))
      BY <2>1, <2>2, <2>3, <3>2
    <3> QED  BY <2>4, <3>1, <3>2
  <2> QED  BY <1>1, <1>4, <2>5 DEF WriteSocket, StreamsOK, threads, world
<1>5. CASE WriteChannel
  <2> DEFINE n == ChannelCap - Len(channel)
             p == Forwarded
  <2>1. Len(channel) \in Nat /\ n \in Nat /\ Len(channel) + n = ChannelCap
    BY <1>1, BytesJoin DEF StreamsOK
  <2>2. p \in {<<>>, First(toStdout, n)}
    BY DEF Forwarded
  <2>3. p \in Bytes /\ Len(p) <= n /\ Rest(toStdout, Len(p)) \in Bytes /\ Len(p) \in Nat
    <3>1. CASE p = <<>>
      BY <1>1, <2>1, <3>1, FirstAndRest, NoBytes DEF StreamsOK
    <3>2. CASE p = First(toStdout, n)
      BY <1>1, <2>1, <3>2, FirstAndRest DEF StreamsOK
    <3> QED  BY <2>2, <3>1, <3>2
  <2>4. channel ++ p \in Bytes /\ Len(channel ++ p) = Len(channel) + Len(p)
    BY <1>1, <2>3, BytesJoin DEF StreamsOK
  <2>5. \/ toStdout' = toStdout /\ channel' = channel
        \/ channel' = channel ++ p /\ toStdout' = Rest(toStdout, Len(p))
    BY <1>5 DEF WriteChannel, ++
  <2> HIDE DEF n, p
  <2>6. channel' \in Bytes /\ toStdout' \in Bytes /\ Len(channel') <= ChannelCap
    <3>1. CASE toStdout' = toStdout /\ channel' = channel
      BY <1>1, <3>1 DEF StreamsOK
    <3>2. CASE channel' = channel ++ p /\ toStdout' = Rest(toStdout, Len(p))
      BY <2>1, <2>3, <2>4, <3>2
    <3> QED  BY <2>5, <3>1, <3>2
  <2> QED  BY <1>1, <1>5, <2>6 DEF WriteChannel, StreamsOK, threads, world
<1>6. CASE WorkerFill
  <2>1. /\ batch' \in {batch, First(channel, RELAY_CHUNK)}
        /\ channel' \in {channel, Rest(channel, RELAY_CHUNK)}
    BY <1>6 DEF WorkerFill
  <2>a. /\ First(channel, RELAY_CHUNK) \in Bytes /\ Rest(channel, RELAY_CHUNK) \in Bytes
        /\ Len(Rest(channel, RELAY_CHUNK)) <= Len(channel) /\ Len(channel) \in Nat
    BY <1>1, FirstAndRest, BytesJoin DEF StreamsOK
  <2>2. batch' \in Bytes /\ channel' \in Bytes /\ Len(channel') <= Len(channel)
    BY <1>1, <2>1, <2>a DEF StreamsOK
  <2>3. Len(channel') <= ChannelCap
    BY <1>1, <2>2, BytesJoin DEF StreamsOK
  <2> QED  BY <1>1, <1>6, <2>2, <2>3 DEF WorkerFill, StreamsOK, rest
<1>7. CASE WorkerWrite
  <2>1. batch[1] \in Nat /\ Rest(batch, 1) \in Bytes
    BY <1>1, <1>7, FirstAndRest, OneLess DEF StreamsOK, WorkerWrite
  <2>2. out' \in Bytes /\ batch' \in Bytes
    BY <1>1, <1>7, <2>1, OneMore DEF StreamsOK, WorkerWrite
  <2> QED  BY <1>1, <1>7, <2>2 DEF WorkerWrite, StreamsOK
<1>8. CASE WorkerClose
  <2>1. Len(<<>>) <= ChannelCap /\ <<>> \in Bytes
    BY <1>1, NoBytes DEF StreamsOK
  <2> QED  BY <1>1, <1>8, <2>1 DEF WorkerClose, StreamsOK, rest
<1>9. CASE Type
  <2>1. typed' \in Bytes
    BY <1>1, <1>9, OneMore, BytesJoin DEF StreamsOK, Type
  <2> QED  BY <1>1, <1>9, <2>1 DEF Type, StreamsOK, inside, threads
<1>10. CASE DaemonReads
  <2>1. up[1] \in Nat /\ Rest(up, 1) \in Bytes /\ Len(Rest(up, 1)) <= Len(up)
    BY <1>1, <1>10, FirstAndRest, OneLess DEF StreamsOK, DaemonReads
  <2>a. got' = Append(got, up[1]) /\ up' = Rest(up, 1)
    BY <1>10 DEF DaemonReads
  <2>b. Append(got, up[1]) \in Bytes /\ Len(up) \in Nat /\ Len(Rest(up, 1)) \in Nat
    BY <1>1, <2>1, OneMore, BytesJoin DEF StreamsOK
  <2>2. got' \in Bytes /\ up' \in Bytes /\ Len(up') <= SockCap
    BY <1>1, <2>1, <2>a, <2>b DEF StreamsOK
  <2> QED  BY <1>1, <1>10, <2>2 DEF DaemonReads, StreamsOK, inside, threads
<1>11. CASE DaemonSays
  <2>1. said' \in Bytes /\ down' \in Bytes
    BY <1>1, <1>11, OneMore, BytesJoin DEF StreamsOK, DaemonSays
  <2> QED  BY <1>1, <1>11, <2>1 DEF DaemonSays, StreamsOK, inside, threads
<1>12. CASE \/ Poll \/ Finish \/ Collect \/ Look
            \/ WorkerPoll \/ WorkerReturn \/ WorkerStatus
            \/ EndStdin \/ DaemonEnds \/ ReaderTakes \/ OthersWrite \/ StdoutEnds
  BY <1>1, <1>12
  DEF StreamsOK, Poll, Finish, Collect, Look, WorkerPoll, WorkerReturn, WorkerStatus, EndStdin,
      DaemonEnds, ReaderTakes, OthersWrite, StdoutEnds, world, threads, rest, inside
<1> QED  BY <1>2, <1>3, <1>4, <1>5, <1>6, <1>7, <1>8, <1>9, <1>10, <1>11, <1>12
         DEF Next, Pass, Work, Outside

LEMMA WorldStaysTyped ==
  ASSUME TypeOK, Next
  PROVE  WorldOK'
<1>1. /\ WorldOK /\ load.ends \subseteq StdinEnds /\ stdin.held \in Bytes /\ RELAY_CHUNK \in Nat
      /\ StdoutCap \in Nat
  BY RelayAssumption DEF TypeOK, WorldOK, RelayAssumption
<1>2. CASE ReadStdin
  <2> DEFINE n == Len(StdinBatch)
  <2>1. n \in Nat
    <3>1. StdinBatch \in Bytes
      BY <1>1, FirstAndRest, NoBytes DEF StdinBatch
    <3> QED  BY <3>1, BytesJoin
  <2> HIDE DEF n
  <2>2. Rest(stdin.held, n) \in Bytes
    BY <1>1, <2>1, FirstAndRest
  <2>3. stdin' = stdin \/ stdin' = [stdin EXCEPT !.held = Rest(@, n)]
    BY <1>2 DEF ReadStdin, n
  <2>4. stdin' \in [held : Bytes, end : {"open"} \cup StdinEnds]
    BY <1>1, <2>2, <2>3 DEF WorldOK
  <2> QED  BY <1>1, <1>2, <2>4 DEF ReadStdin, WorldOK
<1>3. CASE Type
  <2>1. Append(stdin.held, Len(typed) + 1) \in Bytes
    <3>1. Len(typed) + 1 \in Nat
      BY BytesJoin DEF TypeOK, StreamsOK
    <3> QED  BY <1>1, <3>1, OneMore
  <2>2. stdin' = [stdin EXCEPT !.held = Append(@, Len(typed) + 1)]
    BY <1>3 DEF Type
  <2>3. stdin' \in [held : Bytes, end : {"open"} \cup StdinEnds]
    BY <1>1, <2>1, <2>2 DEF WorldOK
  <2> QED  BY <1>1, <1>3, <2>3 DEF Type, WorldOK, inside
<1>4. CASE EndStdin
  <2>1. PICK how \in StdinEnds : stdin' = [stdin EXCEPT !.end = how]
    BY <1>1, <1>4 DEF EndStdin
  <2>2. stdin' \in [held : Bytes, end : {"open"} \cup StdinEnds]
    BY <1>1, <2>1 DEF WorldOK
  <2> QED  BY <1>1, <1>4, <2>2 DEF EndStdin, WorldOK, inside
<1>5. CASE StdoutEnds
  BY <1>1, <1>5 DEF StdoutEnds, WorldOK, inside
<1>6. CASE DaemonEnds \/ ReaderTakes \/ OthersWrite \/ WorkerWrite
  BY <1>1, <1>6 DEF DaemonEnds, ReaderTakes, OthersWrite, WorkerWrite, WorldOK, inside
<1>7. CASE \/ Poll \/ ReadSocket \/ WriteSocket \/ WriteChannel \/ Finish \/ Collect \/ Look
           \/ WorkerFill \/ WorkerPoll \/ WorkerReturn \/ WorkerStatus \/ WorkerClose
           \/ DaemonReads \/ DaemonSays
  BY <1>1, <1>7
  DEF WorldOK, Poll, ReadSocket, WriteSocket, WriteChannel, Finish, Collect, Look, WorkerFill,
      WorkerPoll, WorkerReturn, WorkerStatus, WorkerClose, DaemonReads, DaemonSays, world, rest,
      inside
<1> QED  BY <1>2, <1>3, <1>4, <1>5, <1>6, <1>7 DEF Next, Pass, Work, Outside

LEMMA SnapshotIsTyped ==
  ASSUME TypeOK
  PROVE  Ready \in Snapshots /\ {} \in Snapshots /\ \A fd : Unserved(fd) \in Snapshots
<1>1. StdinReady \subseteq Readable \cup {"OUT"}
  BY DEF StdinReady, Watched, Unrequested, Readable
<1>2. SocketReady \subseteq Readable \cup {"OUT"}
  BY DEF SocketReady, Watched, Unrequested, Readable, WantsSocket
<1>3. ChannelReady \subseteq Readable \cup {"OUT"}
  BY DEF ChannelReady, Watched, Unrequested, Readable, WantsChannel
<1>4. relay.ready \in Snapshots
  BY DEF TypeOK, ThreadsOK
<1>5. \A fd : Unserved(fd) \in Snapshots
  BY <1>4 DEF Unserved, Snapshots
<1> QED  BY <1>1, <1>2, <1>3, <1>5 DEF Ready, Fds, Snapshots

LEMMA ThreadsStayTyped ==
  ASSUME TypeOK, Next
  PROVE  ThreadsOK'
<1> DEFINE Loop == [pc : Places, stdinOpen : BOOLEAN, socketOpen : BOOLEAN, stdoutOpen : BOOLEAN,
                    halfClosed : BOOLEAN, ready : Snapshots,
                    left : Nat, result : {"running", "ok", "failed", "TimedOut"}]
           Thread == [pc : {"fill", "poll", "write", "status", "close", "gone"}, moved : BOOLEAN,
                      end : {"ok", "failed"}]
<1>1. /\ ThreadsOK /\ relay \in Loop /\ worker \in Thread /\ relay.result = "running"
      /\ Window \in Nat /\ Window > 0 /\ relay.left > 0
  BY RelayAssumption DEF TypeOK, ThreadsOK, RelayAssumption, Next, Over
<1>2. Ready \in Snapshots /\ {} \in Snapshots /\ \A fd : Unserved(fd) \in Snapshots
  BY SnapshotIsTyped
<1>3. CASE Poll
  <2>1. relay' \in Loop
    BY <1>1, <1>2, <1>3 DEF Poll, Places
  <2> QED  BY <1>1, <1>3, <2>1 DEF Poll, ThreadsOK, threads
<1>4. CASE ReadStdin
  <2> DEFINE r == Unserved("stdin")
             o == relay.stdinOpen /\ ~StdinEnded
             h == relay.halfClosed \/ StdinEnded
  <2>a. r \in Snapshots /\ o \in BOOLEAN /\ h \in BOOLEAN
    BY <1>2
  <2>b. \/ relay' = [relay EXCEPT !.pc = "sockIn"]
        \/ relay' = [relay EXCEPT !.result = "failed"]
        \/ relay' = [relay EXCEPT !.pc = "sockIn", !.ready = r, !.stdinOpen = o,
                                  !.halfClosed = h]
    BY <1>4 DEF ReadStdin
  <2> HIDE DEF r, o, h
  <2>2. relay' \in Loop
    BY ZenonT(30), <1>1, <2>a, <2>b DEF Places
  <2> QED  BY ZenonT(30), <1>1, <1>4, <2>2 DEF ReadStdin, ThreadsOK, threads
<1>5. CASE ReadSocket
  <2> DEFINE r == Unserved("socket")
             o == relay.socketOpen /\ ~SocketEnded
  <2>a. r \in Snapshots /\ o \in BOOLEAN
    BY <1>2
  <2>b. \/ relay' = [relay EXCEPT !.pc = "sockOut", !.ready = r]
        \/ relay' = [relay EXCEPT !.pc = "sockOut", !.ready = r, !.socketOpen = o]
    BY <1>5 DEF ReadSocket
  <2> HIDE DEF r, o
  <2>2. relay' \in Loop
    BY <1>1, <2>a, <2>b DEF Places
  <2> QED  BY <1>1, <1>5, <2>2 DEF ReadSocket, ThreadsOK, threads
<1>6. CASE WriteSocket
  <2>1. relay' \in Loop
    BY <1>1, <1>6 DEF WriteSocket, Places
  <2> QED  BY <1>1, <1>6, <2>1 DEF WriteSocket, ThreadsOK, threads
<1>7. CASE WriteChannel
  <2>1. relay' \in Loop
    BY ZenonT(30), <1>1, <1>2, <1>7 DEF WriteChannel, Places
  <2> QED  BY <1>1, <1>7, <2>1 DEF WriteChannel, ThreadsOK, threads
<1>8. CASE Finish
  <2>1. relay' \in Loop
    BY <1>1, <1>8 DEF Finish, Places
  <2> QED  BY <1>1, <1>8, <2>1 DEF Finish, ThreadsOK
<1>9. CASE Collect
  <2>1. relay' \in Loop
    BY <1>1, <1>9 DEF Collect, ThreadsOK
  <2> QED  BY <1>1, <1>9, <2>1 DEF Collect, ThreadsOK, threads
<1>10. CASE Look
  <2>1. relay' \in Loop /\ (relay'.result = "running" => relay'.left > 0)
    <3>1. CASE Moved
      BY <1>1, <1>10, <3>1 DEF Look
    <3>2. CASE ~Moved /\ relay.left = 1
      BY <1>1, <1>10, <3>2 DEF Look
    <3>3. CASE ~Moved /\ relay.left # 1
      <4>1. relay.left - 1 \in Nat /\ relay.left - 1 > 0
        BY <1>1, <3>3
      <4>2. relay' = [relay EXCEPT !.left = relay.left - 1]
        BY <1>10, <3>3 DEF Look
      <4> QED  BY <1>1, <4>1, <4>2
    <3> QED  BY <3>1, <3>2, <3>3
  <2>2. quiet' \in Nat
    BY <1>1, <1>10 DEF Look, SmallerOf, ThreadsOK
  <2> QED  BY <1>1, <1>10, <2>1, <2>2 DEF Look, ThreadsOK
<1>11. CASE WorkerFill
  <2>1. worker' \in Thread
    BY <1>1, <1>11 DEF WorkerFill, Stops
  <2> QED  BY <1>1, <1>11, <2>1 DEF WorkerFill, ThreadsOK, rest
<1>12. CASE WorkerPoll
  <2>1. worker' \in Thread
    BY <1>1, <1>12 DEF WorkerPoll, Stops
  <2> QED  BY <1>1, <1>12, <2>1 DEF WorkerPoll, ThreadsOK, rest
<1>13. CASE WorkerWrite
  <2>1. worker' \in Thread
    BY <1>1, <1>13 DEF WorkerWrite
  <2> QED  BY <1>1, <1>13, <2>1 DEF WorkerWrite, ThreadsOK
<1>14. CASE WorkerReturn
  <2>1. worker' \in Thread
    BY <1>1, <1>14 DEF WorkerReturn, Stops
  <2>2. progress' \in BOOLEAN /\ quiet' \in Nat
    BY <1>1, <1>14 DEF WorkerReturn, ThreadsOK, Counts
  <2> QED  BY <1>1, <1>14, <2>1, <2>2 DEF WorkerReturn, ThreadsOK, rest
<1>15. CASE WorkerStatus
  <2>1. worker' \in Thread /\ status' \in {"none", "ok", "failed"}
    BY <1>1, <1>15 DEF WorkerStatus
  <2> QED  BY <1>1, <1>15, <2>1 DEF WorkerStatus, ThreadsOK, rest
<1>16. CASE WorkerClose
  <2>1. worker' \in Thread
    BY <1>1, <1>16 DEF WorkerClose
  <2> QED  BY <1>1, <1>16, <2>1 DEF WorkerClose, ThreadsOK, rest
<1>17. CASE Outside
  BY <1>1, <1>17
  DEF ThreadsOK, Outside, Type, EndStdin, DaemonReads, DaemonSays, DaemonEnds, ReaderTakes,
      OthersWrite, StdoutEnds, inside, threads
<1> QED  BY <1>3, <1>4, <1>5, <1>6, <1>7, <1>8, <1>9, <1>10, <1>11, <1>12, <1>13, <1>14, <1>15,
            <1>16, <1>17
         DEF Next, Pass, Work

-----------------------------------------------------------------------------
(* The output *)

LEMMA NothingTaken ==
  ASSUME NEW s \in Bytes
  PROVE  Rest(s, Len(<<>>)) = s
<1>1. Rest(s, 0) = SubSeq(s, 1, Len(s)) /\ Len(<<>>) = 0
  BY NoBytes DEF Rest
<1> QED  BY <1>1, SubSeqFull DEF Bytes

(* One byte leaves the head of b behind s, or joins the tail of the last.   *)
LEMMA OneTaken ==
  ASSUME NEW s \in Bytes, NEW b \in Bytes, NEW t \in Bytes, b # <<>>
  PROVE  Append(s, b[1]) ++ (Rest(b, 1) ++ t) = s ++ (b ++ t)
<1> DEFINE x == b[1]
           p == <<x>>
           r == Rest(b, 1)
<1>1. x \in Nat /\ r \in Bytes /\ p ++ r = b
  BY OneLess
<1>2. p \in Bytes /\ Append(s, x) = s ++ p
  BY <1>1, OneMore
<1> HIDE DEF x, p, r
<1>3. (s ++ p) ++ (r ++ t) = s ++ ((p ++ r) ++ t)
  BY <1>1, <1>2, BytesMove
<1> QED  BY <1>1, <1>2, <1>3 DEF x, r

LEMMA BytesJoinTheLast ==
  ASSUME NEW s \in Bytes, NEW t \in Bytes, NEW u \in Bytes, NEW v \in Bytes, NEW p \in Bytes
  PROVE  (s ++ (t ++ (u ++ v))) ++ p = s ++ (t ++ (u ++ (v ++ p)))
<1>1. u ++ v \in Bytes /\ t ++ (u ++ v) \in Bytes
  BY BytesJoin
<1>2. (u ++ v) ++ p = u ++ (v ++ p)
  BY BytesAssociate
<1>3. (t ++ (u ++ v)) ++ p = t ++ ((u ++ v) ++ p)
  BY <1>1, BytesAssociate
<1>4. (s ++ (t ++ (u ++ v))) ++ p = s ++ ((t ++ (u ++ v)) ++ p)
  BY <1>1, BytesAssociate
<1> QED  BY <1>2, <1>3, <1>4

LEMMA OutputStaysKept ==
  ASSUME IInv, Next
  PROVE  OutputKept'
<1>1. /\ out \in Bytes /\ batch \in Bytes /\ channel \in Bytes /\ toStdout \in Bytes
      /\ down \in Bytes /\ said \in Bytes /\ RELAY_CHUNK \in Nat /\ ChannelCap \in Nat
      /\ Len(channel) <= ChannelCap
  BY RelayAssumption DEF IInv, TypeOK, StreamsOK, RelayAssumption
<1>2. CASE WorkerGone
  <2>1. Starts(out, said) /\ worker.pc = "gone"
    BY <1>2 DEF IInv, OutputKept, WorkerGone
  <2>2. worker' = worker /\ out' = out
    BY <2>1
    DEF Next, Pass, Work, Outside, Works, Poll, ReadStdin, ReadSocket, WriteSocket, WriteChannel,
        Finish, Collect, Look, WorkerFill, WorkerPoll, WorkerWrite, WorkerReturn, WorkerStatus,
        WorkerClose, Type, EndStdin, DaemonReads, DaemonSays, DaemonEnds, ReaderTakes, OthersWrite,
        StdoutEnds, threads, inside
  <2>3. said' = said \/ said' = Append(said, Len(said) + 1)
    BY DEF Next, Pass, Work, Outside, Poll, ReadStdin, ReadSocket, WriteSocket, WriteChannel,
        Finish, Collect, Look, WorkerFill, WorkerPoll, WorkerWrite, WorkerReturn, WorkerStatus,
        WorkerClose, Type, EndStdin, DaemonReads, DaemonSays, DaemonEnds, ReaderTakes, OthersWrite,
        StdoutEnds, world, rest
  <2>4. Len(said) + 1 \in Nat
    BY <1>1, BytesJoin
  <2>5. Starts(out, said')
    BY ZenonT(30), <1>1, <2>1, <2>3, <2>4, StartsLonger
  <2> QED  BY <2>1, <2>2, <2>5 DEF OutputKept, WorkerGone
<1>3. CASE ~WorkerGone
  <2>1. said = out ++ (batch ++ (channel ++ (toStdout ++ down)))
    BY <1>3 DEF IInv, OutputKept
  <2>2. CASE ReadSocket /\ SocketInDue
    <3>1. toStdout = <<>> /\ toStdout' ++ down' = down
      BY <1>1, <2>2, FirstAndRest DEF ReadSocket, SocketInDue
    <3>2. toStdout ++ down = down
      BY <1>1, <3>1, NoBytes
    <3>3. said = out ++ (batch ++ (channel ++ (toStdout' ++ down')))
      BY <2>1, <3>1, <3>2
    <3>4. /\ said' = said /\ out' = out /\ batch' = batch /\ channel' = channel
          /\ WorkerGone' = WorkerGone
      BY <2>2 DEF ReadSocket, world, threads, WorkerGone
    <3> QED  BY <1>3, <3>3, <3>4 DEF OutputKept
  <2>3. CASE WriteChannel /\ ~WorkerEnded
    <3> DEFINE p == Forwarded
               r == Rest(toStdout, Len(p))
    <3>1. p \in Bytes /\ r \in Bytes /\ p ++ r = toStdout
      <4>1. CASE p = <<>>
        BY <1>1, <4>1, NoBytes, NothingTaken
      <4>2. CASE p = First(toStdout, ChannelCap - Len(channel))
        <5>1. ChannelCap - Len(channel) \in Nat
          BY <1>1, BytesJoin
        <5> QED  BY <1>1, <4>2, <5>1, FirstAndRest
      <4> QED  BY <4>1, <4>2 DEF Forwarded
    <3>2. channel' = channel ++ p /\ toStdout' = r
      BY <2>3 DEF WriteChannel, ++
    <3> HIDE DEF p, r
    <3>3. (channel ++ p) ++ (r ++ down) = channel ++ (toStdout ++ down)
      BY <1>1, <3>1, BytesMove
    <3>4. /\ said' = said /\ out' = out /\ batch' = batch /\ down' = down
          /\ WorkerGone' = WorkerGone
      BY <2>3 DEF WriteChannel, world, threads, WorkerGone
    <3> QED  BY <1>3, <2>1, <3>2, <3>3, <3>4 DEF OutputKept
  <2>4. CASE WorkerFill /\ channel # <<>>
    <3> DEFINE b == First(channel, RELAY_CHUNK)
               c == Rest(channel, RELAY_CHUNK)
    <3>1. b \in Bytes /\ c \in Bytes /\ b ++ c = channel
      BY <1>1, FirstAndRest
    <3>2. batch' = b /\ channel' = c /\ worker' = [worker EXCEPT !.pc = "poll"]
      BY <2>4 DEF WorkerFill, ChannelEnded
    <3>3. worker'.pc # "gone" /\ batch = <<>>
      BY <2>4, <3>2 DEF IInv, TypeOK, ThreadsOK, BatchIsWritten, WorkerFill
    <3> HIDE DEF b, c
    <3>4. toStdout ++ down \in Bytes /\ channel ++ (toStdout ++ down) \in Bytes
      BY <1>1, BytesJoin
    <3>5. b ++ (c ++ (toStdout ++ down)) = channel ++ (toStdout ++ down)
      BY <3>1, <3>4, BytesAssociate
    <3>6. batch ++ (channel ++ (toStdout ++ down)) = channel ++ (toStdout ++ down)
      BY <3>3, <3>4, NoBytes
    <3>7. said' = said /\ out' = out /\ toStdout' = toStdout /\ down' = down
      BY <2>4 DEF WorkerFill, rest
    <3> QED  BY <2>1, <3>2, <3>3, <3>5, <3>6, <3>7 DEF OutputKept, WorkerGone
  <2>5. CASE WorkerWrite
    <3>1. channel ++ (toStdout ++ down) \in Bytes
      BY <1>1, BytesJoin
    <3>2. batch # <<>> /\ out' = Append(out, batch[1]) /\ batch' = Rest(batch, 1)
      BY <2>5 DEF WorkerWrite
    <3>3. said = out' ++ (batch' ++ (channel ++ (toStdout ++ down)))
      BY <1>1, <2>1, <3>1, <3>2, OneTaken
    <3>4. /\ said' = said /\ channel' = channel /\ toStdout' = toStdout /\ down' = down
          /\ WorkerGone' = WorkerGone
      BY <2>5 DEF WorkerWrite, WorkerGone, IInv, TypeOK, ThreadsOK
    <3> QED  BY <1>3, <3>3, <3>4 DEF OutputKept
  <2>6. CASE WorkerClose
    <3>1. batch ++ (channel ++ (toStdout ++ down)) \in Bytes
      BY <1>1, BytesJoin
    <3>2. Starts(out, said)
      BY <1>1, <2>1, <3>1, StartsItself
    <3>3. said' = said /\ out' = out /\ worker'.pc = "gone"
      BY <2>6 DEF WorkerClose, rest, IInv, TypeOK, ThreadsOK
    <3> QED  BY <3>2, <3>3 DEF OutputKept, WorkerGone
  <2>7. CASE DaemonSays
    <3>0. Len(said) + 1 \in Nat
      BY <1>1, BytesJoin
    <3>1. PICK x \in Nat : said' = Append(said, x) /\ down' = Append(down, x)
      BY <2>7, <3>0 DEF DaemonSays
    <3> DEFINE p == <<x>>
    <3>2. p \in Bytes /\ said' = said ++ p /\ down' = down ++ p
      BY <1>1, <3>1, OneMore
    <3> HIDE DEF p
    <3>a. toStdout ++ (down ++ p) = (toStdout ++ down) ++ p
      BY <1>1, <3>2, BytesAssociate
    <3>b. toStdout ++ down \in Bytes
      BY <1>1, BytesJoin
    <3>3. said ++ p = out ++ (batch ++ (channel ++ ((toStdout ++ down) ++ p)))
      BY <1>1, <2>1, <3>2, <3>b, BytesJoinTheLast
    <3>4. /\ out' = out /\ batch' = batch /\ channel' = channel /\ toStdout' = toStdout
          /\ WorkerGone' = WorkerGone
      BY <2>7 DEF DaemonSays, inside, threads, WorkerGone
    <3> QED  BY <1>3, <3>2, <3>3, <3>4, <3>a DEF OutputKept
  <2>8. CASE \/ Poll \/ ReadStdin \/ (ReadSocket /\ ~SocketInDue) \/ WriteSocket
             \/ (WriteChannel /\ WorkerEnded) \/ Finish \/ Collect \/ Look
             \/ (WorkerFill /\ channel = <<>>) \/ WorkerPoll \/ WorkerReturn \/ WorkerStatus
             \/ Type \/ EndStdin \/ DaemonReads \/ DaemonEnds
             \/ ReaderTakes \/ OthersWrite \/ StdoutEnds
    <3>1. /\ out' = out /\ said' = said /\ batch' = batch /\ channel' = channel
          /\ toStdout' = toStdout /\ down' = down
      BY <2>8
      DEF Poll, ReadStdin, ReadSocket, WriteSocket, WriteChannel, Finish, Collect, Look, WorkerFill,
          WorkerPoll, WorkerReturn, WorkerStatus, Type, EndStdin, DaemonReads, DaemonEnds,
          ReaderTakes, OthersWrite, StdoutEnds, world, threads, inside, rest
    <3>2. worker' = worker \/ worker'.pc \in {"fill", "poll", "write", "status", "close"}
      BY <2>8
      DEF Poll, ReadStdin, ReadSocket, WriteSocket, WriteChannel, Finish, Collect, Look, WorkerFill,
          WorkerPoll, WorkerReturn, WorkerStatus, Type, EndStdin, DaemonReads, DaemonEnds,
          ReaderTakes, OthersWrite, StdoutEnds, threads, inside, Stops, IInv, TypeOK, ThreadsOK
    <3>3. ~WorkerGone'
      BY <1>3, <3>2 DEF WorkerGone
    <3> QED  BY <2>1, <3>1, <3>3 DEF OutputKept
  <2> QED  BY <2>2, <2>3, <2>4, <2>5, <2>6, <2>7, <2>8 DEF Next, Pass, Work, Outside
<1> QED  BY <1>2, <1>3

-----------------------------------------------------------------------------
(* The input *)

LEMMA InputStaysKept ==
  ASSUME IInv, Next
  PROVE  InputKept'
<1>1. /\ got \in Bytes /\ up \in Bytes /\ toSocket \in Bytes /\ stdin.held \in Bytes
      /\ typed \in Bytes /\ RELAY_CHUNK \in Nat /\ SockCap \in Nat /\ Len(up) <= SockCap
      /\ stdin \in [held : Bytes, end : {"open"} \cup StdinEnds]
  BY RelayAssumption DEF IInv, TypeOK, StreamsOK, WorldOK, RelayAssumption
<1>2. CASE daemon = "closed"
  <2>1. Starts(got, typed)
    BY <1>2 DEF IInv, InputKept
  <2>2. daemon' = daemon /\ got' = got
    BY <1>2
    DEF Next, Pass, Work, Outside, Poll, ReadStdin, ReadSocket, WriteSocket, WriteChannel,
        Finish, Collect, Look, WorkerFill, WorkerPoll, WorkerWrite, WorkerReturn, WorkerStatus,
        WorkerClose, Type, EndStdin, DaemonReads, DaemonSays, DaemonEnds, ReaderTakes, OthersWrite,
        StdoutEnds, world, rest
  <2>3. typed' = typed \/ typed' = Append(typed, Len(typed) + 1)
    BY DEF Next, Pass, Work, Outside, Poll, ReadStdin, ReadSocket, WriteSocket, WriteChannel,
        Finish, Collect, Look, WorkerFill, WorkerPoll, WorkerWrite, WorkerReturn, WorkerStatus,
        WorkerClose, Type, EndStdin, DaemonReads, DaemonSays, DaemonEnds, ReaderTakes, OthersWrite,
        StdoutEnds, world, rest
  <2>4. Len(typed) + 1 \in Nat
    BY <1>1, BytesJoin
  <2>5. Starts(got, typed')
    BY <1>1, <2>1, <2>3, <2>4, StartsLonger
  <2> QED  BY <1>2, <2>2, <2>5 DEF InputKept
<1>3. CASE daemon # "closed"
  <2>1. typed = got ++ (up ++ (toSocket ++ stdin.held))
    BY <1>3 DEF IInv, InputKept
  <2>2. CASE ReadStdin /\ Found("stdin") \cap Readable # {} /\ ~StdinBroken
    <3> DEFINE b == StdinBatch
               r == Rest(stdin.held, Len(b))
    <3>1. b \in Bytes /\ r \in Bytes /\ b ++ r = stdin.held
      <4>1. CASE b = <<>>
        BY <1>1, <4>1, NoBytes, NothingTaken
      <4>2. CASE b = First(stdin.held, RELAY_CHUNK)
        BY <1>1, <4>2, FirstAndRest
      <4> QED  BY <4>1, <4>2 DEF StdinBatch
    <3>2. /\ toSocket' = b /\ stdin'.held = r /\ Found("stdin") # {} /\ At("stdin")
      BY <1>1, <2>2 DEF ReadStdin
    <3>3. toSocket = <<>>
      BY <3>2 DEF IInv, SnapshotHolds
    <3>4. toSocket ++ stdin.held = stdin.held
      BY <1>1, <3>3, NoBytes
    <3>5. typed' = typed /\ got' = got /\ up' = up /\ daemon' = daemon
      BY <2>2 DEF ReadStdin
    <3> HIDE DEF b, r
    <3> QED  BY <1>3, <2>1, <3>1, <3>2, <3>4, <3>5 DEF InputKept
  <2>3. CASE WriteSocket
    <3> DEFINE p == Uploaded
               r == Rest(toSocket, Len(p))
    <3>0. SockCap - Len(up) \in Nat
      BY <1>1, BytesJoin
    <3>1. p \in Bytes /\ r \in Bytes /\ p ++ r = toSocket
      BY <1>1, <3>0, FirstAndRest DEF Uploaded
    <3>2. up' = up ++ p /\ toSocket' = r
      BY <1>3, <2>3 DEF WriteSocket, UploadEnds, ++
    <3> HIDE DEF p, r
    <3>3. (up ++ p) ++ (r ++ stdin.held) = up ++ (toSocket ++ stdin.held)
      BY <1>1, <3>1, BytesMove
    <3>4. typed' = typed /\ got' = got /\ stdin' = stdin /\ daemon' = daemon
      BY <2>3 DEF WriteSocket, world
    <3> QED  BY <1>3, <2>1, <3>2, <3>3, <3>4 DEF InputKept
  <2>4. CASE DaemonReads
    <3>1. toSocket ++ stdin.held \in Bytes
      BY <1>1, BytesJoin
    <3>2. up # <<>> /\ got' = Append(got, up[1]) /\ up' = Rest(up, 1)
      BY <2>4 DEF DaemonReads
    <3>3. typed = got' ++ (up' ++ (toSocket ++ stdin.held))
      BY <1>1, <2>1, <3>1, <3>2, OneTaken
    <3>4. typed' = typed /\ toSocket' = toSocket /\ stdin' = stdin /\ daemon' = daemon
      BY <2>4 DEF DaemonReads, inside
    <3> QED  BY <1>3, <3>3, <3>4 DEF InputKept
  <2>5. CASE DaemonEnds
    <3>1. up ++ (toSocket ++ stdin.held) \in Bytes
      BY <1>1, BytesJoin
    <3>2. Starts(got, typed)
      BY <1>1, <2>1, <3>1, StartsItself
    <3>3. /\ typed' = typed /\ got' = got /\ up' = up /\ toSocket' = toSocket /\ stdin' = stdin
      BY <2>5 DEF DaemonEnds, inside
    <3> QED  BY <2>1, <3>2, <3>3 DEF InputKept
  <2>6. CASE Type
    <3>0. Len(typed) + 1 \in Nat
      BY <1>1, BytesJoin
    <3>1. PICK x \in Nat : /\ typed' = Append(typed, x)
                           /\ stdin' = [stdin EXCEPT !.held = Append(@, x)]
      BY <2>6, <3>0 DEF Type
    <3>2. stdin'.held = Append(stdin.held, x)
      BY <1>1, <3>1
    <3> DEFINE p == <<x>>
    <3>3. p \in Bytes /\ typed' = typed ++ p /\ stdin'.held = stdin.held ++ p
      BY <1>1, <3>1, <3>2, OneMore
    <3> HIDE DEF p
    <3>4. typed ++ p = got ++ (up ++ (toSocket ++ (stdin.held ++ p)))
      BY <1>1, <2>1, <3>3, BytesJoinTheLast
    <3>5. got' = got /\ up' = up /\ toSocket' = toSocket /\ daemon' = daemon
      BY <2>6 DEF Type, inside
    <3> QED  BY <1>3, <3>3, <3>4, <3>5 DEF InputKept
  <2>7. CASE \/ Poll \/ (ReadStdin /\ (Found("stdin") \cap Readable = {} \/ StdinBroken)) \/ ReadSocket
             \/ WriteChannel \/ Finish \/ Collect \/ Look \/ Work \/ EndStdin
             \/ DaemonSays \/ ReaderTakes \/ OthersWrite \/ StdoutEnds
    <3>1. /\ typed' = typed /\ got' = got /\ up' = up /\ toSocket' = toSocket /\ daemon' = daemon
          /\ stdin'.held = stdin.held
      BY <1>1, <2>7
      DEF Poll, ReadStdin, ReadSocket, WriteChannel, Finish, Collect, Look, Work, WorkerFill,
          WorkerPoll, WorkerWrite, WorkerReturn, WorkerStatus, WorkerClose, EndStdin,
          DaemonSays, ReaderTakes, OthersWrite, StdoutEnds, world, inside, rest
    <3> QED  BY <1>3, <2>1, <3>1 DEF InputKept
  <2> QED  BY <2>2, <2>3, <2>4, <2>5, <2>6, <2>7 DEF Next, Pass, Outside
<1> QED  BY <1>2, <1>3

-----------------------------------------------------------------------------
(* The two threads *)

(* What has come to its end stays there.                                    *)
LEMMA EndsAreFinal ==
  ASSUME IInv, Next
  PROVE  /\ WorkerGone => WorkerGone'
         /\ stdin.end # "open" => stdin'.end = stdin.end
         /\ stdout.end = "left" => stdout'.end = "left"
         /\ daemon # "open" => daemon' # "open" /\ said' = said
         /\ daemon = "closed" => daemon' = "closed"
         /\ load' = load
<1>1. /\ stdin \in [held : Bytes, end : {"open"} \cup StdinEnds]
      /\ stdout \in [mode : {"blocking", "nonblocking"}, end : {"open", "left", "full"}]
  BY DEF IInv, TypeOK, WorldOK
<1>2. CASE Pass
  BY <1>1, <1>2
  DEF Pass, Poll, ReadStdin, ReadSocket, WriteSocket, WriteChannel, Finish, Collect, world, threads,
      WorkerGone
<1>3. CASE Look
  BY <1>3 DEF Look, world, WorkerGone
<1>4. CASE Work
  BY <1>4
  DEF Work, WorkerFill, WorkerPoll, WorkerWrite, WorkerReturn, WorkerStatus, WorkerClose, rest,
      Works, WorkerGone
<1>5. CASE Outside
  BY <1>1, <1>5
  DEF Outside, Type, EndStdin, DaemonReads, DaemonSays, DaemonEnds, ReaderTakes, OthersWrite,
      StdoutEnds, inside, threads, WorkerGone
<1> QED  BY <1>2, <1>3, <1>4, <1>5 DEF Next

LEMMA BatchIsStillWritten ==
  ASSUME IInv, Next
  PROVE  BatchIsWritten'
<1>1. /\ worker \in [pc : {"fill", "poll", "write", "status", "close", "gone"}, moved : BOOLEAN,
                     end : {"ok", "failed"}]
      /\ Works("fill") => batch = <<>>
  BY DEF IInv, TypeOK, ThreadsOK, BatchIsWritten
<1>2. CASE Work
  BY <1>1, <1>2
  DEF Work, WorkerFill, WorkerPoll, WorkerWrite, WorkerReturn, WorkerStatus, WorkerClose, rest,
      Works, Stops, BatchIsWritten
<1>3. CASE Pass \/ Look
  BY <1>1, <1>3
  DEF Pass, Look, Poll, ReadStdin, ReadSocket, WriteSocket, WriteChannel, Finish, Collect, threads,
      Works, BatchIsWritten
<1>4. CASE Outside
  BY <1>1, <1>4
  DEF Outside, Type, EndStdin, DaemonReads, DaemonSays, DaemonEnds, ReaderTakes, OthersWrite,
      StdoutEnds, inside, threads, Works, BatchIsWritten
<1> QED  BY <1>2, <1>3, <1>4 DEF Next

LEMMA SnapshotStillHolds ==
  ASSUME IInv, Next
  PROVE  SnapshotHolds'
<1> DEFINE Loop == [pc : Places, stdinOpen : BOOLEAN, socketOpen : BOOLEAN, stdoutOpen : BOOLEAN,
                    halfClosed : BOOLEAN, ready : Snapshots,
                    left : Nat, result : {"running", "ok", "failed", "TimedOut"}]
<1>1. SnapshotHolds /\ relay \in Loop
  BY DEF IInv, TypeOK, ThreadsOK
<1>2. /\ WorkerGone => WorkerGone'
      /\ stdin.end # "open" => stdin'.end = stdin.end
      /\ daemon = "closed" => daemon' = "closed"
  BY EndsAreFinal
<1>3. CASE Poll
  <2>1. relay'.ready = Ready /\ relay'.stdinOpen = relay.stdinOpen /\ toSocket' = toSocket
    BY <1>1, <1>3 DEF Poll
  <2>2. <<"channel", "HUP">> \in Ready => WorkerGone
    BY DEF Ready, ChannelReady, Watched, ChannelEvents
  <2>3. <<"stdin", "NVAL">> \in Ready => stdin.end = "nval"
    BY DEF Ready, StdinReady, Watched, StdinEvents
  <2>4. <<"stdin", "ERR">> \in Ready => stdin.end = "err"
    BY DEF Ready, StdinReady, Watched, StdinEvents
  <2>a. <<"socket", "ERR">> \in Ready => daemon = "closed"
    BY DEF Ready, SocketReady, Watched, SocketEvents, SocketUnread
  <2>5. Found("stdin")' # {} => WantsStdin
    <3>1. SUFFICES ASSUME NEW r \in Ready, r[1] = "stdin" PROVE WantsStdin
      BY <2>1 DEF Found
    <3>2. StdinReady # {}
      BY <3>1 DEF Ready
    <3> QED  BY <3>2 DEF StdinReady
  <2>6. stdin' = stdin /\ daemon' = daemon
    BY <1>3 DEF Poll, world
  <2> QED  BY <1>2, <2>1, <2>2, <2>3, <2>4, <2>a, <2>5, <2>6 DEF SnapshotHolds, WantsStdin
<1>4. CASE ~Poll
  <2>1. relay'.ready \subseteq relay.ready
    <3>a. Unserved("stdin") \subseteq relay.ready /\ Unserved("socket") \subseteq relay.ready
      BY DEF Unserved
    <3>1. CASE ReadStdin
      <4> DEFINE r == Unserved("stdin")
      <4>1. relay'.ready \in {relay.ready, r}
        BY <1>1, <3>1 DEF ReadStdin
      <4> QED  BY <3>a, <4>1
    <3>2. CASE ReadSocket
      <4> DEFINE r == Unserved("socket")
      <4>1. relay'.ready = r
        BY <1>1, <3>2 DEF ReadSocket
      <4> QED  BY <3>a, <4>1
    <3>3. CASE WriteSocket \/ WriteChannel
      <4>1. relay'.ready \in {relay.ready, {}}
        BY <1>1, <3>3 DEF WriteSocket, WriteChannel
      <4> QED  BY <4>1
    <3>4. CASE Finish \/ Collect \/ Look \/ Work \/ Outside
      <4>1. relay'.ready = relay.ready
        BY <1>1, <3>4
        DEF Finish, Collect, Look, Work, Outside, WorkerFill, WorkerPoll, WorkerWrite, WorkerReturn,
            WorkerStatus, WorkerClose, Type, EndStdin, DaemonReads, DaemonSays, DaemonEnds,
            ReaderTakes, OthersWrite, StdoutEnds, inside, rest
      <4> QED  BY <4>1
    <3> QED  BY <1>4, <3>1, <3>2, <3>3, <3>4 DEF Next, Pass
  <2>2. relay'.pc = "stdin" =>
          /\ relay.pc = "stdin" /\ toSocket' = toSocket
          /\ relay'.stdinOpen = relay.stdinOpen /\ relay'.ready = relay.ready
    BY <1>1, <1>4
    DEF Next, Pass, Look, Work, Outside, ReadStdin, ReadSocket, WriteSocket, WriteChannel, Finish,
        Collect, WorkerFill, WorkerPoll, WorkerWrite, WorkerReturn, WorkerStatus, WorkerClose, Type,
        EndStdin, DaemonReads, DaemonSays, DaemonEnds, ReaderTakes, OthersWrite, StdoutEnds, inside,
        rest, At, GoesOn
  <2>3. /\ <<"channel", "HUP">> \in relay'.ready => WorkerGone'
        /\ <<"stdin", "NVAL">> \in relay'.ready => stdin'.end = "nval"
        /\ <<"stdin", "ERR">> \in relay'.ready => stdin'.end = "err"
        /\ <<"socket", "ERR">> \in relay'.ready => daemon' = "closed"
    BY <1>1, <1>2, <2>1 DEF SnapshotHolds
  <2>4. At("stdin")' /\ Found("stdin")' # {} => toSocket' = <<>> /\ relay'.stdinOpen
    BY <1>1, <2>2 DEF SnapshotHolds, At, Found
  <2> QED  BY <2>3, <2>4 DEF SnapshotHolds
<1> QED  BY <1>3, <1>4

LEMMA WhatIsFoundWasSeen ==
  ASSUME TypeOK, NEW fd, NEW e \in Found(fd)
  PROVE  <<fd, e>> \in relay.ready
<1>1. PICK r \in relay.ready : r[1] = fd /\ r[2] = e
  BY DEF Found
<1>2. r \in Fds \X (Readable \cup {"OUT"})
  BY DEF TypeOK, ThreadsOK, Snapshots
<1>3. r = <<r[1], r[2]>>
  BY <1>2
<1> QED  BY <1>1, <1>3

(* A batch is empty only of nothing.                                        *)
LEMMA EmptyBatch ==
  ASSUME NEW s \in Bytes, First(s, RELAY_CHUNK) = <<>>
  PROVE  s = <<>>
<1> DEFINE m == SmallerOf(RELAY_CHUNK, Len(s))
<1>1. Len(s) \in Nat /\ RELAY_CHUNK \in Nat \ {0} /\ m \in 0 .. Len(s)
  BY RelayAssumption, LenProperties DEF Bytes, SmallerOf
<1>2. m = 0
  <2>1. Len(SubSeq(s, 1, m)) = m
    BY <1>1, TakenAndLeft
  <2> QED  BY <2>1 DEF First
<1>3. Len(s) = 0
  BY <1>1, <1>2 DEF SmallerOf
<1> QED  BY <1>3, EmptySeq DEF Bytes

LEMMA SocketIsStillRead ==
  ASSUME IInv, Next
  PROVE  SocketIsRead'
<1>1. /\ SocketIsRead /\ relay.socketOpen \in BOOLEAN /\ down \in Bytes /\ RELAY_CHUNK \in Nat
      /\ relay \in [pc : Places, stdinOpen : BOOLEAN, socketOpen : BOOLEAN, stdoutOpen : BOOLEAN,
                    halfClosed : BOOLEAN, ready : Snapshots,
                    left : Nat, result : {"running", "ok", "failed", "TimedOut"}]
  BY RelayAssumption DEF IInv, TypeOK, ThreadsOK, StreamsOK, RelayAssumption
<1>2. CASE ReadSocket
  <2>1. down = <<>> => Rest(down, RELAY_CHUNK) = <<>>
    BY <1>1, FirstAndRest
  <2>2. down' = down \/ down' = Rest(down, RELAY_CHUNK)
    BY <1>2 DEF ReadSocket
  <2>3. ~relay'.socketOpen => ~relay.socketOpen \/ SocketEnded
    BY <1>1, <1>2 DEF ReadSocket
  <2>4. daemon' = daemon
    BY <1>2 DEF ReadSocket, world
  <2>5. SocketEnded => down = <<>> /\ daemon # "open"
    <3>1. "ERR" \in Found("socket") => daemon = "closed"
      BY WhatIsFoundWasSeen DEF SnapshotHolds, IInv
    <3>2. First(down, RELAY_CHUNK) = <<>> => down = <<>>
      BY <1>1, EmptyBatch
    <3> QED  BY <3>1, <3>2 DEF SocketEnded, Spinning
  <2> QED  BY <1>1, <2>1, <2>2, <2>3, <2>4, <2>5 DEF SocketIsRead
<1>3. CASE ~ReadSocket
  <2>1. relay'.socketOpen = relay.socketOpen
    BY <1>1, <1>3
    DEF Next, Pass, Look, Work, Outside, Poll, ReadStdin, WriteSocket, WriteChannel, Finish,
        Collect, WorkerFill, WorkerPoll, WorkerWrite, WorkerReturn, WorkerStatus, WorkerClose, Type,
        EndStdin, DaemonReads, DaemonSays, DaemonEnds, ReaderTakes, OthersWrite, StdoutEnds, inside,
        rest
  <2>2. down' = down \/ daemon = "open"
    BY <1>3
    DEF Next, Pass, Look, Work, Outside, Poll, ReadStdin, WriteSocket, WriteChannel, Finish,
        Collect, WorkerFill, WorkerPoll, WorkerWrite, WorkerReturn, WorkerStatus, WorkerClose, Type,
        EndStdin, DaemonReads, DaemonSays, DaemonEnds, ReaderTakes, OthersWrite, StdoutEnds, inside,
        rest
  <2>3. daemon # "open" => daemon' # "open"
    BY EndsAreFinal
  <2> QED  BY <1>1, <2>1, <2>2, <2>3 DEF SocketIsRead
<1> QED  BY <1>2, <1>3

LEMMA StdinIsStillRead ==
  ASSUME IInv, Next
  PROVE  StdinIsRead'
<1>1. /\ StdinIsRead /\ SnapshotHolds /\ toSocket \in Bytes /\ stdin.held \in Bytes
      /\ stdin \in [held : Bytes, end : {"open"} \cup StdinEnds] /\ RELAY_CHUNK \in Nat
      /\ load.ends \subseteq StdinEnds
      /\ relay \in [pc : Places, stdinOpen : BOOLEAN, socketOpen : BOOLEAN, stdoutOpen : BOOLEAN,
                    halfClosed : BOOLEAN, ready : Snapshots,
                    left : Nat, result : {"running", "ok", "failed", "TimedOut"}]
  BY RelayAssumption DEF IInv, TypeOK, ThreadsOK, StreamsOK, WorldOK, RelayAssumption
<1>2. CASE ReadStdin
  <2>1. CASE Found("stdin") \cap Readable = {} \/ StdinBroken
    <3>1. /\ stdin' = stdin /\ toSocket' = toSocket /\ relay'.stdinOpen = relay.stdinOpen
          /\ relay'.halfClosed = relay.halfClosed
      BY <1>1, <1>2, <2>1 DEF ReadStdin
    <3> QED  BY <1>1, <3>1 DEF StdinIsRead
  <2>2. CASE ~(Found("stdin") \cap Readable = {}) /\ ~StdinBroken
    <3> DEFINE b == StdinBatch
               r == Rest(stdin.held, Len(b))
    <3>1. /\ toSocket' = b /\ stdin'.held = r /\ stdin'.end = stdin.end
          /\ relay'.stdinOpen = (relay.stdinOpen /\ ~StdinEnded)
          /\ relay'.halfClosed = (relay.halfClosed \/ StdinEnded)
      BY <1>1, <1>2, <2>2 DEF ReadStdin
    <3>2. relay.stdinOpen /\ ~relay.halfClosed
      BY <1>1, <1>2, <2>2 DEF SnapshotHolds, StdinIsRead, ReadStdin
    <3>a. /\ "NVAL" \in Found("stdin") => stdin.end = "nval"
          /\ "ERR" \in Found("stdin") => stdin.end = "err"
      BY <1>1, WhatIsFoundWasSeen DEF SnapshotHolds, IInv
    <3>3. StdinEnded => stdin.end # "open"
      BY <3>a DEF StdinEnded, StdinGone, Spinning
    <3>4. StdinEnded /\ stdin.end = "hup" => stdin.held = <<>> /\ b = <<>> /\ r = <<>>
      <4> SUFFICES ASSUME StdinEnded, stdin.end = "hup"
                   PROVE  stdin.held = <<>> /\ b = <<>> /\ r = <<>>
        OBVIOUS
      <4>1. stdin.held = <<>>
        BY <3>a DEF StdinEnded, StdinGone, Spinning
      <4>2. b = <<>>
        BY <1>1, <4>1, FirstAndRest DEF StdinBatch
      <4> QED  BY <1>1, <4>1, <4>2, NothingTaken
    <3> HIDE DEF b, r
    <3> QED  BY <3>1, <3>2, <3>3, <3>4 DEF StdinIsRead
  <2> QED  BY <2>1, <2>2
<1>3. CASE ~ReadStdin
  <2>1. relay'.stdinOpen => relay.stdinOpen
    BY <1>1, <1>3
    DEF Next, Pass, Look, Work, Outside, Poll, ReadSocket, WriteSocket, WriteChannel, Finish,
        Collect, WorkerFill, WorkerPoll, WorkerWrite, WorkerReturn, WorkerStatus, WorkerClose, Type,
        EndStdin, DaemonReads, DaemonSays, DaemonEnds, ReaderTakes, OthersWrite, StdoutEnds, inside,
        rest
  <2>2. relay'.halfClosed = relay.halfClosed
    BY <1>1, <1>3
    DEF Next, Pass, Look, Work, Outside, Poll, ReadSocket, WriteSocket, WriteChannel, Finish,
        Collect, WorkerFill, WorkerPoll, WorkerWrite, WorkerReturn, WorkerStatus, WorkerClose, Type,
        EndStdin, DaemonReads, DaemonSays, DaemonEnds, ReaderTakes, OthersWrite, StdoutEnds, inside,
        rest
  <2>3. stdin.end # "open" => stdin'.end = stdin.end
    BY EndsAreFinal
  <2>4. stdin.end # "open" => stdin' = stdin
    BY <1>1, <1>3
    DEF Next, Pass, Look, Work, Outside, Poll, ReadSocket, WriteSocket, WriteChannel, Finish,
        Collect, WorkerFill, WorkerPoll, WorkerWrite, WorkerReturn, WorkerStatus, WorkerClose, Type,
        EndStdin, DaemonReads, DaemonSays, DaemonEnds, ReaderTakes, OthersWrite, StdoutEnds, inside,
        rest, world
  <2>5. toSocket = <<>> => toSocket' = <<>>
    <3>1. CASE WriteSocket
      <4> DEFINE n == Len(Uploaded)
      <4>1. toSocket' = <<>> \/ toSocket' = Rest(toSocket, n)
        BY <3>1 DEF WriteSocket
      <4>2. toSocket = <<>> => Uploaded = <<>>
        <5>a. up \in Bytes /\ Len(up) <= SockCap /\ SockCap \in Nat
          BY RelayAssumption DEF IInv, TypeOK, StreamsOK, RelayAssumption
        <5>1. SockCap - Len(up) \in Nat
          BY <5>a, BytesJoin
        <5> QED  BY <1>1, <5>1, FirstAndRest DEF Uploaded
      <4> QED  BY <1>1, <4>1, <4>2, NothingTaken
    <3>2. CASE ~WriteSocket
      <4>1. toSocket' = toSocket
        BY <1>3, <3>2
        DEF Next, Pass, Look, Work, Outside, Poll, ReadSocket, WriteChannel, Finish,
            Collect, WorkerFill, WorkerPoll, WorkerWrite, WorkerReturn, WorkerStatus, WorkerClose,
            Type, EndStdin, DaemonReads, DaemonSays, DaemonEnds, ReaderTakes, OthersWrite,
            StdoutEnds, inside, rest
      <4> QED  BY <4>1
    <3> QED  BY <3>1, <3>2
  <2> QED  BY <1>1, <2>1, <2>2, <2>3, <2>4, <2>5 DEF StdinIsRead
<1> QED  BY <1>2, <1>3

LEMMA FlushIsStillLast ==
  ASSUME IInv, Next
  PROVE  FlushIsLast'
<1>1. /\ FlushIsLast
      /\ relay \in [pc : Places, stdinOpen : BOOLEAN, socketOpen : BOOLEAN, stdoutOpen : BOOLEAN,
                    halfClosed : BOOLEAN, ready : Snapshots,
                    left : Nat, result : {"running", "ok", "failed", "TimedOut"}]
  BY DEF IInv, TypeOK, ThreadsOK
<1>2. WorkerGone => WorkerGone'
  BY EndsAreFinal
<1>3. CASE WriteChannel
  <2>1. relay.pc = "stdout" /\ shut' = shut /\ ~shut /\ relay'.pc # "flush"
    BY <1>1, <1>3 DEF WriteChannel, FlushIsLast, At
  <2>2. relay'.pc = "finish" => WorkerGone' \/ (toStdout' = <<>> /\ ~relay'.socketOpen)
    <3>1. CASE WorkerEnded
      <4>1. WorkerGone
        BY <3>1, WhatIsFoundWasSeen DEF WorkerEnded, IInv, SnapshotHolds
      <4> QED  BY <1>2, <4>1
    <3>2. CASE ~WorkerEnded
      <4>1. /\ relay'.socketOpen = relay.socketOpen
            /\ relay'.pc = "finish" => ~GoesOn(TRUE, toStdout')
        BY <1>1, <1>3, <3>2 DEF WriteChannel
      <4> QED  BY <4>1 DEF GoesOn
    <3> QED  BY <3>1, <3>2
  <2> QED  BY <2>1, <2>2 DEF FlushIsLast, At
<1>4. CASE Finish \/ Collect \/ Look
  <2>1. /\ shut' /\ relay'.pc = "flush" /\ toStdout' = toStdout
        /\ relay'.socketOpen = relay.socketOpen /\ (shut \/ relay.pc = "finish")
    BY <1>1, <1>4 DEF Finish, Collect, Look, FlushIsLast, At
  <2> QED  BY <1>1, <1>2, <2>1 DEF FlushIsLast, At
<1>5. CASE Poll \/ ReadStdin \/ ReadSocket \/ WriteSocket
  <2>1. /\ relay.pc \notin {"finish", "flush"} /\ relay'.pc \notin {"finish", "flush"}
        /\ shut' = shut
    BY <1>1, <1>5 DEF Poll, ReadStdin, ReadSocket, WriteSocket, At
  <2> QED  BY <1>1, <2>1 DEF FlushIsLast, At
<1>6. CASE Work \/ Outside
  <2>1. relay' = relay /\ shut' = shut /\ toStdout' = toStdout
    BY <1>6
    DEF Work, WorkerFill, WorkerPoll, WorkerWrite, WorkerReturn, WorkerStatus, WorkerClose, rest,
        Outside, Type, EndStdin, DaemonReads, DaemonSays, DaemonEnds, ReaderTakes, OthersWrite,
        StdoutEnds, inside
  <2> QED  BY <1>1, <1>2, <2>1 DEF FlushIsLast, At
<1> QED  BY <1>3, <1>4, <1>5, <1>6 DEF Next, Pass

LEMMA WorkerIsStillTrue ==
  ASSUME IInv, Next
  PROVE  WorkerIsTrue'
<1> DEFINE Ended == worker.pc \in {"status", "close", "gone"} /\ worker.end = "ok"
<1>1. /\ WorkerIsTrue /\ relay.result = "running"
      /\ worker \in [pc : {"fill", "poll", "write", "status", "close", "gone"}, moved : BOOLEAN,
                     end : {"ok", "failed"}]
      /\ relay \in [pc : Places, stdinOpen : BOOLEAN, socketOpen : BOOLEAN, stdoutOpen : BOOLEAN,
                    halfClosed : BOOLEAN, ready : Snapshots,
                    left : Nat, result : {"running", "ok", "failed", "TimedOut"}]
  BY DEF IInv, TypeOK, ThreadsOK, Next, Over
<1>2. /\ stdout.end = "left" => stdout'.end = "left"
      /\ daemon # "open" => daemon' # "open" /\ said' = said
  BY EndsAreFinal
<1>3. Ended' => stdout'.end = "left" \/ (out' = said' /\ daemon' # "open")
  <2>2. CASE WorkerFill /\ channel # <<>>
    <3>1. worker'.pc = "poll"
      BY <1>1, <2>2 DEF WorkerFill, ChannelEnded
    <3> QED  BY <3>1
  <2>3. CASE WorkerFill /\ channel = <<>>
    <3>1. shut /\ batch = <<>> /\ ~WorkerGone
      BY <2>3 DEF WorkerFill, ChannelEnded, IInv, BatchIsWritten, Works, WorkerGone
    <3>2. toStdout = <<>> /\ down = <<>> /\ daemon # "open"
      BY <3>1 DEF IInv, FlushIsLast, SocketIsRead
    <3>3. said = out ++ (<<>> ++ (<<>> ++ (<<>> ++ <<>>)))
      BY <2>3, <3>1, <3>2 DEF IInv, OutputKept
    <3>4. out \in Bytes /\ <<>> \in Bytes
      BY NoBytes DEF IInv, TypeOK, StreamsOK
    <3>5. <<>> ++ <<>> = <<>> /\ out ++ <<>> = out
      BY <3>4, NoBytes
    <3>6. said = out
      BY <3>3, <3>5
    <3>7. out' = out
      BY <2>3 DEF WorkerFill
    <3> QED  BY <1>2, <3>2, <3>6, <3>7
  <2>4. CASE WorkerPoll \/ WorkerReturn
    <3>1. stdout' = stdout
      BY <2>4 DEF WorkerPoll, WorkerReturn, rest
    <3>2. Ended' => stdout.end = "left"
      BY <1>1, <2>4 DEF WorkerPoll, WorkerReturn, Stops
    <3> QED  BY <3>1, <3>2
  <2>5. CASE WorkerWrite
    <3>1. worker'.pc = "write"
      BY <1>1, <2>5 DEF WorkerWrite, Works
    <3> QED  BY <3>1
  <2>6. CASE WorkerStatus \/ WorkerClose
    <3>1. /\ worker.pc \in {"status", "close"} /\ worker'.end = worker.end /\ out' = out
      BY <1>1, <2>6 DEF WorkerStatus, WorkerClose, Works
    <3> QED  BY <1>1, <1>2, <3>1 DEF WorkerIsTrue
  <2>7. CASE Pass \/ Look \/ Outside
    <3>1. worker' = worker /\ out' = out
      BY <2>7
      DEF Pass, Look, Outside, Poll, ReadStdin, ReadSocket, WriteSocket, WriteChannel,
          Finish, Collect, Type, EndStdin, DaemonReads, DaemonSays, DaemonEnds, ReaderTakes,
          OthersWrite, StdoutEnds, inside, threads
    <3> QED  BY <1>1, <1>2, <3>1 DEF WorkerIsTrue
  <2> QED  BY <2>2, <2>3, <2>4, <2>5, <2>6, <2>7 DEF Next, Work
<1>4. status' # "none" => status' = worker'.end /\ worker'.pc \in {"close", "gone"}
  <2>1. CASE Work
    BY <1>1, <2>1
    DEF Work, WorkerFill, WorkerPoll, WorkerWrite, WorkerReturn, WorkerStatus, WorkerClose, Works,
        Stops, WorkerIsTrue
  <2>2. CASE Pass \/ Look \/ Outside
    <3>1. worker' = worker /\ status' = status
      BY <2>2
      DEF Pass, Look, Outside, Poll, ReadStdin, ReadSocket, WriteSocket, WriteChannel,
          Finish, Collect, Type, EndStdin, DaemonReads, DaemonSays, DaemonEnds, ReaderTakes,
          OthersWrite, StdoutEnds, inside, threads
    <3> QED  BY <1>1, <3>1 DEF WorkerIsTrue
  <2> QED  BY <2>1, <2>2 DEF Next
<1>5. relay'.result = "ok" => status' = "ok"
  <2>1. CASE Collect
    BY <1>1, <2>1 DEF Collect, threads
  <2>2. CASE ~Collect
    <3>1. relay'.result # "ok"
      BY ZenonT(30), <1>1, <2>2
      DEF Next, Pass, Look, Work, Outside, Poll, ReadStdin, ReadSocket, WriteSocket, WriteChannel,
          Finish, WorkerFill, WorkerPoll, WorkerWrite, WorkerReturn, WorkerStatus,
          WorkerClose, Type, EndStdin, DaemonReads, DaemonSays, DaemonEnds, ReaderTakes,
          OthersWrite, StdoutEnds, inside, rest
    <3> QED  BY <3>1
  <2> QED  BY <2>1, <2>2
<1> QED  BY <1>3, <1>4, <1>5 DEF WorkerIsTrue

LEMMA ClockIsStillTrue ==
  ASSUME IInv, Next
  PROVE  ClockIsTrue'
<1>1. /\ ClockIsTrue /\ relay.result = "running" /\ Window \in Nat /\ Window > 0
      /\ quiet \in Nat /\ relay.left \in Nat /\ relay.left > 0
      /\ relay \in [pc : Places, stdinOpen : BOOLEAN, socketOpen : BOOLEAN, stdoutOpen : BOOLEAN,
                    halfClosed : BOOLEAN, ready : Snapshots,
                    left : Nat, result : {"running", "ok", "failed", "TimedOut"}]
      /\ progress \in BOOLEAN /\ worker.moved \in BOOLEAN
  BY RelayAssumption DEF RelayAssumption, IInv, TypeOK, ThreadsOK, Next, Over
<1>2. CASE Look
  <2>1. /\ quiet' = IF Window < quiet + 1 THEN Window ELSE quiet + 1
        /\ progress' = FALSE /\ relay.pc = "flush"
    BY <1>2 DEF Look, SmallerOf, At
  <2>2. CASE Moved
    <3>1. relay'.left = Window /\ relay'.result = "running"
      BY <1>1, <1>2, <2>2 DEF Look
    <3>2. quiet' + relay'.left >= Window
      BY <1>1, <2>1, <3>1
    <3> QED  BY <3>1, <3>2 DEF ClockIsTrue
  <2>3. CASE ~Moved
    <3>1. quiet + relay.left >= Window
      BY <1>1, <2>1, <2>3 DEF Moved, ClockIsTrue, At
    <3>2. CASE relay.left = 1
      <4>1. quiet' >= Window
        BY <1>1, <2>1, <3>1, <3>2
      <4>2. relay'.result = "TimedOut"
        BY <1>1, <1>2, <2>3, <3>2 DEF Look
      <4> QED  BY <4>1, <4>2 DEF ClockIsTrue
    <3>3. CASE relay.left # 1
      <4>1. relay'.left = relay.left - 1 /\ relay'.result = "running"
        BY <1>1, <1>2, <2>3, <3>3 DEF Look
      <4>2. quiet' + (relay.left - 1) >= Window
        BY <1>1, <2>1, <3>1
      <4> QED  BY <4>1, <4>2 DEF ClockIsTrue
    <3> QED  BY <3>2, <3>3
  <2> QED  BY <2>2, <2>3
<1>3. CASE Finish
  <2>1. quiet' = 0 /\ relay'.left = Window /\ relay'.result = "running"
    BY <1>1, <1>3 DEF Finish
  <2> QED  BY <1>1, <2>1 DEF ClockIsTrue
<1>4. CASE Collect
  <2>1. relay'.result \in {"ok", "failed"}
    BY <1>1, <1>4 DEF Collect, IInv, TypeOK, ThreadsOK
  <2> QED  BY <2>1 DEF ClockIsTrue
<1>5. CASE Poll \/ ReadStdin \/ ReadSocket \/ WriteSocket \/ WriteChannel
  <2>1. relay'.pc # "flush" /\ relay'.result # "TimedOut"
    BY <1>1, <1>5 DEF Poll, ReadStdin, ReadSocket, WriteSocket, WriteChannel, At
  <2> QED  BY <2>1 DEF ClockIsTrue, At
<1>6. CASE WorkerReturn
  <2>1. relay' = relay /\ progress' = (progress \/ worker.moved)
    BY <1>6 DEF WorkerReturn, rest, Counts
  <2>2. ~worker.moved => quiet' = quiet
    BY <1>6 DEF WorkerReturn
  <2> QED  BY <1>1, <2>1, <2>2 DEF ClockIsTrue, At
<1>7. CASE WorkerFill \/ WorkerPoll \/ WorkerWrite \/ WorkerStatus \/ WorkerClose \/ Outside
  <2>1. relay' = relay /\ progress' = progress /\ quiet' = quiet
    BY <1>7
    DEF WorkerFill, WorkerPoll, WorkerWrite, WorkerStatus, WorkerClose, rest,
        Outside, Type, EndStdin, DaemonReads, DaemonSays, DaemonEnds, ReaderTakes, OthersWrite,
        StdoutEnds, inside, threads
  <2> QED  BY <1>1, <2>1 DEF ClockIsTrue, At
<1> QED  BY <1>2, <1>3, <1>4, <1>5, <1>6, <1>7 DEF Next, Pass, Work

-----------------------------------------------------------------------------
(* The invariant *)

LEMMA InitEstablishes ==
  ASSUME Init
  PROVE  IInv
<1>0. <<>> \in Bytes
  BY EmptySeq DEF Bytes
<1>1. <<>> \in Bytes /\ Len(<<>>) = 0 /\ <<>> ++ <<>> = <<>>
  BY <1>0, NoBytes
<1>2. {} \in Snapshots /\ Window \in Nat /\ Window > 0 /\ SockCap \in Nat /\ ChannelCap \in Nat
  BY RelayAssumption DEF RelayAssumption, Snapshots
<1>3. StreamsOK /\ WorldOK
  BY <1>1, <1>2 DEF Init, WorkerSpawned, StreamsOK, WorldOK
<1>4. ThreadsOK
  BY <1>2 DEF Init, WorkerSpawned, ThreadsOK, Places
<1>5. OutputKept /\ InputKept
  <2>1. OutputKept
    BY <1>1 DEF Init, WorkerSpawned, OutputKept, WorkerGone
  <2>2. InputKept
    <3>1. typed = <<>> /\ got = <<>> /\ up = <<>> /\ toSocket = <<>> /\ stdin.held = <<>>
      BY DEF Init
    <3>2. daemon # "closed"
      BY DEF Init
    <3> QED  BY <1>1, <3>1, <3>2 DEF InputKept
  <2> QED  BY <2>1, <2>2
<1>6. BatchIsWritten /\ SnapshotHolds /\ SocketIsRead /\ StdinIsRead /\ FlushIsLast
  BY DEF Init, WorkerSpawned, BatchIsWritten, SnapshotHolds, SocketIsRead, StdinIsRead, FlushIsLast,
         At, WorkerGone
<1>7. WorkerIsTrue /\ ClockIsTrue
  BY DEF Init, WorkerSpawned, WorkerIsTrue, ClockIsTrue, At
<1> QED  BY <1>3, <1>4, <1>5, <1>6, <1>7 DEF IInv, TypeOK

LEMMA NextKeeps ==
  ASSUME IInv, [Next]_vars
  PROVE  IInv'
<1>1. CASE Next
  <2>1. TypeOK
    BY DEF IInv
  <2>2. TypeOK'
    BY <1>1, <2>1, StreamsStayTyped, WorldStaysTyped, ThreadsStayTyped DEF TypeOK
  <2> QED  BY <1>1, <2>2, OutputStaysKept, InputStaysKept, BatchIsStillWritten, SnapshotStillHolds,
              SocketIsStillRead, StdinIsStillRead, FlushIsStillLast, WorkerIsStillTrue,
              ClockIsStillTrue
           DEF IInv
<1>2. CASE UNCHANGED vars
  BY <1>2 DEF vars, IInv, TypeOK, StreamsOK, WorldOK, ThreadsOK, OutputKept, InputKept,
    BatchIsWritten, SnapshotHolds, SocketIsRead, StdinIsRead, FlushIsLast, WorkerIsTrue,
    ClockIsTrue, WorkerGone, Works, At, Found
<1> QED  BY <1>1, <1>2

(* The ends and the bytes agree whatever the threads, the user, the daemon  *)
(* and the reader of stdout do in between.                                  *)
THEOREM RelayKeepsCount == Spec => []IInv
<1>1. Init => IInv
  BY InitEstablishes
<1>2. IInv /\ [Next]_vars => IInv'
  BY NextKeeps
<1> QED  BY <1>1, <1>2, PTL DEF Spec

-----------------------------------------------------------------------------
(* What follows from it *)

LEMMA OutputMoves ==
  ASSUME IInv, IInv', [Next]_vars
  PROVE  [Output!Put \/ Output!Take]_<<said, out>>
<1>1. /\ said \in Bytes /\ out \in Bytes /\ batch \in Bytes
      /\ out' \in Bytes /\ batch' \in Bytes /\ channel' \in Bytes /\ toStdout' \in Bytes
      /\ down' \in Bytes
  BY DEF IInv, TypeOK, StreamsOK
<1>2. CASE DaemonSays
  <2>0. Len(said) + 1 \in Nat
    BY <1>1, BytesJoin
  <2>1. PICK x \in Nat : said' = Append(said, x)
    BY <1>2, <2>0 DEF DaemonSays
  <2>2. said' = said ++ <<x>> /\ <<x>> \in Bytes /\ Len(said') = Len(said) + 1
    BY <1>1, <2>1, OneMore
  <2>3. Starts(said, said')
    BY <1>1, <2>2, StartsItself
  <2>4. out' = out
    BY <1>2 DEF DaemonSays, inside, threads
  <2>5. Output!Put
    BY <2>2, <2>3, <2>4 DEF Output!Put, Output!Begins, Starts
  <2> QED  BY <2>5
<1>3. CASE WorkerWrite
  <2>1. batch # <<>> /\ out' = Append(out, batch[1]) /\ said' = said /\ worker'.pc # "gone"
    BY <1>3 DEF WorkerWrite, IInv, TypeOK, ThreadsOK, Works
  <2> DEFINE p == <<batch[1]>>
  <2>2. batch[1] \in Nat
    BY <1>1, <2>1, OneLess
  <2>3. out' = out ++ p /\ p \in Bytes /\ Len(out') = Len(out) + 1 /\ Len(out) \in Nat
    BY <1>1, <2>1, <2>2, OneMore
  <2> HIDE DEF p
  <2>4. Starts(out, out') /\ out' # out
    <3>1. Starts(out, out')
      BY <1>1, <2>3, StartsItself
    <3> QED  BY <2>3, <3>1
  <2>5. said' = out' ++ (batch' ++ (channel' ++ (toStdout' ++ down')))
    BY <2>1 DEF IInv, OutputKept, WorkerGone
  <2> DEFINE w == batch' ++ (channel' ++ (toStdout' ++ down'))
  <2>6. w \in Bytes
    BY <1>1, BytesJoin
  <2>7. said' = out' ++ w
    BY <2>5
  <2> HIDE DEF w
  <2>8. Starts(out', said)
    BY <1>1, <2>1, <2>6, <2>7, StartsItself
  <2>9. Output!Take
    BY <2>1, <2>4, <2>8 DEF Output!Take, Output!Begins, Starts
  <2> QED  BY <2>9
<1>4. CASE ~DaemonSays /\ ~WorkerWrite
  <2>1. said' = said /\ out' = out
    BY <1>4
    DEF Next, Pass, Look, Work, Outside, Poll, ReadStdin, ReadSocket, WriteSocket, WriteChannel,
        Finish, Collect, WorkerFill, WorkerPoll, WorkerReturn, WorkerStatus, WorkerClose, Type,
        EndStdin, DaemonReads, DaemonEnds, ReaderTakes, OthersWrite, StdoutEnds, inside, rest,
        threads, world, vars
  <2> QED  BY <2>1
<1> QED  BY <1>2, <1>3, <1>4

LEMMA InputMoves ==
  ASSUME IInv, IInv', [Next]_vars
  PROVE  [Input!Put \/ Input!Take]_<<typed, got>>
<1>1. /\ typed \in Bytes /\ got \in Bytes /\ up \in Bytes
      /\ got' \in Bytes /\ up' \in Bytes /\ toSocket' \in Bytes /\ stdin'.held \in Bytes
  BY DEF IInv, TypeOK, StreamsOK, WorldOK
<1>2. CASE Type
  <2>0. Len(typed) + 1 \in Nat
    BY <1>1, BytesJoin
  <2>1. PICK x \in Nat : typed' = Append(typed, x)
    BY <1>2, <2>0 DEF Type
  <2>2. typed' = typed ++ <<x>> /\ <<x>> \in Bytes /\ Len(typed') = Len(typed) + 1
    BY <1>1, <2>1, OneMore
  <2>3. Starts(typed, typed')
    BY <1>1, <2>2, StartsItself
  <2>4. got' = got
    BY <1>2 DEF Type
  <2>5. Input!Put
    BY <2>2, <2>3, <2>4 DEF Input!Put, Input!Begins, Starts
  <2> QED  BY <2>5
<1>3. CASE DaemonReads
  <2>1. up # <<>> /\ got' = Append(got, up[1]) /\ typed' = typed /\ daemon' # "closed"
    BY <1>3 DEF DaemonReads
  <2> DEFINE p == <<up[1]>>
  <2>2. up[1] \in Nat
    BY <1>1, <2>1, OneLess
  <2>3. got' = got ++ p /\ p \in Bytes /\ Len(got') = Len(got) + 1 /\ Len(got) \in Nat
    BY <1>1, <2>1, <2>2, OneMore
  <2> HIDE DEF p
  <2>4. Starts(got, got') /\ got' # got
    <3>1. Starts(got, got')
      BY <1>1, <2>3, StartsItself
    <3> QED  BY <2>3, <3>1
  <2>5. typed' = got' ++ (up' ++ (toSocket' ++ stdin'.held))
    BY <2>1 DEF IInv, InputKept
  <2> DEFINE w == up' ++ (toSocket' ++ stdin'.held)
  <2>6. w \in Bytes
    BY <1>1, BytesJoin
  <2>7. typed' = got' ++ w
    BY <2>5
  <2> HIDE DEF w
  <2>8. Starts(got', typed)
    BY <1>1, <2>1, <2>6, <2>7, StartsItself
  <2>9. Input!Take
    BY <2>1, <2>4, <2>8 DEF Input!Take, Input!Begins, Starts
  <2> QED  BY <2>9
<1>4. CASE ~Type /\ ~DaemonReads
  <2>1. typed' = typed /\ got' = got
    BY <1>4
    DEF Next, Pass, Look, Work, Outside, Poll, ReadStdin, ReadSocket, WriteSocket, WriteChannel,
        Finish, Collect, WorkerFill, WorkerPoll, WorkerWrite, WorkerReturn, WorkerStatus,
        WorkerClose, EndStdin, DaemonSays, DaemonEnds, ReaderTakes, OthersWrite, StdoutEnds, rest,
        world, vars
  <2> QED  BY <2>1
<1> QED  BY <1>2, <1>3, <1>4

(* Either direction of the relay is a Conduit: what its far end gets is the *)
(* beginning of what was put in, byte for byte and in order, whatever sizes *)
(* the reads, the short writes and the kernel's buffers have (Pump, and the *)
(* worker's copy_channel_to_stdout).                                        *)
THEOREM RelayConveysBytes == Spec => BytesAreRelayed
<1>1. Init => Output!Init /\ Input!Init
  BY DEF Init, Output!Init, Input!Init
<1>2. IInv /\ IInv' /\ [Next]_vars => [Output!Put \/ Output!Take]_<<said, out>>
  BY OutputMoves
<1>3. IInv /\ IInv' /\ [Next]_vars => [Input!Put \/ Input!Take]_<<typed, got>>
  BY InputMoves
<1> QED  BY <1>1, <1>2, <1>3, RelayKeepsCount, PTL DEF Spec, BytesAreRelayed, Output!Spec, Input!Spec

(* No direction is ended ahead of its last byte: a relay that ends well has *)
(* written all the daemon said while anybody read its stdout, one that gave *)
(* up saw nothing delivered for a whole window, and the half-close follows  *)
(* all of what stdin held (relay, StdoutWorker::finish).                    *)
THEOREM RelayCutsNothingShort == Spec => []NothingIsCutShort
<1>1. ASSUME IInv
      PROVE  NothingIsCutShort
  <2>1. relay.result = "ok" => out = said \/ stdout.end = "left"
    BY <1>1 DEF IInv, WorkerIsTrue
  <2>2. relay.result = "TimedOut" => quiet >= Window
    BY <1>1 DEF IInv, ClockIsTrue
  <2>3. relay.halfClosed /\ stdin.end = "hup" /\ daemon # "closed" => got \o up = typed
    <3> SUFFICES ASSUME relay.halfClosed, stdin.end = "hup", daemon # "closed"
                 PROVE  got \o up = typed
      OBVIOUS
    <3>1. up \in Bytes /\ got \in Bytes /\ <<>> \in Bytes
      BY <1>1, EmptySeq DEF IInv, TypeOK, StreamsOK, Bytes
    <3>2. toSocket = <<>> /\ stdin.held = <<>>
      BY <1>1 DEF IInv, StdinIsRead
    <3>3. typed = got ++ (up ++ (<<>> ++ <<>>))
      BY <1>1, <3>2 DEF IInv, InputKept
    <3>4. <<>> ++ <<>> = <<>> /\ up ++ <<>> = up
      BY <3>1, NoBytes
    <3> QED  BY <3>3, <3>4 DEF ++
  <2> QED  BY <2>1, <2>2, <2>3 DEF NothingIsCutShort
<1> QED  BY <1>1, RelayKeepsCount, PTL
=============================================================================
