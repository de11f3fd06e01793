---------------------------- MODULE DaemonProofs ----------------------------
(***************************************************************************)
(* Proofs about the session daemon, for every number of clients and        *)
(* connections and every cap: its variables keep their types, and it holds *)
(* a descriptor for the client and the pending connection only; then, of   *)
(* what is typed, that it reaches the terminal exactly once; last, of what *)
(* daemon and clients say to each other, that the two ends never disagree  *)
(* about the input offset and that no client, however slow, has output     *)
(* queued deeper than MAX_PENDING_WRITE.                                   *)
(***************************************************************************)
EXTENDS DaemonProperties, SequenceTheorems, TLAPS

(* What a handler takes on trust about the connection that has not greeted: *)
(* a snapshot that saw one, or the slot free, is still right about it when  *)
(* the handler it is for runs, and a greeting being settled is its.         *)
SnapshotHolds ==
  /\ ready["pending"] /\ pc \in 0 .. 4 => pending # NoConn
  /\ ready["listener"] /\ pc \in 0 .. 5 => pending = NoConn
  /\ reading \in {"drain", "greet"} => pending # NoConn
  /\ reading \in {"drain", "greet"} => pc = 5
  /\ pc \in {Waiting, Stopping} => reading = "no"

IInv == TypeOK /\ NoConnectionLeaks /\ SnapshotHolds

-----------------------------------------------------------------------------
(* Connections *)

(* Queueing for a connection changes neither its type nor its standing.     *)
LEMMA SentIsConnection ==
  ASSUME NEW k \in Connection, NEW f \in ServerFrame
  PROVE  /\ Sent(k, f) \in Connection
         /\ Sent(k, f).pos = k.pos /\ Sent(k, f).hello = k.hello
         /\ Sent(k, f).rx = k.rx
<1>1. Append(k.tx, f) \in Seq(ServerFrame)
  BY DEF Connection
<1> QED  BY <1>1 DEF Sent, Connection

LEMMA DropFirstIsSeq ==
  ASSUME NEW S, NEW s \in Seq(S), NEW n \in Nat
  PROVE  DropFirst(s, n) \in Seq(S)
<1>1. Len(s) \in Nat /\ \A i \in n + 1 .. Len(s) : s[i] \in S
  BY LenProperties, ElementOfSeq
<1> QED  BY <1>1, SubSeqProperties DEF DropFirst

LEMMA TakeFirstIsSeq ==
  ASSUME NEW S, NEW s \in Seq(S), NEW n \in 0 .. Len(s)
  PROVE  SubSeq(s, 1, n) \in Seq(S)
<1>1. Len(s) \in Nat /\ \A i \in 1 .. n : s[i] \in S
  BY LenProperties, ElementOfSeq
<1> QED  BY <1>1, SubSeqProperties

(* What the kernel takes of a send queue leaves a connection, where it was. *)
LEMMA WrittenIsConnection ==
  ASSUME NEW k \in Connection, NEW n \in 0 .. Queued(k)
  PROVE  /\ Written(k, n) \in Connection
         /\ Written(k, n).pos = k.pos
<1>1. k.tx \in Seq(ServerFrame) /\ k.down \in Seq(ServerFrame)
  BY DEF Connection
<1>2. n \in Nat /\ n \in 0 .. Len(k.tx)
  BY <1>1, LenProperties DEF Queued
<1>3. DropFirst(k.tx, n) \in Seq(ServerFrame)
  BY <1>1, <1>2, DropFirstIsSeq
<1>4. k.down \o SubSeq(k.tx, 1, n) \in Seq(ServerFrame)
  BY <1>1, <1>2, TakeFirstIsSeq, ConcatProperties
<1> QED  BY <1>3, <1>4 DEF Written, Connection

LEMMA RoomIsNat ==
  ASSUME NEW k \in Connection
  PROVE  /\ SmallerOf(Room(k), Queued(k)) \in 0 .. Queued(k)
         /\ Queued(k) \in Nat
<1>1. Len(k.down) \in Nat /\ Queued(k) \in Nat
  BY LenProperties DEF Connection, Queued
<1> DEFINE d == Len(k.down)
           q == Queued(k)
<1>2. Room(k) = IF k.peer = "gone" THEN 0 ELSE IF 0 < SockCap - d THEN SockCap - d ELSE 0
  BY DEF Room, LargerOf
<1> HIDE DEF d, q
<1>3. d \in Nat /\ q \in Nat
  BY <1>1 DEF d, q
<1>4. Room(k) \in Nat
  BY <1>2, <1>3, BoundsAssumption
<1> QED  BY <1>3, <1>4 DEF SmallerOf, q

LEMMA FlushedIsConnection ==
  ASSUME NEW k \in Connection
  PROVE  Flushed(k) \in Connection /\ Flushed(k).pos = k.pos
BY RoomIsNat, WrittenIsConnection DEF Flushed

LEMMA ClosedIsConnection ==
  ASSUME NEW k \in Connection
  PROVE  Closed(k) \in Connection /\ Closed(k).pos = "closed"
<1>1. <<>> \in Seq(ServerFrame) /\ <<>> \in Seq(ClientFrame)
  BY EmptySeq
<1> QED  BY <1>1 DEF Closed, Connection

LEMMA FinalFlushesClose ==
  ASSUME NEW k \in Connection, NEW f \in FinalFlushes(k)
  PROVE  f \in Connection /\ f.pos = "closed"
<1>1. CASE f = Closed(k)
  BY <1>1, ClosedIsConnection
<1>2. CASE f # Closed(k)
  <2>1. PICK n \in SmallerOf(Room(k), Queued(k)) .. Queued(k) : f = Closed(Written(k, n))
    BY <1>2 DEF FinalFlushes
  <2>2. n \in 0 .. Queued(k)
    BY <2>1, RoomIsNat
  <2> QED  BY <2>1, <2>2, WrittenIsConnection, ClosedIsConnection
<1> QED  BY <1>1, <1>2

(* Conn::fill moves frames from the socket to the decoder, no more than it  *)
(* has room for, and leaves the connection's standing alone.                *)
LEMMA FilledIsConnection ==
  ASSUME NEW k \in Connection
  PROVE  /\ Filled(k) \in Connection
         /\ Filled(k).pos = k.pos /\ Filled(k).hello = k.hello
<1>1. CASE Buffered(k) >= MaxPendingRead
  BY <1>1 DEF Filled
<1>2. CASE ~ (Buffered(k) >= MaxPendingRead)
  <2> DEFINE u == Len(k.up)
             b == Buffered(k)
             n == SmallerOf(SmallerOf(FillMax, MaxPendingRead - b), u)
  <2>1. /\ k.up \in Seq(ClientFrame) /\ k.rx \in Seq(ClientFrame)
        /\ u \in Nat /\ b \in Nat
    BY LenProperties DEF Connection, Buffered
  <2>2. n \in 0 .. u
    <3> HIDE DEF u, b
    <3> QED  BY <1>2, <2>1, BoundsAssumption DEF SmallerOf, b
  <2>3. Filled(k) = [k EXCEPT !.rx = @ \o SubSeq(k.up, 1, n), !.up = DropFirst(@, n),
                              !.eof = k.up = <<>> /\ k.peer # "open"]
    BY <1>2 DEF Filled
  <2> HIDE DEF n
  <2>4. k.rx \o SubSeq(k.up, 1, n) \in Seq(ClientFrame)
    BY <2>1, <2>2, TakeFirstIsSeq, ConcatProperties
  <2>5. DropFirst(k.up, n) \in Seq(ClientFrame)
    BY <2>1, <2>2, DropFirstIsSeq
  <2>6. (k.up = <<>> /\ k.peer # "open") \in BOOLEAN
    OBVIOUS
  <2> QED  BY <2>3, <2>4, <2>5, <2>6 DEF Connection
<1> QED  BY <1>1, <1>2

(* The head of a connection's decoder is a client's frame, and taking it    *)
(* leaves a connection.                                                     *)
LEMMA TakenIsConnection ==
  ASSUME NEW cn \in [Conns -> Connection], NEW c \in Conns, cn[c].rx # <<>>
  PROVE  /\ Head(cn[c].rx) \in ClientFrame
         /\ [cn EXCEPT ![c].rx = Tail(@)] \in [Conns -> Connection]
         /\ \A d \in Conns : /\ [cn EXCEPT ![c].rx = Tail(@)][d].pos = cn[d].pos
                             /\ [cn EXCEPT ![c].rx = Tail(@)][d].hello = cn[d].hello
<1>1. cn[c].rx \in Seq(ClientFrame)
  BY DEF Connection
<1>2. Head(cn[c].rx) \in ClientFrame /\ Tail(cn[c].rx) \in Seq(ClientFrame)
  BY <1>1, HeadTailProperties
<1> QED  BY ZenonT(30), <1>2 DEF Connection

(* A word or a half-close from the far end leaves the connection in place.  *)
LEMMA SpokenIsConnection ==
  ASSUME NEW k \in Connection, NEW t \in ClientSays, NEW w \in Sizes
  PROVE  Spoken(k, t, w) \in Connection /\ Spoken(k, t, w).pos = k.pos
<1> DEFINE f == [CF(t) EXCEPT !.size = IF t = "Resize" THEN w ELSE @]
           up == IF t = "Fin" THEN k.up ELSE Append(k.up, f)
<1>1. up \in Seq(ClientFrame)
  <2>1. CASE t = "Fin"
    BY <2>1 DEF Connection
  <2>2. CASE t # "Fin"
    <3>1. f \in ClientFrame
      BY <2>2, NamesAssumption DEF Leavings, CF, ClientFrame, ClientFrameTypes
    <3> HIDE DEF f
    <3> QED  BY <2>2, <3>1 DEF Connection
  <2> QED  BY <2>1, <2>2
<1> HIDE DEF f
<1>2. Spoken(k, t, w) =
        [k EXCEPT !.up = up, !.peer = IF t \in {"Fin", "Part"} THEN "fin" ELSE k.peer]
  BY DEF Spoken, f, Connection
<1> HIDE DEF up
<1> QED  BY <1>1, <1>2 DEF Connection

LEMMA ServerFrames ==
  ASSUME NEW t \in ServerFrameTypes, NEW at \in Nat, NEW n \in Nat
  PROVE  SF(t, at, n) \in ServerFrame
BY DEF SF, ServerFrame

-----------------------------------------------------------------------------
(* What a step does to the set of connections the daemon holds *)

(* A change of the connections that moves none of them.                     *)
SameStanding(cn) ==
  /\ cn \in [Conns -> Connection]
  /\ \A c \in Conns : cn[c].pos = conn[c].pos

(* Replacing a connection by one that stands where it stood.                *)
LEMMA ReplacedStands ==
  ASSUME NEW cn, SameStanding(cn), NEW c \in Conns,
         NEW k \in Connection, k.pos = conn[c].pos
  PROVE  SameStanding([cn EXCEPT ![c] = k])
BY DEF SameStanding

LEMMA TellStands ==
  ASSUME NEW cn, SameStanding(cn), NEW f \in ServerFrame, client \in Conns
  PROVE  SameStanding(Tell(cn, f))
<1>1. cn[client] \in Connection /\ cn[client].pos = conn[client].pos
  BY DEF SameStanding
<1> QED  BY <1>1, SentIsConnection, ReplacedStands DEF Tell

(* drop_client closes the client's connection and frees its place.          *)
LEMMA DropFrees ==
  ASSUME ConnectionsOK, NoConnectionLeaks, NEW cn, SameStanding(cn),
         client # NoConn, Drop(cn)
  PROVE  /\ client' = NoConn /\ att' \in Attachment /\ idleDue' = FALSE
         /\ conn' \in [Conns -> Connection]
         /\ {c \in Conns : conn'[c].pos = "held"} = {pending} \ {NoConn}
<1>1. client \in Conns /\ cn[client] \in Connection
  BY DEF ConnectionsOK, SameStanding
<1> DEFINE k == Closed(Flushed(cn[client]))
<1>2. k \in Connection /\ k.pos = "closed"
  BY <1>1, FlushedIsConnection, ClosedIsConnection
<1> HIDE DEF k
<1>3. conn' = [cn EXCEPT ![client] = k]
  BY DEF Drop, k
<1>4. conn' \in [Conns -> Connection]
  BY <1>1, <1>2, <1>3 DEF SameStanding
<1>5. \A c \in Conns : conn'[c].pos = "held" <=> conn[c].pos = "held" /\ c # client
  BY <1>1, <1>2, <1>3 DEF SameStanding
<1>6. {c \in Conns : conn'[c].pos = "held"} = {pending} \ {NoConn}
  BY <1>5 DEF NoConnectionLeaks, ConnectionsOK, NoConn, Conns
<1>7. att' \in Attachment
  BY DEF Drop, NoAtt, Attachment
<1> QED  BY <1>4, <1>6, <1>7 DEF Drop

LEMMA RejectFrees ==
  ASSUME ConnectionsOK, NoConnectionLeaks, NEW cn, SameStanding(cn),
         client # NoConn, NEW code \in Refusals, Reject(cn, code)
  PROVE  /\ client' = NoConn /\ att' \in Attachment /\ idleDue' = FALSE
         /\ conn' \in [Conns -> Connection]
         /\ {c \in Conns : conn'[c].pos = "held"} = {pending} \ {NoConn}
<1>1. SF(code, 0, 0) \in ServerFrame /\ client \in Conns
  BY ServerFrames DEF ServerFrameTypes, ConnectionsOK
<1>2. SameStanding(Tell(cn, SF(code, 0, 0)))
  BY <1>1, TellStands
<1> QED  BY <1>2, DropFrees DEF Reject

(* A connection the slot lets go of is closed, and the slot is free.        *)
LEMMA DismissFrees ==
  ASSUME ConnectionsOK, NoConnectionLeaks, NEW cn, SameStanding(cn), pending # NoConn,
         NEW k \in Connection, k.pos = "closed", Dismiss(cn, k)
  PROVE  /\ pending' = NoConn /\ pendDue' = FALSE
         /\ conn' \in [Conns -> Connection]
         /\ {c \in Conns : conn'[c].pos = "held"} = {client} \ {NoConn}
<1>1. pending \in Conns
  BY DEF ConnectionsOK
<1>2. conn' = [cn EXCEPT ![pending] = k] /\ conn' \in [Conns -> Connection]
  BY <1>1 DEF Dismiss, SameStanding
<1>3. \A c \in Conns : conn'[c].pos = "held" <=> conn[c].pos = "held" /\ c # pending
  BY <1>1, <1>2 DEF SameStanding
<1>4. {c \in Conns : conn'[c].pos = "held"} = {client} \ {NoConn}
  BY <1>3 DEF NoConnectionLeaks, ConnectionsOK, NoConn, Conns
<1> QED  BY <1>2, <1>4 DEF Dismiss

LEMMA RejectPendingFrees ==
  ASSUME ConnectionsOK, NoConnectionLeaks, NEW cn, SameStanding(cn), pending # NoConn,
         NEW code \in Refusals, RejectPending(cn, code)
  PROVE  /\ pending' = NoConn /\ pendDue' = FALSE
         /\ conn' \in [Conns -> Connection]
         /\ {c \in Conns : conn'[c].pos = "held"} = {client} \ {NoConn}
<1>1. pending \in Conns /\ cn[pending] \in Connection /\ SF(code, 0, 0) \in ServerFrame
  BY ServerFrames DEF ServerFrameTypes, ConnectionsOK, SameStanding
<1>2. Sent(cn[pending], SF(code, 0, 0)) \in Connection
  BY <1>1, SentIsConnection
<1>3. PICK k \in FinalFlushes(Sent(cn[pending], SF(code, 0, 0))) : Dismiss(cn, k)
  BY DEF RejectPending
<1>4. k \in Connection /\ k.pos = "closed"
  BY <1>2, <1>3, FinalFlushesClose
<1> QED  BY <1>3, <1>4, DismissFrees

(* A step that moves no connection keeps the account of them straight.      *)
LEMMA StandingKeepsTheAccount ==
  ASSUME ConnectionsOK, NoConnectionLeaks, SameStanding(conn'),
         UNCHANGED <<client, pending>>
  PROVE  conn' \in [Conns -> Connection] /\ NoConnectionLeaks'
BY DEF SameStanding, NoConnectionLeaks

(* Nor does a step between two places that are not a descriptor's.          *)
SameHeld ==
  \A c \in Conns : conn'[c].pos = "held" <=> conn[c].pos = "held"

LEMMA SameHeldKeepsTheAccount ==
  ASSUME ConnectionsOK, NoConnectionLeaks, SameHeld, UNCHANGED <<client, pending>>
  PROVE  NoConnectionLeaks'
BY DEF SameHeld, NoConnectionLeaks

LEMMA DialIsBacklog ==
  ASSUME ConnectionsOK, NEW c \in Oldest(Unused), NEW who \in Clients \cup {Prober},
         NEW hello \in Hello, NEW up \in Seq(ClientFrame), Dial(c, who, hello, up)
  PROVE  conn' \in [Conns -> Connection] /\ SameHeld
<1>1. c \in Conns /\ conn[c].pos = "free"
  BY DEF Oldest, Unused
<1> DEFINE k == [FreeConn EXCEPT !.own = who, !.pos = "backlog", !.hello = hello, !.up = up]
<1>2. k \in Connection /\ k.pos = "backlog"
  BY EmptySeq DEF FreeConn, Connection
<1> HIDE DEF k
<1>3. conn' = [conn EXCEPT ![c] = k]
  BY DEF Dial, k
<1> QED  BY <1>1, <1>2, <1>3 DEF ConnectionsOK, SameHeld

(* read_client's one read: the client is kept where it stands, or dropped.  *)
LEMMA FillClientAccounts ==
  ASSUME ConnectionsOK, NoConnectionLeaks, NEW cn, SameStanding(cn), NEW next,
         FillClient(cn, next), UNCHANGED <<pending, pendDue, graceDue>>
  PROVE  /\ ConnectionsOK' /\ NoConnectionLeaks'
         /\ reading' \in {next, IF next = "drain" THEN "greet" ELSE "no"}
<1>1. CASE client = NoConn
  <2>1. client \notin Conns
    BY <1>1 DEF NoConn, Conns
  <2>2. conn' = cn
    BY <2>1 DEF FillClient, Drop, SameStanding
  <2>3. client' = NoConn /\ att' \in Attachment /\ idleDue' \in BOOLEAN
    <3>1. NoAtt \in Attachment
      BY DEF NoAtt, Attachment
    <3>2. CASE Drop(cn)
      BY <3>1, <3>2 DEF Drop
    <3>3. CASE UNCHANGED <<client, att, idleDue>>
      BY <1>1, <3>3 DEF ConnectionsOK
    <3> QED  BY <3>2, <3>3 DEF FillClient
  <2>4. ConnectionsOK'
    BY <2>2, <2>3 DEF SameStanding, ConnectionsOK
  <2>5. NoConnectionLeaks'
    BY <1>1, <2>2, <2>3 DEF SameStanding, NoConnectionLeaks
  <2> QED  BY <2>4, <2>5 DEF FillClient
<1>2. CASE client # NoConn /\ Drop(cn)
  <2>1. /\ client' = NoConn /\ att' \in Attachment /\ idleDue' = FALSE
        /\ conn' \in [Conns -> Connection]
        /\ {c \in Conns : conn'[c].pos = "held"} = {pending} \ {NoConn}
    BY <1>2, DropFrees
  <2>2. ConnectionsOK' /\ NoConnectionLeaks'
    BY <2>1 DEF ConnectionsOK, NoConnectionLeaks
  <2> QED  BY <2>2 DEF FillClient
<1>3. CASE /\ client # NoConn
           /\ conn' = [cn EXCEPT ![client] = IF @.eof THEN @ ELSE Filled(@)]
           /\ UNCHANGED <<client, att, idleDue>>
  <2>1. client \in Conns /\ cn[client] \in Connection /\ cn[client].pos = conn[client].pos
    BY <1>3 DEF ConnectionsOK, SameStanding
  <2> DEFINE k == IF cn[client].eof THEN cn[client] ELSE Filled(cn[client])
  <2>2. k \in Connection /\ k.pos = conn[client].pos
    BY <2>1, FilledIsConnection
  <2> HIDE DEF k
  <2>3. conn' = [cn EXCEPT ![client] = k]
    BY <1>3 DEF k
  <2>4. SameStanding(conn')
    BY <2>1, <2>2, <2>3, ReplacedStands
  <2>5. ConnectionsOK' /\ NoConnectionLeaks'
    BY <1>3, <2>4, StandingKeepsTheAccount DEF ConnectionsOK
  <2> QED  BY <2>5 DEF FillClient
<1> QED  BY <1>1, <1>2, <1>3 DEF FillClient

LEMMA RejectAccounts ==
  ASSUME ConnectionsOK, NoConnectionLeaks, NEW cn, SameStanding(cn), client # NoConn,
         NEW code \in Refusals, Reject(cn, code),
         UNCHANGED <<pending, pendDue, graceDue>>
  PROVE  ConnectionsOK' /\ NoConnectionLeaks'
<1>1. /\ client' = NoConn /\ att' \in Attachment /\ idleDue' = FALSE
      /\ conn' \in [Conns -> Connection]
      /\ {c \in Conns : conn'[c].pos = "held"} = {pending} \ {NoConn}
  BY RejectFrees
<1> QED  BY <1>1 DEF ConnectionsOK, NoConnectionLeaks

LEMMA TellAccounts ==
  ASSUME ConnectionsOK, NoConnectionLeaks, NEW cn, SameStanding(cn), client # NoConn,
         NEW f \in ServerFrame, conn' = Tell(cn, f),
         UNCHANGED <<client, att, idleDue, pending, pendDue, graceDue>>
  PROVE  ConnectionsOK' /\ NoConnectionLeaks'
<1>1. SameStanding(conn')
  BY TellStands DEF ConnectionsOK
<1> QED  BY <1>1, StandingKeepsTheAccount DEF ConnectionsOK

(* pump_output's share of the stream is frames at offsets of the stream.    *)
LEMMA StreamedIsOutput ==
  ASSUME TypeOK, client \in Conns
  PROVE  /\ Streamed.frames \in Seq(ServerFrame) /\ Streamed.sent \in Nat
         /\ Streamed.gap \in BOOLEAN
<1> DEFINE from == LargerOf(att.sent, base)
           n == SmallerOf(PumpRoom, end - from)
<1>1. base \in Nat /\ end \in Nat /\ att.sent \in Nat /\ from \in Nat
  BY DEF TypeOK, StreamsOK, ConnectionsOK, Attachment, LargerOf
<1>2. PumpRoom \in Nat
  <2>1. GapFrames \in Seq(ServerFrame) /\ Queued(conn[client]) \in Nat
    <3>1. SF("Gap", base, 0) \in ServerFrame
      BY <1>1, ServerFrames DEF ServerFrameTypes
    <3> QED  BY <3>1, EmptySeq, RoomIsNat DEF GapFrames, TypeOK, ConnectionsOK
  <2>2. Len(GapFrames) \in Nat
    BY <2>1, LenProperties
  <2> QED  BY <2>1, <2>2, BoundsAssumption DEF PumpRoom, LargerOf
<1>3. CASE att.sent < end /\ Queued(conn[client]) < MaxPendingWrite
  <2>1. n \in Int /\ from + n \in Nat
    BY <1>1, <1>2 DEF SmallerOf
  <2> HIDE DEF from, n
  <2>2. Outputs(from, n) \in Seq(ServerFrame)
    <3>1. CASE n \in Nat
      <4>1. \A i \in 1 .. n : SF("Output", from + i - 1, 0) \in ServerFrame
        BY <1>1, <3>1, ServerFrames DEF ServerFrameTypes
      <4> QED  BY <3>1, <4>1, IsASeq DEF Outputs
    <3>2. CASE n \notin Nat
      <4>1. 1 .. n = {}
        BY <2>1, <3>2
      <4>2. Outputs(from, n) = <<>>
        BY <4>1 DEF Outputs
      <4> QED  BY <4>2, EmptySeq
    <3> QED  BY <3>1, <3>2
  <2>3. GapFrames \in Seq(ServerFrame)
    <3>1. SF("Gap", base, 0) \in ServerFrame
      BY <1>1, ServerFrames DEF ServerFrameTypes
    <3> QED  BY <3>1, EmptySeq DEF GapFrames
  <2>4. Streamed = [frames |-> GapFrames \o Outputs(from, n), sent |-> from + n,
                    gap |-> att.sent < base]
    BY <1>3 DEF Streamed, from, n
  <2> QED  BY <2>1, <2>2, <2>3, <2>4, ConcatProperties
<1>4. CASE ~ (att.sent < end /\ Queued(conn[client]) < MaxPendingWrite)
  <2>1. Streamed = [frames |-> <<>>, sent |-> att.sent, gap |-> FALSE]
    BY <1>4 DEF Streamed
  <2> QED  BY <1>1, <2>1, EmptySeq
<1> QED  BY <1>3, <1>4

(* on_hello resumes a client at an offset, whatever it claims to hold.      *)
LEMMA GreetedIsAttachment ==
  ASSUME TypeOK, NEW h \in Hello
  PROVE  ResumeFrom(h) \in Nat /\ Greeted(h) \in Attachment
<1>1. base \in Nat /\ end \in Nat /\ h.out \in Nat \cup {RESUME_FROM_START}
  BY DEF TypeOK, StreamsOK, Hello
<1>2. ResumeFrom(h) \in Nat
  BY <1>1 DEF ResumeFrom, LargerOf, SmallerOf
<1> DEFINE due == h.out # RESUME_FROM_START /\ ResumeFrom(h) > h.out
           l == h.kind = "ctrl_l"
<1>3. due \in BOOLEAN /\ l \in BOOLEAN
  OBVIOUS
<1>4. Greeted(h) = [sent |-> ResumeFrom(h), endSent |-> FALSE, ctrlL |-> l,
                    repaintDue |-> due]
  BY DEF Greeted
<1> HIDE DEF due, l
<1> QED  BY <1>2, <1>3, <1>4 DEF Attachment

(* evict closes the incumbent and no one else.                              *)
LEMMA EvictionsLeaveThePending ==
  ASSUME ConnectionsOK, NoConnectionLeaks, pending \in Conns, pending # NoConn,
         NEW cn \in Evictions
  PROVE  /\ cn \in [Conns -> Connection] /\ cn[pending] = conn[pending]
         /\ {c \in Conns : cn[c].pos = "held"} = {pending}
         /\ client # NoConn => cn[client].pos = "closed"
<1>1. CASE client = NoConn
  <2>1. cn = conn
    BY <1>1 DEF Evictions
  <2> QED  BY <1>1, <2>1 DEF ConnectionsOK, NoConnectionLeaks
<1>2. CASE client # NoConn
  <2>1. client \in Conns /\ conn[client] \in Connection /\ client # pending
    BY <1>2 DEF ConnectionsOK, NoConnectionLeaks
  <2>2. SF("Takeover", 0, 0) \in ServerFrame
    BY ServerFrames DEF ServerFrameTypes, Refusals
  <2>3. PICK k \in FinalFlushes(Sent(conn[client], SF("Takeover", 0, 0))) :
          cn = [conn EXCEPT ![client] = k]
    BY <1>2 DEF Evictions
  <2>4. k \in Connection /\ k.pos = "closed"
    BY <2>1, <2>2, <2>3, SentIsConnection, FinalFlushesClose
  <2>5. cn \in [Conns -> Connection] /\ cn[pending] = conn[pending]
    BY <2>1, <2>3, <2>4 DEF ConnectionsOK
  <2>6. \A c \in Conns : cn[c].pos = "held" <=> conn[c].pos = "held" /\ c # client
    BY <2>1, <2>3, <2>4 DEF ConnectionsOK
  <2>7. {c \in Conns : cn[c].pos = "held"} = {pending}
    BY <2>1, <2>6 DEF NoConnectionLeaks
  <2>8. cn[client].pos = "closed"
    BY <2>1, <2>3, <2>4 DEF ConnectionsOK
  <2> QED  BY <2>5, <2>7, <2>8
<1> QED  BY <1>1, <1>2

(* A snapshot is of booleans, and one that speaks of a pending connection saw one. *)
LEMMA PollKeepsIInv ==
  ASSUME IInv, Poll
  PROVE  IInv'
<1>1. LoopOK'
  <2>1. ready' \in [{"pty", "client", "hup", "pending", "listener"} -> BOOLEAN]
    <3>1. \A s \in DOMAIN ready : Snapshot(s) \in BOOLEAN
      BY DEF Snapshot
    <3> QED  BY <3>1 DEF IInv, TypeOK, LoopOK, Poll
  <2>2. childSignalled' \in BOOLEAN
    BY DEF IInv, TypeOK, LoopOK, TerminalOK, Poll
  <2>3. pc' = 1 /\ stop' \in {stop, "signalled"} /\ UNCHANGED <<reading, acceptRetry>>
    BY DEF Poll
  <2> QED  BY <2>1, <2>2, <2>3 DEF IInv, TypeOK, LoopOK, Exited
<1>2. StreamsOK'
  BY DEF IInv, TypeOK, StreamsOK, Poll, ringVars, inVars, termVars, winVars,
         attVars, dueVars, kernelVars, Fault
<1>3. TerminalOK'
  BY DEF IInv, TypeOK, TerminalOK, Poll, ringVars, inVars, termVars, winVars,
         attVars, dueVars, kernelVars, Fault
<1>4. ConnectionsOK' /\ NoConnectionLeaks'
  BY DEF IInv, TypeOK, ConnectionsOK, NoConnectionLeaks, Poll, ringVars, inVars,
         termVars, winVars, attVars, dueVars, kernelVars, Fault
<1>5. ProgramsOK'
  BY BoundsAssumption DEF IInv, TypeOK, ProgramsOK, Poll, ringVars, inVars,
         termVars, winVars, attVars, dueVars, kernelVars, Fault
<1>6. SnapshotHolds'
  <2>1. UNCHANGED <<reading, pending>> /\ pc = 0
    BY DEF Poll, attVars, Waiting
  <2>2. /\ ready'["pending"] => pending # NoConn
        /\ ready'["listener"] => pending = NoConn
    BY <2>1 DEF IInv, TypeOK, LoopOK, SnapshotHolds, Poll, Snapshot
  <2> QED  BY <2>1, <2>2 DEF IInv, SnapshotHolds, Poll, Waiting, Stopping
<1> QED  BY <1>1, <1>2, <1>3, <1>4, <1>5, <1>6 DEF IInv, TypeOK

(* A pass that ends lets go of a connection whose time to greet is up. *)
LEMMA EndPassKeepsIInv ==
  ASSUME IInv, EndPass
  PROVE  IInv'
<1>1. LoopOK'
  BY DEF IInv, TypeOK, LoopOK, Waiting, Stopping, Exited, EndPass, ringVars,
         inVars, termVars, winVars, shellVars, kernelVars
<1>2. StreamsOK'
  BY DEF IInv, TypeOK, StreamsOK, EndPass, ringVars, inVars, termVars, winVars,
         shellVars, kernelVars
<1>3. TerminalOK'
  BY DEF IInv, TypeOK, TerminalOK, EndPass, ringVars, inVars, termVars, winVars,
         shellVars, kernelVars
<1>4. ConnectionsOK' /\ NoConnectionLeaks'
  <2>1. CASE UNCHANGED <<pending, conn, pendDue>>
    BY <2>1 DEF IInv, TypeOK, ConnectionsOK, NoConnectionLeaks, EndPass
  <2>2. CASE /\ pending' = IF pendDue THEN NoConn ELSE pending
             /\ conn' = IF pendDue THEN [conn EXCEPT ![pending] = Closed(@)] ELSE conn
             /\ pendDue' = FALSE
    <3>1. CASE ~ pendDue
      BY <2>2, <3>1 DEF IInv, TypeOK, ConnectionsOK, NoConnectionLeaks, EndPass
    <3>2. CASE pendDue /\ pending = NoConn
      <4>1. conn' = conn
        BY <2>2, <3>2 DEF IInv, TypeOK, ConnectionsOK, Conns, NoConn
      <4> QED
        BY <2>2, <3>2, <4>1 DEF IInv, TypeOK, ConnectionsOK, NoConnectionLeaks, EndPass
    <3>3. CASE pendDue /\ pending # NoConn
      <4>1. /\ conn[pending] \in Connection /\ SameStanding(conn)
            /\ Dismiss(conn, Closed(conn[pending]))
        BY <2>2, <3>3 DEF IInv, TypeOK, ConnectionsOK, SameStanding, Dismiss
      <4>2. /\ pending' = NoConn /\ conn' \in [Conns -> Connection]
            /\ {c \in Conns : conn'[c].pos = "held"} = {client} \ {NoConn}
        BY <3>3, <4>1, ClosedIsConnection, DismissFrees DEF IInv, TypeOK
      <4> QED
        BY <2>2, <4>2 DEF IInv, TypeOK, ConnectionsOK, NoConnectionLeaks, EndPass
    <3> QED  BY <3>1, <3>2, <3>3 DEF IInv, TypeOK, ConnectionsOK
  <2> QED  BY <2>1, <2>2 DEF EndPass
<1>5. ProgramsOK'
  BY BoundsAssumption DEF IInv, TypeOK, ProgramsOK, EndPass, ringVars, inVars,
         termVars, winVars, shellVars, kernelVars
<1>6. SnapshotHolds'
  BY DEF IInv, TypeOK, LoopOK, SnapshotHolds, EndPass, Waiting, Stopping
<1> QED  BY <1>1, <1>2, <1>3, <1>4, <1>5, <1>6 DEF IInv, TypeOK

(* The client hung up. *)
LEMMA HangUpKeepsIInv ==
  ASSUME IInv, HangUp
  PROVE  IInv'
<1>1. LoopOK'
  BY DEF IInv, TypeOK, LoopOK, Waiting, Stopping, Exited, HangUp, ringVars,
         inVars, termVars, winVars, shellVars, kernelVars, At
<1>2. StreamsOK'
  BY DEF IInv, TypeOK, StreamsOK, HangUp, ringVars, inVars, termVars, winVars,
         shellVars, kernelVars, At
<1>3. TerminalOK'
  BY DEF IInv, TypeOK, TerminalOK, HangUp, ringVars, inVars, termVars, winVars,
         shellVars, kernelVars, At
<1>4. ConnectionsOK' /\ NoConnectionLeaks'
  <2>1. client # NoConn /\ SameStanding(conn) /\ Drop(conn)
    BY DEF IInv, TypeOK, ConnectionsOK, SameStanding, HangUp, At, Work
  <2>2. /\ client' = NoConn /\ att' \in Attachment /\ idleDue' = FALSE
        /\ conn' \in [Conns -> Connection]
        /\ {c \in Conns : conn'[c].pos = "held"} = {pending} \ {NoConn}
    BY <2>1, DropFrees DEF IInv, TypeOK
  <2> QED  BY <2>2 DEF IInv, TypeOK, ConnectionsOK, NoConnectionLeaks, HangUp
<1>5. ProgramsOK'
  BY BoundsAssumption DEF IInv, TypeOK, ProgramsOK, HangUp, ringVars, inVars,
         termVars, winVars, shellVars, kernelVars, At
<1>6. SnapshotHolds'
  BY DEF IInv, SnapshotHolds, Waiting, Stopping, Exited, HangUp, ringVars, inVars,
         termVars, winVars, shellVars, kernelVars, At
<1> QED  BY <1>1, <1>2, <1>3, <1>4, <1>5, <1>6 DEF IInv, TypeOK

(* The terminal is read: output, its end, or a failure the client is told of. *)
LEMMA ReadPtyKeepsIInv ==
  ASSUME IInv, ReadPty
  PROVE  IInv'
<1>1. LoopOK'
  BY DEF IInv, TypeOK, LoopOK, Waiting, Stopping, Exited, ReadPty, ringVars,
         inVars, winVars, shellVars, Fault, At
<1>2. StreamsOK'
  <2>1. base' \in Nat /\ end' \in Nat
    <3>1. CASE Push(ptyOut)
      BY <3>1, BoundsAssumption DEF IInv, TypeOK, StreamsOK, TerminalOK, Push, LargerOf
    <3>2. CASE UNCHANGED ringVars
      BY <3>2 DEF IInv, TypeOK, StreamsOK, ringVars
    <3> QED  BY <3>1, <3>2 DEF ReadPty
  <2>2. dropped' \in BOOLEAN
    <3>1. LosesInput(pendIn) \in BOOLEAN
      BY DEF LosesInput
    <3> QED  BY <3>1 DEF IInv, TypeOK, StreamsOK, ReadPty, inVars
  <2>3. inApplied' = inApplied /\ fed' = fed /\ pendIn' \in {pendIn, <<>>}
    BY DEF ReadPty, inVars
  <2> QED  BY <2>1, <2>2, <2>3, EmptySeq DEF IInv, TypeOK, StreamsOK
<1>3. TerminalOK'
  <2>1. ptyOut' \in 0 .. PtyCap
    BY BoundsAssumption DEF IInv, TypeOK, TerminalOK, ReadPty
  <2>2. closed' \in BOOLEAN
    BY DEF IInv, TypeOK, TerminalOK, ReadPty
  <2>3. UNCHANGED <<pty, observed, outcome, winVars, shellVars, ptyIn, ptyWin, sigterm>>
    BY DEF ReadPty
  <2> QED  BY <2>1, <2>2, <2>3 DEF IInv, TypeOK, TerminalOK, winVars, shellVars
<1>4. ConnectionsOK' /\ NoConnectionLeaks'
  <2>1. UNCHANGED <<pending, pendDue, graceDue>>
    BY DEF ReadPty
  <2>2. CASE UNCHANGED <<client, att, conn, idleDue>>
    BY <2>1, <2>2 DEF IInv, TypeOK, ConnectionsOK, NoConnectionLeaks
  <2>3. CASE client # NoConn /\ Reject(conn, "Internal")
    <3>1. SameStanding(conn) /\ "Internal" \in Refusals
      BY DEF IInv, TypeOK, ConnectionsOK, SameStanding, Refusals
    <3>2. /\ client' = NoConn /\ att' \in Attachment /\ idleDue' = FALSE
          /\ conn' \in [Conns -> Connection]
          /\ {c \in Conns : conn'[c].pos = "held"} = {pending} \ {NoConn}
      BY <2>3, <3>1, RejectFrees DEF IInv, TypeOK
    <3> QED  BY <2>1, <3>2 DEF IInv, TypeOK, ConnectionsOK, NoConnectionLeaks
  <2> QED  BY <2>2, <2>3 DEF ReadPty
<1>5. ProgramsOK'
  BY BoundsAssumption DEF IInv, TypeOK, ProgramsOK, ReadPty, ringVars, inVars,
         winVars, shellVars, Fault, At
<1>6. SnapshotHolds'
  BY DEF IInv, SnapshotHolds, Waiting, Stopping, Exited, ReadPty, ringVars, inVars,
         winVars, shellVars, Fault, At
<1> QED  BY <1>1, <1>2, <1>3, <1>4, <1>5, <1>6 DEF IInv, TypeOK

(* The size is set, or refused. *)
LEMMA ApplyWinKeepsIInv ==
  ASSUME IInv, ApplyWin
  PROVE  IInv'
<1>1. LoopOK'
  BY DEF IInv, TypeOK, LoopOK, Waiting, Stopping, Exited, ApplyWin, ringVars,
         inVars, termVars, attVars, dueVars, shellVars, Fault, At
<1>2. StreamsOK'
  BY DEF IInv, TypeOK, StreamsOK, ApplyWin, ringVars, inVars, termVars, attVars,
         dueVars, shellVars, Fault, At
<1>3. TerminalOK'
  BY DEF IInv, TypeOK, TerminalOK, ApplyWin, ringVars, inVars, termVars,
         attVars, dueVars, shellVars, Fault, At
<1>4. ConnectionsOK' /\ NoConnectionLeaks'
  BY DEF IInv, TypeOK, ConnectionsOK, NoConnectionLeaks, ApplyWin, ringVars,
         inVars, termVars, attVars, dueVars, shellVars, Fault, At
<1>5. ProgramsOK'
  BY BoundsAssumption DEF IInv, TypeOK, ProgramsOK, ApplyWin, ringVars, inVars,
         termVars, attVars, dueVars, shellVars, Fault, At
<1>6. SnapshotHolds'
  BY DEF IInv, SnapshotHolds, Waiting, Stopping, Exited, ApplyWin, ringVars, inVars,
         termVars, attVars, dueVars, shellVars, Fault, At
<1> QED  BY <1>1, <1>2, <1>3, <1>4, <1>5, <1>6 DEF IInv, TypeOK

(* The terminal takes what fits, or the queue is lost. *)
LEMMA WritePtyKeepsIInv ==
  ASSUME IInv, WritePty
  PROVE  IInv'
<1>1. LoopOK'
  BY DEF IInv, TypeOK, LoopOK, Waiting, Stopping, Exited, WritePty, ringVars,
         termVars, winVars, attVars, dueVars, shellVars, At
<1>2. StreamsOK'
  <2> DEFINE n == SmallerOf(PtyCap - ptyIn, Len(pendIn))
  <2>1. LosesInput(pendIn) \in BOOLEAN /\ <<>> \in Seq(Nat \cup {CtrlL})
    BY DEF LosesInput
  <2>2. n \in 0 .. Len(pendIn) /\ n \in Nat
    <3>1. Len(pendIn) \in Nat
      BY LenProperties DEF IInv, TypeOK, StreamsOK
    <3> QED  BY <3>1, BoundsAssumption DEF IInv, TypeOK, TerminalOK, SmallerOf
  <2> HIDE DEF n
  <2>3. /\ DropFirst(pendIn, n) \in Seq(Nat \cup {CtrlL})
        /\ fed \o SubSeq(pendIn, 1, n) \in Seq(Nat \cup {CtrlL})
    BY <2>2, DropFirstIsSeq, TakeFirstIsSeq, ConcatProperties
    DEF IInv, TypeOK, StreamsOK
  <2>4. /\ pendIn' \in {DropFirst(pendIn, n), <<>>}
        /\ fed' \in {fed \o SubSeq(pendIn, 1, n), fed}
        /\ dropped' \in {dropped, dropped \/ LosesInput(pendIn)}
        /\ UNCHANGED <<ringVars, inApplied>>
    BY DEF WritePty, n
  <2> QED  BY <2>1, <2>3, <2>4 DEF IInv, TypeOK, StreamsOK, ringVars
<1>3. TerminalOK'
  <2>1. ptyIn' \in 0 .. PtyCap
    <3>1. Len(pendIn) \in Nat
      BY LenProperties DEF IInv, TypeOK, StreamsOK
    <3> QED  BY <3>1, BoundsAssumption DEF IInv, TypeOK, TerminalOK, WritePty, SmallerOf
  <2> QED
    BY <2>1 DEF IInv, TypeOK, TerminalOK, WritePty, termVars, winVars, shellVars
<1>4. ConnectionsOK' /\ NoConnectionLeaks'
  BY DEF IInv, TypeOK, ConnectionsOK, NoConnectionLeaks, WritePty, ringVars,
         termVars, winVars, attVars, dueVars, shellVars, At
<1>5. ProgramsOK'
  BY BoundsAssumption DEF IInv, TypeOK, ProgramsOK, WritePty, ringVars,
         termVars, winVars, attVars, dueVars, shellVars, At
<1>6. SnapshotHolds'
  BY DEF IInv, SnapshotHolds, Waiting, Stopping, Exited, WritePty, ringVars, termVars,
         winVars, attVars, dueVars, shellVars, At
<1> QED  BY <1>1, <1>2, <1>3, <1>4, <1>5, <1>6 DEF IInv, TypeOK

(* The outcome is asked for. *)
LEMMA CollectOutcomeKeepsIInv ==
  ASSUME IInv, CollectOutcome
  PROVE  IInv'
<1>1. LoopOK'
  <2>1. pc' = 10
    BY DEF CollectOutcome, TryOutcome, At
  <2>2. childSignalled' \in BOOLEAN
    BY DEF CollectOutcome
  <2>3. UNCHANGED <<ready, reading, stop, acceptRetry>>
    BY DEF CollectOutcome
  <2> QED  BY <2>1, <2>2, <2>3 DEF IInv, TypeOK, LoopOK, Exited
<1>2. StreamsOK'
  BY DEF IInv, TypeOK, StreamsOK, CollectOutcome, TryOutcome, ringVars, inVars, winVars,
         attVars, dueVars, shellVars, kernelVars, Fault, At
<1>3. TerminalOK'
  BY DEF IInv, TypeOK, TerminalOK, CollectOutcome, TryOutcome, ringVars, inVars, winVars,
         attVars, dueVars, shellVars, kernelVars, Fault, At
<1>4. ConnectionsOK' /\ NoConnectionLeaks'
  BY DEF IInv, TypeOK, ConnectionsOK, NoConnectionLeaks, CollectOutcome, TryOutcome,
         ringVars, inVars, winVars, attVars, dueVars, shellVars, kernelVars,
         Fault, At
<1>5. ProgramsOK'
  BY BoundsAssumption DEF IInv, TypeOK, ProgramsOK, CollectOutcome, TryOutcome, ringVars,
         inVars, winVars, attVars, dueVars, shellVars, kernelVars, Fault, At
<1>6. SnapshotHolds'
  BY DEF IInv, SnapshotHolds, Waiting, Stopping, Exited, CollectOutcome, TryOutcome, ringVars,
         inVars, winVars, attVars, dueVars, shellVars, kernelVars, Fault, At
<1> QED  BY <1>1, <1>2, <1>3, <1>4, <1>5, <1>6 DEF IInv, TypeOK

(* Time passes, and raises one deadline. *)
LEMMA TickKeepsIInv ==
  ASSUME IInv, Tick
  PROVE  IInv'
<1>1. LoopOK'
  BY DEF IInv, TypeOK, LoopOK, Waiting, Stopping, Exited, Tick, IdleDeadline,
         PendingDeadline, OutcomeGrace, AcceptBackoff, TimeOnly, loopVars,
         ringVars, inVars, termVars, winVars, attVars, dueVars, shellVars,
         kernelVars
<1>2. StreamsOK'
  BY DEF IInv, TypeOK, StreamsOK, Tick, IdleDeadline, PendingDeadline,
         OutcomeGrace, AcceptBackoff, TimeOnly, loopVars, ringVars, inVars,
         termVars, winVars, attVars, dueVars, shellVars, kernelVars
<1>3. TerminalOK'
  BY DEF IInv, TypeOK, TerminalOK, Tick, IdleDeadline, PendingDeadline,
         OutcomeGrace, AcceptBackoff, TimeOnly, loopVars, ringVars, inVars,
         termVars, winVars, attVars, dueVars, shellVars, kernelVars
<1>4. ConnectionsOK' /\ NoConnectionLeaks'
  BY DEF IInv, TypeOK, ConnectionsOK, NoConnectionLeaks, Tick, IdleDeadline,
         PendingDeadline, OutcomeGrace, AcceptBackoff, TimeOnly, loopVars,
         ringVars, inVars, termVars, winVars, attVars, dueVars, shellVars,
         kernelVars
<1>5. ProgramsOK'
  BY DEF IInv, TypeOK, ProgramsOK, Tick, IdleDeadline, PendingDeadline,
         OutcomeGrace, AcceptBackoff, TimeOnly, loopVars, ringVars, inVars,
         termVars, winVars, attVars, dueVars, shellVars, kernelVars
<1>6. SnapshotHolds'
  BY DEF IInv, SnapshotHolds, Waiting, Stopping, Exited, Tick, IdleDeadline,
         PendingDeadline, OutcomeGrace, AcceptBackoff, TimeOnly, loopVars,
         ringVars, inVars, termVars, winVars, attVars, dueVars, shellVars,
         kernelVars
<1> QED  BY <1>1, <1>2, <1>3, <1>4, <1>5, <1>6 DEF IInv, TypeOK

(* The shell writes, reads, exits or lets go of the terminal. *)
LEMMA ShellStepKeepsIInv ==
  ASSUME IInv, ShellStep
  PROVE  IInv'
<1>1. LoopOK'
  BY ZenonT(30) DEF IInv, TypeOK, LoopOK, Waiting, Stopping, Exited, ShellStep, ChildWrite,
         ChildRead, ChildExit, SlaveClose, daemonVars, loopVars, ringVars,
         inVars, termVars, winVars, attVars, dueVars, shellVars, kernelVars
<1>2. StreamsOK'
  BY DEF IInv, TypeOK, StreamsOK, ShellStep, ChildWrite, ChildRead, ChildExit,
         SlaveClose, daemonVars, loopVars, ringVars, inVars, termVars, winVars,
         attVars, dueVars, shellVars, kernelVars
<1>3. TerminalOK'
  <2>a. ptyOut \in 0 .. PtyCap /\ ptyIn \in 0 .. PtyCap /\ PtyCap \in Nat
    BY BoundsAssumption DEF IInv, TypeOK, TerminalOK
  <2>b. \/ ptyOut < PtyCap /\ ptyOut' = ptyOut + 1
        \/ ptyOut' = ptyOut
    BY DEF ShellStep, ChildWrite, ChildRead, ChildExit, SlaveClose, kernelVars
  <2>c. ptyIn' = 0 \/ ptyIn' = ptyIn
    BY DEF ShellStep, ChildWrite, ChildRead, ChildExit, SlaveClose, kernelVars
  <2>1. ptyOut' \in 0 .. PtyCap
    BY <2>a, <2>b
  <2>2. ptyIn' \in 0 .. PtyCap
    BY <2>a, <2>c
  <2>3. slave' \in BOOLEAN
    BY DEF IInv, TypeOK, TerminalOK, ShellStep, ChildWrite, ChildRead,
       ChildExit, SlaveClose, shellVars
  <2>4. sigchld' \in BOOLEAN /\ child' \in {"none", "running", "exited"}
    BY DEF IInv, TypeOK, TerminalOK, ShellStep, ChildWrite, ChildRead,
       ChildExit, SlaveClose, shellVars
  <2>5. UNCHANGED <<termVars, winVars, ptyWin, sigterm>>
    BY DEF ShellStep, ChildWrite, ChildRead, ChildExit, SlaveClose,
       daemonVars, kernelVars
  <2> QED
    BY <2>1, <2>2, <2>3, <2>4, <2>5
    DEF IInv, TypeOK, TerminalOK, termVars, winVars
<1>4. ConnectionsOK' /\ NoConnectionLeaks'
  BY DEF IInv, TypeOK, ConnectionsOK, NoConnectionLeaks, ShellStep, ChildWrite,
         ChildRead, ChildExit, SlaveClose, daemonVars, loopVars, ringVars,
         inVars, termVars, winVars, attVars, dueVars, shellVars, kernelVars
<1>5. ProgramsOK'
  BY DEF IInv, TypeOK, ProgramsOK, ShellStep, ChildWrite, ChildRead, ChildExit,
         SlaveClose, daemonVars, loopVars, ringVars, inVars, termVars, winVars,
         attVars, dueVars, shellVars, kernelVars
<1>6. SnapshotHolds'
  BY DEF IInv, SnapshotHolds, Waiting, Stopping, Exited, ShellStep, ChildWrite,
         ChildRead, ChildExit, SlaveClose, daemonVars, loopVars, ringVars,
         inVars, termVars, winVars, attVars, dueVars, shellVars, kernelVars
<1> QED  BY <1>1, <1>2, <1>3, <1>4, <1>5, <1>6 DEF IInv, TypeOK

LEMMA SigTermKeepsIInv ==
  ASSUME IInv, SigTerm
  PROVE  IInv'
<1>1. LoopOK'
  BY DEF IInv, TypeOK, LoopOK, Waiting, Stopping, Exited, SigTerm, Fault, dueVars,
         shellVars, kernelVars, daemonVars, loopVars, ringVars, inVars,
         termVars, winVars, attVars
<1>2. StreamsOK'
  BY DEF IInv, TypeOK, StreamsOK, SigTerm, Fault, dueVars, shellVars, kernelVars,
         daemonVars, loopVars, ringVars, inVars, termVars, winVars, attVars
<1>3. TerminalOK'
  BY DEF IInv, TypeOK, TerminalOK, SigTerm, Fault, dueVars, shellVars, kernelVars,
         daemonVars, loopVars, ringVars, inVars, termVars, winVars, attVars
<1>4. ConnectionsOK' /\ NoConnectionLeaks'
  BY DEF IInv, TypeOK, ConnectionsOK, NoConnectionLeaks, SigTerm, Fault, dueVars,
         shellVars, kernelVars, daemonVars, loopVars, ringVars, inVars,
         termVars, winVars, attVars
<1>5. ProgramsOK'
  BY BoundsAssumption DEF IInv, TypeOK, ProgramsOK, SigTerm, Fault, dueVars, shellVars,
         kernelVars, daemonVars, loopVars, ringVars, inVars, termVars, winVars,
         attVars
<1>6. SnapshotHolds'
  BY DEF IInv, SnapshotHolds, Waiting, Stopping, Exited, SigTerm, Fault, dueVars, shellVars,
         kernelVars, daemonVars, loopVars, ringVars, inVars, termVars, winVars,
         attVars
<1> QED  BY <1>1, <1>2, <1>3, <1>4, <1>5, <1>6 DEF IInv, TypeOK

(* poll(2) fails, between two passes: no decode loop is under way. *)
LEMMA PollFailsKeepsIInv ==
  ASSUME IInv, PollFails
  PROVE  IInv'
<1> USE DEF PollFails, ringVars, inVars, termVars, winVars, attVars, dueVars, shellVars,
            kernelVars
<1>1. LoopOK'
  BY DEF IInv, TypeOK, LoopOK, Waiting, Stopping, Exited
<1>2. StreamsOK' /\ TerminalOK'
  BY DEF IInv, TypeOK, StreamsOK, TerminalOK
<1>3. ConnectionsOK' /\ NoConnectionLeaks'
  BY DEF IInv, TypeOK, ConnectionsOK, NoConnectionLeaks
<1>4. ProgramsOK'
  BY BoundsAssumption DEF IInv, TypeOK, ProgramsOK, Fault
<1>5. SnapshotHolds'
  BY DEF IInv, SnapshotHolds, Waiting, Stopping
<1> QED  BY <1>1, <1>2, <1>3, <1>4, <1>5 DEF IInv, TypeOK

(* A connection is made: it is in the backlog, and held by nobody. *)
LEMMA ProbeKeepsIInv ==
  ASSUME IInv, Probe
  PROVE  IInv'
<1>1. LoopOK'
  BY DEF IInv, TypeOK, LoopOK, Waiting, Stopping, Exited, Probe, Unasked, Fault,
         dueVars, shellVars, kernelVars, daemonVars, loopVars, ringVars, inVars,
         termVars, winVars, attVars
<1>2. StreamsOK'
  BY DEF IInv, TypeOK, StreamsOK, Probe, Unasked, Fault, dueVars, shellVars,
         kernelVars, daemonVars, loopVars, ringVars, inVars, termVars, winVars,
         attVars
<1>3. TerminalOK'
  BY DEF IInv, TypeOK, TerminalOK, Probe, Unasked, Fault, dueVars, shellVars,
         kernelVars, daemonVars, loopVars, ringVars, inVars, termVars, winVars,
         attVars
<1>4. ConnectionsOK' /\ NoConnectionLeaks'
  <2>1. PICK c \in Oldest(Unused) : Dial(c, Prober, FreeConn.hello, <<>>)
    BY DEF Probe
  <2>2. FreeConn.hello \in Hello /\ <<>> \in Seq(ClientFrame)
    BY EmptySeq DEF FreeConn, Hello, Greetings
  <2>3. conn' \in [Conns -> Connection] /\ SameHeld
    BY <2>1, <2>2, DialIsBacklog DEF IInv, TypeOK
  <2> QED
    BY <2>3, SameHeldKeepsTheAccount
    DEF IInv, TypeOK, ConnectionsOK, Probe, Unasked, Fault, daemonVars, attVars, dueVars
<1>5. ProgramsOK'
  BY BoundsAssumption DEF IInv, TypeOK, ProgramsOK, Probe, Unasked, Fault, dueVars, shellVars,
         kernelVars, daemonVars, loopVars, ringVars, inVars, termVars, winVars,
         attVars
<1>6. SnapshotHolds'
  BY DEF IInv, SnapshotHolds, Waiting, Stopping, Exited, Probe, Unasked, Fault, dueVars,
         shellVars, kernelVars, daemonVars, loopVars, ringVars, inVars,
         termVars, winVars, attVars
<1> QED  BY <1>1, <1>2, <1>3, <1>4, <1>5, <1>6 DEF IInv, TypeOK

LEMMA ConnectKeepsIInv ==
  ASSUME IInv, NEW a \in Clients, Connect(a)
  PROVE  IInv'
<1>a. PICK c \in Oldest(Unused), kind \in HelloKinds, w \in Sizes, p \in {cli[a], NewProgram} :
     \E replay \in Replays(p) :
       LET out == IF kind = "ahead" THEN MaxOut + 1 ELSE p.got IN
       /\ Dial(c, a, [out |-> out, kind |-> kind, win |-> w],
               <<CF(IF kind = "bad" THEN "Bad" ELSE "Hello")>> \o replay)
       /\ cli' = [cli EXCEPT ![a] =
                    [p EXCEPT !.conn = c, !.live = FALSE, !.got = out]]
  BY DEF Connect
<1>r. PICK replay \in Replays(p) :
       LET out == IF kind = "ahead" THEN MaxOut + 1 ELSE p.got IN
       /\ Dial(c, a, [out |-> out, kind |-> kind, win |-> w],
               <<CF(IF kind = "bad" THEN "Bad" ELSE "Hello")>> \o replay)
       /\ cli' = [cli EXCEPT ![a] =
                    [p EXCEPT !.conn = c, !.live = FALSE, !.got = out]]
  BY <1>a
<1> DEFINE out == IF kind = "ahead" THEN MaxOut + 1 ELSE p.got
           up == <<CF(IF kind = "bad" THEN "Bad" ELSE "Hello")>> \o replay
<1>b. p \in Program /\ c \in Conns
  <2>1. NewProgram \in Program
    BY DEF Program, NewProgram, NoConn, RESUME_FROM_START
  <2>2. c \in Conns
    BY DEF Unused, Oldest
  <2> QED  BY <2>1, <2>2 DEF IInv, TypeOK, ProgramsOK
<1>c. out \in Nat \cup {RESUME_FROM_START}
  BY <1>b, BoundsAssumption DEF Program
<1>d. up \in Seq(ClientFrame)
  <2> DEFINE head == CF(IF kind = "bad" THEN "Bad" ELSE "Hello")
  <2>1. head \in ClientFrame
    BY DEF CF, ClientFrame, ClientFrameTypes
  <2>2. ASSUME NEW off \in Nat, NEW n \in Nat
        PROVE  InputFrame(off, n) \in ClientFrame
    BY DEF InputFrame, CF, ClientFrame, ClientFrameTypes
  <2>3. p.acked \in Nat /\ p.next \in Nat
    BY <1>b DEF Program
  <2>4. replay \in Seq(ClientFrame)
    <3>1. CASE p.acked >= p.next
      BY <3>1, <1>r, <2>3, EmptySeq DEF Replays
    <3>2. CASE p.acked < p.next
      <4> DEFINE whole == InputFrame(p.acked, p.next - p.acked)
                 each == [i \in 1 .. p.next - p.acked |-> InputFrame(p.acked + i - 1, 1)]
      <4>1. p.next - p.acked \in Nat
        BY <3>2, <2>3
      <4>2. whole \in ClientFrame
        BY <2>2, <2>3, <4>1
      <4>3. \A i \in 1 .. p.next - p.acked : InputFrame(p.acked + i - 1, 1) \in ClientFrame
        BY <2>2, <2>3, <4>1
      <4>4. each \in [1 .. p.next - p.acked -> ClientFrame]
        BY <4>3
      <4>5. replay \in {<<whole>>, each}
        <5>1. ~(p.acked >= p.next)
          BY <3>2, <2>3
        <5> QED  BY <5>1, <1>r DEF Replays
      <4> HIDE DEF whole, each
      <4>6. each \in Seq(ClientFrame)
        <5> DEFINE n == p.next - p.acked
        <5>1. n \in Nat /\ each \in [1 .. n -> ClientFrame]
          BY <4>1, <4>4
        <5> HIDE DEF n
        <5> QED  BY <5>1, SeqDef
      <4>7. <<whole>> \in Seq(ClientFrame)
        BY <4>2
      <4>8. CASE replay = <<whole>>
        BY <4>7, <4>8
      <4>9. CASE replay = each
        BY <4>6, <4>9
      <4> QED  BY <4>5, <4>8, <4>9
    <3> QED  BY <3>1, <3>2, <2>3
  <2> HIDE DEF head
  <2>5. <<head>> \in Seq(ClientFrame)
    BY <2>1
  <2>6. <<head>> \o replay \in Seq(ClientFrame)
    BY <2>4, <2>5, ConcatProperties
  <2> QED  BY <2>6 DEF head
<1>1. LoopOK'
  BY DEF IInv, TypeOK, LoopOK, Waiting, Stopping, Exited, Connect, Outside,
         dueVars, shellVars, kernelVars, daemonVars, loopVars, ringVars, inVars,
         termVars, winVars, attVars
<1>2. StreamsOK'
  BY DEF IInv, TypeOK, StreamsOK, Connect, Outside, dueVars, shellVars,
         kernelVars, daemonVars, loopVars, ringVars, inVars, termVars, winVars,
         attVars
<1>3. TerminalOK'
  BY DEF IInv, TypeOK, TerminalOK, Connect, Outside, dueVars, shellVars,
         kernelVars, daemonVars, loopVars, ringVars, inVars, termVars, winVars,
         attVars
<1>4. ConnectionsOK' /\ NoConnectionLeaks'
  <2>1. [out |-> out, kind |-> kind, win |-> w] \in Hello
    BY <1>c, NamesAssumption DEF Hello
  <2>2. Dial(c, a, [out |-> out, kind |-> kind, win |-> w], up)
    BY <1>r
  <2>3. conn' \in [Conns -> Connection] /\ SameHeld
    BY <2>1, <2>2, <1>d, DialIsBacklog DEF IInv, TypeOK
  <2> QED
    BY <2>3, SameHeldKeepsTheAccount
    DEF IInv, TypeOK, ConnectionsOK, Connect, Outside, daemonVars, attVars, dueVars
<1>5. ProgramsOK'
  <2>1. [p EXCEPT !.conn = c, !.live = FALSE, !.got = out] \in Program
    BY <1>b, <1>c DEF Program
  <2>2. cli' = [cli EXCEPT ![a] = [p EXCEPT !.conn = c, !.live = FALSE, !.got = out]]
    BY <1>a
  <2> QED  BY <2>1, <2>2 DEF IInv, TypeOK, ProgramsOK, Connect, Outside
<1>6. SnapshotHolds'
  BY DEF IInv, SnapshotHolds, Waiting, Stopping, Exited, Connect, Outside, dueVars,
         shellVars, kernelVars, daemonVars, loopVars, ringVars, inVars,
         termVars, winVars, attVars
<1> QED  BY <1>1, <1>2, <1>3, <1>4, <1>5, <1>6 DEF IInv, TypeOK

(* A client program says something on a connection of its own. *)
LEMMA TypeKeepsIInv ==
  ASSUME IInv, NEW a \in Clients, Type(a)
  PROVE  IInv'
<1>1. LoopOK'
  BY DEF IInv, TypeOK, LoopOK, Waiting, Stopping, Exited, Type, Outside,
         dueVars, shellVars, kernelVars, daemonVars, loopVars, ringVars, inVars,
         termVars, winVars, attVars
<1>2. StreamsOK'
  BY DEF IInv, TypeOK, StreamsOK, Type, Outside, dueVars, shellVars, kernelVars,
         daemonVars, loopVars, ringVars, inVars, termVars, winVars, attVars
<1>3. TerminalOK'
  BY DEF IInv, TypeOK, TerminalOK, Type, Outside, dueVars, shellVars,
         kernelVars, daemonVars, loopVars, ringVars, inVars, termVars, winVars,
         attVars
<1>4. ConnectionsOK' /\ NoConnectionLeaks'
  <2> DEFINE c == cli[a].conn
             f == InputFrame(cli[a].next, 1)
  <2>1. c \in Conns /\ conn[c] \in Connection /\ cli[a].next \in Nat
    BY DEF IInv, TypeOK, ProgramsOK, ConnectionsOK, Program, Type, CanSay
  <2>2. f \in ClientFrame
    BY <2>1 DEF InputFrame, CF, ClientFrame, ClientFrameTypes
  <2>3. conn' = [conn EXCEPT ![c].up = Append(@, f)]
    BY DEF Type
  <2> HIDE DEF c, f
  <2>4. [conn[c] EXCEPT !.up = Append(@, f)] \in Connection
    <3>1. Append(conn[c].up, f) \in Seq(ClientFrame)
      BY <2>1, <2>2 DEF Connection
    <3> QED  BY <2>1, <3>1 DEF Connection
  <2>5. SameStanding(conn')
    BY <2>1, <2>3, <2>4 DEF IInv, TypeOK, ConnectionsOK, SameStanding, Connection
  <2> QED
    BY <2>5, StandingKeepsTheAccount
    DEF IInv, TypeOK, ConnectionsOK, Type, Outside, daemonVars, attVars, dueVars
<1>5. ProgramsOK'
  <2>1. [cli[a] EXCEPT !.next = @ + 1] \in Program
    BY DEF IInv, TypeOK, ProgramsOK, Program
  <2>2. cli' = [cli EXCEPT ![a].next = @ + 1]
    BY DEF Type
  <2> QED  BY <2>1, <2>2 DEF IInv, TypeOK, ProgramsOK, Type, Outside
<1>6. SnapshotHolds'
  BY DEF IInv, SnapshotHolds, Waiting, Stopping, Exited, Type, Outside, dueVars,
         shellVars, kernelVars, daemonVars, loopVars, ringVars, inVars,
         termVars, winVars, attVars
<1> QED  BY <1>1, <1>2, <1>3, <1>4, <1>5, <1>6 DEF IInv, TypeOK

LEMMA SayKeepsIInv ==
  ASSUME IInv, NEW a \in Clients, Say(a)
  PROVE  IInv'
<1>1. LoopOK'
  BY DEF IInv, TypeOK, LoopOK, Waiting, Stopping, Exited, Say, Unasked, Fault, dueVars,
         shellVars, kernelVars, daemonVars, loopVars, ringVars, inVars,
         termVars, winVars, attVars
<1>2. StreamsOK'
  BY DEF IInv, TypeOK, StreamsOK, Say, Unasked, Fault, dueVars, shellVars, kernelVars,
         daemonVars, loopVars, ringVars, inVars, termVars, winVars, attVars
<1>3. TerminalOK'
  BY DEF IInv, TypeOK, TerminalOK, Say, Unasked, Fault, dueVars, shellVars, kernelVars,
         daemonVars, loopVars, ringVars, inVars, termVars, winVars, attVars
<1>4. ConnectionsOK' /\ NoConnectionLeaks'
  <2> DEFINE c == cli[a].conn
  <2>1. c \in Conns /\ conn[c] \in Connection
    BY DEF IInv, TypeOK, ProgramsOK, ConnectionsOK, Program, Say, CanSay
  <2>2. PICK t \in ClientSays, w \in Sizes :
          conn' = [conn EXCEPT ![c] = Spoken(@, t, w)]
    BY DEF Say
  <2>3. Spoken(conn[c], t, w) \in Connection /\ Spoken(conn[c], t, w).pos = conn[c].pos
    BY <2>1, SpokenIsConnection
  <2> HIDE DEF c
  <2>6. SameStanding(conn')
    BY <2>1, <2>2, <2>3 DEF IInv, TypeOK, ConnectionsOK, SameStanding
  <2> QED
    BY <2>6, StandingKeepsTheAccount
    DEF IInv, TypeOK, ConnectionsOK, Say, Unasked, Fault, daemonVars, attVars, dueVars
<1>5. ProgramsOK'
  BY BoundsAssumption DEF IInv, TypeOK, ProgramsOK, Say, Unasked, Fault, dueVars,
         shellVars, kernelVars, daemonVars, loopVars, ringVars, inVars, termVars, winVars, attVars
<1>6. SnapshotHolds'
  BY DEF IInv, SnapshotHolds, Waiting, Stopping, Exited, Say, Unasked, Fault, dueVars,
         shellVars, kernelVars, daemonVars, loopVars, ringVars, inVars,
         termVars, winVars, attVars
<1> QED  BY <1>1, <1>2, <1>3, <1>4, <1>5, <1>6 DEF IInv, TypeOK

LEMMA HangsUpKeepsIInv ==
  ASSUME IInv, NEW c \in Conns, HangsUp(c)
  PROVE  IInv'
<1>1. LoopOK'
  BY DEF IInv, TypeOK, LoopOK, Waiting, Stopping, Exited, HangsUp, Unasked, Fault,
         dueVars, shellVars, kernelVars, daemonVars, loopVars, ringVars, inVars,
         termVars, winVars, attVars
<1>2. StreamsOK'
  BY DEF IInv, TypeOK, StreamsOK, HangsUp, Unasked, Fault, dueVars, shellVars,
         kernelVars, daemonVars, loopVars, ringVars, inVars, termVars, winVars,
         attVars
<1>3. TerminalOK'
  BY DEF IInv, TypeOK, TerminalOK, HangsUp, Unasked, Fault, dueVars, shellVars,
         kernelVars, daemonVars, loopVars, ringVars, inVars, termVars, winVars,
         attVars
<1>4. ConnectionsOK' /\ NoConnectionLeaks'
  <2>1. conn' = [conn EXCEPT ![c] = [conn[c] EXCEPT !.peer = "gone"]]
    BY DEF HangsUp
  <2>2. conn \in [Conns -> Connection]
    BY DEF IInv, TypeOK, ConnectionsOK
  <2>3. /\ [conn[c] EXCEPT !.peer = "gone"] \in Connection
        /\ [conn[c] EXCEPT !.peer = "gone"].pos = conn[c].pos
    BY <2>2 DEF Connection
  <2>4. SameStanding(conn')
    BY <2>1, <2>2, <2>3 DEF SameStanding
  <2> QED
    BY <2>4, StandingKeepsTheAccount
    DEF IInv, TypeOK, ConnectionsOK, HangsUp, Unasked, Fault, daemonVars, attVars, dueVars
<1>5. ProgramsOK'
  BY BoundsAssumption DEF IInv, TypeOK, ProgramsOK, HangsUp, Unasked, Fault, dueVars, shellVars,
         kernelVars, daemonVars, loopVars, ringVars, inVars, termVars, winVars,
         attVars
<1>6. SnapshotHolds'
  BY DEF IInv, SnapshotHolds, Waiting, Stopping, Exited, HangsUp, Unasked, Fault, dueVars,
         shellVars, kernelVars, daemonVars, loopVars, ringVars, inVars,
         termVars, winVars, attVars
<1> QED  BY <1>1, <1>2, <1>3, <1>4, <1>5, <1>6 DEF IInv, TypeOK

(* What a client program learns from its socket is offsets. *)
LEMMA ClientReadKeepsIInv ==
  ASSUME IInv, NEW a \in Clients, ClientRead(a)
  PROVE  IInv'
<1>1. LoopOK'
  BY DEF IInv, TypeOK, LoopOK, Waiting, Stopping, Exited, ClientRead, Outside,
         dueVars, shellVars, kernelVars, daemonVars, loopVars, ringVars, inVars,
         termVars, winVars, attVars
<1>2. StreamsOK'
  BY DEF IInv, TypeOK, StreamsOK, ClientRead, Outside, dueVars, shellVars,
         kernelVars, daemonVars, loopVars, ringVars, inVars, termVars, winVars,
         attVars
<1>3. TerminalOK'
  BY DEF IInv, TypeOK, TerminalOK, ClientRead, Outside, dueVars, shellVars,
         kernelVars, daemonVars, loopVars, ringVars, inVars, termVars, winVars,
         attVars
<1>4. ConnectionsOK' /\ NoConnectionLeaks'
  <2> DEFINE c == cli[a].conn
  <2>1. c \in Conns /\ conn[c] \in Connection
    BY DEF IInv, TypeOK, ProgramsOK, ConnectionsOK, Program, ClientRead
  <2>2. conn' = [conn EXCEPT ![c].down = <<>>]
    BY DEF ClientRead
  <2> HIDE DEF c
  <2>3. SameStanding(conn')
    BY <2>1, <2>2, EmptySeq DEF IInv, TypeOK, ConnectionsOK, SameStanding, Connection
  <2> QED
    BY <2>3, StandingKeepsTheAccount
    DEF IInv, TypeOK, ConnectionsOK, ClientRead, Outside, daemonVars, attVars, dueVars
<1>5. ProgramsOK'
  <2> DEFINE s == conn[cli[a].conn].down
             positions == LastOf({i \in DOMAIN s : Positional(s[i])})
             acks == LastOf({i \in DOMAIN s : Acks(s[i])})
             here == IF positions = {} THEN {cli[a].got} ELSE {After(s[i]) : i \in positions}
             told == IF acks = {} THEN {cli[a].acked} ELSE {Acked(s[i]) : i \in acks}
             greeted == \E i \in DOMAIN s : s[i].type = "HelloOk"
  <2>1. PICK got \in here, acked \in told :
          cli' = [cli EXCEPT ![a] = Informed(@, got, acked, greeted)]
    BY DEF ClientRead
  <2>2. s \in Seq(ServerFrame) /\ cli[a] \in Program
    BY DEF IInv, TypeOK, ProgramsOK, ConnectionsOK, Program, ClientRead, Connection
  <2>3. \A i \in DOMAIN s : After(s[i]) \in Nat /\ Acked(s[i]) \in Nat
    <3> SUFFICES ASSUME NEW i \in DOMAIN s
                 PROVE  After(s[i]) \in Nat /\ Acked(s[i]) \in Nat
      OBVIOUS
    <3>1. s[i] \in ServerFrame
      BY <2>2, LenProperties, ElementOfSeq
    <3> QED  BY SMTT(30), <3>1 DEF ServerFrame, After, Acked
  <2>4. positions \subseteq DOMAIN s /\ acks \subseteq DOMAIN s
    BY DEF LastOf
  <2> HIDE DEF positions, acks
  <2>5. got \in Nat \cup {RESUME_FROM_START} /\ acked \in Nat
    BY <2>2, <2>3, <2>4 DEF Program
  <2>6. greeted \in BOOLEAN
    OBVIOUS
  <2> HIDE DEF greeted, s
  <2>7. Informed(cli[a], got, acked, greeted) \in Program
    BY <2>2, <2>5, <2>6 DEF Program, Informed, LargerOf
  <2>9. UNCHANGED <<faults, owed>>
    BY DEF ClientRead, Outside
  <2> QED
    BY <2>1, <2>7, <2>9 DEF IInv, TypeOK, ProgramsOK
<1>6. SnapshotHolds'
  BY DEF IInv, SnapshotHolds, Waiting, Stopping, Exited, ClientRead, Outside, dueVars,
         shellVars, kernelVars, daemonVars, loopVars, ringVars, inVars,
         termVars, winVars, attVars
<1> QED  BY <1>1, <1>2, <1>3, <1>4, <1>5, <1>6 DEF IInv, TypeOK

(* The client's socket is read, and decoding begins. *)
LEMMA ReadClientKeepsIInv ==
  ASSUME IInv, ReadClient
  PROVE  IInv'
<1>1. LoopOK'
  <2>1. pc' \in 0 .. Exited
    BY DEF IInv, TypeOK, LoopOK, ReadClient, At, Exited
  <2>2. reading' \in {"decode", "no"}
    BY DEF ReadClient, FillClient
  <2>3. UNCHANGED <<ready, stop, childSignalled, acceptRetry>>
    BY DEF ReadClient
  <2> QED  BY <2>1, <2>2, <2>3 DEF IInv, TypeOK, LoopOK
<1>2. StreamsOK'
  BY DEF IInv, TypeOK, StreamsOK, ReadClient, ringVars, inVars, termVars,
         winVars, shellVars, kernelVars, At
<1>3. TerminalOK'
  BY DEF IInv, TypeOK, TerminalOK, ReadClient, ringVars, inVars, termVars,
         winVars, shellVars, kernelVars, At
<1>4. ConnectionsOK' /\ NoConnectionLeaks'
  <2>1. SameStanding(conn)
    BY DEF IInv, TypeOK, ConnectionsOK, SameStanding
  <2> QED  BY <2>1, FillClientAccounts DEF IInv, TypeOK, ReadClient
<1>5. ProgramsOK'
  BY BoundsAssumption DEF IInv, TypeOK, ProgramsOK, ReadClient, ringVars,
         inVars, termVars, winVars, shellVars, kernelVars, At
<1>6. SnapshotHolds'
  <2>1. reading' \in {"decode", "no"} /\ UNCHANGED <<ready, pending>>
    BY DEF ReadClient, FillClient
  <2>2. /\ pc' \in 0 .. 4 => pc \in 0 .. 4
        /\ pc' \in 0 .. 5 => pc \in 0 .. 5
        /\ pc' \notin {Waiting, Stopping}
    BY DEF ReadClient, At, IInv, SnapshotHolds, Waiting, Stopping
  <2> QED  BY <2>1, <2>2 DEF IInv, SnapshotHolds
<1> QED  BY <1>1, <1>2, <1>3, <1>4, <1>5, <1>6 DEF IInv, TypeOK

(* One frame is handled, its client there to be answered. *)
LEMMA DecodeKeepsIInv ==
  ASSUME IInv, Decode
  PROVE  IInv'
<1> DEFINE f == Head(conn[client].rx)
           cn == [conn EXCEPT ![client].rx = Tail(@)]
<1>a. /\ client \in Conns /\ client # NoConn /\ conn[client].rx # <<>>
      /\ HandleFrame(f, cn)
  BY DEF IInv, TypeOK, ConnectionsOK, Decode, MoreToDecode, HasFrame
<1>b. f \in ClientFrame /\ SameStanding(cn)
  BY <1>a, TakenIsConnection DEF IInv, TypeOK, ConnectionsOK, SameStanding
<1> HIDE DEF f, cn
<1>1. LoopOK'
  BY DEF IInv, TypeOK, LoopOK, Waiting, Stopping, Exited, Decode, ringVars,
         termVars, shellVars, kernelVars
<1>2. StreamsOK'
  <2>1. CASE UNCHANGED inVars
    BY <2>1 DEF IInv, TypeOK, StreamsOK, Decode, inVars, ringVars, kernelVars
  <2>2. CASE f.type = "Input" /\ OnInput(f, cn) /\ ~ SkipsAhead(f)
    <3>1. f.at \in Nat /\ f.n \in Nat /\ inApplied \in Nat
      BY <1>b DEF ClientFrame, IInv, TypeOK, StreamsOK
    <3>2. inApplied' \in Nat
      BY <2>2, <3>1 DEF OnInput, AppliedThrough, LargerOf
    <3>3. Fresh(f) \in Seq(Nat \cup {CtrlL})
      <4>1. CASE f.at + f.n - inApplied \in Nat
        BY <3>1, <4>1, IsASeq DEF Fresh
      <4>2. CASE f.at + f.n - inApplied \notin Nat
        <5>1. 1 .. f.at + f.n - inApplied = {}
          BY <3>1, <4>2
        <5>2. Fresh(f) = <<>>
          BY <5>1 DEF Fresh
        <5> QED  BY <5>2, EmptySeq
      <4> QED  BY <4>1, <4>2
    <3>4. pendIn' \in Seq(Nat \cup {CtrlL})
      BY <2>2, <3>3, ConcatProperties DEF IInv, TypeOK, StreamsOK, OnInput
    <3>5. dropped' \in BOOLEAN
      BY <2>2 DEF OnInput, IInv, TypeOK, StreamsOK
    <3>6. UNCHANGED <<base, end, fed>>
      BY DEF Decode, ringVars, kernelVars
    <3> QED  BY <3>2, <3>4, <3>5, <3>6 DEF IInv, TypeOK, StreamsOK
  <2> QED  BY <1>a, <2>1, <2>2 DEF HandleFrame, OnInput
<1>3. TerminalOK'
  <2>1. win' \in Sizes \cup {NoSize}
    BY <1>a, <1>b DEF HandleFrame, ClientFrame, IInv, TypeOK, TerminalOK
  <2> QED
    BY <2>1 DEF IInv, TypeOK, TerminalOK, Decode, termVars, shellVars, kernelVars
<1>4. ConnectionsOK' /\ NoConnectionLeaks'
  <2>1. UNCHANGED <<pending, pendDue, graceDue>>
    BY DEF Decode
  <2>2. CASE \E code \in Refusals : Reject(cn, code)
    BY <1>a, <1>b, <2>1, <2>2, RejectAccounts DEF IInv, TypeOK
  <2>3. CASE /\ \E g \in ServerFrame : conn' = Tell(cn, g)
             /\ UNCHANGED <<client, att, idleDue>>
    BY <1>a, <1>b, <2>1, <2>3, TellAccounts DEF IInv, TypeOK
  <2>4. CASE conn' = cn /\ UNCHANGED <<client, att, idleDue>>
    BY <1>b, <2>1, <2>4, StandingKeepsTheAccount DEF IInv, TypeOK, ConnectionsOK
  <2>5. CASE Drop(cn)
    <3>1. /\ client' = NoConn /\ att' \in Attachment /\ idleDue' = FALSE
          /\ conn' \in [Conns -> Connection]
          /\ {c \in Conns : conn'[c].pos = "held"} = {pending} \ {NoConn}
      BY <1>a, <1>b, <2>5, DropFrees DEF IInv, TypeOK
    <3> QED  BY <2>1, <3>1 DEF IInv, TypeOK, ConnectionsOK, NoConnectionLeaks
  <2>6. CASE OnInput(f, cn)
    <3>1. CASE SkipsAhead(f)
      BY <2>2, <2>6, <3>1 DEF OnInput, Refusals
    <3>2. CASE ~ SkipsAhead(f)
      <4>1. AppliedThrough(f) \in Nat
        BY <1>b DEF ClientFrame, IInv, TypeOK, StreamsOK, AppliedThrough, LargerOf
      <4>2. SF("InputAck", AppliedThrough(f), 0) \in ServerFrame
        BY <4>1, ServerFrames DEF ServerFrameTypes
      <4> QED  BY <2>3, <2>6, <3>2, <4>2 DEF OnInput
    <3> QED  BY <3>1, <3>2
  <2>7. SF("Pong", 0, 0) \in ServerFrame
    BY ServerFrames DEF ServerFrameTypes
  <2> QED  BY <1>a, <2>2, <2>3, <2>4, <2>5, <2>6, <2>7 DEF HandleFrame, Refusals
<1>5. ProgramsOK'
  BY BoundsAssumption DEF IInv, TypeOK, ProgramsOK, Decode, ringVars, termVars,
         shellVars, kernelVars
<1>6. SnapshotHolds'
  BY DEF IInv, SnapshotHolds, Waiting, Stopping, Exited, Decode, ringVars, termVars,
         shellVars, kernelVars
<1> QED  BY <1>1, <1>2, <1>3, <1>4, <1>5, <1>6 DEF IInv, TypeOK

LEMMA DecodeEndsKeepsIInv ==
  ASSUME IInv, DecodeEnds
  PROVE  IInv'
<1>1. LoopOK'
  BY DEF IInv, TypeOK, LoopOK, Waiting, Stopping, Exited, DecodeEnds, ringVars,
         inVars, termVars, winVars, shellVars, kernelVars
<1>2. StreamsOK'
  BY DEF IInv, TypeOK, StreamsOK, DecodeEnds, ringVars, inVars, termVars,
         winVars, shellVars, kernelVars
<1>3. TerminalOK'
  BY DEF IInv, TypeOK, TerminalOK, DecodeEnds, ringVars, inVars, termVars,
         winVars, shellVars, kernelVars
<1>4. ConnectionsOK' /\ NoConnectionLeaks'
  <2>1. UNCHANGED <<pending, pendDue, graceDue>> /\ SameStanding(conn)
    BY DEF DecodeEnds, IInv, TypeOK, ConnectionsOK, SameStanding
  <2>2. CASE Truncated /\ Reject(conn, "Protocol")
    BY <2>1, <2>2, RejectAccounts DEF IInv, TypeOK, Truncated, Refusals
  <2>3. CASE UNCHANGED <<conn, client, att, idleDue>>
    BY <2>1, <2>3 DEF IInv, TypeOK, ConnectionsOK, NoConnectionLeaks
  <2> QED  BY <2>2, <2>3 DEF DecodeEnds
<1>5. ProgramsOK'
  BY BoundsAssumption DEF IInv, TypeOK, ProgramsOK, DecodeEnds, ringVars,
         inVars, termVars, winVars, shellVars, kernelVars
<1>6. SnapshotHolds'
  BY DEF IInv, SnapshotHolds, Waiting, Stopping, Exited, DecodeEnds, ringVars, inVars,
         termVars, winVars, shellVars, kernelVars
<1> QED  BY <1>1, <1>2, <1>3, <1>4, <1>5, <1>6 DEF IInv, TypeOK

(* The slot takes the oldest of the backlog, if it is to be taken at all. *)
LEMMA AcceptKeepsIInv ==
  ASSUME IInv, Accept
  PROVE  IInv'
<1>1. LoopOK'
  BY DEF IInv, TypeOK, LoopOK, Waiting, Stopping, Exited, Accept, ringVars,
         inVars, termVars, winVars, shellVars, kernelVars, Fault, At
<1>2. StreamsOK'
  BY DEF IInv, TypeOK, StreamsOK, Accept, ringVars, inVars, termVars, winVars,
         shellVars, kernelVars, Fault, At
<1>3. TerminalOK'
  BY DEF IInv, TypeOK, TerminalOK, Accept, ringVars, inVars, termVars, winVars,
         shellVars, kernelVars, Fault, At
<1>4. ConnectionsOK' /\ NoConnectionLeaks'
  <2>1. UNCHANGED <<client, att, idleDue, graceDue>>
    BY DEF Accept
  <2>2. CASE \E c \in Oldest(Backlog) :
               /\ conn' = [conn EXCEPT ![c].pos = "held"]
               /\ pending' = c /\ pendDue' = FALSE
    <3>1. PICK c \in Conns : /\ conn[c].pos = "backlog"
                             /\ conn' = [conn EXCEPT ![c].pos = "held"]
                             /\ pending' = c /\ pendDue' = FALSE
      BY <2>2 DEF Oldest, Backlog
    <3>2. pending = NoConn
      BY DEF IInv, Accept, At, Work, SnapshotHolds
    <3>3. conn' \in [Conns -> Connection]
      <4>1. [conn[c] EXCEPT !.pos = "held"] \in Connection
        BY DEF IInv, TypeOK, ConnectionsOK, Connection
      <4> QED  BY <3>1, <4>1 DEF IInv, TypeOK, ConnectionsOK
    <3>4. {d \in Conns : conn'[d].pos = "held"} = {client, c} \ {NoConn}
      <4>1. \A d \in Conns : conn'[d].pos = "held" <=> d = c \/ conn[d].pos = "held"
        BY <3>1 DEF IInv, TypeOK, ConnectionsOK, Connection
      <4>2. c # NoConn
        BY DEF Conns, NoConn
      <4> QED  BY <3>2, <4>1, <4>2 DEF IInv, NoConnectionLeaks
    <3>5. client # c
      BY <3>1 DEF IInv, TypeOK, ConnectionsOK, NoConnectionLeaks, Conns, NoConn
    <3> QED  BY <2>1, <3>1, <3>3, <3>4, <3>5 DEF IInv, TypeOK, ConnectionsOK, NoConnectionLeaks
  <2>3. CASE \E c \in Oldest(Backlog) :
               conn' = [conn EXCEPT ![c] = Closed(@)] /\ UNCHANGED <<pending, pendDue>>
    <3>1. PICK c \in Conns : /\ conn[c].pos = "backlog"
                             /\ conn' = [conn EXCEPT ![c] = Closed(@)]
                             /\ UNCHANGED <<pending, pendDue>>
      BY <2>3 DEF Oldest, Backlog
    <3>2. Closed(conn[c]) \in Connection /\ Closed(conn[c]).pos = "closed"
      BY ClosedIsConnection DEF IInv, TypeOK, ConnectionsOK
    <3>3. conn' \in [Conns -> Connection] /\ SameHeld
      BY <3>1, <3>2 DEF IInv, TypeOK, ConnectionsOK, SameHeld
    <3> QED
      BY <2>1, <3>1, <3>3, SameHeldKeepsTheAccount DEF IInv, TypeOK, ConnectionsOK
  <2>4. CASE UNCHANGED <<conn, pending, pendDue>>
    BY <2>1, <2>4 DEF IInv, TypeOK, ConnectionsOK, NoConnectionLeaks
  <2> QED  BY <2>2, <2>3, <2>4 DEF Accept
<1>5. ProgramsOK'
  BY BoundsAssumption DEF IInv, TypeOK, ProgramsOK, Accept, ringVars, inVars,
         termVars, winVars, shellVars, kernelVars, Fault, At
<1>6. SnapshotHolds'
  BY DEF IInv, SnapshotHolds, Waiting, Stopping, Exited, Accept, ringVars, inVars,
         termVars, winVars, shellVars, kernelVars, Fault, At
<1> QED  BY <1>1, <1>2, <1>3, <1>4, <1>5, <1>6 DEF IInv, TypeOK

(* What one read can reach of an incumbent's frames are frames. *)
LEMMA ReachIsWithin ==
  ASSUME NEW r \in Nat, NEW u \in Nat
  PROVE  SmallerOf(r + u, LargerOf(r, SmallerOf(MaxPendingRead, r + FillMax))) \in 0 .. r + u
<1> DEFINE m == SmallerOf(MaxPendingRead, r + FillMax)
           l == LargerOf(r, m)
<1>1. m \in Nat
  BY BoundsAssumption DEF SmallerOf
<1> HIDE DEF m
<1>2. l \in Nat
  BY <1>1 DEF LargerOf
<1> HIDE DEF l
<1>3. SmallerOf(r + u, l) \in 0 .. r + u
  BY <1>2 DEF SmallerOf
<1> QED  BY <1>3 DEF m, l

LEMMA OwedIsFrames ==
  ASSUME NEW k \in Connection
  PROVE  OwedTo(k) \in Debt
<1> DEFINE s == k.rx \o k.up
           n == SmallerOf(Len(k.rx) + Len(k.up),
                          LargerOf(Buffered(k),
                                   SmallerOf(MaxPendingRead, Buffered(k) + FillMax)))
<1>1. /\ k.rx \in Seq(ClientFrame) /\ k.up \in Seq(ClientFrame)
      /\ Len(k.rx) \in Nat /\ Len(k.up) \in Nat
  BY LenProperties DEF Connection
<1>2. s \in Seq(ClientFrame) /\ Len(s) = Len(k.rx) + Len(k.up)
  BY <1>1, ConcatProperties
<1>3. n \in 0 .. Len(s)
  BY <1>1, <1>2, ReachIsWithin DEF Buffered
<1> HIDE DEF s, n
<1>4. SubSeq(s, 1, n) \in Seq(ClientFrame)
  BY <1>2, <1>3, TakeFirstIsSeq
<1>5. (\E f \in SeqRange(k.rx \o k.up) : f.type = "Detach") \in BOOLEAN
  OBVIOUS
<1> QED  BY <1>4, <1>5 DEF OwedTo, WithinOneRead, Debt, s, n

(* A greeting is heard, and until it is settled nothing changes hands. *)
LEMMA ReadPendingKeepsIInv ==
  ASSUME IInv, ReadPending
  PROVE  IInv'
<1> DEFINE k == Filled(conn[pending])
           cn == [conn EXCEPT ![pending] = k]
           greeted == [cn EXCEPT ![pending].rx = Tail(@)]
<1>a. pending \in Conns /\ pending # NoConn
  BY DEF IInv, TypeOK, ConnectionsOK, SnapshotHolds, ReadPending, At, Work
<1>b. k \in Connection /\ k.pos = conn[pending].pos
  BY <1>a, FilledIsConnection DEF IInv, TypeOK, ConnectionsOK
<1> HIDE DEF k
<1>c. SameStanding(conn) /\ SameStanding(cn)
  BY <1>a, <1>b, ReplacedStands DEF IInv, TypeOK, ConnectionsOK, SameStanding
<1>d. cn \in [Conns -> Connection] /\ cn[pending] = k
  BY <1>a, <1>c DEF SameStanding
<1> HIDE DEF cn
<1>e. HasFrame(k) => SameStanding(greeted)
  BY <1>a, <1>c, <1>d, TakenIsConnection DEF SameStanding, HasFrame
<1> HIDE DEF greeted
<1>f. \/ /\ Dismiss(cn, Closed(k)) /\ UNCHANGED <<reading, client, att, idleDue>>
      \/ /\ conn' = cn /\ UNCHANGED <<reading, client, att, idleDue, pending, pendDue>>
      \/ /\ RejectPending(cn, "Protocol") /\ UNCHANGED <<reading, client, att, idleDue>>
      \/ /\ HasFrame(k) /\ RejectPending(greeted, "Version")
         /\ UNCHANGED <<reading, client, att, idleDue>>
      \/ /\ HasFrame(k) /\ FillClient(greeted, "drain") /\ UNCHANGED <<pending, pendDue>>
      \/ /\ HasFrame(k) /\ conn' = greeted /\ reading' = "greet"
         /\ UNCHANGED <<client, att, idleDue, pending, pendDue>>
  BY DEF ReadPending, cn, k, greeted
<1>g. UNCHANGED graceDue
  BY DEF ReadPending
<1>1. LoopOK'
  <2>1. reading' \in {reading, "drain", "greet"}
    BY <1>f DEF FillClient
  <2> QED  BY <2>1 DEF IInv, TypeOK, LoopOK, ReadPending, At, Exited
<1>2. StreamsOK'
  BY DEF IInv, TypeOK, StreamsOK, ReadPending, ringVars, inVars, termVars,
         winVars, shellVars, kernelVars, At
<1>3. TerminalOK'
  BY DEF IInv, TypeOK, TerminalOK, ReadPending, ringVars, inVars, termVars,
         winVars, shellVars, kernelVars, At
<1>4. ConnectionsOK' /\ NoConnectionLeaks'
  <2>1. CASE /\ \/ Dismiss(cn, Closed(k))
                \/ RejectPending(cn, "Protocol")
                \/ HasFrame(k) /\ RejectPending(greeted, "Version")
             /\ UNCHANGED <<reading, client, att, idleDue>>
    <3>1. /\ pending' = NoConn /\ pendDue' = FALSE
          /\ conn' \in [Conns -> Connection]
          /\ {c \in Conns : conn'[c].pos = "held"} = {client} \ {NoConn}
      <4>1. CASE Dismiss(cn, Closed(k))
        BY <1>a, <1>b, <1>c, <4>1, ClosedIsConnection, DismissFrees DEF IInv, TypeOK
      <4>2. CASE RejectPending(cn, "Protocol")
        BY <1>a, <1>c, <4>2, RejectPendingFrees DEF IInv, TypeOK, Refusals
      <4>3. CASE HasFrame(k) /\ RejectPending(greeted, "Version")
        BY <1>a, <1>e, <4>3, RejectPendingFrees DEF IInv, TypeOK, Refusals
      <4> QED  BY <2>1, <4>1, <4>2, <4>3
    <3> QED
      BY <2>1, <3>1, <1>g DEF IInv, TypeOK, ConnectionsOK, NoConnectionLeaks
  <2>2. CASE HasFrame(k) /\ FillClient(greeted, "drain") /\ UNCHANGED <<pending, pendDue>>
    BY <2>2, <1>e, <1>g, FillClientAccounts DEF IInv, TypeOK
  <2>3. CASE /\ conn' = cn \/ (HasFrame(k) /\ conn' = greeted)
             /\ UNCHANGED <<client, att, idleDue, pending, pendDue>>
    <3>1. SameStanding(conn')
      BY <2>3, <1>c, <1>e
    <3> QED
      BY <2>3, <3>1, <1>g, StandingKeepsTheAccount DEF IInv, TypeOK, ConnectionsOK
  <2> QED  BY <1>f, <2>1, <2>2, <2>3
<1>5. ProgramsOK'
  <2>1. owed' \in {owed, NothingOwed} \/ (client # NoConn /\ owed' = OwedTo(conn[client]))
    BY DEF ReadPending
  <2>2. UNCHANGED <<cli, faults>>
    BY DEF ReadPending
  <2>3. ASSUME client # NoConn
        PROVE  OwedTo(conn[client]) \in Debt
    BY <1>a, <2>3, OwedIsFrames DEF IInv, TypeOK, ConnectionsOK
  <2>4. NothingOwed \in Debt
    BY EmptySeq DEF NothingOwed, Debt
  <2> QED  BY <2>1, <2>2, <2>3, <2>4 DEF IInv, TypeOK, ProgramsOK
<1>6. SnapshotHolds'
  <2>1. pc' = 5 /\ UNCHANGED ready /\ reading = "no"
    BY DEF ReadPending, At
  <2>2. \/ pending' = NoConn /\ reading' = "no"
        \/ pending' = pending
    BY <1>f, <2>1 DEF Dismiss, RejectPending
  <2>3. ready["listener"] => pending' = NoConn
    BY <1>a, <2>1 DEF IInv, SnapshotHolds, ReadPending, At
  <2> QED  BY <1>a, <2>1, <2>2, <2>3 DEF SnapshotHolds, Waiting, Stopping
<1> QED  BY <1>1, <1>2, <1>3, <1>4, <1>5, <1>6 DEF IInv, TypeOK

(* What the socket takes is written, or the client is given up. *)
LEMMA WriteClientKeepsIInv ==
  ASSUME IInv, WriteClient
  PROVE  IInv'
<1>1. LoopOK'
  BY DEF IInv, TypeOK, LoopOK, Waiting, Stopping, Exited, WriteClient, ringVars,
         inVars, termVars, winVars, shellVars, kernelVars, At
<1>2. StreamsOK'
  BY DEF IInv, TypeOK, StreamsOK, WriteClient, ringVars, inVars, termVars,
         winVars, shellVars, kernelVars, At
<1>3. TerminalOK'
  BY DEF IInv, TypeOK, TerminalOK, WriteClient, ringVars, inVars, termVars,
         winVars, shellVars, kernelVars, At
<1>4. ConnectionsOK' /\ NoConnectionLeaks'
  <2>1. UNCHANGED <<pending, pendDue, graceDue>> /\ client # NoConn /\ SameStanding(conn)
    BY DEF WriteClient, At, Work, IInv, TypeOK, ConnectionsOK, SameStanding
  <2>2. CASE Drop(conn)
    <3>1. /\ client' = NoConn /\ att' \in Attachment /\ idleDue' = FALSE
          /\ conn' \in [Conns -> Connection]
          /\ {c \in Conns : conn'[c].pos = "held"} = {pending} \ {NoConn}
      BY <2>1, <2>2, DropFrees DEF IInv, TypeOK
    <3> QED  BY <2>1, <3>1 DEF IInv, TypeOK, ConnectionsOK, NoConnectionLeaks
  <2>3. CASE /\ conn' = [conn EXCEPT ![client] = Flushed(conn[client])]
             /\ UNCHANGED <<client, att, idleDue>>
    <3>1. client \in Conns /\ conn[client] \in Connection
      BY <2>1 DEF IInv, TypeOK, ConnectionsOK
    <3>2. SameStanding(conn')
      BY <2>1, <2>3, <3>1, FlushedIsConnection, ReplacedStands
    <3> QED
      BY <2>1, <2>3, <3>2, StandingKeepsTheAccount DEF IInv, TypeOK, ConnectionsOK
  <2> QED  BY <2>2, <2>3 DEF WriteClient
<1>5. ProgramsOK'
  BY BoundsAssumption DEF IInv, TypeOK, ProgramsOK, WriteClient, ringVars,
         inVars, termVars, winVars, shellVars, kernelVars, At
<1>6. SnapshotHolds'
  BY DEF IInv, SnapshotHolds, Waiting, Stopping, Exited, WriteClient, ringVars, inVars,
         termVars, winVars, shellVars, kernelVars, At
<1> QED  BY <1>1, <1>2, <1>3, <1>4, <1>5, <1>6 DEF IInv, TypeOK

(* Nothing is held once the daemon is gone. *)
LEMMA ShutdownKeepsIInv ==
  ASSUME IInv, Shutdown
  PROVE  IInv'
<1>1. LoopOK'
  BY DEF IInv, TypeOK, LoopOK, Waiting, Stopping, Exited, Shutdown, ringVars,
         inVars, termVars, winVars
<1>2. StreamsOK'
  BY DEF IInv, TypeOK, StreamsOK, Shutdown, ringVars, inVars, termVars, winVars
<1>3. TerminalOK'
  <2>1. ptyOut' \in 0 .. PtyCap /\ ptyIn' \in 0 .. PtyCap
    BY BoundsAssumption DEF Shutdown
  <2>2. child' \in {"none", "running", "exited"} /\ slave' \in BOOLEAN
    BY DEF Shutdown, IInv, TypeOK, TerminalOK
  <2>3. UNCHANGED <<termVars, winVars, ptyWin, sigchld, sigterm>>
    BY DEF Shutdown
  <2> QED  BY <2>1, <2>2, <2>3 DEF IInv, TypeOK, TerminalOK, termVars, winVars
<1>4. ConnectionsOK' /\ NoConnectionLeaks'
  <2>1. PICK k \in IF client = NoConn THEN {FreeConn} ELSE FinalFlushes(conn[client]) :
          conn' = [c \in Conns |-> IF c = client THEN k
                                  ELSE IF conn[c].pos \in {"held", "backlog"}
                                  THEN Closed(conn[c]) ELSE conn[c]]
    BY DEF Shutdown
  <2>2. client # NoConn => k \in Connection /\ k.pos = "closed"
    BY FinalFlushesClose DEF IInv, TypeOK, ConnectionsOK
  <2>3. ASSUME NEW c \in Conns
        PROVE  conn'[c] \in Connection /\ conn'[c].pos # "held"
    <3>1. conn[c] \in Connection /\ Closed(conn[c]) \in Connection
          /\ Closed(conn[c]).pos = "closed"
      BY ClosedIsConnection DEF IInv, TypeOK, ConnectionsOK
    <3>2. CASE c = client
      <4>1. client # NoConn
        BY <3>2 DEF Conns, NoConn
      <4> QED  BY <2>1, <2>2, <3>2, <4>1
    <3>3. CASE c # client
      BY <2>1, <3>1, <3>3
    <3> QED  BY <3>2, <3>3
  <2>4. conn' \in [Conns -> Connection]
    BY <2>1, <2>3
  <2>5. NoConnectionLeaks'
    BY <2>3 DEF NoConnectionLeaks, Shutdown
  <2>6. NoAtt \in Attachment
    BY DEF NoAtt, Attachment
  <2> QED
    BY <2>4, <2>5, <2>6 DEF Shutdown, IInv, TypeOK, ConnectionsOK
<1>5. ProgramsOK'
  BY BoundsAssumption DEF IInv, TypeOK, ProgramsOK, Shutdown, ringVars, inVars,
         termVars, winVars
<1>6. SnapshotHolds'
  BY DEF IInv, SnapshotHolds, Waiting, Stopping, Exited, Shutdown, ringVars, inVars,
         termVars, winVars
<1> QED  BY <1>1, <1>2, <1>3, <1>4, <1>5, <1>6 DEF IInv, TypeOK

(* Output is queued from the ring, each frame at an offset of the stream. *)
LEMMA PumpOutputKeepsIInv ==
  ASSUME IInv, PumpOutput
  PROVE  IInv'
<1>a. client \in Conns /\ client # NoConn /\ conn[client] \in Connection
  BY DEF IInv, TypeOK, ConnectionsOK, PumpOutput, NudgeRepaint, At, Work
<1>b. Streamed.frames \in Seq(ServerFrame) /\ Streamed.sent \in Nat /\ Streamed.gap \in BOOLEAN
  BY <1>a, StreamedIsOutput DEF IInv, TypeOK
<1> DEFINE exits == TerminalEnd /\ ~att.endSent /\ Streamed.sent >= end
           repaints == (att.repaintDue \/ Streamed.gap) /\ Streamed.sent >= end
           tail == IF exits THEN <<SF("Exit", end, 0)>> ELSE <<>>
<1>c. /\ conn' = [conn EXCEPT ![client].tx = @ \o Streamed.frames \o tail]
      /\ att' = [att EXCEPT !.sent = Streamed.sent, !.endSent = @ \/ exits,
                   !.repaintDue = (@ \/ Streamed.gap) /\ ~(repaints /\ ~RepaintHeld)]
      /\ pendIn' \in {pendIn, Append(pendIn, CtrlL)}
      /\ applied' \in {applied, NoSize} /\ ptyWin' \in {ptyWin, win, NoSize}
      /\ UNCHANGED faults \/ Fault
  BY DEF PumpOutput, NudgeRepaint
<1>d. tail \in Seq(ServerFrame)
  <2>1. SF("Exit", end, 0) \in ServerFrame
    BY ServerFrames DEF ServerFrameTypes, IInv, TypeOK, StreamsOK
  <2> QED  BY <2>1, EmptySeq
<1> HIDE DEF tail
<1>1. LoopOK'
  BY DEF IInv, TypeOK, LoopOK, Waiting, Stopping, Exited, PumpOutput, NudgeRepaint, ringVars,
         termVars, dueVars, shellVars, Fault, At
<1>2. StreamsOK'
  <2>1. pendIn' \in Seq(Nat \cup {CtrlL})
    <3>1. pendIn \in Seq(Nat \cup {CtrlL})
      BY DEF IInv, TypeOK, StreamsOK
    <3>2. Append(pendIn, CtrlL) \in Seq(Nat \cup {CtrlL})
      BY <3>1
    <3> QED  BY <1>c, <3>1, <3>2
  <2>2. UNCHANGED <<base, end, inApplied, dropped, fed>>
    BY DEF PumpOutput, NudgeRepaint, ringVars
  <2> QED  BY <2>1, <2>2 DEF IInv, TypeOK, StreamsOK
<1>3. TerminalOK'
  <2>1. UNCHANGED <<termVars, win, shellVars, ptyOut, ptyIn, sigterm>>
    BY DEF PumpOutput, NudgeRepaint
  <2> QED  BY <1>c, <2>1 DEF IInv, TypeOK, TerminalOK, termVars, shellVars
<1>4. ConnectionsOK' /\ NoConnectionLeaks'
  <2>1. UNCHANGED <<client, pending, idleDue, pendDue, graceDue>>
    BY DEF PumpOutput, NudgeRepaint, dueVars
  <2>2. SameStanding(conn')
    <3>1. conn[client].tx \o Streamed.frames \o tail \in Seq(ServerFrame)
      <4>1. conn[client].tx \in Seq(ServerFrame)
        BY <1>a DEF Connection
      <4>2. conn[client].tx \o Streamed.frames \in Seq(ServerFrame)
        BY <1>b, <4>1, ConcatProperties
      <4> QED  BY <1>d, <4>2, ConcatProperties
    <3> DEFINE k == [conn[client] EXCEPT !.tx = @ \o Streamed.frames \o tail]
    <3>2. k \in Connection /\ k.pos = conn[client].pos
      BY <1>a, <3>1 DEF Connection
    <3>3. conn' = [conn EXCEPT ![client] = k]
      BY <1>c
    <3>4. SameStanding(conn)
      BY DEF IInv, TypeOK, ConnectionsOK, SameStanding
    <3> HIDE DEF k
    <3> QED  BY <1>a, <3>2, <3>3, <3>4, ReplacedStands
  <2>3. att' \in Attachment
    <3>1. /\ (att.endSent \/ exits) \in BOOLEAN
          /\ ((att.repaintDue \/ Streamed.gap) /\ ~(repaints /\ ~RepaintHeld)) \in BOOLEAN
      OBVIOUS
    <3> HIDE DEF exits, repaints
    <3> DEFINE held == (att.repaintDue \/ Streamed.gap) /\ ~(repaints /\ ~RepaintHeld)
               ends == att.endSent \/ exits
    <3>2. att' = [att EXCEPT !.sent = Streamed.sent, !.endSent = ends, !.repaintDue = held]
      BY <1>c
    <3> HIDE DEF held, ends
    <3>3. held \in BOOLEAN /\ ends \in BOOLEAN
      BY <3>1 DEF held, ends
    <3> QED
      BY <1>b, <3>2, <3>3 DEF IInv, TypeOK, ConnectionsOK, Attachment
  <2> QED
    BY <2>1, <2>2, <2>3, StandingKeepsTheAccount DEF IInv, TypeOK, ConnectionsOK
<1>5. ProgramsOK'
  <2>1. UNCHANGED <<cli, owed>>
    BY DEF PumpOutput, NudgeRepaint
  <2> QED  BY SMTT(30), <1>c, <2>1, BoundsAssumption DEF IInv, TypeOK, ProgramsOK, Fault
<1>6. SnapshotHolds'
  BY DEF IInv, SnapshotHolds, Waiting, Stopping, Exited, PumpOutput, NudgeRepaint,
         ringVars, termVars, dueVars, shellVars, Fault, At
<1> QED  BY <1>1, <1>2, <1>3, <1>4, <1>5, <1>6 DEF IInv, TypeOK

(* The session passes to the pending connection, or that is refused. *)
LEMMA GreetKeepsIInv ==
  ASSUME IInv, Greet
  PROVE  IInv'
<1> DEFINE h == conn[pending].hello
<1>a. /\ pending \in Conns /\ pending # NoConn /\ h \in Hello /\ reading = "greet"
      /\ conn[pending] \in Connection /\ SameStanding(conn)
  BY DEF IInv, TypeOK, ConnectionsOK, SnapshotHolds, Greet, Connection, SameStanding
<1>b. h.win \in Sizes \cup {NoSize} /\ Greeted(h) \in Attachment /\ ResumeFrom(h) \in Nat
  BY <1>a, GreetedIsAttachment DEF IInv, TypeOK, Hello
<1> DEFINE refused == /\ RejectPending(conn, "AlreadyAttached") /\ reading' = "no"
                      /\ UNCHANGED <<stop, win, applied, client, att, idleDue, pty, child,
                                     slave, ptyWin, faults>>
<1>c. refused \/ \E cn \in Evictions : OnHello(cn)
  BY DEF Greet
<1>d. ASSUME NEW cn \in Evictions
      PROVE  /\ cn \in [Conns -> Connection] /\ cn[pending] = conn[pending]
             /\ {c \in Conns : cn[c].pos = "held"} = {pending}
  BY <1>a, EvictionsLeaveThePending DEF IInv, TypeOK
<1> HIDE DEF h
<1>1. LoopOK'
  <2>1. reading' \in {"no", "fill"} /\ stop' \in {stop, "shell"}
    BY <1>c DEF OnHello
  <2>2. UNCHANGED <<pc, ready, childSignalled, acceptRetry>>
    BY DEF Greet
  <2> QED  BY <2>1, <2>2 DEF IInv, TypeOK, LoopOK
<1>2. StreamsOK'
  BY DEF IInv, TypeOK, StreamsOK, Greet, ringVars, inVars
<1>3. TerminalOK'
  <2>1. UNCHANGED <<closed, observed, outcome, sigchld, ptyOut, ptyIn, sigterm>>
    BY DEF Greet
  <2>2. /\ win' \in Sizes \cup {NoSize} /\ applied' \in Sizes \cup {NoSize}
        /\ ptyWin' \in Sizes \cup {NoSize}
    BY <1>b, <1>c DEF OnHello, h, IInv, TypeOK, TerminalOK
  <2>3. /\ pty' \in BOOLEAN /\ slave' \in BOOLEAN
        /\ child' \in {"none", "running", "exited"}
    BY <1>c DEF OnHello, IInv, TypeOK, TerminalOK
  <2> QED  BY <2>1, <2>2, <2>3 DEF IInv, TypeOK, TerminalOK
<1>4. ConnectionsOK' /\ NoConnectionLeaks'
  <2>1. UNCHANGED graceDue
    BY DEF Greet
  <2>2. CASE refused
    <3>1. /\ pending' = NoConn /\ pendDue' = FALSE
          /\ conn' \in [Conns -> Connection]
          /\ {c \in Conns : conn'[c].pos = "held"} = {client} \ {NoConn}
      BY <1>a, <2>2, RejectPendingFrees DEF IInv, TypeOK, Refusals
    <3> QED
      BY <2>1, <2>2, <3>1 DEF IInv, TypeOK, ConnectionsOK, NoConnectionLeaks
  <2>3. ASSUME NEW cn \in Evictions, OnHello(cn)
        PROVE  ConnectionsOK' /\ NoConnectionLeaks'
    <3>1. pending' = NoConn /\ pendDue' = FALSE /\ idleDue' = FALSE
      BY <2>3 DEF OnHello
    <3>2. CASE /\ client' = pending /\ att' = Greeted(h)
               /\ conn' = [cn EXCEPT ![pending] =
                             Sent(@, SF("HelloOk", ResumeFrom(h), inApplied))]
      <4> DEFINE k == Sent(conn[pending], SF("HelloOk", ResumeFrom(h), inApplied))
      <4>1. SF("HelloOk", ResumeFrom(h), inApplied) \in ServerFrame
        BY <1>b, ServerFrames DEF ServerFrameTypes, IInv, TypeOK, StreamsOK
      <4>2. k \in Connection /\ k.pos = conn[pending].pos
        BY <1>a, <4>1, SentIsConnection
      <4>3. conn' = [cn EXCEPT ![pending] = k]
        BY <1>d, <3>2
      <4>4. conn[pending].pos = "held"
        BY <1>a DEF IInv, NoConnectionLeaks
      <4> HIDE DEF k
      <4>5. conn' \in [Conns -> Connection]
        BY <1>d, <4>2, <4>3
      <4>6. {c \in Conns : conn'[c].pos = "held"} = {pending}
        BY <1>a, <1>d, <4>2, <4>3, <4>4
      <4> QED
        BY <1>a, <1>b, <2>1, <3>1, <3>2, <4>5, <4>6
        DEF IInv, TypeOK, ConnectionsOK, NoConnectionLeaks
    <3>3. CASE /\ client' = NoConn /\ att' = NoAtt
               /\ conn' = [cn EXCEPT ![pending] =
                             Closed(Flushed(Sent(@, SF("Internal", 0, 0))))]
      <4> DEFINE k == Closed(Flushed(Sent(conn[pending], SF("Internal", 0, 0))))
      <4>1. SF("Internal", 0, 0) \in ServerFrame
        BY ServerFrames DEF ServerFrameTypes, Refusals
      <4>2. k \in Connection /\ k.pos = "closed"
        BY <1>a, <4>1, SentIsConnection, FlushedIsConnection, ClosedIsConnection
      <4>3. conn' = [cn EXCEPT ![pending] = k]
        BY <1>d, <3>3
      <4> HIDE DEF k
      <4>4. conn' \in [Conns -> Connection]
        BY <1>d, <4>2, <4>3
      <4>5. {c \in Conns : conn'[c].pos = "held"} = {}
        BY <1>a, <1>d, <4>2, <4>3
      <4>6. NoAtt \in Attachment
        BY DEF NoAtt, Attachment
      <4> QED
        BY <2>1, <3>1, <3>3, <4>4, <4>5, <4>6
        DEF IInv, TypeOK, ConnectionsOK, NoConnectionLeaks
    <3> QED  BY <2>3, <3>2, <3>3 DEF OnHello, h
  <2> QED  BY <1>c, <2>2, <2>3
<1>5. ProgramsOK'
  <2>1. UNCHANGED faults \/ Fault
    BY <1>c DEF OnHello
  <2>2. owed' = NothingOwed /\ UNCHANGED cli
    BY DEF Greet
  <2>3. faults' \in 0 .. MaxFaults
    BY <2>1, BoundsAssumption DEF IInv, TypeOK, ProgramsOK, Fault
  <2>4. NothingOwed \in Debt
    BY EmptySeq DEF NothingOwed, Debt
  <2> QED  BY <2>2, <2>3, <2>4 DEF IInv, TypeOK, ProgramsOK
<1>6. SnapshotHolds'
  <2>1. pending' = NoConn /\ reading' \in {"no", "fill"} /\ UNCHANGED <<pc, ready>>
    BY <1>c DEF OnHello, RejectPending, Dismiss, Greet
  <2>2. pc = 5
    BY <1>a DEF IInv, SnapshotHolds
  <2> QED  BY <2>1, <2>2 DEF SnapshotHolds, Waiting, Stopping
<1> QED  BY <1>1, <1>2, <1>3, <1>4, <1>5, <1>6 DEF IInv, TypeOK

LEMMA StutterKeepsIInv ==
  ASSUME IInv, UNCHANGED vars
  PROVE  IInv'
<1>1. TypeOK'
  BY DEF IInv, TypeOK, LoopOK, StreamsOK, TerminalOK, ConnectionsOK, ProgramsOK, vars,
         daemonVars, loopVars, ringVars, inVars, termVars, winVars, attVars, dueVars,
         shellVars, kernelVars
<1>2. NoConnectionLeaks' /\ SnapshotHolds'
  BY DEF IInv, NoConnectionLeaks, SnapshotHolds, vars, daemonVars, loopVars, attVars
<1> QED  BY <1>1, <1>2 DEF IInv

LEMMA InitEstablishesIInv == Init => IInv
<1> SUFFICES ASSUME Init PROVE IInv
  OBVIOUS
<1>1. LoopOK
  <2>1. ready \in [{"pty", "client", "hup", "pending", "listener"} -> BOOLEAN]
    BY DEF Init
  <2>2. childSignalled \in BOOLEAN
    BY DEF Init
  <2>3. pc \in 0 .. Exited
    BY DEF Init, Exited
  <2>4. /\ reading \in {"no", "fill", "decode", "drain", "greet"}
        /\ stop \in {"none", "signalled", "terminal", "shell"}
        /\ acceptRetry \in {"none", "waiting", "due"}
    BY DEF Init
  <2> QED  BY <2>1, <2>2, <2>3, <2>4 DEF LoopOK
<1>2. StreamsOK
  BY EmptySeq DEF Init, StreamsOK
<1>3. TerminalOK
  <2>1. 0 \in 0 .. PtyCap
    BY BoundsAssumption
  <2> QED  BY <2>1 DEF Init, TerminalOK
<1>4. FreeConn \in Connection /\ FreeConn.pos = "free"
  BY EmptySeq DEF FreeConn, Connection, Hello, Greetings
<1>5. ConnectionsOK
  BY <1>4 DEF Init, ConnectionsOK, NoAtt, Attachment
<1>6. ProgramsOK
  <2>1. NewProgram \in Program
    BY DEF NewProgram, Program, NoConn, RESUME_FROM_START
  <2>2. 0 \in 0 .. MaxFaults
    BY BoundsAssumption
  <2>3. /\ cli \in [Clients -> Program] /\ faults = 0
        /\ owed \in Debt
    BY <2>1, EmptySeq DEF Init, NothingOwed, Debt
  <2> QED  BY <2>2, <2>3 DEF ProgramsOK
<1>7. NoConnectionLeaks
  BY <1>4 DEF Init, NoConnectionLeaks
<1>8. SnapshotHolds
  BY DEF Init, SnapshotHolds, Waiting, Stopping
<1> QED  BY <1>1, <1>2, <1>3, <1>5, <1>6, <1>7, <1>8 DEF IInv, TypeOK

(* The inductive invariant.  The type of the connections rests on the       *)
(* snapshot: without it a greeting could be settled for a connection that   *)
(* is not there, and an accept could lose the one that is.                  *)
THEOREM InductiveInvariant == Spec => []IInv
<1>1. IInv /\ [Next]_vars => IInv'
  <2> SUFFICES ASSUME IInv, [Next]_vars PROVE IInv'
    OBVIOUS
  <2>1. CASE DaemonStep
    BY <2>1, PollKeepsIInv, EndPassKeepsIInv, ShutdownKeepsIInv, ReadPtyKeepsIInv,
       HangUpKeepsIInv, ApplyWinKeepsIInv, WritePtyKeepsIInv, CollectOutcomeKeepsIInv,
       ReadClientKeepsIInv, DecodeKeepsIInv, DecodeEndsKeepsIInv, AcceptKeepsIInv,
       ReadPendingKeepsIInv, GreetKeepsIInv, PumpOutputKeepsIInv, WriteClientKeepsIInv
    DEF DaemonStep
  <2>2. CASE ShellStep
    BY <2>2, ShellStepKeepsIInv
  <2>3. CASE ClientStep
    BY <2>3, ProbeKeepsIInv, ConnectKeepsIInv, TypeKeepsIInv, SayKeepsIInv,
       ClientReadKeepsIInv, HangsUpKeepsIInv
    DEF ClientStep
  <2>4. CASE Tick \/ SigTerm \/ PollFails
    BY <2>4, TickKeepsIInv, SigTermKeepsIInv, PollFailsKeepsIInv
  <2>5. CASE UNCHANGED vars
    BY <2>5, StutterKeepsIInv
  <2> QED  BY <2>1, <2>2, <2>3, <2>4, <2>5 DEF Next
<1> QED  BY InitEstablishesIInv, <1>1, PTL DEF Spec

(* Every variable of the daemon and of the world around it keeps its type.  *)
THEOREM DaemonTypeCorrect == Spec => []TypeOK
<1>1. IInv => TypeOK
  BY DEF IInv
<1> QED  BY InductiveInvariant, <1>1, PTL

(* Through every refusal, takeover, failed read, failed accept and expired  *)
(* greeting, the daemon holds a descriptor for its client and its pending   *)
(* connection, and for no other.                                            *)
THEOREM DaemonHoldsNoOthers == Spec => []NoConnectionLeaks
<1>1. IInv => NoConnectionLeaks
  BY DEF IInv
<1> QED  BY InductiveInvariant, <1>1, PTL

-----------------------------------------------------------------------------
(* The two streams: only a few handlers touch either, and of the others     *)
(* there is nothing to show but that.                                       *)

Byte == Nat \cup {CtrlL}

LEMMA BytesAssociate ==
  ASSUME NEW s \in Seq(Byte), NEW t \in Seq(Byte), NEW u \in Seq(Byte)
  PROVE  (s \o t) \o u = s \o (t \o u)
OBVIOUS

-----------------------------------------------------------------------------
(* The account of the input *)

(* What InputExactlyOnce says of the terminal's input `s`, the offset `n`   *)
(* applied and whether input was ever dropped.                              *)
Increasing(s) ==
  \A i, j \in DOMAIN s : i < j /\ s[i] # CtrlL /\ s[j] # CtrlL => s[i] < s[j]
Below(s, n) == \A i \in DOMAIN s : s[i] < n
Holds(s, b) == \E i \in DOMAIN s : s[i] = b
Complete(s, n) == \A b \in 0 .. n - 1 : Holds(s, b)
Account(s, n, d) == Increasing(s) /\ Below(s, n) /\ (~d => Complete(s, n))

LEMMA AccountIsExactlyOnce ==
  InputExactlyOnce <=> Account(fed \o pendIn, inApplied, dropped)
BY DEF InputExactlyOnce, Account, Increasing, Below, Complete, Holds

(* A repaint's ^L, put behind the input, is no byte of it.                  *)
LEMMA RepaintKeepsAccount ==
  ASSUME NEW s \in Seq(Byte), NEW n \in Nat, NEW d, Account(s, n, d)
  PROVE  Account(Append(s, CtrlL), n, d)
<1> DEFINE t == Append(s, CtrlL)
<1>1. /\ Len(s) \in Nat /\ DOMAIN s = 1 .. Len(s)
      /\ DOMAIN t = 1 .. Len(s) + 1
      /\ \A i \in DOMAIN s : t[i] = s[i]
      /\ t[Len(s) + 1] = CtrlL
  BY DEF Byte
<1>2. CtrlL < n
  BY DEF CtrlL
<1> HIDE DEF t
<1>3. \A i \in DOMAIN t : i \in DOMAIN s \/ t[i] = CtrlL
  BY <1>1
<1>4. Increasing(t)
  BY <1>1, <1>3 DEF Account, Increasing
<1>5. Below(t, n)
  BY <1>1, <1>2, <1>3 DEF Account, Below
<1>6. DOMAIN s \subseteq DOMAIN t
  BY <1>1
<1>7. Complete(s, n) => Complete(t, n)
  BY <1>1, <1>6 DEF Complete, Holds
<1> QED  BY <1>4, <1>5, <1>7 DEF Account, t

(* The bytes next in the stream, put behind the input, extend the account.  *)
LEMMA FreshExtendsAccount ==
  ASSUME NEW s \in Seq(Byte), NEW n \in Nat, NEW m \in Nat, m > n, NEW d, Account(s, n, d)
  PROVE  Account(s \o [i \in 1 .. m - n |-> n + i - 1], m, d)
<1> DEFINE f == [i \in 1 .. m - n |-> n + i - 1]
           t == s \o f
<1>1. m - n \in Nat /\ f \in Seq(Nat) /\ Len(f) = m - n
  <2>1. \A i \in 1 .. m - n : n + i - 1 \in Nat
    OBVIOUS
  <2>2. m - n \in Nat
    OBVIOUS
  <2> QED  BY <2>1, <2>2, IsASeq, LenProperties
<1>2. /\ Len(s) \in Nat /\ DOMAIN s = 1 .. Len(s)
      /\ Len(t) = Len(s) + (m - n) /\ DOMAIN t = 1 .. Len(s) + (m - n)
      /\ \A i \in DOMAIN s : t[i] = s[i]
      /\ \A i \in 1 .. m - n : t[Len(s) + i] = n + i - 1
  <2>1. f \in Seq(Byte)
    BY <1>1 DEF Byte
  <2>2. \A i \in 1 .. m - n : f[i] = n + i - 1
    OBVIOUS
  <2> HIDE DEF f
  <2>3. t \in Seq(Byte) /\ Len(t) = Len(s) + Len(f)
    BY <2>1, ConcatProperties
  <2>4. \A i \in 1 .. Len(s) + Len(f) :
          t[i] = IF i <= Len(s) THEN s[i] ELSE f[i - Len(s)]
    BY <2>1, ConcatProperties
  <2>5. Len(s) \in Nat /\ DOMAIN s = 1 .. Len(s) /\ DOMAIN t = 1 .. Len(t)
    BY <2>3, LenProperties
  <2> HIDE DEF t
  <2>6. \A i \in DOMAIN s : t[i] = s[i]
    BY <1>1, <2>4, <2>5
  <2>7. ASSUME NEW i \in 1 .. m - n
        PROVE  t[Len(s) + i] = n + i - 1
    <3>1. Len(s) + i \in 1 .. Len(s) + Len(f) /\ ~ (Len(s) + i <= Len(s))
          /\ Len(s) + i - Len(s) = i
      BY <1>1, <2>5
    <3> QED  BY <2>2, <2>4, <3>1
  <2> QED  BY <1>1, <2>3, <2>5, <2>6, <2>7
<1> HIDE DEF t, f
<1>3. \A i \in DOMAIN t : i \in DOMAIN s \/ (i > Len(s) /\ t[i] = n + (i - Len(s)) - 1)
  <2> SUFFICES ASSUME NEW i \in DOMAIN t, i \notin DOMAIN s
               PROVE  i > Len(s) /\ t[i] = n + (i - Len(s)) - 1
    OBVIOUS
  <2>1. i \in Nat /\ i > Len(s) /\ i - Len(s) \in 1 .. m - n /\ Len(s) + (i - Len(s)) = i
    BY <1>2
  <2> QED  BY <1>2, <2>1
<1>4. \A i \in DOMAIN s : s[i] < n
  BY DEF Account, Below
<1>a. \A i \in DOMAIN s : s[i] \in Int
  BY ElementOfSeq, <1>2 DEF Byte, CtrlL
<1>5. Increasing(t)
  <2> SUFFICES ASSUME NEW i \in DOMAIN t, NEW j \in DOMAIN t, i < j,
                      t[i] # CtrlL, t[j] # CtrlL
               PROVE  t[i] < t[j]
    BY DEF Increasing
  <2>1. CASE j \in DOMAIN s
    <3>1. i \in DOMAIN s
      BY <1>2, <2>1
    <3> QED  BY <1>2, <2>1, <3>1 DEF Account, Increasing
  <2>2. CASE i \in DOMAIN s /\ j \notin DOMAIN s
    <3>1. t[i] < n /\ t[i] \in Int
      BY <1>2, <1>4, <1>a, <2>2
    <3>2. t[j] \in Int /\ t[j] >= n
      BY <1>2, <1>3, <2>2
    <3> QED  BY <3>1, <3>2
  <2>3. CASE i \notin DOMAIN s /\ j \notin DOMAIN s
    BY <1>2, <1>3, <2>3
  <2>4. i \in DOMAIN s \/ i \notin DOMAIN s
    OBVIOUS
  <2> QED  BY <2>1, <2>2, <2>3
<1>6. Below(t, m)
  <2> SUFFICES ASSUME NEW i \in DOMAIN t PROVE t[i] < m
    BY DEF Below
  <2>1. CASE i \in DOMAIN s
    BY <1>2, <1>4, <1>a, <2>1
  <2>2. CASE i \notin DOMAIN s
    BY <1>2, <1>3, <2>2
  <2> QED  BY <2>1, <2>2
<1>7. Complete(s, n) => Complete(t, m)
  <2> SUFFICES ASSUME Complete(s, n), NEW b \in 0 .. m - 1 PROVE Holds(t, b)
    BY DEF Complete
  <2>1. CASE b < n
    <3>1. PICK i \in DOMAIN s : s[i] = b
      BY <2>1 DEF Complete, Holds
    <3> QED  BY <1>2, <3>1 DEF Holds
  <2>2. CASE ~ (b < n)
    <3>1. b - n + 1 \in 1 .. m - n /\ n + (b - n + 1) - 1 = b
      BY <2>2
    <3>2. Len(s) + (b - n + 1) \in DOMAIN t
      BY <1>1, <1>2, <3>1
    <3> QED  BY <1>2, <3>1, <3>2 DEF Holds
  <2> QED  BY <2>1, <2>2
<1> QED  BY <1>5, <1>6, <1>7 DEF Account, t, f

(* Throwing the queue away leaves the account of what was written, provided *)
(* it is admitted that input went with it.                                  *)
LEMMA LossIsAdmitted ==
  ASSUME NEW u \in Seq(Byte), NEW v \in Seq(Byte), NEW n \in Nat, NEW d,
         Account(u \o v, n, d)
  PROVE  Account(u \o <<>>, n, d \/ LosesInput(v))
<1> DEFINE s == u \o v
<1>1. /\ Len(u) \in Nat /\ Len(v) \in Nat
      /\ DOMAIN u = 1 .. Len(u) /\ DOMAIN v = 1 .. Len(v)
      /\ DOMAIN s = 1 .. Len(u) + Len(v)
      /\ \A i \in 1 .. Len(u) + Len(v) : s[i] = IF i <= Len(u) THEN u[i] ELSE v[i - Len(u)]
  <2>1. s \in Seq(Byte) /\ Len(s) = Len(u) + Len(v)
    BY ConcatProperties
  <2> QED  BY <2>1, LenProperties, ConcatProperties
<1>2. u \o <<>> = u
  BY ConcatEmptySeq
<1> HIDE DEF s
<1>3. DOMAIN u \subseteq DOMAIN s /\ \A i \in DOMAIN u : s[i] = u[i]
  BY <1>1
<1>4. Account(s, n, d)
  BY DEF s
<1>5. Increasing(u) /\ Below(u, n)
  BY <1>1, <1>3, <1>4 DEF Account, Increasing, Below
<1>6. ASSUME ~d, ~LosesInput(v), NEW b \in 0 .. n - 1
      PROVE  Holds(u, b)
  <2>1. PICK i \in DOMAIN s : s[i] = b
    BY <1>4, <1>6 DEF Account, Complete, Holds
  <2>2. CASE i \in DOMAIN u
    BY <1>3, <2>1, <2>2 DEF Holds
  <2>3. CASE i \notin DOMAIN u
    <3>1. i - Len(u) \in DOMAIN v /\ s[i] = v[i - Len(u)]
      BY <1>1, <2>3
    <3>2. v[i - Len(u)] = CtrlL
      BY <1>6, <3>1 DEF LosesInput
    <3> QED  BY <2>1, <3>1, <3>2 DEF CtrlL
  <2> QED  BY <2>2, <2>3
<1> QED  BY <1>2, <1>5, <1>6 DEF Account, Complete
-----------------------------------------------------------------------------
(* Who touches the streams *)

streamVars == <<ringVars, inVars, fed>>

(* Connecting, greeting, taking over, hanging up, writing to a client and   *)
(* ending the session all leave both streams alone.                         *)
LEMMA OthersLeaveTheStreams ==
  ASSUME [Next]_vars, ~ReadPty, ~WritePty, ~Decode, ~PumpOutput
  PROVE  UNCHANGED streamVars
<1> USE DEF streamVars, ringVars, inVars
<1>1. CASE Poll
  BY <1>1 DEF Poll, kernelVars
<1>2. CASE EndPass
  BY <1>2 DEF EndPass, kernelVars
<1>3. CASE Shutdown
  BY <1>3 DEF Shutdown
<1>4. CASE HangUp
  BY <1>4 DEF HangUp, kernelVars
<1>5. CASE ApplyWin
  BY <1>5 DEF ApplyWin
<1>6. CASE CollectOutcome
  BY <1>6 DEF CollectOutcome, kernelVars
<1>7. CASE ReadClient
  BY <1>7 DEF ReadClient, kernelVars
<1>8. CASE DecodeEnds
  BY <1>8 DEF DecodeEnds, kernelVars
<1>9. CASE Accept
  BY <1>9 DEF Accept, kernelVars
<1>10. CASE ReadPending
  BY <1>10 DEF ReadPending, kernelVars
<1>11. CASE Greet
  BY <1>11 DEF Greet
<1>12. CASE WriteClient
  BY <1>12 DEF WriteClient, kernelVars
<1>13. CASE ShellStep
  BY <1>13 DEF ShellStep, ChildWrite, ChildRead, ChildExit, SlaveClose, daemonVars, kernelVars
<1>14. CASE ClientStep
  <2>1. UNCHANGED <<daemonVars, kernelVars>>
    BY <1>14 DEF ClientStep, Probe, Connect, Type, Say, ClientRead, HangsUp, Outside, Unasked
  <2> QED  BY <2>1 DEF daemonVars, kernelVars
<1>15. CASE Tick
  BY <1>15 DEF Tick, IdleDeadline, PendingDeadline, OutcomeGrace, AcceptBackoff, TimeOnly,
              kernelVars
<1>16. CASE SigTerm \/ PollFails
  BY <1>16 DEF SigTerm, PollFails, daemonVars, kernelVars
<1>17. CASE UNCHANGED vars
  BY <1>17 DEF vars, daemonVars, kernelVars
<1> QED
  BY <1>1, <1>2, <1>3, <1>4, <1>5, <1>6, <1>7, <1>8, <1>9, <1>10, <1>11, <1>12, <1>13,
     <1>14, <1>15, <1>16, <1>17
  DEF Next, DaemonStep

-----------------------------------------------------------------------------
(* The input *)

LEMMA StreamsAreBytes ==
  ASSUME TypeOK
  PROVE  fed \in Seq(Byte) /\ pendIn \in Seq(Byte) /\ inApplied \in Nat
BY DEF TypeOK, StreamsOK, Byte

(* The terminal's end costs the queue. *)
LEMMA ReadPtyKeepsInput ==
  ASSUME TypeOK, InputExactlyOnce, ReadPty
  PROVE  InputExactlyOnce'
<1>1. Account(fed \o pendIn, inApplied, dropped)
  BY AccountIsExactlyOnce
<1>2. UNCHANGED fed
  BY DEF ReadPty
<1>3. CASE UNCHANGED inVars
  BY <1>2, <1>3 DEF InputExactlyOnce, inVars
<1>4. CASE /\ pendIn' = <<>> /\ dropped' = (dropped \/ LosesInput(pendIn))
           /\ UNCHANGED inApplied
  <2>1. Account(fed \o <<>>, inApplied, dropped \/ LosesInput(pendIn))
    BY <1>1, StreamsAreBytes, LossIsAdmitted
  <2>2. Account(fed' \o pendIn', inApplied', dropped')
    BY <1>2, <1>4, <2>1
  <2> QED
    BY <2>2 DEF InputExactlyOnce, Account, Increasing, Below, Complete, Holds
<1> QED  BY <1>3, <1>4 DEF ReadPty

(* What a write takes moves from the queue to the terminal, in its order;   *)
(* a failed one costs the queue.                                            *)
LEMMA WritePtyKeepsInput ==
  ASSUME TypeOK, InputExactlyOnce, WritePty
  PROVE  InputExactlyOnce'
<1>1. Account(fed \o pendIn, inApplied, dropped)
  BY AccountIsExactlyOnce
<1>2. fed \in Seq(Byte) /\ pendIn \in Seq(Byte) /\ UNCHANGED inApplied
  BY StreamsAreBytes DEF WritePty
<1> DEFINE n == SmallerOf(PtyCap - ptyIn, Len(pendIn))
<1>3. CASE /\ pendIn' = DropFirst(pendIn, n) /\ fed' = fed \o SubSeq(pendIn, 1, n)
           /\ UNCHANGED dropped
  <2>1. n \in 0 .. Len(pendIn)
    BY <1>2, LenProperties, BoundsAssumption DEF SmallerOf, TypeOK, TerminalOK
  <2> HIDE DEF n
  <2>2. /\ SubSeq(pendIn, 1, n) \in Seq(Byte) /\ DropFirst(pendIn, n) \in Seq(Byte)
    <3>1. n \in Nat
      BY <2>1
    <3> QED  BY <1>2, <2>1, <3>1, TakeFirstIsSeq, DropFirstIsSeq
  <2>3. SubSeq(pendIn, 1, n) \o DropFirst(pendIn, n) = pendIn
    <3>1. Len(pendIn) \in Nat
      BY <1>2, LenProperties
    <3>2. /\ 1 \in 1 .. Len(pendIn) + 1 /\ n \in 1 - 1 .. Len(pendIn)
          /\ Len(pendIn) \in n .. Len(pendIn)
      BY <2>1, <3>1
    <3>3. SubSeq(pendIn, 1, n) \o SubSeq(pendIn, n + 1, Len(pendIn))
            = SubSeq(pendIn, 1, Len(pendIn))
      BY <1>2, <3>2, ConcatAdjacentSubSeq
    <3>4. SubSeq(pendIn, 1, Len(pendIn)) = pendIn
      BY <1>2, SubSeqFull
    <3> QED  BY <3>3, <3>4 DEF DropFirst
  <2>4. fed' \o pendIn' = fed \o pendIn
    <3>1. (fed \o SubSeq(pendIn, 1, n)) \o DropFirst(pendIn, n)
            = fed \o (SubSeq(pendIn, 1, n) \o DropFirst(pendIn, n))
      BY <1>2, <2>2, BytesAssociate
    <3> QED  BY <1>3, <2>3, <3>1 DEF n
  <2> QED  BY ZenonT(30), <1>2, <1>3, <2>4 DEF InputExactlyOnce
<1>4. CASE /\ pendIn' = <<>> /\ dropped' = (dropped \/ LosesInput(pendIn))
           /\ UNCHANGED fed
  <2>1. Account(fed \o <<>>, inApplied, dropped \/ LosesInput(pendIn))
    BY <1>1, StreamsAreBytes, LossIsAdmitted
  <2>2. Account(fed' \o pendIn', inApplied', dropped')
    BY <1>2, <1>4, <2>1
  <2> QED
    BY <2>2 DEF InputExactlyOnce, Account, Increasing, Below, Complete, Holds
<1> QED  BY <1>3, <1>4 DEF WritePty

(* An Input adds what is new in it, and that follows on what was applied;   *)
(* a replay adds nothing, and one that would leave a hole is refused.       *)
LEMMA DecodeKeepsInput ==
  ASSUME IInv, InputExactlyOnce, Decode
  PROVE  InputExactlyOnce'
<1> DEFINE f == Head(conn[client].rx)
           cn == [conn EXCEPT ![client].rx = Tail(@)]
<1>1. client \in Conns /\ conn[client].rx # <<>> /\ HandleFrame(f, cn) /\ UNCHANGED fed
  BY DEF IInv, TypeOK, ConnectionsOK, Decode, MoreToDecode, HasFrame, kernelVars
<1>2. f \in ClientFrame
  BY <1>1, TakenIsConnection DEF IInv, TypeOK, ConnectionsOK
<1> HIDE DEF f, cn
<1>3. f.at \in Nat /\ f.n \in Nat
  BY <1>2 DEF ClientFrame
<1>4. fed \in Seq(Byte) /\ pendIn \in Seq(Byte) /\ inApplied \in Nat
  BY StreamsAreBytes DEF IInv
<1>5. Account(fed \o pendIn, inApplied, dropped)
  BY AccountIsExactlyOnce
<1>6. CASE UNCHANGED inVars
  BY <1>1, <1>6 DEF InputExactlyOnce, inVars
<1>7. CASE /\ ~SkipsAhead(f) /\ inApplied' = AppliedThrough(f)
           /\ pendIn' = IF closed THEN pendIn ELSE pendIn \o Fresh(f)
           /\ dropped' = (dropped \/ (closed /\ Fresh(f) # <<>>))
  <2> DEFINE m == f.at + f.n
  <2>1. m \in Nat /\ (m > inApplied => AppliedThrough(f) = m)
        /\ (~ (m > inApplied) => AppliedThrough(f) = inApplied)
    BY <1>3, <1>4 DEF AppliedThrough, LargerOf
  <2>2. Fresh(f) = [i \in 1 .. m - inApplied |-> inApplied + i - 1]
    <3>1. Fresh(f) = [i \in 1 .. (f.at + f.n - inApplied) |-> inApplied + i - 1]
      BY DEF Fresh
    <3>2. m - inApplied = f.at + f.n - inApplied
      BY <1>3, <1>4
    <3> HIDE DEF m
    <3> QED  BY <3>1, <3>2, Zenon
  <2>3. CASE ~ (m > inApplied)
    <3>1. 1 .. m - inApplied = {}
      BY <1>4, <2>1, <2>3
    <3>2. Fresh(f) = <<>>
      BY <2>2, <3>1
    <3>3. pendIn \o <<>> = pendIn
      BY <1>4, ConcatEmptySeq
    <3>4. pendIn' = pendIn /\ inApplied' = inApplied /\ (dropped' <=> dropped)
      BY <1>7, <2>1, <2>3, <3>2, <3>3
    <3> QED  BY <1>1, <3>4 DEF InputExactlyOnce
  <2>4. CASE m > inApplied
    <3> DEFINE t == [i \in 1 .. m - inApplied |-> inApplied + i - 1]
    <3>1. m - inApplied \in Nat /\ m - inApplied > 0
      BY <1>4, <2>1, <2>4
    <3>2. t \in Seq(Byte) /\ Len(t) = m - inApplied
      <4>1. \A i \in 1 .. m - inApplied : inApplied + i - 1 \in Byte
        BY <1>4 DEF Byte
      <4>2. t \in Seq(Byte)
        BY <3>1, <4>1, IsASeq
      <4>3. DOMAIN t = 1 .. m - inApplied
        OBVIOUS
      <4> HIDE DEF t
      <4> QED  BY <3>1, <4>2, <4>3, LenProperties
    <3>3. fed \o pendIn \in Seq(Byte)
      BY <1>4, ConcatProperties
    <3>4. Account((fed \o pendIn) \o t, m, dropped)
      BY <1>4, <1>5, <2>1, <2>4, <3>3, FreshExtendsAccount
    <3>5. (fed \o pendIn) \o t = fed \o (pendIn \o t)
      BY <1>4, <3>2, BytesAssociate
    <3>6. inApplied' = m /\ Fresh(f) = t
      BY <1>7, <2>1, <2>2, <2>4
    <3> HIDE DEF t, m
    <3>7. CASE ~closed
      <4>1. fed' \o pendIn' = fed \o (pendIn \o t) /\ (dropped' <=> dropped)
        BY <1>1, <1>7, <3>6, <3>7
      <4>2. Account(fed' \o pendIn', inApplied', dropped')
        BY <3>4, <3>5, <3>6, <4>1 DEF Account
      <4> QED
        BY <4>2 DEF InputExactlyOnce, Account, Increasing, Below, Complete, Holds
    <3>8. CASE closed
      <4>1. t # <<>>
        BY <3>1, <3>2, EmptySeq
      <4>2. fed' \o pendIn' = fed \o pendIn /\ dropped'
        BY <1>1, <1>7, <3>6, <3>8, <4>1
      <4>3. ASSUME NEW i \in DOMAIN (fed \o pendIn)
            PROVE  (fed \o pendIn)[i] < m
        <5>1. (fed \o pendIn)[i] \in Byte
          BY <3>3, ElementOfSeq, LenProperties
        <5>2. (fed \o pendIn)[i] < inApplied
          BY <1>5 DEF Account, Below
        <5> QED  BY <1>4, <2>1, <2>4, <5>1, <5>2 DEF Byte, CtrlL
      <4>4. Account(fed' \o pendIn', inApplied', dropped')
        BY <1>5, <3>6, <4>2, <4>3 DEF Account, Below
      <4> QED
        BY <4>4 DEF InputExactlyOnce, Account, Increasing, Below, Complete, Holds
    <3> QED  BY <3>7, <3>8
  <2> QED  BY <2>3, <2>4
<1> QED  BY <1>1, <1>6, <1>7 DEF HandleFrame, OnInput

(* A repaint may put a ^L behind the queue. *)
LEMMA PumpKeepsInput ==
  ASSUME TypeOK, InputExactlyOnce, PumpOutput
  PROVE  InputExactlyOnce'
<1>1. Account(fed \o pendIn, inApplied, dropped)
  BY AccountIsExactlyOnce
<1>2. fed \in Seq(Byte) /\ pendIn \in Seq(Byte) /\ inApplied \in Nat
  BY StreamsAreBytes
<1>3. UNCHANGED <<fed, inApplied, dropped>> /\ pendIn' \in {pendIn, Append(pendIn, CtrlL)}
  BY DEF PumpOutput
<1>4. CASE pendIn' = pendIn
  BY <1>3, <1>4 DEF InputExactlyOnce
<1>5. CASE pendIn' = Append(pendIn, CtrlL)
  <2>1. CtrlL \in Byte /\ <<CtrlL>> \in Seq(Byte)
    BY DEF Byte
  <2>2. fed \o pendIn \in Seq(Byte)
    BY <1>2, ConcatProperties
  <2>3. Append(fed \o pendIn, CtrlL) = (fed \o pendIn) \o <<CtrlL>>
    BY <2>1, <2>2, AppendIsConcat
  <2>4. Append(pendIn, CtrlL) = pendIn \o <<CtrlL>>
    BY <1>2, <2>1, AppendIsConcat
  <2>5. fed' \o pendIn' = Append(fed \o pendIn, CtrlL)
    BY <1>2, <1>3, <1>5, <2>1, <2>3, <2>4, BytesAssociate
  <2>6. Account(Append(fed \o pendIn, CtrlL), inApplied, dropped)
    BY <1>1, <1>2, <2>2, RepaintKeepsAccount
  <2>7. Account(fed' \o pendIn', inApplied', dropped')
    BY <1>3, <2>5, <2>6
  <2> QED
    BY <2>7 DEF InputExactlyOnce, Account, Increasing, Below, Complete, Holds
<1> QED  BY <1>3, <1>4, <1>5

LEMMA StepsKeepInput ==
  ASSUME IInv, InputExactlyOnce, [Next]_vars
  PROVE  InputExactlyOnce'
<1>0. TypeOK
  BY DEF IInv
<1>1. CASE ReadPty
  BY <1>0, <1>1, ReadPtyKeepsInput
<1>2. CASE WritePty
  BY <1>0, <1>2, WritePtyKeepsInput
<1>3. CASE Decode
  BY <1>3, DecodeKeepsInput
<1>4. CASE PumpOutput
  BY <1>0, <1>4, PumpKeepsInput
<1>5. CASE ~ReadPty /\ ~WritePty /\ ~Decode /\ ~PumpOutput
  BY <1>5, OthersLeaveTheStreams DEF InputExactlyOnce, streamVars, inVars
<1> QED  BY <1>1, <1>2, <1>3, <1>4, <1>5

(* What the clients typed reaches the terminal in order, none of it twice,  *)
(* and none of it missing unless the daemon had to throw the queue away,    *)
(* over every replay after a reconnect and every takeover in the middle of  *)
(* a paste (on_input, write_pty, pump_output's ^L).                         *)
THEOREM DaemonAppliesInputOnce == Spec => []InputExactlyOnce
<1>1. Init => InputExactlyOnce
  <2> SUFFICES ASSUME Init PROVE InputExactlyOnce
    OBVIOUS
  <2>1. fed \o pendIn = <<>> /\ inApplied = 0
    BY EmptySeq, ConcatEmptySeq DEF Init
  <2>2. DOMAIN <<>> = {} /\ 0 .. 0 - 1 = {}
    OBVIOUS
  <2> QED  BY <2>1, <2>2 DEF InputExactlyOnce
<1>2. IInv /\ InputExactlyOnce /\ [Next]_vars => InputExactlyOnce'
  BY StepsKeepInput
<1> QED  BY <1>1, <1>2, InductiveInvariant, PTL DEF Spec

-----------------------------------------------------------------------------
(* What the daemon and its clients say to each other.  The invariant speaks *)
(* of one connection at a time.  What a client still has under way on it    *)
(* follows on what the session applied, frame by frame, up to the offset    *)
(* the client will use next; what the daemon says on it is true.  A handler *)
(* is a few calls of Conn, each of which carries that over, so one lemma a  *)
(* call serves every handler.                                               *)

(* What is under way to the daemon: decoded next, then still in the socket. *)
Under(k) == k.rx \o k.up

(* By the first `m` frames of `q`, a session that applied `n` reaches `x`.  *)
Reaches(q, m, n, x) ==
  x <= n \/ \E j \in 1 .. m : q[j].type = "Input" /\ x <= EndOf(q[j])

(* No Input of `q` skips ahead of those before it. *)
Follows(q, n) ==
  \A i \in DOMAIN q : q[i].type = "Input" => Reaches(q, i - 1, n, q[i].at)

(* What the daemon may say with `n` bytes of input applied. *)
Truthful(f, n) == f.type # "InputGap" /\ (Acks(f) => Acked(f) <= n)

SaysTruth(k, n) ==
  /\ \A i \in DOMAIN k.tx : Truthful(k.tx[i], n)
  /\ \A i \in DOMAIN k.down : Truthful(k.down[i], n)
OutputIsShallow(k) ==
  \A i \in DOMAIN k.tx : k.tx[i].type = "Output" => i <= MaxPendingWrite
Good(k, n) == SaysTruth(k, n) /\ OutputIsShallow(k) /\ Follows(Under(k), n)

ReachedBy(k, n, x) == Reaches(Under(k), Len(Under(k)), n, x)

(* A Hello among what is under way. *)
Greets(k) == \E i \in DOMAIN Under(k) : Under(k)[i].type = "Hello"

(* Whose connection it is and how it greets is settled when it is made: a   *)
(* Hello it brings later was with it from the start.                        *)
SameParty(k, l) == l.own = k.own /\ l.hello = k.hello /\ (Greets(l) => Greets(k))

(* A connection goes from `k` to `l` while the offset applied goes from `n` *)
(* to `m`, and what was right of it stays right.                            *)
Carries(k, n, l, m) ==
  /\ SameParty(k, l)
  /\ Good(k, n) => Good(l, m)
  /\ k.pos # "free" => l.pos # "free"
  /\ l.pos # "closed" =>
       /\ k.pos # "closed"
       /\ \A x \in Nat : ReachedBy(k, n, x) => ReachedBy(l, m, x)

-----------------------------------------------------------------------------
(* Sequences *)

LEMMA FramesAssociate ==
  ASSUME NEW s \in Seq(ClientFrame), NEW t \in Seq(ClientFrame), NEW u \in Seq(ClientFrame)
  PROVE  (s \o t) \o u = s \o (t \o u)
OBVIOUS

LEMMA TakenAndLeft ==
  ASSUME NEW S, NEW s \in Seq(S), NEW n \in 0 .. Len(s)
  PROVE  SubSeq(s, 1, n) \o DropFirst(s, n) = s
<1>1. Len(s) \in Nat
  BY LenProperties
<1>2. /\ 1 \in 1 .. Len(s) + 1 /\ n \in 1 - 1 .. Len(s) /\ Len(s) \in n .. Len(s)
  BY <1>1
<1>3. SubSeq(s, 1, n) \o SubSeq(s, n + 1, Len(s)) = SubSeq(s, 1, Len(s))
  BY <1>2, ConcatAdjacentSubSeq
<1>4. SubSeq(s, 1, Len(s)) = s
  BY SubSeqFull
<1> QED  BY <1>3, <1>4 DEF DropFirst

LEMMA HeadOfConcat ==
  ASSUME NEW s \in Seq(ClientFrame), NEW t \in Seq(ClientFrame), s # <<>>
  PROVE  /\ s \o t # <<>> /\ Head(s \o t) = Head(s)
         /\ Tail(s \o t) = Tail(s) \o t
OBVIOUS

LEMMA HeadIsFirst ==
  ASSUME NEW s \in Seq(ClientFrame), s # <<>>
  PROVE  1 \in DOMAIN s /\ s[1] = Head(s)
<1>1. Len(s) \in Nat /\ Len(s) # 0 /\ DOMAIN s = 1 .. Len(s)
  BY LenProperties, EmptySeq
<1> QED  BY <1>1, HeadTailProperties

-----------------------------------------------------------------------------
(* Frames under way *)

LEMMA UnderIsFrames ==
  ASSUME NEW k \in Connection
  PROVE  /\ k.rx \in Seq(ClientFrame) /\ k.up \in Seq(ClientFrame)
         /\ Under(k) \in Seq(ClientFrame)
<1>1. k.rx \in Seq(ClientFrame) /\ k.up \in Seq(ClientFrame)
  BY DEF Connection
<1> QED  BY <1>1, ConcatProperties DEF Under

LEMMA InputsHaveEnds ==
  ASSUME NEW f \in ClientFrame
  PROVE  f.at \in Nat /\ f.n \in Nat /\ EndOf(f) \in Nat
BY DEF ClientFrame, EndOf

LEMMA LaterReachesMore ==
  ASSUME NEW q, NEW m \in Nat, NEW n \in Nat, NEW l \in Nat, n <= l, NEW x \in Nat,
         Reaches(q, m, n, x)
  PROVE  Reaches(q, m, l, x)
BY DEF Reaches

LEMMA LaterFollows ==
  ASSUME NEW q \in Seq(ClientFrame), NEW n \in Nat, NEW l \in Nat, n <= l, Follows(q, n)
  PROVE  Follows(q, l)
<1> SUFFICES ASSUME NEW i \in DOMAIN q, q[i].type = "Input"
             PROVE  Reaches(q, i - 1, l, q[i].at)
  BY DEF Follows
<1>1. i \in Nat /\ i - 1 \in Nat /\ q[i].at \in Nat
  BY InputsHaveEnds, LenProperties, ElementOfSeq
<1>2. Reaches(q, i - 1, n, q[i].at)
  BY DEF Follows
<1> QED  BY <1>1, <1>2, LaterReachesMore

(* The head of the queue is applied, and the rest follows on that.          *)
LEMMA RestFollows ==
  ASSUME NEW q \in Seq(ClientFrame), q # <<>>, NEW n \in Nat, NEW m \in Nat, n <= m,
         Head(q).type = "Input" => EndOf(Head(q)) <= m
  PROVE  /\ Follows(q, n) => Follows(Tail(q), m)
         /\ \A x \in Nat : Reaches(q, Len(q), n, x) => Reaches(Tail(q), Len(Tail(q)), m, x)
<1> DEFINE t == Tail(q)
<1>1. /\ Len(q) \in Nat /\ Len(q) >= 1 /\ DOMAIN q = 1 .. Len(q)
      /\ t \in Seq(ClientFrame) /\ Len(t) = Len(q) - 1 /\ DOMAIN t = 1 .. Len(q) - 1
      /\ \A i \in 1 .. Len(q) - 1 : t[i] = q[i + 1]
      /\ q[1] = Head(q)
  BY HeadTailProperties, LenProperties, EmptySeq
<1> HIDE DEF t
<1>2. \A i \in DOMAIN q : q[i] \in ClientFrame
  BY <1>1, ElementOfSeq
<1>3. ASSUME NEW x \in Nat, NEW l \in 1 .. Len(q), Reaches(q, l, n, x)
      PROVE  Reaches(t, l - 1, m, x)
  <2>1. CASE x <= n
    BY <2>1 DEF Reaches
  <2>2. CASE \E j \in 1 .. l : q[j].type = "Input" /\ x <= EndOf(q[j])
    <3>1. PICK j \in 1 .. l : q[j].type = "Input" /\ x <= EndOf(q[j])
      BY <2>2
    <3>2. CASE j = 1
      <4>1. EndOf(q[1]) \in Nat
        BY <1>1, <1>2, InputsHaveEnds
      <4> QED  BY <1>1, <3>1, <3>2, <4>1 DEF Reaches
    <3>3. CASE j # 1
      <4>1. j - 1 \in 1 .. l - 1 /\ t[j - 1] = q[j]
        BY <1>1, <3>3
      <4> QED  BY <3>1, <4>1 DEF Reaches
    <3> QED  BY <3>2, <3>3
  <2> QED  BY <1>3, <2>1, <2>2 DEF Reaches
<1>4. ASSUME Follows(q, n) PROVE Follows(t, m)
  <2> SUFFICES ASSUME NEW i \in DOMAIN t, t[i].type = "Input"
               PROVE  Reaches(t, i - 1, m, t[i].at)
    BY DEF Follows
  <2>1. i + 1 \in DOMAIN q /\ t[i] = q[i + 1] /\ i \in 1 .. Len(q) /\ i + 1 - 1 = i
    BY <1>1
  <2>2. q[i + 1].at \in Nat
    BY <1>2, <2>1, InputsHaveEnds
  <2>3. Reaches(q, i, n, q[i + 1].at)
    BY <1>4, <2>1 DEF Follows
  <2> QED  BY <1>3, <2>1, <2>2, <2>3
<1>5. Len(q) \in 1 .. Len(q)
  BY <1>1
<1> QED  BY <1>1, <1>3, <1>4, <1>5 DEF t

(* One frame more: no Input, or one that begins where the queue reaches.    *)
LEMMA OneMoreFollows ==
  ASSUME NEW q \in Seq(ClientFrame), NEW f \in ClientFrame, NEW n \in Nat
  PROVE  /\ Follows(q, n) /\ (f.type = "Input" => Reaches(q, Len(q), n, f.at))
              => Follows(Append(q, f), n)
         /\ \A x \in Nat : Reaches(q, Len(q), n, x) => Reaches(Append(q, f), Len(q) + 1, n, x)
         /\ f.type = "Input" => Reaches(Append(q, f), Len(q) + 1, n, EndOf(f))
<1> DEFINE t == Append(q, f)
<1>1. /\ Len(q) \in Nat /\ DOMAIN q = 1 .. Len(q)
      /\ DOMAIN t = 1 .. Len(q) + 1
      /\ \A i \in 1 .. Len(q) : t[i] = q[i]
      /\ t[Len(q) + 1] = f
  BY LenProperties
<1> HIDE DEF t
<1>2. ASSUME NEW x, NEW l \in 0 .. Len(q), Reaches(q, l, n, x)
      PROVE  Reaches(t, l, n, x)
  BY <1>1, <1>2 DEF Reaches
<1>3. ASSUME NEW x, Reaches(q, Len(q), n, x)
      PROVE  Reaches(t, Len(q), n, x) /\ Reaches(t, Len(q) + 1, n, x)
  BY <1>1, <1>3 DEF Reaches
<1>4. ASSUME Follows(q, n), f.type = "Input" => Reaches(q, Len(q), n, f.at)
      PROVE  Follows(t, n)
  <2> SUFFICES ASSUME NEW i \in DOMAIN t, t[i].type = "Input"
               PROVE  Reaches(t, i - 1, n, t[i].at)
    BY DEF Follows
  <2>1. CASE i \in 1 .. Len(q)
    <3>1. Reaches(q, i - 1, n, q[i].at) /\ t[i] = q[i] /\ i - 1 \in 0 .. Len(q)
      BY <1>1, <1>4, <2>1 DEF Follows
    <3> QED  BY <1>2, <3>1
  <2>2. CASE i = Len(q) + 1
    <3>1. t[i] = f /\ i - 1 = Len(q)
      BY <1>1, <2>2
    <3> QED  BY <1>3, <1>4, <3>1
  <2> QED  BY <1>1, <2>1, <2>2
<1>5. f.type = "Input" => Reaches(t, Len(q) + 1, n, EndOf(f))
  <2>1. EndOf(f) \in Nat /\ Len(q) + 1 \in 1 .. Len(q) + 1
    BY <1>1, InputsHaveEnds
  <2> QED  BY <1>1, <2>1 DEF Reaches
<1> QED  BY <1>3, <1>4, <1>5 DEF t

-----------------------------------------------------------------------------
(* What the calls of Conn carry over *)

LEMMA CarriesOn ==
  ASSUME NEW k, NEW n, NEW l, NEW m, NEW j, NEW o, Carries(k, n, l, m), Carries(l, m, j, o)
  PROVE  Carries(k, n, j, o)
BY DEF Carries, SameParty

(* Nothing happens on a connection while more input is applied.             *)
LEMMA MoreIsAppliedCarries ==
  ASSUME NEW k \in Connection, NEW n \in Nat, NEW m \in Nat, n <= m
  PROVE  Carries(k, n, k, m)
<1>1. \A f \in ServerFrame : Truthful(f, n) => Truthful(f, m)
  <2> SUFFICES ASSUME NEW f \in ServerFrame, Truthful(f, n) PROVE Truthful(f, m)
    OBVIOUS
  <2>1. Acked(f) \in Nat
    BY DEF ServerFrame, Acked
  <2> QED  BY <2>1 DEF Truthful
<1>2. /\ \A i \in DOMAIN k.tx : k.tx[i] \in ServerFrame
      /\ \A i \in DOMAIN k.down : k.down[i] \in ServerFrame
  BY ElementOfSeq, LenProperties DEF Connection
<1>3. SaysTruth(k, n) => SaysTruth(k, m)
  BY <1>1, <1>2 DEF SaysTruth
<1>4. Follows(Under(k), n) => Follows(Under(k), m)
  BY UnderIsFrames, LaterFollows
<1>5. ASSUME NEW x \in Nat, ReachedBy(k, n, x)
      PROVE  ReachedBy(k, m, x)
  <2>1. Len(Under(k)) \in Nat
    BY UnderIsFrames, LenProperties
  <2> QED  BY <1>5, <2>1, LaterReachesMore DEF ReachedBy
<1> QED  BY <1>3, <1>4, <1>5 DEF Carries, Good, SameParty

LEMMA NothingCarries ==
  ASSUME NEW k \in Connection, NEW n \in Nat
  PROVE  Carries(k, n, k, n)
BY DEF Carries, SameParty

(* A change of what is said only. *)
LEMMA SpeechCarries ==
  ASSUME NEW k, NEW n, NEW l,
         l.own = k.own, l.hello = k.hello, l.rx = k.rx, l.up = k.up, l.pos = k.pos,
         SaysTruth(k, n) /\ OutputIsShallow(k) => SaysTruth(l, n) /\ OutputIsShallow(l)
  PROVE  Carries(k, n, l, n)
BY DEF Carries, Good, Under, ReachedBy, SameParty, Greets

(* Conn::send of anything but output: a reply, a refusal, an Exit.          *)
LEMMA SentCarries ==
  ASSUME NEW k \in Connection, NEW n \in Nat,
         NEW f \in ServerFrame, f.type # "Output", Truthful(f, n)
  PROVE  Carries(k, n, Sent(k, f), n)
<1> DEFINE l == Sent(k, f)
<1>1. /\ l.own = k.own /\ l.hello = k.hello /\ l.rx = k.rx /\ l.up = k.up
      /\ l.pos = k.pos /\ l.down = k.down /\ l.tx = Append(k.tx, f)
  BY DEF Sent, Connection
<1>2. /\ Len(k.tx) \in Nat /\ DOMAIN k.tx = 1 .. Len(k.tx)
      /\ DOMAIN Append(k.tx, f) = 1 .. Len(k.tx) + 1
      /\ \A i \in 1 .. Len(k.tx) : Append(k.tx, f)[i] = k.tx[i]
      /\ Append(k.tx, f)[Len(k.tx) + 1] = f
  BY LenProperties DEF Connection
<1> HIDE DEF l
<1>3. SaysTruth(k, n) => SaysTruth(l, n)
  BY <1>1, <1>2 DEF SaysTruth
<1>4. OutputIsShallow(k) => OutputIsShallow(l)
  BY <1>1, <1>2 DEF OutputIsShallow
<1> QED  BY <1>1, <1>3, <1>4, SpeechCarries DEF l

(* What a write takes of the queue brings the rest of it forward.           *)
LEMMA WrittenCarries ==
  ASSUME NEW k \in Connection, NEW n \in Nat, NEW w \in 0 .. Queued(k)
  PROVE  Carries(k, n, Written(k, w), n)
<1> DEFINE l == Written(k, w)
           gone == SubSeq(k.tx, 1, w)
<1>1. /\ l.own = k.own /\ l.hello = k.hello /\ l.rx = k.rx /\ l.up = k.up
      /\ l.pos = k.pos /\ l.down = k.down \o gone /\ l.tx = DropFirst(k.tx, w)
  BY DEF Written, Connection
<1>2. /\ k.tx \in Seq(ServerFrame) /\ k.down \in Seq(ServerFrame)
      /\ Len(k.tx) \in Nat /\ DOMAIN k.tx = 1 .. Len(k.tx)
      /\ w \in 0 .. Len(k.tx) /\ w \in Nat
      /\ Len(k.down) \in Nat /\ DOMAIN k.down = 1 .. Len(k.down)
  BY LenProperties DEF Connection, Queued
<1>3. \A i \in DOMAIN k.tx : k.tx[i] \in ServerFrame
  BY <1>2, ElementOfSeq
<1>4. /\ gone \in Seq(ServerFrame) /\ Len(gone) = w /\ DOMAIN gone = 1 .. w
      /\ \A i \in 1 .. w : gone[i] = k.tx[i]
  BY <1>2, <1>3, SubSeqProperties
<1>5. /\ DOMAIN DropFirst(k.tx, w) = 1 .. Len(k.tx) - w
      /\ \A i \in 1 .. Len(k.tx) - w : DropFirst(k.tx, w)[i] = k.tx[i + w]
  BY <1>2, <1>3, SubSeqProperties DEF DropFirst
<1>a. DOMAIN l.tx = 1 .. Len(k.tx) - w /\ \A i \in 1 .. Len(k.tx) - w : l.tx[i] = k.tx[i + w]
  BY <1>1, <1>5
<1> HIDE DEF l, gone
<1>6. /\ DOMAIN (k.down \o gone) = 1 .. Len(k.down) + w
      /\ \A i \in 1 .. Len(k.down) + w :
           (k.down \o gone)[i] = IF i <= Len(k.down) THEN k.down[i] ELSE gone[i - Len(k.down)]
  <2>1. k.down \o gone \in Seq(ServerFrame) /\ Len(k.down \o gone) = Len(k.down) + w
    BY <1>2, <1>4, ConcatProperties
  <2>2. \A i \in 1 .. Len(k.down) + Len(gone) :
           (k.down \o gone)[i] = IF i <= Len(k.down) THEN k.down[i] ELSE gone[i - Len(k.down)]
    BY <1>2, <1>4, ConcatProperties
  <2> QED  BY <1>4, <2>1, <2>2, LenProperties
<1>7. ASSUME SaysTruth(k, n) PROVE SaysTruth(l, n)
  <2>1. ASSUME NEW i \in DOMAIN l.tx PROVE Truthful(l.tx[i], n)
    <3>1. i + w \in DOMAIN k.tx /\ l.tx[i] = k.tx[i + w]
      BY <1>2, <1>a
    <3> QED  BY <1>7, <3>1 DEF SaysTruth
  <2>2. ASSUME NEW i \in DOMAIN l.down PROVE Truthful(l.down[i], n)
    <3>1. CASE i <= Len(k.down)
      <4>1. i \in DOMAIN k.down /\ l.down[i] = k.down[i]
        BY <1>1, <1>2, <1>6, <3>1
      <4> QED  BY <1>7, <4>1 DEF SaysTruth
    <3>2. CASE ~ (i <= Len(k.down))
      <4>1. i - Len(k.down) \in 1 .. w /\ l.down[i] = gone[i - Len(k.down)]
        BY <1>1, <1>2, <1>6, <3>2
      <4>2. i - Len(k.down) \in DOMAIN k.tx /\ l.down[i] = k.tx[i - Len(k.down)]
        BY <1>2, <1>4, <4>1
      <4> QED  BY <1>7, <4>2 DEF SaysTruth
    <3> QED  BY <3>1, <3>2
  <2> QED  BY <2>1, <2>2 DEF SaysTruth
<1>8. ASSUME OutputIsShallow(k) PROVE OutputIsShallow(l)
  <2> SUFFICES ASSUME NEW i \in DOMAIN l.tx, l.tx[i].type = "Output"
               PROVE  i <= MaxPendingWrite
    BY DEF OutputIsShallow
  <2>1. i + w \in DOMAIN k.tx /\ l.tx[i] = k.tx[i + w] /\ i \in Nat
    BY <1>2, <1>a
  <2>2. i + w <= MaxPendingWrite
    BY <1>8, <2>1 DEF OutputIsShallow
  <2> QED  BY <1>2, <2>1, <2>2, BoundsAssumption
<1> QED  BY <1>1, <1>7, <1>8, SpeechCarries DEF l

LEMMA FlushedCarries ==
  ASSUME NEW k \in Connection, NEW n \in Nat
  PROVE  Carries(k, n, Flushed(k), n)
BY RoomIsNat, WrittenCarries DEF Flushed

(* Closing forgets the queue, and what the client had under way.            *)
LEMMA ClosedCarries ==
  ASSUME NEW k \in Connection, NEW n \in Nat
  PROVE  Carries(k, n, Closed(k), n)
<1> DEFINE l == Closed(k)
<1>1. /\ l.own = k.own /\ l.hello = k.hello /\ l.rx = <<>> /\ l.up = <<>>
      /\ l.tx = <<>> /\ l.down = k.down /\ l.pos = "closed"
  BY DEF Closed, Connection
<1> HIDE DEF l
<1>2. DOMAIN l.tx = {}
  BY <1>1
<1>3. SaysTruth(k, n) => SaysTruth(l, n)
  BY <1>1, <1>2 DEF SaysTruth
<1>4. OutputIsShallow(l)
  BY <1>2 DEF OutputIsShallow
<1>5. Follows(Under(l), n) /\ ~Greets(l)
  <2>1. Under(l) = <<>> /\ DOMAIN <<>> = {}
    BY <1>1, ConcatEmptySeq, EmptySeq DEF Under
  <2> QED  BY <2>1 DEF Follows, Greets
<1> QED  BY <1>1, <1>3, <1>4, <1>5 DEF Carries, Good, SameParty, l

LEMMA FinalFlushCarries ==
  ASSUME NEW k \in Connection, NEW n \in Nat, NEW f \in FinalFlushes(k)
  PROVE  Carries(k, n, f, n)
<1>1. CASE f = Closed(k)
  BY <1>1, ClosedCarries
<1>2. CASE f # Closed(k)
  <2>1. PICK w \in SmallerOf(Room(k), Queued(k)) .. Queued(k) : f = Closed(Written(k, w))
    BY <1>2 DEF FinalFlushes
  <2>2. w \in 0 .. Queued(k)
    BY <2>1, RoomIsNat
  <2>3. Carries(k, n, Written(k, w), n) /\ Written(k, w) \in Connection
    BY <2>2, WrittenCarries, WrittenIsConnection
  <2>4. Carries(Written(k, w), n, f, n)
    BY <2>1, <2>3, ClosedCarries
  <2> QED  BY <2>3, <2>4, CarriesOn
<1> QED  BY <1>1, <1>2

(* A change of what is under way that leaves it the same in all.            *)
LEMMA UnderCarries ==
  ASSUME NEW k, NEW n, NEW l, l.own = k.own, l.hello = k.hello, l.tx = k.tx,
         l.down = k.down, l.pos = k.pos, Under(l) = Under(k)
  PROVE  Carries(k, n, l, n)
BY DEF Carries, Good, SaysTruth, OutputIsShallow, ReachedBy, SameParty, Greets

(* Conn::fill moves frames over in their order.                             *)
LEMMA FilledCarries ==
  ASSUME NEW k \in Connection, NEW n \in Nat
  PROVE  Carries(k, n, Filled(k), n)
<1>1. CASE Buffered(k) >= MaxPendingRead
  BY <1>1, NothingCarries DEF Filled
<1>2. CASE ~ (Buffered(k) >= MaxPendingRead)
  <2> DEFINE b == Buffered(k)
             w == SmallerOf(SmallerOf(FillMax, MaxPendingRead - b), Len(k.up))
             l == Filled(k)
  <2>1. k.up \in Seq(ClientFrame) /\ k.rx \in Seq(ClientFrame) /\ Len(k.up) \in Nat /\ b \in Nat
    BY LenProperties DEF Connection, Buffered
  <2>2. w \in 0 .. Len(k.up)
    <3> HIDE DEF b
    <3> QED  BY <1>2, <2>1, BoundsAssumption DEF SmallerOf, b
  <2>3. l = [k EXCEPT !.rx = @ \o SubSeq(k.up, 1, w), !.up = DropFirst(@, w),
                      !.eof = k.up = <<>> /\ k.peer # "open"]
    BY <1>2 DEF Filled
  <2> HIDE DEF w, l, b
  <2>4. /\ l.own = k.own /\ l.hello = k.hello /\ l.tx = k.tx /\ l.down = k.down
        /\ l.pos = k.pos /\ l.rx = k.rx \o SubSeq(k.up, 1, w) /\ l.up = DropFirst(k.up, w)
    BY <2>3 DEF Connection
  <2>5. SubSeq(k.up, 1, w) \in Seq(ClientFrame) /\ DropFirst(k.up, w) \in Seq(ClientFrame)
    <3>1. w \in Nat
      BY <2>2
    <3> QED  BY <2>1, <2>2, <3>1, TakeFirstIsSeq, DropFirstIsSeq
  <2>6. SubSeq(k.up, 1, w) \o DropFirst(k.up, w) = k.up
    BY <2>1, <2>2, TakenAndLeft
  <2>7. Under(l) = k.rx \o (SubSeq(k.up, 1, w) \o DropFirst(k.up, w))
    <3>1. Under(l) = (k.rx \o SubSeq(k.up, 1, w)) \o DropFirst(k.up, w)
      BY <2>4 DEF Under
    <3> QED  BY <2>1, <2>5, <3>1, FramesAssociate
  <2>8. Under(l) = Under(k)
    BY <2>6, <2>7 DEF Under
  <2> QED  BY <2>4, <2>8, UnderCarries DEF l
<1> QED  BY <1>1, <1>2

(* Decoding the frame at the head, with `m` bytes applied after it.         *)
LEMMA DecodedCarries ==
  ASSUME NEW k \in Connection, k.rx # <<>>, NEW n \in Nat, NEW m \in Nat, n <= m,
         Head(k.rx).type = "Input" => EndOf(Head(k.rx)) <= m
  PROVE  Carries(k, n, [k EXCEPT !.rx = Tail(@)], m)
<1> DEFINE l == [k EXCEPT !.rx = Tail(@)]
<1>1. /\ l.own = k.own /\ l.hello = k.hello /\ l.tx = k.tx /\ l.down = k.down
      /\ l.pos = k.pos /\ l.up = k.up /\ l.rx = Tail(k.rx)
  BY DEF Connection
<1>2. k.rx \in Seq(ClientFrame) /\ k.up \in Seq(ClientFrame) /\ Under(k) \in Seq(ClientFrame)
  BY UnderIsFrames
<1> HIDE DEF l
<1>3. Under(k) # <<>> /\ Head(Under(k)) = Head(k.rx) /\ Under(l) = Tail(Under(k))
  <2>1. Under(k) = k.rx \o k.up /\ Under(l) = l.rx \o l.up
    BY DEF Under
  <2>2. Under(l) = Tail(k.rx) \o k.up
    BY <1>1, <2>1
  <2>3. /\ k.rx \o k.up # <<>> /\ Head(k.rx \o k.up) = Head(k.rx)
        /\ Tail(k.rx \o k.up) = Tail(k.rx) \o k.up
    BY <1>2, HeadOfConcat
  <2> QED  BY <2>1, <2>2, <2>3, Zenon
<1>4. /\ Follows(Under(k), n) => Follows(Under(l), m)
      /\ \A x \in Nat : ReachedBy(k, n, x) => ReachedBy(l, m, x)
  BY <1>2, <1>3, RestFollows DEF ReachedBy
<1>5. Carries(k, n, k, m)
  BY MoreIsAppliedCarries
<1>6. SaysTruth(k, m) => SaysTruth(l, m)
  BY <1>1 DEF SaysTruth
<1>7. OutputIsShallow(k) => OutputIsShallow(l)
  BY <1>1 DEF OutputIsShallow
<1>8. Good(k, n) => Good(l, m)
  BY <1>4, <1>5, <1>6, <1>7 DEF Carries, Good
<1>9. Greets(l) => Greets(k)
  <2> DEFINE q == Under(k)
  <2>1. q \in Seq(ClientFrame) /\ q # <<>> /\ Under(l) = Tail(q)
    BY <1>2, <1>3
  <2> HIDE DEF q
  <2>2. \A i \in DOMAIN Tail(q) : i + 1 \in DOMAIN q /\ Tail(q)[i] = q[i + 1]
    BY <2>1
  <2> QED  BY <2>1, <2>2 DEF Greets, q
<1> QED  BY <1>1, <1>4, <1>8, <1>9 DEF Carries, SameParty, l

-----------------------------------------------------------------------------
(* What the daemon's own steps on its connections carry over *)

CarriesTo(cn, m) ==
  /\ cn \in [Conns -> Connection]
  /\ \A c \in Conns : Carries(conn[c], inApplied, cn[c], m)

LEMMA StayingCarries ==
  ASSUME TypeOK, NEW m \in Nat, inApplied <= m
  PROVE  CarriesTo(conn, m)
<1>1. conn \in [Conns -> Connection] /\ inApplied \in Nat
  BY DEF TypeOK, ConnectionsOK, StreamsOK
<1> QED  BY <1>1, MoreIsAppliedCarries DEF CarriesTo

LEMMA ReplacedCarries ==
  ASSUME NEW cn, NEW m \in Nat, CarriesTo(cn, m), NEW c \in Conns \cup {NoConn},
         NEW k, c \in Conns => k \in Connection /\ Carries(cn[c], m, k, m)
  PROVE  CarriesTo([cn EXCEPT ![c] = k], m)
<1>1. CASE c \in Conns
  <2>1. [cn EXCEPT ![c] = k] \in [Conns -> Connection]
    BY <1>1 DEF CarriesTo
  <2>2. ASSUME NEW d \in Conns
        PROVE  Carries(conn[d], inApplied, [cn EXCEPT ![c] = k][d], m)
    <3>1. CASE d = c
      <4>1. [cn EXCEPT ![c] = k][d] = k
        BY <3>1 DEF CarriesTo
      <4>2. Carries(conn[d], inApplied, cn[d], m) /\ Carries(cn[d], m, k, m)
        BY <1>1, <3>1 DEF CarriesTo
      <4> QED  BY <4>1, <4>2, CarriesOn
    <3>2. CASE d # c
      BY <3>2 DEF CarriesTo
    <3> QED  BY <3>1, <3>2
  <2> QED  BY <2>1, <2>2 DEF CarriesTo
<1>2. CASE c \notin Conns
  <2>1. [cn EXCEPT ![c] = k] = cn
    BY <1>2 DEF CarriesTo
  <2> QED  BY <2>1
<1> QED  BY <1>1, <1>2

LEMMA TellCarries ==
  ASSUME NEW cn, NEW m \in Nat, CarriesTo(cn, m), client \in Conns \cup {NoConn},
         NEW f \in ServerFrame, f.type # "Output", Truthful(f, m)
  PROVE  CarriesTo(Tell(cn, f), m)
<1> DEFINE k == Sent(cn[client], f)
<1>1. Tell(cn, f) = [cn EXCEPT ![client] = k]
  BY DEF Tell
<1>2. client \in Conns => k \in Connection /\ Carries(cn[client], m, k, m)
  <2>1. client \in Conns => cn[client] \in Connection
    BY DEF CarriesTo
  <2> QED  BY <2>1, SentIsConnection, SentCarries
<1> HIDE DEF k
<1>3. CarriesTo([cn EXCEPT ![client] = k], m)
  BY <1>2, ReplacedCarries
<1> QED  BY <1>1, <1>3, Zenon

LEMMA DropCarries ==
  ASSUME NEW cn, NEW m \in Nat, CarriesTo(cn, m), client \in Conns \cup {NoConn}, Drop(cn)
  PROVE  CarriesTo(conn', m)
<1> DEFINE k == Closed(Flushed(cn[client]))
<1>1. conn' = [cn EXCEPT ![client] = k]
  BY DEF Drop
<1>2. client \in Conns => k \in Connection /\ Carries(cn[client], m, k, m)
  <2> SUFFICES ASSUME client \in Conns
               PROVE  k \in Connection /\ Carries(cn[client], m, k, m)
    OBVIOUS
  <2>1. cn[client] \in Connection
    BY DEF CarriesTo
  <2>2. Flushed(cn[client]) \in Connection /\ k \in Connection
    BY <2>1, FlushedIsConnection, ClosedIsConnection
  <2>3. Carries(cn[client], m, Flushed(cn[client]), m) /\ Carries(Flushed(cn[client]), m, k, m)
    BY <2>1, <2>2, FlushedCarries, ClosedCarries
  <2> HIDE DEF k
  <2> QED  BY <2>2, <2>3, CarriesOn
<1> HIDE DEF k
<1> QED  BY <1>1, <1>2, ReplacedCarries

(* A refusal that is no accusation is true whatever was applied.            *)
Excuses == Refusals \ {"InputGap"}

LEMMA ExcusesAreTrue ==
  ASSUME NEW code \in Excuses, NEW m \in Nat
  PROVE  /\ SF(code, 0, 0) \in ServerFrame /\ SF(code, 0, 0).type # "Output"
         /\ Truthful(SF(code, 0, 0), m)
<1>1. SF(code, 0, 0) \in ServerFrame
  BY ServerFrames DEF ServerFrameTypes, Excuses
<1> QED  BY <1>1 DEF SF, Truthful, Acks, Excuses, Refusals

LEMMA RejectCarries ==
  ASSUME NEW cn, NEW m \in Nat, CarriesTo(cn, m), client \in Conns \cup {NoConn},
         NEW code \in Excuses, Reject(cn, code)
  PROVE  CarriesTo(conn', m)
<1>1. CarriesTo(Tell(cn, SF(code, 0, 0)), m)
  BY ExcusesAreTrue, TellCarries
<1> QED  BY <1>1, DropCarries DEF Reject

LEMMA DismissCarries ==
  ASSUME NEW cn, NEW m \in Nat, CarriesTo(cn, m), pending \in Conns,
         NEW k \in Connection, Carries(cn[pending], m, k, m), Dismiss(cn, k)
  PROVE  CarriesTo(conn', m)
<1>1. conn' = [cn EXCEPT ![pending] = k]
  BY DEF Dismiss
<1> QED  BY <1>1, ReplacedCarries

LEMMA RejectPendingCarries ==
  ASSUME NEW cn, NEW m \in Nat, CarriesTo(cn, m), pending \in Conns,
         NEW code \in Excuses, RejectPending(cn, code)
  PROVE  CarriesTo(conn', m)
<1> DEFINE s == Sent(cn[pending], SF(code, 0, 0))
<1>1. PICK k \in FinalFlushes(s) : Dismiss(cn, k)
  BY DEF RejectPending
<1>2. cn[pending] \in Connection
  BY DEF CarriesTo
<1>3. s \in Connection /\ Carries(cn[pending], m, s, m)
  BY <1>2, ExcusesAreTrue, SentIsConnection, SentCarries
<1> HIDE DEF s
<1>4. k \in Connection /\ Carries(s, m, k, m)
  BY <1>1, <1>3, FinalFlushesClose, FinalFlushCarries
<1>5. Carries(cn[pending], m, k, m)
  BY <1>3, <1>4, CarriesOn
<1> QED  BY <1>1, <1>4, <1>5, DismissCarries

LEMMA FillClientCarries ==
  ASSUME NEW cn, NEW m \in Nat, CarriesTo(cn, m), client \in Conns \cup {NoConn},
         NEW next, FillClient(cn, next)
  PROVE  CarriesTo(conn', m)
<1>1. CASE Drop(cn)
  BY <1>1, DropCarries
<1>2. CASE conn' = [cn EXCEPT ![client] = IF @.eof THEN @ ELSE Filled(@)]
  <2> DEFINE k == IF cn[client].eof THEN cn[client] ELSE Filled(cn[client])
  <2>1. conn' = [cn EXCEPT ![client] = k]
    BY <1>2
  <2>2. client \in Conns => k \in Connection /\ Carries(cn[client], m, k, m)
    <3>1. client \in Conns => cn[client] \in Connection
      BY DEF CarriesTo
    <3> QED  BY <3>1, FilledIsConnection, FilledCarries, NothingCarries
  <2> HIDE DEF k
  <2> QED  BY <2>1, <2>2, ReplacedCarries
<1> QED  BY <1>1, <1>2 DEF FillClient

-----------------------------------------------------------------------------
(* The handlers *)

(* A daemon's step carries every connection over. *)
AllCarry == CarriesTo(conn', inApplied') /\ inApplied' \in Nat /\ inApplied' >= inApplied

LEMMA SameInputCarries ==
  ASSUME TypeOK, UNCHANGED inVars, CarriesTo(conn', inApplied)
  PROVE  AllCarry
<1>1. inApplied \in Nat /\ inApplied' = inApplied
  BY DEF TypeOK, StreamsOK, inVars
<1> QED  BY <1>1 DEF AllCarry

LEMMA IdleHandlersCarry ==
  ASSUME IInv,
         \/ Poll \/ ApplyWin \/ WritePty \/ CollectOutcome
  PROVE  AllCarry
<1>1. TypeOK /\ inApplied \in Nat
  BY DEF IInv, TypeOK, StreamsOK
<1>2. UNCHANGED <<conn, inApplied>>
  BY DEF Poll, ApplyWin, WritePty, CollectOutcome, inVars
<1>3. CarriesTo(conn, inApplied)
  BY <1>1, StayingCarries
<1> QED  BY <1>1, <1>2, <1>3 DEF AllCarry, CarriesTo

LEMMA EndPassCarries ==
  ASSUME IInv, EndPass
  PROVE  AllCarry
<1>1. TypeOK /\ inApplied \in Nat /\ UNCHANGED inVars /\ CarriesTo(conn, inApplied)
      /\ pending \in Conns \cup {NoConn}
  BY StayingCarries DEF IInv, TypeOK, StreamsOK, ConnectionsOK, EndPass
<1>2. CASE conn' = conn
  BY <1>1, <1>2, SameInputCarries
<1>3. CASE conn' = [conn EXCEPT ![pending] = Closed(@)]
  <2> DEFINE k == Closed(conn[pending])
  <2>1. pending \in Conns => conn[pending] \in Connection
    BY <1>1 DEF CarriesTo
  <2>2. pending \in Conns => k \in Connection /\ Carries(conn[pending], inApplied, k, inApplied)
    BY <1>1, <2>1, ClosedIsConnection, ClosedCarries
  <2>3. conn' = [conn EXCEPT ![pending] = k]
    BY <1>3
  <2> HIDE DEF k
  <2>4. CarriesTo(conn', inApplied)
    BY <1>1, <2>2, <2>3, ReplacedCarries
  <2> QED  BY <1>1, <2>4, SameInputCarries
<1> QED  BY <1>2, <1>3 DEF EndPass

LEMMA ShutdownCarries ==
  ASSUME IInv, Shutdown
  PROVE  AllCarry
<1>1. TypeOK /\ inApplied \in Nat /\ UNCHANGED inVars /\ conn \in [Conns -> Connection]
      /\ client \in Conns \cup {NoConn}
  BY DEF IInv, TypeOK, StreamsOK, ConnectionsOK, Shutdown
<1>2. PICK k \in IF client = NoConn THEN {FreeConn} ELSE FinalFlushes(conn[client]) :
        conn' = [c \in Conns |-> IF c = client THEN k
                                 ELSE IF conn[c].pos \in {"held", "backlog"}
                                 THEN Closed(conn[c]) ELSE conn[c]]
  BY DEF Shutdown
<1>3. ASSUME NEW c \in Conns
      PROVE  conn'[c] \in Connection /\ Carries(conn[c], inApplied, conn'[c], inApplied)
  <2>1. conn[c] \in Connection
    BY <1>1
  <2>2. CASE c = client
    <3>1. client # NoConn
      BY <2>2 DEF Conns, NoConn
    <3>2. k \in FinalFlushes(conn[c]) /\ conn'[c] = k
      BY <1>2, <2>2, <3>1
    <3> QED  BY <1>1, <2>1, <3>2, FinalFlushesClose, FinalFlushCarries
  <2>3. CASE conn'[c] = Closed(conn[c])
    BY <1>1, <2>1, <2>3, ClosedIsConnection, ClosedCarries
  <2>4. CASE conn'[c] = conn[c]
    BY <1>1, <2>1, <2>4, NothingCarries
  <2> QED  BY <1>2, <2>2, <2>3, <2>4
<1>4. conn' = [c \in Conns |-> conn'[c]]
  BY <1>2
<1>5. CarriesTo(conn', inApplied)
  BY <1>3, <1>4 DEF CarriesTo
<1> QED  BY <1>1, <1>5, SameInputCarries

LEMMA LosingTheClientCarries ==
  ASSUME IInv, HangUp \/ ReadPty \/ DecodeEnds
  PROVE  AllCarry
<1>1. TypeOK /\ inApplied \in Nat /\ CarriesTo(conn, inApplied)
      /\ client \in Conns \cup {NoConn}
  BY StayingCarries DEF IInv, TypeOK, StreamsOK, ConnectionsOK
<1>2. inApplied' = inApplied
  BY DEF HangUp, ReadPty, DecodeEnds, inVars
<1>3. CarriesTo(conn', inApplied)
  <2>1. CASE Drop(conn)
    BY <1>1, <2>1, DropCarries
  <2>2. CASE \E code \in Excuses : Reject(conn, code)
    BY <1>1, <2>2, RejectCarries
  <2>3. CASE conn' = conn
    BY <1>1, <2>3
  <2>4. "Internal" \in Excuses /\ "Protocol" \in Excuses
    BY DEF Excuses, Refusals
  <2>5. Drop(conn) \/ Reject(conn, "Internal") \/ Reject(conn, "Protocol") \/ conn' = conn
    BY DEF HangUp, ReadPty, DecodeEnds
  <2> QED  BY <2>1, <2>2, <2>3, <2>4, <2>5
<1> QED  BY <1>1, <1>2, <1>3 DEF AllCarry

LEMMA ReadClientCarries ==
  ASSUME IInv, ReadClient
  PROVE  AllCarry
<1>1. TypeOK /\ inApplied \in Nat /\ CarriesTo(conn, inApplied) /\ UNCHANGED inVars
      /\ client \in Conns \cup {NoConn}
  BY StayingCarries DEF IInv, TypeOK, StreamsOK, ConnectionsOK, ReadClient
<1>2. CarriesTo(conn', inApplied)
  BY <1>1, FillClientCarries DEF ReadClient
<1> QED  BY <1>1, <1>2, SameInputCarries

LEMMA WriteClientCarries ==
  ASSUME IInv, WriteClient
  PROVE  AllCarry
<1>1. TypeOK /\ inApplied \in Nat /\ CarriesTo(conn, inApplied) /\ UNCHANGED inVars
      /\ client \in Conns \cup {NoConn}
  BY StayingCarries DEF IInv, TypeOK, StreamsOK, ConnectionsOK, WriteClient
<1>2. CASE Drop(conn)
  BY <1>1, <1>2, DropCarries, SameInputCarries
<1>3. CASE conn' = [conn EXCEPT ![client] = Flushed(conn[client])]
  <2> DEFINE k == Flushed(conn[client])
  <2>1. client \in Conns => conn[client] \in Connection
    BY <1>1 DEF CarriesTo
  <2>2. client \in Conns => k \in Connection /\ Carries(conn[client], inApplied, k, inApplied)
    BY <1>1, <2>1, FlushedIsConnection, FlushedCarries
  <2> HIDE DEF k
  <2>3. CarriesTo([conn EXCEPT ![client] = k], inApplied)
    BY <1>1, <2>2, ReplacedCarries
  <2>4. CarriesTo(conn', inApplied)
    BY <1>3, <2>3 DEF k
  <2> QED  BY <1>1, <2>4, SameInputCarries
<1> QED  BY <1>2, <1>3 DEF WriteClient

LEMMA AcceptCarries ==
  ASSUME IInv, Accept
  PROVE  AllCarry
<1>1. TypeOK /\ inApplied \in Nat /\ CarriesTo(conn, inApplied) /\ UNCHANGED inVars
  BY StayingCarries DEF IInv, TypeOK, StreamsOK, ConnectionsOK, Accept
<1>2. CASE conn' = conn
  BY <1>1, <1>2, SameInputCarries
<1>3. ASSUME NEW c \in Oldest(Backlog),
             conn' = [conn EXCEPT ![c].pos = "held"] \/ conn' = [conn EXCEPT ![c] = Closed(@)]
      PROVE  AllCarry
  <2>1. c \in Conns /\ conn[c] \in Connection /\ conn[c].pos = "backlog"
    BY <1>1 DEF Oldest, Backlog, CarriesTo
  <2> DEFINE h == [conn[c] EXCEPT !.pos = "held"]
  <2>2. h \in Connection /\ Carries(conn[c], inApplied, h, inApplied)
    <3>1. h \in Connection
      BY <2>1 DEF Connection
    <3>2. /\ h.own = conn[c].own /\ h.hello = conn[c].hello /\ h.rx = conn[c].rx
          /\ h.up = conn[c].up /\ h.tx = conn[c].tx
          /\ h.down = conn[c].down /\ h.pos = "held"
      BY <2>1 DEF Connection
    <3> HIDE DEF h
    <3>3. Under(h) = Under(conn[c])
      BY <3>2 DEF Under
    <3>4. Good(conn[c], inApplied) => Good(h, inApplied)
      BY <3>2, <3>3 DEF Good, SaysTruth, OutputIsShallow
    <3>5. SameParty(conn[c], h)
      BY <3>2, <3>3 DEF SameParty, Greets
    <3> QED  BY <2>1, <3>1, <3>2, <3>3, <3>4, <3>5 DEF Carries, ReachedBy
  <2>3. Closed(conn[c]) \in Connection /\ Carries(conn[c], inApplied, Closed(conn[c]), inApplied)
    BY <1>1, <2>1, ClosedIsConnection, ClosedCarries
  <2>4. PICK k \in {h, Closed(conn[c])} : conn' = [conn EXCEPT ![c] = k]
    BY <1>3
  <2> HIDE DEF h
  <2>5. k \in Connection /\ Carries(conn[c], inApplied, k, inApplied)
    BY <2>2, <2>3, <2>4
  <2>6. CarriesTo(conn', inApplied)
    BY <1>1, <2>1, <2>4, <2>5, ReplacedCarries
  <2> QED  BY <1>1, <2>6, SameInputCarries
<1> QED  BY <1>2, <1>3 DEF Accept

(* Decoding one frame: what is applied after it is what the rest follows on. *)
LEMMA DecodeCarries ==
  ASSUME IInv, \A c \in Conns : Good(conn[c], inApplied), Decode
  PROVE  AllCarry
<1> DEFINE f == Head(conn[client].rx)
           cn == [conn EXCEPT ![client].rx = Tail(@)]
           k == conn[client]
           l == [k EXCEPT !.rx = Tail(@)]
<1>1. /\ client \in Conns /\ client # NoConn /\ k.rx # <<>> /\ HandleFrame(f, cn)
      /\ k \in Connection /\ conn \in [Conns -> Connection] /\ inApplied \in Nat /\ TypeOK
  BY DEF IInv, TypeOK, ConnectionsOK, StreamsOK, Decode, MoreToDecode, HasFrame
<1>2. f \in ClientFrame /\ cn \in [Conns -> Connection] /\ cn = [conn EXCEPT ![client] = l]
  BY <1>1, TakenIsConnection
<1>3. f = Head(k.rx) /\ l \in Connection
  <2>1. l = cn[client]
    BY <1>1, <1>2
  <2> QED  BY <1>1, <1>2, <2>1
<1>4. ASSUME NEW m \in Nat, inApplied <= m, f.type = "Input" => EndOf(f) <= m
      PROVE  CarriesTo(cn, m)
  <2>1. Carries(k, inApplied, l, m)
    BY <1>1, <1>3, <1>4, DecodedCarries
  <2> HIDE DEF f, cn, l
  <2>2. ASSUME NEW c \in Conns PROVE Carries(conn[c], inApplied, cn[c], m)
    <3>1. CASE c = client
      BY <1>1, <1>2, <2>1, <3>1
    <3>2. CASE c # client
      <4>1. cn[c] = conn[c] /\ conn[c] \in Connection
        BY <1>1, <1>2, <3>2
      <4> QED  BY <1>1, <1>4, <4>1, MoreIsAppliedCarries
    <3> QED  BY <3>1, <3>2
  <2> QED  BY <1>2, <2>2 DEF CarriesTo
<1>5. f.type = "Input" => ~SkipsAhead(f)
  <2> SUFFICES ASSUME f.type = "Input" PROVE f.at <= inApplied
    BY <1>1, <1>2, InputsHaveEnds DEF SkipsAhead
  <2>1. Follows(Under(k), inApplied)
    BY <1>1 DEF Good
  <2>2. /\ Under(k) = k.rx \o k.up /\ k.rx \in Seq(ClientFrame) /\ k.up \in Seq(ClientFrame)
        /\ Under(k) \in Seq(ClientFrame)
    BY <1>1, UnderIsFrames DEF Under
  <2>3. Under(k) # <<>> /\ Head(Under(k)) = f
    <3>1. k.rx \o k.up # <<>> /\ Head(k.rx \o k.up) = Head(k.rx)
      BY <1>1, <2>2, HeadOfConcat
    <3> QED  BY <1>3, <2>2, <3>1, Zenon
  <2>4. 1 \in DOMAIN Under(k) /\ Under(k)[1] = f
    BY <2>2, <2>3, HeadIsFirst
  <2>5. Reaches(Under(k), 0, inApplied, f.at)
    <3>1. Reaches(Under(k), 1 - 1, inApplied, f.at)
      BY <2>1, <2>4 DEF Follows
    <3> QED  BY <3>1
  <2> QED  BY <2>5 DEF Reaches
<1> HIDE DEF f, cn, k, l
<1>6. client \in Conns \cup {NoConn}
  BY <1>1
<1>7. CASE UNCHANGED inApplied /\ f.type # "Input"
  <2>1. CarriesTo(cn, inApplied)
    BY <1>1, <1>4, <1>7
  <2>2. CarriesTo(conn', inApplied)
    <3>1. CASE conn' = cn
      BY <2>1, <3>1
    <3>2. CASE conn' = Tell(cn, SF("Pong", 0, 0))
      <4>1. /\ SF("Pong", 0, 0) \in ServerFrame /\ SF("Pong", 0, 0).type # "Output"
            /\ Truthful(SF("Pong", 0, 0), inApplied)
        BY ServerFrames DEF ServerFrameTypes, SF, Truthful, Acks
      <4> QED  BY <1>1, <1>6, <2>1, <3>2, <4>1, TellCarries
    <3>3. CASE Drop(cn)
      BY <1>1, <1>6, <2>1, <3>3, DropCarries
    <3>4. CASE Reject(cn, "Protocol")
      <4>1. "Protocol" \in Excuses
        BY DEF Excuses, Refusals
      <4> QED  BY <1>1, <1>6, <2>1, <3>4, <4>1, RejectCarries
    <3> QED  BY <1>1, <1>7, <3>1, <3>2, <3>3, <3>4 DEF HandleFrame
  <2> QED  BY <1>1, <1>7, <2>2 DEF AllCarry
<1>8. CASE f.type = "Input"
  <2>1. OnInput(f, cn) /\ ~SkipsAhead(f)
    BY <1>1, <1>5, <1>8 DEF HandleFrame
  <2> DEFINE m == AppliedThrough(f)
  <2>2. inApplied' = m /\ conn' = Tell(cn, SF("InputAck", m, 0))
    BY <2>1 DEF OnInput
  <2>3. m \in Nat /\ inApplied <= m /\ EndOf(f) <= m
    BY <1>1, <1>2, InputsHaveEnds DEF AppliedThrough, LargerOf, EndOf
  <2> HIDE DEF m
  <2>4. CarriesTo(cn, m)
    BY <1>4, <2>3
  <2>5. /\ SF("InputAck", m, 0) \in ServerFrame /\ SF("InputAck", m, 0).type # "Output"
        /\ Truthful(SF("InputAck", m, 0), m)
    BY <2>3, ServerFrames DEF ServerFrameTypes, SF, Truthful, Acks, Acked
  <2>6. CarriesTo(Tell(cn, SF("InputAck", m, 0)), m)
    BY <1>6, <2>3, <2>4, <2>5, TellCarries
  <2> QED  BY <2>2, <2>3, <2>6 DEF AllCarry
<1>9. f.type = "Input" \/ (UNCHANGED inApplied /\ f.type # "Input")
  BY <1>1 DEF HandleFrame, inVars
<1> QED  BY <1>7, <1>8, <1>9

LEMMA ReadPendingCarries ==
  ASSUME IInv, ReadPending
  PROVE  AllCarry
<1> DEFINE k == Filled(conn[pending])
           cn == [conn EXCEPT ![pending] = k]
           taken == [cn EXCEPT ![pending].rx = Tail(@)]
<1>1. /\ TypeOK /\ inApplied \in Nat /\ CarriesTo(conn, inApplied) /\ UNCHANGED inVars
      /\ client \in Conns \cup {NoConn} /\ pending \in Conns /\ conn[pending] \in Connection
  BY StayingCarries
  DEF IInv, TypeOK, StreamsOK, ConnectionsOK, ReadPending, SnapshotHolds, At, Work, NoConn
<1>2. k \in Connection /\ Carries(conn[pending], inApplied, k, inApplied)
  BY <1>1, FilledIsConnection, FilledCarries
<1> HIDE DEF k
<1>3. CarriesTo(cn, inApplied) /\ cn[pending] = k
  <2>1. cn[pending] = k
    BY <1>1 DEF CarriesTo
  <2> QED  BY <1>1, <1>2, <2>1, ReplacedCarries
<1>4. ASSUME k.rx # <<>>, Head(k.rx).type = "Hello"
      PROVE  CarriesTo(taken, inApplied)
  <2> DEFINE l == [k EXCEPT !.rx = Tail(@)]
  <2>1. taken = [cn EXCEPT ![pending] = l]
    BY <1>1, <1>3 DEF CarriesTo
  <2>2. Carries(k, inApplied, l, inApplied)
    <3>1. Head(k.rx).type # "Input" /\ inApplied <= inApplied
      BY <1>1, <1>4
    <3> QED  BY <1>1, <1>2, <1>4, <3>1, DecodedCarries
  <2>3. l \in Connection
    <3>1. Tail(k.rx) \in Seq(ClientFrame)
      BY <1>2, <1>4, HeadTailProperties DEF Connection
    <3> QED  BY <1>2, <3>1 DEF Connection
  <2> HIDE DEF l, cn
  <2> QED  BY <1>1, <1>3, <2>1, <2>2, <2>3, ReplacedCarries
<1>5. Closed(k) \in Connection /\ Carries(k, inApplied, Closed(k), inApplied)
  BY <1>1, <1>2, ClosedIsConnection, ClosedCarries
<1>6. "Protocol" \in Excuses /\ "Version" \in Excuses
  BY DEF Excuses, Refusals
<1>7. \/ Dismiss(cn, Closed(k))
      \/ conn' = cn
      \/ RejectPending(cn, "Protocol")
      \/ HasFrame(k) /\ Head(k.rx).type = "Hello" /\ RejectPending(taken, "Version")
      \/ HasFrame(k) /\ Head(k.rx).type = "Hello" /\ FillClient(taken, "drain")
      \/ HasFrame(k) /\ Head(k.rx).type = "Hello" /\ conn' = taken
  BY DEF ReadPending, k
<1> HIDE DEF cn, taken
<1>8. CarriesTo(conn', inApplied)
  <2>1. CASE Dismiss(cn, Closed(k))
    BY <1>1, <1>3, <1>5, <2>1, DismissCarries
  <2>2. CASE conn' = cn
    BY <1>3, <2>2
  <2>3. CASE RejectPending(cn, "Protocol")
    BY <1>1, <1>3, <1>6, <2>3, RejectPendingCarries
  <2>4. CASE HasFrame(k) /\ Head(k.rx).type = "Hello"
    <3>1. CarriesTo(taken, inApplied)
      BY <1>4, <2>4 DEF HasFrame
    <3>2. CASE RejectPending(taken, "Version")
      BY <1>1, <1>6, <3>1, <3>2, RejectPendingCarries
    <3>3. CASE FillClient(taken, "drain")
      BY <1>1, <3>1, <3>3, FillClientCarries
    <3>4. CASE conn' = taken
      BY <3>1, <3>4
    <3>5. CASE Dismiss(cn, Closed(k)) \/ conn' = cn \/ RejectPending(cn, "Protocol")
      BY <2>1, <2>2, <2>3, <3>5
    <3> QED  BY <1>7, <3>2, <3>3, <3>4, <3>5
  <2> QED  BY <1>7, <2>1, <2>2, <2>3, <2>4
<1> QED  BY <1>1, <1>8, SameInputCarries

LEMMA EvictionCarries ==
  ASSUME IInv, NEW cn \in Evictions
  PROVE  CarriesTo(cn, inApplied)
<1>1. TypeOK /\ inApplied \in Nat /\ CarriesTo(conn, inApplied)
      /\ client \in Conns \cup {NoConn}
  BY StayingCarries DEF IInv, TypeOK, StreamsOK, ConnectionsOK
<1>2. CASE cn = conn
  BY <1>1, <1>2
<1>3. CASE cn # conn
  <2> DEFINE s == Sent(conn[client], SF("Takeover", 0, 0))
  <2>1. PICK k \in FinalFlushes(s) : cn = [conn EXCEPT ![client] = k]
    BY <1>3 DEF Evictions
  <2>2. "Takeover" \in Excuses
    BY DEF Excuses, Refusals
  <2>3. ASSUME client \in Conns
        PROVE  k \in Connection /\ Carries(conn[client], inApplied, k, inApplied)
    <3>1. conn[client] \in Connection
      BY <1>1, <2>3 DEF CarriesTo
    <3>2. s \in Connection /\ Carries(conn[client], inApplied, s, inApplied)
      BY <1>1, <2>2, <3>1, ExcusesAreTrue, SentIsConnection, SentCarries
    <3> HIDE DEF s
    <3>3. k \in Connection /\ Carries(s, inApplied, k, inApplied)
      BY <1>1, <2>1, <3>2, FinalFlushesClose, FinalFlushCarries
    <3> QED  BY <3>2, <3>3, CarriesOn
  <2> HIDE DEF s
  <2> QED  BY <1>1, <2>1, <2>3, ReplacedCarries
<1> QED  BY <1>2, <1>3

(* The greeting is answered with what was applied, or refused.              *)
LEMMA GreetCarries ==
  ASSUME IInv, Greet
  PROVE  AllCarry
<1>1. /\ TypeOK /\ inApplied \in Nat /\ CarriesTo(conn, inApplied) /\ UNCHANGED inVars
      /\ pending \in Conns /\ conn[pending] \in Connection
  BY StayingCarries
  DEF IInv, TypeOK, StreamsOK, ConnectionsOK, Greet, SnapshotHolds, NoConn
<1> DEFINE h == conn[pending].hello
           ok == SF("HelloOk", ResumeFrom(h), inApplied)
           no == SF("Internal", 0, 0)
<1>2. h \in Hello /\ ResumeFrom(h) \in Nat
  BY <1>1, GreetedIsAttachment DEF Connection
<1>3. ok \in ServerFrame /\ ok.type # "Output" /\ Truthful(ok, inApplied)
  BY <1>1, <1>2, ServerFrames DEF ServerFrameTypes, SF, Truthful, Acks, Acked
<1>4. no \in ServerFrame /\ no.type # "Output" /\ Truthful(no, inApplied)
  BY <1>1, ExcusesAreTrue DEF Excuses, Refusals
<1> HIDE DEF ok, no, h
<1>5. ASSUME NEW cn \in Evictions, OnHello(cn)
      PROVE  CarriesTo(conn', inApplied)
  <2>1. CarriesTo(cn, inApplied) /\ cn[pending] \in Connection
    BY <1>1, <1>5, EvictionCarries DEF CarriesTo
  <2> DEFINE s == Sent(cn[pending], ok)
             r == Sent(cn[pending], no)
             k == Closed(Flushed(r))
  <2>2. s \in Connection /\ Carries(cn[pending], inApplied, s, inApplied)
    BY <1>1, <1>3, <2>1, SentIsConnection, SentCarries
  <2>3. r \in Connection /\ Carries(cn[pending], inApplied, r, inApplied)
    BY <1>1, <1>4, <2>1, SentIsConnection, SentCarries
  <2>4. k \in Connection /\ Carries(cn[pending], inApplied, k, inApplied)
    <3> HIDE DEF r
    <3>1. Flushed(r) \in Connection /\ Carries(r, inApplied, Flushed(r), inApplied)
      BY <1>1, <2>3, FlushedIsConnection, FlushedCarries
    <3>2. k \in Connection /\ Carries(Flushed(r), inApplied, k, inApplied)
      BY <1>1, <3>1, ClosedIsConnection, ClosedCarries
    <3> HIDE DEF k
    <3> QED  BY <2>3, <3>1, <3>2, CarriesOn
  <2>5. conn' = [cn EXCEPT ![pending] = s] \/ conn' = [cn EXCEPT ![pending] = k]
    BY <1>5 DEF OnHello, ok, no, h
  <2> HIDE DEF s, k
  <2>6. /\ CarriesTo([cn EXCEPT ![pending] = s], inApplied)
        /\ CarriesTo([cn EXCEPT ![pending] = k], inApplied)
    BY <1>1, <2>1, <2>2, <2>4, ReplacedCarries
  <2> QED  BY <2>5, <2>6
<1>6. CASE RejectPending(conn, "AlreadyAttached")
  <2>1. "AlreadyAttached" \in Excuses
    BY DEF Excuses, Refusals
  <2> QED  BY <1>1, <1>6, <2>1, RejectPendingCarries, SameInputCarries
<1>7. CASE \E cn \in Evictions : OnHello(cn)
  BY <1>1, <1>5, <1>7, SameInputCarries
<1> QED  BY <1>6, <1>7 DEF Greet

(* pump_output's frames neither accuse nor acknowledge, and no Output among *)
(* them stands deeper than the cap.                                         *)
LEMMA StreamedIsShallow ==
  ASSUME TypeOK, client \in Conns
  PROVE  \A i \in DOMAIN Streamed.frames :
           /\ Streamed.frames[i].type \in {"Gap", "Output"}
           /\ Streamed.frames[i].type = "Output" =>
                Queued(conn[client]) + i <= MaxPendingWrite
<1> DEFINE from == LargerOf(att.sent, base)
           n == SmallerOf(PumpRoom, end - from)
           q == Queued(conn[client])
           g == Len(GapFrames)
<1>1. base \in Nat /\ end \in Nat /\ att.sent \in Nat /\ from \in Nat
  BY DEF TypeOK, StreamsOK, ConnectionsOK, Attachment, LargerOf
<1>2. /\ q \in Nat /\ g \in Nat
      /\ GapFrames \in Seq(ServerFrame) /\ \A i \in 1 .. g : GapFrames[i].type = "Gap"
  <2>1. q \in Nat
    BY RoomIsNat DEF TypeOK, ConnectionsOK
  <2>2. SF("Gap", base, 0) \in ServerFrame /\ SF("Gap", base, 0).type = "Gap"
    BY <1>1, ServerFrames DEF ServerFrameTypes, SF
  <2>3. /\ <<SF("Gap", base, 0)>> \in Seq(ServerFrame) /\ Len(<<SF("Gap", base, 0)>>) = 1
        /\ <<SF("Gap", base, 0)>>[1] = SF("Gap", base, 0)
    BY <2>2
  <2> HIDE DEF q
  <2> QED  BY <2>1, <2>2, <2>3, EmptySeq DEF GapFrames
<1>3. n \in Int /\ n <= LargerOf(0, MaxPendingWrite - (q + g))
  <2>1. PumpRoom = LargerOf(0, MaxPendingWrite - (q + g))
    BY DEF PumpRoom
  <2>2. PumpRoom \in Int
    BY <1>2, <2>1, BoundsAssumption DEF LargerOf
  <2> HIDE DEF q, g, from
  <2> QED  BY <1>1, <2>1, <2>2 DEF SmallerOf
<1>4. CASE att.sent < end /\ q < MaxPendingWrite
  <2>1. Streamed.frames = GapFrames \o Outputs(from, n)
    BY <1>4 DEF Streamed
  <2> HIDE DEF from, n, q, g
  <2>2. ASSUME n \in Nat
        PROVE  /\ Outputs(from, n) \in Seq(ServerFrame) /\ Len(Outputs(from, n)) = n
               /\ \A i \in 1 .. n : Outputs(from, n)[i].type = "Output"
    <3>1. \A i \in 1 .. n : /\ SF("Output", from + i - 1, 0) \in ServerFrame
                            /\ SF("Output", from + i - 1, 0).type = "Output"
      <4> SUFFICES ASSUME NEW i \in 1 .. n
                   PROVE  /\ SF("Output", from + i - 1, 0) \in ServerFrame
                          /\ SF("Output", from + i - 1, 0).type = "Output"
        OBVIOUS
      <4>1. from + i - 1 \in Nat
        BY <1>1, <2>2
      <4> QED  BY <4>1, ServerFrames DEF ServerFrameTypes, SF
    <3>2. Outputs(from, n) \in Seq(ServerFrame)
      BY <2>2, <3>1, IsASeq DEF Outputs
    <3>3. DOMAIN Outputs(from, n) = 1 .. n /\ \A i \in 1 .. n : Outputs(from, n)[i].type = "Output"
      BY <3>1 DEF Outputs
    <3> QED  BY <2>2, <3>2, <3>3, LenProperties
  <2>3. ASSUME n \notin Nat
        PROVE  Outputs(from, n) = <<>>
    <3>1. 1 .. n = {}
      BY <1>3, <2>3
    <3> QED  BY <3>1 DEF Outputs
  <2>4. CASE n \in Nat
    <3> DEFINE o == Outputs(from, n)
    <3>1. /\ o \in Seq(ServerFrame) /\ Len(o) = n /\ \A i \in 1 .. n : o[i].type = "Output"
      BY <2>2, <2>4
    <3> HIDE DEF o
    <3>2. GapFrames \o o \in Seq(ServerFrame) /\ Len(GapFrames \o o) = g + n
      BY <1>2, <3>1, ConcatProperties DEF g
    <3>3. DOMAIN (GapFrames \o o) = 1 .. g + n
      BY <1>2, <2>4, <3>2, LenProperties
    <3>4. \A i \in 1 .. g + n :
            (GapFrames \o o)[i] = IF i <= g THEN GapFrames[i] ELSE o[i - g]
      BY <1>2, <3>1, ConcatProperties DEF g
    <3> DEFINE s == GapFrames \o o
    <3>5. \A i \in 1 .. g + n : s[i] = IF i <= g THEN GapFrames[i] ELSE o[i - g]
      BY <3>4
    <3> HIDE DEF s
    <3>6. ASSUME NEW i \in 1 .. g + n
          PROVE  /\ s[i].type \in {"Gap", "Output"}
                 /\ s[i].type = "Output" => q + i <= MaxPendingWrite
      <4>1. i \in Nat /\ g \in Nat /\ n \in Nat /\ i >= 1 /\ i <= g + n
        BY <1>2, <2>4
      <4>2. CASE i <= g
        <5>1. s[i] = GapFrames[i] /\ i \in 1 .. g
          BY <3>5, <4>1, <4>2
        <5> QED  BY <1>2, <5>1
      <4>3. CASE ~ (i <= g)
        <5>1. i - g \in 1 .. n /\ s[i] = o[i - g]
          BY <3>5, <4>1, <4>3
        <5>2. s[i].type = "Output"
          BY <3>1, <5>1
        <5>3. q + i <= MaxPendingWrite
          BY <1>2, <1>3, <4>1, <4>3, BoundsAssumption DEF LargerOf
        <5> QED  BY <5>2, <5>3
      <4> QED  BY <4>2, <4>3
    <3> QED  BY <2>1, <3>3, <3>6 DEF s, o, q
  <2>5. CASE n \notin Nat
    <3>1. Streamed.frames = GapFrames
      BY <1>2, <2>1, <2>3, <2>5, ConcatEmptySeq
    <3>2. DOMAIN GapFrames = 1 .. g
      BY <1>2, LenProperties DEF g
    <3>3. \A i \in DOMAIN Streamed.frames : Streamed.frames[i].type = "Gap"
      BY <1>2, <3>1, <3>2
    <3> QED  BY <3>3
  <2> QED  BY <2>4, <2>5
<1>5. CASE ~ (att.sent < end /\ q < MaxPendingWrite)
  <2>1. Streamed.frames = <<>>
    BY <1>5 DEF Streamed
  <2>2. DOMAIN <<>> = {}
    OBVIOUS
  <2> QED  BY <2>1, <2>2
<1> QED  BY <1>4, <1>5

(* Frames put behind a queue leave it right if they neither accuse nor      *)
(* acknowledge and any output among them is within the cap.                 *)
LEMMA QuietCarries ==
  ASSUME NEW k \in Connection, NEW n \in Nat, NEW s \in Seq(ServerFrame),
         \A i \in DOMAIN s : /\ s[i].type \in {"Gap", "Output", "Exit"}
                             /\ s[i].type = "Output" => Len(k.tx) + i <= MaxPendingWrite
  PROVE  Carries(k, n, [k EXCEPT !.tx = @ \o s], n)
<1> DEFINE l == [k EXCEPT !.tx = @ \o s]
<1>1. /\ l.own = k.own /\ l.hello = k.hello /\ l.rx = k.rx /\ l.up = k.up
      /\ l.pos = k.pos /\ l.down = k.down /\ l.tx = k.tx \o s
  BY DEF Connection
<1>2. k.tx \in Seq(ServerFrame) /\ Len(k.tx) \in Nat /\ DOMAIN k.tx = 1 .. Len(k.tx)
      /\ Len(s) \in Nat /\ DOMAIN s = 1 .. Len(s)
  BY LenProperties DEF Connection
<1> HIDE DEF l
<1>3. l.tx \in Seq(ServerFrame) /\ Len(l.tx) = Len(k.tx) + Len(s)
  BY <1>1, <1>2, ConcatProperties
<1>4. \A i \in 1 .. Len(k.tx) + Len(s) :
        l.tx[i] = IF i <= Len(k.tx) THEN k.tx[i] ELSE s[i - Len(k.tx)]
  BY <1>1, <1>2, ConcatProperties
<1>5. DOMAIN l.tx = 1 .. Len(k.tx) + Len(s)
  BY <1>3, LenProperties
<1>6. ASSUME NEW i \in DOMAIN l.tx
      PROVE  \/ i \in DOMAIN k.tx /\ l.tx[i] = k.tx[i]
             \/ i - Len(k.tx) \in DOMAIN s /\ l.tx[i] = s[i - Len(k.tx)]
                /\ Len(k.tx) + (i - Len(k.tx)) = i
  <2>1. i \in Nat /\ i >= 1 /\ i <= Len(k.tx) + Len(s)
    BY <1>2, <1>5
  <2>2. CASE i <= Len(k.tx)
    BY <1>2, <1>4, <1>5, <2>1, <2>2
  <2>3. CASE ~ (i <= Len(k.tx))
    <3>1. l.tx[i] = s[i - Len(k.tx)]
      BY <1>4, <1>5, <2>3
    <3>2. i - Len(k.tx) \in 1 .. Len(s) /\ Len(k.tx) + (i - Len(k.tx)) = i
      BY <1>2, <2>1, <2>3
    <3> QED  BY <1>2, <3>1, <3>2
  <2> QED  BY <2>2, <2>3
<1>7. SaysTruth(k, n) => SaysTruth(l, n)
  <2> SUFFICES ASSUME SaysTruth(k, n), NEW i \in DOMAIN l.tx PROVE Truthful(l.tx[i], n)
    BY <1>1 DEF SaysTruth
  <2> QED  BY <1>6 DEF SaysTruth, Truthful, Acks
<1>8. OutputIsShallow(k) => OutputIsShallow(l)
  <2> SUFFICES ASSUME OutputIsShallow(k), NEW i \in DOMAIN l.tx, l.tx[i].type = "Output"
               PROVE  i <= MaxPendingWrite
    BY DEF OutputIsShallow
  <2>1. CASE i \in DOMAIN k.tx /\ l.tx[i] = k.tx[i]
    BY <2>1 DEF OutputIsShallow
  <2>2. CASE i - Len(k.tx) \in DOMAIN s /\ l.tx[i] = s[i - Len(k.tx)]
             /\ Len(k.tx) + (i - Len(k.tx)) = i
    <3>1. Len(k.tx) + (i - Len(k.tx)) <= MaxPendingWrite
      BY <2>2
    <3> QED  BY <2>2, <3>1
  <2> QED  BY <1>6, <2>1, <2>2
<1> QED  BY <1>1, <1>7, <1>8, SpeechCarries DEF l

LEMMA PumpCarries ==
  ASSUME IInv, PumpOutput
  PROVE  AllCarry
<1>1. /\ TypeOK /\ inApplied \in Nat /\ CarriesTo(conn, inApplied) /\ inApplied' = inApplied
      /\ client \in Conns /\ conn[client] \in Connection /\ conn \in [Conns -> Connection]
  BY StayingCarries
  DEF IInv, TypeOK, StreamsOK, ConnectionsOK, PumpOutput, At, Work
<1> DEFINE exits == TerminalEnd /\ ~att.endSent /\ Streamed.sent >= end
           tail == IF exits THEN <<SF("Exit", end, 0)>> ELSE <<>>
           l == [conn[client] EXCEPT !.tx = @ \o Streamed.frames]
           k == [l EXCEPT !.tx = @ \o tail]
<1>2. conn' = [conn EXCEPT ![client].tx = @ \o Streamed.frames \o tail]
  BY DEF PumpOutput
<1>3. /\ tail \in Seq(ServerFrame) /\ \A i \in DOMAIN tail : tail[i].type = "Exit"
  <2>1. SF("Exit", end, 0) \in ServerFrame /\ SF("Exit", end, 0).type = "Exit"
    BY <1>1, ServerFrames DEF ServerFrameTypes, SF, TypeOK, StreamsOK
  <2>2. CASE tail = <<>>
    <3>1. DOMAIN <<>> = {}
      OBVIOUS
    <3> HIDE DEF tail
    <3> QED  BY <2>2, <3>1, EmptySeq
  <2>3. CASE tail = <<SF("Exit", end, 0)>>
    <3> HIDE DEF tail
    <3>1. DOMAIN tail = {1} /\ tail[1] = SF("Exit", end, 0)
      BY <2>3
    <3>2. tail \in Seq(ServerFrame)
      BY <2>1, <2>3
    <3> QED  BY <2>1, <3>1, <3>2
  <2> QED  BY <2>2, <2>3
<1> HIDE DEF tail
<1>4. Streamed.frames \in Seq(ServerFrame)
  BY <1>1, StreamedIsOutput
<1>5. l \in Connection /\ Carries(conn[client], inApplied, l, inApplied)
  <2>1. l \in Connection
    BY <1>1, <1>4, ConcatProperties DEF Connection
  <2>2. \A i \in DOMAIN Streamed.frames :
          /\ Streamed.frames[i].type \in {"Gap", "Output", "Exit"}
          /\ Streamed.frames[i].type = "Output" => Len(conn[client].tx) + i <= MaxPendingWrite
    BY <1>1, StreamedIsShallow DEF Queued
  <2>3. Carries(conn[client], inApplied, [conn[client] EXCEPT !.tx = @ \o Streamed.frames],
                inApplied)
    BY <1>1, <1>4, <2>2, QuietCarries
  <2> QED  BY <2>1, <2>3
<1> HIDE DEF l
<1>6. k \in Connection /\ Carries(l, inApplied, k, inApplied)
  <2>1. k \in Connection
    BY <1>3, <1>5, ConcatProperties DEF Connection
  <2>2. \A i \in DOMAIN tail : /\ tail[i].type \in {"Gap", "Output", "Exit"}
                               /\ tail[i].type = "Output" => Len(l.tx) + i <= MaxPendingWrite
    BY <1>3
  <2> QED  BY <1>1, <1>3, <1>5, <2>1, <2>2, QuietCarries
<1>7. conn' = [conn EXCEPT ![client] = k]
  <2>1. k = [conn[client] EXCEPT !.tx = (@ \o Streamed.frames) \o tail]
    BY <1>1 DEF l, Connection
  <2> HIDE DEF k
  <2> QED  BY <1>1, <1>2, <2>1
<1> HIDE DEF k
<1>8. CarriesTo(conn', inApplied)
  <2>1. Carries(conn[client], inApplied, k, inApplied)
    BY <1>5, <1>6, CarriesOn
  <2> QED  BY <1>1, <1>6, <1>7, <2>1, ReplacedCarries
<1> QED  BY <1>1, <1>8 DEF AllCarry

LEMMA DaemonCarries ==
  ASSUME IInv, \A c \in Conns : Good(conn[c], inApplied), DaemonStep
  PROVE  AllCarry
BY IdleHandlersCarry, EndPassCarries, ShutdownCarries, LosingTheClientCarries,
   ReadClientCarries, WriteClientCarries, AcceptCarries, DecodeCarries,
   ReadPendingCarries, GreetCarries, PumpCarries
DEF DaemonStep

-----------------------------------------------------------------------------
(* The invariant *)

(* A client program has been acknowledged nothing that was not applied, and *)
(* what it has under way leads up to what it will send next.                *)
ProgramKeeps(p) ==
  /\ p.acked <= inApplied /\ p.acked <= p.next
  /\ p.conn # NoConn =>
       /\ conn[p.conn].pos # "free"
       /\ conn[p.conn].pos # "closed" => ReachedBy(conn[p.conn], inApplied, p.next)

ConnectionsKeep == \A c \in Conns : Good(conn[c], inApplied)
ProgramsKeep == \A a \in Clients : ProgramKeeps(cli[a])
Conversation == ConnectionsKeep /\ ProgramsKeep

LEMMA ProgramsAreTyped ==
  ASSUME TypeOK, NEW a \in Clients
  PROVE  /\ cli[a].acked \in Nat /\ cli[a].next \in Nat
         /\ cli[a].conn \in Conns \cup {NoConn}
BY DEF TypeOK, ProgramsOK, Program

LEMMA CarryingKeeps ==
  ASSUME TypeOK, Conversation, AllCarry
  PROVE  /\ ConnectionsKeep'
         /\ \A a \in Clients : cli'[a] = cli[a] => ProgramKeeps(cli[a])'
<1>1. inApplied \in Nat /\ inApplied' \in Nat /\ inApplied <= inApplied'
  BY DEF TypeOK, StreamsOK, AllCarry
<1>2. \A c \in Conns : Carries(conn[c], inApplied, conn'[c], inApplied')
  BY DEF AllCarry, CarriesTo
<1>3. ConnectionsKeep'
  BY <1>2 DEF Conversation, ConnectionsKeep, Carries
<1>4. ASSUME NEW a \in Clients, cli'[a] = cli[a]
      PROVE  ProgramKeeps(cli[a])'
  <2> DEFINE p == cli[a]
  <2>1. /\ p.acked \in Nat /\ p.next \in Nat /\ p.conn \in Conns \cup {NoConn}
        /\ ProgramKeeps(p)
    BY ProgramsAreTyped DEF Conversation, ProgramsKeep
  <2> HIDE DEF p
  <2>2. p.acked <= inApplied' /\ p.acked <= p.next
    BY <1>1, <2>1 DEF ProgramKeeps
  <2>3. ASSUME p.conn # NoConn
        PROVE  /\ conn'[p.conn].pos # "free"
               /\ conn'[p.conn].pos # "closed" =>
                    ReachedBy(conn'[p.conn], inApplied', p.next)
    <3>1. /\ conn[p.conn].pos # "free"
          /\ conn[p.conn].pos # "closed" => ReachedBy(conn[p.conn], inApplied, p.next)
      BY <2>1, <2>3 DEF ProgramKeeps
    <3>2. Carries(conn[p.conn], inApplied, conn'[p.conn], inApplied')
      BY <1>2, <2>1, <2>3
    <3> QED  BY <2>1, <3>1, <3>2 DEF Carries
  <2> QED  BY <1>4, <2>2, <2>3 DEF ProgramKeeps, p
<1> QED  BY <1>3, <1>4

LEMMA DaemonKeepsConversation ==
  ASSUME IInv, Conversation, DaemonStep
  PROVE  Conversation'
<1>1. AllCarry
  BY DaemonCarries DEF Conversation, ConnectionsKeep
<1>2. UNCHANGED cli
  BY DEF DaemonStep, Poll, EndPass, Shutdown, ReadPty, HangUp, ApplyWin, WritePty,
         CollectOutcome, ReadClient, Decode, DecodeEnds, Accept, ReadPending, Greet,
         PumpOutput, NudgeRepaint, WriteClient
<1> QED  BY <1>1, <1>2, CarryingKeeps DEF IInv, Conversation, ProgramsKeep

LEMMA OthersKeepConversation ==
  ASSUME Conversation, ShellStep \/ Tick \/ SigTerm \/ PollFails \/ UNCHANGED vars
  PROVE  Conversation'
<1>1. UNCHANGED <<conn, cli, inApplied>>
  BY DEF ShellStep, ChildWrite, ChildRead, ChildExit, SlaveClose, Tick, IdleDeadline,
         PendingDeadline, OutcomeGrace, AcceptBackoff, TimeOnly, SigTerm, PollFails, vars,
         daemonVars, inVars
<1> QED  BY <1>1 DEF Conversation, ConnectionsKeep, ProgramsKeep, ProgramKeeps

-----------------------------------------------------------------------------
(* The clients *)

LEMMA ClientSideIsSame ==
  ASSUME TypeOK, Outside \/ Unasked, CarriesTo(conn', inApplied)
  PROVE  AllCarry
<1>1. UNCHANGED inVars
  BY DEF Outside, Unasked, daemonVars
<1> QED  BY <1>1, SameInputCarries

(* A frame more under way.                                                  *)
LEMMA FrameMoreCarries ==
  ASSUME NEW k \in Connection, NEW n \in Nat, NEW f \in ClientFrame, f.type # "Hello",
         f.type = "Input" => ReachedBy(k, n, f.at)
  PROVE  /\ Carries(k, n, [k EXCEPT !.up = Append(@, f)], n)
         /\ [k EXCEPT !.up = Append(@, f)] \in Connection
         /\ f.type = "Input" => ReachedBy([k EXCEPT !.up = Append(@, f)], n, EndOf(f))
<1> DEFINE l == [k EXCEPT !.up = Append(@, f)]
           q == Under(k)
<1>1. /\ l.rx = k.rx /\ l.up = Append(k.up, f) /\ l.tx = k.tx /\ l.down = k.down
      /\ l.own = k.own /\ l.hello = k.hello /\ l.pos = k.pos /\ l \in Connection
  <2>1. k.up \in Seq(ClientFrame)
    BY DEF Connection
  <2>2. Append(k.up, f) \in Seq(ClientFrame)
    BY <2>1
  <2> QED  BY <2>2 DEF Connection
<1>2. k.rx \in Seq(ClientFrame) /\ k.up \in Seq(ClientFrame) /\ q \in Seq(ClientFrame)
  BY UnderIsFrames
<1>3. Under(l) = Append(q, f)
  <2>1. k.rx \o Append(k.up, f) = Append(k.rx \o k.up, f)
    <3>1. <<f>> \in Seq(ClientFrame)
      OBVIOUS
    <3>2. Append(k.up, f) = k.up \o <<f>>
      BY <1>2, AppendIsConcat
    <3>3. Append(q, f) = q \o <<f>>
      BY <1>2, AppendIsConcat
    <3>4. (k.rx \o k.up) \o <<f>> = k.rx \o (k.up \o <<f>>)
      BY ZenonT(30), <1>2, <3>1, FramesAssociate
    <3>5. q = k.rx \o k.up
      BY DEF Under
    <3> QED  BY <3>2, <3>3, <3>4, <3>5
  <2>2. Under(l) = k.rx \o Append(k.up, f)
    BY <1>1 DEF Under
  <2> QED  BY <2>1, <2>2 DEF Under
<1>4. Len(Under(l)) = Len(q) + 1 /\ Len(q) \in Nat
  BY <1>2, <1>3, LenProperties
<1> HIDE DEF l, q
<1>5. f.type = "Input" => Reaches(q, Len(q), n, f.at)
  BY DEF ReachedBy, q
<1>6. /\ Follows(q, n) => Follows(Under(l), n)
      /\ \A x \in Nat : Reaches(q, Len(q), n, x) => Reaches(Under(l), Len(q) + 1, n, x)
      /\ f.type = "Input" => Reaches(Under(l), Len(q) + 1, n, EndOf(f))
  BY <1>2, <1>3, <1>5, OneMoreFollows
<1>7. Good(k, n) => Good(l, n)
  BY <1>1, <1>6 DEF Good, SaysTruth, OutputIsShallow, q
<1>8. Greets(l) => Greets(k)
  <2>1. /\ DOMAIN Append(q, f) = 1 .. Len(q) + 1 /\ DOMAIN q = 1 .. Len(q)
        /\ \A i \in 1 .. Len(q) : Append(q, f)[i] = q[i]
        /\ Append(q, f)[Len(q) + 1] = f
    BY <1>2, LenProperties
  <2> QED  BY <1>3, <1>4, <2>1 DEF Greets, q
<1> QED  BY <1>1, <1>4, <1>6, <1>7, <1>8 DEF Carries, SameParty, ReachedBy, l, q

LEMMA TypeKeepsConversation ==
  ASSUME IInv, Conversation, NEW a \in Clients, Type(a)
  PROVE  Conversation' /\ AllCarry
<1> DEFINE p == cli[a]
           c == p.conn
           k == conn[c]
           f == InputFrame(p.next, 1)
           l == [k EXCEPT !.up = Append(@, f)]
<1>1. /\ TypeOK /\ inApplied \in Nat /\ CarriesTo(conn, inApplied)
      /\ p.acked \in Nat /\ p.next \in Nat /\ c \in Conns /\ k \in Connection
      /\ conn \in [Conns -> Connection] /\ cli \in [Clients -> Program]
  BY ProgramsAreTyped, StayingCarries
  DEF IInv, TypeOK, StreamsOK, ConnectionsOK, ProgramsOK, Type, CanSay
<1>2. f \in ClientFrame /\ f.type = "Input" /\ f.at = p.next /\ EndOf(f) = p.next + 1
  BY <1>1 DEF InputFrame, CF, ClientFrame, ClientFrameTypes, EndOf
<1>3. /\ ProgramKeeps(p) /\ c # NoConn /\ k.pos # "closed"
      /\ conn' = [conn EXCEPT ![c].up = Append(@, f)]
      /\ cli' = [cli EXCEPT ![a].next = @ + 1] /\ Outside
  BY DEF Type, CanSay, Conversation, ProgramsKeep
<1> HIDE DEF f
<1>4. ReachedBy(k, inApplied, f.at)
  BY <1>2, <1>3 DEF ProgramKeeps
<1>5. Carries(k, inApplied, l, inApplied) /\ l \in Connection
      /\ ReachedBy(l, inApplied, p.next + 1)
  BY <1>1, <1>2, <1>4, FrameMoreCarries
<1>6. conn' = [conn EXCEPT ![c] = l] /\ l.pos = k.pos
  BY <1>1, <1>3 DEF Connection
<1> HIDE DEF l
<1>7. AllCarry
  <2>1. CarriesTo(conn', inApplied)
    BY <1>1, <1>5, <1>6, ReplacedCarries
  <2> QED  BY <1>1, <1>3, <2>1, ClientSideIsSame
<1>8. ConnectionsKeep' /\ \A b \in Clients : cli'[b] = cli[b] => ProgramKeeps(cli[b])'
  BY <1>1, <1>7, CarryingKeeps
<1>9. ProgramKeeps(cli[a])'
  <2>1. cli'[a].acked = p.acked /\ cli'[a].next = p.next + 1 /\ cli'[a].conn = c
    BY <1>1, <1>3 DEF Program
  <2>2. inApplied' = inApplied /\ conn'[c] = l
    BY <1>1, <1>3, <1>6 DEF Outside, daemonVars, inVars
  <2>3. p.acked <= inApplied /\ p.acked <= p.next + 1 /\ k.pos # "free"
    BY <1>1, <1>3 DEF ProgramKeeps
  <2> QED  BY <1>5, <1>6, <2>1, <2>2, <2>3 DEF ProgramKeeps
<1>10. \A b \in Clients : b # a => cli'[b] = cli[b]
  BY <1>1, <1>3
<1> QED  BY <1>7, <1>8, <1>9, <1>10 DEF Conversation, ProgramsKeep

LEMMA SayKeepsConversation ==
  ASSUME IInv, Conversation, NEW a \in Clients, Say(a)
  PROVE  Conversation' /\ AllCarry
<1> DEFINE c == cli[a].conn
           k == conn[c]
<1>1. /\ TypeOK /\ inApplied \in Nat /\ CarriesTo(conn, inApplied)
      /\ c \in Conns /\ k \in Connection /\ UNCHANGED cli /\ Unasked
  BY ProgramsAreTyped, StayingCarries
  DEF IInv, TypeOK, StreamsOK, ConnectionsOK, Say, CanSay
<1>2. PICK t \in ClientSays, w \in Sizes : conn' = [conn EXCEPT ![c] = Spoken(@, t, w)]
  BY DEF Say
<1> DEFINE f == [CF(t) EXCEPT !.size = IF t = "Resize" THEN w ELSE @]
           m == IF t = "Fin" THEN k ELSE [k EXCEPT !.up = Append(@, f)]
           l == Spoken(k, t, w)
<1>3. m \in Connection /\ Carries(k, inApplied, m, inApplied)
  <2>1. CASE t = "Fin"
    BY <1>1, <2>1, NothingCarries
  <2>2. CASE t # "Fin"
    <3>1. f \in ClientFrame /\ f.type # "Input" /\ f.type # "Hello"
      BY <2>2, NamesAssumption DEF Leavings, CF, ClientFrame, ClientFrameTypes
    <3> HIDE DEF f
    <3> QED  BY <1>1, <2>2, <3>1, FrameMoreCarries
  <2> QED  BY <2>1, <2>2
<1>4. l \in Connection
  BY <1>1, SpokenIsConnection
<1>5. Carries(m, inApplied, l, inApplied)
  <2>1. /\ l.own = m.own /\ l.hello = m.hello /\ l.rx = m.rx /\ l.up = m.up
        /\ l.tx = m.tx /\ l.down = m.down /\ l.pos = m.pos
    BY <1>1 DEF Spoken, Connection
  <2> HIDE DEF l, m
  <2>2. Under(l) = Under(m)
    BY <2>1 DEF Under
  <2> QED  BY <2>1, <2>2, UnderCarries
<1> HIDE DEF l, m
<1>6. Carries(k, inApplied, l, inApplied)
  BY <1>3, <1>5, CarriesOn
<1>7. CarriesTo(conn', inApplied)
  BY <1>1, <1>2, <1>4, <1>6, ReplacedCarries DEF l
<1> QED  BY <1>1, <1>7, ClientSideIsSame, CarryingKeeps DEF Conversation, ProgramsKeep

LEMMA HangsUpKeepsConversation ==
  ASSUME IInv, Conversation, NEW c \in Conns, HangsUp(c)
  PROVE  Conversation' /\ AllCarry
<1> DEFINE l == [conn[c] EXCEPT !.peer = "gone"]
<1>1. /\ TypeOK /\ inApplied \in Nat /\ CarriesTo(conn, inApplied)
      /\ conn[c] \in Connection /\ UNCHANGED cli /\ Unasked
      /\ conn' = [conn EXCEPT ![c] = l]
  BY StayingCarries
  DEF IInv, TypeOK, StreamsOK, ConnectionsOK, HangsUp
<1>2. /\ l.own = conn[c].own /\ l.hello = conn[c].hello /\ l.rx = conn[c].rx
      /\ l.up = conn[c].up /\ l.tx = conn[c].tx
      /\ l.down = conn[c].down /\ l.pos = conn[c].pos /\ l \in Connection
  BY <1>1 DEF Connection
<1> HIDE DEF l
<1>3. Under(l) = Under(conn[c])
  BY <1>2 DEF Under
<1>4. Carries(conn[c], inApplied, l, inApplied)
  BY <1>2, <1>3, UnderCarries
<1>5. CarriesTo(conn', inApplied)
  BY <1>1, <1>2, <1>4, ReplacedCarries
<1> QED  BY <1>1, <1>5, ClientSideIsSame, CarryingKeeps DEF Conversation, ProgramsKeep

(* A new connection brings what its owner sends at once, and nobody else    *)
(* had it.                                                                  *)
LEMMA DialKeepsConversation ==
  ASSUME TypeOK, Conversation, NEW c \in Oldest(Unused),
         NEW who \in Clients \cup {Prober}, NEW hello \in Hello, NEW up \in Seq(ClientFrame),
         Dial(c, who, hello, up), Follows(up, inApplied), Outside \/ Unasked
  PROVE  /\ ConnectionsKeep'
         /\ \A a \in Clients : cli'[a] = cli[a] => ProgramKeeps(cli[a])'
         /\ conn'[c].pos = "backlog" /\ Under(conn'[c]) = up
<1>1. /\ c \in Conns /\ conn[c].pos = "free" /\ conn \in [Conns -> Connection]
      /\ inApplied \in Nat /\ inApplied' = inApplied
  BY DEF Oldest, Unused, TypeOK, ConnectionsOK, StreamsOK, Outside, Unasked, daemonVars, inVars
<1> DEFINE l == [FreeConn EXCEPT !.own = who, !.pos = "backlog", !.hello = hello, !.up = up]
<1>2. conn' = [conn EXCEPT ![c] = l]
  BY DEF Dial
<1>3. /\ l.rx = <<>> /\ l.up = up /\ l.tx = <<>> /\ l.down = <<>> /\ l.pos = "backlog"
  BY DEF FreeConn
<1> HIDE DEF l
<1>4. Under(l) = up
  BY <1>3, ConcatEmptySeq DEF Under
<1>5. Good(l, inApplied)
  <2>1. DOMAIN <<>> = {}
    OBVIOUS
  <2> QED  BY <1>3, <1>4, <2>1 DEF Good, SaysTruth, OutputIsShallow
<1>6. conn'[c] = l /\ \A d \in Conns : d # c => conn'[d] = conn[d]
  BY <1>1, <1>2
<1>7. ConnectionsKeep'
  BY <1>1, <1>5, <1>6 DEF Conversation, ConnectionsKeep
<1>8. ASSUME NEW a \in Clients, cli'[a] = cli[a]
      PROVE  ProgramKeeps(cli[a])'
  <2>1. ProgramKeeps(cli[a]) /\ cli[a].conn \in Conns \cup {NoConn}
    BY ProgramsAreTyped DEF Conversation, ProgramsKeep
  <2>2. cli[a].conn # NoConn => conn'[cli[a].conn] = conn[cli[a].conn]
    BY <1>1, <1>6, <2>1 DEF ProgramKeeps
  <2> QED  BY <1>1, <1>8, <2>1, <2>2 DEF ProgramKeeps
<1> QED  BY <1>3, <1>4, <1>6, <1>7, <1>8

LEMMA ProbeKeepsConversation ==
  ASSUME IInv, Conversation, Probe
  PROVE  Conversation'
<1>1. PICK c \in Oldest(Unused) : Dial(c, Prober, FreeConn.hello, <<>>)
  BY DEF Probe
<1>2. TypeOK /\ UNCHANGED cli /\ Unasked
  BY DEF IInv, Probe
<1>3. FreeConn.hello \in Hello /\ <<>> \in Seq(ClientFrame) /\ Prober \in Clients \cup {Prober}
  BY EmptySeq DEF FreeConn, Hello, Greetings
<1>4. Follows(<<>>, inApplied)
  <2>1. DOMAIN <<>> = {}
    OBVIOUS
  <2> QED  BY <2>1 DEF Follows
<1>5. /\ ConnectionsKeep'
      /\ \A a \in Clients : cli'[a] = cli[a] => ProgramKeeps(cli[a])'
  BY <1>1, <1>2, <1>3, <1>4, DialKeepsConversation
<1> QED  BY <1>2, <1>5 DEF Conversation, ProgramsKeep

(* A replay of everything unacknowledged, in one frame or in many, follows  *)
(* on what was acknowledged and leads up to what comes next.                *)
LEMMA ReplayFollows ==
  ASSUME NEW n \in Nat, NEW p \in Program, p.acked <= n, p.acked <= p.next,
         NEW replay \in Replays(p), NEW head \in ClientFrame, head.type # "Input"
  PROVE  LET up == <<head>> \o replay IN
         /\ up \in Seq(ClientFrame) /\ Follows(up, n) /\ Reaches(up, Len(up), n, p.next)
<1> DEFINE up == <<head>> \o replay
           d == p.next - p.acked
<1>1. p.acked \in Nat /\ p.next \in Nat /\ d \in Nat
  BY DEF Program
<1>2. /\ <<head>> \in Seq(ClientFrame) /\ Len(<<head>>) = 1 /\ <<head>>[1] = head
      /\ DOMAIN <<head>> = {1}
  OBVIOUS
<1>3. ASSUME NEW off \in Nat, NEW len \in Nat
      PROVE  /\ InputFrame(off, len) \in ClientFrame
             /\ InputFrame(off, len).type = "Input" /\ InputFrame(off, len).at = off
             /\ EndOf(InputFrame(off, len)) = off + len
  BY DEF InputFrame, CF, ClientFrame, ClientFrameTypes, EndOf
<1>4. Follows(<<head>>, n)
  BY <1>2 DEF Follows
<1>5. CASE replay = <<>> /\ p.acked >= p.next
  <2>1. up = <<head>>
    BY <1>2, <1>5, ConcatEmptySeq
  <2>2. p.next <= n
    BY <1>1, <1>5
  <2> QED  BY <1>2, <1>4, <2>1, <2>2 DEF Reaches
<1>6. CASE replay = <<InputFrame(p.acked, d)>>
  <2> DEFINE f == InputFrame(p.acked, d)
  <2>1. f \in ClientFrame /\ f.type = "Input" /\ f.at = p.acked /\ EndOf(f) = p.next
    <3>1. p.acked + d = p.next
      BY <1>1
    <3> HIDE DEF d
    <3>2. f \in ClientFrame /\ f.type = "Input" /\ f.at = p.acked /\ EndOf(f) = p.acked + d
      BY <1>1, <1>3, Zenon
    <3> QED  BY <3>1, <3>2
  <2> HIDE DEF f
  <2>2. up = Append(<<head>>, f)
    BY <1>2, <1>6, <2>1, AppendIsConcat DEF f
  <2>3. up \in Seq(ClientFrame) /\ Len(up) = 2
    <3> HIDE DEF up
    <3>1. /\ Append(<<head>>, f) \in Seq(ClientFrame)
          /\ Len(Append(<<head>>, f)) = Len(<<head>>) + 1
      BY <1>2, <2>1, AppendProperties
    <3> QED  BY <1>2, <2>2, <3>1
  <2>4. Reaches(<<head>>, Len(<<head>>), n, f.at)
    BY <2>1 DEF Reaches
  <2> HIDE DEF up
  <2>5. Follows(up, n) /\ Reaches(up, 1 + 1, n, EndOf(f))
    BY <1>2, <1>4, <2>1, <2>2, <2>4, OneMoreFollows
  <2> QED  BY <2>1, <2>3, <2>5 DEF up
<1>7. CASE /\ replay = [i \in 1 .. d |-> InputFrame(p.acked + i - 1, 1)] /\ p.acked < p.next
  <2>1. ASSUME NEW i \in 1 .. d
        PROVE  /\ replay[i] \in ClientFrame /\ replay[i].type = "Input"
               /\ replay[i].at = p.acked + i - 1 /\ EndOf(replay[i]) = p.acked + i
    <3>1. p.acked + i - 1 \in Nat /\ 1 \in Nat /\ p.acked + i - 1 + 1 = p.acked + i
      BY <1>1
    <3>2. replay[i] = InputFrame(p.acked + i - 1, 1)
      BY <1>7
    <3> DEFINE off == p.acked + i - 1
    <3>3. off \in Nat /\ off + 1 = p.acked + i
      BY <3>1
    <3>4. replay[i] = InputFrame(off, 1)
      BY <3>2
    <3> HIDE DEF off
    <3>5. /\ InputFrame(off, 1) \in ClientFrame
          /\ InputFrame(off, 1).type = "Input" /\ InputFrame(off, 1).at = off
          /\ EndOf(InputFrame(off, 1)) = off + 1
      BY <1>3, <3>1, <3>3
    <3>6. /\ replay[i] \in ClientFrame /\ replay[i].type = "Input"
          /\ replay[i].at = off /\ EndOf(replay[i]) = off + 1
      <4> HIDE DEF d
      <4> QED  BY <3>4, <3>5, Zenon
    <3>7. EndOf(replay[i]) = p.acked + i
      BY <3>3, <3>6
    <3> QED  BY <3>6, <3>7 DEF off
  <2>2. replay \in Seq(ClientFrame) /\ Len(replay) = d
    <3> HIDE DEF d
    <3>1. replay = [i \in 1 .. d |-> replay[i]]
      BY <1>7
    <3>2. [i \in 1 .. d |-> replay[i]] \in Seq(ClientFrame)
      BY <1>1, <2>1, IsASeq
    <3>3. DOMAIN replay = 1 .. d
      BY <1>7
    <3> QED  BY <1>1, <3>1, <3>2, <3>3, LenProperties
  <2>3. /\ up \in Seq(ClientFrame) /\ Len(up) = d + 1 /\ DOMAIN up = 1 .. d + 1
        /\ \A i \in 1 .. d + 1 : up[i] = IF i <= 1 THEN <<head>>[i] ELSE replay[i - 1]
    <3>1. up \in Seq(ClientFrame) /\ Len(up) = Len(<<head>>) + Len(replay)
      BY <1>2, <2>2, ConcatProperties
    <3>2. \A i \in 1 .. Len(<<head>>) + Len(replay) :
            up[i] = IF i <= Len(<<head>>) THEN <<head>>[i] ELSE replay[i - Len(<<head>>)]
      BY <1>2, <2>2, ConcatProperties
    <3> HIDE DEF up, d
    <3>3. Len(<<head>>) + Len(replay) = d + 1
      BY <1>1, <1>2, <2>2
    <3> QED  BY <1>2, <3>1, <3>2, <3>3, LenProperties
  <2> HIDE DEF up, d
  <2>4. up[1] = head /\ \A i \in 2 .. d + 1 : i - 1 \in 1 .. d /\ up[i] = replay[i - 1]
    BY <1>1, <1>2, <2>3
  <2>5. Follows(up, n)
    <3> SUFFICES ASSUME NEW i \in DOMAIN up, up[i].type = "Input"
                 PROVE  Reaches(up, i - 1, n, up[i].at)
      BY DEF Follows
    <3>1. i \in 2 .. d + 1
      BY <1>1, <2>3, <2>4
    <3>2. up[i].at = p.acked + (i - 1) - 1
      BY <2>1, <2>4, <3>1
    <3>3. CASE i = 2
      <4>1. up[i].at <= n
        BY <1>1, <3>2, <3>3
      <4> QED  BY <4>1 DEF Reaches
    <3>4. CASE i # 2
      <4>1. i - 1 \in 2 .. d + 1 /\ i - 1 \in 1 .. i - 1 /\ i - 1 - 1 \in 1 .. d
        BY <1>1, <3>1, <3>4
      <4>2. up[i - 1] = replay[i - 1 - 1]
        BY <2>4, <4>1
      <4>3. up[i - 1].type = "Input" /\ EndOf(up[i - 1]) = p.acked + (i - 1 - 1)
        BY <2>1, <4>1, <4>2
      <4>4. up[i].at <= EndOf(up[i - 1])
        BY <1>1, <3>1, <3>2, <4>3
      <4> QED  BY <4>1, <4>3, <4>4 DEF Reaches
    <3> QED  BY <3>3, <3>4
  <2>6. Reaches(up, Len(up), n, p.next)
    <3>1. d + 1 \in 2 .. d + 1 /\ d \in 1 .. d
      BY <1>1, <1>7 DEF d
    <3>2. up[d + 1] = replay[d]
      <4>1. d + 1 - 1 = d
        BY <1>1
      <4> QED  BY <2>4, <3>1, <4>1
    <3>3. up[d + 1].type = "Input" /\ EndOf(up[d + 1]) = p.acked + d
      BY <2>1, <3>1, <3>2
    <3>4. p.next <= EndOf(up[d + 1])
      BY <1>1, <3>3 DEF d
    <3>5. d + 1 \in 1 .. Len(up)
      BY <1>1, <2>3, <3>1
    <3> QED  BY <3>3, <3>4, <3>5 DEF Reaches
  <2> QED  BY <2>3, <2>5, <2>6 DEF up
<1>8. \/ replay = <<>> /\ p.acked >= p.next
      \/ replay = <<InputFrame(p.acked, d)>>
      \/ replay = [i \in 1 .. d |-> InputFrame(p.acked + i - 1, 1)] /\ p.acked < p.next
  BY <1>1 DEF Replays
<1> QED  BY <1>5, <1>6, <1>7, <1>8

LEMMA ConnectKeepsConversation ==
  ASSUME IInv, Conversation, NEW a \in Clients, Connect(a)
  PROVE  Conversation'
<1>1. PICK c \in Oldest(Unused), kind \in HelloKinds, w \in Sizes, p \in {cli[a], NewProgram} :
      \E replay \in Replays(p) :
        LET out == IF kind = "ahead" THEN MaxOut + 1 ELSE p.got IN
        /\ Dial(c, a, [out |-> out, kind |-> kind, win |-> w],
                <<CF(IF kind = "bad" THEN "Bad" ELSE "Hello")>> \o replay)
        /\ cli' = [cli EXCEPT ![a] =
                     [p EXCEPT !.conn = c, !.live = FALSE, !.got = out]]
  BY DEF Connect
<1>2. PICK replay \in Replays(p) :
        LET out == IF kind = "ahead" THEN MaxOut + 1 ELSE p.got IN
        /\ Dial(c, a, [out |-> out, kind |-> kind, win |-> w],
                <<CF(IF kind = "bad" THEN "Bad" ELSE "Hello")>> \o replay)
        /\ cli' = [cli EXCEPT ![a] =
                     [p EXCEPT !.conn = c, !.live = FALSE, !.got = out]]
  BY <1>1
<1> DEFINE out == IF kind = "ahead" THEN MaxOut + 1 ELSE p.got
           head == CF(IF kind = "bad" THEN "Bad" ELSE "Hello")
           up == <<head>> \o replay
           hello == [out |-> out, kind |-> kind, win |-> w]
<1>3. /\ TypeOK /\ inApplied \in Nat /\ inApplied' = inApplied /\ Outside
      /\ c \in Conns /\ cli \in [Clients -> Program]
  BY DEF IInv, TypeOK, StreamsOK, ProgramsOK, Connect, Outside, daemonVars, inVars, Oldest, Unused
<1>4. p \in Program /\ p.acked <= inApplied /\ p.acked <= p.next
  <2>1. /\ NewProgram \in Program /\ NewProgram.acked <= inApplied
        /\ NewProgram.acked <= NewProgram.next
    BY <1>3 DEF Program, NewProgram, NoConn, RESUME_FROM_START
  <2> QED  BY <1>3, <2>1 DEF Conversation, ProgramsKeep, ProgramKeeps
<1>5. head \in ClientFrame /\ head.type # "Input"
  BY DEF CF, ClientFrame, ClientFrameTypes
<1>6. hello \in Hello
  <2>1. out \in Nat \cup {RESUME_FROM_START}
    BY <1>4, BoundsAssumption DEF Program
  <2> QED  BY <2>1, NamesAssumption DEF Hello
<1>7. Dial(c, a, hello, up) /\ cli' = [cli EXCEPT ![a] =
                                         [p EXCEPT !.conn = c, !.live = FALSE, !.got = out]]
  BY <1>2
<1> HIDE DEF head, hello
<1>8. up \in Seq(ClientFrame) /\ Follows(up, inApplied)
      /\ Reaches(up, Len(up), inApplied, p.next)
  BY <1>3, <1>4, <1>5, ReplayFollows
<1> HIDE DEF up, out
<1>9. /\ ConnectionsKeep'
      /\ \A b \in Clients : cli'[b] = cli[b] => ProgramKeeps(cli[b])'
      /\ conn'[c].pos = "backlog" /\ Under(conn'[c]) = up
  BY <1>3, <1>6, <1>7, <1>8, DialKeepsConversation
<1>10. ProgramKeeps(cli[a])'
  <2>1. cli'[a].acked = p.acked /\ cli'[a].next = p.next /\ cli'[a].conn = c
    BY <1>3, <1>4, <1>7 DEF Program
  <2> QED  BY <1>3, <1>4, <1>8, <1>9, <2>1 DEF ProgramKeeps, ReachedBy
<1>11. \A b \in Clients : b # a => cli'[b] = cli[b]
  BY <1>3, <1>7
<1> QED  BY <1>9, <1>10, <1>11 DEF Conversation, ProgramsKeep

(* What a client reads is true, so it never believes more acknowledged than *)
(* was applied.                                                             *)
LEMMA ClientReadKeepsConversation ==
  ASSUME IInv, Conversation, NEW a \in Clients, ClientRead(a)
  PROVE  Conversation' /\ AllCarry
<1> DEFINE p == cli[a]
           c == p.conn
           s == conn[c].down
           positions == LastOf({i \in DOMAIN s : Positional(s[i])})
           acks == LastOf({i \in DOMAIN s : Acks(s[i])})
           greeted == \E i \in DOMAIN s : s[i].type = "HelloOk"
           l == [conn[c] EXCEPT !.down = <<>>]
<1>1. /\ TypeOK /\ inApplied \in Nat /\ inApplied' = inApplied /\ CarriesTo(conn, inApplied)
      /\ c \in Conns /\ c # NoConn /\ conn[c] \in Connection /\ Outside
      /\ p \in Program /\ p.acked \in Nat /\ p.next \in Nat /\ cli \in [Clients -> Program]
      /\ conn' = [conn EXCEPT ![c] = l] /\ ProgramKeeps(p) /\ conn \in [Conns -> Connection]
  BY SMTT(30), ProgramsAreTyped, StayingCarries
  DEF IInv, TypeOK, StreamsOK, ConnectionsOK, ProgramsOK, ClientRead, Conversation,
      ProgramsKeep, Outside, daemonVars, inVars
<1>2. PICK got \in IF positions = {} THEN {p.got} ELSE {After(s[i]) : i \in positions},
           acked \in IF acks = {} THEN {p.acked} ELSE {Acked(s[i]) : i \in acks} :
        cli' = [cli EXCEPT ![a] = Informed(@, got, acked, greeted)]
  BY DEF ClientRead
<1>3. acked \in Nat /\ acked <= inApplied
  <2>1. CASE acks = {}
    BY <1>1, <1>2, <2>1 DEF ProgramKeeps
  <2>2. CASE acks # {}
    <3>1. PICK i \in acks : acked = Acked(s[i])
      BY <1>2, <2>2
    <3>2. i \in DOMAIN s /\ Acks(s[i])
      BY <3>1 DEF LastOf
    <3>3. s[i] \in ServerFrame
      BY SMTT(30), <1>1, <3>2, ElementOfSeq, LenProperties DEF Connection
    <3>4. Truthful(s[i], inApplied)
      BY <1>1, <3>2 DEF Conversation, ConnectionsKeep, Good, SaysTruth
    <3> QED  BY <3>1, <3>2, <3>3, <3>4 DEF Truthful, Acked, ServerFrame
  <2> QED  BY <2>1, <2>2
<1>4. Carries(conn[c], inApplied, l, inApplied) /\ l \in Connection
  <2>1. /\ l.rx = conn[c].rx /\ l.up = conn[c].up /\ l.tx = conn[c].tx /\ l.down = <<>>
        /\ l.own = conn[c].own /\ l.hello = conn[c].hello /\ l.pos = conn[c].pos
        /\ l \in Connection
    BY <1>1, EmptySeq DEF Connection
  <2> HIDE DEF l
  <2>2. DOMAIN l.down = {}
    BY <2>1
  <2>3. SaysTruth(conn[c], inApplied) => SaysTruth(l, inApplied)
    BY <2>1, <2>2 DEF SaysTruth
  <2>4. OutputIsShallow(conn[c]) => OutputIsShallow(l)
    BY <2>1 DEF OutputIsShallow
  <2> QED  BY <2>1, <2>3, <2>4, SpeechCarries
<1>5. l.pos = conn[c].pos /\ conn'[c] = l
  BY <1>1 DEF Connection
<1> HIDE DEF l, acks, positions, greeted
<1>6. AllCarry
  <2>1. CarriesTo(conn', inApplied)
    BY <1>1, <1>4, ReplacedCarries
  <2> QED  BY <1>1, <2>1, ClientSideIsSame
<1>7. ConnectionsKeep' /\ \A b \in Clients : cli'[b] = cli[b] => ProgramKeeps(cli[b])'
  BY <1>1, <1>6, CarryingKeeps
<1>8. ProgramKeeps(cli[a])'
  <2> DEFINE next == LargerOf(p.next, acked)
  <2>1. cli'[a].acked = acked /\ cli'[a].next = next /\ cli'[a].conn = c
    BY <1>1, <1>2 DEF Informed, Program
  <2>2. acked <= next /\ (next = p.next \/ next <= inApplied)
    BY <1>1, <1>3 DEF LargerOf
  <2> HIDE DEF next
  <2>3. conn[c].pos # "free" /\ (conn[c].pos # "closed" => ReachedBy(conn[c], inApplied, p.next))
    BY <1>1 DEF ProgramKeeps
  <2>4. l.pos # "closed" => ReachedBy(l, inApplied, next)
    <3>1. CASE next = p.next
      BY <1>1, <1>4, <1>5, <2>3, <3>1 DEF Carries
    <3>2. CASE next <= inApplied
      BY <3>2 DEF ReachedBy, Reaches
    <3> QED  BY <2>2, <3>1, <3>2
  <2> QED  BY <1>1, <1>3, <1>5, <2>1, <2>2, <2>3, <2>4 DEF ProgramKeeps
<1>9. \A b \in Clients : b # a => cli'[b] = cli[b]
  BY <1>1, <1>2
<1> QED  BY <1>6, <1>7, <1>8, <1>9 DEF Conversation, ProgramsKeep

-----------------------------------------------------------------------------
(* The theorems *)

LEMMA ConversationStarts == Init => Conversation
<1> SUFFICES ASSUME Init PROVE Conversation
  OBVIOUS
<1>1. inApplied = 0 /\ \A c \in Conns : conn[c] = FreeConn
  BY DEF Init
<1>2. \A a \in Clients : cli[a] = NewProgram
  BY DEF Init
<1>3. Good(FreeConn, 0)
  <2>1. FreeConn.tx = <<>> /\ FreeConn.down = <<>> /\ Under(FreeConn) = <<>>
    BY ConcatEmptySeq, EmptySeq DEF FreeConn, Under
  <2>2. DOMAIN <<>> = {}
    OBVIOUS
  <2> QED  BY <2>1, <2>2 DEF Good, SaysTruth, OutputIsShallow, Follows
<1>4. ProgramKeeps(NewProgram)
  BY <1>1 DEF ProgramKeeps, NewProgram, NoConn
<1> QED  BY <1>1, <1>2, <1>3, <1>4 DEF Conversation, ConnectionsKeep, ProgramsKeep

(* What is right of the conversation stays right: the invariant behind the  *)
(* theorems below.                                                          *)
THEOREM ConversationInvariant == Spec => []Conversation
<1>1. IInv /\ Conversation /\ [Next]_vars => Conversation'
  <2> SUFFICES ASSUME IInv, Conversation, [Next]_vars PROVE Conversation'
    OBVIOUS
  <2>1. CASE DaemonStep
    BY <2>1, DaemonKeepsConversation
  <2>2. CASE ClientStep
    BY <2>2, ProbeKeepsConversation, ConnectKeepsConversation, TypeKeepsConversation,
       SayKeepsConversation, ClientReadKeepsConversation, HangsUpKeepsConversation
    DEF ClientStep
  <2>3. CASE ShellStep \/ Tick \/ SigTerm \/ PollFails \/ UNCHANGED vars
    BY <2>3, OthersKeepConversation
  <2> QED  BY <2>1, <2>2, <2>3 DEF Next
<1> QED  BY <1>1, ConversationStarts, InductiveInvariant, PTL DEF Spec

LEMMA WhatIsSaid ==
  ASSUME TypeOK, ConnectionsKeep, NEW c \in Conns,
         NEW f \in SeqRange(conn[c].down \o conn[c].tx)
  PROVE  Truthful(f, inApplied)
<1> DEFINE d == conn[c].down
           t == conn[c].tx
<1>1. /\ d \in Seq(ServerFrame) /\ t \in Seq(ServerFrame)
      /\ Len(d) \in Nat /\ Len(t) \in Nat /\ DOMAIN d = 1 .. Len(d) /\ DOMAIN t = 1 .. Len(t)
  BY LenProperties DEF TypeOK, ConnectionsOK, Connection
<1>2. SaysTruth(conn[c], inApplied)
  BY DEF ConnectionsKeep, Good
<1>3. PICK i \in DOMAIN (d \o t) : f = (d \o t)[i]
  BY DEF SeqRange
<1> HIDE DEF d, t
<1>4. i \in 1 .. Len(d) + Len(t) /\ f = IF i <= Len(d) THEN d[i] ELSE t[i - Len(d)]
  BY <1>1, <1>3, ConcatProperties, LenProperties
<1>5. CASE i <= Len(d)
  <2>1. i \in DOMAIN d /\ f = d[i]
    BY <1>1, <1>4, <1>5
  <2> QED  BY <1>2, <2>1 DEF SaysTruth, d
<1>6. CASE ~ (i <= Len(d))
  <2>1. i - Len(d) \in DOMAIN t /\ f = t[i - Len(d)]
    BY <1>1, <1>4, <1>6
  <2> QED  BY <1>2, <2>1 DEF SaysTruth, t
<1> QED  BY <1>5, <1>6

(* No client that keeps to the protocol is told it skipped input, and none  *)
(* is told more was applied than was, over every replay, takeover and       *)
(* client that starts afresh (on_hello, on_input).                          *)
THEOREM DaemonAgreesOnInput == Spec => []InputOffsetsAgree
<1>1. TypeOK /\ Conversation => InputOffsetsAgree
  <2> SUFFICES ASSUME TypeOK, Conversation PROVE InputOffsetsAgree
    OBVIOUS
  <2>1. \A c \in Conns : \A f \in SeqRange(conn[c].down \o conn[c].tx) : Truthful(f, inApplied)
    BY WhatIsSaid DEF Conversation
  <2>2. NobodyIsAccused
    BY <2>1 DEF NobodyIsAccused, Truthful
  <2>3. AcksAreTrue
    BY <2>1 DEF AcksAreTrue, Truthful, Conversation, ProgramsKeep, ProgramKeeps
  <2> QED  BY <2>2, <2>3 DEF InputOffsetsAgree
<1> QED  BY <1>1, ConversationInvariant, DaemonTypeCorrect, PTL

(* However long a client does not read, no output is queued for it deeper   *)
(* than MAX_PENDING_WRITE (pump_output's room, after the Gap it sends).     *)
THEOREM DaemonBoundsItsQueue == Spec => []OutputQueueIsBounded
<1>1. TypeOK /\ Conversation => OutputQueueIsBounded
  BY DEF TypeOK, ConnectionsOK, Conversation, ConnectionsKeep, Good, OutputIsShallow,
         OutputQueueIsBounded
<1> QED  BY <1>1, ConversationInvariant, DaemonTypeCorrect, PTL

-----------------------------------------------------------------------------
(* Who takes the session over.  A Hello is only ever under way from a       *)
(* client program, on a connection it made to greet; the daemon settles the *)
(* greeting of such a connection alone, once it has found it can answer it, *)
(* and nothing that happens to the incumbent meanwhile gives the pending    *)
(* slot to another.                                                         *)
Entitled(k) == k.own \in Clients /\ k.hello.kind # "bad"

HellosAreVouchedFor == \A c \in Conns : Greets(conn[c]) => Entitled(conn[c])
SettlesAGreeting ==
  reading \in {"drain", "greet"} =>
    Entitled(conn[pending]) /\ Answerable(conn[pending].hello)
Entitlement == HellosAreVouchedFor /\ SettlesAGreeting

LEMMA CarryingVouches ==
  ASSUME HellosAreVouchedFor, AllCarry
  PROVE  /\ HellosAreVouchedFor'
         /\ \A c \in Conns : conn'[c].own = conn[c].own /\ conn'[c].hello = conn[c].hello
<1>1. \A c \in Conns : SameParty(conn[c], conn'[c])
  BY DEF AllCarry, CarriesTo, Carries
<1> QED  BY <1>1 DEF HellosAreVouchedFor, SameParty, Entitled

(* The handlers that take the pass on from where no frame is being read.    *)
LEMMA HandlersSettleNothing ==
  ASSUME IInv,
         \/ Poll \/ EndPass \/ Shutdown \/ ReadPty \/ HangUp \/ ApplyWin \/ WritePty
         \/ CollectOutcome \/ Accept \/ PumpOutput \/ WriteClient
  PROVE  reading' \notin {"drain", "greet"}
<1>1. pc = Stopping \/ pc = Waiting => reading \notin {"drain", "greet"}
  BY DEF IInv, SnapshotHolds, Stopping, Waiting
<1>2. CASE Poll \/ Shutdown
  BY <1>1, <1>2 DEF Poll, Shutdown
<1>3. CASE EndPass
  BY <1>3 DEF EndPass
<1>4. CASE ReadPty \/ HangUp \/ ApplyWin \/ WritePty \/ CollectOutcome
  BY <1>4 DEF ReadPty, HangUp, ApplyWin, WritePty, CollectOutcome, At
<1>5. CASE Accept \/ PumpOutput \/ WriteClient
  BY <1>5 DEF Accept, PumpOutput, NudgeRepaint, WriteClient, At
<1> QED  BY <1>2, <1>3, <1>4, <1>5

(* Reading the incumbent once more leaves the pending connection where it is. *)
LEMMA DecodingKeepsThePending ==
  ASSUME ReadClient \/ Decode \/ DecodeEnds, reading' \in {"drain", "greet"}
  PROVE  reading \in {"drain", "greet"} /\ pending' = pending
<1>1. CASE ReadClient
  BY <1>1 DEF ReadClient, FillClient
<1>2. CASE Decode
  BY <1>2 DEF Decode
<1>3. CASE DecodeEnds
  BY <1>3 DEF DecodeEnds
<1> QED  BY <1>1, <1>2, <1>3

LEMMA GreetingIsSettled ==
  ASSUME Greet
  PROVE  reading' \notin {"drain", "greet"}
<1>1. CASE reading' = "no"
  BY <1>1
<1>2. CASE \E cn \in Evictions : OnHello(cn)
  BY <1>2 DEF OnHello
<1> QED  BY <1>1, <1>2 DEF Greet

(* read_pending comes to settle a greeting only behind a Hello it decoded.  *)
LEMMA ReadPendingSettles ==
  ASSUME IInv, HellosAreVouchedFor, ReadPending, reading' \in {"drain", "greet"}
  PROVE  /\ pending' = pending /\ pending \in Conns
         /\ Entitled(conn[pending]) /\ Answerable(conn[pending].hello)
<1> DEFINE k == Filled(conn[pending])
<1>1. /\ TypeOK /\ inApplied \in Nat /\ pending \in Conns /\ conn[pending] \in Connection
      /\ reading = "no"
  BY DEF IInv, TypeOK, StreamsOK, ConnectionsOK, ReadPending, SnapshotHolds, At, Work, NoConn
<1>2. /\ k \in Connection /\ k.hello = conn[pending].hello
      /\ Carries(conn[pending], inApplied, k, inApplied)
  BY <1>1, FilledIsConnection, FilledCarries
<1>3. /\ HasFrame(k) /\ Head(k.rx).type = "Hello" /\ Answerable(k.hello)
      /\ pending' = pending
  BY <1>1 DEF ReadPending
<1> HIDE DEF k
<1>4. Greets(k)
  <2>1. k.rx \in Seq(ClientFrame) /\ k.up \in Seq(ClientFrame) /\ Under(k) \in Seq(ClientFrame)
    BY <1>2, UnderIsFrames
  <2>2. Under(k) # <<>> /\ Head(Under(k)) = Head(k.rx)
    BY <1>3, <2>1, HeadOfConcat DEF Under, HasFrame
  <2>3. 1 \in DOMAIN Under(k) /\ Under(k)[1] = Head(k.rx)
    BY <2>1, <2>2, HeadIsFirst
  <2> QED  BY <1>3, <2>3 DEF Greets
<1>5. Greets(conn[pending])
  BY <1>2, <1>4 DEF Carries, SameParty
<1> QED  BY <1>1, <1>2, <1>3, <1>5 DEF HellosAreVouchedFor

LEMMA DaemonKeepsEntitlement ==
  ASSUME IInv, Conversation, Entitlement, DaemonStep
  PROVE  Entitlement'
<1>1. AllCarry
  BY DaemonCarries DEF Conversation, ConnectionsKeep
<1>2. /\ HellosAreVouchedFor'
      /\ \A c \in Conns : conn'[c].own = conn[c].own /\ conn'[c].hello = conn[c].hello
  BY <1>1, CarryingVouches DEF Entitlement
<1>3. ASSUME reading' \in {"drain", "greet"}
      PROVE  /\ pending' = pending /\ pending \in Conns
             /\ Entitled(conn[pending]) /\ Answerable(conn[pending].hello)
  <2>1. CASE ReadClient \/ Decode \/ DecodeEnds
    <3>1. reading \in {"drain", "greet"} /\ pending' = pending
      BY <1>3, <2>1, DecodingKeepsThePending
    <3>2. pending \in Conns
      BY <3>1 DEF IInv, TypeOK, ConnectionsOK, SnapshotHolds
    <3> QED  BY <3>1, <3>2 DEF Entitlement, SettlesAGreeting
  <2>2. CASE ReadPending
    BY <1>3, <2>2, ReadPendingSettles DEF Entitlement
  <2> QED  BY <1>3, <2>1, <2>2, GreetingIsSettled, HandlersSettleNothing DEF DaemonStep
<1>4. SettlesAGreeting'
  BY <1>2, <1>3 DEF SettlesAGreeting, Entitled, Answerable
<1> QED  BY <1>2, <1>4 DEF Entitlement

-----------------------------------------------------------------------------
(* What happens outside leaves the greeting being settled alone, and brings *)
(* no Hello but that of a client program that means to greet.               *)

LEMMA StandingEntitlement ==
  ASSUME IInv, Entitlement, HellosAreVouchedFor', UNCHANGED <<reading, pending>>,
         \A c \in Conns : /\ conn[c].pos # "free" => conn'[c].own = conn[c].own
                          /\ conn[c].pos # "free" => conn'[c].hello = conn[c].hello
  PROVE  Entitlement'
<1> SUFFICES ASSUME reading \in {"drain", "greet"}
             PROVE  Entitled(conn'[pending]) /\ Answerable(conn'[pending].hello)
  BY DEF Entitlement, SettlesAGreeting, Entitled, Answerable
<1>1. pending \in Conns /\ pending # NoConn
  BY DEF IInv, TypeOK, ConnectionsOK, SnapshotHolds
<1>2. conn[pending].pos = "held"
  BY <1>1 DEF IInv, NoConnectionLeaks
<1> QED  BY <1>1, <1>2 DEF Entitlement, SettlesAGreeting, Entitled, Answerable

LEMMA WorldLeavesTheSlot ==
  ASSUME ClientStep \/ ShellStep \/ Tick \/ SigTerm \/ PollFails \/ UNCHANGED vars
  PROVE  UNCHANGED <<reading, pending>>
<1>1. CASE ClientStep
  BY <1>1 DEF ClientStep, Probe, Connect, Type, Say, ClientRead, HangsUp, Outside, Unasked,
              daemonVars, loopVars, attVars
<1>2. CASE ShellStep \/ Tick \/ SigTerm \/ PollFails \/ UNCHANGED vars
  BY <1>2 DEF ShellStep, ChildWrite, ChildRead, ChildExit, SlaveClose, Tick, IdleDeadline,
              PendingDeadline, OutcomeGrace, AcceptBackoff, TimeOnly, SigTerm, PollFails, vars,
              daemonVars, loopVars, attVars
<1> QED  BY <1>1, <1>2

LEMMA DialKeepsEntitlement ==
  ASSUME IInv, Entitlement, UNCHANGED <<reading, pending>>, NEW c \in Oldest(Unused),
         NEW who, NEW hello, NEW up \in Seq(ClientFrame), Dial(c, who, hello, up),
         (\E i \in DOMAIN up : up[i].type = "Hello") => who \in Clients /\ hello.kind # "bad"
  PROVE  Entitlement'
<1>1. c \in Conns /\ conn[c].pos = "free" /\ conn \in [Conns -> Connection]
  BY DEF Oldest, Unused, IInv, TypeOK, ConnectionsOK
<1> DEFINE l == [FreeConn EXCEPT !.own = who, !.pos = "backlog", !.hello = hello, !.up = up]
<1>2. conn' = [conn EXCEPT ![c] = l]
  BY DEF Dial
<1>3. l.rx = <<>> /\ l.up = up /\ l.own = who /\ l.hello = hello
  BY DEF FreeConn
<1> HIDE DEF l
<1>4. Under(l) = up
  BY <1>3, ConcatEmptySeq DEF Under
<1>5. conn'[c] = l /\ \A d \in Conns : d # c => conn'[d] = conn[d]
  BY <1>1, <1>2
<1>6. Greets(l) => Entitled(l)
  BY <1>3, <1>4 DEF Greets, Entitled
<1>7. HellosAreVouchedFor'
  BY <1>5, <1>6 DEF Entitlement, HellosAreVouchedFor
<1>8. \A d \in Conns : conn[d].pos # "free" => conn'[d] = conn[d]
  BY <1>1, <1>5
<1> QED  BY <1>7, <1>8, StandingEntitlement

LEMMA ProbeKeepsEntitlement ==
  ASSUME IInv, Entitlement, Probe
  PROVE  Entitlement'
<1>1. PICK c \in Oldest(Unused) : Dial(c, Prober, FreeConn.hello, <<>>)
  BY DEF Probe
<1>2. UNCHANGED <<reading, pending>>
  BY WorldLeavesTheSlot DEF ClientStep
<1>3. <<>> \in Seq(ClientFrame) /\ DOMAIN <<>> = {}
  BY EmptySeq
<1> QED  BY <1>1, <1>2, <1>3, DialKeepsEntitlement

LEMMA ReplaysAreInputs ==
  ASSUME NEW p \in Program, p.acked <= p.next, NEW replay \in Replays(p)
  PROVE  /\ replay \in Seq(ClientFrame)
         /\ \A i \in DOMAIN replay : replay[i].type = "Input"
<1> DEFINE n == p.next - p.acked
           at(i) == p.acked + i - 1
<1>1. p.acked \in Nat /\ p.next \in Nat /\ n \in Nat
  BY DEF Program
<1>2. CASE replay = <<>>
  BY <1>2, EmptySeq
<1>3. CASE replay = <<InputFrame(p.acked, n)>>
  <2>1. InputFrame(p.acked, n) \in ClientFrame /\ InputFrame(p.acked, n).type = "Input"
    BY <1>1 DEF InputFrame, CF, ClientFrame, ClientFrameTypes
  <2> QED  BY <1>3, <2>1
<1>4. CASE replay = [i \in 1 .. n |-> InputFrame(at(i), 1)]
  <2>1. ASSUME NEW i \in 1 .. n
        PROVE  InputFrame(at(i), 1) \in ClientFrame /\ InputFrame(at(i), 1).type = "Input"
    <3>1. at(i) \in Nat
      BY <1>1
    <3> HIDE DEF at
    <3> QED  BY <3>1 DEF InputFrame, CF, ClientFrame, ClientFrameTypes
  <2> HIDE DEF n, at
  <2>2. replay \in Seq(ClientFrame)
    BY <1>1, <1>4, <2>1, IsASeq
  <2> QED  BY <1>4, <2>1, <2>2
<1> QED  BY <1>2, <1>3, <1>4 DEF Replays

LEMMA ConnectKeepsEntitlement ==
  ASSUME IInv, Conversation, Entitlement, NEW a \in Clients, Connect(a)
  PROVE  Entitlement'
<1>1. PICK c \in Oldest(Unused), kind \in HelloKinds, w \in Sizes, p \in {cli[a], NewProgram} :
      \E replay \in Replays(p) :
        LET out == IF kind = "ahead" THEN MaxOut + 1 ELSE p.got IN
        Dial(c, a, [out |-> out, kind |-> kind, win |-> w],
             <<CF(IF kind = "bad" THEN "Bad" ELSE "Hello")>> \o replay)
  BY DEF Connect
<1>2. PICK replay \in Replays(p) :
        Dial(c, a, [out |-> IF kind = "ahead" THEN MaxOut + 1 ELSE p.got,
                    kind |-> kind, win |-> w],
             <<CF(IF kind = "bad" THEN "Bad" ELSE "Hello")>> \o replay)
  BY <1>1
<1> DEFINE hello == [out |-> IF kind = "ahead" THEN MaxOut + 1 ELSE p.got,
                     kind |-> kind, win |-> w]
           head == CF(IF kind = "bad" THEN "Bad" ELSE "Hello")
           up == <<head>> \o replay
<1>3. p \in Program /\ p.acked <= p.next
  <2>1. NewProgram \in Program /\ NewProgram.acked <= NewProgram.next
    BY DEF Program, NewProgram, NoConn, RESUME_FROM_START
  <2> QED  BY <2>1 DEF IInv, TypeOK, ProgramsOK, Conversation, ProgramsKeep, ProgramKeeps
<1>4. replay \in Seq(ClientFrame) /\ \A i \in DOMAIN replay : replay[i].type = "Input"
  BY <1>3, ReplaysAreInputs
<1>5. head \in ClientFrame /\ (head.type = "Hello" => kind # "bad")
  BY DEF CF, ClientFrame, ClientFrameTypes
<1>6. Dial(c, a, hello, up) /\ hello.kind = kind
  BY <1>2
<1>7. UNCHANGED <<reading, pending>>
  BY WorldLeavesTheSlot DEF ClientStep
<1> HIDE DEF hello, head
<1>8. /\ up \in Seq(ClientFrame)
      /\ (\E i \in DOMAIN up : up[i].type = "Hello") => head.type = "Hello"
  <2>1. <<head>> \in Seq(ClientFrame) /\ Len(<<head>>) = 1 /\ <<head>>[1] = head
    BY <1>5
  <2>2. Len(replay) \in Nat /\ DOMAIN replay = 1 .. Len(replay)
    BY <1>4, LenProperties
  <2>3. /\ up \in Seq(ClientFrame) /\ Len(up) = 1 + Len(replay)
        /\ \A i \in 1 .. 1 + Len(replay) :
             up[i] = IF i <= 1 THEN <<head>>[i] ELSE replay[i - 1]
    BY <1>4, <2>1, ConcatProperties
  <2>4. DOMAIN up = 1 .. 1 + Len(replay)
    BY <2>3, LenProperties
  <2> HIDE DEF up
  <2>5. ASSUME NEW i \in DOMAIN up, up[i].type = "Hello"
        PROVE  head.type = "Hello"
    <3>1. CASE i = 1
      BY <2>1, <2>2, <2>3, <2>4, <2>5, <3>1
    <3>2. CASE i # 1
      <4>1. i - 1 \in DOMAIN replay /\ up[i] = replay[i - 1]
        BY <2>2, <2>3, <2>4, <3>2
      <4> QED  BY <1>4, <2>5, <4>1
    <3> QED  BY <3>1, <3>2
  <2> QED  BY <2>3, <2>5
<1> HIDE DEF up
<1> QED  BY <1>5, <1>6, <1>7, <1>8, DialKeepsEntitlement

LEMMA WorldKeepsEntitlement ==
  ASSUME IInv, Conversation, Entitlement,
         ClientStep \/ ShellStep \/ Tick \/ SigTerm \/ PollFails \/ UNCHANGED vars
  PROVE  Entitlement'
<1>1. UNCHANGED <<reading, pending>>
  BY WorldLeavesTheSlot
<1>2. CASE AllCarry
  BY <1>1, <1>2, CarryingVouches, StandingEntitlement DEF Entitlement
<1>3. CASE ClientStep
  <2>1. CASE Probe
    BY <2>1, ProbeKeepsEntitlement
  <2>2. ASSUME NEW a \in Clients, Connect(a)
        PROVE  Entitlement'
    BY <2>2, ConnectKeepsEntitlement
  <2>3. ASSUME NEW a \in Clients, Type(a) \/ Say(a) \/ ClientRead(a)
        PROVE  AllCarry
    BY <2>3, TypeKeepsConversation, SayKeepsConversation, ClientReadKeepsConversation
  <2>4. ASSUME NEW c \in Conns, HangsUp(c)
        PROVE  AllCarry
    BY <2>4, HangsUpKeepsConversation
  <2> QED  BY <1>2, <1>3, <2>1, <2>2, <2>3, <2>4 DEF ClientStep
<1>4. CASE ShellStep \/ Tick \/ SigTerm \/ PollFails \/ UNCHANGED vars
  <2>1. UNCHANGED conn
    BY <1>4 DEF ShellStep, ChildWrite, ChildRead, ChildExit, SlaveClose, Tick, IdleDeadline,
                PendingDeadline, OutcomeGrace, AcceptBackoff, TimeOnly, SigTerm, PollFails, vars
  <2> QED  BY <1>1, <2>1 DEF Entitlement, HellosAreVouchedFor, SettlesAGreeting
<1> QED  BY <1>3, <1>4

(* Only on_hello's promotion gives the session to another.                  *)
TakesOverByGreeting ==
  client' \notin {client, NoConn} =>
    /\ conn[client'].own \in Clients
    /\ conn[client'].hello.kind \notin {"old", "bad"}
    /\ client # NoConn =>
         /\ conn[client'].hello.kind # "if_detached"
         /\ conn'[client].pos = "closed"
         /\ Room(conn[client]) > Queued(conn[client]) =>
              conn'[client].down =
                conn[client].down \o conn[client].tx \o <<SF("Takeover", 0, 0)>>

LEMMA AnswersAssociate ==
  ASSUME NEW s \in Seq(ServerFrame), NEW t \in Seq(ServerFrame), NEW u \in Seq(ServerFrame)
  PROVE  (s \o t) \o u = s \o (t \o u)
OBVIOUS

(* An incumbent whose socket has the room is told all it was owed, and last *)
(* that it was taken over from.                                             *)
LEMMA EvictedIsTold ==
  ASSUME NEW k \in Connection, NEW f \in ServerFrame, Room(k) > Queued(k),
         NEW l \in FinalFlushes(Sent(k, f))
  PROVE  l.down = k.down \o k.tx \o <<f>>
<1> DEFINE s == Sent(k, f)
<1>1. /\ k.tx \in Seq(ServerFrame) /\ k.down \in Seq(ServerFrame)
      /\ Queued(k) \in Nat /\ Len(k.down) \in Nat
  BY LenProperties DEF Connection, Queued
<1>2. /\ s.tx = Append(k.tx, f) /\ s.down = k.down /\ s.peer = k.peer
      /\ s \in Connection
  BY SentIsConnection DEF Sent, Connection
<1>3. Queued(s) = Queued(k) + 1 /\ Room(s) = Room(k) /\ Len(s.tx) = Len(k.tx) + 1
  BY <1>1, <1>2, AppendProperties DEF Queued, Room
<1>4. Room(k) \in Nat
  <2>1. Room(k) = IF k.peer = "gone" THEN 0 ELSE LargerOf(0, SockCap - Len(k.down))
    BY DEF Room
  <2> QED  BY <1>1, <2>1, BoundsAssumption DEF LargerOf
<1>5. k.peer # "gone"
  BY <1>1 DEF Room
<1> HIDE DEF s
<1>6. SmallerOf(Room(s), Queued(s)) = Queued(s) /\ Queued(s) \in Nat
  BY <1>1, <1>3, <1>4 DEF SmallerOf
<1>7. l = Closed(Written(s, Queued(s)))
  <2>1. PICK n \in Queued(s) .. Queued(s) : l = Closed(Written(s, n))
    BY <1>2, <1>5, <1>6 DEF FinalFlushes, s
  <2> QED  BY <1>6, <2>1
<1>8. l.down = s.down \o SubSeq(s.tx, 1, Queued(s))
  BY <1>2, <1>7 DEF Closed, Written, Connection
<1>9. SubSeq(s.tx, 1, Queued(s)) = Append(k.tx, f)
  <2>1. Append(k.tx, f) \in Seq(ServerFrame)
    BY <1>1, AppendProperties
  <2> QED  BY <1>2, <2>1, SubSeqFull DEF Queued
<1>10. Append(k.tx, f) = k.tx \o <<f>>
  BY <1>1, AppendIsConcat
<1>11. (k.down \o k.tx) \o <<f>> = k.down \o (k.tx \o <<f>>)
  <2>1. <<f>> \in Seq(ServerFrame)
    OBVIOUS
  <2> QED  BY <1>1, <2>1, AnswersAssociate
<1> QED  BY <1>2, <1>8, <1>9, <1>10, <1>11

LEMMA OthersPromoteNobody ==
  ASSUME [Next]_vars, ~Greet
  PROVE  client' \in {client, NoConn}
<1>1. CASE Poll \/ EndPass \/ Shutdown \/ ReadPty \/ HangUp \/ ApplyWin \/ WritePty
           \/ CollectOutcome
  BY <1>1 DEF Poll, EndPass, Shutdown, ReadPty, HangUp, ApplyWin, WritePty, CollectOutcome,
              Reject, Drop, attVars
<1>2. CASE ReadClient \/ Decode \/ DecodeEnds
  BY <1>2 DEF ReadClient, Decode, DecodeEnds, HandleFrame, OnInput, FillClient, Reject, Drop
<1>3. CASE Accept \/ ReadPending \/ PumpOutput \/ WriteClient
  BY <1>3 DEF Accept, ReadPending, FillClient, Drop, PumpOutput, WriteClient
<1>4. CASE ClientStep
  BY <1>4 DEF ClientStep, Probe, Connect, Type, Say, ClientRead, HangsUp, Outside, Unasked,
              daemonVars, attVars
<1>5. CASE ShellStep \/ Tick \/ SigTerm \/ PollFails \/ UNCHANGED vars
  BY <1>5 DEF ShellStep, ChildWrite, ChildRead, ChildExit, SlaveClose, Tick, IdleDeadline,
              PendingDeadline, OutcomeGrace, AcceptBackoff, TimeOnly, SigTerm, PollFails, vars,
              daemonVars, attVars
<1> QED  BY <1>1, <1>2, <1>3, <1>4, <1>5 DEF Next, DaemonStep

LEMMA GreetTakesOver ==
  ASSUME IInv, Entitlement, Greet
  PROVE  TakesOverByGreeting
<1>1. /\ ConnectionsOK /\ NoConnectionLeaks /\ pending \in Conns /\ pending # NoConn
      /\ Entitled(conn[pending]) /\ Answerable(conn[pending].hello)
  BY DEF IInv, TypeOK, ConnectionsOK, SnapshotHolds, Greet, Entitlement, SettlesAGreeting
<1>2. CASE Occupied(conn[pending].hello)
  BY <1>2 DEF Greet, TakesOverByGreeting
<1>3. CASE ~Occupied(conn[pending].hello)
  <2>1. PICK cn \in Evictions : OnHello(cn)
    BY <1>3 DEF Greet
  <2>2. CASE client' = NoConn
    BY <2>2 DEF TakesOverByGreeting
  <2>3. CASE client' = pending
    <3>1. ASSUME client # NoConn
          PROVE  /\ conn'[client].pos = "closed"
                 /\ Room(conn[client]) > Queued(conn[client]) =>
                      conn'[client].down =
                        conn[client].down \o conn[client].tx \o <<SF("Takeover", 0, 0)>>
      <4>1. client \in Conns /\ client # pending
        BY <1>1, <3>1 DEF ConnectionsOK, NoConnectionLeaks
      <4>2. cn \in [Conns -> Connection] /\ cn[client].pos = "closed"
        BY <1>1, <3>1, EvictionsLeaveThePending
      <4>3. conn'[client] = cn[client]
        BY <2>1, <4>1, <4>2 DEF OnHello
      <4>4. cn[client] \in FinalFlushes(Sent(conn[client], SF("Takeover", 0, 0)))
        BY <1>1, <3>1, <4>1 DEF Evictions, ConnectionsOK
      <4>5. conn[client] \in Connection /\ SF("Takeover", 0, 0) \in ServerFrame
        BY <1>1, <4>1, ServerFrames DEF ConnectionsOK, ServerFrameTypes, Refusals
      <4> QED  BY <4>2, <4>3, <4>4, <4>5, EvictedIsTold
    <3> QED
      BY <1>1, <1>3, <2>3, <3>1 DEF TakesOverByGreeting, Entitled, Answerable, Occupied
  <2> QED  BY <2>1, <2>2, <2>3 DEF OnHello
<1> QED  BY <1>2, <1>3

(* Connecting is not attaching: whatever connections are made, probes and   *)
(* clients of another protocol among them, the session passes only to one   *)
(* whose Hello the daemon could answer, never over an incumbent to one that *)
(* asked to be refused instead; the incumbent it displaces is told, last    *)
(* of all it was owed, whenever its socket has the room (read_pending,      *)
(* on_hello, evict).                                                        *)
THEOREM DaemonTurnsOverOnlyToAGreeting == Spec => OnlyAGreetingTakesOver
<1>1. Init => Entitlement
  <2> SUFFICES ASSUME Init PROVE Entitlement
    OBVIOUS
  <2>1. ~Greets(FreeConn)
    <3>1. Under(FreeConn) = <<>> /\ DOMAIN <<>> = {}
      BY ConcatEmptySeq, EmptySeq DEF FreeConn, Under
    <3> QED  BY <3>1 DEF Greets
  <2>2. reading = "no" /\ \A c \in Conns : conn[c] = FreeConn
    BY DEF Init
  <2> QED  BY <2>1, <2>2 DEF Entitlement, HellosAreVouchedFor, SettlesAGreeting
<1>2. IInv /\ Conversation /\ Entitlement /\ [Next]_vars => Entitlement'
  BY DaemonKeepsEntitlement, WorldKeepsEntitlement DEF Next
<1>3. IInv /\ Entitlement /\ [Next]_vars => TakesOverByGreeting
  <2> SUFFICES ASSUME IInv, Entitlement, [Next]_vars PROVE TakesOverByGreeting
    OBVIOUS
  <2>1. CASE Greet
    BY <2>1, GreetTakesOver
  <2>2. CASE ~Greet
    BY <2>2, OthersPromoteNobody DEF TakesOverByGreeting
  <2> QED  BY <2>1, <2>2
<1>4. Spec => [][TakesOverByGreeting]_vars
  BY <1>1, <1>2, <1>3, InductiveInvariant, ConversationInvariant, PTL DEF Spec
<1> QED  BY <1>4 DEF TakesOverByGreeting, OnlyAGreetingTakesOver

=============================================================================
