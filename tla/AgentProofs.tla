---------------------------- MODULE AgentProofs ----------------------------
(***************************************************************************)
(* Proofs about agent forwarding, for every number of local peers and of   *)
(* clients and every cap: one connection is held for the peer served and   *)
(* for no other; no reply reaches another peer than the one it is for; and *)
(* the two ends of the channel never disagree about what is open for long. *)
(*                                                                         *)
(* What a step may do to the channel, to the replies on their way and to   *)
(* the client is one of a few moves.  That every action makes one of them  *)
(* is shown once; each part of the invariant is then shown to survive each *)
(* move.                                                                   *)
(***************************************************************************)
EXTENDS AgentProperties, SequenceTheorems, WellFoundedInduction, TLAPS

(* Who left has taken everything of its connection along.                   *)
NobodyIsNobody == ~Attached => client = Client(client.who, FALSE)

(* Who waits to be let in has heard nothing.                                *)
Waiting == {p \in Peers : peers[p].pos \in {"new", "backlog"}}
WaitersAreUnheard == \A p \in Waiting : peers[p].got = <<>> /\ peers[p].down = <<>>

Base == TypeOK /\ NoPeerLeaks /\ NobodyIsNobody /\ WaitersAreUnheard

-----------------------------------------------------------------------------
(* Sequences, frames, and the records *)

LEMMA TakenAndLeft ==
  ASSUME NEW S, NEW s \in Seq(S), NEW n \in 0 .. Len(s)
  PROVE  /\ SubSeq(s, 1, n) \in Seq(S) /\ DropFirst(s, n) \in Seq(S)
         /\ Len(SubSeq(s, 1, n)) = n /\ Len(DropFirst(s, n)) = Len(s) - n
         /\ SubSeq(s, 1, n) \o DropFirst(s, n) = s
<1>1. Len(s) \in Nat /\ n \in Nat /\ \A i \in 1 .. Len(s) : s[i] \in S
  BY LenProperties, ElementOfSeq
<1>2. SubSeq(s, 1, n) \in Seq(S) /\ Len(SubSeq(s, 1, n)) = n
  <2>1. \A i \in 1 .. n : s[i] \in S
    BY <1>1
  <2>2. Len(SubSeq(s, 1, n)) = IF 1 <= n THEN n - 1 + 1 ELSE 0
    BY <1>1, <2>1, SubSeqProperties
  <2> QED  BY <1>1, <2>1, <2>2, SubSeqProperties
<1>3. SubSeq(s, n + 1, Len(s)) \in Seq(S) /\ Len(SubSeq(s, n + 1, Len(s))) = Len(s) - n
  <2>1. \A i \in n + 1 .. Len(s) : s[i] \in S
    BY <1>1
  <2>2. Len(SubSeq(s, n + 1, Len(s))) = IF n + 1 <= Len(s) THEN Len(s) - (n + 1) + 1 ELSE 0
    BY <1>1, <2>1, SubSeqProperties
  <2> QED  BY <1>1, <2>1, <2>2, SubSeqProperties
<1>4. SubSeq(s, 1, n) \o SubSeq(s, n + 1, Len(s)) = SubSeq(s, 1, Len(s))
  <2>1. 1 \in 1 .. Len(s) + 1 /\ n \in 1 - 1 .. Len(s) /\ Len(s) \in n .. Len(s)
    BY <1>1
  <2> QED  BY <2>1, ConcatAdjacentSubSeq
<1>5. SubSeq(s, 1, Len(s)) = s
  BY SubSeqFull
<1> QED  BY <1>2, <1>3, <1>4, <1>5 DEF DropFirst

LEMMA FramesAre ==
  ASSUME NEW g \in Generations
  PROVE  /\ F("AgentData", g) \in ServerFrame /\ F("AgentClose", g) \in ServerFrame
         /\ F("AgentClose", g) \in ClientFrame /\ F("Detach", g) \in ClientFrame
         /\ \A b \in Byte : /\ [F("AgentOpen", g) EXCEPT !.byte = b] \in ServerFrame
                            /\ [F("AgentData", g) EXCEPT !.byte = b] \in ClientFrame
BY DEF F, ServerFrame, ClientFrame

LEMMA ClientsAre ==
  ASSUME NEW w \in 0 .. MaxClients, NEW on \in BOOLEAN
  PROVE  Client(w, on) \in Attachment
BY EmptySeq, AgentAssumption DEF Client, Attachment, NoPeer

LEMMA ChannelsAre ==
  /\ 0 \in Generations /\ NoChannel \in Channel /\ Len(NoChannel.pending) = 0
  /\ \A p \in Peers, g \in Generations : Opened(p, g) \in Channel
<1>1. 0 \in Generations
  BY AgentAssumption DEF Generations
<1>2. <<>> \in Seq(Byte) /\ Len(<<>>) = 0
  BY EmptySeq
<1> QED  BY <1>1, <1>2 DEF NoChannel, Opened, Channel

LEMMA ClosedPeersAre ==
  ASSUME NEW r \in Peer
  PROVE  LET closed == [r EXCEPT !.pos = "closed", !.asked = 0] IN
         /\ closed \in Peer /\ closed.pos = "closed"
         /\ closed.got = r.got /\ closed.down = r.down
BY DEF Peer

(* A client that is told something is a client still.                       *)
Says(f) == [client EXCEPT !.tx = Append(@, f)]
LEMMA ToldIs ==
  ASSUME TypeOK, NEW f \in ServerFrame
  PROVE  Says(f) \in Attachment /\ Told(f) = IF Attached THEN Says(f) ELSE client
<1>1. Append(client.tx, f) \in Seq(ServerFrame)
  BY DEF TypeOK, Attachment
<1> QED  BY <1>1 DEF TypeOK, Attachment, Says, Told

-----------------------------------------------------------------------------
(* Moves of the channel *)

ChannelSide ==
  /\ chan \in Channel /\ Len(chan.pending) <= MaxChannelQueue
  /\ peers \in [Peers -> Peer] /\ \A p \in Peers : Len(peers[p].down) <= PeerCap
  /\ NoPeerLeaks

RepliesIn(ps, c, p) ==
  ps[p].got \o ps[p].down \o (IF c.peer = p THEN c.pending ELSE <<>>)
Prefix(r, s) == \E n \in 0 .. Len(s) : r = SubSeq(s, 1, n)

(* The channel goes on as it was, with every reply where it was to go; or   *)
(* it is of use no more, and of the replies only a tail may be lost.        *)
Going == /\ InUse' = InUse
         /\ InUse => chan'.peer = chan.peer /\ chan'.gen = chan.gen
         /\ \A p \in Peers : Replies(p)' = Replies(p)
Ended == /\ ~InUse'
         /\ \A p \in Peers : Prefix(Replies(p)', Replies(p))

(* Nobody joins those who wait, and they hear nothing.                      *)
WaitersStay ==
  /\ \A p \in Peers : peers'[p].pos = "new" <=> peers[p].pos = "new"
  /\ \A p \in Waiting' : p \in Waiting /\ peers'[p].got = peers[p].got
                                       /\ peers'[p].down = peers[p].down

LEMMA BytesAssociate ==
  ASSUME NEW s \in Seq(Byte), NEW t \in Seq(Byte), NEW u \in Seq(Byte)
  PROVE  (s \o t) \o u = s \o (t \o u)
OBVIOUS

LEMMA HeadIsAPrefix ==
  ASSUME NEW s \in Seq(Byte), NEW t \in Seq(Byte)
  PROVE  Prefix(s, s \o t)
<1> DEFINE u == s \o t
<1>1. Len(s) \in Nat /\ Len(t) \in Nat
  BY LenProperties
<1>2. /\ u \in Seq(Byte) /\ Len(u) = Len(s) + Len(t)
      /\ \A i \in 1 .. Len(s) + Len(t) : u[i] = IF i <= Len(s) THEN s[i] ELSE t[i - Len(s)]
  BY ConcatProperties
<1> HIDE DEF u
<1>3. Len(s) \in 0 .. Len(u)
  BY <1>1, <1>2
<1>4. \A i \in 1 .. Len(s) : u[i] = s[i]
  BY <1>1, <1>2
<1>5. SubSeq(u, 1, Len(s)) \in Seq(Byte) /\ Len(SubSeq(u, 1, Len(s))) = Len(s)
  BY <1>2, <1>3, TakenAndLeft
<1>6. \A i \in 1 .. Len(s) : SubSeq(u, 1, Len(s))[i] = s[i]
  <2>1. \A i \in 1 .. Len(s) : u[i] \in Byte
    BY <1>4, ElementOfSeq
  <2>2. \A i \in 1 .. Len(s) - 1 + 1 : SubSeq(u, 1, Len(s))[i] = u[1 + i - 1]
    BY <1>1, <2>1, SubSeqProperties
  <2> QED  BY <1>1, <1>4, <2>2
<1>7. SubSeq(u, 1, Len(s)) = s
  BY <1>5, <1>6, SeqEqual
<1> QED  BY <1>3, <1>7 DEF Prefix, u

LEMMA ItselfIsAPrefix ==
  ASSUME NEW s \in Seq(Byte)
  PROVE  Prefix(s, s)
<1>1. s \o <<>> = s /\ <<>> \in Seq(Byte)
  BY ConcatEmptySeq, EmptySeq
<1> QED  BY <1>1, HeadIsAPrefix

LEMMA RepliesAreBytes ==
  ASSUME ChannelSide, NEW p \in Peers
  PROVE  /\ peers[p].got \in Seq(Byte) /\ peers[p].down \in Seq(Byte)
         /\ chan.pending \in Seq(Byte)
         /\ Replies(p) \in Seq(Byte) /\ Replies(p) = RepliesIn(peers, chan, p)
<1>1. /\ peers[p].got \in Seq(Byte) /\ peers[p].down \in Seq(Byte)
      /\ chan.pending \in Seq(Byte)
  BY DEF ChannelSide, Peer, Channel
<1>2. (IF chan.peer = p THEN chan.pending ELSE <<>>) \in Seq(Byte)
  BY <1>1, EmptySeq
<1> QED  BY <1>1, <1>2, ConcatProperties DEF Replies, RepliesIn

(* Without its queue a peer has a prefix of what it was to have.            *)
LEMMA WithoutTheQueue ==
  ASSUME ChannelSide, NEW p \in Peers
  PROVE  /\ RepliesIn(peers, NoChannel, p) = peers[p].got \o peers[p].down
         /\ Prefix(RepliesIn(peers, NoChannel, p), Replies(p))
<1> DEFINE q == IF chan.peer = p THEN chan.pending ELSE <<>>
           g == peers[p].got
           d == peers[p].down
<1>1. g \in Seq(Byte) /\ d \in Seq(Byte) /\ q \in Seq(Byte)
  BY RepliesAreBytes, EmptySeq
<1>2. Replies(p) = (g \o d) \o q
  BY DEF Replies
<1>3. RepliesIn(peers, NoChannel, p) = (g \o d) \o <<>>
  BY DEF RepliesIn, NoChannel, NoPeer, Peers
<1> HIDE DEF g, d, q
<1>4. g \o d \in Seq(Byte)
  BY <1>1, ConcatProperties
<1>5. (g \o d) \o <<>> = g \o d
  BY <1>4, ConcatEmptySeq
<1>6. Prefix(g \o d, (g \o d) \o q)
  BY <1>1, <1>4, HeadIsAPrefix
<1> QED  BY <1>2, <1>3, <1>5, <1>6 DEF g, d

(* flush moves bytes from the channel's queue into the peer's socket: no    *)
(* reply is changed by it.                                                  *)
LEMMA FlushKeeps ==
  ASSUME ChannelSide, Serving
  PROVE  /\ chan.peer \in Peers /\ peers[chan.peer].pos = "served"
         /\ Flushed \in Channel /\ Len(Flushed.pending) <= MaxChannelQueue
         /\ Flushed.peer = chan.peer /\ Flushed.gen = chan.gen
         /\ Flushed.closing = chan.closing
         /\ Fed \in [Peers -> Peer]
         /\ \A p \in Peers : Len(Fed[p].down) <= PeerCap
         /\ \A p \in Peers : Fed[p].pos = peers[p].pos /\ (p # chan.peer => Fed[p] = peers[p])
         /\ \A p \in Peers : RepliesIn(Fed, Flushed, p) = Replies(p)
         /\ \A p \in Peers : Prefix(RepliesIn(Fed, NoChannel, p), Replies(p))
<1> DEFINE s == chan.peer
           n == Taken
           down == peers[s].down
           head == SubSeq(chan.pending, 1, n)
           tail == DropFirst(chan.pending, n)
           got == peers[s].got
<1>1. /\ s \in Peers /\ peers[s] \in Peer /\ chan \in Channel /\ peers \in [Peers -> Peer]
      /\ got \in Seq(Byte) /\ down \in Seq(Byte) /\ chan.pending \in Seq(Byte)
      /\ Len(down) <= PeerCap /\ Len(chan.pending) <= MaxChannelQueue /\ s # NoPeer
  BY RepliesAreBytes DEF ChannelSide, Serving, Channel
<1>2. Len(down) \in Nat /\ Len(chan.pending) \in Nat /\ {PeerCap, MaxChannelQueue} \subseteq Nat
  BY <1>1, LenProperties, AgentAssumption
<1>3. n \in 0 .. Len(chan.pending) /\ n <= PeerCap - Len(down)
  <2> DEFINE d == Len(down)
             q == Len(chan.pending)
  <2>1. n = IF peers[s].end = "gone" THEN 0 ELSE IF PeerCap - d < q THEN PeerCap - d ELSE q
    BY DEF Taken, SmallerOf
  <2>2. d \in Nat /\ q \in Nat /\ PeerCap \in Nat /\ d <= PeerCap
    BY <1>1, <1>2
  <2> HIDE DEF d, q, n
  <2>3. n \in 0 .. q /\ n <= PeerCap - d
    BY <2>1, <2>2
  <2> QED  BY <2>3 DEF d, q
<1>4. /\ head \in Seq(Byte) /\ tail \in Seq(Byte) /\ Len(head) = n
      /\ Len(tail) = Len(chan.pending) - n /\ head \o tail = chan.pending
  BY <1>1, <1>3, TakenAndLeft
<1>5. down \o head \in Seq(Byte) /\ Len(down \o head) = Len(down) + n
  BY <1>1, <1>4, ConcatProperties
<1>6. Fed = [peers EXCEPT ![s].down = down \o head]
  BY <1>1 DEF Fed
<1>7. /\ Flushed \in Channel /\ Flushed.pending = tail
      /\ Flushed.peer = chan.peer /\ Flushed.gen = chan.gen /\ Flushed.closing = chan.closing
  BY <1>1, <1>4 DEF Flushed, Touched, Channel
<1> HIDE DEF n, down, head, tail, got
<1>8. /\ Fed \in [Peers -> Peer] /\ \A p \in Peers : p # s => Fed[p] = peers[p]
      /\ Fed[s].down = down \o head /\ Fed[s].got = got /\ Fed[s].pos = peers[s].pos
  <2>1. Fed[s] = [peers[s] EXCEPT !.down = down \o head]
    BY <1>1, <1>6
  <2>2. /\ Fed[s] \in Peer /\ Fed[s].down = down \o head
        /\ Fed[s].got = got /\ Fed[s].pos = peers[s].pos
    BY <1>1, <1>5, <2>1 DEF Peer, got
  <2> QED  BY <1>1, <1>6, <2>2
<1>9. /\ Len(Flushed.pending) <= MaxChannelQueue
      /\ \A p \in Peers : Len(Fed[p].down) <= PeerCap
  <2>1. Len(Flushed.pending) <= MaxChannelQueue
    <3> DEFINE q == Len(chan.pending)
    <3>1. q \in Nat /\ q <= MaxChannelQueue /\ n \in 0 .. q /\ Len(tail) = q - n
      BY <1>1, <1>2, <1>3, <1>4
    <3> HIDE DEF q
    <3>2. Len(tail) <= MaxChannelQueue
      BY <1>2, <3>1
    <3> QED  BY <1>7, <3>2
  <2>2. Len(Fed[s].down) <= PeerCap
    BY <1>2, <1>3, <1>5, <1>8
  <2> QED  BY <1>8, <2>1, <2>2 DEF ChannelSide
<1>10. peers[s].pos = "served"
  BY <1>1 DEF ChannelSide, NoPeerLeaks
<1>11. ASSUME NEW p \in Peers
       PROVE  RepliesIn(Fed, Flushed, p) = Replies(p)
  <2>1. CASE p # s
    BY <1>7, <1>8, <2>1 DEF RepliesIn, Replies
  <2>2. CASE p = s
    <3>1. /\ RepliesIn(Fed, Flushed, s) = (got \o (down \o head)) \o tail
          /\ Replies(s) = (got \o down) \o chan.pending
      BY <1>7, <1>8 DEF RepliesIn, Replies, got, down
    <3>2. got \o (down \o head) = (got \o down) \o head /\ got \o down \in Seq(Byte)
      BY ZenonT(30), <1>1, <1>4, BytesAssociate, ConcatProperties DEF got, down
    <3>3. ((got \o down) \o head) \o tail = (got \o down) \o (head \o tail)
      BY <1>4, <3>2, BytesAssociate
    <3> QED  BY <1>4, <2>2, <3>1, <3>2, <3>3
  <2> QED  BY <2>1, <2>2
<1>12. ASSUME NEW p \in Peers
       PROVE  Prefix(RepliesIn(Fed, NoChannel, p), Replies(p))
  <2>1. CASE p # s
    <3>1. RepliesIn(Fed, NoChannel, p) = RepliesIn(peers, NoChannel, p)
      BY <1>8, <2>1 DEF RepliesIn
    <3> QED  BY <3>1, WithoutTheQueue
  <2>2. CASE p = s
    <3>1. /\ RepliesIn(Fed, NoChannel, s) = (got \o (down \o head)) \o <<>>
          /\ RepliesIn(Fed, Flushed, s) = (got \o (down \o head)) \o tail
      BY <1>1, <1>7, <1>8 DEF RepliesIn, NoChannel
    <3>2. got \o (down \o head) \in Seq(Byte)
      BY <1>1, <1>5, ConcatProperties DEF got
    <3>3. (got \o (down \o head)) \o <<>> = got \o (down \o head)
      BY <3>2, ConcatEmptySeq
    <3>4. Prefix(got \o (down \o head), (got \o (down \o head)) \o tail)
      BY <1>4, <3>2, HeadIsAPrefix
    <3> QED  BY <1>11, <2>2, <3>1, <3>3, <3>4
  <2> QED  BY <2>1, <2>2
<1> QED  BY <1>1, <1>7, <1>8, <1>9, <1>10, <1>11, <1>12

(* forget: the peer is let go, with what its socket has.                    *)
LEMMA ForgetEnds ==
  ASSUME ChannelSide, Serving, NEW ps, Forget(ps), ps = peers \/ ps = Fed
  PROVE  ChannelSide' /\ Ended /\ WaitersStay
<1> DEFINE s == chan.peer
<1>1. /\ s \in Peers /\ peers[s].pos = "served" /\ peers \in [Peers -> Peer]
      /\ \A p \in Peers : Len(peers[p].down) <= PeerCap
      /\ chan' = NoChannel /\ peers' = [ps EXCEPT ![s].pos = "closed", ![s].asked = 0]
  BY FlushKeeps DEF ChannelSide, Forget
<1>2. /\ ps \in [Peers -> Peer] /\ \A p \in Peers : Len(ps[p].down) <= PeerCap
      /\ \A p \in Peers : ps[p].pos = peers[p].pos /\ (p # s => ps[p] = peers[p])
      /\ \A p \in Peers : Prefix(RepliesIn(ps, NoChannel, p), Replies(p))
  BY <1>1, FlushKeeps, WithoutTheQueue
<1>3. /\ peers'[s] = [ps[s] EXCEPT !.pos = "closed", !.asked = 0]
      /\ \A p \in Peers : p # s => peers'[p] = peers[p]
  BY <1>1, <1>2
<1>4. /\ peers' \in [Peers -> Peer] /\ peers'[s].pos = "closed"
      /\ \A p \in Peers : peers'[p].got = ps[p].got /\ peers'[p].down = ps[p].down
  <2>1. /\ peers'[s] \in Peer /\ peers'[s].pos = "closed"
        /\ peers'[s].got = ps[s].got /\ peers'[s].down = ps[s].down
    <3>1. ps[s] \in Peer
      BY <1>1, <1>2
    <3> QED  BY ZenonT(30), <1>3, <3>1, ClosedPeersAre
  <2> QED  BY <1>1, <1>2, <1>3, <2>1
<1>5. NoPeerLeaks'
  <2>1. \A p \in Peers : peers'[p].pos # "served"
    BY <1>1, <1>3, <1>4 DEF ChannelSide, NoPeerLeaks
  <2> QED  BY <1>1, <2>1 DEF NoPeerLeaks, NoChannel
<1>6. ASSUME NEW p \in Peers
      PROVE  Prefix(Replies(p)', Replies(p))
  <2>1. Replies(p)' = RepliesIn(ps, NoChannel, p)
    BY <1>1, <1>4 DEF Replies, RepliesIn
  <2> QED  BY <1>2, <2>1
<1>7. ~InUse'
  BY <1>1 DEF InUse, Serving, NoChannel
<1>8. WaitersStay
  BY <1>1, <1>2, <1>3, <1>4 DEF WaitersStay, Waiting
<1>9. ChannelSide'
  BY <1>1, <1>2, <1>4, <1>5, ChannelsAre, AgentAssumption DEF ChannelSide
<1> QED  BY <1>6, <1>7, <1>8, <1>9 DEF Ended

(* close_from_client, on_detached.                                          *)
LEMMA LetGoEnds ==
  ASSUME ChannelSide, Serving, LetGo
  PROVE  ChannelSide' /\ Ended /\ WaitersStay
<1>1. CASE Spent
  BY <1>1, ForgetEnds DEF LetGo
<1>2. CASE ~Spent
  <2>1. chan' = [Flushed EXCEPT !.closing = TRUE, !.fuse = "second"] /\ peers' = Fed
    BY <1>2 DEF LetGo
  <2>2. /\ chan' \in Channel /\ chan'.pending = Flushed.pending
        /\ chan'.peer = chan.peer /\ chan'.closing
    BY <2>1, FlushKeeps DEF Channel
  <2>3. \A p \in Peers : Replies(p)' = RepliesIn(Fed, Flushed, p)
    BY <2>1, <2>2, FlushKeeps DEF Replies, RepliesIn
  <2>4. \A p \in Peers : Prefix(Replies(p)', Replies(p))
    BY <2>3, FlushKeeps, RepliesAreBytes, ItselfIsAPrefix
  <2>5. NoPeerLeaks'
    BY <2>1, <2>2, FlushKeeps DEF ChannelSide, NoPeerLeaks
  <2>6. ChannelSide'
    BY <2>1, <2>2, <2>5, FlushKeeps DEF ChannelSide
  <2>7. WaitersStay
    BY <2>1, FlushKeeps DEF WaitersStay, Waiting
  <2> QED  BY <2>2, <2>4, <2>6, <2>7 DEF Ended, InUse
<1> QED  BY <1>1, <1>2

LEMMA SameChannel ==
  ASSUME ChannelSide, UNCHANGED <<chan, peers>>
  PROVE  ChannelSide' /\ Going /\ WaitersStay
<1>1. \A p \in Peers : Replies(p)' = Replies(p)
  BY DEF Replies
<1> QED  BY <1>1 DEF ChannelSide, NoPeerLeaks, Going, InUse, Serving, WaitersStay, Waiting

LEMMA FlushGoes ==
  ASSUME ChannelSide, Serving, chan' = Flushed, peers' = Fed
  PROVE  ChannelSide' /\ Going /\ WaitersStay
<1>1. NoPeerLeaks'
  BY FlushKeeps DEF ChannelSide, NoPeerLeaks
<1>2. ChannelSide'
  BY <1>1, FlushKeeps DEF ChannelSide
<1>3. \A p \in Peers : Replies(p)' = Replies(p)
  BY FlushKeeps DEF Replies, RepliesIn
<1>4. InUse' = InUse
  BY FlushKeeps DEF InUse, Serving
<1> QED  BY <1>2, <1>3, <1>4, FlushKeeps DEF Going, WaitersStay, Waiting

(* A peer that asks, reads or leaves, or is refused, and a channel touched  *)
(* or late, change nothing about the replies.                               *)
LEMMA OnePeerMoves ==
  ASSUME ChannelSide, NEW p \in Peers, NEW r \in Peer, NEW c \in Channel,
         peers' = [peers EXCEPT ![p] = r], chan' = c,
         c.peer = chan.peer, c.gen = chan.gen, c.pending = chan.pending,
         c.closing = chan.closing,
         r.pos = "served" <=> peers[p].pos = "served",
         r.pos = "new" <=> peers[p].pos = "new",
         r.pos = "backlog" => peers[p].pos = "backlog",
         r.pos \in {"new", "backlog"} => r.got = peers[p].got /\ r.down = peers[p].down,
         r.got \o r.down = peers[p].got \o peers[p].down, Len(r.down) <= PeerCap
  PROVE  ChannelSide' /\ Going /\ WaitersStay
<1>1. /\ peers' \in [Peers -> Peer] /\ peers'[p] = r
      /\ \A q \in Peers : q # p => peers'[q] = peers[q]
  BY DEF ChannelSide
<1>2. NoPeerLeaks'
  BY <1>1 DEF ChannelSide, NoPeerLeaks
<1>3. \A q \in Peers : Replies(q)' = Replies(q)
  BY <1>1 DEF Replies
<1>4. ChannelSide'
  BY <1>1, <1>2 DEF ChannelSide
<1>5. WaitersStay
  BY <1>1 DEF WaitersStay, Waiting
<1> QED  BY <1>3, <1>4, <1>5 DEF Going, InUse, Serving

LEMMA ClosingEnds ==
  ASSUME ChannelSide, Serving, CloseChannel
  PROVE  /\ ChannelSide' /\ Ended /\ WaitersStay
         /\ client' = Told(F("AgentClose", chan.gen))
BY ForgetEnds DEF CloseChannel

LEMMA LeavingEnds ==
  ASSUME ChannelSide, Detached
  PROVE  ChannelSide' /\ Ended /\ WaitersStay
<1>1. CASE Serving
  BY <1>1, LetGoEnds DEF Detached
<1>2. CASE ~Serving
  <2>1. ChannelSide' /\ Going /\ WaitersStay
    BY <1>2, SameChannel DEF Detached
  <2>2. \A p \in Peers : Prefix(Replies(p)', Replies(p))
    BY <2>1, RepliesAreBytes, ItselfIsAPrefix DEF Going
  <2>3. ~InUse'
    BY <1>2, <2>1 DEF Going, InUse
  <2> QED  BY <2>1, <2>2, <2>3 DEF Ended
<1> QED  BY <1>1, <1>2

-----------------------------------------------------------------------------
(* The moves *)

LoopSide ==
  /\ phase \in Phases /\ ready \subseteq Events
  /\ stop \in BOOLEAN /\ sigterm \in BOOLEAN
  /\ nextGen \in Generations /\ retry \in {"none", "waiting", "due"}
  /\ faults \in 0 .. MaxFaults
ClientSide ==
  /\ client \in Attachment /\ Len(client.down) <= SockCap
  /\ client.open # NoPeer => client.gen # Wrap
  /\ NobodyIsNobody

LEMMA BaseIs == Base <=> LoopSide /\ ClientSide /\ ChannelSide /\ WaitersAreUnheard
BY DEF Base, TypeOK, LoopSide, ClientSide, ChannelSide

(* What either end can tell of the client is as it was.                     *)
SameTalk(k, l) ==
  /\ l.on = k.on /\ l.up = k.up /\ l.open = k.open /\ l.gen = k.gen /\ l.sent = k.sent
  /\ l.down \o l.tx = k.down \o k.tx
NoneLetIn == WaitersStay /\ nextGen' = nextGen

Rests == Going /\ NoneLetIn /\ SameTalk(client, client')

(* The daemon tells the client of a request, or of the channel's end, or    *)
(* ends it without a word; or the client leaves, or gives way to another.   *)
Tells == /\ Going /\ NoneLetIn /\ InUse /\ Attached
         /\ client' = Says(F("AgentData", chan.gen))
TellsTheEnd == /\ Ended /\ NoneLetIn /\ InUse /\ Attached
               /\ client' = Says(F("AgentClose", chan.gen))
EndsUnheard == Ended /\ NoneLetIn /\ ~(InUse /\ Attached) /\ client' = client
Leaves == /\ Ended /\ NoneLetIn
          /\ \E w \in 0 .. MaxClients, on \in BOOLEAN : client' = Client(w, on)

(* A frame of the client's is dropped, delivered, one too many, or a close. *)
OfChannel(f) == f.type \in {"AgentData", "AgentClose"}
Decoded(k) == [k EXCEPT !.up = Tail(@)]
Decoding == client.up # <<>> /\ Attached
Drops == /\ Going /\ NoneLetIn /\ Decoding /\ client' = Decoded(client)
         /\ ~(InUse /\ OfChannel(Head(client.up)) /\ Head(client.up).gen = chan.gen)
Fits == Decoding /\ InUse /\ Head(client.up).type = "AgentData" /\ Head(client.up).gen = chan.gen
Delivers == /\ Fits /\ NoneLetIn /\ InUse' /\ client' = Decoded(client)
            /\ chan'.peer = chan.peer /\ chan'.gen = chan.gen
            /\ Replies(chan.peer)' = Append(Replies(chan.peer), Head(client.up).byte)
            /\ \A p \in Peers : p # chan.peer => Replies(p)' = Replies(p)
Overflows == /\ Fits /\ Ended /\ NoneLetIn
             /\ client' = [Decoded(client) EXCEPT !.tx = Append(@, F("AgentClose", chan.gen))]
Closes == /\ Ended /\ NoneLetIn /\ Decoding /\ client' = Decoded(client)
          /\ Head(client.up).type = "AgentClose" /\ Head(client.up).gen = chan.gen

(* A peer is let in, under the next generation.                             *)
Open(p) == [F("AgentOpen", nextGen) EXCEPT !.byte = [to |-> p, nth |-> 0]]
LetsIn(p) ==
  /\ ~Serving /\ Attached /\ p \in Oldest(Backlog)
  /\ chan' = Opened(p, nextGen) /\ nextGen' = (nextGen + 1) % Wrap
  /\ peers' = [peers EXCEPT ![p].pos = "served"]
  /\ client' = Says(Open(p))

(* A peer comes; the client moves, and the daemon with it does not.         *)
Comes(p) == PeerConnects(p) /\ Going /\ client' = client
Speaks == /\ ClientReads \/ ClientReplies \/ ClientCloses \/ ClientDetaches
          /\ Going /\ NoneLetIn

Moves == \/ Rests \/ Tells \/ TellsTheEnd \/ EndsUnheard \/ Leaves
         \/ Drops \/ Delivers \/ Overflows \/ Closes
         \/ \E p \in Peers : LetsIn(p) \/ Comes(p)
         \/ Speaks

-----------------------------------------------------------------------------
(* Every action of the daemon is a move *)

LEMMA BaseFollows ==
  ASSUME Base, LoopSide', ClientSide', ChannelSide', WaitersStay
  PROVE  Base'
<1>1. WaitersAreUnheard'
  BY DEF Base, WaitersAreUnheard, WaitersStay
<1>2. TypeOK' /\ NoPeerLeaks' /\ NobodyIsNobody'
  BY DEF TypeOK, LoopSide, ClientSide, ChannelSide
<1> QED  BY <1>1, <1>2 DEF Base

LEMMA SameClient ==
  ASSUME ClientSide, client' = client
  PROVE  ClientSide' /\ SameTalk(client, client')
BY DEF ClientSide, NobodyIsNobody, Attached, SameTalk

LEMMA FreshClient ==
  ASSUME NEW w \in 0 .. MaxClients, NEW on \in BOOLEAN, client' = Client(w, on)
  PROVE  ClientSide'
<1>1. client' \in Attachment
  BY ClientsAre
<1>2. Len(client'.down) <= SockCap /\ client'.open = NoPeer /\ client'.on = on
      /\ client'.who = w
  BY EmptySeq, AgentAssumption DEF Client
<1> QED  BY <1>1, <1>2 DEF ClientSide, NobodyIsNobody, Attached

LEMMA ToldClient ==
  ASSUME ClientSide, Attached, NEW f \in ServerFrame, client' = Says(f)
  PROVE  ClientSide'
<1>1. Append(client.tx, f) \in Seq(ServerFrame)
  BY DEF ClientSide, Attachment
<1> QED  BY <1>1 DEF ClientSide, NobodyIsNobody, Attached, Says, Attachment

LEMMA DecodedClient ==
  ASSUME ClientSide, client.up # <<>>
  PROVE  /\ Attached /\ Head(client.up) \in ClientFrame
         /\ Decoded(client) \in Attachment
         /\ client' = Decoded(client) => ClientSide'
         /\ \A g \in Generations :
              client' = [Decoded(client) EXCEPT !.tx = Append(@, F("AgentClose", g))]
                => ClientSide'
<1>1. Attached
  <2>1. Client(client.who, FALSE).up = <<>>
    BY DEF Client
  <2> QED  BY <2>1 DEF ClientSide, NobodyIsNobody
<1>2. Tail(client.up) \in Seq(ClientFrame) /\ Head(client.up) \in ClientFrame
  BY HeadTailProperties DEF ClientSide, Attachment
<1>3. /\ Decoded(client) \in Attachment /\ Decoded(client).on = client.on
      /\ Decoded(client).down = client.down /\ Decoded(client).open = client.open
      /\ Decoded(client).gen = client.gen
  BY <1>2 DEF ClientSide, Attachment, Decoded
<1>4. ASSUME client' = Decoded(client)
      PROVE  ClientSide'
  BY <1>1, <1>3, <1>4 DEF ClientSide, NobodyIsNobody, Attached
<1> DEFINE k == Decoded(client)
<1> HIDE DEF k
<1>5. ASSUME NEW g \in Generations, client' = [k EXCEPT !.tx = Append(@, F("AgentClose", g))]
      PROVE  ClientSide'
  <2>1. k \in Attachment /\ k.on = client.on /\ k.down = client.down /\ k.open = client.open
        /\ k.gen = client.gen
    BY <1>3 DEF k
  <2>2. Append(k.tx, F("AgentClose", g)) \in Seq(ServerFrame)
    BY <2>1, FramesAre DEF Attachment
  <2>3. /\ client' \in Attachment /\ client'.on = client.on /\ client'.down = client.down
        /\ client'.open = client.open /\ client'.gen = client.gen
    BY <1>5, <2>1, <2>2 DEF Attachment
  <2> QED  BY <1>1, <2>3 DEF ClientSide, NobodyIsNobody, Attached
<1> QED  BY <1>1, <1>2, <1>3, <1>4, <1>5 DEF k

LEMMA FaultsAreCounted ==
  ASSUME faults \in 0 .. MaxFaults, faults < MaxFaults
  PROVE  faults + 1 \in 0 .. MaxFaults
BY AgentAssumption

(* Steps that neither the channel nor the client has a part in.             *)
LEMMA PassingMoves ==
  ASSUME Base, \/ Poll \/ ReadEnds \/ Refuse \/ AcceptBackoff \/ SigTerm \/ UNCHANGED vars
  PROVE  Base' /\ Rests
<1>1. UNCHANGED <<chan, peers, client, nextGen>>
  BY DEF Poll, ReadEnds, Refuse, AcceptBackoff, SigTerm, DaemonSame, Befell, vars
<1>2. LoopSide
  BY BaseIs
<1>3. LoopSide'
  <2>1. CASE Poll
    <3>1. Snapshot \subseteq Events
      BY DEF Snapshot
    <3> QED  BY <1>2, <2>1, <3>1 DEF LoopSide, Poll, Phases
  <2>2. CASE ReadEnds
    BY <1>2, <2>2 DEF LoopSide, ReadEnds, Phases
  <2>3. CASE AcceptBackoff
    BY <1>2, <2>3 DEF LoopSide, AcceptBackoff, DaemonSame
  <2>4. CASE SigTerm
    BY <1>2, <2>4, FaultsAreCounted DEF LoopSide, SigTerm, Befell
  <2>5. CASE UNCHANGED vars
    BY <1>2, <2>5 DEF LoopSide, vars
  <2>6. CASE Refuse
    BY <1>2, <2>6 DEF LoopSide, Refuse, Phases
  <2> QED  BY <2>1, <2>2, <2>3, <2>4, <2>5, <2>6
<1> QED  BY <1>1, <1>3, BaseIs, BaseFollows, SameChannel, SameClient DEF Rests, NoneLetIn

LEMMA DeliveryAppends ==
  ASSUME ChannelSide, Serving, NEW b \in Byte, UNCHANGED peers,
         ~Overfull, chan' = [chan EXCEPT !.pending = Append(@, b)]
  PROVE  /\ ChannelSide' /\ WaitersStay /\ InUse' = InUse
         /\ chan'.peer = chan.peer /\ chan'.gen = chan.gen
         /\ Replies(chan.peer)' = Append(Replies(chan.peer), b)
         /\ \A p \in Peers : p # chan.peer => Replies(p)' = Replies(p)
<1> DEFINE q == chan.pending
           s == chan.peer
<1>1. /\ s \in Peers /\ q \in Seq(Byte) /\ peers[s].got \in Seq(Byte)
      /\ peers[s].down \in Seq(Byte) /\ chan \in Channel
  BY FlushKeeps, RepliesAreBytes DEF ChannelSide
<1>2. /\ Append(q, b) \in Seq(Byte) /\ Len(Append(q, b)) = Len(q) + 1
      /\ Append(q, b) = q \o <<b>> /\ <<b>> \in Seq(Byte)
  BY <1>1, AppendProperties
<1>3. /\ chan' \in Channel /\ chan'.pending = Append(q, b) /\ chan'.peer = s
      /\ chan'.gen = chan.gen /\ chan'.closing = chan.closing
  BY <1>1, <1>2 DEF Channel
<1>4. Len(chan'.pending) <= MaxChannelQueue
  <2>1. Len(q) \in Nat /\ ~(Len(q) + 1 > MaxChannelQueue) /\ MaxChannelQueue \in Nat
    BY <1>1, LenProperties, AgentAssumption DEF Overfull
  <2> QED  BY <1>2, <1>3, <2>1
<1>5. ChannelSide' /\ WaitersStay
  BY <1>3, <1>4 DEF ChannelSide, NoPeerLeaks, WaitersStay, Waiting
<1>6. Replies(s)' = Append(Replies(s), b)
  <2> DEFINE h == peers[s].got \o peers[s].down
  <2>1. h \in Seq(Byte)
    BY <1>1, ConcatProperties
  <2>2. Replies(s) = h \o q /\ Replies(s)' = h \o Append(q, b)
    BY <1>3 DEF Replies
  <2> HIDE DEF h
  <2>3. h \o (q \o <<b>>) = (h \o q) \o <<b>>
    BY <1>1, <1>2, <2>1, BytesAssociate
  <2>4. h \o q \in Seq(Byte)
    BY <1>1, <2>1, ConcatProperties
  <2>5. (h \o q) \o <<b>> = Append(h \o q, b)
    BY <2>4, AppendProperties
  <2> QED  BY <1>2, <2>2, <2>3, <2>5
<1>7. \A p \in Peers : p # s => Replies(p)' = Replies(p)
  BY <1>3 DEF Replies
<1> QED  BY <1>3, <1>5, <1>6, <1>7 DEF InUse, Serving

LEMMA DepartingMoves ==
  ASSUME Base, LoopSide', nextGen' = nextGen, Departs
  PROVE  Base' /\ Leaves
<1>1. ChannelSide' /\ Ended /\ WaitersStay
  BY BaseIs, LeavingEnds DEF Departs
<1>2. client' = Client(client.who, FALSE) /\ client.who \in 0 .. MaxClients
  BY BaseIs DEF Departs, ClientSide, Attachment
<1> QED  BY <1>1, <1>2, FreshClient, BaseFollows DEF Leaves, NoneLetIn

(* handle_frame *)
LEMMA DecodeMoves ==
  ASSUME Base, Decode
  PROVE  Base' /\ Moves
<1> DEFINE f == Head(client.up)
<1>1. LoopSide /\ ClientSide /\ ChannelSide
  BY BaseIs
<1>2. LoopSide' /\ nextGen' = nextGen /\ client.up # <<>> /\ HandleFrame
  BY <1>1 DEF Decode, LoopSide
<1>3. /\ f \in ClientFrame /\ Attached /\ Decoding
      /\ client' = Decoded(client) => ClientSide'
  BY <1>1, <1>2, DecodedClient DEF Decoding
<1>4. CASE /\ f.type = "AgentData" /\ Names(f.gen) /\ ~chan.closing
  <2>1. f.byte \in Byte /\ Fits /\ Serving /\ InUse /\ chan.gen \in Generations
    BY <1>1, <1>3, <1>4 DEF ClientFrame, Names, Fits, InUse, ChannelSide, Channel
  <2>2. CASE Overfull
    <3>1. /\ Forget(peers)
          /\ client' = [Decoded(client) EXCEPT !.tx = Append(@, F("AgentClose", chan.gen))]
      BY <1>2, <1>4, <2>2 DEF HandleFrame, Decoded
    <3>2. ChannelSide' /\ Ended /\ WaitersStay
      BY <1>1, <2>1, <3>1, ForgetEnds
    <3>3. ClientSide'
      BY <1>1, <1>2, <2>1, <3>1, DecodedClient
    <3> QED  BY <1>2, <2>1, <3>1, <3>2, <3>3, BaseFollows DEF Moves, Overflows, NoneLetIn
  <2>3. CASE ~Overfull
    <3>1. /\ chan' = [chan EXCEPT !.pending = Append(@, f.byte)]
          /\ client' = Decoded(client) /\ UNCHANGED peers
      BY <1>2, <1>4, <2>3 DEF HandleFrame, Decoded
    <3> HIDE DEF f
    <3>2. /\ ChannelSide' /\ WaitersStay /\ InUse' = InUse
          /\ chan'.peer = chan.peer /\ chan'.gen = chan.gen
          /\ Replies(chan.peer)' = Append(Replies(chan.peer), f.byte)
          /\ \A p \in Peers : p # chan.peer => Replies(p)' = Replies(p)
      BY <1>1, <2>1, <2>3, <3>1, DeliveryAppends
    <3>3. Delivers
      BY <1>2, <2>1, <3>1, <3>2 DEF Delivers, NoneLetIn, f
    <3> QED  BY <1>2, <1>3, <3>1, <3>2, <3>3, BaseFollows DEF Moves
  <2> QED  BY <2>2, <2>3
<1>5. ASSUME client' = Decoded(client), UNCHANGED <<chan, peers>>,
             ~(InUse /\ OfChannel(f) /\ f.gen = chan.gen)
      PROVE  Base' /\ Moves
  <2>1. ChannelSide' /\ Going /\ WaitersStay
    BY <1>1, <1>5, SameChannel
  <2> QED  BY <1>2, <1>3, <1>5, <2>1, BaseFollows DEF Moves, Drops, NoneLetIn
<1>6. CASE f.type = "AgentData" /\ ~(Names(f.gen) /\ ~chan.closing)
  <2>1. client' = Decoded(client) /\ UNCHANGED <<chan, peers>>
    BY <1>2, <1>6 DEF HandleFrame, Decoded
  <2>2. ~(InUse /\ f.gen = chan.gen)
    BY <1>6 DEF Names, InUse
  <2> QED  BY <1>5, <2>1, <2>2
<1>7. CASE f.type = "AgentClose"
  <2>1. /\ client' = Decoded(client)
        /\ IF Names(f.gen) THEN LetGo ELSE UNCHANGED <<chan, peers>>
    BY <1>2, <1>7 DEF HandleFrame, Decoded
  <2>2. CASE Names(f.gen)
    <3>1. ChannelSide' /\ Ended /\ WaitersStay
      BY <1>1, <2>1, <2>2, LetGoEnds DEF Names
    <3> QED  BY <1>2, <1>3, <1>7, <2>1, <2>2, <3>1, BaseFollows
             DEF Moves, Closes, NoneLetIn, Names
  <2>3. CASE ~Names(f.gen)
    BY <1>5, <2>1, <2>3 DEF Names, InUse
  <2> QED  BY <2>2, <2>3
<1>8. CASE f.type = "Detach"
  <2>1. Departs
    BY <1>2, <1>8 DEF HandleFrame
  <2> QED  BY <1>2, <2>1, DepartingMoves DEF Moves
<1> QED  BY <1>2, <1>4, <1>6, <1>7, <1>8 DEF HandleFrame

(* drop_client for one found gone, and takeover.                            *)
LEMMA TurnOverMoves ==
  ASSUME Base, TurnOver \/ Attach
  PROVE  Base' /\ Moves
<1>1. LoopSide /\ ClientSide /\ ChannelSide
  BY BaseIs
<1>2. LoopSide' /\ nextGen' = nextGen
  BY <1>1 DEF TurnOver, Attach, LoopSide, Phases
<1>3. CASE TurnOver /\ "hup" \in ready /\ Attached
  BY <1>2, <1>3, DepartingMoves DEF TurnOver, Moves
<1>4. CASE TurnOver /\ ~("hup" \in ready /\ Attached)
  <2>1. UNCHANGED <<client, chan, peers>>
    BY <1>4 DEF TurnOver
  <2> QED  BY <1>1, <1>2, <2>1, SameChannel, SameClient, BaseFollows DEF Moves, Rests, NoneLetIn
<1>5. CASE Attach
  <2>1. /\ Detached /\ client' = Client(client.who + 1, TRUE)
        /\ client.who + 1 \in 0 .. MaxClients
    BY SMTT(30), <1>1, <1>5, AgentAssumption DEF Attach, ClientSide, Attachment
  <2>2. ChannelSide' /\ Ended /\ WaitersStay
    BY <1>1, <2>1, LeavingEnds
  <2>3. ClientSide'
    BY <2>1, FreshClient
  <2> QED  BY <1>2, <2>1, <2>2, <2>3, BaseFollows DEF Moves, Leaves, NoneLetIn
<1> QED  BY <1>3, <1>4, <1>5

(* close_agent_channel, wherever it is called for a channel in use.         *)
LEMMA ClosingMoves ==
  ASSUME Base, LoopSide', nextGen' = nextGen, InUse, ChannelSide', Ended, WaitersStay,
         client' = Told(F("AgentClose", chan.gen))
  PROVE  Base' /\ Moves
<1>1. ClientSide /\ ChannelSide /\ TypeOK
  BY BaseIs DEF Base
<1>2. F("AgentClose", chan.gen) \in ServerFrame
  BY <1>1, FramesAre DEF ChannelSide, Channel
<1>3. CASE Attached
  <2>1. client' = Says(F("AgentClose", chan.gen))
    BY <1>1, <1>2, <1>3, ToldIs
  <2> QED  BY <1>1, <1>2, <1>3, <2>1, ToldClient, BaseFollows DEF Moves, TellsTheEnd, NoneLetIn
<1>4. CASE ~Attached
  <2>1. client' = client
    BY <1>4 DEF Told
  <2> QED  BY <1>1, <1>4, <2>1, SameClient, BaseFollows DEF Moves, EndsUnheard, NoneLetIn
<1> QED  BY <1>3, <1>4

(* service_agent_channel: the flush, then the read.                         *)
LEMMA FlushMoves ==
  ASSUME Base, Flush
  PROVE  Base' /\ Moves
<1>1. LoopSide /\ ClientSide /\ ChannelSide
  BY BaseIs
<1>2. LoopSide' /\ nextGen' = nextGen
  BY <1>1 DEF Flush, LoopSide, Phases
<1>3. CASE ~Serving \/ "out" \notin ready
  <2>1. UNCHANGED <<client, chan, peers>>
    BY <1>3 DEF Flush
  <2> QED  BY <1>1, <1>2, <2>1, SameChannel, SameClient, BaseFollows DEF Moves, Rests, NoneLetIn
<1>4. CASE Serving /\ "out" \in ready /\ chan.closing /\ Spent
  <2>1. Forget(Fed) /\ client' = client
    BY <1>4 DEF Flush
  <2>2. ChannelSide' /\ Ended /\ WaitersStay
    BY <1>1, <1>4, <2>1, ForgetEnds
  <2> QED  BY <1>1, <1>2, <1>4, <2>1, <2>2, SameClient, BaseFollows
           DEF Moves, EndsUnheard, NoneLetIn, InUse
<1>5. CASE Serving /\ "out" \in ready /\ ~(chan.closing /\ Spent) /\ FlushFails
  <2>1. CloseChannel /\ InUse
    BY <1>5 DEF Flush, InUse, Spent
  <2> QED  BY <1>1, <1>2, <1>5, <2>1, ClosingEnds, ClosingMoves
<1>6. CASE Serving /\ "out" \in ready /\ ~(chan.closing /\ Spent) /\ ~FlushFails
  <2>1. chan' = Flushed /\ peers' = Fed /\ client' = client
    BY <1>6 DEF Flush
  <2> QED  BY <1>1, <1>2, <1>6, <2>1, FlushGoes, SameClient, BaseFollows
           DEF Moves, Rests, NoneLetIn
<1> QED  BY <1>3, <1>4, <1>5, <1>6

LEMMA PullMoves ==
  ASSUME Base, Pull
  PROVE  Base' /\ Moves
<1> DEFINE s == chan.peer
           pulls == Serving /\ "in" \in ready /\ ~chan.closing /\ PeerReadable
<1>1. LoopSide /\ ClientSide /\ ChannelSide /\ TypeOK
  BY BaseIs DEF Base
<1>2. LoopSide' /\ nextGen' = nextGen
  BY <1>1 DEF Pull, LoopSide, Phases
<1>3. CASE ~pulls
  <2>1. UNCHANGED <<client, chan, peers>>
    BY <1>3 DEF Pull
  <2> QED  BY <1>1, <1>2, <2>1, SameChannel, SameClient, BaseFollows DEF Moves, Rests, NoneLetIn
<1>4. CASE pulls /\ ~(peers[s].asked > 0)
  <2>1. CloseChannel /\ InUse /\ Serving
    BY <1>4 DEF Pull, InUse
  <2> QED  BY <1>1, <1>2, <2>1, ClosingEnds, ClosingMoves
<1>5. CASE pulls /\ peers[s].asked > 0
  <2>1. /\ chan' = Touched(chan) /\ peers' = [peers EXCEPT ![s].asked = 0]
        /\ client' = Told(F("AgentData", chan.gen)) /\ InUse /\ Serving
    BY <1>5 DEF Pull, InUse
  <2>2. s \in Peers /\ peers[s] \in Peer /\ peers[s].pos = "served" /\ chan \in Channel
    BY <1>1, <2>1, FlushKeeps DEF ChannelSide
  <2> DEFINE r == [peers[s] EXCEPT !.asked = 0]
             c == Touched(chan)
  <2>3. /\ c \in Channel /\ c.peer = s /\ c.gen = chan.gen /\ c.pending = chan.pending
        /\ c.closing = chan.closing
    BY <2>2 DEF Touched, Channel
  <2>4. /\ r \in Peer /\ r.pos = "served" /\ r.got = peers[s].got /\ r.down = peers[s].down
        /\ peers' = [peers EXCEPT ![s] = r]
    BY <2>1, <2>2 DEF Peer
  <2>5. Len(peers[s].down) <= PeerCap
    BY <1>1, <2>2 DEF ChannelSide
  <2> HIDE DEF r, c
  <2>6. ChannelSide' /\ Going /\ WaitersStay
    BY <1>1, <2>1, <2>2, <2>3, <2>4, <2>5, OnePeerMoves DEF c
  <2>7. F("AgentData", chan.gen) \in ServerFrame
    BY <2>2, FramesAre DEF Channel
  <2>8. CASE Attached
    <3>1. client' = Says(F("AgentData", chan.gen))
      BY <1>1, <2>1, <2>7, <2>8, ToldIs
    <3> QED  BY <1>1, <1>2, <2>1, <2>6, <2>7, <2>8, <3>1, ToldClient, BaseFollows
             DEF Moves, Tells, NoneLetIn
  <2>9. CASE ~Attached
    <3>1. client' = client
      BY <2>1, <2>9 DEF Told
    <3> QED  BY <1>1, <1>2, <2>6, <3>1, SameClient, BaseFollows DEF Moves, Rests, NoneLetIn
  <2> QED  BY <2>8, <2>9
<1> QED  BY <1>3, <1>4, <1>5

(* accept_agent *)
LEMMA LettingInMoves ==
  ASSUME Base, NEW p \in Peers, LetsIn(p)
  PROVE  ChannelSide' /\ ClientSide' /\ nextGen' \in Generations /\ WaitersStay
<1>1. /\ ClientSide /\ ChannelSide /\ TypeOK /\ peers \in [Peers -> Peer]
      /\ nextGen \in Generations
  BY BaseIs DEF Base, LoopSide, ChannelSide
<1>2. peers[p] \in Peer /\ peers[p].pos = "backlog" /\ chan.peer = NoPeer /\ p # NoPeer
  BY <1>1 DEF LetsIn, Oldest, Backlog, Serving, Peers, NoPeer
<1>3. /\ peers' \in [Peers -> Peer] /\ peers'[p] = [peers[p] EXCEPT !.pos = "served"]
      /\ \A q \in Peers : q # p => peers'[q] = peers[q]
  <2>1. [peers[p] EXCEPT !.pos = "served"] \in Peer
    BY <1>2 DEF Peer
  <2> QED  BY <1>1, <2>1 DEF LetsIn
<1>4. /\ peers'[p].pos = "served" /\ peers'[p].down = peers[p].down
      /\ peers'[p].got = peers[p].got
  BY <1>2, <1>3 DEF Peer
<1>5. WaitersStay
  BY <1>2, <1>3, <1>4 DEF WaitersStay, Waiting
<1>6. /\ chan' \in Channel /\ Len(chan'.pending) = 0 /\ chan'.peer = p
  <2>1. chan' = [NoChannel EXCEPT !.peer = p, !.gen = nextGen]
    BY DEF LetsIn, Opened
  <2> QED  BY <1>1, <2>1, ChannelsAre DEF Channel, Opened
<1>7. NoPeerLeaks'
  <2>1. \A q \in Peers : peers[q].pos # "served"
    BY <1>1, <1>2 DEF ChannelSide, NoPeerLeaks
  <2>2. {q \in Peers : peers'[q].pos = "served"} = {p}
    BY <1>3, <1>4, <2>1
  <2> QED  BY <1>2, <1>6, <2>2 DEF NoPeerLeaks
<1>8. ChannelSide'
  <2>1. \A q \in Peers : Len(peers'[q].down) <= PeerCap
    BY <1>1, <1>3, <1>4 DEF ChannelSide
  <2> QED  BY <1>3, <1>6, <1>7, <2>1, AgentAssumption DEF ChannelSide
<1>9. nextGen' \in Generations
  BY <1>1, AgentAssumption DEF LetsIn, Generations
<1>10. Open(p) \in ServerFrame
  <2>1. [to |-> p, nth |-> 0] \in Byte
    BY DEF Byte
  <2> QED  BY <1>1, <2>1, FramesAre DEF Open
<1> QED  BY <1>1, <1>5, <1>8, <1>9, <1>10, ToldClient DEF LetsIn

LEMMA AcceptMoves ==
  ASSUME Base, Accept
  PROVE  Base' /\ Moves
<1>1. LoopSide /\ ClientSide /\ ChannelSide /\ TypeOK
  BY BaseIs DEF Base
<1>2. /\ phase' \in Phases /\ ready' \subseteq Events /\ stop' \in BOOLEAN /\ sigterm' \in BOOLEAN
  BY <1>1 DEF Accept, LoopSide, Phases
<1>3. CASE UNCHANGED <<nextGen, chan, client, peers>> /\ LoopSide'
  BY <1>1, <1>3, SameChannel, SameClient, BaseFollows DEF Moves, Rests, NoneLetIn
<1>4. CASE stop \/ "listener" \notin ready \/ Serving
  BY <1>1, <1>2, <1>3, <1>4 DEF Accept, LoopSide
<1>5. CASE ~stop /\ "listener" \in ready /\ ~Serving
  <2>1. PICK p \in Oldest(Backlog) :
          \/ LetsIn(p) /\ UNCHANGED <<retry, faults>>
          \/ /\ ~Attached \/ faults < MaxFaults
             /\ faults' = IF Attached THEN faults + 1 ELSE faults
             /\ peers' = [peers EXCEPT ![p].pos = "closed", ![p].asked = 0]
             /\ UNCHANGED <<chan, nextGen, retry, client>>
          \/ /\ faults < MaxFaults /\ faults' = faults + 1
             /\ retry' = "waiting"
             /\ UNCHANGED <<chan, nextGen, client, peers>>
    <3>1. \A p : /\ Attached
                 /\ client' = Told([F("AgentOpen", nextGen) EXCEPT !.byte = [to |-> p, nth |-> 0]])
                 => client' = Says(Open(p))
      BY DEF Told, Says, Open
    <3> QED  BY <1>5, <3>1 DEF Accept, LetsIn
  <2>2. p \in Peers /\ p \in Backlog
    BY <2>1 DEF Oldest, Backlog
  <2>3. CASE LetsIn(p) /\ UNCHANGED <<retry, faults>>
    <3>1. LoopSide'
      BY <1>1, <1>2, <2>2, <2>3, LettingInMoves DEF LoopSide
    <3> QED  BY <2>2, <2>3, <3>1, LettingInMoves, BaseFollows DEF Moves
  <2>4. CASE /\ ~Attached \/ faults < MaxFaults
             /\ faults' = IF Attached THEN faults + 1 ELSE faults
             /\ peers' = [peers EXCEPT ![p].pos = "closed", ![p].asked = 0]
             /\ UNCHANGED <<chan, nextGen, retry, client>>
    <3>1. LoopSide'
      BY <1>1, <1>2, <2>4, FaultsAreCounted DEF LoopSide
    <3> DEFINE r == [peers[p] EXCEPT !.pos = "closed", !.asked = 0]
    <3>2. /\ r \in Peer /\ r.pos = "closed" /\ r.got = peers[p].got /\ r.down = peers[p].down
          /\ peers' = [peers EXCEPT ![p] = r] /\ peers[p].pos = "backlog"
      <4>1. peers[p] \in Peer
        BY <1>1, <2>2 DEF ChannelSide
      <4> QED  BY <1>1, <2>2, <2>4, <4>1, ClosedPeersAre DEF Backlog, ChannelSide
    <3> HIDE DEF r
    <3>3. chan \in Channel /\ Len(peers[p].down) <= PeerCap /\ chan' = chan
      BY <1>1, <2>2, <2>4 DEF ChannelSide
    <3>4. ChannelSide' /\ Going /\ WaitersStay
      BY <1>1, <2>2, <3>2, <3>3, OnePeerMoves
    <3> QED  BY <1>1, <2>4, <3>1, <3>4, SameClient, BaseFollows DEF Moves, Rests, NoneLetIn
  <2>5. CASE /\ faults < MaxFaults /\ faults' = faults + 1
             /\ retry' = "waiting"
             /\ UNCHANGED <<chan, nextGen, client, peers>>
    BY <1>1, <1>2, <1>3, <2>5, FaultsAreCounted DEF LoopSide
  <2> QED  BY <2>1, <2>3, <2>4, <2>5
<1> QED  BY <1>4, <1>5

(* write_client: what the queue gives up the socket takes.                  *)
LEMMA FramesAssociate ==
  ASSUME NEW s \in Seq(ServerFrame), NEW t \in Seq(ServerFrame), NEW u \in Seq(ServerFrame)
  PROVE  (s \o t) \o u = s \o (t \o u)
OBVIOUS

LEMMA WriteMoves ==
  ASSUME Base, WriteClient
  PROVE  Base' /\ Moves
<1>1. LoopSide /\ ClientSide /\ ChannelSide
  BY BaseIs
<1>2. LoopSide' /\ nextGen' = nextGen
  BY <1>1 DEF WriteClient, LoopSide, Phases
<1>3. CASE Attached /\ client.gone /\ client.tx # <<>>
  BY <1>2, <1>3, DepartingMoves DEF WriteClient, Moves
<1>4. CASE ~(Attached /\ client.gone /\ client.tx # <<>>)
  <2> DEFINE d == client.down
             t == client.tx
             n == SmallerOf(SockCap - Len(d), Len(t))
             head == SubSeq(t, 1, n)
             tail == DropFirst(t, n)
  <2>1. /\ client' = [client EXCEPT !.tx = tail, !.down = d \o head]
        /\ UNCHANGED <<chan, peers>>
    BY <1>4 DEF WriteClient
  <2>2. /\ client \in Attachment /\ d \in Seq(ServerFrame) /\ t \in Seq(ServerFrame)
        /\ Len(d) <= SockCap /\ Len(d) \in Nat /\ Len(t) \in Nat /\ SockCap \in Nat
    BY <1>1, LenProperties, AgentAssumption DEF ClientSide, Attachment
  <2>3. n \in 0 .. Len(t) /\ n <= SockCap - Len(d)
    <3> DEFINE a == Len(d)
               b == Len(t)
    <3>1. n = IF SockCap - a < b THEN SockCap - a ELSE b
      BY DEF SmallerOf
    <3>2. a \in Nat /\ b \in Nat /\ a <= SockCap
      BY <2>2
    <3> HIDE DEF a, b, n
    <3>3. n \in 0 .. b /\ n <= SockCap - a
      BY <2>2, <3>1, <3>2
    <3> QED  BY <3>3 DEF a, b
  <2> HIDE DEF n
  <2>4. /\ head \in Seq(ServerFrame) /\ tail \in Seq(ServerFrame) /\ Len(head) = n
        /\ head \o tail = t
    BY <2>2, <2>3, TakenAndLeft
  <2>5. d \o head \in Seq(ServerFrame) /\ Len(d \o head) = Len(d) + n
    BY <2>2, <2>4, ConcatProperties
  <2>6. (d \o head) \o tail = d \o t
    <3>1. /\ d \in Seq(ServerFrame) /\ head \in Seq(ServerFrame) /\ tail \in Seq(ServerFrame)
          /\ head \o tail = t
      BY <2>2, <2>4
    <3> HIDE DEF d, head, tail
    <3>2. (d \o head) \o tail = d \o (head \o tail)
      BY <3>1, FramesAssociate
    <3> QED  BY <3>1, <3>2
  <2> HIDE DEF head, tail
  <2>7. /\ client' \in Attachment /\ client'.tx = tail /\ client'.down = d \o head
        /\ client'.who = client.who /\ client'.on = client.on /\ client'.up = client.up
        /\ client'.open = client.open /\ client'.gen = client.gen
        /\ client'.sent = client.sent
    BY <2>1, <2>2, <2>4, <2>5 DEF Attachment
  <2>8. Len(client'.down) <= SockCap
    BY <2>2, <2>3, <2>5, <2>7
  <2>9. NobodyIsNobody'
    <3>1. CASE Attached
      BY <2>7, <3>1 DEF NobodyIsNobody, Attached
    <3>2. CASE ~Attached
      <4>1. client = Client(client.who, FALSE)
        BY <1>1, <3>2 DEF ClientSide, NobodyIsNobody
      <4>2. t = <<>> /\ d = <<>>
        BY <4>1 DEF Client
      <4>3. tail = <<>> /\ d \o head = <<>>
        <5>1. Len(t) = 0 /\ Len(d) = 0
          BY <4>2, EmptySeq
        <5>2. n = 0
          BY <2>3, <5>1
        <5>3. Len(tail) = Len(t) - n
          BY <2>2, <2>3, TakenAndLeft DEF tail
        <5>4. Len(tail) = 0 /\ Len(d \o head) = 0
          BY <2>5, <5>1, <5>2, <5>3
        <5> QED  BY <2>4, <2>5, <5>4, EmptySeq
      <4>4. client' = client
        BY <2>1, <2>2, <4>2, <4>3 DEF Attachment
      <4> QED  BY <1>1, <4>4, SameClient DEF ClientSide
    <3> QED  BY <3>1, <3>2
  <2>10. ClientSide' /\ SameTalk(client, client')
    BY <1>1, <2>6, <2>7, <2>8, <2>9 DEF ClientSide, SameTalk
  <2>11. ChannelSide' /\ Going /\ WaitersStay
    BY <1>1, <2>1, SameChannel
  <2> QED  BY <1>2, <2>10, <2>11, BaseFollows DEF Moves, Rests, NoneLetIn
<1> QED  BY <1>3, <1>4

(* The channel's deadline, which ends it, and its passing.                  *)
LEMMA ExpireMoves ==
  ASSUME Base, Expire
  PROVE  Base' /\ Moves
<1>1. LoopSide /\ ClientSide /\ ChannelSide
  BY BaseIs
<1>2. LoopSide' /\ nextGen' = nextGen
  BY <1>1 DEF Expire, LoopSide, Phases
<1>3. CASE ~(Serving /\ chan.due)
  <2>1. UNCHANGED <<client, chan, peers>>
    BY <1>3 DEF Expire
  <2> QED  BY <1>1, <1>2, <2>1, SameChannel, SameClient, BaseFollows DEF Moves, Rests, NoneLetIn
<1>4. CASE Serving /\ chan.due
  <2>1. ChannelSide' /\ Ended /\ WaitersStay
    BY <1>1, <1>4, ForgetEnds DEF Expire
  <2>2. CASE chan.closing
    <3>1. client' = client
      BY <1>4, <2>2 DEF Expire, OwesClose
    <3> QED  BY <1>1, <1>2, <2>1, <2>2, <3>1, SameClient, BaseFollows
             DEF Moves, EndsUnheard, NoneLetIn, InUse
  <2>3. CASE ~chan.closing
    <3>1. client' = Told(F("AgentClose", chan.gen)) /\ InUse
      BY <1>4, <2>3 DEF Expire, OwesClose, InUse
    <3> QED  BY <1>2, <2>1, <3>1, ClosingMoves
  <2> QED  BY <2>2, <2>3
<1> QED  BY <1>3, <1>4

LEMMA DeadlineMoves ==
  ASSUME Base, ChannelDeadline
  PROVE  Base' /\ Moves
<1>1. LoopSide /\ ClientSide /\ ChannelSide
  BY BaseIs
<1>2. LoopSide' /\ nextGen' = nextGen /\ client' = client
  BY <1>1 DEF ChannelDeadline, DaemonSame, LoopSide
<1>3. chan.peer \in Peers /\ peers[chan.peer] \in Peer /\ chan \in Channel
      /\ Len(peers[chan.peer].down) <= PeerCap /\ peers \in [Peers -> Peer]
  BY <1>1, FlushKeeps DEF ChannelDeadline, ChannelSide
<1> DEFINE r == peers[chan.peer]
           c == [chan EXCEPT !.due = TRUE]
<1>4. /\ c \in Channel /\ c.peer = chan.peer /\ c.gen = chan.gen /\ c.pending = chan.pending
      /\ c.closing = chan.closing
  BY <1>3 DEF Channel
<1>5. peers' = [peers EXCEPT ![chan.peer] = r] /\ chan' = c
  BY <1>3 DEF ChannelDeadline
<1> HIDE DEF c
<1>6. ChannelSide' /\ Going /\ WaitersStay
  BY <1>1, <1>3, <1>4, <1>5, OnePeerMoves
<1> QED  BY <1>1, <1>2, <1>6, SameClient, BaseFollows DEF Moves, Rests, NoneLetIn

(* shutdown *)
LEMMA ShutdownMoves ==
  ASSUME Base, Shutdown
  PROVE  Base' /\ Moves
<1> DEFINE ps == IF Serving THEN Fed ELSE peers
<1>1. LoopSide /\ ClientSide /\ ChannelSide /\ peers \in [Peers -> Peer]
  BY BaseIs DEF ChannelSide
<1>2. LoopSide' /\ nextGen' = nextGen
  BY <1>1 DEF Shutdown, LoopSide, Phases
<1>3. client' = Client(client.who, FALSE) /\ client.who \in 0 .. MaxClients
  BY <1>1 DEF Shutdown, ClientSide, Attachment
<1>4. /\ ps \in [Peers -> Peer] /\ \A p \in Peers : Len(ps[p].down) <= PeerCap
      /\ \A p \in Peers : Prefix(RepliesIn(ps, NoChannel, p), Replies(p))
      /\ \A p \in Peers : ps[p].pos = peers[p].pos
      /\ \A p \in Peers : p # chan.peer => ps[p] = peers[p]
      /\ \A p \in Peers : p = chan.peer => ps[p] = Fed[p] /\ peers[p].pos = "served"
  <2>1. CASE Serving
    BY <1>1, <2>1, FlushKeeps
  <2>2. CASE ~Serving
    <3>1. \A p \in Peers : p # chan.peer
      BY <2>2 DEF Serving, Peers, NoPeer
    <3> QED  BY <1>1, <2>2, <3>1, WithoutTheQueue DEF ChannelSide
  <2> QED  BY <2>1, <2>2
<1> HIDE DEF ps
<1>5. ASSUME NEW p \in Peers
      PROVE  /\ peers'[p] \in Peer /\ peers'[p].pos # "served"
             /\ peers'[p].pos = "new" <=> peers[p].pos = "new"
             /\ peers'[p].pos # "backlog"
             /\ peers'[p].got = ps[p].got /\ peers'[p].down = ps[p].down
             /\ peers[p].pos = "new" => peers'[p] = peers[p]
  <2> DEFINE closed == [ps[p] EXCEPT !.pos = "closed", !.asked = 0]
  <2>1. /\ closed \in Peer /\ closed.pos = "closed"
        /\ closed.got = ps[p].got /\ closed.down = ps[p].down
    <3>1. ps[p] \in Peer
      BY <1>4
    <3> QED  BY <3>1, ClosedPeersAre
  <2>2. peers'[p] = IF peers[p].pos \in {"backlog", "served"} THEN closed ELSE ps[p]
    BY <1>4 DEF Shutdown
  <2> HIDE DEF closed
  <2>3. ps[p] \in Peer /\ ps[p].pos = peers[p].pos
    BY <1>4
  <2>4. peers[p].pos = "new" => ps[p] = peers[p]
    BY <1>4
  <2> QED  BY <2>1, <2>2, <2>3, <2>4
<1>6. chan' = NoChannel /\ peers' \in [Peers -> Peer]
  <2>1. chan' = NoChannel /\ peers' = [p \in Peers |-> peers'[p]]
    BY DEF Shutdown
  <2> QED  BY <1>5, <2>1
<1>7. ASSUME NEW p \in Peers
      PROVE  Prefix(Replies(p)', Replies(p))
  <2>1. Replies(p)' = RepliesIn(ps, NoChannel, p)
    BY <1>5, <1>6 DEF Replies, RepliesIn
  <2> QED  BY <1>4, <2>1
<1>8. ~InUse' /\ NoPeerLeaks'
  <2>1. \A p \in Peers : peers'[p].pos # "served"
    BY <1>5
  <2> QED  BY <1>6, <2>1 DEF InUse, Serving, NoChannel, NoPeerLeaks
<1>9. WaitersStay
  BY <1>5 DEF WaitersStay, Waiting
<1>10. ChannelSide'
  BY <1>4, <1>5, <1>6, <1>8, ChannelsAre, AgentAssumption DEF ChannelSide
<1> QED  BY <1>1, <1>2, <1>3, <1>7, <1>8, <1>9, <1>10, FreshClient, BaseFollows
         DEF Moves, Leaves, Ended, NoneLetIn

-----------------------------------------------------------------------------
(* ... and every action of the world outside *)

LEMMA BefallenLoop ==
  ASSUME LoopSide, sigterm' = sigterm, retry' = retry,
         DaemonSame \/ \E what \in {"half_close", "leave", "detach", "die", "ask"} : Befell(what)
  PROVE  LoopSide' /\ nextGen' = nextGen
BY FaultsAreCounted DEF LoopSide, DaemonSame, Befell

(* A peer that connects has heard nothing; one that reads was let in.       *)
LEMMA ComingMoves ==
  ASSUME Base, NEW p \in Peers, PeerConnects(p)
  PROVE  Base' /\ Comes(p)
<1>1. LoopSide /\ ClientSide /\ ChannelSide /\ WaitersAreUnheard /\ peers \in [Peers -> Peer]
  BY BaseIs DEF ChannelSide
<1>2. LoopSide' /\ client' = client /\ chan' = chan
  BY <1>1, BefallenLoop DEF PeerConnects, PeerMoves
<1> DEFINE r == [peers[p] EXCEPT !.pos = "backlog"]
<1>3. peers[p] \in Peer /\ peers[p].pos = "new"
  BY <1>1 DEF PeerConnects, Oldest
<1>4. /\ r \in Peer /\ r.pos = "backlog" /\ r.got = peers[p].got /\ r.down = peers[p].down
  BY <1>3 DEF Peer
<1>5. /\ peers' \in [Peers -> Peer] /\ peers'[p] = r
      /\ \A q \in Peers : q # p => peers'[q] = peers[q]
  BY <1>1, <1>4 DEF PeerConnects, PeerMoves
<1> HIDE DEF r
<1>6. NoPeerLeaks'
  BY <1>1, <1>2, <1>3, <1>4, <1>5 DEF ChannelSide, NoPeerLeaks
<1>7. ChannelSide'
  BY <1>1, <1>2, <1>4, <1>5, <1>6 DEF ChannelSide
<1>8. WaitersAreUnheard'
  BY <1>1, <1>3, <1>4, <1>5 DEF WaitersAreUnheard, Waiting
<1>9. Going
  <2>1. \A q \in Peers : Replies(q)' = Replies(q)
    BY <1>2, <1>4, <1>5 DEF Replies
  <2> QED  BY <1>2, <2>1 DEF Going, InUse, Serving
<1>10. ClientSide'
  BY <1>1, <1>2, SameClient
<1>11. TypeOK' /\ NobodyIsNobody'
  BY <1>2, <1>7, <1>10 DEF TypeOK, LoopSide, ClientSide, ChannelSide
<1> QED  BY <1>2, <1>6, <1>8, <1>9, <1>11 DEF Comes, Base

LEMMA PeerMovesRest ==
  ASSUME Base, NEW p \in Peers, PeerAsks(p) \/ PeerReads(p) \/ PeerHalfCloses(p) \/ PeerLeaves(p)
  PROVE  Base' /\ Rests
<1>1. LoopSide /\ ClientSide /\ ChannelSide /\ WaitersAreUnheard /\ peers \in [Peers -> Peer]
      /\ peers[p] \in Peer /\ chan \in Channel /\ Len(peers[p].down) <= PeerCap
  BY BaseIs DEF ChannelSide
<1>2. LoopSide' /\ client' = client /\ chan' = chan /\ nextGen' = nextGen
  BY <1>1, BefallenLoop DEF PeerAsks, PeerReads, PeerHalfCloses, PeerLeaves, PeerMoves
<1>3. ASSUME NEW r \in Peer, peers' = [peers EXCEPT ![p] = r], r.pos = peers[p].pos,
             r.pos \in {"new", "backlog"} => r.got = peers[p].got /\ r.down = peers[p].down,
             r.got \o r.down = peers[p].got \o peers[p].down, Len(r.down) <= PeerCap
      PROVE  Base' /\ Rests
  <2>1. ChannelSide' /\ Going /\ WaitersStay
    BY <1>1, <1>2, <1>3, OnePeerMoves
  <2> QED  BY <1>1, <1>2, <2>1, SameClient, BaseFollows DEF Rests, NoneLetIn
<1>4. ASSUME NEW r \in Peer, peers' = [peers EXCEPT ![p] = r], r.pos = peers[p].pos,
             r.got = peers[p].got, r.down = peers[p].down
      PROVE  Base' /\ Rests
  BY <1>1, <1>3, <1>4
<1>5. CASE PeerAsks(p)
  <2> DEFINE r == [peers[p] EXCEPT !.asked = @ + 1]
  <2>1. peers' = [peers EXCEPT ![p] = r]
    BY <1>5 DEF PeerAsks, PeerMoves
  <2>2. peers[p].asked + 1 \in Nat
    BY <1>1 DEF Peer
  <2>3. r \in Peer /\ r.pos = peers[p].pos /\ r.got = peers[p].got /\ r.down = peers[p].down
    BY <1>1, <2>2 DEF Peer
  <2> QED  BY <1>4, <2>1, <2>3
<1>6. CASE PeerHalfCloses(p)
  <2> DEFINE r == [peers[p] EXCEPT !.end = "fin"]
  <2>1. /\ r \in Peer /\ r.pos = peers[p].pos /\ r.got = peers[p].got /\ r.down = peers[p].down
        /\ peers' = [peers EXCEPT ![p] = r]
    BY <1>1, <1>6 DEF PeerHalfCloses, PeerMoves, Peer
  <2> QED  BY <1>4, <2>1
<1>7. CASE PeerLeaves(p)
  <2> DEFINE r == [peers[p] EXCEPT !.end = "gone"]
  <2>1. /\ r \in Peer /\ r.pos = peers[p].pos /\ r.got = peers[p].got /\ r.down = peers[p].down
        /\ peers' = [peers EXCEPT ![p] = r]
    BY <1>1, <1>7 DEF PeerLeaves, PeerMoves, Peer
  <2> QED  BY <1>4, <2>1
<1>8. CASE PeerReads(p)
  <2> DEFINE g == peers[p].got
             d == peers[p].down
             r == [peers[p] EXCEPT !.got = g \o d, !.down = <<>>]
  <2>1. g \in Seq(Byte) /\ d \in Seq(Byte) /\ d # <<>> /\ <<>> \in Seq(Byte) /\ Len(<<>>) = 0
    BY <1>1, <1>8, EmptySeq DEF PeerReads, Peer
  <2>2. g \o d \in Seq(Byte)
    BY <2>1, ConcatProperties
  <2>3. (g \o d) \o <<>> = g \o d
    BY <2>2, ConcatEmptySeq
  <2>4. /\ r \in Peer /\ r.pos = peers[p].pos /\ r.got = g \o d /\ r.down = <<>>
        /\ peers' = [peers EXCEPT ![p] = r]
    <3>1. peers' = [peers EXCEPT ![p] = r]
      BY <1>8 DEF PeerReads, PeerMoves
    <3> HIDE DEF g, d
    <3>2. r \in Peer /\ r.pos = peers[p].pos /\ r.got = g \o d /\ r.down = <<>>
      BY <1>1, <2>1, <2>2 DEF Peer
    <3> QED  BY <3>1, <3>2
  <2>5. r.pos \notin {"new", "backlog"}
    BY <1>1, <2>1, <2>4 DEF WaitersAreUnheard, Waiting
  <2>6. Len(r.down) <= PeerCap
    BY <2>1, <2>4, AgentAssumption
  <2> HIDE DEF r
  <2> QED  BY <1>3, <2>3, <2>4, <2>5, <2>6
<1> QED  BY <1>5, <1>6, <1>7, <1>8

(* What the client does with its end; that its socket is shut tells nobody  *)
(* anything yet.                                                            *)
LEMMA ClientMovesAre ==
  ASSUME Base, ClientReads \/ ClientReplies \/ ClientCloses \/ ClientDetaches \/ ClientDies
  PROVE  /\ Attached /\ client \in Attachment
         /\ LoopSide' /\ ChannelSide' /\ Going /\ NoneLetIn
<1>1. LoopSide /\ ClientSide /\ ChannelSide
  BY BaseIs
<1>2. LoopSide' /\ chan' = chan /\ nextGen' = nextGen /\ peers' = peers /\ Attached
  BY <1>1, BefallenLoop
  DEF ClientReads, ClientReplies, ClientCloses, ClientDetaches, ClientDies, ClientMoves, CanSay
<1> QED  BY <1>1, <1>2, SameChannel DEF NoneLetIn, ClientSide

LEMMA ReadsMoves ==
  ASSUME Base, ClientReads
  PROVE  Base' /\ Moves
<1> DEFINE f == Head(client.down)
<1>1. /\ Attached /\ client \in Attachment /\ LoopSide' /\ ChannelSide' /\ Going /\ NoneLetIn
      /\ ClientSide
  BY ClientMovesAre, BaseIs
<1>2. client.down # <<>> /\ client' = Hears(f)
  BY DEF ClientReads, ClientMoves
<1>3. /\ client.down \in Seq(ServerFrame) /\ Len(client.down) <= SockCap
      /\ client.open # NoPeer => client.gen # Wrap
  BY <1>1 DEF ClientSide, Attachment
<1>4. /\ f \in ServerFrame /\ Tail(client.down) \in Seq(ServerFrame)
      /\ Len(Tail(client.down)) <= SockCap
  BY <1>2, <1>3, HeadTailProperties, LenProperties, AgentAssumption
<1>5. f.type = "AgentOpen" => f.byte.to \in Peers
  BY <1>4 DEF ServerFrame, Byte
<1>6. f.gen \in 0 .. Wrap /\ f.gen # Wrap
  BY SMTT(30), <1>4, AgentAssumption DEF ServerFrame, Generations
<1> HIDE DEF f
<1>7. /\ client' \in Attachment /\ client'.on = client.on /\ client'.down = Tail(client.down)
      /\ client'.open # NoPeer => client'.gen # Wrap
  BY <1>1, <1>2, <1>3, <1>4, <1>5, <1>6 DEF Hears, Attachment
<1>8. ClientSide'
  BY <1>1, <1>4, <1>7 DEF ClientSide, NobodyIsNobody, Attached
<1> QED  BY <1>1, <1>8, BaseFollows DEF Moves, Speaks, NoneLetIn

LEMMA SpeakingMoves ==
  ASSUME Base, ClientReplies \/ ClientCloses \/ ClientDetaches
  PROVE  Base' /\ Moves
<1>1. /\ Attached /\ client \in Attachment /\ LoopSide' /\ ChannelSide' /\ Going /\ NoneLetIn
      /\ ClientSide
  BY ClientMovesAre, BaseIs
<1>2. client.open # NoPeer => client.gen \in Generations
  BY <1>1, AgentAssumption DEF ClientSide, Attachment, Generations
<1>3. ASSUME NEW f \in ClientFrame, client'.up = Append(client.up, f),
             client' = [[client EXCEPT !.up = Append(@, f), !.open = client'.open]
                          EXCEPT !.sent = client'.sent],
             client'.open \in {NoPeer, client.open}, client'.sent \in Nat
      PROVE  ClientSide'
  <2>1. Append(client.up, f) \in Seq(ClientFrame)
    BY <1>1 DEF Attachment
  <2>2. /\ client' \in Attachment /\ client'.on = client.on /\ client'.down = client.down
        /\ client'.gen = client.gen
    BY <1>1, <1>3, <2>1 DEF Attachment
  <2> QED  BY <1>1, <1>3, <2>2 DEF ClientSide, NobodyIsNobody, Attached
<1>4. CASE ClientReplies
  <2> DEFINE b == [to |-> client.open, nth |-> client.sent + 1]
             f == [F("AgentData", client.gen) EXCEPT !.byte = b]
  <2>1. client' = [client EXCEPT !.sent = @ + 1, !.up = Append(@, f)] /\ client.open # NoPeer
    BY <1>4 DEF ClientReplies, ClientMoves
  <2>2. b \in Byte /\ client.sent + 1 \in Nat
    BY <1>1, <2>1 DEF Byte, Attachment
  <2>3. f \in ClientFrame
    BY <1>2, <2>1, <2>2, FramesAre
  <2> HIDE DEF f
  <2>4. /\ client'.up = Append(client.up, f) /\ client'.open = client.open
        /\ client'.sent = client.sent + 1
        /\ client' = [[client EXCEPT !.up = Append(@, f), !.open = client'.open]
                          EXCEPT !.sent = client'.sent]
    BY <1>1, <2>1 DEF Attachment
  <2> QED  BY <1>1, <1>3, <1>4, <2>2, <2>3, <2>4, BaseFollows DEF Moves, Speaks, NoneLetIn
<1>5. CASE ClientCloses
  <2> DEFINE f == F("AgentClose", client.gen)
  <2>1. client' = [client EXCEPT !.open = NoPeer, !.up = Append(@, f)] /\ client.open # NoPeer
    BY <1>5 DEF ClientCloses, ClientMoves
  <2>2. f \in ClientFrame
    BY <1>2, <2>1, FramesAre
  <2> HIDE DEF f
  <2>3. /\ client'.up = Append(client.up, f) /\ client'.open = NoPeer
        /\ client'.sent \in Nat
        /\ client' = [[client EXCEPT !.up = Append(@, f), !.open = client'.open]
                          EXCEPT !.sent = client'.sent]
    BY <1>1, <2>1 DEF Attachment
  <2> QED  BY <1>1, <1>3, <1>5, <2>2, <2>3, BaseFollows DEF Moves, Speaks, NoneLetIn
<1>6. CASE ClientDetaches
  <2> DEFINE f == F("Detach", 0)
  <2>1. client' = [client EXCEPT !.up = Append(@, f)]
    BY <1>6 DEF ClientDetaches, ClientMoves
  <2>2. f \in ClientFrame
    BY FramesAre, ChannelsAre
  <2> HIDE DEF f
  <2>3. /\ client'.up = Append(client.up, f) /\ client'.open = client.open
        /\ client'.sent \in Nat
        /\ client' = [[client EXCEPT !.up = Append(@, f), !.open = client'.open]
                          EXCEPT !.sent = client'.sent]
    BY <1>1, <2>1 DEF Attachment
  <2> QED  BY <1>1, <1>3, <1>6, <2>2, <2>3, BaseFollows DEF Moves, Speaks, NoneLetIn
<1> QED  BY <1>4, <1>5, <1>6

LEMMA DyingMoves ==
  ASSUME Base, ClientDies
  PROVE  Base' /\ Moves
<1>1. /\ Attached /\ client \in Attachment /\ LoopSide' /\ ChannelSide' /\ Going /\ NoneLetIn
      /\ ClientSide
  BY ClientMovesAre, BaseIs
<1>2. client' = [client EXCEPT !.gone = TRUE]
  BY DEF ClientDies, ClientMoves
<1>3. /\ client' \in Attachment /\ client'.down = client.down /\ client'.tx = client.tx
      /\ client'.on = client.on /\ client'.up = client.up /\ client'.open = client.open
      /\ client'.gen = client.gen /\ client'.sent = client.sent
  BY <1>1, <1>2 DEF Attachment
<1>4. ClientSide' /\ SameTalk(client, client')
  BY <1>1, <1>3 DEF ClientSide, NobodyIsNobody, Attached, SameTalk
<1> QED  BY <1>1, <1>4, BaseFollows DEF Moves, Rests, NoneLetIn

LEMMA StepsAreMoves ==
  ASSUME Base, [Next]_vars
  PROVE  Base' /\ Moves
<1>1. CASE DaemonStep
  BY <1>1, PassingMoves, DecodeMoves, TurnOverMoves, FlushMoves, PullMoves, AcceptMoves,
     WriteMoves, ExpireMoves, ShutdownMoves DEF DaemonStep, Moves
<1>2. CASE PeerStep
  BY <1>2, ComingMoves, PeerMovesRest DEF PeerStep, Moves
<1>3. CASE ClientStep
  BY <1>3, ReadsMoves, SpeakingMoves, DyingMoves DEF ClientStep
<1>4. CASE ChannelDeadline \/ AcceptBackoff \/ SigTerm \/ UNCHANGED vars
  BY <1>4, DeadlineMoves, PassingMoves DEF Moves
<1> QED  BY <1>1, <1>2, <1>3, <1>4 DEF Next

-----------------------------------------------------------------------------
(* What holds without further ado *)

LEMMA InitBase == ASSUME Init PROVE Base
<1>1. 0 \in 0 .. MaxClients /\ 0 \in 0 .. MaxFaults /\ {SockCap, PeerCap} \subseteq Nat
  BY AgentAssumption
<1>2. \A p \in Peers : peers[p] = NewPeer
  BY DEF Init
<1>3. /\ NewPeer \in Peer /\ NewPeer.pos = "new" /\ NewPeer.got = <<>> /\ NewPeer.down = <<>>
      /\ <<>> \in Seq(Byte) /\ Len(<<>>) = 0
  BY EmptySeq DEF NewPeer, Peer
<1>4. peers \in [Peers -> Peer] /\ \A p \in Peers : Len(peers[p].down) <= PeerCap
  BY <1>1, <1>2, <1>3 DEF Init
<1>5. /\ client \in Attachment /\ client.open = NoPeer /\ client.down = <<>>
      /\ NobodyIsNobody
  BY <1>1, ClientsAre DEF Init, Client, NobodyIsNobody
<1>6. /\ chan \in Channel /\ Len(chan.pending) <= MaxChannelQueue /\ nextGen \in Generations
  BY ChannelsAre, AgentAssumption DEF Init
<1>7. TypeOK
  <2>1. phase \in Phases /\ ready \subseteq Events /\ stop \in BOOLEAN /\ sigterm \in BOOLEAN
    BY DEF Init, Phases
  <2>2. retry \in {"none", "waiting", "due"} /\ faults \in 0 .. MaxFaults
    BY <1>1 DEF Init
  <2>3. Len(client.down) <= SockCap
    BY <1>1, <1>3, <1>5
  <2> QED  BY <1>4, <1>5, <1>6, <2>1, <2>2, <2>3 DEF TypeOK
<1>8. NoPeerLeaks
  BY <1>2, <1>3 DEF NoPeerLeaks, Init, NoChannel
<1>9. WaitersAreUnheard
  BY <1>2, <1>3 DEF WaitersAreUnheard, Waiting
<1> QED  BY <1>5, <1>7, <1>8, <1>9 DEF Base

(* The channel, the client and the peers have the values their types and    *)
(* caps allow after every step of the daemon, of the peers and of the       *)
(* client: no queue, and nothing the kernel buffers, outgrows its cap.      *)
THEOREM AgentTypeCorrect == Spec => []TypeOK
<1>1. Init => Base
  BY InitBase
<1>2. Base /\ [Next]_vars => Base'
  BY StepsAreMoves
<1>3. Base => TypeOK
  BY DEF Base
<1> QED  BY <1>1, <1>2, <1>3, PTL DEF Spec

(* One connection is held for the peer served and for no other, whatever    *)
(* ends the channel (forget, accept_agent, close_from_client, shutdown).    *)
THEOREM AgentHoldsOnePeer == Spec => []NoPeerLeaks
<1>1. Init => Base
  BY InitBase
<1>2. Base /\ [Next]_vars => Base'
  BY StepsAreMoves
<1>3. Base => NoPeerLeaks
  BY DEF Base
<1> QED  BY <1>1, <1>2, <1>3, PTL DEF Spec

-----------------------------------------------------------------------------
(* What the two ends say to each other *)

(* All that is on its way, and what the client makes of it.                 *)
Talk(k) == [stream |-> k.down \o k.tx, up |-> k.up,
            open |-> k.open, gen |-> k.gen, sent |-> k.sent]
Talks == [stream : Seq(ServerFrame), up : Seq(ClientFrame),
          open : Peers \cup {NoPeer}, gen : 0 .. Wrap, sent : Nat]

IsBoundary(f) == f.type \in {"AgentOpen", "AgentClose"}
Bounds(s, i) == {j \in 1 .. i : IsBoundary(s[j])}
Last(s, i) == CHOOSE j \in Bounds(s, i) : \A k \in Bounds(s, i) : k <= j
Held(v, i) ==
  IF Bounds(v.stream, i) # {}
  THEN IF v.stream[Last(v.stream, i)].type = "AgentOpen" THEN {v.stream[Last(v.stream, i)].gen}
       ELSE {}
  ELSE IF v.open # NoPeer THEN {v.gen} ELSE {}
ClosedBySelf(v, i) == Bounds(v.stream, i) = {} /\ v.open = NoPeer

LEMMA LastIsIn ==
  ASSUME NEW s, NEW i \in Nat, Bounds(s, i) # {}
  PROVE  Last(s, i) \in Bounds(s, i) /\ \A k \in Bounds(s, i) : k <= Last(s, i)
<1> DEFINE Less == {ss \in Nat \X Nat : ss[1] < ss[2]}
           S == {i - j : j \in Bounds(s, i)}
<1>1. IsWellFoundedOn(Less, Nat)
  BY NatLessThanWellFounded DEF OpToRel
<1>2. S \in SUBSET Nat /\ S # {}
  BY DEF Bounds
<1> HIDE DEF Less, S
<1>3. PICK x \in S : \A y \in S : <<y, x>> \notin Less
  BY <1>1, <1>2, WFMin
<1>4. \A y \in S : x <= y
  <2> TAKE y \in S
  <2>1. ~(y < x) /\ x \in Nat /\ y \in Nat
    BY <1>2, <1>3 DEF Less
  <2> QED  BY <2>1
<1>5. PICK j \in Bounds(s, i) : x = i - j
  BY <1>3 DEF S
<1>6. \A k \in Bounds(s, i) : k <= j
  <2> TAKE k \in Bounds(s, i)
  <2>1. i - k \in S /\ j \in 1 .. i /\ k \in 1 .. i
    BY DEF S, Bounds
  <2>2. x <= i - k
    BY <1>4, <2>1
  <2> QED  BY <1>5, <2>1, <2>2
<1> QED  BY <1>6 DEF Last

LEMMA LastIs ==
  ASSUME NEW s, NEW i \in Nat, NEW j \in Bounds(s, i), \A k \in Bounds(s, i) : k <= j
  PROVE  Last(s, i) = j
<1>1. Last(s, i) \in Bounds(s, i) /\ \A k \in Bounds(s, i) : k <= Last(s, i)
  BY LastIsIn
<1>2. Last(s, i) <= j /\ j <= Last(s, i) /\ Last(s, i) \in Nat /\ j \in Nat
  BY <1>1 DEF Bounds
<1> QED  BY <1>2

(* What is held after i frames is settled by these, and by what the client  *)
(* held before them.                                                        *)
LEMMA HeldBySame ==
  ASSUME NEW v, NEW w, NEW i \in Nat,
         \A j \in 1 .. i : w.stream[j] = v.stream[j], w.open = v.open, w.gen = v.gen
  PROVE  /\ Bounds(w.stream, i) = Bounds(v.stream, i) /\ Held(w, i) = Held(v, i)
         /\ ClosedBySelf(w, i) = ClosedBySelf(v, i)
<1>1. Bounds(w.stream, i) = Bounds(v.stream, i)
  BY DEF Bounds
<1>2. Last(w.stream, i) = Last(v.stream, i)
  BY <1>1 DEF Last
<1>3. Bounds(v.stream, i) # {} => Last(v.stream, i) \in 1 .. i
  BY LastIsIn DEF Bounds
<1> QED  BY <1>1, <1>2, <1>3 DEF Held, ClosedBySelf

(* One frame more.                                                          *)
LEMMA HeldNext ==
  ASSUME NEW v, NEW i \in Nat
  PROVE  /\ IsBoundary(v.stream[i + 1]) =>
              /\ Bounds(v.stream, i + 1) # {}
              /\ Held(v, i + 1) = IF v.stream[i + 1].type = "AgentOpen"
                                  THEN {v.stream[i + 1].gen} ELSE {}
         /\ ~IsBoundary(v.stream[i + 1]) =>
              /\ Bounds(v.stream, i + 1) = Bounds(v.stream, i)
              /\ Held(v, i + 1) = Held(v, i)
<1> DEFINE s == v.stream
<1>1. CASE IsBoundary(s[i + 1])
  <2>1. i + 1 \in Bounds(s, i + 1) /\ \A k \in Bounds(s, i + 1) : k <= i + 1
    BY <1>1 DEF Bounds
  <2>2. Last(s, i + 1) = i + 1
    BY <2>1, LastIs
  <2> QED  BY <1>1, <2>1, <2>2 DEF Held
<1>2. CASE ~IsBoundary(s[i + 1])
  <2>1. Bounds(s, i + 1) = Bounds(s, i)
    BY <1>2 DEF Bounds
  <2>2. Last(s, i + 1) = Last(s, i)
    BY <2>1 DEF Last
  <2> QED  BY <1>2, <2>1, <2>2 DEF Held
<1> QED  BY <1>1, <1>2

(* The client takes the first frame: the others are one place nearer.       *)
LEMMA HeldAfterTheFirst ==
  ASSUME NEW v, NEW w, NEW i \in Nat,
         \A j \in 1 .. i : w.stream[j] = v.stream[j + 1],
         Held(w, 0) = Held(v, 1)
  PROVE  /\ Held(w, i) = Held(v, i + 1)
         /\ Bounds(v.stream, i + 1) = {} => Bounds(w.stream, i) = {}
         /\ Bounds(v.stream, i + 1) # {} /\ ~IsBoundary(v.stream[1]) => Bounds(w.stream, i) # {}
<1> DEFINE s == v.stream
           t == w.stream
<1>1. \A j \in 1 .. i : j \in Bounds(t, i) <=> j + 1 \in Bounds(s, i + 1)
  BY DEF Bounds
<1>2. \A j \in Bounds(s, i + 1) : j = 1 \/ j - 1 \in Bounds(t, i)
  <2> TAKE j \in Bounds(s, i + 1)
  <2>1. j \in 1 .. i + 1
    BY DEF Bounds
  <2>2. CASE j # 1
    <3>1. j - 1 \in 1 .. i /\ (j - 1) + 1 = j
      BY <2>1, <2>2
    <3> QED  BY <1>1, <3>1
  <2> QED  BY <2>2
<1>3. Held(w, 0) = IF w.open # NoPeer THEN {w.gen} ELSE {}
  BY DEF Held, Bounds
<1>4. CASE Bounds(t, i) # {}
  <2>1. /\ Last(t, i) \in Bounds(t, i) /\ \A k \in Bounds(t, i) : k <= Last(t, i)
        /\ Last(t, i) \in 1 .. i
    BY <1>4, LastIsIn DEF Bounds
  <2> DEFINE l == Last(t, i)
  <2> HIDE DEF l
  <2>2. l + 1 \in Bounds(s, i + 1) /\ \A k \in Bounds(s, i + 1) : k <= l + 1
    <3>1. l + 1 \in Bounds(s, i + 1)
      BY <1>1, <2>1 DEF l
    <3>2. ASSUME NEW k \in Bounds(s, i + 1)
          PROVE  k <= l + 1
      <4>1. k \in 1 .. i + 1 /\ l \in 1 .. i
        BY <2>1 DEF Bounds, l
      <4>2. k = 1 \/ k - 1 <= l
        BY <1>2, <2>1 DEF l
      <4> QED  BY <4>1, <4>2
    <3> QED  BY <3>1, <3>2
  <2>3. Last(s, i + 1) = l + 1
    BY <2>2, LastIs
  <2>4. s[l + 1] = t[l]
    BY <2>1 DEF l
  <2> QED  BY <1>4, <2>1, <2>2, <2>3, <2>4 DEF Held, l
<1>5. CASE Bounds(t, i) = {} /\ ~IsBoundary(s[1])
  <2>1. Bounds(s, i + 1) = {}
    BY <1>2, <1>5 DEF Bounds
  <2>2. Bounds(s, 1) = {}
    BY <1>5 DEF Bounds
  <2> QED  BY <1>3, <1>5, <2>1, <2>2 DEF Held
<1>6. CASE Bounds(t, i) = {} /\ IsBoundary(s[1])
  <2>1. \A n \in Nat \ {0} : 1 \in Bounds(s, n)
    BY <1>6 DEF Bounds
  <2>2. \A k \in Bounds(s, i + 1) : k <= 1
    BY <1>2, <1>6
  <2>3. Last(s, i + 1) = 1 /\ Last(s, 1) = 1
    <3>1. \A k \in Bounds(s, 1) : k <= 1
      BY DEF Bounds
    <3> QED  BY <2>1, <2>2, <3>1, LastIs
  <2>4. Held(v, i + 1) = Held(v, 1) /\ Bounds(s, i + 1) # {}
    <3>1. 1 \in Bounds(s, i + 1) /\ 1 \in Bounds(s, 1)
      BY <2>1
    <3>2. Bounds(s, i + 1) # {} /\ Bounds(s, 1) # {}
      BY <3>1
    <3> QED  BY <2>3, <3>2 DEF Held
  <2>5. Held(w, i) = Held(w, 0)
    BY <1>3, <1>6 DEF Held
  <2> QED  BY <1>6, <2>4, <2>5
<1> QED  BY <1>4, <1>5, <1>6

(* The frames make sense in their order; the two ends agree on what is open *)
(* or will when the client's close is read; a close the daemon has not read *)
(* is of a channel the client has heard all about; and an Open is of a      *)
(* generation that nothing said before it has named.                        *)
Alternates(v) ==
  \A i \in 1 .. Len(v.stream) :
    /\ v.stream[i].type = "AgentOpen" => Held(v, i - 1) = {}
    /\ v.stream[i].type # "AgentOpen" =>
         Held(v, i - 1) = {v.stream[i].gen}
           \/ (ClosedBySelf(v, i - 1) /\ v.gen = v.stream[i].gen)
CloseUnderWay(v, g) == \E j \in 1 .. Len(v.up) : v.up[j].type = "AgentClose" /\ v.up[j].gen = g
EndsAgree(v, used, g) ==
  IF used THEN Held(v, Len(v.stream)) = {g} \/ CloseUnderWay(v, g)
  ELSE Held(v, Len(v.stream)) = {}
ClosesItself(v, used, g) ==
  used /\ CloseUnderWay(v, g) => ClosedBySelf(v, Len(v.stream)) /\ v.gen = g
News(v) ==
  \A i \in 1 .. Len(v.stream) :
    v.stream[i].type = "AgentOpen" =>
      /\ v.stream[i].gen # v.gen
      /\ \A j \in 1 .. Len(v.up) : OfChannel(v.up[j]) => v.up[j].gen # v.stream[i].gen
      /\ \A j \in 1 .. i - 1 : v.stream[j].type = "AgentOpen" => v.stream[j].gen # v.stream[i].gen
Agrees(v, used, g) ==
  Alternates(v) /\ EndsAgree(v, used, g) /\ ClosesItself(v, used, g) /\ News(v)

(* One frame more on its way to the client.                                 *)
Appended(v, f) == [v EXCEPT !.stream = Append(@, f)]
LEMMA AppendedIs ==
  ASSUME NEW v \in Talks, NEW f \in ServerFrame
  PROVE  LET w == Appended(v, f)
             n == Len(v.stream)
         IN /\ w \in Talks /\ n \in Nat /\ Len(w.stream) = n + 1 /\ w.stream[n + 1] = f
            /\ w.up = v.up /\ w.open = v.open /\ w.gen = v.gen /\ w.sent = v.sent
            /\ \A i \in 1 .. n : w.stream[i] = v.stream[i]
            /\ \A i \in 0 .. n : Held(w, i) = Held(v, i) /\ ClosedBySelf(w, i) = ClosedBySelf(v, i)
<1> DEFINE w == Appended(v, f)
           n == Len(v.stream)
           s == v.stream
<1>1. s \in Seq(ServerFrame) /\ n \in Nat
  BY LenProperties DEF Talks
<1>2. /\ Append(s, f) \in Seq(ServerFrame) /\ Len(Append(s, f)) = n + 1
      /\ Append(s, f)[n + 1] = f /\ \A i \in 1 .. n : Append(s, f)[i] = s[i]
  BY <1>1, AppendProperties
<1>3. /\ w \in Talks /\ w.stream = Append(s, f)
      /\ w.up = v.up /\ w.open = v.open /\ w.gen = v.gen /\ w.sent = v.sent
  BY <1>2 DEF Appended, Talks
<1> HIDE DEF w
<1>4. ASSUME NEW i \in 0 .. n
      PROVE  Held(w, i) = Held(v, i) /\ ClosedBySelf(w, i) = ClosedBySelf(v, i)
  <2>1. i \in Nat /\ \A j \in 1 .. i : w.stream[j] = v.stream[j]
    BY <1>1, <1>2, <1>3
  <2> QED  BY <1>3, <2>1, HeldBySame
<1> QED  BY <1>1, <1>2, <1>3, <1>4 DEF w

LEMMA AlternatesOn ==
  ASSUME NEW v \in Talks, NEW f \in ServerFrame, Alternates(v),
         f.type = "AgentOpen" => Held(v, Len(v.stream)) = {},
         f.type # "AgentOpen" =>
           Held(v, Len(v.stream)) = {f.gen}
             \/ (ClosedBySelf(v, Len(v.stream)) /\ v.gen = f.gen)
  PROVE  Alternates(Appended(v, f))
<1> DEFINE w == Appended(v, f)
           n == Len(v.stream)
<1>1. /\ w \in Talks /\ n \in Nat /\ Len(w.stream) = n + 1 /\ w.stream[n + 1] = f
      /\ w.gen = v.gen /\ \A i \in 1 .. n : w.stream[i] = v.stream[i]
      /\ \A i \in 0 .. n : Held(w, i) = Held(v, i) /\ ClosedBySelf(w, i) = ClosedBySelf(v, i)
  BY AppendedIs
<1> HIDE DEF w
<1>2. ASSUME NEW i \in 1 .. Len(w.stream)
      PROVE  /\ w.stream[i].type = "AgentOpen" => Held(w, i - 1) = {}
             /\ w.stream[i].type # "AgentOpen" =>
                  Held(w, i - 1) = {w.stream[i].gen}
                    \/ (ClosedBySelf(w, i - 1) /\ w.gen = w.stream[i].gen)
  <2>1. i \in 1 .. n \/ i = n + 1
    BY <1>1
  <2>2. CASE i \in 1 .. n
    <3>1. /\ w.stream[i] = v.stream[i] /\ i - 1 \in 0 .. n
          /\ Held(w, i - 1) = Held(v, i - 1) /\ ClosedBySelf(w, i - 1) = ClosedBySelf(v, i - 1)
      BY <1>1, <2>2
    <3> QED  BY <1>1, <2>2, <3>1 DEF Alternates
  <2>3. CASE i = n + 1
    <3>1. /\ w.stream[i] = f /\ i - 1 = n
          /\ Held(w, n) = Held(v, n) /\ ClosedBySelf(w, n) = ClosedBySelf(v, n)
      BY <1>1, <2>3
    <3> QED  BY <1>1, <3>1
  <2> QED  BY <2>1, <2>2, <2>3
<1> QED  BY <1>2 DEF Alternates, w

LEMMA NewsOn ==
  ASSUME NEW v \in Talks, NEW f \in ServerFrame, News(v),
         f.type = "AgentOpen" =>
           /\ f.gen # v.gen
           /\ \A j \in 1 .. Len(v.up) : OfChannel(v.up[j]) => v.up[j].gen # f.gen
           /\ \A j \in 1 .. Len(v.stream) : v.stream[j].gen # f.gen
  PROVE  News(Appended(v, f))
<1> DEFINE w == Appended(v, f)
           n == Len(v.stream)
<1>1. /\ n \in Nat /\ Len(w.stream) = n + 1 /\ w.stream[n + 1] = f
      /\ w.gen = v.gen /\ w.up = v.up /\ \A i \in 1 .. n : w.stream[i] = v.stream[i]
  BY AppendedIs
<1> HIDE DEF w
<1>2. ASSUME NEW i \in 1 .. Len(w.stream), w.stream[i].type = "AgentOpen"
      PROVE  /\ w.stream[i].gen # w.gen
             /\ \A j \in 1 .. Len(w.up) : OfChannel(w.up[j]) => w.up[j].gen # w.stream[i].gen
             /\ \A j \in 1 .. i - 1 : w.stream[j].type = "AgentOpen" => w.stream[j].gen # w.stream[i].gen
  <2>1. i \in 1 .. n \/ i = n + 1
    BY <1>1
  <2>2. CASE i \in 1 .. n
    <3>1. /\ w.stream[i] = v.stream[i] /\ \A j \in 1 .. i - 1 : w.stream[j] = v.stream[j]
      BY <1>1, <2>2
    <3> QED  BY SMTT(30), <1>1, <1>2, <2>2, <3>1 DEF News
  <2>3. CASE i = n + 1
    <3>1. w.stream[i] = f /\ \A j \in 1 .. i - 1 : j \in 1 .. n /\ w.stream[j] = v.stream[j]
      BY <1>1, <2>3
    <3> QED  BY <1>1, <1>2, <3>1
  <2> QED  BY <2>1, <2>2, <2>3
<1> QED  BY <1>2 DEF News, w

(* The daemon's request, its close, and its Open.                           *)
LEMMA InUseFramesFollow ==
  ASSUME NEW v, NEW g, Agrees(v, TRUE, g)
  PROVE  Held(v, Len(v.stream)) = {g} \/ (ClosedBySelf(v, Len(v.stream)) /\ v.gen = g)
BY DEF Agrees, EndsAgree, ClosesItself

LEMMA DataAgrees ==
  ASSUME NEW v \in Talks, NEW g \in Generations, Agrees(v, TRUE, g)
  PROVE  Agrees(Appended(v, F("AgentData", g)), TRUE, g)
<1> DEFINE f == F("AgentData", g)
           w == Appended(v, f)
           n == Len(v.stream)
<1>1. f \in ServerFrame /\ f.type = "AgentData" /\ f.gen = g
  BY FramesAre DEF F
<1> HIDE DEF f
<1>2. /\ w \in Talks /\ n \in Nat /\ Len(w.stream) = n + 1 /\ w.stream[n + 1] = f
      /\ w.gen = v.gen /\ w.up = v.up /\ w.open = v.open
      /\ Held(w, n) = Held(v, n) /\ ClosedBySelf(w, n) = ClosedBySelf(v, n)
  BY <1>1, AppendedIs
<1>3. Alternates(w) /\ News(w)
  <2>1. Alternates(v) /\ News(v)
    BY DEF Agrees
  <2> QED  BY <1>1, <2>1, InUseFramesFollow, AlternatesOn, NewsOn
<1> HIDE DEF w
<1>4. Held(w, n + 1) = Held(v, n) /\ Bounds(w.stream, n + 1) = Bounds(w.stream, n)
  <2>1. ~IsBoundary(w.stream[n + 1])
    BY <1>1, <1>2 DEF IsBoundary
  <2> QED  BY <1>2, <2>1, HeldNext
<1>5. CloseUnderWay(w, g) = CloseUnderWay(v, g)
  BY <1>2 DEF CloseUnderWay
<1>6. ClosedBySelf(w, n + 1) = ClosedBySelf(v, n)
  BY <1>2, <1>4 DEF ClosedBySelf
<1>7. EndsAgree(w, TRUE, g) /\ ClosesItself(w, TRUE, g)
  BY <1>2, <1>4, <1>5, <1>6 DEF Agrees, EndsAgree, ClosesItself
<1> QED  BY <1>3, <1>7 DEF Agrees, w, f

LEMMA CloseAgrees ==
  ASSUME NEW v \in Talks, NEW g \in Generations, NEW h, Agrees(v, TRUE, g)
  PROVE  Agrees(Appended(v, F("AgentClose", g)), FALSE, h)
<1> DEFINE f == F("AgentClose", g)
           w == Appended(v, f)
           n == Len(v.stream)
<1>1. f \in ServerFrame /\ f.type = "AgentClose" /\ f.gen = g
  BY FramesAre DEF F
<1> HIDE DEF f
<1>2. w \in Talks /\ n \in Nat /\ Len(w.stream) = n + 1 /\ w.stream[n + 1] = f
  BY <1>1, AppendedIs
<1>3. Alternates(w) /\ News(w)
  <2>1. Alternates(v) /\ News(v)
    BY DEF Agrees
  <2> QED  BY <1>1, <2>1, InUseFramesFollow, AlternatesOn, NewsOn
<1> HIDE DEF w
<1>4. Held(w, n + 1) = {}
  <2>1. IsBoundary(w.stream[n + 1]) /\ w.stream[n + 1].type # "AgentOpen"
    BY <1>1, <1>2 DEF IsBoundary
  <2> QED  BY <1>2, <2>1, HeldNext
<1> QED  BY <1>2, <1>3, <1>4 DEF Agrees, EndsAgree, ClosesItself, w, f

(* Of no generation named so far.                                           *)
Fresh(v, g) ==
  /\ g # v.gen
  /\ \A j \in 1 .. Len(v.up) : OfChannel(v.up[j]) => v.up[j].gen # g
  /\ \A j \in 1 .. Len(v.stream) : v.stream[j].gen # g

LEMMA OpenAgrees ==
  ASSUME NEW v \in Talks, NEW h, Agrees(v, FALSE, h),
         NEW f \in ServerFrame, f.type = "AgentOpen", Fresh(v, f.gen)
  PROVE  Agrees(Appended(v, f), TRUE, f.gen)
<1> DEFINE w == Appended(v, f)
           n == Len(v.stream)
<1>1. /\ w \in Talks /\ n \in Nat /\ Len(w.stream) = n + 1 /\ w.stream[n + 1] = f
      /\ w.up = v.up
  BY AppendedIs
<1>2. Alternates(w) /\ News(w)
  <2>1. Alternates(v) /\ News(v) /\ Held(v, n) = {}
    BY DEF Agrees, EndsAgree
  <2> QED  BY <2>1, AlternatesOn, NewsOn DEF Fresh
<1> HIDE DEF w
<1>3. Held(w, n + 1) = {f.gen}
  <2>1. IsBoundary(w.stream[n + 1]) /\ w.stream[n + 1].type = "AgentOpen"
    BY <1>1 DEF IsBoundary
  <2> QED  BY <1>1, <2>1, HeldNext
<1>4. ~CloseUnderWay(w, f.gen)
  BY <1>1 DEF CloseUnderWay, Fresh, OfChannel
<1> QED  BY <1>1, <1>2, <1>3, <1>4 DEF Agrees, EndsAgree, ClosesItself, w

(* A client that is new, and a daemon that reads a frame.                   *)
LEMMA NewClientAgrees ==
  ASSUME NEW w \in 0 .. MaxClients, NEW on \in BOOLEAN, NEW g
  PROVE  Talk(Client(w, on)) \in Talks /\ Agrees(Talk(Client(w, on)), FALSE, g)
<1> DEFINE v == Talk(Client(w, on))
<1>1. <<>> \o <<>> = <<>> /\ Len(<<>>) = 0
  OBVIOUS
<1>2. v.stream = <<>> /\ v.up = <<>> /\ v.open = NoPeer /\ v.gen = Wrap /\ v.sent = 0
  BY <1>1 DEF Talk, Client
<1>3. v \in Talks
  <2>1. v = [stream |-> <<>>, up |-> <<>>, open |-> NoPeer, gen |-> Wrap, sent |-> 0]
    BY <1>1 DEF Talk, Client
  <2>2. Wrap \in 0 .. Wrap
    BY AgentAssumption
  <2> QED  BY <2>1, <2>2, EmptySeq DEF Talks
<1> HIDE DEF v
<1>4. Alternates(v) /\ News(v)
  BY <1>1, <1>2 DEF Alternates, News
<1>5. Held(v, 0) = {}
  BY <1>2 DEF Held, Bounds
<1> QED  BY <1>1, <1>2, <1>3, <1>4, <1>5 DEF Agrees, EndsAgree, ClosesItself, v

Shorter(v) == [v EXCEPT !.up = Tail(@)]
LEMMA ShorterIs ==
  ASSUME NEW v \in Talks, v.up # <<>>
  PROVE  LET w == Shorter(v) IN
         /\ w \in Talks /\ w.stream = v.stream /\ w.open = v.open /\ w.gen = v.gen
         /\ w.sent = v.sent /\ Len(v.up) \in Nat \ {0} /\ Len(w.up) = Len(v.up) - 1
         /\ Head(v.up) = v.up[1] /\ v.up[1] \in ClientFrame
         /\ \A j \in 1 .. Len(v.up) - 1 : w.up[j] = v.up[j + 1]
<1>1. v.up \in Seq(ClientFrame)
  BY DEF Talks
<1>2. /\ Tail(v.up) \in Seq(ClientFrame) /\ Len(Tail(v.up)) = Len(v.up) - 1
      /\ \A j \in 1 .. Len(Tail(v.up)) : Tail(v.up)[j] = v.up[j + 1]
      /\ Len(v.up) \in Nat /\ Len(v.up) # 0 /\ Head(v.up) = v.up[1]
      /\ Head(v.up) \in ClientFrame
  BY <1>1, HeadTailProperties, LenProperties, EmptySeq
<1>3. Shorter(v) \in Talks /\ Shorter(v).up = Tail(v.up)
  BY <1>2 DEF Shorter, Talks
<1> QED  BY <1>2, <1>3 DEF Shorter, Talks

LEMMA ReadAgrees ==
  ASSUME NEW v \in Talks, NEW used \in BOOLEAN, NEW g, Agrees(v, used, g), v.up # <<>>
  PROVE  /\ ~(used /\ Head(v.up).type = "AgentClose" /\ Head(v.up).gen = g)
              => Agrees(Shorter(v), used, g)
         /\ \A h : used /\ Head(v.up).type = "AgentClose" /\ Head(v.up).gen = g
              => Agrees(Shorter(v), FALSE, h)
<1> DEFINE w == Shorter(v)
           n == Len(v.stream)
           m == Len(v.up)
<1>1. /\ w \in Talks /\ w.stream = v.stream /\ w.open = v.open /\ w.gen = v.gen
      /\ m \in Nat \ {0} /\ Len(w.up) = m - 1
      /\ Head(v.up) = v.up[1] /\ \A j \in 1 .. m - 1 : w.up[j] = v.up[j + 1]
  BY ShorterIs
<1>2. n \in Nat
  BY LenProperties DEF Talks
<1> HIDE DEF w
<1>3. \A i \in 0 .. n : Held(w, i) = Held(v, i) /\ ClosedBySelf(w, i) = ClosedBySelf(v, i)
  BY <1>1 DEF Held, ClosedBySelf
<1>4. Alternates(w)
  <2>1. \A i \in 1 .. n : i - 1 \in 0 .. n
    BY <1>2
  <2> QED  BY <1>1, <1>3, <2>1 DEF Agrees, Alternates
<1>5. News(w)
  <2>1. \A j \in 1 .. Len(w.up) : j + 1 \in 1 .. m /\ w.up[j] = v.up[j + 1]
    BY <1>1
  <2> QED  BY ZenonT(30), <1>1, <2>1 DEF Agrees, News
<1>6. CloseUnderWay(w, g) => CloseUnderWay(v, g)
  <2>1. \A j \in 1 .. Len(w.up) : j + 1 \in 1 .. m /\ w.up[j] = v.up[j + 1]
    BY <1>1
  <2> QED  BY <2>1 DEF CloseUnderWay
<1>7. CloseUnderWay(v, g) /\ ~(Head(v.up).type = "AgentClose" /\ Head(v.up).gen = g)
        => CloseUnderWay(w, g)
  <2> SUFFICES ASSUME CloseUnderWay(v, g), ~(Head(v.up).type = "AgentClose" /\ Head(v.up).gen = g)
               PROVE  CloseUnderWay(w, g)
    OBVIOUS
  <2>1. PICK j \in 1 .. m : v.up[j].type = "AgentClose" /\ v.up[j].gen = g
    BY DEF CloseUnderWay
  <2>2. j # 1
    BY <1>1, <2>1
  <2>3. j - 1 \in 1 .. Len(w.up) /\ (j - 1) + 1 = j /\ j - 1 \in 1 .. m - 1
    BY <1>1, <2>2
  <2>4. w.up[j - 1] = v.up[j]
    BY <1>1, <2>3
  <2> QED  BY <2>1, <2>3, <2>4 DEF CloseUnderWay
<1>8. n \in 0 .. n
  BY <1>2
<1>9. ASSUME ~(used /\ Head(v.up).type = "AgentClose" /\ Head(v.up).gen = g)
      PROVE  Agrees(w, used, g)
  BY <1>1, <1>3, <1>4, <1>5, <1>6, <1>7, <1>8, <1>9 DEF Agrees, EndsAgree, ClosesItself
<1>10. ASSUME used, Head(v.up).type = "AgentClose", Head(v.up).gen = g, NEW h
       PROVE  Agrees(w, FALSE, h)
  <2>1. CloseUnderWay(v, g)
    <3>1. 1 \in 1 .. m
      BY <1>1
    <3> QED  BY <1>1, <1>10, <3>1 DEF CloseUnderWay
  <2>2. ClosedBySelf(v, n)
    BY <1>10, <2>1 DEF Agrees, ClosesItself
  <2>3. Held(w, n) = {}
    BY <1>3, <1>8, <2>2 DEF Held, ClosedBySelf
  <2> QED  BY <1>1, <1>4, <1>5, <2>3 DEF Agrees, EndsAgree, ClosesItself
<1> QED  BY <1>9, <1>10 DEF w

(* The client answers, or says it leaves.                                   *)
LEMMA SpokenIs ==
  ASSUME NEW v \in Talks, NEW f \in ClientFrame
  PROVE  LET u == Append(v.up, f)
             m == Len(v.up)
         IN /\ u \in Seq(ClientFrame) /\ m \in Nat /\ Len(u) = m + 1 /\ u[m + 1] = f
            /\ \A j \in 1 .. m : u[j] = v.up[j]
            /\ \A j \in 1 .. m + 1 : j \in 1 .. m \/ j = m + 1
            /\ 1 .. m \subseteq 1 .. m + 1 /\ m + 1 \in 1 .. m + 1
<1>1. v.up \in Seq(ClientFrame) /\ Len(v.up) \in Nat
  BY LenProperties DEF Talks
<1>2. /\ Append(v.up, f) \in Seq(ClientFrame) /\ Len(Append(v.up, f)) = Len(v.up) + 1
      /\ Append(v.up, f)[Len(v.up) + 1] = f
      /\ \A j \in 1 .. Len(v.up) : Append(v.up, f)[j] = v.up[j]
  BY <1>1, AppendProperties
<1> QED  BY <1>1, <1>2

LEMMA SpokenAgrees ==
  ASSUME NEW v \in Talks, NEW w \in Talks, NEW f \in ClientFrame, NEW used \in BOOLEAN, NEW g,
         Agrees(v, used, g),
         w.stream = v.stream, w.open = v.open, w.gen = v.gen, w.up = Append(v.up, f),
         f.type # "AgentClose", f.type = "AgentData" => f.gen = v.gen
  PROVE  Agrees(w, used, g)
<1> DEFINE n == Len(v.stream)
           m == Len(v.up)
<1>1. /\ m \in Nat /\ Len(w.up) = m + 1 /\ w.up[m + 1] = f
      /\ \A j \in 1 .. m : w.up[j] = v.up[j]
      /\ \A j \in 1 .. m + 1 : j \in 1 .. m \/ j = m + 1
      /\ 1 .. m \subseteq 1 .. m + 1
  BY SpokenIs
<1>2. n \in Nat
  BY LenProperties DEF Talks
<1>3. \A i \in 0 .. n : Held(w, i) = Held(v, i) /\ ClosedBySelf(w, i) = ClosedBySelf(v, i)
  BY DEF Held, ClosedBySelf
<1>4. Alternates(w)
  <2>1. \A i \in 1 .. n : i - 1 \in 0 .. n
    BY <1>2
  <2> QED  BY <1>1, <1>3, <2>1 DEF Agrees, Alternates
<1>5. News(w)
  <2>1. ASSUME NEW i \in 1 .. n, v.stream[i].type = "AgentOpen",
               NEW j \in 1 .. Len(w.up), OfChannel(w.up[j])
        PROVE  w.up[j].gen # v.stream[i].gen
    <3>1. CASE j \in 1 .. m
      BY <1>1, <2>1, <3>1 DEF Agrees, News
    <3>2. CASE j = m + 1
      BY <1>1, <2>1, <3>2 DEF Agrees, News, OfChannel
    <3> QED  BY <1>1, <3>1, <3>2
  <2> QED  BY <2>1 DEF Agrees, News
<1>6. CloseUnderWay(w, g) <=> CloseUnderWay(v, g)
  BY <1>1 DEF CloseUnderWay
<1>7. n \in 0 .. n
  BY <1>2
<1> QED  BY <1>3, <1>4, <1>5, <1>6, <1>7 DEF Agrees, EndsAgree, ClosesItself

(* The client closes its end.                                               *)
LEMMA ClosesAgrees ==
  ASSUME NEW v \in Talks, NEW w \in Talks, NEW f \in ClientFrame, NEW used \in BOOLEAN, NEW g,
         Agrees(v, used, g), v.open # NoPeer,
         w.stream = v.stream, w.open = NoPeer, w.gen = v.gen, w.up = Append(v.up, f),
         f.type = "AgentClose", f.gen = v.gen
  PROVE  Agrees(w, used, g)
<1> DEFINE n == Len(v.stream)
           m == Len(v.up)
           s == v.stream
<1>1. /\ m \in Nat /\ Len(w.up) = m + 1 /\ w.up[m + 1] = f
      /\ \A j \in 1 .. m : w.up[j] = v.up[j]
      /\ \A j \in 1 .. m + 1 : j \in 1 .. m \/ j = m + 1
      /\ 1 .. m \subseteq 1 .. m + 1 /\ m + 1 \in 1 .. m + 1
  BY SpokenIs
<1>2. n \in Nat
  BY LenProperties DEF Talks
<1>3. \A i \in 0 .. n :
        /\ ~ClosedBySelf(v, i)
        /\ Bounds(s, i) # {} => Held(w, i) = Held(v, i)
        /\ Bounds(s, i) = {} => Held(v, i) = {v.gen} /\ Held(w, i) = {} /\ ClosedBySelf(w, i)
  BY DEF Held, ClosedBySelf
<1>4. Alternates(w)
  <2>1. ASSUME NEW i \in 1 .. n
        PROVE  /\ s[i].type = "AgentOpen" => Held(w, i - 1) = {}
               /\ s[i].type # "AgentOpen" =>
                    Held(w, i - 1) = {s[i].gen} \/ (ClosedBySelf(w, i - 1) /\ v.gen = s[i].gen)
    <3>1. i - 1 \in 0 .. n
      BY <1>2
    <3>2. /\ s[i].type = "AgentOpen" => Held(v, i - 1) = {}
          /\ s[i].type # "AgentOpen" =>
               Held(v, i - 1) = {s[i].gen} \/ (ClosedBySelf(v, i - 1) /\ v.gen = s[i].gen)
      BY DEF Agrees, Alternates
    <3>3. CASE Bounds(s, i - 1) # {}
      BY <1>3, <3>1, <3>2, <3>3
    <3>4. CASE Bounds(s, i - 1) = {}
      <4>1. Held(w, i - 1) = {} /\ ClosedBySelf(w, i - 1) /\ Held(v, i - 1) = {v.gen}
        BY <1>3, <3>1, <3>4
      <4>2. ~ClosedBySelf(v, i - 1)
        BY <1>3, <3>1
      <4>3. s[i].type # "AgentOpen" => v.gen = s[i].gen
        <5>1. s[i].type # "AgentOpen" => {v.gen} = {s[i].gen}
          BY <3>2, <4>1, <4>2
        <5> QED  BY <5>1
      <4> QED  BY <4>1, <4>3
    <3> QED  BY <3>3, <3>4
  <2> QED  BY <2>1 DEF Alternates
<1>5. News(w)
  <2>1. ASSUME NEW i \in 1 .. n, s[i].type = "AgentOpen",
               NEW j \in 1 .. Len(w.up), OfChannel(w.up[j])
        PROVE  w.up[j].gen # s[i].gen
    <3>1. CASE j \in 1 .. m
      BY <1>1, <2>1, <3>1 DEF Agrees, News
    <3>2. CASE j = m + 1
      BY <1>1, <2>1, <3>2 DEF Agrees, News
    <3> QED  BY <1>1, <3>1, <3>2
  <2> QED  BY <2>1 DEF Agrees, News
<1>6. CloseUnderWay(w, g) <=> CloseUnderWay(v, g) \/ v.gen = g
  BY <1>1 DEF CloseUnderWay
<1>7. n \in 0 .. n
  BY <1>2
<1>8. EndsAgree(w, used, g)
  <2>1. CASE ~used
    <3>1. Held(v, n) = {}
      BY <2>1 DEF Agrees, EndsAgree
    <3> QED  BY <1>3, <1>7, <2>1, <3>1 DEF EndsAgree
  <2>2. CASE used
    <3>1. Held(v, n) = {g} \/ CloseUnderWay(v, g)
      BY <2>2 DEF Agrees, EndsAgree
    <3>2. Bounds(s, n) = {} => Held(v, n) = {v.gen}
      BY <1>3, <1>7
    <3>3. Bounds(s, n) # {} => Held(w, n) = Held(v, n)
      BY <1>3, <1>7
    <3>4. {v.gen} = {g} => v.gen = g
      OBVIOUS
    <3> QED  BY <1>6, <2>2, <3>1, <3>2, <3>3, <3>4 DEF EndsAgree
  <2> QED  BY <2>1, <2>2
<1>9. ClosesItself(w, used, g)
  <2> SUFFICES ASSUME used, CloseUnderWay(w, g)
               PROVE  ClosedBySelf(w, n) /\ v.gen = g
    BY DEF ClosesItself
  <2>1. ~CloseUnderWay(v, g)
    BY <1>3, <1>7 DEF Agrees, ClosesItself
  <2>2. v.gen = g /\ Held(v, n) = {g}
    BY <1>6, <2>1 DEF Agrees, EndsAgree
  <2>3. Bounds(s, n) = {}
    <3> SUFFICES ASSUME Bounds(s, n) # {} PROVE FALSE
      OBVIOUS
    <3>1. Last(s, n) \in Bounds(s, n)
      BY <1>2, LastIsIn
    <3>2. Last(s, n) \in 1 .. n
      BY <3>1 DEF Bounds
    <3>3. s[Last(s, n)].type = "AgentOpen" /\ {s[Last(s, n)].gen} = {g}
      BY <2>2 DEF Held
    <3>4. s[Last(s, n)].gen # v.gen
      BY <3>2, <3>3 DEF Agrees, News
    <3> QED  BY <2>2, <3>3, <3>4
  <2> QED  BY <1>3, <1>7, <2>2, <2>3
<1> QED  BY <1>4, <1>5, <1>8, <1>9 DEF Agrees

(* The client hears a frame.                                                *)
HeardBy(v, w) ==
  LET f == v.stream[1] IN
  /\ w.stream = Tail(v.stream) /\ w.up = v.up
  /\ w.open = IF f.type = "AgentOpen" THEN f.byte.to
              ELSE IF f.type = "AgentClose" /\ f.gen = v.gen THEN NoPeer ELSE v.open
  /\ w.gen = IF f.type = "AgentOpen" THEN f.gen ELSE v.gen
  /\ w.sent = IF f.type = "AgentOpen" THEN 0 ELSE v.sent

LEMMA HeardIs ==
  ASSUME NEW v \in Talks, NEW w, v.stream # <<>>, w.stream = Tail(v.stream)
  PROVE  LET n == Len(v.stream) IN
         /\ n \in Nat \ {0} /\ Len(w.stream) = n - 1 /\ v.stream[1] \in ServerFrame
         /\ \A i \in 1 .. n - 1 : i + 1 \in 1 .. n /\ w.stream[i] = v.stream[i + 1]
         /\ v.stream[1].type \in {"AgentOpen", "AgentData", "AgentClose"}
         /\ v.stream[1].type = "AgentOpen" => v.stream[1].byte.to # NoPeer
<1>1. v.stream \in Seq(ServerFrame)
  BY DEF Talks
<1>2. /\ Len(Tail(v.stream)) = Len(v.stream) - 1
      /\ \A j \in 1 .. Len(Tail(v.stream)) : Tail(v.stream)[j] = v.stream[j + 1]
      /\ Len(v.stream) \in Nat /\ Len(v.stream) # 0 /\ Head(v.stream) = v.stream[1]
      /\ Head(v.stream) \in ServerFrame
  BY <1>1, HeadTailProperties, LenProperties, EmptySeq
<1>3. \A f \in ServerFrame : /\ f.type \in {"AgentOpen", "AgentData", "AgentClose"}
                             /\ f.type = "AgentOpen" => f.byte.to # NoPeer
  BY DEF ServerFrame, Byte, Peers, NoPeer
<1> QED  BY <1>2, <1>3

LEMMA HearsAgrees ==
  ASSUME NEW v \in Talks, NEW w, NEW used \in BOOLEAN, NEW g,
         Agrees(v, used, g), v.stream # <<>>, HeardBy(v, w)
  PROVE  Agrees(w, used, g)
<1> DEFINE s == v.stream
           t == w.stream
           n == Len(s)
           f == s[1]
<1>1. /\ n \in Nat \ {0} /\ Len(t) = n - 1
      /\ \A i \in 1 .. n - 1 : i + 1 \in 1 .. n /\ t[i] = s[i + 1]
      /\ f.type \in {"AgentOpen", "AgentData", "AgentClose"}
      /\ f.type = "AgentOpen" => f.byte.to # NoPeer
  BY HeardIs DEF HeardBy
<1>2. /\ w.up = v.up
      /\ w.open = IF f.type = "AgentOpen" THEN f.byte.to
                  ELSE IF f.type = "AgentClose" /\ f.gen = v.gen THEN NoPeer ELSE v.open
      /\ w.gen = IF f.type = "AgentOpen" THEN f.gen ELSE v.gen
  BY DEF HeardBy
<1> HIDE DEF t
<1>3. /\ f.type = "AgentOpen" => Held(v, 0) = {}
      /\ f.type # "AgentOpen" =>
           Held(v, 0) = {f.gen} \/ (ClosedBySelf(v, 0) /\ v.gen = f.gen)
  <2>1. 1 \in 1 .. n /\ 1 - 1 = 0
    BY <1>1
  <2> QED  BY <2>1 DEF Agrees, Alternates
<1>4. Held(v, 0) = IF v.open # NoPeer THEN {v.gen} ELSE {}
  BY DEF Held, Bounds
<1>5. Held(w, 0) = IF w.open # NoPeer THEN {w.gen} ELSE {}
  BY DEF Held, Bounds
<1>6. Held(w, 0) = Held(v, 1)
  <2>1. /\ IsBoundary(f) => Held(v, 1) = IF f.type = "AgentOpen" THEN {f.gen} ELSE {}
        /\ ~IsBoundary(f) => Held(v, 1) = Held(v, 0)
    <3>1. 0 + 1 = 1 /\ 0 \in Nat
      OBVIOUS
    <3> QED  BY <3>1, HeldNext
  <2>2. CASE f.type = "AgentOpen"
    BY <1>1, <1>2, <1>5, <2>1, <2>2 DEF IsBoundary
  <2>3. CASE f.type = "AgentClose"
    <3>1. w.open = NoPeer
      <4>1. CASE v.open = NoPeer
        BY <1>2, <2>3, <4>1
      <4>2. CASE v.open # NoPeer
        <5>1. Held(v, 0) = {v.gen} /\ ~ClosedBySelf(v, 0)
          BY <1>4, <4>2 DEF ClosedBySelf
        <5>2. {v.gen} = {f.gen}
          BY <1>3, <2>3, <5>1
        <5>3. v.gen = f.gen
          BY <5>2
        <5> QED  BY <1>2, <2>3, <5>3
      <4> QED  BY <4>1, <4>2
    <3> QED  BY <1>5, <2>1, <2>3, <3>1 DEF IsBoundary
  <2>4. CASE f.type = "AgentData"
    BY <1>2, <1>4, <1>5, <2>1, <2>4 DEF IsBoundary
  <2> QED  BY <1>1, <2>2, <2>3, <2>4
<1>7. ASSUME NEW i \in 0 .. n - 1
      PROVE  /\ Held(w, i) = Held(v, i + 1)
             /\ ClosedBySelf(v, i + 1) => ClosedBySelf(w, i) /\ w.gen = v.gen
  <2>1. i \in Nat /\ \A j \in 1 .. i : t[j] = s[j + 1]
    BY <1>1
  <2>2. /\ Held(w, i) = Held(v, i + 1)
        /\ Bounds(s, i + 1) = {} => Bounds(t, i) = {}
    BY <1>6, <2>1, HeldAfterTheFirst DEF t
  <2>3. ASSUME ClosedBySelf(v, i + 1)
        PROVE  ClosedBySelf(w, i) /\ w.gen = v.gen
    <3>1. f.type # "AgentOpen"
      <4>1. 1 \in 1 .. i + 1
        BY <2>1
      <4> QED  BY <2>3, <4>1 DEF ClosedBySelf, Bounds, IsBoundary
    <3>2. w.open = NoPeer /\ w.gen = v.gen
      BY <1>2, <2>3, <3>1 DEF ClosedBySelf
    <3> QED  BY <2>2, <2>3, <3>2 DEF ClosedBySelf, t
  <2> QED  BY <2>2, <2>3
<1>8. Alternates(w)
  <2>1. ASSUME NEW i \in 1 .. Len(t)
        PROVE  /\ t[i].type = "AgentOpen" => Held(w, i - 1) = {}
               /\ t[i].type # "AgentOpen" =>
                    Held(w, i - 1) = {t[i].gen} \/ (ClosedBySelf(w, i - 1) /\ w.gen = t[i].gen)
    <3>1. i - 1 \in 0 .. n - 1 /\ (i - 1) + 1 = i /\ i + 1 \in 1 .. n /\ t[i] = s[i + 1]
          /\ (i + 1) - 1 = i
      <4>1. n \in Nat /\ i \in 1 .. n - 1
        BY <1>1
      <4> HIDE DEF n
      <4>2. i - 1 \in 0 .. n - 1 /\ (i - 1) + 1 = i /\ (i + 1) - 1 = i
        BY <4>1
      <4> QED  BY <1>1, <4>1, <4>2
    <3>2. /\ Held(w, i - 1) = Held(v, i)
          /\ ClosedBySelf(v, i) => ClosedBySelf(w, i - 1) /\ w.gen = v.gen
      BY <1>7, <3>1
    <3>3. /\ s[i + 1].type = "AgentOpen" => Held(v, i) = {}
          /\ s[i + 1].type # "AgentOpen" =>
               Held(v, i) = {s[i + 1].gen} \/ (ClosedBySelf(v, i) /\ v.gen = s[i + 1].gen)
      BY <3>1 DEF Agrees, Alternates
    <3> QED  BY <3>1, <3>2, <3>3
  <2> QED  BY <2>1 DEF Alternates, t
<1>9. News(w)
  <2>1. ASSUME NEW i \in 1 .. Len(t), t[i].type = "AgentOpen"
        PROVE  /\ t[i].gen # w.gen
               /\ \A j \in 1 .. Len(w.up) : OfChannel(w.up[j]) => w.up[j].gen # t[i].gen
               /\ \A j \in 1 .. i - 1 : t[j].type = "AgentOpen" => t[j].gen # t[i].gen
    <3>1. i + 1 \in 1 .. n /\ t[i] = s[i + 1]
      BY <1>1
    <3>2. /\ s[i + 1].gen # v.gen
          /\ \A j \in 1 .. Len(v.up) : OfChannel(v.up[j]) => v.up[j].gen # s[i + 1].gen
          /\ \A j \in 1 .. i + 1 - 1 : s[j].type = "AgentOpen" => s[j].gen # s[i + 1].gen
      BY <2>1, <3>1 DEF Agrees, News
    <3>3. 1 \in 1 .. i + 1 - 1
      BY <1>1
    <3>4. t[i].gen # w.gen
      BY <1>2, <3>1, <3>2, <3>3
    <3>5. ASSUME NEW j \in 1 .. i - 1, t[j].type = "AgentOpen"
          PROVE  t[j].gen # t[i].gen
      <4>1. j + 1 \in 1 .. i + 1 - 1 /\ t[j] = s[j + 1]
        BY <1>1
      <4> QED  BY <3>1, <3>2, <3>5, <4>1
    <3> QED  BY <1>2, <3>1, <3>2, <3>4, <3>5
  <2> QED  BY <2>1 DEF News, t
<1>10. /\ n - 1 \in 0 .. n - 1 /\ (n - 1) + 1 = n /\ Len(t) = n - 1
  BY <1>1
<1>11. /\ Held(w, Len(t)) = Held(v, n)
       /\ ClosedBySelf(v, n) => ClosedBySelf(w, Len(t)) /\ w.gen = v.gen
  BY <1>7, <1>10
<1>12. CloseUnderWay(w, g) <=> CloseUnderWay(v, g)
  BY <1>2 DEF CloseUnderWay
<1>13. EndsAgree(w, used, g) /\ ClosesItself(w, used, g)
  BY <1>11, <1>12 DEF Agrees, EndsAgree, ClosesItself, t
<1> QED  BY <1>8, <1>9, <1>13 DEF Agrees

-----------------------------------------------------------------------------
(* The replies *)

(* With generation g served to p, who has n replies or is about to: an Open *)
(* of g not heard yet is for p, who then has none; what the client sends by *)
(* g is for p; and the replies on their way go on where those of p end, and *)
(* end where the client's count is.                                         *)
Of(v, g) == {j \in 1 .. Len(v.up) : v.up[j].type = "AgentData" /\ v.up[j].gen = g}
Nth(v, j) == v.up[j].byte.nth
OpensTell(v, p, g, n) ==
  /\ \A i \in 1 .. Len(v.stream) :
       v.stream[i].type = "AgentOpen" /\ v.stream[i].gen = g => v.stream[i].byte.to = p /\ n = 0
  /\ v.gen = g /\ v.open # NoPeer => v.open = p
RepliesFollow(v, p, g, n) ==
  \A j \in Of(v, g) :
    /\ v.up[j].byte.to = p /\ Nth(v, j) > n
    /\ Nth(v, j) = n + 1 \/ \E i \in Of(v, g) : i < j /\ Nth(v, i) + 1 = Nth(v, j)
    /\ \A i \in Of(v, g) : i < j => Nth(v, i) < Nth(v, j)
SentIsTheLast(v, g, n) ==
  v.gen = g =>
    /\ n <= v.sent /\ (v.sent = n \/ \E j \in Of(v, g) : Nth(v, j) = v.sent)
    /\ \A j \in Of(v, g) : Nth(v, j) <= v.sent
Answers(v, p, g, n) ==
  OpensTell(v, p, g, n) /\ RepliesFollow(v, p, g, n) /\ SentIsTheLast(v, g, n)

LEMMA RepliesOnTheirWay ==
  ASSUME NEW v \in Talks, NEW g, NEW j \in Of(v, g)
  PROVE  j \in 1 .. Len(v.up) /\ v.up[j].byte \in Byte /\ Nth(v, j) \in Nat
<1>1. j \in 1 .. Len(v.up) /\ v.up[j].type = "AgentData" /\ v.up \in Seq(ClientFrame)
  BY DEF Of, Talks
<1>2. v.up[j] \in ClientFrame
  BY <1>1, ElementOfSeq
<1> QED  BY <1>1, <1>2 DEF ClientFrame, Byte, Nth

LEMMA AnswersSameUp ==
  ASSUME NEW v, NEW w, NEW p, NEW g, NEW n, w.up = v.up, RepliesFollow(v, p, g, n)
  PROVE  /\ RepliesFollow(w, p, g, n)
         /\ SentIsTheLast(v, g, n) /\ w.gen = v.gen /\ w.sent = v.sent => SentIsTheLast(w, g, n)
BY DEF Of, Nth, RepliesFollow, SentIsTheLast

LEMMA FollowsOn ==
  ASSUME NEW v, NEW w, NEW p, NEW g, NEW n, Of(w, g) = Of(v, g),
         \A j \in Of(v, g) : w.up[j] = v.up[j], RepliesFollow(v, p, g, n)
  PROVE  RepliesFollow(w, p, g, n)
<1> SUFFICES ASSUME NEW j \in Of(w, g)
             PROVE  /\ w.up[j].byte.to = p /\ Nth(w, j) > n
                    /\ Nth(w, j) = n + 1 \/ \E i \in Of(w, g) : i < j /\ Nth(w, i) + 1 = Nth(w, j)
                    /\ \A i \in Of(w, g) : i < j => Nth(w, i) < Nth(w, j)
  BY DEF RepliesFollow
<1>1. \A i \in Of(v, g) : Nth(w, i) = Nth(v, i)
  BY DEF Nth
<1>2. /\ v.up[j].byte.to = p /\ Nth(v, j) > n
      /\ Nth(v, j) = n + 1 \/ \E i \in Of(v, g) : i < j /\ Nth(v, i) + 1 = Nth(v, j)
      /\ \A i \in Of(v, g) : i < j => Nth(v, i) < Nth(v, j)
  BY DEF RepliesFollow
<1> QED  BY <1>1, <1>2

LEMMA DataAnswers ==
  ASSUME NEW v \in Talks, NEW p, NEW g \in Generations, NEW n, Answers(v, p, g, n)
  PROVE  Answers(Appended(v, F("AgentData", g)), p, g, n)
<1> DEFINE f == F("AgentData", g)
           w == Appended(v, f)
           m == Len(v.stream)
<1>1. f \in ServerFrame /\ f.type = "AgentData"
  BY FramesAre DEF F
<1> HIDE DEF f
<1>2. /\ m \in Nat /\ Len(w.stream) = m + 1 /\ w.stream[m + 1] = f
      /\ w.up = v.up /\ w.open = v.open /\ w.gen = v.gen /\ w.sent = v.sent
      /\ \A i \in 1 .. m : w.stream[i] = v.stream[i]
  BY <1>1, AppendedIs
<1> HIDE DEF w
<1>3. OpensTell(w, p, g, n)
  <2>1. \A i \in 1 .. m + 1 : i \in 1 .. m \/ i = m + 1
    BY <1>2
  <2> QED  BY <1>1, <1>2, <2>1 DEF Answers, OpensTell
<1>4. RepliesFollow(w, p, g, n) /\ SentIsTheLast(w, g, n)
  BY <1>2, AnswersSameUp DEF Answers
<1> QED  BY <1>3, <1>4 DEF Answers, w, f

LEMMA OpenAnswers ==
  ASSUME NEW v \in Talks, NEW f \in ServerFrame, f.type = "AgentOpen", Fresh(v, f.gen)
  PROVE  Answers(Appended(v, f), f.byte.to, f.gen, 0)
<1> DEFINE w == Appended(v, f)
           m == Len(v.stream)
<1>1. /\ m \in Nat /\ Len(w.stream) = m + 1 /\ w.stream[m + 1] = f
      /\ w.up = v.up /\ w.open = v.open /\ w.gen = v.gen
      /\ \A i \in 1 .. m : w.stream[i] = v.stream[i]
  BY AppendedIs
<1> HIDE DEF w
<1>2. \A i \in 1 .. m + 1 : i \in 1 .. m \/ i = m + 1
  BY <1>1
<1>3. Of(w, f.gen) = {}
  BY <1>1 DEF Of, Fresh, OfChannel
<1>4. OpensTell(w, f.byte.to, f.gen, 0)
  BY <1>1, <1>2 DEF OpensTell, Fresh
<1> QED  BY <1>1, <1>3, <1>4 DEF Answers, RepliesFollow, SentIsTheLast, Fresh, w

(* The daemon reads a frame: of another generation, or the next reply.      *)
LEMMA ShorterOf ==
  ASSUME NEW v \in Talks, NEW g, v.up # <<>>, NEW w, w = Shorter(v)
  PROVE  /\ \A j \in Of(w, g) : /\ j \in Nat /\ j + 1 \in Of(v, g) /\ w.up[j] = v.up[j + 1]
                                /\ Nth(w, j) = Nth(v, j + 1)
         /\ \A j \in Of(v, g) : /\ j \in Nat \ {0}
                                /\ j = 1 \/ (j - 1 \in Of(w, g) /\ (j - 1) + 1 = j
                                               /\ Nth(w, j - 1) = Nth(v, j))
<1> DEFINE m == Len(v.up)
<1>1. /\ m \in Nat \ {0} /\ Len(w.up) = m - 1
      /\ \A j \in 1 .. m - 1 : w.up[j] = v.up[j + 1]
  BY ShorterIs
<1>2. ASSUME NEW j \in Of(w, g)
      PROVE  j \in Nat /\ j + 1 \in Of(v, g) /\ w.up[j] = v.up[j + 1]
  <2>1. j \in 1 .. m - 1 /\ w.up[j].type = "AgentData" /\ w.up[j].gen = g
    BY <1>1 DEF Of
  <2>2. w.up[j] = v.up[j + 1] /\ j + 1 \in 1 .. m
    BY <1>1, <2>1
  <2> QED  BY <2>1, <2>2 DEF Of
<1>3. ASSUME NEW j \in Of(v, g), j # 1
      PROVE  j - 1 \in Of(w, g) /\ (j - 1) + 1 = j /\ w.up[j - 1] = v.up[j]
  <2>1. j \in 1 .. m /\ v.up[j].type = "AgentData" /\ v.up[j].gen = g
    BY DEF Of
  <2>2. j - 1 \in 1 .. m - 1 /\ (j - 1) + 1 = j
    BY <1>1, <1>3, <2>1
  <2>3. w.up[j - 1] = v.up[j]
    BY <1>1, <2>2
  <2> QED  BY <1>1, <2>1, <2>2, <2>3 DEF Of
<1>4. \A j \in Of(v, g) : j \in Nat \ {0}
  BY DEF Of
<1> QED  BY <1>2, <1>3, <1>4 DEF Nth

LEMMA ReadOnAnswers ==
  ASSUME NEW v \in Talks, NEW p, NEW g, NEW n \in Nat, Answers(v, p, g, n), v.up # <<>>,
         ~(Head(v.up).type = "AgentData" /\ Head(v.up).gen = g)
  PROVE  Answers(Shorter(v), p, g, n)
<1> DEFINE w == Shorter(v)
<1>0. w = Shorter(v)
  OBVIOUS
<1>1. /\ w.stream = v.stream /\ w.open = v.open /\ w.gen = v.gen
      /\ w.sent = v.sent /\ Head(v.up) = v.up[1]
  BY ShorterIs
<1>2. \A j \in Of(w, g) : /\ j \in Nat /\ j + 1 \in Of(v, g) /\ w.up[j] = v.up[j + 1]
                           /\ Nth(w, j) = Nth(v, j + 1)
  BY ShorterOf
<1>3. ASSUME NEW j \in Of(v, g)
      PROVE  j - 1 \in Of(w, g) /\ (j - 1) + 1 = j /\ j \in Nat /\ Nth(w, j - 1) = Nth(v, j)
  <2>1. j # 1
    BY <1>1 DEF Of
  <2> HIDE DEF w
  <2> QED  BY <1>0, <2>1, ShorterOf
<1> HIDE DEF w
<1>5. RepliesFollow(w, p, g, n)
  <2>1. ASSUME NEW j \in Of(w, g)
        PROVE  /\ w.up[j].byte.to = p /\ Nth(w, j) > n
               /\ Nth(w, j) = n + 1 \/ \E i \in Of(w, g) : i < j /\ Nth(w, i) + 1 = Nth(w, j)
               /\ \A i \in Of(w, g) : i < j => Nth(w, i) < Nth(w, j)
    <3>1. /\ v.up[j + 1].byte.to = p /\ Nth(v, j + 1) > n
          /\ \/ Nth(v, j + 1) = n + 1
             \/ \E i \in Of(v, g) : i < j + 1 /\ Nth(v, i) + 1 = Nth(v, j + 1)
          /\ \A i \in Of(v, g) : i < j + 1 => Nth(v, i) < Nth(v, j + 1)
      BY <1>2 DEF Answers, RepliesFollow
    <3>2. ASSUME NEW i \in Of(v, g), i < j + 1, Nth(v, i) + 1 = Nth(v, j + 1)
          PROVE  i - 1 \in Of(w, g) /\ i - 1 < j /\ Nth(w, i - 1) + 1 = Nth(w, j)
      <4>1. i - 1 \in Of(w, g) /\ i \in Nat /\ j \in Nat
        BY <1>2, <1>3
      <4>2. i - 1 < j
        BY <3>2, <4>1
      <4> QED  BY <1>2, <1>3, <3>2, <4>1, <4>2
    <3>3. ASSUME NEW i \in Of(w, g), i < j
          PROVE  Nth(w, i) < Nth(w, j)
      <4>1. i + 1 \in Of(v, g) /\ i + 1 < j + 1
        BY <1>2, <3>3
      <4> QED  BY <1>2, <3>1, <4>1
    <3> QED  BY <1>2, <3>1, <3>2, <3>3
  <2> QED  BY <2>1 DEF RepliesFollow
<1>6. SentIsTheLast(w, g, n)
  BY <1>1, <1>2, <1>3 DEF Answers, SentIsTheLast
<1>7. OpensTell(w, p, g, n)
  BY <1>1 DEF Answers, OpensTell
<1> QED  BY <1>5, <1>6, <1>7 DEF Answers, w

LEMMA NextReplyAnswers ==
  ASSUME NEW v \in Talks, NEW p, NEW g, NEW n \in Nat, Answers(v, p, g, n), v.up # <<>>,
         Head(v.up).type = "AgentData", Head(v.up).gen = g,
         \A i \in 1 .. Len(v.stream) :
           ~(v.stream[i].type = "AgentOpen" /\ v.stream[i].gen = g)
  PROVE  /\ Head(v.up).byte = [to |-> p, nth |-> n + 1]
         /\ Answers(Shorter(v), p, g, n + 1)
<1> DEFINE w == Shorter(v)
<1>0. w = Shorter(v)
  OBVIOUS
<1>1. /\ w.stream = v.stream /\ w.open = v.open /\ w.gen = v.gen
      /\ w.sent = v.sent /\ Head(v.up) = v.up[1] /\ Len(v.up) \in Nat \ {0}
      /\ v.sent \in Nat
  BY ShorterIs DEF Talks
<1> HIDE DEF w
<1>2. /\ \A j \in Of(w, g) : /\ j \in Nat /\ j + 1 \in Of(v, g) /\ w.up[j] = v.up[j + 1]
                             /\ Nth(w, j) = Nth(v, j + 1)
      /\ \A j \in Of(v, g) : /\ j \in Nat \ {0}
                             /\ j = 1 \/ (j - 1 \in Of(w, g) /\ (j - 1) + 1 = j
                                            /\ Nth(w, j - 1) = Nth(v, j))
  BY <1>0, ShorterOf
<1>3. 1 \in Of(v, g)
  BY <1>1 DEF Of
<1>4. \A j \in Of(v, g) : Nth(v, j) \in Nat /\ j \in Nat \ {0}
  BY <1>2, RepliesOnTheirWay
<1>5. Nth(v, 1) = n + 1 /\ v.up[1].byte.to = p
  <2>1. /\ v.up[1].byte.to = p
        /\ Nth(v, 1) = n + 1 \/ \E i \in Of(v, g) : i < 1
    BY <1>3 DEF Answers, RepliesFollow
  <2>2. \A i \in Of(v, g) : ~(i < 1)
    BY <1>4
  <2> QED  BY <2>1, <2>2
<1>6. v.up[1].byte = [to |-> p, nth |-> n + 1]
  <2>1. v.up[1].byte \in Byte
    BY <1>3, RepliesOnTheirWay
  <2> QED  BY <1>5, <2>1 DEF Byte, Nth
<1>7. \A j \in Of(w, g) : Nth(v, j + 1) > n + 1
  <2> TAKE j \in Of(w, g)
  <2>1. j + 1 \in Of(v, g) /\ 1 < j + 1
    <3>1. j \in Nat /\ j + 1 \in Of(v, g) /\ j # 0
      BY <1>2 DEF Of
    <3> QED  BY <3>1
  <2>2. Nth(v, 1) < Nth(v, j + 1)
    BY <1>3, <2>1 DEF Answers, RepliesFollow
  <2> QED  BY <1>4, <1>5, <2>1, <2>2
<1>8. RepliesFollow(w, p, g, n + 1)
  <2>1. ASSUME NEW j \in Of(w, g)
        PROVE  /\ w.up[j].byte.to = p /\ Nth(w, j) > n + 1
               /\ Nth(w, j) = n + 1 + 1 \/ \E i \in Of(w, g) : i < j /\ Nth(w, i) + 1 = Nth(w, j)
               /\ \A i \in Of(w, g) : i < j => Nth(w, i) < Nth(w, j)
    <3>1. /\ v.up[j + 1].byte.to = p /\ Nth(v, j + 1) > n + 1
          /\ \/ Nth(v, j + 1) = n + 1
             \/ \E i \in Of(v, g) : i < j + 1 /\ Nth(v, i) + 1 = Nth(v, j + 1)
          /\ \A i \in Of(v, g) : i < j + 1 => Nth(v, i) < Nth(v, j + 1)
      BY <1>2, <1>7 DEF Answers, RepliesFollow
    <3>2. PICK i \in Of(v, g) : i < j + 1 /\ Nth(v, i) + 1 = Nth(v, j + 1)
      <4>1. Nth(v, j + 1) # n + 1
        <5>1. Nth(v, j + 1) \in Nat /\ Nth(v, j + 1) > n + 1
          BY <1>2, <1>4, <3>1
        <5> QED  BY <5>1
      <4> QED  BY <3>1, <4>1
    <3>3. Nth(w, j) = n + 1 + 1 \/ \E k \in Of(w, g) : k < j /\ Nth(w, k) + 1 = Nth(w, j)
      <4>1. CASE i = 1
        BY <1>2, <1>5, <3>2, <4>1
      <4>2. CASE i # 1
        <5>1. i - 1 \in Of(w, g) /\ i \in Nat /\ j \in Nat /\ Nth(w, i - 1) = Nth(v, i)
          BY <1>2, <4>2
        <5>2. i - 1 < j
          BY <3>2, <5>1
        <5>3. Nth(w, i - 1) + 1 = Nth(w, j)
          BY <1>2, <3>2, <5>1
        <5> QED  BY <5>1, <5>2, <5>3
      <4> QED  BY <4>1, <4>2
    <3>4. ASSUME NEW k \in Of(w, g), k < j
          PROVE  Nth(w, k) < Nth(w, j)
      <4>1. k + 1 \in Of(v, g) /\ k + 1 < j + 1
        BY <1>2, <3>4
      <4> QED  BY <1>2, <3>1, <4>1
    <3> QED  BY <1>2, <3>1, <3>3, <3>4
  <2> QED  BY <2>1 DEF RepliesFollow
<1>9. SentIsTheLast(w, g, n + 1)
  <2> SUFFICES ASSUME v.gen = g
               PROVE  /\ n + 1 <= v.sent
                      /\ v.sent = n + 1 \/ \E j \in Of(w, g) : Nth(w, j) = v.sent
                      /\ \A j \in Of(w, g) : Nth(w, j) <= v.sent
    BY <1>1 DEF SentIsTheLast
  <2>1. /\ v.sent = n \/ \E j \in Of(v, g) : Nth(v, j) = v.sent
        /\ \A j \in Of(v, g) : Nth(v, j) <= v.sent
    BY DEF Answers, SentIsTheLast
  <2>2. n + 1 <= v.sent
    BY <1>3, <1>5, <2>1
  <2>3. PICK j \in Of(v, g) : Nth(v, j) = v.sent
    BY <1>1, <2>1, <2>2
  <2>4. v.sent = n + 1 \/ \E k \in Of(w, g) : Nth(w, k) = v.sent
    BY <1>2, <1>5, <2>3
  <2>5. \A k \in Of(w, g) : Nth(w, k) <= v.sent
    BY <1>2, <2>1
  <2> QED  BY <2>2, <2>4, <2>5
<1>10. OpensTell(w, p, g, n + 1)
  BY <1>1 DEF Answers, OpensTell
<1> QED  BY <1>1, <1>6, <1>8, <1>9, <1>10 DEF Answers, w

(* The client answers.                                                      *)
LEMMA ReplyAnswers ==
  ASSUME NEW v \in Talks, NEW w \in Talks, NEW f \in ClientFrame, NEW p, NEW g, NEW n \in Nat,
         Answers(v, p, g, n), v.open # NoPeer, f.type = "AgentData", f.gen = v.gen,
         f.byte = [to |-> v.open, nth |-> v.sent + 1],
         w.stream = v.stream, w.open = v.open, w.gen = v.gen, w.up = Append(v.up, f),
         w.sent = v.sent + 1
  PROVE  Answers(w, p, g, n)
<1> DEFINE m == Len(v.up)
<1>1. /\ m \in Nat /\ Len(w.up) = m + 1 /\ w.up[m + 1] = f
      /\ \A j \in 1 .. m : w.up[j] = v.up[j]
      /\ \A j \in 1 .. m + 1 : j \in 1 .. m \/ j = m + 1
      /\ 1 .. m \subseteq 1 .. m + 1 /\ m + 1 \in 1 .. m + 1
  BY SpokenIs
<1>2. v.sent \in Nat /\ \A j \in Of(v, g) : Nth(v, j) \in Nat /\ j \in Nat /\ j < m + 1
  <2>1. ASSUME NEW j \in Of(v, g)
        PROVE  Nth(v, j) \in Nat /\ j \in Nat /\ j < m + 1
    <3>1. Nth(v, j) \in Nat /\ j \in 1 .. m
      BY RepliesOnTheirWay
    <3> QED  BY <1>1, <3>1
  <2> QED  BY <2>1 DEF Talks
<1>3. \A j \in Of(v, g) : j \in Of(w, g) /\ w.up[j] = v.up[j] /\ Nth(w, j) = Nth(v, j)
  BY <1>1 DEF Of, Nth
<1>4. /\ v.gen # g => Of(w, g) = Of(v, g)
      /\ v.gen = g => Of(w, g) = Of(v, g) \cup {m + 1}
  BY <1>1 DEF Of
<1>5. Nth(w, m + 1) = v.sent + 1
  BY <1>1 DEF Nth
<1>6. OpensTell(w, p, g, n)
  BY DEF Answers, OpensTell
<1>7. CASE v.gen # g
  <2>1. Of(w, g) = Of(v, g) /\ RepliesFollow(v, p, g, n)
    BY <1>4, <1>7 DEF Answers
  <2>2. RepliesFollow(w, p, g, n)
    BY <1>3, <2>1, FollowsOn
  <2>3. SentIsTheLast(w, g, n)
    BY <1>7 DEF SentIsTheLast
  <2> QED  BY <1>6, <2>2, <2>3 DEF Answers
<1>8. CASE v.gen = g
  <2>1. /\ n <= v.sent /\ (v.sent = n \/ \E j \in Of(v, g) : Nth(v, j) = v.sent)
        /\ \A j \in Of(v, g) : Nth(v, j) <= v.sent
    BY <1>8 DEF Answers, SentIsTheLast
  <2>2. v.open = p
    BY <1>8 DEF Answers, OpensTell
  <2>3. ASSUME NEW j \in Of(v, g)
        PROVE  /\ w.up[j].byte.to = p /\ Nth(w, j) > n
               /\ Nth(w, j) = n + 1 \/ \E i \in Of(w, g) : i < j /\ Nth(w, i) + 1 = Nth(w, j)
               /\ \A i \in Of(w, g) : i < j => Nth(w, i) < Nth(w, j)
    <3>1. /\ v.up[j].byte.to = p /\ Nth(v, j) > n
          /\ Nth(v, j) = n + 1 \/ \E i \in Of(v, g) : i < j /\ Nth(v, i) + 1 = Nth(v, j)
          /\ \A i \in Of(v, g) : i < j => Nth(v, i) < Nth(v, j)
      BY DEF Answers, RepliesFollow
    <3>2. \A i \in Of(w, g) : i < j => i \in Of(v, g)
      <4>1. ~(m + 1 < j)
        BY <1>1, <1>2
      <4> QED  BY <1>4, <1>8, <4>1
    <3> QED  BY <1>3, <3>1, <3>2
  <2>4. /\ w.up[m + 1].byte.to = p /\ Nth(w, m + 1) > n
        /\ \/ Nth(w, m + 1) = n + 1
           \/ \E i \in Of(w, g) : i < m + 1 /\ Nth(w, i) + 1 = Nth(w, m + 1)
        /\ \A i \in Of(w, g) : i < m + 1 => Nth(w, i) < Nth(w, m + 1)
    <3>1. w.up[m + 1].byte.to = p
      BY <1>1, <2>2
    <3>2. Nth(w, m + 1) > n
      BY <1>2, <1>5, <2>1
    <3>3. \/ Nth(w, m + 1) = n + 1
          \/ \E i \in Of(w, g) : i < m + 1 /\ Nth(w, i) + 1 = Nth(w, m + 1)
      BY <1>2, <1>3, <1>5, <2>1
    <3>4. \A i \in Of(w, g) : i < m + 1 => Nth(w, i) < Nth(w, m + 1)
      <4> TAKE i \in Of(w, g)
      <4> HAVE i < m + 1
      <4>1. i \in Of(v, g)
        <5>1. ~(m + 1 < m + 1)
          BY <1>1
        <5> QED  BY <1>4, <1>8, <5>1
      <4>2. Nth(v, i) \in Nat /\ Nth(v, i) <= v.sent /\ Nth(w, i) = Nth(v, i)
        BY <1>2, <1>3, <2>1, <4>1
      <4> QED  BY <1>2, <1>5, <4>2
    <3> QED  BY <3>1, <3>2, <3>3, <3>4
  <2>5. RepliesFollow(w, p, g, n)
    <3>1. ASSUME NEW j \in Of(w, g)
          PROVE  /\ w.up[j].byte.to = p /\ Nth(w, j) > n
                 /\ Nth(w, j) = n + 1 \/ \E i \in Of(w, g) : i < j /\ Nth(w, i) + 1 = Nth(w, j)
                 /\ \A i \in Of(w, g) : i < j => Nth(w, i) < Nth(w, j)
      <4>1. CASE j = m + 1
        BY ONLY <2>4, <4>1
      <4>2. CASE j \in Of(v, g)
        BY ONLY <2>3, <4>2
      <4> QED  BY <1>4, <1>8, <4>1, <4>2
    <3> QED  BY ONLY <3>1 DEF RepliesFollow
  <2>6. SentIsTheLast(w, g, n)
    <3>1. n <= w.sent /\ m + 1 \in Of(w, g) /\ Nth(w, m + 1) = w.sent
      BY <1>2, <1>4, <1>5, <1>8, <2>1
    <3>2. \A j \in Of(w, g) : Nth(w, j) <= w.sent
      <4> TAKE j \in Of(w, g)
      <4>1. CASE j = m + 1
        BY <1>2, <1>5, <4>1
      <4>2. CASE j \in Of(v, g)
        <5>1. Nth(v, j) \in Nat /\ Nth(v, j) <= v.sent /\ Nth(w, j) = Nth(v, j)
          BY <1>2, <1>3, <2>1, <4>2
        <5> QED  BY <1>2, <5>1
      <4> QED  BY <1>4, <1>8, <4>1, <4>2
    <3> QED  BY <3>1, <3>2 DEF SentIsTheLast
  <2> QED  BY <1>6, <2>5, <2>6 DEF Answers
<1> QED  BY <1>7, <1>8

(* The client closes its end, or says it leaves.                            *)
LEMMA NoReplyAnswers ==
  ASSUME NEW v \in Talks, NEW w \in Talks, NEW f \in ClientFrame, NEW p, NEW g, NEW n \in Nat,
         Answers(v, p, g, n), f.type # "AgentData",
         w.stream = v.stream, w.open \in {v.open, NoPeer}, w.gen = v.gen,
         w.up = Append(v.up, f), w.sent = v.sent
  PROVE  Answers(w, p, g, n)
<1> DEFINE m == Len(v.up)
<1>1. /\ m \in Nat /\ Len(w.up) = m + 1 /\ w.up[m + 1] = f
      /\ \A j \in 1 .. m : w.up[j] = v.up[j]
      /\ \A j \in 1 .. m + 1 : j \in 1 .. m \/ j = m + 1
      /\ 1 .. m \subseteq 1 .. m + 1
  BY SpokenIs
<1>2. Of(w, g) = Of(v, g) /\ \A j \in Of(v, g) : w.up[j] = v.up[j] /\ Nth(w, j) = Nth(v, j)
  BY <1>1 DEF Of, Nth
<1>3. OpensTell(w, p, g, n)
  BY DEF Answers, OpensTell
<1>4. RepliesFollow(w, p, g, n)
  <2>1. RepliesFollow(v, p, g, n)
    BY DEF Answers
  <2> QED  BY <1>2, <2>1, FollowsOn
<1>5. SentIsTheLast(w, g, n)
  BY <1>2 DEF Answers, SentIsTheLast
<1> QED  BY <1>3, <1>4, <1>5 DEF Answers

LEMMA HearsAnswers ==
  ASSUME NEW v \in Talks, NEW w, NEW p, NEW g, NEW n \in Nat,
         Answers(v, p, g, n), News(v), v.stream # <<>>, HeardBy(v, w)
  PROVE  Answers(w, p, g, n)
<1> DEFINE s == v.stream
           t == w.stream
           k == Len(s)
           f == s[1]
<1>1. /\ k \in Nat \ {0} /\ Len(t) = k - 1
      /\ \A i \in 1 .. k - 1 : i + 1 \in 1 .. k /\ t[i] = s[i + 1]
  BY HeardIs DEF HeardBy
<1>2. /\ w.up = v.up
      /\ w.open = IF f.type = "AgentOpen" THEN f.byte.to
                  ELSE IF f.type = "AgentClose" /\ f.gen = v.gen THEN NoPeer ELSE v.open
      /\ w.gen = IF f.type = "AgentOpen" THEN f.gen ELSE v.gen
      /\ w.sent = IF f.type = "AgentOpen" THEN 0 ELSE v.sent
  BY DEF HeardBy
<1>3. 1 \in 1 .. k
  BY <1>1
<1>4. OpensTell(w, p, g, n)
  <2>1. \A i \in 1 .. Len(t) :
          t[i].type = "AgentOpen" /\ t[i].gen = g => t[i].byte.to = p /\ n = 0
    BY SMTT(30), <1>1 DEF Answers, OpensTell
  <2>2. w.gen = g /\ w.open # NoPeer => w.open = p
    BY <1>2, <1>3 DEF Answers, OpensTell
  <2> QED  BY <2>1, <2>2 DEF OpensTell
<1>5. RepliesFollow(w, p, g, n)
  <2>1. RepliesFollow(v, p, g, n)
    BY DEF Answers
  <2> QED  BY <1>2, <2>1, AnswersSameUp
<1>6. SentIsTheLast(w, g, n)
  <2>1. CASE f.type # "AgentOpen"
    BY <1>2, <2>1, AnswersSameUp DEF Answers
  <2>2. CASE f.type = "AgentOpen" /\ f.gen # g
    BY <1>2, <2>2 DEF SentIsTheLast
  <2>3. CASE f.type = "AgentOpen" /\ f.gen = g
    <3>1. n = 0 /\ w.sent = 0
      BY <1>2, <1>3, <2>3 DEF Answers, OpensTell
    <3>2. Of(w, g) = {}
      BY <1>2, <1>3, <2>3 DEF News, Of, OfChannel
    <3> QED  BY <3>1, <3>2 DEF SentIsTheLast
  <2> QED  BY <2>1, <2>2, <2>3
<1> QED  BY <1>4, <1>5, <1>6 DEF Answers

-----------------------------------------------------------------------------
(* What a move does to the talk *)

LEMMA TalkIs ==
  ASSUME NEW k \in Attachment
  PROVE  /\ Talk(k) \in Talks /\ Talk(k).stream = k.down \o k.tx /\ Talk(k).up = k.up
         /\ Talk(k).open = k.open /\ Talk(k).gen = k.gen /\ Talk(k).sent = k.sent
<1>1. k.down \o k.tx \in Seq(ServerFrame)
  BY ConcatProperties DEF Attachment
<1> QED  BY <1>1 DEF Talk, Talks, Attachment

LEMMA AppendLast ==
  ASSUME NEW s \in Seq(ServerFrame), NEW t \in Seq(ServerFrame), NEW f \in ServerFrame
  PROVE  s \o Append(t, f) = Append(s \o t, f)
OBVIOUS

LEMMA TalkChanges ==
  ASSUME NEW s, NEW u, NEW o, NEW g, NEW n, NEW x
  PROVE  LET r == [stream |-> s, up |-> u, open |-> o, gen |-> g, sent |-> n] IN
         /\ [r EXCEPT !.stream = x] = [stream |-> x, up |-> u, open |-> o, gen |-> g, sent |-> n]
         /\ [r EXCEPT !.up = x] = [stream |-> s, up |-> x, open |-> o, gen |-> g, sent |-> n]
         /\ r.stream = s /\ r.up = u
OBVIOUS

LEMMA SaysTalk ==
  ASSUME NEW k \in Attachment, NEW f \in ServerFrame
  PROVE  Talk([k EXCEPT !.tx = Append(@, f)]) = Appended(Talk(k), f)
<1>1. k.down \in Seq(ServerFrame) /\ k.tx \in Seq(ServerFrame)
  BY DEF Attachment
<1>2. k.down \o Append(k.tx, f) = Append(k.down \o k.tx, f)
  BY <1>1, AppendLast
<1> DEFINE l == [k EXCEPT !.tx = Append(@, f)]
<1>3. /\ l.down = k.down /\ l.tx = Append(k.tx, f) /\ l.up = k.up /\ l.open = k.open
      /\ l.gen = k.gen /\ l.sent = k.sent
  BY DEF Attachment
<1> HIDE DEF l
<1>4. Talk(l) = [stream |-> Append(k.down \o k.tx, f), up |-> k.up, open |-> k.open,
                 gen |-> k.gen, sent |-> k.sent]
  BY <1>2, <1>3 DEF Talk
<1>5. Appended(Talk(k), f) = [Talk(k) EXCEPT !.stream = Append(k.down \o k.tx, f)]
  BY TalkIs DEF Appended
<1> QED  BY <1>4, <1>5, TalkChanges DEF Talk, l

LEMMA DecodedTalk ==
  ASSUME NEW k \in Attachment
  PROVE  Talk(Decoded(k)) = Shorter(Talk(k)) /\ Talk(k).up = k.up
<1> DEFINE l == Decoded(k)
<1>1. /\ l.down = k.down /\ l.tx = k.tx /\ l.up = Tail(k.up) /\ l.open = k.open
      /\ l.gen = k.gen /\ l.sent = k.sent
  BY DEF Attachment, Decoded
<1> HIDE DEF l
<1>2. Talk(l) = [stream |-> k.down \o k.tx, up |-> Tail(k.up), open |-> k.open,
                 gen |-> k.gen, sent |-> k.sent]
  BY <1>1 DEF Talk
<1>3. Shorter(Talk(k)) = [Talk(k) EXCEPT !.up = Tail(k.up)]
  BY TalkIs DEF Shorter
<1> QED  BY <1>2, <1>3, TalkIs, TalkChanges DEF Talk, l

LEMMA SameTalks ==
  ASSUME NEW k, NEW l, SameTalk(k, l)
  PROVE  Talk(l) = Talk(k)
BY DEF SameTalk, Talk

LEMMA TailFirst ==
  ASSUME NEW s \in Seq(ServerFrame), NEW t \in Seq(ServerFrame), s # <<>>
  PROVE  Tail(s \o t) = Tail(s) \o t /\ (s \o t)[1] = Head(s) /\ s \o t # <<>>
<1> DEFINE u == s \o t
<1>1. /\ u \in Seq(ServerFrame) /\ Len(u) = Len(s) + Len(t)
      /\ \A i \in 1 .. Len(s) + Len(t) : u[i] = IF i <= Len(s) THEN s[i] ELSE t[i - Len(s)]
      /\ Len(s) \in Nat /\ Len(s) # 0 /\ Len(t) \in Nat
  BY ConcatProperties, LenProperties, EmptySeq
<1>2. /\ Tail(s) \in Seq(ServerFrame) /\ Len(Tail(s)) = Len(s) - 1 /\ Head(s) = s[1]
      /\ \A i \in 1 .. Len(Tail(s)) : Tail(s)[i] = s[i + 1]
  BY HeadTailProperties
<1> HIDE DEF u
<1>3. u # <<>>
  BY <1>1, EmptySeq
<1>4. /\ Tail(u) \in Seq(ServerFrame) /\ Len(Tail(u)) = Len(u) - 1
      /\ \A i \in 1 .. Len(Tail(u)) : Tail(u)[i] = u[i + 1]
  BY <1>1, <1>3, HeadTailProperties
<1>5. /\ Tail(s) \o t \in Seq(ServerFrame) /\ Len(Tail(s) \o t) = Len(Tail(s)) + Len(t)
      /\ \A i \in 1 .. Len(Tail(s)) + Len(t) :
           (Tail(s) \o t)[i] = IF i <= Len(Tail(s)) THEN Tail(s)[i] ELSE t[i - Len(Tail(s))]
  BY <1>2, ConcatProperties
<1> DEFINE a == Len(s)
           b == Len(t)
<1>6. /\ a \in Nat \ {0} /\ b \in Nat /\ Len(u) = a + b /\ Len(Tail(u)) = (a + b) - 1
      /\ Len(Tail(s)) = a - 1 /\ Len(Tail(s) \o t) = (a - 1) + b
  BY <1>1, <1>2, <1>4, <1>5
<1> HIDE DEF a, b
<1>7. Len(Tail(u)) = Len(Tail(s) \o t)
  BY <1>6
<1>8. ASSUME NEW i \in 1 .. Len(Tail(u))
      PROVE  Tail(u)[i] = (Tail(s) \o t)[i]
  <2>1. i \in 1 .. (a + b) - 1 /\ i + 1 \in 1 .. a + b /\ i \in 1 .. (a - 1) + b
    BY <1>6
  <2>2. u[i + 1] = IF i + 1 <= a THEN s[i + 1] ELSE t[(i + 1) - a]
    BY <1>1, <2>1 DEF a, b
  <2>3. (Tail(s) \o t)[i] = IF i <= a - 1 THEN Tail(s)[i] ELSE t[i - (a - 1)]
    BY <1>5, <1>6, <2>1 DEF b
  <2>4. (i + 1) - a = i - (a - 1) /\ (i + 1 <= a <=> i <= a - 1) /\ i \in Nat \ {0}
    BY <1>6, <2>1
  <2>5. i <= a - 1 => Tail(s)[i] = s[i + 1]
    BY <1>2, <1>6, <2>4
  <2> QED  BY <1>4, <2>2, <2>3, <2>4, <2>5
<1>9. Tail(u) = Tail(s) \o t
  BY <1>4, <1>5, <1>7, <1>8, SeqEqual
<1>10. u[1] = s[1]
  BY <1>1
<1> QED  BY <1>2, <1>3, <1>9, <1>10 DEF u

LEMMA HearsTalk ==
  ASSUME ClientSide, client.down # <<>>, client' = Hears(Head(client.down))
  PROVE  HeardBy(Talk(client), Talk(client')) /\ Talk(client).stream # <<>>
<1> DEFINE f == Head(client.down)
           l == Hears(f)
<1>1. client \in Attachment /\ client.down \in Seq(ServerFrame) /\ client.tx \in Seq(ServerFrame)
  BY DEF ClientSide, Attachment
<1>2. /\ Tail(client.down \o client.tx) = Tail(client.down) \o client.tx
      /\ (client.down \o client.tx)[1] = f /\ client.down \o client.tx # <<>>
  BY <1>1, TailFirst
<1>3. /\ l.down = Tail(client.down) /\ l.tx = client.tx /\ l.up = client.up
      /\ l.open = IF f.type = "AgentOpen" THEN f.byte.to
                  ELSE IF f.type = "AgentClose" /\ f.gen = client.gen THEN NoPeer ELSE client.open
      /\ l.gen = IF f.type = "AgentOpen" THEN f.gen ELSE client.gen
      /\ l.sent = IF f.type = "AgentOpen" THEN 0 ELSE client.sent
  BY <1>1 DEF Hears, Attachment
<1> HIDE DEF l, f
<1>4. client' = l
  BY DEF l, f
<1>5. Talk(client).stream[1] = f
  BY <1>2 DEF Talk
<1> QED  BY <1>2, <1>3, <1>4, <1>5 DEF HeardBy, Talk

(* The client's answer, its close, and its leave.                           *)
Answering(v, w, f) ==
  /\ v.open # NoPeer /\ f.type = "AgentData" /\ f.gen = v.gen
  /\ f.byte = [to |-> v.open, nth |-> v.sent + 1]
  /\ w.open = v.open /\ w.sent = v.sent + 1
Ending(v, w, f) ==
  /\ v.open # NoPeer /\ f.type = "AgentClose" /\ f.gen = v.gen
  /\ w.open = NoPeer /\ w.sent = v.sent
Parting(v, w, f) == f.type = "Detach" /\ w.open = v.open /\ w.sent = v.sent
Speech(v, w) ==
  \E f \in ClientFrame :
    /\ w.stream = v.stream /\ w.up = Append(v.up, f) /\ w.gen = v.gen
    /\ Answering(v, w, f) \/ Ending(v, w, f) \/ Parting(v, w, f)

LEMMA SpeaksTalk ==
  ASSUME Base, Base', ClientReplies \/ ClientCloses \/ ClientDetaches
  PROVE  /\ Speech(Talk(client), Talk(client')) /\ Attached' = Attached
         /\ Talk(client).open # NoPeer => Talk(client).gen \in Generations
<1>1. client \in Attachment /\ client' \in Attachment /\ (client.open # NoPeer => client.gen # Wrap)
  BY DEF Base, TypeOK
<1>2. client.open # NoPeer => client.gen \in Generations
  <2>1. client.gen \in 0 .. Wrap /\ Wrap \in Nat
    BY <1>1, AgentAssumption DEF Attachment
  <2> QED  BY <1>1, <2>1 DEF Generations
<1> DEFINE v == Talk(client)
           w == Talk(client')
<1>3. /\ v.stream = client.down \o client.tx /\ v.up = client.up
      /\ v.open = client.open /\ v.gen = client.gen /\ v.sent = client.sent
      /\ w.stream = client'.down \o client'.tx /\ w.up = client'.up
      /\ w.open = client'.open /\ w.gen = client'.gen /\ w.sent = client'.sent
  BY <1>1, TalkIs
<1> HIDE DEF v, w
<1>4. CASE ClientReplies
  <2> DEFINE b == [to |-> client.open, nth |-> client.sent + 1]
             f == [F("AgentData", client.gen) EXCEPT !.byte = b]
  <2>1. client' = [client EXCEPT !.sent = @ + 1, !.up = Append(@, f)] /\ client.open # NoPeer
    BY <1>4 DEF ClientReplies, ClientMoves
  <2>2. f \in ClientFrame
    <3>1. b \in Byte
      BY <1>1, <2>1 DEF Byte, Attachment
    <3> QED  BY <1>2, <2>1, <3>1, FramesAre
  <2>3. f.type = "AgentData" /\ f.gen = client.gen /\ f.byte = b
    BY DEF F
  <2> HIDE DEF f
  <2>4. /\ client'.up = Append(client.up, f) /\ client'.open = client.open
        /\ client'.sent = client.sent + 1 /\ client'.down = client.down
        /\ client'.tx = client.tx /\ client'.gen = client.gen /\ client'.on = client.on
    BY <1>1, <2>1 DEF Attachment
  <2>5. Answering(v, w, f)
    BY <1>3, <2>1, <2>3, <2>4 DEF Answering
  <2>6. Speech(v, w)
    BY <1>3, <2>2, <2>4, <2>5 DEF Speech
  <2> QED  BY <1>2, <1>3, <2>4, <2>6 DEF v, w, Attached
<1>5. CASE ClientCloses
  <2> DEFINE f == F("AgentClose", client.gen)
  <2>1. client' = [client EXCEPT !.open = NoPeer, !.up = Append(@, f)] /\ client.open # NoPeer
    BY <1>5 DEF ClientCloses, ClientMoves
  <2>2. f \in ClientFrame
    BY <1>2, <2>1, FramesAre
  <2>3. f.type = "AgentClose" /\ f.gen = client.gen
    BY DEF F
  <2> HIDE DEF f
  <2>4. /\ client'.up = Append(client.up, f) /\ client'.open = NoPeer
        /\ client'.sent = client.sent /\ client'.down = client.down
        /\ client'.tx = client.tx /\ client'.gen = client.gen /\ client'.on = client.on
    BY <1>1, <2>1 DEF Attachment
  <2>5. Ending(v, w, f)
    BY <1>3, <2>1, <2>3, <2>4 DEF Ending
  <2>6. Speech(v, w)
    BY <1>3, <2>2, <2>4, <2>5 DEF Speech
  <2> QED  BY <1>2, <1>3, <2>4, <2>6 DEF v, w, Attached
<1>6. CASE ClientDetaches
  <2> DEFINE f == F("Detach", 0)
  <2>1. client' = [client EXCEPT !.up = Append(@, f)]
    BY <1>6 DEF ClientDetaches, ClientMoves
  <2>2. f \in ClientFrame
    BY FramesAre, ChannelsAre
  <2>3. f.type = "Detach"
    BY DEF F
  <2> HIDE DEF f
  <2>4. /\ client'.up = Append(client.up, f) /\ client'.open = client.open
        /\ client'.sent = client.sent /\ client'.down = client.down
        /\ client'.tx = client.tx /\ client'.gen = client.gen /\ client'.on = client.on
    BY <1>1, <2>1 DEF Attachment
  <2>5. Parting(v, w, f)
    BY <1>3, <2>3, <2>4 DEF Parting
  <2>6. Speech(v, w)
    BY <1>3, <2>2, <2>4, <2>5 DEF Speech
  <2> QED  BY <1>2, <1>3, <2>4, <2>6 DEF v, w, Attached
<1> QED  BY <1>4, <1>5, <1>6

(* What is said in a move.                                                  *)
SaidIn(v, w) ==
  \/ w = v /\ (Rests \/ EndsUnheard \/ \E p \in Peers : Comes(p))
  \/ w = Appended(v, F("AgentData", chan.gen)) /\ Tells
  \/ w = Appended(v, F("AgentClose", chan.gen)) /\ TellsTheEnd
  \/ Leaves /\ \E n \in 0 .. MaxClients, on \in BOOLEAN : w = Talk(Client(n, on))
  \/ (Drops \/ Delivers \/ Closes) /\ w = Shorter(v)
  \/ Overflows /\ w = Appended(Shorter(v), F("AgentClose", chan.gen))
  \/ \E p \in Peers : LetsIn(p) /\ w = Appended(v, Open(p))
  \/ Speaks /\ v.stream # <<>> /\ HeardBy(v, w)
  \/ Speaks /\ Speech(v, w)

LEMMA MovesTalk ==
  ASSUME Base, Base', Moves
  PROVE  /\ Talk(client) \in Talks /\ Talk(client') \in Talks
         /\ Talk(client).up = client.up /\ chan.gen \in Generations /\ nextGen \in Generations
         /\ \A p \in Peers : /\ Open(p) \in ServerFrame /\ Open(p).type = "AgentOpen"
                             /\ Open(p).gen = nextGen /\ Open(p).byte.to = p
         /\ SaidIn(Talk(client), Talk(client'))
<1>1. /\ client \in Attachment /\ client' \in Attachment /\ chan.gen \in Generations
      /\ nextGen \in Generations /\ ClientSide
  BY BaseIs DEF Base, TypeOK, Channel
<1> DEFINE v == Talk(client)
           w == Talk(client')
<1>2. v \in Talks /\ w \in Talks /\ v.up = client.up
  BY <1>1, TalkIs
<1>3. ASSUME NEW p \in Peers
      PROVE  /\ Open(p) \in ServerFrame /\ Open(p).type = "AgentOpen"
             /\ Open(p).gen = nextGen /\ Open(p).byte.to = p
  <2>1. [to |-> p, nth |-> 0] \in Byte
    BY DEF Byte
  <2> QED  BY <1>1, <2>1, FramesAre DEF Open, F
<1>4. F("AgentData", chan.gen) \in ServerFrame /\ F("AgentClose", chan.gen) \in ServerFrame
  BY <1>1, FramesAre
<1>5. \A f \in ServerFrame : client' = Says(f) => w = Appended(v, f)
  BY <1>1, SaysTalk DEF Says
<1>6. client' = Decoded(client) => w = Shorter(v)
  BY <1>1, DecodedTalk
<1>7. client' = client => w = v
  OBVIOUS
<1>8. SameTalk(client, client') => w = v
  BY SameTalks
<1>9. CASE Overflows
  <2> DEFINE k == Decoded(client)
  <2>1. k \in Attachment /\ Talk(k) = Shorter(v)
    BY <1>1, <1>9, DecodedClient, DecodedTalk DEF Overflows, Fits, Decoding
  <2>2. client' = [k EXCEPT !.tx = Append(@, F("AgentClose", chan.gen))]
    BY <1>9 DEF Overflows
  <2> HIDE DEF k
  <2>3. w = Appended(Shorter(v), F("AgentClose", chan.gen))
    BY <1>4, <2>1, <2>2, SaysTalk
  <2> QED  BY <1>1, <1>2, <1>3, <1>9, <2>3 DEF SaidIn
<1>10. CASE Speaks
  <2>1. CASE ClientReads
    <3>1. HeardBy(v, w) /\ v.stream # <<>>
      BY <1>1, <2>1, HearsTalk DEF ClientReads, ClientMoves
    <3> QED  BY <1>1, <1>2, <1>3, <1>10, <3>1 DEF SaidIn
  <2>2. CASE ClientReplies \/ ClientCloses \/ ClientDetaches
    BY <1>1, <1>2, <1>3, <1>10, <2>2, SpeaksTalk DEF SaidIn
  <2> QED  BY <1>10, <2>1, <2>2 DEF Speaks
<1>11. CASE Rests \/ EndsUnheard \/ \E p \in Peers : Comes(p)
  <2>1. w = v
    BY <1>7, <1>8, <1>11 DEF Rests, EndsUnheard, Comes
  <2> QED  BY <1>1, <1>2, <1>3, <1>11, <2>1 DEF SaidIn
<1>12. CASE Tells \/ TellsTheEnd
  <2>1. /\ Tells => w = Appended(v, F("AgentData", chan.gen))
        /\ TellsTheEnd => w = Appended(v, F("AgentClose", chan.gen))
    BY <1>4, <1>5 DEF Tells, TellsTheEnd
  <2> QED  BY <1>1, <1>2, <1>3, <1>12, <2>1 DEF SaidIn
<1>13. CASE Leaves
  <2>1. \E n \in 0 .. MaxClients, on \in BOOLEAN : w = Talk(Client(n, on))
    BY <1>13 DEF Leaves
  <2> QED  BY <1>1, <1>2, <1>3, <1>13, <2>1 DEF SaidIn
<1>14. CASE Drops \/ Delivers \/ Closes
  <2>1. w = Shorter(v)
    BY <1>6, <1>14 DEF Drops, Delivers, Closes
  <2> QED  BY <1>1, <1>2, <1>3, <1>14, <2>1 DEF SaidIn
<1>15. CASE \E p \in Peers : LetsIn(p)
  <2>1. PICK p \in Peers : LetsIn(p)
    BY <1>15
  <2>2. w = Appended(v, Open(p))
    BY <1>3, <1>5, <2>1 DEF LetsIn
  <2> QED  BY <1>1, <1>2, <1>3, <2>1, <2>2 DEF SaidIn
<1> QED  BY <1>9, <1>10, <1>11, <1>12, <1>13, <1>14, <1>15 DEF Moves

-----------------------------------------------------------------------------
(* Generations: what has been named is older than what is next              *)

(* Those who wait are let in in their order, and no more of them wait than  *)
(* there are generations left.                                              *)
InOrder ==
  /\ \A p \in Waiting : nextGen < p
  /\ \A p, q \in Peers : peers[q].pos = "new" /\ peers[p].pos # "new" => p < q

Below(v, x) ==
  /\ v.gen # Wrap => v.gen < x
  /\ \A i \in 1 .. Len(v.stream) : v.stream[i].gen < x
  /\ \A j \in 1 .. Len(v.up) : OfChannel(v.up[j]) => v.up[j].gen < x
PastGens == Waiting # {} =>
  (InUse => chan.gen < nextGen) /\ Below(Talk(client), nextGen)

LEMMA BelowIsFresh ==
  ASSUME NEW v, NEW x \in Generations, Below(v, x)
  PROVE  Fresh(v, x)
<1>1. x \in Nat /\ x # Wrap /\ ~(x < x)
  BY AgentAssumption DEF Generations
<1> QED  BY <1>1 DEF Below, Fresh

LEMMA BelowGrows ==
  ASSUME NEW v \in Talks, NEW x \in Nat, NEW y \in Nat, Below(v, x), x <= y
  PROVE  Below(v, y)
<1>1. v.gen \in Nat
  BY DEF Talks
<1>2. \A i \in 1 .. Len(v.stream) : v.stream[i].gen \in Nat
  <2>1. \A i \in 1 .. Len(v.stream) : v.stream[i] \in ServerFrame
    BY ElementOfSeq DEF Talks
  <2> QED  BY <2>1, AgentAssumption DEF ServerFrame, Generations
<1>3. \A j \in 1 .. Len(v.up) : v.up[j].gen \in Nat
  <2>1. \A j \in 1 .. Len(v.up) : v.up[j] \in ClientFrame
    BY ElementOfSeq DEF Talks
  <2> QED  BY <2>1, AgentAssumption DEF ClientFrame, Generations
<1> QED  BY <1>1, <1>2, <1>3 DEF Below

LEMMA BelowAppended ==
  ASSUME NEW v \in Talks, NEW f \in ServerFrame, NEW x, Below(v, x), f.gen < x
  PROVE  Below(Appended(v, f), x)
<1> DEFINE w == Appended(v, f)
           n == Len(v.stream)
<1>1. /\ n \in Nat /\ Len(w.stream) = n + 1 /\ w.stream[n + 1] = f
      /\ w.up = v.up /\ w.gen = v.gen /\ \A i \in 1 .. n : w.stream[i] = v.stream[i]
  BY AppendedIs
<1> HIDE DEF w
<1>2. \A i \in 1 .. n + 1 : i \in 1 .. n \/ i = n + 1
  BY <1>1
<1> QED  BY <1>1, <1>2 DEF Below, w

LEMMA BelowShorter ==
  ASSUME NEW v \in Talks, v.up # <<>>, NEW x, Below(v, x)
  PROVE  Below(Shorter(v), x)
<1> DEFINE w == Shorter(v)
<1>1. /\ w.stream = v.stream /\ w.gen = v.gen /\ Len(v.up) \in Nat \ {0}
      /\ Len(w.up) = Len(v.up) - 1 /\ \A j \in 1 .. Len(v.up) - 1 : w.up[j] = v.up[j + 1]
  BY ShorterIs
<1> HIDE DEF w
<1>2. \A j \in 1 .. Len(w.up) : j + 1 \in 1 .. Len(v.up) /\ w.up[j] = v.up[j + 1]
  BY <1>1
<1> QED  BY <1>1, <1>2 DEF Below, w

LEMMA BelowHeard ==
  ASSUME NEW v \in Talks, NEW w, v.stream # <<>>, HeardBy(v, w), NEW x, Below(v, x)
  PROVE  Below(w, x)
<1> DEFINE n == Len(v.stream)
<1>1. /\ n \in Nat \ {0} /\ Len(w.stream) = n - 1
      /\ \A i \in 1 .. n - 1 : i + 1 \in 1 .. n /\ w.stream[i] = v.stream[i + 1]
  BY HeardIs DEF HeardBy
<1>2. 1 \in 1 .. n
  BY <1>1
<1> QED  BY <1>1, <1>2 DEF Below, HeardBy

LEMMA BelowSpoken ==
  ASSUME NEW v \in Talks, NEW w, Speech(v, w), NEW x, Below(v, x),
         v.open # NoPeer => v.gen \in Generations
  PROVE  Below(w, x)
<1>1. PICK f \in ClientFrame :
        /\ w.stream = v.stream /\ w.up = Append(v.up, f) /\ w.gen = v.gen
        /\ Answering(v, w, f) \/ Ending(v, w, f) \/ Parting(v, w, f)
  BY DEF Speech
<1>2. OfChannel(f) => f.gen = v.gen /\ v.open # NoPeer
  BY <1>1 DEF OfChannel, Answering, Ending, Parting
<1>3. v.open # NoPeer => v.gen # Wrap
  BY AgentAssumption DEF Generations
<1> DEFINE m == Len(v.up)
<1>4. /\ Len(w.up) = m + 1 /\ w.up[m + 1] = f /\ \A j \in 1 .. m : w.up[j] = v.up[j]
      /\ \A j \in 1 .. m + 1 : j \in 1 .. m \/ j = m + 1
  BY <1>1, SpokenIs
<1> QED  BY <1>1, <1>2, <1>3, <1>4 DEF Below

LEMMA BelowNew ==
  ASSUME NEW n, NEW on, NEW x
  PROVE  Below(Talk(Client(n, on)), x)
<1>1. <<>> \o <<>> = <<>> /\ Len(<<>>) = 0 /\ 1 .. 0 = {}
  OBVIOUS
<1>2. /\ Talk(Client(n, on)).stream = <<>> /\ Talk(Client(n, on)).up = <<>>
      /\ Talk(Client(n, on)).gen = Wrap
  BY <1>1 DEF Talk, Client
<1> QED  BY <1>1, <1>2 DEF Below

(* Where nobody is let in, generations stay as they were.                   *)
LEMMA WaitersStayInOrder ==
  ASSUME Base, InOrder, WaitersStay, nextGen' = nextGen
  PROVE  InOrder' /\ (Waiting' # {} => Waiting # {})
BY DEF InOrder, WaitersStay

LEMMA LettingInIsInOrder ==
  ASSUME Base, InOrder, MaxPeers <= Wrap, NEW p \in Peers, LetsIn(p)
  PROVE  /\ InOrder' /\ Waiting # {}
         /\ Waiting' # {} => nextGen' = nextGen + 1
<1>1. peers \in [Peers -> Peer] /\ nextGen \in Nat /\ WaitersStay /\ p \in Nat /\ p <= MaxPeers
      /\ MaxPeers \in Nat /\ Wrap \in Nat
  <2>1. peers \in [Peers -> Peer] /\ nextGen \in Generations
    BY DEF Base, TypeOK
  <2> QED  BY <2>1, LettingInMoves, AgentAssumption DEF Generations, Peers
<1>2. /\ peers' = [peers EXCEPT ![p].pos = "served"] /\ peers[p].pos = "backlog"
      /\ \A q \in Backlog : p <= q
  BY DEF LetsIn, Oldest, Backlog
<1>3. /\ peers'[p].pos = "served" /\ \A q \in Peers : q # p => peers'[q] = peers[q]
  <2>1. peers[p] \in Peer
    BY <1>1
  <2> QED  BY <1>1, <1>2, <2>1 DEF Peer
<1>4. p \in Waiting /\ nextGen < p
  BY <1>2 DEF Waiting, InOrder
<1>5. \A q \in Waiting' : q \in Peers /\ p < q
  <2> TAKE q \in Waiting'
  <2>1. q \in Peers /\ q # p /\ peers[q].pos \in {"new", "backlog"}
    BY <1>3 DEF Waiting
  <2>2. CASE peers[q].pos = "new"
    BY <1>2, <2>1, <2>2 DEF InOrder
  <2>3. CASE peers[q].pos = "backlog"
    <3>1. p <= q /\ q \in Nat
      BY <1>2, <2>1, <2>3 DEF Backlog, Peers
    <3> QED  BY <1>1, <2>1, <3>1
  <2> QED  BY <2>1, <2>2, <2>3
<1>6. Waiting' # {} => nextGen' = nextGen + 1
  <2> SUFFICES ASSUME NEW q \in Waiting' PROVE nextGen' = nextGen + 1
    OBVIOUS
  <2>1. p < q /\ q \in Nat /\ q <= MaxPeers
    BY <1>1, <1>5 DEF Peers
  <2>2. nextGen + 1 < Wrap
    BY <1>1, <1>4, <2>1
  <2> QED  BY <1>1, <2>2 DEF LetsIn
<1>7. \A q \in Waiting' : nextGen' < q
  <2> TAKE q \in Waiting'
  <2>1. p < q /\ q \in Nat /\ nextGen' = nextGen + 1
    BY <1>5, <1>6 DEF Peers
  <2> QED  BY <1>1, <1>4, <2>1
<1>8. \A r, q \in Peers : peers'[q].pos = "new" /\ peers'[r].pos # "new" => r < q
  BY <1>2, <1>3 DEF InOrder
<1> QED  BY <1>4, <1>6, <1>7, <1>8 DEF InOrder

LEMMA ComingIsInOrder ==
  ASSUME Base, InOrder, NEW p \in Peers, Comes(p)
  PROVE  InOrder' /\ Waiting' = Waiting /\ nextGen' = nextGen
<1>1. peers \in [Peers -> Peer] /\ nextGen' = nextGen
  BY DEF Base, TypeOK, Comes, PeerConnects, DaemonSame
<1>2. /\ peers' = [peers EXCEPT ![p] = [peers[p] EXCEPT !.pos = "backlog"]]
      /\ peers[p].pos = "new" /\ \A q \in Peers : peers[q].pos = "new" => p <= q
  BY DEF Comes, PeerConnects, PeerMoves, Oldest
<1>3. /\ peers'[p].pos = "backlog" /\ \A q \in Peers : q # p => peers'[q] = peers[q]
  <2>1. peers[p] \in Peer
    BY <1>1
  <2> QED  BY <1>1, <1>2, <2>1 DEF Peer
<1>4. Waiting' = Waiting
  BY <1>2, <1>3 DEF Waiting
<1>5. ASSUME NEW r \in Peers, NEW q \in Peers, peers'[q].pos = "new", peers'[r].pos # "new"
      PROVE  r < q
  <2>1. q # p /\ peers[q].pos = "new"
    BY <1>3, <1>5
  <2>2. CASE r = p
    <3>1. p <= q /\ p \in Nat /\ q \in Nat
      BY <1>2, <2>1 DEF Peers
    <3> QED  BY <2>1, <2>2, <3>1
  <2>3. CASE r # p
    BY <1>3, <1>5, <2>1, <2>3 DEF InOrder
  <2> QED  BY <2>2, <2>3
<1> QED  BY <1>1, <1>4, <1>5 DEF InOrder

LEMMA GenerationsFollow ==
  ASSUME MaxPeers <= Wrap, Base, Base', Moves, InOrder, PastGens
  PROVE  InOrder' /\ PastGens'
<1> DEFINE v == Talk(client)
           w == Talk(client')
<1>1. /\ v \in Talks /\ w \in Talks /\ chan.gen \in Generations /\ nextGen \in Generations
      /\ v.up = client.up
      /\ \A p \in Peers : Open(p) \in ServerFrame /\ Open(p).gen = nextGen
      /\ SaidIn(v, w)
  BY MovesTalk
<1>2. nextGen \in Nat
  BY <1>1, AgentAssumption DEF Generations
<1>3. F("AgentData", chan.gen) \in ServerFrame /\ F("AgentClose", chan.gen) \in ServerFrame
      /\ F("AgentData", chan.gen).gen = chan.gen /\ F("AgentClose", chan.gen).gen = chan.gen
  BY <1>1, FramesAre DEF F
<1>4. PastGens' = (Waiting' # {} => (InUse' => chan'.gen < nextGen') /\ Below(w, nextGen'))
  BY DEF PastGens
<1>5. PastGens = (Waiting # {} => (InUse => chan.gen < nextGen) /\ Below(v, nextGen))
  BY DEF PastGens
<1> HIDE DEF v, w
<1>6. CASE NoneLetIn
  <2>1. InOrder' /\ (Waiting' # {} => Waiting # {}) /\ nextGen' = nextGen
    BY <1>6, WaitersStayInOrder DEF NoneLetIn
  <2> SUFFICES ASSUME Waiting' # {}
               PROVE  (InUse' => chan'.gen < nextGen) /\ Below(w, nextGen)
    BY <1>4, <2>1
  <2>2. (InUse => chan.gen < nextGen) /\ Below(v, nextGen)
    BY <1>5, <2>1
  <2>3. CASE w = v /\ (Rests \/ EndsUnheard)
    BY <2>2, <2>3 DEF Rests, Going, EndsUnheard, Ended
  <2>4. CASE w = Appended(v, F("AgentData", chan.gen)) /\ Tells
    BY <1>1, <1>3, <2>2, <2>4, BelowAppended DEF Tells, Going
  <2>5. CASE w = Appended(v, F("AgentClose", chan.gen)) /\ TellsTheEnd
    BY <1>1, <1>3, <2>2, <2>5, BelowAppended DEF TellsTheEnd, Ended
  <2>6. CASE Leaves /\ \E n \in 0 .. MaxClients, on \in BOOLEAN : w = Talk(Client(n, on))
    BY <2>6, BelowNew DEF Leaves, Ended
  <2>7. CASE (Drops \/ Delivers \/ Closes) /\ w = Shorter(v)
    <3>1. v.up # <<>> /\ (InUse' => InUse /\ chan'.gen = chan.gen)
      BY <1>1, <2>7 DEF Drops, Delivers, Closes, Fits, Decoding, Going, Ended
    <3> QED  BY <1>1, <2>2, <2>7, <3>1, BelowShorter
  <2>8. CASE Overflows /\ w = Appended(Shorter(v), F("AgentClose", chan.gen))
    <3>1. v.up # <<>> /\ ~InUse' /\ InUse
      BY <1>1, <2>8 DEF Overflows, Fits, Decoding, Ended
    <3>2. Shorter(v) \in Talks /\ Below(Shorter(v), nextGen)
      BY <1>1, <2>2, <3>1, ShorterIs, BelowShorter
    <3> QED  BY <1>3, <2>2, <2>8, <3>1, <3>2, BelowAppended
  <2>9. CASE Speaks /\ v.stream # <<>> /\ HeardBy(v, w)
    BY <1>1, <2>2, <2>9, BelowHeard DEF Speaks, Going
  <2>10. CASE Speaks /\ Speech(v, w)
    <3>1. v.open # NoPeer => v.gen \in Generations
      <4>1. client \in Attachment /\ (client.open # NoPeer => client.gen # Wrap)
        BY DEF Base, TypeOK
      <4>2. v.open = client.open /\ v.gen = client.gen
        BY <4>1, TalkIs DEF v
      <4>3. v.gen \in 0 .. Wrap /\ Wrap \in Nat
        BY <1>1, AgentAssumption DEF Talks
      <4> QED  BY <4>1, <4>2, <4>3 DEF Generations
    <3> QED  BY <1>1, <2>2, <2>10, <3>1, BelowSpoken DEF Speaks, Going
  <2>11. ASSUME NEW p \in Peers, LetsIn(p) \/ (Comes(p) /\ w = v)
         PROVE  (InUse' => chan'.gen < nextGen) /\ Below(w, nextGen)
    <3>1. CASE Comes(p) /\ w = v
      BY <2>2, <3>1 DEF Comes, Going
    <3>2. CASE LetsIn(p)
      <4>1. nextGen' = nextGen + 1
        BY <1>2, <2>11, <3>2, LettingInIsInOrder
      <4> QED  BY <1>2, <2>1, <4>1
    <3> QED  BY <2>11, <3>1, <3>2
  <2> QED  BY <1>1, <2>3, <2>4, <2>5, <2>6, <2>7, <2>8, <2>9, <2>10, <2>11 DEF SaidIn
<1>7. ASSUME NEW p \in Peers, LetsIn(p), w = Appended(v, Open(p))
      PROVE  InOrder' /\ PastGens'
  <2>1. InOrder' /\ Waiting # {} /\ (Waiting' # {} => nextGen' = nextGen + 1)
    BY <1>7, LettingInIsInOrder
  <2> SUFFICES ASSUME Waiting' # {}
               PROVE  chan'.gen < nextGen + 1 /\ Below(w, nextGen + 1)
    BY <1>4, <2>1
  <2>2. chan'.gen = nextGen
    BY <1>7 DEF LetsIn, Opened, NoChannel
  <2>3. Below(v, nextGen + 1)
    <3>1. Below(v, nextGen)
      BY <1>5, <2>1
    <3>2. nextGen + 1 \in Nat /\ nextGen <= nextGen + 1
      BY <1>2
    <3> QED  BY <1>1, <1>2, <3>1, <3>2, BelowGrows
  <2>4. Open(p).gen < nextGen + 1 /\ Open(p) \in ServerFrame
    BY <1>1, <1>2
  <2>5. Below(w, nextGen + 1)
    BY <1>1, <1>7, <2>3, <2>4, BelowAppended
  <2> QED  BY <1>2, <2>2, <2>5
<1>8. ASSUME NEW p \in Peers, Comes(p), w = v
      PROVE  InOrder' /\ PastGens'
  <2>1. InOrder' /\ Waiting' = Waiting /\ nextGen' = nextGen
    BY <1>8, ComingIsInOrder
  <2> QED  BY <1>4, <1>5, <1>8, <2>1 DEF Comes, Going
<1>9. \/ NoneLetIn \/ \E p \in Peers : LetsIn(p) /\ w = Appended(v, Open(p))
      \/ \E p \in Peers : Comes(p) /\ w = v
  BY <1>1 DEF SaidIn, Rests, EndsUnheard, Tells, TellsTheEnd, Leaves, Drops, Delivers, Closes,
              Overflows, Speaks
<1> QED  BY <1>6, <1>7, <1>8, <1>9

-----------------------------------------------------------------------------
(* The two ends agree *)

Talking ==
  IF InUse THEN Attached /\ Agrees(Talk(client), TRUE, chan.gen)
  ELSE Agrees(Talk(client), FALSE, 0)

LEMMA SpeakingStays ==
  ASSUME Base, Base', Speaks
  PROVE  Attached' = Attached
<1>1. client \in Attachment
  BY DEF Base, TypeOK
<1>2. CASE ClientReads
  BY <1>1, <1>2 DEF ClientReads, ClientMoves, Hears, Attachment, Attached
<1> QED  BY <1>2, SpeaksTalk DEF Speaks

LEMMA LettingInUses ==
  ASSUME Base, Base', NEW p \in Peers, LetsIn(p)
  PROVE  /\ ~InUse /\ InUse' /\ Attached' /\ chan'.gen = nextGen /\ chan'.peer = p
         /\ chan'.pending = <<>>
<1>1. chan'.peer = p /\ chan'.gen = nextGen /\ ~chan'.closing /\ chan'.pending = <<>>
  BY DEF LetsIn, Opened, NoChannel
<1>2. p # NoPeer
  BY DEF Peers, NoPeer
<1>3. client' = Says(Open(p)) /\ Attached /\ client \in Attachment
  BY DEF LetsIn, Base, TypeOK
<1>4. Attached'
  BY <1>3 DEF Says, Attachment, Attached
<1> QED  BY <1>1, <1>2, <1>4 DEF InUse, Serving, LetsIn

LEMMA TalkingFollows ==
  ASSUME Base, Base', Moves, InOrder, PastGens, Talking
  PROVE  Talking'
<1> DEFINE v == Talk(client)
           w == Talk(client')
           g == chan.gen
<1>1. /\ v \in Talks /\ w \in Talks /\ g \in Generations /\ nextGen \in Generations
      /\ v.up = client.up /\ SaidIn(v, w)
      /\ \A p \in Peers : /\ Open(p) \in ServerFrame /\ Open(p).type = "AgentOpen"
                          /\ Open(p).gen = nextGen
  BY MovesTalk
<1>2. Talking' = IF InUse' THEN Attached' /\ Agrees(w, TRUE, chan'.gen) ELSE Agrees(w, FALSE, 0)
  BY DEF Talking
<1>3. /\ InUse => Attached /\ Agrees(v, TRUE, g)
      /\ ~InUse => Agrees(v, FALSE, 0)
  BY DEF Talking
<1>4. Attached' = client'.on /\ Attached = client.on /\ client \in Attachment
      /\ PastGens = (Waiting # {} => (InUse => chan.gen < nextGen) /\ Below(v, nextGen))
  BY DEF Attached, Base, TypeOK, PastGens
<1> HIDE DEF v, w, g
<1>5. ASSUME Going, Attached' = Attached,
             \A u \in BOOLEAN, h \in {g, 0} : Agrees(v, u, h) => Agrees(w, u, h)
      PROVE  Talking'
  <2>1. CASE InUse
    BY <1>2, <1>3, <1>5, <2>1 DEF Going, g
  <2>2. CASE ~InUse
    BY <1>2, <1>3, <1>5, <2>2 DEF Going
  <2> QED  BY <2>1, <2>2
<1>6. CASE w = v /\ (Rests \/ \E p \in Peers : Comes(p))
  <2>1. Going /\ Attached' = Attached
    BY <1>4, <1>6 DEF Rests, SameTalk, Comes
  <2> QED  BY <1>5, <1>6, <2>1
<1>7. CASE w = v /\ EndsUnheard
  BY <1>2, <1>3, <1>7 DEF EndsUnheard, Ended
<1>8. CASE w = Appended(v, F("AgentData", g)) /\ Tells
  <2>1. InUse /\ InUse' /\ Attached' /\ chan'.gen = g
    BY <1>4, <1>8 DEF Tells, Going, g, Says, Attachment
  <2> QED  BY <1>1, <1>2, <1>3, <1>8, <2>1, DataAgrees
<1>9. CASE w = Appended(v, F("AgentClose", g)) /\ TellsTheEnd
  <2>1. InUse /\ ~InUse'
    BY <1>9 DEF TellsTheEnd, Ended
  <2> QED  BY <1>1, <1>2, <1>3, <1>9, <2>1, CloseAgrees
<1>10. CASE Leaves /\ \E n \in 0 .. MaxClients, on \in BOOLEAN : w = Talk(Client(n, on))
  BY <1>2, <1>10, NewClientAgrees DEF Leaves, Ended
<1>11. CASE (Drops \/ Delivers) /\ w = Shorter(v)
  <2>1. /\ v.up # <<>> /\ ~(InUse /\ Head(v.up).type = "AgentClose" /\ Head(v.up).gen = g)
        /\ client' = Decoded(client)
    BY <1>1, <1>11 DEF Drops, Delivers, Fits, Decoding, OfChannel, g
  <2>2. /\ InUse' = InUse /\ Attached' = Attached
        /\ InUse => chan'.gen = g
    <3>1. client'.on = client.on
      BY <1>4, <2>1 DEF Decoded, Attachment
    <3> QED  BY <1>4, <1>11, <3>1 DEF Drops, Delivers, Fits, Going, g
  <2>3. CASE InUse
    BY <1>1, <1>2, <1>3, <1>11, <2>1, <2>2, <2>3, ReadAgrees
  <2>4. CASE ~InUse
    BY <1>1, <1>2, <1>3, <1>11, <2>1, <2>2, <2>4, ReadAgrees
  <2> QED  BY <2>3, <2>4
<1>12. CASE Closes /\ w = Shorter(v)
  <2>1. /\ v.up # <<>> /\ Head(v.up).type = "AgentClose" /\ Head(v.up).gen = g /\ ~InUse'
    BY <1>1, <1>12 DEF Closes, Decoding, Ended, g
  <2>2. CASE InUse
    BY <1>1, <1>2, <1>3, <1>12, <2>1, <2>2, ReadAgrees
  <2>3. CASE ~InUse
    BY <1>1, <1>2, <1>3, <1>12, <2>1, <2>3, ReadAgrees
  <2> QED  BY <2>2, <2>3
<1>13. CASE Overflows /\ w = Appended(Shorter(v), F("AgentClose", g))
  <2>1. InUse /\ ~InUse' /\ v.up # <<>> /\ Head(v.up).type = "AgentData"
    BY <1>1, <1>13 DEF Overflows, Fits, Decoding, Ended
  <2>2. Shorter(v) \in Talks /\ Agrees(Shorter(v), TRUE, g)
    BY <1>1, <1>3, <2>1, ShorterIs, ReadAgrees
  <2>3. Agrees(w, FALSE, 0)
    BY <1>1, <1>13, <2>2, CloseAgrees
  <2> QED  BY <1>2, <2>1, <2>3
<1>14. ASSUME NEW p \in Peers, LetsIn(p), w = Appended(v, Open(p))
       PROVE  Talking'
  <2>1. ~InUse /\ InUse' /\ Attached' /\ chan'.gen = nextGen
    BY <1>14, LettingInUses
  <2>2. Waiting # {}
    BY <1>14 DEF LetsIn, Oldest, Backlog, Waiting
  <2>3. Fresh(v, nextGen)
    BY <1>1, <1>4, <2>2, BelowIsFresh
  <2>4. Agrees(w, TRUE, nextGen)
    BY <1>1, <1>3, <1>14, <2>1, <2>3, OpenAgrees
  <2> QED  BY <1>2, <2>1, <2>4
<1>15. CASE Speaks /\ ((v.stream # <<>> /\ HeardBy(v, w)) \/ Speech(v, w))
  <2>1. Going /\ Attached' = Attached
    BY <1>15, SpeakingStays DEF Speaks
  <2>2. CASE v.stream # <<>> /\ HeardBy(v, w)
    BY <1>1, <1>5, <2>1, <2>2, HearsAgrees
  <2>3. CASE Speech(v, w)
    <3>1. PICK f \in ClientFrame :
            /\ w.stream = v.stream /\ w.up = Append(v.up, f) /\ w.gen = v.gen
            /\ Answering(v, w, f) \/ Ending(v, w, f) \/ Parting(v, w, f)
      BY <2>3 DEF Speech
    <3>2. CASE Ending(v, w, f)
      BY <1>1, <1>5, <2>1, <3>1, <3>2, ClosesAgrees DEF Ending
    <3>3. CASE Answering(v, w, f) \/ Parting(v, w, f)
      <4>1. /\ w.open = v.open /\ f.type # "AgentClose"
            /\ f.type = "AgentData" => f.gen = v.gen
        BY <3>3 DEF Answering, Parting
      <4> QED  BY <1>1, <1>5, <2>1, <3>1, <4>1, SpokenAgrees
    <3> QED  BY <3>1, <3>2, <3>3
  <2> QED  BY <1>15, <2>2, <2>3
<1> QED  BY <1>1, <1>6, <1>7, <1>8, <1>9, <1>10, <1>11, <1>12, <1>13, <1>14, <1>15
         DEF SaidIn, g

-----------------------------------------------------------------------------
(* No reply goes astray *)

Numbered(r, p) == \A i \in 1 .. Len(r) : r[i] = [to |-> p, nth |-> i]
RightReplies == \A p \in Peers : Numbered(Replies(p), p)
Replying ==
  InUse => Answers(Talk(client), chan.peer, chan.gen, Len(Replies(chan.peer)))

LEMMA PrefixIsNumbered ==
  ASSUME NEW r, NEW s \in Seq(Byte), NEW p, Prefix(r, s), Numbered(s, p)
  PROVE  Numbered(r, p)
<1>1. PICK n \in 0 .. Len(s) : r = SubSeq(s, 1, n)
  BY DEF Prefix
<1>2. Len(s) \in Nat /\ \A i \in 1 .. Len(s) : s[i] \in Byte
  BY LenProperties, ElementOfSeq
<1>3. Len(r) = n
  BY <1>1, TakenAndLeft
<1>4. \A i \in 1 .. n : r[i] = s[i]
  <2>1. \A i \in 1 .. n : s[i] \in Byte
    BY <1>2
  <2>2. \A i \in 1 .. n - 1 + 1 : SubSeq(s, 1, n)[i] = s[1 + i - 1]
    BY <1>2, <2>1, SubSeqProperties
  <2> QED  BY <1>1, <1>2, <2>2
<1>5. \A i \in 1 .. n : i \in 1 .. Len(s)
  BY <1>2
<1>6. \A i \in 1 .. n : r[i] = [to |-> p, nth |-> i]
  BY <1>4, <1>5 DEF Numbered
<1> QED  BY <1>3, <1>6 DEF Numbered

LEMMA OneMoreIsNumbered ==
  ASSUME NEW r \in Seq(Byte), NEW p \in Peers, Numbered(r, p)
  PROVE  /\ Numbered(Append(r, [to |-> p, nth |-> Len(r) + 1]), p)
         /\ Len(Append(r, [to |-> p, nth |-> Len(r) + 1])) = Len(r) + 1 /\ Len(r) \in Nat
<1> DEFINE n == Len(r)
           b == [to |-> p, nth |-> n + 1]
           u == Append(r, b)
<1>1. n \in Nat /\ b \in Byte
  BY LenProperties DEF Byte
<1> HIDE DEF b
<1>2. Len(u) = n + 1 /\ u[n + 1] = b /\ \A i \in 1 .. n : u[i] = r[i]
  BY <1>1, AppendProperties
<1> HIDE DEF u
<1>3. \A i \in 1 .. n + 1 : i \in 1 .. n \/ i = n + 1
  BY <1>1
<1> QED  BY <1>1, <1>2, <1>3 DEF Numbered, u, b

(* The next reply is delivered.                                             *)
LEMMA DeliveryIsRight ==
  ASSUME Base, Delivers, RightReplies, Talking, Replying
  PROVE  /\ RightReplies' /\ chan.peer \in Peers
         /\ Answers(Talk(client'), chan.peer, chan.gen, Len(Replies(chan.peer)) + 1)
         /\ Len(Replies(chan.peer)') = Len(Replies(chan.peer)) + 1
<1>1. /\ ChannelSide /\ \A p \in Peers : Replies(p) \in Seq(Byte)
      /\ \A p \in Peers : Numbered(Replies(p), p)
  BY BaseIs, RepliesAreBytes DEF RightReplies
<1>2. InUse /\ Serving /\ chan.peer \in Peers
  BY <1>1, FlushKeeps DEF Delivers, Fits, InUse
<1> PICK p \in Peers : p = chan.peer
  BY <1>2
<1> DEFINE v == Talk(client)
           n == Len(Replies(p))
<1>3. /\ v \in Talks /\ Talk(client') = Shorter(v) /\ v.up = client.up /\ v.up # <<>>
      /\ Head(v.up).type = "AgentData" /\ Head(v.up).gen = chan.gen
  <2>1. client \in Attachment /\ client' = Decoded(client)
    BY DEF Base, TypeOK, Delivers
  <2> QED  BY <2>1, TalkIs, DecodedTalk DEF Delivers, Fits, Decoding
<1>4. n \in Nat
  BY <1>1, <1>2, LenProperties
<1>5. News(v) /\ Answers(v, p, chan.gen, n)
  BY <1>2 DEF Talking, Agrees, Replying
<1>6. \A i \in 1 .. Len(v.stream) :
        ~(v.stream[i].type = "AgentOpen" /\ v.stream[i].gen = chan.gen)
  <2>1. 1 \in 1 .. Len(v.up) /\ v.up[1] = Head(v.up)
    BY <1>3, ShorterIs
  <2> QED  BY <1>3, <1>5, <2>1 DEF News, OfChannel
<1> HIDE DEF v, n
<1>7. /\ Head(v.up).byte = [to |-> p, nth |-> n + 1]
      /\ Answers(Shorter(v), p, chan.gen, n + 1)
  BY <1>3, <1>4, <1>5, <1>6, NextReplyAnswers
<1>8. /\ Replies(p)' = Append(Replies(p), [to |-> p, nth |-> n + 1])
      /\ \A q \in Peers : q # p => Replies(q)' = Replies(q)
  <2>1. Replies(chan.peer)' = Replies(p)'
    BY DEF Delivers, Replies
  <2> QED  BY <1>3, <1>7, <2>1 DEF Delivers
<1>9. Numbered(Replies(p)', p) /\ Len(Replies(p)') = n + 1
  BY <1>1, <1>2, <1>8, OneMoreIsNumbered DEF n
<1>10. RightReplies'
  <2> SUFFICES ASSUME NEW q \in Peers PROVE Numbered(Replies(q)', q)
    BY DEF RightReplies
  <2>1. CASE q = p
    BY <1>9, <2>1
  <2>2. CASE q # p
    BY <1>1, <1>8, <2>2
  <2> QED  BY <2>1, <2>2
<1>11. Len(Replies(chan.peer)') = Len(Replies(p)')
  BY DEF Delivers, Replies
<1> QED  BY <1>2, <1>3, <1>4, <1>7, <1>9, <1>10, <1>11 DEF n

(* Every move leaves every peer with what it had, with less, or with the    *)
(* client's next reply more.                                                *)
LEMMA RepliesMove ==
  ASSUME Base, Base', Moves, RightReplies, Talking, Replying
  PROVE  RightReplies'
<1>1. /\ ChannelSide /\ \A p \in Peers : Replies(p) \in Seq(Byte)
      /\ \A p \in Peers : Numbered(Replies(p), p)
  BY BaseIs, RepliesAreBytes DEF RightReplies
<1>2. CASE Going
  BY <1>1, <1>2 DEF Going, RightReplies
<1>3. CASE Ended
  <2>1. \A p \in Peers : Prefix(Replies(p)', Replies(p))
    BY <1>3 DEF Ended
  <2> QED  BY <1>1, <2>1, PrefixIsNumbered DEF RightReplies
<1>4. CASE Delivers
  BY <1>4, DeliveryIsRight
<1>5. ASSUME NEW p \in Peers, LetsIn(p)
      PROVE  RightReplies'
  <2>1. chan.peer = NoPeer /\ chan'.pending = <<>>
    BY <1>5, LettingInUses DEF LetsIn, Serving
  <2>2. ASSUME NEW q \in Peers
        PROVE  peers'[q].got = peers[q].got /\ peers'[q].down = peers[q].down
    <3>1. peers \in [Peers -> Peer] /\ peers' = [peers EXCEPT ![p].pos = "served"]
      BY <1>5 DEF LetsIn, Base, TypeOK
    <3>2. peers[p] \in Peer
      BY <3>1
    <3> QED  BY <3>1, <3>2 DEF Peer
  <2>3. ASSUME NEW q \in Peers
        PROVE  Replies(q)' = Replies(q)
    <3>1. q # NoPeer
      BY DEF Peers, NoPeer
    <3>2. Replies(q) = (peers[q].got \o peers[q].down) \o <<>>
      BY <2>1, <3>1 DEF Replies
    <3>3. Replies(q)' = (peers'[q].got \o peers'[q].down) \o <<>>
      BY <2>1 DEF Replies
    <3> QED  BY <2>2, <3>2, <3>3
  <2> QED  BY <1>1, <2>3 DEF RightReplies
<1> QED  BY <1>2, <1>3, <1>4, <1>5
         DEF Moves, Rests, Tells, TellsTheEnd, EndsUnheard, Leaves, Drops, Overflows, Closes,
             Comes, Speaks

LEMMA ReplyingFollows ==
  ASSUME Base, Base', Moves, InOrder, PastGens, RightReplies, Talking, Replying
  PROVE  Replying'
<1> SUFFICES ASSUME InUse'
             PROVE  Answers(Talk(client'), chan'.peer, chan'.gen, Len(Replies(chan.peer)'))
  BY DEF Replying
<1> DEFINE v == Talk(client)
           w == Talk(client')
           g == chan.gen
           n == Len(Replies(chan.peer))
<1>1. /\ v \in Talks /\ w \in Talks /\ g \in Generations /\ nextGen \in Generations
      /\ v.up = client.up /\ SaidIn(v, w)
      /\ \A p \in Peers : /\ Open(p) \in ServerFrame /\ Open(p).type = "AgentOpen"
                          /\ Open(p).gen = nextGen /\ Open(p).byte.to = p
  BY MovesTalk
<1>2. InUse => Answers(v, chan.peer, g, n) /\ Agrees(v, TRUE, g)
  BY DEF Replying, Talking
<1>3. InUse => chan.peer \in Peers /\ n \in Nat
  <2> SUFFICES ASSUME InUse PROVE chan.peer \in Peers /\ n \in Nat
    OBVIOUS
  <2>1. ChannelSide /\ chan.peer \in Peers
    BY BaseIs, FlushKeeps DEF InUse
  <2>2. Replies(chan.peer) \in Seq(Byte)
    BY <2>1, RepliesAreBytes
  <2> QED  BY <2>1, <2>2, LenProperties
<1>4. PastGens = (Waiting # {} => (InUse => chan.gen < nextGen) /\ Below(v, nextGen))
  BY DEF PastGens
<1>5. ASSUME Going, Answers(w, chan.peer, g, n)
      PROVE  Answers(w, chan'.peer, chan'.gen, Len(Replies(chan.peer)'))
  <2>1. InUse /\ chan'.peer = chan.peer /\ chan'.gen = chan.gen
    BY <1>5 DEF Going
  <2>2. Replies(chan.peer)' = Replies(chan.peer)
    <3>1. PICK p \in Peers : p = chan.peer
      BY <1>3, <2>1
    <3>2. Replies(p)' = Replies(p)
      BY <1>5 DEF Going
    <3> QED  BY <2>1, <3>1, <3>2 DEF Replies
  <2> QED  BY <1>5, <2>1, <2>2
<1> HIDE DEF v, g, n
<1>6. CASE w = v /\ (Rests \/ \E p \in Peers : Comes(p))
  BY <1>2, <1>5, <1>6 DEF Rests, Comes, Going
<1>7. CASE EndsUnheard \/ TellsTheEnd \/ Leaves \/ Closes \/ Overflows
  BY <1>7 DEF EndsUnheard, TellsTheEnd, Leaves, Closes, Overflows, Ended
<1>8. CASE w = Appended(v, F("AgentData", g)) /\ Tells
  <2>1. Answers(w, chan.peer, g, n)
    BY <1>1, <1>2, <1>8, DataAnswers DEF Tells
  <2> QED  BY <1>5, <1>8, <2>1 DEF Tells
<1>9. CASE Drops /\ w = Shorter(v)
  <2>1. InUse /\ Going /\ v.up # <<>> /\ ~(Head(v.up).type = "AgentData" /\ Head(v.up).gen = g)
    BY <1>1, <1>9 DEF Drops, Going, Decoding, OfChannel, g
  <2>2. Answers(w, chan.peer, g, n)
    BY <1>1, <1>2, <1>3, <1>9, <2>1, ReadOnAnswers
  <2> QED  BY <1>5, <2>1, <2>2
<1>10. CASE Delivers
  BY <1>10, DeliveryIsRight DEF Delivers
<1>11. ASSUME NEW p \in Peers, LetsIn(p), w = Appended(v, Open(p))
       PROVE  Answers(w, chan'.peer, chan'.gen, Len(Replies(chan.peer)'))
  <2>1. chan'.gen = nextGen /\ chan'.peer = p /\ chan'.pending = <<>>
    BY <1>11, LettingInUses
  <2>2. p \in Waiting
    BY <1>11 DEF LetsIn, Oldest, Backlog, Waiting
  <2>3. Fresh(v, nextGen)
    BY <1>1, <1>4, <2>2, BelowIsFresh
  <2>4. Answers(w, p, nextGen, 0)
    BY <1>1, <1>11, <2>3, OpenAnswers
  <2>5. Replies(p)' = <<>>
    <3>1. peers[p].got = <<>> /\ peers[p].down = <<>>
      BY <2>2 DEF Base, WaitersAreUnheard
    <3>2. peers'[p].got = peers[p].got /\ peers'[p].down = peers[p].down
      <4>1. peers \in [Peers -> Peer] /\ peers' = [peers EXCEPT ![p].pos = "served"]
        BY <1>11 DEF LetsIn, Base, TypeOK
      <4>2. peers[p] \in Peer
        BY <4>1
      <4> QED  BY <4>1, <4>2 DEF Peer
    <3>3. Replies(p)' = (<<>> \o <<>>) \o <<>>
      BY <2>1, <3>1, <3>2 DEF Replies
    <3>4. (<<>> \o <<>>) \o <<>> = <<>>
      OBVIOUS
    <3> QED  BY <3>3, <3>4
  <2>6. Replies(chan.peer)' = Replies(p)'
    BY <2>1 DEF Replies
  <2> QED  BY <2>1, <2>4, <2>5, <2>6, EmptySeq
<1>12. CASE Speaks /\ ((v.stream # <<>> /\ HeardBy(v, w)) \/ Speech(v, w))
  <2>1. Going /\ InUse
    BY <1>12 DEF Speaks, Going
  <2>2. CASE v.stream # <<>> /\ HeardBy(v, w)
    <3>1. News(v)
      BY <1>2, <2>1 DEF Agrees
    <3>2. Answers(w, chan.peer, g, n)
      BY <1>1, <1>2, <1>3, <2>1, <2>2, <3>1, HearsAnswers
    <3> QED  BY <1>5, <2>1, <3>2
  <2>3. CASE Speech(v, w)
    <3>1. PICK f \in ClientFrame :
            /\ w.stream = v.stream /\ w.up = Append(v.up, f) /\ w.gen = v.gen
            /\ Answering(v, w, f) \/ Ending(v, w, f) \/ Parting(v, w, f)
      BY <2>3 DEF Speech
    <3>2. CASE Answering(v, w, f)
      <4>1. Answers(w, chan.peer, g, n)
        BY <1>1, <1>2, <1>3, <2>1, <3>1, <3>2, ReplyAnswers DEF Answering
      <4> QED  BY <1>5, <2>1, <4>1
    <3>3. CASE Ending(v, w, f) \/ Parting(v, w, f)
      <4>1. f.type # "AgentData" /\ w.open \in {v.open, NoPeer} /\ w.sent = v.sent
        BY <3>3 DEF Ending, Parting
      <4>2. Answers(w, chan.peer, g, n)
        BY <1>1, <1>2, <1>3, <2>1, <3>1, <4>1, NoReplyAnswers
      <4> QED  BY <1>5, <2>1, <4>2
    <3> QED  BY <3>1, <3>2, <3>3
  <2> QED  BY <1>12, <2>2, <2>3
<1> QED  BY <1>1, <1>6, <1>7, <1>8, <1>9, <1>10, <1>11, <1>12 DEF SaidIn, g

-----------------------------------------------------------------------------
(* The invariant *)

AgentInv == Base /\ InOrder /\ PastGens /\ Talking /\ RightReplies /\ Replying

LEMMA InitAgentInv == ASSUME Init PROVE AgentInv
<1>1. Base /\ ~InUse
  BY InitBase DEF Init, InUse, Serving, NoChannel
<1>2. \A p \in Peers : peers[p] = NewPeer
  BY DEF Init
<1>3. InOrder
  BY <1>2 DEF InOrder, Init, Waiting, Peers, NewPeer
<1>4. client = Client(0, FALSE) /\ 0 \in 0 .. MaxClients
  BY AgentAssumption DEF Init
<1>5. PastGens
  BY <1>1, <1>4, BelowNew DEF PastGens
<1>6. Talking
  BY <1>1, <1>4, NewClientAgrees DEF Talking
<1>7. RightReplies
  <2>1. ASSUME NEW p \in Peers
        PROVE  Replies(p) = <<>>
    <3>1. Replies(p) = (<<>> \o <<>>) \o <<>>
      BY <1>2 DEF Replies, NewPeer, Init, NoChannel
    <3>2. (<<>> \o <<>>) \o <<>> = <<>>
      OBVIOUS
    <3> QED  BY <3>1, <3>2
  <2>2. Len(<<>>) = 0 /\ 1 .. 0 = {}
    OBVIOUS
  <2> QED  BY <2>1, <2>2 DEF RightReplies, Numbered
<1> QED  BY <1>1, <1>3, <1>5, <1>6, <1>7 DEF AgentInv, Replying

LEMMA StepAgentInv ==
  ASSUME MaxPeers <= Wrap, AgentInv, [Next]_vars
  PROVE  AgentInv'
<1>1. Base' /\ Moves
  BY StepsAreMoves DEF AgentInv
<1>2. InOrder' /\ PastGens'
  BY <1>1, GenerationsFollow DEF AgentInv
<1>3. Talking'
  BY <1>1, TalkingFollows DEF AgentInv
<1>4. RightReplies'
  BY <1>1, RepliesMove DEF AgentInv
<1>5. Replying'
  BY <1>1, ReplyingFollows DEF AgentInv
<1> QED  BY <1>1, <1>2, <1>3, <1>4, <1>5 DEF AgentInv

(* What the runs check, in the words of the proof.                          *)
LEMMA NumberedRepliesAreRight ==
  ASSUME Base, RightReplies
  PROVE  NoReplyGoesAstray
<1>1. ASSUME NEW p \in Peers
      PROVE  DOMAIN Replies(p) = 1 .. Len(Replies(p))
  <2>1. Replies(p) \in Seq(Byte)
    BY BaseIs, RepliesAreBytes
  <2> QED  BY <2>1, LenProperties
<1> QED  BY <1>1 DEF RightReplies, Numbered, NoReplyGoesAstray

LEMMA TalkInTheirWords ==
  ASSUME Base
  PROVE  /\ Talk(client).stream = Stream /\ Stream \in Seq(ServerFrame)
         /\ Talk(client).up = client.up /\ Talk(client).gen = client.gen
         /\ DOMAIN Stream = 1 .. Len(Stream) /\ Len(Stream) \in Nat
         /\ \A i : Held(Talk(client), i) = Holding(i)
         /\ \A i : ClosedBySelf(Talk(client), i) = SelfClosed(i)
         /\ \A g : g \in ClosesUnderWay <=> CloseUnderWay(Talk(client), g)
<1>1. client.tx \in Seq(ServerFrame) /\ client.down \in Seq(ServerFrame)
      /\ client.up \in Seq(ClientFrame)
  BY DEF Base, TypeOK, Attachment
<1>2. Stream \in Seq(ServerFrame) /\ DOMAIN client.up = 1 .. Len(client.up)
  BY <1>1, ConcatProperties, LenProperties DEF Stream
<1>3. DOMAIN Stream = 1 .. Len(Stream) /\ Len(Stream) \in Nat
  BY <1>2, LenProperties
<1>4. /\ Talk(client).stream = Stream /\ Talk(client).up = client.up
      /\ Talk(client).gen = client.gen /\ Talk(client).open = client.open
  BY DEF Talk, Stream
<1>5. ASSUME NEW i
      PROVE  Bounds(Stream, i) = Boundaries(i)
  BY DEF Bounds, Boundaries, IsBoundary
<1>6. ASSUME NEW i
      PROVE  Last(Stream, i) = LastBoundary(i)
  BY <1>5 DEF Last, LastBoundary
<1>7. \A i : Held(Talk(client), i) = Holding(i)
  BY <1>4, <1>5, <1>6 DEF Held, Holding
<1>8. \A i : ClosedBySelf(Talk(client), i) = SelfClosed(i)
  BY <1>4, <1>5 DEF ClosedBySelf, SelfClosed
<1>9. \A g : g \in ClosesUnderWay <=> CloseUnderWay(Talk(client), g)
  BY <1>2, <1>4 DEF ClosesUnderWay, CloseUnderWay
<1> QED  BY <1>2, <1>3, <1>4, <1>7, <1>8, <1>9

LEMMA AgreedFramesAlternate ==
  ASSUME Base, Talking
  PROVE  ChannelFramesAlternate
<1> DEFINE v == Talk(client)
<1>1. Alternates(v)
  BY DEF Talking, Agrees
<1>2. /\ v.stream = Stream /\ v.gen = client.gen
      /\ DOMAIN Stream = 1 .. Len(Stream)
      /\ \A i : Held(v, i) = Holding(i) /\ ClosedBySelf(v, i) = SelfClosed(i)
  BY TalkInTheirWords
<1> HIDE DEF v
<1> QED  BY <1>1, <1>2 DEF Alternates, ChannelFramesAlternate

LEMMA AgreedEndsMeet ==
  ASSUME Base, Talking
  PROVE  NeitherEndIsLeftHolding
<1> DEFINE v == Talk(client)
<1>1. /\ v.stream = Stream /\ \A i : Held(v, i) = Holding(i)
      /\ \A g : g \in ClosesUnderWay <=> CloseUnderWay(v, g)
  BY TalkInTheirWords
<1>2. InUse => Attached /\ EndsAgree(v, TRUE, chan.gen)
  BY DEF Talking, Agrees
<1>3. ~InUse => EndsAgree(v, FALSE, 0)
  BY DEF Talking, Agrees
<1> HIDE DEF v
<1> QED  BY <1>1, <1>2, <1>3 DEF EndsAgree, NeitherEndIsLeftHolding

(* As long as the 2^32 generations are not used up by the local connections *)
(* of one session (next_generation wraps), no step whatever leads out of    *)
(* the invariant.                                                           *)
LEMMA AgentInvHolds ==
  ASSUME MaxPeers <= Wrap
  PROVE  Spec => []AgentInv
<1>1. Init => AgentInv
  BY InitAgentInv
<1>2. AgentInv /\ [Next]_vars => AgentInv'
  BY StepAgentInv
<1> QED  BY <1>1, <1>2, PTL DEF Spec

(* No reply goes astray: whatever is read, held back or written late, a     *)
(* peer has the client's bytes for it, in order, and nobody else's, when    *)
(* peers leave, are refused, expire, or give way to a new client (deliver,  *)
(* flush, decode).                                                          *)
THEOREM AgentRepliesArrive ==
  ASSUME MaxPeers <= Wrap
  PROVE  Spec => []NoReplyGoesAstray
<1>1. AgentInv => NoReplyGoesAstray
  BY NumberedRepliesAreRight DEF AgentInv
<1> QED  BY <1>1, AgentInvHolds, PTL

(* The client never hears of a channel out of turn: an Open only when it    *)
(* holds none, Data and Close of the one it holds or has closed itself      *)
(* (accept_agent, service_agent_channel, close_agent_channel).              *)
THEOREM AgentFramesMakeSense ==
  ASSUME MaxPeers <= Wrap
  PROVE  Spec => []ChannelFramesAlternate
<1>1. AgentInv => ChannelFramesAlternate
  BY AgreedFramesAlternate DEF AgentInv
<1> QED  BY <1>1, AgentInvHolds, PTL

(* Neither end is left holding a channel the other has given up, whichever  *)
(* of their closes is under way (tell_client, close_from_client, decode).   *)
THEOREM AgentEndsAgree ==
  ASSUME MaxPeers <= Wrap
  PROVE  Spec => []NeitherEndIsLeftHolding
<1>1. AgentInv => NeitherEndIsLeftHolding
  BY AgreedEndsMeet DEF AgentInv
<1> QED  BY <1>1, AgentInvHolds, PTL
=============================================================================
