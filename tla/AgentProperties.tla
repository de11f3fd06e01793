-------------------------- MODULE AgentProperties --------------------------
(***************************************************************************)
(* What makes agent forwarding correct: requests and replies of one local  *)
(* peer never meet another's, both ends agree on what is open, and the one *)
(* slot always comes back.                                                 *)
(***************************************************************************)
EXTENDS Agent

(* Every variable has the values its Rust type, and the cap on it, allow:   *)
(* the channel's queue, and what the kernel buffers either way.             *)
Channel == [peer : Peers \cup {NoPeer}, gen : Generations, pending : Seq(Byte),
            closing : BOOLEAN, fuse : {"minute", "second"}, due : BOOLEAN]
Attachment == [who : 0 .. MaxClients, on : BOOLEAN, tx : Seq(ServerFrame),
               down : Seq(ServerFrame), up : Seq(ClientFrame),
               open : Peers \cup {NoPeer}, gen : 0 .. Wrap, sent : Nat, gone : BOOLEAN]
Peer == [pos : {"new", "backlog", "served", "closed"}, end : {"open", "fin", "gone"},
         asked : Nat, down : Seq(Byte), got : Seq(Byte)]
TypeOK ==
  /\ phase \in Phases /\ ready \subseteq Events
  /\ stop \in BOOLEAN /\ sigterm \in BOOLEAN
  /\ chan \in Channel /\ Len(chan.pending) <= MaxChannelQueue
  /\ nextGen \in Generations /\ retry \in {"none", "waiting", "due"}
  /\ client \in Attachment /\ Len(client.down) <= SockCap
  /\ client.open # NoPeer => client.gen # Wrap
  /\ peers \in [Peers -> Peer] /\ \A p \in Peers : Len(peers[p].down) <= PeerCap
  /\ faults \in 0 .. MaxFaults

(* The bytes a peer has, or is still to have: what it read, what its socket *)
(* holds, what the channel holds for it (deliver, flush).                   *)
Replies(p) == peers[p].got \o peers[p].down
                \o (IF chan.peer = p THEN chan.pending ELSE <<>>)

(* No reply goes astray: what reaches a peer is what the client meant for   *)
(* it, in order and without a hole, however late the frame arrives -- a     *)
(* frame still on its way when its peer went never lands on the next one.   *)
NoReplyGoesAstray ==
  \A p \in Peers : \A i \in DOMAIN Replies(p) : Replies(p)[i] = [to |-> p, nth |-> i]

(* The channel as the client will have it after the first i frames still on *)
(* their way to it, and whether it closed that one itself.                  *)
Stream == client.down \o client.tx
Boundaries(i) == {j \in 1 .. i : Stream[j].type \in {"AgentOpen", "AgentClose"}}
LastBoundary(i) == CHOOSE j \in Boundaries(i) : \A k \in Boundaries(i) : k <= j
Holding(i) ==
  IF Boundaries(i) # {}
  THEN IF Stream[LastBoundary(i)].type = "AgentOpen" THEN {Stream[LastBoundary(i)].gen} ELSE {}
  ELSE IF client.open # NoPeer THEN {client.gen} ELSE {}
SelfClosed(i) == Boundaries(i) = {} /\ client.open = NoPeer

(* The frames of the channel make sense in the order the client gets them   *)
(* (accept_agent, service_agent_channel, close_agent_channel): an Open only *)
(* when nothing is open, and Data and Close only of what is -- or of what   *)
(* the client closed itself before they reached it.                         *)
ChannelFramesAlternate ==
  \A i \in DOMAIN Stream :
    /\ Stream[i].type = "AgentOpen" => Holding(i - 1) = {}
    /\ Stream[i].type \in {"AgentData", "AgentClose"} =>
         \/ Holding(i - 1) = {Stream[i].gen}
         \/ SelfClosed(i - 1) /\ client.gen = Stream[i].gen

(* Neither end is left holding a channel the other has given up: a channel  *)
(* in use has a client that opened it, or whose close is under way; and a   *)
(* client is never left with one the daemon no longer serves, whichever of  *)
(* the two closes met first.                                                *)
ClosesUnderWay == {client.up[i].gen : i \in {j \in DOMAIN client.up :
                                               client.up[j].type = "AgentClose"}}
InUse == Serving /\ ~chan.closing
NeitherEndIsLeftHolding ==
  /\ InUse => Attached /\ (Holding(Len(Stream)) = {chan.gen} \/ chan.gen \in ClosesUnderWay)
  /\ Attached /\ ~InUse => Holding(Len(Stream)) = {}

(* One connection is held for the peer served and for no other, through     *)
(* every close, refusal, takeover and expiry.                               *)
NoPeerLeaks == {p \in Peers : peers[p].pos = "served"} = {chan.peer} \ {NoPeer}

(* A channel the client closed is given up a second later, not sixty.       *)
ClosedChannelsGoSoon == Serving /\ chan.closing => chan.fuse = "second"

-----------------------------------------------------------------------------
(* The daemon runs whenever it can, and time passes.  Neither the peers nor *)
(* the client need ever do anything.                                        *)
FairSpec == /\ Spec /\ WF_vars(DaemonStep)
            /\ WF_vars(ChannelDeadline) /\ WF_vars(AcceptBackoff)

(* Whoever waits behind the slot is served or refused in the end, whatever  *)
(* the peer that has it and the client it talks to do or fail to do.        *)
PeersAreAnswered ==
  \A p \in Peers : peers[p].pos = "backlog" ~> peers[p].pos # "backlog"
=============================================================================
