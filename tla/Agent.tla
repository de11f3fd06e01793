------------------------------- MODULE Agent -------------------------------
(***************************************************************************)
(* Agent forwarding: the session's second socket, on which local peers ask *)
(* the attached client's ssh-agent (crates/nomux/src/agent.rs, and the     *)
(* passes daemon.rs makes over it).  One peer is served at a time; its     *)
(* connection is named by a generation, which the frames of both           *)
(* directions carry.                                                       *)
(*                                                                         *)
(* A pass of the event loop runs its handlers in phases over the readiness *)
(* it found when it woke; peers, the client and the clock move in between. *)
(* An agent byte is [to, nth]: the peer the client meant it for, and its   *)
(* place among the client's bytes for that peer.  A peer's requests are    *)
(* only counted.  An operator beside another one, differing from it by a   *)
(* slip, is a mutated form that some property is shown to tell apart.      *)
(***************************************************************************)
EXTENDS Integers, Sequences, FiniteSets

CONSTANTS
  MaxPeers,      (* bound: local connections to the agent socket           *)
  MaxClients,    (* bound: clients that attach, one after the other        *)
  Wrap,          (* generations before next_generation wraps: 2^32         *)
  MaxReplies,    (* bound: frames a client sends for one generation        *)
  MaxFaults,     (* bound: failing accepts, requests and departures, in all *)
  MaxChannelQueue, (* MAX_CHANNEL_QUEUE                                    *)
  MaxPendingWrite, (* MAX_PENDING_WRITE                                    *)
  PeerCap, SockCap, (* what the kernel buffers towards a peer, the client  *)
  Befalls        (* what the environment may do here                       *)

ASSUME AgentAssumption ==
  /\ {MaxPeers, MaxClients, Wrap, MaxChannelQueue, MaxPendingWrite, PeerCap, SockCap}
       \subseteq Nat \ {0}
  /\ {MaxReplies, MaxFaults} \subseteq Nat
  /\ Befalls \subseteq {"sigterm", "half_close", "leave", "detach", "die", "ask"}

Peers == 1 .. MaxPeers
NoPeer == 0
Events == {"client", "hup", "in", "out", "listener"}
Phases == {"wait", "read", "turnover", "drain", "flush", "pull", "accept", "reread", "write",
           "expire", "stopping", "exited"}

VARIABLES
  phase, ready,  \* where the pass stands, and what it found ready
  stop, sigterm,
  chan,          \* Agent.channel
  nextGen,       \* Agent.next_generation
  retry,         \* agent_accept_retry: "none", or "waiting" until "due"
  client,        \* who is attached, with its queue and socket buffers
  peers,         \* the local connections
  faults
vars == <<phase, ready, stop, sigterm, chan, nextGen, retry, client, peers, faults>>

Byte == [to : Peers, nth : Nat]
Generations == 0 .. Wrap - 1
ServerFrame == [type : {"AgentOpen"}, gen : Generations, byte : Byte]
                 \cup [type : {"AgentData", "AgentClose"}, gen : Generations, byte : {<<>>}]
ClientFrame == [type : {"AgentData"}, gen : Generations, byte : Byte]
                 \cup [type : {"AgentClose", "Detach"}, gen : Generations, byte : {<<>>}]
F(type, gen) == [type |-> type, gen |-> gen, byte |-> <<>>]

(* Channel.  `fuse` is which of the two timeouts idle_deadline was set by.  *)
NoChannel == [peer |-> NoPeer, gen |-> 0, pending |-> <<>>, closing |-> FALSE,
              fuse |-> "minute", due |-> FALSE]
Opened(p, g) == [NoChannel EXCEPT !.peer = p, !.gen = g]
Serving == chan.peer # NoPeer

(* The latest client: its number, whether it is still attached, Conn's send *)
(* queue, the socket both ways, the channel it believes open -- for which   *)
(* peer, by what generation -- how much it has sent on it, and whether its  *)
(* end of the connection is gone.                                           *)
Client(w, on) == [who |-> w, on |-> on, tx |-> <<>>, down |-> <<>>, up |-> <<>>,
                  open |-> NoPeer, gen |-> Wrap, sent |-> 0, gone |-> FALSE]
Attached == client.on

(* A local peer: where the daemon has it, its requests in the socket, the   *)
(* replies in the socket, those it read, and whether its end is open.       *)
NewPeer == [pos |-> "new", end |-> "open", asked |-> 0,
            down |-> <<>>, got |-> <<>>]
Backlog == {p \in Peers : peers[p].pos = "backlog"}
Oldest(S) == {p \in S : \A q \in S : p <= q}
DropFirst(s, n) == SubSeq(s, n + 1, Len(s))
SmallerOf(a, b) == IF a < b THEN a ELSE b

Init ==
  /\ phase = "wait" /\ ready = {} /\ stop = FALSE /\ sigterm = FALSE
  /\ chan = NoChannel /\ nextGen = 0 /\ retry = "none"
  /\ client = Client(0, FALSE)
  /\ peers = [p \in Peers |-> NewPeer] /\ faults = 0

-----------------------------------------------------------------------------
(* The channel's operations *)

(* tell_client *)
Told(frame) == IF Attached THEN [client EXCEPT !.tx = Append(@, frame)] ELSE client

(* forget: the slot is free and the peer's connection closed.               *)
Forget(ps) == /\ chan' = NoChannel
              /\ peers' = [ps EXCEPT ![chan.peer].pos = "closed", ![chan.peer].asked = 0]

(* close_agent_channel *)
CloseChannel ==
  IF Serving THEN Forget(peers) /\ client' = Told(F("AgentClose", chan.gen))
  ELSE UNCHANGED <<chan, peers, client>>

(* flush: what the peer's socket takes now; a peer that is gone fails it.   *)
(* Progress pushes the deadline out.                                        *)
FlushFails == chan.pending # <<>> /\ peers[chan.peer].end = "gone"
Taken == IF peers[chan.peer].end = "gone" THEN 0
         ELSE SmallerOf(PeerCap - Len(peers[chan.peer].down), Len(chan.pending))
Touched(c) == [c EXCEPT !.fuse = "minute", !.due = FALSE]
Flushed == LET c == [chan EXCEPT !.pending = DropFirst(@, Taken)] IN
           IF Taken > 0 THEN Touched(c) ELSE c
Fed == [peers EXCEPT ![chan.peer].down = @ \o SubSeq(chan.pending, 1, Taken)]
Spent == FlushFails \/ Taken = Len(chan.pending)

(* close_from_client, of the generation served: flush, and let go -- at     *)
(* once if nothing is left to hand on, else on the short fuse, which never  *)
(* lengthens what was left of the deadline.                                 *)
LetGo ==
  IF Spent THEN Forget(Fed)
  ELSE /\ chan' = [Flushed EXCEPT !.closing = TRUE, !.fuse = "second"]
       /\ peers' = Fed

(* on_detached *)
Detached == IF Serving THEN LetGo ELSE UNCHANGED <<chan, peers>>

-----------------------------------------------------------------------------
(* The loop *)

(* watch_for's two agent sources and the client, and poll's answer.         *)
ClientSaturated == Attached /\ Len(client.tx) >= MaxPendingWrite
WantsRead == ~chan.closing /\ ~ClientSaturated
WantsWrite == chan.pending # <<>>
PeerReadable == peers[chan.peer].asked > 0 \/ peers[chan.peer].end # "open"
PeerGone == peers[chan.peer].end = "gone"
Snapshot ==
  {e \in Events :
     \/ e = "client" /\ Attached /\ client.up # <<>>
     \/ e = "hup" /\ Attached /\ client.gone
     \/ e = "in" /\ Serving /\ \/ WantsRead /\ PeerReadable
                               \/ WantsWrite /\ PeerGone       \* HUP
     \/ e = "out" /\ Serving /\ WantsWrite
          /\ (PeerGone \/ Len(peers[chan.peer].down) < PeerCap)
     \/ e = "listener" /\ ~Serving /\ retry = "none" /\ Backlog # {}}

ClientWritable == Attached /\ client.tx # <<>>
                  /\ (client.gone \/ Len(client.down) < SockCap)
NoChannelTimeout == retry = "due"
TimeoutDue == retry = "due" \/ (Serving /\ chan.due)

Poll ==
  /\ phase = "wait"
  /\ Snapshot # {} \/ sigterm \/ ClientWritable \/ TimeoutDue
  /\ ready' = Snapshot /\ stop' = sigterm /\ phase' = "read"
  /\ UNCHANGED <<sigterm, chan, nextGen, retry, client, peers, faults>>

(* handle_frame, for what concerns the channel.  A frame that names another *)
(* generation than the one served is dropped, and so is data for one that   *)
(* is closing; a frame that would overfill the queue costs the channel.     *)
AnyGeneration(g) == Serving
Names(g) == Serving /\ chan.gen = g
Overfull == Len(chan.pending) + 1 > MaxChannelQueue

Departs == /\ client' = Client(client.who, FALSE) /\ Detached

HandleFrame ==
  LET f    == Head(client.up)
      rest == [client EXCEPT !.up = Tail(@)] IN
  \/ /\ f.type = "AgentData" /\ Names(f.gen) /\ ~chan.closing
     /\ IF Overfull
        THEN Forget(peers) /\ client' = [rest EXCEPT !.tx = Append(@, F("AgentClose", chan.gen))]
        ELSE /\ chan' = [chan EXCEPT !.pending = Append(@, f.byte)]
             /\ client' = rest /\ UNCHANGED peers
  \/ /\ f.type = "AgentData" /\ ~(Names(f.gen) /\ ~chan.closing)
     /\ client' = rest /\ UNCHANGED <<chan, peers>>
  \/ /\ f.type = "AgentClose" /\ client' = rest
     /\ IF Names(f.gen) THEN LetGo ELSE UNCHANGED <<chan, peers>>
  \/ f.type = "Detach" /\ Departs

(* read_client: twice in a pass, and once more before a greeting takes the  *)
(* session or is refused it.  The decode loop may stop between any two      *)
(* frames: the PTY's input queue, which is not modelled here, may be full.  *)
Decode ==
  /\ phase = "drain" \/ (phase \in {"read", "reread"} /\ "client" \in ready)
  /\ client.up # <<>>
  /\ HandleFrame
  /\ UNCHANGED <<phase, ready, stop, sigterm, nextGen, retry, faults>>

ReadEnds ==
  /\ phase \in {"read", "reread"}
  /\ phase' = IF phase = "read" THEN "turnover" ELSE "write"
  /\ UNCHANGED <<ready, stop, sigterm, chan, nextGen, retry, client, peers, faults>>

(* The client found gone is dropped; and a greeting may have come, from     *)
(* another client, that this daemon can answer.                             *)
Greeted == ~stop /\ client.who < MaxClients
TurnOver ==
  /\ phase = "turnover" /\ phase' \in {"flush"} \cup (IF Greeted THEN {"drain"} ELSE {})
  /\ IF "hup" \in ready /\ Attached THEN Departs
     ELSE UNCHANGED <<client, chan, peers>>
  /\ UNCHANGED <<ready, stop, sigterm, nextGen, retry, faults>>

(* Behind that last read it takes the session, evicting whoever still holds *)
(* it, or is refused because somebody does and it asked to be.              *)
Attach ==
  /\ phase = "drain" /\ phase' = "flush"
  /\ client.who < MaxClients /\ client' = Client(client.who + 1, TRUE)
  /\ Detached
  /\ UNCHANGED <<ready, stop, sigterm, nextGen, retry, faults>>

Refuse ==
  /\ phase = "drain" /\ phase' = "flush" /\ Attached
  /\ UNCHANGED <<ready, stop, sigterm, chan, nextGen, retry, client, peers, faults>>

(* service_agent_channel: first the flush, which may end the channel ...    *)
Flush ==
  /\ phase = "flush" /\ phase' = "pull"
  /\ IF ~Serving \/ "out" \notin ready THEN UNCHANGED <<chan, peers, client>>
     ELSE IF chan.closing /\ Spent THEN Forget(Fed) /\ UNCHANGED client
     ELSE IF FlushFails THEN CloseChannel
     ELSE chan' = Flushed /\ peers' = Fed /\ UNCHANGED client
  /\ UNCHANGED <<ready, stop, sigterm, nextGen, retry, faults>>

(* ... then the read.  Requests go to the client as they come; an end of    *)
(* file ends the channel, a half-close being one; a closing channel is not  *)
(* read at all.                                                             *)
Pull ==
  /\ phase = "pull" /\ phase' = "accept"
  /\ IF Serving /\ "in" \in ready /\ ~chan.closing /\ PeerReadable
     THEN IF peers[chan.peer].asked > 0
          THEN /\ chan' = Touched(chan)
               /\ peers' = [peers EXCEPT ![chan.peer].asked = 0]
               /\ client' = Told(F("AgentData", chan.gen))
          ELSE CloseChannel
     ELSE UNCHANGED <<chan, peers, client>>
  /\ UNCHANGED <<ready, stop, sigterm, nextGen, retry, faults>>

(* accept_agent.  With no client the connection is dropped on the spot; so  *)
(* it is for another uid, or if it cannot be made nonblocking.              *)
Accept ==
  /\ phase = "accept" /\ phase' = "reread"
  /\ \/ /\ stop \/ "listener" \notin ready \/ Serving
        /\ UNCHANGED <<chan, nextGen, retry, client, peers, faults>>
     \/ /\ ~stop /\ "listener" \in ready /\ ~Serving
        /\ \E p \in Oldest(Backlog) :
             \/ /\ Attached
                /\ chan' = Opened(p, nextGen) /\ nextGen' = (nextGen + 1) % Wrap
                /\ peers' = [peers EXCEPT ![p].pos = "served"]
                /\ client' = Told([F("AgentOpen", nextGen) EXCEPT !.byte = [to |-> p, nth |-> 0]])
                /\ UNCHANGED <<retry, faults>>
             \/ /\ ~Attached \/ faults < MaxFaults
                /\ faults' = IF Attached THEN faults + 1 ELSE faults
                /\ peers' = [peers EXCEPT ![p].pos = "closed", ![p].asked = 0]
                /\ UNCHANGED <<chan, nextGen, retry, client>>
             \/ /\ faults < MaxFaults /\ faults' = faults + 1
                /\ retry' = "waiting"
                /\ UNCHANGED <<chan, nextGen, client, peers>>
  /\ UNCHANGED <<ready, stop, sigterm>>

(* write_client, as far as the queue's frames of the channel go.            *)
WriteClient ==
  /\ phase = "write" /\ phase' = IF stop THEN "stopping" ELSE "expire"
  /\ IF Attached /\ client.gone /\ client.tx # <<>> THEN Departs
     ELSE LET n == SmallerOf(SockCap - Len(client.down), Len(client.tx)) IN
          /\ client' = [client EXCEPT !.tx = DropFirst(@, n),
                                     !.down = @ \o SubSeq(client.tx, 1, n)]
          /\ UNCHANGED <<chan, peers>>
  /\ UNCHANGED <<ready, stop, sigterm, nextGen, retry, faults>>

(* The top of the loop: the deadlines that decide the poll set.  A client   *)
(* that closed the channel itself is not told of its end.                   *)
TellsRegardless == TRUE
NeverOwes == FALSE
OwesClose == ~chan.closing
Expire ==
  /\ phase = "expire" /\ phase' = "wait" /\ ready' = {}
  /\ retry' = IF retry = "due" THEN "none" ELSE retry
  /\ IF Serving /\ chan.due
     THEN /\ Forget(peers)
          /\ client' = IF OwesClose THEN Told(F("AgentClose", chan.gen)) ELSE client
     ELSE UNCHANGED <<chan, peers, client>>
  /\ UNCHANGED <<stop, sigterm, nextGen, faults>>

(* shutdown: the client leaves, and every connection goes with the process. *)
Shutdown ==
  /\ phase = "stopping" /\ phase' = "exited"
  /\ client' = Client(client.who, FALSE) /\ chan' = NoChannel
  /\ peers' = [p \in Peers |->
                 IF peers[p].pos \in {"backlog", "served"}
                 THEN [(IF p = chan.peer THEN Fed[p] ELSE peers[p])
                         EXCEPT !.pos = "closed", !.asked = 0]
                 ELSE peers[p]]
  /\ UNCHANGED <<ready, stop, sigterm, nextGen, retry, faults>>

-----------------------------------------------------------------------------
(* The world outside *)

Running == phase # "exited"
DaemonSame == UNCHANGED <<phase, ready, stop, nextGen, faults>>
Befell(what) == /\ what \in Befalls /\ faults < MaxFaults /\ faults' = faults + 1
                /\ UNCHANGED <<phase, ready, stop, nextGen>>

ChannelDeadline ==
  /\ Running /\ Serving /\ ~chan.due /\ chan' = [chan EXCEPT !.due = TRUE]
  /\ UNCHANGED <<sigterm, retry, client, peers>> /\ DaemonSame
AcceptBackoff ==
  /\ Running /\ retry = "waiting" /\ retry' = "due"
  /\ UNCHANGED <<sigterm, chan, client, peers>> /\ DaemonSame
SigTerm ==
  /\ Running /\ ~sigterm /\ sigterm' = TRUE
  /\ UNCHANGED <<chan, retry, client, peers>> /\ Befell("sigterm")

PeerMoves(p, now) ==
  /\ peers' = [peers EXCEPT ![p] = now]
  /\ UNCHANGED <<sigterm, chan, retry, client>>
PeerConnects(p) ==
  /\ Running /\ p \in Oldest({q \in Peers : peers[q].pos = "new"})
  /\ PeerMoves(p, [peers[p] EXCEPT !.pos = "backlog"]) /\ DaemonSame
PeerAsks(p) ==
  /\ peers[p].pos \in {"backlog", "served"} /\ peers[p].end = "open"
  /\ ~(p = chan.peer /\ chan.closing)
  /\ PeerMoves(p, [peers[p] EXCEPT !.asked = @ + 1])
  /\ Befell("ask")
PeerReads(p) ==
  /\ peers[p].down # <<>> /\ peers[p].end # "gone"
  /\ PeerMoves(p, [peers[p] EXCEPT !.got = @ \o peers[p].down, !.down = <<>>])
  /\ DaemonSame
PeerHalfCloses(p) ==
  /\ peers[p].pos \in {"backlog", "served"}
  /\ peers[p].end = "open" /\ PeerMoves(p, [peers[p] EXCEPT !.end = "fin"])
  /\ Befell("half_close")
PeerLeaves(p) ==
  /\ peers[p].pos \in {"backlog", "served"}
  /\ peers[p].end # "gone" /\ PeerMoves(p, [peers[p] EXCEPT !.end = "gone"])
  /\ Befell("leave")

(* The client reads its socket a frame at a time, and opens and closes its  *)
(* own end of the channel as it is told; it answers what it holds open.     *)
ClientMoves(now) ==
  client' = now /\ UNCHANGED <<sigterm, chan, retry, peers>>
Hears(f) ==
  [client EXCEPT !.down = Tail(@),
     !.open = IF f.type = "AgentOpen" THEN f.byte.to
              ELSE IF f.type = "AgentClose" /\ f.gen = client.gen THEN NoPeer ELSE @,
     !.gen  = IF f.type = "AgentOpen" THEN f.gen ELSE @,
     !.sent = IF f.type = "AgentOpen" THEN 0 ELSE @]
ClientReads ==
  Attached /\ ~client.gone /\ client.down # <<>> /\ ClientMoves(Hears(Head(client.down)))
  /\ DaemonSame
CanSay == Attached /\ ~client.gone /\ Len(client.up) < SockCap
ClientReplies ==
  /\ CanSay /\ client.open # NoPeer /\ client.sent < MaxReplies
  /\ LET byte == [to |-> client.open, nth |-> client.sent + 1] IN
     ClientMoves([client EXCEPT !.sent = @ + 1,
                    !.up = Append(@, [F("AgentData", client.gen) EXCEPT !.byte = byte])])
  /\ DaemonSame
ClientCloses ==
  /\ CanSay /\ client.open # NoPeer
  /\ ClientMoves([client EXCEPT !.open = NoPeer,
                     !.up = Append(@, F("AgentClose", client.gen))])
  /\ DaemonSame
ClientDetaches ==
  /\ CanSay
  /\ ClientMoves([client EXCEPT !.up = Append(@, F("Detach", 0))])
  /\ Befell("detach")
ClientDies ==
  /\ Attached /\ ~client.gone
  /\ ClientMoves([client EXCEPT !.gone = TRUE])
  /\ Befell("die")

-----------------------------------------------------------------------------
DaemonStep == \/ Poll \/ Decode \/ ReadEnds \/ TurnOver \/ Attach \/ Refuse
              \/ Flush \/ Pull
              \/ Accept \/ WriteClient \/ Expire \/ Shutdown
PeerStep == \E p \in Peers :
  PeerConnects(p) \/ PeerAsks(p) \/ PeerReads(p) \/ PeerHalfCloses(p) \/ PeerLeaves(p)
ClientStep == \/ ClientReads \/ ClientReplies \/ ClientCloses
              \/ ClientDetaches \/ ClientDies
Next == DaemonStep \/ PeerStep \/ ClientStep
          \/ ChannelDeadline \/ AcceptBackoff \/ SigTerm

Spec == Init /\ [][Next]_vars
=============================================================================
