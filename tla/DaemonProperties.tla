-------------------------- MODULE DaemonProperties --------------------------
(***************************************************************************)
(* What makes the session daemon correct.  Offsets stand for bytes, so     *)
(* "the right byte" is "the right offset".                                 *)
(***************************************************************************)
EXTENDS Daemon

(* Every variable has the values its Rust type, and the cap on it, allow.   *)
LoopOK ==
  /\ pc \in 0 .. Exited
  /\ ready \in [{"pty", "client", "hup", "pending", "listener"} -> BOOLEAN]
  /\ reading \in {"no", "fill", "decode", "drain", "greet"}
  /\ stop \in {"none", "signalled", "terminal", "shell"}
  /\ childSignalled \in BOOLEAN
  /\ acceptRetry \in {"none", "waiting", "due"}
StreamsOK ==
  /\ base \in Nat /\ end \in Nat /\ inApplied \in Nat
  /\ pendIn \in Seq(Nat \cup {CtrlL}) /\ fed \in Seq(Nat \cup {CtrlL})
  /\ dropped \in BOOLEAN
TerminalOK ==
  /\ pty \in BOOLEAN /\ closed \in BOOLEAN /\ observed \in BOOLEAN
  /\ outcome \in {"none", "exited", "unknown"}
  /\ {win, applied, ptyWin} \subseteq Sizes \cup {NoSize}
  /\ child \in {"none", "running", "exited"}
  /\ slave \in BOOLEAN /\ sigchld \in BOOLEAN /\ sigterm \in BOOLEAN
  /\ ptyOut \in 0 .. PtyCap /\ ptyIn \in 0 .. PtyCap
ConnectionsOK ==
  /\ client \in Conns \cup {NoConn} /\ pending \in Conns \cup {NoConn}
  /\ att \in Attachment
  /\ conn \in [Conns -> Connection]
  /\ idleDue \in BOOLEAN /\ pendDue \in BOOLEAN /\ graceDue \in BOOLEAN
ProgramsOK ==
  /\ cli \in [Clients -> Program]
  /\ faults \in 0 .. MaxFaults
  /\ owed \in Debt
TypeOK == LoopOK /\ StreamsOK /\ TerminalOK /\ ConnectionsOK /\ ProgramsOK

-----------------------------------------------------------------------------
(* Input *)

(* Input reaches the terminal exactly once (on_input, write_pty): the bytes *)
(* written to the PTY and then those queued for it are in stream order,     *)
(* none twice, all of them accounted for by in_applied -- and none missing, *)
(* unless the daemon ever had to throw acknowledged input away.  A replay   *)
(* after a reconnect, two connections of one client and a takeover in the   *)
(* middle of a paste all have to keep it.                                   *)
InputExactlyOnce ==
  LET s == fed \o pendIn IN
  /\ \A i, j \in DOMAIN s :
       i < j /\ s[i] # CtrlL /\ s[j] # CtrlL => s[i] < s[j]
  /\ \A i \in DOMAIN s : s[i] < inApplied
  /\ ~dropped => \A b \in 0 .. inApplied - 1 : \E i \in DOMAIN s : s[i] = b

(* A client that keeps to the protocol is never accused of skipping input   *)
(* (on_input's InputGap): whatever it pipelines behind a Hello is at or     *)
(* before what the session has applied.                                     *)
NobodyIsAccused ==
  \A c \in Conns : \A f \in SeqRange(conn[c].down \o conn[c].tx) : f.type # "InputGap"

(* An acknowledgement never runs ahead of what was applied, nor one client  *)
(* program's idea of its own next offset behind what was acknowledged.      *)
AcksAreTrue ==
  /\ \A c \in Conns : \A f \in SeqRange(conn[c].down \o conn[c].tx) :
       Acks(f) => Acked(f) <= inApplied
  /\ \A a \in Clients : cli[a].acked <= inApplied /\ cli[a].acked <= cli[a].next

(* The two ends never disagree about the input offset to the harm of either *)
(* (on_hello, on_input): both of the above.                                 *)
InputOffsetsAgree == NobodyIsAccused /\ AcksAreTrue

(* Read, then accept (read_pending): before a greeting is answered, every   *)
(* Input of the incumbent that one read could reach when it arrived is      *)
(* applied -- but for what a full PTY queue holds back undecoded, which its *)
(* sender was not told of and replays.  Whether the greeting then evicts it *)
(* or is refused, and whatever its readiness was when the pass began.       *)
TakeoverReadsFirst ==
  reading = "greet" /\ client # NoConn =>
    \A f \in SeqRange(owed.input) :
      f.type = "Input" =>
        EndOf(f) <= inApplied \/ (Saturated /\ f \in SeqRange(conn[client].rx))

-----------------------------------------------------------------------------
(* Output *)

Words(k) == k.down \o k.tx
Using(a, c) == cli[a].conn = c /\ conn[c].peer # "gone"

(* Where in the output the first i frames of s leave who stood at x.        *)
Places(x, s, i) ==
  LET P == {j \in 1 .. i : Positional(s[j])} IN
  IF P = {} THEN {x} ELSE {After(s[j]) : j \in LastOf(P)}

(* No silent hole (pump_output, on_hello): along what a client holds, what  *)
(* its socket holds and what is queued for it, every Output begins where    *)
(* the one before ended; only a Gap, or the HelloOk, moves the position,    *)
(* and neither takes it back from an offset this session could have         *)
(* reached.  The queue ends where sent_through says.                        *)
StreamIsContiguous ==
  \A a \in Clients, c \in Conns : Using(a, c) =>
    LET s == Words(conn[c]) IN
    /\ \A i \in DOMAIN s : \A place \in Places(cli[a].got, s, i - 1) :
         /\ s[i].type = "Output" => s[i].at = place
         /\ s[i].type = "Gap" => s[i].at > place
         /\ Positional(s[i]) /\ s[i].at < place => conn[c].hello.out > MaxOut
    /\ c = client =>
         /\ Places(cli[a].got, s, Len(s)) = {att.sent}
         /\ att.sent <= end

(* An Exit promises a complete transcript: it stands at the end of the      *)
(* output, the terminal is closed, and no output is ever queued behind it.  *)
ExitEndsTheTranscript ==
  \A c \in Conns :
    LET s == Words(conn[c]) IN
    \A i \in DOMAIN s : s[i].type = "Exit" =>
      /\ closed /\ s[i].at = end
      /\ \A j \in i + 1 .. Len(s) : ~Positional(s[j])
      /\ \A j \in 1 .. i - 1 : Positional(s[j]) => After(s[j]) <= end
      /\ \A j \in 1 .. i - 1 : Positional(s[j]) =>
           After(s[j]) = end \/ \E m \in j + 1 .. i - 1 : Positional(s[m])

(* MAX_PENDING_WRITE bounds the queue that output is added to: with the Gap *)
(* and the replies ahead of it, no output stands deeper than that, whatever *)
(* the ring holds and however long the client has not read.                 *)
OutputQueueIsBounded ==
  client # NoConn =>
    \A i \in DOMAIN conn[client].tx :
      conn[client].tx[i].type = "Output" => i <= MaxPendingWrite

(* ... and ABANDON_PENDING_WRITE bounds all the rest, replies that no other *)
(* cap holds back: a client that types and never reads is let go of before  *)
(* the daemon sleeps, and until then can have added to its queue no more    *)
(* than the answers to the three reads of one pass.                         *)
StalledClientIsLetGo ==
  client # NoConn =>
    /\ pc = Waiting => Queued(conn[client]) < AbandonPendingWrite
    /\ Queued(conn[client]) <= AbandonPendingWrite + 3 * MaxPendingRead

-----------------------------------------------------------------------------
(* The loop *)

(* The daemon never goes to sleep owing something no descriptor will remind *)
(* it of: a frame it could decode, an Exit or a repaint that is due, a      *)
(* half-closed client already told everything.  Input held back by a full   *)
(* PTY queue is the one exception, and there the PTY is being watched.      *)
SleepsOwingNothing ==
  pc = Waiting /\ client # NoConn =>
    LET k == conn[client] IN
    /\ HasFrame(k) \/ (k.eof /\ k.rx # <<>>) => Saturated /\ pty /\ ~closed
    /\ att.sent >= end => (TerminalEnd => att.endSent)
    /\ att.sent >= end /\ att.repaintDue => att.ctrlL /\ Saturated /\ ~closed
    /\ att.endSent /\ k.eof => Queued(k) > 0

(* A descriptor is held for the client and for the one pending connection,  *)
(* and for no other: no path through a refusal, a takeover, a failed read   *)
(* or an expired greeting leaves one behind, or serves one it closed.       *)
NoConnectionLeaks ==
  /\ {c \in Conns : conn[c].pos = "held"} = {client, pending} \ {NoConn}
  /\ client = pending => client = NoConn

(* Connecting is not attaching: the session passes only to a client whose   *)
(* Hello the daemon could answer, and from an incumbent only to one that    *)
(* did not ask to be refused instead.  The incumbent's connection is closed *)
(* then, behind all it was owed and the word that it was taken over from,   *)
(* if its socket had the room.                                              *)
OnlyAGreetingTakesOver ==
  [][client' \notin {client, NoConn} =>
       /\ conn[client'].own \in Clients
       /\ conn[client'].hello.kind \notin {"old", "bad"}
       /\ client # NoConn =>
            /\ conn[client'].hello.kind # "if_detached"
            /\ conn'[client].pos = "closed"
            /\ Room(conn[client]) > Queued(conn[client]) =>
                 conn'[client].down =
                   conn[client].down \o conn[client].tx \o <<SF("Takeover", 0, 0)>>]_vars

(* A Detach the incumbent had already sent frees the slot before            *)
(* if_detached is tested: the newcomer attaches.                            *)
DetachFreesTheSlot ==
  [][reading = "greet" /\ reading' # "greet" /\ owed.detach => client' = pending]_vars

-----------------------------------------------------------------------------
(* Liveness.  The daemon is one thread that runs whenever it can, time      *)
(* passes, and where a property says so the clients keep reading.           *)

DaemonFairness ==
  /\ WF_vars(DaemonStep)
  /\ WF_vars(IdleDeadline) /\ WF_vars(PendingDeadline)
  /\ WF_vars(OutcomeGrace) /\ WF_vars(AcceptBackoff)
FairSpec == Spec /\ DaemonFairness
ClientsRead == \A a \in Clients : WF_vars(ClientRead(a))

(* Whoever connects is heard, refused or timed out: nobody stays in the     *)
(* backlog or in the one pending slot for ever, however silent it is.       *)
Waits(c) == conn[c].pos = "backlog" \/ (conn[c].pos = "held" /\ c # client)
BacklogDrains == \A c \in Conns : Waits(c) ~> ~Waits(c)

(* A client that keeps reading gets everything: all output there is, and    *)
(* after the terminal closed the Exit, even if no status can be had.        *)
Current(a) == client # NoConn /\ cli[a].conn = client
OutputArrives ==
  ClientsRead =>
    \A a \in Clients :
      []<>(~Current(a) \/ (att.sent = end /\ Queued(conn[client]) = 0))
ExitArrives ==
  ClientsRead =>
    \A a \in Clients : Current(a) /\ closed ~> ~Current(a) \/ att.endSent

(* Both, over one terminal: the transcript arrives, whole and ended.        *)
TranscriptArrives == OutputArrives /\ ExitArrives

(* A session nobody is attached to ends when its limit is up, whatever      *)
(* probes, greetings or left-over connections it is handed meanwhile.       *)
IdleSessionEnds == <>[](client = NoConn) => <>(pc = Exited)

(* A peer that is gone is let go of, whatever keeps the daemon from reading *)
(* its socket to the end: a full PTY queue, a half-close, a slow greeting.  *)
GoneClientIsLetGo ==
  \A c \in Conns :
    conn[c].pos = "held" /\ conn[c].peer = "gone" ~> conn[c].pos # "held"


(* The terminal gets the size the client last asked for, whatever the       *)
(* kernel refused on the way.                                               *)
SizeConverges == []<>(client = NoConn \/ closed \/ ptyWin = win)
=============================================================================
