------------------------------- MODULE Daemon -------------------------------
(***************************************************************************)
(* The session daemon: one thread that loops over poll(2), owning a PTY,   *)
(* the output ring, the session socket, at most one attached client and at *)
(* most one connection that has not greeted yet (crates/nomux/src/         *)
(* daemon.rs, with the framed connection of conn.rs).                      *)
(*                                                                         *)
(* A pass of the loop takes a snapshot of what is ready and then runs the  *)
(* handlers of poll_once in a fixed order.  Between any two handlers, and  *)
(* between two frames of one decode loop, the peers, the child, the        *)
(* signals and the clock may move, so everything the snapshot says can be  *)
(* stale by the time it is used.                                           *)
(*                                                                         *)
(* Data is abstracted to what the properties tell apart.  An output or     *)
(* input byte is its offset in its stream.  A frame is a record of uniform *)
(* shape that counts one unit against every queue bound, and one Output    *)
(* frame carries one byte.  A deadline is a flag the clock may raise.      *)
(*                                                                         *)
(* An operator beside another that differs from it by a slip is a mutated  *)
(* form of it that some property is shown to tell apart; the specification *)
(* never uses it.                                                          *)
(***************************************************************************)
EXTENDS Integers, Sequences, FiniteSets

CONSTANTS
  Clients,       (* client programs that speak the protocol                *)
  MaxConns,      (* bound: connections ever made to the session socket     *)
  Sizes,         (* window sizes a client may ask for                      *)
  MaxOut,        (* bound: bytes the child ever writes                     *)
  MaxIn,         (* bound: bytes the clients ever type                     *)
  MaxFaults,     (* bound: calls the kernel fails, control frames clients  *)
                 (* send, and what befalls the session unasked, in all     *)
  RingCap,       (* NOMUX_RING_BYTES                                       *)
  MaxPendingWrite, AbandonPendingWrite, MaxPendingInput, MaxPendingRead,
  FillMax,       (* frames one successful read(2) of a socket takes        *)
  SockCap,       (* frames the kernel buffers for one direction            *)
  PtyCap,        (* bytes the kernel buffers for one direction of the PTY  *)
  ClientSays,    (* control frames clients send, and their ways to leave   *)
  HelloKinds,    (* kinds of greeting a client may open with               *)
  World,         (* what else may befall the session                       *)
  NoSize,        (* no window size: None, or one nobody asked for          *)
  Prober         (* owner of a bare connect(2), which never greets         *)

ASSUME BoundsAssumption ==
  /\ MaxConns \in Nat \ {0}
  /\ MaxOut \in Nat /\ MaxIn \in Nat /\ MaxFaults \in Nat
  /\ RingCap \in Nat \ {0}
  /\ MaxPendingWrite \in Nat \ {0}
  /\ AbandonPendingWrite \in Nat /\ AbandonPendingWrite > MaxPendingWrite + 1
  /\ MaxPendingInput \in Nat \ {0} /\ MaxPendingRead \in Nat \ {0}
  /\ FillMax \in Nat \ {0} /\ SockCap \in Nat \ {0, 1} /\ PtyCap \in Nat \ {0}

Leavings == {"Ping", "Resize", "Detach", "Bad", "Part", "Fin"}
Befalls == {"sigterm", "probe", "hangup", "exit", "close", "idle"}
Greetings == {"plain", "if_detached", "ctrl_l", "ahead", "old", "bad"}

ASSUME NamesAssumption ==
  /\ NoSize \notin Sizes /\ Prober \notin Clients
  /\ ClientSays \subseteq Leavings /\ HelloKinds \subseteq Greetings
  /\ World \subseteq Befalls

NoConn == 0
Conns == 1 .. MaxConns
RESUME_FROM_START == -1     \* u64::MAX on the wire: "I hold nothing"
CtrlL == -1                 \* the 0x0c of a repaint, in the PTY input queue

VARIABLES
  (* the event loop *)
  pc,            \* the earliest handler of the pass still to run
  ready,         \* the readiness snapshot poll(2) returned
  reading,       \* which decode loop is running, if any
  stop,          \* Daemon.stop
  childSignalled,\* Daemon.child_signalled
  (* the session *)
  base, end,     \* Ring: offsets of the oldest byte held and past the newest
  inApplied,     \* Daemon.in_applied
  pendIn,        \* Daemon.pending_input
  pty,           \* Daemon.pty.is_some()
  closed,        \* terminal_closed_at.is_some()
  observed,      \* Pty.observed
  outcome,       \* Daemon.outcome
  win, applied,  \* Daemon.win, Daemon.applied_win
  (* connections *)
  client, pending, \* the attached connection, the one yet to greet
  att,           \* the rest of Attached
  acceptRetry,   \* accept_retry: "none", or "waiting" until it is "due"
  conn,          \* every connection ever made, with its socket buffers
  (* deadlines, raised by the clock *)
  idleDue, pendDue, graceDue,
  (* the world outside *)
  child, slave,  \* the shell, and whether anything holds the slave open
  ptyOut, ptyIn, \* kernel buffers of the PTY, each way
  ptyWin,        \* the size the terminal really has
  sigchld, sigterm, \* a byte in each self-pipe
  cli,           \* the client programs
  faults,
  (* history *)
  fed,           \* every byte written to the PTY, in order
  dropped,       \* whether acknowledged input was ever thrown away
  owed           \* of an incumbent about to be read a last time: whether a
                 \* Detach is under way, and what that one read can reach

loopVars == <<pc, ready, reading, stop, childSignalled>>
ringVars == <<base, end>>
inVars   == <<inApplied, pendIn, dropped>>
termVars == <<pty, closed, observed, outcome>>
winVars  == <<win, applied>>
attVars  == <<client, pending, att>>
dueVars  == <<idleDue, pendDue, graceDue>>
shellVars == <<child, slave, sigchld>>
kernelVars == <<ptyOut, ptyIn, ptyWin, fed>>
daemonVars == <<loopVars, ringVars, inVars, termVars, winVars, attVars, acceptRetry>>
vars == <<daemonVars, conn, dueVars, shellVars, kernelVars, sigterm, cli, faults, owed>>

-----------------------------------------------------------------------------
(* Frames and connections *)

ClientFrameTypes == {"Hello", "Input", "Ping", "Resize", "Detach", "Bad", "Part"}
Refusals == {"Protocol", "Takeover", "Version", "InputGap", "Internal",
             "AlreadyAttached"}
ServerFrameTypes == {"HelloOk", "InputAck", "Output", "Gap", "Exit", "Pong"}
                      \cup Refusals

(* C->D: `at` is an Input's offset and `n` its length; a Resize names a     *)
(* size.  "Bad" does not parse or is not a client's to send; "Part" is the  *)
(* head of a frame whose rest never comes.                                  *)
ClientFrame ==
  [type : ClientFrameTypes, at : Nat, n : Nat, size : Sizes \cup {NoSize}]

(* D->C: `at` is an offset; an error is its code.  A HelloOk carries        *)
(* resume_from in `at` and in_applied in `n`.                               *)
ServerFrame == [type : ServerFrameTypes, at : Nat, n : Nat]

CF(type) == [type |-> type, at |-> 0, n |-> 0, size |-> NoSize]
InputFrame(at, n) == [CF("Input") EXCEPT !.at = at, !.n = n]
SF(type, at, n) == [type |-> type, at |-> at, n |-> n]

(* What a connection's greeting says, fixed when its owner connects.        *)
Hello == [out : Nat \cup {RESUME_FROM_START}, kind : Greetings,
          win : Sizes \cup {NoSize}]

(* `up`, `down`: the kernel's buffers towards and from the daemon.  `peer`: *)
(* the far end is open, has shut its write half, or is gone.  `rx`, `tx`,   *)
(* `eof`: Conn.  `pos`: where the connection stands with the daemon.        *)
Connection ==
  [own : Clients \cup {Prober}, hello : Hello,
   pos : {"free", "backlog", "held", "closed"}, peer : {"open", "fin", "gone"},
   up : Seq(ClientFrame), rx : Seq(ClientFrame), eof : BOOLEAN,
   tx : Seq(ServerFrame), down : Seq(ServerFrame)]

SmallerOf(a, b) == IF a < b THEN a ELSE b
LargerOf(a, b) == IF a < b THEN b ELSE a
SeqRange(s) == {s[i] : i \in DOMAIN s}
DropFirst(s, n) == SubSeq(s, n + 1, Len(s))

(* Conn::queued and Conn::buffered. *)
Queued(k) == Len(k.tx)
Buffered(k) == Len(k.rx)
HasFrame(k) == k.rx # <<>> /\ Head(k.rx).type # "Part"

(* Conn::send *)
Sent(k, f) == [k EXCEPT !.tx = Append(@, f)]

(* What the kernel accepts of a send queue at once: nothing if the peer is  *)
(* gone, else as much as its buffer has room for.                           *)
Room(k) == IF k.peer = "gone" THEN 0 ELSE LargerOf(0, SockCap - Len(k.down))
Written(k, n) ==
  [k EXCEPT !.tx = DropFirst(@, n), !.down = @ \o SubSeq(k.tx, 1, n)]

(* Conn::flush_some; a gone peer answers the first write with EPIPE.        *)
Flushed(k) == Written(k, SmallerOf(Room(k), Queued(k)))
FlushFails(k) == k.peer = "gone" /\ k.tx # <<>>

(* The end of a Conn: drop closes the socket, and what it still had queued  *)
(* is lost; what the kernel took stays readable at the far end.             *)
Closed(k) ==
  [k EXCEPT !.pos = "closed", !.tx = <<>>, !.rx = <<>>, !.up = <<>>, !.eof = FALSE]

(* Conn::close_with waits up to FINAL_FLUSH_TIMEOUT for a slow peer, so any *)
(* prefix at least as long as the room there is now may get out.            *)
FinalFlushes(k) ==
  IF k.peer = "gone" THEN {Closed(k)}
  ELSE {Closed(Written(k, n)) : n \in SmallerOf(Room(k), Queued(k)) .. Queued(k)}

(* Conn::fill: one bounded read, then no more until the next call.  Data    *)
(* still in the socket outlives its sender; behind it is an end of file, or *)
(* ECONNRESET where the peer left something unread.                         *)
Filled(k) ==
  LET n == SmallerOf(SmallerOf(FillMax, MaxPendingRead - Buffered(k)), Len(k.up))
  IN  IF Buffered(k) >= MaxPendingRead THEN k
      ELSE [k EXCEPT !.rx = @ \o SubSeq(k.up, 1, n), !.up = DropFirst(@, n),
                     !.eof = k.up = <<>> /\ k.peer # "open"]
FillFails(k) ==
  /\ Buffered(k) < MaxPendingRead
  /\ k.up = <<>> /\ k.peer = "gone" /\ k.down # <<>>
Readable(k) == k.up # <<>> \/ k.peer # "open"

FreeConn == [own |-> Prober, pos |-> "free", peer |-> "open", up |-> <<>>,
             hello |-> [out |-> 0, kind |-> "plain", win |-> NoSize],
             rx |-> <<>>, eof |-> FALSE, tx |-> <<>>, down |-> <<>>]
Backlog == {c \in Conns : conn[c].pos = "backlog"}
Oldest(S) == {c \in S : \A d \in S : c <= d}

(* Attached, less its Conn. *)
Attachment == [sent : Nat, endSent : BOOLEAN, ctrlL : BOOLEAN, repaintDue : BOOLEAN]
NoAtt == [sent |-> 0, endSent |-> FALSE, ctrlL |-> FALSE, repaintDue |-> FALSE]

(* What a client program keeps between connections: the connection it uses, *)
(* the output offset it holds, the input acknowledged to it, the next input *)
(* offset it will use, and whether it may type yet.                         *)
Program == [conn : Conns \cup {NoConn}, got : Nat \cup {RESUME_FROM_START},
            acked : Nat, next : Nat, live : BOOLEAN]
NewProgram == [conn |-> NoConn, got |-> RESUME_FROM_START, acked |-> 0,
               next |-> 0, live |-> FALSE]

Debt == [detach : BOOLEAN, input : Seq(ClientFrame)]
NothingOwed == [detach |-> FALSE, input |-> <<>>]

Init ==
  /\ pc = 0 /\ reading = "no" /\ stop = "none" /\ childSignalled = FALSE
  /\ ready = [s \in {"pty", "client", "hup", "pending", "listener"} |-> FALSE]
  /\ base = 0 /\ end = 0
  /\ inApplied = 0 /\ pendIn = <<>> /\ dropped = FALSE
  /\ pty = FALSE /\ closed = FALSE /\ observed = FALSE /\ outcome = "none"
  /\ win = NoSize /\ applied = NoSize
  /\ client = NoConn /\ pending = NoConn /\ att = NoAtt /\ acceptRetry = "none"
  /\ conn = [c \in Conns |-> FreeConn]
  /\ idleDue = FALSE /\ pendDue = FALSE /\ graceDue = FALSE
  /\ child = "none" /\ slave = FALSE /\ sigchld = FALSE /\ sigterm = FALSE
  /\ ptyOut = 0 /\ ptyIn = 0 /\ ptyWin = NoSize /\ fed = <<>>
  /\ cli = [a \in Clients |-> NewProgram]
  /\ faults = 0 /\ owed = NothingOwed

Fault == faults < MaxFaults /\ faults' = faults + 1

-----------------------------------------------------------------------------
(* The loop: wait, then the handlers of poll_once in order *)

Waiting == 0
Stopping == 13
Exited == 14

Saturated == Len(pendIn) >= MaxPendingInput
NoBacklog == FALSE
InputBacklog == ~Saturated /\ client # NoConn /\ Buffered(conn[client]) > 0

GraceOver == closed /\ graceDue /\ outcome = "none"
WorthAWaitpid ==
  childSignalled \/ (closed /\ (outcome = "none" \/ (pty /\ ~observed)))

OutcomeKnown == outcome # "none"
TerminalEnd == closed /\ outcome # "none"
PumpsOutputOnly == att.sent < end /\ Queued(conn[client]) < MaxPendingWrite
PumpHasWork ==
  \/ att.sent < end /\ Queued(conn[client]) < MaxPendingWrite
  \/ att.sent >= end /\ (att.repaintDue \/ (TerminalEnd /\ ~att.endSent))

(* Whether handler s of the pass would do anything now. *)
Work(s) ==
  \/ s = 1 /\ ready["pty"]
  \/ s = 2 /\ client # NoConn /\ (ready["client"] \/ InputBacklog)
  \/ s = 3 /\ client # NoConn /\ ready["hup"]
  \/ s = 4 /\ stop = "none" /\ ready["pending"]
  \/ s = 5 /\ stop = "none" /\ ready["listener"]
  \/ s = 6 /\ pty /\ applied # win
  \/ s = 7 /\ pty /\ pendIn # <<>>
  \/ s = 8 /\ InputBacklog
  \/ s = 9 /\ (WorthAWaitpid \/ GraceOver)
  \/ s = 10 /\ client # NoConn /\ PumpHasWork
  \/ s = 11 /\ client # NoConn
     /\ (Queued(conn[client]) > 0 \/ (att.endSent /\ conn[client].eof))

(* The pass has come to handler s, every earlier one having had nothing to  *)
(* do; the next one to run is a later one.                                  *)
At(s) ==
  /\ pc \in 1 .. s /\ reading = "no" /\ Work(s)
  /\ \A t \in pc .. (s - 1) : ~Work(t)
  /\ pc' = s + 1

(* The client is watched with an empty mask too: HUP is reported whatever   *)
(* the mask asks for.                                                       *)
HungUpIfWatched ==
  /\ client # NoConn /\ conn[client].peer = "gone"
  /\ (~Saturated /\ ~conn[client].eof) \/ Queued(conn[client]) > 0 \/ att.sent < end
HungUp == client # NoConn /\ conn[client].peer = "gone"

(* watch_for and what poll(2) answers: IN and HUP by source.                *)
Snapshot(s) ==
  \/ s = "pty" /\ pty /\ ~closed /\ (ptyOut > 0 \/ ~slave)
  \/ s = "client" /\ HungUp
  \/ s = "client" /\ client # NoConn
     /\ ~Saturated /\ ~conn[client].eof /\ Readable(conn[client])
  \/ s = "hup" /\ HungUp
  \/ s = "pending" /\ pending # NoConn /\ Readable(conn[pending])
  \/ s = "listener" /\ pending = NoConn /\ acceptRetry = "none" /\ Backlog # {}

(* ... and OUT, which only ever wakes the loop: the ring's bytes still owed *)
(* count as wanting to write.                                               *)
CanTake(k) == k.peer = "gone" \/ Room(k) > 0
PtyWritable == pty /\ ~closed /\ pendIn # <<>> /\ (ptyIn < PtyCap \/ ~slave)
WritableQueueOnly ==
  \/ client # NoConn /\ Queued(conn[client]) > 0 /\ CanTake(conn[client])
  \/ PtyWritable
Writable ==
  \/ /\ client # NoConn /\ (Queued(conn[client]) > 0 \/ att.sent < end)
     /\ CanTake(conn[client])
  \/ PtyWritable

(* poll_timeout, less IDLE_TICK: a wakeup nothing else arranges is missing. *)
IdleTimeout == idleDue /\ client = NoConn
ResizeRetry == pty /\ client # NoConn /\ ~closed /\ applied # win
NoIdleTimeout    == pendDue \/ acceptRetry = "due" \/ GraceOver \/ ResizeRetry
NoPendingTimeout == IdleTimeout \/ acceptRetry = "due" \/ GraceOver \/ ResizeRetry
NoResizeTimeout  == IdleTimeout \/ pendDue \/ acceptRetry = "due" \/ GraceOver
TimeoutDue == IdleTimeout \/ pendDue \/ acceptRetry = "due" \/ GraceOver \/ ResizeRetry

SomethingReady == \E s \in DOMAIN ready : Snapshot(s)
Wakes == SomethingReady \/ sigterm \/ sigchld \/ Writable \/ TimeoutDue

(* poll(2) returns; the pass opens with the two self-pipes.  EINTR finds    *)
(* nothing ready, a pipe's byte included.                                   *)
Poll ==
  /\ pc = Waiting /\ Wakes /\ pc' = 1
  /\ \/ /\ ready' = [s \in DOMAIN ready |-> Snapshot(s)]
        /\ stop' = IF sigterm /\ stop = "none" THEN "signalled" ELSE stop
        /\ childSignalled' = (childSignalled \/ sigchld)
        /\ sigchld' = FALSE
        /\ UNCHANGED faults
     \/ /\ sigterm \/ sigchld
        /\ Fault
        /\ UNCHANGED <<ready, stop, childSignalled, sigchld>>
  /\ UNCHANGED <<reading, ringVars, inVars, termVars, winVars, attVars,
                 acceptRetry, conn, dueVars, child, slave, kernelVars, sigterm, owed, cli>>

(* poll(2) fails but for EINTR, as it may whatever there is to wake for:    *)
(* that alone is the loop's own failure, and the daemon goes to its end.    *)
PollFails ==
  /\ pc = Waiting /\ pc' = Stopping /\ Fault
  /\ UNCHANGED <<ready, reading, stop, childSignalled, ringVars, inVars, termVars,
                 winVars, attVars, acceptRetry, conn, dueVars, shellVars, kernelVars,
                 sigterm, owed, cli>>

StopReason == stop # "none" \/ (client = NoConn /\ idleDue)

(* The end of a pass and the top of the next: stop_reason, and what wait    *)
(* expires before it blocks.                                                *)
EndPass ==
  /\ pc \in 1 .. 12 /\ reading = "no" /\ \A s \in pc .. 11 : ~Work(s)
  /\ ready' = [s \in DOMAIN ready |-> FALSE]
  /\ IF StopReason
     THEN pc' = Stopping /\ UNCHANGED <<acceptRetry, pending, pendDue, conn>>
     ELSE /\ pc' = Waiting
          /\ acceptRetry' = IF acceptRetry = "due" THEN "none" ELSE acceptRetry
          /\ pending' = IF pendDue THEN NoConn ELSE pending
          /\ conn' = IF pendDue THEN [conn EXCEPT ![pending] = Closed(@)] ELSE conn
          /\ pendDue' = FALSE
  /\ UNCHANGED <<reading, stop, childSignalled, ringVars, inVars, termVars, winVars,
                 client, att, idleDue, graceDue, shellVars, kernelVars, sigterm, owed,
                 cli, faults>>

-----------------------------------------------------------------------------
(* Losing the client *)

(* drop_client: what the socket takes this instant, then on_detached.  `cn` *)
(* is the connections as the caller has already changed them.               *)
Drop(cn) ==
  /\ conn' = [cn EXCEPT ![client] = Closed(Flushed(@))]
  /\ client' = NoConn /\ att' = NoAtt /\ idleDue' = FALSE

Tell(cn, f) == [cn EXCEPT ![client] = Sent(@, f)]
Reject(cn, code) == Drop(Tell(cn, SF(code, 0, 0)))

HangUp ==
  /\ At(3) /\ Drop(conn)
  /\ UNCHANGED <<ready, reading, stop, childSignalled, ringVars, inVars, termVars,
                 winVars, pending, acceptRetry, pendDue, graceDue, shellVars,
                 kernelVars, sigterm, owed, cli, faults>>

-----------------------------------------------------------------------------
(* The terminal *)

LosesInput(s) == \E i \in DOMAIN s : s[i] # CtrlL

(* Ring::push, as offsets. *)
Push(n) == /\ end' = end + n
           /\ base' = LargerOf(base, end + n - RingCap)

ReadPty ==
  /\ At(1)
  /\ \/ /\ ptyOut > 0
        /\ Push(ptyOut) /\ ptyOut' = 0
        /\ UNCHANGED <<inVars, closed, stop, client, att, conn, idleDue, faults>>
     \/ /\ ptyOut = 0 /\ ~slave          \* end of file: on_terminal_closed
        /\ closed' = TRUE
        /\ pendIn' = <<>> /\ dropped' = (dropped \/ LosesInput(pendIn))
        /\ UNCHANGED <<ringVars, ptyOut, inApplied, stop, client, att, conn, idleDue, faults>>
     \/ /\ Fault
        /\ stop' = IF stop = "none" THEN "terminal" ELSE stop
        /\ IF client # NoConn THEN Reject(conn, "Internal")
           ELSE UNCHANGED <<client, att, conn, idleDue>>
        /\ UNCHANGED <<ringVars, ptyOut, inVars, closed>>
  /\ UNCHANGED <<ready, reading, childSignalled, pty, observed, outcome, winVars,
                 pending, acceptRetry, pendDue, graceDue, shellVars, ptyIn, ptyWin,
                 fed, sigterm, owed, cli>>

(* A refused TIOCSWINSZ leaves the size unknown, to be set again.           *)
ApplyWin ==
  /\ At(6)
  /\ \/ applied' = win /\ ptyWin' = win /\ UNCHANGED faults
     \/ Fault /\ applied' = NoSize /\ UNCHANGED ptyWin
  /\ UNCHANGED <<ready, reading, stop, childSignalled, ringVars, inVars, termVars, win,
                 attVars, acceptRetry, conn, dueVars, shellVars, ptyOut, ptyIn, fed,
                 sigterm, owed, cli>>

(* drain_to: one writev takes what fits, EAGAIN nothing.  A failure costs   *)
(* the whole queue, and a terminal nobody holds open answers EIO.           *)
WritePty ==
  /\ At(7)
  /\ \/ /\ slave
        /\ LET n == SmallerOf(PtyCap - ptyIn, Len(pendIn)) IN
           /\ pendIn' = DropFirst(pendIn, n)
           /\ fed' = fed \o SubSeq(pendIn, 1, n)
           /\ ptyIn' = ptyIn + n
        /\ UNCHANGED <<dropped, faults>>
     \/ /\ ~slave \/ faults < MaxFaults
        /\ faults' = IF slave THEN faults + 1 ELSE faults
        /\ pendIn' = <<>> /\ dropped' = (dropped \/ LosesInput(pendIn))
        /\ UNCHANGED <<fed, ptyIn>>
  /\ UNCHANGED <<ready, reading, stop, childSignalled, ringVars, inApplied, termVars,
                 winVars, attVars, acceptRetry, conn, dueVars, shellVars, ptyOut,
                 ptyWin, sigterm, owed, cli>>

(* Pty::try_outcome: waitid, with WNOWAIT, reports the child's end once; the *)
(* call may fail.                                                           *)
TryOutcome(answer) ==
  \/ answer = "ended" /\ ~observed /\ child = "exited" /\ observed' = TRUE /\ UNCHANGED faults
  \/ answer = "nothing" /\ (observed \/ child = "running") /\ UNCHANGED <<observed, faults>>
  \/ answer = "failed" /\ ~observed /\ Fault /\ UNCHANGED observed

(* Asked once a signal or the end of the terminal makes it worth it; an     *)
(* unobservable child becomes Unknown at once after the terminal's end, and *)
(* OUTCOME_GRACE later in any case.                                         *)
CollectOutcome ==
  /\ At(9)
  /\ childSignalled' = FALSE
  /\ \/ /\ \/ ~WorthAWaitpid /\ UNCHANGED <<observed, faults>>
           \/ WorthAWaitpid /\ TryOutcome("nothing")
        /\ outcome' = IF GraceOver THEN "unknown" ELSE outcome
     \/ /\ WorthAWaitpid /\ TryOutcome("ended")
        /\ outcome' = IF outcome = "none" THEN "exited" ELSE outcome
     \/ /\ WorthAWaitpid /\ TryOutcome("failed")
        /\ outcome' = IF closed THEN "unknown" ELSE outcome
  /\ UNCHANGED <<ready, reading, stop, ringVars, inVars, pty, closed, winVars, attVars,
                 acceptRetry, conn, dueVars, shellVars, kernelVars, sigterm, owed, cli>>

-----------------------------------------------------------------------------
(* Reading frames *)

(* One read of the attached client's socket, and on to decoding; a client   *)
(* whose write half is shut is not asked again.                             *)
FillClient(cn, next) ==
  IF ~cn[client].eof /\ FillFails(cn[client])
  THEN Drop(cn) /\ reading' = IF next = "drain" THEN "greet" ELSE "no"
  ELSE /\ conn' = [cn EXCEPT ![client] = IF @.eof THEN @ ELSE Filled(@)]
       /\ reading' = next
       /\ UNCHANGED <<client, att, idleDue>>

ReadClient ==
  /\ \/ At(2) \/ At(8)
     \/ reading = "fill" /\ UNCHANGED pc   \* behind a Hello: on_hello's last step
  /\ FillClient(conn, "decode")
  /\ UNCHANGED <<ready, stop, childSignalled, ringVars, inVars, termVars, winVars,
                 pending, acceptRetry, pendDue, graceDue, shellVars, kernelVars,
                 sigterm, owed, cli, faults>>

(* What an Input adds to what is already applied, a replay trimmed away.    *)
Untrimmed(f) == [i \in 1 .. f.n |-> f.at + i - 1]
Fresh(f) == [i \in 1 .. (f.at + f.n - inApplied) |-> inApplied + i - 1]

SkipsAhead(f) == f.at > inApplied
EndOf(f) == f.at + f.n
AppliedThrough(f) == LargerOf(inApplied, f.at + f.n)

(* Exactly once: what is already applied is trimmed, what skips ahead is    *)
(* refused, and every Input is answered.                                    *)
OnInput(f, cn) ==
  IF SkipsAhead(f) THEN Reject(cn, "InputGap") /\ UNCHANGED inVars
  ELSE /\ inApplied' = AppliedThrough(f)
       /\ pendIn' = IF closed THEN pendIn ELSE pendIn \o Fresh(f)
       /\ dropped' = (dropped \/ (closed /\ Fresh(f) # <<>>))
       /\ conn' = Tell(cn, SF("InputAck", AppliedThrough(f), 0))
       /\ UNCHANGED <<client, att, idleDue>>

HandleFrame(f, cn) ==
  \/ f.type = "Input" /\ OnInput(f, cn) /\ UNCHANGED win
  \/ f.type = "Resize" /\ win' = f.size /\ conn' = cn
     /\ UNCHANGED <<inVars, client, att, idleDue>>
  \/ f.type = "Ping" /\ conn' = Tell(cn, SF("Pong", 0, 0))
     /\ UNCHANGED <<inVars, win, client, att, idleDue>>
  \/ f.type = "Detach" /\ Drop(cn) /\ UNCHANGED <<inVars, win>>
  \/ f.type \in {"Hello", "Bad"} /\ Reject(cn, "Protocol") /\ UNCHANGED <<inVars, win>>

(* The decode loop stops between frames once the PTY queue is full, and is  *)
(* over when the client is gone or no whole frame is left.                  *)
MoreToDecode == client # NoConn /\ ~Saturated /\ HasFrame(conn[client])

Decode ==
  /\ reading \in {"decode", "drain"} /\ MoreToDecode
  /\ HandleFrame(Head(conn[client].rx), [conn EXCEPT ![client].rx = Tail(@)])
  /\ UNCHANGED <<pc, ready, reading, stop, childSignalled, ringVars, termVars, applied,
                 pending, acceptRetry, pendDue, graceDue, shellVars, kernelVars,
                 sigterm, owed, cli, faults>>

Truncated == /\ client # NoConn /\ ~Saturated
             /\ conn[client].eof /\ Buffered(conn[client]) > 0

DecodeEnds ==
  /\ reading \in {"decode", "drain"} /\ ~MoreToDecode
  /\ reading' = IF reading = "drain" THEN "greet" ELSE "no"
  /\ IF Truncated THEN Reject(conn, "Protocol")
     ELSE UNCHANGED <<conn, client, att, idleDue>>
  /\ UNCHANGED <<pc, ready, stop, childSignalled, ringVars, inVars, termVars, winVars,
                 pending, acceptRetry, pendDue, graceDue, shellVars, kernelVars,
                 sigterm, owed, cli, faults>>

-----------------------------------------------------------------------------
(* Connections that have not greeted *)

(* Backlog order is the order of connecting.  A connection may be turned    *)
(* away before it takes the slot (a peer of another uid, a descriptor that  *)
(* cannot be made nonblocking); accept(2) itself may fail.                  *)
Accept ==
  /\ At(5)
  /\ \/ \E c \in Oldest(Backlog) :
          /\ conn' = [conn EXCEPT ![c].pos = "held"]
          /\ pending' = c /\ pendDue' = FALSE
          /\ UNCHANGED <<acceptRetry, faults>>
     \/ \E c \in Oldest(Backlog) :
          /\ Fault /\ conn' = [conn EXCEPT ![c] = Closed(@)]
          /\ UNCHANGED <<pending, pendDue, acceptRetry>>
     \/ Fault /\ acceptRetry' = "waiting" /\ UNCHANGED <<pending, pendDue, conn>>
  /\ UNCHANGED <<ready, reading, stop, childSignalled, ringVars, inVars, termVars,
                 winVars, client, att, idleDue, graceDue, shellVars, kernelVars,
                 sigterm, owed, cli>>

Dismiss(cn, k) == /\ conn' = [cn EXCEPT ![pending] = k]
                  /\ pending' = NoConn /\ pendDue' = FALSE

RejectPending(cn, code) ==
  \E k \in FinalFlushes(Sent(cn[pending], SF(code, 0, 0))) : Dismiss(cn, k)

NeverDrained == FALSE
Incumbent == client # NoConn
Answerable(h) == h.kind # "old"

(* What the incumbent has on its way when a greeting arrives: whether there *)
(* is a Detach in it at all, and the frames one bounded read can reach.     *)
WithinOneRead(k) ==
  SubSeq(k.rx \o k.up, 1,
         SmallerOf(Len(k.rx) + Len(k.up),
                   LargerOf(Buffered(k), SmallerOf(MaxPendingRead, Buffered(k) + FillMax))))
OwedTo(k) == [detach |-> \E f \in SeqRange(k.rx \o k.up) : f.type = "Detach",
              input  |-> WithinOneRead(k)]

(* The first half of read_pending: a connection owns nothing until a Hello  *)
(* this daemon can answer, and even then the incumbent is read once more    *)
(* before it is displaced.                                                  *)
ReadPending ==
  /\ At(4)
  /\ LET k  == Filled(conn[pending])
         cn == [conn EXCEPT ![pending] = k]
         greeted == [cn EXCEPT ![pending].rx = Tail(@)] IN
     \/ /\ FillFails(conn[pending]) \/ (~HasFrame(k) /\ k.eof)
        /\ Dismiss(cn, Closed(k))
        /\ UNCHANGED <<reading, client, att, idleDue, owed>>
     \/ /\ ~FillFails(conn[pending]) /\ ~HasFrame(k) /\ ~k.eof
        /\ conn' = cn
        /\ UNCHANGED <<reading, client, att, idleDue, pending, pendDue, owed>>
     \/ /\ HasFrame(k) /\ Head(k.rx).type # "Hello"
        /\ RejectPending(cn, "Protocol")
        /\ UNCHANGED <<reading, client, att, idleDue, owed>>
     \/ /\ HasFrame(k) /\ Head(k.rx).type = "Hello" /\ ~Answerable(k.hello)
        /\ RejectPending(greeted, "Version")
        /\ UNCHANGED <<reading, client, att, idleDue, owed>>
     \/ /\ HasFrame(k) /\ Head(k.rx).type = "Hello" /\ Answerable(k.hello)
        /\ owed' = IF client = NoConn THEN NothingOwed ELSE OwedTo(conn[client])
        /\ IF Incumbent THEN FillClient(greeted, "drain")
           ELSE conn' = greeted /\ reading' = "greet" /\ UNCHANGED <<client, att, idleDue>>
        /\ UNCHANGED <<pending, pendDue>>
  /\ UNCHANGED <<ready, stop, childSignalled, ringVars, inVars, termVars, winVars,
                 acceptRetry, graceDue, shellVars, kernelVars, sigterm, cli, faults>>


(* on_hello's answer: clamped into the ring at both ends, a gap only for a  *)
(* client that said what it holds.                                          *)
ResumeFrom(h) == IF h.out = RESUME_FROM_START THEN base
                 ELSE LargerOf(SmallerOf(h.out, end), base)
Greeted(h) ==
  [sent |-> ResumeFrom(h), endSent |-> FALSE, ctrlL |-> h.kind = "ctrl_l",
   repaintDue |-> h.out # RESUME_FROM_START /\ ResumeFrom(h) > h.out]

(* The second half, the session being settled on the new client: promoted   *)
(* into `cn`, where the incumbent is already gone; the first ever starts    *)
(* the shell, and one that cannot be started ends the daemon.               *)
OnHello(cn) ==
  LET h == conn[pending].hello IN
  /\ win' = h.win /\ applied' = NoSize
  /\ pending' = NoConn /\ pendDue' = FALSE /\ idleDue' = FALSE
  /\ \/ /\ client' = pending /\ att' = Greeted(h) /\ reading' = "fill"
        /\ conn' = [cn EXCEPT ![pending] =
                      Sent(@, SF("HelloOk", ResumeFrom(h), inApplied))]
        /\ pty' = TRUE
        /\ IF pty THEN UNCHANGED <<child, slave, ptyWin>>
           ELSE child' = "running" /\ slave' = TRUE /\ ptyWin' = h.win
        /\ UNCHANGED <<stop, faults>>
     \/ /\ ~pty /\ Fault
        /\ client' = NoConn /\ att' = NoAtt /\ reading' = "no" /\ stop' = "shell"
        /\ conn' = [cn EXCEPT ![pending] =
                      Closed(Flushed(Sent(@, SF("Internal", 0, 0))))]
        /\ UNCHANGED <<pty, child, slave, ptyWin>>

Evictions == IF client = NoConn THEN {conn}
             ELSE {[conn EXCEPT ![client] = k] :
                     k \in FinalFlushes(Sent(conn[client], SF("Takeover", 0, 0)))}

NeverOccupied(h) == FALSE
Occupied(h) == h.kind = "if_detached" /\ client # NoConn

Greet ==
  /\ reading = "greet" /\ owed' = NothingOwed
  /\ IF Occupied(conn[pending].hello)
     THEN /\ RejectPending(conn, "AlreadyAttached") /\ reading' = "no"
          /\ UNCHANGED <<stop, win, applied, client, att, idleDue, pty, child, slave,
                         ptyWin, faults>>
     ELSE \E cn \in Evictions : OnHello(cn)
  /\ UNCHANGED <<pc, ready, childSignalled, ringVars, inVars, closed, observed, outcome,
                 acceptRetry, graceDue, sigchld, ptyOut, ptyIn, fed, sigterm, cli>>

-----------------------------------------------------------------------------
(* Sending *)

(* pump_output's stream part: a Gap for what the ring has dropped, then one *)
(* Output per byte while the queue is under MAX_PENDING_WRITE.              *)
NoGapFrames == <<>>
GapFrames == IF att.sent < base THEN <<SF("Gap", base, 0)>> ELSE <<>>
Outputs(from, n) == [i \in 1 .. n |-> SF("Output", from + i - 1, 0)]
PumpRoom == LargerOf(0, MaxPendingWrite - (Queued(conn[client]) + Len(GapFrames)))
Streamed ==
  LET from == LargerOf(att.sent, base)
      n    == SmallerOf(PumpRoom, end - from)
  IN  IF att.sent < end /\ Queued(conn[client]) < MaxPendingWrite
      THEN [frames |-> GapFrames \o Outputs(from, n), sent |-> from + n,
            gap |-> att.sent < base]
      ELSE [frames |-> <<>>, sent |-> att.sent, gap |-> FALSE]

RepaintHeld == ~closed /\ att.ctrlL /\ Saturated

(* Pty::nudge_repaint: one column narrower and back, of which the kernel    *)
(* may refuse either.                                                       *)
NudgeRepaint(due) ==
  \/ ptyWin' = (IF due THEN win ELSE ptyWin) /\ UNCHANGED <<applied, faults>>
  \/ due /\ Fault /\ applied' = NoSize /\ ptyWin' \in {ptyWin, NoSize}

(* Exit only behind the whole transcript; a repaint only once the client    *)
(* holds all of the ring, and put off while the PTY queue is full.          *)
PumpOutput ==
  /\ At(10)
  /\ LET exits    == TerminalEnd /\ ~att.endSent /\ Streamed.sent >= end
         repaints == (att.repaintDue \/ Streamed.gap) /\ Streamed.sent >= end IN
     /\ conn' = [conn EXCEPT ![client].tx = @ \o Streamed.frames \o
                   (IF exits THEN <<SF("Exit", end, 0)>> ELSE <<>>)]
     /\ att' = [att EXCEPT !.sent = Streamed.sent, !.endSent = @ \/ exits,
                  !.repaintDue = (@ \/ Streamed.gap) /\ ~(repaints /\ ~RepaintHeld)]
     /\ pendIn' = IF repaints /\ ~RepaintHeld /\ ~closed /\ att.ctrlL
                  THEN Append(pendIn, CtrlL) ELSE pendIn
     /\ NudgeRepaint(repaints /\ ~closed /\ ~att.ctrlL)
  /\ UNCHANGED <<ready, reading, stop, childSignalled, ringVars, inApplied, dropped,
                 termVars, win, client, pending, acceptRetry, dueVars, shellVars,
                 ptyOut, ptyIn, fed, sigterm, owed, cli>>

(* ABANDON_PENDING_WRITE: a client that lets its replies pile up is let go. *)
NeverAbandoned(k) == FALSE
Abandoned(k) == Queued(k) >= AbandonPendingWrite

WriteClient ==
  /\ At(11)
  /\ LET k == Flushed(conn[client]) IN
     IF \/ FlushFails(conn[client])
        \/ Abandoned(k)
        \/ att.endSent /\ k.eof /\ Queued(k) = 0
     THEN Drop(conn)
     ELSE conn' = [conn EXCEPT ![client] = k] /\ UNCHANGED <<client, att, idleDue>>
  /\ UNCHANGED <<ready, reading, stop, childSignalled, ringVars, inVars, termVars,
                 winVars, pending, acceptRetry, pendDue, graceDue, shellVars,
                 kernelVars, sigterm, owed, cli, faults>>

(* shutdown: what the client is owed, then the session's processes, then    *)
(* the run files; the process's end closes the backlog with the listener.   *)
Shutdown ==
  /\ pc = Stopping /\ pc' = Exited
  /\ \E k \in IF client = NoConn THEN {FreeConn} ELSE FinalFlushes(conn[client]) :
       conn' = [c \in Conns |-> IF c = client THEN k
                                ELSE IF conn[c].pos \in {"held", "backlog"}
                                THEN Closed(conn[c]) ELSE conn[c]]
  /\ client' = NoConn /\ pending' = NoConn /\ att' = NoAtt
  /\ idleDue' = FALSE /\ pendDue' = FALSE
  /\ child' = IF child = "running" THEN "exited" ELSE child
  /\ slave' = FALSE /\ ptyOut' = 0 /\ ptyIn' = 0
  /\ UNCHANGED <<ready, reading, stop, childSignalled, ringVars, inVars, termVars,
                 winVars, acceptRetry, graceDue, sigchld, ptyWin, fed, sigterm, owed, cli,
                 faults>>

-----------------------------------------------------------------------------
(* The world outside *)

Running == pc # Exited

(* Time passes.  A deadline is stamped where the code stamps it, and falls  *)
(* due here; every delay is waited out whole.                               *)
TimeOnly == UNCHANGED <<loopVars, ringVars, inVars, termVars, winVars, attVars, conn,
                        shellVars, kernelVars, sigterm, owed, cli, faults>>
IdleDeadline ==
  /\ Running /\ "idle" \in World /\ client = NoConn /\ ~idleDue /\ idleDue' = TRUE
  /\ UNCHANGED <<pendDue, graceDue, acceptRetry>> /\ TimeOnly
PendingDeadline ==
  /\ Running /\ pending # NoConn /\ ~pendDue /\ pendDue' = TRUE
  /\ UNCHANGED <<idleDue, graceDue, acceptRetry>> /\ TimeOnly
OutcomeGrace ==
  /\ Running /\ closed /\ outcome = "none" /\ ~graceDue /\ graceDue' = TRUE
  /\ UNCHANGED <<idleDue, pendDue, acceptRetry>> /\ TimeOnly
AcceptBackoff ==
  /\ Running /\ acceptRetry = "waiting" /\ acceptRetry' = "due"
  /\ UNCHANGED dueVars /\ TimeOnly
Tick == IdleDeadline \/ PendingDeadline \/ OutcomeGrace \/ AcceptBackoff

SigTerm ==
  /\ Running /\ "sigterm" \in World /\ ~sigterm /\ sigterm' = TRUE /\ Fault
  /\ UNCHANGED <<daemonVars, conn, dueVars, shellVars, kernelVars, owed, cli>>

(* The shell and its descendants: any holder of the slave may write, one    *)
(* that outlives the shell too, and the terminal may be let go of before or *)
(* after the shell exits.                                                   *)
ChildWrite ==
  /\ Running /\ slave /\ ptyOut < PtyCap /\ end + ptyOut < MaxOut
  /\ ptyOut' = ptyOut + 1
  /\ UNCHANGED <<daemonVars, conn, dueVars, shellVars, ptyIn, ptyWin, fed, sigterm, owed, cli, faults>>

ChildRead ==
  /\ Running /\ slave /\ ptyIn > 0 /\ ptyIn' = 0
  /\ UNCHANGED <<daemonVars, conn, dueVars, shellVars, ptyOut, ptyWin, fed, sigterm, owed, cli, faults>>

ChildExit ==
  /\ Running /\ "exit" \in World /\ child = "running"
  /\ child' = "exited" /\ sigchld' = TRUE /\ slave' \in {slave, FALSE}
  /\ UNCHANGED <<daemonVars, conn, dueVars, kernelVars, sigterm, owed, cli, faults>>

SlaveClose ==
  /\ Running /\ "close" \in World /\ slave /\ slave' = FALSE
  /\ UNCHANGED <<daemonVars, conn, dueVars, child, sigchld, kernelVars, sigterm, owed, cli, faults>>

(* A change of the client programs and their sockets only.                  *)
Outside == UNCHANGED <<daemonVars, dueVars, shellVars, kernelVars, sigterm, owed, faults>>
Unasked == Fault /\ UNCHANGED <<daemonVars, dueVars, shellVars, kernelVars, sigterm, owed>>

Unused == {c \in Conns : conn[c].pos = "free"}

Dial(c, who, hello, up) ==
  conn' = [conn EXCEPT ![c] =
             [FreeConn EXCEPT !.own = who, !.pos = "backlog", !.hello = hello, !.up = up]]

(* `nomux list` and the spawn race: a bare connect that never says a word.  *)
Probe ==
  /\ Running /\ "probe" \in World
  /\ \E c \in Oldest(Unused) : Dial(c, Prober, FreeConn.hello, <<>>)
  /\ UNCHANGED cli /\ Unasked

(* A client program greets on a new connection, whether or not its last one *)
(* is over: the far end of a dead link stays open.  It resumes from what it *)
(* holds and pipelines the input nobody acknowledged, in one frame or in    *)
(* many, unless it starts afresh.  "ahead" is a client of an earlier        *)
(* session under this id.                                                   *)
Replays(p) ==
  IF p.acked >= p.next THEN {<<>>}
  ELSE {<<InputFrame(p.acked, p.next - p.acked)>>,
        [i \in 1 .. p.next - p.acked |-> InputFrame(p.acked + i - 1, 1)]}

Connect(a) ==
  /\ Running
  /\ \E c \in Oldest(Unused), kind \in HelloKinds, w \in Sizes, p \in {cli[a], NewProgram} :
     \E replay \in Replays(p) :
       LET out == IF kind = "ahead" THEN MaxOut + 1 ELSE p.got IN
       /\ Dial(c, a, [out |-> out, kind |-> kind, win |-> w],
               <<CF(IF kind = "bad" THEN "Bad" ELSE "Hello")>> \o replay)
       /\ cli' = [cli EXCEPT ![a] =
                    [p EXCEPT !.conn = c, !.live = FALSE, !.got = out]]
  /\ Outside

(* A live client's connection, still writable from its end and with room.   *)
CanSay(a) == LET c == cli[a].conn IN
  /\ Running /\ c # NoConn /\ conn[c].pos # "closed"
  /\ conn[c].peer = "open" /\ Len(conn[c].up) < SockCap

Type(a) ==
  /\ CanSay(a) /\ cli[a].live /\ cli[a].next < MaxIn
  /\ conn' = [conn EXCEPT ![cli[a].conn].up = Append(@, InputFrame(cli[a].next, 1))]
  /\ cli' = [cli EXCEPT ![a].next = @ + 1]
  /\ Outside

(* A control frame, pipelined behind the Hello or later; a half-close; and  *)
(* a half-close in the middle of a frame.                                   *)
Spoken(k, t, w) ==
  [k EXCEPT !.up = IF t = "Fin" THEN @
                   ELSE Append(@, [CF(t) EXCEPT !.size = IF t = "Resize" THEN w ELSE @]),
            !.peer = IF t \in {"Fin", "Part"} THEN "fin" ELSE @]

Say(a) ==
  /\ CanSay(a)
  /\ \E t \in ClientSays, w \in Sizes :
       conn' = [conn EXCEPT ![cli[a].conn] = Spoken(@, t, w)]
  /\ UNCHANGED cli /\ Unasked

(* The far end goes away: a program's exit, a probe's close, a dead link    *)
(* found out.                                                               *)
HangsUp(c) ==
  /\ "hangup" \in World /\ conn[c].pos \in {"backlog", "held"} /\ conn[c].peer # "gone"
  /\ conn' = [conn EXCEPT ![c].peer = "gone"]
  /\ UNCHANGED cli /\ Unasked

(* Where the output stream stands after a frame that says.                  *)
Positional(f) == f.type \in {"HelloOk", "Output", "Gap"}
After(f) == IF f.type = "Output" THEN f.at + 1 ELSE f.at
Acks(f) == f.type \in {"HelloOk", "InputAck"}
Acked(f) == IF f.type = "HelloOk" THEN f.n ELSE f.at

(* A client program reads all its socket holds: its place in the output and *)
(* its acknowledgement are what the last frame that speaks of them says.    *)
LastOf(P) == {i \in P : \A j \in P : j <= i}
Informed(p, got, acked, greeted) ==
  [p EXCEPT !.got = got, !.acked = acked, !.next = LargerOf(@, acked),
            !.live = @ \/ greeted]
ClientRead(a) ==
  LET c == cli[a].conn
      s == conn[c].down
      positions == LastOf({i \in DOMAIN s : Positional(s[i])})
      acks      == LastOf({i \in DOMAIN s : Acks(s[i])}) IN
  /\ c # NoConn /\ conn[c].peer # "gone" /\ s # <<>>
  /\ conn' = [conn EXCEPT ![c].down = <<>>]
  /\ \E got \in IF positions = {} THEN {cli[a].got} ELSE {After(s[i]) : i \in positions},
        acked \in IF acks = {} THEN {cli[a].acked} ELSE {Acked(s[i]) : i \in acks} :
       cli' = [cli EXCEPT ![a] =
                 Informed(@, got, acked, \E i \in DOMAIN s : s[i].type = "HelloOk")]
  /\ Outside

-----------------------------------------------------------------------------
DaemonStep ==
  \/ Poll \/ EndPass \/ Shutdown
  \/ ReadPty \/ HangUp \/ ApplyWin \/ WritePty \/ CollectOutcome
  \/ ReadClient \/ Decode \/ DecodeEnds
  \/ Accept \/ ReadPending \/ Greet
  \/ PumpOutput \/ WriteClient

ShellStep == ChildWrite \/ ChildRead \/ ChildExit \/ SlaveClose
ClientStep == \/ Probe
              \/ \E a \in Clients : Connect(a) \/ Type(a) \/ Say(a) \/ ClientRead(a)
              \/ \E c \in Conns : HangsUp(c)

Next == DaemonStep \/ ShellStep \/ ClientStep \/ Tick \/ SigTerm \/ PollFails

Spec == Init /\ [][Next]_vars
=============================================================================
