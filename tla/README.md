# nomux in TLA+

nomux keeps a terminal session alive on a server while clients come and go. One
binary has five modes: `daemon` owns a session, `spawn` and `attach` start and
reach one, `kill` and `list` look after the directory in which sessions are
published. This directory models the parts whose correctness depends on an
order of events, checks them with TLC on small instances, and proves the
central ones with TLAPS for every value of the constants. Sources are in
`crates/nomux/src/`; file names below are relative to it.

## 1. Inventory

| Component | State | Operations | What is hard |
|---|---|---|---|
| Session daemon, `daemon.rs` | ring, `in_applied`, `pending_input`, PTY and its outcome, window size, one attached client, one pending connection, deadlines | one pass of a `poll(2)` loop: read the PTY, read and decode the client, hang up, greet, accept, agent, write the PTY, apply the size, collect the outcome, pump output, write the client; shutdown | readiness is a snapshot that goes stale during the pass; takeover against input and Detach under way; replay of input nobody acknowledged; what wakes the loop when no descriptor will |
| Client connection, `conn.rs`, `nbio.rs` | send queue, receive buffer, end of file | send, bounded fill, partial flush, final flush, frame by frame decoding | partial writes, caps, a peer that is gone |
| Output ring, `ring.rs` | a deque with a base offset | push, slices | wrap, writes larger than the ring, labels of the second slice |
| Agent forwarding, `agent.rs` | the one served peer: generation, queue, deadline, closing | accept, read, deliver, flush, close from either end, give up | frames late for a peer that has gone; closes that cross; the slot always coming back |
| Run directory, `rundir.rs` | `<id>.lock`, `.sock`, `.pid`, `.label`, `.agent` | take, inherit, give back the lock; publish; unlink in order | the lock file is itself unlinked; a crash between any two calls |
| `kill` and `list`, `control.rs` | none of their own | lock, resolve, TERM, KILL, probe, unlink; sweep | a probe is stale when it is used; publication in two steps |
| Starting a session, `attach.rs` | the inherited lock descriptor | create, spawn, await publication | two starts of one id; the parent or the child dies |
| Relay, `attach.rs` | two pumps, a socketpair and a thread for stdout, a count of delivered batches | poll, read and write either way, half-close, finish, collect the worker's status | a stdout that stalls, is slow, or is somebody else's too; a thread and a loop that end each other |
| PTY, `pty.rs` | child, process session | spawn, resize, repaint nudge, outcome, terminate | the walk over `/proc` races what it walks |
| Program launch, `exec.rs`; start-up, `startup.rs` | two descriptor tables, the report pipe, the environment | fork, dup2, exec, report; signals; detach from the terminal | numbers that collide; a pipe whose end of file is the answer; a failure of any call in either process |
| Probe, `usock.rs` | none | connect within a time | retries against a full backlog; three answers: alive, stale, unknown |
| Wire format, `frame.rs`, `lib.rs` | none | encode, decode | byte layout |
| `sanitize.rs`, `main.rs`, `scratch.rs`, tests, `fuzz/`, `e2e-tests/`, `scripts/` | none | | none that depends on an order of events |

How they meet: the daemon owns a `Conn` for the client and one for the
connection still to greet, a `Ring`, a `Pty` and an `Agent`, all in one thread;
clients, local agent peers and the shell reach it only through kernel buffers.
At its end it calls `Pty::terminate`. `spawn` starts the daemon through
`exec::spawn`, as the daemon starts the shell, and hands it its open lock
descriptor; the relay sits between a terminal and the daemon's socket; `kill`
and `list` meet the daemon only through the files, a probe of the socket, and
signals.

What makes each correct, in a sentence: input is applied exactly once and
output has no hole that is not announced, across any number of connections; the
session has one outcome and its Exit stands behind all of its output; the loop
never sleeps while it owes something no descriptor will remind it of; a reply
of the ssh-agent never reaches another peer than the one that asked; one
process at a time has authority over a session's files, and a live session
keeps its socket; the relay carries both directions whole, ends, and never
spins; the end of a session kills nobody outside it, nobody before they could
hear of it, and forgets nobody; who spawns a program is told the truth about it,
and no descriptor is left over on either side.

## 2. Modules

| Module | Models | Checked through |
|---|---|---|
| `OutputWindow` | abstract: a window on the tail of the stream that only output moves | refinement, `ring` |
| `Ring` | `ring.rs` with its bytes, `Conn::send_output`, the walk of `pump_output` over both slices | `ring` |
| `Daemon` | the event loop and connections, the shell and the clients around them | through `DaemonProperties` |
| `DaemonProperties` | what makes `Daemon` correct, and the fairness liveness needs | through `MCDaemon`, `MCLiveness` |
| `MCDaemon` | symmetry of the clients, for TLC | `replay`, `takeover`, `delayed_detach` |
| `MCLiveness` | the two kinds of company that liveness is checked in | `liveness` |
| `Agent`, `AgentProperties` | agent forwarding, with the daemon's passes over it | `agent`, `agent_fuse` |
| `RunDir`, `RunDirProperties` | the files of one session id, and spawn, daemon, kill and list as processes | `rundir` |
| `Conduit` | abstract: bytes come out as they went in, until it stops | refinement, `relay` |
| `Relay`, `RelayProperties`, `MCRelay` | the relay loop, its stdout worker thread, and the user, the daemon and the reader around them | `relay`, `relay_stall` |
| `Terminate`, `TerminateProperties`, `MCTerminate` | `Pty::terminate`, its walks over `/proc`, and the processes walked | `terminate` |
| `Launch`, `MCLaunch` | `exec::spawn`, what `Pty::spawn` and `spawn_daemon` do around it, the daemon's first steps | `launch` |
| `RingProofs`, `DaemonProofs`, `TerminateProofs`, `RunDirProofs` | theorems about the modules they name, those about what the daemon and its clients say of the input in the second; the last about the spawn lock first and then about the session files under it | |
| `TranscriptProofs` | theorems about what `Daemon` owes and tells its clients of the output, on top of `DaemonProofs` | |
| `AgentProofs` | theorems about `Agent` | |
| `RelayProofs`, `LaunchProofs` | theorems about `Relay` and about `Launch` | |

Two pairs are composed by abstraction. `Ring` with its bytes implements
`OutputWindow` (`IsAWindow`, checked and proved); `Daemon` keeps no bytes but
the window's `base` and `end`, which its `Push` moves as `OutputWindow` says, by
definition, so that an output byte is no more than its offset there. And each
direction of `Relay` implements `Conduit`
(`BytesAreRelayed`), which is what the client programs of `Daemon` assume of the
link between the user and a socket.

### 2.1 Daemon

A pass is `Poll`, which takes the snapshot `ready`, and then one action per
handler of `poll_once` and `event_loop` in the order of the source; `pc` is the
earliest handler still to run, and `EndPass` asks `stop_reason` (`StopReason`) whether
to wait again or to go on to `Shutdown`. A `poll` that fails (`PollFails`) ends the loop
as well; no other failure does. `Decode` handles one frame of the loop in `read_client`, for its
three callers: the pass, the drain of an incumbent, and the input pipelined
behind a greeting. Between any two of these steps the world moves: `Connect`,
`Probe`, `Type`, `Say`, `ClientRead` and `HangsUp` for programs at the far ends,
`ChildWrite`, `ChildRead`, `ChildExit`, `SlaveClose` for the shell, `SigTerm`,
and one action per deadline.

Variables carry the names of the fields they stand for (`inApplied` is
`in_applied`, `pendIn` is `pending_input`, `att` is the rest of `Attached`,
`conn[c]` is a `Conn` with the kernel's buffers on both sides of it). `fed`,
`dropped` and `owed` are history: no action's guard reads them. `owed` is what
the incumbent had on its way when a greeting was decoded: whether a Detach is in
it, and the frames that one bounded read reaches.

Abstractions:
- A byte is its offset in its stream; a frame counts as one unit against every
  cap, and one Output frame carries one byte. Chunking by bytes is `Ring`'s.
- A `fill` takes up to `FillMax` frames, a flush what the kernel has room for.
  A frame may arrive as a head without its rest (`Part`), and may fail to parse.
- A deadline is a flag that the clock may raise at any moment after it is armed,
  so a timeout is as early or late as it likes.
- A client program greets, types and replays as the `attach` relay and its peers
  do; a probe connects and says nothing.
- A connection is used once: `MaxConns` bounds the connections ever made.
- A system call may fail `MaxFaults` times: `poll`, `accept`, `waitid`, a resize.
- The agent's frames are in `Agent`; what `Shutdown` does to the processes is in
  `Terminate`.

### 2.2 Agent

The same pass, cut to the phases that touch the channel. A reply byte is
`[to, nth]`: the peer the client meant it for and its place among that peer's
replies; that makes a byte that goes astray, is lost or is doubled visible. The
decode loop may stop between any two frames, because the PTY's input queue that
stops it in the code is not modelled here. It decodes three times: twice in a
pass, and once more of the incumbent before a greeting takes the session
(`Attach`) or is refused it (`Refuse`). `Wrap` stands for 2^32 and is
greater than `MaxPeers`, so generations do not come round within a run. A
connection of another user is a refusal by `Accept`, counted as a fault.

### 2.3 RunDir

Every process is a program counter over its system calls on the shared names.
A lock is an inode and an open-file description: `proc[p].fd` is the inode that
p's descriptor is open on, `ofd` whose description it is (a spawned daemon has
its parent's), `owner[i]` the description that holds the flock on inode `i`,
`lockName` the inode the name leads to now. A probe (`Probe`) is
`usock::connect_within`: it draws its verdict from what `connect_once` finds and
from whether the time for retries is up. Every deadline may pass at any
moment; a process may crash between any two calls, which closes its descriptors
and with the last of them the lock. `Befalls` opens crashes, sockets that do not
answer, and daemons that end by themselves; the first and the last are counted
against `MaxFaults`. The label and the agent socket come and go with the
pidfile; a pid is never reused; the fork that detaches a daemon is not a process
of its own (`Launch` has it).

### 2.4 Relay

One action per step of a pass of the main loop (`Poll`, `ReadStdin`,
`ReadSocket`, `WriteSocket`, `WriteChannel`, then `Finish` and `Collect`), one
per system call of the worker, and one per thing the world may do. A pump
(`toSocket`, `toStdout`, `batch`) is what it still owes; it is filled only when
empty, up to `RELAY_CHUNK`, and drained by whatever the kernel takes. The
channel is a bounded queue, `shut` its end of file, `status` what the worker
writes back through it. Stdout is blocking or not, may be full for ever
(`"full"`), lose its reader (`"left"`), or be written to by somebody else, so
that a `POLLOUT` may be followed by `EAGAIN`. Time is counted in
STDOUT_PROGRESS_INTERVALs (`Look`), of which `Window` make STDOUT_FLUSH_TIMEOUT.
Stdin ends by HUP, NVAL, an error that stays or a failing read. The socket reports
ERR once the daemon has closed with input unread (`SocketUnread`), as a reset;
bytes that came before it are read first. `quiet`, `typed`,
`said`, `got` and `out` are history.

### 2.5 Terminate

Every read of a walk is an action: `WalkBegins` lists the directory, `WalkReads`
reads one entry's line, `WalkPins`, `WalkConfirms` and `WalkSignals` are the
pidfd, the second read and the signal. Between any two, a process may exit, fork,
leave for a session of its own, or a stranger may take a number that came free.
`proc[p]` is the process under number `p`; `ever`, `born` and `hidden` are
history. The child is never reaped before `terminate` returns, so its number is
its own. A pidfd answers for the process it was opened on and for nobody else
(`walk.held`), but does not keep the number: `IMPLEMENTATION.md` section 6.5 and
the comment of `pinned_member` say that a pinned number is frozen; the model
lets it be reused (section 6), and what is claimed
holds even so. `terminate` asks whether the group is alive before it signals it;
it always is, because its leader is not reaped, so `SignalGroup` is unconditional. A stat line and a pidfd may be refused
`MaxFaults` times. A process that is forked during a walk may be missed by it;
`born` marks it, and the properties excuse it, as the code's comments do.

### 2.6 Launch

Two descriptor tables, the parent's and the child's, from the calls before the
fork to the last step on either side; any call that may fail, may; the child may be
killed. A slot is a file, its close-on-exec flag, and who is to close it. The
callers are `Pty::spawn`, `attach::spawn_daemon` and any other. Behind
the exec a daemon closes what it inherited beyond the lock and detaches
through a fork of its own.

## 3. Runs

| Run | Shows | Why its bounds are enough |
|---|---|---|
| `ring` | bytes are labelled and walked correctly; implements `OutputWindow` | capacity 3, writes to 4, 5 bytes in all: shorter, exact and longer than the ring, every split of the deque, a cap that cuts either slice |
| `replay` | output across reconnects; Exit; the loop never sleeps owing any of it | 3 bytes through a ring of 2 and a queue of 1: resumption below, in, at and past the end of the window, a gap, and output held back behind it |
| `takeover` | two clients with and without `if_detached`; input exactly once, true acknowledgements, no lost wake-up; the incumbent read before a greeting is answered, and told if it is displaced; every frame of the protocol, unparseable and truncated ones, old versions, probes, a failing accept, a signal | each client may hold, lose and win the session; 2 bytes of input against a cap of 2, held back, replayed whole or in parts; two connections ever made (`MaxConns`) beside what the broken programs say on them |
| `delayed_detach` | a finding, see section 6 | |
| `liveness` | a session nobody is attached to ends when idle, a signalled one in any state; whoever connects is heard, refused or timed out; a refused size is retried; all output and the Exit arrive; a client that lets its replies pile up, or is gone, is let go of | visitors make two connections or a probe, so that a newcomer waits behind a greeting that never comes, and a second client asks for another size; a byte of output in a queue of 1; one fault, of `poll`, `accept`, a resize or a client that hangs up. A typist has one connection and 5 units of input for a PTY of 1 and a queue of 1, with a client queue abandoned at 3 and a socket of 2, so that each limit is met with the others full |
| `agent` | replies, frames and channels of successive peers and clients; the slot comes back | two peers so that one follows another; two clients so that one displaces another; replies against a socket that takes one, so that a flush is partial |
| `agent_fuse` | a finding, see section 6 | |
| `rundir` | up to three processes started out of two spawns, a daemon by hand, a kill and a sweep, with the daemons the spawns fork; one crash, failed call or session that ends by itself between any two steps | two of a kind are what a mutex is for; a session that ends and one that begins inside a kill or a sweep; a crash that leaves files for the next |
| `relay` | both directions implement `Conduit`; nothing is cut short; no busy loop; the end | buffers of 1 against pumps of 2: short writes on every hop, a read that leaves bytes behind, a full channel with a batch behind it, both directions full at once |
| `relay_stall` | a finding, see section 6 | |
| `terminate` | strangers spared, hang-ups heard, nobody forgotten, an end | two numbers beside the child's: one to be walked past or signalled while the other is reused; six sessions that begin as a shell, an editor, running or stopped, a `nohup` job, a job of the shell's group, a stranger; two arrivals so that a number is left and taken again |
| `launch` | the verdict, the descriptors, the environment, no waiting for ever | callers that have the three files under every kind of number: crossed, closed, shared, high; every call fails once in some behaviour |

Each passing run ends by itself within five minutes on two workers, with up to
1.4 million distinct states (`launch` and `ring` are small). Bounds that
multiply the work without a new case were cut: a second fault in `rundir`, a
third process number in `terminate`, input beside output and a second byte of
output in `liveness` (that nothing held back is forgotten is `SleepsOwingNothing`, of
`takeover` for input and of `replay` for output).

Every property of every passing run is violated by at least one plausible
mutation of a modelled definition; `PROJECT.json` lists them. Their mutated
forms stand beside the originals in the modules.

`CHECK_DEADLOCK FALSE` is set throughout because these systems really stop: the
daemon exits, the processes end, the relay returns, the bounds on clients and
bytes are used up. That nothing stops too early is what the liveness properties
are for.

### Fairness

- `Daemon`, `Agent`: `WF(DaemonStep)`, the daemon is one thread that runs
  whenever it can; `WF` of each deadline, time passes. The periodic wake-up of
  the loop (`IDLE_TICK`) is deliberately left out: with it, a wake-up that is
  missing would be hidden by the next tick.
- `ClientsRead` (clients read their sockets) is no part of `FairSpec`: it is the
  antecedent of `TranscriptArrives`, the only property that needs it. Nothing
  else about clients, peers or the shell is assumed.
- `Relay`: both threads are scheduled, the clock of the last flush runs, and the
  daemon reads what comes while it lives (it pauses while its queue for the PTY
  is full, so this assumes a shell that reads its terminal). Nobody makes the user type, the daemon
  end, or anybody read stdout.
- `Terminate`: `terminate` runs, and its budgets pass. The processes do as they
  like. `Launch`: parent and child run; they need not be killed or fail.
- `RunDir` has safety properties only; its liveness is a matter of timeouts that
  end a process with an error. No strong fairness anywhere.

## 4. Theorems

| Theorem | States | Argument |
|---|---|---|
| `RingTypeCorrect`, `RingHoldsTheTail`, `PumpIsAligned`, `OutputIsTrue` | invariants of `Ring` | one inductive invariant, `IInv`: the window, the bytes in it against the stream so far, and what a walk in progress holds against both. `LabelsAreTrue` alone is not inductive: a label is right because of what the slices were when the walk began, and no push comes between |
| `RingImplementsWindow` | `Ring` implements `OutputWindow` | initial states map to initial states; a push maps to `Write`, the rest to stutters |
| `DaemonTypeCorrect` | `TypeOK` of `Daemon` | `IInv` below |
| `DaemonHoldsNoOthers` | a descriptor is held for the client and the pending connection and for nobody else | `IInv` is `TypeOK`, `NoConnectionLeaks` and `SnapshotHolds`, which says what is left of a snapshot after the handlers that ran: without it a handler could act for a connection that is no more |
| `TypeCorrectness` | `TypeOK` of `Terminate` | `IInv` below |
| `SparesStrangers` | `StrangersAreSpared` | the targets of each signal were of the session: the group's members and the child by `KinAreOurs` and `ChildIsOurs`; the pidfd's by `PidfdIsOurs`, which holds because a held pidfd is on a running process (`PidfdHolds`), whose number nobody else can take, and the second read found it a member |
| `ForgetsNobody` | `NobodyIsForgotten` | a probing walk that may still find nothing has every member it began with still ahead of it (`NoneBehind`), so that one that ends so has found them gone; and a budget is only noted as over when it was (`LateIsExpired`) |
| `DaemonAppliesInputOnce` | `InputExactlyOnce` | `Account`, with `TypeOK`: what the terminal got and what waits for it, read as one sequence, is increasing, below `in_applied` and complete unless input was dropped. `on_input` skips exactly what was applied before and extends the account by what is next (`FreshExtendsAccount`); a partial write moves the border between the two parts only |
| `ConversationInvariant`, `DaemonAgreesOnInput`, `DaemonBoundsItsQueue` | `InputOffsetsAgree`, `OutputQueueIsBounded` | `InputOffsetsAgree` is not inductive: that nobody is accused of a gap depends on frames still in sockets. `Conversation` says of each connection that the Input under way on it, decoded or not, follows on `in_applied` frame by frame (`Follows`), that it leads up to the offset its client uses next (`ReachedBy`), that what the daemon said there is true (`SaysTruth`), and that no Output stands deep in the queue. Each call of `Conn` carries that over (`Carries`: `SentCarries`, `FlushedCarries`, `FilledCarries`, `DecodedCarries`, `ClosedCarries`), a handler is a few such calls, and a new connection's replay restores it from `acked <= in_applied` (`ReplayFollows`) |
| `DaemonLeavesNoSilentHole`, `DaemonExitsAtTheEnd` | `StreamIsContiguous`, `ExitEndsTheTranscript` | `Transcript`, with `IInv`. The properties speak of frames already in a socket, so the invariant follows each connection from its dial: who uses it stands where its greeting said until something was said on it (`ProgramsStand`), then along the frames without a hole to `sent_through` (`ProgramsFollow`, `ClientIsFollowed`), and what is said is within the output and ends with it (`SaidIsTrue`), which stands still once the terminal is read out (`TerminalIsRead`). Nearly every step leaves all that is being said, or cuts it short as it closes, and adds nothing that moves a place (`Ordinary`, `Echo`); `pump_output` adds a piece that continues what is there (`StreamedContinues`, `PumpedIsTrue`); a takeover starts anew from the greeting (`WelcomeIsTrue`); a read takes a beginning and leaves a rest that goes on from it (`TheRestIsHeard`) |
| `DaemonSleepsOwingNothing` | `SleepsOwingNothing` | `PassInv`, with `IInv`: each handler that had its turn in a pass has left nothing of its own undone (`AllDecoded`, `AllPumped`, `AllTold`), and no handler behind it brings any of that back, but by ending the pass or starting it over |
| `TypeCorrectness` of `RunDir`, `TheLockIsAMutex` | `TypeOK`, `LockIsAMutex` | an inductive invariant on descriptors: whoever has authority has it over the inode the name leads to (`LockIsAtThePath`) and the flock is on its description (`FlockIsHeld`); a description is its opener's or shared by one daemon, and then the opener only waits (`ShareOfAParent`, `OneShare`). Two with authority meet in the inode, so in its flock, so in the description. The name is removed by one with authority through its own description, and then nobody else has any (`ReleasesKeeps`) |
| `SocketsAreKept`, `PidfilesAreTrue`, `JudgedAfterPublication`, `TheDeadStayDead`, `SpawnsGetTheirOwn` | `LiveSessionsKeepTheirSocket`, `PidfileIsTrue`, `PublishedBeforeJudged`, `DeadStaysDead`, `SpawnGetsItsOwn` | `FInv`, on top of the lock: of those with authority that do not merely wait there is one (`Exclusive`), so what it found dead (`StaleIsDead`) stays dead while it acts on it (`Judged`); the name of the socket leads to the daemon that bound it or to one that is gone (`SocketIsBound`); the pidfile is followed through its steps (`Pidfile`), and what a waiting spawn knows of its child (`Child`) |
| `AgentTypeCorrect`, `AgentHoldsOnePeer` | `TypeOK` and `NoPeerLeaks` of `Agent` | `Base`: the two, with what is left of a client that has gone and that peers still waiting have heard nothing. Every action is shown once to be one of a few `Moves` of the channel, of the frames and of the replies (`StepsAreMoves`): it rests, tells, ends, hears, delivers, lets a peer in, or the client speaks |
| `AgentRepliesArrive`, `AgentFramesMakeSense`, `AgentEndsAgree` | `NoReplyGoesAstray`, `ChannelFramesAlternate`, `NeitherEndIsLeftHolding` | each part of `AgentInv` survives each move. `Agrees` follows the frames under way both ways: they alternate, the ends agree about what is open or will once the close under way is read, and who has sent a close has heard all the daemon said of that channel -- without which a channel could be closed twice, the second time under another peer. `Answers` says the same of bytes: the Data under way for the generation in use are the client's next bytes for the peer served, or the Open that names that peer has not been heard. Both rest on generations being fresh (`InOrder`, `PastGens`): an Open is of one no frame under way has named |
| `RelayKeepsCount`, `RelayConveysBytes` | `BytesAreRelayed`: each direction of `Relay` implements `Conduit` | `IInv` with `OutputKept` and `InputKept`: what was put in at one end is, in this order, what came out and what stands in the buffers between, until the worker or the daemon is gone; then what came out is its beginning. A read or a write moves a piece from the head of one buffer to the tail of the next (`BytesMove`). That a read goes into an empty pump is not the code's test at that place but a poll mask taken earlier, so `SnapshotHolds` says it of stdin |
| `RelayCutsNothingShort` | `NothingIsCutShort` | the ends: the loop stops reading the socket only at its end and behind its bytes (`SocketIsRead`), `finish` comes only then or when the worker is gone (`FlushIsLast`), so a worker that ends well at the end of its channel has written everything (`WorkerIsTrue`); the half-close is final and behind stdin's bytes (`StdinIsRead`); and the clock of the last flush has counted the quiet intervals (`ClockIsTrue`) |
| `LaunchTellsTheTruth`, `LaunchLeavesNothingOpen`, `LaunchGivesItsOwn` | `VerdictIsTrue`, `CallerKeepsNothing`, `ChildHasItsOwn` | `IInv` of both tables: the parent's is its caller's but for slots that were free, each marked with who opened it, close-on-exec, the raised ones above 2 (`ParentIsHeld`); so dropping an owner's slots restores the table (`DroppingHolds`). The child has from the fork what was raised for it, which no placing reaches (`ChildIsReady`, `ChildIsPlaced`), so the report's write end is open as long as it prepares: end of file behind no errno means that it became a program or died (`ChildIsInStep`, `ReadIsTrue`). That getenv reads what was asked for is a statement about which elements are kept of a sequence and in which order: ranks number them one to one (`RankedIs`, by the pigeonhole theorems of finite sets), so a last setting is the only entry of its key (`SettingIsRead`) and a first inherited one stays first (`InheritedIsRead`) |
| `DaemonTurnsOverOnlyToAGreeting` | `OnlyAGreetingTakesOver` | `Entitlement`, with `IInv`: a Hello is only under way on a connection that a client program made to greet (`HellosAreVouchedFor`: no call of `Conn` adds one, `SameParty`), and while `read_pending` reads the incumbent once more the pending slot stays with the connection whose Hello it decoded and found it can answer (`SettlesAGreeting`); that the incumbent is told behind what it was owed is `EvictedIsTold` |
| `KillsNobodyUnheard` | `NobodyDiesUnheard` | `HInv`: behind the walk that hangs up, each member owed a hearing has heard or has the signal pending; behind the walk that wakes, each has heard; in between, whom the walk has passed has been seen to (`OwedAreHeard`). That the signal reached whom the walk passed needs `HeldWhileOwed` -- a pidfd is lost only with its process -- and that a walk cut short was noted, `HupIsTimed` |

They hold for every value of the constants that the named assumptions allow:
`BoundsAssumption` and `NamesAssumption` of `Daemon`, `RingAssumption`,
`TerminateAssumption`, `RunDirAssumption`, `AgentAssumption`, `RelayAssumption`,
`LaunchAssumption`. These say that caps are positive,
that `AbandonPendingWrite` is above `MaxPendingWrite` (8 MiB and 256 KiB in the
code), that names are distinct, that bounds on processes and faults are numbers,
that a session begins with its child in it and with histories that are
true, and of who spawns that what it has open is its own, that a relay has the
lock and a daemon nothing above 2 that would cross an execve (`adopt` marks the
lock close-on-exec again, every other open of the daemon is). The last three theorems about `Agent` have one hypothesis more, `MaxPeers <=
Wrap`: that fewer than 2^32 local connections are let in during one session.
`next_generation` wraps, and the argument needs it: with `Wrap = 1` TLC finds
`NoReplyGoesAstray` and `NeitherEndIsLeftHolding` violated, a Close that the client
sent for its last channel ending the next one.
The proof that a step preserves `IInv` has one
lemma per action; lemmas about the operators (`DropFrees`, `TellAccounts`,
`FillClientAccounts` on connections; `ReachCarries`, `PassedKeeps`, `GoToKeeps`
on signals, walks and places; `FirstAndRest`, `BytesMove`, `OneTaken` on what a
read takes and leaves and how bytes pass between buffers; `StaysKeeps`, `DropsKeeps`, `QuietKeeps` on what a
step does to a process' descriptor or leaves alone) carry the parts that several actions share. That
the lowest entry of a walk or the lowest free descriptor is one of them rests on the well-foundedness
of the natural numbers (`LowestIsIn`, `LeastIsIn`). `TypeOK` of `Daemon` includes no
bound on queues: that is `OutputQueueIsBounded`, a theorem of its own, which rests on
`pump_output` pushing only into the room that is left (`StreamedIsShallow`). The
client programs of the theorems are those of `Daemon`: any number, each of which may
replay in one frame or in many, lose its connection at any moment, or start
afresh, but which number their input as `IMPLEMENTATION.md` has them do.

Only checked by TLC: liveness and everything about ENABLED, which the prover
cannot do; `TakeoverReadsFirst` and `StalledClientIsLetGo`. Only proved, and in
no run: `NoConnectionLeaks`, `OutputQueueIsBounded`, `HoldsTheTail` and
`NoPeerLeaks`, bookkeeping of one component each, beside the types.

## 5. Not modelled

- Bytes on the wire: `frame.rs` is a codec whose round trips the fuzz targets
  cover; frames are records here.
- Trust in the run directory (owners, modes, ancestors), a foreign node planted
  at `<id>.lock` and its repair (removed by name, under no lock), the uid check
  behind `SO_PEERCRED`: they depend on the file system or the peer, not on an
  order of events.
- How a `/proc/<pid>/cmdline` is matched to a session, reuse of the pid of a
  daemon between `kill`'s match and its pidfd, and that its KILL lands on the
  process that was pinned: in `RunDir` a process is its identity.
- The choice of the shell and its directory, the parsing of a stat line, the
  wording and classification of failures, the signal mask and dispositions of a
  new program, redirection of the daemon's own descriptors to `/dev/null`.
- `sanitize.rs`, `main.rs`, `scratch.rs`, tests and scripts.

## 6. Where the code and its documents differ

- `delayed_detach` / `DetachFreesTheSlot`. `IMPLEMENTATION.md:637-639` says that a
  Detach already waiting in the old connection frees the slot before
  `if_detached` is tested. The final drain in `read_pending` is a single bounded
  read: a Detach behind more input than one read takes is not reached, and the
  newcomer is refused.
- `agent_fuse` / `ClosedChannelsGoSoon`. `IMPLEMENTATION.md:927` says that a
  connection the client has closed and whose peer will not take the rest is
  given up a second later rather than sixty. `flush` calls `touch` whenever a
  byte moved, on a closing channel as well, so that a peer that reads a little
  and then stops gets the idle minute again.
- `relay_stall` / `CloseAloneEndsTheRelay`. `tests/attach.rs:1059` says that a
  session close must not leave the relay waiting forever on an open stdout that
  no longer drains. STDOUT_FLUSH_TIMEOUT only starts in `finish`, and the loop
  ahead of it goes on, with no deadline, while its pump holds output that the
  worker's full channel does not take. While somebody reads stdout the relay
  ends (`RelayEnds`).
- A pidfd's number (no run of its own). `pty.rs:487-488` and
  `IMPLEMENTATION.md:727-729` say that the kernel cannot give a number to a new
  process while a pidfd of it is held. A pidfd refers to a process and reserves no
  number: once that process is collected, a stranger may have it, and the second
  read is the stranger's, as in `terminate` it may be. Nothing is lost by it: the signal goes through the
  descriptor and reaches nobody (`StrangersAreSpared`, checked and proved).

## 7. Plan

1. (done) `Ring`, `OutputWindow`, `Daemon` and their first theorems.
2. (done) `Agent`, `RunDir`.
3. (done) `Conduit`, `Relay`; `Terminate` and its theorems; `Launch`.
4. (done) Theorems: every safety and action property that a passing run checks has one but `TakeoverReadsFirst`
   and `StalledClientIsLetGo`.
5. Left: theorems for `TakeoverReadsFirst` and `StalledClientIsLetGo`, which are
   only model-checked.
