------------------------------- MODULE Relay -------------------------------
(***************************************************************************)
(* The relay of `nomux attach` and `nomux spawn` (crates/nomux/src/attach.rs,*)
(* from the connection on): a loop that moves stdin to the session socket  *)
(* and the socket to a worker thread, which owns the writes to a stdout    *)
(* that may block for ever.                                                *)
(*                                                                         *)
(* A pass of the loop polls and then serves the descriptors one after the  *)
(* other; the worker, the user, whoever reads stdout and the daemon move   *)
(* in between.  The bytes of each direction are numbered as they enter it. *)
(* A pump is what it still owes; a kernel buffer is a bounded queue.       *)
(* An operator beside another one, differing from it by a slip, is a       *)
(* mutated form that some property is shown to tell apart.                 *)
(***************************************************************************)
EXTENDS Naturals, Sequences, FiniteSets

CONSTANTS
  Loads,              (* bounds: what one behaviour may hold -- how many   *)
                      (* bytes are typed, how many the daemon says, and in *)
                      (* which ways stdin may end                          *)
  RELAY_CHUNK,
  SockCap, ChannelCap, StdoutCap, (* what the kernel buffers on each hop   *)
  Window              (* STDOUT_FLUSH_TIMEOUT, in STDOUT_PROGRESS_INTERVALs *)

StdinEnds == {"hup", "nval", "err", "broken"}

ASSUME RelayAssumption ==
  /\ {RELAY_CHUNK, SockCap, ChannelCap, StdoutCap, Window} \subseteq Nat \ {0}
  /\ Loads \subseteq [keys : Nat, words : Nat, ends : SUBSET StdinEnds]

VARIABLES
  load,                \* the bounds of this behaviour
  typed, stdin,        \* what the user typed, and how much the kernel still has
  up, got,             \* the socket towards the daemon, and what it read
  said, down, daemon,  \* what it said, the socket back, and its end of it
  relay,               \* the main thread: its place and its flags
  toSocket, toStdout,  \* its pumps
  channel, shut,       \* the socketpair to the worker, and finish's shutdown
  worker, batch,       \* the worker thread and its pump
  status,              \* what the worker wrote back
  progress,            \* whether their counter changed since it was last loaded
  stdout, out, unread, \* inherited stdout, what was written to it, what it holds
  quiet                \* intervals since a batch was delivered, up to Window (history)
vars == <<load, typed, stdin, up, got, said, down, daemon, relay, toSocket, toStdout, channel,
          shut, worker, batch, status, progress, stdout, out, unread, quiet>>
world == <<load, typed, stdin, got, said, daemon, stdout, unread>>
threads == <<worker, batch, status, progress, out>>

SmallerOf(a, b) == IF a < b THEN a ELSE b
First(s, n) == SubSeq(s, 1, SmallerOf(n, Len(s)))
Rest(s, n) == SubSeq(s, n + 1, Len(s))

(* StdoutWorker::spawn: an empty channel, a counter, and a detached thread. *)
WorkerSpawned ==
  /\ channel = <<>> /\ shut = FALSE /\ status = "none" /\ progress = TRUE
  /\ worker = [pc |-> "fill", moved |-> FALSE, end |-> "ok"] /\ batch = <<>>

Init ==
  /\ load \in Loads
  /\ typed = <<>> /\ stdin = [held |-> <<>>, end |-> "open"]
  /\ up = <<>> /\ got = <<>> /\ said = <<>> /\ down = <<>> /\ daemon = "open"
  /\ relay = [pc |-> "poll", stdinOpen |-> TRUE, socketOpen |-> TRUE, stdoutOpen |-> TRUE,
              halfClosed |-> FALSE, ready |-> {}, left |-> Window,
              result |-> "running"]
  /\ toSocket = <<>> /\ toStdout = <<>> /\ WorkerSpawned
  /\ stdout \in {[mode |-> m, end |-> "open"] : m \in {"blocking", "nonblocking"}}
  /\ out = <<>> /\ unread = 0 /\ quiet = 0

At(place) == relay.pc = place
Over == relay.result # "running"
WorkerGone == worker.pc = "gone"

-----------------------------------------------------------------------------
(* Readiness.  The unrequested events come whenever a descriptor is watched. *)
Unrequested == {"HUP", "ERR", "NVAL"}
StdinEvents ==
  (IF stdin.held # <<>> \/ stdin.end \in {"hup", "broken"} THEN {"IN"} ELSE {})
  \cup (CASE stdin.end = "hup" -> {"HUP"} [] stdin.end = "nval" -> {"NVAL"}
          [] stdin.end = "err" -> {"ERR"} [] OTHER -> {})
SocketUnread == daemon = "closed" /\ up # <<>>  \* what makes its close a reset
SocketEvents ==
  (IF down # <<>> \/ daemon # "open" THEN {"IN"} ELSE {})
  \cup (IF Len(up) < SockCap \/ daemon = "closed" THEN {"OUT"} ELSE {})
  \cup (IF daemon = "closed" THEN {"HUP"} ELSE {})
  \cup (IF SocketUnread THEN {"ERR"} ELSE {})
ChannelEvents ==
  (IF Len(channel) < ChannelCap THEN {"OUT"} ELSE {}) \cup (IF WorkerGone THEN {"HUP"} ELSE {})

WantsStdinAnyway == relay.stdinOpen
WantsStdin == relay.stdinOpen /\ toSocket = <<>>
WantsSocket ==
  (IF relay.socketOpen /\ toStdout = <<>> THEN {"IN"} ELSE {})
  \cup (IF toSocket # <<>> THEN {"OUT"} ELSE {})
WantsChannel == IF toStdout # <<>> THEN {"OUT"} ELSE {}

Watched(events, wanted) == events \cap (wanted \cup Unrequested)
StdinReadyAlways == Watched(StdinEvents, IF WantsStdin THEN {"IN"} ELSE {})
StdinReady == IF WantsStdin THEN Watched(StdinEvents, {"IN"}) ELSE {}
SocketReady == IF WantsSocket = {} THEN {} ELSE Watched(SocketEvents, WantsSocket)
ChannelReady == Watched(ChannelEvents, WantsChannel)
Ready == ({"stdin"} \X StdinReady) \cup ({"socket"} \X SocketReady)
           \cup ({"channel"} \X ChannelReady)
Found(fd) == {e[2] : e \in {r \in relay.ready : r[1] = fd}}
Unserved(fd) == {r \in relay.ready : r[1] # fd}

Poll ==
  /\ At("poll") /\ Ready # {}
  /\ relay' = [relay EXCEPT !.pc = "stdin", !.ready = Ready]
  /\ UNCHANGED <<world, threads, up, down, toSocket, toStdout, channel, shut, quiet>>

Readable == {"IN", "HUP", "ERR", "NVAL"}
Spinning(events, pump) == "ERR" \in events /\ pump = <<>>

(* stdin: one batch into the empty pump; its end half-closes the socket.    *)
StdinGone == "NVAL" \in Found("stdin")
StdinBroken == ~StdinGone /\ stdin.held = <<>> /\ stdin.end = "broken"
StdinBatch == IF StdinGone THEN <<>> ELSE First(stdin.held, RELAY_CHUNK)
StdinEndedOnHup == {"NVAL", "HUP"} \cap Found("stdin") # {}
StdinEnded == \/ StdinGone
              \/ stdin.held = <<>> /\ stdin.end = "hup"
              \/ Spinning(Found("stdin"), StdinBatch)
ReadStdin ==
  /\ At("stdin")
  /\ IF Found("stdin") \cap Readable = {}
     THEN relay' = [relay EXCEPT !.pc = "sockIn"] /\ UNCHANGED <<stdin, toSocket>>
     ELSE IF StdinBroken
     THEN relay' = [relay EXCEPT !.result = "failed"] /\ UNCHANGED <<stdin, toSocket>>
     ELSE /\ toSocket' = StdinBatch
          /\ stdin' = [stdin EXCEPT !.held = Rest(@, Len(StdinBatch))]
          /\ relay' = [relay EXCEPT !.pc = "sockIn", !.ready = Unserved("stdin"),
                                    !.stdinOpen = @ /\ ~StdinEnded,
                                    !.halfClosed = @ \/ StdinEnded]
  /\ UNCHANGED <<load, typed, up, got, said, down, daemon, threads, toStdout, channel, shut,
                 stdout, unread, quiet>>

(* The socket's output: never into a pump that still owes bytes.  A reset,  *)
(* like an end of file, is met behind the last of the daemon's bytes.       *)
SocketInDueAnyway == Found("socket") \cap Readable # {}
SocketInDue == Found("socket") \cap Readable # {} /\ toStdout = <<>>
SocketEnded == \/ down = <<>> /\ daemon # "open"
               \/ Spinning(Found("socket"), First(down, RELAY_CHUNK))
ReadSocket ==
  /\ At("sockIn")
  /\ IF SocketInDue
     THEN /\ toStdout' = First(down, RELAY_CHUNK)
          /\ down' = Rest(down, RELAY_CHUNK)
          /\ relay' = [relay EXCEPT !.pc = "sockOut", !.ready = Unserved("socket"),
                                    !.socketOpen = @ /\ ~SocketEnded]
     ELSE /\ relay' = [relay EXCEPT !.pc = "sockOut", !.ready = Unserved("socket")]
          /\ UNCHANGED <<toStdout, down>>
  /\ UNCHANGED <<world, threads, up, toSocket, channel, shut, quiet>>

(* The socket's input: one write; a daemon that is gone ends the upload and *)
(* nothing else.                                                            *)
UploadEnds == daemon = "closed" /\ toSocket # <<>>
Uploaded == First(toSocket, SockCap - Len(up))
WriteSocket ==
  /\ At("sockOut")
  /\ IF UploadEnds
     THEN /\ toSocket' = <<>> /\ up' = up
          /\ relay' = [relay EXCEPT !.pc = "stdout", !.stdinOpen = FALSE]
     ELSE /\ up' = up \o Uploaded
          /\ toSocket' = Rest(toSocket, Len(Uploaded))
          /\ relay' = [relay EXCEPT !.pc = "stdout"]
  /\ UNCHANGED <<world, threads, down, toStdout, channel, shut, quiet>>

(* The channel, and the loop's condition.  A pump whose worker is gone      *)
(* drops what it owed.                                                      *)
WorkerEnded == "HUP" \in Found("channel") \/ ("OUT" \in Found("channel") /\ WorkerGone)
Forwarded == IF "OUT" \in Found("channel") THEN First(toStdout, ChannelCap - Len(channel))
             ELSE <<>>
GoesOn(stdoutOpen, owed) == stdoutOpen /\ (relay.socketOpen \/ owed # <<>>)
WriteChannel ==
  /\ At("stdout")
  /\ IF WorkerEnded
     THEN /\ relay' = [relay EXCEPT !.pc = "finish", !.stdoutOpen = FALSE, !.ready = {}]
          /\ UNCHANGED <<toStdout, channel>>
     ELSE /\ channel' = channel \o Forwarded
          /\ toStdout' = Rest(toStdout, Len(Forwarded))
          /\ relay' = [relay EXCEPT !.pc = IF GoesOn(TRUE, toStdout') THEN "poll" ELSE "finish",
                                    !.ready = {}]
  /\ UNCHANGED <<world, threads, up, down, toSocket, shut, quiet>>

-----------------------------------------------------------------------------
(* StdoutWorker::finish: the end of the channel behind its bytes, and the   *)
(* wait for the worker's status.                                            *)
Finish ==
  /\ At("finish")
  /\ shut' = TRUE /\ progress' = FALSE /\ quiet' = 0
  /\ relay' = [relay EXCEPT !.pc = "flush", !.left = Window]
  /\ UNCHANGED <<world, worker, batch, status, out, up, down, toSocket, toStdout, channel>>

Collect ==
  /\ At("flush") /\ status # "none"
  /\ relay' = [relay EXCEPT !.result = status]
  /\ UNCHANGED <<world, threads, up, down, toSocket, toStdout, channel, shut, quiet>>

(* STDOUT_PROGRESS_INTERVAL passes without a status.                        *)
Moved == progress
Look ==
  /\ At("flush") /\ status = "none"
  /\ quiet' = SmallerOf(Window, quiet + 1)
  /\ progress' = FALSE
  /\ relay' = IF Moved THEN [relay EXCEPT !.left = Window]
              ELSE IF relay.left = 1 THEN [relay EXCEPT !.left = 0, !.result = "TimedOut"]
              ELSE [relay EXCEPT !.left = @ - 1]
  /\ UNCHANGED <<world, worker, batch, status, out, up, down, toSocket, toStdout, channel, shut>>

-----------------------------------------------------------------------------
(* The worker: copy_channel_to_stdout, then its status and its close.  A    *)
(* blocking write returns when all of its batch is in; the process's exit   *)
(* takes the thread with it.                                                *)
rest == <<load, typed, stdin, up, got, said, down, daemon, relay, toSocket, toStdout, shut,
          stdout, unread>>
Works(place) == worker.pc = place
Stops(how) == worker' = [worker EXCEPT !.pc = "status", !.end = how]

ChannelEnded == shut /\ channel = <<>>
WorkerFill ==
  /\ Works("fill")
  /\ \/ /\ channel # <<>>
        /\ batch' = First(channel, RELAY_CHUNK) /\ channel' = Rest(channel, RELAY_CHUNK)
        /\ worker' = [worker EXCEPT !.pc = "poll"]
     \/ ChannelEnded /\ Stops("ok") /\ UNCHANGED <<batch, channel>>
  /\ UNCHANGED <<rest, status, progress, out, quiet>>

Room == StdoutCap - unread
WorkerPoll ==
  /\ Works("poll")
  /\ \/ stdout.end = "left" /\ Stops("ok")
     \/ /\ stdout.end # "left" /\ (Room > 0 \/ stdout.end = "full")
        /\ worker' = [worker EXCEPT !.pc = "write", !.moved = FALSE]
  /\ UNCHANGED <<rest, batch, channel, status, progress, out, quiet>>

WorkerWrite ==
  /\ Works("write") /\ stdout.end = "open" /\ Room > 0 /\ batch # <<>>
  /\ out' = Append(out, batch[1]) /\ batch' = Rest(batch, 1) /\ unread' = unread + 1
  /\ worker' = [worker EXCEPT !.moved = TRUE]
  /\ UNCHANGED <<load, typed, stdin, up, got, said, down, daemon, relay, toSocket, toStdout, shut,
                 stdout, channel, status, progress, quiet>>

(* The write returns: whole, or short because stdout is non-blocking or     *)
(* came to an end under it, or with EAGAIN, or with the error.              *)
Returns == batch = <<>> \/ stdout.mode = "nonblocking" \/ stdout.end # "open"
CountsAttempts == TRUE
Counts == worker.moved
WorkerReturn ==
  /\ Works("write") /\ Returns
  /\ IF ~worker.moved /\ stdout.end = "left" THEN Stops("ok")
     ELSE IF ~worker.moved /\ stdout.end = "full" THEN Stops("failed")
     ELSE worker' = [worker EXCEPT !.pc = IF batch = <<>> THEN "fill" ELSE "poll",
                                    !.moved = FALSE]
  /\ progress' = (progress \/ Counts)
  /\ quiet' = IF worker.moved THEN 0 ELSE quiet
  /\ UNCHANGED <<rest, batch, channel, status, out>>

WorkerStatus ==
  /\ Works("status")
  /\ status' = worker.end /\ worker' = [worker EXCEPT !.pc = "close"]
  /\ UNCHANGED <<rest, batch, channel, progress, out, quiet>>

WorkerClose ==
  /\ Works("close")
  /\ worker' = [worker EXCEPT !.pc = "gone"] /\ channel' = <<>>
  /\ UNCHANGED <<rest, batch, status, progress, out, quiet>>

-----------------------------------------------------------------------------
(* The user, the daemon, and whoever reads stdout.                          *)
inside == <<load, relay, toSocket, toStdout, channel, shut, threads, quiet>>

Type ==
  /\ stdin.end = "open" /\ Len(typed) < load.keys
  /\ typed' = Append(typed, Len(typed) + 1)
  /\ stdin' = [stdin EXCEPT !.held = Append(@, Len(typed) + 1)]
  /\ UNCHANGED <<inside, up, got, said, down, daemon, stdout, unread>>

EndStdin ==
  /\ stdin.end = "open"
  /\ \E how \in load.ends : stdin' = [stdin EXCEPT !.end = how]
  /\ UNCHANGED <<inside, typed, up, got, said, down, daemon, stdout, unread>>

DaemonReads ==
  /\ daemon # "closed" /\ up # <<>>
  /\ got' = Append(got, up[1]) /\ up' = Rest(up, 1)
  /\ UNCHANGED <<inside, typed, stdin, said, down, daemon, stdout, unread>>

DaemonSays ==
  /\ daemon = "open" /\ Len(said) < load.words /\ Len(down) < SockCap
  /\ said' = Append(said, Len(said) + 1) /\ down' = Append(down, Len(said) + 1)
  /\ UNCHANGED <<inside, typed, stdin, up, got, daemon, stdout, unread>>

(* Its last flush shuts the writing side first (conn::flush_final).         *)
DaemonEnds ==
  /\ \/ daemon = "open" /\ daemon' = "shut"
     \/ daemon # "closed" /\ daemon' = "closed"
  /\ UNCHANGED <<inside, typed, stdin, up, got, said, down, stdout, unread>>

ReaderTakes ==
  /\ stdout.end # "left" /\ unread > 0 /\ unread' = unread - 1
  /\ UNCHANGED <<inside, typed, stdin, up, got, said, down, daemon, stdout>>

(* Whoever else has this stdout open writes to it too.                      *)
OthersWrite ==
  /\ stdout.mode = "nonblocking" /\ stdout.end = "open" /\ Room > 0 /\ unread' = StdoutCap
  /\ UNCHANGED <<inside, typed, stdin, up, got, said, down, daemon, stdout>>

StdoutEnds ==
  /\ stdout.end = "open" /\ \E how \in {"left", "full"} : stdout' = [stdout EXCEPT !.end = how]
  /\ UNCHANGED <<inside, typed, stdin, up, got, said, down, daemon, unread>>

Pass == Poll \/ ReadStdin \/ ReadSocket \/ WriteSocket \/ WriteChannel \/ Finish \/ Collect
Work == WorkerFill \/ WorkerPoll \/ WorkerWrite \/ WorkerReturn \/ WorkerStatus \/ WorkerClose
Outside == \/ Type \/ EndStdin \/ DaemonReads \/ DaemonSays \/ DaemonEnds
           \/ ReaderTakes \/ OthersWrite \/ StdoutEnds
Next == ~Over /\ (Pass \/ Look \/ Work \/ Outside)

Spec == Init /\ [][Next]_vars

(* The threads are scheduled and the clock runs.  The daemon reads what     *)
(* comes while it lives -- it pauses while its queue for the PTY is full, so *)
(* this is to assume a shell that reads its terminal; nothing makes the     *)
(* user type, the daemon end or anybody read stdout.                        *)
FairSpec == /\ Spec /\ WF_vars(~Over /\ Pass) /\ WF_vars(~Over /\ Look)
            /\ WF_vars(~Over /\ Work) /\ WF_vars(~Over /\ DaemonReads)
=============================================================================
