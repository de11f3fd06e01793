------------------------------- MODULE RunDir -------------------------------
(***************************************************************************)
(* One session id in the run directory, and the processes that contend for *)
(* it: `spawn` and the daemon it starts, a `daemon` started by hand,       *)
(* `kill`, and the sweep of `list` (crates/nomux/src/rundir.rs, control.rs,*)
(* attach.rs, and the start and end of daemon.rs).  What keeps them apart  *)
(* is flock(2) on <id>.lock, a file that is itself unlinked; what tells a  *)
(* live session from a dead one is whether connect(2) to <id>.sock is      *)
(* refused.  Each step is one system call on the shared names, and any     *)
(* process may die between two of them.                                    *)
(*                                                                         *)
(* The files are the socket, the pidfile and the lock; the label and the   *)
(* agent socket come and go with the pidfile.  Every deadline may pass at  *)
(* any moment.  A pid is its process and is not used again.  An operator   *)
(* beside another that differs from it by a slip is a mutated form of it,  *)
(* and the specification never uses it.                                    *)
(***************************************************************************)
EXTENDS Integers, FiniteSets

CONSTANTS
  MaxSpawns, MaxDirects, MaxKills, MaxLists, (* bounds: processes per mode  *)
  MaxStarts,     (* bound: processes that somebody starts, of any mode      *)
  MaxFaults,     (* bound: crashes, failed startups, ends of its own       *)
  Befalls        (* what else may happen: subset of {"crash", "wedge",     *)
                 (* "quits"}                                               *)

ASSUME RunDirAssumption ==
  /\ {MaxSpawns, MaxDirects, MaxKills, MaxLists, MaxStarts, MaxFaults} \subseteq Nat
  /\ MaxStarts > 0
  /\ Befalls \subseteq {"crash", "wedge", "quits"}

Procs == 1 .. (MaxSpawns + MaxStarts)   \* a spawn starts a daemon of its own
NoProc == 0
Inodes == Procs
NoInode == 0
LOCK_PASSES == 3

(* What <id>.pid holds where it does not name a process. *)
Missing == 0
Unwritten == -1

VARIABLES
  lockName,  \* the inode <id>.lock names
  owner,     \* per inode: the process whose open-file description holds its flock
  sock,      \* the process that bound what <id>.sock names
  pidfile,   \* Missing, Unwritten, or the process <id>.pid names
  proc,      \* the processes
  faults
vars == <<lockName, owner, sock, pidfile, proc, faults>>

Kinds == {"spawn", "spawned", "direct", "kill", "list"}
Daemons == {"spawned", "direct"}
Places ==
  {"unborn", "ended",
   "create", "reopen", "flock", "verify",
   "probe", "start", "await", "published",
   "adopt", "bind_probe", "remove_stale", "clear_pid", "bind", "listen",
   "create_pid", "write_pid", "release", "serving",
   "resolve", "read_pid", "term", "watch", "killed", "final",
   "sweep", "recheck", "unlink_sock", "unlink_pid", "unlink_lock", "leave"}

(* `fd` and `ofd`: the lock's descriptor, and whose open-file description   *)
(* it is on; a spawned daemon's is its parent's.  `granted`: the lock is    *)
(* held and verified.  `lst`: the listener.  `ref`: the daemon a spawn      *)
(* started or a kill has pinned.  `peer`: the daemon a spawn reached.       *)
Process ==
  [kind : Kinds \cup {"none"}, pc : Places, fd : Inodes \cup {NoInode},
   ofd : Procs \cup {NoProc}, granted : BOOLEAN, created : BOOLEAN,
   passes : 0 .. LOCK_PASSES, lst : {"none", "bound", "listening"},
   term : BOOLEAN, ref : Procs \cup {NoProc}, peer : Procs \cup {NoProc}]
NoProcess ==
  [kind |-> "none", pc |-> "unborn", fd |-> NoInode, ofd |-> NoProc,
   granted |-> FALSE, created |-> FALSE, passes |-> 0, lst |-> "none",
   term |-> FALSE, ref |-> NoProc, peer |-> NoProc]

Init ==
  /\ lockName = NoInode /\ owner = [i \in Inodes |-> NoProc]
  /\ sock = NoProc /\ pidfile = Missing
  /\ proc = [p \in Procs |-> NoProcess] /\ faults = 0

Lowest(S) == {p \in S : \A q \in S : p <= q}
Alive(p) == proc[p].pc \notin {"unborn", "ended"}
Fault == faults < MaxFaults /\ faults' = faults + 1
At(p, pc) == proc[p].pc = pc
GoesTo(p, pc) == proc' = [proc EXCEPT ![p].pc = pc]

(* close(2) of p's lock descriptor: the lock goes with the last descriptor  *)
(* on its open-file description.                                            *)
Closed(p) ==
  [i \in Inodes |->
     IF /\ i = proc[p].fd /\ owner[i] = proc[p].ofd
        /\ \A q \in Procs \ {p} : ~(proc[q].fd = i /\ proc[q].ofd = proc[p].ofd)
     THEN NoProc ELSE owner[i]]
WithoutLock(r) ==
  [r EXCEPT !.fd = NoInode, !.ofd = NoProc, !.granted = FALSE, !.created = FALSE,
            !.passes = 0]

(* A process ends, and every descriptor it has is closed. *)
Corpse(p) == [NoProcess EXCEPT !.kind = proc[p].kind, !.pc = "ended"]
Ends(p) == owner' = Closed(p) /\ proc' = [proc EXCEPT ![p] = Corpse(p)]

(* connect_once: a name that is bound but not listened on yet refuses like  *)
(* a dead one; any call may be interrupted, or fail for a reason that says  *)
(* nothing of the listener.                                                 *)
Unsettled == {"backlog full", "interrupted"}
ConnectOnce ==
  (IF sock = NoProc THEN {"absent"}
   ELSE IF proc[sock].lst # "listening" THEN {"refused"}
   ELSE {"stream"} \cup (IF "wedge" \in Befalls THEN {"backlog full"} ELSE {}))
  \cup (IF "wedge" \in Befalls THEN {"interrupted", "denied"} ELSE {})

(* connect_within asks again while the last answer settles nothing, until   *)
(* its deadline; liveness reads what comes of it.                           *)
ConnectWithin ==
  (ConnectOnce \ Unsettled)
  \cup (IF ConnectOnce \cap Unsettled # {} THEN {"timed out"} ELSE {})
Stale == {"absent", "refused"}
Verdict(outcome) ==
  IF outcome = "stream" THEN "alive" ELSE IF outcome \in Stale THEN outcome ELSE "unknown"
Probe == {Verdict(outcome) : outcome \in ConnectWithin}

Start(p, kind) ==
  /\ p \in Lowest({q \in Procs : At(q, "unborn")})
  /\ Cardinality({q \in Procs : proc[q].kind \notin {"none", "spawned"}}) < MaxStarts
  /\ Cardinality({q \in Procs : proc[q].kind = kind}) <
       CASE kind = "spawn" -> MaxSpawns [] kind = "direct" -> MaxDirects
         [] kind = "kill" -> MaxKills [] kind = "list" -> MaxLists
         [] OTHER -> 0
  /\ proc' = [proc EXCEPT ![p].kind = kind,
                          ![p].pc = IF kind = "list" THEN "sweep" ELSE "create"]
  /\ UNCHANGED <<lockName, owner, sock, pidfile, faults>>

-----------------------------------------------------------------------------
(* Taking the lock: try_lock_spawn_or_refuse *)

(* Where a process goes once the lock is its own. *)
Granted(p) ==
  IF proc[p].kind \in Daemons
  THEN (IF proc[p].lst = "none" THEN "bind_probe" ELSE "unlink_sock")
  ELSE IF proc[p].kind = "spawn" THEN "probe"
  ELSE IF proc[p].kind = "kill" THEN "resolve" ELSE "recheck"

(* The lock is not to be had this instant: `spawn` and `kill` ask again     *)
(* until a deadline, a daemon that is starting is refused, and the sweep    *)
(* and a daemon that is ending go without.                                  *)
Denied(p) ==
  \/ /\ proc[p].kind \in {"spawn", "kill"} /\ owner' = Closed(p)
     /\ proc' = [proc EXCEPT ![p] = [WithoutLock(@) EXCEPT !.pc = "create"]]
  \/ Ends(p)

(* O_CREAT|O_EXCL, or an open without where the name is taken; one that is  *)
(* gone by then costs a pass.                                               *)
OutOfPasses(p) == proc[p].passes = LOCK_PASSES
FreeInodes == {i \in Inodes : i # lockName /\ \A p \in Procs : proc[p].fd # i}
Create(p) ==
  /\ At(p, "create")
  /\ IF OutOfPasses(p) THEN Denied(p) /\ UNCHANGED lockName
     ELSE IF lockName # NoInode
     THEN GoesTo(p, "reopen") /\ UNCHANGED <<lockName, owner>>
     ELSE \E i \in Lowest(FreeInodes) :
            /\ lockName' = i /\ UNCHANGED owner
            /\ proc' = [proc EXCEPT ![p] =
                 [@ EXCEPT !.fd = i, !.ofd = p, !.created = TRUE, !.pc = "flock",
                           !.passes = proc[p].passes + 1]]
  /\ UNCHANGED <<sock, pidfile, faults>>

Reopen(p) ==
  /\ At(p, "reopen")
  /\ proc' = [proc EXCEPT ![p] =
       IF lockName = NoInode THEN [@ EXCEPT !.pc = "create", !.passes = proc[p].passes + 1]
       ELSE [@ EXCEPT !.fd = lockName, !.ofd = p, !.pc = "flock", !.passes = proc[p].passes + 1]]
  /\ UNCHANGED <<lockName, owner, sock, pidfile, faults>>

Flock(p) ==
  /\ At(p, "flock")
  /\ IF owner[proc[p].fd] = NoProc
     THEN owner' = [owner EXCEPT ![proc[p].fd] = p] /\ GoesTo(p, "verify")
     ELSE Denied(p)
  /\ UNCHANGED <<lockName, sock, pidfile, faults>>

(* locks_the_file_at: a lock is worth having only on the file that is at    *)
(* the path now.                                                            *)
LocksWhatever(p) == TRUE
LocksTheFileAtPath(p) == proc[p].fd = lockName
Verify(p) ==
  /\ At(p, "verify")
  /\ IF LocksTheFileAtPath(p)
     THEN /\ proc' = [proc EXCEPT ![p].granted = TRUE, ![p].passes = 0,
                                  ![p].pc = Granted(p)]
          /\ UNCHANGED owner
     ELSE /\ owner' = Closed(p)
          /\ proc' = [proc EXCEPT ![p] =
               [WithoutLock(@) EXCEPT !.pc = "create", !.passes = proc[p].passes]]
  /\ UNCHANGED <<lockName, sock, pidfile, faults>>

(* An open or a flock that fails: the file system has no locks, or none     *)
(* this moment.  A name that was created stays.                             *)
LockFails(p) ==
  /\ proc[p].pc \in {"create", "reopen", "flock"} /\ Fault /\ Denied(p)
  /\ UNCHANGED <<lockName, sock, pidfile>>

(* release_lock_name, on the way out of a start that failed. *)
ReleaseAnyName(p) == lockName' = NoInode
ReleaseLockName(p) == lockName' = IF proc[p].created THEN NoInode ELSE lockName
GivenUp(p) == [proc EXCEPT ![p].pc = "leave", ![p].granted = FALSE]
StartFails(p) == ReleaseLockName(p) /\ proc' = GivenUp(p) /\ UNCHANGED owner

(* What is left to do with the name gone is to close the descriptor. *)
Leave(p) ==
  /\ At(p, "leave") /\ Ends(p) /\ UNCHANGED <<lockName, sock, pidfile, faults>>

-----------------------------------------------------------------------------
(* unlink_all_locked: the socket, the pidfile, and the lock last of all.    *)
(* unlink_published_locked is the same without the lock.                    *)

UnlinkSock(p) ==
  /\ At(p, "unlink_sock") /\ sock' = NoProc /\ GoesTo(p, "unlink_pid")
  /\ UNCHANGED <<lockName, owner, pidfile, faults>>
Inherited(p) == proc[p].kind = "spawned" /\ proc[p].ofd # p
UnlinkPid(p) ==
  /\ At(p, "unlink_pid") /\ pidfile' = Missing
  /\ IF Inherited(p) THEN Ends(p) ELSE GoesTo(p, "unlink_lock") /\ UNCHANGED owner
  /\ UNCHANGED <<lockName, sock, faults>>
UnlinkLock(p) ==
  /\ At(p, "unlink_lock") /\ lockName' = NoInode /\ proc' = GivenUp(p)
  /\ UNCHANGED <<owner, sock, pidfile, faults>>

-----------------------------------------------------------------------------
(* spawn: create, spawn_daemon and await_publication *)

SpawnProbes(p) ==
  /\ At(p, "probe")
  /\ \E answer \in Probe :
       IF answer \in Stale THEN GoesTo(p, "start") /\ UNCHANGED owner ELSE Ends(p)
  /\ UNCHANGED <<lockName, sock, pidfile, faults>>

(* fork and exec; the child inherits the locked descriptor. *)
SpawnStarts(p) ==
  /\ At(p, "start")
  /\ \/ /\ \E d \in Lowest({q \in Procs : At(q, "unborn")}) :
             proc' = [proc EXCEPT ![p].pc = "await", ![p].ref = d,
                        ![d] = [@ EXCEPT !.kind = "spawned", !.pc = "adopt",
                                         !.fd = proc[p].fd, !.ofd = proc[p].ofd]]
        /\ UNCHANGED <<lockName, owner, faults>>
     \/ Fault /\ StartFails(p)
  /\ UNCHANGED <<sock, pidfile>>

(* The socket answers first and the pidfile is complete later, if ever; the *)
(* deadline may come at any look.                                           *)
SpawnAwaits(p) ==
  /\ At(p, "await")
  /\ \/ /\ "alive" \in Probe /\ UNCHANGED owner
        /\ proc' = [proc EXCEPT ![p].pc = "published", ![p].peer = sock]
     \/ Probe \ {"alive"} # {} /\ Ends(p)
  /\ UNCHANGED <<lockName, sock, pidfile, faults>>
SpawnReturns(p) ==
  /\ At(p, "published") /\ Ends(p)
  /\ UNCHANGED <<lockName, sock, pidfile, faults>>

-----------------------------------------------------------------------------
(* The daemon: start, bind_socket and publish, and its end *)

(* inherit_spawn_lock: the descriptor is the authority, as long as it is    *)
(* the lock's.                                                              *)
Adopt(d) ==
  /\ At(d, "adopt")
  /\ IF LocksTheFileAtPath(d)
     THEN /\ owner' = [owner EXCEPT ![proc[d].fd] = proc[d].ofd]
          /\ proc' = [proc EXCEPT ![d].granted = TRUE, ![d].pc = "bind_probe"]
     ELSE Ends(d)
  /\ UNCHANGED <<lockName, sock, pidfile, faults>>

(* allocate_ring or a release of the launcher failed, before the bind.      *)
SetupFails(d) ==
  /\ At(d, "bind_probe") /\ Fault /\ StartFails(d) /\ UNCHANGED <<sock, pidfile>>
BindProbes(d) ==
  /\ At(d, "bind_probe")
  /\ \E answer \in Probe :
       IF answer \in Stale
       THEN /\ GoesTo(d, IF answer = "refused" THEN "remove_stale" ELSE "clear_pid")
            /\ UNCHANGED <<lockName, owner>>
       ELSE StartFails(d)
  /\ UNCHANGED <<sock, pidfile, faults>>
RemoveStale(d) ==
  /\ At(d, "remove_stale") /\ sock' = NoProc /\ GoesTo(d, "clear_pid")
  /\ UNCHANGED <<lockName, owner, pidfile, faults>>
PidLeft(d) == pidfile' = pidfile
PidCleared(d) == pidfile' = Missing
ClearPid(d) ==
  /\ At(d, "clear_pid") /\ PidCleared(d) /\ GoesTo(d, "bind")
  /\ UNCHANGED <<lockName, owner, sock, faults>>
Bind(d) ==
  /\ At(d, "bind")
  /\ IF sock = NoProc
     THEN /\ sock' = d /\ UNCHANGED <<lockName, owner>>
          /\ proc' = [proc EXCEPT ![d].lst = "bound", ![d].pc = "listen"]
     ELSE StartFails(d) /\ UNCHANGED sock
  /\ UNCHANGED <<pidfile, faults>>
ListenUnlocked(d) ==
  /\ At(d, "listen") /\ owner' = Closed(d)
  /\ proc' = [proc EXCEPT ![d] =
       [WithoutLock(@) EXCEPT !.lst = "listening", !.pc = "create_pid"]]
  /\ UNCHANGED <<lockName, sock, pidfile, faults>>
Listen(d) ==
  /\ At(d, "listen")
  /\ proc' = [proc EXCEPT ![d].lst = "listening", ![d].pc = "create_pid"]
  /\ UNCHANGED <<lockName, owner, sock, pidfile, faults>>

(* write_private creates the file and fills it in two steps.                *)
CreatePid(d) ==
  /\ At(d, "create_pid") /\ pidfile' = Unwritten /\ GoesTo(d, "write_pid")
  /\ UNCHANGED <<lockName, owner, sock, faults>>
WritePid(d) ==
  /\ At(d, "write_pid") /\ pidfile' = d /\ GoesTo(d, "release")
  /\ UNCHANGED <<lockName, owner, sock, faults>>
PublishFails(d) ==
  /\ proc[d].pc \in {"create_pid", "write_pid", "release"} /\ Fault
  /\ GoesTo(d, "unlink_sock")
  /\ UNCHANGED <<lockName, owner, sock, pidfile>>

(* Never carried into the event loop. *)
Release(d) ==
  /\ At(d, "release") /\ owner' = Closed(d)
  /\ proc' = [proc EXCEPT ![d] = [WithoutLock(@) EXCEPT !.pc = "serving"]]
  /\ UNCHANGED <<lockName, sock, pidfile, faults>>

(* shutdown, for a signal or an end of its own: the files go if the lock    *)
(* can be had this instant, and the listener with the process.              *)
UnlinkAll == "create"
Stops(d) ==
  /\ At(d, "serving") /\ GoesTo(d, UnlinkAll)
  /\ IF proc[d].term THEN UNCHANGED faults ELSE "quits" \in Befalls /\ Fault
  /\ UNCHANGED <<lockName, owner, sock, pidfile>>

-----------------------------------------------------------------------------
(* kill, with the lock held throughout *)

Resolve(k) ==
  /\ At(k, "resolve")
  /\ \E answer \in Probe : GoesTo(k, IF answer \in Stale THEN "final" ELSE "read_pid")
  /\ UNCHANGED <<lockName, owner, sock, pidfile, faults>>

(* A pidfile that is not complete is waited out until a deadline; a number  *)
(* that names no process is refused; else the process is pinned.            *)
ReadPid(k) ==
  /\ At(k, "read_pid")
  /\ IF pidfile \in Procs /\ Alive(pidfile)
     THEN /\ proc' = [proc EXCEPT ![k].ref = pidfile, ![k].pc = "term"]
          /\ UNCHANGED owner
     ELSE \/ pidfile \notin Procs /\ GoesTo(k, "resolve") /\ UNCHANGED owner
          \/ Ends(k)
  /\ UNCHANGED <<lockName, sock, pidfile, faults>>

Term(k) ==
  /\ At(k, "term")
  /\ proc' = [proc EXCEPT ![k].pc = "watch",
                          ![proc[k].ref].term = @ \/ Alive(proc[k].ref)]
  /\ UNCHANGED <<lockName, owner, sock, pidfile, faults>>

(* Liveness first, deadline second; what cannot be probed is not escalated  *)
(* on.                                                                      *)
Watch(k) ==
  /\ proc[k].pc \in {"watch", "killed"}
  /\ \E answer \in Probe :
       IF answer \in Stale THEN GoesTo(k, "final") /\ UNCHANGED owner
       ELSE \/ answer = "alive" /\ At(k, "watch") /\ Alive(proc[k].ref)
               /\ owner' = Closed(proc[k].ref)
               /\ proc' = [proc EXCEPT ![k].pc = "killed",
                                       ![proc[k].ref] = Corpse(proc[k].ref)]
            \/ answer = "alive" /\ At(k, "watch") /\ ~Alive(proc[k].ref)
               /\ GoesTo(k, "killed") /\ UNCHANGED owner
            \/ answer = "alive" /\ At(k, "killed") /\ Ends(k)
            \/ answer = "unknown" /\ Ends(k)
  /\ UNCHANGED <<lockName, sock, pidfile, faults>>
Final(k) ==
  /\ At(k, "final")
  /\ \E answer \in Probe :
       IF answer \in Stale THEN GoesTo(k, "unlink_sock") /\ UNCHANGED owner ELSE Ends(k)
  /\ UNCHANGED <<lockName, sock, pidfile, faults>>

-----------------------------------------------------------------------------
(* list: the probe is a hint, and decided again under the lock *)

Sweep(l) ==
  /\ At(l, "sweep")
  /\ \E answer \in Probe :
       IF answer \in Stale THEN GoesTo(l, "create") /\ UNCHANGED owner ELSE Ends(l)
  /\ UNCHANGED <<lockName, sock, pidfile, faults>>
TakesTheHint(answer) == TRUE
StillStale(answer) == answer \in Stale
Recheck(l) ==
  /\ At(l, "recheck")
  /\ \E answer \in Probe :
       IF StillStale(answer) THEN GoesTo(l, "unlink_sock") /\ UNCHANGED owner ELSE Ends(l)
  /\ UNCHANGED <<lockName, sock, pidfile, faults>>

-----------------------------------------------------------------------------

(* SIGKILL, or a panic that aborts, between any two steps. *)
Crash(p) ==
  /\ "crash" \in Befalls /\ Alive(p) /\ Fault /\ Ends(p)
  /\ UNCHANGED <<lockName, sock, pidfile>>

Locking(p) == Create(p) \/ Reopen(p) \/ Flock(p) \/ Verify(p) \/ LockFails(p)
Unlinking(p) == UnlinkSock(p) \/ UnlinkPid(p) \/ UnlinkLock(p) \/ Leave(p)
Spawning(p) == SpawnProbes(p) \/ SpawnStarts(p) \/ SpawnAwaits(p) \/ SpawnReturns(p)
Serving(d) ==
  \/ Adopt(d) \/ SetupFails(d) \/ BindProbes(d) \/ RemoveStale(d) \/ ClearPid(d)
  \/ Bind(d) \/ Listen(d) \/ CreatePid(d) \/ WritePid(d) \/ PublishFails(d)
  \/ Release(d) \/ Stops(d)
Killing(k) == Resolve(k) \/ ReadPid(k) \/ Term(k) \/ Watch(k) \/ Final(k)
Listing(l) == Sweep(l) \/ Recheck(l)
Next ==
  \E p \in Procs :
    \/ \E kind \in Kinds : Start(p, kind)
    \/ Locking(p) \/ Unlinking(p) \/ Spawning(p) \/ Serving(p) \/ Killing(p)
    \/ Listing(p) \/ Crash(p)
Spec == Init /\ [][Next]_vars
=============================================================================
