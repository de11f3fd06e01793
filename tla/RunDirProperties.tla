--------------------------- MODULE RunDirProperties ---------------------------
(* What RunDir promises about the files of one session id. *)
EXTENDS RunDir

(* Every variable of RunDir, and every process, has its type, and a flock is *)
(* held through a descriptor that some process has open: none outlives its  *)
(* holders.                                                                 *)
TypeOK ==
  /\ lockName \in Inodes \cup {NoInode}
  /\ owner \in [Inodes -> Procs \cup {NoProc}]
  /\ sock \in Procs \cup {NoProc}
  /\ pidfile \in Procs \cup {Missing, Unwritten}
  /\ proc \in [Procs -> Process]
  /\ faults \in 0 .. MaxFaults
  /\ \A i \in Inodes : owner[i] # NoProc =>
       \E p \in Procs : proc[p].fd = i /\ proc[p].ofd = owner[i]

Serves(d) == d \in Procs /\ proc[d].lst = "listening"

(* Authority over the id is one open-file description: two processes that  *)
(* both believe they hold <id>.lock are a spawn and the daemon that         *)
(* inherited it.  What SpawnLock is for: a file unlinked while it is locked *)
(* stops being a mutex.                                                     *)
LockIsAMutex ==
  \A p, q \in Procs :
    proc[p].granted /\ proc[q].granted => proc[p].ofd = proc[q].ofd

(* Nobody removes or replaces the socket of a daemon that bound it and has *)
(* not begun to remove it itself: neither the sweep of `list`, whose first  *)
(* probe is a hint, nor `kill`, nor another start, nor a daemon of an       *)
(* earlier session of this id on its way out.                               *)
LiveSessionsKeepTheirSocket ==
  \A d \in Procs :
    proc[d].lst # "none" /\ proc[d].pc \notin {"unlink_pid", "unlink_lock", "leave"}
      => sock = d

(* A complete pidfile beside a socket that answers names the process that  *)
(* answers: what a dead daemon of this id left is cleared before the bind,  *)
(* so `kill` never signals the number of an earlier session.                *)
PidfileIsTrue == Serves(sock) /\ pidfile \in Procs => pidfile = sock

(* Whoever takes the lock in order to judge the session finds it whole: a  *)
(* socket that answers has its pid beside it.  The daemon binds before it   *)
(* writes the pidfile, and a `kill` inside that window could neither signal *)
(* nor remove anything (await_publication, control::resolve).               *)
PublishedBeforeJudged ==
  \A p \in Procs :
    /\ proc[p].granted
    /\ proc[p].kind \in {"kill", "list"} \/ proc[p].pc = "probe"
    /\ Serves(sock)
    => pidfile = sock

(* A session that `kill` or the sweep has found dead under the lock stays  *)
(* dead until its files are gone: no daemon binds inside that region, so    *)
(* `kill` never ends with bound_since.                                      *)
DeadStaysDead ==
  \A p \in Procs :
    proc[p].granted /\ proc[p].kind \in {"kill", "list"}
      /\ proc[p].pc \in {"final", "unlink_sock"} => ~Serves(sock)

(* A spawn that reports success is connected to the daemon it started, and  *)
(* the complete pidfile it waited for is that daemon's: two clients are     *)
(* never both told that they created one session.                           *)
SpawnGetsItsOwn ==
  \A p \in Procs :
    At(p, "published") =>
      /\ proc[p].peer = proc[p].ref
      /\ pidfile \in Procs => pidfile = proc[p].ref
=============================================================================
