---------------------------- MODULE RunDirProofs ----------------------------
(***************************************************************************)
(* Proofs about the spawn lock, for any number of processes of each mode   *)
(* and of faults: types, that a flock outlives no holder, and that the     *)
(* authority over an id is one open-file description; then about what that *)
(* lock is for, the socket and the pidfile of the id.                      *)
(***************************************************************************)
EXTENDS RunDirProperties, TLAPS

-----------------------------------------------------------------------------
(* The inductive invariant.                                                 *)

(* Where a process has the lock and has verified it; where it has the flock *)
(* at all; where a spawn is once its daemon has a share of its descriptor;  *)
(* and where a daemon may be with a share of another's.                     *)
Authorised ==
  {"probe", "start", "await", "published", "bind_probe", "remove_stale", "clear_pid", "bind",
   "listen", "create_pid", "write_pid", "release", "resolve", "read_pid", "term", "watch",
   "killed", "final", "recheck", "unlink_sock", "unlink_pid", "unlink_lock"}
Flocked == Authorised \cup {"verify", "adopt"}
Parental == {"await", "published", "ended"}
Inheriting ==
  {"adopt", "bind_probe", "remove_stale", "clear_pid", "bind", "listen", "create_pid",
   "write_pid", "release", "unlink_sock", "unlink_pid", "leave"}

(* What one process is, by itself.                                          *)
Sound(p, r) ==
  /\ r.granted <=> r.pc \in Authorised
  /\ r.pc = "unborn" => r = NoProcess
  /\ r.pc \in {"create", "reopen", "serving", "sweep"} => r.fd = NoInode /\ r.ofd = NoProc
  /\ r.pc = "reopen" => r.passes < LOCK_PASSES
  /\ r.pc = "flock" => r.fd \in Inodes /\ r.ofd = p
  /\ r.pc \in Flocked => r.fd \in Inodes /\ r.ofd \in Procs
  /\ r.pc \in {"term", "watch", "killed"} => r.ref \in Procs
  /\ r.ofd \notin {NoProc, p} => r.kind = "spawned" /\ ~r.created /\ r.pc \in Inheriting
AllSound == \A p \in Procs : Sound(p, proc[p])

(* Whoever has authority has it over the file the name leads to, and a      *)
(* flock is on the description of whoever believes to have it.              *)
LockIsAtThePath == \A p \in Procs : proc[p].pc \in Authorised => proc[p].fd = lockName
FlockIsHeld == \A p \in Procs : proc[p].pc \in Flocked => owner[proc[p].fd] = proc[p].ofd

(* A description is shared by a spawn and the one daemon it started.        *)
ShareOfAParent ==
  \A p, q \in Procs : proc[q].ofd = p /\ q # p => proc[p].pc \in Parental
OneShare ==
  \A p, q \in Procs :
    proc[p].ofd = proc[q].ofd /\ proc[p].ofd \notin {NoProc, p, q} => p = q

IInv == /\ TypeOK /\ AllSound
        /\ LockIsAtThePath /\ FlockIsHeld /\ ShareOfAParent /\ OneShare


-----------------------------------------------------------------------------
(* What the sets and constants are.                                         *)

LEMMA Sets ==
  /\ NoProc \notin Procs /\ NoInode \notin Inodes /\ Inodes = Procs
  /\ \A p \in Procs : p \in Nat
BY RunDirAssumption DEF Procs, Inodes, NoProc, NoInode

LEMMA LowestIsIn == ASSUME NEW S, NEW p \in Lowest(S) PROVE p \in S
BY DEF Lowest

RestTyped ==
  /\ sock \in Procs \cup {NoProc} /\ pidfile \in Procs \cup {Missing, Unwritten}
  /\ faults \in 0 .. MaxFaults

(* What a process that keeps its descriptor has to show of its step.        *)
Stays(q) ==
  /\ Sound(q, proc'[q])
  /\ proc'[q].fd = proc[q].fd /\ proc'[q].ofd = proc[q].ofd
  /\ proc'[q].pc \in Authorised => proc[q].fd = lockName
  /\ proc'[q].pc \in Flocked => proc[q].pc \in Flocked
  /\ proc[q].pc \in Parental => proc'[q].pc \in Parental

LEMMA UnmovedStays ==
  ASSUME IInv, NEW q \in Procs, proc'[q] = proc[q]
  PROVE  Stays(q)
BY DEF IInv, Stays, AllSound, LockIsAtThePath

(* A step that touches no lock.                                             *)
LEMMA StaysKeeps ==
  ASSUME IInv, RestTyped', proc' \in [Procs -> Process],
         lockName' = lockName, owner' = owner, \A q \in Procs : Stays(q)
  PROVE  IInv'
<1>1. TypeOK'
  BY DEF IInv, TypeOK, RestTyped, Stays
<1>2. AllSound' /\ LockIsAtThePath'
  BY DEF AllSound, LockIsAtThePath, Stays
<1>3. FlockIsHeld'
  BY DEF IInv, FlockIsHeld, Stays
<1>4. ShareOfAParent' /\ OneShare'
  BY DEF IInv, ShareOfAParent, OneShare, Stays
<1> QED  BY <1>1, <1>2, <1>3, <1>4 DEF IInv

(* A step with which p closes its descriptor: the flock goes only if nobody *)
(* else has a share of it.                                                  *)
LEMMA DropsKeeps ==
  ASSUME IInv, RestTyped', proc' \in [Procs -> Process], lockName' = lockName,
         NEW p \in Procs, owner' = Closed(p),
         Sound(p, proc'[p]), proc'[p].fd = NoInode, proc'[p].ofd = NoProc,
         proc[p].pc \in Parental => proc'[p].pc \in Parental,
         \A q \in Procs \ {p} : Stays(q)
  PROVE  IInv'
<1>1. proc'[p].pc \notin Flocked /\ proc'[p].pc \notin Authorised
  BY Sets DEF Sound, Flocked
<1>2. /\ owner \in [Inodes -> Procs \cup {NoProc}] /\ proc \in [Procs -> Process]
      /\ owner' \in [Inodes -> Procs \cup {NoProc}]
  BY DEF IInv, TypeOK, Closed
<1>3. ASSUME NEW i \in Inodes, owner'[i] # NoProc
      PROVE  \E q \in Procs : proc'[q].fd = i /\ proc'[q].ofd = owner'[i]
  <2>1. owner'[i] = owner[i]
    BY <1>3 DEF Closed
  <2>2. PICK w \in Procs : proc[w].fd = i /\ proc[w].ofd = owner[i]
    BY <1>3, <2>1 DEF IInv, TypeOK
  <2>3. CASE w # p
    BY <2>1, <2>2, <2>3 DEF Stays
  <2>4. CASE w = p
    <3>1. PICK q \in Procs \ {p} : proc[q].fd = i /\ proc[q].ofd = proc[p].ofd
      BY <1>3, <2>2, <2>4 DEF Closed
    <3> QED  BY <2>1, <2>2, <2>4, <3>1 DEF Stays
  <2> QED  BY <2>3, <2>4
<1>4. TypeOK'
  BY <1>2, <1>3 DEF IInv, TypeOK, RestTyped
<1>5. AllSound' /\ LockIsAtThePath'
  BY <1>1 DEF AllSound, LockIsAtThePath, Stays
<1>6. FlockIsHeld'
  <2> SUFFICES ASSUME NEW q \in Procs, proc'[q].pc \in Flocked
               PROVE  owner'[proc'[q].fd] = proc'[q].ofd
    BY DEF FlockIsHeld
  <2>1. q # p
    BY <1>1
  <2>2. /\ proc'[q].fd = proc[q].fd /\ proc'[q].ofd = proc[q].ofd
        /\ proc[q].pc \in Flocked
    BY <2>1 DEF Stays
  <2>3. proc[q].fd \in Inodes /\ owner[proc[q].fd] = proc[q].ofd
    BY <2>2 DEF IInv, AllSound, Sound, FlockIsHeld
  <2> QED  BY <2>1, <2>2, <2>3 DEF Closed
<1>7. ShareOfAParent' /\ OneShare'
  BY Sets DEF IInv, ShareOfAParent, OneShare, Stays
<1> QED  BY <1>4, <1>5, <1>6, <1>7 DEF IInv


(* p opens the lock's file, new or found, on a description of its own.      *)
LEMMA OpensKeeps ==
  ASSUME IInv, RestTyped', NEW p \in Procs, NEW i \in Inodes, NEW r \in Process,
         proc' = [proc EXCEPT ![p] = r], owner' = owner,
         lockName' = i, lockName \in {NoInode, i},
         proc[p].pc \in {"create", "reopen"},
         r.pc = "flock", r.fd = i, r.ofd = p, ~r.granted
  PROVE  IInv'
<1>1. proc \in [Procs -> Process] /\ proc[p].fd = NoInode /\ proc[p].ofd = NoProc
  BY DEF IInv, TypeOK, AllSound, Sound
<1>2. proc' \in [Procs -> Process] /\ proc'[p] = r /\ \A q \in Procs \ {p} : proc'[q] = proc[q]
  BY <1>1
<1>3. TypeOK'
  <2>1. ASSUME NEW j \in Inodes, owner'[j] # NoProc
        PROVE  \E q \in Procs : proc'[q].fd = j /\ proc'[q].ofd = owner'[j]
    <3>1. PICK w \in Procs : proc[w].fd = j /\ proc[w].ofd = owner[j]
      BY <2>1 DEF IInv, TypeOK
    <3> QED  BY <1>1, <1>2, <2>1, <3>1
  <2> QED  BY <1>2, <2>1 DEF IInv, TypeOK, RestTyped
<1>4. AllSound'
  <2>1. Sound(p, r)
    BY Sets DEF Sound, Authorised, Flocked, Inheriting
  <2> QED  BY <1>2, <2>1 DEF IInv, AllSound
<1>5. LockIsAtThePath'
  <2>1. \A q \in Procs : proc[q].pc \in Authorised => proc[q].fd = i
    BY Sets DEF IInv, LockIsAtThePath, AllSound, Sound, Flocked
  <2> QED  BY <1>2, <2>1 DEF LockIsAtThePath, Authorised
<1>6. FlockIsHeld'
  BY <1>2 DEF IInv, FlockIsHeld, Flocked, Authorised
<1>7. ShareOfAParent' /\ OneShare'
  BY <1>1, <1>2 DEF IInv, ShareOfAParent, OneShare, Parental
<1> QED  BY <1>3, <1>4, <1>5, <1>6, <1>7 DEF IInv

LEMMA GivenUpMoves ==
  ASSUME IInv, NEW p \in Procs, proc' = GivenUp(p)
  PROVE  /\ proc' \in [Procs -> Process]
         /\ proc'[p].pc = "leave" /\ ~proc'[p].granted
         /\ proc'[p].fd = proc[p].fd /\ proc'[p].ofd = proc[p].ofd
         /\ proc'[p].kind = proc[p].kind /\ proc'[p].created = proc[p].created
         /\ \A q \in Procs \ {p} : proc'[q] = proc[q]
<1> DEFINE r == [proc[p] EXCEPT !.pc = "leave", !.granted = FALSE]
<1>1. proc \in [Procs -> Process]
  BY DEF IInv, TypeOK
<1>2. /\ r \in Process /\ r.pc = "leave" /\ ~r.granted
      /\ r.fd = proc[p].fd /\ r.ofd = proc[p].ofd /\ r.kind = proc[p].kind
      /\ r.created = proc[p].created
  <2>1. proc[p] \in Process /\ "leave" \in Places
    BY <1>1 DEF Places
  <2> QED  BY <2>1 DEF Process
<1>3. proc' = [proc EXCEPT ![p] = r]
  BY <1>1 DEF GivenUp, Process
<1> HIDE DEF r
<1> QED  BY <1>1, <1>2, <1>3

(* The lock's name goes, on the word of one that has authority through a    *)
(* description of its own: there is nobody else who has.                    *)
LEMMA ReleasesKeeps ==
  ASSUME IInv, RestTyped', NEW p \in Procs, lockName' = NoInode, owner' = owner,
         proc' = GivenUp(p), proc[p].pc \in Authorised \ Parental, proc[p].ofd = p
  PROVE  IInv'
<1>1. /\ proc' \in [Procs -> Process]
      /\ proc'[p].pc = "leave" /\ ~proc'[p].granted
      /\ proc'[p].fd = proc[p].fd /\ proc'[p].ofd = proc[p].ofd
      /\ proc'[p].kind = proc[p].kind /\ proc'[p].created = proc[p].created
      /\ \A q \in Procs \ {p} : proc'[q] = proc[q]
  BY GivenUpMoves
<1>2. \A q \in Procs : proc'[q].fd = proc[q].fd /\ proc'[q].ofd = proc[q].ofd
  BY <1>1
<1>3. \A q \in Procs \ {p} : proc[q].pc \notin Authorised
  <2> SUFFICES ASSUME NEW q \in Procs \ {p}, proc[q].pc \in Authorised PROVE FALSE
    OBVIOUS
  <2>1. proc[q].fd = lockName /\ proc[p].fd = lockName
    BY DEF IInv, LockIsAtThePath
  <2>2. proc[q].ofd = p
    BY <2>1 DEF IInv, FlockIsHeld, Flocked
  <2> QED  BY <2>2 DEF IInv, ShareOfAParent
<1>4. TypeOK'
  BY <1>1, <1>2 DEF IInv, TypeOK, RestTyped
<1>5. AllSound'
  <2>1. Sound(p, proc'[p])
    BY <1>1 DEF IInv, AllSound, Sound, Authorised, Flocked, Inheriting
  <2> QED  BY <1>1, <2>1 DEF IInv, AllSound
<1>6. LockIsAtThePath'
  BY <1>1, <1>3 DEF LockIsAtThePath, Authorised
<1>7. FlockIsHeld'
  BY <1>1 DEF IInv, FlockIsHeld, Flocked, Authorised
<1>8. ShareOfAParent' /\ OneShare'
  BY <1>1, <1>2 DEF IInv, ShareOfAParent, OneShare
<1> QED  BY <1>4, <1>5, <1>6, <1>7, <1>8 DEF IInv

(* A start that failed gives up, and takes the name with it if it made it.  *)
LEMMA StartFailsKeeps ==
  ASSUME IInv, RestTyped', NEW p \in Procs, StartFails(p),
         proc[p].pc \in {"start", "bind_probe", "bind"}
  PROVE  IInv'
<1>1. proc[p].pc \in Authorised /\ proc[p].pc \notin Parental /\ proc[p].pc \in Flocked
  BY DEF Authorised, Parental, Flocked
<1>2. proc \in [Procs -> Process] /\ Sound(p, proc[p])
  BY DEF IInv, TypeOK, AllSound
<1>3. CASE proc[p].created
  <2>1. proc[p].ofd = p
    BY <1>1, <1>2, <1>3, Sets DEF Sound
  <2> QED  BY <1>1, <1>3, <2>1, ReleasesKeeps DEF StartFails, ReleaseLockName
<1>4. CASE ~proc[p].created
  <2>1. /\ proc' \in [Procs -> Process]
        /\ proc'[p].pc = "leave" /\ ~proc'[p].granted
        /\ proc'[p].fd = proc[p].fd /\ proc'[p].ofd = proc[p].ofd
        /\ proc'[p].kind = proc[p].kind /\ proc'[p].created = proc[p].created
        /\ \A q \in Procs \ {p} : proc'[q] = proc[q]
    BY GivenUpMoves DEF StartFails
  <2>2. Stays(p)
    BY <1>1, <1>2, <2>1 DEF Stays, Sound, Authorised, Flocked, Inheriting
  <2>3. \A q \in Procs : Stays(q)
    BY <2>1, <2>2, UnmovedStays
  <2> QED  BY <1>4, <2>1, <2>3, StaysKeeps DEF StartFails, ReleaseLockName
<1> QED  BY <1>3, <1>4

(* p alone moves, and keeps its descriptor.                                 *)
LEMMA OneStaysKeeps ==
  ASSUME IInv, RestTyped', NEW p \in Procs, NEW r \in Process,
         proc' = [proc EXCEPT ![p] = r], lockName' = lockName, owner' = owner, Stays(p)
  PROVE  IInv'
<1>1. proc' \in [Procs -> Process] /\ \A q \in Procs \ {p} : proc'[q] = proc[q]
  BY DEF IInv, TypeOK
<1>2. \A q \in Procs : Stays(q)
  BY <1>1, UnmovedStays
<1> QED  BY <1>1, <1>2, StaysKeeps

(* p alone moves, and closes its descriptor.                                *)
LEMMA OneDropsKeeps ==
  ASSUME IInv, RestTyped', NEW p \in Procs, NEW r \in Process,
         proc' = [proc EXCEPT ![p] = r], lockName' = lockName, owner' = Closed(p),
         Sound(p, r), r.fd = NoInode, r.ofd = NoProc,
         proc[p].pc \in Parental => r.pc \in Parental
  PROVE  IInv'
<1>1. /\ proc' \in [Procs -> Process] /\ proc'[p] = r
      /\ \A q \in Procs \ {p} : proc'[q] = proc[q]
  BY DEF IInv, TypeOK
<1>2. \A q \in Procs \ {p} : Stays(q)
  BY <1>1, UnmovedStays
<1> QED  BY <1>1, <1>2, DropsKeeps

LEMMA CorpseIsSound ==
  ASSUME IInv, NEW p \in Procs
  PROVE  /\ Corpse(p) \in Process /\ Sound(p, Corpse(p)) /\ Corpse(p).pc = "ended"
         /\ Corpse(p).fd = NoInode /\ Corpse(p).ofd = NoProc
<1>1. proc[p] \in Process
  BY DEF IInv, TypeOK
<1>2. proc[p].kind \in Kinds \cup {"none"} /\ "ended" \in Places /\ 0 \in 0 .. LOCK_PASSES
  BY <1>1 DEF Process, Places, LOCK_PASSES
<1>3. /\ Corpse(p) \in Process /\ Corpse(p).pc = "ended" /\ ~Corpse(p).granted
      /\ Corpse(p).fd = NoInode /\ Corpse(p).ofd = NoProc
  BY <1>2 DEF Process, Corpse, NoProcess
<1>4. Sound(p, Corpse(p))
  BY <1>3 DEF Sound, Authorised, Flocked
<1> QED  BY <1>3, <1>4

LEMMA EndsKeeps ==
  ASSUME IInv, RestTyped', NEW p \in Procs, Ends(p), lockName' = lockName
  PROVE  IInv'
BY CorpseIsSound, OneDropsKeeps DEF Ends, Parental

LEMMA DeniedKeeps ==
  ASSUME IInv, RestTyped', NEW p \in Procs, Denied(p), lockName' = lockName,
         proc[p].pc \in {"create", "reopen", "flock"}
  PROVE  IInv'
<1>1. CASE Ends(p)
  BY <1>1, EndsKeeps
<1>2. CASE ~Ends(p)
  <2> DEFINE r == [WithoutLock(proc[p]) EXCEPT !.pc = "create"]
  <2>1. /\ proc \in [Procs -> Process] /\ owner' = Closed(p) /\ proc' = [proc EXCEPT ![p] = r]
    BY <1>2 DEF IInv, TypeOK, Denied
  <2>2. r \in Process /\ r.fd = NoInode /\ r.ofd = NoProc /\ r.pc = "create" /\ ~r.granted
    <3>1. proc[p] \in Process /\ "create" \in Places /\ 0 \in 0 .. LOCK_PASSES
      BY <2>1 DEF Places, LOCK_PASSES
    <3> QED  BY <3>1 DEF WithoutLock, Process
  <2>3. Sound(p, r)
    BY <2>2 DEF Sound, Authorised, Flocked
  <2> HIDE DEF r
  <2> QED  BY <2>1, <2>2, <2>3, OneDropsKeeps DEF Parental
<1> QED  BY <1>1, <1>2

(* p moves on, with its descriptor and what it is.                          *)
LEMMA MoveKeeps ==
  ASSUME IInv, RestTyped', NEW p \in Procs, NEW r \in Process,
         proc' = [proc EXCEPT ![p] = r], lockName' = lockName, owner' = owner,
         r.fd = proc[p].fd, r.ofd = proc[p].ofd, r.kind = proc[p].kind,
         r.created = proc[p].created,
         r.granted <=> r.pc \in Authorised,
         r.pc \in Authorised => proc[p].pc \in Authorised \/ proc[p].fd = lockName,
         r.pc \in Flocked => proc[p].pc \in Flocked,
         proc[p].pc \in Parental => r.pc \in Parental,
         r.pc \notin {"unborn", "reopen", "flock", "serving", "sweep"},
         r.pc = "create" => proc[p].pc \in {"serving", "sweep"},
         r.pc \in {"term", "watch", "killed"} => r.ref \in Procs,
         proc[p].pc \in Inheriting => r.pc \in Inheriting \/ proc[p].ofd = p
  PROVE  IInv'
<1>1. Sound(p, proc[p]) /\ (proc[p].pc \in Authorised => proc[p].fd = lockName)
  BY DEF IInv, AllSound, LockIsAtThePath
<1>2. Sound(p, r)
  BY <1>1 DEF Sound
<1>3. proc'[p] = r
  BY DEF IInv, TypeOK
<1>4. Stays(p)
  BY <1>1, <1>2, <1>3 DEF Stays
<1> QED  BY <1>4, OneStaysKeeps

(* p moves on, and nothing of it changes but its place.                     *)
LEMMA GoesToKeeps ==
  ASSUME IInv, RestTyped', NEW p \in Procs, NEW place \in Places, GoesTo(p, place),
         lockName' = lockName, owner' = owner,
         place \in Authorised <=> proc[p].pc \in Authorised,
         place \in Flocked => proc[p].pc \in Flocked,
         proc[p].pc \in Parental => place \in Parental,
         place \notin {"unborn", "reopen", "flock", "serving", "sweep"},
         place = "create" => proc[p].pc \in {"serving", "sweep"},
         place \in {"term", "watch", "killed"} => proc[p].pc \in {"term", "watch", "killed"},
         proc[p].pc \in Inheriting => place \in Inheriting \/ proc[p].ofd = p
  PROVE  IInv'
<1> DEFINE r == [proc[p] EXCEPT !.pc = place]
<1>1. /\ proc \in [Procs -> Process] /\ proc[p] \in Process /\ Sound(p, proc[p])
      /\ proc' = [proc EXCEPT ![p] = r]
  BY DEF IInv, TypeOK, AllSound, GoesTo
<1>2. /\ r \in Process /\ r.pc = place /\ r.granted = proc[p].granted /\ r.ref = proc[p].ref
      /\ r.fd = proc[p].fd /\ r.ofd = proc[p].ofd /\ r.kind = proc[p].kind
      /\ r.created = proc[p].created
  BY <1>1 DEF Process
<1>3. /\ proc[p].granted <=> proc[p].pc \in Authorised
      /\ proc[p].pc \in {"term", "watch", "killed"} => proc[p].ref \in Procs
  BY <1>1 DEF Sound
<1> HIDE DEF r
<1> QED  BY <1>1, <1>2, <1>3, MoveKeeps

-----------------------------------------------------------------------------
(* Every step keeps it.  Starting, and taking the lock.                     *)

LEMMA StartKeeps ==
  ASSUME IInv, NEW p \in Procs, NEW kind \in Kinds, Start(p, kind)
  PROVE  IInv'
<1> DEFINE place == IF kind = "list" THEN "sweep" ELSE "create"
           r == [proc[p] EXCEPT !.kind = kind, !.pc = place]
<1>1. /\ proc \in [Procs -> Process] /\ proc[p] \in Process /\ Sound(p, proc[p]) /\ RestTyped
  BY DEF IInv, TypeOK, AllSound, RestTyped
<1>2. proc[p].pc = "unborn" /\ proc[p] = NoProcess
  BY <1>1, LowestIsIn DEF Start, At, Sound
<1>3. proc' = [proc EXCEPT ![p] = r] /\ RestTyped' /\ lockName' = lockName /\ owner' = owner
  BY <1>1 DEF Start, RestTyped
<1>4. /\ r \in Process /\ r.pc = place /\ ~r.granted
      /\ r.fd = proc[p].fd /\ r.ofd = proc[p].ofd /\ r.fd = NoInode /\ r.ofd = NoProc
  <2>1. place \in Places
    BY DEF Places
  <2> HIDE DEF place
  <2>2. r \in Process /\ r.pc = place
    BY <1>1, <2>1 DEF Process
  <2> QED  BY <1>1, <1>2, <2>1, <2>2 DEF Process, NoProcess
<1>5. place \in {"sweep", "create"}
  OBVIOUS
<1> HIDE DEF r, place
<1>6. Sound(p, r)
  BY <1>4, <1>5 DEF Sound, Authorised, Flocked
<1>7. Stays(p)
  BY <1>1, <1>2, <1>3, <1>4, <1>5, <1>6 DEF Stays, Authorised, Flocked, Parental
<1> QED  BY <1>3, <1>4, <1>7, OneStaysKeeps

LEMMA CreateKeeps == ASSUME IInv, NEW p \in Procs, Create(p) PROVE IInv'
<1>1. /\ proc \in [Procs -> Process] /\ proc[p] \in Process /\ Sound(p, proc[p]) /\ RestTyped'
      /\ proc[p].pc = "create" /\ ~proc[p].granted /\ proc[p].fd = NoInode /\ proc[p].ofd = NoProc
      /\ lockName \in Inodes \cup {NoInode}
  BY ZenonT(30) DEF IInv, TypeOK, AllSound, RestTyped, Create, At, Sound, Authorised
<1>2. CASE OutOfPasses(p)
  BY <1>1, <1>2, DeniedKeeps DEF Create
<1>3. CASE ~OutOfPasses(p) /\ lockName # NoInode
  <2> DEFINE r == [proc[p] EXCEPT !.pc = "reopen"]
  <2>1. proc' = [proc EXCEPT ![p] = r] /\ lockName' = lockName /\ owner' = owner
    BY <1>1, <1>3 DEF Create, GoesTo
  <2>2. /\ r \in Process /\ r.pc = "reopen" /\ ~r.granted /\ r.fd = NoInode /\ r.ofd = NoProc
        /\ r.passes < LOCK_PASSES
    <3>1. proc[p].passes \in 0 .. LOCK_PASSES /\ proc[p].passes # LOCK_PASSES /\ "reopen" \in Places
      BY <1>1, <1>3 DEF Process, OutOfPasses, Places
    <3> QED  BY <1>1, <3>1 DEF Process, LOCK_PASSES
  <2> HIDE DEF r
  <2>3. Sound(p, r) /\ proc'[p] = r
    BY <1>1, <2>1, <2>2 DEF Sound, Authorised, Flocked
  <2>4. Stays(p)
    BY <1>1, <2>1, <2>2, <2>3 DEF Stays, Authorised, Flocked, Parental
  <2> QED  BY <1>1, <2>1, <2>2, <2>4, OneStaysKeeps
<1>4. CASE ~OutOfPasses(p) /\ lockName = NoInode
  <2>1. PICK i \in Lowest(FreeInodes) :
          /\ lockName' = i /\ owner' = owner
          /\ proc' = [proc EXCEPT ![p] =
               [@ EXCEPT !.fd = i, !.ofd = p, !.created = TRUE, !.pc = "flock",
                         !.passes = proc[p].passes + 1]]
    BY <1>4 DEF Create
  <2>2. i \in Inodes
    BY LowestIsIn DEF FreeInodes
  <2> DEFINE r == [proc[p] EXCEPT !.fd = i, !.ofd = p, !.created = TRUE, !.pc = "flock",
                                  !.passes = proc[p].passes + 1]
  <2>3. proc' = [proc EXCEPT ![p] = r]
    BY <1>1, <2>1
  <2>4. r \in Process /\ r.pc = "flock" /\ r.fd = i /\ r.ofd = p /\ ~r.granted
    <3>1. proc[p].passes + 1 \in 0 .. LOCK_PASSES /\ "flock" \in Places
      BY <1>1, <1>4 DEF Process, OutOfPasses, Places, LOCK_PASSES
    <3> QED  BY <1>1, <2>2, <3>1 DEF Process
  <2> HIDE DEF r
  <2> QED  BY <1>1, <1>4, <2>1, <2>2, <2>3, <2>4, OpensKeeps
<1> QED  BY <1>1, <1>2, <1>3, <1>4

LEMMA ReopenKeeps == ASSUME IInv, NEW p \in Procs, Reopen(p) PROVE IInv'
<1>1. /\ proc \in [Procs -> Process] /\ proc[p] \in Process /\ Sound(p, proc[p]) /\ RestTyped'
      /\ proc[p].pc = "reopen" /\ ~proc[p].granted /\ proc[p].fd = NoInode /\ proc[p].ofd = NoProc
      /\ lockName \in Inodes \cup {NoInode} /\ lockName' = lockName /\ owner' = owner
      /\ proc[p].passes < LOCK_PASSES
  BY DEF IInv, TypeOK, AllSound, RestTyped, Reopen, At, Sound, Authorised
<1>2. proc[p].passes + 1 \in 0 .. LOCK_PASSES /\ {"flock", "create"} \subseteq Places
  BY <1>1 DEF Process, LOCK_PASSES, Places
<1>3. CASE lockName = NoInode
  <2> DEFINE r == [proc[p] EXCEPT !.pc = "create", !.passes = proc[p].passes + 1]
  <2>1. proc' = [proc EXCEPT ![p] = r]
    BY <1>1, <1>3 DEF Reopen
  <2>2. r \in Process /\ r.pc = "create" /\ ~r.granted /\ r.fd = NoInode /\ r.ofd = NoProc
    BY <1>1, <1>2 DEF Process
  <2> HIDE DEF r
  <2>3. Sound(p, r) /\ proc'[p] = r
    BY <1>1, <2>1, <2>2 DEF Sound, Authorised, Flocked
  <2>4. Stays(p)
    BY <1>1, <2>1, <2>2, <2>3 DEF Stays, Authorised, Flocked, Parental
  <2> QED  BY <1>1, <2>1, <2>2, <2>4, OneStaysKeeps
<1>4. CASE lockName # NoInode
  <2> DEFINE r == [proc[p] EXCEPT !.fd = lockName, !.ofd = p, !.pc = "flock", !.passes = proc[p].passes + 1]
  <2>1. proc' = [proc EXCEPT ![p] = r] /\ lockName \in Inodes
    BY <1>1, <1>4 DEF Reopen
  <2>2. r \in Process /\ r.pc = "flock" /\ r.fd = lockName /\ r.ofd = p /\ ~r.granted
    BY <1>1, <1>2, <2>1 DEF Process
  <2> HIDE DEF r
  <2> QED  BY <1>1, <2>1, <2>2, OpensKeeps
<1> QED  BY <1>3, <1>4

(* The flock that is free is held by nobody who would miss it.              *)
LEMMA FlockKeeps == ASSUME IInv, NEW p \in Procs, Flock(p) PROVE IInv'
<1>1. /\ proc \in [Procs -> Process] /\ proc[p] \in Process /\ Sound(p, proc[p]) /\ RestTyped'
      /\ proc[p].pc = "flock" /\ ~proc[p].granted /\ proc[p].fd \in Inodes /\ proc[p].ofd = p
      /\ lockName' = lockName /\ owner \in [Inodes -> Procs \cup {NoProc}]
  BY DEF IInv, TypeOK, AllSound, RestTyped, Flock, At, Sound, Authorised
<1>2. CASE owner[proc[p].fd] # NoProc
  BY <1>1, <1>2, DeniedKeeps DEF Flock
<1>3. CASE owner[proc[p].fd] = NoProc
  <2> DEFINE r == [proc[p] EXCEPT !.pc = "verify"]
  <2>1. /\ proc' = [proc EXCEPT ![p] = r] /\ owner' = [owner EXCEPT ![proc[p].fd] = p]
    BY <1>1, <1>3 DEF Flock, GoesTo
  <2>2. /\ r \in Process /\ r.pc = "verify" /\ ~r.granted /\ r.fd = proc[p].fd /\ r.ofd = p
    <3>1. "verify" \in Places
      BY DEF Places
    <3> QED  BY <1>1, <3>1 DEF Process
  <2> HIDE DEF r
  <2>3. /\ proc' \in [Procs -> Process] /\ proc'[p] = r
        /\ \A q \in Procs \ {p} : proc'[q] = proc[q]
        /\ \A q \in Procs : proc'[q].fd = proc[q].fd /\ proc'[q].ofd = proc[q].ofd
    BY <1>1, <2>1, <2>2
  <2>4. TypeOK'
    <3>1. ASSUME NEW i \in Inodes, owner'[i] # NoProc
          PROVE  \E q \in Procs : proc'[q].fd = i /\ proc'[q].ofd = owner'[i]
      <4>1. CASE i = proc[p].fd
        BY <1>1, <2>1, <2>3, <4>1
      <4>2. CASE i # proc[p].fd
        BY <1>1, <2>1, <2>3, <3>1, <4>2 DEF IInv, TypeOK
      <4> QED  BY <4>1, <4>2
    <3> QED  BY <1>1, <2>1, <2>3, <3>1 DEF IInv, TypeOK, RestTyped
  <2>5. AllSound'
    <3>1. Sound(p, r)
      BY <1>1, <2>2, Sets DEF Sound, Authorised, Flocked
    <3> QED  BY <2>3, <3>1 DEF IInv, AllSound
  <2>6. LockIsAtThePath'
    BY <1>1, <2>2, <2>3 DEF IInv, LockIsAtThePath, Authorised
  <2>7. FlockIsHeld'
    <3> SUFFICES ASSUME NEW q \in Procs, proc'[q].pc \in Flocked
                 PROVE  owner'[proc'[q].fd] = proc'[q].ofd
      BY DEF FlockIsHeld
    <3>1. CASE q = p
      BY <1>1, <2>1, <2>2, <2>3, <3>1
    <3>2. CASE q # p
      <4>1. owner[proc[q].fd] = proc[q].ofd /\ proc[q].ofd \in Procs /\ proc[q].fd \in Inodes
        BY <2>3, <3>2 DEF IInv, AllSound, Sound, FlockIsHeld
      <4> QED  BY <1>1, <1>3, <2>1, <2>3, <3>2, <4>1, Sets
    <3> QED  BY <3>1, <3>2
  <2>8. ShareOfAParent' /\ OneShare'
    BY <1>1, <2>2, <2>3 DEF IInv, ShareOfAParent, OneShare, Parental
  <2> QED  BY <2>4, <2>5, <2>6, <2>7, <2>8 DEF IInv
<1> QED  BY <1>2, <1>3

LEMMA Basics ==
  ASSUME IInv
  PROVE  /\ proc \in [Procs -> Process] /\ RestTyped
         /\ lockName \in Inodes \cup {NoInode} /\ owner \in [Inodes -> Procs \cup {NoProc}]
         /\ \A p \in Procs : proc[p] \in Process /\ Sound(p, proc[p])
BY DEF IInv, TypeOK, RestTyped, AllSound

LEMMA FaultTyped ==
  ASSUME IInv, Fault, UNCHANGED <<sock, pidfile>>
  PROVE  RestTyped'
<1>1. faults \in 0 .. MaxFaults /\ MaxFaults \in Nat /\ faults < MaxFaults /\ faults' = faults + 1
  BY RunDirAssumption DEF IInv, TypeOK, Fault
<1>2. faults' \in 0 .. MaxFaults
  BY <1>1
<1> QED  BY <1>2 DEF IInv, TypeOK, RestTyped

LEMMA VerifyKeeps == ASSUME IInv, NEW p \in Procs, Verify(p) PROVE IInv'
<1>1. /\ proc \in [Procs -> Process] /\ proc[p] \in Process
      /\ proc[p].pc = "verify" /\ RestTyped' /\ lockName' = lockName
  BY Basics DEF Verify, At, RestTyped
<1>2. CASE LocksTheFileAtPath(p)
  <2> DEFINE r == [proc[p] EXCEPT !.granted = TRUE, !.passes = 0, !.pc = Granted(p)]
  <2>1. proc' = [proc EXCEPT ![p] = r] /\ owner' = owner /\ proc[p].fd = lockName
    BY <1>1, <1>2 DEF Verify, LocksTheFileAtPath
  <2>2. Granted(p) \in {"bind_probe", "unlink_sock", "probe", "resolve", "recheck"}
    BY DEF Granted
  <2>3. Granted(p) \in Places /\ Granted(p) \in Authorised
    BY <2>2 DEF Places, Authorised
  <2>4. /\ r \in Process /\ r.pc = Granted(p) /\ r.granted
        /\ r.fd = proc[p].fd /\ r.ofd = proc[p].ofd /\ r.kind = proc[p].kind
        /\ r.created = proc[p].created
    <3>1. 0 \in 0 .. LOCK_PASSES
      BY DEF LOCK_PASSES
    <3> QED  BY <1>1, <2>3, <3>1 DEF Process
  <2> HIDE DEF r
  <2>5. proc[p].pc \in Flocked /\ proc[p].pc \notin Parental /\ proc[p].pc \notin Inheriting
    BY <1>1 DEF Flocked, Parental, Inheriting
  <2> QED  BY <1>1, <2>1, <2>2, <2>3, <2>4, <2>5, MoveKeeps
<1>3. CASE ~LocksTheFileAtPath(p)
  <2> DEFINE r == [WithoutLock(proc[p]) EXCEPT !.pc = "create", !.passes = proc[p].passes]
  <2>1. proc' = [proc EXCEPT ![p] = r] /\ owner' = Closed(p)
    BY <1>1, <1>3 DEF Verify
  <2>2. r \in Process /\ r.fd = NoInode /\ r.ofd = NoProc /\ r.pc = "create" /\ ~r.granted
    <3>1. "create" \in Places
      BY DEF Places
    <3> QED  BY <1>1, <3>1 DEF WithoutLock, Process
  <2> HIDE DEF r
  <2>3. Sound(p, r)
    BY <2>2 DEF Sound, Authorised, Flocked
  <2> QED  BY <1>1, <2>1, <2>2, <2>3, OneDropsKeeps DEF Parental
<1> QED  BY <1>2, <1>3

LEMMA LockFailsKeeps == ASSUME IInv, NEW p \in Procs, LockFails(p) PROVE IInv'
BY FaultTyped, DeniedKeeps DEF LockFails

LEMMA LockingKeeps == ASSUME IInv, NEW p \in Procs, Locking(p) PROVE IInv'
BY CreateKeeps, ReopenKeeps, FlockKeeps, VerifyKeeps, LockFailsKeeps DEF Locking

-----------------------------------------------------------------------------
(* Taking the files away.                                                   *)

LEMMA UnlinkingKeeps == ASSUME IInv, NEW p \in Procs, Unlinking(p) PROVE IInv'
<1>0. RestTyped /\ Sound(p, proc[p])
  BY Basics
<1>1. CASE UnlinkSock(p)
  <2>1. RestTyped' /\ proc[p].pc = "unlink_sock" /\ GoesTo(p, "unlink_pid")
    BY <1>0, <1>1 DEF UnlinkSock, RestTyped, At
  <2> QED  BY <1>1, <2>1, GoesToKeeps
           DEF UnlinkSock, Places, Authorised, Flocked, Parental, Inheriting
<1>2. CASE UnlinkPid(p)
  <2>1. RestTyped' /\ proc[p].pc = "unlink_pid" /\ lockName' = lockName
    BY <1>0, <1>2 DEF UnlinkPid, RestTyped, At
  <2>2. CASE Inherited(p)
    BY <1>2, <2>1, <2>2, EndsKeeps DEF UnlinkPid
  <2>3. CASE ~Inherited(p)
    <3>1. GoesTo(p, "unlink_lock") /\ owner' = owner
      BY <1>2, <2>3 DEF UnlinkPid
    <3>2. proc[p].ofd = p
      BY <1>0, <2>1, <2>3, Sets DEF Sound, Inherited, Flocked, Authorised
    <3> QED  BY <2>1, <3>1, <3>2, GoesToKeeps
             DEF Places, Authorised, Flocked, Parental, Inheriting
  <2> QED  BY <2>2, <2>3
<1>3. CASE UnlinkLock(p)
  <2>1. /\ RestTyped' /\ proc[p].pc = "unlink_lock" /\ lockName' = NoInode /\ owner' = owner
        /\ proc' = GivenUp(p)
    BY <1>0, <1>3 DEF UnlinkLock, RestTyped, At
  <2>2. proc[p].pc \in Authorised \ Parental /\ proc[p].pc \notin Inheriting
    BY <2>1 DEF Authorised, Parental, Inheriting
  <2>3. proc[p].ofd = p
    BY <1>0, <2>2, Sets DEF Sound, Flocked
  <2> QED  BY <2>1, <2>2, <2>3, ReleasesKeeps
<1>4. CASE Leave(p)
  BY <1>0, <1>4, EndsKeeps DEF Leave, RestTyped
<1> QED  BY <1>1, <1>2, <1>3, <1>4 DEF Unlinking

-----------------------------------------------------------------------------
(* spawn.                                                                   *)

(* The daemon is born with a share of the descriptor.                       *)
LEMMA ForkKeeps ==
  ASSUME IInv, NEW p \in Procs, NEW d \in Procs, proc[p].pc = "start", proc[d].pc = "unborn",
         proc' = [proc EXCEPT ![p].pc = "await", ![p].ref = d,
                    ![d] = [@ EXCEPT !.kind = "spawned", !.pc = "adopt",
                                     !.fd = proc[p].fd, !.ofd = proc[p].ofd]],
         UNCHANGED <<lockName, owner, sock, pidfile, faults>>
  PROVE  IInv'
<1> DEFINE r == [proc[p] EXCEPT !.pc = "await", !.ref = d]
           c == [proc[d] EXCEPT !.kind = "spawned", !.pc = "adopt",
                                !.fd = proc[p].fd, !.ofd = proc[p].ofd]
<1>1. /\ proc \in [Procs -> Process] /\ proc[p] \in Process /\ proc[d] \in Process
      /\ RestTyped' /\ Sound(p, proc[p]) /\ Sound(d, proc[d]) /\ p # d
  BY Basics DEF RestTyped
<1>2. proc[d] = NoProcess
  BY <1>1 DEF Sound
<1>3. /\ proc[p].fd \in Inodes /\ proc[p].ofd = p /\ proc[p].granted
      /\ proc[p].fd = lockName /\ owner[proc[p].fd] = p
  <2>1. proc[p].pc \in Authorised /\ proc[p].pc \in Flocked /\ proc[p].pc \notin Inheriting
    BY DEF Authorised, Flocked, Inheriting
  <2>2. proc[p].ofd \in Procs
    BY <1>1, <2>1 DEF Sound
  <2>3. proc[p].ofd = p
    BY <1>1, <2>1, <2>2, Sets DEF Sound
  <2> QED  BY <1>1, <2>1, <2>3 DEF Sound, IInv, LockIsAtThePath, FlockIsHeld
<1>4. /\ r \in Process /\ r.pc = "await" /\ r.granted /\ r.fd = proc[p].fd /\ r.ofd = p
      /\ r.ref = d /\ r.created = proc[p].created
  <2>1. "await" \in Places
    BY DEF Places
  <2> QED  BY <1>1, <1>3, <2>1 DEF Process
<1>5. /\ c \in Process /\ c.pc = "adopt" /\ ~c.granted /\ c.fd = proc[p].fd /\ c.ofd = p
      /\ c.kind = "spawned" /\ ~c.created
  <2>1. "adopt" \in Places /\ "spawned" \in Kinds
    BY DEF Places, Kinds
  <2>2. ~proc[d].granted /\ ~proc[d].created
    BY <1>2 DEF NoProcess
  <2> QED  BY ZenonT(30), <1>1, <1>3, <2>1, <2>2 DEF Process
<1>6. /\ proc' \in [Procs -> Process] /\ proc'[p] = r /\ proc'[d] = c
      /\ \A q \in Procs \ {p, d} : proc'[q] = proc[q]
  BY <1>1, <1>4, <1>5
<1> HIDE DEF r, c
<1>7. TypeOK'
  <2>1. ASSUME NEW i \in Inodes, owner'[i] # NoProc
        PROVE  \E q \in Procs : proc'[q].fd = i /\ proc'[q].ofd = owner'[i]
    <3>1. PICK w \in Procs : proc[w].fd = i /\ proc[w].ofd = owner[i]
      BY <2>1 DEF IInv, TypeOK
    <3>2. w # d
      BY <1>2, <2>1, <3>1 DEF NoProcess
    <3>3. proc'[w].fd = proc[w].fd /\ proc'[w].ofd = proc[w].ofd
      BY <1>3, <1>4, <1>6, <3>2
    <3> QED  BY <3>1, <3>3
  <2> QED  BY <1>1, <1>6, <2>1 DEF IInv, TypeOK, RestTyped
<1>8. AllSound'
  <2>1. Sound(p, r)
    BY <1>3, <1>4, Sets DEF Sound, Authorised, Flocked
  <2>2. Sound(d, c)
    BY <1>3, <1>5, Sets DEF Sound, Authorised, Flocked, Inheriting
  <2> QED  BY <1>6, <2>1, <2>2 DEF IInv, AllSound
<1>9. LockIsAtThePath'
  BY <1>3, <1>4, <1>5, <1>6 DEF IInv, LockIsAtThePath, Authorised
<1>10. FlockIsHeld'
  BY <1>3, <1>4, <1>5, <1>6 DEF IInv, FlockIsHeld
<1>11. \A q \in Procs : q # p => proc[q].ofd # p
  BY DEF IInv, ShareOfAParent, Parental
<1>12. \A q \in Procs : q # d => proc[q].ofd # d
  BY DEF IInv, ShareOfAParent, Parental
<1>13. ShareOfAParent'
  <2> SUFFICES ASSUME NEW a \in Procs, NEW q \in Procs, proc'[q].ofd = a, q # a
               PROVE  proc'[a].pc \in Parental
    BY DEF ShareOfAParent
  <2>1. CASE q = d
    BY ZenonT(30), <1>4, <1>5, <1>6, <2>1 DEF Parental
  <2>2. CASE q # d
    <3>1. proc[q].ofd = a
      BY <1>3, <1>4, <1>6, <2>2
    <3>2. a # p /\ a # d
      BY <1>11, <1>12, <2>2, <3>1
    <3> QED  BY <1>6, <3>1, <3>2 DEF IInv, ShareOfAParent
  <2> QED  BY <2>1, <2>2
<1>14. OneShare'
  <2> SUFFICES ASSUME NEW a \in Procs, NEW q \in Procs,
                      proc'[a].ofd = proc'[q].ofd, proc'[a].ofd \notin {NoProc, a, q}
               PROVE  a = q
    BY DEF OneShare
  <2>1. a # p /\ q # p
    BY <1>4, <1>6
  <2>2. CASE a # d /\ q # d
    BY <1>6, <2>1, <2>2 DEF IInv, OneShare
  <2>3. CASE a = d
    BY ZenonT(30), <1>5, <1>6, <1>11, <2>1, <2>3
  <2>4. CASE q = d
    BY ZenonT(30), <1>5, <1>6, <1>11, <2>1, <2>4
  <2> QED  BY <2>2, <2>3, <2>4
<1> QED  BY <1>7, <1>8, <1>9, <1>10, <1>13, <1>14 DEF IInv

LEMMA SpawningKeeps == ASSUME IInv, NEW p \in Procs, Spawning(p) PROVE IInv'
<1>0. RestTyped /\ proc \in [Procs -> Process] /\ proc[p] \in Process /\ Sound(p, proc[p])
  BY Basics
<1>1. CASE SpawnProbes(p)
  <2>1. RestTyped' /\ proc[p].pc = "probe" /\ lockName' = lockName
    BY <1>0, <1>1 DEF SpawnProbes, RestTyped, At
  <2>2. CASE Ends(p)
    BY <2>1, <2>2, EndsKeeps
  <2>3. CASE GoesTo(p, "start") /\ owner' = owner
    BY <2>1, <2>3, GoesToKeeps DEF Places, Authorised, Flocked, Parental, Inheriting
  <2> QED  BY <1>1, <2>2, <2>3 DEF SpawnProbes
<1>2. CASE SpawnStarts(p)
  <2>1. proc[p].pc = "start" /\ UNCHANGED <<sock, pidfile>>
    BY <1>2 DEF SpawnStarts, At
  <2>2. CASE Fault /\ StartFails(p)
    BY <2>1, <2>2, FaultTyped, StartFailsKeeps
  <2>3. CASE ~(Fault /\ StartFails(p))
    <3>1. PICK d \in Lowest({q \in Procs : At(q, "unborn")}) :
            /\ proc' = [proc EXCEPT ![p].pc = "await", ![p].ref = d,
                        ![d] = [@ EXCEPT !.kind = "spawned", !.pc = "adopt",
                                         !.fd = proc[p].fd, !.ofd = proc[p].ofd]]
            /\ UNCHANGED <<lockName, owner, faults>>
      BY <1>2, <2>3 DEF SpawnStarts
    <3>2. d \in Procs /\ proc[d].pc = "unborn"
      BY LowestIsIn DEF At
    <3> QED  BY <2>1, <3>1, <3>2, ForkKeeps
  <2> QED  BY <2>2, <2>3
<1>3. CASE SpawnAwaits(p)
  <2>1. RestTyped' /\ proc[p].pc = "await" /\ lockName' = lockName
    BY <1>0, <1>3 DEF SpawnAwaits, RestTyped, At
  <2>2. CASE Ends(p)
    BY <2>1, <2>2, EndsKeeps
  <2>3. CASE ~Ends(p)
    <3> DEFINE r == [proc[p] EXCEPT !.pc = "published", !.peer = sock]
    <3>1. proc' = [proc EXCEPT ![p] = r] /\ owner' = owner
      BY <1>0, <1>3, <2>3 DEF SpawnAwaits
    <3>2. /\ r \in Process /\ r.pc = "published" /\ r.granted = proc[p].granted
          /\ r.fd = proc[p].fd /\ r.ofd = proc[p].ofd /\ r.kind = proc[p].kind
          /\ r.created = proc[p].created
      <4>1. "published" \in Places /\ sock \in Procs \cup {NoProc}
        BY <1>0 DEF Places, RestTyped
      <4> QED  BY <1>0, <4>1 DEF Process
    <3>3. proc[p].granted
      BY <1>0, <2>1 DEF Sound, Authorised
    <3> HIDE DEF r
    <3> QED  BY <2>1, <3>1, <3>2, <3>3, MoveKeeps
             DEF Authorised, Flocked, Parental, Inheriting
  <2> QED  BY <2>2, <2>3
<1>4. CASE SpawnReturns(p)
  BY <1>0, <1>4, EndsKeeps DEF SpawnReturns, RestTyped
<1> QED  BY <1>1, <1>2, <1>3, <1>4 DEF Spawning

-----------------------------------------------------------------------------
(* The daemon.                                                              *)

(* A share of a flocked description keeps the flock it found.               *)
LEMMA AdoptKeeps == ASSUME IInv, NEW d \in Procs, Adopt(d) PROVE IInv'
<1>1. /\ RestTyped' /\ proc \in [Procs -> Process] /\ proc[d] \in Process
      /\ Sound(d, proc[d]) /\ proc[d].pc = "adopt" /\ lockName' = lockName
      /\ owner \in [Inodes -> Procs \cup {NoProc}]
  BY Basics DEF Adopt, RestTyped, At
<1>2. CASE LocksTheFileAtPath(d)
  <2> DEFINE r == [proc[d] EXCEPT !.granted = TRUE, !.pc = "bind_probe"]
  <2>1. owner[proc[d].fd] = proc[d].ofd /\ proc[d].fd \in Inodes
    BY <1>1 DEF IInv, FlockIsHeld, Flocked, Sound
  <2>2. owner' = owner
    BY <1>1, <1>2, <2>1 DEF Adopt
  <2>3. proc' = [proc EXCEPT ![d] = r] /\ proc[d].fd = lockName
    BY <1>1, <1>2 DEF Adopt, LocksTheFileAtPath
  <2>4. /\ r \in Process /\ r.pc = "bind_probe" /\ r.granted
        /\ r.fd = proc[d].fd /\ r.ofd = proc[d].ofd /\ r.kind = proc[d].kind
        /\ r.created = proc[d].created
    <3>1. "bind_probe" \in Places
      BY DEF Places
    <3> QED  BY <1>1, <3>1 DEF Process
  <2> HIDE DEF r
  <2> QED  BY <1>1, <2>2, <2>3, <2>4, MoveKeeps
           DEF Authorised, Flocked, Parental, Inheriting
<1>3. CASE ~LocksTheFileAtPath(d)
  BY <1>1, <1>3, EndsKeeps DEF Adopt
<1> QED  BY <1>2, <1>3

LEMMA BindingKeeps ==
  ASSUME IInv, NEW d \in Procs,
         SetupFails(d) \/ BindProbes(d) \/ RemoveStale(d) \/ ClearPid(d) \/ Bind(d) \/ Listen(d)
  PROVE  IInv'
<1>0. RestTyped /\ proc \in [Procs -> Process] /\ proc[d] \in Process /\ Sound(d, proc[d])
  BY Basics
<1>1. CASE SetupFails(d)
  BY <1>1, FaultTyped, StartFailsKeeps DEF SetupFails, At
<1>2. CASE BindProbes(d)
  <2>1. RestTyped' /\ proc[d].pc = "bind_probe"
    BY <1>0, <1>2 DEF BindProbes, RestTyped, At
  <2>2. CASE StartFails(d)
    BY <2>1, <2>2, StartFailsKeeps
  <2>3. CASE ~StartFails(d)
    <3>1. PICK place \in {"remove_stale", "clear_pid"} :
            GoesTo(d, place) /\ lockName' = lockName /\ owner' = owner
      BY <1>2, <2>3 DEF BindProbes
    <3> QED  BY <2>1, <3>1, GoesToKeeps DEF Places, Authorised, Flocked, Parental, Inheriting
  <2> QED  BY <2>2, <2>3
<1>3. CASE RemoveStale(d)
  <2>1. /\ RestTyped' /\ proc[d].pc = "remove_stale" /\ GoesTo(d, "clear_pid")
        /\ lockName' = lockName /\ owner' = owner
    BY <1>0, <1>3 DEF RemoveStale, RestTyped, At
  <2> QED  BY <2>1, GoesToKeeps DEF Places, Authorised, Flocked, Parental, Inheriting
<1>4. CASE ClearPid(d)
  <2>1. /\ RestTyped' /\ proc[d].pc = "clear_pid" /\ GoesTo(d, "bind")
        /\ lockName' = lockName /\ owner' = owner
    BY <1>0, <1>4 DEF ClearPid, PidCleared, RestTyped, At
  <2> QED  BY <2>1, GoesToKeeps DEF Places, Authorised, Flocked, Parental, Inheriting
<1>5. CASE Bind(d)
  <2>1. RestTyped' /\ proc[d].pc = "bind"
    BY <1>0, <1>5 DEF Bind, StartFails, RestTyped, At
  <2>2. CASE sock # NoProc
    BY <1>5, <2>1, <2>2, StartFailsKeeps DEF Bind
  <2>3. CASE sock = NoProc
    <3> DEFINE r == [proc[d] EXCEPT !.lst = "bound", !.pc = "listen"]
    <3>1. proc' = [proc EXCEPT ![d] = r] /\ lockName' = lockName /\ owner' = owner
      BY <1>0, <1>5, <2>3 DEF Bind
    <3>2. /\ r \in Process /\ r.pc = "listen" /\ r.granted = proc[d].granted
          /\ r.fd = proc[d].fd /\ r.ofd = proc[d].ofd /\ r.kind = proc[d].kind
          /\ r.created = proc[d].created
      <4>1. "listen" \in Places
        BY DEF Places
      <4> QED  BY <1>0, <4>1 DEF Process
    <3>3. proc[d].granted
      BY <1>0, <2>1 DEF Sound, Authorised
    <3> HIDE DEF r
    <3> QED  BY <2>1, <3>1, <3>2, <3>3, MoveKeeps
             DEF Authorised, Flocked, Parental, Inheriting
  <2> QED  BY <2>2, <2>3
<1>6. CASE Listen(d)
  <2> DEFINE r == [proc[d] EXCEPT !.lst = "listening", !.pc = "create_pid"]
  <2>1. /\ RestTyped' /\ proc[d].pc = "listen" /\ lockName' = lockName /\ owner' = owner
        /\ proc' = [proc EXCEPT ![d] = r]
    BY <1>0, <1>6 DEF Listen, RestTyped, At
  <2>2. /\ r \in Process /\ r.pc = "create_pid" /\ r.granted = proc[d].granted
        /\ r.fd = proc[d].fd /\ r.ofd = proc[d].ofd /\ r.kind = proc[d].kind
        /\ r.created = proc[d].created
    <3>1. "create_pid" \in Places
      BY DEF Places
    <3> QED  BY <1>0, <3>1 DEF Process
  <2>3. proc[d].granted
    BY <1>0, <2>1 DEF Sound, Authorised
  <2> HIDE DEF r
  <2> QED  BY <2>1, <2>2, <2>3, MoveKeeps DEF Authorised, Flocked, Parental, Inheriting
<1> QED  BY <1>1, <1>2, <1>3, <1>4, <1>5, <1>6

LEMMA PublishingKeeps ==
  ASSUME IInv, NEW d \in Procs,
         CreatePid(d) \/ WritePid(d) \/ PublishFails(d) \/ Release(d) \/ Stops(d)
  PROVE  IInv'
<1>0. RestTyped /\ proc \in [Procs -> Process] /\ proc[d] \in Process /\ Sound(d, proc[d])
  BY Basics
<1>1. CASE CreatePid(d)
  <2>1. /\ RestTyped' /\ proc[d].pc = "create_pid" /\ GoesTo(d, "write_pid")
        /\ lockName' = lockName /\ owner' = owner
    BY <1>0, <1>1 DEF CreatePid, RestTyped, At
  <2> QED  BY <2>1, GoesToKeeps DEF Places, Authorised, Flocked, Parental, Inheriting
<1>2. CASE WritePid(d)
  <2>1. /\ RestTyped' /\ proc[d].pc = "write_pid" /\ GoesTo(d, "release")
        /\ lockName' = lockName /\ owner' = owner
    BY <1>0, <1>2 DEF WritePid, RestTyped, At
  <2> QED  BY <2>1, GoesToKeeps DEF Places, Authorised, Flocked, Parental, Inheriting
<1>3. CASE PublishFails(d)
  <2>1. /\ RestTyped' /\ proc[d].pc \in {"create_pid", "write_pid", "release"}
        /\ GoesTo(d, "unlink_sock") /\ lockName' = lockName /\ owner' = owner
    BY <1>3, FaultTyped DEF PublishFails
  <2> QED  BY <2>1, GoesToKeeps DEF Places, Authorised, Flocked, Parental, Inheriting
<1>4. CASE Release(d)
  <2> DEFINE r == [WithoutLock(proc[d]) EXCEPT !.pc = "serving"]
  <2>1. /\ RestTyped' /\ proc[d].pc = "release" /\ lockName' = lockName /\ owner' = Closed(d)
        /\ proc' = [proc EXCEPT ![d] = r]
    BY <1>0, <1>4 DEF Release, RestTyped, At
  <2>2. r \in Process /\ r.pc = "serving" /\ ~r.granted /\ r.fd = NoInode /\ r.ofd = NoProc
    <3>1. "serving" \in Places /\ 0 \in 0 .. LOCK_PASSES
      BY DEF Places, LOCK_PASSES
    <3> QED  BY <1>0, <3>1 DEF WithoutLock, Process
  <2> HIDE DEF r
  <2>3. Sound(d, r)
    BY <2>2 DEF Sound, Authorised, Flocked
  <2> QED  BY <2>1, <2>2, <2>3, OneDropsKeeps DEF Parental
<1>5. CASE Stops(d)
  <2>1. /\ proc[d].pc = "serving" /\ GoesTo(d, "create")
        /\ lockName' = lockName /\ owner' = owner
    BY <1>5 DEF Stops, At, UnlinkAll
  <2>2. RestTyped'
    <3>1. CASE proc[d].term
      BY <1>0, <1>5, <3>1 DEF Stops, RestTyped
    <3>2. CASE ~proc[d].term
      BY <1>5, <3>2, FaultTyped DEF Stops
    <3> QED  BY <3>1, <3>2
  <2> QED  BY <2>1, <2>2, GoesToKeeps DEF Places, Authorised, Flocked, Parental, Inheriting
<1> QED  BY <1>1, <1>2, <1>3, <1>4, <1>5

LEMMA ServingKeeps == ASSUME IInv, NEW d \in Procs, Serving(d) PROVE IInv'
BY AdoptKeeps, BindingKeeps, PublishingKeeps DEF Serving

-----------------------------------------------------------------------------
(* kill and list.                                                           *)

(* The signal is a mark on another process, and moves no descriptor.        *)
LEMMA TermKeeps == ASSUME IInv, NEW k \in Procs, Term(k) PROVE IInv'
<1>1. /\ RestTyped' /\ proc \in [Procs -> Process] /\ proc[k] \in Process
      /\ Sound(k, proc[k]) /\ proc[k].pc = "term" /\ lockName' = lockName /\ owner' = owner
  BY Basics DEF Term, RestTyped, At
<1>2. proc[k].ref \in Procs /\ proc[proc[k].ref] \in Process
  BY <1>1, Basics DEF Sound
<1> DEFINE v == proc[k].ref
           m == [proc EXCEPT ![k].pc = "watch"]
           t == m[v].term \/ Alive(v)
<1>3. proc' = [m EXCEPT ![v].term = t]
  BY <1>1, <1>2 DEF Term
<1>4. "watch" \in Places
  BY DEF Places
<1>5. m \in [Procs -> Process] /\ t \in BOOLEAN
  <2>1. m \in [Procs -> Process]
    BY <1>1, <1>4 DEF Process
  <2>2. m[v] \in Process
    BY <1>2, <2>1
  <2>3. m[v].term \in BOOLEAN
    BY <2>2 DEF Process
  <2> QED  BY <2>1, <2>3
<1>6. \A q \in Procs : /\ m[q].fd = proc[q].fd /\ m[q].ofd = proc[q].ofd
                       /\ m[q].kind = proc[q].kind /\ m[q].created = proc[q].created
                       /\ m[q].granted = proc[q].granted /\ m[q].ref = proc[q].ref
                       /\ m[q].passes = proc[q].passes
                       /\ m[q].pc = IF q = k THEN "watch" ELSE proc[q].pc
                       /\ q # k => m[q] = proc[q]
  BY <1>1, Basics DEF Process
<1> HIDE DEF m, t
<1>7. /\ proc' \in [Procs -> Process]
      /\ \A q \in Procs : /\ proc'[q].fd = m[q].fd /\ proc'[q].ofd = m[q].ofd
                          /\ proc'[q].kind = m[q].kind /\ proc'[q].created = m[q].created
                          /\ proc'[q].granted = m[q].granted /\ proc'[q].ref = m[q].ref
                          /\ proc'[q].passes = m[q].passes /\ proc'[q].pc = m[q].pc
                          /\ q # v => proc'[q] = m[q]
  BY <1>2, <1>3, <1>5 DEF Process
<1>8. Stays(k)
  BY <1>1, <1>2, <1>6, <1>7 DEF Stays, Sound, Authorised, Flocked, Parental, Inheriting,
                                IInv, LockIsAtThePath
<1>9. ASSUME NEW q \in Procs, q # k PROVE Stays(q)
  <2>1. CASE q # v
    BY <1>6, <1>7, <1>9, <2>1, UnmovedStays
  <2>2. CASE q = v /\ proc[q].pc = "unborn"
    <3>1. m[q] = NoProcess /\ proc[q] = NoProcess
      BY <1>6, <1>9, <2>2, Basics DEF Sound
    <3>2. t = FALSE
      <4>1. ~Alive(v)
        BY <2>2 DEF Alive
      <4>2. NoProcess.term = FALSE
        BY DEF NoProcess
      <4>3. ~m[v].term
        BY <2>2, <3>1, <4>2
      <4>4. ~t
        BY <4>1, <4>3 DEF t
      <4> QED  BY <1>5, <4>4
    <3>3. proc'[q] = [m[q] EXCEPT !.term = FALSE]
      BY <1>2, <1>3, <1>5, <2>2, <3>2
    <3>4. proc'[q] = proc[q]
      <4>1. m[q] \in Process /\ m[q].term = FALSE
        <5>1. NoProcess.term = FALSE
          BY DEF NoProcess
        <5>2. m[q].term = FALSE
          BY <3>1, <5>1, Zenon
        <5> QED  BY <1>5, <5>2
      <4>2. [m[q] EXCEPT !.term = FALSE] = m[q]
        BY <4>1 DEF Process
      <4> QED  BY <3>1, <3>3, <4>2
    <3> QED  BY <3>4, UnmovedStays
  <2>3. CASE q = v /\ proc[q].pc # "unborn"
    BY <1>6, <1>7, <1>9, <2>3, Basics DEF Stays, Sound, IInv, LockIsAtThePath
  <2> QED  BY <2>1, <2>2, <2>3
<1> QED  BY <1>1, <1>7, <1>8, <1>9, StaysKeeps

(* SIGKILL closes the descriptor of the daemon, and moves the kill on.      *)
LEMMA KilledKeeps ==
  ASSUME IInv, RestTyped', NEW k \in Procs, NEW v \in Procs,
         proc[k].pc = "watch", lockName' = lockName, owner' = Closed(v),
         proc' = [proc EXCEPT ![k].pc = "killed", ![v] = Corpse(v)]
  PROVE  IInv'
<1>1. /\ proc \in [Procs -> Process] /\ proc[k] \in Process /\ Sound(k, proc[k])
  BY Basics
<1>2. CASE v = k
  <2>1. proc' = [proc EXCEPT ![k] = Corpse(k)]
    BY <1>1, <1>2
  <2> QED  BY <1>2, <2>1, EndsKeeps DEF Ends
<1>3. CASE v # k
  <2> DEFINE r == [proc[k] EXCEPT !.pc = "killed"]
  <2>1. /\ r \in Process /\ r.pc = "killed" /\ r.granted = proc[k].granted
        /\ r.fd = proc[k].fd /\ r.ofd = proc[k].ofd /\ r.kind = proc[k].kind
        /\ r.created = proc[k].created /\ r.ref = proc[k].ref
    <3>1. "killed" \in Places
      BY DEF Places
    <3> QED  BY <1>1, <3>1 DEF Process
  <2>2. /\ proc' \in [Procs -> Process] /\ proc'[k] = r /\ proc'[v] = Corpse(v)
        /\ \A q \in Procs \ {k, v} : proc'[q] = proc[q]
    BY <1>1, <1>3, <2>1, CorpseIsSound
  <2> HIDE DEF r
  <2>3. Stays(k)
    BY <1>1, <2>1, <2>2 DEF Stays, Sound, Authorised, Flocked, Parental, Inheriting,
                            IInv, LockIsAtThePath
  <2>4. \A q \in Procs \ {v} : Stays(q)
    BY <2>2, <2>3, UnmovedStays
  <2>5. /\ Sound(v, proc'[v]) /\ proc'[v].fd = NoInode /\ proc'[v].ofd = NoProc
        /\ proc'[v].pc \in Parental
    BY <2>2, CorpseIsSound DEF Parental
  <2> QED  BY <2>2, <2>4, <2>5, DropsKeeps
<1> QED  BY <1>2, <1>3

LEMMA KillingKeeps == ASSUME IInv, NEW k \in Procs, Killing(k) PROVE IInv'
<1>0. RestTyped /\ proc \in [Procs -> Process] /\ proc[k] \in Process /\ Sound(k, proc[k])
  BY Basics
<1>1. CASE Resolve(k)
  <2>1. RestTyped' /\ proc[k].pc = "resolve" /\ lockName' = lockName /\ owner' = owner
    BY <1>0, <1>1 DEF Resolve, RestTyped, At
  <2>2. PICK place \in {"final", "read_pid"} : GoesTo(k, place)
    BY <1>1 DEF Resolve
  <2> QED  BY <2>1, <2>2, GoesToKeeps DEF Places, Authorised, Flocked, Parental, Inheriting
<1>2. CASE ReadPid(k)
  <2>1. RestTyped' /\ proc[k].pc = "read_pid" /\ lockName' = lockName
    BY <1>0, <1>2 DEF ReadPid, RestTyped, At
  <2>2. CASE Ends(k)
    BY <2>1, <2>2, EndsKeeps
  <2>3. CASE GoesTo(k, "resolve") /\ owner' = owner
    BY <2>1, <2>3, GoesToKeeps DEF Places, Authorised, Flocked, Parental, Inheriting
  <2>4. CASE pidfile \in Procs /\ Alive(pidfile)
    <3> DEFINE r == [proc[k] EXCEPT !.ref = pidfile, !.pc = "term"]
    <3>1. proc' = [proc EXCEPT ![k] = r] /\ owner' = owner
      BY <1>0, <1>2, <2>4 DEF ReadPid
    <3>2. /\ r \in Process /\ r.pc = "term" /\ r.granted = proc[k].granted
          /\ r.fd = proc[k].fd /\ r.ofd = proc[k].ofd /\ r.kind = proc[k].kind
          /\ r.created = proc[k].created /\ r.ref \in Procs
      <4>1. "term" \in Places
        BY DEF Places
      <4> QED  BY <1>0, <2>4, <4>1 DEF Process
    <3>3. proc[k].granted
      BY <1>0, <2>1 DEF Sound, Authorised
    <3> HIDE DEF r
    <3> QED  BY <2>1, <3>1, <3>2, <3>3, MoveKeeps
             DEF Authorised, Flocked, Parental, Inheriting
  <2> QED  BY <1>2, <2>2, <2>3, <2>4 DEF ReadPid
<1>3. CASE Term(k)
  BY <1>3, TermKeeps
<1>4. CASE Watch(k)
  <2>1. RestTyped' /\ proc[k].pc \in {"watch", "killed"} /\ lockName' = lockName
    BY <1>0, <1>4 DEF Watch, RestTyped
  <2>2. CASE Ends(k)
    BY <2>1, <2>2, EndsKeeps
  <2>3. CASE GoesTo(k, "final") /\ owner' = owner
    BY <2>1, <2>3, GoesToKeeps DEF Places, Authorised, Flocked, Parental, Inheriting
  <2>4. CASE GoesTo(k, "killed") /\ owner' = owner
    BY <2>1, <2>4, GoesToKeeps DEF Places, Authorised, Flocked, Parental, Inheriting
  <2>5. CASE /\ At(k, "watch") /\ owner' = Closed(proc[k].ref)
             /\ proc' = [proc EXCEPT ![k].pc = "killed", ![proc[k].ref] = Corpse(proc[k].ref)]
    <3>1. proc[k].pc = "watch" /\ proc[k].ref \in Procs
      BY <1>0, <2>5 DEF At, Sound
    <3> QED  BY <2>1, <2>5, <3>1, KilledKeeps
  <2> QED  BY <1>4, <2>2, <2>3, <2>4, <2>5 DEF Watch
<1>5. CASE Final(k)
  <2>1. RestTyped' /\ proc[k].pc = "final" /\ lockName' = lockName
    BY <1>0, <1>5 DEF Final, RestTyped, At
  <2>2. CASE Ends(k)
    BY <2>1, <2>2, EndsKeeps
  <2>3. CASE GoesTo(k, "unlink_sock") /\ owner' = owner
    BY <2>1, <2>3, GoesToKeeps DEF Places, Authorised, Flocked, Parental, Inheriting
  <2> QED  BY <1>5, <2>2, <2>3 DEF Final
<1> QED  BY <1>1, <1>2, <1>3, <1>4, <1>5 DEF Killing

LEMMA ListingKeeps == ASSUME IInv, NEW l \in Procs, Listing(l) PROVE IInv'
<1>0. RestTyped
  BY Basics
<1>1. CASE Sweep(l)
  <2>1. RestTyped' /\ proc[l].pc = "sweep" /\ lockName' = lockName
    BY <1>0, <1>1 DEF Sweep, RestTyped, At
  <2>2. CASE Ends(l)
    BY <2>1, <2>2, EndsKeeps
  <2>3. CASE GoesTo(l, "create") /\ owner' = owner
    BY <2>1, <2>3, GoesToKeeps DEF Places, Authorised, Flocked, Parental, Inheriting
  <2> QED  BY <1>1, <2>2, <2>3 DEF Sweep
<1>2. CASE Recheck(l)
  <2>1. RestTyped' /\ proc[l].pc = "recheck" /\ lockName' = lockName
    BY <1>0, <1>2 DEF Recheck, RestTyped, At
  <2>2. CASE Ends(l)
    BY <2>1, <2>2, EndsKeeps
  <2>3. CASE GoesTo(l, "unlink_sock") /\ owner' = owner
    BY <2>1, <2>3, GoesToKeeps DEF Places, Authorised, Flocked, Parental, Inheriting
  <2> QED  BY <1>2, <2>2, <2>3 DEF Recheck
<1> QED  BY <1>1, <1>2 DEF Listing

LEMMA CrashKeeps == ASSUME IInv, NEW p \in Procs, Crash(p) PROVE IInv'
BY FaultTyped, EndsKeeps DEF Crash

-----------------------------------------------------------------------------

LEMMA InitEstablishes == Init => IInv
<1> SUFFICES ASSUME Init PROVE IInv
  OBVIOUS
<1>1. NoProcess \in Process
  <2>1. "unborn" \in Places /\ 0 \in 0 .. LOCK_PASSES
    BY DEF Places, LOCK_PASSES
  <2> QED  BY <2>1 DEF Process, NoProcess
<1>2. proc \in [Procs -> Process] /\ \A p \in Procs : proc[p] = NoProcess
  BY <1>1 DEF Init
<1>3. TypeOK
  <2>1. 0 \in 0 .. MaxFaults
    BY RunDirAssumption
  <2> QED  BY <1>2, <2>1 DEF Init, TypeOK
<1>4. AllSound
  BY <1>2 DEF AllSound, Sound, NoProcess, Authorised, Flocked
<1>5. LockIsAtThePath /\ FlockIsHeld
  BY <1>2 DEF LockIsAtThePath, FlockIsHeld, NoProcess, Authorised, Flocked
<1>6. ShareOfAParent /\ OneShare
  BY <1>2, Sets DEF ShareOfAParent, OneShare, NoProcess
<1> QED  BY <1>3, <1>4, <1>5, <1>6 DEF IInv

LEMMA NextKeeps == IInv /\ [Next]_vars => IInv'
<1> SUFFICES ASSUME IInv, [Next]_vars PROVE IInv'
  OBVIOUS
<1>1. CASE Next
  <2>1. PICK p \in Procs :
          \/ \E kind \in Kinds : Start(p, kind)
          \/ Locking(p) \/ Unlinking(p) \/ Spawning(p) \/ Serving(p) \/ Killing(p)
          \/ Listing(p) \/ Crash(p)
    BY <1>1 DEF Next
  <2> QED  BY <2>1, StartKeeps, LockingKeeps, UnlinkingKeeps, SpawningKeeps, ServingKeeps,
              KillingKeeps, ListingKeeps, CrashKeeps
<1>2. CASE UNCHANGED vars
  BY <1>2 DEF vars, IInv, TypeOK, AllSound, LockIsAtThePath, FlockIsHeld, ShareOfAParent,
              OneShare
<1> QED  BY <1>1, <1>2

(* The inductive invariant holds of every reachable state, for every number *)
(* of spawns, daemons, kills and lists and of faults (rundir.rs).           *)
THEOREM Invariance == Spec => []IInv
BY InitEstablishes, NextKeeps, PTL DEF Spec

(* Every variable keeps its type, and no flock outlives the processes that  *)
(* have its descriptor (TypeOK; SpawnLock, inherit_spawn_lock).             *)
THEOREM TypeCorrectness == Spec => []TypeOK
<1>1. IInv => TypeOK
  BY DEF IInv
<1> QED  BY <1>1, Invariance, PTL

(* The spawn lock is a mutex over a file that is itself unlinked: two that  *)
(* believe to hold it share one open-file description, so they are a spawn  *)
(* and its daemon (LockIsAMutex; try_lock_spawn, locks_the_file_at,         *)
(* release_lock_name, unlink_all_locked).                                   *)
THEOREM TheLockIsAMutex == Spec => []LockIsAMutex
<1>1. ASSUME IInv PROVE LockIsAMutex
  <2> SUFFICES ASSUME NEW p \in Procs, NEW q \in Procs, proc[p].granted, proc[q].granted
               PROVE  proc[p].ofd = proc[q].ofd
    BY DEF LockIsAMutex
  <2>1. proc[p].pc \in Authorised /\ proc[q].pc \in Authorised
    BY <1>1, Basics DEF Sound
  <2>2. proc[p].fd = lockName /\ proc[q].fd = lockName
    BY <1>1, <2>1 DEF IInv, LockIsAtThePath
  <2> QED  BY <1>1, <2>1, <2>2 DEF IInv, FlockIsHeld, Flocked
<1> QED  BY <1>1, Invariance, PTL

-----------------------------------------------------------------------------
(* The session files: the inductive invariant.                              *)

(* Where a process is done with the socket; where one that listens can be;  *)
(* where one that listens has its pidfile complete; where no pidfile is     *)
(* complete; and where a daemon is that is yet to listen.                   *)
Leaving == {"unlink_pid", "unlink_lock", "leave"}
Listening ==
  {"create_pid", "write_pid", "release", "serving", "create", "reopen", "flock", "verify",
   "unlink_sock"} \cup Leaving
Published == {"release", "serving", "create", "reopen", "flock", "verify"}
Unpublished == {"bind", "listen", "create_pid", "write_pid"}

Binding == {"adopt", "bind_probe", "remove_stale", "clear_pid", "bind", "listen"}

Bound(r) == r.lst # "none" /\ r.pc \notin Leaving
Whole(r) ==
  /\ r.lst = "bound" <=> r.pc = "listen"
  /\ r.lst = "listening" => r.pc \in Listening /\ r.kind \in Daemons
  /\ r.lst \in {"none", "bound", "listening"}
  /\ r.pc \in {"create_pid", "write_pid", "release", "serving"} => r.lst = "listening"
  /\ r.pc \in {"probe", "start", "await", "published"} => r.kind = "spawn"
  /\ r.pc \in Binding => r.kind \in Daemons

(* The socket's name leads to the one process that bound it, or to one that *)
(* is gone; and who has found that it is gone.                              *)
SocketIsBound == \A p \in Procs : proc[p].pc # "ended" => (sock = p <=> Bound(proc[p]))
Dead == sock = NoProc \/ proc[sock].pc = "ended"
Judged(r) ==
  \/ r.pc \in {"start", "remove_stale", "clear_pid", "bind", "final", "unlink_pid"}
  \/ r.pc = "unlink_sock" /\ r.lst = "none"

(* The pidfile beside one process, and what a spawn knows of the files.     *)
Pidfile(p, r) ==
  /\ r.pc \in Unpublished => pidfile \notin Procs
  /\ r.lst = "listening" /\ r.pc \in Published => pidfile = p
  /\ r.lst = "listening" /\ r.pc = "unlink_sock" => (pidfile \in Procs => pidfile = p)
Child(p) ==
  /\ proc[p].pc \in {"await", "published"} =>
       \A q \in Procs \ {p} : proc[q].ofd = p => q = proc[p].ref
  /\ proc[p].pc = "await" => Dead \/ sock = proc[p].ref
  /\ proc[p].pc = "published" =>
       /\ proc[p].peer = proc[p].ref
       /\ pidfile \in Procs => pidfile = proc[p].ref

FInv ==
  /\ \A p \in Procs : Whole(proc[p]) /\ Pidfile(p, proc[p]) /\ Child(p)
  /\ SocketIsBound
  /\ \A p \in Procs : Judged(proc[p]) => Dead

-----------------------------------------------------------------------------
(* Whoever has authority and has shared it with nobody is alone.            *)
Alone == Authorised \ Parental
LEMMA Exclusive ==
  ASSUME IInv, NEW p \in Procs, NEW q \in Procs,
         proc[p].pc \in Alone, proc[q].pc \in Alone
  PROVE  p = q
<1>1. /\ proc[p].fd = lockName /\ proc[q].fd = lockName
      /\ proc[p].ofd \in Procs /\ proc[q].ofd \in Procs
  BY DEF IInv, LockIsAtThePath, AllSound, Sound, Flocked, Alone
<1>2. proc[p].ofd = proc[q].ofd
  BY <1>1 DEF IInv, FlockIsHeld, Flocked, Alone
<1>3. proc[p].ofd = p \/ proc[p].ofd # p
  OBVIOUS
<1> QED  BY <1>1, <1>2, Sets DEF IInv, ShareOfAParent, OneShare, Alone

(* A step of a daemon with authority, while a spawn waits, is one of that   *)
(* spawn's child.                                                           *)
LEMMA OnlyTheChild ==
  ASSUME IInv, FInv, NEW p \in Procs, NEW d \in Procs,
         proc[p].pc \in {"await", "published"}, proc[d].pc \in Alone
  PROVE  d = proc[p].ref
<1>1. proc[p].pc \in Authorised /\ proc[p].pc \notin Inheriting /\ p # d
  BY DEF Authorised, Inheriting, Alone, Parental
<1>2. /\ proc[p].fd = lockName /\ proc[d].fd = lockName
      /\ proc[p].ofd \in Procs /\ proc[d].ofd \in Procs
  BY <1>1 DEF IInv, LockIsAtThePath, AllSound, Sound, Flocked, Alone
<1>3. proc[p].ofd = proc[d].ofd
  BY <1>1, <1>2 DEF IInv, FlockIsHeld, Flocked, Alone
<1>4. proc[p].ofd = p
  BY <1>1, <1>2, Sets DEF IInv, AllSound, Sound
<1>5. Child(p) /\ d \in Procs \ {p} /\ proc[d].ofd = p
  BY <1>1, <1>3, <1>4 DEF FInv
<1> QED  BY <1>5 DEF Child

LEMMA StaleIsDead ==
  ASSUME IInv, FInv, NEW p \in Procs, proc[p].pc \in Alone \ {"listen"},
         NEW answer \in Probe, answer \in Stale
  PROVE  Dead
<1>1. PICK outcome \in ConnectWithin : answer = Verdict(outcome)
  BY DEF Probe
<1>2. outcome = answer
  BY <1>1 DEF Verdict, Stale
<1>3. outcome \in ConnectOnce
  BY <1>1, <1>2 DEF ConnectWithin, Stale
<1>4. CASE sock = NoProc
  BY <1>4 DEF Dead
<1>5. CASE sock # NoProc
  <2>1. sock \in Procs /\ proc[sock].lst # "listening"
    BY <1>2, <1>3, <1>5 DEF ConnectOnce, Stale, IInv, TypeOK
  <2>2. proc[sock].pc # "listen"
    <3> SUFFICES ASSUME proc[sock].pc = "listen" PROVE FALSE
      OBVIOUS
    <3>1. proc[sock].pc \in Alone
      BY DEF Alone, Authorised, Parental
    <3> QED  BY <2>1, <3>1, Exclusive
  <2>3. ~Bound(proc[sock])
    BY <2>1, <2>2 DEF FInv, Whole, Binding, Bound
  <2> QED  BY <2>1, <2>3 DEF FInv, SocketIsBound, Dead
<1> QED  BY <1>4, <1>5

LEMMA AliveListens ==
  ASSUME IInv, "alive" \in Probe
  PROVE  sock \in Procs /\ proc[sock].lst = "listening"
<1>1. PICK outcome \in ConnectWithin : "alive" = Verdict(outcome)
  BY DEF Probe
<1>2. outcome = "stream"
  BY <1>1 DEF Verdict, Stale
<1>3. "stream" \in ConnectOnce
  BY <1>1, <1>2 DEF ConnectWithin
<1> QED  BY <1>3 DEF ConnectOnce, IInv, TypeOK

-----------------------------------------------------------------------------
(* A step that touches no file but the lock.                                *)
Quiet(q) ==
  /\ Whole(proc'[q]) /\ Pidfile(q, proc'[q])
  /\ proc[q].pc = "ended" => proc'[q].pc = "ended"
  /\ proc'[q].pc # "ended" => (Bound(proc'[q]) <=> Bound(proc[q]))
  /\ Judged(proc'[q]) => Judged(proc[q]) \/ Dead
  /\ proc'[q].ofd \in {proc[q].ofd, NoProc, q}
  /\ proc'[q].pc \in {"await", "published"} =>
       proc[q].pc \in {"await", "published"} /\ proc'[q].ref = proc[q].ref
  /\ proc'[q].pc = "await" => proc[q].pc = "await"
  /\ proc'[q].pc = "published" =>
       /\ proc'[q].peer = proc'[q].ref
       /\ pidfile \in Procs => pidfile = proc'[q].ref

LEMMA DeadStays ==
  ASSUME IInv, sock' = sock, \A q \in Procs : Quiet(q), Dead
  PROVE  Dead'
BY DEF Dead, Quiet, IInv, TypeOK

LEMMA QuietKeeps ==
  ASSUME IInv, FInv, sock' = sock, pidfile' = pidfile, \A q \in Procs : Quiet(q)
  PROVE  FInv'
<1>1. ASSUME NEW p \in Procs PROVE Whole(proc'[p]) /\ Pidfile(p, proc[p])'
  BY DEF Quiet, Pidfile
<1>2. ASSUME NEW p \in Procs PROVE Child(p)'
  <2>1. ASSUME proc'[p].pc \in {"await", "published"}, NEW q \in Procs \ {p}, proc'[q].ofd = p
        PROVE  q = proc'[p].ref
    BY <2>1, Sets DEF FInv, Child, Quiet
  <2>2. proc'[p].pc = "await" => Dead' \/ sock' = proc'[p].ref
    BY DeadStays DEF FInv, Child, Quiet
  <2>3. proc'[p].pc = "published" =>
          proc'[p].peer = proc'[p].ref /\ (pidfile' \in Procs => pidfile' = proc'[p].ref)
    BY DEF Quiet
  <2> QED  BY <2>1, <2>2, <2>3 DEF Child
<1>3. SocketIsBound'
  BY DEF FInv, SocketIsBound, Quiet
<1>4. ASSUME NEW p \in Procs, Judged(proc'[p]) PROVE Dead'
  BY <1>4, DeadStays DEF FInv, Quiet
<1> QED  BY <1>1, <1>2, <1>3, <1>4 DEF FInv

LEMMA UnmovedQuiet ==
  ASSUME FInv, NEW q \in Procs, proc'[q] = proc[q]
  PROVE  Quiet(q)
BY DEF FInv, Quiet, Child

(* p alone moves.                                                           *)
LEMMA OneQuietKeeps ==
  ASSUME IInv, FInv, sock' = sock, pidfile' = pidfile, NEW p \in Procs, NEW r,
         proc' = [proc EXCEPT ![p] = r], proc'[p] = r => Quiet(p)
  PROVE  FInv'
<1>1. proc'[p] = r /\ \A q \in Procs \ {p} : proc'[q] = proc[q]
  BY DEF IInv, TypeOK
<1> QED  BY <1>1, UnmovedQuiet, QuietKeeps

LEMMA EndsQuietly ==
  ASSUME IInv, FInv, sock' = sock, pidfile' = pidfile, NEW p \in Procs, Ends(p)
  PROVE  FInv'
<1>1. /\ Corpse(p).pc = "ended" /\ Corpse(p).lst = "none" /\ Corpse(p).ofd = NoProc
  BY DEF Corpse, NoProcess
<1>2. proc'[p] = Corpse(p) => Quiet(p)
  BY <1>1 DEF Quiet, Whole, Binding, Pidfile, Judged, Unpublished
<1> QED  BY <1>2, OneQuietKeeps DEF Ends

(* p alone moves, to a place it needs nothing but the lock for.             *)
LEMMA MovesQuietly ==
  ASSUME IInv, FInv, sock' = sock, pidfile' = pidfile, NEW p \in Procs, NEW r,
         proc' = [proc EXCEPT ![p] = r],
         r.lst = proc[p].lst, r.ofd \in {proc[p].ofd, NoProc, p},
         r.kind = proc[p].kind \/ r.lst = "none",
         proc[p].pc \notin {"ended", "listen"} \cup Leaving,
         r.pc \notin {"ended", "await", "published", "create_pid", "write_pid"}
                     \cup Leaving \cup Unpublished,
         r.pc \in {"release", "serving"} => r.lst = "listening",
         r.pc \in {"probe", "start"} => r.kind = "spawn",
         r.pc \in Binding => r.kind \in Daemons,
         r.lst = "listening" => r.pc \in Listening,
         r.lst = "listening" /\ r.pc \in Published => pidfile = p,
         r.lst = "listening" /\ r.pc = "unlink_sock" => (pidfile \in Procs => pidfile = p),
         Judged(r) => Dead
  PROVE  FInv'
<1>1. Whole(proc[p])
  BY DEF FInv
<1>2. Whole(r)
  BY <1>1 DEF Whole, Binding, Unpublished
<1>3. Bound(r) <=> Bound(proc[p])
  BY DEF Bound
<1>4. Pidfile(p, r)
  BY DEF Pidfile
<1>5. proc'[p] = r => Quiet(p)
  BY <1>2, <1>3, <1>4 DEF Quiet
<1> QED  BY <1>5, OneQuietKeeps

LEMMA GoesQuietly ==
  ASSUME IInv, FInv, sock' = sock, pidfile' = pidfile, NEW p \in Procs, NEW place,
         GoesTo(p, place), proc[p].lst = "none",
         proc[p].pc \notin {"ended", "listen"} \cup Leaving,
         place \notin {"ended", "await", "published", "create_pid", "write_pid", "release",
                       "serving"} \cup Leaving \cup Unpublished,
         place \in {"probe", "start"} => proc[p].pc = "probe",
         place \in Binding => proc[p].pc \in Binding,
         place \in {"start", "remove_stale", "clear_pid", "final", "unlink_sock"} => Dead
  PROVE  FInv'
<1> DEFINE r == [proc[p] EXCEPT !.pc = place]
<1>1. /\ proc' = [proc EXCEPT ![p] = r] /\ r.pc = place /\ r.lst = proc[p].lst
      /\ r.ofd = proc[p].ofd /\ r.kind = proc[p].kind
  BY Basics DEF GoesTo, Process
<1> HIDE DEF r
<1>2. Judged(r) => Dead
  BY <1>1 DEF Judged, Leaving, Unpublished
<1>3. /\ place \in {"probe", "start"} => proc[p].kind = "spawn"
      /\ place \in Binding => proc[p].kind \in Daemons
  BY DEF FInv, Whole, Binding
<1> QED  BY <1>1, <1>2, <1>3, MovesQuietly

(* A process that is at work without a listener has none.                   *)
Bare ==
  {"unborn", "probe", "start", "await", "published", "adopt", "bind_probe", "remove_stale",
   "clear_pid", "bind", "resolve", "read_pid", "term", "watch", "killed", "final", "sweep",
   "recheck", "ended"}
LEMMA BareHasNone ==
  ASSUME FInv, NEW p \in Procs, proc[p].pc \in Bare
  PROVE  proc[p].lst = "none"
BY DEF FInv, Whole, Binding, Bare, Listening, Leaving

-----------------------------------------------------------------------------
(* Every step keeps it.  Starting, and taking the lock.                     *)

LEMMA StartKeepsFiles ==
  ASSUME IInv, FInv, NEW p \in Procs, NEW kind \in Kinds, Start(p, kind)
  PROVE  FInv'
<1> DEFINE place == IF kind = "list" THEN "sweep" ELSE "create"
           r == [proc[p] EXCEPT !.kind = kind, !.pc = place]
<1>1. proc[p].pc = "unborn" /\ proc[p].lst = "none"
  BY LowestIsIn, BareHasNone DEF Start, At, Bare
<1>2. /\ proc' = [proc EXCEPT ![p] = r] /\ r.pc = place /\ r.lst = "none"
      /\ r.ofd = proc[p].ofd
  BY <1>1, Basics DEF Start, Process
<1>3. sock' = sock /\ pidfile' = pidfile /\ place \in {"sweep", "create"}
  BY DEF Start
<1> HIDE DEF r, place
<1>4. ~Judged(r)
  BY <1>2, <1>3 DEF Judged
<1> QED  BY <1>1, <1>2, <1>3, <1>4, MovesQuietly DEF Leaving, Unpublished, Binding

LEMMA DeniedKeepsFiles ==
  ASSUME IInv, FInv, NEW p \in Procs, Denied(p), sock' = sock, pidfile' = pidfile,
         proc[p].pc \in {"create", "reopen", "flock"}
  PROVE  FInv'
<1>1. CASE Ends(p)
  BY <1>1, EndsQuietly
<1>2. CASE ~Ends(p)
  <2> DEFINE r == [WithoutLock(proc[p]) EXCEPT !.pc = "create"]
  <2>1. proc' = [proc EXCEPT ![p] = r] /\ proc[p].kind \in {"spawn", "kill"}
    BY <1>2, Basics DEF Denied
  <2>2. r.pc = "create" /\ r.lst = proc[p].lst /\ r.ofd = NoProc /\ r.kind = proc[p].kind
    BY Basics DEF WithoutLock, Process
  <2>3. proc[p].lst = "none"
    BY <2>1 DEF FInv, Whole, Binding, Daemons
  <2> HIDE DEF r
  <2>4. ~Judged(r)
    BY <2>2 DEF Judged
  <2> QED  BY <2>1, <2>2, <2>3, <2>4, MovesQuietly DEF Leaving, Unpublished, Binding
<1> QED  BY <1>1, <1>2

(* Once it has its flock and keeps its listener, its pidfile is as it was.  *)
LEMMA LocksQuietly ==
  ASSUME IInv, FInv, sock' = sock, pidfile' = pidfile, NEW p \in Procs, NEW r,
         proc' = [proc EXCEPT ![p] = r], r.lst = proc[p].lst, r.kind = proc[p].kind,
         r.ofd \in {proc[p].ofd, NoProc, p},
         proc[p].pc \in {"create", "reopen", "flock", "verify"},
         r.pc \in {"create", "reopen", "flock", "verify"}
  PROVE  FInv'
<1>1. /\ r.lst = "listening" => pidfile = p
  BY DEF FInv, Pidfile, Published
<1>2. ~Judged(r)
  BY DEF Judged
<1> QED  BY <1>1, <1>2, MovesQuietly DEF Leaving, Unpublished, Binding, Listening

LEMMA LockingKeepsFiles == ASSUME IInv, FInv, NEW p \in Procs, Locking(p) PROVE FInv'
<1>0. proc \in [Procs -> Process] /\ proc[p] \in Process /\ Whole(proc[p])
  BY Basics DEF FInv
<1>1. CASE Create(p)
  <2>1. proc[p].pc = "create" /\ sock' = sock /\ pidfile' = pidfile
    BY <1>1 DEF Create, At
  <2>2. CASE Denied(p)
    BY <2>1, <2>2, DeniedKeepsFiles
  <2>3. CASE GoesTo(p, "reopen")
    <3> DEFINE r == [proc[p] EXCEPT !.pc = "reopen"]
    <3>1. /\ proc' = [proc EXCEPT ![p] = r] /\ r.pc = "reopen"
          /\ r.lst = proc[p].lst /\ r.kind = proc[p].kind /\ r.ofd = proc[p].ofd
      BY <1>0, <2>3 DEF GoesTo, Process
    <3> HIDE DEF r
    <3> QED  BY <2>1, <3>1, LocksQuietly
  <2>4. CASE ~Denied(p) /\ ~GoesTo(p, "reopen")
    <3>1. PICK i \in Lowest(FreeInodes) :
            proc' = [proc EXCEPT ![p] =
              [@ EXCEPT !.fd = i, !.ofd = p, !.created = TRUE, !.pc = "flock",
                        !.passes = proc[p].passes + 1]]
      BY <1>1, <2>4 DEF Create
    <3> DEFINE r == [proc[p] EXCEPT !.fd = i, !.ofd = p, !.created = TRUE, !.pc = "flock",
                                    !.passes = proc[p].passes + 1]
    <3>2. /\ proc' = [proc EXCEPT ![p] = r] /\ r.pc = "flock"
          /\ r.lst = proc[p].lst /\ r.kind = proc[p].kind /\ r.ofd = p
      BY <1>0, <3>1 DEF Process
    <3> HIDE DEF r
    <3> QED  BY <2>1, <3>2, LocksQuietly
  <2> QED  BY <2>2, <2>3, <2>4
<1>2. CASE Reopen(p)
  <2> DEFINE r == IF lockName = NoInode
                  THEN [proc[p] EXCEPT !.pc = "create", !.passes = proc[p].passes + 1]
                  ELSE [proc[p] EXCEPT !.fd = lockName, !.ofd = p, !.pc = "flock",
                                       !.passes = proc[p].passes + 1]
  <2>1. /\ proc[p].pc = "reopen" /\ sock' = sock /\ pidfile' = pidfile
        /\ proc' = [proc EXCEPT ![p] = r]
    BY <1>0, <1>2 DEF Reopen, At
  <2>2. /\ r.pc \in {"create", "flock"} /\ r.lst = proc[p].lst /\ r.kind = proc[p].kind
        /\ r.ofd \in {proc[p].ofd, p}
    BY <1>0 DEF Process
  <2> HIDE DEF r
  <2> QED  BY <2>1, <2>2, LocksQuietly
<1>3. CASE Flock(p)
  <2>1. proc[p].pc = "flock" /\ sock' = sock /\ pidfile' = pidfile
    BY <1>3 DEF Flock, At
  <2>2. CASE Denied(p)
    BY <2>1, <2>2, DeniedKeepsFiles
  <2>3. CASE ~Denied(p)
    <3> DEFINE r == [proc[p] EXCEPT !.pc = "verify"]
    <3>1. /\ proc' = [proc EXCEPT ![p] = r] /\ r.pc = "verify"
          /\ r.lst = proc[p].lst /\ r.kind = proc[p].kind /\ r.ofd = proc[p].ofd
      BY <1>0, <1>3, <2>3 DEF Flock, GoesTo, Process
    <3> HIDE DEF r
    <3> QED  BY <2>1, <3>1, LocksQuietly
  <2> QED  BY <2>2, <2>3
<1>4. CASE Verify(p)
  <2>1. proc[p].pc = "verify" /\ sock' = sock /\ pidfile' = pidfile
    BY <1>4 DEF Verify, At
  <2>2. CASE LocksTheFileAtPath(p)
    <3> DEFINE r == [proc[p] EXCEPT !.granted = TRUE, !.passes = 0, !.pc = Granted(p)]
    <3>1. proc' = [proc EXCEPT ![p] = r]
      BY <1>0, <1>4, <2>2 DEF Verify
    <3>2. /\ r.pc = Granted(p)
          /\ r.lst = proc[p].lst /\ r.kind = proc[p].kind /\ r.ofd = proc[p].ofd
      BY <1>0 DEF Process
    <3> HIDE DEF r
    <3>3. /\ Granted(p) \in {"bind_probe", "unlink_sock", "probe", "resolve", "recheck"}
          /\ Granted(p) # "unlink_sock" => proc[p].lst = "none"
          /\ Granted(p) = "unlink_sock" => proc[p].lst # "none"
          /\ Granted(p) = "probe" => proc[p].kind = "spawn"
          /\ Granted(p) = "bind_probe" => proc[p].kind \in Daemons
      BY <1>0, <2>1 DEF Granted, Whole, Binding
    <3>4. proc[p].lst = "listening" => pidfile = p
      BY <2>1 DEF FInv, Pidfile, Published
    <3>5. ~Judged(r)
      BY <3>2, <3>3 DEF Judged
    <3> QED  BY <2>1, <3>1, <3>2, <3>3, <3>4, <3>5, MovesQuietly
             DEF Leaving, Unpublished, Binding, Listening
  <2>3. CASE ~LocksTheFileAtPath(p)
    <3> DEFINE r == [WithoutLock(proc[p]) EXCEPT !.pc = "create", !.passes = proc[p].passes]
    <3>1. proc' = [proc EXCEPT ![p] = r]
      BY <1>0, <1>4, <2>3 DEF Verify
    <3>2. /\ r.pc = "create" /\ r.ofd = NoProc
          /\ r.lst = proc[p].lst /\ r.kind = proc[p].kind
      BY <1>0 DEF WithoutLock, Process
    <3> HIDE DEF r
    <3> QED  BY <2>1, <3>1, <3>2, LocksQuietly
  <2> QED  BY <2>2, <2>3
<1>5. CASE LockFails(p)
  BY <1>5, DeniedKeepsFiles DEF LockFails
<1> QED  BY <1>1, <1>2, <1>3, <1>4, <1>5 DEF Locking

-----------------------------------------------------------------------------
(* Taking the files away: whoever does has found the session dead, or is    *)
(* the daemon itself.                                                       *)

LEMMA DeadIsUnbound ==
  ASSUME FInv, Dead, NEW q \in Procs, proc[q].pc # "ended"
  PROVE  ~Bound(proc[q])
BY Sets DEF FInv, SocketIsBound, Dead

(* The name of the socket goes.                                             *)
LEMMA SocketGoes ==
  ASSUME IInv, FInv, sock' = NoProc, pidfile' = pidfile, NEW p \in Procs, NEW place,
         GoesTo(p, place),
         \/ proc[p].pc = "remove_stale" /\ place = "clear_pid"
         \/ proc[p].pc = "unlink_sock" /\ place = "unlink_pid"
  PROVE  FInv'
<1> DEFINE r == [proc[p] EXCEPT !.pc = place]
<1>1. /\ r.pc = place /\ r.lst = proc[p].lst /\ r.ofd = proc[p].ofd /\ r.kind = proc[p].kind
  BY Basics DEF Process
<1>2. /\ proc'[p] = r /\ \A q \in Procs \ {p} : proc'[q] = proc[q]
  BY Basics DEF GoesTo
<1> HIDE DEF r
<1>3. Dead'
  BY DEF Dead
<1>4. Whole(r) /\ Pidfile(p, r) /\ ~Bound(r)
  <2>1. Whole(proc[p])
    BY DEF FInv
  <2>2. proc[p].pc = "remove_stale" => proc[p].lst = "none"
    BY BareHasNone DEF Bare
  <2> QED  BY <1>1, <2>1, <2>2
           DEF Whole, Binding, Pidfile, Bound, Listening, Leaving, Unpublished, Published
<1>5. ASSUME NEW q \in Procs PROVE Whole(proc'[q]) /\ Pidfile(q, proc[q])'
  BY <1>2, <1>4 DEF FInv, Pidfile
<1>6. ASSUME NEW q \in Procs PROVE Child(q)'
  <2>1. proc'[q].pc \in {"await", "published"} => q # p
    BY <1>1, <1>2
  <2>2. \A s \in Procs : proc'[s].ofd = proc[s].ofd
    BY <1>1, <1>2
  <2> QED  BY <1>2, <1>3, <2>1, <2>2 DEF FInv, Child
<1>7. SocketIsBound'
  <2> SUFFICES ASSUME NEW q \in Procs, proc'[q].pc # "ended" PROVE ~Bound(proc'[q])
    BY Sets DEF SocketIsBound
  <2>1. CASE q = p
    BY <1>2, <1>4, <2>1
  <2>2. CASE q # p /\ Judged(proc[p])
    BY <1>2, <2>2, DeadIsUnbound DEF FInv
  <2>3. CASE q # p /\ ~Judged(proc[p])
    <3>1. Bound(proc[p]) /\ proc[p].pc # "ended"
      BY <2>3 DEF Judged, Bound, Leaving
    <3> QED  BY <1>2, <2>3, <3>1 DEF FInv, SocketIsBound
  <2> QED  BY <2>1, <2>2, <2>3
<1> QED  BY <1>3, <1>5, <1>6, <1>7 DEF FInv

(* The pidfile goes, and nobody listens whose it would be.                  *)
LEMMA PidfileGoes ==
  ASSUME IInv, FInv, sock' = sock, pidfile' = Missing, NEW p \in Procs, NEW r,
         proc' = [proc EXCEPT ![p] = r],
         proc[p].pc \in {"clear_pid", "unlink_pid"},
         r.pc \in {"bind", "ended", "unlink_lock"}, r.lst \in {"none", proc[p].lst},
         proc[p].pc = "clear_pid" <=> r.pc = "bind",
         r.kind = proc[p].kind, r.ofd \in {proc[p].ofd, NoProc},
         r.pc = "ended" => r.lst = "none"
  PROVE  FInv'
<1>1. proc'[p] = r /\ \A q \in Procs \ {p} : proc'[q] = proc[q]
  BY Basics
<1>2. Dead
  BY DEF FInv, Judged
<1>3. Dead'
  BY <1>1, <1>2, Basics DEF Dead, RestTyped
<1>4. Missing \notin Procs
  BY Sets DEF Missing, NoProc
<1>5. Whole(r) /\ ~Bound(r)
  <2>1. Whole(proc[p])
    BY DEF FInv
  <2>2. proc[p].pc = "clear_pid" => proc[p].lst = "none"
    BY BareHasNone DEF Bare
  <2> QED  BY <2>1, <2>2 DEF Whole, Binding, Bound, Listening, Leaving
<1>6. ASSUME NEW q \in Procs PROVE Whole(proc'[q]) /\ Pidfile(q, proc[q])'
  <2>1. CASE q = p
    BY <1>1, <1>4, <1>5, <2>1 DEF Pidfile, Published
  <2>2. CASE q # p
    <3>1. Whole(proc[q]) /\ proc'[q] = proc[q]
      BY <1>1, <2>2 DEF FInv
    <3>2. proc[q].lst = "listening" => proc[q].pc \notin Published
      BY <1>2, DeadIsUnbound DEF Bound, Published, Leaving
    <3> QED  BY <1>4, <3>1, <3>2 DEF Pidfile
  <2> QED  BY <2>1, <2>2
<1>7. ASSUME NEW q \in Procs PROVE Child(q)'
  <2>1. proc'[q].pc \in {"await", "published"} => q # p
    BY <1>1
  <2>2. \A s \in Procs : proc'[s].ofd = proc[s].ofd \/ proc'[s].ofd = NoProc
    BY <1>1
  <2> QED  BY <1>1, <1>3, <1>4, <2>1, <2>2, Sets DEF FInv, Child
<1>8. SocketIsBound'
  <2> SUFFICES ASSUME NEW q \in Procs, proc'[q].pc # "ended"
               PROVE  sock # q /\ ~Bound(proc'[q])
    BY DEF SocketIsBound
  <2>1. proc[q].pc # "ended"
    BY <1>1
  <2>2. ~Bound(proc[q])
    BY <1>2, <2>1, DeadIsUnbound
  <2> QED  BY <1>1, <1>5, <2>1, <2>2 DEF FInv, SocketIsBound
<1> QED  BY <1>3, <1>6, <1>7, <1>8 DEF FInv

(* Nothing is left to do but the lock's own name.                           *)
LEMMA GivenUpKeepsFiles ==
  ASSUME IInv, FInv, sock' = sock, pidfile' = pidfile, NEW p \in Procs, proc' = GivenUp(p),
         proc[p].pc \in Leaving \/ proc[p].lst = "none",
         proc[p].pc \notin {"ended", "listen"}
  PROVE  FInv'
<1> DEFINE r == [proc[p] EXCEPT !.pc = "leave", !.granted = FALSE]
<1>1. /\ proc' = [proc EXCEPT ![p] = r] /\ r.pc = "leave" /\ r.lst = proc[p].lst
      /\ r.ofd = proc[p].ofd /\ r.kind = proc[p].kind
  BY Basics DEF GivenUp, Process
<1> HIDE DEF r
<1>2. Whole(proc[p])
  BY DEF FInv
<1>3. Whole(r) /\ ~Bound(r) /\ ~Bound(proc[p])
  BY <1>1, <1>2 DEF Whole, Binding, Bound, Listening, Leaving
<1>4. proc'[p] = r => Quiet(p)
  BY <1>1, <1>3 DEF Quiet, Pidfile, Judged, Unpublished, Published
<1> QED  BY <1>1, <1>4, OneQuietKeeps

LEMMA UnlinkingKeepsFiles == ASSUME IInv, FInv, NEW p \in Procs, Unlinking(p) PROVE FInv'
<1>1. CASE UnlinkSock(p)
  BY <1>1, SocketGoes DEF UnlinkSock, At
<1>2. CASE UnlinkPid(p)
  <2>1. /\ proc[p].pc = "unlink_pid" /\ sock' = sock /\ pidfile' = Missing
    BY <1>2 DEF UnlinkPid, At
  <2>2. CASE Ends(p)
    <3>1. /\ Corpse(p).pc = "ended" /\ Corpse(p).lst = "none" /\ Corpse(p).ofd = NoProc
          /\ Corpse(p).kind = proc[p].kind
      BY DEF Corpse, NoProcess
    <3> QED  BY <2>1, <2>2, <3>1, PidfileGoes DEF Ends
  <2>3. CASE GoesTo(p, "unlink_lock")
    <3> DEFINE r == [proc[p] EXCEPT !.pc = "unlink_lock"]
    <3>1. /\ proc' = [proc EXCEPT ![p] = r] /\ r.pc = "unlink_lock"
          /\ r.lst = proc[p].lst /\ r.kind = proc[p].kind /\ r.ofd = proc[p].ofd
      BY <2>3, Basics DEF GoesTo, Process
    <3> HIDE DEF r
    <3> QED  BY <2>1, <3>1, PidfileGoes
  <2> QED  BY <1>2, <2>2, <2>3 DEF UnlinkPid
<1>3. CASE UnlinkLock(p)
  BY <1>3, GivenUpKeepsFiles DEF UnlinkLock, At, Leaving
<1>4. CASE Leave(p)
  BY <1>4, EndsQuietly DEF Leave
<1> QED  BY <1>1, <1>2, <1>3, <1>4 DEF Unlinking

-----------------------------------------------------------------------------
(* spawn.                                                                   *)

(* What answers has its own pidfile beside it, or none that is complete.    *)
LEMMA OwnPidfile ==
  ASSUME IInv, FInv, sock \in Procs, proc[sock].lst = "listening"
  PROVE  /\ proc[sock].pc # "ended" /\ Bound(proc[sock])
         /\ pidfile \in Procs => pidfile = sock
<1>1. Whole(proc[sock]) /\ Pidfile(sock, proc[sock])
  BY DEF FInv
<1>2. proc[sock].pc \in Listening /\ proc[sock].pc # "ended"
  BY <1>1 DEF Whole, Binding, Listening, Leaving
<1>3. Bound(proc[sock])
  BY <1>2 DEF FInv, SocketIsBound
<1> QED  BY <1>1, <1>2, <1>3 DEF Pidfile, Listening, Bound, Unpublished, Published

LEMMA ForkKeepsFiles ==
  ASSUME IInv, FInv, NEW p \in Procs, NEW d \in Procs,
         proc[p].pc = "start", proc[d].pc = "unborn",
         proc' = [proc EXCEPT ![p].pc = "await", ![p].ref = d,
                    ![d] = [@ EXCEPT !.kind = "spawned", !.pc = "adopt",
                                     !.fd = proc[p].fd, !.ofd = proc[p].ofd]],
         sock' = sock, pidfile' = pidfile
  PROVE  FInv'
<1> DEFINE r == [proc[p] EXCEPT !.pc = "await", !.ref = d]
           c == [proc[d] EXCEPT !.kind = "spawned", !.pc = "adopt",
                                !.fd = proc[p].fd, !.ofd = proc[p].ofd]
<1>1. /\ proc \in [Procs -> Process] /\ proc[p] \in Process /\ proc[d] \in Process
      /\ Sound(p, proc[p]) /\ p # d /\ Whole(proc[p]) /\ Whole(proc[d])
  BY Basics DEF FInv
<1>2. proc[p].ofd = p
  BY <1>1, Sets DEF Sound, Flocked, Authorised, Inheriting
<1>3. proc[p].lst = "none" /\ proc[d].lst = "none"
  BY BareHasNone DEF Bare
<1>4. /\ proc'[p] = r /\ proc'[d] = c /\ \A q \in Procs \ {p, d} : proc'[q] = proc[q]
      /\ r.pc = "await" /\ r.lst = "none" /\ r.ref = d /\ r.ofd = p /\ r.kind = proc[p].kind
      /\ c.pc = "adopt" /\ c.lst = "none" /\ c.ofd = p /\ c.kind = "spawned"
  BY <1>1, <1>2, <1>3 DEF Process
<1> HIDE DEF r, c
<1>5. Dead /\ sock \notin {p, d}
  BY Sets DEF FInv, Judged, Dead
<1>6. Dead'
  BY <1>4, <1>5, Basics DEF Dead, RestTyped
<1>7. ASSUME NEW q \in Procs PROVE Whole(proc'[q]) /\ Pidfile(q, proc[q])'
  <2>1. Whole(r) /\ Whole(c)
    BY <1>1, <1>4 DEF Whole, Binding, Daemons
  <2>2. Pidfile(p, r) /\ Pidfile(d, c)
    BY <1>4 DEF Pidfile, Unpublished
  <2> QED  BY ZenonT(30), <1>4, <2>1, <2>2 DEF FInv, Pidfile
<1>8. \A q \in Procs \ {p} : proc[q].ofd # p
  BY DEF IInv, ShareOfAParent, Parental
<1>9. ASSUME NEW q \in Procs PROVE Child(q)'
  <2>1. CASE q = p
    <3>1. ASSUME NEW s \in Procs \ {p}, proc'[s].ofd = p PROVE s = d
      BY <1>4, <1>8, <3>1
    <3> QED  BY <1>4, <1>6, <2>1, <3>1 DEF Child
  <2>2. CASE q = d
    BY <1>4, <2>2 DEF Child
  <2>3. CASE q \notin {p, d}
    <3>1. proc'[q] = proc[q] /\ Child(q)
      BY <1>4, <2>3 DEF FInv
    <3>2. ASSUME NEW s \in Procs \ {q}, proc'[s].ofd = q PROVE proc[s].ofd = q
      BY <1>1, <1>2, <1>4, <2>3, <3>2
    <3> QED  BY <1>6, <3>1, <3>2 DEF Child
  <2> QED  BY <2>1, <2>2, <2>3
<1>10. SocketIsBound'
  <2> SUFFICES ASSUME NEW q \in Procs, proc'[q].pc # "ended"
               PROVE  sock = q <=> Bound(proc'[q])
    BY DEF SocketIsBound
  <2>1. CASE q \in {p, d}
    BY <1>4, <1>5, <2>1 DEF Bound
  <2>2. CASE q \notin {p, d}
    BY ZenonT(30), <1>4, <2>2 DEF FInv, SocketIsBound
  <2> QED  BY <2>1, <2>2
<1> QED  BY <1>6, <1>7, <1>9, <1>10 DEF FInv

LEMMA SpawningKeepsFiles == ASSUME IInv, FInv, NEW p \in Procs, Spawning(p) PROVE FInv'
<1>1. CASE SpawnProbes(p)
  <2>1. proc[p].pc = "probe" /\ proc[p].lst = "none" /\ sock' = sock /\ pidfile' = pidfile
    BY <1>1, BareHasNone DEF SpawnProbes, At, Bare
  <2>2. CASE Ends(p)
    BY <2>1, <2>2, EndsQuietly
  <2>3. CASE ~Ends(p)
    <3>1. Dead /\ GoesTo(p, "start")
      BY <1>1, <2>1, <2>3, StaleIsDead DEF SpawnProbes, Alone, Authorised, Parental
    <3> QED  BY <2>1, <3>1, GoesQuietly DEF Leaving, Unpublished, Binding
  <2> QED  BY <2>2, <2>3
<1>2. CASE SpawnStarts(p)
  <2>1. proc[p].pc = "start" /\ proc[p].lst = "none" /\ sock' = sock /\ pidfile' = pidfile
    BY <1>2, BareHasNone DEF SpawnStarts, At, Bare
  <2>2. CASE StartFails(p)
    BY <2>1, <2>2, GivenUpKeepsFiles DEF StartFails
  <2>3. CASE ~StartFails(p)
    <3>1. PICK d \in Lowest({q \in Procs : At(q, "unborn")}) :
            proc' = [proc EXCEPT ![p].pc = "await", ![p].ref = d,
                        ![d] = [@ EXCEPT !.kind = "spawned", !.pc = "adopt",
                                         !.fd = proc[p].fd, !.ofd = proc[p].ofd]]
      BY <1>2, <2>3 DEF SpawnStarts
    <3>2. d \in Procs /\ proc[d].pc = "unborn"
      BY LowestIsIn DEF At
    <3> QED  BY <2>1, <3>1, <3>2, ForkKeepsFiles
  <2> QED  BY <2>2, <2>3
<1>3. CASE SpawnAwaits(p)
  <2>1. proc[p].pc = "await" /\ sock' = sock /\ pidfile' = pidfile
    BY <1>3 DEF SpawnAwaits, At
  <2>2. CASE Ends(p)
    BY <2>1, <2>2, EndsQuietly
  <2>3. CASE ~Ends(p)
    <3> DEFINE r == [proc[p] EXCEPT !.pc = "published", !.peer = sock]
    <3>1. "alive" \in Probe /\ proc' = [proc EXCEPT ![p] = r]
      BY <1>3, <2>3, Basics DEF SpawnAwaits
    <3>2. /\ r.pc = "published" /\ r.peer = sock /\ r.ref = proc[p].ref
          /\ r.lst = proc[p].lst /\ r.kind = proc[p].kind /\ r.ofd = proc[p].ofd
      BY Basics DEF Process
    <3> HIDE DEF r
    <3>3. sock \in Procs /\ proc[sock].pc # "ended" /\ (pidfile \in Procs => pidfile = sock)
      BY <3>1, AliveListens, OwnPidfile
    <3>4. sock = proc[p].ref
      BY <2>1, <3>3, Sets DEF FInv, Child, Dead
    <3>5. Whole(proc[p])
      BY DEF FInv
    <3>6. Whole(r) /\ (Bound(r) <=> Bound(proc[p])) /\ Pidfile(p, r) /\ ~Judged(r)
      BY <2>1, <3>2, <3>5
         DEF Whole, Binding, Bound, Pidfile, Judged, Listening, Leaving, Unpublished, Published
    <3>7. proc'[p] = r => Quiet(p)
      BY <2>1, <3>2, <3>3, <3>4, <3>6 DEF Quiet
    <3> QED  BY <2>1, <3>1, <3>7, OneQuietKeeps
  <2> QED  BY <2>2, <2>3
<1>4. CASE SpawnReturns(p)
  BY <1>4, EndsQuietly DEF SpawnReturns
<1> QED  BY <1>1, <1>2, <1>3, <1>4 DEF Spawning

-----------------------------------------------------------------------------
(* The daemon.                                                              *)

(* Nobody else could have been beside the daemon that binds.                *)
LEMMA BindsKeepsFiles ==
  ASSUME IInv, FInv, NEW d \in Procs, proc[d].pc = "bind", sock = NoProc, sock' = d,
         pidfile' = pidfile,
         proc' = [proc EXCEPT ![d].lst = "bound", ![d].pc = "listen"]
  PROVE  FInv'
<1> DEFINE r == [proc[d] EXCEPT !.lst = "bound", !.pc = "listen"]
<1>1. /\ proc'[d] = r /\ \A q \in Procs \ {d} : proc'[q] = proc[q]
      /\ r.pc = "listen" /\ r.lst = "bound" /\ r.ofd = proc[d].ofd
      /\ r.kind = proc[d].kind
  BY Basics DEF Process
<1> HIDE DEF r
<1>2. proc[d].pc \in Alone
  BY DEF Alone, Authorised, Parental
<1>3. Whole(r) /\ Pidfile(d, r) /\ Bound(r) /\ ~Judged(r)
  BY <1>1 DEF Whole, Binding, Pidfile, Bound, Judged, Leaving, Unpublished, Published, FInv
<1>4. ASSUME NEW q \in Procs PROVE Whole(proc'[q]) /\ Pidfile(q, proc[q])'
  BY <1>1, <1>3 DEF FInv, Pidfile
<1>5. ASSUME NEW q \in Procs PROVE Child(q)'
  <2>1. CASE q = d
    BY <1>1, <2>1 DEF Child
  <2>2. CASE q # d
    <3>1. proc'[q] = proc[q] /\ Child(q) /\ \A s \in Procs : proc'[s].ofd = proc[s].ofd
      BY <1>1, <2>2 DEF FInv
    <3>2. proc[q].pc \in {"await", "published"} => sock' = proc[q].ref
      BY <1>2, OnlyTheChild
    <3> QED  BY <3>1, <3>2 DEF Child
  <2> QED  BY <2>1, <2>2
<1>6. SocketIsBound'
  <2> SUFFICES ASSUME NEW q \in Procs, proc'[q].pc # "ended"
               PROVE  sock' = q <=> Bound(proc'[q])
    BY DEF SocketIsBound
  <2>1. CASE q = d
    BY <1>1, <1>3, <2>1
  <2>2. CASE q # d
    BY <1>1, <2>2, DeadIsUnbound DEF Dead
  <2> QED  BY <2>1, <2>2
<1>7. ASSUME NEW q \in Procs, Judged(proc'[q]) PROVE FALSE
  <2>1. q # d /\ proc'[q] = proc[q]
    BY <1>1, <1>3, <1>7
  <2>2. proc[q].pc \in Alone
    BY <1>7, <2>1 DEF Judged, Alone, Authorised, Parental
  <2> QED  BY <1>2, <2>1, <2>2, Exclusive
<1> QED  BY <1>4, <1>5, <1>6, <1>7 DEF FInv

(* The pidfile is written by the daemon the socket leads to.                *)
LEMMA WritesKeepsFiles ==
  ASSUME IInv, FInv, sock' = sock, NEW d \in Procs, NEW place, GoesTo(d, place),
         \/ proc[d].pc = "create_pid" /\ place = "write_pid" /\ pidfile' = Unwritten
         \/ proc[d].pc = "write_pid" /\ place = "release" /\ pidfile' = d
  PROVE  FInv'
<1> DEFINE r == [proc[d] EXCEPT !.pc = place]
<1>1. /\ proc'[d] = r /\ \A q \in Procs \ {d} : proc'[q] = proc[q]
      /\ r.pc = place /\ r.lst = proc[d].lst /\ r.ofd = proc[d].ofd /\ r.kind = proc[d].kind
  BY Basics DEF GoesTo, Process
<1> HIDE DEF r
<1>2. proc[d].pc \in Alone
  BY DEF Alone, Authorised, Parental
<1>3. Whole(proc[d]) /\ proc[d].lst = "listening" /\ Bound(proc[d]) /\ sock = d
  BY DEF FInv, Whole, Binding, Bound, Leaving, SocketIsBound
<1>4. Unwritten \notin Procs
  BY Sets DEF Unwritten
<1>5. Whole(r) /\ Pidfile(d, proc[d])' /\ Bound(r) /\ ~Judged(r)
  BY <1>1, <1>3, <1>4
     DEF Whole, Binding, Pidfile, Bound, Judged, Leaving, Listening, Unpublished, Published
<1>6. ASSUME NEW q \in Procs PROVE Whole(proc'[q]) /\ Pidfile(q, proc[q])'
  <2>1. CASE q = d
    BY <1>1, <1>5, <2>1 DEF Pidfile
  <2>2. CASE q # d
    <3>1. proc'[q] = proc[q] /\ Whole(proc[q])
      BY <1>1, <2>2 DEF FInv
    <3>2. proc[q].pc \notin Unpublished
      <4> SUFFICES ASSUME proc[q].pc \in Unpublished PROVE FALSE
        OBVIOUS
      <4>1. proc[q].pc \in Alone
        BY DEF Unpublished, Alone, Authorised, Parental
      <4> QED  BY <1>2, <2>2, <4>1, Exclusive
    <3>3. ~Bound(proc[q]) \/ proc[q].pc = "ended"
      BY <1>3, <2>2 DEF FInv, SocketIsBound
    <3>4. proc[q].lst = "listening" => proc[q].pc \notin Published \cup {"unlink_sock"}
      BY <3>3 DEF Bound, Published, Leaving
    <3> QED  BY <3>1, <3>2, <3>4 DEF Pidfile
  <2> QED  BY <2>1, <2>2
<1>7. Dead' <=> Dead
  BY <1>1, <1>3, <1>5, Sets DEF Dead
<1>8. ASSUME NEW q \in Procs PROVE Child(q)'
  <2>1. CASE q = d
    BY <1>1, <2>1 DEF Child
  <2>2. CASE q # d
    <3>1. proc'[q] = proc[q] /\ Child(q) /\ \A s \in Procs : proc'[s].ofd = proc[s].ofd
      BY <1>1, <2>2 DEF FInv
    <3>2. proc[q].pc \in {"await", "published"} => d = proc[q].ref
      BY <1>2, OnlyTheChild
    <3> QED  BY <1>4, <1>7, <3>1, <3>2 DEF Child
  <2> QED  BY <2>1, <2>2
<1>9. SocketIsBound'
  BY <1>1, <1>3, <1>5 DEF FInv, SocketIsBound
<1>10. ASSUME NEW q \in Procs, Judged(proc'[q]) PROVE Dead'
  BY <1>1, <1>5, <1>7, <1>10 DEF FInv
<1> QED  BY <1>6, <1>8, <1>9, <1>10 DEF FInv

(* The daemon that listens moves, and its socket and pidfile are its own.   *)
LEMMA ListensKeepsFiles ==
  ASSUME IInv, FInv, NEW d \in Procs, sock' = sock, pidfile' = pidfile,
         Listen(d) \/ PublishFails(d) \/ Release(d) \/ Stops(d)
  PROVE  FInv'
<1>0. Whole(proc[d]) /\ Pidfile(d, proc[d]) /\ proc[d] \in Process
  BY Basics DEF FInv
<1>1. CASE Listen(d)
  <2> DEFINE r == [proc[d] EXCEPT !.lst = "listening", !.pc = "create_pid"]
  <2>1. /\ proc' = [proc EXCEPT ![d] = r] /\ proc[d].pc = "listen"
        /\ r.pc = "create_pid" /\ r.lst = "listening" /\ r.ofd = proc[d].ofd
        /\ r.kind = proc[d].kind
    BY <1>0, <1>1, Basics DEF Listen, At, Process
  <2>2. proc[d].kind \in Daemons
    BY <1>0, <2>1 DEF Whole, Binding
  <2> HIDE DEF r
  <2>3. Whole(r) /\ Pidfile(d, r) /\ Bound(r) /\ Bound(proc[d]) /\ ~Judged(r)
    BY <1>0, <2>1, <2>2
       DEF Whole, Binding, Pidfile, Bound, Judged, Listening, Leaving, Unpublished, Published
  <2>4. proc'[d] = r => Quiet(d)
    BY <2>1, <2>3 DEF Quiet
  <2> QED  BY <2>1, <2>4, OneQuietKeeps
<1>2. CASE PublishFails(d)
  <2> DEFINE r == [proc[d] EXCEPT !.pc = "unlink_sock"]
  <2>1. /\ proc' = [proc EXCEPT ![d] = r]
        /\ proc[d].pc \in {"create_pid", "write_pid", "release"}
        /\ r.pc = "unlink_sock" /\ r.lst = proc[d].lst /\ r.ofd = proc[d].ofd
        /\ r.kind = proc[d].kind
    BY <1>0, <1>2, Basics DEF PublishFails, GoesTo, Process
  <2> HIDE DEF r
  <2>2. /\ proc[d].lst = "listening"
        /\ pidfile \in Procs => pidfile = d
    BY <1>0, <2>1 DEF Whole, Binding, Pidfile, Published, Unpublished
  <2>3. ~Judged(r)
    BY <2>1, <2>2 DEF Judged
  <2> QED  BY <2>1, <2>2, <2>3, MovesQuietly DEF Leaving, Unpublished, Binding, Listening, Published
<1>3. CASE Release(d)
  <2> DEFINE r == [WithoutLock(proc[d]) EXCEPT !.pc = "serving"]
  <2>1. /\ proc' = [proc EXCEPT ![d] = r] /\ proc[d].pc = "release"
        /\ r.pc = "serving" /\ r.lst = proc[d].lst /\ r.ofd = NoProc
        /\ r.kind = proc[d].kind
    BY <1>0, <1>3, Basics DEF Release, At, WithoutLock, Process
  <2> HIDE DEF r
  <2>2. proc[d].lst = "listening" /\ pidfile = d
    BY <1>0, <2>1 DEF Whole, Binding, Pidfile, Published
  <2>3. ~Judged(r)
    BY <2>1 DEF Judged
  <2> QED  BY <2>1, <2>2, <2>3, MovesQuietly DEF Leaving, Unpublished, Binding, Listening
<1>4. CASE Stops(d)
  <2> DEFINE r == [proc[d] EXCEPT !.pc = "create"]
  <2>1. /\ proc' = [proc EXCEPT ![d] = r] /\ proc[d].pc = "serving"
        /\ r.pc = "create" /\ r.lst = proc[d].lst /\ r.ofd = proc[d].ofd
        /\ r.kind = proc[d].kind
    BY <1>0, <1>4, Basics DEF Stops, At, UnlinkAll, GoesTo, Process
  <2> HIDE DEF r
  <2>2. proc[d].lst = "listening" /\ pidfile = d
    BY <1>0, <2>1 DEF Whole, Binding, Pidfile, Published
  <2>3. ~Judged(r)
    BY <2>1 DEF Judged
  <2> QED  BY <2>1, <2>2, <2>3, MovesQuietly DEF Leaving, Unpublished, Binding, Listening
<1> QED  BY <1>1, <1>2, <1>3, <1>4

LEMMA ServingKeepsFiles == ASSUME IInv, FInv, NEW d \in Procs, Serving(d) PROVE FInv'
<1>1. CASE Adopt(d)
  <2>1. proc[d].pc = "adopt" /\ proc[d].lst = "none" /\ sock' = sock /\ pidfile' = pidfile
    BY <1>1, BareHasNone DEF Adopt, At, Bare
  <2>2. CASE Ends(d)
    BY <2>1, <2>2, EndsQuietly
  <2>3. CASE ~Ends(d)
    <3> DEFINE r == [proc[d] EXCEPT !.granted = TRUE, !.pc = "bind_probe"]
    <3>1. /\ proc' = [proc EXCEPT ![d] = r] /\ r.pc = "bind_probe" /\ r.lst = proc[d].lst
          /\ r.ofd = proc[d].ofd /\ r.kind = proc[d].kind
      BY <1>1, <2>3, Basics DEF Adopt, Process
    <3> HIDE DEF r
    <3>2. ~Judged(r) /\ proc[d].kind \in Daemons
      BY <2>1, <3>1 DEF Judged, FInv, Whole, Binding
    <3> QED  BY <2>1, <3>1, <3>2, MovesQuietly DEF Leaving, Unpublished
  <2> QED  BY <2>2, <2>3
<1>2. CASE SetupFails(d) \/ BindProbes(d)
  <2>1. proc[d].pc = "bind_probe" /\ proc[d].lst = "none" /\ sock' = sock /\ pidfile' = pidfile
    BY <1>2, BareHasNone DEF SetupFails, BindProbes, At, Bare
  <2>2. CASE StartFails(d)
    BY <2>1, <2>2, GivenUpKeepsFiles DEF StartFails
  <2>3. CASE ~StartFails(d)
    <3>1. Dead /\ \E place \in {"remove_stale", "clear_pid"} : GoesTo(d, place)
      BY <1>2, <2>1, <2>3, StaleIsDead
         DEF SetupFails, BindProbes, Alone, Authorised, Parental
    <3> QED  BY <2>1, <3>1, GoesQuietly DEF Leaving, Unpublished, Binding
  <2> QED  BY <2>2, <2>3
<1>3. CASE RemoveStale(d)
  BY <1>3, SocketGoes DEF RemoveStale, At
<1>4. CASE ClearPid(d)
  <2> DEFINE r == [proc[d] EXCEPT !.pc = "bind"]
  <2>1. /\ proc' = [proc EXCEPT ![d] = r] /\ r.pc = "bind" /\ r.lst = proc[d].lst
        /\ r.ofd = proc[d].ofd /\ r.kind = proc[d].kind /\ proc[d].pc = "clear_pid"
        /\ sock' = sock /\ pidfile' = Missing
    BY <1>4, Basics DEF ClearPid, PidCleared, GoesTo, At, Process
  <2> HIDE DEF r
  <2> QED  BY <2>1, PidfileGoes
<1>5. CASE Bind(d)
  <2>1. proc[d].pc = "bind" /\ proc[d].lst = "none" /\ pidfile' = pidfile
    BY <1>5, BareHasNone DEF Bind, At, Bare
  <2>2. CASE sock = NoProc
    BY <1>5, <2>1, <2>2, BindsKeepsFiles DEF Bind
  <2>3. CASE sock # NoProc
    BY <1>5, <2>1, <2>3, GivenUpKeepsFiles DEF Bind, StartFails
  <2> QED  BY <2>2, <2>3
<1>6. CASE Listen(d) \/ PublishFails(d) \/ Release(d) \/ Stops(d)
  BY <1>6, ListensKeepsFiles DEF Listen, PublishFails, Release, Stops
<1>7. CASE CreatePid(d)
  BY <1>7, WritesKeepsFiles DEF CreatePid, At
<1>8. CASE WritePid(d)
  BY <1>8, WritesKeepsFiles DEF WritePid, At
<1> QED  BY <1>1, <1>2, <1>3, <1>4, <1>5, <1>6, <1>7, <1>8 DEF Serving

-----------------------------------------------------------------------------
(* kill and list.                                                           *)

LEMMA TermKeepsFiles == ASSUME IInv, FInv, NEW k \in Procs, Term(k) PROVE FInv'
<1> DEFINE v == proc[k].ref
           m == [proc EXCEPT ![k].pc = "watch"]
           t == m[v].term \/ Alive(v)
<1>1. /\ proc[k].pc = "term" /\ proc[k].lst = "none" /\ sock' = sock /\ pidfile' = pidfile
      /\ proc' = [m EXCEPT ![v].term = t]
  BY BareHasNone DEF Term, At, Bare
<1>2. v \in Procs
  BY <1>1, Basics DEF Sound
<1>3. \A q \in Procs : /\ m[q].lst = proc[q].lst /\ m[q].kind = proc[q].kind
                       /\ m[q].ofd = proc[q].ofd /\ m[q].ref = proc[q].ref
                       /\ m[q].peer = proc[q].peer
                       /\ m[q].pc = IF q = k THEN "watch" ELSE proc[q].pc
  BY Basics DEF Process
<1>4. m \in [Procs -> Process]
  <2>1. "watch" \in Places
    BY DEF Places
  <2> QED  BY <2>1, Basics DEF Process
<1> HIDE DEF m, t
<1>5. \A q \in Procs : /\ proc'[q].lst = m[q].lst /\ proc'[q].kind = m[q].kind
                       /\ proc'[q].ofd = m[q].ofd /\ proc'[q].ref = m[q].ref
                       /\ proc'[q].peer = m[q].peer /\ proc'[q].pc = m[q].pc
  BY <1>1, <1>2, <1>4 DEF Process
<1>6. Quiet(k)
  BY <1>1, <1>3, <1>5
     DEF Quiet, Whole, Binding, Pidfile, Bound, Judged, Unpublished, Leaving
<1>7. ASSUME NEW q \in Procs, q # k PROVE Quiet(q)
  <2>1. /\ proc'[q].lst = proc[q].lst /\ proc'[q].kind = proc[q].kind
        /\ proc'[q].ofd = proc[q].ofd /\ proc'[q].ref = proc[q].ref
        /\ proc'[q].peer = proc[q].peer /\ proc'[q].pc = proc[q].pc
    BY <1>3, <1>5, <1>7
  <2>2. Whole(proc[q]) /\ Pidfile(q, proc[q]) /\ Child(q)
    BY DEF FInv
  <2>3. Whole(proc'[q]) /\ Pidfile(q, proc'[q])
    BY <2>1, <2>2 DEF Whole, Pidfile
  <2> QED  BY <2>1, <2>2, <2>3 DEF Quiet, Bound, Judged, Child
<1> QED  BY <1>1, <1>6, <1>7, QuietKeeps

LEMMA KilledKeepsFiles ==
  ASSUME IInv, FInv, NEW k \in Procs, NEW v \in Procs,
         proc[k].pc = "watch", sock' = sock, pidfile' = pidfile, owner' = Closed(v),
         proc' = [proc EXCEPT ![k].pc = "killed", ![v] = Corpse(v)]
  PROVE  FInv'
<1>1. CASE v = k
  <2>1. proc' = [proc EXCEPT ![k] = Corpse(k)]
    BY <1>1, Basics
  <2> QED  BY <1>1, <2>1, EndsQuietly DEF Ends
<1>2. CASE v # k
  <2> DEFINE r == [proc[k] EXCEPT !.pc = "killed"]
  <2>1. /\ proc'[k] = r /\ proc'[v] = Corpse(v)
        /\ \A q \in Procs \ {k, v} : proc'[q] = proc[q]
        /\ r.pc = "killed" /\ r.lst = proc[k].lst /\ r.ofd = proc[k].ofd
    BY <1>2, Basics DEF Process
  <2> HIDE DEF r
  <2>2. proc[k].lst = "none"
    BY BareHasNone DEF Bare
  <2>3. Quiet(k)
    BY <2>1, <2>2 DEF Quiet, Whole, Binding, Pidfile, Bound, Judged, Unpublished, Leaving
  <2>4. /\ Corpse(v).pc = "ended" /\ Corpse(v).lst = "none" /\ Corpse(v).ofd = NoProc
    BY DEF Corpse, NoProcess
  <2>5. Quiet(v)
    BY <2>1, <2>4 DEF Quiet, Whole, Binding, Pidfile, Judged, Unpublished
  <2> QED  BY <2>1, <2>3, <2>5, UnmovedQuiet, QuietKeeps
<1> QED  BY <1>1, <1>2

LEMMA KillingKeepsFiles == ASSUME IInv, FInv, NEW k \in Procs, Killing(k) PROVE FInv'
<1>1. CASE Resolve(k)
  <2>1. proc[k].pc = "resolve" /\ proc[k].lst = "none" /\ sock' = sock /\ pidfile' = pidfile
    BY <1>1, BareHasNone DEF Resolve, At, Bare
  <2>2. PICK place \in {"final", "read_pid"} : GoesTo(k, place) /\ (place = "final" => Dead)
    BY <1>1, <2>1, StaleIsDead DEF Resolve, Alone, Authorised, Parental
  <2> QED  BY <2>1, <2>2, GoesQuietly DEF Leaving, Unpublished, Binding
<1>2. CASE ReadPid(k)
  <2>1. proc[k].pc = "read_pid" /\ proc[k].lst = "none" /\ sock' = sock /\ pidfile' = pidfile
    BY <1>2, BareHasNone DEF ReadPid, At, Bare
  <2>2. CASE Ends(k)
    BY <2>1, <2>2, EndsQuietly
  <2>3. CASE GoesTo(k, "resolve")
    BY <2>1, <2>3, GoesQuietly DEF Leaving, Unpublished, Binding
  <2>4. CASE ~Ends(k) /\ ~GoesTo(k, "resolve")
    <3> DEFINE r == [proc[k] EXCEPT !.ref = pidfile, !.pc = "term"]
    <3>1. /\ proc' = [proc EXCEPT ![k] = r] /\ r.pc = "term" /\ r.lst = proc[k].lst
          /\ r.ofd = proc[k].ofd /\ r.kind = proc[k].kind
      BY <1>2, <2>4, Basics DEF ReadPid, Process
    <3> HIDE DEF r
    <3>2. ~Judged(r)
      BY <3>1 DEF Judged
    <3> QED  BY <2>1, <3>1, <3>2, MovesQuietly DEF Leaving, Unpublished, Binding
  <2> QED  BY <2>2, <2>3, <2>4
<1>3. CASE Term(k)
  BY <1>3, TermKeepsFiles
<1>4. CASE Watch(k)
  <2>1. /\ proc[k].pc \in {"watch", "killed"} /\ proc[k].lst = "none"
        /\ sock' = sock /\ pidfile' = pidfile
    BY <1>4, BareHasNone DEF Watch, Bare
  <2>2. CASE Ends(k)
    BY <2>1, <2>2, EndsQuietly
  <2>3. CASE GoesTo(k, "killed")
    BY <2>1, <2>3, GoesQuietly DEF Leaving, Unpublished, Binding
  <2>4. CASE /\ At(k, "watch") /\ owner' = Closed(proc[k].ref)
             /\ proc' = [proc EXCEPT ![k].pc = "killed", ![proc[k].ref] = Corpse(proc[k].ref)]
    <3>1. proc[k].pc = "watch" /\ proc[k].ref \in Procs
      BY <2>4, Basics DEF At, Sound
    <3> QED  BY <2>1, <2>4, <3>1, KilledKeepsFiles
  <2>5. CASE \E answer \in Probe : answer \in Stale /\ GoesTo(k, "final")
    <3>1. Dead /\ GoesTo(k, "final")
      BY <2>1, <2>5, StaleIsDead DEF Alone, Authorised, Parental
    <3> QED  BY <2>1, <3>1, GoesQuietly DEF Leaving, Unpublished, Binding
  <2> QED  BY <1>4, <2>2, <2>3, <2>4, <2>5 DEF Watch
<1>5. CASE Final(k)
  <2>1. proc[k].pc = "final" /\ proc[k].lst = "none" /\ sock' = sock /\ pidfile' = pidfile
    BY <1>5, BareHasNone DEF Final, At, Bare
  <2>2. CASE Ends(k)
    BY <2>1, <2>2, EndsQuietly
  <2>3. CASE ~Ends(k)
    <3>1. Dead /\ GoesTo(k, "unlink_sock")
      BY <1>5, <2>1, <2>3, StaleIsDead DEF Final, Alone, Authorised, Parental
    <3> QED  BY <2>1, <3>1, GoesQuietly DEF Leaving, Unpublished, Binding
  <2> QED  BY <2>2, <2>3
<1> QED  BY <1>1, <1>2, <1>3, <1>4, <1>5 DEF Killing

LEMMA ListingKeepsFiles == ASSUME IInv, FInv, NEW l \in Procs, Listing(l) PROVE FInv'
<1>1. CASE Sweep(l)
  <2>1. proc[l].pc = "sweep" /\ proc[l].lst = "none" /\ sock' = sock /\ pidfile' = pidfile
    BY <1>1, BareHasNone DEF Sweep, At, Bare
  <2>2. CASE Ends(l)
    BY <2>1, <2>2, EndsQuietly
  <2>3. CASE GoesTo(l, "create")
    BY <2>1, <2>3, GoesQuietly DEF Leaving, Unpublished, Binding
  <2> QED  BY <1>1, <2>2, <2>3 DEF Sweep
<1>2. CASE Recheck(l)
  <2>1. proc[l].pc = "recheck" /\ proc[l].lst = "none" /\ sock' = sock /\ pidfile' = pidfile
    BY <1>2, BareHasNone DEF Recheck, At, Bare
  <2>2. CASE Ends(l)
    BY <2>1, <2>2, EndsQuietly
  <2>3. CASE ~Ends(l)
    <3>1. Dead /\ GoesTo(l, "unlink_sock")
      BY <1>2, <2>1, <2>3, StaleIsDead DEF Recheck, StillStale, Alone, Authorised, Parental
    <3> QED  BY <2>1, <3>1, GoesQuietly DEF Leaving, Unpublished, Binding
  <2> QED  BY <2>2, <2>3
<1> QED  BY <1>1, <1>2 DEF Listing

-----------------------------------------------------------------------------

LEMMA InitEstablishesFiles == Init => FInv
<1> SUFFICES ASSUME Init PROVE FInv
  OBVIOUS
<1>1. \A p \in Procs : proc[p] = NoProcess
  BY DEF Init
<1>2. Whole(NoProcess) /\ ~Judged(NoProcess) /\ ~Bound(NoProcess)
  BY DEF NoProcess, Whole, Binding, Judged, Bound
<1>3. \A p \in Procs : Pidfile(p, proc[p]) /\ Child(p)
  BY <1>1 DEF NoProcess, Pidfile, Child, Unpublished
<1>4. SocketIsBound
  BY <1>1, <1>2, Sets DEF Init, SocketIsBound
<1> QED  BY <1>1, <1>2, <1>3, <1>4 DEF FInv

LEMMA NextKeepsFiles == IInv /\ FInv /\ [Next]_vars => FInv'
<1> SUFFICES ASSUME IInv, FInv, [Next]_vars PROVE FInv'
  OBVIOUS
<1>1. CASE Next
  <2>1. PICK p \in Procs :
          \/ \E kind \in Kinds : Start(p, kind)
          \/ Locking(p) \/ Unlinking(p) \/ Spawning(p) \/ Serving(p) \/ Killing(p)
          \/ Listing(p) \/ Crash(p)
    BY <1>1 DEF Next
  <2>2. CASE Crash(p)
    BY <2>2, EndsQuietly DEF Crash
  <2> QED  BY <2>1, <2>2, StartKeepsFiles, LockingKeepsFiles, UnlinkingKeepsFiles,
              SpawningKeepsFiles, ServingKeepsFiles, KillingKeepsFiles, ListingKeepsFiles
<1>2. CASE UNCHANGED vars
  <2>1. proc' = proc /\ sock' = sock /\ pidfile' = pidfile
    BY <1>2 DEF vars
  <2> QED  BY <2>1, UnmovedQuiet, QuietKeeps
<1> QED  BY <1>1, <1>2

(* The inductive invariant of the files holds of every reachable state, for *)
(* every number of spawns, daemons, kills and lists and of faults (bind,    *)
(* publish, unlink_all_locked).                                             *)
THEOREM FilesInvariance == Spec => []FInv
<1>1. Spec => []IInv
  BY Invariance
<1> QED  BY <1>1, InitEstablishes, InitEstablishesFiles, NextKeeps, NextKeepsFiles, PTL DEF Spec

(* A daemon that bound its socket keeps it until it removes it itself: a    *)
(* process removes or replaces the name only with authority, after it found *)
(* the session dead under it (LiveSessionsKeepTheirSocket; bind_socket,     *)
(* sweep_stale, unlink_all_locked).                                         *)
THEOREM SocketsAreKept == Spec => []LiveSessionsKeepTheirSocket
<1>1. ASSUME IInv, FInv PROVE LiveSessionsKeepTheirSocket
  <2> SUFFICES ASSUME NEW d \in Procs, proc[d].lst # "none", proc[d].pc \notin Leaving
               PROVE  sock = d
    BY DEF LiveSessionsKeepTheirSocket, Leaving
  <2>1. proc[d].pc # "ended"
    BY <1>1, BareHasNone DEF Bare
  <2> QED  BY <1>1, <2>1 DEF FInv, SocketIsBound, Bound
<1> QED  BY <1>1, Invariance, FilesInvariance, PTL

(* A complete pidfile beside a socket that answers is of the process that   *)
(* answers (PidfileIsTrue; Daemon::start, publish).                         *)
THEOREM PidfilesAreTrue == Spec => []PidfileIsTrue
<1>1. ASSUME IInv, FInv PROVE PidfileIsTrue
  BY <1>1, OwnPidfile DEF PidfileIsTrue, Serves
<1> QED  BY <1>1, Invariance, FilesInvariance, PTL

(* Who judges a session under the lock finds it published in full: a daemon *)
(* holds the lock from before its bind until its pidfile is written         *)
(* (PublishedBeforeJudged; SpawnLock, publish, control::kill).              *)
THEOREM JudgedAfterPublication == Spec => []PublishedBeforeJudged
<1>1. ASSUME IInv, FInv PROVE PublishedBeforeJudged
  <2> SUFFICES ASSUME NEW p \in Procs, proc[p].granted,
                      proc[p].kind \in {"kill", "list"} \/ proc[p].pc = "probe",
                      sock \in Procs, proc[sock].lst = "listening"
               PROVE  pidfile = sock
    BY DEF PublishedBeforeJudged, Serves
  <2>1. /\ Whole(proc[p]) /\ Whole(proc[sock]) /\ Pidfile(sock, proc[sock])
        /\ Sound(p, proc[p]) /\ Bound(proc[sock])
    BY <1>1, OwnPidfile, Basics DEF FInv
  <2>2. p # sock
    BY <2>1 DEF Whole, Daemons, Listening, Leaving
  <2>3. proc[p].pc \in Alone
    BY <2>1 DEF Sound, Whole, Alone, Parental, Authorised
  <2>4. proc[sock].pc \notin Alone
    BY <1>1, <2>2, <2>3, Exclusive
  <2>5. proc[sock].pc \in Published
    BY <2>1, <2>4
       DEF Whole, Bound, Listening, Leaving, Alone, Parental, Authorised, Published
  <2> QED  BY <2>1, <2>5 DEF Pidfile
<1> QED  BY <1>1, Invariance, FilesInvariance, PTL

(* What kill or list found dead under the lock has no listener until its    *)
(* files are gone (DeadStaysDead; control::kill, bound_since).              *)
THEOREM TheDeadStayDead == Spec => []DeadStaysDead
<1>1. ASSUME IInv, FInv PROVE DeadStaysDead
  <2> SUFFICES ASSUME NEW p \in Procs, proc[p].kind \in {"kill", "list"},
                      proc[p].pc \in {"final", "unlink_sock"},
                      sock \in Procs, proc[sock].lst = "listening"
               PROVE  FALSE
    BY DEF DeadStaysDead, Serves
  <2>1. proc[p].lst = "none"
    BY <1>1 DEF FInv, Whole, Daemons
  <2>2. Dead
    BY <1>1, <2>1 DEF FInv, Judged
  <2> QED  BY <1>1, <2>2, OwnPidfile, Sets DEF Dead
<1> QED  BY <1>1, Invariance, FilesInvariance, PTL

(* A spawn that reports success reached the daemon it forked, and the       *)
(* pidfile it waited for is that daemon's (SpawnGetsItsOwn; spawn_daemon,   *)
(* await_publication).                                                      *)
THEOREM SpawnsGetTheirOwn == Spec => []SpawnGetsItsOwn
<1>1. ASSUME FInv PROVE SpawnGetsItsOwn
  BY <1>1 DEF FInv, Child, SpawnGetsItsOwn, At
<1> QED  BY <1>1, Invariance, FilesInvariance, PTL
=============================================================================
