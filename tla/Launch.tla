------------------------------- MODULE Launch -------------------------------
(***************************************************************************)
(* Starting the two children this program has: exec::spawn                 *)
(* (crates/nomux/src/exec.rs), what Pty::spawn and attach::spawn_daemon do  *)
(* around it, and what a daemon first does with the descriptors and the    *)
(* terminal it was started with (startup.rs).                              *)
(*                                                                         *)
(* Parent and child share nothing but open files, so what is modelled is   *)
(* their descriptor tables.  From the fork on they run side by side, and a *)
(* pipe whose write end closes by itself at the execve says whether there  *)
(* was one.  Any call that can fail may.                                   *)
(* An operator beside another one, differing from it by a slip, is a       *)
(* mutated form that some property is shown to tell apart.                 *)
(***************************************************************************)
EXTENDS Naturals, Sequences, FiniteSets

CONSTANTS
  MaxFd,        (* bound: descriptor numbers                               *)
  Callers,      (* bound: who spawns, what they have open (`table`), and   *)
                (* the files the child is to have as 0, 1 and 2 (`stdio`)  *)
  Environments  (* bound: an inherited block with the settings made over it *)

Fds == 0 .. MaxFd
STDERR_FILENO == 2
Closed == [file |-> "none", cloexec |-> FALSE, by |-> "nobody"]
Slot(file, cloexec, by) == [file |-> file, cloexec |-> cloexec, by |-> by]

NoKey == "none"
Entries(e) == {e.block[i] : i \in DOMAIN e.block} \cup {e.settings[i] : i \in DOMAIN e.settings}

(* What a caller has open is its own (`before`).  A daemon that starts a    *)
(* shell has closed what it inherited but for the lock, and that is         *)
(* close-on-exec again (SpawnLock::adopt), as is all it opens; a relay has  *)
(* the lock, above the standard descriptors, of which std leaves none free. *)
(* What is set has a key.                                                   *)
ASSUME LaunchAssumption ==
  /\ MaxFd \in Nat /\ MaxFd > STDERR_FILENO
  /\ \A c \in Callers :
       /\ c.who \in {"pty", "relay", "any"} /\ DOMAIN c.stdio = 1 .. 3
       /\ c.table \in [Fds -> {Closed} \cup {Slot(c.table[f].file, b, "before") :
                                              f \in Fds, b \in BOOLEAN}]
       /\ c.who = "pty" =>
            \A f \in Fds : f > STDERR_FILENO => c.table[f] = Closed \/ c.table[f].cloexec
       /\ c.who = "relay" => \E f \in Fds : f > STDERR_FILENO /\ c.table[f].file = "lock"
  /\ \A e \in Environments :
       /\ DOMAIN e = {"block", "settings"} /\ {e.block, e.settings} \subseteq Seq(Entries(e))
       /\ e.block # <<>> \/ e.settings # <<>>
       /\ \A i \in DOMAIN e.settings : e.settings[i].key # NoKey

VARIABLES
  caller, program,  \* who spawns; Program's environment
  tab,              \* both descriptor tables
  pc, result,       \* the parent: where it is, and what it returned
  raw,              \* what it read from the child
  ready,            \* Ready: the numbers of the three and of the report
  child,            \* the process spawn started, and how far it is
  pipe,             \* what was written to the report pipe
  envp,             \* the environment of the program it became, <<>> before
  fork,             \* the daemon behind detach's own fork
  faults            \* what befell the report (history)
vars == <<caller, program, tab, pc, result, raw, ready, child, pipe, envp, fork, faults>>

-----------------------------------------------------------------------------
(* Descriptor tables.  A slot is open `by` the owner that will close it.    *)
Free(t, least) == {f \in Fds : f >= least /\ t[f] = Closed}
Least(S) == CHOOSE f \in S : \A g \in S : f <= g
Opened(t, least, file, by) == [t EXCEPT ![Least(Free(t, least))] = Slot(file, TRUE, by)]
Drop(t, owners) == [f \in Fds |-> IF t[f].by \in owners THEN Closed ELSE t[f]]
FdBy(t, by) == Least({f \in Fds : t[f].by = by})
Parent(t) == tab' = [tab EXCEPT !.parent = t]
Child(t) == tab' = [tab EXCEPT !.child = t]

(* environment: the entries of the inherited block that no setting shadows, *)
(* then the settings, of which Program::env keeps the last for a key.  An   *)
(* entry without a key is never shadowed.                                   *)
Shadowed(e, i) == e.block[i].key # NoKey /\ \E s \in DOMAIN e.settings : e.settings[s].key = e.block[i].key
Inherited(e) == {i \in DOMAIN e.block : ~Shadowed(e, i)}
Overrides(e) == {s \in DOMAIN e.settings :
                   \A t \in DOMAIN e.settings : e.settings[t].key = e.settings[s].key => t <= s}
Ranked(S, i) == CHOOSE n \in S : Cardinality({m \in S : m <= n}) = i
Kept(s, S) == [i \in 1 .. Cardinality(S) |-> s[Ranked(S, i)]]
Environment(e) == Kept(e.block, Inherited(e)) \o Kept(e.settings, Overrides(e))

Init ==
  /\ caller \in Callers /\ program \in Environments
  /\ tab = [parent |-> caller.table, child |-> [f \in Fds |-> Closed]]
  /\ pc = "open1" /\ result = "running" /\ raw = "none"
  /\ ready = [stdio |-> <<0, 0, 0>>, fail |-> 0]
  /\ child = "none" /\ pipe = "none" /\ envp = <<>> /\ fork = "none" /\ faults = {}

-----------------------------------------------------------------------------
(* The parent *)
others == <<caller, program, raw, ready, child, pipe, envp, fork, faults>>

(* What each caller opens first, in order (openpt and the slave; /dev/null  *)
(* and the pipe for complaints), and what an Err on the way out closes.     *)
Opens == CASE caller.who = "pty" -> <<"master", "slave">>
           [] caller.who = "relay" -> <<"null", "complaint", "diagnostics">>
           [] OTHER -> <<>>
Results == {"master", "complaint"}
LocalsButTheSlave == {"null", "diagnostics", "raised1", "raised2", "raised3", "report", "bound",
                      "failure"}
Locals == {"slave", "null", "diagnostics", "raised1", "raised2", "raised3",
           "report", "bound", "failure"}
Returns(how, closing) ==
  /\ result' = how /\ pc' = "returned" /\ Parent(Drop(tab.parent, closing))

(* One call that opens `file`, or fails and takes the caller with it.       *)
Opening(least, file, by, next) ==
  /\ \/ /\ Free(tab.parent, least) # {}
        /\ Parent(Opened(tab.parent, least, file, by)) /\ pc' = next /\ result' = result
     \/ Returns("error", Locals \cup Results)
  /\ UNCHANGED others

(* above_stdio *)
Anywhere == 0
Above == STDERR_FILENO + 1

CallerOpens(i, here, next) ==
  /\ pc = here
  /\ IF i <= Len(Opens) THEN Opening(0, Opens[i], Opens[i], next)
     ELSE pc' = "raise1" /\ UNCHANGED <<tab, result, others>>
Raises(i, here, by, next) == pc = here /\ Opening(Above, caller.stdio[i], by, next)
OpensPipe == \/ pc = "pipe" /\ Opening(0, "reportR", "report", "bound")
             \/ pc = "bound" /\ Opening(0, "reportW", "bound", "failure")

(* The end the pipe came on is closed, not shadowed.                        *)
KeepsBound == {}
DropsBound == {"bound"}
RaisesFailure ==
  /\ pc = "failure"
  /\ \/ /\ Free(tab.parent, Above) # {}
        /\ Parent(Drop(Opened(tab.parent, Above, "reportW", "failure"), DropsBound))
        /\ pc' = "fork" /\ result' = result
     \/ Returns("error", Locals \cup Results)
  /\ UNCHANGED others

Prepares ==
  \/ CallerOpens(1, "open1", "open2") \/ CallerOpens(2, "open2", "open3")
  \/ CallerOpens(3, "open3", "raise1")
  \/ Raises(1, "raise1", "raised1", "raise2") \/ Raises(2, "raise2", "raised2", "raise3")
  \/ Raises(3, "raise3", "raised3", "pipe")
  \/ OpensPipe \/ RaisesFailure

Forks ==
  /\ pc = "fork"
  /\ \/ /\ tab' = [tab EXCEPT !.child = tab.parent]
        /\ ready' = [stdio |-> <<FdBy(tab.parent, "raised1"), FdBy(tab.parent, "raised2"),
                                 FdBy(tab.parent, "raised3")>>,
                     fail |-> FdBy(tab.parent, "failure")]
        /\ child' = "setup" /\ pc' = "release" /\ result' = result
     \/ Returns("error", Locals \cup Results) /\ UNCHANGED <<ready, child>>
  /\ UNCHANGED <<caller, program, raw, pipe, envp, fork, faults>>

(* It lets go of the child's copies, the report's write end before it reads. *)
Releases ==
  /\ pc = "release" /\ pc' = "read"
  /\ Parent(Drop(tab.parent, {"raised1", "raised2", "raised3", "failure"}))
  /\ UNCHANGED <<result, others>>

WriteEndOpen == \E who \in {"parent", "child"}, f \in Fds : tab[who][f].file = "reportW"
Reads ==
  /\ pc = "read" /\ pc' = "verdict"
  /\ pipe # "none" \/ ~WriteEndOpen
  /\ \/ raw' = pipe /\ faults' = faults
     \/ raw' = raw /\ faults' = faults \cup {"unread"}
  /\ UNCHANGED <<caller, program, tab, result, ready, child, pipe, envp, fork>>

(* Silence is a program; an errno, a child to collect once it has exited.   *)
LeavesTheChild == child' = child
CollectsTheChild == child = "zombie" /\ child' = "reaped"
Concludes ==
  /\ pc = "verdict"
  /\ IF raw # "none" THEN CollectsTheChild /\ Returns("error", Locals \cup Results)
     ELSE /\ child' = child
          /\ IF caller.who # "relay" THEN Returns("ok", Locals)
             ELSE pc' = "await" /\ result' = result /\ Parent(Drop(tab.parent, Locals))
  /\ UNCHANGED <<caller, program, raw, ready, pipe, envp, fork, faults>>

(* create: the daemon has published, and what was started is collected if   *)
(* it has exited; or it has not in time, and nothing is collected.          *)
Published == "serving" \in {child, fork}
ReapIfExited == IF child = "zombie" THEN "reaped" ELSE child
Awaits ==
  /\ pc = "await"
  /\ \/ Published /\ child' = ReapIfExited /\ Returns("ok", {"complaint"})
     \/ child' = child /\ Returns("timed out", {"complaint"})
  /\ UNCHANGED <<caller, program, raw, ready, pipe, envp, fork, faults>>

-----------------------------------------------------------------------------
(* The child: prepare's calls in order, of which the first to fail reports. *)
still == <<caller, program, pc, result, raw, ready, fork>>
Goes(next) == child' = next
ChildCalls(here, next, t) ==
  /\ child = here
  /\ \/ Goes(next) /\ Child(t)
     \/ Goes("report") /\ UNCHANGED tab
  /\ UNCHANGED <<still, pipe, envp, faults>>

(* setup: the daemon's lets the lock cross the execve.                      *)
LockCrosses(t) == [f \in Fds |-> IF t[f].file = "lock" THEN [t[f] EXCEPT !.cloexec = FALSE] ELSE t[f]]
AfterSetup == IF caller.who = "relay" THEN LockCrosses(tab.child) ELSE tab.child

(* dup2 clears FD_CLOEXEC on the number it lands on, unless that is the one *)
(* it came from.                                                            *)
Placed(i) ==
  IF ready.stdio[i] = i - 1 THEN tab.child
  ELSE [tab.child EXCEPT ![i - 1] = Slot(tab.child[ready.stdio[i]].file, FALSE, "stdio")]

AcrossExec(t) == [f \in Fds |-> IF t[f].cloexec THEN Closed ELSE t[f]]
ChildExecs ==
  /\ child = "exec"
  /\ \/ Goes("program") /\ Child(AcrossExec(tab.child)) /\ envp' = Environment(program)
     \/ Goes("report") /\ UNCHANGED <<tab, envp>>
  /\ UNCHANGED <<still, pipe, faults>>

(* The errno goes to whatever has the report's number, and the child exits. *)
ChildReports ==
  /\ child = "report" /\ Goes("zombie") /\ Child([f \in Fds |-> Closed])
  /\ \/ /\ pipe' = IF tab.child[ready.fail].file = "reportW" THEN "errno" ELSE pipe
        /\ faults' = faults
     \/ pipe' = pipe /\ faults' = faults \cup {"refused"}
  /\ UNCHANGED <<still, envp>>

Preparing == {"setup", "place1", "place2", "place3", "chdir", "exec", "report"}
ChildIsKilled ==
  /\ child \in Preparing /\ Goes("zombie") /\ Child([f \in Fds |-> Closed])
  /\ faults' = faults \cup {"killed"}
  /\ UNCHANGED <<still, pipe, envp>>

ChildRuns ==
  \/ ChildCalls("setup", "place1", AfterSetup)
  \/ ChildCalls("place1", "place2", Placed(1)) \/ ChildCalls("place2", "place3", Placed(2))
  \/ ChildCalls("place3", "chdir", Placed(3))
  \/ ChildCalls("chdir", "exec", tab.child)
  \/ ChildExecs \/ ChildReports

(* A daemon closes what it inherited, the lock apart; then, unless it leads *)
(* a session without a terminal, forks and leaves the place to its child.   *)
CloseInherited(t) ==
  [f \in Fds |-> IF f > STDERR_FILENO /\ t[f].file # "lock" THEN Closed ELSE t[f]]
DaemonStarts ==
  /\ caller.who = "relay" /\ child = "program"
  /\ Child(CloseInherited(tab.child)) /\ Goes("detaching")
  /\ UNCHANGED <<still, pipe, envp, faults>>
DaemonDetaches ==
  /\ child = "detaching"
  /\ \/ Goes("serving") /\ fork' = fork
     \/ Goes("zombie") /\ fork' = "serving"
     \/ Goes("zombie") /\ fork' = fork
  /\ UNCHANGED <<caller, program, tab, pc, result, raw, ready, pipe, envp, faults>>

ParentRuns == Prepares \/ Forks \/ Releases \/ Reads \/ Concludes \/ Awaits
Next == ParentRuns \/ ChildRuns \/ ChildIsKilled \/ DaemonStarts \/ DaemonDetaches

Spec == Init /\ [][Next]_vars /\ WF_vars(ParentRuns) /\ WF_vars(ChildRuns)

-----------------------------------------------------------------------------
(* Whoever spawns is told the truth: an error means that no program ran and *)
(* that no child is left of it, success that one does -- unless its report  *)
(* could not be written or read, or it was killed before it could make one. *)
(* And a session that came up leaves its relay no dead process to carry     *)
(* along.                                                                   *)
VerdictIsTrue ==
  /\ result = "error" => envp = <<>> /\ child \in {"none", "reaped"}
  /\ result = "ok" => envp # <<>> \/ faults # {}
  /\ result = "ok" /\ caller.who = "relay" => child \in {"serving", "reaped"}

(* Whatever numbers its caller had them under, a program has the three      *)
(* files it was to have as 0, 1 and 2, and beyond them nothing of its       *)
(* parent's: neither end of the terminal, of the report or of another pipe. *)
(* A daemon has the spawn lock too, which it was started to hold.  And of   *)
(* each variable it reads what was set for it, else what was inherited:     *)
(* getenv answers with the first entry of a key.                            *)
Firsts(s, key) == {i \in DOMAIN s : s[i].key = key /\ \A j \in 1 .. i - 1 : s[j].key # key}
Lasts(s, key) == {i \in DOMAIN s : s[i].key = key /\ \A j \in i + 1 .. Len(s) : s[j].key # key}
Asked(key) ==
  LET set == {program.settings[i] : i \in Lasts(program.settings, key)} IN
  IF set # {} THEN set ELSE {program.block[i] : i \in Firsts(program.block, key)}
Keys == {program.block[i].key : i \in DOMAIN program.block}
          \cup {program.settings[i].key : i \in DOMAIN program.settings}
Beyond == {tab.child[f].file : f \in {g \in Fds : g > STDERR_FILENO}} \ {"none"}
ChildHasItsOwn ==
  /\ envp # <<>> /\ child \notin {"zombie", "reaped"} =>
       \A i \in 1 .. 3 : tab.child[i - 1].file = caller.stdio[i]
  /\ child = "program" /\ caller.who = "pty" => Beyond = {}
  /\ child = "serving" \/ fork = "serving" => Beyond = {"lock"}
  /\ envp # <<>> => \A key \in Keys : {envp[i] : i \in Firsts(envp, key)} = Asked(key)

(* What a spawn opened on its way is closed when it returns, however it     *)
(* ended -- the daemon keeps no slave, or the shell's exit would never be   *)
(* an end of file on the master.                                            *)
CallerKeepsNothing ==
  pc = "returned" =>
    Drop(tab.parent, IF result = "ok" /\ caller.who = "pty" THEN {"master"} ELSE {}) = caller.table

(* The spawner is never left waiting on its report pipe.                    *)
SpawnReturns == <>(pc = "returned")
=============================================================================
