------------------------ MODULE TerminateProperties ------------------------
(* What the end of a session does to its processes, and to nobody else.     *)
EXTENDS Terminate

TypeOK ==
  /\ proc \in [Pids -> Process]
  /\ pc \in {"probe", "hupGroup", "contGroup", "hupWalk", "contWalk", "grace",
             "killGroup", "killWalk", "killProbe", "last", "done"}
  /\ settled \in BOOLEAN /\ late \in BOOLEAN
  /\ walk \in [on : BOOLEAN, left : SUBSET Pids, empty : BOOLEAN,
               at : {"entry", "pin", "confirm", "signal"}, held : BOOLEAN]
  /\ expired \subseteq {"hup", "kill"}
  /\ arrivals \in 0 .. MaxArrivals /\ faults \in 0 .. MaxFaults

(* No signal reaches a process that never was of the session, whoever took  *)
(* over a number between the walk's reads and the signal (pinned_member).   *)
(* A process that ends by itself while the walk holds it is no such step.   *)
Strikes == pc' # pc \/ (walk.at = "signal" /\ walk'.at # "signal")
StrangersAreSpared ==
  [][Strikes => \A p \in Pids : ~proc[p].ever => proc'[p] = proc[p]]_vars

(* A member that would handle its hang-up is not killed before it could --  *)
(* a stopped one was woken for it -- unless the walks that hang up and wake *)
(* ran out of their own half second, or the member was forked since or      *)
(* withheld from a walk (the two budgets, SIGCONT behind SIGHUP).           *)
Killed(p) == Alive(p) /\ proc'[p].state \in {"none", "zombie"}
Excused(p) == proc[p].born \/ proc[p].hidden \/ "hup" \in expired
NobodyDiesUnheard ==
  [][Strikes => \A p \in Members :
       Killed(p) /\ proc[p].way = "handles" => proc[p].heard \/ Excused(p)]_vars

(* Nobody is forgotten: whoever was of the session from the start and still *)
(* is when terminate is through was left to the end of the last budget --   *)
(* no walk that was refused a line, or cut short, passes for an empty one.  *)
NobodyIsForgotten ==
  pc \in {"last", "done"} =>
    \A p \in Members \ {Child} : proc[p].born \/ "kill" \in expired

(* It ends, whatever the session's processes do.                            *)
TerminateEnds == <>(pc = "done")
=============================================================================
