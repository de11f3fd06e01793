----------------------------- MODULE Terminate -----------------------------
(***************************************************************************)
(* The end of a session's processes: Pty::terminate and its walks over     *)
(* /proc (crates/nomux/src/pty.rs), while those processes exit, fork, move *)
(* to sessions of their own, and the kernel hands their numbers on.        *)
(*                                                                         *)
(* A walk reads the directory first and then one entry at a time; between  *)
(* any two of its system calls every process may move.  The session's      *)
(* leader is the child, never reaped, so its number stays its own.         *)
(* A pidfd does not reserve a number: only the process it was opened on    *)
(* answers to it.                                                          *)
(* An operator beside another one, differing from it by a slip, is a       *)
(* mutated form that some property is shown to tell apart.                 *)
(***************************************************************************)
EXTENDS Naturals, FiniteSets

CONSTANTS
  Numbers,     (* the pids in use here, besides the child's                *)
  Starts,      (* bound: what the processes may be when it begins          *)
  MaxArrivals, (* bound: forks, and strangers that take a free number      *)
  MaxFaults    (* bound: refused stat lines and pidfds                     *)

Child == 0
Pids == Numbers \cup {Child}
States == {"none", "live", "stopped", "zombie"}
Ways == {"dies", "handles", "ignores"}   \* what SIGHUP does to a process
Process == [state : States, member : BOOLEAN, grouped : BOOLEAN, way : Ways,
            heard : BOOLEAN, pending : BOOLEAN,
            \* history: whether its number ever was in the session under this
            \* process, was forked into it since, and was withheld from a walk
            ever : BOOLEAN, born : BOOLEAN, hidden : BOOLEAN]

ASSUME TerminateAssumption ==
  /\ Numbers \subseteq Nat \ {Child} /\ IsFiniteSet(Numbers)
  /\ Starts \subseteq [Pids -> Process]
  /\ \A s \in Starts :
       /\ s[Child].member /\ s[Child].state # "none"
       /\ \A p \in Pids : s[p].member \/ s[p].grouped => s[p].ever
  /\ {MaxArrivals, MaxFaults} \subseteq Nat

VARIABLES
  proc,              \* the processes, by number
  pc, settled, late, \* terminate: where it is; whether its present budget is over
  walk,              \* walk_session: what is left to read, and whether what it
                     \* read still lets the session be empty
  expired,           \* which walks their budgets cut short (history)
  arrivals, faults
vars == <<proc, pc, settled, late, walk, expired, arrivals, faults>>

Free == [state |-> "none", member |-> FALSE, grouped |-> FALSE, way |-> "dies",
         heard |-> FALSE, pending |-> FALSE, ever |-> FALSE, born |-> FALSE, hidden |-> FALSE]
Proc(state, member, grouped, way) ==
  [Free EXCEPT !.state = state, !.member = member, !.grouped = grouped, !.way = way,
               !.ever = member]

Idle == [on |-> FALSE, left |-> {}, empty |-> TRUE, at |-> "entry", held |-> FALSE]

Init ==
  /\ proc \in Starts
  /\ pc = "probe" /\ settled = FALSE /\ late = FALSE /\ walk = Idle /\ expired = {}
  /\ arrivals = 0 /\ faults = 0

Alive(p) == proc[p].state \in {"live", "stopped"}
Members == {p \in Pids : proc[p].member /\ Alive(p)}
Grouped == {p \in Pids : proc[p].grouped /\ proc[p].state # "none"}

-----------------------------------------------------------------------------
(* What a signal does.  A fatal one reaches a stopped process too; a caught *)
(* one waits in it for SIGCONT.                                             *)
Dead(p) == IF p = Child THEN [proc[p] EXCEPT !.state = "zombie"] ELSE Free
Hears(p) == [proc[p] EXCEPT !.state = "live", !.pending = FALSE, !.heard = TRUE]
Hup(p) == IF proc[p].way = "dies" THEN Dead(p)
          ELSE IF proc[p].state = "stopped" THEN [proc[p] EXCEPT !.pending = TRUE]
          ELSE Hears(p)
Cont(p) == IF proc[p].pending THEN Hears(p) ELSE [proc[p] EXCEPT !.state = "live"]
Signalled(p, signal) ==
  IF ~Alive(p) THEN proc[p]
  ELSE CASE signal = "HUP" -> Hup(p) [] signal = "CONT" -> Cont(p) [] OTHER -> Dead(p)
Reach(targets, signal) ==
  proc' = [p \in Pids |-> IF p \in targets THEN Signalled(p, signal) ELSE proc[p]]

-----------------------------------------------------------------------------
(* walk_session.  Probing walks end at the first member; signalling ones    *)
(* pin each member, read its line again, and signal it through the pidfd.   *)
Probing == pc \in {"probe", "grace", "killProbe"}
Signalling == pc \in {"hupWalk", "contWalk", "killWalk"}
SignalOf == CASE pc \in {"hupGroup", "hupWalk"} -> "HUP"
              [] pc \in {"contGroup", "contWalk"} -> "CONT" [] OTHER -> "KILL"
Budget(place) == CASE place = "probe" -> "probe"
                   [] place \in {"killWalk", "killProbe"} -> "kill" [] OTHER -> "hup"
Fresh(from, to) == Budget(from) # Budget(to)
GoTo(place) == pc' = place /\ late' = (late /\ ~Fresh(pc, place)) /\ walk' = Idle

Lowest(S) == CHOOSE p \in S : \A q \in S : p <= q
Entry == Lowest(walk.left)
In(p) == proc[p].member /\ Alive(p)

WalkBegins ==
  /\ Probing \/ Signalling
  /\ ~walk.on /\ ~late
  /\ walk' = [Idle EXCEPT !.on = TRUE, !.left = {p \in Pids : proc[p].state # "none"}]
  /\ UNCHANGED <<proc, pc, settled, late, expired, arrivals, faults>>

Passed(w) == [w EXCEPT !.left = @ \ {Entry}, !.at = "entry", !.held = FALSE]
Unpinned == walk' = Passed(walk)

(* One entry: gone, of another session or a zombie -- or a member, found by *)
(* a probe (which ends there) or to be pinned.                              *)
WalkReads ==
  /\ walk.on /\ walk.left # {} /\ walk.at = "entry" /\ ~late
  /\ IF ~In(Entry) THEN Unpinned
     ELSE IF Signalling THEN walk' = [walk EXCEPT !.at = "pin"]
     ELSE walk' = [walk EXCEPT !.empty = FALSE, !.left = {}]
  /\ UNCHANGED <<proc, pc, settled, late, expired, arrivals, faults>>

(* A line that cannot be read: no answer, which is not an absence.          *)
UnseenIsOut(w) == Passed(w)
Unseen(w) == [Passed(w) EXCEPT !.empty = FALSE]
WalkIsRefused ==
  /\ walk.on /\ walk.left # {} /\ walk.at = "entry" /\ ~late
  /\ faults < MaxFaults /\ faults' = faults + 1
  /\ proc[Entry].state # "none"
  /\ walk' = Unseen(walk)
  /\ proc' = [proc EXCEPT ![Entry].hidden = TRUE]
  /\ UNCHANGED <<pc, settled, late, expired, arrivals>>

(* pidfd_open: on whatever process the number has come to name.             *)
PinAtOnce == "signal"
PinAt == "confirm"
WalkPins ==
  /\ walk.on /\ walk.at = "pin"
  /\ IF proc[Entry].state = "none" THEN Unpinned
     ELSE walk' = [walk EXCEPT !.at = PinAt, !.held = TRUE]
  /\ UNCHANGED <<proc, pc, settled, late, expired, arrivals, faults>>

(* The second read, by number again.                                        *)
WalkConfirms ==
  /\ walk.on /\ walk.at = "confirm"
  /\ IF In(Entry) THEN walk' = [walk EXCEPT !.at = "signal"] ELSE Unpinned
  /\ UNCHANGED <<proc, pc, settled, late, expired, arrivals, faults>>

WalkCannotPin ==
  /\ walk.on /\ walk.at \in {"pin", "confirm"} /\ proc[Entry].state # "none"
  /\ faults < MaxFaults /\ faults' = faults + 1
  /\ Unpinned
  /\ proc' = [proc EXCEPT ![Entry].hidden = TRUE]
  /\ UNCHANGED <<pc, settled, late, expired, arrivals>>

(* Through the pidfd: to the process it holds, or to nobody.                *)
Held == IF walk.held THEN {Entry} ELSE {}
WalkSignals ==
  /\ walk.on /\ walk.at = "signal"
  /\ Reach(Held, SignalOf) /\ Unpinned
  /\ UNCHANGED <<pc, settled, late, expired, arrivals, faults>>

(* What a walk has found is known when nothing is left to read, or its      *)
(* deadline has passed, or it was never begun for that.                     *)
WalkOver == \/ walk.on /\ walk.left = {}
            \/ late /\ (walk.on => walk.at = "entry")
FoundEmpty == walk.empty /\ (~late \/ (walk.on /\ walk.left = {}))

-----------------------------------------------------------------------------
(* Pty::terminate *)
Probe ==
  /\ pc = "probe" /\ WalkOver
  /\ settled' = FoundEmpty
  /\ GoTo(IF FoundEmpty THEN "last" ELSE "hupGroup")
  /\ UNCHANGED <<proc, expired, arrivals, faults>>

(* group_alive asks before each: it always is, its leader never reaped.     *)
SignalGroup ==
  /\ pc \in {"hupGroup", "contGroup", "killGroup"}
  /\ Reach(Grouped, SignalOf)
  /\ GoTo(CASE pc = "hupGroup" -> "contGroup" [] pc = "contGroup" -> "hupWalk"
            [] OTHER -> "killWalk")
  /\ UNCHANGED <<settled, expired, arrivals, faults>>

AfterHupNoCont == "grace"
AfterHup == "contWalk"
WalkDone ==
  /\ Signalling /\ WalkOver
  /\ GoTo(CASE pc = "hupWalk" -> AfterHup [] pc = "contWalk" -> "grace"
            [] OTHER -> "killProbe")
  /\ UNCHANGED <<proc, settled, expired, arrivals, faults>>

(* The grace: until the session is seen empty, or its time is over.         *)
Grace ==
  /\ pc = "grace" /\ WalkOver
  /\ IF FoundEmpty THEN settled' = TRUE /\ GoTo("last")
     ELSE settled' = settled /\ GoTo(IF late THEN "killGroup" ELSE "grace")
  /\ UNCHANGED <<proc, expired, arrivals, faults>>

KillIsOverWhenEmpty == FoundEmpty
KillIsOver == FoundEmpty \/ late
KillProbe ==
  /\ pc = "killProbe" /\ WalkOver
  /\ GoTo(IF KillIsOver THEN "last" ELSE "killWalk")
  /\ UNCHANGED <<proc, settled, expired, arrivals, faults>>

Last ==
  /\ pc = "last"
  /\ Reach({Child}, "KILL") /\ GoTo("done")
  /\ UNCHANGED <<settled, expired, arrivals, faults>>

Timed == Probing \/ pc \in {"hupGroup", "contGroup", "hupWalk", "contWalk", "killWalk"}
Curtailed == IF pc = "grace" THEN {} ELSE {"hup", "kill"}
Expire ==
  /\ Timed /\ ~late
  /\ late' = TRUE /\ expired' = expired \cup ({Budget(pc)} \cap Curtailed)
  /\ UNCHANGED <<proc, pc, settled, walk, arrivals, faults>>

Steps == \/ WalkBegins \/ WalkReads \/ WalkPins \/ WalkConfirms \/ WalkSignals
         \/ Probe \/ SignalGroup \/ WalkDone \/ Grace \/ KillProbe \/ Last
Faults == WalkIsRefused \/ WalkCannotPin

-----------------------------------------------------------------------------
(* The processes *)
Loses(p) == walk' = IF walk.left # {} /\ p = Entry THEN [walk EXCEPT !.held = FALSE] ELSE walk

Exit(p) ==
  /\ proc[p].state = "live"
  /\ proc' = [proc EXCEPT ![p] = Dead(p)]
  /\ Loses(p)
  /\ UNCHANGED <<pc, settled, late, expired, arrivals, faults>>

Fork(p, q) ==
  /\ p \in Members /\ proc[p].state = "live" /\ proc[q].state = "none"
  /\ arrivals < MaxArrivals /\ arrivals' = arrivals + 1
  /\ \E grouped \in {FALSE, proc[p].grouped} :
       proc' = [proc EXCEPT ![q] = [proc[p] EXCEPT !.grouped = grouped, !.born = TRUE]]
  /\ UNCHANGED <<pc, settled, late, walk, expired, faults>>

Setsid(p) ==
  /\ p \in Members \ {Child} /\ proc[p].state = "live"
  /\ proc' = [proc EXCEPT ![p].member = FALSE, ![p].grouped = FALSE]
  /\ UNCHANGED <<pc, settled, late, walk, expired, arrivals, faults>>

(* A stranger starts, under a number that is free.                          *)
Stranger(q) ==
  /\ proc[q].state = "none"
  /\ arrivals < MaxArrivals /\ arrivals' = arrivals + 1
  /\ proc' = [proc EXCEPT ![q] = Proc("live", FALSE, FALSE, "dies")]
  /\ UNCHANGED <<pc, settled, late, walk, expired, faults>>

Processes == \/ \E p \in Pids : Exit(p) \/ Setsid(p)
             \/ \E p \in Pids, q \in Numbers : Fork(p, q)
             \/ \E q \in Numbers : Stranger(q)

Next == pc # "done" /\ (Steps \/ Faults \/ Expire \/ Processes)

Spec == Init /\ [][Next]_vars
FairSpec == Spec /\ WF_vars(pc # "done" /\ Steps) /\ WF_vars(Expire)
=============================================================================
