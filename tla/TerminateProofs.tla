-------------------------- MODULE TerminateProofs --------------------------
(***************************************************************************)
(* Proofs about the end of a session, for any pids, any processes to begin *)
(* with and any number of arrivals and faults: types, that strangers are   *)
(* spared, that nobody is forgotten, and that no member is killed which    *)
(* would have handled a hang-up it has not heard.                          *)
(***************************************************************************)
EXTENDS TerminateProperties, WellFoundedInduction, TLAPS

-----------------------------------------------------------------------------
(* The inductive invariant.                                                 *)

(* Whoever is of the session, or in its group, was of the session: the      *)
(* targets of a signal to the group.                                        *)
KinAreOurs == \A p \in Pids : proc[p].member \/ proc[p].grouped => proc[p].ever
ChildIsOurs == proc[Child].ever

(* Past an entry's first read only a signalling walk is; a pidfd held is on *)
(* a process that runs, and once confirmed that process is of the session.  *)
WalkIsAt == walk.at # "entry" => Signalling /\ walk.left # {}
PidfdHolds == walk.held => walk.at \in {"confirm", "signal"} /\ proc[Entry].state # "none"
PidfdIsOurs == walk.held /\ walk.at = "signal" => proc[Entry].ever

(* A probing walk that may still find nothing has every old member ahead.   *)
NoneBehind ==
  Probing /\ walk.on /\ walk.empty => \A p \in Pids : In(p) => proc[p].born \/ p \in walk.left
LateIsExpired == late /\ Budget(pc) = "kill" => "kill" \in expired
NoneLeft == pc \in {"last", "done"} =>
              "kill" \in expired \/ \A p \in Pids : In(p) => proc[p].born

IInv == /\ TypeOK /\ KinAreOurs /\ ChildIsOurs
        /\ WalkIsAt /\ PidfdHolds /\ PidfdIsOurs
        /\ NoneBehind /\ LateIsExpired /\ NoneLeft

Places == {"probe", "hupGroup", "contGroup", "hupWalk", "contWalk", "grace",
           "killGroup", "killWalk", "killProbe", "last", "done"}

(* What every step does to the processes: whoever is of the session after   *)
(* it, and was not forked since the beginning, was of it before.            *)
Carries ==
  /\ proc' \in [Pids -> Process] /\ KinAreOurs' /\ ChildIsOurs'
  /\ \A p \in Pids : In(p)' /\ ~proc'[p].born => In(p) /\ ~proc[p].born

-----------------------------------------------------------------------------
(* Lemmas                                                                   *)

(* A walk's lowest entry is one of its entries.                             *)
LEMMA LowestIsIn ==
  ASSUME NEW S \in SUBSET Nat, S # {}
  PROVE  Lowest(S) \in S
<1> DEFINE Less == {ss \in Nat \X Nat : ss[1] < ss[2]}
<1>1. IsWellFoundedOn(Less, Nat)
  BY NatLessThanWellFounded DEF OpToRel
<1> HIDE DEF Less
<1>2. PICK x \in S : \A y \in S : <<y, x>> \notin Less
  BY <1>1, WFMin
<1>3. \A y \in S : x <= y
  <2> TAKE y \in S
  <2>1. ~(y < x)
    BY <1>2 DEF Less
  <2> QED  BY <2>1
<1> QED  BY <1>3 DEF Lowest

(* The entry a walk is at is one of the pids it has left to read.           *)
LEMMA EntryIsAPid ==
  ASSUME TypeOK, walk.left # {}
  PROVE  Entry \in walk.left /\ Entry \in Pids
<1>1. walk.left \subseteq Pids /\ Pids \subseteq Nat
  BY TerminateAssumption DEF TypeOK, Pids, Child
<1> QED  BY <1>1, LowestIsIn DEF Entry

(* A signal leaves a process, a zombie or a free number; it makes no member *)
(* of anyone.                                                               *)
LEMMA SignalledIs ==
  ASSUME TypeOK, NEW p \in Pids, NEW signal
  PROVE  LET r == Signalled(p, signal) IN
           /\ r \in Process
           /\ r.member \/ r.grouped \/ p = Child =>
                /\ r.member = proc[p].member /\ r.grouped = proc[p].grouped
                /\ r.ever = proc[p].ever
           /\ r.state \in {"live", "stopped"} => Alive(p)
           /\ r.member => r.born = proc[p].born
<1>1. proc[p] \in Process
  BY DEF TypeOK
<1>2. Free \in Process /\ ~Free.member /\ ~Free.grouped /\ Free.state = "none"
  BY DEF Free, Process, States, Ways
<1>3. CASE ~Alive(p)
  BY <1>1, <1>3 DEF Signalled, Alive
<1>4. CASE Alive(p)
  <2>1. \/ Signalled(p, signal) = Dead(p)
        \/ Signalled(p, signal) = Hears(p)
        \/ Signalled(p, signal) = [proc[p] EXCEPT !.pending = TRUE]
        \/ Signalled(p, signal) = [proc[p] EXCEPT !.state = "live"]
    BY <1>4 DEF Signalled, Hup, Cont
  <2>2. CASE Signalled(p, signal) = Dead(p)
    BY <1>1, <1>2, <1>4, <2>2 DEF Dead, Process, States
  <2>3. CASE Signalled(p, signal) # Dead(p)
    BY <1>1, <1>4, <2>1, <2>3 DEF Hears, Process, States
  <2> QED  BY <2>2, <2>3
<1> QED  BY <1>3, <1>4

(* A signal to a set carries, and leaves everybody else as he was.          *)
LEMMA ReachCarries ==
  ASSUME TypeOK, KinAreOurs, ChildIsOurs, NEW T, NEW signal, Reach(T, signal)
  PROVE  Carries /\ \A p \in Pids \ T : proc'[p] = proc[p]
<1>1. \A p \in Pids : proc'[p] = IF p \in T THEN Signalled(p, signal) ELSE proc[p]
  BY DEF Reach
<1>2. \A p \in Pids : proc[p] \in Process
  BY DEF TypeOK
<1>3. \A p \in Pids : proc'[p] \in Process
  BY <1>1, <1>2, SignalledIs
<1>4. proc' \in [Pids -> Process]
  BY <1>3 DEF Reach
<1>5. KinAreOurs'
  BY <1>1, SignalledIs DEF KinAreOurs
<1>6. ChildIsOurs'
  BY <1>1, SignalledIs DEF ChildIsOurs, Pids
<1>7. \A p \in Pids : In(p)' /\ ~proc'[p].born => In(p) /\ ~proc[p].born
  <2> TAKE p \in Pids
  <2>1. CASE p \in T
    BY <1>1, <2>1, SignalledIs DEF In, Alive
  <2>2. CASE p \notin T
    BY <1>1, <2>2 DEF In, Alive
  <2> QED  BY <2>1, <2>2
<1> QED  BY <1>1, <1>4, <1>5, <1>6, <1>7 DEF Carries

(* A step that leaves the processes alone, or only notes a fault, carries.  *)
LEMMA SameCarries ==
  ASSUME TypeOK, KinAreOurs, ChildIsOurs, UNCHANGED proc
  PROVE  Carries
BY DEF Carries, TypeOK, KinAreOurs, ChildIsOurs, In, Alive

(* Noting that an entry was withheld changes nothing else of it.            *)
LEMMA HiddenCarries ==
  ASSUME TypeOK, KinAreOurs, ChildIsOurs,
         NEW q \in Pids, proc' = [proc EXCEPT ![q].hidden = TRUE]
  PROVE  Carries /\ proc'[q].state = proc[q].state
<1>1. proc \in [Pids -> Process]
  BY DEF TypeOK
<1>2. \A p \in Pids : /\ proc'[p] \in Process
                      /\ proc'[p].state = proc[p].state /\ proc'[p].member = proc[p].member
                      /\ proc'[p].grouped = proc[p].grouped /\ proc'[p].ever = proc[p].ever
                      /\ proc'[p].born = proc[p].born
  BY <1>1 DEF Process
<1>3. proc' \in [Pids -> Process]
  BY <1>1, <1>2
<1> QED  BY <1>2, <1>3 DEF Carries, KinAreOurs, ChildIsOurs, In, Alive, Pids

(* The moves of the processes themselves: exit, setsid, fork, a stranger.   *)
LEMMA ProcessesCarry ==
  ASSUME TypeOK, KinAreOurs, ChildIsOurs, Processes
  PROVE  Carries
<1>1. \A p \in Pids : proc[p] \in Process
  BY DEF TypeOK
<1>2. Child \notin Numbers /\ Child \in Pids /\ \A q \in Numbers : q \in Pids
  BY TerminateAssumption DEF Pids, Child
<1>3. ASSUME NEW p \in Pids, Exit(p) PROVE Carries
  <2>1. Dead(p) \in Process /\ Dead(p).state \notin {"live", "stopped"}
    BY <1>1 DEF Dead, Free, Process, States, Ways
  <2>2. Dead(p).member \/ Dead(p).grouped \/ p = Child => p = Child /\ Dead(p).ever = proc[p].ever
    BY <1>1 DEF Dead, Free, Process
  <2>3. \A q \in Pids : proc'[q] = IF q = p THEN Dead(p) ELSE proc[q]
    BY <1>3 DEF Exit, TypeOK
  <2>4. proc' \in [Pids -> Process]
    BY <1>3, <2>1 DEF Exit, TypeOK
  <2> QED  BY <1>2, <2>1, <2>2, <2>3, <2>4 DEF Carries, KinAreOurs, ChildIsOurs, In, Alive
<1>4. ASSUME NEW p \in Pids, Setsid(p) PROVE Carries
  <2> DEFINE gone == [proc[p] EXCEPT !.member = FALSE, !.grouped = FALSE]
  <2>1. gone \in Process /\ ~gone.member /\ ~gone.grouped /\ gone.ever = proc[p].ever
    BY <1>1 DEF Process
  <2>2. \A q \in Pids : proc'[q] = IF q = p THEN gone ELSE proc[q]
    BY <1>1, <1>4 DEF Setsid, TypeOK, Process
  <2>3. proc' \in [Pids -> Process]
    <3> HIDE DEF gone
    <3>1. \A q \in Pids : proc'[q] \in Process
      BY <1>1, <2>1, <2>2
    <3> QED  BY <1>4, <3>1 DEF Setsid, TypeOK
  <2> HIDE DEF gone
  <2> QED  BY <1>2, <2>1, <2>2, <2>3 DEF Carries, KinAreOurs, ChildIsOurs, In, Alive
<1>5. ASSUME NEW p \in Pids, NEW q \in Numbers, Fork(p, q) PROVE Carries
  <2>1. PICK grouped \in {FALSE, proc[p].grouped} :
          proc' = [proc EXCEPT ![q] = [proc[p] EXCEPT !.grouped = grouped, !.born = TRUE]]
    BY <1>5 DEF Fork
  <2> DEFINE young == [proc[p] EXCEPT !.grouped = grouped, !.born = TRUE]
  <2>2. young \in Process /\ young.born /\ young.ever = proc[p].ever
    BY <1>1, <2>1 DEF Process
  <2>3. proc[p].ever
    BY <1>5 DEF Fork, Members, KinAreOurs
  <2>4. \A r \in Pids : proc'[r] = IF r = q THEN young ELSE proc[r]
    BY <2>1 DEF TypeOK
  <2>5. proc' \in [Pids -> Process]
    <3> HIDE DEF young
    <3> QED  BY <2>1, <2>2, <1>2 DEF TypeOK, young
  <2> HIDE DEF young
  <2> QED  BY <1>2, <2>2, <2>3, <2>4, <2>5 DEF Carries, KinAreOurs, ChildIsOurs, In, Alive
<1>6. ASSUME NEW q \in Numbers, Stranger(q) PROVE Carries
  <2> DEFINE other == Proc("live", FALSE, FALSE, "dies")
  <2>1. other \in Process /\ ~other.member /\ ~other.grouped
    BY DEF Proc, Free, Process, States, Ways
  <2> HIDE DEF other
  <2>2. \A r \in Pids : proc'[r] = IF r = q THEN other ELSE proc[r]
    BY <1>6 DEF Stranger, TypeOK, other
  <2>3. proc' \in [Pids -> Process]
    BY <1>6, <1>2, <2>1 DEF Stranger, TypeOK, other
  <2> QED  BY <1>2, <2>1, <2>2, <2>3 DEF Carries, KinAreOurs, ChildIsOurs, In, Alive
<1> QED  BY <1>3, <1>4, <1>5, <1>6 DEF Processes

(* A step to another place gives the walk up; only the last places ask that *)
(* nobody be left.                                                          *)
LEMMA GoToKeeps ==
  ASSUME IInv, Carries, NEW place \in Places, GoTo(place),
         settled' \in BOOLEAN, UNCHANGED <<expired, arrivals, faults>>,
         place \in {"last", "done"} =>
           "kill" \in expired \/ \A p \in Pids : In(p)' => proc'[p].born
  PROVE  IInv'
<1>1. Idle \in [on : BOOLEAN, left : SUBSET Pids, empty : BOOLEAN,
                at : {"entry", "pin", "confirm", "signal"}, held : BOOLEAN]
  BY DEF Idle
<1>2. TypeOK'
  BY <1>1 DEF IInv, TypeOK, GoTo, Places, Carries
<1>3. WalkIsAt' /\ PidfdHolds' /\ PidfdIsOurs' /\ NoneBehind'
  BY DEF GoTo, Idle, WalkIsAt, PidfdHolds, PidfdIsOurs, NoneBehind
<1>4. LateIsExpired'
  BY DEF IInv, LateIsExpired, GoTo, Fresh, TypeOK, Budget
<1>5. NoneLeft'
  BY DEF NoneLeft, GoTo
<1> QED  BY <1>2, <1>3, <1>4, <1>5 DEF IInv, Carries

(* When a probing walk is over and found nothing, no old member is left.    *)
LEMMA FoundEmptyIsTrue ==
  ASSUME IInv, Probing, WalkOver, FoundEmpty
  PROVE  \A p \in Pids : In(p) => proc[p].born
<1>1. walk.on /\ walk.left = {} /\ walk.empty
  BY DEF WalkOver, FoundEmpty
<1> QED  BY <1>1 DEF IInv, NoneBehind

-----------------------------------------------------------------------------
(* Each step of the walks keeps the invariant.                              *)

(* The walk passes an entry that is not a member, or that it signals.       *)
LEMMA PassedKeeps ==
  ASSUME IInv, Carries, walk.left # {}, Unpinned,
         Probing => ~In(Entry),
         \A p \in Pids : In(p)' /\ ~proc'[p].born => In(p) /\ ~proc[p].born,
         UNCHANGED <<pc, settled, late, expired, arrivals>>, faults' \in 0 .. MaxFaults
  PROVE  IInv'
<1> USE DEF IInv
<1>1. Entry \in walk.left /\ Entry \in Pids
  BY EntryIsAPid
<1>2. /\ walk'.left = walk.left \ {Entry} /\ walk'.at = "entry" /\ walk'.held = FALSE
      /\ walk'.on = walk.on /\ walk'.empty = walk.empty
      /\ walk' \in [on : BOOLEAN, left : SUBSET Pids, empty : BOOLEAN,
                    at : {"entry", "pin", "confirm", "signal"}, held : BOOLEAN]
  BY <1>1 DEF Unpinned, Passed, TypeOK
<1>3. TypeOK'
  BY <1>2 DEF TypeOK, Carries
<1>4. WalkIsAt' /\ PidfdHolds' /\ PidfdIsOurs'
  BY <1>2 DEF WalkIsAt, PidfdHolds, PidfdIsOurs
<1>5. NoneBehind'
  <2> SUFFICES ASSUME Probing', walk'.on, walk'.empty, NEW p \in Pids, In(p)', ~proc'[p].born
               PROVE  p \in walk'.left
    BY DEF NoneBehind
  <2>1. Probing /\ In(p) /\ ~proc[p].born
    BY DEF Probing
  <2>2. p \in walk.left /\ p # Entry
    BY <1>2, <2>1 DEF NoneBehind
  <2> QED  BY <1>2, <2>2
<1>6. LateIsExpired'
  BY DEF LateIsExpired, Budget
<1>7. NoneLeft'
  BY DEF NoneLeft
<1> QED  BY <1>3, <1>4, <1>5, <1>6, <1>7 DEF Carries

(* A walk that begins has everyone ahead of it.                             *)
LEMMA WalkBeginsKeeps == ASSUME IInv, WalkBegins PROVE IInv'
<1>1. UNCHANGED <<proc, pc, settled, late, expired, arrivals, faults>>
  BY DEF WalkBegins
<1>2. Carries
  BY <1>1, SameCarries DEF IInv
<1>3. /\ walk'.left = {p \in Pids : proc[p].state # "none"} /\ walk'.at = "entry" /\ ~walk'.held
      /\ walk' \in [on : BOOLEAN, left : SUBSET Pids, empty : BOOLEAN,
                    at : {"entry", "pin", "confirm", "signal"}, held : BOOLEAN]
  <2> DEFINE running == {p \in Pids : proc[p].state # "none"}
  <2>1. running \in SUBSET Pids
    OBVIOUS
  <2>2. walk' = [Idle EXCEPT !.on = TRUE, !.left = running]
    BY DEF WalkBegins
  <2> HIDE DEF running
  <2>3. /\ walk'.left = running /\ walk'.at = "entry" /\ ~walk'.held
        /\ walk' \in [on : BOOLEAN, left : SUBSET Pids, empty : BOOLEAN,
                      at : {"entry", "pin", "confirm", "signal"}, held : BOOLEAN]
    BY <2>1, <2>2 DEF Idle
  <2> QED  BY <2>3 DEF running
<1>4. TypeOK'
  BY <1>1, <1>3 DEF IInv, TypeOK
<1>5. WalkIsAt' /\ PidfdHolds' /\ PidfdIsOurs'
  BY <1>3 DEF WalkIsAt, PidfdHolds, PidfdIsOurs
<1>6. NoneBehind'
  BY <1>1, <1>3 DEF NoneBehind, In, Alive
<1>7. LateIsExpired' /\ NoneLeft'
  BY <1>1 DEF IInv, LateIsExpired, NoneLeft, Budget, In, Alive
<1> QED  BY <1>2, <1>4, <1>5, <1>6, <1>7 DEF IInv, Carries

(* Reading an entry: passed, to be pinned, or the end of a probe.           *)
LEMMA WalkReadsKeeps == ASSUME IInv, WalkReads PROVE IInv'
<1>1. Carries
  BY SameCarries DEF IInv, WalkReads
<1>2. CASE ~In(Entry)
  <2>1. faults' \in 0 .. MaxFaults
    BY DEF WalkReads, IInv, TypeOK
  <2> QED  BY <1>1, <1>2, <2>1, PassedKeeps DEF WalkReads, Carries
<1>3. CASE In(Entry) /\ Signalling
  <2>1. /\ walk' = [walk EXCEPT !.at = "pin"] /\ walk.left # {}
        /\ UNCHANGED <<proc, pc, settled, late, expired, arrivals, faults>>
    BY <1>3 DEF WalkReads
  <2>2. ~walk.held
    BY DEF IInv, PidfdHolds, WalkReads
  <2>3. TypeOK'
    BY <2>1 DEF IInv, TypeOK
  <2>4. walk'.at = "pin" /\ walk'.left = walk.left /\ ~walk'.held
    BY <2>1, <2>2 DEF IInv, TypeOK
  <2>5. WalkIsAt' /\ PidfdHolds' /\ PidfdIsOurs'
    BY <1>3, <2>1, <2>4 DEF WalkIsAt, PidfdHolds, PidfdIsOurs, Signalling
  <2>6. NoneBehind'
    BY <1>3, <2>1 DEF NoneBehind, Probing, Signalling
  <2>7. LateIsExpired' /\ NoneLeft'
    BY <2>1 DEF IInv, LateIsExpired, NoneLeft, Budget, In, Alive
  <2> QED  BY <1>1, <2>3, <2>5, <2>6, <2>7 DEF IInv, Carries
<1>4. CASE In(Entry) /\ ~Signalling
  <2>1. /\ walk' = [walk EXCEPT !.empty = FALSE, !.left = {}] /\ walk.at = "entry"
        /\ UNCHANGED <<proc, pc, settled, late, expired, arrivals, faults>>
    BY <1>4 DEF WalkReads
  <2>2. TypeOK'
    BY <2>1 DEF IInv, TypeOK
  <2>3. walk'.at = "entry" /\ walk'.held = walk.held /\ ~walk'.empty /\ ~walk.held
    BY <2>1 DEF IInv, TypeOK, PidfdHolds
  <2>4. WalkIsAt' /\ PidfdHolds' /\ PidfdIsOurs' /\ NoneBehind'
    BY <2>3 DEF WalkIsAt, PidfdHolds, PidfdIsOurs, NoneBehind
  <2>5. LateIsExpired' /\ NoneLeft'
    BY <2>1 DEF IInv, LateIsExpired, NoneLeft, Budget, In, Alive
  <2> QED  BY <1>1, <2>2, <2>4, <2>5 DEF IInv, Carries
<1> QED  BY <1>2, <1>3, <1>4

(* A refused line: the walk can no longer find the session empty.           *)
LEMMA WalkIsRefusedKeeps == ASSUME IInv, WalkIsRefused PROVE IInv'
<1> USE DEF IInv
<1>1. Entry \in walk.left /\ Entry \in Pids
  BY EntryIsAPid DEF WalkIsRefused
<1>2. Carries
  BY <1>1, HiddenCarries DEF WalkIsRefused
<1>3. /\ walk' \in [on : BOOLEAN, left : SUBSET Pids, empty : BOOLEAN,
                    at : {"entry", "pin", "confirm", "signal"}, held : BOOLEAN]
      /\ walk'.at = "entry" /\ ~walk'.held /\ ~walk'.empty
  BY DEF WalkIsRefused, Unseen, Passed, TypeOK
<1>4. faults' \in 0 .. MaxFaults /\ UNCHANGED <<pc, settled, late, expired, arrivals>>
  BY TerminateAssumption DEF WalkIsRefused, TypeOK
<1>5. TypeOK'
  BY <1>2, <1>3, <1>4 DEF TypeOK, Carries
<1>6. WalkIsAt' /\ PidfdHolds' /\ PidfdIsOurs' /\ NoneBehind'
  BY <1>3 DEF WalkIsAt, PidfdHolds, PidfdIsOurs, NoneBehind
<1>7. LateIsExpired' /\ NoneLeft'
  BY <1>2, <1>4 DEF LateIsExpired, NoneLeft, Budget, Carries
<1> QED  BY <1>2, <1>5, <1>6, <1>7 DEF Carries

(* Pinning: the pidfd is on a process that runs, not yet confirmed.         *)
LEMMA WalkPinsKeeps == ASSUME IInv, WalkPins PROVE IInv'
<1>1. walk.left # {} /\ Signalling /\ ~Probing
  BY DEF IInv, WalkPins, WalkIsAt, Signalling, Probing
<1>2. Carries
  BY SameCarries DEF IInv, WalkPins
<1>3. CASE proc[Entry].state = "none"
  <2>1. faults' \in 0 .. MaxFaults
    BY DEF WalkPins, IInv, TypeOK
  <2> QED  BY <1>1, <1>2, <1>3, <2>1, PassedKeeps DEF WalkPins, Carries
<1>4. CASE proc[Entry].state # "none"
  <2>1. /\ walk' = [walk EXCEPT !.at = "confirm", !.held = TRUE]
        /\ UNCHANGED <<proc, pc, settled, late, expired, arrivals, faults>>
    BY <1>4 DEF WalkPins, PinAt
  <2>2. TypeOK'
    BY <2>1 DEF IInv, TypeOK
  <2>3. walk'.at = "confirm" /\ walk'.left = walk.left
    BY <2>1 DEF IInv, TypeOK
  <2>4. WalkIsAt' /\ PidfdHolds' /\ PidfdIsOurs'
    BY <1>1, <1>4, <2>1, <2>3 DEF WalkIsAt, PidfdHolds, PidfdIsOurs, Signalling, Entry
  <2>5. NoneBehind' /\ LateIsExpired' /\ NoneLeft'
    BY <1>1, <2>1 DEF IInv, NoneBehind, Probing, LateIsExpired, NoneLeft, Budget, In, Alive
  <2> QED  BY <1>2, <2>2, <2>4, <2>5 DEF IInv, Carries
<1> QED  BY <1>3, <1>4

(* Confirming: only a member, who is ours, is signalled next.               *)
LEMMA WalkConfirmsKeeps == ASSUME IInv, WalkConfirms PROVE IInv'
<1>1. walk.left # {} /\ Signalling /\ ~Probing
  BY DEF IInv, WalkConfirms, WalkIsAt, Signalling, Probing
<1>2. Carries
  BY SameCarries DEF IInv, WalkConfirms
<1>3. CASE ~In(Entry)
  <2>1. faults' \in 0 .. MaxFaults
    BY DEF WalkConfirms, IInv, TypeOK
  <2> QED  BY <1>1, <1>2, <1>3, <2>1, PassedKeeps DEF WalkConfirms, Carries
<1>4. CASE In(Entry)
  <2>1. /\ walk' = [walk EXCEPT !.at = "signal"]
        /\ UNCHANGED <<proc, pc, settled, late, expired, arrivals, faults>>
    BY <1>4 DEF WalkConfirms
  <2>2. TypeOK'
    BY <2>1 DEF IInv, TypeOK
  <2>3. walk'.at = "signal" /\ walk'.left = walk.left /\ walk'.held = walk.held
    BY <2>1 DEF IInv, TypeOK
  <2>4. proc[Entry].ever /\ proc[Entry].state # "none"
    BY <1>1, <1>4, EntryIsAPid DEF IInv, KinAreOurs, In, Alive
  <2>5. WalkIsAt' /\ PidfdHolds' /\ PidfdIsOurs'
    BY <1>1, <2>1, <2>3, <2>4 DEF WalkIsAt, PidfdHolds, PidfdIsOurs, Signalling, Entry
  <2>6. NoneBehind' /\ LateIsExpired' /\ NoneLeft'
    BY <1>1, <2>1 DEF IInv, NoneBehind, Probing, LateIsExpired, NoneLeft, Budget, In, Alive
  <2> QED  BY <1>2, <2>2, <2>5, <2>6 DEF IInv, Carries
<1> QED  BY <1>3, <1>4

(* A pidfd that cannot be had: the entry is passed.                         *)
LEMMA WalkCannotPinKeeps == ASSUME IInv, WalkCannotPin PROVE IInv'
<1>1. walk.left # {} /\ Signalling /\ ~Probing
  BY DEF IInv, WalkCannotPin, WalkIsAt, Signalling, Probing
<1>2. Carries
  BY <1>1, EntryIsAPid, HiddenCarries DEF IInv, WalkCannotPin
<1>3. faults' \in 0 .. MaxFaults
  BY TerminateAssumption DEF WalkCannotPin, IInv, TypeOK
<1> QED  BY <1>1, <1>2, <1>3, PassedKeeps DEF WalkCannotPin, Carries

(* Signalling through the pidfd: the entry is passed.                       *)
LEMMA WalkSignalsKeeps == ASSUME IInv, WalkSignals PROVE IInv'
<1>1. walk.left # {} /\ Signalling /\ ~Probing
  BY DEF IInv, WalkSignals, WalkIsAt, Signalling, Probing
<1>2. Carries
  BY ReachCarries DEF IInv, WalkSignals
<1>3. faults' \in 0 .. MaxFaults
  BY DEF WalkSignals, IInv, TypeOK
<1> QED  BY <1>1, <1>2, <1>3, PassedKeeps DEF WalkSignals, Carries

-----------------------------------------------------------------------------
(* So do the steps of terminate, the clock and the processes.               *)

(* The first probe ends all only if it truly found nobody.                  *)
LEMMA ProbeKeeps == ASSUME IInv, Probe PROVE IInv'
<1>1. Carries
  BY SameCarries DEF IInv, Probe
<1>2. settled' \in BOOLEAN
  BY DEF Probe, FoundEmpty, IInv, TypeOK
<1>3. CASE FoundEmpty
  <2>1. \A p \in Pids : In(p)' => proc'[p].born
    BY <1>3, FoundEmptyIsTrue DEF Probe, Probing, In, Alive
  <2> QED  BY <1>1, <1>2, <1>3, <2>1, GoToKeeps DEF Probe, Places
<1>4. CASE ~FoundEmpty
  BY <1>1, <1>2, <1>4, GoToKeeps DEF Probe, Places
<1> QED  BY <1>3, <1>4

(* The signals to the group.                                                *)
LEMMA SignalGroupKeeps == ASSUME IInv, SignalGroup PROVE IInv'
<1>1. Carries
  BY ReachCarries DEF IInv, SignalGroup
<1>2. PICK place \in {"contGroup", "hupWalk", "killWalk"} : GoTo(place)
  BY DEF SignalGroup
<1> QED  BY <1>1, <1>2, GoToKeeps DEF SignalGroup, Places, IInv, TypeOK

(* The end of a signalling walk.                                            *)
LEMMA WalkDoneKeeps == ASSUME IInv, WalkDone PROVE IInv'
<1>1. Carries
  BY SameCarries DEF IInv, WalkDone
<1>2. PICK place \in {"contWalk", "grace", "killProbe"} : GoTo(place)
  BY DEF WalkDone, AfterHup
<1> QED  BY <1>1, <1>2, GoToKeeps DEF WalkDone, Places, IInv, TypeOK

(* The grace ends early only if a walk truly found nobody.                  *)
LEMMA GraceKeeps == ASSUME IInv, Grace PROVE IInv'
<1>1. Carries
  BY SameCarries DEF IInv, Grace
<1>2. CASE FoundEmpty
  <2>1. \A p \in Pids : In(p)' => proc'[p].born
    BY <1>2, FoundEmptyIsTrue DEF Grace, Probing, In, Alive
  <2> QED  BY <1>1, <1>2, <2>1, GoToKeeps DEF Grace, Places
<1>3. CASE ~FoundEmpty
  <2>1. PICK place \in {"killGroup", "grace"} : GoTo(place)
    BY <1>3 DEF Grace
  <2>2. settled' \in BOOLEAN
    BY <1>3 DEF Grace, IInv, TypeOK
  <2> QED  BY <1>1, <2>1, <2>2, GoToKeeps DEF Grace, Places
<1> QED  BY <1>2, <1>3

(* The kill phase ends for an empty session or a spent budget.              *)
LEMMA KillProbeKeeps == ASSUME IInv, KillProbe PROVE IInv'
<1>1. Carries
  BY SameCarries DEF IInv, KillProbe
<1>2. CASE KillIsOver
  <2>1. "kill" \in expired \/ \A p \in Pids : In(p)' => proc'[p].born
    <3>1. CASE late
      BY <3>1 DEF IInv, LateIsExpired, KillProbe, Budget
    <3>2. CASE FoundEmpty
      BY <3>2, FoundEmptyIsTrue DEF KillProbe, Probing, In, Alive
    <3> QED  BY <1>2, <3>1, <3>2 DEF KillIsOver
  <2> QED  BY <1>1, <1>2, <2>1, GoToKeeps DEF KillProbe, Places, IInv, TypeOK
<1>3. CASE ~KillIsOver
  BY <1>1, <1>3, GoToKeeps DEF KillProbe, Places, IInv, TypeOK
<1> QED  BY <1>2, <1>3

(* The last signal, to the child alone.                                     *)
LEMMA LastKeeps == ASSUME IInv, Last PROVE IInv'
<1>1. Carries
  BY ReachCarries DEF IInv, Last
<1>2. "kill" \in expired \/ \A p \in Pids : In(p)' => proc'[p].born
  BY <1>1 DEF IInv, NoneLeft, Last, Carries
<1> QED  BY <1>1, <1>2, GoToKeeps DEF Last, Places, IInv, TypeOK

(* A budget ends, and is noted if it cut a walk short.                      *)
LEMMA ExpireKeeps == ASSUME IInv, Expire PROVE IInv'
<1>1. /\ UNCHANGED <<proc, pc, settled, walk, arrivals, faults>>
      /\ late' = TRUE /\ expired' = expired \cup ({Budget(pc)} \cap Curtailed)
  BY DEF Expire
<1>2. Carries
  BY <1>1, SameCarries DEF IInv
<1>3. TypeOK'
  BY <1>1 DEF IInv, TypeOK, Budget, Curtailed
<1>4. WalkIsAt' /\ PidfdHolds' /\ PidfdIsOurs' /\ NoneBehind'
  BY <1>1 DEF IInv, WalkIsAt, PidfdHolds, PidfdIsOurs, NoneBehind, Signalling, Probing,
              Entry, In, Alive
<1>5. LateIsExpired' /\ NoneLeft'
  BY <1>1 DEF IInv, LateIsExpired, NoneLeft, Budget, Curtailed, In, Alive
<1> QED  BY <1>2, <1>3, <1>4, <1>5 DEF IInv, Carries

(* A process moves: the walk loses at most its pidfd, to an entry that ends;*)
(* a number a pidfd is held for is taken by nobody else.                    *)
LEMMA ProcessesKeep == ASSUME IInv, Processes PROVE IInv'
<1>1. Carries
  BY ProcessesCarry DEF IInv
<1>2. UNCHANGED <<pc, settled, late, expired, faults>> /\ arrivals' \in 0 .. MaxArrivals
  <2>1. MaxArrivals \in Nat /\ arrivals \in 0 .. MaxArrivals
    BY TerminateAssumption DEF IInv, TypeOK
  <2>2. /\ UNCHANGED <<pc, settled, late, expired, faults>>
        /\ \/ arrivals' = arrivals
           \/ arrivals < MaxArrivals /\ arrivals' = arrivals + 1
    BY DEF Processes, Exit, Setsid, Fork, Stranger
  <2> QED  BY <2>1, <2>2
<1>3. /\ walk' \in [on : BOOLEAN, left : SUBSET Pids, empty : BOOLEAN,
                    at : {"entry", "pin", "confirm", "signal"}, held : BOOLEAN]
      /\ walk'.on = walk.on /\ walk'.left = walk.left /\ walk'.empty = walk.empty
      /\ walk'.at = walk.at /\ (walk'.held => walk.held)
  BY ZenonT(30) DEF Processes, Exit, Loses, Setsid, Fork, Stranger, IInv, TypeOK
<1>4. Entry' = Entry
  BY <1>3 DEF Entry
<1>5. walk'.held => proc'[Entry].state # "none" /\ proc'[Entry].ever = proc[Entry].ever
  <2> SUFFICES ASSUME walk'.held
               PROVE  proc'[Entry].state # "none" /\ proc'[Entry].ever = proc[Entry].ever
    OBVIOUS
  <2>1. walk.held /\ walk.left # {} /\ Entry \in Pids /\ proc[Entry].state # "none"
    BY <1>3, EntryIsAPid DEF IInv, PidfdHolds, WalkIsAt
  <2>2. \A p \in Pids : proc[p] \in Process
    BY DEF IInv, TypeOK
  <2>3. ASSUME NEW p \in Pids, Exit(p)
        PROVE  proc'[Entry] = proc[Entry]
    <3>1. p # Entry
      BY <2>1, <2>3 DEF Exit, Loses, IInv, TypeOK
    <3> QED  BY <2>1, <2>3, <3>1 DEF Exit, IInv, TypeOK
  <2>4. ASSUME NEW p \in Pids, Setsid(p)
        PROVE  proc'[Entry].state = proc[Entry].state /\ proc'[Entry].ever = proc[Entry].ever
    BY <2>1, <2>2, <2>4 DEF Setsid, IInv, TypeOK, Process
  <2>5. ASSUME NEW p \in Pids, NEW q \in Numbers, Fork(p, q)
        PROVE  proc'[Entry] = proc[Entry]
    BY <2>1, <2>5 DEF Fork, IInv, TypeOK
  <2>6. ASSUME NEW q \in Numbers, Stranger(q)
        PROVE  proc'[Entry] = proc[Entry]
    BY <2>1, <2>6 DEF Stranger, IInv, TypeOK
  <2> QED  BY <2>1, <2>3, <2>4, <2>5, <2>6 DEF Processes
<1>6. TypeOK'
  BY <1>1, <1>2, <1>3 DEF IInv, TypeOK, Carries
<1>7. WalkIsAt' /\ PidfdHolds' /\ PidfdIsOurs'
  BY <1>2, <1>3, <1>4, <1>5 DEF IInv, WalkIsAt, PidfdHolds, PidfdIsOurs, Signalling
<1>8. NoneBehind' /\ LateIsExpired' /\ NoneLeft'
  BY <1>1, <1>2, <1>3 DEF IInv, NoneBehind, LateIsExpired, NoneLeft, Probing, Budget, Carries
<1> QED  BY <1>1, <1>6, <1>7, <1>8 DEF IInv, Carries

-----------------------------------------------------------------------------
(* The theorems                                                             *)

(* The initial states satisfy the invariant.                                *)
LEMMA InitEstablishes == Init => IInv
<1> SUFFICES ASSUME Init PROVE IInv
  OBVIOUS
<1>1. /\ proc \in [Pids -> Process] /\ proc[Child].member
      /\ \A p \in Pids : proc[p].member \/ proc[p].grouped => proc[p].ever
  BY TerminateAssumption DEF Init
<1>2. {MaxArrivals, MaxFaults} \subseteq Nat
  BY TerminateAssumption
<1>3. TypeOK
  <2>1. walk \in [on : BOOLEAN, left : SUBSET Pids, empty : BOOLEAN,
                 at : {"entry", "pin", "confirm", "signal"}, held : BOOLEAN]
    BY DEF Init, Idle
  <2>2. arrivals \in 0 .. MaxArrivals /\ faults \in 0 .. MaxFaults
    BY <1>2 DEF Init
  <2> QED  BY <1>1, <2>1, <2>2 DEF Init, TypeOK
<1>4. KinAreOurs /\ ChildIsOurs
  BY <1>1 DEF KinAreOurs, ChildIsOurs, Pids
<1>5. WalkIsAt /\ PidfdHolds /\ PidfdIsOurs /\ NoneBehind /\ LateIsExpired /\ NoneLeft
  BY DEF Init, Idle, WalkIsAt, PidfdHolds, PidfdIsOurs, NoneBehind, LateIsExpired, NoneLeft
<1> QED  BY <1>3, <1>4, <1>5 DEF IInv

(* Every step keeps it, one case per group of actions.                      *)
LEMMA NextKeeps == IInv /\ [Next]_vars => IInv'
<1> SUFFICES ASSUME IInv, [Next]_vars PROVE IInv'
  OBVIOUS
<1>1. CASE Steps
  BY <1>1, WalkBeginsKeeps, WalkReadsKeeps, WalkPinsKeeps, WalkConfirmsKeeps, WalkSignalsKeeps,
     ProbeKeeps, SignalGroupKeeps, WalkDoneKeeps, GraceKeeps, KillProbeKeeps, LastKeeps
     DEF Steps
<1>2. CASE Faults
  BY <1>2, WalkIsRefusedKeeps, WalkCannotPinKeeps DEF Faults
<1>3. CASE Expire
  BY <1>3, ExpireKeeps
<1>4. CASE Processes
  BY <1>4, ProcessesKeep
<1>5. CASE UNCHANGED vars
  BY <1>5 DEF vars, IInv, TypeOK, KinAreOurs, ChildIsOurs, WalkIsAt, PidfdHolds, PidfdIsOurs,
              NoneBehind, LateIsExpired, NoneLeft, Signalling, Probing, Entry, In, Alive
<1> QED  BY <1>1, <1>2, <1>3, <1>4, <1>5 DEF Next

(* The invariant holds of every behaviour.                                  *)
THEOREM Invariance == Spec => []IInv
<1> QED  BY InitEstablishes, NextKeeps, PTL DEF Spec

(* Types are kept: the walk, the budgets and the processes stay what        *)
(* Pty::terminate and walk_session let them be.                             *)
THEOREM TypeCorrectness == Spec => []TypeOK
<1>1. IInv => TypeOK
  BY DEF IInv
<1> QED  BY <1>1, Invariance, PTL

(* No probe of terminate passes for empty while a member it began with is   *)
(* alive, neither one that was refused a line nor one cut short.            *)
THEOREM ForgetsNobody == Spec => []NobodyIsForgotten
<1>1. IInv => NobodyIsForgotten
  BY DEF IInv, NoneLeft, NobodyIsForgotten, Members, In
<1> QED  BY <1>1, Invariance, PTL

(* A step of terminate that is not a signal leaves every process alone but  *)
(* for what the walk was refused; a signal reaches only its targets, and    *)
(* they were of the session: the group's, the pidfd's, the child.           *)
LEMMA StrikesSpare ==
  ASSUME IInv, [Next]_vars, Strikes, NEW p \in Pids, ~proc[p].ever
  PROVE  proc'[p] = proc[p]
<1> USE DEF IInv
<1>1. CASE UNCHANGED proc
  BY <1>1
<1>2. CASE SignalGroup
  <2>1. p \notin Grouped
    BY DEF Grouped, KinAreOurs
  <2> QED  BY <1>2, <2>1, ReachCarries DEF SignalGroup
<1>3. CASE Last
  <2>1. p # Child
    BY DEF ChildIsOurs
  <2> QED  BY <1>3, <2>1, ReachCarries DEF Last
<1>4. CASE WalkSignals
  <2>1. p \notin Held
    BY <1>4 DEF WalkSignals, Held, PidfdIsOurs
  <2> QED  BY <1>4, <2>1, ReachCarries DEF WalkSignals
<1>5. CASE Faults
  BY <1>5 DEF Faults, WalkIsRefused, WalkCannotPin, Strikes
<1>6. CASE Processes
  <2>1. PICK q \in Pids : Exit(q) /\ walk' # walk /\ walk.at = "signal"
    BY <1>6 DEF Processes, Exit, Setsid, Fork, Stranger, Strikes
  <2>2. q = Entry /\ walk.held
    BY <2>1 DEF Exit, Loses, TypeOK
  <2>3. p # q
    BY <2>1, <2>2 DEF PidfdIsOurs
  <2> QED  BY <2>1, <2>3 DEF Exit, TypeOK
<1> QED
  BY <1>1, <1>2, <1>3, <1>4, <1>5, <1>6
  DEF Next, vars, Steps, Expire, WalkBegins, WalkReads, WalkPins, WalkConfirms, Probe, WalkDone,
      Grace, KillProbe

(* No signal reaches a process that never was of the session, however many  *)
(* numbers are reused between the walk's reads and its signal.              *)
THEOREM SparesStrangers == Spec => StrangersAreSpared
<1>1. IInv /\ [Next]_vars => [Strikes => \A p \in Pids : ~proc[p].ever => proc'[p] = proc[p]]_vars
  BY StrikesSpare
<1> QED  BY <1>1, Invariance, PTL DEF StrangersAreSpared, Spec

-----------------------------------------------------------------------------
(* Nobody dies unheard.  A member is owed a hearing if it handles SIGHUP,   *)
(* was there from the start and never withheld from a walk.  Behind the     *)
(* walk that hangs up, each has heard or has the signal pending; behind the *)
(* walk that wakes, each has heard -- unless their budget ran out.          *)

Owed(p) == In(p) /\ proc[p].way = "handles" /\ ~proc[p].born /\ ~proc[p].hidden

HangingUp == {"hupGroup", "contGroup", "hupWalk", "contWalk"}
HupIsTimed == late /\ pc \in HangingUp => "hup" \in expired

(* A number pinned is let go of only by the end of the process under it.    *)
HeldWhileOwed == walk.at \in {"confirm", "signal"} /\ Owed(Entry) => walk.held

Ahead(p) == ~walk.on \/ p \in walk.left
Hearing(p) ==
  /\ pc = "hupWalk" => proc[p].heard \/ proc[p].pending \/ Ahead(p)
  /\ pc = "contWalk" => proc[p].heard \/ (proc[p].pending /\ Ahead(p))
  /\ pc \in {"grace", "killGroup", "killWalk", "killProbe", "last", "done"} => proc[p].heard
OwedAreHeard == "hup" \notin expired => \A p \in Pids : Owed(p) => Hearing(p)

HInv == HupIsTimed /\ HeldWhileOwed /\ OwedAreHeard

(* Nobody comes to be owed a hearing, and none is taken back.               *)
StaysHeard(p) ==
  Owed(p)' => /\ Owed(p)
              /\ proc[p].heard => proc'[p].heard
              /\ proc[p].pending => proc'[p].pending \/ proc'[p].heard
AllStayHeard == \A p \in Pids : StaysHeard(p)

LEMMA SameStaysHeard ==
  ASSUME NEW p, proc'[p] = proc[p]
  PROVE  StaysHeard(p)
BY DEF StaysHeard, Owed, In, Alive

(* The hang-up is heard or pends; the waking brings what pends to be heard. *)
LEMMA SignalIsHeard ==
  ASSUME TypeOK, NEW p \in Pids, NEW signal, NEW T, Reach(T, signal)
  PROVE  /\ StaysHeard(p)
         /\ Owed(p)' /\ p \in T /\ signal = "HUP" => proc'[p].heard \/ proc'[p].pending
         /\ Owed(p)' /\ p \in T /\ signal = "CONT" /\ proc[p].pending => proc'[p].heard
<1>1. proc[p] \in Process /\ proc'[p] = IF p \in T THEN Signalled(p, signal) ELSE proc[p]
  BY DEF TypeOK, Reach
<1>2. CASE p \notin T \/ ~Alive(p)
  <2>1. proc'[p] = proc[p]
    BY <1>1, <1>2 DEF Signalled
  <2> QED  BY <1>2, <2>1, SameStaysHeard DEF Owed, In, Alive
<1>3. CASE p \in T /\ Alive(p)
  <2>1. CASE proc'[p] = Dead(p)
    <3>1. Dead(p).state \notin {"live", "stopped"}
      BY <1>1 DEF Dead, Free, Process
    <3> QED  BY <2>1, <3>1 DEF StaysHeard, Owed, In, Alive
  <2>2. CASE proc'[p] = Hears(p)
    <3>1. /\ Hears(p).heard /\ Hears(p).member = proc[p].member /\ Hears(p).way = proc[p].way
          /\ Hears(p).born = proc[p].born /\ Hears(p).hidden = proc[p].hidden
      BY <1>1 DEF Hears, Process
    <3> QED  BY <1>3, <2>2, <3>1 DEF StaysHeard, Owed, In
  <2>3. CASE signal = "HUP" /\ proc'[p] = [proc[p] EXCEPT !.pending = TRUE]
    BY <1>1, <1>3, <2>3 DEF StaysHeard, Owed, In, Process
  <2>4. CASE /\ signal = "CONT" /\ ~proc[p].pending
             /\ proc'[p] = [proc[p] EXCEPT !.state = "live"]
    BY <1>1, <1>3, <2>4 DEF StaysHeard, Owed, In, Process
  <2> QED  BY <1>1, <1>3, <2>1, <2>2, <2>3, <2>4 DEF Signalled, Hup, Cont
<1> QED  BY <1>2, <1>3

(* Neither the hang-up nor the waking ends a process that handles it.       *)
LEMMA HandlersOutliveTheHangup ==
  ASSUME TypeOK, NEW p \in Pids, NEW signal \in {"HUP", "CONT"}, NEW T, Reach(T, signal),
         proc[p].way = "handles"
  PROVE  ~Killed(p)
<1>1. proc[p] \in Process /\ proc'[p] = IF p \in T THEN Signalled(p, signal) ELSE proc[p]
  BY DEF TypeOK, Reach
<1>2. \/ proc'[p] = proc[p]
      \/ proc'[p] = Hears(p)
      \/ proc'[p] = [proc[p] EXCEPT !.pending = TRUE]
      \/ proc'[p] = [proc[p] EXCEPT !.state = "live"]
  BY <1>1 DEF Signalled, Hup, Cont
<1> QED  BY <1>1, <1>2 DEF Killed, Alive, Hears, Process

LEMMA HiddenStaysHeard ==
  ASSUME TypeOK, NEW q \in Pids, proc' = [proc EXCEPT ![q].hidden = TRUE]
  PROVE  AllStayHeard /\ ~Owed(q)'
<1>1. proc \in [Pids -> Process]
  BY DEF TypeOK
<1>2. proc'[q].hidden /\ \A p \in Pids : p # q => proc'[p] = proc[p]
  BY <1>1 DEF Process
<1>3. ~Owed(q)'
  BY <1>2 DEF Owed
<1>4. StaysHeard(q)
  BY <1>3 DEF StaysHeard
<1> QED  BY <1>2, <1>3, <1>4, SameStaysHeard DEF AllStayHeard

(* Whoever exits, leaves, is forked or is a stranger is owed nothing after. *)
LEMMA MovesStayHeard ==
  ASSUME TypeOK, Processes
  PROVE  AllStayHeard /\ \A p \in Pids : Exit(p) => ~Owed(p)'
<1>1. proc \in [Pids -> Process] /\ \A q \in Numbers : q \in Pids
  BY DEF TypeOK, Pids
<1>2. ASSUME NEW p \in Pids, Exit(p)
      PROVE  AllStayHeard /\ ~Owed(p)'
  <2>1. proc'[p] = Dead(p) /\ \A q \in Pids : q # p => proc'[q] = proc[q]
    BY <1>1, <1>2 DEF Exit
  <2>2. Dead(p).state \notin {"live", "stopped"}
    BY <1>1 DEF Dead, Free, Process
  <2>3. ~Owed(p)'
    BY <2>1, <2>2 DEF Owed, In, Alive
  <2> QED  BY <2>1, <2>3, SameStaysHeard DEF AllStayHeard, StaysHeard
<1>3. ASSUME NEW p \in Pids, Setsid(p)
      PROVE  AllStayHeard
  <2>1. ~proc'[p].member /\ \A q \in Pids : q # p => proc'[q] = proc[q]
    BY <1>1, <1>3 DEF Setsid, Process
  <2>2. ~Owed(p)'
    BY <2>1 DEF Owed, In
  <2> QED  BY <2>1, <2>2, SameStaysHeard DEF AllStayHeard, StaysHeard
<1>4. ASSUME NEW p \in Pids, NEW q \in Numbers, Fork(p, q)
      PROVE  AllStayHeard
  <2>1. proc[p] \in Process /\ q \in Pids
    BY <1>1
  <2>2. proc'[q].born /\ \A r \in Pids : r # q => proc'[r] = proc[r]
    BY <1>1, <1>4, <2>1 DEF Fork, Process
  <2>3. ~Owed(q)'
    BY <2>2 DEF Owed
  <2> QED  BY <2>2, <2>3, SameStaysHeard DEF AllStayHeard, StaysHeard
<1>5. ASSUME NEW q \in Numbers, Stranger(q)
      PROVE  AllStayHeard
  <2>1. ~proc'[q].member /\ \A r \in Pids : r # q => proc'[r] = proc[r]
    BY <1>1, <1>5 DEF Stranger, Proc, Free
  <2>2. ~Owed(q)'
    BY <2>1 DEF Owed, In
  <2> QED  BY <2>1, <2>2, SameStaysHeard DEF AllStayHeard, StaysHeard
<1>6. AllStayHeard
  BY <1>2, <1>3, <1>4, <1>5 DEF Processes
<1> QED  BY <1>2, <1>6

(* While a walk is on, whoever it has passed has been seen to.              *)
SeenTo(p) ==
  \/ Ahead(p)'
  \/ pc = "hupWalk" /\ (proc'[p].heard \/ proc'[p].pending)
  \/ pc = "contWalk" /\ (proc[p].pending => proc'[p].heard)
  \/ pc = "killWalk"

LEMMA WalkingOnKeepsHeard ==
  ASSUME OwedAreHeard, AllStayHeard, UNCHANGED <<pc, expired>>,
         \A p \in Pids : Owed(p)' /\ Signalling /\ Ahead(p) => SeenTo(p)
  PROVE  OwedAreHeard'
<1> SUFFICES ASSUME "hup" \notin expired, NEW p \in Pids, Owed(p)'
             PROVE  Hearing(p)'
  BY DEF OwedAreHeard
<1>1. /\ Hearing(p)
      /\ proc[p].heard => proc'[p].heard
      /\ proc[p].pending => proc'[p].pending \/ proc'[p].heard
  BY DEF OwedAreHeard, AllStayHeard, StaysHeard
<1>2. CASE ~Signalling
  BY <1>1, <1>2 DEF Hearing, Signalling
<1>3. CASE Signalling
  <2>1. Ahead(p) => SeenTo(p)
    BY <1>3
  <2> QED  BY <1>1, <2>1 DEF Hearing, SeenTo
<1> QED  BY <1>2, <1>3

(* A step to another place, the walk given up.                              *)
LEMMA GoToKeepsHeard ==
  ASSUME IInv, HInv, AllStayHeard, NEW place \in Places, GoTo(place), UNCHANGED expired,
         pc \in HangingUp \/ place \notin HangingUp \/ pc = "probe",
         "hup" \notin expired =>
           \A p \in Pids : Owed(p)' =>
             /\ place = "contWalk" => proc'[p].heard \/ proc'[p].pending
             /\ place \in {"grace", "killGroup", "killWalk", "killProbe", "last", "done"} =>
                  proc'[p].heard
  PROVE  HInv'
<1>1. walk' = Idle /\ pc' = place /\ late' = (late /\ ~Fresh(pc, place))
  BY DEF GoTo
<1>2. HeldWhileOwed'
  BY <1>1 DEF HeldWhileOwed, Idle
<1>3. HupIsTimed'
  BY <1>1 DEF HInv, HupIsTimed, HangingUp, Fresh, Budget
<1>4. \A p \in Pids : Ahead(p)'
  BY <1>1 DEF Ahead, Idle
<1>5. OwedAreHeard'
  BY <1>1, <1>4 DEF OwedAreHeard, Hearing
<1> QED  BY <1>2, <1>3, <1>5 DEF HInv

(* A walk that goes on, or that is not there, in its place.                 *)
LEMMA InPlaceKeepsHeard ==
  ASSUME HInv, AllStayHeard, UNCHANGED <<pc, late, expired>>,
         \A p \in Pids : Owed(p)' /\ Signalling /\ Ahead(p) => SeenTo(p),
         HeldWhileOwed'
  PROVE  HInv'
<1>1. OwedAreHeard'
  BY WalkingOnKeepsHeard DEF HInv
<1>2. HupIsTimed'
  BY DEF HInv, HupIsTimed
<1> QED  BY <1>1, <1>2 DEF HInv

(* The entry is passed, being owed nothing or having been seen to.          *)
LEMMA PassingKeepsHeard ==
  ASSUME TypeOK, HInv, AllStayHeard, Unpinned, UNCHANGED <<pc, late, expired>>,
         NEW e \in Pids, e = Entry, Owed(e)' /\ Signalling => SeenTo(e)
  PROVE  HInv'
<1>1. walk'.left = walk.left \ {e} /\ walk'.at = "entry" /\ walk'.on = walk.on
  BY DEF Unpinned, Passed, TypeOK
<1>2. ASSUME NEW p \in Pids, Owed(p)', Signalling, Ahead(p)
      PROVE  SeenTo(p)
  <2>1. CASE p = e
    BY <1>2, <2>1
  <2>2. CASE p # e
    BY <1>1, <1>2, <2>2 DEF Ahead, SeenTo
  <2> QED  BY <2>1, <2>2
<1>3. HeldWhileOwed'
  BY <1>1 DEF HeldWhileOwed
<1> QED  BY <1>2, <1>3, InPlaceKeepsHeard

LEMMA SameStay ==
  ASSUME UNCHANGED proc
  PROVE  AllStayHeard
BY SameStaysHeard DEF AllStayHeard

(* A walk that reads on sees to nobody, and passes only who is owed nothing. *)
LEMMA WalkKeepsHeard ==
  ASSUME IInv, HInv, WalkBegins \/ WalkReads \/ WalkPins \/ WalkConfirms
  PROVE  HInv'
<1>1. TypeOK /\ AllStayHeard /\ UNCHANGED <<proc, pc, late, expired>>
  BY SameStay DEF IInv, WalkBegins, WalkReads, WalkPins, WalkConfirms
<1>2. \A p \in Pids : Owed(p)' <=> Owed(p)
  BY <1>1 DEF Owed, In, Alive
<1>3. CASE WalkBegins
  <2>1. walk'.on /\ walk'.at = "entry" /\ walk'.left = {p \in Pids : proc[p].state # "none"}
    BY <1>3 DEF WalkBegins, Idle
  <2>2. \A p \in Pids : Owed(p)' => Ahead(p)'
    BY <1>2, <2>1 DEF Owed, In, Alive, Ahead
  <2>3. HeldWhileOwed'
    BY <2>1 DEF HeldWhileOwed
  <2> QED  BY <1>1, <2>2, <2>3, InPlaceKeepsHeard DEF SeenTo
<1>4. CASE ~WalkBegins
  <2>1. walk.left # {}
    BY <1>4 DEF IInv, WalkIsAt, WalkReads, WalkPins, WalkConfirms
  <2>2. PICK e \in Pids : e = Entry
    BY <1>1, <2>1, EntryIsAPid
  <2>3. CASE Unpinned /\ ~In(e)
    BY <1>1, <1>2, <2>2, <2>3, PassingKeepsHeard DEF Owed
  <2>4. CASE \E at \in {"pin", "confirm", "signal"} :
               /\ walk'.left = walk.left /\ walk'.on = walk.on /\ walk'.at = at
               /\ at = "confirm" => walk'.held
               /\ at = "signal" => walk.at = "confirm" /\ walk'.held = walk.held
    <3>1. Entry' = Entry
      BY <2>4 DEF Entry
    <3>2. HeldWhileOwed'
      BY <1>2, <2>2, <2>4, <3>1 DEF HInv, HeldWhileOwed
    <3>3. \A p \in Pids : Ahead(p) => Ahead(p)'
      BY <2>4 DEF Ahead
    <3> QED  BY <1>1, <3>2, <3>3, InPlaceKeepsHeard DEF SeenTo
  <2>5. CASE ~Signalling /\ walk'.at = "entry"
    BY <1>1, <2>5, InPlaceKeepsHeard DEF HeldWhileOwed
  <2>6. CASE WalkReads
    <3>1. CASE ~In(e)
      BY <2>2, <2>3, <2>6, <3>1 DEF WalkReads
    <3>2. CASE In(e) /\ Signalling
      BY <1>1, <2>2, <2>4, <2>6, <3>2 DEF WalkReads, TypeOK
    <3>3. CASE In(e) /\ ~Signalling
      BY <1>1, <2>2, <2>5, <2>6, <3>3 DEF WalkReads, TypeOK
    <3> QED  BY <3>1, <3>2, <3>3
  <2>7. CASE WalkPins
    <3>1. CASE proc[e].state = "none"
      BY <2>2, <2>3, <2>7, <3>1 DEF WalkPins, In, Alive
    <3>2. CASE proc[e].state # "none"
      BY <1>1, <2>2, <2>4, <2>7, <3>2 DEF WalkPins, PinAt, TypeOK
    <3> QED  BY <3>1, <3>2
  <2>8. CASE WalkConfirms
    <3>1. CASE ~In(e)
      BY <2>2, <2>3, <2>8, <3>1 DEF WalkConfirms
    <3>2. CASE In(e)
      BY <1>1, <2>2, <2>4, <2>8, <3>2 DEF WalkConfirms, TypeOK
    <3> QED  BY <3>1, <3>2
  <2> QED  BY <1>4, <2>6, <2>7, <2>8
<1> QED  BY <1>3, <1>4

(* An entry withheld from the walk is owed nothing from then on.            *)
LEMMA FaultsKeepHeard ==
  ASSUME IInv, HInv, Faults
  PROVE  HInv'
<1>1. TypeOK /\ UNCHANGED <<pc, late, expired>> /\ walk.left # {}
  BY DEF IInv, WalkIsAt, Faults, WalkIsRefused, WalkCannotPin
<1>2. PICK e \in Pids : e = Entry
  BY <1>1, EntryIsAPid
<1>3. proc' = [proc EXCEPT ![e].hidden = TRUE]
  BY <1>2 DEF Faults, WalkIsRefused, WalkCannotPin
<1>4. AllStayHeard /\ ~Owed(e)'
  BY <1>1, <1>3, HiddenStaysHeard
<1>5. CASE Unpinned
  BY <1>1, <1>2, <1>4, <1>5, PassingKeepsHeard
<1>6. CASE walk' = Unseen(walk)
  <2>1. walk'.left = walk.left \ {e} /\ walk'.at = "entry" /\ walk'.on = walk.on
    BY <1>1, <1>2, <1>6 DEF Unseen, Passed, TypeOK
  <2>2. \A p \in Pids : Owed(p)' /\ Ahead(p) => Ahead(p)'
    BY <1>4, <2>1 DEF Ahead
  <2>3. HeldWhileOwed'
    BY <2>1 DEF HeldWhileOwed
  <2> QED  BY <1>1, <1>4, <2>2, <2>3, InPlaceKeepsHeard DEF SeenTo
<1> QED  BY <1>5, <1>6 DEF Faults, WalkIsRefused, WalkCannotPin

(* The signal of a walk sees to the entry it is for.                        *)
LEMMA WalkSignalsKeepsHeard ==
  ASSUME IInv, HInv, WalkSignals
  PROVE  HInv'
<1>1. /\ TypeOK /\ UNCHANGED <<pc, late, expired>> /\ walk.left # {} /\ Unpinned
      /\ Reach(Held, SignalOf)
  BY DEF IInv, WalkIsAt, WalkSignals
<1>2. PICK e \in Pids : e = Entry
  BY <1>1, EntryIsAPid
<1>3. AllStayHeard
  BY <1>1, SignalIsHeard DEF AllStayHeard
<1>4. ASSUME Owed(e)', Signalling
      PROVE  SeenTo(e)
  <2>1. Owed(e)
    BY <1>3, <1>4 DEF AllStayHeard, StaysHeard
  <2>2. e \in Held
    BY <1>2, <2>1 DEF HInv, HeldWhileOwed, WalkSignals, Held
  <2>3. CASE pc = "hupWalk"
    <3>1. SignalOf = "HUP"
      BY <2>3 DEF SignalOf
    <3> QED  BY <1>1, <1>4, <2>2, <2>3, <3>1, SignalIsHeard DEF SeenTo
  <2>4. CASE pc = "contWalk"
    <3>1. SignalOf = "CONT"
      BY <2>4 DEF SignalOf
    <3> QED  BY <1>1, <1>4, <2>2, <2>4, <3>1, SignalIsHeard DEF SeenTo
  <2> QED  BY <1>4, <2>3, <2>4 DEF Signalling, SeenTo
<1> QED  BY <1>1, <1>2, <1>3, <1>4, PassingKeepsHeard

(* Where a walk is over before its budget, nobody is left ahead of it.      *)
LEMMA OverIsOver ==
  ASSUME HInv, WalkOver, pc \in {"hupWalk", "contWalk"}, "hup" \notin expired
  PROVE  \A p \in Pids : ~Ahead(p)
BY DEF HInv, HupIsTimed, HangingUp, WalkOver, Ahead

(* The steps of terminate from place to place.                              *)
LEMMA PlacesKeepHeard ==
  ASSUME IInv, HInv, Probe \/ SignalGroup \/ WalkDone \/ Grace \/ KillProbe \/ Last
  PROVE  HInv'
<1>1. TypeOK /\ UNCHANGED expired
  BY DEF IInv, Probe, SignalGroup, WalkDone, Grace, KillProbe, Last
<1>2. AllStayHeard
  <2>1. CASE UNCHANGED proc
    BY <2>1, SameStay
  <2>2. CASE SignalGroup \/ Last
    BY <1>1, <2>2, SignalIsHeard DEF SignalGroup, Last, AllStayHeard
  <2> QED  BY <2>1, <2>2 DEF Probe, WalkDone, Grace, KillProbe
<1>3. \A p \in Pids : "hup" \notin expired /\ Owed(p)' =>
        /\ Owed(p) /\ Hearing(p)
        /\ proc[p].heard => proc'[p].heard
        /\ proc[p].pending => proc'[p].pending \/ proc'[p].heard
  BY <1>2 DEF HInv, OwedAreHeard, AllStayHeard, StaysHeard
<1>4. CASE Probe
  <2>1. CASE FoundEmpty
    <3>1. \A p \in Pids : In(p) => proc[p].born
      BY <1>4, <2>1, FoundEmptyIsTrue DEF Probe, Probing
    <3>2. "hup" \notin expired => \A p \in Pids : ~Owed(p)'
      BY <1>3, <3>1 DEF Owed
    <3> QED  BY <1>1, <1>2, <1>4, <2>1, <3>2, GoToKeepsHeard DEF Probe, Places, HangingUp
  <2>2. CASE ~FoundEmpty
    <3>1. GoTo("hupGroup") /\ pc = "probe"
      BY <1>4, <2>2 DEF Probe
    <3> QED  BY <1>1, <1>2, <3>1, GoToKeepsHeard DEF Places
  <2> QED  BY <2>1, <2>2
<1>5. CASE SignalGroup
  <2>1. CASE pc = "killGroup"
    <3>1. GoTo("killWalk")
      BY <1>5, <2>1 DEF SignalGroup
    <3>2. \A p \in Pids : "hup" \notin expired /\ Owed(p)' => proc'[p].heard
      BY <1>3, <2>1 DEF Hearing
    <3> QED  BY <1>1, <1>2, <3>1, <3>2, GoToKeepsHeard DEF Places, HangingUp
  <2>2. CASE pc # "killGroup"
    <3>1. PICK place \in {"contGroup", "hupWalk"} : GoTo(place)
      BY <1>5, <2>2 DEF SignalGroup
    <3>2. pc \in HangingUp
      BY <1>5, <2>2 DEF SignalGroup, HangingUp
    <3> QED  BY <1>1, <1>2, <3>1, <3>2, GoToKeepsHeard DEF Places
  <2> QED  BY <2>1, <2>2
<1>6. CASE WalkDone
  <2>1. CASE pc = "hupWalk"
    <3>1. GoTo("contWalk") /\ WalkOver
      BY <1>6, <2>1 DEF WalkDone, AfterHup
    <3>2. \A p \in Pids : "hup" \notin expired /\ Owed(p)' => proc'[p].heard \/ proc'[p].pending
      BY <1>3, <2>1, <3>1, OverIsOver DEF Hearing
    <3> QED  BY <1>1, <1>2, <2>1, <3>1, <3>2, GoToKeepsHeard DEF Places, HangingUp
  <2>2. CASE pc = "contWalk"
    <3>1. GoTo("grace") /\ WalkOver
      BY <1>6, <2>2 DEF WalkDone
    <3>2. \A p \in Pids : "hup" \notin expired /\ Owed(p)' => proc'[p].heard
      BY <1>3, <2>2, <3>1, OverIsOver DEF Hearing
    <3> QED  BY <1>1, <1>2, <2>2, <3>1, <3>2, GoToKeepsHeard DEF Places, HangingUp
  <2>3. CASE pc = "killWalk"
    <3>1. GoTo("killProbe")
      BY <1>6, <2>3 DEF WalkDone
    <3>2. \A p \in Pids : "hup" \notin expired /\ Owed(p)' => proc'[p].heard
      BY <1>3, <2>3 DEF Hearing
    <3> QED  BY <1>1, <1>2, <3>1, <3>2, GoToKeepsHeard DEF Places, HangingUp
  <2> QED  BY <1>6, <2>1, <2>2, <2>3 DEF WalkDone, Signalling
<1>7. CASE Grace \/ KillProbe \/ Last
  <2>1. PICK place \in {"last", "grace", "killGroup", "killWalk", "done"} : GoTo(place)
    BY <1>7 DEF Grace, KillProbe, Last
  <2>2. \A p \in Pids : "hup" \notin expired /\ Owed(p)' => proc'[p].heard
    BY <1>3, <1>7 DEF Hearing, Grace, KillProbe, Last
  <2> QED  BY <1>1, <1>2, <2>1, <2>2, GoToKeepsHeard DEF Places, HangingUp
<1> QED  BY <1>4, <1>5, <1>6, <1>7

(* A budget that runs out on the walks that hang up and wake is noted.      *)
LEMMA ExpireKeepsHeard ==
  ASSUME HInv, Expire
  PROVE  HInv'
<1>1. /\ UNCHANGED <<proc, pc, walk>>
      /\ expired' = expired \cup ({Budget(pc)} \cap Curtailed)
  BY DEF Expire
<1>2. HupIsTimed'
  BY <1>1 DEF HupIsTimed, HangingUp, Budget, Curtailed
<1>3. HeldWhileOwed' /\ OwedAreHeard'
  BY <1>1 DEF HInv, HeldWhileOwed, OwedAreHeard, Owed, Hearing, Ahead, Entry, In, Alive
<1> QED  BY <1>2, <1>3 DEF HInv

(* The processes' own moves let go of no pidfd but an ended one's.          *)
LEMMA ProcessesKeepHeard ==
  ASSUME IInv, HInv, Processes
  PROVE  HInv'
<1>1. /\ TypeOK /\ UNCHANGED <<pc, late, expired>> /\ AllStayHeard
      /\ \A p \in Pids : Exit(p) => ~Owed(p)'
  BY MovesStayHeard DEF IInv, Processes, Exit, Setsid, Fork, Stranger
<1>2. walk'.on = walk.on /\ walk'.left = walk.left /\ walk'.at = walk.at
  BY <1>1 DEF Processes, Exit, Loses, Setsid, Fork, Stranger, TypeOK
<1>3. Entry' = Entry
  BY <1>2 DEF Entry
<1>4. HeldWhileOwed'
  <2> SUFFICES ASSUME walk.at \in {"confirm", "signal"}, NEW e \in Pids, e = Entry, Owed(e)'
               PROVE  walk'.held
    <3>1. walk.at \in {"confirm", "signal"} => Entry \in Pids
      BY <1>1, EntryIsAPid DEF IInv, WalkIsAt
    <3> QED  BY <1>2, <1>3, <3>1 DEF HeldWhileOwed
  <2>1. walk.held
    BY <1>1 DEF AllStayHeard, StaysHeard, HInv, HeldWhileOwed
  <2>2. ASSUME NEW p \in Pids, Exit(p)
        PROVE  walk'.held
    <3>1. p # e
      BY <1>1, <2>2
    <3> QED  BY <2>1, <2>2, <3>1 DEF Exit, Loses
  <2> QED  BY <2>1, <2>2 DEF Processes, Setsid, Fork, Stranger
<1>5. \A p \in Pids : Ahead(p) => Ahead(p)'
  BY <1>2 DEF Ahead
<1> QED  BY <1>1, <1>4, <1>5, InPlaceKeepsHeard DEF SeenTo

LEMMA NextKeepsHeard == IInv /\ HInv /\ [Next]_vars => HInv'
<1> SUFFICES ASSUME IInv, HInv, [Next]_vars PROVE HInv'
  OBVIOUS
<1>1. CASE Steps
  BY <1>1, WalkKeepsHeard, WalkSignalsKeepsHeard, PlacesKeepHeard DEF Steps
<1>2. CASE UNCHANGED vars
  BY <1>2 DEF vars, HInv, HupIsTimed, HeldWhileOwed, OwedAreHeard, Owed, Hearing, Ahead, Entry,
              In, Alive
<1> QED  BY <1>1, <1>2, FaultsKeepHeard, ExpireKeepsHeard, ProcessesKeepHeard DEF Next

LEMMA InitIsHeard == Init => HInv
BY DEF Init, Idle, HInv, HupIsTimed, HeldWhileOwed, OwedAreHeard, Hearing, HangingUp

(* Only terminate's KILL ends a member that handles its hang-up, and that   *)
(* comes behind the walks.                                                  *)
LEMMA StrikesAreHeard ==
  ASSUME IInv, HInv, [Next]_vars, Strikes, NEW p \in Members, Killed(p),
         proc[p].way = "handles"
  PROVE  proc[p].heard \/ Excused(p)
<1>1. TypeOK /\ p \in Pids /\ In(p)
  BY DEF IInv, Members, In
<1> SUFFICES ASSUME ~Excused(p)
             PROVE  proc[p].heard
  OBVIOUS
<1>2. Hearing(p)
  BY <1>1 DEF HInv, OwedAreHeard, Owed, Excused
<1>3. CASE proc'[p].state = proc[p].state
  BY <1>3 DEF Killed, Alive
<1>4. CASE SignalGroup \/ WalkSignals
  <2>1. CASE SignalOf \in {"HUP", "CONT"}
    BY <1>1, <1>4, <2>1, HandlersOutliveTheHangup DEF SignalGroup, WalkSignals
  <2>2. CASE SignalOf \notin {"HUP", "CONT"}
    <3>1. pc \in {"killGroup", "killWalk"}
      <4>1. pc \in {"hupGroup", "contGroup", "hupWalk", "contWalk", "killGroup", "killWalk"}
        BY <1>4 DEF SignalGroup, WalkSignals, IInv, WalkIsAt, Signalling
      <4> QED  BY <2>2, <4>1 DEF SignalOf
    <3> QED  BY <1>2, <3>1 DEF Hearing
  <2> QED  BY <2>1, <2>2
<1>5. CASE Last
  BY <1>2, <1>5 DEF Last, Hearing
<1>6. CASE Faults
  BY <1>1, <1>3, <1>6, EntryIsAPid, HiddenCarries DEF Faults, WalkIsRefused, WalkCannotPin, Strikes
<1>7. CASE Processes
  <2>1. pc' = pc /\ walk'.at = walk.at
    BY <1>1, <1>7 DEF Processes, Exit, Loses, Setsid, Fork, Stranger, TypeOK
  <2> QED  BY <2>1 DEF Strikes
<1>8. CASE UNCHANGED proc
  BY <1>3, <1>8
<1> QED
  BY <1>4, <1>5, <1>6, <1>7, <1>8
  DEF Next, vars, Steps, Expire, WalkBegins, WalkReads, WalkPins, WalkConfirms, Probe, WalkDone,
      Grace, KillProbe

(* A member that would handle its hang-up is killed only once it could,     *)
(* stopped or not, whoever exits, forks, leaves or takes a number meanwhile *)
(* (Pty::terminate's two walks, SIGCONT behind SIGHUP).                     *)
THEOREM KillsNobodyUnheard == Spec => NobodyDiesUnheard
<1>1. /\ IInv /\ HInv /\ [Next]_vars =>
           [Strikes => \A p \in Members :
              Killed(p) /\ proc[p].way = "handles" => proc[p].heard \/ Excused(p)]_vars
  BY StrikesAreHeard
<1> QED  BY <1>1, InitIsHeard, NextKeepsHeard, Invariance, PTL DEF NobodyDiesUnheard, Spec

=============================================================================
