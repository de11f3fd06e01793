---------------------------- MODULE LaunchProofs ----------------------------
(***************************************************************************)
(* Proofs about the start of a child, for any caller, any descriptors it   *)
(* has open and any environment: the verdict is true, the caller keeps     *)
(* nothing, and the program has what it was to have and nothing else.      *)
(***************************************************************************)
EXTENDS Launch, FiniteSetTheorems, FunctionTheorems, SequenceTheorems, WellFoundedInduction, TLAPS

-----------------------------------------------------------------------------
(* The inductive invariant *)

Raising == {"pipe", "bound", "failure", "fork"}
Steps == {"open1", "open2", "open3", "raise1", "raise2", "raise3", "release", "read", "verdict",
          "await", "returned"} \cup Raising
Forked == {"release", "read", "verdict", "await"}
Became == {"program", "detaching", "serving"}
Exited == {"zombie", "reaped"}

TypeOK ==
  /\ caller \in Callers /\ program \in Environments /\ DOMAIN tab = {"parent", "child"}
  /\ pc \in Steps /\ result \in {"running", "ok", "error", "timed out"}
  /\ raw \in {"none", "errno"} /\ pipe \in {"none", "errno"} /\ fork \in {"none", "serving"}
  /\ child \in {"none"} \cup Preparing \cup Became \cup Exited

(* The parent's table is its caller's, with what spawn opened in free slots *)
(* until it returns.                                                        *)
Result == CASE caller.who = "pty" -> {"master"} [] caller.who = "relay" -> {"complaint"}
            [] OTHER -> {}
Left == IF pc = "returned" THEN (IF result = "ok" /\ caller.who = "pty" THEN {"master"} ELSE {})
        ELSE IF pc = "await" THEN {"complaint"} ELSE Locals \cup Result
IsSlot(s) == DOMAIN s = {"file", "cloexec", "by"}
Marked(f, s) ==
  /\ IsSlot(s) /\ s.cloexec = TRUE
  /\ s.by = "raised1" => f > STDERR_FILENO /\ s.file = caller.stdio[1]
  /\ s.by = "raised2" => f > STDERR_FILENO /\ s.file = caller.stdio[2]
  /\ s.by = "raised3" => f > STDERR_FILENO /\ s.file = caller.stdio[3]
  /\ s.by = "failure" => f > STDERR_FILENO /\ s.file = "reportW"
Holds(t, owners) ==
  /\ DOMAIN t = Fds
  /\ \A f \in Fds : \/ t[f] = caller.table[f]
                    \/ caller.table[f] = Closed /\ t[f].by \in owners /\ Marked(f, t[f])
Has(t, by) == \E f \in Fds : t[f].by = by
ParentIsHeld ==
  /\ Holds(tab.parent, Left)
  /\ pc \in {"raise2", "raise3"} \cup Raising => Has(tab.parent, "raised1")
  /\ pc \in {"raise3"} \cup Raising => Has(tab.parent, "raised2")
  /\ pc \in Raising => Has(tab.parent, "raised3")
  /\ pc = "fork" => Has(tab.parent, "failure")

(* The child has what the parent raised for it, above what it places.       *)
Stands(i) == tab.child[i - 1].file = caller.stdio[i] /\ tab.child[i - 1].cloexec = FALSE
HasTheLock == \E f \in Fds : f > STDERR_FILENO /\ tab.child[f].file = "lock"
ChildIsReady ==
  child \in Preparing =>
    /\ \A i \in 1 .. 3 : /\ ready.stdio[i] \in Fds /\ ready.stdio[i] > STDERR_FILENO
                         /\ tab.child[ready.stdio[i]].file = caller.stdio[i]
    /\ ready.fail \in Fds /\ ready.fail > STDERR_FILENO /\ tab.child[ready.fail].file = "reportW"
    /\ caller.who = "pty" =>
         \A f \in Fds : f > STDERR_FILENO => tab.child[f] = Closed \/ tab.child[f].cloexec = TRUE
    /\ caller.who = "relay" =>
         \E f \in Fds : /\ f > STDERR_FILENO /\ tab.child[f].file = "lock"
                        /\ child \in {"setup", "report"} \/ tab.child[f].cloexec = FALSE
ChildIsPlaced ==
  /\ child \in {"place2", "place3", "chdir", "exec"} => Stands(1)
  /\ child \in {"place3", "chdir", "exec"} => Stands(2)
  /\ child \in {"chdir", "exec"} => Stands(3)
ChildIsEquipped ==
  /\ child \in Became => \A i \in 1 .. 3 : tab.child[i - 1].file = caller.stdio[i]
  /\ child = "program" /\ caller.who = "pty" => Beyond = {}
  /\ child = "program" /\ caller.who = "relay" => HasTheLock
  /\ child \in {"detaching", "serving"} \/ fork = "serving" => Beyond = {"lock"}
TableIsWhole == DOMAIN tab.child = Fds /\ \A f \in Fds : IsSlot(tab.child[f])

(* What the parent has read and told, and how far the child is.             *)
ParentIsInStep ==
  /\ result = "running" <=> pc # "returned"
  /\ pc = "await" => caller.who = "relay"
  /\ pc \in Forked => child # "none"
  /\ pc \notin Forked \cup {"returned"} => child = "none"
ChildIsInStep ==
  /\ child \in {"none"} \cup Preparing => envp = <<>> /\ pipe = "none"
  /\ child \in Became => envp # <<>>
  /\ child \in Exited => envp # <<>> \/ pipe # "none" \/ faults # {}
  /\ pipe # "none" => envp = <<>>
  /\ child \in {"detaching", "serving"} \/ fork = "serving" => caller.who = "relay"
  /\ fork = "serving" => child \in Exited
  /\ envp # <<>> => envp = Environment(program)
ReadIsTrue ==
  /\ raw # "none" => pipe # "none"
  /\ pc \in {"verdict", "await"} /\ raw = "none" => envp # <<>> \/ faults # {}
  /\ pc = "await" => raw = "none"

ChildIsWell == TableIsWhole /\ ChildIsReady /\ ChildIsPlaced /\ ChildIsEquipped
IInv ==
  /\ TypeOK /\ ParentIsHeld /\ ChildIsWell
  /\ ParentIsInStep /\ ChildIsInStep /\ ReadIsTrue /\ VerdictIsTrue

-----------------------------------------------------------------------------
(* Lemmas about descriptor tables                                           *)

(* The least of some numbers is one of them, and below none.                *)
LEMMA LeastIsIn ==
  ASSUME NEW S \in SUBSET Nat, S # {}
  PROVE  Least(S) \in S /\ \A g \in S : Least(S) <= g
<1> DEFINE Less == {ss \in Nat \X Nat : ss[1] < ss[2]}
<1>1. IsWellFoundedOn(Less, Nat)
  BY NatLessThanWellFounded DEF OpToRel
<1> HIDE DEF Less
<1>2. PICK x \in S : \A y \in S : <<y, x>> \notin Less
  BY <1>1, WFMin
<1>3. \A y \in S : x <= y
  <2> TAKE y \in S
  <2>1. ~(y < x)
    BY <1>2 DEF Less
  <2> QED  BY <2>1
<1> QED  BY <1>3 DEF Least

(* Descriptors are numbers; the standard ones are among them.               *)
LEMMA FdsAreNumbers == Fds \subseteq Nat /\ {0, 1, 2} \subseteq Fds
BY LaunchAssumption DEF Fds, STDERR_FILENO

(* A caller's descriptors are its own.                                      *)
LEMMA CallersOwn ==
  ASSUME caller \in Callers, NEW f \in Fds
  PROVE  /\ DOMAIN caller.table = Fds
         /\ caller.table[f].by \in {"nobody", "before"}
         /\ caller.table[f] # Closed => caller.table[f].by = "before"
         /\ IsSlot(caller.table[f])
<1>1. caller.table \in [Fds -> {Closed} \cup {Slot(caller.table[g].file, b, "before") :
                                                g \in Fds, b \in BOOLEAN}]
  BY LaunchAssumption
<1>2. caller.table[f] \in {Closed} \cup {Slot(caller.table[g].file, b, "before") :
                                                g \in Fds, b \in BOOLEAN}
  BY <1>1
<1>3. CASE caller.table[f] = Closed
  BY <1>1, <1>3 DEF Closed, IsSlot
<1>4. CASE caller.table[f] # Closed
  <2>1. PICK g \in Fds, b \in BOOLEAN : caller.table[f] = Slot(caller.table[g].file, b, "before")
    BY <1>2, <1>4
  <2>2. caller.table[f].by = "before" /\ IsSlot(caller.table[f])
    BY <2>1 DEF Slot, IsSlot
  <2> QED  BY <1>1, <2>2
<1> QED  BY <1>3, <1>4

(* What is opened goes into a free slot; nothing else is touched.           *)
LEMMA OpenedIn ==
  ASSUME NEW t, NEW least, NEW file, NEW by, DOMAIN t = Fds, Free(t, least) # {}
  PROVE  \E fd \in Fds :
           /\ fd >= least /\ t[fd] = Closed
           /\ DOMAIN Opened(t, least, file, by) = Fds
           /\ Opened(t, least, file, by)[fd] = Slot(file, TRUE, by)
           /\ \A f \in Fds \ {fd} : Opened(t, least, file, by)[f] = t[f]
<1> DEFINE fd == Least(Free(t, least))
<1>1. fd \in Free(t, least)
  BY FdsAreNumbers, LeastIsIn DEF Free
<1>2. fd \in Fds /\ fd >= least /\ t[fd] = Closed
  BY <1>1 DEF Free
<1> QED  BY <1>2 DEF Opened

(* A table still holds with one more slot of spawn's in it.                 *)
LEMMA OpeningHolds ==
  ASSUME NEW t, NEW owners, Holds(t, owners), NEW least, Free(t, least) # {}, NEW file,
         NEW by \in owners, by # "nobody",
         \A f \in Fds : f >= least => Marked(f, Slot(file, TRUE, by))
  PROVE  LET u == Opened(t, least, file, by) IN
           /\ Holds(u, owners) /\ Has(u, by)
           /\ \A b : b # "nobody" /\ Has(t, b) => Has(u, b)
<1> DEFINE u == Opened(t, least, file, by)
<1>0. DOMAIN t = Fds
  BY DEF Holds
<1>1. PICK fd \in Fds :
        /\ fd >= least /\ t[fd] = Closed /\ DOMAIN u = Fds
        /\ u[fd] = Slot(file, TRUE, by) /\ \A f \in Fds \ {fd} : u[f] = t[f]
  BY <1>0, OpenedIn DEF Slot
<1> HIDE DEF u
<1>2. caller.table[fd] = Closed
  BY <1>1 DEF Holds
<1>3. u[fd].by = by
  BY <1>1 DEF Slot
<1>4. Holds(u, owners)
  <2> SUFFICES ASSUME NEW f \in Fds
               PROVE  \/ u[f] = caller.table[f]
                      \/ caller.table[f] = Closed /\ u[f].by \in owners /\ Marked(f, u[f])
    BY <1>1 DEF Holds
  <2>1. CASE f = fd
    BY <1>1, <1>2, <1>3, <2>1
  <2>2. CASE f # fd
    BY <1>1, <2>2 DEF Holds
  <2> QED  BY <2>1, <2>2
<1>5. Has(u, by)
  BY <1>3 DEF Has
<1>6. ASSUME NEW b, b # "nobody", Has(t, b)
      PROVE  Has(u, b)
  <2>1. PICK f \in Fds : t[f].by = b
    BY <1>6 DEF Has
  <2>2. f # fd
    BY <1>1, <1>6, <2>1 DEF Closed
  <2> QED  BY <1>1, <2>1, <2>2 DEF Has
<1> QED  BY <1>4, <1>5, <1>6 DEF u

(* What is dropped was spawn's, and leaves the slots of its caller.         *)
LEMMA DroppingHolds ==
  ASSUME caller \in Callers, NEW t, NEW owners, Holds(t, owners),
         NEW closing, "before" \notin closing, "nobody" \notin closing,
         NEW rest, owners \subseteq closing \cup rest
  PROVE  LET u == Drop(t, closing) IN
           /\ Holds(u, rest)
           /\ \A b : b \notin closing /\ Has(t, b) => Has(u, b)
<1> DEFINE u == Drop(t, closing)
<1>1. DOMAIN u = Fds /\ \A f \in Fds : u[f] = IF t[f].by \in closing THEN Closed ELSE t[f]
  BY DEF Drop
<1> HIDE DEF u
<1>2. Holds(u, rest)
  <2> SUFFICES ASSUME NEW f \in Fds
               PROVE  \/ u[f] = caller.table[f]
                      \/ caller.table[f] = Closed /\ u[f].by \in rest /\ Marked(f, u[f])
    BY <1>1 DEF Holds
  <2>1. CASE t[f] = caller.table[f]
    <3>1. t[f].by \notin closing
      BY <2>1, CallersOwn
    <3> QED  BY <1>1, <2>1, <3>1
  <2>2. CASE caller.table[f] = Closed /\ t[f].by \in owners /\ Marked(f, t[f])
    <3>1. CASE t[f].by \in closing
      BY <1>1, <2>2, <3>1
    <3>2. CASE t[f].by \notin closing
      BY <1>1, <2>2, <3>2
    <3> QED  BY <3>1, <3>2
  <2> QED  BY <2>1, <2>2 DEF Holds
<1>3. ASSUME NEW b, b \notin closing, Has(t, b)
      PROVE  Has(u, b)
  BY <1>1, <1>3 DEF Has
<1> QED  BY <1>2, <1>3 DEF u

-----------------------------------------------------------------------------
(* Lemmas about the environment                                             *)

(* Ranks number the members of a set in their order.                        *)
Rank(S, n) == Cardinality({m \in S : m <= n})

(* A rank is a number up to how many there are, and they follow the order.  *)
LEMMA RankIs ==
  ASSUME NEW l \in Nat, NEW S \in SUBSET (1 .. l)
  PROVE  /\ IsFiniteSet(S) /\ Cardinality(S) \in Nat
         /\ \A n \in S : Rank(S, n) \in 1 .. Cardinality(S)
         /\ \A m, n \in S : m < n => Rank(S, m) < Rank(S, n)
<1>1. IsFiniteSet(1 .. l)
  BY FS_Interval
<1>2. IsFiniteSet(S) /\ Cardinality(S) \in Nat
  BY <1>1, FS_Subset, FS_CardinalityType
<1>3. ASSUME NEW n \in S
      PROVE  Rank(S, n) \in 1 .. Cardinality(S)
  <2> DEFINE U == {k \in S : k <= n}
  <2>1. U \in SUBSET S /\ n \in U
    OBVIOUS
  <2> HIDE DEF U
  <2>2. IsFiniteSet(U) /\ Cardinality(U) <= Cardinality(S)
    BY <1>2, <2>1, FS_Subset
  <2>3. Cardinality(U) \in Nat /\ Cardinality(U) # 0
    BY <2>1, <2>2, FS_CardinalityType, FS_EmptySet
  <2>4. Cardinality(U) \in 1 .. Cardinality(S)
    BY <1>2, <2>2, <2>3
  <2> QED  BY <2>4 DEF U, Rank
<1>4. ASSUME NEW m \in S, NEW n \in S, m < n
      PROVE  Rank(S, m) < Rank(S, n)
  <2> DEFINE U == {k \in S : k <= m}
  <2> DEFINE V == {k \in S : k <= n}
  <2>1. U \in SUBSET V /\ n \in V /\ n \notin U /\ V \in SUBSET S
    <3>1. \A k \in S : k <= m => k <= n
      BY <1>4
    <3>2. ~(n <= m) /\ n <= n
      BY <1>4
    <3> QED  BY <3>1, <3>2
  <2> HIDE DEF U, V
  <2>2. IsFiniteSet(V)
    BY <1>2, <2>1, FS_Subset
  <2>3. Cardinality(U) <= Cardinality(V) /\ Cardinality(U) # Cardinality(V) /\ IsFiniteSet(U)
    BY <2>1, <2>2, FS_Subset
  <2>4. Cardinality(U) \in Nat /\ Cardinality(V) \in Nat
    BY <2>2, <2>3, FS_CardinalityType
  <2>5. Cardinality(U) < Cardinality(V)
    BY <2>3, <2>4
  <2> QED  BY <2>5 DEF U, V, Rank
<1> QED  BY <1>2, <1>3, <1>4

(* Each of those numbers is the rank of just one member.                    *)
LEMMA RankedIs ==
  ASSUME NEW l \in Nat, NEW S \in SUBSET (1 .. l)
  PROVE  /\ \A i \in 1 .. Cardinality(S) : Ranked(S, i) \in S /\ Rank(S, Ranked(S, i)) = i
         /\ \A n \in S : Ranked(S, Rank(S, n)) = n
<1> DEFINE N == Cardinality(S)
<1> DEFINE r == [n \in S |-> Rank(S, n)]
<1>0. /\ IsFiniteSet(S) /\ N \in Nat
      /\ \A n \in S : Rank(S, n) \in 1 .. N
      /\ \A m, n \in S : m < n => Rank(S, m) < Rank(S, n)
  BY RankIs
<1>1. \A m, n \in S : Rank(S, m) = Rank(S, n) => m = n
  <2> SUFFICES ASSUME NEW m \in S, NEW n \in S, m # n
               PROVE  Rank(S, m) # Rank(S, n)
    OBVIOUS
  <2>1. m < n \/ n < m
    OBVIOUS
  <2>2. Rank(S, m) < Rank(S, n) \/ Rank(S, n) < Rank(S, m)
    BY <1>0, <2>1
  <2> QED  BY <1>0, <2>2
<1> HIDE DEF N
<1>2. r \in [S -> 1 .. N]
  BY <1>0
<1>3. r \in Injection(S, 1 .. N)
  BY <1>1, <1>2, Fun_IsInj
<1>4. IsFiniteSet(1 .. N) /\ Cardinality(1 .. N) = N
  BY <1>0, FS_Interval
<1>5. r \in Surjection(S, 1 .. N)
  <2> HIDE DEF r
  <2>1. Cardinality(S) = Cardinality(1 .. N)
    BY <1>4 DEF N
  <2> QED  BY <1>3, <1>4, <2>1, FS_Injection
<1>6. \A i \in 1 .. N : \E n \in S : r[n] = i
  <2> HIDE DEF r
  <2> QED  BY <1>5 DEF Surjection
<1>7. ASSUME NEW i \in 1 .. N
      PROVE  Ranked(S, i) \in S /\ Rank(S, Ranked(S, i)) = i
  <2>1. \E n \in S : Cardinality({m \in S : m <= n}) = i
    BY <1>6 DEF Rank
  <2> QED  BY <2>1 DEF Ranked, Rank
<1>8. ASSUME NEW n \in S
      PROVE  Ranked(S, Rank(S, n)) = n
  <2>1. Rank(S, n) \in 1 .. N
    BY <1>0
  <2>2. Ranked(S, Rank(S, n)) \in S /\ Rank(S, Ranked(S, Rank(S, n))) = Rank(S, n)
    BY <1>7, <2>1
  <2> QED  BY <1>1, <2>2
<1> QED  BY <1>7, <1>8 DEF N

(* What is kept of a sequence is some of its elements, in their order.      *)
LEMMA KeptIs ==
  ASSUME NEW T, NEW s \in Seq(T), NEW S \in SUBSET DOMAIN s
  PROVE  /\ Kept(s, S) \in Seq(T) /\ Len(Kept(s, S)) \in Nat
         /\ \A i \in 1 .. Len(Kept(s, S)) : Ranked(S, i) \in S /\ Kept(s, S)[i] = s[Ranked(S, i)]
         /\ \A i, j \in 1 .. Len(Kept(s, S)) : i < j => Ranked(S, i) < Ranked(S, j)
         /\ \A n \in S : \E i \in 1 .. Len(Kept(s, S)) : Ranked(S, i) = n
         /\ S # {} => Len(Kept(s, S)) > 0
<1> DEFINE l == Len(s)
<1> DEFINE N == Cardinality(S)
<1>1. l \in Nat /\ S \in SUBSET (1 .. l) /\ DOMAIN s = 1 .. l
  OBVIOUS
<1> HIDE DEF l
<1>2. /\ IsFiniteSet(S) /\ N \in Nat
      /\ \A n \in S : Rank(S, n) \in 1 .. N
      /\ \A m, n \in S : m < n => Rank(S, m) < Rank(S, n)
  BY <1>1, RankIs
<1>3. /\ \A i \in 1 .. N : Ranked(S, i) \in S /\ Rank(S, Ranked(S, i)) = i
      /\ \A n \in S : Ranked(S, Rank(S, n)) = n
  BY <1>1, RankedIs
<1> HIDE DEF N
<1>4. \A i \in 1 .. N : s[Ranked(S, i)] \in T
  BY <1>1, <1>3
<1>5. Kept(s, S) = [i \in 1 .. N |-> s[Ranked(S, i)]]
  BY DEF Kept, N
<1>6. Kept(s, S) \in Seq(T) /\ Len(Kept(s, S)) = N
  BY <1>2, <1>4, <1>5
<1>7. ASSUME NEW i \in 1 .. N, NEW j \in 1 .. N, i < j
      PROVE  Ranked(S, i) < Ranked(S, j)
  <2>1. Ranked(S, i) \in S /\ Ranked(S, j) \in S /\ S \in SUBSET Nat
    BY <1>1, <1>3
  <2>2. CASE Ranked(S, j) < Ranked(S, i)
    <3>1. Rank(S, Ranked(S, j)) < Rank(S, Ranked(S, i))
      BY <1>2, <2>1, <2>2
    <3> QED  BY <1>3, <1>7, <3>1
  <2>3. CASE Ranked(S, j) = Ranked(S, i)
    BY <1>3, <1>7, <2>3
  <2> QED  BY <2>1, <2>2, <2>3
<1>8. \A n \in S : \E i \in 1 .. N : Ranked(S, i) = n
  BY <1>2, <1>3
<1>9. S # {} => N > 0
  BY <1>2, FS_EmptySet DEF N
<1> QED  BY <1>2, <1>3, <1>5, <1>6, <1>7, <1>8, <1>9

(* The environment of a program is what it inherits, then its settings.     *)
LEMMA EnvironmentIs ==
  ASSUME NEW e \in Environments
  PROVE  LET b == Kept(e.block, Inherited(e))
             o == Kept(e.settings, Overrides(e))
         IN /\ e.block \in Seq(Entries(e)) /\ e.settings \in Seq(Entries(e))
            /\ Inherited(e) \in SUBSET DOMAIN e.block
            /\ Overrides(e) \in SUBSET DOMAIN e.settings
            /\ b \in Seq(Entries(e)) /\ o \in Seq(Entries(e))
            /\ Environment(e) \in Seq(Entries(e))
            /\ Len(b) \in Nat /\ Len(o) \in Nat /\ Len(Environment(e)) = Len(b) + Len(o)
            /\ \A i \in 1 .. Len(b) : Environment(e)[i] = b[i]
            /\ \A i \in Len(b) + 1 .. Len(b) + Len(o) : Environment(e)[i] = o[i - Len(b)]
<1> DEFINE b == Kept(e.block, Inherited(e))
<1> DEFINE o == Kept(e.settings, Overrides(e))
<1>1. e.block \in Seq(Entries(e)) /\ e.settings \in Seq(Entries(e))
  BY LaunchAssumption
<1>2. Inherited(e) \in SUBSET DOMAIN e.block /\ Overrides(e) \in SUBSET DOMAIN e.settings
  BY DEF Inherited, Overrides
<1>3. b \in Seq(Entries(e)) /\ Len(b) \in Nat
  BY <1>1, <1>2, KeptIs
<1>4. o \in Seq(Entries(e)) /\ Len(o) \in Nat
  BY <1>1, <1>2, KeptIs
<1>5. Environment(e) = b \o o
  BY DEF Environment
<1> HIDE DEF b, o
<1>6. /\ Environment(e) \in Seq(Entries(e)) /\ Len(Environment(e)) = Len(b) + Len(o)
      /\ \A i \in 1 .. Len(b) : Environment(e)[i] = b[i]
      /\ \A i \in Len(b) + 1 .. Len(b) + Len(o) : Environment(e)[i] = o[i - Len(b)]
  BY <1>3, <1>4, <1>5
<1> QED  BY <1>1, <1>2, <1>3, <1>4, <1>6 DEF b, o

(* The last setting of a key is the one kept. *)
LEMMA LastSettingOverrides ==
  ASSUME NEW e \in Environments, NEW key, \E s \in DOMAIN e.settings : e.settings[s].key = key
  PROVE  \E l \in Overrides(e) : e.settings[l].key = key
<1> DEFINE n == Len(e.settings)
<1> DEFINE S == {s \in 1 .. n : e.settings[s].key = key}
<1> DEFINE D == {n - s : s \in S}
<1>1. e.settings \in Seq(Entries(e)) /\ n \in Nat /\ DOMAIN e.settings = 1 .. n
  BY EnvironmentIs
<1> HIDE DEF n
<1>0. S # {} /\ S \in SUBSET (1 .. n)
  BY <1>1
<1> HIDE DEF S
<1>2. D \in SUBSET Nat /\ D # {}
  <2>1. ASSUME NEW s \in S
        PROVE  n - s \in Nat
    <3>1. s \in 1 .. n
      BY <1>0
    <3> QED  BY <1>1, <3>1
  <2>2. D \in SUBSET Nat
    BY <2>1
  <2>3. D # {}
    BY <1>0
  <2> QED  BY <2>2, <2>3
<1> HIDE DEF D
<1>3. Least(D) \in D /\ \A d \in D : Least(D) <= d
  BY <1>2, LeastIsIn
<1>4. PICK l \in S : Least(D) = n - l
  BY <1>3 DEF D
<1>5. ASSUME NEW t \in S
      PROVE  t <= l
  <2>1. n - t \in D
    BY DEF D
  <2>2. n - l <= n - t
    BY <1>3, <1>4, <2>1
  <2> QED  BY <1>0, <1>1, <1>4, <2>2
<1>6. \A t \in DOMAIN e.settings : e.settings[t].key = key => t <= l
  BY <1>1, <1>5 DEF S
<1>7. l \in DOMAIN e.settings /\ e.settings[l].key = key
  BY <1>0, <1>1, <1>4 DEF S
<1>8. \A t \in DOMAIN e.settings : e.settings[t].key = e.settings[l].key => t <= l
  BY <1>6, <1>7
<1> QED  BY <1>7, <1>8 DEF Overrides

(* A program has an environment, an empty one being none here.              *)
LEMMA EnvironmentIsSome ==
  ASSUME NEW e \in Environments
  PROVE  Environment(e) # <<>>
<1> DEFINE b == Kept(e.block, Inherited(e))
<1> DEFINE o == Kept(e.settings, Overrides(e))
<1>1. /\ e.block \in Seq(Entries(e)) /\ e.settings \in Seq(Entries(e))
      /\ Inherited(e) \in SUBSET DOMAIN e.block /\ Overrides(e) \in SUBSET DOMAIN e.settings
      /\ Environment(e) \in Seq(Entries(e)) /\ Len(b) \in Nat /\ Len(o) \in Nat
      /\ Len(Environment(e)) = Len(b) + Len(o)
  BY EnvironmentIs
<1>2. Inherited(e) # {} => Len(b) > 0
  BY <1>1, KeptIs
<1>3. Overrides(e) # {} => Len(o) > 0
  BY <1>1, KeptIs
<1>4. Inherited(e) # {} \/ Overrides(e) # {}
  <2>1. CASE e.settings # <<>>
    <3>1. 1 \in DOMAIN e.settings
      BY <1>1, <2>1
    <3> QED  BY <3>1, LastSettingOverrides
  <2>2. CASE e.settings = <<>>
    <3>1. e.block # <<>>
      BY <2>2, LaunchAssumption
    <3>2. 1 \in DOMAIN e.block
      BY <1>1, <3>1
    <3>3. DOMAIN e.settings = {}
      BY <2>2
    <3> QED  BY <3>2, <3>3 DEF Inherited, Shadowed
  <2> QED  BY <2>1, <2>2
<1> HIDE DEF b, o
<1>5. Len(Environment(e)) > 0
  BY <1>1, <1>2, <1>3, <1>4
<1> QED  BY <1>1, <1>5

(* getenv finds what was set for a key, else what was inherited.            *)
LEMMA FirstIsOne ==
  ASSUME NEW T, NEW s \in Seq(T), NEW key, NEW f \in Firsts(s, key)
  PROVE  {s[i] : i \in Firsts(s, key)} = {s[f]}
<1>1. DOMAIN s = 1 .. Len(s) /\ Len(s) \in Nat
  OBVIOUS
<1>2. f \in 1 .. Len(s) /\ s[f].key = key /\ \A j \in 1 .. f - 1 : s[j].key # key
  BY <1>1 DEF Firsts
<1>3. ASSUME NEW i \in Firsts(s, key)
      PROVE  i = f
  <2>1. i \in 1 .. Len(s) /\ s[i].key = key /\ \A j \in 1 .. i - 1 : s[j].key # key
    BY <1>1 DEF Firsts
  <2>2. CASE i < f
    <3>1. i \in 1 .. f - 1
      BY <1>1, <1>2, <2>1, <2>2
    <3> QED  BY <1>2, <2>1, <3>1
  <2>3. CASE f < i
    <3>1. f \in 1 .. i - 1
      BY <1>1, <1>2, <2>1, <2>3
    <3> QED  BY <1>2, <2>1, <3>1
  <2> QED  BY <1>1, <1>2, <2>1, <2>2, <2>3
<1> QED  BY <1>3

(* An entry of a key that is there at all is there for a first time.        *)
LEMMA FirstIsThere ==
  ASSUME NEW T, NEW s \in Seq(T), NEW key, NEW k \in DOMAIN s, s[k].key = key
  PROVE  \E f \in Firsts(s, key) : f <= k
<1> DEFINE S == {i \in DOMAIN s : s[i].key = key}
<1>1. DOMAIN s = 1 .. Len(s) /\ Len(s) \in Nat
  OBVIOUS
<1>2. S \in SUBSET Nat /\ S # {} /\ k \in S
  BY <1>1
<1>3. Least(S) \in S /\ \A g \in S : Least(S) <= g
  BY <1>2, LeastIsIn
<1>4. PICK f \in S : \A g \in S : f <= g
  BY <1>3
<1>5. ASSUME NEW j \in 1 .. f - 1
      PROVE  s[j].key # key
  <2>1. j \in DOMAIN s /\ ~(f <= j)
    BY <1>1
  <2> QED  BY <1>4, <2>1
<1>6. f \in Firsts(s, key)
  BY <1>5 DEF Firsts
<1> QED  BY <1>2, <1>4, <1>6

(* A setting is read back, being the only entry of its key.                 *)
LEMMA SettingIsRead ==
  ASSUME NEW e \in Environments, NEW key, \E s \in DOMAIN e.settings : e.settings[s].key = key
  PROVE  {Environment(e)[i] : i \in Firsts(Environment(e), key)}
           = {e.settings[i] : i \in Lasts(e.settings, key)}
         /\ Lasts(e.settings, key) # {}
<1> DEFINE b == Kept(e.block, Inherited(e))
<1> DEFINE o == Kept(e.settings, Overrides(e))
<1> DEFINE v == Environment(e)
<1>1. /\ e.block \in Seq(Entries(e)) /\ e.settings \in Seq(Entries(e))
      /\ Inherited(e) \in SUBSET DOMAIN e.block /\ Overrides(e) \in SUBSET DOMAIN e.settings
  BY EnvironmentIs
<1>2. /\ v \in Seq(Entries(e)) /\ Len(b) \in Nat /\ Len(o) \in Nat /\ Len(v) = Len(b) + Len(o)
      /\ \A i \in 1 .. Len(b) : v[i] = b[i]
      /\ \A i \in Len(b) + 1 .. Len(b) + Len(o) : v[i] = o[i - Len(b)]
  BY EnvironmentIs
<1>3. \A i \in 1 .. Len(b) : Ranked(Inherited(e), i) \in Inherited(e)
                             /\ b[i] = e.block[Ranked(Inherited(e), i)]
  BY <1>1, KeptIs
<1>4. /\ \A i \in 1 .. Len(o) : Ranked(Overrides(e), i) \in Overrides(e)
                                /\ o[i] = e.settings[Ranked(Overrides(e), i)]
      /\ \A n \in Overrides(e) : \E i \in 1 .. Len(o) : Ranked(Overrides(e), i) = n
  BY <1>1, KeptIs
<1>5. PICK l \in Overrides(e) : e.settings[l].key = key
  BY LastSettingOverrides
<1>6. key # NoKey
  BY <1>5, <1>1, LaunchAssumption
<1> HIDE DEF b, o, v
<1>7. ASSUME NEW i \in 1 .. Len(b)
      PROVE  v[i].key # key
  <2>1. Ranked(Inherited(e), i) \in DOMAIN e.block /\ ~Shadowed(e, Ranked(Inherited(e), i))
    BY <1>3 DEF Inherited
  <2>2. e.block[Ranked(Inherited(e), i)].key # key
    BY <2>1, <1>1, <1>5, <1>6 DEF Shadowed
  <2> QED  BY <1>2, <1>3, <2>2
<1>8. ASSUME NEW n \in Overrides(e), e.settings[n].key = key
      PROVE  n = l
  <2>1. n <= l /\ l <= n
    BY <1>1, <1>5, <1>8 DEF Overrides
  <2>2. n \in Nat /\ l \in Nat
    BY <1>1
  <2> QED  BY <2>1, <2>2
<1>9. ASSUME NEW i \in DOMAIN v, v[i].key = key
      PROVE  v[i] = e.settings[l]
  <2>1. i \in Len(b) + 1 .. Len(b) + Len(o)
    BY <1>2, <1>7, <1>9
  <2>2. i - Len(b) \in 1 .. Len(o) /\ v[i] = o[i - Len(b)]
    BY <1>2, <2>1
  <2>3. PICK j \in 1 .. Len(o) : v[i] = o[j]
    BY <2>2
  <2>4. Ranked(Overrides(e), j) \in Overrides(e) /\ v[i] = e.settings[Ranked(Overrides(e), j)]
    BY <1>4, <2>3
  <2>5. Ranked(Overrides(e), j) = l
    BY <1>8, <1>9, <2>4
  <2> QED  BY <2>4, <2>5
<1>10. \E i \in DOMAIN v : v[i].key = key
  <2>1. PICK j \in 1 .. Len(o) : Ranked(Overrides(e), j) = l
    BY <1>4
  <2>2. o[j].key = key
    BY <1>4, <1>5, <2>1
  <2>3. Len(b) + j \in DOMAIN v /\ Len(b) + j \in Len(b) + 1 .. Len(b) + Len(o)
        /\ (Len(b) + j) - Len(b) = j
    BY <1>2
  <2>4. v[Len(b) + j] = o[j]
    BY <1>2, <2>3
  <2> QED  BY <2>2, <2>3, <2>4
<1>11. PICK f \in Firsts(v, key) : TRUE
  BY <1>2, <1>10, FirstIsThere
<1>12. {v[i] : i \in Firsts(v, key)} = {e.settings[l]}
  <2>1. f \in DOMAIN v /\ v[f].key = key
    BY DEF Firsts
  <2>2. v[f] = e.settings[l]
    BY <1>9, <2>1
  <2>3. {v[i] : i \in Firsts(v, key)} = {v[f]}
    BY ZenonT(30), <1>2, FirstIsOne
  <2> QED  BY <2>2, <2>3
<1>13. Lasts(e.settings, key) = {l}
  <2>1. l \in Lasts(e.settings, key)
    <3>1. ASSUME NEW j \in l + 1 .. Len(e.settings)
          PROVE  e.settings[j].key # key
      <4>1. l \in Nat /\ Len(e.settings) \in Nat /\ DOMAIN e.settings = 1 .. Len(e.settings)
            /\ l \in DOMAIN e.settings
        BY <1>1
      <4>2. j \in DOMAIN e.settings /\ ~(j <= l)
        BY <4>1
      <4> QED  BY <1>5, <4>2 DEF Overrides
    <3> QED  BY <1>1, <1>5, <3>1 DEF Lasts
  <2>2. ASSUME NEW n \in Lasts(e.settings, key)
        PROVE  n = l
    <3>1. n \in DOMAIN e.settings /\ e.settings[n].key = key
          /\ \A j \in n + 1 .. Len(e.settings) : e.settings[j].key # key
      BY DEF Lasts
    <3>2. n <= l
      BY <1>5, <3>1 DEF Overrides
    <3>3. n \in Nat /\ l \in Nat /\ Len(e.settings) \in Nat /\ l <= Len(e.settings)
      BY <1>1, <3>1
    <3>4. ~(n < l)
      <4> SUFFICES ASSUME n < l
                   PROVE  FALSE
        OBVIOUS
      <4>1. l \in n + 1 .. Len(e.settings)
        BY <3>3
      <4> QED  BY <1>5, <3>1, <4>1
    <3> QED  BY <3>2, <3>3, <3>4
  <2> QED  BY <2>1, <2>2
<1> QED  BY <1>12, <1>13 DEF v

(* What is not set is inherited, the first entry of its key before others.  *)
LEMMA InheritedIsRead ==
  ASSUME NEW e \in Environments, NEW key, ~ \E s \in DOMAIN e.settings : e.settings[s].key = key,
         \E i \in DOMAIN e.block : e.block[i].key = key
  PROVE  {Environment(e)[i] : i \in Firsts(Environment(e), key)}
           = {e.block[i] : i \in Firsts(e.block, key)}
<1> DEFINE b == Kept(e.block, Inherited(e))
<1> DEFINE o == Kept(e.settings, Overrides(e))
<1> DEFINE v == Environment(e)
<1> DEFINE R(i) == Ranked(Inherited(e), i)
<1>1. /\ e.block \in Seq(Entries(e)) /\ Inherited(e) \in SUBSET DOMAIN e.block
      /\ v \in Seq(Entries(e)) /\ Len(b) \in Nat /\ Len(o) \in Nat /\ Len(v) = Len(b) + Len(o)
      /\ \A i \in 1 .. Len(b) : v[i] = b[i]
  BY EnvironmentIs
<1>2. /\ \A i \in 1 .. Len(b) : R(i) \in Inherited(e) /\ b[i] = e.block[R(i)]
      /\ \A i, j \in 1 .. Len(b) : i < j => R(i) < R(j)
      /\ \A n \in Inherited(e) : \E i \in 1 .. Len(b) : R(i) = n
  BY <1>1, KeptIs
<1>3. PICK k \in DOMAIN e.block : e.block[k].key = key
  OBVIOUS
<1>4. PICK f \in Firsts(e.block, key) : TRUE
  BY <1>1, <1>3, FirstIsThere
<1>5. f \in DOMAIN e.block /\ e.block[f].key = key
      /\ \A j \in 1 .. f - 1 : e.block[j].key # key
  BY DEF Firsts
<1>6. f \in Inherited(e)
  BY <1>5 DEF Inherited, Shadowed
<1> HIDE DEF b, o, v, R
<1>7. PICK i \in 1 .. Len(b) : R(i) = f
  BY <1>2, <1>6
<1>8. i \in DOMAIN v /\ v[i] = e.block[f]
  BY <1>1, <1>2, <1>7
<1>9. ASSUME NEW j \in 1 .. i - 1
      PROVE  v[j].key # key
  <2>1. j \in 1 .. Len(b) /\ j < i
    BY <1>1
  <2>2. R(j) < R(i) /\ R(j) \in DOMAIN e.block /\ v[j] = e.block[R(j)]
    BY <1>1, <1>2, <2>1
  <2>3. R(j) \in 1 .. f - 1
    BY <1>1, <1>5, <1>7, <2>2
  <2> QED  BY <1>5, <2>2, <2>3
<1>10. i \in Firsts(v, key)
  BY <1>5, <1>8, <1>9 DEF Firsts
<1>11. {v[n] : n \in Firsts(v, key)} = {v[i]}
  BY <1>1, <1>10, FirstIsOne
<1>12. {e.block[n] : n \in Firsts(e.block, key)} = {e.block[f]}
  BY <1>1, FirstIsOne
<1> QED  BY <1>8, <1>11, <1>12 DEF v

(* Either way getenv's answer is the one asked for.                         *)
LEMMA EnvironmentAnswers ==
  ASSUME program \in Environments, NEW key \in Keys
  PROVE  {Environment(program)[i] : i \in Firsts(Environment(program), key)} = Asked(key)
<1> DEFINE set == {program.settings[i] : i \in Lasts(program.settings, key)}
<1>1. CASE \E s \in DOMAIN program.settings : program.settings[s].key = key
  <2>1. /\ {Environment(program)[i] : i \in Firsts(Environment(program), key)} = set
        /\ Lasts(program.settings, key) # {}
    BY <1>1, SettingIsRead
  <2>2. set # {}
    BY <2>1
  <2>3. Asked(key) = set
    BY <2>2 DEF Asked
  <2> QED  BY <2>1, <2>3
<1>2. CASE ~ \E s \in DOMAIN program.settings : program.settings[s].key = key
  <2>1. set = {}
    BY <1>2 DEF Lasts
  <2>2. \E i \in DOMAIN program.block : program.block[i].key = key
    BY <1>2 DEF Keys
  <2>3. Asked(key) = {program.block[i] : i \in Firsts(program.block, key)}
    BY <2>1 DEF Asked
  <2> QED  BY <1>2, <2>2, <2>3, InheritedIsRead
<1> QED  BY <1>1, <1>2

-----------------------------------------------------------------------------
(* The steps of the parent                                                  *)

LEMMA ParentTable ==
  ASSUME TypeOK, NEW t, Parent(t)
  PROVE  DOMAIN tab' = {"parent", "child"} /\ tab'.parent = t /\ tab'.child = tab.child
BY DEF TypeOK, Parent

(* A child is as well as it was when only its parent moves, or collects it. *)
LEMMA ChildKeepsWell ==
  ASSUME ChildIsWell, caller' = caller, ready' = ready, fork' = fork, tab'.child = tab.child,
         child' = child \/ (child \in Exited /\ child' \in Exited)
  PROVE  ChildIsWell'
<1>1. CASE child' = child
  BY <1>1 DEF ChildIsWell, TableIsWhole, ChildIsReady, ChildIsPlaced, ChildIsEquipped, Stands,
              Beyond, HasTheLock, Preparing, Became
<1>2. CASE child \in Exited /\ child' \in Exited
  <2>1. /\ child' \notin Preparing \cup Became \cup {"place2", "place3", "chdir", "exec"}
        /\ child' \notin {"detaching", "serving"} /\ child' # "program"
    BY <1>2 DEF Exited, Preparing, Became
  <2>2. TableIsWhole' /\ ChildIsReady' /\ ChildIsPlaced'
    BY <2>1 DEF ChildIsWell, TableIsWhole, ChildIsReady, ChildIsPlaced
  <2>3. ChildIsEquipped'
    BY <2>1 DEF ChildIsWell, ChildIsEquipped, Beyond
  <2> QED  BY <2>2, <2>3 DEF ChildIsWell
<1> QED  BY <1>1, <1>2

(* An error on the way to the fork: all spawn opened is closed again.       *)
LEMMA GivesUp ==
  ASSUME IInv, pc \notin Forked \cup {"returned"},
         Returns("error", Locals \cup Results), UNCHANGED others
  PROVE  IInv'
<1>1. /\ tab'.parent = Drop(tab.parent, Locals \cup Results) /\ tab'.child = tab.child
      /\ DOMAIN tab' = {"parent", "child"} /\ result' = "error" /\ pc' = "returned"
  BY ParentTable DEF IInv, Returns
<1>2. /\ caller' = caller /\ program' = program /\ raw' = raw /\ ready' = ready /\ child' = child
      /\ pipe' = pipe /\ envp' = envp /\ fork' = fork /\ faults' = faults
  BY DEF others
<1>3. caller \in Callers /\ child = "none" /\ envp = <<>> /\ pc # "await" /\ raw = raw
  BY DEF IInv, TypeOK, ParentIsInStep, ChildIsInStep, Forked
<1>4. Holds(tab.parent, Locals \cup Result)
  BY DEF IInv, ParentIsHeld, Left, Forked
<1>5. "before" \notin Locals \cup Results /\ "nobody" \notin Locals \cup Results
      /\ Locals \cup Result \subseteq (Locals \cup Results) \cup {}
  BY DEF Locals, Results, Result
<1>6. Holds(tab'.parent, {})
  BY <1>1, <1>3, <1>4, <1>5, DroppingHolds
<1>7. TypeOK'
  BY <1>1, <1>2 DEF IInv, TypeOK, Steps
<1>8. ParentIsHeld'
  <2>1. Left' = {}
    BY <1>1 DEF Left
  <2>2. Holds(tab.parent, Left)'
    BY <1>2, <1>6, <2>1 DEF Holds, Marked
  <2> QED  BY <1>1, <2>2 DEF ParentIsHeld, Raising
<1>9. ChildIsWell'
  BY <1>1, <1>2, ChildKeepsWell DEF IInv
<1>10. ParentIsInStep'
  BY <1>1, <1>2 DEF ParentIsInStep, Forked
<1>11. ChildIsInStep'
  BY <1>2 DEF IInv, ChildIsInStep
<1>12. ReadIsTrue'
  BY <1>1, <1>2 DEF IInv, ReadIsTrue
<1>13. VerdictIsTrue'
  BY <1>1, <1>2, <1>3 DEF VerdictIsTrue
<1> QED  BY <1>7, <1>8, <1>9, <1>10, <1>11, <1>12, <1>13 DEF IInv

(* A step of the parent before the fork that keeps what it has so far.      *)
LEMMA GoesOn ==
  ASSUME IInv, pc \notin Forked \cup {"returned"}, result' = result, UNCHANGED others,
         tab'.child = tab.child, DOMAIN tab' = {"parent", "child"},
         pc' \in Steps \ (Forked \cup {"returned"}),
         Holds(tab'.parent, Locals \cup Result),
         pc' \in {"raise2", "raise3"} \cup Raising => Has(tab'.parent, "raised1"),
         pc' \in {"raise3"} \cup Raising => Has(tab'.parent, "raised2"),
         pc' \in Raising => Has(tab'.parent, "raised3"),
         pc' = "fork" => Has(tab'.parent, "failure")
  PROVE  IInv'
<1>2. /\ caller' = caller /\ program' = program /\ raw' = raw /\ ready' = ready /\ child' = child
      /\ pipe' = pipe /\ envp' = envp /\ fork' = fork /\ faults' = faults
  BY DEF others
<1>3. child = "none" /\ envp = <<>> /\ result = "running"
      /\ pc' \notin {"returned", "await", "verdict"}
  BY DEF IInv, ParentIsInStep, ChildIsInStep, Forked
<1>7. TypeOK'
  BY <1>2 DEF IInv, TypeOK
<1>8. ParentIsHeld'
  <2>1. Left' = Locals \cup Result'
    BY <1>3 DEF Left, Locals
  <2>2. Result' = Result
    BY <1>2 DEF Result
  <2>3. Holds(tab.parent, Left)'
    BY <1>2, <2>1, <2>2 DEF Holds, Marked
  <2>4. Fds' = Fds
    BY DEF Fds
  <2> QED  BY <1>2, <2>3, <2>4 DEF ParentIsHeld, Raising, Has
<1>9. ChildIsWell'
  BY <1>2, ChildKeepsWell DEF IInv
<1>10. ParentIsInStep'
  BY <1>2, <1>3 DEF ParentIsInStep, Forked
<1>11. ChildIsInStep'
  BY <1>2 DEF IInv, ChildIsInStep
<1>12. ReadIsTrue'
  BY <1>2, <1>3 DEF IInv, ReadIsTrue
<1>13. VerdictIsTrue'
  BY <1>2, <1>3 DEF VerdictIsTrue
<1> QED  BY <1>7, <1>8, <1>9, <1>10, <1>11, <1>12, <1>13 DEF IInv

(* A call that opens a file, or fails.                                      *)
LEMMA OpeningStep ==
  ASSUME IInv, pc \notin Forked \cup {"returned"},
         NEW least, NEW file, NEW by \in Locals \cup Result, NEW next,
         Opening(least, file, by, next),
         \A f \in Fds : f >= least => Marked(f, Slot(file, TRUE, by)),
         next \in Steps \ (Forked \cup {"returned", "fork"}),
         next \in {"raise2", "raise3"} \cup Raising => Has(tab.parent, "raised1") \/ by = "raised1",
         next \in {"raise3"} \cup Raising => Has(tab.parent, "raised2") \/ by = "raised2",
         next \in Raising => Has(tab.parent, "raised3") \/ by = "raised3"
  PROVE  IInv'
<1>1. CASE Returns("error", Locals \cup Results)
  BY <1>1, GivesUp DEF Opening
<1>2. CASE /\ Free(tab.parent, least) # {}
           /\ Parent(Opened(tab.parent, least, file, by)) /\ pc' = next /\ result' = result
  <2>1. /\ tab'.parent = Opened(tab.parent, least, file, by)
        /\ tab'.child = tab.child /\ DOMAIN tab' = {"parent", "child"}
    BY <1>2, ParentTable DEF IInv
  <2>2. Holds(tab.parent, Locals \cup Result)
    BY DEF IInv, ParentIsHeld, Left, Forked
  <2>3. by # "nobody"
    BY DEF Locals, Result
  <2>4. /\ Holds(tab'.parent, Locals \cup Result) /\ Has(tab'.parent, by)
        /\ \A b : b # "nobody" /\ Has(tab.parent, b) => Has(tab'.parent, b)
    BY <1>2, <2>1, <2>2, <2>3, OpeningHolds DEF Slot
  <2>5. UNCHANGED others
    BY DEF Opening
  <2>6. /\ pc' \in {"raise2", "raise3"} \cup Raising => Has(tab'.parent, "raised1")
        /\ pc' \in {"raise3"} \cup Raising => Has(tab'.parent, "raised2")
        /\ pc' \in Raising => Has(tab'.parent, "raised3")
    <3>1. /\ Has(tab.parent, "raised1") => Has(tab'.parent, "raised1")
          /\ Has(tab.parent, "raised2") => Has(tab'.parent, "raised2")
          /\ Has(tab.parent, "raised3") => Has(tab'.parent, "raised3")
      BY <2>4
    <3> QED  BY <1>2, <2>4, <3>1
  <2>7. pc' \in Steps \ (Forked \cup {"returned"}) /\ pc' # "fork" /\ result' = result
    BY <1>2
  <2> QED  BY <2>1, <2>4, <2>5, <2>6, <2>7, GoesOn
<1> QED  BY <1>1, <1>2 DEF Opening

LEMMA CallerOpensStep ==
  ASSUME IInv, NEW i \in 1 .. 3, NEW here \in {"open1", "open2", "open3"},
         NEW next \in {"open2", "open3", "raise1"}, CallerOpens(i, here, next)
  PROVE  IInv'
<1>1. pc \notin Forked \cup {"returned"}
  BY DEF CallerOpens, Forked
<1>2. CASE i <= Len(Opens)
  <2>1. Opens[i] \in {"master", "slave", "null", "complaint", "diagnostics"}
        /\ Opens[i] \in Locals \cup Result
    <3>1. CASE caller.who = "pty"
      <4>1. Opens = <<"master", "slave">> /\ Result = {"master"}
        BY <3>1 DEF Opens, Result
      <4>2. i = 1 \/ i = 2
        BY <1>2, <4>1
      <4> QED  BY <4>1, <4>2 DEF Locals
    <3>2. CASE caller.who = "relay"
      <4>1. Opens = <<"null", "complaint", "diagnostics">> /\ Result = {"complaint"}
        BY <3>2 DEF Opens, Result
      <4>2. i = 1 \/ i = 2 \/ i = 3
        BY <1>2, <4>1
      <4> QED  BY <4>1, <4>2 DEF Locals
    <3>3. CASE caller.who # "pty" /\ caller.who # "relay"
      <4>1. Opens = <<>>
        BY <3>3 DEF Opens
      <4> QED  BY <1>2, <4>1
    <3> QED  BY <3>1, <3>2, <3>3
  <2>2. \A f \in Fds : Marked(f, Slot(Opens[i], TRUE, Opens[i]))
    BY <2>1 DEF Marked, Slot, IsSlot
  <2>3. Opening(0, Opens[i], Opens[i], next)
    BY <1>2 DEF CallerOpens
  <2>4. /\ next \in Steps \ (Forked \cup {"returned", "fork"})
        /\ next \notin {"raise2", "raise3"} \cup Raising
    BY DEF Steps, Forked, Raising
  <2>5. \A f \in Fds : f >= 0 => Marked(f, Slot(Opens[i], TRUE, Opens[i]))
    BY <2>2
  <2> QED  BY <1>1, <2>1, <2>3, <2>4, <2>5, OpeningStep DEF Slot
<1>3. CASE ~(i <= Len(Opens))
  <2>1. pc' = "raise1" /\ tab' = tab /\ result' = result /\ UNCHANGED others
    BY <1>3 DEF CallerOpens
  <2>2. Holds(tab'.parent, Locals \cup Result)
    BY <1>1, <2>1 DEF IInv, ParentIsHeld, Left, Forked
  <2> QED  BY <1>1, <2>1, <2>2, GoesOn DEF IInv, TypeOK, Steps, Forked, Raising
<1> QED  BY <1>2, <1>3

LEMMA RaisesStep ==
  ASSUME IInv, \/ Raises(1, "raise1", "raised1", "raise2")
               \/ Raises(2, "raise2", "raised2", "raise3")
               \/ Raises(3, "raise3", "raised3", "pipe")
  PROVE  IInv'
<1>0. \A f \in Fds : f >= Above => f > STDERR_FILENO
  BY FdsAreNumbers DEF Above, STDERR_FILENO
<1>1. CASE Raises(1, "raise1", "raised1", "raise2")
  <2>1. pc = "raise1" /\ Opening(Above, caller.stdio[1], "raised1", "raise2")
    BY <1>1 DEF Raises
  <2>2. \A f \in Fds : f >= Above => Marked(f, Slot(caller.stdio[1], TRUE, "raised1"))
    BY <1>0 DEF Marked, Slot, IsSlot
  <2>3. "raised1" \in Locals \cup Result /\ "raise2" \in Steps \ (Forked \cup {"returned", "fork"})
        /\ "raise2" \notin {"raise3"} \cup Raising /\ pc \notin Forked \cup {"returned"}
    BY <2>1 DEF Locals, Steps, Forked, Raising
  <2> QED  BY <2>1, <2>2, <2>3, OpeningStep DEF Slot
<1>2. CASE Raises(2, "raise2", "raised2", "raise3")
  <2>1. pc = "raise2" /\ Opening(Above, caller.stdio[2], "raised2", "raise3")
    BY <1>2 DEF Raises
  <2>2. \A f \in Fds : f >= Above => Marked(f, Slot(caller.stdio[2], TRUE, "raised2"))
    BY <1>0 DEF Marked, Slot, IsSlot
  <2>3. "raised2" \in Locals \cup Result /\ "raise3" \in Steps \ (Forked \cup {"returned", "fork"})
        /\ "raise3" \notin Raising /\ pc \notin Forked \cup {"returned"}
    BY <2>1 DEF Locals, Steps, Forked, Raising
  <2>4. Has(tab.parent, "raised1")
    BY <2>1 DEF IInv, ParentIsHeld
  <2> QED  BY <2>1, <2>2, <2>3, <2>4, OpeningStep DEF Slot
<1>3. CASE Raises(3, "raise3", "raised3", "pipe")
  <2>1. pc = "raise3" /\ Opening(Above, caller.stdio[3], "raised3", "pipe")
    BY <1>3 DEF Raises
  <2>2. \A f \in Fds : f >= Above => Marked(f, Slot(caller.stdio[3], TRUE, "raised3"))
    BY <1>0 DEF Marked, Slot, IsSlot
  <2>3. "raised3" \in Locals \cup Result /\ "pipe" \in Steps \ (Forked \cup {"returned", "fork"})
        /\ pc \notin Forked \cup {"returned"}
    BY <2>1 DEF Locals, Steps, Forked, Raising
  <2>4. Has(tab.parent, "raised1") /\ Has(tab.parent, "raised2")
    BY <2>1 DEF IInv, ParentIsHeld
  <2> QED  BY <2>1, <2>2, <2>3, <2>4, OpeningStep DEF Slot
<1> QED  BY <1>1, <1>2, <1>3

LEMMA OpensPipeStep ==
  ASSUME IInv, OpensPipe
  PROVE  IInv'
<1>1. PICK file \in {"reportR", "reportW"}, by \in {"report", "bound"},
           next \in {"bound", "failure"} : Opening(0, file, by, next)
  BY DEF OpensPipe
<1>2. pc \in {"pipe", "bound"}
  BY DEF OpensPipe
<1>3. \A f \in Fds : f >= 0 => Marked(f, Slot(file, TRUE, by))
  BY DEF Marked, Slot, IsSlot
<1>4. by \in Locals \cup Result /\ next \in Steps \ (Forked \cup {"returned", "fork"})
      /\ pc \notin Forked \cup {"returned"}
  BY <1>2 DEF Locals, Steps, Forked, Raising
<1>5. Has(tab.parent, "raised1") /\ Has(tab.parent, "raised2") /\ Has(tab.parent, "raised3")
  BY <1>2 DEF IInv, ParentIsHeld, Raising
<1> QED  BY <1>1, <1>3, <1>4, <1>5, OpeningStep DEF Slot

LEMMA RaisesFailureStep ==
  ASSUME IInv, RaisesFailure
  PROVE  IInv'
<1>0. pc = "failure" /\ pc \notin Forked \cup {"returned"} /\ UNCHANGED others
  BY DEF RaisesFailure, Forked
<1>1. CASE Returns("error", Locals \cup Results)
  BY <1>0, <1>1, GivesUp
<1>2. CASE /\ Free(tab.parent, Above) # {}
           /\ Parent(Drop(Opened(tab.parent, Above, "reportW", "failure"), DropsBound))
           /\ pc' = "fork" /\ result' = result
  <2> DEFINE u == Opened(tab.parent, Above, "reportW", "failure")
  <2>1. /\ tab'.parent = Drop(u, DropsBound)
        /\ tab'.child = tab.child /\ DOMAIN tab' = {"parent", "child"}
    BY <1>2, ParentTable DEF IInv
  <2>2. Holds(tab.parent, Locals \cup Result) /\ "failure" \in Locals \cup Result
    BY <1>0 DEF IInv, ParentIsHeld, Left, Forked, Locals
  <2>3. \A f \in Fds : f >= Above => Marked(f, Slot("reportW", TRUE, "failure"))
    <3>1. \A f \in Fds : f >= Above => f > STDERR_FILENO
      BY FdsAreNumbers DEF Above, STDERR_FILENO
    <3> QED  BY <3>1 DEF Marked, Slot, IsSlot
  <2>4. /\ Holds(u, Locals \cup Result) /\ Has(u, "failure")
        /\ \A b : b # "nobody" /\ Has(tab.parent, b) => Has(u, b)
    BY <1>2, <2>2, <2>3, OpeningHolds DEF Slot
  <2>5. Has(tab.parent, "raised1") /\ Has(tab.parent, "raised2") /\ Has(tab.parent, "raised3")
    BY <1>0 DEF IInv, ParentIsHeld, Raising
  <2>6. Has(u, "raised1") /\ Has(u, "raised2") /\ Has(u, "raised3")
    BY <2>4, <2>5
  <2> HIDE DEF u
  <2>7. caller \in Callers /\ "before" \notin DropsBound /\ "nobody" \notin DropsBound
        /\ "failure" \notin DropsBound /\ "raised1" \notin DropsBound
        /\ "raised2" \notin DropsBound /\ "raised3" \notin DropsBound
    BY DEF IInv, TypeOK, DropsBound
  <2>8. /\ Holds(Drop(u, DropsBound), Locals \cup Result)
        /\ \A b : b \notin DropsBound /\ Has(u, b) => Has(Drop(u, DropsBound), b)
    BY <2>4, <2>7, DroppingHolds
  <2>9. /\ Has(tab'.parent, "raised1") /\ Has(tab'.parent, "raised2")
        /\ Has(tab'.parent, "raised3") /\ Has(tab'.parent, "failure")
    BY <2>1, <2>4, <2>6, <2>7, <2>8
  <2>10. pc' \in Steps \ (Forked \cup {"returned"})
    BY <1>2 DEF Steps, Forked, Raising
  <2> QED  BY <1>0, <1>2, <2>1, <2>8, <2>9, <2>10, GoesOn
<1> QED  BY <1>0, <1>1, <1>2 DEF RaisesFailure

LEMMA PreparesStep ==
  ASSUME IInv, Prepares
  PROVE  IInv'
<1>1. CASE \/ CallerOpens(1, "open1", "open2") \/ CallerOpens(2, "open2", "open3")
           \/ CallerOpens(3, "open3", "raise1")
  BY <1>1, CallerOpensStep
<1>2. CASE \/ Raises(1, "raise1", "raised1", "raise2") \/ Raises(2, "raise2", "raised2", "raise3")
           \/ Raises(3, "raise3", "raised3", "pipe")
  BY <1>2, RaisesStep
<1>3. CASE OpensPipe
  BY <1>3, OpensPipeStep
<1>4. CASE RaisesFailure
  BY <1>4, RaisesFailureStep
<1> QED  BY <1>1, <1>2, <1>3, <1>4 DEF Prepares

(* The child starts with its parent's table, and numbers it can rely on.    *)
LEMMA FdByIs ==
  ASSUME NEW t, NEW by, Has(t, by)
  PROVE  FdBy(t, by) \in Fds /\ t[FdBy(t, by)].by = by
<1> DEFINE S == {f \in Fds : t[f].by = by}
<1>1. S \in SUBSET Nat /\ S # {}
  BY FdsAreNumbers DEF Has
<1>2. Least(S) \in S
  BY <1>1, LeastIsIn
<1> QED  BY <1>2 DEF FdBy

LEMMA RaisedIs ==
  ASSUME caller \in Callers, NEW t, NEW owners, Holds(t, owners),
         NEW by \in {"raised1", "raised2", "raised3", "failure"}, Has(t, by)
  PROVE  FdBy(t, by) \in Fds /\ t[FdBy(t, by)].by = by /\ Marked(FdBy(t, by), t[FdBy(t, by)])
<1>1. PICK fd \in Fds : fd = FdBy(t, by) /\ t[fd].by = by
  BY FdByIs
<1>2. t[fd] # caller.table[fd]
  BY <1>1, CallersOwn
<1> QED  BY <1>1, <1>2 DEF Holds

LEMMA ForkedChildIsReady ==
  ASSUME IInv, pc = "fork", tab'.child = tab.parent, child' = "setup", caller' = caller,
         ready' = [stdio |-> <<FdBy(tab.parent, "raised1"), FdBy(tab.parent, "raised2"),
                               FdBy(tab.parent, "raised3")>>,
                   fail |-> FdBy(tab.parent, "failure")]
  PROVE  ChildIsReady'
<1> DEFINE t == tab.parent
<1> DEFINE owners == Locals \cup Result
<1>1. /\ caller \in Callers /\ Holds(t, owners) /\ Has(t, "raised1") /\ Has(t, "raised2")
      /\ Has(t, "raised3") /\ Has(t, "failure")
  BY DEF IInv, TypeOK, ParentIsHeld, Left, Raising
<1>2. tab'.child = t
  OBVIOUS
<1> HIDE DEF t, owners
<1>3. /\ FdBy(t, "raised1") \in Fds /\ FdBy(t, "raised1") > STDERR_FILENO
      /\ t[FdBy(t, "raised1")].file = caller.stdio[1]
  BY <1>1, RaisedIs DEF Marked
<1>4. /\ FdBy(t, "raised2") \in Fds /\ FdBy(t, "raised2") > STDERR_FILENO
      /\ t[FdBy(t, "raised2")].file = caller.stdio[2]
  BY <1>1, RaisedIs DEF Marked
<1>5. /\ FdBy(t, "raised3") \in Fds /\ FdBy(t, "raised3") > STDERR_FILENO
      /\ t[FdBy(t, "raised3")].file = caller.stdio[3]
  BY <1>1, RaisedIs DEF Marked
<1>6. /\ FdBy(t, "failure") \in Fds /\ FdBy(t, "failure") > STDERR_FILENO
      /\ t[FdBy(t, "failure")].file = "reportW"
  BY <1>1, RaisedIs DEF Marked
<1>7. ready' = [stdio |-> <<FdBy(t, "raised1"), FdBy(t, "raised2"), FdBy(t, "raised3")>>,
                fail |-> FdBy(t, "failure")]
  BY DEF t
<1>8. \A i \in 1 .. 3 : /\ ready'.stdio[i] \in Fds /\ ready'.stdio[i] > STDERR_FILENO
                        /\ t[ready'.stdio[i]].file = caller.stdio[i]
  <2> SUFFICES ASSUME NEW i \in 1 .. 3
               PROVE  /\ ready'.stdio[i] \in Fds /\ ready'.stdio[i] > STDERR_FILENO
                      /\ t[ready'.stdio[i]].file = caller.stdio[i]
    OBVIOUS
  <2>1. CASE i = 1
    BY <1>3, <1>7, <2>1
  <2>2. CASE i = 2
    BY <1>4, <1>7, <2>2
  <2>3. CASE i = 3
    BY <1>5, <1>7, <2>3
  <2> QED  BY <2>1, <2>2, <2>3
<1>9. ASSUME caller.who = "pty", NEW f \in Fds, f > STDERR_FILENO
      PROVE  t[f] = Closed \/ t[f].cloexec = TRUE
  <2>1. caller.table[f] = Closed \/ caller.table[f].cloexec
    BY <1>1, <1>9, LaunchAssumption
  <2>2. caller.table[f].cloexec \in BOOLEAN
    <3>1. caller.table[f] \in {Closed} \cup {Slot(caller.table[g].file, b, "before") :
                                               g \in Fds, b \in BOOLEAN}
      BY <1>1, LaunchAssumption
    <3>2. CASE caller.table[f] = Closed
      BY <3>2 DEF Closed
    <3>3. CASE caller.table[f] # Closed
      <4>1. PICK g \in Fds, b \in BOOLEAN :
              caller.table[f] = Slot(caller.table[g].file, b, "before")
        BY <3>1, <3>3
      <4> QED  BY <4>1 DEF Slot
    <3> QED  BY <3>2, <3>3
  <2>3. t[f] = caller.table[f] \/ Marked(f, t[f])
    BY <1>1 DEF Holds
  <2> QED  BY <2>1, <2>2, <2>3 DEF Marked
<1>10. ASSUME caller.who = "relay"
       PROVE  \E f \in Fds : f > STDERR_FILENO /\ t[f].file = "lock"
  <2>1. PICK f \in Fds : f > STDERR_FILENO /\ caller.table[f].file = "lock"
    BY <1>1, <1>10, LaunchAssumption
  <2>2. caller.table[f] # Closed
    BY <2>1 DEF Closed
  <2>3. t[f] = caller.table[f]
    BY <1>1, <2>2 DEF Holds
  <2> QED  BY <2>1, <2>3
<1>11. ready'.fail = FdBy(t, "failure")
  BY <1>7
<1>12. Fds' = Fds /\ STDERR_FILENO' = STDERR_FILENO /\ Closed' = Closed
  BY DEF Fds, STDERR_FILENO, Closed
<1> QED  BY <1>2, <1>6, <1>8, <1>9, <1>10, <1>11, <1>12 DEF ChildIsReady

LEMMA ForksStep ==
  ASSUME IInv, Forks
  PROVE  IInv'
<1>0. pc = "fork" /\ pc \notin Forked \cup {"returned"}
  BY DEF Forks, Forked
<1>1. CASE Returns("error", Locals \cup Results) /\ UNCHANGED <<ready, child>>
  <2>1. UNCHANGED others
    BY <1>1 DEF Forks, others
  <2> QED  BY <1>0, <1>1, <2>1, GivesUp
<1>2. CASE /\ tab' = [tab EXCEPT !.child = tab.parent]
           /\ ready' = [stdio |-> <<FdBy(tab.parent, "raised1"), FdBy(tab.parent, "raised2"),
                                    FdBy(tab.parent, "raised3")>>,
                        fail |-> FdBy(tab.parent, "failure")]
           /\ child' = "setup" /\ pc' = "release" /\ result' = result
  <2>1. /\ caller' = caller /\ program' = program /\ raw' = raw /\ pipe' = pipe
        /\ envp' = envp /\ fork' = fork /\ faults' = faults
    BY DEF Forks
  <2>2. /\ DOMAIN tab' = {"parent", "child"} /\ tab'.parent = tab.parent
        /\ tab'.child = tab.parent
    BY <1>2 DEF IInv, TypeOK
  <2>3. child = "none" /\ envp = <<>> /\ pipe = "none" /\ result = "running" /\ fork = "none"
    BY <1>0 DEF IInv, TypeOK, ParentIsInStep, ChildIsInStep, Forked, Exited
  <2>4. TypeOK'
    BY <1>2, <2>1, <2>2 DEF IInv, TypeOK, Steps, Preparing
  <2>5. ParentIsHeld'
    <3>1. Left' = Left
      BY <1>0, <1>2, <2>1 DEF Left, Result
    <3> QED  BY <1>2, <2>1, <2>2, <3>1 DEF IInv, ParentIsHeld, Holds, Marked, Raising
  <2>6. ChildIsWell'
    <3>1. TableIsWhole'
      <4>1. caller \in Callers /\ Holds(tab.parent, Left)
        BY DEF IInv, TypeOK, ParentIsHeld
      <4>2. ASSUME NEW f \in Fds
            PROVE  IsSlot(tab.parent[f])
        BY <4>1, CallersOwn DEF Holds, Marked
      <4> QED  BY <2>2, <4>1, <4>2 DEF Holds, TableIsWhole, IsSlot
    <3>2. ChildIsReady'
      BY <1>0, <1>2, <2>1, <2>2, ForkedChildIsReady
    <3>3. ChildIsPlaced' /\ ChildIsEquipped'
      BY <1>2, <2>1, <2>3 DEF ChildIsPlaced, ChildIsEquipped, Became
    <3> QED  BY <3>1, <3>2, <3>3 DEF ChildIsWell
  <2>7. ParentIsInStep'
    BY <1>2, <2>1, <2>3 DEF ParentIsInStep, Forked
  <2>8. ChildIsInStep'
    BY <1>2, <2>1, <2>3 DEF ChildIsInStep, Preparing, Became, Exited
  <2>9. ReadIsTrue'
    BY <1>0, <1>2, <2>1 DEF IInv, ReadIsTrue
  <2>10. VerdictIsTrue'
    BY <1>2, <2>3 DEF VerdictIsTrue
  <2> QED  BY <2>4, <2>5, <2>6, <2>7, <2>8, <2>9, <2>10 DEF IInv
<1> QED  BY <1>1, <1>2 DEF Forks

LEMMA ReleasesStep ==
  ASSUME IInv, Releases
  PROVE  IInv'
<1> DEFINE closing == {"raised1", "raised2", "raised3", "failure"}
<1>1. /\ pc = "release" /\ pc' = "read" /\ result' = result
      /\ caller' = caller /\ program' = program /\ raw' = raw /\ ready' = ready /\ child' = child
      /\ pipe' = pipe /\ envp' = envp /\ fork' = fork /\ faults' = faults
  BY DEF Releases, others
<1>2. /\ tab'.parent = Drop(tab.parent, closing) /\ tab'.child = tab.child
      /\ DOMAIN tab' = {"parent", "child"}
  BY ParentTable DEF Releases, IInv
<1>3. Holds(tab'.parent, Left)
  <2>1. caller \in Callers /\ Holds(tab.parent, Left) /\ "before" \notin closing
        /\ "nobody" \notin closing /\ Left \subseteq closing \cup Left
    BY DEF IInv, TypeOK, ParentIsHeld
  <2> HIDE DEF closing
  <2> QED  BY <1>2, <2>1, DroppingHolds
<1>4. TypeOK'
  BY <1>1, <1>2 DEF IInv, TypeOK, Steps
<1>5. ParentIsHeld'
  <2>1. Left' = Left
    BY <1>1 DEF Left, Result
  <2> QED  BY <1>1, <1>3, <2>1 DEF ParentIsHeld, Holds, Marked, Raising
<1>6. ChildIsWell'
  BY <1>1, <1>2, ChildKeepsWell DEF IInv
<1>7. ParentIsInStep'
  BY <1>1 DEF IInv, ParentIsInStep, Forked
<1>8. ChildIsInStep'
  BY <1>1 DEF IInv, ChildIsInStep
<1>9. ReadIsTrue' /\ VerdictIsTrue'
  BY <1>1 DEF IInv, ReadIsTrue, VerdictIsTrue
<1> QED  BY <1>4, <1>5, <1>6, <1>7, <1>8, <1>9 DEF IInv

LEMMA ReadsStep ==
  ASSUME IInv, Reads
  PROVE  IInv'
<1>1. /\ pc = "read" /\ pc' = "verdict" /\ result' = result /\ tab' = tab
      /\ caller' = caller /\ program' = program /\ ready' = ready /\ child' = child
      /\ pipe' = pipe /\ envp' = envp /\ fork' = fork
  BY DEF Reads
<1>2. \/ raw' = pipe /\ faults' = faults
      \/ raw' = raw /\ faults' = faults \cup {"unread"}
  BY DEF Reads
<1>3. TypeOK'
  BY <1>1, <1>2 DEF IInv, TypeOK, Steps
<1>4. ParentIsHeld'
  <2>1. Left' = Left
    BY <1>1 DEF Left, Result
  <2> QED  BY <1>1, <2>1 DEF IInv, ParentIsHeld, Holds, Marked, Raising
<1>5. ChildIsWell'
  BY <1>1, ChildKeepsWell DEF IInv
<1>6. ParentIsInStep'
  BY <1>1 DEF IInv, ParentIsInStep, Forked
<1>7. ChildIsInStep'
  BY <1>1, <1>2 DEF IInv, ChildIsInStep
<1>8. ReadIsTrue'
  <2>1. raw' # "none" => pipe' # "none"
    BY <1>1, <1>2 DEF IInv, ReadIsTrue
  <2>2. ASSUME raw' = "none"
        PROVE  envp' # <<>> \/ faults' # {}
    <3>1. CASE faults' = faults \cup {"unread"}
      BY <3>1
    <3>2. CASE raw' = pipe /\ faults' = faults
      <4>1. ~WriteEndOpen /\ pipe = "none"
        BY <2>2, <3>2 DEF Reads
      <4>2. child \notin Preparing
        BY <4>1 DEF IInv, ChildIsWell, ChildIsReady, WriteEndOpen
      <4>3. child \in Became \cup Exited
        BY <1>1, <4>2 DEF IInv, TypeOK, ParentIsInStep, Forked
      <4> QED  BY <1>1, <3>2, <4>1, <4>3 DEF IInv, ChildIsInStep
    <3> QED  BY <1>2, <3>1, <3>2
  <2> QED  BY <1>1, <2>1, <2>2 DEF ReadIsTrue
<1>9. VerdictIsTrue'
  BY <1>1 DEF IInv, VerdictIsTrue, ParentIsInStep
<1> QED  BY <1>3, <1>4, <1>5, <1>6, <1>7, <1>8, <1>9 DEF IInv

(* A verdict, or the end of the wait for the daemon: the parent lets go of  *)
(* all but what it returns.                                                 *)
LEMMA LettingGo ==
  ASSUME IInv, NEW closing \in {Locals \cup Results, Locals, {"complaint"}},
         Parent(Drop(tab.parent, closing)), caller' = caller,
         Left \subseteq closing \cup Left',
         pc' \in {"await", "returned"}
  PROVE  /\ DOMAIN tab' = {"parent", "child"} /\ tab'.child = tab.child
         /\ ParentIsHeld'
<1>1. /\ tab'.parent = Drop(tab.parent, closing) /\ tab'.child = tab.child
      /\ DOMAIN tab' = {"parent", "child"}
  BY ParentTable DEF IInv
<1>2. caller \in Callers /\ Holds(tab.parent, Left) /\ "before" \notin closing
      /\ "nobody" \notin closing
  BY DEF IInv, TypeOK, ParentIsHeld, Locals, Results
<1>3. Holds(tab'.parent, Left')
  BY <1>1, <1>2, DroppingHolds
<1> QED  BY <1>1, <1>3 DEF ParentIsHeld, Holds, Marked, Raising

LEMMA ConcludesStep ==
  ASSUME IInv, Concludes
  PROVE  IInv'
<1>1. /\ pc = "verdict" /\ caller' = caller /\ program' = program /\ raw' = raw
      /\ ready' = ready /\ pipe' = pipe /\ envp' = envp /\ fork' = fork /\ faults' = faults
  BY DEF Concludes
<1>2. Left = Locals \cup Result /\ result = "running" /\ child # "none"
  BY <1>1 DEF IInv, Left, ParentIsInStep, Forked
<1>3. CASE raw # "none"
  <2>1. /\ child = "zombie" /\ child' = "reaped" /\ result' = "error" /\ pc' = "returned"
        /\ Parent(Drop(tab.parent, Locals \cup Results))
    BY <1>3 DEF Concludes, CollectsTheChild, Returns
  <2>2. pipe # "none" /\ envp = <<>>
    BY <1>3 DEF IInv, ReadIsTrue, ChildIsInStep
  <2>3. Left \subseteq (Locals \cup Results) \cup Left'
    BY <1>2 DEF Result, Results
  <2>4. DOMAIN tab' = {"parent", "child"} /\ tab'.child = tab.child /\ ParentIsHeld'
    BY <1>1, <2>1, <2>3, LettingGo
  <2>5. TypeOK'
    BY <1>1, <2>1, <2>4 DEF IInv, TypeOK, Steps, Exited
  <2>6. ChildIsWell'
    BY <1>1, <2>1, <2>4, ChildKeepsWell DEF IInv, Exited
  <2>7. ParentIsInStep'
    BY <2>1 DEF ParentIsInStep, Forked
  <2>8. ChildIsInStep'
    BY <1>1, <2>1, <2>2 DEF IInv, ChildIsInStep, Exited, Preparing, Became
  <2>9. ReadIsTrue' /\ VerdictIsTrue'
    BY <1>1, <2>1, <2>2 DEF ReadIsTrue, VerdictIsTrue
  <2> QED  BY <2>4, <2>5, <2>6, <2>7, <2>8, <2>9 DEF IInv
<1>4. CASE raw = "none"
  <2>1. child' = child /\ (envp # <<>> \/ faults # {})
    BY <1>1, <1>4 DEF IInv, Concludes, ReadIsTrue
  <2>2. CASE caller.who # "relay"
    <3>1. result' = "ok" /\ pc' = "returned" /\ Parent(Drop(tab.parent, Locals))
      BY <1>4, <2>2 DEF Concludes, Returns
    <3>2. Left \subseteq Locals \cup Left'
      BY <1>1, <1>2, <2>2, <3>1 DEF Result, Left
    <3>3. DOMAIN tab' = {"parent", "child"} /\ tab'.child = tab.child /\ ParentIsHeld'
      BY <1>1, <3>1, <3>2, LettingGo
    <3>4. TypeOK'
      BY <1>1, <2>1, <3>1, <3>3 DEF IInv, TypeOK, Steps
    <3>5. ChildIsWell'
      BY <1>1, <2>1, <3>3, ChildKeepsWell DEF IInv
    <3>6. ParentIsInStep'
      BY <3>1 DEF ParentIsInStep, Forked
    <3>7. ChildIsInStep'
      BY <1>1, <2>1 DEF IInv, ChildIsInStep
    <3>8. ReadIsTrue' /\ VerdictIsTrue'
      BY <1>1, <1>4, <2>1, <2>2, <3>1 DEF ReadIsTrue, VerdictIsTrue
    <3> QED  BY <3>3, <3>4, <3>5, <3>6, <3>7, <3>8 DEF IInv
  <2>3. CASE caller.who = "relay"
    <3>1. result' = result /\ pc' = "await" /\ Parent(Drop(tab.parent, Locals))
      BY <1>4, <2>3 DEF Concludes
    <3>2. Left \subseteq Locals \cup Left'
      BY <1>1, <1>2, <2>3, <3>1 DEF Result, Left
    <3>3. DOMAIN tab' = {"parent", "child"} /\ tab'.child = tab.child /\ ParentIsHeld'
      BY <1>1, <3>1, <3>2, LettingGo
    <3>4. TypeOK'
      BY <1>1, <2>1, <3>1, <3>3 DEF IInv, TypeOK, Steps
    <3>5. ChildIsWell'
      BY <1>1, <2>1, <3>3, ChildKeepsWell DEF IInv
    <3>6. ParentIsInStep'
      BY <1>1, <1>2, <2>1, <2>3, <3>1 DEF ParentIsInStep, Forked
    <3>7. ChildIsInStep'
      BY <1>1, <2>1 DEF IInv, ChildIsInStep
    <3>8. ReadIsTrue' /\ VerdictIsTrue'
      BY <1>1, <1>2, <1>4, <2>1, <3>1 DEF ReadIsTrue, VerdictIsTrue
    <3> QED  BY <3>3, <3>4, <3>5, <3>6, <3>7, <3>8 DEF IInv
  <2> QED  BY <2>2, <2>3
<1> QED  BY <1>3, <1>4

LEMMA AwaitsStep ==
  ASSUME IInv, Awaits
  PROVE  IInv'
<1>1. /\ pc = "await" /\ pc' = "returned" /\ Parent(Drop(tab.parent, {"complaint"}))
      /\ caller' = caller /\ program' = program /\ raw' = raw
      /\ ready' = ready /\ pipe' = pipe /\ envp' = envp /\ fork' = fork /\ faults' = faults
  BY DEF Awaits, Returns
<1>2. /\ caller.who = "relay" /\ raw = "none" /\ (envp # <<>> \/ faults # {})
      /\ Left = {"complaint"}
  BY <1>1 DEF IInv, ParentIsInStep, ReadIsTrue, Left
<1>3. DOMAIN tab' = {"parent", "child"} /\ tab'.child = tab.child /\ ParentIsHeld'
  <2>1. Left \subseteq {"complaint"} \cup Left'
    BY <1>2
  <2> QED  BY <1>1, <2>1, LettingGo
<1>4. \/ result' = "ok" /\ Published /\ child' = ReapIfExited
      \/ result' = "timed out" /\ child' = child
  BY DEF Awaits, Returns
<1>5. child' = child \/ (child = "zombie" /\ child' = "reaped")
  BY <1>4 DEF ReapIfExited
<1>6. TypeOK'
  BY <1>1, <1>3, <1>4, <1>5 DEF IInv, TypeOK, Steps, Exited
<1>7. ChildIsWell'
  BY <1>1, <1>3, <1>5, ChildKeepsWell DEF IInv, Exited
<1>8. ParentIsInStep'
  BY <1>1, <1>4 DEF ParentIsInStep, Forked
<1>9. ChildIsInStep'
  <2>1. CASE child' = child
    BY <1>1, <2>1 DEF IInv, ChildIsInStep
  <2>2. CASE child = "zombie" /\ child' = "reaped"
    BY <1>1, <2>2 DEF IInv, ChildIsInStep, Exited, Preparing, Became
  <2> QED  BY <1>5, <2>1, <2>2
<1>10. ReadIsTrue'
  BY <1>1, <1>2 DEF ReadIsTrue
<1>11. VerdictIsTrue'
  <2>1. CASE result' = "ok" /\ Published /\ child' = ReapIfExited
    <3>1. child = "serving" \/ child \in {"zombie", "reaped"}
      BY <2>1 DEF IInv, ChildIsInStep, Published, Exited
    <3>2. child' \in {"serving", "reaped"}
      BY <2>1, <3>1 DEF ReapIfExited
    <3> QED  BY <1>1, <1>2, <2>1, <3>2 DEF VerdictIsTrue
  <2>2. CASE result' = "timed out" /\ child' = child
    BY <2>2 DEF VerdictIsTrue
  <2> QED  BY <1>4, <2>1, <2>2
<1> QED  BY <1>3, <1>6, <1>7, <1>8, <1>9, <1>10, <1>11 DEF IInv

-----------------------------------------------------------------------------
(* The steps of the child                                                   *)

LEMMA ChildTable ==
  ASSUME TypeOK, NEW t, Child(t)
  PROVE  DOMAIN tab' = {"parent", "child"} /\ tab'.child = t /\ tab'.parent = tab.parent
BY DEF TypeOK, Child

(* The parent stays as it was, and what it was told.                        *)
LEMMA ParentStandsBy ==
  ASSUME IInv, UNCHANGED still, tab'.parent = tab.parent, DOMAIN tab' = {"parent", "child"},
         child \in Preparing \cup Became, child # "serving",
         child' \in Preparing \cup Became \cup Exited,
         pipe' \in {"none", "errno"}, pipe # "none" => pipe' # "none",
         envp # <<>> => envp' # <<>>, faults # {} => faults' # {}
  PROVE  TypeOK' /\ ParentIsHeld' /\ ParentIsInStep' /\ ReadIsTrue' /\ VerdictIsTrue'
<1>1. /\ caller' = caller /\ program' = program /\ pc' = pc /\ result' = result
      /\ raw' = raw /\ ready' = ready /\ fork' = fork
  BY DEF still
<1>2. TypeOK'
  BY <1>1 DEF IInv, TypeOK
<1>3. ParentIsHeld'
  <2>1. Left' = Left
    BY <1>1 DEF Left, Result
  <2> QED  BY <1>1, <2>1 DEF IInv, ParentIsHeld, Holds, Marked, Raising
<1>4. child # "none" /\ child' # "none"
  BY DEF Preparing, Became, Exited
<1>5. ParentIsInStep'
  BY <1>1, <1>4 DEF IInv, ParentIsInStep
<1>6. ReadIsTrue'
  BY <1>1 DEF IInv, ReadIsTrue
<1>7. child \notin {"none", "serving", "reaped"}
  BY DEF Preparing, Became
<1>8. result # "error" /\ ~(result = "ok" /\ caller.who = "relay")
  BY <1>7 DEF IInv, VerdictIsTrue
<1>9. VerdictIsTrue'
  BY <1>1, <1>8 DEF IInv, VerdictIsTrue
<1> QED  BY <1>2, <1>3, <1>5, <1>6, <1>9

(* A file the child was given stays where it is while others are placed.    *)
LEMMA PlacingKeeps ==
  ASSUME ChildIsReady, TableIsWhole, child \in Preparing, NEW i \in 1 .. 3
  PROVE  /\ DOMAIN Placed(i) = Fds /\ \A f \in Fds : IsSlot(Placed(i)[f])
         /\ Placed(i)[i - 1].file = caller.stdio[i] /\ Placed(i)[i - 1].cloexec = FALSE
         /\ \A f \in Fds : f # i - 1 => Placed(i)[f] = tab.child[f]
         /\ \A f \in Fds : f > STDERR_FILENO => Placed(i)[f] = tab.child[f]
<1>1. /\ ready.stdio[i] \in Fds /\ ready.stdio[i] > STDERR_FILENO
      /\ tab.child[ready.stdio[i]].file = caller.stdio[i]
  BY DEF ChildIsReady
<1>2. i - 1 \in Fds /\ ~(i - 1 > STDERR_FILENO) /\ ready.stdio[i] # i - 1
  BY <1>1, FdsAreNumbers DEF STDERR_FILENO
<1>3. Placed(i) = [tab.child EXCEPT ![i - 1] =
                     [file |-> tab.child[ready.stdio[i]].file, cloexec |-> FALSE, by |-> "stdio"]]
  BY <1>2 DEF Placed, Slot
<1>4. DOMAIN tab.child = Fds /\ \A f \in Fds : IsSlot(tab.child[f])
  BY DEF TableIsWhole
<1>5. ASSUME NEW f \in Fds
      PROVE  IsSlot(Placed(i)[f])
  <2>1. CASE f = i - 1
    BY <1>3, <1>4, <2>1 DEF IsSlot
  <2>2. CASE f # i - 1
    BY <1>3, <1>4, <2>2
  <2> QED  BY <2>1, <2>2
<1>6. DOMAIN Placed(i) = Fds
  BY <1>3, <1>4
<1>7. Placed(i)[i - 1].file = caller.stdio[i] /\ Placed(i)[i - 1].cloexec = FALSE
  BY <1>1, <1>2, <1>3, <1>4
<1>8. \A f \in Fds : f # i - 1 => Placed(i)[f] = tab.child[f]
  BY <1>3, <1>4
<1>9. \A f \in Fds : f > STDERR_FILENO => Placed(i)[f] = tab.child[f]
  BY <1>2, <1>8
<1> QED  BY <1>5, <1>6, <1>7, <1>8, <1>9

(* The numbers a child was given hold on while the slots above 2 do.        *)
LEMMA ReadyKeeps ==
  ASSUME ChildIsReady, child \in Preparing, UNCHANGED still, child' \in Preparing,
         \A f \in Fds : f > STDERR_FILENO => tab'.child[f] = tab.child[f],
         child \in {"setup", "report"} => child' \in {"setup", "report"}
  PROVE  ChildIsReady'
<1>1. caller' = caller /\ ready' = ready
  BY DEF still
<1>2. \A i \in 1 .. 3 : /\ ready.stdio[i] \in Fds /\ ready.stdio[i] > STDERR_FILENO
                        /\ tab'.child[ready.stdio[i]].file = caller.stdio[i]
  BY DEF ChildIsReady
<1>3. /\ ready.fail \in Fds /\ ready.fail > STDERR_FILENO
      /\ tab'.child[ready.fail].file = "reportW"
  BY DEF ChildIsReady
<1>4. ASSUME caller.who = "pty", NEW f \in Fds, f > STDERR_FILENO
      PROVE  tab'.child[f] = Closed \/ tab'.child[f].cloexec = TRUE
  BY <1>4 DEF ChildIsReady
<1>5. ASSUME caller.who = "relay"
      PROVE  \E f \in Fds : /\ f > STDERR_FILENO /\ tab'.child[f].file = "lock"
                            /\ child' \in {"setup", "report"} \/ tab'.child[f].cloexec = FALSE
  <2>1. PICK f \in Fds : /\ f > STDERR_FILENO /\ tab.child[f].file = "lock"
                         /\ child \in {"setup", "report"} \/ tab.child[f].cloexec = FALSE
    BY <1>5 DEF ChildIsReady
  <2>2. tab'.child[f] = tab.child[f]
    BY <2>1
  <2>3. child' \in {"setup", "report"} \/ tab'.child[f].cloexec = FALSE
    BY <2>1, <2>2
  <2> QED  BY <2>1, <2>2, <2>3
<1>6. Closed' = Closed /\ Fds' = Fds /\ STDERR_FILENO' = STDERR_FILENO
  BY DEF Closed, Fds, STDERR_FILENO
<1> QED  BY <1>1, <1>2, <1>3, <1>4, <1>5, <1>6 DEF ChildIsReady

(* setup changes no file, and lets the lock, if any, across.                *)
LEMMA SetupKeeps ==
  ASSUME IInv, child = "setup", UNCHANGED still, tab'.child = AfterSetup,
         child' = "place1"
  PROVE  ChildIsReady' /\ TableIsWhole'
<1>1. caller' = caller /\ ready' = ready /\ ChildIsReady /\ DOMAIN tab.child = Fds
      /\ child \in Preparing /\ child' \in Preparing
  BY DEF still, IInv, ChildIsWell, TableIsWhole, Preparing
<1>2. /\ DOMAIN tab'.child = Fds
      /\ \A f \in Fds : /\ IsSlot(tab'.child[f])
                        /\ tab'.child[f].file = tab.child[f].file
                        /\ caller.who = "pty" => tab'.child[f] = tab.child[f]
                        /\ caller.who = "relay" /\ tab.child[f].file = "lock" =>
                             tab'.child[f].cloexec = FALSE
  <2>1. \A f \in Fds : IsSlot(tab.child[f])
    BY DEF IInv, ChildIsWell, TableIsWhole
  <2>2. CASE caller.who = "relay"
    <3>1. tab'.child = [f \in Fds |-> IF tab.child[f].file = "lock"
                                      THEN [tab.child[f] EXCEPT !.cloexec = FALSE]
                                      ELSE tab.child[f]]
      BY <2>2 DEF AfterSetup, LockCrosses
    <3>2. ASSUME NEW f \in Fds
          PROVE  /\ IsSlot(tab'.child[f]) /\ tab'.child[f].file = tab.child[f].file
                 /\ tab.child[f].file = "lock" => tab'.child[f].cloexec = FALSE
      BY <2>1, <3>1 DEF IsSlot
    <3> QED  BY <2>2, <3>1, <3>2
  <2>3. CASE caller.who # "relay"
    BY <1>1, <2>1, <2>3 DEF AfterSetup
  <2> QED  BY <2>2, <2>3
<1>3. \A i \in 1 .. 3 : /\ ready.stdio[i] \in Fds /\ ready.stdio[i] > STDERR_FILENO
                        /\ tab'.child[ready.stdio[i]].file = caller.stdio[i]
  BY <1>1, <1>2 DEF ChildIsReady
<1>4. /\ ready.fail \in Fds /\ ready.fail > STDERR_FILENO
      /\ tab'.child[ready.fail].file = "reportW"
  BY <1>1, <1>2 DEF ChildIsReady
<1>5. ASSUME caller.who = "pty", NEW f \in Fds, f > STDERR_FILENO
      PROVE  tab'.child[f] = Closed \/ tab'.child[f].cloexec = TRUE
  BY <1>1, <1>2, <1>5 DEF ChildIsReady
<1>6. ASSUME caller.who = "relay"
      PROVE  \E f \in Fds : /\ f > STDERR_FILENO /\ tab'.child[f].file = "lock"
                            /\ tab'.child[f].cloexec = FALSE
  <2>1. PICK f \in Fds : f > STDERR_FILENO /\ tab.child[f].file = "lock"
    BY <1>1, <1>6 DEF ChildIsReady
  <2> QED  BY <1>2, <1>6, <2>1
<1>7. Closed' = Closed /\ Fds' = Fds /\ STDERR_FILENO' = STDERR_FILENO
  BY DEF Closed, Fds, STDERR_FILENO
<1>8. ChildIsReady'
  BY <1>1, <1>3, <1>4, <1>5, <1>6, <1>7 DEF ChildIsReady
<1>9. TableIsWhole'
  BY <1>2 DEF TableIsWhole, IsSlot
<1> QED  BY <1>8, <1>9


(* A child that goes on preparing has become nothing yet.                   *)
LEMMA GoesOnPreparing ==
  ASSUME IInv, child \in Preparing, child' \in Preparing, UNCHANGED <<still, pipe, envp, faults>>,
         tab'.parent = tab.parent, DOMAIN tab' = {"parent", "child"},
         TableIsWhole', ChildIsReady', ChildIsPlaced'
  PROVE  IInv'
<1>1. UNCHANGED still /\ pipe' = pipe /\ envp' = envp /\ faults' = faults
      /\ fork' = fork /\ caller' = caller /\ program' = program
  BY DEF still
<1>2. child # "serving" /\ child' \notin Became \cup Exited \cup {"none"} /\ child \notin Exited
  BY DEF Preparing, Became, Exited
<1>3. TypeOK' /\ ParentIsHeld' /\ ParentIsInStep' /\ ReadIsTrue' /\ VerdictIsTrue'
  <2>1. pipe' \in {"none", "errno"}
    BY <1>1 DEF IInv, TypeOK
  <2> QED  BY <1>1, <1>2, <2>1, ParentStandsBy
<1>4. fork = "none"
  BY <1>2 DEF IInv, TypeOK, ChildIsInStep
<1>5. ChildIsEquipped'
  BY <1>1, <1>2, <1>4 DEF ChildIsEquipped, Became
<1>6. envp = <<>> /\ pipe = "none"
  BY DEF IInv, ChildIsInStep
<1>7. ChildIsInStep'
  BY <1>1, <1>2, <1>4, <1>6 DEF ChildIsInStep, Became
<1> QED  BY <1>3, <1>5, <1>7 DEF IInv, ChildIsWell

LEMMA FailsACall ==
  ASSUME IInv, child \in Preparing \ {"report"}, child' = "report",
         UNCHANGED <<still, pipe, envp, faults>>, tab' = tab
  PROVE  IInv'
<1>1. UNCHANGED still /\ child' \in Preparing /\ child \in Preparing
  BY DEF Preparing
<1>2. ChildIsReady' 
  BY <1>1 DEF IInv, ChildIsWell, ChildIsReady, still
<1>3. TableIsWhole' /\ ChildIsPlaced'
  BY DEF IInv, ChildIsWell, TableIsWhole, ChildIsPlaced
<1>4. DOMAIN tab' = {"parent", "child"} /\ tab'.parent = tab.parent
  BY DEF IInv, TypeOK
<1> QED  BY <1>1, <1>2, <1>3, <1>4, GoesOnPreparing

LEMMA SetupStep ==
  ASSUME IInv, ChildCalls("setup", "place1", AfterSetup)
  PROVE  IInv'
<1>1. child = "setup" /\ child \in Preparing \ {"report"} /\ "place1" \in Preparing
      /\ UNCHANGED <<still, pipe, envp, faults>>
  BY DEF ChildCalls, Preparing
<1>2. CASE child' = "report" /\ tab' = tab
  BY <1>1, <1>2, FailsACall
<1>3. CASE child' = "place1" /\ Child(AfterSetup)
  <2>1. DOMAIN tab' = {"parent", "child"} /\ tab'.child = AfterSetup /\ tab'.parent = tab.parent
    BY <1>3, ChildTable DEF IInv
  <2>2. UNCHANGED still
    BY <1>1
  <2>3. ChildIsReady' /\ TableIsWhole'
    BY <1>1, <1>3, <2>1, <2>2, SetupKeeps
  <2>4. ChildIsPlaced'
    BY <1>3 DEF ChildIsPlaced
  <2> QED  BY <1>1, <1>3, <2>1, <2>3, <2>4, GoesOnPreparing
<1> QED  BY <1>2, <1>3 DEF ChildCalls, Goes

LEMMA PlaceStep ==
  ASSUME IInv, \/ ChildCalls("place1", "place2", Placed(1))
               \/ ChildCalls("place2", "place3", Placed(2))
               \/ ChildCalls("place3", "chdir", Placed(3))
  PROVE  IInv'
<1>1. UNCHANGED <<still, pipe, envp, faults>> /\ UNCHANGED still /\ caller' = caller
  BY DEF ChildCalls, still
<1>2. PICK i \in 1 .. 3 :
        /\ \/ (i = 1 /\ child = "place1") \/ (i = 2 /\ child = "place2")
           \/ (i = 3 /\ child = "place3")
        /\ \/ /\ \/ (i = 1 /\ child' = "place2") \/ (i = 2 /\ child' = "place3")
                 \/ (i = 3 /\ child' = "chdir")
              /\ Child(Placed(i))
           \/ (child' = "report" /\ tab' = tab)
  <2>1. CASE ChildCalls("place1", "place2", Placed(1))
    <3>1. /\ child = "place1"
          /\ (child' = "place2" /\ Child(Placed(1))) \/ (child' = "report" /\ tab' = tab)
      BY <2>1 DEF ChildCalls, Goes
    <3> QED  BY <3>1
  <2>2. CASE ChildCalls("place2", "place3", Placed(2))
    <3>1. /\ child = "place2"
          /\ (child' = "place3" /\ Child(Placed(2))) \/ (child' = "report" /\ tab' = tab)
      BY <2>2 DEF ChildCalls, Goes
    <3> QED  BY <3>1
  <2>3. CASE ChildCalls("place3", "chdir", Placed(3))
    <3>1. /\ child = "place3"
          /\ (child' = "chdir" /\ Child(Placed(3))) \/ (child' = "report" /\ tab' = tab)
      BY <2>3 DEF ChildCalls, Goes
    <3> QED  BY <3>1
  <2> QED  BY <2>1, <2>2, <2>3
<1>3. child \in Preparing \ {"report", "setup"} /\ ChildIsReady /\ TableIsWhole
  BY <1>2 DEF Preparing, IInv, ChildIsWell
<1>4. CASE child' = "report" /\ tab' = tab
  BY <1>1, <1>3, <1>4, FailsACall
<1>5. CASE /\ \/ (i = 1 /\ child' = "place2") \/ (i = 2 /\ child' = "place3")
              \/ (i = 3 /\ child' = "chdir")
           /\ Child(Placed(i))
  <2>1. DOMAIN tab' = {"parent", "child"} /\ tab'.child = Placed(i) /\ tab'.parent = tab.parent
    BY <1>5, ChildTable DEF IInv
  <2>2. /\ DOMAIN Placed(i) = Fds /\ \A f \in Fds : IsSlot(Placed(i)[f])
        /\ Placed(i)[i - 1].file = caller.stdio[i] /\ Placed(i)[i - 1].cloexec = FALSE
        /\ \A f \in Fds : f # i - 1 => Placed(i)[f] = tab.child[f]
        /\ \A f \in Fds : f > STDERR_FILENO => Placed(i)[f] = tab.child[f]
    BY <1>3, PlacingKeeps
  <2>3. child' \in Preparing
    BY <1>5 DEF Preparing
  <2>4. ChildIsReady'
    BY <1>1, <1>3, <2>1, <2>2, <2>3, ReadyKeeps
  <2>5. TableIsWhole'
    BY <2>1, <2>2 DEF TableIsWhole, IsSlot
  <2>6. /\ Stands(i)'
        /\ \A j \in 1 .. 3 : j # i /\ Stands(j) => Stands(j)'
    <3>1. Stands(i)'
      BY <1>1, <2>1, <2>2 DEF Stands
    <3>2. ASSUME NEW j \in 1 .. 3, j # i, Stands(j)
          PROVE  Stands(j)'
      <4>1. j - 1 \in Fds /\ j - 1 # i - 1
        BY <3>2, FdsAreNumbers
      <4>2. tab'.child[j - 1] = tab.child[j - 1]
        BY <2>1, <2>2, <4>1
      <4> QED  BY <1>1, <3>2, <4>2 DEF Stands
    <3> QED  BY <3>1, <3>2
  <2>7. ChildIsPlaced'
    <3>1. CASE i = 1
      BY <1>5, <2>6, <3>1 DEF ChildIsPlaced
    <3>2. CASE i = 2
      <4>1. Stands(1)
        BY <1>2, <3>2 DEF IInv, ChildIsWell, ChildIsPlaced
      <4>2. Stands(1)' /\ Stands(2)'
        BY <2>6, <3>2, <4>1
      <4> QED  BY <1>5, <3>2, <4>2 DEF ChildIsPlaced
    <3>3. CASE i = 3
      <4>1. Stands(1) /\ Stands(2)
        BY <1>2, <3>3 DEF IInv, ChildIsWell, ChildIsPlaced
      <4>2. Stands(1)' /\ Stands(2)' /\ Stands(3)'
        BY <2>6, <3>3, <4>1
      <4> QED  BY <4>2 DEF ChildIsPlaced
    <3> QED  BY <3>1, <3>2, <3>3
  <2> QED  BY <1>1, <1>3, <2>1, <2>3, <2>4, <2>5, <2>7, GoesOnPreparing
<1> QED  BY <1>2, <1>4, <1>5

LEMMA ChdirStep ==
  ASSUME IInv, ChildCalls("chdir", "exec", tab.child)
  PROVE  IInv'
<1>1. child = "chdir" /\ child \in Preparing \ {"report", "setup"} /\ "exec" \in Preparing
      /\ UNCHANGED <<still, pipe, envp, faults>> /\ UNCHANGED still /\ caller' = caller
  BY DEF ChildCalls, Preparing, still
<1>2. CASE child' = "report" /\ tab' = tab
  BY <1>1, <1>2, FailsACall
<1>3. CASE child' = "exec" /\ Child(tab.child)
  <2>1. DOMAIN tab' = {"parent", "child"} /\ tab'.child = tab.child /\ tab'.parent = tab.parent
    BY <1>3, ChildTable DEF IInv
  <2>2. ChildIsReady /\ TableIsWhole
    BY DEF IInv, ChildIsWell
  <2>3. ChildIsReady'
    BY <1>1, <1>3, <2>1, <2>2, ReadyKeeps
  <2>4. TableIsWhole'
    BY <2>1, <2>2 DEF TableIsWhole
  <2>5. ChildIsPlaced'
    BY <1>1, <2>1 DEF IInv, ChildIsWell, ChildIsPlaced, Stands
  <2> QED  BY <1>1, <1>3, <2>1, <2>3, <2>4, <2>5, GoesOnPreparing
<1> QED  BY <1>2, <1>3 DEF ChildCalls, Goes

(* The execve closes what does not cross it, which leaves the three placed  *)
(* files, and of the rest the lock of a daemon.                             *)
LEMMA BecomesStep ==
  ASSUME IInv, child = "exec", child' = "program", Child(AcrossExec(tab.child)),
         envp' = Environment(program), UNCHANGED <<still, pipe, faults>>
  PROVE  IInv'
<1>1. UNCHANGED still /\ pipe' = pipe /\ faults' = faults
      /\ fork' = fork /\ caller' = caller /\ program' = program
  BY DEF still
<1>2. DOMAIN tab' = {"parent", "child"} /\ tab'.child = AcrossExec(tab.child)
      /\ tab'.parent = tab.parent
  BY ChildTable DEF IInv
<1>3. ChildIsReady /\ TableIsWhole /\ Stands(1) /\ Stands(2) /\ Stands(3)
  BY DEF IInv, ChildIsWell, ChildIsPlaced
<1>4. /\ child \in Preparing /\ child \notin {"setup", "report", "serving", "none"} \cup Exited
      /\ child' \in Became /\ child' \notin Preparing \cup Exited \cup {"none"}
      /\ child' \notin {"place2", "place3", "chdir", "exec", "detaching", "serving"}
  BY DEF Preparing, Became, Exited
<1>5. envp = <<>> /\ pipe = "none" /\ fork = "none"
  BY <1>4 DEF IInv, TypeOK, ChildIsInStep
<1>6. envp' # <<>>
  BY EnvironmentIsSome DEF IInv, TypeOK
<1>7. TypeOK' /\ ParentIsHeld' /\ ParentIsInStep' /\ ReadIsTrue' /\ VerdictIsTrue'
  <2>1. pipe' \in {"none", "errno"}
    BY <1>1, <1>5
  <2> QED  BY <1>1, <1>2, <1>4, <1>5, <1>6, <2>1, ParentStandsBy
<1>8. /\ DOMAIN tab'.child = Fds
      /\ \A f \in Fds : tab'.child[f] = IF tab.child[f].cloexec THEN Closed ELSE tab.child[f]
  BY <1>2 DEF AcrossExec
<1>9. TableIsWhole'
  <2>1. \A f \in Fds : IsSlot(tab'.child[f])
    BY <1>3, <1>8 DEF TableIsWhole, IsSlot, Closed
  <2> QED  BY <1>8, <2>1 DEF TableIsWhole, IsSlot
<1>10. ChildIsReady' /\ ChildIsPlaced'
  BY <1>4 DEF ChildIsReady, ChildIsPlaced
<1>11. \A i \in 1 .. 3 : tab'.child[i - 1].file = caller.stdio[i]
  <2> SUFFICES ASSUME NEW i \in 1 .. 3
               PROVE  tab'.child[i - 1].file = caller.stdio[i]
    OBVIOUS
  <2>1. Stands(i)
    <3>1. i = 1 \/ i = 2 \/ i = 3
      OBVIOUS
    <3> QED  BY <1>3, <3>1
  <2>2. i - 1 \in Fds
    BY FdsAreNumbers
  <2>3. tab'.child[i - 1] = tab.child[i - 1]
    BY <1>8, <2>1, <2>2 DEF Stands
  <2> QED  BY <2>1, <2>3 DEF Stands
<1>12. ASSUME caller.who = "pty"
       PROVE  Beyond' = {}
  <2>1. \A f \in Fds : f > STDERR_FILENO => tab'.child[f].file = "none"
    BY <1>3, <1>4, <1>8, <1>12 DEF ChildIsReady, Closed
  <2> QED  BY <2>1 DEF Beyond
<1>13. ASSUME caller.who = "relay"
       PROVE  HasTheLock'
  <2>1. PICK f \in Fds : /\ f > STDERR_FILENO /\ tab.child[f].file = "lock"
                         /\ tab.child[f].cloexec = FALSE
    BY <1>3, <1>4, <1>13 DEF ChildIsReady
  <2>2. tab'.child[f] = tab.child[f]
    BY <1>8, <2>1
  <2> QED  BY <2>1, <2>2 DEF HasTheLock
<1>14. ChildIsEquipped'
  BY <1>1, <1>4, <1>5, <1>11, <1>12, <1>13 DEF ChildIsEquipped
<1>15. ChildIsInStep'
  BY <1>1, <1>4, <1>5, <1>6 DEF ChildIsInStep
<1> QED  BY <1>7, <1>9, <1>10, <1>14, <1>15 DEF IInv, ChildIsWell

LEMMA ChildExecsStep ==
  ASSUME IInv, ChildExecs
  PROVE  IInv'
<1>1. child = "exec" /\ UNCHANGED <<still, pipe, faults>>
  BY DEF ChildExecs
<1>2. CASE child' = "program" /\ Child(AcrossExec(tab.child)) /\ envp' = Environment(program)
  BY <1>1, <1>2, BecomesStep
<1>3. CASE child' = "report" /\ UNCHANGED <<tab, envp>>
  <2>1. child \in Preparing \ {"report"}
    BY <1>1 DEF Preparing
  <2> QED  BY <1>1, <1>3, <2>1, FailsACall
<1> QED  BY <1>2, <1>3 DEF ChildExecs, Goes

(* A child that never became a program exits, having said so or with        *)
(* something to account for its silence.                                    *)
LEMMA ExitsStep ==
  ASSUME IInv, child \in Preparing, child' = "zombie", Child([f \in Fds |-> Closed]),
         UNCHANGED <<still, envp>>, pipe' \in {"none", "errno"},
         faults # {} => faults' # {}, pipe' # "none" \/ faults' # {}
  PROVE  IInv'
<1>1. UNCHANGED still /\ envp' = envp /\ fork' = fork /\ caller' = caller /\ program' = program
  BY DEF still
<1>2. DOMAIN tab' = {"parent", "child"} /\ tab'.child = [f \in Fds |-> Closed]
      /\ tab'.parent = tab.parent
  BY ChildTable DEF IInv
<1>3. /\ child \notin {"serving", "none"} \cup Exited /\ child' \in Exited
      /\ child' \notin Preparing \cup Became \cup {"none"}
      /\ child' \notin {"place2", "place3", "chdir", "exec", "program", "detaching", "serving"}
  BY DEF Preparing, Became, Exited
<1>4. envp = <<>> /\ pipe = "none" /\ fork = "none"
  BY <1>3 DEF IInv, TypeOK, ChildIsInStep
<1>5. TypeOK' /\ ParentIsHeld' /\ ParentIsInStep' /\ ReadIsTrue' /\ VerdictIsTrue'
  BY <1>1, <1>2, <1>3, <1>4, ParentStandsBy
<1>6. TableIsWhole'
  BY <1>2 DEF TableIsWhole, IsSlot, Closed
<1>7. ChildIsReady' /\ ChildIsPlaced'
  BY <1>3 DEF ChildIsReady, ChildIsPlaced
<1>8. ChildIsEquipped'
  BY <1>1, <1>3, <1>4 DEF ChildIsEquipped
<1>9. ChildIsInStep'
  BY <1>1, <1>3, <1>4 DEF ChildIsInStep
<1> QED  BY <1>5, <1>6, <1>7, <1>8, <1>9 DEF IInv, ChildIsWell

LEMMA ChildReportsStep ==
  ASSUME IInv, ChildReports
  PROVE  IInv'
<1>1. child = "report" /\ child' = "zombie" /\ Child([f \in Fds |-> Closed])
      /\ UNCHANGED <<still, envp>> /\ child \in Preparing
  BY DEF ChildReports, Goes, Preparing
<1>2. tab.child[ready.fail].file = "reportW"
  BY <1>1 DEF IInv, ChildIsWell, ChildIsReady
<1>3. (pipe' = "errno" /\ faults' = faults) \/ (pipe' = pipe /\ faults' = faults \cup {"refused"})
  BY <1>2 DEF ChildReports
<1>4. pipe' \in {"none", "errno"}
  BY <1>3 DEF IInv, TypeOK
<1> QED  BY <1>1, <1>3, <1>4, ExitsStep

LEMMA ChildIsKilledStep ==
  ASSUME IInv, ChildIsKilled
  PROVE  IInv'
<1>1. child \in Preparing /\ child' = "zombie" /\ Child([f \in Fds |-> Closed])
      /\ UNCHANGED <<still, envp>> /\ pipe' = pipe /\ faults' = faults \cup {"killed"}
  BY DEF ChildIsKilled, Goes
<1>2. pipe' \in {"none", "errno"}
  BY <1>1 DEF IInv, TypeOK
<1> QED  BY <1>1, <1>2, ExitsStep

(* A daemon keeps the lock and closes the rest, and it or its fork serves.  *)
LEMMA DaemonStartsStep ==
  ASSUME IInv, DaemonStarts
  PROVE  IInv'
<1>1. /\ caller.who = "relay" /\ child = "program" /\ child' = "detaching"
      /\ Child(CloseInherited(tab.child)) /\ UNCHANGED still /\ pipe' = pipe /\ envp' = envp
      /\ faults' = faults /\ fork' = fork /\ caller' = caller /\ program' = program
  BY DEF DaemonStarts, Goes, still
<1>2. DOMAIN tab' = {"parent", "child"} /\ tab'.child = CloseInherited(tab.child)
      /\ tab'.parent = tab.parent
  BY <1>1, ChildTable DEF IInv
<1>3. /\ child \in Became /\ child # "serving" /\ child \notin Exited
      /\ child' \in Became /\ child' \notin Preparing \cup Exited \cup {"none"}
      /\ child' \notin {"place2", "place3", "chdir", "exec", "program"}
  BY <1>1 DEF Preparing, Became, Exited
<1>4. envp # <<>> /\ pipe = "none" /\ fork = "none" /\ envp = Environment(program)
  BY <1>3 DEF IInv, TypeOK, ChildIsInStep
<1>5. /\ HasTheLock /\ TableIsWhole
      /\ \A i \in 1 .. 3 : tab.child[i - 1].file = caller.stdio[i]
  BY <1>1, <1>3 DEF IInv, ChildIsWell, ChildIsEquipped
<1>6. TypeOK' /\ ParentIsHeld' /\ ParentIsInStep' /\ ReadIsTrue' /\ VerdictIsTrue'
  <2>1. pipe' \in {"none", "errno"}
    BY <1>1, <1>4
  <2> QED  BY <1>1, <1>2, <1>3, <1>4, <2>1, ParentStandsBy
<1>7. /\ DOMAIN tab'.child = Fds
      /\ \A f \in Fds : tab'.child[f] = IF f > STDERR_FILENO /\ tab.child[f].file # "lock"
                                        THEN Closed ELSE tab.child[f]
  BY <1>2 DEF CloseInherited
<1>8. TableIsWhole'
  <2>1. \A f \in Fds : IsSlot(tab'.child[f])
    BY <1>5, <1>7 DEF TableIsWhole, IsSlot, Closed
  <2> QED  BY <1>7, <2>1 DEF TableIsWhole, IsSlot
<1>9. ChildIsReady' /\ ChildIsPlaced'
  BY <1>3 DEF ChildIsReady, ChildIsPlaced
<1>10. \A i \in 1 .. 3 : tab'.child[i - 1].file = caller.stdio[i]
  <2> SUFFICES ASSUME NEW i \in 1 .. 3
               PROVE  tab'.child[i - 1].file = caller.stdio[i]
    OBVIOUS
  <2>1. i - 1 \in Fds /\ ~(i - 1 > STDERR_FILENO)
    BY FdsAreNumbers DEF STDERR_FILENO
  <2> QED  BY <1>5, <1>7, <2>1
<1>11. Beyond' = {"lock"}
  <2>1. PICK l \in Fds : l > STDERR_FILENO /\ tab.child[l].file = "lock"
    BY <1>5 DEF HasTheLock
  <2>2. tab'.child[l].file = "lock"
    BY <1>7, <2>1
  <2>3. \A f \in Fds : f > STDERR_FILENO => tab'.child[f].file \in {"lock", "none"}
    BY <1>7 DEF Closed
  <2> QED  BY <2>1, <2>2, <2>3 DEF Beyond
<1>12. ChildIsEquipped'
  BY <1>1, <1>3, <1>10, <1>11 DEF ChildIsEquipped
<1>13. ChildIsInStep'
  BY <1>1, <1>3, <1>4 DEF ChildIsInStep
<1> QED  BY <1>6, <1>8, <1>9, <1>12, <1>13 DEF IInv, ChildIsWell

LEMMA DaemonDetachesStep ==
  ASSUME IInv, DaemonDetaches
  PROVE  IInv'
<1>1. /\ child = "detaching" /\ UNCHANGED <<caller, program, tab, pc, result, raw, ready, pipe,
                                           envp, faults>>
      /\ tab' = tab /\ caller' = caller /\ program' = program /\ pc' = pc /\ result' = result
      /\ raw' = raw /\ ready' = ready /\ pipe' = pipe /\ envp' = envp /\ faults' = faults
  BY DEF DaemonDetaches
<1>2. \/ child' = "serving" /\ fork' = fork
      \/ child' = "zombie" /\ fork' = "serving"
      \/ child' = "zombie" /\ fork' = fork
  BY DEF DaemonDetaches, Goes
<1>3. /\ child \in Became /\ child \notin Exited \cup {"none", "reaped", "serving"}
      /\ child' \in Became \cup Exited /\ child' \notin Preparing \cup {"none"}
      /\ child' \notin {"place2", "place3", "chdir", "exec", "program", "detaching"}
  BY <1>1, <1>2 DEF Preparing, Became, Exited
<1>4. /\ envp # <<>> /\ pipe = "none" /\ fork = "none" /\ envp = Environment(program)
      /\ caller.who = "relay"
  BY <1>1, <1>3 DEF IInv, TypeOK, ChildIsInStep
<1>5. /\ \A i \in 1 .. 3 : tab.child[i - 1].file = caller.stdio[i]
      /\ Beyond = {"lock"} /\ TableIsWhole
  BY <1>1, <1>3 DEF IInv, ChildIsWell, ChildIsEquipped
<1>6. TypeOK'
  BY <1>1, <1>2, <1>3 DEF IInv, TypeOK
<1>7. ParentIsHeld'
  <2>1. Left' = Left
    BY <1>1 DEF Left, Result
  <2> QED  BY <1>1, <2>1 DEF IInv, ParentIsHeld, Holds, Marked, Raising
<1>8. TableIsWhole' /\ ChildIsReady' /\ ChildIsPlaced'
  BY <1>1, <1>3, <1>5 DEF TableIsWhole, ChildIsReady, ChildIsPlaced
<1>9. ChildIsEquipped'
  <2>1. Beyond' = {"lock"}
    BY <1>1, <1>5 DEF Beyond
  <2> QED  BY <1>1, <1>3, <1>5, <2>1 DEF ChildIsEquipped
<1>10. ParentIsInStep'
  BY <1>1, <1>3 DEF IInv, ParentIsInStep
<1>11. ChildIsInStep'
  BY <1>1, <1>2, <1>3, <1>4 DEF ChildIsInStep, Exited
<1>12. ReadIsTrue'
  BY <1>1 DEF IInv, ReadIsTrue
<1>13. VerdictIsTrue'
  <2>1. result # "error" /\ result # "ok"
    BY <1>3, <1>4 DEF IInv, VerdictIsTrue
  <2> QED  BY <1>1, <2>1 DEF VerdictIsTrue
<1> QED  BY <1>6, <1>7, <1>8, <1>9, <1>10, <1>11, <1>12, <1>13 DEF IInv, ChildIsWell

-----------------------------------------------------------------------------
(* The theorems                                                             *)

LEMMA InitHolds ==
  ASSUME Init
  PROVE  IInv
<1>1. /\ caller \in Callers /\ program \in Environments /\ tab.parent = caller.table
      /\ tab.child = [f \in Fds |-> Closed] /\ DOMAIN tab = {"parent", "child"}
      /\ pc = "open1" /\ result = "running" /\ raw = "none" /\ child = "none"
      /\ pipe = "none" /\ envp = <<>> /\ fork = "none" /\ faults = {}
  BY DEF Init
<1>2. child \notin Preparing \cup Became \cup Exited
  BY <1>1 DEF Preparing, Became, Exited
<1>3. TypeOK
  BY <1>1 DEF TypeOK, Steps
<1>4. ParentIsHeld
  <2>1. DOMAIN caller.table = Fds
    BY <1>1, FdsAreNumbers, CallersOwn
  <2> QED  BY <1>1, <2>1 DEF ParentIsHeld, Holds, Raising
<1>5. ChildIsWell
  <2>1. TableIsWhole
    BY <1>1 DEF TableIsWhole, IsSlot, Closed
  <2> QED  BY <1>1, <1>2, <2>1 DEF ChildIsWell, ChildIsReady, ChildIsPlaced, ChildIsEquipped
<1>6. ParentIsInStep /\ ChildIsInStep /\ ReadIsTrue /\ VerdictIsTrue
  BY <1>1, <1>2 DEF ParentIsInStep, ChildIsInStep, ReadIsTrue, VerdictIsTrue, Forked
<1> QED  BY <1>3, <1>4, <1>5, <1>6 DEF IInv

LEMMA NextHolds ==
  ASSUME IInv, [Next]_vars
  PROVE  IInv'
<1>1. CASE ParentRuns
  <2>1. CASE Prepares
    BY <2>1, PreparesStep
  <2>2. CASE Forks
    BY <2>2, ForksStep
  <2>3. CASE Releases
    BY <2>3, ReleasesStep
  <2>4. CASE Reads
    BY <2>4, ReadsStep
  <2>5. CASE Concludes
    BY <2>5, ConcludesStep
  <2>6. CASE Awaits
    BY <2>6, AwaitsStep
  <2> QED  BY <1>1, <2>1, <2>2, <2>3, <2>4, <2>5, <2>6 DEF ParentRuns
<1>2. CASE ChildRuns
  <2>1. CASE ChildCalls("setup", "place1", AfterSetup)
    BY <2>1, SetupStep
  <2>2. CASE \/ ChildCalls("place1", "place2", Placed(1))
             \/ ChildCalls("place2", "place3", Placed(2))
             \/ ChildCalls("place3", "chdir", Placed(3))
    BY <2>2, PlaceStep
  <2>3. CASE ChildCalls("chdir", "exec", tab.child)
    BY <2>3, ChdirStep
  <2>4. CASE ChildExecs
    BY <2>4, ChildExecsStep
  <2>5. CASE ChildReports
    BY <2>5, ChildReportsStep
  <2> QED  BY <1>2, <2>1, <2>2, <2>3, <2>4, <2>5 DEF ChildRuns
<1>3. CASE ChildIsKilled
  BY <1>3, ChildIsKilledStep
<1>4. CASE DaemonStarts
  BY <1>4, DaemonStartsStep
<1>5. CASE DaemonDetaches
  BY <1>5, DaemonDetachesStep
<1>6. CASE UNCHANGED vars
  <2>1. /\ caller' = caller /\ program' = program /\ tab' = tab /\ pc' = pc /\ result' = result
        /\ raw' = raw /\ ready' = ready /\ child' = child /\ pipe' = pipe /\ envp' = envp
        /\ fork' = fork /\ faults' = faults
    BY <1>6 DEF vars
  <2>2. TypeOK'
    BY <2>1 DEF IInv, TypeOK
  <2>3. ParentIsHeld'
    <3>1. Left' = Left
      BY <2>1 DEF Left, Result
    <3> QED  BY <2>1, <3>1 DEF IInv, ParentIsHeld, Holds, Marked, Raising
  <2>4. ChildIsWell'
    BY <2>1, ChildKeepsWell DEF IInv
  <2>5. ParentIsInStep' /\ ChildIsInStep' /\ ReadIsTrue' /\ VerdictIsTrue'
    BY <2>1 DEF IInv, ParentIsInStep, ChildIsInStep, ReadIsTrue, VerdictIsTrue
  <2> QED  BY <2>2, <2>3, <2>4, <2>5 DEF IInv
<1> QED  BY <1>1, <1>2, <1>3, <1>4, <1>5, <1>6 DEF Next

LEMMA SpecHolds == Spec => []IInv
<1>1. Init => IInv
  BY InitHolds
<1>2. IInv /\ [Next]_vars => IInv'
  BY NextHolds
<1> QED  BY <1>1, <1>2, PTL DEF Spec

(* Whoever spawns is told the truth (exec::spawn, and create which waits    *)
(* for the daemon): an error means that no program ran and no child is      *)
(* left, success that one does, or that its report was lost on the way.     *)
THEOREM LaunchTellsTheTruth == Spec => []VerdictIsTrue
<1>1. IInv => VerdictIsTrue
  BY DEF IInv
<1> QED  BY <1>1, SpecHolds, PTL

(* When the parent returns, what it holds for its caller is what it left.   *)
LEMMA ReturnsItsOwn ==
  ASSUME IInv
  PROVE  CallerKeepsNothing
<1> SUFFICES ASSUME pc = "returned"
             PROVE  Drop(tab.parent, Left) = caller.table
  BY DEF CallerKeepsNothing, Left
<1>1. caller \in Callers /\ Holds(tab.parent, Left)
  BY DEF IInv, TypeOK, ParentIsHeld
<1>2. "before" \notin Left /\ "nobody" \notin Left
  BY DEF Left
<1>3. \A f \in Fds : Drop(tab.parent, Left)[f] = caller.table[f]
  <2> SUFFICES ASSUME NEW f \in Fds
               PROVE  (IF tab.parent[f].by \in Left THEN Closed ELSE tab.parent[f]) = caller.table[f]
    BY DEF Drop
  <2>1. CASE tab.parent[f] = caller.table[f]
    <3>1. tab.parent[f].by \notin Left
      BY <1>1, <1>2, <2>1, CallersOwn
    <3> QED  BY <2>1, <3>1
  <2>2. CASE caller.table[f] = Closed /\ tab.parent[f].by \in Left
    BY <2>2
  <2> QED  BY <1>1, <2>1, <2>2 DEF Holds
<1>4. caller.table \in [Fds -> {caller.table[f] : f \in Fds}]
  BY <1>1, LaunchAssumption
<1>5. Drop(tab.parent, Left) = [f \in Fds |-> caller.table[f]]
  BY <1>3 DEF Drop
<1> QED  BY <1>4, <1>5

(* spawn leaves its caller, however it ends, with the descriptors it had    *)
(* and what it returns: of all it opened nothing stays open, and of what    *)
(* the caller had nothing is closed or replaced.                            *)
THEOREM LaunchLeavesNothingOpen == Spec => []CallerKeepsNothing
<1>1. IInv => CallerKeepsNothing
  BY ReturnsItsOwn
<1> QED  BY <1>1, SpecHolds, PTL

(* What a child was equipped with on its way is what it has as a program.   *)
LEMMA HasItsOwn ==
  ASSUME IInv
  PROVE  ChildHasItsOwn
<1>1. ASSUME envp # <<>>, child \notin {"zombie", "reaped"}
      PROVE  \A i \in 1 .. 3 : tab.child[i - 1].file = caller.stdio[i]
  <2>1. child \in Became
    BY <1>1 DEF IInv, TypeOK, ChildIsInStep, Exited
  <2> QED  BY <2>1 DEF IInv, ChildIsWell, ChildIsEquipped
<1>2. child = "program" /\ caller.who = "pty" => Beyond = {}
  BY DEF IInv, ChildIsWell, ChildIsEquipped
<1>3. child = "serving" \/ fork = "serving" => Beyond = {"lock"}
  BY DEF IInv, ChildIsWell, ChildIsEquipped
<1>4. ASSUME envp # <<>>, NEW key \in Keys
      PROVE  {envp[i] : i \in Firsts(envp, key)} = Asked(key)
  <2>1. envp = Environment(program) /\ program \in Environments
    BY <1>4 DEF IInv, TypeOK, ChildIsInStep
  <2>2. {Environment(program)[i] : i \in Firsts(Environment(program), key)} = Asked(key)
    BY <2>1, EnvironmentAnswers
  <2> QED  BY <2>1, <2>2
<1> QED  BY <1>1, <1>2, <1>3, <1>4 DEF ChildHasItsOwn

(* A program started by exec::spawn has the three files it was to have,     *)
(* and of what its parent had open a shell has nothing and a daemon the     *)
(* lock; and it reads of its environment what was set, else what was        *)
(* inherited (exec.rs, environment).                                        *)
THEOREM LaunchGivesItsOwn == Spec => []ChildHasItsOwn
<1>1. IInv => ChildHasItsOwn
  BY HasItsOwn
<1> QED  BY <1>1, SpecHolds, PTL
=============================================================================
