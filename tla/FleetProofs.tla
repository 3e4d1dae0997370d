---------------------------- MODULE FleetProofs ----------------------------
(***************************************************************************)
(* Lemmas about what the pool-level reconcilers share, used by the proofs  *)
(* about Autoscaler and about Watches.                                     *)
(***************************************************************************)
EXTENDS ScaleDown, ScaleUp, FiniteSetTheorems, WellFoundedInduction, TLAPS

-----------------------------------------------------------------------------
(* Sets of Machines.                                                       *)

\* The Machines of a pool are finitely many, and fewer of them count less.
LEMMA PoolIsFinite ==
  ASSUME NEW pool \in Pools, NEW S \in SUBSET Selects[pool], NEW T \in SUBSET S
  PROVE  /\ IsFiniteSet(S) /\ Cardinality(S) \in Nat
         /\ Cardinality(T) \in Nat /\ Cardinality(T) <= Cardinality(S)
  <1>1. S \in SUBSET Members /\ IsFiniteSet(Members)
    BY FleetAssumption
  <1>2. IsFiniteSet(S)
    BY <1>1, FS_Subset
  <1>3. IsFiniteSet(T) /\ Cardinality(T) <= Cardinality(S)
    BY <1>2, FS_Subset
  <1> QED BY <1>2, <1>3, FS_CardinalityType

\* One more Machine counts at most one more.
LEMMA OneMoreCounts ==
  ASSUME NEW pool \in Pools, NEW S \in SUBSET Selects[pool], NEW m \in Selects[pool]
  PROVE  Cardinality(S \cup {m}) <= Cardinality(S) + 1
  <1>1. IsFiniteSet(S) /\ Cardinality(S) \in Nat
    BY PoolIsFinite
  <1>2. Cardinality(S \cup {m}) = IF m \in S THEN Cardinality(S) ELSE Cardinality(S) + 1
    BY <1>1, FS_AddElement
  <1> QED BY <1>1, <1>2

\* A set of numbers has a smallest one.
LEMMA SmallestExists ==
  ASSUME NEW S \in SUBSET Nat, S # {}
  PROVE  \E m \in S : \A n \in S : m <= n
  <1> DEFINE R == {r \in Nat \X Nat : r[1] < r[2]}
  <1>1. IsWellFoundedOn(R, Nat)
    BY NatLessThanWellFounded DEF OpToRel
  <1>2. \A y \in S, x \in S : y < x => <<y, x>> \in R
    OBVIOUS
  <1> HIDE DEF R
  <1>3. PICK x \in S : \A y \in S : ~(<<y, x>> \in R)
    BY <1>1, WFMin
  <1>4. \A y \in S : ~(y < x)
    BY <1>2, <1>3
  <1>5. \A y \in S : x <= y
    BY <1>4
  <1> QED BY <1>5

\* smallestCandidate picks one of the candidates: the order it searches by
\* has a least element, ties broken by name.
LEMMA WinnerIsCandidate ==
  ASSUME NEW ms \in SUBSET Members, ms # {}
  PROVE  smallestCandidate(ms) \in ms
  <1> DEFINE sizes == {Capacity[m] : m \in ms}
  <1>1. Members \subseteq Nat /\ Capacity \in [Members -> Nat]
    BY FleetAssumption
  <1>2. sizes \in SUBSET Nat /\ sizes # {}
    BY <1>1
  <1>3. PICK c \in sizes : \A d \in sizes : c <= d
    BY <1>2, SmallestExists
  <1> DEFINE equals == {m \in ms : Capacity[m] = c}
  <1>4. equals \in SUBSET Nat /\ equals # {}
    BY <1>1
  <1>5. PICK k \in equals : \A n \in equals : k <= n
    BY <1>4, SmallestExists
  <1>6. \A n \in ms : Capacity[k] < Capacity[n] \/ (Capacity[k] = Capacity[n] /\ k <= n)
    <2> SUFFICES ASSUME NEW n \in ms
                 PROVE  Capacity[k] < Capacity[n] \/ (Capacity[k] = Capacity[n] /\ k <= n)
      OBVIOUS
    <2>1. Capacity[k] = c /\ c \in Nat /\ Capacity[n] \in Nat /\ c <= Capacity[n]
      BY <1>1, <1>2, <1>3
    <2>2. Capacity[n] = c => k <= n
      BY <1>5
    <2> QED BY <2>1, <2>2
  <1> QED BY <1>6 DEF smallestCandidate

\* The names of Machines are not None.
LEMMA NobodyIsNone ==
  /\ None \notin Members
  /\ \A pool \in Pools : Selects[pool] \subseteq Members /\ None \notin Selects[pool]
  <1>1. None \notin Int
    BY Zenon, FleetAssumption
  <1>2. Members \subseteq Nat /\ Selects \in [Pools -> SUBSET Members]
    BY FleetAssumption
  <1>3. None \notin Nat
    BY <1>1
  <1>4. None \notin Members
    BY <1>2, <1>3
  <1> QED BY <1>2, <1>4

-----------------------------------------------------------------------------
(* What a set of pods requests, for sums in any order.                     *)

RequestOf(S) == MapThenSumSet(LAMBDA p : Request[p], S)

\* The pods in sets of at most n, and a sum over such sets in which any pod may
\* be taken first.
SmallSets(n) == {S \in SUBSET Pods : Cardinality(S) <= n}

Additive(h, n) ==
  /\ h \in [SmallSets(n) -> Nat]
  /\ h[{}] = 0
  /\ \A S \in SmallSets(n) : \A p \in S : h[S] = Request[p] + h[S \ {p}]

\* Taking a pod out of a set leaves a smaller one.
LEMMA OnePodLess ==
  ASSUME NEW S \in SUBSET Pods, NEW p \in S
  PROVE  /\ IsFiniteSet(S) /\ Cardinality(S) \in Nat
         /\ S \ {p} \in SUBSET Pods /\ Cardinality(S \ {p}) \in Nat
         /\ Cardinality(S \ {p}) = Cardinality(S) - 1
  <1>1. IsFiniteSet(Pods)
    BY FleetAssumption
  <1>2. IsFiniteSet(S)
    BY <1>1, FS_Subset
  <1>3. IsFiniteSet(S \ {p}) /\ Cardinality(S \ {p}) = Cardinality(S) - 1
    BY <1>2, FS_RemoveElement
  <1> QED BY <1>2, <1>3, FS_CardinalityType

\* A sum over sets of at most n pods extends to sets of one more.
LEMMA SumExtends ==
  ASSUME NEW n \in Nat, NEW h, Additive(h, n)
  PROVE  \E g : Additive(g, n + 1)
  <1> DEFINE first(S) == CHOOSE p \in S : TRUE
             g == [S \in SmallSets(n + 1) |->
                     IF S = {} THEN 0 ELSE Request[first(S)] + h[S \ {first(S)}]]
  <1>1. \A S \in SmallSets(n + 1) : \A p \in S : S \ {p} \in SmallSets(n)
    <2> SUFFICES ASSUME NEW S \in SmallSets(n + 1), NEW p \in S
                 PROVE  S \ {p} \in SmallSets(n)
      OBVIOUS
    <2>1. S \in SUBSET Pods /\ Cardinality(S) <= n + 1
      BY DEF SmallSets
    <2>2. /\ S \ {p} \in SUBSET Pods /\ Cardinality(S) \in Nat
          /\ Cardinality(S \ {p}) = Cardinality(S) - 1
      BY <2>1, OnePodLess
    <2>3. Cardinality(S \ {p}) <= n
      BY <2>1, <2>2
    <2> QED BY <2>2, <2>3 DEF SmallSets
  <1>2. {} \in SmallSets(n) /\ {} \in SmallSets(n + 1)
    BY FS_EmptySet DEF SmallSets
  <1>3. \A S \in SmallSets(n) : \A p \in S :
          S \ {p} \in SmallSets(n) /\ S \in SmallSets(n + 1)
    <2> SUFFICES ASSUME NEW S \in SmallSets(n), NEW p \in S
                 PROVE  S \ {p} \in SmallSets(n) /\ S \in SmallSets(n + 1)
      OBVIOUS
    <2>1. S \in SUBSET Pods /\ Cardinality(S) <= n
      BY DEF SmallSets
    <2>2. Cardinality(S) \in Nat
      BY <2>1, OnePodLess
    <2>3. S \in SmallSets(n + 1)
      BY <2>1, <2>2 DEF SmallSets
    <2> QED BY <1>1, <2>3
  <1>4. \A S \in SmallSets(n) : h[S] \in Nat
    BY DEF Additive
  <1>5. \A p \in Pods : Request[p] \in Nat
    BY FleetAssumption
  <1>6. \A S \in SmallSets(n + 1) : S # {} => first(S) \in S /\ first(S) \in Pods
    BY DEF SmallSets
  <1>7. g \in [SmallSets(n + 1) -> Nat] /\ g[{}] = 0
    <2>1. \A S \in SmallSets(n + 1) :
            S # {} => Request[first(S)] \in Nat /\ h[S \ {first(S)}] \in Nat
      BY <1>1, <1>4, <1>5, <1>6
    <2>2. \A S \in SmallSets(n + 1) :
            (IF S = {} THEN 0 ELSE Request[first(S)] + h[S \ {first(S)}]) \in Nat
      <3>1. \A i, j : i \in Nat /\ j \in Nat => i + j \in Nat
        OBVIOUS
      <3> QED BY <2>1, <3>1, Zenon
    <2> QED BY <1>2, <2>2
  <1>8. \A S \in SmallSets(n) : g[S] = h[S]
    <2> SUFFICES ASSUME NEW S \in SmallSets(n) PROVE g[S] = h[S]
      OBVIOUS
    <2>1. CASE S = {}
      BY <1>7, <2>1 DEF Additive
    <2>2. CASE S # {}
      <3>1. first(S) \in S
        BY <2>2
      <3>2. S \in SmallSets(n + 1)
        BY <1>3, <3>1
      <3> QED BY <2>2, <3>1, <3>2 DEF Additive
    <2> QED BY <2>1, <2>2
  <1>9. \A S \in SmallSets(n + 1) : \A p \in S : g[S] = Request[p] + g[S \ {p}]
    <2> SUFFICES ASSUME NEW S \in SmallSets(n + 1), NEW p \in S
                 PROVE  g[S] = Request[p] + g[S \ {p}]
      OBVIOUS
    <2> DEFINE q == first(S)
    <2>1. q \in S /\ g[S] = Request[q] + h[S \ {q}]
      OBVIOUS
    <2>2. /\ S \ {p} \in SmallSets(n) /\ S \ {q} \in SmallSets(n)
          /\ p \in Pods /\ q \in Pods
      BY <1>1, <2>1 DEF SmallSets
    <2>3. g[S \ {p}] = h[S \ {p}]
      BY <1>8, <2>2
    <2> HIDE DEF g, q
    <2>4. CASE p = q
      BY <2>1, <2>3, <2>4
    <2>5. CASE p # q
      <3>1. h[S \ {q}] = Request[p] + h[(S \ {q}) \ {p}]
        BY <2>2, <2>5 DEF Additive
      <3>2. h[S \ {p}] = Request[q] + h[(S \ {p}) \ {q}]
        BY <2>1, <2>2, <2>5 DEF Additive
      <3>3. (S \ {q}) \ {p} = (S \ {p}) \ {q} /\ (S \ {p}) \ {q} \in SmallSets(n)
        BY <1>3, <2>1, <2>2, <2>5
      <3>4. h[(S \ {p}) \ {q}] \in Nat /\ Request[p] \in Nat /\ Request[q] \in Nat
        BY <1>4, <1>5, <2>2, <3>3
      <3>5. h[(S \ {q}) \ {p}] = h[(S \ {p}) \ {q}]
        BY <3>3
      <3> QED BY <2>1, <2>3, <3>1, <3>2, <3>4, <3>5
    <2> QED BY <2>4, <2>5
  <1> HIDE DEF g
  <1>10. Additive(g, n + 1)
    BY <1>7, <1>9 DEF Additive
  <1> QED BY <1>10

\* So there is one over all the sets of pods.
LEMMA SumExists == \E h : Additive(h, Cardinality(Pods))
  <1> DEFINE Without == {n \in Nat : ~\E h : Additive(h, n)}
  <1>1. \E h : Additive(h, 0)
    <2> DEFINE none == [S \in SmallSets(0) |-> 0]
    <2>1. {} \in SmallSets(0)
      BY FS_EmptySet DEF SmallSets
    <2>2. \A S \in SmallSets(0) : \A p \in S : FALSE
      <3> SUFFICES ASSUME NEW S \in SmallSets(0), NEW p \in S PROVE FALSE
        OBVIOUS
      <3>1. S \in SUBSET Pods /\ Cardinality(S) <= 0
        BY DEF SmallSets
      <3>2. /\ Cardinality(S) \in Nat /\ Cardinality(S \ {p}) \in Nat
            /\ Cardinality(S \ {p}) = Cardinality(S) - 1
        BY <3>1, OnePodLess
      <3> QED BY <3>1, <3>2
    <2>3. Additive(none, 0)
      BY <2>1, <2>2 DEF Additive
    <2> QED BY <2>3
  <1>2. Without = {}
    <2> SUFFICES ASSUME Without # {} PROVE FALSE
      OBVIOUS
    <2>1. PICK n \in Without : \A k \in Without : n <= k
      BY SmallestExists
    <2>2. n \in Nat \ {0}
      BY <1>1
    <2>3. n - 1 \in Nat /\ n - 1 \notin Without /\ (n - 1) + 1 = n
      BY <2>1, <2>2
    <2>4. PICK h : Additive(h, n - 1)
      BY <2>3
    <2>5. \E g : Additive(g, (n - 1) + 1)
      BY <2>3, <2>4, SumExtends
    <2> QED BY <2>3, <2>5
  <1>3. Cardinality(Pods) \in Nat
    BY FleetAssumption, FS_CardinalityType
  <1> QED BY <1>2, <1>3

\* The fold that takes the pods in the order of CHOOSE computes that sum.
LEMMA FoldIsSum ==
  ASSUME NEW h, Additive(h, Cardinality(Pods)), NEW S \in SUBSET Pods
  PROVE  RequestOf(S) = h[S]
  <1> DEFINE first(T) == CHOOSE p \in T : TRUE
             body(f, T) == IF T = {} THEN 0 ELSE Request[first(T)] + f[T \ {first(T)}]
             fold == CHOOSE f : f = [T \in SUBSET S |-> body(f, T)]
             sum == [T \in SUBSET S |-> h[T]]
  <1>1. RequestOf(S) = fold[S]
    BY Zenon DEF RequestOf, MapThenSumSet, MapThenFoldSet
  <1>2. \A T \in SUBSET S : T \in SmallSets(Cardinality(Pods)) /\ IsFiniteSet(T)
    <2>1. IsFiniteSet(Pods)
      BY FleetAssumption
    <2>2. \A T \in SUBSET Pods : IsFiniteSet(T) /\ Cardinality(T) <= Cardinality(Pods)
      BY <2>1, FS_Subset
    <2> QED BY <2>2 DEF SmallSets
  <1>3. sum = [T \in SUBSET S |-> body(sum, T)]
    <2> SUFFICES ASSUME NEW T \in SUBSET S PROVE h[T] = body(sum, T)
      BY Zenon
    <2>1. CASE T = {}
      BY <2>1 DEF Additive
    <2>2. CASE T # {}
      <3>1. first(T) \in T /\ T \ {first(T)} \in SUBSET S
        BY <2>2
      <3>2. h[T] = Request[first(T)] + h[T \ {first(T)}]
        BY <1>2, <3>1 DEF Additive
      <3> HIDE DEF first
      <3> QED BY <2>2, <3>1, <3>2
    <2> QED BY <2>1, <2>2
  <1>4. fold = [T \in SUBSET S |-> body(fold, T)]
    BY <1>3, Zenon
  <1> HIDE DEF fold
  <1> DEFINE Wrong == {n \in Nat : \E T \in SUBSET S : Cardinality(T) = n /\ fold[T] # h[T]}
  <1>5. Wrong = {}
    <2> SUFFICES ASSUME Wrong # {} PROVE FALSE
      OBVIOUS
    <2>1. PICK n \in Wrong : \A k \in Wrong : n <= k
      BY SmallestExists
    <2>2. PICK T \in SUBSET S : Cardinality(T) = n /\ fold[T] # h[T]
      BY <2>1
    <2>3. fold[T] = body(fold, T)
      BY <1>4, Zenon
    <2>4. T # {}
      BY <2>2, <2>3 DEF Additive
    <2>5. first(T) \in T /\ T \ {first(T)} \in SUBSET S
      BY <2>4
    <2>6. h[T] = Request[first(T)] + h[T \ {first(T)}]
      BY <1>2, <2>5 DEF Additive
    <2>7. fold[T] = Request[first(T)] + fold[T \ {first(T)}]
      BY <2>3, <2>4
    <2> HIDE DEF first
    <2>8. fold[T \ {first(T)}] # h[T \ {first(T)}]
      BY <2>2, <2>6, <2>7
    <2>9. Cardinality(T \ {first(T)}) \in Nat /\ Cardinality(T \ {first(T)}) = n - 1
      BY <2>2, <2>5, OnePodLess
    <2>10. n - 1 \in Wrong
      BY <2>5, <2>8, <2>9
    <2> QED BY <2>1, <2>10
  <1>6. Cardinality(S) \in Nat
    BY <1>2, FS_CardinalityType
  <1> QED BY <1>1, <1>5, <1>6

\* Fewer pods request less.
LEMMA FewerRequestLess ==
  ASSUME NEW S \in SUBSET Pods, NEW p
  PROVE  /\ RequestOf(S) \in Nat /\ RequestOf(S \ {p}) \in Nat
         /\ RequestOf(S \ {p}) <= RequestOf(S)
  <1>1. PICK h : Additive(h, Cardinality(Pods))
    BY SumExists
  <1>2. RequestOf(S) = h[S] /\ RequestOf(S \ {p}) = h[S \ {p}]
    BY <1>1, FoldIsSum
  <1>3. IsFiniteSet(Pods) /\ Request \in [Pods -> Nat]
    BY FleetAssumption
  <1>4. \A T \in SUBSET Pods : T \in SmallSets(Cardinality(Pods))
    BY <1>3, FS_Subset DEF SmallSets
  <1>5. h[S] \in Nat /\ h[S \ {p}] \in Nat
    BY <1>1, <1>4 DEF Additive
  <1>6. CASE p \in S
    <2>1. h[S] = Request[p] + h[S \ {p}] /\ Request[p] \in Nat
      BY <1>1, <1>3, <1>4, <1>6 DEF Additive
    <2> QED BY <1>2, <1>5, <2>1
  <1>7. CASE p \notin S
    <2>1. S \ {p} = S
      BY <1>7
    <2> QED BY <1>2, <1>5, <2>1
  <1> QED BY <1>6, <1>7

\* A pod goes on fitting a Machine whose Node another one leaves.
LEMMA FitOutlivesLeaving ==
  ASSUME NEW m \in Members, NEW p \in Pods, NEW q, Fit(p, m),
         boundTo(m)' = boundTo(m) \/ boundTo(m)' = boundTo(m) \ {q}
  PROVE  Fit(p, m)'
  <1> DEFINE before == RequestOf(boundTo(m))
             after == RequestOf(boundTo(m))'
  <1>1. Capacity[m] \in Nat /\ Request[p] \in Nat
    BY FleetAssumption
  <1>2. before \in Nat /\ after \in Nat /\ after <= before
    <2>1. boundTo(m) \in SUBSET Pods
      BY DEF boundTo
    <2>2. /\ before \in Nat /\ RequestOf(boundTo(m) \ {q}) \in Nat
          /\ RequestOf(boundTo(m) \ {q}) <= before
      BY <2>1, FewerRequestLess
    <2>3. CASE boundTo(m)' = boundTo(m)
      <3>1. after = before
        BY <2>3
      <3> QED BY <2>2, <3>1
    <2>4. CASE boundTo(m)' = boundTo(m) \ {q}
      <3>1. after = RequestOf(boundTo(m) \ {q})
        BY <2>4
      <3> QED BY <2>2, <3>1
    <2> QED BY <2>3, <2>4
  <1>3. syntheticAllocatable(m) =
          IF Capacity[m] - before < 0 THEN 0 ELSE Capacity[m] - before
    BY Zenon DEF syntheticAllocatable, RequestOf
  <1>4. syntheticAllocatable(m)' =
          IF Capacity[m] - after < 0 THEN 0 ELSE Capacity[m] - after
    BY Zenon DEF syntheticAllocatable, RequestOf
  <1> HIDE DEF before, after
  <1>5. /\ syntheticAllocatable(m) \in Nat /\ syntheticAllocatable(m)' \in Nat
        /\ syntheticAllocatable(m) <= syntheticAllocatable(m)'
    BY <1>1, <1>2, <1>3, <1>4
  <1> QED BY <1>1, <1>5 DEF Fit

-----------------------------------------------------------------------------
(* A pass of the MachineReconciler.                                        *)

\* A pass keeps the object's shape and touches only that Machine.
LEMMA ReconcileIsTyped ==
  ASSUME members \in [Members -> MemberRecord], now \in Nat,
         NEW m \in Members, MachineReconcile(m)
  PROVE  /\ members' \in [Members -> MemberRecord]
         /\ \A k \in Members \ {m} : members'[k] = members[k]
         /\ \E s \in States : members'[m].state = s /\ Justified(m, s)
  <1>1. PICK s \in OneStepFrom(members[m].state),
             w \in {members[m].wakeNow, FALSE}, d \in {members[m].drainNow, FALSE} :
          members' = [members EXCEPT ![m] = Moved(@, s, w, d)] /\ Justified(m, s)
    BY DEF MachineReconcile
  <1>2. members \in [Members -> MemberRecord] /\ now \in Nat
    OBVIOUS
  <1>3. s \in States /\ w \in BOOLEAN /\ d \in BOOLEAN
    BY <1>2 DEF OneStepFrom, States, MemberRecord
  <1>4. readySinceAfter(members[m], s) \in Time
    BY <1>2 DEF readySinceAfter, MemberRecord, Time
  <1>5. Moved(members[m], s, w, d) \in MemberRecord /\ Moved(members[m], s, w, d).state = s
    BY <1>2, <1>3, <1>4 DEF Moved, MemberRecord
  <1> QED BY <1>1, <1>2, <1>3, <1>5

-----------------------------------------------------------------------------
(* The first state.                                                        *)

\* At first a Machine is up, booting or off, and nobody has asked for anything.
LEMMA InitialMembers ==
  ASSUME FleetInit
  PROVE  \E booting \in SUBSET (Members \ up) :
           /\ \A pool \in Pools : poolSpec[pool].maxNodes # None =>
                Cardinality((up \cup booting) \cap Selects[pool]) <= poolSpec[pool].maxNodes
           /\ members \in [Members -> MemberRecord]
           /\ \A m \in Members :
                /\ ~members[m].wakeNow /\ ~members[m].drainNow /\ ~members[m].powerOnFailed
                /\ members[m].state = CASE m \in up -> "Ready"
                                        [] m \in booting -> "Booting"
                                        [] OTHER -> "Off"
  <1>1. PICK booting \in SUBSET (Members \ up) :
          /\ \A pool \in Pools : poolSpec[pool].maxNodes # None =>
               Cardinality((up \cup booting) \cap Selects[pool]) <= poolSpec[pool].maxNodes
          /\ members = [m \in Members |->
               CASE m \in up -> [OffMember EXCEPT !.state = "Ready", !.readySince = 0]
                 [] m \in booting -> [OffMember EXCEPT !.state = "Booting"]
                 [] OTHER -> OffMember]
    BY DEF FleetInit
  <1>2. /\ OffMember \in MemberRecord
        /\ [OffMember EXCEPT !.state = "Ready", !.readySince = 0] \in MemberRecord
        /\ [OffMember EXCEPT !.state = "Booting"] \in MemberRecord
    BY DEF OffMember, MemberRecord, States, Time
  <1>3. members \in [Members -> MemberRecord]
    BY <1>1, <1>2
  <1>4. \A m \in Members :
          /\ members[m].wakeNow = FALSE /\ members[m].drainNow = FALSE
          /\ members[m].powerOnFailed = FALSE
          /\ members[m].state = CASE m \in up -> "Ready"
                                  [] m \in booting -> "Booting"
                                  [] OTHER -> "Off"
    BY <1>1 DEF OffMember
  <1> QED BY <1>1, <1>3, <1>4

=============================================================================
