----------------------------- MODULE VersionsProofs -----------------------------
(***************************************************************************)
(* Theorems about the choice of Kubernetes versions, for CloudProfiles of  *)
(* any length, lifecycles with any number of stages and any span of time.  *)
(*                                                                         *)
(* The loop over the lifecycle is argued by its invariant and the least    *)
(* turn that would break it, the sort by the places of the elements.       *)
(***************************************************************************)
EXTENDS Versions, TLAPS, FiniteSetTheorems

-------------------------------------------------------------------------------
(***************************************************************************)
(* Sorting.                                                                *)
(***************************************************************************)
\* What the comparison function of a sort has to be: a strict weak order on I.
IsComparison(R, I) ==
  /\ \A i, j \in I : <<i, j>> \in R => <<j, i>> \notin R
  /\ \A i, j, k \in I : <<i, k>> \in R => <<i, j>> \in R \/ <<j, k>> \in R

\* Those that Place counts: they end up ahead of i.
Ahead(I, R, i) == {j \in I : <<j, i>> \in R \/ (j < i /\ <<i, j>> \notin R)}

\* Who is ahead of one that is ahead of i is ahead of i, and no one is ahead of itself.
LEMMA AheadIsAnOrder ==
  ASSUME NEW I \in SUBSET Nat, NEW R, IsComparison(R, I), NEW i \in I, NEW j \in I
  PROVE  /\ i \notin Ahead(I, R, i)
         /\ i # j => i \in Ahead(I, R, j) \/ j \in Ahead(I, R, i)
         /\ j \in Ahead(I, R, i) => Ahead(I, R, j) \subseteq Ahead(I, R, i) \ {j}
<1>1. i \notin Ahead(I, R, i) /\ j \notin Ahead(I, R, j)
  BY DEF Ahead, IsComparison
<1>2. i # j => i \in Ahead(I, R, j) \/ j \in Ahead(I, R, i)
  BY DEF Ahead, IsComparison
<1>3. ASSUME j \in Ahead(I, R, i), NEW k \in Ahead(I, R, j)
      PROVE  k \in Ahead(I, R, i)
  <2>1. k \in I
    BY DEF Ahead
  <2>2. <<j, i>> \in R \/ (j < i /\ <<i, j>> \notin R)
    BY <1>3 DEF Ahead
  <2>3. <<k, j>> \in R \/ (k < j /\ <<j, k>> \notin R)
    BY <1>3 DEF Ahead
  <2>4. CASE <<k, i>> \in R
    BY <2>1, <2>4 DEF Ahead
  <2>5. CASE <<k, i>> \notin R
    <3>1. <<j, i>> \notin R
      BY <2>1, <2>2, <2>3, <2>5 DEF IsComparison
    <3>2. j < i /\ <<i, j>> \notin R
      BY <2>2, <3>1
    <3>3. <<k, j>> \notin R
      BY <2>1, <2>5, <3>2 DEF IsComparison
    <3>4. k < j /\ <<j, k>> \notin R
      BY <2>3, <3>3
    <3>5. <<i, k>> \notin R
      BY <2>1, <3>2, <3>4 DEF IsComparison
    <3> QED
      BY <2>1, <3>2, <3>4, <3>5 DEF Ahead
  <2> QED
    BY <2>4, <2>5
<1> QED
  BY <1>1, <1>2, <1>3

\* The places of a finite set of indices are the numbers from 1 to its size.
LEMMA PlaceType ==
  ASSUME NEW I \in SUBSET Nat, IsFiniteSet(I), NEW R, IsComparison(R, I), NEW i \in I
  PROVE  /\ Place(I, R, i) \in 1..Cardinality(I)
         /\ Place(I, R, i) = Cardinality(Ahead(I, R, i)) + 1
<1>1. Ahead(I, R, i) \subseteq I \ {i}
  BY AheadIsAnOrder DEF Ahead
<1>2. IsFiniteSet(I \ {i}) /\ Cardinality(I \ {i}) = Cardinality(I) - 1
  BY FS_RemoveElement
<1>3. IsFiniteSet(Ahead(I, R, i)) /\ Cardinality(Ahead(I, R, i)) <= Cardinality(I) - 1
  BY <1>1, <1>2, FS_Subset
<1>4. Cardinality(Ahead(I, R, i)) \in Nat /\ Cardinality(I) \in Nat
  BY <1>3, FS_CardinalityType
<1>5. Place(I, R, i) = Cardinality(Ahead(I, R, i)) + 1
  BY DEF Place, Ahead
<1> QED
  BY <1>3, <1>4, <1>5

\* Who is ahead has the smaller place.
LEMMA PlaceRises ==
  ASSUME NEW I \in SUBSET Nat, IsFiniteSet(I), NEW R, IsComparison(R, I),
         NEW i \in I, NEW j \in Ahead(I, R, i)
  PROVE  Place(I, R, j) < Place(I, R, i)
<1>1. j \in I /\ Ahead(I, R, i) \subseteq I
  BY DEF Ahead
<1>2. Ahead(I, R, j) \subseteq Ahead(I, R, i) \ {j}
  BY <1>1, AheadIsAnOrder
<1>3. IsFiniteSet(Ahead(I, R, i)) /\ IsFiniteSet(Ahead(I, R, j))
  BY <1>1, <1>2, FS_Subset
<1>4. Ahead(I, R, i) # Ahead(I, R, j)
  BY <1>2
<1>5. Cardinality(Ahead(I, R, j)) < Cardinality(Ahead(I, R, i))
  BY <1>2, <1>3, <1>4, FS_Subset, FS_CardinalityType
<1> QED
  BY <1>1, <1>3, <1>5, PlaceType, FS_CardinalityType

\* A sort loses nothing, invents nothing, repeats nothing and is sorted: of two that
\* it returns the later does not come before the earlier.
LEMMA SortStableSorts ==
  ASSUME NEW I \in SUBSET Nat, IsFiniteSet(I), NEW R, IsComparison(R, I)
  PROVE  LET s == SortStable(I, R)
         IN  /\ Cardinality(I) \in Nat /\ DOMAIN s = 1..Cardinality(I)
             /\ \A n \in DOMAIN s : s[n] \in I
             /\ \A i \in I : \E n \in DOMAIN s : s[n] = i
             /\ \A m, n \in DOMAIN s : m < n => s[m] # s[n] /\ <<s[n], s[m]>> \notin R
<1> DEFINE s == SortStable(I, R)
           places == [i \in I |-> Place(I, R, i)]
<1>1. Cardinality(I) \in Nat
  BY FS_CardinalityType
<1>2. places \in [I -> 1..Cardinality(I)]
  BY PlaceType
<1>3. \A i, j \in I : places[i] = places[j] => i = j
  <2>1. ASSUME NEW i \in I, NEW j \in I, i # j PROVE Place(I, R, i) # Place(I, R, j)
    <3>1. i \in Ahead(I, R, j) \/ j \in Ahead(I, R, i)
      BY <2>1, AheadIsAnOrder
    <3>2. Place(I, R, i) \in Nat /\ Place(I, R, j) \in Nat
      BY <1>1, PlaceType
    <3> QED
      BY <3>1, <3>2, PlaceRises
  <2> QED
    BY <2>1
<1>4. places \in Injection(I, 1..Cardinality(I))
  BY <1>2, <1>3 DEF Injection, IsInjective
<1>5. IsFiniteSet(1..Cardinality(I)) /\ Cardinality(1..Cardinality(I)) = Cardinality(I)
  BY <1>1, FS_Interval
<1>6. places \in Surjection(I, 1..Cardinality(I))
  BY <1>4, <1>5, FS_Injection
<1>7. \A n \in 1..Cardinality(I) : \E i \in I : Place(I, R, i) = n
  BY <1>6 DEF Surjection
<1>8. DOMAIN s = 1..Cardinality(I)
  BY DEF SortStable
<1>9. \A n \in DOMAIN s : s[n] \in I /\ Place(I, R, s[n]) = n
  BY <1>7 DEF SortStable
<1>10. \A i \in I : \E n \in DOMAIN s : s[n] = i
  <2>1. ASSUME NEW i \in I PROVE \E n \in DOMAIN s : s[n] = i
    <3>1. places[i] \in DOMAIN s
      BY <1>2, <1>8
    <3>2. s[places[i]] \in I /\ places[s[places[i]]] = places[i]
      BY <1>9, <3>1
    <3> QED
      BY <1>3, <3>1, <3>2
  <2> QED
    BY <2>1
<1>11. ASSUME NEW m \in DOMAIN s, NEW n \in DOMAIN s, m < n
       PROVE  s[m] # s[n] /\ <<s[n], s[m]>> \notin R
  <2>1. s[m] \in I /\ s[n] \in I /\ Place(I, R, s[m]) = m /\ Place(I, R, s[n]) = n
    BY <1>9
  <2>2. m \in Nat /\ n \in Nat
    BY <1>1, <1>8
  <2>3. s[m] # s[n]
    BY <1>11, <2>1, <2>2
  <2>4. ASSUME s[n] \in Ahead(I, R, s[m]) PROVE FALSE
    <3>1. Place(I, R, s[n]) < Place(I, R, s[m])
      BY <2>1, <2>4, PlaceRises
    <3> QED
      BY <1>11, <2>1, <2>2, <3>1
  <2> QED
    BY <2>1, <2>3, <2>4 DEF Ahead
<1> QED
  BY <1>1, <1>8, <1>9, <1>10, <1>11

-------------------------------------------------------------------------------
(***************************************************************************)
(* The current stage of a lifecycle.                                       *)
(***************************************************************************)
\* What induction is replaced with: a set of numbers has a least one.
LEMMA LeastNumber ==
  ASSUME NEW T \in SUBSET Nat, T # {}
  PROVE  \E n \in T : \A m \in T : n <= m
<1>1. \E n \in T : \A m \in T : <<m, n>> \notin OpToRel(<, Nat)
  BY NatLessThanWellFounded, WFMin
<1>2. PICK n \in T : \A m \in T : <<m, n>> \notin OpToRel(<, Nat)
  BY <1>1
<1>3. \A m \in T : ~(m < n)
  BY <1>2 DEF OpToRel
<1> QED
  BY <1>3

\* A stage starts at some time or has no start time.
LEMMA StartType ==
  ASSUME NEW s \in Stages
  PROVE  s.start \in Nat \cup {None} /\ None \notin Nat
<1>1. s.start \in (0..MaxTime) \cup {None} /\ MaxTime \in Nat
  BY ConstantsAssumption DEF Stages
<1>2. None \notin Nat
  BY ConstantsAssumption
<1> QED
  BY <1>1, <1>2

\* The start times of stages compare as the sort needs it.
LEMMA StagesCompare ==
  ASSUME NEW life \in Seq(Stages)
  PROVE  /\ IsComparison(ByStart(life), DOMAIN life)
         /\ DOMAIN life \in SUBSET Nat /\ IsFiniteSet(DOMAIN life)
         /\ Cardinality(DOMAIN life) = Len(life)
<1>1. \A i \in DOMAIN life : life[i].start \in Nat \cup {None} /\ None \notin Nat
  BY StartType
<1>2. \A i, j \in DOMAIN life : <<i, j>> \in ByStart(life) <=> StartsBefore(life[i], life[j])
  BY DEF ByStart
<1>3. \A i, j \in DOMAIN life :
        StartsBefore(life[i], life[j]) => ~StartsBefore(life[j], life[i])
  BY <1>1 DEF StartsBefore
<1>4. \A i, j, k \in DOMAIN life :
        StartsBefore(life[i], life[k]) =>
          StartsBefore(life[i], life[j]) \/ StartsBefore(life[j], life[k])
  BY <1>1 DEF StartsBefore
<1>5. DOMAIN life = 1..Len(life) /\ Len(life) \in Nat
  OBVIOUS
<1>6. IsComparison(ByStart(life), DOMAIN life)
  BY <1>2, <1>3, <1>4 DEF IsComparison
<1>7. IsFiniteSet(1..Len(life)) /\ Cardinality(1..Len(life)) = Len(life)
  BY <1>5, FS_Interval
<1> QED
  BY <1>5, <1>6, <1>7

\* The loop ends: there is a turn it stops before, or none and it sees every stage.
LEMMA TurnsExist ==
  ASSUME NEW q \in Seq(Stages)
  PROVE  /\ Turns(q) \in 0..Len(q)
         /\ \A i \in 1..Turns(q) : Started(q[i])
         /\ Turns(q) < Len(q) => ~Started(q[Turns(q) + 1])
<1> DEFINE Stops == {n \in 0..Len(q) : n = Len(q) \/ ~Started(q[n + 1])}
<1>1. Stops \in SUBSET Nat /\ Len(q) \in Stops
  OBVIOUS
<1>2. PICK n \in Stops : \A m \in Stops : n <= m
  BY <1>1, LeastNumber
<1>3. ASSUME NEW i \in 1..n PROVE Started(q[i])
  <2>1. n \in 0..Len(q) /\ Len(q) \in Nat
    OBVIOUS
  <2>2. i - 1 \in 0..Len(q) /\ i - 1 # Len(q) /\ i - 1 < n /\ (i - 1) + 1 = i
    BY <2>1
  <2>3. ~(n <= i - 1)
    BY <2>1, <2>2
  <2>4. i - 1 \notin Stops
    BY <1>2, <2>3
  <2> QED
    BY <2>2, <2>4
<1>4. n \in 0..Len(q) /\ (n < Len(q) => ~Started(q[n + 1]))
  OBVIOUS
<1> QED
  BY <1>3, <1>4 DEF Turns

\* The variable of the loop, turn after turn.
Loop(q, f) ==
  f = [n \in 0..Len(q) |-> IF n = 0 THEN None ELSE LaterStage(f[n - 1], q[n])]

\* Such a history of the variable exists for every list.
LEMMA LoopExists ==
  ASSUME NEW q \in Seq(Stages)
  PROVE  \E f : Loop(q, f)
<1> DEFINE Upto(f, m) == /\ f[0] = None
                         /\ \A n \in 1..m : f[n] = LaterStage(f[n - 1], q[n])
           Fails == {m \in 0..Len(q) : ~\E f : Upto(f, m)}
<1>1. Fails \in SUBSET Nat
  OBVIOUS
<1>2. ASSUME Fails # {} PROVE FALSE
  <2>1. PICK m \in Fails : \A k \in Fails : m <= k
    BY <1>1, <1>2, LeastNumber
  <2>2. Upto([n \in {0} |-> None], 0)
    OBVIOUS
  <2> HIDE DEF Upto
  <2>3. m \in 0..Len(q) /\ m # 0 /\ Len(q) \in Nat
    BY <2>2
  <2>4. m - 1 \in 0..Len(q) /\ m - 1 < m
    BY <2>3
  <2>5. m - 1 \notin Fails
    BY <2>1, <2>3, <2>4
  <2>6. PICK f : Upto(f, m - 1)
    BY <2>5, <2>4
  <2> USE DEF Upto
  <2> DEFINE g == [n \in 0..m |-> IF n = m THEN LaterStage(f[m - 1], q[m]) ELSE f[n]]
  <2>7. g[0] = None /\ g[m] = LaterStage(g[m - 1], q[m])
    BY <2>3, <2>6
  <2>8. \A n \in 1..m : n # m => g[n] = f[n] /\ g[n - 1] = f[n - 1] /\ n \in 1..(m - 1)
    BY <2>3
  <2>9. Upto(g, m)
    BY <2>6, <2>7, <2>8
  <2> QED
    BY <2>1, <2>9
<1>3. PICK f : Upto(f, Len(q))
  BY <1>2
<1> DEFINE g == [n \in 0..Len(q) |-> f[n]]
<1>4. \A n \in 0..Len(q) : n # 0 => g[n] = LaterStage(g[n - 1], q[n])
  BY <1>3
<1>5. g[0] = None
  BY <1>3
<1>6. g = [n \in 0..Len(q) |-> IF n = 0 THEN None ELSE LaterStage(g[n - 1], q[n])]
  BY <1>4, <1>5
<1> QED
  BY <1>6 DEF Loop

\* The invariant of the loop over sorted stages: after n turns the variable holds
\* one of the first n stages, and none of them starts later.
LEMMA LoopInvariant ==
  ASSUME NEW q \in Seq(Stages), NEW f, Loop(q, f),
         \A i, j \in 1..Len(q) : i < j => ~StartsBefore(q[j], q[i]),
         NEW n \in 1..Len(q)
  PROVE  \E i \in 1..n : f[n] = q[i] /\ \A j \in 1..n : ~StartsBefore(q[i], q[j])
<1> DEFINE Latest(m, i) == f[m] = q[i] /\ \A j \in 1..m : ~StartsBefore(q[i], q[j])
           Fails == {m \in 1..Len(q) : ~\E i \in 1..m : Latest(m, i)}
<1>1. Fails \in SUBSET Nat
  OBVIOUS
<1>2. \A i \in 1..Len(q) : q[i].start \in Nat \cup {None} /\ None \notin Nat
  BY StartType
<1>3. f[0] = None /\ \A m \in 1..Len(q) : f[m] = LaterStage(f[m - 1], q[m])
  BY DEF Loop
<1>4. ASSUME Fails # {} PROVE FALSE
  <2>1. PICK m \in Fails : \A k \in Fails : m <= k
    BY <1>1, <1>4, LeastNumber
  <2>2. CASE m = 1
    <3>1. f[1] = q[1]
      BY <1>3, <2>2 DEF LaterStage
    <3>2. ~StartsBefore(q[1], q[1])
      BY <1>2, <2>2 DEF StartsBefore
    <3>3. Latest(1, 1)
      BY <3>1, <3>2
    <3> QED
      BY <2>1, <2>2, <3>3
  <2>3. CASE m # 1
    <3>1. m - 1 \in 1..Len(q) /\ m - 1 \notin Fails
      BY <2>1, <2>3
    <3>2. PICK i \in 1..(m - 1) : Latest(m - 1, i)
      BY <3>1
    <3>3. i \in 1..Len(q) /\ m \in 1..Len(q) /\ i < m
      BY <2>1, <2>3
    <3>4. ~StartsBefore(q[m], q[i]) /\ \A j \in 1..(m - 1) : ~StartsBefore(q[m], q[j])
      BY <3>3
    <3>5. ~StartsBefore(q[m], q[m])
      BY <1>2, <3>3 DEF StartsBefore
    <3>6. f[m] = LaterStage(q[i], q[m])
      BY <1>3, <3>2, <3>3
    <3>7. \A j \in 1..m : j = m \/ j \in 1..(m - 1)
      BY <3>3
    <3>8. CASE f[m] = q[m]
      <4>1. Latest(m, m)
        BY <3>4, <3>5, <3>7, <3>8
      <4> QED
        BY <2>1, <3>3, <4>1
    <3>9. CASE f[m] # q[m]
      <4>1. f[m] = q[i] /\ q[i].start # None /\ ~(q[m].start > q[i].start)
        BY <3>6, <3>9 DEF LaterStage
      <4>2. ~StartsBefore(q[i], q[m])
        BY <1>2, <3>3, <3>4, <4>1 DEF StartsBefore
      <4>3. Latest(m, i)
        BY <3>2, <3>7, <4>1, <4>2
      <4> QED
        BY <2>1, <3>3, <4>3
    <3> QED
      BY <3>8, <3>9
  <2> QED
    BY <2>2, <2>3
<1>5. n \notin Fails
  BY <1>4
<1> QED
  BY <1>5

\* The stage a lifecycle is in, without sort and loop: none if none has started, or
\* one that has started such that no other has started after it.
LatestStage(life, stage) ==
  LET started == {s \in Range(life) : Started(s)}
  IN  IF started = {} THEN stage = None
      ELSE stage \in started /\ \A s \in started : ~StartsBefore(stage, s)

\* The sorted stages are those of the lifecycle, each not before the next.
LEMMA SortedStages ==
  ASSUME NEW life \in Seq(Stages)
  PROVE  LET order == SortStable(DOMAIN life, ByStart(life))
             q == [n \in DOMAIN life |-> life[order[n]]]
         IN  /\ q \in Seq(Stages) /\ Len(q) = Len(life)
             /\ Range(q) = Range(life)
             /\ \A i, j \in 1..Len(q) : i < j => ~StartsBefore(q[j], q[i])
<1> DEFINE order == SortStable(DOMAIN life, ByStart(life))
           q == [n \in DOMAIN life |-> life[order[n]]]
<1>1. /\ DOMAIN order = 1..Len(life)
      /\ \A n \in DOMAIN order : order[n] \in DOMAIN life
      /\ \A i \in DOMAIN life : \E n \in DOMAIN order : order[n] = i
      /\ \A m, n \in DOMAIN order : m < n => <<order[n], order[m]>> \notin ByStart(life)
  BY StagesCompare, SortStableSorts
<1> HIDE DEF order
<1>2. DOMAIN life = 1..Len(life) /\ Len(life) \in Nat /\ \A i \in DOMAIN life : life[i] \in Stages
  OBVIOUS
<1>3. q \in [1..Len(life) -> Stages]
  BY <1>1, <1>2
<1>4. q \in Seq(Stages) /\ Len(q) = Len(life)
  BY <1>2, <1>3
<1>5. Range(q) = Range(life)
  <2>1. ASSUME NEW n \in DOMAIN q PROVE q[n] \in Range(life)
    BY <1>1, <1>2 DEF Range
  <2>2. ASSUME NEW i \in DOMAIN life PROVE life[i] \in Range(q)
    BY <1>1, <1>2 DEF Range
  <2> QED
    BY <2>1, <2>2 DEF Range
<1>6. ASSUME NEW i \in 1..Len(q), NEW j \in 1..Len(q), i < j
      PROVE  ~StartsBefore(q[j], q[i])
  <2>1. i \in DOMAIN order /\ j \in DOMAIN order /\ i \in DOMAIN life /\ j \in DOMAIN life
    BY <1>1, <1>2, <1>4
  <2>2. <<order[j], order[i]>> \notin ByStart(life)
    BY <1>1, <1>6, <2>1
  <2> QED
    BY <1>1, <2>1, <2>2 DEF ByStart
<1> QED
  BY <1>4, <1>5, <1>6 DEF order

\* The loop over the sorted stages finds the latest.
LEMMA LoopFindsLatest ==
  ASSUME NEW q \in Seq(Stages), now \in Nat,
         \A i, j \in 1..Len(q) : i < j => ~StartsBefore(q[j], q[i])
  PROVE  LatestStage(q, LoopOver(q))
<1> DEFINE f == CHOOSE g : Loop(q, g)
<1>1. Loop(q, f) /\ LoopOver(q) = f[Turns(q)]
  <2>1. Loop(q, f)
    BY LoopExists
  <2>2. LoopOver(q) = f[Turns(q)]
    BY DEF LoopOver, Loop
  <2> QED
    BY <2>1, <2>2
<1> HIDE DEF f
<1>2. Turns(q) \in 0..Len(q) /\ Len(q) \in Nat
  BY TurnsExist
<1>3. ASSUME NEW i \in 1..Len(q), i > Turns(q) PROVE ~Started(q[i])
  <2>1. Turns(q) + 1 \in 1..Len(q) /\ ~Started(q[Turns(q) + 1])
    BY <1>2, <1>3, TurnsExist
  <2>2. Turns(q) + 1 = i \/ Turns(q) + 1 < i
    BY <1>2, <1>3
  <2>3. Turns(q) + 1 < i => ~StartsBefore(q[i], q[Turns(q) + 1])
    BY <2>1
  <2>4. q[i].start \in Nat \cup {None} /\ q[Turns(q) + 1].start \in Nat \cup {None}
    BY <2>1, StartType
  <2>5. q[i].start # None /\ q[Turns(q) + 1].start # None
        /\ ~(q[Turns(q) + 1].start <= now)
        /\ ~(q[i].start < q[Turns(q) + 1].start)
    BY <2>1, <2>2, <2>3, <2>4 DEF Started, StartsBefore
  <2> QED
    BY <2>4, <2>5 DEF Started
<1>4. {s \in Range(q) : Started(s)} = {q[i] : i \in 1..Turns(q)}
  BY <1>2, <1>3, TurnsExist DEF Range
<1>5. CASE Turns(q) = 0
  BY <1>1, <1>4, <1>5, <1>2 DEF LatestStage, Loop
<1>6. CASE Turns(q) # 0
  <2>1. PICK i \in 1..Turns(q) :
          f[Turns(q)] = q[i] /\ \A j \in 1..Turns(q) : ~StartsBefore(q[i], q[j])
    BY <1>1, <1>2, <1>6, LoopInvariant
  <2> QED
    BY <1>1, <1>4, <2>1 DEF LatestStage
<1> QED
  BY <1>5, <1>6

\* determineCurrentLifecycleStage finds the stage that has most recently started.
LEMMA CurrentIsLatest ==
  ASSUME NEW life \in Seq(Stages), now \in Nat
  PROVE  LatestStage(life, CurrentLifecycleStage(life))
<1> DEFINE order == SortStable(DOMAIN life, ByStart(life))
           q == [n \in DOMAIN life |-> life[order[n]]]
<1>1. /\ q \in Seq(Stages) /\ Range(q) = Range(life)
      /\ \A i, j \in 1..Len(q) : i < j => ~StartsBefore(q[j], q[i])
  BY SortedStages
<1>2. CurrentLifecycleStage(life) = LoopOver(q)
  BY DEF CurrentLifecycleStage
<1> HIDE DEF q
<1>3. LatestStage(q, LoopOver(q))
  BY <1>1, LoopFindsLatest
<1> QED
  BY <1>1, <1>2, <1>3 DEF LatestStage

-------------------------------------------------------------------------------
(***************************************************************************)
(* What is published.                                                      *)
(***************************************************************************)
\* An offer on the list of a CloudProfile.
LEMMA OfferTypes ==
  ASSUME offers \in OfferLists, NEW i \in DOMAIN offers
  PROVE  /\ offers[i].ver \in K8sVersions
         /\ offers[i].class \in Classes \cup {None}
         /\ offers[i].life \in Seq(Stages)
<1>1. offers \in Seq(Offers)
  BY ConstantsAssumption
<1>2. offers[i] \in Offers
  BY <1>1
<1> QED
  BY <1>2 DEF Offers

\* The numbers of a version.
LEMMA VersionNumbers ==
  ASSUME NEW v \in K8sVersions
  PROVE  v.minor \in Nat /\ Patch(v) \in Nat
<1>1. v.minor \in Minors /\ v.patch \in Patches \cup {None}
  BY DEF K8sVersions
<1> QED
  BY <1>1, ConstantsAssumption DEF Patch

\* The versions on offer compare as the sort needs it, and as no version is listed
\* twice, one of two is the newer one.
LEMMA OffersCompare ==
  ASSUME offers \in OfferLists, NEW I \in SUBSET DOMAIN offers
  PROVE  /\ I \in SUBSET Nat /\ IsFiniteSet(I)
         /\ IsComparison(ByVersion(I), I)
         /\ \A i, j \in I : i # j => <<i, j>> \in ByVersion(I) \/ <<j, i>> \in ByVersion(I)
<1>1. \A i \in I : offers[i].ver.minor \in Nat /\ Patch(offers[i].ver) \in Nat
  BY OfferTypes, VersionNumbers
<1>2. \A i, j \in I :
        <<i, j>> \in ByVersion(I) <=> GreaterThan(offers[i].ver, offers[j].ver)
  BY DEF ByVersion, NewerFirst
<1>3. IsComparison(ByVersion(I), I)
  BY <1>1, <1>2 DEF IsComparison, GreaterThan
<1>4. \A i, j \in I : i # j => <<i, j>> \in ByVersion(I) \/ <<j, i>> \in ByVersion(I)
  BY <1>2, OffersDiffer
<1>5. DOMAIN offers = 1..Len(offers) /\ Len(offers) \in Nat
  BY ConstantsAssumption
<1>6. IsFiniteSet(DOMAIN offers)
  BY <1>5, FS_Interval
<1>7. IsFiniteSet(I)
  BY <1>6, FS_Subset
<1> QED
  BY <1>3, <1>4, <1>5, <1>7

\* A function on the first n numbers is a sequence, and the elements of a sequence.
LEMMA FunctionIsSeq ==
  ASSUME NEW S, NEW n \in Nat, NEW f \in [1..n -> S]
  PROVE  f \in Seq(S)
  OBVIOUS

LEMMA SequenceElement ==
  ASSUME NEW S, NEW s \in Seq(S), NEW i \in DOMAIN s
  PROVE  s[i] \in S
  OBVIOUS

\* The list handleCreateOrUpdate computes: the versions that are offered, each once
\* with its mark, and the newest first.
LEMMA SupportedList ==
  ASSUME offers \in OfferLists
  PROVE  LET kept == {i \in DOMAIN offers : Offered(offers[i])}
             list == SupportedK8sVersions
             Entry(p, i) == /\ p.ver = offers[i].ver
                            /\ p.deprecated = Deprecated(offers[i])
         IN  /\ list \in Seq([ver : K8sVersions, deprecated : BOOLEAN])
             /\ \A n \in DOMAIN list : \E i \in kept : Entry(list[n], i)
             /\ \A i \in kept : \E n \in DOMAIN list : Entry(list[n], i)
             /\ \A m, n \in DOMAIN list : m < n => GreaterThan(list[m].ver, list[n].ver)
<1> DEFINE kept == {i \in DOMAIN offers : Offered(offers[i])}
           order == SortStable(kept, ByVersion(kept))
           list == SupportedK8sVersions
<1>1. /\ Cardinality(kept) \in Nat /\ DOMAIN order = 1..Cardinality(kept)
      /\ \A n \in DOMAIN order : order[n] \in kept
      /\ \A i \in kept : \E n \in DOMAIN order : order[n] = i
      /\ \A m, n \in DOMAIN order :
           m < n => order[m] # order[n] /\ <<order[n], order[m]>> \notin ByVersion(kept)
  BY OffersCompare, SortStableSorts
<1>2. list = [n \in DOMAIN order |->
                [ver |-> offers[order[n]].ver, deprecated |-> Deprecated(offers[order[n]])]]
  BY DEF SupportedK8sVersions
<1> HIDE DEF order, list
<1>3. \A i \in DOMAIN offers : Deprecated(offers[i]) \in BOOLEAN
  BY DEF Deprecated
<1>4. list \in Seq([ver : K8sVersions, deprecated : BOOLEAN])
  <2>1. \A n \in DOMAIN order : list[n] \in [ver : K8sVersions, deprecated : BOOLEAN]
    BY <1>1, <1>2, <1>3, OfferTypes
  <2>2. list \in [1..Cardinality(kept) -> [ver : K8sVersions, deprecated : BOOLEAN]]
    BY <1>1, <1>2, <2>1
  <2> QED
    BY <1>1, <2>2, FunctionIsSeq
<1>5. ASSUME NEW m \in DOMAIN list, NEW n \in DOMAIN list, m < n
      PROVE  GreaterThan(list[m].ver, list[n].ver)
  <2>1. m \in DOMAIN order /\ n \in DOMAIN order
    BY <1>2
  <2>2. order[m] \in kept /\ order[n] \in kept /\ order[m] # order[n]
        /\ <<order[n], order[m]>> \notin ByVersion(kept)
    BY <1>1, <1>5, <2>1
  <2>3. <<order[m], order[n]>> \in ByVersion(kept)
    BY <2>2, OffersCompare
  <2> QED
    BY <1>2, <2>1, <2>3 DEF ByVersion, NewerFirst
<1>6. \A n \in DOMAIN list : order[n] \in kept /\ list[n].ver = offers[order[n]].ver
                             /\ list[n].deprecated = Deprecated(offers[order[n]])
  BY <1>1, <1>2
<1>7. \A i \in kept : \E n \in DOMAIN list : order[n] = i
  BY <1>1, <1>2
<1> QED
  BY <1>4, <1>5, <1>6, <1>7 DEF list

-------------------------------------------------------------------------------
(***************************************************************************)
(* Theorems.                                                               *)
(***************************************************************************)
\* The types, and the order of what is published.
VersionsInv == TypeOK /\ NewestOnTop

\* The invariant holds for the empty list, and every step keeps it: the list is only
\* ever replaced by a computed one.
LEMMA VersionsInductive ==
  /\ Init => VersionsInv
  /\ VersionsInv /\ [Next]_vars => VersionsInv'
<1>1. Init => VersionsInv
  BY ConstantsAssumption DEF Init, VersionsInv, TypeOK, NewestOnTop
<1>2. ASSUME VersionsInv, Publish PROVE VersionsInv'
  <2>1. offers \in OfferLists /\ offers' = offers /\ published' = SupportedK8sVersions
    BY <1>2 DEF VersionsInv, TypeOK, Publish
  <2>2. published' \in Seq([ver : K8sVersions, deprecated : BOOLEAN])
    BY <2>1, SupportedList
  <2>3. TypeOK'
    BY <1>2, <2>1, <2>2 DEF VersionsInv, TypeOK, Publish
  <2>4. \A m, n \in DOMAIN published' :
          m < n => GreaterThan(published'[m].ver, published'[n].ver)
    BY <2>1, SupportedList
  <2>5. \A n \in DOMAIN published' : \E i \in DOMAIN offers : published'[n].ver = offers[i].ver
    BY <2>1, SupportedList
  <2>6. NewestOnTop'
    BY <2>1, <2>4, <2>5 DEF NewestOnTop, Range
  <2> QED
    BY <2>3, <2>6 DEF VersionsInv
<1>3. ASSUME VersionsInv, UNCHANGED <<offers, published>>, TypeOK' PROVE VersionsInv'
  BY <1>3 DEF VersionsInv, NewestOnTop
<1>4. ASSUME VersionsInv, UpdateShoot PROVE TypeOK'
  BY <1>4 DEF VersionsInv, TypeOK, UpdateShoot, computeK8sVersion
<1>5. ASSUME VersionsInv, Maintain PROVE TypeOK'
  BY <1>5 DEF VersionsInv, TypeOK, Maintain, K8sVersions
<1>6. ASSUME VersionsInv, Configure PROVE TypeOK'
  <2>1. PICK i \in DOMAIN published :
          configured' \in {published[i].ver, [published[i].ver EXCEPT !.patch = None]}
    BY <1>6 DEF Configure
  <2>2. published \in Seq([ver : K8sVersions, deprecated : BOOLEAN])
    BY <1>6 DEF VersionsInv, TypeOK
  <2>3. configured' \in K8sVersions
    <3>1. published[i] \in [ver : K8sVersions, deprecated : BOOLEAN]
      BY <2>2, SequenceElement
    <3>2. published[i].ver \in K8sVersions
      BY <3>1
    <3> QED
      BY <2>1, <3>2 DEF K8sVersions
  <2> QED
    BY <1>6, <2>3 DEF VersionsInv, TypeOK, Configure
<1>7. ASSUME VersionsInv, Tick PROVE TypeOK'
  BY <1>7, ConstantsAssumption DEF VersionsInv, TypeOK, Tick
<1>8. ASSUME VersionsInv, UNCHANGED vars PROVE VersionsInv'
  BY <1>8 DEF VersionsInv, TypeOK, NewestOnTop, vars
<1> QED
  BY <1>1, <1>2, <1>3, <1>4, <1>5, <1>6, <1>7, <1>8
  DEF Next, UpdateShoot, Maintain, Configure, Tick

\* The variables have their types, and a ClusterProfile lists its versions from the
\* newest to the oldest, each once, and none that the CloudProfile does not have
\* (handleCreateOrUpdate).
THEOREM NewestIsOnTop == Spec => [](TypeOK /\ NewestOnTop)
<1>1. Init => VersionsInv
  BY VersionsInductive
<1>2. VersionsInv /\ [Next]_vars => VersionsInv'
  BY VersionsInductive
<1> QED
  BY <1>1, <1>2, PTL DEF Spec, VersionsInv

\* determineCurrentLifecycleStage returns the stage "which has most recently started"
\* (config/controller.go:427) for every version of a CloudProfile, at any time.
THEOREM CurrentStageIsTheLatest == Spec => []StageIsTheLatest
<1>1. VersionsInv => StageIsTheLatest
  <2>1. ASSUME VersionsInv, NEW o \in Range(offers)
        PROVE  LatestStage(o.life, CurrentLifecycleStage(o.life))
    <3>1. o.life \in Seq(Stages)
      BY <2>1, OfferTypes DEF VersionsInv, TypeOK, Range
    <3>2. now \in Nat
      BY <2>1, ConstantsAssumption DEF VersionsInv, TypeOK
    <3> QED
      BY <3>1, <3>2, CurrentIsLatest
  <2> QED
    BY <2>1 DEF StageIsTheLatest, LatestStage
<1> QED
  BY <1>1, VersionsInductive, PTL DEF Spec

\* The computed list has the right versions with the right marks.
LEMMA ListIsRight ==
  ASSUME TypeOK, NEW i \in DOMAIN offers
  PROVE  RightlyListed(offers[i], SupportedK8sVersions)
<1> DEFINE o == offers[i]
           list == SupportedK8sVersions
           stage == CurrentLifecycleStage(o.life)
           started == {s \in Range(o.life) : Started(s)}
           latest == {s \in started : \A t \in started : ~StartsBefore(s, t)}
           class == IF o.class # None THEN {o.class} ELSE {s.class : s \in latest}
           entries == {e \in Range(list) : e.ver = o.ver}
           mark == IF Deprecated(o) THEN "deprecated" ELSE "supported"
<1>1. offers \in OfferLists /\ now \in Nat /\ o.life \in Seq(Stages)
  BY OfferTypes, ConstantsAssumption DEF TypeOK
<1>2. IF started = {} THEN stage = None ELSE stage \in latest
  BY <1>1, CurrentIsLatest DEF LatestStage
<1>3. started # {} => stage # None /\ o.life # <<>>
  <2>1. started \subseteq Stages
    BY <1>1 DEF Range
  <2>2. o.life = <<>> => started = {}
    BY DEF Range
  <2> QED
    BY <1>2, <2>1, <2>2, ConstantsAssumption
<1>4. \A j \in DOMAIN offers : offers[j].ver = o.ver => j = i
  BY <1>1, OfferTypes, VersionNumbers, OffersDiffer DEF GreaterThan
<1>5. \A e \in entries : Offered(o) /\ e.deprecated = Deprecated(o)
  <2>1. ASSUME NEW n \in DOMAIN list, list[n].ver = o.ver
        PROVE  Offered(o) /\ list[n].deprecated = Deprecated(o)
    <3>1. PICK j \in {k \in DOMAIN offers : Offered(offers[k])} :
            list[n].ver = offers[j].ver /\ list[n].deprecated = Deprecated(offers[j])
      BY <1>1, SupportedList
    <3>2. j = i
      BY <1>4, <2>1, <3>1
    <3> QED
      BY <3>1, <3>2
  <2> QED
    BY <2>1 DEF Range
<1>6. Offered(o) => entries # {}
  BY <1>1, SupportedList DEF Range
<1> HIDE DEF o, list, stage, started, entries
<1>7. Offered(o) /\ class # {} => mark \in class
  BY <1>2, <1>3 DEF Offered, Deprecated, stage, latest
<1>8. class # {} /\ class \subseteq {"supported", "deprecated"} => Offered(o)
  BY <1>2, <1>3 DEF Offered, stage
<1>9. entries # {} /\ class # {} =>
        class \cap {IF e.deprecated THEN "deprecated" ELSE "supported" : e \in entries} # {}
  BY <1>5, <1>7
<1> QED
  BY <1>6, <1>8, <1>9 DEF RightlyListed, o, list, started, entries

\* When a ClusterProfile is written, each version that is supported or deprecated at
\* that moment is on the list, none that is in preview or expired is, and the mark
\* is right (handleCreateOrUpdate).
THEOREM ListedAsClassified == Spec => PublishedAsClassified
<1>1. VersionsInv /\ [Next]_vars /\ published' # published =>
        \A o \in Range(offers) : RightlyListed(o, published')
  <2>1. ASSUME VersionsInv, [Next]_vars, published' # published, NEW o \in Range(offers)
        PROVE  RightlyListed(o, published')
    <3>1. published' = SupportedK8sVersions
      BY <2>1 DEF Next, Publish, UpdateShoot, Maintain, Configure, Tick, vars
    <3>2. PICK i \in DOMAIN offers : o = offers[i]
      BY DEF Range
    <3> QED
      BY <2>1, <3>1, <3>2, ListIsRight DEF VersionsInv
  <2> QED
    BY <2>1
<1>2. VersionsInv /\ [Next]_vars =>
        [published' # published => \A o \in Range(offers) : RightlyListed(o, published')]_vars
  BY <1>1
<1> QED
  BY <1>2, VersionsInductive, PTL DEF Spec, PublishedAsClassified

\* The version of a shoot changes only to a higher one, or when Gardener completes it
\* (computeK8sVersion).
THEOREM ShootVersionRises == Spec => ShootOnlyRises
<1>1. ASSUME VersionsInv, [Next]_vars, shoot # None, shoot' # shoot
      PROVE  GreaterThan(shoot', shoot) \/ (shoot.patch = None /\ shoot'.minor = shoot.minor)
  <2>1. CASE UpdateShoot
    BY <1>1, <2>1 DEF UpdateShoot, computeK8sVersion
  <2>2. CASE Maintain
    <3>1. shoot \in K8sVersions
      BY <1>1 DEF VersionsInv, TypeOK
    <3>2. PICK n \in Patches : /\ shoot.patch = None \/ n > shoot.patch
                               /\ shoot' = [shoot EXCEPT !.patch = n]
      BY <2>2 DEF Maintain
    <3>3. shoot'.patch = n /\ shoot'.minor = shoot.minor
      BY <3>1, <3>2 DEF K8sVersions
    <3>4. n # None
      BY <3>2, ConstantsAssumption
    <3> QED
      BY <3>2, <3>3, <3>4 DEF GreaterThan, Patch
  <2>3. CASE Publish \/ Configure \/ Tick \/ UNCHANGED vars
    BY <1>1, <2>3 DEF Publish, Configure, Tick, vars
  <2> QED
    BY <1>1, <2>1, <2>2, <2>3 DEF Next
<1>2. VersionsInv /\ [Next]_vars =>
        [shoot # None /\ shoot' # shoot =>
           \/ GreaterThan(shoot', shoot)
           \/ shoot.patch = None /\ shoot'.minor = shoot.minor]_vars
  BY <1>1
<1> QED
  BY <1>2, VersionsInductive, PTL DEF Spec, ShootOnlyRises
===============================================================================
