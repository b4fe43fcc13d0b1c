-------------------------- MODULE SyncGroupsProofs --------------------------
(***************************************************************************)
(* Proofs about SyncGroups for any finite set of participants, any ways to *)
(* form a group, and any number of barriers, requests and faults.          *)
(***************************************************************************)
EXTENDS SyncGroups, FiniteSetTheorems, WellFoundedInduction, TLAPS

-----------------------------------------------------------------------------
(* Finite sets: a set with what all its strict subsets imply has it.       *)

LEMMA SubsetInduction ==
  ASSUME NEW S, IsFiniteSet(S), NEW Q,
         \A s \in SUBSET S : (\A t \in SUBSET s : t # s => t \in Q) => s \in Q
  PROVE  S \in Q
<1> DEFINE R == StrictSubsetOrdering(S)
           T == {s \in SUBSET S : s \notin Q}
<1>1. IsWellFoundedOn(R, FiniteSubsetsOf(S)) /\ FiniteSubsetsOf(S) = SUBSET S
  BY FS_StrictSubsetOrderingWellFounded, FS_FiniteSubsetsOfFinite
<1>2. SUFFICES ASSUME S \notin Q PROVE FALSE
  OBVIOUS
<1>3. T # {} /\ T \subseteq SUBSET S
  BY <1>2
<1> HIDE DEF R
<1>6. T \subseteq FiniteSubsetsOf(S)
  BY <1>1, <1>3
<1>7. \E s \in T : \A t \in T : ~(<<t, s>> \in R)
  <2> HIDE DEF T
  <2>. QED
    BY <1>1, <1>3, <1>6, WFMin
<1>4. PICK s \in T : \A t \in T : ~(<<t, s>> \in R)
  BY <1>7
<1>5. ASSUME NEW t \in SUBSET s, t # s PROVE t \in Q
  <2>1. <<t, s>> \in R
    BY <1>4, <1>5 DEF R, StrictSubsetOrdering
  <2>. QED
    BY <1>4, <1>5, <2>1
<1>. QED
  BY <1>4, <1>5

\* Row ids have a least and a greatest.
LEMMA MinMax ==
  ASSUME NEW S, IsFiniteSet(S), S \subseteq Nat, S # {}
  PROVE  /\ Min(S) \in S /\ \A y \in S : Min(S) =< y
         /\ Max(S) \in S /\ \A y \in S : Max(S) >= y
<1> DEFINE Q == {s \in SUBSET S : s = {} \/ (/\ \E x \in s : \A y \in s : x =< y
                                             /\ \E x \in s : \A y \in s : x >= y)}
<1>1. ASSUME NEW s \in SUBSET S, \A t \in SUBSET s : t # s => t \in Q PROVE s \in Q
  <2>1. CASE s = {}
    BY <2>1
  <2>2. CASE s # {}
    <3>1. PICK z \in s : TRUE
      BY <2>2
    <3>2. s \ {z} \in Q
      BY <1>1, <3>1
    <3>3. z \in Nat /\ s \subseteq Nat
      BY <3>1
    <3>4. CASE s \ {z} = {}
      <4>1. \A y \in s : y = z
        BY <3>4
      <4>. QED
        BY <3>1, <3>3, <4>1
    <3>5. CASE s \ {z} # {}
      <4>1. PICK a \in s \ {z} : \A y \in s \ {z} : a =< y
        BY <3>2, <3>5
      <4>2. PICK b \in s \ {z} : \A y \in s \ {z} : b >= y
        BY <3>2, <3>5
      <4>3. \E x \in s : \A y \in s : x =< y
        <5>1. CASE z =< a
          <6>1. \A y \in s : z =< y
            BY <3>3, <4>1, <5>1
          <6>. QED
            BY <6>1
        <5>2. CASE ~(z =< a)
          <6>1. \A y \in s : a =< y
            BY <3>3, <4>1, <5>2
          <6>. QED
            BY <6>1
        <5>. QED
          BY <5>1, <5>2
      <4>4. \E x \in s : \A y \in s : x >= y
        <5>1. CASE z >= b
          <6>1. \A y \in s : z >= y
            BY <3>3, <4>2, <5>1
          <6>. QED
            BY <6>1
        <5>2. CASE ~(z >= b)
          <6>1. \A y \in s : b >= y
            BY <3>3, <4>2, <5>2
          <6>. QED
            BY <6>1
        <5>. QED
          BY <5>1, <5>2
      <4>. QED
        BY <4>3, <4>4
    <3>. QED
      BY <3>4, <3>5
  <2>. QED
    BY <2>1, <2>2
<1>2. S \in Q
  <2> HIDE DEF Q
  <2>. QED
    BY <1>1, SubsetInduction
<1>. QED
  BY <1>2 DEF Min, Max

\* What holds of 0 and goes from each number to the next holds of all.
LEMMA NatSteps ==
  ASSUME NEW Q, 0 \in Q, \A n \in Nat : n \in Q => n + 1 \in Q, NEW k \in Nat
  PROVE  k \in Q
<1>. SUFFICES ASSUME k \notin Q PROVE FALSE
  OBVIOUS
<1> DEFINE B == {n \in 0..k : n \notin Q}
<1>1. IsFiniteSet(B) /\ B \subseteq Nat /\ k \in B
  <2>1. IsFiniteSet(0..k)
    BY FS_Interval
  <2>2. B \subseteq 0..k
    OBVIOUS
  <2>. QED
    BY <2>1, <2>2, FS_Subset
<1>2. Min(B) \in B /\ \A y \in B : Min(B) =< y
  BY <1>1, MinMax
<1> DEFINE m == Min(B)
<1>3. m \in Nat /\ m # 0 /\ m \in 0..k
  BY <1>2
<1>4. m - 1 \in Nat /\ m - 1 \in 0..k /\ m - 1 + 1 = m /\ ~(m =< m - 1)
  BY <1>3
<1>5. m - 1 \in Q
  BY <1>2, <1>4
<1>. QED
  BY <1>2, <1>4, <1>5
-----------------------------------------------------------------------------
(* Timing out the late members one after the other.                        *)

\* What becomes of the view ps once those before its greatest are done.
Later(g, ps, start, busy) ==
  IF ps = {} THEN start ELSE TimeOutOne(g[ps \ {Max(ps)}], Max(ps), busy)

LEMMA LaterExists ==
  ASSUME NEW out, IsFiniteSet(out), out \subseteq Nat, NEW start, NEW busy
  PROVE  \E g : g = [ps \in SUBSET out |-> Later(g, ps, start, busy)]
<1> DEFINE Solves(g, n) == \A ps \in SUBSET out :
             Cardinality(ps) <= n => g[ps] = Later(g, ps, start, busy)
           Q == {n \in Nat : \E g : Solves(g, n)}
<1>1. \A ps \in SUBSET out : /\ IsFiniteSet(ps) /\ Cardinality(ps) \in Nat
                             /\ Cardinality(ps) = 0 <=> ps = {}
  BY FS_Subset, FS_CardinalityType, FS_EmptySet
<1>2. \A ps \in SUBSET out : ps # {} =>
        /\ ps \ {Max(ps)} \in SUBSET out
        /\ Cardinality(ps \ {Max(ps)}) = Cardinality(ps) - 1
  BY <1>1, MinMax, FS_RemoveElement
<1>3. 0 \in Q
  <2> DEFINE g == [ps \in SUBSET out |-> start]
  <2>1. Solves(g, 0)
    <3> SUFFICES ASSUME NEW ps \in SUBSET out, Cardinality(ps) <= 0
                 PROVE  g[ps] = Later(g, ps, start, busy)
      OBVIOUS
    <3>1. ps = {}
      BY <1>1
    <3>. QED
      BY <3>1 DEF Later
  <2> HIDE DEF g
  <2>. QED
    BY <2>1
<1>4. ASSUME NEW n \in Nat, n \in Q PROVE n + 1 \in Q
  <2>1. PICK g : Solves(g, n)
    BY <1>4
  <2> DEFINE h == [ps \in SUBSET out |->
                     IF Cardinality(ps) <= n THEN g[ps] ELSE Later(g, ps, start, busy)]
  <2>2. \A ps \in SUBSET out : Cardinality(ps) <= n => h[ps] = g[ps]
    OBVIOUS
  <2>3. \A ps \in SUBSET out : h[ps] = Later(g, ps, start, busy)
    BY <2>1
  <2> HIDE DEF h
  <2>4. ASSUME NEW ps \in SUBSET out, Cardinality(ps) <= n + 1
        PROVE  Later(h, ps, start, busy) = Later(g, ps, start, busy)
    <3>1. CASE ps = {}
      BY <3>1 DEF Later
    <3>2. CASE ps # {}
      <4>1. ps \ {Max(ps)} \in SUBSET out /\ Cardinality(ps \ {Max(ps)}) <= n
        BY <1>1, <1>2, <2>4, <3>2
      <4>2. h[ps \ {Max(ps)}] = g[ps \ {Max(ps)}]
        BY <2>2, <4>1
      <4>. QED
        BY <3>2, <4>2 DEF Later
    <3>. QED
      BY <3>1, <3>2
  <2>5. Solves(h, n + 1)
    BY <2>3, <2>4
  <2>. QED
    BY <2>5
<1>5. Cardinality(out) \in Nat
  BY FS_CardinalityType
<1>6. Cardinality(out) \in Q
  <2> HIDE DEF Q
  <2>. QED
    BY <1>3, <1>4, <1>5, NatSteps
<1>7. PICK g : Solves(g, Cardinality(out))
  BY <1>6
<1>8. \A ps \in SUBSET out : g[ps] = Later(g, ps, start, busy)
  <2>1. \A ps \in SUBSET out : Cardinality(ps) <= Cardinality(out)
    BY FS_Subset
  <2>. QED
    BY <1>7, <2>1
<1> DEFINE h == [ps \in SUBSET out |-> g[ps]]
<1>9. \A ps \in SUBSET out : h[ps] = Later(h, ps, start, busy)
  <2> SUFFICES ASSUME NEW ps \in SUBSET out PROVE h[ps] = Later(h, ps, start, busy)
    OBVIOUS
  <2>1. CASE ps = {}
    BY <1>8, <2>1 DEF Later
  <2>2. CASE ps # {}
    <3>1. h[ps \ {Max(ps)}] = g[ps \ {Max(ps)}] /\ h[ps] = g[ps]
      BY <1>2, <2>2
    <3>. QED
      BY <1>8, <2>2, <3>1 DEF Later
  <2>. QED
    BY <2>1, <2>2
<1>10. h = [ps \in SUBSET out |-> Later(h, ps, start, busy)]
  <2> HIDE DEF Solves
  <2>1. h = [ps \in SUBSET out |-> h[ps]]
    OBVIOUS
  <2> HIDE DEF h
  <2>. QED
    BY <1>9, <2>1
<1>. QED
  BY <1>10

\* What the first view has and every single timeout keeps, the last one has.
LEMMA LateKeeps ==
  ASSUME NEW v, NEW late, NEW busy, NEW Good, IsFiniteSet(late), late \subseteq Nat,
         LateAction = "fail" => [v EXCEPT !.locked = @ \cup (late \ busy)] \in Good,
         LateAction # "fail" => v \in Good,
         \A u \in Good, p \in late :
           (LateAction = "fail" => p \notin busy) => TimeOutOne(u, p, busy) \in Good
  PROVE  TimeOutLate(v, late, busy) \in Good
<1> DEFINE out == IF LateAction = "fail" THEN late \ busy ELSE late
           start == IF LateAction = "fail" THEN [v EXCEPT !.locked = @ \cup out] ELSE v
           After == CHOOSE g : g = [ps \in SUBSET out |-> Later(g, ps, start, busy)]
<1>1. TimeOutLate(v, late, busy) = After[out]
  BY DEF TimeOutLate, Later
<1>2. IsFiniteSet(out) /\ out \subseteq Nat /\ out \subseteq late
  BY FS_Subset
<1>3. start \in Good
  OBVIOUS
<1>4. \A u \in Good, p \in out : TimeOutOne(u, p, busy) \in Good
  OBVIOUS
<1> HIDE DEF out, start
<1>5. After = [ps \in SUBSET out |-> Later(After, ps, start, busy)]
  BY <1>2, LaterExists
<1> HIDE DEF After
<1> DEFINE Q == {ps \in SUBSET out : After[ps] \in Good}
<1>6. ASSUME NEW ps \in SUBSET out, \A t \in SUBSET ps : t # ps => t \in Q
      PROVE  ps \in Q
  <2>1. After[ps] = Later(After, ps, start, busy)
    BY <1>5
  <2>2. CASE ps = {}
    BY <1>3, <2>1, <2>2 DEF Later
  <2>3. CASE ps # {}
    <3>1. Max(ps) \in ps
      BY <1>2, <2>3, MinMax, FS_Subset
    <3>2. After[ps \ {Max(ps)}] \in Good
      BY <1>6, <3>1
    <3>. QED
      BY <1>4, <2>1, <2>3, <3>1, <3>2 DEF Later
  <2>. QED
    BY <2>2, <2>3
<1>7. out \in Q
  <2> HIDE DEF Q
  <2>. QED
    BY <1>2, <1>6, SubsetInduction
<1>. QED
  BY <1>1, <1>7
-----------------------------------------------------------------------------
(* What the computations on a view return.                                 *)

GroupRows == [active : BOOLEAN, dissolving : BOOLEAN, n : Nat, leader : Nat, passed : BOOLEAN]
Views == [in : SUBSET Participants, failed : SUBSET Participants, locked : SUBSET Participants,
          group : GroupRows]

LEMMA PresentIs ==
  ASSUME NEW v \in Views
  PROVE  /\ Present(v) \subseteq Participants /\ Present(v) \subseteq Nat
         /\ IsFiniteSet(Present(v)) /\ Cardinality(Present(v)) \in Nat
         /\ Cardinality(Present(v)) = 0 <=> Present(v) = {}
<1>1. Present(v) \subseteq Participants
  BY DEF Present, Views
<1>2. IsFiniteSet(Present(v))
  BY <1>1, FS_Subset, GroupAssumption
<1>. QED
  BY <1>1, <1>2, FS_CardinalityType, FS_EmptySet, GroupAssumption

LEMMA CheckNumbersIs ==
  ASSUME NEW v \in Views
  PROVE  \E g \in GroupRows :
           /\ CheckNumbers(v) = [v EXCEPT !.group = g] /\ CheckNumbers(v) \in Views
           /\ g.active = v.group.active /\ g.leader = v.group.leader
           /\ g.n = Cardinality(Present(v))
<1> DEFINE g == [v.group EXCEPT !.n = Cardinality(Present(v))]
<1>1. v.group \in GroupRows
  BY DEF Views
<1>2. g \in GroupRows /\ g.active = v.group.active /\ g.leader = v.group.leader
      /\ g.n = Cardinality(Present(v))
  BY <1>1, PresentIs DEF GroupRows
<1>3. CheckNumbers(v) = [v EXCEPT !.group = g]
  BY DEF CheckNumbers
<1> HIDE DEF g
<1>4. [v EXCEPT !.group = g] \in Views
  BY <1>2 DEF Views
<1>. QED
  BY <1>2, <1>3, <1>4

LEMMA CheckLeaderIs ==
  ASSUME NEW v \in Views, NEW busy
  PROVE  \E g \in GroupRows, l \in SUBSET (Present(v) \ busy) :
           /\ CheckLeader(v, busy) = [v EXCEPT !.group = g, !.locked = v.locked \cup l]
           /\ CheckLeader(v, busy) \in Views
           /\ g.active = v.group.active
           /\ Present(v) \ busy # {} => g.leader \in Present(v)
<1> DEFINE free == Present(v) \ busy
<1>1. v.group \in GroupRows
  BY DEF Views
<1>2. CASE Present(v) = {}
  <2> DEFINE g == [v.group EXCEPT !.leader = 0]
  <2>1. g \in GroupRows /\ g.active = v.group.active
    BY <1>1 DEF GroupRows
  <2>2. CheckLeader(v, busy) = [v EXCEPT !.group = g]
    BY <1>2 DEF CheckLeader
  <2> HIDE DEF g
  <2>3. [v EXCEPT !.group = g] = [v EXCEPT !.group = g, !.locked = v.locked \cup {}]
    BY DEF Views
  <2>4. [v EXCEPT !.group = g] \in Views
    BY <2>1 DEF Views
  <2>. QED
    BY <1>2, <2>1, <2>2, <2>3, <2>4
<1>3. CASE Present(v) # {} /\ (v.group.leader \in Present(v) \/ free = {})
  <2>1. CheckLeader(v, busy) = v
    BY <1>3 DEF CheckLeader
  <2>2. v = [v EXCEPT !.group = v.group, !.locked = v.locked \cup {}]
    BY DEF Views
  <2>3. Present(v) \ busy # {} => v.group.leader \in Present(v)
    BY <1>3
  <2>4. {} \in SUBSET (Present(v) \ busy)
    OBVIOUS
  <2>. WITNESS v.group \in GroupRows, {} \in SUBSET (Present(v) \ busy)
  <2>. QED
    BY <2>1, <2>2, <2>3
<1>4. CASE Present(v) # {} /\ v.group.leader \notin Present(v) /\ free # {}
  <2> DEFINE m == Min(free)
             g == [v.group EXCEPT !.leader = m]
  <2>1. m \in free
    BY <1>4, PresentIs, MinMax, FS_Subset
  <2>2. m \in Participants /\ m \in Nat
    BY <2>1, PresentIs
  <2>3. CheckLeader(v, busy) = [v EXCEPT !.group = g, !.locked = v.locked \cup {m}]
    BY <1>4 DEF CheckLeader
  <2> HIDE DEF m
  <2>4. g \in GroupRows /\ g.active = v.group.active /\ g.leader = m
    BY <1>1, <2>2 DEF GroupRows
  <2> HIDE DEF g
  <2>5. [v EXCEPT !.group = g, !.locked = v.locked \cup {m}] \in Views
    BY <2>2, <2>4 DEF Views
  <2>6. {m} \in SUBSET (Present(v) \ busy) /\ m \in Present(v)
    BY <2>1
  <2>. g \in GroupRows /\ {m} \in SUBSET (Present(v) \ busy)
    BY <2>4, <2>6
  <2>. WITNESS g \in GroupRows, {m} \in SUBSET (Present(v) \ busy)
  <2>. QED
    BY <2>3, <2>4, <2>5, <2>6
<1>. QED
  BY <1>2, <1>3, <1>4

LEMMA DissolveIs ==
  ASSUME NEW v \in Views, NEW busy
  PROVE  \E g \in GroupRows, removed, out \in SUBSET Participants :
           /\ removed = Present(v) \ busy /\ out \subseteq removed
           /\ Dissolve(v, busy) = [in |-> v.in \ removed, failed |-> v.failed \cup out,
                                   locked |-> v.locked \cup removed, group |-> g]
           /\ Dissolve(v, busy) \in Views
           /\ g.active => v.group.active
           /\ v.group.active /\ ~g.active => Present(v) \cap busy = {}
<1> DEFINE removed == Present(v) \ busy
           stay == Present(v) \cap busy
           out == IF FailBelowMin THEN removed ELSE {}
           g == [v.group EXCEPT
                   !.n = Cardinality(stay), !.dissolving = (stay # {}), !.active = @ /\ stay # {},
                   !.leader = IF removed = {} \/ @ \in stay THEN @ ELSE Max(removed)]
<1>1. v.group \in GroupRows
  BY DEF Views
<1>2. removed \in SUBSET Participants /\ out \in SUBSET Participants /\ out \subseteq removed
  BY PresentIs
<1>3. Cardinality(stay) \in Nat
  BY PresentIs, FS_Subset, FS_CardinalityType
<1>4. removed # {} => Max(removed) \in Nat
  BY PresentIs, MinMax, FS_Subset
<1>5. Dissolve(v, busy) = [in |-> v.in \ removed, failed |-> v.failed \cup out,
                           locked |-> v.locked \cup removed, group |-> g]
  BY DEF Dissolve
<1> HIDE DEF removed, out
<1>6. g \in GroupRows
  BY <1>1, <1>3, <1>4 DEF GroupRows
<1>7. (g.active => v.group.active) /\ (v.group.active /\ ~g.active => stay = {})
  BY <1>1 DEF GroupRows
<1> HIDE DEF g
<1>8. Dissolve(v, busy) \in Views
  BY <1>2, <1>5, <1>6 DEF Views
<1>. QED
  BY <1>2, <1>5, <1>6, <1>7, <1>8 DEF removed
-----------------------------------------------------------------------------
(* A view that a transaction may have: it fails mine and those it locks,   *)
(* removes gone and those it locks, locks nobody who is busy, and closes   *)
(* the group over nobody.                                                  *)

Sound(v, mine, gone, busy) ==
  /\ v \in Views
  /\ failed \subseteq v.failed /\ v.failed \subseteq failed \cup mine \cup v.locked
  /\ v.in \subseteq members /\ members \subseteq v.in \cup gone \cup v.locked
  /\ v.locked \cap busy = {}
  /\ ~TopUps => /\ v.group.active => group.active
                /\ ~v.group.active => Present(v) = {}

\* What else is in the group's row does not matter, nor do more locks.
LEMMA SoundRow ==
  ASSUME NEW mine, NEW gone, NEW busy, NEW v, Sound(v, mine, gone, busy), NEW w \in Views,
         w.in = v.in, w.failed = v.failed, w.group.active = v.group.active,
         v.locked \subseteq w.locked, w.locked \cap busy = {}
  PROVE  Sound(w, mine, gone, busy) /\ Present(w) = Present(v)
<1>1. Present(w) = Present(v)
  BY DEF Present
<1>. QED
  BY <1>1 DEF Sound

LEMMA SoundNumbers ==
  ASSUME NEW mine, NEW gone, NEW busy, NEW v, Sound(v, mine, gone, busy)
  PROVE  /\ Sound(CheckNumbers(v), mine, gone, busy)
         /\ CheckNumbers(v).in = v.in /\ CheckNumbers(v).failed = v.failed
         /\ CheckNumbers(v).locked = v.locked
         /\ CheckNumbers(v).group.active = v.group.active
         /\ CheckNumbers(v).group.n = Cardinality(Present(v))
         /\ Present(CheckNumbers(v)) = Present(v)
<1>1. v \in Views
  BY DEF Sound
<1>2. PICK g \in GroupRows :
        /\ CheckNumbers(v) = [v EXCEPT !.group = g] /\ g.active = v.group.active
        /\ g.n = Cardinality(Present(v))
  BY <1>1, CheckNumbersIs
<1> DEFINE w == [v EXCEPT !.group = g]
<1>4. w.in = v.in /\ w.failed = v.failed /\ w.group = g /\ w.locked = v.locked /\ w \in Views
  BY <1>1 DEF Views
<1> HIDE DEF w
<1>5. Sound(w, mine, gone, busy) /\ Present(w) = Present(v)
  <2>1. v.locked \subseteq w.locked /\ w.locked \cap busy = {}
    BY <1>4 DEF Sound
  <2>. QED
    BY <1>2, <1>4, <2>1, SoundRow
<1>6. CheckNumbers(v) = w
  BY <1>2 DEF w
<1>. QED
  BY <1>2, <1>4, <1>5, <1>6

LEMMA SoundLeader ==
  ASSUME NEW mine, NEW gone, NEW busy, NEW v, Sound(v, mine, gone, busy)
  PROVE  /\ Sound(CheckLeader(v, busy), mine, gone, busy)
         /\ v.locked \subseteq CheckLeader(v, busy).locked
         /\ CheckLeader(v, busy).in = v.in /\ CheckLeader(v, busy).failed = v.failed
         /\ CheckLeader(v, busy).group.active = v.group.active
         /\ Present(CheckLeader(v, busy)) = Present(v)
         /\ Present(v) \ busy # {} => CheckLeader(v, busy).group.leader \in Present(v)
<1>1. v \in Views
  BY DEF Sound
<1>2. PICK g \in GroupRows, l \in SUBSET (Present(v) \ busy) :
        /\ CheckLeader(v, busy) = [v EXCEPT !.group = g, !.locked = v.locked \cup l]
        /\ g.active = v.group.active
        /\ Present(v) \ busy # {} => g.leader \in Present(v)
  BY <1>1, CheckLeaderIs
<1>3. l \in SUBSET Participants /\ l \cap busy = {}
  BY <1>1, PresentIs
<1> DEFINE w == [v EXCEPT !.group = g, !.locked = v.locked \cup l]
<1>4. /\ w.in = v.in /\ w.failed = v.failed /\ w.group = g /\ w.locked = v.locked \cup l
      /\ w \in Views
  BY <1>1, <1>3 DEF Views
<1> HIDE DEF w
<1>5. Sound(w, mine, gone, busy) /\ Present(w) = Present(v)
  <2>1. v.locked \subseteq w.locked /\ w.locked \cap busy = {}
    BY <1>3, <1>4 DEF Sound
  <2>. QED
    BY <1>2, <1>4, <2>1, SoundRow
<1>6. CheckLeader(v, busy) = w
  BY <1>2 DEF w
<1>. QED
  BY <1>2, <1>4, <1>5, <1>6

LEMMA SoundDissolve ==
  ASSUME NEW mine, NEW gone, NEW busy, NEW v, Sound(v, mine, gone, busy)
  PROVE  /\ Sound(Dissolve(v, busy), mine, gone, busy)
         /\ v.locked \subseteq Dissolve(v, busy).locked
         /\ Dissolve(v, busy).in \subseteq v.in /\ v.failed \subseteq Dissolve(v, busy).failed
<1>1. v \in Views
  BY DEF Sound
<1>2. PICK g \in GroupRows, removed, out \in SUBSET Participants :
        /\ removed = Present(v) \ busy /\ out \subseteq removed
        /\ Dissolve(v, busy) = [in |-> v.in \ removed, failed |-> v.failed \cup out,
                                locked |-> v.locked \cup removed, group |-> g]
        /\ Dissolve(v, busy) \in Views
        /\ g.active => v.group.active
        /\ v.group.active /\ ~g.active => Present(v) \cap busy = {}
  BY <1>1, DissolveIs
<1> DEFINE w == Dissolve(v, busy)
<1>3. /\ w.in = v.in \ removed /\ w.failed = v.failed \cup out
      /\ w.locked = v.locked \cup removed /\ w.group = g /\ w \in Views
  BY <1>2
<1> HIDE DEF w
<1>4. Present(w) \subseteq Present(v) \cap busy
  BY <1>2, <1>3 DEF Present
<1>5. Sound(w, mine, gone, busy)
  <2>1. failed \subseteq w.failed /\ w.failed \subseteq failed \cup mine \cup w.locked
    BY <1>2, <1>3 DEF Sound
  <2>2. w.in \subseteq members /\ members \subseteq w.in \cup gone \cup w.locked
    BY <1>2, <1>3 DEF Sound
  <2>3. w.locked \cap busy = {}
    BY <1>2, <1>3 DEF Sound
  <2>4. ~TopUps => /\ w.group.active => group.active
                   /\ ~w.group.active => Present(w) = {}
    BY <1>2, <1>3, <1>4 DEF Sound
  <2>. QED
    BY <1>3, <2>1, <2>2, <2>3, <2>4 DEF Sound
<1>. QED
  BY <1>3, <1>5 DEF w

LEMMA SoundRemove ==
  ASSUME NEW mine, NEW gone, NEW busy, NEW v, Sound(v, mine, gone, busy),
         NEW p \in gone \cup v.locked
  PROVE  /\ Sound(RemoveParticipant(v, p, busy), mine, gone, busy)
         /\ v.locked \subseteq RemoveParticipant(v, p, busy).locked
         /\ RemoveParticipant(v, p, busy).in \subseteq v.in \ {p}
         /\ v.failed \subseteq RemoveParticipant(v, p, busy).failed
<1> DEFINE x == [v EXCEPT !.in = @ \ {p}]
           u == CheckNumbers(x)
           w == IF u.group.n = 0 /\ ~TopUps THEN [u EXCEPT !.group.active = FALSE]
                ELSE CheckLeader(u, busy)
<1>1. /\ x.in = v.in \ {p} /\ x.failed = v.failed /\ x.locked = v.locked /\ x.group = v.group
      /\ x \in Views
  BY DEF Sound, Views
<1> HIDE DEF x
<1>2. Sound(x, mine, gone, busy)
  <2>1. Present(x) \subseteq Present(v)
    BY <1>1 DEF Present
  <2>. QED
    BY <1>1, <2>1 DEF Sound
<1>3. Sound(u, mine, gone, busy) /\ u.in = v.in \ {p} /\ u.locked = v.locked
      /\ u.failed = v.failed
      /\ u.group.n = Cardinality(Present(u))
  BY <1>1, <1>2, SoundNumbers
<1> HIDE DEF u
<1>4. Sound(w, mine, gone, busy) /\ w.in = v.in \ {p} /\ v.locked \subseteq w.locked
      /\ w.failed = v.failed
  <2>1. CASE u.group.n = 0 /\ ~TopUps
    <3> DEFINE g == [u.group EXCEPT !.active = FALSE]
               y == [u EXCEPT !.group = g]
    <3>1. u \in Views /\ u.group \in GroupRows
      BY <1>3 DEF Sound, Views
    <3>2. g \in GroupRows /\ g.active = FALSE
      BY <3>1 DEF GroupRows
    <3>3. w = y
      BY <2>1
    <3> HIDE DEF g
    <3>4. /\ y.in = u.in /\ y.failed = u.failed /\ y.locked = u.locked /\ y.group = g
          /\ y \in Views
      BY <3>1, <3>2 DEF Views
    <3> HIDE DEF y, w
    <3>5. Present(u) = {} /\ Present(y) = Present(u)
      BY <1>3, <2>1, <3>1, <3>4, PresentIs DEF Present
    <3>6. Sound(y, mine, gone, busy)
      BY <1>3, <3>2, <3>4, <3>5 DEF Sound
    <3>. QED
      BY <1>3, <3>3, <3>4, <3>6
  <2>2. CASE ~(u.group.n = 0 /\ ~TopUps)
    <3>1. w = CheckLeader(u, busy)
      BY <2>2
    <3> HIDE DEF w
    <3>. QED
      BY <1>3, <3>1, SoundLeader
  <2>. QED
    BY <2>1, <2>2
<1>5. RemoveParticipant(v, p, busy) = IF TopUps \/ u.group.n >= MinSize THEN w ELSE Dissolve(w, busy)
  BY DEF RemoveParticipant, u, x
<1> HIDE DEF w
<1>6. /\ Sound(Dissolve(w, busy), mine, gone, busy)
      /\ w.locked \subseteq Dissolve(w, busy).locked
      /\ Dissolve(w, busy).in \subseteq w.in /\ w.failed \subseteq Dissolve(w, busy).failed
  BY <1>4, SoundDissolve
<1>. QED
  BY <1>4, <1>5, <1>6

LEMMA SoundFail ==
  ASSUME NEW mine, NEW gone, NEW busy, NEW v, Sound(v, mine, gone, busy),
         NEW p \in Participants, p \in mine \cup v.locked, p \in gone \cup v.locked
  PROVE  /\ Sound(FailOne(v, p, busy), mine, gone, busy)
         /\ v.locked \subseteq FailOne(v, p, busy).locked
         /\ p \in FailOne(v, p, busy).failed
<1>1. CASE p \in v.failed
  BY <1>1 DEF FailOne
<1>2. CASE p \notin v.failed
  <2> DEFINE u == [v EXCEPT !.failed = @ \cup {p}]
  <2>1. /\ u.in = v.in /\ u.failed = v.failed \cup {p} /\ u.locked = v.locked
        /\ u.group = v.group /\ u \in Views
    BY DEF Sound, Views
  <2> HIDE DEF u
  <2>2. Sound(u, mine, gone, busy)
    <3>1. Present(u) \subseteq Present(v)
      BY <2>1 DEF Present
    <3>. QED
      BY <2>1, <3>1 DEF Sound
  <2>3. FailOne(v, p, busy) = IF p \in v.in /\ v.group.active
                              THEN RemoveParticipant(u, p, busy) ELSE u
    BY <1>2 DEF FailOne, u
  <2>4. /\ Sound(RemoveParticipant(u, p, busy), mine, gone, busy)
        /\ u.locked \subseteq RemoveParticipant(u, p, busy).locked
        /\ u.failed \subseteq RemoveParticipant(u, p, busy).failed
    BY <2>1, <2>2, SoundRemove
  <2>. QED
    BY <2>1, <2>2, <2>3, <2>4
<1>. QED
  BY <1>1, <1>2

LEMMA SoundKick ==
  ASSUME NEW mine, NEW gone, NEW busy, NEW v, Sound(v, mine, gone, busy),
         NEW p \in gone \cup v.locked
  PROVE  /\ Sound(KickOne(v, p, busy), mine, gone, busy)
         /\ ~TopUps => p \notin Present(KickOne(v, p, busy))
<1>1. CASE p \in v.in /\ v.group.active
  <2>1. KickOne(v, p, busy) = RemoveParticipant(v, p, busy)
    BY <1>1 DEF KickOne
  <2>. QED
    BY <2>1, SoundRemove DEF Present
<1>2. CASE ~(p \in v.in /\ v.group.active)
  <2>1. KickOne(v, p, busy) = v
    BY <1>2 DEF KickOne
  <2>. QED
    BY <1>2, <2>1 DEF Sound, Present
<1>. QED
  BY <1>1, <1>2

\* Late members are kicked without their rows, or failed with them.
LEMMA SoundTimeOut ==
  ASSUME NEW gone, NEW busy, NEW v, Sound(v, {}, gone, busy),
         NEW late \in SUBSET Participants, late \subseteq gone, late # {} => LateAction # "none"
  PROVE  Sound(TimeOutLate(v, late, busy), {}, gone, busy)
<1> DEFINE Good == {u \in Views : /\ Sound(u, {}, gone, busy)
                                  /\ LateAction = "fail" => late \ busy \subseteq u.locked}
<1>1. IsFiniteSet(late) /\ late \subseteq Nat
  BY FS_Subset, GroupAssumption
<1>2. LateAction = "fail" => [v EXCEPT !.locked = @ \cup (late \ busy)] \in Good
  <2> DEFINE w == [v EXCEPT !.locked = @ \cup (late \ busy)]
  <2>1. /\ w \in Views /\ w.in = v.in /\ w.failed = v.failed /\ w.group = v.group
        /\ w.locked = v.locked \cup (late \ busy)
    BY DEF Sound, Views
  <2> HIDE DEF w
  <2>2. v.locked \subseteq w.locked /\ w.locked \cap busy = {}
    BY <2>1 DEF Sound
  <2>3. Sound(w, {}, gone, busy)
    BY <2>1, <2>2, SoundRow
  <2>4. w \in Good
    BY <2>1, <2>3
  <2>. QED
    BY <2>4 DEF w
<1>3. LateAction # "fail" => v \in Good
  BY DEF Sound
<1>4. ASSUME NEW u \in Good, NEW p \in late, LateAction = "fail" => p \notin busy
      PROVE  TimeOutOne(u, p, busy) \in Good
  <2>1. CASE LateAction = "kick"
    <3>1. Sound(RemoveParticipant(u, p, busy), {}, gone, busy)
      BY SoundRemove
    <3>2. TimeOutOne(u, p, busy) = RemoveParticipant(u, p, busy)
      BY <2>1 DEF TimeOutOne
    <3>3. RemoveParticipant(u, p, busy) \in Views
      BY <3>1 DEF Sound
    <3>. QED
      BY <2>1, <3>1, <3>2, <3>3
  <2>2. CASE LateAction # "kick"
    <3>1. TimeOutOne(u, p, busy) = FailOne(u, p, busy)
      BY <2>2 DEF TimeOutOne
    <3>2. CASE LateAction = "fail"
      <4>1. p \in u.locked
        BY <1>4, <3>2
      <4>2. Sound(FailOne(u, p, busy), {}, gone, busy) /\ u.locked \subseteq FailOne(u, p, busy).locked
        BY <4>1, SoundFail
      <4>3. FailOne(u, p, busy) \in Views
        BY <4>2 DEF Sound
      <4>. QED
        BY <3>1, <4>2, <4>3
    <3>. QED
      BY <1>4, <2>2, <3>2, GroupAssumption
  <2>. QED
    BY <2>1, <2>2
<1>5. TimeOutLate(v, late, busy) \in Good
  <2> HIDE DEF Good
  <2>. QED
    BY <1>1, <1>2, <1>3, <1>4, LateKeeps
<1>. QED
  BY <1>5

\* A check releases nobody who stays in the group, or all who do.
LEMMA SoundSettle ==
  ASSUME NEW gone, NEW busy, NEW v, Sound(v, {}, gone, busy), NEW waiting,
         waiting \cap busy = {}, grouper \in Groupers, NEW w, w = Settle(v, waiting, busy)
  PROVE  /\ Sound(w, {}, gone, busy)
         /\ Released(w, waiting) \subseteq waiting
         /\ ~TopUps =>
              \/ Released(w, waiting) \cap Present(w) = {}
              \/ /\ Present(w) \subseteq Released(w, waiting)
                 /\ Cardinality(Present(w)) >= MinSize
                 /\ w.group.leader \in Present(w)
<1> DEFINE u == CheckNumbers(v)
           done == CheckLeader(u, busy)
           passed == [done EXCEPT !.group.passed = TRUE]
<1>1. /\ Sound(u, {}, gone, busy) /\ u.in = v.in /\ Present(u) = Present(v)
      /\ u.group.active = v.group.active
  BY SoundNumbers
<1>2. w = IF waiting \cap u.in = {} \/ ~u.group.active THEN v
          ELSE IF Cardinality(Present(u)) < MinSize THEN IF TopUps THEN u ELSE Dissolve(u, busy)
          ELSE IF Present(u) \subseteq waiting THEN passed ELSE u
  BY DEF Settle
<1> HIDE DEF u
<1>3. Sound(Dissolve(u, busy), {}, gone, busy) /\ Present(Dissolve(u, busy)) \subseteq Present(u)
  BY <1>1, SoundDissolve DEF Present
<1>4. /\ Sound(done, {}, gone, busy) /\ Present(done) = Present(u)
      /\ Present(u) \ busy # {} => done.group.leader \in Present(u)
  BY <1>1, SoundLeader
<1> HIDE DEF done
<1>5. /\ Sound(passed, {}, gone, busy) /\ Present(passed) = Present(u)
      /\ passed.group.leader = done.group.leader
  <2> DEFINE g == [done.group EXCEPT !.passed = TRUE]
  <2>1. done \in Views /\ done.group \in GroupRows
    BY <1>4 DEF Sound, Views
  <2>2. g \in GroupRows /\ g.active = done.group.active /\ g.leader = done.group.leader
    BY <2>1 DEF GroupRows
  <2>3. passed = [done EXCEPT !.group = g]
    OBVIOUS
  <2> HIDE DEF g
  <2>4. /\ passed \in Views /\ passed.in = done.in /\ passed.failed = done.failed
        /\ passed.group = g /\ passed.locked = done.locked
    BY <2>1, <2>2, <2>3 DEF Views
  <2> HIDE DEF passed
  <2>5. done.locked \subseteq passed.locked /\ passed.locked \cap busy = {}
    BY <1>4, <2>4 DEF Sound
  <2>6. Sound(passed, {}, gone, busy) /\ Present(passed) = Present(done)
    BY <1>4, <2>2, <2>4, <2>5, SoundRow
  <2>. QED
    BY <1>4, <2>2, <2>4, <2>6
<1> HIDE DEF passed
<1>6. Sound(w, {}, gone, busy)
  BY <1>1, <1>2, <1>3, <1>5
<1>7. Released(w, waiting) \subseteq waiting
  BY DEF Released
<1>8. ASSUME ~TopUps, Released(w, waiting) \cap Present(w) # {}
      PROVE  /\ Present(w) \subseteq Released(w, waiting)
             /\ Cardinality(Present(w)) >= MinSize
             /\ w.group.leader \in Present(w)
  <2>1. Cardinality(Present(w)) >= MinSize /\ Present(w) \subseteq waiting
        /\ Released(w, waiting) = waiting
    <3>1. CASE ~(Cardinality(Present(w)) >= MinSize /\ Present(w) \subseteq waiting)
      <4>1. Released(w, waiting) = IF w.group.active THEN waiting \ w.in ELSE waiting
        BY <3>1 DEF Released
      <4>2. Present(w) \subseteq w.in /\ (~w.group.active => Present(w) = {})
        BY <1>6, <1>8 DEF Sound, Present
      <4>. QED
        BY <1>8, <4>1, <4>2
    <3>. QED
      BY <3>1 DEF Released
  <2>2. MinSize \in Nat \ {0} /\ Present(w) # {}
    BY <1>8, GroupAssumption DEF MinSize
  <2>3. w.group.leader \in Present(w)
    <3>1. CASE waiting \cap u.in = {} \/ ~u.group.active
      <4>1. w = v
        BY <1>2, <3>1
      <4>. QED
        BY <1>1, <1>8, <2>1, <2>2, <3>1, <4>1 DEF Sound, Present
    <3>2. CASE Cardinality(Present(u)) < MinSize
      <4>1. Present(w) \subseteq Present(u)
        BY <1>1, <1>2, <1>3, <1>8, <3>2
      <4>2. /\ Cardinality(Present(w)) <= Cardinality(Present(u))
            /\ Cardinality(Present(w)) \in Nat /\ Cardinality(Present(u)) \in Nat
        BY <1>1, <1>6, <4>1, PresentIs, FS_Subset DEF Sound
      <4>. QED
        BY <2>1, <2>2, <3>2, <4>2
    <3>3. CASE ~(waiting \cap u.in = {} \/ ~u.group.active) /\ ~(Cardinality(Present(u)) < MinSize)
      <4>1. CASE Present(u) \subseteq waiting
        <5>1. w = passed
          BY <1>2, <3>3, <4>1
        <5>2. Present(u) \ busy # {}
          BY <1>5, <2>2, <4>1, <5>1
        <5>. QED
          BY <1>4, <1>5, <5>1, <5>2
      <4>2. CASE ~(Present(u) \subseteq waiting)
        <5>1. w = u
          BY <1>2, <3>3, <4>2
        <5>. QED
          BY <2>1, <4>2, <5>1
      <4>. QED
        BY <4>1, <4>2
    <3>. QED
      BY <3>1, <3>2, <3>3
  <2>. QED
    BY <2>1, <2>3
<1>. QED
  BY <1>6, <1>7, <1>8
-----------------------------------------------------------------------------
(* The invariant.                                                          *)

Tx == [pc : {"idle", "open", "locked", "planned"}, locked : SUBSET Participants,
       from : GroupRows, to : GroupRows, joins : SUBSET Participants,
       leaves : SUBSET Participants, fails : SUBSET Participants,
       arrives : SUBSET Participants, releases : SUBSET Participants]

SyncTypeOK ==
  /\ grouper \in Groupers /\ members \in SUBSET Participants /\ failed \in SUBSET Participants
  /\ arrived \in SUBSET Participants /\ round \in [Participants -> Nat] /\ group \in GroupRows
  /\ tx \in [Actors -> Tx]

\* A transaction writes to rows it has locked; whom a check has locked waits,
\* and whom it releases did.
OwnsRows(a) ==
  /\ tx[a].fails \subseteq tx[a].locked /\ tx[a].releases \subseteq tx[a].locked
  /\ tx[a].arrives \subseteq tx[a].locked
  /\ tx[a].pc = "open" => \A p \in Participants : a = Row(p) => p \in tx[a].locked
  /\ \A r \in 1..Rounds : a = Visit(r) =>
       /\ tx[a].releases \subseteq Waiters(r)
       /\ tx[a].pc = "locked" => tx[a].locked \subseteq Waiters(r)

\* Only links to the group are written without a lock on the participant: a
\* check kicks late members while it holds a member who waits for them.
Kicks(a) ==
  \/ tx[a].leaves \subseteq tx[a].locked
  \/ \E r \in 1..Rounds, w \in tx[a].locked \cap Active : a = Visit(r) /\ round[w] + 1 = r

\* Who joins has counted the group under its row, and fits in.
Joins(a) ==
  tx[a].joins # {} => TopUps /\ groupRow = a /\ Cardinality(Active \cup tx[a].joins) <= MaxSize

\* The members that transaction a will leave in the group: nobody who goes on
\* from the barrier, or all who do; and nobody if it closes the group.
After(a) == (members \ tx[a].leaves) \ (failed \cup tx[a].fails)

Goes(a) ==
  \/ tx[a].releases \cap After(a) = {}
  \/ /\ \E r \in 1..Rounds : a = Visit(r)
     /\ After(a) \subseteq tx[a].releases /\ Cardinality(After(a)) >= MinSize
     /\ tx[a].to.leader \in After(a)

Closes(a) == tx[a].to.active # tx[a].from.active => After(a) = {}

Disjoint == \A a, b \in Actors : a # b => tx[a].locked \cap tx[b].locked = {}

SyncInv ==
  /\ SyncTypeOK /\ Disjoint /\ WithinMaxSize /\ InStep /\ ClosedIsEmpty
  /\ \A a \in Actors : OwnsRows(a) /\ Joins(a) /\ (~TopUps => Kicks(a) /\ Goes(a) /\ Closes(a))
-----------------------------------------------------------------------------
LEMMA ActorsDiffer ==
  /\ \A p, q : Row(p) = Row(q) => p = q
  /\ \A r, s : Visit(r) = Visit(s) => r = s
  /\ \A p, r : Row(p) # Visit(r) /\ Row(p) # Poller /\ Row(p) # Clock /\ Visit(r) # Poller
               /\ Visit(r) # Clock
  /\ \A p : Row(p) # Nobody /\ Visit(p) # Nobody
  /\ Poller # Nobody /\ Clock # Nobody /\ Poller # Clock
BY DEF Row, Visit, Poller, Clock, Nobody

LEMMA IdleIs ==
  /\ NoGroup \in GroupRows /\ Idle \in Tx /\ Idle.from = Idle.to /\ Idle.pc = "idle"
  /\ Idle.locked = {} /\ Idle.joins = {} /\ Idle.leaves = {} /\ Idle.fails = {}
  /\ Idle.arrives = {} /\ Idle.releases = {}
<1>1. NoGroup \in GroupRows
  BY DEF NoGroup, GroupRows
<1>. QED
  BY <1>1 DEF Idle, Tx

LEMMA InitSync == Init => SyncInv
<1>. SUFFICES ASSUME Init PROVE SyncInv
  OBVIOUS
<1>1. \A a \in Actors : tx[a] = Idle
  BY DEF Init
<1>2. /\ Founders \subseteq Participants /\ Leader \in Founders
      /\ Cardinality(Founders) \in Nat /\ Cardinality(Founders) <= MaxSize
      /\ MaxSize \in Nat /\ MinSize \in Nat
  BY GroupAssumption DEF Init, Founders, Leader, MinSize, MaxSize
<1>3. SyncTypeOK
  <2>1. group \in GroupRows
    BY <1>2, GroupAssumption DEF Init, GroupRows
  <2>2. tx \in [Actors -> Tx]
    BY IdleIs DEF Init
  <2>. QED
    BY <1>2, <2>1, <2>2 DEF Init, SyncTypeOK
<1>4. Disjoint
  BY <1>1, IdleIs DEF Disjoint
<1>5. Active = Founders
  BY DEF Init, Active
<1>6. WithinMaxSize /\ InStep /\ ClosedIsEmpty
  BY <1>2, <1>5 DEF WithinMaxSize, InStep, ClosedIsEmpty, Init, Founders
<1>7. ASSUME NEW a \in Actors
      PROVE  OwnsRows(a) /\ Joins(a) /\ Kicks(a) /\ Goes(a) /\ Closes(a)
  BY <1>1, IdleIs DEF OwnsRows, Joins, Kicks, Goes, Closes
<1>. QED
  BY <1>3, <1>4, <1>6, <1>7 DEF SyncInv

\* A step of one transaction that commits nothing leaves the others as they are.
LEMMA OneMoves ==
  ASSUME SyncInv, UNCHANGED committed, NEW a \in Actors, NEW t \in Tx,
         tx' = [tx EXCEPT ![a] = t],
         \A b \in Actors \ {a} : groupRow = b => groupRow' = b,
         t.locked \cap LockedByOthers(a) = {},
         OwnsRows(a)', Joins(a)', ~TopUps => Kicks(a)' /\ Goes(a)' /\ Closes(a)'
  PROVE  SyncInv'
<1>1. tx'[a] = t /\ (\A b \in Actors \ {a} : tx'[b] = tx[b]) /\ tx' \in [Actors -> Tx]
  BY DEF SyncInv, SyncTypeOK
<1>2. UNCHANGED <<grouper, members, failed, arrived, round, group>>
  BY DEF committed
<1>3. SyncTypeOK'
  BY <1>1, <1>2 DEF SyncInv, SyncTypeOK
<1>4. Disjoint'
  <2>1. \A b \in Actors \ {a} : t.locked \cap tx[b].locked = {}
    BY DEF LockedByOthers
  <2>. QED
    BY <1>1, <2>1 DEF SyncInv, Disjoint
<1>5. Active' = Active /\ MaxSize' = MaxSize /\ MinSize' = MinSize /\ TopUps' = TopUps
  BY <1>2 DEF Active, MaxSize, MinSize, TopUps
<1>6. WithinMaxSize' /\ InStep' /\ ClosedIsEmpty'
  BY <1>2, <1>5 DEF SyncInv, WithinMaxSize, InStep, ClosedIsEmpty
<1>7. ASSUME NEW b \in Actors, b # a
      PROVE  OwnsRows(b)' /\ Joins(b)' /\ (~TopUps => Kicks(b)' /\ Goes(b)' /\ Closes(b)')
  <2>1. tx'[b] = tx[b]
    BY <1>1, <1>7
  <2>2. OwnsRows(b)'
    BY <1>2, <1>7, <2>1 DEF SyncInv, OwnsRows, Waiters
  <2>3. Joins(b)'
    BY <1>5, <1>7, <2>1 DEF SyncInv, Joins
  <2>4. After(b)' = After(b)
    BY <1>2, <2>1 DEF After
  <2>5. ~TopUps => Kicks(b)' /\ Goes(b)' /\ Closes(b)'
    BY <1>2, <1>5, <1>7, <2>1, <2>4 DEF SyncInv, Kicks, Goes, Closes
  <2>. QED
    BY <2>2, <2>3, <2>5
<1>. QED
  BY <1>3, <1>4, <1>5, <1>6, <1>7 DEF SyncInv

\* What Plan makes of a transaction.
Planned(a, v, arrives, releases) ==
  [pc |-> "planned", locked |-> tx[a].locked \cup v.locked, from |-> group, to |-> v.group,
   joins |-> v.in \ members, leaves |-> members \ v.in, fails |-> v.failed \ failed,
   arrives |-> arrives, releases |-> releases]

\* A plan that transaction a may make: a sound view that lets nobody or
\* everybody of those who stay in the group go on.
Fits(a, v, mine, gone, arrives, releases) ==
  /\ Sound(v, mine, gone, LockedByOthers(a)) /\ mine \subseteq tx[a].locked
  /\ arrives \in SUBSET Participants /\ arrives \subseteq tx[a].locked \cup v.locked
  /\ releases \in SUBSET Participants /\ releases \subseteq tx[a].locked
  /\ \A r \in 1..Rounds : a = Visit(r) => releases \subseteq Waiters(r)
  /\ ~TopUps =>
       /\ \/ gone \subseteq tx[a].locked
          \/ \E r \in 1..Rounds, w \in tx[a].locked \cap Active :
               a = Visit(r) /\ round[w] + 1 = r
       /\ \/ releases \cap Present(v) = {}
          \/ /\ \E r \in 1..Rounds : a = Visit(r)
             /\ Present(v) \subseteq releases /\ Cardinality(Present(v)) >= MinSize
             /\ v.group.leader \in Present(v)

LEMMA PlanStep ==
  ASSUME SyncInv, UNCHANGED committed, NEW a \in Actors, NEW v, NEW mine, NEW gone,
         NEW arrives, NEW releases, Fits(a, v, mine, gone, arrives, releases),
         tx' = [tx EXCEPT ![a] = Planned(a, v, arrives, releases)],
         groupRow' = groupRow \/ (groupRow = Nobody /\ groupRow' = a)
  PROVE  SyncInv'
<1>1. v \in Views
  BY DEF Fits, Sound
<1> DEFINE t == Planned(a, v, arrives, releases)
<1>2. /\ t \in Tx /\ tx' = [tx EXCEPT ![a] = t] /\ tx'[a] = t /\ t.pc = "planned"
      /\ t.locked = tx[a].locked \cup v.locked /\ t.from = group /\ t.to = v.group
      /\ t.joins = v.in \ members /\ t.leaves = members \ v.in /\ t.fails = v.failed \ failed
      /\ t.arrives = arrives /\ t.releases = releases
  <2>1. SyncTypeOK
    BY DEF SyncInv
  <2>2. tx'[a] = t
    BY <2>1 DEF SyncTypeOK
  <2>3. tx[a].locked \in SUBSET Participants
    BY <2>1 DEF SyncTypeOK, Tx
  <2>4. t \in Tx
    BY <1>1, <2>1, <2>3 DEF SyncTypeOK, Tx, Views, Planned, Fits
  <2>5. tx' = [tx EXCEPT ![a] = t]
    OBVIOUS
  <2>6. /\ t.pc = "planned"
        /\ t.locked = tx[a].locked \cup v.locked /\ t.from = group /\ t.to = v.group
        /\ t.joins = v.in \ members /\ t.leaves = members \ v.in
        /\ t.fails = v.failed \ failed /\ t.arrives = arrives /\ t.releases = releases
    BY DEF Planned
  <2> HIDE DEF t
  <2>. QED
    BY <2>2, <2>4, <2>5, <2>6
<1> HIDE DEF t
<1>3. UNCHANGED <<grouper, members, failed, arrived, round, group>>
  BY DEF committed
<1>4. t.joins = {}
  BY <1>2 DEF Sound, Fits
<1>5. t.locked \cap LockedByOthers(a) = {}
  <2>1. tx[a].locked \cap LockedByOthers(a) = {}
    BY DEF SyncInv, Disjoint, LockedByOthers
  <2>. QED
    BY <1>2, <2>1 DEF Sound, Fits
<1>6. OwnsRows(a)'
  <2>1. t.fails \subseteq t.locked
    BY <1>2 DEF Sound, Fits
  <2>. QED
    BY <1>2, <1>3, <2>1 DEF OwnsRows, Waiters, Fits
<1>7. Joins(a)'
  BY <1>2, <1>4 DEF Joins
<1>8. After(a)' = Present(v)
  BY <1>2, <1>3 DEF Sound, After, Present, Fits
<1>9. ASSUME ~TopUps PROVE Kicks(a)' /\ Goes(a)' /\ Closes(a)'
  <2>1. Kicks(a)'
    <3>1. t.leaves \subseteq gone \cup v.locked
      BY <1>2 DEF Sound, Fits
    <3>2. CASE gone \subseteq tx[a].locked
      BY <1>2, <3>1, <3>2 DEF Kicks, Fits
    <3>3. CASE \E r \in 1..Rounds, w \in tx[a].locked \cap Active :
                 a = Visit(r) /\ round[w] + 1 = r
      BY <1>2, <1>3, <3>3 DEF Kicks, Active
    <3>. QED
      BY <1>9, <3>2, <3>3 DEF Fits
  <2>2. Goes(a)'
    <3>1. MinSize' = MinSize
      BY <1>3 DEF MinSize
    <3>. QED
      BY <1>2, <1>8, <1>9, <3>1 DEF Goes, Fits
  <2>3. Closes(a)'
    <3>1. v.group.active \in BOOLEAN /\ group.active \in BOOLEAN
      BY <1>1 DEF Views, GroupRows, SyncInv, SyncTypeOK
    <3>2. (v.group.active => group.active) /\ (~v.group.active => Present(v) = {})
      BY <1>9 DEF Sound, Fits
    <3>. QED
      BY <1>2, <1>8, <3>1, <3>2 DEF Closes
  <2>. QED
    BY <2>1, <2>2, <2>3
<1>10. \A b \in Actors \ {a} : groupRow = b => groupRow' = b
  BY ActorsDiffer DEF Actors
<1>. QED
  BY <1>2, <1>5, <1>6, <1>7, <1>9, <1>10, OneMoves

\* What has been committed is a sound view.
LEMMA ViewIs ==
  ASSUME SyncInv, NEW busy, NEW l \in SUBSET Participants, l \cap busy = {}
  PROVE  Sound([View EXCEPT !.locked = l], {}, {}, busy)
<1> DEFINE v == [View EXCEPT !.locked = l]
<1>1. v.in = members /\ v.failed = failed /\ v.locked = l /\ v.group = group
  BY DEF View
<1>2. v \in Views
  BY DEF View, Views, SyncInv, SyncTypeOK
<1> HIDE DEF v
<1>3. Present(v) = Active
  BY <1>1 DEF Present, Active
<1>4. Sound(v, {}, {}, busy)
  BY <1>1, <1>2, <1>3 DEF Sound, SyncInv, ClosedIsEmpty
<1>. QED
  BY <1>4 DEF v

LEMMA SoundWider ==
  ASSUME NEW v, NEW busy, NEW mine, NEW gone, Sound(v, {}, {}, busy)
  PROVE  Sound(v, mine, gone, busy)
BY DEF Sound

LEMMA ViewSound ==
  ASSUME SyncInv, NEW busy, NEW mine, NEW gone
  PROVE  Sound(View, mine, gone, busy)
<1>1. View = [View EXCEPT !.locked = {}]
  BY DEF View
<1>2. Sound(View, {}, {}, busy)
  BY <1>1, ViewIs
<1>. QED
  BY <1>2, SoundWider
-----------------------------------------------------------------------------
(* Requests.                                                               *)

LEMMA RowStep ==
  ASSUME SyncInv, NEW p \in Participants, Begin(p) \/ End(p)
  PROVE  SyncInv'
<1>1. UNCHANGED committed /\ groupRow' = groupRow /\ Row(p) \in Actors
  BY DEF Begin, End, Actors
<1> DEFINE begun == [Idle EXCEPT !.pc = "open", !.locked = {p}]
<1>2. /\ begun \in Tx /\ begun.locked = {p} /\ begun.fails = {} /\ begun.releases = {}
      /\ begun.arrives = {} /\ begun.leaves = {} /\ begun.joins = {} /\ begun.to = begun.from
      /\ begun.pc = "open"
  BY IdleIs DEF Tx
<1> HIDE DEF begun
<1>3. PICK t \in {Idle, begun} :
        tx' = [tx EXCEPT ![Row(p)] = t] /\ (t = begun => p \notin LockedByOthers(Row(p)))
  <2>1. CASE Begin(p)
    <3>1. tx' = [tx EXCEPT ![Row(p)] = begun] /\ p \notin LockedByOthers(Row(p))
      BY <2>1 DEF Begin, Free, begun
    <3>. QED
      BY <3>1
  <2>2. CASE End(p)
    <3>1. tx' = [tx EXCEPT ![Row(p)] = Idle] /\ Idle # begun
      BY <1>2, <2>2, IdleIs DEF End
    <3>. QED
      BY <3>1
  <2>. QED
    BY <2>1, <2>2
<1>4. /\ t \in Tx /\ t.locked \subseteq {p} /\ t.fails = {} /\ t.releases = {} /\ t.joins = {}
      /\ t.arrives = {} /\ t.leaves = {} /\ t.to = t.from /\ t.pc \in {"idle", "open"}
      /\ t.pc = "open" => p \in t.locked
      /\ t.locked \cap LockedByOthers(Row(p)) = {}
  BY <1>2, <1>3, IdleIs
<1>5. tx'[Row(p)] = t
  BY <1>1, <1>3 DEF SyncInv, SyncTypeOK
<1>6. OwnsRows(Row(p))'
  BY <1>4, <1>5, ActorsDiffer DEF OwnsRows
<1>7. Joins(Row(p))' /\ Kicks(Row(p))' /\ Goes(Row(p))' /\ Closes(Row(p))'
  BY <1>4, <1>5 DEF Joins, Kicks, Goes, Closes
<1>. QED
  BY <1>1, <1>3, <1>4, <1>6, <1>7, OneMoves

LEMMA ArriveStep ==
  ASSUME SyncInv, NEW p \in Participants, Arrive(p)
  PROVE  SyncInv'
<1> DEFINE v == [View EXCEPT !.locked = {p}]
<1>1. UNCHANGED committed /\ groupRow' = groupRow /\ Row(p) \in Actors
  BY DEF Arrive, Actors
<1>2. /\ tx' = [tx EXCEPT ![Row(p)] = Planned(Row(p), v, {p}, {})]
      /\ p \notin LockedByOthers(Row(p))
  BY DEF Arrive, Free, Plan, Planned
<1>3. Sound(v, {}, {}, LockedByOthers(Row(p)))
  BY <1>2, ViewIs
<1>4. v.locked = {p}
  BY DEF View
<1> HIDE DEF v
<1>5. \A r \in 1..Rounds : Row(p) # Visit(r)
  BY ActorsDiffer
<1>6. Fits(Row(p), v, {}, {}, {p}, {})
  BY <1>3, <1>4, <1>5 DEF Fits
<1>. QED
  BY <1>1, <1>2, <1>6, PlanStep

\* A member leaves, is kicked or failed in a transaction that holds their row.
LEMMA LeaveStep ==
  ASSUME SyncInv, NEW p \in Participants, Leave(p) \/ MaxWait(p) \/ Dashboard(p)
  PROVE  SyncInv'
<1> DEFINE busy == LockedByOthers(Row(p))
<1>0. Leave(p) \/ MaxWait(p) \/ Dashboard(p)
  OBVIOUS
<1>1. UNCHANGED committed /\ Row(p) \in Actors /\ tx[Row(p)].pc = "open"
  BY DEF Leave, MaxWait, Dashboard, Actors
<1>2. groupRow' = groupRow \/ (groupRow = Nobody /\ groupRow' = Row(p))
  BY DEF Leave, MaxWait, Dashboard
<1>3. p \in tx[Row(p)].locked
  BY <1>1 DEF SyncInv, OwnsRows
<1>4. PICK v \in {FailOne(View, p, busy), KickOne(View, p, busy)}, releases \in SUBSET {p} :
        tx' = [tx EXCEPT ![Row(p)] = Planned(Row(p), v, {}, releases)]
  <2>1. {} \in SUBSET {p} /\ {p} \in SUBSET {p}
    OBVIOUS
  <2> DEFINE Leaves(v, releases) == tx' = [tx EXCEPT ![Row(p)] = Planned(Row(p), v, {}, releases)]
  <2>2. CASE Leave(p)
    <3>1. Leaves(FailOne(View, p, busy), {})
      BY <2>2 DEF Leave, Plan, Planned
    <3>. QED
      BY <2>1, <3>1
  <2>3. CASE MaxWait(p)
    <3>1. CASE MaxWaitAction = "kick"
      <4>1. Leaves(KickOne(View, p, busy), {p})
        BY <2>3, <3>1 DEF MaxWait, Plan, Planned
      <4>. QED
        BY <2>1, <4>1
    <3>2. CASE MaxWaitAction # "kick"
      <4>1. Leaves(FailOne(View, p, busy), {p})
        BY <2>3, <3>2 DEF MaxWait, Plan, Planned
      <4>. QED
        BY <2>1, <4>1
    <3>. QED
      BY <3>1, <3>2
  <2>4. CASE Dashboard(p)
    <3>1. Leaves(FailOne(View, p, busy), {}) \/ Leaves(KickOne(View, p, busy), {})
      BY <2>4 DEF Dashboard, Plan, Planned
    <3>. QED
      BY <2>1, <3>1
  <2>. QED
    BY <1>0, <2>2, <2>3, <2>4
<1>5. Sound(View, {p}, {p}, busy)
  BY ViewSound
<1>6. Sound(v, {p}, {p}, busy) /\ (~TopUps => p \notin Present(v))
  BY <1>4, <1>5, SoundFail, SoundKick DEF Present
<1>7. \A r \in 1..Rounds : Row(p) # Visit(r)
  BY ActorsDiffer
<1>8. Fits(Row(p), v, {p}, {p}, {}, releases)
  BY <1>3, <1>6, <1>7 DEF Fits, busy
<1>. QED
  BY <1>1, <1>2, <1>4, <1>8, PlanStep

\* Who joins locks the group's row, counts again, and joins if there is room.
LEMMA JoinIs ==
  ASSUME SyncInv, NEW p \in Participants, Join(p)
  PROVE  \E v \in Views :
           /\ tx' = [tx EXCEPT ![Row(p)] = Planned(Row(p), v, {}, {})]
           /\ v.failed = failed /\ v.locked \cap LockedByOthers(Row(p)) = {}
           /\ \/ v.in = members
              \/ v.in = members \cup {p} /\ Cardinality(Active) < MaxSize
<1> DEFINE busy == LockedByOthers(Row(p))
           v0 == [View EXCEPT !.locked = {p}]
           u == CheckNumbers(v0)
           x == [u EXCEPT !.in = @ \cup {p}]
           y == CheckNumbers(x)
           z == CheckLeader(y, busy)
           v == IF u.group.n = 0 \/ u.group.n >= MaxSize THEN u ELSE z
<1>1. tx' = [tx EXCEPT ![Row(p)] = Planned(Row(p), v, {}, {})] /\ p \notin busy
  BY DEF Join, Free, Plan, Planned
<1>2. /\ v0.in = members /\ v0.failed = failed /\ v0.locked = {p} /\ v0.group = group
      /\ v0 \in Views
  BY DEF View, Views, SyncInv, SyncTypeOK
<1>3. Present(v0) = Active
  BY <1>2 DEF Present, Active
<1> HIDE DEF v0, busy
<1>4. PICK g \in GroupRows : u = [v0 EXCEPT !.group = g] /\ u \in Views /\ g.n = Cardinality(Active)
  BY <1>2, <1>3, CheckNumbersIs
<1>5. u.in = members /\ u.failed = failed /\ u.locked = {p} /\ u.group.n = Cardinality(Active)
  BY <1>2, <1>4 DEF Views
<1>6. u \in Views
  BY <1>4
<1> HIDE DEF u
<1>7. /\ x \in Views /\ x.in = members \cup {p} /\ x.failed = failed /\ x.locked = {p}
  BY <1>5, <1>6 DEF Views
<1> HIDE DEF x
<1>8. PICK g2 \in GroupRows : y = [x EXCEPT !.group = g2] /\ y \in Views
  BY <1>7, CheckNumbersIs
<1>9. y \in Views /\ y.in = members \cup {p} /\ y.failed = failed /\ y.locked = {p}
  BY <1>7, <1>8 DEF Views
<1> HIDE DEF y
<1>10. PICK g3 \in GroupRows, l \in SUBSET (Present(y) \ busy) :
         /\ z = [y EXCEPT !.group = g3, !.locked = y.locked \cup l] /\ z \in Views
         /\ g3.active = y.group.active
         /\ Present(y) \ busy # {} => g3.leader \in Present(y)
  <2>1. y \in Views
    BY <1>9
  <2> HIDE DEF z
  <2>2. z = CheckLeader(y, busy)
    BY DEF z
  <2>. QED
    BY <2>1, <2>2, CheckLeaderIs
<1>11. /\ z \in Views /\ z.in = members \cup {p} /\ z.failed = failed
       /\ z.locked \cap busy = {}
  BY <1>1, <1>9, <1>10 DEF Views
<1> HIDE DEF z
<1>12. Cardinality(Active) \in Nat /\ MaxSize \in Nat
  BY <1>2, <1>3, PresentIs, GroupAssumption DEF MaxSize, SyncInv, SyncTypeOK
<1>13. /\ v \in Views /\ v.failed = failed /\ v.locked \cap busy = {}
       /\ v.in = members \/ (v.in = members \cup {p} /\ Cardinality(Active) < MaxSize)
  BY <1>1, <1>5, <1>6, <1>11, <1>12
<1> HIDE DEF v
<1>. QED
  BY <1>1, <1>13 DEF busy

LEMMA JoinStep ==
  ASSUME SyncInv, NEW p \in Participants, Join(p)
  PROVE  SyncInv'
<1>1. /\ UNCHANGED committed /\ Row(p) \in Actors /\ TopUps
      /\ groupRow = Nobody /\ groupRow' = Row(p) /\ p \notin members
  BY DEF Join, Actors
<1>2. PICK v \in Views :
        /\ tx' = [tx EXCEPT ![Row(p)] = Planned(Row(p), v, {}, {})]
        /\ v.failed = failed /\ v.locked \cap LockedByOthers(Row(p)) = {}
        /\ \/ v.in = members
           \/ v.in = members \cup {p} /\ Cardinality(Active) < MaxSize
  BY JoinIs
<1> DEFINE t == Planned(Row(p), v, {}, {})
<1>3. UNCHANGED <<grouper, members, failed, arrived, round, group>>
  BY <1>1 DEF committed
<1>4. /\ t \in Tx /\ t.fails = {} /\ t.arrives = {} /\ t.releases = {} /\ t.pc = "planned"
      /\ t.locked = tx[Row(p)].locked \cup v.locked /\ t.joins = v.in \ members
  <2>1. tx[Row(p)].locked \in SUBSET Participants
    BY <1>1 DEF SyncInv, SyncTypeOK, Tx
  <2>2. t \in Tx
    BY <1>2, <2>1 DEF SyncInv, SyncTypeOK, Tx, Views, Planned
  <2>. QED
    BY <1>2, <2>2 DEF Planned
<1>5. tx' = [tx EXCEPT ![Row(p)] = t]
  BY <1>2
<1> HIDE DEF t
<1>6. tx'[Row(p)] = t
  BY <1>1, <1>5 DEF SyncInv, SyncTypeOK
<1>7. t.locked \cap LockedByOthers(Row(p)) = {}
  <2>1. tx[Row(p)].locked \cap LockedByOthers(Row(p)) = {}
    BY <1>1 DEF SyncInv, Disjoint, LockedByOthers
  <2>. QED
    BY <1>2, <1>4, <2>1
<1>8. OwnsRows(Row(p))'
  BY <1>4, <1>6, ActorsDiffer DEF OwnsRows
<1>9. Joins(Row(p))'
  <2>1. IsFiniteSet(Active) /\ Cardinality(Active) \in Nat /\ MaxSize \in Nat
    <3>1. Active \in SUBSET Participants
      BY DEF Active, SyncInv, SyncTypeOK
    <3>. QED
      BY <3>1, FS_Subset, FS_CardinalityType, GroupAssumption DEF MaxSize, SyncInv, SyncTypeOK
  <2>2. CASE t.joins = {}
    BY <1>6, <2>2 DEF Joins
  <2>3. CASE t.joins # {}
    <3>1. t.joins = {p} /\ Cardinality(Active) < MaxSize
      BY <1>1, <1>2, <1>4, <2>3
    <3>2. Cardinality(Active \cup {p}) <= Cardinality(Active) + 1
      BY <2>1, FS_AddElement
    <3>3. Cardinality(Active \cup {p}) \in Nat
      BY <2>1, FS_AddElement, FS_CardinalityType
    <3>4. Active' = Active /\ MaxSize' = MaxSize /\ TopUps' = TopUps
      BY <1>3 DEF Active, MaxSize, TopUps
    <3>5. Cardinality(Active \cup {p}) <= MaxSize
      BY <2>1, <3>1, <3>2, <3>3
    <3>. QED
      BY <1>1, <1>6, <3>1, <3>4, <3>5 DEF Joins
  <2>. QED
    BY <2>2, <2>3
<1>10. \A b \in Actors \ {Row(p)} : groupRow = b => groupRow' = b
  BY <1>1, ActorsDiffer DEF Actors
<1>. QED
  BY <1>1, <1>4, <1>5, <1>7, <1>8, <1>9, <1>10, OneMoves
-----------------------------------------------------------------------------
(* Checks and maintenance.                                                 *)

LEMMA LockWaitersStep ==
  ASSUME SyncInv, NEW r \in 1..Rounds, LockWaiters(r)
  PROVE  SyncInv'
<1> DEFINE t == [Idle EXCEPT !.pc = "locked", !.locked = Waiters(r)]
<1>1. /\ UNCHANGED committed /\ groupRow' = groupRow /\ Visit(r) \in Actors
      /\ tx' = [tx EXCEPT ![Visit(r)] = t]
      /\ Waiters(r) \cap LockedByOthers(Visit(r)) = {}
  BY DEF LockWaiters, Actors
<1>2. Waiters(r) \in SUBSET Participants
  BY DEF Waiters, SyncInv, SyncTypeOK
<1>3. /\ t \in Tx /\ t.locked = Waiters(r) /\ t.fails = {} /\ t.releases = {} /\ t.joins = {}
      /\ t.arrives = {} /\ t.leaves = {} /\ t.to = t.from /\ t.pc = "locked"
  BY <1>2, IdleIs DEF Tx
<1> HIDE DEF t
<1>4. tx'[Visit(r)] = t
  BY <1>1 DEF SyncInv, SyncTypeOK
<1>5. Waiters(r)' = Waiters(r)
  BY <1>1 DEF Waiters, committed
<1>6. OwnsRows(Visit(r))'
  BY <1>3, <1>4, <1>5, ActorsDiffer DEF OwnsRows
<1>7. Joins(Visit(r))' /\ Kicks(Visit(r))' /\ Goes(Visit(r))' /\ Closes(Visit(r))'
  BY <1>3, <1>4 DEF Joins, Kicks, Goes, Closes
<1>. QED
  BY <1>1, <1>3, <1>6, <1>7, OneMoves

\* What a check decides: whether it times somebody out, and what becomes of
\* the group, it lets nobody or everybody of those who stay go on.
LEMMA DecideFits ==
  ASSUME SyncInv, NEW r \in 1..Rounds, tx[Visit(r)].pc = "locked",
         NEW waiting, waiting = tx[Visit(r)].locked,
         NEW busy, busy = LockedByOthers(Visit(r)),
         NEW x \in {View, CheckNumbers(View)}, NEW late \in SUBSET Participants,
         late # {} => waiting \cap members # {} /\ LateAction # "none",
         NEW v, v = Settle(TimeOutLate(x, late, busy), waiting, busy)
  PROVE  Fits(Visit(r), v, {}, late, {}, Released(v, waiting))
<1>1. Visit(r) \in Actors
  BY DEF Actors
<1>2. waiting \subseteq Waiters(r) /\ waiting \in SUBSET Participants
  BY <1>1 DEF SyncInv, OwnsRows, SyncTypeOK, Tx
<1>3. waiting \cap busy = {}
  BY <1>1 DEF SyncInv, Disjoint, LockedByOthers
<1>4. Sound(x, {}, late, busy)
  BY ViewSound, SoundNumbers
<1>5. Sound(TimeOutLate(x, late, busy), {}, late, busy)
  BY <1>4, SoundTimeOut
<1>6. grouper \in Groupers
  BY DEF SyncInv, SyncTypeOK
<1> DEFINE y == TimeOutLate(x, late, busy)
<1>7. Sound(y, {}, late, busy) /\ v = Settle(y, waiting, busy)
  BY <1>5
<1> HIDE DEF y
<1>8. /\ Sound(v, {}, late, busy)
      /\ Released(v, waiting) \subseteq waiting
      /\ ~TopUps =>
           \/ Released(v, waiting) \cap Present(v) = {}
           \/ /\ Present(v) \subseteq Released(v, waiting)
              /\ Cardinality(Present(v)) >= MinSize
              /\ v.group.leader \in Present(v)
  BY <1>3, <1>6, <1>7, SoundSettle
<1>9. \A s \in 1..Rounds : Visit(r) = Visit(s) => r = s
  BY ActorsDiffer
<1>10. \/ late \subseteq tx[Visit(r)].locked
       \/ \E w \in tx[Visit(r)].locked \cap Active : round[w] + 1 = r
  BY <1>2 DEF Waiters, Active
<1>. QED
  BY <1>2, <1>8, <1>9, <1>10 DEF Fits

LEMMA DecideVisitStep ==
  ASSUME SyncInv, NEW r \in 1..Rounds, DecideVisit(r)
  PROVE  SyncInv'
<1> DEFINE waiting == tx[Visit(r)].locked
           busy == LockedByOthers(Visit(r))
           known == waiting \cap members # {} /\ group.active
           x == IF known THEN CheckNumbers(View) ELSE View
           mayBeLate == known /\ LateAction # "none" /\ group.passed
<1>1. UNCHANGED committed /\ groupRow' = groupRow /\ Visit(r) \in Actors /\ tx[Visit(r)].pc = "locked"
  BY DEF DecideVisit, Actors
<1>2. PICK late \in {{}} \cup (IF mayBeLate THEN {Present(View) \ waiting} ELSE {}) :
        LET v == Settle(TimeOutLate(x, late, busy), waiting, busy)
        IN tx' = [tx EXCEPT ![Visit(r)] = Planned(Visit(r), v, {}, Released(v, waiting))]
  BY DEF DecideVisit, Plan, Planned
<1> DEFINE v == Settle(TimeOutLate(x, late, busy), waiting, busy)
<1>3. Present(View) \in SUBSET Participants
  BY DEF View, Present, SyncInv, SyncTypeOK
<1>4. late \in SUBSET Participants /\ (late # {} => waiting \cap members # {} /\ LateAction # "none")
  BY <1>2, <1>3
<1>5. x \in {View, CheckNumbers(View)}
  OBVIOUS
<1>6. tx' = [tx EXCEPT ![Visit(r)] = Planned(Visit(r), v, {}, Released(v, waiting))]
  BY <1>2
<1> HIDE DEF x
<1>7. Fits(Visit(r), v, {}, late, {}, Released(v, waiting))
  BY <1>1, <1>4, <1>5, DecideFits
<1> HIDE DEF v
<1>. QED
  BY <1>1, <1>6, <1>7, PlanStep

LEMMA MaintenanceStep ==
  ASSUME SyncInv, FinishDissolving \/ Recount
  PROVE  SyncInv'
<1>1. ASSUME NEW a \in {Poller, Clock}, NEW v, Sound(v, {}, {}, LockedByOthers(a))
      PROVE  Fits(a, v, {}, {}, {}, {}) /\ a \in Actors
  BY <1>1, ActorsDiffer DEF Fits, Actors
<1>2. CASE FinishDissolving
  <2> DEFINE v == Dissolve(View, LockedByOthers(Poller))
  <2>1. /\ UNCHANGED committed /\ groupRow = Nobody /\ groupRow' = Poller
        /\ tx' = [tx EXCEPT ![Poller] = Planned(Poller, v, {}, {})]
    BY <1>2 DEF FinishDissolving, Plan, Planned
  <2>2. Sound(v, {}, {}, LockedByOthers(Poller))
    BY ViewSound, SoundDissolve
  <2> HIDE DEF v
  <2>3. Fits(Poller, v, {}, {}, {}, {}) /\ Poller \in Actors
    BY <1>1, <2>2
  <2>. QED
    BY <2>1, <2>3, PlanStep
<1>3. CASE Recount
  <2> DEFINE v == CheckNumbers(View)
  <2>1. /\ UNCHANGED committed /\ groupRow = Nobody /\ groupRow' = Clock
        /\ tx' = [tx EXCEPT ![Clock] = Planned(Clock, v, {}, {})]
    BY <1>3 DEF Recount, Plan, Planned
  <2>2. Sound(v, {}, {}, LockedByOthers(Clock))
    BY ViewSound, SoundNumbers
  <2> HIDE DEF v
  <2>3. Fits(Clock, v, {}, {}, {}, {}) /\ Clock \in Actors
    BY <1>1, <2>2
  <2>. QED
    BY <2>1, <2>3, PlanStep
<1>. QED
  BY <1>2, <1>3
-----------------------------------------------------------------------------
(* The end of a transaction.                                               *)

LEMMA RollbackStep ==
  ASSUME SyncInv, NEW a \in Actors, Rollback(a)
  PROVE  SyncInv'
<1>1. /\ UNCHANGED committed /\ tx' = [tx EXCEPT ![a] = Idle]
      /\ groupRow' = IF groupRow = a THEN Nobody ELSE groupRow
  BY DEF Rollback, Release
<1>2. tx'[a] = Idle
  BY <1>1 DEF SyncInv, SyncTypeOK
<1>3. OwnsRows(a)' /\ Joins(a)' /\ Kicks(a)' /\ Goes(a)' /\ Closes(a)'
  BY <1>2, IdleIs DEF OwnsRows, Joins, Kicks, Goes, Closes
<1>4. Idle \in Tx /\ Idle.locked \cap LockedByOthers(a) = {}
  BY IdleIs
<1>5. \A b \in Actors \ {a} : groupRow = b => groupRow' = b
  BY <1>1
<1>. QED
  BY <1>1, <1>3, <1>4, <1>5, OneMoves

\* What a commit does to the rows.
LEMMA CommitIs ==
  ASSUME SyncInv, NEW a \in Actors, Commit(a), NEW t, t = tx[a]
  PROVE  /\ t \in Tx /\ t.pc = "planned" /\ grouper' = grouper
         /\ members' = (members \ t.leaves) \cup t.joins
         /\ failed' = failed \cup t.fails
         /\ arrived' = (arrived \cup t.arrives) \ (t.releases \cup t.fails)
         /\ round' = [p \in Participants |-> IF p \in t.releases \ failed' THEN round[p] + 1
                                                                           ELSE round[p]]
         /\ group' \in GroupRows
         /\ group'.active = (IF t.to.active = t.from.active THEN group.active ELSE t.to.active)
         /\ group'.leader = (IF t.to.leader = t.from.leader THEN group.leader ELSE t.to.leader)
         /\ tx'[a] = Idle /\ (\A b \in Actors \ {a} : tx'[b] = tx[b]) /\ tx' \in [Actors -> Tx]
         /\ \A b \in Actors \ {a} : groupRow = b => groupRow' = b
<1>1. t \in Tx /\ t.pc = "planned"
  BY DEF SyncInv, SyncTypeOK, Commit
<1>2. t.from \in GroupRows /\ t.to \in GroupRows /\ group \in GroupRows
  BY <1>1 DEF Tx, SyncInv, SyncTypeOK
<1>3. group' = [f \in DOMAIN group |-> IF t.to[f] = t.from[f] THEN group[f] ELSE t.to[f]]
  BY DEF Commit
<1>4. group' \in GroupRows
  BY <1>2, <1>3 DEF GroupRows
<1>5. /\ group'.active = (IF t.to.active = t.from.active THEN group.active ELSE t.to.active)
      /\ group'.leader = (IF t.to.leader = t.from.leader THEN group.leader ELSE t.to.leader)
  BY <1>2, <1>3 DEF GroupRows
<1>6. tx' = [tx EXCEPT ![a] = Idle] /\ groupRow' = IF groupRow = a THEN Nobody ELSE groupRow
  BY DEF Commit, Release
<1>7. /\ tx'[a] = Idle /\ (\A b \in Actors \ {a} : tx'[b] = tx[b]) /\ tx' \in [Actors -> Tx]
      /\ \A b \in Actors \ {a} : groupRow = b => groupRow' = b
  BY <1>6, IdleIs DEF SyncInv, SyncTypeOK
<1>8. /\ grouper' = grouper /\ members' = (members \ t.leaves) \cup t.joins
      /\ failed' = failed \cup t.fails
      /\ arrived' = (arrived \cup t.arrives) \ (t.releases \cup t.fails)
      /\ round' = [p \in Participants |-> IF p \in t.releases \ failed' THEN round[p] + 1
                                                                        ELSE round[p]]
  BY DEF Commit
<1>. QED
  BY <1>1, <1>4, <1>5, <1>7, <1>8

\* The rows that another transaction has locked change only in their link to
\* the group, and that only where a check kicks those it waits for.
LEMMA Untouched ==
  ASSUME SyncInv, NEW a \in Actors, Commit(a), NEW p \in Participants, p \notin tx[a].locked
  PROVE  /\ p \in failed' <=> p \in failed
         /\ p \in arrived' <=> p \in arrived
         /\ round'[p] = round[p]
<1> DEFINE t == tx[a]
<1>1. p \notin t.fails /\ p \notin t.releases /\ p \notin t.arrives
  BY DEF SyncInv, OwnsRows
<1>2. t = tx[a]
  OBVIOUS
<1> HIDE DEF t
<1>. QED
  BY <1>1, <1>2, CommitIs

LEMMA WaitersStay ==
  ASSUME SyncInv, NEW a \in Actors, Commit(a), NEW b \in Actors \ {a}, NEW r \in 1..Rounds,
         NEW p \in tx[b].locked, p \in Waiters(r)
  PROVE  p \in Waiters(r)'
<1>1. p \in Participants /\ p \notin tx[a].locked
  BY DEF SyncInv, SyncTypeOK, Tx, Disjoint
<1>. QED
  BY <1>1, Untouched DEF Waiters

\* Whom a check holds and a commit removes from the group was kicked by the
\* check of another visit: but members are in step, and wait at one visit.
LEMMA NotKicked ==
  ASSUME SyncInv, ~TopUps, NEW a \in Actors, Commit(a), NEW b \in Actors \ {a},
         NEW r \in 1..Rounds, b = Visit(r), NEW q \in tx[b].locked \cap Active, round[q] + 1 = r
  PROVE  q \notin tx[a].leaves
<1>. SUFFICES ASSUME q \in tx[a].leaves PROVE FALSE
  OBVIOUS
<1>1. q \notin tx[a].locked
  BY DEF SyncInv, Disjoint
<1>2. PICK s \in 1..Rounds, w \in tx[a].locked \cap Active : a = Visit(s) /\ round[w] + 1 = s
  BY <1>1 DEF SyncInv, Kicks
<1>3. round[q] = round[w]
  BY DEF SyncInv, InStep
<1>. QED
  BY <1>2, <1>3

LEMMA CommitStep ==
  ASSUME SyncInv, NEW a \in Actors, Commit(a)
  PROVE  SyncInv'
<1> DEFINE t == tx[a]
<1>1. /\ t \in Tx /\ grouper' = grouper
      /\ members' = (members \ t.leaves) \cup t.joins
      /\ failed' = failed \cup t.fails
      /\ arrived' = (arrived \cup t.arrives) \ (t.releases \cup t.fails)
      /\ round' = [p \in Participants |-> IF p \in t.releases \ failed' THEN round[p] + 1
                                                                        ELSE round[p]]
      /\ group' \in GroupRows
      /\ group'.active = (IF t.to.active = t.from.active THEN group.active ELSE t.to.active)
      /\ tx'[a] = Idle /\ (\A b \in Actors \ {a} : tx'[b] = tx[b]) /\ tx' \in [Actors -> Tx]
      /\ \A b \in Actors \ {a} : groupRow = b => groupRow' = b
  <2>1. t = tx[a]
    OBVIOUS
  <2> HIDE DEF t
  <2>. QED
    BY <2>1, CommitIs
<1>2. MinSize' = MinSize /\ MaxSize' = MaxSize /\ TopUps' = TopUps
  BY <1>1 DEF MinSize, MaxSize, TopUps
<1>3. SyncTypeOK'
  <2>1. round' \in [Participants -> Nat]
    BY <1>1 DEF SyncInv, SyncTypeOK
  <2>. QED
    BY <1>1, <2>1 DEF SyncInv, SyncTypeOK, Tx
<1>4. Disjoint'
  BY <1>1, IdleIs DEF SyncInv, Disjoint
<1>5. Active' \subseteq Active \cup t.joins /\ (~TopUps => t.joins = {} /\ Active' = After(a))
  <2>1. ~TopUps => t.joins = {}
    BY DEF SyncInv, Joins
  <2>. QED
    BY <1>1, <2>1 DEF Active, After
<1>6. IsFiniteSet(Active) /\ IsFiniteSet(Active \cup t.joins) /\ Active \subseteq Participants
  <2>1. Active \cup t.joins \in SUBSET Participants
    BY <1>1 DEF Active, SyncInv, SyncTypeOK, Tx
  <2>. QED
    BY <2>1, FS_Subset, GroupAssumption
<1>7. WithinMaxSize'
  <2>1. MaxSize \in Nat
    BY GroupAssumption DEF MaxSize, SyncInv, SyncTypeOK
  <2>2. Cardinality(Active \cup t.joins) <= MaxSize
    <3>1. CASE t.joins = {}
      <4>1. Active \cup t.joins = Active
        BY <3>1
      <4>. QED
        BY <4>1 DEF SyncInv, WithinMaxSize
    <3>2. CASE t.joins # {}
      BY <3>2 DEF SyncInv, Joins
    <3>. QED
      BY <3>1, <3>2
  <2>3. Cardinality(Active') <= Cardinality(Active \cup t.joins)
        /\ Cardinality(Active') \in Nat /\ Cardinality(Active \cup t.joins) \in Nat
    BY <1>5, <1>6, FS_Subset, FS_CardinalityType
  <2>. QED
    BY <1>2, <2>1, <2>2, <2>3 DEF WithinMaxSize
<1>8. InStep'
  <2>. SUFFICES ASSUME ~TopUps, NEW p \in After(a), NEW q \in After(a)
                PROVE  round'[p] = round'[q]
    BY <1>2, <1>5 DEF InStep
  <2>1. p \in Active /\ q \in Active /\ p \in Participants /\ q \in Participants
    BY <1>6 DEF After, Active
  <2>2. round[p] = round[q]
    BY <2>1 DEF SyncInv, InStep
  <2>3. p \notin failed' /\ q \notin failed'
    BY <1>1 DEF After
  <2>4. (t.releases \cap After(a) = {}) \/ (After(a) \subseteq t.releases)
    BY DEF SyncInv, Goes
  <2>. QED
    BY <1>1, <2>1, <2>2, <2>3, <2>4
<1>9. ClosedIsEmpty'
  <2>. SUFFICES ASSUME ~TopUps, ~group'.active PROVE Active' = {}
    BY <1>2 DEF ClosedIsEmpty
  <2>1. CASE t.to.active = t.from.active
    <3>1. ~group.active
      BY <1>1, <2>1
    <3>. QED
      BY <1>5, <3>1 DEF SyncInv, ClosedIsEmpty
  <2>2. CASE t.to.active # t.from.active
    BY <1>5, <2>2 DEF SyncInv, Closes
  <2>. QED
    BY <2>1, <2>2
<1>10. OwnsRows(a)' /\ Joins(a)' /\ Kicks(a)' /\ Goes(a)' /\ Closes(a)'
  BY <1>1, IdleIs DEF OwnsRows, Joins, Kicks, Goes, Closes
<1>11. ASSUME NEW b \in Actors, b # a
       PROVE  OwnsRows(b)' /\ Joins(b)' /\ (~TopUps => Kicks(b)' /\ Goes(b)' /\ Closes(b)')
  <2>1. tx'[b] = tx[b] /\ b \in Actors \ {a}
    BY <1>1, <1>11
  <2>2. OwnsRows(b)'
    <3>1. ASSUME NEW r \in 1..Rounds, NEW p \in tx[b].locked, p \in Waiters(r)
          PROVE  p \in Waiters(r)'
      BY <2>1, <3>1, WaitersStay
    <3>2. OwnsRows(b)
      BY DEF SyncInv
    <3>3. \A r \in 1..Rounds : b = Visit(r) =>
            /\ tx[b].releases \subseteq Waiters(r)'
            /\ tx[b].pc = "locked" => tx[b].locked \subseteq Waiters(r)'
      BY <3>1, <3>2 DEF OwnsRows
    <3>. QED
      BY <2>1, <3>2, <3>3 DEF OwnsRows
  <2>3. Joins(b)'
    <3>. SUFFICES ASSUME tx[b].joins # {}
                  PROVE  /\ TopUps /\ groupRow' = b
                         /\ Cardinality(Active' \cup tx[b].joins) <= MaxSize
      BY <1>2, <2>1 DEF Joins
    <3>1. /\ TopUps /\ groupRow = b /\ Cardinality(Active \cup tx[b].joins) <= MaxSize
          /\ t.joins = {}
      BY <1>11 DEF SyncInv, Joins
    <3>2. Active' \cup tx[b].joins \subseteq Active \cup tx[b].joins
      BY <1>5, <3>1
    <3>3. Active \cup tx[b].joins \in SUBSET Participants
      BY <1>6 DEF SyncInv, SyncTypeOK, Tx
    <3>4. IsFiniteSet(Active \cup tx[b].joins)
      BY <3>3, FS_Subset, GroupAssumption
    <3>5. MaxSize \in Nat
      BY GroupAssumption DEF MaxSize, SyncInv, SyncTypeOK
    <3>6. /\ Cardinality(Active' \cup tx[b].joins) <= Cardinality(Active \cup tx[b].joins)
          /\ Cardinality(Active' \cup tx[b].joins) \in Nat
          /\ Cardinality(Active \cup tx[b].joins) \in Nat
      BY <3>2, <3>4, FS_Subset, FS_CardinalityType
    <3>. QED
      BY <1>1, <2>1, <3>1, <3>5, <3>6
  <2>4. ASSUME ~TopUps PROVE Kicks(b)' /\ Goes(b)' /\ Closes(b)'
    <3>1. After(b)' \subseteq After(b)
      BY <1>1, <1>5, <2>1, <2>4 DEF After
    <3>2. ASSUME NEW r \in 1..Rounds, b = Visit(r), NEW q \in tx[b].locked \cap Active,
                 round[q] + 1 = r
          PROVE  q \in Active' /\ q \in members' /\ q \notin failed' /\ round'[q] = round[q]
      <4>1. q \notin t.leaves
        BY <2>1, <2>4, <3>2, NotKicked
      <4>2. q \notin t.locked /\ q \in Participants
        BY <1>6, <2>1 DEF SyncInv, Disjoint
      <4>3. (q \in failed' <=> q \in failed) /\ round'[q] = round[q]
        BY <4>2, Untouched
      <4>4. q \in members' /\ q \notin failed'
        BY <1>1, <4>1, <4>3 DEF Active
      <4>. QED
        BY <4>3, <4>4 DEF Active
    <3>3. Kicks(b)'
      <4>1. CASE tx[b].leaves \subseteq tx[b].locked
        BY <2>1, <4>1 DEF Kicks
      <4>2. CASE \E r \in 1..Rounds, w \in tx[b].locked \cap Active :
                   b = Visit(r) /\ round[w] + 1 = r
        <5>1. PICK r \in 1..Rounds, w \in tx[b].locked \cap Active :
                b = Visit(r) /\ round[w] + 1 = r
          BY <4>2
        <5>2. w \in Active' /\ round'[w] = round[w]
          BY <3>2, <5>1
        <5>3. w \in tx'[b].locked \cap Active' /\ b = Visit(r) /\ round'[w] + 1 = r
          BY <2>1, <5>1, <5>2
        <5>. QED
          BY <5>3 DEF Kicks
      <4>. QED
        BY <2>4, <4>1, <4>2 DEF SyncInv, Kicks
    <3>4. Goes(b)'
      <4>1. CASE tx[b].releases \cap After(b) = {}
        BY <2>1, <3>1, <4>1 DEF Goes
      <4>2. CASE /\ \E r \in 1..Rounds : b = Visit(r)
                 /\ After(b) \subseteq tx[b].releases /\ Cardinality(After(b)) >= MinSize
                 /\ tx[b].to.leader \in After(b)
        <5>1. PICK r \in 1..Rounds : b = Visit(r)
          BY <4>2
        <5>2. ASSUME NEW q \in After(b) PROVE q \in After(b)'
          <6>1. q \in tx[b].releases /\ q \in Active /\ q \notin tx[b].leaves /\ q \notin tx[b].fails
            BY <4>2 DEF After, Active
          <6>2. q \in tx[b].locked /\ round[q] + 1 = r
            BY <5>1, <6>1 DEF SyncInv, OwnsRows, Waiters
          <6>3. q \in members' /\ q \notin failed'
            BY <3>2, <5>1, <6>1, <6>2
          <6>. QED
            BY <2>1, <6>1, <6>3 DEF After
        <5>3. After(b)' = After(b)
          BY <3>1, <5>2
        <5>. QED
          BY <1>2, <2>1, <4>2, <5>1, <5>3 DEF Goes
      <4>. QED
        BY <2>4, <4>1, <4>2 DEF SyncInv, Goes
    <3>5. Closes(b)'
      BY <2>1, <2>4, <3>1 DEF SyncInv, Closes
    <3>. QED
      BY <3>3, <3>4, <3>5
  <2>. QED
    BY <2>2, <2>3, <2>4
<1>. QED
  BY <1>2, <1>3, <1>4, <1>7, <1>8, <1>9, <1>10, <1>11 DEF SyncInv
-----------------------------------------------------------------------------
(* Theorems.                                                               *)

LEMMA NextSync ==
  ASSUME SyncInv, [Next]_vars
  PROVE  SyncInv'
<1>1. CASE UNCHANGED vars
  <2>1. UNCHANGED <<grouper, members, failed, arrived, round, group, tx, groupRow>>
    BY <1>1 DEF vars, committed
  <2>2. Active' = Active /\ MaxSize' = MaxSize /\ MinSize' = MinSize /\ TopUps' = TopUps
    BY <2>1 DEF Active, MaxSize, MinSize, TopUps
  <2>3. SyncTypeOK' /\ Disjoint' /\ WithinMaxSize' /\ InStep' /\ ClosedIsEmpty'
    BY <2>1, <2>2 DEF SyncInv, SyncTypeOK, Disjoint, WithinMaxSize, InStep, ClosedIsEmpty
  <2>4. ASSUME NEW a \in Actors
        PROVE  OwnsRows(a)' /\ Joins(a)' /\ (~TopUps => Kicks(a)' /\ Goes(a)' /\ Closes(a)')
    <3>1. OwnsRows(a)' /\ Joins(a)'
      BY <2>1, <2>2 DEF SyncInv, OwnsRows, Joins, Waiters
    <3>2. After(a)' = After(a)
      BY <2>1 DEF After
    <3>. QED
      BY <2>1, <2>2, <3>1, <3>2 DEF SyncInv, Kicks, Goes, Closes
  <2>. QED
    BY <2>2, <2>3, <2>4 DEF SyncInv
<1>2. ASSUME NEW p \in Participants,
             \/ Begin(p) \/ Arrive(p) \/ Leave(p) \/ MaxWait(p) \/ Dashboard(p) \/ End(p) \/ Join(p)
      PROVE  SyncInv'
  BY <1>2, RowStep, ArriveStep, LeaveStep, JoinStep
<1>3. ASSUME NEW r \in 1..Rounds, LockWaiters(r) \/ DecideVisit(r)
      PROVE  SyncInv'
  BY <1>3, LockWaitersStep, DecideVisitStep
<1>4. CASE FinishDissolving \/ Recount
  BY <1>4, MaintenanceStep
<1>5. ASSUME NEW a \in Actors, Commit(a) \/ Rollback(a)
      PROVE  SyncInv'
  BY <1>5, CommitStep, RollbackStep
<1>. QED
  BY <1>1, <1>2, <1>3, <1>4, <1>5 DEF Next

THEOREM SyncInvariant == Spec => []SyncInv
<1>1. SyncInv /\ [Next]_vars => SyncInv'
  BY NextSync
<1>. QED
  BY InitSync, <1>1, PTL DEF Spec

\* Nobody in a group without top-ups is ever a barrier ahead of another member,
\* however checks, timeouts, failures and kicks interleave.
THEOREM MembersStayInStep == Spec => []InStep
<1>1. SyncInv => InStep
  BY DEF SyncInv
<1>. QED
  BY <1>1, SyncInvariant, PTL

\* A group without top-ups is closed only when nobody works in it any more.
THEOREM ClosedGroupsAreEmpty == Spec => []ClosedIsEmpty
<1>1. SyncInv => ClosedIsEmpty
  BY DEF SyncInv
<1>. QED
  BY <1>1, SyncInvariant, PTL

\* Two transactions never hold the same participant's row, and whom a check
\* has locked still waits at its visit when it decides.
THEOREM GroupLocksHold == Spec => []LocksHold
<1>1. SyncInv => LocksHold
  <2>1. \A r \in 1..Rounds : Visit(r) \in Actors
    BY DEF Actors
  <2>. QED
    BY <2>1 DEF SyncInv, LocksHold, Disjoint, OwnsRows
<1>. QED
  BY <1>1, SyncInvariant, PTL

\* However many join at once, a group never exceeds its maximum size.
THEOREM GroupsStayWithinMaxSize == Spec => []WithinMaxSize
<1>1. SyncInv => WithinMaxSize
  BY DEF SyncInv
<1>. QED
  BY <1>1, SyncInvariant, PTL

\* A group passes a barrier as a whole, with its minimum size, and led by one
\* of those who pass unless the leader was replaced after the check read it.
THEOREM GroupsPassWhole == Spec => PassesWhole
<1> DEFINE Whole == ~TopUps /\ Passing # {} =>
                      /\ Passing = Active' /\ Cardinality(Passing) >= MinSize
                      /\ group'.leader \in Passing \/ Overtaken
<1>1. ASSUME SyncInv, Next PROVE Whole
  <2>. SUFFICES ASSUME ~TopUps, Passing # {}
                PROVE  /\ Passing = Active' /\ Cardinality(Passing) >= MinSize
                       /\ group'.leader \in Passing \/ Overtaken
    OBVIOUS
  <2>1. round' # round
    <3>1. \A p \in Participants : ~(round[p] > round[p])
      BY <1>1 DEF SyncInv, SyncTypeOK
    <3>. QED
      BY <3>1 DEF Passing
  <2>2. PICK a \in Actors : Commit(a)
    <3>1. \A p \in Participants :
            Begin(p) \/ Arrive(p) \/ Leave(p) \/ MaxWait(p) \/ Dashboard(p) \/ End(p) \/ Join(p)
              => round' = round
      BY DEF Begin, Arrive, Leave, MaxWait, Dashboard, End, Join, committed
    <3>2. \A r \in 1..Rounds : LockWaiters(r) \/ DecideVisit(r) => round' = round
      BY DEF LockWaiters, DecideVisit, committed
    <3>3. FinishDissolving \/ Recount => round' = round
      BY DEF FinishDissolving, Recount, committed
    <3>4. \A a \in Actors : Rollback(a) => round' = round
      BY DEF Rollback, committed
    <3>. QED
      BY <1>1, <2>1, <3>1, <3>2, <3>3, <3>4 DEF Next
  <2> DEFINE t == tx[a]
  <2>3. /\ t \in Tx /\ t.pc = "planned" /\ failed' = failed \cup t.fails
        /\ members' = (members \ t.leaves) \cup t.joins
        /\ round' = [p \in Participants |-> IF p \in t.releases \ failed' THEN round[p] + 1
                                                                          ELSE round[p]]
        /\ group'.leader = (IF t.to.leader = t.from.leader THEN group.leader ELSE t.to.leader)
        /\ tx'[a] = Idle
    <3>1. t = tx[a]
      OBVIOUS
    <3> HIDE DEF t
    <3>. QED
      BY <1>1, <2>2, <3>1, CommitIs
  <2>4. t.joins = {} /\ Active' = After(a)
    <3>1. t.joins = {}
      BY <1>1 DEF SyncInv, Joins
    <3>. QED
      BY <2>3, <3>1 DEF Active, After
  <2>5. Passing = After(a) \cap t.releases
    <3>1. After(a) \subseteq Participants /\ \A p \in Participants : round[p] \in Nat
      BY <1>1 DEF After, SyncInv, SyncTypeOK
    <3>2. \A p \in After(a) : p \notin failed'
      BY <2>3 DEF After
    <3>3. \A p \in After(a) : round'[p] > round[p] <=> p \in t.releases
      BY <2>3, <3>1, <3>2
    <3>. QED
      BY <2>4, <3>1, <3>3 DEF Passing
  <2>6. /\ \E r \in 1..Rounds : a = Visit(r)
        /\ After(a) \subseteq t.releases /\ Cardinality(After(a)) >= MinSize
        /\ t.to.leader \in After(a)
    BY <1>1, <2>5 DEF SyncInv, Goes
  <2>7. Passing = After(a)
    BY <2>5, <2>6
  <2>8. group'.leader \in Passing \/ Overtaken
    <3>1. CASE t.to.leader # t.from.leader
      BY <2>3, <2>6, <2>7, <3>1
    <3>2. CASE t.to.leader = t.from.leader /\ t.from.leader = group.leader
      BY <2>3, <2>6, <2>7, <3>2
    <3>3. CASE t.from.leader # group.leader
      BY <2>3, <2>6, <3>3, IdleIs DEF Overtaken
    <3>. QED
      BY <3>1, <3>2, <3>3
  <2>. QED
    BY <2>4, <2>6, <2>7, <2>8
<1> HIDE DEF Whole
<1>2. SyncInv /\ [Next]_vars => [Whole]_vars
  BY <1>1
<1>. QED
  BY SyncInvariant, <1>2, PTL DEF Spec, PassesWhole, Whole
=============================================================================
