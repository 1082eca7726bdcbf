------------------------- MODULE VectorIndex_proofs --------------------------
(* Proofs about VectorIndex, for any partitions, ids, sizes, budget and     *)
(* callers.                                                                 *)
EXTENDS VectorIndex, FiniteSetTheorems, SequenceTheorems, WellFoundedInduction, TLAPS

\* Restrict takes one key from the domain and leaves the other values.
LEMMA WithoutOne ==
  ASSUME NEW f, NEW k
  PROVE  /\ DOMAIN Without(f, k) = DOMAIN f \ {k}
         /\ \A o \in DOMAIN f \ {k} : Without(f, k)[o] = f[o]
BY DEF Without, Restrict

\* What a step does to the partitions held and to those reported missing.
LEMMA HeldStep ==
  ASSUME [Next]_vars, EvictedAreGone
  PROVE  EvictedAreGone'
<1>1. CASE \E c \in Callers, k \in Parts : Build(c, k) \/ \E w \in Writes : Commit(c, k, w)
  BY <1>1 DEF Build, Commit, index, EvictedAreGone
<1>2. ASSUME NEW c \in Callers, Hydrate(c)
      PROVE  EvictedAreGone'
  <2> DEFINE k == doing[c].part
  <2>1. held' = Without(held, k)
    BY <1>2 DEF Hydrate, Replacing
  <2>2. DOMAIN held' = DOMAIN held \ {k}
    BY <2>1, WithoutOne
  <2>3. evicted' = evicted \/ evicted' = evicted \cup {k}
    BY <1>2 DEF Hydrate
  <2> QED BY <2>2, <2>3 DEF EvictedAreGone
<1>3. ASSUME NEW c \in Callers, NotHeld(c) \/ Remove(c) \/ Upsert(c)
      PROVE  EvictedAreGone'
  <2>1. evicted' = evicted /\ DOMAIN held' = DOMAIN held
    BY <1>3 DEF NotHeld, Remove, Upsert, index
  <2> QED BY <2>1 DEF EvictedAreGone
<1>4. ASSUME NEW c \in Callers, DropPartition(c)
      PROVE  EvictedAreGone'
  <2> DEFINE k == doing[c].part
  <2>1. held' = Without(held, k) /\ evicted' = evicted \ {k}
    BY <1>4 DEF DropPartition, Replacing
  <2>2. DOMAIN held' = DOMAIN held \ {k}
    BY <2>1, WithoutOne
  <2> QED BY <2>1, <2>2 DEF EvictedAreGone
<1>5. ASSUME NEW k \in Parts, SetPartitionTotal(k) \/ Search(k)
      PROVE  EvictedAreGone'
  <2>1. evicted' = evicted /\ DOMAIN held' = DOMAIN held
    BY <1>5 DEF SetPartitionTotal, Search
  <2> QED BY <2>1 DEF EvictedAreGone
<1>6. CASE Evict
  <2>1. PICK k \in Oldest : held' = Without(held, k) /\ evicted' = evicted \cup {k}
    BY <1>6 DEF Evict
  <2>2. DOMAIN held' = DOMAIN held \ {k}
    BY <2>1, WithoutOne
  <2> QED BY <2>1, <2>2 DEF EvictedAreGone
<1>7. CASE Install
  <2> DEFINE k == room.keep
  <2>1. /\ held' = Put(held, k, doing[room.caller].made)
        /\ evicted' = evicted \ {k}
    BY <1>7 DEF Install
  <2>2. DOMAIN held' = DOMAIN held \cup {k}
    BY <2>1 DEF Put
  <2> QED BY <2>1, <2>2 DEF EvictedAreGone
<1>8. CASE UpsertDone
  BY <1>8 DEF UpsertDone, EvictedAreGone
<1>9. CASE UNCHANGED vars
  BY <1>9 DEF vars, EvictedAreGone
<1> QED
  BY <1>1, <1>2, <1>3, <1>4, <1>5, <1>6, <1>7, <1>8, <1>9 DEF Next

\* Coverage is not told twice (VectorIndex::coverage): whatever is hydrated,
\* grown, evicted, refused or dropped, no partition is both held and evicted.
THEOREM CoverageIsExact == Spec => []EvictedAreGone
<1>1. Init => EvictedAreGone
  BY DEF Init, EvictedAreGone
<1> QED
  BY <1>1, HeldStep, PTL DEF Spec

\* Within a call of make_room only Evict changes what is held or evicted.
LEMMA EvictionOrderStep ==
  ASSUME [Next]_vars, EvictsOldestFirst
  PROVE  EvictsOldestFirst'
<1>1. CASE UNCHANGED <<held, room>>
  BY <1>1 DEF EvictsOldestFirst, Unlocked, Victims
<1>2. CASE Evict
  <2>1. PICK k \in Oldest : /\ held' = Without(held, k)
                            /\ room' = [room EXCEPT !.gone = @ \cup {held[k].last_used}]
    BY <1>2 DEF Evict
  <2>2. /\ DOMAIN held' = DOMAIN held \ {k}
        /\ \A o \in DOMAIN held \ {k} : held'[o] = held[o]
    BY <2>1, WithoutOne
  <2>3. ~Unlocked /\ k \in Victims
    BY <1>2 DEF Evict, Oldest
  <2>4. room'.keep = room.keep /\ room'.gone \subseteq room.gone \cup {held[k].last_used}
    BY <2>1
  <2>5. Victims' = Victims \ {k}
    BY <2>2, <2>4 DEF Victims
  <2>6. ASSUME NEW t \in room'.gone, NEW o \in Victims'
        PROVE  t <= held'[o].last_used
    <3>1. o \in Victims /\ held'[o] = held[o]
      BY <2>2, <2>5 DEF Victims
    <3>2. CASE t \in room.gone
      BY <3>1, <3>2, <2>3 DEF EvictsOldestFirst
    <3>3. CASE t = held[k].last_used
      BY <3>1, <3>3, <2>1 DEF Oldest
    <3> QED BY <3>2, <3>3, <2>4
  <2> QED BY <2>6 DEF EvictsOldestFirst
<1>3. CASE room' = Free
  BY <1>3 DEF EvictsOldestFirst, Unlocked
<1>4. CASE room'.gone = {}
  BY <1>4 DEF EvictsOldestFirst
<1>5. ASSUME Unlocked, room' = room
      PROVE  EvictsOldestFirst'
  BY <1>5 DEF EvictsOldestFirst, Unlocked
<1>6. ASSUME NEW c \in Callers,
             Hydrate(c) \/ NotHeld(c) \/ Upsert(c) \/ Remove(c) \/ DropPartition(c)
      PROVE  EvictsOldestFirst'
  <2>1. Unlocked
    BY <1>6 DEF Hydrate, NotHeld, Upsert, Remove, DropPartition, Telling
  <2>2. room' = room \/ room'.gone = {}
    BY <1>6 DEF Hydrate, NotHeld, Upsert, Remove, DropPartition, index
  <2> QED BY <2>1, <2>2, <1>4, <1>5
<1>7. ASSUME NEW k \in Parts, SetPartitionTotal(k) \/ Search(k)
      PROVE  EvictsOldestFirst'
  BY <1>7, <1>5 DEF SetPartitionTotal, Search
<1>8. CASE \E c \in Callers, k \in Parts : Build(c, k) \/ \E w \in Writes : Commit(c, k, w)
  BY <1>8, <1>1 DEF Build, Commit, index
<1>9. CASE Install \/ UpsertDone
  BY <1>9, <1>3 DEF Install, UpsertDone
<1>10. CASE UNCHANGED vars
  BY <1>10, <1>1 DEF vars
<1> QED
  BY <1>2, <1>6, <1>7, <1>8, <1>9, <1>10 DEF Next

\* One call of make_room never evicts a partition used after one it leaves.
THEOREM LeastRecentGoFirst == Spec => []EvictsOldestFirst
<1>1. Init => EvictsOldestFirst
  BY DEF Init, EvictsOldestFirst, Unlocked
<1> QED
  BY <1>1, EvictionOrderStep, PTL DEF Spec

-----------------------------------------------------------------------------
(***************************************************************************)
(* Sums.  SumFunctionOnSet takes the elements of a set one after the other *)
(* in an order it chooses; these lemmas say that the order is no matter.   *)
(* A statement about all finite sets is shown by taking a smallest set for *)
(* which it would fail.                                                    *)
(***************************************************************************)
\* A set of naturals that is not empty has a least element.
LEMMA Least ==
  ASSUME NEW T \in SUBSET Nat, T # {}
  PROVE  \E m \in T : \A k \in T : m <= k
<1> DEFINE R == OpToRel(<, Nat)
<1>1. IsWellFoundedOn(R, Nat)
  BY NatLessThanWellFounded DEF OpToRel
<1>2. ASSUME NEW i \in Nat, NEW j \in Nat, i < j PROVE <<i, j>> \in R
  BY <1>2 DEF OpToRel
<1> HIDE DEF R
<1>3. PICK m \in T : \A k \in T : ~(<<k, m>> \in R)
  BY <1>1, WFMin
<1>4. \A k \in T : ~(k < m)
  BY <1>2, <1>3
<1>5. \A k \in T : m <= k
  BY <1>4
<1> QED BY <1>5

\* Of finite sets there is one that none of the others is part of.
LEMMA SmallestSet ==
  ASSUME NEW S, IsFiniteSet(S), NEW B, B \subseteq SUBSET S, B # {}
  PROVE  \E s \in B : \A t \in B : t \subseteq s => t = s
<1> DEFINE R == StrictSubsetOrdering(S)
<1>1. IsWellFoundedOn(R, FiniteSubsetsOf(S))
  BY FS_StrictSubsetOrderingWellFounded
<1>2. B \subseteq FiniteSubsetsOf(S)
  BY FS_Subset DEF FiniteSubsetsOf
<1>3. ASSUME NEW s \in B, NEW t \in B, t \subseteq s, t # s PROVE <<t, s>> \in R
  BY <1>3 DEF StrictSubsetOrdering
<1> HIDE DEF R
<1>4. PICK s \in B : \A t \in B : ~(<<t, s>> \in R)
  BY <1>1, <1>2, WFMin
<1> QED BY <1>3, <1>4

Pick(s) == CHOOSE x \in s : TRUE
Turn(fun, f, s) == IF s = {} THEN 0 ELSE fun[Pick(s)] + f[s \ {Pick(s)}]
Solves(f, fun, S) == f = [s \in SUBSET S |-> Turn(fun, f, s)]
Turns(fun, S) == CHOOSE f : f = [s \in SUBSET S |-> Turn(fun, f, s)]

\* What SumFunctionOnSet computes, one element at a turn.
LEMMA SumTurns ==
  ASSUME NEW fun, NEW S
  PROVE  SumFunctionOnSet(fun, S) = Turns(fun, S)[S]
BY Zenon DEF SumFunctionOnSet, FoldFunctionOnSet, MapThenFoldSet, Turns, Turn, Pick

\* The element taken is one of the set's.
LEMMA Picked ==
  ASSUME NEW s, s # {}
  PROVE  Pick(s) \in s
BY DEF Pick

\* The recursion has a solution for a finite set.
LEMMA TurnsExist ==
  ASSUME NEW fun, NEW S, IsFiniteSet(S)
  PROVE  Solves(Turns(fun, S), fun, S)
<1> DEFINE Good(f, n) ==
             /\ DOMAIN f = SUBSET S
             /\ \A s \in SUBSET S : Cardinality(s) <= n => f[s] = Turn(fun, f, s)
           B == {n \in Nat : ~\E f : Good(f, n)}
<1>0. \A s \in SUBSET S : IsFiniteSet(s) /\ Cardinality(s) \in Nat
  BY FS_Subset, FS_CardinalityType
<1>1. B = {}
  <2> SUFFICES ASSUME B # {} PROVE FALSE
    OBVIOUS
  <2>1. PICK m \in B : \A k \in B : m <= k
    <3>1. B \subseteq Nat
      OBVIOUS
    <3> HIDE DEF B
    <3> QED BY <3>1, Least
  <2>2. CASE m = 0
    <3> DEFINE f == [s \in SUBSET S |-> 0]
    <3>1. ASSUME NEW s \in SUBSET S, Cardinality(s) <= 0 PROVE f[s] = Turn(fun, f, s)
      <4>1. s = {}
        BY <1>0, <3>1, FS_EmptySet
      <4> QED BY <4>1 DEF Turn
    <3>2. Good(f, 0)
      BY <3>1
    <3> QED BY <2>1, <2>2, <3>2
  <2>3. CASE m > 0
    <3>1. m - 1 \in Nat /\ m - 1 \notin B
      <4>1. m \in Nat
        BY <2>1
      <4> HIDE DEF B
      <4> QED BY <2>1, <2>3, <4>1
    <3>2. PICK f : Good(f, m - 1)
      BY <3>1
    <3> DEFINE g == [s \in SUBSET S |-> Turn(fun, f, s)]
    <3>3. ASSUME NEW s \in SUBSET S, Cardinality(s) <= m PROVE g[s] = Turn(fun, g, s)
      <4>1. CASE s = {}
        BY <4>1 DEF Turn
      <4>2. CASE s # {}
        <5> DEFINE t == s \ {Pick(s)}
        <5>1. t \in SUBSET S /\ Cardinality(t) = Cardinality(s) - 1
          BY <1>0, <4>2, Picked, FS_RemoveElement
        <5>2. Cardinality(t) <= m - 1
          BY <1>0, <2>1, <3>3, <5>1
        <5>3. g[t] = f[t]
          BY <3>2, <5>1, <5>2
        <5> HIDE DEF g
        <5>4. g[s] = Turn(fun, f, s)
          BY DEF g
        <5> QED BY <4>2, <5>3, <5>4 DEF Turn
      <4> QED BY <4>1, <4>2
    <3>4. DOMAIN g = SUBSET S
      OBVIOUS
    <3> HIDE DEF g
    <3>5. Good(g, m)
      BY <3>3, <3>4
    <3> QED BY <2>1, <3>5
  <2> QED BY <2>1, <2>2, <2>3
<1>2. PICK f : Good(f, Cardinality(S))
  <2>1. Cardinality(S) \in Nat
    BY <1>0
  <2> QED BY <1>1, <2>1
<1>3. \A s \in SUBSET S : Cardinality(s) <= Cardinality(S)
  BY FS_Subset
<1> DEFINE g == [s \in SUBSET S |-> f[s]]
<1>4. g = [s \in SUBSET S |-> Turn(fun, g, s)]
  <2>1. ASSUME NEW s \in SUBSET S PROVE f[s] = Turn(fun, g, s)
    <3>1. f[s] = Turn(fun, f, s)
      BY <1>2, <1>3
    <3>2. s # {} => g[s \ {Pick(s)}] = f[s \ {Pick(s)}]
      OBVIOUS
    <3> HIDE DEF g
    <3> QED BY <3>1, <3>2 DEF Turn
  <2> QED BY <2>1
<1> HIDE DEF g
<1> QED BY <1>4, Zenon DEF Turns, Solves

\* Any two solutions agree where both are defined.
LEMMA SameTurns ==
  ASSUME NEW fun, NEW S, NEW U, IsFiniteSet(S), NEW f, NEW g,
         Solves(f, fun, S), Solves(g, fun, U),
         NEW s, s \subseteq S, s \subseteq U
  PROVE  f[s] = g[s]
<1> DEFINE B == {t \in SUBSET s : f[t] # g[t]}
<1> SUFFICES ASSUME B # {} PROVE FALSE
  OBVIOUS
<1>1. IsFiniteSet(s)
  BY FS_Subset
<1>2. PICK t \in B : \A r \in B : r \subseteq t => r = t
  <2>1. B \subseteq SUBSET s
    OBVIOUS
  <2> HIDE DEF B
  <2> QED BY <1>1, <2>1, SmallestSet
<1>3. f[t] = Turn(fun, f, t) /\ g[t] = Turn(fun, g, t)
  BY <1>2 DEF Solves
<1>4. t # {}
  BY <1>2, <1>3 DEF Turn
<1>5. f[t \ {Pick(t)}] = g[t \ {Pick(t)}]
  <2>1. t \ {Pick(t)} \in SUBSET s /\ t \ {Pick(t)} # t
    BY <1>2, <1>4, Picked
  <2> QED BY <1>2, <2>1
<1> QED BY <1>2, <1>3, <1>4, <1>5 DEF Turn

\* Nothing sums up to 0.
LEMMA SumEmpty ==
  ASSUME NEW fun
  PROVE  SumFunctionOnSet(fun, {}) = 0
<1>1. Solves(Turns(fun, {}), fun, {})
  BY TurnsExist, FS_EmptySet
<1>2. Turns(fun, {})[{}] = Turn(fun, Turns(fun, {}), {})
  BY <1>1 DEF Solves
<1> QED BY <1>2, SumTurns DEF Turn

\* The sum of a set that is not empty, by the element taken first.
LEMMA SumPick ==
  ASSUME NEW fun, NEW S, IsFiniteSet(S), S # {}
  PROVE  SumFunctionOnSet(fun, S) = fun[Pick(S)] + SumFunctionOnSet(fun, S \ {Pick(S)})
<1> DEFINE U == S \ {Pick(S)}
           f == Turns(fun, S)
           g == Turns(fun, U)
<1>1. IsFiniteSet(U) /\ U \subseteq S /\ U \in SUBSET U
  BY FS_Subset
<1>2. Solves(f, fun, S)
  BY TurnsExist
<1>3. Solves(g, fun, U)
  BY <1>1, TurnsExist
<1>4. SumFunctionOnSet(fun, S) = f[S] /\ SumFunctionOnSet(fun, U) = g[U]
  BY SumTurns
<1> HIDE DEF f, g
<1>5. f[U] = g[U]
  BY <1>1, <1>2, <1>3, SameTurns
<1>6. f[S] = Turn(fun, f, S)
  BY <1>2 DEF Solves
<1> QED BY <1>4, <1>5, <1>6 DEF Turn

\* Integers sum up to an integer.
LEMMA SumIsInt ==
  ASSUME NEW D, NEW fun \in [D -> Int], NEW S \in SUBSET D, IsFiniteSet(S)
  PROVE  SumFunctionOnSet(fun, S) \in Int
<1> DEFINE B == {t \in SUBSET S : SumFunctionOnSet(fun, t) \notin Int}
<1> SUFFICES ASSUME B # {} PROVE FALSE
  OBVIOUS
<1>1. PICK t \in B : \A r \in B : r \subseteq t => r = t
  <2>1. B \subseteq SUBSET S
    OBVIOUS
  <2> HIDE DEF B
  <2> QED BY <2>1, SmallestSet
<1>2. t # {} /\ t \subseteq S /\ IsFiniteSet(t)
  <2>1. t \in SUBSET S /\ SumFunctionOnSet(fun, t) \notin Int /\ SumFunctionOnSet(fun, {}) = 0
    BY <1>1, SumEmpty
  <2>2. IsFiniteSet(t)
    BY <2>1, FS_Subset
  <2> QED BY <2>1, <2>2
<1>3. Pick(t) \in t /\ t \ {Pick(t)} \notin B
  BY <1>1, <1>2, Picked
<1>4. SumFunctionOnSet(fun, t) = fun[Pick(t)] + SumFunctionOnSet(fun, t \ {Pick(t)})
  BY <1>2, SumPick
<1>5. SumFunctionOnSet(fun, t \ {Pick(t)}) \in Int /\ fun[Pick(t)] \in Int
  BY <1>2, <1>3
<1> QED BY <1>1, <1>4, <1>5

\* And by any element.
LEMMA SumOne ==
  ASSUME NEW D, NEW fun \in [D -> Int], NEW S \in SUBSET D, IsFiniteSet(S), NEW x \in S
  PROVE  /\ SumFunctionOnSet(fun, S) = fun[x] + SumFunctionOnSet(fun, S \ {x})
         /\ SumFunctionOnSet(fun, S) \in Int /\ SumFunctionOnSet(fun, S \ {x}) \in Int
<1> DEFINE Sum(s) == SumFunctionOnSet(fun, s)
           B == {t \in SUBSET S : \E y \in t : Sum(t) # fun[y] + Sum(t \ {y})}
<1>0. ASSUME NEW t \in SUBSET S
      PROVE  IsFiniteSet(t) /\ Sum(t) \in Int /\ \A y \in t : fun[y] \in Int
  <2>1. IsFiniteSet(t) /\ t \in SUBSET D
    BY FS_Subset
  <2> QED BY <2>1, SumIsInt
<1>1. ASSUME NEW t \in SUBSET S, t # {}
      PROVE  Pick(t) \in t /\ Sum(t) = fun[Pick(t)] + Sum(t \ {Pick(t)})
  BY <1>0, <1>1, SumPick, Picked
<1> HIDE DEF Sum
<1>2. B = {}
  <2> SUFFICES ASSUME B # {} PROVE FALSE
    OBVIOUS
  <2>1. PICK t \in B : \A r \in B : r \subseteq t => r = t
    <3>1. B \subseteq SUBSET S
      OBVIOUS
    <3> HIDE DEF B
    <3> QED BY <3>1, SmallestSet
  <2>2. PICK y \in t : Sum(t) # fun[y] + Sum(t \ {y})
    BY <2>1
  <2> DEFINE z == Pick(t)
             both == (t \ {z}) \ {y}
  <2>3. z \in t /\ Sum(t) = fun[z] + Sum(t \ {z}) /\ t \subseteq S
    BY <1>1, <2>1, <2>2
  <2> HIDE DEF z
  <2>4. y # z
    BY <2>2, <2>3
  <2>5. Sum(t \ {z}) = fun[y] + Sum(both)
    <3>1. t \ {z} \notin B /\ t \ {z} \in SUBSET S /\ y \in t \ {z}
      BY <2>1, <2>2, <2>3, <2>4
    <3> QED BY <3>1
  <2>6. Sum(t \ {y}) = fun[z] + Sum(both)
    <3>1. t \ {y} \notin B /\ t \ {y} \in SUBSET S /\ z \in t \ {y} /\ (t \ {y}) \ {z} = both
      BY <2>1, <2>2, <2>3, <2>4
    <3> QED BY <3>1
  <2>7. fun[y] \in Int /\ fun[z] \in Int /\ Sum(both) \in Int
    BY <1>0, <2>2, <2>3
  <2> QED BY <2>2, <2>3, <2>5, <2>6, <2>7
<1>3. Sum(S) = fun[x] + Sum(S \ {x})
  BY <1>2
<1> QED BY <1>0, <1>3 DEF Sum

\* Only the values at the elements of the set matter.
LEMMA SumSame ==
  ASSUME NEW fun, NEW gun, NEW S, IsFiniteSet(S), \A x \in S : fun[x] = gun[x]
  PROVE  SumFunctionOnSet(fun, S) = SumFunctionOnSet(gun, S)
<1> DEFINE B == {t \in SUBSET S : SumFunctionOnSet(fun, t) # SumFunctionOnSet(gun, t)}
<1> SUFFICES ASSUME B # {} PROVE FALSE
  OBVIOUS
<1>1. PICK t \in B : \A r \in B : r \subseteq t => r = t
  <2>1. B \subseteq SUBSET S
    OBVIOUS
  <2> HIDE DEF B
  <2> QED BY <2>1, SmallestSet
<1>2. t # {} /\ t \subseteq S /\ IsFiniteSet(t)
  BY <1>1, SumEmpty, FS_Subset
<1>3. Pick(t) \in t /\ t \ {Pick(t)} \notin B
  BY <1>1, <1>2, Picked
<1>4. /\ SumFunctionOnSet(fun, t) = fun[Pick(t)] + SumFunctionOnSet(fun, t \ {Pick(t)})
      /\ SumFunctionOnSet(gun, t) = gun[Pick(t)] + SumFunctionOnSet(gun, t \ {Pick(t)})
  BY <1>2, SumPick
<1> QED BY <1>1, <1>2, <1>3, <1>4

\* Naturals sum up to a natural.
LEMMA SumNat ==
  ASSUME NEW D, NEW fun \in [D -> Nat], NEW S \in SUBSET D, IsFiniteSet(S)
  PROVE  SumFunctionOnSet(fun, S) \in Nat
<1> DEFINE B == {t \in SUBSET S : SumFunctionOnSet(fun, t) \notin Nat}
<1> SUFFICES ASSUME B # {} PROVE FALSE
  OBVIOUS
<1>1. PICK t \in B : \A r \in B : r \subseteq t => r = t
  <2>1. B \subseteq SUBSET S
    OBVIOUS
  <2> HIDE DEF B
  <2> QED BY <2>1, SmallestSet
<1>2. t # {} /\ t \subseteq S /\ IsFiniteSet(t)
  <2>1. t \in SUBSET S /\ SumFunctionOnSet(fun, t) \notin Nat /\ SumFunctionOnSet(fun, {}) = 0
    BY <1>1, SumEmpty
  <2>2. IsFiniteSet(t)
    BY <2>1, FS_Subset
  <2> QED BY <2>1, <2>2
<1>3. Pick(t) \in t /\ t \ {Pick(t)} \notin B
  BY <1>1, <1>2, Picked
<1>4. SumFunctionOnSet(fun, t) = fun[Pick(t)] + SumFunctionOnSet(fun, t \ {Pick(t)})
  BY <1>2, SumPick
<1>5. SumFunctionOnSet(fun, t \ {Pick(t)}) \in Nat /\ fun[Pick(t)] \in Nat
  BY <1>2, <1>3
<1> QED BY <1>1, <1>4, <1>5

\* One value of a sum of naturals and the rest.
LEMMA SumPart ==
  ASSUME NEW D, NEW fun \in [D -> Nat], NEW S \in SUBSET D, IsFiniteSet(S), NEW x \in S
  PROVE  /\ SumFunctionOnSet(fun, S) = fun[x] + SumFunctionOnSet(fun, S \ {x})
         /\ SumFunctionOnSet(fun, S) \in Nat /\ SumFunctionOnSet(fun, S \ {x}) \in Nat
<1>1. fun \in [D -> Int]
  OBVIOUS
<1>2. S \ {x} \in SUBSET D /\ IsFiniteSet(S \ {x})
  BY FS_Subset
<1> QED BY <1>1, <1>2, SumOne, SumNat

\* A sum over places is a sum over what stands there, if nothing stands twice.
LEMMA SumThrough ==
  ASSUME NEW D, IsFiniteSet(D), NEW fun \in [D -> Int], NEW gun, NEW order,
         NEW S, IsFiniteSet(S),
         \A i \in S : order[i] \in D /\ gun[i] = fun[order[i]],
         \A i, j \in S : order[i] = order[j] => i = j
  PROVE  SumFunctionOnSet(gun, S) = SumFunctionOnSet(fun, {order[i] : i \in S})
<1> DEFINE Img(s) == {order[i] : i \in s}
           B == {t \in SUBSET S : SumFunctionOnSet(gun, t) # SumFunctionOnSet(fun, Img(t))}
<1> SUFFICES ASSUME B # {} PROVE FALSE
  OBVIOUS
<1>1. PICK t \in B : \A r \in B : r \subseteq t => r = t
  <2>1. B \subseteq SUBSET S
    OBVIOUS
  <2> HIDE DEF B
  <2> QED BY <2>1, SmallestSet
<1>2. t \subseteq S /\ IsFiniteSet(t) /\ Img(t) \in SUBSET D /\ IsFiniteSet(Img(t))
  <2>1. t \subseteq S /\ IsFiniteSet(t)
    BY <1>1, FS_Subset
  <2>2. Img(t) \in SUBSET D
    BY <2>1
  <2> QED BY <2>1, <2>2, FS_Subset
<1>3. t # {}
  <2>1. SumFunctionOnSet(gun, {}) = 0 /\ SumFunctionOnSet(fun, {}) = 0
    BY SumEmpty
  <2>2. t = {} => Img(t) = {}
    OBVIOUS
  <2>3. SumFunctionOnSet(gun, t) # SumFunctionOnSet(fun, Img(t))
    BY <1>1
  <2> HIDE DEF Img
  <2> QED BY <2>1, <2>2, <2>3
<1> DEFINE x == Pick(t)
           r == t \ {x}
<1>4. x \in t /\ SumFunctionOnSet(gun, t) = gun[x] + SumFunctionOnSet(gun, r)
  BY <1>2, <1>3, Picked, SumPick
<1> HIDE DEF x
<1>5. SumFunctionOnSet(gun, r) = SumFunctionOnSet(fun, Img(r))
  BY <1>1, <1>4
<1>6. order[x] \in Img(t) /\ Img(r) = Img(t) \ {order[x]} /\ gun[x] = fun[order[x]]
  BY <1>2, <1>4
<1>7. SumFunctionOnSet(fun, Img(t)) = fun[order[x]] + SumFunctionOnSet(fun, Img(t) \ {order[x]})
  <2> HIDE DEF Img
  <2> QED BY <1>2, <1>6, SumOne
<1>8. SumFunctionOnSet(gun, t) # SumFunctionOnSet(fun, Img(t))
  BY <1>1
<1> HIDE DEF Img
<1> QED BY <1>4, <1>5, <1>6, <1>7, <1>8

\* What one value more or less makes of the sum.
LEMMA SumChanged ==
  ASSUME NEW D, IsFiniteSet(D), NEW f \in [D -> Nat], NEW g \in [D -> Nat], NEW x \in D,
         \A y \in D \ {x} : g[y] = f[y]
  PROVE  SumFunctionOnSet(g, D) = SumFunctionOnSet(f, D) - f[x] + g[x]
<1>1. /\ SumFunctionOnSet(f, D) = f[x] + SumFunctionOnSet(f, D \ {x})
      /\ SumFunctionOnSet(f, D \ {x}) \in Nat
  BY SumPart
<1>2. /\ SumFunctionOnSet(g, D) = g[x] + SumFunctionOnSet(g, D \ {x})
      /\ SumFunctionOnSet(g, D \ {x}) \in Nat
  BY SumPart
<1>3. SumFunctionOnSet(f, D \ {x}) = SumFunctionOnSet(g, D \ {x})
  <2>1. IsFiniteSet(D \ {x})
    BY FS_Subset
  <2> QED BY <2>1, SumSame
<1> QED BY <1>1, <1>2, <1>3

\* One more place, one more value.
LEMMA SumMore ==
  ASSUME NEW D, IsFiniteSet(D), NEW x, x \notin D,
         NEW f \in [D -> Nat], NEW g \in [D \cup {x} -> Nat], \A y \in D : g[y] = f[y]
  PROVE  SumFunctionOnSet(g, D \cup {x}) = SumFunctionOnSet(f, D) + g[x]
<1>1. IsFiniteSet(D \cup {x}) /\ (D \cup {x}) \ {x} = D /\ x \in D \cup {x}
  BY FS_AddElement
<1>2. /\ SumFunctionOnSet(g, D \cup {x}) = g[x] + SumFunctionOnSet(g, D)
      /\ SumFunctionOnSet(g, D) \in Nat /\ g[x] \in Nat
  <2> DEFINE E == D \cup {x}
  <2>1. g \in [E -> Nat] /\ E \in SUBSET E /\ IsFiniteSet(E) /\ x \in E /\ E \ {x} = D
    BY <1>1
  <2> HIDE DEF E
  <2>2. /\ SumFunctionOnSet(g, E) = g[x] + SumFunctionOnSet(g, E \ {x})
        /\ SumFunctionOnSet(g, E \ {x}) \in Nat
    BY <2>1, SumPart
  <2>3. SumFunctionOnSet(g, E) = g[x] + SumFunctionOnSet(g, D) /\ SumFunctionOnSet(g, D) \in Nat
    BY <2>1, <2>2
  <2>4. g[x] \in Nat
    BY <2>1
  <2> QED BY <2>3, <2>4 DEF E
<1>3. SumFunctionOnSet(f, D) = SumFunctionOnSet(g, D)
  BY SumSame
<1> QED BY <1>2, <1>3

-----------------------------------------------------------------------------
(***************************************************************************)
(* A partition: its positions lead to its vectors and back, and its bytes  *)
(* are theirs.                                                             *)
(***************************************************************************)
Partitions ==
  [vectors : Seq(Vector), positions : UNION {[S -> Nat] : S \in SUBSET Ids},
   bytes : Nat, last_used : Nat]

Linked(p) ==
  /\ \A id \in DOMAIN p.positions :
       p.positions[id] \in 1..Len(p.vectors) /\ p.vectors[p.positions[id]].id = id
  /\ \A i \in 1..Len(p.vectors) :
       p.vectors[i].id \in DOMAIN p.positions /\ p.positions[p.vectors[i].id] = i

Sound(p) == p \in Partitions /\ Linked(p) /\ p.bytes = Bytes(p)

\* What a partition holds of an id: its size, or 0 for none.
At(p, id) == IF id \in DOMAIN p.positions THEN p.vectors[p.positions[id]].size ELSE 0

SizesOf(v) == [i \in 1..Len(v) |-> v[i].size]

\* The types of a sequence of vectors and of their sizes.
LEMMA VectorSizes ==
  ASSUME NEW v \in Seq(Vector)
  PROVE  /\ Len(v) \in Nat /\ \A i \in 1..Len(v) : v[i] \in Vector /\ v[i].size \in Sizes /\ v[i].id \in Ids
         /\ SizesOf(v) \in [1..Len(v) -> Nat] /\ \A i \in 1..Len(v) : SizesOf(v)[i] = v[i].size
         /\ IsFiniteSet(1..Len(v))
<1>1. \A i \in 1..Len(v) : v[i] \in Vector
  BY ElementOfSeq
<1>2. \A i \in 1..Len(v) : v[i].size \in Sizes /\ v[i].id \in Ids
  BY <1>1 DEF Vector
<1>3. Sizes \subseteq Nat
  BY VectorAssumption
<1>4. Len(v) \in Nat
  OBVIOUS
<1>5. IsFiniteSet(1..Len(v))
  BY <1>4, FS_Interval
<1> QED BY <1>1, <1>2, <1>3, <1>4, <1>5 DEF SizesOf

\* The bytes of a partition as a sum over the places of its vectors.
LEMMA BytesIs ==
  ASSUME NEW p, p.vectors \in Seq(Vector)
  PROVE  Bytes(p) = SumFunctionOnSet(SizesOf(p.vectors), 1..Len(p.vectors)) /\ Bytes(p) \in Nat
<1>1. DOMAIN p.vectors = 1..Len(p.vectors)
  OBVIOUS
<1>2. Bytes(p) = SumFunction(SizesOf(p.vectors))
  BY <1>1, Zenon DEF Bytes, SizesOf
<1>3. DOMAIN SizesOf(p.vectors) = 1..Len(p.vectors)
  BY DEF SizesOf
<1>4. Bytes(p) = SumFunctionOnSet(SizesOf(p.vectors), 1..Len(p.vectors))
  BY <1>2, <1>3, Zenon DEF SumFunction
<1>5. SizesOf(p.vectors) \in [1..Len(p.vectors) -> Nat] /\ IsFiniteSet(1..Len(p.vectors))
  BY VectorSizes
<1>6. SumFunctionOnSet(SizesOf(p.vectors), 1..Len(p.vectors)) \in Nat
  BY <1>5, SumNat
<1> QED BY <1>4, <1>6

\* What a sound partition is, field by field.
LEMMA SoundIs ==
  ASSUME NEW p, Sound(p)
  PROVE  /\ p \in Partitions /\ p.vectors \in Seq(Vector) /\ Len(p.vectors) \in Nat
         /\ p.bytes = Bytes(p) /\ p.bytes \in Nat /\ p.last_used \in Nat
         /\ DOMAIN p.positions \in SUBSET Ids /\ p.positions \in [DOMAIN p.positions -> Nat]
         /\ \A id \in DOMAIN p.positions :
              p.positions[id] \in 1..Len(p.vectors) /\ p.vectors[p.positions[id]].id = id
         /\ \A i \in 1..Len(p.vectors) :
              p.vectors[i].id \in DOMAIN p.positions /\ p.positions[p.vectors[i].id] = i
         /\ \A i \in 1..Len(p.vectors) :
              p.vectors[i] \in Vector /\ p.vectors[i].size \in Sizes /\ p.vectors[i].id \in Ids
<1>1. p.vectors \in Seq(Vector)
  BY DEF Sound, Partitions
<1>2. DOMAIN p.positions \in SUBSET Ids /\ p.positions \in [DOMAIN p.positions -> Nat]
  <2>1. PICK S \in SUBSET Ids : p.positions \in [S -> Nat]
    BY DEF Sound, Partitions
  <2> QED BY <2>1
<1> QED BY <1>1, <1>2, VectorSizes DEF Sound, Linked, Partitions

\* Fields of the right types make a partition.
LEMMA NewPartition ==
  ASSUME NEW p, NEW v \in Seq(Vector), NEW S \in SUBSET Ids, NEW f \in [S -> Nat],
         NEW b \in Nat, NEW u \in Nat,
         p = [vectors |-> v, positions |-> f, bytes |-> b, last_used |-> u]
  PROVE  p \in Partitions
BY DEF Partitions

Stamped(p, tick) == [p EXCEPT !.last_used = tick]

\* Stamping a partition is no change of what it holds.
LEMMA StampedIs ==
  ASSUME NEW p, Sound(p), NEW tick \in Nat
  PROVE  /\ Sound(Stamped(p, tick)) /\ Stamped(p, tick).bytes = p.bytes
         /\ Stamped(p, tick).last_used = tick
         /\ \A id \in Ids : At(Stamped(p, tick), id) = At(p, id)
<1> DEFINE q == Stamped(p, tick)
<1>1. /\ q.vectors = p.vectors /\ q.positions = p.positions /\ q.bytes = p.bytes
      /\ q.last_used = tick /\ q \in Partitions
  BY DEF Sound, Partitions, Stamped
<1> HIDE DEF q
<1>2. Bytes(q) = Bytes(p)
  BY <1>1 DEF Bytes
<1>3. Sound(q) /\ \A id \in Ids : At(q, id) = At(p, id)
  BY <1>1, <1>2 DEF Sound, Linked, At
<1> QED BY <1>1, <1>3 DEF q

\* Partition::upsert of a known id.
LEMMA ReplacedIs ==
  ASSUME NEW p, Sound(p), NEW id \in DOMAIN p.positions, NEW size \in Sizes,
         NEW q, q = Upserted(p, id, size)
  PROVE  /\ Sound(q) /\ q.last_used = p.last_used
         /\ \A o \in Ids : At(q, o) = IF o = id THEN size ELSE At(p, o)
<1> DEFINE at == p.positions[id]
           v == p.vectors
           w == q.vectors
           n == Len(v)
<1>1. /\ p \in Partitions /\ v \in Seq(Vector) /\ n \in Nat /\ p.bytes = Bytes(p) /\ p.bytes \in Nat
      /\ at \in 1..n /\ v[at].id = id /\ v[at] \in Vector /\ id \in Ids
      /\ p.last_used \in Nat
  BY SoundIs
<1>2. q = [p EXCEPT !.vectors[at].size = size, !.bytes = @ + size - p.vectors[at].size]
  BY DEF Upserted
<1>3. /\ w = [v EXCEPT ![at].size = size]
      /\ q.positions = p.positions /\ q.last_used = p.last_used
      /\ q.bytes = p.bytes + size - v[at].size
      /\ DOMAIN q = DOMAIN p
  BY <1>1, <1>2 DEF Partitions
<1>4. /\ w \in Seq(Vector) /\ Len(w) = n
      /\ w[at].id = id /\ w[at].size = size
      /\ \A i \in 1..n : i # at => w[i] = v[i]
  <2>1. [v[at] EXCEPT !.size = size] \in Vector
    BY <1>1 DEF Vector
  <2>2. w = [v EXCEPT ![at] = [v[at] EXCEPT !.size = size]]
    BY <1>3
  <2>3. [v[at] EXCEPT !.size = size].id = id /\ [v[at] EXCEPT !.size = size].size = size
    BY <1>1 DEF Vector
  <2> QED BY <1>1, <2>1, <2>2, <2>3
<1>5. Bytes(q) = Bytes(p) - v[at].size + size
  <2> DEFINE D == 1..n
             f == SizesOf(v)
             g == SizesOf(w)
  <2>1. f \in [D -> Nat] /\ g \in [D -> Nat] /\ IsFiniteSet(D) /\ at \in D
    BY <1>1, <1>4, VectorSizes
  <2>2. f[at] = v[at].size /\ g[at] = size /\ \A y \in D \ {at} : g[y] = f[y]
    BY <1>1, <1>4 DEF SizesOf
  <2>3. Bytes(p) = SumFunctionOnSet(f, D) /\ Bytes(q) = SumFunctionOnSet(g, D)
    BY <1>1, <1>4, BytesIs
  <2> HIDE DEF D, f, g
  <2> QED BY <2>1, <2>2, <2>3, SumChanged
<1>6. Bytes(q) \in Nat /\ q.bytes = Bytes(q)
  <2>1. Bytes(q) \in Nat
    BY <1>4, BytesIs
  <2>2. size \in Nat /\ v[at].size \in Nat
    BY <1>1, VectorAssumption DEF Vector
  <2> QED BY <1>1, <1>3, <1>5, <2>1, <2>2
<1>7. q \in Partitions
  <2>1. q = [vectors |-> w, positions |-> p.positions, bytes |-> q.bytes, last_used |-> p.last_used]
    BY <1>1, <1>2, <1>3 DEF Partitions
  <2>2. p.positions \in UNION {[S -> Nat] : S \in SUBSET Ids}
    BY <1>1 DEF Partitions
  <2> QED BY <1>1, <1>4, <1>6, <2>1, <2>2 DEF Partitions
<1>8. Linked(q)
  <2>1. \A i \in 1..n : w[i].id = v[i].id
    BY <1>1, <1>4
  <2>2. /\ \A o \in DOMAIN p.positions : p.positions[o] \in 1..n /\ v[p.positions[o]].id = o
        /\ \A i \in 1..n : v[i].id \in DOMAIN p.positions /\ p.positions[v[i].id] = i
    BY SoundIs
  <2>3. q.positions = p.positions /\ Len(q.vectors) = n
    BY <1>3, <1>4
  <2> HIDE DEF v, w, n
  <2>4. /\ \A o \in DOMAIN p.positions : p.positions[o] \in 1..n /\ w[p.positions[o]].id = o
        /\ \A i \in 1..n : w[i].id \in DOMAIN p.positions /\ p.positions[w[i].id] = i
    BY <2>1, <2>2
  <2> QED BY <2>3, <2>4 DEF Linked, w
<1>9. ASSUME NEW o \in Ids PROVE At(q, o) = IF o = id THEN size ELSE At(p, o)
  <2>1. CASE o = id
    BY <1>3, <1>4, <2>1 DEF At
  <2>2. CASE o # id
    <3>1. o \in DOMAIN p.positions => p.positions[o] # at /\ p.positions[o] \in 1..n
      BY <1>1, <2>2, SoundIs
    <3> QED BY <1>3, <1>4, <2>2, <3>1 DEF At
  <2> QED BY <2>1, <2>2
<1> QED BY <1>3, <1>6, <1>7, <1>8, <1>9 DEF Sound

\* And of a new one.
LEMMA PushedIs ==
  ASSUME NEW p, Sound(p), NEW id \in Ids \ DOMAIN p.positions, NEW size \in Sizes,
         NEW q, q = Upserted(p, id, size)
  PROVE  /\ Sound(q) /\ q.last_used = p.last_used
         /\ \A o \in Ids : At(q, o) = IF o = id THEN size ELSE At(p, o)
<1> DEFINE v == p.vectors
           w == q.vectors
           n == Len(v)
           new == [id |-> id, size |-> size]
           S == DOMAIN p.positions
<1>1. /\ p \in Partitions /\ v \in Seq(Vector) /\ n \in Nat /\ p.bytes = Bytes(p) /\ p.bytes \in Nat
      /\ p.last_used \in Nat /\ S \in SUBSET Ids /\ p.positions \in [S -> Nat]
      /\ new \in Vector /\ size \in Nat
  BY SoundIs, VectorAssumption DEF Vector
<1>2. /\ w = Append(v, new) /\ q.last_used = p.last_used /\ q.bytes = p.bytes + size
      /\ q.positions = [i \in S \cup {id} |-> IF i = id THEN n + 1 ELSE p.positions[i]]
      /\ q = [vectors |-> w, positions |-> q.positions, bytes |-> q.bytes, last_used |-> p.last_used]
  BY <1>1 DEF Upserted, Partitions
<1>3. /\ w \in Seq(Vector) /\ Len(w) = n + 1
      /\ w[n + 1] = new /\ \A i \in 1..n : w[i] = v[i]
  BY <1>1, <1>2
<1>4. /\ DOMAIN q.positions = S \cup {id} /\ q.positions[id] = n + 1
      /\ \A o \in S : q.positions[o] = p.positions[o]
      /\ q.positions \in [S \cup {id} -> Nat] /\ S \cup {id} \in SUBSET Ids
  BY <1>1, <1>2
<1>5. Bytes(q) = Bytes(p) + size
  <2> DEFINE D == 1..n
             f == SizesOf(v)
             g == SizesOf(w)
  <2>1. f \in [D -> Nat] /\ g \in [D \cup {n + 1} -> Nat] /\ IsFiniteSet(D) /\ n + 1 \notin D
    <3>1. 1..n + 1 = D \cup {n + 1} /\ n + 1 \notin D
      BY <1>1
    <3> QED BY <1>1, <1>3, <3>1, VectorSizes
  <2>2. g[n + 1] = size /\ \A y \in D : g[y] = f[y]
    <3>1. n + 1 \in 1..Len(w) /\ \A y \in D : y \in 1..Len(w)
      BY <1>1, <1>3
    <3> QED BY <1>1, <1>3, <3>1 DEF SizesOf
  <2>3. Bytes(p) = SumFunctionOnSet(f, D) /\ Bytes(q) = SumFunctionOnSet(g, D \cup {n + 1})
    <3>1. 1..n + 1 = D \cup {n + 1}
      BY <1>1
    <3> QED BY <1>1, <1>3, <3>1, BytesIs
  <2> HIDE DEF D, f, g
  <2> QED BY <2>1, <2>2, <2>3, SumMore
<1> HIDE DEF new
<1>6. q \in Partitions
  <2>1. q.bytes \in Nat
    BY <1>1, <1>2
  <2> QED BY <1>1, <1>2, <1>3, <1>4, <2>1, NewPartition
<1>7. \A o \in S : p.positions[o] \in 1..n /\ v[p.positions[o]].id = o
  BY SoundIs
<1>8. \A i \in 1..n : v[i].id \in S /\ p.positions[v[i].id] = i
  BY SoundIs
<1>9. new.id = id /\ new.size = size
  BY DEF new
<1>10. Linked(q)
  <2>1. ASSUME NEW o \in DOMAIN q.positions
        PROVE  q.positions[o] \in 1..Len(w) /\ w[q.positions[o]].id = o
    BY <1>1, <1>3, <1>4, <1>7, <1>9
  <2>2. ASSUME NEW i \in 1..Len(w)
        PROVE  w[i].id \in DOMAIN q.positions /\ q.positions[w[i].id] = i
    <3>1. CASE i = n + 1
      BY <1>3, <1>4, <1>9, <3>1
    <3>2. CASE i \in 1..n
      BY <1>3, <1>4, <1>8, <3>2
    <3> QED BY <1>1, <1>3, <3>1, <3>2
  <2> QED BY <2>1, <2>2 DEF Linked
<1>11. ASSUME NEW o \in Ids PROVE At(q, o) = IF o = id THEN size ELSE At(p, o)
  <2>1. CASE o = id
    BY <1>3, <1>4, <1>9, <2>1 DEF At
  <2>2. CASE o # id
    BY <1>3, <1>4, <1>7, <2>2 DEF At
  <2> QED BY <2>1, <2>2
<1> QED BY <1>1, <1>2, <1>5, <1>6, <1>10, <1>11 DEF Sound

\* Partition::upsert with the stamp VectorIndex::upsert adds: one id gets its size.
LEMMA UpsertedIs ==
  ASSUME NEW p, Sound(p), NEW id \in Ids, NEW size \in Sizes, NEW tick \in Nat,
         NEW q, q = [Upserted(p, id, size) EXCEPT !.last_used = tick]
  PROVE  /\ Sound(q) /\ q.last_used = tick
         /\ \A o \in Ids : At(q, o) = IF o = id THEN size ELSE At(p, o)
<1> DEFINE r == Upserted(p, id, size)
<1>1. Sound(r) /\ \A o \in Ids : At(r, o) = IF o = id THEN size ELSE At(p, o)
  <2>1. CASE id \in DOMAIN p.positions
    BY <2>1, ReplacedIs
  <2>2. CASE id \notin DOMAIN p.positions
    BY <2>2, PushedIs
  <2> QED BY <2>1, <2>2
<1> HIDE DEF r
<1>2. q = Stamped(r, tick)
  BY DEF r, Stamped
<1>3. /\ Sound(Stamped(r, tick)) /\ Stamped(r, tick).bytes = r.bytes
      /\ Stamped(r, tick).last_used = tick
      /\ \A o \in Ids : At(Stamped(r, tick), o) = At(r, o)
  BY <1>1, StampedIs
<1> QED BY <1>1, <1>2, <1>3

\* Partition::remove: the bytes of the one removed go, and no other vector.
LEMMA RemovedIs ==
  ASSUME NEW p, Sound(p), NEW id \in DOMAIN p.positions, NEW q, q = Removed(p, id)
  PROVE  /\ Sound(q) /\ q.last_used = p.last_used /\ q.bytes <= p.bytes
         /\ \A o \in Ids : At(q, o) = IF o = id THEN 0 ELSE At(p, o)
<1> DEFINE at == p.positions[id]
           v == p.vectors
           n == Len(v)
           moved == v[n].id
           u == [v EXCEPT ![at] = v[n]]
           w == SubSeq(u, 1, n - 1)
           S == DOMAIN p.positions
           f == [i \in S \ {id} |-> IF i = moved THEN at ELSE p.positions[i]]
<1>1. /\ p \in Partitions /\ v \in Seq(Vector) /\ n \in Nat /\ p.bytes = Bytes(p) /\ p.bytes \in Nat
      /\ at \in 1..n /\ v[at].id = id /\ id \in Ids /\ n \in 1..n /\ n - 1 \in Nat
      /\ p.last_used \in Nat /\ S \in SUBSET Ids /\ p.positions \in [S -> Nat]
  BY SoundIs
<1>2. /\ \A o \in S : p.positions[o] \in 1..n /\ v[p.positions[o]].id = o
      /\ \A i \in 1..n : v[i].id \in S /\ p.positions[v[i].id] = i
      /\ \A i \in 1..n : v[i] \in Vector /\ v[i].size \in Nat
  BY SoundIs, VectorAssumption
<1>3. q = [vectors |-> w, positions |-> f, bytes |-> p.bytes - v[at].size, last_used |-> p.last_used]
  BY <1>1 DEF Removed, Partitions
<1>4. /\ w \in Seq(Vector) /\ Len(w) = n - 1
      /\ \A i \in 1..n - 1 : w[i] = IF i = at THEN v[n] ELSE v[i]
  <2>1. u \in Seq(Vector) /\ Len(u) = n /\ \A i \in 1..n : u[i] = IF i = at THEN v[n] ELSE v[i]
    BY <1>1, <1>2
  <2>2. \A i \in 1..n - 1 : i \in 1..n
    BY <1>1
  <2> HIDE DEF u, n
  <2>3. \A i \in 1..n - 1 : u[i] \in Vector
    BY <2>1, <2>2, ElementOfSeq
  <2>4. /\ w \in Seq(Vector) /\ Len(w) = IF 1 <= n - 1 THEN (n - 1) - 1 + 1 ELSE 0
        /\ \A i \in 1..(n - 1) - 1 + 1 : w[i] = u[1 + i - 1]
    BY <1>1, <2>1, <2>3, SubSeqProperties
  <2>5. Len(w) = n - 1 /\ \A i \in 1..n - 1 : w[i] = u[i]
    BY <1>1, <2>4
  <2> QED BY <2>1, <2>2, <2>4, <2>5
<1> HIDE DEF w, u
<1>5. /\ DOMAIN f = S \ {id} /\ f \in [S \ {id} -> Nat] /\ S \ {id} \in SUBSET Ids
      /\ \A o \in S \ {id} : f[o] = IF o = moved THEN at ELSE p.positions[o]
  BY <1>1
<1>6. Bytes([p EXCEPT !.vectors = w]) = Bytes(p) - v[at].size
  <2> DEFINE D == 1..n - 1
             F == SizesOf(v)
             G == SizesOf(w)
             E == [i \in D |-> v[i].size]
  <2>1. D \cup {n} = 1..n /\ n \notin D /\ IsFiniteSet(D) /\ at \in D \cup {n}
    <3>1. n \in Nat /\ n - 1 \in Nat /\ n \in 1..n /\ at \in 1..n
      BY <1>1
    <3>2. IsFiniteSet(D)
      <4>1. 1 \in Int /\ n - 1 \in Int
        BY <3>1
      <4> QED BY <4>1, FS_Interval
    <3> HIDE DEF n
    <3>3. D \cup {n} = 1..n /\ n \notin D
      BY <3>1
    <3> HIDE DEF D
    <3> QED BY <3>1, <3>2, <3>3
  <2>2. F \in [D \cup {n} -> Nat] /\ G \in [D -> Nat] /\ E \in [D -> Nat]
    BY <1>1, <1>2, <1>4, <2>1, VectorSizes
  <2>3. /\ (\A i \in D : F[i] = E[i]) /\ F[n] = v[n].size /\ F[at] = v[at].size
        /\ \A i \in D : G[i] = IF i = at THEN v[n].size ELSE E[i]
        /\ \A i \in D : E[i] = v[i].size
    BY <1>1, <1>4, <2>1 DEF SizesOf
  <2>4. Bytes(p) = SumFunctionOnSet(F, D \cup {n})
    BY <1>1, <2>1, BytesIs
  <2>5. Bytes([p EXCEPT !.vectors = w]) = SumFunctionOnSet(G, D)
    <3>1. [p EXCEPT !.vectors = w].vectors = w
      BY <1>1 DEF Partitions
    <3> QED BY <1>4, <3>1, BytesIs
  <2>6. v[n].size \in Nat /\ v[at].size \in Nat
    BY <1>1, <1>2
  <2> HIDE DEF D, F, G, E, n
  <2>7. SumFunctionOnSet(F, D \cup {n}) = SumFunctionOnSet(E, D) + F[n]
    BY <2>1, <2>2, <2>3, SumMore
  <2>8. SumFunctionOnSet(E, D) \in Nat
    BY <2>1, <2>2, SumNat
  <2>9. CASE at = n
    <3>1. SumFunctionOnSet(G, D) = SumFunctionOnSet(E, D)
      BY <2>1, <2>3, <2>9, SumSame
    <3>2. Bytes(p) = SumFunctionOnSet(E, D) + v[n].size
      BY <2>3, <2>4, <2>7
    <3>3. Bytes([p EXCEPT !.vectors = w]) = SumFunctionOnSet(E, D)
      BY <2>5, <3>1
    <3>4. v[at].size = v[n].size
      BY <2>9
    <3> QED BY <2>6, <2>8, <3>2, <3>3, <3>4
  <2>10. CASE at # n
    <3>1. SumFunctionOnSet(G, D) = SumFunctionOnSet(E, D) - E[at] + G[at]
      BY <2>1, <2>2, <2>3, <2>10, SumChanged
    <3>2. at \in D /\ E[at] = v[at].size /\ G[at] = v[n].size
      BY <2>1, <2>3, <2>10
    <3> QED BY <2>3, <2>4, <2>5, <2>6, <2>7, <2>8, <3>1, <3>2
  <2> QED BY <2>9, <2>10
<1>7. q.bytes = Bytes(q) /\ q.bytes \in Nat /\ q.bytes <= p.bytes /\ q.last_used = p.last_used
      /\ q.vectors = w /\ q.positions = f
  <2>1. q.bytes = p.bytes - v[at].size /\ q.vectors = w /\ q.last_used = p.last_used /\ q.positions = f
    BY <1>3
  <2>2. Bytes(q) = Bytes([p EXCEPT !.vectors = w])
    <3>1. [p EXCEPT !.vectors = w].vectors = w
      BY <1>1 DEF Partitions
    <3> QED BY <2>1, <3>1 DEF Bytes
  <2>3. Bytes(q) \in Nat
    BY <1>4, <2>1, BytesIs
  <2>4. v[at].size \in Nat
    BY <1>1, <1>2
  <2> QED BY <1>1, <1>6, <2>1, <2>2, <2>3, <2>4
<1> HIDE DEF f
<1>8. q \in Partitions
  <2>1. q = [vectors |-> w, positions |-> f, bytes |-> q.bytes, last_used |-> p.last_used]
    BY <1>3, <1>7
  <2> QED BY <1>1, <1>4, <1>5, <1>7, <2>1, NewPartition
<1>9. moved \in S /\ p.positions[moved] = n
  BY <1>1, <1>2
<1>10. ASSUME NEW o \in S \ {id}
       PROVE  f[o] \in 1..n - 1 /\ w[f[o]].id = o /\ w[f[o]].size = v[p.positions[o]].size
  <2>1. p.positions[o] \in 1..n /\ p.positions[o] # at /\ v[p.positions[o]].id = o
    BY <1>1, <1>2
  <2>2. CASE o = moved
    <3>1. at \in 1..n - 1 /\ f[o] = at /\ w[at] = v[n]
      BY <1>1, <1>4, <1>5, <1>9, <2>1, <2>2
    <3> QED BY <1>9, <2>2, <3>1
  <2>3. CASE o # moved
    <3>1. p.positions[o] # n
      BY <1>9, <2>1, <2>3
    <3>2. p.positions[o] \in 1..n - 1 /\ f[o] = p.positions[o]
      BY <1>1, <1>5, <2>1, <2>3, <3>1
    <3> QED BY <1>4, <2>1, <3>2
  <2> QED BY <2>2, <2>3
<1>11. ASSUME NEW i \in 1..n - 1
       PROVE  w[i].id \in S \ {id} /\ f[w[i].id] = i
  <2>1. i \in 1..n /\ i # n
    BY <1>1
  <2>2. CASE i = at
    <3>1. w[i].id = moved /\ moved # id
      BY <1>1, <1>4, <1>9, <2>1, <2>2
    <3> QED BY <1>5, <1>9, <2>2, <3>1
  <2>3. CASE i # at
    <3>1. w[i] = v[i] /\ v[i].id \in S /\ p.positions[v[i].id] = i
      BY <1>2, <1>4, <2>1, <2>3
    <3>2. v[i].id # id /\ v[i].id # moved
      BY <1>9, <2>1, <2>3, <3>1
    <3> QED BY <1>5, <3>1, <3>2
  <2> QED BY <2>2, <2>3
<1>12. Linked(q)
  BY <1>4, <1>5, <1>7, <1>10, <1>11 DEF Linked
<1>13. ASSUME NEW o \in Ids PROVE At(q, o) = IF o = id THEN 0 ELSE At(p, o)
  BY <1>5, <1>7, <1>10 DEF At
<1> QED BY <1>7, <1>8, <1>12, <1>13 DEF Sound

Lists(s, S) ==
  /\ Cardinality(S) \in Nat /\ IsFiniteSet(1..Cardinality(S))
  /\ s \in [1..Cardinality(S) -> S] /\ DOMAIN s = 1..Cardinality(S)
  /\ \A i, j \in 1..Cardinality(S) : s[i] = s[j] => i = j
  /\ \A x \in S : \E i \in 1..Cardinality(S) : s[i] = x

\* The orders of a finite set name each of its elements at one place.
LEMMA OrderIs ==
  ASSUME NEW S, IsFiniteSet(S), NEW s \in Orders(S)
  PROVE  Lists(s, S)
<1> DEFINE D == 1..Cardinality(S)
<1>1. Cardinality(S) \in Nat
  BY FS_CardinalityType
<1>2. IsFiniteSet(D) /\ Cardinality(D) = Cardinality(S)
  <2>1. 1 \in Int /\ Cardinality(S) \in Int
    BY <1>1
  <2>2. IsFiniteSet(D) /\ Cardinality(D) = IF 1 > Cardinality(S) THEN 0 ELSE Cardinality(S) - 1 + 1
    BY <2>1, FS_Interval
  <2> QED BY <1>1, <2>2
<1>3. s \in [D -> S] /\ DOMAIN s = D /\ \A i, j \in D : s[i] = s[j] => i = j
  BY DEF Orders
<1> HIDE DEF D
<1>4. s \in Injection(D, S)
  BY <1>3 DEF Injection, IsInjective
<1>5. s \in Surjection(D, S)
  BY <1>2, <1>4, FS_Injection
<1>6. \A x \in S : \E i \in D : s[i] = x
  BY <1>5 DEF Surjection
<1> QED BY <1>1, <1>2, <1>3, <1>6 DEF D, Lists

\* The partition hydrate_partition builds holds every row it was given, once.
LEMMA BuiltIs ==
  ASSUME IsFiniteSet(Ids), clock \in Nat, NEW sizes \in [Ids -> Sizes \cup {0}],
         NEW S, S = {id \in Ids : sizes[id] > 0}, NEW order \in Orders(S),
         NEW q, q = Built(order, sizes)
  PROVE  /\ Sound(q) /\ q.last_used = clock
         /\ \A id \in Ids : At(q, id) = sizes[id]
<1> DEFINE n == Cardinality(S)
           v == q.vectors
           f == q.positions
<1>0. S \in SUBSET Ids /\ IsFiniteSet(S)
  <2>1. S \in SUBSET Ids
    OBVIOUS
  <2> QED BY <2>1, FS_Subset
<1>1. /\ n \in Nat /\ IsFiniteSet(1..n) /\ order \in [1..n -> S] /\ DOMAIN order = 1..n
      /\ \A i, j \in 1..n : order[i] = order[j] => i = j
      /\ \A x \in S : \E i \in 1..n : order[i] = x
  <2>1. Lists(order, S)
    BY <1>0, OrderIs
  <2> QED BY <2>1 DEF Lists
<1>2. Range(order) = S
  BY <1>1 DEF Range
<1>3. /\ v = [i \in 1..n |-> [id |-> order[i], size |-> sizes[order[i]]]]
      /\ f = [id \in S |-> CHOOSE i \in 1..n : order[i] = id]
      /\ q.bytes = SumFunctionOnSet(sizes, S) /\ q.last_used = clock
      /\ q = [vectors |-> v, positions |-> f, bytes |-> q.bytes, last_used |-> clock]
  BY <1>1, <1>2 DEF Built
<1>4. ASSUME NEW id \in S
      PROVE  f[id] \in 1..n /\ order[f[id]] = id
  <2>1. f[id] = CHOOSE i \in 1..n : order[i] = id
    BY <1>3
  <2>2. \E i \in 1..n : order[i] = id
    BY <1>1
  <2> HIDE DEF f, n
  <2> QED BY <2>1, <2>2
<1>5. ASSUME NEW i \in 1..n
      PROVE  /\ v[i] = [id |-> order[i], size |-> sizes[order[i]]]
             /\ v[i].id = order[i] /\ v[i].size = sizes[order[i]] /\ order[i] \in S
             /\ v[i] \in Vector
  <2>1. order[i] \in S /\ sizes[order[i]] \in Sizes
    BY <1>0, <1>1
  <2>2. v[i] = [id |-> order[i], size |-> sizes[order[i]]]
    BY <1>3
  <2> HIDE DEF v
  <2>3. v[i] \in Vector
    BY <1>0, <2>1, <2>2 DEF Vector
  <2> QED BY <2>1, <2>2, <2>3
<1>6. v \in Seq(Vector) /\ Len(v) = n
  <2>1. v = [i \in 1..n |-> v[i]]
    BY <1>3
  <2> HIDE DEF v, n
  <2> QED BY <1>1, <1>5, <2>1
<1>7. f \in [S -> Nat] /\ DOMAIN f = S
  <2>1. f = [id \in S |-> f[id]]
    BY <1>3
  <2>2. \A id \in S : f[id] \in Nat
    BY <1>1, <1>4
  <2> HIDE DEF f
  <2> QED BY <2>1, <2>2
<1> HIDE DEF n, v, f
<1>8. \A id \in S : f[id] \in 1..n /\ order[f[id]] = id
  BY <1>4
<1>9. \A i \in 1..n : /\ v[i].id = order[i] /\ v[i].size = sizes[order[i]] /\ order[i] \in S
  BY <1>5
<1>10. q.vectors = v /\ q.positions = f
  BY DEF v, f
<1>11. q.bytes = Bytes(q) /\ q.bytes \in Nat
  <2> DEFINE D == 1..n
             G == SizesOf(v)
  <2>1. /\ Bytes(q) = SumFunctionOnSet(SizesOf(q.vectors), 1..Len(q.vectors))
        /\ Bytes(q) \in Nat
    BY <1>6, <1>10, BytesIs
  <2>2. Bytes(q) = SumFunctionOnSet(G, D)
    BY <1>6, <1>10, <2>1
  <2>3. sizes \in [Ids -> Int] /\ \A i \in D : order[i] \in Ids /\ G[i] = sizes[order[i]]
    <3>1. Sizes \cup {0} \subseteq Int
      BY VectorAssumption
    <3>2. sizes \in [Ids -> Int]
      BY <3>1
    <3>3. ASSUME NEW i \in D PROVE order[i] \in Ids /\ G[i] = sizes[order[i]]
      BY <1>0, <1>6, <1>9 DEF SizesOf
    <3> QED BY <3>2, <3>3
  <2>4. {order[i] : i \in D} = S
    BY <1>1 DEF n
  <2>5. IsFiniteSet(D) /\ \A i, j \in D : order[i] = order[j] => i = j
    BY <1>1 DEF n
  <2> HIDE DEF D, G
  <2>6. SumFunctionOnSet(G, D) = SumFunctionOnSet(sizes, {order[i] : i \in D})
    BY <2>3, <2>5, SumThrough
  <2> QED BY <1>3, <2>1, <2>2, <2>4, <2>6
<1>12. q \in Partitions
  BY <1>0, <1>3, <1>6, <1>7, <1>11, NewPartition
<1>13. Linked(q)
  <2>1. ASSUME NEW id \in DOMAIN f PROVE f[id] \in 1..Len(v) /\ v[f[id]].id = id
    BY <1>6, <1>7, <1>8, <1>9
  <2>2. ASSUME NEW i \in 1..Len(v) PROVE v[i].id \in DOMAIN f /\ f[v[i].id] = i
    <3>1. order[i] \in S /\ v[i].id = order[i] /\ i \in 1..n
      BY <1>6, <1>9
    <3>2. f[order[i]] \in 1..n /\ order[f[order[i]]] = order[i]
      BY <1>8, <3>1
    <3>3. f[order[i]] = i
      BY <1>1, <3>1, <3>2 DEF n
    <3> QED BY <1>7, <3>1, <3>3
  <2> QED BY <1>10, <2>1, <2>2 DEF Linked
<1>14. ASSUME NEW id \in Ids PROVE At(q, id) = sizes[id]
  <2>1. CASE id \in S
    BY <1>7, <1>8, <1>9, <1>10, <2>1 DEF At
  <2>2. CASE id \notin S
    <3>1. sizes[id] \in Nat /\ ~(sizes[id] > 0)
      <4>1. sizes[id] \in Sizes \cup {0} /\ Sizes \subseteq Nat
        BY VectorAssumption
      <4>2. ~(sizes[id] > 0)
        BY <2>2
      <4>3. sizes[id] \in Nat
        <5>1. Sizes \cup {0} \subseteq Nat
          BY <4>1
        <5> QED BY <4>1, <5>1, Zenon
      <4> QED BY <4>2, <4>3
    <3>2. At(q, id) = 0
      BY <1>7, <1>10, <2>2 DEF At
    <3> QED BY <3>1, <3>2
  <2> QED BY <2>1, <2>2
<1> QED BY <1>3, <1>11, <1>12, <1>13, <1>14 DEF Sound

-----------------------------------------------------------------------------
(***************************************************************************)
(* The inductive invariant. Types: what is held, built or written; the     *)
(* bytes used are those held.                                              *)
(***************************************************************************)
Works ==
  [at : {"write"}, part : Parts, write : Writes]
    \cup [at : {"build"}, part : Parts, late : BOOLEAN, made : Partitions]

Rooms == [caller : Callers, keep : Parts, extra : Nat, gone : SUBSET Nat]

HeldBytes(h) == [k \in DOMAIN h |-> h[k].bytes]
SumHeld(h) == SumFunctionOnSet(HeldBytes(h), DOMAIN h)

HeldTypes ==
  /\ DOMAIN held \in SUBSET Parts /\ IsFiniteSet(DOMAIN held)
  /\ \A k \in DOMAIN held : Sound(held[k])
  /\ used = SumHeld(held)

WorkTypes ==
  /\ doing \in [Callers -> Works \cup {Idle}]
  /\ \A c \in Callers : doing[c].at = "build" => Sound(doing[c].made)

OtherTypes ==
  /\ total \in [Parts -> Nat] /\ evicted \in SUBSET Parts
  /\ clock \in 1..MaxTick /\ changes \in 0..MaxChanges
  /\ rows \in [Parts -> [Ids -> Sizes \cup {0}]]
  /\ behind \in SUBSET DOMAIN held
  /\ room \in Rooms \cup {Free}

\* Room is made for a partition that is built and not held, or was just grown.
RoomFits ==
  ~Unlocked =>
    LET d == doing[room.caller]
    IN  /\ d.at \in {"build", "write"} /\ d.part = room.keep
        /\ d.at = "build" => /\ room.keep \notin DOMAIN held
                             /\ room.extra = d.made.bytes /\ d.made.bytes <= Limit
        /\ d.at = "write" => /\ d.write.op = "upsert" /\ room.extra = 0
                             /\ room.keep \in DOMAIN held
                             /\ At(held[room.keep], d.write.id) = d.write.size

\* One partition alone may be past the budget when nobody makes room.
OnlyOneTooLarge == Unlocked /\ used > Limit => \A k, o \in DOMAIN held : k = o

\* What the owner's change in flight is about, and what it left in the rows.
Touches(w, id) == w.op = "drop" \/ w.id = id

OneWriter ==
  \A c, e \in Callers :
    doing[c].at = "write" /\ doing[e].at = "write" /\ doing[c].part = doing[e].part => c = e

Committed ==
  \A c \in Callers : doing[c].at = "write" =>
    \A id \in Ids : Touches(doing[c].write, id) =>
      rows[doing[c].part][id] = IF doing[c].write.op = "upsert" THEN doing[c].write.size ELSE 0

\* A hydration not overtaken has built the rows as they are.
BuiltOfRows ==
  \A c \in Callers : doing[c].at = "build" /\ ~doing[c].late =>
    \A id \in Ids : At(doing[c].made, id) = rows[doing[c].part][id]

\* A partition is the rows, but for what a change in flight is about.
Follows(k) ==
  \A id \in Ids :
    (\A c \in Callers : doing[c].at = "write" /\ doing[c].part = k => ~Touches(doing[c].write, id))
      => At(held[k], id) = rows[k][id]

HeldFollows == \A k \in DOMAIN held \ behind : Follows(k)

IndexInv ==
  /\ HeldTypes /\ WorkTypes /\ OtherTypes /\ RoomFits /\ OnlyOneTooLarge
  /\ OneWriter /\ Committed /\ BuiltOfRows /\ HeldFollows

\* What the bytes of the partitions held sum up to.
LEMMA HeldSum ==
  ASSUME NEW h, IsFiniteSet(DOMAIN h), \A k \in DOMAIN h : Sound(h[k])
  PROVE  /\ HeldBytes(h) \in [DOMAIN h -> Nat] /\ SumHeld(h) \in Nat
         /\ \A k \in DOMAIN h : HeldBytes(h)[k] = h[k].bytes
<1>1. \A k \in DOMAIN h : h[k].bytes \in Nat
  BY SoundIs
<1>2. HeldBytes(h) \in [DOMAIN h -> Nat] /\ \A k \in DOMAIN h : HeldBytes(h)[k] = h[k].bytes
  BY <1>1 DEF HeldBytes
<1> QED BY <1>2, SumNat DEF SumHeld

\* One goes, with its bytes.
LEMMA HeldLess ==
  ASSUME HeldTypes, NEW k, NEW h, h = Without(held, k)
  PROVE  /\ DOMAIN h = DOMAIN held \ {k} /\ DOMAIN h \in SUBSET Parts /\ IsFiniteSet(DOMAIN h)
         /\ \A o \in DOMAIN h : h[o] = held[o] /\ Sound(h[o])
         /\ SumHeld(h) = used - (IF k \in DOMAIN held THEN held[k].bytes ELSE 0)
         /\ SumHeld(h) \in Nat /\ used \in Nat /\ SumHeld(h) <= used
<1>1. /\ DOMAIN h = DOMAIN held \ {k} /\ DOMAIN h \in SUBSET Parts /\ IsFiniteSet(DOMAIN h)
      /\ \A o \in DOMAIN h : h[o] = held[o] /\ Sound(h[o])
      /\ used = SumHeld(held) /\ IsFiniteSet(DOMAIN held) /\ \A o \in DOMAIN held : Sound(held[o])
  <2>1. DOMAIN h = DOMAIN held \ {k} /\ \A o \in DOMAIN held \ {k} : h[o] = held[o]
    BY WithoutOne
  <2>2. IsFiniteSet(DOMAIN held) /\ DOMAIN h \in SUBSET DOMAIN held
    BY <2>1 DEF HeldTypes
  <2>3. IsFiniteSet(DOMAIN h)
    BY <2>2, FS_Subset
  <2> QED BY <2>1, <2>2, <2>3 DEF HeldTypes
<1> DEFINE f == HeldBytes(held)
           g == HeldBytes(h)
<1>2. /\ f \in [DOMAIN held -> Nat] /\ SumHeld(held) \in Nat
      /\ \A o \in DOMAIN held : f[o] = held[o].bytes
  BY <1>1, HeldSum
<1>3. /\ g \in [DOMAIN h -> Nat] /\ SumHeld(h) \in Nat
      /\ \A o \in DOMAIN h : g[o] = h[o].bytes
  BY <1>1, HeldSum
<1>4. SumHeld(held) = SumFunctionOnSet(f, DOMAIN held) /\ SumHeld(h) = SumFunctionOnSet(g, DOMAIN h)
  BY DEF SumHeld
<1> HIDE DEF f, g
<1>5. SumFunctionOnSet(g, DOMAIN h) = SumFunctionOnSet(f, DOMAIN h)
  <2>1. \A o \in DOMAIN h : g[o] = f[o]
    BY <1>1, <1>2, <1>3
  <2> QED BY <1>1, <2>1, SumSame
<1>6. CASE k \in DOMAIN held
  <2>1. SumFunctionOnSet(f, DOMAIN held) = f[k] + SumFunctionOnSet(f, DOMAIN held \ {k})
    BY <1>1, <1>2, <1>6, SumPart
  <2>2. f[k] = held[k].bytes /\ f[k] \in Nat
    BY <1>2, <1>6
  <2>3. SumHeld(h) = used - held[k].bytes /\ SumHeld(h) <= used
    BY <1>1, <1>2, <1>3, <1>4, <1>5, <2>1, <2>2
  <2> QED BY <1>1, <1>2, <1>3, <1>6, <2>3
<1>7. CASE k \notin DOMAIN held
  <2>1. DOMAIN h = DOMAIN held
    BY <1>1, <1>7
  <2>2. SumHeld(h) = used
    BY <1>1, <1>4, <1>5, <2>1
  <2> QED BY <1>1, <1>2, <1>3, <1>7, <2>2
<1> QED BY <1>6, <1>7

\* One comes.
LEMMA HeldMore ==
  ASSUME HeldTypes, NEW k \in Parts \ DOMAIN held, NEW p, Sound(p), NEW h, h = Put(held, k, p)
  PROVE  /\ DOMAIN h = DOMAIN held \cup {k} /\ DOMAIN h \in SUBSET Parts /\ IsFiniteSet(DOMAIN h)
         /\ h[k] = p /\ \A o \in DOMAIN held : h[o] = held[o]
         /\ \A o \in DOMAIN h : Sound(h[o])
         /\ SumHeld(h) = used + p.bytes
<1>1. /\ DOMAIN h = DOMAIN held \cup {k} /\ DOMAIN h \in SUBSET Parts /\ IsFiniteSet(DOMAIN h)
      /\ h[k] = p /\ \A o \in DOMAIN held : h[o] = held[o]
      /\ \A o \in DOMAIN h : Sound(h[o])
      /\ used = SumHeld(held) /\ IsFiniteSet(DOMAIN held) /\ \A o \in DOMAIN held : Sound(held[o])
  <2>1. DOMAIN h = DOMAIN held \cup {k} /\ h[k] = p /\ \A o \in DOMAIN held : h[o] = held[o]
    BY DEF Put
  <2>2. IsFiniteSet(DOMAIN held) /\ DOMAIN held \in SUBSET Parts
    BY DEF HeldTypes
  <2>3. IsFiniteSet(DOMAIN h)
    BY <2>1, <2>2, FS_AddElement
  <2> QED BY <2>1, <2>2, <2>3 DEF HeldTypes
<1> DEFINE f == HeldBytes(held)
           g == HeldBytes(h)
<1>2. f \in [DOMAIN held -> Nat] /\ \A o \in DOMAIN held : f[o] = held[o].bytes
  BY <1>1, HeldSum
<1>3. g \in [DOMAIN h -> Nat] /\ \A o \in DOMAIN h : g[o] = h[o].bytes
  BY <1>1, HeldSum
<1>4. SumHeld(held) = SumFunctionOnSet(f, DOMAIN held) /\ SumHeld(h) = SumFunctionOnSet(g, DOMAIN h)
  BY DEF SumHeld
<1> HIDE DEF f, g
<1>5. SumFunctionOnSet(g, DOMAIN held \cup {k}) = SumFunctionOnSet(f, DOMAIN held) + g[k]
  <2>1. k \notin DOMAIN held /\ g \in [DOMAIN held \cup {k} -> Nat] /\ \A o \in DOMAIN held : g[o] = f[o]
    BY <1>1, <1>2, <1>3
  <2> QED BY <1>1, <1>2, <2>1, SumMore
<1>6. g[k] = p.bytes
  BY <1>1, <1>3
<1>7. SumHeld(h) = used + p.bytes
  BY <1>1, <1>4, <1>5, <1>6
<1> QED BY <1>1, <1>7

\* One becomes another.
LEMMA HeldOther ==
  ASSUME HeldTypes, NEW k \in DOMAIN held, NEW p, Sound(p), NEW h, h = [held EXCEPT ![k] = p]
  PROVE  /\ DOMAIN h = DOMAIN held /\ h[k] = p /\ \A o \in DOMAIN held \ {k} : h[o] = held[o]
         /\ \A o \in DOMAIN h : Sound(h[o])
         /\ SumHeld(h) = used - held[k].bytes + p.bytes /\ SumHeld(h) \in Nat /\ used \in Nat
<1>1. /\ DOMAIN h = DOMAIN held /\ h[k] = p /\ \A o \in DOMAIN held \ {k} : h[o] = held[o]
      /\ \A o \in DOMAIN h : Sound(h[o])
      /\ used = SumHeld(held) /\ IsFiniteSet(DOMAIN held) /\ \A o \in DOMAIN held : Sound(held[o])
  BY DEF HeldTypes
<1> DEFINE f == HeldBytes(held)
           g == HeldBytes(h)
           D == DOMAIN held
<1>2. f \in [D -> Nat] /\ SumHeld(held) \in Nat /\ \A o \in D : f[o] = held[o].bytes
  BY <1>1, HeldSum
<1>3. g \in [DOMAIN h -> Nat] /\ SumHeld(h) \in Nat /\ \A o \in DOMAIN h : g[o] = h[o].bytes
  BY <1>1, HeldSum
<1>4. SumHeld(held) = SumFunctionOnSet(f, D) /\ SumHeld(h) = SumFunctionOnSet(g, DOMAIN h)
  BY DEF SumHeld
<1> HIDE DEF f, g
<1>5. SumFunctionOnSet(g, D) = SumFunctionOnSet(f, D) - f[k] + g[k]
  <2>1. IsFiniteSet(D) /\ k \in D /\ g \in [D -> Nat] /\ f \in [D -> Nat] /\ \A o \in D \ {k} : g[o] = f[o]
    BY <1>1, <1>2, <1>3
  <2> HIDE DEF D
  <2> QED BY <2>1, SumChanged
<1>6. g[k] = p.bytes /\ f[k] = held[k].bytes
  BY <1>1, <1>2, <1>3
<1>7. SumHeld(h) = used - held[k].bytes + p.bytes
  BY <1>1, <1>4, <1>5, <1>6
<1> QED BY <1>1, <1>2, <1>3, <1>7

\* What a caller has in flight, field by field.
LEMMA WorkIs ==
  ASSUME WorkTypes, NEW c \in Callers, doing[c].at # "idle"
  PROVE  /\ doing[c].at \in {"write", "build"} /\ doing[c].part \in Parts
         /\ doing[c].at = "write" => doing[c].write \in Writes
         /\ doing[c].at = "build" => /\ doing[c].late \in BOOLEAN /\ doing[c].made \in Partitions
                                     /\ Sound(doing[c].made)
<1>1. doing[c] \in Works
  BY DEF WorkTypes, Idle
<1>2. CASE doing[c] \in [at : {"write"}, part : Parts, write : Writes]
  BY <1>2
<1>3. CASE doing[c] \in [at : {"build"}, part : Parts, late : BOOLEAN, made : Partitions]
  BY <1>3 DEF WorkTypes
<1> QED BY <1>1, <1>2, <1>3 DEF Works

\* What a change told consists of.
LEMMA WriteIs ==
  ASSUME NEW w \in Writes
  PROVE  /\ w.op \in {"upsert", "remove", "drop"}
         /\ w.op # "drop" => w.id \in Ids
         /\ w.op = "upsert" => w.size \in Sizes
BY DEF Writes

\* An idle caller is at no call.
LEMMA IdleIs == Idle.at = "idle"
BY DEF Idle

\* A caller's call returns, the rows as they are.
LEMMA CallerEnds ==
  ASSUME IndexInv, NEW c \in Callers, doing' = [doing EXCEPT ![c] = Idle], rows' = rows
  PROVE  /\ WorkTypes' /\ OneWriter' /\ Committed' /\ BuiltOfRows'
         /\ doing'[c].at = "idle" /\ \A e \in Callers \ {c} : doing'[e] = doing[e]
<1>1. /\ doing \in [Callers -> Works \cup {Idle}]
      /\ \A e \in Callers : doing[e].at = "build" => Sound(doing[e].made)
  BY DEF IndexInv, WorkTypes
<1>2. /\ doing' \in [Callers -> Works \cup {Idle}] /\ doing'[c].at = "idle"
      /\ \A e \in Callers \ {c} : doing'[e] = doing[e]
  BY <1>1, IdleIs
<1>3. WorkTypes'
  <2>1. ASSUME NEW e \in Callers, doing'[e].at = "build" PROVE Sound(doing'[e].made)
    BY <1>1, <1>2, <2>1
  <2> QED BY <1>2, <2>1 DEF WorkTypes, Works, Rooms, Sound, Linked, Bytes, Partitions, Writes
<1>4. OneWriter'
  BY <1>2 DEF IndexInv, OneWriter
<1>5. Committed'
  BY <1>2 DEF IndexInv, Committed, Touches
<1>6. BuiltOfRows'
  BY <1>2 DEF IndexInv, BuiltOfRows, At
<1> QED BY <1>2, <1>3, <1>4, <1>5, <1>6

\* A partition follows the rows through a step that changes neither.
LEMMA FollowsStill ==
  ASSUME NEW k, Follows(k), rows'[k] = rows[k],
         \A id \in Ids : At(held'[k], id) = At(held[k], id),
         \A e \in Callers : doing[e].at = "write" /\ doing[e].part = k =>
           doing'[e].at = "write" /\ doing'[e].part = k /\ doing'[e].write = doing[e].write
  PROVE  Follows(k)'
<1>1. ASSUME NEW id \in Ids,
             \A e \in Callers : doing'[e].at = "write" /\ doing'[e].part = k => ~Touches(doing'[e].write, id)
      PROVE  At(held'[k], id) = rows'[k][id]
  <2>1. ASSUME NEW e \in Callers, doing[e].at = "write" /\ doing[e].part = k
        PROVE  ~Touches(doing[e].write, id)
    BY <1>1, <2>1
  <2> QED BY <2>1 DEF Follows
<1>2. \A id \in Ids :
        (\A e \in Callers : doing'[e].at = "write" /\ doing'[e].part = k => ~Touches(doing'[e].write, id))
          => At(held'[k], id) = rows'[k][id]
  BY <1>1
<1> QED BY <1>2 DEF Follows, At, Touches

\* Nothing but the work of the callers changes.
LEMMA IndexAsWas ==
  ASSUME IndexInv, UNCHANGED <<held, used, total, evicted, room>>
  PROVE  HeldTypes' /\ (clock' \in 1..MaxTick /\ changes' \in 0..MaxChanges
           /\ rows' \in [Parts -> [Ids -> Sizes \cup {0}]] /\ behind' = behind => OtherTypes')
         /\ OnlyOneTooLarge'
BY DEF IndexInv, HeldTypes, OtherTypes, OnlyOneTooLarge, Unlocked, SumHeld, HeldBytes,
       Sound, Linked, Bytes, Rooms, Partitions

\* A change of a partition that is not held changes nothing in the index.
LEMMA NotHeldKeeps ==
  ASSUME IndexInv, NEW c \in Callers, NotHeld(c)
  PROVE  IndexInv'
<1> DEFINE k == doing[c].part
           w == doing[c].write
<1>1. /\ Unlocked /\ doing[c].at = "write" /\ w.op \in {"upsert", "remove"}
      /\ k \in DOMAIN held => w.op = "remove" /\ w.id \notin DOMAIN held[k].positions
      /\ doing' = [doing EXCEPT ![c] = Idle]
      /\ UNCHANGED <<held, used, total, evicted, room, clock, rows, behind, changes>>
  BY DEF NotHeld, Telling, index
<1>2. /\ WorkTypes' /\ OneWriter' /\ Committed' /\ BuiltOfRows'
      /\ doing'[c].at = "idle" /\ \A e \in Callers \ {c} : doing'[e] = doing[e]
  BY <1>1, CallerEnds
<1>3. HeldTypes' /\ OtherTypes' /\ OnlyOneTooLarge'
  BY <1>1, IndexAsWas DEF IndexInv, OtherTypes
<1>4. RoomFits'
  BY <1>1 DEF RoomFits, Unlocked
<1>5. ASSUME NEW o \in DOMAIN held' \ behind'
      PROVE  Follows(o)'
  <2>1. o \in DOMAIN held \ behind /\ Follows(o)
    BY <1>1, <1>5 DEF IndexInv, HeldFollows
  <2>2. CASE o # k
    <3>1. \A e \in Callers : doing[e].at = "write" /\ doing[e].part = o =>
            doing'[e].at = "write" /\ doing'[e].part = o /\ doing'[e].write = doing[e].write
      BY <1>2, <2>2
    <3> QED BY <1>1, <2>1, <3>1, FollowsStill
  <2>3. CASE o = k
    <3>1. ASSUME NEW id \in Ids
          PROVE  At(held'[o], id) = rows'[o][id]
      <4>1. CASE id = w.id
        <5>1. At(held[o], id) = 0
          BY <1>1, <2>1, <2>3, <4>1 DEF At
        <5>2. rows[o][id] = 0
          BY <1>1, <2>1, <2>3, <4>1 DEF IndexInv, Committed, Touches
        <5> QED BY <1>1, <5>1, <5>2
      <4>2. CASE id # w.id
        <5>1. ASSUME NEW e \in Callers, doing[e].at = "write" /\ doing[e].part = o
              PROVE  ~Touches(doing[e].write, id)
          <6>1. e = c
            BY <1>1, <2>3, <5>1 DEF IndexInv, OneWriter
          <6> QED BY <1>1, <4>2, <6>1 DEF Touches
        <5> QED BY <1>1, <2>1, <5>1 DEF Follows
      <4> QED BY <4>1, <4>2
    <3> QED BY <3>1 DEF Follows, At, Touches
  <2> QED BY <2>2, <2>3
<1> QED BY <1>2, <1>3, <1>4, <1>5 DEF IndexInv, HeldFollows, Follows, At, Touches

\* What the callers have in flight stays as it was.
LEMMA WorkAsWas ==
  ASSUME IndexInv, doing' = doing, rows' = rows
  PROVE  WorkTypes' /\ OneWriter' /\ Committed' /\ BuiltOfRows'
<1>1. WorkTypes'
  BY DEF IndexInv, WorkTypes, Works, Sound, Linked, Bytes, Partitions, Writes
<1>2. OneWriter'
  BY DEF IndexInv, OneWriter
<1>3. Committed'
  BY DEF IndexInv, Committed, Touches
<1>4. BuiltOfRows'
  BY DEF IndexInv, BuiltOfRows, At
<1> QED BY <1>1, <1>2, <1>3, <1>4

\* The bytes of a partition that goes are given back.
LEMMA ReplacingIs ==
  ASSUME HeldTypes, NEW k, Replacing(k)
  PROVE  /\ HeldTypes' /\ DOMAIN held' = DOMAIN held \ {k}
         /\ \A o \in DOMAIN held' : held'[o] = held[o]
         /\ used' <= used /\ used \in Nat /\ used' \in Nat
<1>1. held' = Without(held, k) /\ used' = used - (IF k \in DOMAIN held THEN held[k].bytes ELSE 0)
  BY DEF Replacing
<1>2. /\ DOMAIN held' = DOMAIN held \ {k} /\ DOMAIN held' \in SUBSET Parts /\ IsFiniteSet(DOMAIN held')
      /\ \A o \in DOMAIN held' : held'[o] = held[o] /\ Sound(held'[o])
      /\ SumHeld(held') = used - (IF k \in DOMAIN held THEN held[k].bytes ELSE 0)
      /\ SumHeld(held') \in Nat /\ used \in Nat /\ SumHeld(held') <= used
  BY <1>1, HeldLess
<1>3. used' = SumHeld(held')
  BY <1>1, <1>2
<1>4. HeldTypes'
  BY <1>2, <1>3 DEF HeldTypes, Sound, SumHeld, HeldBytes, Linked, Bytes, Partitions
<1> QED BY <1>2, <1>3, <1>4

\* The other partitions follow the rows as they did.
LEMMA OthersFollow ==
  ASSUME IndexInv, NEW k, rows' = rows,
         \A o \in DOMAIN held' \ {k} : o \in DOMAIN held /\ held'[o] = held[o],
         behind \ {k} \subseteq behind',
         \A e \in Callers : doing[e].at = "write" /\ doing[e].part # k =>
           doing'[e].at = "write" /\ doing'[e].part = doing[e].part /\ doing'[e].write = doing[e].write,
         k \in DOMAIN held' \ behind' => Follows(k)'
  PROVE  HeldFollows'
<1>1. ASSUME NEW o \in DOMAIN held' \ behind'
      PROVE  Follows(o)'
  <2>1. CASE o # k
    <3>1. Follows(o) /\ held'[o] = held[o]
      BY <2>1 DEF IndexInv, HeldFollows
    <3>2. \A e \in Callers : doing[e].at = "write" /\ doing[e].part = o =>
            doing'[e].at = "write" /\ doing'[e].part = o /\ doing'[e].write = doing[e].write
      BY <2>1
    <3> QED BY <3>1, <3>2, FollowsStill
  <2>2. CASE o = k
    <3>1. k \in DOMAIN held' \ behind'
      BY <2>2
    <3>2. Follows(k)'
      BY <3>1
    <3> QED BY <2>2, <3>2 DEF Follows, At, Touches
  <2> QED BY <2>1, <2>2
<1> QED BY <1>1 DEF HeldFollows, Follows, At, Touches

\* drop_partition gives back the bytes of the one it drops.
LEMMA DropKeeps ==
  ASSUME IndexInv, NEW c \in Callers, DropPartition(c)
  PROVE  IndexInv'
<1> DEFINE k == doing[c].part
<1>1. /\ Unlocked /\ doing[c].at = "write" /\ Replacing(k)
      /\ total' = [total EXCEPT ![k] = 0] /\ evicted' = evicted \ {k} /\ behind' = behind \ {k}
      /\ doing' = [doing EXCEPT ![c] = Idle]
      /\ UNCHANGED <<clock, room, rows, changes>>
  BY DEF DropPartition, Telling
<1>2. /\ WorkTypes' /\ OneWriter' /\ Committed' /\ BuiltOfRows'
      /\ doing'[c].at = "idle" /\ \A e \in Callers \ {c} : doing'[e] = doing[e]
  BY <1>1, CallerEnds
<1>3. /\ HeldTypes' /\ DOMAIN held' = DOMAIN held \ {k}
      /\ \A o \in DOMAIN held' : held'[o] = held[o]
      /\ used' <= used /\ used \in Nat /\ used' \in Nat
  BY <1>1, ReplacingIs DEF IndexInv
<1>4. OtherTypes'
  BY <1>1, <1>3 DEF IndexInv, OtherTypes, Rooms
<1>5. RoomFits'
  BY <1>1 DEF RoomFits, Unlocked
<1>6. OnlyOneTooLarge'
  <2>1. used' > Limit => used > Limit
    BY <1>3, VectorAssumption
  <2> QED BY <1>1, <1>3, <2>1 DEF IndexInv, OnlyOneTooLarge, Unlocked
<1>7. HeldFollows'
  <2>1. \A e \in Callers : doing[e].at = "write" /\ doing[e].part # k =>
          doing'[e].at = "write" /\ doing'[e].part = doing[e].part /\ doing'[e].write = doing[e].write
    BY <1>2
  <2>2. \A o \in DOMAIN held' \ {k} : o \in DOMAIN held /\ held'[o] = held[o]
    BY <1>3
  <2>3. k \notin DOMAIN held' /\ behind \ {k} \subseteq behind' /\ rows' = rows
    BY <1>1, <1>3
  <2> HIDE DEF k
  <2> QED BY <2>1, <2>2, <2>3, OthersFollow
<1> QED BY <1>2, <1>3, <1>4, <1>5, <1>6, <1>7 DEF IndexInv

\* hydrate_partition up to make_room: the old partition goes, the new one fits alone.
LEMMA HydrateKeeps ==
  ASSUME IndexInv, NEW c \in Callers, Hydrate(c)
  PROVE  IndexInv'
<1> DEFINE k == doing[c].part
           made == doing[c].made
<1>1. /\ Unlocked /\ doing[c].at = "build" /\ Replacing(k)
      /\ total' = [total EXCEPT ![k] = MaxOf(@, Len(made.vectors))] /\ behind' = behind \ {k}
      /\ \/ /\ evicted' = evicted \cup {k} /\ doing' = [doing EXCEPT ![c] = Idle] /\ room' = room
         \/ /\ ~(made.bytes > Limit)
            /\ room' = [caller |-> c, keep |-> k, extra |-> made.bytes, gone |-> {}]
            /\ doing' = doing /\ evicted' = evicted
      /\ UNCHANGED <<clock, rows, changes>>
  BY DEF Hydrate
<1>2. /\ k \in Parts /\ Sound(made)
  BY <1>1, WorkIs DEF IndexInv
<1>3. made.bytes \in Nat /\ Len(made.vectors) \in Nat
  BY <1>2, SoundIs
<1>4. /\ HeldTypes' /\ DOMAIN held' = DOMAIN held \ {k}
      /\ \A o \in DOMAIN held' : held'[o] = held[o]
      /\ used' <= used /\ used \in Nat /\ used' \in Nat
  BY <1>1, ReplacingIs DEF IndexInv
<1>5. /\ WorkTypes' /\ OneWriter' /\ Committed' /\ BuiltOfRows'
      /\ \A e \in Callers : doing'[e] = doing[e] \/ e = c
  <2>1. CASE doing' = [doing EXCEPT ![c] = Idle]
    BY <1>1, <2>1, CallerEnds
  <2>2. CASE doing' = doing
    BY <1>1, <2>2, WorkAsWas
  <2> QED BY <1>1, <2>1, <2>2
<1>6. OtherTypes'
  <2>1. room' \in Rooms \cup {Free}
    BY <1>1, <1>2, <1>3 DEF IndexInv, OtherTypes, Rooms
  <2>2. total' \in [Parts -> Nat]
    <3>1. MaxOf(total[k], Len(made.vectors)) \in Nat /\ total \in [Parts -> Nat]
      BY <1>2, <1>3 DEF IndexInv, OtherTypes, MaxOf
    <3> QED BY <1>1, <3>1
  <2>3. evicted' \in SUBSET Parts /\ behind' \in SUBSET DOMAIN held'
    BY <1>1, <1>2, <1>4 DEF IndexInv, OtherTypes
  <2> QED BY <1>1, <2>1, <2>2, <2>3 DEF IndexInv, OtherTypes, Rooms
<1>7. RoomFits'
  <2>1. CASE room' = room
    BY <1>1, <2>1 DEF RoomFits, Unlocked
  <2>2. CASE ~(made.bytes > Limit) /\ doing' = doing
             /\ room' = [caller |-> c, keep |-> k, extra |-> made.bytes, gone |-> {}]
    <3>1. doing'[room'.caller].at = "build" /\ doing'[room'.caller].part = room'.keep
          /\ room'.extra = doing'[room'.caller].made.bytes /\ room'.keep \notin DOMAIN held'
          /\ doing'[room'.caller].made.bytes <= Limit
      BY <1>1, <1>3, <1>4, <2>2, VectorAssumption
    <3> QED BY <3>1 DEF RoomFits
  <2> QED BY <1>1, <2>1, <2>2
<1>8. OnlyOneTooLarge'
  <2>1. used' > Limit => used > Limit
    BY <1>4, VectorAssumption
  <2> QED BY <1>1, <1>4, <2>1 DEF IndexInv, OnlyOneTooLarge, Unlocked
<1>9. HeldFollows'
  <2>1. \A e \in Callers : doing[e].at = "write" /\ doing[e].part # k =>
          doing'[e].at = "write" /\ doing'[e].part = doing[e].part /\ doing'[e].write = doing[e].write
    BY <1>1, <1>5
  <2>2. \A o \in DOMAIN held' \ {k} : o \in DOMAIN held /\ held'[o] = held[o]
    BY <1>4
  <2>3. k \notin DOMAIN held' /\ behind \ {k} \subseteq behind' /\ rows' = rows
    BY <1>1, <1>4
  <2> HIDE DEF k
  <2> QED BY <2>1, <2>2, <2>3, OthersFollow
<1> QED BY <1>4, <1>5, <1>6, <1>7, <1>8, <1>9 DEF IndexInv

\* Who makes room, and for what.
LEMMA RoomIs ==
  ASSUME IndexInv, ~Unlocked
  PROVE  /\ room \in Rooms /\ room.caller \in Callers /\ room.keep \in Parts
         /\ room.extra \in Nat /\ room.gone \in SUBSET Nat
         /\ doing[room.caller].at \in {"build", "write"} /\ doing[room.caller].part = room.keep
         /\ doing[room.caller].at = "build" =>
              /\ room.keep \notin DOMAIN held /\ Sound(doing[room.caller].made)
              /\ room.extra = doing[room.caller].made.bytes
              /\ doing[room.caller].made.bytes <= Limit
         /\ doing[room.caller].at = "write" =>
              /\ doing[room.caller].write.op = "upsert" /\ room.extra = 0
              /\ room.keep \in DOMAIN held
              /\ At(held[room.keep], doing[room.caller].write.id) = doing[room.caller].write.size
<1>1. room \in Rooms
  BY DEF IndexInv, OtherTypes, Unlocked
<1>2. /\ room.caller \in Callers /\ room.keep \in Parts
      /\ room.extra \in Nat /\ room.gone \in SUBSET Nat
  BY <1>1 DEF Rooms
<1>3. doing[room.caller].at = "build" => Sound(doing[room.caller].made)
  BY <1>2 DEF IndexInv, WorkTypes
<1> QED BY <1>1, <1>2, <1>3 DEF IndexInv, RoomFits

\* An eviction gives back the bytes of one that is not being made room for.
LEMMA EvictKeeps ==
  ASSUME IndexInv, Evict
  PROVE  IndexInv'
<1>1. PICK k \in Oldest :
        /\ held' = Without(held, k) /\ used' = used - held[k].bytes /\ evicted' = evicted \cup {k}
        /\ room' = [room EXCEPT !.gone = @ \cup {held[k].last_used}] /\ behind' = behind \ {k}
  BY DEF Evict
<1>2. /\ ~Unlocked /\ k \in DOMAIN held /\ k # room.keep
      /\ UNCHANGED <<total, clock, doing, rows, changes>>
  BY <1>1 DEF Evict, Oldest, Victims
<1>3. Replacing(k)
  BY <1>1, <1>2 DEF Replacing
<1>4. /\ HeldTypes' /\ DOMAIN held' = DOMAIN held \ {k}
      /\ \A o \in DOMAIN held' : held'[o] = held[o]
      /\ used' <= used /\ used \in Nat /\ used' \in Nat
  BY <1>3, ReplacingIs DEF IndexInv
<1>5. /\ WorkTypes' /\ OneWriter' /\ Committed' /\ BuiltOfRows'
  BY <1>2, WorkAsWas
<1>6. /\ room' \in Rooms /\ room'.caller = room.caller /\ room'.keep = room.keep
      /\ room'.extra = room.extra
  <2>1. held[k].last_used \in Nat
    BY <1>2, SoundIs DEF IndexInv, HeldTypes
  <2>2. room \in Rooms /\ room.gone \in SUBSET Nat
    BY <1>2, RoomIs
  <2>3. room.gone \cup {held[k].last_used} \in SUBSET Nat
    BY <2>1, <2>2
  <2> QED BY <1>1, <2>2, <2>3 DEF Rooms
<1>7. OtherTypes'
  <2>1. k \in Parts
    BY <1>2 DEF IndexInv, HeldTypes
  <2> QED BY <1>1, <1>2, <1>4, <1>6, <2>1 DEF IndexInv, OtherTypes, Rooms
<1>8. RoomFits'
  <2>1. room.keep \in DOMAIN held <=> room.keep \in DOMAIN held'
    BY <1>2, <1>4
  <2>2. room.keep \in DOMAIN held' => held'[room.keep] = held[room.keep]
    BY <1>4
  <2>3. /\ doing'[room'.caller] = doing[room.caller] /\ room'.keep = room.keep
        /\ room'.extra = room.extra
    BY <1>2, <1>6
  <2> QED BY <1>2, <2>1, <2>2, <2>3, RoomIs DEF RoomFits, At
<1>9. OnlyOneTooLarge'
  <2>1. room' # Free
    BY <1>6, VectorAssumption DEF Rooms
  <2> QED BY <2>1 DEF OnlyOneTooLarge, Unlocked
<1>10. HeldFollows'
  <2>1. \A e \in Callers : doing[e].at = "write" /\ doing[e].part # k =>
          doing'[e].at = "write" /\ doing'[e].part = doing[e].part /\ doing'[e].write = doing[e].write
    BY <1>2
  <2>2. \A o \in DOMAIN held' \ {k} : o \in DOMAIN held /\ held'[o] = held[o]
    BY <1>4
  <2>3. k \notin DOMAIN held' /\ behind \ {k} \subseteq behind' /\ rows' = rows
    BY <1>1, <1>2, <1>4
  <2> QED BY <2>1, <2>2, <2>3, OthersFollow
<1> QED BY <1>4, <1>5, <1>7, <1>8, <1>9, <1>10 DEF IndexInv

\* A partition comes, with its bytes.
LEMMA PuttingIs ==
  ASSUME HeldTypes, NEW k \in Parts \ DOMAIN held, NEW p, Sound(p),
         held' = Put(held, k, p), used' = used + p.bytes
  PROVE  /\ HeldTypes' /\ DOMAIN held' = DOMAIN held \cup {k}
         /\ held'[k] = p /\ \A o \in DOMAIN held : held'[o] = held[o]
<1>1. /\ DOMAIN held' = DOMAIN held \cup {k} /\ DOMAIN held' \in SUBSET Parts
      /\ IsFiniteSet(DOMAIN held')
      /\ held'[k] = p /\ \A o \in DOMAIN held : held'[o] = held[o]
      /\ \A o \in DOMAIN held' : Sound(held'[o])
      /\ SumHeld(held') = used + p.bytes
  <2>1. \A h : h = Put(held, k, p) =>
          /\ DOMAIN h = DOMAIN held \cup {k} /\ DOMAIN h \in SUBSET Parts /\ IsFiniteSet(DOMAIN h)
          /\ h[k] = p /\ \A o \in DOMAIN held : h[o] = held[o]
          /\ \A o \in DOMAIN h : Sound(h[o])
          /\ SumHeld(h) = used + p.bytes
    BY HeldMore, Zenon
  <2> QED BY <2>1
<1>2. HeldTypes'
  BY <1>1 DEF HeldTypes, Sound, SumHeld, HeldBytes, Linked, Bytes, Partitions
<1> QED BY <1>1, <1>2

\* The partition built comes, as the rows were read, when there is room for it.
LEMMA InstallKeeps ==
  ASSUME IndexInv, Install
  PROVE  IndexInv'
<1> DEFINE c == room.caller
           made == doing[c].made
<1>0. PICK k : k = room.keep
  OBVIOUS
<1>1. /\ RoomMade /\ doing[c].at = "build"
      /\ used' = used + room.extra /\ held' = Put(held, k, made)
      /\ evicted' = evicted \ {k}
      /\ behind' = IF doing[c].late THEN behind \cup {k} ELSE behind
      /\ doing' = [doing EXCEPT ![c] = Idle] /\ room' = Free
      /\ UNCHANGED <<total, clock, rows, changes>>
  BY <1>0 DEF Install
<1>2. /\ ~Unlocked /\ c \in Callers /\ k \in Parts /\ k \notin DOMAIN held /\ Sound(made)
      /\ room.extra = made.bytes /\ made.bytes <= Limit /\ doing[c].part = k
      /\ room.extra \in Nat
  BY <1>0, <1>1, RoomIs DEF RoomMade
<1>3. /\ WorkTypes' /\ OneWriter' /\ Committed' /\ BuiltOfRows'
      /\ doing'[c].at = "idle" /\ \A e \in Callers \ {c} : doing'[e] = doing[e]
  BY <1>1, <1>2, CallerEnds
<1> HIDE DEF c, made
<1>4. /\ HeldTypes' /\ DOMAIN held' = DOMAIN held \cup {k}
      /\ held'[k] = made /\ \A o \in DOMAIN held : held'[o] = held[o]
  <2>1. /\ HeldTypes /\ k \in Parts \ DOMAIN held /\ Sound(made) /\ held' = Put(held, k, made)
        /\ used' = used + made.bytes
    BY <1>1, <1>2 DEF IndexInv
  <2> QED BY <2>1, PuttingIs
<1>5. HeldTypes'
  BY <1>4
<1>6. OtherTypes'
  BY <1>1, <1>2, <1>4 DEF IndexInv, OtherTypes, Rooms
<1>7. RoomFits'
  BY <1>1 DEF RoomFits, Unlocked
<1>8. OnlyOneTooLarge'
  <2>1. used \in Nat
    BY HeldSum DEF IndexInv, HeldTypes
  <2>2. CASE TooMuch
    <3>1. DOMAIN held = {}
      BY <1>0, <1>1, <1>2, <2>2 DEF RoomMade, Victims
    <3>2. DOMAIN held' = {k}
      BY <1>4, <3>1
    <3> QED BY <3>2 DEF OnlyOneTooLarge
  <2>3. CASE ~TooMuch
    <3>1. ~(used' > Limit)
      BY <1>1, <2>3 DEF TooMuch
    <3> QED BY <3>1 DEF OnlyOneTooLarge
  <2> QED BY <2>2, <2>3
<1>9. HeldFollows'
  <2>1. \A e \in Callers : doing[e].at = "write" =>
          doing'[e].at = "write" /\ doing'[e].part = doing[e].part /\ doing'[e].write = doing[e].write
    <3>1. \A e \in Callers : doing[e].at = "write" => e # c
      BY <1>1
    <3> QED BY <1>3, <3>1
  <2>2. \A o \in DOMAIN held' \ {k} : o \in DOMAIN held /\ held'[o] = held[o]
    BY <1>4
  <2>3. behind \ {k} \subseteq behind' /\ rows' = rows
    BY <1>1
  <2>4. ASSUME k \in DOMAIN held' \ behind'
        PROVE  Follows(k)'
    <3>1. ~doing[c].late
      BY <1>1, <2>4
    <3>2. \A id \in Ids : At(made, id) = rows[k][id]
      BY <1>1, <1>2, <3>1 DEF IndexInv, BuiltOfRows, made
    <3>3. \A id \in Ids : At(held'[k], id) = rows'[k][id]
      BY <1>1, <1>4, <3>2
    <3> QED BY <3>3 DEF Follows, At, Touches
  <2>5. k \in DOMAIN held' \ behind' => Follows(k)'
    BY <2>4
  <2> QED BY <2>1, <2>2, <2>3, <2>5, OthersFollow
<1> QED BY <1>3, <1>5, <1>6, <1>7, <1>8, <1>9 DEF IndexInv

\* An upsert that had to make room ends with its row in the index.
LEMMA UpsertDoneKeeps ==
  ASSUME IndexInv, UpsertDone
  PROVE  IndexInv'
<1> DEFINE c == room.caller
           w == doing[c].write
<1>0. PICK k : k = room.keep
  OBVIOUS
<1>1. /\ RoomMade /\ doing[c].at = "write"
      /\ doing' = [doing EXCEPT ![c] = Idle] /\ room' = Free
      /\ UNCHANGED <<held, used, total, evicted, clock, rows, behind, changes>>
  BY <1>0 DEF UpsertDone
<1>2. /\ ~Unlocked /\ c \in Callers /\ k \in Parts /\ k \in DOMAIN held
      /\ room.extra = 0 /\ w.op = "upsert" /\ At(held[k], w.id) = w.size /\ doing[c].part = k
  BY <1>0, <1>1, RoomIs DEF RoomMade
<1>3. /\ WorkTypes' /\ OneWriter' /\ Committed' /\ BuiltOfRows'
      /\ doing'[c].at = "idle" /\ \A e \in Callers \ {c} : doing'[e] = doing[e]
  BY <1>1, <1>2, CallerEnds
<1> HIDE DEF c
<1>4. HeldTypes' /\ used \in Nat
  <2>1. used \in Nat
    BY HeldSum DEF IndexInv, HeldTypes
  <2> QED BY <1>1, <2>1 DEF IndexInv, HeldTypes, Sound, SumHeld, HeldBytes, Linked, Bytes, Partitions
<1>5. OtherTypes'
  BY <1>1 DEF IndexInv, OtherTypes, Rooms
<1>6. RoomFits'
  BY <1>1 DEF RoomFits, Unlocked
<1>7. OnlyOneTooLarge'
  <2>1. CASE TooMuch
    <3>1. DOMAIN held \subseteq {k}
      BY <1>0, <1>1, <1>2, <2>1 DEF RoomMade, Victims
    <3> QED BY <1>1, <3>1 DEF OnlyOneTooLarge
  <2>2. CASE ~TooMuch
    <3>1. ~(used' > Limit)
      BY <1>1, <1>2, <1>4, <2>2 DEF TooMuch
    <3> QED BY <3>1 DEF OnlyOneTooLarge
  <2> QED BY <2>1, <2>2
<1>8. HeldFollows'
  <2>1. \A e \in Callers : doing[e].at = "write" /\ doing[e].part # k =>
          doing'[e].at = "write" /\ doing'[e].part = doing[e].part /\ doing'[e].write = doing[e].write
    BY <1>2, <1>3
  <2>2. \A o \in DOMAIN held' \ {k} : o \in DOMAIN held /\ held'[o] = held[o]
    BY <1>1
  <2>3. behind \ {k} \subseteq behind' /\ rows' = rows
    BY <1>1
  <2>4. ASSUME k \in DOMAIN held' \ behind'
        PROVE  Follows(k)'
    <3>1. Follows(k)
      BY <1>1, <2>4 DEF IndexInv, HeldFollows
    <3>2. ASSUME NEW id \in Ids
          PROVE  At(held'[k], id) = rows'[k][id]
      <4>1. CASE id = w.id
        <5>1. rows[k][id] = w.size
          BY <1>1, <1>2, <4>1 DEF IndexInv, Committed, Touches
        <5> QED BY <1>1, <1>2, <4>1, <5>1
      <4>2. CASE id # w.id
        <5>1. ASSUME NEW e \in Callers, doing[e].at = "write" /\ doing[e].part = k
              PROVE  ~Touches(doing[e].write, id)
          <6>1. e = c
            BY <1>1, <1>2, <5>1 DEF IndexInv, OneWriter
          <6> QED BY <1>2, <4>2, <6>1 DEF Touches
        <5> QED BY <1>1, <3>1, <5>1 DEF Follows
      <4> QED BY <4>1, <4>2
    <3> QED BY <3>2 DEF Follows, At, Touches
  <2>5. k \in DOMAIN held' \ behind' => Follows(k)'
    BY <2>4
  <2> QED BY <2>1, <2>2, <2>3, <2>5, OthersFollow
<1> QED BY <1>3, <1>4, <1>5, <1>6, <1>7, <1>8 DEF IndexInv

\* A partition changes, and the bytes used with it.
LEMMA AlteringIs ==
  ASSUME HeldTypes, NEW k \in DOMAIN held, NEW p, Sound(p),
         held' = [held EXCEPT ![k] = p], used' = used - held[k].bytes + p.bytes
  PROVE  /\ HeldTypes' /\ DOMAIN held' = DOMAIN held
         /\ held'[k] = p /\ \A o \in DOMAIN held \ {k} : held'[o] = held[o]
         /\ used \in Nat /\ used' \in Nat
<1>1. /\ DOMAIN held' = DOMAIN held
      /\ held'[k] = p /\ \A o \in DOMAIN held \ {k} : held'[o] = held[o]
      /\ \A o \in DOMAIN held' : Sound(held'[o])
      /\ SumHeld(held') = used - held[k].bytes + p.bytes
      /\ SumHeld(held') \in Nat /\ used \in Nat
  <2>1. \A h : h = [held EXCEPT ![k] = p] =>
          /\ DOMAIN h = DOMAIN held /\ h[k] = p /\ \A o \in DOMAIN held \ {k} : h[o] = held[o]
          /\ \A o \in DOMAIN h : Sound(h[o])
          /\ SumHeld(h) = used - held[k].bytes + p.bytes /\ SumHeld(h) \in Nat /\ used \in Nat
    BY HeldOther, Zenon
  <2> QED BY <2>1
<1>2. HeldTypes'
  BY <1>1 DEF HeldTypes, Sound, SumHeld, HeldBytes, Linked, Bytes, Partitions
<1> QED BY <1>1, <1>2

\* A change told: the partition holds the committed row, and the others as before.
LEMMA ToldFollows ==
  ASSUME IndexInv, NEW c \in Callers, doing[c].at = "write",
         NEW k, k = doing[c].part, NEW id, id = doing[c].write.id, doing[c].write.op # "drop",
         Follows(k), rows' = rows,
         At(held'[k], id) = rows[k][id],
         \A o \in Ids : o # id => At(held'[k], o) = At(held[k], o)
  PROVE  Follows(k)'
<1>1. ASSUME NEW o \in Ids
      PROVE  At(held'[k], o) = rows'[k][o]
  <2>1. CASE o = id
    BY <2>1
  <2>2. CASE o # id
    <3>1. ASSUME NEW e \in Callers, doing[e].at = "write" /\ doing[e].part = k
          PROVE  ~Touches(doing[e].write, o)
      <4>1. e = c
        BY <3>1 DEF IndexInv, OneWriter
      <4> QED BY <2>2, <4>1 DEF Touches
    <3> QED BY <2>2, <3>1 DEF Follows
  <2> QED BY <2>1, <2>2
<1> QED BY <1>1 DEF Follows, At, Touches

\* remove takes one vector and its bytes.
LEMMA RemoveKeeps ==
  ASSUME IndexInv, NEW c \in Callers, Remove(c)
  PROVE  IndexInv'
<1>0. PICK k : k = doing[c].part
  OBVIOUS
<1>00. PICK id : id = doing[c].write.id
  OBVIOUS
<1>1. /\ Unlocked /\ doing[c].at = "write" /\ doing[c].write.op = "remove"
      /\ k \in DOMAIN held /\ id \in DOMAIN held[k].positions
      /\ held' = [held EXCEPT ![k] = Removed(held[k], id)]
      /\ used' = used - (held[k].bytes - Removed(held[k], id).bytes)
      /\ total' = [total EXCEPT ![k] = IF @ = 0 THEN 0 ELSE @ - 1]
      /\ doing' = [doing EXCEPT ![c] = Idle]
      /\ UNCHANGED <<evicted, clock, room, rows, behind, changes>>
  BY <1>0, <1>00 DEF Remove, Telling
<1>2. PICK p : p = Removed(held[k], id)
  OBVIOUS
<1>3. Sound(held[k]) /\ k \in Parts /\ id \in Ids
  <2>1. Sound(held[k]) /\ k \in Parts
    BY <1>1 DEF IndexInv, HeldTypes
  <2> QED BY <1>1, <2>1, SoundIs
<1>4. /\ Sound(p) /\ p.last_used = held[k].last_used /\ p.bytes <= held[k].bytes
      /\ \A o \in Ids : At(p, o) = IF o = id THEN 0 ELSE At(held[k], o)
  BY <1>1, <1>2, <1>3, RemovedIs
<1>5. p.bytes \in Nat /\ held[k].bytes \in Nat
  BY <1>3, <1>4, SoundIs
<1>6. used \in Nat
  BY HeldSum DEF IndexInv, HeldTypes
<1>7. /\ HeldTypes' /\ DOMAIN held' = DOMAIN held
      /\ held'[k] = p /\ \A o \in DOMAIN held \ {k} : held'[o] = held[o]
      /\ used \in Nat /\ used' \in Nat
  <2>1. used' = used - held[k].bytes + p.bytes /\ held' = [held EXCEPT ![k] = p] /\ HeldTypes
    BY <1>1, <1>2, <1>5, <1>6 DEF IndexInv
  <2> QED BY <1>1, <1>4, <2>1, AlteringIs
<1>8. /\ WorkTypes' /\ OneWriter' /\ Committed' /\ BuiltOfRows'
      /\ doing'[c].at = "idle" /\ \A e \in Callers \ {c} : doing'[e] = doing[e]
  BY <1>1, CallerEnds
<1>9. OtherTypes'
  <2>1. total' \in [Parts -> Nat]
    <3>1. total \in [Parts -> Nat] /\ total[k] \in Nat
      BY <1>3 DEF IndexInv, OtherTypes
    <3>2. (IF total[k] = 0 THEN 0 ELSE total[k] - 1) \in Nat
      BY <3>1
    <3> QED BY <1>1, <3>1, <3>2
  <2> QED BY <1>1, <1>7, <2>1 DEF IndexInv, OtherTypes, Rooms
<1>10. RoomFits'
  BY <1>1 DEF RoomFits, Unlocked
<1>11. OnlyOneTooLarge'
  <2>1. used' > Limit => used > Limit
    BY <1>1, <1>2, <1>4, <1>5, <1>6, VectorAssumption
  <2> QED BY <1>1, <1>7, <2>1 DEF IndexInv, OnlyOneTooLarge, Unlocked
<1>12. HeldFollows'
  <2>1. \A e \in Callers : doing[e].at = "write" /\ doing[e].part # k =>
          doing'[e].at = "write" /\ doing'[e].part = doing[e].part /\ doing'[e].write = doing[e].write
    BY <1>0, <1>8
  <2>2. \A o \in DOMAIN held' \ {k} : o \in DOMAIN held /\ held'[o] = held[o]
    BY <1>7
  <2>3. behind \ {k} \subseteq behind' /\ rows' = rows
    BY <1>1
  <2>4. ASSUME k \in DOMAIN held' \ behind'
        PROVE  Follows(k)'
    <3>1. Follows(k)
      BY <1>1, <2>4 DEF IndexInv, HeldFollows
    <3>2. rows[k][id] = 0
      BY <1>0, <1>00, <1>1, <1>3 DEF IndexInv, Committed, Touches
    <3>3. At(held'[k], id) = rows[k][id] /\ \A o \in Ids : o # id => At(held'[k], o) = At(held[k], o)
      BY <1>3, <1>4, <1>7, <3>2
    <3> QED BY <1>0, <1>00, <1>1, <3>1, <3>3, ToldFollows
  <2>5. k \in DOMAIN held' \ behind' => Follows(k)'
    BY <2>4
  <2> QED BY <2>1, <2>2, <2>3, <2>5, OthersFollow
<1> QED BY <1>7, <1>8, <1>9, <1>10, <1>11, <1>12 DEF IndexInv

\* upsert adds or replaces one vector and counts what that adds.
LEMMA UpsertKeeps ==
  ASSUME IndexInv, NEW c \in Callers, Upsert(c)
  PROVE  IndexInv'
<1>0. PICK k : k = doing[c].part
  OBVIOUS
<1>00. PICK w : w = doing[c].write
  OBVIOUS
<1>01. PICK p : p = [Upserted(held[k], w.id, w.size) EXCEPT !.last_used = clock]
  OBVIOUS
<1>1. /\ Unlocked /\ doing[c].at = "write" /\ w.op = "upsert" /\ clock < MaxTick /\ k \in DOMAIN held
      /\ held' = [held EXCEPT ![k] = p]
      /\ used' = used + (p.bytes - held[k].bytes)
      /\ \/ /\ used' > Limit /\ doing' = doing
            /\ room' = [caller |-> c, keep |-> k, extra |-> 0, gone |-> {}]
         \/ ~(used' > Limit) /\ doing' = [doing EXCEPT ![c] = Idle] /\ room' = room
      /\ total' = total \/ total' = [total EXCEPT ![k] = @ + 1]
      /\ clock' = clock + 1
      /\ UNCHANGED <<evicted, rows, behind, changes>>
  BY <1>0, <1>00, <1>01 DEF Upsert, Telling
<1>2. Sound(held[k]) /\ k \in Parts /\ w.id \in Ids /\ w.size \in Sizes /\ clock \in Nat
  <2>1. Sound(held[k]) /\ k \in Parts /\ clock \in Nat
    BY <1>1 DEF IndexInv, HeldTypes, OtherTypes
  <2>2. w \in Writes
    BY <1>00, <1>1, WorkIs DEF IndexInv
  <2> QED BY <1>1, <2>1, <2>2, WriteIs
<1>4. /\ Sound(p) /\ p.last_used = clock
      /\ \A o \in Ids : At(p, o) = IF o = w.id THEN w.size ELSE At(held[k], o)
  BY <1>01, <1>2, UpsertedIs
<1>5. p.bytes \in Nat /\ held[k].bytes \in Nat
  BY <1>2, <1>4, SoundIs
<1>6. used \in Nat
  BY HeldSum DEF IndexInv, HeldTypes
<1>7. /\ HeldTypes' /\ DOMAIN held' = DOMAIN held
      /\ held'[k] = p /\ \A o \in DOMAIN held \ {k} : held'[o] = held[o]
      /\ used \in Nat /\ used' \in Nat
  <2>1. used' = used - held[k].bytes + p.bytes /\ held' = [held EXCEPT ![k] = p] /\ HeldTypes
    BY <1>1, <1>5, <1>6 DEF IndexInv
  <2> QED BY <1>1, <1>4, <2>1, AlteringIs
<1>8. /\ WorkTypes' /\ OneWriter' /\ Committed' /\ BuiltOfRows'
      /\ \A e \in Callers : doing'[e] = doing[e] \/ e = c
  <2>1. CASE doing' = [doing EXCEPT ![c] = Idle]
    BY <1>1, <2>1, CallerEnds
  <2>2. CASE doing' = doing
    BY <1>1, <2>2, WorkAsWas
  <2> QED BY <1>1, <2>1, <2>2
<1>9. OtherTypes'
  <2>1. total' \in [Parts -> Nat]
    <3>1. total \in [Parts -> Nat] /\ total[k] \in Nat
      BY <1>2 DEF IndexInv, OtherTypes
    <3> QED BY <1>1, <3>1
  <2>2. clock' \in 1..MaxTick
    BY <1>1, <1>2, VectorAssumption DEF IndexInv, OtherTypes
  <2>3. room' \in Rooms \cup {Free}
    BY <1>1, <1>2 DEF IndexInv, OtherTypes, Rooms
  <2> QED BY <1>1, <1>7, <2>1, <2>2, <2>3 DEF IndexInv, OtherTypes, Rooms
<1>10. RoomFits'
  <2>1. CASE room' = room
    BY <1>1, <2>1 DEF RoomFits, Unlocked
  <2>2. CASE doing' = doing /\ room' = [caller |-> c, keep |-> k, extra |-> 0, gone |-> {}]
    <3>1. /\ doing'[room'.caller] = doing[c] /\ doing[c].part = k /\ doing[c].write = w
          /\ room'.keep = k /\ room'.extra = 0 /\ k \in DOMAIN held'
      BY <1>0, <1>00, <1>1, <1>7, <2>2
    <3>2. At(held'[k], w.id) = w.size
      BY <1>2, <1>4, <1>7
    <3> QED BY <1>1, <3>1, <3>2 DEF RoomFits, At
  <2> QED BY <1>1, <2>1, <2>2
<1>11. OnlyOneTooLarge'
  <2>1. CASE ~(used' > Limit)
    BY <2>1 DEF OnlyOneTooLarge
  <2>2. CASE room' = [caller |-> c, keep |-> k, extra |-> 0, gone |-> {}]
    <3>1. room' \in Rooms
      BY <1>2, <2>2 DEF Rooms
    <3>2. room' # Free
      BY <3>1, VectorAssumption DEF Rooms
    <3> QED BY <3>2 DEF OnlyOneTooLarge, Unlocked
  <2> QED BY <1>1, <2>1, <2>2
<1>12. HeldFollows'
  <2>1. \A e \in Callers : doing[e].at = "write" /\ doing[e].part # k =>
          doing'[e].at = "write" /\ doing'[e].part = doing[e].part /\ doing'[e].write = doing[e].write
    BY <1>0, <1>8
  <2>2. \A o \in DOMAIN held' \ {k} : o \in DOMAIN held /\ held'[o] = held[o]
    BY <1>7
  <2>3. behind \ {k} \subseteq behind' /\ rows' = rows
    BY <1>1
  <2>4. ASSUME k \in DOMAIN held' \ behind'
        PROVE  Follows(k)'
    <3>1. Follows(k)
      BY <1>1, <2>4 DEF IndexInv, HeldFollows
    <3>2. rows[k][w.id] = w.size
      BY <1>0, <1>00, <1>1, <1>2 DEF IndexInv, Committed, Touches
    <3>3. At(held'[k], w.id) = rows[k][w.id]
          /\ \A o \in Ids : o # w.id => At(held'[k], o) = At(held[k], o)
      BY <1>2, <1>4, <1>7, <3>2
    <3>4. w.id = doing[c].write.id /\ doing[c].write.op # "drop" /\ rows' = rows
      BY <1>00, <1>1
    <3> QED BY <1>0, <1>1, <3>1, <3>3, <3>4, ToldFollows
  <2>5. k \in DOMAIN held' \ behind' => Follows(k)'
    BY <2>4
  <2> QED BY <2>1, <2>2, <2>3, <2>5, OthersFollow
<1> QED BY <1>7, <1>8, <1>9, <1>10, <1>11, <1>12 DEF IndexInv

\* A search only stamps the partition.
LEMMA SearchKeeps ==
  ASSUME IndexInv, NEW k \in Parts, Search(k)
  PROVE  IndexInv'
<1>1. /\ Unlocked /\ clock < MaxTick /\ k \in DOMAIN held /\ clock' = clock + 1
      /\ held' = [held EXCEPT ![k] = Stamped(held[k], clock)]
      /\ UNCHANGED <<used, total, evicted, room, doing, rows, behind, changes>>
  BY DEF Search, Stamped
<1>2. Sound(held[k]) /\ clock \in Nat /\ HeldTypes
  BY <1>1 DEF IndexInv, HeldTypes, OtherTypes
<1>3. PICK p : p = Stamped(held[k], clock)
  OBVIOUS
<1>4. /\ Sound(p) /\ p.bytes = held[k].bytes /\ \A id \in Ids : At(p, id) = At(held[k], id)
  <2>1. /\ Sound(Stamped(held[k], clock)) /\ Stamped(held[k], clock).bytes = held[k].bytes
        /\ Stamped(held[k], clock).last_used = clock
        /\ \A id \in Ids : At(Stamped(held[k], clock), id) = At(held[k], id)
    BY <1>2, StampedIs
  <2> QED BY <1>3, <2>1
<1>5. /\ HeldTypes' /\ DOMAIN held' = DOMAIN held
      /\ held'[k] = p /\ \A o \in DOMAIN held \ {k} : held'[o] = held[o]
      /\ used \in Nat /\ used' \in Nat
  <2>1. used \in Nat /\ held[k].bytes \in Nat
    BY <1>2, HeldSum, SoundIs DEF HeldTypes
  <2>2. used' = used - held[k].bytes + p.bytes /\ held' = [held EXCEPT ![k] = p]
    BY <1>1, <1>3, <1>4, <2>1
  <2> QED BY <1>1, <1>2, <1>4, <2>2, AlteringIs
<1>6. WorkTypes' /\ OneWriter' /\ Committed' /\ BuiltOfRows'
  BY <1>1, WorkAsWas
<1>7. OtherTypes'
  <2>1. clock' \in 1..MaxTick
    BY <1>1, <1>2, VectorAssumption DEF IndexInv, OtherTypes
  <2> QED BY <1>1, <1>5, <2>1 DEF IndexInv, OtherTypes, Rooms
<1>8. RoomFits'
  BY <1>1 DEF RoomFits, Unlocked
<1>9. OnlyOneTooLarge'
  BY <1>1, <1>5 DEF IndexInv, OnlyOneTooLarge, Unlocked
<1>10. HeldFollows'
  <2>1. \A e \in Callers : doing[e].at = "write" =>
          doing'[e].at = "write" /\ doing'[e].part = doing[e].part /\ doing'[e].write = doing[e].write
    BY <1>1
  <2>2. \A o \in DOMAIN held' \ {k} : o \in DOMAIN held /\ held'[o] = held[o]
    BY <1>5
  <2>3. behind \ {k} \subseteq behind' /\ rows' = rows
    BY <1>1
  <2>4. ASSUME k \in DOMAIN held' \ behind'
        PROVE  Follows(k)'
    <3>1. Follows(k)
      BY <1>1, <2>4 DEF IndexInv, HeldFollows
    <3> QED BY <1>4, <1>5, <2>1, <2>3, <3>1, FollowsStill
  <2>5. k \in DOMAIN held' \ behind' => Follows(k)'
    BY <2>4
  <2> QED BY <2>1, <2>2, <2>3, <2>5, OthersFollow
<1> QED BY <1>5, <1>6, <1>7, <1>8, <1>9, <1>10 DEF IndexInv

\* What is held and how far it follows the rows stays as it was.
LEMMA FollowsAsWas ==
  ASSUME IndexInv, UNCHANGED <<held, rows, behind>>,
         \A e \in Callers : doing[e].at = "write" =>
           doing'[e].at = "write" /\ doing'[e].part = doing[e].part /\ doing'[e].write = doing[e].write
  PROVE  HeldFollows'
<1>1. ASSUME NEW o \in DOMAIN held' \ behind'
      PROVE  Follows(o)'
  <2>1. Follows(o)
    BY DEF IndexInv, HeldFollows
  <2> QED BY <2>1, FollowsStill
<1> QED BY <1>1 DEF HeldFollows, Follows, At, Touches

\* set_partition_total only counts.
LEMMA TotalKeeps ==
  ASSUME IndexInv, NEW k \in Parts, SetPartitionTotal(k)
  PROVE  IndexInv'
<1>1. /\ total' = [total EXCEPT ![k] = Cardinality(Rows(k))]
      /\ UNCHANGED <<held, used, evicted, clock, room, doing, rows, behind, changes>>
  BY DEF SetPartitionTotal
<1>2. Cardinality(Rows(k)) \in Nat
  <2>1. Rows(k) \in SUBSET Ids /\ IsFiniteSet(Ids)
    BY VectorAssumption DEF Rows
  <2>2. IsFiniteSet(Rows(k))
    BY <2>1, FS_Subset
  <2> QED BY <2>2, FS_CardinalityType
<1>3. HeldTypes'
  BY <1>1 DEF IndexInv, HeldTypes, Sound, SumHeld, HeldBytes, Linked, Bytes, Partitions
<1>4. WorkTypes' /\ OneWriter' /\ Committed' /\ BuiltOfRows'
  BY <1>1, WorkAsWas
<1>5. OtherTypes'
  BY <1>1, <1>2 DEF IndexInv, OtherTypes, Rooms
<1>6. RoomFits' /\ OnlyOneTooLarge'
  BY <1>1 DEF IndexInv, RoomFits, OnlyOneTooLarge, Unlocked, At
<1>7. HeldFollows'
  BY <1>1, FollowsAsWas
<1> QED BY <1>3, <1>4, <1>5, <1>6, <1>7 DEF IndexInv

\* Nothing happens.
LEMMA StutterKeeps ==
  ASSUME IndexInv, UNCHANGED vars
  PROVE  IndexInv'
<1>1. UNCHANGED <<held, used, total, evicted, clock, room, doing, rows, behind, changes>>
  BY DEF vars
<1>2. HeldTypes'
  BY <1>1 DEF IndexInv, HeldTypes, Sound, SumHeld, HeldBytes, Linked, Bytes, Partitions
<1>3. WorkTypes' /\ OneWriter' /\ Committed' /\ BuiltOfRows'
  BY <1>1, WorkAsWas
<1>4. OtherTypes'
  BY <1>1 DEF IndexInv, OtherTypes, Rooms
<1>5. RoomFits' /\ OnlyOneTooLarge'
  BY <1>1 DEF IndexInv, RoomFits, OnlyOneTooLarge, Unlocked, At
<1>6. HeldFollows'
  BY <1>1, FollowsAsWas
<1> QED BY <1>2, <1>3, <1>4, <1>5, <1>6 DEF IndexInv

\* Rows are read for a partition that is not overtaken yet.
LEMMA BuildKeeps ==
  ASSUME IndexInv, NEW c \in Callers, NEW k \in Parts, Build(c, k)
  PROVE  IndexInv'
<1>1. PICK order \in Orders(Rows(k)) :
        doing' = [doing EXCEPT ![c] =
          [at |-> "build", part |-> k, late |-> FALSE, made |-> Built(order, rows[k])]]
  BY DEF Build
<1>2. /\ doing[c].at = "idle" /\ clock < MaxTick /\ clock' = clock + 1
      /\ UNCHANGED <<held, used, total, evicted, room, rows, behind, changes>>
  BY IdleIs DEF Build, index
<1>3. PICK p : p = Built(order, rows[k])
  OBVIOUS
<1>4. clock \in Nat /\ rows[k] \in [Ids -> Sizes \cup {0}] /\ IsFiniteSet(Ids)
  BY VectorAssumption DEF IndexInv, OtherTypes
<1>5. Sound(p) /\ \A id \in Ids : At(p, id) = rows[k][id]
  <2>1. \A s, S : s = rows[k] /\ S = Rows(k) => S = {id \in Ids : s[id] > 0}
    BY DEF Rows
  <2> QED BY <1>1, <1>3, <1>4, <2>1, BuiltIs
<1>6. /\ \A e \in Callers \ {c} : doing'[e] = doing[e]
      /\ doing'[c] = [at |-> "build", part |-> k, late |-> FALSE, made |-> p]
      /\ doing' \in [Callers -> Works \cup {Idle}]
  <2>1. [at |-> "build", part |-> k, late |-> FALSE, made |-> p] \in Works
    BY <1>5 DEF Works, Sound
  <2> QED BY <1>1, <1>3, <2>1 DEF IndexInv, WorkTypes
<1>7. WorkTypes'
  <2>1. ASSUME NEW e \in Callers, doing'[e].at = "build"
        PROVE  Sound(doing'[e].made)
    <3>1. CASE e = c
      BY <1>5, <1>6, <3>1
    <3>2. CASE e # c
      BY <1>6, <2>1, <3>2 DEF IndexInv, WorkTypes
    <3> QED BY <3>1, <3>2
  <2> QED BY <1>6, <2>1 DEF WorkTypes, Works, Rooms, Sound, Linked, Bytes, Partitions, Writes
<1>8. OneWriter' /\ Committed'
  BY <1>2, <1>6 DEF IndexInv, OneWriter, Committed, Touches
<1>9. BuiltOfRows'
  <2>1. ASSUME NEW e \in Callers, doing'[e].at = "build", ~doing'[e].late, NEW id \in Ids
        PROVE  At(doing'[e].made, id) = rows'[doing'[e].part][id]
    <3>1. CASE e = c
      BY <1>2, <1>5, <1>6, <3>1
    <3>2. CASE e # c
      BY <1>2, <1>6, <2>1, <3>2 DEF IndexInv, BuiltOfRows
    <3> QED BY <3>1, <3>2
  <2> QED BY <2>1 DEF BuiltOfRows, At
<1>10. HeldTypes'
  BY <1>2 DEF IndexInv, HeldTypes, Sound, SumHeld, HeldBytes, Linked, Bytes, Partitions
<1>11. OtherTypes'
  <2>1. clock' \in 1..MaxTick
    BY <1>2, <1>4, VectorAssumption DEF IndexInv, OtherTypes
  <2> QED BY <1>2, <2>1 DEF IndexInv, OtherTypes, Rooms
<1>12. RoomFits'
  <2>1. ASSUME ~Unlocked
        PROVE  doing'[room.caller] = doing[room.caller]
    BY <1>2, <1>6, <2>1, RoomIs
  <2> QED BY <1>2, <2>1 DEF IndexInv, RoomFits, Unlocked, At
<1>13. OnlyOneTooLarge'
  BY <1>2 DEF IndexInv, OnlyOneTooLarge, Unlocked
<1>14. HeldFollows'
  <2>1. \A e \in Callers : doing[e].at = "write" =>
          doing'[e].at = "write" /\ doing'[e].part = doing[e].part /\ doing'[e].write = doing[e].write
    BY <1>2, <1>6
  <2> QED BY <1>2, <2>1, FollowsAsWas
<1> QED BY <1>7, <1>8, <1>9, <1>10, <1>11, <1>12, <1>13, <1>14 DEF IndexInv

\* A commit overtakes what was read before it and is about the rows it touches.
LEMMA CommitKeeps ==
  ASSUME IndexInv, NEW c \in Callers, NEW k \in Parts, NEW w \in Writes, Commit(c, k, w)
  PROVE  IndexInv'
<1>1. /\ doing[c].at = "idle" /\ ~Writing(k)
      /\ rows' = [rows EXCEPT ![k] =
           CASE w.op = "upsert" -> [@ EXCEPT ![w.id] = w.size]
             [] w.op = "remove" -> [@ EXCEPT ![w.id] = 0]
             [] w.op = "drop" -> [id \in Ids |-> 0]]
      /\ changes < MaxChanges /\ changes' = changes + 1
      /\ doing' = [Overtaken(k) EXCEPT ![c] = [at |-> "write", part |-> k, write |-> w]]
      /\ UNCHANGED <<held, used, total, evicted, room, clock, behind>>
  BY IdleIs DEF Commit, index
<1>2. \A e \in Callers : doing[e].at = "write" => doing[e].part # k
  BY <1>1 DEF Writing
<1>3. /\ rows \in [Parts -> [Ids -> Sizes \cup {0}]] /\ rows[k] \in [Ids -> Sizes \cup {0}]
      /\ changes \in 0..MaxChanges
  BY DEF IndexInv, OtherTypes
<1>4. /\ w.op \in {"upsert", "remove", "drop"} /\ (w.op # "drop" => w.id \in Ids)
      /\ (w.op = "upsert" => w.size \in Sizes)
  BY WriteIs
<1>5. /\ rows' \in [Parts -> [Ids -> Sizes \cup {0}]]
      /\ \A o \in Parts \ {k} : rows'[o] = rows[o]
      /\ \A id \in Ids : IF Touches(w, id) THEN rows'[k][id] = (IF w.op = "upsert" THEN w.size ELSE 0)
                         ELSE rows'[k][id] = rows[k][id]
  <2>1. CASE w.op = "upsert"
    <3>1. rows' = [rows EXCEPT ![k] = [rows[k] EXCEPT ![w.id] = w.size]]
      BY <1>1, <2>1
    <3> QED BY <1>3, <1>4, <2>1, <3>1 DEF Touches
  <2>2. CASE w.op = "remove"
    <3>1. rows' = [rows EXCEPT ![k] = [rows[k] EXCEPT ![w.id] = 0]]
      BY <1>1, <2>2
    <3> QED BY <1>3, <1>4, <2>2, <3>1 DEF Touches
  <2>3. CASE w.op = "drop"
    <3>1. rows' = [rows EXCEPT ![k] = [id \in Ids |-> 0]]
      BY <1>1, <2>3
    <3> QED BY <1>3, <2>3, <3>1 DEF Touches
  <2> QED BY <1>4, <2>1, <2>2, <2>3
<1>6. doing'[c] = [at |-> "write", part |-> k, write |-> w]
  BY <1>1 DEF Overtaken
<1>7. ASSUME NEW e \in Callers \ {c}
      PROVE  /\ doing'[e].at = doing[e].at /\ doing'[e] \in Works \cup {Idle}
             /\ doing[e].at = "write" => doing'[e] = doing[e]
             /\ doing[e].at = "build" =>
                  /\ doing'[e].part = doing[e].part /\ doing'[e].made = doing[e].made
                  /\ ~doing'[e].late => ~doing[e].late /\ doing[e].part # k
  <2>1. doing'[e] = IF doing[e].at = "build" /\ doing[e].part = k
                    THEN [doing[e] EXCEPT !.late = TRUE] ELSE doing[e]
    BY <1>1 DEF Overtaken
  <2>2. doing[e] \in Works \cup {Idle}
    BY DEF IndexInv, WorkTypes
  <2>3. CASE doing[e].at = "build"
    <3>1. doing[e] \in [at : {"build"}, part : Parts, late : BOOLEAN, made : Partitions]
      BY <2>2, <2>3 DEF Works, Idle
    <3> QED BY <2>1, <2>3, <3>1 DEF Works
  <2>4. CASE doing[e].at # "build"
    BY <2>1, <2>2, <2>4
  <2> QED BY <2>3, <2>4
<1>8. WorkTypes'
  <2>1. doing' \in [Callers -> Works \cup {Idle}]
    <3>1. doing'[c] \in Works
      BY <1>6 DEF Works
    <3>2. doing' = [e \in Callers |-> doing'[e]]
      BY <1>1 DEF Overtaken
    <3> QED BY <1>7, <3>1, <3>2
  <2>2. ASSUME NEW e \in Callers, doing'[e].at = "build"
        PROVE  Sound(doing'[e].made)
    <3>1. e # c
      BY <1>6, <2>2
    <3>2. doing[e].at = "build" /\ doing'[e].made = doing[e].made
      BY <1>7, <2>2, <3>1
    <3>3. Sound(doing[e].made)
      BY <3>2 DEF IndexInv, WorkTypes
    <3> QED BY <3>2, <3>3
  <2> QED BY <2>1, <2>2 DEF WorkTypes, Works, Sound, Linked, Bytes, Partitions, Writes
<1>9. OneWriter'
  <2>1. ASSUME NEW e \in Callers, NEW f \in Callers, doing'[e].at = "write", doing'[f].at = "write",
               doing'[e].part = doing'[f].part
        PROVE  e = f
    <3>1. CASE e # c /\ f # c
      BY <1>7, <2>1, <3>1 DEF IndexInv, OneWriter
    <3>2. CASE e = c /\ f # c
      BY <1>2, <1>6, <1>7, <2>1, <3>2
    <3>3. CASE e # c /\ f = c
      BY <1>2, <1>6, <1>7, <2>1, <3>3
    <3> QED BY <3>1, <3>2, <3>3
  <2> QED BY <2>1 DEF OneWriter
<1>10. Committed'
  <2>1. ASSUME NEW e \in Callers, doing'[e].at = "write", NEW id \in Ids, Touches(doing'[e].write, id)
        PROVE  rows'[doing'[e].part][id] =
                 IF doing'[e].write.op = "upsert" THEN doing'[e].write.size ELSE 0
    <3>1. CASE e = c
      BY <1>5, <1>6, <2>1, <3>1
    <3>2. CASE e # c
      <4>1. doing[e].at = "write" /\ doing'[e] = doing[e]
        BY <1>7, <2>1, <3>2
      <4>2. doing[e].part \in Parts \ {k}
        BY <1>2, <4>1, WorkIs DEF IndexInv
      <4>3. rows'[doing[e].part] = rows[doing[e].part]
        BY <1>5, <4>2
      <4> QED BY <2>1, <4>1, <4>3 DEF IndexInv, Committed
    <3> QED BY <3>1, <3>2
  <2> QED BY <2>1 DEF Committed, Touches
<1>11. BuiltOfRows'
  <2>1. ASSUME NEW e \in Callers, doing'[e].at = "build", ~doing'[e].late, NEW id \in Ids
        PROVE  At(doing'[e].made, id) = rows'[doing'[e].part][id]
    <3>1. e # c
      BY <1>6, <2>1
    <3>2. /\ doing[e].at = "build" /\ ~doing[e].late /\ doing[e].part # k
          /\ doing'[e].part = doing[e].part /\ doing'[e].made = doing[e].made
      BY <1>7, <2>1, <3>1
    <3>3. doing[e].part \in Parts \ {k}
      BY <3>2, WorkIs DEF IndexInv
    <3>4. rows'[doing[e].part] = rows[doing[e].part]
      BY <1>5, <3>3
    <3> QED BY <3>2, <3>4 DEF IndexInv, BuiltOfRows
  <2> QED BY <2>1 DEF BuiltOfRows, At
<1>12. HeldTypes'
  BY <1>1 DEF IndexInv, HeldTypes, Sound, SumHeld, HeldBytes, Linked, Bytes, Partitions
<1>13. OtherTypes'
  <2>1. changes' \in 0..MaxChanges
    BY <1>1, <1>3, VectorAssumption
  <2> QED BY <1>1, <1>5, <2>1 DEF IndexInv, OtherTypes, Rooms
<1>14. RoomFits'
  <2>1. CASE Unlocked
    BY <1>1, <2>1 DEF RoomFits, Unlocked
  <2>2. CASE ~Unlocked
    <3>1. room.caller \in Callers \ {c}
      BY <1>1, <2>2, RoomIs
    <3>2. /\ doing'[room.caller].at = doing[room.caller].at
          /\ doing[room.caller].at = "write" => doing'[room.caller] = doing[room.caller]
          /\ doing[room.caller].at = "build" =>
               /\ doing'[room.caller].part = doing[room.caller].part
               /\ doing'[room.caller].made = doing[room.caller].made
      BY <1>7, <3>1
    <3> QED BY <1>1, <2>2, <3>2, RoomIs DEF RoomFits, At
  <2> QED BY <2>1, <2>2
<1>15. OnlyOneTooLarge'
  BY <1>1 DEF IndexInv, OnlyOneTooLarge, Unlocked
<1>16. ASSUME NEW o \in DOMAIN held' \ behind'
       PROVE  Follows(o)'
  <2>1. Follows(o) /\ o \in Parts
    BY <1>1 DEF IndexInv, HeldFollows, HeldTypes
  <2>2. CASE o # k
    <3>1. rows'[o] = rows[o]
      BY <1>5, <2>1, <2>2
    <3>2. \A e \in Callers : doing[e].at = "write" /\ doing[e].part = o =>
            doing'[e].at = "write" /\ doing'[e].part = o /\ doing'[e].write = doing[e].write
      BY <1>1, <1>7, <2>2
    <3> QED BY <1>1, <2>1, <3>1, <3>2, FollowsStill
  <2>3. CASE o = k
    <3>1. ASSUME NEW id \in Ids,
                 \A e \in Callers : doing'[e].at = "write" /\ doing'[e].part = o
                                      => ~Touches(doing'[e].write, id)
          PROVE  At(held'[o], id) = rows'[o][id]
      <4>1. ~Touches(w, id)
        BY <1>6, <2>3, <3>1
      <4>2. At(held[o], id) = rows[o][id]
        BY <1>2, <2>1, <2>3 DEF Follows
      <4> QED BY <1>1, <1>5, <2>3, <4>1, <4>2
    <3> QED BY <3>1 DEF Follows, At, Touches
  <2> QED BY <2>2, <2>3
<1>17. HeldFollows'
  BY <1>16 DEF HeldFollows, Follows, At, Touches
<1> QED BY <1>8, <1>9, <1>10, <1>11, <1>12, <1>13, <1>14, <1>15, <1>17 DEF IndexInv

\* An empty index follows the store.
LEMMA IndexStarts ==
  ASSUME Init
  PROVE  IndexInv
<1>1. /\ DOMAIN held = {} /\ used = 0 /\ evicted = {} /\ clock = 1 /\ room = Free
      /\ total = [k \in Parts |-> 0] /\ doing = [c \in Callers |-> Idle]
      /\ rows = [k \in Parts |-> Initially] /\ behind = {} /\ changes = 0
  BY DEF Init
<1>2. HeldTypes
  <2>1. SumHeld(held) = 0
    BY <1>1, SumEmpty DEF SumHeld
  <2> QED BY <1>1, <2>1, FS_EmptySet DEF HeldTypes
<1>3. \A c \in Callers : doing[c].at = "idle"
  BY <1>1, IdleIs
<1>4. WorkTypes
  BY <1>1, <1>3 DEF WorkTypes
<1>5. OtherTypes
  BY <1>1, VectorAssumption DEF OtherTypes
<1>6. RoomFits /\ OnlyOneTooLarge
  BY <1>1 DEF RoomFits, OnlyOneTooLarge, Unlocked
<1>7. OneWriter /\ Committed /\ BuiltOfRows /\ HeldFollows
  BY <1>1, <1>3 DEF OneWriter, Committed, BuiltOfRows, HeldFollows
<1> QED BY <1>2, <1>4, <1>5, <1>6, <1>7 DEF IndexInv

\* Every step keeps the invariant.
LEMMA IndexSteps ==
  ASSUME IndexInv, [Next]_vars
  PROVE  IndexInv'
<1>1. CASE \E c \in Callers, k \in Parts : Build(c, k) \/ \E w \in Writes : Commit(c, k, w)
  BY <1>1, BuildKeeps, CommitKeeps
<1>2. CASE \E c \in Callers : Hydrate(c) \/ NotHeld(c) \/ Upsert(c) \/ Remove(c) \/ DropPartition(c)
  BY <1>2, HydrateKeeps, NotHeldKeeps, UpsertKeeps, RemoveKeeps, DropKeeps
<1>3. CASE \E k \in Parts : SetPartitionTotal(k) \/ Search(k)
  BY <1>3, TotalKeeps, SearchKeeps
<1>4. CASE Evict \/ Install \/ UpsertDone
  BY <1>4, EvictKeeps, InstallKeeps, UpsertDoneKeeps
<1>5. CASE UNCHANGED vars
  BY <1>5, StutterKeeps
<1> QED BY <1>1, <1>2, <1>3, <1>4, <1>5 DEF Next

\* What is held, built, told and counted, and how it stands to the sealed store.
THEOREM IndexHolds == Spec => []IndexInv
<1>1. Init => IndexInv
  BY IndexStarts
<1>2. IndexInv /\ [Next]_vars => IndexInv'
  BY IndexSteps
<1> QED BY <1>1, <1>2, PTL DEF Spec

\* The index's state is well typed, and used is never negative.
THEOREM IndexTypeCorrect == Spec => []TypeOK
<1>1. ASSUME NEW p \in Partitions
      PROVE  IsPartition(p)
  <2>1. PICK S \in SUBSET Ids : p.positions \in [S -> Nat]
    BY DEF Partitions
  <2>2. /\ DOMAIN p = {"vectors", "positions", "bytes", "last_used"}
        /\ p.vectors \in Seq(Vector) /\ p.bytes \in Nat /\ p.last_used \in Nat
    BY DEF Partitions
  <2>3. DOMAIN p.positions \subseteq Ids /\ p.positions \in [DOMAIN p.positions -> Nat]
    BY <2>1
  <2> QED BY <2>2, <2>3 DEF IsPartition
<1>2. IndexInv => TypeOK
  <2> SUFFICES ASSUME IndexInv PROVE TypeOK
    OBVIOUS
  <2>1. \A k \in DOMAIN held : IsPartition(held[k])
    <3>1. ASSUME NEW k \in DOMAIN held PROVE held[k] \in Partitions
      BY DEF IndexInv, HeldTypes, Sound
    <3> QED BY <1>1, <3>1
  <2>2. used \in Nat
    BY HeldSum DEF IndexInv, HeldTypes
  <2>3. ASSUME NEW c \in Callers PROVE IsDoing(doing[c])
    <3>1. CASE doing[c] = Idle
      BY <3>1 DEF IsDoing
    <3>2. CASE doing[c] # Idle
      <4>1. doing[c].at # "idle"
        BY <3>2 DEF IndexInv, WorkTypes, Works
      <4> QED BY <1>1, <4>1, WorkIs DEF IndexInv, IsDoing
    <3> QED BY <3>1, <3>2
  <2> QED BY <2>1, <2>2, <2>3 DEF IndexInv, HeldTypes, OtherTypes, TypeOK, Rooms
<1> QED BY <1>2, IndexHolds, PTL

\* The budget counts the vectors really in memory and is kept whenever nobody
\* makes room, but for one partition alone (upsert, remove, make_room).
THEOREM BudgetIsKept == Spec => []BudgetHolds
<1>1. IndexInv => BudgetHolds
  <2> SUFFICES ASSUME IndexInv PROVE BudgetHolds
    OBVIOUS
  <2>1. \A k \in DOMAIN held : held[k].bytes = Bytes(held[k])
    BY DEF IndexInv, HeldTypes, Sound
  <2>2. [k \in DOMAIN held |-> Bytes(held[k])] = HeldBytes(held)
    BY <2>1, Zenon DEF HeldBytes
  <2>3. DOMAIN HeldBytes(held) = DOMAIN held
    BY DEF HeldBytes
  <2>4. SumFunction(HeldBytes(held)) = SumHeld(held)
    BY <2>3, Zenon DEF SumFunction, SumHeld
  <2> QED BY <2>2, <2>4 DEF IndexInv, HeldTypes, OnlyOneTooLarge, BudgetHolds
<1> QED BY <1>1, IndexHolds, PTL

-----------------------------------------------------------------------------
(***************************************************************************)
(* Ranking. Two best-first orders of nearest vectors have the same sizes   *)
(* at every place, and a heap fed in any order ends up with nearest ones.  *)
(***************************************************************************)
Sized(S) == \A v \in S : v.size \in Nat

\* The top of a heap that is not empty is its lowest.
LEMMA LowestIs ==
  ASSUME NEW S, Sized(S), S # {}
  PROVE  Lowest(S) \in S /\ \A w \in S : Lowest(S).size <= w.size
<1>1. PICK m \in {v.size : v \in S} : \A z \in {v.size : v \in S} : m <= z
  <2>1. {v.size : v \in S} \in SUBSET Nat /\ {v.size : v \in S} # {}
    BY DEF Sized
  <2> QED BY <2>1, Least
<1>2. \E v \in S : \A w \in S : v.size <= w.size
  BY <1>1
<1> QED BY <1>2, Zenon DEF Lowest

\* What n vectors of S are nearest: no other of S is nearer than one of them.
Nearest(T, S, n) ==
  /\ T \subseteq S /\ IsFiniteSet(T) /\ Cardinality(T) <= n
  /\ Cardinality(T) < n => T = S
  /\ \A v \in T, w \in S \ T : v.size >= w.size

\* Nearest vectors are as many as were asked for, or all.
LEMMA NearestCount ==
  ASSUME NEW S, IsFiniteSet(S), NEW n \in Nat, NEW T \in SUBSET S,
         \A v \in T, w \in S \ T : v.size >= w.size
  PROVE  Nearest(T, S, n) <=>
           Cardinality(T) = IF n <= Cardinality(S) THEN n ELSE Cardinality(S)
<1>1. /\ IsFiniteSet(T) /\ Cardinality(T) \in Nat /\ Cardinality(S) \in Nat
      /\ Cardinality(T) <= Cardinality(S) /\ (Cardinality(T) = Cardinality(S) => T = S)
  <2>1. /\ IsFiniteSet(T) /\ Cardinality(T) <= Cardinality(S)
        /\ Cardinality(T) = Cardinality(S) => S = T
    BY FS_Subset
  <2> QED BY <2>1, FS_CardinalityType
<1>2. ASSUME Nearest(T, S, n)
      PROVE  Cardinality(T) = IF n <= Cardinality(S) THEN n ELSE Cardinality(S)
  BY <1>1, <1>2 DEF Nearest
<1>3. ASSUME Cardinality(T) = IF n <= Cardinality(S) THEN n ELSE Cardinality(S)
      PROVE  Nearest(T, S, n)
  <2>1. Cardinality(T) <= n /\ (Cardinality(T) < n => Cardinality(T) = Cardinality(S))
    BY <1>1, <1>3
  <2> QED BY <1>1, <2>1 DEF Nearest
<1> QED BY <1>2, <1>3

\* At no place is the one nearer than the other.
LEMMA NoneNearer ==
  ASSUME NEW S, IsFiniteSet(S), Sized(S), NEW n \in Nat,
         NEW T, Nearest(T, S, n), NEW U, Nearest(U, S, n),
         NEW K \in Nat, Cardinality(T) = K, Cardinality(U) = K,
         NEW s \in Orders(T), BestFirst(s), NEW u \in Orders(U), BestFirst(u),
         NEW i \in 1..K
  PROVE  s[i].size <= u[i].size
<1> SUFFICES ASSUME ~(s[i].size <= u[i].size) PROVE FALSE
  OBVIOUS
<1>1. IsFiniteSet(T) /\ T \subseteq S /\ IsFiniteSet(U) /\ U \subseteq S
  BY DEF Nearest
<1>2. Lists(s, T) /\ Lists(u, U)
  BY <1>1, OrderIs
<1>3. /\ DOMAIN s = 1..K /\ \A j \in 1..K : s[j] \in T
      /\ \A j, m \in 1..K : s[j] = s[m] => j = m
  BY <1>2 DEF Lists
<1>4. /\ DOMAIN u = 1..K /\ \A j \in 1..K : u[j] \in U
      /\ \A x \in U : \E j \in 1..K : u[j] = x
  BY <1>2 DEF Lists
<1>5. \A j \in 1..K : s[j].size \in Nat /\ u[j].size \in Nat
  BY <1>1, <1>3, <1>4 DEF Sized
<1>6. \A j \in 1..i : j \in 1..K /\ s[j].size > u[i].size
  <2>1. ASSUME NEW j \in 1..i
        PROVE  j \in 1..K /\ s[j].size >= s[i].size
    <3>1. j \in 1..K /\ (j < i \/ j = i)
      OBVIOUS
    <3> QED BY <1>3, <1>5, <3>1 DEF BestFirst
  <2> QED BY <1>5, <2>1
<1>7. \A j \in 1..i : s[j] \in U
  <2>1. ASSUME NEW j \in 1..i, s[j] \notin U
        PROVE  FALSE
    <3>1. u[i] \in U /\ s[j] \in S \ U
      BY <1>1, <1>3, <1>4, <1>6, <2>1
    <3>2. u[i].size >= s[j].size
      BY <3>1 DEF Nearest
    <3> QED BY <1>5, <1>6, <3>2
  <2> QED BY <2>1
<1> DEFINE f == [j \in 1..i |-> CHOOSE m \in 1..K : u[m] = s[j]]
<1>8. ASSUME NEW j \in 1..i
      PROVE  f[j] \in 1..K /\ u[f[j]] = s[j]
  <2>1. \E m \in 1..K : u[m] = s[j]
    BY <1>4, <1>7
  <2>2. f[j] = CHOOSE m \in 1..K : u[m] = s[j]
    OBVIOUS
  <2> HIDE DEF f
  <2> QED BY <2>1, <2>2
<1>9. f = [j \in 1..i |-> f[j]]
  OBVIOUS
<1> HIDE DEF f
<1>10. \A j \in 1..i : f[j] \in 1..i - 1
  <2>1. ASSUME NEW j \in 1..i
        PROVE  f[j] \in 1..i - 1
    <3>1. u[f[j]].size > u[i].size /\ f[j] \in 1..K
      BY <1>6, <1>8
    <3>2. ~(i < f[j]) /\ f[j] # i
      BY <1>4, <1>5, <3>1 DEF BestFirst
    <3> QED BY <3>1, <3>2
  <2> QED BY <2>1
<1>11. f \in [1..i -> 1..i - 1]
  BY <1>9, <1>10
<1>12. /\ IsFiniteSet(1..i) /\ IsFiniteSet(1..i - 1)
       /\ Cardinality(1..i) = i /\ Cardinality(1..i - 1) = i - 1
  <2>1. IsFiniteSet(1..i) /\ Cardinality(1..i) = IF 1 > i THEN 0 ELSE i - 1 + 1
    BY FS_Interval
  <2>2. IsFiniteSet(1..i - 1) /\ Cardinality(1..i - 1) = IF 1 > i - 1 THEN 0 ELSE i - 1 - 1 + 1
    BY FS_Interval
  <2> QED BY <2>1, <2>2
<1>13. \E j, m \in 1..i : j # m /\ f[j] = f[m]
  <2>1. Cardinality(1..i - 1) < Cardinality(1..i)
    BY <1>12
  <2> QED BY <1>11, <1>12, <2>1, FS_PigeonHole
<1> QED BY <1>3, <1>6, <1>8, <1>13

\* Every finite set of vectors can be ranked, the lowest of them last.
LEMMA RankingExists ==
  ASSUME NEW S, IsFiniteSet(S), Sized(S)
  PROVE  \E s \in Orders(S) : BestFirst(s)
<1> DEFINE B == {T \in SUBSET S : ~\E s \in Orders(T) : BestFirst(s)}
<1> SUFFICES ASSUME B # {} PROVE FALSE
  OBVIOUS
<1>1. PICK T \in B : \A U \in B : U \subseteq T => U = T
  <2>1. B \subseteq SUBSET S
    OBVIOUS
  <2> HIDE DEF B
  <2> QED BY <2>1, SmallestSet
<1>2. IsFiniteSet(T) /\ Sized(T) /\ Cardinality(T) \in Nat
  <2>1. IsFiniteSet(T)
    BY <1>1, FS_Subset
  <2> QED BY <1>1, <2>1, FS_CardinalityType DEF Sized
<1>3. T # {}
  <2>1. SUFFICES ASSUME T = {} PROVE FALSE
    OBVIOUS
  <2> DEFINE s == [i \in 1..0 |-> 0]
  <2>2. Cardinality(T) = 0
    BY <2>1, FS_EmptySet
  <2>3. s \in [1..Cardinality(T) -> T] /\ DOMAIN s = {} /\ BestFirst(s)
    BY <2>2 DEF BestFirst
  <2>4. s \in Orders(T)
    BY <2>3 DEF Orders
  <2> QED BY <1>1, <2>3, <2>4
<1> DEFINE low == Lowest(T)
           R == T \ {low}
           N == Cardinality(T)
<1>4. low \in T /\ \A w \in T : low.size <= w.size
  BY <1>2, <1>3, LowestIs
<1>5. IsFiniteSet(R) /\ N \in Nat /\ N - 1 \in Nat /\ Cardinality(R) = N - 1
  <2>1. IsFiniteSet(R) /\ Cardinality(R) = IF low \in T THEN N - 1 ELSE N
    BY <1>2, FS_RemoveElement
  <2> QED BY <1>2, <1>4, <2>1, FS_CardinalityType
<1>6. PICK r \in Orders(R) : BestFirst(r)
  <2>1. R \notin B /\ R \in SUBSET S
    BY <1>1, <1>4
  <2> QED BY <2>1
<1>7. /\ r \in [1..N - 1 -> R] /\ DOMAIN r = 1..N - 1
      /\ \A i, j \in 1..N - 1 : r[i] = r[j] => i = j
  BY <1>5, <1>6 DEF Orders
<1> HIDE DEF low, N
<1> DEFINE s == [i \in 1..N |-> IF i = N THEN low ELSE r[i]]
<1>8. \A i \in 1..N : IF i = N THEN s[i] = low ELSE i \in 1..N - 1 /\ s[i] = r[i] /\ s[i] \in R
  <2>1. \A i \in 1..N : i = N \/ i \in 1..N - 1
    BY <1>5
  <2> QED BY <1>7, <2>1
<1>9. s \in [1..N -> T] /\ DOMAIN s = 1..N
  BY <1>4, <1>8
<1> HIDE DEF s
<1>10. \A i, j \in 1..N : s[i] = s[j] => i = j
  BY <1>7, <1>8
<1>11. s \in Orders(T)
  BY <1>9, <1>10 DEF Orders, N
<1>12. ASSUME NEW i \in 1..N, NEW j \in 1..N, i < j
       PROVE  s[i].size >= s[j].size
  <2>1. i # N /\ i \in 1..N - 1 /\ s[i] = r[i] /\ s[i] \in T
    BY <1>5, <1>8, <1>12
  <2>2. CASE j = N
    <3>1. s[j].size <= s[i].size /\ s[j] \in T
      BY <1>4, <1>8, <2>1, <2>2
    <3> QED BY <1>2, <2>1, <3>1 DEF Sized
  <2>3. CASE j # N
    BY <1>6, <1>7, <1>8, <1>12, <2>1, <2>3 DEF BestFirst
  <2> QED BY <2>2, <2>3
<1>13. BestFirst(s)
  BY <1>9, <1>12 DEF BestFirst
<1> QED BY <1>1, <1>11, <1>13

\* The heap as it is fed.
Feeds(h, order, n) ==
  h = [i \in 0..Len(order) |-> IF i = 0 THEN {} ELSE Pushed(h[i - 1], order[i], n)]
Fed(order, n) == CHOOSE h : Feeds(h, order, n)

\* What the recursion of Streamed is called below.
LEMMA StreamedIs ==
  ASSUME NEW order, NEW n
  PROVE  Streamed(order, n) = Fed(order, n)[Len(order)]
BY Zenon DEF Streamed, Fed, Feeds

\* It has a solution, as the order is finite.
LEMMA FedIs ==
  ASSUME NEW order, Len(order) \in Nat, NEW n
  PROVE  Feeds(Fed(order, n), order, n)
<1> DEFINE N == Len(order)
           Next1(h, i) == IF i = 0 THEN {} ELSE Pushed(h[i - 1], order[i], n)
           Good(h, m) == DOMAIN h = 0..N /\ \A i \in 0..N : i <= m => h[i] = Next1(h, i)
           B == {m \in Nat : ~\E h : Good(h, m)}
<1>1. B = {}
  <2> SUFFICES ASSUME B # {} PROVE FALSE
    OBVIOUS
  <2>1. PICK m \in B : \A k \in B : m <= k
    <3>1. B \subseteq Nat
      OBVIOUS
    <3> HIDE DEF B
    <3> QED BY <3>1, Least
  <2>2. CASE m = 0
    <3> DEFINE h == [i \in 0..N |-> {}]
    <3>1. \A i \in 0..N : i <= 0 => h[i] = Next1(h, i)
      OBVIOUS
    <3>2. Good(h, 0)
      BY <3>1
    <3> QED BY <2>1, <2>2, <3>2
  <2>3. CASE m # 0
    <3>1. m \in Nat /\ m - 1 \in Nat /\ m - 1 \notin B
      <4>1. m \in Nat
        BY <2>1
      <4> HIDE DEF B
      <4> QED BY <2>1, <2>3, <4>1
    <3>2. PICK h : Good(h, m - 1)
      BY <3>1
    <3> DEFINE g == [i \in 0..N |-> Next1(h, i)]
    <3>3. ASSUME NEW i \in 0..N, i <= m
          PROVE  g[i] = Next1(g, i)
      <4>1. CASE i = 0
        BY <4>1
      <4>2. CASE i # 0
        <5>1. i - 1 \in 0..N /\ i - 1 <= m - 1
          BY <3>1, <3>3, <4>2
        <5>2. g[i - 1] = h[i - 1]
          BY <3>2, <5>1
        <5>3. g[i] = Next1(h, i)
          OBVIOUS
        <5> HIDE DEF g
        <5> QED BY <4>2, <5>2, <5>3
      <4> QED BY <4>1, <4>2
    <3>4. DOMAIN g = 0..N
      OBVIOUS
    <3> HIDE DEF g
    <3>5. Good(g, m)
      BY <3>3, <3>4
    <3> QED BY <2>1, <3>5
  <2> QED BY <2>2, <2>3
<1>2. PICK h : Good(h, N)
  BY <1>1
<1> DEFINE g == [i \in 0..N |-> h[i]]
<1>3. g = [i \in 0..N |-> Next1(g, i)]
  <2>1. ASSUME NEW i \in 0..N PROVE h[i] = Next1(g, i)
    <3>1. h[i] = Next1(h, i)
      BY <1>2
    <3>2. i # 0 => g[i - 1] = h[i - 1]
      BY <1>2
    <3> HIDE DEF g
    <3> QED BY <3>1, <3>2
  <2> QED BY <2>1
<1> HIDE DEF g
<1>4. Feeds(g, order, n)
  BY <1>3 DEF Feeds
<1> QED BY <1>4, Zenon DEF Fed

\* One more vector is offered to a heap of the nearest so far.
LEMMA PushedNearest ==
  ASSUME NEW S, Sized(S), NEW n \in Nat, NEW h, Nearest(h, S, n),
         NEW x, x.size \in Nat, x \notin S
  PROVE  Nearest(Pushed(h, x, n), S \cup {x}, n)
<1> DEFINE low == Lowest(h)
           g == Pushed(h, x, n)
<1>1. /\ h \subseteq S /\ IsFiniteSet(h) /\ Cardinality(h) \in Nat /\ Cardinality(h) <= n
      /\ Cardinality(h) < n => h = S
      /\ \A v \in h, w \in S \ h : v.size >= w.size
      /\ \A v \in S : v.size \in Nat
  BY FS_CardinalityType DEF Nearest, Sized
<1>2. h # {} => low \in h /\ \A w \in h : low.size <= w.size
  <2>1. Sized(h)
    BY <1>1 DEF Sized
  <2> QED BY <2>1, LowestIs
<1>3. x \notin h /\ IsFiniteSet(h \cup {x}) /\ Cardinality(h \cup {x}) = Cardinality(h) + 1
  <2>1. x \notin h
    BY <1>1
  <2> QED BY <1>1, <2>1, FS_AddElement
<1> HIDE DEF low
<1>4. CASE Cardinality(h) < n
  <2>1. g = h \cup {x}
    BY <1>1, <1>4 DEF Pushed, Accepts
  <2>2. h = S
    BY <1>1, <1>4
  <2>3. Cardinality(g) <= n /\ g = S \cup {x} /\ IsFiniteSet(g)
    BY <1>1, <1>3, <1>4, <2>1, <2>2
  <2> HIDE DEF g
  <2>4. Nearest(g, S \cup {x}, n)
    BY <2>3 DEF Nearest
  <2> QED BY <2>4 DEF g
<1>5. CASE Cardinality(h) = n /\ (n = 0 \/ ~(x.size > low.size))
  <2>1. g = h
    BY <1>1, <1>5 DEF Pushed, Accepts, low
  <2>2. ASSUME NEW v \in h, NEW w \in (S \cup {x}) \ h
        PROVE  v.size >= w.size
    <3>1. CASE w = x
      <4>1. h # {} /\ n # 0
        BY <1>1, <1>5, FS_EmptySet
      <4>2. low \in h /\ low.size <= v.size /\ ~(x.size > low.size)
        BY <1>2, <1>5, <4>1
      <4>3. v.size \in Nat /\ low.size \in Nat
        BY <1>1, <4>2
      <4> QED BY <3>1, <4>2, <4>3
    <3>2. CASE w # x
      BY <1>1, <3>2
    <3> QED BY <3>1, <3>2
  <2>3. h \subseteq S \cup {x} /\ Cardinality(h) <= n /\ ~(Cardinality(h) < n)
    BY <1>1, <1>5
  <2> HIDE DEF g
  <2>4. Nearest(h, S \cup {x}, n)
    BY <1>1, <2>2, <2>3 DEF Nearest
  <2> QED BY <2>1, <2>4 DEF g
<1>6. CASE Cardinality(h) = n /\ n > 0 /\ x.size > low.size
  <2>1. g = (h \ {low}) \cup {x}
    BY <1>1, <1>6 DEF Pushed, Accepts, low
  <2>2. low \in h /\ \A w \in h : low.size <= w.size
    <3>1. h # {}
      BY <1>6, FS_EmptySet
    <3> QED BY <1>2, <3>1
  <2>3. IsFiniteSet(g) /\ Cardinality(g) = n
    <3>1. IsFiniteSet(h \ {low}) /\ Cardinality(h \ {low}) = n - 1
      <4>1. /\ IsFiniteSet(h \ {low})
            /\ Cardinality(h \ {low}) = IF low \in h THEN Cardinality(h) - 1 ELSE Cardinality(h)
        BY <1>1, FS_RemoveElement
      <4> QED BY <1>6, <2>2, <4>1
    <3>2. x \notin h \ {low}
      BY <1>3
    <3>3. /\ IsFiniteSet((h \ {low}) \cup {x})
          /\ Cardinality((h \ {low}) \cup {x}) =
               IF x \in h \ {low} THEN Cardinality(h \ {low}) ELSE Cardinality(h \ {low}) + 1
      BY <3>1, FS_AddElement
    <3> QED BY <1>6, <2>1, <3>1, <3>2, <3>3
  <2>4. ASSUME NEW v \in g, NEW w \in (S \cup {x}) \ g
        PROVE  v.size >= w.size
    <3>1. w \in S /\ (w = low \/ w \in S \ h) /\ w.size \in Nat /\ low.size \in Nat
      BY <1>1, <2>1, <2>2, <2>4
    <3>2. low.size >= w.size
      BY <1>1, <2>2, <3>1
    <3>3. v.size >= low.size /\ v.size \in Nat
      BY <1>1, <1>6, <2>1, <2>2, <2>4, <3>1
    <3> QED BY <3>1, <3>2, <3>3
  <2>5. g \subseteq S \cup {x}
    BY <1>1, <2>1
  <2> HIDE DEF g
  <2>6. Nearest(g, S \cup {x}, n)
    BY <2>3, <2>4, <2>5 DEF Nearest
  <2> QED BY <2>6 DEF g
<1> QED BY <1>1, <1>4, <1>5, <1>6

\* TopK: in whatever order vectors come, the heap ends with nearest ones.
LEMMA StreamedNearest ==
  ASSUME NEW S, IsFiniteSet(S), Sized(S), NEW order \in Orders(S), NEW n \in Nat
  PROVE  Nearest(Streamed(order, n), S, n)
<1> DEFINE N == Cardinality(S)
           h == Fed(order, n)
           Seen(i) == {order[j] : j \in 1..i}
<1>1. /\ N \in Nat /\ order \in [1..N -> S] /\ DOMAIN order = 1..N
      /\ \A i, j \in 1..N : order[i] = order[j] => i = j
      /\ \A x \in S : \E i \in 1..N : order[i] = x
  <2>1. Lists(order, S)
    BY OrderIs
  <2> QED BY <2>1 DEF Lists
<1>2. Len(order) = N
  <2>1. order \in Seq(S)
    <3> HIDE DEF N
    <3> QED BY <1>1
  <2> HIDE DEF N
  <2> QED BY <1>1, <2>1
<1>3. h = [i \in 0..N |-> IF i = 0 THEN {} ELSE Pushed(h[i - 1], order[i], n)]
  <2>1. Feeds(h, order, n)
    <3>1. Len(order) \in Nat
      BY <1>1, <1>2
    <3> QED BY <3>1, FedIs
  <2> QED BY <1>2, <2>1 DEF Feeds
<1> HIDE DEF h, N
<1>4. h[0] = {} /\ \A i \in 1..N : h[i] = Pushed(h[i - 1], order[i], n)
  <2>1. 0 \in 0..N /\ \A i \in 1..N : i \in 0..N /\ i # 0
    BY <1>1
  <2> QED BY <1>3, <2>1
<1> DEFINE B == {i \in 0..N : ~Nearest(h[i], Seen(i), n)}
<1>5. B = {}
  <2> SUFFICES ASSUME B # {} PROVE FALSE
    OBVIOUS
  <2>1. PICK m \in B : \A k \in B : m <= k
    <3>1. B \subseteq Nat
      BY <1>1
    <3> HIDE DEF B
    <3> QED BY <3>1, Least
  <2>2. m \in 0..N /\ ~Nearest(h[m], Seen(m), n)
    BY <2>1
  <2>3. m # 0
    <3>1. Nearest({}, {}, n)
      BY FS_EmptySet DEF Nearest
    <3>2. Seen(0) = {}
      OBVIOUS
    <3> HIDE DEF Seen
    <3> QED BY <1>4, <2>2, <3>1, <3>2
  <2>4. m - 1 \in 0..N /\ m - 1 \notin B /\ m \in 1..N
    <3>1. m - 1 \in 0..N /\ m \in 1..N
      BY <1>1, <2>2, <2>3
    <3>2. ~(m <= m - 1)
      BY <3>1
    <3> HIDE DEF B
    <3> QED BY <2>1, <3>1, <3>2
  <2>5. Nearest(h[m - 1], Seen(m - 1), n)
    BY <2>4
  <2>6. Seen(m) = Seen(m - 1) \cup {order[m]} /\ order[m] \notin Seen(m - 1)
    <3>1. \A j \in 1..m : j = m \/ j \in 1..m - 1
      BY <2>4
    <3>2. \A j \in 1..m - 1 : j \in 1..m /\ j \in 1..N /\ j # m
      BY <1>1, <2>4
    <3>3. m \in 1..m
      BY <2>4
    <3> QED BY <1>1, <2>4, <3>1, <3>2, <3>3
  <2>7. Sized(Seen(m - 1)) /\ order[m].size \in Nat
    <3>1. \A j \in 1..N : order[j].size \in Nat
      BY <1>1 DEF Sized
    <3>2. \A j \in 1..m - 1 : j \in 1..N
      BY <1>1, <2>4
    <3> QED BY <2>4, <3>1, <3>2 DEF Sized
  <2> HIDE DEF Seen
  <2>8. Nearest(Pushed(h[m - 1], order[m], n), Seen(m - 1) \cup {order[m]}, n)
    BY <2>5, <2>6, <2>7, PushedNearest
  <2> QED BY <1>4, <2>2, <2>4, <2>6, <2>8
<1>6. Nearest(h[N], Seen(N), n)
  <2>1. N \in 0..N
    BY <1>1
  <2> QED BY <1>5, <2>1
<1>7. Seen(N) = S
  BY <1>1
<1>8. Streamed(order, n) = h[N]
  BY <1>2, StreamedIs DEF h
<1> HIDE DEF Seen
<1> QED BY <1>6, <1>7, <1>8

Sought(p, keep) == {v \in Range(p.vectors) : v.id \in keep}

\* A partition of the vectors of S is searched as a stream of them is.
LEMMA SameScores ==
  ASSUME NEW p, NEW keep, NEW S, IsFiniteSet(S), Sized(S),
         S = Sought(p, keep),
         NEW order \in Orders(S), NEW n \in Nat
  PROVE  {Scores(s) : s \in top_k(p, n, keep)} = {Scores(into_sorted(Streamed(order, n)))}
<1> DEFINE K == IF n <= Cardinality(S) THEN n ELSE Cardinality(S)
           Near(T) == Cardinality(T) = K /\ \A v \in T, w \in S \ T : v.size >= w.size
           heap == Streamed(order, n)
           best == into_sorted(heap)
<1>1. top_k(p, n, keep) = {s \in UNION {Orders(T) : T \in {T \in SUBSET S : Near(T)}} : BestFirst(s)}
  BY Zenon DEF top_k, Sought
<1>2. \A T \in SUBSET S : Near(T) <=> Nearest(T, S, n)
  <2>1. ASSUME NEW T \in SUBSET S
        PROVE  Near(T) <=> Nearest(T, S, n)
    <3>1. CASE \A v \in T, w \in S \ T : v.size >= w.size
      <4>1. Nearest(T, S, n) <=> Cardinality(T) = K
        BY <3>1, NearestCount
      <4> QED BY <3>1, <4>1
    <3>2. CASE ~\A v \in T, w \in S \ T : v.size >= w.size
      BY <3>2 DEF Nearest
    <3> QED BY <3>1, <3>2
  <2> QED BY <2>1
<1> HIDE DEF K
<1>3. Nearest(heap, S, n) /\ heap \in SUBSET S
  <2>1. Nearest(heap, S, n)
    BY StreamedNearest
  <2> QED BY <2>1 DEF Nearest
<1> HIDE DEF heap
<1>4. best \in Orders(heap) /\ BestFirst(best)
  <2>1. IsFiniteSet(heap) /\ Sized(heap)
    BY <1>3 DEF Nearest, Sized
  <2>2. \E s \in Orders(heap) : BestFirst(s)
    BY <2>1, RankingExists
  <2> QED BY <2>2, Zenon DEF into_sorted
<1> HIDE DEF best
<1>5. best \in top_k(p, n, keep)
  <2>1. Near(heap)
    BY <1>2, <1>3
  <2> HIDE DEF Near
  <2> QED BY <1>1, <1>3, <1>4, <2>1
<1>6. ASSUME NEW s \in top_k(p, n, keep)
      PROVE  Scores(s) = Scores(best)
  <2>1. PICK T \in SUBSET S : Near(T) /\ s \in Orders(T) /\ BestFirst(s)
    <3> HIDE DEF Near
    <3> QED BY <1>1
  <2>2. Nearest(T, S, n) /\ Near(heap)
    BY <1>2, <1>3, <2>1
  <2>3. Cardinality(T) = K /\ Cardinality(heap) = K
    BY <2>1, <2>2
  <2>4. K \in Nat /\ DOMAIN s = 1..K /\ DOMAIN best = 1..K
        /\ (\A i \in 1..K : s[i] \in S) /\ (\A i \in 1..K : best[i] \in S)
    <3>1. IsFiniteSet(T) /\ IsFiniteSet(heap)
      BY <1>3, <2>2 DEF Nearest
    <3>2. Lists(s, T) /\ Lists(best, heap)
      BY <1>4, <2>1, <3>1, OrderIs
    <3> QED BY <1>3, <2>3, <3>2 DEF Lists
  <2>5. ASSUME NEW i \in 1..K
        PROVE  s[i].size = best[i].size
    <3>1. s[i].size <= best[i].size
      BY <1>3, <1>4, <2>1, <2>2, <2>3, <2>4, NoneNearer
    <3>2. best[i].size <= s[i].size
      BY <1>3, <1>4, <2>1, <2>2, <2>3, <2>4, NoneNearer
    <3>3. s[i].size \in Nat /\ best[i].size \in Nat
      BY <2>4 DEF Sized
    <3> QED BY <3>1, <3>2, <3>3
  <2>6. Scores(s) = [i \in 1..K |-> s[i].size] /\ Scores(best) = [i \in 1..K |-> best[i].size]
    BY <2>4 DEF Scores
  <2> QED BY <2>5, <2>6
<1>7. {Scores(s) : s \in top_k(p, n, keep)} = {Scores(best)}
  BY <1>5, <1>6
<1> QED BY <1>7 DEF best, heap

\* What a partition holds that follows the rows: each of them once.
LEMMA HoldsTheRows ==
  ASSUME IndexInv, NEW k \in DOMAIN held \ behind, ~Writing(k)
  PROVE  /\ Contents(held[k]) = Stored(k) /\ Range(held[k].vectors) = Stored(k)
         /\ IsFiniteSet(Stored(k)) /\ Sized(Stored(k))
<1>1. PICK p : p = held[k]
  OBVIOUS
<1>2. Sound(p) /\ k \in Parts
  BY <1>1 DEF IndexInv, HeldTypes
<1>3. /\ p.vectors \in Seq(Vector) /\ Len(p.vectors) \in Nat /\ DOMAIN p.vectors = 1..Len(p.vectors)
      /\ DOMAIN p.positions \in SUBSET Ids
      /\ \A id \in DOMAIN p.positions :
           p.positions[id] \in 1..Len(p.vectors) /\ p.vectors[p.positions[id]].id = id
      /\ \A i \in 1..Len(p.vectors) :
           p.vectors[i].id \in DOMAIN p.positions /\ p.positions[p.vectors[i].id] = i
      /\ \A i \in 1..Len(p.vectors) :
           p.vectors[i] \in Vector /\ p.vectors[i].size \in Sizes /\ p.vectors[i].id \in Ids
  BY <1>2, SoundIs
<1>4. rows[k] \in [Ids -> Sizes \cup {0}] /\ Sizes \subseteq Nat \ {0} /\ IsFiniteSet(Ids)
  BY <1>2, VectorAssumption DEF IndexInv, OtherTypes
<1>5. \A id \in Ids : At(p, id) = rows[k][id]
  <2>1. \A e \in Callers : ~(doing[e].at = "write" /\ doing[e].part = k)
    BY DEF Writing
  <2> QED BY <1>1, <2>1 DEF IndexInv, HeldFollows, Follows
<1>6. \A i \in 1..Len(p.vectors) :
        [id |-> p.vectors[i].id, size |-> p.vectors[i].size] = p.vectors[i]
  BY <1>3 DEF Vector
<1>7. Contents(p) = Range(p.vectors)
  <2>1. Contents(p) = {[id |-> p.vectors[i].id, size |-> p.vectors[i].size] : i \in 1..Len(p.vectors)}
    BY <1>3 DEF Contents
  <2>2. Range(p.vectors) = {p.vectors[i] : i \in 1..Len(p.vectors)}
    BY <1>3 DEF Range
  <2>3. {[id |-> p.vectors[i].id, size |-> p.vectors[i].size] : i \in 1..Len(p.vectors)}
          = {p.vectors[i] : i \in 1..Len(p.vectors)}
    BY <1>6, Zenon
  <2> QED BY <2>1, <2>2, <2>3
<1>8. ASSUME NEW i \in 1..Len(p.vectors)
      PROVE  p.vectors[i] \in Stored(k)
  <2>1. p.vectors[i].id \in Ids /\ rows[k][p.vectors[i].id] = p.vectors[i].size
    BY <1>3, <1>5 DEF At
  <2>2. p.vectors[i].size \in Nat \ {0}
    BY <1>3, <1>4, Zenon
  <2>3. rows[k][p.vectors[i].id] > 0
    BY <2>1, <2>2
  <2>4. p.vectors[i].id \in Rows(k)
    BY <2>1, <2>3 DEF Rows
  <2> QED BY <1>6, <2>1, <2>4 DEF Stored
<1>9. ASSUME NEW id \in Rows(k)
      PROVE  \E i \in 1..Len(p.vectors) : p.vectors[i] = [id |-> id, size |-> rows[k][id]]
  <2>1. id \in Ids /\ rows[k][id] > 0
    BY DEF Rows
  <2>2. id \in DOMAIN p.positions /\ p.vectors[p.positions[id]].size = rows[k][id]
    BY <1>5, <2>1 DEF At
  <2> QED BY <1>3, <1>6, <2>2
<1>10. Range(p.vectors) = Stored(k)
  BY <1>3, <1>8, <1>9 DEF Range, Stored
<1>11. IsFiniteSet(Stored(k))
  <2>1. IsFiniteSet(Rows(k))
    BY <1>4, FS_Subset DEF Rows
  <2> DEFINE f == [id \in Rows(k) |-> [id |-> id, size |-> rows[k][id]]]
  <2>2. \A v \in Stored(k) : \E id \in Rows(k) : f[id] = v
    BY DEF Stored
  <2>3. f \in [Rows(k) -> Stored(k)]
    BY DEF Stored
  <2> HIDE DEF f
  <2>4. f \in Surjection(Rows(k), Stored(k))
    BY <2>2, <2>3 DEF Surjection
  <2> QED BY <2>1, <2>4, FS_Surjection
<1>12. Sized(Stored(k))
  <2>1. \A id \in Rows(k) : rows[k][id] \in Nat
    <3>1. Sizes \cup {0} \subseteq Nat
      BY <1>4
    <3> QED BY <1>4, <3>1, Zenon DEF Rows
  <2> QED BY <2>1 DEF Sized, Stored
<1> QED BY <1>1, <1>7, <1>10, <1>11, <1>12

\* A search sees what the sealed store holds and ranks it as a caller does that
\* opens the rows one by one, unless a change is being told or overtook the
\* hydration (upsert, remove, search_filtered, TopK).
THEOREM SearchServesTheStore == Spec => []ServesTheStore
<1>1. IndexInv => ServesTheStore
  <2> SUFFICES ASSUME IndexInv, NEW k \in DOMAIN held \ behind, Unlocked, ~Writing(k)
               PROVE  /\ Contents(held[k]) = Stored(k)
                      /\ \A n \in 0..Cardinality(Ids), keep \in SUBSET Ids :
                           \A order \in Orders({v \in Stored(k) : v.id \in keep}) :
                             {Scores(s) : s \in top_k(held[k], n, keep)} =
                               {Scores(into_sorted(Streamed(order, n)))}
    BY DEF ServesTheStore
  <2>1. /\ Contents(held[k]) = Stored(k) /\ Range(held[k].vectors) = Stored(k)
        /\ IsFiniteSet(Stored(k)) /\ Sized(Stored(k))
    BY HoldsTheRows
  <2>2. ASSUME NEW n \in 0..Cardinality(Ids), NEW keep \in SUBSET Ids,
               NEW order \in Orders({v \in Stored(k) : v.id \in keep})
        PROVE  {Scores(s) : s \in top_k(held[k], n, keep)} =
                 {Scores(into_sorted(Streamed(order, n)))}
    <3> DEFINE S == {v \in Stored(k) : v.id \in keep}
    <3>1. S \in SUBSET Stored(k) /\ {v \in Range(held[k].vectors) : v.id \in keep} = S
      BY <2>1
    <3>2. IsFiniteSet(S) /\ Sized(S)
      BY <2>1, <3>1, FS_Subset DEF Sized
    <3>3. n \in Nat
      BY VectorAssumption, FS_CardinalityType
    <3>4. order \in Orders(S)
      OBVIOUS
    <3>5. PICK p : p = held[k]
      OBVIOUS
    <3> HIDE DEF S
    <3>6. S = Sought(p, keep)
      BY <3>1, <3>5 DEF Sought
    <3>7. {Scores(s) : s \in top_k(p, n, keep)} = {Scores(into_sorted(Streamed(order, n)))}
      BY <3>2, <3>3, <3>4, <3>6, SameScores
    <3> QED BY <3>5, <3>7
  <2> QED BY <2>1, <2>2
<1> QED BY <1>1, IndexHolds, PTL
=============================================================================
