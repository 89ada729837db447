------------------------ MODULE SessionStoreProofs ------------------------
(***************************************************************************)
(* Proofs about SessionStore, for any number of handlers, sessions and     *)
(* shards.                                                                 *)
(***************************************************************************)
EXTENDS SessionStore, FiniteSetTheorems, TLAPS

\* The state of a pass that other handlers cannot falsify: eviction compares
\* with an instant that is not in the future; while nobody has called clear,
\* nobody is clearing; and clear has emptied the shards behind it of all the
\* sessions it found.
PassInv ==
    /\ \A h \in Handlers : scan[h].now <= clock
    /\ clears = 0 => \A h \in Handlers : pc[h] # "clearing"
    /\ \A h \in Handlers : pc[h] = "clearing" =>
          /\ scan[h].old \subseteq used
          /\ \A s \in scan[h].old \cap present : ShardOf(s) >= scan[h].shard

\* A remainder is a word, and a number that is a word is its own remainder.
LEMMA WordRemainder ==
    /\ \A n \in Int : n % Word \in 0 .. Word - 1
    /\ \A n \in 0 .. Word - 1 : n % Word = n
BY ConstantsAssumption, Z3

\* Every session has its shard.
LEMMA ShardRange == \A s \in Sessions : ShardOf(s) \in 0 .. ShardCount - 1
BY ConstantsAssumption, Z3 DEF Sessions, ShardOf

\* The stored sessions are finitely many, fewer than there are words.
LEMMA StoredSessions ==
    ASSUME TypeOK
    PROVE  \A S \in SUBSET present : /\ IsFiniteSet(S)
                                     /\ Cardinality(S) \in 0 .. Word - 1
<1> USE ConstantsAssumption
<1>1. IsFiniteSet(Sessions) /\ Cardinality(Sessions) = SessionCount
  BY FS_Interval DEF Sessions
<1> SUFFICES ASSUME NEW S \in SUBSET present
             PROVE  IsFiniteSet(S) /\ Cardinality(S) \in 0 .. Word - 1
  OBVIOUS
<1>2. S \in SUBSET Sessions
  BY DEF TypeOK
<1>3. IsFiniteSet(S) /\ Cardinality(S) <= SessionCount
  BY <1>1, <1>2, FS_Subset
<1>4. Cardinality(S) \in Nat
  BY <1>3, FS_CardinalityType
<1> QED
  BY <1>3, <1>4

\* TypeOK is an invariant: the counter stays a word and the entries stay well
\* formed through every operation on the shards.
THEOREM SessionTypeInvariant == Spec => []TypeOK
<1>1. Init => TypeOK
  BY ConstantsAssumption DEF Init, TypeOK, NoScan, Scan, Sessions
<1>2. TypeOK /\ [Next]_vars => TypeOK'
  <2> SUFFICES ASSUME TypeOK, [Next]_vars PROVE TypeOK'
    OBVIOUS
  <2> USE ConstantsAssumption
  <2>f. \A S \in SUBSET present : IsFiniteSet(S) /\ Cardinality(S) \in Nat
    BY StoredSessions
  <2>m. \A n \in Nat : Minus(n) \in 0 .. Word - 1
    BY WordRemainder DEF Minus, TypeOK
  <2>1. CASE Tick
    BY <2>1 DEF TypeOK, Tick
  <2>2. ASSUME NEW h \in Handlers, CheckCapacity(h) PROVE TypeOK'
    BY <2>2 DEF TypeOK, CheckCapacity, NoScan, Scan
  <2>3. ASSUME NEW h \in Handlers, Evict(h) PROVE TypeOK'
    <3> DEFINE k == scan[h].shard
               idle == {s \in InShard(k) : IsIdle(s, scan[h].now)}
               total == scan[h].total
                          + Cardinality({s \in InShard(k) : ~ IsIdle(s, scan[h].now)})
    <3>1. Cardinality(idle) \in Nat /\ total \in Nat
      BY <2>f DEF InShard, TypeOK, Scan
    <3>2. count' \in 0 .. Word - 1
      BY <2>3, <2>m, <3>1 DEF Evict, EvictShard
    <3>3. present' \subseteq used' /\ used' \subseteq Sessions
          /\ lastAccess' \in [Sessions -> 0 .. MaxTime]
      BY <2>3 DEF Evict, EvictShard, RemoveEntries, TypeOK
    <3> HIDE DEF total
    <3>4. pc' \in [Handlers -> {"ready", "evicting", "accepted", "clearing"}]
          /\ scan' \in [Handlers -> Scan]
      BY <2>3, <3>1 DEF Evict, TypeOK, Scan, NoScan, total
    <3> QED
      BY <2>3, <3>2, <3>3, <3>4 DEF Evict, TypeOK
  <2>4. ASSUME NEW h \in Handlers, NEW s \in Sessions, Set(h, s) PROVE TypeOK'
    <3>1. count' \in 0 .. Word - 1
      BY <2>4, WordRemainder DEF Set, Plus, TypeOK
    <3> QED
      BY <2>4, <3>1 DEF Set, TypeOK
  <2>5. ASSUME NEW h \in Handlers, CreateFails(h) PROVE TypeOK'
    BY <2>5 DEF TypeOK, CreateFails
  <2>6. ASSUME NEW h \in Handlers, ClearStart(h) PROVE TypeOK'
    BY <2>6 DEF TypeOK, ClearStart, NoScan, Scan
  <2>7. ASSUME NEW h \in Handlers, ClearShard(h) PROVE TypeOK'
    BY <2>7 DEF TypeOK, ClearShard, LastShard, RemoveEntries, Scan
  <2>8. ASSUME NEW h \in Handlers, ClearCount(h) PROVE TypeOK'
    BY <2>8 DEF TypeOK, ClearCount, NoScan, Scan
  <2>9. ASSUME NEW s \in Sessions, Get(s) PROVE TypeOK'
    BY <2>9 DEF TypeOK, Get
  <2>10. ASSUME NEW s \in Sessions, Delete(s) PROVE TypeOK'
    BY <2>10, <2>m DEF TypeOK, Delete, RemoveEntries
  <2>11. CASE UNCHANGED vars
    BY <2>11 DEF TypeOK, vars
  <2> QED
    BY <2>1, <2>2, <2>3, <2>4, <2>5, <2>6, <2>7, <2>8, <2>9, <2>10, <2>11 DEF Next
<1> QED
  BY <1>1, <1>2, PTL DEF Spec

\* Nobody else's step falsifies what a pass relies on.
LEMMA PassInvariant == Spec => []PassInv
<1>1. Init => PassInv
  BY ConstantsAssumption DEF Init, PassInv, NoScan
<1>2. TypeOK /\ PassInv /\ [Next]_vars => PassInv'
  <2> SUFFICES ASSUME TypeOK, PassInv, [Next]_vars PROVE PassInv'
    OBVIOUS
  <2> USE ConstantsAssumption
  <2>1. CASE Tick
    BY <2>1 DEF TypeOK, PassInv, Tick, Scan
  <2>2. ASSUME NEW h \in Handlers, CheckCapacity(h) PROVE PassInv'
    BY <2>2 DEF TypeOK, PassInv, CheckCapacity, NoScan, Scan
  <2>3. ASSUME NEW h \in Handlers, Evict(h) PROVE PassInv'
    BY <2>3 DEF TypeOK, PassInv, Evict, EvictShard, RemoveEntries, NoScan, Scan
  <2>4. ASSUME NEW h \in Handlers, NEW s \in Sessions, Set(h, s) PROVE PassInv'
    BY <2>4 DEF TypeOK, PassInv, Set
  <2>5. ASSUME NEW h \in Handlers, CreateFails(h) PROVE PassInv'
    BY <2>5 DEF TypeOK, PassInv, CreateFails
  <2>6. ASSUME NEW h \in Handlers, ClearStart(h) PROVE PassInv'
    <3>1. \A s \in present : ShardOf(s) >= 0
      BY ShardRange DEF TypeOK
    <3> QED
      BY <2>6, <3>1 DEF TypeOK, PassInv, ClearStart, NoScan, Scan
  <2>7. ASSUME NEW h \in Handlers, ClearShard(h) PROVE PassInv'
    <3>1. \A s \in present : ShardOf(s) \in 0 .. ShardCount - 1
      BY ShardRange DEF TypeOK
    <3> QED
      BY <2>7, <3>1 DEF TypeOK, PassInv, ClearShard, LastShard, InShard, RemoveEntries, Scan
  <2>8. ASSUME NEW h \in Handlers, ClearCount(h) PROVE PassInv'
    BY <2>8 DEF TypeOK, PassInv, ClearCount, NoScan, Scan
  <2>9. ASSUME NEW s \in Sessions, Get(s) PROVE PassInv'
    BY <2>9 DEF PassInv, Get
  <2>10. ASSUME NEW s \in Sessions, Delete(s) PROVE PassInv'
    BY <2>10 DEF PassInv, Delete, RemoveEntries
  <2>11. CASE UNCHANGED vars
    BY <2>11 DEF PassInv, vars
  <2> QED
    BY <2>1, <2>2, <2>3, <2>4, <2>5, <2>6, <2>7, <2>8, <2>9, <2>10, <2>11 DEF Next
<1> QED
  BY <1>1, <1>2, SessionTypeInvariant, PTL DEF Spec

\* CountExact is an invariant: however creations, evictions and deletions
\* interleave, the counter is_full reads is the number of stored sessions as
\* long as nobody clears the store.
THEOREM CounterIsExact == Spec => []CountExact
<1>1. Init => CountExact
  BY FS_EmptySet DEF Init, CountExact
<1>2. TypeOK /\ TypeOK' /\ PassInv /\ CountExact /\ [Next]_vars => CountExact'
  <2> SUFFICES ASSUME TypeOK, TypeOK', PassInv, CountExact, [Next]_vars,
                      clears' = 0
               PROVE  count' = Cardinality(present')
    BY DEF CountExact
  <2> USE ConstantsAssumption
  <2>0. CASE /\ present' = present /\ count' = count
             /\ clears' = clears
    BY <2>0 DEF CountExact
  <2>c. ASSUME clears = 0, NEW S \in SUBSET present, present' = present \ S
        PROVE  Minus(Cardinality(S)) = Cardinality(present')
    <3>1. /\ IsFiniteSet(present) /\ Cardinality(present) \in 0 .. Word - 1
          /\ Cardinality(S) \in 0 .. Word - 1
          /\ Cardinality(present \ S) \in 0 .. Word - 1
      BY StoredSessions
    <3>2. Cardinality(present \ S) = Cardinality(present) - Cardinality(S)
      <4>1. present \cap S = S
        OBVIOUS
      <4> QED
        BY <3>1, <4>1, FS_Difference
    <3>3. count - Cardinality(S) = Cardinality(present \ S)
      BY <2>c, <3>2 DEF CountExact
    <3> QED
      BY <2>c, <3>1, <3>3, WordRemainder DEF Minus
  <2>1. ASSUME NEW h \in Handlers, Evict(h)
        PROVE  count' = Cardinality(present')
    <3> DEFINE idle == {s \in InShard(scan[h].shard) : IsIdle(s, scan[h].now)}
    <3>1. idle \in SUBSET present
      BY DEF InShard
    <3>2. present' = present \ idle /\ count' = Minus(Cardinality(idle)) /\ clears = 0
      BY <2>1 DEF Evict, EvictShard, RemoveEntries
    <3> HIDE DEF idle
    <3> QED
      BY <2>c, <3>1, <3>2
  <2>2. ASSUME NEW h \in Handlers, NEW s \in Sessions, Set(h, s)
        PROVE  count' = Cardinality(present')
    <3>1. IsFiniteSet(present) /\ Cardinality(present) \in 0 .. Word - 1
      BY StoredSessions
    <3>2. present' = present \cup {s} /\ s \notin present
      BY <2>2 DEF Set, TypeOK
    <3>3. IsFiniteSet(Sessions) /\ Cardinality(Sessions) = SessionCount
      BY FS_Interval DEF Sessions
    <3>4. present' \in SUBSET Sessions
      BY DEF TypeOK
    <3>5. Cardinality(present') = Cardinality(present) + 1
      BY <3>1, <3>2, FS_AddElement
    <3>6. Cardinality(present') <= SessionCount
      BY <3>3, <3>4, FS_Subset
    <3>7. count + 1 = Cardinality(present')
      BY <2>2, <3>5 DEF Set, CountExact
    <3>8. Cardinality(present') \in 0 .. Word - 1
      BY <3>1, <3>5, <3>6
    <3> QED
      BY <2>2, <3>7, <3>8, WordRemainder DEF Set, Plus
  <2>3. ASSUME NEW s \in Sessions, Delete(s)
        PROVE  count' = Cardinality(present')
    <3>1. CASE s \in present
      <4>1. Cardinality({s}) = 1
        BY FS_Singleton
      <4>2. present' = present \ {s} /\ count' = Minus(1) /\ clears = 0
        BY <2>3, <3>1 DEF Delete, RemoveEntries
      <4>3. Minus(Cardinality({s})) = Cardinality(present')
        BY <2>c, <3>1, <4>2
      <4> QED
        BY <4>1, <4>2, <4>3
    <3>2. CASE s \notin present
      <4>1. present' = present
        BY <2>3, <3>2 DEF Delete, RemoveEntries
      <4> QED
        BY <2>3, <3>2, <4>1 DEF Delete, CountExact
    <3> QED
      BY <3>1, <3>2
  <2>4. ASSUME NEW h \in Handlers, ClearStart(h) \/ ClearShard(h) \/ ClearCount(h)
        PROVE  FALSE
    BY <2>4 DEF ClearStart, ClearShard, ClearCount, PassInv, TypeOK
  <2>5. ASSUME NEW h \in Handlers, CheckCapacity(h) \/ CreateFails(h)
        PROVE  count' = Cardinality(present')
    BY <2>5, <2>0 DEF CheckCapacity, CreateFails
  <2>6. ASSUME NEW s \in Sessions, Get(s)
        PROVE  count' = Cardinality(present')
    BY <2>6, <2>0 DEF Get
  <2>7. CASE Tick \/ UNCHANGED vars
    BY <2>7, <2>0 DEF Tick, vars
  <2> QED
    BY <2>1, <2>2, <2>3, <2>4, <2>5, <2>6, <2>7 DEF Next
<1> QED
  BY <1>1, <1>2, SessionTypeInvariant, PassInvariant, PTL DEF Spec

\* EvictsOnlyIdle holds: no interleaving makes evict_idle drop a session
\* that was used within the TTL.
THEOREM EvictionSparesActive == Spec => EvictsOnlyIdle
<1>1. TypeOK /\ PassInv /\ [Next]_vars =>
        [\A h \in Handlers, s \in Sessions :
            (Evict(h) /\ s \in present /\ s \notin present') =>
                clock - lastAccess[s] > IdleTtl]_vars
  BY ConstantsAssumption
     DEF TypeOK, PassInv, Evict, EvictShard, RemoveEntries, InShard, IsIdle, Scan
<1> QED
  BY <1>1, SessionTypeInvariant, PassInvariant, PTL DEF Spec, EvictsOnlyIdle

\* ClearIsComplete holds: clear leaves none of the sessions it found.
THEOREM ClearRemovesAll == Spec => ClearIsComplete
<1>1. TypeOK /\ PassInv /\ [Next]_vars =>
        [\A h \in Handlers : ClearCount(h) => scan[h].old \cap present' = {}]_vars
  <2> SUFFICES ASSUME TypeOK, PassInv, NEW h \in Handlers, ClearCount(h)
               PROVE  scan[h].old \cap present' = {}
    OBVIOUS
  <2>1. \A s \in present : ShardOf(s) \in 0 .. ShardCount - 1
    BY ShardRange DEF TypeOK
  <2> QED
    BY <2>1, ConstantsAssumption DEF TypeOK, PassInv, ClearCount, LastShard
<1> QED
  BY <1>1, SessionTypeInvariant, PassInvariant, PTL DEF Spec, ClearIsComplete

=============================================================================
