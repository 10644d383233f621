------------------------------ MODULE StoreProofs ------------------------------
(***************************************************************************)
(* Proofs about the three stores of framework/src/state.  The mergeable    *)
(* store, for any handles, maps, sharing of maps and flows, loses no flow, *)
(* and a sync shows what nobody was writing.  The control-plane store      *)
(* counts no update twice but those that were cached where a data path was *)
(* cloned, and loses one only at a full channel, for any data paths, delay *)
(* and channel.  The data-plane store holds what was updated and not       *)
(* removed.                                                                *)
(***************************************************************************)
EXTENDS MergeableStore, CpMergeable, DpMergeable, TLAPS, WellFoundedInduction,
        FiniteSetTheorems

\* Time limit of the SMT backend for the leaves that name no other backend.
USE SMTT(60)

-----------------------------------------------------------------------------
(* Sequences and greatest elements *)

\* Length, domain and elements of a sequence.
LEMMA LenFacts ==
  ASSUME NEW S, NEW s \in Seq(S)
  PROVE  /\ Len(s) \in Nat /\ DOMAIN s = 1 .. Len(s)
         /\ \A i \in 1 .. Len(s) : s[i] \in S
         /\ s # <<>> => Len(s) # 0
OBVIOUS

\* Appending adds one element at the end.
LEMMA AppendFacts ==
  ASSUME NEW S, NEW s \in Seq(S), NEW e \in S
  PROVE  /\ Append(s, e) \in Seq(S) /\ Len(Append(s, e)) = Len(s) + 1
         /\ \A i \in 1 .. Len(s) : Append(s, e)[i] = s[i]
         /\ Append(s, e)[Len(s) + 1] = e
OBVIOUS

\* The head and the tail of a sequence that is not empty.
LEMMA TailFacts ==
  ASSUME NEW S, NEW s \in Seq(S), s # <<>>
  PROVE  /\ Head(s) \in S /\ Head(s) = s[1]
         /\ Tail(s) \in Seq(S) /\ Len(Tail(s)) = Len(s) - 1
         /\ \A i \in 1 .. Len(Tail(s)) : Tail(s)[i] = s[i + 1]
OBVIOUS

\* A set of naturals that is not empty has a least element.
LEMMA LeastNatural ==
  ASSUME NEW T, T \subseteq Nat, T # {}
  PROVE  \E x \in T : \A y \in T : x <= y
<1>1. PICK x \in T : \A y \in T : ~ (<<y, x>> \in OpToRel(<, Nat))
  BY NatLessThanWellFounded, WFMin, Zenon
<1>2. \A y \in T : ~ (y < x)
  BY <1>1, Zenon DEF OpToRel
<1> QED
  BY <1>2

\* A set of indices that is not empty has a greatest element: what the CHOOSE of
\* Install and of LastIn rest on.
LEMMA GreatestIndex ==
  ASSUME NEW n \in Nat, NEW T, T \subseteq 1 .. n, T # {}
  PROVE  \E i \in T : \A j \in T : j <= i
<1> DEFINE D == {k \in Nat : n - k \in T}
<1>1. D \subseteq Nat
  BY Zenon
<1>2. \A i \in T : n - i \in D
  <2> SUFFICES ASSUME NEW i \in T PROVE n - i \in D
    BY Zenon
  <2>1. i \in 1 .. n
    BY Zenon
  <2>2. n - i \in Nat /\ n - (n - i) = i
    BY <2>1
  <2> QED
    BY <2>2, Zenon
<1>3. D # {}
  BY <1>2, Zenon
<1> HIDE DEF D
<1>4. PICK k \in D : \A y \in D : k <= y
  BY <1>1, <1>3, LeastNatural, Zenon
<1>5. n - k \in T /\ k \in Nat
  BY Zenon DEF D
<1>6. \A j \in T : j <= n - k
  <2> SUFFICES ASSUME NEW j \in T PROVE j <= n - k
    BY Zenon
  <2>1. k <= n - j /\ j \in 1 .. n
    BY Zenon, <1>2, <1>4
  <2> QED
    BY <2>1, <1>5
<1> QED
  BY Zenon, <1>5, <1>6

-----------------------------------------------------------------------------
(* The mergeable store *)

\* Only the holder of a map's lock writes the map.
WritersLock == \A h \in Handles : Writing(h) => lock[map_of[h]] = h

\* A steady flow is in its map, and nobody writes there.
SteadyUnlocked ==
  \A m \in MapNames, f \in Flows :
    <<m, f>> \in steady => lock[m] \notin Handles /\ map[m][f] # Absent

\* What the maps have, and what was copied, was seen since the sync began.
ValuesHeld ==
  sync_at # 0 =>
    /\ \A m \in MapNames, f \in Flows : map[m][f] # Absent => <<f, map[m][f]>> \in held
    /\ \A i \in DOMAIN copies, f \in Flows :
         copies[i][f] # Absent => <<f, copies[i][f]>> \in held

\* The steady flows of the maps that sync has passed are in a copy.
SteadyCopied ==
  \A i \in DOMAIN Maps, f \in Flows :
    i < sync_at /\ <<Maps[i], f>> \in steady =>
      \E j \in DOMAIN copies : copies[j][f] # Absent

StoreInv == TypeOK /\ WritersLock /\ SteadyUnlocked /\ ValuesHeld /\ SteadyCopied

\* The first state satisfies the invariant.
LEMMA InitStoreInv == Init => StoreInv
<1> SUFFICES ASSUME Init PROVE StoreInv
  BY Zenon
<1>1. TypeOK
  BY MapsAssumption, HandlesAssumption, SizesAssumption DEF Init, TypeOK, Empty, Values
<1>2. WritersLock /\ SteadyUnlocked /\ ValuesHeld
  BY Zenon DEF Init, WritersLock, Writing, SteadyUnlocked, ValuesHeld
<1>3. SteadyCopied
  BY Zenon, MapsAssumption DEF Init, SteadyCopied
<1> QED
  BY Zenon, <1>1, <1>2, <1>3 DEF StoreInv

\* An update changes a cache and nothing that sync looks at.
LEMMA updateStoreInv ==
  ASSUME StoreInv, NEW h \in Handles, NEW f \in Flows, NEW inc \in Incs, update(h, f, inc)
  PROVE  StoreInv'
<1>1. TypeOK'
  BY DEF StoreInv, update, TypeOK, cpVars, Values
<1>2. WritersLock'
  BY Zenon DEF StoreInv, update, TypeOK, WritersLock, Writing
<1>3. SteadyUnlocked' /\ ValuesHeld' /\ SteadyCopied'
  BY Zenon DEF StoreInv, update, cpVars, SteadyUnlocked, ValuesHeld, SteadyCopied
<1> QED
  BY Zenon, <1>1, <1>2, <1>3 DEF StoreInv

\* remove waits for the lock.
LEMMA removeStoreInv ==
  ASSUME StoreInv, NEW h \in Handles, NEW f \in Flows, remove(h, f)
  PROVE  StoreInv'
<1>1. TypeOK'
  BY Zenon DEF StoreInv, remove, TypeOK, cpVars
<1>2. WritersLock'
  BY Zenon DEF StoreInv, remove, TypeOK, WritersLock, Writing
<1>3. SteadyUnlocked' /\ ValuesHeld' /\ SteadyCopied'
  BY Zenon DEF StoreInv, remove, cpVars, SteadyUnlocked, ValuesHeld, SteadyCopied
<1> QED
  BY Zenon, <1>1, <1>2, <1>3 DEF StoreInv

\* A free lock is taken for writing: the map has no steady flow from then on.
LEMMA LockStoreInv ==
  ASSUME StoreInv, NEW h \in Handles, NEW w \in {"write", "write_remove"},
         lock[map_of[h]] = Free, Lock(h), pc' = [pc EXCEPT ![h] = w],
         UNCHANGED <<cache, cache_size, removing, map, cpVars, updated, map_of, held>>
  PROVE  StoreInv'
<1>1. TypeOK'
  BY Zenon DEF StoreInv, Lock, TypeOK, cpVars
<1>2. WritersLock'
  BY Zenon, HandlesAssumption DEF StoreInv, Lock, TypeOK, WritersLock, Writing
<1>3. steady' \subseteq steady /\ \A x \in steady' : x[1] # map_of[h]
  BY Zenon DEF Lock
<1>4. SteadyUnlocked'
  BY Zenon, <1>3 DEF StoreInv, Lock, TypeOK, SteadyUnlocked
<1>5. ValuesHeld' /\ SteadyCopied'
  BY Zenon, <1>3 DEF StoreInv, cpVars, ValuesHeld, SteadyCopied
<1> QED
  BY Zenon, <1>1, <1>2, <1>4, <1>5 DEF StoreInv

\* try_write takes the lock, or leaves everything but cache_size alone.
LEMMA TryWriteStoreInv ==
  ASSUME StoreInv, NEW h \in Handles, TryWrite(h)
  PROVE  StoreInv'
<1>1. CASE lock[map_of[h]] = Free
  <2>1. /\ Lock(h) /\ pc' = [pc EXCEPT ![h] = "write"]
        /\ UNCHANGED <<cache, cache_size, removing, map, cpVars, updated, map_of, held>>
    BY Zenon, <1>1 DEF TryWrite
  <2> QED
    BY <1>1, <2>1, LockStoreInv, Zenon
<1>2. CASE lock[map_of[h]] # Free
  <2>0. /\ pc' = [pc EXCEPT ![h] = "idle"]
        /\ cache_size' = [cache_size EXCEPT ![h] = Larger(2 * @, MaxCacheSize)]
        /\ UNCHANGED <<cache, removing, map, cpVars, updated, map_of, held, lock, steady>>
    BY Zenon, <1>2 DEF TryWrite
  <2>1. TypeOK'
    BY <2>0, SizesAssumption DEF StoreInv, TypeOK, cpVars, Larger
  <2>2. WritersLock'
    BY Zenon, <2>0 DEF StoreInv, TypeOK, WritersLock, Writing
  <2>3. SteadyUnlocked' /\ ValuesHeld' /\ SteadyCopied'
    BY Zenon, <2>0 DEF StoreInv, cpVars, SteadyUnlocked, ValuesHeld, SteadyCopied
  <2> QED
    BY Zenon, <2>1, <2>2, <2>3 DEF StoreInv
<1> QED
  BY Zenon, <1>1, <1>2

\* write() of remove takes the lock.
LEMMA WriteStoreInv ==
  ASSUME StoreInv, NEW h \in Handles, Write(h)
  PROVE  StoreInv'
BY LockStoreInv, Zenon DEF Write

\* extend writes a map that has no steady flow; what it writes is recorded.
LEMMA ExtendStoreInv ==
  ASSUME StoreInv, NEW h \in Handles, Extend(h)
  PROVE  StoreInv'
<1> DEFINE e == Head(cache[h])
           m == map_of[h]
<1>1. /\ cache[h] \in Seq(Flows \X Incs) /\ cache[h] # <<>>
      /\ m \in MapNames /\ lock[m] = h
  BY Zenon DEF StoreInv, TypeOK, Extend, WritersLock
<1>2. e \in Flows \X Incs /\ Tail(cache[h]) \in Seq(Flows \X Incs)
  BY Zenon, <1>1, TailFacts
<1>3. e[1] \in Flows /\ e[2] \in Incs /\ e = <<e[1], e[2]>>
  BY <1>2
<1> HIDE DEF e
<1>4. /\ map' = [map EXCEPT ![m][e[1]] = e[2]]
      /\ cache' = [cache EXCEPT ![h] = Tail(@)]
      /\ held' = IF sync_at = 0 THEN held ELSE held \cup {e}
      /\ UNCHANGED <<cache_size, pc, removing, lock, cpVars, updated, map_of, steady>>
  BY Zenon DEF Extend, e
<1>5. TypeOK'
  BY Zenon, <1>1, <1>2, <1>3, <1>4 DEF StoreInv, TypeOK, cpVars, Values
<1>6. WritersLock'
  BY <1>4, Zenon DEF StoreInv, WritersLock, Writing
<1>7. \A n \in MapNames, f \in Flows :
        map'[n][f] = IF n = m /\ f = e[1] THEN e[2] ELSE map[n][f]
  BY Zenon, <1>1, <1>3, <1>4 DEF StoreInv, TypeOK
<1>8. SteadyUnlocked'
  BY <1>1, <1>4, <1>7 DEF StoreInv, SteadyUnlocked
<1>9. ValuesHeld'
  BY <1>3, <1>4, <1>7 DEF StoreInv, ValuesHeld, cpVars
<1>10. SteadyCopied'
  BY <1>4, Zenon DEF StoreInv, SteadyCopied, cpVars
<1> QED
  BY <1>5, <1>6, <1>8, <1>9, <1>10, Zenon DEF StoreInv

\* The lock is given back; remove takes its flow out of a map without steady flows.
LEMMA UnlockStoreInv ==
  ASSUME StoreInv, NEW h \in Handles, Unlock(h)
  PROVE  StoreInv'
<1> DEFINE m == map_of[h]
           r == removing[h]
<1>1. /\ m \in MapNames /\ lock[m] = h
      /\ lock' = [lock EXCEPT ![m] = Free]
      /\ pc' = [pc EXCEPT ![h] = "idle"]
      /\ map' = map \/ map' = [map EXCEPT ![m] = [map[m] EXCEPT ![r] = Absent]]
      /\ UNCHANGED <<cache, cpVars, map_of, steady, held>>
  BY Zenon DEF StoreInv, TypeOK, Unlock, WritersLock
<1>2. TypeOK'
  <2>1. map' \in [MapNames -> [Flows -> Values]]
    <3>1. map \in [MapNames -> [Flows -> Values]] /\ map[m] \in [Flows -> Values]
      BY Zenon, <1>1 DEF StoreInv, TypeOK
    <3>2. [map[m] EXCEPT ![r] = Absent] \in [Flows -> Values]
      BY <3>1, Zenon DEF Values
    <3> QED
      BY Zenon, <1>1, <3>1, <3>2
  <2>2. updated' \in [Handles -> SUBSET Flows]
    <3>1. updated \in [Handles -> SUBSET Flows]
      BY Zenon DEF StoreInv, TypeOK
    <3>2. \A g \in Handles : updated[g] \ {r} \in SUBSET Flows
      BY <3>1, Zenon
    <3>3. \/ updated' = updated
          \/ updated' = [g \in Handles |->
                           IF map_of[g] = m /\ ~Cached(g, r) THEN updated[g] \ {r}
                           ELSE updated[g]]
      BY Zenon DEF Unlock
    <3> QED
      BY <3>1, <3>2, <3>3
  <2>3. /\ cache_size' \in [Handles -> Nat]
        /\ removing' \in [Handles -> Flows \cup {Absent}]
    BY Zenon, SizesAssumption DEF StoreInv, TypeOK, Unlock
  <2>4. /\ lock' \in [MapNames -> Handles \cup {Free, Reading}]
        /\ pc' \in [Handles -> {"idle", "try_write", "write", "wait_write", "write_remove"}]
    BY Zenon, <1>1 DEF StoreInv, TypeOK
  <2> QED
    BY <1>1, <2>1, <2>2, <2>3, <2>4, Zenon DEF StoreInv, TypeOK, cpVars
<1>3. WritersLock'
  BY Zenon, <1>1 DEF StoreInv, TypeOK, WritersLock, Writing
<1>4. \A n \in MapNames, f \in Flows :
        map'[n][f] # map[n][f] => n = m /\ map'[n][f] = Absent
  BY <1>1 DEF StoreInv, TypeOK
<1>5. SteadyUnlocked'
  BY <1>1, <1>4 DEF StoreInv, TypeOK, SteadyUnlocked
<1>6. ValuesHeld'
  BY <1>1, <1>4 DEF StoreInv, ValuesHeld, cpVars
<1>7. SteadyCopied'
  BY <1>1, Zenon DEF StoreInv, SteadyCopied, cpVars
<1> QED
  BY <1>2, <1>3, <1>5, <1>6, <1>7, Zenon DEF StoreInv

\* sync begins: the records of the sync start from the maps as they are.
LEMMA SyncStoreInv ==
  ASSUME StoreInv, Sync
  PROVE  StoreInv'
<1>1. /\ sync_at' = 1 /\ copies' = <<>>
      /\ steady' = {x \in MapNames \X Flows : lock[x[1]] = Free /\ map[x[1]][x[2]] # Absent}
      /\ held' = {x \in Flows \X Incs : \E m \in MapNames : map[m][x[1]] = x[2]}
      /\ UNCHANGED <<cache, cache_size, pc, removing, map, lock, flow_counters, updated, map_of>>
  BY Zenon DEF Sync
<1>2. TypeOK'
  <2>1. steady' \subseteq MapNames \X Flows /\ held' \subseteq Flows \X Incs
    BY <1>1, Zenon
  <2>2. sync_at' \in 0 .. Len(Maps) + 1 /\ copies' \in Seq([Flows -> Values])
    BY <1>1, MapsAssumption
  <2> QED
    BY <1>1, <2>1, <2>2, Zenon DEF StoreInv, TypeOK
<1>3. WritersLock'
  BY <1>1, Zenon DEF StoreInv, WritersLock, Writing
<1>4. SteadyUnlocked'
  BY Zenon, <1>1, HandlesAssumption DEF SteadyUnlocked
<1>5. ValuesHeld'
  <2>1. \A m \in MapNames, f \in Flows : map[m][f] # Absent => map[m][f] \in Incs
    BY DEF StoreInv, TypeOK, Values
  <2> QED
    BY <1>1, <2>1 DEF ValuesHeld
<1>6. SteadyCopied'
  BY <1>1, MapsAssumption DEF SteadyCopied
<1> QED
  BY <1>2, <1>3, <1>4, <1>5, <1>6, Zenon DEF StoreInv

\* try_read: a map that is skipped is being written, so it has no steady flow.
LEMMA TryReadStoreInv ==
  ASSUME StoreInv, TryRead
  PROVE  StoreInv'
<1> DEFINE m == Maps[sync_at]
<1>1. /\ sync_at \in 1 .. Len(Maps) /\ m \in MapNames
      /\ \/ /\ lock[m] = Free /\ lock' = [lock EXCEPT ![m] = Reading]
            /\ sync_at' = sync_at
         \/ /\ lock[m] \in Handles /\ sync_at' = sync_at + 1
            /\ lock' = lock
      /\ UNCHANGED <<cache, cache_size, pc, removing, map, copies, flow_counters, updated, map_of>>
      /\ UNCHANGED <<steady, held>>
  BY MapsAssumption DEF TryRead, MapNames
<1>2. TypeOK'
  <2>1. sync_at' \in 0 .. Len(Maps) + 1
    BY <1>1, MapsAssumption
  <2>2. lock' \in [MapNames -> Handles \cup {Free, Reading}]
    <3>1. lock \in [MapNames -> Handles \cup {Free, Reading}]
      BY Zenon DEF StoreInv, TypeOK
    <3>2. lock' = lock \/ lock' = [lock EXCEPT ![m] = Reading]
      BY <1>1, Zenon
    <3> QED
      BY Zenon, <1>1, <3>1, <3>2
  <2> QED
    BY <1>1, <2>1, <2>2, Zenon DEF StoreInv, TypeOK
<1>l. \A n \in MapNames : lock'[n] = lock[n] \/ (lock[n] = Free /\ lock'[n] = Reading)
  <2>1. lock \in [MapNames -> Handles \cup {Free, Reading}]
    BY Zenon DEF StoreInv, TypeOK
  <2>2. lock' = lock \/ (lock[m] = Free /\ lock' = [lock EXCEPT ![m] = Reading])
    BY <1>1, Zenon
  <2> QED
    BY Zenon, <1>1, <2>1, <2>2
<1>3. WritersLock'
  BY <1>1, <1>l, HandlesAssumption DEF StoreInv, TypeOK, WritersLock, Writing
<1>4. SteadyUnlocked'
  BY <1>1, <1>l, HandlesAssumption, Zenon DEF StoreInv, SteadyUnlocked
<1>5. ValuesHeld'
  BY <1>1 DEF StoreInv, ValuesHeld
<1>6. SteadyCopied'
  <2> SUFFICES ASSUME NEW i \in DOMAIN Maps, NEW f \in Flows,
                      i < sync_at', <<Maps[i], f>> \in steady
               PROVE  \E j \in DOMAIN copies : copies[j][f] # Absent
    BY <1>1, Zenon DEF SteadyCopied
  <2>1. i < sync_at \/ (i = sync_at /\ lock[m] \in Handles)
    BY <1>1, MapsAssumption
  <2>2. lock[m] \in Handles => <<m, f>> \notin steady
    BY <1>1, Zenon DEF StoreInv, SteadyUnlocked
  <2>3. i < sync_at
    BY <2>1, <2>2, Zenon
  <2> QED
    BY <2>3, Zenon DEF StoreInv, SteadyCopied
<1> QED
  BY <1>2, <1>3, <1>4, <1>5, <1>6, Zenon DEF StoreInv

\* A map is copied under the read lock, with the steady flows it has.
LEMMA CopyStoreInv ==
  ASSUME StoreInv, Copy
  PROVE  StoreInv'
<1> DEFINE m == Maps[sync_at]
<1>1. /\ sync_at \in 1 .. Len(Maps) /\ m \in MapNames /\ lock[m] = Reading
      /\ copies' = Append(copies, map[m])
      /\ lock' = [lock EXCEPT ![m] = Free]
      /\ sync_at' = sync_at + 1
      /\ UNCHANGED <<cache, cache_size, pc, removing, map, flow_counters, updated, map_of>>
      /\ UNCHANGED <<steady, held>>
  BY MapsAssumption DEF Copy, MapNames
<1>2. map[m] \in [Flows -> Values] /\ copies \in Seq([Flows -> Values])
  BY Zenon, <1>1 DEF StoreInv, TypeOK
<1>3. /\ copies' \in Seq([Flows -> Values]) /\ Len(copies) \in Nat
      /\ DOMAIN copies' = 1 .. Len(copies) + 1 /\ DOMAIN copies = 1 .. Len(copies)
      /\ \A i \in DOMAIN copies : copies'[i] = copies[i]
      /\ copies'[Len(copies) + 1] = map[m]
  BY <1>1, <1>2, AppendFacts, LenFacts
<1>4. TypeOK'
  <2>1. sync_at' \in 0 .. Len(Maps) + 1
    BY <1>1, MapsAssumption
  <2>2. lock' \in [MapNames -> Handles \cup {Free, Reading}]
    BY Zenon, <1>1 DEF StoreInv, TypeOK
  <2> QED
    BY <1>1, <1>3, <2>1, <2>2, Zenon DEF StoreInv, TypeOK
<1>5. WritersLock'
  BY Zenon, <1>1, HandlesAssumption DEF StoreInv, TypeOK, WritersLock, Writing
<1>6. SteadyUnlocked'
  BY Zenon, <1>1, HandlesAssumption DEF StoreInv, TypeOK, SteadyUnlocked
<1>7. ValuesHeld'
  <2>1. sync_at # 0
    BY <1>1
  <2>2. \A i \in DOMAIN copies' : copies'[i] = map[m] \/ (i \in DOMAIN copies /\ copies'[i] = copies[i])
    BY <1>3
  <2>3. \A f \in Flows : map[m][f] # Absent => <<f, map[m][f]>> \in held
    BY <1>1, <2>1, Zenon DEF StoreInv, ValuesHeld
  <2>4. \A i \in DOMAIN copies, f \in Flows :
          copies[i][f] # Absent => <<f, copies[i][f]>> \in held
    BY <2>1, Zenon DEF StoreInv, ValuesHeld
  <2>5. \A n \in MapNames, f \in Flows : map[n][f] # Absent => <<f, map[n][f]>> \in held
    BY <2>1, Zenon DEF StoreInv, ValuesHeld
  <2>6. \A i \in DOMAIN copies', f \in Flows :
          copies'[i][f] # Absent => <<f, copies'[i][f]>> \in held
    BY <2>2, <2>3, <2>4, Zenon
  <2> QED
    BY <1>1, <2>5, <2>6, Zenon DEF ValuesHeld
<1>8. SteadyCopied'
  <2> SUFFICES ASSUME NEW i \in DOMAIN Maps, NEW f \in Flows,
                      i < sync_at', <<Maps[i], f>> \in steady
               PROVE  \E j \in DOMAIN copies' : copies'[j][f] # Absent
    BY <1>1, Zenon DEF SteadyCopied
  <2>1. CASE i = sync_at
    <3>1. map[m][f] # Absent
      BY <2>1, <1>1, Zenon DEF StoreInv, SteadyUnlocked
    <3> QED
      BY <3>1, <1>3
  <2>2. CASE i # sync_at
    <3>1. i < sync_at
      BY <2>2, <1>1, MapsAssumption
    <3>2. PICK j \in DOMAIN copies : copies[j][f] # Absent
      BY <3>1, Zenon DEF StoreInv, SteadyCopied
    <3> QED
      BY <3>2, <1>3
  <2> QED
    BY Zenon, <2>1, <2>2
<1> QED
  BY <1>4, <1>5, <1>6, <1>7, <1>8, Zenon DEF StoreInv

\* What Install shows for a flow: nothing when no copy has it, and the value of a
\* copy that has it otherwise.
LEMMA Installed ==
  ASSUME StoreInv, Install, NEW f \in Flows
  PROVE  \/ /\ \A i \in DOMAIN copies : copies[i][f] = Absent
            /\ flow_counters'[f] = Absent
         \/ \E i \in DOMAIN copies : /\ copies[i][f] # Absent
                                     /\ flow_counters'[f] = copies[i][f]
<1> DEFINE found == {i \in DOMAIN copies : copies[i][f] # Absent}
           top == CHOOSE i \in found : \A j \in found : j <= i
<1>1. flow_counters'[f] = IF found = {} THEN Absent ELSE copies[top][f]
  BY Zenon DEF Install
<1>2. found \subseteq 1 .. Len(copies) /\ Len(copies) \in Nat
  BY Zenon, LenFacts DEF StoreInv, TypeOK
<1>3. CASE found = {}
  BY Zenon, <1>1, <1>3
<1>4. CASE found # {}
  <2> HIDE DEF found
  <2>1. \E i \in found : \A j \in found : j <= i
    BY <1>2, <1>4, GreatestIndex, Zenon
  <2>2. top \in found
    BY <2>1, Zenon
  <2> QED
    BY <1>1, <1>4, <2>2, Zenon DEF found
<1> QED
  BY Zenon, <1>3, <1>4

\* A sync ends.
LEMMA InstallStoreInv ==
  ASSUME StoreInv, Install
  PROVE  StoreInv'
<1>1. /\ sync_at' = 0 /\ copies' = <<>> /\ steady' = {} /\ held' = {}
      /\ UNCHANGED <<cache, cache_size, pc, removing, map, lock, updated, map_of>>
  BY Zenon DEF Install
<1>2. flow_counters' \in [Flows -> Values]
  <2>1. \A f \in Flows : flow_counters'[f] \in Values
    <3> SUFFICES ASSUME NEW f \in Flows PROVE flow_counters'[f] \in Values
      BY Zenon
    <3>1. \A i \in DOMAIN copies : copies[i][f] \in Values
      BY LenFacts DEF StoreInv, TypeOK
    <3> QED
      BY <3>1, Installed, Zenon DEF Values
  <2>2. flow_counters' = [f \in Flows |-> flow_counters'[f]]
    BY DEF Install
  <2> QED
    BY <2>1, <2>2, Zenon
<1>3. TypeOK'
  <2>1. sync_at' \in 0 .. Len(Maps) + 1 /\ copies' \in Seq([Flows -> Values])
    BY <1>1, MapsAssumption
  <2>2. steady' \subseteq MapNames \X Flows /\ held' \subseteq Flows \X Incs
    BY <1>1, Zenon
  <2> QED
    BY <1>1, <1>2, <2>1, <2>2, Zenon DEF StoreInv, TypeOK
<1>4. WritersLock'
  BY <1>1, Zenon DEF StoreInv, WritersLock, Writing
<1>5. SteadyUnlocked' /\ ValuesHeld' /\ SteadyCopied'
  BY <1>1, Zenon DEF SteadyUnlocked, ValuesHeld, SteadyCopied
<1> QED
  BY <1>3, <1>4, <1>5, Zenon DEF StoreInv

\* Every step keeps the invariant.
LEMMA NextStoreInv ==
  ASSUME StoreInv, [Next]_vars
  PROVE  StoreInv'
<1>1. CASE UNCHANGED vars
  <2>1. TypeOK'
    BY <1>1, Zenon DEF StoreInv, vars, cpVars, TypeOK
  <2>2. WritersLock' /\ SteadyUnlocked'
    BY <1>1, Zenon DEF StoreInv, vars, WritersLock, Writing, SteadyUnlocked
  <2>3. ValuesHeld' /\ SteadyCopied'
    BY <1>1, Zenon DEF StoreInv, vars, cpVars, ValuesHeld, SteadyCopied
  <2> QED
    BY <2>1, <2>2, <2>3, Zenon DEF StoreInv
<1>2. CASE Next
  BY <1>2, updateStoreInv, removeStoreInv, TryWriteStoreInv, WriteStoreInv, ExtendStoreInv,
     UnlockStoreInv, SyncStoreInv, TryReadStoreInv, CopyStoreInv, InstallStoreInv, Zenon
  DEF Next
<1> QED
  BY Zenon, <1>1, <1>2

\* In every state of the store the lock of a map is held by the handle that writes it,
\* and what sync has collected agrees with the maps it has passed.
THEOREM StoreInvariant == Spec => []StoreInv
BY InitStoreInv, NextStoreInv, PTL DEF Spec

\* Every variable of the store keeps its type: merge_cache, remove and sync handle any
\* interleaving without an index, flow or value that does not exist.
THEOREM TypeCorrect == Spec => []TypeOK
<1>1. StoreInv => TypeOK
  BY Zenon DEF StoreInv
<1> QED
  BY <1>1, StoreInvariant, PTL

\* A sync shows every flow of the maps that nobody locks for writing while it runs,
\* and shows only values that a map had during it: try_read skips a map only when
\* it is being written, and hmap_to_vec copies under the lock.
THEOREM SyncIsFaithful == Spec => SyncShowsUnlocked
<1> DEFINE Shows ==
      sync_at # 0 /\ sync_at' = 0 =>
        \A f \in Flows :
          /\ (\E m \in MapNames : <<m, f>> \in steady) => flow_counters'[f] # Absent
          /\ flow_counters'[f] # Absent => <<f, flow_counters'[f]>> \in held
<1>1. ASSUME StoreInv, Next PROVE Shows
  <2> SUFFICES ASSUME sync_at # 0, sync_at' = 0, NEW f \in Flows
               PROVE  /\ \A m \in MapNames : <<m, f>> \in steady => flow_counters'[f] # Absent
                      /\ flow_counters'[f] # Absent => <<f, flow_counters'[f]>> \in held
    BY Zenon
  <2>1. sync_at \in Nat
    BY <1>1, MapsAssumption DEF StoreInv, TypeOK
  <2>2. Install
    <3>1. /\ \A h \in Handles : Unlock(h) => sync_at' = sync_at
          /\ \A h \in Handles : Extend(h) => sync_at' = sync_at
          /\ \A h \in Handles : TryWrite(h) => sync_at' = sync_at
          /\ \A h \in Handles : Write(h) => sync_at' = sync_at
          /\ \A h \in Handles, g \in Flows : remove(h, g) => sync_at' = sync_at
          /\ \A h \in Handles, g \in Flows, inc \in Incs : update(h, g, inc) => sync_at' = sync_at
      BY Zenon DEF Unlock, Extend, TryWrite, Write, remove, update, cpVars
    <3>2. ~Sync /\ ~TryRead /\ ~Copy
      BY <2>1 DEF Sync, TryRead, Copy
    <3> QED
      BY <1>1, <3>1, <3>2, Zenon DEF Next
  <2>3. flow_counters'[f] # Absent => <<f, flow_counters'[f]>> \in held
    BY <1>1, <2>2, Installed, Zenon DEF StoreInv, ValuesHeld
  <2>4. ASSUME NEW m \in MapNames, <<m, f>> \in steady PROVE flow_counters'[f] # Absent
    <3>1. PICK i \in DOMAIN Maps : Maps[i] = m
      BY Zenon DEF MapNames
    <3>2. i < sync_at
      BY <2>2, MapsAssumption DEF Install
    <3>3. \E j \in DOMAIN copies : copies[j][f] # Absent
      BY <1>1, <2>4, <3>1, <3>2, Zenon DEF StoreInv, SteadyCopied
    <3> QED
      BY <1>1, <2>2, <3>3, Installed, Zenon
  <2> QED
    BY Zenon, <2>3, <2>4
<1>2. StoreInv /\ [Next]_vars => [Shows]_vars
  BY Zenon, <1>1
<1> QED
  BY <1>2, StoreInvariant, PTL DEF Spec, SyncShowsUnlocked

-----------------------------------------------------------------------------
(* Flows are kept *)

\* A cache has an entry for f.
HasFlow(c, f) == \E i \in DOMAIN c : c[i][1] = f

\* What a handle updated is in its cache or its map, ...
InCacheOrMap ==
  \A h \in Handles, f \in Flows :
    f \in updated[h] => HasFlow(cache[h], f) \/ map[map_of[h]][f] # Absent
\* ... a cache has only what its handle updated, ...
CacheUpdated == \A h \in Handles, f \in Flows : HasFlow(cache[h], f) => f \in updated[h]
\* ... and a map only what its handles did.
MapUpdated ==
  \A m \in MapNames, f \in Flows :
    map[m][f] # Absent => \E h \in Handles : map_of[h] = m /\ f \in updated[h]

KeptInv == InCacheOrMap /\ CacheUpdated /\ MapUpdated

\* A pushed entry adds its flow to those of the cache.
LEMMA PushedFlows ==
  ASSUME NEW c \in Seq(Flows \X Incs), NEW f \in Flows, NEW v \in Incs
  PROVE  \A k : HasFlow(Append(c, <<f, v>>), k) <=> k = f \/ HasFlow(c, k)
<1> DEFINE d == Append(c, <<f, v>>)
           n == Len(c)
<1>1. <<f, v>> \in Flows \X Incs
  BY Zenon
<1>2. /\ n \in Nat /\ DOMAIN c = 1 .. n /\ DOMAIN d = 1 .. n + 1
      /\ \A i \in 1 .. n : d[i] = c[i]
      /\ d[n + 1] = <<f, v>>
  BY <1>1, AppendFacts, LenFacts
<1>3. <<f, v>>[1] = f
  BY Zenon
<1> HIDE DEF d, n
<1>4. n + 1 \in DOMAIN d /\ \A i \in DOMAIN d : i \in DOMAIN c \/ i = n + 1
  BY <1>2
<1>5. \A i \in DOMAIN c : i \in DOMAIN d /\ d[i] = c[i]
  BY <1>2
<1>6. \A k : HasFlow(d, k) <=> k = f \/ HasFlow(c, k)
  BY <1>2, <1>3, <1>4, <1>5, Zenon DEF HasFlow
<1> QED
  BY <1>6, Zenon DEF d

\* The entry that extend moves takes its flow out of the cache, or another does not.
LEMMA MovedFlows ==
  ASSUME NEW c \in Seq(Flows \X Incs), c # <<>>
  PROVE  \A k : HasFlow(c, k) <=> k = Head(c)[1] \/ HasFlow(Tail(c), k)
<1> DEFINE t == Tail(c)
           n == Len(c)
<1>1. /\ n \in Nat \ {0} /\ DOMAIN c = 1 .. n /\ DOMAIN t = 1 .. n - 1
      /\ \A i \in 1 .. n - 1 : t[i] = c[i + 1]
      /\ Head(c) = c[1]
  BY Zenon, TailFacts, LenFacts
<1> HIDE DEF t, n
<1>2. \A k : HasFlow(c, k) <=> k = Head(c)[1] \/ HasFlow(t, k)
  <2> SUFFICES ASSUME NEW k PROVE HasFlow(c, k) <=> k = Head(c)[1] \/ HasFlow(t, k)
    OBVIOUS
  <2>1. ASSUME NEW i \in DOMAIN c, c[i][1] = k, i # 1 PROVE HasFlow(t, k)
    <3>1. i - 1 \in DOMAIN t /\ t[i - 1] = c[i]
      BY <1>1, <2>1
    <3> QED
      BY <2>1, <3>1, Zenon DEF HasFlow
  <2>2. ASSUME NEW i \in DOMAIN t, t[i][1] = k PROVE HasFlow(c, k)
    <3>1. i + 1 \in DOMAIN c /\ c[i + 1] = t[i]
      BY <1>1
    <3> QED
      BY <2>2, <3>1, Zenon DEF HasFlow
  <2>3. 1 \in DOMAIN c
    BY <1>1
  <2> QED
    BY <1>1, <2>1, <2>2, <2>3, Zenon DEF HasFlow
<1> QED
  BY <1>2, Zenon DEF t

\* update: the flow is in the cache and counts as updated.
LEMMA updateKeeps ==
  ASSUME TypeOK, KeptInv, NEW h \in Handles, NEW f \in Flows, NEW inc \in Incs,
         update(h, f, inc)
  PROVE  KeptInv'
<1>1. /\ cache' = [cache EXCEPT ![h] = Append(cache[h], <<f, inc>>)]
      /\ updated' = [updated EXCEPT ![h] = @ \cup {f}]
      /\ UNCHANGED <<map, map_of>>
      /\ cache \in [Handles -> Seq(Flows \X Incs)]
      /\ updated \in [Handles -> SUBSET Flows]
  BY Zenon DEF update, TypeOK
<1>2. \A k : HasFlow(cache'[h], k) <=> k = f \/ HasFlow(cache[h], k)
  <2>1. cache[h] \in Seq(Flows \X Incs) /\ cache'[h] = Append(cache[h], <<f, inc>>)
    BY <1>1, Zenon
  <2>2. \A k : HasFlow(Append(cache[h], <<f, inc>>), k) <=> k = f \/ HasFlow(cache[h], k)
    BY <2>1, PushedFlows, Zenon
  <2> QED
    BY <2>1, <2>2, Zenon
<1>3. \A g \in Handles : g # h => cache'[g] = cache[g] /\ updated'[g] = updated[g]
  BY <1>1, Zenon
<1>4. updated'[h] = updated[h] \cup {f}
  BY <1>1, Zenon
<1>5. InCacheOrMap' /\ CacheUpdated'
  BY <1>1, <1>2, <1>3, <1>4, Zenon DEF KeptInv, InCacheOrMap, CacheUpdated
<1>6. \A g \in Handles : updated[g] \subseteq updated'[g]
  BY <1>3, <1>4, Zenon
<1>7. MapUpdated'
  BY <1>1, <1>6, Zenon DEF KeptInv, MapUpdated
<1> QED
  BY <1>5, <1>7, Zenon DEF KeptInv

\* extend: the flow of the entry that leaves the cache is in the map.
LEMMA ExtendKeeps ==
  ASSUME TypeOK, KeptInv, NEW h \in Handles, Extend(h)
  PROVE  KeptInv'
<1> DEFINE e == Head(cache[h])
           m == map_of[h]
<1>1. /\ cache[h] \in Seq(Flows \X Incs) /\ cache[h] # <<>>
      /\ m \in MapNames /\ \A g \in Handles : map_of[g] \in MapNames
  BY Zenon DEF TypeOK, Extend
<1>2. e[1] \in Flows /\ e[2] \in Incs
  <2>1. e \in Flows \X Incs
    BY Zenon, <1>1, TailFacts
  <2> QED
    BY <2>1
<1>3. /\ map' = [map EXCEPT ![m][e[1]] = e[2]]
      /\ cache' = [cache EXCEPT ![h] = Tail(cache[h])]
      /\ UNCHANGED <<updated, map_of>>
  BY Zenon DEF Extend
<1>4. e[2] # Absent
  BY Zenon, <1>2, ValuesAssumption
<1>5. \A n \in MapNames, k \in Flows :
        map'[n][k] = IF n = m /\ k = e[1] THEN e[2] ELSE map[n][k]
  BY Zenon, <1>1, <1>2, <1>3 DEF TypeOK
<1>6. cache'[h] = Tail(cache[h]) /\ \A g \in Handles : g # h => cache'[g] = cache[g]
  BY Zenon, <1>3 DEF TypeOK
<1>7. \A k : HasFlow(cache[h], k) <=> k = e[1] \/ HasFlow(cache'[h], k)
  BY <1>1, <1>6, MovedFlows, Zenon
<1> HIDE DEF e, m
<1>8. InCacheOrMap'
  <2> SUFFICES ASSUME NEW g \in Handles, NEW k \in Flows, k \in updated[g]
               PROVE  HasFlow(cache'[g], k) \/ map'[map_of[g]][k] # Absent
    BY <1>3, Zenon DEF InCacheOrMap
  <2>1. HasFlow(cache[g], k) \/ map[map_of[g]][k] # Absent
    BY Zenon DEF KeptInv, InCacheOrMap
  <2>2. map[map_of[g]][k] # Absent => map'[map_of[g]][k] # Absent
    BY <1>1, <1>4, <1>5, Zenon
  <2>3. g = h /\ k = e[1] => map'[map_of[g]][k] # Absent
    BY <1>1, <1>4, <1>5, Zenon DEF m
  <2> QED
    BY <1>6, <1>7, <2>1, <2>2, <2>3, Zenon
<1>9. CacheUpdated'
  BY <1>3, <1>6, <1>7, Zenon DEF KeptInv, CacheUpdated
<1>10. MapUpdated'
  <2>1. e[1] \in updated[h] /\ map_of[h] = m
    BY <1>2, <1>7, Zenon DEF KeptInv, CacheUpdated, m
  <2>2. \A n \in MapNames, k \in Flows :
          map[n][k] # Absent => \E g \in Handles : map_of[g] = n /\ k \in updated[g]
    BY Zenon DEF KeptInv, MapUpdated
  <2>3. ASSUME NEW n \in MapNames, NEW k \in Flows, map'[n][k] # Absent
        PROVE  \E g \in Handles : map_of[g] = n /\ k \in updated[g]
    <3>1. CASE n = m /\ k = e[1]
      BY <2>1, <3>1, Zenon
    <3>2. CASE ~(n = m /\ k = e[1])
      <4>1. map[n][k] # Absent
        BY <1>5, <2>3, <3>2, Zenon
      <4> QED
        BY <2>2, <4>1, Zenon
    <3> QED
      BY <3>1, <3>2, Zenon
  <2> QED
    BY <1>3, <2>3, Zenon DEF MapUpdated
<1> QED
  BY <1>8, <1>9, <1>10, Zenon DEF KeptInv

\* Unlock: remove takes its flow out of the map, and forgets it where it is not cached.
LEMMA UnlockKeeps ==
  ASSUME TypeOK, KeptInv, NEW h \in Handles, Unlock(h), pc[h] # "write"
  PROVE  KeptInv'
<1> DEFINE m == map_of[h]
           r == removing[h]
<1>1. /\ map' = [map EXCEPT ![m][r] = Absent]
      /\ updated' = [i \in Handles |->
                       IF map_of[i] = m /\ ~Cached(i, r) THEN updated[i] \ {r}
                       ELSE updated[i]]
      /\ UNCHANGED <<cache, map_of>>
  BY Zenon DEF Unlock
<1>2. m \in MapNames /\ \A g \in Handles : map_of[g] \in MapNames
  BY Zenon DEF TypeOK
<1>3. \A n \in MapNames, k \in Flows :
        map'[n][k] = IF n = m /\ k = r THEN Absent ELSE map[n][k]
  BY Zenon, <1>1, <1>2 DEF TypeOK
<1>4. \A g \in Handles, k \in Flows :
        k \in updated'[g] <=>
          k \in updated[g] /\ ~(map_of[g] = m /\ k = r /\ ~HasFlow(cache[g], k))
  BY Zenon, <1>1 DEF Cached, HasFlow
<1> HIDE DEF m, r
<1>5. InCacheOrMap' /\ CacheUpdated'
  <2> SUFFICES ASSUME NEW g \in Handles, NEW k \in Flows
               PROVE  /\ k \in updated'[g] =>
                           HasFlow(cache[g], k) \/ map'[map_of[g]][k] # Absent
                      /\ HasFlow(cache[g], k) => k \in updated'[g]
    BY <1>1, Zenon DEF InCacheOrMap, CacheUpdated
  <2>1. /\ k \in updated[g] => HasFlow(cache[g], k) \/ map[map_of[g]][k] # Absent
        /\ HasFlow(cache[g], k) => k \in updated[g]
    BY Zenon DEF KeptInv, InCacheOrMap, CacheUpdated
  <2>2. map'[map_of[g]][k] = IF map_of[g] = m /\ k = r THEN Absent ELSE map[map_of[g]][k]
    BY <1>2, <1>3, Zenon
  <2>3. k \in updated'[g] <=>
          k \in updated[g] /\ ~(map_of[g] = m /\ k = r /\ ~HasFlow(cache[g], k))
    BY <1>4, Zenon
  <2> QED
    BY <2>1, <2>2, <2>3, Zenon
<1>6. MapUpdated'
  <2> SUFFICES ASSUME NEW n \in MapNames, NEW k \in Flows, map'[n][k] # Absent
               PROVE  \E g \in Handles : map_of[g] = n /\ k \in updated'[g]
    BY <1>1, Zenon DEF MapUpdated
  <2>1. ~(n = m /\ k = r) /\ map[n][k] # Absent
    BY <1>3, Zenon
  <2>2. PICK g \in Handles : map_of[g] = n /\ k \in updated[g]
    BY <2>1, Zenon DEF KeptInv, MapUpdated
  <2>3. k \in updated'[g]
    BY <1>4, <2>1, <2>2, Zenon
  <2> QED
    BY <2>2, <2>3, Zenon
<1> QED
  BY <1>5, <1>6, Zenon DEF KeptInv

\* A flow that was updated and not removed is never lost because try_write failed or
\* the control plane was reading, and no other is in a map, whatever the cache sizes
\* and however many handles share a map.
THEOREM FlowsAreKept == Spec => []FlowsKept
<1>1. Init => KeptInv
  BY DEF Init, KeptInv, InCacheOrMap, CacheUpdated, MapUpdated, HasFlow, Empty
<1>2. ASSUME TypeOK, KeptInv, [Next]_vars PROVE KeptInv'
  <2> DEFINE Untouched == UNCHANGED <<cache, map, map_of, updated>>
  <2>1. /\ \A h \in Handles : TryWrite(h) \/ Write(h) => Untouched
        /\ \A h \in Handles, f \in Flows : remove(h, f) => Untouched
        /\ \A h \in Handles : Unlock(h) /\ pc[h] = "write" => Untouched
    BY Zenon DEF TryWrite, Write, remove, Unlock
  <2>2. Sync \/ TryRead \/ Copy \/ Install \/ UNCHANGED vars => Untouched
    BY Zenon DEF Sync, TryRead, Copy, Install, vars
  <2>3. CASE Untouched
    BY <1>2, <2>3, Zenon DEF KeptInv, InCacheOrMap, CacheUpdated, MapUpdated
  <2>4. CASE \E h \in Handles, f \in Flows, inc \in Incs : update(h, f, inc)
    BY <1>2, <2>4, updateKeeps, Zenon
  <2>5. CASE \E h \in Handles : Extend(h) \/ (Unlock(h) /\ pc[h] # "write")
    BY <1>2, <2>5, ExtendKeeps, UnlockKeeps, Zenon
  <2> QED
    BY <1>2, <2>1, <2>2, <2>3, <2>4, <2>5, Zenon DEF Next
<1>3. TypeOK /\ KeptInv => FlowsKept
  BY Zenon DEF TypeOK, KeptInv, InCacheOrMap, MapUpdated, FlowsKept, Cached, HasFlow
<1> QED
  BY <1>1, <1>2, <1>3, TypeCorrect, PTL DEF Spec

-----------------------------------------------------------------------------
(* Counting the updates of a flow *)

\* Where f is in one cache.
Found(f, v) == {i \in DOMAIN v : v[i] = f}

\* A finite set of places has as many elements in any of the caches.
LEMMA OneCache ==
  ASSUME NEW k, NEW T, IsFiniteSet(T)
  PROVE  IsFiniteSet({k} \X T) /\ Cardinality({k} \X T) = Cardinality(T)
<1>1. IsFiniteSet({k}) /\ Cardinality({k}) = 1
  BY FS_Singleton, Zenon
<1>2. IsFiniteSet({k} \X T) /\ Cardinality({k} \X T) = Cardinality({k}) * Cardinality(T)
  BY <1>1, FS_Product, Zenon
<1>3. Cardinality(T) \in Nat
  BY FS_CardinalityType, Zenon
<1> QED
  BY <1>1, <1>2, <1>3

\* The occurrences of a flow in one cache.
LEMMA FoundFinite ==
  ASSUME NEW S, NEW v \in Seq(S), NEW f
  PROVE  IsFiniteSet(Found(f, v)) /\ Count(f, v) = Cardinality(Found(f, v)) /\ Count(f, v) \in Nat
<1>1. Len(v) \in Nat /\ DOMAIN v = 1 .. Len(v)
  BY LenFacts, Zenon
<1>2. IsFiniteSet(1 .. Len(v))
  <2>1. 1 \in Int /\ Len(v) \in Int
    BY <1>1
  <2> QED
    BY <2>1, FS_Interval, Zenon
<1>3. Found(f, v) \in SUBSET (1 .. Len(v))
  BY <1>1, Zenon DEF Found
<1>4. IsFiniteSet(Found(f, v))
  BY <1>2, <1>3, FS_Subset, Zenon
<1>5. Cardinality(Found(f, v)) \in Nat
  BY <1>4, FS_CardinalityType, Zenon
<1> QED
  BY <1>4, <1>5, Zenon DEF Count, Found

\* Nothing occurs in an empty cache.
LEMMA CountEmpty ==
  ASSUME NEW f
  PROVE  Count(f, <<>>) = 0
<1>1. DOMAIN <<>> = {}
  OBVIOUS
<1>2. {i \in DOMAIN <<>> : <<>>[i] = f} = {}
  BY <1>1, Zenon
<1> QED
  BY <1>2, FS_EmptySet, Zenon DEF Count

\* A flow occurs once more in a cache to which it is pushed.
LEMMA CountAppend ==
  ASSUME NEW S, NEW v \in Seq(S), NEW g \in S, NEW f
  PROVE  Count(f, Append(v, g)) = Count(f, v) + IF f = g THEN 1 ELSE 0
<1> DEFINE w == Append(v, g)
           n == Len(v) + 1
<1>1. /\ w \in Seq(S) /\ Len(w) = n /\ w[n] = g
      /\ \A i \in 1 .. Len(v) : w[i] = v[i]
  BY AppendFacts
<1>2. Len(v) \in Nat /\ DOMAIN v = 1 .. Len(v) /\ DOMAIN w = 1 .. n
  BY <1>1, LenFacts, Zenon
<1>3. IsFiniteSet(Found(f, v)) /\ Count(f, v) = Cardinality(Found(f, v)) /\ Count(f, v) \in Nat
  BY FoundFinite, Zenon
<1>4. Count(f, w) = Cardinality(Found(f, w))
  BY Zenon DEF Count, Found
<1> HIDE DEF w
<1>5. /\ \A i : i \in DOMAIN w <=> i \in DOMAIN v \/ i = n
      /\ n \notin DOMAIN v
  BY <1>2
<1>6. \A i \in DOMAIN v : w[i] = v[i]
  BY <1>1, <1>2, Zenon
<1> HIDE DEF n
<1>7. CASE f = g
  <2>1. Found(f, w) = Found(f, v) \cup {n}
    BY <1>1, <1>5, <1>6, <1>7, Zenon DEF Found
  <2>2. n \notin Found(f, v)
    BY <1>5, Zenon DEF Found
  <2>3. Cardinality(Found(f, v) \cup {n}) = Cardinality(Found(f, v)) + 1
    BY <1>3, <2>2, FS_AddElement, Zenon
  <2> QED
    BY <1>3, <1>4, <1>7, <2>1, <2>3, Zenon DEF w
<1>8. CASE f # g
  <2>1. Found(f, w) = Found(f, v)
    BY <1>1, <1>5, <1>6, <1>8, Zenon DEF Found
  <2>2. Count(f, w) = Count(f, v) + 0
    BY <1>3, <1>4, <2>1
  <2> QED
    BY <1>8, <2>2, Zenon DEF w
<1> QED
  BY <1>7, <1>8, Zenon

\* The places of f, cache by cache.
LEMMA InPlaces ==
  ASSUME NEW f, NEW F
  PROVE  \A p : p \in Places(f, F) <=> \E k \in DOMAIN F : p \in {k} \X Found(f, F[k])
BY Zenon DEF Places, Found

\* The places of f in finitely many caches are finitely many.
LEMMA PlacesFinite ==
  ASSUME NEW f, NEW S, NEW F, IsFiniteSet(DOMAIN F), \A k \in DOMAIN F : F[k] \in Seq(S)
  PROVE  IsFiniteSet(Places(f, F)) /\ Cardinality(Places(f, F)) \in Nat
<1> DEFINE I == {{k} \X Found(f, F[k]) : k \in DOMAIN F}
           m == [k \in DOMAIN F |-> {k} \X Found(f, F[k])]
<1>1. m \in Surjection(DOMAIN F, I)
  BY Zenon DEF Surjection
<1>2. IsFiniteSet(I)
  BY <1>1, FS_Surjection, Zenon
<1>3. \A T \in I : IsFiniteSet(T)
  <2>1. ASSUME NEW k \in DOMAIN F PROVE IsFiniteSet({k} \X Found(f, F[k]))
    <3>1. IsFiniteSet(Found(f, F[k]))
      BY FoundFinite, Zenon
    <3> QED
      BY <3>1, OneCache, Zenon
  <2> QED
    BY <2>1, Zenon
<1>4. Places(f, F) = UNION I
  BY Zenon DEF Places, Found
<1> HIDE DEF I
<1>5. IsFiniteSet(Places(f, F))
  BY <1>2, <1>3, <1>4, FS_UNION, Zenon
<1> QED
  BY <1>5, FS_CardinalityType, Zenon

\* The places of f in all caches but one.
Elsewhere(f, F, d) == {p \in Places(f, F) : p[1] # d}

\* The places in one cache and those elsewhere add up.
LEMMA PlacesSplit ==
  ASSUME NEW f, NEW S, NEW F, IsFiniteSet(DOMAIN F), \A k \in DOMAIN F : F[k] \in Seq(S),
         NEW d \in DOMAIN F
  PROVE  /\ IsFiniteSet(Elsewhere(f, F, d)) /\ Cardinality(Elsewhere(f, F, d)) \in Nat
         /\ Cardinality(Places(f, F)) = Cardinality(Elsewhere(f, F, d)) + Count(f, F[d])
<1> DEFINE E == Elsewhere(f, F, d)
           H == {d} \X Found(f, F[d])
<1>1. IsFiniteSet(Places(f, F))
  BY PlacesFinite, Zenon
<1>2. E \in SUBSET Places(f, F)
  BY Zenon DEF Elsewhere
<1>3. IsFiniteSet(E)
  BY <1>1, <1>2, FS_Subset, Zenon
<1>4. Cardinality(E) \in Nat
  BY <1>3, FS_CardinalityType, Zenon
<1>5. IsFiniteSet(H) /\ Cardinality(H) = Count(f, F[d]) /\ Count(f, F[d]) \in Nat
  <2>1. F[d] \in Seq(S)
    OBVIOUS
  <2>2. /\ IsFiniteSet(Found(f, F[d])) /\ Count(f, F[d]) = Cardinality(Found(f, F[d]))
        /\ Count(f, F[d]) \in Nat
    BY <2>1, FoundFinite, Zenon
  <2> QED
    BY <2>2, OneCache, Zenon
<1>6. Places(f, F) = E \cup H
  <2>1. H \subseteq Places(f, F)
    BY InPlaces, Zenon
  <2>2. ASSUME NEW p \in Places(f, F) PROVE p \in E \/ p \in H
    <3>1. PICK k \in DOMAIN F : p \in {k} \X Found(f, F[k])
      BY InPlaces, Zenon
    <3>2. p[1] = k
      BY <3>1
    <3> QED
      BY <3>1, <3>2, Zenon DEF Elsewhere
  <2> QED
    BY <1>2, <2>1, <2>2, Zenon
<1>7. E \cap H = {}
  <2>1. \A p \in H : p[1] = d
    OBVIOUS
  <2> QED
    BY <2>1, Zenon DEF Elsewhere
<1> HIDE DEF E, H
<1>8. Cardinality(E \cup H) = Cardinality(E) + Cardinality(H) - Cardinality(E \cap H)
  BY <1>3, <1>5, FS_Union, Zenon
<1>9. Cardinality(E \cap H) = 0
  BY <1>7, FS_EmptySet, Zenon
<1>10. Cardinality(Places(f, F)) = Cardinality(E) + Count(f, F[d])
  BY <1>4, <1>5, <1>6, <1>8, <1>9
<1> QED
  BY <1>3, <1>4, <1>10, Zenon DEF E

\* Elsewhere nothing changes when one cache does.
LEMMA SameElsewhere ==
  ASSUME NEW f, NEW F, NEW G, NEW d,
         \A k : k # d => (k \in DOMAIN F <=> k \in DOMAIN G),
         \A k \in DOMAIN F : k # d => F[k] = G[k]
  PROVE  Elsewhere(f, F, d) = Elsewhere(f, G, d)
<1>1. ASSUME NEW k, NEW p \in {k} \X Found(f, F[k]) PROVE p[1] = k
  OBVIOUS
<1>2. ASSUME NEW k, NEW p \in {k} \X Found(f, G[k]) PROVE p[1] = k
  OBVIOUS
<1>3. ASSUME NEW p \in Elsewhere(f, F, d) PROVE p \in Elsewhere(f, G, d)
  <2>1. p \in Places(f, F) /\ p[1] # d
    BY Zenon DEF Elsewhere
  <2>2. PICK k \in DOMAIN F : p \in {k} \X Found(f, F[k])
    BY <2>1, InPlaces, Zenon
  <2>3. k # d
    BY <1>1, <2>1, <2>2, Zenon
  <2>4. k \in DOMAIN G /\ p \in {k} \X Found(f, G[k])
    BY <2>2, <2>3, Zenon
  <2>5. p \in Places(f, G)
    BY <2>4, InPlaces, Zenon
  <2> QED
    BY <2>1, <2>5, Zenon DEF Elsewhere
<1>4. ASSUME NEW p \in Elsewhere(f, G, d) PROVE p \in Elsewhere(f, F, d)
  <2>1. p \in Places(f, G) /\ p[1] # d
    BY Zenon DEF Elsewhere
  <2>2. PICK k \in DOMAIN G : p \in {k} \X Found(f, G[k])
    BY <2>1, InPlaces, Zenon
  <2>3. k # d
    BY <1>2, <2>1, <2>2, Zenon
  <2>4. k \in DOMAIN F /\ p \in {k} \X Found(f, F[k])
    BY <2>2, <2>3, Zenon
  <2>5. p \in Places(f, F)
    BY <2>4, InPlaces, Zenon
  <2> QED
    BY <2>1, <2>5, Zenon DEF Elsewhere
<1> QED
  BY <1>3, <1>4, Zenon

\* A change of one cache changes the number of places by what it adds and takes.
LEMMA PlacesChange ==
  ASSUME NEW f, NEW S, NEW F, IsFiniteSet(DOMAIN F), \A k \in DOMAIN F : F[k] \in Seq(S),
         NEW G, DOMAIN G = DOMAIN F, \A k \in DOMAIN F : G[k] \in Seq(S),
         NEW d \in DOMAIN F, \A k \in DOMAIN F : k # d => F[k] = G[k]
  PROVE  /\ Cardinality(Places(f, F)) \in Nat /\ Cardinality(Places(f, G)) \in Nat
         /\ Cardinality(Places(f, G)) + Count(f, F[d]) = Cardinality(Places(f, F)) + Count(f, G[d])
<1>1. IsFiniteSet(DOMAIN G) /\ d \in DOMAIN G /\ \A k \in DOMAIN G : G[k] \in Seq(S)
  OBVIOUS
<1>2. Elsewhere(f, F, d) = Elsewhere(f, G, d)
  <2>1. \A k : k # d => (k \in DOMAIN F <=> k \in DOMAIN G)
    OBVIOUS
  <2> QED
    BY <2>1, SameElsewhere
<1>3. /\ Cardinality(Elsewhere(f, F, d)) \in Nat
      /\ Cardinality(Places(f, F)) = Cardinality(Elsewhere(f, F, d)) + Count(f, F[d])
  BY PlacesSplit, Zenon
<1>4. Cardinality(Places(f, G)) = Cardinality(Elsewhere(f, G, d)) + Count(f, G[d])
  BY <1>1, PlacesSplit, Zenon
<1>5. Count(f, F[d]) \in Nat /\ Count(f, G[d]) \in Nat
  BY <1>1, FoundFinite, Zenon
<1>6. Cardinality(Places(f, F)) \in Nat /\ Cardinality(Places(f, G)) \in Nat
  BY <1>1, PlacesFinite, Zenon
<1>7. Cardinality(Places(f, G)) + Count(f, F[d]) = Cardinality(Places(f, F)) + Count(f, G[d])
  BY <1>1, <1>2, <1>3, <1>4, <1>5
<1> QED
  BY <1>6, <1>7, Zenon

\* The caches of a sequence.
LEMMA SeqCaches ==
  ASSUME NEW S, NEW c \in Seq(Seq(S))
  PROVE  IsFiniteSet(DOMAIN c) /\ \A k \in DOMAIN c : c[k] \in Seq(S)
<1>1. Len(c) \in Nat /\ DOMAIN c = 1 .. Len(c) /\ \A k \in 1 .. Len(c) : c[k] \in Seq(S)
  BY LenFacts, Zenon
<1>2. 1 \in Int /\ Len(c) \in Int
  BY <1>1
<1> QED
  BY <1>1, <1>2, FS_Interval, Zenon

\* A cache that is sent adds its places.
LEMMA PlacesSent ==
  ASSUME NEW f, NEW S, NEW c \in Seq(Seq(S)), NEW v \in Seq(S)
  PROVE  /\ Cardinality(Places(f, c)) \in Nat
         /\ Cardinality(Places(f, Append(c, v))) = Cardinality(Places(f, c)) + Count(f, v)
<1> DEFINE G == Append(c, v)
           n == Len(c) + 1
<1>1. /\ G \in Seq(Seq(S)) /\ Len(G) = n /\ G[n] = v
      /\ \A i \in 1 .. Len(c) : G[i] = c[i]
  BY AppendFacts
<1>2. Len(c) \in Nat /\ DOMAIN c = 1 .. Len(c) /\ DOMAIN G = 1 .. n
  BY <1>1, LenFacts, Zenon
<1> HIDE DEF G
<1>3. /\ \A k : k # n => (k \in DOMAIN c <=> k \in DOMAIN G)
      /\ n \in DOMAIN G /\ n \notin DOMAIN c
  BY <1>2
<1>4. \A k \in DOMAIN c : k # n => c[k] = G[k]
  BY <1>1, <1>2, Zenon
<1> HIDE DEF n
<1>5. Elsewhere(f, c, n) = Elsewhere(f, G, n)
  BY <1>3, <1>4, SameElsewhere
<1>6. Elsewhere(f, c, n) = Places(f, c)
  <2>1. ASSUME NEW p \in Places(f, c) PROVE p[1] # n
    <3>1. PICK k \in DOMAIN c : p \in {k} \X Found(f, c[k])
      BY InPlaces, Zenon
    <3>2. p[1] = k
      BY <3>1
    <3> QED
      BY <1>3, <3>2, Zenon
  <2> QED
    BY <2>1, Zenon DEF Elsewhere
<1>7. IsFiniteSet(DOMAIN G) /\ \A k \in DOMAIN G : G[k] \in Seq(S)
  BY <1>1, SeqCaches, Zenon
<1>8. Cardinality(Places(f, G)) = Cardinality(Elsewhere(f, G, n)) + Count(f, G[n])
  BY <1>3, <1>7, PlacesSplit, Zenon
<1>9. Cardinality(Places(f, c)) \in Nat
  <2>1. IsFiniteSet(DOMAIN c) /\ \A k \in DOMAIN c : c[k] \in Seq(S)
    BY SeqCaches, Zenon
  <2> QED
    BY <2>1, PlacesFinite, Zenon
<1> QED
  BY <1>1, <1>5, <1>6, <1>8, <1>9, Zenon DEF G

\* A cache that is received takes its places away.
LEMMA PlacesReceived ==
  ASSUME NEW f, NEW S, NEW c \in Seq(Seq(S)), c # <<>>
  PROVE  Cardinality(Places(f, c)) = Cardinality(Places(f, Tail(c))) + Count(f, Head(c))
<1> DEFINE T == Tail(c)
           E == Elsewhere(f, c, 1)
           B == [p \in Places(f, T) |-> <<p[1] + 1, p[2]>>]
<1>1. /\ Head(c) = c[1] /\ T \in Seq(Seq(S)) /\ Len(T) = Len(c) - 1
      /\ \A i \in 1 .. Len(T) : T[i] = c[i + 1]
  BY TailFacts
<1>2. /\ Len(c) \in Nat /\ Len(c) # 0 /\ Len(T) \in Nat
      /\ DOMAIN c = 1 .. Len(c) /\ DOMAIN T = 1 .. Len(T)
  BY <1>1, LenFacts, Zenon
<1> HIDE DEF T
<1>3. /\ 1 \in DOMAIN c
      /\ \A k \in DOMAIN T : k \in Int /\ k + 1 \in DOMAIN c /\ k + 1 # 1
      /\ \A k \in DOMAIN c : k # 1 => k - 1 \in DOMAIN T /\ (k - 1) + 1 = k
  <2> DEFINE n == Len(c)
             m == Len(T)
  <2> HIDE DEF n, m
  <2>1. n \in Nat /\ n # 0 /\ m = n - 1 /\ DOMAIN c = 1 .. n /\ DOMAIN T = 1 .. m
    BY <1>1, <1>2, Zenon DEF n, m
  <2>2. 1 \in 1 .. n /\ \A k \in 1 .. m : k \in Int /\ k + 1 \in 1 .. n /\ k + 1 # 1
    BY <2>1
  <2>3. \A k \in 1 .. n : k # 1 => k - 1 \in 1 .. m /\ (k - 1) + 1 = k
    BY <2>1
  <2> QED
    BY <2>1, <2>2, <2>3, Zenon
<1>4. \A k \in DOMAIN T : T[k] = c[k + 1]
  BY <1>1, <1>2, Zenon
<1>5. ASSUME NEW p \in Places(f, T)
      PROVE  /\ p[1] \in DOMAIN T /\ p[2] \in Found(f, T[p[1]]) /\ p = <<p[1], p[2]>>
             /\ <<p[1] + 1, p[2]>> \in E
  <2>1. PICK k \in DOMAIN T : p \in {k} \X Found(f, T[k])
    BY InPlaces, Zenon
  <2>2. p[1] = k /\ p[2] \in Found(f, T[k]) /\ p = <<k, p[2]>>
    BY <2>1
  <2>3. k + 1 \in DOMAIN c /\ p[2] \in Found(f, c[k + 1])
    BY <1>3, <1>4, <2>2, Zenon
  <2>4. <<k + 1, p[2]>> \in {k + 1} \X Found(f, c[k + 1])
    BY <2>3
  <2>5. <<k + 1, p[2]>> \in Places(f, c)
    BY <2>3, <2>4, InPlaces, Zenon
  <2>6. <<k + 1, p[2]>>[1] # 1
    BY <1>3, Zenon
  <2>7. <<k + 1, p[2]>> \in E
    BY <2>5, <2>6, Zenon DEF Elsewhere
  <2> QED
    BY <2>2, <2>7, Zenon
<1>6. ASSUME NEW p \in Places(f, T), NEW q \in Places(f, T), B[p] = B[q] PROVE p = q
  <2>1. p[1] \in Int /\ q[1] \in Int /\ p = <<p[1], p[2]>> /\ q = <<q[1], q[2]>>
    BY <1>3, <1>5, Zenon
  <2>2. p[1] + 1 = q[1] + 1 /\ p[2] = q[2]
    BY <1>6
  <2>3. p[1] = q[1]
    BY <2>1, <2>2
  <2> QED
    BY <2>1, <2>2, <2>3, Zenon
<1>7. ASSUME NEW q \in E PROVE \E p \in Places(f, T) : B[p] = q
  <2>1. q \in Places(f, c) /\ q[1] # 1
    BY Zenon DEF Elsewhere
  <2>2. PICK k \in DOMAIN c : q \in {k} \X Found(f, c[k])
    BY <2>1, InPlaces, Zenon
  <2>3. q[1] = k /\ q[2] \in Found(f, c[k]) /\ q = <<k, q[2]>>
    BY <2>2
  <2>4. k - 1 \in DOMAIN T /\ (k - 1) + 1 = k
    BY <1>3, <2>1, <2>3, Zenon
  <2>5. q[2] \in Found(f, T[k - 1])
    BY <1>4, <2>3, <2>4, Zenon
  <2>6. <<k - 1, q[2]>> \in {k - 1} \X Found(f, T[k - 1])
    BY <2>5
  <2>7. <<k - 1, q[2]>> \in Places(f, T)
    BY <2>4, <2>6, InPlaces, Zenon
  <2>8. B[<<k - 1, q[2]>>] = <<(k - 1) + 1, q[2]>>
    BY <2>7
  <2> QED
    BY <2>3, <2>4, <2>7, <2>8, Zenon
<1>8. B \in [Places(f, T) -> E]
  BY <1>5, Zenon
<1> HIDE DEF B, E
<1>9. ExistsBijection(Places(f, T), E)
  <2>1. B \in Injection(Places(f, T), E)
    <3>1. DOMAIN B = Places(f, T)
      BY Zenon DEF B
    <3> QED
      BY <1>6, <1>8, <3>1, Zenon DEF Injection, IsInjective
  <2>2. B \in Surjection(Places(f, T), E)
    BY <1>7, <1>8, Zenon DEF Surjection
  <2> QED
    BY <2>1, <2>2, Zenon DEF ExistsBijection, Bijection
<1>10. IsFiniteSet(Places(f, T))
  <2>1. IsFiniteSet(DOMAIN T) /\ \A k \in DOMAIN T : T[k] \in Seq(S)
    BY <1>1, SeqCaches, Zenon
  <2> QED
    BY <2>1, PlacesFinite, Zenon
<1>11. Cardinality(E) = Cardinality(Places(f, T))
  BY <1>9, <1>10, FS_Bijection, Zenon
<1>12. Cardinality(Places(f, c)) = Cardinality(E) + Count(f, c[1])
  <2>1. IsFiniteSet(DOMAIN c) /\ \A k \in DOMAIN c : c[k] \in Seq(S)
    BY SeqCaches, Zenon
  <2>2. 1 \in DOMAIN c
    BY <1>3, Zenon
  <2> QED
    BY <2>1, <2>2, PlacesSplit, Zenon DEF E
<1> QED
  BY <1>1, <1>11, <1>12, Zenon DEF T

-----------------------------------------------------------------------------
(* The control-plane store *)

\* What a state tells of the number of updates of a flow.
LEMMA KnownTyped ==
  ASSUME CpTypeOK, NEW f \in CpFlows
  PROVE  /\ cp_counters[f] \in Nat /\ Cardinality(Places(f, cp_channel)) \in Nat
         /\ Cardinality(Places(f, cp_cache)) \in Nat
         /\ cp_made[f] \in Nat /\ cp_copied[f] \in Nat
         /\ Known(f) \in Nat
<1>1. cp_counters[f] \in Nat /\ cp_made[f] \in Nat /\ cp_copied[f] \in Nat
  BY DEF CpTypeOK
<1>2. Cardinality(Places(f, cp_channel)) \in Nat
  <2>1. IsFiniteSet(DOMAIN cp_channel) /\ \A k \in DOMAIN cp_channel : cp_channel[k] \in Seq(CpFlows)
    BY SeqCaches, Zenon DEF CpTypeOK
  <2> QED
    BY <2>1, PlacesFinite, Zenon
<1>3. Cardinality(Places(f, cp_cache)) \in Nat
  <2>1. IsFiniteSet(DOMAIN cp_cache) /\ \A k \in DOMAIN cp_cache : cp_cache[k] \in Seq(CpFlows)
    BY PathsAssumption, Zenon DEF CpTypeOK
  <2> QED
    BY <2>1, PlacesFinite, Zenon
<1>4. Known(f) \in Nat
  BY <1>1, <1>2, <1>3 DEF Known
<1> QED
  BY <1>1, <1>2, <1>3, <1>4, Zenon

\* A step that leaves counters, caches and channel alone.
LEMMA KnownSame ==
  ASSUME cp_counters' = cp_counters, cp_channel' = cp_channel, cp_cache' = cp_cache, NEW f
  PROVE  Known(f)' = Known(f)
BY Zenon DEF Known

\* A clone holds the updates of the cache it copied once more.
LEMMA CloneStep ==
  ASSUME CpTypeOK, NEW s \in Paths, NEW d \in Paths, CpClone(s, d)
  PROVE  /\ CpTypeOK' /\ cp_made' = cp_made
         /\ \A f \in CpFlows : \E n \in Nat : /\ Known(f)' = Known(f) + n
                                              /\ cp_copied'[f] = cp_copied[f] + n
<1>1. /\ FirstPath \in cp_handles /\ cp_handles \subseteq Paths
      /\ cp_cache \in [Paths -> Seq(CpFlows)]
      /\ cp_updates = [e \in Paths |-> Len(cp_cache[e])]
      /\ \A e \in Paths : cp_cache[e] = <<>> \/ (e \in cp_handles /\ Len(cp_cache[e]) < Delay)
      /\ cp_channel \in Seq(Seq(CpFlows)) /\ Len(cp_channel) <= ChannelSize
      /\ cp_counters \in [CpFlows -> Nat] /\ cp_made \in [CpFlows -> Nat]
      /\ cp_copied \in [CpFlows -> Nat]
  BY Zenon DEF CpTypeOK
<1> DEFINE c == cp_cache[s]
<1>2. /\ s \in cp_handles /\ d \notin cp_handles
      /\ cp_handles' = cp_handles \cup {d}
      /\ cp_cache' = [cp_cache EXCEPT ![d] = c]
      /\ cp_updates' = [cp_updates EXCEPT ![d] = cp_updates[s]]
      /\ cp_copied' = [f \in CpFlows |-> cp_copied[f] + Count(f, c)]
      /\ cp_channel' = cp_channel /\ cp_counters' = cp_counters /\ cp_made' = cp_made
  BY Zenon DEF CpClone
<1>3. cp_cache[d] = <<>> /\ c \in Seq(CpFlows) /\ cp_updates[s] = Len(c)
      /\ (c = <<>> \/ Len(c) < Delay)
  BY <1>1, <1>2, Zenon
<1>4. \A f \in CpFlows : Count(f, c) \in Nat
  BY <1>3, FoundFinite, Zenon
<1> HIDE DEF c
<1>5. /\ cp_cache' \in [Paths -> Seq(CpFlows)] /\ DOMAIN cp_cache = Paths
      /\ DOMAIN cp_cache' = Paths /\ cp_cache'[d] = c
      /\ \A e \in Paths : e # d => cp_cache[e] = cp_cache'[e]
  BY <1>1, <1>2, <1>3
<1>6. cp_updates' = [e \in Paths |-> Len(cp_cache'[e])]
  <2>1. cp_updates' = [e \in Paths |-> IF e = d THEN Len(c) ELSE Len(cp_cache[e])]
    BY <1>1, <1>2, <1>3, Zenon
  <2> QED
    BY <1>5, <2>1, Zenon
<1>7. \A e \in Paths :
        cp_cache'[e] = <<>> \/ (e \in cp_handles' /\ Len(cp_cache'[e]) < Delay)
  BY <1>1, <1>2, <1>3, <1>5, Zenon
<1>8. cp_copied' \in [CpFlows -> Nat]
  BY <1>1, <1>2, <1>4
<1>9. CpTypeOK'
  BY <1>1, <1>2, <1>5, <1>6, <1>7, <1>8, Zenon DEF CpTypeOK
<1>10. ASSUME NEW f \in CpFlows
       PROVE  \E n \in Nat : /\ Known(f)' = Known(f) + n
                             /\ cp_copied'[f] = cp_copied[f] + n
  <2> DEFINE A == Cardinality(Places(f, cp_channel))
             C == Cardinality(Places(f, cp_cache))
             C1 == Cardinality(Places(f, cp_cache'))
             n == Count(f, c)
  <2>1. A \in Nat /\ C \in Nat /\ cp_counters[f] \in Nat /\ n \in Nat
    BY <1>4, KnownTyped, Zenon
  <2>2. Known(f) = cp_counters[f] + A + C /\ Known(f)' = cp_counters[f] + A + C1
    BY <1>2, Zenon DEF Known
  <2>3. Count(f, cp_cache[d]) = 0
    BY <1>3, CountEmpty, Zenon
  <2>4. C1 \in Nat /\ C1 + Count(f, cp_cache[d]) = C + Count(f, cp_cache'[d])
    <3>1. IsFiniteSet(DOMAIN cp_cache) /\ DOMAIN cp_cache' = DOMAIN cp_cache /\ d \in DOMAIN cp_cache
      BY <1>5, PathsAssumption, Zenon
    <3>2. /\ \A k \in DOMAIN cp_cache : cp_cache[k] \in Seq(CpFlows)
          /\ \A k \in DOMAIN cp_cache : cp_cache'[k] \in Seq(CpFlows)
          /\ \A k \in DOMAIN cp_cache : k # d => cp_cache[k] = cp_cache'[k]
      BY <1>1, <1>5, Zenon
    <3> QED
      BY <3>1, <3>2, PlacesChange
  <2>5. C1 + 0 = C + n
    BY <1>5, <2>3, <2>4, Zenon
  <2>6. cp_copied'[f] = cp_copied[f] + n
    BY <1>2, Zenon
  <2> HIDE DEF A, C, C1, n
  <2>7. Known(f)' = Known(f) + n
    BY <2>1, <2>2, <2>4, <2>5
  <2> QED
    BY <2>1, <2>6, <2>7, Zenon
<1> QED
  BY <1>2, <1>9, <1>10, Zenon

\* Receiving moves the updates of a cache into the counters.
LEMMA RecvStep ==
  ASSUME CpTypeOK, cp_recv
  PROVE  /\ CpTypeOK' /\ cp_made' = cp_made /\ cp_copied' = cp_copied
         /\ \A f \in CpFlows : Known(f)' = Known(f)
<1> DEFINE v == Head(cp_channel)
<1>1. /\ cp_channel # <<>> /\ cp_channel' = Tail(cp_channel)
      /\ cp_counters' = [f \in CpFlows |-> cp_counters[f] + Count(f, v)]
      /\ cp_handles' = cp_handles /\ cp_cache' = cp_cache /\ cp_updates' = cp_updates
      /\ cp_made' = cp_made /\ cp_copied' = cp_copied
  BY Zenon DEF cp_recv, update_internal
<1>2. cp_channel \in Seq(Seq(CpFlows)) /\ Len(cp_channel) <= ChannelSize
  BY Zenon DEF CpTypeOK
<1>3. /\ v \in Seq(CpFlows) /\ cp_channel' \in Seq(Seq(CpFlows))
      /\ Len(cp_channel') = Len(cp_channel) - 1
  BY <1>1, <1>2, TailFacts
<1>4. Len(cp_channel') <= ChannelSize
  <2>1. Len(cp_channel) \in Nat
    BY <1>2, LenFacts, Zenon
  <2> QED
    BY <1>2, <1>3, <2>1, ChannelAssumption
<1>5. \A f \in CpFlows : Count(f, v) \in Nat /\ cp_counters[f] \in Nat
  BY <1>3, FoundFinite, KnownTyped, Zenon
<1>6. cp_counters' \in [CpFlows -> Nat]
  <2> HIDE DEF v
  <2> QED
    BY <1>1, <1>5
<1>7. CpTypeOK'
  BY <1>1, <1>3, <1>4, <1>6, Zenon DEF CpTypeOK
<1>8. ASSUME NEW f \in CpFlows PROVE Known(f)' = Known(f)
  <2> DEFINE A == Cardinality(Places(f, cp_channel))
             B == Cardinality(Places(f, cp_channel'))
             C == Cardinality(Places(f, cp_cache))
  <2>1. A = B + Count(f, v)
    BY <1>1, <1>2, PlacesReceived, Zenon
  <2>2. A \in Nat /\ C \in Nat /\ cp_counters[f] \in Nat
    BY KnownTyped, Zenon
  <2>3. B \in Nat
    <3>1. /\ IsFiniteSet(DOMAIN cp_channel')
          /\ \A k \in DOMAIN cp_channel' : cp_channel'[k] \in Seq(CpFlows)
      BY <1>3, SeqCaches, Zenon
    <3> QED
      BY <3>1, PlacesFinite, Zenon
  <2>4. Known(f) = cp_counters[f] + A + C
    BY Zenon DEF Known
  <2>5. Known(f)' = (cp_counters[f] + Count(f, v)) + B + C
    BY <1>1, Zenon DEF Known
  <2> HIDE DEF A, B, C, v
  <2> QED
    BY <1>5, <2>1, <2>2, <2>3, <2>4, <2>5
<1> QED
  BY <1>1, <1>7, <1>8, Zenon

\* Removing a flow takes what was counted for it, and nothing of another flow.
LEMMA RemoveStep ==
  ASSUME CpTypeOK, NEW g \in CpFlows, cp_remove(g)
  PROVE  /\ CpTypeOK' /\ cp_made' = cp_made /\ cp_copied' = cp_copied
         /\ \A f \in CpFlows : Known(f)' = Known(f) \/ Known(f)' = Known(f) - cp_counters[f]
<1>1. /\ cp_counters' = [cp_counters EXCEPT ![g] = 0]
      /\ cp_handles' = cp_handles /\ cp_cache' = cp_cache /\ cp_updates' = cp_updates
      /\ cp_channel' = cp_channel /\ cp_made' = cp_made /\ cp_copied' = cp_copied
  BY Zenon DEF cp_remove
<1>2. cp_counters \in [CpFlows -> Nat]
  BY Zenon DEF CpTypeOK
<1>3. cp_counters' \in [CpFlows -> Nat] /\ cp_counters'[g] = 0
  BY <1>1, <1>2
<1>4. CpTypeOK'
  BY <1>1, <1>3, Zenon DEF CpTypeOK
<1>5. ASSUME NEW f \in CpFlows
      PROVE  Known(f)' = Known(f) \/ Known(f)' = Known(f) - cp_counters[f]
  <2> DEFINE A == Cardinality(Places(f, cp_channel))
             C == Cardinality(Places(f, cp_cache))
  <2>1. A \in Nat /\ C \in Nat /\ cp_counters[f] \in Nat
    BY KnownTyped, Zenon
  <2>2. Known(f) = cp_counters[f] + A + C /\ Known(f)' = cp_counters'[f] + A + C
    BY <1>1, Zenon DEF Known
  <2> HIDE DEF A, C
  <2>3. CASE f = g
    <3>1. cp_counters'[f] = 0
      BY <1>3, <2>3, Zenon
    <3> QED
      BY <2>1, <2>2, <3>1
  <2>4. CASE f # g
    <3>1. cp_counters'[f] = cp_counters[f]
      BY <1>1, <1>2, <2>4
    <3> QED
      BY <2>2, <3>1, Zenon
  <2> QED
    BY <2>3, <2>4, Zenon
<1> QED
  BY <1>1, <1>4, <1>5, Zenon

\* Len(<<>>) and the sequences without elements.
LEMMA EmptySeq ==
  ASSUME NEW S
  PROVE  <<>> \in Seq(S) /\ Len(<<>>) = 0
OBVIOUS

\* An update, sent or not, keeps the types.
LEMMA UpdateTyped ==
  ASSUME CpTypeOK, NEW d \in Paths, NEW g \in CpFlows, cp_update(d, g)
  PROVE  CpTypeOK'
<1> DEFINE p == Append(cp_cache[d], g)
           n == Len(cp_cache[d])
           due == cp_updates[d] + 1 >= Delay
<1>1. /\ FirstPath \in cp_handles /\ cp_handles \subseteq Paths
      /\ cp_cache \in [Paths -> Seq(CpFlows)]
      /\ cp_updates = [e \in Paths |-> Len(cp_cache[e])]
      /\ \A e \in Paths : cp_cache[e] = <<>> \/ (e \in cp_handles /\ Len(cp_cache[e]) < Delay)
      /\ cp_channel \in Seq(Seq(CpFlows)) /\ Len(cp_channel) <= ChannelSize
      /\ cp_counters \in [CpFlows -> Nat] /\ cp_made \in [CpFlows -> Nat]
  BY Zenon DEF CpTypeOK
<1>2. /\ d \in cp_handles
      /\ cp_made' = [cp_made EXCEPT ![g] = @ + 1]
      /\ cp_cache' = [cp_cache EXCEPT ![d] = IF due THEN <<>> ELSE p]
      /\ cp_updates' = [cp_updates EXCEPT ![d] = IF due THEN 0 ELSE @ + 1]
      /\ cp_channel' = IF due /\ Len(cp_channel) < ChannelSize
                       THEN Append(cp_channel, p) ELSE cp_channel
      /\ cp_handles' = cp_handles /\ cp_counters' = cp_counters /\ cp_copied' = cp_copied
  BY Zenon DEF cp_update
<1>3. cp_cache[d] \in Seq(CpFlows) /\ cp_updates[d] = n
  BY <1>1, Zenon
<1>4. p \in Seq(CpFlows) /\ Len(p) = n + 1
  BY <1>3, AppendFacts
<1>5. n \in Nat
  BY <1>3, LenFacts, Zenon
<1>6. cp_made' \in [CpFlows -> Nat]
  BY <1>1, <1>2
<1>7. cp_channel' \in Seq(Seq(CpFlows)) /\ Len(cp_channel') <= ChannelSize
  <2>1. CASE due /\ Len(cp_channel) < ChannelSize
    <3>1. cp_channel' = Append(cp_channel, p)
      BY <1>2, <2>1, Zenon
    <3> HIDE DEF p, due
    <3>2. Append(cp_channel, p) \in Seq(Seq(CpFlows)) /\ Len(Append(cp_channel, p)) = Len(cp_channel) + 1
      BY <1>1, <1>4, AppendFacts
    <3>3. Len(cp_channel) \in Nat
      BY <1>1, LenFacts, Zenon
    <3>4. Len(cp_channel) + 1 <= ChannelSize
      BY <2>1, <3>3, ChannelAssumption
    <3> QED
      BY <3>1, <3>2, <3>4, Zenon
  <2>2. CASE ~(due /\ Len(cp_channel) < ChannelSize)
    BY <1>1, <1>2, <2>2, Zenon
  <2> QED
    BY <2>1, <2>2, Zenon
<1> DEFINE w == IF due THEN <<>> ELSE p
           m == IF due THEN 0 ELSE cp_updates[d] + 1
<1>8. w \in Seq(CpFlows) /\ m = Len(w) /\ (w = <<>> \/ Len(w) < Delay)
  <2>1. CASE due
    BY <2>1, EmptySeq, Zenon
  <2>2. CASE ~due
    <3>1. n + 1 < Delay
      BY <1>3, <1>5, <2>2, ChannelAssumption
    <3> HIDE DEF p, n, due
    <3> QED
      BY <1>3, <1>4, <2>2, <3>1, Zenon
  <2> QED
    BY <2>1, <2>2, Zenon
<1>9. cp_cache' = [cp_cache EXCEPT ![d] = w] /\ cp_updates' = [cp_updates EXCEPT ![d] = m]
  BY <1>2, Zenon
<1> HIDE DEF w, m, p, n, due
<1>10. cp_cache' \in [Paths -> Seq(CpFlows)]
  BY <1>1, <1>8, <1>9
<1>11. \A e \in Paths : cp_cache'[e] = IF e = d THEN w ELSE cp_cache[e]
  BY <1>1, <1>9
<1>12. cp_updates' = [e \in Paths |-> Len(cp_cache'[e])]
  <2>1. cp_updates' = [e \in Paths |-> IF e = d THEN m ELSE Len(cp_cache[e])]
    BY <1>1, <1>9, Zenon
  <2> QED
    BY <1>8, <1>11, <2>1, Zenon
<1>13. \A e \in Paths :
         cp_cache'[e] = <<>> \/ (e \in cp_handles' /\ Len(cp_cache'[e]) < Delay)
  BY <1>1, <1>2, <1>8, <1>11, Zenon
<1> QED
  BY <1>1, <1>2, <1>6, <1>7, <1>10, <1>12, <1>13, Zenon DEF CpTypeOK

\* An update is known once, unless the channel is full when its cache is due.
LEMMA UpdateStep ==
  ASSUME CpTypeOK, NEW d \in Paths, NEW g \in CpFlows, cp_update(d, g), NEW f \in CpFlows
  PROVE  /\ Known(f)' <= Known(f) + (cp_made'[f] - cp_made[f])
         /\ cp_made[f] <= cp_made'[f]
         /\ Known(f)' < Known(f) => Len(cp_channel) = ChannelSize
         /\ cp_copied' = cp_copied
<1> DEFINE p == Append(cp_cache[d], g)
           due == cp_updates[d] + 1 >= Delay
           w == IF due THEN <<>> ELSE p
           one == IF f = g THEN 1 ELSE 0
           A == Cardinality(Places(f, cp_channel))
           A1 == Cardinality(Places(f, cp_channel'))
           C == Cardinality(Places(f, cp_cache))
           C1 == Cardinality(Places(f, cp_cache'))
           N == Count(f, cp_cache[d])
<1>1. /\ cp_made' = [cp_made EXCEPT ![g] = @ + 1]
      /\ cp_cache' = [cp_cache EXCEPT ![d] = w]
      /\ cp_channel' = IF due /\ Len(cp_channel) < ChannelSize
                       THEN Append(cp_channel, p) ELSE cp_channel
      /\ cp_counters' = cp_counters /\ cp_copied' = cp_copied
  BY Zenon DEF cp_update
<1>2. /\ cp_cache \in [Paths -> Seq(CpFlows)] /\ cp_cache[d] \in Seq(CpFlows)
      /\ cp_channel \in Seq(Seq(CpFlows)) /\ Len(cp_channel) <= ChannelSize
      /\ cp_made \in [CpFlows -> Nat]
  BY DEF CpTypeOK
<1>3. p \in Seq(CpFlows)
  BY <1>2, AppendFacts
<1>4. cp_made'[f] = cp_made[f] + one /\ cp_made[f] \in Nat /\ one \in Nat
  BY <1>1, <1>2
<1>5. A \in Nat /\ C \in Nat /\ cp_counters[f] \in Nat
  BY KnownTyped, Zenon
<1>6. N \in Nat /\ Count(f, p) = N + one
  BY <1>2, FoundFinite, CountAppend, Zenon
<1>7. Known(f) = cp_counters[f] + A + C /\ Known(f)' = cp_counters[f] + A1 + C1
  BY <1>1, Zenon DEF Known
<1>8. w \in Seq(CpFlows)
  BY <1>3, EmptySeq, Zenon
<1>9. C1 \in Nat /\ C1 + N = C + Count(f, w)
  <2> HIDE DEF w
  <2>1. cp_cache' = [cp_cache EXCEPT ![d] = w]
    BY <1>1, Zenon
  <2>2. IsFiniteSet(Paths) /\ cp_cache \in [Paths -> Seq(CpFlows)]
    BY <1>2, PathsAssumption, Zenon
  <2>3. /\ DOMAIN cp_cache = Paths /\ DOMAIN cp_cache' = Paths /\ cp_cache'[d] = w
        /\ \A k \in Paths : cp_cache[k] \in Seq(CpFlows) /\ cp_cache'[k] \in Seq(CpFlows)
        /\ \A k \in Paths : k # d => cp_cache[k] = cp_cache'[k]
    BY <1>8, <2>1, <2>2
  <2>4. C1 \in Nat /\ C1 + N = C + Count(f, cp_cache'[d])
    <3>1. IsFiniteSet(DOMAIN cp_cache) /\ DOMAIN cp_cache' = DOMAIN cp_cache /\ d \in DOMAIN cp_cache
      BY <2>2, <2>3, Zenon
    <3>2. /\ \A k \in DOMAIN cp_cache : cp_cache[k] \in Seq(CpFlows)
          /\ \A k \in DOMAIN cp_cache : cp_cache'[k] \in Seq(CpFlows)
          /\ \A k \in DOMAIN cp_cache : k # d => cp_cache[k] = cp_cache'[k]
      BY <2>3, Zenon
    <3> QED
      BY <3>1, <3>2, PlacesChange
  <2> QED
    BY <2>3, <2>4, Zenon
<1>10. ASSUME cp_counters[f] + A1 + C1 = cp_counters[f] + A + C + one
       PROVE  /\ Known(f)' <= Known(f) + (cp_made'[f] - cp_made[f])
              /\ cp_made[f] <= cp_made'[f] /\ ~(Known(f)' < Known(f))
              /\ cp_copied' = cp_copied
  <2> DEFINE K == cp_counters[f] + A + C
  <2>1. K \in Nat
    BY <1>5
  <2>2. Known(f) = K /\ Known(f)' = K + one
    BY <1>7, <1>10, Zenon
  <2> HIDE DEF K, A, A1, C, C1, N, one, w, p, due
  <2> QED
    BY <1>1, <1>4, <2>1, <2>2
<1>11. ASSUME cp_counters[f] + A1 + C1 <= cp_counters[f] + A + C + one
       PROVE  /\ Known(f)' <= Known(f) + (cp_made'[f] - cp_made[f])
              /\ cp_made[f] <= cp_made'[f] /\ cp_copied' = cp_copied
  <2>1. Known(f)' <= Known(f) + one
    BY <1>7, <1>11, Zenon
  <2>2. Known(f) \in Nat
    BY KnownTyped, Zenon
  <2> HIDE DEF A, A1, C, C1, N, one, w, p, due
  <2> QED
    BY <1>1, <1>4, <2>1, <2>2
<1>12. CASE ~due
  <2>1. w = p /\ A1 = A
    BY <1>1, <1>12, Zenon
  <2>2. C1 + N = C + (N + one)
    BY <1>6, <1>9, <2>1, Zenon
  <2> HIDE DEF A, A1, C, C1, N, one, w, p, due
  <2>3. cp_counters[f] + A + C1 = cp_counters[f] + A + C + one
    BY <1>4, <1>5, <1>6, <1>9, <2>2
  <2> QED
    BY <1>10, <2>1, <2>3, Zenon
<1>13. CASE due
  <2>1. Count(f, w) = 0
    BY <1>13, CountEmpty, Zenon
  <2>2. C1 + N = C + 0
    <3> HIDE DEF w, C, C1, N
    <3> QED
      BY <1>9, <2>1, Zenon
  <2>3. CASE Len(cp_channel) < ChannelSize
    <3>1. cp_channel' = Append(cp_channel, p)
      BY <1>1, <1>13, <2>3, Zenon
    <3>2. A1 = A + Count(f, p)
      <4> HIDE DEF p
      <4> QED
        BY <1>2, <1>3, <3>1, PlacesSent, Zenon
    <3>3. A1 = A + (N + one)
      BY <1>6, <3>2, Zenon
    <3> HIDE DEF A, A1, C, C1, N, one, w, p, due
    <3>4. cp_counters[f] + (A + (N + one)) + C1 = cp_counters[f] + A + C + one
      BY <1>4, <1>5, <1>6, <1>9, <2>2
    <3> QED
      BY <1>10, <3>3, <3>4, Zenon
  <2>4. CASE ~(Len(cp_channel) < ChannelSize)
    <3>1. A1 = A
      BY <1>1, <2>4, Zenon
    <3>2. Len(cp_channel) \in Nat
      BY <1>2, LenFacts, Zenon
    <3>3. Len(cp_channel) = ChannelSize
      BY <1>2, <2>4, <3>2, ChannelAssumption
    <3> HIDE DEF A, A1, C, C1, N, one, w, p, due
    <3>4. cp_counters[f] + A + C1 <= cp_counters[f] + A + C + one
      BY <1>4, <1>5, <1>6, <1>9, <2>2
    <3> QED
      BY <1>11, <3>1, <3>3, <3>4, Zenon
  <2> QED
    BY <2>3, <2>4, Zenon
<1> QED
  BY <1>12, <1>13, Zenon

\* Caches and channel keep their types and their bounds.
THEOREM CpTypeCorrect == CpSpec => []CpTypeOK
<1>1. CpInit => CpTypeOK
  <2> SUFFICES ASSUME CpInit PROVE CpTypeOK
    OBVIOUS
  <2>1. <<>> \in Seq(CpFlows) /\ <<>> \in Seq(Seq(CpFlows)) /\ Len(<<>>) = 0
    BY EmptySeq, Zenon
  <2>2. /\ cp_counters \in [CpFlows -> Nat] /\ cp_made \in [CpFlows -> Nat]
        /\ cp_copied \in [CpFlows -> Nat] /\ 0 <= ChannelSize
    BY ChannelAssumption DEF CpInit
  <2>3. /\ cp_handles = {FirstPath} /\ FirstPath \in Paths /\ cp_channel = <<>>
        /\ cp_cache \in [Paths -> Seq(CpFlows)] /\ \A d \in Paths : cp_cache[d] = <<>>
        /\ cp_updates = [d \in Paths |-> 0]
    BY <2>1, PathsAssumption, Zenon DEF CpInit
  <2>4. cp_updates = [d \in Paths |-> Len(cp_cache[d])]
    BY <2>1, <2>3
  <2> QED
    BY <2>1, <2>2, <2>3, <2>4, Zenon DEF CpTypeOK
<1>2. CpTypeOK /\ [CpNext]_cpStore => CpTypeOK'
  <2> SUFFICES ASSUME CpTypeOK, [CpNext]_cpStore PROVE CpTypeOK'
    OBVIOUS
  <2>1. CASE UNCHANGED cpStore
    BY <2>1, Zenon DEF cpStore, CpTypeOK
  <2>2. ASSUME NEW s \in Paths, NEW d \in Paths, CpClone(s, d) PROVE CpTypeOK'
    BY <2>2, CloneStep, Zenon
  <2>3. ASSUME NEW d \in Paths, NEW g \in CpFlows, cp_update(d, g) PROVE CpTypeOK'
    BY <2>3, UpdateTyped, Zenon
  <2>4. CASE cp_recv
    BY <2>4, RecvStep, Zenon
  <2>5. ASSUME NEW g \in CpFlows, cp_remove(g) PROVE CpTypeOK'
    BY <2>5, RemoveStep, Zenon
  <2> QED
    BY <2>1, <2>2, <2>3, <2>4, <2>5, Zenon DEF CpNext
<1> QED
  BY <1>1, <1>2, PTL DEF CpSpec

\* No update is counted twice on its way from a cache through the channel into
\* the counters, but for those that a clone copied with the cache of its data path,
\* for any number of data paths, clones at any time, any delay and any channel.
THEOREM UpdatesCountOnce == CpSpec => []CountedAtMostOnce
<1> DEFINE Total(f) == cp_made[f] + cp_copied[f]
<1>1. CpInit => CountedAtMostOnce
  <2> SUFFICES ASSUME CpInit, NEW f \in CpFlows PROVE Known(f) <= Total(f)
    BY Zenon DEF CountedAtMostOnce
  <2>1. /\ cp_cache = [d \in Paths |-> <<>>] /\ cp_channel = <<>>
        /\ cp_counters[f] = 0 /\ cp_made[f] = 0 /\ cp_copied[f] = 0
    BY Zenon DEF CpInit
  <2>2. DOMAIN <<>> = {}
    OBVIOUS
  <2>3. \A d \in Paths : cp_cache[d] = <<>>
    BY <2>1, Zenon
  <2>4. Places(f, cp_channel) = {} /\ Places(f, cp_cache) = {}
    <3>1. DOMAIN cp_channel = {} /\ DOMAIN cp_cache = Paths
      BY <2>1, <2>2, Zenon
    <3>2. \A d \in Paths : Found(f, cp_cache[d]) = {}
      BY <2>2, <2>3, Zenon DEF Found
    <3>3. \A p : p \notin Places(f, cp_channel)
      BY <3>1, InPlaces, Zenon
    <3>4. \A p : p \notin Places(f, cp_cache)
      BY <3>1, <3>2, InPlaces
    <3> QED
      BY <3>3, <3>4, Zenon
  <2>5. Cardinality({}) = 0
    BY FS_EmptySet, Zenon
  <2>6. Known(f) = 0 + 0 + 0
    BY <2>1, <2>4, <2>5, Zenon DEF Known
  <2> QED
    BY <2>1, <2>6
<1>2. CpTypeOK' => (\A f \in CpFlows : Known(f) \in Nat /\ cp_made[f] \in Nat /\ cp_copied[f] \in Nat)'
  <2>1. CpTypeOK => \A f \in CpFlows : Known(f) \in Nat /\ cp_made[f] \in Nat /\ cp_copied[f] \in Nat
    BY KnownTyped, Zenon
  <2> QED
    BY <2>1, PTL
<1>3. CpTypeOK /\ CpTypeOK' /\ CountedAtMostOnce /\ [CpNext]_cpStore => CountedAtMostOnce'
  <2> SUFFICES ASSUME CpTypeOK, CpTypeOK', CountedAtMostOnce, [CpNext]_cpStore,
                      NEW f \in CpFlows
               PROVE  Known(f)' <= cp_made'[f] + cp_copied'[f]
    BY Zenon DEF CountedAtMostOnce
  <2>1. /\ Known(f) <= cp_made[f] + cp_copied[f] /\ Known(f) \in Nat
        /\ cp_made[f] \in Nat /\ cp_copied[f] \in Nat /\ cp_counters[f] \in Nat
    BY KnownTyped, Zenon DEF CountedAtMostOnce
  <2>2. Known(f)' \in Nat /\ cp_made'[f] \in Nat /\ cp_copied'[f] \in Nat
    BY <1>2, Zenon
  <2>3. CASE UNCHANGED cpStore
    BY <2>1, <2>3, KnownSame, Zenon DEF cpStore
  <2>4. ASSUME NEW s \in Paths, NEW d \in Paths, CpClone(s, d)
        PROVE  Known(f)' <= cp_made'[f] + cp_copied'[f]
    <3>1. cp_made' = cp_made
      BY <2>4, CloneStep, Zenon
    <3>2. PICK n \in Nat : Known(f)' = Known(f) + n /\ cp_copied'[f] = cp_copied[f] + n
      BY <2>4, CloneStep, Zenon
    <3> QED
      BY <2>1, <3>1, <3>2
  <2>5. ASSUME NEW d \in Paths, NEW g \in CpFlows, cp_update(d, g)
        PROVE  Known(f)' <= cp_made'[f] + cp_copied'[f]
    <3>1. Known(f)' <= Known(f) + (cp_made'[f] - cp_made[f]) /\ cp_copied' = cp_copied
      BY <2>5, UpdateStep, Zenon
    <3> QED
      BY <2>1, <2>2, <3>1
  <2>6. CASE cp_recv
    BY <2>1, <2>6, RecvStep, Zenon
  <2>7. ASSUME NEW g \in CpFlows, cp_remove(g) PROVE Known(f)' <= cp_made'[f] + cp_copied'[f]
    <3>1. /\ cp_made' = cp_made /\ cp_copied' = cp_copied
          /\ Known(f)' = Known(f) \/ Known(f)' = Known(f) - cp_counters[f]
      BY <2>7, RemoveStep, Zenon
    <3> QED
      BY <2>1, <3>1
  <2> QED
    BY <2>3, <2>4, <2>5, <2>6, <2>7, Zenon DEF CpNext
<1> QED
  BY <1>1, <1>3, CpTypeCorrect, PTL DEF CpSpec

\* An update is lost only where a cache is due while the channel is full, or
\* where the control plane removes its flow.
THEOREM UpdatesAreLostOnlyWhenFull == CpSpec => LostOnlyWhenChannelFull
<1> DEFINE Lost(f) == Known(f)' < Known(f) =>
                        Len(cp_channel) = ChannelSize \/ Known(f)' = Known(f) - cp_counters[f]
<1>1. CpTypeOK /\ [CpNext]_cpStore => [\A f \in CpFlows : Lost(f)]_cpStore
  <2> SUFFICES ASSUME CpTypeOK, CpNext, NEW f \in CpFlows PROVE Lost(f)
    BY Zenon
  <2>1. Known(f) \in Nat
    BY KnownTyped, Zenon
  <2>2. ~(Known(f) < Known(f))
    BY <2>1
  <2>3. ASSUME NEW s \in Paths, NEW d \in Paths, CpClone(s, d) PROVE Lost(f)
    <3>1. PICK n \in Nat : Known(f)' = Known(f) + n
      BY <2>3, CloneStep, Zenon
    <3> QED
      BY <2>1, <3>1
  <2>4. ASSUME NEW d \in Paths, NEW g \in CpFlows, cp_update(d, g) PROVE Lost(f)
    BY <2>4, UpdateStep, Zenon
  <2>5. CASE cp_recv
    BY <2>2, <2>5, RecvStep, Zenon
  <2>6. ASSUME NEW g \in CpFlows, cp_remove(g) PROVE Lost(f)
    BY <2>2, <2>6, RemoveStep, Zenon
  <2> QED
    BY <2>3, <2>4, <2>5, <2>6, Zenon DEF CpNext
<1> QED
  BY <1>1, CpTypeCorrect, PTL DEF CpSpec, LostOnlyWhenChannelFull

-----------------------------------------------------------------------------
(* The data-plane store *)

\* What a cache holds.
Entries == DpFlows \X DpIncs

\* A cache without entries leaves the map as it is.
LEMMA MergedEmpty ==
  ASSUME NEW s
  PROVE  Merged(s, <<>>) = [f \in DpFlows |-> s[f]]
<1>1. DOMAIN <<>> = {}
  OBVIOUS
<1>2. \A f : LastIn(<<>>, f) = {}
  BY <1>1, Zenon DEF LastIn
<1> QED
  BY <1>2, Zenon DEF Merged

\* A merge gives a value to every flow.
LEMMA MergedFunction ==
  ASSUME NEW s, NEW c
  PROVE  DOMAIN Merged(s, c) = DpFlows /\ Merged(s, c) = [f \in DpFlows |-> Merged(s, c)[f]]
BY DEF Merged

\* An update, merged with the entries before it, is the value of its flow.
LEMMA MergedAppend ==
  ASSUME NEW s, NEW c \in Seq(Entries), NEW f \in DpFlows, NEW inc \in DpIncs
  PROVE  Merged(s, Append(c, <<f, inc>>)) = [Merged(s, c) EXCEPT ![f] = inc]
<1> DEFINE e == <<f, inc>>
           p == Append(c, e)
           n == Len(c) + 1
<1>1. e \in Entries /\ e[1] = f /\ e[2] = inc
  BY Zenon DEF Entries
<1> HIDE DEF e
<1>2. /\ p \in Seq(Entries) /\ Len(p) = n /\ p[n] = e
      /\ \A i \in 1 .. Len(c) : p[i] = c[i]
  BY <1>1, AppendFacts
<1>3. Len(c) \in Nat /\ DOMAIN c = 1 .. Len(c) /\ DOMAIN p = 1 .. n
  BY <1>2, LenFacts, Zenon
<1> HIDE DEF p
<1>4. /\ \A i \in DOMAIN p : i = n \/ i \in DOMAIN c
      /\ \A i \in DOMAIN c : i \in DOMAIN p /\ i <= n /\ ~(n <= i) /\ i # n
      /\ n \in DOMAIN p /\ n <= n
  BY <1>3
<1>5. \A i \in DOMAIN c : p[i] = c[i]
  BY <1>2, <1>3, Zenon
<1>6. LastIn(p, f) = {n}
  <2>1. n \in LastIn(p, f)
    BY <1>1, <1>2, <1>4, Zenon DEF LastIn
  <2>2. ASSUME NEW i \in LastIn(p, f) PROVE i = n
    BY <1>1, <1>2, <1>4, <2>2, Zenon DEF LastIn
  <2> QED
    BY <2>1, <2>2, Zenon
<1>7. ASSUME NEW g \in DpFlows, g # f PROVE LastIn(p, g) = LastIn(c, g)
  <2>1. p[n][1] # g
    BY <1>1, <1>2, <1>7, Zenon
  <2>2. ASSUME NEW i PROVE i \in LastIn(p, g) <=> i \in LastIn(c, g)
    BY <1>4, <1>5, <2>1, Zenon DEF LastIn
  <2> QED
    BY <2>2, Zenon
<1>8. Merged(s, p)[f] = inc
  <2>1. (CHOOSE i \in LastIn(p, f) : TRUE) = n /\ LastIn(p, f) # {}
    BY <1>6
  <2> QED
    BY <1>1, <1>2, <2>1, Zenon DEF Merged
<1>9. ASSUME NEW g \in DpFlows, g # f PROVE Merged(s, p)[g] = Merged(s, c)[g]
  <2>1. LastIn(p, g) = LastIn(c, g)
    BY <1>7, <1>9, Zenon
  <2>2. CASE LastIn(c, g) = {}
    BY <2>1, <2>2, Zenon DEF Merged
  <2>3. CASE LastIn(c, g) # {}
    <3> DEFINE k == CHOOSE i \in LastIn(c, g) : TRUE
    <3>1. k \in LastIn(c, g)
      BY <2>3, Zenon
    <3>2. p[k] = c[k]
      BY <1>5, <3>1, Zenon DEF LastIn
    <3>3. Merged(s, c)[g] = c[k][2] /\ Merged(s, p)[g] = p[k][2]
      BY <2>1, <2>3, Zenon DEF Merged
    <3> QED
      BY <3>2, <3>3, Zenon
  <2> QED
    BY <2>2, <2>3, Zenon
<1>10. /\ DOMAIN Merged(s, p) = DpFlows /\ Merged(s, p) = [g \in DpFlows |-> Merged(s, p)[g]]
       /\ DOMAIN Merged(s, c) = DpFlows
  BY MergedFunction, Zenon
<1>11. Merged(s, p) = [Merged(s, c) EXCEPT ![f] = inc]
  <2> DEFINE M == Merged(s, p)
             C == Merged(s, c)
  <2> HIDE DEF M, C
  <2>1. /\ M = [g \in DpFlows |-> M[g]] /\ DOMAIN C = DpFlows
        /\ M[f] = inc /\ \A g \in DpFlows : g # f => M[g] = C[g]
    BY <1>8, <1>9, <1>10, Zenon DEF M, C
  <2>2. M = [C EXCEPT ![f] = inc]
    BY <2>1, Zenon
  <2> QED
    BY <2>2, Zenon DEF M, C
<1> QED
  BY <1>11, Zenon DEF p, e

\* The flows of the map and of the cache together are those that were updated.
DpIInv ==
  /\ dp_cache \in Seq(Entries)
  /\ dp_state = [f \in DpFlows |-> dp_state[f]]
  /\ dp_updated \subseteq DpFlows
  /\ OnlyUpdatedStored

\* The table holds the flows that were updated and not removed since, for every order
\* of updates, removals and merges and every size of the cache.
THEOREM UpdatedAreStored == DpSpec => []OnlyUpdatedStored
<1> DEFINE Stored(t) == {f \in DpFlows : t[f] # 0}
<1>1. DpInit => DpIInv
  <2> SUFFICES ASSUME DpInit PROVE DpIInv
    OBVIOUS
  <2>1. dp_cache \in Seq(Entries)
    BY DEF DpInit
  <2>2. /\ dp_state = [f \in DpFlows |-> dp_state[f]] /\ dp_updated = {} /\ dp_cache = <<>>
        /\ \A f \in DpFlows : dp_state[f] = 0
    BY Zenon DEF DpInit, NoValues
  <2>3. Merged(dp_state, <<>>) = dp_state
    BY <2>2, MergedEmpty, Zenon
  <2>4. OnlyUpdatedStored
    BY <2>2, <2>3, Zenon DEF OnlyUpdatedStored
  <2> QED
    BY <2>1, <2>2, <2>4, Zenon DEF DpIInv
<1>2. DpIInv /\ [DpNext]_dpStore => DpIInv'
  <2> SUFFICES ASSUME DpIInv, [DpNext]_dpStore PROVE DpIInv'
    OBVIOUS
  <2> DEFINE all == Merged(dp_state, dp_cache)
  <2>1. /\ dp_cache \in Seq(Entries) /\ dp_state = [f \in DpFlows |-> dp_state[f]]
        /\ Stored(all) = dp_updated /\ dp_updated \subseteq DpFlows
    BY Zenon DEF DpIInv, OnlyUpdatedStored
  <2>2. <<>> \in Seq(Entries)
    OBVIOUS
  <2>3. all = [f \in DpFlows |-> all[f]]
    BY MergedFunction, Zenon
  <2>4. ASSUME dp_cache' = <<>>, dp_state' = [f \in DpFlows |-> dp_state'[f]],
               Stored(dp_state') = dp_updated', dp_updated' \subseteq DpFlows
        PROVE  DpIInv'
    <3>1. Merged(dp_state', <<>>) = dp_state'
      BY <2>4, MergedEmpty, Zenon
    <3> QED
      BY <2>2, <2>4, <3>1, Zenon DEF DpIInv, OnlyUpdatedStored
  <2>5. CASE UNCHANGED dpStore
    BY <2>1, <2>5, Zenon DEF dpStore, DpIInv, OnlyUpdatedStored
  <2>6. ASSUME NEW f \in DpFlows, dp_remove(f) PROVE DpIInv'
    <3>1. /\ dp_cache' = <<>> /\ dp_state' = [all EXCEPT ![f] = 0]
          /\ dp_updated' = dp_updated \ {f}
      BY <2>6, Zenon DEF dp_remove
    <3> HIDE DEF all
    <3>2. /\ dp_state' = [g \in DpFlows |-> dp_state'[g]]
          /\ \A g \in DpFlows : dp_state'[g] = IF g = f THEN 0 ELSE all[g]
      BY <2>3, <3>1, Zenon
    <3>3. Stored(dp_state') = dp_updated'
      BY <2>1, <3>1, <3>2, Zenon
    <3> QED
      BY <2>1, <2>4, <3>1, <3>2, <3>3, Zenon
  <2>7. ASSUME NEW f \in DpFlows, NEW inc \in DpIncs, dp_update(f, inc) PROVE DpIInv'
    <3> DEFINE p == Append(dp_cache, <<f, inc>>)
               more == Merged(dp_state, p)
    <3>1. dp_updated' = dp_updated \cup {f}
      BY <2>7, Zenon DEF dp_update
    <3>2. more = [all EXCEPT ![f] = inc]
      <4>1. dp_cache \in Seq(Entries)
        BY <2>1, Zenon
      <4> QED
        BY <4>1, MergedAppend
    <3>3. more = [g \in DpFlows |-> more[g]]
      BY MergedFunction, Zenon
    <3>4. CASE dp_state' = more /\ dp_cache' = <<>>
      <4> HIDE DEF all, more
      <4>1. \A g \in DpFlows : more[g] = IF g = f THEN inc ELSE all[g]
        BY <2>3, <3>2, Zenon
      <4>2. Stored(more) = dp_updated'
        BY <2>1, <3>1, <4>1, DpIncsAssumption, Zenon
      <4> QED
        BY <2>1, <2>4, <3>1, <3>3, <3>4, <4>2, Zenon
    <3>5. CASE dp_cache' = p /\ dp_state' = dp_state
      <4>1. p \in Seq(Entries)
        <5>1. <<f, inc>> \in Entries
          BY Zenon DEF Entries
        <5> QED
          BY <2>1, <5>1, AppendFacts
      <4>2. Merged(dp_state', dp_cache') = more
        BY <3>5, Zenon
      <4> HIDE DEF all, more, p
      <4>3. \A g \in DpFlows : more[g] = IF g = f THEN inc ELSE all[g]
        BY <2>3, <3>2, Zenon
      <4>4. Stored(more) = dp_updated'
        BY <2>1, <3>1, <4>3, DpIncsAssumption, Zenon
      <4> QED
        BY <2>1, <3>1, <3>5, <4>1, <4>2, <4>4, Zenon DEF DpIInv, OnlyUpdatedStored
    <3> QED
      BY <2>7, <3>4, <3>5, Zenon DEF dp_update
  <2>8. CASE Look
    <3>1. dp_cache' = <<>> /\ dp_state' = all /\ dp_updated' = dp_updated
      BY <2>8, Zenon DEF Look
    <3> QED
      BY <2>1, <2>3, <2>4, <3>1, Zenon
  <2> QED
    BY <2>5, <2>6, <2>7, <2>8, Zenon DEF DpNext
<1>3. DpIInv => OnlyUpdatedStored
  BY Zenon DEF DpIInv
<1> QED
  BY <1>1, <1>2, <1>3, PTL DEF DpSpec
=============================================================================
