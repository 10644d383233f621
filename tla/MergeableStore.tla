----------------------------- MODULE MergeableStore -----------------------------
(***************************************************************************)
(* The mergeable store of framework/src/state/mergeable.rs.  A data path   *)
(* keeps its updates in a cache and moves them into a map behind a RwLock  *)
(* when the cache is full and try_write gets the lock; the control plane   *)
(* copies the maps it can read at the moment.  Moving a cache takes one    *)
(* step per entry, so that a copy could see half of it.  The clones of a   *)
(* handle share its map; they are there from the start, with empty caches. *)
(***************************************************************************)
EXTENDS Integers, Sequences, FiniteSets

CONSTANTS
  Handles,       \* MergeableStoreDP handles
  Maps,          \* the sequence hashmaps of the control plane
  Sharings,      \* the ways in which handles share maps: functions from Handles
  Flows,
  Incs,          \* increments handed to update
  Absent,        \* the value of a flow that a map does not hold
  CacheSize,     \* base_cache_size
  MaxCacheSize,  \* MAX_CACHE_SIZE
  MaxCached      \* bound: entries of a cache

MapNames == {Maps[i] : i \in DOMAIN Maps}
Free == "free"
Reading == "read"

ASSUME MapsAssumption == Maps \in Seq(MapNames)
ASSUME HandlesAssumption ==
  /\ Sharings \subseteq [Handles -> MapNames]
  /\ Free \notin Handles /\ Reading \notin Handles
ASSUME ValuesAssumption == Absent \notin Incs /\ Absent \notin Flows
ASSUME SizesAssumption ==
  CacheSize \in Nat \ {0} /\ MaxCacheSize \in Nat /\ CacheSize <= MaxCacheSize

VARIABLES
  cache, cache_size,       \* per handle; len, which only reports, is left out
  pc,                      \* per handle, where it is in a call
  removing,                \* per handle: the flow remove was called with
  map_of,                  \* the map of each handle; it never changes
  map, lock,               \* per map: its contents, and who holds its lock
  sync_at,                 \* the map sync is at, 0 when it is not running
  copies, flow_counters,   \* of the control plane
  updated,                 \* per handle: the flows it updated, and not removed since
  steady, held             \* of the current sync: the flows of maps that nobody has locked
                           \* for writing, and the values that maps have had

cpVars == <<sync_at, copies, flow_counters>>
vars == <<cache, cache_size, pc, removing, map_of, map, lock, cpVars, updated, steady, held>>

Empty == [f \in Flows |-> Absent]
Larger(a, b) == IF a >= b THEN a ELSE b
Cached(h, f) == \E i \in DOMAIN cache[h] : cache[h][i][1] = f
Writing(h) == pc[h] \in {"write", "write_remove"}

Init ==
  /\ cache = [h \in Handles |-> <<>>]
  /\ cache_size = [h \in Handles |-> CacheSize]
  /\ pc = [h \in Handles |-> "idle"]
  /\ removing = [h \in Handles |-> Absent]
  /\ map_of \in Sharings
  /\ map = [m \in MapNames |-> Empty]
  /\ lock = [m \in MapNames |-> Free]
  /\ sync_at = 0
  /\ copies = <<>>
  /\ flow_counters = Empty
  /\ updated = [h \in Handles |-> {}]
  /\ steady = {} /\ held = {}

-----------------------------------------------------------------------------
(* Data path *)

update(h, f, inc) ==
  /\ pc[h] = "idle"
  /\ Len(cache[h]) < MaxCached
  /\ cache' = [cache EXCEPT ![h] = Append(@, <<f, inc>>)]
  /\ pc' = [pc EXCEPT ![h] = IF Len(cache[h]) + 1 >= cache_size[h] THEN "try_write" ELSE "idle"]
  /\ updated' = [updated EXCEPT ![h] = @ \cup {f}]
  /\ UNCHANGED <<cache_size, removing, map, lock, cpVars, map_of, steady, held>>

\* The guard of the map of h, for writing.
Lock(h) ==
  /\ lock' = [lock EXCEPT ![map_of[h]] = h]
  /\ steady' = {x \in steady : x[1] # map_of[h]}

\* Faulty variant: the cache is drained although the lock was not taken.
TryWriteDrops(h) ==
  LET m == map_of[h] IN
  /\ pc[h] = "try_write"
  /\ \/ /\ lock[m] = Free
        /\ Lock(h)
        /\ pc' = [pc EXCEPT ![h] = "write"]
        /\ UNCHANGED cache
     \/ /\ lock[m] # Free
        /\ pc' = [pc EXCEPT ![h] = "idle"]
        /\ cache' = [cache EXCEPT ![h] = <<>>]
        /\ UNCHANGED <<lock, steady>>
  /\ UNCHANGED <<cache_size, removing, map, cpVars, updated, map_of, held>>

\* merge_cache: without the lock the cache may grow, to MaxCacheSize or more.
TryWrite(h) ==
  LET m == map_of[h] IN
  /\ pc[h] = "try_write"
  /\ \/ /\ lock[m] = Free
        /\ Lock(h)
        /\ pc' = [pc EXCEPT ![h] = "write"]
        /\ UNCHANGED cache_size
     \/ /\ lock[m] # Free
        /\ pc' = [pc EXCEPT ![h] = "idle"]
        /\ cache_size' = [cache_size EXCEPT ![h] = Larger(2 * @, MaxCacheSize)]
        /\ UNCHANGED <<lock, steady>>
  /\ UNCHANGED <<cache, removing, map, cpVars, updated, map_of, held>>

remove(h, f) ==
  /\ pc[h] = "idle"
  /\ pc' = [pc EXCEPT ![h] = "wait_write"]
  /\ removing' = [removing EXCEPT ![h] = f]
  /\ UNCHANGED <<cache, cache_size, map, lock, cpVars, updated, map_of, steady, held>>

\* write() of remove blocks until the lock is free.
Write(h) ==
  /\ pc[h] = "wait_write" /\ lock[map_of[h]] = Free
  /\ Lock(h)
  /\ pc' = [pc EXCEPT ![h] = "write_remove"]
  /\ UNCHANGED <<cache, cache_size, removing, map, cpVars, updated, map_of, held>>

\* extend moves one entry and replaces the value the map has.
Extend(h) ==
  LET e == Head(cache[h]) IN
  /\ Writing(h) /\ cache[h] # <<>>
  /\ map' = [map EXCEPT ![map_of[h]][e[1]] = e[2]]
  /\ cache' = [cache EXCEPT ![h] = Tail(@)]
  /\ held' = IF sync_at = 0 THEN held ELSE held \cup {e}
  /\ UNCHANGED <<cache_size, pc, removing, lock, cpVars, updated, map_of, steady>>

\* The cache is empty; remove takes its flow out, and the guard is dropped.
Unlock(h) ==
  LET m == map_of[h]
      f == removing[h]
  IN
  /\ Writing(h) /\ cache[h] = <<>>
  /\ cache_size' = [cache_size EXCEPT ![h] = CacheSize]
  /\ lock' = [lock EXCEPT ![m] = Free]
  /\ pc' = [pc EXCEPT ![h] = "idle"]
  /\ removing' = [removing EXCEPT ![h] = Absent]
  /\ \/ /\ pc[h] = "write"
        /\ UNCHANGED <<map, updated>>
     \/ /\ pc[h] = "write_remove"
        /\ map' = [map EXCEPT ![m][f] = Absent]
        /\ updated' = [g \in Handles |->
                         IF map_of[g] = m /\ ~Cached(g, f) THEN updated[g] \ {f}
                         ELSE updated[g]]
  /\ UNCHANGED <<cache, cpVars, map_of, steady, held>>

-----------------------------------------------------------------------------
(* Control plane: sync *)

Sync ==
  /\ sync_at = 0
  /\ sync_at' = 1 /\ copies' = <<>>
  /\ steady' = {x \in MapNames \X Flows : lock[x[1]] = Free /\ map[x[1]][x[2]] # Absent}
  /\ held' = {x \in Flows \X Incs : \E m \in MapNames : map[m][x[1]] = x[2]}
  /\ UNCHANGED <<cache, cache_size, pc, removing, map, lock, flow_counters, updated, map_of>>

\* Faulty variant: a map that is being written ends the loop.
TryReadBreaks ==
  LET m == Maps[sync_at] IN
  /\ sync_at \in DOMAIN Maps
  /\ \/ /\ lock[m] = Free
        /\ lock' = [lock EXCEPT ![m] = Reading]
        /\ UNCHANGED sync_at
     \/ /\ lock[m] \in Handles
        /\ sync_at' = Len(Maps) + 1
        /\ UNCHANGED lock
  /\ UNCHANGED <<cache, cache_size, pc, removing, map, copies, flow_counters, updated, map_of>>
  /\ UNCHANGED <<steady, held>>

\* try_read of the next map; a map that is being written is skipped.
TryRead ==
  LET m == Maps[sync_at] IN
  /\ sync_at \in DOMAIN Maps
  /\ \/ /\ lock[m] = Free
        /\ lock' = [lock EXCEPT ![m] = Reading]
        /\ UNCHANGED sync_at
     \/ /\ lock[m] \in Handles
        /\ sync_at' = sync_at + 1
        /\ UNCHANGED lock
  /\ UNCHANGED <<cache, cache_size, pc, removing, map, copies, flow_counters, updated, map_of>>
  /\ UNCHANGED <<steady, held>>

\* hmap_to_vec under the read lock.
Copy ==
  LET m == Maps[sync_at] IN
  /\ sync_at \in DOMAIN Maps
  /\ lock[m] = Reading
  /\ copies' = Append(copies, map[m])
  /\ lock' = [lock EXCEPT ![m] = Free]
  /\ sync_at' = sync_at + 1
  /\ UNCHANGED <<cache, cache_size, pc, removing, map, flow_counters, updated, map_of>>
  /\ UNCHANGED <<steady, held>>

\* The copies replace flow_counters; a later copy overrides an earlier one.
Install ==
  /\ sync_at = Len(Maps) + 1
  /\ flow_counters' =
       [f \in Flows |->
          LET found == {i \in DOMAIN copies : copies[i][f] # Absent} IN
          IF found = {} THEN Absent
          ELSE copies[CHOOSE i \in found : \A j \in found : j <= i][f]]
  /\ sync_at' = 0 /\ copies' = <<>> /\ steady' = {} /\ held' = {}
  /\ UNCHANGED <<cache, cache_size, pc, removing, map, lock, updated, map_of>>

-----------------------------------------------------------------------------
Next ==
  \/ \E h \in Handles, f \in Flows : \/ \E inc \in Incs : update(h, f, inc)
                                     \/ remove(h, f)
  \/ \E h \in Handles : TryWrite(h) \/ Write(h) \/ Extend(h) \/ Unlock(h)
  \/ Sync \/ TryRead \/ Copy \/ Install

Spec == Init /\ [][Next]_vars

-----------------------------------------------------------------------------
Values == Incs \cup {Absent}

\* Every variable keeps its type.
TypeOK ==
  /\ cache \in [Handles -> Seq(Flows \X Incs)]
  /\ cache_size \in [Handles -> Nat]
  /\ pc \in [Handles -> {"idle", "try_write", "write", "wait_write", "write_remove"}]
  /\ removing \in [Handles -> Flows \cup {Absent}]
  /\ map_of \in [Handles -> MapNames]
  /\ map \in [MapNames -> [Flows -> Values]]
  /\ lock \in [MapNames -> Handles \cup {Free, Reading}]
  /\ sync_at \in 0 .. Len(Maps) + 1
  /\ copies \in Seq([Flows -> Values])
  /\ flow_counters \in [Flows -> Values]
  /\ updated \in [Handles -> SUBSET Flows]
  /\ steady \subseteq MapNames \X Flows /\ held \subseteq Flows \X Incs

\* A sync shows every flow of each map that nobody locks for writing while it runs: a
\* flow disappears from the control plane only because writers kept sync out of the
\* maps that have it.  What it shows for a flow is a value that some map had during
\* this sync, never one from before.
SyncShowsUnlocked ==
  [][sync_at # 0 /\ sync_at' = 0 =>
       \A f \in Flows :
         /\ (\E m \in MapNames : <<m, f>> \in steady) => flow_counters'[f] # Absent
         /\ flow_counters'[f] # Absent => <<f, flow_counters'[f]>> \in held]_vars

\* No flow is lost because try_write failed or the control plane was reading, and
\* none comes back by itself: a flow that a handle updated is in its cache or in its
\* map until a handle of the map removes it, and a map has no flow but those.  It is
\* about the flows alone: of their values extend keeps only the last (MCMerging).
FlowsKept ==
  /\ \A h \in Handles :
       \A f \in updated[h] : Cached(h, f) \/ map[map_of[h]][f] # Absent
  /\ \A m \in MapNames, f \in Flows :
       map[m][f] # Absent => \E h \in Handles : map_of[h] = m /\ f \in updated[h]
=============================================================================
