------------------------------ MODULE DpMergeable ------------------------------
(***************************************************************************)
(* The data-plane mergeable store of framework/src/state/dp_mergeable.rs,  *)
(* used by one thread: updates wait in a cache and are moved into state    *)
(* when it is full, or when the table is looked at.                        *)
(***************************************************************************)
EXTENDS Integers, Sequences, FiniteSets

CONSTANTS
  DpFlows,
  DpIncs,      \* increments handed to update, positive
  DpCacheSize   \* cache_size

ASSUME DpIncsAssumption == 0 \notin DpIncs

VARIABLES
  dp_state,  \* the map; 0 for a flow it does not hold
  dp_cache,
  dp_updated \* the flows that were updated, and not removed since

dpStore == <<dp_state, dp_cache, dp_updated>>

NoValues == [f \in DpFlows |-> 0]
DpInit == dp_state = NoValues /\ dp_cache = <<>> /\ dp_updated = {}

LastIn(c, f) == {i \in DOMAIN c : c[i][1] = f /\ \A j \in DOMAIN c : c[j][1] = f => j <= i}

\* merge_cache: extend replaces the value of a flow by the last one in the cache.
Merged(s, c) ==
  [f \in DpFlows |-> IF LastIn(c, f) = {} THEN s[f]
                     ELSE c[CHOOSE i \in LastIn(c, f) : TRUE][2]]

dp_update(f, inc) ==
  LET pushed == Append(dp_cache, <<f, inc>>) IN
  /\ dp_updated' = dp_updated \cup {f}
  /\ IF Len(pushed) >= DpCacheSize
     THEN dp_state' = Merged(dp_state, pushed) /\ dp_cache' = <<>>
     ELSE dp_cache' = pushed /\ UNCHANGED dp_state

\* Faulty variant: the cache is not merged first.
RemoveFromMap(f) ==
  /\ dp_state' = [dp_state EXCEPT ![f] = 0]
  /\ dp_updated' = dp_updated \ {f}
  /\ UNCHANGED dp_cache

dp_remove(f) ==
  /\ dp_state' = [Merged(dp_state, dp_cache) EXCEPT ![f] = 0]
  /\ dp_cache' = <<>>
  /\ dp_updated' = dp_updated \ {f}

\* iter and len merge the cache first.
Look ==
  /\ dp_cache # <<>>
  /\ dp_state' = Merged(dp_state, dp_cache) /\ dp_cache' = <<>>
  /\ UNCHANGED dp_updated

DpNext == (\E f \in DpFlows : dp_remove(f) \/ \E inc \in DpIncs : dp_update(f, inc)) \/ Look

DpSpec == DpInit /\ [][DpNext]_dpStore

-----------------------------------------------------------------------------
\* The flows that iter shows and remove finds are those that were updated since they
\* were last removed, whether their updates are still in the cache or were merged
\* before: a removal leaves nothing of its flow in the cache to come back later.
OnlyUpdatedStored == {f \in DpFlows : Merged(dp_state, dp_cache)[f] # 0} = dp_updated
=============================================================================
