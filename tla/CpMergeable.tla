------------------------------ MODULE CpMergeable ------------------------------
(***************************************************************************)
(* The control-plane mergeable store of framework/src/state/               *)
(* cp_mergeable.rs: data paths collect updates in a cache and, after delay *)
(* of them, hand the cache to the control plane through a bounded channel. *)
(* The stored type is a counter and every update adds one to a flow.       *)
(***************************************************************************)
EXTENDS Integers, Sequences, FiniteSets

CONSTANTS
  Paths,        \* CpMergeableStoreDataPath handles, FirstPath and its clones
  FirstPath,
  CpFlows,
  Delay,        \* updates before sending
  ChannelSize,  \* outstanding messages
  MaxUpdates    \* bound: updates per flow

ASSUME PathsAssumption == IsFiniteSet(Paths) /\ FirstPath \in Paths
ASSUME ChannelAssumption == Delay \in Nat /\ ChannelSize \in Nat

VARIABLES
  cp_handles,   \* data paths that exist
  cp_cache,     \* per data path, the flows to add one to
  cp_updates,   \* per data path
  cp_channel,   \* caches on their way to the control plane
  cp_counters,  \* flow_counters
  cp_made,      \* updates made so far, per flow
  cp_copied     \* updates of a flow that clones found in the cache they copied

cpStore == <<cp_handles, cp_cache, cp_updates, cp_channel, cp_counters, cp_made, cp_copied>>

CpInit ==
  /\ cp_handles = {FirstPath}
  /\ cp_cache = [d \in Paths |-> <<>>]
  /\ cp_updates = [d \in Paths |-> 0]
  /\ cp_channel = <<>>
  /\ cp_counters = [f \in CpFlows |-> 0]
  /\ cp_made = [f \in CpFlows |-> 0]
  /\ cp_copied = [f \in CpFlows |-> 0]

\* How often flow f occurs in a cache.
Count(f, v) == Cardinality({i \in DOMAIN v : v[i] = f})

\* The derived clone of a data path copies its cache and its count of updates, too.
CpClone(s, d) ==
  /\ s \in cp_handles /\ d \notin cp_handles
  /\ cp_handles' = cp_handles \cup {d}
  /\ cp_cache' = [cp_cache EXCEPT ![d] = cp_cache[s]]
  /\ cp_updates' = [cp_updates EXCEPT ![d] = cp_updates[s]]
  /\ cp_copied' = [f \in CpFlows |-> cp_copied[f] + Count(f, cp_cache[s])]
  /\ UNCHANGED <<cp_channel, cp_counters, cp_made>>

\* Faulty variant: the cache is copied into the channel and kept.
UpdateKeepsCache(d, f) ==
  LET pushed == Append(cp_cache[d], f) IN
  /\ d \in cp_handles
  /\ cp_made[f] < MaxUpdates
  /\ cp_made' = [cp_made EXCEPT ![f] = @ + 1]
  /\ cp_cache' = [cp_cache EXCEPT ![d] = pushed]
  /\ cp_updates' = [cp_updates EXCEPT ![d] = IF @ + 1 >= Delay THEN 0 ELSE @ + 1]
  /\ cp_channel' = IF cp_updates[d] + 1 >= Delay /\ Len(cp_channel) < ChannelSize
                   THEN Append(cp_channel, pushed) ELSE cp_channel
  /\ UNCHANGED <<cp_handles, cp_counters, cp_copied>>

\* The drained cache is gone when try_send finds the channel full.
cp_update(d, f) ==
  LET pushed == Append(cp_cache[d], f)
      due == cp_updates[d] + 1 >= Delay
  IN
  /\ d \in cp_handles
  /\ cp_made[f] < MaxUpdates
  /\ cp_made' = [cp_made EXCEPT ![f] = @ + 1]
  /\ cp_cache' = [cp_cache EXCEPT ![d] = IF due THEN <<>> ELSE pushed]
  /\ cp_updates' = [cp_updates EXCEPT ![d] = IF due THEN 0 ELSE @ + 1]
  /\ cp_channel' = IF due /\ Len(cp_channel) < ChannelSize
                   THEN Append(cp_channel, pushed) ELSE cp_channel
  /\ UNCHANGED <<cp_handles, cp_counters, cp_copied>>

\* Faulty variant: the value of a flow is replaced, not added to.
InternalReplaces(v) ==
  cp_counters' = [f \in CpFlows |-> IF Count(f, v) > 0 THEN 1 ELSE cp_counters[f]]

update_internal(v) ==
  cp_counters' = [f \in CpFlows |-> cp_counters[f] + Count(f, v)]

\* One call takes at most one batch.
cp_recv ==
  /\ cp_channel # <<>>
  /\ update_internal(Head(cp_channel))
  /\ cp_channel' = Tail(cp_channel)
  /\ UNCHANGED <<cp_handles, cp_cache, cp_updates, cp_made, cp_copied>>

cp_remove(f) ==
  /\ cp_counters' = [cp_counters EXCEPT ![f] = 0]
  /\ UNCHANGED <<cp_handles, cp_cache, cp_updates, cp_channel, cp_made, cp_copied>>

CpNext ==
  \/ \E s, d \in Paths : CpClone(s, d)
  \/ \E d \in Paths, f \in CpFlows : cp_update(d, f)
  \/ cp_recv
  \/ \E f \in CpFlows : cp_remove(f)

CpSpec == CpInit /\ [][CpNext]_cpStore

-----------------------------------------------------------------------------
\* A cache holds exactly the updates counted since the last send, and never
\* reaches the delay between two calls; the channel respects its bound.
CpTypeOK ==
  /\ FirstPath \in cp_handles /\ cp_handles \subseteq Paths
  /\ cp_cache \in [Paths -> Seq(CpFlows)]
  /\ cp_updates = [d \in Paths |-> Len(cp_cache[d])]
  /\ \A d \in Paths : cp_cache[d] = <<>> \/ (d \in cp_handles /\ Len(cp_cache[d]) < Delay)
  /\ cp_channel \in Seq(Seq(CpFlows)) /\ Len(cp_channel) <= ChannelSize
  /\ cp_counters \in [CpFlows -> Nat]
  /\ cp_made \in [CpFlows -> Nat] /\ cp_copied \in [CpFlows -> Nat]

\* Where flow f is in a function or a sequence of caches.
Places(f, caches) ==
  UNION {{k} \X {i \in DOMAIN caches[k] : caches[k][i] = f} : k \in DOMAIN caches}

\* The updates of f that are stored or on their way.
Known(f) ==
  cp_counters[f] + Cardinality(Places(f, cp_channel)) + Cardinality(Places(f, cp_cache))

\* No update is counted twice, whatever path and batch it took, but for the updates
\* that waited in a cache while it was cloned: both caches hand those over.
CountedAtMostOnce == \A f \in CpFlows : Known(f) <= cp_made[f] + cp_copied[f]

\* Updates disappear only where the control plane removes their flow, or where a
\* data path finds the channel full.
LostOnlyWhenChannelFull ==
  [][\A f \in CpFlows : Known(f)' < Known(f) =>
       Len(cp_channel) = ChannelSize \/ Known(f)' = Known(f) - cp_counters[f]]_cpStore
=============================================================================
