------------------------------ MODULE MCMerging ------------------------------
(***************************************************************************)
(* MergeableStore for TLC with one data path, and next to it the sum of    *)
(* the updates of every flow: what merging with AddAssign would store.     *)
(***************************************************************************)
EXTENDS MergeableStore

CONSTANTS h1, m1,
  MaxSum  \* bound: the sum of the updates of a flow

VARIABLE sum  \* per flow, of the updates since it was removed

OneMap == <<m1>>
OneSharing == {[h \in Handles |-> m1]}

MergingInit == Init /\ sum = [f \in Flows |-> 0]

MergingNext ==
  \/ \E h \in Handles, f \in Flows, inc \in Incs :
       update(h, f, inc) /\ sum[f] + inc <= MaxSum /\ sum' = [sum EXCEPT ![f] = @ + inc]
  \/ \E h \in Handles :
       /\ Unlock(h)
       /\ sum' = IF pc[h] = "write_remove" THEN [sum EXCEPT ![removing[h]] = 0] ELSE sum
  \/ /\ \/ \E h \in Handles : TryWrite(h) \/ Write(h) \/ Extend(h)
        \/ \E h \in Handles, f \in Flows : remove(h, f)
        \/ Sync \/ TryRead \/ Copy \/ Install
     /\ UNCHANGED sum

MergingSpec == MergingInit /\ [][MergingNext]_<<vars, sum>>

\* Once its updates have left the cache, a flow has the sum of them: the values of a
\* flow are merged by AddAssign, as the comment at the head of mergeable.rs says.
UpdatesMerged ==
  \A h \in Handles :
    pc[h] = "idle" /\ cache[h] = <<>> =>
      \A f \in Flows : sum[f] # 0 => map[map_of[h]][f] = sum[f]
=============================================================================
