------------------------------ MODULE MCPipeline ------------------------------
(***************************************************************************)
(* Pipeline and OperatorChain for TLC: how packets flow through the queues  *)
(* and batches of one pipeline, and what any chain of operators does to     *)
(* them.  The initial state says which is looked at.                        *)
(***************************************************************************)
EXTENDS Pipeline, OperatorChain

VARIABLE subject

allVars == <<subject, vars, chainVars>>

\* A task is given by its batches, each with where it comes from and its operators; the
\* operators above their merge; its end; and its number of groups.
Branch(from, stages) == [from |-> from, stages |-> stages]
Task(branches, after, end, groups) ==
  [branches |-> branches, after |-> after, end |-> end, groups |-> groups]
ThePort == <<>>

\* Two group_by in a row, each above a header that another operator may lengthen.
Regrouped ==
  << Task(<<Branch(ThePort, <<"parse", "transform", "metadata", "parse", "filter">>)>>, <<>>, "group", 2),
     Task(<<Branch(<<1, 0>>, <<"map", "reset", "parse", "transform", "parse">>)>>, <<>>, "group", 1),
     Task(<<Branch(<<2, 0>>, <<"map">>)>>, <<>>, "send", 0) >>

\* Both groups of a group_by, treated differently and merged.
Merged ==
  << Task(<<Branch(ThePort, <<"parse">>)>>, <<>>, "group", 2),
     Task(<<Branch(<<1, 0>>, <<"transform", "compose">>), Branch(<<1, 1>>, <<"metadata", "compose">>)>>,
          <<"parse", "metadata_mut", "parse", "map">>, "send", 0) >>

\* Both groups are grouped again before the merge, whose task so reaches the first one
\* through two others, and runs it twice.
Diamond ==
  << Task(<<Branch(ThePort, <<"parse">>)>>, <<>>, "group", 2),
     Task(<<Branch(<<1, 0>>, <<"map">>)>>, <<>>, "group", 1),
     Task(<<Branch(<<1, 1>>, <<>>)>>, <<>>, "group", 1),
     Task(<<Branch(<<2, 0>>, <<>>), Branch(<<3, 0>>, <<>>)>>, <<"parse", "map">>, "send", 0) >>

\* A composition of two functions, the first without an operator that marks itself.
Composed ==
  << Task(<<Branch(ThePort, <<"parse", "filter">>)>>, <<>>, "group", 1),
     Task(<<Branch(<<1, 0>>, <<"metadata", "filter", "compose">>)>>, <<>>, "none", 0) >>

Deparsed == << Task(<<Branch(ThePort, <<"parse", "parse", "deparse", "map">>)>>, <<>>, "send", 0) >>

SomePrograms == {Regrouped, Merged, Diamond, Composed, Deparsed}
\* Packets that are too short for the second header, where that tells something.
SomeDepths == [p \in SomePrograms |-> IF p = Regrouped THEN {1, 2} ELSE {2}]

AllInit ==
  /\ subject \in {"pipeline", "chain"}
  /\ Init /\ ChainInit
  /\ subject = "pipeline" => program = Deparsed
  /\ subject = "chain" => port = "physical"

Flow(A) == subject = "pipeline" /\ A /\ UNCHANGED <<subject, chainVars>>
Operators(A) == subject = "chain" /\ A /\ UNCHANGED <<subject, vars>>

AllNext == Flow(Next) \/ Operators(ChainNext)

AllSpec ==
  /\ AllInit /\ [][AllNext]_allVars
  /\ WF_allVars(Flow(ConsumerStep))
  /\ \A m \in Mbufs : WF_allVars(Flow(Transmitted(m)))
  /\ WF_allVars(Operators(Step))
=============================================================================
