----------------------------- MODULE OperatorChain -----------------------------
(***************************************************************************)
(* Chains of the operators of framework/src/operators as the tasks of an   *)
(* EmbeddedScheduler (scheduler/embedded_scheduler.rs).  Batches keep      *)
(* mbufs, not packets: every operator walks the chain below it again to    *)
(* get at a packet (next_payload), so the header and the metadata that a   *)
(* function is given are worked out anew, at each operator, from the mbuf. *)
(* The types Packet<T, M> promise what they are.                           *)
(***************************************************************************)
EXTENDS PacketBatch, FiniteSets, SequencesExt

CONSTANTS
  Programs,   \* what applications build
  Buffers,    \* the mempool
  Capacity,   \* capacity of a PacketBatch
  GroupSize,  \* mbufs a queue of group_by holds
  Sizes,      \* lengths of the first header of a packet
  Depths      \* per program: for how many headers a packet may be long enough

\* A program is a sequence of tasks.  A task is a record with the fields branches, its
\* batches, with the stages of each and where it comes from: the port (<<>>) or a group
\* of an earlier task (<<task, group>>); after, the stages above their merge; end, one
\* of "send", "group" and "none", where the batch itself is the task; and groups.  The
\* merged batches are of one type.

VARIABLES
  program,
  types,      \* of its batches, as the compiler infers them
  stack,      \* exec_task calls, innermost last: the task and the next dependency
  stage,      \* how far act of the innermost task is: NotActing, 0 is the source
  spare,      \* free mbufs
  packet,     \* per mbuf: its packet and its metadata slots
  batch,      \* per <<task, branch>>: its PacketBatch
  marks,      \* the operators that are applied: <<task, branch, stage>>
  turn,       \* per task: which of its MergeBatch
  waiting,    \* per <<task, group>>: the queue of the group
  returned    \* the task that exec_task last returned from, or 0

chainVars == <<program, types, stack, stage, spare, packet, batch, marks, turn, waiting, returned>>

NotActing == -1
Panicked == -2
None == <<0, 0, 0>>

ChainOf(p, t, b) == p[t].branches[b].stages \o p[t].after

\* An operator above the merge belongs to all branches.
OperatorOf(p, t, b, k) ==
  LET own == Len(p[t].branches[b].stages) IN
  IF k > own THEN <<t, 0, k - own>> ELSE <<t, b, k>>

Tasks == DOMAIN program
Chain(t, b) == ChainOf(program, t, b)
Operator(t, b, k) == OperatorOf(program, t, b, k)
Active == {"transform", "map", "metadata", "metadata_mut", "filter"}

\* Per task, batch and operator k, the type of the batch below the operator: the level
\* of T and the writer of M.
TypesOf(p) ==
  LET Of[t \in DOMAIN p] ==
        [b \in DOMAIN p[t].branches |->
           LET from == p[t].branches[b].from
               chain == ChainOf(p, t, b)
               Below[k \in 1 .. Len(chain) + 1] ==
                 IF k = 1
                 THEN IF from = <<>> THEN [level |-> 0, meta |-> None] ELSE Last(Of[from[1]][1])
                 ELSE LET type == Below[k - 1] IN
                      CASE chain[k - 1] = "parse" -> [type EXCEPT !.level = @ + 1]
                        [] chain[k - 1] = "deparse" -> [type EXCEPT !.level = @ - 1]
                        [] chain[k - 1] \in {"reset", "compose"} -> [level |-> 0, meta |-> None]
                        [] chain[k - 1] \in {"metadata", "metadata_mut"} ->
                             [type EXCEPT !.meta = OperatorOf(p, t, b, k - 1)]
                        [] OTHER -> type
           IN [k \in 1 .. Len(chain) + 1 |-> Below[k]]]
  IN [t \in DOMAIN p |-> Of[t]]

\* A packet goes with its mbuf, the metadata slots stay as they are.
Freed(packets, mbufs) ==
  [m \in Buffers |->
     IF m \in mbufs THEN [packets[m] EXCEPT !.size = 0, !.depth = 0, !.calls = <<>>] ELSE packets[m]]

ChainInit ==
  /\ program \in Programs
  /\ types = TypesOf(program)
  /\ stack = <<>> /\ stage = NotActing /\ returned = 0
  /\ spare = Buffers
  /\ packet = [m \in Buffers |-> [size |-> 0, depth |-> 0, calls |-> <<>>, meta |-> None, saved |-> 0]]
  /\ batch = [x \in UNION {{t} \X DOMAIN program[t].branches : t \in Tasks} |-> <<>>]
  /\ marks = {}
  /\ turn = [t \in Tasks |-> 1]
  /\ waiting = [x \in UNION {{t} \X (0 .. program[t].groups - 1) : t \in Tasks} |-> <<>>]

-----------------------------------------------------------------------------
(* The packet that next_payload hands out *)

\* Where the header of a level starts.  The second header has one byte.
StartOf(m, level) == IF level <= 1 THEN 0 ELSE packet[m].size + level - 2

\* parse_header: the header at off is read as the type of that level, and the payload
\* starts offset() bytes on, which is anything where no such header is.
parse_header(m, level, off) ==
  IF level = 0 THEN off ELSE IF off = StartOf(m, level) THEN StartOf(m, level + 1) ELSE 99

\* What RestoreHeader finds in the slots of a packet that comes from a group.
restore_saved_header(m) == packet[m].saved

\* The offset of the packet below operator k, by the next_payload of each operator.
next_payload(t, b, k, m) ==
  LET Walk[i \in 0 .. k - 1] ==
        IF i = 0 THEN IF program[t].branches[b].from = <<>> THEN 0 ELSE restore_saved_header(m)
        ELSE CASE Chain(t, b)[i] = "parse" -> parse_header(m, types[t][b][i].level, Walk[i - 1])
               [] Chain(t, b)[i] \in {"reset", "compose"} -> 0
               [] OTHER -> Walk[i - 1]
  IN Walk[k - 1]

-----------------------------------------------------------------------------
(* EmbeddedScheduler *)

\* get_task_dependencies, once per task; a group depends on the task that fills it.
dependencies(t) ==
  SetToSortSeq({x[1] : x \in {br.from : br \in Range(program[t].branches)} \ {<<>>}}, <)

exec_task(t) ==
  /\ stack = <<>>
  /\ stack' = <<[task |-> t, dep |-> 1]>>
  /\ UNCHANGED <<program, types, stage, spare, packet, batch, marks, turn, waiting, returned>>

Frame == Last(stack)
Running == stack # <<>> /\ stage \notin {NotActing, Panicked}

\* Faulty variant: the loop does not get past a dependency.
DependencyAgain ==
  /\ stack # <<>> /\ stage = NotActing
  /\ Frame.dep <= Len(dependencies(Frame.task))
  /\ stack' = Append(stack, [task |-> dependencies(Frame.task)[Frame.dep], dep |-> 1])
  /\ UNCHANGED <<program, types, stage, spare, packet, batch, marks, turn, waiting, returned>>

\* The loop of exec_task over the dependencies.
Dependency ==
  /\ stack # <<>> /\ stage = NotActing
  /\ Frame.dep <= Len(dependencies(Frame.task))
  /\ stack' = Append([stack EXCEPT ![Len(stack)].dep = @ + 1],
                     [task |-> dependencies(Frame.task)[Frame.dep], dep |-> 1])
  /\ UNCHANGED <<program, types, stage, spare, packet, batch, marks, turn, waiting, returned>>

T == Frame.task
B == turn[T]
Batch == batch[<<T, B>>]

\* The next operator with an act of its own; the others pass the call on.
NextActive(k) ==
  CHOOSE j \in k .. Len(Chain(T, B)) + 1 :
    /\ j <= Len(Chain(T, B)) => Chain(T, B)[j] \in Active
    /\ \A i \in k .. j - 1 : Chain(T, B)[i] \notin Active

\* An operator that is applied does not act again, nor does anything below it.
Execute ==
  /\ stack # <<>> /\ stage = NotActing
  /\ Frame.dep > Len(dependencies(T))
  /\ LET marked == {k \in DOMAIN Chain(T, B) : Operator(T, B, k) \in marks} IN
     stage' = IF marked = {} THEN 0 ELSE NextActive(Max(marked) + 1)
  /\ UNCHANGED <<program, types, stack, spare, packet, batch, marks, turn, waiting, returned>>

-----------------------------------------------------------------------------
(* act, from the source up *)

Deliveries(free) ==
  {s \in UNION {[1 .. n -> free] : n \in 0 .. Capacity} : IsInjective(s)}

\* ReceiveBatch::act frees what is left in the batch and receives from the port or the
\* queue of the group.
ReceiveAct ==
  LET from == program[T].branches[B].from
      free == spare \cup Elements(Batch)
  IN
  /\ Running /\ stage = 0
  /\ stage' = NextActive(1)
  /\ IF from = <<>>
     THEN \E s \in Deliveries(free) : \E is \in [Elements(s) -> [size : Sizes, depth : Depths[program]]] :
            /\ batch' = [batch EXCEPT ![<<T, B>>] = s]
            /\ spare' = free \ Elements(s)
            /\ packet' = [m \in Buffers |->
                            IF m \in Elements(s)
                            THEN [packet[m] EXCEPT !.size = is[m].size, !.depth = is[m].depth]
                            ELSE packet[m]]
            /\ UNCHANGED waiting
     ELSE LET n == Min({Capacity, Len(waiting[from])}) IN
          /\ batch' = [batch EXCEPT ![<<T, B>>] = SubSeq(waiting[from], 1, n)]
          /\ waiting' = [waiting EXCEPT ![from] = SubSeq(@, n + 1, Len(@))]
          /\ spare' = free
          /\ UNCHANGED packet
  /\ UNCHANGED <<program, types, stack, marks, turn, returned>>

\* What next_payload of the operators below k panics on: parse_header asserts that the
\* packet is longer than the header, and deparse unwraps None for any packet, since no
\* offset is ever pushed.
Panics(k) ==
  \E m \in Elements(Batch), i \in 1 .. k - 1 :
    \/ Chain(T, B)[i] = "parse" /\ types[T][B][i].level >= packet[m].depth
    \/ Chain(T, B)[i] = "deparse"

Acting(operator) ==
  Running /\ stage \in DOMAIN Chain(T, B) /\ Chain(T, B)[stage] = operator /\ ~ Panics(stage)

\* A function is called for every packet of the batch.
Called(p) == [p EXCEPT !.calls = Append(@, Operator(T, B, stage))]
CalledOn(Changed(_)) ==
  [m \in Buffers |-> IF m \in Elements(Batch) THEN Changed(Called(packet[m])) ELSE packet[m]]

\* act of an operator that marks itself as applied.
Apply(operator, Changed(_)) ==
  /\ Acting(operator)
  /\ packet' = CalledOn(Changed)
  /\ marks' = marks \cup {Operator(T, B, stage)}
  /\ stage' = NextActive(stage + 1)
  /\ UNCHANGED <<program, types, stack, spare, batch, turn, waiting, returned>>

\* Faulty variant: map runs its function again when it hands a packet on.
MapTwice == Apply("map", LAMBDA p : Called(p))

Map == Apply("map", LAMBDA p : p)

\* A function that gets a mutable packet may change the length of the first header.
Lengths == IF types[T][B][stage].level = 1 THEN Sizes ELSE {0}
Resized(p, size) == IF size = 0 THEN p ELSE [p EXCEPT !.size = size]

Transform ==
  Acting("transform") /\ \E size \in Lengths : Apply("transform", LAMBDA p : Resized(p, size))

\* All metadata goes to the same slots.
Written(p) == [p EXCEPT !.meta = Operator(T, B, stage)]

Metadata == Apply("metadata", LAMBDA p : Written(p))

MetadataMut ==
  /\ Acting("metadata_mut")
  /\ \E size \in Lengths : Apply("metadata_mut", LAMBDA p : Written(Resized(p, size)))

\* FilterBatch has no mark.
FilterAct ==
  /\ Acting("filter")
  /\ \E remove \in SUBSET (0 .. Len(Batch) - 1) :
       LET dropped == drop_packets_stable(Batch, SetToSortSeq(remove, <)) IN
       /\ batch' = [batch EXCEPT ![<<T, B>>] = dropped.array]
       /\ spare' = spare \cup dropped.freed
       /\ packet' = Freed(CalledOn(LAMBDA p : p), dropped.freed)
  /\ stage' = NextActive(stage + 1)
  /\ UNCHANGED <<program, types, stack, marks, turn, waiting, returned>>

-----------------------------------------------------------------------------
(* What follows act *)

AtEnd(end) == Running /\ stage = Len(Chain(T, B)) + 1 /\ program[T].end = end

\* Faulty variant: an operator stays marked as applied.
DoneKeepsMarks ==
  /\ batch' = [batch EXCEPT ![<<T, B>>] = <<>>]
  /\ marks' = marks
  /\ turn' = [turn EXCEPT ![T] = IF @ = Len(program[T].branches) THEN 1 ELSE @ + 1]
  /\ stack' = Front(stack) /\ stage' = NotActing
  /\ returned' = IF Len(stack) = 1 THEN T ELSE returned

\* done of every operator, down to ReceiveBatch, which frees the rest of the batch; it
\* is the turn of the next branch; and the task and exec_task return.
Done ==
  /\ batch' = [batch EXCEPT ![<<T, B>>] = <<>>]
  /\ marks' = marks \ {Operator(T, B, k) : k \in DOMAIN Chain(T, B)}
  /\ turn' = [turn EXCEPT ![T] = IF @ = Len(program[T].branches) THEN 1 ELSE @ + 1]
  /\ stack' = Front(stack) /\ stage' = NotActing
  /\ returned' = IF Len(stack) = 1 THEN T ELSE returned

\* The port has transmitted what it takes of the batch before it is used again; done
\* frees the others.
SendAct ==
  /\ AtEnd("send")
  /\ spare' = spare \cup Elements(Batch)
  /\ packet' = Freed(packet, Elements(Batch))
  /\ Done
  /\ UNCHANGED <<program, types, waiting>>

\* Faulty variant: the offset is saved only by the first group_by.
SaveOnce(m) == IF packet[m].saved = 0 THEN next_payload(T, B, stage, m) ELSE packet[m].saved

\* save_header_and_offset
SaveHeader(m) == next_payload(T, B, stage, m)

\* GroupByProducer: the header is saved and the mbuf goes to the queue of its group,
\* where there is room; the batch forgets its mbufs.
GroupBy ==
  /\ AtEnd("group") /\ ~ Panics(stage)
  /\ packet' = [m \in Buffers |->
                  IF m \in Elements(Batch) THEN [packet[m] EXCEPT !.saved = SaveHeader(m)] ELSE packet[m]]
  /\ \E g \in [Elements(Batch) -> 0 .. program[T].groups - 1] :
       waiting' = [x \in DOMAIN waiting |->
                   IF x[1] # T THEN waiting[x]
                   ELSE LET all == waiting[x] \o SelectSeq(Batch, LAMBDA m : g[m] = x[2])
                        IN SubSeq(all, 1, Min({GroupSize, Len(all)}))]
  /\ Done
  /\ UNCHANGED <<program, types, spare>>

\* execute of MergeBatch and of CompositionBatch.
Discard ==
  /\ AtEnd("none")
  /\ spare' = spare \cup Elements(Batch)
  /\ packet' = Freed(packet, Elements(Batch))
  /\ Done
  /\ UNCHANGED <<program, types, waiting>>

Panic ==
  /\ Running
  /\ \/ stage \in DOMAIN Chain(T, B)
     \/ AtEnd("group")
  /\ Panics(stage)
  /\ stage' = Panicked
  /\ UNCHANGED <<program, types, stack, spare, packet, batch, marks, turn, waiting, returned>>

\* A panic ends the thread.
Stopped == stage = Panicked /\ UNCHANGED chainVars

Step ==
  \/ Dependency \/ Execute \/ ReceiveAct \/ Map \/ Transform \/ Metadata \/ MetadataMut
  \/ FilterAct \/ SendAct \/ GroupBy \/ Discard \/ Panic

ChainNext ==
  \/ \E t \in Tasks : exec_task(t)
  \/ Step
  \/ Stopped

\* The thread that called exec_task runs on.
Fairness == WF_chainVars(Step)

ChainSpec == ChainInit /\ [][ChainNext]_chainVars /\ Fairness

-----------------------------------------------------------------------------
(* Properties *)

\* A function that is called with a Packet<T, M>, of an operator or of group_by, gets
\* the header that T names, although headers below it changed their length since it
\* was parsed and the mbuf went through a queue with nothing but its metadata slots;
\* and the slots hold the M that was written for this packet (next_payload of every
\* operator, save_header_and_offset, restore_saved_header).
SeesItsHeader ==
  Running /\ stage # 0 /\ ~ AtEnd("send") /\ ~ AtEnd("none") /\ ~ Panics(stage) =>
    LET type == types[T][B][stage] IN
    \A m \in Elements(Batch) :
      /\ next_payload(T, B, stage, m) = StartOf(m, type.level)
      /\ type.meta \in {None, packet[m].meta}

\* Per program and task, the calls of a packet that reaches the end, by every way to it.
Paths ==
  [p \in Programs |->
     LET Of[t \in DOMAIN p] ==
           UNION {LET from == p[t].branches[b].from
                      chain == ChainOf(p, t, b)
                      active == SelectSeq([k \in DOMAIN chain |-> k], LAMBDA k : chain[k] \in Active)
                      calls == [i \in DOMAIN active |-> OperatorOf(p, t, b, active[i])]
                  IN {above \o calls : above \in IF from = <<>> THEN {<<>>} ELSE Of[from[1]]} :
                  b \in DOMAIN p[t].branches}
     IN [t \in DOMAIN p |-> Of[t]]]

\* A packet in a queue or in a batch that is about to be sent has passed every function
\* on its way exactly once and in the order of the program: the marks and the order in
\* which act descends the chain keep one from being left out or repeated.
CalledAsProgrammed ==
  /\ \A x \in DOMAIN waiting : \A m \in Elements(waiting[x]) : packet[m].calls \in Paths[program][x[1]]
  /\ AtEnd("send") => \A m \in Elements(Batch) : packet[m].calls \in Paths[program][T]

\* When exec_task returns from a task that serves one group, nothing that its
\* dependency, which ran in the same call, queued for it is left waiting for another.
NothingLeftBehind ==
  stack = <<>> /\ returned # 0 =>
    LET branches == program[returned].branches IN
    Len(branches) = 1 /\ branches[1].from # <<>> => 
      Len(waiting[branches[1].from]) <= Max({0, GroupSize - Capacity})

\* exec_task returns to the switch that embeds the scheduler, or panics.
ExecReturns == stack # <<>> ~> stack = <<>> \/ stage = Panicked
=============================================================================
