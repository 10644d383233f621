------------------------------ MODULE Scheduler ------------------------------
(***************************************************************************)
(* The thread that owns NetBricksContext and one StandaloneScheduler       *)
(* thread per core (framework/src/scheduler/context.rs and                 *)
(* standalone_scheduler.rs).  They talk over rendezvous channels           *)
(* (sync_channel(0)): a send blocks until the scheduler takes the command, *)
(* from recv when it is idle or from try_recv at the end of a round of     *)
(* tasks.  A barrier is a handshake over a second rendezvous channel       *)
(* followed by thread::park, and is released by Thread::unpark.            *)
(***************************************************************************)
EXTENDS Integers, FiniteSets

CONSTANTS
  Cores,            \* active_cores
  NoCore,           \* no send is in progress
  MaxTasks,         \* bound: tasks the pipelines install on one core
  MaxDepth,         \* bound: nested execute_loop calls on one core
  SpuriousWakeups   \* whether thread::park may return without an unpark

ASSUME CoresAssumption == NoCore \notin Cores
ASSUME BoundsAssumption == MaxTasks \in Nat /\ MaxDepth \in Nat
ASSUME SpuriousAssumption == SpuriousWakeups \in BOOLEAN

VARIABLES
  main,          \* what the owner of the context is doing
  call,          \* the command its call sends
  todo,          \* cores the loop of the call has still to visit
  offer,         \* the core whose channel a send is blocked on
  handles,       \* cores with a JoinHandle in scheduler_handles
  status,        \* where each scheduler thread is
  depth,         \* execute_loop activations on its stack
  run_q,         \* length of its run_q
  next_task,
  execute_loop,
  shutdown,
  token          \* the park token of each thread

mainVars == <<main, call, todo, offer, handles>>
schedVars == <<status, depth, run_q, next_task, execute_loop, shutdown, token>>
vars == <<mainVars, schedVars>>

Commands == {"Run", "Execute", "Handshake", "Shutdown"}
Calls == Commands \cup {"Wait"}
MainStates == {"start", "idle", "send", "collect", "held", "release", "join", "panicked"}
ThreadStates == {"none", "init", "recv", "loop", "run", "poll", "ack",
                 "parking", "parked", "exited"}

Init ==
  /\ main = "start" /\ call = "Run" /\ todo = Cores /\ offer = NoCore
  /\ handles = {}
  /\ status = [c \in Cores |-> "none"]
  /\ depth = [c \in Cores |-> 0]
  /\ run_q = [c \in Cores |-> 0]
  /\ next_task = [c \in Cores |-> 0]
  /\ execute_loop = [c \in Cores |-> FALSE]
  /\ shutdown = [c \in Cores |-> TRUE]
  /\ token = [c \in Cores |-> FALSE]

-----------------------------------------------------------------------------
(* The owner of the context *)

StartScheduler(c) ==
  /\ main = "start" /\ c \in todo
  /\ todo' = todo \ {c}
  /\ handles' = handles \cup {c}
  /\ status' = [status EXCEPT ![c] = "init"]
  /\ UNCHANGED <<main, call, offer, depth, run_q, next_task, execute_loop, shutdown, token>>

Started ==
  /\ main = "start" /\ todo = {}
  /\ main' = "idle"
  /\ UNCHANGED <<call, todo, offer, handles, schedVars>>

\* The calls that send cmd to a set of cores: add_pipeline_to_run, execute and
\* stop to all of them, add_pipeline_to_core to one, barrier to as many as there
\* are join handles.
Send(cmd, cores) ==
  /\ main = "idle"
  /\ main' = "send" /\ call' = cmd /\ todo' = cores
  /\ UNCHANGED <<offer, handles, schedVars>>

add_pipeline_to_run ==
  /\ \A c \in Cores : run_q[c] < MaxTasks
  /\ Send("Run", Cores)

add_pipeline_to_core(c) ==
  /\ run_q[c] < MaxTasks
  /\ Send("Run", {c})

execute ==
  /\ \A c \in Cores : depth[c] < MaxDepth
  /\ Send("Execute", Cores)

barrier == Send("Handshake", handles)
stop == Send("Shutdown", Cores)

wait ==
  /\ main = "idle"
  /\ main' = "join" /\ call' = "Wait" /\ todo' = handles
  /\ UNCHANGED <<offer, handles, schedVars>>

\* SyncSender::send blocks on the channel of the next core of the loop.
Offer(c) ==
  /\ main = "send" /\ offer = NoCore /\ c \in todo
  /\ offer' = c
  /\ UNCHANGED <<main, call, todo, handles, schedVars>>

\* The receiver is gone: send returns an error and unwrap panics.
SendFails(c) ==
  /\ offer = c /\ status[c] = "exited"
  /\ main' = "panicked" /\ offer' = NoCore
  /\ UNCHANGED <<call, todo, handles, schedVars>>

\* Faulty variant: barrier returns without collecting the handshakes.
SentNoCollect ==
  /\ main = "send" /\ todo = {}
  /\ main' = CASE call = "Handshake" -> "held"
               [] call = "Shutdown" -> "join"
               [] OTHER -> "idle"
  /\ todo' = IF call \in {"Handshake", "Shutdown"} THEN handles ELSE {}
  /\ UNCHANGED <<call, offer, handles, schedVars>>

\* The send loop ends: barrier goes on to collect the handshakes, stop to join.
Sent ==
  /\ main = "send" /\ todo = {}
  /\ main' = CASE call = "Handshake" -> "collect"
               [] call = "Shutdown" -> "join"
               [] OTHER -> "idle"
  /\ todo' = IF call \in {"Handshake", "Shutdown"} THEN handles ELSE {}
  /\ UNCHANGED <<call, offer, handles, schedVars>>

\* receiver.recv() of barrier meets chan.send(true) of a scheduler.
Collect(c) ==
  /\ main = "collect" /\ c \in todo /\ status[c] = "ack"
  /\ todo' = todo \ {c}
  /\ status' = [status EXCEPT ![c] = "parking"]
  /\ UNCHANGED <<main, call, offer, handles, depth, run_q, next_task,
                 execute_loop, shutdown, token>>

Collected ==
  /\ main = "collect" /\ todo = {}
  /\ main' = "held"
  /\ UNCHANGED <<call, todo, offer, handles, schedVars>>

release ==
  /\ main = "held"
  /\ main' = "release" /\ todo' = handles
  /\ UNCHANGED <<call, offer, handles, schedVars>>

Unpark(c) ==
  /\ main = "release" /\ c \in todo
  /\ todo' = todo \ {c}
  /\ token' = [token EXCEPT ![c] = TRUE]
  /\ UNCHANGED <<main, call, offer, handles, status, depth, run_q, next_task,
                 execute_loop, shutdown>>

Released ==
  /\ main = "release" /\ todo = {}
  /\ main' = "idle"
  /\ UNCHANGED <<call, todo, offer, handles, schedVars>>

\* stop and wait drain scheduler_handles and join each thread.
Join(c) ==
  /\ main = "join" /\ c \in todo /\ status[c] = "exited"
  /\ todo' = todo \ {c}
  /\ handles' = handles \ {c}
  /\ UNCHANGED <<main, call, offer, schedVars>>

Joined ==
  /\ main = "join" /\ todo = {}
  /\ main' = "idle"
  /\ UNCHANGED <<call, todo, offer, handles, schedVars>>

-----------------------------------------------------------------------------
(* A scheduler thread *)

ThreadInit(c) ==
  /\ status[c] = "init"
  /\ status' = [status EXCEPT ![c] = "recv"]
  /\ shutdown' = [shutdown EXCEPT ![c] = FALSE]
  /\ UNCHANGED <<mainVars, depth, run_q, next_task, execute_loop, token>>

\* Faulty variant: handle_requests handles one command only.
ReturnToExit(d, stopping) == IF d > 0 THEN "loop" ELSE "exited"

\* Where handle_request returns to: the innermost execute_loop, or
\* handle_requests, which leaves when shutdown is set.
ReturnTo(d, stopping) ==
  IF d > 0 THEN "loop" ELSE IF stopping THEN "exited" ELSE "recv"

\* The closure of Run installs a pipeline: it adds n tasks, none on a core
\* without ports.
HandleRun(c) ==
  /\ call = "Run"
  /\ \E n \in 0 .. MaxTasks - run_q[c] : run_q' = [run_q EXCEPT ![c] = @ + n]
  /\ status' = [status EXCEPT ![c] = ReturnTo(depth[c], shutdown[c])]
  /\ UNCHANGED <<depth, execute_loop, shutdown>>

\* execute_loop is entered, possibly from within another activation; with an
\* empty run_q it returns at once.
HandleExecute(c) ==
  /\ call = "Execute"
  /\ execute_loop' = [execute_loop EXCEPT ![c] = TRUE]
  /\ \/ /\ run_q[c] = 0
        /\ status' = [status EXCEPT ![c] = ReturnTo(depth[c], shutdown[c])]
        /\ UNCHANGED depth
     \/ /\ run_q[c] > 0
        /\ status' = [status EXCEPT ![c] = "loop"]
        /\ depth' = [depth EXCEPT ![c] = @ + 1]
  /\ UNCHANGED <<run_q, shutdown>>

\* Faulty variant: only shutdown is set and the loop goes on.
HandleShutdownKeepsLoop(c) ==
  /\ call = "Shutdown"
  /\ shutdown' = [shutdown EXCEPT ![c] = TRUE]
  /\ status' = [status EXCEPT ![c] = ReturnTo(depth[c], TRUE)]
  /\ UNCHANGED <<depth, run_q, execute_loop>>

HandleShutdown(c) ==
  /\ call = "Shutdown"
  /\ execute_loop' = [execute_loop EXCEPT ![c] = FALSE]
  /\ shutdown' = [shutdown EXCEPT ![c] = TRUE]
  /\ status' = [status EXCEPT ![c] = ReturnTo(depth[c], TRUE)]
  /\ UNCHANGED <<depth, run_q>>

HandleHandshake(c) ==
  /\ call = "Handshake"
  /\ status' = [status EXCEPT ![c] = "ack"]
  /\ UNCHANGED <<depth, run_q, execute_loop, shutdown>>

\* recv or try_recv takes the command a send is blocked on; handle_request.
Receive(c) ==
  /\ offer = c /\ status[c] \in {"recv", "poll"}
  /\ offer' = NoCore
  /\ todo' = todo \ {c}
  /\ HandleRun(c) \/ HandleExecute(c) \/ HandleShutdown(c) \/ HandleHandshake(c)
  /\ UNCHANGED <<main, call, handles, next_task, token>>

\* try_recv finds no sender waiting.
PollEmpty(c) ==
  /\ status[c] = "poll" /\ offer # c
  /\ status' = [status EXCEPT ![c] = "loop"]
  /\ UNCHANGED <<mainVars, depth, run_q, next_task, execute_loop, shutdown, token>>

RunTask(c) ==
  /\ status[c] = "loop" /\ execute_loop[c]
  /\ status' = [status EXCEPT ![c] = "run"]
  /\ UNCHANGED <<mainVars, depth, run_q, next_task, execute_loop, shutdown, token>>

\* Faulty variant: the round ends one task too late.
FinishTaskLate(c) ==
  LET next == next_task[c] + 1 IN
  /\ status[c] = "run"
  /\ \/ /\ next > run_q[c]
        /\ next_task' = [next_task EXCEPT ![c] = 0]
        /\ status' = [status EXCEPT ![c] = "poll"]
     \/ /\ next <= run_q[c]
        /\ next_task' = [next_task EXCEPT ![c] = next]
        /\ status' = [status EXCEPT ![c] = "loop"]
  /\ UNCHANGED <<mainVars, depth, run_q, execute_loop, shutdown, token>>

\* Faulty variant: the round ends after each task.
FinishTaskRestart(c) ==
  /\ status[c] = "run"
  /\ next_task' = [next_task EXCEPT ![c] = 0]
  /\ status' = [status EXCEPT ![c] = "poll"]
  /\ UNCHANGED <<mainVars, depth, run_q, execute_loop, shutdown, token>>

\* The task returns; after the last one of the round the channel is polled.
FinishTask(c) ==
  LET next == next_task[c] + 1 IN
  /\ status[c] = "run"
  /\ \/ /\ next = run_q[c]
        /\ next_task' = [next_task EXCEPT ![c] = 0]
        /\ status' = [status EXCEPT ![c] = "poll"]
     \/ /\ next # run_q[c]
        /\ next_task' = [next_task EXCEPT ![c] = next]
        /\ status' = [status EXCEPT ![c] = "loop"]
  /\ UNCHANGED <<mainVars, depth, run_q, execute_loop, shutdown, token>>

\* An activation of execute_loop sees execute_loop cleared and returns.
LeaveLoop(c) ==
  /\ status[c] = "loop" /\ ~execute_loop[c]
  /\ depth' = [depth EXCEPT ![c] = @ - 1]
  /\ status' = [status EXCEPT ![c] = ReturnTo(depth[c] - 1, shutdown[c])]
  /\ UNCHANGED <<mainVars, run_q, next_task, execute_loop, shutdown, token>>

\* Faulty variant: park does not use up the token.
ParkKeepsToken(c) ==
  /\ status[c] = "parking"
  /\ status' = [status EXCEPT ![c] =
                  IF token[c] THEN ReturnTo(depth[c], shutdown[c]) ELSE "parked"]
  /\ UNCHANGED <<mainVars, depth, run_q, next_task, execute_loop, shutdown, token>>

\* thread::park returns at once when the token is there and takes it.
Park(c) ==
  /\ status[c] = "parking"
  /\ status' = [status EXCEPT ![c] =
                  IF token[c] THEN ReturnTo(depth[c], shutdown[c]) ELSE "parked"]
  /\ token' = [token EXCEPT ![c] = FALSE]
  /\ UNCHANGED <<mainVars, depth, run_q, next_task, execute_loop, shutdown>>

Wake(c) ==
  /\ status[c] = "parked" /\ token[c]
  /\ status' = [status EXCEPT ![c] = ReturnTo(depth[c], shutdown[c])]
  /\ token' = [token EXCEPT ![c] = FALSE]
  /\ UNCHANGED <<mainVars, depth, run_q, next_task, execute_loop, shutdown>>

\* The contract of thread::park lets it return although nobody called unpark.
SpuriousWake(c) ==
  /\ SpuriousWakeups
  /\ status[c] = "parked"
  /\ status' = [status EXCEPT ![c] = ReturnTo(depth[c], shutdown[c])]
  /\ UNCHANGED <<mainVars, depth, run_q, next_task, execute_loop, shutdown, token>>

-----------------------------------------------------------------------------
ClientCall ==
  \/ add_pipeline_to_run \/ execute \/ barrier \/ stop \/ wait
  \/ \E c \in Cores : add_pipeline_to_core(c)

\* What the owner's thread does inside a call, and the release that must follow
\* a barrier.
MainStep ==
  \/ Started \/ Sent \/ Collected \/ release \/ Released \/ Joined
  \/ \E c \in Cores : \/ StartScheduler(c) \/ Offer(c) \/ SendFails(c)
                      \/ Collect(c) \/ Unpark(c) \/ Join(c)

ThreadStep(c) ==
  \/ ThreadInit(c) \/ Receive(c) \/ PollEmpty(c) \/ RunTask(c) \/ FinishTask(c)
  \/ LeaveLoop(c) \/ Park(c) \/ Wake(c)

Next ==
  \/ ClientCall
  \/ MainStep
  \/ \E c \in Cores : ThreadStep(c) \/ SpuriousWake(c)

Spec == Init /\ [][Next]_vars

\* Threads keep running and every task returns; the owner releases the barriers
\* it asked for.  Nothing is assumed about which calls it makes.
FairSpec ==
  /\ Spec
  /\ WF_vars(MainStep)
  /\ \A c \in Cores : WF_vars(ThreadStep(c))
-----------------------------------------------------------------------------
(* Properties *)

TypeOK ==
  /\ main \in MainStates /\ call \in Calls
  /\ todo \subseteq Cores /\ handles \subseteq Cores
  /\ offer \in Cores \cup {NoCore}
  /\ status \in [Cores -> ThreadStates]
  /\ depth \in [Cores -> Nat]
  /\ run_q \in [Cores -> 0..MaxTasks]
  /\ next_task \in [Cores -> Nat]
  /\ execute_loop \in [Cores -> BOOLEAN]
  /\ shutdown \in [Cores -> BOOLEAN]
  /\ token \in [Cores -> BOOLEAN]

\* While the caller of barrier holds the handle no scheduler runs a task or
\* takes a command: each is on its way into thread::park or parked.
BarrierPauses ==
  main = "held" => \A c \in handles : status[c] \in {"parking", "parked"} /\ ~token[c]

\* An unpark is used up by the barrier it releases: its token never survives to
\* let a later barrier's park fall through.
TokenIsForThisBarrier ==
  \A c \in Cores : token[c] =>
    status[c] \in {"parking", "parked"} /\ main \notin {"collect", "held"}

\* execute_internal indexes run_q with next_task: it is in range whatever was
\* installed, executed and nested before.
TaskInRange ==
  \A c \in Cores : status[c] = "run" => next_task[c] < run_q[c]

\* A call panics only when stop or wait already ended every scheduler; while they
\* run no send finds its receiver gone.
PanicsOnlyAfterStop ==
  main = "panicked" => \A c \in Cores : status[c] = "exited"

\* Every call but wait returns: the rendezvous sends, the handshakes and the
\* joins never wait on each other.
CallsReturn ==
  (main \in {"start", "send", "collect", "release"} \/ (main = "join" /\ call = "Shutdown"))
    ~> main \in {"idle", "held", "panicked"}

\* The scheduler is round-robin: a running core comes back to each of its tasks
\* unless it is told to shut down.
RoundRobin ==
  \A c \in Cores : \A i \in 0 .. MaxTasks - 1 :
    (status[c] = "run" /\ i < run_q[c])
      ~> ((status[c] = "run" /\ next_task[c] = i) \/ shutdown[c])

-----------------------------------------------------------------------------
(* The inductive invariant *)

\* next_task indexes a task whenever an execute_loop is active.
LoopInv ==
  \A c \in Cores :
    /\ status[c] \in {"loop", "run", "poll"} => depth[c] > 0
    /\ depth[c] > 0 => run_q[c] > 0
    /\ next_task[c] = 0 \/ next_task[c] < run_q[c]

\* A send in progress is that of the current call, to a core it has not served.
SendInv ==
  /\ offer # NoCore => main = "send" /\ offer \in todo
  /\ main = "send" => call \in Commands
  /\ main = "send" /\ call = "Handshake" => todo \subseteq handles
  /\ main \in {"collect", "release", "join"} => todo \subseteq handles
  /\ main = "join" => todo = handles
  /\ main = "start" => handles = Cores \ todo

Running(c) == status[c] # "none" /\ status[c] # "exited" /\ (shutdown[c] => status[c] = "init")
AllRunning == handles = Cores /\ \A c \in Cores : Running(c)
AllExited == handles = {} /\ \A c \in Cores : status[c] = "exited"

\* How far the system as a whole is: all schedulers run until stop, which shuts
\* them down one after another, and all have exited once their handles are gone.
PhaseInv ==
  /\ main = "start" => \A c \in Cores : IF c \in todo THEN status[c] = "none" ELSE Running(c)
  /\ main \in {"idle", "collect", "held", "release"} => AllRunning \/ AllExited
  /\ main = "send" /\ call # "Shutdown" => AllRunning \/ AllExited
  /\ main = "send" /\ call = "Shutdown" =>
       \/ AllExited
       \/ handles = Cores /\ \A c \in todo : Running(c)
  /\ main = "join" => \/ AllRunning
                      \/ \A c \in Cores : c \notin handles => status[c] = "exited"
  /\ main = "panicked" => AllExited
  /\ \A c \in Cores : status[c] = "exited" => shutdown[c] /\ depth[c] = 0

\* Where each thread is in the handshake of a barrier, seen from both sides.
HandshakeInv ==
  \A c \in Cores :
    /\ main = "send" /\ call = "Handshake" /\ c \in handles \ todo => status[c] = "ack"
    /\ main = "collect" /\ c \in handles =>
         IF c \in todo THEN status[c] = "ack"
                       ELSE status[c] \in {"parking", "parked"} /\ ~token[c]
    /\ main = "held" /\ c \in handles => status[c] \in {"parking", "parked"} /\ ~token[c]
    /\ main = "release" /\ c \in todo => status[c] \in {"parking", "parked"} /\ ~token[c]
    /\ token[c] => status[c] \in {"parking", "parked"}

\* What every step preserves; the handshake part needs a park that does not
\* return by itself.
IInv ==
  /\ TypeOK
  /\ LoopInv
  /\ SendInv
  /\ PhaseInv
  /\ ~SpuriousWakeups => HandshakeInv
=============================================================================
