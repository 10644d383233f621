--------------------------- MODULE SchedulerProofs ---------------------------
(***************************************************************************)
(* IInv of Scheduler is inductive for any set of cores and any bounds, and *)
(* the safety properties of barriers, task scheduling and stop follow.     *)
(***************************************************************************)
EXTENDS Scheduler, TLAPS

\* Time limit of the SMT backend for the leaves that name no other backend.
USE SMTT(60)

\* start_schedulers returns.
LEMMA StartedIInv ==
  ASSUME IInv, Started
  PROVE  IInv'
<1> USE CoresAssumption, BoundsAssumption DEF IInv, Started, mainVars, schedVars
<1>1. TypeOK'
  BY Zenon DEF TypeOK, Commands, Calls, MainStates, ThreadStates
<1>2. LoopInv'
  BY Zenon DEF TypeOK, LoopInv
<1>3. SendInv'
  BY Zenon DEF TypeOK, SendInv, Commands
<1>4. PhaseInv'
  BY Zenon DEF TypeOK, PhaseInv, SendInv, Running, AllRunning, AllExited, LoopInv
<1>5. ASSUME ~SpuriousWakeups PROVE HandshakeInv'
  BY Zenon, <1>5 DEF TypeOK, HandshakeInv, SendInv, PhaseInv, AllRunning, AllExited
<1> QED BY Zenon, <1>1, <1>2, <1>3, <1>4, <1>5

\* add_pipeline_to_run and add_test_pipeline begin.
LEMMA add_pipeline_to_runIInv ==
  ASSUME IInv, add_pipeline_to_run
  PROVE  IInv'
<1> USE CoresAssumption, BoundsAssumption DEF IInv, add_pipeline_to_run, Send, mainVars, schedVars
<1>1. TypeOK'
  BY Zenon DEF TypeOK, Commands, Calls, MainStates, ThreadStates
<1>2. LoopInv'
  BY Zenon DEF TypeOK, LoopInv
<1>3. SendInv'
  BY Zenon DEF TypeOK, SendInv, Commands
<1>4. PhaseInv'
  BY Zenon DEF TypeOK, PhaseInv, SendInv, Running, AllRunning, AllExited, LoopInv
<1>5. ASSUME ~SpuriousWakeups PROVE HandshakeInv'
  BY Zenon, <1>5 DEF TypeOK, HandshakeInv, SendInv, PhaseInv, AllRunning, AllExited
<1> QED BY Zenon, <1>1, <1>2, <1>3, <1>4, <1>5

\* execute begins.
LEMMA executeIInv ==
  ASSUME IInv, execute
  PROVE  IInv'
<1> USE CoresAssumption, BoundsAssumption DEF IInv, execute, Send, mainVars, schedVars
<1>1. TypeOK'
  BY Zenon DEF TypeOK, Commands, Calls, MainStates, ThreadStates
<1>2. LoopInv'
  BY Zenon DEF TypeOK, LoopInv
<1>3. SendInv'
  BY Zenon DEF TypeOK, SendInv, Commands
<1>4. PhaseInv'
  BY Zenon DEF TypeOK, PhaseInv, SendInv, Running, AllRunning, AllExited, LoopInv
<1>5. ASSUME ~SpuriousWakeups PROVE HandshakeInv'
  BY Zenon, <1>5 DEF TypeOK, HandshakeInv, SendInv, PhaseInv, AllRunning, AllExited
<1> QED BY Zenon, <1>1, <1>2, <1>3, <1>4, <1>5

\* barrier begins.
LEMMA barrierIInv ==
  ASSUME IInv, barrier
  PROVE  IInv'
<1> USE CoresAssumption, BoundsAssumption DEF IInv, barrier, Send, mainVars, schedVars
<1>1. TypeOK'
  BY Zenon DEF TypeOK, Commands, Calls, MainStates, ThreadStates
<1>2. LoopInv'
  BY Zenon DEF TypeOK, LoopInv
<1>3. SendInv'
  BY Zenon DEF TypeOK, SendInv, Commands
<1>4. PhaseInv'
  BY Zenon DEF TypeOK, PhaseInv, SendInv, Running, AllRunning, AllExited, LoopInv
<1>5. ASSUME ~SpuriousWakeups PROVE HandshakeInv'
  BY Zenon, <1>5 DEF TypeOK, HandshakeInv, SendInv, PhaseInv, AllRunning, AllExited
<1> QED BY Zenon, <1>1, <1>2, <1>3, <1>4, <1>5

\* stop begins.
LEMMA stopIInv ==
  ASSUME IInv, stop
  PROVE  IInv'
<1> USE CoresAssumption, BoundsAssumption DEF IInv, stop, Send, mainVars, schedVars
<1>1. TypeOK'
  BY Zenon DEF TypeOK, Commands, Calls, MainStates, ThreadStates
<1>2. LoopInv'
  BY Zenon DEF TypeOK, LoopInv
<1>3. SendInv'
  BY Zenon DEF TypeOK, SendInv, Commands
<1>4. PhaseInv'
  BY Zenon DEF TypeOK, PhaseInv, SendInv, Running, AllRunning, AllExited, LoopInv
<1>5. ASSUME ~SpuriousWakeups PROVE HandshakeInv'
  BY Zenon, <1>5 DEF TypeOK, HandshakeInv, SendInv, PhaseInv, AllRunning, AllExited
<1> QED BY Zenon, <1>1, <1>2, <1>3, <1>4, <1>5

\* wait begins.
LEMMA waitIInv ==
  ASSUME IInv, wait
  PROVE  IInv'
<1> USE CoresAssumption, BoundsAssumption DEF IInv, wait, mainVars, schedVars
<1>1. TypeOK'
  BY Zenon DEF TypeOK, Commands, Calls, MainStates, ThreadStates
<1>2. LoopInv'
  BY Zenon DEF TypeOK, LoopInv
<1>3. SendInv'
  BY Zenon DEF TypeOK, SendInv, Commands
<1>4. PhaseInv'
  BY Zenon DEF TypeOK, PhaseInv, SendInv, Running, AllRunning, AllExited, LoopInv
<1>5. ASSUME ~SpuriousWakeups PROVE HandshakeInv'
  BY Zenon, <1>5 DEF TypeOK, HandshakeInv, SendInv, PhaseInv, AllRunning, AllExited
<1> QED BY Zenon, <1>1, <1>2, <1>3, <1>4, <1>5

\* The send loop of a call ends.
LEMMA SentIInv ==
  ASSUME IInv, Sent
  PROVE  IInv'
<1> USE CoresAssumption, BoundsAssumption DEF IInv, Sent, mainVars, schedVars
<1>1. TypeOK'
  BY Zenon DEF TypeOK, Commands, Calls, MainStates, ThreadStates
<1>2. LoopInv'
  BY Zenon DEF TypeOK, LoopInv
<1>3. SendInv'
  BY Zenon DEF TypeOK, SendInv, Commands
<1>4. PhaseInv'
  BY Zenon DEF TypeOK, PhaseInv, SendInv, Running, AllRunning, AllExited, LoopInv
<1>5. ASSUME ~SpuriousWakeups PROVE HandshakeInv'
  BY Zenon, <1>5 DEF TypeOK, HandshakeInv, SendInv, PhaseInv, AllRunning, AllExited
<1> QED BY Zenon, <1>1, <1>2, <1>3, <1>4, <1>5

\* barrier returns its handle.
LEMMA CollectedIInv ==
  ASSUME IInv, Collected
  PROVE  IInv'
<1> USE CoresAssumption, BoundsAssumption DEF IInv, Collected, mainVars, schedVars
<1>1. TypeOK'
  BY Zenon DEF TypeOK, Commands, Calls, MainStates, ThreadStates
<1>2. LoopInv'
  BY Zenon DEF TypeOK, LoopInv
<1>3. SendInv'
  BY Zenon DEF TypeOK, SendInv, Commands
<1>4. PhaseInv'
  BY Zenon DEF TypeOK, PhaseInv, SendInv, Running, AllRunning, AllExited, LoopInv
<1>5. ASSUME ~SpuriousWakeups PROVE HandshakeInv'
  BY Zenon, <1>5 DEF TypeOK, HandshakeInv, SendInv, PhaseInv, AllRunning, AllExited
<1> QED BY Zenon, <1>1, <1>2, <1>3, <1>4, <1>5

\* BarrierHandle::release begins.
LEMMA releaseIInv ==
  ASSUME IInv, release
  PROVE  IInv'
<1> USE CoresAssumption, BoundsAssumption DEF IInv, release, mainVars, schedVars
<1>1. TypeOK'
  BY Zenon DEF TypeOK, Commands, Calls, MainStates, ThreadStates
<1>2. LoopInv'
  BY Zenon DEF TypeOK, LoopInv
<1>3. SendInv'
  BY Zenon DEF TypeOK, SendInv, Commands
<1>4. PhaseInv'
  BY Zenon DEF TypeOK, PhaseInv, SendInv, Running, AllRunning, AllExited, LoopInv
<1>5. ASSUME ~SpuriousWakeups PROVE HandshakeInv'
  BY Zenon, <1>5 DEF TypeOK, HandshakeInv, SendInv, PhaseInv, AllRunning, AllExited
<1> QED BY Zenon, <1>1, <1>2, <1>3, <1>4, <1>5

\* BarrierHandle::release returns.
LEMMA ReleasedIInv ==
  ASSUME IInv, Released
  PROVE  IInv'
<1> USE CoresAssumption, BoundsAssumption DEF IInv, Released, mainVars, schedVars
<1>1. TypeOK'
  BY Zenon DEF TypeOK, Commands, Calls, MainStates, ThreadStates
<1>2. LoopInv'
  BY Zenon DEF TypeOK, LoopInv
<1>3. SendInv'
  BY Zenon DEF TypeOK, SendInv, Commands
<1>4. PhaseInv'
  BY Zenon DEF TypeOK, PhaseInv, SendInv, Running, AllRunning, AllExited, LoopInv
<1>5. ASSUME ~SpuriousWakeups PROVE HandshakeInv'
  BY Zenon, <1>5 DEF TypeOK, HandshakeInv, SendInv, PhaseInv, AllRunning, AllExited
<1> QED BY Zenon, <1>1, <1>2, <1>3, <1>4, <1>5

\* stop or wait returns.
LEMMA JoinedIInv ==
  ASSUME IInv, Joined
  PROVE  IInv'
<1> USE CoresAssumption, BoundsAssumption DEF IInv, Joined, mainVars, schedVars
<1>1. TypeOK'
  BY Zenon DEF TypeOK, Commands, Calls, MainStates, ThreadStates
<1>2. LoopInv'
  BY Zenon DEF TypeOK, LoopInv
<1>3. SendInv'
  BY Zenon DEF TypeOK, SendInv, Commands
<1>4. PhaseInv'
  BY Zenon DEF TypeOK, PhaseInv, SendInv, Running, AllRunning, AllExited, LoopInv
<1>5. ASSUME ~SpuriousWakeups PROVE HandshakeInv'
  BY Zenon, <1>5 DEF TypeOK, HandshakeInv, SendInv, PhaseInv, AllRunning, AllExited
<1> QED BY Zenon, <1>1, <1>2, <1>3, <1>4, <1>5

\* start_scheduler spawns the thread of a core.
LEMMA StartSchedulerIInv ==
  ASSUME IInv, NEW c \in Cores, StartScheduler(c)
  PROVE  IInv'
<1> USE CoresAssumption, BoundsAssumption DEF IInv, StartScheduler, mainVars, schedVars
<1>1. TypeOK'
  BY Zenon DEF TypeOK, Commands, Calls, MainStates, ThreadStates
<1>2. LoopInv'
  BY Zenon DEF TypeOK, LoopInv
<1>3. SendInv'
  BY DEF TypeOK, SendInv, Commands
<1>4. PhaseInv'
  BY Zenon DEF TypeOK, PhaseInv, SendInv, Running, AllRunning, AllExited, LoopInv
<1>5. ASSUME ~SpuriousWakeups PROVE HandshakeInv'
  BY Zenon, <1>5 DEF TypeOK, HandshakeInv, SendInv, PhaseInv, AllRunning, AllExited
<1> QED BY Zenon, <1>1, <1>2, <1>3, <1>4, <1>5

\* add_pipeline_to_core begins.
LEMMA add_pipeline_to_coreIInv ==
  ASSUME IInv, NEW c \in Cores, add_pipeline_to_core(c)
  PROVE  IInv'
<1> USE CoresAssumption, BoundsAssumption DEF IInv, add_pipeline_to_core, Send, mainVars, schedVars
<1>1. TypeOK'
  BY Zenon DEF TypeOK, Commands, Calls, MainStates, ThreadStates
<1>2. LoopInv'
  BY Zenon DEF TypeOK, LoopInv
<1>3. SendInv'
  BY Zenon DEF TypeOK, SendInv, Commands
<1>4. PhaseInv'
  BY Zenon DEF TypeOK, PhaseInv, SendInv, Running, AllRunning, AllExited, LoopInv
<1>5. ASSUME ~SpuriousWakeups PROVE HandshakeInv'
  BY Zenon, <1>5 DEF TypeOK, HandshakeInv, SendInv, PhaseInv, AllRunning, AllExited
<1> QED BY Zenon, <1>1, <1>2, <1>3, <1>4, <1>5

\* A send blocks on a core's channel.
LEMMA OfferIInv ==
  ASSUME IInv, NEW c \in Cores, Offer(c)
  PROVE  IInv'
<1> USE CoresAssumption, BoundsAssumption DEF IInv, Offer, mainVars, schedVars
<1>1. TypeOK'
  BY Zenon DEF TypeOK, Commands, Calls, MainStates, ThreadStates
<1>2. LoopInv'
  BY Zenon DEF TypeOK, LoopInv
<1>3. SendInv'
  BY Zenon DEF TypeOK, SendInv, Commands
<1>4. PhaseInv'
  BY Zenon DEF TypeOK, PhaseInv, SendInv, Running, AllRunning, AllExited, LoopInv
<1>5. ASSUME ~SpuriousWakeups PROVE HandshakeInv'
  BY Zenon, <1>5 DEF TypeOK, HandshakeInv, SendInv, PhaseInv, AllRunning, AllExited
<1> QED BY Zenon, <1>1, <1>2, <1>3, <1>4, <1>5

\* A send to a thread that exited panics.
LEMMA SendFailsIInv ==
  ASSUME IInv, NEW c \in Cores, SendFails(c)
  PROVE  IInv'
<1> USE CoresAssumption, BoundsAssumption DEF IInv, SendFails, mainVars, schedVars
<1>1. TypeOK'
  BY Zenon DEF TypeOK, Commands, Calls, MainStates, ThreadStates
<1>2. LoopInv'
  BY Zenon DEF TypeOK, LoopInv
<1>3. SendInv'
  BY Zenon DEF TypeOK, SendInv, Commands
<1>4. PhaseInv'
  BY Zenon DEF TypeOK, PhaseInv, SendInv, Running, AllRunning, AllExited, LoopInv
<1>5. ASSUME ~SpuriousWakeups PROVE HandshakeInv'
  BY Zenon, <1>5 DEF TypeOK, HandshakeInv, SendInv, PhaseInv, AllRunning, AllExited
<1> QED BY Zenon, <1>1, <1>2, <1>3, <1>4, <1>5

\* barrier receives a handshake.
LEMMA CollectIInv ==
  ASSUME IInv, NEW c \in Cores, Collect(c)
  PROVE  IInv'
<1> USE CoresAssumption, BoundsAssumption DEF IInv, Collect, mainVars, schedVars
<1>1. TypeOK'
  BY Zenon DEF TypeOK, Commands, Calls, MainStates, ThreadStates
<1>2. LoopInv'
  BY Zenon DEF TypeOK, LoopInv
<1>3. SendInv'
  BY Zenon DEF TypeOK, SendInv, Commands
<1>4. PhaseInv'
  BY Zenon DEF TypeOK, PhaseInv, SendInv, Running, AllRunning, AllExited, LoopInv
<1>5. ASSUME ~SpuriousWakeups PROVE HandshakeInv'
  BY Zenon, <1>5 DEF TypeOK, HandshakeInv, SendInv, PhaseInv, AllRunning, AllExited
<1> QED BY Zenon, <1>1, <1>2, <1>3, <1>4, <1>5

\* release unparks one thread.
LEMMA UnparkIInv ==
  ASSUME IInv, NEW c \in Cores, Unpark(c)
  PROVE  IInv'
<1> USE CoresAssumption, BoundsAssumption DEF IInv, Unpark, mainVars, schedVars
<1>1. TypeOK'
  BY Zenon DEF TypeOK, Commands, Calls, MainStates, ThreadStates
<1>2. LoopInv'
  BY Zenon DEF TypeOK, LoopInv
<1>3. SendInv'
  BY Zenon DEF TypeOK, SendInv, Commands
<1>4. PhaseInv'
  BY Zenon DEF TypeOK, PhaseInv, SendInv, Running, AllRunning, AllExited, LoopInv
<1>5. ASSUME ~SpuriousWakeups PROVE HandshakeInv'
  BY Zenon, <1>5 DEF TypeOK, HandshakeInv, SendInv, PhaseInv, AllRunning, AllExited
<1> QED BY Zenon, <1>1, <1>2, <1>3, <1>4, <1>5

\* stop or wait joins one thread.
LEMMA JoinIInv ==
  ASSUME IInv, NEW c \in Cores, Join(c)
  PROVE  IInv'
<1> USE CoresAssumption, BoundsAssumption DEF IInv, Join, mainVars, schedVars
<1>1. TypeOK'
  BY Zenon DEF TypeOK, Commands, Calls, MainStates, ThreadStates
<1>2. LoopInv'
  BY Zenon DEF TypeOK, LoopInv
<1>3. SendInv'
  BY Zenon DEF TypeOK, SendInv, Commands
<1>4. PhaseInv'
  BY Zenon DEF TypeOK, PhaseInv, SendInv, Running, AllRunning, AllExited, LoopInv
<1>5. ASSUME ~SpuriousWakeups PROVE HandshakeInv'
  BY Zenon, <1>5 DEF TypeOK, HandshakeInv, SendInv, PhaseInv, AllRunning, AllExited
<1> QED BY Zenon, <1>1, <1>2, <1>3, <1>4, <1>5

\* A thread enters handle_requests.
LEMMA ThreadInitIInv ==
  ASSUME IInv, NEW c \in Cores, ThreadInit(c)
  PROVE  IInv'
<1> USE CoresAssumption, BoundsAssumption DEF IInv, ThreadInit, ReturnTo, mainVars, schedVars
<1>1. TypeOK'
  BY Zenon DEF TypeOK, Commands, Calls, MainStates, ThreadStates
<1>2. LoopInv'
  BY Zenon DEF TypeOK, LoopInv
<1>3. SendInv'
  BY Zenon DEF TypeOK, SendInv, Commands
<1>4. PhaseInv'
  BY Zenon DEF TypeOK, PhaseInv, SendInv, Running, AllRunning, AllExited, LoopInv
<1>5. ASSUME ~SpuriousWakeups PROVE HandshakeInv'
  BY Zenon, <1>5 DEF TypeOK, HandshakeInv, SendInv, PhaseInv, AllRunning, AllExited
<1> QED BY Zenon, <1>1, <1>2, <1>3, <1>4, <1>5

\* A scheduler takes a command and handles it.
LEMMA ReceiveIInv ==
  ASSUME IInv, NEW c \in Cores, Receive(c)
  PROVE  IInv'
<1> USE CoresAssumption, BoundsAssumption DEF IInv, Receive, ReturnTo, mainVars, schedVars
<1>1. CASE HandleRun(c)
  <2> USE <1>1 DEF HandleRun
  <2>1. TypeOK'
    BY DEF TypeOK, Commands, Calls, MainStates, ThreadStates
  <2>2. LoopInv'
    BY DEF TypeOK, LoopInv
  <2>3. SendInv'
    BY Zenon DEF TypeOK, SendInv, Commands
  <2>4. PhaseInv'
    BY Zenon DEF TypeOK, PhaseInv, SendInv, Running, AllRunning, AllExited, LoopInv
  <2>5. ASSUME ~SpuriousWakeups PROVE HandshakeInv'
    BY Zenon, <2>5 DEF TypeOK, HandshakeInv, SendInv, PhaseInv, AllRunning, AllExited
  <2> QED BY Zenon, <2>1, <2>2, <2>3, <2>4, <2>5
<1>2. CASE HandleExecute(c)
  <2> USE <1>2 DEF HandleExecute
  <2>1. TypeOK'
    BY DEF TypeOK, Commands, Calls, MainStates, ThreadStates
  <2>2. LoopInv'
    BY DEF TypeOK, LoopInv
  <2>3. SendInv'
    BY Zenon DEF TypeOK, SendInv, Commands
  <2>4. PhaseInv'
    BY DEF TypeOK, PhaseInv, SendInv, Running, AllRunning, AllExited, LoopInv
  <2>5. ASSUME ~SpuriousWakeups PROVE HandshakeInv'
    BY Zenon, <2>5 DEF TypeOK, HandshakeInv, SendInv, PhaseInv, AllRunning, AllExited
  <2> QED BY Zenon, <2>1, <2>2, <2>3, <2>4, <2>5
<1>3. CASE HandleShutdown(c)
  <2> USE <1>3 DEF HandleShutdown
  <2>1. TypeOK'
    BY Zenon DEF TypeOK, Commands, Calls, MainStates, ThreadStates
  <2>2. LoopInv'
    BY Zenon DEF TypeOK, LoopInv
  <2>3. SendInv'
    BY Zenon DEF TypeOK, SendInv, Commands
  <2>4. PhaseInv'
    BY DEF TypeOK, PhaseInv, SendInv, Running, AllRunning, AllExited, LoopInv
  <2>5. ASSUME ~SpuriousWakeups PROVE HandshakeInv'
    BY Zenon, <2>5 DEF TypeOK, HandshakeInv, SendInv, PhaseInv, AllRunning, AllExited
  <2> QED BY Zenon, <2>1, <2>2, <2>3, <2>4, <2>5
<1>4. CASE HandleHandshake(c)
  <2> USE <1>4 DEF HandleHandshake
  <2>1. TypeOK'
    BY Zenon DEF TypeOK, Commands, Calls, MainStates, ThreadStates
  <2>2. LoopInv'
    BY Zenon DEF TypeOK, LoopInv
  <2>3. SendInv'
    BY Zenon DEF TypeOK, SendInv, Commands
  <2>4. PhaseInv'
    BY Zenon DEF TypeOK, PhaseInv, SendInv, Running, AllRunning, AllExited, LoopInv
  <2>5. ASSUME ~SpuriousWakeups PROVE HandshakeInv'
    BY Zenon, <2>5 DEF TypeOK, HandshakeInv, SendInv, PhaseInv, AllRunning, AllExited
  <2> QED BY Zenon, <2>1, <2>2, <2>3, <2>4, <2>5
<1> QED BY Zenon, <1>1, <1>2, <1>3, <1>4

\* try_recv finds no command.
LEMMA PollEmptyIInv ==
  ASSUME IInv, NEW c \in Cores, PollEmpty(c)
  PROVE  IInv'
<1> USE CoresAssumption, BoundsAssumption DEF IInv, PollEmpty, ReturnTo, mainVars, schedVars
<1>1. TypeOK'
  BY Zenon DEF TypeOK, Commands, Calls, MainStates, ThreadStates
<1>2. LoopInv'
  BY Zenon DEF TypeOK, LoopInv
<1>3. SendInv'
  BY Zenon DEF TypeOK, SendInv, Commands
<1>4. PhaseInv'
  BY Zenon DEF TypeOK, PhaseInv, SendInv, Running, AllRunning, AllExited, LoopInv
<1>5. ASSUME ~SpuriousWakeups PROVE HandshakeInv'
  BY Zenon, <1>5 DEF TypeOK, HandshakeInv, SendInv, PhaseInv, AllRunning, AllExited
<1> QED BY Zenon, <1>1, <1>2, <1>3, <1>4, <1>5

\* execute_internal starts a task.
LEMMA RunTaskIInv ==
  ASSUME IInv, NEW c \in Cores, RunTask(c)
  PROVE  IInv'
<1> USE CoresAssumption, BoundsAssumption DEF IInv, RunTask, ReturnTo, mainVars, schedVars
<1>1. TypeOK'
  BY Zenon DEF TypeOK, Commands, Calls, MainStates, ThreadStates
<1>2. LoopInv'
  BY Zenon DEF TypeOK, LoopInv
<1>3. SendInv'
  BY Zenon DEF TypeOK, SendInv, Commands
<1>4. PhaseInv'
  BY DEF TypeOK, PhaseInv, SendInv, Running, AllRunning, AllExited, LoopInv
<1>5. ASSUME ~SpuriousWakeups PROVE HandshakeInv'
  BY Zenon, <1>5 DEF TypeOK, HandshakeInv, SendInv, PhaseInv, AllRunning, AllExited
<1> QED BY Zenon, <1>1, <1>2, <1>3, <1>4, <1>5

\* A task returns.
LEMMA FinishTaskIInv ==
  ASSUME IInv, NEW c \in Cores, FinishTask(c)
  PROVE  IInv'
<1> USE CoresAssumption, BoundsAssumption DEF IInv, FinishTask, ReturnTo, mainVars, schedVars
<1>1. TypeOK'
  BY DEF TypeOK, Commands, Calls, MainStates, ThreadStates
<1>2. LoopInv'
  BY DEF TypeOK, LoopInv
<1>3. SendInv'
  BY Zenon DEF TypeOK, SendInv, Commands
<1>4. PhaseInv'
  BY DEF TypeOK, PhaseInv, SendInv, Running, AllRunning, AllExited, LoopInv
<1>5. ASSUME ~SpuriousWakeups PROVE HandshakeInv'
  BY <1>5 DEF TypeOK, HandshakeInv, SendInv, PhaseInv, AllRunning, AllExited
<1> QED BY Zenon, <1>1, <1>2, <1>3, <1>4, <1>5

\* An activation of execute_loop returns.
LEMMA LeaveLoopIInv ==
  ASSUME IInv, NEW c \in Cores, LeaveLoop(c)
  PROVE  IInv'
<1> USE CoresAssumption, BoundsAssumption DEF IInv, LeaveLoop, ReturnTo, mainVars, schedVars
<1>1. TypeOK'
  BY DEF TypeOK, LoopInv, Commands, Calls, MainStates, ThreadStates
<1>2. LoopInv'
  BY Zenon DEF TypeOK, LoopInv
<1>3. SendInv'
  BY Zenon DEF TypeOK, SendInv, Commands
<1>4. PhaseInv'
  BY DEF TypeOK, PhaseInv, SendInv, Running, AllRunning, AllExited, LoopInv
<1>5. ASSUME ~SpuriousWakeups PROVE HandshakeInv'
  BY <1>5 DEF TypeOK, HandshakeInv, SendInv, PhaseInv, AllRunning, AllExited
<1> QED BY Zenon, <1>1, <1>2, <1>3, <1>4, <1>5

\* thread::park is called.
LEMMA ParkIInv ==
  ASSUME IInv, NEW c \in Cores, Park(c)
  PROVE  IInv'
<1> USE CoresAssumption, BoundsAssumption DEF IInv, Park, ReturnTo, mainVars, schedVars
<1>1. TypeOK'
  BY Zenon DEF TypeOK, Commands, Calls, MainStates, ThreadStates
<1>2. LoopInv'
  BY Zenon DEF TypeOK, LoopInv
<1>3. SendInv'
  BY DEF TypeOK, SendInv, Commands
<1>4. PhaseInv'
  BY DEF TypeOK, PhaseInv, SendInv, Running, AllRunning, AllExited, LoopInv
<1>5. ASSUME ~SpuriousWakeups PROVE HandshakeInv'
  BY Zenon, <1>5 DEF TypeOK, HandshakeInv, SendInv, PhaseInv, AllRunning, AllExited
<1> QED BY Zenon, <1>1, <1>2, <1>3, <1>4, <1>5

\* An unparked thread goes on.
LEMMA WakeIInv ==
  ASSUME IInv, NEW c \in Cores, Wake(c)
  PROVE  IInv'
<1> USE CoresAssumption, BoundsAssumption DEF IInv, Wake, ReturnTo, mainVars, schedVars
<1>1. TypeOK'
  BY Zenon DEF TypeOK, Commands, Calls, MainStates, ThreadStates
<1>2. LoopInv'
  BY Zenon DEF TypeOK, LoopInv
<1>3. SendInv'
  BY DEF TypeOK, SendInv, Commands
<1>4. PhaseInv'
  BY DEF TypeOK, PhaseInv, SendInv, Running, AllRunning, AllExited, LoopInv
<1>5. ASSUME ~SpuriousWakeups PROVE HandshakeInv'
  BY Zenon, <1>5 DEF TypeOK, HandshakeInv, SendInv, PhaseInv, AllRunning, AllExited
<1> QED BY Zenon, <1>1, <1>2, <1>3, <1>4, <1>5

\* thread::park returns by itself.
LEMMA SpuriousWakeIInv ==
  ASSUME IInv, NEW c \in Cores, SpuriousWake(c)
  PROVE  IInv'
<1> USE CoresAssumption, BoundsAssumption DEF IInv, SpuriousWake, ReturnTo, mainVars, schedVars
<1>1. TypeOK'
  BY Zenon DEF TypeOK, Commands, Calls, MainStates, ThreadStates
<1>2. LoopInv'
  BY Zenon DEF TypeOK, LoopInv
<1>3. SendInv'
  BY DEF TypeOK, SendInv, Commands
<1>4. PhaseInv'
  BY DEF TypeOK, PhaseInv, SendInv, Running, AllRunning, AllExited, LoopInv
<1>5. ASSUME ~SpuriousWakeups PROVE HandshakeInv'
  BY Zenon, <1>5 DEF TypeOK, HandshakeInv, SendInv, PhaseInv, AllRunning, AllExited
<1> QED BY Zenon, <1>1, <1>2, <1>3, <1>4, <1>5

\* Before start_schedulers no thread exists and nothing was sent.
LEMMA InitIInv == Init => IInv
BY CoresAssumption, BoundsAssumption
DEF Init, IInv, TypeOK, LoopInv, SendInv, PhaseInv, HandshakeInv, Running,
    AllRunning, AllExited, Commands, Calls, MainStates, ThreadStates

\* IInv is an invariant, for any number of cores and tasks.
THEOREM InductiveInvariant == Spec => []IInv
<1>1. IInv /\ [Next]_vars => IInv'
  <2> SUFFICES ASSUME IInv, [Next]_vars PROVE IInv'
    BY Zenon
  <2>1. CASE ClientCall
    BY Zenon, <2>1, add_pipeline_to_runIInv, executeIInv, barrierIInv, stopIInv, waitIInv,
       add_pipeline_to_coreIInv DEF ClientCall
  <2>2. CASE MainStep
    BY Zenon, <2>2, StartedIInv, SentIInv, CollectedIInv, releaseIInv, ReleasedIInv, JoinedIInv,
       StartSchedulerIInv, OfferIInv, SendFailsIInv, CollectIInv, UnparkIInv, JoinIInv
    DEF MainStep
  <2>3. ASSUME NEW c \in Cores, ThreadStep(c) PROVE IInv'
    BY Zenon, <2>3, ThreadInitIInv, ReceiveIInv, PollEmptyIInv, RunTaskIInv, FinishTaskIInv,
       LeaveLoopIInv, ParkIInv, WakeIInv DEF ThreadStep
  <2>4. ASSUME NEW c \in Cores, SpuriousWake(c) PROVE IInv'
    BY <2>4, SpuriousWakeIInv
  <2>5. CASE UNCHANGED vars
    BY <2>5 DEF IInv, TypeOK, LoopInv, SendInv, PhaseInv, HandshakeInv, Running,
                AllRunning, AllExited, vars, mainVars, schedVars
  <2> QED BY Zenon, <2>1, <2>2, <2>3, <2>4, <2>5 DEF Next
<1> QED BY <1>1, InitIInv, PTL DEF Spec

\* Every call, command and scheduler field keeps its type.
THEOREM TypeCorrect == Spec => []TypeOK
<1>1. IInv => TypeOK
  BY Zenon DEF IInv
<1> QED BY <1>1, InductiveInvariant, PTL

\* run_q[next_task] never indexes out of range, spurious wakeups or not.
THEOREM TasksInRange == Spec => []TaskInRange
<1>1. IInv => TaskInRange
  <2> SUFFICES ASSUME IInv, NEW c \in Cores, status[c] = "run" PROVE next_task[c] < run_q[c]
    BY Zenon DEF TaskInRange
  <2>1. depth[c] > 0 /\ run_q[c] > 0
    BY Zenon DEF IInv, LoopInv
  <2>2. next_task[c] = 0 \/ next_task[c] < run_q[c]
    BY Zenon DEF IInv, LoopInv
  <2> QED BY Zenon, <2>1, <2>2
<1> QED BY <1>1, InductiveInvariant, PTL

\* No call on the context panics while the schedulers run.
THEOREM NoPanicBeforeStop == Spec => []PanicsOnlyAfterStop
<1>1. IInv => PanicsOnlyAfterStop
  BY Zenon DEF IInv, PhaseInv, AllExited, PanicsOnlyAfterStop
<1> QED BY <1>1, InductiveInvariant, PTL

\* When park returns only for an unpark, a held barrier pauses every scheduler.
THEOREM BarrierHolds ==
  ASSUME ~SpuriousWakeups
  PROVE  Spec => []BarrierPauses
<1>1. IInv => BarrierPauses
  BY Zenon DEF IInv, TypeOK, HandshakeInv, BarrierPauses
<1> QED BY <1>1, InductiveInvariant, PTL

\* Then, too, no unpark outlives the barrier it ends.
THEOREM TokensAreUsed ==
  ASSUME ~SpuriousWakeups
  PROVE  Spec => []TokenIsForThisBarrier
<1>1. IInv => TokenIsForThisBarrier
  <2> SUFFICES ASSUME IInv, NEW c \in Cores, token[c]
               PROVE  status[c] \in {"parking", "parked"} /\ main \notin {"collect", "held"}
    BY Zenon DEF TokenIsForThisBarrier
  <2>1. status[c] \in {"parking", "parked"}
    BY Zenon DEF IInv, HandshakeInv
  <2>2. ASSUME main \in {"collect", "held"} PROVE FALSE
    <3>1. c \in handles
      BY Zenon, <2>1, <2>2 DEF IInv, PhaseInv, AllRunning, AllExited
    <3> QED BY Zenon, <2>1, <2>2, <3>1 DEF IInv, HandshakeInv
  <2> QED BY Zenon, <2>1, <2>2
<1> QED BY <1>1, InductiveInvariant, PTL
=============================================================================
