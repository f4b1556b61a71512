----------------------- MODULE ThreadedWorkersProofs -----------------------
(***************************************************************************)
(* Theorems about ThreadedWorkers, for any number of workers and tasks and *)
(* each build of the wait condition.                                       *)
(***************************************************************************)
EXTENDS ThreadedWorkers, FiniteSetTheorems, TLAPS

(* Adding a worker to a set of workers adds one, removing one of its       *)
(* members takes one away, and no set of workers exceeds MaxWorkers.       *)
LEMMA WorkerSets ==
  ASSUME NEW S \in SUBSET Workers
  PROVE  /\ IsFiniteSet(S)
         /\ Cardinality(S) \in 0..MaxWorkers
         /\ \A w \in Workers : w \notin S => Cardinality(S \cup {w}) = Cardinality(S) + 1
         /\ \A w \in S : Cardinality(S \ {w}) = Cardinality(S) - 1
<1>1. IsFiniteSet(Workers) /\ Cardinality(Workers) = MaxWorkers
  BY FS_Interval, WorkersAssumption DEF Workers
<1>2. IsFiniteSet(S) /\ Cardinality(S) <= MaxWorkers
  BY <1>1, FS_Subset
<1>3. Cardinality(S) \in Nat
  BY <1>2, FS_CardinalityType
<1>4. \A w \in Workers : w \notin S => Cardinality(S \cup {w}) = Cardinality(S) + 1
  BY <1>2, FS_AddElement
<1>5. \A w \in S : Cardinality(S \ {w}) = Cardinality(S) - 1
  BY <1>2, FS_RemoveElement
<1> QED  BY <1>2, <1>3, <1>4, <1>5, WorkersAssumption

(* A step of the specification is a step of the pool: the build is fixed.  *)
LEMMA PoolStep == [Next /\ UNCHANGED build]_<<vars, build>> => [Next]_vars
  OBVIOUS

(* Nobody is idle before the first start.                                  *)
LEMMA CountedInit == Init => TypeOK /\ IdleCountExact
<1> SUFFICES ASSUME Init PROVE TypeOK /\ IdleCountExact
  OBVIOUS
<1>1. JobTypeOK
  <2>1. ownList \in [Workers -> Seq({"start", "exit"})]
    <3>1. <<>> \in Seq({"start", "exit"})
      OBVIOUS
    <3> QED  BY <3>1 DEF Init
  <2>2. taskList \in Seq(Tasks)
    BY DEF Init
  <2> QED  BY <2>1, <2>2, WorkersAssumption, BoundsAssumption DEF Init, JobTypeOK
<1>2. ThreadTypeOK
  BY DEF Init, ThreadTypeOK, Performers, WorkerStates
<1>7. FlagTypeOK
  BY DEF Init, FlagTypeOK
<1>3. CtlTypeOK
  BY DEF Init, CtlTypeOK, CtlStates, Callers
<1>4. HistoryTypeOK
  BY DEF Init, HistoryTypeOK, Outcomes
<1>5. Idle = {}
  BY DEF Init, Idle, IsIdle
<1>6. IdleCountExact
  BY <1>5, FS_EmptySet DEF Init, IdleCountExact
<1> QED  BY <1>1, <1>2, <1>3, <1>4, <1>6, <1>7 DEF TypeOK

(* Waking threads does not change who is idle: a woken worker counts until *)
(* it has the lock again.                                                  *)
LEMMA WakingKeepsIdle ==
  ASSUME ThreadTypeOK, pc' = pc \/ pc' = WakeAll(pc)
  PROVE  Idle' = Idle
BY DEF ThreadTypeOK, WakeAll, Idle, IsIdle

(* Steps in which no worker falls asleep or gives up its idle place.       *)
LEMMA IdleUnchanged ==
  ASSUME IdleCountExact, Idle' = Idle, idleWorkers' = idleWorkers
  PROVE  IdleCountExact'
BY DEF IdleCountExact

(* A worker that fetches something from either list leaves the idle ones   *)
(* if it was among them.                                                   *)
LEMMA FetchCounts ==
  ASSUME TypeOK, IdleCountExact, NEW w \in Workers, Fetchable(w),
         NEW next \in {"top", "exited", "working"},
         pc' = [pc EXCEPT ![w] = next], idleWorkers' = IdleAfterFetch(w)
  PROVE  IdleCountExact'
<1>1. CASE pc[w] = "woken"
  <2>1. Idle' = Idle \ {w} /\ w \in Idle
    BY <1>1 DEF TypeOK, ThreadTypeOK, Idle, IsIdle
  <2>2. Idle \in SUBSET Workers
    BY DEF Idle
  <2>3. Cardinality(Idle') = Cardinality(Idle) - 1
    BY <2>1, <2>2, WorkerSets
  <2> QED  BY <1>1, <2>3 DEF IdleCountExact, IdleAfterFetch
<1>2. CASE pc[w] = "top"
  <2>1. Idle' = Idle
    BY <1>2 DEF TypeOK, ThreadTypeOK, Idle, IsIdle
  <2> QED  BY <1>2, <2>1, IdleUnchanged DEF IdleAfterFetch
<1> QED  BY <1>1, <1>2 DEF Fetchable

(* The steps of a worker thread keep the count.                            *)
LEMMA WorkerCounts ==
  ASSUME TypeOK, IdleCountExact, NEW w \in Workers, WorkerStep(w) \/ SpuriousWorker(w)
  PROVE  IdleCountExact'
<1>1. CASE TakeStart(w)
  BY <1>1, FetchCounts DEF TakeStart
<1>2. CASE TakeExit(w)
  BY <1>2, FetchCounts DEF TakeExit
<1>3. CASE TakeTask(w)
  BY <1>3, FetchCounts DEF TakeTask
<1>4. CASE GoIdle(w)
  <2>1. Idle' = Idle \cup {w} /\ w \notin Idle
    BY <1>4 DEF GoIdle, TypeOK, ThreadTypeOK, Idle, IsIdle
  <2>2. Idle \in SUBSET Workers
    BY DEF Idle
  <2>3. Cardinality(Idle') = Cardinality(Idle) + 1
    BY <2>1, <2>2, WorkerSets
  <2> QED  BY <1>4, <2>3 DEF GoIdle, IdleCountExact
<1>5. CASE SleepAgain(w) \/ SeeFlag(w) \/ SpuriousWorker(w)
  <2>1. Idle' = Idle
    BY <1>5 DEF SleepAgain, SeeFlag, SpuriousWorker, TypeOK, ThreadTypeOK, Idle, IsIdle
  <2>2. idleWorkers' = idleWorkers
    BY <1>5 DEF SleepAgain, SeeFlag, SpuriousWorker, jobVars
  <2> QED  BY <2>1, <2>2, IdleUnchanged
<1>6. CASE Complete(w) \/ Fail(w) \/ Abort(w)
  <2>1. Idle' = Idle
    BY <1>6 DEF Complete, Fail, Abort, EndTask, TypeOK, ThreadTypeOK, Idle, IsIdle
  <2>2. idleWorkers' = idleWorkers
    BY <1>6 DEF Complete, Fail, Abort, EndTask
  <2> QED  BY <2>1, <2>2, IdleUnchanged
<1> QED  BY <1>1, <1>2, <1>3, <1>4, <1>5, <1>6 DEF WorkerStep

(* So do the steps of the controller, and the scheduling of tasks.  The    *)
(* two steps to look at create the threads and delete them.                *)
LEMMA ControllerCounts ==
  ASSUME TypeOK, IdleCountExact,
         \/ \E t \in Tasks : Schedule(t) \/ ScheduleRefused(t)
         \/ ControllerStep \/ ControllerCall \/ SpuriousController
  PROVE  IdleCountExact'
<1> USE DEF jobVars, threadVars
<1>1. ASSUME NEW t \in Tasks, Schedule(t) \/ ScheduleRefused(t) PROVE IdleCountExact'
  <2>1. pc' = pc \/ pc' = WakeAll(pc)
    BY <1>1 DEF Schedule, ScheduleRefused
  <2> QED  BY <1>1, <2>1, WakingKeepsIdle, IdleUnchanged DEF Schedule, ScheduleRefused, TypeOK
<1>2. CASE WaitCall \/ WaitReturn \/ WaitTimeout \/ StopAtOnce \/ StopFinish
           \/ SyncStart \/ SyncFetch \/ SyncPerform \/ SyncEnd \/ SpuriousController
  <2>1. pc' = pc /\ idleWorkers' = idleWorkers
    BY <1>2 DEF WaitCall, WaitReturn, WaitTimeout, StopAtOnce, StopFinish, SyncStart,
                SyncFetch, SyncPerform, SyncEnd, SpuriousController
  <2> QED  BY <2>1, WakingKeepsIdle, IdleUnchanged DEF TypeOK
<1>3. ASSUME NEW caller \in Callers, StopCall(caller) PROVE IdleCountExact'
  BY <1>3, WakingKeepsIdle, IdleUnchanged DEF StopCall, TypeOK
<1>4. ASSUME NEW result \in {"performed", "deleted"}, SyncHookThrows(result)
      PROVE  IdleCountExact'
  BY <1>4, WakingKeepsIdle, IdleUnchanged DEF SyncHookThrows, TypeOK
<1>5. CASE StopAndWait
  BY <1>5, WakingKeepsIdle, IdleUnchanged DEF StopAndWait, TypeOK
<1>6. CASE SendExits
  BY <1>6, WakingKeepsIdle, IdleUnchanged DEF SendExits, TypeOK
<1>7. CASE Start
  <2>1. Idle' = Idle
    <3>1. CASE Threads = {}
      <4>1. \A w \in Workers : pc[w] = "none"
        BY <3>1 DEF Threads
      <4>2. \A w \in Workers : pc'[w] \in {"top", "none"}
        BY <1>7, <3>1 DEF Start
      <4> QED  BY <4>1, <4>2 DEF Idle, IsIdle
    <3>2. CASE Threads # {}
      BY <1>7, <3>2, WakingKeepsIdle DEF Start, TypeOK
    <3> QED  BY <3>1, <3>2
  <2> QED  BY <1>7, <2>1, IdleUnchanged DEF Start
<1>8. CASE Join
  <2>1. \A w \in Workers : pc[w] \in {"none", "exited"}
    BY <1>8 DEF Join, Threads
  <2>2. Idle = {}
    BY <2>1 DEF Idle, IsIdle
  <2>3. Idle' = {}
    BY <1>8 DEF Join, Idle, IsIdle
  <2>4. idleWorkers' = idleWorkers \/ idleWorkers' = 0
    BY <1>8 DEF Join, SetNumWorkers
  <2> QED  BY <2>2, <2>3, <2>4, FS_EmptySet DEF IdleCountExact
<1> QED  BY <1>1, <1>2, <1>3, <1>4, <1>5, <1>6, <1>7, <1>8 DEF ControllerStep, ControllerCall

-----------------------------------------------------------------------------
(* Types, part by part.  The range of the idle count is the one part that  *)
(* follows from the count and not from the types of the state before.      *)

LEMMA JobTypeStep ==
  ASSUME TypeOK, [Next]_vars, idleWorkers' \in 0..MaxWorkers
  PROVE  JobTypeOK'
<1> USE WorkersAssumption, BoundsAssumption
<1>1. nworkers' \in 0..MaxWorkers
  <2>1. CASE Join
    BY <2>1 DEF Join, SetNumWorkers, TypeOK, JobTypeOK, CtlTypeOK, Callers
  <2>2. CASE ~Join /\ Next
    BY <2>2 DEF TypeOK, JobTypeOK, Next, WorkerStep, ControllerStep, ControllerCall, jobVars,
      threadVars, Schedule, ScheduleRefused, TakeStart, TakeExit, TakeTask, GoIdle, SleepAgain,
      SeeFlag, Complete, Fail, Abort, EndTask, SpuriousWorker, SpuriousController, WaitReturn,
      StopAndWait, StopAtOnce, StopFinish, SendExits, SyncFetch, SyncEnd, SyncPerform,
      SyncHookThrows, Start, SyncStart, WaitCall, WaitTimeout, StopCall
  <2> QED  BY <2>1, <2>2 DEF vars, jobVars, TypeOK, JobTypeOK
<1>2. taskList' \in Seq(Tasks)
  <2>1. taskList \in Seq(Tasks)
    BY DEF TypeOK, JobTypeOK
  <2>2. ASSUME NEW t \in Tasks, Schedule(t) PROVE taskList' \in Seq(Tasks)
    BY <2>1, <2>2 DEF Schedule, Put
  <2>3. ASSUME taskList # <<>>, taskList' = Tail(taskList) PROVE taskList' \in Seq(Tasks)
    BY <2>1, <2>3
  <2>4. ASSUME taskList' = <<>> PROVE taskList' \in Seq(Tasks)
    BY <2>4
  <2> QED
    BY <2>1, <2>2, <2>3, <2>4 DEF Next, WorkerStep, ControllerStep, ControllerCall, vars, jobVars,
      threadVars, ScheduleRefused, TakeStart, TakeExit, TakeTask, GoIdle, SleepAgain,
      SeeFlag, Complete, Fail, Abort, EndTask, SpuriousWorker, SpuriousController, WaitReturn,
      StopAndWait, StopAtOnce, StopFinish, SendExits, Join, SyncFetch, SyncEnd, SyncPerform,
      SyncHookThrows, Start, SyncStart, WaitCall, WaitTimeout, StopCall
<1>3. ownList' \in [Workers -> Seq({"start", "exit"})]
  <2>1. ownList \in [Workers -> Seq({"start", "exit"})]
    BY DEF TypeOK, JobTypeOK
  <2>2. \A L \in Seq({"start", "exit"}) :
          /\ L # <<>> => Tail(L) \in Seq({"start", "exit"})
          /\ <<"start">> \o L \in Seq({"start", "exit"})
          /\ Append(L, "exit") \in Seq({"start", "exit"})
    OBVIOUS
  <2>3. <<>> \in Seq({"start", "exit"})
    OBVIOUS
  <2>4. ASSUME NEW w \in Workers, ownList[w] # <<>>, ownList' = [ownList EXCEPT ![w] = Tail(@)]
        PROVE  ownList' \in [Workers -> Seq({"start", "exit"})]
    BY <2>1, <2>2, <2>4
  <2>5. CASE Start
    BY <2>1, <2>2, <2>3, <2>5 DEF Start
  <2>6. CASE SendExits
    BY <2>1, <2>2, <2>3, <2>6 DEF SendExits, AddExit
  <2>7. CASE Join
    BY <2>1, <2>3, <2>7 DEF Join, SetNumWorkers
  <2> QED
    BY <2>1, <2>4, <2>5, <2>6, <2>7 DEF Next, WorkerStep, ControllerStep, ControllerCall, vars,
      jobVars, threadVars, Schedule, ScheduleRefused, TakeStart, TakeExit, TakeTask, GoIdle,
      SleepAgain, SeeFlag, Complete, Fail, Abort, EndTask, SpuriousWorker, SpuriousController,
      WaitReturn, StopAndWait, StopAtOnce, StopFinish, SyncFetch, SyncEnd, SyncPerform,
      SyncHookThrows, SyncStart, WaitCall, WaitTimeout, StopCall
<1>4. errors' \in 0..(MaxErrors + 1)
  <2>1. errors \in 0..(MaxErrors + 1) /\ LogError \in 0..(MaxErrors + 1)
    BY DEF TypeOK, JobTypeOK, LogError
  <2>2. errors' \in {errors, LogError, 0}
    BY DEF Next, WorkerStep, ControllerStep, ControllerCall, vars,
      jobVars, threadVars, Schedule, ScheduleRefused, TakeStart, TakeExit, TakeTask, GoIdle,
      SleepAgain, SeeFlag, Complete, Fail, Abort, EndTask, SpuriousWorker, SpuriousController,
      WaitReturn, StopAndWait, StopAtOnce, StopFinish, SendExits, Join, SyncFetch, SyncEnd,
      SyncPerform, SyncHookThrows, Start, SyncStart, WaitCall, WaitTimeout, StopCall
  <2> QED  BY <2>1, <2>2
<1> QED  BY <1>1, <1>2, <1>3, <1>4 DEF JobTypeOK

LEMMA ThreadTypeStep ==
  ASSUME TypeOK, [Next]_vars
  PROVE  ThreadTypeOK'
<1>0. ThreadTypeOK /\ taskList \in Seq(Tasks)
  BY DEF TypeOK, JobTypeOK
<1>1. stopRequested' \in [Workers -> BOOLEAN]
  <2>1. stopRequested \in [Workers -> BOOLEAN]
    BY <1>0 DEF ThreadTypeOK
  <2>2. CASE StopAndWait \/ SendExits \/ Start \/ Join
    <3>1. \/ stopRequested' = [w \in Workers |-> stopRequested[w] \/ (w \in Threads /\ ~IsIdle(w))]
          \/ stopRequested' = [w \in Workers |-> stopRequested[w] \/ w \in Threads]
          \/ stopRequested' = [w \in Workers |-> FALSE]
      BY <2>2, Zenon DEF StopAndWait, SendExits, Start, ResetStopRequests, Join
    <3>2. [w \in Workers |-> stopRequested[w] \/ (w \in Threads /\ ~IsIdle(w))]
            \in [Workers -> BOOLEAN]
      <4>1. \A w \in Workers : (stopRequested[w] \/ (w \in Threads /\ ~IsIdle(w))) \in BOOLEAN
        BY Zenon
      <4> QED  BY <4>1, SMT
    <3>3. [w \in Workers |-> stopRequested[w] \/ w \in Threads] \in [Workers -> BOOLEAN]
      <4>1. \A w \in Workers : (stopRequested[w] \/ w \in Threads) \in BOOLEAN
        BY Zenon
      <4> QED  BY <4>1, SMT
    <3>4. [w \in Workers |-> FALSE] \in [Workers -> BOOLEAN]
      BY SMT
    <3> QED  BY <3>1, <3>2, <3>3, <3>4, Zenon
  <2>3. stopRequested' = stopRequested \/ StopAndWait \/ SendExits \/ Start \/ Join
    BY DEF Next, WorkerStep, ControllerStep, ControllerCall, vars, threadVars, Schedule,
      ScheduleRefused, TakeStart, TakeExit, TakeTask, GoIdle, SleepAgain, SeeFlag, Complete,
      Fail, Abort, EndTask, SpuriousWorker, SpuriousController, WaitReturn, StopAtOnce,
      StopFinish, SyncFetch, SyncEnd, SyncPerform, SyncHookThrows, SyncStart, WaitCall,
      WaitTimeout, StopCall
  <2> QED  BY <2>1, <2>2, <2>3
<1>2. pc' \in [Workers -> WorkerStates]
  <2>1. pc \in [Workers -> WorkerStates] /\ WakeAll(pc) \in [Workers -> WorkerStates]
    BY <1>0 DEF ThreadTypeOK, WakeAll, WorkerStates
  <2>2. \A w \in Workers : \A s \in WorkerStates : [pc EXCEPT ![w] = s] \in [Workers -> WorkerStates]
    BY <2>1
  <2>3. CASE Start
    BY <2>1, <2>3 DEF Start, WorkerStates
  <2>4. CASE Join
    BY <2>4 DEF Join, WorkerStates
  <2> QED
    BY <2>1, <2>2, <2>3, <2>4 DEF WorkerStates, Next, WorkerStep, ControllerStep, ControllerCall,
      vars, threadVars, Schedule, ScheduleRefused, TakeStart, TakeExit, TakeTask, GoIdle,
      SleepAgain, SeeFlag, Complete, Fail, Abort, EndTask, SpuriousWorker, SpuriousController,
      WaitReturn, StopAndWait, StopAtOnce, StopFinish, SendExits, SyncFetch, SyncEnd,
      SyncPerform, SyncHookThrows, SyncStart, WaitCall, WaitTimeout, StopCall
<1>3. current' \in [Performers -> Tasks \cup {NoTask}]
  <2>1. current \in [Performers -> Tasks \cup {NoTask}]
    BY <1>0 DEF ThreadTypeOK
  <2>2. taskList # <<>> => Head(taskList) \in Tasks
    BY <1>0
  <2>3. \A w \in Performers : \A t \in Tasks \cup {NoTask} :
          [current EXCEPT ![w] = t] \in [Performers -> Tasks \cup {NoTask}]
    BY <2>1
  <2> QED
    BY <2>1, <2>2, <2>3 DEF Performers, Next, WorkerStep, ControllerStep, ControllerCall,
      vars, threadVars, Schedule, ScheduleRefused, TakeStart, TakeExit, TakeTask, GoIdle,
      SleepAgain, SeeFlag, Complete, Fail, Abort, EndTask, SpuriousWorker, SpuriousController,
      WaitReturn, StopAndWait, StopAtOnce, StopFinish, SendExits, Join, SyncFetch, SyncEnd,
      SyncPerform, SyncHookThrows, Start, SyncStart, WaitCall, WaitTimeout, StopCall
<1> QED  BY <1>1, <1>2, <1>3 DEF ThreadTypeOK

LEMMA FlagTypeStep ==
  ASSUME TypeOK, [Next]_vars
  PROVE  FlagTypeOK'
<1>1. FlagTypeOK
  BY DEF TypeOK
<1>2. stopping' \in {stopping, TRUE, FALSE} /\ running' \in {running, TRUE, FALSE}
  BY DEF Next, WorkerStep, ControllerStep, ControllerCall, vars, jobVars, threadVars, Schedule,
    ScheduleRefused, TakeStart, TakeExit, TakeTask, GoIdle, SleepAgain, SeeFlag, Complete,
    Fail, Abort, EndTask, SpuriousWorker, SpuriousController, WaitReturn, StopAndWait,
    StopAtOnce, StopFinish, SendExits, Join, SyncFetch, SyncEnd, SyncPerform, SyncHookThrows,
    Start, SyncStart, WaitCall, WaitTimeout, StopCall
<1>3. flag' \in {flag, FALSE, build = "cpp20"}
  BY DEF RaiseFlag, Next, WorkerStep, ControllerStep, ControllerCall, vars, threadVars, Schedule,
    ScheduleRefused, TakeStart, TakeExit, TakeTask, GoIdle, SleepAgain, SeeFlag, Complete,
    Fail, Abort, EndTask, SpuriousWorker, SpuriousController, WaitReturn, StopAndWait,
    StopAtOnce, StopFinish, SendExits, Join, SyncFetch, SyncEnd, SyncPerform, SyncHookThrows,
    Start, SyncStart, WaitCall, WaitTimeout, StopCall
<1> QED  BY <1>1, <1>2, <1>3 DEF FlagTypeOK

LEMMA CtlTypeStep ==
  ASSUME TypeOK, [Next]_vars
  PROVE  CtlTypeOK'
<1>1. CtlTypeOK
  BY DEF TypeOK
<1>2. [op |-> "stop"] \in Callers
  BY DEF Callers
<1>3. after' \in Callers
  BY <1>1, <1>2 DEF CtlTypeOK, Next, WorkerStep, ControllerStep, ControllerCall, vars, ctlVars,
    Schedule, ScheduleRefused, TakeStart, TakeExit, TakeTask, GoIdle, SleepAgain, SeeFlag,
    Complete, Fail, Abort, EndTask, SpuriousWorker, SpuriousController, WaitReturn, StopAndWait,
    StopAtOnce, StopFinish, SendExits, Join, SyncFetch, SyncEnd, SyncPerform, SyncHookThrows,
    Start, SyncStart, WaitCall, WaitTimeout, StopCall
<1>4. ctl' \in CtlStates
  BY <1>1 DEF CtlTypeOK, CtlStates, WakeController, AfterStop, Next, WorkerStep, ControllerStep,
    ControllerCall, vars, ctlVars, Schedule, ScheduleRefused, TakeStart, TakeExit, TakeTask,
    GoIdle, SleepAgain, SeeFlag, Complete, Fail, Abort, EndTask, SpuriousWorker,
    SpuriousController, WaitReturn, StopAndWait, StopAtOnce, StopFinish, SendExits, Join,
    SyncFetch, SyncEnd, SyncPerform, SyncHookThrows, Start, SyncStart, WaitCall, WaitTimeout,
    StopCall
<1> QED  BY <1>3, <1>4 DEF CtlTypeOK

LEMMA HistoryTypeStep ==
  ASSUME TypeOK, [Next]_vars
  PROVE  HistoryTypeOK'
<1>1. HistoryTypeOK
  BY DEF TypeOK
<1>2. outcome' \in [Tasks -> Outcomes]
  <2>1. outcome \in [Tasks -> Outcomes] /\ DeleteQueued \in [Tasks -> Outcomes]
    BY <1>1 DEF HistoryTypeOK, DeleteQueued, Outcomes
  <2>2. \A f \in [Tasks -> Outcomes], x, y \in Outcomes : [f EXCEPT ![x] = y] \in [Tasks -> Outcomes]
    OBVIOUS
  <2>3. ASSUME NEW x, NEW y \in Outcomes, outcome' = [outcome EXCEPT ![x] = y]
        PROVE  outcome' \in [Tasks -> Outcomes]
    BY <2>1, <2>3
  <2>4. ASSUME NEW x, NEW y \in Outcomes, outcome' = [DeleteQueued EXCEPT ![x] = y]
        PROVE  outcome' \in [Tasks -> Outcomes]
    BY <2>1, <2>4
  <2>5. ASSUME NEW w \in Workers, NEW y \in Outcomes, EndTask(w, y)
        PROVE  outcome' \in [Tasks -> Outcomes]
    BY <2>3, <2>5 DEF EndTask
  <2> QED
    BY <2>1, <2>3, <2>4, <2>5 DEF Outcomes, Next, WorkerStep, ControllerStep, ControllerCall, vars,
      history, Schedule, ScheduleRefused, TakeStart, TakeExit, TakeTask, GoIdle, SleepAgain,
      SeeFlag, Complete, Fail, Abort, SpuriousWorker, SpuriousController, WaitReturn,
      StopAndWait, StopAtOnce, StopFinish, SendExits, Join, SyncFetch, SyncEnd, SyncPerform,
      SyncHookThrows, Start, SyncStart, WaitCall, WaitTimeout, StopCall
<1>3. finishedCalls' \in Nat
  BY <1>1 DEF HistoryTypeOK, Next, WorkerStep, ControllerStep, ControllerCall, vars,
    history, Schedule, ScheduleRefused, TakeStart, TakeExit, TakeTask, GoIdle, SleepAgain,
    SeeFlag, Complete, Fail, Abort, EndTask, SpuriousWorker, SpuriousController, WaitReturn,
    StopAndWait, StopAtOnce, StopFinish, SendExits, Join, SyncFetch, SyncEnd, SyncPerform,
    SyncHookThrows, Start, SyncStart, WaitCall, WaitTimeout, StopCall
<1> QED  BY <1>2, <1>3 DEF HistoryTypeOK

(* The types and the idle count together are an inductive invariant.       *)
LEMMA CountedStep ==
  TypeOK /\ IdleCountExact /\ [Next]_vars => TypeOK' /\ IdleCountExact'
<1> SUFFICES ASSUME TypeOK, IdleCountExact, [Next]_vars
             PROVE  TypeOK' /\ IdleCountExact'
  OBVIOUS
<1>1. IdleCountExact'
  <2>1. CASE vars' = vars
    BY <2>1, WakingKeepsIdle, IdleUnchanged DEF vars, jobVars, threadVars, TypeOK
  <2>2. CASE Next
    BY <2>2, WorkerCounts, ControllerCounts DEF Next
  <2> QED  BY <2>1, <2>2
<1>2. idleWorkers' \in 0..MaxWorkers
  <2>1. Idle' \in SUBSET Workers
    BY DEF Idle
  <2> QED  BY <1>1, <2>1, WorkerSets DEF IdleCountExact
<1> QED
  BY <1>1, <1>2, JobTypeStep, ThreadTypeStep, FlagTypeStep, CtlTypeStep, HistoryTypeStep DEF TypeOK

(* The range of every variable, for any number of workers and tasks.       *)
THEOREM TypeCorrect == Spec => []TypeOK
<1>1. Spec => [](TypeOK /\ IdleCountExact)
  BY CountedInit, CountedStep, PoolStep, PTL DEF Spec
<1> QED  BY <1>1, PTL

(* m_idle_workers counts the workers in the wait of get_task (JobBase::    *)
(* get_task, 489 to 512), whatever starts, stops and resizes there were.   *)
THEOREM IdleCountCorrect == Spec => []IdleCountExact
<1>1. Spec => [](TypeOK /\ IdleCountExact)
  BY CountedInit, CountedStep, PoolStep, PTL DEF Spec
<1> QED  BY <1>1, PTL

-----------------------------------------------------------------------------
(* Who performs what.                                                      *)

LEMMA FitInit == Init => WorkersFit
BY WorkersAssumption DEF Init, WorkersFit, Workers, Performers, SyncWorker, NoTask, Threads

LEMMA FitStep == TypeOK /\ WorkersFit /\ [Next]_vars => WorkersFit'
<1> SUFFICES ASSUME TypeOK, WorkersFit, [Next]_vars PROVE WorkersFit'
  OBVIOUS
<1>1. /\ pc \in [Workers -> WorkerStates] /\ current \in [Performers -> Tasks \cup {NoTask}]
      /\ taskList \in Seq(Tasks)
  BY DEF TypeOK, ThreadTypeOK, JobTypeOK
<1>2. taskList # <<>> => Head(taskList) \in Tasks /\ Head(taskList) # NoTask
  <2>1. taskList # <<>> => Head(taskList) \in Tasks
    BY <1>1
  <2>2. NoTask \notin Tasks
    BY DEF Tasks, NoTask
  <2> QED  BY <2>1, <2>2
<1>3. SyncWorker \in Performers /\ SyncWorker \notin Workers /\ Workers \subseteq Performers
  BY DEF SyncWorker, Performers, Workers
<1>4. \A w \in Workers : /\ WakeAll(pc)[w] = "none" <=> pc[w] = "none"
                         /\ WakeAll(pc)[w] = "working" <=> pc[w] = "working"
  BY <1>1 DEF WakeAll
<1>5. \A w \in Performers : current[w] # NoTask <=> IF w = SyncWorker THEN ctl = "syncTask"
                                                    ELSE pc[w] = "working"
  BY DEF WorkersFit, Performers
<1>6. /\ (\A w \in Workers : (current'[w] # NoTask) <=> (pc'[w] = "working"))
      /\ (current'[SyncWorker] # NoTask) <=> (ctl' = "syncTask")
  <2> USE DEF vars, jobVars, threadVars, ctlVars, WakeController, AfterStop
  <2>1. CASE UNCHANGED vars
    BY <2>1 DEF WorkersFit
  <2>2. ASSUME NEW t \in Tasks, Schedule(t) \/ ScheduleRefused(t) PROVE <1>6!1 /\ <1>6!2
    BY <1>4, <2>2 DEF Schedule, ScheduleRefused, WorkersFit
  <2>3. ASSUME NEW w \in Workers, WorkerStep(w) \/ SpuriousWorker(w) PROVE <1>6!1 /\ <1>6!2
    BY <1>1, <1>2, <1>3, <2>3
    DEF WorkerStep, WorkersFit, TakeStart, TakeExit, TakeTask, GoIdle, SleepAgain, SeeFlag,
        Complete, Fail, Abort, EndTask, SpuriousWorker, Fetchable
  <2>4. CASE ControllerStep \/ ControllerCall \/ SpuriousController
    <3>1. CASE Start
      BY <1>1, <1>4, <3>1 DEF Start, WorkersFit, Threads
    <3>2. CASE Join
      BY <3>2 DEF Join, WorkersFit, Threads
    <3>3. CASE SyncFetch
      BY <1>1, <1>2, <1>3, <3>3 DEF SyncFetch, WorkersFit
    <3>4. CASE StopAndWait \/ SendExits
      BY <1>4, <3>4 DEF StopAndWait, SendExits, WorkersFit
    <3>5. CASE SyncPerform \/ \E result \in {"performed", "deleted"} : SyncHookThrows(result)
      BY <1>1, <1>3, <3>5 DEF SyncPerform, SyncHookThrows, WorkersFit
    <3>6. CASE WaitReturn \/ StopAtOnce \/ StopFinish \/ SyncEnd
      BY <3>6 DEF WaitReturn, StopAtOnce, StopFinish, SyncEnd, WorkersFit
    <3>7. CASE SyncStart \/ WaitCall \/ WaitTimeout \/ SpuriousController
               \/ \E caller \in Callers : StopCall(caller)
      BY <3>7 DEF SyncStart, WaitCall, WaitTimeout, SpuriousController, StopCall, WorkersFit
    <3> QED  BY <2>4, <3>1, <3>2, <3>3, <3>4, <3>5, <3>6, <3>7 DEF ControllerStep, ControllerCall
  <2> QED  BY <2>1, <2>2, <2>3, <2>4 DEF Next
<1>7. /\ \A w \in Workers : pc'[w] # "none" => w <= nworkers'
      /\ ctl' \in {"sync", "syncTask"} => nworkers' = 0
  <2> USE DEF vars, jobVars, threadVars, ctlVars, WakeController, AfterStop, Threads
  <2>1. CASE UNCHANGED vars
    BY <2>1 DEF WorkersFit
  <2>2. ASSUME NEW t \in Tasks, Schedule(t) \/ ScheduleRefused(t) PROVE <1>7!1 /\ <1>7!2
    BY <1>4, <2>2 DEF Schedule, ScheduleRefused, WorkersFit
  <2>3. ASSUME NEW w \in Workers, WorkerStep(w) \/ SpuriousWorker(w) PROVE <1>7!1 /\ <1>7!2
    BY <1>1, <2>3
    DEF WorkerStep, WorkersFit, TakeStart, TakeExit, TakeTask, GoIdle, SleepAgain, SeeFlag,
        Complete, Fail, Abort, EndTask, SpuriousWorker, Fetchable
  <2>4. CASE ControllerStep \/ ControllerCall \/ SpuriousController
    <3>1. CASE Start
      BY <1>1, <1>4, <3>1 DEF Start, WorkersFit
    <3>2. CASE Join
      BY <3>2 DEF Join
    <3>3. CASE StopAndWait \/ SendExits
      BY <1>4, <3>3 DEF StopAndWait, SendExits, WorkersFit
    <3>4. CASE SyncFetch \/ SyncPerform \/ \E result \in {"performed", "deleted"} : SyncHookThrows(result)
      BY <3>4 DEF SyncFetch, SyncPerform, SyncHookThrows, WorkersFit
    <3>5. CASE WaitReturn \/ StopAtOnce \/ StopFinish \/ SyncEnd
      BY <3>5 DEF WaitReturn, StopAtOnce, StopFinish, SyncEnd, WorkersFit
    <3>6. CASE SyncStart \/ WaitCall \/ WaitTimeout \/ SpuriousController
               \/ \E caller \in Callers : StopCall(caller)
      BY <3>6 DEF SyncStart, WaitCall, WaitTimeout, SpuriousController, StopCall, WorkersFit
    <3> QED  BY <2>4, <3>1, <3>2, <3>3, <3>4, <3>5, <3>6 DEF ControllerStep, ControllerCall
  <2> QED  BY <2>1, <2>2, <2>3, <2>4 DEF Next
<1> QED  BY <1>6, <1>7 DEF WorkersFit, Threads

-----------------------------------------------------------------------------
(* What happens to tasks.  Every step of the pool is one of six moves of   *)
(* tasks or leaves them alone; each move conserves the tasks and is a step *)
(* of JobContract.                                                         *)

Still == UNCHANGED <<taskList, current, outcome>>
Accepted(t) == /\ IsNext(t)
               /\ taskList' = Append(taskList, t)
               /\ outcome' = [outcome EXCEPT ![t] = "queued"]
               /\ UNCHANGED current
Refused(t) == /\ IsNext(t)
              /\ outcome' = [outcome EXCEPT ![t] = "deleted"]
              /\ UNCHANGED <<taskList, current>>
Taken(p) == /\ taskList # <<>> /\ current[p] = NoTask
            /\ taskList' = Tail(taskList)
            /\ current' = [current EXCEPT ![p] = Head(taskList)]
            /\ outcome' = [outcome EXCEPT ![Head(taskList)] = "active"]
Ended(p, result) == /\ current[p] # NoTask
                    /\ current' = [current EXCEPT ![p] = NoTask]
                    /\ outcome' = [outcome EXCEPT ![current[p]] = result]
                    /\ UNCHANGED taskList
Flushed == taskList' = <<>> /\ outcome' = DeleteQueued /\ UNCHANGED current
EndedAndFlushed(p, result) ==
  /\ current[p] # NoTask
  /\ taskList' = <<>>
  /\ current' = [current EXCEPT ![p] = NoTask]
  /\ outcome' = [DeleteQueued EXCEPT ![current[p]] = result]

Results == {"performed", "aborted", "deleted"}

Move ==
  \/ Still \/ Flushed
  \/ \E t \in Tasks : Accepted(t) \/ Refused(t)
  \/ \E p \in Performers : Taken(p)
  \/ \E p \in Performers, result \in Results : Ended(p, result) \/ EndedAndFlushed(p, result)

LEMMA StepIsMove ==
  ASSUME TypeOK, WorkersFit, [Next]_vars
  PROVE  Move
<1>1. SyncWorker \in Performers /\ Workers \subseteq Performers
  BY DEF SyncWorker, Performers
<1>2. CASE UNCHANGED vars
  BY <1>2 DEF vars, jobVars, threadVars, history, Move, Still
<1>3. ASSUME NEW t \in Tasks, Schedule(t) \/ ScheduleRefused(t) PROVE Move
  BY <1>3 DEF Schedule, ScheduleRefused, Put, Move, Accepted, Refused, jobVars, threadVars
<1>4. ASSUME NEW w \in Workers, WorkerStep(w) \/ SpuriousWorker(w) PROVE Move
  <2>1. CASE TakeTask(w)
    <3>1. Taken(w)
      BY <2>1 DEF TakeTask, Taken, Fetchable, WorkersFit
    <3> QED  BY <1>1, <3>1 DEF Move
  <2>2. CASE Complete(w) \/ Fail(w) \/ Abort(w)
    <3>1. PICK result \in Results : Ended(w, result)
      BY <2>2 DEF Complete, Fail, Abort, EndTask, Ended, Results, WorkersFit
    <3> QED  BY <1>1, <3>1 DEF Move
  <2>3. CASE TakeStart(w) \/ TakeExit(w) \/ GoIdle(w) \/ SleepAgain(w) \/ SeeFlag(w)
             \/ SpuriousWorker(w)
    BY <2>3 DEF TakeStart, TakeExit, GoIdle, SleepAgain, SeeFlag, SpuriousWorker, Move, Still,
                jobVars, history
  <2> QED  BY <1>4, <2>1, <2>2, <2>3 DEF WorkerStep
<1>5. CASE ControllerStep \/ ControllerCall \/ SpuriousController
  <2>1. CASE SyncFetch
    <3>1. Taken(SyncWorker)
      BY <2>1 DEF SyncFetch, Taken, WorkersFit
    <3> QED  BY <1>1, <3>1 DEF Move
  <2>2. CASE SyncPerform
    <3>1. Ended(SyncWorker, "performed")
      BY <2>2 DEF SyncPerform, Ended, WorkersFit
    <3> QED  BY <1>1, <3>1 DEF Move, Results
  <2>3. ASSUME NEW result \in {"performed", "deleted"}, SyncHookThrows(result) PROVE Move
    <3>1. EndedAndFlushed(SyncWorker, result)
      BY <2>3 DEF SyncHookThrows, EndedAndFlushed, WorkersFit
    <3> QED  BY <1>1, <3>1 DEF Move, Results
  <2>4. CASE StopAndWait \/ StopAtOnce
    BY <2>4 DEF StopAndWait, StopAtOnce, Move, Flushed, threadVars
  <2>5. CASE Start \/ Join \/ SendExits \/ StopFinish \/ SyncEnd \/ WaitReturn
    BY <2>5 DEF Start, Join, SendExits, StopFinish, SyncEnd, WaitReturn, Move, Still, jobVars,
                threadVars, history
  <2>6. CASE SyncStart \/ WaitCall \/ WaitTimeout \/ SpuriousController
             \/ \E caller \in Callers : StopCall(caller)
    BY <2>6 DEF SyncStart, WaitCall, WaitTimeout, SpuriousController, StopCall, Move, Still,
                jobVars, threadVars, history
  <2> QED  BY <1>5, <2>1, <2>2, <2>3, <2>4, <2>5, <2>6 DEF ControllerStep, ControllerCall
<1> QED  BY <1>2, <1>3, <1>4, <1>5 DEF Next

LEMMA ConservedInit == Init => TasksConserved
BY DEF Init, TasksConserved, QueueInOrder, QueuedInList, ActivePerformed, OnePerformer,
       BornInOrder, Performing, NoTask, Tasks, Performers, SyncWorker, Workers

LEMMA ConservedStep ==
  ASSUME TypeOK, TasksConserved, Move
  PROVE  TasksConserved'
<1>1. /\ taskList \in Seq(Tasks) /\ outcome \in [Tasks -> Outcomes]
      /\ current \in [Performers -> Tasks \cup {NoTask}]
      /\ Tasks \subseteq Nat /\ NoTask \notin Tasks
  BY DEF TypeOK, JobTypeOK, ThreadTypeOK, HistoryTypeOK, Tasks, NoTask
<1>2. QueueInOrder /\ QueuedInList /\ ActivePerformed /\ OnePerformer /\ BornInOrder
  BY DEF TasksConserved
<1>3. \A i \in 1..Len(taskList) : taskList[i] \in Tasks /\ outcome[taskList[i]] = "queued"
  <2> TAKE i \in 1..Len(taskList)
  <2>1. taskList[i] \in Tasks
    BY <1>1
  <2> QED  BY <1>2, <2>1 DEF QueuedInList
<1>4. \A p \in Performing : current[p] \in Tasks /\ outcome[current[p]] = "active"
  BY <1>1, <1>2 DEF ActivePerformed, Performing
<1>5. CASE Still
  BY <1>2, <1>5 DEF Still, TasksConserved, QueueInOrder, QueuedInList, ActivePerformed,
                    OnePerformer, BornInOrder, Performing
<1>6. ASSUME NEW t \in Tasks, Accepted(t) PROVE TasksConserved'
  <2>1. /\ Len(taskList') = Len(taskList) + 1 /\ taskList'[Len(taskList) + 1] = t
        /\ \A i \in 1..Len(taskList) : taskList'[i] = taskList[i]
    BY <1>1, <1>6 DEF Accepted
  <2>2. \A i \in 1..Len(taskList) : taskList[i] < t
    <3>1. \A u \in Tasks : u > t => outcome[u] = "unborn"
      BY <1>2, <1>6 DEF BornInOrder, Accepted, IsNext
    <3>2. \A i \in 1..Len(taskList) : taskList[i] # t /\ ~(taskList[i] > t)
      BY <1>3, <1>6, <3>1 DEF Accepted, IsNext
    <3> QED  BY <1>1, <1>3, <3>2
  <2>3. QueueInOrder'
    BY <1>1, <1>2, <2>1, <2>2 DEF QueueInOrder
  <2>4. \A u \in Tasks : outcome'[u] = IF u = t THEN "queued" ELSE outcome[u]
    BY <1>1, <1>6 DEF Accepted
  <2>5. QueuedInList'
    BY <1>1, <1>2, <2>1, <2>4 DEF QueuedInList
  <2>6. ActivePerformed' /\ OnePerformer'
    BY <1>1, <1>2, <1>6, <2>4 DEF ActivePerformed, OnePerformer, Performing, Accepted, IsNext
  <2>7. BornInOrder'
    BY <1>1, <1>2, <1>6, <2>4 DEF BornInOrder, Accepted, IsNext, Tasks
  <2> QED  BY <2>3, <2>5, <2>6, <2>7 DEF TasksConserved
<1>7. ASSUME NEW t \in Tasks, Refused(t) PROVE TasksConserved'
  <2>1. \A u \in Tasks : outcome'[u] = IF u = t THEN "deleted" ELSE outcome[u]
    BY <1>1, <1>7 DEF Refused
  <2>2. QueueInOrder' /\ QueuedInList'
    BY <1>1, <1>2, <1>7, <2>1 DEF QueueInOrder, QueuedInList, Refused, IsNext
  <2>3. ActivePerformed' /\ OnePerformer'
    BY <1>1, <1>2, <1>7, <2>1 DEF ActivePerformed, OnePerformer, Performing, Refused, IsNext
  <2>4. BornInOrder'
    BY <1>1, <1>2, <1>7, <2>1 DEF BornInOrder, Refused, IsNext, Tasks
  <2> QED  BY <2>2, <2>3, <2>4 DEF TasksConserved
<1>8. ASSUME NEW p \in Performers, Taken(p) PROVE TasksConserved'
  <2> DEFINE h == Head(taskList)
  <2>1. /\ Len(taskList) \in Nat \ {0} /\ h = taskList[1] /\ Len(taskList') = Len(taskList) - 1
        /\ \A i \in 1..Len(taskList') : taskList'[i] = taskList[i + 1]
    BY <1>1, <1>8 DEF Taken
  <2>2. h \in Tasks /\ outcome[h] = "queued"
    BY <1>3, <2>1
  <2>3. /\ \A u \in Tasks : outcome'[u] = IF u = h THEN "active" ELSE outcome[u]
        /\ \A v \in Performers : current'[v] = IF v = p THEN h ELSE current[v]
    BY <1>1, <1>8, <2>2 DEF Taken
  <2>4. QueueInOrder'
    BY <1>1, <1>2, <2>1 DEF QueueInOrder
  <2>5. QueuedInList'
    <3>1. ASSUME NEW u \in Tasks, u # h, NEW i \in 1..Len(taskList), taskList[i] = u
          PROVE  \E j \in 1..Len(taskList') : taskList'[j] = u
      <4>1. i # 1
        BY <2>1, <3>1
      <4>2. i - 1 \in 1..Len(taskList') /\ taskList'[i - 1] = u
        BY <2>1, <3>1, <4>1
      <4> QED  BY <4>2
    <3>2. \A j \in 1..Len(taskList') : taskList'[j] # h /\ outcome[taskList'[j]] = "queued"
      <4> TAKE j \in 1..Len(taskList')
      <4>1. j + 1 \in 1..Len(taskList) /\ 1 \in 1..Len(taskList) /\ 1 < j + 1
        BY <2>1
      <4>2. taskList[1] < taskList[j + 1] /\ taskList'[j] = taskList[j + 1]
        BY <1>2, <2>1, <4>1 DEF QueueInOrder
      <4>3. taskList[j + 1] \in Nat /\ taskList[1] \in Nat
        BY <1>1, <1>3, <4>1
      <4> QED  BY <1>3, <2>1, <4>1, <4>2, <4>3
    <3> QED  BY <1>2, <2>2, <2>3, <3>1, <3>2 DEF QueuedInList
  <2>6. ActivePerformed'
    BY <1>2, <1>8, <2>2, <2>3, <1>1 DEF ActivePerformed, Taken
  <2>7. OnePerformer'
    BY <1>1, <1>2, <1>4, <2>2, <2>3 DEF OnePerformer, Performing
  <2>8. BornInOrder'
    BY <1>2, <2>2, <2>3 DEF BornInOrder
  <2> QED  BY <2>4, <2>5, <2>6, <2>7, <2>8 DEF TasksConserved
<1>9. ASSUME NEW p \in Performers, NEW result \in Results, Ended(p, result)
      PROVE  TasksConserved'
  <2> DEFINE c == current[p]
  <2>1. c \in Tasks /\ outcome[c] = "active" /\ p \in Performing
    BY <1>4, <1>9 DEF Ended, Performing
  <2>2. /\ \A u \in Tasks : outcome'[u] = IF u = c THEN result ELSE outcome[u]
        /\ \A v \in Performers : current'[v] = IF v = p THEN NoTask ELSE current[v]
    BY <1>1, <1>9, <2>1 DEF Ended
  <2>3. result \notin {"queued", "active", "unborn"}
    BY DEF Results
  <2>4. QueueInOrder' /\ QueuedInList'
    BY <1>2, <1>9, <2>1, <2>2, <2>3 DEF QueueInOrder, QueuedInList, Ended
  <2>5. ActivePerformed' /\ OnePerformer'
    BY <1>1, <1>2, <2>1, <2>2, <2>3 DEF ActivePerformed, OnePerformer, Performing
  <2>6. BornInOrder'
    BY <1>2, <2>1, <2>2, <2>3 DEF BornInOrder
  <2> QED  BY <2>4, <2>5, <2>6 DEF TasksConserved
<1>10. CASE Flushed
  <2>1. \A u \in Tasks : outcome'[u] = IF outcome[u] = "queued" THEN "deleted" ELSE outcome[u]
    BY <1>10 DEF Flushed, DeleteQueued
  <2> QED
    BY <1>2, <1>10, <2>1 DEF Flushed, TasksConserved, QueueInOrder, QueuedInList,
      ActivePerformed, OnePerformer, BornInOrder, Performing
<1>11. ASSUME NEW p \in Performers, NEW result \in Results, EndedAndFlushed(p, result)
       PROVE  TasksConserved'
  <2> DEFINE c == current[p]
  <2>1. c \in Tasks /\ outcome[c] = "active" /\ p \in Performing
    BY <1>4, <1>11 DEF EndedAndFlushed, Performing
  <2>2. /\ \A u \in Tasks : outcome'[u] = IF u = c THEN result
                             ELSE IF outcome[u] = "queued" THEN "deleted" ELSE outcome[u]
        /\ \A v \in Performers : current'[v] = IF v = p THEN NoTask ELSE current[v]
    BY <1>1, <1>11, <2>1 DEF EndedAndFlushed, DeleteQueued
  <2>3. result \notin {"queued", "active", "unborn"}
    BY DEF Results
  <2>4. QueueInOrder' /\ QueuedInList'
    BY <1>11, <2>1, <2>2, <2>3 DEF QueueInOrder, QueuedInList, EndedAndFlushed
  <2>5. ActivePerformed' /\ OnePerformer'
    BY <1>1, <1>2, <2>1, <2>2, <2>3 DEF ActivePerformed, OnePerformer, Performing
  <2>6. BornInOrder'
    BY <1>2, <2>1, <2>2, <2>3 DEF BornInOrder
  <2> QED  BY <2>4, <2>5, <2>6 DEF TasksConserved
<1> QED  BY <1>5, <1>6, <1>7, <1>8, <1>9, <1>10, <1>11 DEF Move

(* The invariant behind the theorems that follow.                          *)
PoolInv == TypeOK /\ IdleCountExact /\ WorkersFit /\ TasksConserved

LEMMA PoolInvariant == Spec => []PoolInv
<1>1. Init => PoolInv
  BY CountedInit, FitInit, ConservedInit DEF PoolInv
<1>2. PoolInv /\ [Next]_vars => PoolInv'
  <2> SUFFICES ASSUME PoolInv, [Next]_vars PROVE PoolInv'
    OBVIOUS
  <2>1. Move
    BY StepIsMove DEF PoolInv
  <2> QED  BY <2>1, CountedStep, FitStep, ConservedStep DEF PoolInv
<1> QED  BY <1>1, <1>2, PoolStep, PTL DEF Spec

(* A worker has a task exactly while it is in perform_task, no thread      *)
(* lives beyond the number of workers, whatever number set_num_workers is  *)
(* given, and a synchronous run has no threads.                            *)
THEOREM ThreadsFit == Spec => []WorkersFit
<1>1. PoolInv => WorkersFit
  BY DEF PoolInv
<1> QED  BY <1>1, PoolInvariant, PTL

(* No task is lost or performed twice, in any interleaving of schedule,    *)
(* the workers, stop and a throwing synchronous run.                       *)
THEOREM NoTaskLost == Spec => []TasksConserved
<1>1. PoolInv => TasksConserved
  BY DEF PoolInv
<1> QED  BY <1>1, PoolInvariant, PTL

-----------------------------------------------------------------------------
(* The pool implements JobContract.                                        *)

(* The comparison of m_idle_workers with m_nworkers finds out that all the *)
(* threads there are sit in the wait.                                      *)
LEMMA AllIdleIsEverybody ==
  ASSUME PoolInv, NEW w \in Workers, GoIdle(w), AllIdle(idleWorkers')
  PROVE  Idle \cup {w} = 1..nworkers
<1>1. Idle \cup {w} \in SUBSET (1..nworkers)
  BY DEF PoolInv, WorkersFit, Threads, Idle, IsIdle, GoIdle, Workers
<1>2. w \notin Idle /\ Idle \in SUBSET Workers
  BY DEF Idle, IsIdle, GoIdle
<1>3. Cardinality(Idle \cup {w}) = nworkers
  BY <1>2, WorkerSets DEF GoIdle, AllIdle, PoolInv, IdleCountExact
<1>4. nworkers \in Nat
  BY DEF PoolInv, TypeOK, JobTypeOK
<1>5. IsFiniteSet(1..nworkers) /\ Cardinality(1..nworkers) = nworkers
  BY <1>4, FS_Interval
<1> QED  BY <1>1, <1>3, <1>5, FS_Subset

(* So nobody performs a task then.                                         *)
LEMMA AllIdleIsQuiet ==
  ASSUME PoolInv, NEW w \in Workers, GoIdle(w), AllIdle(idleWorkers')
  PROVE  Quiet
<1>1. Idle \cup {w} = 1..nworkers
  BY AllIdleIsEverybody
<1>2. \A v \in Workers : pc[v] # "working"
  <2> SUFFICES ASSUME NEW v \in Workers, pc[v] = "working" PROVE FALSE
    OBVIOUS
  <2>1. v \in 1..nworkers
    BY DEF PoolInv, WorkersFit, Threads, Workers
  <2> QED  BY <1>1, <2>1 DEF Idle, IsIdle, GoIdle
<1>3. ctl # "syncTask"
  BY DEF PoolInv, WorkersFit, Threads, GoIdle, Workers
<1>4. Performing = {}
  BY <1>2, <1>3 DEF PoolInv, WorkersFit, Performing, Performers
<1> QED  BY <1>4 DEF Quiet, GoIdle, NothingFor

(* finished () is called only when nothing waits and nothing is performed; *)
(* the count of its calls starts again with a run.                         *)
LEMMA ToldWhenQuiet ==
  ASSUME PoolInv, [Next]_vars
  PROVE  \/ UNCHANGED finishedCalls
         \/ Still /\ finishedCalls' = 0
         \/ Still /\ Quiet /\ finishedCalls' = finishedCalls + 1
<1>1. CASE Start \/ SyncStart
  BY <1>1 DEF Start, SyncStart, Still, threadVars
<1>2. ASSUME NEW w \in Workers, GoIdle(w)
      PROVE  UNCHANGED finishedCalls \/ (Still /\ Quiet /\ finishedCalls' = finishedCalls + 1)
  BY <1>2, AllIdleIsQuiet DEF GoIdle, Still
<1>3. CASE SyncEnd
  <2>1. Threads = {}
    BY <1>3 DEF SyncEnd, PoolInv, WorkersFit, Threads, Workers
  <2>2. Performing = {}
    BY <1>3, <2>1 DEF SyncEnd, PoolInv, WorkersFit, Threads, Performing, Performers
  <2> QED  BY <1>3, <2>2 DEF SyncEnd, Quiet, Still, threadVars
<1>4. UNCHANGED finishedCalls \/ Start \/ SyncStart \/ SyncEnd \/ \E w \in Workers : GoIdle(w)
  BY DEF Next, WorkerStep, ControllerStep, ControllerCall, vars, history, Schedule,
    ScheduleRefused, TakeStart, TakeExit, TakeTask, SleepAgain, SeeFlag, Complete, Fail, Abort,
    EndTask, SpuriousWorker, SpuriousController, WaitReturn, StopAndWait, StopAtOnce, StopFinish,
    SendExits, Join, SyncFetch, SyncPerform, SyncHookThrows, WaitCall, WaitTimeout, StopCall
<1> QED  BY <1>1, <1>2, <1>3, <1>4

LEMMA MoveImplements ==
  ASSUME PoolInv, Move, UNCHANGED finishedCalls
  PROVE  Contract!Next \/ UNCHANGED Contract!vars
<1>1. /\ taskList \in Seq(Tasks) /\ outcome \in [Tasks -> Outcomes]
      /\ current \in [Performers -> Tasks \cup {NoTask}]
      /\ NoTask \notin Tasks
  BY DEF PoolInv, TypeOK, JobTypeOK, ThreadTypeOK, HistoryTypeOK, Tasks, NoTask
<1>2. QueuedInList /\ ActivePerformed
  BY DEF PoolInv, TasksConserved
<1>3. Contract!Queued = {t \in Tasks : outcome[t] = "queued"}
  <2>1. \A i \in 1..Len(taskList) : taskList[i] \in Tasks
    BY <1>1
  <2> QED  BY <1>2, <2>1 DEF Contract!Queued, QueuedInList
<1>4. \A t \in Tasks : t \in Contract!Busy <=> outcome[t] = "active"
  BY <1>2 DEF Contract!Busy, ActivePerformed
<1>5. \A t \in Tasks : outcome[t] = "unborn" => Contract!New(t)
  BY <1>3, <1>4 DEF Contract!New, Gone
<1>6. CASE Still
  BY <1>6 DEF Still, Gone, Contract!vars
<1>7. ASSUME NEW t \in Tasks, Accepted(t) PROVE Contract!Accept(t)
  <2>1. Gone' = Gone
    BY <1>1, <1>7 DEF Accepted, IsNext, Gone
  <2> QED  BY <1>5, <1>7, <2>1 DEF Accepted, IsNext, Contract!Accept
<1>8. ASSUME NEW t \in Tasks, Refused(t) PROVE Contract!Refuse(t)
  <2>1. Gone' = Gone \cup {t}
    BY <1>1, <1>8 DEF Refused, IsNext, Gone
  <2> QED  BY <1>5, <1>8, <2>1 DEF Refused, IsNext, Contract!Refuse
<1>9. ASSUME NEW p \in Performers, Taken(p) PROVE Contract!Take(p)
  <2>1. Head(taskList) \in Contract!Queued
    <3>1. Len(taskList) \in Nat \ {0} /\ Head(taskList) = taskList[1]
      BY <1>1, <1>9 DEF Taken
    <3> QED  BY <3>1 DEF Contract!Queued
  <2>2. Head(taskList) \in Tasks /\ outcome[Head(taskList)] = "queued"
    BY <1>3, <2>1
  <2>3. Head(taskList) \notin Contract!Busy
    BY <1>4, <2>2
  <2>4. Gone' = Gone
    BY <1>1, <1>9, <2>2 DEF Taken, Gone
  <2> QED  BY <1>9, <2>3, <2>4 DEF Taken, Contract!Take
<1>10. ASSUME NEW p \in Performers, NEW result \in Results, Ended(p, result)
       PROVE  Contract!End(p)
  <2>1. current[p] \in Tasks /\ outcome[current[p]] = "active"
    BY <1>1, <1>2, <1>10 DEF Ended, ActivePerformed
  <2>2. Gone' = Gone \cup {current[p]}
    BY <1>1, <1>10, <2>1 DEF Ended, Gone, Results
  <2> QED  BY <1>10, <2>2 DEF Ended, Contract!End
<1>11. CASE Flushed
  <2>1. Gone' = Gone \cup Contract!Queued
    BY <1>3, <1>11 DEF Flushed, DeleteQueued, Gone
  <2> QED  BY <1>11, <2>1 DEF Flushed, Contract!Discard, Contract!Next
<1>12. ASSUME NEW p \in Performers, NEW result \in Results, EndedAndFlushed(p, result)
       PROVE  Contract!EndAndDiscard(p)
  <2>1. current[p] \in Tasks /\ outcome[current[p]] = "active"
    BY <1>1, <1>2, <1>12 DEF EndedAndFlushed, ActivePerformed
  <2>2. \A u \in Tasks : outcome'[u] = IF u = current[p] THEN result
                             ELSE IF outcome[u] = "queued" THEN "deleted" ELSE outcome[u]
    BY <1>1, <1>12, <2>1 DEF EndedAndFlushed, DeleteQueued
  <2>3. Gone' = Gone \cup Contract!Queued \cup {current[p]}
    BY <1>3, <2>1, <2>2 DEF Gone, Results
  <2> QED  BY <1>12, <2>3 DEF EndedAndFlushed, Contract!EndAndDiscard
<1> QED
  BY <1>6, <1>7, <1>8, <1>9, <1>10, <1>11, <1>12 DEF Move, Contract!Next

LEMMA StepImplements ==
  PoolInv /\ [Next]_vars => [Contract!Next]_(Contract!vars)
<1> SUFFICES ASSUME PoolInv, [Next]_vars
             PROVE  Contract!Next \/ UNCHANGED Contract!vars
  OBVIOUS
<1>1. Move
  BY StepIsMove DEF PoolInv
<1>2. CASE UNCHANGED finishedCalls
  BY <1>1, <1>2, MoveImplements
<1>3. CASE Still /\ finishedCalls' = 0
  BY <1>3 DEF Still, Contract!NewRun, Gone, Contract!Next
<1>4. CASE Still /\ Quiet /\ finishedCalls' = finishedCalls + 1
  <2>1. Contract!Announce
    BY <1>4 DEF Still, Quiet, Contract!Announce, Performing, Gone
  <2> QED  BY <2>1 DEF Contract!Next
<1> QED  BY <1>2, <1>3, <1>4, ToldWhenQuiet

(* The pool implements JobContract, with any number of workers and in each *)
(* build: tasks are handed out in order and once, and finished () is never *)
(* called while a task waits or is performed.                              *)
THEOREM PoolImplementsContract == Spec => ImplementsContract
<1>1. Init => Contract!Init
  BY DEF Init, Contract!Init, Gone
<1> QED
  BY <1>1, PoolInvariant, StepImplements, PoolStep, PTL DEF Spec, ImplementsContract, Contract!Spec

-----------------------------------------------------------------------------
(* The end of a run: what wait () and stop () may rely on when they go on, *)
(* how far a stop request reaches and what an ended thread leaves behind.  *)

(* ExitTasks exist only while terminate () joins the threads, each at the  *)
(* end of the list of a thread that has not ended.                         *)
ExitsAtEnd ==
  \A w \in Workers : \A i \in 1..Len(ownList[w]) :
    ownList[w][i] = "exit" =>
      ctl = "joining" /\ i = Len(ownList[w]) /\ pc[w] \notin {"none", "exited"}
EndedWhenJoining == \A w \in Workers : pc[w] = "exited" => ctl = "joining"
ExitInv == ExitsAtEnd /\ EndedWhenJoining /\ ExitIsLast

(* m_stopping is set exactly while stop () waits.                          *)
StoppingWhileWaiting == stopping <=> ctl \in {"stopWaiting", "stopWoken"}

(* A worker that was asked to stop (and not yet to end) never sleeps with  *)
(* a wake-up under way, and once stop () goes on it sleeps until the       *)
(* request is reset: m_running, without which schedule wakes nobody, is    *)
(* false then.                                                             *)
Requested(w) == stopRequested[w] /\ ctl # "joining"
Asleep(w) ==
  /\ pc[w] \in {"top", "working", "waiting"}
  /\ pc[w] = "waiting" => ~flag
  /\ ctl # "stopWaiting" => pc[w] = "waiting" /\ ~running
  /\ ctl # "stopEntered"
RequestedAsleep ==
  build # "pthread" => \A w \in Workers : Requested(w) => Asleep(w)

(* Without spurious wake-ups, wait () and stop () are woken by the worker  *)
(* that found all idle, and nothing starts before they go on.              *)
AwakeMeansOver ==
  build # "pthread" /\ ctl \in {"woken", "stopWoken"} => ~running /\ Quiet

EndInv == ExitInv /\ StoppingWhileWaiting /\ RequestedAsleep /\ AwakeMeansOver

LEMMA EndInit == Init => EndInv
<1> SUFFICES ASSUME Init PROVE EndInv
  OBVIOUS
<1>1. ExitInv
  BY DEF Init, ExitInv, ExitsAtEnd, EndedWhenJoining, ExitIsLast
<1>2. StoppingWhileWaiting
  BY DEF Init, StoppingWhileWaiting
<1>3. RequestedAsleep
  BY DEF Init, RequestedAsleep, Requested
<1>4. AwakeMeansOver
  BY DEF Init, AwakeMeansOver
<1> QED  BY <1>1, <1>2, <1>3, <1>4 DEF EndInv

-----------------------------------------------------------------------------
(* ExitTasks                                                               *)

(* Steps that leave the lists alone, end no thread and create none.        *)
LEMMA ExitsKept ==
  ASSUME ExitInv, UNCHANGED ownList, (ctl' = "joining") <=> (ctl = "joining"),
         \A w \in Workers : (pc'[w] = "exited" <=> pc[w] = "exited")
                            /\ (pc'[w] = "none" <=> pc[w] = "none")
  PROVE  ExitInv'
BY DEF ExitInv, ExitsAtEnd, EndedWhenJoining, ExitIsLast

(* A thread takes the first entry of its list.                             *)
LEMMA ExitsTaken ==
  ASSUME TypeOK, ExitInv, NEW v \in Workers, TakeStart(v) \/ TakeExit(v)
  PROVE  ExitInv'
<1>1. /\ ownList \in [Workers -> Seq({"start", "exit"})] /\ pc \in [Workers -> WorkerStates]
  BY DEF TypeOK, JobTypeOK, ThreadTypeOK
<1>2. /\ Fetchable(v) /\ ownList[v] # <<>> /\ ctl' = ctl
      /\ ownList' = [ownList EXCEPT ![v] = Tail(@)]
  BY DEF TakeStart, TakeExit, ctlVars
<1>3. /\ Len(ownList[v]) \in Nat \ {0} /\ Head(ownList[v]) = ownList[v][1]
      /\ Len(ownList'[v]) = Len(ownList[v]) - 1
      /\ \A i \in 1..Len(ownList'[v]) : ownList'[v][i] = ownList[v][i + 1]
      /\ \A w \in Workers \ {v} : ownList'[w] = ownList[w]
  <2>1. ownList[v] \in Seq({"start", "exit"}) /\ ownList'[v] = Tail(ownList[v])
    BY <1>1, <1>2
  <2> QED  BY <1>1, <1>2, <2>1
<1>4. CASE TakeStart(v)
  <2>1. pc' = [pc EXCEPT ![v] = "top"]
    BY <1>4 DEF TakeStart
  <2>2. ASSUME NEW w \in Workers, NEW i \in 1..Len(ownList'[w]), ownList'[w][i] = "exit"
        PROVE  ctl = "joining" /\ i = Len(ownList'[w]) /\ pc'[w] \notin {"none", "exited"}
    <3>1. CASE w = v
      <4>1. i + 1 \in 1..Len(ownList[v]) /\ ownList[v][i + 1] = "exit"
        BY <1>3, <2>2, <3>1
      <4>2. ctl = "joining" /\ i + 1 = Len(ownList[v])
        BY <4>1 DEF ExitInv, ExitsAtEnd
      <4> QED  BY <1>1, <1>3, <2>1, <3>1, <4>2
    <3>2. CASE w # v
      BY <1>1, <1>3, <2>1, <2>2, <3>2 DEF ExitInv, ExitsAtEnd
    <3> QED  BY <3>1, <3>2
  <2>3. ExitsAtEnd'
    BY <1>2, <2>2 DEF ExitsAtEnd
  <2> QED
    BY <1>1, <1>2, <1>3, <2>1, <2>3 DEF ExitInv, EndedWhenJoining, ExitIsLast
<1>5. CASE TakeExit(v)
  <2>1. pc' = [pc EXCEPT ![v] = "exited"] /\ ownList[v][1] = "exit"
    BY <1>3, <1>5 DEF TakeExit
  <2>2. ctl = "joining" /\ Len(ownList[v]) = 1
    <3>1. 1 \in 1..Len(ownList[v])
      BY <1>3
    <3> QED  BY <1>3, <2>1, <3>1 DEF ExitInv, ExitsAtEnd
  <2>3. ownList'[v] = <<>>
    <3>1. ownList'[v] \in Seq({"start", "exit"}) /\ Len(ownList'[v]) = 0
      BY <1>1, <1>2, <1>3, <2>2
    <3> QED  BY <3>1
  <2>4. ExitsAtEnd'
    BY <1>1, <1>2, <1>3, <2>1, <2>3 DEF ExitInv, ExitsAtEnd
  <2> QED
    BY <1>1, <1>2, <1>3, <2>1, <2>2, <2>3, <2>4 DEF ExitInv, EndedWhenJoining, ExitIsLast
<1> QED  BY <1>4, <1>5

LEMMA ExitStep == TypeOK /\ ExitInv /\ [Next]_vars => ExitInv'
<1> SUFFICES ASSUME TypeOK, ExitInv, [Next]_vars PROVE ExitInv'
  OBVIOUS
<1>1. /\ ownList \in [Workers -> Seq({"start", "exit"})] /\ pc \in [Workers -> WorkerStates]
  BY DEF TypeOK, JobTypeOK, ThreadTypeOK
<1>2. \A w \in Workers : (WakeAll(pc)[w] = "exited" <=> pc[w] = "exited")
                         /\ (WakeAll(pc)[w] = "none" <=> pc[w] = "none")
  BY <1>1 DEF WakeAll
<1> USE DEF jobVars, threadVars, ctlVars
<1>3. CASE UNCHANGED vars
  BY <1>3, ExitsKept DEF vars
<1>4. ASSUME NEW t \in Tasks, Schedule(t) \/ ScheduleRefused(t) PROVE ExitInv'
  BY <1>2, <1>4, ExitsKept DEF Schedule, ScheduleRefused
<1>5. ASSUME NEW v \in Workers, WorkerStep(v) \/ SpuriousWorker(v) PROVE ExitInv'
  <2>1. CASE TakeStart(v) \/ TakeExit(v)
    BY <2>1, ExitsTaken
  <2>2. CASE GoIdle(v)
    <3>1. UNCHANGED ownList /\ (ctl' = "joining" <=> ctl = "joining")
      BY <2>2 DEF GoIdle, WakeController
    <3> QED  BY <1>1, <2>2, <3>1, ExitsKept DEF GoIdle
  <2>3. CASE TakeTask(v) \/ SleepAgain(v) \/ SeeFlag(v) \/ SpuriousWorker(v)
    BY <1>1, <2>3, ExitsKept DEF TakeTask, Fetchable, SleepAgain, SeeFlag, SpuriousWorker
  <2>4. CASE Complete(v) \/ Fail(v) \/ Abort(v)
    BY <1>1, <2>4, ExitsKept DEF Complete, Fail, Abort, EndTask
  <2> QED  BY <1>5, <2>1, <2>2, <2>3, <2>4 DEF WorkerStep
<1>6. CASE Start
  <2>1. ctl = "free" /\ ctl' = "free"
    BY <1>6 DEF Start
  <2>2. \A w \in Workers : \A i \in 1..Len(ownList[w]) : ownList[w][i] # "exit"
    BY <2>1 DEF ExitInv, ExitsAtEnd
  <2>3. \A w \in Workers : pc'[w] # "exited"
    <3>1. \A w \in Workers : pc[w] # "exited"
      BY <2>1 DEF ExitInv, EndedWhenJoining
    <3> QED  BY <1>2, <1>6, <3>1 DEF Start
  <2>4. \A w \in Workers : \A i \in 1..Len(ownList'[w]) : ownList'[w][i] # "exit"
    <3> TAKE w \in Workers
    <3>1. CASE w <= nworkers
      <4>1. ownList'[w] = <<"start">> \o ownList[w] /\ ownList[w] \in Seq({"start", "exit"})
        BY <1>1, <1>6, <3>1 DEF Start
      <4> QED  BY <2>2, <4>1
    <3>2. CASE ~(w <= nworkers)
      <4>1. ownList'[w] = <<>>
        BY <1>6, <3>2 DEF Start
      <4> QED  BY <4>1
    <3> QED  BY <3>1, <3>2
  <2> QED  BY <2>3, <2>4 DEF ExitInv, ExitsAtEnd, EndedWhenJoining, ExitIsLast
<1>7. CASE SendExits
  <2>1. ctl = "stopDone" /\ ctl' = "joining"
    BY <1>7 DEF SendExits
  <2>2. \A w \in Workers : \A i \in 1..Len(ownList[w]) : ownList[w][i] # "exit"
    BY <2>1 DEF ExitInv, ExitsAtEnd
  <2>3. \A w \in Workers : pc'[w] # "exited" /\ (pc'[w] = "none" <=> pc[w] = "none")
    <3>1. \A w \in Workers : pc[w] # "exited"
      BY <2>1 DEF ExitInv, EndedWhenJoining
    <3> QED  BY <1>2, <1>7, <3>1 DEF SendExits
  <2>4. ASSUME NEW w \in Workers, NEW i \in 1..Len(ownList'[w]), ownList'[w][i] = "exit"
        PROVE  i = Len(ownList'[w]) /\ pc[w] # "none"
    <3>1. CASE pc[w] = "none"
      <4>1. ownList'[w] = <<>>
        BY <1>7, <3>1 DEF SendExits, Threads
      <4> QED  BY <2>4, <4>1
    <3>2. CASE pc[w] # "none"
      <4>1. ownList'[w] = Append(ownList[w], "exit") /\ ownList[w] \in Seq({"start", "exit"})
        BY <1>1, <1>7, <3>2 DEF SendExits, Threads, AddExit
      <4> QED  BY <2>2, <2>4, <3>2, <4>1
    <3> QED  BY <3>1, <3>2
  <2> QED  BY <2>1, <2>3, <2>4 DEF ExitInv, ExitsAtEnd, EndedWhenJoining, ExitIsLast
<1>8. CASE Join
  <2>1. \A w \in Workers : pc'[w] = "none"
    BY <1>8 DEF Join
  <2>2. \A w \in Workers : \A i \in 1..Len(ownList[w]) : ownList[w][i] # "exit"
    <3>1. CASE ctl = "joining"
      BY <1>8, <3>1 DEF Join, Threads, ExitInv, ExitsAtEnd
    <3>2. CASE ctl # "joining"
      BY <3>2 DEF ExitInv, ExitsAtEnd
    <3> QED  BY <3>1, <3>2
  <2>3. \A w \in Workers : \A i \in 1..Len(ownList'[w]) : ownList'[w][i] # "exit"
    BY <1>8, <2>2 DEF Join, SetNumWorkers
  <2> QED  BY <2>1, <2>3 DEF ExitInv, ExitsAtEnd, EndedWhenJoining, ExitIsLast
<1>9. CASE StopAndWait
  BY <1>2, <1>9, ExitsKept DEF StopAndWait
<1>10. CASE WaitReturn \/ StopAtOnce \/ StopFinish \/ SyncFetch \/ SyncEnd \/ SyncPerform
            \/ SyncStart \/ WaitCall \/ WaitTimeout \/ SpuriousController
  <2>1. UNCHANGED <<ownList, pc>> /\ (ctl' = "joining" <=> ctl = "joining")
    BY <1>10 DEF WaitReturn, StopAtOnce, StopFinish, AfterStop, SyncFetch, SyncEnd, SyncPerform,
                 SyncStart, WaitCall, WaitTimeout, SpuriousController, WakeController
  <2> QED  BY <2>1, ExitsKept
<1>11. ASSUME NEW caller \in Callers, StopCall(caller) PROVE ExitInv'
  BY <1>11, ExitsKept DEF StopCall
<1>12. ASSUME NEW result \in {"performed", "deleted"}, SyncHookThrows(result) PROVE ExitInv'
  BY <1>12, ExitsKept DEF SyncHookThrows
<1> QED
  BY <1>3, <1>4, <1>5, <1>6, <1>7, <1>8, <1>9, <1>10, <1>11, <1>12
  DEF Next, ControllerStep, ControllerCall

-----------------------------------------------------------------------------
(* wait () and stop () after their waits                                   *)

LEMMA StoppingStep == StoppingWhileWaiting /\ [Next]_vars => StoppingWhileWaiting'
<1> SUFFICES ASSUME StoppingWhileWaiting, [Next]_vars PROVE StoppingWhileWaiting'
  OBVIOUS
<1> USE DEF StoppingWhileWaiting, jobVars, threadVars, ctlVars
<1>1. CASE UNCHANGED vars
  BY <1>1 DEF vars
<1>2. ASSUME NEW t \in Tasks, Schedule(t) \/ ScheduleRefused(t) PROVE StoppingWhileWaiting'
  BY <1>2 DEF Schedule, ScheduleRefused
<1>3. ASSUME NEW w \in Workers, WorkerStep(w) \/ SpuriousWorker(w) PROVE StoppingWhileWaiting'
  BY <1>3 DEF WorkerStep, TakeStart, TakeExit, TakeTask, GoIdle, WakeController, SleepAgain,
    SeeFlag, Complete, Fail, Abort, EndTask, SpuriousWorker
<1>4. CASE ControllerStep
  BY <1>4 DEF ControllerStep, WaitReturn, StopAndWait, StopAtOnce, StopFinish, AfterStop,
    SendExits, Join, SyncFetch, SyncEnd, SyncPerform, SyncHookThrows
<1>5. CASE ControllerCall \/ SpuriousController
  BY <1>5 DEF ControllerCall, Start, SyncStart, WaitCall, WaitTimeout, StopCall,
    SpuriousController, WakeController
<1> QED  BY <1>1, <1>2, <1>3, <1>4, <1>5 DEF Next

(* While wait () or stop () has been woken and has not gone on, tasks are  *)
(* neither scheduled nor taken, and no run begins.                         *)
LEMMA OverStaysOver ==
  ASSUME PoolInv, Quiet, ~running, ctl \in {"woken", "stopWoken"}, [Next]_vars,
         ctl' \in {"woken", "stopWoken"}
  PROVE  Quiet' /\ ~running'
<1>1. \A w \in Workers : pc[w] # "working"
  BY DEF PoolInv, WorkersFit, Quiet, Performing, Performers
<1>2. UNCHANGED <<taskList, current>> /\ (running' = running \/ running' = FALSE)
  <2> USE <1>1 DEF jobVars, threadVars, ctlVars
  <2>1. CASE UNCHANGED vars
    BY <2>1 DEF vars
  <2>2. ASSUME NEW t \in Tasks, Schedule(t) \/ ScheduleRefused(t) PROVE FALSE
    BY <2>2 DEF Schedule, ScheduleRefused, CanSchedule
  <2>3. ASSUME NEW w \in Workers, WorkerStep(w) \/ SpuriousWorker(w) PROVE <1>2!1 /\ <1>2!2
    BY <2>3 DEF WorkerStep, TakeStart, TakeExit, TakeTask, GoIdle, SleepAgain, SeeFlag,
      Complete, Fail, Abort, EndTask, SpuriousWorker, Quiet
  <2>4. CASE ControllerStep
    BY <2>4 DEF ControllerStep, WaitReturn, StopAndWait, StopAtOnce, StopFinish, AfterStop,
      SendExits, Join, SyncFetch, SyncEnd, SyncPerform, SyncHookThrows
  <2>5. CASE ControllerCall \/ SpuriousController
    BY <2>5 DEF ControllerCall, Start, SyncStart, WaitCall, WaitTimeout, StopCall,
      SpuriousController
  <2> QED  BY <2>1, <2>2, <2>3, <2>4, <2>5 DEF Next
<1>3. Quiet'
  BY <1>2 DEF Quiet, Performing
<1>4. ~running'
  BY <1>2
<1> QED  BY <1>3, <1>4

(* Who wakes them.                                                         *)
LEMMA WokenByAllIdle ==
  ASSUME [Next]_vars, build # "pthread",
         ctl \notin {"woken", "stopWoken"}, ctl' \in {"woken", "stopWoken"}
  PROVE  \E w \in Workers : GoIdle(w) /\ AllIdle(idleWorkers')
<1> USE DEF jobVars, threadVars, ctlVars
<1>1. ~ UNCHANGED vars
  BY DEF vars
<1>2. ASSUME NEW t \in Tasks, Schedule(t) \/ ScheduleRefused(t) PROVE FALSE
  BY <1>2 DEF Schedule, ScheduleRefused
<1>3. ASSUME NEW w \in Workers, WorkerStep(w) \/ SpuriousWorker(w)
      PROVE  GoIdle(w) /\ AllIdle(idleWorkers')
  BY <1>3 DEF WorkerStep, TakeStart, TakeExit, TakeTask, GoIdle, SleepAgain,
    SeeFlag, Complete, Fail, Abort, EndTask, SpuriousWorker
<1>4. ~ ControllerStep
  BY DEF ControllerStep, WaitReturn, StopAndWait, StopAtOnce, StopFinish, AfterStop,
    SendExits, Join, SyncFetch, SyncEnd, SyncPerform, SyncHookThrows
<1>5. ~ ControllerCall /\ ~ SpuriousController
  BY DEF ControllerCall, Start, SyncStart, WaitCall, WaitTimeout, StopCall, SpuriousController
<1> QED  BY <1>1, <1>2, <1>3, <1>4, <1>5 DEF Next

LEMMA AwakeStep ==
  ASSUME PoolInv, AwakeMeansOver, [Next]_vars, UNCHANGED build
  PROVE  AwakeMeansOver'
<1> SUFFICES ASSUME build # "pthread", ctl' \in {"woken", "stopWoken"} PROVE Quiet' /\ ~running'
  BY DEF AwakeMeansOver
<1>1. CASE ctl \in {"woken", "stopWoken"}
  BY <1>1, OverStaysOver DEF AwakeMeansOver
<1>2. CASE ctl \notin {"woken", "stopWoken"}
  <2>1. PICK w \in Workers : GoIdle(w) /\ AllIdle(idleWorkers')
    BY <1>2, WokenByAllIdle
  <2>2. Quiet
    BY <2>1, AllIdleIsQuiet
  <2>3. UNCHANGED <<taskList, current>> /\ ~running'
    BY <2>1 DEF GoIdle
  <2> QED  BY <2>2, <2>3 DEF Quiet, Performing
<1> QED  BY <1>1, <1>2

-----------------------------------------------------------------------------
(* Stop requests                                                           *)

(* The workers' steps: one that was asked to stop goes to sleep for good.  *)
LEMMA RequestedWorkerStep ==
  ASSUME PoolInv, EndInv, build # "pthread", UNCHANGED build,
         NEW v \in Workers, WorkerStep(v) \/ SpuriousWorker(v)
  PROVE  RequestedAsleep'
<1> SUFFICES ASSUME NEW w \in Workers, Requested(w)'
             PROVE  Asleep(w)'
  BY Zenon DEF RequestedAsleep
<1>0. pc \in [Workers -> WorkerStates]
  BY DEF PoolInv, TypeOK, ThreadTypeOK
<1>1. UNCHANGED stopRequested
  BY DEF WorkerStep, TakeStart, TakeExit, TakeTask, GoIdle, SleepAgain, SeeFlag, Complete, Fail,
    Abort, EndTask, SpuriousWorker
<1>2. (ctl = "joining") => (ctl' = "joining")
  BY DEF WorkerStep, TakeStart, TakeExit, TakeTask, GoIdle, WakeController, SleepAgain, SeeFlag,
    Complete, Fail, Abort, EndTask, SpuriousWorker, ctlVars
<1>3. Requested(w)
  BY <1>1, <1>2, Zenon DEF Requested
<1>4. /\ pc[w] \in {"top", "working", "waiting"}
      /\ pc[w] = "waiting" => ~flag
      /\ ctl # "stopWaiting" => pc[w] = "waiting" /\ ~running
      /\ ctl # "stopEntered" /\ ctl # "joining"
  BY <1>3, Zenon DEF EndInv, RequestedAsleep, Requested, Asleep
<1> USE DEF jobVars, ctlVars
<1>5. CASE TakeStart(v)
  BY <1>0, <1>4, <1>5 DEF TakeStart, Fetchable, Asleep
<1>6. CASE TakeExit(v)
  <2>1. 1 \in 1..Len(ownList[v]) /\ ownList[v][1] = "exit"
    <3>1. ownList[v] \in Seq({"start", "exit"})
      BY DEF PoolInv, TypeOK, JobTypeOK
    <3> QED  BY <1>6, <3>1 DEF TakeExit
  <2>2. ctl = "joining"
    BY <2>1 DEF EndInv, ExitInv, ExitsAtEnd
  <2> QED  BY <1>4, <2>2
<1>7. CASE TakeTask(v)
  BY <1>0, <1>4, <1>7 DEF TakeTask, Fetchable, Asleep
<1>8. CASE GoIdle(v)
  <2>1. pc' = [pc EXCEPT ![v] = "waiting"] /\ pc[v] = "top" /\ flag' = FALSE
    BY <1>8 DEF GoIdle
  <2>2. CASE AllIdle(idleWorkers')
    <3>1. w \in Idle \/ w = v
      <4>1. Idle \cup {v} = 1..nworkers
        BY <1>8, <2>2, AllIdleIsEverybody
      <4>2. w \in 1..nworkers
        BY <1>4 DEF PoolInv, WorkersFit, Threads, Workers
      <4> QED  BY <4>1, <4>2
    <3>2. pc'[w] = "waiting"
      BY <1>0, <1>4, <2>1, <3>1 DEF Idle, IsIdle
    <3>3. running' = FALSE /\ ctl' = WakeController(ctl)
      BY <1>8, <2>2 DEF GoIdle
    <3> QED  BY <1>4, <2>1, <3>2, <3>3 DEF Asleep, WakeController
  <2>3. CASE ~AllIdle(idleWorkers')
    <3>1. UNCHANGED <<running, ctl>>
      BY <1>8, <2>3 DEF GoIdle
    <3> QED  BY <1>0, <1>4, <2>1, <3>1 DEF Asleep
  <2> QED  BY <2>2, <2>3
<1>9. CASE SleepAgain(v) \/ SeeFlag(v) \/ SpuriousWorker(v)
  BY <1>0, <1>4, <1>9 DEF SleepAgain, SeeFlag, SpuriousWorker, Asleep
<1>10. CASE Complete(v) \/ Fail(v) \/ Abort(v)
  BY <1>0, <1>4, <1>10 DEF Complete, Fail, Abort, EndTask, Asleep
<1> QED  BY <1>5, <1>6, <1>7, <1>8, <1>9, <1>10, Zenon DEF WorkerStep

LEMMA RequestedStep ==
  ASSUME PoolInv, EndInv, [Next]_vars, UNCHANGED build
  PROVE  RequestedAsleep'
<1> SUFFICES ASSUME build # "pthread" PROVE RequestedAsleep'
  BY DEF RequestedAsleep
<1>0. pc \in [Workers -> WorkerStates]
  BY DEF PoolInv, TypeOK, ThreadTypeOK
<1>1. \A w \in Workers : stopRequested[w] => ctl = "joining" \/ Asleep(w)
  BY Zenon DEF EndInv, RequestedAsleep, Requested
<1>2. ASSUME \A w \in Workers : stopRequested'[w] => ctl' = "joining" \/ Asleep(w)'
      PROVE  RequestedAsleep'
  BY <1>2, Zenon DEF RequestedAsleep, Requested
<1>3. ASSUME UNCHANGED stopRequested, ctl # "joining",
             \A w \in Workers : Asleep(w) => Asleep(w)'
      PROVE  RequestedAsleep'
  BY <1>1, <1>2, <1>3, Zenon
<1> USE DEF Asleep, jobVars, threadVars, ctlVars
<1>4. CASE UNCHANGED vars
  BY <1>4, <1>1, <1>2, Zenon DEF vars
<1>5. ASSUME NEW t \in Tasks, Schedule(t) \/ ScheduleRefused(t) PROVE RequestedAsleep'
  <2>1. UNCHANGED <<stopRequested, ctl, running>>
    BY <1>5 DEF Schedule, ScheduleRefused
  <2>2. CASE running /\ ~stopping
    <3>1. \A w \in Workers : ~Asleep(w)
      BY <2>2 DEF EndInv, StoppingWhileWaiting
    <3> QED  BY <1>1, <1>2, <2>1, <3>1, Zenon
  <2>3. CASE ~running \/ stopping
    <3>1. UNCHANGED <<pc, flag>>
      BY <1>5, <2>3 DEF Schedule, ScheduleRefused
    <3> QED  BY <1>1, <1>2, <2>1, <3>1, Zenon
  <2> QED  BY <2>2, <2>3
<1>6. ASSUME NEW v \in Workers, WorkerStep(v) \/ SpuriousWorker(v) PROVE RequestedAsleep'
  BY <1>6, RequestedWorkerStep
<1>7. CASE Start \/ Join
  <2>1. \A w \in Workers : ~stopRequested'[w]
    BY <1>7 DEF Start, ResetStopRequests, Join
  <2> QED  BY <1>2, <2>1, Zenon
<1>8. CASE SendExits
  BY <1>8, <1>2, Zenon DEF SendExits
<1>9. CASE StopAndWait
  <2>1. ctl = "stopEntered" /\ ctl' = "stopWaiting" /\ pc' = WakeAll(pc)
        /\ stopRequested' = [w \in Workers |-> stopRequested[w] \/ (w \in Threads /\ ~IsIdle(w))]
    BY <1>9 DEF StopAndWait
  <2>2. \A w \in Workers : ~stopRequested[w]
    BY <1>1, <2>1, Zenon
  <2>3. ASSUME NEW w \in Workers, w \in Threads, ~IsIdle(w) PROVE Asleep(w)'
    <3>1. pc[w] \in {"top", "working"}
      BY <1>0, <2>1, <2>3 DEF Threads, IsIdle, WorkerStates, EndInv, ExitInv, EndedWhenJoining
    <3>2. pc'[w] = pc[w]
      BY <2>1, <3>1 DEF WakeAll
    <3> QED  BY <2>1, <3>1, <3>2
  <2>4. \A w \in Workers : stopRequested'[w] => w \in Threads /\ ~IsIdle(w)
    BY <2>1, <2>2, Zenon
  <2> QED  BY <1>2, <2>3, <2>4, Zenon
<1>10. CASE StopAtOnce
  <2>1. \A w \in Workers : ~Asleep(w)
    BY <1>10 DEF StopAtOnce
  <2> QED  BY <1>3, <1>10, <2>1 DEF StopAtOnce
<1>11. CASE StopFinish \/ WaitReturn \/ WaitTimeout
  <2>1. /\ UNCHANGED <<stopRequested, pc, flag>>
        /\ ctl \in {"stopWoken", "woken", "waiting"} /\ ctl' \in {"free", "stopDone"}
    BY <1>11 DEF StopFinish, AfterStop, WaitReturn, WaitTimeout
  <2>2. running' = running \/ running' = FALSE
    BY <1>11 DEF StopFinish, WaitReturn, WaitTimeout
  <2>3. \A w \in Workers : Asleep(w) => Asleep(w)'
    <3>1. ctl # "stopWaiting" /\ ctl' # "stopEntered"
      BY <2>1
    <3> QED  BY <2>1, <2>2, <3>1, Zenon
  <2>4. ctl # "joining"
    BY <2>1
  <2> QED  BY <1>3, <2>1, <2>3, <2>4, Zenon
<1>12. CASE SyncFetch \/ SyncPerform \/ SyncEnd
            \/ \E result \in {"performed", "deleted"} : SyncHookThrows(result)
  <2>1. /\ UNCHANGED <<stopRequested, pc, flag>>
        /\ ctl \in {"sync", "syncTask"} /\ ctl' \in {"sync", "syncTask", "free"}
    BY <1>12 DEF SyncFetch, SyncPerform, SyncEnd, SyncHookThrows
  <2>2. running' = running \/ running' = FALSE
    BY <1>12 DEF SyncFetch, SyncPerform, SyncEnd, SyncHookThrows
  <2>3. \A w \in Workers : Asleep(w) => Asleep(w)'
    <3>1. ctl # "stopWaiting" /\ ctl' # "stopEntered"
      BY <2>1
    <3> QED  BY <2>1, <2>2, <3>1, Zenon
  <2>4. ctl # "joining"
    BY <2>1
  <2> QED  BY <1>3, <2>1, <2>3, <2>4, Zenon
<1>13. CASE SyncStart
  <2>1. \A w \in Workers : ~Asleep(w)
    BY <1>13 DEF SyncStart, PoolInv, WorkersFit, Threads, Workers
  <2> QED  BY <1>3, <1>13, <2>1 DEF SyncStart
<1>14. CASE WaitCall \/ \E caller \in Callers : StopCall(caller)
  <2>1. UNCHANGED <<stopRequested, pc, flag, running>> /\ ctl = "free"
    BY <1>14 DEF WaitCall, StopCall
  <2>2. running \/ ctl' = "stopDone"
    BY <1>14 DEF WaitCall, StopCall
  <2>3. \A w \in Workers : Asleep(w) => Asleep(w)'
    BY <2>1, <2>2
  <2> QED  BY <1>3, <2>1, <2>3
<1>15. ~SpuriousController
  BY DEF SpuriousController
<1> QED
  BY <1>4, <1>5, <1>6, <1>7, <1>8, <1>9, <1>10, <1>11, <1>12, <1>13, <1>14, <1>15
  DEF Next, ControllerStep, ControllerCall

-----------------------------------------------------------------------------
(* Along a behaviour.  The build is chosen once, which the steps above use *)
(* and [Next]_vars does not say.                                           *)
LEMMA BuildStep ==
  [Next /\ UNCHANGED build]_<<vars, build>> => [Next]_vars /\ UNCHANGED build
OBVIOUS

LEMMA EndStep == PoolInv /\ EndInv /\ [Next]_vars /\ UNCHANGED build => EndInv'
<1> SUFFICES ASSUME PoolInv, EndInv, [Next]_vars, UNCHANGED build PROVE EndInv'
  OBVIOUS
<1>1. TypeOK /\ ExitInv /\ StoppingWhileWaiting /\ AwakeMeansOver
  BY DEF PoolInv, EndInv
<1>2. ExitInv' /\ StoppingWhileWaiting'
  BY <1>1, ExitStep, StoppingStep
<1>3. RequestedAsleep' /\ AwakeMeansOver'
  BY <1>1, RequestedStep, AwakeStep
<1> QED  BY <1>2, <1>3 DEF EndInv

LEMMA EndInvariant == Spec => []EndInv
BY PoolInvariant, EndInit, EndStep, BuildStep, PTL DEF Spec

(* A thread that has ended left nothing in its own list (JobBase::         *)
(* get_task, terminate): the thread a later start creates for that list    *)
(* finds no old StartTask or ExitTask.                                     *)
THEOREM EndedThreadsLeaveNothing == Spec => []ExitIsLast
<1>1. EndInv => ExitIsLast
  BY DEF EndInv, ExitInv
<1> QED  BY <1>1, EndInvariant, PTL

(* When wait () goes on after its wake-up the run is over (JobBase::wait): *)
(* no task waits, none is performed and m_running is false, though other   *)
(* threads may have had the lock in between.                               *)
THEOREM WaitReturnsWhenDone == Spec => []WaitMeansDone
<1>1. EndInv => WaitMeansDone
  BY DEF EndInv, AwakeMeansOver, WaitMeansDone
<1> QED  BY <1>1, EndInvariant, PTL

(* When stop () goes on after its wait no task is left and no worker is    *)
(* active (JobBase::stop), what its comment guarantees.                    *)
THEOREM StopIsEffective == Spec => []StopQuiesces
<1>1. EndInv => StopQuiesces
  BY DEF EndInv, AwakeMeansOver, StopQuiesces
<1> QED  BY <1>1, EndInvariant, PTL

(* A step that aborts a task is a checkpoint of a worker with a request.   *)
LEMMA AbortedByCheckpoint ==
  ASSUME TypeOK, [Next]_vars,
         NEW t \in Tasks, outcome[t] = "active", outcome'[t] = "aborted"
  PROVE  \E w \in Workers : stopRequested[w] /\ pc[w] = "working"
<1>1. outcome \in [Tasks -> Outcomes]
  BY DEF TypeOK, HistoryTypeOK
<1> USE DEF history
<1>2. ~ UNCHANGED vars
  BY DEF vars
<1>3. ASSUME NEW u \in Tasks, Schedule(u) \/ ScheduleRefused(u) PROVE FALSE
  BY <1>1, <1>3 DEF Schedule, ScheduleRefused
<1>4. ASSUME NEW w \in Workers, WorkerStep(w) \/ SpuriousWorker(w) PROVE Abort(w)
  BY <1>1, <1>4 DEF WorkerStep, TakeStart, TakeExit, TakeTask, GoIdle, SleepAgain, SeeFlag,
    Complete, Fail, EndTask, SpuriousWorker
<1>5. ~ ControllerStep
  BY <1>1 DEF ControllerStep, WaitReturn, StopAndWait, StopAtOnce, StopFinish, SendExits, Join,
    DeleteQueued, SyncFetch, SyncEnd, SyncPerform, SyncHookThrows
<1>6. ~ ControllerCall /\ ~ SpuriousController
  BY DEF ControllerCall, Start, SyncStart, WaitCall, WaitTimeout, StopCall, SpuriousController
<1>7. \E w \in Workers : Abort(w)
  BY <1>2, <1>3, <1>4, <1>5, <1>6, Zenon DEF Next
<1> QED  BY <1>7, Zenon DEF Abort, EndTask

(* A task is aborted (Worker::checkpoint) only while stop () waits or      *)
(* terminate () joins: no stop request survives into a later run.          *)
THEOREM NoLateAbort == Spec => AbortOnlyWhenStopping
<1>1. ASSUME PoolInv, EndInv, [Next]_vars
      PROVE  \A t \in Tasks : build # "pthread" /\ outcome[t] = "active"
                                 /\ outcome'[t] = "aborted" =>
               ctl \in {"stopWaiting", "stopWoken", "joining"}
  <2> SUFFICES ASSUME NEW t \in Tasks, build # "pthread",
                      outcome[t] = "active", outcome'[t] = "aborted"
               PROVE  ctl = "stopWaiting" \/ ctl = "joining"
    BY <1>1
  <2>1. PICK w \in Workers : stopRequested[w] /\ pc[w] = "working"
    BY <1>1, AbortedByCheckpoint DEF PoolInv
  <2>2. ctl # "joining" => Asleep(w)
    BY <1>1, <2>1, Zenon DEF EndInv, RequestedAsleep, Requested
  <2> QED  BY <2>1, <2>2 DEF Asleep
<1> QED
  BY <1>1, PoolInvariant, EndInvariant, BuildStep, PTL DEF Spec, AbortOnlyWhenStopping
=============================================================================
