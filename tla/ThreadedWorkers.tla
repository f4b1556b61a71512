-------------------------- MODULE ThreadedWorkers --------------------------
(***************************************************************************)
(* The worker pool of the tool library: tl::JobBase, tl::Worker and        *)
(* tl::TaskList (tl/tlThreadedWorkers.h, .cc).  One controller thread      *)
(* schedules tasks and calls start, wait, stop, terminate and              *)
(* set_num_workers; the worker threads loop in get_task / perform_task.    *)
(*                                                                         *)
(* Every section the code runs under m_lock is one step.  A wait on a      *)
(* condition ends its step: the thread is then "waiting", a wake-up makes  *)
(* it "woken", and the code after the wait is a step of its own that runs  *)
(* when the thread has the lock again.  What the code reads without the    *)
(* lock (m_running at the head of stop, m_stop_requested in checkpoint)    *)
(* is read in a separate step.                                             *)
(***************************************************************************)
EXTENDS Integers, Sequences, FiniteSets

CONSTANTS
  MaxWorkers,  \* largest number of worker threads a job is given
  MaxTasks,    \* bound: tasks scheduled in a behaviour
  MaxStart,    \* bound: StartTasks a worker may have pending when start is called
  MaxErrors,   \* max_errors
  Builds       \* the builds considered, each with its WaitCondition, see WakeModes

(* tl::WaitCondition is QWaitCondition in the default build ("qt"), a      *)
(* pthread condition with HAVE_PTHREADS ("pthread": the wait may return    *)
(* without a wake-up), or one atomic flag shared by all waiters with       *)
(* HAVE_CPP20 ("cpp20": a new waiter clears the flag for everyone).        *)
WakeModes == {"qt", "pthread", "cpp20"}

ASSUME WorkersAssumption == MaxWorkers \in Nat
ASSUME BoundsAssumption == MaxTasks \in Nat /\ MaxStart \in Nat /\ MaxErrors \in Nat
ASSUME BuildsAssumption == Builds \subseteq WakeModes

Workers == 1..MaxWorkers
SyncWorker == 0                  \* the temporary worker of a job without threads
Performers == {SyncWorker} \cup Workers
Tasks == 1..MaxTasks             \* numbered in the order schedule puts them
NoTask == 0

VARIABLES
  nworkers,       \* m_nworkers
  idleWorkers,    \* m_idle_workers
  stopping,       \* m_stopping
  running,        \* m_running
  taskList,       \* m_task_list
  ownList,        \* mp_per_worker_task_lists: StartTasks and ExitTasks
  errors,         \* m_error_messages, its length
  stopRequested,  \* Worker::m_stop_requested
  pc,             \* where each worker thread is
  current,        \* the task a worker performs
  flag,           \* "cpp20": the flag of m_task_available_condition
  ctl,            \* where the controller is
  after,          \* what the controller does once stop () is over
  outcome,        \* history: what became of each task
  finishedCalls,  \* history: calls of finished () since start ()
  build           \* which build it is: chosen at the beginning, never changed

jobVars == <<nworkers, idleWorkers, stopping, running, taskList, ownList, errors>>
threadVars == <<stopRequested, pc, current, flag>>
ctlVars == <<ctl, after>>
history == <<outcome, finishedCalls>>
vars == <<jobVars, threadVars, ctlVars, history>>

(* A worker thread: not created; about to lock in get_task; waiting on     *)
(* m_task_available_condition; woken there; in perform_task; returned from *)
(* run ().                                                                 *)
WorkerStates == {"none", "top", "waiting", "woken", "working", "exited"}

(* The controller: outside JobBase; waiting or woken in wait (); past the  *)
(* test of m_running in stop (), waiting or woken there; past stop () in   *)
(* terminate (); joining the threads; in the loop of a synchronous start,  *)
(* between two tasks or in one.                                            *)
CtlStates == {"free", "waiting", "woken", "stopEntered", "stopWaiting",
              "stopWoken", "stopDone", "joining", "sync", "syncTask"}

(* after: stop () was called alone, by terminate () or by set_num_workers  *)
(* with a new number.                                                      *)
Callers == [op : {"stop", "terminate"}] \cup [op : {"resize"}, n : 0..MaxWorkers]

Outcomes == {"unborn", "queued", "active", "performed", "aborted", "deleted"}

-----------------------------------------------------------------------------
(* The state of the pool seen through the code's own tests.                *)

Threads_Free == {w \in Workers : pc[w] \notin {"none", "working"}}    \* a fault
Threads == {w \in Workers : pc[w] # "none"}          \* mp_workers
IsIdle(w) == pc[w] \in {"waiting", "woken"}          \* Worker::is_idle
NothingFor(w) == taskList = <<>> /\ ownList[w] = <<>>
Fetchable(w) == pc[w] \in {"top", "woken"}

(* m_task_available_condition.wakeAll (): with the atomic flag the waiters *)
(* see the wake-up only when they get to test the flag.                    *)
WakeAll(pcs) ==
  IF build = "cpp20" THEN pcs
  ELSE [w \in Workers |-> IF pcs[w] = "waiting" THEN "woken" ELSE pcs[w]]
RaiseFlag == flag' = (build = "cpp20")

(* m_queue_empty_condition.wakeAll (): its one waiter is the controller.   *)
WakeController_Lost(c) == c                            \* a fault
WakeController(c) ==
  CASE c = "waiting" -> "woken" [] c = "stopWaiting" -> "stopWoken" [] OTHER -> c

(* Deleting every task of m_task_list (stop, cleanup).                     *)
DeleteQueued == [t \in Tasks |-> IF outcome[t] = "queued" THEN "deleted" ELSE outcome[t]]

Init ==
  /\ build \in Builds
  /\ nworkers \in 0..MaxWorkers
  /\ idleWorkers = 0
  /\ stopping = FALSE
  /\ running = FALSE
  /\ taskList = <<>>
  /\ ownList = [w \in Workers |-> <<>>]
  /\ errors = 0
  /\ stopRequested = [w \in Workers |-> FALSE]
  /\ pc = [w \in Workers |-> "none"]
  /\ current = [w \in Performers |-> NoTask]
  /\ flag = FALSE
  /\ ctl = "free"
  /\ after = [op |-> "stop"]
  /\ outcome = [t \in Tasks |-> "unborn"]
  /\ finishedCalls = 0

-----------------------------------------------------------------------------
(* Scheduling: by the controller, by a task in a worker thread, or by a    *)
(* task of a synchronous job.                                              *)

CanSchedule == ctl \in {"free", "syncTask"} \/ \E w \in Workers : pc[w] = "working"

IsNext(t) == outcome[t] = "unborn" /\ \A u \in 1..(t - 1) : outcome[u] # "unborn"

Put_InFront(list, t) == <<t>> \o list                  \* a fault
Put(list, t) == Append(list, t)                        \* TaskList::put

Schedule(t) ==
  /\ CanSchedule
  /\ IsNext(t)
  /\ ~stopping
  /\ taskList' = Put(taskList, t)
  /\ outcome' = [outcome EXCEPT ![t] = "queued"]
  /\ IF running THEN pc' = WakeAll(pc) /\ RaiseFlag ELSE UNCHANGED <<pc, flag>>
  /\ UNCHANGED <<nworkers, idleWorkers, stopping, running, ownList, errors,
                 stopRequested, current, ctlVars, finishedCalls>>

ScheduleRefused(t) ==
  /\ CanSchedule
  /\ IsNext(t)
  /\ stopping
  /\ outcome' = [outcome EXCEPT ![t] = "deleted"]
  /\ UNCHANGED <<jobVars, threadVars, ctlVars, finishedCalls>>

-----------------------------------------------------------------------------
(* The worker threads: JobBase::get_task and Worker::run.                  *)

(* A worker that leaves the wait gives up its place among the idle ones.   *)
IdleAfterFetch_Forgets(w) == idleWorkers               \* a fault
IdleAfterFetch(w) == IF pc[w] = "woken" THEN idleWorkers - 1 ELSE idleWorkers

TakeStart(w) ==
  /\ Fetchable(w)
  /\ ownList[w] # <<>> /\ Head(ownList[w]) = "start"
  /\ ownList' = [ownList EXCEPT ![w] = Tail(@)]
  /\ idleWorkers' = IdleAfterFetch(w)
  /\ pc' = [pc EXCEPT ![w] = "top"]
  /\ UNCHANGED <<nworkers, stopping, running, taskList, errors,
                 stopRequested, current, flag, ctlVars, history>>

TakeExit(w) ==
  /\ Fetchable(w)
  /\ ownList[w] # <<>> /\ Head(ownList[w]) = "exit"
  /\ ownList' = [ownList EXCEPT ![w] = Tail(@)]
  /\ idleWorkers' = IdleAfterFetch(w)
  /\ pc' = [pc EXCEPT ![w] = "exited"]
  /\ UNCHANGED <<nworkers, stopping, running, taskList, errors,
                 stopRequested, current, flag, ctlVars, history>>

TakeTask(w) ==
  /\ Fetchable(w)
  /\ ownList[w] = <<>> /\ taskList # <<>>
  /\ taskList' = Tail(taskList)
  /\ current' = [current EXCEPT ![w] = Head(taskList)]
  /\ outcome' = [outcome EXCEPT ![Head(taskList)] = "active"]
  /\ idleWorkers' = IdleAfterFetch(w)
  /\ pc' = [pc EXCEPT ![w] = "working"]
  /\ UNCHANGED <<nworkers, stopping, running, ownList, errors,
                 stopRequested, flag, ctlVars, finishedCalls>>

AllIdle_OneShort(n) == n + 1 >= nworkers               \* a fault
AllIdle(n) == n = nworkers

GoIdle(w) ==
  /\ pc[w] = "top"
  /\ NothingFor(w)
  /\ idleWorkers' = idleWorkers + 1
  /\ pc' = [pc EXCEPT ![w] = "waiting"]
  /\ flag' = FALSE
  /\ IF AllIdle(idleWorkers')
     THEN /\ finishedCalls' = IF stopping THEN finishedCalls ELSE finishedCalls + 1
          /\ running' = FALSE
          /\ ctl' = WakeController(ctl)
     ELSE UNCHANGED <<finishedCalls, running, ctl>>
  /\ UNCHANGED <<nworkers, stopping, taskList, ownList, errors,
                 stopRequested, current, after, outcome>>

(* Woken with nothing to do: the inner loop waits again.                   *)
SleepAgain(w) ==
  /\ pc[w] = "woken"
  /\ NothingFor(w)
  /\ pc' = [pc EXCEPT ![w] = "waiting"]
  /\ flag' = FALSE
  /\ UNCHANGED <<jobVars, stopRequested, current, ctlVars, history>>

(* "cpp20": the waiter tests the flag and finds it set.                    *)
SeeFlag(w) ==
  /\ build = "cpp20" /\ flag
  /\ pc[w] = "waiting"
  /\ pc' = [pc EXCEPT ![w] = "woken"]
  /\ UNCHANGED <<jobVars, stopRequested, current, flag, ctlVars, history>>

LogError == IF errors <= MaxErrors THEN errors + 1 ELSE errors

(* perform_task returns or throws; Worker::run goes back to get_task.      *)
EndTask(w, result) ==
  /\ pc[w] = "working"
  /\ outcome' = [outcome EXCEPT ![current[w]] = result]
  /\ current' = [current EXCEPT ![w] = NoTask]
  /\ pc' = [pc EXCEPT ![w] = "top"]
  /\ UNCHANGED <<nworkers, idleWorkers, stopping, running, taskList, ownList,
                 stopRequested, flag, ctlVars, finishedCalls>>

Complete(w) == EndTask(w, "performed") /\ UNCHANGED errors
Fail(w) == EndTask(w, "performed") /\ errors' = LogError
Abort(w) == stopRequested[w] /\ EndTask(w, "aborted") /\ UNCHANGED errors  \* checkpoint

-----------------------------------------------------------------------------
(* The controller.                                                         *)

ResetStopRequests_Not == stopRequested                 \* a fault
ResetStopRequests == [w \in Workers |-> FALSE]

(* start () with worker threads: a StartTask for each, the threads created *)
(* on the first start.                                                     *)
Start ==
  /\ ctl = "free" /\ ~running /\ nworkers > 0
  /\ \A w \in 1..nworkers : Len(ownList[w]) < MaxStart
  /\ errors' = 0
  /\ running' = TRUE
  /\ ownList' = [w \in Workers |-> IF w <= nworkers THEN <<"start">> \o ownList[w] ELSE <<>>]
  /\ pc' = IF Threads = {}
           THEN [w \in Workers |-> IF w <= nworkers THEN "top" ELSE "none"]
           ELSE WakeAll(pc)
  /\ RaiseFlag
  /\ stopRequested' = ResetStopRequests
  /\ finishedCalls' = 0
  /\ UNCHANGED <<nworkers, idleWorkers, stopping, taskList, current, ctlVars, outcome>>

WaitCall ==
  /\ ctl = "free" /\ nworkers > 0 /\ running
  /\ ctl' = "waiting"
  /\ UNCHANGED <<jobVars, threadVars, after, history>>

WaitReturn ==
  /\ ctl = "woken"
  /\ ctl' = "free"
  /\ UNCHANGED <<jobVars, threadVars, after, history>>

WaitTimeout ==
  /\ ctl = "waiting"
  /\ ctl' = "free"
  /\ UNCHANGED <<jobVars, threadVars, after, history>>

(* stop () tests m_running before it takes the lock.                       *)
StopCall(caller) ==
  /\ ctl = "free"
  /\ running \/ caller.op # "stop"
  /\ ctl' = IF running THEN "stopEntered" ELSE "stopDone"
  /\ after' = caller
  /\ UNCHANGED <<jobVars, threadVars, history>>

AfterStop == IF after.op = "stop" THEN "free" ELSE "stopDone"

(* The section of stop () up to the wait, when some worker is not idle ... *)
StopAndWait ==
  /\ ctl = "stopEntered"
  /\ \E w \in Threads : ~IsIdle(w)
  /\ stopping' = TRUE
  /\ taskList' = <<>>
  /\ outcome' = DeleteQueued
  /\ stopRequested' = [w \in Workers |-> stopRequested[w] \/ (w \in Threads /\ ~IsIdle(w))]
  /\ pc' = WakeAll(pc)
  /\ RaiseFlag
  /\ ctl' = "stopWaiting"
  /\ UNCHANGED <<nworkers, idleWorkers, running, ownList, errors, current,
                 after, finishedCalls>>

(* ... and when all are: it runs to its end.                               *)
StopAtOnce ==
  /\ ctl = "stopEntered"
  /\ \A w \in Threads : IsIdle(w)
  /\ taskList' = <<>>
  /\ outcome' = DeleteQueued
  /\ running' = FALSE
  /\ ctl' = AfterStop
  /\ UNCHANGED <<nworkers, idleWorkers, stopping, ownList, errors, threadVars,
                 after, finishedCalls>>

StopFinish ==
  /\ ctl = "stopWoken"
  /\ stopping' = FALSE
  /\ running' = FALSE
  /\ ctl' = AfterStop
  /\ UNCHANGED <<nworkers, idleWorkers, taskList, ownList, errors, threadVars,
                 after, outcome, finishedCalls>>

AddExit_InFront(list) == <<"exit">> \o list            \* a fault
AddExit(list) == Append(list, "exit")

(* terminate () after stop (): ExitTasks for the threads, if there are any *)
(* ... then set_num_workers installs the new number.                       *)
SendExits ==
  /\ ctl = "stopDone" /\ Threads # {}
  /\ stopRequested' = [w \in Workers |-> stopRequested[w] \/ w \in Threads]
  /\ ownList' = [w \in Workers |-> IF w \in Threads THEN AddExit(ownList[w]) ELSE <<>>]
  /\ pc' = WakeAll(pc)
  /\ RaiseFlag
  /\ ctl' = "joining"
  /\ UNCHANGED <<nworkers, idleWorkers, stopping, running, taskList, errors,
                 current, after, history>>

SetNumWorkers ==
  IF after.op = "resize"
  THEN /\ nworkers' = after.n
       /\ idleWorkers' = 0
       /\ ownList' = [w \in Workers |-> <<>>]
  ELSE UNCHANGED <<nworkers, idleWorkers, ownList>>

(* The threads have ended and the Worker objects are deleted.              *)
Join ==
  /\ \/ ctl = "stopDone" /\ Threads = {}
     \/ ctl = "joining" /\ \A w \in Threads : pc[w] = "exited"
  /\ SetNumWorkers
  /\ pc' = [w \in Workers |-> "none"]
  /\ stopRequested' = [w \in Workers |-> FALSE]
  /\ ctl' = "free"
  /\ after' = [op |-> "stop"]
  /\ UNCHANGED <<stopping, running, taskList, errors, current, flag, history>>

(* start () without worker threads: the tasks run in the caller's thread.  *)
SyncStart ==
  /\ ctl = "free" /\ ~running /\ nworkers = 0
  /\ errors' = 0
  /\ running' = TRUE
  /\ ctl' = "sync"
  /\ finishedCalls' = 0
  /\ UNCHANGED <<nworkers, idleWorkers, stopping, taskList, ownList, threadVars,
                 after, outcome>>

SyncFetch ==
  /\ ctl = "sync" /\ taskList # <<>>
  /\ taskList' = Tail(taskList)
  /\ current' = [current EXCEPT ![SyncWorker] = Head(taskList)]
  /\ outcome' = [outcome EXCEPT ![Head(taskList)] = "active"]
  /\ ctl' = "syncTask"
  /\ UNCHANGED <<nworkers, idleWorkers, stopping, running, ownList, errors,
                 stopRequested, pc, flag, after, finishedCalls>>

(* perform_task returns or throws, after_sync_task returns.                *)
SyncPerform ==
  /\ ctl = "syncTask"
  /\ outcome' = [outcome EXCEPT ![current[SyncWorker]] = "performed"]
  /\ current' = [current EXCEPT ![SyncWorker] = NoTask]
  /\ errors' \in {errors, LogError}
  /\ ctl' = "sync"
  /\ UNCHANGED <<nworkers, idleWorkers, stopping, running, taskList, ownList,
                 stopRequested, pc, flag, after, finishedCalls>>

(* before_sync_task throws (the task is deleted unperformed) or            *)
(* after_sync_task does: cleanup (), and start () throws in turn.          *)
SyncHookThrows(result) ==
  /\ ctl = "syncTask"
  /\ outcome' = [DeleteQueued EXCEPT ![current[SyncWorker]] = result]
  /\ current' = [current EXCEPT ![SyncWorker] = NoTask]
  /\ errors' \in IF result = "performed" THEN {errors, LogError} ELSE {errors}
  /\ taskList' = <<>>
  /\ running' = FALSE
  /\ ctl' = "free"
  /\ UNCHANGED <<nworkers, idleWorkers, stopping, ownList, stopRequested, pc,
                 flag, after, finishedCalls>>

SyncEnd ==
  /\ ctl = "sync" /\ taskList = <<>>
  /\ finishedCalls' = finishedCalls + 1
  /\ running' = FALSE
  /\ ctl' = "free"
  /\ UNCHANGED <<nworkers, idleWorkers, stopping, taskList, ownList, errors,
                 threadVars, after, outcome>>

-----------------------------------------------------------------------------
(* pthread_cond_wait may return without a wake-up.                         *)
SpuriousWorker(w) ==
  /\ build = "pthread"
  /\ pc[w] = "waiting"
  /\ pc' = [pc EXCEPT ![w] = "woken"]
  /\ UNCHANGED <<jobVars, stopRequested, current, flag, ctlVars, history>>

SpuriousController ==
  /\ build = "pthread"
  /\ ctl \in {"waiting", "stopWaiting"}
  /\ ctl' = WakeController(ctl)
  /\ UNCHANGED <<jobVars, threadVars, after, history>>

WorkerStep(w) ==
  \/ TakeStart(w) \/ TakeExit(w) \/ TakeTask(w) \/ GoIdle(w) \/ SleepAgain(w)
  \/ SeeFlag(w) \/ Complete(w) \/ Fail(w) \/ Abort(w)

ControllerStep ==
  \/ WaitReturn \/ StopAndWait \/ StopAtOnce \/ StopFinish \/ SendExits \/ Join
  \/ SyncFetch \/ SyncEnd
  \/ SyncPerform
  \/ \E result \in {"performed", "deleted"} : SyncHookThrows(result)

ControllerCall ==
  \/ Start \/ SyncStart \/ WaitCall \/ WaitTimeout
  \/ \E caller \in Callers : StopCall(caller)

Next ==
  \/ \E t \in Tasks : Schedule(t) \/ ScheduleRefused(t)
  \/ \E w \in Workers : WorkerStep(w) \/ SpuriousWorker(w)
  \/ SpuriousController
  \/ ControllerStep
  \/ ControllerCall

(* The operating system runs every thread that can run, a task ends (or    *)
(* reaches a checkpoint once stop is requested), and the controller goes   *)
(* on with the call it is in.  Nobody is obliged to make a call.           *)
Fairness ==
  /\ \A w \in Workers : WF_vars(WorkerStep(w))
  /\ WF_vars(ControllerStep)

Spec == Init /\ [][Next /\ UNCHANGED build]_<<vars, build>>
FairSpec == Spec /\ Fairness

-----------------------------------------------------------------------------
(* Properties.                                                             *)

Performing == {w \in Performers : current[w] # NoTask}
Quiet == taskList = <<>> /\ Performing = {}

JobTypeOK ==
  /\ nworkers \in 0..MaxWorkers /\ idleWorkers \in 0..MaxWorkers
  /\ taskList \in Seq(Tasks)
  /\ ownList \in [Workers -> Seq({"start", "exit"})]
  /\ errors \in 0..(MaxErrors + 1)
ThreadTypeOK ==
  /\ stopRequested \in [Workers -> BOOLEAN]
  /\ pc \in [Workers -> WorkerStates]
  /\ current \in [Performers -> Tasks \cup {NoTask}]
FlagTypeOK == stopping \in BOOLEAN /\ running \in BOOLEAN /\ flag \in BOOLEAN
CtlTypeOK == ctl \in CtlStates /\ after \in Callers
HistoryTypeOK ==
  /\ outcome \in [Tasks -> Outcomes]
  /\ finishedCalls \in Nat

(* Every variable stays within its range: the error list within its limit, *)
(* m_idle_workers between zero and the number of workers.                  *)
TypeOK == JobTypeOK /\ ThreadTypeOK /\ FlagTypeOK /\ CtlTypeOK /\ HistoryTypeOK

(* m_idle_workers is the number of workers that sit in the wait of         *)
(* get_task: the comparison with m_nworkers, which alone decides that a    *)
(* run is over, compares the right number.                                 *)
Idle == {w \in Workers : IsIdle(w)}
IdleCountExact == idleWorkers = Cardinality(Idle)

(* A worker has a task exactly while it is in perform_task, no thread      *)
(* lives beyond the number of workers, and a synchronous run has none.     *)
WorkersFit ==
  /\ \A w \in Workers : current[w] # NoTask <=> pc[w] = "working"
  /\ current[SyncWorker] # NoTask <=> ctl = "syncTask"
  /\ \A w \in Threads : w <= nworkers
  /\ ctl \in {"sync", "syncTask"} => nworkers = 0

(* No task is lost and none is performed twice: a queued task is in the    *)
(* list once, in the order schedule received the tasks, an active one has  *)
(* one performer, and every other one neither waits nor runs.              *)
QueueInOrder == \A i, j \in 1..Len(taskList) : i < j => taskList[i] < taskList[j]
QueuedInList == \A t \in Tasks : outcome[t] = "queued" <=> \E i \in 1..Len(taskList) : taskList[i] = t
ActivePerformed == \A t \in Tasks : outcome[t] = "active" <=> \E w \in Performers : current[w] = t
OnePerformer == \A v, w \in Performing : current[v] = current[w] => v = w
BornInOrder == \A t, u \in Tasks : t < u /\ outcome[t] = "unborn" => outcome[u] = "unborn"
TasksConserved ==
  QueueInOrder /\ QueuedInList /\ ActivePerformed /\ OnePerformer /\ BornInOrder

(* The pool behind its interface: JobContract with the task list as queue. *)
Gone == {t \in Tasks : outcome[t] \in {"performed", "aborted", "deleted"}}
Contract == INSTANCE JobContract WITH
  Servers <- Performers, Nothing <- NoTask,
  queue <- taskList, slot <- current, gone <- Gone, told <- finishedCalls

(* Every step of the pool is a step of JobContract or invisible there:     *)
(* tasks are handed out in order, each once, and finished () is never      *)
(* called while a task waits or is performed, whatever the threads do.     *)
ImplementsContract == Contract!Spec

(* When wait () gets its lock back after a wake-up, the run is over and no *)
(* task waits or is performed (a spurious wake-up aside: the code does not *)
(* look again).                                                            *)
WaitMeansDone == ctl = "woken" /\ build # "pthread" => ~running /\ Quiet

(* When the wait inside stop () is over, no worker is active and no task   *)
(* is left ("It is guaranteed that the job is stopped and no worker is     *)
(* active after stop has been called").                                    *)
StopQuiesces == ctl = "stopWoken" /\ build # "pthread" => Quiet

(* A task is aborted only while stop () or terminate () is under way: no   *)
(* stop request survives into the next run and kills a task of it.  In the *)
(* pthread build a spurious wake-up ends stop () before its workers.       *)
AbortOnlyWhenStopping ==
  [][\A t \in Tasks : build # "pthread" /\ outcome[t] = "active" /\ outcome'[t] = "aborted" =>
        ctl \in {"stopWaiting", "stopWoken", "joining"}]_vars

(* A worker thread ends only after everything put into its own list was    *)
(* taken: no StartTask or ExitTask is left to stop the thread that a later *)
(* start creates for the same list.                                        *)
ExitIsLast == \A w \in Workers : pc[w] = "exited" => ownList[w] = <<>>

(* Every run ends: some worker notices that all are idle, or it is stopped.*)
RunEnds == running ~> ~running

(* wait, stop, terminate, set_num_workers and a synchronous start return:  *)
(* no wake-up is lost.                                                     *)
CallsReturn == (ctl # "free") ~> (ctl = "free")
=============================================================================
