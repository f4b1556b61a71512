------------------------- MODULE DeferredExecution -------------------------
(***************************************************************************)
(* Deferred calls: tl::DeferredMethod and tl::DeferredMethodScheduler      *)
(* (tl/tlDeferredExecution.h, .cc) with the Qt event loop underneath       *)
(* (tlDeferredExecutionQt.cc).                                             *)
(*                                                                         *)
(* A call may be scheduled by any thread.  Everything else happens on the  *)
(* main thread, which is in its event loop or in a stack of do_execute     *)
(* activations: a handler may call execute () or run an event loop of its  *)
(* own (a message box, processEvents), and there the next one begins.      *)
(* What the code does under m_lock is one step; the reset of m_scheduled   *)
(* of a method, outside of the lock, is a step with the call it precedes.  *)
(***************************************************************************)
EXTENDS Integers, Sequences, FiniteSets, SequencesExt

CONSTANTS
    Methods,       \* the DeferredMethod objects
    Compressed,    \* those with m_compressed
    HandlersThrow, \* whether the method called may throw
    MaxNesting,    \* bound: activations of do_execute at a time
    MaxCalls       \* bound: calls that user code makes in a behaviour

ASSUME MethodsAssumption == Compressed \subseteq Methods /\ HandlersThrow \in BOOLEAN
ASSUME BoundsAssumption == MaxNesting \in Nat /\ MaxCalls \in Nat

VARIABLES
    methods,   \* m_methods: the calls queued
    executing, \* m_executing: the calls of the round being executed
    unqueued,  \* m_unqueued: methods cancelled during the round
    scheduled, \* m_scheduled of the scheduler: an event has been queued
    flag,      \* m_scheduled of each method
    disabled,  \* m_disabled
    events,    \* events posted and not delivered
    timer,     \* m_timer is active
    stack,     \* activations of do_execute, innermost last
    asked,     \* history: calls a method is owed
    spoiled,   \* history: methods that had a call taken from the round without being executed
    calls      \* calls made by user code

queue == <<methods, executing, unqueued, scheduled, flag>>
loop == <<events, timer>>
history == <<asked, spoiled>>
vars == <<queue, disabled, loop, stack, history, calls>>

(* An activation is before its first lock; at the lock inside the loop;    *)
(* past it with a valid method; in the method called; past the loop.       *)
Places == {"enter", "check", "valid", "running", "finish"}
Activation(via, at, pos) == [via |-> via, at |-> at, pos |-> pos]
Activations == [via : {"event", "execute"}, at : Places, pos : Nat]

Top == stack[Len(stack)]
SetTop(frame) == stack' = [stack EXCEPT ![Len(stack)] = frame]
Pop == stack' = Front(stack)
At(place) == stack # <<>> /\ Top.at = place
Goto(place, pos) == SetTop([Top EXCEPT !.at = place, !.pos = pos])

\* User code runs on the main thread: no activation, or in a method called by the innermost.
UserCode == (stack = <<>> \/ At("running")) /\ calls < MaxCalls
Call == calls' = calls + 1
CanNest == Len(stack) < MaxNesting

Init ==
    /\ methods = <<>> /\ executing = <<>> /\ unqueued = {}
    /\ scheduled = FALSE /\ flag = [m \in Methods |-> FALSE]
    /\ disabled = 0 /\ events = 0 /\ timer = FALSE /\ stack = <<>>
    /\ asked = [m \in Methods |-> 0] /\ spoiled = {} /\ calls = 0

-----------------------------------------------------------------------------
(* What is left of the round                                               *)

Found(seq, pos, m) == {i \in pos..Len(seq) : seq[i] = m}
CountFrom(seq, pos, m) == Cardinality(Found(seq, pos, m))
Occurrences(seq, m) == CountFrom(seq, 1, m)

\* An activation that has not locked yet has not touched the round of the one below.
Current == IF At("enter") THEN Len(stack) - 1 ELSE Len(stack)

\* The position of the first call that is left, behind the end if none is.
NextPos ==
    IF Current = 0 THEN Len(executing) + 1
    ELSE LET a == stack[Current]
         IN  CASE a.at \in {"check", "valid"} -> a.pos
               [] a.at = "running" -> a.pos + 1
               [] OTHER -> Len(executing) + 1
Left(m) == CountFrom(executing, NextPos, m)

\* The calls of a method that are going to be executed.
Pending(m) == Occurrences(methods, m) + (IF m \in unqueued THEN 0 ELSE Left(m))

\* The round of the innermost activation goes: which methods lose a call.
Lost == {m \in Methods : m \notin unqueued /\ Left(m) > 0}

-----------------------------------------------------------------------------
(* Calls of user code                                                      *)

Queues_Always(m) == TRUE                        \* a fault: no compression
Queues(m) == ~flag[m] \/ m \notin Compressed

\* schedule, from any thread
Schedule(m) ==
    /\ calls < MaxCalls
    /\ Call
    /\ asked' = [asked EXCEPT ![m] = IF m \in Compressed THEN 1 ELSE @ + 1]
    /\ \/ /\ Queues(m)
          /\ methods' = Append(methods, m)
          /\ scheduled' = TRUE
          /\ events' = IF scheduled THEN events ELSE events + 1
          /\ flag' = [flag EXCEPT ![m] = TRUE]
       \/ /\ ~Queues(m)
          /\ UNCHANGED <<methods, scheduled, events, flag>>
    /\ UNCHANGED <<executing, unqueued, disabled, timer, stack, spoiled>>

Erase_First(m) == IF Occurrences(methods, m) = 0 THEN methods ELSE RemoveFirst(methods, m) \* a fault: one only
Without(seq, m) ==                              \* its prefixes without the entries that are m
    LET kept[n \in 0..Len(seq)] ==
          IF n = 0 THEN <<>>
          ELSE IF seq[n] = m THEN kept[n - 1] ELSE Append(kept[n - 1], seq[n])
    IN  kept
Erase(m) == Without(methods, m)[Len(methods)]

\* unqueue, by cancel () and by the destructor of the method object
Unqueue(m) ==
    /\ UserCode
    /\ Call
    /\ methods' = Erase(m)
    /\ flag' = [flag EXCEPT ![m] = IF Occurrences(methods, m) > 0 THEN FALSE ELSE @]
    /\ unqueued' = IF Occurrences(executing, m) > 0 THEN unqueued \cup {m} ELSE unqueued
    /\ asked' = [asked EXCEPT ![m] = 0]
    /\ spoiled' = IF Left(m) > 0 /\ m \in Compressed THEN spoiled \cup {m} ELSE spoiled
    /\ UNCHANGED <<executing, scheduled, disabled, loop, stack>>

Disable ==
    /\ UserCode
    /\ Call
    /\ disabled' = disabled + 1
    /\ UNCHANGED <<queue, loop, stack, history>>

Enable ==
    /\ stack = <<>> \/ At("running")
    /\ disabled > 0
    /\ disabled' = disabled - 1
    /\ UNCHANGED <<queue, loop, stack, history, calls>>

\* execute (), which repeats do_execute while there are calls
Execute ==
    /\ UserCode /\ CanNest
    /\ Call
    /\ stack' = Append(stack, Activation("execute", "enter", 0))
    /\ UNCHANGED <<queue, disabled, loop, history>>

-----------------------------------------------------------------------------
(* The event loop                                                          *)

RestartTimer_Not(was) == was                    \* a fault: the event is forgotten
RestartTimer(was) == TRUE

\* timer (): restarts the timer if disabled, else calls do_execute
OnTimer(was) ==
    \/ /\ disabled > 0
       /\ timer' = RestartTimer(was)
       /\ UNCHANGED stack
    \/ /\ disabled = 0
       /\ timer' = was
       /\ stack' = Append(stack, Activation("event", "enter", 0))

\* The event posted by queue_event, and the time-out of m_timer, in any event loop.
DeliverEvent ==
    /\ events > 0 /\ CanNest
    /\ events' = events - 1
    /\ OnTimer(timer)
    /\ UNCHANGED <<queue, disabled, history>>
TimeOut ==
    /\ timer /\ CanNest
    /\ OnTimer(FALSE)
    /\ UNCHANGED <<queue, disabled, events, history>>

Deliver == stack = <<>> /\ (DeliverEvent \/ TimeOut) /\ UNCHANGED calls
DeliverNested == At("running") /\ UserCode /\ Call /\ (DeliverEvent \/ TimeOut)

-----------------------------------------------------------------------------
(* do_execute                                                              *)

\* The round of the activation below, if any, is gone for good.
Swap ==
    /\ At("enter") /\ disabled = 0
    /\ executing' = methods
    /\ methods' = <<>>
    /\ unqueued' = {}
    /\ scheduled' = FALSE
    /\ spoiled' = spoiled \cup Lost
    /\ Goto(IF methods = <<>> THEN "finish" ELSE "check", 1)
    /\ UNCHANGED <<flag, disabled, loop, asked, calls>>

SwapDisabled ==
    /\ At("enter") /\ disabled > 0
    /\ Pop
    /\ UNCHANGED <<queue, disabled, loop, history, calls>>

Advance(pos) == Goto(IF pos < Len(executing) THEN "check" ELSE "finish", pos + 1)

StillValid_Always(m) == TRUE                    \* a fault: cancelled calls are executed
StillValid(m) == m \notin unqueued

CheckValid ==
    /\ At("check")
    /\ \/ StillValid(executing[Top.pos]) /\ Goto("valid", Top.pos)
       \/ ~StillValid(executing[Top.pos]) /\ Advance(Top.pos)
    /\ UNCHANGED <<queue, disabled, loop, history, calls>>

FlagAtRun_Kept(m) == flag                       \* a fault: the flag is not reset
FlagAtRun(m) == [flag EXCEPT ![m] = FALSE]

Run(m) ==
    /\ At("valid") /\ executing[Top.pos] = m
    /\ flag' = FlagAtRun(m)
    /\ asked' = [asked EXCEPT ![m] = @ - 1]
    /\ Goto("running", Top.pos)
    /\ UNCHANGED <<methods, executing, unqueued, scheduled, disabled, loop, spoiled, calls>>

\* If the round is gone, an activation inside of the method has executed another one.
Return ==
    /\ At("running")
    /\ IF executing = <<>> THEN Goto("finish", Top.pos) ELSE Advance(Top.pos)
    /\ UNCHANGED <<queue, disabled, loop, history, calls>>

(* The method throws.  timer () catches that, execute () lets it pass to   *)
(* its caller.  Excluded is an exception caught while an activation below  *)
(* goes on: its iterator then points into a list that is gone.             *)
Throw ==
    /\ HandlersThrow
    /\ At("running")
    /\ \A i \in 2..Len(stack) : stack[i].via = "execute"
    /\ stack' = <<>>
    /\ spoiled' = spoiled \cup Lost
    /\ UNCHANGED <<queue, disabled, loop, asked, calls>>

Finish ==
    /\ At("finish")
    /\ unqueued' = {} /\ executing' = <<>>
    /\ IF Top.via = "execute" /\ methods # <<>> THEN Goto("enter", 0) ELSE Pop
    /\ UNCHANGED <<methods, scheduled, flag, disabled, loop, history, calls>>

-----------------------------------------------------------------------------
Execution == Swap \/ SwapDisabled \/ CheckValid \/ (\E m \in Methods : Run(m)) \/ Finish

Next ==
    \/ \E m \in Methods : Schedule(m) \/ Unqueue(m)
    \/ Disable \/ Enable \/ Execute
    \/ Deliver \/ DeliverNested
    \/ Execution \/ Return \/ Throw

Spec == Init /\ [][Next]_vars

(* The event loop delivers what is posted, do_execute goes on, a method    *)
(* returns, and a region with deferred methods disabled ends.              *)
Fairness == WF_vars(Deliver) /\ WF_vars(Execution) /\ WF_vars(Return) /\ WF_vars(Enable)
FairSpec == Spec /\ Fairness

-----------------------------------------------------------------------------
(* Properties                                                              *)

\* Every variable keeps its type; in particular no method is owed less than no call.
TypeOK ==
    /\ methods \in Seq(Methods) /\ executing \in Seq(Methods) /\ unqueued \subseteq Methods
    /\ scheduled \in BOOLEAN /\ flag \in [Methods -> BOOLEAN]
    /\ disabled \in Nat /\ events \in Nat /\ timer \in BOOLEAN
    /\ stack \in Seq(Activations) /\ asked \in [Methods -> Nat] /\ spoiled \subseteq Methods

(* A compressed method has at most one call pending, whatever round it is  *)
(* in and however rounds nest: a burst of requests costs one update.       *)
PendingOnce == \A m \in Compressed : Pending(m) <= 1

(* While calls are queued something is under way that will execute them:   *)
(* an event, the timer, or a do_execute about to take the queue.           *)
EventComes == methods # <<>> => scheduled /\ (events > 0 \/ timer \/ At("enter"))

(* No method is called more often than it was asked for, and after cancel  *)
(* () or its destruction not before it is scheduled again.                 *)
NoUnaskedCall == \A m \in Methods : Pending(m) <= asked[m]

(* No call is lost: as many calls are pending as are owed, except for a    *)
(* method whose call was taken from a round without being executed -- by a *)
(* nested do_execute, by an exception, or by cancel () in the round.       *)
CallsKept == \A m \in Methods \ spoiled : Pending(m) = asked[m]

(* A method asked for is called or cancelled in the end, with the same     *)
(* exceptions, however the regions that disable deferred calls overlap.    *)
Served == \A m \in Methods : asked[m] > 0 ~> (asked[m] = 0 \/ m \in spoiled)

(* "Schedule a call to the specified method" (tlDeferredExecution.h:74):   *)
(* a method that is owed a call has one pending.  cancel () "Cancel any    *)
(* pending calls" (h:242) should not concern later ones.                   *)
AskedMeansPending == \A m \in Methods : asked[m] > 0 => Pending(m) > 0
=============================================================================
