---------------------------- MODULE JobContract ----------------------------
(***************************************************************************)
(* What tl::JobBase promises about tasks, threads left aside: an order of  *)
(* arrival, servers that perform one task each, and an announcement that   *)
(* the run is over.  ThreadedWorkers implements it.                        *)
(***************************************************************************)
EXTENDS Integers, Sequences

CONSTANTS Tasks, Servers,
          Nothing   \* what a server performs that performs no task

VARIABLES queue,    \* accepted, not yet fetched
          slot,     \* what each server performs
          gone,     \* performed, aborted, or deleted unperformed
          told      \* announcements of the end of the run since its start
vars == <<queue, slot, gone, told>>

Queued == {queue[i] : i \in 1..Len(queue)}
Busy == {slot[s] : s \in Servers}
New(t) == t \notin Queued \cup Busy \cup gone

Init == queue = <<>> /\ slot = [s \in Servers |-> Nothing] /\ gone = {} /\ told = 0

Accept(t) == New(t) /\ queue' = Append(queue, t) /\ UNCHANGED <<slot, gone, told>>
Refuse(t) == New(t) /\ gone' = gone \cup {t} /\ UNCHANGED <<queue, slot, told>>

(* Tasks are handed out in the order of their arrival, each to one server  *)
(* that is free.                                                           *)
Take(s) ==
  /\ queue # <<>> /\ Head(queue) \notin Busy
  /\ slot[s] = Nothing
  /\ queue' = Tail(queue)
  /\ slot' = [slot EXCEPT ![s] = Head(queue)]
  /\ UNCHANGED <<gone, told>>

End(s) ==
  /\ slot[s] # Nothing
  /\ slot' = [slot EXCEPT ![s] = Nothing]
  /\ gone' = gone \cup {slot[s]}
  /\ UNCHANGED <<queue, told>>

(* What still waits is given up, alone or with the task that s performs.   *)
Discard == queue' = <<>> /\ gone' = gone \cup Queued /\ UNCHANGED <<slot, told>>
EndAndDiscard(s) ==
  /\ slot[s] # Nothing
  /\ queue' = <<>>
  /\ slot' = [slot EXCEPT ![s] = Nothing]
  /\ gone' = gone \cup Queued \cup {slot[s]}
  /\ UNCHANGED told

(* The end is announced only when nothing waits and nothing is performed.  *)
Announce ==
  /\ queue = <<>> /\ \A s \in Servers : slot[s] = Nothing
  /\ told' = told + 1
  /\ UNCHANGED <<queue, slot, gone>>

NewRun == told' = 0 /\ UNCHANGED <<queue, slot, gone>>

Next ==
  \/ \E t \in Tasks : Accept(t) \/ Refuse(t)
  \/ \E s \in Servers : Take(s) \/ End(s) \/ EndAndDiscard(s)
  \/ Discard \/ Announce \/ NewRun

Spec == Init /\ [][Next]_vars
=============================================================================
