---------------------------- MODULE UndoHistory ----------------------------
(***************************************************************************)
(* What db::Manager promises of undo and redo (db/db/dbManager.h): a list  *)
(* of states of the document, a position in it, and at most one change     *)
(* that is being made.  Nothing of operations, objects or transactions.    *)
(***************************************************************************)
EXTENDS Integers, Sequences, SequencesExt

CONSTANT Documents

VARIABLES
    doc,     \* the document
    states,  \* the states it had between the transactions
    pos,     \* which of them it has, or had before the open transaction
    editing  \* a transaction is open
vars == <<doc, states, pos, editing>>

Init == doc \in Documents /\ states = <<doc>> /\ pos = 1 /\ editing = FALSE

Closed(more) == SubSeq(states, 1, pos) \o more
Settle(more) == states' = Closed(more) /\ pos' = Len(Closed(more))

\* A change goes to the open transaction, or is made when there is no history.
Edit == (editing \/ Len(states) = 1) /\ doc' \in Documents /\ UNCHANGED <<pos, editing>>
        /\ states' = IF editing THEN states ELSE <<doc'>>

Commit == editing /\ editing' = FALSE /\ (Settle(<<doc>>) \/ (doc = states[pos] /\ Settle(<<>>)))
          /\ UNCHANGED doc

\* A new transaction ends what could be redone; joined, it continues the previous one.
Begin == ~editing /\ editing' = TRUE /\ UNCHANGED doc
         /\ (Settle(<<>>) \/ (pos = Len(states) /\ pos > 1 /\ states' = Front(states) /\ pos' = pos - 1))

\* A transaction begun while one is open commits that one.
CommitAndBegin == editing /\ editing' = TRUE /\ UNCHANGED doc
                  /\ (Settle(<<doc>>) \/ (doc = states[pos] /\ Settle(<<>>)) \/ UNCHANGED <<states, pos>>
                      \/ (pos > 1 /\ doc = states[pos] /\ states' = SubSeq(states, 1, pos - 1) /\ pos' = pos - 1))

Cancel == editing /\ editing' = FALSE /\ doc' = states[pos] /\ Settle(<<>>)

Undo == ~editing /\ pos > 1 /\ pos' = pos - 1 /\ doc' = states[pos'] /\ UNCHANGED <<states, editing>>
Redo == ~editing /\ pos < Len(states) /\ pos' = pos + 1 /\ doc' = states[pos']
        /\ UNCHANGED <<states, editing>>

\* clear (), and an undo or redo that is interrupted: no history is left.
Forget == editing' = FALSE /\ states' = <<doc'>> /\ pos' = 1 /\ doc' \in Documents

Next == Edit \/ Commit \/ Begin \/ CommitAndBegin \/ Cancel \/ Undo \/ Redo \/ Forget
Spec == Init /\ [][Next]_vars
=============================================================================
