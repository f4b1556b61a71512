---------------------------- MODULE UndoManager ----------------------------
(***************************************************************************)
(* Undo and redo: db::Manager (db/db/dbManager.cc) with the operations     *)
(* that db::Shapes queues (db/db/dbShapes.h, .cc).                         *)
(*                                                                         *)
(* A container (db::Shapes) has at most one layer, the list of its shapes  *)
(* of one type.  A layer_op inserts or erases shapes of the layer that the *)
(* container has when it is replayed; a FullLayerOp puts a certain layer   *)
(* object into the container or takes it out, and owns it while it is out. *)
(* Everything runs on one thread, each call is one step.  Enabled only:    *)
(* the calls of a disabled manager do nothing.                             *)
(***************************************************************************)
EXTENDS Integers, Sequences, SequencesExt, FiniteSets

CONSTANTS
    Containers, Shapes,
    MaxLayers,       \* layer objects alive at a time, named by their address
    MaxIds,          \* transactions alive at a time, named by their address
    MaxClears,       \* bound: recorded calls of Shapes::clear in the history
    MaxTransactions, MaxEdits \* bounds on the calls of a behaviour

ASSUME BoundsAssumption ==
    /\ MaxLayers \in Nat /\ MaxIds \in Nat
    /\ MaxClears \in Nat /\ MaxTransactions \in Nat /\ MaxEdits \in Nat

\* There is always an address for a new layer: each change refers to at most one.
ASSUME RoomAssumption ==
    IsFiniteSet(Containers) /\ IsFiniteSet(Shapes) /\ MaxLayers > Cardinality(Containers) + MaxEdits

Layers == 1..MaxLayers
NoLayer == 0
Ids == 1..MaxIds
ShapeBags == [Shapes -> Nat]
NoShapes == [s \in Shapes |-> 0]
Each(bag) == UNION {{s} \X (1..bag[s]) : s \in Shapes}
Total(bag) == Cardinality(Each(bag))
One(s) == [NoShapes EXCEPT ![s] = 1]
Plus(a, b) == [s \in Shapes |-> a[s] + b[s]]
Minus(a, b) == [s \in Shapes |-> IF a[s] > b[s] THEN a[s] - b[s] ELSE 0]

VARIABLES
    heap,         \* held: the layer of each container; alive; content of each layer
    transactions, \* m_transactions, each with its address and operations
    current,      \* m_current, as the number of transactions before it
    opened,       \* m_opened
    states,       \* history: contents between the transactions
    begun, edits  \* calls so far

vars == <<heap, transactions, current, opened, states, begun, edits>>
bounds == <<begun, edits>>

Contents(h) == [c \in Containers |-> IF h.held[c] = NoLayer THEN NoShapes ELSE h.content[h.held[c]]]

EmptyHeap == [held |-> [c \in Containers |-> NoLayer], alive |-> {}, content |-> [l \in Layers |-> NoShapes]]

Init ==
    /\ heap = EmptyHeap
    /\ transactions = <<>> /\ current = 0 /\ opened = FALSE
    /\ states = <<Contents(heap)>>
    /\ begun = 0 /\ edits = 0

-----------------------------------------------------------------------------
(* Layers and the operations on them                                       *)

\* A new layer has an address that nothing refers to, not even a deleted layer's.
LayersOf(ts) == (UNION {{ts[t].ops[i].layer : i \in DOMAIN ts[t].ops} : t \in DOMAIN ts}) \ {NoLayer}
FreeLayers(h) == Layers \ (h.alive \cup LayersOf(transactions))
NewLayer(h, bag) ==
    LET l == CHOOSE x \in FreeLayers(h) : \A y \in FreeLayers(h) : x <= y
    IN  [layer |-> l, heap |-> [h EXCEPT !.alive = @ \cup {l}, !.content[l] = bag]]

\* get_layer makes the layer if there is none.
WithLayer(h, c) ==
    IF h.held[c] # NoLayer THEN h
    ELSE LET new == NewLayer(h, NoShapes) IN [new.heap EXCEPT !.held[c] = new.layer]

SetShapes(h, c, bag) == LET w == WithLayer(h, c) IN [w EXCEPT !.content[w.held[c]] = bag]

Delete(h, ls) == [h EXCEPT !.alive = @ \ ls, !.content = [l \in Layers |-> IF l \in ls THEN NoShapes ELSE @[l]]]

\* layer_op::insert, layer_op::erase
InsertShapes(h, c, bag) == SetShapes(h, c, Plus(Contents(h)[c], bag))
EraseShapes(h, c, bag) ==
    LET old == Contents(h)[c]
    IN  SetShapes(h, c, IF Total(old) <= Total(bag) THEN NoShapes ELSE Minus(old, bag))

\* FullLayerOp::insert deletes the layer that is in its place.
Replaced(h, c, layer) == IF h.held[c] \in {NoLayer, layer} THEN {} ELSE {h.held[c]}
PutLayer(h, c, layer) == [Delete(h, Replaced(h, c, layer)) EXCEPT !.held[c] = layer]
TakeLayer(h, c, layer) == IF h.held[c] = layer THEN [h EXCEPT !.held[c] = NoLayer] ELSE h

LayerOp(c, insert, bag) ==
    [obj |-> c, insert |-> insert, shapes |-> bag, layer |-> NoLayer, owns |-> FALSE, done |-> TRUE]
FullLayerOp(c, insert, layer) ==
    [obj |-> c, insert |-> insert, shapes |-> NoShapes, layer |-> layer, owns |-> ~insert, done |-> TRUE]

\* Op::undo (insert = FALSE undone inserts) and Op::redo, as one: put in or take out.
Perform(h, op, insert) ==
    IF op.layer # NoLayer
    THEN IF insert THEN PutLayer(h, op.obj, op.layer) ELSE TakeLayer(h, op.obj, op.layer)
    ELSE IF insert THEN InsertShapes(h, op.obj, op.shapes) ELSE EraseShapes(h, op.obj, op.shapes)

OwnsAfter_Kept(h, op, insert) == op.owns       \* a fault: the ownership stays where it was
OwnsAfter(h, op, insert) ==
    IF op.layer = NoLayer THEN FALSE
    ELSE IF insert THEN op.owns /\ h.held[op.obj] = op.layer
    ELSE op.owns \/ h.held[op.obj] = op.layer

DoneAfter_Kept(op, redo) == op.done            \* a fault: set_done is forgotten
DoneAfter(op, redo) == redo

\* One operation of a transaction in the course of a replay.
Step(r, i, redo) ==
    LET op == r.ops[i] IN
    [heap |-> Perform(r.heap, op, op.insert = redo),
     ops |-> [r.ops EXCEPT ![i].owns = OwnsAfter(r.heap, op, op.insert = redo), ![i].done = DoneAfter(op, redo)]]

Owned(ops) == {ops[i].layer : i \in {j \in DOMAIN ops : ops[j].owns}}
OwnedBy(ts) == UNION {Owned(ts[i].ops) : i \in DOMAIN ts}

-----------------------------------------------------------------------------
(* Transactions                                                            *)

Current == transactions[current + 1]
Before(n) == SubSeq(transactions, 1, n)
After(n) == SubSeq(transactions, n + 1, Len(transactions))

\* erase_transactions deletes the operations, and they the layers they own.
Keep(n) == transactions' = Before(n) /\ heap' = Delete(heap, OwnedBy(After(n)))

\* The list node of a new transaction is at any address not in use.  It follows the n-th.
NewTransaction(ts) == {[id |-> id, ops |-> <<>>] : id \in Ids \ {ts[i].id : i \in DOMAIN ts}}
AddedTo_All(ts, n) == {Append(ts, new) : new \in NewTransaction(ts)}   \* a fault: at the end
AddedTo(ts, n) == {Append(SubSeq(ts, 1, n), new) : new \in NewTransaction(SubSeq(ts, 1, n))}

CloseCurrent == IF Current.ops # <<>> THEN current + 1 ELSE current
Joins(ts, join) == ts # <<>> /\ Last(ts).id = join

(* transaction ().  An open transaction is committed first; ts and n are   *)
(* the list and the position after that.  A caller does not join with a    *)
(* transaction that has been undone, which the code would let it.          *)
Transaction(join) ==
    /\ begun < MaxTransactions
    /\ begun' = begun + 1
    /\ LET n == IF opened THEN CloseCurrent ELSE current
           ts == IF opened THEN Before(n) ELSE transactions
           sts == IF opened THEN SubSeq(states, 1, current + 1) \o (IF n > current THEN <<Contents(heap)>> ELSE <<>>)
                  ELSE states
       IN  \/ /\ Joins(ts, join)
              /\ n = Len(ts)
              /\ transactions' = ts
              /\ UNCHANGED heap
              /\ current' = Len(ts) - 1
              /\ states' = SubSeq(sts, 1, Len(ts))
           \/ /\ ~Joins(ts, join)
              /\ heap' = Delete(heap, OwnedBy(SubSeq(ts, n + 1, Len(ts))))
              /\ transactions' \in AddedTo(ts, n)
              /\ current' = n
              /\ states' = SubSeq(sts, 1, n + 1)
    /\ opened' = TRUE
    /\ UNCHANGED edits

\* commit (); a transaction without operations is dropped.
Commit ==
    /\ opened
    /\ opened' = FALSE
    /\ Keep(CloseCurrent)
    /\ current' = CloseCurrent
    /\ states' = IF CloseCurrent > current THEN SubSeq(states, 1, current + 1) \o <<Contents(heap)>> ELSE states
    /\ UNCHANGED bounds

-----------------------------------------------------------------------------
(* Replay                                                                  *)

\* The order of a replay, cut off after k operations.
Order(ops, redo, k) ==
    SubSeq(IF redo THEN [i \in DOMAIN ops |-> i] ELSE [i \in DOMAIN ops |-> Len(ops) + 1 - i], 1, k)
Replay(ops, redo, k) ==
    FoldLeft(LAMBDA r, i : Step(r, i, redo), [heap |-> heap, ops |-> ops], Order(ops, redo, k))

\* The assertions on is_done, for the first k operations.
InState(ops, redo, k) == \A i \in ToSet(Order(ops, redo, k)) : ops[i].done = ~redo

(* The user may cancel the progress, which throws after an operation; an   *)
(* assertion throws before one.  The exception is caught, and clear ()     *)
(* leaves the contents as they are then, without a history.                *)
Interrupted(n, redo) ==
    LET ops == transactions[n].ops IN
    \E k \in 0..Len(ops) :
        /\ InState(ops, redo, k)
        /\ k > 0 \/ (k < Len(ops) /\ ~InState(ops, redo, k + 1))
        /\ LET r == Replay(ops, redo, k)
           IN  heap' = Delete(r.heap, OwnedBy([transactions EXCEPT ![n].ops = r.ops]))
        /\ transactions' = <<>> /\ current' = 0 /\ opened' = FALSE
        /\ states' = <<Contents(heap')>>

Undo ==
    /\ ~opened /\ current > 0
    /\ LET ops == transactions[current].ops
           r == Replay(ops, FALSE, Len(ops))
       IN  \/ /\ InState(ops, FALSE, Len(ops))
              /\ heap' = r.heap
              /\ transactions' = [transactions EXCEPT ![current].ops = r.ops]
              /\ current' = current - 1
              /\ UNCHANGED <<opened, states>>
           \/ Interrupted(current, FALSE)
    /\ UNCHANGED bounds

Redo ==
    /\ ~opened /\ current < Len(transactions)
    /\ LET ops == Current.ops
           r == Replay(ops, TRUE, Len(ops))
       IN  \/ /\ InState(ops, TRUE, Len(ops))
              /\ heap' = r.heap
              /\ transactions' = [transactions EXCEPT ![current + 1].ops = r.ops]
              /\ current' = current + 1
              /\ UNCHANGED <<opened, states>>
           \/ Interrupted(current + 1, TRUE)
    /\ UNCHANGED bounds

(* cancel () undoes the open transaction, with what it was joined to, and  *)
(* deletes it.  An empty one is only deleted.                              *)
Cancel ==
    /\ opened
    /\ LET ops == Current.ops
           r == Replay(ops, FALSE, Len(ops))
       IN  \/ /\ InState(ops, FALSE, Len(ops))
              /\ heap' = Delete(r.heap, OwnedBy(After(current + 1)) \cup Owned(r.ops))
              /\ transactions' = Before(current)
              /\ opened' = FALSE
              /\ UNCHANGED <<current, states>>
           \/ Interrupted(current + 1, FALSE)
    /\ UNCHANGED bounds

Clear ==
    /\ heap' = Delete(heap, OwnedBy(transactions))
    /\ transactions' = <<>> /\ current' = 0 /\ opened' = FALSE
    /\ states' = <<Contents(heap')>>
    /\ UNCHANGED bounds

-----------------------------------------------------------------------------
(* Changes of the containers                                               *)

(* A change is recorded in the open transaction.  Without one it is made   *)
(* only when there is no history: a file is read, or the caller clears it. *)
CanEdit == (opened \/ transactions = <<>>) /\ edits < MaxEdits
Queue(ops) == transactions' = IF opened THEN [transactions EXCEPT ![current + 1].ops = ops] ELSE transactions
Edited ==
    /\ edits' = edits + 1
    /\ states' = IF opened THEN states ELSE <<Contents(heap')>>
    /\ UNCHANGED <<current, opened, begun>>

\* queue_or_append: the last operation is extended if it is of the same kind.
QueueOrAppend_AnyObject(op, ops) ==            \* a fault: of another container
    IF ops # <<>> /\ Last(ops).layer = NoLayer /\ Last(ops).insert = op.insert
    THEN [ops EXCEPT ![Len(ops)].shapes = Plus(@, op.shapes)]
    ELSE Append(ops, op)
QueueOrAppend(op, ops) ==
    IF ops # <<>> /\ [Last(ops) EXCEPT !.shapes = op.shapes] = op
    THEN [ops EXCEPT ![Len(ops)].shapes = Plus(@, op.shapes)]
    ELSE Append(ops, op)
Record(op) == Queue(IF opened THEN QueueOrAppend(op, Current.ops) ELSE <<>>)

Insert(c, s) ==
    /\ CanEdit
    /\ Record(LayerOp(c, TRUE, One(s)))
    /\ heap' = InsertShapes(heap, c, One(s))
    /\ Edited

Erase(c, s) ==
    /\ CanEdit
    /\ Contents(heap)[c][s] > 0
    /\ Record(LayerOp(c, FALSE, One(s)))
    /\ heap' = SetShapes(heap, c, Minus(Contents(heap)[c], One(s)))
    /\ Edited

Clears ==
    UNION {{<<t, i>> : i \in {k \in DOMAIN transactions[t].ops :
                                 transactions[t].ops[k].layer # NoLayer /\ ~transactions[t].ops[k].insert}}
             : t \in DOMAIN transactions}

\* The layer goes to the operation, or is deleted if none is recorded.
ClearContainer(c) ==
    /\ CanEdit
    /\ heap.held[c] # NoLayer
    /\ Cardinality(Clears) < MaxClears
    /\ Queue(IF opened THEN Append(Current.ops, FullLayerOp(c, FALSE, heap.held[c])) ELSE <<>>)
    /\ heap' = [(IF opened THEN heap ELSE Delete(heap, {heap.held[c]})) EXCEPT !.held[c] = NoLayer]
    /\ Edited

\* do_insert: an empty container gets a copy of the layer.
CopyFrom(c, d) ==
    /\ CanEdit /\ c # d
    /\ LET bag == Contents(heap)[d]
           new == NewLayer(heap, bag)
       IN  /\ bag # NoShapes
           /\ \/ /\ heap.held[c] = NoLayer
                 /\ Queue(IF opened THEN Append(Current.ops, FullLayerOp(c, TRUE, new.layer)) ELSE <<>>)
                 /\ heap' = [new.heap EXCEPT !.held[c] = new.layer]
              \/ /\ heap.held[c] # NoLayer
                 /\ Record(LayerOp(c, TRUE, bag))
                 /\ heap' = InsertShapes(heap, c, bag)
    /\ Edited

-----------------------------------------------------------------------------
Next ==
    \/ \E join \in {0} \cup Ids : Transaction(join)
    \/ Commit \/ Cancel \/ Undo \/ Redo \/ Clear
    \/ \E c \in Containers, s \in Shapes : Insert(c, s) \/ Erase(c, s)
    \/ \E c \in Containers : ClearContainer(c)
    \/ \E c, d \in Containers : CopyFrom(c, d)

Spec == Init /\ [][Next]_vars

-----------------------------------------------------------------------------
(* Properties                                                              *)

AllOps == [obj : Containers, insert : BOOLEAN, shapes : ShapeBags, layer : {NoLayer} \cup Layers,
           owns : BOOLEAN, done : BOOLEAN]

\* Every variable keeps its type; an open transaction is the last of the list.
TypeOK ==
    /\ heap \in [held : [Containers -> {NoLayer} \cup Layers], alive : SUBSET Layers, content : [Layers -> ShapeBags]]
    /\ transactions \in Seq([id : Ids, ops : Seq(AllOps)])
    /\ current \in 0..Len(transactions) /\ opened \in BOOLEAN
    /\ opened => current = Len(transactions) - 1
    /\ states \in Seq([Containers -> ShapeBags])
    /\ begun \in Nat /\ edits \in Nat

(* An operation is done exactly if it is in front of m_current, or in the  *)
(* open transaction, which is the last: what the assertions in undo and    *)
(* redo rely on.                                                           *)
DoneInOrder ==
    \A t \in DOMAIN transactions : \A i \in DOMAIN transactions[t].ops :
        transactions[t].ops[i].done = (t <= current \/ opened)

(* A layer object belongs to one container or to one operation, and an     *)
(* operation refers to layers that exist: nothing is deleted twice or used *)
(* after that, and nothing leaks, however clear (), copies, undo, redo and *)
(* dropped transactions pass it around.                                    *)
Owners(l) ==
    {c \in Containers : heap.held[c] = l} \cup
    UNION {{<<t, i>> : i \in {k \in DOMAIN transactions[t].ops :
                                 transactions[t].ops[k].owns /\ transactions[t].ops[k].layer = l}}
             : t \in DOMAIN transactions}
LayersOwnedOnce ==
    /\ \A l \in heap.alive : Cardinality(Owners(l)) = 1
    /\ \A l \in Layers \ heap.alive : Owners(l) = {}
    /\ LayersOf(transactions) \subseteq heap.alive

(* Undo brings back what was there before the transaction, redo what was   *)
(* there after it, cancel what was there before the open one began; an     *)
(* interrupted replay forgets the history instead of keeping a wrong one.  *)
History == INSTANCE UndoHistory WITH
    Documents <- [Containers -> ShapeBags], doc <- Contents(heap), states <- states, pos <- current + 1, editing <- opened
ImplementsUndoHistory == History!Spec

(* "The next transaction is redone with this method" (dbManager.h:181) and *)
(* "The current transaction is undone with this method" (h:172): unless it *)
(* is interrupted, it leads to the state recorded for that place.          *)
ReplayReachesState ==
    [][(Undo \/ Redo) /\ transactions' # <<>> => Contents(heap') = states[current' + 1]]_vars
=============================================================================
