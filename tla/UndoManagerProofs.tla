------------------------- MODULE UndoManagerProofs -------------------------
(***************************************************************************)
(* Theorems about UndoManager, for any containers, shapes and bounds: the  *)
(* states of the operations, then the layers and who owns them, and last   *)
(* the documents, up to the refinement of UndoHistory.                     *)
(***************************************************************************)
EXTENDS UndoManager, NumberInduction

-----------------------------------------------------------------------------
(* A replay, operation by operation                                        *)


\* What a replay has come to after the positions of a set of its order.
ReplayedUpto(ops, redo, order) ==
  LET upto[T \in SUBSET DOMAIN order] ==
        IF T = {} THEN [heap |-> heap, ops |-> ops]
        ELSE Step(upto[T \ {Max(T)}], order[Max(T)], redo)
  IN  upto

LEMMA MaxIs ==
  ASSUME NEW n \in Nat, NEW T \in SUBSET (1..n), T # {}
  PROVE  Max(T) \in T /\ \A k \in T : k <= Max(T)
<1> DEFINE U == {n - k : k \in T}
<1>1. U \in SUBSET Nat /\ U # {}
  <2>1. \A k \in T : n - k \in Nat
    <3>1. \A k \in 1..n : n - k \in Nat
      OBVIOUS
    <3> QED  BY <3>1
  <2> QED  BY <2>1
<1>2. PICK u \in U : \A v \in U : u <= v
  BY <1>1, LeastNumber
<1>3. PICK m \in T : u = n - m
  BY <1>2
<1>4. \A k \in T : m >= k
  <2>1. ASSUME NEW k \in T PROVE m >= k
    <3>1. n - m <= n - k
      BY <1>2, <1>3
    <3> QED  BY <3>1
  <2> QED  BY <2>1
<1>5. Max(T) \in T /\ \A k \in T : Max(T) >= k
  BY <1>4 DEF Max
<1> QED  BY <1>5

Replays(F, ops, redo, order, n) ==
  /\ F[{}] = [heap |-> heap, ops |-> ops]
  /\ \A k \in 1..n : F[1..k] = Step(F[1..(k - 1)], order[k], redo)

\* The recursion of ReplayedUpto is well-founded.
LEMMA ReplayedDef ==
  ASSUME NEW ops, NEW redo, NEW order, NEW n \in Nat, DOMAIN order = 1..n,
         NEW F, F = ReplayedUpto(ops, redo, order)
  PROVE  Replays(F, ops, redo, order, n)
<1> DEFINE S == 1..n
           Body(f, T) == IF T = {} THEN [heap |-> heap, ops |-> ops]
                         ELSE Step(f[T \ {Max(T)}], order[Max(T)], redo)
           Small(m) == SUBSET (1..m)
           N == {m \in Nat : m <= n => \E f : f = [T \in Small(m) |-> Body(f, T)]}
<1>1. \A m \in Nat : m + 1 <= n => \A T \in Small(m + 1) : T # {} => T \ {Max(T)} \in Small(m)
  <2> SUFFICES ASSUME NEW m \in Nat, NEW T \in SUBSET (1..(m + 1)), T # {}, NEW k \in T \ {Max(T)}
               PROVE  k \in 1..m
    OBVIOUS
  <2>1. Max(T) \in 1..(m + 1) /\ k <= Max(T) /\ k # Max(T) /\ k \in 1..(m + 1)
    <3>1. m + 1 \in Nat
      OBVIOUS
    <3>2. Max(T) \in T /\ \A j \in T : j <= Max(T)
      BY <3>1, MaxIs
    <3> QED  BY <3>2
  <2> QED  BY <2>1
<1>2. 0 \in N
  <2>1. Small(0) = {{}}
    OBVIOUS
  <2> DEFINE f == [T \in {{}} |-> [heap |-> heap, ops |-> ops]]
  <2>2. f = [T \in {{}} |-> Body(f, T)]
    OBVIOUS
  <2> HIDE DEF f, Body, Small
  <2>3. f = [T \in Small(0) |-> Body(f, T)]
    BY <2>1, <2>2
  <2> QED  BY <2>3
<1>3. ASSUME NEW m \in Nat, m \in N PROVE m + 1 \in N
  <2> HIDE DEF Body, Small
  <2> SUFFICES ASSUME m + 1 <= n PROVE \E f : f = [T \in Small(m + 1) |-> Body(f, T)]
    OBVIOUS
  <2>1. PICK f : f = [T \in Small(m) |-> Body(f, T)]
    BY <1>3
  <2> DEFINE h == [T \in Small(m + 1) |-> IF T \in Small(m) THEN f[T] ELSE Body(f, T)]
  <2>2. Small(m) \subseteq Small(m + 1) /\ {} \in Small(m)
    BY DEF Small
  <2>3. ASSUME NEW T \in Small(m + 1) PROVE h[T] = Body(h, T)
    <3>1. h[T] = Body(f, T)
      <4>1. CASE T \in Small(m)
        BY <2>1, <4>1
      <4>2. CASE T \notin Small(m)
        BY <4>2
      <4> QED  BY <4>1, <4>2
    <3>2. CASE T = {}
      BY <3>1, <3>2 DEF Body
    <3>3. CASE T # {}
      <4> DEFINE U == T \ {Max(T)}
      <4>1. U \in Small(m)
        BY <1>1, <3>3
      <4>2. h[U] = f[U]
        <5> HIDE DEF U
        <5> QED  BY <2>2, <4>1
      <4> HIDE DEF h
      <4>3. Body(h, T) = Body(f, T)
        BY <3>3, <4>2 DEF Body
      <4> QED  BY <3>1, <4>3
    <3> QED  BY <3>2, <3>3
  <2>4. h = [T \in Small(m + 1) |-> Body(h, T)]
    BY <2>3
  <2> HIDE DEF h
  <2> QED  BY <2>4
<1>4. n \in N
  <2> HIDE DEF N
  <2> QED  BY <1>2, <1>3, SetInduction
<1>5. F = [T \in SUBSET S |-> Body(F, T)]
  <2>1. \E f : f = [T \in SUBSET S |-> Body(f, T)]
    <3> HIDE DEF Body
    <3>1. n <= n
      OBVIOUS
    <3>2. n <= n => \E f : f = [T \in Small(n) |-> Body(f, T)]
      BY <1>4
    <3> QED  BY <3>1, <3>2
  <2>2. F = CHOOSE f : f = [T \in SUBSET S |-> Body(f, T)]
    BY DEF ReplayedUpto
  <2> HIDE DEF Body
  <2> QED  BY <2>1, <2>2
<1>6. \A T \in SUBSET S : F[T] = Body(F, T)
  <2> HIDE DEF Body
  <2> QED  BY <1>5
<1>7. ASSUME NEW k \in 1..n PROVE F[1..k] = Step(F[1..(k - 1)], order[k], redo)
  <2>1. 1..k \in SUBSET S /\ k \in 1..k /\ k \in Nat
    OBVIOUS
  <2>2. Max(1..k) = k
    <3> DEFINE T == 1..k
    <3>1. T \in SUBSET (1..k) /\ T # {} /\ k \in T
      BY <2>1
    <3> HIDE DEF T
    <3>2. Max(T) \in T /\ \A j \in T : j <= Max(T)
      BY <2>1, <3>1, MaxIs
    <3> QED  BY <3>1, <3>2 DEF T
  <2>3. (1..k) \ {k} = 1..(k - 1)
    OBVIOUS
  <2> QED  BY <1>6, <2>1, <2>2, <2>3
<1> QED  BY <1>6, <1>7 DEF Replays
-----------------------------------------------------------------------------
(* What a replay does to the operations                                    *)

\* Operations, of which no more is said than what DoneInOrder is about.
Operations(A) == [obj : A, insert : A, shapes : A, layer : A, owns : BOOLEAN, done : BOOLEAN]

\* A replay is an undo or a redo.
IsWay(redo) == redo \in BOOLEAN

\* One operation changes its state.
TurnsOne(A, ops, to, i, redo) ==
  /\ to \in Seq(Operations(A)) /\ DOMAIN to = DOMAIN ops /\ to[i].done = redo
  /\ \A j \in DOMAIN ops : j # i => to[j].done = ops[j].done

LEMMA StepIs ==
  ASSUME NEW A, NEW r, r.ops \in Seq(Operations(A)), NEW i \in DOMAIN r.ops, NEW redo, IsWay(redo)
  PROVE  TurnsOne(A, r.ops, Step(r, i, redo).ops, i, redo)
<1> DEFINE s == r.ops
           op == s[i]
           own == OwnsAfter(r.heap, op, op.insert = redo)
           e == [op EXCEPT !.owns = own]
           d == [e EXCEPT !.done = redo]
           t == [s EXCEPT ![i] = d]
<1>1. op \in Operations(A) /\ Len(s) \in Nat /\ DOMAIN s = 1..Len(s)
  BY ElementOfSeq, LenProperties
<1>2. own \in BOOLEAN
  <2>1. op.owns \in BOOLEAN
    BY <1>1 DEF Operations
  <2> HIDE DEF op
  <2> QED  BY <2>1 DEF OwnsAfter
<1>3. e \in Operations(A)
  <2> HIDE DEF own, op
  <2> QED  BY <1>1, <1>2 DEF Operations
<1>4. d \in Operations(A) /\ d.done = redo
  <2> HIDE DEF e
  <2> QED  BY <1>3 DEF Operations, IsWay
<1>5. Step(r, i, redo).ops = t
  <2>1. Step(r, i, redo).ops = [s EXCEPT ![i].owns = own, ![i].done = redo]
    BY DEF Step, DoneAfter
  <2>2. [s EXCEPT ![i].owns = own, ![i].done = redo] = t
    <3> HIDE DEF own
    <3> QED  BY <1>1
  <2> QED  BY <2>1, <2>2
<1> HIDE DEF d, op, e, own
<1>6. t \in Seq(Operations(A)) /\ DOMAIN t = DOMAIN s /\ \A j \in DOMAIN s : t[j] = IF j = i THEN d ELSE s[j]
  <2> HIDE DEF s
  <2>1. s \in Seq(Operations(A)) /\ i \in DOMAIN s
    BY DEF s
  <2>2. Len(s) \in Nat /\ DOMAIN s = 1..Len(s) /\ s \in [1..Len(s) -> Operations(A)]
    BY <2>1, LenProperties
  <2>3. t \in [1..Len(s) -> Operations(A)] /\ \A j \in DOMAIN s : t[j] = IF j = i THEN d ELSE s[j]
    BY <1>4, <2>1, <2>2
  <2>4. t \in Seq(Operations(A))
    BY <2>2, <2>3, SeqDef
  <2> QED  BY <2>2, <2>3, <2>4
<1> HIDE DEF t
<1> QED  BY <1>4, <1>5, <1>6 DEF TurnsOne

TakesAll(order, n) ==
  /\ DOMAIN order = 1..n /\ \A k \in 1..n : order[k] \in 1..n
  /\ \A i \in 1..n : \E k \in 1..n : order[k] = i

\* Undo goes from the last operation to the first, redo the other way: each has its turn.
LEMMA OrderIs ==
  ASSUME NEW A, NEW ops \in Seq(A), NEW redo, IsWay(redo)
  PROVE  TakesAll(Order(ops, redo, Len(ops)), Len(ops))
<1> DEFINE n == Len(ops)
           to(i) == IF redo THEN i ELSE n + 1 - i
           s == [i \in 1..n |-> to(i)]
           order == Order(ops, redo, n)
<1>1. n \in Nat /\ DOMAIN ops = 1..n
  BY LenProperties
<1>2. order = SubSeq(s, 1, n)
  BY <1>1 DEF Order
<1> HIDE DEF n, order
<1>3. \A i \in 1..n : to(i) \in 1..n /\ to(to(i)) = i
  BY <1>1
<1> HIDE DEF to
<1>4. s \in Seq(1..n) /\ Len(s) = n /\ \A i \in 1..n : s[i] = to(i)
  <2>1. s \in [1..n -> 1..n]
    BY <1>3
  <2> QED  BY <1>1, <2>1, SeqDef, LenProperties
<1> HIDE DEF s
<1>5. order \in Seq(1..n) /\ Len(order) = n /\ \A i \in 1..n : order[i] = s[i]
  <2>1. \A i \in 1..n : s[i] \in 1..n
    BY <1>3, <1>4
  <2>2. Len(order) = (IF 1 <= n THEN n - 1 + 1 ELSE 0) /\ order \in Seq(1..n)
        /\ \A i \in 1..(n - 1 + 1) : order[i] = s[1 + i - 1]
    BY <1>1, <1>2, <2>1, SubSeqProperties
  <2> QED  BY <1>1, <2>2
<1>6. DOMAIN order = 1..n /\ \A i \in 1..n : order[i] = to(i)
  BY <1>4, <1>5, LenProperties
<1>7. \A i \in 1..n : \E k \in 1..n : order[k] = i
  BY <1>3, <1>6
<1> QED  BY <1>3, <1>6, <1>7 DEF TakesAll, n, order

\* Those whose turn it was have changed their state.
TurnsAll(A, to, order, n, redo) ==
  /\ to \in Seq(Operations(A)) /\ DOMAIN to = 1..n
  /\ \A k \in 1..n : to[order[k]].done = redo
ReplayedTo(F, A, order, n, redo) == \E r : r = F[1..n] /\ TurnsAll(A, r.ops, order, n, redo)

LEMMA ReplayedOps ==
  ASSUME NEW A, NEW ops \in Seq(Operations(A)), NEW redo, IsWay(redo), NEW n \in Nat, DOMAIN ops = 1..n,
         NEW order, TakesAll(order, n), NEW F, F = ReplayedUpto(ops, redo, order)
  PROVE  ReplayedTo(F, A, order, n, redo)
<1>0. DOMAIN order = 1..n /\ \A k \in 1..n : order[k] \in 1..n
  BY DEF TakesAll
<1> DEFINE Good(k) == /\ F[1..k].ops \in Seq(Operations(A)) /\ DOMAIN F[1..k].ops = 1..n
                      /\ \A j \in 1..k : F[1..k].ops[order[j]].done = redo
           N == {k \in Nat : k <= n => Good(k)}
<1>1. F[{}] = [heap |-> heap, ops |-> ops] /\ \A k \in 1..n : F[1..k] = Step(F[1..(k - 1)], order[k], redo)
  <2>1. Replays(F, ops, redo, order, n)
    BY <1>0, ReplayedDef
  <2> QED  BY <2>1 DEF Replays
<1>2. 0 \in N
  <2>1. 1..0 = {}
    OBVIOUS
  <2>2. F[1..0].ops = ops
    BY <1>1, <2>1
  <2> QED  BY <2>1, <2>2
<1>3. ASSUME NEW k \in Nat, k \in N PROVE k + 1 \in N
  <2> SUFFICES ASSUME k + 1 <= n PROVE Good(k + 1)
    OBVIOUS
  <2>1. Good(k) /\ k + 1 \in 1..n /\ (k + 1) - 1 = k
    BY <1>3
  <2>2. PICK f : f = F[1..k]
    OBVIOUS
  <2>3. PICK g : g = F[1..(k + 1)]
    OBVIOUS
  <2>4. g = Step(f, order[k + 1], redo)
    BY <1>1, <2>1, <2>2, <2>3
  <2>5. f.ops \in Seq(Operations(A)) /\ DOMAIN f.ops = 1..n
    BY <2>1, <2>2
  <2>6. \A j \in 1..k : f.ops[order[j]].done = redo
    BY <2>1, <2>2
  <2>7. order[k + 1] \in DOMAIN f.ops
    BY <1>0, <2>1, <2>5
  <2> HIDE DEF Good, N
  <2>8. /\ g.ops \in Seq(Operations(A)) /\ DOMAIN g.ops = 1..n /\ g.ops[order[k + 1]].done = redo
        /\ \A j \in 1..n : j # order[k + 1] => g.ops[j].done = f.ops[j].done
    <3>1. TurnsOne(A, f.ops, g.ops, order[k + 1], redo)
      BY <2>4, <2>5, <2>7, StepIs
    <3> QED  BY <2>5, <3>1 DEF TurnsOne
  <2>9. ASSUME NEW j \in 1..(k + 1) PROVE g.ops[order[j]].done = redo
    <3>1. j \in 1..n
      BY <2>1
    <3>2. j = k + 1 \/ j \in 1..k
      OBVIOUS
    <3> QED  BY <2>6, <2>8, <3>1, <3>2, <1>0
  <2> QED  BY <2>3, <2>8, <2>9 DEF Good
<1>4. n \in N
  <2> HIDE DEF N
  <2> QED  BY <1>2, <1>3, SetInduction
<1>5. Good(n)
  <2> HIDE DEF Good
  <2> QED  BY <1>4
<1> QED  BY <1>5 DEF TurnsAll, ReplayedTo

\* All operations of a transaction that is replayed to its end have changed their state.
LEMMA ReplayIs ==
  ASSUME NEW A, NEW ops \in Seq(Operations(A)), NEW redo, IsWay(redo)
  PROVE  LET r == Replay(ops, redo, Len(ops)) IN
         /\ r.ops \in Seq(Operations(A)) /\ DOMAIN r.ops = DOMAIN ops
         /\ \A i \in DOMAIN ops : r.ops[i].done = redo
<1>1. PICK n \in Nat : n = Len(ops) /\ DOMAIN ops = 1..n
  BY LenProperties
<1>2. PICK order : order = Order(ops, redo, n)
  OBVIOUS
<1>3. TakesAll(order, n)
  BY <1>1, <1>2, OrderIs
<1>4. PICK F : F = ReplayedUpto(ops, redo, order)
  OBVIOUS
<1>5. Replay(ops, redo, n) = F[1..n]
  <2>1. Replay(ops, redo, n) = ReplayedUpto(ops, redo, order)[DOMAIN order]
    BY <1>2, SMTT(60) DEF Replay, ReplayedUpto, FoldLeft, MapThenFoldSet
  <2> QED  BY <1>3, <1>4, <2>1 DEF TakesAll
<1>6. PICK r : r = F[1..n] /\ TurnsAll(A, r.ops, order, n, redo)
  <2>1. ReplayedTo(F, A, order, n, redo)
    BY <1>1, <1>3, <1>4, ReplayedOps
  <2> QED  BY <2>1 DEF ReplayedTo
<1>7. \A i \in 1..n : r.ops[i].done = redo
  BY <1>3, <1>6 DEF TurnsAll, TakesAll
<1> QED  BY <1>1, <1>5, <1>6, <1>7 DEF TurnsAll
-----------------------------------------------------------------------------
(* Lists of transactions                                                   *)

Transactions(A) == [id : Ids, ops : Seq(Operations(A))]

\* The operations of the first n transactions are done, the others are not.
DoneUpto(ts, n) ==
  \A t \in 1..Len(ts) : \A i \in DOMAIN ts[t].ops :
    (t <= n => ts[t].ops[i].done = TRUE) /\ (t > n => ts[t].ops[i].done = FALSE)

Lists(ts, n) == n \in 0..Len(ts) /\ DoneUpto(ts, n) /\ \E A : ts \in Seq(Transactions(A))

LEMMA OperationsGrow ==
  ASSUME NEW A, NEW B, A \subseteq B
  PROVE  /\ Operations(A) \subseteq Operations(B) /\ Seq(Operations(A)) \subseteq Seq(Operations(B))
         /\ Seq(Transactions(A)) \subseteq Seq(Transactions(B))
<1>1. Operations(A) \subseteq Operations(B)
  BY DEF Operations
<1>2. Seq(Operations(A)) \subseteq Seq(Operations(B))
  <2>1. ASSUME NEW s \in Seq(Operations(A)) PROVE s \in Seq(Operations(B))
    BY <1>1
  <2> QED  BY <2>1
<1>3. Transactions(A) \subseteq Transactions(B)
  BY <1>2 DEF Transactions
<1>4. Seq(Transactions(A)) \subseteq Seq(Transactions(B))
  <2>1. ASSUME NEW s \in Seq(Transactions(A)) PROVE s \in Seq(Transactions(B))
    BY <1>3
  <2> QED  BY <2>1
<1> QED  BY <1>1, <1>2, <1>4

LEMMA NoList == Lists(<<>>, 0)
<1>1. <<>> \in Seq(Transactions({})) /\ Len(<<>>) = 0
  OBVIOUS
<1> QED  BY <1>1 DEF Lists, DoneUpto

LEMMA CutList ==
  ASSUME NEW ts, NEW n, Lists(ts, n), NEW m \in 0..n
  PROVE  Lists(SubSeq(ts, 1, m), m) /\ Len(SubSeq(ts, 1, m)) = m
<1>1. PICK A : ts \in Seq(Transactions(A))
  BY DEF Lists
<1>2. PICK len \in Nat : len = Len(ts) /\ DOMAIN ts = 1..len /\ n \in 0..len
  BY <1>1, LenProperties DEF Lists
<1>3. PICK cut : cut = SubSeq(ts, 1, m)
  OBVIOUS
<1>4. m \in Nat /\ m <= len /\ m <= n
  BY <1>2
<1>5. cut \in Seq(Transactions(A)) /\ Len(cut) = m /\ \A t \in 1..m : cut[t] = ts[t]
  <2>1. \A t \in 1..m : ts[t] \in Transactions(A)
    <3>1. \A t \in 1..len : ts[t] \in Transactions(A)
      BY <1>1, <1>2, ElementOfSeq
    <3> QED  BY <1>4, <3>1
  <2>2. Len(cut) = (IF 1 <= m THEN m - 1 + 1 ELSE 0) /\ cut \in Seq(Transactions(A))
        /\ \A t \in 1..(m - 1 + 1) : cut[t] = ts[1 + t - 1]
    BY <1>3, <1>4, <2>1, SubSeqProperties
  <2> QED  BY <1>4, <2>2
<1>6. DoneUpto(cut, m)
  <2>1. ASSUME NEW t \in 1..m, NEW i \in DOMAIN cut[t].ops PROVE cut[t].ops[i].done = TRUE
    <3>1. t \in 1..len /\ t <= n /\ cut[t] = ts[t]
      <4>1. n \in Nat
        BY <1>2
      <4> QED  BY <1>4, <1>5, <4>1
    <3> QED  BY <1>2, <3>1 DEF Lists, DoneUpto
  <2>2. \A t \in 1..m : ~(t > m) /\ t <= m
    BY <1>4
  <2> QED  BY <1>5, <2>1, <2>2 DEF DoneUpto
<1> QED  BY <1>3, <1>4, <1>5, <1>6 DEF Lists

LEMMA LongerList ==
  ASSUME NEW ts, Lists(ts, Len(ts)), NEW id \in Ids
  PROVE  LET new == Append(ts, [id |-> id, ops |-> <<>>]) IN
         Lists(new, Len(new)) /\ Len(new) = Len(ts) + 1
<1>1. PICK A : ts \in Seq(Transactions(A))
  BY DEF Lists
<1>2. PICK x : x = [id |-> id, ops |-> <<>>]
  OBVIOUS
<1>3. x \in Transactions(A) /\ DOMAIN x.ops = {}
  BY <1>2 DEF Transactions
<1>4. PICK new : new = Append(ts, x)
  OBVIOUS
<1>5. PICK len \in Nat : len = Len(ts)
  BY <1>1, LenProperties
<1>6. new \in Seq(Transactions(A)) /\ Len(new) = len + 1 /\ new[len + 1] = x /\ \A t \in 1..len : new[t] = ts[t]
  BY <1>1, <1>3, <1>4, <1>5, AppendProperties
<1>7. DoneUpto(new, len + 1)
  <2>1. ASSUME NEW t \in 1..(len + 1), NEW i \in DOMAIN new[t].ops PROVE new[t].ops[i].done = TRUE
    <3>1. t \in 1..len
      BY <1>3, <1>6
    <3>2. new[t] = ts[t] /\ t <= len
      BY <1>6, <3>1
    <3> QED  BY <1>5, <3>1, <3>2 DEF Lists, DoneUpto
  <2>2. \A t \in 1..(len + 1) : ~(t > len + 1) /\ t <= len + 1
    BY <1>5
  <2> QED  BY <1>6, <2>1, <2>2 DEF DoneUpto
<1> QED  BY <1>2, <1>4, <1>5, <1>6, <1>7 DEF Lists

\* One of the transactions gets other operations, and is then among the first m or not.
Changed(ts, k, ops) == [ts EXCEPT ![k].ops = ops]
SameBut(k, n, m, len) == \A t \in 1..len : t # k => (t <= m <=> t <= n)
Suits(ops, k, m) ==
  /\ \E B : ops \in Seq(Operations(B))
  /\ \A i \in DOMAIN ops : (k <= m => ops[i].done = TRUE) /\ (k > m => ops[i].done = FALSE)

LEMMA ChangedList ==
  ASSUME NEW ts, NEW n, Lists(ts, n), NEW k, k \in 1..Len(ts), NEW ops, NEW m, m \in 0..Len(ts),
         SameBut(k, n, m, Len(ts)), Suits(ops, k, m)
  PROVE  Lists(Changed(ts, k, ops), m) /\ Len(Changed(ts, k, ops)) = Len(ts)
<1> PICK B : ops \in Seq(Operations(B))
  BY DEF Suits
<1>1. PICK A : ts \in Seq(Transactions(A))
  BY DEF Lists
<1>2. PICK C : C = A \cup B
  OBVIOUS
<1>3. ts \in Seq(Transactions(C)) /\ ops \in Seq(Operations(C))
  <2>1. A \subseteq C /\ B \subseteq C
    BY <1>2
  <2> QED  BY <1>1, <2>1, OperationsGrow
<1>4. PICK len \in Nat : len = Len(ts) /\ DOMAIN ts = 1..len /\ ts \in [1..len -> Transactions(C)]
  BY <1>3, LenProperties
<1>5. PICK x : x = [ts[k] EXCEPT !.ops = ops]
  OBVIOUS
<1>6. x \in Transactions(C) /\ x.ops = ops
  <2>1. ts[k] \in Transactions(C)
    BY <1>4
  <2> QED  BY <1>3, <1>5, <2>1 DEF Transactions
<1>7. PICK new : new = [ts EXCEPT ![k] = x]
  OBVIOUS
<1>8. new = Changed(ts, k, ops)
  BY <1>5, <1>7 DEF Changed
<1>9. new \in Seq(Transactions(C)) /\ Len(new) = len /\ new[k] = x /\ \A t \in 1..len : t # k => new[t] = ts[t]
  <2>1. new \in [1..len -> Transactions(C)] /\ new[k] = x /\ \A t \in 1..len : t # k => new[t] = ts[t]
    BY <1>4, <1>6, <1>7
  <2> QED  BY <2>1, SeqDef, LenProperties
<1>10. DoneUpto(new, m)
  <2> SUFFICES ASSUME NEW t \in 1..len, NEW i \in DOMAIN new[t].ops
               PROVE  (t <= m => new[t].ops[i].done = TRUE) /\ (t > m => new[t].ops[i].done = FALSE)
    BY <1>9 DEF DoneUpto
  <2>1. CASE t = k
    BY <1>6, <1>9, <2>1 DEF Suits
  <2>2. CASE t # k
    <3>1. new[t] = ts[t] /\ (t <= m <=> t <= n) /\ t \in 1..Len(ts)
      BY <1>4, <1>9, <2>2 DEF SameBut
    <3>2. m \in Nat /\ n \in Nat
      BY <1>4 DEF Lists
    <3>3. t > m <=> t > n
      BY <3>1, <3>2
    <3> QED  BY <3>1, <3>3 DEF Lists, DoneUpto
  <2> QED  BY <2>1, <2>2
<1> QED  BY <1>4, <1>8, <1>9, <1>10 DEF Lists

-----------------------------------------------------------------------------
(* The operations of the open transaction                                  *)

\* Operations that are done, as those of the open transaction.
IsDone(op) == op.done = TRUE /\ \E A : op \in Operations(A)
AllDone(ops) == (\E A : ops \in Seq(Operations(A))) /\ \A i \in DOMAIN ops : ops[i].done = TRUE

LEMMA NewOperations ==
  ASSUME NEW c, NEW bag, NEW layer
  PROVE  /\ IsDone(LayerOp(c, TRUE, bag)) /\ IsDone(LayerOp(c, FALSE, bag))
         /\ IsDone(FullLayerOp(c, TRUE, layer)) /\ IsDone(FullLayerOp(c, FALSE, layer))
<1> DEFINE A == {c, bag, layer, NoLayer, NoShapes, TRUE, FALSE}
<1>1. LayerOp(c, TRUE, bag) \in Operations(A) /\ LayerOp(c, TRUE, bag).done = TRUE
  BY DEF LayerOp, Operations
<1>2. LayerOp(c, FALSE, bag) \in Operations(A) /\ LayerOp(c, FALSE, bag).done = TRUE
  BY DEF LayerOp, Operations
<1>3. FullLayerOp(c, TRUE, layer) \in Operations(A) /\ FullLayerOp(c, TRUE, layer).done = TRUE
  BY DEF FullLayerOp, Operations
<1>4. FullLayerOp(c, FALSE, layer) \in Operations(A) /\ FullLayerOp(c, FALSE, layer).done = TRUE
  BY DEF FullLayerOp, Operations
<1> HIDE DEF A
<1> QED  BY <1>1, <1>2, <1>3, <1>4 DEF IsDone

LEMMA Appended ==
  ASSUME NEW ops, AllDone(ops), NEW op, IsDone(op)
  PROVE  AllDone(Append(ops, op))
<1>1. PICK A : ops \in Seq(Operations(A))
  BY DEF AllDone
<1>2. PICK B : op \in Operations(B)
  BY DEF IsDone
<1>3. PICK C : C = A \cup B
  OBVIOUS
<1>4. ops \in Seq(Operations(C)) /\ op \in Operations(C)
  <2>1. A \subseteq C /\ B \subseteq C
    BY <1>3
  <2> QED  BY <1>1, <1>2, <2>1, OperationsGrow
<1>5. PICK n \in Nat : n = Len(ops) /\ DOMAIN ops = 1..n
  BY <1>4, LenProperties
<1>6. PICK new : new = Append(ops, op)
  OBVIOUS
<1>7. /\ new \in Seq(Operations(C)) /\ DOMAIN new = 1..(n + 1) /\ new[n + 1] = op
      /\ \A i \in 1..n : new[i] = ops[i]
  <2>1. /\ new \in Seq(Operations(C)) /\ Len(new) = n + 1 /\ new[n + 1] = op
        /\ \A i \in 1..n : new[i] = ops[i]
    BY <1>4, <1>5, <1>6, AppendProperties
  <2> QED  BY <2>1, LenProperties
<1>8. ASSUME NEW i \in 1..(n + 1) PROVE new[i].done = TRUE
  <2>1. i = n + 1 \/ i \in 1..n
    OBVIOUS
  <2> QED  BY <1>5, <1>7, <2>1 DEF AllDone, IsDone
<1> QED  BY <1>6, <1>7, <1>8 DEF AllDone

\* queue_or_append, whichever it does.
LEMMA QueuedOrAppended ==
  ASSUME NEW ops, AllDone(ops), NEW op, IsDone(op)
  PROVE  AllDone(QueueOrAppend(op, ops))
<1>1. CASE QueueOrAppend(op, ops) = Append(ops, op)
  BY <1>1, Appended
<1>2. CASE QueueOrAppend(op, ops) # Append(ops, op)
  <2>1. ops # <<>> /\ QueueOrAppend(op, ops) = [ops EXCEPT ![Len(ops)].shapes = Plus(@, op.shapes)]
    BY <1>2 DEF QueueOrAppend
  <2>2. PICK A : ops \in Seq(Operations(A))
    BY DEF AllDone
  <2>3. PICK n \in Nat : n = Len(ops) /\ DOMAIN ops = 1..n /\ n \in 1..n
    BY <2>1, <2>2, LenProperties, EmptySeq
  <2>4. PICK bag : bag = Plus(ops[n].shapes, op.shapes)
    OBVIOUS
  <2>5. PICK C : C = A \cup {bag}
    OBVIOUS
  <2>6. ops \in Seq(Operations(C)) /\ bag \in C
    <3>1. A \subseteq C /\ bag \in C
      BY <2>5
    <3> QED  BY <2>2, <3>1, OperationsGrow
  <2>7. PICK x : x = [ops[n] EXCEPT !.shapes = bag]
    OBVIOUS
  <2>8. x \in Operations(C) /\ x.done = TRUE
    <3>1. ops[n] \in Operations(C) /\ ops[n].done = TRUE
      BY <2>3, <2>6, ElementOfSeq DEF AllDone
    <3> QED  BY <2>6, <2>7, <3>1 DEF Operations
  <2>9. PICK new : new = [ops EXCEPT ![n] = x]
    OBVIOUS
  <2>10. QueueOrAppend(op, ops) = new
    <3>1. QueueOrAppend(op, ops) = [ops EXCEPT ![n].shapes = Plus(@, op.shapes)]
      BY <2>1, <2>3
    <3> QED  BY <2>4, <2>7, <2>9, <3>1
  <2>11. new \in Seq(Operations(C)) /\ DOMAIN new = 1..n /\ \A i \in 1..n : new[i].done = TRUE
    <3>1. ops \in [1..n -> Operations(C)]
      BY <2>3, <2>6, LenProperties
    <3>2. new \in [1..n -> Operations(C)]
      BY <2>8, <2>9, <3>1
    <3>3. \A i \in 1..n : new[i].done = TRUE
      BY <2>3, <2>8, <2>9 DEF AllDone
    <3> QED  BY <3>2, <3>3, SeqDef
  <2> QED  BY <2>10, <2>11 DEF AllDone
<1> QED  BY <1>1, <1>2

-----------------------------------------------------------------------------
(* The inductive invariant                                                 *)

\* With an open transaction, the last one, all operations are done.
OpenLists ==
  /\ opened = TRUE /\ current \in Nat /\ Len(transactions) = current + 1
  /\ Lists(transactions, Len(transactions))

\* Otherwise those of the transactions in front of m_current.
ClosedLists == opened = FALSE /\ Lists(transactions, current)

IInv == OpenLists \/ ClosedLists

LEMMA ListsInOrder == IInv => DoneInOrder
<1>1. ASSUME OpenLists PROVE DoneInOrder
  <2>1. PICK len \in Nat : len = Len(transactions) /\ DOMAIN transactions = 1..len
    BY <1>1, LenProperties DEF OpenLists, Lists
  <2>2. \A t \in 1..len : \A i \in DOMAIN transactions[t].ops : transactions[t].ops[i].done = TRUE
    BY <1>1, <2>1 DEF OpenLists, Lists, DoneUpto
  <2> QED  BY <1>1, <2>1, <2>2 DEF OpenLists, DoneInOrder
<1>2. ASSUME ClosedLists PROVE DoneInOrder
  <2>1. PICK len \in Nat : len = Len(transactions) /\ DOMAIN transactions = 1..len /\ current \in 0..len
    BY <1>2, LenProperties DEF ClosedLists, Lists
  <2>2. \A t \in 1..len : \A i \in DOMAIN transactions[t].ops :
          transactions[t].ops[i].done = (t <= current)
    <3> SUFFICES ASSUME NEW t \in 1..len, NEW i \in DOMAIN transactions[t].ops
                 PROVE  transactions[t].ops[i].done = (t <= current)
      OBVIOUS
    <3>1. /\ t <= current => transactions[t].ops[i].done = TRUE
          /\ t > current => transactions[t].ops[i].done = FALSE
      BY <1>2, <2>1 DEF ClosedLists, Lists, DoneUpto
    <3>2. CASE t <= current
      BY <3>1, <3>2
    <3>3. CASE t > current
      <4>1. (t <= current) = FALSE
        BY <2>1, <3>3
      <4>2. transactions[t].ops[i].done = FALSE
        BY <3>1, <3>3
      <4> QED  BY <4>1, <4>2
    <3>4. t <= current \/ t > current
      BY <2>1
    <3> QED  BY <3>2, <3>3, <3>4
  <2> QED  BY <1>2, <2>1, <2>2 DEF ClosedLists, DoneInOrder
<1> QED  BY <1>1, <1>2 DEF IInv

LEMMA Forgotten ==
  ASSUME transactions' = <<>>, current' = 0, opened' = FALSE
  PROVE  IInv'
<1> QED  BY NoList DEF IInv, ClosedLists, Lists, DoneUpto

-----------------------------------------------------------------------------
(* The calls                                                               *)

LEMMA Opened ==
  ASSUME OpenLists
  PROVE  /\ current + 1 \in 1..Len(transactions) /\ AllDone(Current.ops)
         /\ CloseCurrent \in 0..Len(transactions)
         /\ CloseCurrent = current \/ CloseCurrent = current + 1
<1>1. PICK A : transactions \in Seq(Transactions(A))
  BY DEF OpenLists, Lists
<1>2. current \in Nat /\ Len(transactions) = current + 1 /\ current + 1 \in 1..Len(transactions)
  BY DEF OpenLists
<1>3. PICK x : x = transactions[current + 1]
  OBVIOUS
<1>4. x \in Transactions(A)
  BY <1>1, <1>2, <1>3, ElementOfSeq
<1>5. x.ops \in Seq(Operations(A))
  BY <1>4 DEF Transactions
<1>6. \A i \in DOMAIN x.ops : x.ops[i].done = TRUE
  BY <1>2, <1>3 DEF OpenLists, Lists, DoneUpto
<1>7. AllDone(Current.ops)
  BY <1>3, <1>5, <1>6 DEF AllDone, Current
<1> QED  BY <1>2, <1>7 DEF CloseCurrent

\* A change that is recorded.
LEMMA QueueStep ==
  ASSUME IInv, NEW ops, opened = TRUE => AllDone(ops), Queue(ops), UNCHANGED <<current, opened>>
  PROVE  IInv'
<1>1. CASE ClosedLists
  <2>1. transactions' = transactions /\ current' = current /\ opened' = opened
    BY <1>1 DEF ClosedLists, Queue
  <2> QED  BY <1>1, <2>1 DEF IInv, ClosedLists, Lists, DoneUpto
<1>2. CASE OpenLists
  <2>1. PICK k : k = current + 1
    OBVIOUS
  <2>2. k \in 1..Len(transactions) /\ k = Len(transactions) /\ opened = TRUE /\ current' = current /\ opened' = opened
    BY <1>2, <2>1, Opened DEF OpenLists
  <2>3. PICK new : new = Changed(transactions, k, ops)
    OBVIOUS
  <2>4. transactions' = new
    BY <2>1, <2>2, <2>3 DEF Queue, Changed
  <2>5. Suits(ops, k, k)
    <3>1. k \in Nat
      BY <2>2
    <3>2. ~(k > k)
      BY <3>1
    <3> QED  BY <2>2, <3>2 DEF AllDone, Suits
  <2>6. k \in 0..Len(transactions) /\ SameBut(k, k, k, Len(transactions))
    BY <2>2 DEF SameBut
  <2>7. Lists(transactions, k)
    BY <1>2, <2>2 DEF OpenLists
  <2>9. Lists(new, k) /\ Len(new) = k
    BY <2>2, <2>3, <2>5, <2>6, <2>7, ChangedList
  <2>10. current \in Nat /\ Lists(new, Len(new)) /\ Len(new) = current + 1
    BY <1>2, <2>1, <2>9 DEF OpenLists
  <2>11. OpenLists'
    <3>1. Lists(new, Len(new)) /\ new = transactions'
      BY <2>4, <2>10
    <3> QED  BY <2>2, <2>4, <2>10, <3>1 DEF OpenLists, Lists, DoneUpto
  <2> QED  BY <2>11 DEF IInv
<1> QED  BY <1>1, <1>2 DEF IInv

LEMMA RecordStep ==
  ASSUME IInv, NEW op, IsDone(op), Record(op), UNCHANGED <<current, opened>>
  PROVE  IInv'
<1>1. PICK ops : ops = IF opened THEN QueueOrAppend(op, Current.ops) ELSE <<>>
  OBVIOUS
<1>2. Queue(ops)
  BY <1>1 DEF Record
<1>3. ASSUME opened = TRUE PROVE AllDone(ops)
  <2>1. AllDone(Current.ops)
    BY <1>3, Opened DEF IInv, ClosedLists
  <2>2. AllDone(QueueOrAppend(op, Current.ops))
    BY <2>1, QueuedOrAppended
  <2> QED  BY <1>1, <1>3, <2>2
<1> QED  BY <1>2, <1>3, QueueStep

LEMMA InsertStep == ASSUME IInv, NEW c, NEW s, Insert(c, s) PROVE IInv'
<1>1. IsDone(LayerOp(c, TRUE, One(s)))
  BY NewOperations
<1> QED  BY <1>1, RecordStep DEF Insert, Edited

LEMMA EraseStep == ASSUME IInv, NEW c, NEW s, Erase(c, s) PROVE IInv'
<1>1. IsDone(LayerOp(c, FALSE, One(s)))
  BY NewOperations
<1> QED  BY <1>1, RecordStep DEF Erase, Edited

\* A layer that is put into a container or taken out.
LEMMA FullLayerStep ==
  ASSUME IInv, NEW op, IsDone(op), Queue(IF opened THEN Append(Current.ops, op) ELSE <<>>),
         UNCHANGED <<current, opened>>
  PROVE  IInv'
<1>1. PICK ops : ops = IF opened THEN Append(Current.ops, op) ELSE <<>>
  OBVIOUS
<1>2. Queue(ops)
  BY <1>1
<1>3. ASSUME opened = TRUE PROVE AllDone(ops)
  <2>1. AllDone(Current.ops)
    BY <1>3, Opened DEF IInv, ClosedLists
  <2>2. AllDone(Append(Current.ops, op))
    BY <2>1, Appended
  <2> QED  BY <1>1, <1>3, <2>2
<1> QED  BY <1>2, <1>3, QueueStep

LEMMA ClearContainerStep == ASSUME IInv, NEW c, ClearContainer(c) PROVE IInv'
<1>1. IsDone(FullLayerOp(c, FALSE, heap.held[c]))
  BY NewOperations
<1> QED  BY <1>1, FullLayerStep DEF ClearContainer, Edited

LEMMA CopyFromStep == ASSUME IInv, NEW c, NEW d, CopyFrom(c, d) PROVE IInv'
<1>1. PICK bag : bag = Contents(heap)[d]
  OBVIOUS
<1>2. PICK new : new = NewLayer(heap, bag)
  OBVIOUS
<1>3. IsDone(FullLayerOp(c, TRUE, new.layer)) /\ IsDone(LayerOp(c, TRUE, bag))
  BY NewOperations
<1>4. /\ \/ Queue(IF opened THEN Append(Current.ops, FullLayerOp(c, TRUE, new.layer)) ELSE <<>>)
         \/ Record(LayerOp(c, TRUE, bag))
      /\ UNCHANGED <<current, opened>>
  BY <1>1, <1>2 DEF CopyFrom, Edited
<1> QED  BY <1>3, <1>4, FullLayerStep, RecordStep

\* A transaction begins: the list is cut after the n-th one, or joined with it.
LEMMA TransactionStep == ASSUME IInv, NEW join, Transaction(join) PROVE IInv'
<1>1. PICK n : n = IF opened THEN CloseCurrent ELSE current
  OBVIOUS
<1>2. PICK ts : ts = IF opened THEN Before(n) ELSE transactions
  OBVIOUS
<1>3. /\ \/ ts # <<>> /\ n = Len(ts) /\ transactions' = ts /\ current' = Len(ts) - 1
         \/ transactions' \in AddedTo(ts, n) /\ current' = n
      /\ opened' = TRUE
  BY <1>1, <1>2 DEF Transaction, Joins
<1>4. Lists(ts, n)
  <2>1. CASE OpenLists
    <3>1. n = CloseCurrent /\ ts = SubSeq(transactions, 1, n)
      BY <1>1, <1>2, <2>1 DEF OpenLists, Before
    <3>2. n \in 0..Len(transactions) /\ Lists(transactions, Len(transactions))
      BY <2>1, <3>1, Opened DEF OpenLists
    <3> QED  BY <3>1, <3>2, CutList
  <2>2. CASE ClosedLists
    BY <1>1, <1>2, <2>2 DEF ClosedLists
  <2> QED  BY <2>1, <2>2 DEF IInv
<1>5. PICK len \in Nat : len = Len(ts) /\ n \in 0..len
  BY <1>4, LenProperties DEF Lists
<1>6. PICK new : new = transactions'
  OBVIOUS
<1>7. current' \in Nat /\ Lists(new, Len(new)) /\ Len(new) = current' + 1
  <2>1. CASE ts # <<>> /\ n = Len(ts) /\ transactions' = ts /\ current' = Len(ts) - 1
    <3>1. len # 0
      BY <1>4, <1>5, <2>1, EmptySeq DEF Lists
    <3> QED  BY <1>4, <1>5, <1>6, <2>1, <3>1
  <2>2. CASE transactions' \in AddedTo(ts, n) /\ current' = n
    <3>1. PICK cut : cut = SubSeq(ts, 1, n)
      OBVIOUS
    <3>2. PICK id \in Ids : new = Append(cut, [id |-> id, ops |-> <<>>])
      BY <1>6, <2>2, <3>1 DEF AddedTo, NewTransaction
    <3>3. n \in 0..n
      BY <1>5
    <3>4. Lists(cut, n) /\ Len(cut) = n
      BY <1>4, <3>1, <3>3, CutList
    <3>5. Lists(cut, Len(cut))
      BY <3>4
    <3>6. Lists(new, Len(new)) /\ Len(new) = Len(cut) + 1
      BY <3>2, <3>5, LongerList
    <3> QED  BY <1>5, <2>2, <3>4, <3>6
  <2> QED  BY <1>3, <2>1, <2>2
<1>8. OpenLists'
  BY <1>3, <1>6, <1>7 DEF OpenLists, Lists, DoneUpto
<1> QED  BY <1>8 DEF IInv

\* The list is cut, and no transaction is open any more.
LEMMA CutStep ==
  ASSUME OpenLists, NEW n, n \in 0..Len(transactions),
         transactions' = Before(n), current' = n, opened' = FALSE
  PROVE  IInv'
<1>1. PICK new : new = SubSeq(transactions, 1, n)
  OBVIOUS
<1>2. Lists(new, n)
  BY <1>1, CutList DEF OpenLists
<1>3. transactions' = new
  BY <1>1 DEF Before
<1>4. ClosedLists'
  BY <1>2, <1>3 DEF ClosedLists, Lists, DoneUpto
<1> QED  BY <1>4 DEF IInv

LEMMA CommitStep == ASSUME IInv, Commit PROVE IInv'
<1>1. OpenLists
  BY DEF Commit, IInv, ClosedLists
<1>2. PICK n : n = CloseCurrent
  OBVIOUS
<1>3. transactions' = Before(n) /\ current' = n /\ opened' = FALSE
  BY <1>2 DEF Commit, Keep
<1>4. n \in 0..Len(transactions)
  BY <1>1, <1>2, Opened
<1> QED  BY <1>1, <1>3, <1>4, CutStep

LEMMA CancelStep == ASSUME IInv, Cancel PROVE IInv'
<1>1. OpenLists
  BY DEF Cancel, IInv, ClosedLists
<1>2. CASE transactions' = Before(current) /\ opened' = FALSE /\ current' = current
  <2>1. current \in 0..Len(transactions)
    BY <1>1 DEF OpenLists
  <2> QED  BY <1>1, <1>2, <2>1, CutStep
<1>3. CASE Interrupted(current + 1, FALSE)
  BY <1>3, Forgotten DEF Interrupted
<1> QED  BY <1>2, <1>3 DEF Cancel

LEMMA ClearStep == ASSUME IInv, Clear PROVE IInv'
<1> QED  BY Forgotten DEF Clear

\* A transaction at the border between the done and the undone ones has been replayed.
LEMMA ReplayStep ==
  ASSUME ClosedLists, NEW k, k \in 1..Len(transactions), NEW m, NEW redo, IsWay(redo),
         m \in 0..Len(transactions), SameBut(k, current, m, Len(transactions)),
         redo = TRUE => k <= m, redo = FALSE => k > m,
         NEW ops, ops = transactions[k].ops, NEW r, r = Replay(ops, redo, Len(ops)),
         transactions' = Changed(transactions, k, r.ops), current' = m, opened' = FALSE
  PROVE  IInv'
<1>1. PICK A : transactions \in Seq(Transactions(A))
  BY DEF ClosedLists, Lists
<1>2. ops \in Seq(Operations(A))
  <2>1. transactions[k] \in Transactions(A)
    BY <1>1, ElementOfSeq
  <2> QED  BY <2>1 DEF Transactions
<1>3. r.ops \in Seq(Operations(A)) /\ \A i \in DOMAIN r.ops : r.ops[i].done = redo
  BY <1>2, ReplayIs
<1>4. Suits(r.ops, k, m)
  <2>1. k \in Nat /\ m \in Nat /\ ~(k <= m /\ k > m)
    <3>1. PICK len \in Nat : len = Len(transactions)
      BY <1>1, LenProperties
    <3>2. k \in 1..len /\ m \in 0..len
      BY <3>1
    <3> QED  BY <3>2
  <2>2. CASE redo = TRUE
    BY <1>3, <2>1, <2>2 DEF Suits
  <2>3. CASE redo = FALSE
    BY <1>3, <2>1, <2>3 DEF Suits
  <2> QED  BY <2>2, <2>3 DEF IsWay
<1>5. PICK new : new = Changed(transactions, k, r.ops)
  OBVIOUS
<1>6. Lists(new, m)
  <2>1. PICK o : o = r.ops
    OBVIOUS
  <2>2. Suits(o, k, m) /\ new = Changed(transactions, k, o)
    BY <1>4, <1>5, <2>1
  <2> QED  BY <2>2, ChangedList DEF ClosedLists
<1>7. transactions' = new /\ current' = m /\ opened' = FALSE
  BY <1>5
<1>8. ClosedLists'
  BY <1>6, <1>7 DEF ClosedLists, Lists, DoneUpto
<1> QED  BY <1>8 DEF IInv

LEMMA UndoStep == ASSUME IInv, Undo PROVE IInv'
<1>1. ClosedLists /\ current > 0
  BY DEF Undo, IInv, OpenLists
<1>2. CASE Interrupted(current, FALSE)
  BY <1>2, Forgotten DEF Interrupted
<1>3. CASE ~Interrupted(current, FALSE)
  <2>1. PICK ops : ops = transactions[current].ops
    OBVIOUS
  <2>2. PICK r : r = Replay(ops, FALSE, Len(ops))
    OBVIOUS
  <2>3. PICK m : m = current - 1
    OBVIOUS
  <2>4. transactions' = Changed(transactions, current, r.ops) /\ current' = m /\ opened' = FALSE
    BY <1>1, <1>3, <2>1, <2>2, <2>3 DEF Undo, Changed, ClosedLists
  <2>5. PICK len \in Nat : len = Len(transactions) /\ current \in 1..len
    BY <1>1, LenProperties DEF ClosedLists, Lists
  <2>6. current \in 1..len /\ m \in 0..len /\ current > m /\ SameBut(current, current, m, len)
    BY <2>3, <2>5 DEF SameBut
  <2>7. IsWay(FALSE)
    BY DEF IsWay
  <2> QED  BY <1>1, <2>1, <2>2, <2>4, <2>5, <2>6, <2>7, ReplayStep
<1> QED  BY <1>2, <1>3

LEMMA RedoStep == ASSUME IInv, Redo PROVE IInv'
<1>1. ClosedLists /\ current < Len(transactions)
  BY DEF Redo, IInv, OpenLists
<1>2. CASE Interrupted(current + 1, TRUE)
  BY <1>2, Forgotten DEF Interrupted
<1>3. CASE ~Interrupted(current + 1, TRUE)
  <2>1. PICK k : k = current + 1
    OBVIOUS
  <2>2. PICK ops : ops = transactions[k].ops
    OBVIOUS
  <2>3. PICK r : r = Replay(ops, TRUE, Len(ops))
    OBVIOUS
  <2>4. transactions' = Changed(transactions, k, r.ops) /\ current' = k /\ opened' = FALSE
    BY <1>1, <1>3, <2>1, <2>2, <2>3 DEF Redo, Current, Changed, ClosedLists
  <2>5. PICK len \in Nat : len = Len(transactions) /\ current \in 0..len /\ current < len
    BY <1>1, LenProperties DEF ClosedLists, Lists
  <2>6. k \in 1..len /\ k \in 0..len /\ k <= k /\ SameBut(k, current, k, len)
    BY <2>1, <2>5 DEF SameBut
  <2>7. IsWay(TRUE)
    BY DEF IsWay
  <2> QED  BY <1>1, <2>2, <2>3, <2>4, <2>5, <2>6, <2>7, ReplayStep
<1> QED  BY <1>2, <1>3

-----------------------------------------------------------------------------
(* The theorems                                                            *)

LEMMA InvariantStep == ASSUME IInv, [Next]_vars PROVE IInv'
<1>1. ASSUME NEW join \in {0} \cup Ids, Transaction(join) PROVE IInv'
  BY <1>1, TransactionStep
<1>2. CASE Commit
  BY <1>2, CommitStep
<1>3. CASE Cancel
  BY <1>3, CancelStep
<1>4. CASE Undo
  BY <1>4, UndoStep
<1>5. CASE Redo
  BY <1>5, RedoStep
<1>6. CASE Clear
  BY <1>6, ClearStep
<1>7. ASSUME NEW c \in Containers, NEW s \in Shapes, Insert(c, s) \/ Erase(c, s) PROVE IInv'
  BY <1>7, InsertStep, EraseStep
<1>8. ASSUME NEW c \in Containers, ClearContainer(c) PROVE IInv'
  BY <1>8, ClearContainerStep
<1>9. ASSUME NEW c \in Containers, NEW d \in Containers, CopyFrom(c, d) PROVE IInv'
  BY <1>9, CopyFromStep
<1>10. CASE UNCHANGED vars
  BY <1>10 DEF vars, IInv, OpenLists, ClosedLists, Lists, DoneUpto
<1> QED  BY <1>1, <1>2, <1>3, <1>4, <1>5, <1>6, <1>7, <1>8, <1>9, <1>10 DEF Next

LEMMA InvariantInit == Init => IInv
BY NoList DEF Init, IInv, ClosedLists

LEMMA Invariant == Spec => []IInv
<1>1. Init => IInv
  BY InvariantInit
<1>2. IInv /\ [Next]_vars => IInv'
  BY InvariantStep
<1> QED  BY <1>1, <1>2, PTL DEF Spec

\* What the assertions on is_done in db::Transaction rely on, for every history of
\* the containers: an operation is done exactly if its transaction is in front of
\* m_current or open (dbManager.cc, undo, redo, commit, cancel and transaction).
THEOREM DoneCorrect == Spec => []DoneInOrder
<1> QED  BY Invariant, ListsInOrder, PTL

\* A replay from the end of a list, or to it, meets every operation in its state.
LEMMA AllInState ==
  ASSUME NEW A, NEW ops \in Seq(A), NEW redo, IsWay(redo), \A i \in DOMAIN ops : ops[i].done = ~redo
  PROVE  InState(ops, redo, Len(ops))
<1>1. PICK n \in Nat : n = Len(ops) /\ DOMAIN ops = 1..n
  BY LenProperties
<1>2. PICK order : order = Order(ops, redo, n)
  OBVIOUS
<1>3. TakesAll(order, n)
  BY <1>1, <1>2, OrderIs
<1>4. \A i \in ToSet(order) : i \in DOMAIN ops
  BY <1>1, <1>3 DEF TakesAll, ToSet
<1>5. \A i \in ToSet(order) : ops[i].done = ~redo
  BY <1>4
<1> QED  BY <1>1, <1>2, <1>5 DEF InState

\* The assertions in undo and redo hold for each transaction that can be replayed.
AssertionsPass ==
  LET undone(t) == InState(transactions[t].ops, FALSE, Len(transactions[t].ops))
      redone(t) == InState(transactions[t].ops, TRUE, Len(transactions[t].ops))
  IN  /\ ~opened /\ current > 0 => undone(current)
      /\ ~opened /\ current < Len(transactions) => redone(current + 1)
      /\ opened => undone(current + 1)

LEMMA ListsReplayable == IInv => AssertionsPass
<1> SUFFICES ASSUME IInv PROVE AssertionsPass
  OBVIOUS
<1>1. PICK A : transactions \in Seq(Transactions(A))
  BY DEF IInv, OpenLists, ClosedLists, Lists
<1>2. PICK len \in Nat : len = Len(transactions) /\ DOMAIN transactions = 1..len /\ current \in 0..len
  BY <1>1, LenProperties DEF IInv, OpenLists, ClosedLists, Lists
<1>3. ASSUME NEW t \in 1..len PROVE transactions[t].ops \in Seq(Operations(A))
  <2>1. transactions[t] \in Transactions(A)
    BY <1>1, <1>2, <1>3, ElementOfSeq
  <2> QED  BY <2>1 DEF Transactions
<1>4. ASSUME NEW t \in 1..len, t <= current \/ opened = TRUE
      PROVE  InState(transactions[t].ops, FALSE, Len(transactions[t].ops))
  <2>1. \A i \in DOMAIN transactions[t].ops : transactions[t].ops[i].done = TRUE
    BY <1>2, <1>4 DEF IInv, OpenLists, ClosedLists, Lists, DoneUpto
  <2>2. IsWay(FALSE) /\ TRUE = ~FALSE
    BY DEF IsWay
  <2>3. PICK ops \in Seq(Operations(A)) : ops = transactions[t].ops
    BY <1>3
  <2>4. \A i \in DOMAIN ops : ops[i].done = ~FALSE
    BY <2>1, <2>2, <2>3
  <2>5. InState(ops, FALSE, Len(ops))
    BY <2>2, <2>3, <2>4, AllInState
  <2> QED  BY <2>3, <2>5
<1>5. ASSUME NEW t \in 1..len, t > current, opened = FALSE
      PROVE  InState(transactions[t].ops, TRUE, Len(transactions[t].ops))
  <2>1. \A i \in DOMAIN transactions[t].ops : transactions[t].ops[i].done = FALSE
    BY <1>2, <1>5 DEF IInv, OpenLists, ClosedLists, Lists, DoneUpto
  <2>2. IsWay(TRUE) /\ FALSE = ~TRUE
    BY DEF IsWay
  <2>3. PICK ops \in Seq(Operations(A)) : ops = transactions[t].ops
    BY <1>3
  <2>4. \A i \in DOMAIN ops : ops[i].done = ~TRUE
    BY <2>1, <2>2, <2>3
  <2>5. InState(ops, TRUE, Len(ops))
    BY <2>2, <2>3, <2>4, AllInState
  <2> QED  BY <2>3, <2>5
<1>6. ~opened /\ current > 0 => InState(transactions[current].ops, FALSE, Len(transactions[current].ops))
  <2>1. current > 0 => current \in 1..len /\ current <= current
    BY <1>2
  <2> QED  BY <1>4, <2>1
<1>7. ~opened /\ current < len =>
        InState(transactions[current + 1].ops, TRUE, Len(transactions[current + 1].ops))
  <2>1. current < len => current + 1 \in 1..len /\ current + 1 > current
    BY <1>2
  <2>2. ~opened => opened = FALSE
    BY DEF IInv, OpenLists, ClosedLists
  <2> QED  BY <1>5, <2>1, <2>2
<1>8. opened => InState(transactions[current + 1].ops, FALSE, Len(transactions[current + 1].ops))
  <2>1. opened => opened = TRUE /\ current + 1 \in 1..len
    BY <1>2 DEF IInv, OpenLists, ClosedLists
  <2> QED  BY <1>4, <2>1
<1> QED  BY <1>2, <1>6, <1>7, <1>8 DEF AssertionsPass

\* No call of undo, redo or cancel runs into an assertion on is_done
\* (dbManager.cc:234, 270): the only way to interrupt one is the progress.
THEOREM AssertionsHold == Spec => []AssertionsPass
<1> QED  BY Invariant, ListsReplayable, PTL

-----------------------------------------------------------------------------
(* The full layer operations of the history, by their places: where the    *)
(* layers are                                                              *)

Places == Nat \X Nat
Prec(p, q) == p[1] < q[1] \/ (p[1] = q[1] /\ p[2] < q[2])

LEMMA PlacesInOrder ==
  ASSUME NEW p \in Places, NEW q \in Places
  PROVE  /\ p = q \/ Prec(p, q) \/ Prec(q, p)
         /\ ~(Prec(p, q) /\ Prec(q, p)) /\ ~Prec(p, p)
         /\ \A r \in Places : Prec(p, q) /\ Prec(q, r) => Prec(p, r)
<1>1. PICK a \in Nat, b \in Nat : p = <<a, b>>
  BY DEF Places
<1>2. PICK x \in Nat, y \in Nat : q = <<x, y>>
  BY DEF Places
<1>3. ASSUME NEW r \in Places, Prec(p, q), Prec(q, r) PROVE Prec(p, r)
  <2>1. PICK u \in Nat, v \in Nat : r = <<u, v>>
    BY DEF Places
  <2> QED  BY <1>1, <1>2, <1>3, <2>1 DEF Prec
<1> QED  BY <1>1, <1>2, <1>3 DEF Prec

Heaps == [held : [Containers -> {NoLayer} \cup Layers], alive : SUBSET Layers, content : [Layers -> ShapeBags]]

\* The operations that refer to a layer, each at its place.
FullOps == {op \in AllOps : op.layer # NoLayer}
IsView(f) == DOMAIN f \subseteq Places /\ \A p \in DOMAIN f : f[p] \in FullOps

LayersIn(f) == {f[p].layer : p \in DOMAIN f}
OwnedIn(f) == {f[p].layer : p \in {q \in DOMAIN f : f[q].owns}}
HeldBy(h) == {h.held[c] : c \in Containers}

\* Nothing leaks: a layer is in a container, or an operation owns it.
Kept(h, f) == h \in Heaps /\ h.alive \subseteq HeldBy(h) \cup OwnedIn(f)

OneContainer(f) == \A p, q \in DOMAIN f : f[p].layer = f[q].layer => f[p].obj = f[q].obj
OneClear(f) == \A p, q \in DOMAIN f : ~f[p].insert /\ ~f[q].insert => p = q
\* A copied layer is the one that the clear after it takes.
TakesCopied(f) ==
  \A p, k \in DOMAIN f : f[p].insert /\ ~f[k].insert /\ f[p].obj = f[k].obj =>
    (Prec(p, k) <=> f[p].layer = f[k].layer)
ClearedBetween(f) ==
  \A p, q \in DOMAIN f : f[p].insert /\ f[q].insert /\ f[p].obj = f[q].obj /\ Prec(p, q) =>
    \E k \in DOMAIN f : ~f[k].insert /\ f[k].obj = f[p].obj /\ Prec(p, k) /\ Prec(k, q)
DoneBefore(f) == \A p, q \in DOMAIN f : Prec(p, q) /\ f[q].done => f[p].done
OwnsTakenOut(f) == \A p \in DOMAIN f : f[p].owns <=> ~(f[p].insert <=> f[p].done)

\* The layer that an operation will find in its container.
AwaitsClear(h, f) ==
  \A k \in DOMAIN f :
    /\ ~f[k].insert /\ ~f[k].done
    /\ \A p \in DOMAIN f : f[p].insert /\ f[p].obj = f[k].obj /\ Prec(p, k) => f[p].done
    => h.held[f[k].obj] = f[k].layer
AwaitsUndo(h, f) ==
  \A p \in DOMAIN f :
    /\ f[p].insert /\ f[p].done
    /\ \A k \in DOMAIN f : ~f[k].insert /\ f[k].obj = f[p].obj /\ Prec(p, k) => ~f[k].done
    => h.held[f[p].obj] = f[p].layer
HeldUnowned(h, f) ==
  \A c \in Containers : \A p \in DOMAIN f : h.held[c] = f[p].layer => f[p].obj = c /\ ~f[p].owns
Alive(h, f) ==
  /\ \A c \in Containers : h.held[c] # NoLayer => h.held[c] \in h.alive
  /\ \A p \in DOMAIN f : f[p].owns => f[p].layer \in h.alive
HeldApart(h) == \A c, d \in Containers : h.held[c] = h.held[d] /\ h.held[c] # NoLayer => c = d

Plan(f) == /\ OneContainer(f) /\ OneClear(f) /\ TakesCopied(f) /\ ClearedBetween(f)
           /\ DoneBefore(f) /\ OwnsTakenOut(f)
Awaits(h, f) == AwaitsClear(h, f) /\ AwaitsUndo(h, f)
Apart(h, f) == HeldUnowned(h, f) /\ Alive(h, f) /\ HeldApart(h)
Good(h, f) == Plan(f) /\ Awaits(h, f) /\ Apart(h, f)

\* Two operations that own the same layer are the same; two copies are never of the same layer.
LEMMA CopiesDiffer ==
  ASSUME NEW f, IsView(f), Plan(f), NEW p, p \in DOMAIN f, NEW q, q \in DOMAIN f,
         f[p].insert, f[q].insert, f[p].layer = f[q].layer
  PROVE  p = q
<1>1. f[p].obj = f[q].obj /\ p \in Places /\ q \in Places
  BY DEF Plan, OneContainer, IsView
<1>2. ASSUME NEW a \in DOMAIN f, NEW b \in DOMAIN f, f[a].insert, f[b].insert, f[a].obj = f[b].obj,
             f[a].layer = f[b].layer, Prec(a, b)
      PROVE  FALSE
  <2>1. PICK k \in DOMAIN f : ~f[k].insert /\ f[k].obj = f[a].obj /\ Prec(a, k) /\ Prec(k, b)
    BY <1>2 DEF Plan, ClearedBetween
  <2>2. f[a].layer = f[k].layer /\ Prec(b, k)
    BY <1>2, <2>1 DEF Plan, TakesCopied
  <2>3. k \in Places /\ b \in Places
    BY DEF IsView
  <2> QED  BY <2>1, <2>2, <2>3, PlacesInOrder
<1> QED  BY <1>1, <1>2, PlacesInOrder

LEMMA OwnersDiffer ==
  ASSUME NEW f, IsView(f), Plan(f), NEW p, p \in DOMAIN f, NEW q, q \in DOMAIN f,
         f[p].owns, f[q].owns, f[p].layer = f[q].layer
  PROVE  p = q
<1>1. f[p].obj = f[q].obj
  BY DEF Plan, OneContainer
<1>2. ASSUME NEW a \in DOMAIN f, NEW b \in DOMAIN f, f[a].insert, ~f[b].insert, f[a].owns, f[b].owns,
             f[a].obj = f[b].obj, f[a].layer = f[b].layer
      PROVE  FALSE
  <2>1. Prec(a, b)
    BY <1>2 DEF Plan, TakesCopied
  <2>2. ~f[a].done /\ f[b].done
    BY <1>2 DEF Plan, OwnsTakenOut
  <2> QED  BY <2>1, <2>2 DEF Plan, DoneBefore
<1>3. CASE f[p].insert /\ f[q].insert
  BY <1>3, CopiesDiffer
<1>4. CASE ~f[p].insert /\ ~f[q].insert
  BY <1>4 DEF Plan, OneClear
<1> QED  BY <1>1, <1>2, <1>3, <1>4

-----------------------------------------------------------------------------
(* One operation of a replay                                               *)

\* The turn of p: those before it are done, those after it are not.
Border(f, p, redo) ==
  /\ p \in DOMAIN f /\ (f[p].done <=> ~redo)
  /\ \A q \in DOMAIN f : (Prec(q, p) => f[q].done) /\ (Prec(p, q) => ~f[q].done)

Turned(f, g, p, redo) ==
  /\ p \in DOMAIN f /\ DOMAIN g = DOMAIN f /\ IsView(g)
  /\ \A q \in DOMAIN f : q # p => g[q] = f[q]
  /\ g[p].layer = f[p].layer /\ g[p].obj = f[p].obj
  /\ (g[p].insert <=> f[p].insert) /\ (g[p].done <=> redo)

Puts(h, g, c, layer) ==
  /\ g \in Heaps /\ g.held[c] = layer
  /\ \A d \in Containers : d # c => g.held[d] = h.held[d]
  /\ \A x \in Layers : x \in g.alive <=> x \in h.alive /\ (x = layer \/ x # h.held[c])

Takes(h, g, c, layer) ==
  /\ g \in Heaps /\ g.alive = h.alive
  /\ h.held[c] = layer => g.held[c] = NoLayer
  /\ h.held[c] # layer => g.held[c] = h.held[c]
  /\ \A d \in Containers : d # c => g.held[d] = h.held[d]

\* The same as in the history before it.
LEMMA TurnedSame ==
  ASSUME NEW f, NEW g, NEW p, NEW redo, Turned(f, g, p, redo), NEW q \in DOMAIN f
  PROVE  /\ g[q].layer = f[q].layer /\ g[q].obj = f[q].obj /\ (g[q].insert <=> f[q].insert)
         /\ (q # p => (g[q].owns <=> f[q].owns) /\ (g[q].done <=> f[q].done))
<1> QED  BY DEF Turned

LEMMA PlanTurned ==
  ASSUME NEW f, IsView(f), Plan(f), NEW p, NEW redo, Border(f, p, redo), NEW g, Turned(f, g, p, redo),
         g[p].owns <=> ~(f[p].insert <=> redo)
  PROVE  Plan(g)
<1> DEFINE D == DOMAIN f
<1>0. DOMAIN g = D /\ p \in D
  BY DEF Turned
<1>1. \A q \in D : g[q].layer = f[q].layer /\ g[q].obj = f[q].obj /\ (g[q].insert <=> f[q].insert)
  BY TurnedSame
<1>2. \A q \in D : q # p => (g[q].owns <=> f[q].owns) /\ (g[q].done <=> f[q].done)
  BY TurnedSame
<1>3. OneContainer(g)
  BY <1>0, <1>1 DEF Plan, OneContainer
<1>4. OneClear(g)
  BY <1>0, <1>1 DEF Plan, OneClear
<1>5. TakesCopied(g)
  BY <1>0, <1>1 DEF Plan, TakesCopied
<1>6. ClearedBetween(g)
  <2> SUFFICES ASSUME NEW a \in D, NEW b \in D, f[a].insert, f[b].insert, f[a].obj = f[b].obj, Prec(a, b)
               PROVE  \E k \in D : ~g[k].insert /\ g[k].obj = g[a].obj /\ Prec(a, k) /\ Prec(k, b)
    BY <1>0, <1>1 DEF ClearedBetween
  <2>1. PICK k \in D : ~f[k].insert /\ f[k].obj = f[a].obj /\ Prec(a, k) /\ Prec(k, b)
    BY DEF Plan, ClearedBetween
  <2> QED  BY <1>1, <2>1
<1>7. DoneBefore(g)
  <2> SUFFICES ASSUME NEW a \in D, NEW b \in D, Prec(a, b), g[b].done PROVE g[a].done
    BY <1>0 DEF DoneBefore
  <2>1. a \in Places /\ b \in Places /\ p \in Places
    BY <1>0 DEF IsView
  <2>2. CASE b = p
    <3>1. a # p /\ f[a].done
      BY <2>1, <2>2, PlacesInOrder DEF Border
    <3> QED  BY <1>2, <3>1
  <2>3. CASE b # p /\ a # p
    BY <1>2, <2>3 DEF Plan, DoneBefore
  <2>4. CASE b # p /\ a = p
    BY <1>2, <2>4 DEF Border
  <2> QED  BY <2>2, <2>3, <2>4
<1>8. OwnsTakenOut(g)
  <2> SUFFICES ASSUME NEW q \in D PROVE g[q].owns <=> ~(g[q].insert <=> g[q].done)
    BY <1>0 DEF OwnsTakenOut
  <2>1. CASE q = p
    BY <1>1, <2>1 DEF Turned
  <2>2. CASE q # p
    BY <1>1, <1>2, <2>2 DEF Plan, OwnsTakenOut
  <2> QED  BY <2>1, <2>2
<1> QED  BY <1>3, <1>4, <1>5, <1>6, <1>7, <1>8 DEF Plan

LEMMA KeptPut ==
  ASSUME NEW f, NEW h, Kept(h, f), NEW p, NEW redo, NEW g, Turned(f, g, p, redo),
         NEW i, f[p].obj \in Containers, Puts(h, i, f[p].obj, f[p].layer), f[p].layer \in Layers,
         \A q \in DOMAIN f : q # p => (g[q].owns <=> f[q].owns)
  PROVE  Kept(i, g)
<1> SUFFICES ASSUME NEW x \in i.alive, x \notin HeldBy(i) PROVE x \in OwnedIn(g)
  BY DEF Kept, Puts
<1>1. x \in Layers
  BY DEF Puts, Heaps
<1>2. x \in h.alive /\ x # f[p].layer /\ x # h.held[f[p].obj]
  BY <1>1 DEF Puts, HeldBy
<1>3. x \notin HeldBy(h)
  BY <1>2 DEF Puts, HeldBy
<1>4. PICK q \in DOMAIN f : f[q].owns /\ f[q].layer = x
  BY <1>2, <1>3 DEF Kept, OwnedIn
<1> QED  BY <1>2, <1>4 DEF OwnedIn, Turned

LEMMA KeptTake ==
  ASSUME NEW f, NEW h, Kept(h, f), NEW p, NEW redo, NEW g, Turned(f, g, p, redo),
         NEW i, f[p].obj \in Containers, Takes(h, i, f[p].obj, f[p].layer),
         g[p].owns <=> (f[p].owns \/ h.held[f[p].obj] = f[p].layer)
  PROVE  Kept(i, g)
<1> SUFFICES ASSUME NEW x \in i.alive, x \notin HeldBy(i) PROVE x \in OwnedIn(g)
  BY DEF Kept, Takes
<1>1. x \in h.alive
  BY DEF Takes
<1>2. \A q \in DOMAIN f : q # p => (g[q].owns <=> f[q].owns)
  BY TurnedSame
<1>3. CASE x \in HeldBy(h)
  <2>1. PICK d \in Containers : h.held[d] = x
    BY <1>3 DEF HeldBy
  <2>2. d = f[p].obj /\ h.held[d] = f[p].layer
    BY <2>1 DEF Takes, HeldBy
  <2> QED  BY <2>1, <2>2 DEF OwnedIn, Turned
<1>4. CASE x \notin HeldBy(h)
  <2>1. PICK q \in DOMAIN f : f[q].owns /\ f[q].layer = x
    BY <1>1, <1>4 DEF Kept, OwnedIn
  <2> QED  BY <1>2, <2>1 DEF OwnedIn, Turned
<1> QED  BY <1>3, <1>4

-----------------------------------------------------------------------------
\* The layer that is put into a container belongs to the operation, the one that is
\* deleted there to nothing.
PutLayerWell(h, f, p) ==
  /\ f[p].owns /\ h.held[f[p].obj] # f[p].layer
  /\ \A d \in Containers : h.held[d] # f[p].layer
  /\ \A q \in DOMAIN f : h.held[f[p].obj] # f[q].layer
  /\ \A q \in DOMAIN f : q # p /\ f[q].layer = f[p].layer => ~f[q].owns

LEMMA PutWell ==
  ASSUME NEW f, IsView(f), NEW h, Good(h, f), NEW p, NEW redo, Border(f, p, redo), f[p].insert <=> redo
  PROVE  PutLayerWell(h, f, p)
<1> DEFINE D == DOMAIN f
           c == f[p].obj
<1>0. p \in D /\ c \in Containers /\ \A q \in D : q \in Places /\ f[q].layer \in Layers
  BY DEF Border, IsView, FullOps, AllOps
<1>1. f[p].owns
  BY <1>0 DEF Border, Good, Plan, OwnsTakenOut
<1>2. \A d \in Containers : h.held[d] # f[p].layer
  BY <1>0, <1>1 DEF Good, Apart, HeldUnowned
<1>3. ASSUME NEW q \in D, h.held[c] = f[q].layer PROVE FALSE
  <2>1. f[q].obj = c /\ ~f[q].owns /\ q # p
    BY <1>0, <1>1, <1>3 DEF Good, Apart, HeldUnowned
  <2>2. f[q].owns <=> ~(f[q].insert <=> f[q].done)
    BY DEF Good, Plan, OwnsTakenOut
  <2>3. Prec(q, p) \/ Prec(p, q)
    BY <1>0, <2>1, PlacesInOrder
  <2>4. CASE f[q].insert /\ redo
    <3>1. f[q].done /\ Prec(q, p) /\ f[p].insert
      BY <2>1, <2>2, <2>3, <2>4 DEF Border
    <3>2. PICK k \in D : ~f[k].insert /\ f[k].obj = f[q].obj /\ Prec(q, k) /\ Prec(k, p)
      BY <1>0, <2>1, <2>4, <3>1 DEF Good, Plan, ClearedBetween
    <3>3. f[q].layer = f[k].layer
      BY <2>4, <3>2 DEF Good, Plan, TakesCopied
    <3>4. f[k].owns
      BY <3>2 DEF Border, Good, Plan, OwnsTakenOut
    <3> QED  BY <1>0, <1>3, <3>3, <3>4 DEF Good, Apart, HeldUnowned
  <2>5. CASE ~f[q].insert /\ redo
    <3>1. ~f[q].done /\ Prec(p, q) /\ f[p].insert
      BY <2>1, <2>2, <2>3, <2>5 DEF Border
    <3>2. f[p].layer = f[q].layer
      BY <1>0, <2>1, <2>5, <3>1 DEF Good, Plan, TakesCopied
    <3> QED  BY <1>0, <1>2, <1>3, <3>2
  <2>6. CASE f[q].insert /\ ~redo
    <3>1. f[q].done /\ Prec(q, p) /\ ~f[p].insert
      BY <2>1, <2>2, <2>3, <2>6 DEF Border
    <3>2. f[p].layer = f[q].layer
      BY <1>0, <2>1, <2>6, <3>1 DEF Good, Plan, TakesCopied
    <3> QED  BY <1>0, <1>2, <1>3, <3>2
  <2>7. CASE ~f[q].insert /\ ~redo
    BY <1>0, <2>1, <2>7 DEF Good, Plan, OneClear
  <2> QED  BY <2>4, <2>5, <2>6, <2>7
<1>4. ASSUME NEW q \in D, q # p, f[q].layer = f[p].layer PROVE ~f[q].owns
  BY <1>0, <1>1, <1>4, OwnersDiffer DEF Good
<1> QED  BY <1>0, <1>1, <1>2, <1>3, <1>4 DEF PutLayerWell

\* redo of an insertion, undo of a removal
LEMMA GoodPut ==
  ASSUME NEW f, IsView(f), NEW h, h \in Heaps, Good(h, f), NEW p, NEW redo, Border(f, p, redo), f[p].insert <=> redo,
         NEW g, Turned(f, g, p, redo), g[p].owns <=> (f[p].owns /\ h.held[f[p].obj] = f[p].layer),
         NEW i, Puts(h, i, f[p].obj, f[p].layer)
  PROVE  Good(i, g)
<1> DEFINE D == DOMAIN f
           c == f[p].obj
           L == f[p].layer
<1>0. DOMAIN g = D /\ p \in D /\ c \in Containers /\ \A q \in D : q \in Places /\ f[q].layer \in Layers
  BY DEF Border, IsView, FullOps, AllOps, Turned, Layers
<1>1. PutLayerWell(h, f, p)
  BY PutWell
<1>2. ~g[p].owns
  BY <1>1 DEF PutLayerWell
<1>3. Plan(g)
  <2>1. g[p].owns <=> ~(f[p].insert <=> redo)
    BY <1>2
  <2> QED  BY <2>1, PlanTurned DEF Good
<1>4. \A q \in D : g[q].layer = f[q].layer /\ g[q].obj = f[q].obj /\ (g[q].insert <=> f[q].insert)
  BY TurnedSame
<1>5. \A q \in D : q # p => (g[q].owns <=> f[q].owns) /\ (g[q].done <=> f[q].done)
  BY TurnedSame
<1>6. i.held[c] = L /\ \A d \in Containers : d # c => i.held[d] = h.held[d]
  BY DEF Puts
<1>7. g[p].done <=> redo
  BY DEF Turned
<1>8. \A q \in D : q # p => Prec(q, p) \/ Prec(p, q)
  BY <1>0, PlacesInOrder
<1>11. ASSUME NEW k \in D, ~g[k].insert, ~g[k].done,
              \A q \in D : g[q].insert /\ g[q].obj = g[k].obj /\ Prec(q, k) => g[q].done
       PROVE  i.held[g[k].obj] = g[k].layer
  <2>1. CASE k = p
    BY <1>4, <1>6, <2>1
  <2>2. CASE k # p /\ f[k].obj = c
    <3>1. ~f[k].insert /\ ~f[k].done
      BY <1>4, <1>5, <1>11, <2>2
    <3>2. Prec(p, k)
      BY <1>8, <2>2, <3>1 DEF Border
    <3>3. f[p].insert
      BY <1>0, <2>2, <3>1 DEF Good, Plan, OneClear
    <3>4. f[k].layer = L
      BY <1>0, <2>2, <3>1, <3>2, <3>3 DEF Good, Plan, TakesCopied
    <3> QED  BY <1>4, <1>6, <2>2, <3>4
  <2>3. CASE k # p /\ f[k].obj # c
    <3>1. ~f[k].insert /\ ~f[k].done /\ f[k].obj \in Containers
      BY <1>4, <1>5, <1>11, <2>3 DEF IsView, FullOps, AllOps
    <3>2. ASSUME NEW q \in D, f[q].insert, f[q].obj = f[k].obj, Prec(q, k) PROVE f[q].done
      BY <1>4, <1>5, <1>11, <2>3, <3>2
    <3>3. h.held[f[k].obj] = f[k].layer
      BY <3>1, <3>2 DEF Good, Awaits, AwaitsClear
    <3> QED  BY <1>4, <1>6, <2>3, <3>1, <3>3
  <2> QED  BY <2>1, <2>2, <2>3
<1>12. ASSUME NEW q \in D, g[q].insert, g[q].done,
              \A k \in D : ~g[k].insert /\ g[k].obj = g[q].obj /\ Prec(q, k) => ~g[k].done
       PROVE  i.held[g[q].obj] = g[q].layer
  <2>1. CASE q = p
    BY <1>4, <1>6, <2>1
  <2>2. CASE q # p /\ f[q].obj = c
    <3>1. f[q].insert /\ f[q].done
      BY <1>4, <1>5, <1>12, <2>2
    <3>2. Prec(q, p)
      BY <1>8, <2>2, <3>1 DEF Border
    <3>3. CASE redo
      <4>1. f[p].insert
        BY <3>3
      <4>2. PICK k \in D : ~f[k].insert /\ f[k].obj = f[q].obj /\ Prec(q, k) /\ Prec(k, p)
        BY <1>0, <2>2, <3>1, <3>2, <4>1 DEF Good, Plan, ClearedBetween
      <4>3. k # p /\ f[k].done
        BY <1>0, <4>1, <4>2 DEF Border
      <4> QED  BY <1>4, <1>5, <1>12, <4>2, <4>3
    <3>4. CASE ~redo
      <4>1. f[q].layer = L
        BY <1>0, <2>2, <3>1, <3>2, <3>4 DEF Good, Plan, TakesCopied
      <4> QED  BY <1>4, <1>6, <2>2, <4>1
    <3> QED  BY <3>3, <3>4
  <2>3. CASE q # p /\ f[q].obj # c
    <3>1. f[q].insert /\ f[q].done /\ f[q].obj \in Containers
      BY <1>4, <1>5, <1>12, <2>3 DEF IsView, FullOps, AllOps
    <3>2. ASSUME NEW k \in D, ~f[k].insert, f[k].obj = f[q].obj, Prec(q, k) PROVE ~f[k].done
      BY <1>4, <1>5, <1>12, <2>3, <3>2
    <3>3. h.held[f[q].obj] = f[q].layer
      BY <3>1, <3>2 DEF Good, Awaits, AwaitsUndo
    <3> QED  BY <1>4, <1>6, <2>3, <3>1, <3>3
  <2> QED  BY <2>1, <2>2, <2>3
<1>13. Awaits(i, g)
  BY <1>0, <1>11, <1>12 DEF Awaits, AwaitsClear, AwaitsUndo
<1>14. HeldUnowned(i, g)
  <2> SUFFICES ASSUME NEW d \in Containers, NEW q \in D, i.held[d] = f[q].layer
               PROVE  f[q].obj = d /\ ~g[q].owns
    BY <1>0, <1>4 DEF HeldUnowned
  <2>1. CASE d = c
    <3>1. f[q].layer = L /\ f[q].obj = c
      BY <1>0, <1>6, <2>1 DEF Good, Plan, OneContainer
    <3> QED  BY <1>1, <1>2, <1>5, <2>1, <3>1 DEF PutLayerWell
  <2>2. CASE d # c
    <3>1. h.held[d] = f[q].layer
      BY <1>6, <2>2
    <3>2. q # p
      BY <1>1, <3>1 DEF PutLayerWell
    <3> QED  BY <1>5, <3>1, <3>2 DEF Good, Apart, HeldUnowned
  <2> QED  BY <2>1, <2>2
<1>15. \A x \in Layers : x \in i.alive <=> x \in h.alive /\ (x = L \/ x # h.held[c])
  BY DEF Puts
<1>16. Alive(i, g)
  <2>1. ASSUME NEW d \in Containers, i.held[d] # NoLayer PROVE i.held[d] \in i.alive
    <3>1. CASE d = c
      <4>1. L \in h.alive /\ L \in Layers
        BY <1>0, <1>1 DEF Good, Apart, Alive, PutLayerWell
      <4> QED  BY <1>6, <1>15, <3>1, <4>1
    <3>2. CASE d # c
      <4>1. i.held[d] = h.held[d] /\ h.held[d] \in h.alive /\ h.held[d] # h.held[c]
        BY <1>0, <1>6, <2>1, <3>2 DEF Good, Apart, Alive, HeldApart
      <4>2. h.held[d] \in Layers
        BY <4>1 DEF Heaps
      <4> QED  BY <1>15, <4>1, <4>2
    <3> QED  BY <3>1, <3>2
  <2>2. ASSUME NEW q \in D, g[q].owns PROVE g[q].layer \in i.alive
    <3>1. q # p /\ f[q].owns
      BY <1>2, <1>5, <2>2
    <3>2. f[q].layer \in h.alive /\ f[q].layer # h.held[c] /\ f[q].layer \in Layers
      BY <1>0, <1>1, <3>1 DEF Good, Apart, Alive, PutLayerWell
    <3> QED  BY <1>4, <1>15, <3>2
  <2> QED  BY <1>0, <2>1, <2>2 DEF Alive
<1>17. HeldApart(i)
  <2> SUFFICES ASSUME NEW d \in Containers, NEW e \in Containers, i.held[d] = i.held[e], i.held[d] # NoLayer
               PROVE  d = e
    BY DEF HeldApart
  <2>1. \A x \in Containers : h.held[x] # L
    BY <1>1 DEF PutLayerWell
  <2> QED  BY <1>6, <2>1 DEF Good, Apart, HeldApart
<1> QED  BY <1>3, <1>13, <1>14, <1>16, <1>17 DEF Good, Apart

\* The layer that is taken out is in its container, and the operation does not own it.
LEMMA TakeWell ==
  ASSUME NEW f, IsView(f), NEW h, Good(h, f), NEW p, NEW redo, Border(f, p, redo), f[p].insert <=> ~redo
  PROVE  h.held[f[p].obj] = f[p].layer /\ ~f[p].owns
<1> DEFINE D == DOMAIN f
<1>0. p \in D /\ f[p].obj \in Containers /\ \A q \in D : q \in Places
  BY DEF Border, IsView, FullOps, AllOps
<1>1. h.held[f[p].obj] = f[p].layer
  <2>1. CASE redo
    <3>1. ~f[p].insert /\ ~f[p].done
      BY <2>1 DEF Border
    <3>2. \A q \in D : Prec(q, p) => f[q].done
      BY DEF Border
    <3> QED  BY <1>0, <3>1, <3>2 DEF Good, Awaits, AwaitsClear
  <2>2. CASE ~redo
    <3>1. f[p].insert /\ f[p].done
      BY <2>2 DEF Border
    <3>2. \A q \in D : Prec(p, q) => ~f[q].done
      BY DEF Border
    <3> QED  BY <1>0, <3>1, <3>2 DEF Good, Awaits, AwaitsUndo
  <2> QED  BY <2>1, <2>2
<1> QED  BY <1>0, <1>1 DEF Good, Apart, HeldUnowned

\* redo of a removal, undo of an insertion
LEMMA GoodTake ==
  ASSUME NEW f, IsView(f), NEW h, h \in Heaps, Good(h, f), NEW p, NEW redo, Border(f, p, redo), f[p].insert <=> ~redo,
         NEW g, Turned(f, g, p, redo), g[p].owns <=> (f[p].owns \/ h.held[f[p].obj] = f[p].layer),
         NEW i, Takes(h, i, f[p].obj, f[p].layer)
  PROVE  Good(i, g)
<1> DEFINE D == DOMAIN f
           c == f[p].obj
           L == f[p].layer
<1>0. DOMAIN g = D /\ p \in D /\ c \in Containers /\ \A q \in D : q \in Places /\ f[q].layer # NoLayer
  BY DEF Border, IsView, FullOps, AllOps, Turned
<1>1. h.held[c] = L /\ g[p].owns
  BY TakeWell
<1>3. Plan(g)
  <2>1. g[p].owns <=> ~(f[p].insert <=> redo)
    BY <1>1
  <2> QED  BY <2>1, PlanTurned DEF Good
<1>4. \A q \in D : g[q].layer = f[q].layer /\ g[q].obj = f[q].obj /\ (g[q].insert <=> f[q].insert)
  BY TurnedSame
<1>5. \A q \in D : q # p => (g[q].owns <=> f[q].owns) /\ (g[q].done <=> f[q].done)
  BY TurnedSame
<1>6. i.held[c] = NoLayer /\ i.alive = h.alive /\ \A d \in Containers : d # c => i.held[d] = h.held[d]
  BY <1>1 DEF Takes
<1>7. g[p].done <=> redo
  BY DEF Turned
<1>8. \A q \in D : q # p => Prec(q, p) \/ Prec(p, q)
  BY <1>0, PlacesInOrder
<1>11. ASSUME NEW k \in D, ~g[k].insert, ~g[k].done,
              \A q \in D : g[q].insert /\ g[q].obj = g[k].obj /\ Prec(q, k) => g[q].done
       PROVE  i.held[g[k].obj] = g[k].layer
  <2>1. k # p
    BY <1>4, <1>7, <1>11
  <2>2. ~f[k].insert /\ ~f[k].done /\ f[k].obj \in Containers
    BY <1>4, <1>5, <1>11, <2>1 DEF IsView, FullOps, AllOps
  <2>3. f[p].insert /\ ~redo
    BY <1>0, <2>1, <2>2 DEF Good, Plan, OneClear
  <2>4. Prec(p, k)
    BY <1>8, <2>1, <2>2 DEF Border
  <2>5. f[k].obj # c
    BY <1>0, <1>4, <1>7, <1>11, <2>3, <2>4
  <2>6. ASSUME NEW q \in D, f[q].insert, f[q].obj = f[k].obj, Prec(q, k) PROVE f[q].done
    BY <1>4, <1>5, <1>11, <2>5, <2>6
  <2>7. h.held[f[k].obj] = f[k].layer
    BY <2>2, <2>6 DEF Good, Awaits, AwaitsClear
  <2> QED  BY <1>4, <1>6, <2>2, <2>5, <2>7
<1>12. ASSUME NEW q \in D, g[q].insert, g[q].done,
              \A k \in D : ~g[k].insert /\ g[k].obj = g[q].obj /\ Prec(q, k) => ~g[k].done
       PROVE  i.held[g[q].obj] = g[q].layer
  <2>1. q # p
    BY <1>4, <1>7, <1>12
  <2>2. f[q].insert /\ f[q].done /\ f[q].obj \in Containers
    BY <1>4, <1>5, <1>12, <2>1 DEF IsView, FullOps, AllOps
  <2>3. Prec(q, p)
    BY <1>8, <2>1, <2>2 DEF Border
  <2>4. CASE f[q].obj = c
    <3>1. CASE redo
      <4>1. ~f[p].insert /\ g[p].done /\ ~g[p].insert
        BY <1>0, <1>4, <1>7, <3>1
      <4> QED  BY <1>0, <1>4, <1>12, <2>3, <2>4, <4>1
    <3>2. CASE ~redo
      <4>1. f[p].insert
        BY <3>2
      <4>2. PICK k \in D : ~f[k].insert /\ f[k].obj = f[q].obj /\ Prec(q, k) /\ Prec(k, p)
        BY <1>0, <2>2, <2>3, <2>4, <4>1 DEF Good, Plan, ClearedBetween
      <4>3. k # p /\ f[k].done
        BY <1>0, <4>1, <4>2 DEF Border
      <4> QED  BY <1>4, <1>5, <1>12, <4>2, <4>3
    <3> QED  BY <3>1, <3>2
  <2>5. CASE f[q].obj # c
    <3>1. ASSUME NEW k \in D, ~f[k].insert, f[k].obj = f[q].obj, Prec(q, k) PROVE ~f[k].done
      BY <1>4, <1>5, <1>12, <2>5, <3>1
    <3>2. h.held[f[q].obj] = f[q].layer
      BY <2>2, <3>1 DEF Good, Awaits, AwaitsUndo
    <3> QED  BY <1>4, <1>6, <2>2, <2>5, <3>2
  <2> QED  BY <2>4, <2>5
<1>13. Awaits(i, g)
  BY <1>0, <1>11, <1>12 DEF Awaits, AwaitsClear, AwaitsUndo
<1>14. HeldUnowned(i, g)
  <2> SUFFICES ASSUME NEW d \in Containers, NEW q \in D, i.held[d] = f[q].layer
               PROVE  f[q].obj = d /\ ~g[q].owns
    BY <1>0, <1>4 DEF HeldUnowned
  <2>1. d # c /\ h.held[d] = f[q].layer
    BY <1>0, <1>6
  <2>2. q # p
    BY <1>0, <1>1, <2>1 DEF Good, Apart, HeldApart
  <2> QED  BY <1>5, <2>1, <2>2 DEF Good, Apart, HeldUnowned
<1>16. Alive(i, g)
  <2>1. ASSUME NEW d \in Containers, i.held[d] # NoLayer PROVE i.held[d] \in i.alive
    BY <1>6, <2>1 DEF Good, Apart, Alive
  <2>2. ASSUME NEW q \in D, g[q].owns PROVE g[q].layer \in i.alive
    <3>1. CASE q = p
      BY <1>0, <1>1, <1>4, <1>6, <3>1 DEF Good, Apart, Alive
    <3>2. CASE q # p
      BY <1>4, <1>5, <1>6, <2>2, <3>2 DEF Good, Apart, Alive
    <3> QED  BY <3>1, <3>2
  <2> QED  BY <1>0, <2>1, <2>2 DEF Alive
<1>17. HeldApart(i)
  BY <1>6 DEF Good, Apart, HeldApart
<1> QED  BY <1>3, <1>13, <1>14, <1>16, <1>17 DEF Good, Apart

-----------------------------------------------------------------------------
(* Changes of the containers                                               *)

\* A container gets a layer, if it has none: one that nothing refers to.
Fills(h, g, c, taken) ==
  /\ g \in Heaps /\ g.held[c] # NoLayer
  /\ \A d \in Containers : d # c => g.held[d] = h.held[d]
  /\ \/ h.held[c] # NoLayer /\ g.held[c] = h.held[c] /\ g.alive = h.alive
     \/ /\ h.held[c] = NoLayer /\ g.held[c] \notin h.alive \cup taken
        /\ g.alive = h.alive \cup {g.held[c]}

LEMMA KeptFill ==
  ASSUME NEW f, NEW h, Kept(h, f), NEW c \in Containers, NEW i, Fills(h, i, c, LayersIn(f))
  PROVE  Kept(i, f)
<1> SUFFICES ASSUME NEW x \in i.alive, x \notin HeldBy(i) PROVE x \in OwnedIn(f)
  BY DEF Kept, Fills
<1>1. x # NoLayer
  BY DEF Fills, Heaps, Layers, NoLayer
<1>2. x \in h.alive /\ x \notin HeldBy(h)
  BY <1>1 DEF Fills, HeldBy
<1> QED  BY <1>2 DEF Kept

LEMMA GoodFill ==
  ASSUME NEW f, IsView(f), NEW h, h \in Heaps, Good(h, f), NEW c \in Containers,
         NEW i, Fills(h, i, c, LayersIn(f))
  PROVE  Good(i, f)
<1>0. \A q \in DOMAIN f : f[q].layer # NoLayer /\ f[q].obj \in Containers /\ f[q].layer \in LayersIn(f)
  BY DEF IsView, FullOps, AllOps, LayersIn
<1>1. \A d \in Containers : h.held[d] # NoLayer => i.held[d] = h.held[d]
  BY DEF Fills
<1>2. Awaits(i, f)
  BY <1>0, <1>1 DEF Good, Awaits, AwaitsClear, AwaitsUndo
<1>3. HeldUnowned(i, f)
  <2> SUFFICES ASSUME NEW d \in Containers, NEW q \in DOMAIN f, i.held[d] = f[q].layer
               PROVE  f[q].obj = d /\ ~f[q].owns
    BY DEF HeldUnowned
  <2>1. h.held[d] = f[q].layer
    BY <1>0 DEF Fills
  <2> QED  BY <2>1 DEF Good, Apart, HeldUnowned
<1>4. Alive(i, f)
  BY DEF Good, Apart, Alive, Fills
<1>5. HeldApart(i)
  BY DEF Good, Apart, Alive, HeldApart, Fills
<1> QED  BY <1>2, <1>3, <1>4, <1>5 DEF Good, Apart

-----------------------------------------------------------------------------
(* Operations that are deleted                                             *)

\* The layers of a set are deleted.
Deletes(h, g, ls) == g \in Heaps /\ g.held = h.held /\ g.alive = h.alive \ ls

\* All operations are deleted.
LEMMA GoodForget ==
  ASSUME NEW f, NEW h, Good(h, f), NEW i, Deletes(h, i, OwnedIn(f)), NEW g, DOMAIN g = {}
  PROVE  Good(i, g)
<1>1. Plan(g) /\ Awaits(i, g) /\ HeldUnowned(i, g)
  BY DEF Plan, OneContainer, OneClear, TakesCopied, ClearedBetween, DoneBefore, OwnsTakenOut,
         Awaits, AwaitsClear, AwaitsUndo, HeldUnowned
<1>2. Alive(i, g)
  BY DEF Alive, Good, Apart, Deletes, OwnedIn, HeldUnowned
<1>3. HeldApart(i)
  BY DEF Good, Apart, HeldApart, Deletes
<1> QED  BY <1>1, <1>2, <1>3 DEF Good, Apart

\* Those from some place on are deleted: they have been undone.
CutTo(f, g) ==
  /\ DOMAIN g \subseteq DOMAIN f /\ \A p \in DOMAIN g : g[p] = f[p]
  /\ \A p \in DOMAIN g, q \in DOMAIN f \ DOMAIN g : Prec(p, q)
CutOff(f, g) == {f[p].layer : p \in {q \in DOMAIN f \ DOMAIN g : f[q].owns}}

LEMMA KeptCut ==
  ASSUME NEW f, NEW h, Kept(h, f), NEW g, CutTo(f, g), NEW i, Deletes(h, i, CutOff(f, g))
  PROVE  Kept(i, g)
<1> SUFFICES ASSUME NEW x \in i.alive, x \notin HeldBy(i) PROVE x \in OwnedIn(g)
  BY DEF Kept, Deletes
<1>1. x \in h.alive /\ x \notin HeldBy(h) /\ x \notin CutOff(f, g)
  BY DEF Deletes, HeldBy
<1>2. PICK p \in DOMAIN f : f[p].owns /\ f[p].layer = x
  BY <1>1 DEF Kept, OwnedIn
<1>3. p \in DOMAIN g
  BY <1>1, <1>2 DEF CutOff
<1> QED  BY <1>2, <1>3 DEF OwnedIn, CutTo

LEMMA GoodCut ==
  ASSUME NEW f, IsView(f), NEW h, Good(h, f), NEW g, CutTo(f, g), NEW i, Deletes(h, i, CutOff(f, g)),
         \A q \in DOMAIN f \ DOMAIN g : ~f[q].done
  PROVE  Good(i, g)
<1> DEFINE D == DOMAIN f
           K == DOMAIN g
<1>0. K \subseteq D /\ \A p \in K : g[p] = f[p]
  BY DEF CutTo
<1>1. \A p \in K, q \in D : Prec(q, p) => q \in K
  <2> SUFFICES ASSUME NEW p \in K, NEW q \in D \ K, Prec(q, p) PROVE FALSE
    OBVIOUS
  <2>1. Prec(p, q) /\ p \in Places /\ q \in Places
    BY <1>0 DEF CutTo, IsView
  <2> QED  BY <2>1, PlacesInOrder
<1>2. OneContainer(g) /\ OneClear(g) /\ TakesCopied(g) /\ DoneBefore(g) /\ OwnsTakenOut(g)
  BY <1>0 DEF Good, Plan, OneContainer, OneClear, TakesCopied, DoneBefore, OwnsTakenOut
<1>3. ClearedBetween(g)
  <2> SUFFICES ASSUME NEW p \in K, NEW q \in K, f[p].insert, f[q].insert, f[p].obj = f[q].obj, Prec(p, q)
               PROVE  \E k \in K : ~f[k].insert /\ f[k].obj = f[p].obj /\ Prec(p, k) /\ Prec(k, q)
    BY <1>0 DEF ClearedBetween
  <2>1. PICK k \in D : ~f[k].insert /\ f[k].obj = f[p].obj /\ Prec(p, k) /\ Prec(k, q)
    BY <1>0 DEF Good, Plan, ClearedBetween
  <2> QED  BY <1>1, <2>1
<1>4. AwaitsClear(i, g)
  <2> SUFFICES ASSUME NEW k \in K, ~f[k].insert, ~f[k].done,
                      \A p \in K : f[p].insert /\ f[p].obj = f[k].obj /\ Prec(p, k) => f[p].done
               PROVE  h.held[f[k].obj] = f[k].layer
    BY <1>0 DEF AwaitsClear, Deletes
  <2>1. \A p \in D : f[p].insert /\ f[p].obj = f[k].obj /\ Prec(p, k) => f[p].done
    BY <1>1
  <2> QED  BY <1>0, <2>1 DEF Good, Awaits, AwaitsClear
<1>5. AwaitsUndo(i, g)
  <2> SUFFICES ASSUME NEW p \in K, f[p].insert, f[p].done,
                      \A k \in K : ~f[k].insert /\ f[k].obj = f[p].obj /\ Prec(p, k) => ~f[k].done
               PROVE  h.held[f[p].obj] = f[p].layer
    BY <1>0 DEF AwaitsUndo, Deletes
  <2>1. \A k \in D : ~f[k].insert /\ f[k].obj = f[p].obj /\ Prec(p, k) => ~f[k].done
    OBVIOUS
  <2> QED  BY <1>0, <2>1 DEF Good, Awaits, AwaitsUndo
<1>6. HeldUnowned(i, g) /\ HeldApart(i)
  BY <1>0 DEF Good, Apart, HeldUnowned, HeldApart, Deletes
<1>7. Alive(i, g)
  <2>1. ASSUME NEW c \in Containers, h.held[c] # NoLayer PROVE h.held[c] \in h.alive \ CutOff(f, g)
    <3>1. h.held[c] \in h.alive /\ \A q \in D : f[q].owns => h.held[c] # f[q].layer
      BY <2>1 DEF Good, Apart, Alive, HeldUnowned
    <3> QED  BY <3>1 DEF CutOff
  <2>2. ASSUME NEW p \in K, f[p].owns PROVE f[p].layer \in h.alive \ CutOff(f, g)
    <3>1. f[p].layer \in h.alive
      BY <1>0, <2>2 DEF Good, Apart, Alive
    <3>2. ASSUME NEW q \in D \ K, f[q].owns, f[q].layer = f[p].layer PROVE FALSE
      BY <1>0, <2>2, <3>2, OwnersDiffer DEF Good
    <3> QED  BY <3>1, <3>2 DEF CutOff
  <2> QED  BY <1>0, <2>1, <2>2 DEF Alive, Deletes
<1> QED  BY <1>2, <1>3, <1>4, <1>5, <1>6, <1>7 DEF Good, Plan, Awaits, Apart

-----------------------------------------------------------------------------
(* Operations that are recorded                                            *)

AddedAt(f, g, p) ==
  /\ IsView(g) /\ p \in Places /\ DOMAIN g = DOMAIN f \cup {p}
  /\ \A q \in DOMAIN f : g[q] = f[q] /\ Prec(q, p) /\ q # p /\ ~Prec(p, q)
  /\ ~Prec(p, p)

\* clear () of a container, recorded
LEMMA KeptClear ==
  ASSUME NEW f, NEW h, Kept(h, f), NEW c \in Containers, NEW p, NEW g, AddedAt(f, g, p),
         g[p].layer = h.held[c], g[p].owns, NEW i, Takes(h, i, c, h.held[c])
  PROVE  Kept(i, g)
<1> SUFFICES ASSUME NEW x \in i.alive, x \notin HeldBy(i) PROVE x \in OwnedIn(g)
  BY DEF Kept, Takes
<1>1. x \in h.alive
  BY DEF Takes
<1>2. CASE x = h.held[c]
  BY <1>2 DEF OwnedIn, AddedAt
<1>3. CASE x # h.held[c]
  <2>1. x \notin HeldBy(h)
    BY <1>3 DEF HeldBy, Takes
  <2>2. PICK q \in DOMAIN f : f[q].owns /\ f[q].layer = x
    BY <1>1, <2>1 DEF Kept, OwnedIn
  <2>3. q \in DOMAIN g /\ g[q].owns /\ g[q].layer = x
    BY <2>2 DEF AddedAt
  <2> QED  BY <2>3 DEF OwnedIn
<1> QED  BY <1>2, <1>3

LEMMA GoodClear ==
  ASSUME NEW f, IsView(f), NEW h, Good(h, f), \A q \in DOMAIN f : f[q].insert /\ f[q].done,
         NEW c \in Containers, h.held[c] # NoLayer, NEW p, NEW g, AddedAt(f, g, p),
         g[p].obj = c, g[p].layer = h.held[c], ~g[p].insert, g[p].owns, g[p].done,
         NEW i, Takes(h, i, c, h.held[c])
  PROVE  Good(i, g)
<1> DEFINE D == DOMAIN f
<1>0. /\ DOMAIN g = D \cup {p} /\ p \notin D /\ ~Prec(p, p)
      /\ \A q \in D : g[q] = f[q] /\ Prec(q, p) /\ ~Prec(p, q) /\ f[q].insert /\ f[q].done
  BY DEF AddedAt
<1>1. \A q \in D : f[q].layer = h.held[c] <=> f[q].obj = c
  <2> SUFFICES ASSUME NEW q \in D PROVE f[q].layer = h.held[c] <=> f[q].obj = c
    OBVIOUS
  <2>1. f[q].layer = h.held[c] => f[q].obj = c
    BY DEF Good, Apart, HeldUnowned
  <2>2. h.held[f[q].obj] = f[q].layer
    BY <1>0 DEF Good, Awaits, AwaitsUndo
  <2> QED  BY <2>1, <2>2
<1>2. \A q, r \in D : f[q].obj = f[r].obj => q = r
  <2> SUFFICES ASSUME NEW q \in D, NEW r \in D, f[q].obj = f[r].obj PROVE q = r
    OBVIOUS
  <2>1. ASSUME NEW a \in D, NEW b \in D, f[a].obj = f[b].obj PROVE ~Prec(a, b)
    BY <1>0, <2>1 DEF Good, Plan, ClearedBetween
  <2>2. q \in Places /\ r \in Places /\ ~Prec(q, r) /\ ~Prec(r, q)
    BY <2>1 DEF IsView
  <2> QED  BY <2>2, PlacesInOrder
<1>3. OneContainer(g)
  BY <1>0, <1>1 DEF Good, Plan, OneContainer
<1>4. OneClear(g)
  BY <1>0 DEF OneClear
<1>5. TakesCopied(g)
  <2> SUFFICES ASSUME NEW a \in D, f[a].obj = c PROVE Prec(a, p) <=> f[a].layer = h.held[c]
    BY <1>0 DEF TakesCopied
  <2> QED  BY <1>0, <1>1
<1>6. ClearedBetween(g)
  <2> SUFFICES ASSUME NEW a \in D, NEW b \in D, f[a].obj = f[b].obj, Prec(a, b) PROVE FALSE
    BY <1>0 DEF ClearedBetween
  <2>1. a = b /\ a \in Places
    BY <1>2 DEF IsView
  <2> QED  BY <2>1, PlacesInOrder
<1>7. DoneBefore(g)
  BY <1>0 DEF DoneBefore
<1>8. OwnsTakenOut(g)
  BY <1>0 DEF Good, Plan, OwnsTakenOut
<1>9. AwaitsClear(i, g)
  BY <1>0 DEF AwaitsClear
<1>10. AwaitsUndo(i, g)
  <2> SUFFICES ASSUME NEW a \in D, f[a].obj # c PROVE i.held[f[a].obj] = f[a].layer
    BY <1>0 DEF AwaitsUndo
  <2>1. h.held[f[a].obj] = f[a].layer
    BY <1>0 DEF Good, Awaits, AwaitsUndo
  <2>2. f[a].obj \in Containers
    BY DEF IsView, FullOps, AllOps
  <2> QED  BY <2>1, <2>2 DEF Takes
<1>11. i.held[c] = NoLayer /\ \A d \in Containers : d # c => i.held[d] = h.held[d]
  BY DEF Takes
<1>12. HeldUnowned(i, g)
  <2> SUFFICES ASSUME NEW d \in Containers, NEW q \in D \cup {p}, i.held[d] = g[q].layer
               PROVE  g[q].obj = d /\ ~g[q].owns
    BY <1>0 DEF HeldUnowned
  <2>1. g[q].layer # NoLayer
    BY <1>0 DEF AddedAt, IsView, FullOps
  <2>2. d # c /\ h.held[d] = g[q].layer
    BY <1>11, <2>1
  <2>3. q # p
    BY <2>2 DEF Good, Apart, HeldApart
  <2> QED  BY <1>0, <2>2, <2>3 DEF Good, Apart, HeldUnowned
<1>13. Alive(i, g)
  BY <1>0, <1>11 DEF Good, Apart, Alive, Takes
<1>14. HeldApart(i)
  BY <1>11 DEF Good, Apart, HeldApart
<1> QED  BY <1>3, <1>4, <1>5, <1>6, <1>7, <1>8, <1>9, <1>10, <1>12, <1>13, <1>14 DEF Good, Plan, Awaits, Apart

\* A copy into a container without a layer, recorded
LEMMA KeptCopy ==
  ASSUME NEW f, NEW h, Kept(h, f), NEW p, NEW g, AddedAt(f, g, p)
  PROVE  Kept(h, g)
<1> SUFFICES ASSUME NEW x \in h.alive, x \notin HeldBy(h) PROVE x \in OwnedIn(g)
  BY DEF Kept
<1>1. PICK q \in DOMAIN f : f[q].owns /\ f[q].layer = x
  BY DEF Kept, OwnedIn
<1>2. q \in DOMAIN g /\ g[q].owns /\ g[q].layer = x
  BY <1>1 DEF AddedAt
<1> QED  BY <1>2 DEF OwnedIn

LEMMA GoodCopy ==
  ASSUME NEW f, IsView(f), NEW h, h \in Heaps, Good(h, f), \A q \in DOMAIN f : f[q].done,
         NEW c \in Containers, h.held[c] = NoLayer, NEW i, Fills(h, i, c, LayersIn(f)),
         NEW p, NEW g, AddedAt(f, g, p),
         g[p].obj = c, g[p].layer = i.held[c], g[p].insert, ~g[p].owns, g[p].done
  PROVE  Good(i, g)
<1> DEFINE D == DOMAIN f
<1>0. /\ DOMAIN g = D \cup {p} /\ p \notin D /\ ~Prec(p, p)
      /\ \A q \in D : g[q] = f[q] /\ Prec(q, p) /\ ~Prec(p, q) /\ f[q].done
  BY DEF AddedAt
<1>1. Good(i, f)
  BY GoodFill
<1>2. \A q \in D : f[q].layer # i.held[c]
  BY DEF Fills, LayersIn
<1>3. \A q \in D : f[q].obj \in Containers /\ f[q].layer # NoLayer
  BY DEF IsView, FullOps, AllOps
<1>4. ASSUME NEW q \in D, f[q].insert, f[q].obj = c
      PROVE  \E k \in D : ~f[k].insert /\ f[k].obj = c /\ Prec(q, k)
  <2>1. h.held[c] # f[q].layer
    BY <1>3
  <2> QED  BY <1>0, <1>4, <2>1 DEF Good, Awaits, AwaitsUndo
<1>5. OneContainer(g)
  BY <1>0, <1>2 DEF Good, Plan, OneContainer
<1>6. OneClear(g)
  BY <1>0 DEF Good, Plan, OneClear
<1>7. TakesCopied(g)
  <2> SUFFICES ASSUME NEW a \in D \cup {p}, NEW k \in D, g[a].insert, ~f[k].insert, g[a].obj = f[k].obj
               PROVE  Prec(a, k) <=> g[a].layer = f[k].layer
    BY <1>0 DEF TakesCopied
  <2>1. CASE a = p
    BY <1>0, <1>2, <2>1
  <2>2. CASE a # p
    BY <1>0, <2>2 DEF Good, Plan, TakesCopied
  <2> QED  BY <2>1, <2>2
<1>8. ClearedBetween(g)
  <2> SUFFICES ASSUME NEW a \in D, NEW b \in D \cup {p}, f[a].insert, g[b].insert, f[a].obj = g[b].obj, Prec(a, b)
               PROVE  \E k \in D : ~f[k].insert /\ f[k].obj = f[a].obj /\ Prec(a, k) /\ Prec(k, b)
    BY <1>0 DEF ClearedBetween
  <2>1. CASE b = p
    BY <1>0, <1>4, <2>1
  <2>2. CASE b # p
    BY <1>0, <2>2 DEF Good, Plan, ClearedBetween
  <2> QED  BY <2>1, <2>2
<1>9. DoneBefore(g)
  BY <1>0 DEF DoneBefore
<1>10. OwnsTakenOut(g)
  BY <1>0 DEF Good, Plan, OwnsTakenOut
<1>11. AwaitsClear(i, g)
  BY <1>0 DEF AwaitsClear
<1>12. AwaitsUndo(i, g)
  <2> SUFFICES ASSUME NEW a \in D, f[a].insert,
                      \A k \in D : ~f[k].insert /\ f[k].obj = f[a].obj /\ Prec(a, k) => ~f[k].done
               PROVE  i.held[f[a].obj] = f[a].layer
    BY <1>0 DEF AwaitsUndo
  <2> QED  BY <1>0, <1>1 DEF Good, Awaits, AwaitsUndo
<1>13. HeldUnowned(i, g)
  <2> SUFFICES ASSUME NEW d \in Containers, NEW q \in D \cup {p}, i.held[d] = g[q].layer
               PROVE  g[q].obj = d /\ ~g[q].owns
    BY <1>0 DEF HeldUnowned
  <2>1. CASE q = p
    <3>1. i.held[d] = i.held[c] /\ i.held[c] # NoLayer
      BY <2>1 DEF Fills
    <3>2. d = c
      BY <1>1, <3>1 DEF Good, Apart, HeldApart
    <3> QED  BY <2>1, <3>2
  <2>2. CASE q # p
    BY <1>0, <1>1, <2>2 DEF Good, Apart, HeldUnowned
  <2> QED  BY <2>1, <2>2
<1>14. Alive(i, g)
  BY <1>0, <1>1 DEF Good, Apart, Alive
<1> QED  BY <1>1, <1>5, <1>6, <1>7, <1>8, <1>9, <1>10, <1>11, <1>12, <1>13, <1>14
         DEF Good, Plan, Awaits, Apart

-----------------------------------------------------------------------------
(* Without a history                                                       *)

\* clear () of a container, not recorded
LEMMA DropsHeld ==
  ASSUME NEW f, DOMAIN f = {}, NEW h, Kept(h, f), NEW c \in Containers, NEW i, i \in Heaps,
         i.held[c] = NoLayer, \A d \in Containers : d # c => i.held[d] = h.held[d],
         i.alive = h.alive \ {h.held[c]}
  PROVE  Kept(i, f) /\ (Good(h, f) => Good(i, f))
<1>1. OwnedIn(f) = {}
  BY DEF OwnedIn
<1>2. ASSUME NEW x \in i.alive PROVE x \in HeldBy(i)
  <2>1. x \in HeldBy(h) /\ x # h.held[c]
    BY <1>1, <1>2 DEF Kept
  <2> QED  BY <2>1 DEF HeldBy
<1>3. ASSUME Good(h, f) PROVE Good(i, f)
  <2>1. Plan(f) /\ Awaits(i, f) /\ HeldUnowned(i, f)
    BY DEF Plan, OneContainer, OneClear, TakesCopied, ClearedBetween, DoneBefore, OwnsTakenOut,
           Awaits, AwaitsClear, AwaitsUndo, HeldUnowned
  <2>2. Alive(i, f) /\ HeldApart(i)
    BY <1>3 DEF Good, Apart, Alive, HeldApart
  <2> QED  BY <2>1, <2>2 DEF Good, Apart
<1> QED  BY <1>2, <1>3 DEF Kept

-----------------------------------------------------------------------------
(* What the operations do to the layers                                    *)

LEMMA BagsClosed ==
  /\ NoShapes \in ShapeBags /\ \A s \in Shapes : One(s) \in ShapeBags
  /\ \A a, b \in ShapeBags : Plus(a, b) \in ShapeBags /\ Minus(a, b) \in ShapeBags
<1>1. NoShapes \in ShapeBags
  BY DEF NoShapes, ShapeBags
<1>2. ASSUME NEW s \in Shapes PROVE One(s) \in ShapeBags
  BY <1>1 DEF One, ShapeBags
<1>3. ASSUME NEW a \in ShapeBags, NEW b \in ShapeBags PROVE Plus(a, b) \in ShapeBags
  BY DEF Plus, ShapeBags
<1>4. ASSUME NEW a \in ShapeBags, NEW b \in ShapeBags PROVE Minus(a, b) \in ShapeBags
  BY DEF Minus, ShapeBags
<1> QED  BY <1>1, <1>2, <1>3, <1>4

LEMMA ContentsTyped ==
  ASSUME NEW h \in Heaps
  PROVE  Contents(h) \in [Containers -> ShapeBags]
<1>1. ASSUME NEW c \in Containers PROVE (IF h.held[c] = NoLayer THEN NoShapes ELSE h.content[h.held[c]]) \in ShapeBags
  BY BagsClosed DEF Heaps
<1> QED  BY <1>1 DEF Contents

\* Few layers are in use: fewer than there are containers and changes.
LEMMA RoomLeft ==
  ASSUME NEW h, NEW f, Kept(h, f), LayersIn(f) = LayersOf(transactions),
         IsFiniteSet(LayersIn(f)), Cardinality(LayersIn(f)) <= MaxEdits
  PROVE  FreeLayers(h) # {}
<1> SUFFICES ASSUME FreeLayers(h) = {} PROVE FALSE
  OBVIOUS
<1>1. IsFiniteSet(HeldBy(h)) /\ Cardinality(HeldBy(h)) <= Cardinality(Containers)
  <2>1. h.held \in Surjection(Containers, HeldBy(h))
    BY DEF Kept, Heaps, HeldBy, Surjection
  <2>2. IsFiniteSet(Containers)
    BY RoomAssumption
  <2> QED  BY <2>1, <2>2, FS_Surjection
<1>2. PICK used : used = HeldBy(h) \cup LayersIn(f)
  OBVIOUS
<1>3. IsFiniteSet(used) /\ Cardinality(used) <= Cardinality(HeldBy(h)) + Cardinality(LayersIn(f))
  <2>1. /\ IsFiniteSet(used)
        /\ Cardinality(used) = Cardinality(HeldBy(h)) + Cardinality(LayersIn(f)) - Cardinality(HeldBy(h) \cap LayersIn(f))
    BY <1>1, <1>2, FS_Union
  <2>2. IsFiniteSet(HeldBy(h) \cap LayersIn(f))
    BY <1>1, FS_Subset
  <2>3. /\ Cardinality(HeldBy(h) \cap LayersIn(f)) \in Nat
        /\ Cardinality(HeldBy(h)) \in Nat /\ Cardinality(LayersIn(f)) \in Nat
    BY <1>1, <2>2, FS_CardinalityType
  <2> QED  BY <2>1, <2>3
<1>4. Layers \in SUBSET used
  <2>1. ASSUME NEW l \in Layers PROVE l \in used
    <3>1. l \in h.alive \/ l \in LayersIn(f)
      BY DEF FreeLayers
    <3>2. OwnedIn(f) \subseteq LayersIn(f)
      BY DEF OwnedIn, LayersIn
    <3> QED  BY <1>2, <3>1, <3>2 DEF Kept
  <2> QED  BY <2>1
<1>5. Cardinality(Layers) = MaxLayers
  <2>1. MaxLayers \in Nat /\ 1 \in Int /\ MaxLayers \in Int
    BY BoundsAssumption
  <2>2. Cardinality(1..MaxLayers) = IF 1 > MaxLayers THEN 0 ELSE MaxLayers - 1 + 1
    BY <2>1, FS_Interval
  <2> QED  BY <2>1, <2>2 DEF Layers
<1>6. MaxLayers <= Cardinality(used)
  BY <1>3, <1>4, <1>5, FS_Subset
<1>7. /\ Cardinality(used) \in Nat /\ Cardinality(HeldBy(h)) \in Nat /\ Cardinality(LayersIn(f)) \in Nat
      /\ Cardinality(Containers) \in Nat /\ MaxLayers \in Nat /\ MaxEdits \in Nat
  BY <1>1, <1>3, FS_CardinalityType, RoomAssumption, BoundsAssumption
<1>8. MaxLayers > Cardinality(Containers) + MaxEdits
  BY RoomAssumption
<1> QED  BY <1>1, <1>3, <1>6, <1>7, <1>8

MadeLayer(h, bag, new) ==
  /\ new.layer \in FreeLayers(h)
  /\ new.heap = [held |-> h.held, alive |-> h.alive \cup {new.layer}, content |-> [h.content EXCEPT ![new.layer] = bag]]

LEMMA NewLayerIs ==
  ASSUME NEW h \in Heaps, NEW bag, FreeLayers(h) # {}
  PROVE  MadeLayer(h, bag, NewLayer(h, bag))
<1>1. FreeLayers(h) \in SUBSET Nat
  BY BoundsAssumption DEF FreeLayers, Layers
<1>2. PICK l : l = CHOOSE x \in FreeLayers(h) : \A y \in FreeLayers(h) : x <= y
  OBVIOUS
<1>3. l \in FreeLayers(h)
  <2>1. \E x \in FreeLayers(h) : \A y \in FreeLayers(h) : x <= y
    BY <1>1, LeastNumber
  <2> QED  BY <1>2, <2>1
<1>4. h = [held |-> h.held, alive |-> h.alive, content |-> h.content]
  BY DEF Heaps
<1>5. PICK g : g = [h EXCEPT !.alive = @ \cup {l}, !.content[l] = bag]
  OBVIOUS
<1>6. g = [held |-> h.held, alive |-> h.alive \cup {l}, content |-> [h.content EXCEPT ![l] = bag]]
  BY <1>4, <1>5
<1>7. NewLayer(h, bag) = [layer |-> l, heap |-> g]
  BY <1>2, <1>5 DEF NewLayer
<1> QED  BY <1>3, <1>6, <1>7 DEF MadeLayer

\* Only the layer of c has other shapes.
Writes(h, g, c, bag) ==
  /\ g.content[g.held[c]] = bag
  /\ \A x \in Layers : x # g.held[c] => g.content[x] = h.content[x]

LEMMA SetShapesIs ==
  ASSUME NEW h \in Heaps, NEW c \in Containers, NEW bag \in ShapeBags, FreeLayers(h) # {}
  PROVE  /\ Fills(h, SetShapes(h, c, bag), c, LayersOf(transactions))
         /\ Writes(h, SetShapes(h, c, bag), c, bag)
<1>1. PICK g : g = SetShapes(h, c, bag)
  OBVIOUS
<1>2. PICK w : w = WithLayer(h, c)
  OBVIOUS
<1>3. g = [w EXCEPT !.content[w.held[c]] = bag]
  BY <1>1, <1>2 DEF SetShapes
<1>4. ASSUME w \in Heaps, w.held[c] \in Layers
      PROVE  /\ g = [held |-> w.held, alive |-> w.alive, content |-> [w.content EXCEPT ![w.held[c]] = bag]]
             /\ g \in Heaps
  <2>1. w = [held |-> w.held, alive |-> w.alive, content |-> w.content]
    BY <1>4 DEF Heaps
  <2>2. g = [held |-> w.held, alive |-> w.alive, content |-> [w.content EXCEPT ![w.held[c]] = bag]]
    BY <1>3, <2>1
  <2>3. [w.content EXCEPT ![w.held[c]] = bag] \in [Layers -> ShapeBags]
    BY <1>4 DEF Heaps
  <2> QED  BY <1>4, <2>2, <2>3 DEF Heaps
<1>5. CASE h.held[c] # NoLayer
  <2>1. w = h /\ w.held[c] \in Layers
    BY <1>2, <1>5 DEF WithLayer, Heaps
  <2>2. g.held = h.held /\ g.alive = h.alive /\ g.content = [h.content EXCEPT ![h.held[c]] = bag] /\ g \in Heaps
    BY <1>4, <2>1
  <2>3. Fills(h, g, c, LayersOf(transactions))
    BY <1>5, <2>2 DEF Fills
  <2>4. Writes(h, g, c, bag)
    BY <2>1, <2>2 DEF Writes, Heaps
  <2> QED  BY <1>1, <2>3, <2>4
<1>6. CASE h.held[c] = NoLayer
  <2>1. PICK new : new = NewLayer(h, NoShapes) /\ MadeLayer(h, NoShapes, new)
    BY NewLayerIs
  <2>2. PICK l : l = new.layer /\ l \in FreeLayers(h)
    BY <2>1 DEF MadeLayer
  <2>3. l \in Layers /\ l \notin h.alive /\ l \notin LayersOf(transactions) /\ l # NoLayer
    BY <2>2 DEF FreeLayers, Layers, NoLayer
  <2>4. w = [new.heap EXCEPT !.held[c] = l]
    BY <1>2, <1>6, <2>1, <2>2 DEF WithLayer
  <2>5. w = [held |-> [h.held EXCEPT ![c] = l], alive |-> h.alive \cup {l}, content |-> [h.content EXCEPT ![l] = NoShapes]]
    <3>1. PICK m : m = new.heap
      OBVIOUS
    <3>2. m = [held |-> h.held, alive |-> h.alive \cup {l}, content |-> [h.content EXCEPT ![l] = NoShapes]]
      BY <2>1, <2>2, <3>1 DEF MadeLayer
    <3>3. w = [m EXCEPT !.held[c] = l]
      BY <2>4, <3>1
    <3> QED  BY <3>2, <3>3
  <2>6. w \in Heaps /\ w.held[c] = l
    <3>1. [h.held EXCEPT ![c] = l] \in [Containers -> {NoLayer} \cup Layers]
      BY <2>3 DEF Heaps
    <3>2. [h.content EXCEPT ![l] = NoShapes] \in [Layers -> ShapeBags]
      BY <2>3, BagsClosed DEF Heaps
    <3>3. h.alive \cup {l} \in SUBSET Layers
      BY <2>3 DEF Heaps
    <3>4. [h.held EXCEPT ![c] = l][c] = l
      BY DEF Heaps
    <3> QED  BY <2>5, <3>1, <3>2, <3>3, <3>4 DEF Heaps
  <2>7. g.held = [h.held EXCEPT ![c] = l] /\ g.alive = h.alive \cup {l} /\ g \in Heaps
        /\ g.content = [w.content EXCEPT ![l] = bag]
    BY <1>4, <2>3, <2>5, <2>6
  <2>8. g.held[c] = l /\ \A d \in Containers : d # c => g.held[d] = h.held[d]
    BY <2>7 DEF Heaps
  <2>9. Fills(h, g, c, LayersOf(transactions))
    BY <1>6, <2>3, <2>7, <2>8 DEF Fills
  <2>10. Writes(h, g, c, bag)
    <3>1. w.content \in [Layers -> ShapeBags] /\ \A x \in Layers : x # l => w.content[x] = h.content[x]
      BY <2>5, <2>6 DEF Heaps
    <3> QED  BY <2>3, <2>7, <2>8, <3>1 DEF Writes
  <2> QED  BY <1>1, <2>9, <2>10
<1> QED  BY <1>5, <1>6

\* Nothing but the deleted layers changes.
Preserves(h, g, ls) == \A x \in Layers \ ls : g.content[x] = h.content[x]

LEMMA DeleteIs ==
  ASSUME NEW h \in Heaps, NEW ls
  PROVE  Deletes(h, Delete(h, ls), ls) /\ Preserves(h, Delete(h, ls), ls)
<1>1. PICK g : g = Delete(h, ls)
  OBVIOUS
<1>2. PICK content : content = [l \in Layers |-> IF l \in ls THEN NoShapes ELSE h.content[l]]
  OBVIOUS
<1>3. h = [held |-> h.held, alive |-> h.alive, content |-> h.content]
  BY DEF Heaps
<1>4. g = [held |-> h.held, alive |-> h.alive \ ls, content |-> content]
  BY <1>1, <1>2, <1>3 DEF Delete
<1>5. content \in [Layers -> ShapeBags] /\ \A x \in Layers \ ls : content[x] = h.content[x]
  BY <1>2, BagsClosed DEF Heaps
<1>6. g \in Heaps
  BY <1>4, <1>5 DEF Heaps
<1> QED  BY <1>1, <1>4, <1>5, <1>6 DEF Deletes, Preserves

LEMMA PutLayerIs ==
  ASSUME NEW h \in Heaps, NEW c \in Containers, NEW layer \in Layers
  PROVE  /\ Puts(h, PutLayer(h, c, layer), c, layer)
         /\ Preserves(h, PutLayer(h, c, layer), Replaced(h, c, layer))
<1>1. PICK ls : ls = Replaced(h, c, layer)
  OBVIOUS
<1>2. PICK d : d = Delete(h, ls)
  OBVIOUS
<1>3. PICK g : g = [d EXCEPT !.held[c] = layer]
  OBVIOUS
<1>4. g = PutLayer(h, c, layer)
  BY <1>1, <1>2, <1>3 DEF PutLayer
<1>5. Deletes(h, d, ls) /\ Preserves(h, d, ls)
  BY <1>2, DeleteIs
<1>6. d \in Heaps /\ d.held = h.held /\ d.alive = h.alive \ ls
  BY <1>5 DEF Deletes
<1>7. d = [held |-> d.held, alive |-> d.alive, content |-> d.content]
  BY <1>6 DEF Heaps
<1>8. g = [held |-> [h.held EXCEPT ![c] = layer], alive |-> h.alive \ ls, content |-> d.content]
  BY <1>3, <1>6, <1>7
<1>9. [h.held EXCEPT ![c] = layer] \in [Containers -> {NoLayer} \cup Layers]
  BY DEF Heaps
<1>10. g \in Heaps
  BY <1>6, <1>8, <1>9 DEF Heaps
<1>11. g.held[c] = layer /\ \A e \in Containers : e # c => g.held[e] = h.held[e]
  BY <1>8 DEF Heaps
<1>12. \A x \in Layers : x \in ls <=> x = h.held[c] /\ x # layer
  BY <1>1 DEF Replaced, Layers, NoLayer
<1>13. \A x \in Layers : x \in g.alive <=> x \in h.alive /\ (x = layer \/ x # h.held[c])
  BY <1>8, <1>12
<1>14. Preserves(h, g, ls)
  BY <1>5, <1>8 DEF Preserves
<1> QED  BY <1>1, <1>4, <1>10, <1>11, <1>13, <1>14 DEF Puts

LEMMA TakeLayerIs ==
  ASSUME NEW h \in Heaps, NEW c \in Containers, NEW layer
  PROVE  /\ Takes(h, TakeLayer(h, c, layer), c, layer)
         /\ TakeLayer(h, c, layer).content = h.content
<1>1. CASE h.held[c] = layer
  <2>1. PICK g : g = [h EXCEPT !.held[c] = NoLayer]
    OBVIOUS
  <2>2. TakeLayer(h, c, layer) = g
    BY <1>1, <2>1 DEF TakeLayer
  <2>3. h = [held |-> h.held, alive |-> h.alive, content |-> h.content]
    BY DEF Heaps
  <2>4. g = [held |-> [h.held EXCEPT ![c] = NoLayer], alive |-> h.alive, content |-> h.content]
    BY <2>1, <2>3
  <2>5. [h.held EXCEPT ![c] = NoLayer] \in [Containers -> {NoLayer} \cup Layers]
    BY DEF Heaps
  <2>6. g \in Heaps
    BY <2>4, <2>5 DEF Heaps
  <2>7. g.held[c] = NoLayer /\ \A e \in Containers : e # c => g.held[e] = h.held[e]
    BY <2>4 DEF Heaps
  <2> QED  BY <1>1, <2>2, <2>4, <2>6, <2>7 DEF Takes
<1>2. CASE h.held[c] # layer
  BY <1>2 DEF TakeLayer, Takes
<1> QED  BY <1>1, <1>2

-----------------------------------------------------------------------------
(* The full layer operations of a list of transactions                     *)

Listed(ts) == ts \in Seq([id : Ids, ops : Seq(AllOps)])

PlacesOf(ts) ==
  {p \in Places : p[1] \in DOMAIN ts /\ p[2] \in DOMAIN ts[p[1]].ops /\ ts[p[1]].ops[p[2]].layer # NoLayer}
View(ts) == [p \in PlacesOf(ts) |-> ts[p[1]].ops[p[2]]]

LEMMA ListedIs ==
  ASSUME NEW ts, Listed(ts), NEW t, t \in DOMAIN ts
  PROVE  /\ t \in Nat /\ ts[t].id \in Ids /\ ts[t].ops \in Seq(AllOps)
         /\ \A i \in DOMAIN ts[t].ops : i \in Nat /\ ts[t].ops[i] \in AllOps
<1> DEFINE R == [id : Ids, ops : Seq(AllOps)]
<1>1. ts[t] \in R /\ t \in Nat
  <2> HIDE DEF R
  <2>1. ts \in Seq(R)
    BY DEF Listed, R
  <2>2. DOMAIN ts = 1..Len(ts) /\ Len(ts) \in Nat
    BY <2>1, LenProperties
  <2> QED  BY <2>1, <2>2, ElementOfSeq
<1>2. PICK ops \in Seq(AllOps) : ops = ts[t].ops
  BY <1>1
<1>3. ASSUME NEW i \in DOMAIN ops PROVE i \in Nat /\ ops[i] \in AllOps
  <2>1. DOMAIN ops = 1..Len(ops) /\ Len(ops) \in Nat
    BY <1>2, LenProperties
  <2> QED  BY <1>2, <2>1, ElementOfSeq
<1> QED  BY <1>1, <1>2, <1>3

\* At its place, if it refers to a layer.
LEMMA ViewAt ==
  ASSUME NEW ts, Listed(ts), NEW t, t \in DOMAIN ts, NEW i, i \in DOMAIN ts[t].ops
  PROVE  /\ <<t, i>> \in Places
         /\ <<t, i>> \in DOMAIN View(ts) <=> ts[t].ops[i].layer # NoLayer
         /\ <<t, i>> \in DOMAIN View(ts) => View(ts)[<<t, i>>] = ts[t].ops[i]
<1>1. t \in Nat /\ i \in Nat
  BY ListedIs
<1>2. PICK p : p = <<t, i>>
  OBVIOUS
<1>3. p \in Places /\ p[1] = t /\ p[2] = i
  BY <1>1, <1>2 DEF Places
<1> QED  BY <1>2, <1>3 DEF View, PlacesOf

LEMMA ViewPlace ==
  ASSUME NEW ts, Listed(ts), NEW p, p \in DOMAIN View(ts)
  PROVE  /\ p \in Places /\ p = <<p[1], p[2]>> /\ p[1] \in DOMAIN ts /\ p[2] \in DOMAIN ts[p[1]].ops
         /\ ts[p[1]].ops[p[2]].layer # NoLayer /\ View(ts)[p] = ts[p[1]].ops[p[2]]
<1>1. p \in PlacesOf(ts) /\ View(ts)[p] = ts[p[1]].ops[p[2]]
  BY DEF View
<1>2. p \in Places /\ p = <<p[1], p[2]>>
  BY <1>1 DEF PlacesOf, Places
<1> QED  BY <1>1, <1>2 DEF PlacesOf

LayersAt(ops) == {ops[i].layer : i \in DOMAIN ops}
LayersOfAll(ts) == UNION {LayersAt(ts[t].ops) : t \in DOMAIN ts}

LEMMA ViewIs ==
  ASSUME NEW ts, Listed(ts)
  PROVE  /\ IsView(View(ts)) /\ LayersIn(View(ts)) = LayersOf(ts)
         /\ OwnedBy(ts) \ {NoLayer} = OwnedIn(View(ts))
<1> DEFINE f == View(ts)
<1>0. LayersOf(ts) = LayersOfAll(ts) \ {NoLayer}
  BY DEF LayersOf, LayersOfAll, LayersAt
<1>1. ASSUME NEW p \in DOMAIN f PROVE p \in Places /\ f[p] \in FullOps
  <2>1. p \in Places /\ p[1] \in DOMAIN ts /\ p[2] \in DOMAIN ts[p[1]].ops
        /\ ts[p[1]].ops[p[2]].layer # NoLayer /\ f[p] = ts[p[1]].ops[p[2]]
    BY ViewPlace
  <2>2. ts[p[1]].ops[p[2]] \in AllOps
    BY <2>1, ListedIs
  <2> QED  BY <2>1, <2>2 DEF FullOps
<1>2. ASSUME NEW l \in LayersOf(ts) PROVE l \in LayersIn(f)
  <2>0. l \in LayersOfAll(ts) /\ l # NoLayer
    BY <1>0
  <2>1. PICK t \in DOMAIN ts : l \in LayersAt(ts[t].ops)
    BY <2>0 DEF LayersOfAll
  <2>2. PICK i \in DOMAIN ts[t].ops : l = ts[t].ops[i].layer /\ l # NoLayer
    BY <2>0, <2>1 DEF LayersAt
  <2>3. <<t, i>> \in DOMAIN f /\ f[<<t, i>>] = ts[t].ops[i]
    BY <2>2, ViewAt
  <2> HIDE DEF f
  <2> QED  BY <2>2, <2>3 DEF LayersIn
<1>3. ASSUME NEW l \in LayersIn(f) PROVE l \in LayersOf(ts)
  <2>1. PICK p \in DOMAIN f : l = f[p].layer
    BY DEF LayersIn
  <2>2. PICK t, i : t = p[1] /\ i = p[2]
    OBVIOUS
  <2>3. t \in DOMAIN ts /\ i \in DOMAIN ts[t].ops /\ ts[t].ops[i].layer # NoLayer /\ f[p] = ts[t].ops[i]
    BY <2>2, ViewPlace
  <2> HIDE DEF f
  <2>4. l \in LayersAt(ts[t].ops) /\ l # NoLayer
    BY <2>1, <2>3 DEF LayersAt
  <2>5. l \in LayersOfAll(ts)
    BY <2>3, <2>4 DEF LayersOfAll
  <2> QED  BY <1>0, <2>4, <2>5
<1>4. ASSUME NEW l \in OwnedBy(ts), l # NoLayer PROVE l \in OwnedIn(f)
  <2>1. PICK t \in DOMAIN ts : l \in Owned(ts[t].ops)
    BY DEF OwnedBy
  <2>2. PICK i \in DOMAIN ts[t].ops : ts[t].ops[i].owns /\ l = ts[t].ops[i].layer
    BY <2>1 DEF Owned
  <2>3. <<t, i>> \in DOMAIN f /\ f[<<t, i>>] = ts[t].ops[i]
    BY <1>4, <2>2, ViewAt
  <2> HIDE DEF f
  <2> QED  BY <2>2, <2>3 DEF OwnedIn
<1>5. ASSUME NEW l \in OwnedIn(f) PROVE l \in OwnedBy(ts) /\ l # NoLayer
  <2>1. PICK p \in DOMAIN f : f[p].owns /\ l = f[p].layer
    BY DEF OwnedIn
  <2>2. PICK t, i : t = p[1] /\ i = p[2]
    OBVIOUS
  <2>3. t \in DOMAIN ts /\ i \in DOMAIN ts[t].ops /\ ts[t].ops[i].layer # NoLayer /\ f[p] = ts[t].ops[i]
    BY <2>2, ViewPlace
  <2> HIDE DEF f
  <2>4. l \in Owned(ts[t].ops)
    BY <2>1, <2>3 DEF Owned
  <2> QED  BY <2>1, <2>3, <2>4 DEF OwnedBy
<1> HIDE DEF f
<1>6. IsView(f)
  BY <1>1 DEF IsView
<1> QED  BY <1>2, <1>3, <1>4, <1>5, <1>6 DEF f

\* The transactions of two lists have the same full layer operations.
LEMMA SameView ==
  ASSUME NEW ts, Listed(ts), NEW us, Listed(us),
         \A t \in DOMAIN ts : \A i \in DOMAIN ts[t].ops : ts[t].ops[i].layer # NoLayer =>
           t \in DOMAIN us /\ i \in DOMAIN us[t].ops /\ us[t].ops[i] = ts[t].ops[i],
         \A t \in DOMAIN us : \A i \in DOMAIN us[t].ops : us[t].ops[i].layer # NoLayer =>
           t \in DOMAIN ts /\ i \in DOMAIN ts[t].ops /\ us[t].ops[i] = ts[t].ops[i]
  PROVE  View(us) = View(ts)
<1>1. ASSUME NEW p \in PlacesOf(ts) PROVE p \in PlacesOf(us) /\ us[p[1]].ops[p[2]] = ts[p[1]].ops[p[2]]
  BY <1>1 DEF PlacesOf
<1>2. ASSUME NEW p \in PlacesOf(us) PROVE p \in PlacesOf(ts)
  BY <1>2 DEF PlacesOf
<1>3. PlacesOf(us) = PlacesOf(ts)
  BY <1>1, <1>2
<1> QED  BY <1>1, <1>3 DEF View

LEMMA ListedChanged ==
  ASSUME NEW ts, Listed(ts), NEW t, t \in DOMAIN ts, NEW ops \in Seq(AllOps)
  PROVE  /\ Listed(Changed(ts, t, ops)) /\ DOMAIN Changed(ts, t, ops) = DOMAIN ts
         /\ Changed(ts, t, ops)[t].ops = ops /\ Len(Changed(ts, t, ops)) = Len(ts)
         /\ \A u \in DOMAIN ts : u # t => Changed(ts, t, ops)[u] = ts[u]
<1> DEFINE R == [id : Ids, ops : Seq(AllOps)]
<1>1. ts[t].id \in Ids /\ ts[t] \in R
  <2> HIDE DEF R
  <2>1. ts \in Seq(R)
    BY DEF Listed, R
  <2>2. ts[t] \in R
    BY <2>1, LenProperties, ElementOfSeq
  <2>3. ts[t].id \in Ids
    BY ListedIs
  <2> QED  BY <2>2, <2>3
<1>2. PICK x : x = [ts[t] EXCEPT !.ops = ops]
  OBVIOUS
<1>3. x \in R /\ x.ops = ops
  BY <1>1, <1>2
<1>4. PICK new : new = [ts EXCEPT ![t] = x]
  OBVIOUS
<1>5. new = Changed(ts, t, ops)
  BY <1>2, <1>4 DEF Changed
<1> HIDE DEF R
<1>6. ts \in Seq(R)
  BY DEF Listed, R
<1>7. DOMAIN ts = 1..Len(ts) /\ Len(ts) \in Nat /\ ts \in [1..Len(ts) -> R]
  BY <1>6, LenProperties
<1>8. new \in [1..Len(ts) -> R] /\ new[t] = x /\ \A u \in DOMAIN ts : u # t => new[u] = ts[u]
  BY <1>3, <1>4, <1>7
<1>9. new \in Seq(R) /\ Len(new) = Len(ts) /\ DOMAIN new = DOMAIN ts
  BY <1>7, <1>8, SeqDef, LenProperties
<1> QED  BY <1>3, <1>5, <1>8, <1>9 DEF Listed, R

ChangedTo(ts, us, t, ops) ==
  /\ Listed(us) /\ DOMAIN us = DOMAIN ts /\ us[t].ops = ops
  /\ \A u \in DOMAIN ts : u # t => us[u] = ts[u]

LEMMA ChangedIs ==
  ASSUME NEW ts, Listed(ts), NEW t, t \in DOMAIN ts, NEW ops \in Seq(AllOps), NEW us, us = Changed(ts, t, ops)
  PROVE  ChangedTo(ts, us, t, ops)
<1> QED  BY ListedChanged DEF ChangedTo

\* Another operation, at the place of one.
LEMMA OpChanged ==
  ASSUME NEW ops \in Seq(AllOps), NEW i, i \in DOMAIN ops, NEW op \in AllOps
  PROVE  /\ [ops EXCEPT ![i] = op] \in Seq(AllOps) /\ DOMAIN [ops EXCEPT ![i] = op] = DOMAIN ops
         /\ Len([ops EXCEPT ![i] = op]) = Len(ops)
         /\ [ops EXCEPT ![i] = op][i] = op
         /\ \A j \in DOMAIN ops : j # i => [ops EXCEPT ![i] = op][j] = ops[j]
<1>1. PICK new : new = [ops EXCEPT ![i] = op]
  OBVIOUS
<1>2. DOMAIN ops = 1..Len(ops) /\ Len(ops) \in Nat /\ ops \in [1..Len(ops) -> AllOps]
  BY LenProperties
<1>3. new \in [1..Len(ops) -> AllOps] /\ new[i] = op /\ \A j \in DOMAIN ops : j # i => new[j] = ops[j]
  BY <1>1, <1>2
<1>4. new \in Seq(AllOps) /\ Len(new) = Len(ops) /\ DOMAIN new = DOMAIN ops
  BY <1>2, <1>3, SeqDef, LenProperties
<1> QED  BY <1>1, <1>3, <1>4

\* A layer_op changes.
LEMMA ViewOtherwise ==
  ASSUME NEW ts, Listed(ts), NEW t, t \in DOMAIN ts, NEW i, i \in DOMAIN ts[t].ops, NEW op \in AllOps,
         op.layer = NoLayer, ts[t].ops[i].layer = NoLayer,
         NEW us, us = Changed(ts, t, [ts[t].ops EXCEPT ![i] = op])
  PROVE  Listed(us) /\ View(us) = View(ts)
<1>1. PICK ops \in Seq(AllOps) : ops = ts[t].ops
  BY ListedIs
<1>2. PICK new : new = [ops EXCEPT ![i] = op]
  OBVIOUS
<1>3. new \in Seq(AllOps) /\ DOMAIN new = DOMAIN ops /\ new[i] = op /\ \A j \in DOMAIN ops : j # i => new[j] = ops[j]
  BY <1>1, <1>2, OpChanged
<1>4. us = Changed(ts, t, new)
  BY <1>1, <1>2
<1>5. /\ Listed(us) /\ DOMAIN us = DOMAIN ts /\ us[t].ops = new
      /\ \A u \in DOMAIN ts : u # t => us[u] = ts[u]
  <2>1. new \in Seq(AllOps)
    BY <1>3
  <2>2. ChangedTo(ts, us, t, new)
    BY <1>4, <2>1, ChangedIs
  <2> QED  BY <2>2 DEF ChangedTo
<1>6. View(us) = View(ts)
  <2>1. \A u \in DOMAIN ts : \A j \in DOMAIN ts[u].ops : ts[u].ops[j].layer # NoLayer =>
          u \in DOMAIN us /\ j \in DOMAIN us[u].ops /\ us[u].ops[j] = ts[u].ops[j]
    BY <1>1, <1>3, <1>5
  <2>2. \A u \in DOMAIN us : \A j \in DOMAIN us[u].ops : us[u].ops[j].layer # NoLayer =>
          u \in DOMAIN ts /\ j \in DOMAIN ts[u].ops /\ us[u].ops[j] = ts[u].ops[j]
    BY <1>1, <1>3, <1>5
  <2> QED  BY <1>5, <2>1, <2>2, SameView
<1> QED  BY <1>5, <1>6

\* A full layer operation changes.
LEMMA ViewTurned ==
  ASSUME NEW ts, Listed(ts), NEW t, t \in DOMAIN ts, NEW i, i \in DOMAIN ts[t].ops, NEW op \in AllOps,
         ts[t].ops[i].layer # NoLayer, op.layer = ts[t].ops[i].layer, op.obj = ts[t].ops[i].obj,
         op.insert = ts[t].ops[i].insert, NEW redo, op.done = redo,
         NEW us, us = Changed(ts, t, [ts[t].ops EXCEPT ![i] = op])
  PROVE  Listed(us) /\ Turned(View(ts), View(us), <<t, i>>, redo) /\ View(us)[<<t, i>>] = op
<1>1. PICK ops \in Seq(AllOps) : ops = ts[t].ops
  BY ListedIs
<1>2. PICK new : new = [ops EXCEPT ![i] = op]
  OBVIOUS
<1>3. new \in Seq(AllOps) /\ DOMAIN new = DOMAIN ops /\ new[i] = op /\ \A j \in DOMAIN ops : j # i => new[j] = ops[j]
  BY <1>1, <1>2, OpChanged
<1>4. us = Changed(ts, t, new)
  BY <1>1, <1>2
<1>5. /\ Listed(us) /\ DOMAIN us = DOMAIN ts /\ us[t].ops = new
      /\ \A u \in DOMAIN ts : u # t => us[u] = ts[u]
  <2>1. new \in Seq(AllOps)
    BY <1>3
  <2>2. ChangedTo(ts, us, t, new)
    BY <1>4, <2>1, ChangedIs
  <2> QED  BY <2>2 DEF ChangedTo
<1>6. PICK p : p = <<t, i>>
  OBVIOUS
<1>7. p \in DOMAIN View(ts) /\ View(ts)[p] = ops[i]
  BY <1>1, <1>6, ViewAt
<1>8. p \in DOMAIN View(us) /\ View(us)[p] = op
  <2>1. us[t].ops[i] = op /\ i \in DOMAIN us[t].ops /\ t \in DOMAIN us
    BY <1>1, <1>3, <1>5
  <2>2. op.layer # NoLayer
    OBVIOUS
  <2> QED  BY <1>5, <1>6, <2>1, <2>2, ViewAt
<1>9. ASSUME NEW q \in DOMAIN View(ts), q # p PROVE q \in DOMAIN View(us) /\ View(us)[q] = View(ts)[q]
  <2>1. PICK u, j : u = q[1] /\ j = q[2]
    OBVIOUS
  <2>2. /\ q = <<u, j>> /\ u \in DOMAIN ts /\ j \in DOMAIN ts[u].ops /\ ts[u].ops[j].layer # NoLayer
        /\ View(ts)[q] = ts[u].ops[j]
    BY <2>1, ViewPlace
  <2>3. u # t \/ j # i
    BY <1>6, <1>9, <2>2
  <2>4. u \in DOMAIN us /\ j \in DOMAIN us[u].ops /\ us[u].ops[j] = ts[u].ops[j]
    <3>1. CASE u # t
      BY <1>5, <2>2, <3>1
    <3>2. CASE u = t
      <4>1. ts[u].ops = ops /\ us[u].ops = new /\ j # i /\ u \in DOMAIN us
        BY <1>1, <1>5, <2>2, <2>3, <3>2
      <4> QED  BY <1>3, <2>2, <4>1
    <3> QED  BY <3>1, <3>2
  <2> QED  BY <1>5, <2>2, <2>4, ViewAt
<1>10. ASSUME NEW q \in DOMAIN View(us) PROVE q \in DOMAIN View(ts)
  <2>1. PICK u, j : u = q[1] /\ j = q[2]
    OBVIOUS
  <2>2. q = <<u, j>> /\ u \in DOMAIN us /\ j \in DOMAIN us[u].ops /\ us[u].ops[j].layer # NoLayer
    BY <1>5, <2>1, ViewPlace
  <2>3. u \in DOMAIN ts /\ j \in DOMAIN ts[u].ops /\ ts[u].ops[j].layer # NoLayer
    BY <1>1, <1>3, <1>5, <2>2
  <2> QED  BY <2>2, <2>3, ViewAt
<1>11. IsView(View(us)) /\ DOMAIN View(us) = DOMAIN View(ts)
  BY <1>5, <1>7, <1>8, <1>9, <1>10, ViewIs
<1>12. Turned(View(ts), View(us), p, redo)
  BY <1>1, <1>7, <1>8, <1>9, <1>11 DEF Turned
<1> QED  BY <1>5, <1>6, <1>8, <1>12

LEMMA ViewEmpty == Listed(<<>>) /\ DOMAIN View(<<>>) = {}
<1>1. <<>> \in Seq([id : Ids, ops : Seq(AllOps)]) /\ DOMAIN <<>> = {}
  OBVIOUS
<1>2. PlacesOf(<<>>) = {}
  BY <1>1 DEF PlacesOf
<1> QED  BY <1>1, <1>2 DEF Listed, View

LEMMA ListedLen ==
  ASSUME NEW ts, Listed(ts)
  PROVE  DOMAIN ts = 1..Len(ts) /\ Len(ts) \in Nat
<1> DEFINE R == [id : Ids, ops : Seq(AllOps)]
<1> HIDE DEF R
<1>1. ts \in Seq(R)
  BY DEF Listed, R
<1> QED  BY <1>1, LenProperties

LEMMA OpsLen ==
  ASSUME NEW ops \in Seq(AllOps)
  PROVE  DOMAIN ops = 1..Len(ops) /\ Len(ops) \in Nat
<1> QED  BY LenProperties

\* An empty transaction follows.
LEMMA ViewLonger ==
  ASSUME NEW ts, Listed(ts), NEW id \in Ids
  PROVE  LET new == Append(ts, [id |-> id, ops |-> <<>>]) IN
         Listed(new) /\ View(new) = View(ts)
<1> DEFINE R == [id : Ids, ops : Seq(AllOps)]
<1>1. PICK x : x = [id |-> id, ops |-> <<>>]
  OBVIOUS
<1>2. x \in R /\ DOMAIN x.ops = {}
  BY <1>1
<1> HIDE DEF R
<1>3. ts \in Seq(R)
  BY DEF Listed, R
<1>4. PICK n \in Nat : n = Len(ts) /\ DOMAIN ts = 1..n
  BY ListedLen
<1>5. PICK new : new = Append(ts, x)
  OBVIOUS
<1>6. new \in Seq(R) /\ Len(new) = n + 1 /\ new[n + 1] = x /\ \A t \in 1..n : new[t] = ts[t]
  BY <1>2, <1>3, <1>4, <1>5, AppendProperties
<1>7. Listed(new)
  BY <1>6 DEF Listed, R
<1>8. DOMAIN new = 1..(n + 1)
  BY <1>6, <1>7, ListedLen
<1>9. \A t \in 1..n : t \in 1..(n + 1)
  OBVIOUS
<1>10. \A t \in 1..(n + 1) : t = n + 1 \/ t \in 1..n
  OBVIOUS
<1>11. \A t \in DOMAIN ts : t \in DOMAIN new /\ new[t] = ts[t]
  BY <1>4, <1>6, <1>8, <1>9
<1>12. \A t \in DOMAIN new : t \in DOMAIN ts \/ DOMAIN new[t].ops = {}
  BY <1>2, <1>4, <1>6, <1>8, <1>10
<1>13. View(new) = View(ts)
  <2>1. \A t \in DOMAIN ts : \A i \in DOMAIN ts[t].ops : ts[t].ops[i].layer # NoLayer =>
          t \in DOMAIN new /\ i \in DOMAIN new[t].ops /\ new[t].ops[i] = ts[t].ops[i]
    BY <1>11
  <2>2. \A t \in DOMAIN new : \A i \in DOMAIN new[t].ops : new[t].ops[i].layer # NoLayer =>
          t \in DOMAIN ts /\ i \in DOMAIN ts[t].ops /\ new[t].ops[i] = ts[t].ops[i]
    BY <1>11, <1>12
  <2> QED  BY <1>7, <2>1, <2>2, SameView
<1> QED  BY <1>1, <1>5, <1>7, <1>13

\* An operation follows in the last transaction.
LEMMA AppendIs ==
  ASSUME NEW ops \in Seq(AllOps), NEW op \in AllOps
  PROVE  /\ Append(ops, op) \in Seq(AllOps) /\ Len(Append(ops, op)) = Len(ops) + 1
         /\ DOMAIN Append(ops, op) = DOMAIN ops \cup {Len(ops) + 1} /\ Len(ops) + 1 \notin DOMAIN ops
         /\ Append(ops, op)[Len(ops) + 1] = op /\ \A i \in DOMAIN ops : Append(ops, op)[i] = ops[i]
<1>1. PICK new : new = Append(ops, op)
  OBVIOUS
<1>2. PICK n \in Nat : n = Len(ops) /\ DOMAIN ops = 1..n
  BY LenProperties
<1>3. new \in Seq(AllOps) /\ Len(new) = n + 1 /\ new[n + 1] = op /\ \A i \in 1..n : new[i] = ops[i]
  BY <1>1, <1>2, AppendProperties
<1>4. DOMAIN new = 1..(n + 1)
  BY <1>3, LenProperties
<1>5. 1..(n + 1) = (1..n) \cup {n + 1} /\ n + 1 \notin 1..n
  OBVIOUS
<1> QED  BY <1>1, <1>2, <1>3, <1>4, <1>5

AddedOp(ts, us, op) ==
  /\ Listed(us)
  /\ op.layer = NoLayer => View(us) = View(ts)
  /\ op.layer # NoLayer => \E p : AddedAt(View(ts), View(us), p) /\ View(us)[p] = op

LEMMA ViewAdded ==
  ASSUME NEW ts, Listed(ts), NEW n, n = Len(ts), n \in DOMAIN ts, NEW op \in AllOps,
         NEW us, us = Changed(ts, n, Append(ts[n].ops, op))
  PROVE  AddedOp(ts, us, op)
<1>1. PICK ops \in Seq(AllOps) : ops = ts[n].ops
  BY ListedIs
<1>2. PICK m \in Nat : m = Len(ops) /\ DOMAIN ops = 1..m
  BY OpsLen
<1>3. PICK new : new = Append(ops, op)
  OBVIOUS
<1>4. PICK k \in Nat : k = m + 1
  BY <1>2
<1>5. /\ new \in Seq(AllOps) /\ DOMAIN new = DOMAIN ops \cup {k} /\ k \notin DOMAIN ops
      /\ new[k] = op /\ \A i \in DOMAIN ops : new[i] = ops[i]
  BY <1>2, <1>3, <1>4, AppendIs
<1>6. us = Changed(ts, n, new)
  BY <1>1, <1>3
<1>7. /\ Listed(us) /\ DOMAIN us = DOMAIN ts /\ us[n].ops = new
      /\ \A t \in DOMAIN ts : t # n => us[t] = ts[t]
  <2>1. new \in Seq(AllOps)
    BY <1>5
  <2>2. ChangedTo(ts, us, n, new)
    BY <1>6, <2>1, ChangedIs
  <2> QED  BY <2>2 DEF ChangedTo
<1>8. \A t \in DOMAIN ts : \A i \in DOMAIN ts[t].ops : i \in DOMAIN us[t].ops /\ us[t].ops[i] = ts[t].ops[i]
  BY <1>1, <1>5, <1>7
<1>9. \A t \in DOMAIN ts : \A i \in DOMAIN us[t].ops : i \in DOMAIN ts[t].ops \/ (t = n /\ i = k)
  BY <1>1, <1>5, <1>7
<1>10. ASSUME op.layer = NoLayer PROVE View(us) = View(ts)
  <2>1. \A t \in DOMAIN ts : \A i \in DOMAIN ts[t].ops : ts[t].ops[i].layer # NoLayer =>
          t \in DOMAIN us /\ i \in DOMAIN us[t].ops /\ us[t].ops[i] = ts[t].ops[i]
    BY <1>7, <1>8
  <2>2. \A t \in DOMAIN us : \A i \in DOMAIN us[t].ops : us[t].ops[i].layer # NoLayer =>
          t \in DOMAIN ts /\ i \in DOMAIN ts[t].ops /\ us[t].ops[i] = ts[t].ops[i]
    BY <1>5, <1>7, <1>8, <1>9, <1>10
  <2> QED  BY <1>7, <2>1, <2>2, SameView
<1>11. ASSUME op.layer # NoLayer PROVE AddedAt(View(ts), View(us), <<n, k>>) /\ View(us)[<<n, k>>] = op
  <2>1. PICK p : p = <<n, k>>
    OBVIOUS
  <2>2. n \in DOMAIN us /\ k \in DOMAIN us[n].ops /\ us[n].ops[k] = op
    BY <1>5, <1>7
  <2>3. p \in Places /\ p \in DOMAIN View(us) /\ View(us)[p] = op
    BY <1>7, <1>11, <2>1, <2>2, ViewAt
  <2>4. ASSUME NEW q \in DOMAIN View(ts)
        PROVE  q \in DOMAIN View(us) /\ View(us)[q] = View(ts)[q] /\ Prec(q, p) /\ q # p /\ ~Prec(p, q)
    <3>1. PICK t, i : t = q[1] /\ i = q[2]
      OBVIOUS
    <3>2. /\ q = <<t, i>> /\ t \in DOMAIN ts /\ i \in DOMAIN ts[t].ops /\ ts[t].ops[i].layer # NoLayer
          /\ View(ts)[q] = ts[t].ops[i] /\ q \in Places
      BY <3>1, ViewPlace
    <3>3. t \in DOMAIN us /\ i \in DOMAIN us[t].ops /\ us[t].ops[i] = ts[t].ops[i]
      BY <1>7, <1>8, <3>2
    <3>4. <<t, i>> \in DOMAIN View(us) /\ View(us)[<<t, i>>] = ts[t].ops[i]
      BY <1>7, <3>2, <3>3, ViewAt
    <3>5. t \in 1..n /\ i \in Nat /\ n \in Nat
      BY <3>2, ListedLen, ListedIs
    <3>6. t < n \/ (t = n /\ i < k)
      <4>1. CASE t = n
        <5>1. i \in 1..m
          BY <1>1, <1>2, <3>2, <4>1
        <5> QED  BY <1>4, <4>1, <5>1
      <4>2. CASE t # n
        BY <3>5, <4>2
      <4> QED  BY <4>1, <4>2
    <3>7. Prec(q, p)
      BY <2>1, <3>2, <3>6 DEF Prec
    <3> QED  BY <2>3, <3>2, <3>4, <3>7, PlacesInOrder
  <2>5. ASSUME NEW q \in DOMAIN View(us), q # p PROVE q \in DOMAIN View(ts)
    <3>1. PICK t, i : t = q[1] /\ i = q[2]
      OBVIOUS
    <3>2. q = <<t, i>> /\ t \in DOMAIN us /\ i \in DOMAIN us[t].ops /\ us[t].ops[i].layer # NoLayer
      BY <1>7, <3>1, ViewPlace
    <3>3. t \in DOMAIN ts /\ i \in DOMAIN ts[t].ops
      BY <1>7, <1>9, <2>1, <2>5, <3>2
    <3>4. ts[t].ops[i].layer # NoLayer
      BY <1>8, <3>2, <3>3
    <3> QED  BY <3>2, <3>3, <3>4, ViewAt
  <2>6. DOMAIN View(us) = DOMAIN View(ts) \cup {p}
    BY <2>3, <2>4, <2>5
  <2>7. IsView(View(us)) /\ ~Prec(p, p)
    BY <1>7, <2>3, ViewIs, PlacesInOrder
  <2>8. AddedAt(View(ts), View(us), p)
    BY <2>3, <2>4, <2>6, <2>7 DEF AddedAt
  <2> QED  BY <2>1, <2>3, <2>8
<1> QED  BY <1>7, <1>10, <1>11 DEF AddedOp

\* The list is cut.
LEMMA CutIs ==
  ASSUME NEW ts, Listed(ts), NEW n, n \in 0..Len(ts)
  PROVE  LET cut == SubSeq(ts, 1, n)
             rest == SubSeq(ts, n + 1, Len(ts))
         IN  /\ Listed(cut) /\ Len(cut) = n /\ DOMAIN cut = 1..n /\ \A t \in 1..n : cut[t] = ts[t]
             /\ Listed(rest) /\ DOMAIN rest = 1..(Len(ts) - n) /\ \A t \in 1..(Len(ts) - n) : rest[t] = ts[n + t]
<1> DEFINE R == [id : Ids, ops : Seq(AllOps)]
<1> HIDE DEF R
<1>1. PICK len \in Nat : len = Len(ts) /\ DOMAIN ts = 1..len /\ n \in 0..len
  BY ListedLen
<1>2. PICK cut : cut = SubSeq(ts, 1, n)
  OBVIOUS
<1>3. PICK rest : rest = SubSeq(ts, n + 1, len)
  OBVIOUS
<1>4. \A t \in 1..len : ts[t] \in R
  <2>1. ts \in Seq(R)
    BY DEF Listed, R
  <2> QED  BY <1>1, <2>1, ElementOfSeq
<1>5. n \in Nat /\ n <= len
  BY <1>1
<1>6. cut \in Seq(R) /\ Len(cut) = n /\ DOMAIN cut = 1..n /\ \A t \in 1..n : cut[t] = ts[t]
  <2>1. \A t \in 1..n : ts[t] \in R
    BY <1>4, <1>5
  <2>2. Len(cut) = (IF 1 <= n THEN n - 1 + 1 ELSE 0) /\ cut \in Seq(R)
        /\ \A t \in 1..(n - 1 + 1) : cut[t] = ts[1 + t - 1]
    BY <1>2, <1>5, <2>1, SubSeqProperties
  <2> QED  BY <1>5, <2>2, LenProperties
<1>7. rest \in Seq(R) /\ DOMAIN rest = 1..(len - n) /\ \A t \in 1..(len - n) : rest[t] = ts[n + t]
  <2>1. \A t \in (n + 1)..len : ts[t] \in R
    BY <1>4, <1>5
  <2>2. n + 1 \in Int /\ len \in Int
    BY <1>5
  <2>3. Len(rest) = (IF n + 1 <= len THEN len - (n + 1) + 1 ELSE 0) /\ rest \in Seq(R)
        /\ \A t \in 1..(len - (n + 1) + 1) : rest[t] = ts[(n + 1) + t - 1]
    BY <1>3, <2>1, <2>2, SubSeqProperties
  <2>4. Len(rest) = len - n
    BY <1>1, <1>5, <2>3
  <2>5. \A t \in 1..(len - n) : rest[t] = ts[n + t]
    BY <1>1, <1>5, <2>3
  <2> QED  BY <2>3, <2>4, <2>5, LenProperties
<1> QED  BY <1>1, <1>2, <1>3, <1>6, <1>7 DEF Listed, R

LEMMA ViewCut ==
  ASSUME NEW ts, Listed(ts), NEW n, n \in 0..Len(ts)
  PROVE  LET cut == SubSeq(ts, 1, n)
             rest == SubSeq(ts, n + 1, Len(ts))
         IN  /\ Listed(cut) /\ CutTo(View(ts), View(cut)) /\ Len(cut) = n
             /\ CutOff(View(ts), View(cut)) = OwnedBy(rest) \ {NoLayer}
             /\ \A p \in DOMAIN View(ts) : p \in DOMAIN View(cut) <=> p[1] <= n
<1>1. PICK len \in Nat : len = Len(ts) /\ DOMAIN ts = 1..len /\ n \in 0..len
  BY ListedLen
<1>2. PICK cut : cut = SubSeq(ts, 1, n)
  OBVIOUS
<1>3. PICK rest : rest = SubSeq(ts, n + 1, len)
  OBVIOUS
<1>5. n \in Nat /\ n <= len
  BY <1>1
<1>6. Listed(cut) /\ Len(cut) = n /\ DOMAIN cut = 1..n /\ \A t \in 1..n : cut[t] = ts[t]
  BY <1>2, CutIs
<1>7. Listed(rest) /\ DOMAIN rest = 1..(len - n) /\ \A t \in 1..(len - n) : rest[t] = ts[n + t]
  BY <1>1, <1>3, CutIs
<1>8. Listed(cut) /\ Listed(rest)
  BY <1>6, <1>7
<1>9. ASSUME NEW p \in DOMAIN View(ts)
      PROVE  /\ p \in DOMAIN View(cut) <=> p[1] <= n
             /\ p \in DOMAIN View(cut) => View(cut)[p] = View(ts)[p]
  <2>1. PICK t, i : t = p[1] /\ i = p[2]
    OBVIOUS
  <2>2. /\ p = <<t, i>> /\ t \in 1..len /\ i \in DOMAIN ts[t].ops /\ ts[t].ops[i].layer # NoLayer
        /\ View(ts)[p] = ts[t].ops[i]
    BY <1>1, <2>1, ViewPlace
  <2>3. CASE t <= n
    <3>1. t \in 1..n
      BY <2>2, <2>3, <1>5
    <3>2. t \in DOMAIN cut /\ cut[t] = ts[t]
      BY <1>6, <3>1
    <3>3. <<t, i>> \in DOMAIN View(cut) /\ View(cut)[<<t, i>>] = ts[t].ops[i]
      BY <1>8, <2>2, <3>2, ViewAt
    <3> QED  BY <2>1, <2>2, <2>3, <3>3
  <2>4. CASE ~(t <= n)
    <3>1. p \notin DOMAIN View(cut)
      <4>1. t \notin 1..n
        BY <2>4
      <4> QED  BY <1>6, <1>8, <2>1, <4>1, ViewPlace
    <3> QED  BY <2>1, <2>4, <3>1
  <2> QED  BY <2>3, <2>4
<1>10. ASSUME NEW p \in DOMAIN View(cut) PROVE p \in DOMAIN View(ts)
  <2>1. PICK t, i : t = p[1] /\ i = p[2]
    OBVIOUS
  <2>2. p = <<t, i>> /\ t \in 1..n /\ i \in DOMAIN cut[t].ops /\ cut[t].ops[i].layer # NoLayer
    BY <1>6, <1>8, <2>1, ViewPlace
  <2>3. t \in DOMAIN ts /\ cut[t] = ts[t]
    BY <1>1, <1>5, <1>6, <2>2
  <2> QED  BY <2>2, <2>3, ViewAt
<1>11. ASSUME NEW p \in DOMAIN View(cut), NEW q \in DOMAIN View(ts) \ DOMAIN View(cut) PROVE Prec(p, q)
  <2>1. p[1] <= n /\ ~(q[1] <= n) /\ p \in Places /\ q \in Places
    BY <1>8, <1>9, <1>10, ViewPlace
  <2>2. p[1] \in Nat /\ q[1] \in Nat
    BY <2>1 DEF Places
  <2>3. p[1] < q[1]
    BY <1>5, <2>1, <2>2
  <2> QED  BY <2>3 DEF Prec
<1>12. CutTo(View(ts), View(cut))
  BY <1>9, <1>10, <1>11 DEF CutTo
<1>13. ASSUME NEW l \in CutOff(View(ts), View(cut)) PROVE l \in OwnedBy(rest) /\ l # NoLayer
  <2>1. PICK p \in DOMAIN View(ts) : p \notin DOMAIN View(cut) /\ View(ts)[p].owns /\ l = View(ts)[p].layer
    BY DEF CutOff
  <2>2. PICK t, i : t = p[1] /\ i = p[2]
    OBVIOUS
  <2>3. /\ t \in 1..len /\ i \in DOMAIN ts[t].ops /\ ts[t].ops[i].layer # NoLayer
        /\ View(ts)[p] = ts[t].ops[i]
    BY <1>1, <2>2, ViewPlace
  <2>4. ~(t <= n)
    BY <1>9, <2>1, <2>2
  <2>5. PICK u \in 1..(len - n) : t = n + u
    <3>1. t - n \in 1..(len - n) /\ t = n + (t - n)
      BY <1>5, <2>3, <2>4
    <3> QED  BY <3>1
  <2>6. u \in DOMAIN rest /\ rest[u] = ts[t]
    BY <1>7, <2>5
  <2>7. l \in Owned(rest[u].ops)
    BY <2>1, <2>3, <2>6 DEF Owned
  <2> QED  BY <2>1, <2>3, <2>6, <2>7 DEF OwnedBy
<1>14. ASSUME NEW l \in OwnedBy(rest), l # NoLayer PROVE l \in CutOff(View(ts), View(cut))
  <2>1. PICK u \in DOMAIN rest : l \in Owned(rest[u].ops)
    BY DEF OwnedBy
  <2>2. PICK i \in DOMAIN rest[u].ops : rest[u].ops[i].owns /\ l = rest[u].ops[i].layer
    BY <2>1 DEF Owned
  <2>3. PICK t : t = n + u
    OBVIOUS
  <2>4. t \in 1..len /\ rest[u] = ts[t] /\ ~(t <= n)
    BY <1>5, <1>7, <2>1, <2>3
  <2>5. PICK p : p = <<t, i>>
    OBVIOUS
  <2>6. p \in DOMAIN View(ts) /\ View(ts)[p] = ts[t].ops[i]
    BY <1>1, <1>14, <2>2, <2>4, <2>5, ViewAt
  <2>7. p \notin DOMAIN View(cut)
    <3>1. p[1] = t
      BY <2>5
    <3> QED  BY <1>9, <2>4, <2>6, <3>1
  <2> QED  BY <2>2, <2>4, <2>6, <2>7 DEF CutOff
<1>15. CutOff(View(ts), View(cut)) = OwnedBy(rest) \ {NoLayer}
  BY <1>13, <1>14
<1> QED  BY <1>1, <1>2, <1>3, <1>6, <1>8, <1>9, <1>12, <1>15

-----------------------------------------------------------------------------
(* One operation of a replay, in a list                                    *)

\* What is shown for any number of clears, and what for at most one.
Sound(h, f) == Kept(h, f) /\ (MaxClears <= 1 => Good(h, f))

LEMMA ChangedTwice ==
  ASSUME NEW ts, Listed(ts), NEW n, n \in DOMAIN ts, NEW a \in Seq(AllOps), NEW b \in Seq(AllOps),
         NEW us, us = Changed(ts, n, a)
  PROVE  Changed(us, n, b) = Changed(ts, n, b)
<1>1. PICK x : x = [ts[n] EXCEPT !.ops = a]
  OBVIOUS
<1>2. us = [ts EXCEPT ![n] = x]
  BY <1>1 DEF Changed
<1>3. ts[n] \in [id : Ids, ops : Seq(AllOps)]
  <2> DEFINE R == [id : Ids, ops : Seq(AllOps)]
  <2> HIDE DEF R
  <2>1. ts \in Seq(R)
    BY DEF Listed, R
  <2>2. ts[n] \in R
    BY <2>1, LenProperties, ElementOfSeq
  <2> QED  BY <2>2 DEF R
<1>4. PICK y : y = [ts[n] EXCEPT !.ops = b]
  OBVIOUS
<1>5. y = [x EXCEPT !.ops = b]
  BY <1>1, <1>3, <1>4
<1>6. us[n] = x
  BY <1>2
<1>7. PICK vs : vs = [us EXCEPT ![n] = y]
  OBVIOUS
<1>8. PICK ws : ws = [ts EXCEPT ![n] = y]
  OBVIOUS
<1>9. vs = ws
  <2>1. ts = [t \in DOMAIN ts |-> ts[t]]
    <3> DEFINE R == [id : Ids, ops : Seq(AllOps)]
    <3> HIDE DEF R
    <3>1. ts \in Seq(R)
      BY DEF Listed, R
    <3>2. ts \in [1..Len(ts) -> R]
      BY <3>1, LenProperties
    <3> QED  BY <3>2
  <2>2. us = [t \in DOMAIN ts |-> IF t = n THEN x ELSE ts[t]]
    BY <1>2, <2>1
  <2>3. vs = [t \in DOMAIN ts |-> IF t = n THEN y ELSE us[t]]
    BY <1>7, <2>2
  <2>4. ws = [t \in DOMAIN ts |-> IF t = n THEN y ELSE ts[t]]
    BY <1>8, <2>1
  <2>5. \A t \in DOMAIN ts : t # n => us[t] = ts[t]
    BY <2>2
  <2> QED  BY <2>3, <2>4, <2>5
<1>10. vs = Changed(us, n, b)
  BY <1>5, <1>6, <1>7 DEF Changed
<1>11. ws = Changed(ts, n, b)
  BY <1>4, <1>8 DEF Changed
<1> QED  BY <1>9, <1>10, <1>11

\* The operation after it was performed.
Performed(h, op, redo) ==
  [obj |-> op.obj, insert |-> op.insert, shapes |-> op.shapes, layer |-> op.layer,
   owns |-> OwnsAfter(h, op, op.insert = redo), done |-> redo]

LEMMA StepOps ==
  ASSUME NEW h, NEW ops \in Seq(AllOps), NEW i, i \in DOMAIN ops, NEW redo, IsWay(redo),
         NEW s, s = Step([heap |-> h, ops |-> ops], i, redo)
  PROVE  /\ s.ops = [ops EXCEPT ![i] = Performed(h, ops[i], redo)]
         /\ s.heap = Perform(h, ops[i], ops[i].insert = redo)
         /\ Performed(h, ops[i], redo) \in AllOps
<1>1. PICK op : op = ops[i]
  OBVIOUS
<1>2. op \in AllOps
  BY <1>1, LenProperties, ElementOfSeq
<1>3. PICK own : own = OwnsAfter(h, op, op.insert = redo)
  OBVIOUS
<1>4. own \in BOOLEAN
  <2>1. op.owns \in BOOLEAN
    BY <1>2 DEF AllOps
  <2> QED  BY <1>3, <2>1 DEF OwnsAfter
<1>5. PICK e : e = [op EXCEPT !.owns = own]
  OBVIOUS
<1>6. op = [obj |-> op.obj, insert |-> op.insert, shapes |-> op.shapes, layer |-> op.layer,
            owns |-> op.owns, done |-> op.done]
  BY <1>2 DEF AllOps
<1>7. e = [obj |-> op.obj, insert |-> op.insert, shapes |-> op.shapes, layer |-> op.layer,
           owns |-> own, done |-> op.done]
  BY <1>5, <1>6
<1>8. PICK d : d = [e EXCEPT !.done = redo]
  OBVIOUS
<1>9. d = [obj |-> op.obj, insert |-> op.insert, shapes |-> op.shapes, layer |-> op.layer,
           owns |-> own, done |-> redo]
  BY <1>7, <1>8
<1>10. d = Performed(h, op, redo)
  BY <1>3, <1>9 DEF Performed
<1>11. d \in AllOps
  BY <1>2, <1>4, <1>9 DEF AllOps, IsWay
<1>12. s.ops = [ops EXCEPT ![i].owns = own, ![i].done = redo] /\ s.heap = Perform(h, op, op.insert = redo)
  BY <1>1, <1>3 DEF Step, DoneAfter
<1>13. [ops EXCEPT ![i].owns = own, ![i].done = redo] = [ops EXCEPT ![i] = d]
  BY <1>1, <1>5, <1>8
<1> QED  BY <1>1, <1>10, <1>11, <1>12, <1>13

LEMMA ShapesStep ==
  ASSUME NEW h \in Heaps, NEW op \in AllOps, op.layer = NoLayer, FreeLayers(h) # {}, NEW insert
  PROVE  Fills(h, Perform(h, op, insert), op.obj, LayersOf(transactions))
<1>1. op.obj \in Containers /\ op.shapes \in ShapeBags
  BY DEF AllOps
<1>2. PICK old : old = Contents(h)[op.obj]
  OBVIOUS
<1>3. old \in ShapeBags
  BY <1>1, <1>2, ContentsTyped
<1>4. \E bag \in ShapeBags : Perform(h, op, insert) = SetShapes(h, op.obj, bag)
  <2>1. CASE insert
    <3>1. Perform(h, op, insert) = SetShapes(h, op.obj, Plus(old, op.shapes))
      BY <1>2, <2>1 DEF Perform, InsertShapes
    <3>2. Plus(old, op.shapes) \in ShapeBags
      BY <1>1, <1>3, BagsClosed
    <3> QED  BY <3>1, <3>2
  <2>2. CASE ~insert
    <3>1. PICK bag : bag = IF Total(old) <= Total(op.shapes) THEN NoShapes ELSE Minus(old, op.shapes)
      OBVIOUS
    <3>2. Perform(h, op, insert) = SetShapes(h, op.obj, bag)
      BY <1>2, <2>2, <3>1 DEF Perform, EraseShapes
    <3>3. bag \in ShapeBags
      BY <1>1, <1>3, <3>1, BagsClosed
    <3> QED  BY <3>2, <3>3
  <2> QED  BY <2>1, <2>2
<1> QED  BY <1>1, <1>4, SetShapesIs

LEMMA SoundFill ==
  ASSUME NEW f, IsView(f), NEW h, Sound(h, f), NEW c \in Containers, NEW i, Fills(h, i, c, LayersIn(f))
  PROVE  Sound(i, f)
<1>1. Kept(h, f) /\ h \in Heaps
  BY DEF Sound, Kept
<1>2. Kept(i, f)
  BY <1>1, KeptFill
<1>3. ASSUME MaxClears <= 1 PROVE Good(i, f)
  <2>1. Good(h, f)
    BY <1>3 DEF Sound
  <2> QED  BY <1>1, <2>1, GoodFill
<1> QED  BY <1>2, <1>3 DEF Sound

\* The two ways of a full layer operation.
LEMMA SoundFull ==
  ASSUME NEW f, IsView(f), NEW h, Sound(h, f), NEW p, p \in DOMAIN f, NEW redo, IsWay(redo),
         MaxClears <= 1 => Border(f, p, redo),
         NEW g, Turned(f, g, p, redo), NEW op, op = f[p], g[p].owns = OwnsAfter(h, op, op.insert = redo)
  PROVE  Sound(Perform(h, op, op.insert = redo), g)
<1>1. op \in AllOps /\ op.layer # NoLayer /\ op.layer \in Layers /\ op.obj \in Containers /\ op.insert \in BOOLEAN
  BY DEF IsView, FullOps, AllOps
<1>2. h \in Heaps /\ Kept(h, f)
  BY DEF Sound, Kept
<1>3. PICK i : i = Perform(h, op, op.insert = redo)
  OBVIOUS
<1>4. CASE op.insert = redo
  <2>1. i = PutLayer(h, op.obj, op.layer)
    BY <1>1, <1>3, <1>4 DEF Perform
  <2>2. Puts(h, i, f[p].obj, f[p].layer)
    BY <1>1, <1>2, <2>1, PutLayerIs
  <2>3. g[p].owns <=> (f[p].owns /\ h.held[f[p].obj] = f[p].layer)
    BY <1>1, <1>4 DEF OwnsAfter
  <2>4. f[p].obj \in Containers /\ f[p].layer \in Layers
    BY <1>1
  <2>5. \A q \in DOMAIN f : q # p => (g[q].owns <=> f[q].owns)
    BY TurnedSame
  <2>6. Kept(i, g)
    BY <1>2, <2>2, <2>4, <2>5, KeptPut
  <2>7. f[p].insert <=> redo
    BY <1>4
  <2>8. ASSUME MaxClears <= 1 PROVE Good(i, g)
    <3>1. Good(h, f) /\ Border(f, p, redo)
      BY <2>8 DEF Sound
    <3> QED  BY <1>2, <2>2, <2>3, <2>7, <3>1, GoodPut
  <2> QED  BY <1>3, <2>6, <2>8 DEF Sound
<1>5. CASE op.insert # redo
  <2>1. i = TakeLayer(h, op.obj, op.layer)
    BY <1>1, <1>3, <1>5 DEF Perform
  <2>2. Takes(h, i, f[p].obj, f[p].layer)
    BY <1>1, <1>2, <2>1, TakeLayerIs
  <2>3. g[p].owns <=> (f[p].owns \/ h.held[f[p].obj] = f[p].layer)
    BY <1>1, <1>5 DEF OwnsAfter
  <2>4. f[p].obj \in Containers
    BY <1>1
  <2>6. Kept(i, g)
    BY <1>2, <2>2, <2>3, <2>4, KeptTake
  <2>7. f[p].insert <=> ~redo
    BY <1>1, <1>5 DEF IsWay
  <2>8. ASSUME MaxClears <= 1 PROVE Good(i, g)
    <3>1. Good(h, f) /\ Border(f, p, redo)
      BY <2>8 DEF Sound
    <3> QED  BY <1>2, <2>2, <2>3, <2>7, <3>1, GoodTake
  <2> QED  BY <1>3, <2>6, <2>8 DEF Sound
<1> QED  BY <1>4, <1>5

\* The operation in turn changes its state, the others do not.
SteppedAt(ops, to, i, redo) ==
  /\ to \in Seq(AllOps) /\ DOMAIN to = DOMAIN ops /\ (to[i].done <=> redo)
  /\ \A j \in DOMAIN ops : j # i => to[j] = ops[j]

LEMMA StepSound ==
  ASSUME NEW ts, Listed(ts), LayersOf(ts) = LayersOf(transactions), NEW n, n \in DOMAIN ts,
         NEW ops, ops = ts[n].ops, NEW i, i \in DOMAIN ops, NEW redo, IsWay(redo),
         NEW h, Sound(h, View(ts)), FreeLayers(h) # {},
         MaxClears <= 1 /\ ops[i].layer # NoLayer => Border(View(ts), <<n, i>>, redo),
         NEW s, s = Step([heap |-> h, ops |-> ops], i, redo), NEW us, us = Changed(ts, n, s.ops)
  PROVE  /\ SteppedAt(ops, s.ops, i, redo) /\ Sound(s.heap, View(us))
         /\ LayersIn(View(us)) = LayersIn(View(ts))
<1>1. ops \in Seq(AllOps) /\ h \in Heaps /\ IsView(View(ts)) /\ LayersIn(View(ts)) = LayersOf(transactions)
  BY ListedIs, ViewIs DEF Sound, Kept
<1>2. PICK op : op = ops[i]
  OBVIOUS
<1>3. op \in AllOps
  BY <1>2, ListedIs
<1>4. PICK d : d = Performed(h, op, redo)
  OBVIOUS
<1>5. s.ops = [ops EXCEPT ![i] = d] /\ s.heap = Perform(h, op, op.insert = redo) /\ d \in AllOps
  BY <1>1, <1>2, <1>4, StepOps
<1>6. d.layer = op.layer /\ d.obj = op.obj /\ d.insert = op.insert /\ d.done = redo
      /\ d.owns = OwnsAfter(h, op, op.insert = redo)
  BY <1>4 DEF Performed
<1>7. SteppedAt(ops, s.ops, i, redo)
  <2>1. PICK to : to = s.ops
    OBVIOUS
  <2>2. to \in Seq(AllOps) /\ DOMAIN to = DOMAIN ops /\ to[i] = d /\ \A j \in DOMAIN ops : j # i => to[j] = ops[j]
    BY <1>1, <1>5, <2>1, OpChanged
  <2>3. to[i].done <=> redo
    BY <1>6, <2>2
  <2> QED  BY <2>1, <2>2, <2>3 DEF SteppedAt
<1>8. us = Changed(ts, n, [ts[n].ops EXCEPT ![i] = d])
  BY <1>5
<1>9. CASE op.layer = NoLayer
  <2>1. View(us) = View(ts)
    BY <1>2, <1>5, <1>6, <1>8, <1>9, ViewOtherwise
  <2>2. Fills(h, s.heap, op.obj, LayersIn(View(ts))) /\ op.obj \in Containers
    BY <1>1, <1>3, <1>5, <1>9, ShapesStep DEF AllOps
  <2>3. Sound(s.heap, View(ts))
    BY <1>1, <2>2, SoundFill
  <2> QED  BY <1>7, <2>1, <2>3
<1>10. CASE op.layer # NoLayer
  <2>1. PICK p : p = <<n, i>>
    OBVIOUS
  <2>2. p \in DOMAIN View(ts) /\ View(ts)[p] = op
    BY <1>2, <1>10, <2>1, ViewAt
  <2>3. Turned(View(ts), View(us), p, redo) /\ View(us)[p] = d
    BY <1>2, <1>5, <1>6, <1>8, <1>10, <2>1, ViewTurned
  <2>4. PICK f, g : f = View(ts) /\ g = View(us)
    OBVIOUS
  <2>5. MaxClears <= 1 => Border(f, p, redo)
    BY <1>2, <1>10, <2>1, <2>4
  <2>6. Sound(Perform(h, op, op.insert = redo), g)
    BY <1>1, <1>6, <2>2, <2>3, <2>4, <2>5, SoundFull
  <2>7. LayersIn(g) = LayersIn(f)
    <3>1. DOMAIN g = DOMAIN f /\ \A q \in DOMAIN f : g[q].layer = f[q].layer
      BY <2>3, <2>4, TurnedSame DEF Turned
    <3> QED  BY <3>1 DEF LayersIn
  <2> QED  BY <1>5, <1>7, <2>4, <2>6, <2>7
<1> QED  BY <1>9, <1>10

-----------------------------------------------------------------------------
(* A replay, or its beginning                                              *)

\* The sets of what a replay may come to, operation by operation.
LEMMA ReplayStays ==
  ASSUME NEW ops, NEW redo, NEW k \in Nat, NEW order, order = Order(ops, redo, k), DOMAIN order = 1..k, NEW S,
         [heap |-> heap, ops |-> ops] \in S[0],
         \A j \in 1..k : \A r \in S[j - 1] : Step(r, order[j], redo) \in S[j]
  PROVE  Replay(ops, redo, k) \in S[k]
<1>1. PICK F : F = ReplayedUpto(ops, redo, order)
  OBVIOUS
<1>2. Replay(ops, redo, k) = F[1..k]
  <2>1. Replay(ops, redo, k) = ReplayedUpto(ops, redo, order)[DOMAIN order]
    BY SMTT(60) DEF Replay, ReplayedUpto, FoldLeft, MapThenFoldSet
  <2> QED  BY <1>1, <2>1
<1>3. F[{}] = [heap |-> heap, ops |-> ops] /\ \A j \in 1..k : F[1..j] = Step(F[1..(j - 1)], order[j], redo)
  <2>1. Replays(F, ops, redo, order, k)
    BY <1>1, ReplayedDef
  <2> QED  BY <2>1 DEF Replays
<1> DEFINE N == {j \in Nat : j <= k => F[1..j] \in S[j]}
<1>4. 0 \in N
  <2>1. 1..0 = {}
    OBVIOUS
  <2> QED  BY <1>3, <2>1
<1>5. ASSUME NEW j \in Nat, j \in N PROVE j + 1 \in N
  <2> SUFFICES ASSUME j + 1 <= k PROVE F[1..(j + 1)] \in S[j + 1]
    OBVIOUS
  <2>1. F[1..j] \in S[j] /\ j + 1 \in 1..k /\ (j + 1) - 1 = j
    BY <1>5
  <2>2. F[1..(j + 1)] = Step(F[1..j], order[j + 1], redo)
    BY <1>3, <2>1
  <2>3. Step(F[1..j], order[j + 1], redo) \in S[j + 1]
    BY <2>1
  <2> QED  BY <2>2, <2>3
<1>6. k \in N
  <2> HIDE DEF N
  <2> QED  BY <1>4, <1>5, SetInduction
<1> QED  BY <1>2, <1>6

\* The k-th operation of a replay.
Turn(redo, len, k) == IF redo THEN k ELSE len + 1 - k

LEMMA OrderUpto ==
  ASSUME NEW ops \in Seq(AllOps), NEW redo, IsWay(redo), NEW k \in 0..Len(ops)
  PROVE  LET order == Order(ops, redo, k) IN
         DOMAIN order = 1..k /\ \A j \in 1..k : order[j] = Turn(redo, Len(ops), j)
<1> DEFINE to(i) == Turn(redo, Len(ops), i)
<1>1. PICK n \in Nat : n = Len(ops) /\ DOMAIN ops = 1..n
  BY LenProperties
<1>2. PICK s : s = [i \in 1..n |-> to(i)]
  OBVIOUS
<1>3. PICK order : order = Order(ops, redo, k)
  OBVIOUS
<1>4. order = SubSeq(s, 1, k)
  <2>1. s = IF redo THEN [i \in DOMAIN ops |-> i] ELSE [i \in DOMAIN ops |-> Len(ops) + 1 - i]
    <3>1. CASE redo
      BY <1>1, <1>2, <3>1 DEF Turn
    <3>2. CASE ~redo
      BY <1>1, <1>2, <3>2 DEF Turn
    <3> QED  BY <3>1, <3>2
  <2> QED  BY <1>3, <2>1 DEF Order
<1>5. \A i \in 1..n : to(i) \in 1..n
  BY <1>1 DEF Turn
<1>6. k \in Nat /\ k <= n
  BY <1>1
<1> HIDE DEF to
<1>7. s \in Seq(1..n) /\ \A i \in 1..n : s[i] = to(i)
  <2>1. s \in [1..n -> 1..n]
    BY <1>2, <1>5
  <2> QED  BY <1>1, <1>2, <2>1, SeqDef
<1>8. order \in Seq(1..n) /\ Len(order) = k /\ \A i \in 1..k : order[i] = s[i]
  <2>1. \A i \in 1..k : s[i] \in 1..n
    BY <1>5, <1>6, <1>7
  <2>2. Len(order) = (IF 1 <= k THEN k - 1 + 1 ELSE 0) /\ order \in Seq(1..n)
        /\ \A i \in 1..(k - 1 + 1) : order[i] = s[1 + i - 1]
    BY <1>4, <1>6, <2>1, SubSeqProperties
  <2> QED  BY <1>6, <2>2
<1>9. DOMAIN order = 1..k /\ \A i \in 1..k : order[i] = to(i)
  <2>1. \A i \in 1..k : i \in 1..n
    BY <1>6
  <2> QED  BY <1>7, <1>8, <2>1, LenProperties
<1> QED  BY <1>3, <1>9 DEF to

Passed(redo, len, k, i) == IF redo THEN i <= k ELSE i > len - k

\* The k-th is the next of those that have not had their turn.
LEMMA TurnIs ==
  ASSUME NEW len \in Nat, NEW redo, NEW k \in 1..len
  PROVE  /\ Turn(redo, len, k) \in 1..len
         /\ \A i \in 1..len : Passed(redo, len, k, i) <=> Passed(redo, len, k - 1, i) \/ i = Turn(redo, len, k)
         /\ \A i \in 1..len : i < Turn(redo, len, k) => (Passed(redo, len, k - 1, i) <=> redo)
         /\ \A i \in 1..len : i > Turn(redo, len, k) => (Passed(redo, len, k - 1, i) <=> ~redo)
         /\ ~Passed(redo, len, k - 1, Turn(redo, len, k))
<1>1. CASE redo
  BY <1>1 DEF Turn, Passed
<1>2. CASE ~redo
  BY <1>2 DEF Turn, Passed
<1> QED  BY <1>1, <1>2

\* The transactions on both sides of the n-th.
Sides(ts, n) ==
  \A t \in DOMAIN ts : \A i \in DOMAIN ts[t].ops :
    (t < n => ts[t].ops[i].done) /\ (t > n => ~ts[t].ops[i].done)

AlongOps(ops, to, redo, k) ==
  /\ to \in Seq(AllOps) /\ DOMAIN to = DOMAIN ops /\ Len(to) = Len(ops)
  /\ \A i \in DOMAIN ops : to[i].done <=> (redo <=> Passed(redo, Len(ops), k, i))

\* A replay has come to r after k operations of the n-th transaction.
Along(r, ts, n, redo, k) ==
  /\ r = [heap |-> r.heap, ops |-> r.ops]
  /\ AlongOps(ts[n].ops, r.ops, redo, k)
  /\ Sound(r.heap, View(Changed(ts, n, r.ops)))
  /\ LayersIn(View(Changed(ts, n, r.ops))) = LayersIn(View(ts))

LEMMA AlongBorder ==
  ASSUME NEW ts, Listed(ts), NEW n, n \in DOMAIN ts, Sides(ts, n), NEW redo, IsWay(redo),
         NEW k, k \in 1..Len(ts[n].ops), NEW ops, AlongOps(ts[n].ops, ops, redo, k - 1),
         NEW us, us = Changed(ts, n, ops), NEW i, i = Turn(redo, Len(ts[n].ops), k), ops[i].layer # NoLayer
  PROVE  Border(View(us), <<n, i>>, redo)
<1>1. PICK len \in Nat : len = Len(ts[n].ops) /\ DOMAIN ts[n].ops = 1..len /\ k \in 1..len
  <2>1. PICK o \in Seq(AllOps) : o = ts[n].ops
    BY ListedIs
  <2> QED  BY <2>1, OpsLen
<1>2. ops \in Seq(AllOps) /\ DOMAIN ops = 1..len /\ \A j \in 1..len : ops[j].done <=> (redo <=> Passed(redo, len, k - 1, j))
  BY <1>1 DEF AlongOps
<1>3. ChangedTo(ts, us, n, ops)
  BY <1>2, ChangedIs
<1>4. Listed(us) /\ DOMAIN us = DOMAIN ts /\ us[n].ops = ops /\ \A t \in DOMAIN ts : t # n => us[t] = ts[t]
  BY <1>3 DEF ChangedTo
<1>5. PICK p : p = <<n, i>>
  OBVIOUS
<1>6. /\ i \in 1..len /\ ~Passed(redo, len, k - 1, i)
      /\ \A j \in 1..len : j < i => (Passed(redo, len, k - 1, j) <=> redo)
      /\ \A j \in 1..len : j > i => (Passed(redo, len, k - 1, j) <=> ~redo)
  BY <1>1, TurnIs
<1>7. p \in DOMAIN View(us) /\ View(us)[p] = ops[i]
  BY <1>2, <1>4, <1>5, <1>6, ViewAt
<1>8. ops[i].done <=> ~redo
  BY <1>2, <1>6
<1>9. ASSUME NEW q \in DOMAIN View(us)
      PROVE  (Prec(q, p) => View(us)[q].done) /\ (Prec(p, q) => ~View(us)[q].done)
  <2>1. PICK t, j : t = q[1] /\ j = q[2]
    OBVIOUS
  <2>2. q = <<t, j>> /\ t \in DOMAIN us /\ j \in DOMAIN us[t].ops /\ View(us)[q] = us[t].ops[j]
    BY <1>4, <2>1, ViewPlace
  <2>3. t \in Nat /\ n \in Nat
    BY <1>4, <2>2, ListedIs
  <2>4. CASE t = n
    <3>1. j \in 1..len /\ View(us)[q] = ops[j]
      BY <1>2, <1>4, <2>2, <2>4
    <3>2. (Prec(q, p) <=> j < i) /\ (Prec(p, q) <=> j > i)
      BY <1>5, <1>6, <2>2, <2>3, <2>4, <3>1 DEF Prec
    <3>3. j < i => ops[j].done
      BY <1>2, <1>6, <3>1
    <3>4. j > i => ~ops[j].done
      BY <1>2, <1>6, <3>1
    <3> QED  BY <3>1, <3>2, <3>3, <3>4
  <2>5. CASE t # n
    <3>1. t \in DOMAIN ts /\ j \in DOMAIN ts[t].ops /\ View(us)[q] = ts[t].ops[j]
      BY <1>4, <2>2, <2>5
    <3>2. (Prec(q, p) => t < n) /\ (Prec(p, q) => t > n)
      BY <1>5, <2>2, <2>3, <2>5 DEF Prec
    <3> QED  BY <3>1, <3>2 DEF Sides
  <2> QED  BY <2>4, <2>5
<1> QED  BY <1>5, <1>7, <1>8, <1>9 DEF Border

LEMMA SameChange ==
  ASSUME NEW ts, Listed(ts), NEW n, n \in DOMAIN ts
  PROVE  View(Changed(ts, n, ts[n].ops)) = View(ts)
<1>1. PICK ops \in Seq(AllOps) : ops = ts[n].ops
  BY ListedIs
<1>2. PICK us : us = Changed(ts, n, ops)
  OBVIOUS
<1>3. ChangedTo(ts, us, n, ops)
  BY <1>2, ChangedIs
<1>4. Listed(us) /\ DOMAIN us = DOMAIN ts /\ \A t \in DOMAIN ts : us[t].ops = ts[t].ops
  BY <1>1, <1>3 DEF ChangedTo
<1>5. View(us) = View(ts)
  BY <1>4, SameView
<1> QED  BY <1>1, <1>2, <1>5

FewLayers(f) == IsFiniteSet(LayersIn(f)) /\ Cardinality(LayersIn(f)) <= MaxEdits

LEMMA AlongStep ==
  ASSUME NEW ts, Listed(ts), LayersOf(ts) = LayersOf(transactions), FewLayers(View(ts)),
         NEW n, n \in DOMAIN ts, Sides(ts, n), NEW redo, IsWay(redo),
         NEW k, k \in 1..Len(ts[n].ops), NEW r, Along(r, ts, n, redo, k - 1)
  PROVE  Along(Step(r, Turn(redo, Len(ts[n].ops), k), redo), ts, n, redo, k)
<1>1. PICK i : i = Turn(redo, Len(ts[n].ops), k)
  OBVIOUS
<1>2. PICK len \in Nat : len = Len(ts[n].ops) /\ DOMAIN ts[n].ops = 1..len /\ k \in 1..len
  <2>1. PICK o \in Seq(AllOps) : o = ts[n].ops
    BY ListedIs
  <2> QED  BY <2>1, OpsLen
<1>3. PICK ops : ops = r.ops
  OBVIOUS
<1>4. PICK h : h = r.heap
  OBVIOUS
<1>5. AlongOps(ts[n].ops, ops, redo, k - 1) /\ r = [heap |-> h, ops |-> ops]
  BY <1>3, <1>4 DEF Along
<1>6. ops \in Seq(AllOps) /\ DOMAIN ops = 1..len /\ Len(ops) = len
      /\ \A j \in 1..len : ops[j].done <=> (redo <=> Passed(redo, len, k - 1, j))
  BY <1>2, <1>5 DEF AlongOps
<1>7. PICK us : us = Changed(ts, n, ops)
  OBVIOUS
<1>8. Sound(h, View(us)) /\ LayersIn(View(us)) = LayersIn(View(ts))
  BY <1>3, <1>4, <1>7 DEF Along
<1>9. ChangedTo(ts, us, n, ops)
  BY <1>6, <1>7, ChangedIs
<1>10. Listed(us) /\ n \in DOMAIN us /\ us[n].ops = ops
  BY <1>9 DEF ChangedTo
<1>11. i \in 1..len /\ \A j \in 1..len : Passed(redo, len, k, j) <=> Passed(redo, len, k - 1, j) \/ j = i
  BY <1>1, <1>2, TurnIs
<1>12. ~Passed(redo, len, k - 1, i)
  BY <1>1, <1>2, TurnIs
<1>13. LayersOf(us) = LayersOf(transactions) /\ LayersIn(View(us)) = LayersOf(transactions)
  BY <1>8, <1>10, ViewIs
<1>14. FreeLayers(h) # {}
  <2>1. Kept(h, View(us)) /\ IsFiniteSet(LayersIn(View(us))) /\ Cardinality(LayersIn(View(us))) <= MaxEdits
    BY <1>8 DEF Sound, FewLayers
  <2> QED  BY <1>13, <2>1, RoomLeft
<1>15. PICK s : s = Step([heap |-> h, ops |-> ops], i, redo)
  OBVIOUS
<1>16. MaxClears <= 1 /\ ops[i].layer # NoLayer => Border(View(us), <<n, i>>, redo)
  BY <1>1, <1>5, <1>7, AlongBorder
<1>17. PICK vs : vs = Changed(us, n, s.ops)
  OBVIOUS
<1>18. SteppedAt(ops, s.ops, i, redo) /\ Sound(s.heap, View(vs)) /\ LayersIn(View(vs)) = LayersIn(View(us))
  BY <1>6, <1>8, <1>10, <1>11, <1>13, <1>14, <1>15, <1>16, <1>17, StepSound
<1>19. PICK to : to = s.ops
  OBVIOUS
<1>20. to \in Seq(AllOps) /\ DOMAIN to = 1..len /\ (to[i].done <=> redo) /\ \A j \in 1..len : j # i => to[j] = ops[j]
  BY <1>6, <1>18, <1>19 DEF SteppedAt
<1>21. vs = Changed(ts, n, to)
  BY <1>6, <1>7, <1>17, <1>19, <1>20, ChangedTwice
<1>22. AlongOps(ts[n].ops, to, redo, k)
  <2>1. Len(to) = len
    <3>1. 1..Len(to) = 1..len /\ Len(to) \in Nat
      BY <1>20, OpsLen
    <3> QED  BY <3>1
  <2>2. ASSUME NEW j \in 1..len PROVE to[j].done <=> (redo <=> Passed(redo, len, k, j))
    <3>1. CASE j = i
      BY <1>11, <1>20, <3>1
    <3>2. CASE j # i
      BY <1>6, <1>11, <1>20, <3>2
    <3> QED  BY <3>1, <3>2
  <2> QED  BY <1>2, <1>20, <2>1, <2>2 DEF AlongOps
<1>23. s = [heap |-> s.heap, ops |-> s.ops]
  BY <1>15 DEF Step
<1>24. Along(s, ts, n, redo, k)
  <2>1. Changed(ts, n, s.ops) = vs
    BY <1>19, <1>21
  <2>2. AlongOps(ts[n].ops, s.ops, redo, k)
    BY <1>19, <1>22
  <2> QED  BY <1>8, <1>18, <1>23, <2>1, <2>2 DEF Along
<1> QED  BY <1>1, <1>5, <1>15, <1>24

\* A replay, cut off anywhere, keeps the layers in order.
LEMMA ReplayAlong ==
  ASSUME NEW ts, Listed(ts), LayersOf(ts) = LayersOf(transactions), FewLayers(View(ts)),
         Sound(heap, View(ts)), NEW n, n \in DOMAIN ts, Sides(ts, n), NEW redo, IsWay(redo),
         NEW ops, ops = ts[n].ops, \A i \in DOMAIN ops : ops[i].done = ~redo,
         NEW k, k \in 0..Len(ops)
  PROVE  Along(Replay(ops, redo, k), ts, n, redo, k)
<1>1. PICK len \in Nat : len = Len(ops) /\ DOMAIN ops = 1..len /\ k \in 0..len /\ ops \in Seq(AllOps)
  <2>1. ops \in Seq(AllOps)
    BY ListedIs
  <2> QED  BY <2>1, OpsLen
<1>2. PICK order : order = Order(ops, redo, k)
  OBVIOUS
<1>3. DOMAIN order = 1..k /\ \A j \in 1..k : order[j] = Turn(redo, len, j)
  BY <1>1, <1>2, OrderUpto
<1>4. PICK R : R = {r \in [heap : Heaps, ops : Seq(AllOps)] : TRUE}
  OBVIOUS
<1>5. PICK S : S = [j \in 0..k |-> {r \in R : Along(r, ts, n, redo, j)}]
  OBVIOUS
<1>6. \A j \in 0..k : \A r : r \in S[j] <=> r \in R /\ Along(r, ts, n, redo, j)
  BY <1>5
<1>7. \A r, j : Along(r, ts, n, redo, j) => r \in R
  <2> SUFFICES ASSUME NEW r, NEW j, Along(r, ts, n, redo, j) PROVE r \in R
    OBVIOUS
  <2>1. r.heap \in Heaps /\ r.ops \in Seq(AllOps) /\ r = [heap |-> r.heap, ops |-> r.ops]
    BY DEF Along, AlongOps, Sound, Kept
  <2> QED  BY <1>4, <2>1
<1>8. Along([heap |-> heap, ops |-> ops], ts, n, redo, 0)
  <2>1. PICK r : r = [heap |-> heap, ops |-> ops]
    OBVIOUS
  <2>2. r.heap = heap /\ r.ops = ops
    BY <2>1
  <2>3. View(Changed(ts, n, r.ops)) = View(ts)
    BY <2>2, SameChange
  <2>4. ASSUME NEW i \in 1..len PROVE ops[i].done <=> (redo <=> Passed(redo, len, 0, i))
    <3>1. ops[i].done <=> ~redo
      BY <1>1
    <3>2. ~Passed(redo, len, 0, i)
      BY <1>1 DEF Passed
    <3> QED  BY <3>1, <3>2
  <2>5. AlongOps(ts[n].ops, r.ops, redo, 0)
    BY <1>1, <2>2, <2>4 DEF AlongOps
  <2>6. Along(r, ts, n, redo, 0)
    BY <2>1, <2>2, <2>3, <2>5 DEF Along
  <2> QED  BY <2>1, <2>6
<1>9. [heap |-> heap, ops |-> ops] \in S[0]
  <2>1. 0 \in 0..k
    BY <1>1
  <2> QED  BY <1>6, <1>7, <1>8, <2>1
<1>10. ASSUME NEW j \in 1..k, NEW r \in S[j - 1] PROVE Step(r, order[j], redo) \in S[j]
  <2>1. j - 1 \in 0..k /\ j \in 0..k /\ j \in 1..Len(ts[n].ops)
    BY <1>1
  <2>2. Along(r, ts, n, redo, j - 1)
    BY <1>6, <2>1
  <2>3. Along(Step(r, Turn(redo, Len(ts[n].ops), j), redo), ts, n, redo, j)
    BY <2>1, <2>2, AlongStep
  <2>4. order[j] = Turn(redo, Len(ts[n].ops), j)
    BY <1>1, <1>3
  <2> QED  BY <1>6, <1>7, <2>1, <2>3, <2>4
<1>11. Replay(ops, redo, k) \in S[k]
  <2>1. k \in Nat
    BY <1>1
  <2> QED  BY <1>2, <1>3, <1>9, <1>10, <2>1, ReplayStays
<1>12. k \in 0..k
  BY <1>1
<1> QED  BY <1>6, <1>11, <1>12

-----------------------------------------------------------------------------
(* Lists and their layers                                                  *)

FewerThan(f, e) == IsFiniteSet(LayersIn(f)) /\ Cardinality(LayersIn(f)) <= e
Layered(ts, h, e) == Listed(ts) /\ Sound(h, View(ts)) /\ FewerThan(View(ts), e)

LEMMA NotMore ==
  ASSUME NEW f, NEW g, NEW e \in Nat, NEW d \in Nat, e <= d, FewerThan(f, e), LayersIn(g) \subseteq LayersIn(f)
  PROVE  FewerThan(g, d)
<1>1. IsFiniteSet(LayersIn(g)) /\ Cardinality(LayersIn(g)) <= Cardinality(LayersIn(f))
  BY FS_Subset DEF FewerThan
<1>2. Cardinality(LayersIn(g)) \in Nat /\ Cardinality(LayersIn(f)) \in Nat
  BY <1>1, FS_CardinalityType DEF FewerThan
<1> QED  BY <1>1, <1>2 DEF FewerThan

LEMMA OneMore ==
  ASSUME NEW f, NEW g, NEW e \in Nat, FewerThan(f, e), NEW x, LayersIn(g) \subseteq LayersIn(f) \cup {x}
  PROVE  FewerThan(g, e + 1)
<1>1. PICK more : more = LayersIn(f) \cup {x}
  OBVIOUS
<1>2. IsFiniteSet(more) /\ Cardinality(more) = IF x \in LayersIn(f) THEN Cardinality(LayersIn(f)) ELSE Cardinality(LayersIn(f)) + 1
  BY <1>1, FS_AddElement DEF FewerThan
<1>3. IsFiniteSet(LayersIn(g)) /\ Cardinality(LayersIn(g)) <= Cardinality(more)
  BY <1>1, <1>2, FS_Subset
<1>4. Cardinality(LayersIn(g)) \in Nat /\ Cardinality(LayersIn(f)) \in Nat /\ Cardinality(more) \in Nat
  BY <1>2, <1>3, FS_CardinalityType DEF FewerThan
<1> QED  BY <1>2, <1>3, <1>4 DEF FewerThan

\* The layers of operations are deleted with them.
LEMMA DeletedLayers ==
  ASSUME NEW h, h \in Heaps, NEW ls, NEW ms, ls \ {NoLayer} = ms
  PROVE  Deletes(h, Delete(h, ls), ms)
<1>1. Deletes(h, Delete(h, ls), ls)
  BY DeleteIs
<1>2. h.alive \ ls = h.alive \ ms
  <2>1. NoLayer \notin h.alive
    BY DEF Heaps, Layers, NoLayer
  <2> QED  BY <2>1
<1> QED  BY <1>1, <1>2 DEF Deletes

LEMMA SameCut ==
  ASSUME NEW ts, Listed(ts), NEW us, Listed(us), NEW n, n \in 0..Len(ts), n \in 0..Len(us),
         \A t \in 1..n : us[t] = ts[t]
  PROVE  SubSeq(us, 1, n) = SubSeq(ts, 1, n)
<1>1. PICK a : a = SubSeq(ts, 1, n)
  OBVIOUS
<1>2. PICK b : b = SubSeq(us, 1, n)
  OBVIOUS
<1>3. /\ Listed(a) /\ Len(a) = n /\ \A t \in 1..n : a[t] = ts[t]
      /\ Listed(b) /\ Len(b) = n /\ \A t \in 1..n : b[t] = us[t]
  BY <1>1, <1>2, CutIs
<1>4. a = b
  BY <1>3, SeqEqual DEF Listed
<1> QED  BY <1>1, <1>2, <1>4

LEMMA CutLayered ==
  ASSUME NEW ts, NEW h, NEW e \in Nat, Layered(ts, h, e), NEW n, n \in 0..Len(ts),
         \A t \in DOMAIN ts : \A i \in DOMAIN ts[t].ops : t > n => ~ts[t].ops[i].done
  PROVE  Layered(SubSeq(ts, 1, n), Delete(h, OwnedBy(SubSeq(ts, n + 1, Len(ts)))), e)
<1>1. PICK cut : cut = SubSeq(ts, 1, n)
  OBVIOUS
<1>2. PICK rest : rest = SubSeq(ts, n + 1, Len(ts))
  OBVIOUS
<1>3. PICK f, g : f = View(ts) /\ g = View(cut)
  OBVIOUS
<1>4. Listed(ts) /\ Sound(h, f) /\ FewerThan(f, e) /\ IsView(f)
  BY <1>3, ViewIs DEF Layered
<1>5. /\ Listed(cut) /\ CutTo(f, g) /\ CutOff(f, g) = OwnedBy(rest) \ {NoLayer}
      /\ \A p \in DOMAIN f : p \in DOMAIN g <=> p[1] <= n
  BY <1>1, <1>2, <1>3, <1>4, ViewCut
<1>6. PICK i : i = Delete(h, OwnedBy(rest))
  OBVIOUS
<1>7. Deletes(h, i, CutOff(f, g))
  BY <1>4, <1>5, <1>6, DeletedLayers DEF Sound, Kept
<1>8. \A q \in DOMAIN f \ DOMAIN g : ~f[q].done
  <2> SUFFICES ASSUME NEW q \in DOMAIN f, q \notin DOMAIN g PROVE ~f[q].done
    OBVIOUS
  <2>1. q[1] \in DOMAIN ts /\ q[2] \in DOMAIN ts[q[1]].ops /\ f[q] = ts[q[1]].ops[q[2]]
    BY <1>3, <1>4, ViewPlace
  <2>2. ~(q[1] <= n)
    BY <1>5
  <2>3. q[1] \in Nat /\ n \in Nat
    BY <1>4, <2>1, ListedIs, ListedLen
  <2>4. q[1] > n
    BY <2>2, <2>3
  <2> QED  BY <2>1, <2>4
<1>9. Kept(i, g)
  BY <1>4, <1>5, <1>7, KeptCut DEF Sound
<1>10. ASSUME MaxClears <= 1 PROVE Good(i, g)
  <2>1. Good(h, f)
    BY <1>4, <1>10 DEF Sound
  <2> QED  BY <1>4, <1>5, <1>7, <1>8, <2>1, GoodCut
<1>11. LayersIn(g) \subseteq LayersIn(f)
  BY <1>5 DEF CutTo, LayersIn
<1>12. FewerThan(g, e)
  BY <1>4, <1>11, NotMore
<1> QED  BY <1>1, <1>2, <1>3, <1>5, <1>6, <1>9, <1>10, <1>12 DEF Layered, Sound

\* A view without layers has no operations.
LEMMA ForgetLayered ==
  ASSUME NEW ts, Listed(ts), NEW h, Sound(h, View(ts)), NEW e \in Nat
  PROVE  Layered(<<>>, Delete(h, OwnedBy(ts)), e)
<1>1. PICK f, g : f = View(ts) /\ g = View(<<>>)
  OBVIOUS
<1>2. Listed(<<>>) /\ DOMAIN g = {}
  BY <1>1, ViewEmpty
<1>3. PICK i : i = Delete(h, OwnedBy(ts))
  OBVIOUS
<1>4. h \in Heaps /\ OwnedBy(ts) \ {NoLayer} = OwnedIn(f) /\ Kept(h, f)
  BY <1>1, ViewIs DEF Sound, Kept
<1>5. Deletes(h, i, OwnedIn(f))
  BY <1>3, <1>4, DeletedLayers
<1>6. Kept(i, g)
  <2>1. ASSUME NEW x \in i.alive PROVE x \in HeldBy(i)
    BY <1>4, <1>5, <2>1 DEF Deletes, Kept, HeldBy
  <2> QED  BY <1>5, <2>1 DEF Kept, Deletes
<1>7. ASSUME MaxClears <= 1 PROVE Good(i, g)
  <2>1. Good(h, f)
    BY <1>1, <1>7 DEF Sound
  <2> QED  BY <1>2, <1>5, <2>1, GoodForget
<1>8. LayersIn(g) = {}
  BY <1>2 DEF LayersIn
<1>9. FewerThan(g, e)
  BY <1>8, FS_EmptySet DEF FewerThan
<1> QED  BY <1>1, <1>2, <1>3, <1>6, <1>7, <1>9 DEF Layered, Sound

LEMMA LongerLayered ==
  ASSUME NEW ts, NEW h, NEW e, Layered(ts, h, e), NEW id \in Ids
  PROVE  Layered(Append(ts, [id |-> id, ops |-> <<>>]), h, e)
<1> QED  BY ViewLonger DEF Layered

-----------------------------------------------------------------------------
(* The actions on transactions                                             *)

LInv == IInv /\ edits \in 0..MaxEdits /\ Layered(transactions, heap, edits)

LEMMA LInvFacts ==
  ASSUME LInv
  PROVE  /\ edits \in Nat /\ edits <= MaxEdits /\ MaxEdits \in Nat
         /\ Listed(transactions) /\ Sound(heap, View(transactions))
         /\ FewerThan(View(transactions), edits) /\ FewLayers(View(transactions))
         /\ heap \in Heaps /\ LayersIn(View(transactions)) = LayersOf(transactions)
<1>1. edits \in Nat /\ edits <= MaxEdits /\ MaxEdits \in Nat
  BY BoundsAssumption DEF LInv
<1>2. Listed(transactions) /\ Sound(heap, View(transactions)) /\ FewerThan(View(transactions), edits)
  BY DEF LInv, Layered
<1>3. FewerThan(View(transactions), MaxEdits)
  BY <1>1, <1>2, NotMore
<1>4. FewLayers(View(transactions))
  BY <1>3 DEF FewLayers, FewerThan
<1> QED  BY <1>1, <1>2, <1>4, ViewIs DEF Sound, Kept

\* The operations on both sides of a transaction at the border.
LEMMA SidesOpen ==
  ASSUME LInv, OpenLists
  PROVE  /\ current + 1 \in DOMAIN transactions /\ Sides(transactions, current + 1)
         /\ \A t \in DOMAIN transactions : \A i \in DOMAIN transactions[t].ops : transactions[t].ops[i].done = TRUE
<1>1. current \in Nat /\ Len(transactions) = current + 1 /\ DOMAIN transactions = 1..(current + 1)
  BY LInvFacts, ListedLen DEF OpenLists
<1>2. \A t \in DOMAIN transactions : \A i \in DOMAIN transactions[t].ops : transactions[t].ops[i].done = TRUE
  BY <1>1 DEF OpenLists, Lists, DoneUpto
<1>3. Sides(transactions, current + 1)
  BY <1>1, <1>2 DEF Sides
<1> QED  BY <1>1, <1>2, <1>3

LEMMA SidesClosed ==
  ASSUME LInv, ClosedLists
  PROVE  /\ DOMAIN transactions = 1..Len(transactions) /\ Len(transactions) \in Nat /\ current \in 0..Len(transactions)
         /\ \A t \in DOMAIN transactions : \A i \in DOMAIN transactions[t].ops :
              (t <= current => transactions[t].ops[i].done = TRUE) /\ (t > current => transactions[t].ops[i].done = FALSE)
         /\ \A n \in DOMAIN transactions : n = current \/ n = current + 1 => Sides(transactions, n)
<1>1. DOMAIN transactions = 1..Len(transactions) /\ Len(transactions) \in Nat /\ current \in 0..Len(transactions)
  BY LInvFacts, ListedLen DEF ClosedLists, Lists
<1>2. \A t \in DOMAIN transactions : \A i \in DOMAIN transactions[t].ops :
        (t <= current => transactions[t].ops[i].done = TRUE) /\ (t > current => transactions[t].ops[i].done = FALSE)
  BY <1>1 DEF ClosedLists, Lists, DoneUpto
<1>3. ASSUME NEW n \in DOMAIN transactions, n = current \/ n = current + 1 PROVE Sides(transactions, n)
  <2> SUFFICES ASSUME NEW t \in DOMAIN transactions, NEW i \in DOMAIN transactions[t].ops
               PROVE  /\ t < n => transactions[t].ops[i].done
                      /\ t > n => ~transactions[t].ops[i].done
    BY DEF Sides
  <2>1. t \in Nat /\ current \in Nat
    BY <1>1
  <2>2. (t < n => t <= current) /\ (t > n => t > current)
    BY <1>3, <2>1
  <2> QED  BY <1>2, <2>2
<1> QED  BY <1>1, <1>2, <1>3

\* A replay of a transaction at the border, or its beginning.
LEMMA ReplayLayered ==
  ASSUME LInv, NEW n, n \in DOMAIN transactions, Sides(transactions, n), NEW redo, IsWay(redo),
         NEW ops, ops = transactions[n].ops, \A i \in DOMAIN ops : ops[i].done = ~redo,
         NEW k, k \in 0..Len(ops), NEW r, r = Replay(ops, redo, k),
         NEW us, us = Changed(transactions, n, r.ops)
  PROVE  Along(r, transactions, n, redo, k) /\ Layered(us, r.heap, edits) /\ r.ops \in Seq(AllOps)
<1>1. Along(r, transactions, n, redo, k)
  BY LInvFacts, ReplayAlong
<1>2. r.ops \in Seq(AllOps) /\ Sound(r.heap, View(us)) /\ LayersIn(View(us)) = LayersIn(View(transactions))
  BY <1>1 DEF Along, AlongOps
<1>3. PICK o \in Seq(AllOps) : o = r.ops
  BY <1>2
<1>4. us = Changed(transactions, n, o)
  BY <1>3
<1>5. ChangedTo(transactions, us, n, o)
  BY <1>4, LInvFacts, ChangedIs
<1>6. FewerThan(View(us), edits)
  BY <1>2, LInvFacts DEF FewerThan
<1> QED  BY <1>1, <1>2, <1>5, <1>6 DEF ChangedTo, Layered

LEMMA InterruptedLayered ==
  ASSUME LInv, NEW n, n \in DOMAIN transactions, Sides(transactions, n), NEW redo, IsWay(redo),
         \A i \in DOMAIN transactions[n].ops : transactions[n].ops[i].done = ~redo,
         Interrupted(n, redo)
  PROVE  Layered(transactions', heap', edits)
<1>1. PICK ops : ops = transactions[n].ops
  OBVIOUS
<1>2. PICK k \in 0..Len(ops) : heap' = Delete(Replay(ops, redo, k).heap, OwnedBy([transactions EXCEPT ![n].ops = Replay(ops, redo, k).ops]))
  BY <1>1 DEF Interrupted
<1>3. PICK r : r = Replay(ops, redo, k)
  OBVIOUS
<1>4. PICK us : us = Changed(transactions, n, r.ops)
  OBVIOUS
<1>5. Layered(us, r.heap, edits)
  BY <1>1, <1>3, <1>4, ReplayLayered
<1>6. heap' = Delete(r.heap, OwnedBy(us))
  BY <1>2, <1>3, <1>4 DEF Changed
<1>7. Layered(<<>>, Delete(r.heap, OwnedBy(us)), edits)
  BY <1>5, LInvFacts, ForgetLayered DEF Layered
<1> QED  BY <1>6, <1>7 DEF Interrupted

LEMMA UndoLayered == ASSUME LInv, Undo PROVE Layered(transactions', heap', edits)
<1>1. ClosedLists /\ current > 0
  BY DEF Undo, LInv, IInv, OpenLists
<1>2. current \in DOMAIN transactions
  BY <1>1, SidesClosed
<1>3. Sides(transactions, current) /\ IsWay(FALSE) /\ TRUE = ~FALSE
  BY <1>1, <1>2, SidesClosed DEF IsWay
<1>4. \A i \in DOMAIN transactions[current].ops : transactions[current].ops[i].done = ~FALSE
  <2>1. current <= current
    BY <1>1, SidesClosed
  <2> QED  BY <1>1, <1>2, <2>1, SidesClosed
<1>5. CASE Interrupted(current, FALSE)
  BY <1>2, <1>3, <1>4, <1>5, InterruptedLayered
<1>6. CASE ~Interrupted(current, FALSE)
  <2>1. PICK ops : ops = transactions[current].ops
    OBVIOUS
  <2>2. PICK r : r = Replay(ops, FALSE, Len(ops))
    OBVIOUS
  <2>3. PICK us : us = Changed(transactions, current, r.ops)
    OBVIOUS
  <2>4. transactions' = us /\ heap' = r.heap
    BY <1>6, <2>1, <2>2, <2>3 DEF Undo, Changed
  <2>5. Len(ops) \in 0..Len(ops)
    <3>1. ops \in Seq(AllOps)
      BY <1>2, <2>1, LInvFacts, ListedIs
    <3> QED  BY <3>1, OpsLen
  <2>6. \A i \in DOMAIN ops : ops[i].done = ~FALSE
    BY <1>4, <2>1
  <2> QED  BY <1>2, <1>3, <2>1, <2>2, <2>3, <2>4, <2>5, <2>6, ReplayLayered
<1> QED  BY <1>5, <1>6

LEMMA RedoLayered == ASSUME LInv, Redo PROVE Layered(transactions', heap', edits)
<1>1. ClosedLists /\ current < Len(transactions)
  BY DEF Redo, LInv, IInv, OpenLists
<1>2. PICK n : n = current + 1
  OBVIOUS
<1>3. n \in DOMAIN transactions /\ n > current
  BY <1>1, <1>2, SidesClosed
<1>4. Sides(transactions, n) /\ IsWay(TRUE) /\ FALSE = ~TRUE
  BY <1>1, <1>2, <1>3, SidesClosed DEF IsWay
<1>5. \A i \in DOMAIN transactions[n].ops : transactions[n].ops[i].done = ~TRUE
  BY <1>1, <1>3, SidesClosed
<1>6. CASE Interrupted(n, TRUE)
  BY <1>3, <1>4, <1>5, <1>6, InterruptedLayered
<1>7. CASE ~Interrupted(n, TRUE)
  <2>1. PICK ops : ops = transactions[n].ops
    OBVIOUS
  <2>2. PICK r : r = Replay(ops, TRUE, Len(ops))
    OBVIOUS
  <2>3. PICK us : us = Changed(transactions, n, r.ops)
    OBVIOUS
  <2>4. transactions' = us /\ heap' = r.heap
    BY <1>2, <1>7, <2>1, <2>2, <2>3 DEF Redo, Current, Changed
  <2>5. Len(ops) \in 0..Len(ops)
    <3>1. ops \in Seq(AllOps)
      BY <1>3, <2>1, LInvFacts, ListedIs
    <3> QED  BY <3>1, OpsLen
  <2>6. \A i \in DOMAIN ops : ops[i].done = ~TRUE
    BY <1>5, <2>1
  <2> QED  BY <1>3, <1>4, <2>1, <2>2, <2>3, <2>4, <2>5, <2>6, ReplayLayered
<1> QED  BY <1>2, <1>6, <1>7

LEMMA ClearLayered == ASSUME LInv, Clear PROVE Layered(transactions', heap', edits)
<1> QED  BY LInvFacts, ForgetLayered DEF Clear

LEMMA CommitLayered == ASSUME LInv, Commit PROVE Layered(transactions', heap', edits)
<1>1. OpenLists
  BY DEF Commit, LInv, IInv, ClosedLists
<1>2. PICK n : n = CloseCurrent
  OBVIOUS
<1>3. n \in 0..Len(transactions)
  BY <1>1, <1>2, Opened
<1>4. transactions' = SubSeq(transactions, 1, n)
      /\ heap' = Delete(heap, OwnedBy(SubSeq(transactions, n + 1, Len(transactions))))
  BY <1>2 DEF Commit, Keep, Before, After
<1>5. ASSUME NEW t \in DOMAIN transactions, NEW i \in DOMAIN transactions[t].ops, t > n PROVE FALSE
  <2>1. current \in Nat /\ t \in 1..(current + 1)
    BY <1>1, LInvFacts, ListedLen DEF OpenLists
  <2>2. n = current /\ Current.ops = <<>>
    BY <1>1, <1>2, <1>5, <2>1 DEF CloseCurrent
  <2>3. t = current + 1
    BY <1>5, <2>1, <2>2
  <2> QED  BY <2>2, <2>3 DEF Current
<1> QED  BY <1>3, <1>4, <1>5, LInvFacts, CutLayered DEF LInv

\* The open transaction, with other operations, is cut off.
LEMMA LastCut ==
  ASSUME LInv, OpenLists, NEW n, n = current + 1, NEW o \in Seq(AllOps), NEW us, us = Changed(transactions, n, o)
  PROVE  /\ Listed(us) /\ DOMAIN us = DOMAIN transactions /\ us[n].ops = o
         /\ current \in 0..Len(us) /\ DOMAIN transactions = 1..n /\ current \in Nat
         /\ SubSeq(us, 1, current) = SubSeq(transactions, 1, current)
         /\ OwnedBy(SubSeq(us, current + 1, Len(us))) = OwnedBy(After(n)) \cup Owned(o)
<1>0. n \in DOMAIN transactions /\ Listed(transactions)
  BY SidesOpen, LInvFacts
<1>9. ChangedTo(transactions, us, n, o)
  BY <1>0, ChangedIs
<1>10. /\ Listed(us) /\ DOMAIN us = DOMAIN transactions /\ us[n].ops = o
       /\ \A t \in DOMAIN transactions : t # n => us[t] = transactions[t]
  BY <1>9 DEF ChangedTo
<1>11. current \in Nat /\ Len(transactions) = n /\ DOMAIN transactions = 1..n /\ Len(us) = n
  <2>1. current \in Nat /\ Len(transactions) = n /\ DOMAIN transactions = 1..n
    BY <1>0, ListedLen DEF OpenLists
  <2>2. 1..Len(us) = 1..n /\ Len(us) \in Nat
    BY <1>10, <2>1, ListedLen
  <2> QED  BY <2>1, <2>2
<1>12. SubSeq(us, 1, current) = SubSeq(transactions, 1, current)
  <2>1. \A t \in 1..current : us[t] = transactions[t]
    BY <1>10, <1>11
  <2>2. current \in 0..Len(us) /\ current \in 0..Len(transactions)
    BY <1>11
  <2> QED  BY <1>0, <1>10, <2>1, <2>2, SameCut
<1>13. OwnedBy(SubSeq(us, current + 1, Len(us))) = OwnedBy(After(n)) \cup Owned(o)
  <2>1. PICK rest : rest = SubSeq(us, n, n)
    OBVIOUS
  <2>2. PICK none : none = After(n)
    OBVIOUS
  <2>3. DOMAIN rest = {1} /\ rest[1] = us[n]
    <3>1. current \in 0..Len(us) /\ current + 1 = n /\ Len(us) = n /\ n \in Nat
      BY <1>11
    <3>2. n - current = 1 /\ 1..1 = {1}
      BY <3>1
    <3>3. DOMAIN rest = 1..(Len(us) - current) /\ \A t \in 1..(Len(us) - current) : rest[t] = us[current + t]
      BY <1>10, <2>1, <3>1, CutIs
    <3> QED  BY <3>1, <3>2, <3>3
  <2>4. DOMAIN none = {}
    <3>1. n \in 0..Len(transactions) /\ Len(transactions) = n /\ 1..(n - n) = {}
      BY <1>11
    <3> QED  BY <1>0, <2>2, <3>1, CutIs DEF After
  <2>5. OwnedBy(none) = {}
    BY <2>4 DEF OwnedBy
  <2>6. OwnedBy(rest) = Owned(rest[1].ops)
    BY <2>3 DEF OwnedBy
  <2> QED  BY <1>10, <1>11, <2>1, <2>2, <2>3, <2>5, <2>6
<1>14. current \in 0..Len(us)
  BY <1>11
<1> QED  BY <1>10, <1>11, <1>12, <1>13, <1>14

LEMMA CancelLayered == ASSUME LInv, Cancel PROVE Layered(transactions', heap', edits)
<1>1. OpenLists
  BY DEF Cancel, LInv, IInv, ClosedLists
<1>2. PICK n : n = current + 1
  OBVIOUS
<1>3. n \in DOMAIN transactions /\ Sides(transactions, n) /\ IsWay(FALSE) /\ TRUE = ~FALSE
      /\ \A i \in DOMAIN transactions[n].ops : transactions[n].ops[i].done = ~FALSE
  BY <1>1, <1>2, SidesOpen DEF IsWay
<1>4. CASE Interrupted(n, FALSE)
  BY <1>3, <1>4, InterruptedLayered
<1>5. CASE ~Interrupted(n, FALSE)
  <2>1. PICK ops : ops = transactions[n].ops
    OBVIOUS
  <2>2. PICK r : r = Replay(ops, FALSE, Len(ops))
    OBVIOUS
  <2>3. PICK us : us = Changed(transactions, n, r.ops)
    OBVIOUS
  <2>4. /\ transactions' = SubSeq(transactions, 1, current)
        /\ heap' = Delete(r.heap, OwnedBy(After(n)) \cup Owned(r.ops))
    BY <1>2, <1>5, <2>1, <2>2 DEF Cancel, Current, Before
  <2>5. Len(ops) \in 0..Len(ops) /\ ops \in Seq(AllOps)
    <3>1. ops \in Seq(AllOps)
      BY <1>3, <2>1, LInvFacts, ListedIs
    <3> QED  BY <3>1, OpsLen
  <2>6. \A i \in DOMAIN ops : ops[i].done = ~FALSE
    BY <1>3, <2>1
  <2>7. Along(r, transactions, n, FALSE, Len(ops)) /\ Layered(us, r.heap, edits) /\ r.ops \in Seq(AllOps)
    BY <1>3, <2>1, <2>2, <2>3, <2>5, <2>6, ReplayLayered
  <2>8. PICK o \in Seq(AllOps) : o = r.ops
    BY <2>7
  <2>9. us = Changed(transactions, n, o)
    BY <2>3, <2>8
  <2>10. /\ Listed(us) /\ DOMAIN us = DOMAIN transactions /\ us[n].ops = o
         /\ current \in 0..Len(us) /\ DOMAIN transactions = 1..n /\ current \in Nat
         /\ SubSeq(us, 1, current) = SubSeq(transactions, 1, current)
         /\ OwnedBy(SubSeq(us, current + 1, Len(us))) = OwnedBy(After(n)) \cup Owned(o)
    BY <1>1, <1>2, <2>9, LastCut
  <2>14. ASSUME NEW t \in DOMAIN us, NEW i \in DOMAIN us[t].ops, t > current PROVE ~us[t].ops[i].done
    <3>1. t = n /\ i \in DOMAIN o /\ us[t].ops[i] = o[i]
      BY <1>2, <2>10, <2>14
    <3>2. AlongOps(ops, o, FALSE, Len(ops))
      BY <2>1, <2>7, <2>8 DEF Along
    <3>3. i \in DOMAIN ops /\ (o[i].done <=> (FALSE <=> Passed(FALSE, Len(ops), Len(ops), i)))
      BY <3>1, <3>2 DEF AlongOps
    <3>4. Passed(FALSE, Len(ops), Len(ops), i)
      <4>1. i \in 1..Len(ops) /\ Len(ops) \in Nat
        BY <2>5, <3>3, OpsLen
      <4> QED  BY <4>1 DEF Passed
    <3> QED  BY <3>1, <3>3, <3>4
  <2>16. Layered(SubSeq(us, 1, current), Delete(r.heap, OwnedBy(SubSeq(us, current + 1, Len(us)))), edits)
    BY <2>7, <2>10, <2>14, LInvFacts, CutLayered
  <2> QED  BY <2>4, <2>8, <2>10, <2>16
<1> QED  BY <1>2, <1>4, <1>5 DEF Cancel

\* The list that a new transaction follows: an open one ends before it.
LEMMA PreviousLayered ==
  ASSUME LInv, NEW n, n = (IF opened THEN CloseCurrent ELSE current), NEW ts, ts = (IF opened THEN Before(n) ELSE transactions)
  PROVE  /\ Layered(ts, heap, edits) /\ n \in 0..Len(ts)
         /\ \A t \in DOMAIN ts : \A i \in DOMAIN ts[t].ops : t > n => ~ts[t].ops[i].done
<1>1. CASE OpenLists
  <2>1. n = CloseCurrent /\ ts = SubSeq(transactions, 1, n)
    BY <1>1 DEF OpenLists, Before
  <2>2. n \in 0..Len(transactions)
    BY <1>1, <2>1, Opened
  <2>3. current \in Nat /\ Len(transactions) = current + 1 /\ DOMAIN transactions = 1..(current + 1)
        /\ Listed(transactions)
    BY <1>1, LInvFacts, ListedLen DEF OpenLists
  <2>4. Listed(ts) /\ Len(ts) = n
    <3>1. PICK cut : cut = SubSeq(transactions, 1, n)
      OBVIOUS
    <3>2. Listed(cut) /\ Len(cut) = n
      BY <2>2, <2>3, <3>1, ViewCut
    <3> QED  BY <2>1, <3>1, <3>2
  <2>5. DOMAIN ts = 1..n /\ n \in Nat /\ n <= current + 1
    BY <2>2, <2>3, <2>4, ListedLen
  <2>6. \A t \in 1..n : ts[t] = transactions[t]
    BY <2>1, <2>2, <2>3, CutIs
  <2>7. ASSUME NEW t \in DOMAIN transactions, NEW i \in DOMAIN transactions[t].ops PROVE t \in 1..n
    <3>1. CASE n = current + 1
      BY <2>3, <3>1
    <3>2. CASE n # current + 1
      <4>1. n = current /\ Current.ops = <<>>
        BY <1>1, <2>1, <3>2 DEF CloseCurrent
      <4>2. t # current + 1
        BY <2>7, <4>1 DEF Current
      <4> QED  BY <2>3, <4>1, <4>2
    <3> QED  BY <3>1, <3>2
  <2>8. View(ts) = View(transactions)
    <3>1. \A t \in DOMAIN transactions : \A i \in DOMAIN transactions[t].ops : transactions[t].ops[i].layer # NoLayer =>
            t \in DOMAIN ts /\ i \in DOMAIN ts[t].ops /\ ts[t].ops[i] = transactions[t].ops[i]
      BY <2>5, <2>6, <2>7
    <3>2. \A t \in DOMAIN ts : \A i \in DOMAIN ts[t].ops : ts[t].ops[i].layer # NoLayer =>
            t \in DOMAIN transactions /\ i \in DOMAIN transactions[t].ops /\ ts[t].ops[i] = transactions[t].ops[i]
      BY <2>3, <2>5, <2>6
    <3> QED  BY <2>3, <2>4, <3>1, <3>2, SameView
  <2>9. Layered(ts, heap, edits)
    BY <2>4, <2>8, LInvFacts DEF Layered
  <2>10. \A t \in DOMAIN ts : ~(t > n)
    BY <2>5
  <2> QED  BY <2>4, <2>5, <2>9, <2>10
<1>2. CASE ClosedLists
  <2>1. n = current /\ ts = transactions
    BY <1>2 DEF ClosedLists
  <2> QED  BY <1>2, <2>1, SidesClosed DEF LInv
<1> QED  BY <1>1, <1>2 DEF LInv, IInv

LEMMA TransactionLayered ==
  ASSUME LInv, NEW join, Transaction(join) PROVE Layered(transactions', heap', edits)
<1>1. PICK n : n = IF opened THEN CloseCurrent ELSE current
  OBVIOUS
<1>2. PICK ts : ts = IF opened THEN Before(n) ELSE transactions
  OBVIOUS
<1>3. \/ transactions' = ts /\ heap' = heap
      \/ transactions' \in AddedTo(ts, n) /\ heap' = Delete(heap, OwnedBy(SubSeq(ts, n + 1, Len(ts))))
  BY <1>1, <1>2 DEF Transaction, Joins
<1>4. /\ Layered(ts, heap, edits) /\ n \in 0..Len(ts)
      /\ \A t \in DOMAIN ts : \A i \in DOMAIN ts[t].ops : t > n => ~ts[t].ops[i].done
  BY <1>1, <1>2, PreviousLayered
<1>5. CASE transactions' = ts /\ heap' = heap
  BY <1>4, <1>5
<1>6. CASE transactions' \in AddedTo(ts, n) /\ heap' = Delete(heap, OwnedBy(SubSeq(ts, n + 1, Len(ts))))
  <2>1. PICK cut : cut = SubSeq(ts, 1, n)
    OBVIOUS
  <2>2. PICK id \in Ids : transactions' = Append(cut, [id |-> id, ops |-> <<>>])
    BY <1>6, <2>1 DEF AddedTo, NewTransaction
  <2>3. Layered(cut, heap', edits)
    BY <1>4, <1>6, <2>1, LInvFacts, CutLayered
  <2> QED  BY <2>2, <2>3, LongerLayered
<1> QED  BY <1>3, <1>5, <1>6

-----------------------------------------------------------------------------
(* The actions on containers                                               *)

LEMMA LayerOpIs ==
  ASSUME NEW c \in Containers, NEW bag \in ShapeBags, NEW insert, IsWay(insert), NEW op, op = LayerOp(c, insert, bag)
  PROVE  op \in AllOps /\ op.layer = NoLayer
<1>1. insert \in BOOLEAN
  BY DEF IsWay
<1> QED  BY <1>1 DEF AllOps, LayerOp

LEMMA FullLayerOpIs ==
  ASSUME NEW c \in Containers, NEW layer \in Layers, NEW insert, IsWay(insert),
         NEW op, op = FullLayerOp(c, insert, layer)
  PROVE  op \in AllOps
<1>1. insert \in BOOLEAN /\ (~insert) \in BOOLEAN
  BY DEF IsWay
<1>2. NoShapes \in ShapeBags
  BY BagsClosed
<1> QED  BY <1>1, <1>2 DEF AllOps, FullLayerOp

\* A layer_op is recorded, by itself or with the last one.
LEMMA ViewRecorded ==
  ASSUME NEW ts, Listed(ts), NEW n, n = Len(ts), n \in DOMAIN ts, NEW op \in AllOps, op.layer = NoLayer,
         NEW us, us = Changed(ts, n, QueueOrAppend(op, ts[n].ops))
  PROVE  Listed(us) /\ View(us) = View(ts)
<1>1. PICK ops \in Seq(AllOps) : ops = ts[n].ops
  BY ListedIs
<1>2. CASE QueueOrAppend(op, ops) = Append(ops, op)
  <2>1. us = Changed(ts, n, Append(ts[n].ops, op))
    BY <1>1, <1>2
  <2>2. AddedOp(ts, us, op)
    BY <2>1, ViewAdded
  <2> QED  BY <2>2 DEF AddedOp
<1>3. CASE QueueOrAppend(op, ops) # Append(ops, op)
  <2>1. /\ ops # <<>> /\ [Last(ops) EXCEPT !.shapes = op.shapes] = op
        /\ QueueOrAppend(op, ops) = [ops EXCEPT ![Len(ops)].shapes = Plus(@, op.shapes)]
    BY <1>3 DEF QueueOrAppend
  <2>2. PICK k \in Nat : k = Len(ops) /\ DOMAIN ops = 1..k /\ k \in DOMAIN ops
    BY <2>1, LenProperties, EmptySeq
  <2>3. ops[k] \in AllOps /\ op.shapes \in ShapeBags /\ ops[k].shapes \in ShapeBags
    <3>1. ops[k] \in AllOps
      BY <2>2, ElementOfSeq
    <3> QED  BY <3>1 DEF AllOps
  <2>4. ops[k].layer = NoLayer
    <3>1. Last(ops) = ops[k]
      BY <2>2 DEF Last
    <3>2. [ops[k] EXCEPT !.shapes = op.shapes].layer = NoLayer
      BY <2>1, <3>1
    <3> QED  BY <2>3, <3>2 DEF AllOps
  <2>5. PICK bag \in ShapeBags : bag = Plus(ops[k].shapes, op.shapes)
    BY <2>3, BagsClosed
  <2>6. PICK x : x = [ops[k] EXCEPT !.shapes = bag]
    OBVIOUS
  <2>7. x \in AllOps /\ x.layer = NoLayer
    BY <2>3, <2>4, <2>5, <2>6 DEF AllOps
  <2>8. QueueOrAppend(op, ops) = [ops EXCEPT ![k] = x]
    <3>1. QueueOrAppend(op, ops) = [ops EXCEPT ![k].shapes = Plus(@, op.shapes)]
      BY <2>1, <2>2
    <3> QED  BY <2>5, <2>6, <3>1
  <2>9. us = Changed(ts, n, [ts[n].ops EXCEPT ![k] = x])
    BY <1>1, <2>8
  <2> QED  BY <1>1, <2>2, <2>4, <2>7, <2>9, ViewOtherwise
<1> QED  BY <1>2, <1>3

LEMMA RoomForLayer ==
  ASSUME LInv PROVE FreeLayers(heap) # {}
<1>1. Kept(heap, View(transactions)) /\ LayersIn(View(transactions)) = LayersOf(transactions)
      /\ FewLayers(View(transactions))
  BY LInvFacts DEF Sound
<1> QED  BY <1>1, RoomLeft DEF FewLayers

\* What is done with the open list of operations.
LEMMA QueuedIs ==
  ASSUME LInv, NEW ops, Queue(IF opened THEN ops ELSE <<>>)
  PROVE  /\ OpenLists /\ opened => transactions' = Changed(transactions, current + 1, ops)
         /\ OpenLists => opened /\ current + 1 = Len(transactions) /\ current + 1 \in DOMAIN transactions
                         /\ current + 1 \in Nat
         /\ ClosedLists => ~opened /\ transactions' = transactions
<1>1. ASSUME OpenLists
      PROVE  opened /\ current + 1 = Len(transactions) /\ current + 1 \in DOMAIN transactions /\ current + 1 \in Nat
  <2>1. opened = TRUE /\ current \in Nat /\ Len(transactions) = current + 1
    BY <1>1 DEF OpenLists
  <2>2. DOMAIN transactions = 1..Len(transactions)
    BY LInvFacts, ListedLen
  <2> QED  BY <2>1, <2>2
<1>2. ASSUME OpenLists, opened PROVE transactions' = Changed(transactions, current + 1, ops)
  BY <1>2 DEF Queue, Changed
<1>3. ASSUME ClosedLists PROVE ~opened /\ transactions' = transactions
  BY <1>3 DEF ClosedLists, Queue
<1> QED  BY <1>1, <1>2, <1>3

LEMMA RecordedLayered ==
  ASSUME LInv, NEW op \in AllOps, op.layer = NoLayer, Record(op)
  PROVE  Listed(transactions') /\ View(transactions') = View(transactions)
<1>1. PICK ops : ops = QueueOrAppend(op, transactions[current + 1].ops)
  OBVIOUS
<1>2. Queue(IF opened THEN ops ELSE <<>>)
  BY <1>1 DEF Record, Current
<1>3. CASE OpenLists
  <2>1. PICK n : n = current + 1
    OBVIOUS
  <2>2. PICK us : us = transactions'
    OBVIOUS
  <2>3. us = Changed(transactions, n, QueueOrAppend(op, transactions[n].ops)) /\ n = Len(transactions)
        /\ n \in DOMAIN transactions
    BY <1>1, <1>2, <1>3, <2>1, <2>2, QueuedIs
  <2>4. Listed(us) /\ View(us) = View(transactions)
    BY <2>3, LInvFacts, ViewRecorded
  <2> QED  BY <2>2, <2>4
<1>4. CASE ClosedLists
  BY <1>2, <1>4, QueuedIs, LInvFacts
<1> QED  BY <1>3, <1>4 DEF LInv, IInv

LEMMA WriteLayered ==
  ASSUME LInv, NEW c \in Containers, NEW bag \in ShapeBags, heap' = SetShapes(heap, c, bag),
         NEW op \in AllOps, op.layer = NoLayer, Record(op)
  PROVE  Layered(transactions', heap', edits + 1)
<1>1. Listed(transactions') /\ View(transactions') = View(transactions)
  BY RecordedLayered
<1>2. Fills(heap, heap', c, LayersIn(View(transactions)))
  BY RoomForLayer, LInvFacts, SetShapesIs
<1>3. Sound(heap', View(transactions))
  <2>1. IsView(View(transactions)) /\ Sound(heap, View(transactions))
    BY LInvFacts, ViewIs
  <2> QED  BY <1>2, <2>1, SoundFill
<1>4. FewerThan(View(transactions), edits + 1)
  <2>1. edits \in Nat /\ edits + 1 \in Nat /\ edits <= edits + 1
    BY LInvFacts
  <2> QED  BY <2>1, LInvFacts, NotMore
<1> QED  BY <1>1, <1>3, <1>4 DEF Layered

LEMMA ContentsOf ==
  ASSUME LInv, NEW c \in Containers PROVE Contents(heap)[c] \in ShapeBags
BY LInvFacts, ContentsTyped

LEMMA InsertLayered ==
  ASSUME LInv, NEW c \in Containers, NEW s \in Shapes, Insert(c, s)
  PROVE  Layered(transactions', heap', edits')
<1>1. PICK op : op = LayerOp(c, TRUE, One(s))
  OBVIOUS
<1>2. op \in AllOps /\ op.layer = NoLayer
  BY <1>1, BagsClosed, LayerOpIs DEF IsWay
<1>3. PICK bag \in ShapeBags : bag = Plus(Contents(heap)[c], One(s))
  BY ContentsOf, BagsClosed
<1>4. Record(op) /\ heap' = SetShapes(heap, c, bag) /\ edits' = edits + 1
  BY <1>1, <1>3 DEF Insert, InsertShapes, Edited
<1> QED  BY <1>2, <1>4, WriteLayered

LEMMA EraseLayered ==
  ASSUME LInv, NEW c \in Containers, NEW s \in Shapes, Erase(c, s)
  PROVE  Layered(transactions', heap', edits')
<1>1. PICK op : op = LayerOp(c, FALSE, One(s))
  OBVIOUS
<1>2. op \in AllOps /\ op.layer = NoLayer
  BY <1>1, BagsClosed, LayerOpIs DEF IsWay
<1>3. PICK bag \in ShapeBags : bag = Minus(Contents(heap)[c], One(s))
  BY ContentsOf, BagsClosed
<1>4. Record(op) /\ heap' = SetShapes(heap, c, bag) /\ edits' = edits + 1
  BY <1>1, <1>3 DEF Erase, Edited
<1> QED  BY <1>2, <1>4, WriteLayered

LEMMA MoreLayers ==
  ASSUME NEW f, NEW g, NEW p, AddedAt(f, g, p), NEW e \in Nat, FewerThan(f, e)
  PROVE  FewerThan(g, e + 1)
<1>1. LayersIn(g) \subseteq LayersIn(f) \cup {g[p].layer}
  BY DEF LayersIn, AddedAt
<1> QED  BY <1>1, OneMore

\* A full layer operation is recorded in the open transaction.
LEMMA FullLayered ==
  ASSUME LInv, OpenLists, NEW op \in AllOps, op.layer # NoLayer,
         Queue(IF opened THEN Append(transactions[current + 1].ops, op) ELSE <<>>)
  PROVE  /\ Listed(transactions')
         /\ \E p : AddedAt(View(transactions), View(transactions'), p) /\ View(transactions')[p] = op
<1>1. PICK n : n = current + 1
  OBVIOUS
<1>2. PICK us : us = transactions'
  OBVIOUS
<1>3. PICK ops : ops = Append(transactions[n].ops, op)
  OBVIOUS
<1>4. us = Changed(transactions, n, ops) /\ n = Len(transactions) /\ n \in DOMAIN transactions
  BY <1>1, <1>2, <1>3, QueuedIs
<1>5. us = Changed(transactions, n, Append(transactions[n].ops, op))
  BY <1>3, <1>4
<1>6. AddedOp(transactions, us, op)
  BY <1>4, <1>5, LInvFacts, ViewAdded
<1> QED  BY <1>2, <1>6 DEF AddedOp

\* No more than one clear is recorded, where that is so.
LEMMA NoClearYet ==
  ASSUME LInv, OpenLists, MaxClears <= 1, Cardinality(Clears) < MaxClears
  PROVE  \A q \in DOMAIN View(transactions) : View(transactions)[q].insert /\ View(transactions)[q].done
<1>1. PICK f : f = View(transactions)
  OBVIOUS
<1>2. Listed(transactions) /\ OneClear(f)
  BY <1>1, LInvFacts DEF Sound, Good, Plan
<1>3. ASSUME NEW q \in DOMAIN f PROVE f[q].done
  <2>1. PICK t, i : t = q[1] /\ i = q[2]
    OBVIOUS
  <2>2. t \in DOMAIN transactions /\ i \in DOMAIN transactions[t].ops /\ f[q] = transactions[t].ops[i]
    BY <1>1, <1>2, <1>3, <2>1, ViewPlace
  <2> QED  BY <2>2, SidesOpen
<1>4. ASSUME NEW q \in DOMAIN f, ~f[q].insert PROVE FALSE
  <2>1. PICK t, i : t = q[1] /\ i = q[2]
    OBVIOUS
  <2>2. /\ q = <<t, i>> /\ t \in DOMAIN transactions /\ i \in DOMAIN transactions[t].ops
        /\ transactions[t].ops[i].layer # NoLayer /\ f[q] = transactions[t].ops[i]
    BY <1>1, <1>2, <1>4, <2>1, ViewPlace
  <2>3. q \in Clears
    BY <1>4, <2>2 DEF Clears
  <2>4. ASSUME NEW x \in Clears PROVE x = q
    <3>1. PICK u, j : /\ u \in DOMAIN transactions /\ j \in DOMAIN transactions[u].ops /\ x = <<u, j>>
                      /\ transactions[u].ops[j].layer # NoLayer /\ ~transactions[u].ops[j].insert
      BY <2>4 DEF Clears
    <3>2. x \in DOMAIN f /\ f[x] = transactions[u].ops[j]
      BY <1>1, <1>2, <3>1, ViewAt
    <3> QED  BY <1>2, <1>4, <3>1, <3>2 DEF OneClear
  <2>5. Clears = {q}
    BY <2>3, <2>4
  <2>6. Cardinality(Clears) = 1
    BY <2>5, FS_Singleton
  <2> QED  BY <2>6, BoundsAssumption
<1> QED  BY <1>1, <1>3, <1>4

LEMMA ClearContainerLayered ==
  ASSUME LInv, NEW c \in Containers, ClearContainer(c)
  PROVE  Layered(transactions', heap', edits')
<1>1. PICK layer : layer = heap.held[c]
  OBVIOUS
<1>2. layer # NoLayer /\ layer \in Layers /\ heap \in Heaps
  BY <1>1, LInvFacts DEF ClearContainer, Heaps
<1>3. PICK f : f = View(transactions)
  OBVIOUS
<1>4. edits' = edits + 1 /\ edits \in Nat /\ IsView(f) /\ Sound(heap, f) /\ FewerThan(f, edits)
  BY <1>3, LInvFacts, ViewIs DEF ClearContainer, Edited
<1>5. CASE OpenLists
  <2>1. PICK op : op = FullLayerOp(c, FALSE, layer)
    OBVIOUS
  <2>2. op \in AllOps /\ op.layer = layer /\ op.layer # NoLayer /\ op.obj = c /\ op.done /\ ~op.insert /\ op.owns
    <3>1. op \in AllOps
      BY <1>2, <2>1, FullLayerOpIs DEF IsWay
    <3> QED  BY <1>2, <2>1, <3>1 DEF FullLayerOp
  <2>3. Queue(IF opened THEN Append(transactions[current + 1].ops, op) ELSE <<>>)
    BY <1>1, <2>1 DEF ClearContainer, Current
  <2>4. PICK g : g = View(transactions')
    OBVIOUS
  <2>5. Listed(transactions') /\ \E p : AddedAt(f, g, p) /\ g[p] = op
    BY <1>3, <1>5, <2>2, <2>3, <2>4, FullLayered
  <2>6. PICK p : AddedAt(f, g, p) /\ g[p] = op
    BY <2>5
  <2>7. PICK i : i = heap'
    OBVIOUS
  <2>8. i = TakeLayer(heap, c, layer)
    <3>1. i = [heap EXCEPT !.held[c] = NoLayer]
      BY <1>5, <2>7 DEF ClearContainer, OpenLists
    <3> QED  BY <1>1, <3>1 DEF TakeLayer
  <2>9. Takes(heap, i, c, layer)
    BY <1>2, <2>8, TakeLayerIs
  <2>10. Kept(i, g)
    BY <1>1, <1>4, <2>2, <2>6, <2>9, KeptClear DEF Sound
  <2>11. ASSUME MaxClears <= 1 PROVE Good(i, g)
    <3>1. \A q \in DOMAIN f : f[q].insert /\ f[q].done
      BY <1>3, <1>5, <2>11, NoClearYet DEF ClearContainer
    <3>2. Good(heap, f)
      BY <1>4, <2>11 DEF Sound
    <3> QED  BY <1>1, <1>2, <1>4, <2>2, <2>6, <2>9, <3>1, <3>2, GoodClear
  <2>12. FewerThan(g, edits + 1)
    BY <1>4, <2>6, MoreLayers
  <2> QED  BY <1>4, <2>4, <2>5, <2>7, <2>10, <2>11, <2>12 DEF Layered, Sound
<1>6. CASE ClosedLists
  <2>1. opened = FALSE /\ transactions = <<>> /\ transactions' = transactions
    BY <1>6 DEF ClearContainer, CanEdit, Queue, ClosedLists
  <2>2. DOMAIN f = {}
    BY <1>3, <2>1, ViewEmpty
  <2>3. PICK d : d = Delete(heap, {layer})
    OBVIOUS
  <2>4. d \in Heaps /\ d.held = heap.held /\ d.alive = heap.alive \ {layer}
    BY <1>2, <2>3, DeleteIs DEF Deletes
  <2>5. PICK i : i = [d EXCEPT !.held[c] = NoLayer]
    OBVIOUS
  <2>6. /\ i \in Heaps /\ i.held[c] = NoLayer /\ i.alive = heap.alive \ {heap.held[c]}
        /\ \A e \in Containers : e # c => i.held[e] = heap.held[e]
    BY <1>1, <2>4, <2>5 DEF Heaps
  <2>7. Sound(i, f)
    BY <1>4, <2>2, <2>6, DropsHeld DEF Sound
  <2>8. heap' = i
    BY <1>1, <2>1, <2>3, <2>5 DEF ClearContainer
  <2>9. FewerThan(f, edits + 1)
    <3>1. edits + 1 \in Nat /\ edits <= edits + 1
      BY <1>4
    <3> QED  BY <1>4, <3>1, NotMore
  <2> QED  BY <1>3, <1>4, <2>1, <2>7, <2>8, <2>9, LInvFacts DEF Layered
<1> QED  BY <1>5, <1>6 DEF LInv, IInv

LEMMA CopyLayered ==
  ASSUME LInv, NEW c \in Containers, heap.held[c] = NoLayer, NEW bag \in ShapeBags,
         NEW new, new = NewLayer(heap, bag), heap' = [new.heap EXCEPT !.held[c] = new.layer],
         Queue(IF opened THEN Append(transactions[current + 1].ops, FullLayerOp(c, TRUE, new.layer)) ELSE <<>>)
  PROVE  Layered(transactions', heap', edits + 1)
<1>1. heap \in Heaps /\ MadeLayer(heap, bag, new)
  BY LInvFacts, RoomForLayer, NewLayerIs
<1>2. PICK l : l = new.layer /\ l \in FreeLayers(heap)
  BY <1>1 DEF MadeLayer
<1>3. l \in Layers /\ l \notin heap.alive /\ l \notin LayersOf(transactions) /\ l # NoLayer
  BY <1>2 DEF FreeLayers, Layers, NoLayer
<1>4. PICK i : i = heap'
  OBVIOUS
<1>5. i = [held |-> [heap.held EXCEPT ![c] = l], alive |-> heap.alive \cup {l},
           content |-> [heap.content EXCEPT ![l] = bag]]
  <2>1. PICK m : m = new.heap
    OBVIOUS
  <2>2. m = [held |-> heap.held, alive |-> heap.alive \cup {l}, content |-> [heap.content EXCEPT ![l] = bag]]
    BY <1>1, <1>2, <2>1 DEF MadeLayer
  <2>3. i = [m EXCEPT !.held[c] = l]
    BY <1>2, <1>4, <2>1
  <2> QED  BY <2>2, <2>3
<1>6. i \in Heaps /\ i.held[c] = l
  <2>1. [heap.held EXCEPT ![c] = l] \in [Containers -> {NoLayer} \cup Layers] /\ [heap.held EXCEPT ![c] = l][c] = l
    BY <1>1, <1>3 DEF Heaps
  <2>2. [heap.content EXCEPT ![l] = bag] \in [Layers -> ShapeBags]
    BY <1>1, <1>3 DEF Heaps
  <2>3. heap.alive \cup {l} \in SUBSET Layers
    BY <1>1, <1>3 DEF Heaps
  <2> QED  BY <1>5, <2>1, <2>2, <2>3 DEF Heaps
<1>7. PICK f : f = View(transactions)
  OBVIOUS
<1>8. /\ IsView(f) /\ Sound(heap, f) /\ FewerThan(f, edits) /\ edits \in Nat /\ LayersIn(f) = LayersOf(transactions)
      /\ Listed(transactions)
  BY <1>7, LInvFacts, ViewIs
<1>9. Fills(heap, i, c, LayersIn(f))
  <2>1. \A d \in Containers : d # c => i.held[d] = heap.held[d]
    BY <1>1, <1>5 DEF Heaps
  <2>2. i.held[c] \notin heap.alive \cup LayersIn(f) /\ i.alive = heap.alive \cup {i.held[c]}
    BY <1>3, <1>5, <1>6, <1>8
  <2> QED  BY <1>3, <1>6, <2>1, <2>2 DEF Fills
<1>10. Sound(i, f)
  BY <1>8, <1>9, SoundFill
<1>11. CASE OpenLists
  <2>1. PICK op : op = FullLayerOp(c, TRUE, l)
    OBVIOUS
  <2>2. op \in AllOps /\ op.layer = l /\ op.layer # NoLayer /\ op.obj = c /\ op.done /\ op.insert /\ ~op.owns
    <3>1. op \in AllOps
      BY <1>3, <2>1, FullLayerOpIs DEF IsWay
    <3> QED  BY <1>3, <2>1, <3>1 DEF FullLayerOp
  <2>3. Queue(IF opened THEN Append(transactions[current + 1].ops, op) ELSE <<>>)
    BY <1>2, <2>1
  <2>4. PICK g : g = View(transactions')
    OBVIOUS
  <2>5. Listed(transactions') /\ \E p : AddedAt(f, g, p) /\ g[p] = op
    BY <1>7, <1>11, <2>2, <2>3, <2>4, FullLayered
  <2>6. PICK p : AddedAt(f, g, p) /\ g[p] = op
    BY <2>5
  <2>7. Kept(i, g)
    BY <1>10, <2>6, KeptCopy DEF Sound
  <2>8. ASSUME MaxClears <= 1 PROVE Good(i, g)
    <3>1. \A q \in DOMAIN f : f[q].done
      <4> SUFFICES ASSUME NEW q \in DOMAIN f PROVE f[q].done
        OBVIOUS
      <4>1. PICK t, k : t = q[1] /\ k = q[2]
        OBVIOUS
      <4>2. t \in DOMAIN transactions /\ k \in DOMAIN transactions[t].ops /\ f[q] = transactions[t].ops[k]
        BY <1>7, <1>8, <4>1, ViewPlace
      <4> QED  BY <1>11, <4>2, SidesOpen
    <3>2. Good(heap, f)
      BY <1>8, <2>8 DEF Sound
    <3> QED  BY <1>1, <1>6, <1>8, <1>9, <2>2, <2>6, <3>1, <3>2, GoodCopy
  <2>9. FewerThan(g, edits + 1)
    BY <1>8, <2>6, MoreLayers
  <2> QED  BY <1>4, <2>4, <2>5, <2>7, <2>8, <2>9 DEF Layered, Sound
<1>12. CASE ClosedLists
  <2>1. transactions' = transactions
    BY <1>12, QueuedIs
  <2>2. FewerThan(f, edits + 1)
    <3>1. edits + 1 \in Nat /\ edits <= edits + 1
      BY <1>8
    <3> QED  BY <1>8, <3>1, NotMore
  <2> QED  BY <1>4, <1>7, <1>8, <1>10, <2>1, <2>2 DEF Layered
<1> QED  BY <1>11, <1>12 DEF LInv, IInv

LEMMA CopyFromLayered ==
  ASSUME LInv, NEW c \in Containers, NEW d \in Containers, CopyFrom(c, d)
  PROVE  Layered(transactions', heap', edits')
<1>1. PICK bag \in ShapeBags : bag = Contents(heap)[d]
  BY ContentsOf
<1>2. PICK new : new = NewLayer(heap, bag)
  OBVIOUS
<1>3. edits' = edits + 1
  BY DEF CopyFrom, Edited
<1>4. CASE /\ heap.held[c] = NoLayer
           /\ Queue(IF opened THEN Append(Current.ops, FullLayerOp(c, TRUE, new.layer)) ELSE <<>>)
           /\ heap' = [new.heap EXCEPT !.held[c] = new.layer]
  <2>1. Queue(IF opened THEN Append(transactions[current + 1].ops, FullLayerOp(c, TRUE, new.layer)) ELSE <<>>)
    BY <1>4 DEF Current
  <2>2. Layered(transactions', heap', edits + 1)
    BY <1>2, <1>4, <2>1, CopyLayered
  <2> QED  BY <1>3, <2>2
<1>5. CASE Record(LayerOp(c, TRUE, bag)) /\ heap' = InsertShapes(heap, c, bag)
  <2>1. PICK op : op = LayerOp(c, TRUE, bag)
    OBVIOUS
  <2>2. op \in AllOps /\ op.layer = NoLayer
    BY <2>1, LayerOpIs DEF IsWay
  <2>3. PICK sum \in ShapeBags : sum = Plus(Contents(heap)[c], bag)
    BY ContentsOf, BagsClosed
  <2>4. Record(op) /\ heap' = SetShapes(heap, c, sum)
    BY <1>5, <2>1, <2>3 DEF InsertShapes
  <2> QED  BY <1>3, <2>2, <2>4, WriteLayered
<1> QED  BY <1>1, <1>2, <1>4, <1>5 DEF CopyFrom

-----------------------------------------------------------------------------
(* The layers stay in order                                                *)

LEMMA LayeredInit == Init => LInv
<1> SUFFICES ASSUME Init PROVE LInv
  OBVIOUS
<1>1. PICK f : f = View(<<>>)
  OBVIOUS
<1>2. Listed(<<>>) /\ DOMAIN f = {}
  BY <1>1, ViewEmpty
<1>3. heap \in Heaps /\ heap.alive = {} /\ \A c \in Containers : heap.held[c] = NoLayer
  BY BagsClosed DEF Init, EmptyHeap, Heaps
<1>4. Kept(heap, f)
  BY <1>3 DEF Kept
<1>5. Good(heap, f)
  <2>1. Plan(f)
    BY <1>2 DEF Plan, OneContainer, OneClear, TakesCopied, ClearedBetween, DoneBefore, OwnsTakenOut
  <2>2. Awaits(heap, f)
    BY <1>2 DEF Awaits, AwaitsClear, AwaitsUndo
  <2>3. Apart(heap, f)
    BY <1>2, <1>3 DEF Apart, HeldUnowned, Alive, HeldApart
  <2> QED  BY <2>1, <2>2, <2>3 DEF Good
<1>6. FewerThan(f, 0)
  <2>1. LayersIn(f) = {}
    BY <1>2 DEF LayersIn
  <2> QED  BY <2>1, FS_EmptySet DEF FewerThan
<1>7. Layered(transactions, heap, edits)
  BY <1>1, <1>2, <1>4, <1>5, <1>6 DEF Init, Layered, Sound
<1> QED  BY <1>7, InvariantInit, BoundsAssumption DEF Init, LInv

LEMMA LayeredStep == ASSUME LInv, [Next]_vars PROVE LInv'
<1>1. IInv'
  BY InvariantStep DEF LInv
<1> DEFINE Goal == edits' \in 0..MaxEdits /\ Layered(transactions', heap', edits')
<1>2. ASSUME edits' = edits, Layered(transactions', heap', edits) PROVE Goal
  BY <1>2 DEF LInv
<1>3. ASSUME edits' = edits + 1, edits < MaxEdits, Layered(transactions', heap', edits') PROVE Goal
  BY <1>3, LInvFacts
<1> HIDE DEF Goal
<1>4. ASSUME NEW join \in {0} \cup Ids, Transaction(join) PROVE Goal
  <2>1. edits' = edits
    BY <1>4 DEF Transaction
  <2> QED  BY <1>2, <1>4, <2>1, TransactionLayered
<1>5. ASSUME Commit PROVE Goal
  <2>1. edits' = edits
    BY <1>5 DEF Commit, bounds
  <2> QED  BY <1>2, <1>5, <2>1, CommitLayered
<1>6. ASSUME Cancel PROVE Goal
  <2>1. edits' = edits
    BY <1>6 DEF Cancel, bounds
  <2> QED  BY <1>2, <1>6, <2>1, CancelLayered
<1>7. ASSUME Undo PROVE Goal
  <2>1. edits' = edits
    BY <1>7 DEF Undo, bounds
  <2> QED  BY <1>2, <1>7, <2>1, UndoLayered
<1>8. ASSUME Redo PROVE Goal
  <2>1. edits' = edits
    BY <1>8 DEF Redo, bounds
  <2> QED  BY <1>2, <1>8, <2>1, RedoLayered
<1>9. ASSUME Clear PROVE Goal
  <2>1. edits' = edits
    BY <1>9 DEF Clear, bounds
  <2> QED  BY <1>2, <1>9, <2>1, ClearLayered
<1>10. ASSUME NEW c \in Containers, NEW s \in Shapes, Insert(c, s) \/ Erase(c, s) PROVE Goal
  <2>1. edits' = edits + 1 /\ edits < MaxEdits
    BY <1>10 DEF Insert, Erase, CanEdit, Edited
  <2> QED  BY <1>3, <1>10, <2>1, InsertLayered, EraseLayered
<1>11. ASSUME NEW c \in Containers, ClearContainer(c) PROVE Goal
  <2>1. edits' = edits + 1 /\ edits < MaxEdits
    BY <1>11 DEF ClearContainer, CanEdit, Edited
  <2> QED  BY <1>3, <1>11, <2>1, ClearContainerLayered
<1>12. ASSUME NEW c \in Containers, NEW d \in Containers, CopyFrom(c, d) PROVE Goal
  <2>1. edits' = edits + 1 /\ edits < MaxEdits
    BY <1>12 DEF CopyFrom, CanEdit, Edited
  <2> QED  BY <1>3, <1>12, <2>1, CopyFromLayered
<1>13. ASSUME UNCHANGED vars PROVE Goal
  <2>1. edits' = edits /\ transactions' = transactions /\ heap' = heap
    BY <1>13 DEF vars
  <2>2. Layered(transactions', heap', edits)
    BY <2>1 DEF LInv
  <2> QED  BY <1>2, <2>1, <2>2
<1>14. Goal
  BY <1>4, <1>5, <1>6, <1>7, <1>8, <1>9, <1>10, <1>11, <1>12, <1>13 DEF Next
<1> QED  BY <1>1, <1>14 DEF LInv, Goal

LEMMA LayeredAlways == Spec => []LInv
<1>1. Init => LInv
  BY LayeredInit
<1>2. LInv /\ [Next]_vars => LInv'
  BY LayeredStep
<1> QED  BY <1>1, <1>2, PTL DEF Spec

-----------------------------------------------------------------------------
(* Every layer has one owner                                               *)

\* What an operation refers to is somewhere.
LEMMA LayersAlive ==
  ASSUME NEW f, IsView(f), NEW h, Good(h, f), NEW p, p \in DOMAIN f
  PROVE  f[p].layer \in h.alive
<1>1. f[p].layer # NoLayer /\ f[p].obj \in Containers
  BY DEF IsView, FullOps, AllOps
<1>2. \A q \in DOMAIN f : f[q].owns => f[q].layer \in h.alive
  BY DEF Good, Apart, Alive
<1>3. ASSUME h.held[f[p].obj] = f[p].layer PROVE f[p].layer \in h.alive
  BY <1>1, <1>3 DEF Good, Apart, Alive
<1>4. \A q \in DOMAIN f : f[q].owns <=> ~(f[q].insert <=> f[q].done)
  BY DEF Good, Plan, OwnsTakenOut
<1>5. \A q, k \in DOMAIN f : f[q].insert /\ ~f[k].insert /\ f[q].obj = f[k].obj /\ Prec(q, k) => f[q].layer = f[k].layer
  BY DEF Good, Plan, TakesCopied
<1>6. CASE f[p].owns
  BY <1>2, <1>6
<1>7. CASE f[p].insert /\ f[p].done
  <2>1. CASE \A k \in DOMAIN f : ~f[k].insert /\ f[k].obj = f[p].obj /\ Prec(p, k) => ~f[k].done
    BY <1>3, <1>7, <2>1 DEF Good, Awaits, AwaitsUndo
  <2>2. CASE ~\A k \in DOMAIN f : ~f[k].insert /\ f[k].obj = f[p].obj /\ Prec(p, k) => ~f[k].done
    <3>1. PICK k \in DOMAIN f : ~f[k].insert /\ f[k].obj = f[p].obj /\ Prec(p, k) /\ f[k].done
      BY <2>2
    <3>2. f[k].owns /\ f[p].layer = f[k].layer
      BY <1>4, <1>5, <1>7, <3>1
    <3> QED  BY <1>2, <3>2
  <2> QED  BY <2>1, <2>2
<1>8. CASE ~f[p].insert /\ ~f[p].done
  <2>1. CASE \A q \in DOMAIN f : f[q].insert /\ f[q].obj = f[p].obj /\ Prec(q, p) => f[q].done
    BY <1>3, <1>8, <2>1 DEF Good, Awaits, AwaitsClear
  <2>2. CASE ~\A q \in DOMAIN f : f[q].insert /\ f[q].obj = f[p].obj /\ Prec(q, p) => f[q].done
    <3>1. PICK q \in DOMAIN f : f[q].insert /\ f[q].obj = f[p].obj /\ Prec(q, p) /\ ~f[q].done
      BY <2>2
    <3>2. f[q].owns /\ f[q].layer = f[p].layer
      BY <1>4, <1>5, <1>8, <3>1
    <3> QED  BY <1>2, <3>2
  <2> QED  BY <2>1, <2>2
<1> QED  BY <1>4, <1>6, <1>7, <1>8

LEMMA OwnersAre ==
  ASSUME Listed(transactions), NEW f, f = View(transactions), NEW l \in Layers, NEW x
  PROVE  x \in Owners(l) <=> \/ x \in Containers /\ heap.held[x] = l
                             \/ x \in DOMAIN f /\ f[x].owns /\ f[x].layer = l
<1>1. l # NoLayer
  BY BoundsAssumption DEF Layers, NoLayer
<1>2. ASSUME x \in Owners(l), ~(x \in Containers /\ heap.held[x] = l)
      PROVE  x \in DOMAIN f /\ f[x].owns /\ f[x].layer = l
  <2>1. PICK t, i : /\ t \in DOMAIN transactions /\ i \in DOMAIN transactions[t].ops /\ x = <<t, i>>
                    /\ transactions[t].ops[i].owns /\ transactions[t].ops[i].layer = l
    BY <1>2 DEF Owners
  <2> QED  BY <1>1, <2>1, ViewAt
<1>3. ASSUME x \in DOMAIN f, f[x].owns, f[x].layer = l PROVE x \in Owners(l)
  <2>1. PICK t, i : t = x[1] /\ i = x[2]
    OBVIOUS
  <2>2. /\ x = <<t, i>> /\ t \in DOMAIN transactions /\ i \in DOMAIN transactions[t].ops
        /\ f[x] = transactions[t].ops[i]
    BY <1>3, <2>1, ViewPlace
  <2> QED  BY <1>3, <2>2 DEF Owners
<1>4. ASSUME x \in Containers, heap.held[x] = l PROVE x \in Owners(l)
  BY <1>4 DEF Owners
<1> QED  BY <1>2, <1>3, <1>4

LEMMA OneOwner == ASSUME LInv, MaxClears <= 1 PROVE LayersOwnedOnce
<1>1. PICK f : f = View(transactions)
  OBVIOUS
<1>2. /\ Listed(transactions) /\ IsView(f) /\ Kept(heap, f) /\ Good(heap, f) /\ heap \in Heaps
      /\ LayersIn(f) = LayersOf(transactions)
  BY <1>1, LInvFacts, ViewIs DEF Sound
<1>3. ASSUME NEW l \in heap.alive PROVE Cardinality(Owners(l)) = 1
  <2>1. l \in Layers /\ l # NoLayer
    BY <1>2, BoundsAssumption DEF Heaps, Layers, NoLayer
  <2>2. PICK owners : owners = Owners(l)
    OBVIOUS
  <2>3. \A x : x \in owners <=> \/ x \in Containers /\ heap.held[x] = l
                                \/ x \in DOMAIN f /\ f[x].owns /\ f[x].layer = l
    BY <1>1, <1>2, <2>1, <2>2, OwnersAre
  <2>4. PICK x : x \in owners
    <3>1. l \in HeldBy(heap) \/ l \in OwnedIn(f)
      BY <1>2 DEF Kept
    <3>2. CASE l \in HeldBy(heap)
      <4>1. PICK c \in Containers : heap.held[c] = l
        BY <3>2 DEF HeldBy
      <4> QED  BY <2>3, <4>1
    <3>3. CASE l \in OwnedIn(f)
      <4>1. PICK p \in DOMAIN f : f[p].owns /\ f[p].layer = l
        BY <3>3 DEF OwnedIn
      <4> QED  BY <2>3, <4>1
    <3> QED  BY <3>1, <3>2, <3>3
  <2>5. \A c, d \in Containers : heap.held[c] = l /\ heap.held[d] = l => c = d
    BY <1>2, <2>1 DEF Good, Apart, HeldApart
  <2>6. \A c \in Containers : \A p \in DOMAIN f : ~(heap.held[c] = l /\ f[p].owns /\ f[p].layer = l)
    BY <1>2 DEF Good, Apart, HeldUnowned
  <2>7. \A p, q \in DOMAIN f : f[p].owns /\ f[q].owns /\ f[p].layer = l /\ f[q].layer = l => p = q
    BY <1>2, OwnersDiffer DEF Good
  <2>8. ASSUME NEW y \in owners PROVE y = x
    BY <2>3, <2>4, <2>5, <2>6, <2>7, <2>8
  <2>9. owners = {x}
    BY <2>4, <2>8
  <2> QED  BY <2>2, <2>9, FS_Singleton
<1>4. ASSUME NEW l \in Layers \ heap.alive PROVE Owners(l) = {}
  <2>1. l # NoLayer
    BY BoundsAssumption DEF Layers, NoLayer
  <2>2. Alive(heap, f)
    BY <1>2 DEF Good, Apart
  <2>3. ASSUME NEW x \in Owners(l) PROVE FALSE
    <3>1. \/ x \in Containers /\ heap.held[x] = l
          \/ x \in DOMAIN f /\ f[x].owns /\ f[x].layer = l
      BY <1>1, <1>2, <2>3, OwnersAre
    <3> QED  BY <2>1, <2>2, <3>1 DEF Alive
  <2> QED  BY <2>3
<1>5. LayersOf(transactions) \subseteq heap.alive
  <2>1. LayersIn(f) \subseteq heap.alive
    BY <1>2, LayersAlive DEF LayersIn
  <2> QED  BY <1>2, <2>1
<1> QED  BY <1>3, <1>4, <1>5 DEF LayersOwnedOnce

(* A layer object is held by one container or owned by one operation, never *)
(* by both or none: nothing is deleted twice, used after that or leaked,    *)
(* however copies, clear (), undo, redo, cancel and dropped transactions    *)
(* pass it around (FullLayerOp, dbShapes.cc), as long as no more than one   *)
(* clear () is recorded.  With a second one it is false: the operations     *)
(* rely on the container having the layer that they took.                   *)
THEOREM LayersOwned == ASSUME MaxClears <= 1 PROVE Spec => []LayersOwnedOnce
<1>1. LInv => LayersOwnedOnce
  BY OneOwner
<1> QED  BY <1>1, LayeredAlways, PTL

-----------------------------------------------------------------------------
(* The states between the transactions                                     *)

Documents == [Containers -> ShapeBags]

LEMMA StatesCut ==
  ASSUME NEW s \in Seq(Documents), NEW n \in 0..Len(s)
  PROVE  LET cut == SubSeq(s, 1, n) IN
         cut \in Seq(Documents) /\ Len(cut) = n /\ \A t \in 1..n : cut[t] = s[t]
<1>1. PICK len \in Nat : len = Len(s) /\ DOMAIN s = 1..len
  BY LenProperties
<1>2. PICK cut : cut = SubSeq(s, 1, n)
  OBVIOUS
<1>3. n \in Nat /\ n <= len
  BY <1>1
<1>4. \A t \in 1..n : s[t] \in Documents
  <2>1. \A t \in 1..len : s[t] \in Documents
    BY <1>1, ElementOfSeq
  <2> QED  BY <1>3, <2>1
<1>5. Len(cut) = (IF 1 <= n THEN n - 1 + 1 ELSE 0) /\ cut \in Seq(Documents)
      /\ \A t \in 1..(n - 1 + 1) : cut[t] = s[1 + t - 1]
  BY <1>2, <1>3, <1>4, SubSeqProperties
<1>6. Len(cut) = n /\ \A t \in 1..n : cut[t] = s[t]
  BY <1>3, <1>5
<1> QED  BY <1>2, <1>5, <1>6

LEMMA StatesLonger ==
  ASSUME NEW s \in Seq(Documents), NEW d \in Documents
  PROVE  LET new == s \o <<d>> IN
         /\ new \in Seq(Documents) /\ Len(new) = Len(s) + 1 /\ new[Len(s) + 1] = d
         /\ \A t \in 1..Len(s) : new[t] = s[t]
<1>1. PICK one : one = <<d>>
  OBVIOUS
<1>2. one \in Seq(Documents) /\ Len(one) = 1 /\ one[1] = d
  BY <1>1
<1>3. PICK len \in Nat : len = Len(s)
  BY LenProperties
<1>4. PICK new : new = s \o one
  OBVIOUS
<1>5. /\ new \in Seq(Documents) /\ Len(new) = len + 1
      /\ \A i \in 1..(len + 1) : new[i] = IF i <= len THEN s[i] ELSE one[i - len]
  BY <1>2, <1>3, <1>4, ConcatProperties
<1>6. new[len + 1] = d /\ \A t \in 1..len : new[t] = s[t]
  BY <1>2, <1>3, <1>5
<1> QED  BY <1>1, <1>3, <1>4, <1>5, <1>6

\* One for each place between the transactions; none after the open one yet.
Recorded(s, ts, n, open) ==
  s \in Seq(Documents) /\ Len(s) = IF open THEN n + 1 ELSE Len(ts) + 1
SInv == LInv /\ Recorded(states, transactions, current, opened) /\ begun \in Nat

LEMMA OneState ==
  ASSUME NEW d \in Documents, NEW n, n = 0, NEW open
  PROVE  Recorded(<<d>>, <<>>, n, open)
BY DEF Recorded

LEMMA SInvFacts ==
  ASSUME SInv
  PROVE  /\ states \in Seq(Documents) /\ Contents(heap) \in Documents
         /\ OpenLists => opened = TRUE /\ current \in Nat /\ Len(transactions) = current + 1 /\ Len(states) = current + 1
         /\ ClosedLists => opened = FALSE /\ current \in 0..Len(transactions) /\ Len(transactions) \in Nat
                           /\ Len(states) = Len(transactions) + 1
         /\ OpenLists \/ ClosedLists
<1>1. LInv /\ states \in Seq(Documents) /\ Len(states) = IF opened THEN current + 1 ELSE Len(transactions) + 1
  BY DEF SInv, Recorded
<1>2. Contents(heap) \in Documents
  BY <1>1, LInvFacts, ContentsTyped DEF Documents
<1>3. ASSUME OpenLists
      PROVE  opened = TRUE /\ current \in Nat /\ Len(transactions) = current + 1 /\ Len(states) = current + 1
  BY <1>1, <1>3 DEF OpenLists
<1>4. ASSUME ClosedLists
      PROVE  opened = FALSE /\ current \in 0..Len(transactions) /\ Len(transactions) \in Nat
             /\ Len(states) = Len(transactions) + 1
  BY <1>1, <1>4, SidesClosed DEF ClosedLists
<1> QED  BY <1>1, <1>2, <1>3, <1>4 DEF LInv, IInv

\* The contents after a step.
LEMMA NextDocument ==
  ASSUME LInv' PROVE Contents(heap') \in Documents
<1>1. PICK h : h = heap'
  OBVIOUS
<1>2. h \in Heaps
  BY <1>1 DEF LInv, Layered, Sound, Kept
<1> QED  BY <1>1, <1>2, ContentsTyped DEF Documents

\* The list of transactions that a new one follows, and the states before it.
Previous(n) == IF opened THEN Before(n) ELSE transactions
StatesTo(n) ==
  IF opened THEN SubSeq(states, 1, current + 1) \o (IF n > current THEN <<Contents(heap)>> ELSE <<>>)
  ELSE states

\* A transaction that is open ends here; nothing is after it.
LEMMA Ended ==
  ASSUME SInv, OpenLists
  PROVE  /\ CloseCurrent \in Nat /\ CloseCurrent \in 0..Len(transactions) /\ Len(Before(CloseCurrent)) = CloseCurrent
         /\ StatesTo(CloseCurrent) \in Seq(Documents) /\ Len(StatesTo(CloseCurrent)) = CloseCurrent + 1
<1>1. PICK n : n = CloseCurrent
  OBVIOUS
<1>2. n \in 0..Len(transactions) /\ (n = current \/ n = current + 1)
  BY <1>1, Opened
<1>3. opened = TRUE /\ current \in Nat /\ Len(transactions) = current + 1 /\ Len(states) = current + 1
      /\ states \in Seq(Documents) /\ Contents(heap) \in Documents
  BY SInvFacts
<1>4. n \in Nat
  BY <1>2, <1>3
<1>5. Len(Before(n)) = n
  <2>1. Listed(transactions)
    BY LInvFacts DEF SInv
  <2> QED  BY <1>2, <2>1, CutIs DEF Before
<1>6. PICK cut : cut = SubSeq(states, 1, current + 1)
  OBVIOUS
<1>7. cut \in Seq(Documents) /\ Len(cut) = current + 1
  <2>1. current + 1 \in 0..Len(states)
    BY <1>3
  <2> QED  BY <1>3, <1>6, <2>1, StatesCut
<1>8. StatesTo(n) \in Seq(Documents) /\ Len(StatesTo(n)) = n + 1
  <2>1. CASE n = current
    <3>1. StatesTo(n) = cut \o <<>>
      BY <1>3, <1>6, <2>1 DEF StatesTo
    <3>2. StatesTo(n) = cut
      BY <1>7, <3>1, ConcatEmptySeq
    <3> QED  BY <1>7, <2>1, <3>2
  <2>2. CASE n = current + 1
    <3>1. StatesTo(n) = cut \o <<Contents(heap)>>
      BY <1>3, <1>6, <2>2 DEF StatesTo
    <3>2. cut \o <<Contents(heap)>> \in Seq(Documents) /\ Len(cut \o <<Contents(heap)>>) = Len(cut) + 1
      BY <1>3, <1>7, StatesLonger
    <3> QED  BY <1>7, <2>2, <3>1, <3>2
  <2> QED  BY <1>2, <2>1, <2>2
<1> QED  BY <1>1, <1>2, <1>4, <1>5, <1>8

LEMMA TransactionStates ==
  ASSUME SInv, NEW join, Transaction(join)
  PROVE  Recorded(states', transactions', current', opened')
<1>1. PICK n : n = IF opened THEN CloseCurrent ELSE current
  OBVIOUS
<1>2. PICK ts : ts = Previous(n)
  OBVIOUS
<1>3. PICK sts : sts = StatesTo(n)
  OBVIOUS
<1>4. /\ opened' = TRUE
      /\ \/ n = Len(ts) /\ current' = Len(ts) - 1 /\ states' = SubSeq(sts, 1, Len(ts))
         \/ current' = n /\ states' = SubSeq(sts, 1, n + 1)
  BY <1>1, <1>2, <1>3 DEF Transaction, Previous, StatesTo
<1>5. PICK len \in Nat : len = Len(ts) /\ n \in 0..len /\ sts \in Seq(Documents) /\ Len(sts) = len + 1
  <2>1. CASE OpenLists
    <3>1. n = CloseCurrent /\ ts = Before(n)
      BY <1>1, <1>2, <2>1 DEF OpenLists, Previous
    <3>2. n \in Nat /\ Len(ts) = n /\ sts \in Seq(Documents) /\ Len(sts) = n + 1
      BY <1>3, <2>1, <3>1, Ended
    <3> QED  BY <3>2
  <2>2. CASE ClosedLists
    <3>1. n = current /\ ts = transactions /\ sts = states
      BY <1>1, <1>2, <1>3, <2>2 DEF ClosedLists, Previous, StatesTo
    <3> QED  BY <2>2, <3>1, SInvFacts
  <2> QED  BY <2>1, <2>2, SInvFacts
<1>6. CASE n = Len(ts) /\ current' = Len(ts) - 1 /\ states' = SubSeq(sts, 1, Len(ts))
  <2>1. SubSeq(sts, 1, len) \in Seq(Documents) /\ Len(SubSeq(sts, 1, len)) = len
    <3>1. len \in 0..Len(sts)
      BY <1>5
    <3> QED  BY <1>5, <3>1, StatesCut
  <2>2. PICK s : s = states'
    OBVIOUS
  <2>3. s \in Seq(Documents) /\ Len(s) = current' + 1
    BY <1>5, <1>6, <2>1, <2>2
  <2> QED  BY <1>4, <2>2, <2>3 DEF Recorded
<1>7. CASE current' = n /\ states' = SubSeq(sts, 1, n + 1)
  <2>1. n + 1 \in 0..Len(sts)
    BY <1>5
  <2>2. SubSeq(sts, 1, n + 1) \in Seq(Documents) /\ Len(SubSeq(sts, 1, n + 1)) = n + 1
    BY <1>5, <2>1, StatesCut
  <2> QED  BY <1>4, <1>7, <2>2 DEF Recorded
<1> QED  BY <1>4, <1>6, <1>7

LEMMA CommitStates ==
  ASSUME SInv, Commit
  PROVE  Recorded(states', transactions', current', opened')
<1>1. OpenLists
  BY DEF Commit, SInv, LInv, IInv, ClosedLists
<1>2. PICK n : n = CloseCurrent
  OBVIOUS
<1>3. opened = TRUE /\ current \in Nat /\ Len(states) = current + 1 /\ states \in Seq(Documents)
  BY <1>1, SInvFacts
<1>4. n \in Nat /\ Len(Before(n)) = n /\ StatesTo(n) \in Seq(Documents) /\ Len(StatesTo(n)) = n + 1
      /\ (n = current \/ n = current + 1)
  BY <1>1, <1>2, Ended, Opened
<1>5. opened' = FALSE /\ transactions' = Before(n)
      /\ states' = IF n > current THEN SubSeq(states, 1, current + 1) \o <<Contents(heap)>> ELSE states
  BY <1>2 DEF Commit, Keep
<1>6. states' \in Seq(Documents) /\ Len(states') = n + 1
  <2>1. CASE n > current
    <3>1. states' = StatesTo(n)
      BY <1>3, <1>5, <2>1 DEF StatesTo
    <3> QED  BY <1>4, <3>1
  <2>2. CASE ~(n > current)
    <3>1. n = current /\ states' = states
      BY <1>3, <1>4, <1>5, <2>2
    <3> QED  BY <1>3, <3>1
  <2> QED  BY <2>1, <2>2
<1> QED  BY <1>4, <1>5, <1>6 DEF Recorded

LEMMA InterruptedStates ==
  ASSUME LInv', NEW n, NEW redo, Interrupted(n, redo)
  PROVE  Recorded(states', transactions', current', opened')
<1>1. states' = <<Contents(heap')>> /\ transactions' = <<>> /\ current' = 0
  BY DEF Interrupted
<1>2. PICK d \in Documents : d = Contents(heap')
  BY NextDocument
<1>3. Recorded(<<d>>, <<>>, current', opened')
  BY <1>1, OneState
<1> QED  BY <1>1, <1>2, <1>3

LEMMA ClearStates ==
  ASSUME LInv', Clear
  PROVE  Recorded(states', transactions', current', opened')
<1>1. states' = <<Contents(heap')>> /\ transactions' = <<>> /\ current' = 0
  BY DEF Clear
<1>2. PICK d \in Documents : d = Contents(heap')
  BY NextDocument
<1>3. Recorded(<<d>>, <<>>, current', opened')
  BY <1>1, OneState
<1> QED  BY <1>1, <1>2, <1>3

\* A transaction in the list is replayed, the list keeps its length.
LEMMA ReplayStates ==
  ASSUME SInv, NEW n \in DOMAIN transactions, NEW ops, transactions' = [transactions EXCEPT ![n].ops = ops],
         LInv', states' = states, opened = FALSE, opened' = FALSE
  PROVE  Recorded(states', transactions', current', opened')
<1>1. Len(transactions') = Len(transactions)
  <2>1. PICK us : us = transactions'
    OBVIOUS
  <2>2. DOMAIN us = DOMAIN transactions
    BY <2>1
  <2>3. Listed(us) /\ Listed(transactions)
    BY <2>1 DEF SInv, LInv, Layered
  <2>4. 1..Len(us) = 1..Len(transactions) /\ Len(us) \in Nat /\ Len(transactions) \in Nat
    BY <2>2, <2>3, ListedLen
  <2> QED  BY <2>1, <2>4
<1> QED  BY <1>1 DEF SInv, Recorded

LEMMA UndoStates ==
  ASSUME SInv, LInv', Undo
  PROVE  Recorded(states', transactions', current', opened')
<1>1. CASE Interrupted(current, FALSE)
  BY <1>1, InterruptedStates
<1>2. CASE ~Interrupted(current, FALSE)
  <2>1. PICK ops : transactions' = [transactions EXCEPT ![current].ops = ops]
    BY <1>2 DEF Undo
  <2>2. opened = FALSE /\ opened' = FALSE /\ states' = states
    BY <1>2, SInvFacts DEF Undo
  <2>3. current \in DOMAIN transactions
    <3>1. ClosedLists /\ current > 0
      BY <2>2, SInvFacts DEF Undo
    <3> QED  BY <3>1, SidesClosed DEF SInv
  <2> QED  BY <2>1, <2>2, <2>3, ReplayStates
<1> QED  BY <1>1, <1>2

LEMMA RedoStates ==
  ASSUME SInv, LInv', Redo
  PROVE  Recorded(states', transactions', current', opened')
<1>1. CASE Interrupted(current + 1, TRUE)
  BY <1>1, InterruptedStates
<1>2. CASE ~Interrupted(current + 1, TRUE)
  <2>1. PICK ops : transactions' = [transactions EXCEPT ![current + 1].ops = ops]
    BY <1>2 DEF Redo
  <2>2. opened = FALSE /\ opened' = FALSE /\ states' = states
    BY <1>2, SInvFacts DEF Redo
  <2>3. current + 1 \in DOMAIN transactions
    <3>1. ClosedLists /\ current < Len(transactions)
      BY <2>2, SInvFacts DEF Redo
    <3> QED  BY <3>1, SidesClosed DEF SInv
  <2> QED  BY <2>1, <2>2, <2>3, ReplayStates
<1> QED  BY <1>1, <1>2

LEMMA CancelStates ==
  ASSUME SInv, LInv', Cancel
  PROVE  Recorded(states', transactions', current', opened')
<1>1. CASE Interrupted(current + 1, FALSE)
  BY <1>1, InterruptedStates
<1>2. CASE ~Interrupted(current + 1, FALSE)
  <2>1. opened = TRUE /\ opened' = FALSE /\ states' = states /\ current' = current /\ transactions' = Before(current)
    BY <1>2, SInvFacts DEF Cancel, ClosedLists
  <2>2. current \in Nat /\ Len(transactions) = current + 1 /\ Len(states) = current + 1 /\ states \in Seq(Documents)
    BY <2>1, SInvFacts
  <2>3. Len(Before(current)) = current
    <3>1. current \in 0..Len(transactions)
      BY <2>2
    <3> QED  BY <3>1, LInvFacts, CutIs DEF SInv, Before
  <2> QED  BY <2>1, <2>2, <2>3 DEF Recorded
<1> QED  BY <1>1, <1>2

\* A change of a container.
LEMMA EditedStates ==
  ASSUME SInv, LInv', CanEdit, NEW ops, Queue(ops), Edited
  PROVE  Recorded(states', transactions', current', opened')
<1>1. /\ opened' = opened /\ current' = current
      /\ states' = IF opened THEN states ELSE <<Contents(heap')>>
  BY DEF Edited
<1>2. CASE OpenLists
  <2>1. opened' = TRUE /\ states' = states /\ states \in Seq(Documents) /\ Len(states) = current + 1
    BY <1>1, <1>2, SInvFacts
  <2> QED  BY <1>1, <2>1 DEF Recorded
<1>3. CASE ClosedLists
  <2>1. opened' = FALSE /\ opened = FALSE /\ transactions = <<>> /\ transactions' = <<>>
    BY <1>1, <1>3, SInvFacts DEF CanEdit, Queue
  <2>2. PICK d \in Documents : d = Contents(heap')
    BY NextDocument
  <2>3. <<d>> \in Seq(Documents) /\ Len(<<d>>) = 1 /\ Len(<<>>) = 0
    OBVIOUS
  <2> QED  BY <1>1, <2>1, <2>2, <2>3 DEF Recorded
<1> QED  BY <1>2, <1>3, SInvFacts

LEMMA SInvInit == Init => SInv
<1> SUFFICES ASSUME Init PROVE SInv
  OBVIOUS
<1>1. LInv
  BY LayeredInit
<1>2. PICK d \in Documents : d = Contents(heap)
  BY <1>1, LInvFacts, ContentsTyped DEF Documents
<1>3. Recorded(<<d>>, <<>>, current, opened)
  BY OneState DEF Init
<1> QED  BY <1>1, <1>2, <1>3 DEF Init, SInv

LEMMA SInvStep == ASSUME SInv, [Next]_vars PROVE SInv'
<1>1. LInv'
  BY LayeredStep DEF SInv
<1> DEFINE Goal == Recorded(states', transactions', current', opened') /\ begun' \in Nat
<1>2. ASSUME begun' = begun, Recorded(states', transactions', current', opened') PROVE Goal
  BY <1>2 DEF SInv
<1> HIDE DEF Goal
<1>3. ASSUME NEW join \in {0} \cup Ids, Transaction(join) PROVE Goal
  <2>1. begun' = begun + 1
    BY <1>3 DEF Transaction
  <2> QED  BY <1>3, <2>1, TransactionStates DEF Goal, SInv
<1>4. ASSUME Commit PROVE Goal
  <2>1. begun' = begun
    BY <1>4 DEF Commit, bounds
  <2> QED  BY <1>2, <1>4, <2>1, CommitStates
<1>5. ASSUME Cancel PROVE Goal
  <2>1. begun' = begun
    BY <1>5 DEF Cancel, bounds
  <2> QED  BY <1>1, <1>2, <1>5, <2>1, CancelStates
<1>6. ASSUME Undo PROVE Goal
  <2>1. begun' = begun
    BY <1>6 DEF Undo, bounds
  <2> QED  BY <1>1, <1>2, <1>6, <2>1, UndoStates
<1>7. ASSUME Redo PROVE Goal
  <2>1. begun' = begun
    BY <1>7 DEF Redo, bounds
  <2> QED  BY <1>1, <1>2, <1>7, <2>1, RedoStates
<1>8. ASSUME Clear PROVE Goal
  <2>1. begun' = begun
    BY <1>8 DEF Clear, bounds
  <2> QED  BY <1>1, <1>2, <1>8, <2>1, ClearStates
<1>9. ASSUME CanEdit, NEW ops, Queue(ops), Edited PROVE Goal
  <2>1. begun' = begun
    BY <1>9 DEF Edited
  <2> QED  BY <1>1, <1>2, <1>9, <2>1, EditedStates
<1>10. ASSUME NEW c \in Containers, NEW s \in Shapes, Insert(c, s) \/ Erase(c, s) PROVE Goal
  <2>1. CanEdit /\ Edited /\ \E ops : Queue(ops)
    BY <1>10 DEF Insert, Erase, Record
  <2> QED  BY <1>9, <2>1
<1>11. ASSUME NEW c \in Containers, ClearContainer(c) PROVE Goal
  <2>1. CanEdit /\ Edited /\ \E ops : Queue(ops)
    BY <1>11 DEF ClearContainer
  <2> QED  BY <1>9, <2>1
<1>12. ASSUME NEW c \in Containers, NEW d \in Containers, CopyFrom(c, d) PROVE Goal
  <2>1. CanEdit /\ Edited /\ \E ops : Queue(ops)
    BY <1>12 DEF CopyFrom, Record
  <2> QED  BY <1>9, <2>1
<1>13. ASSUME UNCHANGED vars PROVE Goal
  <2>1. begun' = begun /\ states' = states /\ transactions' = transactions /\ current' = current /\ opened' = opened
    BY <1>13 DEF vars
  <2> QED  BY <1>2, <2>1 DEF SInv
<1>14. Goal
  BY <1>3, <1>4, <1>5, <1>6, <1>7, <1>8, <1>10, <1>11, <1>12, <1>13 DEF Next
<1> QED  BY <1>1, <1>14 DEF SInv, Goal

LEMMA TypesHold == SInv => TypeOK
<1> SUFFICES ASSUME SInv PROVE TypeOK
  OBVIOUS
<1>1. heap \in Heaps /\ Listed(transactions) /\ edits \in Nat
  BY LInvFacts DEF SInv
<1>2. current \in 0..Len(transactions) /\ opened \in BOOLEAN /\ (opened => current = Len(transactions) - 1)
  <2>1. CASE OpenLists
    BY <2>1, SInvFacts
  <2>2. CASE ClosedLists
    BY <2>2, SInvFacts
  <2> QED  BY <2>1, <2>2, SInvFacts
<1>3. states \in Seq([Containers -> ShapeBags]) /\ begun \in Nat
  BY SInvFacts DEF SInv, Documents
<1> QED  BY <1>1, <1>2, <1>3 DEF TypeOK, Heaps, Listed

LEMMA SInvAlways == Spec => []SInv
<1>1. Init => SInv
  BY SInvInit
<1>2. SInv /\ [Next]_vars => SInv'
  BY SInvStep
<1> QED  BY <1>1, <1>2, PTL DEF Spec

\* Every variable of db::Manager and the containers keeps its type, whatever is
\* recorded and replayed; an open transaction is the last of the list (dbManager.cc).
THEOREM TypeCorrect == Spec => []TypeOK
<1> QED  BY SInvAlways, TypesHold, PTL

-----------------------------------------------------------------------------
(* Shapes are put in and taken out                                         *)

Below(a, b) == \A s \in Shapes : a[s] <= b[s]

LEMMA BagsExtensional ==
  ASSUME NEW a \in ShapeBags, NEW b \in ShapeBags, \A s \in Shapes : a[s] = b[s]
  PROVE  a = b
BY DEF ShapeBags

LEMMA EachFinite ==
  ASSUME NEW bag \in ShapeBags
  PROVE  IsFiniteSet(Each(bag))
<1>1. PICK f : f = [s \in Shapes |-> {s} \X (1..bag[s])]
  OBVIOUS
<1>2. PICK T : T = {{s} \X (1..bag[s]) : s \in Shapes}
  OBVIOUS
<1>3. f \in Surjection(Shapes, T)
  <2>1. f \in [Shapes -> T]
    BY <1>1, <1>2
  <2>2. \A t \in T : \E s \in Shapes : f[s] = t
    BY <1>1, <1>2
  <2> QED  BY <2>1, <2>2 DEF Surjection
<1>4. IsFiniteSet(T)
  BY <1>3, FS_Surjection, RoomAssumption
<1>5. ASSUME NEW t \in T PROVE IsFiniteSet(t)
  <2>1. PICK s \in Shapes : t = {s} \X (1..bag[s])
    BY <1>2
  <2>2. bag[s] \in Nat /\ 1 \in Int
    BY DEF ShapeBags
  <2>3. IsFiniteSet(1..bag[s])
    <3>1. bag[s] \in Int
      BY <2>2
    <3> QED  BY <3>1, FS_Interval
  <2>4. IsFiniteSet({s})
    BY FS_Singleton
  <2> QED  BY <2>1, <2>3, <2>4, FS_Product
<1>6. IsFiniteSet(UNION T)
  BY <1>4, <1>5, FS_UNION
<1> QED  BY <1>2, <1>6 DEF Each

LEMMA EachIs ==
  ASSUME NEW bag \in ShapeBags, NEW s \in Shapes, NEW n
  PROVE  <<s, n>> \in Each(bag) <=> n \in 1..bag[s]
<1>1. ASSUME <<s, n>> \in Each(bag) PROVE n \in 1..bag[s]
  <2>1. PICK t \in Shapes : <<s, n>> \in {t} \X (1..bag[t])
    BY <1>1 DEF Each
  <2> QED  BY <2>1
<1>2. ASSUME n \in 1..bag[s] PROVE <<s, n>> \in Each(bag)
  <2>1. <<s, n>> \in {s} \X (1..bag[s])
    BY <1>2
  <2> QED  BY <2>1 DEF Each
<1> QED  BY <1>1, <1>2

\* Not more shapes than some of them are those.
LEMMA TotalTells ==
  ASSUME NEW a \in ShapeBags, NEW b \in ShapeBags, Below(a, b), Total(b) <= Total(a)
  PROVE  a = b
<1>1. PICK A : A = Each(a)
  OBVIOUS
<1>2. PICK B : B = Each(b)
  OBVIOUS
<1>3. \A s \in Shapes : a[s] \in Nat /\ b[s] \in Nat
  BY DEF ShapeBags
<1>4. A \subseteq B
  <2>1. ASSUME NEW x \in A PROVE x \in B
    <3>1. PICK s \in Shapes : x \in {s} \X (1..a[s])
      BY <1>1, <2>1 DEF Each
    <3>2. PICK n \in 1..a[s] : x = <<s, n>>
      BY <3>1
    <3>3. n \in 1..b[s]
      BY <1>3, <3>2 DEF Below
    <3> QED  BY <1>2, <3>2, <3>3, EachIs
  <2> QED  BY <2>1
<1>5. IsFiniteSet(B) /\ IsFiniteSet(A)
  BY <1>1, <1>2, EachFinite
<1>6. Cardinality(B) <= Cardinality(A)
  BY <1>1, <1>2 DEF Total
<1>7. A = B
  <2>1. Cardinality(A) <= Cardinality(B) /\ (Cardinality(B) = Cardinality(A) => B = A)
    BY <1>4, <1>5, FS_Subset
  <2>2. Cardinality(A) \in Nat /\ Cardinality(B) \in Nat
    BY <1>5, FS_CardinalityType
  <2> QED  BY <1>6, <2>1, <2>2
<1>8. ASSUME NEW s \in Shapes PROVE a[s] = b[s]
  <2>1. \A n : n \in 1..a[s] <=> n \in 1..b[s]
    BY <1>1, <1>2, <1>7, EachIs
  <2>2. CASE b[s] = 0
    BY <1>3, <2>2 DEF Below
  <2>3. CASE b[s] # 0
    <3>1. b[s] \in 1..b[s]
      BY <1>3, <2>3
    <3>2. b[s] \in 1..a[s]
      BY <2>1, <3>1
    <3> QED  BY <1>3, <3>2 DEF Below
  <2> QED  BY <2>2, <2>3
<1> QED  BY <1>8, BagsExtensional

LEMMA BagAt ==
  ASSUME NEW a \in ShapeBags, NEW b \in ShapeBags, NEW s \in Shapes
  PROVE  /\ a[s] \in Nat /\ b[s] \in Nat /\ NoShapes[s] = 0 /\ Plus(a, b)[s] = a[s] + b[s]
         /\ Minus(a, b)[s] = IF a[s] > b[s] THEN a[s] - b[s] ELSE 0
BY DEF ShapeBags, NoShapes, Plus, Minus

\* What layer_op::erase leaves, of shapes that are all there.
LEMMA ErasedIs ==
  ASSUME NEW a \in ShapeBags, NEW b \in ShapeBags, Below(b, a)
  PROVE  (IF Total(a) <= Total(b) THEN NoShapes ELSE Minus(a, b)) = Minus(a, b)
<1>1. CASE Total(a) <= Total(b)
  <2>1. a = b
    BY <1>1, TotalTells
  <2>2. \A s \in Shapes : Minus(a, b)[s] = NoShapes[s]
    BY <2>1, BagAt
  <2>3. Minus(a, b) = NoShapes
    BY <2>2, BagsClosed, BagsExtensional
  <2> QED  BY <2>3
<1> QED  BY <1>1

LEMMA BagsBack ==
  ASSUME NEW a \in ShapeBags, NEW b \in ShapeBags
  PROVE  /\ Below(b, Plus(a, b)) /\ Minus(Plus(a, b), b) = a
         /\ Below(b, a) => Plus(Minus(a, b), b) = a
<1>1. Plus(a, b) \in ShapeBags /\ Minus(a, b) \in ShapeBags
  BY BagsClosed
<1>2. Below(b, Plus(a, b))
  BY BagAt DEF Below
<1>3. Minus(Plus(a, b), b) = a
  <2>1. \A s \in Shapes : Minus(Plus(a, b), b)[s] = a[s]
    <3> SUFFICES ASSUME NEW s \in Shapes PROVE Minus(Plus(a, b), b)[s] = a[s]
      OBVIOUS
    <3>1. a[s] \in Nat /\ b[s] \in Nat /\ Plus(a, b)[s] = a[s] + b[s]
      BY BagAt
    <3>2. Minus(Plus(a, b), b)[s] = IF Plus(a, b)[s] > b[s] THEN Plus(a, b)[s] - b[s] ELSE 0
      BY <1>1, BagAt
    <3> QED  BY <3>1, <3>2
  <2> QED  BY <1>1, <2>1, BagsClosed, BagsExtensional
<1>4. ASSUME Below(b, a) PROVE Plus(Minus(a, b), b) = a
  <2>1. \A s \in Shapes : Plus(Minus(a, b), b)[s] = a[s]
    <3> SUFFICES ASSUME NEW s \in Shapes PROVE Plus(Minus(a, b), b)[s] = a[s]
      OBVIOUS
    <3>1. a[s] \in Nat /\ b[s] \in Nat /\ Minus(a, b)[s] = IF a[s] > b[s] THEN a[s] - b[s] ELSE 0
      BY BagAt
    <3>2. Plus(Minus(a, b), b)[s] = Minus(a, b)[s] + b[s]
      BY <1>1, BagAt
    <3>3. b[s] <= a[s]
      BY <1>4 DEF Below
    <3> QED  BY <3>1, <3>2, <3>3
  <2> QED  BY <1>1, <2>1, BagsClosed, BagsExtensional
<1> QED  BY <1>2, <1>3, <1>4

\* Two changes of the same kind, as one.
LEMMA BagsTwice ==
  ASSUME NEW d \in ShapeBags, NEW a \in ShapeBags, NEW b \in ShapeBags
  PROVE  /\ Plus(Plus(d, a), b) = Plus(d, Plus(a, b))
         /\ Below(a, d) /\ Below(b, Minus(d, a)) =>
              Below(Plus(a, b), d) /\ Minus(Minus(d, a), b) = Minus(d, Plus(a, b))
<1>1. Plus(d, a) \in ShapeBags /\ Plus(a, b) \in ShapeBags /\ Minus(d, a) \in ShapeBags
  BY BagsClosed
<1>2. Plus(Plus(d, a), b) = Plus(d, Plus(a, b))
  <2>1. \A s \in Shapes : Plus(Plus(d, a), b)[s] = Plus(d, Plus(a, b))[s]
    <3> SUFFICES ASSUME NEW s \in Shapes PROVE Plus(Plus(d, a), b)[s] = Plus(d, Plus(a, b))[s]
      OBVIOUS
    <3>1. Plus(Plus(d, a), b)[s] = Plus(d, a)[s] + b[s] /\ Plus(d, Plus(a, b))[s] = d[s] + Plus(a, b)[s]
      BY <1>1, BagAt
    <3>2. Plus(d, a)[s] = d[s] + a[s] /\ Plus(a, b)[s] = a[s] + b[s] /\ d[s] \in Nat /\ a[s] \in Nat /\ b[s] \in Nat
      BY BagAt
    <3> QED  BY <3>1, <3>2
  <2> QED  BY <1>1, <2>1, BagsClosed, BagsExtensional
<1>3. ASSUME Below(a, d), Below(b, Minus(d, a)), NEW s \in Shapes
      PROVE  Plus(a, b)[s] <= d[s] /\ Minus(Minus(d, a), b)[s] = Minus(d, Plus(a, b))[s]
  <2>1. /\ Minus(Minus(d, a), b)[s] = IF Minus(d, a)[s] > b[s] THEN Minus(d, a)[s] - b[s] ELSE 0
        /\ Minus(d, Plus(a, b))[s] = IF d[s] > Plus(a, b)[s] THEN d[s] - Plus(a, b)[s] ELSE 0
    BY <1>1, BagAt
  <2>2. /\ Minus(d, a)[s] = IF d[s] > a[s] THEN d[s] - a[s] ELSE 0
        /\ Plus(a, b)[s] = a[s] + b[s] /\ d[s] \in Nat /\ a[s] \in Nat /\ b[s] \in Nat
    BY BagAt
  <2>3. a[s] <= d[s] /\ b[s] <= Minus(d, a)[s]
    BY <1>3 DEF Below
  <2> QED  BY <2>1, <2>2, <2>3
<1>4. ASSUME Below(a, d), Below(b, Minus(d, a))
      PROVE  Below(Plus(a, b), d) /\ Minus(Minus(d, a), b) = Minus(d, Plus(a, b))
  <2>1. \A s \in Shapes : Minus(Minus(d, a), b)[s] = Minus(d, Plus(a, b))[s]
    BY <1>3, <1>4
  <2>2. Minus(Minus(d, a), b) \in ShapeBags /\ Minus(d, Plus(a, b)) \in ShapeBags
    BY <1>1, BagsClosed
  <2>3. Minus(Minus(d, a), b) = Minus(d, Plus(a, b))
    BY <2>1, <2>2, BagsExtensional
  <2>4. Below(Plus(a, b), d)
    BY <1>3, <1>4 DEF Below
  <2> QED  BY <2>3, <2>4
<1> QED  BY <1>2, <1>4

-----------------------------------------------------------------------------
(* What the operations do to the contents of the containers                *)

LEMMA ContentsAt ==
  ASSUME NEW h, NEW c \in Containers
  PROVE  /\ Contents(h)[c] = IF h.held[c] = NoLayer THEN NoShapes ELSE h.content[h.held[c]]
         /\ h.held[c] = NoLayer => Contents(h)[c] = NoShapes
         /\ h.held[c] # NoLayer => Contents(h)[c] = h.content[h.held[c]]
BY DEF Contents

LEMMA SameContents ==
  ASSUME NEW h \in Heaps, NEW d \in Documents, \A c \in Containers : Contents(h)[c] = d[c]
  PROVE  Contents(h) = d
<1>1. Contents(h) \in Documents
  BY ContentsTyped DEF Documents
<1> QED  BY <1>1 DEF Documents

\* Only the contents of c become others.
Becomes(d, e, c, bag) == e[c] = bag /\ \A b \in Containers : b # c => e[b] = d[b]

LEMMA WriteContents ==
  ASSUME NEW f, NEW h \in Heaps, Apart(h, f), NEW c \in Containers, NEW taken, NEW bag,
         NEW i, Fills(h, i, c, taken), Writes(h, i, c, bag)
  PROVE  Becomes(Contents(h), Contents(i), c, bag)
<1>1. Contents(i)[c] = bag
  BY ContentsAt DEF Fills, Writes
<1>2. ASSUME NEW b \in Containers, b # c PROVE Contents(i)[b] = Contents(h)[b]
  <2>1. i.held[b] = h.held[b]
    BY <1>2 DEF Fills
  <2>2. CASE h.held[b] = NoLayer
    BY <2>1, <2>2, ContentsAt
  <2>3. CASE h.held[b] # NoLayer
    <3>1. h.held[b] \in Layers /\ h.held[b] \in h.alive
      BY <2>3 DEF Heaps, Apart, Alive
    <3>2. h.held[b] # i.held[c]
      BY <1>2, <2>3, <3>1 DEF Fills, Apart, HeldApart
    <3>3. i.content[h.held[b]] = h.content[h.held[b]]
      BY <3>1, <3>2 DEF Writes
    <3> QED  BY <2>1, <2>3, <3>3, ContentsAt
  <2> QED  BY <2>2, <2>3
<1> QED  BY <1>1, <1>2 DEF Becomes

LEMMA TakeContents ==
  ASSUME NEW h \in Heaps, NEW c \in Containers, NEW i, Takes(h, i, c, h.held[c]), i.content = h.content
  PROVE  Becomes(Contents(h), Contents(i), c, NoShapes)
<1>1. Contents(i)[c] = NoShapes
  BY ContentsAt DEF Takes
<1>2. ASSUME NEW b \in Containers, b # c PROVE Contents(i)[b] = Contents(h)[b]
  <2>1. i.held[b] = h.held[b]
    BY <1>2 DEF Takes
  <2> QED  BY <2>1, ContentsAt
<1> QED  BY <1>1, <1>2 DEF Becomes

LEMMA PutContents ==
  ASSUME NEW h \in Heaps, HeldApart(h), NEW c \in Containers, NEW layer \in Layers, NEW i,
         Puts(h, i, c, layer), Preserves(h, i, Replaced(h, c, layer))
  PROVE  Becomes(Contents(h), Contents(i), c, h.content[layer])
<1>1. layer # NoLayer
  BY BoundsAssumption DEF Layers, NoLayer
<1>2. layer \notin Replaced(h, c, layer)
  BY DEF Replaced
<1>3. Contents(i)[c] = h.content[layer]
  BY <1>1, <1>2, ContentsAt DEF Puts, Preserves
<1>4. ASSUME NEW b \in Containers, b # c PROVE Contents(i)[b] = Contents(h)[b]
  <2>1. i.held[b] = h.held[b]
    BY <1>4 DEF Puts
  <2>2. CASE h.held[b] = NoLayer
    BY <2>1, <2>2, ContentsAt
  <2>3. CASE h.held[b] # NoLayer
    <3>1. h.held[b] \in Layers /\ h.held[b] \notin Replaced(h, c, layer)
      BY <1>4, <2>3 DEF Heaps, HeldApart, Replaced
    <3>2. i.content[h.held[b]] = h.content[h.held[b]]
      BY <3>1 DEF Preserves
    <3> QED  BY <2>1, <2>3, <3>2, ContentsAt
  <2> QED  BY <2>2, <2>3
<1> QED  BY <1>3, <1>4 DEF Becomes

\* Layers that operations own are deleted: no container has them.
LEMMA DeleteContents ==
  ASSUME NEW h \in Heaps, NEW i \in Heaps, i.held = h.held, NEW ls, Preserves(h, i, ls),
         \A c \in Containers : h.held[c] \notin ls \/ h.held[c] = NoLayer
  PROVE  Contents(i) = Contents(h)
<1>1. ASSUME NEW c \in Containers PROVE Contents(i)[c] = Contents(h)[c]
  <2>1. CASE h.held[c] = NoLayer
    BY <2>1, ContentsAt
  <2>2. CASE h.held[c] # NoLayer
    <3>1. h.held[c] \in Layers \ ls
      BY <2>2 DEF Heaps
    <3>2. i.content[h.held[c]] = h.content[h.held[c]]
      BY <3>1 DEF Preserves
    <3> QED  BY <2>2, <3>2, ContentsAt
  <2> QED  BY <2>1, <2>2
<1>2. Contents(h) \in Documents
  BY ContentsTyped DEF Documents
<1> QED  BY <1>1, <1>2, SameContents

-----------------------------------------------------------------------------
(* The documents between the operations                                    *)

\* What an operation did when it was made.
Does(op, d, e) ==
  /\ \A c \in Containers : c # op.obj => e[c] = d[c]
  /\ op.layer = NoLayer /\ op.insert => e[op.obj] = Plus(d[op.obj], op.shapes)
  /\ op.layer = NoLayer /\ ~op.insert => Below(op.shapes, d[op.obj]) /\ e[op.obj] = Minus(d[op.obj], op.shapes)
  /\ op.layer # NoLayer /\ op.insert => d[op.obj] = NoShapes
  /\ op.layer # NoLayer /\ ~op.insert => e[op.obj] = NoShapes

\* A document for each place: the one after the operation there.
Papers == [Places -> Documents]
Prior(p) == <<p[1], p[2] - 1>>

\* The layer that an operation owns has the shapes it will be put back with.
Stashed(w, f, h) ==
  \A p \in DOMAIN f : f[p].owns =>
    h.content[f[p].layer] = (IF f[p].insert THEN w[p] ELSE w[Prior(p)])[f[p].obj]

LEMMA BecomesIs ==
  ASSUME NEW h \in Heaps, NEW i \in Heaps, NEW c \in Containers, NEW bag, Becomes(Contents(h), Contents(i), c, bag),
         NEW d \in Documents, d[c] = bag, \A b \in Containers : b # c => d[b] = Contents(h)[b]
  PROVE  Contents(i) = d
<1>1. \A b \in Containers : Contents(i)[b] = d[b]
  BY DEF Becomes
<1> QED  BY <1>1, SameContents

\* A layer_op, one way or the other.
LEMMA ShapesContents ==
  ASSUME NEW f, NEW h \in Heaps, Apart(h, f), FreeLayers(h) # {},
         NEW op \in AllOps, op.layer = NoLayer, NEW redo, IsWay(redo),
         NEW d \in Documents, NEW e \in Documents, Does(op, d, e), Contents(h) = IF redo THEN d ELSE e
  PROVE  /\ Contents(Perform(h, op, op.insert = redo)) = IF redo THEN e ELSE d
         /\ \E bag : Writes(h, Perform(h, op, op.insert = redo), op.obj, bag)
<1>1. PICK c \in Containers : c = op.obj
  BY DEF AllOps
<1>2. PICK b \in ShapeBags : b = op.shapes
  BY DEF AllOps
<1>3. d[c] \in ShapeBags /\ e[c] \in ShapeBags
  BY DEF Documents
<1>4. PICK i : i = Perform(h, op, op.insert = redo)
  OBVIOUS
<1>5. ASSUME NEW to \in Documents, NEW bag, bag = to[c], bag \in ShapeBags, i = SetShapes(h, c, bag),
             \A x \in Containers : x # c => to[x] = Contents(h)[x]
      PROVE  Contents(i) = to /\ \E x : Writes(h, i, op.obj, x)
  <2>1. Fills(h, i, c, LayersOf(transactions)) /\ Writes(h, i, c, bag)
    BY <1>5, SetShapesIs
  <2>2. i \in Heaps
    BY <2>1 DEF Fills
  <2>3. Becomes(Contents(h), Contents(i), c, bag)
    BY <2>1, WriteContents
  <2>4. Contents(i) = to
    BY <1>5, <2>2, <2>3, BecomesIs
  <2> QED  BY <1>1, <2>1, <2>4
<1>6. \A x \in Containers : x # c => e[x] = d[x]
  BY <1>1 DEF Does
<1>7. CASE op.insert /\ redo
  <2>1. e[c] = Plus(Contents(h)[c], b)
    BY <1>1, <1>2, <1>7 DEF Does
  <2>2. i = SetShapes(h, c, e[c])
    BY <1>1, <1>2, <1>4, <1>7, <2>1 DEF Perform, InsertShapes, IsWay, AllOps
  <2> QED  BY <1>3, <1>4, <1>5, <1>6, <1>7, <2>2
<1>8. CASE ~op.insert /\ ~redo
  <2>1. Below(b, d[c]) /\ e[c] = Minus(d[c], b)
    BY <1>1, <1>2, <1>8 DEF Does
  <2>2. d[c] = Plus(Contents(h)[c], b)
    BY <1>3, <1>8, <2>1, BagsBack
  <2>3. i = SetShapes(h, c, d[c])
    BY <1>1, <1>2, <1>4, <1>8, <2>2 DEF Perform, InsertShapes, IsWay, AllOps
  <2> QED  BY <1>3, <1>4, <1>5, <1>6, <1>8, <2>3
<1>9. CASE op.insert /\ ~redo
  <2>1. e[c] = Plus(d[c], b) /\ Contents(h)[c] = e[c]
    BY <1>1, <1>2, <1>9 DEF Does
  <2>2. Below(b, e[c]) /\ Minus(e[c], b) = d[c]
    BY <1>3, <2>1, BagsBack
  <2>3. (IF Total(e[c]) <= Total(b) THEN NoShapes ELSE Minus(e[c], b)) = d[c]
    BY <1>3, <2>2, ErasedIs
  <2>4. i = SetShapes(h, c, d[c])
    BY <1>1, <1>2, <1>4, <1>9, <2>1, <2>3 DEF Perform, EraseShapes, IsWay, AllOps
  <2> QED  BY <1>3, <1>4, <1>5, <1>6, <1>9, <2>4
<1>10. CASE ~op.insert /\ redo
  <2>1. Below(b, d[c]) /\ e[c] = Minus(d[c], b) /\ Contents(h)[c] = d[c]
    BY <1>1, <1>2, <1>10 DEF Does
  <2>2. (IF Total(d[c]) <= Total(b) THEN NoShapes ELSE Minus(d[c], b)) = e[c]
    BY <1>3, <2>1, ErasedIs
  <2>3. i = SetShapes(h, c, e[c])
    BY <1>1, <1>2, <1>4, <1>10, <2>1, <2>2 DEF Perform, EraseShapes, IsWay, AllOps
  <2> QED  BY <1>3, <1>4, <1>5, <1>6, <1>10, <2>3
<1> QED  BY <1>7, <1>8, <1>9, <1>10

LEMMA StashWritten ==
  ASSUME NEW w, NEW f, NEW h \in Heaps, IsView(f), Apart(h, f), Stashed(w, f, h), NEW c \in Containers,
         NEW i, Fills(h, i, c, LayersIn(f)), NEW bag, Writes(h, i, c, bag)
  PROVE  Stashed(w, f, i)
<1> SUFFICES ASSUME NEW p \in DOMAIN f, f[p].owns
             PROVE  i.content[f[p].layer] = h.content[f[p].layer]
  BY DEF Stashed
<1>1. f[p].layer \in Layers /\ f[p].layer \in LayersIn(f)
  BY DEF IsView, FullOps, AllOps, LayersIn
<1>2. h.held[c] # f[p].layer
  BY DEF Apart, HeldUnowned
<1>3. f[p].layer # i.held[c]
  BY <1>1, <1>2 DEF Fills
<1> QED  BY <1>1, <1>3 DEF Writes

\* A full layer operation puts its layer in, with what it has stashed.
LEMMA PutDocument ==
  ASSUME NEW f, IsView(f), NEW h \in Heaps, Good(h, f), NEW p, NEW redo, Border(f, p, redo), f[p].insert <=> redo,
         NEW g, Turned(f, g, p, redo), g[p].owns <=> (f[p].owns /\ h.held[f[p].obj] = f[p].layer),
         NEW i, i = PutLayer(h, f[p].obj, f[p].layer),
         NEW w \in Papers, Stashed(w, f, h), w[p] \in Documents, w[Prior(p)] \in Documents,
         Does(f[p], w[Prior(p)], w[p]), Contents(h) = IF redo THEN w[Prior(p)] ELSE w[p]
  PROVE  Contents(i) = (IF redo THEN w[p] ELSE w[Prior(p)]) /\ Stashed(w, g, i)
<1>1. p \in DOMAIN f
  BY DEF Border
<1>2. PICK c \in Containers, layer \in Layers : c = f[p].obj /\ layer = f[p].layer
  BY <1>1 DEF IsView, FullOps, AllOps
<1>3. PutLayerWell(h, f, p)
  BY PutWell
<1>4. Puts(h, i, c, layer) /\ Preserves(h, i, Replaced(h, c, layer))
  BY <1>2, PutLayerIs
<1>5. i \in Heaps /\ HeldApart(h)
  BY <1>4 DEF Puts, Good, Apart
<1>6. Becomes(Contents(h), Contents(i), c, h.content[layer])
  BY <1>4, <1>5, PutContents
<1>7. h.content[layer] = (IF redo THEN w[p] ELSE w[Prior(p)])[c]
  BY <1>1, <1>2, <1>3 DEF PutLayerWell, Stashed
<1>8. \A b \in Containers : b # c => w[p][b] = w[Prior(p)][b]
  BY <1>2 DEF Does
<1>9. Contents(i) = (IF redo THEN w[p] ELSE w[Prior(p)])
  <2>1. CASE redo
    BY <1>5, <1>6, <1>7, <1>8, <2>1, BecomesIs
  <2>2. CASE ~redo
    BY <1>5, <1>6, <1>7, <1>8, <2>2, BecomesIs
  <2> QED  BY <2>1, <2>2
<1>10. Stashed(w, g, i)
  <2> SUFFICES ASSUME NEW q \in DOMAIN g, g[q].owns
               PROVE  i.content[g[q].layer] = (IF g[q].insert THEN w[q] ELSE w[Prior(q)])[g[q].obj]
    BY DEF Stashed
  <2>1. q # p
    BY <1>3 DEF PutLayerWell
  <2>2. q \in DOMAIN f /\ g[q] = f[q]
    BY <2>1 DEF Turned
  <2>3. f[q].layer \in Layers
    BY <2>2 DEF IsView, FullOps, AllOps
  <2>4. f[q].layer \notin Replaced(h, c, layer)
    BY <1>2, <1>3, <2>2 DEF PutLayerWell, Replaced
  <2>5. i.content[f[q].layer] = h.content[f[q].layer]
    BY <1>4, <2>3, <2>4 DEF Preserves
  <2> QED  BY <2>2, <2>5 DEF Stashed
<1> QED  BY <1>9, <1>10

\* It takes its layer out, and stashes what there is.
LEMMA TakeDocument ==
  ASSUME NEW f, IsView(f), NEW h \in Heaps, Good(h, f), NEW p, NEW redo, Border(f, p, redo), f[p].insert <=> ~redo,
         NEW g, Turned(f, g, p, redo), NEW i, i = TakeLayer(h, f[p].obj, f[p].layer),
         NEW w \in Papers, Stashed(w, f, h), w[p] \in Documents, w[Prior(p)] \in Documents,
         Does(f[p], w[Prior(p)], w[p]), Contents(h) = IF redo THEN w[Prior(p)] ELSE w[p]
  PROVE  Contents(i) = (IF redo THEN w[p] ELSE w[Prior(p)]) /\ Stashed(w, g, i)
<1>1. p \in DOMAIN f
  BY DEF Border
<1>2. PICK c \in Containers, layer \in Layers : c = f[p].obj /\ layer = f[p].layer /\ layer # NoLayer
  BY <1>1 DEF IsView, FullOps, AllOps
<1>3. h.held[c] = layer
  BY <1>2, TakeWell
<1>4. Takes(h, i, c, h.held[c]) /\ i.content = h.content
  BY <1>2, <1>3, TakeLayerIs
<1>5. i \in Heaps
  BY <1>4 DEF Takes
<1>6. Becomes(Contents(h), Contents(i), c, NoShapes)
  BY <1>4, TakeContents
<1>7. \A b \in Containers : b # c => w[p][b] = w[Prior(p)][b]
  BY <1>2 DEF Does
<1>8. Contents(i) = (IF redo THEN w[p] ELSE w[Prior(p)])
  <2>1. CASE redo
    <3>1. w[p][c] = NoShapes
      BY <1>2, <2>1 DEF Does
    <3> QED  BY <1>5, <1>6, <1>7, <2>1, <3>1, BecomesIs
  <2>2. CASE ~redo
    <3>1. w[Prior(p)][c] = NoShapes
      BY <1>2, <2>2 DEF Does
    <3> QED  BY <1>5, <1>6, <1>7, <2>2, <3>1, BecomesIs
  <2> QED  BY <2>1, <2>2
<1>9. Stashed(w, g, i)
  <2> SUFFICES ASSUME NEW q \in DOMAIN g, g[q].owns
               PROVE  i.content[g[q].layer] = (IF g[q].insert THEN w[q] ELSE w[Prior(q)])[g[q].obj]
    BY DEF Stashed
  <2>1. CASE q # p
    <3>1. q \in DOMAIN f /\ g[q] = f[q]
      BY <2>1 DEF Turned
    <3> QED  BY <1>4, <3>1 DEF Stashed
  <2>2. CASE q = p
    <3>1. g[p].layer = layer /\ g[p].obj = c /\ (g[p].insert <=> ~redo)
      BY <1>2 DEF Turned
    <3>2. Contents(h)[c] = h.content[layer]
      BY <1>2, <1>3, ContentsAt
    <3>3. i.content[layer] = (IF redo THEN w[Prior(p)] ELSE w[p])[c]
      BY <1>4, <3>2
    <3>4. CASE redo
      BY <2>2, <3>1, <3>3, <3>4
    <3>5. CASE ~redo
      BY <2>2, <3>1, <3>3, <3>5
    <3> QED  BY <3>4, <3>5
  <2> QED  BY <2>1, <2>2
<1> QED  BY <1>8, <1>9

LEMMA FullContents ==
  ASSUME NEW f, IsView(f), NEW h \in Heaps, Good(h, f), NEW p, NEW redo, IsWay(redo), Border(f, p, redo),
         NEW g, Turned(f, g, p, redo), NEW op, op = f[p], g[p].owns = OwnsAfter(h, op, op.insert = redo),
         NEW w \in Papers, Stashed(w, f, h), w[p] \in Documents, w[Prior(p)] \in Documents,
         Does(op, w[Prior(p)], w[p]), Contents(h) = IF redo THEN w[Prior(p)] ELSE w[p]
  PROVE  LET i == Perform(h, op, op.insert = redo) IN
         Contents(i) = (IF redo THEN w[p] ELSE w[Prior(p)]) /\ Stashed(w, g, i)
<1>1. p \in DOMAIN f
  BY DEF Border
<1>2. op \in AllOps /\ op.layer # NoLayer /\ op.insert \in BOOLEAN
  BY <1>1 DEF IsView, FullOps, AllOps
<1>3. PICK i : i = Perform(h, op, op.insert = redo)
  OBVIOUS
<1>4. Does(f[p], w[Prior(p)], w[p])
  OBVIOUS
<1>5. CASE op.insert = redo
  <2>1. i = PutLayer(h, f[p].obj, f[p].layer) /\ (f[p].insert <=> redo)
    BY <1>2, <1>3, <1>5 DEF Perform
  <2>2. g[p].owns <=> (f[p].owns /\ h.held[f[p].obj] = f[p].layer)
    BY <1>2, <1>5 DEF OwnsAfter
  <2> QED  BY <1>3, <1>4, <2>1, <2>2, PutDocument
<1>6. CASE op.insert # redo
  <2>1. i = TakeLayer(h, f[p].obj, f[p].layer) /\ (f[p].insert <=> ~redo)
    BY <1>2, <1>3, <1>6 DEF Perform, IsWay
  <2> QED  BY <1>3, <1>4, <2>1, TakeDocument
<1> QED  BY <1>5, <1>6

-----------------------------------------------------------------------------
(* The documents of a replay                                               *)

SameKind(a, b) == a.obj = b.obj /\ a.insert = b.insert /\ a.shapes = b.shapes /\ a.layer = b.layer

LEMMA DoesSame ==
  ASSUME NEW a, NEW b, SameKind(a, b), NEW d, NEW e, Does(a, d, e)
  PROVE  Does(b, d, e)
BY DEF SameKind, Does

Chain(w, ts) ==
  w \in Papers /\ \A t \in DOMAIN ts : \A i \in DOMAIN ts[t].ops : Does(ts[t].ops[i], w[<<t, i - 1>>], w[<<t, i>>])

Between(w, n, i, d, e) == d = w[<<n, i - 1>>] /\ e = w[<<n, i>>]

LEMMA StepContents ==
  ASSUME NEW ts, Listed(ts), LayersOf(ts) = LayersOf(transactions), NEW n, n \in DOMAIN ts,
         NEW ops, ops = ts[n].ops, NEW i, i \in DOMAIN ops, NEW redo, IsWay(redo),
         NEW h \in Heaps, Good(h, View(ts)), FreeLayers(h) # {},
         ops[i].layer # NoLayer => Border(View(ts), <<n, i>>, redo),
         NEW w \in Papers, Stashed(w, View(ts), h), NEW d, NEW e, Between(w, n, i, d, e),
         Does(ops[i], d, e), Contents(h) = IF redo THEN d ELSE e,
         NEW s, s = Step([heap |-> h, ops |-> ops], i, redo), NEW us, us = Changed(ts, n, s.ops)
  PROVE  /\ Contents(s.heap) = IF redo THEN e ELSE d
         /\ Stashed(w, View(us), s.heap)
         /\ \A j \in DOMAIN ops : SameKind(s.ops[j], ops[j])
<1>1. ops \in Seq(AllOps) /\ IsView(View(ts)) /\ LayersIn(View(ts)) = LayersOf(transactions) /\ n \in Nat
  BY ListedIs, ViewIs
<1>2. PICK op : op = ops[i]
  OBVIOUS
<1>3. op \in AllOps
  BY <1>2, ListedIs
<1>4. PICK x : x = Performed(h, op, redo)
  OBVIOUS
<1>5. s.ops = [ops EXCEPT ![i] = x] /\ s.heap = Perform(h, op, op.insert = redo) /\ x \in AllOps
  BY <1>1, <1>2, <1>4, StepOps
<1>6. x.layer = op.layer /\ x.obj = op.obj /\ x.insert = op.insert /\ x.shapes = op.shapes /\ x.done = redo
      /\ x.owns = OwnsAfter(h, op, op.insert = redo)
  BY <1>4 DEF Performed
<1>7. \A j \in DOMAIN ops : SameKind(s.ops[j], ops[j])
  <2>1. PICK to : to = s.ops
    OBVIOUS
  <2>2. to[i] = x /\ \A j \in DOMAIN ops : j # i => to[j] = ops[j]
    BY <1>1, <1>5, <2>1, OpChanged
  <2> QED  BY <1>2, <1>6, <2>1, <2>2 DEF SameKind
<1>8. us = Changed(ts, n, [ts[n].ops EXCEPT ![i] = x])
  BY <1>5
<1>9. d \in Documents /\ e \in Documents
  <2>1. i \in 1..Len(ops) /\ Len(ops) \in Nat
    BY <1>1, OpsLen
  <2>2. <<n, i - 1>> \in Places /\ <<n, i>> \in Places
    BY <1>1, <2>1 DEF Places
  <2> QED  BY <2>2 DEF Papers, Between
<1>10. Does(op, d, e)
  BY <1>2
<1>11. Apart(h, View(ts))
  BY DEF Good
<1>12. CASE op.layer = NoLayer
  <2>1. View(us) = View(ts)
    BY <1>2, <1>5, <1>6, <1>8, <1>12, ViewOtherwise
  <2>2. Fills(h, s.heap, op.obj, LayersIn(View(ts))) /\ op.obj \in Containers
    <3>1. op.obj \in Containers
      BY <1>3 DEF AllOps
    <3>2. PICK way : way = (op.insert = redo)
      OBVIOUS
    <3>3. Fills(h, Perform(h, op, way), op.obj, LayersOf(transactions))
      BY <1>3, <1>12, ShapesStep
    <3> QED  BY <1>1, <1>5, <3>1, <3>2, <3>3
  <2>3. Contents(s.heap) = (IF redo THEN e ELSE d) /\ \E bag : Writes(h, s.heap, op.obj, bag)
    BY <1>3, <1>5, <1>9, <1>10, <1>11, <1>12, ShapesContents
  <2>4. Stashed(w, View(ts), s.heap)
    BY <1>1, <1>11, <2>2, <2>3, StashWritten
  <2> QED  BY <1>7, <2>1, <2>3, <2>4
<1>13. CASE op.layer # NoLayer
  <2>1. PICK p : p = <<n, i>>
    OBVIOUS
  <2>2. p \in DOMAIN View(ts) /\ View(ts)[p] = op
    BY <1>2, <1>13, <2>1, ViewAt
  <2>3. Turned(View(ts), View(us), p, redo) /\ View(us)[p] = x
    BY <1>2, <1>5, <1>6, <1>8, <1>13, <2>1, ViewTurned
  <2>4. PICK f, g : f = View(ts) /\ g = View(us)
    OBVIOUS
  <2>5. Border(f, p, redo)
    BY <1>2, <1>13, <2>1, <2>4
  <2>6. w[p] = e /\ w[Prior(p)] = d
    BY <2>1 DEF Prior, Between
  <2>7. g[p].owns = OwnsAfter(h, op, op.insert = redo) /\ op = f[p]
    BY <1>6, <2>2, <2>3, <2>4
  <2>8. PICK j : j = Perform(h, op, op.insert = redo)
    OBVIOUS
  <2>9. Turned(f, g, p, redo) /\ IsView(f) /\ Good(h, f) /\ Stashed(w, f, h)
    BY <1>1, <2>3, <2>4
  <2>10. w[p] \in Documents /\ w[Prior(p)] \in Documents /\ Does(op, w[Prior(p)], w[p])
         /\ Contents(h) = IF redo THEN w[Prior(p)] ELSE w[p]
    BY <1>9, <1>10, <2>6
  <2>11. Contents(j) = (IF redo THEN w[p] ELSE w[Prior(p)]) /\ Stashed(w, g, j)
    BY <2>5, <2>7, <2>8, <2>9, <2>10, FullContents
  <2> QED  BY <1>5, <1>7, <2>4, <2>6, <2>8, <2>11
<1> QED  BY <1>12, <1>13

\* A replay has come to r after k operations of the n-th transaction.
DocAlong(r, ts, n, redo, k, w) ==
  /\ \A i \in DOMAIN ts[n].ops : SameKind(r.ops[i], ts[n].ops[i])
  /\ Contents(r.heap) = w[<<n, IF redo THEN k ELSE Len(ts[n].ops) - k>>]
  /\ Stashed(w, View(Changed(ts, n, r.ops)), r.heap)

LEMMA DocAlongStep ==
  ASSUME MaxClears <= 1, NEW ts, Listed(ts), LayersOf(ts) = LayersOf(transactions), FewLayers(View(ts)),
         NEW n, n \in DOMAIN ts, NEW redo, IsWay(redo), Sides(ts, n),
         NEW k, k \in 1..Len(ts[n].ops), NEW r, Along(r, ts, n, redo, k - 1),
         NEW w, Chain(w, ts), DocAlong(r, ts, n, redo, k - 1, w)
  PROVE  DocAlong(Step(r, Turn(redo, Len(ts[n].ops), k), redo), ts, n, redo, k, w)
<1>1. PICK i : i = Turn(redo, Len(ts[n].ops), k)
  OBVIOUS
<1>2. PICK len \in Nat : len = Len(ts[n].ops) /\ DOMAIN ts[n].ops = 1..len /\ k \in 1..len
  <2>1. PICK o \in Seq(AllOps) : o = ts[n].ops
    BY ListedIs
  <2> QED  BY <2>1, OpsLen
<1>3. PICK ops : ops = r.ops
  OBVIOUS
<1>4. PICK h : h = r.heap
  OBVIOUS
<1>5. AlongOps(ts[n].ops, ops, redo, k - 1) /\ r = [heap |-> h, ops |-> ops]
  BY <1>3, <1>4 DEF Along
<1>6. ops \in Seq(AllOps) /\ DOMAIN ops = 1..len
  BY <1>2, <1>5 DEF AlongOps
<1>7. PICK us : us = Changed(ts, n, ops)
  OBVIOUS
<1>8. Sound(h, View(us)) /\ LayersIn(View(us)) = LayersIn(View(ts))
  BY <1>3, <1>4, <1>7 DEF Along
<1>9. ChangedTo(ts, us, n, ops)
  BY <1>6, <1>7, ChangedIs
<1>10. Listed(us) /\ n \in DOMAIN us /\ us[n].ops = ops
  BY <1>9 DEF ChangedTo
<1>11. i \in 1..len
  BY <1>1, <1>2, TurnIs
<1>12. LayersOf(us) = LayersOf(transactions) /\ LayersIn(View(us)) = LayersOf(transactions)
  BY <1>8, <1>10, ViewIs
<1>13. FreeLayers(h) # {}
  <2>1. Kept(h, View(us)) /\ IsFiniteSet(LayersIn(View(us))) /\ Cardinality(LayersIn(View(us))) <= MaxEdits
    BY <1>8 DEF Sound, FewLayers
  <2> QED  BY <1>12, <2>1, RoomLeft
<1>14. PICK s : s = Step([heap |-> h, ops |-> ops], i, redo)
  OBVIOUS
<1>15. ops[i].layer # NoLayer => Border(View(us), <<n, i>>, redo)
  BY <1>1, <1>5, <1>7, AlongBorder
<1>16. PICK vs : vs = Changed(us, n, s.ops)
  OBVIOUS
<1>17. h \in Heaps /\ Good(h, View(us))
  BY <1>8 DEF Sound, Kept
<1>18. /\ \A j \in 1..len : SameKind(ops[j], ts[n].ops[j])
       /\ Contents(h) = w[<<n, IF redo THEN k - 1 ELSE len - (k - 1)>>]
       /\ Stashed(w, View(us), h)
  BY <1>2, <1>3, <1>4, <1>7 DEF DocAlong
<1>19. PICK d : d = w[<<n, i - 1>>]
  OBVIOUS
<1>20. PICK e : e = w[<<n, i>>]
  OBVIOUS
<1>21. w \in Papers /\ Does(ops[i], d, e)
  <2>1. w \in Papers /\ Does(ts[n].ops[i], d, e)
    BY <1>2, <1>11, <1>19, <1>20 DEF Chain
  <2>2. SameKind(ts[n].ops[i], ops[i])
    BY <1>11, <1>18 DEF SameKind
  <2> QED  BY <2>1, <2>2, DoesSame
<1>22. /\ redo => i = k /\ i - 1 = k - 1
       /\ ~redo => i = len - (k - 1) /\ i - 1 = len - k
  BY <1>1, <1>2 DEF Turn
<1>23. Contents(h) = IF redo THEN d ELSE e
  <2>1. CASE redo
    BY <1>18, <1>19, <1>22, <2>1
  <2>2. CASE ~redo
    BY <1>18, <1>20, <1>22, <2>2
  <2> QED  BY <2>1, <2>2
<1>29. Between(w, n, i, d, e) /\ i \in DOMAIN ops
  BY <1>6, <1>11, <1>19, <1>20 DEF Between
<1>24. /\ Contents(s.heap) = IF redo THEN e ELSE d
       /\ Stashed(w, View(vs), s.heap)
       /\ \A j \in 1..len : SameKind(s.ops[j], ops[j])
  <2>1. /\ Contents(s.heap) = IF redo THEN e ELSE d
        /\ Stashed(w, View(vs), s.heap)
        /\ \A j \in DOMAIN ops : SameKind(s.ops[j], ops[j])
    BY <1>10, <1>12, <1>13, <1>14, <1>15, <1>16, <1>17, <1>18, <1>21, <1>23, <1>29, StepContents
  <2> QED  BY <1>6, <2>1
<1>25. vs = Changed(ts, n, s.ops)
  <2>1. PICK to : to = s.ops
    OBVIOUS
  <2>2. Along(s, ts, n, redo, k)
    BY <1>1, <1>2, <1>5, <1>14, AlongStep
  <2>3. to \in Seq(AllOps)
    BY <2>1, <2>2 DEF Along, AlongOps
  <2> QED  BY <1>6, <1>7, <1>16, <2>1, <2>3, ChangedTwice
<1>26. Contents(s.heap) = w[<<n, IF redo THEN k ELSE len - k>>]
  <2>1. CASE redo
    BY <1>20, <1>22, <1>24, <2>1
  <2>2. CASE ~redo
    BY <1>19, <1>22, <1>24, <2>2
  <2> QED  BY <2>1, <2>2
<1>27. \A j \in 1..len : SameKind(s.ops[j], ts[n].ops[j])
  BY <1>18, <1>24 DEF SameKind
<1>28. DocAlong(s, ts, n, redo, k, w)
  BY <1>2, <1>24, <1>25, <1>26, <1>27 DEF DocAlong
<1> QED  BY <1>1, <1>5, <1>14, <1>28

\* A replay leads from document to document.
LEMMA ReplayDocAlong ==
  ASSUME MaxClears <= 1, NEW ts, Listed(ts), LayersOf(ts) = LayersOf(transactions), FewLayers(View(ts)),
         Sound(heap, View(ts)), NEW n, n \in DOMAIN ts, Sides(ts, n), NEW redo, IsWay(redo),
         NEW ops, ops = ts[n].ops, \A i \in DOMAIN ops : ops[i].done = ~redo,
         NEW w, Chain(w, ts), Stashed(w, View(ts), heap),
         Contents(heap) = w[<<n, IF redo THEN 0 ELSE Len(ops)>>],
         NEW k, k \in 0..Len(ops)
  PROVE  DocAlong(Replay(ops, redo, k), ts, n, redo, k, w)
<1>1. PICK len \in Nat : len = Len(ops) /\ DOMAIN ops = 1..len /\ k \in 0..len /\ ops \in Seq(AllOps)
  <2>1. ops \in Seq(AllOps)
    BY ListedIs
  <2> QED  BY <2>1, OpsLen
<1>2. PICK order : order = Order(ops, redo, k)
  OBVIOUS
<1>3. DOMAIN order = 1..k /\ \A j \in 1..k : order[j] = Turn(redo, len, j)
  BY <1>1, <1>2, OrderUpto
<1>4. PICK R : R = {r \in [heap : Heaps, ops : Seq(AllOps)] : TRUE}
  OBVIOUS
<1>5. PICK S : S = [j \in 0..k |-> {r \in R : Along(r, ts, n, redo, j) /\ DocAlong(r, ts, n, redo, j, w)}]
  OBVIOUS
<1>6. \A j \in 0..k : \A r : r \in S[j] <=> r \in R /\ Along(r, ts, n, redo, j) /\ DocAlong(r, ts, n, redo, j, w)
  BY <1>5
<1>7. \A r, j : Along(r, ts, n, redo, j) => r \in R
  <2> SUFFICES ASSUME NEW r, NEW j, Along(r, ts, n, redo, j) PROVE r \in R
    OBVIOUS
  <2>1. r.heap \in Heaps /\ r.ops \in Seq(AllOps) /\ r = [heap |-> r.heap, ops |-> r.ops]
    BY DEF Along, AlongOps, Sound, Kept
  <2> QED  BY <1>4, <2>1
<1>8. Along([heap |-> heap, ops |-> ops], ts, n, redo, 0) /\ DocAlong([heap |-> heap, ops |-> ops], ts, n, redo, 0, w)
  <2>1. PICK r : r = [heap |-> heap, ops |-> ops]
    OBVIOUS
  <2>2. r.heap = heap /\ r.ops = ops
    BY <2>1
  <2>3. View(Changed(ts, n, r.ops)) = View(ts)
    BY <2>2, SameChange
  <2>4. ASSUME NEW i \in 1..len PROVE ops[i].done <=> (redo <=> Passed(redo, len, 0, i))
    <3>1. ops[i].done <=> ~redo
      BY <1>1
    <3>2. ~Passed(redo, len, 0, i)
      BY <1>1 DEF Passed
    <3> QED  BY <3>1, <3>2
  <2>5. AlongOps(ts[n].ops, r.ops, redo, 0)
    BY <1>1, <2>2, <2>4 DEF AlongOps
  <2>6. Along(r, ts, n, redo, 0)
    BY <2>1, <2>2, <2>3, <2>5 DEF Along
  <2>7. \A i \in DOMAIN ts[n].ops : SameKind(r.ops[i], ts[n].ops[i])
    BY <2>2 DEF SameKind
  <2>8. Contents(r.heap) = w[<<n, IF redo THEN 0 ELSE Len(ts[n].ops) - 0>>]
    <3>1. Len(ts[n].ops) - 0 = Len(ops)
      BY <1>1
    <3> QED  BY <2>2, <3>1
  <2>9. DocAlong(r, ts, n, redo, 0, w)
    BY <2>2, <2>3, <2>7, <2>8 DEF DocAlong
  <2> QED  BY <2>1, <2>6, <2>9
<1>9. [heap |-> heap, ops |-> ops] \in S[0]
  <2>1. 0 \in 0..k
    BY <1>1
  <2> QED  BY <1>6, <1>7, <1>8, <2>1
<1>10. ASSUME NEW j \in 1..k, NEW r \in S[j - 1] PROVE Step(r, order[j], redo) \in S[j]
  <2>1. j - 1 \in 0..k /\ j \in 0..k /\ j \in 1..Len(ts[n].ops)
    BY <1>1
  <2>2. Along(r, ts, n, redo, j - 1) /\ DocAlong(r, ts, n, redo, j - 1, w)
    BY <1>6, <2>1
  <2>3. PICK s : s = Step(r, Turn(redo, Len(ts[n].ops), j), redo)
    OBVIOUS
  <2>4. Along(s, ts, n, redo, j)
    BY <2>1, <2>2, <2>3, AlongStep
  <2>5. DocAlong(s, ts, n, redo, j, w)
    BY <2>1, <2>2, <2>3, DocAlongStep
  <2>6. order[j] = Turn(redo, Len(ts[n].ops), j)
    BY <1>1, <1>3
  <2> QED  BY <1>6, <1>7, <2>1, <2>3, <2>4, <2>5, <2>6
<1>11. Replay(ops, redo, k) \in S[k]
  <2>1. k \in Nat
    BY <1>1
  <2> QED  BY <1>2, <1>3, <1>9, <1>10, <2>1, ReplayStays
<1>12. k \in 0..k
  BY <1>1
<1> QED  BY <1>6, <1>11, <1>12

-----------------------------------------------------------------------------
(* The documents between the operations are those of the history           *)

\* Each transaction leads from its state to the next one.
Ends(w, ts, s) ==
  \A t \in DOMAIN ts : w[<<t, 0>>] = s[t] /\ (t + 1 \in DOMAIN s => w[<<t, Len(ts[t].ops)>>] = s[t + 1])

\* The document is where the history is, or the open transaction has come.
AtPlace(w, ts, d, s, n, open) == d = IF open THEN w[<<n + 1, Len(ts[n + 1].ops)>>] ELSE s[n + 1]

Told(w, ts, h, s, n, open) ==
  Chain(w, ts) /\ Stashed(w, View(ts), h) /\ Ends(w, ts, s) /\ AtPlace(w, ts, Contents(h), s, n, open)
Tells(ts, h, s, n, open) == \E w : Told(w, ts, h, s, n, open)

\* Without a history.
LEMMA NothingTold ==
  ASSUME NEW h, NEW d \in Documents, d = Contents(h), NEW n, n = 0, NEW open, open = FALSE
  PROVE  Tells(<<>>, h, <<d>>, n, open)
<1>1. PICK w : w = [p \in Places |-> d]
  OBVIOUS
<1>2. w \in Papers
  BY <1>1 DEF Papers
<1>3. PICK none : none = <<>>
  OBVIOUS
<1>4. DOMAIN none = {} /\ DOMAIN View(none) = {}
  <2>1. DOMAIN View(none) = {}
    BY <1>3, ViewEmpty
  <2> QED  BY <1>3, <2>1
<1>5. Chain(w, none) /\ Stashed(w, View(none), h)
  BY <1>2, <1>4 DEF Chain, Stashed
<1>6. PICK s : s = <<d>>
  OBVIOUS
<1>7. Ends(w, none, s)
  BY <1>4 DEF Ends
<1>8. AtPlace(w, none, Contents(h), s, n, open)
  BY <1>6 DEF AtPlace
<1>9. Told(w, none, h, s, n, open)
  BY <1>5, <1>7, <1>8 DEF Told
<1> QED  BY <1>3, <1>6, <1>9 DEF Tells

Elsewhere(w, x, p) == \A q \in Places : q # p => x[q] = w[q]

\* What is stashed has nothing to do with a place after all operations.
LEMMA StashElsewhere ==
  ASSUME NEW w, NEW x, NEW ts, Listed(ts), NEW n \in Nat, NEW k \in Nat, Elsewhere(w, x, <<n, k>>),
         n \in DOMAIN ts => \A i \in DOMAIN ts[n].ops : i < k \/ (i = k /\ ts[n].ops[i].layer = NoLayer),
         NEW h, Stashed(w, View(ts), h)
  PROVE  Stashed(x, View(ts), h)
<1> SUFFICES ASSUME NEW p \in DOMAIN View(ts) PROVE x[p] = w[p] /\ x[Prior(p)] = w[Prior(p)]
  BY DEF Stashed
<1>1. PICK t, i : t = p[1] /\ i = p[2]
  OBVIOUS
<1>2. /\ p = <<t, i>> /\ t \in DOMAIN ts /\ i \in DOMAIN ts[t].ops /\ ts[t].ops[i].layer # NoLayer
  BY <1>1, ViewPlace
<1>3. t \in Nat /\ i \in Nat /\ i >= 1
  <2>1. PICK o \in Seq(AllOps) : o = ts[t].ops
    BY <1>2, ListedIs
  <2>2. i \in 1..Len(o) /\ Len(o) \in Nat
    BY <1>2, <2>1, OpsLen
  <2>3. t \in Nat
    BY <1>2, ListedIs
  <2> QED  BY <2>2, <2>3
<1>4. Prior(p) = <<t, i - 1>>
  BY <1>2 DEF Prior
<1>5. <<t, i>> \in Places /\ <<t, i - 1>> \in Places
  BY <1>3 DEF Places
<1>6. t = n => i < k
  BY <1>2
<1>7. <<t, i>> # <<n, k>> /\ <<t, i - 1>> # <<n, k>>
  BY <1>3, <1>6
<1> QED  BY <1>2, <1>4, <1>5, <1>7 DEF Elsewhere

\* The last operation of the last transaction is another, or one more.
LastOp(ops, to, k) ==
  /\ k \in Nat /\ k >= 1 /\ to \in Seq(AllOps) /\ Len(to) = k /\ (Len(ops) = k \/ Len(ops) = k - 1)
  /\ \A i \in 1..(k - 1) : to[i] = ops[i]

\* A history with an open transaction, the n-th and last one, and its documents.
Going(w, ts, s, n) ==
  /\ Listed(ts) /\ n = Len(ts) /\ n \in DOMAIN ts
  /\ s \in Seq(Documents) /\ Len(s) = n /\ Chain(w, ts) /\ Ends(w, ts, s)
Reaches(w, ts, n, e) == e = w[<<n, Len(ts[n].ops)>>]
Follows(w, op, n, k, e) == Does(op, w[<<n, k - 1>>], e)
Wrote(w, x, n, k, e) == x \in Papers /\ x[<<n, k>>] = e /\ Elsewhere(w, x, <<n, k>>)

LEMMA Written ==
  ASSUME NEW w \in Papers, NEW n \in Nat, NEW k \in Nat, NEW e \in Documents
  PROVE  \E x : Wrote(w, x, n, k, e)
<1>1. PICK p \in Places : p = <<n, k>>
  BY DEF Places
<1>2. PICK x : x = [w EXCEPT ![p] = e]
  OBVIOUS
<1>3. x \in Papers /\ x[p] = e /\ Elsewhere(w, x, p)
  BY <1>2 DEF Papers, Elsewhere
<1> QED  BY <1>1, <1>3 DEF Wrote

LEMMA LastTold ==
  ASSUME NEW w, NEW ts, NEW s, NEW n, Going(w, ts, s, n), NEW to, NEW k, LastOp(ts[n].ops, to, k),
         NEW us, us = Changed(ts, n, to), NEW e, NEW op, op = to[k], Follows(w, op, n, k, e),
         NEW x, Wrote(w, x, n, k, e)
  PROVE  Chain(x, us) /\ Ends(x, us, s) /\ Reaches(x, us, n, e)
<1>0. Listed(ts) /\ n = Len(ts) /\ n \in DOMAIN ts /\ s \in Seq(Documents) /\ Len(s) = n
      /\ Chain(w, ts) /\ Ends(w, ts, s)
  BY DEF Going
<1>1. k \in Nat /\ k >= 1 /\ to \in Seq(AllOps) /\ Len(to) = k /\ n \in Nat /\ DOMAIN ts = 1..n /\ DOMAIN to = 1..k
  <2>1. k \in Nat /\ k >= 1 /\ to \in Seq(AllOps) /\ Len(to) = k
    BY DEF LastOp
  <2>2. DOMAIN to = 1..k
    BY <2>1, OpsLen
  <2> QED  BY <1>0, <2>1, <2>2, ListedLen
<1>3. x \in Papers /\ x[<<n, k>>] = e /\ Elsewhere(w, x, <<n, k>>)
  BY DEF Wrote
<1>4. ChangedTo(ts, us, n, to)
  BY <1>0, <1>1, ChangedIs
<1>5. DOMAIN us = DOMAIN ts /\ us[n].ops = to /\ \A t \in DOMAIN ts : t # n => us[t] = ts[t]
  BY <1>4 DEF ChangedTo
<1>6. ASSUME NEW t \in Nat, NEW i \in Nat, t # n \/ i # k PROVE x[<<t, i>>] = w[<<t, i>>]
  <2>1. <<t, i>> \in Places /\ <<t, i>> # <<n, k>>
    BY <1>6 DEF Places
  <2> QED  BY <1>3, <2>1 DEF Elsewhere
<1>7. ASSUME NEW t \in DOMAIN us, NEW i \in DOMAIN us[t].ops PROVE Does(us[t].ops[i], x[<<t, i - 1>>], x[<<t, i>>])
  <2>1. t \in Nat
    BY <1>1, <1>5
  <2>2. CASE t # n
    <3>1. us[t] = ts[t] /\ t \in DOMAIN ts /\ i \in DOMAIN ts[t].ops
      BY <1>5, <2>2
    <3>2. i \in Nat /\ i - 1 \in Nat
      <4>1. PICK o \in Seq(AllOps) : o = ts[t].ops
        BY <1>0, <3>1, ListedIs
      <4>2. i \in 1..Len(o) /\ Len(o) \in Nat
        BY <3>1, <4>1, OpsLen
      <4> QED  BY <4>2
    <3>3. x[<<t, i - 1>>] = w[<<t, i - 1>>] /\ x[<<t, i>>] = w[<<t, i>>]
      BY <1>6, <2>1, <2>2, <3>2
    <3>4. Does(ts[t].ops[i], w[<<t, i - 1>>], w[<<t, i>>])
      BY <1>0, <3>1 DEF Chain
    <3> QED  BY <3>1, <3>3, <3>4
  <2>3. CASE t = n
    <3>1. i \in 1..k /\ us[t].ops[i] = to[i] /\ i \in Nat /\ i - 1 \in Nat
      BY <1>1, <1>5, <2>3
    <3>2. x[<<n, i - 1>>] = w[<<n, i - 1>>]
      <4>1. i - 1 # k
        BY <1>1, <3>1
      <4> QED  BY <1>1, <1>6, <3>1, <4>1
    <3>3. CASE i = k
      BY <1>3, <2>3, <3>1, <3>2, <3>3 DEF Follows
    <3>4. CASE i # k
      <4>1. i \in 1..(k - 1)
        BY <1>1, <3>1, <3>4
      <4>2. to[i] = ts[n].ops[i]
        BY <4>1 DEF LastOp
      <4>3. i \in DOMAIN ts[n].ops
        <5>1. PICK o \in Seq(AllOps) : o = ts[n].ops
          BY <1>0, ListedIs
        <5>2. DOMAIN o = 1..Len(o) /\ Len(o) \in Nat
          BY <5>1, OpsLen
        <5>3. Len(o) = k \/ Len(o) = k - 1
          BY <5>1 DEF LastOp
        <5> QED  BY <1>1, <4>1, <5>1, <5>2, <5>3
      <4>4. Does(ts[n].ops[i], w[<<n, i - 1>>], w[<<n, i>>])
        BY <1>0, <4>3 DEF Chain
      <4>5. x[<<n, i>>] = w[<<n, i>>]
        BY <1>1, <1>6, <3>1, <3>4
      <4> QED  BY <2>3, <3>1, <3>2, <4>2, <4>4, <4>5
    <3> QED  BY <3>3, <3>4
  <2> QED  BY <2>2, <2>3
<1>8. Chain(x, us)
  BY <1>3, <1>7 DEF Chain
<1>9. Ends(x, us, s)
  <2> SUFFICES ASSUME NEW t \in DOMAIN us
               PROVE  x[<<t, 0>>] = s[t] /\ (t + 1 \in DOMAIN s => x[<<t, Len(us[t].ops)>>] = s[t + 1])
    BY DEF Ends
  <2>1. t \in Nat /\ t \in DOMAIN ts /\ t <= n
    BY <1>1, <1>5
  <2>2. x[<<t, 0>>] = w[<<t, 0>>]
    BY <1>1, <1>6, <2>1
  <2>3. ASSUME t + 1 \in DOMAIN s PROVE x[<<t, Len(us[t].ops)>>] = s[t + 1]
    <3>1. t + 1 \in 1..n
      BY <1>0, <2>3, LenProperties
    <3>2. t # n /\ us[t] = ts[t]
      BY <1>1, <1>5, <2>1, <3>1
    <3>3. Len(ts[t].ops) \in Nat
      <4>1. ts[t].ops \in Seq(AllOps)
        BY <1>0, <2>1, ListedIs
      <4> QED  BY <4>1, OpsLen
    <3>4. x[<<t, Len(ts[t].ops)>>] = w[<<t, Len(ts[t].ops)>>]
      BY <1>6, <2>1, <3>2, <3>3
    <3> QED  BY <1>0, <2>1, <2>3, <3>2, <3>4 DEF Ends
  <2> QED  BY <1>0, <2>1, <2>2, <2>3 DEF Ends
<1> QED  BY <1>1, <1>3, <1>5, <1>8, <1>9 DEF Reaches

\* Two changes of the same kind are recorded as one.
Merged(a, op, b) ==
  /\ a.layer = NoLayer /\ a.obj = op.obj /\ a.insert = op.insert
  /\ b.layer = NoLayer /\ b.obj = op.obj /\ b.insert = op.insert /\ b.shapes = Plus(a.shapes, op.shapes)

LEMMA DoesMerged ==
  ASSUME NEW a \in AllOps, NEW op \in AllOps, NEW b, Merged(a, op, b), op.layer = NoLayer,
         NEW d \in Documents, NEW m \in Documents, NEW e, Does(a, d, m), Does(op, m, e)
  PROVE  Does(b, d, e)
<1>1. PICK c \in Containers : c = op.obj
  BY DEF AllOps
<1>2. a.shapes \in ShapeBags /\ op.shapes \in ShapeBags /\ d[c] \in ShapeBags
  BY DEF AllOps, Documents
<1>3. \A k \in Containers : k # c => e[k] = d[k]
  BY <1>1 DEF Does, Merged
<1>4. CASE op.insert
  <2>1. m[c] = Plus(d[c], a.shapes) /\ e[c] = Plus(m[c], op.shapes)
    BY <1>1, <1>4 DEF Does, Merged
  <2>2. e[c] = Plus(d[c], Plus(a.shapes, op.shapes))
    BY <1>2, <2>1, BagsTwice
  <2> QED  BY <1>1, <1>3, <1>4, <2>2 DEF Does, Merged
<1>5. CASE ~op.insert
  <2>1. Below(a.shapes, d[c]) /\ m[c] = Minus(d[c], a.shapes) /\ Below(op.shapes, m[c]) /\ e[c] = Minus(m[c], op.shapes)
    BY <1>1, <1>5 DEF Does, Merged
  <2>2. Below(Plus(a.shapes, op.shapes), d[c]) /\ e[c] = Minus(d[c], Plus(a.shapes, op.shapes))
    BY <1>2, <2>1, BagsTwice
  <2> QED  BY <1>1, <1>3, <1>5, <2>2 DEF Does, Merged
<1> QED  BY <1>4, <1>5

AsLast(ops, to, op, k) ==
  LastOp(ops, to, k) /\ ((Len(ops) = k - 1 /\ to[k] = op) \/ (Len(ops) = k /\ Merged(ops[k], op, to[k])))

LEMMA AppendedLast ==
  ASSUME NEW ops \in Seq(AllOps), NEW op \in AllOps, NEW to, to = Append(ops, op), NEW k, k = Len(ops) + 1
  PROVE  AsLast(ops, to, op, k) /\ k \in Nat
<1>1. DOMAIN ops = 1..Len(ops) /\ Len(ops) \in Nat
  BY OpsLen
<1>2. /\ to \in Seq(AllOps) /\ Len(to) = k /\ to[k] = op /\ \A i \in DOMAIN ops : to[i] = ops[i]
  BY AppendIs
<1>3. k \in Nat /\ k >= 1 /\ k - 1 = Len(ops)
  BY <1>1
<1>4. \A i \in 1..(k - 1) : to[i] = ops[i]
  BY <1>1, <1>2, <1>3
<1> QED  BY <1>2, <1>3, <1>4 DEF AsLast, LastOp

LEMMA QueuedLast ==
  ASSUME NEW ops \in Seq(AllOps), NEW op \in AllOps, op.layer = NoLayer, NEW to, to = QueueOrAppend(op, ops)
  PROVE  \E k : AsLast(ops, to, op, k) /\ k \in Nat
<1>1. CASE to = Append(ops, op)
  BY <1>1, AppendedLast
<1>2. CASE to # Append(ops, op)
  <2>1. /\ ops # <<>> /\ [Last(ops) EXCEPT !.shapes = op.shapes] = op
        /\ to = [ops EXCEPT ![Len(ops)].shapes = Plus(@, op.shapes)]
    BY <1>2 DEF QueueOrAppend
  <2>2. PICK k \in Nat : k = Len(ops) /\ DOMAIN ops = 1..k /\ k \in DOMAIN ops
    BY <2>1, LenProperties, EmptySeq
  <2>3. PICK a \in AllOps : a = ops[k]
    BY <2>2, ElementOfSeq
  <2>4. op.shapes \in ShapeBags /\ a.shapes \in ShapeBags
    BY DEF AllOps
  <2>5. op = [a EXCEPT !.shapes = op.shapes]
    <3>1. Last(ops) = a
      BY <2>2, <2>3 DEF Last
    <3> QED  BY <2>1, <3>1
  <2>6. PICK y : y = [a EXCEPT !.shapes = op.shapes]
    OBVIOUS
  <2>7. y.layer = a.layer /\ y.obj = a.obj /\ y.insert = a.insert
    BY <2>6 DEF AllOps
  <2>8. a.layer = NoLayer /\ a.obj = op.obj /\ a.insert = op.insert
    BY <2>5, <2>6, <2>7
  <2>9. PICK bag \in ShapeBags : bag = Plus(a.shapes, op.shapes)
    BY <2>4, BagsClosed
  <2>10. PICK b : b = [a EXCEPT !.shapes = bag]
    OBVIOUS
  <2>11. b \in AllOps /\ b.layer = a.layer /\ b.obj = a.obj /\ b.insert = a.insert /\ b.shapes = bag
    BY <2>10 DEF AllOps
  <2>12. to = [ops EXCEPT ![k] = b]
    <3>1. to = [ops EXCEPT ![k].shapes = Plus(@, op.shapes)]
      BY <2>1, <2>2
    <3> QED  BY <2>3, <2>9, <2>10, <3>1
  <2>13. /\ to \in Seq(AllOps) /\ Len(to) = k /\ to[k] = b
         /\ \A j \in DOMAIN ops : j # k => to[j] = ops[j]
    BY <2>2, <2>11, <2>12, OpChanged
  <2>14. \A i \in 1..(k - 1) : to[i] = ops[i]
    BY <2>2, <2>13
  <2>15. Merged(ops[k], op, to[k])
    BY <2>3, <2>8, <2>9, <2>11, <2>13 DEF Merged
  <2>16. k >= 1
    BY <2>2
  <2> QED  BY <2>2, <2>13, <2>14, <2>15, <2>16 DEF AsLast, LastOp
<1> QED  BY <1>1, <1>2

LEMMA LastLeads ==
  ASSUME NEW w, NEW ts, NEW s, NEW n, Going(w, ts, s, n), NEW op \in AllOps, NEW to, NEW k,
         AsLast(ts[n].ops, to, op, k), op.layer = NoLayer \/ Len(ts[n].ops) = k - 1,
         NEW us, us = Changed(ts, n, to), NEW d, Reaches(w, ts, n, d), NEW e \in Documents, Does(op, d, e),
         NEW x, Wrote(w, x, n, k, e)
  PROVE  /\ Chain(x, us) /\ Ends(x, us, s) /\ Reaches(x, us, n, e)
         /\ \A h : Stashed(w, View(ts), h) => Stashed(x, View(ts), h)
<1>1. Listed(ts) /\ n \in DOMAIN ts /\ Chain(w, ts)
  BY DEF Going
<1>2. PICK ops \in Seq(AllOps) : ops = ts[n].ops
  BY <1>1, ListedIs
<1>3. LastOp(ops, to, k) /\ k \in Nat /\ k >= 1 /\ Len(ops) \in Nat /\ DOMAIN ops = 1..Len(ops) /\ n \in Nat
  <2>1. LastOp(ops, to, k)
    BY <1>2 DEF AsLast
  <2>2. k \in Nat /\ k >= 1
    BY <2>1 DEF LastOp
  <2>3. Len(ops) \in Nat /\ DOMAIN ops = 1..Len(ops)
    BY OpsLen
  <2>4. n \in Nat
    BY <1>1, ListedIs
  <2> QED  BY <2>1, <2>2, <2>3, <2>4
<1>4. PICK b : b = to[k]
  OBVIOUS
<1>5. Follows(w, b, n, k, e)
  <2>1. CASE Len(ops) = k - 1 /\ to[k] = op
    BY <1>2, <1>4, <2>1 DEF Reaches, Follows
  <2>2. CASE Len(ops) = k /\ Merged(ops[k], op, to[k])
    <3>1. op.layer = NoLayer /\ k \in DOMAIN ops
      BY <1>2, <1>3, <2>2
    <3>2. PICK c : c = w[<<n, k - 1>>]
      OBVIOUS
    <3>3. d = w[<<n, k>>]
      BY <1>2, <2>2 DEF Reaches
    <3>4. Does(ops[k], c, d)
      BY <1>1, <1>2, <3>1, <3>2, <3>3 DEF Chain
    <3>5. c \in Documents /\ d \in Documents
      <4>1. <<n, k - 1>> \in Places /\ <<n, k>> \in Places
        BY <1>3 DEF Places
      <4> QED  BY <1>1, <3>2, <3>3, <4>1 DEF Chain, Papers
    <3>6. ops[k] \in AllOps
      BY <3>1, ElementOfSeq
    <3>7. Does(b, c, e)
      BY <1>4, <2>2, <3>1, <3>4, <3>5, <3>6, DoesMerged
    <3> QED  BY <3>2, <3>7 DEF Follows
  <2> QED  BY <1>2, <2>1, <2>2 DEF AsLast
<1>6. Chain(x, us) /\ Ends(x, us, s) /\ Reaches(x, us, n, e)
  <2>1. LastOp(ts[n].ops, to, k)
    BY <1>2, <1>3
  <2> QED  BY <1>4, <1>5, <2>1, LastTold
<1>7. ASSUME NEW i \in DOMAIN ops PROVE i < k \/ (i = k /\ ops[i].layer = NoLayer)
  <2>1. i \in Nat /\ i <= Len(ops)
    BY <1>3
  <2>2. CASE Len(ops) = k - 1
    BY <1>3, <2>1, <2>2
  <2>3. CASE Len(ops) = k /\ Merged(ops[k], op, to[k])
    BY <1>3, <2>1, <2>3 DEF Merged
  <2> QED  BY <1>2, <2>2, <2>3 DEF AsLast
<1>8. Elsewhere(w, x, <<n, k>>)
  BY DEF Wrote
<1>9. ASSUME NEW h, Stashed(w, View(ts), h) PROVE Stashed(x, View(ts), h)
  BY <1>1, <1>2, <1>3, <1>7, <1>8, <1>9, StashElsewhere
<1> QED  BY <1>6, <1>9

\* The open transaction has led on to document e.
Leads(x, us, s, h, n, e) ==
  Chain(x, us) /\ Ends(x, us, s) /\ Stashed(x, View(us), h) /\ Reaches(x, us, n, e)

LEMMA RecordLeads ==
  ASSUME NEW w, NEW ts, NEW s, NEW n, Going(w, ts, s, n), NEW op \in AllOps, op.layer = NoLayer,
         NEW us, us = Changed(ts, n, QueueOrAppend(op, ts[n].ops)),
         NEW d, Reaches(w, ts, n, d), NEW e \in Documents, Does(op, d, e), NEW h, Stashed(w, View(ts), h)
  PROVE  \E x : Leads(x, us, s, h, n, e)
<1>1. PICK to : to = QueueOrAppend(op, ts[n].ops)
  OBVIOUS
<1>2. Listed(ts) /\ n = Len(ts) /\ n \in DOMAIN ts /\ w \in Papers /\ n \in Nat /\ ts[n].ops \in Seq(AllOps)
  <2>1. Listed(ts) /\ n = Len(ts) /\ n \in DOMAIN ts /\ w \in Papers
    BY DEF Going, Chain
  <2> QED  BY <2>1, ListedIs
<1>3. PICK k \in Nat : AsLast(ts[n].ops, to, op, k)
  BY <1>1, <1>2, QueuedLast
<1>4. PICK x : Wrote(w, x, n, k, e)
  BY <1>2, Written
<1>5. us = Changed(ts, n, to)
  BY <1>1
<1>6. Chain(x, us) /\ Ends(x, us, s) /\ Reaches(x, us, n, e) /\ Stashed(x, View(ts), h)
  BY <1>3, <1>4, <1>5, LastLeads
<1>7. View(us) = View(ts)
  BY <1>2, ViewRecorded
<1> QED  BY <1>6, <1>7 DEF Leads

\* What an operation owns when it is made.
Stashes(op, h, d, e) == op.owns => h.content[op.layer] = (IF op.insert THEN e ELSE d)[op.obj]

\* A full layer operation.
LEMMA FullLeads ==
  ASSUME NEW w, NEW ts, NEW s, NEW n, Going(w, ts, s, n), NEW op \in AllOps, op.layer # NoLayer,
         NEW us, us = Changed(ts, n, Append(ts[n].ops, op)),
         NEW d, Reaches(w, ts, n, d), NEW e \in Documents, Does(op, d, e), NEW h, Stashed(w, View(ts), h),
         Stashes(op, h, d, e)
  PROVE  \E x : Leads(x, us, s, h, n, e)
<1>1. Listed(ts) /\ n = Len(ts) /\ n \in DOMAIN ts /\ w \in Papers /\ n \in Nat
  <2>1. Listed(ts) /\ n = Len(ts) /\ n \in DOMAIN ts /\ w \in Papers
    BY DEF Going, Chain
  <2> QED  BY <2>1, ListedIs
<1>2. PICK ops \in Seq(AllOps) : ops = ts[n].ops
  BY <1>1, ListedIs
<1>3. PICK to : to = Append(ops, op)
  OBVIOUS
<1>4. PICK k : k = Len(ops) + 1
  OBVIOUS
<1>5. AsLast(ops, to, op, k) /\ k \in Nat /\ Len(ops) = k - 1 /\ k >= 1
  <2>1. Len(ops) \in Nat
    BY OpsLen
  <2>2. AsLast(ops, to, op, k) /\ k \in Nat
    BY <1>3, <1>4, AppendedLast
  <2> QED  BY <1>4, <2>1, <2>2
<1>6. PICK x : Wrote(w, x, n, k, e)
  BY <1>1, <1>5, Written
<1>7. Chain(x, us) /\ Ends(x, us, s) /\ Reaches(x, us, n, e) /\ Stashed(x, View(ts), h)
  <2>1. us = Changed(ts, n, to) /\ AsLast(ts[n].ops, to, op, k) /\ Len(ts[n].ops) = k - 1
    BY <1>2, <1>3, <1>5
  <2> QED  BY <1>6, <2>1, LastLeads
<1>8. x[<<n, k>>] = e /\ x[<<n, k - 1>>] = d
  <2>1. <<n, k - 1>> \in Places /\ <<n, k - 1>> # <<n, k>>
    BY <1>1, <1>5 DEF Places
  <2> QED  BY <1>2, <1>5, <1>6, <2>1 DEF Wrote, Elsewhere, Reaches
<1>9. ChangedTo(ts, us, n, to) /\ DOMAIN to = DOMAIN ops \cup {k} /\ to[k] = op
      /\ \A i \in DOMAIN ops : to[i] = ops[i]
  <2>1. to \in Seq(AllOps) /\ DOMAIN to = DOMAIN ops \cup {k} /\ to[k] = op /\ \A i \in DOMAIN ops : to[i] = ops[i]
    BY <1>3, <1>4, AppendIs
  <2>2. us = Changed(ts, n, to)
    BY <1>2, <1>3
  <2> QED  BY <1>1, <2>1, <2>2, ChangedIs
<1>10. /\ Listed(us) /\ DOMAIN us = DOMAIN ts /\ us[n].ops = to
       /\ \A t \in DOMAIN ts : t # n => us[t] = ts[t]
  BY <1>9 DEF ChangedTo
<1>11. ASSUME NEW p \in DOMAIN View(us), View(us)[p].owns
       PROVE  h.content[View(us)[p].layer] = (IF View(us)[p].insert THEN x[p] ELSE x[Prior(p)])[View(us)[p].obj]
  <2>1. PICK t, i : t = p[1] /\ i = p[2]
    OBVIOUS
  <2>2. /\ p = <<t, i>> /\ t \in DOMAIN us /\ i \in DOMAIN us[t].ops /\ us[t].ops[i].layer # NoLayer
        /\ View(us)[p] = us[t].ops[i]
    BY <1>10, <2>1, ViewPlace
  <2>3. CASE t = n /\ i = k
    <3>1. View(us)[p] = op /\ p = <<n, k>> /\ Prior(p) = <<n, k - 1>>
      BY <1>9, <1>10, <2>2, <2>3 DEF Prior
    <3> QED  BY <1>8, <1>11, <3>1 DEF Stashes
  <2>4. CASE ~(t = n /\ i = k)
    <3>1. i \in DOMAIN ts[t].ops /\ ts[t].ops[i] = us[t].ops[i] /\ t \in DOMAIN ts
      BY <1>2, <1>9, <1>10, <2>2, <2>4
    <3>2. p \in DOMAIN View(ts) /\ View(ts)[p] = View(us)[p]
      <4>1. ts[t].ops[i].layer # NoLayer
        BY <2>2, <3>1
      <4>2. <<t, i>> \in DOMAIN View(ts) /\ View(ts)[<<t, i>>] = ts[t].ops[i]
        BY <1>1, <3>1, <4>1, ViewAt
      <4> QED  BY <2>2, <3>1, <4>2
    <3> QED  BY <1>7, <1>11, <3>2 DEF Stashed
  <2> QED  BY <2>3, <2>4
<1>12. Stashed(x, View(us), h)
  BY <1>11 DEF Stashed
<1> QED  BY <1>7, <1>12 DEF Leads

-----------------------------------------------------------------------------
(* The changes of the containers                                           *)

DInv == SInv /\ Tells(transactions, heap, states, current, opened)

LEMMA OpenTold ==
  ASSUME SInv, OpenLists, NEW w, Told(w, transactions, heap, states, current, opened), NEW n, n = current + 1
  PROVE  /\ Going(w, transactions, states, n) /\ Reaches(w, transactions, n, Contents(heap))
         /\ Stashed(w, View(transactions), heap)
<1>1. opened = TRUE /\ current \in Nat /\ Len(transactions) = n /\ Len(states) = n /\ states \in Seq(Documents)
  BY SInvFacts
<1>2. Listed(transactions) /\ n \in DOMAIN transactions
  <2>1. Listed(transactions)
    BY LInvFacts DEF SInv
  <2>2. DOMAIN transactions = 1..n
    BY <1>1, <2>1, ListedLen
  <2> QED  BY <1>1, <2>1, <2>2
<1>3. Chain(w, transactions) /\ Ends(w, transactions, states) /\ Stashed(w, View(transactions), heap)
      /\ AtPlace(w, transactions, Contents(heap), states, current, opened)
  BY DEF Told
<1>4. Reaches(w, transactions, n, Contents(heap))
  BY <1>1, <1>3 DEF AtPlace, Reaches
<1> QED  BY <1>1, <1>2, <1>3, <1>4 DEF Going

LEMMA LeadsOn ==
  ASSUME NEW us, NEW s, NEW h, NEW m, NEW n, n = m + 1, NEW x, Leads(x, us, s, h, n, Contents(h))
  PROVE  Tells(us, h, s, m, TRUE)
<1>1. AtPlace(x, us, Contents(h), s, m, TRUE)
  BY DEF AtPlace, Leads, Reaches
<1>2. Told(x, us, h, s, m, TRUE)
  BY <1>1 DEF Told, Leads
<1> QED  BY <1>2 DEF Tells

\* Without a history, no more is known after the change.
LEMMA ClosedTold ==
  ASSUME SInv, LInv', ClosedLists, CanEdit, NEW ops, Queue(ops), Edited
  PROVE  Tells(transactions', heap', states', current', opened')
<1>1. opened = FALSE /\ transactions = <<>> /\ current \in 0..Len(transactions) /\ Len(<<>>) = 0
  BY SInvFacts DEF CanEdit
<1>2. transactions' = <<>> /\ current' = 0 /\ opened' = FALSE /\ states' = <<Contents(heap')>>
  BY <1>1 DEF Queue, Edited
<1>3. PICK d \in Documents : d = Contents(heap')
  BY NextDocument
<1>4. PICK h : h = heap'
  OBVIOUS
<1>5. Tells(<<>>, h, <<d>>, 0, FALSE)
  BY <1>3, <1>4, NothingTold
<1> QED  BY <1>2, <1>3, <1>4, <1>5

LEMMA WriteTold ==
  ASSUME MaxClears <= 1, DInv, LInv', OpenLists, NEW c \in Containers, NEW bag \in ShapeBags,
         heap' = SetShapes(heap, c, bag), NEW op \in AllOps, op.layer = NoLayer, Record(op), Edited,
         \A e : Becomes(Contents(heap), e, c, bag) => Does(op, Contents(heap), e)
  PROVE  Tells(transactions', heap', states', current', opened')
<1>1. PICK w : Told(w, transactions, heap, states, current, opened)
  BY DEF DInv, Tells
<1>2. PICK n : n = current + 1
  OBVIOUS
<1>3. Going(w, transactions, states, n) /\ Reaches(w, transactions, n, Contents(heap))
      /\ Stashed(w, View(transactions), heap)
  BY <1>1, <1>2, OpenTold DEF DInv
<1>4. PICK i : i = heap'
  OBVIOUS
<1>5. PICK us : us = transactions'
  OBVIOUS
<1>6. PICK d : d = Contents(heap)
  OBVIOUS
<1>7. PICK e \in Documents : e = Contents(i)
  BY <1>4, NextDocument
<1>8. PICK f : f = View(transactions)
  OBVIOUS
<1>9. LInv /\ heap \in Heaps /\ IsView(f) /\ Apart(heap, f) /\ LayersIn(f) = LayersOf(transactions) /\ FreeLayers(heap) # {}
  <2>1. LInv
    BY DEF DInv, SInv
  <2>2. heap \in Heaps /\ Listed(transactions) /\ Good(heap, f) /\ LayersIn(f) = LayersOf(transactions)
    BY <1>8, <2>1, LInvFacts DEF Sound
  <2>3. IsView(f) /\ Apart(heap, f)
    BY <1>8, <2>2, ViewIs DEF Good
  <2> QED  BY <2>1, <2>2, <2>3, RoomForLayer
<1>10. Fills(heap, i, c, LayersIn(f)) /\ Writes(heap, i, c, bag)
  BY <1>4, <1>9, SetShapesIs
<1>11. Becomes(d, e, c, bag)
  BY <1>6, <1>7, <1>9, <1>10, WriteContents
<1>12. Does(op, d, e)
  BY <1>6, <1>11
<1>13. Stashed(w, f, i)
  BY <1>3, <1>8, <1>9, <1>10, StashWritten
<1>14. us = Changed(transactions, n, QueueOrAppend(op, transactions[n].ops))
  <2>1. PICK ops : ops = QueueOrAppend(op, transactions[n].ops)
    OBVIOUS
  <2>2. Queue(IF opened THEN ops ELSE <<>>)
    BY <1>2, <2>1 DEF Record, Current
  <2> QED  BY <1>2, <1>5, <1>9, <2>1, <2>2, QueuedIs
<1>15. PICK x : Leads(x, us, states, i, n, e)
  BY <1>3, <1>6, <1>8, <1>12, <1>13, <1>14, RecordLeads
<1>16. states' = states /\ current' = current /\ opened' = TRUE
  BY SInvFacts DEF DInv, Edited
<1>17. Tells(us, i, states, current, TRUE)
  BY <1>2, <1>7, <1>15, LeadsOn
<1> QED  BY <1>4, <1>5, <1>16, <1>17

\* The insertion of shapes, and of all shapes of another container.
LEMMA InsertsDoes ==
  ASSUME NEW c \in Containers, NEW bag, NEW d, NEW op, op = LayerOp(c, TRUE, bag), NEW sum, sum = Plus(d[c], bag),
         NEW e, Becomes(d, e, c, sum)
  PROVE  Does(op, d, e)
<1>1. op.obj = c /\ op.insert = TRUE /\ op.shapes = bag /\ op.layer = NoLayer
  BY DEF LayerOp
<1> QED  BY <1>1 DEF Does, Becomes

LEMMA ErasesDoes ==
  ASSUME NEW c \in Containers, NEW bag, NEW d, NEW op, op = LayerOp(c, FALSE, bag), Below(bag, d[c]),
         NEW rest, rest = Minus(d[c], bag), NEW e, Becomes(d, e, c, rest)
  PROVE  Does(op, d, e)
<1>1. op.obj = c /\ op.insert = FALSE /\ op.shapes = bag /\ op.layer = NoLayer
  BY DEF LayerOp
<1> QED  BY <1>1 DEF Does, Becomes

LEMMA InsertTold ==
  ASSUME MaxClears <= 1, DInv, LInv', NEW c \in Containers, NEW s \in Shapes, Insert(c, s)
  PROVE  Tells(transactions', heap', states', current', opened')
<1>1. LInv
  BY DEF DInv, SInv
<1>2. CASE ClosedLists
  BY <1>2, ClosedTold DEF Insert, Record, DInv
<1>3. CASE OpenLists
  <2>1. PICK op : op = LayerOp(c, TRUE, One(s))
    OBVIOUS
  <2>2. op \in AllOps /\ op.layer = NoLayer
    BY <2>1, BagsClosed, LayerOpIs DEF IsWay
  <2>3. PICK bag \in ShapeBags : bag = Plus(Contents(heap)[c], One(s))
    BY <1>1, ContentsOf, BagsClosed
  <2>4. Record(op) /\ heap' = SetShapes(heap, c, bag) /\ Edited
    BY <2>1, <2>3 DEF Insert, InsertShapes
  <2>5. \A e : Becomes(Contents(heap), e, c, bag) => Does(op, Contents(heap), e)
    BY <2>1, <2>3, InsertsDoes
  <2> QED  BY <1>3, <2>2, <2>4, <2>5, WriteTold
<1> QED  BY <1>2, <1>3, SInvFacts DEF DInv

LEMMA EraseTold ==
  ASSUME MaxClears <= 1, DInv, LInv', NEW c \in Containers, NEW s \in Shapes, Erase(c, s)
  PROVE  Tells(transactions', heap', states', current', opened')
<1>1. LInv
  BY DEF DInv, SInv
<1>2. CASE ClosedLists
  BY <1>2, ClosedTold DEF Erase, Record, DInv
<1>3. CASE OpenLists
  <2>1. PICK op : op = LayerOp(c, FALSE, One(s))
    OBVIOUS
  <2>2. op \in AllOps /\ op.layer = NoLayer
    BY <2>1, BagsClosed, LayerOpIs DEF IsWay
  <2>3. PICK bag \in ShapeBags : bag = Minus(Contents(heap)[c], One(s))
    BY <1>1, ContentsOf, BagsClosed
  <2>4. Record(op) /\ heap' = SetShapes(heap, c, bag) /\ Edited
    BY <2>1, <2>3 DEF Erase
  <2>5. Below(One(s), Contents(heap)[c])
    <3>1. PICK a \in ShapeBags : a = Contents(heap)[c]
      BY <1>1, ContentsOf
    <3>2. a[s] > 0
      BY <3>1 DEF Erase
    <3>3. ASSUME NEW t \in Shapes PROVE One(s)[t] <= a[t]
      <4>1. a[t] \in Nat /\ a[s] \in Nat
        BY DEF ShapeBags
      <4>2. CASE t = s
        <5>1. One(s)[t] = 1
          BY <4>2 DEF One, NoShapes
        <5> QED  BY <3>2, <4>1, <4>2, <5>1
      <4>3. CASE t # s
        <5>1. One(s)[t] = 0
          BY <4>3 DEF One, NoShapes
        <5> QED  BY <4>1, <5>1
      <4> QED  BY <4>2, <4>3
    <3> QED  BY <3>1, <3>3 DEF Below
  <2>6. \A e : Becomes(Contents(heap), e, c, bag) => Does(op, Contents(heap), e)
    BY <2>1, <2>3, <2>5, ErasesDoes
  <2> QED  BY <1>3, <2>2, <2>4, <2>6, WriteTold
<1> QED  BY <1>2, <1>3, SInvFacts DEF DInv

LEMMA FullTold ==
  ASSUME DInv, OpenLists, NEW w, Told(w, transactions, heap, states, current, opened),
         NEW op \in AllOps, op.layer # NoLayer, Queue(IF opened THEN Append(Current.ops, op) ELSE <<>>), Edited,
         NEW e \in Documents, e = Contents(heap'), Does(op, Contents(heap), e),
         NEW i, i = heap', Stashed(w, View(transactions), i), Stashes(op, i, Contents(heap), e)
  PROVE  Tells(transactions', heap', states', current', opened')
<1>1. PICK n : n = current + 1
  OBVIOUS
<1>2. Going(w, transactions, states, n) /\ Reaches(w, transactions, n, Contents(heap))
  BY <1>1, OpenTold DEF DInv
<1>3. PICK us : us = transactions'
  OBVIOUS
<1>4. us = Changed(transactions, n, Append(transactions[n].ops, op))
  <2>1. PICK ops : ops = Append(transactions[n].ops, op)
    OBVIOUS
  <2>2. Queue(IF opened THEN ops ELSE <<>>)
    BY <1>1, <2>1 DEF Current
  <2> QED  BY <1>1, <1>3, <2>1, <2>2, QueuedIs DEF DInv, SInv
<1>5. PICK d : d = Contents(heap)
  OBVIOUS
<1>6. PICK x : Leads(x, us, states, i, n, e)
  BY <1>2, <1>4, <1>5, FullLeads
<1>7. states' = states /\ current' = current /\ opened' = TRUE
  BY SInvFacts DEF DInv, Edited
<1>8. e = Contents(i)
  OBVIOUS
<1>9. Tells(us, i, states, current, TRUE)
  BY <1>1, <1>6, <1>8, LeadsOn
<1> QED  BY <1>3, <1>7, <1>9

LEMMA ClearContainerTold ==
  ASSUME MaxClears <= 1, DInv, LInv', NEW c \in Containers, ClearContainer(c)
  PROVE  Tells(transactions', heap', states', current', opened')
<1>1. CASE ClosedLists
  BY <1>1, ClosedTold DEF ClearContainer, DInv
<1>2. CASE OpenLists
  <2>1. PICK w : Told(w, transactions, heap, states, current, opened)
    BY DEF DInv, Tells
  <2>2. PICK layer : layer = heap.held[c]
    OBVIOUS
  <2>3. layer # NoLayer /\ layer \in Layers /\ heap \in Heaps
    BY <2>2, LInvFacts DEF ClearContainer, Heaps, DInv, SInv
  <2>4. PICK i : i = heap'
    OBVIOUS
  <2>5. i = TakeLayer(heap, c, layer)
    <3>1. i = [heap EXCEPT !.held[c] = NoLayer]
      BY <1>2, <2>4 DEF ClearContainer, OpenLists
    <3> QED  BY <2>2, <3>1 DEF TakeLayer
  <2>6. Takes(heap, i, c, layer) /\ i.content = heap.content
    BY <2>3, <2>5, TakeLayerIs
  <2>7. PICK d : d = Contents(heap)
    OBVIOUS
  <2>8. PICK e \in Documents : e = Contents(i)
    BY <2>4, NextDocument
  <2>9. Becomes(d, e, c, NoShapes)
    BY <2>2, <2>3, <2>6, <2>7, <2>8, TakeContents
  <2>10. PICK op : op = FullLayerOp(c, FALSE, layer)
    OBVIOUS
  <2>11. op \in AllOps /\ op.layer = layer /\ op.obj = c /\ ~op.insert /\ op.owns
    <3>1. op \in AllOps
      BY <2>3, <2>10, FullLayerOpIs DEF IsWay
    <3> QED  BY <2>10, <3>1 DEF FullLayerOp
  <2>12. Does(op, d, e)
    BY <2>3, <2>9, <2>11 DEF Does, Becomes
  <2>13. Stashed(w, View(transactions), i)
    BY <2>1, <2>6 DEF Told, Stashed
  <2>14. Stashes(op, i, d, e)
    <3>1. d[c] = heap.content[layer]
      BY <2>2, <2>3, <2>7, ContentsAt
    <3> QED  BY <2>6, <2>11, <3>1 DEF Stashes
  <2>15. Queue(IF opened THEN Append(Current.ops, op) ELSE <<>>) /\ Edited
    BY <2>2, <2>10 DEF ClearContainer
  <2>16. e = Contents(heap') /\ Does(op, Contents(heap), e) /\ Stashes(op, i, Contents(heap), e) /\ op.layer # NoLayer
    BY <2>3, <2>4, <2>7, <2>8, <2>11, <2>12, <2>14
  <2> QED  BY <1>2, <2>1, <2>4, <2>11, <2>13, <2>15, <2>16, FullTold
<1> QED  BY <1>1, <1>2, SInvFacts DEF DInv

\* A container without a layer gets a new one.
Copied(h, i, c, bag, l, taken) ==
  Fills(h, i, c, taken) /\ Writes(h, i, c, bag) /\ i.held[c] = l /\ l \in Layers /\ l # NoLayer

LEMMA CopiedIs ==
  ASSUME LInv, NEW c \in Containers, heap.held[c] = NoLayer, NEW bag \in ShapeBags,
         NEW new, new = NewLayer(heap, bag), heap' = [new.heap EXCEPT !.held[c] = new.layer], NEW i, i = heap'
  PROVE  Copied(heap, i, c, bag, new.layer, LayersOf(transactions))
<1>1. heap \in Heaps /\ MadeLayer(heap, bag, new)
  BY LInvFacts, RoomForLayer, NewLayerIs
<1>2. PICK l : l = new.layer /\ l \in FreeLayers(heap)
  BY <1>1 DEF MadeLayer
<1>3. l \in Layers /\ l \notin heap.alive /\ l \notin LayersOf(transactions) /\ l # NoLayer
  BY <1>2 DEF FreeLayers, Layers, NoLayer
<1>4. i = [held |-> [heap.held EXCEPT ![c] = l], alive |-> heap.alive \cup {l},
           content |-> [heap.content EXCEPT ![l] = bag]]
  <2>1. PICK m : m = new.heap
    OBVIOUS
  <2>2. m = [held |-> heap.held, alive |-> heap.alive \cup {l}, content |-> [heap.content EXCEPT ![l] = bag]]
    BY <1>1, <1>2, <2>1 DEF MadeLayer
  <2>3. i = [m EXCEPT !.held[c] = l]
    BY <1>2, <2>1
  <2> QED  BY <2>2, <2>3
<1>5. i \in Heaps /\ i.held[c] = l
  <2>1. [heap.held EXCEPT ![c] = l] \in [Containers -> {NoLayer} \cup Layers] /\ [heap.held EXCEPT ![c] = l][c] = l
    BY <1>1, <1>3 DEF Heaps
  <2>2. [heap.content EXCEPT ![l] = bag] \in [Layers -> ShapeBags]
    BY <1>1, <1>3 DEF Heaps
  <2>3. heap.alive \cup {l} \in SUBSET Layers
    BY <1>1, <1>3 DEF Heaps
  <2> QED  BY <1>4, <2>1, <2>2, <2>3 DEF Heaps
<1>6. Fills(heap, i, c, LayersOf(transactions))
  <2>1. \A d \in Containers : d # c => i.held[d] = heap.held[d]
    BY <1>1, <1>4 DEF Heaps
  <2>2. i.held[c] \notin heap.alive \cup LayersOf(transactions) /\ i.alive = heap.alive \cup {i.held[c]}
    BY <1>3, <1>4, <1>5
  <2> QED  BY <1>3, <1>5, <2>1, <2>2 DEF Fills
<1>7. Writes(heap, i, c, bag)
  <2>1. PICK b : b = heap.content
    OBVIOUS
  <2>2. b \in [Layers -> ShapeBags] /\ i.content = [b EXCEPT ![l] = bag]
    BY <1>1, <1>4, <2>1 DEF Heaps
  <2>3. i.content[l] = bag /\ \A y \in Layers : y # l => i.content[y] = b[y]
    BY <1>3, <2>2
  <2> QED  BY <1>5, <2>1, <2>3 DEF Writes
<1> QED  BY <1>2, <1>3, <1>5, <1>6, <1>7 DEF Copied

LEMMA CopyFromTold ==
  ASSUME MaxClears <= 1, DInv, LInv', NEW c \in Containers, NEW b \in Containers, CopyFrom(c, b)
  PROVE  Tells(transactions', heap', states', current', opened')
<1>1. LInv
  BY DEF DInv, SInv
<1>2. PICK bag \in ShapeBags : bag = Contents(heap)[b]
  BY <1>1, ContentsOf
<1>3. PICK new : new = NewLayer(heap, bag)
  OBVIOUS
<1>4. CASE ClosedLists
  <2>1. CanEdit /\ Edited /\ \E ops : Queue(ops)
    BY DEF CopyFrom, Record
  <2> QED  BY <1>4, <2>1, ClosedTold DEF DInv
<1>5. CASE /\ OpenLists /\ heap.held[c] = NoLayer
           /\ Queue(IF opened THEN Append(Current.ops, FullLayerOp(c, TRUE, new.layer)) ELSE <<>>)
           /\ heap' = [new.heap EXCEPT !.held[c] = new.layer]
  <2>1. PICK w : Told(w, transactions, heap, states, current, opened)
    BY DEF DInv, Tells
  <2>2. PICK i : i = heap'
    OBVIOUS
  <2>3. PICK f : f = View(transactions)
    OBVIOUS
  <2>4. heap \in Heaps /\ IsView(f) /\ Apart(heap, f) /\ LayersIn(f) = LayersOf(transactions)
    <3>1. heap \in Heaps /\ Listed(transactions) /\ Good(heap, f) /\ LayersIn(f) = LayersOf(transactions)
      BY <1>1, <2>3, LInvFacts DEF Sound
    <3> QED  BY <2>3, <3>1, ViewIs DEF Good
  <2>5. /\ Fills(heap, i, c, LayersIn(f)) /\ Writes(heap, i, c, bag)
        /\ i.held[c] = new.layer /\ new.layer \in Layers /\ new.layer # NoLayer
    <3>1. Copied(heap, i, c, bag, new.layer, LayersOf(transactions))
      BY <1>1, <1>3, <1>5, <2>2, CopiedIs
    <3> QED  BY <2>4, <3>1 DEF Copied
  <2>6. PICK d : d = Contents(heap)
    OBVIOUS
  <2>7. PICK e \in Documents : e = Contents(i)
    BY <2>2, NextDocument
  <2>8. Becomes(d, e, c, bag)
    BY <2>4, <2>5, <2>6, <2>7, WriteContents
  <2>9. PICK op : op = FullLayerOp(c, TRUE, new.layer)
    OBVIOUS
  <2>10. op \in AllOps /\ op.layer # NoLayer /\ op.obj = c /\ op.insert /\ ~op.owns
    <3>1. op \in AllOps
      BY <2>5, <2>9, FullLayerOpIs DEF IsWay
    <3> QED  BY <2>5, <2>9, <3>1 DEF FullLayerOp
  <2>11. Does(op, d, e)
    <3>1. d[c] = NoShapes
      BY <1>5, <2>6, ContentsAt
    <3> QED  BY <2>8, <2>10, <3>1 DEF Does, Becomes
  <2>12. Stashed(w, f, i)
    <3>1. Stashed(w, f, heap)
      BY <2>1, <2>3 DEF Told
    <3> QED  BY <2>4, <2>5, <3>1, StashWritten
  <2>13. Stashes(op, i, d, e)
    BY <2>10 DEF Stashes
  <2>14. Queue(IF opened THEN Append(Current.ops, op) ELSE <<>>) /\ Edited
    BY <1>5, <2>9 DEF CopyFrom
  <2>15. e = Contents(heap') /\ Does(op, Contents(heap), e) /\ Stashes(op, i, Contents(heap), e)
    BY <2>2, <2>6, <2>7, <2>11, <2>13
  <2>16. Stashed(w, View(transactions), i)
    BY <2>3, <2>12
  <2> QED  BY <1>5, <2>1, <2>2, <2>10, <2>14, <2>15, <2>16, FullTold
<1>6. CASE OpenLists /\ Record(LayerOp(c, TRUE, bag)) /\ heap' = InsertShapes(heap, c, bag)
  <2>1. PICK op : op = LayerOp(c, TRUE, bag)
    OBVIOUS
  <2>2. op \in AllOps /\ op.layer = NoLayer
    BY <2>1, LayerOpIs DEF IsWay
  <2>3. PICK sum \in ShapeBags : sum = Plus(Contents(heap)[c], bag)
    BY <1>1, ContentsOf, BagsClosed
  <2>4. Record(op) /\ heap' = SetShapes(heap, c, sum) /\ Edited
    BY <1>6, <2>1, <2>3 DEF InsertShapes, CopyFrom
  <2>5. \A e : Becomes(Contents(heap), e, c, sum) => Does(op, Contents(heap), e)
    BY <2>1, <2>3, InsertsDoes
  <2> QED  BY <1>6, <2>2, <2>4, <2>5, WriteTold
<1>7. ClosedLists \/ OpenLists
  BY SInvFacts DEF DInv
<1>8. \/ heap.held[c] = NoLayer /\ Queue(IF opened THEN Append(Current.ops, FullLayerOp(c, TRUE, new.layer)) ELSE <<>>)
         /\ heap' = [new.heap EXCEPT !.held[c] = new.layer]
      \/ Record(LayerOp(c, TRUE, bag)) /\ heap' = InsertShapes(heap, c, bag)
  BY <1>2, <1>3 DEF CopyFrom
<1> QED  BY <1>4, <1>5, <1>6, <1>7, <1>8

-----------------------------------------------------------------------------
(* The history is cut                                                      *)

\* Operations are deleted, with their layers: nothing that is left tells of them.
CutTells(w, ts, us, h, i) == Chain(w, us) /\ Stashed(w, View(us), i) /\ Contents(i) = Contents(h)

LEMMA CutTold ==
  ASSUME NEW ts, Listed(ts), NEW h \in Heaps, Good(h, View(ts)), NEW n, n \in 0..Len(ts),
         NEW us, us = SubSeq(ts, 1, n), NEW rest, rest = SubSeq(ts, n + 1, Len(ts)),
         NEW i, i = Delete(h, OwnedBy(rest)), NEW w, Chain(w, ts), Stashed(w, View(ts), h)
  PROVE  CutTells(w, ts, us, h, i)
<1>1. PICK f : f = View(ts)
  OBVIOUS
<1>2. PICK g : g = View(us)
  OBVIOUS
<1>3. PICK ls : ls = OwnedBy(rest)
  OBVIOUS
<1>4. CutTo(f, g) /\ CutOff(f, g) = ls \ {NoLayer}
  BY <1>1, <1>2, <1>3, ViewCut
<1>5. IsView(f) /\ Plan(f) /\ HeldUnowned(h, f)
  BY <1>1, ViewIs DEF Good, Apart
<1>6. i \in Heaps /\ i.held = h.held /\ Preserves(h, i, ls)
  BY <1>3, DeleteIs DEF Deletes
<1>7. Contents(i) = Contents(h)
  <2>1. ASSUME NEW c \in Containers, h.held[c] \in ls, h.held[c] # NoLayer PROVE FALSE
    <3>1. h.held[c] \in CutOff(f, g)
      BY <1>4, <2>1
    <3> QED  BY <1>5, <3>1 DEF CutOff, HeldUnowned
  <2> QED  BY <1>6, <2>1, DeleteContents
<1>8. Stashed(w, g, i)
  <2> SUFFICES ASSUME NEW p \in DOMAIN g, g[p].owns
               PROVE  i.content[g[p].layer] = (IF g[p].insert THEN w[p] ELSE w[Prior(p)])[g[p].obj]
    BY DEF Stashed
  <2>1. p \in DOMAIN f /\ f[p] = g[p] /\ f[p].owns
    BY <1>4 DEF CutTo
  <2>2. f[p].layer \in Layers /\ f[p].layer # NoLayer
    BY <1>5, <2>1 DEF IsView, FullOps, AllOps
  <2>3. f[p].layer \notin ls
    <3> SUFFICES ASSUME f[p].layer \in ls PROVE FALSE
      OBVIOUS
    <3>1. PICK q \in DOMAIN f \ DOMAIN g : f[q].owns /\ f[q].layer = f[p].layer
      BY <1>4, <2>2 DEF CutOff
    <3>2. p = q
      BY <1>5, <2>1, <3>1, OwnersDiffer
    <3> QED  BY <3>1, <3>2
  <2>4. i.content[f[p].layer] = h.content[f[p].layer]
    BY <1>6, <2>2, <2>3 DEF Preserves
  <2>5. h.content[f[p].layer] = (IF f[p].insert THEN w[p] ELSE w[Prior(p)])[f[p].obj]
    BY <1>1, <2>1 DEF Stashed
  <2> QED  BY <2>1, <2>4, <2>5
<1>9. Chain(w, us)
  <2>1. DOMAIN us = 1..n /\ \A t \in 1..n : us[t] = ts[t]
    BY CutIs
  <2>2. DOMAIN ts = 1..Len(ts) /\ Len(ts) \in Nat
    BY ListedLen
  <2>3. \A t \in DOMAIN us : t \in DOMAIN ts /\ us[t] = ts[t]
    BY <2>1, <2>2
  <2> QED  BY <2>3 DEF Chain
<1> QED  BY <1>2, <1>7, <1>8, <1>9 DEF CutTells

\* The states of a history that was cut, and the one after its last transaction, if there is one.
LEMMA EndsCut ==
  ASSUME NEW ts, Listed(ts), NEW n, n \in 0..Len(ts), NEW us, us = SubSeq(ts, 1, n),
         NEW w, NEW s, Ends(w, ts, s), NEW r, r \in Seq(Documents), \A t \in 1..n : r[t] = s[t], n \in 0..Len(s),
         n \in DOMAIN ts /\ n + 1 \in DOMAIN r => r[n + 1] = w[<<n, Len(ts[n].ops)>>],
         s \in Seq(Documents)
  PROVE  Ends(w, us, r)
<1>1. DOMAIN us = 1..n /\ \A t \in 1..n : us[t] = ts[t]
  BY CutIs
<1>2. DOMAIN ts = 1..Len(ts) /\ Len(ts) \in Nat
  BY ListedLen
<1>3. DOMAIN s = 1..Len(s) /\ Len(s) \in Nat
  BY LenProperties
<1> SUFFICES ASSUME NEW t \in DOMAIN us
             PROVE  w[<<t, 0>>] = r[t] /\ (t + 1 \in DOMAIN r => w[<<t, Len(us[t].ops)>>] = r[t + 1])
  BY DEF Ends
<1>4. t \in 1..n /\ t \in DOMAIN ts /\ us[t] = ts[t] /\ t \in Nat /\ n \in Nat
  BY <1>1, <1>2
<1>5. w[<<t, 0>>] = s[t] /\ (t + 1 \in DOMAIN s => w[<<t, Len(ts[t].ops)>>] = s[t + 1])
  BY <1>4 DEF Ends
<1>6. CASE t = n
  BY <1>4, <1>5, <1>6
<1>7. CASE t # n
  <2>1. t + 1 \in 1..n /\ t + 1 \in DOMAIN s
    BY <1>3, <1>4, <1>7
  <2>2. r[t] = s[t] /\ r[t + 1] = s[t + 1]
    BY <1>4, <2>1
  <2> QED  BY <1>4, <1>5, <2>1, <2>2
<1> QED  BY <1>6, <1>7

\* A closed history of the transactions us, the n-th place of which the document has come to.
Settled(w, us, s, h, n) ==
  /\ Listed(us) /\ n \in 0..Len(us) /\ s \in Seq(Documents) /\ Len(s) = Len(us) + 1
  /\ Chain(w, us) /\ Ends(w, us, s) /\ Stashed(w, View(us), h) /\ s[n + 1] = Contents(h)

LEMMA SettledTold ==
  ASSUME NEW w, NEW us, NEW s, NEW h, NEW n, Settled(w, us, s, h, n)
  PROVE  Tells(us, h, s, n, FALSE)
<1>1. AtPlace(w, us, Contents(h), s, n, FALSE)
  BY DEF Settled, AtPlace
<1>2. Told(w, us, h, s, n, FALSE)
  BY <1>1 DEF Told, Settled
<1> QED  BY <1>2 DEF Tells

LEMMA SettledIs ==
  ASSUME MaxClears <= 1, DInv, NEW n, n = (IF opened THEN CloseCurrent ELSE current)
  PROVE  \E w : Settled(w, Previous(n), StatesTo(n), heap, n)
<1>1. PICK w : Told(w, transactions, heap, states, current, opened)
  BY DEF DInv, Tells
<1>2. Chain(w, transactions) /\ Stashed(w, View(transactions), heap) /\ Ends(w, transactions, states)
      /\ AtPlace(w, transactions, Contents(heap), states, current, opened)
  BY <1>1 DEF Told
<1>3. LInv /\ SInv
  BY DEF DInv, SInv
<1>4. Listed(transactions) /\ heap \in Heaps /\ Good(heap, View(transactions))
  BY <1>3, LInvFacts DEF Sound
<1>5. states \in Seq(Documents) /\ Contents(heap) \in Documents
  BY <1>3, SInvFacts
<1>6. CASE ClosedLists
  <2>1. opened = FALSE /\ current \in 0..Len(transactions) /\ Len(states) = Len(transactions) + 1
    BY <1>3, <1>6, SInvFacts
  <2>2. n = current /\ Previous(n) = transactions /\ StatesTo(n) = states
    BY <2>1 DEF Previous, StatesTo
  <2>3. states[current + 1] = Contents(heap)
    BY <1>2, <2>1 DEF AtPlace
  <2>4. Settled(w, transactions, states, heap, current)
    BY <1>2, <1>4, <1>5, <2>1, <2>3 DEF Settled
  <2> QED  BY <2>2, <2>4
<1>7. CASE OpenLists
  <2>1. opened = TRUE /\ current \in Nat /\ Len(transactions) = current + 1 /\ Len(states) = current + 1
    BY <1>3, <1>7, SInvFacts
  <2>2. n = CloseCurrent /\ Previous(n) = SubSeq(transactions, 1, n)
    BY <2>1 DEF Previous, Before
  <2>3. n \in 0..Len(transactions) /\ Len(Before(n)) = n /\ StatesTo(n) \in Seq(Documents) /\ Len(StatesTo(n)) = n + 1
    BY <1>3, <1>7, <2>2, Ended
  <2>4. n = current \/ n = current + 1
    BY <1>7, <2>2, Opened
  <2>5. PICK us : us = SubSeq(transactions, 1, n)
    OBVIOUS
  <2>6. PICK r \in Seq(Documents) : r = StatesTo(n)
    BY <2>3
  <2>7. Listed(us) /\ Len(us) = n /\ DOMAIN us = 1..n /\ \A t \in 1..n : us[t] = transactions[t]
    BY <1>4, <2>3, <2>5, CutIs
  <2>8. DOMAIN transactions = 1..(current + 1) /\ DOMAIN r = 1..(n + 1) /\ DOMAIN states = 1..(current + 1)
    <3>1. Len(r) = n + 1
      BY <2>3, <2>6
    <3> QED  BY <1>4, <1>5, <2>1, <2>6, <3>1, ListedLen, LenProperties
  <2>9. \A t \in 1..(current + 1) : r[t] = states[t]
    <3>1. PICK c : c = SubSeq(states, 1, current + 1)
      OBVIOUS
    <3>2. c \in Seq(Documents) /\ Len(c) = current + 1 /\ \A t \in 1..(current + 1) : c[t] = states[t]
      BY <1>5, <2>1, <3>1, StatesCut
    <3>3. CASE n > current
      <4>1. r = c \o <<Contents(heap)>>
        BY <2>1, <2>6, <3>1, <3>3 DEF StatesTo
      <4>2. \A t \in 1..(current + 1) : r[t] = c[t]
        BY <1>5, <3>2, <4>1, StatesLonger
      <4> QED  BY <3>2, <4>2
    <3>4. CASE ~(n > current)
      <4>1. r = c \o <<>>
        BY <2>1, <2>6, <3>1, <3>4 DEF StatesTo
      <4>2. r = c
        BY <3>2, <4>1, ConcatEmptySeq
      <4> QED  BY <3>2, <4>2
    <3> QED  BY <3>3, <3>4
  <2>10. r[n + 1] = Contents(heap) /\ (n \in DOMAIN transactions => r[n + 1] = w[<<n, Len(transactions[n].ops)>>])
    <3>1. Contents(heap) = w[<<current + 1, Len(transactions[current + 1].ops)>>]
      BY <1>2, <2>1 DEF AtPlace
    <3>2. CASE n = current + 1
      <4>1. PICK c : c = SubSeq(states, 1, current + 1)
        OBVIOUS
      <4>2. c \in Seq(Documents) /\ Len(c) = current + 1
        BY <1>5, <2>1, <4>1, StatesCut
      <4>3. n > current
        BY <2>1, <3>2
      <4>4. r = c \o <<Contents(heap)>>
        BY <2>1, <2>6, <4>1, <4>3 DEF StatesTo
      <4>5. r[Len(c) + 1] = Contents(heap)
        BY <1>5, <4>2, <4>4, StatesLonger
      <4>6. r[n + 1] = Contents(heap)
        BY <3>2, <4>2, <4>5
      <4> QED  BY <3>1, <3>2, <4>6
    <3>3. CASE n = current
      <4>1. n # current + 1
        BY <2>1, <3>3
      <4>2. transactions[current + 1].ops = <<>>
        BY <2>2, <4>1 DEF CloseCurrent, Current
      <4>3. Len(transactions[current + 1].ops) = 0
        BY <4>2
      <4>4. current + 1 \in DOMAIN transactions /\ current + 1 \in 1..(current + 1)
        BY <2>1, <2>8
      <4>5. w[<<current + 1, 0>>] = states[current + 1]
        BY <1>2, <4>4 DEF Ends
      <4>6. r[n + 1] = states[current + 1]
        BY <2>9, <3>3, <4>4
      <4>7. ASSUME n \in DOMAIN transactions PROVE states[n + 1] = w[<<n, Len(transactions[n].ops)>>]
        BY <1>2, <2>8, <3>3, <4>4, <4>7 DEF Ends
      <4> QED  BY <3>1, <3>3, <4>3, <4>5, <4>6, <4>7
    <3> QED  BY <2>4, <3>2, <3>3
  <2>11. \A t \in 1..n : r[t] = states[t]
    BY <2>1, <2>4, <2>9
  <2>12. n \in 0..Len(states)
    BY <2>1, <2>3
  <2>13. Ends(w, us, r)
    BY <1>2, <1>4, <1>5, <2>3, <2>5, <2>10, <2>11, <2>12, EndsCut
  <2>14. PICK rest : rest = SubSeq(transactions, n + 1, Len(transactions))
    OBVIOUS
  <2>15. PICK i : i = Delete(heap, OwnedBy(rest))
    OBVIOUS
  <2>16. Chain(w, us)
    <3>1. CutTells(w, transactions, us, heap, i)
      BY <1>2, <1>4, <2>3, <2>5, <2>14, <2>15, CutTold
    <3> QED  BY <3>1 DEF CutTells
  <2>17. View(us) = View(transactions)
    <3>1. ASSUME NEW t \in DOMAIN transactions, NEW j \in DOMAIN transactions[t].ops PROVE t \in 1..n
      <4>1. CASE n = current + 1
        BY <2>8, <3>1, <4>1
      <4>2. CASE n # current + 1
        <5>1. n = current /\ Current.ops = <<>>
          BY <2>2, <2>4, <4>2 DEF CloseCurrent
        <5>2. t # current + 1
          BY <3>1, <5>1 DEF Current
        <5> QED  BY <2>1, <2>8, <3>1, <5>1, <5>2
      <4> QED  BY <4>1, <4>2
    <3>2. \A t \in DOMAIN transactions : \A j \in DOMAIN transactions[t].ops : transactions[t].ops[j].layer # NoLayer =>
            t \in DOMAIN us /\ j \in DOMAIN us[t].ops /\ us[t].ops[j] = transactions[t].ops[j]
      BY <2>7, <3>1
    <3>3. \A t \in 1..n : t \in DOMAIN transactions
      BY <2>1, <2>4, <2>8
    <3>4. \A t \in DOMAIN us : \A j \in DOMAIN us[t].ops : us[t].ops[j].layer # NoLayer =>
            t \in DOMAIN transactions /\ j \in DOMAIN transactions[t].ops /\ transactions[t].ops[j] = us[t].ops[j]
      BY <2>7, <3>3
    <3> QED  BY <1>4, <2>7, <3>2, <3>4, SameView
  <2>18. n \in 0..Len(us) /\ Len(r) = Len(us) + 1
    BY <2>3, <2>6, <2>7
  <2>19. Settled(w, us, r, heap, n)
    BY <1>2, <2>7, <2>10, <2>13, <2>16, <2>17, <2>18 DEF Settled
  <2> QED  BY <2>2, <2>5, <2>6, <2>19
<1> QED  BY <1>3, <1>6, <1>7, SInvFacts

\* A new, empty transaction is open at the end.
LEMMA NewTold ==
  ASSUME NEW w, NEW cut, NEW r, NEW i, NEW n, Settled(w, cut, r, i, n), n = Len(cut),
         NEW id \in Ids, NEW new, new = Append(cut, [id |-> id, ops |-> <<>>])
  PROVE  Tells(new, i, r, n, TRUE)
<1>1. /\ Listed(cut) /\ r \in Seq(Documents) /\ Len(r) = n + 1 /\ Chain(w, cut) /\ Ends(w, cut, r)
      /\ Stashed(w, View(cut), i) /\ r[n + 1] = Contents(i)
  BY DEF Settled
<1>2. DOMAIN cut = 1..n /\ n \in Nat /\ DOMAIN r = 1..(n + 1)
  BY <1>1, ListedLen, LenProperties
<1>3. PICK last : last = [id |-> id, ops |-> <<>>]
  OBVIOUS
<1>4. new = Append(cut, last) /\ last.ops = <<>>
  BY <1>3
<1>5. DOMAIN new = 1..(n + 1) /\ new[n + 1] = last /\ \A t \in 1..n : new[t] = cut[t]
  <2>1. last \in [id : Ids, ops : Seq(AllOps)]
    BY <1>3
  <2>2. cut \in Seq([id : Ids, ops : Seq(AllOps)])
    BY <1>1 DEF Listed
  <2> QED  BY <1>2, <1>4, <2>1, <2>2, AppendProperties
<1>6. View(new) = View(cut)
  BY <1>1, ViewLonger
<1>7. PICK e \in Documents : e = r[n + 1]
  <2>1. n + 1 \in DOMAIN r
    BY <1>2
  <2> QED  BY <1>1, <2>1, ElementOfSeq
<1>8. PICK x : Wrote(w, x, n + 1, 0, e)
  <2>1. w \in Papers /\ n + 1 \in Nat
    BY <1>1, <1>2 DEF Chain
  <2> QED  BY <2>1, Written
<1>9. x \in Papers /\ x[<<n + 1, 0>>] = e /\ Elsewhere(w, x, <<n + 1, 0>>)
  BY <1>8 DEF Wrote
<1>10. ASSUME NEW t \in 1..n, NEW k \in Nat PROVE x[<<t, k>>] = w[<<t, k>>]
  <2>1. <<t, k>> \in Places /\ <<t, k>> # <<n + 1, 0>>
    BY <1>2 DEF Places
  <2> QED  BY <1>9, <2>1 DEF Elsewhere
<1>11. ASSUME NEW t \in 1..n PROVE DOMAIN cut[t].ops = 1..Len(cut[t].ops) /\ Len(cut[t].ops) \in Nat
  <2>1. PICK o \in Seq(AllOps) : o = cut[t].ops
    BY <1>1, <1>2, ListedIs
  <2> QED  BY <2>1, OpsLen
<1>12. ASSUME NEW t \in DOMAIN new, NEW k \in DOMAIN new[t].ops PROVE Does(new[t].ops[k], x[<<t, k - 1>>], x[<<t, k>>])
  <2>1. CASE t = n + 1
    <3>1. new[t].ops = <<>>
      BY <1>4, <1>5, <2>1
    <3> QED  BY <1>12, <3>1
  <2>2. CASE t # n + 1
    <3>1. t \in 1..n
      BY <1>2, <1>5, <2>2
    <3>2. new[t] = cut[t]
      BY <1>5, <3>1
    <3>3. k \in Nat /\ k - 1 \in Nat
      BY <1>11, <3>1, <3>2
    <3>4. x[<<t, k - 1>>] = w[<<t, k - 1>>] /\ x[<<t, k>>] = w[<<t, k>>]
      BY <1>10, <3>1, <3>3
    <3>5. Does(cut[t].ops[k], w[<<t, k - 1>>], w[<<t, k>>])
      BY <1>1, <1>2, <3>1, <3>2 DEF Chain
    <3> QED  BY <3>2, <3>4, <3>5
  <2> QED  BY <2>1, <2>2
<1>13. Chain(x, new)
  BY <1>9, <1>12 DEF Chain
<1>14. ASSUME NEW t \in DOMAIN new
       PROVE  x[<<t, 0>>] = r[t] /\ (t + 1 \in DOMAIN r => x[<<t, Len(new[t].ops)>>] = r[t + 1])
  <2>1. CASE t = n + 1
    <3>1. t + 1 \notin DOMAIN r
      BY <1>2, <2>1
    <3> QED  BY <1>7, <1>9, <2>1, <3>1
  <2>2. CASE t # n + 1
    <3>1. t \in 1..n
      BY <1>2, <1>5, <2>2
    <3>2. new[t] = cut[t] /\ Len(cut[t].ops) \in Nat
      BY <1>5, <1>11, <3>1
    <3>3. x[<<t, 0>>] = w[<<t, 0>>] /\ x[<<t, Len(cut[t].ops)>>] = w[<<t, Len(cut[t].ops)>>]
      BY <1>10, <3>1, <3>2
    <3>4. w[<<t, 0>>] = r[t] /\ (t + 1 \in DOMAIN r => w[<<t, Len(cut[t].ops)>>] = r[t + 1])
      BY <1>1, <1>2, <3>1 DEF Ends
    <3> QED  BY <3>2, <3>3, <3>4
  <2> QED  BY <2>1, <2>2
<1>15. Ends(x, new, r)
  BY <1>14 DEF Ends
<1>16. Stashed(x, View(new), i)
  <2>1. n + 1 \notin DOMAIN cut /\ n + 1 \in Nat
    BY <1>2
  <2>2. Stashed(x, View(cut), i)
    BY <1>1, <1>9, <2>1, StashElsewhere
  <2> QED  BY <1>6, <2>2
<1>17. AtPlace(x, new, Contents(i), r, n, TRUE)
  <2>1. new[n + 1].ops = <<>>
    BY <1>4, <1>5
  <2>2. Len(new[n + 1].ops) = 0
    BY <2>1
  <2> QED  BY <1>1, <1>7, <1>9, <2>2 DEF AtPlace
<1>18. Told(x, new, i, r, n, TRUE)
  BY <1>13, <1>15, <1>16, <1>17 DEF Told
<1> QED  BY <1>18 DEF Tells

\* The transactions after the n-th are deleted.
LEMMA SettledCut ==
  ASSUME NEW w, NEW us, NEW s, NEW h \in Heaps, NEW n, Settled(w, us, s, h, n), Good(h, View(us)),
         NEW cut, cut = SubSeq(us, 1, n), NEW i, i = Delete(h, OwnedBy(SubSeq(us, n + 1, Len(us)))),
         NEW r, r = SubSeq(s, 1, n + 1)
  PROVE  Settled(w, cut, r, i, n)
<1>1. /\ Listed(us) /\ n \in 0..Len(us) /\ s \in Seq(Documents) /\ Len(s) = Len(us) + 1
      /\ Chain(w, us) /\ Ends(w, us, s) /\ Stashed(w, View(us), h) /\ s[n + 1] = Contents(h)
  BY DEF Settled
<1>2. DOMAIN us = 1..Len(us) /\ Len(us) \in Nat /\ DOMAIN s = 1..(Len(us) + 1) /\ n \in Nat
  BY <1>1, ListedLen, LenProperties
<1>3. Listed(cut) /\ Len(cut) = n
  BY <1>1, CutIs
<1>4. PICK rest : rest = SubSeq(us, n + 1, Len(us))
  OBVIOUS
<1>5. CutTells(w, us, cut, h, i)
  <2>1. i = Delete(h, OwnedBy(rest))
    BY <1>4
  <2> QED  BY <1>1, <1>4, <2>1, CutTold
<1>6. r \in Seq(Documents) /\ Len(r) = n + 1 /\ \A t \in 1..(n + 1) : r[t] = s[t]
  <2>1. n + 1 \in 0..Len(s)
    BY <1>1, <1>2
  <2> QED  BY <1>1, <2>1, StatesCut
<1>7. r[n + 1] = s[n + 1] /\ (\A t \in 1..n : r[t] = s[t]) /\ n \in 0..Len(s)
  BY <1>1, <1>2, <1>6
<1>8. ASSUME n \in DOMAIN us PROVE r[n + 1] = w[<<n, Len(us[n].ops)>>]
  <2>1. n + 1 \in DOMAIN s
    BY <1>1, <1>2
  <2> QED  BY <1>1, <1>7, <1>8, <2>1 DEF Ends
<1>9. Ends(w, cut, r)
  BY <1>1, <1>6, <1>7, <1>8, EndsCut
<1>10. n \in 0..Len(cut) /\ Len(r) = Len(cut) + 1
  BY <1>1, <1>2, <1>3, <1>6
<1> QED  BY <1>1, <1>3, <1>5, <1>6, <1>7, <1>9, <1>10 DEF Settled, CutTells

\* The last transaction is continued.
LEMMA JoinTold ==
  ASSUME NEW w, NEW us, NEW s, NEW h, NEW n, Settled(w, us, s, h, n), n = Len(us), us # <<>>,
         NEW r, r = SubSeq(s, 1, n), NEW m, m = n - 1
  PROVE  Tells(us, h, r, m, TRUE)
<1>1. /\ Listed(us) /\ s \in Seq(Documents) /\ Len(s) = n + 1
      /\ Chain(w, us) /\ Ends(w, us, s) /\ Stashed(w, View(us), h) /\ s[n + 1] = Contents(h)
  BY DEF Settled
<1>2. DOMAIN us = 1..n /\ n \in Nat /\ DOMAIN s = 1..(n + 1)
  BY <1>1, ListedLen, LenProperties
<1>3. n \in 1..n
  <2>1. n # 0
    BY <1>1, EmptySeq DEF Listed
  <2> QED  BY <1>2, <2>1
<1>4. r \in Seq(Documents) /\ Len(r) = n /\ (\A t \in 1..n : r[t] = s[t]) /\ DOMAIN r = 1..n
  <2>1. n \in 0..Len(s)
    BY <1>1, <1>2
  <2>2. r \in Seq(Documents) /\ Len(r) = n /\ \A t \in 1..n : r[t] = s[t]
    BY <1>1, <2>1, StatesCut
  <2> QED  BY <2>2, LenProperties
<1>5. Ends(w, us, r)
  <2> SUFFICES ASSUME NEW t \in 1..n
               PROVE  w[<<t, 0>>] = r[t] /\ (t + 1 \in 1..n => w[<<t, Len(us[t].ops)>>] = r[t + 1])
    BY <1>2, <1>4 DEF Ends
  <2>1. w[<<t, 0>>] = s[t] /\ (t + 1 \in 1..(n + 1) => w[<<t, Len(us[t].ops)>>] = s[t + 1])
    BY <1>1, <1>2 DEF Ends
  <2>2. t + 1 \in 1..n => t + 1 \in 1..(n + 1)
    BY <1>2
  <2> QED  BY <1>4, <2>1, <2>2
<1>6. w[<<n, Len(us[n].ops)>>] = s[n + 1]
  <2>1. n + 1 \in DOMAIN s
    BY <1>2
  <2> QED  BY <1>1, <1>2, <1>3, <2>1 DEF Ends
<1>7. AtPlace(w, us, Contents(h), r, m, TRUE)
  <2>1. m + 1 = n
    BY <1>2
  <2> QED  BY <1>1, <1>6, <2>1 DEF AtPlace
<1>8. Told(w, us, h, r, m, TRUE)
  BY <1>1, <1>5, <1>7 DEF Told
<1> QED  BY <1>8 DEF Tells

LEMMA TransactionTold ==
  ASSUME MaxClears <= 1, DInv, NEW join, Transaction(join)
  PROVE  Tells(transactions', heap', states', current', opened')
<1>1. PICK n : n = (IF opened THEN CloseCurrent ELSE current)
  OBVIOUS
<1>2. PICK ts : ts = (IF opened THEN Before(n) ELSE transactions)
  OBVIOUS
<1>3. PICK sts : sts = StatesTo(n)
  OBVIOUS
<1>4. PICK w : Settled(w, ts, sts, heap, n)
  BY <1>1, <1>2, <1>3, SettledIs DEF Previous
<1>5. Layered(ts, heap, edits) /\ LInv
  <2>1. LInv
    BY DEF DInv, SInv
  <2> QED  BY <1>1, <1>2, <2>1, PreviousLayered
<1>6. heap \in Heaps /\ Good(heap, View(ts))
  BY <1>5 DEF Layered, Sound, Kept
<1>7. \/ /\ ts # <<>> /\ n = Len(ts) /\ transactions' = ts /\ heap' = heap /\ current' = Len(ts) - 1
         /\ states' = SubSeq(sts, 1, Len(ts)) /\ opened' = TRUE
      \/ /\ heap' = Delete(heap, OwnedBy(SubSeq(ts, n + 1, Len(ts)))) /\ transactions' \in AddedTo(ts, n)
         /\ current' = n /\ states' = SubSeq(sts, 1, n + 1) /\ opened' = TRUE
  BY <1>1, <1>2, <1>3 DEF Transaction, Joins, StatesTo
<1>8. CASE /\ ts # <<>> /\ n = Len(ts) /\ transactions' = ts /\ heap' = heap /\ current' = Len(ts) - 1
           /\ states' = SubSeq(sts, 1, Len(ts)) /\ opened' = TRUE
  <2>1. PICK r : r = SubSeq(sts, 1, n)
    OBVIOUS
  <2>2. PICK m : m = n - 1
    OBVIOUS
  <2>3. PICK h : h = heap
    OBVIOUS
  <2>4. Tells(ts, h, r, m, TRUE)
    BY <1>4, <1>8, <2>1, <2>2, <2>3, JoinTold
  <2>5. transactions' = ts /\ heap' = h /\ states' = r /\ current' = m /\ opened' = TRUE
    BY <1>8, <2>1, <2>2, <2>3
  <2> QED  BY <2>4, <2>5
<1>9. CASE /\ heap' = Delete(heap, OwnedBy(SubSeq(ts, n + 1, Len(ts)))) /\ transactions' \in AddedTo(ts, n)
           /\ current' = n /\ states' = SubSeq(sts, 1, n + 1) /\ opened' = TRUE
  <2>1. PICK cut : cut = SubSeq(ts, 1, n)
    OBVIOUS
  <2>2. PICK i : i = heap'
    OBVIOUS
  <2>3. PICK r : r = SubSeq(sts, 1, n + 1)
    OBVIOUS
  <2>4. i = Delete(heap, OwnedBy(SubSeq(ts, n + 1, Len(ts))))
    BY <1>9, <2>2
  <2>5. Settled(w, cut, r, i, n)
    BY <1>4, <1>6, <2>1, <2>3, <2>4, SettledCut
  <2>6. PICK new : new = transactions'
    OBVIOUS
  <2>7. PICK id \in Ids : new = Append(cut, [id |-> id, ops |-> <<>>])
    BY <1>9, <2>1, <2>6 DEF AddedTo, NewTransaction
  <2>8. n = Len(cut)
    BY <1>4, <2>1, CutIs DEF Settled
  <2>9. Tells(new, i, r, n, TRUE)
    BY <2>5, <2>7, <2>8, NewTold
  <2> QED  BY <1>9, <2>2, <2>3, <2>6, <2>9
<1> QED  BY <1>7, <1>8, <1>9

\* Nothing is deleted.
LEMMA SettledSame ==
  ASSUME NEW w, NEW us, NEW s, NEW h \in Heaps, NEW n, Settled(w, us, s, h, n), NEW ls, ls = {}, NEW i, i = Delete(h, ls)
  PROVE  Settled(w, us, s, i, n) /\ Contents(i) = Contents(h)
<1>1. i \in Heaps /\ i.held = h.held /\ Preserves(h, i, ls)
  BY DeleteIs DEF Deletes
<1>2. Contents(i) = Contents(h)
  BY <1>1, DeleteContents
<1>3. Stashed(w, View(us), i)
  <2>1. PICK f : f = View(us)
    OBVIOUS
  <2>2. IsView(f) /\ Stashed(w, f, h)
    BY <2>1, ViewIs DEF Settled
  <2>3. \A p \in DOMAIN f : i.content[f[p].layer] = h.content[f[p].layer]
    <3> SUFFICES ASSUME NEW p \in DOMAIN f PROVE i.content[f[p].layer] = h.content[f[p].layer]
      OBVIOUS
    <3>1. f[p].layer \in Layers
      BY <2>2 DEF IsView, FullOps, AllOps
    <3> QED  BY <1>1, <3>1 DEF Preserves
  <2>4. Stashed(w, f, i)
    BY <2>2, <2>3 DEF Stashed
  <2> QED  BY <2>1, <2>4
<1> QED  BY <1>2, <1>3 DEF Settled

\* What commit () does to the history.
LEMMA Committed ==
  ASSUME SInv, Commit, NEW n, n = CloseCurrent
  PROVE  /\ OpenLists /\ transactions' = Previous(n) /\ states' = StatesTo(n) /\ current' = n /\ opened' = FALSE
         /\ OwnedBy(After(n)) = {} /\ heap' = Delete(heap, OwnedBy(After(n)))
<1>1. OpenLists /\ opened = TRUE
  BY DEF Commit, SInv, LInv, IInv, ClosedLists, OpenLists
<1>2. current \in Nat /\ Len(transactions) = current + 1 /\ Len(states) = current + 1 /\ states \in Seq(Documents)
  BY <1>1, SInvFacts
<1>3. n = current \/ n = current + 1
  BY <1>1, Opened
<1>4. transactions' = Previous(n) /\ current' = n /\ opened' = FALSE /\ heap' = Delete(heap, OwnedBy(After(n)))
      /\ states' = IF n > current THEN SubSeq(states, 1, current + 1) \o <<Contents(heap)>> ELSE states
  BY <1>1 DEF Commit, Keep, Previous
<1>5. states' = StatesTo(n)
  <2>1. CASE n > current
    BY <1>1, <1>4, <2>1 DEF StatesTo
  <2>2. CASE ~(n > current)
    <3>1. PICK c : c = SubSeq(states, 1, current + 1)
      OBVIOUS
    <3>2. c = states
      BY <1>2, <3>1, SubSeqFull
    <3>3. StatesTo(n) = c \o <<>>
      BY <1>1, <2>2, <3>1 DEF StatesTo
    <3>4. c \o <<>> = c
      BY <1>2, <3>2, ConcatEmptySeq
    <3> QED  BY <1>4, <2>2, <3>2, <3>3, <3>4
  <2> QED  BY <2>1, <2>2
<1>6. OwnedBy(After(n)) = {}
  <2>1. PICK rest : rest = SubSeq(transactions, n + 1, Len(transactions))
    OBVIOUS
  <2>2. Listed(transactions) /\ n \in 0..Len(transactions)
    BY <1>1, <1>2, <1>3, LInvFacts DEF SInv
  <2>3. DOMAIN rest = 1..(Len(transactions) - n) /\ \A t \in 1..(Len(transactions) - n) : rest[t] = transactions[n + t]
    BY <2>1, <2>2, CutIs
  <2>4. ASSUME NEW t \in DOMAIN rest PROVE Owned(rest[t].ops) = {}
    <3>1. t = 1 /\ n = current
      BY <1>2, <1>3, <2>3
    <3>2. n # current + 1
      BY <1>2, <3>1
    <3>3. Current.ops = <<>>
      BY <3>2 DEF CloseCurrent
    <3>4. rest[t] = Current
      BY <2>3, <3>1 DEF Current
    <3> QED  BY <3>3, <3>4 DEF Owned
  <2>5. OwnedBy(rest) = {}
    <3>1. PICK f : f = [t \in DOMAIN rest |-> Owned(rest[t].ops)]
      OBVIOUS
    <3>2. OwnedBy(rest) = UNION {f[t] : t \in DOMAIN rest}
      BY <3>1 DEF OwnedBy
    <3>3. \A t \in DOMAIN rest : f[t] = {}
      BY <2>4, <3>1
    <3> QED  BY <3>2, <3>3
  <2> QED  BY <2>1, <2>5 DEF After
<1> QED  BY <1>1, <1>4, <1>5, <1>6

LEMMA CommitTold ==
  ASSUME MaxClears <= 1, DInv, Commit
  PROVE  Tells(transactions', heap', states', current', opened')
<1>1. PICK n : n = CloseCurrent
  OBVIOUS
<1>2. PICK us : us = Previous(n)
  OBVIOUS
<1>3. PICK s : s = StatesTo(n)
  OBVIOUS
<1>4. PICK ls : ls = OwnedBy(After(n))
  OBVIOUS
<1>5. /\ opened = TRUE /\ transactions' = us /\ states' = s /\ current' = n /\ opened' = FALSE
      /\ ls = {} /\ heap' = Delete(heap, ls)
  BY <1>1, <1>2, <1>3, <1>4, Committed DEF DInv, OpenLists
<1>6. PICK w : Settled(w, us, s, heap, n)
  <2>1. n = (IF opened THEN CloseCurrent ELSE current)
    BY <1>1, <1>5
  <2> QED  BY <1>2, <1>3, <2>1, SettledIs
<1>7. PICK i : i = Delete(heap, ls)
  OBVIOUS
<1>8. heap \in Heaps
  BY LInvFacts DEF DInv, SInv
<1>9. Settled(w, us, s, i, n)
  BY <1>5, <1>6, <1>7, <1>8, SettledSame
<1>10. Tells(us, i, s, n, FALSE)
  BY <1>9, SettledTold
<1> QED  BY <1>5, <1>7, <1>10

-----------------------------------------------------------------------------
(* Replays                                                                 *)

\* The n-th transaction, replayed, has led to document d.
Replayed(w, us, i, s, d) ==
  /\ Listed(us) /\ Chain(w, us) /\ Ends(w, us, s) /\ Stashed(w, View(us), i)
  /\ i \in Heaps /\ Good(i, View(us)) /\ Contents(i) = d

LEMMA ReplayTold ==
  ASSUME MaxClears <= 1, LInv, NEW n, n \in DOMAIN transactions, Sides(transactions, n), NEW redo, IsWay(redo),
         NEW ops, ops = transactions[n].ops, \A i \in DOMAIN ops : ops[i].done = ~redo,
         NEW w, Chain(w, transactions), Ends(w, transactions, states), Stashed(w, View(transactions), heap),
         Contents(heap) = w[<<n, IF redo THEN 0 ELSE Len(ops)>>],
         NEW r, r = Replay(ops, redo, Len(ops)), NEW us, us = Changed(transactions, n, r.ops)
  PROVE  Replayed(w, us, r.heap, states, w[<<n, IF redo THEN Len(ops) ELSE 0>>])
<1>1. Listed(transactions) /\ LayersOf(transactions) = LayersOf(transactions) /\ FewLayers(View(transactions))
      /\ Sound(heap, View(transactions))
  BY LInvFacts
<1>2. PICK k \in Nat : k = Len(ops) /\ DOMAIN ops = 1..k
  <2>1. ops \in Seq(AllOps)
    BY <1>1, ListedIs
  <2> QED  BY <2>1, OpsLen
<1>3. k \in 0..Len(ops) /\ r = Replay(ops, redo, k)
  BY <1>2
<1>4. DocAlong(r, transactions, n, redo, k, w)
  BY <1>1, <1>3, ReplayDocAlong
<1>5. Along(r, transactions, n, redo, k) /\ Layered(us, r.heap, edits) /\ r.ops \in Seq(AllOps)
  BY <1>3, ReplayLayered
<1>6. PICK o \in Seq(AllOps) : o = r.ops
  BY <1>5
<1>7. ChangedTo(transactions, us, n, o)
  BY <1>1, <1>6, ChangedIs
<1>8. Listed(us) /\ DOMAIN us = DOMAIN transactions /\ us[n].ops = o
      /\ \A t \in DOMAIN transactions : t # n => us[t] = transactions[t]
  BY <1>7 DEF ChangedTo
<1>9. DOMAIN o = DOMAIN ops /\ Len(o) = Len(ops)
  BY <1>5, <1>6 DEF Along, AlongOps
<1>10. \A j \in DOMAIN ops : SameKind(o[j], ops[j])
  BY <1>4, <1>6 DEF DocAlong
<1>11. Contents(r.heap) = w[<<n, IF redo THEN Len(ops) ELSE 0>>]
  <2>1. Contents(r.heap) = w[<<n, IF redo THEN k ELSE Len(ops) - k>>]
    BY <1>4 DEF DocAlong
  <2>2. Len(ops) - k = 0 /\ k = Len(ops)
    BY <1>2
  <2> QED  BY <2>1, <2>2
<1>12. Stashed(w, View(us), r.heap)
  BY <1>4 DEF DocAlong
<1>13. ASSUME NEW t \in DOMAIN us, NEW j \in DOMAIN us[t].ops PROVE Does(us[t].ops[j], w[<<t, j - 1>>], w[<<t, j>>])
  <2>1. CASE t # n
    BY <1>8, <1>13, <2>1 DEF Chain
  <2>2. CASE t = n
    <3>1. j \in DOMAIN ops /\ us[t].ops[j] = o[j]
      BY <1>8, <1>9, <1>13, <2>2
    <3>2. Does(ops[j], w[<<n, j - 1>>], w[<<n, j>>])
      BY <3>1 DEF Chain
    <3>3. SameKind(ops[j], o[j])
      BY <1>10, <3>1 DEF SameKind
    <3>4. Does(o[j], w[<<n, j - 1>>], w[<<n, j>>])
      BY <3>2, <3>3, DoesSame
    <3> QED  BY <2>2, <3>1, <3>4
  <2> QED  BY <2>1, <2>2
<1>14. Chain(w, us)
  BY <1>13 DEF Chain
<1>15. Ends(w, us, states)
  <2> SUFFICES ASSUME NEW t \in DOMAIN us
               PROVE  w[<<t, 0>>] = states[t]
                      /\ (t + 1 \in DOMAIN states => w[<<t, Len(us[t].ops)>>] = states[t + 1])
    BY DEF Ends
  <2>1. Len(us[t].ops) = Len(transactions[t].ops) /\ t \in DOMAIN transactions
    BY <1>8, <1>9
  <2> QED  BY <2>1 DEF Ends
<1>16. r.heap \in Heaps /\ Good(r.heap, View(us))
  BY <1>5 DEF Layered, Sound, Kept
<1> QED  BY <1>8, <1>11, <1>12, <1>14, <1>15, <1>16 DEF Replayed

\* No transaction is open after it.
LEMMA ReplayedTold ==
  ASSUME NEW w, NEW us, NEW i, NEW s, NEW m, Replayed(w, us, i, s, s[m + 1])
  PROVE  Tells(us, i, s, m, FALSE)
<1>1. AtPlace(w, us, Contents(i), s, m, FALSE)
  BY DEF Replayed, AtPlace
<1>2. Told(w, us, i, s, m, FALSE)
  BY <1>1 DEF Told, Replayed
<1> QED  BY <1>2 DEF Tells

\* No history is left.
LEMMA ForgottenTold ==
  ASSUME LInv', transactions' = <<>>, current' = 0, opened' = FALSE, states' = <<Contents(heap')>>
  PROVE  Tells(transactions', heap', states', current', opened')
<1>1. PICK d \in Documents : d = Contents(heap')
  BY NextDocument
<1>2. PICK h : h = heap'
  OBVIOUS
<1>3. Tells(<<>>, h, <<d>>, 0, FALSE)
  BY <1>1, <1>2, NothingTold
<1> QED  BY <1>1, <1>2, <1>3

LEMMA InterruptedTold ==
  ASSUME LInv', NEW n, NEW redo, Interrupted(n, redo)
  PROVE  Tells(transactions', heap', states', current', opened')
BY ForgottenTold DEF Interrupted

LEMMA ClearTold ==
  ASSUME LInv', Clear
  PROVE  Tells(transactions', heap', states', current', opened')
BY ForgottenTold DEF Clear

LEMMA UndoTold ==
  ASSUME MaxClears <= 1, DInv, LInv', Undo
  PROVE  Tells(transactions', heap', states', current', opened')
<1>1. LInv /\ SInv
  BY DEF DInv, SInv
<1>2. ClosedLists /\ current > 0
  BY <1>1, SInvFacts DEF Undo
<1>3. PICK n : n = current
  OBVIOUS
<1>4. /\ n \in DOMAIN transactions /\ n \in Nat /\ opened = FALSE /\ n + 1 \in DOMAIN states
  <2>1. Len(states) = Len(transactions) + 1 /\ states \in Seq(Documents) /\ opened = FALSE
    BY <1>1, <1>2, SInvFacts
  <2>2. DOMAIN transactions = 1..Len(transactions) /\ Len(transactions) \in Nat /\ current \in 0..Len(transactions)
    BY <1>1, <1>2, SidesClosed
  <2>3. DOMAIN states = 1..(Len(transactions) + 1)
    BY <2>1, LenProperties
  <2> QED  BY <1>2, <1>3, <2>1, <2>2, <2>3
<1>5. Sides(transactions, n) /\ IsWay(FALSE) /\ TRUE = ~FALSE
  BY <1>1, <1>2, <1>3, <1>4, SidesClosed DEF IsWay
<1>6. \A i \in DOMAIN transactions[n].ops : transactions[n].ops[i].done = ~FALSE
  <2>1. n <= current
    BY <1>3, <1>4
  <2> QED  BY <1>1, <1>2, <1>4, <2>1, SidesClosed
<1>7. CASE Interrupted(current, FALSE)
  BY <1>7, InterruptedTold
<1>8. CASE ~Interrupted(current, FALSE)
  <2>1. PICK w : Told(w, transactions, heap, states, current, opened)
    BY DEF DInv, Tells
  <2>2. Chain(w, transactions) /\ Stashed(w, View(transactions), heap) /\ Ends(w, transactions, states)
        /\ Contents(heap) = states[n + 1]
    BY <1>3, <1>4, <2>1 DEF Told, AtPlace
  <2>3. PICK ops : ops = transactions[n].ops
    OBVIOUS
  <2>4. PICK r : r = Replay(ops, FALSE, Len(ops))
    OBVIOUS
  <2>5. PICK us : us = Changed(transactions, n, r.ops)
    OBVIOUS
  <2>6. transactions' = us /\ heap' = r.heap /\ current' = n - 1 /\ opened' = FALSE /\ states' = states
    BY <1>3, <1>4, <1>8, <2>3, <2>4, <2>5 DEF Undo, Changed
  <2>7. w[<<n, Len(ops)>>] = states[n + 1] /\ w[<<n, 0>>] = states[n]
    BY <1>4, <2>2, <2>3 DEF Ends
  <2>8. Contents(heap) = w[<<n, IF FALSE THEN 0 ELSE Len(ops)>>]
    BY <2>2, <2>7
  <2>9. \A i \in DOMAIN ops : ops[i].done = ~FALSE
    BY <1>6, <2>3
  <2>10. Replayed(w, us, r.heap, states, w[<<n, IF FALSE THEN Len(ops) ELSE 0>>])
    BY <1>1, <1>4, <1>5, <2>2, <2>3, <2>4, <2>5, <2>8, <2>9, ReplayTold
  <2>11. PICK m : m = n - 1
    OBVIOUS
  <2>12. m + 1 = n
    BY <1>4, <2>11
  <2>13. Replayed(w, us, r.heap, states, states[m + 1])
    BY <2>7, <2>10, <2>12
  <2>14. Tells(us, r.heap, states, m, FALSE)
    BY <2>13, ReplayedTold
  <2> QED  BY <2>6, <2>11, <2>14
<1> QED  BY <1>7, <1>8

LEMMA RedoTold ==
  ASSUME MaxClears <= 1, DInv, LInv', Redo
  PROVE  Tells(transactions', heap', states', current', opened')
<1>1. LInv /\ SInv
  BY DEF DInv, SInv
<1>2. ClosedLists /\ current < Len(transactions)
  BY <1>1, SInvFacts DEF Redo
<1>3. PICK n : n = current + 1
  OBVIOUS
<1>4. /\ n \in DOMAIN transactions /\ n \in Nat /\ opened = FALSE /\ n + 1 \in DOMAIN states /\ n > current
  <2>1. Len(states) = Len(transactions) + 1 /\ states \in Seq(Documents) /\ opened = FALSE
    BY <1>1, <1>2, SInvFacts
  <2>2. DOMAIN transactions = 1..Len(transactions) /\ Len(transactions) \in Nat /\ current \in 0..Len(transactions)
    BY <1>1, <1>2, SidesClosed
  <2>3. DOMAIN states = 1..(Len(transactions) + 1)
    BY <2>1, LenProperties
  <2> QED  BY <1>2, <1>3, <2>1, <2>2, <2>3
<1>5. Sides(transactions, n) /\ IsWay(TRUE) /\ FALSE = ~TRUE
  BY <1>1, <1>2, <1>3, <1>4, SidesClosed DEF IsWay
<1>6. \A i \in DOMAIN transactions[n].ops : transactions[n].ops[i].done = ~TRUE
  BY <1>1, <1>2, <1>4, SidesClosed
<1>7. CASE Interrupted(current + 1, TRUE)
  BY <1>7, InterruptedTold
<1>8. CASE ~Interrupted(current + 1, TRUE)
  <2>1. PICK w : Told(w, transactions, heap, states, current, opened)
    BY DEF DInv, Tells
  <2>2. Chain(w, transactions) /\ Stashed(w, View(transactions), heap) /\ Ends(w, transactions, states)
        /\ Contents(heap) = states[n]
    BY <1>3, <1>4, <2>1 DEF Told, AtPlace
  <2>3. PICK ops : ops = transactions[n].ops
    OBVIOUS
  <2>4. PICK r : r = Replay(ops, TRUE, Len(ops))
    OBVIOUS
  <2>5. PICK us : us = Changed(transactions, n, r.ops)
    OBVIOUS
  <2>6. transactions' = us /\ heap' = r.heap /\ current' = n /\ opened' = FALSE /\ states' = states
    BY <1>3, <1>4, <1>8, <2>3, <2>4, <2>5 DEF Redo, Changed, Current
  <2>7. w[<<n, Len(ops)>>] = states[n + 1] /\ w[<<n, 0>>] = states[n]
    BY <1>4, <2>2, <2>3 DEF Ends
  <2>8. Contents(heap) = w[<<n, IF TRUE THEN 0 ELSE Len(ops)>>]
    BY <2>2, <2>7
  <2>9. \A i \in DOMAIN ops : ops[i].done = ~TRUE
    BY <1>6, <2>3
  <2>10. Replayed(w, us, r.heap, states, w[<<n, IF TRUE THEN Len(ops) ELSE 0>>])
    BY <1>1, <1>4, <1>5, <2>2, <2>3, <2>4, <2>5, <2>8, <2>9, ReplayTold
  <2>11. Replayed(w, us, r.heap, states, states[n + 1])
    BY <2>7, <2>10
  <2>12. Tells(us, r.heap, states, n, FALSE)
    BY <2>11, ReplayedTold
  <2> QED  BY <2>6, <2>12
<1> QED  BY <1>7, <1>8

LEMMA CancelTold ==
  ASSUME MaxClears <= 1, DInv, LInv', Cancel
  PROVE  Tells(transactions', heap', states', current', opened')
<1>1. LInv /\ SInv
  BY DEF DInv, SInv
<1>2. OpenLists
  BY <1>1, SInvFacts DEF Cancel
<1>3. PICK n : n = current + 1
  OBVIOUS
<1>4. /\ n \in DOMAIN transactions /\ current \in Nat /\ opened = TRUE /\ Len(transactions) = n
      /\ states \in Seq(Documents) /\ Len(states) = n /\ DOMAIN states = 1..n
  <2>1. n \in DOMAIN transactions
    BY <1>1, <1>2, <1>3, SidesOpen
  <2>2. states \in Seq(Documents) /\ Len(states) = n /\ opened = TRUE /\ current \in Nat /\ Len(transactions) = n
    BY <1>1, <1>2, <1>3, SInvFacts
  <2> QED  BY <2>1, <2>2, LenProperties
<1>5. Sides(transactions, n) /\ IsWay(FALSE) /\ TRUE = ~FALSE
      /\ \A i \in DOMAIN transactions[n].ops : transactions[n].ops[i].done = ~FALSE
  BY <1>1, <1>2, <1>3, SidesOpen DEF IsWay
<1>6. CASE Interrupted(current + 1, FALSE)
  BY <1>6, InterruptedTold
<1>7. CASE ~Interrupted(current + 1, FALSE)
  <2>1. PICK w : Told(w, transactions, heap, states, current, opened)
    BY DEF DInv, Tells
  <2>2. PICK ops : ops = transactions[n].ops
    OBVIOUS
  <2>3. Chain(w, transactions) /\ Stashed(w, View(transactions), heap) /\ Ends(w, transactions, states)
        /\ Contents(heap) = w[<<n, Len(ops)>>]
    BY <1>3, <1>4, <2>1, <2>2 DEF Told, AtPlace
  <2>4. PICK r : r = Replay(ops, FALSE, Len(ops))
    OBVIOUS
  <2>5. PICK us : us = Changed(transactions, n, r.ops)
    OBVIOUS
  <2>6. Contents(heap) = w[<<n, IF FALSE THEN 0 ELSE Len(ops)>>]
    BY <2>3
  <2>7. \A i \in DOMAIN ops : ops[i].done = ~FALSE
    BY <1>5, <2>2
  <2>8. Replayed(w, us, r.heap, states, w[<<n, IF FALSE THEN Len(ops) ELSE 0>>])
    BY <1>1, <1>4, <1>5, <2>2, <2>3, <2>4, <2>5, <2>6, <2>7, ReplayTold
  <2>9. w[<<n, 0>>] = states[n]
    BY <1>4, <2>3 DEF Ends
  <2>10. /\ Listed(us) /\ Chain(w, us) /\ Ends(w, us, states) /\ Stashed(w, View(us), r.heap)
         /\ r.heap \in Heaps /\ Good(r.heap, View(us)) /\ Contents(r.heap) = states[n]
    BY <2>8, <2>9 DEF Replayed
  <2>11. PICK h : h = r.heap
    OBVIOUS
  <2>12. PICK o \in Seq(AllOps) : o = r.ops
    <3>1. ops \in Seq(AllOps)
      BY <1>1, <1>4, <2>2, LInvFacts, ListedIs
    <3>2. Len(ops) \in 0..Len(ops)
      BY <3>1, OpsLen
    <3>3. r.ops \in Seq(AllOps)
      BY <1>1, <1>4, <1>5, <2>2, <2>4, <2>5, <2>7, <3>2, ReplayLayered
    <3> QED  BY <3>3
  <2>13. us = Changed(transactions, n, o)
    BY <2>5, <2>12
  <2>14. PICK rest : rest = SubSeq(us, current + 1, Len(us))
    OBVIOUS
  <2>15. PICK cut : cut = SubSeq(us, 1, current)
    OBVIOUS
  <2>16. /\ current \in 0..Len(us) /\ cut = SubSeq(transactions, 1, current)
         /\ OwnedBy(rest) = OwnedBy(After(n)) \cup Owned(o)
    BY <1>1, <1>2, <1>3, <2>13, <2>14, <2>15, LastCut
  <2>17. PICK i : i = Delete(h, OwnedBy(rest))
    OBVIOUS
  <2>18. transactions' = cut /\ heap' = i /\ opened' = FALSE /\ current' = current /\ states' = states
    <3>1. /\ transactions' = SubSeq(transactions, 1, current)
          /\ heap' = Delete(r.heap, OwnedBy(After(n)) \cup Owned(r.ops))
          /\ opened' = FALSE /\ current' = current /\ states' = states
      BY <1>3, <1>7, <2>2, <2>4 DEF Cancel, Current, Before
    <3> QED  BY <2>11, <2>12, <2>16, <2>17, <3>1
  <2>19. CutTells(w, us, cut, h, i)
    BY <2>10, <2>11, <2>14, <2>15, <2>16, <2>17, CutTold
  <2>20. PICK m : m = current
    OBVIOUS
  <2>21. Ends(w, cut, states)
    <3>1. m \in 0..Len(us) /\ cut = SubSeq(us, 1, m) /\ m \in 0..Len(states)
      BY <1>3, <1>4, <2>15, <2>16, <2>20
    <3>2. m \in DOMAIN us /\ m + 1 \in DOMAIN states => states[m + 1] = w[<<m, Len(us[m].ops)>>]
      BY <2>10 DEF Ends
    <3> QED  BY <1>4, <2>10, <3>1, <3>2, EndsCut
  <2>22. AtPlace(w, cut, Contents(i), states, current, FALSE)
    BY <1>3, <2>10, <2>11, <2>19 DEF AtPlace, CutTells
  <2>23. Told(w, cut, i, states, current, FALSE)
    BY <2>19, <2>21, <2>22 DEF Told, CutTells
  <2>24. Tells(cut, i, states, current, FALSE)
    BY <2>23 DEF Tells
  <2> QED  BY <2>18, <2>24
<1> QED  BY <1>6, <1>7

-----------------------------------------------------------------------------
(* The document is always that of the history                              *)

LEMMA DInvInit == Init => DInv
<1> SUFFICES ASSUME Init PROVE DInv
  OBVIOUS
<1>1. SInv
  BY SInvInit
<1>2. PICK d \in Documents : d = Contents(heap)
  BY <1>1, SInvFacts
<1>3. transactions = <<>> /\ states = <<d>> /\ current = 0 /\ opened = FALSE
  BY <1>2 DEF Init
<1>4. Tells(<<>>, heap, <<d>>, 0, FALSE)
  BY <1>2, NothingTold
<1> QED  BY <1>1, <1>3, <1>4 DEF DInv

LEMMA DInvStep ==
  ASSUME MaxClears <= 1, DInv, [Next]_vars PROVE DInv'
<1>1. SInv' /\ LInv'
  BY SInvStep DEF DInv, SInv
<1> DEFINE Goal == Tells(transactions', heap', states', current', opened')
<1> HIDE DEF Goal
<1>2. ASSUME NEW join \in {0} \cup Ids, Transaction(join) PROVE Goal
  BY <1>2, TransactionTold DEF Goal
<1>3. ASSUME Commit PROVE Goal
  BY <1>3, CommitTold DEF Goal
<1>4. ASSUME Cancel PROVE Goal
  BY <1>1, <1>4, CancelTold DEF Goal
<1>5. ASSUME Undo PROVE Goal
  BY <1>1, <1>5, UndoTold DEF Goal
<1>6. ASSUME Redo PROVE Goal
  BY <1>1, <1>6, RedoTold DEF Goal
<1>7. ASSUME Clear PROVE Goal
  BY <1>1, <1>7, ClearTold DEF Goal
<1>8. ASSUME NEW c \in Containers, NEW s \in Shapes, Insert(c, s) \/ Erase(c, s) PROVE Goal
  BY <1>1, <1>8, InsertTold, EraseTold DEF Goal
<1>9. ASSUME NEW c \in Containers, ClearContainer(c) PROVE Goal
  BY <1>1, <1>9, ClearContainerTold DEF Goal
<1>10. ASSUME NEW c \in Containers, NEW d \in Containers, CopyFrom(c, d) PROVE Goal
  BY <1>1, <1>10, CopyFromTold DEF Goal
<1>11. ASSUME UNCHANGED vars PROVE Goal
  BY <1>11 DEF vars, DInv, Goal
<1>12. Goal
  BY <1>2, <1>3, <1>4, <1>5, <1>6, <1>7, <1>8, <1>9, <1>10, <1>11 DEF Next
<1> QED  BY <1>1, <1>12 DEF DInv, Goal

LEMMA DInvAlways == ASSUME MaxClears <= 1 PROVE Spec => []DInv
<1>1. Init => DInv
  BY DInvInit
<1>2. DInv /\ [Next]_vars => DInv'
  BY DInvStep
<1> QED  BY <1>1, <1>2, PTL DEF Spec

\* Without an open transaction, the contents are the state of the place.
LEMMA PlaceReached ==
  ASSUME DInv, opened = FALSE PROVE Contents(heap) = states[current + 1]
<1>1. PICK w : Told(w, transactions, heap, states, current, opened)
  BY DEF DInv, Tells
<1> QED  BY <1>1 DEF Told, AtPlace

LEMMA ReplayReaches ==
  ASSUME DInv, DInv', Undo \/ Redo, transactions' # <<>> PROVE Contents(heap') = states[current' + 1]
<1>1. opened = FALSE
  BY SInvFacts DEF Undo, Redo, DInv
<1>2. opened' = FALSE /\ states' = states
  BY <1>1 DEF Undo, Redo, Interrupted
<1>3. (opened = FALSE)' => (Contents(heap) = states[current + 1])'
  BY PlaceReached, PTL
<1> QED  BY <1>2, <1>3

(* "The next transaction is redone with this method" (dbManager.h:181) and *)
(* "The current transaction is undone with this method" (h:172): as long   *)
(* as no more than one clear () of a container is recorded, an undo or     *)
(* redo that is not interrupted leads to the contents that the containers  *)
(* had at that place of the history, whatever was copied, inserted and     *)
(* erased before.                                                          *)
THEOREM ReplayCorrect == ASSUME MaxClears <= 1 PROVE Spec => ReplayReachesState
<1>1. DInv /\ DInv' /\ [Next]_vars
      => [(Undo \/ Redo) /\ transactions' # <<>> => Contents(heap') = states[current' + 1]]_vars
  BY ReplayReaches
<1> QED  BY <1>1, DInvAlways, PTL DEF Spec, ReplayReachesState

-----------------------------------------------------------------------------
(* Every call does what the history promises                               *)

LEMMA EditPromised ==
  ASSUME DInv, DInv', CanEdit, NEW ops, Queue(ops), Edited PROVE History!Next
<1>1. SInv /\ LInv'
  BY DEF DInv, SInv
<1>2. opened \/ Len(states) = 1
  <2>1. CASE ClosedLists
    <3>1. transactions = <<>> \/ opened
      BY DEF CanEdit
    <3>2. Len(states) = Len(transactions) + 1
      BY <1>1, <2>1, SInvFacts
    <3>3. CASE transactions = <<>>
      <4>1. Len(transactions) = 0
        BY <3>3
      <4> QED  BY <3>2, <4>1
    <3> QED  BY <3>1, <3>3
  <2> QED  BY <1>1, <2>1, SInvFacts
<1>3. Contents(heap') \in Documents
  BY <1>1, NextDocument
<1>4. /\ current' + 1 = current + 1 /\ opened' = opened
      /\ states' = IF opened THEN states ELSE <<Contents(heap')>>
  BY DEF Edited
<1>5. History!Edit
  BY <1>2, <1>3, <1>4 DEF History!Edit, Documents
<1> QED  BY <1>5 DEF History!Next

LEMMA ForgetPromised ==
  ASSUME DInv', transactions' = <<>>, current' = 0, opened' = FALSE, states' = <<Contents(heap')>>
  PROVE  History!Next
<1>1. Contents(heap') \in Documents
  BY NextDocument DEF DInv, SInv
<1>2. History!Forget
  BY <1>1 DEF History!Forget, Documents
<1> QED  BY <1>2 DEF History!Next

LEMMA UndoPromised == ASSUME DInv, DInv', Undo PROVE History!Next
<1>1. CASE Interrupted(current, FALSE)
  BY <1>1, ForgetPromised DEF Interrupted
<1>2. CASE ~Interrupted(current, FALSE)
  <2>1. opened = FALSE /\ current \in Nat /\ current > 0
    <3>1. opened = FALSE /\ current > 0
      BY SInvFacts DEF DInv, Undo
    <3>2. current \in 0..Len(transactions) /\ Len(transactions) \in Nat
      BY <3>1, SInvFacts DEF DInv
    <3> QED  BY <3>1, <3>2
  <2>2. current' = current - 1 /\ opened' = opened /\ states' = states
    BY <1>2 DEF Undo
  <2>3. Contents(heap') = states[current' + 1]
    <3>1. (opened = FALSE)' => (Contents(heap) = states[current + 1])'
      BY PlaceReached, PTL
    <3> QED  BY <2>1, <2>2, <3>1
  <2>4. current' + 1 = (current + 1) - 1 /\ current + 1 > 1
    BY <2>1, <2>2
  <2>5. History!Undo
    BY <2>1, <2>2, <2>3, <2>4 DEF History!Undo
  <2> QED  BY <2>5 DEF History!Next
<1> QED  BY <1>1, <1>2

LEMMA RedoPromised == ASSUME DInv, DInv', Redo PROVE History!Next
<1>1. CASE Interrupted(current + 1, TRUE)
  BY <1>1, ForgetPromised DEF Interrupted
<1>2. CASE ~Interrupted(current + 1, TRUE)
  <2>1. opened = FALSE /\ current \in Nat /\ current + 1 < Len(states)
    <3>1. opened = FALSE /\ current < Len(transactions)
      BY SInvFacts DEF DInv, Redo
    <3>2. current \in 0..Len(transactions) /\ Len(transactions) \in Nat /\ Len(states) = Len(transactions) + 1
      BY <3>1, SInvFacts DEF DInv
    <3> QED  BY <3>1, <3>2
  <2>2. current' = current + 1 /\ opened' = opened /\ states' = states
    BY <1>2 DEF Redo
  <2>3. Contents(heap') = states[current' + 1]
    <3>1. (opened = FALSE)' => (Contents(heap) = states[current + 1])'
      BY PlaceReached, PTL
    <3> QED  BY <2>1, <2>2, <3>1
  <2>4. current' + 1 = (current + 1) + 1
    BY <2>2
  <2>5. History!Redo
    BY <2>1, <2>2, <2>3, <2>4 DEF History!Redo
  <2> QED  BY <2>5 DEF History!Next
<1> QED  BY <1>1, <1>2

\* The states up to the place of the open transaction, and perhaps one more.
LEMMA ClosedStates ==
  ASSUME SInv, OpenLists
  PROVE  /\ SubSeq(states, 1, current + 1) \o <<>> = states /\ Len(states) = current + 1 /\ current \in Nat
         /\ SubSeq(states, 1, current + 1) = states
<1>1. states \in Seq(Documents) /\ Len(states) = current + 1 /\ current \in Nat
  BY SInvFacts
<1>2. SubSeq(states, 1, current + 1) = states
  BY <1>1, SubSeqFull
<1>3. states \o <<>> = states
  BY <1>1, ConcatEmptySeq
<1> QED  BY <1>1, <1>2, <1>3

LEMMA CancelPromised == ASSUME DInv, DInv', Cancel PROVE History!Next
<1>1. CASE Interrupted(current + 1, FALSE)
  BY <1>1, ForgetPromised DEF Interrupted
<1>2. CASE ~Interrupted(current + 1, FALSE)
  <2>1. OpenLists /\ opened = TRUE
    BY SInvFacts DEF DInv, Cancel
  <2>2. current' = current /\ opened' = FALSE /\ states' = states
    BY <1>2 DEF Cancel
  <2>3. Contents(heap') = states[current + 1]
    <3>1. (opened = FALSE)' => (Contents(heap) = states[current + 1])'
      BY PlaceReached, PTL
    <3> QED  BY <2>2, <3>1
  <2>4. SubSeq(states, 1, current + 1) \o <<>> = states /\ Len(states) = current + 1
    BY <2>1, ClosedStates DEF DInv
  <2>5. PICK c : c = SubSeq(states, 1, current + 1) \o <<>>
    OBVIOUS
  <2>6. states' = c /\ current' + 1 = Len(c)
    BY <2>2, <2>4, <2>5
  <2>7. History!Cancel
    BY <2>1, <2>2, <2>3, <2>5, <2>6 DEF History!Cancel, History!Settle, History!Closed
  <2> QED  BY <2>7 DEF History!Next
<1> QED  BY <1>1, <1>2

LEMMA SubSeqLonger ==
  ASSUME NEW s \in Seq(Documents), NEW d \in Documents, NEW n, n = Len(s)
  PROVE  SubSeq(s \o <<d>>, 1, n) = s
<1>1. PICK new : new = s \o <<d>>
  OBVIOUS
<1>2. new \in Seq(Documents) /\ Len(new) = n + 1 /\ \A t \in 1..n : new[t] = s[t]
  BY <1>1, StatesLonger
<1>3. n \in 0..Len(new) /\ n \in Nat
  BY <1>2, LenProperties
<1>4. PICK c : c = SubSeq(new, 1, n)
  OBVIOUS
<1>5. c \in Seq(Documents) /\ Len(c) = n /\ \A t \in 1..n : c[t] = new[t]
  BY <1>2, <1>3, <1>4, StatesCut
<1>6. c = s
  <2>1. \A t \in 1..Len(s) : c[t] = s[t]
    BY <1>2, <1>5
  <2> QED  BY <1>5, <2>1, SeqEqual
<1> QED  BY <1>1, <1>4, <1>6

EndsAs(s, p, d, sts, n) ==
  \/ n = p + 1 /\ sts = SubSeq(s, 1, p + 1) \o <<d>>
  \/ n = p /\ sts = SubSeq(s, 1, p + 1) \o <<>> /\ d = s[p + 1]

\* How an open transaction ends: with its contents as one more state, or without, if it is empty.
LEMMA EndsWith ==
  ASSUME MaxClears <= 1, DInv, OpenLists, NEW n, n = CloseCurrent, NEW sts, sts = StatesTo(n)
  PROVE  /\ EndsAs(states, current, Contents(heap), sts, n)
         /\ sts \in Seq(Documents) /\ Len(sts) = n + 1 /\ n \in Nat /\ current \in Nat
<1>1. SInv /\ opened = TRUE
  BY DEF DInv, OpenLists
<1>2. states \in Seq(Documents) /\ Len(states) = current + 1 /\ current \in Nat
  BY <1>1, SInvFacts
<1>3. n = current \/ n = current + 1
  BY Opened
<1>4. n \in Nat /\ sts \in Seq(Documents) /\ Len(sts) = n + 1
  BY <1>1, Ended
<1>5. CASE n = current + 1
  <2>1. n > current
    BY <1>2, <1>5
  <2> QED  BY <1>1, <1>2, <1>4, <1>5, <2>1 DEF StatesTo, EndsAs
<1>6. CASE n = current
  <2>1. ~(n > current)
    BY <1>2, <1>6
  <2>2. sts = SubSeq(states, 1, current + 1) \o <<>>
    BY <1>1, <2>1 DEF StatesTo
  <2>3. sts = states
    BY <1>1, <2>2, ClosedStates
  <2>4. PICK w : Settled(w, Previous(n), sts, heap, n)
    <3>1. n = (IF opened THEN CloseCurrent ELSE current)
      BY <1>1
    <3> QED  BY <3>1, SettledIs
  <2>5. Contents(heap) = states[current + 1]
    BY <1>6, <2>3, <2>4 DEF Settled
  <2> QED  BY <1>2, <1>4, <1>6, <2>2, <2>5 DEF EndsAs
<1> QED  BY <1>3, <1>5, <1>6

LEMMA CommitPromised == ASSUME MaxClears <= 1, DInv, DInv', Commit PROVE History!Next
<1>1. PICK n : n = CloseCurrent
  OBVIOUS
<1>2. PICK sts : sts = StatesTo(n)
  OBVIOUS
<1>3. OpenLists /\ states' = sts /\ current' = n /\ opened' = FALSE /\ opened = TRUE
  BY <1>1, <1>2, Committed DEF DInv, OpenLists
<1>4. EndsAs(states, current, Contents(heap), sts, n) /\ Len(sts) = n + 1
  BY <1>1, <1>2, <1>3, EndsWith
<1>5. Contents(heap') = Contents(heap)
  <2>1. PICK w : Settled(w, Previous(n), sts, heap, n)
    <3>1. n = (IF opened THEN CloseCurrent ELSE current)
      BY <1>1, <1>3
    <3> QED  BY <1>2, <3>1, SettledIs
  <2>2. heap \in Heaps
    BY LInvFacts DEF DInv, SInv
  <2>3. PICK ls : ls = OwnedBy(After(n))
    OBVIOUS
  <2>4. ls = {} /\ heap' = Delete(heap, ls)
    BY <1>1, <2>3, Committed DEF DInv
  <2> QED  BY <2>1, <2>2, <2>4, SettledSame
<1>6. CASE n = current + 1 /\ sts = SubSeq(states, 1, current + 1) \o <<Contents(heap)>>
  <2>1. states' = SubSeq(states, 1, current + 1) \o <<Contents(heap)>>
        /\ current' + 1 = Len(SubSeq(states, 1, current + 1) \o <<Contents(heap)>>)
    BY <1>3, <1>4, <1>6
  <2>2. History!Settle(<<Contents(heap)>>)
    BY <2>1 DEF History!Settle, History!Closed
  <2>3. History!Commit
    BY <1>3, <1>5, <2>2 DEF History!Commit
  <2> QED  BY <2>3 DEF History!Next
<1>7. CASE n = current /\ sts = SubSeq(states, 1, current + 1) \o <<>> /\ Contents(heap) = states[current + 1]
  <2>1. states' = SubSeq(states, 1, current + 1) \o <<>>
        /\ current' + 1 = Len(SubSeq(states, 1, current + 1) \o <<>>)
    BY <1>3, <1>4, <1>7
  <2>2. History!Settle(<<>>)
    BY <2>1 DEF History!Settle, History!Closed
  <2>3. History!Commit
    BY <1>3, <1>5, <1>7, <2>2 DEF History!Commit
  <2> QED  BY <2>3 DEF History!Next
<1> QED  BY <1>4, <1>6, <1>7 DEF EndsAs

\* What transaction () does to the history: a new transaction, or one that is continued.
LEMMA TransactionIs ==
  ASSUME MaxClears <= 1, DInv, NEW join, Transaction(join),
         NEW n, n = (IF opened THEN CloseCurrent ELSE current), NEW sts, sts = StatesTo(n)
  PROVE  /\ \/ states' = SubSeq(sts, 1, n + 1) /\ current' = n
            \/ states' = SubSeq(sts, 1, n) /\ current' = n - 1 /\ n >= 1 /\ Len(sts) = n + 1
         /\ opened' = TRUE /\ Contents(heap') = Contents(heap)
<1>1. PICK ts : ts = (IF opened THEN Before(n) ELSE transactions)
  OBVIOUS
<1>2. PICK w : Settled(w, ts, sts, heap, n)
  BY <1>1, SettledIs DEF Previous
<1>3. Listed(ts) /\ n \in 0..Len(ts) /\ Len(sts) = Len(ts) + 1 /\ n \in Nat /\ sts \in Seq(Documents)
  <2>1. Listed(ts) /\ n \in 0..Len(ts) /\ Len(sts) = Len(ts) + 1 /\ sts \in Seq(Documents)
    BY <1>2 DEF Settled
  <2> QED  BY <2>1, ListedLen
<1>4. \/ /\ ts # <<>> /\ n = Len(ts) /\ heap' = heap /\ current' = Len(ts) - 1
         /\ states' = SubSeq(sts, 1, Len(ts)) /\ opened' = TRUE
      \/ /\ heap' = Delete(heap, OwnedBy(SubSeq(ts, n + 1, Len(ts))))
         /\ current' = n /\ states' = SubSeq(sts, 1, n + 1) /\ opened' = TRUE
  BY <1>1 DEF Transaction, Joins, StatesTo
<1>5. CASE /\ ts # <<>> /\ n = Len(ts) /\ heap' = heap /\ current' = Len(ts) - 1
           /\ states' = SubSeq(sts, 1, Len(ts)) /\ opened' = TRUE
  <2>1. n # 0
    BY <1>3, <1>5, EmptySeq DEF Listed
  <2> QED  BY <1>3, <1>5, <2>1
<1>6. CASE /\ heap' = Delete(heap, OwnedBy(SubSeq(ts, n + 1, Len(ts))))
           /\ current' = n /\ states' = SubSeq(sts, 1, n + 1) /\ opened' = TRUE
  <2>1. PICK rest : rest = SubSeq(ts, n + 1, Len(ts))
    OBVIOUS
  <2>2. PICK us : us = SubSeq(ts, 1, n)
    OBVIOUS
  <2>3. PICK i : i = Delete(heap, OwnedBy(rest))
    OBVIOUS
  <2>4. heap \in Heaps /\ Good(heap, View(ts))
    <3>1. LInv
      BY DEF DInv, SInv
    <3>2. Layered(ts, heap, edits)
      BY <1>1, <3>1, PreviousLayered
    <3> QED  BY <3>2 DEF Layered, Sound, Kept
  <2>5. Chain(w, ts) /\ Stashed(w, View(ts), heap)
    BY <1>2 DEF Settled
  <2>6. CutTells(w, ts, us, heap, i)
    BY <1>3, <2>1, <2>2, <2>3, <2>4, <2>5, CutTold
  <2>7. Contents(i) = Contents(heap) /\ heap' = i
    BY <1>6, <2>1, <2>3, <2>6 DEF CutTells
  <2> QED  BY <1>6, <2>7
<1> QED  BY <1>4, <1>5, <1>6

LEMMA BeginPromised ==
  ASSUME MaxClears <= 1, DInv, ClosedLists, NEW join, Transaction(join) PROVE History!Next
<1>1. PICK n : n = (IF opened THEN CloseCurrent ELSE current)
  OBVIOUS
<1>2. PICK sts : sts = StatesTo(n)
  OBVIOUS
<1>3. opened = FALSE /\ n = current /\ sts = states
  BY <1>1, <1>2 DEF ClosedLists, StatesTo
<1>4. /\ \/ states' = SubSeq(states, 1, current + 1) /\ current' = current
         \/ states' = SubSeq(states, 1, current) /\ current' = current - 1 /\ current >= 1 /\ Len(states) = current + 1
      /\ opened' = TRUE /\ Contents(heap') = Contents(heap)
  BY <1>1, <1>2, <1>3, TransactionIs
<1>5. states \in Seq(Documents) /\ current \in Nat /\ current + 1 \in 0..Len(states)
  <2>1. states \in Seq(Documents) /\ current \in 0..Len(transactions) /\ Len(transactions) \in Nat
        /\ Len(states) = Len(transactions) + 1
    BY SInvFacts DEF DInv
  <2> QED  BY <2>1
<1>6. CASE states' = SubSeq(states, 1, current + 1) /\ current' = current
  <2>1. PICK c : c = SubSeq(states, 1, current + 1)
    OBVIOUS
  <2>2. c \in Seq(Documents) /\ Len(c) = current + 1
    BY <1>5, <2>1, StatesCut
  <2>3. c \o <<>> = c
    BY <2>2, ConcatEmptySeq
  <2>4. states' = c \o <<>> /\ current' + 1 = Len(c \o <<>>)
    BY <1>6, <2>1, <2>2, <2>3
  <2>5. History!Settle(<<>>)
    BY <2>1, <2>4 DEF History!Settle, History!Closed
  <2>6. History!Begin
    BY <1>3, <1>4, <2>5 DEF History!Begin
  <2> QED  BY <2>6 DEF History!Next
<1>7. CASE states' = SubSeq(states, 1, current) /\ current' = current - 1 /\ current >= 1 /\ Len(states) = current + 1
  <2>1. Len(states) - 1 = current /\ current + 1 > 1 /\ current' + 1 = (current + 1) - 1
    BY <1>5, <1>7
  <2>2. History!Front(states) = SubSeq(states, 1, Len(states) - 1)
    BY DEF History!Front
  <2>3. states' = History!Front(states)
    BY <1>7, <2>1, <2>2
  <2>4. History!Begin
    BY <1>3, <1>4, <1>7, <2>1, <2>3 DEF History!Begin
  <2> QED  BY <2>4 DEF History!Next
<1> QED  BY <1>4, <1>6, <1>7

LEMMA CommitAndBeginPromised ==
  ASSUME MaxClears <= 1, DInv, OpenLists, NEW join, Transaction(join) PROVE History!Next
<1>1. PICK n : n = CloseCurrent
  OBVIOUS
<1>2. PICK sts : sts = StatesTo(n)
  OBVIOUS
<1>3. opened = TRUE
  BY DEF OpenLists
<1>4. EndsAs(states, current, Contents(heap), sts, n) /\ sts \in Seq(Documents) /\ Len(sts) = n + 1 /\ n \in Nat /\ current \in Nat
  BY <1>1, <1>2, EndsWith
<1>5. /\ \/ states' = SubSeq(sts, 1, n + 1) /\ current' = n
         \/ states' = SubSeq(sts, 1, n) /\ current' = n - 1 /\ n >= 1
      /\ opened' = TRUE /\ Contents(heap') = Contents(heap)
  <2>1. n = (IF opened THEN CloseCurrent ELSE current)
    BY <1>1, <1>3
  <2> QED  BY <1>2, <2>1, TransactionIs
<1>6. CASE states' = SubSeq(sts, 1, n + 1) /\ current' = n
  <2>1. SubSeq(sts, 1, n + 1) = sts
    BY <1>4, SubSeqFull
  <2>2. states' = sts /\ current' + 1 = Len(sts)
    BY <1>4, <1>6, <2>1
  <2>3. \/ states' = SubSeq(states, 1, current + 1) \o <<Contents(heap)>>
           /\ current' + 1 = Len(SubSeq(states, 1, current + 1) \o <<Contents(heap)>>)
        \/ /\ states' = SubSeq(states, 1, current + 1) \o <<>>
           /\ current' + 1 = Len(SubSeq(states, 1, current + 1) \o <<>>)
           /\ Contents(heap) = states[current + 1]
    BY <1>4, <2>2 DEF EndsAs
  <2>4. History!Settle(<<Contents(heap)>>) \/ (Contents(heap) = states[current + 1] /\ History!Settle(<<>>))
    BY <2>3 DEF History!Settle, History!Closed
  <2>5. History!CommitAndBegin
    BY <1>3, <1>5, <2>4 DEF History!CommitAndBegin
  <2> QED  BY <2>5 DEF History!Next
<1>7. CASE states' = SubSeq(sts, 1, n) /\ current' = n - 1 /\ n >= 1
  <2>1. SInv /\ states \in Seq(Documents) /\ Contents(heap) \in Documents /\ Len(states) = current + 1
    BY SInvFacts DEF DInv
  <2>2. SubSeq(states, 1, current + 1) = states /\ SubSeq(states, 1, current + 1) \o <<>> = states
    BY <2>1, ClosedStates
  <2>3. CASE n = current + 1 /\ sts = SubSeq(states, 1, current + 1) \o <<Contents(heap)>>
    <3>1. PICK d \in Documents : d = Contents(heap)
      BY <2>1
    <3>2. sts = states \o <<d>>
      BY <2>2, <2>3, <3>1
    <3>3. SubSeq(sts, 1, n) = states
      BY <2>1, <2>3, <3>2, SubSeqLonger
    <3>4. states' = states /\ current' + 1 = current + 1
      BY <1>4, <1>7, <2>3, <3>3
    <3>5. History!CommitAndBegin
      BY <1>3, <1>5, <3>4 DEF History!CommitAndBegin
    <3> QED  BY <3>5 DEF History!Next
  <2>4. CASE n = current /\ sts = SubSeq(states, 1, current + 1) \o <<>> /\ Contents(heap) = states[current + 1]
    <3>1. sts = states
      BY <2>2, <2>4
    <3>2. (current + 1) - 1 = n /\ current + 1 > 1 /\ current' + 1 = (current + 1) - 1
      BY <1>4, <1>7, <2>4
    <3>3. states' = SubSeq(states, 1, (current + 1) - 1)
      BY <1>7, <3>1, <3>2
    <3>4. History!CommitAndBegin
      BY <1>3, <1>5, <2>4, <3>2, <3>3 DEF History!CommitAndBegin
    <3> QED  BY <3>4 DEF History!Next
  <2> QED  BY <1>4, <2>3, <2>4 DEF EndsAs
<1> QED  BY <1>5, <1>6, <1>7

LEMMA PromisedInit == Init => History!Init
<1> SUFFICES ASSUME Init PROVE History!Init
  OBVIOUS
<1>1. Contents(heap) \in Documents
  BY SInvInit, SInvFacts
<1>2. states = <<Contents(heap)>> /\ current + 1 = 1 /\ opened = FALSE
  BY DEF Init
<1> QED  BY <1>1, <1>2 DEF History!Init, Documents

LEMMA PromisedStep ==
  ASSUME MaxClears <= 1, DInv, DInv', [Next]_vars PROVE [History!Next]_(History!vars)
<1> DEFINE Goal == [History!Next]_(History!vars)
<1>1. ASSUME History!Next PROVE Goal
  BY <1>1
<1>2. ASSUME UNCHANGED vars PROVE Goal
  <2>1. UNCHANGED History!vars
    BY <1>2 DEF vars, History!vars
  <2> QED  BY <2>1
<1> HIDE DEF Goal
<1>3. ASSUME NEW join \in {0} \cup Ids, Transaction(join) PROVE Goal
  <2>1. OpenLists \/ ClosedLists
    BY SInvFacts DEF DInv
  <2> QED  BY <1>1, <1>3, <2>1, BeginPromised, CommitAndBeginPromised
<1>4. ASSUME Commit PROVE Goal
  BY <1>1, <1>4, CommitPromised
<1>5. ASSUME Cancel PROVE Goal
  BY <1>1, <1>5, CancelPromised
<1>6. ASSUME Undo PROVE Goal
  BY <1>1, <1>6, UndoPromised
<1>7. ASSUME Redo PROVE Goal
  BY <1>1, <1>7, RedoPromised
<1>8. ASSUME Clear PROVE Goal
  <2>1. transactions' = <<>> /\ current' = 0 /\ opened' = FALSE /\ states' = <<Contents(heap')>>
    BY <1>8 DEF Clear
  <2> QED  BY <1>1, <2>1, ForgetPromised
<1>9. ASSUME NEW c \in Containers, NEW s \in Shapes, Insert(c, s) \/ Erase(c, s) PROVE Goal
  <2>1. CanEdit /\ Edited /\ \E ops : Queue(ops)
    BY <1>9 DEF Insert, Erase, Record
  <2> QED  BY <1>1, <2>1, EditPromised
<1>10. ASSUME NEW c \in Containers, ClearContainer(c) PROVE Goal
  <2>1. CanEdit /\ Edited /\ \E ops : Queue(ops)
    BY <1>10 DEF ClearContainer
  <2> QED  BY <1>1, <2>1, EditPromised
<1>11. ASSUME NEW c \in Containers, NEW d \in Containers, CopyFrom(c, d) PROVE Goal
  <2>1. CanEdit /\ Edited /\ \E ops : Queue(ops)
    BY <1>11 DEF CopyFrom, Record
  <2> QED  BY <1>1, <2>1, EditPromised
<1>12. Goal
  BY <1>2, <1>3, <1>4, <1>5, <1>6, <1>7, <1>8, <1>9, <1>10, <1>11 DEF Next
<1> QED  BY <1>12 DEF Goal

(* Undo brings back what was there before the transaction, redo what was   *)
(* there after it, cancel what was there before the open one began: as     *)
(* long as no more than one clear () of a container is recorded, every     *)
(* call of db::Manager is a step of the history of documents, whatever     *)
(* transactions were joined, dropped when empty, cut off by a new one or   *)
(* interrupted in a replay (dbManager.cc, with the operations of           *)
(* dbShapes.h and .cc).                                                    *)
THEOREM HistoryKept == ASSUME MaxClears <= 1 PROVE Spec => ImplementsUndoHistory
<1>1. Init => History!Init
  BY PromisedInit
<1>2. DInv /\ DInv' /\ [Next]_vars => [History!Next]_(History!vars)
  BY PromisedStep
<1> QED  BY <1>1, <1>2, DInvAlways, PTL DEF Spec, ImplementsUndoHistory, History!Spec
=============================================================================
