----------------------- MODULE DeferredExecutionProofs -----------------------
(***************************************************************************)
(* Theorems about DeferredExecution, for any set of methods and without    *)
(* the bounds on calls and nesting that the runs need: those two are       *)
(* constants of the module with any natural number as their value.         *)
(***************************************************************************)
EXTENDS DeferredExecution, NumberInduction, SequenceTheorems

-----------------------------------------------------------------------------
(* Counting the calls in a queue                                           *)

LEMMA CountType ==
  ASSUME NEW seq \in Seq(Methods), NEW pos \in Nat, NEW m
  PROVE  IsFiniteSet(Found(seq, pos, m)) /\ CountFrom(seq, pos, m) \in Nat
<1>1. IsFiniteSet(pos..Len(seq))
  BY FS_Interval
<1>2. Found(seq, pos, m) \in SUBSET (pos..Len(seq))
  BY DEF Found
<1>3. IsFiniteSet(Found(seq, pos, m))
  BY <1>1, <1>2, FS_Subset
<1> QED  BY <1>3, FS_CardinalityType DEF CountFrom

\* Behind the end there is nothing.
LEMMA CountEnd ==
  ASSUME NEW seq \in Seq(Methods), NEW pos \in Nat, pos > Len(seq), NEW m
  PROVE  CountFrom(seq, pos, m) = 0
<1>1. Found(seq, pos, m) = {}
  BY DEF Found
<1> QED  BY <1>1, FS_EmptySet DEF CountFrom

\* The first call, then the others.
LEMMA CountNext ==
  ASSUME NEW seq \in Seq(Methods), NEW pos \in 1..Len(seq), NEW m
  PROVE  CountFrom(seq, pos, m)
           = CountFrom(seq, pos + 1, m) + (IF seq[pos] = m THEN 1 ELSE 0)
<1>1. IsFiniteSet(Found(seq, pos + 1, m)) /\ CountFrom(seq, pos + 1, m) \in Nat
  BY CountType
<1>2. CASE seq[pos] = m
  <2>1. Found(seq, pos, m) = Found(seq, pos + 1, m) \cup {pos} /\ pos \notin Found(seq, pos + 1, m)
    BY <1>2 DEF Found
  <2> QED  BY <1>1, <1>2, <2>1, FS_AddElement DEF CountFrom
<1>3. CASE seq[pos] # m
  <2>1. Found(seq, pos, m) = Found(seq, pos + 1, m)
    BY <1>3 DEF Found
  <2> QED  BY <1>1, <1>3, <2>1 DEF CountFrom
<1> QED  BY <1>2, <1>3

LEMMA CountPart ==
  ASSUME NEW seq \in Seq(Methods), NEW pos \in Nat \ {0}, NEW m
  PROVE  CountFrom(seq, pos, m) <= Occurrences(seq, m)
<1>1. Found(seq, pos, m) \in SUBSET Found(seq, 1, m)
  BY DEF Found
<1>2. IsFiniteSet(Found(seq, 1, m))
  BY CountType
<1> QED  BY <1>1, <1>2, FS_Subset DEF Occurrences, CountFrom

LEMMA CountAppend ==
  ASSUME NEW seq \in Seq(Methods), NEW x \in Methods, NEW m
  PROVE  Occurrences(Append(seq, x), m)
           = Occurrences(seq, m) + (IF x = m THEN 1 ELSE 0)
<1> DEFINE n == Len(seq) + 1
<1>1. IsFiniteSet(Found(seq, 1, m)) /\ CountFrom(seq, 1, m) \in Nat
  BY CountType
<1>2. CASE x = m
  <2>1. Found(Append(seq, x), 1, m) = Found(seq, 1, m) \cup {n} /\ n \notin Found(seq, 1, m)
    BY <1>2 DEF Found
  <2> QED  BY <1>1, <1>2, <2>1, FS_AddElement DEF Occurrences, CountFrom
<1>3. CASE x # m
  <2>1. Found(Append(seq, x), 1, m) = Found(seq, 1, m)
    BY <1>3 DEF Found
  <2> QED  BY <1>1, <1>3, <2>1 DEF Occurrences, CountFrom
<1> QED  BY <1>2, <1>3

-----------------------------------------------------------------------------
(* Erasing from a queue                                                    *)

\* The recursion of Without is well-founded.
LEMMA WithoutDef ==
  ASSUME NEW seq \in Seq(Methods), NEW m
  PROVE  Without(seq, m) =
           [n \in 0..Len(seq) |->
              IF n = 0 THEN <<>>
              ELSE IF seq[n] = m THEN Without(seq, m)[n - 1]
                   ELSE Append(Without(seq, m)[n - 1], seq[n])]
<1> DEFINE Body(f, n) == IF n = 0 THEN <<>>
                         ELSE IF seq[n] = m THEN f[n - 1] ELSE Append(f[n - 1], seq[n])
           S == {n \in Nat : \E f : f = [i \in 0..n |-> Body(f, i)]}
<1>1. 0 \in S
  <2> DEFINE f == [i \in 0..0 |-> <<>>]
  <2>1. f = [i \in 0..0 |-> Body(f, i)]
    OBVIOUS
  <2> QED  BY <2>1
<1>2. ASSUME NEW n \in Nat, n \in S PROVE n + 1 \in S
  <2>1. PICK f : f = [i \in 0..n |-> Body(f, i)]
    BY <1>2
  <2> DEFINE g == [i \in 0..(n + 1) |-> IF i <= n THEN f[i] ELSE Body(f, i)]
  <2>2. ASSUME NEW i \in 0..(n + 1) PROVE g[i] = Body(g, i)
    <3>1. CASE i = 0
      <4>1. g[i] = f[i] /\ f[i] = <<>>
        BY <2>1, <3>1
      <4> QED  BY <3>1, <4>1
    <3>2. CASE i # 0
      <4>1. i - 1 \in 0..n /\ i - 1 \in 0..(n + 1) /\ i - 1 <= n
        BY <3>2
      <4>2. g[i - 1] = f[i - 1]
        BY <4>1
      <4>3. Body(g, i) = Body(f, i)
        BY <4>2
      <4>4. g[i] = Body(f, i)
        <5> HIDE DEF Body
        <5>1. CASE i <= n
          <6>1. i \in 0..n
            BY <5>1
          <6> QED  BY <2>1, <5>1, <6>1
        <5>2. CASE ~(i <= n)
          BY <5>2
        <5> QED  BY <5>1, <5>2
      <4> QED  BY <4>3, <4>4
    <3> QED  BY <3>1, <3>2
  <2> HIDE DEF Body
  <2>3. g = [i \in 0..(n + 1) |-> Body(g, i)]
    BY <2>2
  <2> HIDE DEF g
  <2> QED  BY <2>3
<1>3. Len(seq) \in S
  <2> HIDE DEF S
  <2>1. Len(seq) \in Nat
    OBVIOUS
  <2> QED  BY <1>1, <1>2, <2>1, SetInduction
<1> HIDE DEF Body
<1>4. \E f : f = [i \in 0..Len(seq) |-> Body(f, i)]
  BY <1>3
<1>5. Without(seq, m) = CHOOSE f : f = [i \in 0..Len(seq) |-> Body(f, i)]
  BY DEF Without, Body
<1>6. Without(seq, m) = [i \in 0..Len(seq) |-> Body(Without(seq, m), i)]
  BY <1>4, <1>5
<1> QED  BY <1>6 DEF Body

(* Erasing leaves the calls of the other methods, each as often as before. *)
LEMMA EraseCounts ==
  ASSUME NEW seq \in Seq(Methods), NEW m, NEW x \in Methods
  PROVE  LET rest == Without(seq, m)[Len(seq)]
         IN  /\ rest \in Seq(Methods)
             /\ Occurrences(rest, x) = IF x = m THEN 0 ELSE Occurrences(seq, x)
<1> DEFINE W == Without(seq, m)
           In(n) == {i \in 1..n : seq[i] = x}
           S == {n \in Nat : n <= Len(seq) =>
                   /\ W[n] \in Seq(Methods)
                   /\ Occurrences(W[n], x) = IF x = m THEN 0 ELSE Cardinality(In(n))}
<1>0. W = [n \in 0..Len(seq) |->
             IF n = 0 THEN <<>>
             ELSE IF seq[n] = m THEN W[n - 1] ELSE Append(W[n - 1], seq[n])]
  BY WithoutDef
<1> HIDE DEF W
<1>1. 0 \in S
  <2>1. W[0] = <<>>
    BY <1>0
  <2>2. In(0) = {}
    OBVIOUS
  <2>3. Occurrences(<<>>, x) = 0
    <3>1. <<>> \in Seq(Methods) /\ 1 > Len(<<>>)
      OBVIOUS
    <3> QED  BY <3>1, CountEnd DEF Occurrences
  <2>4. Cardinality(In(0)) = 0
    BY <2>2, FS_EmptySet
  <2>5. <<>> \in Seq(Methods)
    OBVIOUS
  <2> HIDE DEF In
  <2> QED  BY <2>1, <2>3, <2>4, <2>5
<1>2. ASSUME NEW n \in Nat, n \in S PROVE n + 1 \in S
  <2> SUFFICES ASSUME n + 1 <= Len(seq)
               PROVE  /\ W[n + 1] \in Seq(Methods)
                      /\ Occurrences(W[n + 1], x) = IF x = m THEN 0 ELSE Cardinality(In(n + 1))
    OBVIOUS
  <2>1. /\ W[n] \in Seq(Methods)
        /\ Occurrences(W[n], x) = IF x = m THEN 0 ELSE Cardinality(In(n))
    BY <1>2
  <2>2. W[n + 1] = IF seq[n + 1] = m THEN W[n] ELSE Append(W[n], seq[n + 1])
    <3>1. n + 1 \in 0..Len(seq) /\ n + 1 # 0 /\ (n + 1) - 1 = n
      OBVIOUS
    <3> QED  BY <1>0, <3>1
  <2>3. seq[n + 1] \in Methods
    OBVIOUS
  <2>4. IsFiniteSet(In(n)) /\ Cardinality(In(n)) \in Nat
    <3>1. IsFiniteSet(1..n) /\ In(n) \in SUBSET (1..n)
      BY FS_Interval
    <3> QED  BY <3>1, FS_Subset, FS_CardinalityType
  <2>5. CASE seq[n + 1] = x
    <3>1. In(n + 1) = In(n) \cup {n + 1} /\ n + 1 \notin In(n)
      BY <2>5
    <3>2. Cardinality(In(n + 1)) = Cardinality(In(n)) + 1
      BY <2>4, <3>1, FS_AddElement
    <3> HIDE DEF In
    <3> QED  BY <2>1, <2>2, <2>3, <2>5, <3>2, CountAppend
  <2>6. CASE seq[n + 1] # x
    <3>1. In(n + 1) = In(n)
      BY <2>6
    <3> HIDE DEF In
    <3>2. CASE seq[n + 1] = m
      BY <2>1, <2>2, <3>1, <3>2
    <3>3. CASE seq[n + 1] # m
      <4>1. Occurrences(W[n + 1], x) = Occurrences(W[n], x) + 0
        BY <2>1, <2>2, <2>3, <2>6, <3>3, CountAppend
      <4>2. Occurrences(W[n], x) \in Nat
        BY <2>1, CountType DEF Occurrences
      <4> QED  BY <2>1, <2>2, <2>3, <3>1, <3>3, <4>1, <4>2
    <3> QED  BY <3>2, <3>3
  <2> QED  BY <2>5, <2>6
<1>3. Len(seq) \in S
  <2> HIDE DEF S
  <2>1. Len(seq) \in Nat
    OBVIOUS
  <2> QED  BY <1>1, <1>2, <2>1, SetInduction
<1>4. In(Len(seq)) = Found(seq, 1, x)
  BY DEF Found
<1> HIDE DEF In
<1> QED  BY <1>3, <1>4 DEF W, Occurrences, CountFrom

-----------------------------------------------------------------------------
(* The inductive invariant                                                 *)

(* Only the innermost activation can be anywhere but in a method it calls; *)
(* before a call it is at a call of the round, which is not cancelled any  *)
(* more once it has been found valid.                                      *)
Nested == \A i \in 1..(Len(stack) - 1) : stack[i].at = "running"
InRound ==
  /\ At("check") \/ At("valid") => Top.pos \in 1..Len(executing)
  /\ At("valid") => executing[Top.pos] \notin unqueued
NestInv == Nested /\ InRound

(* m_scheduled of the scheduler and what it announces: at "enter" with     *)
(* calls enabled the queue is about to be taken.                           *)
EventInv ==
  /\ methods # <<>> => scheduled
  /\ scheduled => events > 0 \/ timer \/ (At("enter") /\ disabled = 0)

(* m_scheduled of a compressed method says that it has a call pending,     *)
(* save for a method that lost one.                                        *)
FlagInv ==
  /\ \A m \in Compressed : Pending(m) > 0 => flag[m]
  /\ \A m \in Compressed \ spoiled : flag[m] => Pending(m) > 0

CountInv == FlagInv /\ PendingOnce /\ NoUnaskedCall /\ CallsKept
DeferredInv == TypeOK /\ NestInv /\ CountInv

StackOK == stack \in Seq(Activations) /\ Nested

-----------------------------------------------------------------------------
(* Moves of the stack of activations                                       *)

LEMMA Pushed ==
  ASSUME StackOK, stack = <<>> \/ At("running"), UNCHANGED executing,
         NEW via \in {"event", "execute"}, stack' = Append(stack, Activation(via, "enter", 0))
  PROVE  /\ StackOK' /\ InRound' /\ At("enter")'
         /\ NextPos' = NextPos
<1>1. /\ Len(stack) \in Nat /\ Len(stack') = Len(stack) + 1
      /\ stack'[Len(stack')] = Activation(via, "enter", 0)
      /\ \A i \in 1..Len(stack) : stack'[i] = stack[i]
  BY DEF StackOK
<1>2. Activation(via, "enter", 0) \in Activations
  BY DEF Activation, Activations, Places
<1>3. stack' \in Seq(Activations)
  BY <1>2 DEF StackOK
<1>4. \A i \in 1..Len(stack) : stack[i].at = "running"
  BY <1>1 DEF StackOK, Nested, At, Top
<1>5. Nested'
  BY <1>1, <1>4 DEF Nested
<1>6. At("enter")' /\ ~At("check")' /\ ~At("valid")'
  BY <1>1 DEF At, Top, Activation
<1>7. Current' = Len(stack) /\ Current = Len(stack)
  <2>1. ~At("enter")
    BY DEF At
  <2> QED  BY <1>1, <1>6, <2>1 DEF Current
<1>8. NextPos' = NextPos
  <2>1. CASE Len(stack) = 0
    BY <1>7, <2>1 DEF NextPos
  <2>2. CASE Len(stack) # 0
    <3>1. stack'[Len(stack)] = stack[Len(stack)]
      BY <1>1, <2>2
    <3> QED  BY <1>7, <2>2, <3>1 DEF NextPos
  <2> QED  BY <2>1, <2>2
<1> QED  BY <1>3, <1>5, <1>6, <1>8 DEF StackOK, InRound

LEMMA Popped ==
  ASSUME StackOK, stack # <<>>, Pop
  PROVE  /\ StackOK' /\ InRound'
         /\ Len(stack') = Len(stack) - 1
         /\ \A i \in 1..Len(stack') : stack'[i] = stack[i] /\ stack[i].at = "running"
         /\ Current' = Len(stack) - 1
<1>1. /\ Len(stack) \in Nat \ {0} /\ stack' = SubSeq(stack, 1, Len(stack) - 1)
  BY DEF StackOK, Pop, Front
<1>2. /\ stack' \in Seq(Activations) /\ Len(stack') = Len(stack) - 1
      /\ \A i \in 1..(Len(stack) - 1) : stack'[i] = stack[i]
  <2> DEFINE n == Len(stack) - 1
  <2>1. n \in Nat /\ \A i \in 1..n : stack[i] \in Activations
    BY <1>1 DEF StackOK
  <2> HIDE DEF n
  <2>2. /\ SubSeq(stack, 1, n) \in Seq(Activations)
        /\ Len(SubSeq(stack, 1, n)) = IF 1 <= n THEN n - 1 + 1 ELSE 0
        /\ \A i \in 1..(n - 1 + 1) : SubSeq(stack, 1, n)[i] = stack[1 + i - 1]
    <3>1. 1 \in Int /\ n \in Int
      BY <2>1
    <3> QED  BY <2>1, <3>1, SubSeqProperties
  <2>3. \A i \in 1..n : SubSeq(stack, 1, n)[i] = stack[i]
    BY <2>1, <2>2
  <2>4. Len(SubSeq(stack, 1, n)) = n
    BY <2>1, <2>2
  <2> QED  BY <1>1, <2>2, <2>3, <2>4 DEF n
<1>3. \A i \in 1..Len(stack') : stack'[i] = stack[i] /\ stack[i].at = "running"
  BY <1>1, <1>2 DEF StackOK, Nested
<1>4. Nested'
  BY <1>1, <1>2, <1>3 DEF Nested
<1>5. ~At("enter")' /\ ~At("check")' /\ ~At("valid")'
  <2>1. stack' # <<>> => Len(stack') \in 1..Len(stack')
    BY <1>2
  <2> QED  BY <1>3, <2>1 DEF At, Top
<1> QED  BY <1>2, <1>3, <1>4, <1>5 DEF StackOK, InRound, Current

LEMMA Moved ==
  ASSUME StackOK, stack # <<>>, NEW place \in Places, NEW pos \in Nat, Goto(place, pos)
  PROVE  /\ StackOK' /\ stack' # <<>>
         /\ Top'.at = place /\ Top'.pos = pos
         /\ \A q : At(q)' <=> q = place
         /\ place # "enter" => Current' = Len(stack) /\ Current' # 0 /\ stack'[Current'] = Top'
<1> DEFINE frame == [Top EXCEPT !.at = place, !.pos = pos]
<1>1. Len(stack) \in Nat \ {0} /\ stack' = [stack EXCEPT ![Len(stack)] = frame]
  BY DEF StackOK, Goto, SetTop
<1>2. frame \in Activations /\ frame.at = place /\ frame.pos = pos
  <2>1. Top \in Activations
    BY <1>1 DEF StackOK, Top
  <2> QED  BY <2>1 DEF Activations
<1> HIDE DEF frame
<1>4. /\ stack' \in Seq(Activations) /\ Len(stack') = Len(stack)
      /\ \A i \in 1..(Len(stack) - 1) : stack'[i] = stack[i]
      /\ stack'[Len(stack)] = frame
  BY <1>1, <1>2 DEF StackOK
<1>3. Top' = frame /\ Top'.at = place /\ Top'.pos = pos
  BY <1>2, <1>4 DEF Top
<1>5. Nested'
  BY <1>4 DEF StackOK, Nested
<1>6. \A q : At(q)' <=> q = place
  BY <1>1, <1>3, <1>4 DEF At
<1>7. place # "enter" => Current' = Len(stack)
  BY <1>4, <1>6 DEF Current
<1> QED  BY <1>1, <1>3, <1>4, <1>5, <1>6, <1>7 DEF StackOK, Top

-----------------------------------------------------------------------------
(* What the steps of do_execute do to the calls that are pending           *)

LEMMA PendingType ==
  ASSUME TypeOK, NestInv
  PROVE  /\ StackOK /\ NextPos \in Nat \ {0}
         /\ \A m \in Methods : /\ Left(m) \in Nat /\ Pending(m) \in Nat
                               /\ Occurrences(methods, m) \in Nat
<1>1. StackOK
  BY DEF TypeOK, NestInv, StackOK
<1>2. NextPos \in Nat \ {0}
  <2>1. Len(stack) \in Nat /\ (stack # <<>> => Len(stack) # 0)
    BY DEF TypeOK
  <2>2. CASE Current = 0
    BY <2>2 DEF NextPos, TypeOK
  <2>3. CASE Current # 0
    <3>1. Current \in 1..Len(stack)
      <4>1. At("enter") => stack # <<>>
        BY DEF At
      <4> QED  BY <2>1, <2>3, <4>1, SMTT(30) DEF Current
    <3>2. stack[Current].pos \in Nat /\ Len(executing) \in Nat
      <4>1. stack[Current] \in Activations
        BY <3>1 DEF TypeOK
      <4> QED  BY <4>1 DEF TypeOK, Activations
    <3>3. stack[Current].at \in {"check", "valid"} => stack[Current].pos \in 1..Len(executing)
      BY <2>1, <3>1 DEF NestInv, Nested, InRound, At, Top, Current
    <3> QED  BY <2>3, <3>2, <3>3 DEF NextPos
  <2> QED  BY <2>2, <2>3
<1>3. \A m \in Methods : Left(m) \in Nat /\ Occurrences(methods, m) \in Nat
  BY <1>2, CountType DEF Left, Occurrences, TypeOK
<1> QED  BY <1>1, <1>2, <1>3 DEF Pending

LEMMA SamePending ==
  ASSUME UNCHANGED <<methods, executing, unqueued>>, NextPos' = NextPos
  PROVE  \A m \in Methods : Pending(m)' = Pending(m)
BY DEF Pending, Left

LEMMA SwapPending ==
  ASSUME TypeOK, NestInv, Swap
  PROVE  /\ NestInv' /\ stack' \in Seq(Activations)
         /\ \A m \in Methods : Pending(m)' = Occurrences(methods, m)
<1>1. At("enter") /\ stack # <<>> /\ executing' = methods /\ methods' = <<>> /\ unqueued' = {}
      /\ Goto(IF methods = <<>> THEN "finish" ELSE "check", 1)
  BY DEF Swap, At
<1>2. StackOK /\ methods \in Seq(Methods)
  BY PendingType DEF TypeOK
<1>3. CASE methods = <<>>
  <2>1. /\ StackOK' /\ (\A q : At(q)' <=> q = "finish") /\ Top'.at = "finish"
        /\ Current' = Len(stack) /\ Current' # 0 /\ stack'[Current'] = Top'
    BY <1>1, <1>2, <1>3, Moved DEF Places
  <2>2. NextPos' = 1
    BY <1>1, <1>3, <2>1 DEF NextPos
  <2>3. \A m \in Methods : CountFrom(<<>>, 1, m) = 0
    <3>1. <<>> \in Seq(Methods) /\ 1 > Len(<<>>)
      OBVIOUS
    <3> QED  BY <3>1, CountEnd
  <2>4. \A m \in Methods : Pending(m)' = Occurrences(methods, m)
    BY <1>1, <1>3, <2>2, <2>3 DEF Pending, Left, Occurrences
  <2> QED  BY <2>1, <2>4 DEF NestInv, StackOK, InRound
<1>4. CASE methods # <<>>
  <2>1. /\ StackOK' /\ (\A q : At(q)' <=> q = "check") /\ Top'.at = "check" /\ Top'.pos = 1
        /\ Current' = Len(stack) /\ Current' # 0 /\ stack'[Current'] = Top'
    BY <1>1, <1>2, <1>4, Moved DEF Places
  <2>2. NextPos' = 1
    BY <2>1 DEF NextPos
  <2>3. 1 \in 1..Len(methods)
    BY <1>2, <1>4
  <2>4. \A m \in Methods : Pending(m)' = Occurrences(<<>>, m) + Occurrences(methods, m)
    BY <1>1, <2>2 DEF Pending, Left, Occurrences
  <2>5. \A m \in Methods : Occurrences(<<>>, m) = 0 /\ Occurrences(methods, m) \in Nat
    <3>1. <<>> \in Seq(Methods) /\ 1 > Len(<<>>)
      OBVIOUS
    <3> QED  BY <1>2, <3>1, CountEnd, CountType DEF Occurrences
  <2> QED  BY <1>1, <2>1, <2>3, <2>4, <2>5 DEF NestInv, StackOK, InRound
<1> QED  BY <1>3, <1>4

LEMMA AdvanceNext ==
  ASSUME TypeOK, NestInv, stack # <<>>, UNCHANGED <<executing, unqueued>>, Advance(Top.pos)
  PROVE  /\ NestInv' /\ stack' \in Seq(Activations)
         /\ NextPos' = IF Top.pos < Len(executing) THEN Top.pos + 1 ELSE Len(executing) + 1
<1>1. StackOK /\ Top.pos \in Nat
  <2>1. Len(stack) \in 1..Len(stack)
    BY DEF TypeOK
  <2>2. Top \in Activations
    BY <2>1 DEF TypeOK, Top
  <2> QED  BY <2>2, PendingType DEF Activations
<1>2. CASE Top.pos < Len(executing)
  <2>1. Goto("check", Top.pos + 1)
    BY <1>2 DEF Advance
  <2>2. /\ StackOK' /\ (\A q : At(q)' <=> q = "check") /\ Top'.at = "check" /\ Top'.pos = Top.pos + 1
        /\ Current' # 0 /\ stack'[Current'] = Top'
    BY <1>1, <2>1, Moved DEF Places
  <2>3. NextPos' = Top.pos + 1
    BY <2>2 DEF NextPos
  <2>4. Top.pos + 1 \in 1..Len(executing)
    BY <1>1, <1>2 DEF TypeOK
  <2> QED  BY <1>2, <2>2, <2>3, <2>4 DEF NestInv, StackOK, InRound
<1>3. CASE ~(Top.pos < Len(executing))
  <2>1. Goto("finish", Top.pos + 1)
    BY <1>3 DEF Advance
  <2>2. /\ StackOK' /\ (\A q : At(q)' <=> q = "finish") /\ Top'.at = "finish"
        /\ Current' # 0 /\ stack'[Current'] = Top'
    BY <1>1, <2>1, Moved DEF Places
  <2>3. NextPos' = Len(executing) + 1
    BY <2>2 DEF NextPos
  <2> QED  BY <1>3, <2>2, <2>3 DEF NestInv, StackOK, InRound
<1> QED  BY <1>2, <1>3

LEMMA CheckPending ==
  ASSUME TypeOK, NestInv, CheckValid
  PROVE  /\ NestInv' /\ stack' \in Seq(Activations)
         /\ \A m \in Methods : Pending(m)' = Pending(m)
<1>1. /\ At("check") /\ stack # <<>> /\ Top.pos \in 1..Len(executing) /\ Top.at = "check"
      /\ UNCHANGED <<methods, executing, unqueued>>
  BY DEF CheckValid, NestInv, InRound, At, queue
<1>2. StackOK /\ Current = Len(stack) /\ Current # 0 /\ executing \in Seq(Methods)
  <2>1. Len(stack) # 0
    BY <1>1 DEF TypeOK
  <2> QED  BY <1>1, <2>1, PendingType DEF Current, At, TypeOK
<1>3. NextPos = Top.pos
  BY <1>1, <1>2 DEF NextPos, Top
<1>4. CASE StillValid(executing[Top.pos]) /\ Goto("valid", Top.pos)
  <2>1. /\ StackOK' /\ (\A q : At(q)' <=> q = "valid") /\ Top'.at = "valid" /\ Top'.pos = Top.pos
        /\ Current' # 0 /\ stack'[Current'] = Top'
    BY <1>1, <1>2, <1>4, Moved DEF Places
  <2>2. NextPos' = NextPos
    BY <1>3, <2>1 DEF NextPos
  <2>3. NestInv'
    BY <1>1, <1>4, <2>1 DEF NestInv, StackOK, InRound, StillValid
  <2> QED  BY <1>1, <2>1, <2>2, <2>3, SamePending DEF StackOK
<1>5. CASE ~StillValid(executing[Top.pos]) /\ Advance(Top.pos)
  <2>1. /\ NestInv' /\ stack' \in Seq(Activations)
        /\ NextPos' = IF Top.pos < Len(executing) THEN Top.pos + 1 ELSE Len(executing) + 1
    BY <1>1, <1>5, AdvanceNext
  <2>2. NextPos' = Top.pos + 1
    BY <1>1, <1>2, <2>1
  <2>3. ASSUME NEW m \in Methods, m \notin unqueued PROVE Left(m)' = Left(m)
    <3>1. executing[Top.pos] # m
      BY <1>5, <2>3 DEF StillValid
    <3>2. CountFrom(executing, Top.pos, m) = CountFrom(executing, Top.pos + 1, m) + 0
      BY <1>1, <1>2, <3>1, CountNext
    <3>3. CountFrom(executing, Top.pos + 1, m) \in Nat
      BY <1>1, <1>2, CountType
    <3> QED  BY <1>1, <1>3, <2>2, <3>2, <3>3 DEF Left
  <2> QED  BY <1>1, <2>1, <2>3 DEF Pending
<1> QED  BY <1>4, <1>5 DEF CheckValid

\* The call that is made is the first one that is left, and it is not cancelled.
LEMMA RunPending ==
  ASSUME TypeOK, NestInv, NEW m \in Methods, Run(m)
  PROVE  /\ NestInv' /\ stack' \in Seq(Activations)
         /\ \A x \in Methods : Pending(x)' = Pending(x) - (IF x = m THEN 1 ELSE 0)
<1>1. /\ stack # <<>> /\ Top.at = "valid" /\ Top.pos \in 1..Len(executing)
      /\ executing[Top.pos] = m /\ m \notin unqueued /\ Goto("running", Top.pos)
      /\ UNCHANGED <<methods, executing, unqueued>>
  BY DEF Run, NestInv, InRound, At
<1>2. StackOK /\ Current = Len(stack) /\ Current # 0 /\ executing \in Seq(Methods)
  <2>1. Len(stack) # 0
    BY <1>1 DEF TypeOK
  <2> QED  BY <1>1, <2>1, PendingType DEF Current, At, TypeOK
<1>3. NextPos = Top.pos
  BY <1>1, <1>2 DEF NextPos, Top
<1>4. /\ StackOK' /\ (\A q : At(q)' <=> q = "running") /\ Top'.at = "running"
      /\ Top'.pos = Top.pos /\ Current' # 0 /\ stack'[Current'] = Top'
  BY <1>1, <1>2, Moved DEF Places
<1>5. NextPos' = Top.pos + 1
  BY <1>4 DEF NextPos
<1>6. ASSUME NEW x \in Methods PROVE Left(x) = Left(x)' + (IF x = m THEN 1 ELSE 0)
  BY <1>1, <1>2, <1>3, <1>5, CountNext DEF Left
<1>7. ASSUME NEW x \in Methods PROVE Pending(x)' = Pending(x) - (IF x = m THEN 1 ELSE 0)
  <2>1. Left(x)' \in Nat /\ Occurrences(methods, x) \in Nat
    <3>1. NextPos' \in Nat /\ executing' \in Seq(Methods)
      BY <1>1, <1>2, <1>5
    <3> QED  BY <3>1, CountType, PendingType DEF Left
  <2>2. CASE x \in unqueued
    BY <1>1, <2>1, <2>2 DEF Pending
  <2>3. CASE x \notin unqueued
    BY <1>1, <1>6, <2>1, <2>3 DEF Pending
  <2> QED  BY <2>2, <2>3
<1> QED  BY <1>4, <1>7 DEF NestInv, StackOK, InRound

LEMMA ReturnPending ==
  ASSUME TypeOK, NestInv, Return
  PROVE  /\ NestInv' /\ stack' \in Seq(Activations)
         /\ \A m \in Methods : Pending(m)' = Pending(m)
<1>1. stack # <<>> /\ Top.at = "running" /\ UNCHANGED <<methods, executing, unqueued>>
  BY DEF Return, At, queue
<1>2. /\ StackOK /\ Current = Len(stack) /\ Current # 0 /\ executing \in Seq(Methods)
      /\ Top.pos \in Nat
  <2>1. Len(stack) \in 1..Len(stack) /\ Len(stack) # 0
    BY <1>1 DEF TypeOK
  <2>2. Top \in Activations
    BY <2>1 DEF TypeOK, Top
  <2>3. Top.pos \in Nat
    BY <2>2 DEF Activations
  <2> QED  BY <1>1, <2>1, <2>3, PendingType DEF Current, At, TypeOK
<1>3. NextPos = Top.pos + 1
  BY <1>1, <1>2 DEF NextPos, Top
<1>4. CASE executing = <<>>
  <2>1. Goto("finish", Top.pos)
    BY <1>4 DEF Return
  <2>2. /\ StackOK' /\ (\A q : At(q)' <=> q = "finish") /\ Top'.at = "finish"
        /\ Current' # 0 /\ stack'[Current'] = Top'
    BY <1>1, <1>2, <2>1, Moved DEF Places
  <2>3. NextPos' = 1
    BY <1>1, <1>4, <2>2 DEF NextPos
  <2>4. \A m \in Methods : Left(m) = 0 /\ Left(m)' = 0
    <3>1. Top.pos + 1 \in Nat /\ Top.pos + 1 > Len(executing) /\ 1 > Len(executing)
      BY <1>2, <1>4
    <3> QED  BY <1>1, <1>2, <1>3, <2>3, <3>1, CountEnd DEF Left
  <2>5. \A m \in Methods : Pending(m)' = Pending(m)
    BY <1>1, <2>4 DEF Pending
  <2> QED  BY <2>2, <2>5 DEF NestInv, StackOK, InRound
<1>5. CASE executing # <<>>
  <2>1. /\ NestInv' /\ stack' \in Seq(Activations)
        /\ NextPos' = IF Top.pos < Len(executing) THEN Top.pos + 1 ELSE Len(executing) + 1
    BY <1>1, <1>5, AdvanceNext DEF Return
  <2>2. CASE Top.pos < Len(executing)
    BY <1>1, <1>3, <2>1, <2>2, SamePending
  <2>3. CASE ~(Top.pos < Len(executing))
    <3>1. Len(executing) + 1 \in Nat /\ Len(executing) + 1 > Len(executing)
          /\ Top.pos + 1 \in Nat /\ Top.pos + 1 > Len(executing)
      BY <1>2, <2>3
    <3>2. \A m \in Methods : Left(m) = 0 /\ Left(m)' = 0
      BY <1>1, <1>2, <1>3, <2>1, <2>3, <3>1, CountEnd DEF Left
    <3> QED  BY <1>1, <2>1, <3>2 DEF Pending
  <2> QED  BY <2>2, <2>3
<1> QED  BY <1>4, <1>5

\* Nothing is left of the round when an activation comes to its end.
LEMMA FinishPending ==
  ASSUME TypeOK, NestInv, Finish
  PROVE  /\ NestInv' /\ stack' \in Seq(Activations)
         /\ \A m \in Methods : Pending(m)' = Pending(m)
<1>1. stack # <<>> /\ Top.at = "finish" /\ executing' = <<>> /\ methods' = methods
  BY DEF Finish, At
<1>2. StackOK /\ Current = Len(stack) /\ Current # 0 /\ executing \in Seq(Methods)
  <2>1. Len(stack) # 0
    BY <1>1 DEF TypeOK
  <2> QED  BY <1>1, <2>1, PendingType DEF Current, At, TypeOK
<1>3. \A m \in Methods : Left(m) = 0
  <2>1. NextPos = Len(executing) + 1
    BY <1>1, <1>2 DEF NextPos, Top
  <2>2. Len(executing) + 1 \in Nat /\ Len(executing) + 1 > Len(executing)
    BY <1>2
  <2> QED  BY <1>2, <2>1, <2>2, CountEnd DEF Left
<1>4. /\ StackOK' /\ InRound'
      /\ Current' = 0 \/ (stack'[Current'] \in Activations /\ stack'[Current'].at = "running")
  <2>1. CASE Pop
    <3>1. /\ StackOK' /\ InRound' /\ Len(stack') = Len(stack) - 1
          /\ \A i \in 1..Len(stack') : stack'[i] = stack[i] /\ stack[i].at = "running"
          /\ Current' = Len(stack) - 1
      BY <1>1, <1>2, <2>1, Popped
    <3>2. Current' # 0 => Current' \in 1..Len(stack')
      BY <1>2, <3>1 DEF StackOK
    <3> QED  BY <3>1, <3>2 DEF StackOK
  <2>2. CASE Goto("enter", 0)
    <3>1. StackOK' /\ (\A q : At(q)' <=> q = "enter")
      BY <1>1, <1>2, <2>2, Moved DEF Places
    <3>2. Current' = Len(stack') - 1
      BY <3>1 DEF Current
    <3>3. Current' # 0 => Current' \in 1..(Len(stack') - 1)
      <4>1. stack' # <<>> /\ stack' \in Seq(Activations)
        BY <1>1, <1>2, <2>2, Moved DEF Places, StackOK
      <4>2. Len(stack') \in Nat /\ Len(stack') # 0
        BY <4>1
      <4>3. ASSUME NEW n \in Nat, n # 0, n - 1 # 0 PROVE n - 1 \in 1..(n - 1)
        BY <4>3
      <4> QED  BY <3>2, <4>2, <4>3
    <3>4. Current' # 0 => stack'[Current'] \in Activations /\ stack'[Current'].at = "running"
      BY <3>1, <3>3 DEF StackOK, Nested
    <3> QED  BY <3>1, <3>4 DEF InRound
  <2> QED  BY <2>1, <2>2 DEF Finish
<1>5. NextPos' \in Nat /\ NextPos' > 0
  <2>1. Len(executing') = 0
    BY <1>1
  <2>2. CASE Current' = 0
    BY <2>1, <2>2 DEF NextPos
  <2>3. CASE Current' # 0
    <3>1. stack'[Current'].pos \in Nat
      BY <1>4, <2>3 DEF Activations
    <3> QED  BY <1>4, <2>3, <3>1 DEF NextPos
  <2> QED  BY <2>2, <2>3
<1>6. \A m \in Methods : Left(m)' = 0
  <2>1. <<>> \in Seq(Methods) /\ NextPos' > Len(<<>>)
    BY <1>5
  <2> QED  BY <1>1, <1>5, <2>1, CountEnd DEF Left
<1> QED  BY <1>1, <1>3, <1>4, <1>6 DEF Pending, NestInv, StackOK

\* An activation that finds the calls disabled leaves everything as it was.
LEMMA DisabledPending ==
  ASSUME TypeOK, NestInv, SwapDisabled
  PROVE  /\ NestInv' /\ stack' \in Seq(Activations)
         /\ \A m \in Methods : Pending(m)' = Pending(m)
<1>1. At("enter") /\ stack # <<>> /\ Pop /\ UNCHANGED <<methods, executing, unqueued>>
  BY DEF SwapDisabled, At, queue
<1>2. StackOK /\ Current = Len(stack) - 1 /\ Len(stack) \in Nat
  BY <1>1, PendingType DEF Current, TypeOK
<1>3. /\ StackOK' /\ InRound' /\ Len(stack') = Len(stack) - 1
      /\ \A i \in 1..Len(stack') : stack'[i] = stack[i]
      /\ Current' = Len(stack) - 1
  BY <1>1, <1>2, Popped
<1>4. NextPos' = NextPos
  <2>1. CASE Current = 0
    BY <1>1, <1>2, <1>3, <2>1 DEF NextPos
  <2>2. CASE Current # 0
    <3>1. Current \in 1..Len(stack')
      BY <1>2, <1>3, <2>2 DEF StackOK
    <3>2. stack'[Current] = stack[Current] /\ Current' = Current
      BY <1>2, <1>3, <3>1
    <3> QED  BY <1>1, <2>2, <3>2 DEF NextPos
  <2> QED  BY <2>1, <2>2
<1> QED  BY <1>1, <1>3, <1>4, SamePending DEF NestInv, StackOK

LEMMA ThrowPending ==
  ASSUME TypeOK, NestInv, Throw
  PROVE  /\ NestInv' /\ stack' \in Seq(Activations)
         /\ \A m \in Methods : Pending(m)' = Occurrences(methods, m)
<1>1. stack' = <<>> /\ UNCHANGED <<methods, executing, unqueued>>
  BY DEF Throw, queue
<1>2. NestInv' /\ stack' \in Seq(Activations)
  BY <1>1 DEF NestInv, Nested, InRound, At
<1>3. NextPos' = Len(executing) + 1
  <2>1. Current' = 0
    BY <1>1 DEF Current, At
  <2> QED  BY <1>1, <2>1 DEF NextPos
<1>4. \A m \in Methods : Left(m)' = 0
  <2>1. executing \in Seq(Methods) /\ Len(executing) + 1 \in Nat
        /\ Len(executing) + 1 > Len(executing)
    BY DEF TypeOK
  <2> QED  BY <1>1, <1>3, <2>1, CountEnd DEF Left
<1>5. \A m \in Methods : Occurrences(methods, m) \in Nat
  BY PendingType
<1> QED  BY <1>1, <1>2, <1>4, <1>5 DEF Pending

\* A new activation, by execute () or out of an event loop.
LEMMA EnterPending ==
  ASSUME TypeOK, NestInv, stack = <<>> \/ At("running"), UNCHANGED <<methods, executing, unqueued>>,
         NEW via \in {"event", "execute"}, stack' = Append(stack, Activation(via, "enter", 0))
  PROVE  /\ NestInv' /\ stack' \in Seq(Activations) /\ At("enter")'
         /\ \A m \in Methods : Pending(m)' = Pending(m)
<1>1. StackOK
  BY PendingType
<1>2. StackOK' /\ InRound' /\ At("enter")' /\ NextPos' = NextPos
  BY <1>1, Pushed
<1> QED  BY <1>2, SamePending DEF NestInv, StackOK

LEMMA StillNested ==
  ASSUME TypeOK, NestInv, UNCHANGED <<stack, executing>>,
         unqueued' = unqueued \/ ~At("valid")
  PROVE  /\ NestInv' /\ stack' \in Seq(Activations)
         /\ \A m \in Methods : Left(m)' = Left(m)
<1>1. \A q : At(q)' <=> At(q)
  BY DEF At, Top
<1>2. NestInv'
  BY <1>1 DEF NestInv, Nested, InRound, Top
<1>3. NextPos' = NextPos
  BY <1>1 DEF NextPos, Current
<1> QED  BY <1>2, <1>3 DEF Left, TypeOK

-----------------------------------------------------------------------------
(* The counts and the flags                                                *)

\* Steps that change no count.
LEMMA CountsKept ==
  ASSUME CountInv, UNCHANGED <<flag, asked, spoiled>>,
         \A m \in Methods : Pending(m)' = Pending(m)
  PROVE  CountInv'
<1>1. Compressed \subseteq Methods
  BY MethodsAssumption
<1> QED
  BY <1>1 DEF CountInv, FlagInv, PendingOnce, NoUnaskedCall, CallsKept

\* The round of the innermost activation is lost.
LEMMA CountsLost ==
  ASSUME TypeOK, NestInv, CountInv, UNCHANGED <<flag, asked>>, spoiled' = spoiled \cup Lost,
         \A m \in Methods : Pending(m)' = Occurrences(methods, m)
  PROVE  CountInv'
<1>1. \A m \in Methods : /\ Left(m) \in Nat /\ Occurrences(methods, m) \in Nat
                         /\ asked[m] \in Nat
  BY PendingType DEF TypeOK
<1>2. \A m \in Methods : Pending(m)' <= Pending(m) /\ Pending(m)' \in Nat /\ Pending(m) \in Nat
  BY <1>1 DEF Pending
<1>3. \A m \in Methods \ spoiled' : m \notin spoiled /\ Pending(m)' = Pending(m)
  BY <1>1 DEF Lost, Pending
<1>4. Compressed \subseteq Methods
  BY MethodsAssumption
<1>5. FlagInv'
  BY <1>2, <1>3, <1>4 DEF CountInv, FlagInv
<1>6. PendingOnce'
  BY <1>2, <1>4 DEF CountInv, PendingOnce
<1>7. NoUnaskedCall'
  BY <1>1, <1>2 DEF CountInv, NoUnaskedCall
<1>8. CallsKept'
  BY <1>3 DEF CountInv, CallsKept
<1> QED  BY <1>5, <1>6, <1>7, <1>8 DEF CountInv

LEMMA ScheduleStep ==
  ASSUME TypeOK, NestInv, CountInv, NEW m \in Methods, Schedule(m)
  PROVE  TypeOK' /\ NestInv' /\ CountInv'
<1>1. /\ UNCHANGED <<executing, unqueued, disabled, timer, stack, spoiled>>
      /\ asked' = [asked EXCEPT ![m] = IF m \in Compressed THEN 1 ELSE @ + 1]
      /\ NestInv' /\ \A x \in Methods : Left(x)' = Left(x)
  BY StillNested DEF Schedule
<1>2. \A x \in Methods : /\ Left(x) \in Nat /\ Occurrences(methods, x) \in Nat
                         /\ Pending(x) \in Nat /\ asked[x] \in Nat
  BY PendingType DEF TypeOK
<1>3. Compressed \subseteq Methods
  BY MethodsAssumption
<1>4. CASE Queues(m) /\ methods' = Append(methods, m) /\ scheduled' = TRUE
           /\ events' = (IF scheduled THEN events ELSE events + 1) /\ flag' = [flag EXCEPT ![m] = TRUE]
  <2>1. TypeOK'
    <3>1. methods' \in Seq(Methods) /\ asked' \in [Methods -> Nat]
      BY <1>1, <1>4 DEF TypeOK
    <3>2. events' \in Nat
      BY <1>4 DEF TypeOK
    <3>3. flag' \in [Methods -> BOOLEAN] /\ scheduled' \in BOOLEAN
      BY <1>4 DEF TypeOK
    <3> QED  BY <1>1, <3>1, <3>2, <3>3 DEF TypeOK
  <2>2. \A x \in Methods : Pending(x)' = Pending(x) + (IF m = x THEN 1 ELSE 0)
    <3>1. \A x \in Methods : Occurrences(methods', x)
                               = Occurrences(methods, x) + (IF m = x THEN 1 ELSE 0)
      BY <1>4, CountAppend DEF TypeOK
    <3>2. ASSUME NEW x \in Methods PROVE Pending(x)' = Pending(x) + (IF m = x THEN 1 ELSE 0)
      <4>1. Pending(x)' = Occurrences(methods', x) + (IF x \in unqueued THEN 0 ELSE Left(x))
        BY <1>1 DEF Pending
      <4> QED  BY <1>2, <3>1, <4>1 DEF Pending
    <3> QED  BY <3>2
  <2>3. m \in Compressed => Pending(m) = 0
    BY <1>2, <1>4, <1>3 DEF Queues, CountInv, FlagInv
  <2>4. \A x \in Methods : flag'[x] = (IF x = m THEN TRUE ELSE flag[x])
    BY <1>4 DEF TypeOK
  <2>5. \A x \in Methods : asked'[x] = IF x # m THEN asked[x]
                              ELSE IF m \in Compressed THEN 1 ELSE asked[m] + 1
    BY <1>1 DEF TypeOK
  <2>6. FlagInv'
    <3>1. \A x \in Methods : Pending(x)' > 0 /\ x # m => Pending(x) > 0
      BY <1>2, <2>2
    <3>2. \A x \in Methods : Pending(x) > 0 \/ x = m => Pending(x)' > 0
      BY <1>2, <2>2
    <3> QED  BY <1>1, <1>3, <2>4, <3>1, <3>2, Zenon DEF CountInv, FlagInv
  <2>7. PendingOnce'
    BY <1>2, <1>3, <2>2, <2>3 DEF CountInv, PendingOnce
  <2>8. NoUnaskedCall'
    BY <1>2, <2>2, <2>3, <2>5 DEF CountInv, NoUnaskedCall
  <2>9. CallsKept'
    BY <1>1, <1>2, <2>2, <2>3, <2>5 DEF CountInv, CallsKept
  <2> QED  BY <1>1, <2>1, <2>6, <2>7, <2>8, <2>9 DEF CountInv
<1>5. CASE ~Queues(m) /\ UNCHANGED <<methods, scheduled, events, flag>>
  <2>1. TypeOK'
    BY <1>1, <1>5 DEF TypeOK
  <2>2. \A x \in Methods : Pending(x)' = Pending(x)
    BY <1>1, <1>5 DEF Pending
  <2>3. m \in Compressed /\ flag[m]
    BY <1>5 DEF Queues
  <2>4. m \notin spoiled => Pending(m) = 1
    <3>1. m \notin spoiled => Pending(m) > 0
      BY <2>3 DEF CountInv, FlagInv
    <3> QED  BY <1>2, <2>3, <3>1 DEF CountInv, PendingOnce
  <2>5. \A x \in Methods : asked'[x] = IF x # m THEN asked[x] ELSE 1
    BY <1>1, <2>3 DEF TypeOK
  <2>6. FlagInv' /\ PendingOnce'
    BY <1>1, <1>3, <1>5, <2>2 DEF CountInv, FlagInv, PendingOnce
  <2>7. NoUnaskedCall'
    BY <1>2, <1>3, <2>2, <2>3, <2>5 DEF CountInv, NoUnaskedCall, PendingOnce
  <2>8. CallsKept'
    BY <1>1, <1>2, <2>2, <2>4, <2>5 DEF CountInv, CallsKept
  <2> QED  BY <1>1, <2>1, <2>6, <2>7, <2>8 DEF CountInv
<1> QED  BY <1>4, <1>5 DEF Schedule

LEMMA UnqueueStep ==
  ASSUME TypeOK, NestInv, CountInv, NEW m \in Methods, Unqueue(m)
  PROVE  TypeOK' /\ NestInv' /\ CountInv'
<1>1. /\ UNCHANGED <<executing, scheduled, disabled, events, timer, stack>>
      /\ methods' = Erase(m) /\ asked' = [asked EXCEPT ![m] = 0]
      /\ unqueued' = (IF Occurrences(executing, m) > 0 THEN unqueued \cup {m} ELSE unqueued)
      /\ flag' = [flag EXCEPT ![m] = IF Occurrences(methods, m) > 0 THEN FALSE ELSE @]
      /\ spoiled' = (IF Left(m) > 0 /\ m \in Compressed THEN spoiled \cup {m} ELSE spoiled)
      /\ ~At("valid")
  BY DEF Unqueue, UserCode, At, loop
<1>2. NestInv' /\ \A x \in Methods : Left(x)' = Left(x)
  BY <1>1, StillNested
<1>3. \A x \in Methods : /\ Left(x) \in Nat /\ Occurrences(methods, x) \in Nat
                         /\ Pending(x) \in Nat /\ asked[x] \in Nat
  BY PendingType DEF TypeOK
<1>4. Compressed \subseteq Methods
  BY MethodsAssumption
<1>5. methods' \in Seq(Methods)
      /\ \A x \in Methods : Occurrences(methods', x) = IF x = m THEN 0 ELSE Occurrences(methods, x)
  BY <1>1, EraseCounts DEF TypeOK, Erase
<1>6. TypeOK'
  <2>1. asked' \in [Methods -> Nat] /\ unqueued' \subseteq Methods /\ spoiled' \subseteq Methods
    BY <1>1 DEF TypeOK
  <2>2. flag' \in [Methods -> BOOLEAN]
    BY <1>1 DEF TypeOK
  <2> QED  BY <1>1, <1>5, <2>1, <2>2 DEF TypeOK
<1>7. m \in unqueued' \/ Left(m) = 0
  <2>1. Left(m) <= Occurrences(executing, m)
    BY PendingType, CountPart DEF Left, TypeOK
  <2>2. Occurrences(executing, m) \in Nat
    BY CountType DEF TypeOK, Occurrences
  <2> QED  BY <1>1, <1>3, <2>1, <2>2
<1>8. Pending(m)' = 0
  BY <1>2, <1>5, <1>7 DEF Pending
<1>9. \A x \in Methods \ {m} : Pending(x)' = Pending(x)
  <2>1. \A x \in Methods \ {m} : x \in unqueued' <=> x \in unqueued
    BY <1>1
  <2> QED  BY <1>2, <1>5, <2>1 DEF Pending
<1>10. \A x \in Methods : asked'[x] = IF x = m THEN 0 ELSE asked[x]
  BY <1>1 DEF TypeOK
<1>11. \A x \in Methods \ {m} : flag'[x] = flag[x]
  BY <1>1 DEF TypeOK
<1>12. m \in Compressed \ spoiled' => ~flag'[m]
  <2>1. CASE Occurrences(methods, m) > 0
    BY <1>1, <2>1 DEF TypeOK
  <2>2. CASE ~(Occurrences(methods, m) > 0)
    <3> SUFFICES ASSUME m \in Compressed, m \notin spoiled' PROVE ~flag'[m]
      OBVIOUS
    <3>1. Left(m) = 0 /\ m \notin spoiled
      BY <1>1, <1>3
    <3>2. Pending(m) = 0
      BY <1>3, <2>2, <3>1 DEF Pending
    <3>3. ~flag[m]
      BY <3>1, <3>2 DEF CountInv, FlagInv
    <3>4. flag'[m] = flag[m]
      BY <1>1, <2>2 DEF TypeOK
    <3> QED  BY <3>3, <3>4
  <2> QED  BY <2>1, <2>2
<1>13. \A x \in Methods : x \notin spoiled' => x \notin spoiled
  BY <1>1
<1>14. FlagInv'
  <2>1. ~(Pending(m)' > 0)
    BY <1>8
  <2>2. \A x \in Methods \ {m} : Pending(x)' > 0 <=> Pending(x) > 0
    BY <1>9
  <2> QED  BY <1>4, <1>11, <1>12, <1>13, <2>1, <2>2, Zenon DEF CountInv, FlagInv
<1>15. PendingOnce' /\ NoUnaskedCall' /\ CallsKept'
  BY <1>3, <1>4, <1>8, <1>9, <1>10, <1>13 DEF CountInv, PendingOnce, NoUnaskedCall, CallsKept
<1> QED  BY <1>2, <1>6, <1>14, <1>15 DEF CountInv

LEMMA RunStep ==
  ASSUME TypeOK, NestInv, CountInv, NEW m \in Methods, Run(m)
  PROVE  TypeOK' /\ NestInv' /\ CountInv'
<1>1. /\ UNCHANGED <<methods, executing, unqueued, scheduled, disabled, events, timer, spoiled>>
      /\ flag' = [flag EXCEPT ![m] = FALSE] /\ asked' = [asked EXCEPT ![m] = @ - 1]
  BY DEF Run, FlagAtRun, loop
<1>2. /\ NestInv' /\ stack' \in Seq(Activations)
      /\ \A x \in Methods : Pending(x)' = Pending(x) - (IF x = m THEN 1 ELSE 0)
  BY RunPending
<1>3. \A x \in Methods : Pending(x) \in Nat /\ asked[x] \in Nat
  BY PendingType DEF TypeOK
<1>4. Compressed \subseteq Methods
  BY MethodsAssumption
<1>5. Pending(m) > 0
  <2>1. Top.pos \in 1..Len(executing) /\ executing[Top.pos] = m /\ m \notin unqueued
        /\ At("valid") /\ stack # <<>>
    BY DEF Run, NestInv, InRound, At
  <2>2. NextPos = Top.pos
    <3>1. Current = Len(stack) /\ Current # 0
      BY <2>1 DEF Current, At, TypeOK
    <3> QED  BY <2>1, <3>1 DEF NextPos, At, Top
  <2>3. executing \in Seq(Methods) /\ Top.pos + 1 \in Nat
    BY <2>1 DEF TypeOK
  <2>4. Left(m) = CountFrom(executing, Top.pos + 1, m) + 1
    BY <2>1, <2>2, <2>3, CountNext DEF Left
  <2>5. CountFrom(executing, Top.pos + 1, m) \in Nat /\ Occurrences(methods, m) \in Nat
    BY <2>3, CountType, PendingType
  <2> QED  BY <2>1, <2>4, <2>5 DEF Pending
<1>6. asked[m] > 0
  BY <1>3, <1>5 DEF CountInv, NoUnaskedCall
<1>7. \A x \in Methods : asked'[x] = asked[x] - (IF x = m THEN 1 ELSE 0)
  BY <1>1, <1>3 DEF TypeOK
<1>8. TypeOK'
  <2>1. asked' \in [Methods -> Nat]
    BY <1>1, <1>3, <1>6 DEF TypeOK
  <2>2. flag' \in [Methods -> BOOLEAN]
    BY <1>1 DEF TypeOK
  <2> QED  BY <1>1, <1>2, <2>1, <2>2 DEF TypeOK
<1>9. m \in Compressed => Pending(m)' = 0
  BY <1>2, <1>3, <1>5 DEF CountInv, PendingOnce
<1>10. \A x \in Methods : flag'[x] <=> x # m /\ flag[x]
  BY <1>1 DEF TypeOK
<1>11. FlagInv'
  <2>1. m \in Compressed => ~(Pending(m)' > 0)
    BY <1>9
  <2>2. \A x \in Methods \ {m} : Pending(x)' > 0 <=> Pending(x) > 0
    BY <1>2, <1>3
  <2> QED  BY <1>1, <1>4, <1>10, <2>1, <2>2, Zenon DEF CountInv, FlagInv
<1>12. PendingOnce' /\ NoUnaskedCall' /\ CallsKept'
  BY <1>1, <1>2, <1>3, <1>4, <1>7 DEF CountInv, PendingOnce, NoUnaskedCall, CallsKept
<1> QED  BY <1>2, <1>8, <1>11, <1>12 DEF CountInv

\* The steps that move the stack and touch neither flags nor what was asked.
LEMMA StackStep ==
  ASSUME TypeOK, NestInv, CountInv,
         Swap \/ SwapDisabled \/ CheckValid \/ Return \/ Throw \/ Finish
  PROVE  TypeOK' /\ NestInv' /\ CountInv'
<1>1. /\ NestInv' /\ stack' \in Seq(Activations)
      /\ \/ Swap \/ Throw
         \/ UNCHANGED spoiled /\ \A m \in Methods : Pending(m)' = Pending(m)
  BY SwapPending, DisabledPending, CheckPending, ReturnPending, ThrowPending, FinishPending
  DEF SwapDisabled, CheckValid, Return, Finish, history
<1>2. /\ UNCHANGED <<flag, disabled, events, timer, asked>>
      /\ methods' \in Seq(Methods) /\ executing' \in Seq(Methods) /\ unqueued' \subseteq Methods
  <2>1. <<>> \in Seq(Methods) /\ methods \in Seq(Methods) /\ executing \in Seq(Methods)
        /\ unqueued \subseteq Methods
    BY DEF TypeOK
  <2> QED  BY <2>1 DEF Swap, SwapDisabled, CheckValid, Return, Throw, Finish, queue, loop, history
<1>3. scheduled' = scheduled \/ scheduled' = FALSE
  BY DEF Swap, SwapDisabled, CheckValid, Return, Throw, Finish, queue
<1>4. CASE Swap \/ Throw
  <2>1. spoiled' = spoiled \cup Lost
    BY <1>4 DEF Swap, Throw
  <2>2. \A m \in Methods : Pending(m)' = Occurrences(methods, m)
    BY <1>4, SwapPending, ThrowPending
  <2>3. CountInv'
    BY <1>2, <2>1, <2>2, CountsLost
  <2>4. spoiled' \subseteq Methods
    BY <2>1 DEF TypeOK, Lost
  <2>5. scheduled' \in BOOLEAN
    BY <1>3 DEF TypeOK
  <2> QED  BY <1>1, <1>2, <2>3, <2>4, <2>5 DEF TypeOK
<1>5. CASE ~(Swap \/ Throw)
  <2>1. UNCHANGED spoiled /\ \A m \in Methods : Pending(m)' = Pending(m)
    BY <1>1, <1>5
  <2>2. CountInv'
    BY <1>2, <2>1, CountsKept
  <2>3. scheduled' \in BOOLEAN
    BY <1>3 DEF TypeOK
  <2> QED  BY <1>1, <1>2, <2>1, <2>2, <2>3 DEF TypeOK
<1> QED  BY <1>4, <1>5

\* Calls of user code other than schedule and cancel, and what event loops deliver.
LEMMA LoopStep ==
  ASSUME TypeOK, NestInv, CountInv,
         Disable \/ Enable \/ Execute \/ Deliver \/ DeliverNested
  PROVE  TypeOK' /\ NestInv' /\ CountInv'
<1>1. /\ UNCHANGED <<methods, executing, unqueued, scheduled, flag, asked, spoiled>>
      /\ stack = <<>> \/ At("running")
  BY DEF Disable, Enable, Execute, Deliver, DeliverNested, DeliverEvent, TimeOut, UserCode,
    queue, history
<1>2. \/ UNCHANGED stack
      \/ \E via \in {"event", "execute"} : stack' = Append(stack, Activation(via, "enter", 0))
  BY DEF Disable, Enable, Execute, Deliver, DeliverNested, DeliverEvent, TimeOut, OnTimer
<1>3. /\ NestInv' /\ stack' \in Seq(Activations)
      /\ \A m \in Methods : Pending(m)' = Pending(m)
  <2>1. CASE UNCHANGED stack
    BY <1>1, <2>1, StillNested DEF Pending
  <2>2. CASE \E via \in {"event", "execute"} : stack' = Append(stack, Activation(via, "enter", 0))
    BY <1>1, <2>2, EnterPending
  <2> QED  BY <1>2, <2>1, <2>2
<1>4. CountInv'
  BY <1>1, <1>3, CountsKept
<1>5. disabled' \in Nat /\ events' \in Nat
  <2>1. \/ disabled' = disabled \/ disabled' = disabled + 1
        \/ disabled > 0 /\ disabled' = disabled - 1
    BY DEF Disable, Enable, Execute, Deliver, DeliverNested, DeliverEvent, TimeOut
  <2>2. events' = events \/ (events > 0 /\ events' = events - 1)
    BY DEF Disable, Enable, Execute, Deliver, DeliverNested, DeliverEvent, TimeOut, loop
  <2> QED  BY <2>1, <2>2 DEF TypeOK
<1>6. timer' \in BOOLEAN
  <2>1. timer' = timer \/ timer' = TRUE \/ timer' = FALSE
    BY DEF Disable, Enable, Execute, Deliver, DeliverNested, DeliverEvent, TimeOut, OnTimer,
      RestartTimer, loop
  <2> QED  BY <2>1 DEF TypeOK
<1> QED  BY <1>1, <1>3, <1>4, <1>5, <1>6 DEF TypeOK

LEMMA DeferredStep == DeferredInv /\ [Next]_vars => DeferredInv'
<1> SUFFICES ASSUME TypeOK, NestInv, CountInv, [Next]_vars
             PROVE  TypeOK' /\ NestInv' /\ CountInv'
  BY DEF DeferredInv
<1>1. CASE UNCHANGED vars
  <2>1. UNCHANGED <<methods, executing, unqueued, scheduled, flag, disabled, events, timer,
                    stack, asked, spoiled>>
    BY <1>1 DEF vars, queue, loop, history
  <2>2. NestInv' /\ \A m \in Methods : Pending(m)' = Pending(m)
    BY <2>1, StillNested DEF Pending
  <2> QED  BY <2>1, <2>2, CountsKept DEF TypeOK
<1>2. ASSUME NEW m \in Methods, Schedule(m) \/ Unqueue(m) \/ Run(m)
      PROVE  TypeOK' /\ NestInv' /\ CountInv'
  BY <1>2, ScheduleStep, UnqueueStep, RunStep
<1> QED
  BY <1>1, <1>2, StackStep, LoopStep DEF Next, Execution

LEMMA DeferredInit == Init => DeferredInv
<1> SUFFICES ASSUME Init PROVE DeferredInv
  OBVIOUS
<1>1. TypeOK /\ NestInv
  <2>1. TypeOK
    <3>1. /\ methods \in Seq(Methods) /\ executing \in Seq(Methods) /\ stack \in Seq(Activations)
          /\ disabled \in Nat /\ events \in Nat
      BY DEF Init
    <3>2. flag \in [Methods -> BOOLEAN] /\ scheduled \in BOOLEAN /\ timer \in BOOLEAN
      BY DEF Init
    <3>3. asked \in [Methods -> Nat] /\ spoiled \subseteq Methods /\ unqueued \subseteq Methods
      BY DEF Init
    <3> QED  BY <3>1, <3>2, <3>3 DEF TypeOK
  <2>2. ~At("check") /\ ~At("valid")
    BY DEF Init, At
  <2>3. Nested
    BY DEF Init, Nested
  <2> QED  BY <2>1, <2>2, <2>3 DEF NestInv, InRound
<1>2. \A m \in Methods : Pending(m) = 0
  <2>1. NextPos = 1
    BY DEF Init, NextPos, Current, At
  <2>2. <<>> \in Seq(Methods) /\ 1 > Len(<<>>)
    OBVIOUS
  <2>3. \A m \in Methods : CountFrom(<<>>, 1, m) = 0
    BY <2>2, CountEnd
  <2> QED  BY <2>1, <2>3 DEF Init, Pending, Left, Occurrences
<1>3. Compressed \subseteq Methods
  BY MethodsAssumption
<1>4. CountInv
  BY <1>2, <1>3 DEF Init, CountInv, FlagInv, PendingOnce, NoUnaskedCall, CallsKept
<1> QED  BY <1>1, <1>4 DEF DeferredInv

LEMMA DeferredInvariant == Spec => []DeferredInv
BY DeferredInit, DeferredStep, PTL DEF Spec

-----------------------------------------------------------------------------
(* The theorems                                                            *)

(* The range of every variable, for any set of methods: a round never      *)
(* makes more calls of a method than are owed (asked is a natural number). *)
THEOREM TypeCorrect == Spec => []TypeOK
<1>1. DeferredInv => TypeOK
  BY DEF DeferredInv
<1> QED  BY <1>1, DeferredInvariant, PTL

(* Compression works (m_scheduled, DeferredMethodScheduler::schedule): a   *)
(* compressed method has one call pending at most, however rounds nest,    *)
(* throw and are disabled.                                                 *)
THEOREM CompressionWorks == Spec => []PendingOnce
<1>1. DeferredInv => PendingOnce
  BY DEF DeferredInv, CountInv
<1> QED  BY <1>1, DeferredInvariant, PTL

(* No call without a request, and none after cancel () or the destructor   *)
(* of the method (unqueue), whatever round the method waits in.            *)
THEOREM CallsAreAsked == Spec => []NoUnaskedCall
<1>1. DeferredInv => NoUnaskedCall
  BY DEF DeferredInv, CountInv
<1> QED  BY <1>1, DeferredInvariant, PTL

(* No request is lost in schedule and do_execute, except for the methods   *)
(* of a round that was cut: with another thread scheduling between the     *)
(* check of a method and its call, for instance.                           *)
THEOREM CallsAreKept == Spec => []CallsKept
<1>1. DeferredInv => CallsKept
  BY DEF DeferredInv, CountInv
<1> QED  BY <1>1, DeferredInvariant, PTL

-----------------------------------------------------------------------------
(* The event behind a queue                                                *)

LEMMA UnqueueEvent ==
  ASSUME TypeOK, NEW m \in Methods, Unqueue(m), methods' # <<>>
  PROVE  methods # <<>>
<1> SUFFICES ASSUME Len(methods) = 0 PROVE Without(methods, m)[0] = <<>>
  BY DEF Unqueue, Erase
<1> DEFINE W == Without(methods, m)
           Body(n) == IF n = 0 THEN <<>>
                      ELSE IF methods[n] = m THEN W[n - 1] ELSE Append(W[n - 1], methods[n])
<1>1. W = [n \in 0..Len(methods) |-> Body(n)]
  BY WithoutDef DEF TypeOK
<1>2. Body(0) = <<>> /\ 0 \in 0..Len(methods)
  OBVIOUS
<1> HIDE DEF W, Body
<1>3. W[0] = Body(0)
  BY <1>1, <1>2
<1> QED  BY <1>2, <1>3 DEF W

\* What the event loop delivers starts the timer or a do_execute.
LEMMA DeliveredEvent ==
  ASSUME TypeOK, NestInv, Deliver \/ DeliverNested
  PROVE  timer' \/ (At("enter")' /\ disabled' = 0)
<1>1. /\ UNCHANGED <<methods, executing, unqueued, disabled>>
      /\ stack = <<>> \/ At("running")
      /\ OnTimer(timer) \/ OnTimer(FALSE)
  BY DEF Deliver, DeliverNested, DeliverEvent, TimeOut, queue
<1>2. CASE disabled > 0 /\ timer' = TRUE
  BY <1>2
<1>3. CASE disabled = 0 /\ stack' = Append(stack, Activation("event", "enter", 0))
  BY <1>1, <1>3, EnterPending
<1> QED  BY <1>1, <1>2, <1>3 DEF OnTimer, RestartTimer

LEMMA EventStep == DeferredInv /\ EventInv /\ [Next]_vars => EventInv'
<1> SUFFICES ASSUME TypeOK, NestInv, EventInv, [Next]_vars PROVE EventInv'
  BY DEF DeferredInv
<1> DEFINE Coming == events > 0 \/ timer \/ (At("enter") /\ disabled = 0)
<1>1. CASE UNCHANGED <<methods, scheduled, events, timer, stack, disabled>>
  BY <1>1 DEF EventInv, At, Top
<1>2. ASSUME NEW m \in Methods, Schedule(m) PROVE EventInv'
  <2>1. UNCHANGED <<disabled, timer, stack>>
    BY <1>2 DEF Schedule
  <2>2. (At("enter") /\ disabled = 0)' <=> (At("enter") /\ disabled = 0)
    BY <2>1 DEF At, Top
  <2>3. CASE scheduled' = TRUE /\ events' = (IF scheduled THEN events ELSE events + 1)
    <3>1. ~scheduled => events' > 0
      BY <2>3 DEF TypeOK
    <3>2. scheduled => events' = events
      BY <2>3
    <3> QED  BY <2>1, <2>2, <2>3, <3>1, <3>2 DEF EventInv
  <2>4. CASE UNCHANGED <<methods, scheduled, events>>
    BY <1>1, <2>1, <2>4
  <2> QED  BY <1>2, <2>3, <2>4 DEF Schedule
<1>3. ASSUME NEW m \in Methods, Unqueue(m) PROVE EventInv'
  <2>1. UNCHANGED <<scheduled, events, timer, stack, disabled>>
    BY <1>3 DEF Unqueue, loop
  <2>2. methods' # <<>> => methods # <<>>
    BY <1>3, UnqueueEvent
  <2>3. At("enter")' <=> At("enter")
    BY <2>1 DEF At, Top
  <2> QED  BY <2>1, <2>2, <2>3 DEF EventInv
<1>4. CASE Swap
  BY <1>4 DEF Swap, EventInv
<1>5. CASE Deliver \/ DeliverNested
  <2>1. UNCHANGED <<methods, scheduled>>
    BY <1>5 DEF Deliver, DeliverNested, DeliverEvent, TimeOut, queue
  <2> QED  BY <1>5, <2>1, DeliveredEvent DEF EventInv
<1>6. ASSUME \/ SwapDisabled \/ CheckValid \/ Return \/ Throw \/ Finish
             \/ Disable \/ Enable \/ Execute \/ \E m \in Methods : Run(m)
      PROVE  EventInv'
  <2>1. UNCHANGED <<methods, scheduled, events, timer>>
    BY <1>6 DEF SwapDisabled, CheckValid, Return, Throw, Finish, Disable, Enable, Execute, Run,
      queue, loop
  <2>2. ~(At("enter") /\ disabled = 0)
    BY <1>6 DEF SwapDisabled, CheckValid, Return, Throw, Finish, Disable, Enable, Execute, Run,
      UserCode, At, TypeOK
  <2> QED  BY <2>1, <2>2 DEF EventInv
<1> QED
  BY <1>1, <1>2, <1>3, <1>4, <1>5, <1>6 DEF Next, Execution, vars, queue, loop

(* While calls are queued something is under way that will execute them    *)
(* (schedule, timer): the event is never used up in vain, not even while   *)
(* deferred methods are disabled.                                          *)
THEOREM QueuedCallsCome == Spec => []EventComes
<1>1. Init => EventInv
  BY DEF Init, EventInv
<1>2. EventInv => EventComes
  BY DEF EventInv, EventComes
<1> QED  BY <1>1, <1>2, EventStep, DeferredInvariant, PTL DEF Spec
=============================================================================
