----------------------- MODULE CoreStreamerRoundProofs ----------------------
(***************************************************************************)
(* Theorems about a layout that CoreStreamer saves and loads, for any      *)
(* layouts to start with: what comes back of it (RoundTripHolds,           *)
(* NothingMovedHolds, SecondRoundHolds), and that properties stop changing *)
(* after the second round (PropertiesSettleHolds).                         *)
(***************************************************************************)
EXTENDS CoreStreamerProofs

-----------------------------------------------------------------------------
(* How often something is in lists that are joined                         *)

\* What is counted once in every list is counted once in all of them.
LEMMA FlatCounted ==
  ASSUME NEW ss, IsListOfLists(ss), NEW X, NEW D,
         \A i \in 1..Len(ss) : IsFiniteSet(D[i]) /\ Count(ss[i], X) = Cardinality(D[i]),
         \A i \in 1..Len(ss), j \in 1..Len(ss) : i # j => D[i] \cap D[j] = {},
         NEW W, \A x : x \in W <=> \E i \in 1..Len(ss) : x \in D[i]
  PROVE  Count(FlattenSeq(ss), X) = Cardinality(W)
<1>0. W = UNION {D[i] : i \in 1..Len(ss)}
  OBVIOUS
<1>1. PICK len \in Nat : len = Len(ss)
  BY ListIs DEF IsListOfLists
<1> DEFINE V(n) == UNION {D[i] : i \in 1..n}
           T == {n \in Nat : n + 1 <= len =>
                   IsFiniteSet(V(n + 1)) /\ Count(Flat(ss)[n + 1], X) = Cardinality(V(n + 1))}
<1>2. 0 \in T
  <2> SUFFICES ASSUME 0 + 1 <= len PROVE IsFiniteSet(V(0 + 1)) /\ Count(Flat(ss)[0 + 1], X) = Cardinality(V(0 + 1))
    OBVIOUS
  <2>1. 0 + 1 = 1 /\ 1 \in 1..len /\ len > 0 /\ 1..1 = {1}
    BY <1>1
  <2>2. Flat(ss)[1] = ss[1]
    BY <1>1, <2>1, FlatDef
  <2>3. V(1) = D[1]
    BY <2>1
  <2> HIDE DEF V
  <2> QED  BY <1>1, <2>1, <2>2, <2>3
<1>3. ASSUME NEW n \in Nat, n \in T PROVE n + 1 \in T
  <2> SUFFICES ASSUME (n + 1) + 1 <= len
               PROVE  IsFiniteSet(V((n + 1) + 1)) /\ Count(Flat(ss)[(n + 1) + 1], X) = Cardinality(V((n + 1) + 1))
    OBVIOUS
  <2>1. PICK b, k : b = n + 1 /\ k = b + 1
    OBVIOUS
  <2>2. k \in 2..len /\ k \in 1..len /\ k - 1 = b /\ b <= len /\ b \in 1..len
    BY <1>1, <2>1
  <2>3. Flat(ss)[k] = Flat(ss)[b] \o ss[k]
    BY <1>1, <2>2, FlatDef
  <2>4. IsFiniteSet(V(b)) /\ Count(Flat(ss)[b], X) = Cardinality(V(b))
    BY <1>3, <2>1, <2>2
  <2>5. IsList(Flat(ss)[b]) /\ IsList(ss[k])
    BY <1>1, <2>2, FlatIsList DEF IsListOfLists
  <2>6. Count(Flat(ss)[k], X) = Count(Flat(ss)[b], X) + Count(ss[k], X)
    <3>1. PICK f, g, h : f = Flat(ss)[b] /\ g = ss[k] /\ h = Flat(ss)[k]
      OBVIOUS
    <3>2. h = f \o g /\ IsList(f) /\ IsList(g)
      BY <2>3, <2>5, <3>1
    <3>3. Count(h, X) = Count(f, X) + Count(g, X)
      BY ONLY <3>2, CountJoined
    <3> QED  BY <3>1, <3>3
  <2>7. (\A i \in 1..k : i \in 1..b \/ i = k) /\ (\A i \in 1..b : i \in 1..k /\ i # k /\ i \in 1..len) /\ k \in 1..k
    BY <2>1, <2>2
  <2>8. V(k) = V(b) \cup D[k]
    <3>1. \A i \in 1..k : D[i] \subseteq V(b) \cup D[k]
      BY <2>7
    <3>2. \A i \in 1..b : D[i] \subseteq V(k)
      BY <2>7
    <3>3. D[k] \subseteq V(k)
      BY <2>7
    <3>4. V(k) \subseteq V(b) \cup D[k]
      BY <3>1
    <3>5. V(b) \subseteq V(k)
      BY <3>2
    <3> QED  BY <3>3, <3>4, <3>5
  <2>9. V(b) \cap D[k] = {}
    <3>1. \A i \in 1..b : D[i] \cap D[k] = {}
      BY <1>1, <2>2, <2>7
    <3> QED  BY <3>1
  <2>10. IsFiniteSet(D[k]) /\ Count(ss[k], X) = Cardinality(D[k])
    BY <1>1, <2>2
  <2> HIDE DEF V
  <2>11. IsFiniteSet(V(k)) /\ Cardinality(V(k)) = Cardinality(V(b)) + Cardinality(D[k])
    <3>1. PICK A, B : A = V(b) /\ B = D[k]
      OBVIOUS
    <3>2. IsFiniteSet(A \cup B) /\ Cardinality(A \cup B) = Cardinality(A) + Cardinality(B)
      BY <2>4, <2>9, <2>10, <3>1, DisjointCounted
    <3> QED  BY <2>8, <3>1, <3>2
  <2> QED  BY <2>1, <2>4, <2>6, <2>10, <2>11
<1>4. CASE len = 0
  <2>0. FlattenSeq(ss) = ss
    BY <1>1, <1>4, FlattenIs
  <2>1. 1..Len(ss) = {}
    BY <1>1, <1>4
  <2>2. Occurs(ss, X) = {}
    BY <2>1 DEF Occurs
  <2>3. UNION {D[i] : i \in 1..Len(ss)} = {}
    BY <2>1
  <2> QED  BY <1>0, <2>0, <2>2, <2>3, FS_EmptySet DEF Count
<1>5. CASE len # 0
  <2> HIDE DEF T
  <2>1. \A n \in Nat : n \in T
    BY <1>2, <1>3, SetInduction
  <2>2. len - 1 \in Nat /\ (len - 1) + 1 = len /\ len <= len
    BY <1>5
  <2>3. Count(Flat(ss)[len], X) = Cardinality(V(len))
    BY <2>1, <2>2 DEF T
  <2>4. FlattenSeq(ss) = Flat(ss)[len]
    BY <1>1, <1>5, FlattenIs
  <2>5. W = V(len)
    BY <1>0, <1>1
  <2> QED  BY <2>3, <2>4, <2>5
<1> QED  BY <1>4, <1>5

-----------------------------------------------------------------------------
(* Lists of lists that go together                                         *)

\* What is at a place of f and at that place of g is at one place of ss and of tt.
Together(f, g, ss, tt, n) ==
  /\ Len(g) = Len(f)
  /\ \A k \in 1..Len(f) : \E i \in 1..n : \E j \in 1..Len(ss[i]) : f[k] = ss[i][j] /\ g[k] = tt[i][j]

LEMMA FlatTogether ==
  ASSUME NEW ss, IsListOfLists(ss), NEW tt, IsListOfLists(tt), Len(tt) = Len(ss),
         \A i \in 1..Len(ss) : Len(tt[i]) = Len(ss[i])
  PROVE  Together(FlattenSeq(ss), FlattenSeq(tt), ss, tt, Len(ss))
<1>1. PICK len \in Nat : len = Len(ss) /\ Len(tt) = len
  BY ListIs DEF IsListOfLists
<1> DEFINE T == {n \in Nat : n + 1 <= len => Together(Flat(ss)[n + 1], Flat(tt)[n + 1], ss, tt, n + 1)}
<1>2. 0 \in T
  <2> SUFFICES ASSUME 0 + 1 <= len PROVE Together(Flat(ss)[0 + 1], Flat(tt)[0 + 1], ss, tt, 0 + 1)
    OBVIOUS
  <2>1. 0 + 1 = 1 /\ 1 \in 1..len /\ len > 0 /\ 1 \in 1..1
    BY <1>1
  <2>2. Flat(ss)[1] = ss[1] /\ Flat(tt)[1] = tt[1] /\ Len(tt[1]) = Len(ss[1])
    BY <1>1, <2>1, FlatDef
  <2>3. Together(ss[1], tt[1], ss, tt, 1)
    BY <2>1, <2>2 DEF Together
  <2> QED  BY <2>1, <2>2, <2>3
<1>3. ASSUME NEW n \in Nat, n \in T PROVE n + 1 \in T
  <2> SUFFICES ASSUME (n + 1) + 1 <= len PROVE Together(Flat(ss)[(n + 1) + 1], Flat(tt)[(n + 1) + 1], ss, tt, (n + 1) + 1)
    OBVIOUS
  <2>1. PICK b, c : b = n + 1 /\ c = b + 1
    OBVIOUS
  <2>2. c \in 2..len /\ c \in 1..len /\ c - 1 = b /\ b <= len /\ b \in 1..len /\ c \in 1..c /\ 1..b \subseteq 1..c
    BY <1>1, <2>1
  <2>3. PICK f, g, h, k : f = Flat(ss)[b] /\ g = Flat(tt)[b] /\ h = Flat(ss)[c] /\ k = Flat(tt)[c]
    OBVIOUS
  <2>4. h = f \o ss[c] /\ k = g \o tt[c]
    BY <1>1, <2>2, <2>3, FlatDef
  <2>5. IsList(f) /\ IsList(g) /\ IsList(ss[c]) /\ IsList(tt[c])
    BY <1>1, <2>2, <2>3, FlatIsList DEF IsListOfLists
  <2>6. Together(f, g, ss, tt, b)
    BY <1>3, <2>1, <2>2, <2>3
  <2>7. PICK p \in Nat, q \in Nat : p = Len(f) /\ q = Len(ss[c])
    BY <2>5, ListIs
  <2>8. Len(g) = p /\ Len(tt[c]) = q
    BY <1>1, <2>2, <2>6, <2>7 DEF Together
  <2>9. /\ Len(h) = p + q /\ \A i \in 1..p : h[i] = f[i]
        /\ \A j \in 1..q : h[p + j] = ss[c][j]
    BY <2>4, <2>5, <2>7, ListsJoined
  <2>10. /\ Len(k) = p + q /\ \A i \in 1..p : k[i] = g[i]
         /\ \A j \in 1..q : k[p + j] = tt[c][j]
    <3>1. PICK t : t = tt[c]
      OBVIOUS
    <3>2. k = g \o t /\ IsList(t) /\ Len(t) = q
      BY <2>4, <2>5, <2>8, <3>1
    <3>3. /\ Len(k) = p + q /\ \A i \in 1..p : k[i] = g[i]
          /\ \A j \in 1..q : k[p + j] = t[j]
      <4>0. IsList(g) /\ IsList(t)
        BY <2>5, <3>2
      <4>1. /\ Len(g \o t) = Len(g) + Len(t)
            /\ \A i \in 1..Len(g) : (g \o t)[i] = g[i]
            /\ \A j \in 1..Len(t) : (g \o t)[Len(g) + j] = t[j]
        BY ONLY <4>0, ListsJoined
      <4> QED  BY <2>8, <3>2, <4>1
    <3> QED  BY <3>1, <3>3
  <2>11. ASSUME NEW a \in 1..(p + q)
         PROVE  \E i \in 1..c : \E j \in 1..Len(ss[i]) : h[a] = ss[i][j] /\ k[a] = tt[i][j]
    <3>1. CASE a <= p
      <4>1. a \in 1..p
        BY <3>1
      <4>2. PICK i \in 1..b : \E j \in 1..Len(ss[i]) : f[a] = ss[i][j] /\ g[a] = tt[i][j]
        BY <2>6, <2>7, <4>1 DEF Together
      <4>3. i \in 1..c
        BY <2>2
      <4> QED  BY <2>9, <2>10, <4>1, <4>2, <4>3
    <3>2. CASE ~(a <= p)
      <4>1. PICK j \in 1..q : a = p + j
        <5>1. a - p \in 1..q /\ a = p + (a - p)
          BY <3>2
        <5> QED  BY <5>1
      <4> QED  BY <2>2, <2>7, <2>9, <2>10, <4>1
    <3> QED  BY <3>1, <3>2
  <2>12. Together(h, k, ss, tt, c)
    BY <2>9, <2>10, <2>11 DEF Together
  <2> QED  BY <2>1, <2>3, <2>12
<1> HIDE DEF T
<1>4. CASE len = 0
  <2>1. FlattenSeq(ss) = ss /\ FlattenSeq(tt) = tt
    BY <1>1, <1>4, FlattenIs
  <2>2. Together(ss, tt, ss, tt, Len(ss))
    <3>1. 1..Len(ss) = {} /\ Len(tt) = Len(ss)
      BY <1>1, <1>4
    <3> QED  BY <3>1 DEF Together
  <2> QED  BY <2>1, <2>2
<1>5. CASE len # 0
  <2>1. \A n \in Nat : n \in T
    BY <1>2, <1>3, SetInduction
  <2>2. len - 1 \in Nat /\ (len - 1) + 1 = len /\ len <= len
    BY <1>5
  <2>3. Together(Flat(ss)[len], Flat(tt)[len], ss, tt, len)
    BY <2>1, <2>2 DEF T
  <2>4. FlattenSeq(ss) = Flat(ss)[len] /\ FlattenSeq(tt) = Flat(tt)[len]
    BY <1>1, <1>5, FlattenIs
  <2> QED  BY <1>1, <2>3, <2>4
<1> QED  BY <1>4, <1>5

LEMMA FlatOfSingles ==
  ASSUME NEW ss, IsListOfLists(ss), \A i \in 1..Len(ss) : Len(ss[i]) = 1
  PROVE  Len(FlattenSeq(ss)) = Len(ss) /\ \A k \in 1..Len(ss) : FlattenSeq(ss)[k] = ss[k][1]
<1>1. PICK len \in Nat : len = Len(ss)
  BY ListIs DEF IsListOfLists
<1> DEFINE Singles(f, n) == Len(f) = n /\ \A k \in 1..n : f[k] = ss[k][1]
           T == {n \in Nat : n + 1 <= len => Singles(Flat(ss)[n + 1], n + 1)}
<1>2. 0 \in T
  <2> SUFFICES ASSUME 0 + 1 <= len PROVE Singles(Flat(ss)[0 + 1], 0 + 1)
    OBVIOUS
  <2>1. 0 + 1 = 1 /\ 1 \in 1..len /\ len > 0 /\ \A k \in 1..1 : k = 1
    BY <1>1
  <2>2. Flat(ss)[1] = ss[1] /\ Len(ss[1]) = 1
    BY <1>1, <2>1, FlatDef
  <2>3. Singles(ss[1], 1)
    BY <2>1, <2>2
  <2> QED  BY <2>1, <2>2, <2>3
<1>3. ASSUME NEW n \in Nat, n \in T PROVE n + 1 \in T
  <2> SUFFICES ASSUME (n + 1) + 1 <= len PROVE Singles(Flat(ss)[(n + 1) + 1], (n + 1) + 1)
    OBVIOUS
  <2>1. PICK b, c : b = n + 1 /\ c = b + 1
    OBVIOUS
  <2>2. c \in 2..len /\ c \in 1..len /\ c - 1 = b /\ b <= len /\ b \in 1..len /\ b \in Nat
    BY <1>1, <2>1
  <2>3. PICK f, h : f = Flat(ss)[b] /\ h = Flat(ss)[c]
    OBVIOUS
  <2>4. h = f \o ss[c]
    BY <1>1, <2>2, <2>3, FlatDef
  <2>5. IsList(f) /\ IsList(ss[c]) /\ Len(ss[c]) = 1
    BY <1>1, <2>2, <2>3, FlatIsList DEF IsListOfLists
  <2>6. Len(f) = b /\ \A k \in 1..b : f[k] = ss[k][1]
    BY <1>3, <2>1, <2>2, <2>3
  <2>7. Len(h) = b + 1 /\ (\A i \in 1..b : h[i] = f[i]) /\ \A j \in 1..1 : h[b + j] = ss[c][j]
    <3>1. PICK t : t = ss[c]
      OBVIOUS
    <3>2. h = f \o t /\ IsList(t) /\ Len(t) = 1
      BY <2>4, <2>5, <3>1
    <3>3. Len(h) = b + 1 /\ (\A i \in 1..b : h[i] = f[i]) /\ \A j \in 1..1 : h[b + j] = t[j]
      <4>0. IsList(f) /\ IsList(t)
        BY <2>5, <3>2
      <4>1. /\ Len(f \o t) = Len(f) + Len(t)
            /\ \A i \in 1..Len(f) : (f \o t)[i] = f[i]
            /\ \A j \in 1..Len(t) : (f \o t)[Len(f) + j] = t[j]
        BY ONLY <4>0, ListsJoined
      <4> QED  BY <2>6, <3>2, <4>1
    <3> QED  BY <3>1, <3>3
  <2>8. h[c] = ss[c][1]
    <3>1. 1 \in 1..1
      OBVIOUS
    <3> QED  BY <2>1, <2>7, <3>1
  <2>9. \A k \in 1..c : k \in 1..b \/ k = c
    BY <2>1, <2>2
  <2>10. Singles(h, c)
    BY <2>1, <2>6, <2>7, <2>8, <2>9
  <2> QED  BY <2>1, <2>3, <2>10
<1> HIDE DEF T
<1>4. CASE len = 0
  <2>1. FlattenSeq(ss) = ss
    BY <1>1, <1>4, FlattenIs
  <2>2. 1..Len(ss) = {}
    BY <1>1, <1>4
  <2> QED  BY <2>1, <2>2
<1>5. CASE len # 0
  <2>1. \A n \in Nat : n \in T
    BY <1>2, <1>3, SetInduction
  <2>2. len - 1 \in Nat /\ (len - 1) + 1 = len /\ len <= len
    BY <1>5
  <2>3. Singles(Flat(ss)[len], len)
    BY <2>1, <2>2 DEF T
  <2>4. FlattenSeq(ss) = Flat(ss)[len]
    BY <1>1, <1>5, FlattenIs
  <2> QED  BY <1>1, <2>3, <2>4
<1> QED  BY <1>4, <1>5

\* A part that leaves nothing out.
LEMMA PartWhole ==
  ASSUME NEW s, IsList(s), NEW positions, 1..Len(s) \subseteq positions
  PROVE  Len(Part(s, positions)) = Len(s) /\ \A i \in 1..Len(s) : Part(s, positions)[i] = s[i]
<1>1. PICK len \in Nat : len = Len(s)
  BY ListIs
<1> DEFINE U(n) == Upto(s, positions)[n]
           Whole(u, n) == Len(u) = n /\ \A i \in 1..n : u[i] = s[i]
           T == {n \in Nat : n <= len => Whole(U(n), n)}
<1>2. 0 \in T
  <2>1. U(0) = <<>>
    BY UptoStarts
  <2> QED  BY <2>1
<1>3. ASSUME NEW n \in Nat, n \in T PROVE n + 1 \in T
  <2> SUFFICES ASSUME n + 1 <= len PROVE Whole(U(n + 1), n + 1)
    OBVIOUS
  <2>1. PICK k : k = n + 1
    OBVIOUS
  <2>2. k \in 1..len /\ k - 1 = n /\ n \in 0..len /\ n <= len /\ \A i \in 1..k : i \in 1..n \/ i = k
    BY <2>1
  <2>3. PICK u, v : u = U(n) /\ v = U(k)
    OBVIOUS
  <2>4. Len(u) = n /\ \A i \in 1..n : u[i] = s[i]
    BY <1>3, <2>2, <2>3
  <2>5. IsList(u)
    BY <1>1, <2>2, <2>3, UptoIsList
  <2>6. v = Append(u, s[k])
    BY <1>1, <2>2, <2>3, UptoGoesOn
  <2>7. Len(v) = n + 1 /\ v[n + 1] = s[k] /\ \A i \in 1..n : v[i] = u[i]
    BY <2>4, <2>5, <2>6, ListAppended DEF Extends
  <2>8. Whole(v, k)
    BY <2>1, <2>2, <2>4, <2>7
  <2> QED  BY <2>1, <2>3, <2>8
<1> HIDE DEF T
<1>4. len \in T
  BY <1>2, <1>3, SetInduction
<1>5. Whole(U(len), len)
  BY <1>4 DEF T
<1> QED  BY <1>1, <1>5 DEF Part

-----------------------------------------------------------------------------
(* The layers and shapes that are written                                  *)

LEMMA WrittenLayersAre ==
  ASSUME NEW m, IsLayout(m), NEW w, w = WrittenLayers(m)
  PROVE  /\ IsList(w)
         /\ \A k \in 1..Len(w) : w[k] \in 1..Len(m.layers) /\ IsWritten(m.layers[w[k]])
         /\ \A l \in 1..Len(m.layers) : IsWritten(m.layers[l]) => \E k \in 1..Len(w) : w[k] = l
         /\ \A k \in 1..Len(w), j \in 1..Len(w) : w[k] = w[j] => k = j
<1>1. PICK len \in Nat : len = Len(m.layers) /\ DOMAIN m.layers = 1..len
  BY ListIs DEF IsLayout
<1>2. PICK s, W : s = LayerIndexes(m) /\ W = {l \in DOMAIN m.layers : IsWritten(m.layers[l])}
  OBVIOUS
<1>3. s = [l \in 1..len |-> l]
  BY <1>1, <1>2 DEF LayerIndexes
<1>4. IsList(s) /\ Len(s) = len
  <2>1. DOMAIN s = DOMAIN m.layers /\ s = [l \in DOMAIN s |-> s[l]]
    BY <1>1, <1>3
  <2> QED  BY <1>1, <2>1, ListOver DEF IsLayout
<1>5. w = Part(s, W)
  BY <1>2 DEF WrittenLayers
<1>6. PICK S : s \in Seq(S)
  BY <1>4 DEF IsList
<1>7. /\ w \in Seq(S)
      /\ \A k \in DOMAIN w : \E i \in DOMAIN s : i \in W /\ w[k] = s[i]
      /\ \A i \in DOMAIN s : i \in W => \E k \in DOMAIN w : w[k] = s[i]
  BY <1>5, <1>6, PartRange
<1>8. IsList(w) /\ DOMAIN w = 1..Len(w) /\ Len(w) \in Nat
  BY <1>7, LenProperties DEF IsList
<1>9. ASSUME NEW k \in 1..Len(w) PROVE w[k] \in 1..len /\ IsWritten(m.layers[w[k]])
  BY <1>1, <1>2, <1>3, <1>7, <1>8, <1>9
<1>10. ASSUME NEW l \in 1..len, IsWritten(m.layers[l]) PROVE \E k \in 1..Len(w) : w[k] = l
  BY <1>1, <1>2, <1>3, <1>7, <1>8, <1>10
<1>11. ASSUME NEW k \in 1..Len(w), NEW j \in 1..Len(w), w[k] = w[j] PROVE k = j
  <2>1. PICK l : l = w[k]
    OBVIOUS
  <2>2. l \in 1..len /\ l \in W
    BY <1>1, <1>2, <1>9, <2>1
  <2>3. {i \in 1..len : i \in W /\ s[i] \in {l}} = {l}
    BY <1>3, <2>2
  <2>4. Count(w, {l}) = 1
    <3>1. Count(Part(s, W), {l}) = Cardinality({i \in 1..Len(s) : i \in W /\ s[i] \in {l}})
      BY <1>4, PartCounted
    <3>2. Count(w, {l}) = Cardinality({l})
      BY <1>4, <1>5, <2>3, <3>1
    <3> QED  BY <3>2, FS_Singleton
  <2>5. \E x : Occurs(w, {l}) = {x}
    BY <1>8, <2>4, OccursFinite, FS_Singleton DEF Count
  <2>6. k \in Occurs(w, {l}) /\ j \in Occurs(w, {l})
    BY <1>11, <2>1 DEF Occurs
  <2> QED  BY <2>5, <2>6
<1> QED  BY <1>1, <1>8, <1>9, <1>10, <1>11

\* The shapes of a cell that are written.
Seen(m, cell) == {j \in 1..Len(cell.shapes) : cell.shapes[j].kind \in Written /\ IsWritten(m.layers[cell.shapes[j].layer])}

LEMMA ShapesCounted ==
  ASSUME NEW m, IsLayout(m), NEW cell, IsList(cell.shapes),
         \A j \in 1..Len(cell.shapes) : cell.shapes[j].layer \in 1..Len(m.layers), NEW X
  PROVE  Count(FlattenSeq(ShapesByLayer(m, cell)), X) = Cardinality({j \in Seen(m, cell) : cell.shapes[j] \in X})
<1>1. PICK w : w = WrittenLayers(m)
  OBVIOUS
<1>2. PICK len \in Nat, n \in Nat : len = Len(w) /\ n = Len(cell.shapes) /\ DOMAIN w = 1..len /\ DOMAIN cell.shapes = 1..n
  BY <1>1, ListIs, WrittenLayersAre
<1>3. PICK ss : ss = ShapesByLayer(m, cell)
  OBVIOUS
<1>4. ss = [i \in 1..len |-> ShapesOn(cell, w[i])] /\ Len(ss) = len /\ IsListOfLists(ss)
  BY <1>1, <1>2, <1>3, ShapesByLayerIs DEF ShapesByLayer
<1>5. PICK D : D = [i \in 1..len |-> {j \in 1..n : /\ cell.shapes[j].layer = w[i] /\ cell.shapes[j].kind \in Written
                                                   /\ cell.shapes[j] \in X}]
  OBVIOUS
<1>6. ASSUME NEW i \in 1..len PROVE IsFiniteSet(D[i]) /\ Count(ss[i], X) = Cardinality(D[i])
  <2>1. PICK P : P = {j \in 1..n : cell.shapes[j].layer = w[i] /\ cell.shapes[j].kind \in Written}
    OBVIOUS
  <2>2. ss[i] = Part(cell.shapes, P)
    BY <1>2, <1>4, <2>1 DEF ShapesOn
  <2>3. D[i] = {j \in 1..n : j \in P /\ cell.shapes[j] \in X}
    BY <1>5, <2>1
  <2>4. IsFiniteSet(D[i])
    <3>1. PICK S : S = 1..n
      OBVIOUS
    <3>2. D[i] \in SUBSET S /\ IsFiniteSet(S)
      BY <2>3, <3>1, FS_Interval
    <3> QED  BY <3>2, FS_Subset
  <2> QED  BY <1>2, <2>2, <2>3, <2>4, PartCounted
<1>7. ASSUME NEW i \in 1..len, NEW j \in 1..len, i # j PROVE D[i] \cap D[j] = {}
  <2>1. w[i] # w[j]
    BY <1>1, <1>2, <1>7, WrittenLayersAre
  <2> QED  BY <1>5, <2>1
<1>8. PICK W : W = {j \in Seen(m, cell) : cell.shapes[j] \in X}
  OBVIOUS
<1>9. \A x : x \in W <=> \E i \in 1..len : x \in D[i]
  <2>1. ASSUME NEW i \in 1..len, NEW j \in D[i] PROVE j \in Seen(m, cell) /\ cell.shapes[j] \in X
    <3>1. /\ j \in 1..n /\ cell.shapes[j].layer = w[i] /\ cell.shapes[j].kind \in Written /\ cell.shapes[j] \in X
      BY <1>5, <2>1
    <3>2. IsWritten(m.layers[w[i]])
      BY <1>1, <1>2, WrittenLayersAre
    <3> QED  BY <1>2, <3>1, <3>2 DEF Seen
  <2>2. ASSUME NEW j \in Seen(m, cell), cell.shapes[j] \in X PROVE \E i \in 1..len : j \in D[i]
    <3>1. j \in 1..n /\ cell.shapes[j].kind \in Written /\ IsWritten(m.layers[cell.shapes[j].layer])
      BY <1>2, <2>2 DEF Seen
    <3>2. cell.shapes[j].layer \in 1..Len(m.layers)
      BY <1>2, <3>1
    <3>3. PICK i \in 1..len : w[i] = cell.shapes[j].layer
      BY <1>1, <1>2, <3>1, <3>2, WrittenLayersAre
    <3> QED  BY <1>5, <2>2, <3>1, <3>3
  <2> QED  BY <1>8, <2>1, <2>2
<1>10. Count(FlattenSeq(ss), X) = Cardinality(W)
  <2>1. /\ \A i \in 1..Len(ss) : IsFiniteSet(D[i]) /\ Count(ss[i], X) = Cardinality(D[i])
        /\ \A i \in 1..Len(ss), j \in 1..Len(ss) : i # j => D[i] \cap D[j] = {}
    BY <1>4, <1>6, <1>7
  <2>2. \A x : x \in W <=> \E i \in 1..Len(ss) : x \in D[i]
    BY <1>4, <1>9
  <2> QED  BY <1>4, <2>1, <2>2, FlatCounted
<1> QED  BY <1>3, <1>8, <1>10

\* Each written shape is one of the cell.
LEMMA WrittenIsSeen ==
  ASSUME NEW m, IsLayout(m), NEW cell, IsList(cell.shapes),
         \A j \in 1..Len(cell.shapes) : cell.shapes[j].layer \in 1..Len(m.layers),
         NEW all, all = FlattenSeq(ShapesByLayer(m, cell)), NEW k, k \in 1..Len(all)
  PROVE  \E j \in Seen(m, cell) : all[k] = cell.shapes[j]
<1>1. PICK X, J : X = {all[k]} /\ J = {j \in Seen(m, cell) : cell.shapes[j] \in X}
  OBVIOUS
<1>2. Count(all, X) = Cardinality(J)
  BY <1>1, ShapesCounted
<1>3. IsList(all)
  BY WriteShapesIs
<1>4. k \in Occurs(all, X) /\ IsFiniteSet(Occurs(all, X))
  BY <1>1, <1>3, OccursFinite DEF Occurs
<1>5. Count(all, X) # 0
  BY <1>4, FS_EmptySet DEF Count
<1>6. J # {}
  BY <1>2, <1>5, FS_EmptySet
<1> QED  BY <1>1, <1>6

-----------------------------------------------------------------------------
(* What becomes of a property set that is saved and loaded                 *)

Back(set) == PropertiesIdFromCore(PropertiesFromKLayout(set))

\* A property that comes back as it was, under a name that the reader takes.
Kept(p) == FromCore(ToCore(p)) = p /\ p[1].text # NoText

LEMMA KeptIsTaken ==
  ASSUME NEW p, Kept(p)
  PROVE  /\ IsAttr(p[1]) \/ p[1].type # "nil"
         /\ ToCore(p).gds \/ ToCore(p).name # NoText
<1>1. CASE IsAttr(p[1])
  <2>1. ToCore(p).gds
    BY <1>1 DEF ToCore, GdsProperty
  <2> QED  BY <1>1, <2>1
<1>2. CASE ~IsAttr(p[1])
  <2>1. PICK c : c = ToCore(p)
    OBVIOUS
  <2>2. c = NamedProperty(p[1].text, p[2].text)
    BY <1>2, <2>1 DEF ToCore
  <2>3. ~c.gds /\ c.name = p[1].text
    BY <2>2 DEF NamedProperty
  <2>4. p = <<String(c.name), String(c.value)>>
    BY <2>1, <2>3 DEF Kept, FromCore
  <2>5. p[1] = String(c.name)
    BY <2>4
  <2>6. p[1].type = "string"
    BY <2>5 DEF String
  <2> QED  BY <2>1, <2>3, <2>6 DEF Kept
<1> QED  BY <1>1, <1>2

LEMMA KeptBack == ASSUME NEW S, \A p \in S : Kept(p) PROVE Back(S) = S
<1>1. PICK list : list = PropertiesFromKLayout(S)
  OBVIOUS
<1>2. ASSUME NEW p \in S PROVE p \in PropertiesIdFromCore(list)
  <2>1. PICK c : c = ToCore(p)
    OBVIOUS
  <2>2. c \in list /\ (c.gds \/ c.name # NoText) /\ FromCore(c) = p
    BY <1>1, <1>2, <2>1, KeptIsTaken DEF PropertiesFromKLayout, Kept
  <2> QED  BY <2>2 DEF PropertiesIdFromCore
<1>3. ASSUME NEW q \in PropertiesIdFromCore(list) PROVE q \in S
  <2>1. PICK c \in list : q = FromCore(c)
    BY <1>3 DEF PropertiesIdFromCore
  <2>2. PICK p \in S : c = ToCore(p)
    BY <1>1, <2>1 DEF PropertiesFromKLayout
  <2>3. Kept(p)
    BY <2>2
  <2> QED  BY <2>1, <2>2, <2>3 DEF Kept
<1> QED  BY <1>1, <1>2, <1>3 DEF Back

\* Whatever is loaded has names.
LEMMA LoadedNamed == ASSUME NEW list PROVE \A p \in PropertiesIdFromCore(list) : p[1].text # NoText
<1> SUFFICES ASSUME NEW p \in PropertiesIdFromCore(list) PROVE p[1].text # NoText
  OBVIOUS
<1>1. PICK c \in list : p = FromCore(c) /\ (c.gds \/ c.name # NoText)
  BY DEF PropertiesIdFromCore
<1>2. CASE c.gds
  <2>1. p[1] = Long(c.attr)
    BY <1>1, <1>2 DEF FromCore
  <2>2. p[1].text.kind = "int"
    BY <2>1 DEF Long, IntText, Text
  <2>3. NoText.kind = "none"
    BY DEF NoText, Text
  <2> QED  BY <2>2, <2>3
<1>3. CASE ~c.gds
  <2>1. p[1] = String(c.name)
    BY <1>1, <1>3 DEF FromCore
  <2> QED  BY <1>1, <1>3, <2>1 DEF String
<1> QED  BY <1>2, <1>3

\* A type prefix is put before a text without prefixes, and taken off.
LEMMA PrefixTaken ==
  ASSUME NEW q, NEW kind, NEW n, NEW t, t = Prefixed(q, Text(<<>>, kind, n))
  PROVE  Stripped(t) = Text(<<>>, kind, n) /\ \A r : StartsWith(t, r) <=> r = q
<1>1. PICK pre : pre = <<q>> \o <<>>
  OBVIOUS
<1>2. pre = <<q>>
  <2>1. <<q>> \in Seq({q})
    OBVIOUS
  <2> QED  BY <1>1, <2>1, ConcatEmptySeq
<1>3. pre # <<>> /\ Head(pre) = q /\ Tail(pre) = <<>>
  BY <1>2
<1>4. t = [pre |-> pre, kind |-> kind, n |-> n]
  BY <1>1 DEF Prefixed, Text
<1>5. \A r : StartsWith(t, r) <=> r = q
  BY <1>3, <1>4 DEF StartsWith
<1>6. Stripped(t) = [pre |-> <<>>, kind |-> kind, n |-> n]
  BY <1>3, <1>4 DEF Stripped
<1> QED  BY <1>5, <1>6 DEF Text

LEMMA AttrIs ==
  ASSUME NEW a
  PROVE  /\ ~CanConvertToLong(a) => ~IsAttr(a)
         /\ \A n \in Nat : InRange(n, 0, 32767) /\ a = Long(n) => IsAttr(a)
<1>1. ~CanConvertToLong(a) => ~IsAttr(a)
  BY DEF IsAttr
<1>2. ASSUME NEW n \in Nat, InRange(n, 0, 32767), a = Long(n) PROVE IsAttr(a)
  <2>1. a.type = "long" /\ a.text.n = n
    BY <1>2 DEF Long, IntText, Text
  <2>2. ToLong(a) = n
    BY <2>1 DEF ToLong
  <2>3. CanConvertToLong(a)
    BY <2>1 DEF CanConvertToLong
  <2>4. InRange(n, 0, 65535)
    BY <1>2 DEF InRange
  <2> QED  BY <2>2, <2>3, <2>4 DEF IsAttr
<1> QED  BY <1>1, <1>2

LEMMA AttrKept ==
  ASSUME NEW n \in Nat, InRange(n, 0, 32767), NEW v, DecodeGdsTypedValue(EncodeGdsTypedValue(v)) = v,
         NEW p, p = <<Long(n), v>>
  PROVE  Kept(p)
<1>1. PICK a : a = Long(n)
  OBVIOUS
<1>10. PICK c : c = ToCore(p)
  OBVIOUS
<1>2. p[1] = a /\ p[2] = v
  BY <1>1
<1>3. a.type = "long" /\ a.text.n = n /\ a.text.kind = "int"
  BY <1>1 DEF Long, IntText, Text
<1>11. ToLong(a) = n
  BY <1>3 DEF ToLong
<1>4. IsAttr(p[1])
  <2>1. IsAttr(a)
    BY <1>1, AttrIs
  <2> QED  BY <1>2, <2>1
<1>5. ToInt16(n) = n
  BY DEF ToInt16, InRange
<1>6. c = GdsProperty(n, EncodeGdsTypedValue(v))
  BY <1>10, <1>2, <1>11, <1>4, <1>5 DEF ToCore
<1>7. c.gds /\ c.attr = n /\ c.value = EncodeGdsTypedValue(v)
  BY <1>6 DEF GdsProperty
<1>8. FromCore(c) = p
  BY <1>1, <1>7 DEF FromCore
<1>9. p[1].text # NoText
  BY <1>2, <1>3 DEF NoText, Text
<1> QED  BY <1>8, <1>9, <1>10 DEF Kept

LEMMA LongDecoded == ASSUME NEW n PROVE DecodeGdsTypedValue(EncodeGdsTypedValue(Long(n))) = Long(n)
<1>1. PICK v : v = Long(n)
  OBVIOUS
<1>2. v.type = "long" /\ CanConvertToLong(v) /\ ToLong(v) = n
  BY <1>1 DEF CanConvertToLong, ToLong, Long, IntText, Text
<1>3. PICK q \in {"i2:", "i4:"} : EncodeGdsTypedValue(v) = Prefixed(q, IntText(n))
  <2>1. v.type # "nil" /\ v.type # "string"
    BY <1>2
  <2>2. EncodeGdsTypedValue(v) = Prefixed(IF InRange(ToLong(v), -32768, 32767) THEN "i2:" ELSE "i4:", IntText(ToLong(v)))
    BY <1>2, <2>1 DEF EncodeGdsTypedValue
  <2>3. CASE InRange(ToLong(v), -32768, 32767)
    BY <1>2, <2>2, <2>3
  <2>4. CASE ~InRange(ToLong(v), -32768, 32767)
    BY <1>2, <2>2, <2>4
  <2> QED  BY <2>3, <2>4
<1>4. PICK t : t = Prefixed(q, Text(<<>>, "int", n))
  OBVIOUS
<1>5. IsTypedLong(t) /\ Stripped(t) = Text(<<>>, "int", n)
  BY <1>4, PrefixTaken DEF IsTypedLong
<1>6. Stripped(t).n = n
  BY <1>5 DEF Text
<1>7. EncodeGdsTypedValue(v) = t
  BY <1>3, <1>4 DEF IntText
<1>8. DecodeGdsTypedValue(t) = Long(n)
  BY <1>5, <1>6 DEF DecodeGdsTypedValue
<1> QED  BY <1>1, <1>7, <1>8

LEMMA StringDecoded ==
  ASSUME NEW kind, NEW n
  PROVE  DecodeGdsTypedValue(EncodeGdsTypedValue(String(Text(<<>>, kind, n)))) = String(Text(<<>>, kind, n))
<1>1. PICK v : v = String(Text(<<>>, kind, n))
  OBVIOUS
<1>2. v.type = "string" /\ v.text = Text(<<>>, kind, n) /\ v.text.pre = <<>>
  BY <1>1 DEF String, Text
<1>3. PICK t : t = Prefixed("s:", Text(<<>>, kind, n))
  OBVIOUS
<1>4. EncodeGdsTypedValue(v) = t
  BY <1>2, <1>3 DEF EncodeGdsTypedValue
<1>5. ~IsTypedLong(t) /\ StartsWith(t, "s:") /\ Stripped(t) = Text(<<>>, kind, n)
  BY <1>3, PrefixTaken DEF IsTypedLong
<1>6. DecodeGdsTypedValue(t) = String(Text(<<>>, kind, n))
  BY <1>5 DEF DecodeGdsTypedValue
<1> QED  BY <1>1, <1>4, <1>6

\* What the format represents comes back as it was.
LEMMA RepresentableKept == ASSUME NEW p, RepresentableProperty(p) PROVE Kept(p)
<1>1. PICK name, value : name = p[1].text /\ value = p[2].text
  OBVIOUS
<1>2. CASE name.n \in Nat /\ InRange(name.n, 0, 32767) /\ p \in {<<Long(name.n), Long(value.n)>>, <<Long(name.n), String(Text(<<>>, value.kind, value.n))>>}
  <2>1. PICK n \in Nat : n = name.n /\ InRange(n, 0, 32767)
    BY <1>2
  <2>2. CASE p = <<Long(n), Long(value.n)>>
    BY <1>2, <2>1, <2>2, AttrKept, LongDecoded
  <2>3. CASE p = <<Long(n), String(Text(<<>>, value.kind, value.n))>>
    <3>1. PICK v : v = String(Text(<<>>, value.kind, value.n))
      OBVIOUS
    <3>2. DecodeGdsTypedValue(EncodeGdsTypedValue(v)) = v
      BY <3>1, StringDecoded
    <3> QED  BY <1>2, <2>1, <2>3, <3>1, <3>2, AttrKept
  <2> QED  BY <1>2, <2>1, <2>2, <2>3
<1>3. CASE p = <<String(name), String(value)>> /\ name # NoText /\ ~CanConvertToLong(p[1])
  <2>1. PICK c : c = ToCore(p)
    OBVIOUS
  <2>2. ~IsAttr(p[1])
    BY <1>3, AttrIs
  <2>3. c = NamedProperty(name, value)
    BY <1>1, <2>1, <2>2 DEF ToCore
  <2>4. ~c.gds /\ c.name = name /\ c.value = value
    BY <2>3 DEF NamedProperty
  <2>5. FromCore(c) = p
    BY <1>3, <2>4 DEF FromCore
  <2> QED  BY <1>1, <1>3, <2>1, <2>5 DEF Kept
<1> QED  BY <1>1, <1>2, <1>3 DEF RepresentableProperty

-----------------------------------------------------------------------------
(* The shapes of a cell in its file                                        *)

\* The first layer with the key of a written layer is written.
LEMMA FirstIs ==
  ASSUME NEW m, IsLayout(m), NEW l, l \in 1..Len(m.layers), IsWritten(m.layers[l]), NEW q, q = FirstWithKey(m, l)
  PROVE  /\ q \in 1..Len(m.layers) /\ IsWritten(m.layers[q]) /\ LayerKey(m.layers[q].ld) = LayerKey(m.layers[l].ld)
         /\ FirstWithKey(m, q) = q
<1>1. PICK len \in Nat : len = Len(m.layers) /\ DOMAIN m.layers = 1..len
  BY ListIs DEF IsLayout
<1>2. PICK T : T = {i \in 1..len : IsWritten(m.layers[i]) /\ LayerKey(m.layers[i].ld) = LayerKey(m.layers[l].ld)}
  OBVIOUS
<1>3. PICK i \in T : \A j \in T : i <= j
  <2>1. T \in SUBSET Nat /\ T # {}
    BY <1>1, <1>2
  <2> QED  BY <2>1, LeastNumber
<1> DEFINE First(x) == /\ IsWritten(m.layers[x]) /\ LayerKey(m.layers[x].ld) = LayerKey(m.layers[l].ld)
                       /\ \A j \in 1..(x - 1) :
                            ~(IsWritten(m.layers[j]) /\ LayerKey(m.layers[j].ld) = LayerKey(m.layers[l].ld))
<1>4. i \in 1..len /\ First(i)
  <2>1. i \in 1..len /\ IsWritten(m.layers[i]) /\ LayerKey(m.layers[i].ld) = LayerKey(m.layers[l].ld)
    BY <1>2, <1>3
  <2>2. ASSUME NEW j \in 1..(i - 1), IsWritten(m.layers[j]), LayerKey(m.layers[j].ld) = LayerKey(m.layers[l].ld)
        PROVE  FALSE
    <3>1. j \in 1..len /\ j < i
      BY <1>1, <2>1
    <3>2. j \in T
      BY <1>2, <2>2, <3>1
    <3> QED  BY <1>1, <1>3, <2>1, <3>1, <3>2
  <2> QED  BY <2>1, <2>2
<1>5. FirstWithKey(m, l) = CHOOSE x \in DOMAIN m.layers : First(x)
  BY DEF FirstWithKey
<1>6. q \in 1..len /\ First(q)
  BY <1>1, <1>4, <1>5
<1>7. ASSUME NEW x \in 1..len, First(x), NEW y \in 1..len, First(y) PROVE x = y
  <2>1. x < y => x \in 1..(y - 1)
    BY <1>1
  <2>2. y < x => y \in 1..(x - 1)
    BY <1>1
  <2>3. ~(x < y) /\ ~(y < x)
    BY <1>7, <2>1, <2>2
  <2> QED  BY <1>1, <2>3
<1>8. PICK r : r = FirstWithKey(m, q)
  OBVIOUS
<1>9. LayerKey(m.layers[q].ld) = LayerKey(m.layers[l].ld)
  BY <1>6
<1>10. r = CHOOSE x \in DOMAIN m.layers : First(x)
  BY <1>8, <1>9 DEF FirstWithKey
<1>11. r = q
  BY <1>5, <1>10
<1> QED  BY <1>1, <1>6, <1>8, <1>9, <1>11

LEMMA ViewLayersAre ==
  ASSUME NEW m, IsLayout(m), NEW v, v = ViewLayers(m)
  PROVE  /\ IsList(v)
         /\ \A i \in DOMAIN v : \E l \in 1..Len(m.layers) : v[i].ld = LayerKey(m.layers[l].ld)
         /\ \A l \in 1..Len(m.layers) : IsWritten(m.layers[l]) => \E i \in DOMAIN v : v[i].ld = LayerKey(m.layers[l].ld)
<1>1. PICK len \in Nat : len = Len(m.layers) /\ DOMAIN m.layers = 1..len
  BY ListIs DEF IsLayout
<1>2. PICK s, W : s = LayerIndexes(m) /\ W = {l \in DOMAIN m.layers : IsWritten(m.layers[l]) /\ FirstWithKey(m, l) = l}
  OBVIOUS
<1>3. s = [l \in 1..len |-> l] /\ IsList(s)
  BY <1>1, <1>2, WrittenLayersIsList DEF LayerIndexes
<1>4. PICK w : w = Part(s, W)
  OBVIOUS
<1>5. v = [i \in DOMAIN w |-> [ld |-> LayerKey(m.layers[w[i]].ld), name |-> m.layers[w[i]].name]]
  BY <1>2, <1>4 DEF ViewLayers
<1>6. IsList(w)
  BY <1>3, <1>4, PartIsList
<1>7. IsList(v)
  <2>1. DOMAIN v = DOMAIN w /\ v = [i \in DOMAIN v |-> v[i]]
    BY <1>5
  <2> QED  BY <1>6, <2>1, ListOver
<1>8. PICK S : s \in Seq(S)
  BY <1>3 DEF IsList
<1>9. /\ \A k \in DOMAIN w : \E i \in DOMAIN s : i \in W /\ w[k] = s[i]
      /\ \A i \in DOMAIN s : i \in W => \E k \in DOMAIN w : w[k] = s[i]
  BY <1>4, <1>8, PartRange
<1>10. ASSUME NEW i \in DOMAIN v PROVE \E l \in 1..len : v[i].ld = LayerKey(m.layers[l].ld)
  <2>1. w[i] \in 1..len
    BY <1>3, <1>5, <1>9, <1>10
  <2>2. v[i].ld = LayerKey(m.layers[w[i]].ld)
    BY <1>5, <1>10
  <2> QED  BY <2>1, <2>2
<1>11. ASSUME NEW l \in 1..len, IsWritten(m.layers[l]) PROVE \E i \in DOMAIN v : v[i].ld = LayerKey(m.layers[l].ld)
  <2>1. PICK q : q = FirstWithKey(m, l)
    OBVIOUS
  <2>2. q \in 1..len /\ IsWritten(m.layers[q]) /\ LayerKey(m.layers[q].ld) = LayerKey(m.layers[l].ld) /\ FirstWithKey(m, q) = q
    BY <1>1, <1>11, <2>1, FirstIs
  <2>3. q \in W
    BY <1>1, <1>2, <2>2
  <2>4. PICK k \in DOMAIN w : w[k] = q
    BY <1>3, <1>9, <2>2, <2>3
  <2>5. k \in DOMAIN v /\ v[k].ld = LayerKey(m.layers[q].ld)
    BY <1>5, <2>4
  <2> QED  BY <2>2, <2>5
<1> QED  BY <1>1, <1>7, <1>10, <1>11

LEMMA LayerIdIs ==
  ASSUME NEW m, IsLayout(m), NEW l, l \in 1..Len(m.layers), IsWritten(m.layers[l]), NEW k, k = LayerId(m, l)
  PROVE  k \in DOMAIN ViewLayers(m) /\ ViewLayers(m)[k].ld = LayerKey(m.layers[l].ld)
<1>1. PICK v : v = ViewLayers(m)
  OBVIOUS
<1>2. k = CHOOSE i \in DOMAIN v : v[i].ld = LayerKey(m.layers[l].ld)
  BY <1>1 DEF LayerId
<1>3. \E i \in DOMAIN v : v[i].ld = LayerKey(m.layers[l].ld)
  BY <1>1, ViewLayersAre
<1>4. k \in DOMAIN v /\ v[k].ld = LayerKey(m.layers[l].ld)
  BY <1>2, <1>3
<1> QED  BY <1>1, <1>4

\* What becomes of a shape that is saved and loaded.
Drawn == {"box", "polygon", "path", "text"}
FromFile == Drawn \cup {"polygon without points"}
InFile == Drawn \cup {"empty box", "thin polygon"}
ShapeBack(m, x) ==
  [ld |-> LayerKey(m.layers[x.layer].ld), kind |-> ReadAs(WrittenAs(x.kind)), prop |-> Back(x.prop)]

LEMMA KindsWritten ==
  ASSUME NEW kind, kind \in Written
  PROVE  /\ WrittenAs(kind) \in InFile /\ ReadAs(WrittenAs(kind)) \in FromFile
         /\ kind \in Drawn => ReadAs(WrittenAs(kind)) = kind
BY DEF Written, Visited, WrittenAs, ReadAs, Drawn, FromFile, InFile

LEMMA KindsKept == Written = Kinds \ Lost /\ Drawn \subseteq Written /\ FromFile \subseteq Kinds /\ FromFile \cap Written = Drawn
BY DEF Written, Visited, Kinds, Lost, Drawn, FromFile

ShapesBack(m, all, f) == DOMAIN f = DOMAIN all /\ \A k \in DOMAIN all : f[k] = ShapeBack(m, all[k])

\* The shapes of the file are those that are written, in this order.
LEMMA FileShapesAre ==
  ASSUME NEW m, IsLayout(m), NEW cell, IsList(cell.shapes),
         \A j \in 1..Len(cell.shapes) : cell.shapes[j].layer \in 1..Len(m.layers),
         NEW all, all = FlattenSeq(ShapesByLayer(m, cell)), NEW f, f = FileShapes(WriteCell(m, cell))
  PROVE  /\ ShapesBack(m, all, f)
         /\ \A j \in DOMAIN WriteCell(m, cell).shapes : WriteCell(m, cell).shapes[j].kind \in InFile
<1>1. PICK c : c = WriteCell(m, cell)
  OBVIOUS
<1>2. c.shapes = WriteShapes(m, cell) /\ c.layers = ViewLayers(m)
  BY <1>1 DEF WriteCell
<1>3. PICK w : w = c.shapes
  OBVIOUS
<1>4. IsList(all) /\ IsList(w) /\ DOMAIN w = DOMAIN all /\ Len(w) = Len(all) /\ \A k \in DOMAIN all : w[k] = WriteShape(m, all[k])
  BY <1>2, <1>3, WriteShapesIs
<1>5. PICK n \in Nat : n = Len(all) /\ DOMAIN all = 1..n
  BY <1>4, ListIs
<1>6. ASSUME NEW k \in 1..n
      PROVE  /\ w[k].id \in DOMAIN c.layers /\ c.layers[w[k].id].ld = LayerKey(m.layers[all[k].layer].ld)
             /\ w[k].kind \in InFile /\ ReadAs(w[k].kind) = ReadAs(WrittenAs(all[k].kind))
             /\ PropertiesIdFromCore(w[k].prop) = Back(all[k].prop)
  <2>1. PICK x : x = all[k]
    OBVIOUS
  <2>2. PICK j \in Seen(m, cell) : x = cell.shapes[j]
    <3>1. k \in 1..Len(all)
      BY <1>5
    <3> QED  BY <2>1, <3>1, WrittenIsSeen
  <2>3. j \in 1..Len(cell.shapes) /\ x.kind \in Written /\ IsWritten(m.layers[x.layer])
    BY <2>2 DEF Seen
  <2>4. x.layer \in 1..Len(m.layers)
    BY <2>2, <2>3
  <2>5. w[k] = WriteShape(m, x)
    BY <1>4, <1>5, <2>1
  <2>6. w[k].id = LayerId(m, x.layer) /\ w[k].kind = WrittenAs(x.kind) /\ w[k].prop = PropertiesFromKLayout(x.prop)
    BY <2>5 DEF WriteShape
  <2>7. w[k].id \in DOMAIN ViewLayers(m) /\ ViewLayers(m)[w[k].id].ld = LayerKey(m.layers[x.layer].ld)
    BY <2>3, <2>4, <2>6, LayerIdIs
  <2>8. WrittenAs(x.kind) \in InFile
    BY <2>3, KindsWritten
  <2> QED  BY <1>2, <2>1, <2>6, <2>7, <2>8 DEF Back
<1>7. PICK R, p : R = RealShapes(c) /\ p = Part(w, R)
  OBVIOUS
<1>8. Len(p) = n /\ \A i \in 1..n : p[i] = w[i]
  <2>1. 1..Len(w) \subseteq R
    <3> SUFFICES ASSUME NEW j \in 1..n PROVE j \in R
      BY <1>4, <1>5
    <3>1. w[j].kind \in InFile
      BY <1>6
    <3>2. w[j].kind \notin {"polygon without points", "path without points"}
      BY <3>1 DEF InFile, Drawn
    <3>3. j \in DOMAIN c.shapes
      BY <1>3, <1>4, <1>5
    <3> QED  BY <1>3, <1>7, <3>2, <3>3 DEF RealShapes
  <2> QED  BY <1>4, <1>5, <1>7, <2>1, PartWhole
<1>9. DOMAIN p = 1..n
  BY <1>4, <1>7, <1>8, PartIsList, ListIs
<1>10. f = ShapesAsRead(c, p)
  BY <1>1, <1>3, <1>7 DEF FileShapes
<1>11. DOMAIN f = 1..n
  BY <1>9, <1>10 DEF ShapesAsRead
<1>12. ASSUME NEW k \in 1..n PROVE f[k] = ShapeBack(m, all[k])
  <2>1. PICK y, x : y = w[k] /\ x = all[k]
    OBVIOUS
  <2>2. p[k] = y
    BY <1>8, <2>1
  <2>3. f[k] = [ld |-> IF y.id \in DOMAIN c.layers THEN c.layers[y.id].ld ELSE <<0, 0>>,
                kind |-> ReadAs(y.kind), prop |-> PropertiesIdFromCore(y.prop)]
    BY <1>9, <1>10, <2>2 DEF ShapesAsRead, ReadAs
  <2>4. /\ y.id \in DOMAIN c.layers /\ c.layers[y.id].ld = LayerKey(m.layers[x.layer].ld)
        /\ ReadAs(y.kind) = ReadAs(WrittenAs(x.kind)) /\ PropertiesIdFromCore(y.prop) = Back(x.prop)
    BY <1>6, <2>1
  <2> QED  BY <2>1, <2>3, <2>4 DEF ShapeBack
<1>13. ShapesBack(m, all, f)
  BY <1>5, <1>11, <1>12 DEF ShapesBack
<1> QED  BY <1>1, <1>3, <1>4, <1>5, <1>6, <1>13

-----------------------------------------------------------------------------
(* The instances of a cell in its file                                     *)

\* A list is what has an interval for its domain.
LEMMA ListTo ==
  ASSUME NEW n \in Nat, NEW u, DOMAIN u = 1..n, u = [e \in 1..n |-> u[e]]
  PROVE  IsList(u) /\ Len(u) = n
<1>1. PICK S : S = {u[e] : e \in 1..n}
  OBVIOUS
<1>2. u \in [1..n -> S]
  BY <1>1
<1>3. u \in Seq(S)
  BY <1>2, SeqDef
<1> QED  BY <1>3, LenProperties DEF IsList

\* The elements of the arrays of a cell.
Elements(m, cell) == [j \in DOMAIN cell.insts |-> ElementsOf(m, cell.insts[j])]

LEMMA ElementsAre ==
  ASSUME NEW m, NEW cell, IsList(cell.insts), \A i \in 1..Len(cell.insts) : cell.insts[i].n \in Nat
  PROVE  /\ IsListOfLists(Elements(m, cell)) /\ Len(Elements(m, cell)) = Len(cell.insts)
         /\ InstancesIn(m, cell) = FlattenSeq(Elements(m, cell)) /\ IsList(InstancesIn(m, cell))
<1>1. PICK t : t = Elements(m, cell)
  OBVIOUS
<1>2. t = [i \in DOMAIN cell.insts |-> ElementsOf(m, cell.insts[i])]
  BY <1>1 DEF Elements
<1>3. DOMAIN t = DOMAIN cell.insts /\ t = [i \in DOMAIN t |-> t[i]]
  BY <1>2
<1>4. IsList(t) /\ Len(t) = Len(cell.insts)
  BY <1>3, ListOver
<1>5. ASSUME NEW i \in 1..Len(t) PROVE IsList(t[i])
  <2>1. i \in DOMAIN cell.insts /\ cell.insts[i].n \in Nat
    BY <1>3, <1>4, ListIs
  <2>2. PICK u, n : u = t[i] /\ n = ElementsWritten(m, cell.insts[i])
    OBVIOUS
  <2>3. u = ElementsOf(m, cell.insts[i])
    BY <1>2, <2>1, <2>2
  <2>4. DOMAIN u = 1..n /\ u = [e \in 1..n |-> u[e]]
    BY <2>2, <2>3 DEF ElementsOf, ElementsWritten
  <2>5. n \in Nat
    BY <2>1, <2>2 DEF ElementsWritten
  <2> QED  BY <2>2, <2>4, <2>5, ListTo
<1>6. IsListOfLists(t)
  BY <1>4, <1>5 DEF IsListOfLists
<1>7. InstancesIn(m, cell) = FlattenSeq(t)
  BY <1>1 DEF InstancesIn, Elements
<1> QED  BY <1>1, <1>4, <1>6, <1>7, FlatIsList

\* One element of one instance of the cell, of a cell with a name.
IsElement(m, cell, e) ==
  \E j \in 1..Len(cell.insts) : \E x \in 1..ElementsWritten(m, cell.insts[j]) :
    e = [child |-> m.cells[cell.insts[j].cell].name, rot |-> cell.insts[j].rot,
         at |-> cell.insts[j].at + x - 1, prop |-> cell.insts[j].prop]

InstanceWritten(e) ==
  [child |-> e.child, rot |-> FpTrans(e.rot), at |-> e.at, prop |-> PropertiesFromKLayout(e.prop)]

LEMMA InstancesWritten ==
  ASSUME NEW m, NEW cell, IsList(cell.insts), \A i \in 1..Len(cell.insts) : cell.insts[i].n \in Nat,
         NEW w, w = WriteInstances(m, cell), NEW e, e = InstancesIn(m, cell)
  PROVE  /\ IsList(e) /\ IsList(w) /\ Len(w) = Len(e)
         /\ \A k \in 1..Len(e) : IsElement(m, cell, e[k]) /\ w[k] = InstanceWritten(e[k])
<1>1. PICK ss, tt : ss = Elements(m, cell) /\ tt = ArraysWritten(m, cell)
  OBVIOUS
<1>2. PICK n \in Nat : n = Len(cell.insts) /\ DOMAIN cell.insts = 1..n
  BY ListIs
<1>3. IsListOfLists(ss) /\ Len(ss) = n /\ e = FlattenSeq(ss) /\ IsList(e)
  BY <1>1, <1>2, ElementsAre
<1>4. IsListOfLists(tt) /\ Len(tt) = n /\ w = FlattenSeq(tt) /\ IsList(w)
  BY <1>1, <1>2, ArraysWrittenIs
<1>5. ASSUME NEW i \in 1..n
      PROVE  /\ Len(tt[i]) = Len(ss[i])
             /\ \A j \in 1..Len(ss[i]) : IsElement(m, cell, ss[i][j]) /\ tt[i][j] = InstanceWritten(ss[i][j])
  <2>1. PICK a, u, v : a = cell.insts[i] /\ u = ss[i] /\ v = tt[i]
    OBVIOUS
  <2>2. PICK l \in Nat : l = ElementsWritten(m, a)
    BY <1>2, <1>5, <2>1 DEF ElementsWritten
  <2>3. u = [x \in 1..l |-> [child |-> m.cells[a.cell].name, rot |-> a.rot, at |-> a.at + x - 1, prop |-> a.prop]]
    BY <1>1, <1>2, <1>5, <2>1, <2>2 DEF Elements, ElementsOf, ElementsWritten
  <2>4. v = [x \in 1..l |-> [child |-> m.cells[a.cell].name, rot |-> FpTrans(a.rot), at |-> a.at + x - 1,
                             prop |-> PropertiesFromKLayout(a.prop)]]
    BY <1>1, <1>2, <1>5, <2>1, <2>2 DEF ArraysWritten, WriteArray, ElementAt
  <2>5. Len(u) = l /\ Len(v) = l
    BY <2>3, <2>4, ListTo
  <2>6. ASSUME NEW x \in 1..l PROVE IsElement(m, cell, u[x]) /\ v[x] = InstanceWritten(u[x])
    <3>1. PICK y : y = u[x]
      OBVIOUS
    <3>2. y = [child |-> m.cells[a.cell].name, rot |-> a.rot, at |-> a.at + x - 1, prop |-> a.prop]
      BY <2>3, <2>6, <3>1
    <3>3. v[x] = [child |-> y.child, rot |-> FpTrans(y.rot), at |-> y.at, prop |-> PropertiesFromKLayout(y.prop)]
      BY <2>4, <2>6, <3>2
    <3>4. IsElement(m, cell, y)
      BY <1>2, <2>1, <2>2, <3>2 DEF IsElement
    <3> QED  BY <3>1, <3>3, <3>4 DEF InstanceWritten
  <2> QED  BY <2>1, <2>2, <2>5, <2>6
<1>6. Together(e, w, ss, tt, n)
  <2>1. Len(tt) = Len(ss) /\ \A i \in 1..Len(ss) : Len(tt[i]) = Len(ss[i])
    BY <1>3, <1>4, <1>5
  <2> QED  BY <1>3, <1>4, <2>1, FlatTogether
<1>7. ASSUME NEW k \in 1..Len(e) PROVE IsElement(m, cell, e[k]) /\ w[k] = InstanceWritten(e[k])
  <2>1. PICK i \in 1..n : \E j \in 1..Len(ss[i]) : e[k] = ss[i][j] /\ w[k] = tt[i][j]
    BY <1>6 DEF Together
  <2>2. PICK j \in 1..Len(ss[i]) : e[k] = ss[i][j] /\ w[k] = tt[i][j]
    BY <2>1
  <2> QED  BY <1>5, <2>2
<1> QED  BY <1>3, <1>4, <1>6, <1>7 DEF Together

\* What becomes of an instance that is saved and loaded.
ElementBack(e) == [child |-> e.child, rot |-> FpTrans(e.rot), at |-> e.at, prop |-> Back(e.prop)]

\* The instances of the file, when it has the cells they are of.
LEMMA FileInstancesAre ==
  ASSUME NEW m, NEW cell, IsList(cell.insts), \A i \in 1..Len(cell.insts) : cell.insts[i].n \in Nat,
         NEW names, \A j \in 1..Len(cell.insts) :
                      LET name == m.cells[cell.insts[j].cell].name IN name = NoName \/ name \in DOMAIN names,
         NEW f, f = FileInstances(WriteCell(m, cell), names), NEW e, e = InstancesIn(m, cell)
  PROVE  /\ IsList(e) /\ DOMAIN f = DOMAIN e
         /\ \A k \in DOMAIN e :
              /\ IsElement(m, cell, e[k])
              /\ f[k] = [child |-> names[e[k].child], rot |-> FpTrans(e[k].rot), at |-> e[k].at, prop |-> Back(e[k].prop)]
<1>1. PICK c : c = WriteCell(m, cell)
  OBVIOUS
<1>2. PICK w : w = c.insts
  OBVIOUS
<1>3. w = WriteInstances(m, cell)
  BY <1>1, <1>2 DEF WriteCell
<1>4. /\ IsList(e) /\ IsList(w) /\ Len(w) = Len(e)
      /\ \A k \in 1..Len(e) : IsElement(m, cell, e[k]) /\ w[k] = InstanceWritten(e[k])
  BY <1>3, InstancesWritten
<1>5. PICK n \in Nat : n = Len(e) /\ DOMAIN e = 1..n /\ DOMAIN w = 1..n
  BY <1>4, ListIs
<1>6. ASSUME NEW k \in 1..n
      PROVE  /\ w[k].child = e[k].child /\ w[k].rot = FpTrans(e[k].rot) /\ w[k].at = e[k].at
             /\ w[k].prop = PropertiesFromKLayout(e[k].prop) /\ w[k].child \in DOMAIN names
  <2>1. PICK x : x = e[k]
    OBVIOUS
  <2>2. IsElement(m, cell, x) /\ w[k] = InstanceWritten(x)
    BY <1>4, <1>5, <2>1
  <2>3. x.child \in DOMAIN names
    <3>1. PICK j \in 1..Len(cell.insts) : \E y \in 1..ElementsWritten(m, cell.insts[j]) :
            x = [child |-> m.cells[cell.insts[j].cell].name, rot |-> cell.insts[j].rot,
                 at |-> cell.insts[j].at + y - 1, prop |-> cell.insts[j].prop]
      BY <2>2 DEF IsElement
    <3>2. x.child = m.cells[cell.insts[j].cell].name
      BY <3>1
    <3>3. m.cells[cell.insts[j].cell].name # NoName
      BY <3>1 DEF ElementsWritten
    <3> QED  BY <3>2, <3>3
  <2> QED  BY <2>1, <2>2, <2>3 DEF InstanceWritten
<1>7. PICK K, p : K = KnownInstances(c, names) /\ p = Part(w, K)
  OBVIOUS
<1>8. Len(p) = n /\ \A i \in 1..n : p[i] = w[i]
  <2>1. 1..Len(w) \subseteq K
    BY <1>2, <1>4, <1>5, <1>6, <1>7 DEF KnownInstances
  <2> QED  BY <1>4, <1>5, <1>7, <2>1, PartWhole
<1>9. DOMAIN p = 1..n
  BY <1>4, <1>7, <1>8, PartIsList, ListIs
<1>10. f = InstancesAsRead(names, p)
  BY <1>1, <1>2, <1>7 DEF FileInstances
<1>11. DOMAIN f = 1..n
  BY <1>9, <1>10 DEF InstancesAsRead
<1>12. ASSUME NEW k \in 1..n
       PROVE  f[k] = [child |-> names[e[k].child], rot |-> FpTrans(e[k].rot), at |-> e[k].at, prop |-> Back(e[k].prop)]
  <2>1. PICK y, x : y = w[k] /\ x = e[k]
    OBVIOUS
  <2>2. p[k] = y
    BY <1>8, <2>1
  <2>3. f[k] = [child |-> names[y.child], rot |-> y.rot, at |-> y.at, prop |-> PropertiesIdFromCore(y.prop)]
    BY <1>9, <1>10, <2>2 DEF InstancesAsRead
  <2>4. y.child = x.child /\ y.rot = FpTrans(x.rot) /\ y.at = x.at /\ y.prop = PropertiesFromKLayout(x.prop)
    BY <1>6, <2>1
  <2> QED  BY <2>1, <2>3, <2>4 DEF Back
<1> QED  BY <1>4, <1>5, <1>11, <1>12

\* A cell without arrays has its instances one by one.
LEMMA SinglesAre ==
  ASSUME NEW m, NEW cell, IsList(cell.insts), \A i \in 1..Len(cell.insts) : cell.insts[i].n = 1 /\ cell.insts[i].at \in Int,
         \A i \in 1..Len(cell.insts) : m.cells[cell.insts[i].cell].name # NoName, NEW e, e = InstancesIn(m, cell)
  PROVE  /\ IsList(e) /\ DOMAIN e = DOMAIN cell.insts
         /\ \A k \in DOMAIN e : e[k] = [child |-> m.cells[cell.insts[k].cell].name, rot |-> cell.insts[k].rot,
                                        at |-> cell.insts[k].at, prop |-> cell.insts[k].prop]
<1>1. PICK ss : ss = Elements(m, cell)
  OBVIOUS
<1>2. PICK n \in Nat : n = Len(cell.insts) /\ DOMAIN cell.insts = 1..n
  BY ListIs
<1>3. IsListOfLists(ss) /\ Len(ss) = n /\ e = FlattenSeq(ss) /\ IsList(e)
  <2>1. \A i \in 1..Len(cell.insts) : cell.insts[i].n \in Nat
    OBVIOUS
  <2> QED  BY <1>1, <1>2, <2>1, ElementsAre
<1>4. ASSUME NEW i \in 1..n
      PROVE  /\ Len(ss[i]) = 1
             /\ ss[i][1] = [child |-> m.cells[cell.insts[i].cell].name, rot |-> cell.insts[i].rot,
                            at |-> cell.insts[i].at, prop |-> cell.insts[i].prop]
  <2>1. PICK a, u : a = cell.insts[i] /\ u = ss[i]
    OBVIOUS
  <2>2. a.n = 1 /\ a.at \in Int /\ m.cells[a.cell].name # NoName
    BY <1>2, <1>4, <2>1
  <2>3. u = [x \in 1..1 |-> [child |-> m.cells[a.cell].name, rot |-> a.rot, at |-> a.at + x - 1, prop |-> a.prop]]
    BY <1>1, <1>2, <1>4, <2>1, <2>2 DEF Elements, ElementsOf
  <2>4. PICK l \in Nat : l = 1
    OBVIOUS
  <2>5. DOMAIN u = 1..l /\ u = [x \in 1..l |-> u[x]]
    BY <2>3, <2>4
  <2>6. Len(u) = 1
    BY <2>4, <2>5, ListTo
  <2>7. u[1] = [child |-> m.cells[a.cell].name, rot |-> a.rot, at |-> a.at + 1 - 1, prop |-> a.prop]
    BY <2>3
  <2>8. a.at + 1 - 1 = a.at
    BY <2>2
  <2> QED  BY <2>1, <2>6, <2>7, <2>8
<1>5. Len(e) = n /\ \A k \in 1..n : e[k] = ss[k][1]
  <2>1. \A i \in 1..Len(ss) : Len(ss[i]) = 1
    BY <1>3, <1>4
  <2>2. Len(FlattenSeq(ss)) = Len(ss) /\ \A k \in 1..Len(ss) : FlattenSeq(ss)[k] = ss[k][1]
    BY <1>3, <2>1, FlatOfSingles
  <2> QED  BY <1>3, <2>2
<1>6. DOMAIN e = 1..n
  BY <1>3, <1>5, ListIs
<1> QED  BY <1>2, <1>3, <1>4, <1>5, <1>6

-----------------------------------------------------------------------------
(* A layout that was saved and loaded                                      *)

\* Numbers of layers, kinds of shapes and places of instances are what they are in
\* a database.
TypedCell(c) ==
  /\ \A j \in 1..Len(c.shapes) : c.shapes[j].kind \in Kinds
  /\ \A j \in 1..Len(c.insts) : c.insts[j].at \in Int
Typed(m) ==
  /\ \A l \in 1..Len(m.layers) : m.layers[l].ld \in Int \X Int
  /\ \A i \in 1..Len(m.cells) : TypedCell(m.cells[i])

IsDatabase(m) == IsLayout(m) /\ CellsOK(m) /\ Typed(m)

\* The cell c of m is the cell d of s, saved and loaded.
CellBack(m, c, s, d) ==
  LET all == FlattenSeq(ShapesByLayer(s, d)) IN
  /\ c.name = d.name /\ c.prop = Back(d.prop)
  /\ DOMAIN c.shapes = DOMAIN all /\ \A k \in DOMAIN all : ShapesIn(m, c)[k] = ShapeBack(s, all[k])
  /\ IsList(InstancesIn(m, c)) /\ DOMAIN InstancesIn(m, c) = DOMAIN InstancesIn(s, d)
  /\ \A k \in DOMAIN InstancesIn(s, d) : InstancesIn(m, c)[k] = ElementBack(InstancesIn(s, d)[k])

\* m is s, saved and loaded.
Mirrors(m, s) ==
  /\ IsDatabase(m) /\ IsDatabase(s) /\ Len(m.cells) = Len(Named(s.cells))
  /\ \A i \in 1..Len(m.cells) : CellBack(m, m.cells[i], s, Named(s.cells)[i])

LEMMA KeyIs ==
  ASSUME NEW ld, ld \in Int \X Int, NEW key, key = LayerKey(ld)
  PROVE  /\ key \in Int \X Int /\ key[1] >= 0 /\ key[2] >= 0 /\ LayerKey(key) = key
         /\ InRange(ld[1], 0, 65535) /\ InRange(ld[2], 0, 65535) => key = ld
<1>1. PICK a \in Int, b \in Int : ld = <<a, b>>
  OBVIOUS
<1>2. PICK c, d : c = a % 65536 /\ d = b % 65536
  OBVIOUS
<1>3. c \in Int /\ d \in Int /\ c >= 0 /\ d >= 0 /\ c % 65536 = c /\ d % 65536 = d
  BY <1>2
<1>4. ld[1] = a /\ ld[2] = b
  BY <1>1
<1>5. key = <<c, d>>
  BY <1>2, <1>4 DEF LayerKey, ToUint16
<1>6. key[1] = c /\ key[2] = d
  BY <1>5
<1>7. LayerKey(key) = key
  BY <1>3, <1>5, <1>6 DEF LayerKey, ToUint16
<1>8. ASSUME InRange(a, 0, 65535), InRange(b, 0, 65535) PROVE c = a /\ d = b
  BY <1>2, <1>8 DEF InRange
<1> QED  BY <1>1, <1>3, <1>4, <1>5, <1>6, <1>7, <1>8

LEMMA IndexIs ==
  ASSUME NEW m, IsLayout(m), CellsOK(m), NEW i \in 1..Len(m.cells), m.cells[i].name # NoName
  PROVE  IndexOf(m, m.cells[i].name) = i
<1>1. DOMAIN m.cells = 1..Len(m.cells)
  BY ListIs DEF IsLayout
<1>2. PICK x : x = IndexOf(m, m.cells[i].name)
  OBVIOUS
<1>3. x = CHOOSE j \in DOMAIN m.cells : m.cells[j].name = m.cells[i].name
  BY <1>2 DEF IndexOf
<1>4. x \in DOMAIN m.cells /\ m.cells[x].name = m.cells[i].name
  BY <1>1, <1>3
<1>5. x = i
  BY <1>1, <1>4 DEF CellsOK, AreUnique
<1> QED  BY <1>2, <1>5

\* The cells of both, by their names.
LEMMA MirrorCell ==
  ASSUME NEW m, NEW s, Mirrors(m, s), NEW i \in 1..Len(m.cells)
  PROVE  \E j \in 1..Len(s.cells) :
           /\ CellBack(m, m.cells[i], s, s.cells[j]) /\ CellOK(s.cells[j], Len(s.layers), Len(s.cells))
           /\ m.cells[i].name = s.cells[j].name /\ s.cells[j].name # NoName
           /\ IndexOf(m, m.cells[i].name) = i /\ IndexOf(s, m.cells[i].name) = j
<1>1. PICK r : r = Named(s.cells)
  OBVIOUS
<1>2. i \in 1..Len(r) /\ CellBack(m, m.cells[i], s, r[i]) /\ IsList(s.cells)
  BY <1>1 DEF Mirrors, IsDatabase, IsLayout
<1>3. PICK j \in 1..Len(s.cells) : r[i] = s.cells[j] /\ s.cells[j].name # NoName
  BY <1>1, <1>2, NamedIsOne
<1>4. CellBack(m, m.cells[i], s, s.cells[j]) /\ m.cells[i].name = s.cells[j].name
  BY <1>2, <1>3 DEF CellBack
<1>5. CellOK(s.cells[j], Len(s.layers), Len(s.cells))
  BY <1>3 DEF Mirrors, IsDatabase, CellsOK
<1>6. IsLayout(m) /\ CellsOK(m) /\ IsLayout(s) /\ CellsOK(s)
  BY DEF Mirrors, IsDatabase
<1>7. IndexOf(m, m.cells[i].name) = i /\ IndexOf(s, s.cells[j].name) = j
  BY <1>3, <1>4, <1>6, IndexIs
<1> QED  BY <1>3, <1>4, <1>5, <1>7

LEMMA MirrorNames == ASSUME NEW m, NEW s, Mirrors(m, s) PROVE CellNames(m) = RealNames(s) /\ RealNames(m) = CellNames(m)
<1>1. DOMAIN m.cells = 1..Len(m.cells) /\ DOMAIN s.cells = 1..Len(s.cells) /\ IsList(s.cells)
  BY ListIs DEF Mirrors, IsDatabase, IsLayout
<1>2. ASSUME NEW name \in CellNames(m) PROVE name \in RealNames(s) /\ name # NoName
  <2>1. PICK i \in 1..Len(m.cells) : name = m.cells[i].name
    BY <1>1 DEF CellNames
  <2>2. PICK j \in 1..Len(s.cells) : m.cells[i].name = s.cells[j].name /\ s.cells[j].name # NoName
    BY MirrorCell
  <2> QED  BY <1>1, <2>1, <2>2 DEF RealNames, CellNames
<1>3. ASSUME NEW name \in RealNames(s) PROVE name \in CellNames(m)
  <2>1. PICK j \in 1..Len(s.cells) : name = s.cells[j].name /\ s.cells[j].name # NoName
    BY <1>1 DEF RealNames, CellNames
  <2>2. PICK r : r = Named(s.cells)
    OBVIOUS
  <2>3. PICK i \in 1..Len(r) : r[i] = s.cells[j]
    BY <1>1, <2>1, <2>2, NamedIsThere
  <2>4. i \in 1..Len(m.cells) /\ CellBack(m, m.cells[i], s, r[i])
    BY <2>2, <2>3 DEF Mirrors
  <2>5. m.cells[i].name = name
    BY <2>1, <2>3, <2>4 DEF CellBack
  <2> QED  BY <1>1, <2>4, <2>5 DEF CellNames
<1>4. RealNames(m) = CellNames(m)
  BY <1>2 DEF RealNames
<1> QED  BY <1>2, <1>3, <1>4

LEMMA MirrorOfName ==
  ASSUME NEW m, NEW s, Mirrors(m, s), NEW name \in CellNames(m)
  PROVE  \E i \in 1..Len(m.cells), j \in 1..Len(s.cells) :
           /\ IndexOf(m, name) = i /\ IndexOf(s, name) = j
           /\ CellBack(m, m.cells[i], s, s.cells[j]) /\ CellOK(s.cells[j], Len(s.layers), Len(s.cells))
<1>1. DOMAIN m.cells = 1..Len(m.cells)
  BY ListIs DEF Mirrors, IsDatabase, IsLayout
<1>2. PICK i \in 1..Len(m.cells) : name = m.cells[i].name
  BY <1>1 DEF CellNames
<1>3. PICK j \in 1..Len(s.cells) :
        /\ CellBack(m, m.cells[i], s, s.cells[j]) /\ CellOK(s.cells[j], Len(s.layers), Len(s.cells))
        /\ IndexOf(m, m.cells[i].name) = i /\ IndexOf(s, m.cells[i].name) = j
  BY MirrorCell
<1> QED  BY <1>2, <1>3

-----------------------------------------------------------------------------
(* Nothing is moved                                                        *)

LEMMA ElementsPlaced ==
  ASSUME NEW m, NEW c, NEW s, NEW d, CellBack(m, c, s, d), NEW e, e = InstancesIn(m, c), NEW f, f = InstancesIn(s, d)
  PROVE  [j \in DOMAIN e |-> <<e[j].child, e[j].at>>] = [j \in DOMAIN f |-> <<f[j].child, f[j].at>>]
<1>1. DOMAIN e = DOMAIN f
  BY DEF CellBack
<1>2. ASSUME NEW j \in DOMAIN f PROVE e[j].child = f[j].child /\ e[j].at = f[j].at
  <2>1. e[j] = ElementBack(f[j])
    BY <1>2 DEF CellBack
  <2> QED  BY <2>1 DEF ElementBack
<1>3. \A j \in DOMAIN f : <<e[j].child, e[j].at>> = <<f[j].child, f[j].at>>
  BY <1>2
<1> QED  BY <1>1, <1>3

\* The shapes that NumberOn counts.
OnKey(m, cell, key, kinds) ==
  {j \in DOMAIN cell.shapes :
     /\ cell.shapes[j].kind \in kinds
     /\ m.layers[cell.shapes[j].layer].ld[1] >= 0 /\ m.layers[cell.shapes[j].layer].ld[2] >= 0
     /\ LET ld == m.layers[cell.shapes[j].layer].ld
        IN  <<ld[1] % 65536, ld[2] % 65536>> = key}

LEMMA OnKeyIs ==
  ASSUME NEW m, NEW cell, NEW key, NEW kinds
  PROVE  OnKey(m, cell, key, kinds) =
           {j \in DOMAIN cell.shapes : /\ cell.shapes[j].kind \in kinds /\ IsWritten(m.layers[cell.shapes[j].layer])
                                       /\ LayerKey(m.layers[cell.shapes[j].layer].ld) = key}
BY DEF OnKey, IsWritten, LayerKey, ToUint16

LEMMA SameNumber ==
  ASSUME NEW m, NEW c, NEW s, IsDatabase(s), NEW d, CellOK(d, Len(s.layers), Len(s.cells)), TypedCell(d),
         CellBack(m, c, s, d), NEW key
  PROVE  Cardinality(OnKey(m, c, key, Kinds)) = Cardinality(OnKey(s, d, key, Kinds \ Lost))
<1>1. PICK all : all = FlattenSeq(ShapesByLayer(s, d))
  OBVIOUS
<1>2. /\ IsLayout(s) /\ IsList(d.shapes) /\ \A j \in 1..Len(d.shapes) : d.shapes[j].layer \in 1..Len(s.layers)
      /\ DOMAIN d.shapes = 1..Len(d.shapes)
  BY ListIs DEF IsDatabase, CellOK
<1>3. IsList(all) /\ DOMAIN all = 1..Len(all)
  BY <1>1, <1>2, WriteShapesIs, ListIs
<1>4. PICK X : X = {d.shapes[j] : j \in {i \in 1..Len(d.shapes) : LayerKey(s.layers[d.shapes[i].layer].ld) = key}}
  OBVIOUS
<1>5. \A j \in 1..Len(d.shapes) : d.shapes[j] \in X <=> LayerKey(s.layers[d.shapes[j].layer].ld) = key
  BY <1>4
<1>6. OnKey(s, d, key, Kinds \ Lost) = {j \in Seen(s, d) : d.shapes[j] \in X}
  <2>1. \A j \in 1..Len(d.shapes) : d.shapes[j].kind \in Kinds \ Lost <=> d.shapes[j].kind \in Written
    BY KindsKept
  <2> QED  BY <1>2, <1>5, <2>1, OnKeyIs DEF Seen
<1>7. ASSUME NEW k \in DOMAIN all
      PROVE  /\ c.shapes[k].kind \in Kinds /\ IsWritten(m.layers[c.shapes[k].layer])
             /\ LayerKey(m.layers[c.shapes[k].layer].ld) = key <=> all[k] \in X
  <2>1. PICK x : x = all[k]
    OBVIOUS
  <2>2. PICK j \in Seen(s, d) : x = d.shapes[j]
    BY <1>1, <1>2, <1>3, <2>1, WrittenIsSeen
  <2>3. j \in 1..Len(d.shapes) /\ x.kind \in Written
    BY <2>2 DEF Seen
  <2>4. PICK ld : ld = s.layers[x.layer].ld
    OBVIOUS
  <2>5. ld \in Int \X Int
    BY <1>2, <2>2, <2>3, <2>4 DEF IsDatabase, Typed
  <2>6. ShapesIn(m, c)[k] = ShapeBack(s, x) /\ k \in DOMAIN c.shapes
    BY <1>1, <2>1 DEF CellBack
  <2>7. m.layers[c.shapes[k].layer].ld = LayerKey(ld) /\ c.shapes[k].kind = ReadAs(WrittenAs(x.kind))
    BY <2>4, <2>6 DEF ShapesIn, ShapeBack
  <2>8. c.shapes[k].kind \in Kinds
    BY <2>3, <2>7, KindsWritten, KindsKept
  <2>9. LayerKey(ld)[1] >= 0 /\ LayerKey(ld)[2] >= 0 /\ LayerKey(LayerKey(ld)) = LayerKey(ld)
    BY <2>5, KeyIs
  <2>10. x \in X <=> LayerKey(ld) = key
    BY <1>5, <2>2, <2>3, <2>4
  <2> QED  BY <2>1, <2>7, <2>8, <2>9, <2>10 DEF IsWritten
<1>8. OnKey(m, c, key, Kinds) = Occurs(all, X)
  <2>1. DOMAIN c.shapes = DOMAIN all
    BY <1>1 DEF CellBack
  <2> QED  BY <1>3, <1>7, <2>1, OnKeyIs DEF Occurs
<1>9. Count(all, X) = Cardinality({j \in Seen(s, d) : d.shapes[j] \in X})
  BY <1>1, <1>2, ShapesCounted
<1> QED  BY <1>6, <1>8, <1>9 DEF Count

LEMMA MirrorMovesNothing ==
  ASSUME NEW m, NEW s, Mirrors(m, s), NEW name \in CellNames(m)
  PROVE  Placed(m, name) = Placed(s, name) /\ \A key : NumberOn(m, name, key, Kinds) = NumberOn(s, name, key, Kinds \ Lost)
<1>1. PICK i \in 1..Len(m.cells), j \in 1..Len(s.cells) :
        /\ IndexOf(m, name) = i /\ IndexOf(s, name) = j
        /\ CellBack(m, m.cells[i], s, s.cells[j]) /\ CellOK(s.cells[j], Len(s.layers), Len(s.cells))
  BY MirrorOfName
<1>2. PICK c, d : c = m.cells[i] /\ d = s.cells[j]
  OBVIOUS
<1>3. CellBack(m, c, s, d) /\ CellOK(d, Len(s.layers), Len(s.cells))
  BY <1>1, <1>2
<1>4. TypedCell(d) /\ IsDatabase(s)
  BY <1>1, <1>2 DEF Mirrors, IsDatabase, Typed
<1>5. Placed(m, name) = Placed(s, name)
  <2>1. PICK e, f : e = InstancesIn(m, c) /\ f = InstancesIn(s, d)
    OBVIOUS
  <2>2. [k \in DOMAIN e |-> <<e[k].child, e[k].at>>] = [k \in DOMAIN f |-> <<f[k].child, f[k].at>>]
    BY <1>3, <2>1, ElementsPlaced
  <2>3. Placed(m, name) = BagOf([k \in DOMAIN e |-> <<e[k].child, e[k].at>>])
    BY <1>1, <1>2, <2>1 DEF Placed
  <2>4. Placed(s, name) = BagOf([k \in DOMAIN f |-> <<f[k].child, f[k].at>>])
    BY <1>1, <1>2, <2>1 DEF Placed
  <2> QED  BY <2>2, <2>3, <2>4
<1>6. ASSUME NEW key PROVE NumberOn(m, name, key, Kinds) = NumberOn(s, name, key, Kinds \ Lost)
  <2>1. NumberOn(m, name, key, Kinds) = Cardinality(OnKey(m, c, key, Kinds))
    BY <1>1, <1>2 DEF NumberOn, OnKey
  <2>2. NumberOn(s, name, key, Kinds \ Lost) = Cardinality(OnKey(s, d, key, Kinds \ Lost))
    BY <1>1, <1>2 DEF NumberOn, OnKey
  <2> QED  BY <1>3, <1>4, <2>1, <2>2, SameNumber
<1> QED  BY <1>5, <1>6

-----------------------------------------------------------------------------
(* What comes back as it was                                               *)

\* A cell, and a layout, that saving and loading does not change, as far as shapes of
\* some kinds are concerned.
ExactCell(s, d, kinds) ==
  /\ Back(d.prop) = d.prop
  /\ \A j \in 1..Len(d.shapes) :
       LET x == d.shapes[j] IN
       /\ x.kind \in FromFile /\ (x.kind \in kinds => x.kind \in Drawn) /\ IsWritten(s.layers[x.layer])
       /\ LayerKey(s.layers[x.layer].ld) = s.layers[x.layer].ld /\ Back(x.prop) = x.prop
  /\ \A j \in 1..Len(d.insts) : FpTrans(d.insts[j].rot) = d.insts[j].rot /\ Back(d.insts[j].prop) = d.insts[j].prop
Exact(s, kinds) == Drawn \subseteq kinds /\ \A i \in 1..Len(s.cells) : ExactCell(s, s.cells[i], kinds)

\* Lists in which everything of these kinds is equally often have the same bag of them.
LEMMA BagsAlike ==
  ASSUME NEW f, IsList(f), NEW g, IsList(g), NEW all, NEW kinds,
         \A i \in DOMAIN f : f[i].kind \in all /\ f[i].kind \in kinds,
         \A y : y.kind \in kinds =>
           Cardinality({i \in DOMAIN f : f[i] = y}) = Cardinality({i \in DOMAIN g : g[i] = y})
  PROVE  OfKinds(BagOf(f), all) = OfKinds(BagOf(g), kinds)
<1> DEFINE Times(h, y) == Cardinality({i \in DOMAIN h : h[i] = y})
<1>1. ASSUME NEW h, IsList(h), NEW y PROVE y \in ToSet(h) <=> Times(h, y) # 0
  <2>1. DOMAIN h = 1..Len(h)
    BY <1>1, ListIs
  <2>2. PICK P : P = {i \in DOMAIN h : h[i] = y}
    OBVIOUS
  <2>3. P = Occurs(h, {y})
    BY <2>1, <2>2 DEF Occurs
  <2>4. IsFiniteSet(P)
    BY <1>1, <2>3, OccursFinite
  <2>5. Cardinality(P) # 0 <=> P # {}
    BY <2>4, FS_EmptySet
  <2>6. y \in ToSet(h) <=> P # {}
    BY <2>2 DEF ToSet
  <2> QED  BY <2>2, <2>5, <2>6
<1>2. PICK A, B : A = ToSet(f) /\ B = ToSet(g)
  OBVIOUS
<1>3. \A y : y.kind \in kinds => Times(f, y) = Times(g, y)
  OBVIOUS
<1>4. BagOf(f) = [y \in A |-> Times(f, y)] /\ BagOf(g) = [y \in B |-> Times(g, y)]
  BY <1>2 DEF BagOf
<1>5. (\A y : y \in A <=> Times(f, y) # 0) /\ (\A y : y \in B <=> Times(g, y) # 0)
  BY <1>1, <1>2
<1>6. \A y \in A : y.kind \in all /\ y.kind \in kinds
  BY <1>2 DEF ToSet
<1> HIDE DEF Times
<1>7. PICK C, D : C = {y \in A : y.kind \in all} /\ D = {y \in B : y.kind \in kinds}
  OBVIOUS
<1>8. C = D
  BY <1>3, <1>5, <1>6, <1>7
<1>9. OfKinds(BagOf(f), all) = [y \in C |-> Times(f, y)]
  BY <1>4, <1>7 DEF OfKinds
<1>10. OfKinds(BagOf(g), kinds) = [y \in D |-> Times(g, y)]
  BY <1>4, <1>7 DEF OfKinds
<1>11. \A y \in D : Times(f, y) = Times(g, y)
  BY <1>3, <1>7
<1> QED  BY <1>8, <1>9, <1>10, <1>11

LEMMA ShapesExact ==
  ASSUME NEW m, NEW c, NEW s, IsDatabase(s), NEW d, CellOK(d, Len(s.layers), Len(s.cells)),
         NEW kinds, Drawn \subseteq kinds, CellBack(m, c, s, d), ExactCell(s, d, kinds)
  PROVE  OfKinds(BagOf(ShapesIn(m, c)), Kinds) = OfKinds(BagOf(ShapesIn(s, d)), kinds)
<1>1. PICK all, f, g : all = FlattenSeq(ShapesByLayer(s, d)) /\ f = ShapesIn(m, c) /\ g = ShapesIn(s, d)
  OBVIOUS
<1>2. /\ IsLayout(s) /\ IsList(d.shapes) /\ \A j \in 1..Len(d.shapes) : d.shapes[j].layer \in 1..Len(s.layers)
      /\ DOMAIN d.shapes = 1..Len(d.shapes) /\ Len(d.shapes) \in Nat
  BY ListIs DEF IsDatabase, CellOK
<1>3. IsList(all) /\ DOMAIN all = 1..Len(all) /\ Len(all) \in Nat
  BY <1>1, <1>2, WriteShapesIs, ListIs
<1>4. DOMAIN f = DOMAIN all /\ DOMAIN g = DOMAIN d.shapes /\ IsList(f) /\ IsList(g)
  <2>1. DOMAIN f = DOMAIN all
    BY <1>1 DEF ShapesIn, CellBack
  <2>2. DOMAIN g = DOMAIN d.shapes
    BY <1>1 DEF ShapesIn
  <2>3. f = [j \in DOMAIN f |-> f[j]]
    BY <1>1 DEF ShapesIn
  <2>4. g = [j \in DOMAIN g |-> g[j]]
    BY <1>1 DEF ShapesIn
  <2> QED  BY <1>2, <1>3, <2>1, <2>2, <2>3, <2>4, ListTo
<1>5. ASSUME NEW k \in 1..Len(all) PROVE f[k].kind \in Drawn /\ \E j \in 1..Len(d.shapes) : all[k] = d.shapes[j] /\ f[k] = g[j]
  <2>1. PICK x : x = all[k]
    OBVIOUS
  <2>2. PICK j \in Seen(s, d) : x = d.shapes[j]
    BY <1>1, <1>2, <2>1, WrittenIsSeen
  <2>3. j \in 1..Len(d.shapes)
    BY <2>2 DEF Seen
  <2>4. f[k] = ShapeBack(s, x)
    BY <1>1, <1>3, <2>1 DEF CellBack
  <2>5. x.kind \in Written /\ x.kind \in Drawn /\ LayerKey(s.layers[x.layer].ld) = s.layers[x.layer].ld /\ Back(x.prop) = x.prop
    BY <2>2, <2>3, KindsKept DEF Seen, ExactCell
  <2>6. ReadAs(WrittenAs(x.kind)) = x.kind
    BY <2>5, KindsWritten
  <2>7. f[k] = [ld |-> s.layers[x.layer].ld, kind |-> x.kind, prop |-> x.prop]
    BY <2>4, <2>5, <2>6 DEF ShapeBack
  <2>8. g[j] = [ld |-> s.layers[x.layer].ld, kind |-> x.kind, prop |-> x.prop]
    BY <1>1, <1>2, <2>2, <2>3 DEF ShapesIn
  <2>9. f[k].kind \in Drawn
    BY <2>5, <2>7
  <2> QED  BY <2>1, <2>2, <2>3, <2>7, <2>8, <2>9
<1>6. ASSUME NEW y, y.kind \in kinds
      PROVE  Cardinality({i \in DOMAIN f : f[i] = y}) = Cardinality({i \in DOMAIN g : g[i] = y})
  <2>1. PICK X : X = {d.shapes[j] : j \in {i \in 1..Len(d.shapes) : g[i] = y}}
    OBVIOUS
  <2>2. ASSUME NEW i \in 1..Len(d.shapes), NEW j \in 1..Len(d.shapes), d.shapes[i] = d.shapes[j] PROVE g[i] = g[j]
    BY <1>1, <1>2, <2>2 DEF ShapesIn
  <2>3. ASSUME NEW j \in 1..Len(d.shapes) PROVE d.shapes[j] \in X <=> g[j] = y
    BY <2>1, <2>2
  <2>4. {i \in DOMAIN f : f[i] = y} = Occurs(all, X)
    <3>1. ASSUME NEW k \in 1..Len(all) PROVE all[k] \in X <=> f[k] = y
      BY <1>5, <2>3
    <3> QED  BY <1>3, <1>4, <3>1 DEF Occurs
  <2>5. {i \in DOMAIN g : g[i] = y} = {j \in Seen(s, d) : d.shapes[j] \in X}
    <3>1. \A j \in 1..Len(d.shapes) : g[j].kind = d.shapes[j].kind
      BY <1>1, <1>2 DEF ShapesIn
    <3>2. \A j \in 1..Len(d.shapes) : g[j] = y => j \in Seen(s, d)
      BY <1>6, <3>1, KindsKept DEF Seen, ExactCell
    <3>3. \A j \in Seen(s, d) : j \in 1..Len(d.shapes)
      BY DEF Seen
    <3> QED  BY <1>2, <1>4, <2>3, <3>2, <3>3
  <2>6. Count(all, X) = Cardinality({j \in Seen(s, d) : d.shapes[j] \in X})
    BY <1>1, <1>2, ShapesCounted
  <2> QED  BY <2>4, <2>5, <2>6 DEF Count
<1>7. OfKinds(BagOf(f), Kinds) = OfKinds(BagOf(g), kinds)
  <2>1. \A k \in DOMAIN f : f[k].kind \in Kinds /\ f[k].kind \in kinds
    BY <1>3, <1>4, <1>5, KindsKept
  <2> QED  BY <1>4, <1>6, <2>1, BagsAlike
<1> QED  BY <1>1, <1>7

LEMMA InstancesExact ==
  ASSUME NEW m, NEW c, NEW s, NEW d, NEW kinds,
         CellOK(d, Len(s.layers), Len(s.cells)), CellBack(m, c, s, d), ExactCell(s, d, kinds)
  PROVE  InstancesIn(m, c) = InstancesIn(s, d)
<1>1. PICK e, f : e = InstancesIn(m, c) /\ f = InstancesIn(s, d)
  OBVIOUS
<1>2. IsList(d.insts) /\ \A j \in 1..Len(d.insts) : d.insts[j].n \in Nat
  BY DEF CellOK
<1>3. IsList(f) /\ \A k \in 1..Len(f) : IsElement(s, d, f[k])
  BY <1>1, <1>2, InstancesWritten
<1>4. IsList(e) /\ DOMAIN e = DOMAIN f /\ \A k \in DOMAIN f : e[k] = ElementBack(f[k])
  BY <1>1 DEF CellBack
<1>5. DOMAIN f = 1..Len(f)
  BY <1>3, ListIs
<1>6. ASSUME NEW k \in DOMAIN f PROVE e[k] = f[k]
  <2>1. PICK x : x = f[k]
    OBVIOUS
  <2>2. PICK j \in 1..Len(d.insts) : \E y \in 1..ElementsWritten(s, d.insts[j]) :
          x = [child |-> s.cells[d.insts[j].cell].name, rot |-> d.insts[j].rot,
               at |-> d.insts[j].at + y - 1, prop |-> d.insts[j].prop]
    BY <1>3, <1>5, <1>6, <2>1 DEF IsElement
  <2>3. x.rot = d.insts[j].rot /\ x.prop = d.insts[j].prop /\ x = [child |-> x.child, rot |-> x.rot, at |-> x.at, prop |-> x.prop]
    BY <2>2
  <2>4. FpTrans(x.rot) = x.rot /\ Back(x.prop) = x.prop
    BY <2>3 DEF ExactCell
  <2>5. e[k] = [child |-> x.child, rot |-> FpTrans(x.rot), at |-> x.at, prop |-> Back(x.prop)]
    BY <1>4, <2>1 DEF ElementBack
  <2> QED  BY <2>1, <2>3, <2>4, <2>5
<1>7. \E S : e \in Seq(S)
  BY <1>4 DEF IsList
<1>8. \E S : f \in Seq(S)
  BY <1>3 DEF IsList
<1>9. e = [k \in DOMAIN e |-> e[k]]
  BY <1>7
<1>10. f = [k \in DOMAIN f |-> f[k]]
  BY <1>8
<1>11. e = f
  BY <1>4, <1>6, <1>9, <1>10
<1> QED  BY <1>1, <1>11

LEMMA ExactContent ==
  ASSUME NEW m, NEW s, NEW kinds, Mirrors(m, s), Exact(s, kinds)
  PROVE  Content(m, Kinds) = Content(s, kinds)
<1>1. PICK N : N = RealNames(m) /\ N = RealNames(s) /\ N = CellNames(m)
  BY MirrorNames
<1> DEFINE Of(n, cell, k) ==
             [prop |-> cell.prop, shapes |-> OfKinds(BagOf(ShapesIn(n, cell)), k), insts |-> BagOf(InstancesIn(n, cell))]
<1>2. ASSUME NEW name \in N PROVE Of(m, m.cells[IndexOf(m, name)], Kinds) = Of(s, s.cells[IndexOf(s, name)], kinds)
  <2>1. PICK i \in 1..Len(m.cells), j \in 1..Len(s.cells) :
          /\ IndexOf(m, name) = i /\ IndexOf(s, name) = j
          /\ CellBack(m, m.cells[i], s, s.cells[j]) /\ CellOK(s.cells[j], Len(s.layers), Len(s.cells))
    BY <1>1, MirrorOfName
  <2>2. PICK c, d : c = m.cells[i] /\ d = s.cells[j]
    OBVIOUS
  <2>3. /\ CellBack(m, c, s, d) /\ CellOK(d, Len(s.layers), Len(s.cells)) /\ ExactCell(s, d, kinds)
        /\ Drawn \subseteq kinds /\ IsDatabase(s)
    BY <2>1, <2>2 DEF Mirrors, Exact
  <2>4. c.prop = d.prop
    BY <2>3 DEF CellBack, ExactCell
  <2>5. OfKinds(BagOf(ShapesIn(m, c)), Kinds) = OfKinds(BagOf(ShapesIn(s, d)), kinds)
    BY <2>3, ShapesExact
  <2>6. InstancesIn(m, c) = InstancesIn(s, d)
    BY <2>3, InstancesExact
  <2> QED  BY <2>1, <2>2, <2>4, <2>5, <2>6
<1>3. Content(m, Kinds) = [name \in N |-> Of(m, m.cells[IndexOf(m, name)], Kinds)]
  BY <1>1 DEF Content
<1>4. Content(s, kinds) = [name \in N |-> Of(s, s.cells[IndexOf(s, name)], kinds)]
  BY <1>1 DEF Content
<1> HIDE DEF Of
<1> QED  BY <1>2, <1>3, <1>4

\* A layout within the format.
LEMMA RepresentableExact == ASSUME NEW s, IsDatabase(s), Representable(s) PROVE Exact(s, Kinds) /\ Back(s.prop) = s.prop
<1>1. \A S : RepresentableSet(S) => Back(S) = S
  BY RepresentableKept, KeptBack DEF RepresentableSet
<1>2. Back(s.prop) = s.prop
  BY <1>1 DEF Representable
<1>3. DOMAIN s.layers = 1..Len(s.layers) /\ DOMAIN s.cells = 1..Len(s.cells)
  BY ListIs DEF IsDatabase, IsLayout
<1>4. ASSUME NEW l \in 1..Len(s.layers) PROVE IsWritten(s.layers[l]) /\ LayerKey(s.layers[l].ld) = s.layers[l].ld
  <2>1. PICK ld : ld = s.layers[l].ld
    OBVIOUS
  <2>2. ld \in Int \X Int /\ InRange(ld[1], 0, 65535) /\ InRange(ld[2], 0, 65535)
    BY <1>3, <2>1 DEF IsDatabase, Typed, Representable
  <2>3. LayerKey(ld) = ld /\ LayerKey(ld)[1] >= 0 /\ LayerKey(ld)[2] >= 0
    BY <2>2, KeyIs
  <2> QED  BY <2>1, <2>3 DEF IsWritten
<1>5. ASSUME NEW i \in 1..Len(s.cells) PROVE ExactCell(s, s.cells[i], Kinds)
  <2>1. PICK d : d = s.cells[i]
    OBVIOUS
  <2>2. /\ RepresentableSet(d.prop)
        /\ \A j \in DOMAIN d.shapes : d.shapes[j].kind \in Drawn /\ RepresentableSet(d.shapes[j].prop)
        /\ \A j \in DOMAIN d.insts : d.insts[j].rot # "a30" /\ RepresentableSet(d.insts[j].prop)
    BY <1>3, <2>1 DEF Representable, Drawn
  <2>3. /\ DOMAIN d.shapes = 1..Len(d.shapes) /\ DOMAIN d.insts = 1..Len(d.insts)
        /\ \A j \in 1..Len(d.shapes) : d.shapes[j].layer \in 1..Len(s.layers)
    <3>1. CellOK(d, Len(s.layers), Len(s.cells))
      BY <2>1 DEF IsDatabase, CellsOK
    <3> QED  BY <3>1, ListIs DEF CellOK
  <2>4. \A j \in 1..Len(d.insts) : FpTrans(d.insts[j].rot) = d.insts[j].rot
    BY <2>2, <2>3 DEF FpTrans
  <2>5. ExactCell(s, d, Kinds)
    BY <1>1, <1>4, <2>2, <2>3, <2>4 DEF ExactCell, FromFile
  <2> QED  BY <2>1, <2>5
<1> QED  BY <1>2, <1>5, KindsKept DEF Exact

-----------------------------------------------------------------------------
(* What a read does to a layout besides                                    *)

\* No arrays.
Single(c) == \A j \in 1..Len(c.insts) : c.insts[j].n = 1

\* The cells of n are those of m, with other content.
Advances(m, n) ==
  /\ n.dbu = m.dbu /\ n.libname = m.libname /\ n.prop = m.prop
  /\ Len(n.cells) = Len(m.cells) /\ Typed(n)
  /\ \A i \in 1..Len(m.cells) : n.cells[i].name = m.cells[i].name /\ (Single(m.cells[i]) => Single(n.cells[i]))

\* Also with the same properties.
SameProps(m, n) == \A i \in 1..Len(m.cells) : n.cells[i].prop = m.cells[i].prop

LEMMA AdvancesNot == ASSUME NEW m, Typed(m) PROVE Advances(m, m) /\ SameProps(m, m)
BY DEF Advances, SameProps

LEMMA AdvancesOn ==
  ASSUME NEW m, NEW w, Advances(m, w), NEW n, Advances(w, n)
  PROVE  Advances(m, n) /\ (SameProps(m, w) /\ SameProps(w, n) => SameProps(m, n))
BY DEF Advances, SameProps

LEMMA LayerAdvances ==
  ASSUME NEW m, IsLayout(m), Typed(m), NEW spec, spec.ld \in Int \X Int, NEW w, w = WithLayer(m, spec)
  PROVE  Advances(m, w) /\ SameProps(m, w) /\ IsLayout(w) /\ w.cells = m.cells
<1>1. IsLayout(w) /\ w.cells = m.cells
  BY LayerFound DEF Grows
<1>2. w.dbu = m.dbu /\ w.libname = m.libname /\ w.prop = m.prop
  BY DEF WithLayer, IsLayout
<1>3. \A l \in 1..Len(w.layers) : w.layers[l].ld \in Int \X Int
  <2>1. CASE w = m
    BY <2>1 DEF Typed
  <2>2. CASE w = [m EXCEPT !.layers = Append(@, spec)]
    <3>1. w.layers = Append(m.layers, spec)
      BY <2>2 DEF IsLayout
    <3>2. PICK s, t : s = m.layers /\ t = Append(s, spec)
      OBVIOUS
    <3>3. IsList(s) /\ Len(s) \in Nat
      BY <3>2, ListIs DEF IsLayout
    <3>4. Len(t) = Len(s) + 1 /\ t[Len(s) + 1] = spec /\ \A i \in 1..Len(s) : t[i] = s[i]
      <4>1. Extends(s, t, 0) /\ Len(t) = Len(s) + 1 /\ t[Len(s) + 1] = spec
        BY <3>2, <3>3, ListAppended
      <4> QED  BY <3>3, <4>1 DEF Extends
    <3>5. \A i \in 1..Len(s) : s[i].ld \in Int \X Int
      BY <3>2 DEF Typed
    <3>6. \A i \in 1..Len(t) : i \in 1..Len(s) \/ i = Len(s) + 1
      BY <3>3, <3>4
    <3> QED  BY <3>1, <3>2, <3>4, <3>5, <3>6
  <2> QED  BY <2>1, <2>2 DEF WithLayer
<1>4. Typed(w)
  BY <1>1, <1>3 DEF Typed
<1> QED  BY <1>1, <1>2, <1>4 DEF Advances, SameProps

LEMMA CellAdvances ==
  ASSUME NEW w, IsLayout(w), Typed(w), NEW k, k \in 1..Len(w.cells),
         NEW d, TypedCell(d), d.name = w.cells[k].name, Single(w.cells[k]) => Single(d),
         NEW n, n = [w EXCEPT !.cells = [@ EXCEPT ![k] = d]]
  PROVE  /\ Advances(w, n) /\ n.cells[k] = d /\ \A i \in 1..Len(w.cells) : i # k => n.cells[i] = w.cells[i]
         /\ d.prop = w.cells[k].prop => SameProps(w, n)
<1>1. PICK s, t : s = w.cells /\ t = [s EXCEPT ![k] = d]
  OBVIOUS
<1>2. IsList(s) /\ DOMAIN s = 1..Len(s) /\ k \in 1..Len(s)
  BY <1>1, ListIs DEF IsLayout
<1>3. Len(t) = Len(s) /\ t[k] = d /\ \A i \in 1..Len(s) : i # k => t[i] = s[i]
  <2>1. Extends(s, t, k) /\ Len(t) = Len(s)
    BY <1>1, <1>2, ListChanged
  <2>2. t[k] = d
    BY <1>1, <1>2
  <2> QED  BY <2>1, <2>2 DEF Extends
<1>4. n.dbu = w.dbu /\ n.libname = w.libname /\ n.prop = w.prop /\ n.layers = w.layers /\ n.cells = t
  BY <1>1 DEF IsLayout
<1>5. \A i \in 1..Len(s) : TypedCell(t[i])
  BY <1>1, <1>3 DEF Typed
<1>6. Typed(n)
  BY <1>3, <1>4, <1>5 DEF Typed
<1>7. \A i \in 1..Len(s) : t[i].name = s[i].name /\ (Single(s[i]) => Single(t[i]))
  BY <1>1, <1>3
<1>8. d.prop = s[k].prop => \A i \in 1..Len(s) : t[i].prop = s[i].prop
  BY <1>3
<1> QED  BY <1>1, <1>3, <1>4, <1>6, <1>7, <1>8 DEF Advances, SameProps

\* A cell gets a further shape, or a further instance.
LEMMA TypedAppended ==
  ASSUME NEW c, IsList(c.shapes), IsList(c.insts), TypedCell(c), NEW d
  PROVE  /\ \A s : s.kind \in Kinds /\ d.shapes = Append(c.shapes, s) /\ d.insts = c.insts =>
              TypedCell(d) /\ (Single(c) => Single(d))
         /\ \A x : x.at \in Int /\ x.n = 1 /\ d.insts = Append(c.insts, x) /\ d.shapes = c.shapes =>
              TypedCell(d) /\ (Single(c) => Single(d))
<1>0. ASSUME NEW s, IsList(s), NEW x, NEW t, t = Append(s, x)
      PROVE  \A i \in 1..Len(t) : (i \in 1..Len(s) /\ t[i] = s[i]) \/ t[i] = x
  <2>1. Len(s) \in Nat
    BY <1>0, ListIs
  <2>2. Extends(s, t, 0) /\ Len(t) = Len(s) + 1 /\ t[Len(s) + 1] = x
    BY <1>0, ListAppended
  <2>3. \A i \in 1..Len(s) : t[i] = s[i]
    BY <2>1, <2>2 DEF Extends
  <2> QED  BY <2>1, <2>2, <2>3
<1>1. ASSUME NEW s, s.kind \in Kinds, d.shapes = Append(c.shapes, s), d.insts = c.insts
      PROVE  TypedCell(d) /\ (Single(c) => Single(d))
  <2>1. \A i \in 1..Len(d.shapes) : (i \in 1..Len(c.shapes) /\ d.shapes[i] = c.shapes[i]) \/ d.shapes[i] = s
    BY <1>0, <1>1
  <2>2. \A i \in 1..Len(d.shapes) : d.shapes[i].kind \in Kinds
    BY <1>1, <2>1 DEF TypedCell
  <2> QED  BY <1>1, <2>2 DEF TypedCell, Single
<1>2. ASSUME NEW x, x.at \in Int, x.n = 1, d.insts = Append(c.insts, x), d.shapes = c.shapes
      PROVE  TypedCell(d) /\ (Single(c) => Single(d))
  <2>1. \A i \in 1..Len(d.insts) : (i \in 1..Len(c.insts) /\ d.insts[i] = c.insts[i]) \/ d.insts[i] = x
    BY <1>0, <1>2
  <2>2. \A i \in 1..Len(d.insts) : d.insts[i].at \in Int
    BY <1>2, <2>1 DEF TypedCell
  <2>3. Single(c) => Single(d)
    BY <1>2, <2>1 DEF Single
  <2> QED  BY <1>2, <2>2, <2>3 DEF TypedCell
<1> QED  BY <1>1, <1>2

-----------------------------------------------------------------------------
(* The invariants of a file and of a read into a new layout                *)

TypedFile(f) ==
  \A i \in 1..Len(f.cells) :
    LET c == f.cells[i] IN
    /\ \A j \in 1..Len(c.shapes) : c.shapes[j].kind \in FileKinds
    /\ HaveNumbers(c.layers)
    /\ \A j \in 1..Len(c.insts) : c.insts[j].at \in Int

TypeInv == Typed(mem) /\ TypedFile(file)

\* The properties of the cells that the reader has begun.
Begun(cell, at, i) == i < cell \/ (i = cell /\ at \in {"shapes", "insts"})
CellProps(c) == PropertiesIdFromCore(c.prop) \cup PropertiesIdFromCore(c.viewProp)
PropsRead(m, f, cell, at) ==
  \A i \in 1..Len(m.cells) :
    /\ Begun(cell, at, i) /\ f.cells[i].layout => m.cells[i].prop = CellProps(f.cells[i])
    /\ ~Begun(cell, at, i) => m.cells[i].prop = {}

\* The cells have the names and the places that they have in the file.
NamesRead(m, f, names) ==
  \A i \in 1..Len(m.cells) :
    /\ i \in 1..Len(f.cells) /\ f.cells[i].name \in DOMAIN names /\ names[f.cells[i].name] = i
    /\ m.cells[i].name = f.cells[i].name /\ Single(m.cells[i])

\* What is read into a new layout is all that is in it.
FreshInv ==
  rd.fresh /\ rd.at \in {"add", "cell", "shapes", "insts", "done"} =>
    /\ file.cells = <<>> => mem = EmptyLayout /\ rd.at = "done"
    /\ file.cells # <<>> =>
         /\ mem.dbu = FirstDbu /\ mem.libname = file.name /\ mem.prop = PropertiesIdFromCore(file.prop)
         /\ NamesRead(mem, file, rd.names) /\ PropsRead(mem, file, rd.cell, rd.at)
         /\ rd.at = "add" => Len(mem.cells) = rd.k - 1 /\ rd.k <= Len(file.cells) + 1
         /\ rd.at # "add" => Len(mem.cells) = Len(file.cells)
         /\ rd.at = "done" => rd.cell > Len(file.cells)

LEMMA FreshKept ==
  ASSUME FreshInv, rd.at \in {"cell", "shapes", "insts"}, Advances(mem, mem'), file' = file,
         rd'.names = rd.names, rd'.fresh = rd.fresh,
         \/ rd'.at = "failed"
         \/ /\ rd'.at \in {"cell", "shapes", "insts", "done"}
            /\ rd'.at = "done" => rd'.cell > Len(file.cells)
            /\ /\ rd.fresh /\ NamesRead(mem, file, rd.names) /\ Len(mem.cells) = Len(file.cells)
               /\ PropsRead(mem, file, rd.cell, rd.at)
               => PropsRead(mem', file, rd'.cell, rd'.at)
  PROVE  FreshInv'
<1> SUFFICES ASSUME rd'.fresh, rd'.at \in {"add", "cell", "shapes", "insts", "done"}
             PROVE  /\ file'.cells # <<>>
                    /\ mem'.dbu = FirstDbu' /\ mem'.libname = file'.name /\ mem'.prop = PropertiesIdFromCore(file'.prop)
                    /\ NamesRead(mem', file', rd'.names) /\ PropsRead(mem', file', rd'.cell, rd'.at)
                    /\ rd'.at # "add" /\ Len(mem'.cells) = Len(file'.cells)
                    /\ rd'.at = "done" => rd'.cell > Len(file'.cells)
  BY DEF FreshInv
<1>1. rd.fresh /\ rd.at # "add" /\ rd.at # "done" /\ rd.at \in {"add", "cell", "shapes", "insts", "done"}
  OBVIOUS
<1>2. /\ file.cells # <<>>
      /\ mem.dbu = FirstDbu /\ mem.libname = file.name /\ mem.prop = PropertiesIdFromCore(file.prop)
      /\ NamesRead(mem, file, rd.names) /\ PropsRead(mem, file, rd.cell, rd.at) /\ Len(mem.cells) = Len(file.cells)
  BY <1>1 DEF FreshInv
<1>3. FirstDbu' = FirstDbu
  BY DEF FirstDbu
<1>4. NamesRead(mem', file, rd.names)
  <2>1. PICK m, n : m = mem /\ n = mem'
    OBVIOUS
  <2>2. NamesRead(m, file, rd.names) /\ Advances(m, n)
    BY <1>2, <2>1
  <2>3. NamesRead(n, file, rd.names)
    BY <2>2 DEF NamesRead, Advances
  <2> QED  BY <2>1, <2>3
<1>5. PropsRead(mem', file, rd'.cell, rd'.at)
  BY <1>1, <1>2
<1>6. mem'.dbu = mem.dbu /\ mem'.libname = mem.libname /\ mem'.prop = mem.prop /\ Len(mem'.cells) = Len(mem.cells)
  BY DEF Advances
<1> QED  BY <1>1, <1>2, <1>3, <1>4, <1>5, <1>6

-----------------------------------------------------------------------------
(* The steps of a read keep these invariants                               *)

LEMMA PropsReadNext ==
  ASSUME NEW m, NEW f, NEW cell, cell \in Nat, NEW at, PropsRead(m, f, cell, at)
  PROVE  /\ at = "cell" => PropsRead(m, f, cell, "done")
         /\ at = "cell" /\ ~f.cells[cell].layout => PropsRead(m, f, cell + 1, "cell")
         /\ at = "shapes" => PropsRead(m, f, cell, "insts")
         /\ at = "insts" => PropsRead(m, f, cell + 1, "cell")
<1>1. ASSUME NEW i \in 1..Len(m.cells)
      PROVE  /\ Begun(cell, "done", i) <=> Begun(cell, "cell", i)
             /\ Begun(cell, "insts", i) <=> Begun(cell, "shapes", i)
             /\ Begun(cell + 1, "cell", i) <=> Begun(cell, "insts", i)
             /\ Begun(cell + 1, "cell", i) <=> Begun(cell, "cell", i) \/ i = cell
  BY DEF Begun
<1>2. ASSUME at = "cell" PROVE PropsRead(m, f, cell, "done")
  BY <1>1, <1>2 DEF PropsRead
<1>3. ASSUME at = "cell", ~f.cells[cell].layout PROVE PropsRead(m, f, cell + 1, "cell")
  BY <1>1, <1>3 DEF PropsRead
<1>4. ASSUME at = "shapes" PROVE PropsRead(m, f, cell, "insts")
  BY <1>1, <1>4 DEF PropsRead
<1>5. ASSUME at = "insts" PROVE PropsRead(m, f, cell + 1, "cell")
  BY <1>1, <1>5 DEF PropsRead
<1> QED  BY <1>2, <1>3, <1>4, <1>5

LEMMA PropsReadOf ==
  ASSUME NEW m, NEW n, Advances(m, n), SameProps(m, n), NEW f, NEW cell, NEW at, PropsRead(m, f, cell, at)
  PROVE  PropsRead(n, f, cell, at)
BY DEF PropsRead, SameProps, Advances

\* A failure, and a step that only moves the reader.
LEMMA StoppedTyped ==
  ASSUME TypeInv, FreshInv, rd.at \in {"cell", "shapes", "insts"}, NEW n, n = mem', Advances(mem, n), file' = file,
         rd'.names = rd.names, rd'.fresh = rd.fresh, rd'.at = "failed"
  PROVE  TypeInv' /\ FreshInv'
<1>1. Typed(mem') /\ Advances(mem, mem')
  BY DEF Advances
<1> QED  BY <1>1, FreshKept DEF TypeInv

LEMMA MovedTyped ==
  ASSUME TypeInv, FreshInv, rd.at \in {"cell", "shapes", "insts"}, mem' = mem, file' = file,
         rd'.names = rd.names, rd'.fresh = rd.fresh,
         rd'.at \in {"cell", "shapes", "insts", "done"}, rd'.at = "done" => rd'.cell > Len(file.cells),
         PropsRead(mem, file, rd.cell, rd.at) => PropsRead(mem, file, rd'.cell, rd'.at)
  PROVE  TypeInv' /\ FreshInv'
<1>1. Advances(mem, mem')
  BY AdvancesNot DEF TypeInv
<1> QED  BY <1>1, FreshKept DEF TypeInv

LEMMA ShapesReadTyped == ASSUME IInv, ReadInv, TypeInv, FreshInv, ShapesRead PROVE TypeInv' /\ FreshInv'
<1>1. /\ rd.at = "shapes" /\ rd.at \in {"cell", "shapes", "insts"} /\ file' = file
      /\ mem' = mem /\ rd' = [rd EXCEPT !.at = "insts", !.cell = rd.cell, !.k = 1]
  BY DEF ShapesRead, Goto
<1>2. rd' = [at |-> "insts", fresh |-> rd.fresh, cell |-> rd.cell, k |-> 1, names |-> rd.names, layers |-> rd.layers]
  BY <1>1, ReadInvHas
<1>3. rd'.at = "insts" /\ rd'.fresh = rd.fresh /\ rd'.cell = rd.cell /\ rd'.names = rd.names
  BY <1>2
<1>4. rd.cell \in Nat
  BY <1>1, ReadInvHas
<1>5. PropsRead(mem, file, rd.cell, rd.at) => PropsRead(mem, file, rd.cell, "insts")
  BY <1>1, <1>4, PropsReadNext
<1> QED  BY <1>1, <1>3, <1>5, MovedTyped

LEMMA CellReadTyped == ASSUME IInv, ReadInv, TypeInv, FreshInv, CellRead PROVE TypeInv' /\ FreshInv'
<1>1. /\ rd.at = "insts" /\ rd.at \in {"cell", "shapes", "insts"} /\ file' = file
      /\ mem' = mem /\ rd' = [rd EXCEPT !.at = "cell", !.cell = rd.cell + 1, !.k = 1]
  BY DEF CellRead, Goto
<1>2. rd' = [at |-> "cell", fresh |-> rd.fresh, cell |-> rd.cell + 1, k |-> 1, names |-> rd.names, layers |-> rd.layers]
  BY <1>1, ReadInvHas
<1>3. rd'.at = "cell" /\ rd'.fresh = rd.fresh /\ rd'.cell = rd.cell + 1 /\ rd'.names = rd.names
  BY <1>2
<1>4. rd.cell \in Nat
  BY <1>1, ReadInvHas
<1>5. PropsRead(mem, file, rd.cell, rd.at) => PropsRead(mem, file, rd.cell + 1, "cell")
  BY <1>1, <1>4, PropsReadNext
<1> QED  BY <1>1, <1>3, <1>5, MovedTyped

LEMMA ReadDoneTyped == ASSUME IInv, ReadInv, TypeInv, FreshInv, ReadDone PROVE TypeInv' /\ FreshInv'
<1>1. /\ rd.at = "cell" /\ rd.at \in {"cell", "shapes", "insts"} /\ file' = file
      /\ mem' = mem /\ rd.cell > Len(file.cells) /\ rd' = [rd EXCEPT !.at = "done"]
  BY DEF ReadDone
<1>2. rd' = [at |-> "done", fresh |-> rd.fresh, cell |-> rd.cell, k |-> rd.k, names |-> rd.names, layers |-> rd.layers]
  BY <1>1, ReadInvHas
<1>3. rd'.at = "done" /\ rd'.fresh = rd.fresh /\ rd'.cell = rd.cell /\ rd'.names = rd.names
  BY <1>2
<1>4. rd.cell \in Nat
  BY <1>1, ReadInvHas
<1>5. PropsRead(mem, file, rd.cell, rd.at) => PropsRead(mem, file, rd.cell, "done")
  BY <1>1, <1>4, PropsReadNext
<1> QED  BY <1>1, <1>3, <1>5, MovedTyped

\* In a new layout a cell of the file is where the file has it.
LEMMA FreshTarget ==
  ASSUME rd.fresh, NamesRead(mem, file, rd.names), Len(mem.cells) = Len(file.cells), rd.cell \in 1..Len(file.cells),
         NEW t, t = rd.names[file.cells[rd.cell].name]
  PROVE  t = rd.cell
BY DEF NamesRead

LEMMA NotBegun == ASSUME NEW i, i \in Nat PROVE ~Begun(i, "cell", i) /\ Begun(i, "shapes", i)
BY DEF Begun

LEMMA BeginCellTyped == ASSUME IInv, ReadInv, TypeInv, FreshInv, BeginCell PROVE TypeInv' /\ FreshInv'
<1>1. rd.at = "cell" /\ rd.at \in {"cell", "shapes", "insts"} /\ rd.cell <= Len(file.cells) /\ file' = file
  BY DEF BeginCell
<1>2. PICK c, k : c = FileCell /\ k = TargetIndex
  OBVIOUS
<1>3. /\ rd.cell \in 1..Len(file.cells) /\ c = file.cells[rd.cell] /\ k = rd.names[c.name] /\ k \in 1..Len(mem.cells)
      /\ IsLayout(mem) /\ Typed(mem) /\ CellOK(mem.cells[k], Len(mem.layers), Len(mem.cells)) /\ rd.cell \in Nat
  BY <1>1, <1>2, InHandIs, ReadInvHas DEF TypeInv
<1>5. CASE ~c.layout /\ mem' = mem /\ rd' = [rd EXCEPT !.at = "cell", !.cell = rd.cell + 1, !.k = 1]
  <2>1. rd' = [at |-> "cell", fresh |-> rd.fresh, cell |-> rd.cell + 1, k |-> 1, names |-> rd.names, layers |-> rd.layers]
    BY <1>1, <1>5, ReadInvHas
  <2>2. rd'.at = "cell" /\ rd'.fresh = rd.fresh /\ rd'.cell = rd.cell + 1 /\ rd'.names = rd.names
    BY <2>1
  <2>3. PropsRead(mem, file, rd.cell, rd.at) => PropsRead(mem, file, rd.cell + 1, "cell")
    BY <1>1, <1>3, <1>5, PropsReadNext
  <2> QED  BY <1>1, <1>5, <2>2, <2>3, MovedTyped
<1>6. CASE mem' = mem /\ rd' = [rd EXCEPT !.at = "failed"]
  <2>1. rd' = [at |-> "failed", fresh |-> rd.fresh, cell |-> rd.cell, k |-> rd.k, names |-> rd.names, layers |-> rd.layers]
    BY <1>1, <1>6, ReadInvHas
  <2>2. rd'.at = "failed" /\ rd'.fresh = rd.fresh /\ rd'.names = rd.names
    BY <2>1
  <2>3. Advances(mem, mem)
    BY <1>3, AdvancesNot
  <2> QED  BY <1>1, <1>6, <2>2, <2>3, StoppedTyped
<1>7. CASE c.layout /\ ApplyCoreProperties /\ rd' = [rd EXCEPT !.at = "shapes", !.cell = rd.cell, !.k = 1]
  <2>1. rd' = [at |-> "shapes", fresh |-> rd.fresh, cell |-> rd.cell, k |-> 1, names |-> rd.names, layers |-> rd.layers]
    BY <1>1, <1>7, ReadInvHas
  <2>r. rd'.at = "shapes" /\ rd'.fresh = rd.fresh /\ rd'.cell = rd.cell /\ rd'.names = rd.names
    BY <2>1
  <2>2. PICK x : /\ mem' = [mem EXCEPT !.cells[k].prop = x]
                 /\ x = IF CellProps(c) = {} THEN mem.cells[k].prop ELSE CellProps(c)
    BY <1>2, <1>7 DEF ApplyCoreProperties, CellProps
  <2>3. PICK d : d = [mem.cells[k] EXCEPT !.prop = x]
    OBVIOUS
  <2>4. mem' = [mem EXCEPT !.cells = [@ EXCEPT ![k] = d]]
    BY <2>2, <2>3
  <2>5. d.name = mem.cells[k].name /\ d.prop = x /\ d.shapes = mem.cells[k].shapes /\ d.insts = mem.cells[k].insts
    BY <1>3, <2>3 DEF CellOK
  <2>6. TypedCell(d) /\ (Single(mem.cells[k]) => Single(d))
    BY <1>3, <2>5 DEF Typed, TypedCell, Single
  <2>7. PICK n : n = [mem EXCEPT !.cells = [@ EXCEPT ![k] = d]]
    OBVIOUS
  <2>8. Advances(mem, n) /\ n.cells[k] = d /\ \A i \in 1..Len(mem.cells) : i # k => n.cells[i] = mem.cells[i]
    <3>1. IsLayout(mem) /\ Typed(mem) /\ k \in 1..Len(mem.cells) /\ TypedCell(d) /\ d.name = mem.cells[k].name
          /\ (Single(mem.cells[k]) => Single(d))
      BY <1>3, <2>5, <2>6
    <3> QED  BY ONLY <2>7, <3>1, CellAdvances
  <2>9. ASSUME rd.fresh, NamesRead(mem, file, rd.names), Len(mem.cells) = Len(file.cells),
               PropsRead(mem, file, rd.cell, "cell")
        PROVE  PropsRead(n, file, rd.cell, "shapes")
    <3>1. k = rd.cell
      BY <1>3, <2>9, FreshTarget
    <3>2. ~Begun(rd.cell, "cell", rd.cell)
      BY <1>3, NotBegun
    <3>3. mem.cells[k].prop = {}
      BY <1>3, <2>9, <3>1, <3>2 DEF PropsRead
    <3>4. n.cells[k].prop = CellProps(c)
      BY <2>2, <2>5, <2>8, <3>3
    <3>5. Len(n.cells) = Len(mem.cells)
      BY <2>8 DEF Advances
    <3>6. ASSUME NEW i \in 1..Len(n.cells), i # k
          PROVE  (Begun(rd.cell, "shapes", i) <=> Begun(rd.cell, "cell", i)) /\ n.cells[i] = mem.cells[i]
      BY <2>8, <3>1, <3>5, <3>6 DEF Begun
    <3>7. Begun(rd.cell, "shapes", k)
      BY <3>1 DEF Begun
    <3> QED  BY <1>3, <2>9, <3>1, <3>4, <3>5, <3>6, <3>7 DEF PropsRead
  <2>10. mem' = n /\ Advances(mem, mem') /\ Typed(mem')
    BY <2>4, <2>7, <2>8 DEF Advances
  <2>11. rd.fresh /\ NamesRead(mem, file, rd.names) /\ Len(mem.cells) = Len(file.cells) /\ PropsRead(mem, file, rd.cell, rd.at)
         => PropsRead(mem', file, rd'.cell, rd'.at)
    BY <1>1, <2>r, <2>9, <2>10
  <2> QED  BY <1>1, <2>r, <2>10, <2>11, FreshKept DEF TypeInv
<1> QED  BY <1>2, <1>5, <1>6, <1>7 DEF BeginCell, Goto, Fails

LEMMA LayerOfView ==
  ASSUME TypedFile(file), rd.cell \in 1..Len(file.cells), NEW id, NEW spec, spec = LayerSpecById(id)
  PROVE  spec.ld \in Int \X Int
<1>1. PICK c : c = file.cells[rd.cell]
  OBVIOUS
<1>2. HaveNumbers(c.layers)
  BY <1>1 DEF TypedFile
<1>3. spec = IF id \in DOMAIN c.layers THEN c.layers[id] ELSE [ld |-> <<0, 0>>, name |-> "unknown"]
  BY <1>1 DEF LayerSpecById, FileCell
<1>4. CASE id \in DOMAIN c.layers
  BY <1>2, <1>3, <1>4 DEF HaveNumbers
<1>5. CASE id \notin DOMAIN c.layers
  BY <1>3, <1>5
<1> QED  BY <1>4, <1>5

LEMMA KindRead ==
  ASSUME NEW kind, kind \in FileKinds, ~Overflows(kind), kind \notin {"polygon without points", "path without points"}
  PROVE  ReadAs(kind) \in Kinds
BY DEF FileKinds, Overflows, ReadAs, Kinds, Visited

LEMMA ReaderMoved ==
  ASSUME ReaderInv, NEW at, NEW k, NEW layers,
         \/ rd' = [rd EXCEPT !.at = at]
         \/ rd' = [rd EXCEPT !.at = at, !.k = k]
         \/ rd' = [rd EXCEPT !.at = at, !.layers = layers]
         \/ rd' = [rd EXCEPT !.k = k, !.layers = layers]
  PROVE  rd'.at \in {rd.at, at} /\ rd'.fresh = rd.fresh /\ rd'.cell = rd.cell /\ rd'.names = rd.names
<1>1. PICK r, s : r = rd /\ s = rd'
  OBVIOUS
<1>2. r = [at |-> r.at, fresh |-> r.fresh, cell |-> r.cell, k |-> r.k, names |-> r.names, layers |-> r.layers]
  BY <1>1 DEF ReaderInv
<1>3. CASE s = [r EXCEPT !.at = at]
  BY <1>1, <1>2, <1>3
<1>4. CASE s = [r EXCEPT !.at = at, !.k = k]
  BY <1>1, <1>2, <1>4
<1>5. CASE s = [r EXCEPT !.at = at, !.layers = layers]
  BY <1>1, <1>2, <1>5
<1>6. CASE s = [r EXCEPT !.k = k, !.layers = layers]
  BY <1>1, <1>2, <1>6
<1> QED  BY <1>1, <1>3, <1>4, <1>5, <1>6

\* A step that adds to the cell in hand or to the layers.
LEMMA AddedTyped ==
  ASSUME IInv, ReadInv, TypeInv, FreshInv, rd.at \in {"cell", "shapes", "insts"}, file' = file,
         NEW n, mem' = n, Advances(mem, n), SameProps(mem, n),
         rd'.at \in {rd.at, "failed"}, rd'.fresh = rd.fresh, rd'.cell = rd.cell, rd'.names = rd.names
  PROVE  TypeInv' /\ FreshInv'
<1>1. CASE rd'.at = "failed"
  BY <1>1, StoppedTyped
<1>2. CASE rd'.at = rd.at
  <2>1. PropsRead(mem, file, rd.cell, rd.at) => PropsRead(n, file, rd.cell, rd.at)
    BY PropsReadOf
  <2>2. PropsRead(mem, file, rd.cell, rd.at) => PropsRead(mem', file, rd'.cell, rd'.at)
    BY <1>2, <2>1
  <2>3. Typed(mem') /\ Advances(mem, mem') /\ rd'.at \in {"cell", "shapes", "insts"}
    BY <1>2 DEF Advances
  <2> QED  BY <2>2, <2>3, FreshKept DEF TypeInv
<1> QED  BY <1>1, <1>2

LEMMA ReadShapeTyped == ASSUME IInv, ReadInv, TypeInv, FreshInv, ReadShape PROVE TypeInv' /\ FreshInv'
<1>1. /\ rd.at = "shapes" /\ rd.at \in {"cell", "shapes", "insts"} /\ rd.k <= Len(FileCell.shapes) /\ file' = file
      /\ rd.cell <= Len(file.cells)
  BY DEF ReadShape, IInv, CellInv
<1>2. PICK c, t : c = FileCell /\ t = TargetIndex
  OBVIOUS
<1>3. rd.cell \in 1..Len(file.cells) /\ c = file.cells[rd.cell] /\ t \in 1..Len(mem.cells)
  BY <1>1, <1>2, InHandIs
<1>l. Len(c.shapes) \in Nat /\ rd.k \in Nat /\ rd.k <= Len(c.shapes)
  BY <1>1, <1>2, InHandIs, ReadInvHas
<1>m. IsLayout(mem) /\ CellOK(mem.cells[t], Len(mem.layers), Len(mem.cells)) /\ Typed(mem) /\ TypedFile(file)
  BY <1>1, <1>2, InHandIs, ReadInvHas DEF TypeInv
<1>4. rd.k \in 1..Len(c.shapes)
  <2>1. rd.k \in 1..(Len(c.shapes) + 1)
    BY <1>1, <1>3, ReadInvHas DEF InHand
  <2> QED  BY <1>l, <2>1
<1>5. PICK shape : shape = c.shapes[rd.k]
  OBVIOUS
<1>6. PICK spec : spec = LayerSpecById(shape.id)
  OBVIOUS
<1>7. PICK layers, l : layers = Extended(rd.layers, spec.ld, LayerIndex(spec)) /\ l = LayerIndex(spec)
  OBVIOUS
<1>8. PICK w : w = WithLayer(mem, spec)
  OBVIOUS
<1>9. PICK s : s = [layer |-> l, kind |-> ReadAs(shape.kind), prop |-> PropertiesIdFromCore(shape.prop)]
  OBVIOUS
<1>10. \/ rd' = [rd EXCEPT !.at = "failed"] /\ mem' = mem
       \/ rd' = [rd EXCEPT !.at = "shapes", !.k = @ + 1] /\ mem' = mem
       \/ rd' = [rd EXCEPT !.at = "failed", !.layers = layers] /\ mem' = w
       \/ rd' = [rd EXCEPT !.k = @ + 1, !.layers = layers] /\ mem' = w
       \/ /\ shape.kind \notin {"polygon without points", "path without points"} /\ ~Overflows(shape.kind)
          /\ mem' = InsertShape(w, shape, spec)
          /\ rd' = [rd EXCEPT !.k = @ + 1, !.layers = layers]
  BY <1>2, <1>5, <1>6, <1>7, <1>8 DEF ReadShape, Fails, Continue
<1>11. /\ rd'.at \in {rd.at, "failed"} /\ rd'.fresh = rd.fresh /\ rd'.cell = rd.cell /\ rd'.names = rd.names
       /\ \/ mem' = mem
          \/ mem' = w
          \/ /\ shape.kind \notin {"polygon without points", "path without points"} /\ ~Overflows(shape.kind)
             /\ mem' = InsertShape(w, shape, spec)
  <2>1. PICK k : k = rd.k + 1
    OBVIOUS
  <2>2. \/ rd' = [rd EXCEPT !.at = "failed"]
        \/ rd' = [rd EXCEPT !.at = "shapes", !.k = k]
        \/ rd' = [rd EXCEPT !.at = "failed", !.layers = layers]
        \/ rd' = [rd EXCEPT !.k = k, !.layers = layers]
    BY <1>10, <2>1
  <2>4. ReaderInv
    BY DEF IInv
  <2>5. rd'.at \in {rd.at, "failed"} /\ rd'.fresh = rd.fresh /\ rd'.cell = rd.cell /\ rd'.names = rd.names
    <3>1. CASE rd' = [rd EXCEPT !.at = "failed"]
      BY <2>4, <3>1, ReaderMoved
    <3>2. CASE rd' = [rd EXCEPT !.at = "shapes", !.k = k]
      BY <1>1, <2>4, <3>2, ReaderMoved
    <3>3. CASE rd' = [rd EXCEPT !.at = "failed", !.layers = layers]
      BY <2>4, <3>3, ReaderMoved
    <3>4. CASE rd' = [rd EXCEPT !.k = k, !.layers = layers]
      BY <2>4, <3>4, ReaderMoved
    <3> QED  BY <2>2, <3>1, <3>2, <3>3, <3>4
  <2> QED  BY <1>10, <2>5
<1>12. Advances(mem, mem) /\ SameProps(mem, mem)
  BY <1>m, AdvancesNot
<1>13. Advances(mem, w) /\ SameProps(mem, w) /\ IsLayout(w) /\ w.cells = mem.cells
  <2>1. spec.ld \in Int \X Int
    BY <1>3, <1>6, <1>m, LayerOfView
  <2> QED  BY <1>m, <1>8, <2>1, LayerAdvances
<1>14. ASSUME shape.kind \notin {"polygon without points", "path without points"}, ~Overflows(shape.kind),
              NEW n, n = InsertShape(w, shape, spec)
       PROVE  Advances(mem, n) /\ SameProps(mem, n)
  <2>1. PICK d : d = [w.cells[t] EXCEPT !.shapes = Append(@, s)]
    OBVIOUS
  <2>2. n = [w EXCEPT !.cells[t].shapes = Append(@, s)]
    BY <1>2, <1>7, <1>9, <1>14 DEF InsertShape
  <2>3. n = [w EXCEPT !.cells = [@ EXCEPT ![t] = d]]
    BY <1>13, <2>1, <2>2
  <2>4. PICK a : a = w.cells[t]
    OBVIOUS
  <2>5. /\ d.name = a.name /\ d.prop = a.prop /\ d.insts = a.insts
        /\ d.shapes = Append(a.shapes, s) /\ IsList(a.shapes) /\ IsList(a.insts)
    BY <1>m, <1>13, <2>1, <2>4 DEF CellOK
  <2>6. s.kind \in Kinds
    <3>1. shape.kind \in FileKinds
      BY <1>3, <1>4, <1>5, <1>m DEF TypedFile
    <3> QED  BY <1>9, <1>14, <3>1, KindRead
  <2>7. t \in 1..Len(w.cells) /\ Typed(w) /\ TypedCell(a)
    BY <1>3, <1>m, <1>13, <2>4 DEF Typed, Advances
  <2>8. TypedCell(d) /\ (Single(a) => Single(d))
    BY ONLY <2>5, <2>6, <2>7, TypedAppended
  <2>9. Advances(w, n) /\ SameProps(w, n)
    BY ONLY <1>13, <2>3, <2>4, <2>5, <2>7, <2>8, CellAdvances
  <2> QED  BY <1>13, <2>9, AdvancesOn
<1>15. PICK n : n = mem' /\ Advances(mem, n) /\ SameProps(mem, n)
  BY <1>11, <1>12, <1>13, <1>14
<1> QED  BY <1>1, <1>11, <1>15, AddedTyped

LEMMA ReadInstanceTyped == ASSUME IInv, ReadInv, TypeInv, FreshInv, ReadInstance PROVE TypeInv' /\ FreshInv'
<1>1. /\ rd.at = "insts" /\ rd.at \in {"cell", "shapes", "insts"} /\ rd.k <= Len(FileCell.insts) /\ file' = file
      /\ rd.cell <= Len(file.cells)
  BY DEF ReadInstance, IInv, CellInv
<1>2. PICK c, t : c = FileCell /\ t = TargetIndex
  OBVIOUS
<1>3. rd.cell \in 1..Len(file.cells) /\ c = file.cells[rd.cell] /\ t \in 1..Len(mem.cells)
  BY <1>1, <1>2, InHandIs
<1>l. Len(c.insts) \in Nat /\ rd.k \in Nat /\ rd.k <= Len(c.insts)
  BY <1>1, <1>2, InHandIs, ReadInvHas
<1>m. IsLayout(mem) /\ CellOK(mem.cells[t], Len(mem.layers), Len(mem.cells)) /\ Typed(mem) /\ TypedFile(file)
  BY <1>1, <1>2, InHandIs, ReadInvHas DEF TypeInv
<1>4. rd.k \in 1..Len(c.insts)
  <2>1. rd.k \in 1..(Len(c.insts) + 1)
    BY <1>1, <1>3, ReadInvHas DEF InHand
  <2> QED  BY <1>l, <2>1
<1>5. PICK inst : inst = c.insts[rd.k]
  OBVIOUS
<1>6. PICK x : x = [cell |-> rd.names[inst.child], rot |-> inst.rot, at |-> inst.at,
                    n |-> 1, prop |-> PropertiesIdFromCore(inst.prop)]
  OBVIOUS
<1>7. \/ rd' = [rd EXCEPT !.at = "failed"] /\ mem' = mem
      \/ rd' = [rd EXCEPT !.at = "insts", !.k = @ + 1] /\ mem' = mem
      \/ rd' = [rd EXCEPT !.at = "insts", !.k = @ + 1] /\ mem' = [mem EXCEPT !.cells[t].insts = Append(@, x)]
  BY <1>2, <1>5, <1>6 DEF ReadInstance, Fails, Continue, ChildIndex
<1>8. /\ rd'.at \in {rd.at, "failed"} /\ rd'.fresh = rd.fresh /\ rd'.cell = rd.cell /\ rd'.names = rd.names
  <2>1. PICK k : k = rd.k + 1
    OBVIOUS
  <2>2. rd' = [rd EXCEPT !.at = "failed"] \/ rd' = [rd EXCEPT !.at = "insts", !.k = k]
    BY <1>7, <2>1
  <2> QED  BY <1>1, <2>2, ReaderMoved DEF IInv
<1>9. Advances(mem, mem) /\ SameProps(mem, mem)
  BY <1>m, AdvancesNot
<1>10. ASSUME NEW n, n = [mem EXCEPT !.cells[t].insts = Append(@, x)]
       PROVE  Advances(mem, n) /\ SameProps(mem, n)
  <2>1. PICK d : d = [mem.cells[t] EXCEPT !.insts = Append(@, x)]
    OBVIOUS
  <2>3. n = [mem EXCEPT !.cells = [@ EXCEPT ![t] = d]]
    BY <1>10, <2>1
  <2>4. PICK a : a = mem.cells[t]
    OBVIOUS
  <2>5. /\ d.name = a.name /\ d.prop = a.prop /\ d.shapes = a.shapes
        /\ d.insts = Append(a.insts, x) /\ IsList(a.shapes) /\ IsList(a.insts)
    BY <1>m, <2>1, <2>4 DEF CellOK
  <2>6. x.at \in Int /\ x.n = 1
    BY <1>3, <1>4, <1>5, <1>6, <1>m DEF TypedFile
  <2>7. t \in 1..Len(mem.cells) /\ Typed(mem) /\ TypedCell(a)
    BY <1>3, <1>m, <2>4 DEF Typed
  <2>8. TypedCell(d) /\ (Single(a) => Single(d))
    BY ONLY <2>5, <2>6, <2>7, TypedAppended
  <2>9. PICK w : w = mem
    OBVIOUS
  <2>10. /\ IsLayout(w) /\ Typed(w) /\ t \in 1..Len(w.cells) /\ n = [w EXCEPT !.cells = [@ EXCEPT ![t] = d]]
         /\ a = w.cells[t]
    BY <1>m, <2>3, <2>4, <2>7, <2>9
  <2>11. Advances(w, n) /\ SameProps(w, n)
    BY ONLY <2>5, <2>8, <2>10, CellAdvances
  <2> QED  BY <2>9, <2>11
<1>11. PICK n : n = mem' /\ Advances(mem, n) /\ SameProps(mem, n)
  BY <1>7, <1>9, <1>10
<1> QED  BY <1>1, <1>8, <1>11, AddedTyped

LEMMA CellsAddedTyped == ASSUME IInv, TypeInv, FreshInv, ReadInv, CellsAdded PROVE TypeInv' /\ FreshInv'
<1>1. rd.at = "add" /\ rd.k > Len(file.cells) /\ file' = file /\ mem' = mem /\ rd' = [rd EXCEPT !.at = "cell", !.cell = 1, !.k = 1]
  BY DEF CellsAdded, Goto
<1>2. rd' = [at |-> "cell", fresh |-> rd.fresh, cell |-> 1, k |-> 1, names |-> rd.names, layers |-> rd.layers]
  BY <1>1 DEF IInv, ReaderInv
<1>3. rd'.names = rd.names /\ rd'.fresh = rd.fresh /\ rd'.at = "cell" /\ rd'.cell = 1
  BY <1>2
<1>4. TypeInv' /\ FirstDbu' = FirstDbu
  BY <1>1 DEF TypeInv, FirstDbu
<1>5. ASSUME rd.fresh
      PROVE  /\ file.cells # <<>>
             /\ mem.dbu = FirstDbu /\ mem.libname = file.name /\ mem.prop = PropertiesIdFromCore(file.prop)
             /\ NamesRead(mem, file, rd.names) /\ PropsRead(mem, file, 1, "cell") /\ Len(mem.cells) = Len(file.cells)
  <2>1. /\ file.cells # <<>>
        /\ mem.dbu = FirstDbu /\ mem.libname = file.name /\ mem.prop = PropertiesIdFromCore(file.prop)
        /\ NamesRead(mem, file, rd.names) /\ PropsRead(mem, file, rd.cell, "add")
        /\ Len(mem.cells) = rd.k - 1 /\ rd.k <= Len(file.cells) + 1
    BY <1>1, <1>5 DEF FreshInv
  <2>2. Len(mem.cells) = Len(file.cells)
    <3>1. rd.k \in Nat /\ Len(file.cells) \in Nat
      BY ListIs DEF IInv, ReaderInv
    <3> QED  BY <1>1, <2>1, <3>1
  <2>3. rd.cell = 0
    BY <1>1 DEF ReadInv
  <2>4. \A i \in 1..Len(mem.cells) : ~Begun(0, "add", i) /\ ~Begun(1, "cell", i)
    BY DEF Begun
  <2>5. PropsRead(mem, file, 1, "cell")
    BY <2>1, <2>3, <2>4 DEF PropsRead
  <2> QED  BY <2>1, <2>2, <2>5
<1> QED  BY <1>1, <1>3, <1>4, <1>5 DEF FreshInv

\* A cell is put behind the others, or nothing happens to the layout.
LEMMA TypedAdded ==
  ASSUME NEW m, IsLayout(m), Typed(m), NEW name, NEW n, n = [m EXCEPT !.cells = Append(@, NewCell(name))]
  PROVE  Typed(n) /\ n.dbu = m.dbu /\ n.libname = m.libname /\ n.prop = m.prop
<1>1. PICK cell : cell = NewCell(name)
  OBVIOUS
<1>2. Grows(m, n, 0) /\ Len(n.cells) = Len(m.cells) + 1 /\ n.cells[Len(m.cells) + 1] = cell
  BY <1>1, CellAdded
<1>3. n.layers = m.layers /\ n.dbu = m.dbu /\ n.libname = m.libname /\ n.prop = m.prop
  BY DEF IsLayout
<1>4. Len(m.cells) \in Nat
  BY ListIs DEF IsLayout
<1>5. \A i \in 1..Len(n.cells) : (i \in 1..Len(m.cells) /\ n.cells[i] = m.cells[i]) \/ n.cells[i] = cell
  BY <1>2, <1>4 DEF Grows, Extends
<1>6. TypedCell(cell)
  <2>1. Len(<<>>) = 0
    OBVIOUS
  <2> QED  BY <1>1, <2>1 DEF NewCell, TypedCell
<1> QED  BY <1>3, <1>5, <1>6 DEF Typed

LEMMA AddedFresh ==
  ASSUME NEW m, IsLayout(m), NEW f, IsList(f.cells), AreDistinct(f.cells), NEW names, NamesRead(m, f, names),
         NEW k, k \in 1..Len(f.cells), Len(m.cells) = k - 1, NEW x, x = f.cells[k].name, PropsRead(m, f, 0, "add"),
         NEW n, n = [m EXCEPT !.cells = Append(@, NewCell(x))]
  PROVE  /\ Len(n.cells) = k /\ x \notin CellNames(m)
         /\ NamesRead(n, f, Extended(names, x, k)) /\ PropsRead(n, f, 0, "add")
<1>1. PICK cell : cell = NewCell(x)
  OBVIOUS
<1>2. Grows(m, n, 0) /\ Len(n.cells) = Len(m.cells) + 1 /\ n.cells[Len(m.cells) + 1] = cell
  BY <1>1, CellAdded
<1>3. Len(n.cells) = k /\ n.cells[k] = cell /\ \A i \in 1..Len(m.cells) : n.cells[i] = m.cells[i]
  BY <1>2 DEF Grows, Extends
<1>4. \A i \in 1..k : i \in 1..Len(m.cells) \/ i = k
  OBVIOUS
<1>5. \A i \in 1..Len(m.cells) : i # k /\ f.cells[i].name # x
  BY DEF NamesRead, AreDistinct
<1>6. x \notin CellNames(m)
  <2>1. DOMAIN m.cells = 1..Len(m.cells)
    BY ListIs DEF IsLayout
  <2> QED  BY <1>5, <2>1 DEF CellNames, NamesRead
<1>7. cell.name = x /\ cell.prop = {} /\ Single(cell)
  <2>1. cell.insts = <<>> /\ Len(<<>>) = 0
    BY <1>1 DEF NewCell
  <2> QED  BY <1>1, <2>1 DEF NewCell, Single
<1>8. PICK g : g = Extended(names, x, k)
  OBVIOUS
<1>9. x \in DOMAIN g /\ g[x] = k /\ \A y \in DOMAIN names : y \in DOMAIN g /\ (y # x => g[y] = names[y])
  BY <1>8 DEF Extended
<1>10. NamesRead(n, f, g)
  BY <1>3, <1>4, <1>5, <1>7, <1>9 DEF NamesRead
<1>11. PropsRead(n, f, 0, "add")
  <2>1. \A i \in 1..k : ~Begun(0, "add", i)
    BY DEF Begun
  <2> QED  BY <1>3, <1>4, <1>7, <2>1 DEF PropsRead
<1> QED  BY <1>3, <1>6, <1>8, <1>10, <1>11

LEMMA AddCellTyped == ASSUME IInv, ReadInv, TypeInv, FreshInv, AddCell PROVE TypeInv' /\ FreshInv'
<1>1. PICK x, k : x = file.cells[rd.k].name /\ k = rd.k
  OBVIOUS
<1>2. rd.at = "add" /\ rd.k <= Len(file.cells) /\ file' = file
  BY DEF AddCell
<1>3. rd = [at |-> "add", fresh |-> rd.fresh, cell |-> 0, k |-> rd.k, names |-> rd.names, layers |-> rd.layers]
  BY <1>2 DEF IInv, ReaderInv, ReadInv
<1>4. k \in 1..Len(file.cells) /\ IsLayout(mem) /\ IsList(file.cells) /\ AreDistinct(file.cells)
  <2>1. rd.k \in Nat \ {0} /\ Len(file.cells) \in Nat
    BY <1>2, ListIs DEF IInv, AddInv
  <2> QED  BY <1>1, <1>2, <2>1 DEF IInv, ReadInv, FileOK
<1>5. PICK i, name :
        /\ rd' = [rd EXCEPT !.k = @ + 1, !.names = Extended(@, x, i)]
        /\ x \notin CellNames(mem) => name = x /\ i = Len(mem.cells) + 1
        /\ \/ mem' = [mem EXCEPT !.cells = Append(@, NewCell(name))]
           \/ x \in CellNames(mem) /\ mem' = mem
  BY <1>1 DEF AddCell
<1>6. PICK names, l : names = Extended(rd.names, x, i) /\ l = k + 1
  OBVIOUS
<1>7. rd'.at = "add" /\ rd'.fresh = rd.fresh /\ rd'.names = names /\ rd'.cell = 0 /\ rd'.k = l
  <2>1. rd' = [rd EXCEPT !.k = l, !.names = names]
    BY <1>1, <1>5, <1>6
  <2> QED  BY <1>3, <2>1
<1>8. TypeInv'
  <2>1. PICK n : n = mem'
    OBVIOUS
  <2>2. Typed(n)
    BY <1>4, <1>5, <2>1, TypedAdded DEF TypeInv
  <2> QED  BY <1>2, <2>1, <2>2 DEF TypeInv
<1>9. ASSUME rd.fresh
      PROVE  /\ file.cells # <<>>
             /\ mem'.dbu = FirstDbu /\ mem'.libname = file.name /\ mem'.prop = PropertiesIdFromCore(file.prop)
             /\ NamesRead(mem', file, names) /\ PropsRead(mem', file, 0, "add")
             /\ Len(mem'.cells) = k
  <2>1. PICK m : m = mem
    OBVIOUS
  <2>2. /\ file.cells # <<>>
        /\ m.dbu = FirstDbu /\ m.libname = file.name /\ m.prop = PropertiesIdFromCore(file.prop)
        /\ NamesRead(m, file, rd.names) /\ PropsRead(m, file, 0, "add") /\ Len(m.cells) = k - 1
    <3>1. rd.cell = 0
      BY <1>2 DEF ReadInv
    <3> QED  BY <1>1, <1>2, <1>9, <2>1, <3>1 DEF FreshInv
  <2>3. PICK n : n = [m EXCEPT !.cells = Append(@, NewCell(x))]
    OBVIOUS
  <2>4. /\ Len(n.cells) = k /\ x \notin CellNames(m)
        /\ NamesRead(n, file, Extended(rd.names, x, k)) /\ PropsRead(n, file, 0, "add")
    BY <1>1, <1>4, <2>1, <2>2, <2>3, AddedFresh
  <2>5. name = x /\ i = k /\ mem' = n
    BY <1>4, <1>5, <2>1, <2>2, <2>3, <2>4
  <2>6. n.dbu = m.dbu /\ n.libname = m.libname /\ n.prop = m.prop
    BY <1>4, <2>1, <2>3, TypedAdded DEF TypeInv
  <2> QED  BY <1>6, <2>2, <2>4, <2>5, <2>6
<1>10. FirstDbu' = FirstDbu
  BY <1>2 DEF FirstDbu
<1>11. l - 1 = k /\ l <= Len(file.cells) + 1
  BY <1>4, <1>6
<1> QED  BY <1>2, <1>7, <1>8, <1>9, <1>10, <1>11 DEF FreshInv

\* The begin of a read.
LEMMA TypedTarget == ASSUME Typed(mem), NEW fresh PROVE Typed(IF fresh THEN EmptyLayout ELSE mem)
<1>1. Typed(EmptyLayout)
  <2>1. EmptyLayout.cells = <<>> /\ EmptyLayout.layers = <<>> /\ Len(<<>>) = 0
    BY DEF EmptyLayout, NoLayout
  <2> QED  BY <2>1 DEF Typed
<1> QED  BY <1>1

LEMMA ReadNoCellsTyped == ASSUME TypeInv, NEW fresh, ReadNoCells(fresh) PROVE TypeInv' /\ FreshInv'
<1>1. PICK target : target = IF fresh THEN EmptyLayout ELSE mem
  OBVIOUS
<1>2. mem' = target /\ file' = file /\ rd' = [NotReading EXCEPT !.at = "done", !.fresh = fresh] /\ file.cells = <<>>
  BY <1>1 DEF ReadNoCells
<1>3. rd'.fresh = fresh /\ rd'.at = "done"
  BY <1>2 DEF NotReading
<1>4. Typed(target)
  BY <1>1, TypedTarget DEF TypeInv
<1> QED  BY <1>1, <1>2, <1>3, <1>4 DEF TypeInv, FreshInv

LEMMA ReadHeaderTyped == ASSUME IInv, TypeInv, NEW fresh, ReadHeader(fresh) PROVE TypeInv' /\ FreshInv'
<1>1. PICK target : target = IF fresh THEN EmptyLayout ELSE mem
  OBVIOUS
<1>2. PICK lib : lib = IF file.name = "" THEN target.libname ELSE file.name
  OBVIOUS
<1>3. PICK named : named = [target EXCEPT !.dbu = FirstDbu, !.libname = lib]
  OBVIOUS
<1>4. PICK prop : prop = IF PropertiesIdFromCore(file.prop) = {} THEN named.prop ELSE PropertiesIdFromCore(file.prop)
  OBVIOUS
<1>5. /\ file' = file /\ file.cells # <<>>
      /\ \/ mem' = named /\ rd' = [NotReading EXCEPT !.at = "failed", !.fresh = fresh]
         \/ mem' = [named EXCEPT !.prop = prop] /\ rd' = [NotReading EXCEPT !.at = "add", !.fresh = fresh, !.k = 1]
  BY <1>1, <1>2, <1>3, <1>4 DEF ReadHeader
<1>6. IsLayout(target) /\ Typed(target)
  BY <1>1, TargetIs, TypedTarget DEF IInv, TypeInv
<1>7. named = [dbu |-> FirstDbu, libname |-> lib, prop |-> target.prop, layers |-> target.layers, cells |-> target.cells]
  <2>1. PICK d : d = FirstDbu
    OBVIOUS
  <2>2. named = [target EXCEPT !.dbu = d, !.libname = lib]
    BY <1>3, <2>1
  <2> QED  BY <1>6, <2>1, <2>2 DEF IsLayout
<1>8. [named EXCEPT !.prop = prop] =
        [dbu |-> FirstDbu, libname |-> lib, prop |-> prop, layers |-> target.layers, cells |-> target.cells]
  BY <1>7
<1>9. mem'.layers = target.layers /\ mem'.cells = target.cells
  BY <1>5, <1>7, <1>8
<1>10. TypeInv'
  BY <1>5, <1>6, <1>9 DEF TypeInv, Typed
<1>11. CASE rd' = [NotReading EXCEPT !.at = "failed", !.fresh = fresh]
  <2>1. rd'.at = "failed"
    BY <1>11 DEF NotReading
  <2> QED  BY <1>10, <2>1 DEF FreshInv
<1>12. CASE mem' = [named EXCEPT !.prop = prop] /\ rd' = [NotReading EXCEPT !.at = "add", !.fresh = fresh, !.k = 1]
  <2>1. rd'.at = "add" /\ rd'.fresh = fresh /\ rd'.k = 1 /\ rd'.names = EmptyMap /\ rd'.cell = 0
    BY <1>12 DEF NotReading
  <2>2. ASSUME fresh
        PROVE  /\ mem'.dbu = FirstDbu /\ mem'.libname = file.name /\ mem'.prop = PropertiesIdFromCore(file.prop)
               /\ mem'.cells = <<>>
    <3>1. target.libname = "" /\ target.prop = {} /\ target.cells = <<>>
      BY <1>1, <2>2 DEF EmptyLayout, NoLayout
    <3>2. lib = file.name /\ prop = PropertiesIdFromCore(file.prop)
      BY <1>2, <1>4, <1>7, <3>1
    <3> QED  BY <1>8, <1>12, <3>1, <3>2
  <2>3. ASSUME fresh
        PROVE  /\ NamesRead(mem', file, EmptyMap) /\ PropsRead(mem', file, 0, "add") /\ Len(mem'.cells) = 1 - 1
               /\ 1 <= Len(file.cells) + 1
    <3>1. Len(mem'.cells) = 0
      <4>1. Len(<<>>) = 0
        OBVIOUS
      <4> QED  BY <2>2, <2>3, <4>1
    <3>2. Len(file.cells) \in Nat
      BY ListIs DEF IInv
    <3> QED  BY <3>1, <3>2 DEF NamesRead, PropsRead
  <2>4. FirstDbu' = FirstDbu
    BY <1>5 DEF FirstDbu
  <2> QED  BY <1>5, <1>10, <2>1, <2>2, <2>3, <2>4 DEF FreshInv
<1> QED  BY <1>5, <1>11, <1>12

LEMMA PlaceWritten ==
  ASSUME NEW m, NEW cell, TypedCell(cell), NEW e, IsElement(m, cell, e)
  PROVE  InstanceWritten(e).at \in Int
<1>1. PICK j \in 1..Len(cell.insts) : \E x \in 1..ElementsWritten(m, cell.insts[j]) : e.at = cell.insts[j].at + x - 1
  BY DEF IsElement
<1>2. cell.insts[j].at \in Int
  BY <1>1 DEF TypedCell
<1>3. PICK x : x \in Int /\ e.at = cell.insts[j].at + x - 1
  BY <1>1
<1>4. e.at \in Int
  BY <1>2, <1>3
<1> QED  BY <1>4 DEF InstanceWritten

\* What is written to a file.
LEMMA TypedWritten == ASSUME NEW m, IsDatabase(m), NEW f, f = FileOf(m) PROVE TypedFile(f)
<1>1. PICK t : t = f.cells
  OBVIOUS
<1>2. PICK r : r = Named(m.cells)
  OBVIOUS
<1>a. t = [i \in DOMAIN r |-> WriteCell(m, r[i])]
  BY <1>1, <1>2 DEF FileOf
<1>3. FileOK(f) /\ Len(t) = Len(r)
  <2>1. IsLayout(m) /\ CellsOK(m) /\ f.cells = [i \in DOMAIN r |-> WriteCell(m, r[i])]
    BY <1>1, <1>a DEF IsDatabase
  <2>2. FileOK(f) /\ Len(f.cells) = Len(r)
    BY ONLY <1>2, <2>1, SavedFileOK
  <2> QED  BY <1>1, <2>2
<1>4. ASSUME NEW i \in 1..Len(t), NEW c, c = t[i]
      PROVE  /\ \A j \in 1..Len(c.shapes) : c.shapes[j].kind \in FileKinds
             /\ HaveNumbers(c.layers)
             /\ \A j \in 1..Len(c.insts) : c.insts[j].at \in Int
  <2>0. IsLayout(m) /\ IsList(m.cells) /\ IsList(r)
    BY <1>2, NamedIsList DEF IsDatabase, IsLayout
  <2>1. i \in DOMAIN r /\ i \in 1..Len(r)
    BY <1>3, <2>0, ListIs
  <2>k. PICK z \in 1..Len(m.cells) : r[i] = m.cells[z]
    BY <1>2, <2>0, <2>1, NamedIsOne
  <2>2. PICK cell : cell = m.cells[z]
    OBVIOUS
  <2>3. c = WriteCell(m, cell)
    BY <1>a, <1>4, <2>1, <2>2, <2>k
  <2>4. CellOK(cell, Len(m.layers), Len(m.cells)) /\ TypedCell(cell)
    BY <2>2 DEF IsDatabase, CellsOK, Typed
  <2>5. IsList(c.shapes)
    BY <1>1, <1>3, <1>4 DEF FileOK
  <2>6. \A j \in 1..Len(c.shapes) : c.shapes[j].kind \in FileKinds
    <3>1. \A j \in DOMAIN WriteCell(m, cell).shapes : WriteCell(m, cell).shapes[j].kind \in InFile
      BY <2>0, <2>4, FileShapesAre DEF CellOK
    <3>2. \A j \in 1..Len(c.shapes) : c.shapes[j].kind \in InFile
      BY <2>3, <2>5, <3>1, ListIs
    <3> QED  BY <3>2 DEF InFile, Drawn, FileKinds
  <2>7. HaveNumbers(c.layers)
    <3>1. PICK v : v = ViewLayers(m)
      OBVIOUS
    <3>2. c.layers = v
      BY <2>3, <3>1 DEF WriteCell
    <3>3. \A j \in DOMAIN v : \E l \in 1..Len(m.layers) : v[j].ld = LayerKey(m.layers[l].ld)
      BY <2>0, <3>1, ViewLayersAre
    <3>4. \A l \in 1..Len(m.layers) : LayerKey(m.layers[l].ld) \in Int \X Int
      BY KeyIs DEF IsDatabase, Typed
    <3> QED  BY <3>2, <3>3, <3>4 DEF HaveNumbers
  <2>8. \A j \in 1..Len(c.insts) : c.insts[j].at \in Int
    <3>1. PICK w, e : w = WriteInstances(m, cell) /\ e = InstancesIn(m, cell)
      OBVIOUS
    <3>2. c.insts = w
      BY <2>3, <3>1 DEF WriteCell
    <3>3. Len(w) = Len(e) /\ \A k \in 1..Len(e) : IsElement(m, cell, e[k]) /\ w[k] = InstanceWritten(e[k])
      BY <2>4, <3>1, InstancesWritten DEF CellOK
    <3>4. ASSUME NEW k \in 1..Len(e) PROVE w[k].at \in Int
      <4>1. IsElement(m, cell, e[k]) /\ w[k] = InstanceWritten(e[k])
        BY <3>3
      <4>2. InstanceWritten(e[k]).at \in Int
        BY ONLY <2>4, <4>1, PlaceWritten
      <4> QED  BY <4>1, <4>2
    <3> QED  BY <3>2, <3>3, <3>4
  <2> QED  BY <2>6, <2>7, <2>8
<1> QED  BY <1>1, <1>4 DEF TypedFile

\* What is saved is the layout as it is after it.
LEMMA SavedIs ==
  ASSUME IInv, ReadInv, TypeInv, NEW option, NEW stem, Save(option, stem)
  PROVE  \E m : /\ m = mem' /\ saved' = m /\ file' = FileOf(m) /\ IsDatabase(m)
                /\ m.dbu = mem.dbu /\ m.prop = mem.prop /\ m.cells = mem.cells /\ m.layers = mem.layers
<1>1. PICK name : name = ResolveLibName(mem, option, stem)
  OBVIOUS
<1>2. PICK m : m = mem'
  OBVIOUS
<1>3. m = [mem EXCEPT !.libname = name] /\ saved' = m /\ file' = FileOf(m)
  BY <1>1, <1>2 DEF Save
<1>4. Alike(mem, m) /\ m.dbu = mem.dbu /\ m.prop = mem.prop
  BY <1>3, HeaderReplaced DEF IInv, IsLayout
<1>5. Typed(m)
  BY <1>4 DEF TypeInv, Typed, Alike
<1>6. IsLayout(m) /\ CellsOK(m)
  BY <1>4, AlikeOK DEF ReadInv, Alike
<1> QED  BY <1>2, <1>3, <1>4, <1>5, <1>6 DEF IsDatabase, Alike

LEMMA SaveTyped ==
  ASSUME IInv, ReadInv, TypeInv, NEW option, NEW stem, Save(option, stem) PROVE TypeInv' /\ FreshInv'
<1>1. PICK m : m = mem' /\ file' = FileOf(m) /\ IsDatabase(m)
  BY SavedIs
<1>2. PICK f : f = FileOf(m)
  OBVIOUS
<1>3. Typed(m) /\ TypedFile(f)
  BY <1>1, <1>2, TypedWritten DEF IsDatabase
<1>4. rd'.at = "idle"
  BY DEF Save, NotReading
<1> QED  BY <1>1, <1>2, <1>3, <1>4 DEF TypeInv, FreshInv

LEMMA InitTyped == Init => TypeInv /\ FreshInv
<1> SUFFICES ASSUME Init PROVE TypeInv /\ FreshInv
  OBVIOUS
<1>1. PICK start \in Starts : mem = start.mem /\ file = start.file
  BY DEF Init
<1>2. /\ IsTable(mem.layers) /\ HaveNumbers(mem.layers) /\ IsTable(mem.cells)
      /\ \A i \in DOMAIN mem.cells : IsCellOf(mem, mem.cells[i])
  BY <1>1, StartsAssumption
<1>3. /\ IsTable(file.cells)
      /\ \A i \in DOMAIN file.cells :
           /\ IsTable(file.cells[i].shapes) /\ \A j \in DOMAIN file.cells[i].shapes : file.cells[i].shapes[j].kind \in FileKinds
           /\ HaveNumbers(file.cells[i].layers)
           /\ IsTable(file.cells[i].insts) /\ \A j \in DOMAIN file.cells[i].insts : file.cells[i].insts[j].at \in Int
  BY <1>1, StartsAssumption
<1>4. \A s : IsTable(s) => DOMAIN s = 1..Len(s)
  BY ListIs DEF IsTable, IsList
<1>5. Typed(mem)
  BY <1>2, <1>4 DEF HaveNumbers, IsCellOf, Typed, TypedCell
<1>6. TypedFile(file)
  BY <1>3, <1>4 DEF TypedFile
<1>7. rd.at = "idle"
  BY DEF Init, NotReading
<1> QED  BY <1>5, <1>6, <1>7 DEF TypeInv, FreshInv

-----------------------------------------------------------------------------
(* A file that this writer wrote, and what is read from it                 *)

HasNames(S) == \A p \in S : p[1].text # NoText

\* What a layout is that was loaded from a file of ours.
LoadedCell(s, c) ==
  /\ HasNames(c.prop)
  /\ \A j \in 1..Len(c.shapes) :
       LET x == c.shapes[j] IN
       /\ x.kind \in FromFile /\ IsWritten(s.layers[x.layer])
       /\ LayerKey(s.layers[x.layer].ld) = s.layers[x.layer].ld /\ HasNames(x.prop)
  /\ \A j \in 1..Len(c.insts) : FpTrans(c.insts[j].rot) = c.insts[j].rot /\ HasNames(c.insts[j].prop)
Loaded(s) ==
  /\ s.cells = <<>> => s.dbu = 1000
  /\ \A i \in 1..Len(s.cells) : s.cells[i].name # NoName
  /\ \A i \in 1..Len(s.cells) : LoadedCell(s, s.cells[i])

SavedInv == FromOurFile => IsDatabase(saved) /\ file = FileOf(saved) /\ (rounds > 0 => Loaded(saved))

\* A layout whose properties are settled is the same after a further round.
LEMMA SettledKept == ASSUME NEW S, HasNames(S), \A p \in S : Settled(p) PROVE Back(S) = S
<1>1. \A p \in S : Kept(p)
  BY DEF HasNames, Settled, Kept
<1> QED  BY <1>1, KeptBack

LEMMA SettledExact ==
  ASSUME NEW s, IsDatabase(s), Loaded(s), AllSettled(s), NEW kinds, kinds = Kinds \ {"polygon without points"}
  PROVE  Exact(s, kinds)
<1>a. (\A kind \in FromFile : kind \in kinds => kind \in Drawn) /\ Drawn \subseteq kinds
  BY DEF FromFile, Drawn, Kinds, Visited
<1> SUFFICES ASSUME NEW i \in 1..Len(s.cells), NEW c, c = s.cells[i] PROVE ExactCell(s, c, kinds)
  BY <1>a DEF Exact
<1>1. LoadedCell(s, c)
  <2>1. i \in 1..Len(s.cells) /\ Loaded(s)
    OBVIOUS
  <2>2. LoadedCell(s, s.cells[i])
    BY ONLY <2>1 DEF Loaded
  <2> QED  BY <2>2
<1>2. IsLayout(s) /\ CellOK(c, Len(s.layers), Len(s.cells))
  BY DEF IsDatabase, CellsOK
<1>3. i \in DOMAIN s.cells /\ DOMAIN c.shapes = 1..Len(c.shapes) /\ DOMAIN c.insts = 1..Len(c.insts)
  BY <1>2, ListIs DEF IsLayout, CellOK
<1>4. /\ \A p \in c.prop : Settled(p)
      /\ \A j \in 1..Len(c.shapes) : \A p \in c.shapes[j].prop : Settled(p)
      /\ \A j \in 1..Len(c.insts) : \A p \in c.insts[j].prop : Settled(p)
  BY <1>3 DEF AllSettled
<1>5. Back(c.prop) = c.prop
  BY <1>1, <1>4, SettledKept DEF LoadedCell
<1>6. ASSUME NEW j \in 1..Len(c.shapes), NEW x, x = c.shapes[j]
      PROVE  /\ x.kind \in FromFile /\ IsWritten(s.layers[x.layer])
             /\ LayerKey(s.layers[x.layer].ld) = s.layers[x.layer].ld /\ Back(x.prop) = x.prop
  <2>1. /\ x.kind \in FromFile /\ IsWritten(s.layers[x.layer])
        /\ LayerKey(s.layers[x.layer].ld) = s.layers[x.layer].ld /\ HasNames(x.prop)
    BY <1>1, <1>6 DEF LoadedCell
  <2>2. \A p \in x.prop : Settled(p)
    BY <1>4, <1>6
  <2> QED  BY <2>1, <2>2, SettledKept
<1>7. ASSUME NEW j \in 1..Len(c.insts), NEW x, x = c.insts[j]
      PROVE  FpTrans(x.rot) = x.rot /\ Back(x.prop) = x.prop
  <2>1. FpTrans(x.rot) = x.rot /\ HasNames(x.prop)
    BY <1>1, <1>7 DEF LoadedCell
  <2>2. \A p \in x.prop : Settled(p)
    BY <1>4, <1>7
  <2> QED  BY <2>1, <2>2, SettledKept
<1> QED  BY <1>a, <1>5, <1>6, <1>7 DEF ExactCell

\* The database unit of a file of ours.
LEMMA OurDbu ==
  ASSUME NEW m, NEW r, r = Named(m.cells), IsList(r), 1 \in 1..Len(r), UnitKept(m), file = FileOf(m)
  PROVE  FirstDbu = m.dbu
<1>1. PICK t, u : t = file.cells /\ u = DbuPerMicron(m)
  OBVIOUS
<1>2. t = [i \in DOMAIN r |-> WriteCell(m, r[i])]
  BY <1>1 DEF FileOf
<1>3. \A i \in DOMAIN t : t[i].layout /\ t[i].dbu = u
  BY <1>1, <1>2 DEF WriteCell
<1>4. DOMAIN t = 1..Len(r) /\ 1 \in DOMAIN t /\ Len(r) \in Nat
  BY <1>2, ListIs
<1>5. u = Reciprocal(m.dbu) /\ u > 0 /\ Reciprocal(u) = m.dbu
  BY <1>1 DEF DbuPerMicron, UnitKept
<1>6. PICK given : given = {i \in DOMAIN t : t[i].layout /\ t[i].dbu > 0}
  OBVIOUS
<1>7. PICK k : k = CHOOSE i \in given : \A j \in given : i <= j
  OBVIOUS
<1>8. FirstDbu = Reciprocal(IF given = {} THEN 1000 ELSE t[k].dbu)
  BY <1>1, <1>6, <1>7 DEF FirstDbu
<1>9. 1 \in given /\ \A j \in given : 1 <= j
  BY <1>3, <1>4, <1>5, <1>6
<1>10. k \in given
  BY <1>7, <1>9
<1>11. t[k].dbu = u /\ given # {}
  BY <1>3, <1>6, <1>9, <1>10
<1> QED  BY <1>5, <1>8, <1>11

LEMMA NamesBack == ASSUME NEW S, NEW T, S = Back(T) PROVE HasNames(S)
BY LoadedNamed DEF Back, HasNames

LEMMA ShapesComeBack ==
  ASSUME NEW s, IsDatabase(s), NEW d, CellOK(d, Len(s.layers), Len(s.cells)),
         NEW m, NEW c, IsList(c.shapes), ShapesIn(m, c) = FileShapes(WriteCell(s, d)),
         NEW all, all = FlattenSeq(ShapesByLayer(s, d))
  PROVE  /\ DOMAIN c.shapes = DOMAIN all /\ \A k \in DOMAIN all : ShapesIn(m, c)[k] = ShapeBack(s, all[k])
         /\ \A j \in 1..Len(c.shapes) :
              LET x == c.shapes[j] IN
              /\ x.kind \in FromFile /\ IsWritten(m.layers[x.layer])
              /\ LayerKey(m.layers[x.layer].ld) = m.layers[x.layer].ld /\ HasNames(x.prop)
<1>1. PICK f : f = ShapesIn(m, c)
  OBVIOUS
<1>2. /\ IsLayout(s) /\ IsList(d.shapes) /\ \A j \in 1..Len(d.shapes) : d.shapes[j].layer \in 1..Len(s.layers)
  BY DEF IsDatabase, CellOK
<1>3. DOMAIN f = DOMAIN all /\ \A k \in DOMAIN all : f[k] = ShapeBack(s, all[k])
  <2>1. f = FileShapes(WriteCell(s, d))
    BY <1>1
  <2>2. ShapesBack(s, all, f)
    BY <1>2, <2>1, FileShapesAre
  <2> QED  BY <2>2 DEF ShapesBack
<1>4. DOMAIN f = DOMAIN c.shapes
  BY <1>1 DEF ShapesIn
<1>5. IsList(all) /\ DOMAIN all = 1..Len(all) /\ DOMAIN c.shapes = 1..Len(c.shapes)
  BY <1>2, WriteShapesIs, ListIs
<1>6. ASSUME NEW j \in 1..Len(c.shapes), NEW y, y = c.shapes[j]
      PROVE  /\ y.kind \in FromFile /\ IsWritten(m.layers[y.layer])
             /\ LayerKey(m.layers[y.layer].ld) = m.layers[y.layer].ld /\ HasNames(y.prop)
  <2>1. j \in DOMAIN all /\ j \in DOMAIN c.shapes /\ j \in 1..Len(all)
    BY <1>3, <1>4, <1>5
  <2>2. PICK x : x = all[j]
    OBVIOUS
  <2>3. PICK i \in Seen(s, d) : x = d.shapes[i]
    BY <1>2, <2>1, <2>2, WrittenIsSeen
  <2>4. x.kind \in Written /\ i \in 1..Len(d.shapes)
    BY <2>3 DEF Seen
  <2>5. PICK ld : ld = s.layers[x.layer].ld
    OBVIOUS
  <2>6. ld \in Int \X Int
    BY <1>2, <2>3, <2>4, <2>5 DEF IsDatabase, Typed
  <2>7. f[j] = [ld |-> m.layers[y.layer].ld, kind |-> y.kind, prop |-> y.prop]
    BY <1>1, <1>6, <2>1 DEF ShapesIn
  <2>8. f[j] = [ld |-> LayerKey(ld), kind |-> ReadAs(WrittenAs(x.kind)), prop |-> Back(x.prop)]
    BY <1>3, <2>1, <2>2, <2>5 DEF ShapeBack
  <2>9. m.layers[y.layer].ld = LayerKey(ld) /\ y.kind = ReadAs(WrittenAs(x.kind)) /\ y.prop = Back(x.prop)
    BY <2>7, <2>8
  <2>10. LayerKey(ld)[1] >= 0 /\ LayerKey(ld)[2] >= 0 /\ LayerKey(LayerKey(ld)) = LayerKey(ld)
    BY <2>6, KeyIs
  <2>11. y.kind \in FromFile
    BY <2>4, <2>9, KindsWritten
  <2> QED  BY <2>9, <2>10, <2>11, NamesBack DEF IsWritten
<1> QED  BY <1>1, <1>3, <1>4, <1>6

LEMMA TransBack == ASSUME NEW rot PROVE FpTrans(FpTrans(rot)) = FpTrans(rot)
BY DEF FpTrans

\* The names of s are those of the cells of m, in the places that the file has them.
SamePlaces(m, s, names) ==
  \A i \in 1..Len(Named(s.cells)) :
    LET name == Named(s.cells)[i].name
    IN  name \in DOMAIN names /\ names[name] = i /\ m.cells[i].name = name

LEMMA PlacesOf ==
  ASSUME NEW s, IsLayout(s), NEW m, NEW names, SamePlaces(m, s, names),
         NEW j, j \in 1..Len(s.cells), NEW name, name = s.cells[j].name, name # NoName
  PROVE  name \in DOMAIN names /\ m.cells[names[name]].name = name
<1>1. PICK r : r = Named(s.cells)
  OBVIOUS
<1>2. PICK i \in 1..Len(r) : r[i] = s.cells[j]
  BY <1>1, NamedIsThere DEF IsLayout
<1> QED  BY <1>1, <1>2 DEF SamePlaces

ElementsBack(e, g) == IsList(g) /\ DOMAIN g = DOMAIN e /\ \A k \in DOMAIN e : g[k] = ElementBack(e[k])

LEMMA InstancesComeBack ==
  ASSUME NEW s, IsLayout(s), NEW d, CellOK(d, Len(s.layers), Len(s.cells)), NEW m, NEW names, SamePlaces(m, s, names),
         NEW c, IsList(c.insts), TypedCell(c), Single(c), CellInstances(c) = FileInstances(WriteCell(s, d), names),
         \A j \in 1..Len(c.insts) : m.cells[c.insts[j].cell].name # NoName
  PROVE  /\ ElementsBack(InstancesIn(s, d), InstancesIn(m, c))
         /\ \A j \in 1..Len(c.insts) : FpTrans(c.insts[j].rot) = c.insts[j].rot /\ HasNames(c.insts[j].prop)
<1>1. PICK e, f, g : e = InstancesIn(s, d) /\ f = CellInstances(c) /\ g = InstancesIn(m, c)
  OBVIOUS
<1>2. /\ IsList(d.insts)
      /\ \A j \in 1..Len(d.insts) : d.insts[j].cell \in 1..Len(s.cells) /\ d.insts[j].n \in Nat
  BY DEF CellOK
<1>3. /\ DOMAIN f = DOMAIN e
      /\ \A k \in DOMAIN e :
           /\ IsElement(s, d, e[k])
           /\ f[k] = [child |-> names[e[k].child], rot |-> FpTrans(e[k].rot), at |-> e[k].at, prop |-> Back(e[k].prop)]
  <2>1. \A j \in 1..Len(d.insts) :
          LET name == s.cells[d.insts[j].cell].name IN name = NoName \/ name \in DOMAIN names
    BY <1>2, PlacesOf
  <2>2. f = FileInstances(WriteCell(s, d), names)
    BY <1>1
  <2> QED  BY <1>1, <1>2, <2>1, <2>2, FileInstancesAre
<1>4. /\ IsList(g) /\ DOMAIN g = DOMAIN c.insts
      /\ \A k \in DOMAIN g : g[k] = [child |-> m.cells[c.insts[k].cell].name, rot |-> c.insts[k].rot,
                                     at |-> c.insts[k].at, prop |-> c.insts[k].prop]
  <2>1. \A i \in 1..Len(c.insts) : c.insts[i].n = 1 /\ c.insts[i].at \in Int
    BY DEF Single, TypedCell
  <2> QED  BY <1>1, <2>1, SinglesAre
<1>5. DOMAIN f = DOMAIN c.insts /\ DOMAIN c.insts = 1..Len(c.insts)
  BY <1>1, ListIs DEF CellInstances
<1>6. ASSUME NEW k \in DOMAIN e, NEW x, x = e[k], NEW y, y = c.insts[k]
      PROVE  /\ m.cells[y.cell].name = x.child /\ y.rot = FpTrans(x.rot) /\ y.at = x.at /\ y.prop = Back(x.prop)
  <2>1. f[k] = [child |-> names[x.child], rot |-> FpTrans(x.rot), at |-> x.at, prop |-> Back(x.prop)] /\ IsElement(s, d, x)
    BY <1>3, <1>6
  <2>2. f[k] = [child |-> y.cell, rot |-> y.rot, at |-> y.at, prop |-> y.prop]
    BY <1>1, <1>3, <1>5, <1>6 DEF CellInstances
  <2>3. y.cell = names[x.child] /\ y.rot = FpTrans(x.rot) /\ y.at = x.at /\ y.prop = Back(x.prop)
    BY <2>1, <2>2
  <2>4. PICK i \in 1..Len(s.cells) : x.child = s.cells[i].name /\ x.child # NoName
    <3>1. PICK j \in 1..Len(d.insts) : \E z \in 1..ElementsWritten(s, d.insts[j]) :
            x = [child |-> s.cells[d.insts[j].cell].name, rot |-> d.insts[j].rot,
                 at |-> d.insts[j].at + z - 1, prop |-> d.insts[j].prop]
      BY <2>1 DEF IsElement
    <3>2. x.child = s.cells[d.insts[j].cell].name
      BY <3>1
    <3>3. x.child # NoName
      BY <3>1, <3>2 DEF ElementsWritten
    <3> QED  BY <1>2, <3>2, <3>3
  <2>5. m.cells[y.cell].name = x.child
    BY <2>3, <2>4, PlacesOf
  <2> QED  BY <2>3, <2>5
<1>7. ASSUME NEW k \in DOMAIN e PROVE g[k] = ElementBack(e[k])
  <2>1. PICK x, y : x = e[k] /\ y = c.insts[k]
    OBVIOUS
  <2>2. m.cells[y.cell].name = x.child /\ y.rot = FpTrans(x.rot) /\ y.at = x.at /\ y.prop = Back(x.prop)
    BY <1>6, <2>1
  <2>3. g[k] = [child |-> m.cells[y.cell].name, rot |-> y.rot, at |-> y.at, prop |-> y.prop]
    BY <1>3, <1>4, <1>5, <2>1
  <2> QED  BY <2>1, <2>2, <2>3 DEF ElementBack
<1>8. ASSUME NEW j \in 1..Len(c.insts) PROVE FpTrans(c.insts[j].rot) = c.insts[j].rot /\ HasNames(c.insts[j].prop)
  <2>1. PICK x, y : x = e[j] /\ y = c.insts[j]
    OBVIOUS
  <2>2. y.rot = FpTrans(x.rot) /\ y.prop = Back(x.prop)
    BY <1>3, <1>5, <1>6, <2>1
  <2> QED  BY <2>1, <2>2, TransBack, NamesBack
<1>9. ElementsBack(e, g)
  BY <1>3, <1>4, <1>5, <1>7 DEF ElementsBack
<1> QED  BY <1>1, <1>8, <1>9

\* A cell that was saved and loaded.
LEMMA CellComesBack ==
  ASSUME NEW s, IsDatabase(s), NEW d, CellOK(d, Len(s.layers), Len(s.cells)), NEW m, NEW names, SamePlaces(m, s, names),
         NEW c, IsList(c.shapes), IsList(c.insts), TypedCell(c), Single(c), c.name = d.name, c.prop = Back(d.prop),
         \A j \in 1..Len(c.insts) : m.cells[c.insts[j].cell].name # NoName,
         ShapesIn(m, c) = FileShapes(WriteCell(s, d)), CellInstances(c) = FileInstances(WriteCell(s, d), names)
  PROVE  CellBack(m, c, s, d) /\ LoadedCell(m, c)
<1>1. PICK all : all = FlattenSeq(ShapesByLayer(s, d))
  OBVIOUS
<1>2. /\ DOMAIN c.shapes = DOMAIN all /\ \A k \in DOMAIN all : ShapesIn(m, c)[k] = ShapeBack(s, all[k])
      /\ \A j \in 1..Len(c.shapes) :
           LET x == c.shapes[j] IN
           /\ x.kind \in FromFile /\ IsWritten(m.layers[x.layer])
           /\ LayerKey(m.layers[x.layer].ld) = m.layers[x.layer].ld /\ HasNames(x.prop)
  BY <1>1, ShapesComeBack
<1>3. PICK e : e = InstancesIn(s, d)
  OBVIOUS
<1>4. /\ IsList(InstancesIn(m, c)) /\ DOMAIN InstancesIn(m, c) = DOMAIN e
      /\ \A k \in DOMAIN e : InstancesIn(m, c)[k] = ElementBack(e[k])
      /\ \A j \in 1..Len(c.insts) : FpTrans(c.insts[j].rot) = c.insts[j].rot /\ HasNames(c.insts[j].prop)
  <2>1. /\ ElementsBack(e, InstancesIn(m, c))
        /\ \A j \in 1..Len(c.insts) : FpTrans(c.insts[j].rot) = c.insts[j].rot /\ HasNames(c.insts[j].prop)
    BY <1>3, InstancesComeBack DEF IsDatabase
  <2> QED  BY <2>1 DEF ElementsBack
<1>5. HasNames(c.prop)
  BY NamesBack
<1>6. CellBack(m, c, s, d)
  BY <1>1, <1>2, <1>3, <1>4 DEF CellBack
<1> QED  BY <1>2, <1>4, <1>5, <1>6 DEF LoadedCell

LEMMA NothingComesBack ==
  ASSUME Inv, TypeInv, FreshInv, SavedInv, LoadedBack, Named(saved.cells) = <<>>
  PROVE  Mirrors(mem, saved) /\ Loaded(mem) /\ mem = EmptyLayout
<1>1. IsDatabase(saved) /\ file = FileOf(saved)
  BY DEF LoadedBack, SavedInv
<1>2. file.cells = <<>>
  <2>1. PICK r : r = Named(saved.cells)
    OBVIOUS
  <2>2. file.cells = [i \in DOMAIN r |-> WriteCell(saved, r[i])]
    BY <1>1, <2>1 DEF FileOf
  <2>3. r = <<>> /\ DOMAIN r = {}
    BY <2>1
  <2> QED  BY <2>2, <2>3
<1>3. mem = EmptyLayout
  BY <1>2 DEF LoadedBack, FreshInv
<1>4. mem.cells = <<>> /\ mem.dbu = 1000 /\ Len(<<>>) = 0
  BY <1>3 DEF EmptyLayout, NoLayout
<1>5. IsDatabase(mem)
  BY DEF Inv, IInv, ReadInv, TypeInv, IsDatabase
<1>6. Mirrors(mem, saved)
  BY <1>1, <1>4, <1>5 DEF Mirrors
<1>7. Loaded(mem)
  BY <1>4 DEF Loaded
<1> QED  BY <1>3, <1>6, <1>7

LEMMA CellsComeBack ==
  ASSUME Inv, TypeInv, FreshInv, SavedInv, LoadedBack, Named(saved.cells) # <<>>
  PROVE  /\ Mirrors(mem, saved) /\ Loaded(mem) /\ mem.libname = saved.libname /\ mem.prop = Back(saved.prop)
         /\ UnitKept(saved) => mem.dbu = saved.dbu
<1>1. IsDatabase(saved) /\ file = FileOf(saved) /\ IsLayout(saved)
  BY DEF LoadedBack, SavedInv, IsDatabase
<1>2. PICK s, m, names, r : s = saved /\ m = mem /\ names = rd.names /\ r = Named(s.cells)
  OBVIOUS
<1>3. PICK t : t = file.cells
  OBVIOUS
<1>4. t = [i \in DOMAIN r |-> WriteCell(s, r[i])]
  BY <1>1, <1>2, <1>3 DEF FileOf
<1>5. IsList(r) /\ DOMAIN r = 1..Len(r) /\ Len(r) \in Nat /\ Len(r) # 0
  <2>1. IsList(r)
    BY <1>1, <1>2, NamedIsList DEF IsLayout
  <2>2. PICK S : r \in Seq(S)
    BY <2>1 DEF IsList
  <2>3. Len(r) # 0
    BY <1>2, <2>2
  <2> QED  BY <2>1, <2>3, ListIs
<1>6. DOMAIN t = 1..Len(r) /\ Len(t) = Len(r) /\ t # <<>>
  <2>1. DOMAIN t = 1..Len(r)
    BY <1>4, <1>5
  <2>2. DOMAIN t = 1..Len(t) /\ Len(t) \in Nat
    BY <1>3, ListIs DEF Inv, IInv
  <2>3. Len(t) = Len(r)
    BY <1>5, <2>1, <2>2
  <2>4. 1 \in DOMAIN t
    BY <1>5, <2>1
  <2> QED  BY <2>1, <2>3, <2>4
<1>7. /\ m.dbu = FirstDbu /\ m.libname = file.name /\ m.prop = PropertiesIdFromCore(file.prop)
      /\ NamesRead(m, file, names) /\ PropsRead(m, file, rd.cell, "done")
      /\ Len(m.cells) = Len(t) /\ rd.cell > Len(t)
  BY <1>2, <1>3, <1>6 DEF LoadedBack, FreshInv
<1>8. rd.cell \in Nat
  BY DEF Inv, IInv, ReaderInv
<1>9. IsDatabase(m)
  BY <1>2 DEF Inv, IInv, ReadInv, TypeInv, IsDatabase
<1>10. SamePlaces(m, s, names)
  <2>1. ASSUME NEW i \in 1..Len(r) PROVE t[i].name = r[i].name
    BY <1>4, <1>5, <2>1 DEF WriteCell
  <2>2. \A i \in 1..Len(r) : r[i].name \in DOMAIN names /\ names[r[i].name] = i /\ m.cells[i].name = r[i].name
    BY <1>3, <1>6, <1>7, <2>1 DEF NamesRead
  <2> QED  BY <1>2, <2>2 DEF SamePlaces
<1>a. ASSUME NEW i \in 1..Len(m.cells)
      PROVE  m.cells[i].name # NoName /\ \E k \in 1..Len(s.cells) : r[i] = s.cells[k]
  <2>1. i \in 1..Len(r) /\ IsList(s.cells)
    BY <1>1, <1>2, <1>6, <1>7 DEF IsLayout
  <2>2. PICK k \in 1..Len(s.cells) : r[i] = s.cells[k] /\ s.cells[k].name # NoName
    BY <1>2, <2>1, NamedIsOne
  <2>3. m.cells[i].name = r[i].name
    BY <1>2, <1>10, <2>1 DEF SamePlaces
  <2> QED  BY <2>2, <2>3
<1>11. ASSUME NEW i \in 1..Len(m.cells), NEW c, c = m.cells[i], NEW d, d = r[i]
       PROVE  CellBack(m, c, s, d) /\ LoadedCell(m, c)
  <2>1. i \in 1..Len(r) /\ i \in DOMAIN t /\ i < rd.cell
    BY <1>5, <1>6, <1>7, <1>8
  <2>2. PICK w : w = WriteCell(s, d)
    OBVIOUS
  <2>3. t[i] = w
    BY <1>4, <1>5, <1>11, <2>1, <2>2
  <2>4. w.layout /\ w.prop = PropertiesFromKLayout(d.prop) /\ w.viewProp = {} /\ w.name = d.name
    BY <2>2 DEF WriteCell
  <2>5. c.prop = Back(d.prop)
    <3>1. Begun(rd.cell, "done", i)
      BY <2>1 DEF Begun
    <3>2. c.prop = CellProps(w)
      BY <1>3, <1>7, <1>11, <2>3, <2>4, <3>1 DEF PropsRead
    <3>3. PropertiesIdFromCore({}) = {}
      BY DEF PropertiesIdFromCore
    <3> QED  BY <2>4, <3>2, <3>3 DEF CellProps, Back
  <2>6. c.name = d.name /\ names[d.name] = i /\ Single(c)
    BY <1>3, <1>7, <1>11, <2>3, <2>4 DEF NamesRead
  <2>7. ShapesIn(m, c) = FileShapes(w) /\ CellInstances(c) = FileInstances(w, names)
    <3>1. ReadSoFar
      BY ReadSoFarIs
    <3>2. rd.cell > 0 /\ rd.at \in {"cell", "shapes", "insts", "done", "failed"}
      BY <1>6, <1>5, <1>7, <1>8 DEF LoadedBack
    <3>3. i \in DOMAIN file.cells /\ file.cells[i] = w
      BY <1>3, <2>1, <2>3
    <3>4. mem.cells[rd.names[file.cells[i].name]] = c
      BY <1>2, <1>11, <2>4, <2>6, <3>3
    <3> QED  BY <1>2, <2>1, <2>4, <3>1, <3>2, <3>3, <3>4 DEF ReadSoFar
  <2>8. CellOK(c, Len(m.layers), Len(m.cells)) /\ TypedCell(c)
    BY <1>9, <1>11 DEF IsDatabase, CellsOK, Typed
  <2>9. CellOK(d, Len(s.layers), Len(s.cells))
    BY <1>1, <1>2, <1>a, <1>11 DEF IsDatabase, CellsOK
  <2>10. IsList(c.shapes) /\ IsList(c.insts)
    BY <2>8 DEF CellOK
  <2>a. \A j \in 1..Len(c.insts) : m.cells[c.insts[j].cell].name # NoName
    BY <1>a, <2>8 DEF CellOK
  <2>11. ShapesIn(m, c) = FileShapes(WriteCell(s, d)) /\ CellInstances(c) = FileInstances(WriteCell(s, d), names)
    BY <2>2, <2>7
  <2>12. IsDatabase(s) /\ TypedCell(c)
    BY <1>1, <1>2, <2>8
  <2> QED  BY ONLY <1>10, <2>5, <2>6, <2>9, <2>10, <2>a, <2>11, <2>12, CellComesBack
<1>12. Mirrors(m, s)
  <2>1. Len(m.cells) = Len(r)
    BY <1>6, <1>7
  <2>2. \A i \in 1..Len(m.cells) : CellBack(m, m.cells[i], s, r[i])
    BY <1>11
  <2> QED  BY <1>1, <1>2, <1>9, <2>1, <2>2 DEF Mirrors
<1>13. UnitKept(s) => FirstDbu = s.dbu
  <2>1. 1 \in 1..Len(r)
    BY <1>5
  <2> QED  BY <1>1, <1>2, <1>5, <2>1, OurDbu
<1>14. m.libname = s.libname /\ m.prop = Back(s.prop)
  <2>1. file.name = s.libname /\ file.prop = PropertiesFromKLayout(s.prop)
    BY <1>1, <1>2 DEF FileOf
  <2> QED  BY <1>7, <2>1 DEF Back
<1>15. Loaded(m)
  <2>1. m.cells # <<>>
    <3>1. Len(<<>>) = 0
      OBVIOUS
    <3> QED  BY <1>5, <1>6, <1>7, <3>1
  <2> QED  BY <1>a, <1>11, <2>1 DEF Loaded
<1> QED  BY <1>2, <1>7, <1>12, <1>13, <1>14, <1>15

LEMMA LoadedIs ==
  ASSUME Inv, TypeInv, FreshInv, SavedInv, LoadedBack
  PROVE  Mirrors(mem, saved) /\ Loaded(mem)
BY NothingComesBack, CellsComeBack

LEMMA LoadedAlike ==
  ASSUME NEW m, NEW n, n.dbu = m.dbu, n.cells = m.cells, n.layers = m.layers, Loaded(m) PROVE Loaded(n)
<1>1. ASSUME NEW i \in 1..Len(n.cells) PROVE LoadedCell(n, n.cells[i]) /\ n.cells[i].name # NoName
  <2>1. LoadedCell(m, n.cells[i]) /\ n.cells[i].name # NoName
    BY DEF Loaded
  <2> QED  BY <2>1 DEF LoadedCell
<1>2. n.cells = <<>> => n.dbu = 1000
  BY DEF Loaded
<1> QED  BY ONLY <1>1, <1>2 DEF Loaded

LEMMA SaveSaved ==
  ASSUME Inv, TypeInv, FreshInv, SavedInv, NEW option, NEW stem, Save(option, stem) PROVE SavedInv'
<1>1. PICK m : /\ m = mem' /\ saved' = m /\ file' = FileOf(m) /\ IsDatabase(m)
               /\ m.dbu = mem.dbu /\ m.prop = mem.prop /\ m.cells = mem.cells /\ m.layers = mem.layers
  BY SavedIs DEF Inv
<1>2. ASSUME rounds' > 0 PROVE Loaded(m)
  <2>1. rounds' = IF LoadedBack THEN rounds + 1 ELSE 0
    BY DEF Save
  <2>2. LoadedBack
    BY <1>2, <2>1
  <2>3. Loaded(mem)
    BY <2>2, LoadedIs
  <2> QED  BY <1>1, <2>3, LoadedAlike
<1> QED  BY <1>1, <1>2 DEF SavedInv

LEMMA OtherSaved == ASSUME SavedInv, saved' = saved, file' = file, rounds' = rounds PROVE SavedInv'
BY DEF SavedInv, FromOurFile

-----------------------------------------------------------------------------
(* The round trip                                                          *)

RoundInv == Inv /\ TypeInv /\ FreshInv /\ SavedInv

LEMMA ReadStepKeeps ==
  ASSUME Inv, TypeInv, FreshInv, ReadStep
  PROVE  TypeInv' /\ FreshInv' /\ saved' = saved /\ file' = file /\ rounds' = rounds
<1>1. IInv /\ ReadInv
  BY DEF Inv
<1>2. CASE AddCell
  BY <1>1, <1>2, AddCellTyped DEF AddCell
<1>3. CASE CellsAdded
  BY <1>1, <1>3, CellsAddedTyped DEF CellsAdded
<1>4. CASE BeginCell
  BY <1>1, <1>4, BeginCellTyped DEF BeginCell
<1>5. CASE ReadShape
  BY <1>1, <1>5, ReadShapeTyped DEF ReadShape
<1>6. CASE ShapesRead
  BY <1>1, <1>6, ShapesReadTyped DEF ShapesRead
<1>7. CASE ReadInstance
  BY <1>1, <1>7, ReadInstanceTyped DEF ReadInstance
<1>8. CASE CellRead
  BY <1>1, <1>8, CellReadTyped DEF CellRead
<1>9. CASE ReadDone
  BY <1>1, <1>9, ReadDoneTyped DEF ReadDone
<1> QED  BY <1>2, <1>3, <1>4, <1>5, <1>6, <1>7, <1>8, <1>9 DEF ReadStep

LEMMA RoundInvHolds == Spec /\ []NumbersLeft => []RoundInv
<1>1. Init => TypeInv /\ FreshInv /\ SavedInv
  <2>1. Init => SavedInv
    BY DEF Init, SavedInv, FromOurFile
  <2> QED  BY <2>1, InitTyped
<1>2. Inv /\ TypeInv /\ FreshInv /\ SavedInv /\ [Next]_vars => (TypeInv /\ FreshInv /\ SavedInv)'
  <2> SUFFICES ASSUME Inv, TypeInv, FreshInv, SavedInv, [Next]_vars PROVE TypeInv' /\ FreshInv' /\ SavedInv'
    OBVIOUS
  <2>1. ASSUME NEW option \in LibNames \cup {""}, NEW stem \in Stems, Save(option, stem)
        PROVE  TypeInv' /\ FreshInv' /\ SavedInv'
    BY <2>1, SaveTyped, SaveSaved DEF Inv
  <2>2. ASSUME NEW fresh \in BOOLEAN, ReadNoCells(fresh) PROVE TypeInv' /\ FreshInv' /\ SavedInv'
    <3>1. saved' = saved /\ file' = file /\ rounds' = rounds
      BY <2>2 DEF ReadNoCells
    <3> QED  BY <2>2, <3>1, ReadNoCellsTyped, OtherSaved
  <2>3. ASSUME NEW fresh \in BOOLEAN, ReadHeader(fresh) PROVE TypeInv' /\ FreshInv' /\ SavedInv'
    <3>1. saved' = saved /\ file' = file /\ rounds' = rounds
      BY <2>3 DEF ReadHeader
    <3> QED  BY <2>3, <3>1, ReadHeaderTyped, OtherSaved DEF Inv
  <2>4. CASE ReadStep
    BY <2>4, ReadStepKeeps, OtherSaved
  <2>5. CASE UNCHANGED vars
    <3>1. mem' = mem /\ file' = file /\ rd' = rd /\ saved' = saved /\ rounds' = rounds
      BY <2>5 DEF vars
    <3>2. TypeInv' /\ SavedInv'
      BY <3>1, OtherSaved DEF TypeInv
    <3>3. FirstDbu' = FirstDbu
      BY <3>1 DEF FirstDbu
    <3> QED  BY <3>1, <3>2, <3>3 DEF FreshInv
  <2> QED  BY <2>1, <2>2, <2>3, <2>4, <2>5 DEF Next
<1> QED  BY <1>1, <1>2, InvHolds, PTL DEF Spec, RoundInv

\* A layout with cells, all of which have names, has named cells.
LEMMA SomeNamed ==
  ASSUME NEW s, IsLayout(s), s.cells # <<>>, \A i \in 1..Len(s.cells) : s.cells[i].name # NoName
  PROVE  Named(s.cells) # <<>>
<1>1. IsList(s.cells)
  BY DEF IsLayout
<1>2. PICK S : s.cells \in Seq(S)
  BY <1>1 DEF IsList
<1>3. 1 \in 1..Len(s.cells)
  <2>1. PICK t : t = s.cells
    OBVIOUS
  <2>2. t \in Seq(S) /\ t # <<>>
    BY <1>2, <2>1
  <2>3. Len(t) \in Nat /\ Len(t) # 0
    BY <2>2
  <2> QED  BY <2>1, <2>3
<1>4. PICK r : r = Named(s.cells)
  OBVIOUS
<1>5. \E k \in 1..Len(r) : r[k] = s.cells[1]
  BY <1>1, <1>3, <1>4, NamedIsThere
<1>6. Len(<<>>) = 0 /\ 1..0 = {}
  OBVIOUS
<1> QED  BY <1>4, <1>5, <1>6

LEMMA RoundTripIs == RoundInv => RoundTripExact
<1> SUFFICES ASSUME Inv, TypeInv, FreshInv, SavedInv, LoadedBack, Representable(saved)
             PROVE  /\ Content(mem, Kinds) = Content(saved, Kinds)
                    /\ mem.dbu = saved.dbu /\ mem.libname = saved.libname /\ mem.prop = saved.prop
  BY DEF RoundInv, RoundTripExact
<1>1. saved.cells # <<>> /\ NoName \notin CellNames(saved) /\ UnitKept(saved)
  BY DEF Representable
<1>2. IsDatabase(saved) /\ IsLayout(saved)
  BY DEF LoadedBack, SavedInv, IsDatabase
<1>3. Named(saved.cells) # <<>>
  <2>1. \A i \in 1..Len(saved.cells) : saved.cells[i].name # NoName
    BY <1>1, <1>2, ListIs DEF CellNames, IsLayout
  <2> QED  BY <1>1, <1>2, <2>1, SomeNamed
<1>4. /\ Mirrors(mem, saved) /\ mem.libname = saved.libname /\ mem.prop = Back(saved.prop) /\ mem.dbu = saved.dbu
  BY <1>1, <1>3, CellsComeBack
<1>5. Exact(saved, Kinds) /\ Back(saved.prop) = saved.prop
  BY <1>2, RepresentableExact
<1>6. Content(mem, Kinds) = Content(saved, Kinds)
  BY <1>4, <1>5, ExactContent
<1> QED  BY <1>4, <1>5, <1>6

\* A layout within the format comes back from its file with every cell, shape,
\* instance and property it had, and the same database unit and library name
\* (coreWriter.cc write, then coreReader.cc do_read into a new layout).
THEOREM RoundTripHolds == Spec /\ []NumbersLeft => []RoundTripExact
BY RoundInvHolds, RoundTripIs, PTL

LEMMA NothingMovedIs == RoundInv => NothingMoved
<1> SUFFICES ASSUME Inv, TypeInv, FreshInv, SavedInv, LoadedBack
             PROVE  /\ CellNames(mem) = RealNames(saved)
                    /\ \A name \in CellNames(mem) :
                         /\ Placed(mem, name) = Placed(saved, name)
                         /\ \A key : NumberOn(mem, name, key, Kinds) = NumberOn(saved, name, key, Kinds \ Lost)
  BY DEF RoundInv, NothingMoved
<1>1. PICK m, s : m = mem /\ s = saved
  OBVIOUS
<1>2. Mirrors(m, s)
  BY <1>1, LoadedIs
<1> QED  BY <1>1, <1>2, MirrorNames, MirrorMovesNothing

\* Whatever layout is saved, also one beyond the format: what comes back has the same
\* cells but those without a name, each with as many shapes on each layer as the
\* writer puts into the file and the same instances of cells with names at the same
\* places.  What is lost is what the guards of the writer turn away (coreWriter.cc:170,
\* 194-195, 227, 240, 264): nameless cells and their instances, edges, polygons and
\* paths without points, and what is on layers without numbers.
THEOREM NothingMovedHolds == Spec /\ []NumbersLeft => []NothingMoved
BY RoundInvHolds, NothingMovedIs, PTL

LEMMA SecondRoundIs == RoundInv => SecondRoundExact
<1> DEFINE kinds == Kinds \ {"polygon without points"}
<1> SUFFICES ASSUME Inv, TypeInv, FreshInv, SavedInv, LoadedBack, rounds > 0, AllSettled(saved)
             PROVE  /\ Content(mem, Kinds) = Content(saved, kinds)
                    /\ UnitKept(saved) => mem.dbu = saved.dbu
  BY DEF RoundInv, SecondRoundExact
<1>1. Loaded(saved) /\ IsDatabase(saved) /\ IsLayout(saved)
  BY DEF LoadedBack, SavedInv, IsDatabase
<1>2. Exact(saved, kinds) /\ Mirrors(mem, saved)
  BY <1>1, SettledExact, LoadedIs
<1>3. Content(mem, Kinds) = Content(saved, kinds)
  <2> HIDE DEF kinds
  <2> QED  BY <1>2, ExactContent
<1>4. ASSUME UnitKept(saved) PROVE mem.dbu = saved.dbu
  <2>1. CASE Named(saved.cells) = <<>>
    <3>1. saved.cells = <<>>
      BY <1>1, <2>1, SomeNamed DEF Loaded
    <3>2. mem = EmptyLayout /\ saved.dbu = 1000
      BY <1>1, <2>1, <3>1, NothingComesBack DEF Loaded
    <3> QED  BY <3>2 DEF EmptyLayout, NoLayout
  <2>2. CASE Named(saved.cells) # <<>>
    BY <1>4, <2>2, CellsComeBack
  <2> QED  BY <2>1, <2>2
<1> QED  BY <1>3, <1>4

\* What the first save and load have changed is nearly all there is: once the
\* properties are settled, a layout that was loaded from our own file is the same after
\* another round, whatever it was at first; gone are only the polygons that the first
\* load has left without points (dbPolygon.h:394, coreWriter.cc:227), and the database
\* unit stays if the two rounded divisions give it back (coreWriter.cc:145,
\* coreReader.cc:199).
THEOREM SecondRoundHolds == Spec /\ []NumbersLeft => []SecondRoundExact
BY RoundInvHolds, SecondRoundIs, PTL

-----------------------------------------------------------------------------
(* Properties settle in two rounds                                         *)

\* What the first round makes of a property.
Once(p) ==
  \/ \E a, n \in Int : InRange(a, -32768, 32767) /\ p = <<Long(a), Long(n)>>
  \/ \E a \in Int, t \in AllTexts : InRange(a, -32768, 32767) /\ Len(t.pre) <= 1 /\ p = <<Long(a), String(t)>>
  \/ \E s, t \in AllTexts : Len(t.pre) <= 2 /\ ~IsAttr(String(s)) /\ p = <<String(s), String(t)>>
OnceProperties == {p \in ShortProperties : Once(p)}
SettledProperties == {p \in ShortProperties : Settled(p)}

LEMMA VariantsMade ==
  /\ \A n \in Int : Long(n) \in Variants /\ Long(n).type = "long" /\ Long(n).text.n = n /\ Long(n).text.pre = <<>>
  /\ \A t \in AllTexts : String(t) \in Variants /\ String(t).type = "string" /\ String(t).text = t
  /\ Len(<<>>) = 0
<1>1. ASSUME NEW n \in Int
      PROVE  Long(n) \in Variants /\ Long(n).type = "long" /\ Long(n).text.n = n /\ Long(n).text.pre = <<>>
  <2>1. PICK v, t : v = Long(n) /\ t = IntText(n)
    OBVIOUS
  <2>2. t = [pre |-> <<>>, kind |-> "int", n |-> n]
    BY <2>1 DEF IntText, Text
  <2>3. t \in AllTexts
    <3>1. <<>> \in Seq({"s:", "i2:", "i4:"})
      OBVIOUS
    <3> QED  BY <2>2, <3>1 DEF AllTexts
  <2>4. v = [type |-> "long", text |-> t]
    BY <2>1 DEF Long
  <2>5. v.type = "long" /\ v.text.n = n /\ v.text.pre = <<>>
    BY <2>2, <2>4
  <2>6. v = Long(v.text.n)
    BY <2>1, <2>5
  <2>7. v \in [type : {"nil", "long", "double", "string"}, text : AllTexts]
    BY <2>3, <2>4
  <2>8. v \in Variants
    BY <2>5, <2>6, <2>7 DEF Variants
  <2> QED  BY <2>1, <2>5, <2>8
<1>2. ASSUME NEW t \in AllTexts PROVE String(t) \in Variants /\ String(t).type = "string" /\ String(t).text = t
  <2>1. PICK v : v = String(t)
    OBVIOUS
  <2>2. v = [type |-> "string", text |-> t]
    BY <2>1 DEF String
  <2>3. v \in [type : {"nil", "long", "double", "string"}, text : AllTexts] /\ v.type = "string" /\ v.text = t
    BY <2>2
  <2> QED  BY <2>1, <2>3 DEF Variants
<1> QED  BY <1>1, <1>2

LEMMA VariantIs ==
  ASSUME NEW v \in Variants
  PROVE  /\ v.type \in {"nil", "long", "double", "string"} /\ v = [type |-> v.type, text |-> v.text]
         /\ v.text \in AllTexts /\ v.text.n \in Int /\ ToLong(v) \in Int
         /\ v.text = Text(v.text.pre, v.text.kind, v.text.n)
         /\ v.type \in {"long", "double"} => v.text.pre = <<>>
         /\ v.type = "long" => v = Long(v.text.n)
         /\ v.type = "string" => v = String(v.text)
<1>1. v \in [type : {"nil", "long", "double", "string"}, text : AllTexts]
  BY DEF Variants
<1>2. /\ v.type \in {"nil", "long", "double", "string"} /\ v = [type |-> v.type, text |-> v.text] /\ v.text \in AllTexts
  BY <1>1
<1>3. PICK t : t = v.text
  OBVIOUS
<1>4. t = [pre |-> t.pre, kind |-> t.kind, n |-> t.n] /\ t.n \in Int
  BY <1>2, <1>3 DEF AllTexts
<1>5. ToLong(v) \in Int
  BY <1>3, <1>4 DEF ToLong
<1>6. v.type = "long" => v = Long(v.text.n)
  BY DEF Variants
<1>7. v.type = "long" => v.text.pre = <<>>
  BY <1>3, <1>4, <1>6, VariantsMade
<1>8. v.type = "double" => v.text.pre = <<>>
  BY DEF Variants
<1>9. v.type = "string" => v = String(v.text)
  BY <1>2 DEF String
<1>10. t = Text(t.pre, t.kind, t.n)
  BY <1>4 DEF Text
<1> QED  BY <1>2, <1>3, <1>4, <1>5, <1>6, <1>7, <1>8, <1>9, <1>10

\* A text that starts with a prefix loses it when it is decoded.
LEMMA TextTaken ==
  ASSUME NEW t \in AllTexts, t.pre # <<>>
  PROVE  \/ \E n \in Int : DecodeGdsTypedValue(t) = Long(n)
         \/ \E u \in AllTexts : Len(u.pre) = Len(t.pre) - 1 /\ DecodeGdsTypedValue(t) = String(u)
<1>1. PICK P : P = {"s:", "i2:", "i4:"}
  OBVIOUS
<1>2. t = [pre |-> t.pre, kind |-> t.kind, n |-> t.n] /\ t.pre \in Seq(P) /\ t.n \in Int
      /\ t.kind \in {"int", "frac", "huge", "word", "none"}
  BY <1>1 DEF AllTexts
<1>3. Head(t.pre) \in P /\ Tail(t.pre) \in Seq(P) /\ Len(Tail(t.pre)) = Len(t.pre) - 1
  BY <1>2, HeadTailProperties
<1>4. PICK u : u = Stripped(t)
  OBVIOUS
<1>5. u = [pre |-> Tail(t.pre), kind |-> t.kind, n |-> t.n]
  BY <1>2, <1>4 DEF Stripped
<1>6. u \in AllTexts /\ u.n \in Int /\ Len(u.pre) = Len(t.pre) - 1
  BY <1>1, <1>2, <1>3, <1>5 DEF AllTexts
<1>7. CASE IsTypedLong(t)
  BY <1>4, <1>6, <1>7 DEF DecodeGdsTypedValue
<1>8. CASE ~IsTypedLong(t)
  <2>1. StartsWith(t, "s:")
    BY <1>1, <1>3, <1>8 DEF IsTypedLong, StartsWith
  <2> QED  BY <1>4, <1>6, <1>8, <2>1 DEF DecodeGdsTypedValue
<1> QED  BY <1>7, <1>8

\* What comes back under an attribute is a number or a text with one prefix less.
LEMMA ValueDecoded ==
  ASSUME NEW v \in Variants, NEW k \in Nat \ {0}, Len(v.text.pre) <= k, NEW w, w = DecodeGdsTypedValue(EncodeGdsTypedValue(v))
  PROVE  (\E n \in Int : w = Long(n)) \/ (\E u \in AllTexts : Len(u.pre) <= k - 1 /\ w = String(u))
<1>1. PICK t : t = v.text
  OBVIOUS
<1>2. /\ v.type \in {"nil", "long", "double", "string"} /\ t \in AllTexts /\ t.n \in Int /\ ToLong(v) \in Int
      /\ t = Text(t.pre, t.kind, t.n) /\ (v.type \in {"long", "double"} => t.pre = <<>>)
  BY <1>1, VariantIs
<1>3. CASE v.type = "nil"
  <2>1. EncodeGdsTypedValue(v) = NoText
    BY <1>3 DEF EncodeGdsTypedValue
  <2>2. NoText = [pre |-> <<>>, kind |-> "none", n |-> 0]
    BY DEF NoText, Text
  <2>3. NoText \in AllTexts /\ NoText.pre = <<>>
    <3>1. <<>> \in Seq({"s:", "i2:", "i4:"})
      OBVIOUS
    <3> QED  BY <2>2, <3>1 DEF AllTexts
  <2>4. ~StartsWith(NoText, "s:") /\ ~IsTypedLong(NoText)
    BY <2>3 DEF StartsWith, IsTypedLong
  <2>5. w = String(NoText)
    BY <2>1, <2>4 DEF DecodeGdsTypedValue
  <2>6. Len(NoText.pre) <= k - 1
    BY <2>3, VariantsMade
  <2> QED  BY <2>3, <2>5, <2>6
<1>4. CASE v.type = "string" /\ t.pre # <<>>
  <2>1. EncodeGdsTypedValue(v) = t
    BY <1>1, <1>4 DEF EncodeGdsTypedValue
  <2>2. CASE \E n \in Int : DecodeGdsTypedValue(t) = Long(n)
    BY <2>1, <2>2
  <2>3. CASE \E u \in AllTexts : Len(u.pre) = Len(t.pre) - 1 /\ DecodeGdsTypedValue(t) = String(u)
    <3>1. PICK u \in AllTexts : Len(u.pre) = Len(t.pre) - 1 /\ DecodeGdsTypedValue(t) = String(u)
      BY <2>3
    <3>2. Len(t.pre) \in Nat
      BY <1>2, LenProperties DEF AllTexts
    <3>3. Len(u.pre) <= k - 1
      BY <1>1, <3>1, <3>2
    <3> QED  BY <2>1, <3>1, <3>3
  <2> QED  BY <1>2, <1>4, <2>2, <2>3, TextTaken
<1>5. CASE t.pre = <<>> /\ v.type # "nil" /\ (v.type = "string" \/ ~CanConvertToLong(v))
  <2>1. PICK x : x = Prefixed("s:", Text(<<>>, t.kind, t.n))
    OBVIOUS
  <2>2. EncodeGdsTypedValue(v) = x
    BY <1>1, <1>2, <1>5, <2>1 DEF EncodeGdsTypedValue
  <2>3. ~IsTypedLong(x) /\ StartsWith(x, "s:") /\ Stripped(x) = Text(<<>>, t.kind, t.n)
    BY <2>1, PrefixTaken DEF IsTypedLong
  <2>4. w = String(t)
    BY <1>2, <1>5, <2>2, <2>3 DEF DecodeGdsTypedValue
  <2>5. Len(t.pre) <= k - 1
    BY <1>5, VariantsMade
  <2> QED  BY <1>2, <2>4, <2>5
<1>6. CASE v.type \in {"long", "double"} /\ CanConvertToLong(v)
  <2>1. PICK n \in Int : n = ToLong(v)
    BY <1>2
  <2>2. EncodeGdsTypedValue(v) = Prefixed(IF InRange(n, -32768, 32767) THEN "i2:" ELSE "i4:", IntText(n))
    BY <1>6, <2>1 DEF EncodeGdsTypedValue
  <2>3. PICK q \in {"i2:", "i4:"} : EncodeGdsTypedValue(v) = Prefixed(q, IntText(n))
    <3>1. CASE InRange(n, -32768, 32767)
      BY <2>2, <3>1
    <3>2. CASE ~InRange(n, -32768, 32767)
      BY <2>2, <3>2
    <3> QED  BY <3>1, <3>2
  <2>4. PICK x : x = Prefixed(q, Text(<<>>, "int", n))
    OBVIOUS
  <2>5. IsTypedLong(x) /\ Stripped(x) = Text(<<>>, "int", n)
    BY <2>4, PrefixTaken DEF IsTypedLong
  <2>6. Stripped(x).n = n
    BY <2>5 DEF Text
  <2>7. w = Long(n)
    BY <2>3, <2>4, <2>5, <2>6 DEF DecodeGdsTypedValue, IntText
  <2> QED  BY <2>7
<1> QED  BY <1>2, <1>3, <1>4, <1>5, <1>6

\* A name that is no attribute is none as a text either.
LEMMA TextNoAttr ==
  ASSUME NEW v \in Variants, ~IsAttr(v), v.type # "nil" PROVE ~IsAttr(String(v.text))
<1>1. PICK s : s = String(v.text)
  OBVIOUS
<1>2. s.type = "string" /\ s.text = v.text /\ v.type \in {"long", "double", "string"}
  BY <1>1, VariantsMade, VariantIs
<1>3. CASE v.type = "string"
  <2>1. s = v
    BY <1>1, <1>3, VariantIs
  <2> QED  BY <1>1, <2>1
<1>4. CASE v.type \in {"long", "double"} /\ CanConvertToLong(v)
  <2>1. ToLong(s) = ToLong(v)
    BY <1>2, <1>4 DEF ToLong
  <2> QED  BY <1>1, <1>4, <2>1 DEF IsAttr
<1>5. CASE v.type \in {"long", "double"} /\ ~CanConvertToLong(v)
  <2>1. v.text.kind = "huge"
    BY <1>5 DEF CanConvertToLong
  <2>2. ~CanConvertToLong(s)
    BY <1>2, <2>1 DEF CanConvertToLong
  <2> QED  BY <1>1, <2>2 DEF IsAttr
<1> QED  BY <1>2, <1>3, <1>4, <1>5

LEMMA NamedRound ==
  ASSUME NEW p, ~IsAttr(p[1])
  PROVE  /\ ToCore(p) = NamedProperty(p[1].text, p[2].text) /\ ~PropertiesThrow({ToCore(p)})
         /\ FromCore(ToCore(p)) = <<String(p[1].text), String(p[2].text)>>
<1>1. PICK c : c = ToCore(p)
  OBVIOUS
<1>2. c = NamedProperty(p[1].text, p[2].text)
  BY <1>1 DEF ToCore
<1>3. ~c.gds /\ c.name = p[1].text /\ c.value = p[2].text
  BY <1>2 DEF NamedProperty
<1>4. FromCore(c) = <<String(p[1].text), String(p[2].text)>>
  BY <1>3 DEF FromCore
<1>5. ~PropertiesThrow({c})
  BY <1>3 DEF PropertiesThrow
<1> QED  BY <1>1, <1>2, <1>4, <1>5

LEMMA AttrNumber ==
  ASSUME NEW x, IsAttr(x), NEW n \in Int, n = ToLong(x), NEW a, a = ToInt16(n)
  PROVE  a \in Int /\ InRange(a, -32768, 32767) /\ (n <= 32767 => a = n)
<1>1. InRange(n, 0, 65535)
  BY DEF IsAttr
<1> QED  BY <1>1 DEF ToInt16, InRange

LEMMA AttrRound ==
  ASSUME NEW p, NEW x, x = p[1], NEW v, v = p[2], IsAttr(x), NEW n \in Int, n = ToLong(x),
         NEW a, a = ToInt16(n), NEW e, e = EncodeGdsTypedValue(v), NEW w, w = DecodeGdsTypedValue(e)
  PROVE  FromCore(ToCore(p)) = <<Long(a), w>>
<1>1. PICK c : c = ToCore(p)
  OBVIOUS
<1>2. c = GdsProperty(a, e)
  BY <1>1 DEF ToCore
<1>3. c.gds /\ c.attr = a /\ c.value = e
  BY <1>2 DEF GdsProperty
<1> QED  BY <1>1, <1>3 DEF FromCore

LEMMA AttrThrows ==
  ASSUME NEW p, NEW x, x = p[1], NEW v, v = p[2], IsAttr(x), NEW e, e = EncodeGdsTypedValue(v), ~DecodeThrows(e)
  PROVE  ~PropertiesThrow({ToCore(p)})
<1>1. PICK c, a : c = ToCore(p) /\ a = ToInt16(ToLong(x))
  OBVIOUS
<1>2. c = GdsProperty(a, e)
  BY <1>1 DEF ToCore
<1>3. c.gds /\ c.value = e
  BY <1>2 DEF GdsProperty
<1>4. ~PropertiesThrow({c})
  BY <1>3 DEF PropertiesThrow
<1> QED  BY <1>1, <1>4

LEMMA OnceShort == ASSUME NEW p, Once(p) PROVE p \in OnceProperties
<1>1. p \in ShortProperties
  <2>1. CASE \E a, n \in Int : InRange(a, -32768, 32767) /\ p = <<Long(a), Long(n)>>
    <3>1. PICK a, n \in Int : p = <<Long(a), Long(n)>>
      BY <2>1
    <3>2. Long(a) \in Variants /\ Long(n) \in Variants /\ Long(n).text.pre = <<>> /\ Len(<<>>) = 0
      BY VariantsMade
    <3>3. p \in Variants \X Variants /\ Len(p[2].text.pre) <= 2
      BY <3>1, <3>2
    <3> QED  BY <3>3 DEF ShortProperties
  <2>2. CASE \E a \in Int, t \in AllTexts : InRange(a, -32768, 32767) /\ Len(t.pre) <= 1 /\ p = <<Long(a), String(t)>>
    <3>1. PICK a \in Int, t \in AllTexts : Len(t.pre) <= 1 /\ p = <<Long(a), String(t)>>
      BY <2>2
    <3>2. Long(a) \in Variants /\ String(t) \in Variants /\ String(t).text = t
      BY VariantsMade
    <3>3. Len(t.pre) \in Nat
      BY LenProperties DEF AllTexts
    <3>4. p \in Variants \X Variants /\ Len(p[2].text.pre) <= 2
      BY <3>1, <3>2, <3>3
    <3> QED  BY <3>4 DEF ShortProperties
  <2>3. CASE \E s, t \in AllTexts : Len(t.pre) <= 2 /\ ~IsAttr(String(s)) /\ p = <<String(s), String(t)>>
    <3>1. PICK s, t \in AllTexts : Len(t.pre) <= 2 /\ p = <<String(s), String(t)>>
      BY <2>3
    <3>2. String(s) \in Variants /\ String(t) \in Variants /\ String(t).text = t
      BY VariantsMade
    <3>3. p \in Variants \X Variants /\ Len(p[2].text.pre) <= 2
      BY <3>1, <3>2
    <3> QED  BY <3>3 DEF ShortProperties
  <2> QED  BY <2>1, <2>2, <2>3 DEF Once
<1> QED  BY <1>1 DEF OnceProperties

\* The first round.
LEMMA FirstRound ==
  ASSUME NEW p \in ShortProperties, IsAttr(p[1]) \/ p[1].type # "nil"
  PROVE  FromCore(ToCore(p)) \in OnceProperties
<1>1. PICK q : q = FromCore(ToCore(p))
  OBVIOUS
<1>2. p[1] \in Variants /\ p[2] \in Variants /\ Len(p[2].text.pre) <= 2
  BY DEF ShortProperties
<1>3. CASE IsAttr(p[1])
  <2>1. ToLong(p[1]) \in Int
    BY <1>2, VariantIs
  <2>2. PICK w : w = DecodeGdsTypedValue(EncodeGdsTypedValue(p[2]))
    OBVIOUS
  <2>a. PICK x, v, e, n, a : x = p[1] /\ v = p[2] /\ e = EncodeGdsTypedValue(v) /\ n = ToLong(x) /\ a = ToInt16(n)
    OBVIOUS
  <2>3. a \in Int /\ InRange(a, -32768, 32767) /\ q = <<Long(a), w>>
    <3>1. IsAttr(x) /\ n \in Int /\ w = DecodeGdsTypedValue(e)
      BY <1>3, <2>1, <2>2, <2>a
    <3>2. FromCore(ToCore(p)) = <<Long(a), w>>
      BY ONLY <2>a, <3>1, AttrRound
    <3>3. a \in Int /\ InRange(a, -32768, 32767)
      BY ONLY <2>a, <3>1, AttrNumber
    <3> QED  BY ONLY <1>1, <3>2, <3>3
  <2>4. (\E m \in Int : w = Long(m)) \/ (\E u \in AllTexts : Len(u.pre) <= 2 - 1 /\ w = String(u))
    BY <1>2, <2>2, ValueDecoded
  <2>5. Once(q)
    <3>1. CASE \E m \in Int : w = Long(m)
      BY <2>3, <3>1 DEF Once
    <3>2. CASE \E u \in AllTexts : Len(u.pre) <= 2 - 1 /\ w = String(u)
      <4>1. PICK u \in AllTexts : Len(u.pre) <= 1 /\ w = String(u)
        BY <3>2
      <4> QED  BY <2>3, <4>1 DEF Once
    <3> QED  BY <2>4, <3>1, <3>2
  <2> QED  BY <1>1, <2>5, OnceShort
<1>4. CASE ~IsAttr(p[1])
  <2>1. PICK s, t : s = p[1].text /\ t = p[2].text
    OBVIOUS
  <2>2. s \in AllTexts /\ t \in AllTexts /\ Len(t.pre) <= 2
    BY <1>2, <2>1, VariantIs
  <2>3. ~IsAttr(String(s))
    BY <1>2, <1>4, <2>1, TextNoAttr
  <2>4. q = <<String(s), String(t)>>
    BY <1>1, <1>4, <2>1, NamedRound
  <2>5. Once(q)
    BY <2>2, <2>3, <2>4 DEF Once
  <2> QED  BY <1>1, <2>5, OnceShort
<1> QED  BY <1>3, <1>4

\* What the decoder takes as it is: a number, or a text without prefixes.
LEMMA PlainDecoded ==
  ASSUME NEW v, (\E n \in Int : v = Long(n)) \/ (\E t \in AllTexts : Len(t.pre) <= 0 /\ v = String(t)),
         NEW e, e = EncodeGdsTypedValue(v)
  PROVE  DecodeGdsTypedValue(e) = v /\ ~DecodeThrows(e)
<1>1. CASE \E n \in Int : v = Long(n)
  <2>1. PICK n \in Int : v = Long(n)
    BY <1>1
  <2>2. v \in Variants /\ v.type = "long" /\ CanConvertToLong(v) /\ ToLong(v) = n
    BY <2>1, VariantsMade DEF CanConvertToLong, ToLong
  <2>3. PICK q \in {"i2:", "i4:"} : e = Prefixed(q, Text(<<>>, "int", n))
    <3>1. e = Prefixed(IF InRange(n, -32768, 32767) THEN "i2:" ELSE "i4:", IntText(n))
      BY <2>2 DEF EncodeGdsTypedValue
    <3>2. CASE InRange(n, -32768, 32767)
      BY <3>1, <3>2 DEF IntText
    <3>3. CASE ~InRange(n, -32768, 32767)
      BY <3>1, <3>3 DEF IntText
    <3> QED  BY <3>2, <3>3
  <2>4. Stripped(e) = Text(<<>>, "int", n) /\ IsTypedLong(e)
    BY <2>3, PrefixTaken DEF IsTypedLong
  <2>5. Stripped(e).n = n /\ Stripped(e).pre = <<>> /\ Stripped(e).kind = "int"
    BY <2>4 DEF Text
  <2>6. DecodeGdsTypedValue(e) = Long(n)
    BY <2>4, <2>5 DEF DecodeGdsTypedValue
  <2>7. ~DecodeThrows(e)
    BY <2>5 DEF DecodeThrows, StolAccepts
  <2> QED  BY <2>1, <2>6, <2>7
<1>2. CASE \E t \in AllTexts : Len(t.pre) <= 0 /\ v = String(t)
  <2>1. PICK t \in AllTexts : Len(t.pre) <= 0 /\ v = String(t)
    BY <1>2
  <2>2. t.pre = <<>>
    <3>1. PICK P : t.pre \in Seq(P)
      BY DEF AllTexts
    <3> QED  BY <2>1, <3>1, EmptySeq, LenProperties
  <2>3. v.type = "string" /\ v.text = t
    BY <2>1, VariantsMade
  <2>4. t = Text(<<>>, t.kind, t.n)
    BY <2>2 DEF AllTexts, Text
  <2>5. e = Prefixed("s:", Text(<<>>, t.kind, t.n))
    BY <2>2, <2>3, <2>4 DEF EncodeGdsTypedValue
  <2>6. ~IsTypedLong(e) /\ StartsWith(e, "s:") /\ Stripped(e) = t
    BY <2>4, <2>5, PrefixTaken DEF IsTypedLong
  <2>7. DecodeGdsTypedValue(e) = String(t) /\ ~DecodeThrows(e)
    BY <2>6 DEF DecodeGdsTypedValue, DecodeThrows
  <2> QED  BY <2>1, <2>7
<1> QED  BY <1>1, <1>2

LEMMA NamedSettled ==
  ASSUME NEW s \in AllTexts, NEW t \in AllTexts, Len(t.pre) <= 2, ~IsAttr(String(s)), NEW q, q = <<String(s), String(t)>>
  PROVE  q \in SettledProperties
<1>1. Once(q)
  BY DEF Once
<1>2. q \in ShortProperties
  BY <1>1, OnceShort DEF OnceProperties
<1>3. q[1] = String(s) /\ q[2] = String(t) /\ q[1].text = s /\ q[2].text = t
  BY VariantsMade
<1>4. ~PropertiesThrow({ToCore(q)}) /\ FromCore(ToCore(q)) = <<String(q[1].text), String(q[2].text)>>
  BY <1>3, NamedRound
<1>5. Settled(q)
  BY <1>3, <1>4 DEF Settled
<1> QED  BY <1>2, <1>5 DEF SettledProperties

LEMMA AttrSettled ==
  ASSUME NEW a \in Int, InRange(a, 0, 32767),
         NEW w, (\E n \in Int : w = Long(n)) \/ (\E t \in AllTexts : Len(t.pre) <= 0 /\ w = String(t)),
         NEW q, q = <<Long(a), w>>
  PROVE  q \in SettledProperties
<1>1. Once(q)
  <2>1. InRange(a, -32768, 32767)
    BY DEF InRange
  <2>2. CASE \E n \in Int : w = Long(n)
    BY <2>1, <2>2 DEF Once
  <2>3. CASE \E t \in AllTexts : Len(t.pre) <= 0 /\ w = String(t)
    <3>1. PICK t \in AllTexts : Len(t.pre) <= 0 /\ w = String(t)
      BY <2>3
    <3>2. Len(t.pre) \in Nat
      BY LenProperties DEF AllTexts
    <3>3. Len(t.pre) <= 1
      BY <3>1, <3>2
    <3> QED  BY <2>1, <3>1, <3>3 DEF Once
  <2> QED  BY <2>2, <2>3
<1>2. q \in ShortProperties
  BY <1>1, OnceShort DEF OnceProperties
<1>3. PICK e, x : e = EncodeGdsTypedValue(w) /\ x = Long(a)
  OBVIOUS
<1>4. DecodeGdsTypedValue(e) = w /\ ~DecodeThrows(e)
  BY <1>3, PlainDecoded
<1>5. IsAttr(x) /\ ToLong(x) = a
  <2>1. x.type = "long" /\ x.text.n = a
    BY <1>3, VariantsMade
  <2>2. CanConvertToLong(x) /\ ToLong(x) = a
    BY <2>1 DEF CanConvertToLong, ToLong
  <2>3. InRange(a, 0, 65535)
    BY DEF InRange
  <2> QED  BY <2>2, <2>3 DEF IsAttr
<1>6. q[1] = x /\ q[2] = w
  BY <1>3
<1>7. PICK b : b = ToInt16(a)
  OBVIOUS
<1>8. b = a
  <2>1. a <= 32767
    BY DEF InRange
  <2> QED  BY <1>5, <1>7, <2>1, AttrNumber
<1>9. FromCore(ToCore(q)) = <<Long(b), w>>
  BY ONLY <1>3, <1>4, <1>5, <1>6, <1>7, AttrRound
<1>10. ~PropertiesThrow({ToCore(q)})
  BY ONLY <1>3, <1>4, <1>5, <1>6, AttrThrows
<1>11. Settled(q)
  BY <1>3, <1>8, <1>9, <1>10 DEF Settled
<1> QED  BY <1>2, <1>11 DEF SettledProperties

\* What the first round has made has a name, and under an attribute at most one prefix.
LEMMA OnceIs ==
  ASSUME NEW p, Once(p)
  PROVE  /\ p[1] \in Variants /\ p[2] \in Variants /\ Len(p[2].text.pre) <= 2 /\ p[1].type # "nil"
         /\ IsAttr(p[1]) => \E a \in Int : p[1] = Long(a) /\ InRange(a, 0, 32767) /\ Len(p[2].text.pre) <= 1
<1>1. p[1] \in Variants /\ p[2] \in Variants /\ Len(p[2].text.pre) <= 2
  BY OnceShort DEF OnceProperties, ShortProperties
<1>2. ASSUME NEW a \in Int, NEW v, InRange(a, -32768, 32767), p = <<Long(a), v>>, Len(v.text.pre) <= 1
      PROVE  /\ p[1].type # "nil"
             /\ IsAttr(p[1]) => p[1] = Long(a) /\ InRange(a, 0, 32767) /\ Len(p[2].text.pre) <= 1
  <2>1. PICK x : x = p[1]
    OBVIOUS
  <2>2. x = Long(a) /\ p[2] = v
    BY <1>2, <2>1
  <2>3. x.type = "long" /\ x.text.n = a
    BY <2>2, VariantsMade
  <2>4. IsAttr(x) => InRange(a, 0, 32767)
    <3>1. ToLong(x) = a
      BY <2>3 DEF ToLong
    <3>2. IsAttr(x) => InRange(a, 0, 65535)
      BY <3>1 DEF IsAttr
    <3> QED  BY <1>2, <3>2 DEF InRange
  <2> QED  BY <1>2, <2>1, <2>2, <2>3, <2>4
<1>3. CASE \E a, n \in Int : InRange(a, -32768, 32767) /\ p = <<Long(a), Long(n)>>
  <2>1. PICK a, n \in Int : InRange(a, -32768, 32767) /\ p = <<Long(a), Long(n)>>
    BY <1>3
  <2>2. Len(Long(n).text.pre) <= 1
    BY VariantsMade
  <2> QED  BY <1>1, <1>2, <2>1, <2>2
<1>4. CASE \E a \in Int, t \in AllTexts : InRange(a, -32768, 32767) /\ Len(t.pre) <= 1 /\ p = <<Long(a), String(t)>>
  <2>1. PICK a \in Int, t \in AllTexts : InRange(a, -32768, 32767) /\ Len(t.pre) <= 1 /\ p = <<Long(a), String(t)>>
    BY <1>4
  <2>2. Len(String(t).text.pre) <= 1
    BY <2>1, VariantsMade
  <2> QED  BY <1>1, <1>2, <2>1, <2>2
<1>5. CASE \E s, t \in AllTexts : Len(t.pre) <= 2 /\ ~IsAttr(String(s)) /\ p = <<String(s), String(t)>>
  <2>1. PICK s, t \in AllTexts : ~IsAttr(String(s)) /\ p = <<String(s), String(t)>>
    BY <1>5
  <2>2. p[1] = String(s) /\ String(s).type = "string"
    BY <2>1, VariantsMade
  <2> QED  BY <1>1, <2>1, <2>2
<1> QED  BY <1>3, <1>4, <1>5 DEF Once

\* The second round.
LEMMA SecondRound ==
  ASSUME NEW p \in OnceProperties PROVE FromCore(ToCore(p)) \in SettledProperties
<1>1. PICK q : q = FromCore(ToCore(p))
  OBVIOUS
<1>2. Once(p)
  BY DEF OnceProperties
<1>3. p[1] \in Variants /\ p[2] \in Variants /\ Len(p[2].text.pre) <= 2 /\ p[1].type # "nil"
  BY <1>2, OnceIs
<1>4. CASE IsAttr(p[1])
  <2>1. PICK a \in Int : p[1] = Long(a) /\ InRange(a, 0, 32767) /\ Len(p[2].text.pre) <= 1
    BY <1>2, <1>4, OnceIs
  <2>2. PICK x, v, e, w, n, b : /\ x = p[1] /\ v = p[2] /\ e = EncodeGdsTypedValue(v) /\ w = DecodeGdsTypedValue(e)
                                /\ n = ToLong(x) /\ b = ToInt16(n)
    OBVIOUS
  <2>3. n = a /\ n \in Int /\ IsAttr(x)
    <3>1. x.type = "long" /\ x.text.n = a
      BY <2>1, <2>2, VariantsMade
    <3> QED  BY <1>4, <2>2, <3>1 DEF ToLong
  <2>4. q = <<Long(b), w>>
    <3>1. FromCore(ToCore(p)) = <<Long(b), w>>
      BY ONLY <2>2, <2>3, AttrRound
    <3> QED  BY <1>1, <3>1
  <2>5. b = a
    <3>1. n <= 32767
      BY <2>1, <2>3 DEF InRange
    <3>2. IsAttr(x) /\ n \in Int /\ n = ToLong(x) /\ b = ToInt16(n)
      BY <2>2, <2>3
    <3>3. b = n
      BY ONLY <3>1, <3>2, AttrNumber
    <3> QED  BY <2>3, <3>3
  <2>6. (\E k \in Int : w = Long(k)) \/ (\E t \in AllTexts : Len(t.pre) <= 1 - 1 /\ w = String(t))
    BY <1>3, <2>1, <2>2, ValueDecoded
  <2>7. (\E k \in Int : w = Long(k)) \/ (\E t \in AllTexts : Len(t.pre) <= 0 /\ w = String(t))
    BY <2>6
  <2>8. q = <<Long(a), w>>
    BY <2>4, <2>5
  <2> QED  BY <1>1, <2>1, <2>7, <2>8, AttrSettled
<1>5. CASE ~IsAttr(p[1])
  <2>1. PICK s, t : s = p[1].text /\ t = p[2].text
    OBVIOUS
  <2>2. s \in AllTexts /\ t \in AllTexts /\ Len(t.pre) <= 2
    BY <1>3, <2>1, VariantIs
  <2>3. ~IsAttr(String(s))
    BY <1>3, <1>5, <2>1, TextNoAttr
  <2>4. q = <<String(s), String(t)>>
    BY <1>1, <1>5, <2>1, NamedRound
  <2> QED  BY <1>1, <2>2, <2>3, <2>4, NamedSettled
<1> QED  BY <1>4, <1>5

LEMMA BackIn ==
  ASSUME NEW S, NEW P, \A p \in S : IsAttr(p[1]) \/ p[1].type # "nil" => FromCore(ToCore(p)) \in P
  PROVE  Back(S) \subseteq P
<1> SUFFICES ASSUME NEW q \in Back(S) PROVE q \in P
  OBVIOUS
<1>1. PICK c \in PropertiesFromKLayout(S) : q = FromCore(c)
  BY DEF Back, PropertiesIdFromCore
<1>2. PICK p \in S : c = ToCore(p) /\ (IsAttr(p[1]) \/ p[1].type # "nil")
  BY <1>1 DEF PropertiesFromKLayout
<1> QED  BY <1>1, <1>2

LEMMA BackSettles ==
  ASSUME NEW S
  PROVE  /\ S \subseteq ShortProperties => Back(S) \subseteq OnceProperties
         /\ S \subseteq OnceProperties => Back(S) \subseteq SettledProperties
<1>1. ASSUME S \subseteq ShortProperties PROVE Back(S) \subseteq OnceProperties
  BY <1>1, FirstRound, BackIn
<1>2. ASSUME S \subseteq OnceProperties PROVE Back(S) \subseteq SettledProperties
  BY <1>2, SecondRound, BackIn
<1> QED  BY <1>1, <1>2

-----------------------------------------------------------------------------
(* Where properties come from                                              *)

CellHolds(c, P) ==
  /\ c.prop \subseteq P
  /\ \A j \in DOMAIN c.shapes : c.shapes[j].prop \subseteq P
  /\ \A j \in DOMAIN c.insts : c.insts[j].prop \subseteq P
FileCellHolds(c, P) ==
  /\ PropertiesIdFromCore(c.prop) \subseteq P /\ PropertiesIdFromCore(c.viewProp) \subseteq P
  /\ \A j \in DOMAIN c.shapes : PropertiesIdFromCore(c.shapes[j].prop) \subseteq P
  /\ \A j \in DOMAIN c.insts : PropertiesIdFromCore(c.insts[j].prop) \subseteq P

LEMMA HoldsIs ==
  ASSUME NEW P
  PROVE  /\ \A m : Holds(m, P) <=> \A i \in DOMAIN m.cells : CellHolds(m.cells[i], P)
         /\ \A f : FileHolds(f, P) <=> \A i \in DOMAIN f.cells : FileCellHolds(f.cells[i], P)
<1>1. ASSUME NEW m PROVE Holds(m, P) <=> \A i \in DOMAIN m.cells : CellHolds(m.cells[i], P)
  BY DEF Holds, CellHolds
<1>2. ASSUME NEW f PROVE FileHolds(f, P) <=> \A i \in DOMAIN f.cells : FileCellHolds(f.cells[i], P)
  BY DEF FileHolds, FileCellHolds
<1> QED  BY <1>1, <1>2

\* One cell more, or another in its place.
LEMMA HeldAppended ==
  ASSUME NEW s, IsList(s), NEW x, NEW t, t = Append(s, x)
  PROVE  \A i \in DOMAIN t : t[i] = x \/ (i \in DOMAIN s /\ t[i] = s[i])
<1>1. Extends(s, t, 0) /\ Len(t) = Len(s) + 1 /\ t[Len(s) + 1] = x
  BY ListAppended
<1>2. Len(s) \in Nat /\ DOMAIN s = 1..Len(s) /\ DOMAIN t = 1..Len(t)
  BY <1>1, ListIs DEF Extends
<1>3. \A i \in 1..Len(t) : i \in 1..Len(s) \/ i = Len(s) + 1
  BY <1>1, <1>2
<1>4. \A i \in 1..Len(s) : t[i] = s[i]
  BY <1>1 DEF Extends
<1> QED  BY <1>1, <1>2, <1>3, <1>4

LEMMA CellsHeld ==
  ASSUME NEW P, NEW m, Holds(m, P), IsLayout(m), NEW n, NEW c, CellHolds(c, P),
         \/ n.cells = m.cells
         \/ n.cells = Append(m.cells, c)
         \/ \E k : n.cells = [m.cells EXCEPT ![k] = c]
  PROVE  Holds(n, P)
<1>1. PICK s, t : s = m.cells /\ t = n.cells
  OBVIOUS
<1>2. IsList(s) /\ \A i \in DOMAIN s : CellHolds(s[i], P)
  BY <1>1, HoldsIs DEF IsLayout
<1>3. \A i \in DOMAIN t : t[i] = c \/ (i \in DOMAIN s /\ t[i] = s[i])
  <2>1. CASE t = s
    BY <2>1
  <2>2. CASE t = Append(s, c)
    BY <1>2, <2>2, HeldAppended
  <2>3. CASE \E k : t = [s EXCEPT ![k] = c]
    <3>1. PICK k : t = [s EXCEPT ![k] = c]
      BY <2>3
    <3>2. DOMAIN t = DOMAIN s
      BY <3>1
    <3> QED  BY <3>1, <3>2
  <2> QED  BY <1>1, <2>1, <2>2, <2>3
<1>4. \A i \in DOMAIN t : CellHolds(t[i], P)
  BY <1>2, <1>3
<1> QED  BY <1>1, <1>4, HoldsIs

LEMMA ShapeHeld ==
  ASSUME NEW P, NEW c, CellHolds(c, P), IsList(c.shapes), NEW x, x.prop \subseteq P,
         NEW d, d.prop = c.prop, d.shapes = Append(c.shapes, x), d.insts = c.insts
  PROVE  CellHolds(d, P)
<1>1. PICK s, t : s = c.shapes /\ t = d.shapes
  OBVIOUS
<1>2. \A i \in DOMAIN t : t[i] = x \/ (i \in DOMAIN s /\ t[i] = s[i])
  BY <1>1, HeldAppended
<1> QED  BY <1>1, <1>2 DEF CellHolds

LEMMA InstHeld ==
  ASSUME NEW P, NEW c, CellHolds(c, P), IsList(c.insts), NEW x, x.prop \subseteq P,
         NEW d, d.prop = c.prop, d.insts = Append(c.insts, x), d.shapes = c.shapes
  PROVE  CellHolds(d, P)
<1>1. PICK s, t : s = c.insts /\ t = d.insts
  OBVIOUS
<1>2. \A i \in DOMAIN t : t[i] = x \/ (i \in DOMAIN s /\ t[i] = s[i])
  BY <1>1, HeldAppended
<1> QED  BY <1>1, <1>2 DEF CellHolds

LEMMA NothingHeld == ASSUME NEW P, NEW name PROVE CellHolds(NewCell(name), P) /\ Holds(EmptyLayout, P)
<1>1. DOMAIN <<>> = {}
  OBVIOUS
<1>2. CellHolds(NewCell(name), P)
  <2>1. NewCell(name).prop = {} /\ NewCell(name).shapes = <<>> /\ NewCell(name).insts = <<>>
    BY DEF NewCell
  <2> QED  BY <1>1, <2>1 DEF CellHolds
<1>3. EmptyLayout.cells = <<>>
  BY DEF EmptyLayout, NoLayout
<1> QED  BY <1>1, <1>2, <1>3, HoldsIs

\* What a step of a read adds is from the file.
LEMMA BeginCellHolds ==
  ASSUME IInv, ReadInv, NEW P, Holds(mem, P), FileHolds(file, P), BeginCell PROVE Holds(mem', P)
<1>1. rd.at = "cell" /\ rd.at \in {"cell", "shapes", "insts"} /\ rd.cell <= Len(file.cells)
  BY DEF BeginCell
<1>2. PICK c, k : c = FileCell /\ k = TargetIndex
  OBVIOUS
<1>3. /\ rd.cell \in 1..Len(file.cells) /\ c = file.cells[rd.cell] /\ k \in 1..Len(mem.cells)
      /\ IsLayout(mem) /\ CellOK(mem.cells[k], Len(mem.layers), Len(mem.cells)) /\ IsList(file.cells)
  BY <1>1, <1>2, InHandIs, ReadInvHas DEF IInv
<1>4. rd.cell \in DOMAIN file.cells /\ k \in DOMAIN mem.cells
  BY <1>3, ListIs DEF IsLayout
<1>5. FileCellHolds(c, P) /\ CellHolds(mem.cells[k], P)
  BY <1>3, <1>4, HoldsIs
<1>6. CASE mem' = mem
  BY <1>6
<1>7. CASE ApplyCoreProperties
  <2>1. PICK x : /\ mem' = [mem EXCEPT !.cells[k].prop = x]
                 /\ x = IF CellProps(c) = {} THEN mem.cells[k].prop ELSE CellProps(c)
    BY <1>2, <1>7 DEF ApplyCoreProperties, CellProps
  <2>2. x \subseteq P
    BY <1>5, <2>1 DEF CellProps, FileCellHolds, CellHolds
  <2>3. PICK d, n : d = [mem.cells[k] EXCEPT !.prop = x] /\ n = mem'
    OBVIOUS
  <2>4. n = [mem EXCEPT !.cells = [@ EXCEPT ![k] = d]]
    BY <2>1, <2>3
  <2>5. d.prop = x /\ d.shapes = mem.cells[k].shapes /\ d.insts = mem.cells[k].insts
    BY <1>3, <2>3 DEF CellOK
  <2>6. CellHolds(d, P)
    BY <1>5, <2>2, <2>5 DEF CellHolds
  <2>7. n.cells = [mem.cells EXCEPT ![k] = d]
    BY <1>3, <2>4 DEF IsLayout
  <2>8. Holds(n, P)
    BY <1>3, <2>6, <2>7, CellsHeld
  <2> QED  BY <2>3, <2>8
<1> QED  BY <1>6, <1>7 DEF BeginCell

LEMMA ReadShapeHolds ==
  ASSUME IInv, ReadInv, NEW P, Holds(mem, P), FileHolds(file, P), ReadShape PROVE Holds(mem', P)
<1>1. /\ rd.at = "shapes" /\ rd.at \in {"cell", "shapes", "insts"} /\ rd.k <= Len(FileCell.shapes)
      /\ rd.cell <= Len(file.cells)
  BY DEF ReadShape, IInv, CellInv
<1>2. PICK c, t : c = FileCell /\ t = TargetIndex
  OBVIOUS
<1>3. /\ rd.cell \in 1..Len(file.cells) /\ c = file.cells[rd.cell] /\ t \in 1..Len(mem.cells)
      /\ IsLayout(mem) /\ CellOK(mem.cells[t], Len(mem.layers), Len(mem.cells)) /\ IsList(file.cells) /\ IsList(c.shapes)
      /\ Len(c.shapes) \in Nat /\ rd.k \in Nat /\ rd.k <= Len(c.shapes)
  BY <1>1, <1>2, InHandIs, ReadInvHas DEF IInv
<1>4. rd.cell \in DOMAIN file.cells /\ t \in DOMAIN mem.cells /\ DOMAIN c.shapes = 1..Len(c.shapes)
  BY <1>3, ListIs DEF IsLayout
<1>5. rd.k \in DOMAIN c.shapes
  <2>1. rd.k \in 1..(Len(c.shapes) + 1)
    BY <1>1, <1>3, ReadInvHas DEF InHand
  <2> QED  BY <1>3, <1>4, <2>1
<1>6. FileCellHolds(c, P) /\ CellHolds(mem.cells[t], P)
  BY <1>3, <1>4, HoldsIs
<1>7. PICK shape, spec, w : shape = c.shapes[rd.k] /\ spec = LayerSpecById(shape.id) /\ w = WithLayer(mem, spec)
  OBVIOUS
<1>8. PICK s : s = [layer |-> LayerIndex(spec), kind |-> ReadAs(shape.kind), prop |-> PropertiesIdFromCore(shape.prop)]
  OBVIOUS
<1>9. mem' = mem \/ mem' = w \/ mem' = InsertShape(w, shape, spec)
  BY <1>2, <1>7 DEF ReadShape
<1>10. w.cells = mem.cells /\ IsLayout(w)
  BY <1>3, <1>7, LayerFound DEF Grows
<1>11. s.prop \subseteq P
  <2>1. PropertiesIdFromCore(shape.prop) \subseteq P
    BY <1>5, <1>6, <1>7 DEF FileCellHolds
  <2> QED  BY <1>8, <2>1
<1>12. Holds(w, P)
  BY <1>6, <1>10, HoldsIs
<1>13. CASE mem' = InsertShape(w, shape, spec)
  <2>1. PICK a, d, n : a = w.cells[t] /\ d = [a EXCEPT !.shapes = Append(@, s)] /\ n = mem'
    OBVIOUS
  <2>2. n = [w EXCEPT !.cells[t].shapes = Append(@, s)]
    BY <1>2, <1>8, <1>13, <2>1 DEF InsertShape
  <2>3. n = [w EXCEPT !.cells = [@ EXCEPT ![t] = d]]
    BY <1>10, <2>1, <2>2
  <2>4. d.prop = a.prop /\ d.insts = a.insts /\ d.shapes = Append(a.shapes, s) /\ IsList(a.shapes)
    BY <1>3, <1>10, <2>1 DEF CellOK
  <2>5. CellHolds(a, P)
    BY <1>6, <1>10, <2>1
  <2>6. CellHolds(d, P)
    BY ONLY <1>11, <2>4, <2>5, ShapeHeld
  <2>7. n.cells = [w.cells EXCEPT ![t] = d]
    BY <1>10, <2>3 DEF IsLayout
  <2>8. Holds(n, P)
    BY <1>10, <1>12, <2>6, <2>7, CellsHeld
  <2> QED  BY <2>1, <2>8
<1> QED  BY <1>9, <1>12, <1>13

LEMMA ReadInstanceHolds ==
  ASSUME IInv, ReadInv, NEW P, Holds(mem, P), FileHolds(file, P), ReadInstance PROVE Holds(mem', P)
<1>1. /\ rd.at = "insts" /\ rd.at \in {"cell", "shapes", "insts"} /\ rd.k <= Len(FileCell.insts)
      /\ rd.cell <= Len(file.cells)
  BY DEF ReadInstance, IInv, CellInv
<1>2. PICK c, t : c = FileCell /\ t = TargetIndex
  OBVIOUS
<1>3. /\ rd.cell \in 1..Len(file.cells) /\ c = file.cells[rd.cell] /\ t \in 1..Len(mem.cells)
      /\ IsLayout(mem) /\ CellOK(mem.cells[t], Len(mem.layers), Len(mem.cells)) /\ IsList(file.cells) /\ IsList(c.insts)
      /\ Len(c.insts) \in Nat /\ rd.k \in Nat /\ rd.k <= Len(c.insts)
  BY <1>1, <1>2, InHandIs, ReadInvHas DEF IInv
<1>4. rd.cell \in DOMAIN file.cells /\ t \in DOMAIN mem.cells /\ DOMAIN c.insts = 1..Len(c.insts)
  BY <1>3, ListIs DEF IsLayout
<1>5. rd.k \in DOMAIN c.insts
  <2>1. rd.k \in 1..(Len(c.insts) + 1)
    BY <1>1, <1>3, ReadInvHas DEF InHand
  <2> QED  BY <1>3, <1>4, <2>1
<1>6. FileCellHolds(c, P) /\ CellHolds(mem.cells[t], P)
  BY <1>3, <1>4, HoldsIs
<1>7. PICK inst : inst = c.insts[rd.k]
  OBVIOUS
<1>8. PICK x : x = [cell |-> rd.names[inst.child], rot |-> inst.rot, at |-> inst.at,
                    n |-> 1, prop |-> PropertiesIdFromCore(inst.prop)]
  OBVIOUS
<1>9. mem' = mem \/ mem' = [mem EXCEPT !.cells[t].insts = Append(@, x)]
  BY <1>2, <1>7, <1>8 DEF ReadInstance, ChildIndex
<1>10. x.prop \subseteq P
  <2>1. PropertiesIdFromCore(inst.prop) \subseteq P
    BY <1>5, <1>6, <1>7 DEF FileCellHolds
  <2> QED  BY <1>8, <2>1
<1>11. CASE mem' = [mem EXCEPT !.cells[t].insts = Append(@, x)]
  <2>1. PICK a, d, n, w : a = w.cells[t] /\ d = [a EXCEPT !.insts = Append(@, x)] /\ n = mem' /\ w = mem
    OBVIOUS
  <2>2. n = [w EXCEPT !.cells = [@ EXCEPT ![t] = d]]
    BY <1>11, <2>1
  <2>3. d.prop = a.prop /\ d.shapes = a.shapes /\ d.insts = Append(a.insts, x) /\ IsList(a.insts)
    BY <1>3, <2>1 DEF CellOK
  <2>4. CellHolds(a, P)
    BY <1>6, <2>1
  <2>5. CellHolds(d, P)
    BY ONLY <1>10, <2>3, <2>4, InstHeld
  <2>6. n.cells = [w.cells EXCEPT ![t] = d] /\ IsLayout(w) /\ Holds(w, P)
    BY <1>3, <2>1, <2>2 DEF IsLayout
  <2>7. Holds(n, P)
    BY ONLY <2>5, <2>6, CellsHeld
  <2> QED  BY <2>1, <2>7
<1> QED  BY <1>9, <1>11

LEMMA AddCellHolds ==
  ASSUME IInv, NEW P, Holds(mem, P), AddCell PROVE Holds(mem', P)
<1>1. PICK name : mem' = [mem EXCEPT !.cells = Append(@, NewCell(name))] \/ mem' = mem
  BY DEF AddCell
<1>2. PICK n, w, c : n = mem' /\ w = mem /\ c = NewCell(name)
  OBVIOUS
<1>3. IsLayout(w) /\ Holds(w, P) /\ CellHolds(c, P)
  BY <1>2, NothingHeld DEF IInv
<1>4. CASE n = [w EXCEPT !.cells = Append(@, c)]
  <2>1. n.cells = Append(w.cells, c)
    BY <1>3, <1>4 DEF IsLayout
  <2>2. Holds(n, P)
    BY ONLY <1>3, <2>1, CellsHeld
  <2> QED  BY <1>2, <2>2
<1> QED  BY <1>1, <1>2, <1>4

\* The properties in a file of ours, and in what was read from it, are in P.
Carried(P) == FileHolds(file, P) /\ (rd.fresh /\ rd.at # "idle" => Holds(mem, P))

LEMMA ReadStepHolds ==
  ASSUME IInv, ReadInv, NEW P, Holds(mem, P), FileHolds(file, P), ReadStep PROVE Holds(mem', P)
<1>1. CASE AddCell
  BY <1>1, AddCellHolds
<1>2. CASE BeginCell
  BY <1>2, BeginCellHolds
<1>3. CASE ReadShape
  BY <1>3, ReadShapeHolds
<1>4. CASE ReadInstance
  BY <1>4, ReadInstanceHolds
<1>5. CASE CellsAdded \/ ShapesRead \/ CellRead \/ ReadDone
  <2>1. mem' = mem
    BY <1>5 DEF CellsAdded, ShapesRead, CellRead, ReadDone
  <2> QED  BY <2>1
<1> QED  BY <1>1, <1>2, <1>3, <1>4, <1>5 DEF ReadStep

LEMMA ReadStepFresh ==
  ASSUME IInv, ReadStep PROVE rd'.fresh = rd.fresh /\ rd.at # "idle"
<1>1. rd = [at |-> rd.at, fresh |-> rd.fresh, cell |-> rd.cell, k |-> rd.k, names |-> rd.names, layers |-> rd.layers]
  BY DEF IInv, ReaderInv
<1>2. rd.at # "idle"
  BY DEF ReadStep, AddCell, CellsAdded, BeginCell, ReadShape, ShapesRead, ReadInstance, CellRead, ReadDone
<1>3. rd'.fresh = rd.fresh
  <2>1. CASE AddCell
    <3>1. PICK k, names : rd' = [rd EXCEPT !.k = k, !.names = names]
      BY <2>1 DEF AddCell
    <3> QED  BY <1>1, <3>1
  <2>2. CASE BeginCell
    <3>1. rd' = [rd EXCEPT !.at = "failed"] \/ \E at, cell : rd' = [rd EXCEPT !.at = at, !.cell = cell, !.k = 1]
      BY <2>2 DEF BeginCell, Goto, Fails
    <3> QED  BY <1>1, <3>1
  <2>3. CASE ReadShape
    <3>1. PICK k, layers : \/ rd' = [rd EXCEPT !.at = "failed"]
                           \/ rd' = [rd EXCEPT !.at = "shapes", !.k = k]
                           \/ rd' = [rd EXCEPT !.at = "failed", !.layers = layers]
                           \/ rd' = [rd EXCEPT !.k = k, !.layers = layers]
      BY <2>3 DEF ReadShape, Continue, Fails
    <3> QED  BY <1>1, <3>1
  <2>4. CASE ReadInstance
    <3>1. PICK k : rd' = [rd EXCEPT !.at = "failed"] \/ rd' = [rd EXCEPT !.at = "insts", !.k = k]
      BY <2>4 DEF ReadInstance, Continue, Fails
    <3> QED  BY <1>1, <3>1
  <2>5. CASE CellsAdded \/ ShapesRead \/ CellRead
    <3>1. PICK at, cell : rd' = [rd EXCEPT !.at = at, !.cell = cell, !.k = 1]
      BY <2>5 DEF CellsAdded, ShapesRead, CellRead, Goto
    <3> QED  BY <1>1, <3>1
  <2>6. CASE ReadDone
    <3>1. rd' = [rd EXCEPT !.at = "done"]
      BY <2>6 DEF ReadDone
    <3> QED  BY <1>1, <3>1
  <2> QED  BY <2>1, <2>2, <2>3, <2>4, <2>5, <2>6 DEF ReadStep
<1> QED  BY <1>2, <1>3

LEMMA ReadStepCarries ==
  ASSUME IInv, ReadInv, NEW P, Carried(P), ReadStep, file' = file PROVE Carried(P)'
<1>1. rd'.fresh = rd.fresh /\ rd.at # "idle"
  BY ReadStepFresh
<1>2. rd'.fresh => Holds(mem', P)
  BY <1>1, ReadStepHolds DEF Carried
<1> QED  BY <1>2 DEF Carried

\* A read begins with nothing in a new layout.
LEMMA BeginHolds ==
  ASSUME IInv, NEW P, NEW fresh \in BOOLEAN, ReadNoCells(fresh) \/ ReadHeader(fresh)
  PROVE  /\ rd'.fresh = fresh /\ file' = file
         /\ Holds(mem, P) \/ fresh => Holds(mem', P)
<1>1. PICK target, n : target = (IF fresh THEN EmptyLayout ELSE mem) /\ n = mem'
  OBVIOUS
<1>2. IsLayout(target) /\ (Holds(mem, P) \/ fresh => Holds(target, P))
  BY <1>1, TargetIs, NothingHeld DEF IInv
<1>3. rd'.fresh = fresh /\ file' = file /\ n.cells = target.cells
  <2>1. CASE ReadNoCells(fresh)
    <3>1. n = target /\ file' = file /\ rd' = [NotReading EXCEPT !.at = "done", !.fresh = fresh]
      BY <1>1, <2>1 DEF ReadNoCells
    <3> QED  BY <3>1 DEF NotReading
  <2>2. CASE ReadHeader(fresh)
    <3>1. PICK lib : lib = IF file.name = "" THEN target.libname ELSE file.name
      OBVIOUS
    <3>2. PICK named : named = [target EXCEPT !.dbu = FirstDbu, !.libname = lib]
      OBVIOUS
    <3>3. PICK prop : prop = IF PropertiesIdFromCore(file.prop) = {} THEN named.prop ELSE PropertiesIdFromCore(file.prop)
      OBVIOUS
    <3>4. /\ file' = file
          /\ \/ n = named /\ rd' = [NotReading EXCEPT !.at = "failed", !.fresh = fresh]
             \/ n = [named EXCEPT !.prop = prop] /\ rd' = [NotReading EXCEPT !.at = "add", !.fresh = fresh, !.k = 1]
      BY <1>1, <2>2, <3>1, <3>2, <3>3 DEF ReadHeader
    <3>5. named.cells = target.cells /\ [named EXCEPT !.prop = prop].cells = named.cells
      BY <1>2, <3>2 DEF IsLayout
    <3>6. rd'.fresh = fresh
      <4>1. CASE rd' = [NotReading EXCEPT !.at = "failed", !.fresh = fresh]
        BY <4>1 DEF NotReading
      <4>2. CASE rd' = [NotReading EXCEPT !.at = "add", !.fresh = fresh, !.k = 1]
        BY <4>2 DEF NotReading
      <4> QED  BY <3>4, <4>1, <4>2
    <3>7. n.cells = target.cells
      BY <3>4, <3>5
    <3> QED  BY <3>4, <3>6, <3>7
  <2> QED  BY <2>1, <2>2
<1>4. Holds(target, P) => Holds(n, P)
  BY <1>3, HoldsIs
<1> QED  BY <1>1, <1>2, <1>3, <1>4

\* What is in a file that was written from m comes from there.
LEMMA WrittenHolds ==
  ASSUME NEW P, NEW Q, \A S : S \subseteq P => Back(S) \subseteq Q,
         NEW m, IsLayout(m), CellsOK(m), Holds(m, P), NEW f, f = FileOf(m)
  PROVE  FileHolds(f, Q)
<1>1. PICK t : t = f.cells
  OBVIOUS
<1>2. PICK r : r = Named(m.cells)
  OBVIOUS
<1>a. t = [i \in DOMAIN r |-> WriteCell(m, r[i])]
  BY <1>1, <1>2 DEF FileOf
<1>b. IsList(m.cells) /\ IsList(r) /\ DOMAIN r = 1..Len(r) /\ DOMAIN m.cells = 1..Len(m.cells)
  BY <1>2, NamedIsList, ListIs DEF IsLayout
<1>3. ASSUME NEW i \in DOMAIN t, NEW c, c = t[i] PROVE FileCellHolds(c, Q)
  <2>0. i \in DOMAIN r /\ i \in 1..Len(r)
    BY <1>a, <1>b, <1>3
  <2>l. PICK l \in 1..Len(m.cells) : r[i] = m.cells[l]
    BY <1>2, <1>b, <2>0, NamedIsOne
  <2>1. PICK d : d = m.cells[l]
    OBVIOUS
  <2>2. c = WriteCell(m, d) /\ CellHolds(d, P) /\ CellOK(d, Len(m.layers), Len(m.cells))
    <3>1. c = WriteCell(m, r[i])
      BY <1>a, <1>3, <2>0
    <3> QED  BY <1>b, <2>1, <2>l, <3>1, HoldsIs DEF CellsOK
  <2>3. /\ c.prop = PropertiesFromKLayout(d.prop) /\ c.viewProp = {}
        /\ c.shapes = WriteShapes(m, d) /\ c.insts = WriteInstances(m, d)
    BY <2>2 DEF WriteCell
  <2>4. /\ IsList(d.shapes) /\ \A j \in 1..Len(d.shapes) : d.shapes[j].layer \in 1..Len(m.layers)
        /\ IsList(d.insts) /\ \A j \in 1..Len(d.insts) : d.insts[j].n \in Nat
    BY <2>2 DEF CellOK
  <2>5. PropertiesIdFromCore(c.prop) \subseteq Q
    BY <2>2, <2>3 DEF CellHolds, Back
  <2>6. PropertiesIdFromCore(c.viewProp) \subseteq Q
    <3>1. PropertiesIdFromCore({}) = {}
      BY DEF PropertiesIdFromCore
    <3> QED  BY <2>3, <3>1
  <2>7. ASSUME NEW j \in DOMAIN c.shapes PROVE PropertiesIdFromCore(c.shapes[j].prop) \subseteq Q
    <3>1. PICK all : all = FlattenSeq(ShapesByLayer(m, d))
      OBVIOUS
    <3>2. IsList(all) /\ DOMAIN c.shapes = DOMAIN all /\ c.shapes[j] = WriteShape(m, all[j])
      BY <2>3, <2>4, <2>7, <3>1, WriteShapesIs
    <3>3. j \in 1..Len(all)
      BY <2>7, <3>2, ListIs
    <3>4. PICK i2 \in Seen(m, d) : all[j] = d.shapes[i2]
      BY <2>4, <3>1, <3>3, WrittenIsSeen
    <3>5. i2 \in DOMAIN d.shapes
      BY <2>4, <3>4, ListIs DEF Seen
    <3>6. all[j].prop \subseteq P
      BY <2>2, <3>4, <3>5 DEF CellHolds
    <3>7. c.shapes[j].prop = PropertiesFromKLayout(all[j].prop)
      BY <3>2 DEF WriteShape
    <3> QED  BY <3>6, <3>7 DEF Back
  <2>8. ASSUME NEW j \in DOMAIN c.insts PROVE PropertiesIdFromCore(c.insts[j].prop) \subseteq Q
    <3>1. PICK w, e : w = WriteInstances(m, d) /\ e = InstancesIn(m, d)
      OBVIOUS
    <3>2. IsList(w) /\ Len(w) = Len(e) /\ \A k \in 1..Len(e) : IsElement(m, d, e[k]) /\ w[k] = InstanceWritten(e[k])
      BY <2>4, <3>1, InstancesWritten
    <3>3. j \in 1..Len(e)
      BY <2>3, <2>8, <3>1, <3>2, ListIs
    <3>4. PICK x : x = e[j]
      OBVIOUS
    <3>5. IsElement(m, d, x) /\ c.insts[j] = InstanceWritten(x)
      BY <2>3, <3>1, <3>2, <3>3, <3>4
    <3>6. PICK k \in 1..Len(d.insts) : x.prop = d.insts[k].prop
      BY <3>5 DEF IsElement
    <3>7. x.prop \subseteq P
      <4>1. k \in DOMAIN d.insts
        BY <2>4, <3>6, ListIs
      <4> QED  BY <2>2, <3>6, <4>1 DEF CellHolds
    <3>8. c.insts[j].prop = PropertiesFromKLayout(x.prop)
      BY <3>5 DEF InstanceWritten
    <3> QED  BY <3>7, <3>8 DEF Back
  <2> QED  BY <2>5, <2>6, <2>7, <2>8 DEF FileCellHolds
<1> QED  BY <1>1, <1>3, HoldsIs

SettleInv ==
  /\ Holds(mem, ShortProperties) /\ FileHolds(file, ShortProperties)
  /\ FromOurFile => Carried(OnceProperties)
  /\ FromOurFile /\ rounds > 0 => Carried(SettledProperties)

LEMMA InitSettles == TwoPrefixes /\ Init => SettleInv
<1> SUFFICES ASSUME TwoPrefixes, Init PROVE SettleInv
  OBVIOUS
<1>1. PICK start \in Starts : mem = start.mem /\ file = start.file
  BY DEF Init
<1>2. Holds(mem, ShortProperties) /\ FileHolds(file, ShortProperties)
  BY <1>1 DEF TwoPrefixes
<1>3. ~FromOurFile
  BY DEF Init, FromOurFile
<1> QED  BY <1>2, <1>3 DEF SettleInv

LEMMA ReadStepSettles ==
  ASSUME IInv, ReadInv, SettleInv, ReadStep, saved' = saved, file' = file, rounds' = rounds PROVE SettleInv'
<1>1. FromOurFile' = FromOurFile
  BY DEF FromOurFile, NoLayout
<1>2. Holds(mem', ShortProperties) /\ FileHolds(file', ShortProperties)
  BY ReadStepHolds DEF SettleInv
<1>3. ASSUME NEW P, Carried(P) PROVE Carried(P)'
  BY <1>3, ReadStepCarries
<1>4. Carried(OnceProperties) => Carried(OnceProperties)'
  BY <1>3
<1>5. Carried(SettledProperties) => Carried(SettledProperties)'
  BY <1>3
<1> QED  BY <1>1, <1>2, <1>4, <1>5 DEF SettleInv

LEMMA BeginSettles ==
  ASSUME IInv, SettleInv, NEW fresh \in BOOLEAN, ReadNoCells(fresh) \/ ReadHeader(fresh),
         saved' = saved, rounds' = rounds
  PROVE  SettleInv'
<1>1. FromOurFile' = FromOurFile
  BY DEF FromOurFile, NoLayout
<1>2. ASSUME NEW P PROVE /\ rd'.fresh = fresh /\ file' = file
                         /\ Holds(mem, P) \/ fresh => Holds(mem', P)
  BY BeginHolds
<1>3. Holds(mem', ShortProperties) /\ FileHolds(file', ShortProperties)
  BY <1>2 DEF SettleInv
<1>4. ASSUME NEW P, Carried(P) PROVE Carried(P)'
  BY <1>2, <1>4 DEF Carried
<1>5. Carried(OnceProperties) => Carried(OnceProperties)'
  BY <1>4
<1>6. Carried(SettledProperties) => Carried(SettledProperties)'
  BY <1>4
<1> QED  BY <1>1, <1>3, <1>5, <1>6 DEF SettleInv

LEMMA SaveSettles ==
  ASSUME IInv, ReadInv, TypeInv, SettleInv, NEW option, NEW stem, Save(option, stem) PROVE SettleInv'
<1>1. PICK m : m = mem' /\ file' = FileOf(m) /\ IsLayout(m) /\ CellsOK(m) /\ m.cells = mem.cells
  BY SavedIs DEF IsDatabase
<1>2. \A P : Holds(mem, P) => Holds(m, P)
  BY <1>1 DEF Holds
<1>3. OnceProperties \subseteq ShortProperties
  BY DEF OnceProperties
<1>4. FileHolds(FileOf(m), OnceProperties)
  <2>1. Holds(m, ShortProperties)
    BY <1>2 DEF SettleInv
  <2>2. \A S : S \subseteq ShortProperties => Back(S) \subseteq OnceProperties
    BY BackSettles
  <2> QED  BY <1>1, <2>1, <2>2, WrittenHolds
<1>5. FileHolds(FileOf(m), ShortProperties)
  <2>1. Holds(m, ShortProperties)
    BY <1>2 DEF SettleInv
  <2>2. \A S : S \subseteq ShortProperties => Back(S) \subseteq ShortProperties
    BY <1>3, BackSettles
  <2> QED  BY <1>1, <2>1, <2>2, WrittenHolds
<1>6. rd'.at = "idle"
  BY DEF Save, NotReading
<1>7. ASSUME rounds' > 0 PROVE FileHolds(FileOf(m), SettledProperties)
  <2>1. LoadedBack
    BY <1>7 DEF Save
  <2>2. Holds(m, OnceProperties)
    <3>1. FromOurFile /\ rd.fresh /\ rd.at # "idle"
      BY <2>1 DEF LoadedBack
    <3> QED  BY <1>2, <3>1 DEF SettleInv, Carried
  <2>3. \A S : S \subseteq OnceProperties => Back(S) \subseteq SettledProperties
    BY BackSettles
  <2> QED  BY <1>1, <2>2, <2>3, WrittenHolds
<1>8. Carried(OnceProperties)'
  BY <1>1, <1>4, <1>6 DEF Carried
<1>9. rounds' > 0 => Carried(SettledProperties)'
  BY <1>1, <1>6, <1>7 DEF Carried
<1>10. Holds(mem', ShortProperties)
  BY <1>1, <1>2 DEF SettleInv
<1> QED  BY <1>1, <1>5, <1>8, <1>9, <1>10 DEF SettleInv

LEMMA SettleInvHolds == TwoPrefixes /\ Spec /\ []NumbersLeft => []SettleInv
<1>1. RoundInv /\ SettleInv /\ [Next]_vars => SettleInv'
  <2> SUFFICES ASSUME Inv, TypeInv, FreshInv, SettleInv, [Next]_vars PROVE SettleInv'
    BY DEF RoundInv
  <2>1. IInv /\ ReadInv
    BY DEF Inv
  <2>2. ASSUME NEW option \in LibNames \cup {""}, NEW stem \in Stems, Save(option, stem) PROVE SettleInv'
    BY <2>1, <2>2, SaveSettles
  <2>3. ASSUME NEW fresh \in BOOLEAN, ReadNoCells(fresh) \/ ReadHeader(fresh) PROVE SettleInv'
    <3>1. saved' = saved /\ rounds' = rounds
      BY <2>3 DEF ReadNoCells, ReadHeader
    <3> QED  BY <2>1, <2>3, <3>1, BeginSettles
  <2>4. CASE ReadStep
    BY <2>1, <2>4, ReadStepKeeps, ReadStepSettles
  <2>5. CASE UNCHANGED vars
    <3>1. mem' = mem /\ file' = file /\ rd' = rd /\ saved' = saved /\ rounds' = rounds
      BY <2>5 DEF vars
    <3> QED  BY <3>1 DEF SettleInv, Carried, FromOurFile
  <2> QED  BY <2>2, <2>3, <2>4, <2>5 DEF Next
<1> QED  BY <1>1, InitSettles, RoundInvHolds, PTL DEF Spec

LEMMA PropertiesSettleIs == SettleInv => PropertiesSettle
<1> SUFFICES ASSUME SettleInv, LoadedBack, rounds > 0 PROVE AllSettled(mem)
  BY DEF PropertiesSettle
<1>1. Holds(mem, SettledProperties)
  BY DEF SettleInv, Carried, LoadedBack
<1>2. \A p \in SettledProperties : Settled(p)
  BY DEF SettledProperties
<1> QED  BY <1>1, <1>2 DEF Holds, AllSettled

\* Properties whose values have at most two type prefixes to lose come to an end of
\* their changes: after the second load, Settled holds of each one in the layout, and
\* a third save and load would give the same (the property lists of coreWriter.cc and
\* coreReader.cc, and the encodings of their values).
THEOREM PropertiesSettleHolds == TwoPrefixes /\ Spec /\ []NumbersLeft => []PropertiesSettle
BY SettleInvHolds, PropertiesSettleIs, PTL
=============================================================================
