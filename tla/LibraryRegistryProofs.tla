----------------------- MODULE LibraryRegistryProofs -----------------------
(***************************************************************************)
(* Theorems about LibraryRegistry, for any sets of libraries, names,       *)
(* contents, technologies and cells of the using layout.                   *)
(***************************************************************************)
EXTENDS LibraryRegistry, NumberInduction

-----------------------------------------------------------------------------
(* Folds over a finite set of cells                                        *)

Pick(T) == CHOOSE x \in T : TRUE

(* What holds of the empty set, and of a set if it holds without the       *)
(* element that a fold picks, holds of all subsets of a finite set.        *)
LEMMA SubsetInduction ==
  ASSUME NEW S, IsFiniteSet(S), NEW Q, {} \in Q,
         \A T \in SUBSET S : T # {} /\ T \ {Pick(T)} \in Q => T \in Q
  PROVE  S \in Q
<1> DEFINE N == {n \in Nat : \A T \in SUBSET S : Cardinality(T) <= n => T \in Q}
<1>1. \A T \in SUBSET S : IsFiniteSet(T) /\ Cardinality(T) \in Nat
  BY FS_Subset, FS_CardinalityType
<1>2. 0 \in N
  <2>1. \A T \in SUBSET S : Cardinality(T) <= 0 => T = {}
    BY <1>1, FS_EmptySet
  <2> QED  BY <2>1
<1>3. ASSUME NEW n \in Nat, n \in N PROVE n + 1 \in N
  <2>1. ASSUME NEW T \in SUBSET S, Cardinality(T) <= n + 1, T # {} PROVE T \in Q
    <3>1. Pick(T) \in T
      BY <2>1 DEF Pick
    <3>2. Cardinality(T \ {Pick(T)}) = Cardinality(T) - 1
      BY <1>1, <3>1, FS_RemoveElement
    <3>3. Cardinality(T \ {Pick(T)}) <= n /\ T \ {Pick(T)} \in SUBSET S
      BY <1>1, <2>1, <3>2
    <3>4. T \ {Pick(T)} \in Q
      BY <1>3, <3>3
    <3> QED  BY <2>1, <3>4
  <2>2. \A T \in SUBSET S : Cardinality(T) <= n + 1 => T \in Q
    BY <2>1
  <2> QED  BY <2>2
<1>4. Cardinality(S) \in N
  <2> HIDE DEF N
  <2> QED  BY <1>1, <1>2, <1>3, SetInduction
<1> QED  BY <1>1, <1>4


(* The folds of a call go from cell to cell: what the registry has come to *)
(* after the cells of a set follows from what it was before the last one.  *)
ResolvedUpto(g, to) ==
  LET upto[T \in SUBSET DOMAIN to] ==
        IF T = {} THEN g ELSE Resolved(upto[T \ {Pick(T)}], Pick(T), to[Pick(T)])
  IN  upto

LEMMA ResolvedAllFold ==
  ASSUME NEW g, NEW to, IsFiniteSet(DOMAIN to)
  PROVE  /\ ResolvedUpto(g, to)[{}] = g /\ ResolvedUpto(g, to)[DOMAIN to] = ResolvedAll(g, to)
         /\ \A T \in SUBSET DOMAIN to : T # {} =>
              ResolvedUpto(g, to)[T] = Resolved(ResolvedUpto(g, to)[T \ {Pick(T)}], Pick(T), to[Pick(T)])
<1> DEFINE S == DOMAIN to
           Body(f, T) == IF T = {} THEN g ELSE Resolved(f[T \ {Pick(T)}], Pick(T), to[Pick(T)])
           Small(n) == {T \in SUBSET S : Cardinality(T) <= n}
           N == {n \in Nat : \E f : f = [T \in Small(n) |-> Body(f, T)]}
<1>1. \A T \in SUBSET S : IsFiniteSet(T) /\ Cardinality(T) \in Nat
  BY FS_Subset, FS_CardinalityType
<1>2. \A n \in Nat : \A T \in SUBSET S : T # {} /\ T \in Small(n + 1) => T \ {Pick(T)} \in Small(n)
  <2> SUFFICES ASSUME NEW n \in Nat, NEW T \in SUBSET S, T # {}, Cardinality(T) <= n + 1
               PROVE  Cardinality(T \ {Pick(T)}) <= n
    OBVIOUS
  <2>1. Pick(T) \in T
    BY DEF Pick
  <2>2. Cardinality(T \ {Pick(T)}) = Cardinality(T) - 1
    BY <1>1, <2>1, FS_RemoveElement
  <2> QED  BY <1>1, <2>2
<1>3. 0 \in N
  <2>1. Small(0) = {{}}
    <3>1. \A T \in SUBSET S : Cardinality(T) <= 0 <=> T = {}
      BY <1>1, FS_EmptySet
    <3> QED  BY <3>1
  <2> DEFINE f == [T \in {{}} |-> g]
  <2>2. f = [T \in {{}} |-> Body(f, T)]
    OBVIOUS
  <2> HIDE DEF f, Body, Small
  <2>3. f = [T \in Small(0) |-> Body(f, T)]
    BY <2>1, <2>2
  <2> QED  BY <2>3
<1>4. ASSUME NEW n \in Nat, n \in N PROVE n + 1 \in N
  <2>1. PICK f : f = [T \in Small(n) |-> Body(f, T)]
    BY <1>4
  <2> DEFINE h == [T \in Small(n + 1) |-> IF T \in Small(n) THEN f[T] ELSE Body(f, T)]
  <2>2. ASSUME NEW T \in Small(n + 1) PROVE h[T] = Body(h, T)
    <3>1. CASE T = {}
      <4>1. {} \in Small(n)
        BY FS_EmptySet
      <4>2. h[T] = f[T] /\ f[T] = g
        <5> HIDE DEF Small
        <5> QED  BY <2>1, <3>1, <4>1
      <4> QED  BY <3>1, <4>2
    <3>2. CASE T # {}
      <4> DEFINE U == T \ {Pick(T)}
      <4>1. U \in Small(n) /\ T \in SUBSET S
        BY <1>2, <3>2
      <4>2. U \in Small(n + 1)
        BY <1>1, <4>1
      <4>3. h[U] = f[U]
        <5> HIDE DEF Small, U, Body
        <5> QED  BY <4>1, <4>2
      <4>4. Body(h, T) = Body(f, T)
        <5> HIDE DEF h, Small
        <5> QED  BY <4>3
      <4>5. h[T] = Body(f, T)
        <5> HIDE DEF Body, Small
        <5>1. CASE T \in Small(n)
          BY <2>1, <5>1
        <5>2. CASE T \notin Small(n)
          BY <5>2
        <5> QED  BY <5>1, <5>2
      <4> QED  BY <4>4, <4>5
    <3> QED  BY <3>1, <3>2
  <2> HIDE DEF Body, Small
  <2>3. h = [T \in Small(n + 1) |-> Body(h, T)]
    BY <2>2
  <2> HIDE DEF h
  <2> QED  BY <2>3
<1>5. Cardinality(S) \in N
  <2> HIDE DEF N
  <2> QED  BY <1>1, <1>3, <1>4, SetInduction
<1>6. Small(Cardinality(S)) = SUBSET S
  <2>1. \A T \in SUBSET S : Cardinality(T) <= Cardinality(S)
    BY FS_Subset
  <2> QED  BY <2>1
<1> DEFINE F == ResolvedUpto(g, to)
<1>7. F = [T \in SUBSET S |-> Body(F, T)]
  <2>1. \E f : f = [T \in SUBSET S |-> Body(f, T)]
    <3> HIDE DEF Body, Small
    <3> QED  BY <1>5, <1>6
  <2>2. F = CHOOSE f : f = [T \in SUBSET S |-> Body(f, T)]
    BY DEF ResolvedUpto
  <2> HIDE DEF Body, F
  <2> QED  BY <2>1, <2>2
<1>8. F[S] = ResolvedAll(g, to)
  BY DEF ResolvedUpto, ResolvedAll, FoldSet, MapThenFoldSet, Pick
<1> HIDE DEF F
<1>9. \A T \in SUBSET S : F[T] = Body(F, T)
  <2> HIDE DEF Body
  <2> QED  BY <1>7
<1> QED  BY <1>8, <1>9 DEF F


WarmedUpto(g, to) ==
  LET upto[T \in SUBSET DOMAIN to] ==
        IF T = {} THEN g ELSE Warmed(upto[T \ {Pick(T)}], Pick(T), to[Pick(T)])
  IN  upto

LEMMA WarmedAllFold ==
  ASSUME NEW g, NEW to, IsFiniteSet(DOMAIN to)
  PROVE  /\ WarmedUpto(g, to)[{}] = g /\ WarmedUpto(g, to)[DOMAIN to] = WarmedAll(g, to)
         /\ \A T \in SUBSET DOMAIN to : T # {} =>
              WarmedUpto(g, to)[T] = Warmed(WarmedUpto(g, to)[T \ {Pick(T)}], Pick(T), to[Pick(T)])
<1> DEFINE S == DOMAIN to
           Body(f, T) == IF T = {} THEN g ELSE Warmed(f[T \ {Pick(T)}], Pick(T), to[Pick(T)])
           Small(n) == {T \in SUBSET S : Cardinality(T) <= n}
           N == {n \in Nat : \E f : f = [T \in Small(n) |-> Body(f, T)]}
<1>1. \A T \in SUBSET S : IsFiniteSet(T) /\ Cardinality(T) \in Nat
  BY FS_Subset, FS_CardinalityType
<1>2. \A n \in Nat : \A T \in SUBSET S : T # {} /\ T \in Small(n + 1) => T \ {Pick(T)} \in Small(n)
  <2> SUFFICES ASSUME NEW n \in Nat, NEW T \in SUBSET S, T # {}, Cardinality(T) <= n + 1
               PROVE  Cardinality(T \ {Pick(T)}) <= n
    OBVIOUS
  <2>1. Pick(T) \in T
    BY DEF Pick
  <2>2. Cardinality(T \ {Pick(T)}) = Cardinality(T) - 1
    BY <1>1, <2>1, FS_RemoveElement
  <2> QED  BY <1>1, <2>2
<1>3. 0 \in N
  <2>1. Small(0) = {{}}
    <3>1. \A T \in SUBSET S : Cardinality(T) <= 0 <=> T = {}
      BY <1>1, FS_EmptySet
    <3> QED  BY <3>1
  <2> DEFINE f == [T \in {{}} |-> g]
  <2>2. f = [T \in {{}} |-> Body(f, T)]
    OBVIOUS
  <2> HIDE DEF f, Body, Small
  <2>3. f = [T \in Small(0) |-> Body(f, T)]
    BY <2>1, <2>2
  <2> QED  BY <2>3
<1>4. ASSUME NEW n \in Nat, n \in N PROVE n + 1 \in N
  <2>1. PICK f : f = [T \in Small(n) |-> Body(f, T)]
    BY <1>4
  <2> DEFINE h == [T \in Small(n + 1) |-> IF T \in Small(n) THEN f[T] ELSE Body(f, T)]
  <2>2. ASSUME NEW T \in Small(n + 1) PROVE h[T] = Body(h, T)
    <3>1. CASE T = {}
      <4>1. {} \in Small(n)
        BY FS_EmptySet
      <4>2. h[T] = f[T] /\ f[T] = g
        <5> HIDE DEF Small
        <5> QED  BY <2>1, <3>1, <4>1
      <4> QED  BY <3>1, <4>2
    <3>2. CASE T # {}
      <4> DEFINE U == T \ {Pick(T)}
      <4>1. U \in Small(n) /\ T \in SUBSET S
        BY <1>2, <3>2
      <4>2. U \in Small(n + 1)
        BY <1>1, <4>1
      <4>3. h[U] = f[U]
        <5> HIDE DEF Small, U, Body
        <5> QED  BY <4>1, <4>2
      <4>4. Body(h, T) = Body(f, T)
        <5> HIDE DEF h, Small
        <5> QED  BY <4>3
      <4>5. h[T] = Body(f, T)
        <5> HIDE DEF Body, Small
        <5>1. CASE T \in Small(n)
          BY <2>1, <5>1
        <5>2. CASE T \notin Small(n)
          BY <5>2
        <5> QED  BY <5>1, <5>2
      <4> QED  BY <4>4, <4>5
    <3> QED  BY <3>1, <3>2
  <2> HIDE DEF Body, Small
  <2>3. h = [T \in Small(n + 1) |-> Body(h, T)]
    BY <2>2
  <2> HIDE DEF h
  <2> QED  BY <2>3
<1>5. Cardinality(S) \in N
  <2> HIDE DEF N
  <2> QED  BY <1>1, <1>3, <1>4, SetInduction
<1>6. Small(Cardinality(S)) = SUBSET S
  <2>1. \A T \in SUBSET S : Cardinality(T) <= Cardinality(S)
    BY FS_Subset
  <2> QED  BY <2>1
<1> DEFINE F == WarmedUpto(g, to)
<1>7. F = [T \in SUBSET S |-> Body(F, T)]
  <2>1. \E f : f = [T \in SUBSET S |-> Body(f, T)]
    <3> HIDE DEF Body, Small
    <3> QED  BY <1>5, <1>6
  <2>2. F = CHOOSE f : f = [T \in SUBSET S |-> Body(f, T)]
    BY DEF WarmedUpto
  <2> HIDE DEF Body, F
  <2> QED  BY <2>1, <2>2
<1>8. F[S] = WarmedAll(g, to)
  BY DEF WarmedUpto, WarmedAll, FoldSet, MapThenFoldSet, Pick
<1> HIDE DEF F
<1>9. \A T \in SUBSET S : F[T] = Body(F, T)
  <2> HIDE DEF Body
  <2> QED  BY <1>7
<1> QED  BY <1>8, <1>9 DEF F


-----------------------------------------------------------------------------
(* Registries                                                              *)

Objects ==
  [name : Names \cup {None}, technologies : SUBSET Technologies, cells : Contents \cup {<<>>},
   refcount : [Indexes -> Nat], retired : [Indexes -> Nat], referrers : Nat]
LiveProxies == {Live(id, i) : id \in Nat, i \in Indexes}
ColdProxies == {Cold(n, c) : n \in Names \cup {None}, c \in Cells \cup {None}}
Proxies == {Empty} \cup LiveProxies \cup ColdProxies

IsRegistry(g) ==
  /\ g = [libs |-> g.libs, byName |-> g.byName, object |-> g.object, proxy |-> g.proxy]
  /\ g.libs \in Seq(Libraries \cup {None}) /\ g.byName \in [Names -> Seq(Nat)]
  /\ g.object \in [Libraries -> Objects] /\ g.proxy \in [CellIndexes -> Proxies]

\* The libraries are the same, but for their counts.
SameLibraries(g, h) ==
  /\ h.libs = g.libs /\ h.byName = g.byName
  /\ \A l \in Libraries :
       /\ h.object[l].name = g.object[l].name
       /\ h.object[l].technologies = g.object[l].technologies
       /\ h.object[l].cells = g.object[l].cells

LEMMA ProxyForms ==
  /\ Empty \in Proxies /\ ~IsLive(Empty) /\ ~IsCold(Empty)
  /\ \A p \in LiveProxies :
       p \in Proxies /\ IsLive(p) /\ ~IsCold(p) /\ p # Empty /\ p.id \in Nat /\ p.index \in Indexes
  /\ \A p \in ColdProxies :
       p \in Proxies /\ IsCold(p) /\ ~IsLive(p) /\ p # Empty
       /\ p.library \in Names \cup {None} /\ p.cell \in Cells \cup {None}
  /\ \A p \in Proxies : /\ IsLive(p) => p \in LiveProxies
                        /\ IsCold(p) => p \in ColdProxies
                        /\ ~IsLive(p) /\ ~IsCold(p) => p = Empty
BY DEF Proxies, LiveProxies, ColdProxies, Empty, Live, Cold, IsLive, IsCold

LEMMA NotEmpty ==
  ASSUME NEW p
  PROVE  IsLive(p) \/ IsCold(p) => p # Empty
BY DEF IsLive, IsCold, Empty

LEMMA LiveForm ==
  ASSUME NEW id \in Nat, NEW i \in Indexes
  PROVE  Live(id, i) \in LiveProxies /\ Live(id, i).id = id /\ Live(id, i).index = i
BY DEF LiveProxies, Live

LEMMA ColdForm ==
  ASSUME NEW n \in Names \cup {None}, NEW c \in Cells \cup {None}
  PROVE  Cold(n, c) \in ColdProxies /\ Cold(n, c).library = n /\ Cold(n, c).cell = c
BY DEF ColdProxies, Cold

LEMMA PlacedIs ==
  ASSUME NEW g, IsRegistry(g), NEW s \in CellIndexes, NEW p \in Proxies
  PROVE  LET h == Placed(g, s, p) IN
         /\ IsRegistry(h) /\ SameLibraries(g, h) /\ h.object = g.object
         /\ h.proxy[s] = p /\ \A t \in CellIndexes : t # s => h.proxy[t] = g.proxy[t]
<1> DEFINE h == Placed(g, s, p)
<1>1. /\ h = [libs |-> g.libs, byName |-> g.byName, object |-> g.object, proxy |-> [g.proxy EXCEPT ![s] = p]]
  <2>1. g = [libs |-> g.libs, byName |-> g.byName, object |-> g.object, proxy |-> g.proxy]
    BY DEF IsRegistry
  <2> QED  BY <2>1 DEF Placed
<1> HIDE DEF h
<1>2. h.libs = g.libs /\ h.byName = g.byName /\ h.object = g.object /\ h.proxy = [g.proxy EXCEPT ![s] = p]
  BY <1>1
<1>3. IsRegistry(h)
  <2>1. h = [libs |-> h.libs, byName |-> h.byName, object |-> h.object, proxy |-> h.proxy]
    BY <1>1
  <2> QED  BY <1>2, <2>1 DEF IsRegistry
<1> QED  BY <1>2, <1>3 DEF h, SameLibraries, IsRegistry

\* Only the counts of one library cell may differ.
CountsDiffer(g, h, l, i, n, m) ==
  /\ IsRegistry(h) /\ SameLibraries(g, h) /\ h.proxy = g.proxy
  /\ \A k \in Libraries, j \in Indexes :
       h.object[k].refcount[j] = IF k = l /\ j = i THEN n ELSE g.object[k].refcount[j]
  /\ \A k \in Libraries : h.object[k].referrers = IF k = l THEN m ELSE g.object[k].referrers

LEMMA RecountedIs ==
  ASSUME NEW g, IsRegistry(g), NEW l \in Libraries, NEW i \in Indexes, NEW n \in Nat, NEW m \in Nat,
         NEW h, h = [g EXCEPT !.object[l].refcount[i] = n, !.object[l].referrers = m]
  PROVE  CountsDiffer(g, h, l, i, n, m)
<1> DEFINE o == g.object[l]
           new == [o EXCEPT !.refcount = [o.refcount EXCEPT ![i] = n], !.referrers = m]
<1>1. h = [libs |-> g.libs, byName |-> g.byName, object |-> [g.object EXCEPT ![l] = new], proxy |-> g.proxy]
  BY DEF IsRegistry, Objects
<1>2. o \in Objects
  BY DEF IsRegistry
<1>3. /\ new \in Objects /\ new.name = o.name /\ new.technologies = o.technologies /\ new.cells = o.cells
      /\ new.referrers = m /\ \A j \in Indexes : new.refcount[j] = IF j = i THEN n ELSE o.refcount[j]
  BY <1>2 DEF Objects
<1> HIDE DEF new
<1>4. h.libs = g.libs /\ h.byName = g.byName /\ h.object = [g.object EXCEPT ![l] = new] /\ h.proxy = g.proxy
  <2> DEFINE r == [libs |-> g.libs, byName |-> g.byName, object |-> [g.object EXCEPT ![l] = new], proxy |-> g.proxy]
  <2>1. r.libs = g.libs /\ r.byName = g.byName /\ r.object = [g.object EXCEPT ![l] = new] /\ r.proxy = g.proxy
    OBVIOUS
  <2>2. h = r
    BY <1>1
  <2> HIDE DEF r
  <2> QED  BY <2>1, <2>2, Zenon
<1>5. IsRegistry(h)
  <2>1. h = [libs |-> h.libs, byName |-> h.byName, object |-> h.object, proxy |-> h.proxy]
    BY <1>1
  <2> QED  BY <1>3, <1>4, <2>1, ZenonT(30) DEF IsRegistry
<1>6. \A k \in Libraries : h.object[k] = IF k = l THEN new ELSE g.object[k]
  BY <1>4 DEF IsRegistry
<1>7. SameLibraries(g, h)
  BY <1>3, <1>4, <1>6 DEF SameLibraries
<1>8. ASSUME NEW k \in Libraries, NEW j \in Indexes
      PROVE  h.object[k].refcount[j] = IF k = l /\ j = i THEN n ELSE g.object[k].refcount[j]
  <2>1. h.object[k] = IF k = l THEN new ELSE g.object[k]
    BY <1>6
  <2>2. CASE k = l
    <3>1. new.refcount[j] = IF j = i THEN n ELSE o.refcount[j]
      BY <1>3
    <3> QED  BY <2>1, <2>2, <3>1
  <2>3. CASE k # l
    BY <2>1, <2>3
  <2> QED  BY <2>2, <2>3
<1>9. ASSUME NEW k \in Libraries PROVE h.object[k].referrers = IF k = l THEN m ELSE g.object[k].referrers
  <2>1. h.object[k] = IF k = l THEN new ELSE g.object[k]
    BY <1>6
  <2>2. CASE k = l
    BY <1>3, <2>1, <2>2
  <2>3. CASE k # l
    BY <2>1, <2>3
  <2> QED  BY <2>2, <2>3
<1> HIDE DEF o
<1> QED  BY <1>4, <1>5, <1>7, <1>8, <1>9, Zenon DEF CountsDiffer


LEMMA LibIs ==
  ASSUME NEW g, IsRegistry(g), NEW id
  PROVE  /\ Lib(g, id) \in Libraries \cup {None}
         /\ Lib(g, id) # None => id \in DOMAIN g.libs /\ Lib(g, id) = g.libs[id] /\ Lib(g, id) \in Libraries
         /\ id \in DOMAIN g.libs => Lib(g, id) = g.libs[id]
<1>1. \A j \in DOMAIN g.libs : g.libs[j] \in Libraries \cup {None}
  BY ElementOfSeq, LenProperties DEF IsRegistry
<1> QED  BY <1>1 DEF Lib

LEMMA SameLib ==
  ASSUME NEW g, NEW h, SameLibraries(g, h)
  PROVE  \A id : Lib(h, id) = Lib(g, id)
BY DEF SameLibraries, Lib

-----------------------------------------------------------------------------
(* Counts.  Who holds a reference is kept apart from the proxies, since in *)
(* the course of a call a proxy is counted before or after it is placed.   *)

Nobody == [lib |-> None, index |-> 0]
Holdings == [lib : Libraries \cup {None}, index : Indexes \cup {0}]
Holders == [CellIndexes -> Holdings]
HoldersOf(who, l) == {s \in CellIndexes : who[s].lib = l}
HoldersAt(who, l, i) == {s \in CellIndexes : who[s].lib = l /\ who[s].index = i}
Exact(g, who) ==
  \A l \in Libraries :
    /\ \A i \in Indexes : g.object[l].refcount[i] = Cardinality(HoldersAt(who, l, i))
    /\ g.object[l].referrers = Cardinality(HoldersOf(who, l))

HolderOf(g, p) == IF IsLive(p) THEN [lib |-> Lib(g, p.id), index |-> p.index] ELSE Nobody

LEMMA HolderIs ==
  ASSUME NEW g, IsRegistry(g), NEW p \in Proxies
  PROVE  HolderOf(g, p) \in Holdings
<1>1. IsLive(p) => p.index \in Indexes
  BY ProxyForms
<1> QED  BY <1>1, LibIs DEF HolderOf, Holdings, Nobody

LEMMA HolderAdded ==
  ASSUME NEW who \in Holders, NEW new \in Holders, NEW s \in CellIndexes, NEW l \in Libraries,
         who[s].lib = None, \A t \in CellIndexes : t # s => new[t] = who[t]
  PROVE  /\ Cardinality(HoldersOf(who, l)) \in Nat
         /\ Cardinality(HoldersOf(new, l)) =
              IF new[s].lib = l THEN Cardinality(HoldersOf(who, l)) + 1 ELSE Cardinality(HoldersOf(who, l))
<1>1. l # None
  BY ConstantsAssumption
<1>2. /\ IsFiniteSet(HoldersOf(who, l)) /\ s \notin HoldersOf(who, l)
      /\ HoldersOf(new, l) = IF new[s].lib = l THEN HoldersOf(who, l) \cup {s} ELSE HoldersOf(who, l)
  BY <1>1, FS_Subset, ConstantsAssumption DEF HoldersOf
<1>3. /\ Cardinality(HoldersOf(who, l)) \in Nat
      /\ Cardinality(HoldersOf(who, l) \cup {s}) = Cardinality(HoldersOf(who, l)) + 1
  BY <1>2, FS_AddElement, FS_CardinalityType
<1> QED  BY <1>2, <1>3

LEMMA HolderAddedAt ==
  ASSUME NEW who \in Holders, NEW new \in Holders, NEW s \in CellIndexes, NEW l \in Libraries, NEW i \in Indexes,
         who[s].lib = None, \A t \in CellIndexes : t # s => new[t] = who[t]
  PROVE  /\ Cardinality(HoldersAt(who, l, i)) \in Nat
         /\ Cardinality(HoldersAt(new, l, i)) =
              IF new[s].lib = l /\ new[s].index = i THEN Cardinality(HoldersAt(who, l, i)) + 1
              ELSE Cardinality(HoldersAt(who, l, i))
<1>1. l # None
  BY ConstantsAssumption
<1>2. /\ IsFiniteSet(HoldersAt(who, l, i)) /\ s \notin HoldersAt(who, l, i)
      /\ HoldersAt(new, l, i) = IF new[s].lib = l /\ new[s].index = i THEN HoldersAt(who, l, i) \cup {s}
                                ELSE HoldersAt(who, l, i)
  BY <1>1, FS_Subset, ConstantsAssumption DEF HoldersAt
<1>3. /\ Cardinality(HoldersAt(who, l, i)) \in Nat
      /\ Cardinality(HoldersAt(who, l, i) \cup {s}) = Cardinality(HoldersAt(who, l, i)) + 1
  BY <1>2, FS_AddElement, FS_CardinalityType
<1> QED  BY <1>2, <1>3

LEMMA HolderRemoved ==
  ASSUME NEW who \in Holders, NEW new \in Holders, NEW s \in CellIndexes, NEW l \in Libraries,
         new[s].lib = None, \A t \in CellIndexes : t # s => new[t] = who[t]
  PROVE  /\ Cardinality(HoldersOf(who, l)) \in Nat
         /\ who[s].lib = l => Cardinality(HoldersOf(who, l)) # 0
         /\ Cardinality(HoldersOf(new, l)) =
              IF who[s].lib = l THEN Cardinality(HoldersOf(who, l)) - 1 ELSE Cardinality(HoldersOf(who, l))
         /\ \A i \in Indexes :
              /\ Cardinality(HoldersAt(who, l, i)) \in Nat
              /\ who[s].lib = l /\ who[s].index = i => Cardinality(HoldersAt(who, l, i)) # 0
              /\ Cardinality(HoldersAt(new, l, i)) =
                   IF who[s].lib = l /\ who[s].index = i THEN Cardinality(HoldersAt(who, l, i)) - 1
                   ELSE Cardinality(HoldersAt(who, l, i))
<1>1. /\ Cardinality(HoldersOf(new, l)) \in Nat
      /\ Cardinality(HoldersOf(who, l)) =
           IF who[s].lib = l THEN Cardinality(HoldersOf(new, l)) + 1 ELSE Cardinality(HoldersOf(new, l))
  BY HolderAdded
<1>2. \A i \in Indexes :
        /\ Cardinality(HoldersAt(new, l, i)) \in Nat
        /\ Cardinality(HoldersAt(who, l, i)) =
             IF who[s].lib = l /\ who[s].index = i THEN Cardinality(HoldersAt(new, l, i)) + 1
             ELSE Cardinality(HoldersAt(new, l, i))
  BY HolderAddedAt
<1> QED  BY <1>1, <1>2


\* A call keeps the registry but for the counts, which are exact for new holders.
Recounted(g, h, who) ==
  IsRegistry(h) /\ SameLibraries(g, h) /\ h.proxy = g.proxy /\ Exact(h, who)

LEMMA ObjectCounts ==
  ASSUME NEW g, IsRegistry(g), NEW l \in Libraries
  PROVE  g.object[l].referrers \in Nat /\ \A i \in Indexes : g.object[l].refcount[i] \in Nat
<1>1. g.object[l] \in Objects
  BY DEF IsRegistry
<1> QED  BY <1>1 DEF Objects

LEMMA SameRegistry ==
  ASSUME NEW g, IsRegistry(g), NEW who, Exact(g, who)
  PROVE  Recounted(g, g, who)
BY DEF Recounted, SameLibraries

LEMMA UncountedIs ==
  ASSUME NEW g, IsRegistry(g), NEW p \in LiveProxies,
         NEW who \in Holders, NEW new \in Holders, NEW s \in CellIndexes, Exact(g, who),
         who[s] = HolderOf(g, p),
         new[s].lib = None, \A t \in CellIndexes : t # s => new[t] = who[t]
  PROVE  Recounted(g, Uncounted(g, p), new)
<1> DEFINE l == Lib(g, p.id)
           h == Uncounted(g, p)
<1>1. IsLive(p) /\ p.index \in Indexes
  BY ProxyForms
<1>2. who[s].lib = l /\ who[s].index = p.index
  BY <1>1 DEF HolderOf
<1>3. CASE l = None
  <2>1. h = g
    BY <1>3 DEF Uncounted
  <2>2. \A k \in Libraries :
          /\ HoldersOf(new, k) = HoldersOf(who, k)
          /\ \A i \in Indexes : HoldersAt(new, k, i) = HoldersAt(who, k, i)
    <3>1. None \notin Libraries
      BY ConstantsAssumption
    <3> QED  BY <1>2, <1>3, <3>1 DEF HoldersOf, HoldersAt
  <2>3. Exact(g, new)
    BY <2>2 DEF Exact
  <2> QED  BY <2>1, <2>3, SameRegistry
<1>4. CASE l # None
  <2>1. l \in Libraries
    BY <1>4, LibIs
  <2> DEFINE n == Less(g.object[l].refcount[p.index])
             m == Less(g.object[l].referrers)
  <2>2. n \in Nat /\ m \in Nat
    BY <1>1, <2>1, ObjectCounts DEF Less
  <2>3. h = [g EXCEPT !.object[l].refcount[p.index] = n, !.object[l].referrers = m]
    BY <1>4 DEF Uncounted
  <2> HIDE DEF h, n, m, l
  <2>4. CountsDiffer(g, h, l, p.index, n, m)
    BY <1>1, <2>1, <2>2, <2>3, RecountedIs
  <2>5. n = Cardinality(HoldersAt(new, l, p.index)) /\ m = Cardinality(HoldersOf(new, l))
    <3>1. /\ g.object[l].refcount[p.index] = Cardinality(HoldersAt(who, l, p.index))
          /\ g.object[l].referrers = Cardinality(HoldersOf(who, l))
      BY <1>1, <2>1 DEF Exact
    <3> QED  BY <1>1, <1>2, <2>1, <3>1, HolderRemoved DEF n, m, Less
  <2>6. ASSUME NEW k \in Libraries
        PROVE  /\ k # l => h.object[k].referrers = Cardinality(HoldersOf(new, k))
               /\ \A i \in Indexes : k # l \/ i # p.index =>
                    h.object[k].refcount[i] = Cardinality(HoldersAt(new, k, i))
    <3>1. /\ k # l => Cardinality(HoldersOf(new, k)) = Cardinality(HoldersOf(who, k))
          /\ \A i \in Indexes : k # l \/ i # p.index =>
               Cardinality(HoldersAt(new, k, i)) = Cardinality(HoldersAt(who, k, i))
      BY <1>2, HolderRemoved
    <3> QED  BY <2>4, <3>1 DEF CountsDiffer, Exact
  <2>7. Exact(h, new)
    BY <2>4, <2>5, <2>6 DEF Exact, CountsDiffer
  <2> QED  BY <2>4, <2>7 DEF CountsDiffer, Recounted, h
<1> QED  BY <1>3, <1>4

LEMMA CountedIs ==
  ASSUME NEW g, IsRegistry(g), NEW p \in LiveProxies,
         NEW who \in Holders, NEW new \in Holders, NEW s \in CellIndexes, Exact(g, who),
         new[s] = HolderOf(g, p),
         who[s].lib = None, \A t \in CellIndexes : t # s => new[t] = who[t]
  PROVE  Recounted(g, Counted(g, p), new)
<1> DEFINE l == Lib(g, p.id)
           h == Counted(g, p)
<1>1. IsLive(p) /\ p.index \in Indexes
  BY ProxyForms
<1>2. new[s].lib = l /\ new[s].index = p.index
  BY <1>1 DEF HolderOf
<1>3. CASE l = None
  <2>1. h = g
    BY <1>3 DEF Counted
  <2>2. \A k \in Libraries :
          /\ HoldersOf(new, k) = HoldersOf(who, k)
          /\ \A i \in Indexes : HoldersAt(new, k, i) = HoldersAt(who, k, i)
    <3>1. None \notin Libraries
      BY ConstantsAssumption
    <3> QED  BY <1>2, <1>3, <3>1 DEF HoldersOf, HoldersAt
  <2>3. Exact(g, new)
    BY <2>2 DEF Exact
  <2> QED  BY <2>1, <2>3, SameRegistry
<1>4. CASE l # None
  <2>1. l \in Libraries
    BY <1>4, LibIs
  <2> DEFINE n == g.object[l].refcount[p.index] + 1
             m == g.object[l].referrers + 1
  <2>2. n \in Nat /\ m \in Nat
    BY <1>1, <2>1, ObjectCounts
  <2>3. h = [g EXCEPT !.object[l].refcount[p.index] = n, !.object[l].referrers = m]
    BY <1>4 DEF Counted
  <2> HIDE DEF h, n, m, l
  <2>4. CountsDiffer(g, h, l, p.index, n, m)
    BY <1>1, <2>1, <2>2, <2>3, RecountedIs
  <2>5. n = Cardinality(HoldersAt(new, l, p.index)) /\ m = Cardinality(HoldersOf(new, l))
    <3>1. /\ g.object[l].refcount[p.index] = Cardinality(HoldersAt(who, l, p.index))
          /\ g.object[l].referrers = Cardinality(HoldersOf(who, l))
      BY <1>1, <2>1 DEF Exact
    <3> QED  BY <1>1, <1>2, <2>1, <3>1, HolderAdded, HolderAddedAt DEF n, m
  <2>6. ASSUME NEW k \in Libraries
        PROVE  /\ k # l => h.object[k].referrers = Cardinality(HoldersOf(new, k))
               /\ \A i \in Indexes : k # l \/ i # p.index =>
                    h.object[k].refcount[i] = Cardinality(HoldersAt(new, k, i))
    <3>1. k # l => Cardinality(HoldersOf(new, k)) = Cardinality(HoldersOf(who, k))
      BY <1>2, HolderAdded
    <3>2. \A i \in Indexes : k # l \/ i # p.index =>
            Cardinality(HoldersAt(new, k, i)) = Cardinality(HoldersAt(who, k, i))
      BY <1>2, HolderAddedAt
    <3> QED  BY <2>4, <3>1, <3>2 DEF CountsDiffer, Exact
  <2>7. Exact(h, new)
    BY <2>4, <2>5, <2>6 DEF Exact, CountsDiffer
  <2> QED  BY <2>4, <2>7 DEF CountsDiffer, Recounted, h
<1> QED  BY <1>3, <1>4

LEMMA RetiredIs ==
  ASSUME NEW g, IsRegistry(g), NEW p \in Proxies, NEW who, Exact(g, who)
  PROVE  Recounted(g, Retired(g, p), who) /\ Recounted(g, Unretired(g, p), who)
<1>1. ASSUME NEW l \in Libraries, NEW i \in Indexes, NEW n \in Nat, NEW h, h = [g EXCEPT !.object[l].retired[i] = n]
      PROVE  Recounted(g, h, who)
  <2> DEFINE o == g.object[l]
             x == [o EXCEPT !.retired = [o.retired EXCEPT ![i] = n]]
             r == [libs |-> g.libs, byName |-> g.byName, object |-> [g.object EXCEPT ![l] = x], proxy |-> g.proxy]
  <2>1. h = r
    BY <1>1 DEF IsRegistry, Objects
  <2>2. r.libs = g.libs /\ r.byName = g.byName /\ r.object = [g.object EXCEPT ![l] = x] /\ r.proxy = g.proxy
    OBVIOUS
  <2>3. r = [libs |-> r.libs, byName |-> r.byName, object |-> r.object, proxy |-> r.proxy]
    OBVIOUS
  <2>4. o \in Objects
    BY DEF IsRegistry
  <2>5. /\ x \in Objects /\ x.name = o.name /\ x.technologies = o.technologies /\ x.cells = o.cells
        /\ x.referrers = o.referrers /\ x.refcount = o.refcount
    BY <2>4 DEF Objects
  <2> HIDE DEF x, r
  <2>6. IsRegistry(r)
    BY <2>2, <2>3, <2>5 DEF IsRegistry
  <2>7. \A k \in Libraries : r.object[k] = IF k = l THEN x ELSE g.object[k]
    BY <2>2 DEF IsRegistry
  <2>8. SameLibraries(g, r)
    BY <2>2, <2>5, <2>7 DEF SameLibraries
  <2>9. \A k \in Libraries : r.object[k].refcount = g.object[k].refcount /\ r.object[k].referrers = g.object[k].referrers
    BY <2>5, <2>7
  <2>10. Exact(r, who)
    BY <2>9 DEF Exact
  <2> QED  BY <2>1, <2>2, <2>6, <2>8, <2>10 DEF Recounted
<1>2. Recounted(g, g, who)
  BY SameRegistry
<1>3. CASE MaxRetired = 0 \/ ~IsLive(p) \/ Lib(g, p.id) = None
  BY <1>2, <1>3 DEF Retired, Unretired
<1>4. CASE ~(MaxRetired = 0 \/ ~IsLive(p) \/ Lib(g, p.id) = None)
  <2> DEFINE l == Lib(g, p.id)
             c == g.object[l].retired[p.index]
  <2>1. l \in Libraries /\ p.index \in Indexes
    BY <1>4, LibIs, ProxyForms
  <2>2. c \in Nat
    <3>1. g.object[l] \in Objects
      BY <2>1 DEF IsRegistry
    <3> QED  BY <2>1, <3>1 DEF Objects
  <2>3. c + 1 \in Nat /\ Less(c) \in Nat
    BY <2>2 DEF Less
  <2>4. /\ Retired(g, p) = [g EXCEPT !.object[l].retired[p.index] = c + 1]
        /\ Unretired(g, p) = [g EXCEPT !.object[l].retired[p.index] = Less(c)]
    BY <1>4 DEF Retired, Unretired
  <2> HIDE DEF l, c
  <2> QED  BY <1>1, <2>1, <2>3, <2>4
<1> QED  BY <1>3, <1>4


-----------------------------------------------------------------------------
(* What holds of the registry in the course of a call.  m is the cell that *)
(* each proxy was made for, who the holder that each proxy is counted as;  *)
(* of a cell without a proxy, it is the proxy that the history keeps.      *)

LibsOK(g) == \A i, j \in DOMAIN g.libs : g.libs[i] = g.libs[j] /\ g.libs[i] # None => i = j

Once(e, id) == \A j, k \in DOMAIN e : e[j] = id /\ e[k] = id => j = k

\* What the entries e of the name n must be for an id that is not excepted.
Titled(g, e, n, id) == Lib(g, id) # None /\ g.object[Lib(g, id)].name = n /\ Once(e, id)

IdsOK(g, n) ==
  \A k \in DOMAIN g.byName[n] : LET id == g.byName[n][k] IN
    /\ id \in DOMAIN g.libs
    /\ id \notin misnamed => Titled(g, g.byName[n], n, id)
NamesOK(g) ==
  /\ \A i \in DOMAIN g.libs : g.libs[i] # None => g.object[g.libs[i]].name \in Names
  /\ \A n \in Names : IdsOK(g, n)

Match(g, who) == \A s \in CellIndexes : g.proxy[s] # Empty => who[s] = HolderOf(g, g.proxy[s])

Means(g, p, c) ==
  /\ p # Empty => c # None
  /\ IsLive(p) => CellOf(g, p) = c
  /\ IsCold(p) => p.cell = c
Refs(g, m) == \A s \in CellIndexes : Means(g, g.proxy[s], m[s])

CallInv(g, who, m) ==
  /\ IsRegistry(g) /\ LibsOK(g) /\ NamesOK(g)
  /\ who \in Holders /\ Exact(g, who) /\ Match(g, who) /\ Refs(g, m)

LEMMA CellsAre ==
  ASSUME NEW g, IsRegistry(g), NEW id
  PROVE  /\ CellsOf(g, id) \in Seq(Cells) /\ DOMAIN CellsOf(g, id) \subseteq Indexes
         /\ Lib(g, id) = None => DOMAIN CellsOf(g, id) = {}
         /\ Lib(g, id) # None => CellsOf(g, id) = g.object[Lib(g, id)].cells
<1>1. <<>> \in Seq(Cells) /\ DOMAIN <<>> = {}
  OBVIOUS
<1>2. ASSUME NEW c \in Contents PROVE c \in Seq(Cells) /\ DOMAIN c \subseteq Indexes
  <2>1. c \in Seq(Cells) /\ IsInjective(c)
    BY ConstantsAssumption
  <2>2. Len(c) \in Nat /\ DOMAIN c = 1..Len(c) /\ c \in [1..Len(c) -> Cells]
    BY <2>1, LenProperties
  <2>3. c \in Injection(1..Len(c), Cells)
    BY <2>1, <2>2 DEF Injection
  <2>4. Cardinality(1..Len(c)) <= Cardinality(Cells)
    BY <2>3, FS_Injection, ConstantsAssumption
  <2>5. Cardinality(1..Len(c)) = Len(c)
    BY <2>2, FS_Interval
  <2>6. Cardinality(Cells) \in Nat
    BY FS_CardinalityType, ConstantsAssumption
  <2> QED  BY <2>1, <2>2, <2>4, <2>5, <2>6 DEF Indexes
<1>3. CASE Lib(g, id) = None
  BY <1>1, <1>3 DEF CellsOf
<1>4. CASE Lib(g, id) # None
  <2>1. g.object[Lib(g, id)] \in Objects
    BY <1>4, LibIs DEF IsRegistry
  <2>2. g.object[Lib(g, id)].cells \in Contents \cup {<<>>}
    BY <2>1 DEF Objects
  <2> QED  BY <1>1, <1>2, <1>4, <2>2 DEF CellsOf
<1> QED  BY <1>3, <1>4

\* CellOf and lookups see only the libraries.
LEMMA SameCells ==
  ASSUME NEW g, NEW h, IsRegistry(g), IsRegistry(h), SameLibraries(g, h)
  PROVE  /\ \A id : Lib(h, id) = Lib(g, id) /\ CellsOf(h, id) = CellsOf(g, id)
         /\ \A p : CellOf(h, p) = CellOf(g, p) /\ HolderOf(h, p) = HolderOf(g, p)
         /\ \A p, c : Means(g, p, c) => Means(h, p, c)
         /\ LibsOK(g) => LibsOK(h)
         /\ NamesOK(g) => NamesOK(h)
<1>1. \A id : Lib(h, id) = Lib(g, id)
  BY SameLib
<1>2. \A id : CellsOf(h, id) = CellsOf(g, id)
  BY <1>1, LibIs DEF CellsOf, SameLibraries
<1>3. \A p : CellOf(h, p) = CellOf(g, p) /\ HolderOf(h, p) = HolderOf(g, p)
  BY <1>1, <1>2 DEF CellOf, HolderOf
<1>4. LibsOK(g) => LibsOK(h)
  BY DEF LibsOK, SameLibraries
<1>5. ASSUME NamesOK(g) PROVE NamesOK(h)
  <2>1. \A i \in DOMAIN h.libs : h.libs[i] # None => h.object[h.libs[i]].name \in Names
    BY <1>5, LibIs DEF NamesOK, SameLibraries
  <2>2. ASSUME NEW n \in Names PROVE IdsOK(h, n)
    <3>1. IdsOK(g, n) /\ h.byName[n] = g.byName[n] /\ h.libs = g.libs
      BY <1>5 DEF NamesOK, SameLibraries
    <3>2. ASSUME NEW id, Titled(g, g.byName[n], n, id) PROVE Titled(h, g.byName[n], n, id)
      BY <1>1, <3>2, LibIs DEF Titled, SameLibraries
    <3> QED  BY <3>1, <3>2 DEF IdsOK
  <2> QED  BY <2>1, <2>2 DEF NamesOK
<1> QED  BY <1>1, <1>2, <1>3, <1>4, <1>5 DEF Means

\* The proxy of one cell is another one.
Moved(g, h, s, p) ==
  /\ IsRegistry(h) /\ SameLibraries(g, h)
  /\ h.proxy[s] = p /\ \A t \in CellIndexes : t # s => h.proxy[t] = g.proxy[t]

LEMMA MovedKeeps ==
  ASSUME NEW g, NEW who, NEW m, CallInv(g, who, m), NEW s \in CellIndexes, NEW p \in Proxies, p # Empty,
         Means(g, p, m[s]), NEW h, Moved(g, h, s, p),
         NEW new \in Holders, Exact(h, new), new[s] = HolderOf(g, p), \A t \in CellIndexes : t # s => new[t] = who[t]
  PROVE  CallInv(h, new, m)
<1>1. IsRegistry(g) /\ IsRegistry(h) /\ SameLibraries(g, h)
  BY DEF CallInv, Moved
<1>2. LibsOK(h) /\ NamesOK(h)
  BY <1>1, SameCells DEF CallInv
<1>3. \A q : HolderOf(h, q) = HolderOf(g, q)
  BY <1>1, SameCells
<1>4. Match(h, new)
  BY <1>3 DEF Match, CallInv, Moved
<1>5. ASSUME NEW t \in CellIndexes PROVE Means(h, h.proxy[t], m[t])
  <2>1. Means(g, h.proxy[t], m[t])
    BY DEF CallInv, Refs, Moved
  <2> QED  BY <1>1, <2>1, SameCells
<1> QED  BY <1>1, <1>2, <1>4, <1>5 DEF CallInv, Refs


-----------------------------------------------------------------------------
(* Proxies that change, one after the other                                *)

Elsewhere(who, new, s) == \A t \in CellIndexes : t # s => new[t] = who[t]

LEMMA Changed ==
  ASSUME NEW who \in Holders, NEW s \in CellIndexes, NEW x \in Holdings
  PROVE  \E new \in Holders : new[s] = x /\ Elsewhere(who, new, s)
<1> DEFINE new == [who EXCEPT ![s] = x]
<1>1. new \in Holders /\ new[s] = x /\ Elsewhere(who, new, s)
  BY DEF Holders, Elsewhere
<1> QED  BY <1>1

LEMMA NobodyHolds ==
  Nobody \in Holdings /\ Nobody.lib = None
BY DEF Nobody, Holdings

(* The proxy that is taken out is retired, and counted no more.            *)
LEMMA ReplacedIs ==
  ASSUME NEW g, NEW who, NEW m, CallInv(g, who, m), NEW s \in CellIndexes, g.proxy[s] # Empty, NEW p \in Proxies,
         NEW new \in Holders, new[s] = Nobody, Elsewhere(who, new, s)
  PROVE  Moved(g, Replaced(g, s, p), s, p) /\ Exact(Replaced(g, s, p), new)
<1> DEFINE old == g.proxy[s]
           r == Retired(g, old)
           d == Destroyed(r, old)
<1>1. /\ IsRegistry(g) /\ Exact(g, who) /\ who \in Holders /\ old \in Proxies
      /\ who[s] = HolderOf(g, old)
  BY DEF CallInv, Match, IsRegistry
<1>2. Recounted(g, r, who)
  BY <1>1, RetiredIs
<1> HIDE DEF r
<1>3. IsRegistry(r) /\ Exact(r, who) /\ SameLibraries(g, r) /\ r.proxy = g.proxy
  BY <1>2 DEF Recounted
<1>4. Recounted(r, d, new)
  <2>1. CASE IsLive(old)
    <3>1. old \in LiveProxies
      BY <1>1, <2>1, ProxyForms
    <3>2. who[s] = HolderOf(r, old)
      BY <1>1, <1>3, SameCells
    <3>3. d = Uncounted(r, old)
      BY <2>1 DEF Destroyed
    <3>4. new[s].lib = None /\ \A t \in CellIndexes : t # s => new[t] = who[t]
      BY NobodyHolds DEF Elsewhere
    <3> HIDE DEF d, old
    <3> QED  BY <1>1, <1>3, <3>1, <3>2, <3>3, <3>4, UncountedIs
  <2>2. CASE ~IsLive(old)
    <3>1. d = r
      BY <2>2 DEF Destroyed
    <3>2. who[s] = Nobody
      BY <1>1, <2>2 DEF HolderOf
    <3>3. new = who
      BY <1>1, <3>2 DEF Elsewhere, Holders
    <3> HIDE DEF d
    <3> QED  BY <1>3, <3>1, <3>3, SameRegistry
  <2> QED  BY <2>1, <2>2
<1>5. Replaced(g, s, p) = Placed(d, s, p)
  BY DEF Replaced, r
<1> HIDE DEF d
<1>6. IsRegistry(d) /\ Exact(d, new) /\ SameLibraries(r, d) /\ d.proxy = r.proxy
  BY <1>4 DEF Recounted
<1> DEFINE h == Placed(d, s, p)
<1>7. /\ IsRegistry(h) /\ SameLibraries(d, h) /\ h.object = d.object
      /\ h.proxy[s] = p /\ \A t \in CellIndexes : t # s => h.proxy[t] = d.proxy[t]
  BY <1>6, PlacedIs
<1> HIDE DEF h
<1>8. SameLibraries(g, h)
  BY <1>3, <1>6, <1>7 DEF SameLibraries
<1>9. Exact(h, new)
  BY <1>6, <1>7 DEF Exact
<1> QED  BY <1>3, <1>5, <1>6, <1>7, <1>8, <1>9 DEF Moved, h

\* The name of the library that the proxy of a cell is for.
NameFor(g, s) == g.object[Lib(g, g.proxy[s].id)].name

\* The name and the cell of a proxy are known, since it is for a cell.
LEMMA ContextIs ==
  ASSUME NEW g, NEW who, NEW m, CallInv(g, who, m), NEW s \in CellIndexes, IsLive(g.proxy[s])
  PROVE  /\ Context(g, g.proxy[s]) \in ColdProxies
         /\ Context(g, g.proxy[s]).cell = m[s] /\ m[s] # None
         /\ Context(g, g.proxy[s]).library = NameFor(g, s)
<1> DEFINE p == g.proxy[s]
<1>1. IsRegistry(g) /\ p \in Proxies /\ p # Empty
  BY ProxyForms DEF CallInv, IsRegistry
<1>2. CellOf(g, p) = m[s] /\ m[s] # None
  BY <1>1 DEF CallInv, Refs, Means
<1>3. p.index \in DOMAIN CellsOf(g, p.id) /\ CellOf(g, p) = CellsOf(g, p.id)[p.index]
  BY <1>2 DEF CellOf
<1>4. CellOf(g, p) \in Cells
  BY <1>1, <1>3, CellsAre, ElementOfSeq, LenProperties
<1>5. Lib(g, p.id) \in Libraries
  BY <1>1, <1>3, CellsAre, LibIs
<1>6. g.object[Lib(g, p.id)].name \in Names \cup {None}
  <2>1. g.object[Lib(g, p.id)] \in Objects
    BY <1>1, <1>5 DEF IsRegistry
  <2> QED  BY <2>1 DEF Objects
<1>7. Context(g, p) = Cold(g.object[Lib(g, p.id)].name, CellOf(g, p))
  BY <1>2 DEF Context
<1> QED  BY <1>2, <1>4, <1>6, <1>7, ColdForm DEF NameFor

\* What one cell of the using layout may have become in a call.
Served(g, h, s, who, new, m) ==
  /\ CallInv(h, new, m) /\ SameLibraries(g, h) /\ Elsewhere(who, new, s)
  /\ h.proxy[s] # Empty /\ \A t \in CellIndexes : t # s => h.proxy[t] = g.proxy[t]

LEMMA CooledIs ==
  ASSUME NEW g, NEW who, NEW m, CallInv(g, who, m), NEW s \in CellIndexes, IsLive(g.proxy[s])
  PROVE  \E new : /\ Served(g, Cooled(g, s), s, who, new, m) /\ ~IsLive(Cooled(g, s).proxy[s])
                  /\ Cooled(g, s).proxy[s].library = NameFor(g, s)
<1> DEFINE p == Context(g, g.proxy[s])
           h == Replaced(g, s, p)
<1>1. p \in ColdProxies /\ p.cell = m[s] /\ m[s] # None /\ p.library = NameFor(g, s)
  BY ContextIs
<1>2. Cooled(g, s) = h
  BY DEF Cooled
<1> HIDE DEF p
<1>3. g.proxy[s] # Empty /\ p \in Proxies /\ p # Empty /\ IsCold(p) /\ ~IsLive(p)
  BY <1>1, ProxyForms
<1>4. who \in Holders
  BY DEF CallInv
<1>5. PICK new \in Holders : new[s] = Nobody /\ Elsewhere(who, new, s)
  BY <1>4, NobodyHolds, Changed
<1>6. Moved(g, h, s, p) /\ Exact(h, new)
  BY <1>3, <1>5, ReplacedIs
<1> HIDE DEF h
<1>7. Means(g, p, m[s]) /\ new[s] = HolderOf(g, p)
  BY <1>1, <1>3, <1>5 DEF Means, HolderOf
<1>8. CallInv(h, new, m)
  <2>1. \A t \in CellIndexes : t # s => new[t] = who[t]
    BY <1>5 DEF Elsewhere
  <2> QED  BY <1>3, <1>5, <1>6, <1>7, <2>1, MovedKeeps
<1> QED  BY <1>1, <1>2, <1>3, <1>5, <1>6, <1>8 DEF Served, Moved

LEMMA RemappedIs ==
  ASSUME NEW g, NEW who, NEW m, CallInv(g, who, m), NEW s \in CellIndexes, IsLive(g.proxy[s]),
         NEW p \in LiveProxies, CellOf(g, p) = m[s]
  PROVE  \E new : Served(g, Remapped(g, s, p), s, who, new, m) /\ Remapped(g, s, p).proxy[s] = p
<1> DEFINE old == g.proxy[s]
<1>1. /\ IsRegistry(g) /\ Exact(g, who) /\ who \in Holders /\ old \in Proxies /\ old # Empty
      /\ who[s] = HolderOf(g, old) /\ m[s] # None
  BY ProxyForms DEF CallInv, Match, IsRegistry, Refs, Means
<1>2. p \in Proxies /\ p # Empty /\ IsLive(p) /\ ~IsCold(p) /\ old \in LiveProxies
  BY <1>1, ProxyForms
<1>3. CASE old = p
  <2>1. Remapped(g, s, p) = g
    BY <1>3 DEF Remapped
  <2>2. Served(g, g, s, who, who, m)
    BY <1>1 DEF Served, SameLibraries, Elsewhere
  <2> QED  BY <1>3, <2>1, <2>2
<1>4. CASE old # p
  <2> DEFINE u == Uncounted(g, old)
             c == Counted(u, p)
             h == Placed(c, s, p)
  <2>1. Remapped(g, s, p) = h
    BY <1>4 DEF Remapped
  <2>2. PICK mid \in Holders : mid[s] = Nobody /\ Elsewhere(who, mid, s)
    BY <1>1, NobodyHolds, Changed
  <2>3. PICK new \in Holders : new[s] = HolderOf(g, p) /\ Elsewhere(mid, new, s)
    BY <1>1, <1>2, HolderIs, Changed
  <2>4. Recounted(g, u, mid)
    BY <1>1, <1>2, <2>2, UncountedIs, NobodyHolds DEF Elsewhere
  <2> HIDE DEF u
  <2>5. IsRegistry(u) /\ Exact(u, mid) /\ SameLibraries(g, u) /\ u.proxy = g.proxy
    BY <2>4 DEF Recounted
  <2>6. new[s] = HolderOf(u, p)
    BY <1>1, <2>3, <2>5, SameCells
  <2>7. Recounted(u, c, new)
    BY <1>2, <2>2, <2>3, <2>5, <2>6, CountedIs, NobodyHolds DEF Elsewhere
  <2> HIDE DEF c
  <2>8. IsRegistry(c) /\ Exact(c, new) /\ SameLibraries(u, c) /\ c.proxy = u.proxy
    BY <2>7 DEF Recounted
  <2>9. /\ IsRegistry(h) /\ SameLibraries(c, h) /\ h.object = c.object
        /\ h.proxy[s] = p /\ \A t \in CellIndexes : t # s => h.proxy[t] = c.proxy[t]
    BY <1>2, <2>8, PlacedIs
  <2> HIDE DEF h
  <2>10. SameLibraries(g, h)
    BY <2>5, <2>8, <2>9 DEF SameLibraries
  <2>11. Exact(h, new)
    BY <2>8, <2>9 DEF Exact
  <2>12. Moved(g, h, s, p)
    BY <2>5, <2>8, <2>9, <2>10 DEF Moved
  <2>13. Elsewhere(who, new, s)
    BY <2>2, <2>3 DEF Elsewhere
  <2>14. Means(g, p, m[s])
    BY <1>1, <1>2 DEF Means
  <2>15. CallInv(h, new, m)
    <3>1. \A t \in CellIndexes : t # s => new[t] = who[t]
      BY <2>13 DEF Elsewhere
    <3> QED  BY <1>2, <2>3, <2>11, <2>12, <2>14, <3>1, MovedKeeps
  <2> QED  BY <1>2, <2>1, <2>9, <2>12, <2>13, <2>15 DEF Served, Moved
<1> QED  BY <1>3, <1>4

\* A proxy that was cold is counted first, and nothing is uncounted.
LEMMA WarmedIs ==
  ASSUME NEW g, NEW who, NEW m, CallInv(g, who, m), NEW s \in CellIndexes, IsCold(g.proxy[s]),
         NEW p \in LiveProxies, CellOf(g, p) = m[s]
  PROVE  \E new : Served(g, Warmed(g, s, p), s, who, new, m) /\ IsLive(Warmed(g, s, p).proxy[s])
<1> DEFINE old == g.proxy[s]
           c == Counted(g, p)
           h == Placed(c, s, p)
<1>1. old \in Proxies /\ ~IsLive(old) /\ old # Empty
  BY ProxyForms DEF CallInv, IsRegistry
<1>2. /\ IsRegistry(g) /\ Exact(g, who) /\ who \in Holders
      /\ who[s] = HolderOf(g, old) /\ m[s] # None
  BY <1>1 DEF CallInv, Match, Refs, Means
<1>3. p \in Proxies /\ p # Empty /\ IsLive(p) /\ ~IsCold(p)
  BY ProxyForms
<1>4. who[s].lib = None
  BY <1>1, <1>2, NobodyHolds DEF HolderOf
<1>5. PICK new \in Holders : new[s] = HolderOf(g, p) /\ Elsewhere(who, new, s)
  BY <1>2, <1>3, HolderIs, Changed
<1>6. Recounted(g, c, new)
  BY <1>2, <1>4, <1>5, CountedIs DEF Elsewhere
<1> HIDE DEF c
<1>7. IsRegistry(c) /\ Exact(c, new) /\ SameLibraries(g, c) /\ c.proxy = g.proxy
  BY <1>6 DEF Recounted
<1>8. Warmed(g, s, p) = h
  BY <1>1, <1>7 DEF Warmed, Replaced, Retired, Destroyed, c
<1>9. /\ IsRegistry(h) /\ SameLibraries(c, h) /\ h.object = c.object
      /\ h.proxy[s] = p /\ \A t \in CellIndexes : t # s => h.proxy[t] = c.proxy[t]
  BY <1>3, <1>7, PlacedIs
<1> HIDE DEF h
<1>10. SameLibraries(g, h)
  BY <1>7, <1>9 DEF SameLibraries
<1>11. Exact(h, new)
  BY <1>7, <1>9 DEF Exact
<1>12. Moved(g, h, s, p)
  BY <1>7, <1>9, <1>10 DEF Moved
<1>13. Means(g, p, m[s])
  BY <1>2, <1>3 DEF Means
<1>14. CallInv(h, new, m)
  <2>1. \A t \in CellIndexes : t # s => new[t] = who[t]
    BY <1>5 DEF Elsewhere
  <2> QED  BY <1>3, <1>5, <1>11, <1>12, <1>13, <2>1, MovedKeeps
<1> QED  BY <1>3, <1>5, <1>8, <1>12, <1>14 DEF Served, Moved


LEMMA IndexIs ==
  ASSUME NEW g, IsRegistry(g), NEW id \in Nat, NEW c, HasCell(g, id, c)
  PROVE  Live(id, IndexOf(g, id, c)) \in LiveProxies /\ CellOf(g, Live(id, IndexOf(g, id, c))) = c
<1> DEFINE i == IndexOf(g, id, c)
<1>1. \E j \in DOMAIN CellsOf(g, id) : CellsOf(g, id)[j] = c
  BY DEF HasCell, ToSet
<1>2. i \in DOMAIN CellsOf(g, id) /\ CellsOf(g, id)[i] = c
  BY <1>1 DEF IndexOf
<1> HIDE DEF i
<1>3. i \in Indexes
  BY <1>2, CellsAre
<1>4. Live(id, i) \in LiveProxies /\ Live(id, i).id = id /\ Live(id, i).index = i
  BY <1>3, LiveForm
<1>5. CellOf(g, Live(id, i)) = c
  BY <1>2, <1>4 DEF CellOf
<1> QED  BY <1>4, <1>5 DEF i

\* The library of a proxy is registered.
LEMMA LibOfProxy ==
  ASSUME NEW g, NEW who, NEW m, CallInv(g, who, m), NEW s \in CellIndexes, IsLive(g.proxy[s])
  PROVE  Lib(g, g.proxy[s].id) # None
<1>1. IsRegistry(g) /\ CellOf(g, g.proxy[s]) # None
  BY NotEmpty DEF CallInv, Refs, Means
<1>2. DOMAIN CellsOf(g, g.proxy[s].id) # {}
  BY <1>1 DEF CellOf
<1> QED  BY <1>1, <1>2, CellsAre

LEMMA ResolvedIs ==
  ASSUME NEW g, NEW who, NEW m, CallInv(g, who, m), NEW s \in CellIndexes, IsLive(g.proxy[s]), NEW other \in Nat
  PROVE  \E new : /\ Served(g, Resolved(g, s, other), s, who, new, m)
                  /\ IsLive(Resolved(g, s, other).proxy[s]) =>
                       Resolved(g, s, other).proxy[s].id = other /\ Lib(g, other) # None
                  /\ IsCold(Resolved(g, s, other).proxy[s]) =>
                       Resolved(g, s, other).proxy[s].library = NameFor(g, s)
<1> DEFINE c == CellOf(g, g.proxy[s])
           p == Live(other, IndexOf(g, other, c))
<1>1. IsRegistry(g) /\ c = m[s]
  BY DEF CallInv, Refs, Means
<1>2. CASE HasCell(g, other, c)
  <2>1. p \in LiveProxies /\ CellOf(g, p) = m[s] /\ p.id = other
    <3>1. p \in LiveProxies /\ CellOf(g, p) = c
      BY <1>1, <1>2, IndexIs
    <3> QED  BY <1>1, <3>1 DEF Live
  <2>2. Lib(g, other) # None
    <3>1. DOMAIN CellsOf(g, other) # {}
      BY <1>2 DEF HasCell, ToSet
    <3> QED  BY <1>1, <3>1, CellsAre
  <2>3. Resolved(g, s, other) = Remapped(g, s, p)
    BY <1>2 DEF Resolved
  <2> HIDE DEF p, c
  <2>4. \E new : Served(g, Remapped(g, s, p), s, who, new, m) /\ Remapped(g, s, p).proxy[s] = p
    BY <2>1, RemappedIs
  <2>5. ~IsCold(p)
    BY <2>1, ProxyForms
  <2> QED  BY <2>1, <2>2, <2>3, <2>4, <2>5
<1>3. CASE ~HasCell(g, other, c)
  <2>1. Resolved(g, s, other) = Cooled(g, s)
    BY <1>3 DEF Resolved
  <2> HIDE DEF c
  <2> QED  BY <2>1, CooledIs
<1> QED  BY <1>2, <1>3

\* What the cells in some set may have become in a call.
ServedAll(g, h, S, who, new, m) ==
  /\ CallInv(h, new, m) /\ SameLibraries(g, h)
  /\ \A s \in CellIndexes \ S : h.proxy[s] = g.proxy[s] /\ new[s] = who[s]
  /\ \A s \in S : h.proxy[s] # Empty

LEMMA ServedNone ==
  ASSUME NEW g, NEW who, NEW m, CallInv(g, who, m)
  PROVE  ServedAll(g, g, {}, who, who, m)
BY DEF ServedAll, SameLibraries

LEMMA ServedOneMore ==
  ASSUME NEW g, NEW f, NEW h, NEW T \in SUBSET CellIndexes, NEW s \in T,
         NEW who, NEW mid, NEW new, NEW m,
         ServedAll(g, f, T \ {s}, who, mid, m), Served(f, h, s, mid, new, m)
  PROVE  ServedAll(g, h, T, who, new, m)
<1>1. SameLibraries(g, h)
  BY DEF ServedAll, Served, SameLibraries
<1>2. \A t \in CellIndexes \ T : h.proxy[t] = g.proxy[t] /\ new[t] = who[t]
  BY DEF ServedAll, Served, Elsewhere
<1>3. \A t \in T : h.proxy[t] # Empty
  BY DEF ServedAll, Served
<1> QED  BY <1>1, <1>2, <1>3 DEF ServedAll, Served

LEMMA ResolvedAllIs ==
  ASSUME NEW g, NEW who, NEW m, CallInv(g, who, m),
         NEW S \in SUBSET CellIndexes, NEW to \in [S -> Nat], \A s \in S : IsLive(g.proxy[s])
  PROVE  \E new : /\ ServedAll(g, ResolvedAll(g, to), S, who, new, m)
                  /\ \A s \in S : IsLive(ResolvedAll(g, to).proxy[s]) =>
                       ResolvedAll(g, to).proxy[s].id = to[s] /\ Lib(g, to[s]) # None
                  /\ \A s \in S : IsCold(ResolvedAll(g, to).proxy[s]) =>
                       ResolvedAll(g, to).proxy[s].library = NameFor(g, s)
<1>1. IsFiniteSet(S) /\ DOMAIN to = S
  BY FS_Subset, ConstantsAssumption
<1> DEFINE F == ResolvedUpto(g, to)
<1>2. /\ F[{}] = g /\ F[S] = ResolvedAll(g, to)
      /\ \A T \in SUBSET S : T # {} => F[T] = Resolved(F[T \ {Pick(T)}], Pick(T), to[Pick(T)])
  BY <1>1, ResolvedAllFold
<1> HIDE DEF F
<1> DEFINE Good(T, new) ==
             /\ ServedAll(g, F[T], T, who, new, m)
             /\ \A s \in T : IsLive(F[T].proxy[s]) => F[T].proxy[s].id = to[s] /\ Lib(g, to[s]) # None
             /\ \A s \in T : IsCold(F[T].proxy[s]) => F[T].proxy[s].library = NameFor(g, s)
           Q == {T \in SUBSET S : \E new : Good(T, new)}
<1>3. {} \in Q
  <2>1. Good({}, who)
    BY <1>2, ServedNone
  <2> QED  BY <2>1
<1>4. ASSUME NEW T \in SUBSET S, T # {}, T \ {Pick(T)} \in Q PROVE T \in Q
  <2> DEFINE s == Pick(T)
             U == T \ {s}
             f == F[U]
             h == Resolved(f, s, to[s])
  <2>1. s \in T /\ s \in S /\ s \in CellIndexes /\ to[s] \in Nat /\ U \in SUBSET S /\ s \notin U
    BY <1>4 DEF Pick
  <2>2. F[T] = h
    BY <1>2, <1>4
  <2>3. PICK mid : Good(U, mid)
    BY <1>4
  <2> HIDE DEF s
  <2>4. CallInv(f, mid, m) /\ SameLibraries(g, f) /\ f.proxy[s] = g.proxy[s]
    BY <2>1, <2>3 DEF ServedAll
  <2>5. IsLive(f.proxy[s]) /\ NameFor(f, s) = NameFor(g, s)
    <3>1. IsLive(g.proxy[s]) /\ Lib(g, g.proxy[s].id) # None
      BY <2>1, LibOfProxy
    <3>2. Lib(f, g.proxy[s].id) = Lib(g, g.proxy[s].id) /\ Lib(g, g.proxy[s].id) \in Libraries
      BY <2>4, <3>1, SameLib, LibIs DEF CallInv
    <3> QED  BY <2>4, <3>1, <3>2 DEF NameFor, SameLibraries
  <2> HIDE DEF f
  <2>6. PICK new : /\ Served(f, h, s, mid, new, m)
                   /\ IsLive(h.proxy[s]) => h.proxy[s].id = to[s] /\ Lib(f, to[s]) # None
                   /\ IsCold(h.proxy[s]) => h.proxy[s].library = NameFor(f, s)
    BY <2>1, <2>4, <2>5, ResolvedIs
  <2> HIDE DEF h
  <2>7. ServedAll(g, h, T, who, new, m)
    BY <2>1, <2>3, <2>6, ServedOneMore DEF f, U
  <2>8. ASSUME NEW t \in T, IsLive(h.proxy[t]) PROVE h.proxy[t].id = to[t] /\ Lib(g, to[t]) # None
    <3>1. CASE t = s
      BY <2>4, <2>6, <2>8, <3>1, SameLib
    <3>2. CASE t # s
      <4>1. h.proxy[t] = f.proxy[t]
        BY <2>1, <2>6, <3>2 DEF Served
      <4> QED  BY <2>3, <2>8, <3>2, <4>1 DEF f, U
    <3> QED  BY <3>1, <3>2
  <2>9. ASSUME NEW t \in T, IsCold(h.proxy[t]) PROVE h.proxy[t].library = NameFor(g, t)
    <3>1. CASE t = s
      BY <2>5, <2>6, <2>9, <3>1
    <3>2. CASE t # s
      <4>1. h.proxy[t] = f.proxy[t]
        BY <2>1, <2>6, <3>2 DEF Served
      <4> QED  BY <2>3, <2>9, <3>2, <4>1 DEF f, U
    <3> QED  BY <3>1, <3>2
  <2> QED  BY <2>2, <2>7, <2>8, <2>9
<1>5. S \in Q
  <2> HIDE DEF Q
  <2> QED  BY <1>1, <1>3, <1>4, SubsetInduction
<1> QED  BY <1>2, <1>5

LEMMA WarmedAllIs ==
  ASSUME NEW g, NEW who, NEW m, CallInv(g, who, m),
         NEW S \in SUBSET CellIndexes, NEW to \in [S -> LiveProxies],
         \A s \in S : IsCold(g.proxy[s]) /\ CellOf(g, to[s]) = m[s]
  PROVE  \E new : /\ ServedAll(g, WarmedAll(g, to), S, who, new, m)
                  /\ \A s \in S : IsLive(WarmedAll(g, to).proxy[s])
<1>1. IsFiniteSet(S) /\ DOMAIN to = S
  BY FS_Subset, ConstantsAssumption
<1> DEFINE F == WarmedUpto(g, to)
<1>2. /\ F[{}] = g /\ F[S] = WarmedAll(g, to)
      /\ \A T \in SUBSET S : T # {} => F[T] = Warmed(F[T \ {Pick(T)}], Pick(T), to[Pick(T)])
  BY <1>1, WarmedAllFold
<1> HIDE DEF F
<1> DEFINE Good(T, new) == ServedAll(g, F[T], T, who, new, m) /\ \A s \in T : IsLive(F[T].proxy[s])
           Q == {T \in SUBSET S : \E new : Good(T, new)}
<1>3. {} \in Q
  <2>1. Good({}, who)
    BY <1>2, ServedNone
  <2> QED  BY <2>1
<1>4. ASSUME NEW T \in SUBSET S, T # {}, T \ {Pick(T)} \in Q PROVE T \in Q
  <2> DEFINE s == Pick(T)
             U == T \ {s}
             f == F[U]
             h == Warmed(f, s, to[s])
  <2>1. s \in T /\ s \in S /\ s \in CellIndexes /\ to[s] \in LiveProxies /\ U \in SUBSET S /\ s \notin U
    BY <1>4 DEF Pick
  <2>2. F[T] = h
    BY <1>2, <1>4
  <2>3. PICK mid : Good(U, mid)
    BY <1>4
  <2> HIDE DEF s
  <2>4. CallInv(f, mid, m) /\ SameLibraries(g, f) /\ f.proxy[s] = g.proxy[s]
    BY <2>1, <2>3 DEF ServedAll
  <2>5. IsCold(f.proxy[s]) /\ CellOf(f, to[s]) = m[s]
    <3>1. CellOf(f, to[s]) = CellOf(g, to[s])
      BY <2>4, SameCells DEF CallInv
    <3> QED  BY <2>1, <2>4, <3>1
  <2> HIDE DEF f
  <2>6. PICK new : Served(f, h, s, mid, new, m) /\ IsLive(h.proxy[s])
    BY <2>1, <2>4, <2>5, WarmedIs
  <2> HIDE DEF h
  <2>7. ServedAll(g, h, T, who, new, m)
    BY <2>1, <2>3, <2>6, ServedOneMore DEF f, U
  <2>8. ASSUME NEW t \in T PROVE IsLive(h.proxy[t])
    <3>1. CASE t = s
      BY <2>6, <3>1
    <3>2. CASE t # s
      <4>1. h.proxy[t] = f.proxy[t]
        BY <2>1, <2>6, <3>2 DEF Served
      <4> QED  BY <2>3, <3>2, <4>1 DEF f, U
    <3> QED  BY <3>1, <3>2
  <2> QED  BY <2>2, <2>7, <2>8
<1>5. S \in Q
  <2> HIDE DEF Q
  <2> QED  BY <1>1, <1>3, <1>4, SubsetInduction
<1> QED  BY <1>2, <1>5


-----------------------------------------------------------------------------
(* Lookups                                                                 *)

LEMMA MinIs ==
  ASSUME NEW S \in SUBSET Nat, S # {}
  PROVE  Min(S) \in S /\ \A y \in S : Min(S) <= y
<1>1. \E x \in S : \A y \in S : x <= y
  BY LeastNumber
<1> QED  BY <1>1 DEF Min

LEMMA LibByNameIs ==
  ASSUME NEW g, IsRegistry(g), NEW n \in Names, NEW techs
  PROVE  \/ LibByName(g, n, techs) = NoId
         \/ \E k \in DOMAIN g.byName[n] :
              LibByName(g, n, techs) = g.byName[n][k] /\ Lib(g, g.byName[n][k]) # None
<1> DEFINE named == g.byName[n]
           valid == {i \in DOMAIN named : techs # {} /\ Suits(g, named[i], techs)}
           generic == {i \in DOMAIN named : IsGeneric(g, named[i])}
<1>1. named \in Seq(Nat)
  BY DEF IsRegistry
<1>2. valid \in SUBSET Nat /\ generic \in SUBSET Nat
  BY <1>1
<1>3. LibByName(g, n, techs) = IF valid # {} THEN named[Min(valid)]
                               ELSE IF generic # {} THEN named[Min(generic)] ELSE NoId
  BY DEF LibByName
<1>4. /\ \A i \in valid : i \in DOMAIN named /\ Lib(g, named[i]) # None
      /\ \A i \in generic : i \in DOMAIN named /\ Lib(g, named[i]) # None
  BY DEF Suits, IsGeneric
<1> HIDE DEF valid, generic, named
<1>5. valid # {} => Min(valid) \in valid
  BY <1>2, MinIs
<1>6. generic # {} => Min(generic) \in generic
  BY <1>2, MinIs
<1> QED  BY <1>3, <1>4, <1>5, <1>6 DEF named

LEMMA LibByNameType ==
  ASSUME NEW g, IsRegistry(g), NEW n \in Names, NEW techs
  PROVE  LibByName(g, n, techs) \in Nat
<1>1. g.byName[n] \in Seq(Nat)
  BY DEF IsRegistry
<1>2. \A k \in DOMAIN g.byName[n] : g.byName[n][k] \in Nat
  BY <1>1, ElementOfSeq, LenProperties
<1> QED  BY <1>2, LibByNameIs DEF NoId

\* A cold proxy that looks under this name finds the same cells in both.
Finds(g, h, n) == \A techs : CellsOf(h, LibByName(h, n, techs)) = CellsOf(g, LibByName(g, n, techs))

\* Proxies get cold only if they are for a library of this name.
Cools(g, h, n) == \A s \in CellIndexes : IsCold(h.proxy[s]) => h.proxy[s] = g.proxy[s] \/ h.proxy[s].library = n

\* Nothing changes for the cold proxies of other names.
Touches(g, h, n) == Cools(g, h, n) /\ \A x \in Names : x # n => Finds(g, h, x)

SameEntry(g, h, id) ==
  LET l == Lib(g, id) IN
  /\ Lib(h, id) = l
  /\ l # None => h.object[l].technologies = g.object[l].technologies /\ h.object[l].cells = g.object[l].cells

LEMMA NoIdIs ==
  ASSUME NEW g, IsRegistry(g)
  PROVE  Lib(g, NoId) = None /\ CellsOf(g, NoId) = <<>>
<1>1. DOMAIN g.libs = 1..Len(g.libs)
  BY LenProperties DEF IsRegistry
<1>2. Lib(g, NoId) = None
  BY <1>1 DEF Lib, NoId
<1> QED  BY <1>2 DEF CellsOf

LEMMA LookupSame ==
  ASSUME NEW g, NEW h, IsRegistry(g), IsRegistry(h), NEW n \in Names, h.byName[n] = g.byName[n],
         \A k \in DOMAIN g.byName[n] : SameEntry(g, h, g.byName[n][k])
  PROVE  Finds(g, h, n)
<1> SUFFICES ASSUME NEW techs PROVE CellsOf(h, LibByName(h, n, techs)) = CellsOf(g, LibByName(g, n, techs))
  BY DEF Finds
<1> DEFINE named == g.byName[n]
           valid(f) == {i \in DOMAIN named : techs # {} /\ Suits(f, named[i], techs)}
           generic(f) == {i \in DOMAIN named : IsGeneric(f, named[i])}
<1>1. valid(h) = valid(g) /\ generic(h) = generic(g)
  BY DEF SameEntry, Suits, IsGeneric
<1>2. LibByName(g, n, techs) = IF valid(g) # {} THEN named[Min(valid(g))]
                               ELSE IF generic(g) # {} THEN named[Min(generic(g))] ELSE NoId
  BY DEF LibByName
<1>3. LibByName(h, n, techs) = IF valid(h) # {} THEN named[Min(valid(h))]
                               ELSE IF generic(h) # {} THEN named[Min(generic(h))] ELSE NoId
  BY DEF LibByName
<1> HIDE DEF valid, generic, named
<1>4. LibByName(h, n, techs) = LibByName(g, n, techs)
  BY <1>1, <1>2, <1>3
<1>5. CASE LibByName(g, n, techs) = NoId
  BY <1>4, <1>5, NoIdIs
<1>6. CASE LibByName(g, n, techs) # NoId
  <2>1. PICK k \in DOMAIN g.byName[n] :
                LibByName(g, n, techs) = g.byName[n][k] /\ Lib(g, g.byName[n][k]) # None
    BY <1>6, LibByNameIs
  <2>2. SameEntry(g, h, g.byName[n][k]) /\ Lib(g, g.byName[n][k]) # None
    BY <2>1
  <2> QED  BY <1>4, <2>1, <2>2 DEF SameEntry, CellsOf
<1> QED  BY <1>5, <1>6

LEMMA SameFinds ==
  ASSUME NEW g, NEW h, IsRegistry(g), IsRegistry(h), SameLibraries(g, h), NEW n \in Names
  PROVE  Finds(g, h, n)
<1>1. h.byName[n] = g.byName[n]
  BY DEF SameLibraries
<1>2. ASSUME NEW id PROVE SameEntry(g, h, id)
  <2>1. Lib(h, id) = Lib(g, id) /\ (Lib(g, id) # None => Lib(g, id) \in Libraries)
    BY LibIs, SameLib
  <2> QED  BY <2>1 DEF SameEntry, SameLibraries
<1> QED  BY <1>1, <1>2, LookupSame

\* No name is touched if no proxy is and the libraries with names stay.
LEMMA NoneTouched ==
  ASSUME NEW g, NEW h, IsRegistry(g), IsRegistry(h), h.proxy = g.proxy, NEW n,
         \A x \in Names : x # n => h.byName[x] = g.byName[x]
                             /\ \A k \in DOMAIN g.byName[x] : SameEntry(g, h, g.byName[x][k])
  PROVE  Touches(g, h, n)
<1>1. \A x \in Names : x # n => Finds(g, h, x)
  BY LookupSame
<1> QED  BY <1>1 DEF Touches, Cools

LEMMA TouchesThen ==
  ASSUME NEW g, NEW f, NEW h, NEW n, Touches(g, f, n), Touches(f, h, n)
  PROVE  Touches(g, h, n)
<1>1. Cools(g, h, n)
  BY DEF Touches, Cools
<1>2. \A x \in Names : x # n => Finds(g, h, x)
  BY DEF Touches, Finds
<1> QED  BY <1>1, <1>2 DEF Touches

-----------------------------------------------------------------------------
(* Remapping and restoring                                                 *)

\* Each cell keeps a proxy if it has one, and what the history keeps counts as before.
Keeps(g, h, who, new, m) ==
  /\ CallInv(h, new, m) /\ DOMAIN g.libs \subseteq DOMAIN h.libs
  /\ \A s \in CellIndexes :
       /\ h.proxy[s] = Empty <=> g.proxy[s] = Empty
       /\ g.proxy[s] = Empty => new[s] = who[s]

LEMMA KeepsThen ==
  ASSUME NEW g, NEW f, NEW h, NEW who, NEW mid, NEW new, NEW m,
         Keeps(g, f, who, mid, m), Keeps(f, h, mid, new, m)
  PROVE  Keeps(g, h, who, new, m)
BY DEF Keeps

LEMMA ServedKeeps ==
  ASSUME NEW g, NEW h, NEW S \in SUBSET CellIndexes, NEW who, NEW new, NEW m,
         ServedAll(g, h, S, who, new, m), \A s \in S : g.proxy[s] # Empty
  PROVE  Keeps(g, h, who, new, m)
BY DEF ServedAll, Keeps, SameLibraries

\* No proxy is for the library with this id.
NoneUses(g, id) == \A s \in CellIndexes : ~(IsLive(g.proxy[s]) /\ g.proxy[s].id = id)

LEMMA RemappedToIs ==
  ASSUME NEW g, NEW who, NEW m, CallInv(g, who, m), NEW id, NEW other \in Nat
  PROVE  \E new : /\ Keeps(g, RemappedTo(g, id, other), who, new, m)
                  /\ SameLibraries(g, RemappedTo(g, id, other))
                  /\ other # id => NoneUses(RemappedTo(g, id, other), id)
                  /\ Touches(g, RemappedTo(g, id, other), g.object[Lib(g, id)].name)
<1> DEFINE l == Lib(g, id)
           refers == {s \in CellIndexes :
                        IsLive(g.proxy[s]) /\ g.proxy[s].id = id /\ CellOf(g, g.proxy[s]) # None}
           to == [s \in refers |-> other]
           h == RemappedTo(g, id, other)
<1>1. IsRegistry(g) /\ Exact(g, who) /\ Match(g, who) /\ Refs(g, m)
  BY DEF CallInv
<1>2. \A s \in CellIndexes : IsLive(g.proxy[s]) => CellOf(g, g.proxy[s]) # None
  BY <1>1, NotEmpty DEF Refs, Means
<1>3. ASSUME h = g, NoneUses(g, id)
      PROVE  \E new : /\ Keeps(g, h, who, new, m) /\ SameLibraries(g, h) /\ (other # id => NoneUses(h, id))
                      /\ Touches(g, h, g.object[l].name)
  <2>1. Keeps(g, g, who, who, m) /\ SameLibraries(g, g) /\ Touches(g, g, g.object[l].name)
    BY DEF Keeps, SameLibraries, Touches, Cools, Finds
  <2> HIDE DEF h
  <2> QED  BY <1>3, <2>1
<1>4. CASE l = None
  <2>1. NoneUses(g, id)
    <3>1. \A s \in CellIndexes : IsLive(g.proxy[s]) => DOMAIN CellsOf(g, g.proxy[s].id) # {}
      BY <1>2 DEF CellOf
    <3> QED  BY <1>1, <1>4, <3>1, CellsAre DEF NoneUses
  <2>2. h = g
    BY <1>4 DEF RemappedTo
  <2> HIDE DEF l, to, refers
  <2> QED  BY <1>3, <2>1, <2>2 DEF l
<1>5. CASE l # None /\ g.object[l].referrers = 0
  <2>1. l \in Libraries
    BY <1>1, <1>5, LibIs
  <2>2. HoldersOf(who, l) = {}
    <3>1. IsFiniteSet(HoldersOf(who, l))
      BY FS_Subset, ConstantsAssumption DEF HoldersOf
    <3>2. Cardinality(HoldersOf(who, l)) = 0
      BY <1>1, <1>5, <2>1 DEF Exact
    <3> HIDE DEF l
    <3> QED  BY <3>1, <3>2, FS_EmptySet
  <2>3. NoneUses(g, id)
    <3>1. ASSUME NEW s \in CellIndexes, IsLive(g.proxy[s]), g.proxy[s].id = id PROVE FALSE
      <4>1. who[s].lib = l
        <5>1. who[s] = HolderOf(g, g.proxy[s])
          BY <1>1, <3>1, NotEmpty DEF Match
        <5>2. HolderOf(g, g.proxy[s]) = [lib |-> l, index |-> g.proxy[s].index]
          BY <3>1 DEF HolderOf
        <5> QED  BY <5>1, <5>2
      <4> QED  BY <2>2, <4>1 DEF HoldersOf
    <3> QED  BY <3>1 DEF NoneUses
  <2>4. h = g
    BY <1>5 DEF RemappedTo
  <2> HIDE DEF l, to, refers
  <2> QED  BY <1>3, <2>3, <2>4 DEF l
<1>6. CASE l # None /\ g.object[l].referrers # 0
  <2>1. h = ResolvedAll(g, to)
    BY <1>6 DEF RemappedTo
  <2>2. /\ refers \in SUBSET CellIndexes /\ to \in [refers -> Nat]
        /\ \A s \in refers : IsLive(g.proxy[s]) /\ to[s] = other
    OBVIOUS
  <2>3. \A s \in CellIndexes \ refers : ~(IsLive(g.proxy[s]) /\ g.proxy[s].id = id)
    BY <1>2
  <2> HIDE DEF h, to, refers, l
  <2>4. PICK new : /\ ServedAll(g, h, refers, who, new, m)
                   /\ \A s \in refers : IsLive(h.proxy[s]) => h.proxy[s].id = to[s]
                   /\ \A s \in refers : IsCold(h.proxy[s]) => h.proxy[s].library = NameFor(g, s)
    BY <2>1, <2>2, ResolvedAllIs
  <2>5. Keeps(g, h, who, new, m)
    BY <2>2, <2>4, NotEmpty, ServedKeeps
  <2>6. other # id => NoneUses(h, id)
    BY <2>2, <2>3, <2>4 DEF NoneUses, ServedAll
  <2>7. SameLibraries(g, h)
    BY <2>4 DEF ServedAll
  <2>8. Touches(g, h, g.object[l].name)
    <3>1. \A s \in refers : NameFor(g, s) = g.object[l].name
      BY DEF NameFor, refers, l
    <3>2. Cools(g, h, g.object[l].name)
      BY <2>2, <2>4, <3>1 DEF Cools, ServedAll
    <3>3. \A x \in Names : Finds(g, h, x)
      BY <2>5, <2>7, SameFinds DEF Keeps, CallInv
    <3> QED  BY <3>2, <3>3 DEF Touches
  <2> QED  BY <2>5, <2>6, <2>7, <2>8 DEF h, l
<1> QED  BY <1>4, <1>5, <1>6

LEMMA RestoredIs ==
  ASSUME NEW g, NEW who, NEW m, CallInv(g, who, m), NEW t
  PROVE  \E new : /\ Keeps(g, Restored(g, t), who, new, m) /\ SameLibraries(g, Restored(g, t))
                  /\ \A s \in CellIndexes : IsCold(Restored(g, t).proxy[s]) =>
                       Restored(g, t).proxy[s] = g.proxy[s] /\ ~Restorable(g, t, s)
<1> DEFINE id(s) == LibByName(g, g.proxy[s].library, TechsOf(t))
           cold == {s \in CellIndexes : Restorable(g, t, s)}
           to == [s \in cold |-> Live(id(s), IndexOf(g, id(s), g.proxy[s].cell))]
           h == WarmedAll(g, to)
<1>1. Restored(g, t) = h
  BY DEF Restored
<1>2. IsRegistry(g)
  BY DEF CallInv
<1>3. ASSUME NEW s \in cold
      PROVE  IsCold(g.proxy[s]) /\ to[s] \in LiveProxies /\ CellOf(g, to[s]) = m[s]
  <2>1. s \in CellIndexes /\ IsCold(g.proxy[s]) /\ g.proxy[s].library # None /\ HasCell(g, id(s), g.proxy[s].cell)
    BY DEF Restorable
  <2>2. g.proxy[s].library \in Names
    BY <1>2, <2>1, ProxyForms DEF IsRegistry
  <2>3. id(s) \in Nat
    BY <1>2, <2>2, LibByNameType
  <2>4. g.proxy[s].cell = m[s]
    BY <2>1 DEF CallInv, Refs, Means
  <2>5. to[s] = Live(id(s), IndexOf(g, id(s), g.proxy[s].cell))
    OBVIOUS
  <2> HIDE DEF id, cold, to
  <2> QED  BY <1>2, <2>1, <2>3, <2>4, <2>5, IndexIs
<1>4. cold \in SUBSET CellIndexes /\ to = [s \in cold |-> to[s]]
  OBVIOUS
<1> HIDE DEF cold, to
<1>5. to \in [cold -> LiveProxies]
  BY <1>3, <1>4
<1>6. PICK new : ServedAll(g, h, cold, who, new, m) /\ \A s \in cold : IsLive(h.proxy[s])
  BY <1>3, <1>4, <1>5, WarmedAllIs
<1>7. Keeps(g, h, who, new, m)
  BY <1>3, <1>4, <1>6, NotEmpty, ServedKeeps
<1> HIDE DEF h
<1>8. ASSUME NEW s \in CellIndexes, IsCold(h.proxy[s]) PROVE h.proxy[s] = g.proxy[s] /\ ~Restorable(g, t, s)
  BY <1>6, <1>8 DEF ServedAll, cold, IsLive, IsCold
<1> QED  BY <1>1, <1>6, <1>7, <1>8 DEF ServedAll


-----------------------------------------------------------------------------
(* The entries of a name                                                   *)

LEMMA RemovedEntry ==
  ASSUME NEW s \in Seq(Nat), NEW k \in DOMAIN s
  PROVE  /\ RemoveAt(s, k) \in Seq(Nat) /\ \A id : Once(s, id) => Once(RemoveAt(s, k), id)
         /\ \A j \in DOMAIN RemoveAt(s, k) : \E i \in DOMAIN s : RemoveAt(s, k)[j] = s[i] /\ i # k
<1> DEFINE n == Len(s)
           a == SubSeq(s, 1, k - 1)
           b == SubSeq(s, k + 1, n)
           r == RemoveAt(s, k)
<1>1. n \in Nat /\ DOMAIN s = 1..n /\ k \in 1..n /\ \A i \in 1..n : s[i] \in Nat
  BY LenProperties, ElementOfSeq
<1>2. a \in Seq(Nat) /\ Len(a) = k - 1 /\ \A i \in 1..(k - 1) : a[i] = s[i]
  <2>1. \A i \in 1..(k - 1) : s[i] \in Nat
    BY <1>1
  <2>2. Len(a) = (IF 1 <= k - 1 THEN (k - 1) - 1 + 1 ELSE 0)
    BY <1>1, <2>1, SubSeqProperties
  <2>3. a \in Seq(Nat) /\ \A i \in 1..((k - 1) - 1 + 1) : a[i] = s[1 + i - 1]
    BY <1>1, <2>1, SubSeqProperties
  <2> QED  BY <1>1, <2>2, <2>3
<1>3. b \in Seq(Nat) /\ Len(b) = n - k /\ \A i \in 1..(n - k) : b[i] = s[k + i]
  <2>1. \A i \in (k + 1)..n : s[i] \in Nat
    BY <1>1
  <2>2. Len(b) = (IF k + 1 <= n THEN n - (k + 1) + 1 ELSE 0)
    BY <1>1, <2>1, SubSeqProperties
  <2>3. k + 1 \in Int /\ n \in Int
    BY <1>1
  <2> HIDE DEF n
  <2>4. b \in Seq(Nat)
    BY <2>1, <2>3, SubSeqProperties
  <2>5. \A i \in 1..(n - (k + 1) + 1) : b[i] = s[(k + 1) + i - 1]
    BY <2>1, <2>3, SubSeqProperties, SMTT(30)
  <2>6. ASSUME NEW i \in 1..(n - k) PROVE b[i] = s[k + i]
    <3>1. i \in 1..(n - (k + 1) + 1) /\ (k + 1) + i - 1 = k + i
      BY <1>1
    <3> HIDE DEF b
    <3> QED  BY <2>5, <3>1
  <2>7. Len(b) = n - k
    <3> HIDE DEF b
    <3> QED  BY <1>1, <2>2
  <2> QED  BY <2>4, <2>6, <2>7
<1>4. r = a \o b
  BY DEF RemoveAt
<1> HIDE DEF a, b, r, n
<1>5. r \in Seq(Nat) /\ Len(r) = n - 1
  <2>1. r \in Seq(Nat) /\ Len(r) = Len(a) + Len(b)
    BY <1>2, <1>3, <1>4, ConcatProperties
  <2> QED  BY <1>1, <1>2, <1>3, <2>1
<1>6. \A i \in 1..(n - 1) : r[i] = IF i < k THEN s[i] ELSE s[i + 1]
  <2>1. ASSUME NEW i \in 1..(n - 1) PROVE r[i] = IF i < k THEN s[i] ELSE s[i + 1]
    <3>1. r[i] = IF i <= k - 1 THEN a[i] ELSE b[i - (k - 1)]
      <4>1. i \in 1..(Len(a) + Len(b))
        BY <1>1, <1>2, <1>3
      <4>2. r[i] = IF i <= Len(a) THEN a[i] ELSE b[i - Len(a)]
        BY <1>2, <1>3, <1>4, <4>1, ConcatProperties
      <4> QED  BY <1>2, <4>2
    <3>2. CASE i < k
      <4>1. i <= k - 1 /\ i \in 1..(k - 1)
        BY <1>1, <3>2
      <4> QED  BY <1>2, <3>1, <3>2, <4>1
    <3>3. CASE ~(i < k)
      <4>1. ~(i <= k - 1) /\ i - (k - 1) \in 1..(n - k) /\ k + (i - (k - 1)) = i + 1
        BY <1>1, <3>3
      <4>2. b[i - (k - 1)] = s[k + (i - (k - 1))]
        BY <1>3, <4>1
      <4> QED  BY <3>1, <3>3, <4>1, <4>2
    <3> QED  BY <3>2, <3>3
  <2> QED  BY <2>1
<1>7. DOMAIN r = 1..(n - 1)
  BY <1>5, LenProperties
<1>8. ASSUME NEW id, Once(s, id) PROVE Once(r, id)
  <2>1. ASSUME NEW i \in 1..(n - 1), NEW j \in 1..(n - 1), r[i] = id, r[j] = id PROVE i = j
    <3> DEFINE x == IF i < k THEN i ELSE i + 1
               y == IF j < k THEN j ELSE j + 1
    <3>1. x \in 1..n /\ y \in 1..n /\ r[i] = s[x] /\ r[j] = s[y]
      BY <1>1, <1>6
    <3>2. x = y
      <4> HIDE DEF x, y
      <4> QED  BY <1>1, <1>8, <2>1, <3>1 DEF Once
    <3> QED  BY <1>1, <3>2
  <2> QED  BY <1>7, <2>1 DEF Once
<1>9. ASSUME NEW j \in 1..(n - 1) PROVE \E i \in 1..n : r[j] = s[i] /\ i # k
  <2> DEFINE x == IF j < k THEN j ELSE j + 1
  <2>1. x \in 1..n /\ x # k /\ r[j] = s[x]
    BY <1>1, <1>6
  <2> HIDE DEF x
  <2> QED  BY <2>1
<1> QED  BY <1>1, <1>5, <1>7, <1>8, <1>9 DEF r

LEMMA WithoutIs ==
  ASSUME NEW s \in Seq(Nat), NEW id
  PROVE  /\ Without(s, id) \in Seq(Nat) /\ \A x : Once(s, x) => Once(Without(s, id), x)
         /\ \A j \in DOMAIN Without(s, id) : \E i \in DOMAIN s : Without(s, id)[j] = s[i]
         /\ Once(s, id) => \A j \in DOMAIN Without(s, id) : Without(s, id)[j] # id
<1> DEFINE at == {k \in DOMAIN s : s[k] = id}
<1>1. CASE at = {}
  <2>1. Without(s, id) = s
    BY <1>1 DEF Without
  <2> QED  BY <1>1, <2>1
<1>2. CASE at # {}
  <2>1. Without(s, id) = RemoveAt(s, Min(at))
    BY <1>2 DEF Without
  <2>2. at \in SUBSET Nat
    BY LenProperties
  <2> HIDE DEF at
  <2>3. Min(at) \in at
    BY <1>2, <2>2, MinIs
  <2>4. Min(at) \in DOMAIN s /\ s[Min(at)] = id
    BY <2>3 DEF at
  <2> DEFINE k == Min(at)
  <2>5. k \in DOMAIN s /\ s[k] = id /\ Without(s, id) = RemoveAt(s, k)
    BY <2>1, <2>4
  <2> HIDE DEF k
  <2>6. /\ RemoveAt(s, k) \in Seq(Nat) /\ \A x : Once(s, x) => Once(RemoveAt(s, k), x)
        /\ \A j \in DOMAIN RemoveAt(s, k) : \E i \in DOMAIN s : RemoveAt(s, k)[j] = s[i] /\ i # k
    BY <2>5, RemovedEntry
  <2>7. Once(s, id) => \A i \in DOMAIN s : i # k => s[i] # id
    BY <2>5 DEF Once
  <2> QED  BY <2>5, <2>6, <2>7
<1> QED  BY <1>1, <1>2

LEMMA FirstEntry ==
  ASSUME NEW s \in Seq(Nat), NEW id \in Nat, \A i \in DOMAIN s : s[i] # id
  PROVE  /\ <<id>> \o s \in Seq(Nat) /\ \A x : Once(s, x) => Once(<<id>> \o s, x)
         /\ \A j \in DOMAIN (<<id>> \o s) : (<<id>> \o s)[j] = id \/ \E i \in DOMAIN s : (<<id>> \o s)[j] = s[i]
<1> DEFINE r == <<id>> \o s
           n == Len(s)
<1>1. n \in Nat /\ DOMAIN s = 1..n
  BY LenProperties
<1>2. <<id>> \in Seq(Nat) /\ Len(<<id>>) = 1 /\ <<id>>[1] = id
  OBVIOUS
<1>3. r \in Seq(Nat) /\ Len(r) = 1 + n
  BY <1>1, <1>2, ConcatProperties
<1>4. \A i \in 1..(1 + n) : r[i] = IF i <= 1 THEN <<id>>[i] ELSE s[i - 1]
  BY <1>1, <1>2, ConcatProperties
<1> HIDE DEF r, n
<1>5. DOMAIN r = 1..(n + 1)
  BY <1>1, <1>3, LenProperties
<1>6. r[1] = id /\ \A i \in 2..(n + 1) : r[i] = s[i - 1] /\ i - 1 \in DOMAIN s
  <2>1. ASSUME NEW i \in 2..(n + 1) PROVE r[i] = s[i - 1] /\ i - 1 \in DOMAIN s
    BY <1>1, <1>4
  <2>2. r[1] = id
    BY <1>1, <1>2, <1>4
  <2> QED  BY <2>1, <2>2
<1>7. ASSUME NEW x, Once(s, x) PROVE Once(r, x)
  <2>1. ASSUME NEW i \in 1..(n + 1), NEW j \in 1..(n + 1), r[i] = x, r[j] = x PROVE i = j
    <3>1. CASE i = 1
      <4>1. CASE j # 1
        <5>1. j \in 2..(n + 1)
          BY <1>1, <4>1
        <5> QED  BY <1>6, <2>1, <3>1, <5>1
      <4> QED  BY <3>1, <4>1
    <3>2. CASE j = 1
      <4>1. CASE i # 1
        <5>1. i \in 2..(n + 1)
          BY <1>1, <4>1
        <5> QED  BY <1>6, <2>1, <3>2, <5>1
      <4> QED  BY <3>2, <4>1
    <3>3. CASE i # 1 /\ j # 1
      <4>1. i - 1 \in DOMAIN s /\ j - 1 \in DOMAIN s /\ s[i - 1] = x /\ s[j - 1] = x
        BY <1>1, <1>6, <2>1, <3>3
      <4>2. i - 1 = j - 1
        BY <1>7, <4>1 DEF Once
      <4> QED  BY <1>1, <4>2
    <3> QED  BY <3>1, <3>2, <3>3
  <2> QED  BY <1>5, <2>1 DEF Once
<1>8. ASSUME NEW j \in DOMAIN r PROVE r[j] = id \/ \E i \in DOMAIN s : r[j] = s[i]
  <2>1. j = 1 \/ j \in 2..(n + 1)
    BY <1>1, <1>5
  <2> QED  BY <1>6, <2>1
<1> QED  BY <1>3, <1>7, <1>8 DEF r

LEMMA LastEntry ==
  ASSUME NEW s \in Seq(Nat), NEW id \in Nat
  PROVE  /\ Append(s, id) \in Seq(Nat)
         /\ \A x : Once(s, x) /\ (x = id => \A i \in DOMAIN s : s[i] # id) => Once(Append(s, id), x)
         /\ \A j \in DOMAIN Append(s, id) : Append(s, id)[j] = id \/ \E i \in DOMAIN s : Append(s, id)[j] = s[i]
<1> DEFINE r == Append(s, id)
           n == Len(s)
<1>1. n \in Nat /\ DOMAIN s = 1..n
  BY LenProperties
<1>2. r \in Seq(Nat) /\ Len(r) = n + 1
  BY AppendProperties
<1>3. DOMAIN r = 1..(n + 1) /\ r[n + 1] = id /\ \A i \in 1..n : r[i] = s[i]
  BY <1>1, <1>2, AppendProperties
<1> HIDE DEF r, n
<1>4. ASSUME NEW x, Once(s, x), x = id => \A i \in DOMAIN s : s[i] # id PROVE Once(r, x)
  <2>1. ASSUME NEW i \in 1..(n + 1), NEW j \in 1..(n + 1), r[i] = x, r[j] = x PROVE i = j
    <3>1. CASE i \in 1..n /\ j \in 1..n
      BY <1>1, <1>3, <1>4, <2>1, <3>1 DEF Once
    <3>2. CASE i = n + 1 /\ j = n + 1
      BY <3>2
    <3>3. CASE i = n + 1 /\ j # n + 1
      BY <1>1, <1>3, <1>4, <2>1, <3>3
    <3>4. CASE i # n + 1 /\ j = n + 1
      BY <1>1, <1>3, <1>4, <2>1, <3>4
    <3> QED  BY <1>1, <3>1, <3>2, <3>3, <3>4
  <2> QED  BY <1>3, <2>1 DEF Once
<1>5. \A j \in DOMAIN r : r[j] = id \/ \E i \in DOMAIN s : r[j] = s[i]
  BY <1>1, <1>3
<1> QED  BY <1>2, <1>4, <1>5 DEF r


-----------------------------------------------------------------------------
(* The registry                                                            *)

Rebuilt(a, b, c, p) == [libs |-> a, byName |-> b, object |-> c, proxy |-> p]
Consists(h, a, b, c, p) == h.libs = a /\ h.byName = b /\ h.object = c /\ h.proxy = p

LEMMA RebuiltIs ==
  ASSUME NEW a \in Seq(Libraries \cup {None}), NEW b \in [Names -> Seq(Nat)],
         NEW c \in [Libraries -> Objects], NEW p \in [CellIndexes -> Proxies]
  PROVE  IsRegistry(Rebuilt(a, b, c, p)) /\ Consists(Rebuilt(a, b, c, p), a, b, c, p)
<1> DEFINE h == Rebuilt(a, b, c, p)
<1>1. h.libs = a /\ h.byName = b /\ h.object = c /\ h.proxy = p
  BY DEF Rebuilt
<1>2. h = [libs |-> h.libs, byName |-> h.byName, object |-> h.object, proxy |-> h.proxy]
  BY DEF Rebuilt
<1> HIDE DEF h
<1>3. IsRegistry(h)
  BY <1>1, <1>2 DEF IsRegistry
<1> QED  BY <1>1, <1>3 DEF h, Consists

LEMMA RegistryIs ==
  ASSUME NEW g, IsRegistry(g)
  PROVE  /\ g.libs \in Seq(Libraries \cup {None}) /\ g.byName \in [Names -> Seq(Nat)]
         /\ g.object \in [Libraries -> Objects] /\ g.proxy \in [CellIndexes -> Proxies]
         /\ g = Rebuilt(g.libs, g.byName, g.object, g.proxy)
BY DEF IsRegistry, Rebuilt

In(g, l) == l \in Libraries /\ \E i \in DOMAIN g.libs : g.libs[i] = l

SameCounts(g, h) ==
  \A l \in Libraries : /\ h.object[l].refcount = g.object[l].refcount
                       /\ h.object[l].referrers = g.object[l].referrers

LEMMA InIs ==
  ASSUME NEW g, IsRegistry(g), NEW l \in Libraries
  PROVE  In(g, l) <=> \E id : Lib(g, id) = l
<1>1. l # None
  BY ConstantsAssumption
<1> QED  BY <1>1 DEF In, Lib

\* Changes that leave the libraries of the proxies as they are.
LEMMA TablesKeep ==
  ASSUME NEW g, NEW who, NEW m, CallInv(g, who, m),
         NEW h, IsRegistry(h), h.proxy = g.proxy, SameCounts(g, h), LibsOK(h), NamesOK(h),
         DOMAIN g.libs \subseteq DOMAIN h.libs,
         \A s \in CellIndexes : IsLive(g.proxy[s]) =>
            LET id == g.proxy[s].id IN Lib(h, id) = Lib(g, id) /\ CellsOf(h, id) = CellsOf(g, id)
  PROVE  CallInv(h, who, m) /\ Keeps(g, h, who, who, m)
<1>1. Exact(h, who)
  BY DEF CallInv, Exact, SameCounts
<1>2. \A s \in CellIndexes : HolderOf(h, h.proxy[s]) = HolderOf(g, g.proxy[s])
  BY DEF HolderOf
<1>3. Match(h, who)
  BY <1>2 DEF Match, CallInv
<1>4. \A s \in CellIndexes : Means(h, h.proxy[s], m[s])
  BY DEF Means, CallInv, Refs, CellOf
<1> QED  BY <1>1, <1>3, <1>4 DEF CallInv, Keeps, Refs

\* What is said of a library that is not registered is of no account.
LEMMA RedescribedIs ==
  ASSUME NEW g, NEW who, NEW m, CallInv(g, who, m), NEW l \in Libraries, ~In(g, l),
         NEW o \in Objects, o.refcount = g.object[l].refcount, o.referrers = g.object[l].referrers
  PROVE  LET h == [g EXCEPT !.object[l] = o] IN
         /\ Keeps(g, h, who, who, m) /\ h.libs = g.libs /\ h.byName = g.byName
         /\ h.object[l] = o /\ \A k \in Libraries : k # l => h.object[k] = g.object[k]
         /\ \A n : Touches(g, h, n)
<1> DEFINE h == [g EXCEPT !.object[l] = o]
           c == [g.object EXCEPT ![l] = o]
<1>1. IsRegistry(g) /\ LibsOK(g) /\ NamesOK(g)
  BY DEF CallInv
<1>2. /\ g.libs \in Seq(Libraries \cup {None}) /\ g.byName \in [Names -> Seq(Nat)]
      /\ c \in [Libraries -> Objects] /\ \A k \in Libraries : c[k] = IF k = l THEN o ELSE g.object[k]
  BY <1>1 DEF IsRegistry
<1>3. h = Rebuilt(g.libs, g.byName, c, g.proxy)
  BY <1>1, RegistryIs DEF Rebuilt
<1> HIDE DEF h, c
<1>4. IsRegistry(h) /\ h.libs = g.libs /\ h.byName = g.byName /\ h.object = c /\ h.proxy = g.proxy
  <2>1. g.libs \in Seq(Libraries \cup {None}) /\ g.byName \in [Names -> Seq(Nat)] /\ c \in [Libraries -> Objects]
    BY <1>2
  <2>2. IsRegistry(h) /\ Consists(h, g.libs, g.byName, c, g.proxy)
    BY <1>1, <1>3, <2>1, RegistryIs, RebuiltIs
  <2> QED  BY <2>2 DEF Consists
<1>5. \A id : Lib(h, id) = Lib(g, id) /\ Lib(g, id) # l
  BY <1>1, <1>4, InIs DEF Lib
<1>6. \A id : CellsOf(h, id) = CellsOf(g, id)
  <2>1. \A id : Lib(g, id) # None => h.object[Lib(g, id)] = g.object[Lib(g, id)]
    BY <1>1, <1>2, <1>4, <1>5, LibIs
  <2> QED  BY <1>5, <2>1 DEF CellsOf
<1>7. SameCounts(g, h)
  BY <1>2, <1>4 DEF SameCounts
<1>8. LibsOK(h)
  BY <1>1, <1>4 DEF LibsOK
<1>9. NamesOK(h)
  <2>1. \A i \in DOMAIN h.libs : h.libs[i] # None => h.object[h.libs[i]].name \in Names
    <3>1. \A i \in DOMAIN h.libs : h.libs[i] # None => h.libs[i] \in Libraries /\ h.libs[i] # l
      BY <1>1, <1>4, LibIs DEF In
    <3> QED  BY <1>1, <1>2, <1>4, <3>1 DEF NamesOK
  <2>2. ASSUME NEW n \in Names PROVE IdsOK(h, n)
    <3>1. IdsOK(g, n)
      BY <1>1 DEF NamesOK
    <3>2. \A id : Lib(g, id) # None => h.object[Lib(g, id)] = g.object[Lib(g, id)]
      BY <1>1, <1>2, <1>4, <1>5, LibIs
    <3>3. ASSUME NEW id, Titled(g, g.byName[n], n, id) PROVE Titled(h, g.byName[n], n, id)
      BY <1>5, <3>2, <3>3 DEF Titled
    <3> QED  BY <1>4, <3>1, <3>3 DEF IdsOK
  <2> QED  BY <2>1, <2>2 DEF NamesOK
<1>10. Keeps(g, h, who, who, m)
  BY <1>4, <1>5, <1>6, <1>7, <1>8, <1>9, TablesKeep
<1>11. \A n : Touches(g, h, n)
  <2>1. \A id : Lib(g, id) # None => h.object[Lib(g, id)] = g.object[Lib(g, id)]
    BY <1>1, <1>2, <1>4, <1>5, LibIs
  <2>2. \A id : SameEntry(g, h, id)
    BY <1>5, <2>1 DEF SameEntry
  <2> QED  BY <1>1, <1>4, <2>2, NoneTouched
<1> QED  BY <1>2, <1>4, <1>10, <1>11 DEF h

LEMMA IdOfIs ==
  ASSUME NEW g, IsRegistry(g), NEW l \in Libraries
  PROVE  /\ In(g, l) => IdOf(g, l) \in DOMAIN g.libs /\ g.libs[IdOf(g, l)] = l /\ IdOf(g, l) # NoId
                        /\ IdOf(g, l) \in Nat /\ Lib(g, IdOf(g, l)) = l
         /\ ~In(g, l) => IdOf(g, l) = NoId
<1>1. DOMAIN g.libs = 1..Len(g.libs) /\ Len(g.libs) \in Nat
  BY LenProperties DEF IsRegistry
<1>2. CASE In(g, l)
  <2>1. IdOf(g, l) \in DOMAIN g.libs /\ g.libs[IdOf(g, l)] = l
    BY <1>2 DEF In, IdOf
  <2> QED  BY <1>1, <1>2, <2>1, LibIs DEF NoId
<1>3. CASE ~In(g, l)
  BY <1>3 DEF In, IdOf
<1> QED  BY <1>2, <1>3

\* The name table is another one, whose entries lead to libraries of the name.
LEMMA RelistedIs ==
  ASSUME NEW g, NEW who, NEW m, CallInv(g, who, m), NEW b \in [Names -> Seq(Nat)],
         \A n \in Names : \A k \in DOMAIN b[n] :
           b[n][k] \in DOMAIN g.libs /\ (b[n][k] \notin misnamed => Titled(g, b[n], n, b[n][k]))
  PROVE  LET h == Rebuilt(g.libs, b, g.object, g.proxy) IN
         Keeps(g, h, who, who, m) /\ Consists(h, g.libs, b, g.object, g.proxy)
<1> DEFINE h == Rebuilt(g.libs, b, g.object, g.proxy)
<1>1. IsRegistry(g) /\ LibsOK(g) /\ NamesOK(g)
  BY DEF CallInv
<1>2. IsRegistry(h) /\ Consists(h, g.libs, b, g.object, g.proxy)
  BY <1>1, RegistryIs, RebuiltIs
<1> HIDE DEF h
<1>3. h.libs = g.libs /\ h.byName = b /\ h.object = g.object /\ h.proxy = g.proxy
  BY <1>2 DEF Consists
<1>4. \A id : Lib(h, id) = Lib(g, id) /\ CellsOf(h, id) = CellsOf(g, id)
  BY <1>3 DEF Lib, CellsOf
<1>5. LibsOK(h) /\ SameCounts(g, h)
  BY <1>1, <1>3 DEF LibsOK, SameCounts
<1>6. NamesOK(h)
  <2>1. ASSUME NEW e, NEW n, NEW id, Titled(g, e, n, id) PROVE Titled(h, e, n, id)
    BY <1>3, <1>4, <2>1 DEF Titled
  <2> QED  BY <1>1, <1>3, <2>1 DEF NamesOK, IdsOK
<1>7. Keeps(g, h, who, who, m)
  BY <1>2, <1>3, <1>4, <1>5, <1>6, TablesKeep
<1> QED  BY <1>2, <1>7 DEF h

Vacated(g, h, id) == \A j : Lib(h, j) = IF j = id THEN None ELSE Lib(g, j)

\* An id gets free that no proxy leads to, and no name unless the id is excepted.
LEMMA FreedIs ==
  ASSUME NEW g, NEW who, NEW m, CallInv(g, who, m), NEW id, Lib(g, id) # None, NoneUses(g, id),
         NEW b \in [Names -> Seq(Nat)],
         \A n \in Names : \A k \in DOMAIN b[n] :
           /\ b[n][k] \in DOMAIN g.libs
           /\ b[n][k] \notin misnamed => b[n][k] # id /\ Titled(g, b[n], n, b[n][k])
  PROVE  LET h == Rebuilt([g.libs EXCEPT ![id] = None], b, g.object, g.proxy) IN
         /\ Keeps(g, h, who, who, m) /\ h.object = g.object /\ ~In(h, Lib(g, id))
         /\ Vacated(g, h, id)
<1> DEFINE a == [g.libs EXCEPT ![id] = None]
           h == Rebuilt(a, b, g.object, g.proxy)
<1>1. IsRegistry(g) /\ LibsOK(g) /\ NamesOK(g)
  BY DEF CallInv
<1>2. a \in Seq(Libraries \cup {None}) /\ DOMAIN a = DOMAIN g.libs
  <2>1. g.libs \in Seq(Libraries \cup {None}) /\ id \in DOMAIN g.libs /\ None \in Libraries \cup {None}
    BY <1>1, LibIs, RegistryIs
  <2>2. id \in 1..Len(g.libs)
    BY <2>1, LenProperties
  <2>3. a \in Seq(Libraries \cup {None})
    BY <2>1, <2>2, ExceptSeq
  <2> QED  BY <2>3
<1>3. \A j \in DOMAIN g.libs : a[j] = IF j = id THEN None ELSE g.libs[j]
  BY <1>1, RegistryIs
<1> HIDE DEF a
<1>4. IsRegistry(h) /\ Consists(h, a, b, g.object, g.proxy)
  BY <1>1, <1>2, RegistryIs, RebuiltIs
<1> HIDE DEF h
<1>5. h.libs = a /\ h.byName = b /\ h.object = g.object /\ h.proxy = g.proxy
  BY <1>4 DEF Consists
<1>6. \A j : Lib(h, j) = IF j = id THEN None ELSE Lib(g, j)
  BY <1>2, <1>3, <1>5 DEF Lib
<1>7. \A j : j # id => CellsOf(h, j) = CellsOf(g, j)
  BY <1>5, <1>6 DEF CellsOf
<1>8. LibsOK(h) /\ SameCounts(g, h)
  BY <1>1, <1>2, <1>3, <1>5 DEF LibsOK, SameCounts
<1>9. NamesOK(h)
  <2>1. \A i \in DOMAIN h.libs : h.libs[i] # None => h.object[h.libs[i]].name \in Names
    BY <1>1, <1>2, <1>3, <1>5 DEF NamesOK
  <2>2. ASSUME NEW e, NEW n, NEW j, j # id, Titled(g, e, n, j) PROVE Titled(h, e, n, j)
    BY <1>5, <1>6, <2>2 DEF Titled
  <2>3. \A n \in Names : IdsOK(h, n)
    BY <1>2, <1>5, <2>2 DEF IdsOK
  <2> QED  BY <2>1, <2>3 DEF NamesOK
<1>10. Keeps(g, h, who, who, m)
  <2>1. \A s \in CellIndexes : IsLive(g.proxy[s]) => g.proxy[s].id # id
    BY DEF NoneUses
  <2>2. DOMAIN g.libs \subseteq DOMAIN h.libs
    BY <1>2, <1>5
  <2> QED  BY <1>4, <1>5, <1>6, <1>7, <1>8, <1>9, <2>1, <2>2, TablesKeep
<1>11. ~In(h, Lib(g, id))
  <2>1. id \in DOMAIN g.libs /\ Lib(g, id) = g.libs[id]
    BY <1>1, LibIs
  <2> QED  BY <1>1, <1>2, <1>3, <1>5, <2>1 DEF In, LibsOK
<1> QED  BY <1>5, <1>6, <1>10, <1>11 DEF h, a, Vacated

-----------------------------------------------------------------------------
(* A call that deletes a library                                           *)

\* As Keeps, but what the history keeps of a library that is deleted counts no more.
Follows(g, h, who, new, m) ==
  /\ CallInv(h, new, m) /\ DOMAIN g.libs \subseteq DOMAIN h.libs
  /\ \A s \in CellIndexes :
       /\ h.proxy[s] = Empty <=> g.proxy[s] = Empty
       /\ g.proxy[s] = Empty => new[s] = who[s] \/ (new[s] = Nobody /\ ~In(h, who[s].lib))

LEMMA KeepsFollows ==
  ASSUME NEW g, NEW h, NEW who, NEW new, NEW m, Keeps(g, h, who, new, m)
  PROVE  Follows(g, h, who, new, m)
BY DEF Keeps, Follows

LEMMA KeepsThenFollows ==
  ASSUME NEW g, NEW f, NEW h, NEW who, NEW mid, NEW new, NEW m,
         Keeps(g, f, who, mid, m), Follows(f, h, mid, new, m)
  PROVE  Follows(g, h, who, new, m)
BY DEF Keeps, Follows

LEMMA FollowsThenKeeps ==
  ASSUME NEW g, NEW f, NEW h, NEW who, NEW mid, NEW new, NEW m,
         Follows(g, f, who, mid, m), Keeps(f, h, mid, new, m), \A l : In(h, l) => In(f, l)
  PROVE  Follows(g, h, who, new, m)
BY DEF Keeps, Follows

LEMMA NewLibraryIs ==
  /\ NewLibrary \in Objects /\ NewLibrary.referrers = 0 /\ \A i \in Indexes : NewLibrary.refcount[i] = 0
BY DEF NewLibrary, Objects, NoCounts

\* A library that is not registered is deleted.
LEMMA BuriedIs ==
  ASSUME NEW g, NEW who, NEW m, CallInv(g, who, m), NEW l \in Libraries, ~In(g, l)
  PROVE  LET h == Buried(g, l) IN
         /\ \E new : Follows(g, h, who, new, m)
         /\ h.libs = g.libs /\ \A k \in Libraries : k # l => h.object[k] = g.object[k]
         /\ h.byName = g.byName /\ \A n : Touches(g, h, n)
<1> DEFINE c == [g.object EXCEPT ![l] = NewLibrary]
           h == Buried(g, l)
           new == [s \in CellIndexes |-> IF who[s].lib = l THEN Nobody ELSE who[s]]
<1>1. IsRegistry(g) /\ LibsOK(g) /\ NamesOK(g) /\ who \in Holders /\ Exact(g, who) /\ Match(g, who) /\ Refs(g, m)
  BY DEF CallInv
<1>2. /\ c \in [Libraries -> Objects]
      /\ \A k \in Libraries : c[k] = IF k = l THEN NewLibrary ELSE g.object[k]
  BY <1>1, RegistryIs, NewLibraryIs
<1>3. h = Rebuilt(g.libs, g.byName, c, g.proxy)
  BY <1>1, RegistryIs DEF Rebuilt, Buried
<1> HIDE DEF h, c
<1>4. IsRegistry(h) /\ h.libs = g.libs /\ h.byName = g.byName /\ h.object = c /\ h.proxy = g.proxy
  <2>1. g.libs \in Seq(Libraries \cup {None}) /\ g.byName \in [Names -> Seq(Nat)] /\ c \in [Libraries -> Objects]
    BY <1>1, <1>2, RegistryIs
  <2>2. IsRegistry(h) /\ Consists(h, g.libs, g.byName, c, g.proxy)
    BY <1>1, <1>3, <2>1, RegistryIs, RebuiltIs
  <2> QED  BY <2>2 DEF Consists
<1>5. \A id : Lib(h, id) = Lib(g, id) /\ Lib(g, id) # l
  BY <1>1, <1>4, InIs DEF Lib
<1>6. \A id : Lib(g, id) # None => h.object[Lib(g, id)] = g.object[Lib(g, id)]
  BY <1>1, <1>2, <1>4, <1>5, LibIs
<1>7. \A id : CellsOf(h, id) = CellsOf(g, id)
  BY <1>5, <1>6 DEF CellsOf
<1>8. LibsOK(h)
  BY <1>1, <1>4 DEF LibsOK
<1>9. NamesOK(h)
  <2>1. \A i \in DOMAIN h.libs : h.libs[i] # None => h.object[h.libs[i]].name \in Names
    <3>1. \A i \in DOMAIN h.libs : h.libs[i] # None => h.libs[i] \in Libraries /\ h.libs[i] # l
      BY <1>1, <1>4, LibIs DEF In
    <3> QED  BY <1>1, <1>2, <1>4, <3>1 DEF NamesOK
  <2>2. ASSUME NEW e, NEW n, NEW id, Titled(g, e, n, id) PROVE Titled(h, e, n, id)
    BY <1>5, <1>6, <2>2 DEF Titled
  <2>3. \A n \in Names : IdsOK(h, n)
    BY <1>1, <1>4, <2>2 DEF IdsOK, NamesOK
  <2> QED  BY <2>1, <2>3 DEF NamesOK
<1>10. new \in Holders /\ \A s \in CellIndexes : new[s] = IF who[s].lib = l THEN Nobody ELSE who[s]
  BY <1>1, NobodyHolds DEF Holders
<1> HIDE DEF new
<1>11. Exact(h, new)
  <2>1. ASSUME NEW k \in Libraries, k # l
        PROVE  HoldersOf(new, k) = HoldersOf(who, k) /\ \A i \in Indexes : HoldersAt(new, k, i) = HoldersAt(who, k, i)
    <3>1. k # None
      BY ConstantsAssumption
    <3>2. \A s \in CellIndexes : (new[s].lib = k <=> who[s].lib = k) /\ (who[s].lib = k => new[s] = who[s])
      BY <1>10, <2>1, <3>1, NobodyHolds
    <3> QED  BY <3>2 DEF HoldersOf, HoldersAt
  <2>2. HoldersOf(new, l) = {} /\ \A i \in Indexes : HoldersAt(new, l, i) = {}
    <3>1. l # None
      BY ConstantsAssumption
    <3>2. \A s \in CellIndexes : new[s].lib # l
      BY <1>10, <3>1, NobodyHolds
    <3> QED  BY <3>2 DEF HoldersOf, HoldersAt
  <2>3. ASSUME NEW k \in Libraries
        PROVE  /\ \A i \in Indexes : h.object[k].refcount[i] = Cardinality(HoldersAt(new, k, i))
               /\ h.object[k].referrers = Cardinality(HoldersOf(new, k))
    <3>1. CASE k = l
      <4>1. h.object[k] = NewLibrary
        BY <1>2, <1>4, <3>1
      <4> QED  BY <2>2, <3>1, <4>1, NewLibraryIs, FS_EmptySet
    <3>2. CASE k # l
      <4>1. h.object[k] = g.object[k]
        BY <1>2, <1>4, <3>2
      <4> QED  BY <1>1, <2>1, <3>2, <4>1 DEF Exact
    <3> QED  BY <3>1, <3>2
  <2> QED  BY <2>3 DEF Exact
<1>12. Match(h, new)
  <2>1. ASSUME NEW s \in CellIndexes, h.proxy[s] # Empty PROVE new[s] = HolderOf(h, h.proxy[s])
    <3>1. who[s] = HolderOf(g, g.proxy[s]) /\ HolderOf(h, h.proxy[s]) = HolderOf(g, g.proxy[s])
      BY <1>1, <1>4, <1>5, <2>1 DEF Match, HolderOf
    <3>2. who[s].lib # l
      <4>1. l # None
        BY ConstantsAssumption
      <4> QED  BY <1>5, <3>1, <4>1, NobodyHolds DEF HolderOf
    <3> QED  BY <1>10, <3>1, <3>2
  <2> QED  BY <2>1 DEF Match
<1>13. Refs(h, m)
  BY <1>1, <1>4, <1>7 DEF Refs, Means, CellOf
<1>14. CallInv(h, new, m)
  BY <1>4, <1>8, <1>9, <1>10, <1>11, <1>12, <1>13 DEF CallInv
<1>15. Follows(g, h, who, new, m)
  <2>1. ~In(h, l)
    BY <1>4 DEF In
  <2> QED  BY <1>4, <1>10, <1>14, <2>1 DEF Follows
<1>16. \A n : Touches(g, h, n)
  <2>1. \A id : SameEntry(g, h, id)
    BY <1>5, <1>6 DEF SameEntry
  <2> QED  BY <1>1, <1>4, <2>1, NoneTouched
<1> QED  BY <1>2, <1>4, <1>15, <1>16 DEF h

\* A library has no more than one id.
LEMMA IdIsOne ==
  ASSUME NEW g, IsRegistry(g), LibsOK(g), NEW i, NEW j, Lib(g, i) = Lib(g, j), Lib(g, i) # None
  PROVE  i = j
BY LibIs DEF LibsOK

LEMMA UnregisteredIs ==
  ASSUME NEW g, NEW who, NEW m, CallInv(g, who, m), NEW l \in Libraries
  PROVE  LET h == Unregistered(g, l) IN
         /\ \E new : Keeps(g, h, who, new, m)
         /\ ~In(h, l)
         /\ \A j : Lib(h, j) = IF Lib(g, j) = l THEN None ELSE Lib(g, j)
         /\ \A k \in Libraries :
              h.object[k].name = g.object[k].name /\ h.object[k].technologies = g.object[k].technologies
         /\ misnamed = {} => Touches(g, h, g.object[l].name)
         /\ In(g, l) => h.byName[g.object[l].name] = <<>>
<1> DEFINE id == IdOf(g, l)
           f == RemappedTo(g, id, NoId)
           n == g.object[l].name
           b == [f.byName EXCEPT ![n] = <<>>]
           h == Unregistered(g, l)
<1>1. IsRegistry(g) /\ LibsOK(g) /\ NamesOK(g) /\ l # None
  BY ConstantsAssumption DEF CallInv
<1>2. CASE ~In(g, l)
  <2>1. h = g
    BY <1>1, <1>2, IdOfIs DEF Unregistered
  <2>2. Keeps(g, g, who, who, m) /\ \A x : Touches(g, g, x)
    BY DEF Keeps, Touches, Cools, Finds
  <2>3. \A j : Lib(g, j) # l
    BY <1>1, <1>2, InIs
  <2> HIDE DEF h
  <2> QED  BY <1>2, <2>1, <2>2, <2>3 DEF h
<1>3. CASE In(g, l)
  <2>1. id \in Nat /\ id # NoId /\ Lib(g, id) = l /\ id \in DOMAIN g.libs /\ g.libs[id] = l
    BY <1>1, <1>3, IdOfIs
  <2>2. n \in Names
    BY <1>1, <2>1 DEF NamesOK
  <2> DEFINE r == Rebuilt([f.libs EXCEPT ![id] = None], b, f.object, f.proxy)
  <2>3. PICK mid : Keeps(g, f, who, mid, m) /\ SameLibraries(g, f) /\ NoneUses(f, id) /\ Touches(g, f, n)
    <3>1. NoId \in Nat
      BY DEF NoId
    <3> QED  BY <2>1, <3>1, RemappedToIs
  <2>4. h = r
    <3>1. IsRegistry(f)
      BY <2>3 DEF Keeps, CallInv
    <3>2. h = [Freed(f, id) EXCEPT !.byName[n] = <<>>]
      BY <2>1 DEF Unregistered
    <3>3. f = Rebuilt(f.libs, f.byName, f.object, f.proxy)
      BY <3>1, RegistryIs
    <3> HIDE DEF h, f, n
    <3> QED  BY <3>2, <3>3 DEF Freed, Rebuilt
  <2> HIDE DEF f, h, id, n
  <2>5. IsRegistry(f) /\ NamesOK(f) /\ CallInv(f, mid, m)
    BY <2>3 DEF Keeps, CallInv
  <2>6. Lib(f, id) = l
    BY <2>1, <2>3, SameLib
  <2>7. f.object[l].name = n
    BY <2>3 DEF SameLibraries, n
  <2>8. b \in [Names -> Seq(Nat)] /\ \A x \in Names : b[x] = IF x = n THEN <<>> ELSE f.byName[x]
    <3>1. f.byName \in [Names -> Seq(Nat)] /\ <<>> \in Seq(Nat)
      BY <2>5, RegistryIs
    <3> QED  BY <3>1
  <2> HIDE DEF b
  <2>9. ASSUME NEW x \in Names, NEW k \in DOMAIN b[x]
        PROVE  /\ b[x][k] \in DOMAIN f.libs
               /\ b[x][k] \notin misnamed => b[x][k] # id /\ Titled(f, b[x], x, b[x][k])
    <3>1. DOMAIN <<>> = {}
      OBVIOUS
    <3>2. x # n /\ b[x] = f.byName[x] /\ IdsOK(f, x)
      BY <2>5, <2>8, <3>1 DEF NamesOK
    <3> QED  BY <2>6, <2>7, <3>2 DEF IdsOK, Titled
  <2>10. /\ Keeps(f, r, mid, mid, m) /\ r.object = f.object /\ ~In(r, Lib(f, id))
         /\ Vacated(f, r, id)
    BY <1>1, <2>3, <2>5, <2>6, <2>8, <2>9, FreedIs
  <2>11. r.byName = b /\ r.proxy = f.proxy
    BY DEF Rebuilt
  <2> HIDE DEF r
  <2>12. Keeps(g, r, who, mid, m)
    BY <2>3, <2>10, KeepsThen
  <2>13. \A j : Lib(f, j) = Lib(g, j) /\ (j = id <=> Lib(g, j) = l)
    BY <1>1, <2>1, <2>3, SameLib, IdIsOne
  <2>14. \A k \in Libraries : r.object[k].name = g.object[k].name /\ r.object[k].technologies = g.object[k].technologies
    BY <2>3, <2>10 DEF SameLibraries
  <2>15. ASSUME misnamed = {} PROVE Touches(g, r, n)
    <3>1. \A x \in Names : x # n => r.byName[x] = f.byName[x]
                               /\ \A k \in DOMAIN f.byName[x] : SameEntry(f, r, f.byName[x][k])
      BY <2>8, <2>9, <2>10, <2>11, <2>15 DEF SameEntry, Vacated
    <3>2. IsRegistry(r)
      BY <2>10 DEF Keeps, CallInv
    <3>3. Touches(f, r, n)
      BY <2>5, <2>11, <3>1, <3>2, NoneTouched
    <3> QED  BY <2>3, <3>3, TouchesThen
  <2>16. r.byName[n] = <<>>
    BY <2>2, <2>8, <2>11
  <2> QED  BY <2>4, <2>6, <2>10, <2>12, <2>13, <2>14, <2>15, <2>16 DEF h, Vacated, n
<1> QED  BY <1>2, <1>3

LEMMA DeletedIs ==
  ASSUME NEW g, NEW who, NEW m, CallInv(g, who, m), NEW l \in Libraries
  PROVE  LET h == Deleted(g, l) IN
         /\ \E new : Follows(g, h, who, new, m)
         /\ \A j : Lib(h, j) = IF Lib(g, j) = l THEN None ELSE Lib(g, j)
         /\ \A k \in Libraries : k # l => h.object[k].name = g.object[k].name
         /\ misnamed = {} => Touches(g, h, g.object[l].name)
         /\ In(g, l) => h.byName[g.object[l].name] = <<>>
<1> DEFINE f == Unregistered(g, l)
           h == Buried(f, l)
<1>1. /\ \E mid : Keeps(g, f, who, mid, m)
      /\ ~In(f, l)
      /\ \A j : Lib(f, j) = IF Lib(g, j) = l THEN None ELSE Lib(g, j)
      /\ \A k \in Libraries : f.object[k].name = g.object[k].name
      /\ misnamed = {} => Touches(g, f, g.object[l].name)
      /\ In(g, l) => f.byName[g.object[l].name] = <<>>
  BY UnregisteredIs
<1>2. Deleted(g, l) = h
  BY DEF Deleted
<1> HIDE DEF f
<1>3. PICK mid : Keeps(g, f, who, mid, m)
  BY <1>1
<1>4. CallInv(f, mid, m)
  BY <1>3 DEF Keeps
<1>5. /\ \E new : Follows(f, h, mid, new, m)
      /\ h.libs = f.libs /\ \A k \in Libraries : k # l => h.object[k] = f.object[k]
      /\ h.byName = f.byName /\ \A n : Touches(f, h, n)
  BY <1>1, <1>4, BuriedIs
<1> HIDE DEF h
<1>6. PICK new : Follows(f, h, mid, new, m)
  BY <1>5
<1>7. Follows(g, h, who, new, m)
  BY <1>3, <1>6, KeepsThenFollows
<1>8. \A j : Lib(h, j) = Lib(f, j)
  BY <1>5 DEF Lib
<1>9. misnamed = {} => Touches(g, h, g.object[l].name)
  BY <1>1, <1>5, TouchesThen
<1> QED  BY <1>1, <1>2, <1>5, <1>7, <1>8, <1>9

LEMMA LedTo ==
  ASSUME NEW g, ~Dangling(g), NEW n \in Names, NEW k \in DOMAIN g.byName[n]
  PROVE  Lib(g, g.byName[n][k]) # None
BY DEF Dangling, ToSet

\* A new library gets a free id, to which no name leads if each leads to some library.
LEMMA InsertedIs ==
  ASSUME NEW g, NEW who, NEW m, CallInv(g, who, m), NEW l \in Libraries, ~In(g, l), g.object[l].name \in Names,
         ~Dangling(g)
  PROVE  LET h == Inserted(g, l) IN
         /\ Keeps(g, h, who, who, m) /\ h.object = g.object /\ h.byName = g.byName
         /\ In(h, l) /\ \A n \in Names : \A k \in DOMAIN h.byName[n] : h.byName[n][k] # IdOf(h, l)
         /\ \A n : Touches(g, h, n)
<1> DEFINE id == FreeId(g)
           free == {i \in DOMAIN g.libs : g.libs[i] = None}
           a == IF id > Len(g.libs) THEN Append(g.libs, l) ELSE [g.libs EXCEPT ![id] = l]
           h == Inserted(g, l)
<1>1. IsRegistry(g) /\ LibsOK(g) /\ NamesOK(g) /\ l # None
  BY ConstantsAssumption DEF CallInv
<1>2. g.libs \in Seq(Libraries \cup {None}) /\ Len(g.libs) \in Nat /\ DOMAIN g.libs = 1..Len(g.libs)
  BY <1>1, RegistryIs, LenProperties
<1>3. /\ a \in Seq(Libraries \cup {None}) /\ id \in DOMAIN a /\ DOMAIN g.libs \subseteq DOMAIN a
      /\ \A j \in DOMAIN a : IF j = id THEN a[j] = l ELSE j \in DOMAIN g.libs /\ a[j] = g.libs[j]
      /\ id \in DOMAIN g.libs => g.libs[id] = None
  <2>1. CASE free = {}
    <3>1. id = Len(g.libs) + 1
      BY <2>1 DEF FreeId
    <3>2. a = Append(g.libs, l)
      BY <1>2, <3>1
    <3> HIDE DEF a, id
    <3>3. a \in Seq(Libraries \cup {None}) /\ Len(a) = Len(g.libs) + 1
      BY <1>2, <3>2, AppendProperties
    <3>4. \A j \in 1..Len(g.libs) : a[j] = g.libs[j]
      BY <1>2, <3>2, AppendProperties
    <3>5. a[Len(g.libs) + 1] = l
      BY <1>2, <3>2, AppendProperties
    <3>6. DOMAIN a = 1..(Len(g.libs) + 1)
      BY <3>3, LenProperties
    <3> QED  BY <1>2, <3>1, <3>3, <3>4, <3>5, <3>6
  <2>2. CASE free # {}
    <3>1. id = Min(free)
      BY <2>2 DEF FreeId
    <3>2. free \in SUBSET Nat
      BY <1>2
    <3>3. id \in free
      <4> HIDE DEF free, id
      <4> QED  BY <2>2, <3>1, <3>2, MinIs
    <3>4. id \in 1..Len(g.libs) /\ g.libs[id] = None
      BY <1>2, <3>3
    <3> HIDE DEF id
    <3>5. a = [g.libs EXCEPT ![id] = l]
      BY <1>2, <3>4
    <3> HIDE DEF a
    <3>6. l \in Libraries \cup {None}
      OBVIOUS
    <3>7. a \in Seq(Libraries \cup {None})
      BY <1>2, <3>4, <3>5, <3>6, ExceptSeq
    <3>8. DOMAIN a = DOMAIN g.libs /\ \A j \in DOMAIN g.libs : a[j] = IF j = id THEN l ELSE g.libs[j]
      BY <3>5
    <3> QED  BY <1>2, <3>4, <3>7, <3>8
  <2> QED  BY <2>1, <2>2
<1>4. h = Rebuilt(a, g.byName, g.object, g.proxy)
  <2>1. h = [g EXCEPT !.libs = a]
    BY DEF Inserted
  <2>2. g = Rebuilt(g.libs, g.byName, g.object, g.proxy)
    BY <1>1, RegistryIs
  <2> HIDE DEF a, h
  <2> QED  BY <2>1, <2>2 DEF Rebuilt
<1> HIDE DEF a, id, h
<1>5. IsRegistry(h) /\ Consists(h, a, g.byName, g.object, g.proxy)
  BY <1>1, <1>3, <1>4, RegistryIs, RebuiltIs
<1>6. h.libs = a /\ h.byName = g.byName /\ h.object = g.object /\ h.proxy = g.proxy
  BY <1>5 DEF Consists
<1>7. Lib(g, id) = None
  BY <1>3 DEF Lib
<1>8. \A j : Lib(h, j) = IF j = id THEN l ELSE Lib(g, j)
  BY <1>3, <1>6 DEF Lib
<1>9. \A j : j # id => CellsOf(h, j) = CellsOf(g, j)
  BY <1>6, <1>8 DEF CellsOf
<1>10. \A j \in DOMAIN g.libs : g.libs[j] # l
  BY <1>1 DEF In
<1>11. LibsOK(h)
  BY <1>1, <1>3, <1>6, <1>10 DEF LibsOK
<1>12. SameCounts(g, h)
  BY <1>6 DEF SameCounts
<1>13. NamesOK(h)
  <2>1. \A i \in DOMAIN h.libs : h.libs[i] # None => h.object[h.libs[i]].name \in Names
    BY <1>1, <1>3, <1>6 DEF NamesOK
  <2>2. ASSUME NEW e, NEW n, NEW j, Titled(g, e, n, j) PROVE Titled(h, e, n, j)
    BY <1>6, <1>7, <1>8, <2>2 DEF Titled
  <2>3. \A n \in Names : IdsOK(h, n)
    BY <1>1, <1>3, <1>6, <2>2 DEF NamesOK, IdsOK
  <2> QED  BY <2>1, <2>3 DEF NamesOK
<1>14. Keeps(g, h, who, who, m)
  <2>1. \A s \in CellIndexes : IsLive(g.proxy[s]) => g.proxy[s].id # id
    BY <1>7, LibOfProxy
  <2> QED  BY <1>3, <1>5, <1>6, <1>8, <1>9, <1>11, <1>12, <1>13, <2>1, TablesKeep
<1>15. In(h, l) /\ IdOf(h, l) = id
  <2>1. In(h, l)
    BY <1>3, <1>6 DEF In
  <2>2. Lib(h, IdOf(h, l)) = l
    BY <1>5, <2>1, IdOfIs
  <2>3. \A j : Lib(g, j) # l
    BY <1>1, InIs
  <2> QED  BY <1>8, <2>1, <2>2, <2>3
<1>16. \A n \in Names : \A k \in DOMAIN h.byName[n] : h.byName[n][k] # IdOf(h, l)
  BY <1>6, <1>7, <1>15, LedTo
<1>17. \A n : Touches(g, h, n)
  <2>1. \A x \in Names : \A k \in DOMAIN g.byName[x] : SameEntry(g, h, g.byName[x][k])
    BY <1>6, <1>7, <1>8, LedTo DEF SameEntry
  <2> QED  BY <1>1, <1>5, <1>6, <2>1, NoneTouched
<1> QED  BY <1>6, <1>14, <1>15, <1>16, <1>17 DEF h

\* register_lib, after the library got its id: it takes the place of another one.
LEMMA SubstitutedIs ==
  ASSUME NEW g, NEW who, NEW m, CallInv(g, who, m), NEW l \in Libraries, In(g, l),
         \A n \in Names : \A k \in DOMAIN g.byName[n] : g.byName[n][k] # IdOf(g, l)
  PROVE  LET h == Substituted(g, l) IN
         /\ \E new : Follows(g, h, who, new, m)
         /\ misnamed = {} => Touches(g, h, g.object[l].name)
         /\ \A k : In(h, k) => In(g, k)
<1> DEFINE n == g.object[l].name
           id == IdOf(g, l)
           e == g.byName[n]
           same == {i \in DOMAIN e : Same(g, l, e[i])}
           old == e[Min(same)]
           h == Substituted(g, l)
<1>1. IsRegistry(g) /\ LibsOK(g) /\ NamesOK(g)
  BY DEF CallInv
<1>2. id \in Nat /\ Lib(g, id) = l /\ l # None /\ id \in DOMAIN g.libs /\ g.libs[id] = l
  BY <1>1, IdOfIs, ConstantsAssumption
<1>3. n \in Names
  BY <1>1, <1>2 DEF NamesOK
<1>4. e \in Seq(Nat) /\ IdsOK(g, n) /\ (\A k \in DOMAIN e : e[k] # id)
  BY <1>1, <1>3, RegistryIs DEF NamesOK, IdsOK
\* If only the entries of this name change
<1>5. ASSUME NEW x \in Seq(Nat), \A i : Once(e, i) => Once(x, i),
             \A k \in DOMAIN x : x[k] = id \/ \E i \in DOMAIN e : x[k] = e[i]
      PROVE  LET b == [g.byName EXCEPT ![n] = x]
                 f == [g EXCEPT !.byName[n] = x]
             IN  Keeps(g, f, who, who, m) /\ Consists(f, g.libs, b, g.object, g.proxy) /\ Touches(g, f, n)
  <2> DEFINE b == [g.byName EXCEPT ![n] = x]
             f == [g EXCEPT !.byName[n] = x]
  <2>1. b \in [Names -> Seq(Nat)] /\ \A y \in Names : b[y] = IF y = n THEN x ELSE g.byName[y]
    BY <1>1, RegistryIs, ZenonT(30)
  <2>2. f = Rebuilt(g.libs, b, g.object, g.proxy)
    <3>1. g = Rebuilt(g.libs, g.byName, g.object, g.proxy)
      BY <1>1, RegistryIs
    <3> HIDE DEF n
    <3> QED  BY <3>1 DEF Rebuilt
  <2> HIDE DEF b, f
  <2>3. ASSUME NEW y \in Names, NEW k \in DOMAIN b[y]
        PROVE  /\ b[y][k] \in DOMAIN g.libs
               /\ b[y][k] \notin misnamed => Titled(g, b[y], y, b[y][k])
    <3>1. CASE y = n
      <4>1. b[y] = x
        BY <2>1, <3>1
      <4>2. \A i \in DOMAIN e : e[i] \in DOMAIN g.libs /\ (e[i] \notin misnamed => Titled(g, e, n, e[i]))
        BY <1>4 DEF IdsOK
      <4>3. Once(e, id)
        BY <1>4 DEF Once
      <4>4. Lib(g, id) # None /\ g.object[Lib(g, id)].name = n /\ id \in DOMAIN g.libs /\ k \in DOMAIN x
        BY <1>2, <2>3, <4>1
      <4>5. x[k] = id \/ \E i \in DOMAIN e : x[k] = e[i]
        BY <1>5, <4>4
      <4> HIDE DEF e, id, n
      <4>6. x[k] \in DOMAIN g.libs /\ (x[k] \notin misnamed => Titled(g, x, n, x[k]))
        BY <1>5, <4>2, <4>3, <4>4, <4>5 DEF Titled
      <4> QED  BY <3>1, <4>1, <4>6
    <3>2. CASE y # n
      <4>1. b[y] = g.byName[y] /\ IdsOK(g, y)
        BY <1>1, <2>1, <3>2 DEF NamesOK
      <4> QED  BY <2>3, <4>1 DEF IdsOK
    <3> QED  BY <3>1, <3>2
  <2> DEFINE r == Rebuilt(g.libs, b, g.object, g.proxy)
  <2>4. Keeps(g, r, who, who, m) /\ Consists(r, g.libs, b, g.object, g.proxy)
    <3>1. b \in [Names -> Seq(Nat)]
      BY <2>1
    <3> QED  BY <2>3, <3>1, RelistedIs
  <2>5. f = r
    BY <2>2
  <2> HIDE DEF r
  <2>6. Touches(g, f, n)
    <3>1. f.libs = g.libs /\ f.byName = b /\ f.object = g.object /\ f.proxy = g.proxy /\ IsRegistry(f)
      BY <2>4, <2>5 DEF Consists, Keeps, CallInv
    <3>2. \A j : SameEntry(g, f, j)
      BY <3>1 DEF SameEntry, Lib
    <3>3. \A y \in Names : y # n => f.byName[y] = g.byName[y]
      BY <2>1, <3>1
    <3> HIDE DEF n
    <3> QED  BY <1>1, <3>1, <3>2, <3>3, NoneTouched
  <2> QED  BY <2>4, <2>5, <2>6 DEF f, b
<1>6. CASE same = {}
  <2> DEFINE x == <<id>> \o e
             f == [g EXCEPT !.byName[n] = x]
  <2>1. h = f
    BY <1>6 DEF Substituted
  <2>2. /\ x \in Seq(Nat) /\ \A i : Once(e, i) => Once(x, i)
        /\ \A k \in DOMAIN x : x[k] = id \/ \E i \in DOMAIN e : x[k] = e[i]
    <3> HIDE DEF e, id
    <3> QED  BY <1>2, <1>4, FirstEntry
  <2> HIDE DEF h, x, id, e, n, same
  <2>3. Keeps(g, f, who, who, m) /\ Consists(f, g.libs, [g.byName EXCEPT ![n] = x], g.object, g.proxy) /\ Touches(g, f, n)
    BY <1>5, <2>2
  <2>4. Follows(g, h, who, who, m)
    BY <2>1, <2>3, KeepsFollows
  <2>5. h.libs = g.libs
    BY <2>1, <2>3 DEF Consists
  <2> QED  BY <2>1, <2>3, <2>4, <2>5 DEF h, n, In
<1>7. CASE same # {}
  <2> DEFINE x == <<id>> \o RemoveAt(e, Min(same))
             b == [g.byName EXCEPT ![n] = x]
             f == [g EXCEPT !.byName[n] = x]
             d == RemappedTo(f, old, id)
             r == Rebuilt([d.libs EXCEPT ![old] = None], d.byName, d.object, d.proxy)
  <2>1. Min(same) \in same
    <3>1. same \in SUBSET Nat
      BY <1>4, LenProperties, SMTT(30)
    <3> HIDE DEF same
    <3> QED  BY <1>7, <3>1, MinIs
  <2>2. h = Buried(Freed(d, old), Lib(d, old))
    BY <1>7 DEF Substituted
  <2>3. old \in Nat /\ Min(same) \in DOMAIN e /\ Lib(g, old) # None
    <3>1. Min(same) \in DOMAIN e /\ Same(g, l, old)
      BY <2>1
    <3>2. old \in Nat
      BY <1>4, <3>1, ElementOfSeq, LenProperties
    <3> QED  BY <3>1, <3>2 DEF Same
  <2>4. /\ x \in Seq(Nat) /\ \A i : Once(e, i) => Once(x, i)
        /\ Once(e, old) => \A k \in DOMAIN x : x[k] # old
        /\ \A k \in DOMAIN x : x[k] = id \/ \E i \in DOMAIN e : x[k] = e[i]
    <3> DEFINE q == Min(same)
               y == RemoveAt(e, q)
    <3>1. e \in Seq(Nat) /\ q \in DOMAIN e /\ old = e[q] /\ (\A k \in DOMAIN e : e[k] # id) /\ x = <<id>> \o y
      BY <1>4, <2>3
    <3> HIDE DEF e, id, q, old
    <3>2. /\ y \in Seq(Nat) /\ \A i : Once(e, i) => Once(y, i)
          /\ \A j \in DOMAIN y : \E i \in DOMAIN e : y[j] = e[i] /\ i # q
      BY <3>1, RemovedEntry
    <3> HIDE DEF y, x
    <3>3. \A i \in DOMAIN y : y[i] # id
      BY <3>1, <3>2
    <3>4. /\ x \in Seq(Nat) /\ \A i : Once(y, i) => Once(x, i)
          /\ \A j \in DOMAIN x : x[j] = id \/ \E i \in DOMAIN y : x[j] = y[i]
      BY <1>2, <3>1, <3>2, <3>3, FirstEntry DEF id
    <3>5. ASSUME Once(e, old), NEW k \in DOMAIN x PROVE x[k] # old
      <4>1. \A i \in DOMAIN e : i # q => e[i] # old
        BY <3>1, <3>5 DEF Once
      <4> QED  BY <3>1, <3>2, <3>4, <4>1
    <3> QED  BY <3>2, <3>4, <3>5
  <2>5. old # id
    BY <1>4, <2>3
  <2> HIDE DEF h, x, id, e, same, old, n
  <2>6. Keeps(g, f, who, who, m) /\ Consists(f, g.libs, b, g.object, g.proxy) /\ Touches(g, f, n)
    BY <1>5, <2>4
  <2> HIDE DEF f
  <2>7. CallInv(f, who, m) /\ f.libs = g.libs /\ f.byName = b /\ f.object = g.object
    BY <2>6 DEF Keeps, Consists
  <2>8. PICK mid : /\ Keeps(f, d, who, mid, m) /\ SameLibraries(f, d) /\ NoneUses(d, old)
                   /\ Touches(f, d, f.object[Lib(f, old)].name)
    BY <1>2, <2>5, <2>7, RemappedToIs
  <2>9. CallInv(d, mid, m) /\ IsRegistry(d) /\ NamesOK(d) /\ d.byName = b /\ d.libs = g.libs
    BY <2>7, <2>8 DEF Keeps, CallInv, SameLibraries
  <2> HIDE DEF d
  <2>10. /\ \A j : Lib(d, j) = Lib(g, j)
         /\ Lib(d, old) # None /\ Lib(d, old) \in Libraries
         /\ old \notin misnamed => d.object[Lib(d, old)].name = n /\ Once(e, old)
    <3>1. \A j : Lib(d, j) = Lib(g, j)
      BY <2>9 DEF Lib
    <3>2. Lib(g, old) # None /\ Lib(g, old) \in Libraries
      BY <1>1, <2>3, LibIs
    <3>3. old \notin misnamed => g.object[Lib(g, old)].name = n /\ Once(e, old)
      BY <1>4, <2>3 DEF IdsOK, Titled, old, e
    <3>4. d.object[Lib(g, old)].name = g.object[Lib(g, old)].name
      BY <2>7, <2>8, <3>2 DEF SameLibraries
    <3> QED  BY <3>1, <3>2, <3>3, <3>4
  <2>11. ASSUME NEW y \in Names, NEW k \in DOMAIN d.byName[y]
         PROVE  /\ d.byName[y][k] \in DOMAIN d.libs
                /\ d.byName[y][k] \notin misnamed => d.byName[y][k] # old /\ Titled(d, d.byName[y], y, d.byName[y][k])
    <3>1. IdsOK(d, y)
      BY <2>9 DEF NamesOK
    <3>2. CASE y = n
      <4>1. d.byName[y] = x
        BY <1>1, <1>3, <2>9, <3>2, RegistryIs
      <4>2. old \notin misnamed => x[k] # old
        BY <2>4, <2>10, <2>11, <4>1
      <4> QED  BY <3>1, <4>1, <4>2 DEF IdsOK
    <3>3. CASE y # n
      BY <2>10, <3>1, <3>3 DEF IdsOK, Titled
    <3> QED  BY <3>2, <3>3
  <2>12. /\ Keeps(d, r, mid, mid, m) /\ r.object = d.object /\ ~In(r, Lib(d, old))
         /\ Vacated(d, r, old)
    <3>1. d.byName \in [Names -> Seq(Nat)]
      BY <2>9, RegistryIs
    <3>2. CallInv(d, mid, m) /\ Lib(d, old) # None /\ NoneUses(d, old)
      BY <2>8, <2>9, <2>10
    <3> DEFINE c == d.byName
    <3>3. \A y \in Names : \A k \in DOMAIN c[y] :
            /\ c[y][k] \in DOMAIN d.libs
            /\ c[y][k] \notin misnamed => c[y][k] # old /\ Titled(d, c[y], y, c[y][k])
      BY <2>11
    <3>4. c \in [Names -> Seq(Nat)]
      BY <3>1
    <3> DEFINE q == Rebuilt([d.libs EXCEPT ![old] = None], c, d.object, d.proxy)
    <3>5. r = q
      OBVIOUS
    <3> HIDE DEF c, r
    <3>6. /\ Keeps(d, q, mid, mid, m) /\ q.object = d.object /\ ~In(q, Lib(d, old))
          /\ Vacated(d, q, old)
      BY <3>2, <3>3, <3>4, FreedIs
    <3> HIDE DEF q
    <3> QED  BY <3>5, <3>6
  <2>13. r.byName = d.byName /\ r.proxy = d.proxy
    BY DEF Rebuilt
  <2>14. Freed(d, old) = r
    <3>1. d = Rebuilt(d.libs, d.byName, d.object, d.proxy)
      BY <2>9, RegistryIs
    <3> QED  BY <3>1 DEF Freed, Rebuilt
  <2> HIDE DEF r
  <2>15. CallInv(r, mid, m)
    BY <2>12 DEF Keeps
  <2> DEFINE v == Buried(r, Lib(d, old))
  <2>16. (\E new : Follows(r, v, mid, new, m)) /\ v.libs = r.libs /\ Touches(r, v, n)
    BY <2>10, <2>12, <2>15, BuriedIs
  <2> HIDE DEF v
  <2>17. PICK new : Follows(r, v, mid, new, m)
    BY <2>16
  <2>18. Keeps(g, r, who, mid, m)
    <3>1. Keeps(g, d, who, mid, m)
      BY <2>6, <2>8, KeepsThen
    <3> QED  BY <2>12, <3>1, KeepsThen
  <2>19. Follows(g, v, who, new, m)
    BY <2>17, <2>18, KeepsThenFollows
  <2>20. v = h
    BY <2>2, <2>14 DEF v
  <2>21. ASSUME NEW k, In(v, k) PROVE In(g, k)
    <3>1. PICK i \in DOMAIN r.libs : r.libs[i] = k
      BY <2>16, <2>21 DEF In
    <3>2. Lib(r, i) = k
      BY <3>1 DEF Lib
    <3>3. r.libs = [g.libs EXCEPT ![old] = None]
      BY <2>9 DEF r, Rebuilt
    <3>4. i \in DOMAIN g.libs
      BY <3>1, <3>3
    <3>5. CASE i # old
      BY <2>21, <3>1, <3>3, <3>4, <3>5 DEF In
    <3>6. CASE i = old
      <4>1. k = None
        BY <2>12, <3>2, <3>6 DEF Vacated
      <4> QED  BY <2>21, <4>1, ConstantsAssumption DEF In
    <3> QED  BY <3>5, <3>6
  <2>22. ASSUME misnamed = {} PROVE Touches(g, v, n)
    <3>1. f.object[Lib(f, old)].name = n
      <4>1. Lib(f, old) = Lib(g, old) /\ g.object[Lib(g, old)].name = n
        BY <1>4, <2>3, <2>7, <2>22 DEF Lib, IdsOK, Titled, old, e
      <4> QED  BY <2>7, <4>1
    <3>2. \A y \in Names : \A k \in DOMAIN d.byName[y] : SameEntry(d, r, d.byName[y][k])
      BY <2>11, <2>12, <2>22 DEF SameEntry, Vacated
    <3>3. Touches(d, r, n)
      BY <2>9, <2>15, <2>13, <3>2, NoneTouched DEF CallInv
    <3>4. Touches(g, d, n)
      BY <2>6, <2>8, <3>1, TouchesThen
    <3>5. Touches(g, r, n)
      BY <3>3, <3>4, TouchesThen
    <3> QED  BY <2>16, <3>5, TouchesThen
  <2> QED  BY <2>19, <2>20, <2>21, <2>22 DEF h, n
<1> QED  BY <1>6, <1>7

LEMMA RegisteredIs ==
  ASSUME NEW g, NEW who, NEW m, CallInv(g, who, m), NEW l \in Libraries, ~In(g, l), g.object[l].name \in Names,
         ~Dangling(g)
  PROVE  /\ \E new : Follows(g, Registered(g, l), who, new, m)
         /\ misnamed = {} => Touches(g, Registered(g, l), g.object[l].name)
<1> DEFINE f == Inserted(g, l)
           h == Substituted(f, l)
<1>1. /\ Keeps(g, f, who, who, m)
      /\ In(f, l) /\ \A n \in Names : \A k \in DOMAIN f.byName[n] : f.byName[n][k] # IdOf(f, l)
      /\ f.object = g.object /\ \A n : Touches(g, f, n)
  BY InsertedIs
<1>2. Registered(g, l) = h
  BY DEF Registered
<1> HIDE DEF f
<1>3. CallInv(f, who, m)
  BY <1>1 DEF Keeps
<1>4. PICK new : Follows(f, h, who, new, m) /\ (misnamed = {} => Touches(f, h, f.object[l].name))
  BY <1>1, <1>3, SubstitutedIs
<1> HIDE DEF h
<1>5. Follows(g, h, who, new, m)
  BY <1>1, <1>4, KeepsThenFollows
<1>6. misnamed = {} => Touches(g, h, g.object[l].name)
  BY <1>1, <1>4, TouchesThen
<1> QED  BY <1>2, <1>5, <1>6

\* A library that is not registered is described anew.
LEMMA DescribedIs ==
  ASSUME NEW g, NEW who, NEW m, CallInv(g, who, m), NEW l \in Libraries, ~In(g, l),
         NEW n \in Names \cup {None}, NEW techs \in SUBSET Technologies, NEW cells \in Contents \cup {<<>>}
  PROVE  LET h == [g EXCEPT !.object[l] = Described(@, n, techs, cells)] IN
         Keeps(g, h, who, who, m) /\ h.object[l].name = n /\ ~In(h, l) /\ \A x : Touches(g, h, x)
<1> DEFINE o == Described(g.object[l], n, techs, cells)
           h == [g EXCEPT !.object[l] = o]
<1>1. g.object[l] \in Objects
  BY RegistryIs DEF CallInv
<1>2. /\ o \in Objects /\ o.refcount = g.object[l].refcount /\ o.referrers = g.object[l].referrers
      /\ o.name = n
  BY <1>1 DEF Objects, Described
<1>3. [g EXCEPT !.object[l] = Described(@, n, techs, cells)] = h
  OBVIOUS
<1> HIDE DEF o
<1>4. Keeps(g, h, who, who, m) /\ h.libs = g.libs /\ h.object[l] = o /\ \A x : Touches(g, h, x)
  BY <1>2, RedescribedIs
<1> HIDE DEF h
<1>5. h.object[l].name = n /\ ~In(h, l)
  BY <1>2, <1>4 DEF In
<1> QED  BY <1>3, <1>4, <1>5

LEMMA RenamedIs ==
  ASSUME NEW g, NEW who, NEW m, CallInv(g, who, m), NEW id, Lib(g, id) # None,
         NEW n \in Names, n # g.object[Lib(g, id)].name
  PROVE  /\ \E new : Keeps(g, Renamed(g, id, n), who, new, m)
         /\ Renamed(g, id, n).libs = g.libs
         /\ Cools(g, Renamed(g, id, n), n)
         /\ \A x \in Names \ {n, g.object[Lib(g, id)].name} : Finds(g, Renamed(g, id, n), x)
<1> DEFINE l == Lib(g, id)
           old == g.object[l].name
           a == Without(g.byName[old], id)
           e == Append(g.byName[n], id)
           without == [g.byName EXCEPT ![old] = Without(@, id)]
           b == [without EXCEPT ![n] = Append(@, id)]
           o == [g.object[l] EXCEPT !.name = n]
           c == [g.object EXCEPT ![l] = o]
           f == Rebuilt(g.libs, b, c, g.proxy)
           h == RemappedTo(f, id, id)
<1>1. IsRegistry(g) /\ LibsOK(g) /\ NamesOK(g)
  BY DEF CallInv
<1>2. l \in Libraries /\ id \in DOMAIN g.libs /\ g.libs[id] = l /\ id \in Nat /\ l # None
  <2>1. l \in Libraries /\ id \in DOMAIN g.libs /\ g.libs[id] = l
    BY <1>1, LibIs
  <2>2. DOMAIN g.libs = 1..Len(g.libs)
    BY <1>1, RegistryIs, LenProperties
  <2>3. id \in Nat
    BY <2>1, <2>2
  <2> QED  BY <2>1, <2>3
<1>3. old \in Names /\ old # n
  BY <1>1, <1>2 DEF NamesOK
<1>4. Renamed(g, id, n) = h
  <2>1. Renamed(g, id, n) = RemappedTo([g EXCEPT !.byName = b, !.object[l].name = n], id, id)
    BY <1>2 DEF Renamed
  <2>2. [g EXCEPT !.byName = b, !.object[l].name = n] = f
    <3> HIDE DEF b, l
    <3>1. [g EXCEPT !.byName = b, !.object[l].name = n] =
            [libs |-> g.libs, byName |-> b, object |-> [g.object EXCEPT ![l].name = n], proxy |-> g.proxy]
      <4>1. g = [libs |-> g.libs, byName |-> g.byName, object |-> g.object, proxy |-> g.proxy]
        BY <1>1 DEF IsRegistry
      <4> DEFINE x == [g EXCEPT !.byName = b]
                 y == [x EXCEPT !.object[l].name = n]
      <4>2. [g EXCEPT !.byName = b, !.object[l].name = n] = y
        OBVIOUS
      <4>3. x = [libs |-> g.libs, byName |-> b, object |-> g.object, proxy |-> g.proxy]
        BY <4>1
      <4> HIDE DEF x
      <4>4. y = [libs |-> g.libs, byName |-> b, object |-> [g.object EXCEPT ![l].name = n], proxy |-> g.proxy]
        BY <4>3
      <4> HIDE DEF y
      <4> QED  BY <4>2, <4>4
    <3>2. [g.object EXCEPT ![l].name = n] = c
      OBVIOUS
    <3> HIDE DEF c
    <3> QED  BY <3>1, <3>2 DEF Rebuilt
  <2> HIDE DEF f, b
  <2> QED  BY <2>1, <2>2
<1>5. g.byName[old] \in Seq(Nat) /\ g.byName[n] \in Seq(Nat) /\ IdsOK(g, old) /\ IdsOK(g, n)
  BY <1>1, <1>3, RegistryIs DEF NamesOK
<1>6. o \in Objects /\ o.name = n /\ o.technologies = g.object[l].technologies /\ o.cells = g.object[l].cells
      /\ o.refcount = g.object[l].refcount /\ o.referrers = g.object[l].referrers
  <2>1. g.object[l] \in Objects
    BY <1>1, <1>2, RegistryIs
  <2> HIDE DEF l
  <2> QED  BY <2>1 DEF Objects
<1>7. c \in [Libraries -> Objects] /\ \A k \in Libraries : c[k] = IF k = l THEN o ELSE g.object[k]
  <2> HIDE DEF o, l
  <2> QED  BY <1>1, <1>6, RegistryIs
<1>8. /\ a \in Seq(Nat) /\ \A x : Once(g.byName[old], x) => Once(a, x)
      /\ \A j \in DOMAIN a : \E i \in DOMAIN g.byName[old] : a[j] = g.byName[old][i]
      /\ id \notin misnamed => \A j \in DOMAIN a : a[j] # id
  <2> DEFINE s == g.byName[old]
  <2>1. s \in Seq(Nat)
    BY <1>5
  <2>2. id \notin misnamed => Once(s, id)
    BY <1>5 DEF IdsOK, Titled, Once
  <2> HIDE DEF s
  <2>3. /\ Without(s, id) \in Seq(Nat) /\ \A x : Once(s, x) => Once(Without(s, id), x)
        /\ \A j \in DOMAIN Without(s, id) : \E i \in DOMAIN s : Without(s, id)[j] = s[i]
        /\ Once(s, id) => \A j \in DOMAIN Without(s, id) : Without(s, id)[j] # id
    BY <2>1, WithoutIs
  <2> QED  BY <2>2, <2>3 DEF s
<1>9. /\ e \in Seq(Nat)
      /\ \A x : Once(g.byName[n], x) /\ (x = id => id \notin misnamed) => Once(e, x)
      /\ \A j \in DOMAIN e : e[j] = id \/ \E i \in DOMAIN g.byName[n] : e[j] = g.byName[n][i]
      /\ id \notin misnamed => Once(g.byName[n], id)
  <2> DEFINE s == g.byName[n]
  <2>1. s \in Seq(Nat)
    BY <1>5
  <2>2. ASSUME id \notin misnamed, NEW i \in DOMAIN s PROVE s[i] # id
    <3>1. s[i] = id => g.object[Lib(g, id)].name = n
      BY <1>5, <2>2 DEF IdsOK, Titled
    <3> HIDE DEF s
    <3> QED  BY <1>3, <3>1 DEF old, l
  <2> HIDE DEF s
  <2>3. /\ Append(s, id) \in Seq(Nat)
        /\ \A x : Once(s, x) /\ (x = id => \A i \in DOMAIN s : s[i] # id) => Once(Append(s, id), x)
        /\ \A j \in DOMAIN Append(s, id) : Append(s, id)[j] = id \/ \E i \in DOMAIN s : Append(s, id)[j] = s[i]
    BY <1>2, <2>1, LastEntry
  <2>4. id \notin misnamed => Once(s, id)
    BY <2>2 DEF Once
  <2> QED  BY <2>2, <2>3, <2>4 DEF s
<1>10. /\ b \in [Names -> Seq(Nat)]
       /\ \A y \in Names : b[y] = IF y = n THEN e ELSE IF y = old THEN a ELSE g.byName[y]
  <2>1. g.byName \in [Names -> Seq(Nat)]
    BY <1>1, RegistryIs
  <2>2. /\ without \in [Names -> Seq(Nat)]
        /\ \A y \in Names : without[y] = IF y = old THEN a ELSE g.byName[y]
    <3>1. a \in Seq(Nat)
      BY <1>8
    <3> HIDE DEF old
    <3> QED  BY <2>1, <3>1
  <2>3. e = Append(without[n], id)
    BY <1>3, <2>2
  <2> HIDE DEF without, e, a, old
  <2> QED  BY <1>9, <2>2, <2>3
<1>11. IsRegistry(f) /\ Consists(f, g.libs, b, c, g.proxy)
  <2>1. b \in [Names -> Seq(Nat)] /\ c \in [Libraries -> Objects]
    BY <1>7, <1>10
  <2> HIDE DEF b, c
  <2> QED  BY <1>1, <2>1, RegistryIs, RebuiltIs
<1> HIDE DEF h, f, b, c, without, o, a, e, old
<1>12. f.libs = g.libs /\ f.byName = b /\ f.object = c /\ f.proxy = g.proxy
  BY <1>11 DEF Consists
<1>13. \A j : Lib(f, j) = Lib(g, j)
  BY <1>12 DEF Lib
<1>14. \A j : Lib(g, j) # None => f.object[Lib(g, j)].cells = g.object[Lib(g, j)].cells
  BY <1>1, <1>6, <1>7, <1>12, LibIs
<1>15. \A j : CellsOf(f, j) = CellsOf(g, j)
  BY <1>13, <1>14 DEF CellsOf
<1>16. LibsOK(f)
  BY <1>1, <1>12 DEF LibsOK
<1>17. SameCounts(g, f)
  BY <1>6, <1>7, <1>12 DEF SameCounts
<1>18. NamesOK(f)
  <2>1. \A i \in DOMAIN f.libs : f.libs[i] # None => f.object[f.libs[i]].name \in Names
    <3>1. \A i \in DOMAIN g.libs : g.libs[i] # None => g.libs[i] \in Libraries /\ g.object[g.libs[i]].name \in Names
      BY <1>1, LibIs DEF NamesOK
    <3> QED  BY <1>6, <1>7, <1>12, <3>1
  <2>2. \A j : Lib(g, j) = l => j = id
    BY <1>1, <1>2, IdIsOne
  <2>3. \A j : Lib(g, j) # None /\ j # id => f.object[Lib(g, j)] = g.object[Lib(g, j)]
    BY <1>1, <1>7, <1>12, <2>2, LibIs
  <2>4. f.object[l].name = n
    BY <1>2, <1>6, <1>7, <1>12
  <2>5. ASSUME NEW y \in Names, y # n, NEW q, NEW j, j # id, Titled(g, q, y, j) PROVE Titled(f, q, y, j)
    BY <1>13, <2>3, <2>5 DEF Titled
  <2>6. IdsOK(f, n)
    <3>1. f.byName[n] = e /\ IdsOK(g, n)
      BY <1>5, <1>10, <1>12
    <3>2. ASSUME NEW k \in DOMAIN e
          PROVE  e[k] \in DOMAIN g.libs /\ (e[k] \notin misnamed => Titled(f, e, n, e[k]))
      <4>1. CASE e[k] = id
        BY <1>2, <1>9, <1>13, <2>4, <4>1 DEF Titled
      <4>2. CASE e[k] # id
        <5>1. PICK i \in DOMAIN g.byName[n] : e[k] = g.byName[n][i]
          BY <1>9, <4>2
        <5>2. e[k] \in DOMAIN g.libs /\ (e[k] \notin misnamed => Titled(g, g.byName[n], n, e[k]))
          BY <3>1, <5>1 DEF IdsOK
        <5>3. ASSUME Titled(g, g.byName[n], n, e[k]) PROVE Titled(f, e, n, e[k])
          <6>1. Once(e, e[k])
            BY <1>9, <4>2, <5>3 DEF Titled
          <6> QED  BY <1>13, <2>3, <4>2, <5>3, <6>1 DEF Titled
        <5> QED  BY <5>2, <5>3
      <4> QED  BY <4>1, <4>2
    <3> QED  BY <1>12, <3>1, <3>2 DEF IdsOK
  <2>7. IdsOK(f, old)
    <3>1. f.byName[old] = a /\ IdsOK(g, old)
      BY <1>3, <1>5, <1>10, <1>12
    <3>2. ASSUME NEW k \in DOMAIN a
          PROVE  a[k] \in DOMAIN g.libs /\ (a[k] \notin misnamed => Titled(f, a, old, a[k]))
      <4>1. PICK i \in DOMAIN g.byName[old] : a[k] = g.byName[old][i]
        BY <1>8
      <4>2. a[k] \in DOMAIN g.libs /\ (a[k] \notin misnamed => Titled(g, g.byName[old], old, a[k]))
        BY <3>1, <4>1 DEF IdsOK
      <4>3. ASSUME a[k] \notin misnamed PROVE Titled(f, a, old, a[k])
        <5>1. a[k] # id /\ Once(a, a[k])
          BY <1>8, <4>2, <4>3 DEF Titled
        <5>2. Titled(f, g.byName[old], old, a[k])
          BY <1>3, <2>5, <4>2, <4>3, <5>1
        <5> QED  BY <5>1, <5>2 DEF Titled
      <4> QED  BY <4>2, <4>3
    <3> QED  BY <1>12, <3>1, <3>2 DEF IdsOK
  <2>8. ASSUME NEW y \in Names, y # n, y # old PROVE IdsOK(f, y)
    <3>1. f.byName[y] = g.byName[y] /\ IdsOK(g, y)
      BY <1>1, <1>10, <1>12, <2>8 DEF NamesOK
    <3>2. ASSUME NEW j, Titled(g, g.byName[y], y, j) PROVE Titled(f, g.byName[y], y, j)
      <4>1. j # id
        BY <2>8, <3>2 DEF Titled, old, l
      <4> QED  BY <2>5, <2>8, <3>2, <4>1
    <3> QED  BY <1>12, <3>1, <3>2 DEF IdsOK
  <2> QED  BY <2>1, <2>6, <2>7, <2>8 DEF NamesOK
<1>19. Keeps(g, f, who, who, m)
  BY <1>11, <1>12, <1>13, <1>15, <1>16, <1>17, <1>18, TablesKeep
<1>20. CallInv(f, who, m)
  BY <1>19 DEF Keeps
<1>21. PICK new : Keeps(f, h, who, new, m) /\ SameLibraries(f, h) /\ Touches(f, h, f.object[Lib(f, id)].name)
  BY <1>2, <1>20, RemappedToIs DEF h
<1>22. Keeps(g, h, who, new, m) /\ h.libs = g.libs
  BY <1>12, <1>19, <1>21, KeepsThen DEF SameLibraries
<1>23. Cools(g, h, n)
  <2>1. Lib(f, id) = l /\ f.object[l].name = n
    BY <1>2, <1>6, <1>7, <1>12, <1>13
  <2> HIDE DEF l
  <2> QED  BY <1>12, <1>21, <2>1 DEF Touches, Cools
<1>24. ASSUME NEW x \in Names \ {n, old} PROVE Finds(g, h, x)
  <2>1. f.byName[x] = g.byName[x]
    BY <1>10, <1>12, <1>24
  <2>2. ASSUME NEW j PROVE SameEntry(g, f, j)
    <3>1. Lib(g, j) # None => Lib(g, j) \in Libraries
      BY <1>1, LibIs
    <3> QED  BY <1>6, <1>7, <1>12, <1>13, <3>1 DEF SameEntry
  <2>3. Finds(g, f, x)
    BY <1>1, <1>11, <2>1, <2>2, LookupSame
  <2>4. Finds(f, h, x)
    BY <1>18, <1>21, <1>11, SameFinds DEF Keeps, CallInv
  <2> QED  BY <2>3, <2>4 DEF Finds
<1> QED  BY <1>4, <1>22, <1>23, <1>24 DEF old, l

-----------------------------------------------------------------------------
(* The inductive invariant                                                 *)

\* Who the libraries count, between two calls: the proxies of the layout and the one
\* that the history keeps.
Who == [s \in CellIndexes |->
          IF reg.proxy[s] # Empty THEN HolderOf(reg, reg.proxy[s])
          ELSE IF s = op.at THEN HolderOf(reg, op.cell) ELSE Nobody]

OpTyped(o) == o \in [at : CellIndexes \cup {None}, remove : BOOLEAN, done : BOOLEAN, cell : Proxies]

\* The operation keeps a cell if and only if the layout does not have it.
OpOK ==
  /\ OpTyped(op)
  /\ op.at = None => op = NoOp
  /\ op.at # None =>
       IF op.remove = op.done THEN op.cell # Empty /\ reg.proxy[op.at] = Empty
       ELSE op.cell = Empty /\ reg.proxy[op.at] # Empty
  /\ Means(reg, op.cell, meant[op.at])

Consistent == CallInv(reg, Who, meant) /\ OpOK

IInv == TypeOK /\ NamesMatchRegistry /\ (~outlived => Consistent)

LEMMA ExactBounds ==
  ASSUME NEW g, NEW who, Exact(g, who), NEW l \in Libraries
  PROVE  /\ g.object[l].referrers \in 0..Cardinality(CellIndexes)
         /\ \A i \in Indexes : g.object[l].refcount[i] \in 0..Cardinality(CellIndexes)
<1>1. \A S \in SUBSET CellIndexes : Cardinality(S) \in 0..Cardinality(CellIndexes)
  <2>1. ASSUME NEW S \in SUBSET CellIndexes PROVE Cardinality(S) \in 0..Cardinality(CellIndexes)
    <3>1. IsFiniteSet(S) /\ Cardinality(S) <= Cardinality(CellIndexes)
      BY FS_Subset, ConstantsAssumption
    <3>2. Cardinality(S) \in Nat /\ Cardinality(CellIndexes) \in Nat
      BY <3>1, FS_CardinalityType, ConstantsAssumption
    <3> QED  BY <3>1, <3>2
  <2> QED  BY <2>1
<1>2. HoldersOf(who, l) \in SUBSET CellIndexes /\ \A i \in Indexes : HoldersAt(who, l, i) \in SUBSET CellIndexes
  BY DEF HoldersOf, HoldersAt
<1> QED  BY <1>1, <1>2 DEF Exact

\* The types that follow from what holds of the registry after a call.
LEMMA TypesHold ==
  ASSUME NEW who, IsRegistry(reg'), Exact(reg', who), NamesOK(reg)', misnamed' \subseteq DOMAIN reg'.libs,
         \A s \in CellIndexes : IsLive(reg'.proxy[s]) => Lib(reg', reg'.proxy[s].id) # None,
         OpTyped(op'), ProxyType(op.cell)',
         \A l \in Libraries, i \in Indexes : reg'.object[l].retired[i] <= MaxRetired,
         technology' \in Technologies \cup {None}, meant' \in [CellIndexes -> Cells \cup {None}],
         outlived' \in BOOLEAN, overlooked' \subseteq CellIndexes
  PROVE  TypeOK' /\ NamesMatchRegistry'
<1> DEFINE g == reg'
<1>1. IsRegistry(g) /\ Exact(g, who)
  OBVIOUS
<1>2. ToSet(g.libs) \subseteq Libraries \cup {None}
  <2>1. \A j \in DOMAIN g.libs : g.libs[j] \in Libraries \cup {None}
    BY <1>1, LibIs
  <2> QED  BY <2>1 DEF ToSet
<1>3. \A n \in Names : ToSet(g.byName[n]) \subseteq DOMAIN g.libs
  <2>1. \A n \in Names : \A k \in DOMAIN g.byName[n] : g.byName[n][k] \in DOMAIN g.libs
    BY DEF NamesOK, IdsOK
  <2> QED  BY <2>1 DEF ToSet
<1>4. ASSUME NEW l \in Libraries
      PROVE  LET o == g.object[l] IN
             /\ o.name \in Names \cup {None}
             /\ o.technologies \subseteq Technologies /\ o.cells \in Contents \cup {<<>>}
             /\ \A i \in Indexes : o.refcount[i] \in 0..Cardinality(CellIndexes) /\ o.retired[i] \in 0..MaxRetired
             /\ o.referrers \in 0..Cardinality(CellIndexes)
  <2>1. g.object[l] \in Objects
    BY <1>1, RegistryIs
  <2>2. \A i \in Indexes : g.object[l].retired[i] \in 0..MaxRetired
    <3>1. \A i \in Indexes : g.object[l].retired[i] \in Nat
      BY <2>1 DEF Objects
    <3> QED  BY <3>1, ConstantsAssumption
  <2>3. /\ g.object[l].name \in Names \cup {None}
        /\ g.object[l].technologies \subseteq Technologies /\ g.object[l].cells \in Contents \cup {<<>>}
    BY <2>1 DEF Objects
  <2> QED  BY <1>1, <2>2, <2>3, ExactBounds
<1>5. ASSUME NEW s \in CellIndexes PROVE ProxyType(reg.proxy[s])'
  <2>1. g.proxy[s] \in Proxies
    BY <1>1, RegistryIs
  <2>2. CASE IsLive(g.proxy[s])
    <3>1. g.proxy[s].id \in DOMAIN g.libs
      BY <1>1, <2>2, LibIs
    <3> QED  BY <2>1, <2>2, <3>1, ProxyForms DEF ProxyType
  <2>3. CASE ~IsLive(g.proxy[s])
    BY <2>1, <2>3, ProxyForms DEF ProxyType
  <2> QED  BY <2>2, <2>3
<1>6. TypeOK'
  <2>1. op'.at \in CellIndexes \cup {None} /\ op'.remove \in BOOLEAN /\ op'.done \in BOOLEAN
    BY DEF OpTyped
  <2> QED  BY <1>2, <1>3, <1>4, <1>5, <2>1 DEF TypeOK
<1>7. NamesMatchRegistry'
  <2>1. ASSUME NEW n \in Names, NEW k \in DOMAIN g.byName[n], g.byName[n][k] \notin misnamed'
        PROVE  Titled(g, g.byName[n], n, g.byName[n][k])
    BY <2>1 DEF NamesOK, IdsOK
  <2> QED  BY <2>1 DEF NamesMatchRegistry, Titled, Once
<1> QED  BY <1>6, <1>7

LEMMA WhoIs ==
  ASSUME NEW w \in Holders,
         \A s \in CellIndexes : w[s] = IF reg'.proxy[s] # Empty THEN HolderOf(reg', reg'.proxy[s])
                                       ELSE IF s = op'.at THEN HolderOf(reg', op'.cell) ELSE Nobody
  PROVE  Who' = w
BY DEF Who, Holders

LEMMA OpType ==
  ASSUME OpOK', IsRegistry(reg')
  PROVE  ProxyType(op.cell)'
<1> DEFINE p == op'.cell
           g == reg'
<1>1. p \in Proxies /\ Means(g, p, meant'[op'.at])
  BY DEF OpOK, OpTyped
<1>2. CASE IsLive(p)
  <2>1. p # Empty
    BY <1>2, NotEmpty
  <2>2. CellOf(g, p) # None
    BY <1>1, <1>2, <2>1 DEF Means
  <2>3. DOMAIN CellsOf(g, p.id) # {}
    BY <2>2 DEF CellOf
  <2>4. p.id \in DOMAIN g.libs
    BY <2>3, CellsAre, LibIs
  <2> QED  BY <1>1, <1>2, <2>4, ProxyForms DEF ProxyType
<1>3. CASE ~IsLive(p)
  BY <1>1, <1>3, ProxyForms DEF ProxyType
<1> QED  BY <1>2, <1>3

\* At the end of a call, an id is excepted as long as it is listed.
LEMMA NamesStay ==
  ASSUME NEW g, NamesOK(g), Registry(g)
  PROVE  NamesOK(reg)' /\ misnamed' \subseteq DOMAIN reg'.libs
<1>1. reg' = g /\ misnamed' = {id \in misnamed : IsListed(g, id)}
  BY DEF Registry
<1>2. \A n \in Names : \A k \in DOMAIN g.byName[n] : g.byName[n][k] \notin misnamed' => g.byName[n][k] \notin misnamed
  BY <1>1 DEF IsListed, ToSet
<1>3. NamesOK(reg)'
  BY <1>1, <1>2 DEF NamesOK, IdsOK
<1>4. \A id : IsListed(g, id) => id \in DOMAIN g.libs
  BY DEF NamesOK, IdsOK, IsListed, ToSet
<1> QED  BY <1>1, <1>3, <1>4

(* A call to the registry keeps the invariant.                             *)
LEMMA RegistryKeeps ==
  ASSUME IInv, NEW g, NEW new, Follows(reg, g, Who, new, meant), Registry(g),
         technology' \in Technologies \cup {None}, overlooked' \subseteq CellIndexes
  PROVE  IInv'
<1>1. Consistent /\ TypeOK
  BY DEF IInv, Registry, Bounded
<1>2. CallInv(reg, Who, meant) /\ OpOK /\ CallInv(g, new, meant) /\ reg' = g /\ op' = op /\ meant' = meant
  BY <1>1 DEF Consistent, Follows, Registry
<1>3. IsRegistry(reg) /\ IsRegistry(g)
  BY <1>2 DEF CallInv
<1>4. ProxyType(op.cell)'
  <2>1. ProxyType(op.cell)
    BY <1>1 DEF TypeOK
  <2> QED  BY <1>2, <2>1 DEF ProxyType, Follows
<1>5. TypeOK' /\ NamesMatchRegistry'
  <2>1. OpTyped(op') /\ meant' \in [CellIndexes -> Cells \cup {None}] /\ outlived' \in BOOLEAN
    BY <1>1, <1>2 DEF OpOK, TypeOK, Registry, Outlives
  <2>2. \A l \in Libraries, i \in Indexes : reg'.object[l].retired[i] <= MaxRetired
    BY <1>2 DEF Registry, Bounded
  <2>3. /\ IsRegistry(reg') /\ Exact(reg', new)
        /\ \A s \in CellIndexes : IsLive(reg'.proxy[s]) => Lib(reg', reg'.proxy[s].id) # None
    BY <1>2, LibOfProxy DEF CallInv
  <2>4. NamesOK(reg)' /\ misnamed' \subseteq DOMAIN reg'.libs
    BY <1>2, NamesStay DEF CallInv
  <2> QED  BY <1>4, <2>1, <2>2, <2>3, <2>4, TypesHold
<1>6. ASSUME ~outlived' PROVE Consistent'
  <2> DEFINE p == op.cell
  <2>1. /\ p \in Proxies /\ Means(reg, p, meant[op.at])
        /\ IsLive(p) => Lib(g, p.id) = Lib(reg, p.id) /\ CellOf(g, p) = meant[op.at]
    BY <1>2, <1>6 DEF OpOK, OpTyped, Registry, Outlives
  <2>2. Means(g, p, meant[op.at]) /\ HolderOf(g, p) = HolderOf(reg, p)
    BY <2>1 DEF Means, HolderOf
  <2>3. \A s \in CellIndexes : reg'.proxy[s] = Empty <=> reg.proxy[s] = Empty
    BY <1>2 DEF Follows
  <2>4. OpOK'
    <3>1. op.at = None \/ op.at \in CellIndexes
      BY <1>2 DEF OpOK, OpTyped
    <3> QED  BY <1>2, <2>2, <2>3, <3>1 DEF OpOK
  <2>5. ASSUME NEW s \in CellIndexes
        PROVE  new[s] = IF reg'.proxy[s] # Empty THEN HolderOf(reg', reg'.proxy[s])
                        ELSE IF s = op'.at THEN HolderOf(reg', op'.cell) ELSE Nobody
    <3>1. CASE reg'.proxy[s] # Empty
      BY <1>2, <3>1 DEF CallInv, Match
    <3>2. CASE reg'.proxy[s] = Empty
      <4>1. /\ Who[s] = IF s = op.at THEN HolderOf(g, p) ELSE Nobody
            /\ new[s] = Who[s] \/ (new[s] = Nobody /\ ~In(g, Who[s].lib))
        BY <1>2, <2>2, <2>3, <3>2 DEF Who, Follows
      <4>2. CASE s = op.at /\ IsLive(p)
        <5>1. p # Empty
          BY <4>2, NotEmpty
        <5>2. CellOf(g, p) # None
          BY <2>2, <4>2, <5>1 DEF Means
        <5>3. DOMAIN CellsOf(g, p.id) # {}
          BY <5>2 DEF CellOf
        <5>4. Lib(g, p.id) # None /\ Lib(g, p.id) \in Libraries
          BY <1>3, <5>3, CellsAre, LibIs
        <5>5. In(g, Lib(g, p.id))
          BY <1>3, <5>4, InIs
        <5>6. Who[s].lib = Lib(g, p.id)
          BY <4>1, <4>2 DEF HolderOf
        <5> QED  BY <1>2, <3>2, <4>1, <4>2, <5>5, <5>6
      <4>3. CASE s = op.at /\ ~IsLive(p)
        BY <1>2, <3>2, <4>1, <4>3 DEF HolderOf
      <4>4. CASE s # op.at
        BY <1>2, <3>2, <4>1, <4>4
      <4> QED  BY <4>2, <4>3, <4>4
    <3> QED  BY <3>1, <3>2
  <2>6. Who' = new
    <3>1. new \in Holders
      BY <1>2 DEF CallInv
    <3> QED  BY <2>5, <3>1, WhoIs
  <2>7. NamesOK(reg)'
    BY <1>2, NamesStay DEF CallInv
  <2>8. CallInv(reg, Who, meant)'
    BY <1>2, <2>6, <2>7 DEF CallInv
  <2> QED  BY <2>4, <2>8 DEF Consistent
<1> QED  BY <1>5, <1>6 DEF IInv

(* A change of the layout keeps it.                                        *)
LEMMA LayoutKeeps ==
  ASSUME IInv, NEW g, Layout(g), SameLibraries(reg, g), NEW w, CallInv(g, w, meant'), OpOK',
         \A s \in CellIndexes : g.proxy[s] = Empty => w[s] = IF s = op'.at THEN HolderOf(g, op'.cell) ELSE Nobody,
         meant' \in [CellIndexes -> Cells \cup {None}], overlooked' \subseteq CellIndexes
  PROVE  IInv'
<1>1. TypeOK /\ reg' = g /\ technology' = technology /\ outlived' = outlived /\ misnamed' = misnamed
  BY DEF IInv, Layout
<1>2. CallInv(reg', w, meant') /\ NamesOK(reg)'
  BY <1>1 DEF CallInv, NamesOK, IdsOK
<1>3. w \in Holders /\ IsRegistry(reg') /\ Match(reg', w)
  BY <1>2 DEF CallInv
<1>4. Who' = w
  BY <1>1, <1>3, WhoIs DEF Match
<1>5. Consistent'
  BY <1>2, <1>4 DEF Consistent, CallInv
<1>6. TypeOK' /\ NamesMatchRegistry'
  <2>1. OpTyped(op') /\ ProxyType(op.cell)'
    BY <1>3, OpType DEF OpOK
  <2>2. \A l \in Libraries, i \in Indexes : reg'.object[l].retired[i] <= MaxRetired
    BY <1>1 DEF Layout, Bounded
  <2>3. technology' \in Technologies \cup {None} /\ outlived' \in BOOLEAN /\ misnamed' \subseteq DOMAIN reg'.libs
    BY <1>1 DEF TypeOK, SameLibraries
  <2>4. /\ IsRegistry(reg') /\ Exact(reg', w)
        /\ \A s \in CellIndexes : IsLive(reg'.proxy[s]) => Lib(reg', reg'.proxy[s].id) # None
    BY <1>2, LibOfProxy DEF CallInv
  <2> QED  BY <1>2, <2>1, <2>2, <2>3, <2>4, TypesHold
<1> QED  BY <1>5, <1>6 DEF IInv

-----------------------------------------------------------------------------
(* The calls to the registry keep the invariant                            *)

LEMMA RegisteredMeans ==
  ASSUME IInv, ~outlived, NEW l \in Libraries
  PROVE  /\ CallInv(reg, Who, meant) /\ IsRegistry(reg) /\ NamesOK(reg)
         /\ IsRegistered(l) <=> In(reg, l)
         /\ IsRegistered(l) => Lib(reg, IdOf(reg, l)) = l /\ IdOf(reg, l) \in Nat /\ reg.object[l].name \in Names
<1>1. CallInv(reg, Who, meant) /\ IsRegistry(reg) /\ NamesOK(reg)
  BY DEF IInv, Consistent, CallInv
<1>2. IsRegistered(l) <=> In(reg, l)
  BY <1>1, IdOfIs DEF IsRegistered
<1>3. ASSUME IsRegistered(l)
      PROVE  Lib(reg, IdOf(reg, l)) = l /\ IdOf(reg, l) \in Nat /\ reg.object[l].name \in Names
  <2>1. /\ IdOf(reg, l) \in DOMAIN reg.libs /\ reg.libs[IdOf(reg, l)] = l
        /\ Lib(reg, IdOf(reg, l)) = l /\ IdOf(reg, l) \in Nat
    BY <1>1, <1>2, <1>3, IdOfIs
  <2> QED  BY <1>1, <2>1, ConstantsAssumption DEF NamesOK
<1> QED  BY <1>1, <1>2, <1>3

LEMMA OverlooksType ==
  ASSUME IInv
  PROVE  Overlooks \subseteq CellIndexes
BY DEF Overlooks, IInv, TypeOK

LEMMA SettlesKeeps ==
  ASSUME IInv, NEW g, NEW mid, Follows(reg, g, Who, mid, meant), NEW n, Settles(g, n)
  PROVE  IInv'
<1>1. technology' \in Technologies \cup {None} /\ overlooked' \subseteq CellIndexes
  BY OverlooksType DEF Settles, IInv, TypeOK
<1>2. CASE HasCold(g, n)
  <2> DEFINE h == Restored(g, technology)
  <2>1. CallInv(g, mid, meant)
    BY DEF Follows
  <2>2. PICK new : Keeps(g, h, mid, new, meant) /\ SameLibraries(g, h)
    BY <2>1, RestoredIs
  <2>3. Registry(h)
    BY <1>2 DEF Settles
  <2> HIDE DEF h
  <2>4. \A l : In(h, l) => In(g, l)
    BY <2>2 DEF SameLibraries, In
  <2>5. Follows(reg, h, Who, new, meant)
    BY <2>2, <2>4, FollowsThenKeeps
  <2> QED  BY <1>1, <2>3, <2>5, RegistryKeeps
<1>3. CASE ~HasCold(g, n)
  <2>1. Registry(g)
    BY <1>3 DEF Settles
  <2> QED  BY <1>1, <2>1, RegistryKeeps
<1> QED  BY <1>2, <1>3

LEMMA EntersKeeps ==
  ASSUME IInv, NEW g, NEW mid, Keeps(reg, g, Who, mid, meant), NEW l \in Libraries, ~In(g, l),
         g.object[l].name \in Names, Enters(g, l)
  PROVE  IInv'
<1> DEFINE h == Registered(g, l)
<1>1. CallInv(g, mid, meant)
  BY DEF Keeps
<1>2. PICK new : Follows(g, h, mid, new, meant)
  BY <1>1, RegisteredIs DEF Enters
<1>3. Settles(h, g.object[l].name)
  BY DEF Enters
<1> HIDE DEF h
<1>4. Follows(reg, h, Who, new, meant)
  BY <1>2, KeepsThenFollows
<1> QED  BY <1>3, <1>4, SettlesKeeps

LEMMA NotOutlived ==
  ASSUME NEW g, Registry(g) \/ (\E n : Settles(g, n)) \/ Layout(g)
  PROVE  ~outlived
BY DEF Registry, Settles, Layout, Bounded

LEMMA RegisterKeeps ==
  ASSUME IInv, NEW l \in Libraries, NEW n \in Names, NEW techs \in SUBSET Technologies, NEW cells \in Contents,
         Register(l, n, techs, cells)
  PROVE  IInv'
<1> DEFINE g == [reg EXCEPT !.object[l] = Described(@, n, techs, cells)]
<1>1. ~IsRegistered(l) /\ Enters(g, l)
  BY DEF Register
<1>2. ~outlived
  BY <1>1, NotOutlived DEF Enters
<1>3. CallInv(reg, Who, meant) /\ ~In(reg, l)
  BY <1>1, <1>2, RegisteredMeans
<1>4. Keeps(reg, g, Who, Who, meant) /\ g.object[l].name = n /\ ~In(g, l) /\ \A x : Touches(reg, g, x)
  <2>1. n \in Names \cup {None} /\ cells \in Contents \cup {<<>>}
    OBVIOUS
  <2> QED  BY <1>3, <2>1, DescribedIs
<1> HIDE DEF g
<1> QED  BY <1>1, <1>4, EntersKeeps

LEMMA UnregisterKeeps ==
  ASSUME IInv, NEW l \in Libraries, Unregister(l)
  PROVE  IInv'
<1> DEFINE f == Unregistered(reg, l)
           g == [f EXCEPT !.object[l] = Described(@, None, {}, <<>>)]
<1>1. Registry(g) /\ technology' = technology /\ overlooked' = Overlooks
  BY DEF Unregister, Unknown
<1>2. CallInv(reg, Who, meant)
  BY <1>1, NotOutlived, RegisteredMeans
<1>3. PICK mid : Keeps(reg, f, Who, mid, meant)
  BY <1>2, UnregisteredIs
<1>4. ~In(f, l)
  BY <1>2, UnregisteredIs
<1> HIDE DEF f
<1>5. Keeps(f, g, mid, mid, meant)
  <2>1. CallInv(f, mid, meant) /\ None \in Names \cup {None} /\ {} \in SUBSET Technologies /\ <<>> \in Contents \cup {<<>>}
    BY <1>3 DEF Keeps
  <2> QED  BY <1>4, <2>1, DescribedIs
<1> HIDE DEF g
<1>6. Follows(reg, g, Who, mid, meant)
  BY <1>3, <1>5, KeepsThen, KeepsFollows
<1>7. technology' \in Technologies \cup {None} /\ overlooked' \subseteq CellIndexes
  BY <1>1, OverlooksType DEF IInv, TypeOK
<1> QED  BY <1>1, <1>6, <1>7, RegistryKeeps

LEMMA DeleteKeeps ==
  ASSUME IInv, NEW l \in Libraries, Delete(l)
  PROVE  IInv'
<1> DEFINE g == Deleted(reg, l)
<1>1. Registry(g) /\ technology' = technology /\ overlooked' = Overlooks
  BY DEF Delete
<1>2. CallInv(reg, Who, meant)
  BY <1>1, NotOutlived, RegisteredMeans
<1>3. PICK new : Follows(reg, g, Who, new, meant)
  BY <1>2, DeletedIs
<1> HIDE DEF g
<1>4. technology' \in Technologies \cup {None} /\ overlooked' \subseteq CellIndexes
  BY <1>1, OverlooksType DEF IInv, TypeOK
<1> QED  BY <1>1, <1>3, <1>4, RegistryKeeps

LEMMA RefreshKeeps ==
  ASSUME IInv, NEW l \in Libraries, NEW n, IsRegistered(l) /\ ~outlived => n \in Names, NEW cells \in Contents \cup {<<>>},
         Refresh(l, n, cells)
  PROVE  IInv'
<1> DEFINE f == Unregistered(reg, l)
           o == [f.object[l] EXCEPT !.name = n, !.cells = cells]
           g == [f EXCEPT !.object[l].name = n, !.object[l].cells = cells]
           h == [f EXCEPT !.object[l] = o]
<1>1. IsRegistered(l) /\ Enters(g, l)
  BY DEF Refresh
<1>2. ~outlived
  BY <1>1, NotOutlived DEF Enters
<1>3. CallInv(reg, Who, meant) /\ n \in Names
  BY <1>1, <1>2, RegisteredMeans
<1>4. PICK mid : Keeps(reg, f, Who, mid, meant)
  BY <1>3, UnregisteredIs
<1>5. ~In(f, l)
  BY <1>3, UnregisteredIs
<1> HIDE DEF f
<1>6. CallInv(f, mid, meant) /\ IsRegistry(f)
  BY <1>4 DEF Keeps, CallInv
<1>7. g = h
  <2>1. f.object \in [Libraries -> Objects]
    BY <1>6, RegistryIs
  <2>2. f = [libs |-> f.libs, byName |-> f.byName, object |-> f.object, proxy |-> f.proxy]
    BY <1>6 DEF IsRegistry
  <2> QED  BY <2>1, <2>2 DEF Objects
<1>8. /\ o \in Objects /\ o.refcount = f.object[l].refcount /\ o.referrers = f.object[l].referrers
      /\ o.name = n
  <2>1. f.object[l] \in Objects
    BY <1>6, RegistryIs
  <2> QED  BY <1>3, <2>1 DEF Objects
<1> HIDE DEF o, g
<1>9. Keeps(f, h, mid, mid, meant) /\ h.libs = f.libs /\ h.object[l] = o
  BY <1>5, <1>6, <1>8, RedescribedIs
<1> HIDE DEF h
<1>10. ~In(h, l)
  BY <1>5, <1>9 DEF In
<1>11. Keeps(reg, h, Who, mid, meant)
  BY <1>4, <1>9, KeepsThen
<1> QED  BY <1>1, <1>3, <1>7, <1>8, <1>9, <1>10, <1>11, EntersKeeps

LEMMA RenameKeeps ==
  ASSUME IInv, NEW l \in Libraries, NEW n \in Names, NEW techs, Rename(l, n, techs)
  PROVE  IInv'
<1> DEFINE id == IdOf(reg, l)
           found == LibByName(reg, n, techs)
           g == IF found \in {NoId, id} THEN reg ELSE Deleted(reg, Lib(reg, found))
           h == Renamed(g, id, n)
<1>1. Registry(h) /\ technology' = technology /\ (IsRegistered(l) => n # reg.object[l].name)
  BY DEF Rename
<1>2. CallInv(reg, Who, meant) /\ IsRegistry(reg) /\ NamesOK(reg)
  BY <1>1, NotOutlived, RegisteredMeans
<1>3. PICK mid : /\ Follows(reg, g, Who, mid, meant)
                 /\ IsRegistered(l) => Lib(g, id) = l /\ g.object[l].name = reg.object[l].name
  <2>1. IsRegistered(l) => Lib(reg, id) = l
    BY <1>1, NotOutlived, RegisteredMeans
  <2>2. CASE found \in {NoId, id}
    <3>1. Keeps(reg, reg, Who, Who, meant)
      BY <1>2 DEF Keeps
    <3> QED  BY <2>1, <2>2, <3>1, KeepsFollows
  <2>3. CASE found \notin {NoId, id}
    <3> DEFINE k == Lib(reg, found)
               d == Deleted(reg, k)
    <3>1. PICK j \in DOMAIN reg.byName[n] : found = reg.byName[n][j] /\ Lib(reg, reg.byName[n][j]) # None
      BY <1>2, <2>3, LibByNameIs
    <3>2. k # None
      BY <3>1
    <3>3. k \in Libraries
      BY <1>2, <3>2, LibIs
    <3>4. g = d
      BY <2>3
    <3> HIDE DEF k
    <3>5. /\ \E new : Follows(reg, d, Who, new, meant)
          /\ \A i : Lib(d, i) = IF Lib(reg, i) = k THEN None ELSE Lib(reg, i)
          /\ \A i \in Libraries : i # k => d.object[i].name = reg.object[i].name
      BY <1>2, <3>3, DeletedIs
    <3>6. IsRegistered(l) => k # l
      <4>1. ASSUME IsRegistered(l), k = l PROVE found = id
        BY <1>2, <2>1, <3>2, <4>1, IdIsOne DEF k, CallInv
      <4> QED  BY <2>3, <4>1
    <3> HIDE DEF d, g, id
    <3>7. IsRegistered(l) => Lib(d, id) = l
      BY <2>1, <3>5, <3>6
    <3>8. IsRegistered(l) => d.object[l].name = reg.object[l].name
      BY <3>5, <3>6
    <3> QED  BY <3>4, <3>5, <3>7, <3>8
  <2> QED  BY <2>2, <2>3
<1> HIDE DEF g, found
<1>4. CallInv(g, mid, meant)
  BY <1>3 DEF Follows
<1>5. PICK new : Follows(reg, h, Who, new, meant)
  <2>1. CASE IsRegistered(l)
    <3>1. Lib(g, id) # None /\ n # g.object[Lib(g, id)].name
      BY <1>1, <1>3, <2>1, ConstantsAssumption
    <3> HIDE DEF id
    <3>2. (\E new : Keeps(g, h, mid, new, meant)) /\ h.libs = g.libs
      BY <1>4, <3>1, RenamedIs
    <3> HIDE DEF h
    <3>3. \A k : In(h, k) => In(g, k)
      BY <3>2 DEF In
    <3> QED  BY <1>3, <3>2, <3>3, FollowsThenKeeps
  <2>2. CASE ~IsRegistered(l)
    <3>1. id = NoId
      BY <2>2 DEF IsRegistered
    <3>2. Lib(g, NoId) = None
      <4>1. IsRegistry(g)
        BY <1>4 DEF CallInv
      <4>2. DOMAIN g.libs = 1..Len(g.libs)
        BY <4>1, RegistryIs, LenProperties
      <4> QED  BY <4>2 DEF Lib, NoId
    <3>3. h = g
      BY <3>1, <3>2 DEF Renamed
    <3> QED  BY <1>3, <3>3
  <2> QED  BY <2>1, <2>2
<1> HIDE DEF h
<1>6. technology' \in Technologies \cup {None} /\ overlooked' \subseteq CellIndexes
  <2>1. overlooked' = Overlooks \cup
           {s \in CellIndexes : /\ IsRegistered(l) /\ IsCold(reg'.proxy[s])
                                /\ reg'.proxy[s].library \in {n, reg.object[l].name}}
    BY DEF Rename
  <2> QED  BY <1>1, <2>1, OverlooksType DEF IInv, TypeOK
<1> QED  BY <1>1, <1>5, <1>6, RegistryKeeps

\* A library that is registered gets another name, and no entry moves.
LEMMA RetitledIs ==
  ASSUME NEW g, IsRegistry(g), NEW l \in Libraries, NEW n \in Names
  PROVE  LET h == [g EXCEPT !.object[l].name = n] IN
         /\ IsRegistry(h) /\ h.libs = g.libs /\ h.byName = g.byName /\ h.proxy = g.proxy
         /\ h.object[l].name = n
         /\ \A k \in Libraries : k # l => h.object[k] = g.object[k]
         /\ \A k \in Libraries : /\ h.object[k].technologies = g.object[k].technologies
                                /\ h.object[k].cells = g.object[k].cells /\ h.object[k].retired = g.object[k].retired
         /\ SameCounts(g, h)
<1> DEFINE o == [g.object[l] EXCEPT !.name = n]
           c == [g.object EXCEPT ![l] = o]
           h == [g EXCEPT !.object[l].name = n]
<1>1. g.object[l] \in Objects
  BY RegistryIs
<1>2. /\ o \in Objects /\ o.name = n /\ o.technologies = g.object[l].technologies /\ o.cells = g.object[l].cells
      /\ o.retired = g.object[l].retired
      /\ o.refcount = g.object[l].refcount /\ o.referrers = g.object[l].referrers
  BY <1>1 DEF Objects
<1>3. h = [g EXCEPT !.object = [g.object EXCEPT ![l] = o]]
  OBVIOUS
<1> HIDE DEF o
<1>4. /\ g.libs \in Seq(Libraries \cup {None}) /\ g.byName \in [Names -> Seq(Nat)]
      /\ c \in [Libraries -> Objects] /\ \A k \in Libraries : c[k] = IF k = l THEN o ELSE g.object[k]
  BY <1>2 DEF IsRegistry
<1>5. h = Rebuilt(g.libs, g.byName, c, g.proxy)
  <2>1. g = [libs |-> g.libs, byName |-> g.byName, object |-> g.object, proxy |-> g.proxy]
    BY DEF IsRegistry
  <2>2. [g EXCEPT !.object = c] = Rebuilt(g.libs, g.byName, c, g.proxy)
    <3> HIDE DEF c
    <3> QED  BY <2>1 DEF Rebuilt
  <2> HIDE DEF h
  <2> QED  BY <1>3, <2>2
<1> HIDE DEF h, c
<1>6. IsRegistry(h) /\ Consists(h, g.libs, g.byName, c, g.proxy)
  BY <1>4, <1>5, RegistryIs, RebuiltIs
<1>7. IsRegistry(h) /\ h.libs = g.libs /\ h.byName = g.byName /\ h.object = c /\ h.proxy = g.proxy
  BY <1>6 DEF Consists
<1> QED  BY <1>2, <1>4, <1>7 DEF h, SameCounts

LEMMA ReregisterKeeps ==
  ASSUME IInv, NEW l \in Libraries, NEW n \in Names, Reregister(l, n)
  PROVE  IInv'
<1> DEFINE id == IdOf(reg, l)
           h == [reg EXCEPT !.object[l].name = n]
<1>1. /\ IsRegistered(l) /\ Bounded(reg) /\ reg' = h /\ misnamed' = misnamed \cup {id} /\ technology' = technology
      /\ op' = op /\ meant' = meant /\ outlived' = outlived /\ overlooked' = overlooked
  BY DEF Reregister
<1>2. ~outlived /\ Consistent /\ TypeOK
  BY <1>1 DEF Bounded, IInv
<1>3. CallInv(reg, Who, meant) /\ IsRegistry(reg) /\ LibsOK(reg) /\ NamesOK(reg) /\ OpOK
  BY <1>2 DEF Consistent, CallInv
<1>4. Lib(reg, id) = l /\ id \in DOMAIN reg.libs /\ l # None
  BY <1>1, <1>3, IdOfIs, ConstantsAssumption DEF IsRegistered
<1>5. /\ IsRegistry(h) /\ h.libs = reg.libs /\ h.byName = reg.byName /\ h.proxy = reg.proxy
      /\ h.object[l].name = n
      /\ \A k \in Libraries : k # l => h.object[k] = reg.object[k]
      /\ \A k \in Libraries : /\ h.object[k].technologies = reg.object[k].technologies
                             /\ h.object[k].cells = reg.object[k].cells /\ h.object[k].retired = reg.object[k].retired
      /\ SameCounts(reg, h)
  BY <1>3, RetitledIs
<1> HIDE DEF h, id
<1>6. \A i : Lib(h, i) = Lib(reg, i)
  BY <1>5 DEF Lib
<1>7. \A i : CellsOf(h, i) = CellsOf(reg, i)
  BY <1>3, <1>5, <1>6, LibIs DEF CellsOf
<1>8. \A p : CellOf(h, p) = CellOf(reg, p) /\ HolderOf(h, p) = HolderOf(reg, p)
  BY <1>6, <1>7 DEF CellOf, HolderOf
<1>9. \A p, c : Means(reg, p, c) => Means(h, p, c)
  BY <1>8 DEF Means
<1>10. Who' = Who
  BY <1>1, <1>5, <1>8 DEF Who
<1>11. NamesOK(reg)'
  <2>1. ASSUME NEW i \in DOMAIN h.libs, h.libs[i] # None PROVE h.object[h.libs[i]].name \in Names
    <3>1. h.libs[i] \in Libraries /\ reg.object[h.libs[i]].name \in Names
      BY <1>3, <1>5, <2>1, LibIs DEF NamesOK
    <3> QED  BY <1>5, <3>1
  <2>2. ASSUME NEW x \in Names, NEW k \in DOMAIN h.byName[x]
        PROVE  /\ h.byName[x][k] \in DOMAIN h.libs
               /\ h.byName[x][k] \notin misnamed' => Titled(h, h.byName[x], x, h.byName[x][k])
    <3> DEFINE i == h.byName[x][k]
    <3>1. i \in DOMAIN h.libs /\ (i \notin misnamed => Titled(reg, h.byName[x], x, i))
      BY <1>3, <1>5 DEF NamesOK, IdsOK
    <3> HIDE DEF i
    <3>2. ASSUME i \notin misnamed' PROVE Titled(h, h.byName[x], x, i)
      <4>1. Titled(reg, h.byName[x], x, i) /\ i # id
        BY <1>1, <3>1, <3>2
      <4>2. Lib(reg, i) # l /\ Lib(reg, i) \in Libraries
        BY <1>3, <1>4, <4>1, IdIsOne, LibIs DEF Titled
      <4> QED  BY <1>5, <1>6, <4>1, <4>2 DEF Titled
    <3> QED  BY <3>1, <3>2 DEF i
  <2> QED  BY <1>1, <2>1, <2>2 DEF NamesOK, IdsOK
<1>12. LibsOK(h) /\ Exact(h, Who) /\ Match(h, Who) /\ Refs(h, meant) /\ Who \in Holders
  <2>1. Exact(reg, Who) /\ Match(reg, Who) /\ Refs(reg, meant) /\ Who \in Holders
    BY <1>3 DEF CallInv
  <2>2. LibsOK(h)
    BY <1>3, <1>5 DEF LibsOK
  <2>3. Exact(h, Who)
    BY <1>5, <2>1 DEF Exact, SameCounts
  <2>4. Match(h, Who)
    BY <1>5, <1>8, <2>1 DEF Match
  <2>5. Refs(h, meant)
    BY <1>5, <1>9, <2>1 DEF Refs
  <2> QED  BY <2>1, <2>2, <2>3, <2>4, <2>5
<1>13. CallInv(reg, Who, meant)'
  BY <1>1, <1>5, <1>10, <1>11, <1>12 DEF CallInv
<1>14. OpOK'
  BY <1>1, <1>3, <1>5, <1>9 DEF OpOK
<1>15. TypeOK' /\ NamesMatchRegistry'
  <2>1. OpTyped(op') /\ ProxyType(op.cell)'
    BY <1>1, <1>5, <1>14, OpType DEF OpOK
  <2>2. \A k \in Libraries, i \in Indexes : reg'.object[k].retired[i] <= MaxRetired
    BY <1>1, <1>5 DEF Bounded
  <2>3. /\ technology' \in Technologies \cup {None} /\ meant' \in [CellIndexes -> Cells \cup {None}]
        /\ outlived' \in BOOLEAN /\ overlooked' \subseteq CellIndexes /\ misnamed' \subseteq DOMAIN reg'.libs
    BY <1>1, <1>2, <1>4, <1>5 DEF TypeOK
  <2>4. \A s \in CellIndexes : IsLive(reg'.proxy[s]) => Lib(reg', reg'.proxy[s].id) # None
    BY <1>1, <1>3, <1>5, <1>6, LibOfProxy
  <2>5. IsRegistry(reg') /\ Exact(reg', Who)
    BY <1>1, <1>5, <1>12
  <2> QED  BY <1>11, <2>1, <2>2, <2>3, <2>4, <2>5, TypesHold
<1> QED  BY <1>13, <1>14, <1>15 DEF IInv, Consistent

\* set_technology_name looks every library up again, before it restores cold proxies.
LookedUpAgain(t) ==
  LET live == {s \in CellIndexes : IsLive(reg.proxy[s])}
      toMap == {s \in live : NewIdFor(reg.proxy[s].id, t) \notin {NoId, reg.proxy[s].id}}
      lost == {s \in live : NewIdFor(reg.proxy[s].id, t) = NoId}
  IN  ResolvedAll(ResolvedAll(reg, [s \in toMap |-> NewIdFor(reg.proxy[s].id, t)]), [s \in lost |-> NoId])

LEMMA LookedUpAgainIs ==
  ASSUME CallInv(reg, Who, meant), NEW t
  PROVE  \E new : Keeps(reg, LookedUpAgain(t), Who, new, meant)
<1> DEFINE live == {s \in CellIndexes : IsLive(reg.proxy[s])}
           toMap == {s \in live : NewIdFor(reg.proxy[s].id, t) \notin {NoId, reg.proxy[s].id}}
           lost == {s \in live : NewIdFor(reg.proxy[s].id, t) = NoId}
           to == [s \in toMap |-> NewIdFor(reg.proxy[s].id, t)]
           none == [s \in lost |-> NoId]
           f == ResolvedAll(reg, to)
           g == ResolvedAll(f, none)
<1>1. LookedUpAgain(t) = g
  BY DEF LookedUpAgain
<1>2. IsRegistry(reg) /\ NamesOK(reg)
  BY DEF CallInv
<1>3. \A id : NewIdFor(id, t) \in Nat
  <2>1. ASSUME NEW id PROVE NewIdFor(id, t) \in Nat
    <3>1. CASE Lib(reg, id) = None
      BY <3>1 DEF NewIdFor, NoId
    <3>2. CASE Lib(reg, id) # None
      <4>1. reg.object[Lib(reg, id)].name \in Names
        BY <1>2, <3>2, LibIs DEF NamesOK
      <4>2. LibByName(reg, reg.object[Lib(reg, id)].name, TechsOf(t)) \in Nat
        BY <1>2, <4>1, LibByNameType
      <4> QED  BY <3>2, <4>2 DEF NewIdFor
    <3> QED  BY <3>1, <3>2
  <2> QED  BY <2>1
<1>4. /\ toMap \in SUBSET CellIndexes /\ to \in [toMap -> Nat] /\ \A s \in toMap : IsLive(reg.proxy[s])
      /\ lost \in SUBSET CellIndexes /\ none \in [lost -> Nat] /\ \A s \in lost : IsLive(reg.proxy[s]) /\ s \notin toMap
  BY <1>3 DEF NoId
<1> HIDE DEF toMap, lost, to, none
<1>5. PICK mid : ServedAll(reg, f, toMap, Who, mid, meant)
  BY <1>4, ResolvedAllIs
<1> HIDE DEF f
<1>6. CallInv(f, mid, meant) /\ \A s \in lost : IsLive(f.proxy[s])
  BY <1>4, <1>5 DEF ServedAll
<1>7. PICK second : ServedAll(f, g, lost, mid, second, meant)
  BY <1>4, <1>6, ResolvedAllIs
<1> HIDE DEF g
<1>8. Keeps(reg, f, Who, mid, meant) /\ Keeps(f, g, mid, second, meant)
  BY <1>4, <1>5, <1>6, <1>7, NotEmpty, ServedKeeps
<1>9. Keeps(reg, g, Who, second, meant)
  BY <1>8, KeepsThen
<1> QED  BY <1>1, <1>9

LEMMA SetTechnologyKeeps ==
  ASSUME IInv, NEW t \in Technologies \cup {None}, SetTechnology(t)
  PROVE  IInv'
<1> DEFINE g == LookedUpAgain(t)
           h == Restored(g, t)
<1>1. Registry(h) /\ technology' = t /\ overlooked' = {}
  BY DEF SetTechnology, LookedUpAgain
<1>2. CallInv(reg, Who, meant)
  <2>1. ~outlived
    BY <1>1, NotOutlived
  <2> QED  BY <2>1 DEF IInv, Consistent
<1>3. PICK second : Keeps(reg, g, Who, second, meant)
  BY <1>2, LookedUpAgainIs
<1> HIDE DEF g
<1>4. PICK new : Keeps(g, h, second, new, meant)
  <2>1. CallInv(g, second, meant)
    BY <1>3 DEF Keeps
  <2> QED  BY <2>1, RestoredIs
<1> HIDE DEF h
<1>5. Follows(reg, h, Who, new, meant)
  BY <1>3, <1>4, KeepsThen, KeepsFollows
<1> QED  BY <1>1, <1>5, RegistryKeeps

-----------------------------------------------------------------------------
(* The layout keeps the invariant                                          *)

\* The layout leaves libraries and cold proxies as they are, but for those that no call
\* was to restore yet.
LeavesCold ==
  /\ IsRegistry(reg) /\ IsRegistry(reg') /\ SameLibraries(reg, reg') /\ technology' = technology
  /\ \A t \in CellIndexes : IsCold(reg'.proxy[t]) /\ t \notin overlooked' =>
       reg'.proxy[t] = reg.proxy[t] /\ t \notin overlooked

LEMMA MovedTo ==
  ASSUME NEW g, NEW who, NEW m, CallInv(g, who, m), NEW s \in CellIndexes, NEW p \in Proxies,
         NEW h, Moved(g, h, s, p), NEW new \in Holders, Exact(h, new), Elsewhere(who, new, s),
         p # Empty => new[s] = HolderOf(g, p),
         NEW c, Elsewhere(m, c, s), Means(g, p, c[s])
  PROVE  CallInv(h, new, c)
<1>1. IsRegistry(g) /\ IsRegistry(h) /\ SameLibraries(g, h)
  BY DEF CallInv, Moved
<1>2. LibsOK(h) /\ NamesOK(h)
  BY <1>1, SameCells DEF CallInv
<1>3. \A q : HolderOf(h, q) = HolderOf(g, q)
  BY <1>1, SameCells
<1>4. Match(h, new)
  BY <1>3 DEF Match, CallInv, Moved, Elsewhere
<1>5. ASSUME NEW t \in CellIndexes PROVE Means(h, h.proxy[t], c[t])
  <2>1. Means(g, h.proxy[t], c[t])
    BY DEF CallInv, Refs, Moved, Elsewhere
  <2> QED  BY <1>1, <2>1, SameCells
<1> QED  BY <1>1, <1>2, <1>4, <1>5 DEF CallInv, Refs

\* A proxy that is counted already takes its place, or leaves it and counts as before.
LEMMA ShiftedIs ==
  ASSUME NEW g, NEW who, NEW m, CallInv(g, who, m), NEW f, Recounted(g, f, who),
         NEW s \in CellIndexes, NEW p \in Proxies, p # Empty => who[s] = HolderOf(g, p), Means(g, p, m[s])
  PROVE  LET h == Placed(f, s, p) IN
         /\ CallInv(h, who, m) /\ SameLibraries(g, h)
         /\ h.proxy[s] = p /\ \A t \in CellIndexes : t # s => h.proxy[t] = g.proxy[t]
<1> DEFINE h == Placed(f, s, p)
<1>1. IsRegistry(f) /\ SameLibraries(g, f) /\ f.proxy = g.proxy /\ Exact(f, who) /\ who \in Holders
  BY DEF Recounted, CallInv
<1>2. /\ IsRegistry(h) /\ SameLibraries(f, h) /\ h.object = f.object
      /\ h.proxy[s] = p /\ \A t \in CellIndexes : t # s => h.proxy[t] = f.proxy[t]
  BY <1>1, PlacedIs
<1> HIDE DEF h
<1>3. Moved(g, h, s, p)
  BY <1>1, <1>2 DEF Moved, SameLibraries
<1>4. Exact(h, who)
  BY <1>1, <1>2 DEF Exact
<1>5. CallInv(h, who, m)
  <2>1. Elsewhere(who, who, s) /\ Elsewhere(m, m, s)
    BY DEF Elsewhere
  <2> QED  BY <1>1, <1>3, <1>4, <2>1, MovedTo
<1> QED  BY <1>3, <1>5 DEF Moved, h

\* A new proxy is counted and placed.
LEMMA AddedIs ==
  ASSUME NEW g, NEW who, NEW m, CallInv(g, who, m), NEW s \in CellIndexes, who[s] = Nobody,
         NEW p \in LiveProxies, NEW new \in Holders, new[s] = HolderOf(g, p), Elsewhere(who, new, s),
         NEW c, Elsewhere(m, c, s), c[s] = CellOf(g, p), c[s] # None
  PROVE  LET h == Placed(Counted(g, p), s, p) IN
         /\ CallInv(h, new, c) /\ SameLibraries(g, h)
         /\ h.proxy[s] = p /\ \A t \in CellIndexes : t # s => h.proxy[t] = g.proxy[t]
<1> DEFINE f == Counted(g, p)
           h == Placed(f, s, p)
<1>1. IsRegistry(g) /\ Exact(g, who) /\ who \in Holders /\ who[s].lib = None
  BY NobodyHolds DEF CallInv
<1>2. p \in Proxies /\ IsLive(p) /\ ~IsCold(p)
  BY ProxyForms
<1>3. Recounted(g, f, new)
  BY <1>1, CountedIs DEF Elsewhere
<1> HIDE DEF f
<1>4. IsRegistry(f) /\ SameLibraries(g, f) /\ f.proxy = g.proxy /\ Exact(f, new)
  BY <1>3 DEF Recounted
<1>5. /\ IsRegistry(h) /\ SameLibraries(f, h) /\ h.object = f.object
      /\ h.proxy[s] = p /\ \A t \in CellIndexes : t # s => h.proxy[t] = f.proxy[t]
  BY <1>2, <1>4, PlacedIs
<1> HIDE DEF h
<1>6. Moved(g, h, s, p)
  BY <1>4, <1>5 DEF Moved, SameLibraries
<1>7. Exact(h, new)
  BY <1>4, <1>5 DEF Exact
<1>8. Means(g, p, c[s])
  BY <1>2 DEF Means
<1>9. CallInv(h, new, c)
  BY <1>2, <1>6, <1>7, <1>8, MovedTo
<1> QED  BY <1>6, <1>9 DEF Moved, h, f

\* What the history keeps is dropped.
LEMMA UnkeptIs ==
  ASSUME Consistent
  PROVE  LET h == Unkept(reg) IN
         /\ SameLibraries(reg, h) /\ h.proxy = reg.proxy
         /\ \E new : /\ CallInv(h, new, MeantWithout)
                     /\ \A s \in CellIndexes : reg.proxy[s] = Empty => new[s] = Nobody
<1> DEFINE p == op.cell
           h == Unkept(reg)
<1>1. /\ CallInv(reg, Who, meant) /\ IsRegistry(reg) /\ Who \in Holders /\ Exact(reg, Who)
      /\ p \in Proxies /\ op.at \in CellIndexes \cup {None}
  BY DEF Consistent, CallInv, OpOK, OpTyped
<1>2. PICK new \in Holders : /\ Recounted(reg, h, new)
                             /\ \A s \in CellIndexes :
                                  new[s] = IF reg.proxy[s] # Empty THEN Who[s] ELSE Nobody
  <2>1. CASE IsLive(p)
    <3>1. p \in LiveProxies /\ p # Empty
      BY <1>1, <2>1, ProxyForms
    <3>2. op.at # None
      BY <3>1 DEF Consistent, OpOK, NoOp
    <3>3. op.at \in CellIndexes /\ reg.proxy[op.at] = Empty
      BY <1>1, <3>1, <3>2 DEF Consistent, OpOK
    <3>4. h = Uncounted(reg, p)
      BY <2>1 DEF Unkept, Destroyed
    <3>5. PICK new \in Holders : new[op.at] = Nobody /\ Elsewhere(Who, new, op.at)
      BY <1>1, <3>3, NobodyHolds, Changed
    <3>6. Who[op.at] = HolderOf(reg, p)
      BY <3>3 DEF Who
    <3>7. Recounted(reg, h, new)
      <4>1. new[op.at].lib = None /\ \A t \in CellIndexes : t # op.at => new[t] = Who[t]
        BY <3>5, NobodyHolds DEF Elsewhere
      <4> HIDE DEF h, p
      <4> QED  BY <1>1, <3>1, <3>3, <3>4, <3>5, <3>6, <4>1, UncountedIs
    <3>8. ASSUME NEW s \in CellIndexes PROVE new[s] = IF reg.proxy[s] # Empty THEN Who[s] ELSE Nobody
      <4>1. CASE s = op.at
        BY <3>3, <3>5, <4>1
      <4>2. CASE s # op.at
        <5>1. new[s] = Who[s]
          BY <3>5, <4>2 DEF Elsewhere
        <5>2. reg.proxy[s] = Empty => Who[s] = Nobody
          BY <4>2 DEF Who
        <5> QED  BY <5>1, <5>2
      <4> QED  BY <4>1, <4>2
    <3> HIDE DEF h
    <3> QED  BY <3>7, <3>8
  <2>2. CASE ~IsLive(p)
    <3>1. h = reg
      BY <2>2 DEF Unkept, Destroyed
    <3>2. Recounted(reg, reg, Who)
      BY <1>1, SameRegistry
    <3>3. \A s \in CellIndexes : reg.proxy[s] = Empty => Who[s] = Nobody
      BY <2>2 DEF Who, HolderOf
    <3> HIDE DEF h
    <3> QED  BY <1>1, <3>1, <3>2, <3>3
  <2> QED  BY <2>1, <2>2
<1> HIDE DEF h
<1>3. IsRegistry(h) /\ SameLibraries(reg, h) /\ h.proxy = reg.proxy /\ Exact(h, new)
  BY <1>2 DEF Recounted
<1>4. LibsOK(h) /\ NamesOK(h)
  BY <1>1, <1>3, SameCells DEF CallInv
<1>5. Match(h, new)
  <2>1. \A q : HolderOf(h, q) = HolderOf(reg, q)
    BY <1>1, <1>3, SameCells
  <2> QED  BY <1>1, <1>2, <1>3, <2>1 DEF Match, CallInv
<1>6. ASSUME NEW s \in CellIndexes PROVE Means(h, h.proxy[s], MeantWithout[s])
  <2>1. Means(reg, reg.proxy[s], meant[s])
    BY <1>1 DEF CallInv, Refs
  <2>2. CASE reg.proxy[s] = Empty
    BY <1>3, <2>2, ProxyForms DEF Means
  <2>3. CASE reg.proxy[s] # Empty
    <3>1. MeantWithout[s] = meant[s]
      BY <2>3 DEF MeantWithout
    <3> QED  BY <1>1, <1>3, <2>1, <3>1, SameCells
  <2> QED  BY <2>2, <2>3
<1>7. CallInv(h, new, MeantWithout)
  BY <1>2, <1>3, <1>4, <1>5, <1>6 DEF CallInv, Refs
<1> QED  BY <1>2, <1>3, <1>7 DEF h

LEMMA MeantType ==
  ASSUME meant \in [CellIndexes -> Cells \cup {None}]
  PROVE  MeantWithout \in [CellIndexes -> Cells \cup {None}]
BY DEF MeantWithout

LEMMA StateIs ==
  ASSUME IInv, ~outlived
  PROVE  /\ Consistent /\ CallInv(reg, Who, meant) /\ IsRegistry(reg) /\ Who \in Holders /\ OpOK /\ OpTyped(op)
         /\ meant \in [CellIndexes -> Cells \cup {None}] /\ overlooked \subseteq CellIndexes
         /\ \A s \in CellIndexes :
              /\ reg.proxy[s] \in Proxies /\ Means(reg, reg.proxy[s], meant[s])
              /\ reg.proxy[s] # Empty => Who[s] = HolderOf(reg, reg.proxy[s])
              /\ reg.proxy[s] = Empty => Who[s] = IF s = op.at THEN HolderOf(reg, op.cell) ELSE Nobody
<1>1. Consistent /\ CallInv(reg, Who, meant) /\ OpOK /\ TypeOK
  BY DEF IInv, Consistent
<1>2. IsRegistry(reg) /\ Who \in Holders /\ Refs(reg, meant) /\ OpTyped(op)
  BY <1>1 DEF CallInv, OpOK
<1>3. meant \in [CellIndexes -> Cells \cup {None}] /\ overlooked \subseteq CellIndexes
  BY <1>1 DEF TypeOK
<1>4. \A s \in CellIndexes : reg.proxy[s] \in Proxies /\ Means(reg, reg.proxy[s], meant[s])
  BY <1>2, RegistryIs DEF Refs
<1> QED  BY <1>1, <1>2, <1>3, <1>4 DEF Who

LEMMA NewProxyKeeps ==
  ASSUME IInv, NEW l \in Libraries, NEW i \in Indexes, NEW s \in CellIndexes, NEW transacting \in BOOLEAN,
         NewProxy(l, i, s, transacting)
  PROVE  IInv' /\ LeavesCold
<1> DEFINE p == Live(IdOf(reg, l), i)
           g == IF transacting THEN Unkept(reg) ELSE reg
           m == IF transacting THEN MeantWithout ELSE meant
           c == reg.object[l].cells[i]
           h == Placed(Counted(g, p), s, p)
<1>1. /\ IsRegistered(l) /\ i \in DOMAIN reg.object[l].cells /\ reg.proxy[s] = Empty /\ op.at # s
      /\ Layout(h) /\ meant' = [m EXCEPT ![s] = c] /\ overlooked' = overlooked
      /\ op' = IF transacting THEN [at |-> s, remove |-> FALSE, done |-> TRUE, cell |-> Empty] ELSE op
  BY DEF NewProxy, Unused
<1>2. ~outlived
  BY <1>1, NotOutlived
<1>3. /\ Lib(reg, IdOf(reg, l)) = l /\ IdOf(reg, l) \in Nat
  BY <1>1, <1>2, RegisteredMeans
<1>4. p \in LiveProxies /\ p.id = IdOf(reg, l) /\ p.index = i
  BY <1>3, LiveForm
<1>5. CellOf(reg, p) = c /\ c \in Cells /\ c # None
  <2>1. IsRegistry(reg) /\ l # None
    BY <1>2, StateIs, ConstantsAssumption
  <2>2. CellsOf(reg, p.id) = reg.object[l].cells /\ CellsOf(reg, p.id) \in Seq(Cells)
    BY <1>3, <1>4, <2>1, CellsAre
  <2>3. c \in Cells
    BY <1>1, <2>2, ElementOfSeq, LenProperties
  <2> HIDE DEF p
  <2> QED  BY <1>1, <1>4, <2>2, <2>3, ConstantsAssumption DEF CellOf
<1> HIDE DEF p, c
<1>6. /\ SameLibraries(reg, g) /\ g.proxy = reg.proxy /\ m \in [CellIndexes -> Cells \cup {None}]
      /\ \E who : /\ CallInv(g, who, m)
                  /\ \A t \in CellIndexes : reg.proxy[t] = Empty =>
                       who[t] = IF ~transacting /\ t = op.at THEN HolderOf(reg, op.cell) ELSE Nobody
  <2>1. CASE transacting
    <3>1. g = Unkept(reg) /\ m = MeantWithout
      BY <2>1
    <3> HIDE DEF g, m
    <3> QED  BY <1>2, <2>1, <3>1, StateIs, UnkeptIs, MeantType
  <2>2. CASE ~transacting
    <3>1. g = reg /\ m = meant
      BY <2>2
    <3>2. SameLibraries(reg, reg)
      BY DEF SameLibraries
    <3> HIDE DEF g, m
    <3> QED  BY <1>2, <2>2, <3>1, <3>2, StateIs
  <2> QED  BY <2>1, <2>2
<1>7. PICK who : /\ CallInv(g, who, m)
                 /\ \A t \in CellIndexes : reg.proxy[t] = Empty =>
                      who[t] = IF ~transacting /\ t = op.at THEN HolderOf(reg, op.cell) ELSE Nobody
  BY <1>6
<1> HIDE DEF g, m, h
<1>8. IsRegistry(reg) /\ IsRegistry(g) /\ who \in Holders /\ who[s] = Nobody
  BY <1>1, <1>2, <1>7, StateIs DEF CallInv
<1>9. CellOf(g, p) = c /\ p \in Proxies /\ p # Empty
  BY <1>4, <1>5, <1>6, <1>8, SameCells, ProxyForms
<1>10. PICK new \in Holders : new[s] = HolderOf(g, p) /\ Elsewhere(who, new, s)
  BY <1>8, <1>9, HolderIs, Changed
<1>11. meant' \in [CellIndexes -> Cells \cup {None}] /\ Elsewhere(m, meant', s) /\ meant'[s] = c
  BY <1>1, <1>5, <1>6 DEF Elsewhere
<1>12. /\ CallInv(h, new, meant') /\ SameLibraries(g, h)
       /\ h.proxy[s] = p /\ \A t \in CellIndexes : t # s => h.proxy[t] = g.proxy[t]
  <2> DEFINE x == meant'
  <2>1. Elsewhere(m, x, s) /\ x[s] = CellOf(g, p) /\ x[s] # None
    BY <1>5, <1>9, <1>11
  <2> HIDE DEF x
  <2>2. /\ CallInv(h, new, x) /\ SameLibraries(g, h)
        /\ h.proxy[s] = p /\ \A t \in CellIndexes : t # s => h.proxy[t] = g.proxy[t]
    BY <1>4, <1>7, <1>8, <1>10, <2>1, AddedIs DEF h
  <2> QED  BY <2>2 DEF x
<1>13. IsRegistry(h) /\ SameLibraries(reg, h) /\ reg' = h
  BY <1>1, <1>6, <1>12 DEF CallInv, SameLibraries, Layout
<1>14. OpOK'
  <2>1. CASE transacting
    <3> DEFINE o == [at |-> s, remove |-> FALSE, done |-> TRUE, cell |-> Empty]
    <3>1. op' = o
      BY <1>1, <2>1
    <3>2. o.at = s /\ o.remove = FALSE /\ o.done = TRUE /\ o.cell = Empty /\ OpTyped(o)
      BY ProxyForms DEF OpTyped
    <3>3. Means(h, Empty, meant'[s])
      BY ProxyForms DEF Means
    <3> HIDE DEF o
    <3> QED  BY <1>9, <1>12, <1>13, <3>1, <3>2, <3>3, ConstantsAssumption DEF OpOK
  <2>2. CASE ~transacting
    <3>1. op' = op /\ OpOK /\ OpTyped(op)
      BY <1>1, <1>2, <2>2, StateIs
    <3>2. op.at \in CellIndexes => h.proxy[op.at] = reg.proxy[op.at] /\ meant'[op.at] = meant[op.at]
      BY <1>1, <1>6, <1>11, <1>12, <2>2 DEF m, Elsewhere
    <3>3. Means(h, op.cell, meant'[op.at])
      <4>1. CASE op.at = None
        BY <3>1, <4>1, ProxyForms DEF OpOK, NoOp, Means
      <4>2. CASE op.at \in CellIndexes
        <5>1. Means(reg, op.cell, meant[op.at])
          BY <3>1 DEF OpOK
        <5>2. Means(h, op.cell, meant[op.at])
          BY <1>8, <1>13, <5>1, SameCells
        <5> QED  BY <3>2, <4>2, <5>2
      <4> QED  BY <3>1, <4>1, <4>2 DEF OpTyped
    <3>4. op.at = None \/ op.at \in CellIndexes
      BY <3>1 DEF OpTyped
    <3> QED  BY <1>13, <3>1, <3>2, <3>3, <3>4 DEF OpOK
  <2> QED  BY <2>1, <2>2
<1>15. ASSUME NEW t \in CellIndexes, h.proxy[t] = Empty
       PROVE  new[t] = IF t = op'.at THEN HolderOf(h, op'.cell) ELSE Nobody
  <2>1. t # s /\ reg.proxy[t] = Empty
    BY <1>6, <1>9, <1>12, <1>15
  <2>2. new[t] = IF ~transacting /\ t = op.at THEN HolderOf(reg, op.cell) ELSE Nobody
    BY <1>7, <1>10, <2>1 DEF Elsewhere
  <2>3. HolderOf(h, op.cell) = HolderOf(reg, op.cell)
    BY <1>8, <1>13, SameCells
  <2>4. CASE transacting
    <3>1. op'.at = s
      BY <1>1, <2>4
    <3> QED  BY <2>1, <2>2, <2>4, <3>1
  <2>5. CASE ~transacting
    BY <1>1, <2>2, <2>3, <2>5
  <2> QED  BY <2>4, <2>5
<1>16. overlooked' \subseteq CellIndexes
  BY <1>1, <1>2, StateIs
<1>17. /\ Layout(h) /\ SameLibraries(reg, h) /\ CallInv(h, new, meant')
       /\ meant' \in [CellIndexes -> Cells \cup {None}] /\ overlooked' \subseteq CellIndexes
       /\ \A t \in CellIndexes : h.proxy[t] = Empty => new[t] = IF t = op'.at THEN HolderOf(h, op'.cell) ELSE Nobody
  BY <1>1, <1>11, <1>12, <1>13, <1>15, <1>16
<1>18. IInv'
  BY <1>14, <1>17, LayoutKeeps
<1>19. \A t \in CellIndexes : IsCold(h.proxy[t]) => h.proxy[t] = reg.proxy[t]
  BY <1>4, <1>6, <1>12, ProxyForms
<1> QED  BY <1>1, <1>2, <1>13, <1>18, <1>19, StateIs DEF LeavesCold, Layout, CallInv

LEMMA DeleteCellKeeps ==
  ASSUME IInv, NEW s \in CellIndexes, DeleteCell(s)
  PROVE  IInv' /\ LeavesCold
<1> DEFINE g == Unkept(reg)
           p == reg.proxy[s]
           f == Retired(g, p)
           h == Placed(f, s, Empty)
           o == [at |-> s, remove |-> TRUE, done |-> TRUE, cell |-> p]
<1>1. Layout(Placed(Retired(g, g.proxy[s]), s, Empty)) /\ meant' = MeantWithout /\ op' = o /\ p # Empty
      /\ overlooked' = overlooked \ {s}
  BY DEF DeleteCell
<1>2. ~outlived
  BY <1>1, NotOutlived
<1>3. /\ SameLibraries(reg, g) /\ g.proxy = reg.proxy
      /\ \E new : /\ CallInv(g, new, MeantWithout)
                  /\ \A t \in CellIndexes : reg.proxy[t] = Empty => new[t] = Nobody
  BY <1>2, StateIs, UnkeptIs
<1> HIDE DEF g
<1>4. Layout(h)
  BY <1>1, <1>3
<1> DEFINE m == MeantWithout
<1> HIDE DEF m
<1>5. PICK new : CallInv(g, new, m) /\ \A t \in CellIndexes : reg.proxy[t] = Empty => new[t] = Nobody
  BY <1>3 DEF m
<1>6. IsRegistry(g) /\ Exact(g, new) /\ p \in Proxies /\ new[s] = HolderOf(g, p) /\ Means(g, p, m[s])
  BY <1>1, <1>2, <1>3, <1>5, StateIs DEF CallInv, Match, Refs
<1> HIDE DEF p
<1>7. Recounted(g, f, new)
  BY <1>6, RetiredIs
<1> HIDE DEF f
<1>8. /\ CallInv(h, new, m) /\ SameLibraries(g, h)
      /\ h.proxy[s] = Empty /\ \A t \in CellIndexes : t # s => h.proxy[t] = g.proxy[t]
  <2>1. Means(g, Empty, m[s]) /\ Empty \in Proxies
    BY ProxyForms DEF Means
  <2> QED  BY <1>5, <1>7, <2>1, ShiftedIs
<1> HIDE DEF h
<1>9. Means(h, p, m[s]) /\ HolderOf(h, p) = HolderOf(g, p)
  BY <1>6, <1>8, SameCells DEF CallInv
<1>10. reg' = h
  BY <1>4 DEF Layout
<1>11. o.at = s /\ o.remove = TRUE /\ o.done = TRUE /\ o.cell = p /\ OpTyped(o)
  BY <1>6 DEF OpTyped
<1> HIDE DEF o
<1>12. OpOK'
  BY <1>1, <1>8, <1>9, <1>10, <1>11, ConstantsAssumption DEF OpOK, m
<1>13. ASSUME NEW t \in CellIndexes, h.proxy[t] = Empty
       PROVE  new[t] = IF t = op'.at THEN HolderOf(h, op'.cell) ELSE Nobody
  BY <1>1, <1>3, <1>5, <1>6, <1>8, <1>9, <1>11, <1>13
<1>14. meant' \in [CellIndexes -> Cells \cup {None}] /\ overlooked' \subseteq CellIndexes
  BY <1>1, <1>2, StateIs, MeantType
<1>15. CallInv(h, new, meant')
  BY <1>1, <1>8 DEF m
<1>16. IsRegistry(h) /\ SameLibraries(reg, h)
  BY <1>3, <1>8 DEF SameLibraries, CallInv
<1>17. IInv'
  BY <1>4, <1>12, <1>13, <1>14, <1>15, <1>16, LayoutKeeps
<1>18. \A t \in CellIndexes : IsCold(h.proxy[t]) => t # s /\ h.proxy[t] = reg.proxy[t]
  BY <1>3, <1>8, ProxyForms
<1> QED  BY <1>1, <1>2, <1>4, <1>10, <1>16, <1>17, <1>18, StateIs DEF LeavesCold, Layout, CallInv

LEMMA DeleteCellAtOnceKeeps ==
  ASSUME IInv, NEW s \in CellIndexes, DeleteCellAtOnce(s)
  PROVE  IInv' /\ LeavesCold
<1> DEFINE h == Replaced(reg, s, Empty)
<1>1. Layout(h) /\ meant' = [meant EXCEPT ![s] = None] /\ op' = op /\ reg.proxy[s] # Empty /\ op.at # s
      /\ overlooked' = overlooked \ {s}
  BY DEF DeleteCellAtOnce
<1>2. ~outlived
  BY <1>1, NotOutlived
<1>3. CallInv(reg, Who, meant) /\ IsRegistry(reg) /\ Who \in Holders /\ OpOK /\ OpTyped(op)
  BY <1>2, StateIs
<1>4. PICK new \in Holders : new[s] = Nobody /\ Elsewhere(Who, new, s)
  BY <1>3, NobodyHolds, Changed
<1>5. Moved(reg, h, s, Empty) /\ Exact(h, new)
  BY <1>1, <1>3, <1>4, ProxyForms, ReplacedIs
<1> HIDE DEF h
<1>6. meant' \in [CellIndexes -> Cells \cup {None}] /\ Elsewhere(meant, meant', s) /\ overlooked' \subseteq CellIndexes
  BY <1>1, <1>2, StateIs DEF Elsewhere
<1>7. CallInv(h, new, meant')
  <2> DEFINE x == meant'
  <2>1. Means(reg, Empty, x[s]) /\ Empty \in Proxies
    BY ProxyForms DEF Means
  <2>2. Elsewhere(meant, x, s)
    BY <1>6
  <2> HIDE DEF x
  <2>3. CallInv(h, new, x)
    BY <1>3, <1>4, <1>5, <2>1, <2>2, MovedTo
  <2> QED  BY <2>3 DEF x
<1>8. IsRegistry(h) /\ SameLibraries(reg, h) /\ h.proxy[s] = Empty /\ \A t \in CellIndexes : t # s => h.proxy[t] = reg.proxy[t]
  BY <1>5 DEF Moved
<1>9. reg' = h
  BY <1>1 DEF Layout
<1>10. OpOK'
  <2>1. op.at = None \/ op.at \in CellIndexes
    BY <1>3 DEF OpTyped
  <2>2. op.at \in CellIndexes => h.proxy[op.at] = reg.proxy[op.at] /\ meant'[op.at] = meant[op.at]
    BY <1>1, <1>6, <1>8 DEF Elsewhere
  <2>3. Means(h, op.cell, meant'[op.at])
    <3>1. CASE op.at = None
      BY <1>3, <3>1, ProxyForms DEF OpOK, NoOp, Means
    <3>2. CASE op.at \in CellIndexes
      <4>1. Means(reg, op.cell, meant[op.at])
        BY <1>3 DEF OpOK
      <4>2. Means(h, op.cell, meant[op.at])
        BY <1>3, <1>8, <4>1, SameCells
      <4> QED  BY <2>2, <3>2, <4>2
    <3> QED  BY <2>1, <3>1, <3>2
  <2> QED  BY <1>1, <1>3, <1>9, <2>1, <2>2, <2>3 DEF OpOK
<1>11. ASSUME NEW t \in CellIndexes, h.proxy[t] = Empty
       PROVE  new[t] = IF t = op'.at THEN HolderOf(h, op'.cell) ELSE Nobody
  <2>1. HolderOf(h, op.cell) = HolderOf(reg, op.cell)
    BY <1>3, <1>8, SameCells
  <2>2. CASE t = s
    BY <1>1, <1>4, <2>2
  <2>3. CASE t # s
    <3>1. new[t] = Who[t] /\ reg.proxy[t] = Empty
      BY <1>4, <1>8, <1>11, <2>3 DEF Elsewhere
    <3>2. Who[t] = IF t = op.at THEN HolderOf(reg, op.cell) ELSE Nobody
      BY <1>2, <3>1, StateIs
    <3> QED  BY <1>1, <2>1, <3>1, <3>2
  <2> QED  BY <2>2, <2>3
<1>12. /\ Layout(h) /\ SameLibraries(reg, h) /\ CallInv(h, new, meant')
       /\ meant' \in [CellIndexes -> Cells \cup {None}] /\ overlooked' \subseteq CellIndexes
       /\ \A t \in CellIndexes : h.proxy[t] = Empty => new[t] = IF t = op'.at THEN HolderOf(h, op'.cell) ELSE Nobody
  BY <1>1, <1>6, <1>7, <1>8, <1>11
<1>13. IInv'
  BY <1>10, <1>12, LayoutKeeps
<1>14. \A t \in CellIndexes : IsCold(h.proxy[t]) => t # s /\ h.proxy[t] = reg.proxy[t]
  BY <1>8, ProxyForms
<1> QED  BY <1>1, <1>3, <1>8, <1>9, <1>13, <1>14 DEF LeavesCold, Layout, CallInv

LEMMA ReplayKeeps ==
  ASSUME IInv, NEW redo \in BOOLEAN, Replay(redo)
  PROVE  IInv' /\ LeavesCold
<1> DEFINE s == op.at
<1>1. op # NoOp /\ op.done # redo /\ meant' = meant
      /\ op' = [op EXCEPT !.done = redo, !.cell = IF op.remove = redo THEN reg.proxy[s] ELSE Empty]
  BY DEF Replay
<1>2. PICK g : Layout(g)
  BY DEF Replay, TakeOut, PutBack
<1>3. ~outlived
  BY <1>2, NotOutlived
<1>4. /\ CallInv(reg, Who, meant) /\ IsRegistry(reg) /\ Who \in Holders /\ Exact(reg, Who) /\ OpOK /\ OpTyped(op)
      /\ meant' \in [CellIndexes -> Cells \cup {None}] /\ overlooked \subseteq CellIndexes
  BY <1>1, <1>3, StateIs DEF CallInv
<1>5. s \in CellIndexes /\ s # None /\ op.cell \in Proxies /\ op.done \in BOOLEAN /\ op.remove \in BOOLEAN
  BY <1>1, <1>4 DEF OpOK, OpTyped
<1>6. /\ op'.at = s /\ op'.remove = op.remove /\ op'.done = redo
      /\ op'.cell = IF op.remove = redo THEN reg.proxy[s] ELSE Empty
  BY <1>1, <1>4 DEF OpTyped
<1>7. op' \in [at : CellIndexes \cup {None}, remove : BOOLEAN, done : BOOLEAN, cell : Proxies]
  <2>1. (IF op.remove = redo THEN reg.proxy[s] ELSE Empty) \in Proxies
    BY <1>3, <1>5, StateIs, ProxyForms
  <2> QED  BY <1>1, <1>4, <2>1 DEF OpTyped
<1> HIDE DEF s
<1>8. CASE op.remove = redo
  <2> DEFINE p == reg.proxy[s]
             f == Retired(reg, p)
             h == Placed(f, s, Empty)
  <2>1. Layout(h) /\ overlooked' = overlooked \ {s}
    BY <1>8 DEF Replay, TakeOut, s
  <2>2. op.cell = Empty /\ p # Empty /\ p \in Proxies
    BY <1>1, <1>3, <1>4, <1>5, <1>8, StateIs DEF OpOK, s
  <2>3. Who[s] = HolderOf(reg, p) /\ Means(reg, p, meant[s])
    BY <1>3, <1>5, <2>2, StateIs
  <2> HIDE DEF p
  <2>4. Recounted(reg, f, Who)
    BY <1>4, <2>2, RetiredIs
  <2> HIDE DEF f
  <2>5. /\ CallInv(h, Who, meant) /\ SameLibraries(reg, h)
        /\ h.proxy[s] = Empty /\ \A t \in CellIndexes : t # s => h.proxy[t] = reg.proxy[t]
    <3>1. Means(reg, Empty, meant[s]) /\ Empty \in Proxies
      BY ProxyForms DEF Means
    <3> QED  BY <1>4, <1>5, <2>4, <3>1, ShiftedIs
  <2> HIDE DEF h
  <2>6. Means(h, p, meant[s]) /\ HolderOf(h, p) = HolderOf(reg, p)
    BY <1>4, <2>3, <2>5, SameCells DEF CallInv
  <2>7. reg' = h /\ op'.cell = p
    BY <1>6, <1>8, <2>1 DEF Layout, p
  <2>8. OpOK'
    BY <1>1, <1>5, <1>6, <1>7, <1>8, <2>2, <2>5, <2>6, <2>7 DEF OpOK, OpTyped
  <2>9. ASSUME NEW t \in CellIndexes, h.proxy[t] = Empty
        PROVE  Who[t] = IF t = op'.at THEN HolderOf(h, op'.cell) ELSE Nobody
    <3>1. CASE t = s
      BY <1>6, <2>3, <2>6, <2>7, <3>1
    <3>2. CASE t # s
      BY <1>3, <1>6, <2>5, <2>9, <3>2, StateIs DEF s
    <3> QED  BY <3>1, <3>2
  <2>10. CallInv(h, Who, meant') /\ overlooked' \subseteq CellIndexes
    BY <1>1, <1>4, <2>1, <2>5
  <2>11. IInv'
    BY <1>4, <2>1, <2>5, <2>8, <2>9, <2>10, LayoutKeeps
  <2>12. \A t \in CellIndexes : IsCold(h.proxy[t]) => t # s /\ h.proxy[t] = reg.proxy[t]
    BY <2>5, ProxyForms
  <2> QED  BY <1>4, <2>1, <2>5, <2>7, <2>11, <2>12 DEF LeavesCold, Layout, CallInv
<1>9. CASE op.remove # redo
  <2> DEFINE p == op.cell
             f == Unretired(reg, p)
             h == Placed(f, s, p)
  <2>1. Layout(h) /\ (overlooked' = IF IsCold(p) THEN overlooked \cup {s} ELSE overlooked)
    BY <1>9 DEF Replay, PutBack, s
  <2>2. p # Empty /\ p \in Proxies /\ reg.proxy[s] = Empty
    BY <1>1, <1>4, <1>5, <1>9 DEF OpOK, s
  <2>3. Who[s] = HolderOf(reg, p) /\ Means(reg, p, meant[s])
    BY <1>3, <1>4, <1>5, <2>2, StateIs DEF OpOK, s
  <2> HIDE DEF p
  <2>4. Recounted(reg, f, Who)
    BY <1>4, <2>2, RetiredIs
  <2> HIDE DEF f
  <2>5. /\ CallInv(h, Who, meant) /\ SameLibraries(reg, h)
        /\ h.proxy[s] = p /\ \A t \in CellIndexes : t # s => h.proxy[t] = reg.proxy[t]
    BY <1>4, <1>5, <2>2, <2>3, <2>4, ShiftedIs
  <2> HIDE DEF h
  <2>6. reg' = h /\ op'.cell = Empty
    BY <1>6, <1>9, <2>1 DEF Layout
  <2>7. Means(h, Empty, meant[s])
    BY ProxyForms DEF Means
  <2>8. OpOK'
    BY <1>1, <1>5, <1>6, <1>7, <1>9, <2>2, <2>5, <2>6, <2>7 DEF OpOK, OpTyped
  <2>9. ASSUME NEW t \in CellIndexes, h.proxy[t] = Empty
        PROVE  Who[t] = IF t = op'.at THEN HolderOf(h, op'.cell) ELSE Nobody
    <3>1. t # s /\ reg.proxy[t] = Empty
      BY <2>2, <2>5, <2>9
    <3> QED  BY <1>3, <1>6, <3>1, StateIs DEF s
  <2>10. CallInv(h, Who, meant') /\ overlooked' \subseteq CellIndexes
    BY <1>1, <1>4, <1>5, <2>1, <2>5
  <2>11. IInv'
    BY <1>4, <2>1, <2>5, <2>8, <2>9, <2>10, LayoutKeeps
  <2>12. \A t \in CellIndexes : IsCold(h.proxy[t]) /\ t \notin overlooked' =>
           h.proxy[t] = reg.proxy[t] /\ t \notin overlooked
    BY <2>1, <2>5
  <2> QED  BY <1>4, <2>1, <2>5, <2>6, <2>11, <2>12 DEF LeavesCold, Layout, CallInv
<1> QED  BY <1>8, <1>9

LEMMA ForgetKeeps ==
  ASSUME IInv, Forget
  PROVE  IInv' /\ LeavesCold
<1> DEFINE h == Unkept(reg)
           m == MeantWithout
<1>1. Layout(h) /\ op' = NoOp /\ meant' = m /\ overlooked' = overlooked
  BY DEF Forget
<1>2. ~outlived
  BY <1>1, NotOutlived
<1>3. /\ h.proxy = reg.proxy /\ SameLibraries(reg, h)
      /\ \E new : CallInv(h, new, m) /\ \A s \in CellIndexes : reg.proxy[s] = Empty => new[s] = Nobody
  BY <1>2, StateIs, UnkeptIs
<1>4. m \in [CellIndexes -> Cells \cup {None}] /\ overlooked' \subseteq CellIndexes
  BY <1>1, <1>2, StateIs, MeantType
<1> HIDE DEF h, m
<1>5. PICK new : CallInv(h, new, m) /\ \A s \in CellIndexes : reg.proxy[s] = Empty => new[s] = Nobody
  BY <1>3
<1>6. NoOp.at = None /\ NoOp.cell = Empty /\ OpTyped(NoOp)
  BY ProxyForms DEF NoOp, OpTyped
<1>7. OpOK'
  <2>1. \A c : Means(reg', Empty, c)
    BY ProxyForms DEF Means
  <2> QED  BY <1>1, <1>6, <2>1 DEF OpOK
<1>8. \A s \in CellIndexes : h.proxy[s] = Empty => new[s] = IF s = op'.at THEN HolderOf(h, op'.cell) ELSE Nobody
  BY <1>1, <1>3, <1>5, <1>6, ProxyForms DEF HolderOf
<1>9. CallInv(h, new, meant') /\ meant' \in [CellIndexes -> Cells \cup {None}]
  BY <1>1, <1>4, <1>5
<1>10. IInv'
  BY <1>1, <1>3, <1>4, <1>7, <1>8, <1>9, LayoutKeeps
<1> QED  BY <1>1, <1>2, <1>3, <1>9, <1>10, StateIs DEF LeavesCold, Layout, CallInv

-----------------------------------------------------------------------------
(* Cold proxies                                                            *)

\* Of this name no cold proxy could return.
Settled(h, n) == \A s \in CellIndexes : \A t : Restorable(h, t, s) => h.proxy[s].library # n

\* None could return in h that could not in g.
NoMore(g, h) == \A s \in CellIndexes : \A t : Restorable(h, t, s) => Restorable(g, t, s)

\* What a cold proxy that could return is named after.
LEMMA RestorableNames ==
  ASSUME NEW g, IsRegistry(g), NEW t, NEW s \in CellIndexes, Restorable(g, t, s)
  PROVE  IsCold(g.proxy[s]) /\ g.proxy[s].library \in Names
<1>1. IsCold(g.proxy[s]) /\ g.proxy[s].library # None /\ g.proxy[s] \in Proxies
  BY RegistryIs DEF Restorable
<1> QED  BY <1>1, ProxyForms

LEMMA FoundAlike ==
  ASSUME NEW g, NEW h, IsRegistry(h), NEW s \in CellIndexes, NEW t, Restorable(h, t, s),
         h.proxy[s] = g.proxy[s], Finds(g, h, h.proxy[s].library)
  PROVE  Restorable(g, t, s)
<1> DEFINE p == h.proxy[s]
           id(f) == LibByName(f, p.library, TechsOf(t))
<1>1. IsCold(p) /\ p.library # None /\ HasCell(h, id(h), p.cell)
  BY DEF Restorable
<1>2. CellsOf(h, id(h)) = CellsOf(g, id(g))
  BY DEF Finds
<1>3. HasCell(g, id(g), p.cell)
  BY <1>1, <1>2 DEF HasCell
<1> QED  BY <1>1, <1>3 DEF Restorable

LEMMA TouchedSettles ==
  ASSUME NEW g, NEW h, IsRegistry(h), NEW n, Touches(g, h, n), Settled(h, n)
  PROVE  NoMore(g, h)
<1> SUFFICES ASSUME NEW s \in CellIndexes, NEW t, Restorable(h, t, s) PROVE Restorable(g, t, s)
  BY DEF NoMore
<1>1. IsCold(h.proxy[s]) /\ h.proxy[s].library \in Names /\ h.proxy[s].library # n
  BY RestorableNames DEF Settled
<1>2. h.proxy[s] = g.proxy[s] /\ Finds(g, h, h.proxy[s].library)
  BY <1>1 DEF Touches, Cools
<1> QED  BY <1>2, FoundAlike

LEMMA UntouchedAll ==
  ASSUME NEW g, NEW h, IsRegistry(h), \A n : Touches(g, h, n)
  PROVE  NoMore(g, h)
<1> SUFFICES ASSUME NEW s \in CellIndexes, NEW t, Restorable(h, t, s) PROVE Restorable(g, t, s)
  BY DEF NoMore
<1>1. IsCold(h.proxy[s]) /\ h.proxy[s].library \in Names
  BY RestorableNames
<1>2. PICK n : n # h.proxy[s].library
  BY <1>1, ConstantsAssumption
<1>3. Touches(g, h, n)
  OBVIOUS
<1>4. h.proxy[s] = g.proxy[s] \/ h.proxy[s].library = n
  BY <1>1, <1>3 DEF Touches, Cools
<1>5. Finds(g, h, h.proxy[s].library)
  BY <1>1, <1>2, <1>3 DEF Touches
<1> QED  BY <1>2, <1>4, <1>5, FoundAlike

\* unregister_lib leaves no library of that name to be found.
LEMMA ErasedSettles ==
  ASSUME NEW h, IsRegistry(h), NEW n \in Names, h.byName[n] = <<>>
  PROVE  Settled(h, n)
<1> SUFFICES ASSUME NEW s \in CellIndexes, NEW t, Restorable(h, t, s), h.proxy[s].library = n PROVE FALSE
  BY DEF Settled
<1> DEFINE id == LibByName(h, n, TechsOf(t))
<1>1. id = NoId
  <2>1. DOMAIN h.byName[n] = {}
    OBVIOUS
  <2> QED  BY <2>1, LibByNameIs
<1>2. HasCell(h, id, h.proxy[s].cell)
  BY DEF Restorable
<1>3. CellsOf(h, id) = <<>>
  BY <1>1, NoIdIs
<1> HIDE DEF id
<1> QED  BY <1>2, <1>3 DEF HasCell, ToSet

LEMMA NoMoreThen ==
  ASSUME NEW g, NEW f, NEW h, NoMore(g, f), NoMore(f, h)
  PROVE  NoMore(g, h)
BY DEF NoMore

\* After the restoration none is left that could return.
LEMMA RestoredSettles ==
  ASSUME NEW g, NEW who, NEW m, CallInv(g, who, m), NEW t, NEW s \in CellIndexes
  PROVE  ~Restorable(Restored(g, t), t, s)
<1> DEFINE h == Restored(g, t)
<1> SUFFICES ASSUME Restorable(h, t, s) PROVE FALSE
  OBVIOUS
<1>1. PICK new : /\ Keeps(g, h, who, new, m) /\ SameLibraries(g, h)
                 /\ \A r \in CellIndexes : IsCold(h.proxy[r]) => h.proxy[r] = g.proxy[r] /\ ~Restorable(g, t, r)
  BY RestoredIs
<1> HIDE DEF h
<1>2. IsRegistry(g) /\ NamesOK(g) /\ IsRegistry(h)
  BY <1>1 DEF Keeps, CallInv
<1>3. IsCold(h.proxy[s]) /\ h.proxy[s].library \in Names
  BY <1>2, RestorableNames
<1>4. Finds(g, h, h.proxy[s].library) /\ h.proxy[s] = g.proxy[s] /\ ~Restorable(g, t, s)
  BY <1>1, <1>2, <1>3, SameFinds
<1> QED  BY <1>2, <1>4, FoundAlike

LEMMA ColdStays ==
  ASSUME ColdOnlyIfUnserved, NoMore(reg, reg'), technology' = technology, overlooked \subseteq overlooked'
  PROVE  ColdOnlyIfUnserved'
BY DEF ColdOnlyIfUnserved, NoMore

LEMMA LayoutCold ==
  ASSUME ColdOnlyIfUnserved, LeavesCold
  PROVE  ColdOnlyIfUnserved'
<1> SUFFICES ASSUME NEW s \in CellIndexes, s \notin overlooked', Restorable(reg', technology', s) PROVE FALSE
  BY DEF ColdOnlyIfUnserved
<1>1. IsCold(reg'.proxy[s]) /\ reg'.proxy[s].library \in Names
  BY RestorableNames DEF LeavesCold
<1>2. reg'.proxy[s] = reg.proxy[s] /\ s \notin overlooked /\ Finds(reg, reg', reg'.proxy[s].library)
  BY <1>1, SameFinds DEF LeavesCold
<1>3. Restorable(reg, technology, s)
  BY <1>2, FoundAlike DEF LeavesCold
<1> QED  BY <1>2, <1>3 DEF ColdOnlyIfUnserved

\* All that are cold are excepted, or nothing is overlooked.
LEMMA OverlooksCold ==
  ASSUME ColdOnlyIfUnserved, misnamed = {} => NoMore(reg, reg'), technology' = technology, Overlooks \subseteq overlooked'
  PROVE  ColdOnlyIfUnserved'
<1>1. CASE misnamed = {}
  BY <1>1, ColdStays DEF Overlooks
<1>2. CASE misnamed # {}
  BY <1>2 DEF Overlooks, ColdOnlyIfUnserved, Restorable
<1> QED  BY <1>1, <1>2

\* register_lib restores them all, or there are none of the name.
LEMMA EntersCold ==
  ASSUME ColdOnlyIfUnserved, NEW g, NEW mid, CallInv(g, mid, meant), misnamed = {} => NoMore(reg, g),
         NEW l \in Libraries, ~In(g, l), g.object[l].name \in Names, Enters(g, l)
  PROVE  ColdOnlyIfUnserved'
<1> DEFINE h == Registered(g, l)
           n == g.object[l].name
<1>1. PICK new : Follows(g, h, mid, new, meant) /\ (misnamed = {} => Touches(g, h, n))
  BY RegisteredIs DEF Enters
<1>2. CallInv(h, new, meant) /\ IsRegistry(h) /\ Settles(h, n)
  BY <1>1 DEF Follows, CallInv, Enters
<1> HIDE DEF h, n
<1>3. CASE HasCold(h, n)
  <2>1. reg' = Restored(h, technology) /\ technology' = technology
    BY <1>2, <1>3 DEF Settles, Registry
  <2> QED  BY <1>2, <2>1, RestoredSettles DEF ColdOnlyIfUnserved
<1>4. CASE ~HasCold(h, n)
  <2>1. reg' = h /\ technology' = technology /\ overlooked' = Overlooks
    BY <1>2, <1>4 DEF Settles, Registry
  <2>2. Settled(h, n)
    BY <1>4 DEF Settled, HasCold, Restorable
  <2>3. misnamed = {} => NoMore(reg, h)
    BY <1>1, <1>2, <2>2, TouchedSettles, NoMoreThen
  <2> QED  BY <2>1, <2>3, OverlooksCold
<1> QED  BY <1>3, <1>4

LEMMA RegisterCold ==
  ASSUME IInv, ColdOnlyIfUnserved, NEW l \in Libraries, NEW n \in Names, NEW techs \in SUBSET Technologies,
         NEW cells \in Contents, Register(l, n, techs, cells)
  PROVE  ColdOnlyIfUnserved'
<1> DEFINE g == [reg EXCEPT !.object[l] = Described(@, n, techs, cells)]
<1>1. ~IsRegistered(l) /\ Enters(g, l)
  BY DEF Register
<1>2. ~outlived
  BY <1>1, NotOutlived DEF Enters
<1>3. CallInv(reg, Who, meant) /\ ~In(reg, l)
  BY <1>1, <1>2, RegisteredMeans
<1>4. Keeps(reg, g, Who, Who, meant) /\ g.object[l].name = n /\ ~In(g, l) /\ \A x : Touches(reg, g, x)
  <2>1. n \in Names \cup {None} /\ cells \in Contents \cup {<<>>}
    OBVIOUS
  <2> QED  BY <1>3, <2>1, DescribedIs
<1> HIDE DEF g
<1>5. CallInv(g, Who, meant) /\ IsRegistry(g)
  BY <1>4 DEF Keeps, CallInv
<1>6. NoMore(reg, g)
  BY <1>4, <1>5, UntouchedAll
<1> QED  BY <1>1, <1>4, <1>5, <1>6, EntersCold

\* Nothing returns when a library goes: its proxies look for a name that is not found.
LEMMA GoneSettles ==
  ASSUME NEW g, NEW h, IsRegistry(g), NamesOK(g), IsRegistry(h), NEW l \in Libraries,
         Touches(g, h, g.object[l].name), In(g, l), h.byName[g.object[l].name] = <<>>
  PROVE  NoMore(g, h)
<1>1. g.object[l].name \in Names
  BY ConstantsAssumption DEF In, NamesOK
<1> QED  BY <1>1, ErasedSettles, TouchedSettles

LEMMA UnregisterCold ==
  ASSUME IInv, ColdOnlyIfUnserved, NEW l \in Libraries, Unregister(l)
  PROVE  ColdOnlyIfUnserved'
<1> DEFINE f == Unregistered(reg, l)
           g == [f EXCEPT !.object[l] = Described(@, None, {}, <<>>)]
<1>1. Registry(g) /\ technology' = technology /\ overlooked' = Overlooks /\ IsRegistered(l)
  BY DEF Unregister, Unknown
<1>2. CallInv(reg, Who, meant) /\ IsRegistry(reg) /\ NamesOK(reg) /\ In(reg, l)
  BY <1>1, NotOutlived, RegisteredMeans
<1>3. /\ \E mid : Keeps(reg, f, Who, mid, meant)
      /\ ~In(f, l) /\ (misnamed = {} => Touches(reg, f, reg.object[l].name))
      /\ In(reg, l) => f.byName[reg.object[l].name] = <<>>
  BY <1>2, UnregisteredIs
<1> HIDE DEF f
<1>4. PICK mid : Keeps(reg, f, Who, mid, meant)
  BY <1>3
<1>5. CallInv(f, mid, meant) /\ IsRegistry(f)
  BY <1>4 DEF Keeps, CallInv
<1>6. misnamed = {} => NoMore(reg, f)
  BY <1>2, <1>3, <1>5, GoneSettles
<1>7. Keeps(f, g, mid, mid, meant) /\ \A x : Touches(f, g, x)
  <2>1. None \in Names \cup {None} /\ {} \in SUBSET Technologies /\ <<>> \in Contents \cup {<<>>}
    OBVIOUS
  <2> QED  BY <1>3, <1>5, <2>1, DescribedIs
<1> HIDE DEF g
<1>8. NoMore(f, g)
  BY <1>7, UntouchedAll DEF Keeps, CallInv
<1>9. (misnamed = {} => NoMore(reg, g)) /\ reg' = g
  BY <1>1, <1>6, <1>8, NoMoreThen DEF Registry
<1> QED  BY <1>1, <1>9, OverlooksCold

LEMMA DeletedNoMore ==
  ASSUME NEW g, NEW who, NEW m, CallInv(g, who, m), NEW l \in Libraries, misnamed = {}
  PROVE  NoMore(g, Deleted(g, l))
<1> DEFINE f == Unregistered(g, l)
           h == Deleted(g, l)
<1>1. IsRegistry(g) /\ NamesOK(g)
  BY DEF CallInv
<1>2. /\ \E new : Follows(g, h, who, new, m)
      /\ Touches(g, h, g.object[l].name) /\ (In(g, l) => h.byName[g.object[l].name] = <<>>)
  BY DeletedIs
<1>3. CASE In(g, l)
  <2>1. IsRegistry(h)
    BY <1>2 DEF Follows, CallInv
  <2> HIDE DEF h
  <2>2. NoMore(g, h)
    BY <1>1, <1>2, <1>3, <2>1, GoneSettles
  <2> QED  BY <2>2 DEF h
<1>4. CASE ~In(g, l)
  <2>1. h = Buried(g, l)
    <3>1. Unregistered(g, l) = g
      BY <1>1, <1>4, IdOfIs DEF Unregistered
    <3> QED  BY <3>1 DEF Deleted
  <2> HIDE DEF h
  <2>2. (\E new : Follows(g, h, who, new, m)) /\ \A n : Touches(g, h, n)
    BY <1>4, <2>1, BuriedIs
  <2>3. IsRegistry(h)
    BY <2>2 DEF Follows, CallInv
  <2>4. NoMore(g, h)
    BY <2>2, <2>3, UntouchedAll
  <2> QED  BY <2>4 DEF h
<1> QED  BY <1>3, <1>4

LEMMA DeleteCold ==
  ASSUME IInv, ColdOnlyIfUnserved, NEW l \in Libraries, Delete(l)
  PROVE  ColdOnlyIfUnserved'
<1> DEFINE g == Deleted(reg, l)
<1>1. Registry(g) /\ technology' = technology /\ overlooked' = Overlooks
  BY DEF Delete
<1>2. CallInv(reg, Who, meant)
  BY <1>1, NotOutlived, RegisteredMeans
<1>3. (misnamed = {} => NoMore(reg, g)) /\ reg' = g
  BY <1>1, <1>2, DeletedNoMore DEF Registry
<1> HIDE DEF g
<1> QED  BY <1>1, <1>3, OverlooksCold

LEMMA RefreshCold ==
  ASSUME IInv, ColdOnlyIfUnserved, NEW l \in Libraries, NEW n, IsRegistered(l) /\ ~outlived => n \in Names,
         NEW cells \in Contents \cup {<<>>}, Refresh(l, n, cells)
  PROVE  ColdOnlyIfUnserved'
<1> DEFINE f == Unregistered(reg, l)
           o == [f.object[l] EXCEPT !.name = n, !.cells = cells]
           g == [f EXCEPT !.object[l].name = n, !.object[l].cells = cells]
           h == [f EXCEPT !.object[l] = o]
<1>1. IsRegistered(l) /\ Enters(g, l)
  BY DEF Refresh
<1>2. ~outlived
  BY <1>1, NotOutlived DEF Enters
<1>3. CallInv(reg, Who, meant) /\ n \in Names /\ IsRegistry(reg) /\ NamesOK(reg) /\ In(reg, l)
  BY <1>1, <1>2, RegisteredMeans
<1>4. /\ \E mid : Keeps(reg, f, Who, mid, meant)
      /\ ~In(f, l) /\ (misnamed = {} => Touches(reg, f, reg.object[l].name))
      /\ In(reg, l) => f.byName[reg.object[l].name] = <<>>
  BY <1>3, UnregisteredIs
<1> HIDE DEF f
<1>5. PICK mid : Keeps(reg, f, Who, mid, meant)
  BY <1>4
<1>6. CallInv(f, mid, meant) /\ IsRegistry(f)
  BY <1>5 DEF Keeps, CallInv
<1>7. misnamed = {} => NoMore(reg, f)
  BY <1>3, <1>4, <1>6, GoneSettles
<1>8. g = h
  <2>1. f.object \in [Libraries -> Objects]
    BY <1>6, RegistryIs
  <2>2. f = [libs |-> f.libs, byName |-> f.byName, object |-> f.object, proxy |-> f.proxy]
    BY <1>6 DEF IsRegistry
  <2> QED  BY <2>1, <2>2 DEF Objects
<1>9. /\ o \in Objects /\ o.refcount = f.object[l].refcount /\ o.referrers = f.object[l].referrers
      /\ o.name = n
  <2>1. f.object[l] \in Objects
    BY <1>6, RegistryIs
  <2> QED  BY <1>3, <2>1 DEF Objects
<1> HIDE DEF o, g
<1>10. Keeps(f, h, mid, mid, meant) /\ h.libs = f.libs /\ h.object[l] = o /\ \A x : Touches(f, h, x)
  BY <1>4, <1>6, <1>9, RedescribedIs
<1> HIDE DEF h
<1>11. CallInv(h, mid, meant) /\ IsRegistry(h) /\ ~In(h, l)
  BY <1>4, <1>10 DEF Keeps, CallInv, In
<1>12. misnamed = {} => NoMore(reg, h)
  BY <1>7, <1>10, <1>11, UntouchedAll, NoMoreThen
<1> QED  BY <1>1, <1>3, <1>8, <1>9, <1>10, <1>11, <1>12, EntersCold

\* rename does not look for the cold proxies of the two names: overlooked.
LEMMA RenameCold ==
  ASSUME IInv, ColdOnlyIfUnserved, NEW l \in Libraries, NEW n \in Names, NEW techs, Rename(l, n, techs)
  PROVE  ColdOnlyIfUnserved'
<1> DEFINE id == IdOf(reg, l)
           found == LibByName(reg, n, techs)
           g == IF found \in {NoId, id} THEN reg ELSE Deleted(reg, Lib(reg, found))
           h == Renamed(g, id, n)
           old == reg.object[l].name
<1>1. /\ Registry(h) /\ technology' = technology /\ (IsRegistered(l) => n # old)
      /\ overlooked' = Overlooks \cup {s \in CellIndexes : /\ IsRegistered(l) /\ IsCold(reg'.proxy[s])
                                                            /\ reg'.proxy[s].library \in {n, old}}
  BY DEF Rename
<1>2. CallInv(reg, Who, meant) /\ IsRegistry(reg) /\ NamesOK(reg)
  BY <1>1, NotOutlived, RegisteredMeans
<1>3. PICK mid : /\ CallInv(g, mid, meant) /\ (misnamed = {} => NoMore(reg, g))
                 /\ IsRegistered(l) => Lib(g, id) = l /\ g.object[l].name = old
  <2>1. IsRegistered(l) => Lib(reg, id) = l
    BY <1>1, NotOutlived, RegisteredMeans
  <2>2. CASE found \in {NoId, id}
    <3>1. NoMore(reg, reg)
      BY DEF NoMore
    <3> QED  BY <1>2, <2>1, <2>2, <3>1
  <2>3. CASE found \notin {NoId, id}
    <3> DEFINE k == Lib(reg, found)
               d == Deleted(reg, k)
    <3>1. PICK j \in DOMAIN reg.byName[n] : found = reg.byName[n][j] /\ Lib(reg, reg.byName[n][j]) # None
      BY <1>2, <2>3, LibByNameIs
    <3>2. k # None
      BY <3>1
    <3>3. k \in Libraries
      BY <1>2, <3>2, LibIs
    <3>4. g = d
      BY <2>3
    <3> HIDE DEF k
    <3>5. /\ \E new : Follows(reg, d, Who, new, meant)
          /\ \A i : Lib(d, i) = IF Lib(reg, i) = k THEN None ELSE Lib(reg, i)
          /\ \A i \in Libraries : i # k => d.object[i].name = reg.object[i].name
      BY <1>2, <3>3, DeletedIs
    <3>6. IsRegistered(l) => k # l
      <4>1. ASSUME IsRegistered(l), k = l PROVE found = id
        BY <1>2, <2>1, <3>2, <4>1, IdIsOne DEF k, CallInv
      <4> QED  BY <2>3, <4>1
    <3>7. misnamed = {} => NoMore(reg, d)
      BY <1>2, <3>3, DeletedNoMore
    <3> HIDE DEF d, g, id
    <3>8. IsRegistered(l) => Lib(d, id) = l /\ d.object[l].name = old
      BY <2>1, <3>5, <3>6
    <3>9. PICK new : CallInv(d, new, meant)
      BY <3>5 DEF Follows
    <3> QED  BY <3>4, <3>7, <3>8, <3>9
  <2> QED  BY <2>2, <2>3
<1> HIDE DEF g, found
<1>4. reg' = h
  BY <1>1 DEF Registry
<1>5. CASE IsRegistered(l)
  <2>1. Lib(g, id) # None /\ n # g.object[Lib(g, id)].name /\ g.object[Lib(g, id)].name = old
    BY <1>1, <1>3, <1>5, ConstantsAssumption
  <2> HIDE DEF id, old
  <2>2. /\ \E new : Keeps(g, h, mid, new, meant)
        /\ Cools(g, h, n) /\ \A x \in Names \ {n, old} : Finds(g, h, x)
    BY <1>3, <2>1, RenamedIs
  <2> HIDE DEF h
  <2>3. IsRegistry(h)
    BY <2>2 DEF Keeps, CallInv
  <2> SUFFICES ASSUME NEW s \in CellIndexes, s \notin overlooked', Restorable(reg', technology', s) PROVE FALSE
    BY DEF ColdOnlyIfUnserved
  <2>4. IsCold(h.proxy[s]) /\ h.proxy[s].library \in Names /\ Restorable(h, technology, s)
    BY <1>1, <1>4, <2>3, RestorableNames
  <2>5. h.proxy[s].library \notin {n, old} /\ s \notin overlooked /\ misnamed = {}
    BY <1>1, <1>4, <1>5, <2>4 DEF Overlooks
  <2>6. h.proxy[s] = g.proxy[s] /\ Finds(g, h, h.proxy[s].library)
    BY <2>2, <2>4, <2>5 DEF Cools
  <2>7. Restorable(reg, technology, s)
    BY <1>3, <2>3, <2>4, <2>5, <2>6, FoundAlike DEF NoMore
  <2> QED  BY <2>5, <2>7 DEF ColdOnlyIfUnserved
<1>6. CASE ~IsRegistered(l)
  <2>1. id = NoId
    BY <1>6 DEF IsRegistered
  <2>2. Lib(g, NoId) = None
    BY <1>3, NoIdIs DEF CallInv
  <2>3. h = g
    BY <2>1, <2>2 DEF Renamed
  <2> QED  BY <1>1, <1>3, <1>4, <2>3, OverlooksCold
<1> QED  BY <1>5, <1>6

\* A library that is registered again moves no entry.
LEMMA ReregisterCold ==
  ASSUME IInv, ColdOnlyIfUnserved, NEW l \in Libraries, NEW n \in Names, Reregister(l, n)
  PROVE  ColdOnlyIfUnserved'
<1> DEFINE h == [reg EXCEPT !.object[l].name = n]
<1>1. Bounded(reg) /\ reg' = h /\ technology' = technology /\ overlooked' = overlooked
  BY DEF Reregister
<1>2. IsRegistry(reg)
  BY <1>1, StateIs DEF Bounded
<1>3. /\ IsRegistry(h) /\ h.libs = reg.libs /\ h.byName = reg.byName /\ h.proxy = reg.proxy
      /\ \A k \in Libraries : h.object[k].technologies = reg.object[k].technologies
                             /\ h.object[k].cells = reg.object[k].cells
  BY <1>2, RetitledIs
<1> HIDE DEF h
<1>4. ASSUME NEW id PROVE SameEntry(reg, h, id)
  <2>1. Lib(h, id) = Lib(reg, id) /\ (Lib(reg, id) # None => Lib(reg, id) \in Libraries)
    BY <1>2, <1>3, LibIs DEF Lib
  <2> QED  BY <1>3, <2>1 DEF SameEntry
<1>5. \A x : Touches(reg, h, x)
  BY <1>2, <1>3, <1>4, NoneTouched
<1>6. NoMore(reg, h)
  BY <1>3, <1>5, UntouchedAll
<1> QED  BY <1>1, <1>6, ColdStays

LEMMA SetTechnologyCold ==
  ASSUME IInv, NEW t \in Technologies \cup {None}, SetTechnology(t)
  PROVE  ColdOnlyIfUnserved'
<1> DEFINE g == LookedUpAgain(t)
<1>1. Registry(Restored(g, t)) /\ technology' = t
  BY DEF SetTechnology, LookedUpAgain
<1>2. CallInv(reg, Who, meant)
  <2>1. ~outlived
    BY <1>1, NotOutlived
  <2> QED  BY <2>1 DEF IInv, Consistent
<1>3. PICK second : CallInv(g, second, meant)
  BY <1>2, LookedUpAgainIs DEF Keeps
<1> HIDE DEF g
<1>4. reg' = Restored(g, t)
  BY <1>1 DEF Registry
<1> QED  BY <1>1, <1>3, <1>4, RestoredSettles DEF ColdOnlyIfUnserved

LEMMA InitCold ==
  Init => ColdOnlyIfUnserved
<1> SUFFICES ASSUME Init, NEW s \in CellIndexes, Restorable(reg, technology, s) PROVE FALSE
  BY DEF ColdOnlyIfUnserved
<1>1. reg.proxy[s] = Empty /\ IsCold(reg.proxy[s])
  BY DEF Init, Restorable
<1> QED  BY <1>1, ProxyForms

LEMMA NextCold ==
  IInv /\ ColdOnlyIfUnserved /\ [Next]_vars => ColdOnlyIfUnserved'
<1> SUFFICES ASSUME IInv, ColdOnlyIfUnserved, [Next]_vars PROVE ColdOnlyIfUnserved'
  OBVIOUS
<1>1. ASSUME NEW l \in Libraries, NEW n \in Names, NEW techs \in SUBSET Technologies, Rename(l, n, techs)
      PROVE  ColdOnlyIfUnserved'
  BY <1>1, RenameCold
<1>2. ASSUME NEW l \in Libraries, NEW n \in Names, NEW techs \in SUBSET Technologies, NEW cells \in Contents,
             Register(l, n, techs, cells)
      PROVE  ColdOnlyIfUnserved'
  BY <1>2, RegisterCold
<1>3. ASSUME NEW l \in Libraries, NEW n \in Names, NEW cells \in Contents, Refresh(l, n, cells)
      PROVE  ColdOnlyIfUnserved'
  BY <1>3, RefreshCold
<1>4. ASSUME NEW l \in Libraries, RefreshFails(l) PROVE ColdOnlyIfUnserved'
  <2>1. IsRegistered(l) /\ ~outlived => reg.object[l].name \in Names
    BY RegisteredMeans
  <2> QED  BY <1>4, <2>1, RefreshCold DEF RefreshFails
<1>5. ASSUME NEW l \in Libraries, Unregister(l) PROVE ColdOnlyIfUnserved'
  BY <1>5, UnregisterCold
<1>6. ASSUME NEW l \in Libraries, Delete(l) PROVE ColdOnlyIfUnserved'
  BY <1>6, DeleteCold
<1>7. ASSUME NEW t \in Technologies \cup {None}, SetTechnology(t) PROVE ColdOnlyIfUnserved'
  BY <1>7, SetTechnologyCold
<1>8. ASSUME NEW l \in Libraries, NEW i \in Indexes, NEW s \in CellIndexes,
             NewProxy(l, i, s, TRUE) \/ NewProxy(l, i, s, FALSE)
      PROVE  ColdOnlyIfUnserved'
  BY <1>8, NewProxyKeeps, LayoutCold
<1>9. ASSUME NEW s \in CellIndexes, DeleteCell(s) PROVE ColdOnlyIfUnserved'
  BY <1>9, DeleteCellKeeps, LayoutCold
<1>10. ASSUME NEW s \in CellIndexes, DeleteCellAtOnce(s) PROVE ColdOnlyIfUnserved'
  BY <1>10, DeleteCellAtOnceKeeps, LayoutCold
<1>11. CASE Undo \/ Redo
  BY <1>11, ReplayKeeps, LayoutCold DEF Undo, Redo
<1>12. CASE Forget
  BY <1>12, ForgetKeeps, LayoutCold
<1>13. ASSUME NEW l \in Libraries, NEW n \in Names, Reregister(l, n) PROVE ColdOnlyIfUnserved'
  BY <1>13, ReregisterCold
<1>14. CASE UNCHANGED vars
  BY <1>14 DEF vars, ColdOnlyIfUnserved
<1> QED  BY <1>1, <1>2, <1>3, <1>4, <1>5, <1>6, <1>7, <1>8, <1>9, <1>10, <1>11, <1>12, <1>13, <1>14 DEF Next

-----------------------------------------------------------------------------
(* Theorems                                                                *)

LEMMA InitHolds ==
  Init => IInv
<1> SUFFICES ASSUME Init PROVE IInv
  OBVIOUS
<1> DEFINE b == [n \in Names |-> <<>>]
           c == [l \in Libraries |-> NewLibrary]
           p == [s \in CellIndexes |-> Empty]
<1>1. reg = Rebuilt(<<>>, b, c, p)
  BY DEF Init, Rebuilt
<1>2. b \in [Names -> Seq(Nat)] /\ c \in [Libraries -> Objects] /\ p \in [CellIndexes -> Proxies]
  BY NewLibraryIs, ProxyForms
<1>3. IsRegistry(reg) /\ Consists(reg, <<>>, b, c, p)
  <2>1. <<>> \in Seq(Libraries \cup {None})
    OBVIOUS
  <2> HIDE DEF b, c, p
  <2> QED  BY <1>1, <1>2, <2>1, RebuiltIs
<1>4. /\ reg.libs = <<>> /\ DOMAIN reg.libs = {}
      /\ \A n \in Names : reg.byName[n] = <<>> /\ DOMAIN reg.byName[n] = {}
      /\ \A l \in Libraries : reg.object[l] = NewLibrary
      /\ \A s \in CellIndexes : reg.proxy[s] = Empty
  BY <1>3 DEF Consists
<1>5. op = NoOp /\ NoOp.at = None /\ NoOp.cell = Empty /\ OpTyped(NoOp) /\ technology = None /\ outlived = FALSE
      /\ overlooked = {} /\ misnamed = {} /\ meant \in [CellIndexes -> Cells \cup {None}]
  BY ProxyForms DEF Init, NoOp, OpTyped
<1>6. \A s \in CellIndexes : Who[s] = Nobody
  BY <1>4, <1>5, ProxyForms DEF Who, HolderOf
<1>7. CallInv(reg, Who, meant)
  <2>1. LibsOK(reg) /\ NamesOK(reg)
    BY <1>4 DEF LibsOK, NamesOK, IdsOK
  <2>2. Who \in Holders
    BY <1>6, NobodyHolds DEF Who, Holders
  <2>3. \A l \in Libraries : HoldersOf(Who, l) = {} /\ \A i \in Indexes : HoldersAt(Who, l, i) = {}
    <3>1. \A s \in CellIndexes : Who[s].lib \notin Libraries
      BY <1>6, NobodyHolds, ConstantsAssumption
    <3> QED  BY <3>1 DEF HoldersOf, HoldersAt
  <2>4. Exact(reg, Who)
    BY <1>4, <2>3, NewLibraryIs, FS_EmptySet DEF Exact
  <2>5. Match(reg, Who) /\ Refs(reg, meant)
    BY <1>4, ProxyForms DEF Match, Refs, Means
  <2> QED  BY <1>3, <2>1, <2>2, <2>4, <2>5 DEF CallInv
<1>8. OpOK
  BY <1>5, ProxyForms DEF OpOK, Means
<1>9. NamesMatchRegistry
  BY <1>4 DEF NamesMatchRegistry
<1>10. TypeOK
  <2>1. ToSet(reg.libs) = {} /\ \A n \in Names : ToSet(reg.byName[n]) = {}
    BY <1>4 DEF ToSet
  <2>2. ASSUME NEW l \in Libraries
        PROVE  LET o == reg.object[l] IN
               /\ o.name \in Names \cup {None}
               /\ o.technologies \subseteq Technologies /\ o.cells \in Contents \cup {<<>>}
               /\ \A i \in Indexes : o.refcount[i] \in 0..Cardinality(CellIndexes) /\ o.retired[i] \in 0..MaxRetired
               /\ o.referrers \in 0..Cardinality(CellIndexes)
    <3>1. 0 \in 0..Cardinality(CellIndexes) /\ 0 \in 0..MaxRetired
      BY FS_CardinalityType, ConstantsAssumption
    <3> QED  BY <1>4, <3>1 DEF NewLibrary, NoCounts
  <2>3. ProxyType(Empty)
    BY DEF ProxyType
  <2>4. op.at \in CellIndexes \cup {None} /\ op.remove \in BOOLEAN /\ op.done \in BOOLEAN
    BY <1>5 DEF OpTyped
  <2> QED  BY <1>4, <1>5, <2>1, <2>2, <2>3, <2>4 DEF TypeOK
<1> QED  BY <1>7, <1>8, <1>9, <1>10 DEF IInv, Consistent

LEMMA NextKeeps ==
  IInv /\ [Next]_vars => IInv'
<1> SUFFICES ASSUME IInv, [Next]_vars PROVE IInv'
  OBVIOUS
<1>1. ASSUME NEW l \in Libraries, NEW n \in Names, NEW techs \in SUBSET Technologies, Rename(l, n, techs)
      PROVE  IInv'
  BY <1>1, RenameKeeps
<1>2. ASSUME NEW l \in Libraries, NEW n \in Names, NEW techs \in SUBSET Technologies, NEW cells \in Contents,
             Register(l, n, techs, cells)
      PROVE  IInv'
  BY <1>2, RegisterKeeps
<1>3. ASSUME NEW l \in Libraries, NEW n \in Names, NEW cells \in Contents, Refresh(l, n, cells)
      PROVE  IInv'
  BY <1>3, RefreshKeeps
<1>4. ASSUME NEW l \in Libraries, RefreshFails(l) PROVE IInv'
  <2>1. IsRegistered(l) /\ ~outlived => reg.object[l].name \in Names
    BY RegisteredMeans
  <2> QED  BY <1>4, <2>1, RefreshKeeps DEF RefreshFails
<1>5. ASSUME NEW l \in Libraries, Unregister(l) PROVE IInv'
  BY <1>5, UnregisterKeeps
<1>6. ASSUME NEW l \in Libraries, Delete(l) PROVE IInv'
  BY <1>6, DeleteKeeps
<1>7. ASSUME NEW t \in Technologies \cup {None}, SetTechnology(t) PROVE IInv'
  BY <1>7, SetTechnologyKeeps
<1>8. ASSUME NEW l \in Libraries, NEW i \in Indexes, NEW s \in CellIndexes,
             NewProxy(l, i, s, TRUE) \/ NewProxy(l, i, s, FALSE)
      PROVE  IInv'
  BY <1>8, NewProxyKeeps
<1>9. ASSUME NEW s \in CellIndexes, DeleteCell(s) PROVE IInv'
  BY <1>9, DeleteCellKeeps
<1>10. ASSUME NEW s \in CellIndexes, DeleteCellAtOnce(s) PROVE IInv'
  BY <1>10, DeleteCellAtOnceKeeps
<1>11. CASE Undo \/ Redo
  BY <1>11, ReplayKeeps DEF Undo, Redo
<1>12. CASE Forget
  BY <1>12, ForgetKeeps
<1>13. ASSUME NEW l \in Libraries, NEW n \in Names, Reregister(l, n) PROVE IInv'
  BY <1>13, ReregisterKeeps
<1>14. CASE UNCHANGED vars
  BY <1>14 DEF vars, IInv, TypeOK, ProxyType, NamesMatchRegistry, Consistent, Who, OpOK, CallInv, NamesOK, IdsOK
<1> QED  BY <1>1, <1>2, <1>3, <1>4, <1>5, <1>6, <1>7, <1>8, <1>9, <1>10, <1>11, <1>12, <1>13, <1>14 DEF Next

LEMMA Invariant ==
  Spec => []IInv
<1>1. Init => IInv
  BY InitHolds
<1>2. IInv /\ [Next]_vars => IInv'
  BY NextKeeps
<1> QED  BY <1>1, <1>2, PTL DEF Spec

(* Every variable keeps its type: no call of the library manager or of the *)
(* layout takes a count below zero or above the number of cells there are, *)
(* or leaves an id or an index behind that is out of range.                *)
THEOREM TypeCorrect ==
  Spec => []TypeOK
<1>1. IInv => TypeOK
  BY DEF IInv
<1> QED  BY <1>1, Invariant, PTL

(* The entries of the name table lead to registered libraries of that      *)
(* name, to each one once, so that lib_by_name may follow them without a   *)
(* check: all but those of a library that was registered again by another  *)
(* name than the one it is listed under, which unregister_lib does not     *)
(* find any more.                                                          *)
THEOREM NameTableCorrect ==
  Spec => []NamesMatchRegistry
<1>1. IInv => NamesMatchRegistry
  BY DEF IInv
<1> QED  BY <1>1, Invariant, PTL

(* Whatever becomes of the libraries, a proxy is for the library cell that *)
(* it was made for, or cold and knows the name of that cell, as long as    *)
(* the history has not outlived a library cell.                            *)
THEOREM ReferencesCorrect ==
  Spec => []ReferencesKeepTheirCell
<1>1. IInv => ReferencesKeepTheirCell
  <2> SUFFICES ASSUME IInv, ~outlived, NEW s \in CellIndexes PROVE Means(reg, reg.proxy[s], meant[s])
    BY DEF ReferencesKeepTheirCell, Means
  <2> QED  BY DEF IInv, Consistent, CallInv, Refs
<1> QED  BY <1>1, Invariant, PTL

(* What a library counts for each of its cells, and whether the layout     *)
(* refers to it, is what the layout and its history really hold: remap_to  *)
(* goes to no other layout, and a cell that is counted is not in vain.     *)
THEOREM CountsCorrect ==
  Spec => []CountsExact
<1>1. IInv => CountsExact
  <2> SUFFICES ASSUME IInv, ~outlived, NEW id \in DOMAIN reg.libs, Lib(reg, id) # None
               PROVE  LET o == reg.object[Lib(reg, id)] IN
                      /\ \A i \in Indexes : o.refcount[i] =
                           Cardinality({s \in ProxiesOf(id) : reg.proxy[s].index = i}
                                       \cup {s \in KeptOf(id) : op.cell.index = i})
                      /\ o.referrers = Cardinality(ProxiesOf(id) \cup KeptOf(id))
    BY DEF CountsExact
  <2> DEFINE l == Lib(reg, id)
  <2>1. /\ IsRegistry(reg) /\ LibsOK(reg) /\ Exact(reg, Who) /\ OpOK /\ OpTyped(op)
        /\ \A s \in CellIndexes :
             /\ reg.proxy[s] # Empty => Who[s] = HolderOf(reg, reg.proxy[s])
             /\ reg.proxy[s] = Empty => Who[s] = IF s = op.at THEN HolderOf(reg, op.cell) ELSE Nobody
    BY StateIs DEF CallInv
  <2>2. l \in Libraries /\ l # None
    BY <2>1, LibIs
  <2>3. IsLive(op.cell) => op.at \in CellIndexes /\ reg.proxy[op.at] = Empty
    <3>1. IsLive(op.cell) => op.cell # Empty /\ op.at # None
      BY <2>1, NotEmpty DEF OpOK, NoOp
    <3> QED  BY <2>1, <3>1 DEF OpOK, OpTyped
  <2>4. \A p : HolderOf(reg, p).lib = l <=> IsLive(p) /\ p.id = id
    <3>1. ASSUME NEW p PROVE HolderOf(reg, p).lib = l <=> IsLive(p) /\ p.id = id
      <4>1. CASE IsLive(p)
        <5>1. HolderOf(reg, p).lib = Lib(reg, p.id)
          BY <4>1 DEF HolderOf
        <5>2. Lib(reg, p.id) = l <=> p.id = id
          BY <2>1, <2>2, IdIsOne
        <5> QED  BY <4>1, <5>1, <5>2
      <4>2. CASE ~IsLive(p)
        BY <2>2, <4>2, NobodyHolds DEF HolderOf
      <4> QED  BY <4>1, <4>2
    <3> QED  BY <3>1
  <2>5. \A p : IsLive(p) => HolderOf(reg, p).index = p.index
    BY DEF HolderOf
  <2> HIDE DEF l
  <2>6. ASSUME NEW s \in CellIndexes
        PROVE  Who[s].lib = l <=> s \in ProxiesOf(id) \cup KeptOf(id)
    <3>1. CASE reg.proxy[s] # Empty
      <4>1. s \notin KeptOf(id)
        BY <2>3, <3>1 DEF KeptOf
      <4> QED  BY <2>1, <2>4, <3>1, <4>1 DEF ProxiesOf
    <3>2. CASE reg.proxy[s] = Empty
      <4>1. s \notin ProxiesOf(id)
        BY <3>2, ProxyForms DEF ProxiesOf
      <4>2. CASE s = op.at
        BY <2>1, <2>4, <3>2, <4>1, <4>2 DEF KeptOf
      <4>3. CASE s # op.at
        BY <2>1, <2>2, <3>2, <4>1, <4>3, NobodyHolds DEF KeptOf
      <4> QED  BY <4>2, <4>3
    <3> QED  BY <3>1, <3>2
  <2>7. ProxiesOf(id) \subseteq CellIndexes /\ KeptOf(id) \subseteq CellIndexes
    BY <2>3 DEF ProxiesOf, KeptOf
  <2>8. HoldersOf(Who, l) = ProxiesOf(id) \cup KeptOf(id)
    BY <2>6, <2>7 DEF HoldersOf
  <2>9. ASSUME NEW i \in Indexes
        PROVE  HoldersAt(Who, l, i) = {s \in ProxiesOf(id) : reg.proxy[s].index = i}
                                      \cup {s \in KeptOf(id) : op.cell.index = i}
    <3>1. \A s \in ProxiesOf(id) : Who[s].index = reg.proxy[s].index
      BY <2>1, <2>5, NotEmpty DEF ProxiesOf
    <3>2. \A s \in KeptOf(id) : Who[s].index = op.cell.index
      BY <2>1, <2>3, <2>5 DEF KeptOf
    <3> QED  BY <2>6, <2>7, <3>1, <3>2 DEF HoldersAt
  <2>10. /\ \A i \in Indexes : reg.object[l].refcount[i] = Cardinality(HoldersAt(Who, l, i))
         /\ reg.object[l].referrers = Cardinality(HoldersOf(Who, l))
    BY <2>1, <2>2 DEF Exact
  <2>11. /\ \A i \in Indexes : reg.object[l].refcount[i] =
             Cardinality({s \in ProxiesOf(id) : reg.proxy[s].index = i} \cup {s \in KeptOf(id) : op.cell.index = i})
         /\ reg.object[l].referrers = Cardinality(ProxiesOf(id) \cup KeptOf(id))
    BY <2>8, <2>9, <2>10
  <2> QED  BY <2>11 DEF l
<1> QED  BY <1>1, Invariant, PTL

(* No proxy stays cold although lib_by_name finds a library that has its   *)
(* cell: every call that could make one be found restores it, but for      *)
(* those that rename and undo do not look at, and those that a library     *)
(* leaves that is known by another name than its own.                      *)
THEOREM ColdProxiesReturn ==
  Spec => []ColdOnlyIfUnserved
<1>1. Init => ColdOnlyIfUnserved
  BY InitCold
<1>2. IInv /\ ColdOnlyIfUnserved /\ [Next]_vars => ColdOnlyIfUnserved'
  BY NextCold
<1> QED  BY <1>1, <1>2, Invariant, PTL DEF Spec
=============================================================================
