------------------------- MODULE CoreStreamerProofs -------------------------
(***************************************************************************)
(* Theorems about CoreStreamer, for any layouts and files to start with,   *)
(* any names and bounds: what a read may never touch (ReadLeavesOthers),   *)
(* that every name and index stays one of the layout (TypeCorrect), and    *)
(* that a read puts into the cells of the file what the file has, at every *)
(* point of it (ReadExact).                                                *)
(***************************************************************************)
EXTENDS CoreStreamer, NumberInduction, SequenceTheorems, TLAPS

-----------------------------------------------------------------------------
(* Lists and layouts                                                       *)

IsList(s) == \E S : s \in Seq(S)

\* t has what s has, but for position k, and maybe more.
Extends(s, t, k) ==
  /\ IsList(t) /\ Len(s) <= Len(t)
  /\ \A i \in 1..Len(s) : i # k => t[i] = s[i]

LEMMA ListIs ==
  ASSUME NEW s, IsList(s)
  PROVE  Len(s) \in Nat /\ DOMAIN s = 1..Len(s)
<1>1. PICK S : s \in Seq(S)
  BY DEF IsList
<1> QED  BY <1>1, LenProperties

LEMMA ListAppended ==
  ASSUME NEW s, IsList(s), NEW x
  PROVE  /\ Extends(s, Append(s, x), 0) /\ Len(Append(s, x)) = Len(s) + 1
         /\ Append(s, x)[Len(s) + 1] = x
<1>1. PICK S : s \in Seq(S)
  BY DEF IsList
<1>2. PICK T : T = S \cup {x}
  OBVIOUS
<1>3. s \in Seq(T) /\ x \in T
  BY <1>1, <1>2
<1>4. PICK t : t = Append(s, x)
  OBVIOUS
<1>5. t \in Seq(T) /\ Len(t) = Len(s) + 1 /\ t[Len(s) + 1] = x /\ \A i \in 1..Len(s) : t[i] = s[i]
  BY <1>3, <1>4, AppendProperties
<1>6. Len(s) \in Nat
  BY ListIs
<1> QED  BY <1>4, <1>5, <1>6 DEF Extends, IsList

LEMMA ListChanged ==
  ASSUME NEW s, IsList(s), NEW k, k \in 1..Len(s), NEW x
  PROVE  Extends(s, [s EXCEPT ![k] = x], k) /\ Len([s EXCEPT ![k] = x]) = Len(s)
<1>1. PICK S : s \in Seq(S)
  BY DEF IsList
<1>2. PICK T : T = S \cup {x}
  OBVIOUS
<1>3. s \in Seq(T) /\ x \in T
  BY <1>1, <1>2
<1>4. PICK n \in Nat : n = Len(s) /\ DOMAIN s = 1..n /\ s \in [1..n -> T]
  BY <1>3, LenProperties
<1>5. PICK t : t = [s EXCEPT ![k] = x]
  OBVIOUS
<1>6. t \in [1..n -> T] /\ \A i \in 1..n : i # k => t[i] = s[i]
  BY <1>3, <1>4, <1>5
<1>7. t \in Seq(T) /\ Len(t) = n
  BY <1>4, <1>6, SeqDef, LenProperties
<1> QED  BY <1>4, <1>5, <1>6, <1>7 DEF Extends, IsList

LEMMA ExtendsTransitive ==
  ASSUME NEW s, NEW t, NEW u, NEW k, IsList(s), Extends(s, t, 0), Extends(t, u, k)
  PROVE  Extends(s, u, k)
<1>1. Len(s) \in Nat /\ Len(t) \in Nat /\ Len(u) \in Nat
  BY ListIs DEF Extends
<1>2. ASSUME NEW i \in 1..Len(s), i # k PROVE u[i] = s[i]
  <2>1. i \in 1..Len(t) /\ i # 0
    BY <1>1 DEF Extends
  <2> QED  BY <1>2, <2>1 DEF Extends
<1> QED  BY <1>1, <1>2 DEF Extends

IsLayout(m) ==
  /\ m = [dbu |-> m.dbu, libname |-> m.libname, prop |-> m.prop, layers |-> m.layers, cells |-> m.cells]
  /\ IsList(m.layers) /\ IsList(m.cells)

\* The same tables.
Alike(m, n) == IsLayout(n) /\ n.layers = m.layers /\ n.cells = m.cells

LEMMA HeaderReplaced ==
  ASSUME NEW m, IsLayout(m), NEW x
  PROVE  Alike(m, [m EXCEPT !.dbu = x]) /\ Alike(m, [m EXCEPT !.libname = x]) /\ Alike(m, [m EXCEPT !.prop = x])
<1>1. Alike(m, [m EXCEPT !.dbu = x])
  <2>1. PICK n : n = [m EXCEPT !.dbu = x]
    OBVIOUS
  <2>2. n = [dbu |-> x, libname |-> m.libname, prop |-> m.prop, layers |-> m.layers, cells |-> m.cells]
    BY <2>1 DEF IsLayout
  <2> QED  BY <2>1, <2>2 DEF IsLayout, Alike
<1>2. Alike(m, [m EXCEPT !.libname = x])
  <2>1. PICK n : n = [m EXCEPT !.libname = x]
    OBVIOUS
  <2>2. n = [dbu |-> m.dbu, libname |-> x, prop |-> m.prop, layers |-> m.layers, cells |-> m.cells]
    BY <2>1 DEF IsLayout
  <2> QED  BY <2>1, <2>2 DEF IsLayout, Alike
<1>3. Alike(m, [m EXCEPT !.prop = x])
  <2>1. PICK n : n = [m EXCEPT !.prop = x]
    OBVIOUS
  <2>2. n = [dbu |-> m.dbu, libname |-> m.libname, prop |-> x, layers |-> m.layers, cells |-> m.cells]
    BY <2>1 DEF IsLayout
  <2> QED  BY <2>1, <2>2 DEF IsLayout, Alike
<1> QED  BY <1>1, <1>2, <1>3

LEMMA NewLayouts == IsLayout(NoLayout) /\ IsLayout(EmptyLayout) /\ NoLayout.layers = <<>> /\ NoLayout.cells = <<>>
<1>1. IsList(<<>>)
  <2>1. <<>> \in Seq({})
    OBVIOUS
  <2> QED  BY <2>1 DEF IsList
<1>2. NoLayout = [dbu |-> 0, libname |-> "", prop |-> {}, layers |-> <<>>, cells |-> <<>>]
  BY DEF NoLayout
<1>3. IsLayout(NoLayout)
  BY <1>1, <1>2 DEF IsLayout
<1>4. Alike(NoLayout, EmptyLayout)
  <2>1. PICK m : m = NoLayout
    OBVIOUS
  <2>2. PICK d : d = 1000
    OBVIOUS
  <2>3. Alike(m, [m EXCEPT !.dbu = d])
    BY <1>3, <2>1, HeaderReplaced
  <2> QED  BY <2>1, <2>2, <2>3 DEF EmptyLayout
<1> QED  BY <1>2, <1>3, <1>4 DEF Alike

\* n is m with further layers and cells, or another content of the k-th cell.
Grows(m, n, k) == IsLayout(n) /\ Extends(m.layers, n.layers, 0) /\ Extends(m.cells, n.cells, k)

LEMMA CellsReplaced ==
  ASSUME NEW m, IsLayout(m), NEW cells, NEW k, Extends(m.cells, cells, k)
  PROVE  Grows(m, [m EXCEPT !.cells = cells], k) /\ [m EXCEPT !.cells = cells].cells = cells
<1>1. PICK n : n = [m EXCEPT !.cells = cells]
  OBVIOUS
<1>2. n = [dbu |-> m.dbu, libname |-> m.libname, prop |-> m.prop, layers |-> m.layers, cells |-> cells]
  BY <1>1 DEF IsLayout
<1>3. IsLayout(n)
  BY <1>2 DEF IsLayout, Extends
<1>4. Len(m.layers) \in Nat
  BY ListIs DEF IsLayout
<1> QED  BY <1>1, <1>2, <1>3, <1>4 DEF Grows, Extends, IsLayout

LEMMA LayersReplaced ==
  ASSUME NEW m, IsLayout(m), NEW layers, Extends(m.layers, layers, 0)
  PROVE  Grows(m, [m EXCEPT !.layers = layers], 0)
<1>1. PICK n : n = [m EXCEPT !.layers = layers]
  OBVIOUS
<1>2. n = [dbu |-> m.dbu, libname |-> m.libname, prop |-> m.prop, layers |-> layers, cells |-> m.cells]
  BY <1>1 DEF IsLayout
<1>3. IsLayout(n)
  BY <1>2 DEF IsLayout, Extends
<1>4. Len(m.cells) \in Nat
  BY ListIs DEF IsLayout
<1> QED  BY <1>1, <1>2, <1>3, <1>4 DEF Grows, Extends, IsLayout

\* One cell of a layout gets another content.
LEMMA CellChanged ==
  ASSUME NEW m, IsLayout(m), NEW k, k \in 1..Len(m.cells), NEW x
  PROVE  Grows(m, [m EXCEPT !.cells = [@ EXCEPT ![k] = x]], k)
<1>1. PICK cells : cells = [m.cells EXCEPT ![k] = x]
  OBVIOUS
<1>2. Extends(m.cells, cells, k)
  BY <1>1, ListChanged DEF IsLayout
<1> QED  BY <1>1, <1>2, CellsReplaced

\* A cell is added.
LEMMA CellAdded ==
  ASSUME NEW m, IsLayout(m), NEW x
  PROVE  LET n == [m EXCEPT !.cells = Append(@, x)] IN
         Grows(m, n, 0) /\ Len(n.cells) = Len(m.cells) + 1 /\ n.cells[Len(m.cells) + 1] = x
<1>1. PICK cells : cells = Append(m.cells, x)
  OBVIOUS
<1>2. Extends(m.cells, cells, 0) /\ Len(cells) = Len(m.cells) + 1 /\ cells[Len(m.cells) + 1] = x
  BY <1>1, ListAppended DEF IsLayout
<1> QED  BY <1>1, <1>2, CellsReplaced

\* LayerMapper adds a layer, or finds it among those it has added.
LEMMA LayerFound ==
  ASSUME NEW m, IsLayout(m), NEW spec
  PROVE  Grows(m, WithLayer(m, spec), 0) /\ WithLayer(m, spec).cells = m.cells
<1>1. CASE spec.ld \in DOMAIN rd.layers
  <2>1. WithLayer(m, spec) = m
    BY <1>1 DEF WithLayer
  <2>2. Len(m.cells) \in Nat /\ Len(m.layers) \in Nat
    BY ListIs DEF IsLayout
  <2> QED  BY <2>1, <2>2 DEF Grows, Extends, IsLayout
<1>2. CASE spec.ld \notin DOMAIN rd.layers
  <2>1. PICK layers : layers = Append(m.layers, spec)
    OBVIOUS
  <2>2. Extends(m.layers, layers, 0)
    BY <2>1, ListAppended DEF IsLayout
  <2>3. WithLayer(m, spec) = [m EXCEPT !.layers = layers]
    BY <1>2, <2>1 DEF WithLayer
  <2>4. [m EXCEPT !.layers = layers].cells = m.cells
    BY DEF IsLayout
  <2> QED  BY <2>2, <2>3, <2>4, LayersReplaced
<1> QED  BY <1>1, <1>2

-----------------------------------------------------------------------------
(* What a read may touch                                                   *)

\* The layers and the cells of b are still there, but for its ghost cells.
Untouched(m, b) ==
  /\ Len(b.layers) <= Len(m.layers) /\ Len(b.cells) <= Len(m.cells)
  /\ \A l \in 1..Len(b.layers) : m.layers[l] = b.layers[l]
  /\ \A i \in 1..Len(b.cells) : ~IsRealGhost(b.cells[i]) => m.cells[i] = b.cells[i]

\* A cell that is new, or was a ghost cell without content.
Free(k, m, b) == k \in 1..Len(m.cells) /\ (k <= Len(b.cells) => IsRealGhost(b.cells[k]))

\* The names of the file stand for such cells.
NamesFree(names, m, b) == \A x \in DOMAIN names : Free(names[x], m, b)

\* The cells of b are all still there, and the others are no ghost cells.
Unchanged(m, b) ==
  /\ \A i \in 1..Len(b.cells) : m.cells[i] = b.cells[i]
  /\ \A i \in 1..Len(m.cells) : i > Len(b.cells) => m.cells[i].ghost = FALSE

LEMMA UntouchedGrows ==
  ASSUME NEW m, NEW n, NEW b, NEW k, IsLayout(m), IsLayout(b), Untouched(m, b), Grows(m, n, k),
         k = 0 \/ Free(k, m, b)
  PROVE  IsLayout(n) /\ Untouched(n, b)
<1>1. /\ Len(m.layers) \in Nat /\ Len(m.cells) \in Nat /\ Len(b.layers) \in Nat /\ Len(b.cells) \in Nat
      /\ Len(n.layers) \in Nat /\ Len(n.cells) \in Nat
  BY ListIs DEF IsLayout, Grows
<1>2. Len(b.layers) <= Len(n.layers) /\ Len(b.cells) <= Len(n.cells)
  BY <1>1 DEF Untouched, Grows, Extends
<1>3. ASSUME NEW l \in 1..Len(b.layers) PROVE n.layers[l] = b.layers[l]
  <2>1. l \in 1..Len(m.layers) /\ l # 0
    BY <1>1 DEF Untouched
  <2> QED  BY <2>1 DEF Untouched, Grows, Extends
<1>4. ASSUME NEW i \in 1..Len(b.cells), ~IsRealGhost(b.cells[i]) PROVE n.cells[i] = b.cells[i]
  <2>1. i \in 1..Len(m.cells) /\ i <= Len(b.cells) /\ i # 0
    BY <1>1 DEF Untouched
  <2>2. i # k
    BY <1>4, <2>1 DEF Free
  <2> QED  BY <1>4, <2>1, <2>2 DEF Untouched, Grows, Extends
<1> QED  BY <1>2, <1>3, <1>4 DEF Untouched, Grows

LEMMA FreeGrows ==
  ASSUME NEW m, NEW n, NEW b, NEW k, IsLayout(m), Grows(m, n, k), NEW names, NamesFree(names, m, b)
  PROVE  NamesFree(names, n, b)
<1>1. Len(m.cells) \in Nat /\ Len(n.cells) \in Nat /\ Len(m.cells) <= Len(n.cells)
  BY ListIs DEF IsLayout, Grows, Extends
<1> QED  BY <1>1 DEF NamesFree, Free

LEMMA UntouchedIs == Untouched(mem, before) /\ IsLayout(before) => OthersUntouched
<1> SUFFICES ASSUME Untouched(mem, before), IsLayout(before) PROVE OthersUntouched
  OBVIOUS
<1>1. DOMAIN before.layers = 1..Len(before.layers) /\ DOMAIN before.cells = 1..Len(before.cells)
  BY ListIs DEF IsLayout
<1>2. ASSUME NEW i \in DOMAIN before.cells,
             ~before.cells[i].ghost \/ before.cells[i].shapes # <<>> \/ before.cells[i].insts # <<>>
      PROVE  mem.cells[i] = before.cells[i]
  <2>1. ~IsRealGhost(before.cells[i])
    BY <1>2 DEF IsRealGhost
  <2> QED  BY <1>1, <2>1 DEF Untouched
<1> QED  BY <1>1, <1>2 DEF Untouched, OthersUntouched

-----------------------------------------------------------------------------
(* The inductive invariant                                                 *)

Places == {"idle", "add", "cell", "shapes", "insts", "done", "failed"}

ReaderInv ==
  /\ rd = [at |-> rd.at, fresh |-> rd.fresh, cell |-> rd.cell, k |-> rd.k, names |-> rd.names, layers |-> rd.layers]
  /\ rd.at \in Places /\ rd.cell \in Nat /\ rd.k \in Nat

\* While cells are added, they have the names of the file so far.
AddInv ==
  rd.at = "add" =>
    /\ rd.k \in Nat \ {0} /\ Unchanged(mem, before)
    /\ \A j \in 1..Len(file.cells) : j < rd.k => file.cells[j].name \in DOMAIN rd.names

\* Then each cell of the file has its place in the layout.
CellInv ==
  /\ rd.at \in {"cell", "shapes", "insts"} =>
       rd.cell \in Nat \ {0} /\ \A j \in 1..Len(file.cells) : file.cells[j].name \in DOMAIN rd.names
  /\ rd.at \in {"shapes", "insts"} => rd.cell <= Len(file.cells)

IInv ==
  /\ IsLayout(mem) /\ IsLayout(before) /\ IsList(file.cells)
  /\ Untouched(mem, before) /\ NamesFree(rd.names, mem, before)
  /\ ReaderInv /\ AddInv /\ CellInv

LEMMA InitIs == Init => IInv
<1> SUFFICES ASSUME Init PROVE IInv
  OBVIOUS
<1>1. PICK start \in Starts : mem = start.mem /\ file = start.file
  BY DEF Init
<1>2. IsLayout(mem) /\ IsList(file.cells)
  <2>1. /\ mem = [dbu |-> mem.dbu, libname |-> mem.libname, prop |-> mem.prop, layers |-> mem.layers, cells |-> mem.cells]
        /\ IsTable(mem.layers) /\ IsTable(mem.cells) /\ IsTable(file.cells)
    BY <1>1, StartsAssumption
  <2> QED  BY <2>1 DEF IsLayout, IsList, IsTable
<1>3. before = NoLayout /\ IsLayout(before) /\ Len(before.layers) = 0 /\ Len(before.cells) = 0
  BY NewLayouts DEF Init
<1>4. Len(mem.layers) \in Nat /\ Len(mem.cells) \in Nat
  BY <1>2, ListIs DEF IsLayout
<1>5. Untouched(mem, before)
  BY <1>3, <1>4 DEF Untouched
<1>6. rd = [at |-> "idle", fresh |-> TRUE, cell |-> 0, k |-> 0, names |-> EmptyMap, layers |-> EmptyMap]
  BY DEF Init, NotReading
<1>7. NamesFree(rd.names, mem, before)
  BY <1>6 DEF NamesFree, EmptyMap
<1>8. ReaderInv /\ AddInv /\ CellInv
  BY <1>6 DEF ReaderInv, Places, AddInv, CellInv
<1> QED  BY <1>2, <1>3, <1>5, <1>7, <1>8 DEF IInv

-----------------------------------------------------------------------------
(* Saving, and the begin of a read                                         *)

\* A read begins with a target and no names.
LEMMA Started ==
  ASSUME IsLayout(before'), Alike(before', mem'), IsList(file'.cells), ReaderInv',
         rd'.names = EmptyMap, rd'.at \in {"idle", "add", "done", "failed"}, rd'.at = "add" => rd'.k = 1
  PROVE  IInv'
<1>1. Len(before'.layers) \in Nat /\ Len(before'.cells) \in Nat
  BY ListIs DEF IsLayout
<1>2. Untouched(mem', before')
  BY <1>1 DEF Untouched, Alike
<1>3. NamesFree(rd'.names, mem', before')
  BY DEF NamesFree, EmptyMap
<1>4. Unchanged(mem', before')
  <2>1. \A i \in 1..Len(before'.cells) : ~(i > Len(before'.cells))
    BY <1>1
  <2> QED  BY <2>1 DEF Unchanged, Alike
<1>5. AddInv'
  <2>1. rd'.at = "add" => \A j \in 1..Len(file'.cells) : ~(j < 1)
    <3>1. Len(file'.cells) \in Nat
      BY ListIs
    <3> QED  BY <3>1
  <2> QED  BY <1>4, <2>1 DEF AddInv
<1>6. CellInv'
  BY DEF CellInv
<1> QED  BY <1>2, <1>3, <1>5, <1>6 DEF IInv, Alike

LEMMA TargetIs ==
  ASSUME IsLayout(mem), NEW fresh
  PROVE  IsLayout(IF fresh THEN EmptyLayout ELSE mem)
<1>1. CASE fresh
  BY <1>1, NewLayouts
<1>2. CASE ~fresh
  BY <1>2
<1> QED  BY <1>1, <1>2

LEMMA SaveKeeps == ASSUME IInv, NEW option, NEW stem, Save(option, stem) PROVE IInv'
<1>1. PICK name : name = ResolveLibName(mem, option, stem)
  OBVIOUS
<1>2. mem' = [mem EXCEPT !.libname = name] /\ before' = NoLayout /\ rd' = NotReading
  BY <1>1 DEF Save
<1>3. IsLayout(mem')
  BY <1>2, HeaderReplaced DEF IInv, Alike
<1>4. IsList(file'.cells)
  <2>0. PICK m : m = mem'
    OBVIOUS
  <2>a. PICK s : s = Named(m.cells)
    OBVIOUS
  <2>b. PICK T : m.cells \in Seq(T)
    BY <1>3, <2>0 DEF IsLayout, IsList
  <2>c. s \in Seq(T)
    BY <2>a, <2>b, PartProperties DEF Named
  <2>1. file'.cells = [i \in DOMAIN s |-> WriteCell(m, s[i])]
    BY <2>0, <2>a DEF Save, FileOf
  <2>2. PICK n \in Nat : n = Len(s) /\ DOMAIN s = 1..n
    BY <2>c, LenProperties
  <2>3. PICK S : S = {WriteCell(m, s[i]) : i \in 1..n}
    OBVIOUS
  <2>4. file'.cells \in [1..n -> S]
    BY <2>1, <2>2, <2>3
  <2> QED  BY <2>2, <2>4, SeqDef DEF IsList
<1>5. IsLayout(before') /\ Len(before'.layers) = 0 /\ Len(before'.cells) = 0
  BY <1>2, NewLayouts
<1>6. Untouched(mem', before')
  <2>1. Len(mem'.layers) \in Nat /\ Len(mem'.cells) \in Nat
    BY <1>3, ListIs DEF IsLayout
  <2> QED  BY <1>5, <2>1 DEF Untouched
<1>7. rd' = [at |-> "idle", fresh |-> TRUE, cell |-> 0, k |-> 0, names |-> EmptyMap, layers |-> EmptyMap]
  BY <1>2 DEF NotReading
<1>8. NamesFree(rd'.names, mem', before')
  BY <1>7 DEF NamesFree, EmptyMap
<1>9. ReaderInv' /\ AddInv' /\ CellInv'
  BY <1>7 DEF ReaderInv, Places, AddInv, CellInv
<1> QED  BY <1>3, <1>4, <1>5, <1>6, <1>8, <1>9 DEF IInv

LEMMA ReadNoCellsKeeps == ASSUME IInv, NEW fresh, ReadNoCells(fresh) PROVE IInv'
<1>1. PICK target : target = IF fresh THEN EmptyLayout ELSE mem
  OBVIOUS
<1>2. before' = target /\ mem' = target /\ file' = file /\ rd' = [NotReading EXCEPT !.at = "done", !.fresh = fresh]
  BY <1>1 DEF ReadNoCells
<1>3. rd' = [at |-> "done", fresh |-> fresh, cell |-> 0, k |-> 0, names |-> EmptyMap, layers |-> EmptyMap]
  BY <1>2 DEF NotReading
<1>4. IsLayout(target)
  BY <1>1, TargetIs DEF IInv
<1>5. IsLayout(before') /\ Alike(before', mem') /\ IsList(file'.cells)
  BY <1>2, <1>4 DEF Alike, IInv
<1>6. /\ ReaderInv' /\ rd'.names = EmptyMap /\ rd'.at \in {"idle", "add", "done", "failed"}
      /\ rd'.at = "add" => rd'.k = 1
  BY <1>3 DEF ReaderInv, Places
<1> QED  BY <1>5, <1>6, Started

LEMMA ReadHeaderKeeps == ASSUME IInv, NEW fresh, ReadHeader(fresh) PROVE IInv'
<1>1. PICK target : target = IF fresh THEN EmptyLayout ELSE mem
  OBVIOUS
<1>2. PICK lib : lib = IF file.name = "" THEN target.libname ELSE file.name
  OBVIOUS
<1>3. PICK named : named = [target EXCEPT !.dbu = FirstDbu, !.libname = lib]
  OBVIOUS
<1>4. IsLayout(target)
  BY <1>1, TargetIs DEF IInv
<1>5. Alike(target, named)
  <2>1. PICK m : m = [target EXCEPT !.dbu = FirstDbu]
    OBVIOUS
  <2>2. Alike(target, m)
    BY <1>4, <2>1, HeaderReplaced
  <2>3. IsLayout(m) /\ named = [m EXCEPT !.libname = lib]
    BY <1>3, <2>1, <2>2 DEF Alike
  <2>4. Alike(m, named)
    BY <2>3, HeaderReplaced
  <2> QED  BY <2>2, <2>4 DEF Alike
<1>6. PICK prop : prop = IF PropertiesIdFromCore(file.prop) = {} THEN named.prop ELSE PropertiesIdFromCore(file.prop)
  OBVIOUS
<1>7. /\ before' = target /\ file' = file
      /\ \/ mem' = named /\ rd' = [NotReading EXCEPT !.at = "failed", !.fresh = fresh]
         \/ mem' = [named EXCEPT !.prop = prop] /\ rd' = [NotReading EXCEPT !.at = "add", !.fresh = fresh, !.k = 1]
  BY <1>1, <1>2, <1>3, <1>6 DEF ReadHeader
<1>8. IsLayout(before') /\ Alike(before', mem') /\ IsList(file'.cells)
  <2>1. Alike(named, [named EXCEPT !.prop = prop])
    BY <1>5, HeaderReplaced DEF Alike
  <2>2. Alike(target, mem')
    BY <1>5, <1>7, <2>1 DEF Alike
  <2> QED  BY <1>4, <1>7, <2>2 DEF IInv
<1>9. \/ rd' = [at |-> "failed", fresh |-> fresh, cell |-> 0, k |-> 0, names |-> EmptyMap, layers |-> EmptyMap]
      \/ rd' = [at |-> "add", fresh |-> fresh, cell |-> 0, k |-> 1, names |-> EmptyMap, layers |-> EmptyMap]
  BY <1>7 DEF NotReading
<1>10. /\ ReaderInv' /\ rd'.names = EmptyMap /\ rd'.at \in {"idle", "add", "done", "failed"}
       /\ rd'.at = "add" => rd'.k = 1
  BY <1>9 DEF ReaderInv, Places
<1> QED  BY <1>8, <1>10, Started

-----------------------------------------------------------------------------
(* The steps of a read                                                     *)

\* The layout grows, at most at a free place.
Reads(m, n) == \E k : Grows(m, n, k) /\ (k = 0 \/ Free(k, m, before))

LEMMA ReadsNothing == ASSUME NEW m, IsLayout(m) PROVE Reads(m, m)
<1>1. Len(m.cells) \in Nat /\ Len(m.layers) \in Nat
  BY ListIs DEF IsLayout
<1>2. Grows(m, m, 0)
  BY <1>1 DEF Grows, Extends, IsLayout
<1> QED  BY <1>2 DEF Reads

\* Once the cells are added, a step of the reader that only reads keeps the invariant.
LEMMA StepKeeps ==
  ASSUME IInv, rd.at \in {"cell", "shapes", "insts"}, Reads(mem, mem'), before' = before, file' = file,
         ReaderInv', rd'.names = rd.names,
         \/ rd'.at \in {"done", "failed"}
         \/ rd'.at = "cell" /\ rd'.cell \in Nat \ {0}
         \/ rd'.at \in {"shapes", "insts"} /\ rd'.cell = rd.cell /\ rd.cell <= Len(file.cells)
  PROVE  IInv'
<1>1. PICK n : n = mem'
  OBVIOUS
<1>2. PICK k : Grows(mem, n, k) /\ (k = 0 \/ Free(k, mem, before))
  BY <1>1 DEF Reads
<1>3. IsLayout(n) /\ Untouched(n, before)
  BY <1>2, UntouchedGrows DEF IInv
<1>4. NamesFree(rd.names, n, before)
  BY <1>2, FreeGrows DEF IInv
<1>5. IsLayout(mem') /\ IsLayout(before') /\ IsList(file'.cells) /\ Untouched(mem', before')
  BY <1>1, <1>3 DEF IInv
<1>6. NamesFree(rd'.names, mem', before')
  BY <1>1, <1>4
<1>7. AddInv'
  BY DEF AddInv
<1>8. CellInv'
  BY DEF CellInv, IInv
<1> QED  BY <1>5, <1>6, <1>7, <1>8 DEF IInv

\* The cell that is read is one that the read may change.
LEMMA TargetFree ==
  ASSUME IInv, rd.at \in {"cell", "shapes", "insts"}, rd.cell <= Len(file.cells)
  PROVE  Free(TargetIndex, mem, before)
<1>1. rd.cell \in 1..Len(file.cells)
  <2>1. Len(file.cells) \in Nat
    BY ListIs DEF IInv
  <2> QED  BY <2>1 DEF IInv, CellInv
<1>2. FileCell.name \in DOMAIN rd.names
  BY <1>1 DEF IInv, CellInv, FileCell
<1> QED  BY <1>2 DEF IInv, NamesFree, TargetIndex

\* Another content of the target, after a layer may have been added.
LEMMA TargetChanged ==
  ASSUME NEW m, IsLayout(m), NEW w, Grows(m, w, 0), w.cells = m.cells, NEW k, Free(k, m, before), NEW x
  PROVE  Reads(m, [w EXCEPT !.cells = [@ EXCEPT ![k] = x]])
<1>1. PICK n : n = [w EXCEPT !.cells = [@ EXCEPT ![k] = x]]
  OBVIOUS
<1>2. IsLayout(w) /\ k \in 1..Len(w.cells)
  BY DEF Free, Grows
<1>3. Grows(w, n, k)
  BY <1>1, <1>2, CellChanged
<1>4. Extends(m.layers, n.layers, 0)
  BY <1>3, ExtendsTransitive DEF Grows, IsLayout
<1>5. Grows(m, n, k)
  BY <1>3, <1>4 DEF Grows
<1> QED  BY <1>1, <1>5 DEF Reads

LEMMA AddCellKeeps == ASSUME IInv, AddCell PROVE IInv'
<1>1. PICK name : name = file.cells[rd.k].name
  OBVIOUS
<1>2. rd.at = "add" /\ rd.k <= Len(file.cells) /\ before' = before /\ file' = file
  BY DEF AddCell
<1>3. PICK i : /\ rd' = [rd EXCEPT !.k = @ + 1, !.names = Extended(@, name, i)]
               /\ \/ /\ \E c : mem' = [mem EXCEPT !.cells = Append(@, NewCell(c))]
                     /\ i = Len(mem.cells) + 1
                  \/ /\ name \in CellNames(mem) /\ IsRealGhost(mem.cells[IndexOf(mem, name)])
                     /\ i = IndexOf(mem, name) /\ mem' = mem
  BY <1>1 DEF AddCell
<1>4. Len(mem.cells) \in Nat /\ Len(before.cells) \in Nat /\ DOMAIN mem.cells = 1..Len(mem.cells)
      /\ Len(before.cells) <= Len(mem.cells)
  BY ListIs DEF IInv, IsLayout, Untouched
<1>5. PICK n : n = mem'
  OBVIOUS
<1>6. Unchanged(mem, before) /\ NamesFree(rd.names, mem, before)
  BY <1>2 DEF IInv, AddInv
<1>7. Grows(mem, n, 0) /\ Unchanged(n, before) /\ Free(i, n, before)
  <2>1. CASE n # mem \/ i = Len(mem.cells) + 1
    <3>1. PICK c : n = [mem EXCEPT !.cells = Append(@, NewCell(c))] /\ i = Len(mem.cells) + 1
      <4>1. IsRealGhost(mem.cells[IndexOf(mem, name)]) /\ name \in CellNames(mem) => IndexOf(mem, name) # Len(mem.cells) + 1
        <5>1. name \in CellNames(mem) => IndexOf(mem, name) \in 1..Len(mem.cells)
          BY <1>4 DEF CellNames, IndexOf
        <5> QED  BY <1>4, <5>1
      <4> QED  BY <1>3, <1>5, <2>1, <4>1
    <3>2. PICK x : x = NewCell(c)
      OBVIOUS
    <3>3. x.ghost = FALSE
      BY <3>2 DEF NewCell
    <3>4. Grows(mem, n, 0) /\ Len(n.cells) = Len(mem.cells) + 1 /\ n.cells[Len(mem.cells) + 1] = x
      BY <3>1, <3>2, CellAdded DEF IInv
    <3>5. \A j \in 1..Len(mem.cells) : n.cells[j] = mem.cells[j]
      BY <3>4 DEF Grows, Extends
    <3>6. \A j \in 1..Len(before.cells) : j \in 1..Len(mem.cells)
      BY <1>4
    <3>7. \A j \in 1..Len(n.cells) : j \in 1..Len(mem.cells) \/ j = Len(mem.cells) + 1
      BY <1>4, <3>4
    <3>8. Unchanged(n, before)
      BY <1>6, <3>3, <3>4, <3>5, <3>6, <3>7 DEF Unchanged
    <3>9. Free(i, n, before)
      BY <1>4, <3>1, <3>4 DEF Free
    <3> QED  BY <3>4, <3>8, <3>9
  <2>2. CASE n = mem /\ i # Len(mem.cells) + 1
    <3>1. name \in CellNames(mem) /\ IsRealGhost(mem.cells[i]) /\ i = IndexOf(mem, name)
      BY <1>3, <2>2
    <3>2. i \in 1..Len(mem.cells)
      BY <1>4, <3>1 DEF CellNames, IndexOf
    <3>3. i <= Len(before.cells) => mem.cells[i] = before.cells[i]
      BY <1>4, <1>6, <3>2 DEF Unchanged
    <3>4. Grows(mem, mem, 0)
      <4>1. Len(mem.layers) \in Nat
        BY ListIs DEF IInv, IsLayout
      <4> QED  BY <1>4, <4>1 DEF IInv, IsLayout, Grows, Extends
    <3> QED  BY <1>6, <2>2, <3>1, <3>2, <3>3, <3>4 DEF Free
  <2> QED  BY <2>1, <2>2
<1>8. IsLayout(n) /\ Untouched(n, before)
  BY <1>7, UntouchedGrows DEF IInv
<1>9. NamesFree(rd.names, n, before)
  BY <1>6, <1>7, FreeGrows DEF IInv
<1>10. PICK names : names = Extended(rd.names, name, i)
  OBVIOUS
<1>11. NamesFree(names, n, before) /\ DOMAIN names = DOMAIN rd.names \cup {name}
  BY <1>7, <1>9, <1>10 DEF NamesFree, Extended
<1>12. rd' = [at |-> "add", fresh |-> rd.fresh, cell |-> rd.cell, k |-> rd.k + 1, names |-> names, layers |-> rd.layers]
  BY <1>2, <1>3, <1>10 DEF IInv, ReaderInv
<1>13. rd.k \in Nat \ {0} /\ rd.cell \in Nat
  BY <1>2 DEF IInv, AddInv, ReaderInv
<1>14. ReaderInv'
  BY <1>12, <1>13 DEF ReaderInv, Places
<1>15. ASSUME NEW j \in 1..Len(file.cells), j < rd.k + 1 PROVE file.cells[j].name \in DOMAIN names
  <2>1. j = rd.k \/ j < rd.k
    <3>1. Len(file.cells) \in Nat
      BY ListIs DEF IInv
    <3> QED  BY <1>13, <1>15, <3>1
  <2> QED  BY <1>1, <1>2, <1>11, <2>1 DEF IInv, AddInv
<1>16. AddInv'
  <2>1. rd'.k = rd.k + 1 /\ rd'.names = names /\ rd'.k \in Nat \ {0}
    BY <1>12, <1>13
  <2>2. Unchanged(mem', before')
    BY <1>2, <1>5, <1>7
  <2> QED  BY <1>2, <1>15, <2>1, <2>2 DEF AddInv
<1>17. CellInv'
  BY <1>12 DEF CellInv
<1>18. IsLayout(mem') /\ IsLayout(before') /\ IsList(file'.cells) /\ Untouched(mem', before')
  BY <1>2, <1>5, <1>8 DEF IInv
<1>19. NamesFree(rd'.names, mem', before')
  BY <1>2, <1>5, <1>11, <1>12
<1> QED  BY <1>14, <1>16, <1>17, <1>18, <1>19 DEF IInv

LEMMA CellsAddedKeeps == ASSUME IInv, CellsAdded PROVE IInv'
<1>1. /\ rd.at = "add" /\ rd.k > Len(file.cells) /\ before' = before /\ file' = file /\ mem' = mem
      /\ rd' = [rd EXCEPT !.at = "cell", !.cell = 1, !.k = 1]
  BY DEF CellsAdded, Goto
<1>2. rd' = [at |-> "cell", fresh |-> rd.fresh, cell |-> 1, k |-> 1, names |-> rd.names, layers |-> rd.layers]
  BY <1>1 DEF IInv, ReaderInv
<1>3. ASSUME NEW j \in 1..Len(file.cells) PROVE file.cells[j].name \in DOMAIN rd.names
  <2>1. Len(file.cells) \in Nat /\ rd.k \in Nat
    BY <1>1, ListIs DEF IInv, ReaderInv
  <2>2. j < rd.k
    BY <1>1, <2>1
  <2> QED  BY <1>1, <2>2 DEF IInv, AddInv
<1>4. ReaderInv' /\ AddInv'
  BY <1>2 DEF ReaderInv, Places, AddInv
<1>5. CellInv'
  BY <1>1, <1>2, <1>3 DEF CellInv
<1>6. IsLayout(mem') /\ IsLayout(before') /\ IsList(file'.cells) /\ Untouched(mem', before')
  BY <1>1 DEF IInv
<1>7. NamesFree(rd'.names, mem', before')
  BY <1>1, <1>2 DEF IInv
<1> QED  BY <1>4, <1>5, <1>6, <1>7 DEF IInv

LEMMA BeginCellKeeps == ASSUME IInv, BeginCell PROVE IInv'
<1>1. /\ rd.at = "cell" /\ rd.cell <= Len(file.cells) /\ rd.cell \in Nat
      /\ before' = before /\ file' = file
  BY DEF BeginCell, IInv, ReaderInv
<1>2. PICK k : k = TargetIndex
  OBVIOUS
<1>3. Free(k, mem, before) /\ IsLayout(mem)
  BY <1>1, <1>2, TargetFree DEF IInv
<1>4. \/ rd' = [rd EXCEPT !.at = "cell", !.cell = rd.cell + 1, !.k = 1] /\ mem' = mem
      \/ rd' = [rd EXCEPT !.at = "failed"] /\ mem' = mem
      \/ rd' = [rd EXCEPT !.at = "shapes", !.cell = rd.cell, !.k = 1] /\ ApplyCoreProperties
  BY DEF BeginCell, Goto, Fails
<1>5. Reads(mem, mem')
  <2>1. CASE mem' = mem
    BY <1>3, <2>1, ReadsNothing
  <2>2. CASE ApplyCoreProperties
    <3>1. PICK x : mem' = [mem EXCEPT !.cells[k].prop = x]
      BY <1>2, <2>2 DEF ApplyCoreProperties
    <3>2. PICK cell : cell = [mem.cells[k] EXCEPT !.prop = x]
      OBVIOUS
    <3>3. mem' = [mem EXCEPT !.cells = [@ EXCEPT ![k] = cell]]
      BY <3>1, <3>2
    <3>4. Grows(mem, mem, 0)
      <4>1. Len(mem.cells) \in Nat /\ Len(mem.layers) \in Nat
        BY <1>3, ListIs DEF IsLayout
      <4> QED  BY <1>3, <4>1 DEF Grows, Extends, IsLayout
    <3>5. Reads(mem, [mem EXCEPT !.cells = [@ EXCEPT ![k] = cell]])
      BY <1>3, <3>4, TargetChanged
    <3> QED  BY <3>3, <3>5
  <2> QED  BY <1>4, <2>1, <2>2
<1>6. PICK at, cell, j : /\ rd' = [at |-> at, fresh |-> rd.fresh, cell |-> cell, k |-> j, names |-> rd.names, layers |-> rd.layers]
                         /\ j \in Nat
                         /\ \/ at = "cell" /\ cell = rd.cell + 1
                            \/ at = "failed" /\ cell = rd.cell
                            \/ at = "shapes" /\ cell = rd.cell
  BY <1>4 DEF IInv, ReaderInv
<1>7. ReaderInv' /\ rd'.names = rd.names
  BY <1>1, <1>6 DEF ReaderInv, Places
<1>8. \/ rd'.at \in {"done", "failed"}
      \/ rd'.at = "cell" /\ rd'.cell \in Nat \ {0}
      \/ rd'.at \in {"shapes", "insts"} /\ rd'.cell = rd.cell /\ rd.cell <= Len(file.cells)
  BY <1>1, <1>6
<1>9. rd.at \in {"cell", "shapes", "insts"}
  BY <1>1
<1> QED  BY <1>1, <1>5, <1>7, <1>8, <1>9, StepKeeps

\* A step that stays in the cell, or fails.
LEMMA StayKeeps ==
  ASSUME IInv, rd.at \in {"shapes", "insts"}, Reads(mem, mem'), before' = before, file' = file,
         NEW at, at \in {rd.at, "insts", "failed"}, NEW k, k \in Nat, NEW layers,
         rd' = [at |-> at, fresh |-> rd.fresh, cell |-> rd.cell, k |-> k, names |-> rd.names, layers |-> layers]
  PROVE  IInv'
<1>1. rd.cell <= Len(file.cells) /\ rd.cell \in Nat
  BY DEF IInv, CellInv, ReaderInv
<1>2. ReaderInv' /\ rd'.names = rd.names
  BY <1>1 DEF ReaderInv, Places
<1>3. \/ rd'.at \in {"done", "failed"}
      \/ rd'.at = "cell" /\ rd'.cell \in Nat \ {0}
      \/ rd'.at \in {"shapes", "insts"} /\ rd'.cell = rd.cell /\ rd.cell <= Len(file.cells)
  BY <1>1
<1>4. rd.at \in {"cell", "shapes", "insts"}
  OBVIOUS
<1> QED  BY <1>2, <1>3, <1>4, StepKeeps

LEMMA ReadShapeKeeps == ASSUME IInv, ReadShape PROVE IInv'
<1>1. PICK shape : shape = FileCell.shapes[rd.k]
  OBVIOUS
<1>2. PICK spec : spec = LayerSpecById(shape.id)
  OBVIOUS
<1>3. PICK layers : layers = Extended(rd.layers, spec.ld, LayerIndex(spec))
  OBVIOUS
<1>4. PICK w : w = WithLayer(mem, spec)
  OBVIOUS
<1>5. /\ rd.at = "shapes" /\ before' = before /\ file' = file
      /\ \/ rd' = [rd EXCEPT !.at = "failed"]
         \/ rd' = [rd EXCEPT !.at = "shapes", !.k = @ + 1]
         \/ rd' = [rd EXCEPT !.at = "failed", !.layers = layers]
         \/ rd' = [rd EXCEPT !.k = @ + 1, !.layers = layers]
      /\ mem' = mem \/ mem' = w \/ mem' = InsertShape(w, shape, spec)
  BY <1>1, <1>2, <1>3, <1>4 DEF ReadShape, Fails, Continue
<1>6. IsLayout(mem) /\ Grows(mem, w, 0) /\ w.cells = mem.cells
  BY <1>4, LayerFound DEF IInv
<1>7. PICK k : k = TargetIndex
  OBVIOUS
<1>8. Free(k, mem, before)
  BY <1>5, <1>7, TargetFree DEF IInv, CellInv
<1>9. Reads(mem, mem')
  <2>1. CASE mem' = mem
    BY <1>6, <2>1, ReadsNothing
  <2>2. CASE mem' = w
    BY <1>6, <2>2 DEF Reads
  <2>3. CASE mem' = InsertShape(w, shape, spec)
    <3>1. PICK s : s = [layer |-> LayerIndex(spec), kind |-> ReadAs(shape.kind), prop |-> PropertiesIdFromCore(shape.prop)]
      OBVIOUS
    <3>2. PICK cell : cell = [w.cells[k] EXCEPT !.shapes = Append(@, s)]
      OBVIOUS
    <3>3. mem' = [w EXCEPT !.cells[k].shapes = Append(@, s)]
      BY <1>7, <2>3, <3>1 DEF InsertShape
    <3>4. mem' = [w EXCEPT !.cells = [@ EXCEPT ![k] = cell]]
      BY <3>2, <3>3
    <3>5. Reads(mem, [w EXCEPT !.cells = [@ EXCEPT ![k] = cell]])
      BY <1>6, <1>8, TargetChanged
    <3> QED  BY <3>4, <3>5
  <2> QED  BY <1>5, <2>1, <2>2, <2>3
<1>10. PICK at, j, ls :
         /\ rd' = [at |-> at, fresh |-> rd.fresh, cell |-> rd.cell, k |-> j, names |-> rd.names, layers |-> ls]
         /\ at \in {"shapes", "failed"} /\ j \in Nat
  <2>1. rd.k + 1 \in Nat /\ rd.k \in Nat
    BY DEF IInv, ReaderInv
  <2> QED  BY <1>5, <2>1 DEF IInv, ReaderInv
<1>11. rd.at \in {"shapes", "insts"} /\ at \in {rd.at, "insts", "failed"}
  BY <1>5, <1>10
<1> QED  BY <1>5, <1>9, <1>10, <1>11, StayKeeps

LEMMA ReadInstanceKeeps == ASSUME IInv, ReadInstance PROVE IInv'
<1>1. PICK inst : inst = FileCell.insts[rd.k]
  OBVIOUS
<1>2. PICK x : x = [cell |-> ChildIndex(inst.child), rot |-> inst.rot, at |-> inst.at,
                    n |-> 1, prop |-> PropertiesIdFromCore(inst.prop)]
  OBVIOUS
<1>3. PICK k : k = TargetIndex
  OBVIOUS
<1>4. /\ rd.at = "insts" /\ before' = before /\ file' = file
      /\ \/ rd' = [rd EXCEPT !.at = "failed"]
         \/ rd' = [rd EXCEPT !.at = "insts", !.k = @ + 1]
      /\ mem' = mem \/ mem' = [mem EXCEPT !.cells[k].insts = Append(@, x)]
  BY <1>1, <1>2, <1>3 DEF ReadInstance, Fails, Continue
<1>5. Free(k, mem, before) /\ IsLayout(mem)
  BY <1>3, <1>4, TargetFree DEF IInv, CellInv
<1>6. Reads(mem, mem')
  <2>1. CASE mem' = mem
    BY <1>5, <2>1, ReadsNothing
  <2>2. CASE mem' = [mem EXCEPT !.cells[k].insts = Append(@, x)]
    <3>1. PICK cell : cell = [mem.cells[k] EXCEPT !.insts = Append(@, x)]
      OBVIOUS
    <3>2. mem' = [mem EXCEPT !.cells = [@ EXCEPT ![k] = cell]]
      BY <2>2, <3>1
    <3>3. Grows(mem, mem, 0)
      <4>1. Len(mem.cells) \in Nat /\ Len(mem.layers) \in Nat
        BY <1>5, ListIs DEF IsLayout
      <4> QED  BY <1>5, <4>1 DEF Grows, Extends, IsLayout
    <3>4. Reads(mem, [mem EXCEPT !.cells = [@ EXCEPT ![k] = cell]])
      BY <1>5, <3>3, TargetChanged
    <3> QED  BY <3>2, <3>4
  <2> QED  BY <1>4, <2>1, <2>2
<1>7. PICK at, j :
        /\ rd' = [at |-> at, fresh |-> rd.fresh, cell |-> rd.cell, k |-> j, names |-> rd.names, layers |-> rd.layers]
        /\ at \in {"insts", "failed"} /\ j \in Nat
  <2>1. rd.k + 1 \in Nat /\ rd.k \in Nat
    BY DEF IInv, ReaderInv
  <2> QED  BY <1>4, <2>1 DEF IInv, ReaderInv
<1>8. rd.at \in {"shapes", "insts"} /\ at \in {rd.at, "insts", "failed"}
  BY <1>4, <1>7
<1> QED  BY <1>4, <1>6, <1>7, <1>8, StayKeeps

LEMMA ShapesReadKeeps == ASSUME IInv, ShapesRead PROVE IInv'
<1>1. /\ rd.at = "shapes" /\ before' = before /\ file' = file /\ mem' = mem
      /\ rd' = [rd EXCEPT !.at = "insts", !.cell = rd.cell, !.k = 1]
  BY DEF ShapesRead, Goto
<1>2. rd' = [at |-> "insts", fresh |-> rd.fresh, cell |-> rd.cell, k |-> 1, names |-> rd.names, layers |-> rd.layers]
  BY <1>1 DEF IInv, ReaderInv
<1>3. Reads(mem, mem')
  BY <1>1, ReadsNothing DEF IInv
<1>4. rd.at \in {"shapes", "insts"} /\ "insts" \in {rd.at, "insts", "failed"} /\ 1 \in Nat
  BY <1>1
<1> QED  BY <1>1, <1>2, <1>3, <1>4, StayKeeps

LEMMA CellReadKeeps == ASSUME IInv, CellRead \/ ReadDone PROVE IInv'
<1>1. /\ rd.at \in {"cell", "insts"} /\ before' = before /\ file' = file /\ mem' = mem
      /\ \/ rd' = [rd EXCEPT !.at = "cell", !.cell = rd.cell + 1, !.k = 1]
         \/ rd' = [rd EXCEPT !.at = "done"]
  BY DEF CellRead, ReadDone, Goto
<1>2. rd.cell + 1 \in Nat \ {0} /\ rd.cell \in Nat /\ rd.k \in Nat
  BY DEF IInv, ReaderInv
<1>3. Reads(mem, mem')
  BY <1>1, ReadsNothing DEF IInv
<1>4. ReaderInv' /\ rd'.names = rd.names /\ (rd'.at = "done" \/ (rd'.at = "cell" /\ rd'.cell \in Nat \ {0}))
  <2>1. CASE rd' = [rd EXCEPT !.at = "cell", !.cell = rd.cell + 1, !.k = 1]
    <3>1. rd' = [at |-> "cell", fresh |-> rd.fresh, cell |-> rd.cell + 1, k |-> 1, names |-> rd.names, layers |-> rd.layers]
      BY <2>1 DEF IInv, ReaderInv
    <3> QED  BY <1>2, <3>1 DEF ReaderInv, Places
  <2>2. CASE rd' = [rd EXCEPT !.at = "done"]
    <3>1. rd' = [at |-> "done", fresh |-> rd.fresh, cell |-> rd.cell, k |-> rd.k, names |-> rd.names, layers |-> rd.layers]
      BY <2>2 DEF IInv, ReaderInv
    <3> QED  BY <1>2, <3>1 DEF ReaderInv, Places
  <2> QED  BY <1>1, <2>1, <2>2
<1>5. rd.at \in {"cell", "shapes", "insts"}
  BY <1>1
<1> QED  BY <1>1, <1>3, <1>4, <1>5, StepKeeps

-----------------------------------------------------------------------------
(* What a read leaves as it is                                             *)

LEMMA InvKept == ASSUME IInv, [Next]_vars PROVE IInv'
<1>1. ASSUME NEW option \in LibNames \cup {""}, NEW stem \in Stems, Save(option, stem) PROVE IInv'
  BY <1>1, SaveKeeps
<1>2. ASSUME NEW fresh \in BOOLEAN, ReadNoCells(fresh) \/ ReadHeader(fresh) PROVE IInv'
  BY <1>2, ReadNoCellsKeeps, ReadHeaderKeeps
<1>3. CASE AddCell
  BY <1>3, AddCellKeeps
<1>4. CASE CellsAdded
  BY <1>4, CellsAddedKeeps
<1>5. CASE BeginCell
  BY <1>5, BeginCellKeeps
<1>6. CASE ReadShape
  BY <1>6, ReadShapeKeeps
<1>7. CASE ShapesRead
  BY <1>7, ShapesReadKeeps
<1>8. CASE ReadInstance
  BY <1>8, ReadInstanceKeeps
<1>9. CASE CellRead \/ ReadDone
  BY <1>9, CellReadKeeps
<1>10. CASE UNCHANGED vars
  BY <1>10 DEF vars, IInv, Untouched, NamesFree, Free, ReaderInv, AddInv, Unchanged, CellInv
<1> QED  BY <1>1, <1>2, <1>3, <1>4, <1>5, <1>6, <1>7, <1>8, <1>9, <1>10 DEF Next, ReadStep

\* Whatever a read adds, and wherever it fails, it leaves the layers and the cells
\* that were there as they are, but for ghost cells without content, which it takes
\* over (coreReader.cc do_read, with Layout::add_cell and LayerMapper).
THEOREM ReadLeavesOthers == Spec => []OthersUntouched
<1>1. IInv /\ [Next]_vars => IInv'
  BY InvKept
<1>2. IInv => OthersUntouched
  BY UntouchedIs DEF IInv
<1> QED  BY <1>1, <1>2, InitIs, PTL DEF Spec

-----------------------------------------------------------------------------
(* The number that makes a name unique                                     *)

LEMMA PowerOfTwoDef ==
  /\ PowerOfTwo[0] = 1
  /\ \A n \in 1..SuffixBits : PowerOfTwo[n] = 2 * PowerOfTwo[n - 1]
<1> DEFINE Body(f, n) == IF n = 0 THEN 1 ELSE 2 * f[n - 1]
           T == {n \in Nat : \E f : f = [i \in 0..n |-> Body(f, i)]}
<1>1. 0 \in T
  <2> DEFINE f == [i \in 0..0 |-> 1]
  <2>1. f = [i \in 0..0 |-> Body(f, i)]
    OBVIOUS
  <2> QED  BY <2>1
<1>2. ASSUME NEW n \in Nat, n \in T PROVE n + 1 \in T
  <2>1. PICK f : f = [i \in 0..n |-> Body(f, i)]
    BY <1>2
  <2> DEFINE g == [i \in 0..(n + 1) |-> IF i <= n THEN f[i] ELSE Body(f, i)]
  <2>2. ASSUME NEW i \in 0..(n + 1) PROVE g[i] = Body(g, i)
    <3>1. CASE i = 0
      <4>1. g[i] = f[i] /\ f[i] = 1
        BY <2>1, <3>1
      <4> QED  BY <3>1, <4>1
    <3>2. CASE i # 0
      <4>1. i - 1 \in 0..n /\ i - 1 \in 0..(n + 1) /\ i - 1 <= n
        BY <3>2
      <4>2. g[i - 1] = f[i - 1]
        BY <4>1
      <4>3. Body(g, i) = Body(f, i)
        BY <4>2
      <4>4. g[i] = Body(f, i)
        <5> HIDE DEF Body
        <5>1. CASE i <= n
          <6>1. i \in 0..n
            BY <5>1
          <6> QED  BY <2>1, <5>1, <6>1
        <5>2. CASE ~(i <= n)
          BY <5>2
        <5> QED  BY <5>1, <5>2
      <4> QED  BY <4>3, <4>4
    <3> QED  BY <3>1, <3>2
  <2> HIDE DEF Body
  <2>3. g = [i \in 0..(n + 1) |-> Body(g, i)]
    BY <2>2
  <2> HIDE DEF g
  <2> QED  BY <2>3
<1>3. SuffixBits \in T
  <2> HIDE DEF T
  <2>1. SuffixBits \in Nat
    BY BoundsAssumption
  <2> QED  BY <1>1, <1>2, <2>1, SetInduction
<1> HIDE DEF Body
<1>4. \E f : f = [i \in 0..SuffixBits |-> Body(f, i)]
  BY <1>3
<1>5. PowerOfTwo = CHOOSE f : f = [i \in 0..SuffixBits |-> Body(f, i)]
  BY DEF PowerOfTwo, Body
<1>6. PowerOfTwo = [i \in 0..SuffixBits |-> Body(PowerOfTwo, i)]
  BY <1>4, <1>5
<1>7. ASSUME NEW n \in 0..SuffixBits PROVE PowerOfTwo[n] = Body(PowerOfTwo, n)
  BY <1>6
<1>8. 0 \in 0..SuffixBits /\ \A n \in 1..SuffixBits : n \in 0..SuffixBits /\ n # 0
  <2>1. SuffixBits \in Nat
    BY BoundsAssumption
  <2> QED  BY <2>1
<1> QED  BY <1>7, <1>8 DEF Body

LEMMA ProbedDef ==
  ASSUME NEW m, NEW name
  PROVE  /\ Probed(m, name)[0] = 0
         /\ \A b \in 1..SuffixBits :
              LET j == Probed(m, name)[b - 1] + PowerOfTwo[SuffixBits - b] IN
              Probed(m, name)[b] = IF WithNumber(name, j) \in CellNames(m) THEN j ELSE Probed(m, name)[b - 1]
<1> DEFINE Taken(j) == WithNumber(name, j) \in CellNames(m)
           Body(f, n) == IF n = 0 THEN 0
                         ELSE IF Taken(f[n - 1] + PowerOfTwo[SuffixBits - n])
                              THEN f[n - 1] + PowerOfTwo[SuffixBits - n] ELSE f[n - 1]
           T == {n \in Nat : \E f : f = [i \in 0..n |-> Body(f, i)]}
<1> HIDE DEF Taken
<1>1. 0 \in T
  <2> DEFINE f == [i \in 0..0 |-> 0]
  <2>1. f = [i \in 0..0 |-> Body(f, i)]
    OBVIOUS
  <2> QED  BY <2>1
<1>2. ASSUME NEW n \in Nat, n \in T PROVE n + 1 \in T
  <2>1. PICK f : f = [i \in 0..n |-> Body(f, i)]
    BY <1>2
  <2> DEFINE g == [i \in 0..(n + 1) |-> IF i <= n THEN f[i] ELSE Body(f, i)]
  <2>2. ASSUME NEW i \in 0..(n + 1) PROVE g[i] = Body(g, i)
    <3>1. CASE i = 0
      <4>1. g[i] = f[i] /\ f[i] = 0
        BY <2>1, <3>1
      <4> QED  BY <3>1, <4>1
    <3>2. CASE i # 0
      <4>1. i - 1 \in 0..n /\ i - 1 \in 0..(n + 1) /\ i - 1 <= n
        BY <3>2
      <4>2. g[i - 1] = f[i - 1]
        BY <4>1
      <4>3. Body(g, i) = Body(f, i)
        BY <4>2
      <4>4. g[i] = Body(f, i)
        <5> HIDE DEF Body
        <5>1. CASE i <= n
          <6>1. i \in 0..n
            BY <5>1
          <6> QED  BY <2>1, <5>1, <6>1
        <5>2. CASE ~(i <= n)
          BY <5>2
        <5> QED  BY <5>1, <5>2
      <4> QED  BY <4>3, <4>4
    <3> QED  BY <3>1, <3>2
  <2> HIDE DEF Body
  <2>3. g = [i \in 0..(n + 1) |-> Body(g, i)]
    BY <2>2
  <2> HIDE DEF g
  <2> QED  BY <2>3
<1>3. SuffixBits \in T
  <2> HIDE DEF T
  <2>1. SuffixBits \in Nat
    BY BoundsAssumption
  <2> QED  BY <1>1, <1>2, <2>1, SetInduction
<1> HIDE DEF Body
<1>4. \E f : f = [i \in 0..SuffixBits |-> Body(f, i)]
  BY <1>3
<1>5. PICK p : p = Probed(m, name)
  OBVIOUS
<1>6. p = CHOOSE f : f = [i \in 0..SuffixBits |-> Body(f, i)]
  BY <1>5 DEF Probed, Body, Taken
<1>7. p = [i \in 0..SuffixBits |-> Body(p, i)]
  BY <1>4, <1>6
<1>8. ASSUME NEW n \in 0..SuffixBits PROVE p[n] = Body(p, n)
  BY <1>7
<1>9. 0 \in 0..SuffixBits /\ \A n \in 1..SuffixBits : n \in 0..SuffixBits /\ n # 0
  <2>1. SuffixBits \in Nat
    BY BoundsAssumption
  <2> QED  BY <2>1
<1> QED  BY <1>5, <1>8, <1>9 DEF Body, Taken

\* The number found is free, unless it is the one beyond those that the bits make.
LEMMA UniqueName ==
  ASSUME NEW m, NEW name, WithNumber(name, PowerOfTwo[SuffixBits]) \notin CellNames(m)
  PROVE  UniquifyCellName(m, name) \notin CellNames(m)
<1> DEFINE p(b) == Probed(m, name)[b]
           w(n) == PowerOfTwo[n]
           Open(j) == WithNumber(name, j) \notin CellNames(m)
           T == {b \in Nat : b <= SuffixBits =>
                   p(b) \in Nat /\ w(SuffixBits - b) \in Nat /\ Open(p(b) + w(SuffixBits - b))}
<1>0. SuffixBits \in Nat \ {0}
  BY BoundsAssumption
<1>1. \A n \in Nat : n <= SuffixBits => w(n) \in Nat
  <2> DEFINE W == {n \in Nat : n <= SuffixBits => w(n) \in Nat}
  <2>1. 0 \in W
    BY PowerOfTwoDef
  <2>2. ASSUME NEW n \in Nat, n \in W PROVE n + 1 \in W
    <3> SUFFICES ASSUME n + 1 <= SuffixBits PROVE w(n + 1) \in Nat
      OBVIOUS
    <3>1. n + 1 \in 1..SuffixBits /\ (n + 1) - 1 = n /\ n <= SuffixBits
      BY <1>0
    <3>2. w(n + 1) = 2 * w(n)
      BY <3>1, PowerOfTwoDef
    <3> QED  BY <2>2, <3>1, <3>2
  <2> HIDE DEF W
  <2>3. \A n \in Nat : n \in W
    BY <2>1, <2>2, SetInduction
  <2> QED  BY <2>3 DEF W
<1>2. 0 \in T
  <2>1. p(0) = 0 /\ SuffixBits - 0 = SuffixBits /\ w(SuffixBits) \in Nat
    BY <1>0, <1>1, ProbedDef
  <2> QED  BY <2>1
<1>3. ASSUME NEW c \in Nat, c \in T PROVE c + 1 \in T
  <2> SUFFICES ASSUME c + 1 <= SuffixBits
               PROVE  p(c + 1) \in Nat /\ w(SuffixBits - (c + 1)) \in Nat
                      /\ Open(p(c + 1) + w(SuffixBits - (c + 1)))
    OBVIOUS
  <2> DEFINE v == w(SuffixBits - (c + 1))
             j == p(c) + v
  <2>1. c + 1 \in 1..SuffixBits /\ (c + 1) - 1 = c /\ c <= SuffixBits
    BY <1>0
  <2>2. SuffixBits - (c + 1) \in Nat /\ SuffixBits - (c + 1) <= SuffixBits
    BY <1>0
  <2>3. v \in Nat
    BY <1>1, <2>2
  <2>4. p(c) \in Nat /\ Open(p(c) + w(SuffixBits - c))
    BY <1>3, <2>1
  <2>5. w(SuffixBits - c) = 2 * v
    <3>1. SuffixBits - c \in 1..SuffixBits /\ (SuffixBits - c) - 1 = SuffixBits - (c + 1)
      BY <1>0
    <3> QED  BY <3>1, PowerOfTwoDef
  <2>6. p(c + 1) = IF WithNumber(name, j) \in CellNames(m) THEN j ELSE p(c)
    BY <2>1, ProbedDef
  <2> HIDE DEF v, p, w
  <2>7. CASE WithNumber(name, j) \in CellNames(m)
    <3>1. p(c + 1) = j /\ j \in Nat /\ j + v = p(c) + 2 * v
      BY <2>3, <2>4, <2>6, <2>7
    <3>2. Open(j + v)
      BY <2>4, <2>5, <3>1
    <3> QED  BY <2>3, <3>1, <3>2 DEF v
  <2>8. CASE WithNumber(name, j) \notin CellNames(m)
    <3>1. p(c + 1) = p(c)
      BY <2>6, <2>8
    <3> QED  BY <2>3, <2>4, <2>8, <3>1 DEF v
  <2> QED  BY <2>7, <2>8
<1> HIDE DEF T
<1>4. SuffixBits \in T
  BY <1>0, <1>2, <1>3, SetInduction
<1>5. Open(p(SuffixBits) + w(SuffixBits - SuffixBits))
  BY <1>0, <1>4 DEF T
<1>6. w(SuffixBits - SuffixBits) = 1
  BY <1>0, PowerOfTwoDef
<1> QED  BY <1>5, <1>6 DEF UniquifyCellName

-----------------------------------------------------------------------------
(* Cells and what they hold                                                *)

\* A cell of a layout with so many layers and cells.
CellOK(c, layers, cells) ==
  /\ c = [name |-> c.name, ghost |-> c.ghost, prop |-> c.prop, shapes |-> c.shapes, insts |-> c.insts]
  /\ IsList(c.shapes) /\ \A j \in 1..Len(c.shapes) : c.shapes[j].layer \in 1..layers
  /\ IsList(c.insts) /\ \A j \in 1..Len(c.insts) : c.insts[j].cell \in 1..cells /\ c.insts[j].n \in Nat

CellsOK(m) == AreUnique(m.cells) /\ \A i \in 1..Len(m.cells) : CellOK(m.cells[i], Len(m.layers), Len(m.cells))

IsEmpty(cell) == cell.shapes = <<>> /\ cell.insts = <<>>

\* Another name, ghost mark or property set.
SameContent(c, d) == d.shapes = c.shapes /\ d.insts = c.insts

LEMMA CellGrows ==
  ASSUME NEW c, NEW layers, layers \in Nat, NEW cells, cells \in Nat, CellOK(c, layers, cells),
         NEW ll, ll \in Nat, layers <= ll, NEW cc, cc \in Nat, cells <= cc
  PROVE  CellOK(c, ll, cc)
<1>1. 1..layers \subseteq 1..ll /\ 1..cells \subseteq 1..cc
  OBVIOUS
<1> QED  BY <1>1 DEF CellOK

LEMMA CellPropChanged ==
  ASSUME NEW c, NEW layers, NEW cells, CellOK(c, layers, cells), NEW x
  PROVE  LET d == [c EXCEPT !.prop = x] IN
         CellOK(d, layers, cells) /\ d.name = c.name /\ SameContent(c, d) /\ d.prop = x
<1>1. PICK d : d = [c EXCEPT !.prop = x]
  OBVIOUS
<1>2. d = [name |-> c.name, ghost |-> c.ghost, prop |-> x, shapes |-> c.shapes, insts |-> c.insts]
  BY <1>1 DEF CellOK
<1>3. CellOK(d, layers, cells) /\ d.name = c.name /\ SameContent(c, d) /\ d.prop = x
  BY <1>2 DEF CellOK, SameContent
<1> QED  BY <1>1, <1>3

LEMMA CellShapeAdded ==
  ASSUME NEW c, NEW layers, NEW cells, CellOK(c, layers, cells), NEW s, s.layer \in 1..layers
  PROVE  LET d == [c EXCEPT !.shapes = Append(@, s)] IN
         /\ CellOK(d, layers, cells) /\ d.name = c.name /\ d.insts = c.insts /\ d.prop = c.prop
         /\ d.shapes = Append(c.shapes, s)
<1>1. PICK d : d = [c EXCEPT !.shapes = Append(@, s)]
  OBVIOUS
<1>2. PICK shapes : shapes = Append(c.shapes, s)
  OBVIOUS
<1>3. d = [name |-> c.name, ghost |-> c.ghost, prop |-> c.prop, shapes |-> shapes, insts |-> c.insts]
  BY <1>1, <1>2 DEF CellOK
<1>4. /\ IsList(shapes) /\ Len(shapes) = Len(c.shapes) + 1 /\ shapes[Len(c.shapes) + 1] = s
      /\ \A j \in 1..Len(c.shapes) : shapes[j] = c.shapes[j]
  BY <1>2, ListAppended DEF CellOK, Extends
<1>5. Len(c.shapes) \in Nat
  BY ListIs DEF CellOK
<1>6. ASSUME NEW j \in 1..Len(shapes) PROVE shapes[j].layer \in 1..layers
  <2>1. j = Len(c.shapes) + 1 \/ j \in 1..Len(c.shapes)
    BY <1>4, <1>5
  <2> QED  BY <1>4, <2>1 DEF CellOK
<1>7. CellOK(d, layers, cells) /\ d.name = c.name /\ d.insts = c.insts /\ d.prop = c.prop /\ d.shapes = shapes
  BY <1>3, <1>4, <1>6 DEF CellOK
<1> QED  BY <1>1, <1>2, <1>7

LEMMA CellInstanceAdded ==
  ASSUME NEW c, NEW layers, NEW cells, CellOK(c, layers, cells), NEW x, x.cell \in 1..cells, x.n \in Nat
  PROVE  LET d == [c EXCEPT !.insts = Append(@, x)] IN
         /\ CellOK(d, layers, cells) /\ d.name = c.name /\ d.shapes = c.shapes /\ d.prop = c.prop
         /\ d.insts = Append(c.insts, x)
<1>1. PICK d : d = [c EXCEPT !.insts = Append(@, x)]
  OBVIOUS
<1>2. PICK insts : insts = Append(c.insts, x)
  OBVIOUS
<1>3. d = [name |-> c.name, ghost |-> c.ghost, prop |-> c.prop, shapes |-> c.shapes, insts |-> insts]
  BY <1>1, <1>2 DEF CellOK
<1>4. /\ IsList(insts) /\ Len(insts) = Len(c.insts) + 1 /\ insts[Len(c.insts) + 1] = x
      /\ \A j \in 1..Len(c.insts) : insts[j] = c.insts[j]
  BY <1>2, ListAppended DEF CellOK, Extends
<1>5. Len(c.insts) \in Nat
  BY ListIs DEF CellOK
<1>6. ASSUME NEW j \in 1..Len(insts) PROVE insts[j].cell \in 1..cells /\ insts[j].n \in Nat
  <2>1. j = Len(c.insts) + 1 \/ j \in 1..Len(c.insts)
    BY <1>4, <1>5
  <2> QED  BY <1>4, <2>1 DEF CellOK
<1>7. CellOK(d, layers, cells) /\ d.name = c.name /\ d.shapes = c.shapes /\ d.prop = c.prop /\ d.insts = insts
  BY <1>3, <1>4, <1>6 DEF CellOK
<1> QED  BY <1>1, <1>2, <1>7

-----------------------------------------------------------------------------
(* What the cell of a file has become                                      *)

\* The cell has these shapes and instances of the cell c of the file.
Has(m, cell, names, c, shapes, insts) ==
  ShapesIn(m, cell) = ShapesAsRead(c, shapes) /\ CellInstances(cell) = InstancesAsRead(names, insts)

\* Those among the first a shapes and the first b instances.
HasUpto(m, cell, names, c, a, b) ==
  Has(m, cell, names, c, Upto(c.shapes, RealShapes(c))[a], Upto(c.insts, KnownInstances(c, names))[b])

LEMMA UptoStarts == ASSUME NEW s, IsList(s), NEW positions PROVE Upto(s, positions)[0] = <<>>
<1>1. PICK S : s \in Seq(S)
  BY DEF IsList
<1>2. Len(s) \in Nat
  BY ListIs
<1> QED  BY <1>1, <1>2, UptoDef

LEMMA UptoGoesOn ==
  ASSUME NEW s, IsList(s), NEW positions, NEW k, k \in 1..Len(s)
  PROVE  /\ k \in positions => Upto(s, positions)[k] = Append(Upto(s, positions)[k - 1], s[k])
         /\ k \notin positions => Upto(s, positions)[k] = Upto(s, positions)[k - 1]
<1>1. PICK S : s \in Seq(S)
  BY DEF IsList
<1>2. Len(s) \in Nat
  BY ListIs
<1>3. k \in 0..Len(s) /\ k # 0
  BY <1>2
<1>4. PICK u : u = Upto(s, positions)
  OBVIOUS
<1>5. u = [n \in 0..Len(s) |->
             IF n = 0 THEN <<>>
             ELSE IF n \in positions THEN Append(Upto(s, positions)[n - 1], s[n])
                  ELSE Upto(s, positions)[n - 1]]
  <2>1. Upto(s, positions) =
          [n \in 0..Len(s) |->
             IF n = 0 THEN <<>>
             ELSE IF n \in positions THEN Append(Upto(s, positions)[n - 1], s[n])
                  ELSE Upto(s, positions)[n - 1]]
    BY <1>1, UptoDef
  <2> QED  BY <1>4, <2>1
<1> QED  BY <1>3, <1>4, <1>5

LEMMA UptoIsList ==
  ASSUME NEW s, IsList(s), NEW positions, NEW k, k \in 0..Len(s)
  PROVE  IsList(Upto(s, positions)[k])
<1>1. PICK S : s \in Seq(S)
  BY DEF IsList
<1>2. PICK n \in Nat : n = Len(s) /\ \A i \in 1..n : s[i] \in S
  BY <1>1, LenProperties
<1>s. ASSUME NEW j \in 1..Len(s)
      PROVE  /\ j \in positions => Upto(s, positions)[j] = Append(Upto(s, positions)[j - 1], s[j])
             /\ j \notin positions => Upto(s, positions)[j] = Upto(s, positions)[j - 1]
  BY UptoGoesOn
<1> DEFINE u == Upto(s, positions)
           T == {i \in Nat : i <= n => u[i] \in Seq(S)}
<1>3. 0 \in T
  <2>1. u[0] = <<>> /\ <<>> \in Seq(S)
    BY UptoStarts
  <2> QED  BY <2>1
<1>4. ASSUME NEW i \in Nat, i \in T PROVE i + 1 \in T
  <2> SUFFICES ASSUME i + 1 <= n PROVE u[i + 1] \in Seq(S)
    OBVIOUS
  <2>1. i + 1 \in 1..Len(s) /\ (i + 1) - 1 = i /\ i <= n
    BY <1>2
  <2>2. u[i + 1] = IF i + 1 \in positions THEN Append(u[i], s[i + 1]) ELSE u[i]
    <3>1. PICK j : j = i + 1 /\ j \in 1..Len(s) /\ j - 1 = i
      BY <2>1
    <3> QED  BY <1>s, <3>1
  <2>3. u[i] \in Seq(S) /\ s[i + 1] \in S
    BY <1>2, <1>4, <2>1
  <2> HIDE DEF u
  <2> QED  BY <2>2, <2>3, AppendProperties
<1>5. k \in Nat /\ k <= n
  BY <1>2
<1> HIDE DEF T
<1>6. k \in T
  BY <1>3, <1>4, <1>5, SetInduction
<1> QED  BY <1>5, <1>6 DEF T, IsList

\* Nothing yet.
LEMMA HasNothing ==
  ASSUME NEW m, NEW cell, IsEmpty(cell), NEW names, NEW c, IsList(c.shapes), IsList(c.insts)
  PROVE  HasUpto(m, cell, names, c, 0, 0)
<1>1. Upto(c.shapes, RealShapes(c))[0] = <<>> /\ Upto(c.insts, KnownInstances(c, names))[0] = <<>>
  BY UptoStarts
<1>2. PICK e : e = <<>>
  OBVIOUS
<1>3. DOMAIN e = {}
  BY <1>2
<1>4. ShapesIn(m, cell) = ShapesAsRead(c, e)
  BY <1>2, <1>3 DEF ShapesIn, ShapesAsRead, IsEmpty
<1>5. CellInstances(cell) = InstancesAsRead(names, e)
  BY <1>2, <1>3 DEF CellInstances, InstancesAsRead, IsEmpty
<1> QED  BY <1>1, <1>2, <1>4, <1>5 DEF HasUpto, Has

\* The shapes of a cell stay what they are when layers are added.
LEMMA ShapesStay ==
  ASSUME NEW m, IsLayout(m), NEW n, Extends(m.layers, n.layers, 0), NEW c, CellOK(c, Len(m.layers), Len(m.cells)),
         NEW d, d.shapes = c.shapes
  PROVE  ShapesIn(n, d) = ShapesIn(m, c)
<1>1. DOMAIN c.shapes = 1..Len(c.shapes) /\ Len(m.layers) \in Nat
  BY ListIs DEF CellOK, IsLayout
<1>2. ASSUME NEW j \in DOMAIN c.shapes PROVE n.layers[c.shapes[j].layer] = m.layers[c.shapes[j].layer]
  <2>1. c.shapes[j].layer \in 1..Len(m.layers) /\ c.shapes[j].layer # 0
    BY <1>1 DEF CellOK
  <2> QED  BY <2>1 DEF Extends
<1> QED  BY <1>2 DEF ShapesIn

LEMMA ContentStays ==
  ASSUME NEW m, IsLayout(m), NEW n, Extends(m.layers, n.layers, 0), NEW cell, CellOK(cell, Len(m.layers), Len(m.cells)),
         NEW d, SameContent(cell, d), NEW names, NEW c, NEW a, NEW b, HasUpto(m, cell, names, c, a, b)
  PROVE  HasUpto(n, d, names, c, a, b)
<1>1. ShapesIn(n, d) = ShapesIn(m, cell)
  BY ShapesStay DEF SameContent
<1>2. CellInstances(d) = CellInstances(cell)
  BY DEF CellInstances, SameContent
<1> QED  BY <1>1, <1>2 DEF HasUpto, Has

\* A shape of the file that is no real one changes nothing.
LEMMA ShapeSkipped ==
  ASSUME NEW m, NEW cell, NEW names, NEW c, IsList(c.shapes), NEW k, k \in 1..Len(c.shapes), NEW b,
         HasUpto(m, cell, names, c, k - 1, b), k \notin RealShapes(c)
  PROVE  HasUpto(m, cell, names, c, k, b)
<1>1. Upto(c.shapes, RealShapes(c))[k] = Upto(c.shapes, RealShapes(c))[k - 1]
  BY UptoGoesOn
<1> QED  BY <1>1 DEF HasUpto

LEMMA InstanceSkipped ==
  ASSUME NEW m, NEW cell, NEW names, NEW c, IsList(c.insts), NEW k, k \in 1..Len(c.insts), NEW a,
         HasUpto(m, cell, names, c, a, k - 1), k \notin KnownInstances(c, names)
  PROVE  HasUpto(m, cell, names, c, a, k)
<1>1. Upto(c.insts, KnownInstances(c, names))[k] = Upto(c.insts, KnownInstances(c, names))[k - 1]
  BY UptoGoesOn
<1> QED  BY <1>1 DEF HasUpto

\* A shape is put in.
LEMMA ShapePutIn ==
  ASSUME NEW m, NEW cell, NEW names, NEW c, IsList(cell.shapes), IsList(c.shapes), NEW k, k \in 1..Len(c.shapes), NEW b,
         HasUpto(m, cell, names, c, k - 1, b), k \in RealShapes(c),
         NEW s, m.layers[s.layer].ld = (IF c.shapes[k].id \in DOMAIN c.layers THEN c.layers[c.shapes[k].id].ld ELSE <<0, 0>>),
         s.kind = ReadAs(c.shapes[k].kind), s.prop = PropertiesIdFromCore(c.shapes[k].prop),
         NEW d, d.shapes = Append(cell.shapes, s), d.insts = cell.insts
  PROVE  HasUpto(m, d, names, c, k, b)
<1> DEFINE P == RealShapes(c)
<1>1. PICK old : old = Upto(c.shapes, P)[k - 1]
  OBVIOUS
<1>2. PICK new : new = Append(old, c.shapes[k])
  OBVIOUS
<1>3. Upto(c.shapes, P)[k] = new
  <2>1. PICK s0, p0 : s0 = c.shapes /\ p0 = P
    OBVIOUS
  <2>2. IsList(s0) /\ k \in 1..Len(s0) /\ k \in p0
    BY <2>1
  <2>3. Upto(s0, p0)[k] = Append(Upto(s0, p0)[k - 1], s0[k])
    BY ONLY <2>2, UptoGoesOn
  <2> QED  BY <1>1, <1>2, <2>1, <2>3
<1>4. IsList(old)
  <2>1. k - 1 \in 0..Len(c.shapes)
    BY ListIs
  <2> QED  BY <1>1, <2>1, UptoIsList
<1>5. IsList(new) /\ Len(new) = Len(old) + 1 /\ new[Len(old) + 1] = c.shapes[k] /\ \A i \in 1..Len(old) : new[i] = old[i]
  BY <1>2, <1>4, ListAppended DEF Extends
<1>6. ShapesIn(m, cell) = ShapesAsRead(c, old)
  BY <1>1 DEF HasUpto, Has
<1>7. PICK all : all = d.shapes
  OBVIOUS
<1>8. /\ IsList(all) /\ Len(all) = Len(cell.shapes) + 1 /\ all[Len(cell.shapes) + 1] = s
      /\ \A i \in 1..Len(cell.shapes) : all[i] = cell.shapes[i]
  BY <1>7, ListAppended DEF Extends
<1>9. PICK z \in Nat : /\ z = Len(old) /\ z = Len(cell.shapes)
                       /\ DOMAIN old = 1..z /\ DOMAIN cell.shapes = 1..z
  <2>1. DOMAIN ShapesIn(m, cell) = DOMAIN cell.shapes /\ DOMAIN ShapesAsRead(c, old) = DOMAIN old
    BY DEF ShapesIn, ShapesAsRead
  <2>2. Len(old) \in Nat /\ DOMAIN old = 1..Len(old) /\ Len(cell.shapes) \in Nat /\ DOMAIN cell.shapes = 1..Len(cell.shapes)
    BY <1>4, ListIs
  <2>3. Len(old) = Len(cell.shapes)
    BY <1>6, <2>1, <2>2
  <2> QED  BY <2>2, <2>3
<1>10. DOMAIN all = 1..(z + 1) /\ DOMAIN new = 1..(z + 1)
  BY <1>5, <1>8, <1>9, ListIs
<1> DEFINE L(t) == IF t.id \in DOMAIN c.layers THEN c.layers[t.id].ld ELSE <<0, 0>>
           K(t) == CASE t.kind = "empty box" -> "box"
                     [] t.kind = "thin polygon" -> "polygon without points"
                     [] OTHER -> t.kind
<1>11. ASSUME NEW i \in 1..(z + 1)
       PROVE  /\ m.layers[all[i].layer].ld = L(new[i]) /\ all[i].kind = K(new[i])
              /\ all[i].prop = PropertiesIdFromCore(new[i].prop)
  <2>1. CASE i = z + 1
    <3>1. all[i] = s /\ new[i] = c.shapes[k]
      BY <1>5, <1>8, <1>9, <2>1
    <3> QED  BY <3>1 DEF ReadAs
  <2>2. CASE i # z + 1
    <3>1. i \in 1..z
      BY <2>2
    <3>2. all[i] = cell.shapes[i] /\ new[i] = old[i]
      BY <1>5, <1>8, <1>9, <3>1
    <3>3. ShapesIn(m, cell)[i] = [ld |-> m.layers[cell.shapes[i].layer].ld, kind |-> cell.shapes[i].kind, prop |-> cell.shapes[i].prop]
      BY <1>9, <3>1 DEF ShapesIn
    <3>4. ShapesAsRead(c, old)[i] = [ld |-> L(old[i]), kind |-> K(old[i]), prop |-> PropertiesIdFromCore(old[i].prop)]
      BY <1>9, <3>1 DEF ShapesAsRead
    <3> HIDE DEF L, K
    <3> QED  BY <1>6, <3>2, <3>3, <3>4
  <2> QED  BY <2>1, <2>2
<1>12. ShapesIn(m, d) = ShapesAsRead(c, new)
  <2>1. ShapesIn(m, d) = [i \in 1..(z + 1) |-> [ld |-> m.layers[all[i].layer].ld, kind |-> all[i].kind, prop |-> all[i].prop]]
    BY <1>7, <1>10 DEF ShapesIn
  <2>2. ShapesAsRead(c, new) = [i \in 1..(z + 1) |-> [ld |-> L(new[i]), kind |-> K(new[i]), prop |-> PropertiesIdFromCore(new[i].prop)]]
    BY <1>10 DEF ShapesAsRead
  <2>3. ASSUME NEW i \in 1..(z + 1)
        PROVE  [ld |-> m.layers[all[i].layer].ld, kind |-> all[i].kind, prop |-> all[i].prop]
                 = [ld |-> L(new[i]), kind |-> K(new[i]), prop |-> PropertiesIdFromCore(new[i].prop)]
    <3> HIDE DEF L, K
    <3> QED  BY <1>11
  <2> HIDE DEF L, K
  <2> QED  BY <2>1, <2>2, <2>3
<1>13. CellInstances(d) = CellInstances(cell)
  BY DEF CellInstances
<1> QED  BY <1>3, <1>12, <1>13 DEF HasUpto, Has

LEMMA InstancePutIn ==
  ASSUME NEW m, NEW cell, NEW names, NEW c, IsList(cell.insts), IsList(c.insts), NEW k, k \in 1..Len(c.insts), NEW a,
         HasUpto(m, cell, names, c, a, k - 1), k \in KnownInstances(c, names),
         NEW x, x.cell = names[c.insts[k].child], x.rot = c.insts[k].rot, x.at = c.insts[k].at,
         x.prop = PropertiesIdFromCore(c.insts[k].prop),
         NEW d, d.insts = Append(cell.insts, x), d.shapes = cell.shapes
  PROVE  HasUpto(m, d, names, c, a, k)
<1> DEFINE P == KnownInstances(c, names)
<1>1. PICK old : old = Upto(c.insts, P)[k - 1]
  OBVIOUS
<1>2. PICK new : new = Append(old, c.insts[k])
  OBVIOUS
<1>3. Upto(c.insts, P)[k] = new
  <2>1. PICK s0, p0 : s0 = c.insts /\ p0 = P
    OBVIOUS
  <2>2. IsList(s0) /\ k \in 1..Len(s0) /\ k \in p0
    BY <2>1
  <2>3. Upto(s0, p0)[k] = Append(Upto(s0, p0)[k - 1], s0[k])
    BY ONLY <2>2, UptoGoesOn
  <2> QED  BY <1>1, <1>2, <2>1, <2>3
<1>4. IsList(old)
  <2>1. k - 1 \in 0..Len(c.insts)
    BY ListIs
  <2> QED  BY <1>1, <2>1, UptoIsList
<1>5. IsList(new) /\ Len(new) = Len(old) + 1 /\ new[Len(old) + 1] = c.insts[k] /\ \A i \in 1..Len(old) : new[i] = old[i]
  BY <1>2, <1>4, ListAppended DEF Extends
<1>6. CellInstances(cell) = InstancesAsRead(names, old)
  BY <1>1 DEF HasUpto, Has
<1>7. PICK all : all = d.insts
  OBVIOUS
<1>8. /\ IsList(all) /\ Len(all) = Len(cell.insts) + 1 /\ all[Len(cell.insts) + 1] = x
      /\ \A i \in 1..Len(cell.insts) : all[i] = cell.insts[i]
  BY <1>7, ListAppended DEF Extends
<1>9. PICK z \in Nat : /\ z = Len(old) /\ z = Len(cell.insts)
                       /\ DOMAIN old = 1..z /\ DOMAIN cell.insts = 1..z
  <2>1. DOMAIN CellInstances(cell) = DOMAIN cell.insts /\ DOMAIN InstancesAsRead(names, old) = DOMAIN old
    BY DEF CellInstances, InstancesAsRead
  <2>2. Len(old) \in Nat /\ DOMAIN old = 1..Len(old) /\ Len(cell.insts) \in Nat /\ DOMAIN cell.insts = 1..Len(cell.insts)
    BY <1>4, ListIs
  <2>3. Len(old) = Len(cell.insts)
    BY <1>6, <2>1, <2>2
  <2> QED  BY <2>2, <2>3
<1>10. DOMAIN all = 1..(z + 1) /\ DOMAIN new = 1..(z + 1)
  BY <1>5, <1>8, <1>9, ListIs
<1>11. ASSUME NEW i \in 1..(z + 1)
       PROVE  /\ all[i].cell = names[new[i].child] /\ all[i].rot = new[i].rot /\ all[i].at = new[i].at
              /\ all[i].prop = PropertiesIdFromCore(new[i].prop)
  <2>1. CASE i = z + 1
    BY <1>5, <1>8, <1>9, <2>1
  <2>2. CASE i # z + 1
    <3>1. i \in 1..z
      BY <2>2
    <3>2. all[i] = cell.insts[i] /\ new[i] = old[i]
      BY <1>5, <1>8, <1>9, <3>1
    <3>3. CellInstances(cell)[i] = [child |-> cell.insts[i].cell, rot |-> cell.insts[i].rot, at |-> cell.insts[i].at, prop |-> cell.insts[i].prop]
      BY <1>9, <3>1 DEF CellInstances
    <3>4. InstancesAsRead(names, old)[i] = [child |-> names[old[i].child], rot |-> old[i].rot, at |-> old[i].at, prop |-> PropertiesIdFromCore(old[i].prop)]
      BY <1>9, <3>1 DEF InstancesAsRead
    <3> QED  BY <1>6, <3>2, <3>3, <3>4
  <2> QED  BY <2>1, <2>2
<1>12. CellInstances(d) = InstancesAsRead(names, new)
  <2>1. CellInstances(d) = [i \in 1..(z + 1) |-> [child |-> all[i].cell, rot |-> all[i].rot, at |-> all[i].at, prop |-> all[i].prop]]
    BY <1>7, <1>10 DEF CellInstances
  <2>2. InstancesAsRead(names, new) = [i \in 1..(z + 1) |-> [child |-> names[new[i].child], rot |-> new[i].rot, at |-> new[i].at, prop |-> PropertiesIdFromCore(new[i].prop)]]
    BY <1>10 DEF InstancesAsRead
  <2> QED  BY <1>11, <2>1, <2>2
<1>13. ShapesIn(m, d) = ShapesIn(m, cell)
  BY DEF ShapesIn
<1> QED  BY <1>3, <1>12, <1>13 DEF HasUpto, Has

-----------------------------------------------------------------------------
(* The cells of the file and those of the layout                           *)

\* No two cells have the same name.
AreDistinct(cells) ==
  \A i \in 1..Len(cells), j \in 1..Len(cells) : cells[i].name = cells[j].name => i = j

FileOK(f) ==
  /\ IsList(f.cells) /\ AreDistinct(f.cells)
  /\ \A i \in 1..Len(f.cells) :
       f.cells[i].name # NoName /\ IsList(f.cells[i].shapes) /\ IsList(f.cells[i].insts)

\* Each name has a cell of its own.
NamesOK(names, m) ==
  /\ \A x \in DOMAIN names : names[x] \in 1..Len(m.cells)
  /\ \A x \in DOMAIN names, y \in DOMAIN names : names[x] = names[y] => x = y

\* Each key has a layer with that key.
LayersOK(layers, m) ==
  \A x \in DOMAIN layers : layers[x] \in 1..Len(m.layers) /\ m.layers[layers[x]].ld = x

AllNamed(f, names) == \A i \in 1..Len(f.cells) : f.cells[i].name \in DOMAIN names

TargetOf(m, f, names, i) == m.cells[names[f.cells[i].name]]

\* The cells before this one are complete, those behind it are empty, and so are
\* those without a layout view.
Progress(m, f, names, cell) ==
  \A i \in 1..Len(f.cells) : i # cell =>
    LET c == f.cells[i] IN
    /\ i < cell /\ c.layout => HasUpto(m, TargetOf(m, f, names, i), names, c, Len(c.shapes), Len(c.insts))
    /\ i > cell \/ ~c.layout => IsEmpty(TargetOf(m, f, names, i))

\* The cell in hand has what was read of it.
InHand(m, f, names, cell, at, k) ==
  cell \in 1..Len(f.cells) =>
    LET c == f.cells[cell]
        t == TargetOf(m, f, names, cell)
    IN  /\ at = "cell" \/ ~c.layout => IsEmpty(t)
        /\ at = "shapes" => c.layout /\ k \in 1..(Len(c.shapes) + 1) /\ HasUpto(m, t, names, c, k - 1, 0)
        /\ at = "insts" => c.layout /\ k \in 1..(Len(c.insts) + 1) /\ HasUpto(m, t, names, c, Len(c.shapes), k - 1)

\* n is m with another k-th cell of the same name, and maybe with further layers.
Rewrites(m, n, k) ==
  /\ Grows(m, n, k) /\ Len(n.cells) = Len(m.cells) /\ k \in 1..Len(m.cells)
  /\ CellOK(n.cells[k], Len(n.layers), Len(n.cells)) /\ n.cells[k].name = m.cells[k].name

\* n is m, maybe with further layers.
AddsLayers(m, n) == Grows(m, n, 0) /\ n.cells = m.cells

LEMMA UniqueIs ==
  ASSUME NEW cells, IsList(cells)
  PROVE  AreUnique(cells) <=> \A i \in 1..Len(cells), j \in 1..Len(cells) :
                                cells[i].name = cells[j].name => i = j \/ cells[i].name = NoName
BY ListIs DEF AreUnique

LEMMA RewrittenOK ==
  ASSUME NEW m, IsLayout(m), CellsOK(m), NEW n, NEW k, Rewrites(m, n, k)
  PROVE  IsLayout(n) /\ CellsOK(n)
<1>1. /\ IsLayout(n) /\ Len(m.layers) \in Nat /\ Len(n.layers) \in Nat /\ Len(m.cells) \in Nat
      /\ Len(m.layers) <= Len(n.layers) /\ Len(n.cells) = Len(m.cells)
  BY ListIs DEF IsLayout, Rewrites, Grows, Extends
<1>2. \A i \in 1..Len(m.cells) : i # k => n.cells[i] = m.cells[i]
  BY DEF Rewrites, Grows, Extends
<1>3. \A i \in 1..Len(m.cells) : n.cells[i].name = m.cells[i].name
  BY <1>2 DEF Rewrites
<1>4. ASSUME NEW i \in 1..Len(n.cells) PROVE CellOK(n.cells[i], Len(n.layers), Len(n.cells))
  <2>1. CASE i = k
    BY <2>1 DEF Rewrites
  <2>2. CASE i # k
    <3>1. n.cells[i] = m.cells[i] /\ CellOK(m.cells[i], Len(m.layers), Len(m.cells))
      BY <1>1, <1>2, <2>2 DEF CellsOK
    <3> QED  BY <1>1, <3>1, CellGrows
  <2> QED  BY <2>1, <2>2
<1>5. AreUnique(n.cells)
  <2>1. IsList(m.cells) /\ IsList(n.cells) /\ AreUnique(m.cells)
    BY <1>1 DEF IsLayout, CellsOK
  <2>2. \A i \in 1..Len(m.cells), j \in 1..Len(m.cells) :
          m.cells[i].name = m.cells[j].name => i = j \/ m.cells[i].name = NoName
    BY <2>1, UniqueIs
  <2> QED  BY <1>1, <1>3, <2>1, <2>2, UniqueIs
<1> QED  BY <1>1, <1>4, <1>5 DEF CellsOK

LEMMA LayersAddedOK ==
  ASSUME NEW m, IsLayout(m), CellsOK(m), NEW n, AddsLayers(m, n)
  PROVE  IsLayout(n) /\ CellsOK(n)
<1>1. /\ IsLayout(n) /\ Len(m.layers) \in Nat /\ Len(n.layers) \in Nat /\ Len(m.cells) \in Nat
      /\ Len(m.layers) <= Len(n.layers) /\ n.cells = m.cells
  BY ListIs DEF IsLayout, AddsLayers, Grows, Extends
<1>2. ASSUME NEW i \in 1..Len(n.cells) PROVE CellOK(n.cells[i], Len(n.layers), Len(n.cells))
  <2>1. CellOK(m.cells[i], Len(m.layers), Len(m.cells))
    BY <1>1 DEF CellsOK
  <2> QED  BY <1>1, <2>1, CellGrows
<1> QED  BY <1>1, <1>2 DEF CellsOK

LEMMA LayersKept ==
  ASSUME NEW m, IsLayout(m), NEW n, Extends(m.layers, n.layers, 0), NEW layers, LayersOK(layers, m)
  PROVE  LayersOK(layers, n)
<1>1. Len(m.layers) \in Nat /\ Len(n.layers) \in Nat /\ Len(m.layers) <= Len(n.layers)
  BY ListIs DEF IsLayout, Extends
<1>2. ASSUME NEW x \in DOMAIN layers PROVE layers[x] \in 1..Len(n.layers) /\ n.layers[layers[x]].ld = x
  <2>1. layers[x] \in 1..Len(m.layers) /\ m.layers[layers[x]].ld = x /\ layers[x] # 0
    BY <1>1 DEF LayersOK
  <2>2. n.layers[layers[x]] = m.layers[layers[x]]
    BY <2>1 DEF Extends
  <2> QED  BY <1>1, <2>1, <2>2
<1> QED  BY <1>2 DEF LayersOK

\* Whatever is done to one cell, the others keep what they have.
LEMMA OthersKeep ==
  ASSUME NEW m, IsLayout(m), CellsOK(m), NEW n, NEW k, Grows(m, n, k), NEW j, j \in 1..Len(m.cells), j # k,
         NEW names, NEW c, NEW a, NEW b
  PROVE  /\ n.cells[j] = m.cells[j]
         /\ HasUpto(m, m.cells[j], names, c, a, b) => HasUpto(n, n.cells[j], names, c, a, b)
<1>1. n.cells[j] = m.cells[j]
  BY DEF Grows, Extends
<1>2. CellOK(m.cells[j], Len(m.layers), Len(m.cells)) /\ SameContent(m.cells[j], n.cells[j])
      /\ Extends(m.layers, n.layers, 0)
  BY <1>1 DEF CellsOK, SameContent, Grows
<1> QED  BY <1>1, <1>2, ContentStays

LEMMA ProgressKept ==
  ASSUME NEW m, IsLayout(m), CellsOK(m), NEW n, NEW k, Grows(m, n, k),
         NEW f, FileOK(f), NEW names, NamesOK(names, m), AllNamed(f, names),
         NEW cell, k = 0 \/ (cell \in 1..Len(f.cells) /\ k = names[f.cells[cell].name]),
         Progress(m, f, names, cell)
  PROVE  Progress(n, f, names, cell)
<1>1. ASSUME NEW i \in 1..Len(f.cells), i # cell
      PROVE  LET c == f.cells[i] IN
             /\ i < cell /\ c.layout => HasUpto(n, TargetOf(n, f, names, i), names, c, Len(c.shapes), Len(c.insts))
             /\ i > cell \/ ~c.layout => IsEmpty(TargetOf(n, f, names, i))
  <2>1. PICK c : c = f.cells[i]
    OBVIOUS
  <2>2. PICK j : j = names[c.name]
    OBVIOUS
  <2>3. j \in 1..Len(m.cells) /\ c.name \in DOMAIN names
    BY <2>1, <2>2 DEF NamesOK, AllNamed
  <2>4. j # k
    <3>1. CASE k = 0
      <4>1. Len(m.cells) \in Nat
        BY ListIs DEF IsLayout
      <4> QED  BY <2>3, <3>1, <4>1
    <3>2. CASE cell \in 1..Len(f.cells) /\ k = names[f.cells[cell].name]
      <4>1. f.cells[cell].name # c.name
        BY <1>1, <2>1, <3>2 DEF FileOK, AreDistinct
      <4> QED  BY <2>2, <2>3, <3>2, <4>1 DEF NamesOK, AllNamed
    <3> QED  BY <3>1, <3>2
  <2>5. /\ n.cells[j] = m.cells[j]
        /\ HasUpto(m, m.cells[j], names, c, Len(c.shapes), Len(c.insts)) =>
             HasUpto(n, n.cells[j], names, c, Len(c.shapes), Len(c.insts))
    BY <2>3, <2>4, OthersKeep
  <2>6. TargetOf(m, f, names, i) = m.cells[j] /\ TargetOf(n, f, names, i) = n.cells[j]
    BY <2>1, <2>2 DEF TargetOf
  <2>7. /\ i < cell /\ c.layout => HasUpto(m, m.cells[j], names, c, Len(c.shapes), Len(c.insts))
        /\ i > cell \/ ~c.layout => IsEmpty(m.cells[j])
    BY <1>1, <2>1, <2>6 DEF Progress
  <2>8. /\ i < cell /\ c.layout => HasUpto(n, n.cells[j], names, c, Len(c.shapes), Len(c.insts))
        /\ i > cell \/ ~c.layout => IsEmpty(n.cells[j])
    BY <2>5, <2>7
  <2> QED  BY <2>1, <2>6, <2>8
<1> QED  BY <1>1 DEF Progress

\* On to the next cell.
LEMMA ProgressGoesOn ==
  ASSUME NEW m, NEW f, FileOK(f), NEW names, NEW cell \in Nat \ {0}, cell <= Len(f.cells), Progress(m, f, names, cell),
         LET c == f.cells[cell] IN
           /\ c.layout => HasUpto(m, TargetOf(m, f, names, cell), names, c, Len(c.shapes), Len(c.insts))
           /\ ~c.layout => IsEmpty(TargetOf(m, f, names, cell)),
         NEW k
  PROVE  Progress(m, f, names, cell + 1) /\ InHand(m, f, names, cell + 1, "cell", k)
<1>1. Len(f.cells) \in Nat
  BY ListIs DEF FileOK
<1>2. ASSUME NEW i \in 1..Len(f.cells), i # cell + 1
      PROVE  LET c == f.cells[i] IN
             /\ i < cell + 1 /\ c.layout => HasUpto(m, TargetOf(m, f, names, i), names, c, Len(c.shapes), Len(c.insts))
             /\ i > cell + 1 \/ ~c.layout => IsEmpty(TargetOf(m, f, names, i))
  <2>1. CASE i = cell
    <3>1. ~(i > cell + 1)
      BY <2>1
    <3> QED  BY <2>1, <3>1
  <2>2. CASE i # cell
    <3>1. (i < cell + 1 => i < cell) /\ (i > cell + 1 => i > cell)
      BY <1>1, <2>2
    <3> QED  BY <2>2, <3>1 DEF Progress
  <2> QED  BY <2>1, <2>2
<1>3. ASSUME cell + 1 \in 1..Len(f.cells) PROVE IsEmpty(TargetOf(m, f, names, cell + 1))
  <2>1. cell + 1 # cell /\ cell + 1 > cell
    OBVIOUS
  <2> QED  BY <1>3, <2>1 DEF Progress
<1>4. InHand(m, f, names, cell + 1, "cell", k)
  BY <1>3 DEF InHand
<1> QED  BY <1>2, <1>4 DEF Progress

-----------------------------------------------------------------------------
(* The invariant of a read                                                 *)

\* While cells are added they are empty, and those taken over have the name they
\* are taken over for.
AddedEmpty(names, m, b) ==
  \A x \in DOMAIN names :
    IsEmpty(m.cells[names[x]]) /\ (names[x] <= Len(b.cells) => m.cells[names[x]].name = x)

ReadInv ==
  /\ CellsOK(mem) /\ FileOK(file) /\ NamesOK(rd.names, mem) /\ LayersOK(rd.layers, mem)
  /\ rd.at = "add" => rd.cell = 0 /\ AddedEmpty(rd.names, mem, before)
  /\ rd.cell > 0 =>
       /\ AllNamed(file, rd.names) /\ Progress(mem, file, rd.names, rd.cell)
       /\ InHand(mem, file, rd.names, rd.cell, rd.at, rd.k)

LEMMA ReadInvIs ==
  ASSUME CellsOK(mem'), file' = file, FileOK(file), NamesOK(rd.names, mem), Len(mem'.cells) = Len(mem.cells),
         rd'.names = rd.names, LayersOK(rd'.layers, mem'), rd'.at # "add", AllNamed(file, rd.names),
         Progress(mem', file, rd.names, rd'.cell), InHand(mem', file, rd.names, rd'.cell, rd'.at, rd'.k)
  PROVE  ReadInv'
<1>1. NamesOK(rd'.names, mem')
  BY DEF NamesOK
<1> QED  BY <1>1 DEF ReadInv

LEMMA ReadInvHas ==
  ASSUME IInv, ReadInv, rd.at \in {"cell", "shapes", "insts"}
  PROVE  /\ IsLayout(mem) /\ CellsOK(mem) /\ FileOK(file) /\ NamesOK(rd.names, mem) /\ LayersOK(rd.layers, mem)
         /\ rd.cell \in Nat \ {0} /\ rd.k \in Nat /\ AllNamed(file, rd.names)
         /\ Progress(mem, file, rd.names, rd.cell) /\ InHand(mem, file, rd.names, rd.cell, rd.at, rd.k)
         /\ rd = [at |-> rd.at, fresh |-> rd.fresh, cell |-> rd.cell, k |-> rd.k, names |-> rd.names, layers |-> rd.layers]
         /\ Len(mem.cells) \in Nat /\ Len(file.cells) \in Nat
<1>1. rd.cell \in Nat \ {0} /\ rd.k \in Nat /\ IsLayout(mem)
      /\ rd = [at |-> rd.at, fresh |-> rd.fresh, cell |-> rd.cell, k |-> rd.k, names |-> rd.names, layers |-> rd.layers]
  BY DEF IInv, CellInv, ReaderInv
<1>2. Len(mem.cells) \in Nat /\ Len(file.cells) \in Nat
  BY <1>1, ListIs DEF IsLayout, IInv
<1> QED  BY <1>1, <1>2 DEF ReadInv

-----------------------------------------------------------------------------
(* The steps that read a cell                                              *)

\* A step that reads nothing.
LEMMA NothingKeeps ==
  ASSUME IInv, ReadInv, rd.at \in {"cell", "shapes", "insts"}, mem' = mem, file' = file,
         NEW at, at # "add", NEW k,
         rd' = [at |-> at, fresh |-> rd.fresh, cell |-> rd.cell, k |-> k, names |-> rd.names, layers |-> rd.layers],
         InHand(mem, file, rd.names, rd.cell, at, k)
  PROVE  ReadInv'
<1>1. rd'.names = rd.names /\ rd'.layers = rd.layers /\ rd'.at = at /\ rd'.cell = rd.cell /\ rd'.k = k
  OBVIOUS
<1> QED  BY <1>1, ReadInvHas, ReadInvIs

\* A failure leaves the cell in hand as it is.
LEMMA FailedInHand ==
  ASSUME NEW m, NEW f, NEW names, NEW cell, NEW at, at \in {"cell", "shapes", "insts"}, NEW k, InHand(m, f, names, cell, at, k),
         NEW j
  PROVE  InHand(m, f, names, cell, "failed", j)
<1>1. ASSUME cell \in 1..Len(f.cells), ~f.cells[cell].layout PROVE IsEmpty(TargetOf(m, f, names, cell))
  BY <1>1 DEF InHand
<1> QED  BY <1>1 DEF InHand

LEMMA NextCellKeeps ==
  ASSUME IInv, ReadInv, rd.at \in {"cell", "shapes", "insts"}, mem' = mem, file' = file, rd.cell <= Len(file.cells),
         LET c == file.cells[rd.cell] IN
           /\ c.layout => HasUpto(mem, TargetOf(mem, file, rd.names, rd.cell), rd.names, c, Len(c.shapes), Len(c.insts))
           /\ ~c.layout => IsEmpty(TargetOf(mem, file, rd.names, rd.cell)),
         rd' = [at |-> "cell", fresh |-> rd.fresh, cell |-> rd.cell + 1, k |-> 1, names |-> rd.names, layers |-> rd.layers]
  PROVE  ReadInv'
<1>1. /\ rd'.names = rd.names /\ rd'.layers = rd.layers /\ rd'.at = "cell" /\ rd'.cell = rd.cell + 1 /\ rd'.k = 1
  OBVIOUS
<1>2. rd.cell \in Nat \ {0} /\ FileOK(file) /\ Progress(mem, file, rd.names, rd.cell)
  BY ReadInvHas
<1>3. Progress(mem, file, rd.names, rd.cell + 1) /\ InHand(mem, file, rd.names, rd.cell + 1, "cell", 1)
  BY <1>2, ProgressGoesOn
<1> QED  BY <1>1, <1>3, ReadInvHas, ReadInvIs

\* The layout after a shape has asked for its layer.
LEMMA LayerMade ==
  ASSUME IsLayout(mem), LayersOK(rd.layers, mem), NEW spec, NEW w, w = WithLayer(mem, spec)
  PROVE  /\ AddsLayers(mem, w) /\ LayersOK(Extended(rd.layers, spec.ld, LayerIndex(spec)), w)
         /\ LayerIndex(spec) \in 1..Len(w.layers) /\ w.layers[LayerIndex(spec)].ld = spec.ld
<1>1. AddsLayers(mem, w)
  BY LayerFound DEF AddsLayers
<1>2. LayersOK(rd.layers, w)
  BY <1>1, LayersKept DEF AddsLayers, Grows
<1>3. LayerIndex(spec) \in 1..Len(w.layers) /\ w.layers[LayerIndex(spec)].ld = spec.ld
  <2>1. CASE spec.ld \in DOMAIN rd.layers
    BY <1>2, <2>1 DEF LayerIndex, LayersOK
  <2>2. CASE spec.ld \notin DOMAIN rd.layers
    <3>1. PICK layers : layers = Append(mem.layers, spec)
      OBVIOUS
    <3>2. Len(layers) = Len(mem.layers) + 1 /\ layers[Len(mem.layers) + 1] = spec
      BY <3>1, ListAppended DEF IsLayout
    <3>3. w = [mem EXCEPT !.layers = layers]
      BY <2>2, <3>1 DEF WithLayer
    <3>4. w.layers = layers
      BY <3>3 DEF IsLayout
    <3>5. Len(mem.layers) \in Nat
      BY ListIs DEF IsLayout
    <3> QED  BY <2>2, <3>2, <3>4, <3>5 DEF LayerIndex
  <2> QED  BY <2>1, <2>2
<1>4. PICK i, layers : i = LayerIndex(spec) /\ layers = Extended(rd.layers, spec.ld, i)
  OBVIOUS
<1>5. \A x \in DOMAIN layers : (x = spec.ld /\ layers[x] = i) \/ (x \in DOMAIN rd.layers /\ layers[x] = rd.layers[x])
  BY <1>4 DEF Extended
<1>6. LayersOK(layers, w)
  BY <1>2, <1>3, <1>4, <1>5 DEF LayersOK
<1> QED  BY <1>1, <1>3, <1>4, <1>6

\* The cell in hand, in the file and in the layout.
LEMMA InHandIs ==
  ASSUME IInv, ReadInv, rd.at \in {"cell", "shapes", "insts"}, rd.cell <= Len(file.cells)
  PROVE  /\ rd.cell \in 1..Len(file.cells) /\ FileCell = file.cells[rd.cell] /\ TargetIndex = rd.names[FileCell.name]
         /\ TargetIndex \in 1..Len(mem.cells) /\ TargetOf(mem, file, rd.names, rd.cell) = mem.cells[TargetIndex]
         /\ IsList(FileCell.shapes) /\ IsList(FileCell.insts) /\ FileCell.name \in DOMAIN rd.names
         /\ CellOK(mem.cells[TargetIndex], Len(mem.layers), Len(mem.cells))
         /\ Len(FileCell.shapes) \in Nat /\ Len(FileCell.insts) \in Nat
<1>1. rd.cell \in 1..Len(file.cells)
  BY ReadInvHas
<1>2. FileCell = file.cells[rd.cell] /\ TargetIndex = rd.names[FileCell.name]
  BY DEF FileCell, TargetIndex
<1>3. FileCell.name \in DOMAIN rd.names
  BY <1>1, <1>2, ReadInvHas DEF AllNamed
<1>4. TargetIndex \in 1..Len(mem.cells)
  BY <1>2, <1>3, ReadInvHas DEF NamesOK
<1>5. IsList(FileCell.shapes) /\ IsList(FileCell.insts)
  BY <1>1, <1>2, ReadInvHas DEF FileOK
<1>6. CellOK(mem.cells[TargetIndex], Len(mem.layers), Len(mem.cells))
  BY <1>4, ReadInvHas DEF CellsOK
<1> QED  BY <1>1, <1>2, <1>3, <1>4, <1>5, <1>6, ListIs DEF TargetOf

\* The cell in hand is rewritten.
LEMMA RewritingKeeps ==
  ASSUME IInv, ReadInv, rd.at \in {"cell", "shapes", "insts"}, rd.cell <= Len(file.cells), file' = file,
         Rewrites(mem, mem', TargetIndex), NEW at, at # "add", NEW k, NEW layers, LayersOK(layers, mem'),
         rd' = [at |-> at, fresh |-> rd.fresh, cell |-> rd.cell, k |-> k, names |-> rd.names, layers |-> layers],
         InHand(mem', file, rd.names, rd.cell, at, k)
  PROVE  ReadInv'
<1>1. rd'.names = rd.names /\ rd'.layers = layers /\ rd'.at = at /\ rd'.cell = rd.cell /\ rd'.k = k
  OBVIOUS
<1>2. PICK n : n = mem'
  OBVIOUS
<1>3. PICK t : t = TargetIndex
  OBVIOUS
<1>4. CellsOK(n) /\ Len(n.cells) = Len(mem.cells) /\ Grows(mem, n, t)
  BY <1>2, <1>3, RewrittenOK, ReadInvHas DEF Rewrites
<1>5. rd.cell \in 1..Len(file.cells) /\ t = rd.names[file.cells[rd.cell].name]
  BY <1>3, InHandIs
<1>6. Progress(n, file, rd.names, rd.cell)
  BY <1>4, <1>5, ProgressKept, ReadInvHas
<1> QED  BY <1>1, <1>2, <1>4, <1>6, ReadInvHas, ReadInvIs

\* A layer is added.
LEMMA AddingLayerKeeps ==
  ASSUME IInv, ReadInv, rd.at \in {"cell", "shapes", "insts"}, file' = file,
         AddsLayers(mem, mem'), NEW at, at # "add", NEW k, NEW layers, LayersOK(layers, mem'),
         rd' = [at |-> at, fresh |-> rd.fresh, cell |-> rd.cell, k |-> k, names |-> rd.names, layers |-> layers],
         InHand(mem', file, rd.names, rd.cell, at, k)
  PROVE  ReadInv'
<1>1. rd'.names = rd.names /\ rd'.layers = layers /\ rd'.at = at /\ rd'.cell = rd.cell /\ rd'.k = k
  OBVIOUS
<1>2. PICK n : n = mem'
  OBVIOUS
<1>3. CellsOK(n) /\ n.cells = mem.cells /\ Grows(mem, n, 0)
  BY <1>2, LayersAddedOK, ReadInvHas DEF AddsLayers
<1>4. Progress(n, file, rd.names, rd.cell)
  BY <1>3, ProgressKept, ReadInvHas
<1> QED  BY <1>1, <1>2, <1>3, <1>4, ReadInvHas, ReadInvIs

\* One cell of w, which is m with further layers, gets another content.
LEMMA RewritesIs ==
  ASSUME NEW m, IsLayout(m), NEW w, AddsLayers(m, w), NEW k, k \in 1..Len(m.cells),
         NEW d, CellOK(d, Len(w.layers), Len(w.cells)), d.name = m.cells[k].name
  PROVE  LET n == [w EXCEPT !.cells = [@ EXCEPT ![k] = d]] IN Rewrites(m, n, k) /\ n.layers = w.layers /\ n.cells[k] = d
<1>1. PICK n : n = [w EXCEPT !.cells = [@ EXCEPT ![k] = d]]
  OBVIOUS
<1>2. PICK cells : cells = [w.cells EXCEPT ![k] = d]
  OBVIOUS
<1>3. IsLayout(w) /\ w.cells = m.cells /\ k \in 1..Len(w.cells)
  BY DEF AddsLayers, Grows
<1>4. n = [dbu |-> w.dbu, libname |-> w.libname, prop |-> w.prop, layers |-> w.layers, cells |-> cells]
  BY <1>1, <1>2, <1>3 DEF IsLayout
<1>5. Extends(w.cells, cells, k) /\ Len(cells) = Len(w.cells)
  BY <1>2, <1>3, ListChanged DEF IsLayout
<1>6. cells[k] = d
  <2>1. k \in DOMAIN w.cells
    BY <1>3, ListIs DEF IsLayout
  <2> QED  BY <1>2, <2>1
<1>7. Grows(m, n, k)
  <2>1. Grows(w, n, k)
    BY <1>1, <1>3, CellChanged
  <2> QED  BY <1>3, <1>4, <2>1 DEF Grows, AddsLayers
<1> QED  BY <1>1, <1>3, <1>4, <1>5, <1>6, <1>7 DEF Rewrites

LEMMA AddsNothing == ASSUME NEW m, IsLayout(m) PROVE AddsLayers(m, m)
<1>1. Len(m.cells) \in Nat /\ Len(m.layers) \in Nat
  BY ListIs DEF IsLayout
<1> QED  BY <1>1 DEF AddsLayers, Grows, Extends, IsLayout

LEMMA BeginCellReads == ASSUME IInv, ReadInv, BeginCell PROVE ReadInv'
<1>1. rd.at = "cell" /\ rd.at \in {"cell", "shapes", "insts"} /\ rd.cell <= Len(file.cells) /\ file' = file
  BY DEF BeginCell
<1>2. PICK c, k : c = FileCell /\ k = TargetIndex
  OBVIOUS
<1>3. /\ rd.cell \in 1..Len(file.cells) /\ c = file.cells[rd.cell] /\ k = rd.names[c.name]
      /\ k \in 1..Len(mem.cells) /\ TargetOf(mem, file, rd.names, rd.cell) = mem.cells[k]
      /\ IsList(c.shapes) /\ IsList(c.insts) /\ CellOK(mem.cells[k], Len(mem.layers), Len(mem.cells))
      /\ Len(c.shapes) \in Nat
  BY <1>1, <1>2, InHandIs
<1>4. IsEmpty(mem.cells[k])
  BY <1>1, <1>3, ReadInvHas DEF InHand
<1>5. CASE ~c.layout /\ mem' = mem /\ rd' = [rd EXCEPT !.at = "cell", !.cell = rd.cell + 1, !.k = 1]
  <2>1. rd' = [at |-> "cell", fresh |-> rd.fresh, cell |-> rd.cell + 1, k |-> 1, names |-> rd.names, layers |-> rd.layers]
    BY <1>1, <1>5, ReadInvHas
  <2>2. LET z == file.cells[rd.cell] IN
          /\ z.layout => HasUpto(mem, TargetOf(mem, file, rd.names, rd.cell), rd.names, z, Len(z.shapes), Len(z.insts))
          /\ ~z.layout => IsEmpty(TargetOf(mem, file, rd.names, rd.cell))
    BY <1>3, <1>4, <1>5
  <2> QED  BY <1>1, <1>5, <2>1, <2>2, NextCellKeeps
<1>6. CASE mem' = mem /\ rd' = [rd EXCEPT !.at = "failed"]
  <2>1. rd' = [at |-> "failed", fresh |-> rd.fresh, cell |-> rd.cell, k |-> rd.k, names |-> rd.names, layers |-> rd.layers]
    BY <1>1, <1>6, ReadInvHas
  <2>2. InHand(mem, file, rd.names, rd.cell, "failed", rd.k)
    BY <1>1, FailedInHand, ReadInvHas
  <2> QED  BY <1>1, <1>6, <2>1, <2>2, NothingKeeps
<1>7. CASE c.layout /\ ApplyCoreProperties /\ rd' = [rd EXCEPT !.at = "shapes", !.cell = rd.cell, !.k = 1]
  <2>1. rd' = [at |-> "shapes", fresh |-> rd.fresh, cell |-> rd.cell, k |-> 1, names |-> rd.names, layers |-> rd.layers]
    BY <1>1, <1>7, ReadInvHas
  <2>2. PICK x : mem' = [mem EXCEPT !.cells[k].prop = x]
    BY <1>2, <1>7 DEF ApplyCoreProperties
  <2>3. PICK d : d = [mem.cells[k] EXCEPT !.prop = x]
    OBVIOUS
  <2>4. mem' = [mem EXCEPT !.cells = [@ EXCEPT ![k] = d]]
    BY <2>2, <2>3
  <2>5. CellOK(d, Len(mem.layers), Len(mem.cells)) /\ d.name = mem.cells[k].name /\ SameContent(mem.cells[k], d)
    BY <1>3, <2>3, CellPropChanged
  <2>6. PICK n : n = [mem EXCEPT !.cells = [@ EXCEPT ![k] = d]]
    OBVIOUS
  <2>7. Rewrites(mem, n, k) /\ n.layers = mem.layers /\ n.cells[k] = d
    <3>1. IsLayout(mem) /\ AddsLayers(mem, mem) /\ k \in 1..Len(mem.cells)
      BY <1>1, <1>3, AddsNothing, ReadInvHas
    <3> QED  BY <2>5, <2>6, <3>1, RewritesIs
  <2>8. InHand(n, file, rd.names, rd.cell, "shapes", 1)
    <3>1. IsEmpty(d)
      BY <1>4, <2>5 DEF IsEmpty, SameContent
    <3>2. HasUpto(n, d, rd.names, c, 0, 0)
      BY <1>3, <3>1, HasNothing
    <3>3. TargetOf(n, file, rd.names, rd.cell) = d
      BY <1>3, <2>7 DEF TargetOf
    <3>4. 1 \in 1..(Len(c.shapes) + 1) /\ 1 - 1 = 0
      <4>1. Len(c.shapes) \in Nat
        BY <1>3
      <4> QED  BY <4>1
    <3> QED  BY <1>3, <1>7, <3>2, <3>3, <3>4 DEF InHand
  <2>9. LayersOK(rd.layers, n)
    BY <1>1, <2>7, LayersKept, ReadInvHas DEF Rewrites, Grows
  <2> QED  BY <1>1, <1>2, <2>1, <2>4, <2>6, <2>7, <2>8, <2>9, RewritingKeeps
<1> QED  BY <1>2, <1>5, <1>6, <1>7 DEF BeginCell, Goto, Fails

LEMMA ReadShapeReads == ASSUME IInv, ReadInv, ReadShape PROVE ReadInv'
<1>1. /\ rd.at = "shapes" /\ rd.at \in {"cell", "shapes", "insts"} /\ rd.k <= Len(FileCell.shapes) /\ file' = file
      /\ rd.cell <= Len(file.cells)
  BY DEF ReadShape, IInv, CellInv
<1>2. PICK c, t : c = FileCell /\ t = TargetIndex
  OBVIOUS
<1>3. /\ rd.cell \in 1..Len(file.cells) /\ c = file.cells[rd.cell] /\ t = rd.names[c.name]
      /\ t \in 1..Len(mem.cells) /\ TargetOf(mem, file, rd.names, rd.cell) = mem.cells[t]
  BY <1>1, <1>2, InHandIs
<1>l. IsList(c.shapes) /\ IsList(c.insts) /\ Len(c.shapes) \in Nat /\ rd.k \in Nat /\ rd.k <= Len(c.shapes)
  BY <1>1, <1>2, InHandIs, ReadInvHas
<1>m. /\ IsLayout(mem) /\ CellsOK(mem) /\ LayersOK(rd.layers, mem) /\ NamesOK(rd.names, mem)
      /\ CellOK(mem.cells[t], Len(mem.layers), Len(mem.cells))
  BY <1>1, <1>2, InHandIs, ReadInvHas
<1>r. rd = [at |-> "shapes", fresh |-> rd.fresh, cell |-> rd.cell, k |-> rd.k, names |-> rd.names, layers |-> rd.layers]
  BY <1>1, ReadInvHas
<1>4. c.layout /\ rd.k \in 1..Len(c.shapes) /\ HasUpto(mem, mem.cells[t], rd.names, c, rd.k - 1, 0)
  <2>1. c.layout /\ rd.k \in 1..(Len(c.shapes) + 1) /\ HasUpto(mem, mem.cells[t], rd.names, c, rd.k - 1, 0)
    BY <1>1, <1>3, ReadInvHas DEF InHand
  <2>2. rd.k \in 1..Len(c.shapes)
    BY <1>l, <2>1
  <2> QED  BY <2>1, <2>2
<1>5. PICK shape : shape = c.shapes[rd.k]
  OBVIOUS
<1>6. PICK spec : spec = LayerSpecById(shape.id)
  OBVIOUS
<1>7. PICK layers, l : layers = Extended(rd.layers, spec.ld, LayerIndex(spec)) /\ l = LayerIndex(spec)
  OBVIOUS
<1>8. PICK w : w = WithLayer(mem, spec)
  OBVIOUS
<1>9. PICK s : s = [layer |-> l, kind |-> ReadAs(shape.kind), prop |-> PropertiesIdFromCore(shape.prop)]
  OBVIOUS
<1>10. \/ rd' = [rd EXCEPT !.at = "failed"] /\ mem' = mem
       \/ shape.kind = "path without points" /\ rd' = [rd EXCEPT !.at = "shapes", !.k = @ + 1] /\ mem' = mem
       \/ rd' = [rd EXCEPT !.at = "failed", !.layers = layers] /\ mem' = w
       \/ /\ shape.kind = "polygon without points" /\ mem' = w
          /\ rd' = [rd EXCEPT !.k = @ + 1, !.layers = layers]
       \/ /\ shape.kind \notin {"polygon without points", "path without points"}
          /\ mem' = InsertShape(w, shape, spec)
          /\ rd' = [rd EXCEPT !.k = @ + 1, !.layers = layers]
  BY <1>2, <1>5, <1>6, <1>7, <1>8 DEF ReadShape, Fails, Continue
<1>11. /\ AddsLayers(mem, w) /\ LayersOK(layers, w) /\ l \in 1..Len(w.layers) /\ w.layers[l].ld = spec.ld
  BY <1>m, <1>7, <1>8, LayerMade
<1>12. IsLayout(w) /\ CellsOK(w) /\ w.cells = mem.cells /\ Extends(mem.layers, w.layers, 0)
  BY <1>m, <1>11, LayersAddedOK DEF AddsLayers, Grows
<1>13. HasUpto(w, mem.cells[t], rd.names, c, rd.k - 1, 0)
  <2>1. SameContent(mem.cells[t], mem.cells[t])
    BY DEF SameContent
  <2> QED  BY <1>m, <1>4, <1>12, <2>1, ContentStays
<1>14. rd.k + 1 \in 1..(Len(c.shapes) + 1) /\ (rd.k + 1) - 1 = rd.k
  BY <1>l
<1>15. CASE rd' = [rd EXCEPT !.at = "failed"] /\ mem' = mem
  <2>1. rd' = [at |-> "failed", fresh |-> rd.fresh, cell |-> rd.cell, k |-> rd.k, names |-> rd.names, layers |-> rd.layers]
    BY <1>r, <1>15
  <2>2. InHand(mem, file, rd.names, rd.cell, "failed", rd.k)
    BY <1>1, FailedInHand, ReadInvHas
  <2> QED  BY <1>1, <1>15, <2>1, <2>2, NothingKeeps
<1>16. CASE shape.kind = "path without points" /\ rd' = [rd EXCEPT !.at = "shapes", !.k = @ + 1] /\ mem' = mem
  <2>1. rd' = [at |-> "shapes", fresh |-> rd.fresh, cell |-> rd.cell, k |-> rd.k + 1, names |-> rd.names, layers |-> rd.layers]
    BY <1>r, <1>16
  <2>2. HasUpto(mem, mem.cells[t], rd.names, c, rd.k, 0)
    <3>1. rd.k \notin RealShapes(c)
      BY <1>5, <1>16 DEF RealShapes
    <3> QED  BY <1>l, <1>4, <3>1, ShapeSkipped
  <2>3. InHand(mem, file, rd.names, rd.cell, "shapes", rd.k + 1)
    BY <1>3, <1>4, <1>14, <2>2 DEF InHand
  <2> QED  BY <1>1, <1>16, <2>1, <2>3, NothingKeeps
<1>17. CASE rd' = [rd EXCEPT !.at = "failed", !.layers = layers] /\ mem' = w
  <2>1. rd' = [at |-> "failed", fresh |-> rd.fresh, cell |-> rd.cell, k |-> rd.k, names |-> rd.names, layers |-> layers]
    BY <1>r, <1>17
  <2>2. InHand(w, file, rd.names, rd.cell, "failed", rd.k)
    BY <1>3, <1>4 DEF InHand
  <2> QED  BY <1>1, <1>11, <1>17, <2>1, <2>2, AddingLayerKeeps
<1>18. CASE /\ shape.kind = "polygon without points" /\ mem' = w
            /\ rd' = [rd EXCEPT !.k = @ + 1, !.layers = layers]
  <2>1. rd' = [at |-> "shapes", fresh |-> rd.fresh, cell |-> rd.cell, k |-> rd.k + 1, names |-> rd.names, layers |-> layers]
    <3>1. rd' = [rd EXCEPT !.k = rd.k + 1, !.layers = layers]
      BY <1>18
    <3>2. PICK j : j = rd.k + 1
      OBVIOUS
    <3>3. PICK q : q = [rd EXCEPT !.k = j]
      OBVIOUS
    <3>4. q = [at |-> "shapes", fresh |-> rd.fresh, cell |-> rd.cell, k |-> j, names |-> rd.names, layers |-> rd.layers]
      BY <1>r, <3>3
    <3>5. rd' = [q EXCEPT !.layers = layers]
      BY <3>1, <3>2, <3>3
    <3> QED  BY <3>2, <3>4, <3>5
  <2>2. HasUpto(w, mem.cells[t], rd.names, c, rd.k, 0)
    <3>1. rd.k \notin RealShapes(c)
      BY <1>5, <1>18 DEF RealShapes
    <3> QED  BY <1>l, <1>4, <1>13, <3>1, ShapeSkipped
  <2>3. TargetOf(w, file, rd.names, rd.cell) = mem.cells[t]
    BY <1>3, <1>12 DEF TargetOf
  <2>4. InHand(w, file, rd.names, rd.cell, "shapes", rd.k + 1)
    BY <1>3, <1>4, <1>14, <2>2, <2>3 DEF InHand
  <2> QED  BY <1>1, <1>11, <1>18, <2>1, <2>4, AddingLayerKeeps
<1>19. CASE /\ shape.kind \notin {"polygon without points", "path without points"}
            /\ mem' = InsertShape(w, shape, spec)
            /\ rd' = [rd EXCEPT !.k = @ + 1, !.layers = layers]
  <2>1. rd' = [at |-> "shapes", fresh |-> rd.fresh, cell |-> rd.cell, k |-> rd.k + 1, names |-> rd.names, layers |-> layers]
    <3>1. rd' = [rd EXCEPT !.k = rd.k + 1, !.layers = layers]
      BY <1>19
    <3>2. PICK j : j = rd.k + 1
      OBVIOUS
    <3>3. PICK q : q = [rd EXCEPT !.k = j]
      OBVIOUS
    <3>4. q = [at |-> "shapes", fresh |-> rd.fresh, cell |-> rd.cell, k |-> j, names |-> rd.names, layers |-> rd.layers]
      BY <1>r, <3>3
    <3>5. rd' = [q EXCEPT !.layers = layers]
      BY <3>1, <3>2, <3>3
    <3> QED  BY <3>2, <3>4, <3>5
  <2>2. PICK d : d = [mem.cells[t] EXCEPT !.shapes = Append(@, s)]
    OBVIOUS
  <2>3. mem' = [w EXCEPT !.cells[t].shapes = Append(@, s)]
    BY <1>2, <1>7, <1>9, <1>19 DEF InsertShape
  <2>4. mem' = [w EXCEPT !.cells = [@ EXCEPT ![t] = d]]
    BY <1>12, <2>2, <2>3
  <2>5. CellOK(mem.cells[t], Len(w.layers), Len(w.cells)) /\ s.layer \in 1..Len(w.layers)
    BY <1>3, <1>9, <1>11, <1>12 DEF CellsOK
  <2>6. /\ CellOK(d, Len(w.layers), Len(w.cells)) /\ d.name = mem.cells[t].name /\ d.insts = mem.cells[t].insts
        /\ d.shapes = Append(mem.cells[t].shapes, s)
    BY <2>2, <2>5, CellShapeAdded
  <2>7. PICK n : n = [w EXCEPT !.cells = [@ EXCEPT ![t] = d]]
    OBVIOUS
  <2>8. Rewrites(mem, n, t) /\ n.layers = w.layers /\ n.cells[t] = d
    <3>1. IsLayout(mem) /\ AddsLayers(mem, w) /\ t \in 1..Len(mem.cells)
      BY <1>3, <1>m, <1>11
    <3>2. CellOK(d, Len(w.layers), Len(w.cells)) /\ d.name = mem.cells[t].name
      BY <2>6
    <3> QED  BY <2>7, <3>1, <3>2, RewritesIs
  <2>9. HasUpto(n, d, rd.names, c, rd.k, 0)
    <3>1. HasUpto(n, mem.cells[t], rd.names, c, rd.k - 1, 0)
      <4>1. SameContent(mem.cells[t], mem.cells[t]) /\ Extends(w.layers, n.layers, 0)
        <5>1. Len(w.layers) \in Nat
          BY <1>12, ListIs DEF IsLayout
        <5> QED  BY <1>12, <2>8, <5>1 DEF SameContent, Extends, IsLayout
      <4> QED  BY <1>12, <1>13, <2>5, <4>1, ContentStays
    <3>2. rd.k \in RealShapes(c)
      <4>1. rd.k \in DOMAIN c.shapes
        BY <1>l, <1>4, ListIs
      <4> QED  BY <1>5, <1>19, <4>1 DEF RealShapes
    <3>3. n.layers[s.layer].ld = IF shape.id \in DOMAIN c.layers THEN c.layers[shape.id].ld ELSE <<0, 0>>
      <4>1. spec.ld = IF shape.id \in DOMAIN c.layers THEN c.layers[shape.id].ld ELSE <<0, 0>>
        BY <1>2, <1>6 DEF LayerSpecById
      <4> QED  BY <1>9, <1>11, <2>8, <4>1
    <3>4. IsList(mem.cells[t].shapes) /\ s.kind = ReadAs(shape.kind) /\ s.prop = PropertiesIdFromCore(shape.prop)
      BY <1>m, <1>9 DEF CellOK
    <3> QED  BY <1>l, <1>4, <1>5, <2>6, <3>1, <3>2, <3>3, <3>4, ShapePutIn
  <2>10. InHand(n, file, rd.names, rd.cell, "shapes", rd.k + 1)
    <3>1. TargetOf(n, file, rd.names, rd.cell) = d
      BY <1>3, <2>8 DEF TargetOf
    <3> QED  BY <1>3, <1>4, <1>14, <2>9, <3>1 DEF InHand
  <2>11. LayersOK(layers, n)
    BY <1>11, <2>8 DEF LayersOK
  <2> QED  BY <1>1, <1>2, <2>1, <2>4, <2>7, <2>8, <2>10, <2>11, RewritingKeeps
<1> QED  BY <1>10, <1>15, <1>16, <1>17, <1>18, <1>19

LEMMA ReadInstanceReads == ASSUME IInv, ReadInv, ReadInstance PROVE ReadInv'
<1>1. /\ rd.at = "insts" /\ rd.at \in {"cell", "shapes", "insts"} /\ rd.k <= Len(FileCell.insts) /\ file' = file
      /\ rd.cell <= Len(file.cells)
  BY DEF ReadInstance, IInv, CellInv
<1>2. PICK c, t : c = FileCell /\ t = TargetIndex
  OBVIOUS
<1>3. /\ rd.cell \in 1..Len(file.cells) /\ c = file.cells[rd.cell] /\ t = rd.names[c.name]
      /\ t \in 1..Len(mem.cells) /\ TargetOf(mem, file, rd.names, rd.cell) = mem.cells[t]
  BY <1>1, <1>2, InHandIs
<1>l. IsList(c.shapes) /\ IsList(c.insts) /\ Len(c.insts) \in Nat /\ rd.k \in Nat /\ rd.k <= Len(c.insts)
  BY <1>1, <1>2, InHandIs, ReadInvHas
<1>m. /\ IsLayout(mem) /\ CellsOK(mem) /\ LayersOK(rd.layers, mem) /\ NamesOK(rd.names, mem)
      /\ CellOK(mem.cells[t], Len(mem.layers), Len(mem.cells))
  BY <1>1, <1>2, InHandIs, ReadInvHas
<1>r. rd = [at |-> "insts", fresh |-> rd.fresh, cell |-> rd.cell, k |-> rd.k, names |-> rd.names, layers |-> rd.layers]
  BY <1>1, ReadInvHas
<1>4. c.layout /\ rd.k \in 1..Len(c.insts) /\ HasUpto(mem, mem.cells[t], rd.names, c, Len(c.shapes), rd.k - 1)
  <2>1. c.layout /\ rd.k \in 1..(Len(c.insts) + 1) /\ HasUpto(mem, mem.cells[t], rd.names, c, Len(c.shapes), rd.k - 1)
    BY <1>1, <1>3, ReadInvHas DEF InHand
  <2>2. rd.k \in 1..Len(c.insts)
    BY <1>l, <2>1
  <2> QED  BY <2>1, <2>2
<1>5. PICK inst : inst = c.insts[rd.k]
  OBVIOUS
<1>6. PICK x : x = [cell |-> rd.names[inst.child], rot |-> inst.rot, at |-> inst.at,
                    n |-> 1, prop |-> PropertiesIdFromCore(inst.prop)]
  OBVIOUS
<1>7. \/ rd' = [rd EXCEPT !.at = "failed"] /\ mem' = mem
      \/ inst.child \notin DOMAIN rd.names /\ rd' = [rd EXCEPT !.at = "insts", !.k = @ + 1] /\ mem' = mem
      \/ /\ inst.child \in DOMAIN rd.names /\ rd' = [rd EXCEPT !.at = "insts", !.k = @ + 1]
         /\ mem' = [mem EXCEPT !.cells[t].insts = Append(@, x)]
  BY <1>2, <1>5, <1>6 DEF ReadInstance, Fails, Continue, ChildIndex
<1>8. rd.k + 1 \in 1..(Len(c.insts) + 1) /\ (rd.k + 1) - 1 = rd.k
  BY <1>l
<1>9. CASE rd' = [rd EXCEPT !.at = "failed"] /\ mem' = mem
  <2>1. rd' = [at |-> "failed", fresh |-> rd.fresh, cell |-> rd.cell, k |-> rd.k, names |-> rd.names, layers |-> rd.layers]
    BY <1>r, <1>9
  <2>2. InHand(mem, file, rd.names, rd.cell, "failed", rd.k)
    BY <1>1, FailedInHand, ReadInvHas
  <2> QED  BY <1>1, <1>9, <2>1, <2>2, NothingKeeps
<1>10. CASE inst.child \notin DOMAIN rd.names /\ rd' = [rd EXCEPT !.at = "insts", !.k = @ + 1] /\ mem' = mem
  <2>1. rd' = [at |-> "insts", fresh |-> rd.fresh, cell |-> rd.cell, k |-> rd.k + 1, names |-> rd.names, layers |-> rd.layers]
    BY <1>r, <1>10
  <2>2. HasUpto(mem, mem.cells[t], rd.names, c, Len(c.shapes), rd.k)
    <3>1. rd.k \notin KnownInstances(c, rd.names)
      BY <1>5, <1>10 DEF KnownInstances
    <3> QED  BY <1>l, <1>4, <3>1, InstanceSkipped
  <2>3. InHand(mem, file, rd.names, rd.cell, "insts", rd.k + 1)
    BY <1>3, <1>4, <1>8, <2>2 DEF InHand
  <2> QED  BY <1>1, <1>10, <2>1, <2>3, NothingKeeps
<1>11. CASE /\ inst.child \in DOMAIN rd.names /\ rd' = [rd EXCEPT !.at = "insts", !.k = @ + 1]
            /\ mem' = [mem EXCEPT !.cells[t].insts = Append(@, x)]
  <2>1. rd' = [at |-> "insts", fresh |-> rd.fresh, cell |-> rd.cell, k |-> rd.k + 1, names |-> rd.names, layers |-> rd.layers]
    BY <1>r, <1>11
  <2>2. PICK d : d = [mem.cells[t] EXCEPT !.insts = Append(@, x)]
    OBVIOUS
  <2>3. mem' = [mem EXCEPT !.cells = [@ EXCEPT ![t] = d]]
    BY <1>11, <2>2
  <2>4. x.cell \in 1..Len(mem.cells) /\ x.n \in Nat
    BY <1>m, <1>6, <1>11 DEF NamesOK
  <2>5. /\ CellOK(d, Len(mem.layers), Len(mem.cells)) /\ d.name = mem.cells[t].name /\ d.shapes = mem.cells[t].shapes
        /\ d.insts = Append(mem.cells[t].insts, x)
    <3>1. CellOK(mem.cells[t], Len(mem.layers), Len(mem.cells))
      BY <1>m
    <3>2. PICK cell, ls, cs : cell = mem.cells[t] /\ ls = Len(mem.layers) /\ cs = Len(mem.cells)
      OBVIOUS
    <3>3. CellOK(cell, ls, cs) /\ x.cell \in 1..cs /\ x.n \in Nat
      BY <2>4, <3>1, <3>2
    <3>4. d = [cell EXCEPT !.insts = Append(@, x)]
      BY <2>2, <3>2
    <3>5. LET e == [cell EXCEPT !.insts = Append(@, x)] IN
          CellOK(e, ls, cs) /\ e.name = cell.name /\ e.shapes = cell.shapes /\ e.insts = Append(cell.insts, x)
      BY <3>3, CellInstanceAdded
    <3> QED  BY <3>2, <3>4, <3>5
  <2>6. PICK n : n = [mem EXCEPT !.cells = [@ EXCEPT ![t] = d]]
    OBVIOUS
  <2>7. Rewrites(mem, n, t) /\ n.layers = mem.layers /\ n.cells[t] = d
    <3>1. AddsLayers(mem, mem) /\ t \in 1..Len(mem.cells)
      BY <1>3, <1>m, AddsNothing
    <3> QED  BY <1>m, <2>5, <2>6, <3>1, RewritesIs
  <2>8. HasUpto(n, d, rd.names, c, Len(c.shapes), rd.k)
    <3>1. HasUpto(n, mem.cells[t], rd.names, c, Len(c.shapes), rd.k - 1)
      <4>1. SameContent(mem.cells[t], mem.cells[t]) /\ Extends(mem.layers, n.layers, 0)
        BY <2>7 DEF SameContent, Rewrites, Grows
      <4> QED  BY <1>m, <1>4, <4>1, ContentStays
    <3>2. rd.k \in KnownInstances(c, rd.names)
      <4>1. rd.k \in DOMAIN c.insts
        BY <1>l, <1>4, ListIs
      <4> QED  BY <1>5, <1>11, <4>1 DEF KnownInstances
    <3>3. /\ IsList(mem.cells[t].insts) /\ x.cell = rd.names[inst.child] /\ x.rot = inst.rot /\ x.at = inst.at
          /\ x.prop = PropertiesIdFromCore(inst.prop)
      BY <1>m, <1>6 DEF CellOK
    <3> QED  BY <1>l, <1>4, <1>5, <2>5, <3>1, <3>2, <3>3, InstancePutIn
  <2>9. InHand(n, file, rd.names, rd.cell, "insts", rd.k + 1)
    <3>1. TargetOf(n, file, rd.names, rd.cell) = d
      BY <1>3, <2>7 DEF TargetOf
    <3> QED  BY <1>3, <1>4, <1>8, <2>8, <3>1 DEF InHand
  <2>10. LayersOK(rd.layers, n)
    BY <1>m, <2>7 DEF LayersOK
  <2> QED  BY <1>1, <1>2, <2>1, <2>3, <2>6, <2>7, <2>9, <2>10, RewritingKeeps
<1> QED  BY <1>7, <1>9, <1>10, <1>11

-----------------------------------------------------------------------------
(* Lists put together                                                      *)

\* The lists up to each one, put together.
Flat(ss) ==
  LET flatten[i \in 1..Len(ss)] == IF i = 1 THEN ss[i] ELSE flatten[i - 1] \o ss[i]
  IN  flatten

LEMMA FlatDef ==
  ASSUME NEW ss, Len(ss) \in Nat
  PROVE  /\ Len(ss) > 0 => Flat(ss)[1] = ss[1]
         /\ \A i \in 2..Len(ss) : Flat(ss)[i] = Flat(ss)[i - 1] \o ss[i]
<1> DEFINE Body(f, i) == IF i = 1 THEN ss[i] ELSE f[i - 1] \o ss[i]
           T == {n \in Nat : \E f : f = [i \in 1..n |-> Body(f, i)]}
<1>1. 0 \in T
  <2> DEFINE f == [i \in 1..0 |-> 0]
  <2>1. f = [i \in 1..0 |-> Body(f, i)]
    OBVIOUS
  <2> QED  BY <2>1
<1>2. ASSUME NEW n \in Nat, n \in T PROVE n + 1 \in T
  <2>1. PICK f : f = [i \in 1..n |-> Body(f, i)]
    BY <1>2
  <2> DEFINE g == [i \in 1..(n + 1) |-> IF i <= n THEN f[i] ELSE Body(f, i)]
  <2>2. ASSUME NEW i \in 1..(n + 1) PROVE g[i] = Body(g, i)
    <3>1. Body(g, i) = Body(f, i)
      <4>1. CASE i = 1
        BY <4>1
      <4>2. CASE i # 1
        <5>1. i - 1 \in 1..n /\ i - 1 \in 1..(n + 1) /\ i - 1 <= n
          BY <4>2
        <5>2. g[i - 1] = f[i - 1]
          BY <5>1
        <5>3. Body(g, i) = g[i - 1] \o ss[i] /\ Body(f, i) = f[i - 1] \o ss[i]
          BY <4>2
        <5> HIDE DEF Body, g
        <5> QED  BY <5>2, <5>3
      <4> QED  BY <4>1, <4>2
    <3>2. g[i] = Body(f, i)
      <4> HIDE DEF Body
      <4>1. CASE i <= n
        <5>1. i \in 1..n
          BY <4>1
        <5> QED  BY <2>1, <4>1, <5>1
      <4>2. CASE ~(i <= n)
        BY <4>2
      <4> QED  BY <4>1, <4>2
    <3> QED  BY <3>1, <3>2
  <2> HIDE DEF Body
  <2>3. g = [i \in 1..(n + 1) |-> Body(g, i)]
    BY <2>2
  <2> HIDE DEF g
  <2> QED  BY <2>3
<1>3. Len(ss) \in T
  <2> HIDE DEF T
  <2> QED  BY <1>1, <1>2, SetInduction
<1> HIDE DEF Body
<1>4. \E f : f = [i \in 1..Len(ss) |-> Body(f, i)]
  BY <1>3
<1>5. PICK p : p = Flat(ss)
  OBVIOUS
<1>6. p = CHOOSE f : f = [i \in 1..Len(ss) |-> Body(f, i)]
  BY <1>5 DEF Flat, Body
<1>7. p = [i \in 1..Len(ss) |-> Body(p, i)]
  BY <1>4, <1>6
<1>8. \A i \in 1..Len(ss) : p[i] = Body(p, i)
  BY <1>7
<1>9. (Len(ss) > 0 => 1 \in 1..Len(ss)) /\ \A i \in 2..Len(ss) : i \in 1..Len(ss) /\ i # 1
  OBVIOUS
<1> QED  BY <1>5, <1>8, <1>9 DEF Body

LEMMA FlattenIs == ASSUME NEW ss PROVE FlattenSeq(ss) = IF Len(ss) = 0 THEN ss ELSE Flat(ss)[Len(ss)]
BY DEF FlattenSeq, Flat

IsListOfLists(ss) == IsList(ss) /\ \A i \in 1..Len(ss) : IsList(ss[i])

\* Lists in one list, and their elements in one set.
LEMMA ListsHaveElements ==
  ASSUME NEW ss, IsListOfLists(ss)
  PROVE  \E S : \A i \in 1..Len(ss) : ss[i] \in Seq(S)
<1> DEFINE S == UNION {{ss[i][j] : j \in 1..Len(ss[i])} : i \in 1..Len(ss)}
<1>1. ASSUME NEW i \in 1..Len(ss) PROVE ss[i] \in Seq(S)
  <2>1. PICK T : ss[i] \in Seq(T)
    BY DEF IsListOfLists, IsList
  <2>2. PICK n \in Nat : n = Len(ss[i]) /\ ss[i] \in [1..n -> T]
    BY <2>1, LenProperties
  <2>3. \A j \in 1..n : ss[i][j] \in S
    BY <2>2
  <2> HIDE DEF S
  <2>4. ss[i] \in [1..n -> S]
    BY <2>2, <2>3
  <2> QED  BY <2>2, <2>4, SeqDef
<1> QED  BY <1>1

LEMMA FlatIsList ==
  ASSUME NEW ss, IsListOfLists(ss)
  PROVE  /\ \A n \in 1..Len(ss) : IsList(Flat(ss)[n])
         /\ IsList(FlattenSeq(ss))
<1>1. Len(ss) \in Nat /\ IsList(ss)
  BY ListIs DEF IsListOfLists
<1>2. PICK S : \A i \in 1..Len(ss) : ss[i] \in Seq(S)
  BY ListsHaveElements
<1> DEFINE T == {n \in Nat : n + 1 <= Len(ss) => Flat(ss)[n + 1] \in Seq(S)}
<1>3. 0 \in T
  <2> SUFFICES ASSUME 0 + 1 <= Len(ss) PROVE Flat(ss)[0 + 1] \in Seq(S)
    OBVIOUS
  <2>1. 0 + 1 = 1 /\ 1 \in 1..Len(ss) /\ Len(ss) > 0
    BY <1>1
  <2> QED  BY <1>1, <1>2, <2>1, FlatDef
<1>4. ASSUME NEW n \in Nat, n \in T PROVE n + 1 \in T
  <2> SUFFICES ASSUME (n + 1) + 1 <= Len(ss) PROVE Flat(ss)[(n + 1) + 1] \in Seq(S)
    OBVIOUS
  <2>1. PICK i : i = (n + 1) + 1
    OBVIOUS
  <2>2. i \in 2..Len(ss) /\ i \in 1..Len(ss) /\ i - 1 = n + 1 /\ n + 1 <= Len(ss)
    BY <1>1, <2>1
  <2>3. Flat(ss)[i] = Flat(ss)[n + 1] \o ss[i]
    BY <1>1, <2>2, FlatDef
  <2>4. Flat(ss)[n + 1] \in Seq(S) /\ ss[i] \in Seq(S)
    BY <1>2, <1>4, <2>2
  <2> QED  BY <2>1, <2>3, <2>4, ConcatProperties
<1> HIDE DEF T
<1>5. \A n \in Nat : n \in T
  BY <1>3, <1>4, SetInduction
<1>6. ASSUME NEW n \in 1..Len(ss) PROVE Flat(ss)[n] \in Seq(S)
  <2>1. n - 1 \in Nat /\ (n - 1) + 1 = n /\ n <= Len(ss)
    BY <1>1
  <2>2. n - 1 \in T
    BY <1>5, <2>1
  <2> QED  BY <2>1, <2>2 DEF T
<1>7. IsList(FlattenSeq(ss))
  <2>1. CASE Len(ss) = 0
    BY <1>1, <2>1, FlattenIs
  <2>2. CASE Len(ss) # 0
    <3>1. Len(ss) \in 1..Len(ss)
      BY <1>1, <2>2
    <3> QED  BY <1>6, <2>2, <3>1, FlattenIs DEF IsList
  <2> QED  BY <2>1, <2>2
<1> QED  BY <1>6, <1>7 DEF IsList

LEMMA PartIsList == ASSUME NEW s, IsList(s), NEW positions PROVE IsList(Part(s, positions))
<1>1. PICK S : s \in Seq(S)
  BY DEF IsList
<1> QED  BY <1>1, PartProperties DEF IsList

\* A function on the positions of a list.
LEMMA ListOver ==
  ASSUME NEW s, IsList(s), NEW t, DOMAIN t = DOMAIN s, t = [i \in DOMAIN t |-> t[i]]
  PROVE  IsList(t) /\ Len(t) = Len(s)
<1>1. PICK n \in Nat : n = Len(s) /\ DOMAIN s = 1..n
  BY ListIs
<1>2. PICK S : S = {t[i] : i \in 1..n}
  OBVIOUS
<1>3. t \in [1..n -> S]
  BY <1>1, <1>2
<1>4. t \in Seq(S)
  BY <1>1, <1>3, SeqDef
<1>5. Len(t) = n
  <2>1. DOMAIN t = 1..n /\ DOMAIN t = 1..Len(t) /\ Len(t) \in Nat
    BY <1>1, <1>4, LenProperties
  <2> QED  BY <1>1, <2>1
<1> QED  BY <1>1, <1>4, <1>5 DEF IsList

-----------------------------------------------------------------------------
(* How often something is in a list                                        *)

Occurs(s, X) == {i \in 1..Len(s) : s[i] \in X}
Count(s, X) == Cardinality(Occurs(s, X))

LEMMA OccursFinite == ASSUME NEW s, IsList(s), NEW X PROVE IsFiniteSet(Occurs(s, X)) /\ Count(s, X) \in Nat
<1>1. PICK n \in Nat : n = Len(s)
  BY ListIs
<1>2. IsFiniteSet(1..n)
  BY FS_Interval
<1>3. PICK S : S = 1..n
  OBVIOUS
<1>4. Occurs(s, X) \in SUBSET S
  BY <1>1, <1>3 DEF Occurs
<1>5. IsFiniteSet(Occurs(s, X))
  BY <1>2, <1>3, <1>4, FS_Subset
<1> QED  BY <1>5, FS_CardinalityType DEF Count

LEMMA ListsJoined ==
  ASSUME NEW s, IsList(s), NEW t, IsList(t)
  PROVE  /\ IsList(s \o t) /\ Len(s \o t) = Len(s) + Len(t)
         /\ \A i \in 1..Len(s) : (s \o t)[i] = s[i]
         /\ \A j \in 1..Len(t) : (s \o t)[Len(s) + j] = t[j]
<1>0. PICK u : u = s \o t
  OBVIOUS
<1>1. PICK S, T : s \in Seq(S) /\ t \in Seq(T)
  BY DEF IsList
<1>2. PICK U : U = S \cup T
  OBVIOUS
<1>3. s \in Seq(U) /\ t \in Seq(U)
  BY <1>1, <1>2, SeqMonotonic
<1>4. PICK n \in Nat, k \in Nat : n = Len(s) /\ k = Len(t)
  BY ListIs
<1>5. u \in Seq(U) /\ Len(u) = n + k /\ \A i \in 1..(n + k) : u[i] = IF i <= n THEN s[i] ELSE t[i - n]
  BY <1>0, <1>3, <1>4, ConcatProperties
<1>6. \A i \in 1..n : i \in 1..(n + k) /\ i <= n
  OBVIOUS
<1>7. \A j \in 1..k : n + j \in 1..(n + k) /\ ~(n + j <= n) /\ (n + j) - n = j
  OBVIOUS
<1> QED  BY <1>0, <1>4, <1>5, <1>6, <1>7 DEF IsList

LEMMA DisjointCounted ==
  ASSUME NEW A, IsFiniteSet(A), NEW B, IsFiniteSet(B), A \cap B = {}
  PROVE  IsFiniteSet(A \cup B) /\ Cardinality(A \cup B) = Cardinality(A) + Cardinality(B)
<1>1. Cardinality(A) \in Nat /\ Cardinality(B) \in Nat
  BY FS_CardinalityType
<1>2. Cardinality(A \cap B) = 0
  BY FS_EmptySet
<1>3. IsFiniteSet(A \cup B) /\ Cardinality(A \cup B) = Cardinality(A) + Cardinality(B) - Cardinality(A \cap B)
  BY FS_Union
<1> QED  BY <1>1, <1>2, <1>3

LEMMA CountJoined ==
  ASSUME NEW s, IsList(s), NEW t, IsList(t), NEW X
  PROVE  Count(s \o t, X) = Count(s, X) + Count(t, X)
<1>0. PICK u : u = s \o t
  OBVIOUS
<1>1. PICK n \in Nat, k \in Nat : n = Len(s) /\ k = Len(t)
  BY ListIs
<1>2. /\ Len(u) = n + k
      /\ \A i \in 1..n : u[i] = s[i]
      /\ \A j \in 1..k : u[n + j] = t[j]
  BY <1>0, <1>1, ListsJoined
<1>3. PICK A, B, D : A = Occurs(s, X) /\ B = Occurs(t, X) /\ D = {n + j : j \in B}
  OBVIOUS
<1>4. \A j \in B : j \in 1..k /\ t[j] \in X
  BY <1>1, <1>3 DEF Occurs
<1>5. IsFiniteSet(A) /\ IsFiniteSet(B)
  BY <1>3, OccursFinite
<1>6. PICK f : f = [j \in B |-> n + j]
  OBVIOUS
<1>7. f \in Bijection(B, D)
  <2>1. f \in [B -> D] /\ \A x \in D : \E j \in B : f[j] = x
    BY <1>3, <1>6
  <2>2. \A i \in B, j \in B : f[i] = f[j] => i = j
    BY <1>4, <1>6
  <2> QED  BY <2>1, <2>2 DEF Bijection, Injection, Surjection, IsInjective
<1>8. IsFiniteSet(D) /\ Cardinality(D) = Cardinality(B)
  BY <1>5, <1>7, FS_Bijection DEF ExistsBijection
<1>9. Occurs(u, X) = A \cup D
  <2>1. ASSUME NEW i \in Occurs(u, X) PROVE i \in A \cup D
    <3>1. i \in 1..(n + k) /\ u[i] \in X
      BY <1>2 DEF Occurs
    <3>2. CASE i <= n
      <4>1. i \in 1..n
        BY <3>1, <3>2
      <4> QED  BY <1>1, <1>2, <1>3, <3>1, <4>1 DEF Occurs
    <3>3. CASE ~(i <= n)
      <4>1. PICK j \in 1..k : i = n + j
        <5>1. i - n \in 1..k /\ i = n + (i - n)
          BY <3>1, <3>3
        <5> QED  BY <5>1
      <4>2. j \in B
        BY <1>1, <1>2, <1>3, <3>1, <4>1 DEF Occurs
      <4> QED  BY <1>3, <4>1, <4>2
    <3> QED  BY <3>2, <3>3
  <2>2. ASSUME NEW i \in A PROVE i \in Occurs(u, X)
    <3>1. i \in 1..n /\ s[i] \in X
      BY <1>1, <1>3 DEF Occurs
    <3>2. i \in 1..(n + k)
      BY <3>1
    <3> QED  BY <1>2, <3>1, <3>2 DEF Occurs
  <2>3. ASSUME NEW i \in D PROVE i \in Occurs(u, X)
    <3>1. PICK j \in B : i = n + j
      BY <1>3
    <3>2. j \in 1..k /\ t[j] \in X /\ n + j \in 1..(n + k)
      BY <1>4
    <3> QED  BY <1>2, <3>1, <3>2 DEF Occurs
  <2> QED  BY <2>1, <2>2, <2>3
<1>10. A \cap D = {}
  <2> SUFFICES ASSUME NEW i \in A, i \in D PROVE FALSE
    OBVIOUS
  <2>1. i \in 1..n
    BY <1>1, <1>3 DEF Occurs
  <2>2. PICK j \in B : i = n + j
    BY <1>3
  <2> QED  BY <1>4, <2>1, <2>2
<1>11. Cardinality(A \cup D) = Cardinality(A) + Cardinality(D)
  BY <1>5, <1>8, <1>10, DisjointCounted
<1> QED  BY <1>0, <1>3, <1>8, <1>9, <1>11 DEF Count

LEMMA CountAppended ==
  ASSUME NEW s, IsList(s), NEW x, NEW u, u = Append(s, x), NEW X
  PROVE  /\ x \in X => Count(u, X) = Count(s, X) + 1
         /\ x \notin X => Count(u, X) = Count(s, X)
<1>1. PICK n \in Nat : n = Len(s)
  BY ListIs
<1>2. Len(u) = n + 1 /\ u[n + 1] = x /\ \A i \in 1..n : u[i] = s[i]
  BY <1>1, ListAppended DEF Extends
<1>3. \A i \in 1..(n + 1) : i \in 1..n \/ i = n + 1
  OBVIOUS
<1>4. \A i \in 1..n : i \in 1..(n + 1) /\ i # n + 1
  OBVIOUS
<1>5. n + 1 \in 1..(n + 1) /\ n + 1 \notin 1..n
  OBVIOUS
<1>6. IsFiniteSet(Occurs(s, X)) /\ n + 1 \notin Occurs(s, X)
  BY <1>1, <1>5, OccursFinite DEF Occurs
<1>7. ASSUME x \in X PROVE Count(u, X) = Count(s, X) + 1
  <2>1. Occurs(u, X) = Occurs(s, X) \cup {n + 1}
    BY <1>1, <1>2, <1>3, <1>4, <1>5, <1>7 DEF Occurs
  <2> QED  BY <1>6, <2>1, FS_AddElement DEF Count
<1>8. ASSUME x \notin X PROVE Count(u, X) = Count(s, X)
  <2>1. Occurs(u, X) = Occurs(s, X)
    BY <1>1, <1>2, <1>3, <1>4, <1>5, <1>8 DEF Occurs
  <2> QED  BY <2>1 DEF Count
<1> QED  BY <1>7, <1>8

LEMMA NoneCounted == ASSUME NEW X PROVE Count(<<>>, X) = 0
<1>1. Occurs(<<>>, X) = {}
  BY DEF Occurs
<1> QED  BY <1>1, FS_EmptySet DEF Count

\* In a part of a list is what is at its positions, as often as it is there.
LEMMA PartCounted ==
  ASSUME NEW s, IsList(s), NEW positions, NEW X
  PROVE  Count(Part(s, positions), X) = Cardinality({i \in 1..Len(s) : i \in positions /\ s[i] \in X})
<1>1. PICK len \in Nat : len = Len(s)
  BY ListIs
<1> DEFINE U(n) == Upto(s, positions)[n]
           I(n) == {i \in 1..n : i \in positions /\ s[i] \in X}
           T == {n \in Nat : n <= len => Count(U(n), X) = Cardinality(I(n))}
<1>2. 0 \in T
  <2>1. U(0) = <<>> /\ I(0) = {}
    BY UptoStarts
  <2> QED  BY <2>1, NoneCounted, FS_EmptySet
<1>3. ASSUME NEW n \in Nat, n \in T PROVE n + 1 \in T
  <2> SUFFICES ASSUME n + 1 <= len PROVE Count(U(n + 1), X) = Cardinality(I(n + 1))
    OBVIOUS
  <2>1. PICK k : k = n + 1
    OBVIOUS
  <2>2. k \in 1..len /\ k - 1 = n /\ n \in 0..len /\ n <= len
    BY <2>1
  <2>3. Count(U(n), X) = Cardinality(I(n))
    BY <1>3, <2>2
  <2>4. IsList(U(n))
    BY <1>1, <2>2, UptoIsList
  <2>5. k \in 1..k /\ k \notin 1..n /\ (\A i \in 1..k : i \in 1..n \/ i = k) /\ (\A i \in 1..n : i \in 1..k)
    BY <2>1
  <2>6. IsFiniteSet(I(n))
    <3>1. PICK S : S = 1..n
      OBVIOUS
    <3>2. I(n) \in SUBSET S /\ IsFiniteSet(S)
      BY <3>1, FS_Interval
    <3> HIDE DEF I
    <3> QED  BY <3>2, FS_Subset
  <2>7. /\ k \in positions => U(k) = Append(U(n), s[k])
        /\ k \notin positions => U(k) = U(n)
    <3>1. IsList(s) /\ k \in 1..Len(s)
      BY <1>1, <2>2
    <3>2. ASSUME k \in positions PROVE Upto(s, positions)[k] = Append(Upto(s, positions)[k - 1], s[k])
      BY ONLY <3>1, <3>2, UptoGoesOn
    <3>3. ASSUME k \notin positions PROVE Upto(s, positions)[k] = Upto(s, positions)[k - 1]
      BY ONLY <3>1, <3>3, UptoGoesOn
    <3> QED  BY <2>2, <3>2, <3>3
  <2>8. CASE k \in positions /\ s[k] \in X
    <3>1. I(k) = I(n) \cup {k} /\ k \notin I(n)
      BY <2>5, <2>8
    <3>2. Count(U(k), X) = Count(U(n), X) + 1
      <4> HIDE DEF U
      <4> QED  BY <2>4, <2>7, <2>8, CountAppended
    <3>3. Cardinality(I(n) \cup {k}) = Cardinality(I(n)) + 1
      <4> HIDE DEF I
      <4> QED  BY <2>6, <3>1, FS_AddElement
    <3> HIDE DEF U, I
    <3> QED  BY <2>1, <2>3, <3>1, <3>2, <3>3
  <2>9. CASE ~(k \in positions /\ s[k] \in X)
    <3>1. I(k) = I(n)
      BY <2>5, <2>9
    <3>2. Count(U(k), X) = Count(U(n), X)
      <4> HIDE DEF U
      <4>1. CASE k \in positions
        BY <2>4, <2>7, <2>9, <4>1, CountAppended
      <4>2. CASE k \notin positions
        BY <2>7, <4>2
      <4> QED  BY <4>1, <4>2
    <3> HIDE DEF U, I
    <3> QED  BY <2>1, <2>3, <3>1, <3>2
  <2> QED  BY <2>8, <2>9
<1> HIDE DEF T
<1>4. len \in T
  BY <1>2, <1>3, SetInduction
<1>5. Count(U(len), X) = Cardinality(I(len))
  BY <1>4 DEF T
<1> QED  BY <1>1, <1>5 DEF Part

\* The cells that have a name, in their order; no two of them have the same.
LEMMA NamedIsList == ASSUME NEW cells, IsList(cells) PROVE IsList(Named(cells))
<1>1. PICK P : P = {i \in DOMAIN cells : cells[i].name # NoName}
  OBVIOUS
<1> QED  BY <1>1, PartIsList DEF Named

LEMMA NamedIsOne ==
  ASSUME NEW cells, IsList(cells), NEW s, s = Named(cells), NEW k, k \in 1..Len(s)
  PROVE  \E i \in 1..Len(cells) : s[k] = cells[i] /\ cells[i].name # NoName
<1>1. PICK S : cells \in Seq(S)
  BY DEF IsList
<1>2. PICK P : P = {i \in DOMAIN cells : cells[i].name # NoName}
  OBVIOUS
<1>3. s = Part(cells, P)
  BY <1>2 DEF Named
<1>4. s \in Seq(S) /\ \A l \in DOMAIN s : \E i \in DOMAIN cells : i \in P /\ s[l] = cells[i]
  BY <1>1, <1>3, PartRange
<1>5. DOMAIN s = 1..Len(s) /\ DOMAIN cells = 1..Len(cells)
  BY <1>1, <1>4, LenProperties
<1>6. PICK i \in DOMAIN cells : i \in P /\ s[k] = cells[i]
  BY <1>4, <1>5
<1> QED  BY <1>2, <1>5, <1>6

LEMMA NamedIsThere ==
  ASSUME NEW cells, IsList(cells), NEW s, s = Named(cells), NEW i, i \in 1..Len(cells), cells[i].name # NoName
  PROVE  \E k \in 1..Len(s) : s[k] = cells[i]
<1>1. PICK S : cells \in Seq(S)
  BY DEF IsList
<1>2. PICK P : P = {j \in DOMAIN cells : cells[j].name # NoName}
  OBVIOUS
<1>3. s = Part(cells, P)
  BY <1>2 DEF Named
<1>4. s \in Seq(S) /\ \A j \in DOMAIN cells : j \in P => \E k \in DOMAIN s : s[k] = cells[j]
  BY <1>1, <1>3, PartRange
<1>5. DOMAIN s = 1..Len(s) /\ DOMAIN cells = 1..Len(cells)
  BY <1>1, <1>4, LenProperties
<1>6. i \in P
  BY <1>2, <1>5
<1> QED  BY <1>4, <1>5, <1>6

LEMMA NamedAreDistinct ==
  ASSUME NEW cells, IsList(cells), AreUnique(cells), NEW s, s = Named(cells)
  PROVE  AreDistinct(s)
<1>1. PICK n \in Nat : n = Len(cells) /\ DOMAIN cells = 1..n
  BY ListIs
<1>2. PICK P : P = {i \in DOMAIN cells : cells[i].name # NoName}
  OBVIOUS
<1>3. s = Part(cells, P)
  BY <1>2 DEF Named
<1>4. ASSUME NEW k \in 1..Len(s), NEW l \in 1..Len(s), s[k].name = s[l].name PROVE k = l
  <2>1. PICK i \in 1..n : s[k] = cells[i] /\ cells[i].name # NoName
    BY <1>1, NamedIsOne
  <2>2. PICK j \in 1..n : s[l] = cells[j]
    BY <1>1, NamedIsOne
  <2>3. \A h \in 1..n : cells[i].name = cells[h].name => i = h
    BY <1>1, <2>1, UniqueIs
  <2>4. j = i
    BY <1>4, <2>1, <2>2, <2>3
  <2>5. PICK x : x = cells[i]
    OBVIOUS
  <2>6. {h \in 1..n : h \in P /\ cells[h] \in {x}} = {i}
    BY <1>1, <1>2, <2>1, <2>3, <2>5
  <2>7. Count(s, {x}) = 1
    <3>1. Count(Part(cells, P), {x}) = Cardinality({h \in 1..Len(cells) : h \in P /\ cells[h] \in {x}})
      BY PartCounted
    <3>2. Count(s, {x}) = Cardinality({i})
      BY <1>1, <1>3, <2>6, <3>1
    <3> QED  BY <3>2, FS_Singleton
  <2>8. IsList(s)
    BY NamedIsList
  <2>9. \E h : Occurs(s, {x}) = {h}
    BY <2>7, <2>8, OccursFinite, FS_Singleton DEF Count
  <2>10. k \in Occurs(s, {x}) /\ l \in Occurs(s, {x})
    BY <2>1, <2>2, <2>4, <2>5 DEF Occurs
  <2> QED  BY <2>9, <2>10
<1> QED  BY <1>4 DEF AreDistinct

-----------------------------------------------------------------------------
(* A file that is saved                                                    *)

LEMMA WrittenLayersIsList == ASSUME NEW m, IsLayout(m) PROVE IsList(WrittenLayers(m)) /\ IsList(LayerIndexes(m))
<1>1. IsList(LayerIndexes(m))
  <2>1. PICK t : t = LayerIndexes(m)
    OBVIOUS
  <2>2. t = [l \in DOMAIN m.layers |-> l]
    BY <2>1 DEF LayerIndexes
  <2>3. DOMAIN t = DOMAIN m.layers /\ t = [l \in DOMAIN t |-> t[l]]
    BY <2>2
  <2> QED  BY <2>1, <2>3, ListOver DEF IsLayout
<1> QED  BY <1>1, PartIsList DEF WrittenLayers

\* The shapes of a cell, layer by layer.
ShapesByLayer(m, cell) == [i \in DOMAIN WrittenLayers(m) |-> ShapesOn(cell, WrittenLayers(m)[i])]

LEMMA ShapesByLayerIs ==
  ASSUME NEW m, IsLayout(m), NEW cell, IsList(cell.shapes)
  PROVE  IsListOfLists(ShapesByLayer(m, cell)) /\ Len(ShapesByLayer(m, cell)) = Len(WrittenLayers(m))
<1>1. PICK t : t = ShapesByLayer(m, cell)
  OBVIOUS
<1>2. t = [i \in DOMAIN WrittenLayers(m) |-> ShapesOn(cell, WrittenLayers(m)[i])]
  BY <1>1 DEF ShapesByLayer
<1>3. DOMAIN t = DOMAIN WrittenLayers(m) /\ t = [i \in DOMAIN t |-> t[i]]
  BY <1>2
<1>4. IsList(t) /\ Len(t) = Len(WrittenLayers(m))
  BY <1>3, ListOver, WrittenLayersIsList
<1>5. ASSUME NEW i \in 1..Len(t) PROVE IsList(t[i])
  <2>1. i \in DOMAIN WrittenLayers(m)
    BY <1>3, <1>4, ListIs
  <2>2. t[i] = ShapesOn(cell, WrittenLayers(m)[i])
    BY <1>2, <2>1
  <2> QED  BY <2>2, PartIsList DEF ShapesOn
<1> QED  BY <1>1, <1>4, <1>5 DEF IsListOfLists

LEMMA WriteShapesIs ==
  ASSUME NEW m, IsLayout(m), NEW cell, IsList(cell.shapes)
  PROVE  LET all == FlattenSeq(ShapesByLayer(m, cell)) IN
         /\ IsList(all) /\ IsList(WriteShapes(m, cell)) /\ DOMAIN WriteShapes(m, cell) = DOMAIN all
         /\ Len(WriteShapes(m, cell)) = Len(all)
         /\ \A i \in DOMAIN all : WriteShapes(m, cell)[i] = WriteShape(m, all[i])
<1>1. PICK all : all = FlattenSeq(ShapesByLayer(m, cell))
  OBVIOUS
<1>2. PICK t : t = WriteShapes(m, cell)
  OBVIOUS
<1>3. IsList(all)
  BY <1>1, ShapesByLayerIs, FlatIsList
<1>4. t = [i \in DOMAIN all |-> WriteShape(m, all[i])]
  BY <1>1, <1>2 DEF WriteShapes, ShapesByLayer
<1>5. DOMAIN t = DOMAIN all /\ t = [i \in DOMAIN t |-> t[i]]
  BY <1>4
<1> QED  BY <1>1, <1>2, <1>3, <1>4, <1>5, ListOver

\* The elements of the arrays of a cell, as they are written.
ArraysWritten(m, cell) == [i \in DOMAIN cell.insts |-> WriteArray(m, cell.insts[i])]

LEMMA ArraysWrittenIs ==
  ASSUME NEW m, NEW cell, IsList(cell.insts), \A i \in 1..Len(cell.insts) : cell.insts[i].n \in Nat
  PROVE  /\ IsListOfLists(ArraysWritten(m, cell)) /\ Len(ArraysWritten(m, cell)) = Len(cell.insts)
         /\ WriteInstances(m, cell) = FlattenSeq(ArraysWritten(m, cell)) /\ IsList(WriteInstances(m, cell))
<1>1. PICK t : t = ArraysWritten(m, cell)
  OBVIOUS
<1>2. t = [i \in DOMAIN cell.insts |-> WriteArray(m, cell.insts[i])]
  BY <1>1 DEF ArraysWritten
<1>3. DOMAIN t = DOMAIN cell.insts /\ t = [i \in DOMAIN t |-> t[i]]
  BY <1>2
<1>4. IsList(t) /\ Len(t) = Len(cell.insts)
  BY <1>3, ListOver
<1>5. ASSUME NEW i \in 1..Len(t) PROVE IsList(t[i])
  <2>1. i \in DOMAIN cell.insts /\ cell.insts[i].n \in Nat
    BY <1>3, <1>4, ListIs
  <2>2. PICK u, n : u = t[i] /\ n = ElementsWritten(m, cell.insts[i])
    OBVIOUS
  <2>3. u = WriteArray(m, cell.insts[i])
    BY <1>2, <2>1, <2>2
  <2>4. DOMAIN u = 1..n /\ u = [e \in 1..n |-> u[e]]
    BY <2>2, <2>3 DEF WriteArray
  <2>5. PICK S : S = {u[e] : e \in 1..n}
    OBVIOUS
  <2>6. u \in [1..n -> S] /\ n \in Nat
    BY <2>1, <2>2, <2>4, <2>5 DEF ElementsWritten
  <2>7. u \in Seq(S)
    BY <2>6, SeqDef
  <2> QED  BY <2>2, <2>7 DEF IsList
<1>6. IsListOfLists(t)
  BY <1>4, <1>5 DEF IsListOfLists
<1>7. WriteInstances(m, cell) = FlattenSeq(t)
  BY <1>1 DEF WriteInstances, ArraysWritten
<1> QED  BY <1>1, <1>4, <1>6, <1>7, FlatIsList

-----------------------------------------------------------------------------
(* The steps between the cells, and the begin of a read                    *)

\* Whenever a cell is to be added, the number that uniquify_cell_name is left with if
\* all it tries are taken is free.  (Adding A with A$2 and A$3 there makes A$4 of two
\* bits, and that may well be; a further A would be called A$4 again.)
NumbersLeft ==
  rd.at = "add" /\ rd.k \in DOMAIN file.cells =>
    WithNumber(file.cells[rd.k].name, PowerOfTwo[SuffixBits]) \notin CellNames(mem)

\* A cell of a new name is put behind the others.
LEMMA NewCellOK ==
  ASSUME NEW m, IsLayout(m), CellsOK(m), NEW name, name \notin CellNames(m), NEW n,
         Grows(m, n, 0), Len(n.cells) = Len(m.cells) + 1, n.layers = m.layers,
         n.cells[Len(m.cells) + 1] = NewCell(name)
  PROVE  CellsOK(n)
<1>1. /\ IsLayout(n) /\ Len(m.layers) \in Nat /\ Len(m.cells) \in Nat /\ Len(n.cells) \in Nat
      /\ DOMAIN m.cells = 1..Len(m.cells)
  BY ListIs DEF IsLayout, Grows
<1>2. \A i \in 1..Len(m.cells) : n.cells[i] = m.cells[i]
  BY <1>1 DEF Grows, Extends
<1>3. \A i \in 1..Len(n.cells) : i \in 1..Len(m.cells) \/ i = Len(m.cells) + 1
  BY <1>1
<1>4. NewCell(name).name = name
  BY DEF NewCell
<1>5. CellOK(NewCell(name), Len(n.layers), Len(n.cells))
  <2>1. PICK c : c = NewCell(name)
    OBVIOUS
  <2>2. c = [name |-> name, ghost |-> FALSE, prop |-> {}, shapes |-> <<>>, insts |-> <<>>]
    BY <2>1 DEF NewCell
  <2>3. <<>> \in Seq({}) /\ Len(<<>>) = 0
    OBVIOUS
  <2>4. IsList(c.shapes) /\ IsList(c.insts) /\ Len(c.shapes) = 0 /\ Len(c.insts) = 0
    BY <2>2, <2>3 DEF IsList
  <2> QED  BY <2>1, <2>2, <2>4 DEF CellOK
<1>6. ASSUME NEW i \in 1..Len(n.cells) PROVE CellOK(n.cells[i], Len(n.layers), Len(n.cells))
  <2>1. CASE i \in 1..Len(m.cells)
    <3>1. n.cells[i] = m.cells[i] /\ CellOK(m.cells[i], Len(m.layers), Len(m.cells))
      BY <1>2, <2>1 DEF CellsOK
    <3> QED  BY <1>1, <3>1, CellGrows
  <2>2. CASE i = Len(m.cells) + 1
    BY <1>5, <2>2
  <2> QED  BY <1>3, <2>1, <2>2
<1>7. \A i \in 1..Len(m.cells) : m.cells[i].name # name
  BY <1>1 DEF CellNames
<1>8. \A i \in 1..Len(m.cells), j \in 1..Len(m.cells) :
        m.cells[i].name = m.cells[j].name => i = j \/ m.cells[i].name = NoName
  BY UniqueIs DEF CellsOK, IsLayout
<1>9. \A i \in 1..Len(n.cells), j \in 1..Len(n.cells) :
        n.cells[i].name = n.cells[j].name => i = j \/ n.cells[i].name = NoName
  <2>1. \A i \in 1..Len(m.cells) : n.cells[i].name = m.cells[i].name /\ n.cells[i].name # name
    BY <1>2, <1>7
  <2>2. n.cells[Len(m.cells) + 1].name = name
    BY <1>4
  <2>3. ASSUME NEW i \in 1..Len(n.cells), NEW j \in 1..Len(n.cells), n.cells[i].name = n.cells[j].name
        PROVE  i = j \/ n.cells[i].name = NoName
    <3>1. CASE i \in 1..Len(m.cells) /\ j \in 1..Len(m.cells)
      BY <1>8, <2>1, <2>3, <3>1
    <3>2. CASE i = Len(m.cells) + 1 /\ j = Len(m.cells) + 1
      BY <3>2
    <3>3. CASE i \in 1..Len(m.cells) /\ j = Len(m.cells) + 1
      BY <2>1, <2>2, <2>3, <3>3
    <3>4. CASE i = Len(m.cells) + 1 /\ j \in 1..Len(m.cells)
      BY <2>1, <2>2, <2>3, <3>4
    <3> QED  BY <1>3, <3>1, <3>2, <3>3, <3>4
  <2> QED  BY <2>3
<1>10. AreUnique(n.cells)
  BY <1>1, <1>9, UniqueIs DEF IsLayout
<1> QED  BY <1>6, <1>10 DEF CellsOK

\* A name of the file is given a cell that no other name has.
LEMMA NameGiven ==
  ASSUME NEW names, NEW m, NEW b, NamesOK(names, m), AddedEmpty(names, m, b), NEW x, NEW i, i \in 1..Len(m.cells),
         IsEmpty(m.cells[i]), i <= Len(b.cells) => m.cells[i].name = x,
         \A y \in DOMAIN names : y # x => names[y] # i
  PROVE  NamesOK(Extended(names, x, i), m) /\ AddedEmpty(Extended(names, x, i), m, b)
<1>1. PICK f : f = Extended(names, x, i)
  OBVIOUS
<1>2. \A y \in DOMAIN f : (y = x /\ f[y] = i) \/ (y # x /\ y \in DOMAIN names /\ f[y] = names[y])
  BY <1>1 DEF Extended
<1>3. NamesOK(f, m)
  BY <1>2 DEF NamesOK
<1>4. AddedEmpty(f, m, b)
  BY <1>2 DEF AddedEmpty
<1> QED  BY <1>1, <1>3, <1>4

LEMMA CellAppended ==
  ASSUME IInv, ReadInv, rd.at = "add", NEW x, NEW name, name \notin CellNames(mem), NEW n,
         n = [mem EXCEPT !.cells = Append(@, NewCell(name))]
  PROVE  LET i == Len(mem.cells) + 1 IN
         /\ CellsOK(n) /\ NamesOK(Extended(rd.names, x, i), n) /\ AddedEmpty(Extended(rd.names, x, i), n, before)
         /\ LayersOK(rd.layers, n)
<1>1. PICK cell : cell = NewCell(name)
  OBVIOUS
<1>2. Grows(mem, n, 0) /\ Len(n.cells) = Len(mem.cells) + 1 /\ n.cells[Len(mem.cells) + 1] = cell
  BY <1>1, CellAdded DEF IInv
<1>3. n.layers = mem.layers
  BY DEF IInv, IsLayout
<1>4. PICK i : i = Len(mem.cells) + 1
  OBVIOUS
<1>5. Len(mem.cells) \in Nat /\ Len(before.cells) \in Nat /\ Len(before.cells) <= Len(mem.cells)
  BY ListIs DEF IInv, IsLayout, Untouched
<1>6. CellsOK(n)
  BY <1>1, <1>2, <1>3, NewCellOK DEF IInv, ReadInv
<1>7. LayersOK(rd.layers, n)
  BY <1>3 DEF ReadInv, LayersOK
<1>8. NamesOK(rd.names, mem) /\ AddedEmpty(rd.names, mem, before)
  BY DEF ReadInv
<1>9. \A j \in 1..Len(mem.cells) : n.cells[j] = mem.cells[j]
  BY <1>2, <1>5 DEF Grows, Extends
<1>10. NamesOK(rd.names, n)
  BY <1>2, <1>5, <1>8 DEF NamesOK
<1>11. AddedEmpty(rd.names, n, before)
  BY <1>8, <1>9 DEF NamesOK, AddedEmpty
<1>12. IsEmpty(n.cells[i])
  <2>1. IsEmpty(cell)
    BY <1>1 DEF IsEmpty, NewCell
  <2> QED  BY <1>2, <1>4, <2>1
<1>13. i \in 1..Len(n.cells) /\ ~(i <= Len(before.cells)) /\ \A y \in DOMAIN rd.names : rd.names[y] # i
  BY <1>2, <1>4, <1>5, <1>8 DEF NamesOK
<1>14. NamesOK(Extended(rd.names, x, i), n) /\ AddedEmpty(Extended(rd.names, x, i), n, before)
  BY <1>10, <1>11, <1>12, <1>13, NameGiven
<1> QED  BY <1>4, <1>6, <1>7, <1>14

\* A ghost cell was there before the read, so that no name has it already.
LEMMA GhostTaken ==
  ASSUME IInv, ReadInv, rd.at = "add", NEW x, x \in CellNames(mem), NEW i, i = IndexOf(mem, x), IsRealGhost(mem.cells[i])
  PROVE  NamesOK(Extended(rd.names, x, i), mem) /\ AddedEmpty(Extended(rd.names, x, i), mem, before)
<1>1. Len(mem.cells) \in Nat /\ Len(before.cells) \in Nat /\ DOMAIN mem.cells = 1..Len(mem.cells)
  BY ListIs DEF IInv, IsLayout
<1>2. i \in 1..Len(mem.cells) /\ mem.cells[i].name = x
  BY <1>1 DEF CellNames, IndexOf
<1>3. mem.cells[i].ghost /\ IsEmpty(mem.cells[i])
  BY DEF IsRealGhost, IsEmpty
<1>4. i <= Len(before.cells)
  BY <1>1, <1>2, <1>3 DEF IInv, AddInv, Unchanged
<1>5. NamesOK(rd.names, mem) /\ AddedEmpty(rd.names, mem, before)
  BY DEF ReadInv
<1>6. \A y \in DOMAIN rd.names : y # x => rd.names[y] # i
  BY <1>2, <1>4, <1>5 DEF AddedEmpty
<1> QED  BY <1>2, <1>3, <1>5, <1>6, NameGiven

LEMMA AddCellReads == ASSUME IInv, ReadInv, NumbersLeft, AddCell PROVE ReadInv'
<1>1. PICK x : x = file.cells[rd.k].name
  OBVIOUS
<1>2. rd.at = "add" /\ rd.k <= Len(file.cells) /\ before' = before /\ file' = file
  BY DEF AddCell
<1>3. rd = [at |-> "add", fresh |-> rd.fresh, cell |-> 0, k |-> rd.k, names |-> rd.names, layers |-> rd.layers]
  BY <1>2 DEF IInv, ReaderInv, ReadInv
<1>4. rd.k \in DOMAIN file.cells
  <2>1. rd.k \in Nat \ {0} /\ Len(file.cells) \in Nat /\ DOMAIN file.cells = 1..Len(file.cells)
    BY <1>2, ListIs DEF IInv, AddInv
  <2> QED  BY <1>2, <2>1
<1>5. UniquifyCellName(mem, x) \notin CellNames(mem)
  <2>1. WithNumber(x, PowerOfTwo[SuffixBits]) \notin CellNames(mem)
    BY <1>1, <1>2, <1>4 DEF NumbersLeft
  <2> QED  BY <2>1, UniqueName
<1>6. PICK i, name :
        /\ rd' = [rd EXCEPT !.k = @ + 1, !.names = Extended(@, x, i)]
        /\ \/ /\ name \notin CellNames(mem) /\ mem' = [mem EXCEPT !.cells = Append(@, NewCell(name))]
              /\ i = Len(mem.cells) + 1
           \/ /\ x \in CellNames(mem) /\ IsRealGhost(mem.cells[i]) /\ i = IndexOf(mem, x) /\ mem' = mem
  BY <1>1, <1>5 DEF AddCell
<1>7. PICK n : n = mem'
  OBVIOUS
<1>8. /\ CellsOK(n) /\ NamesOK(Extended(rd.names, x, i), n) /\ AddedEmpty(Extended(rd.names, x, i), n, before)
      /\ LayersOK(rd.layers, n)
  <2>1. CASE /\ name \notin CellNames(mem) /\ mem' = [mem EXCEPT !.cells = Append(@, NewCell(name))]
             /\ i = Len(mem.cells) + 1
    BY <1>2, <1>7, <2>1, CellAppended
  <2>2. CASE x \in CellNames(mem) /\ IsRealGhost(mem.cells[i]) /\ i = IndexOf(mem, x) /\ mem' = mem
    <3>1. CellsOK(n) /\ LayersOK(rd.layers, n) /\ n = mem
      BY <1>7, <2>2 DEF ReadInv
    <3> QED  BY <1>2, <2>2, <3>1, GhostTaken
  <2> QED  BY <1>6, <2>1, <2>2
<1>9. PICK names : names = Extended(rd.names, x, i)
  OBVIOUS
<1>10. rd' = [rd EXCEPT !.k = @ + 1, !.names = names]
  BY <1>6, <1>9
<1>11. rd'.names = names /\ rd'.layers = rd.layers /\ rd'.cell = 0
  <2>1. PICK k : k = rd.k + 1
    OBVIOUS
  <2>2. rd' = [rd EXCEPT !.k = k, !.names = names]
    BY <1>10, <2>1
  <2> QED  BY <1>3, <2>2
<1>12. FileOK(file)
  BY DEF ReadInv
<1> QED  BY <1>2, <1>7, <1>8, <1>9, <1>11, <1>12 DEF ReadInv

LEMMA CellsAddedReads == ASSUME IInv, ReadInv, CellsAdded PROVE ReadInv'
<1>1. /\ rd.at = "add" /\ rd.k > Len(file.cells) /\ before' = before /\ file' = file /\ mem' = mem
      /\ rd' = [rd EXCEPT !.at = "cell", !.cell = 1, !.k = 1]
  BY DEF CellsAdded, Goto
<1>2. rd' = [at |-> "cell", fresh |-> rd.fresh, cell |-> 1, k |-> 1, names |-> rd.names, layers |-> rd.layers]
  BY <1>1 DEF IInv, ReaderInv
<1>3. rd'.names = rd.names /\ rd'.layers = rd.layers /\ rd'.at = "cell" /\ rd'.cell = 1 /\ rd'.k = 1
  BY <1>2
<1>4. Len(file.cells) \in Nat
  BY ListIs DEF IInv
<1>5. AllNamed(file, rd.names)
  <2>1. rd.k \in Nat
    BY DEF IInv, ReaderInv
  <2>2. \A j \in 1..Len(file.cells) : j < rd.k
    BY <1>1, <1>4, <2>1
  <2> QED  BY <1>1, <2>2 DEF IInv, AddInv, AllNamed
<1>6. \A i \in 1..Len(file.cells) : IsEmpty(TargetOf(mem, file, rd.names, i))
  BY <1>1, <1>5 DEF ReadInv, AddedEmpty, TargetOf, AllNamed
<1>7. Progress(mem, file, rd.names, 1)
  <2>1. \A i \in 1..Len(file.cells) : ~(i < 1)
    BY <1>4
  <2> QED  BY <1>6, <2>1 DEF Progress
<1>8. InHand(mem, file, rd.names, 1, "cell", 1)
  BY <1>6 DEF InHand
<1> QED  BY <1>1, <1>3, <1>5, <1>7, <1>8 DEF ReadInv

LEMMA ShapesReadReads == ASSUME IInv, ReadInv, ShapesRead PROVE ReadInv'
<1>1. /\ rd.at = "shapes" /\ rd.at \in {"cell", "shapes", "insts"} /\ rd.k > Len(FileCell.shapes) /\ file' = file
      /\ mem' = mem /\ rd.cell <= Len(file.cells) /\ rd' = [rd EXCEPT !.at = "insts", !.cell = rd.cell, !.k = 1]
  BY DEF ShapesRead, Goto, IInv, CellInv
<1>2. rd' = [at |-> "insts", fresh |-> rd.fresh, cell |-> rd.cell, k |-> 1, names |-> rd.names, layers |-> rd.layers]
  BY <1>1, ReadInvHas
<1>3. PICK c : c = FileCell
  OBVIOUS
<1>4. rd.cell \in 1..Len(file.cells) /\ c = file.cells[rd.cell]
  BY <1>1, <1>3, InHandIs
<1>5. Len(c.shapes) \in Nat /\ Len(c.insts) \in Nat /\ rd.k \in Nat
  BY <1>1, <1>3, InHandIs, ReadInvHas
<1>6. /\ c.layout /\ rd.k \in 1..(Len(c.shapes) + 1)
      /\ HasUpto(mem, TargetOf(mem, file, rd.names, rd.cell), rd.names, c, rd.k - 1, 0)
  BY <1>1, <1>4, ReadInvHas DEF InHand
<1>7. rd.k - 1 = Len(c.shapes) /\ 1 \in 1..(Len(c.insts) + 1) /\ 1 - 1 = 0
  BY <1>1, <1>3, <1>5, <1>6
<1>8. InHand(mem, file, rd.names, rd.cell, "insts", 1)
  BY <1>4, <1>6, <1>7 DEF InHand
<1> QED  BY <1>1, <1>2, <1>8, NothingKeeps

LEMMA CellReadReads == ASSUME IInv, ReadInv, CellRead PROVE ReadInv'
<1>1. /\ rd.at = "insts" /\ rd.at \in {"cell", "shapes", "insts"} /\ rd.k > Len(FileCell.insts) /\ file' = file
      /\ mem' = mem /\ rd.cell <= Len(file.cells) /\ rd' = [rd EXCEPT !.at = "cell", !.cell = rd.cell + 1, !.k = 1]
  BY DEF CellRead, Goto, IInv, CellInv
<1>2. rd' = [at |-> "cell", fresh |-> rd.fresh, cell |-> rd.cell + 1, k |-> 1, names |-> rd.names, layers |-> rd.layers]
  BY <1>1, ReadInvHas
<1>3. PICK c : c = FileCell
  OBVIOUS
<1>4. rd.cell \in 1..Len(file.cells) /\ c = file.cells[rd.cell]
  BY <1>1, <1>3, InHandIs
<1>5. Len(c.insts) \in Nat /\ rd.k \in Nat
  BY <1>1, <1>3, InHandIs, ReadInvHas
<1>6. /\ c.layout /\ rd.k \in 1..(Len(c.insts) + 1)
      /\ HasUpto(mem, TargetOf(mem, file, rd.names, rd.cell), rd.names, c, Len(c.shapes), rd.k - 1)
  BY <1>1, <1>4, ReadInvHas DEF InHand
<1>7. rd.k - 1 = Len(c.insts)
  BY <1>1, <1>3, <1>5, <1>6
<1>8. LET z == file.cells[rd.cell] IN
        /\ z.layout => HasUpto(mem, TargetOf(mem, file, rd.names, rd.cell), rd.names, z, Len(z.shapes), Len(z.insts))
        /\ ~z.layout => IsEmpty(TargetOf(mem, file, rd.names, rd.cell))
  BY <1>4, <1>6, <1>7
<1> QED  BY <1>1, <1>2, <1>8, NextCellKeeps

LEMMA ReadDoneReads == ASSUME IInv, ReadInv, ReadDone PROVE ReadInv'
<1>1. /\ rd.at = "cell" /\ rd.at \in {"cell", "shapes", "insts"} /\ file' = file
      /\ mem' = mem /\ rd.cell > Len(file.cells) /\ rd' = [rd EXCEPT !.at = "done"]
  BY DEF ReadDone
<1>2. rd' = [at |-> "done", fresh |-> rd.fresh, cell |-> rd.cell, k |-> rd.k, names |-> rd.names, layers |-> rd.layers]
  BY <1>1, ReadInvHas
<1>3. rd.cell \notin 1..Len(file.cells)
  BY <1>1, ReadInvHas
<1>4. InHand(mem, file, rd.names, rd.cell, "done", rd.k)
  BY <1>3 DEF InHand
<1> QED  BY <1>1, <1>2, <1>4, NothingKeeps

-----------------------------------------------------------------------------
(* Saving, and the begin of a read                                         *)

\* Nothing is read yet.
LEMMA NoneRead ==
  ASSUME NEW m, NEW f, CellsOK(m), FileOK(f), mem' = m, file' = f, rd'.names = EmptyMap, rd'.layers = EmptyMap, rd'.cell = 0
  PROVE  ReadInv'
<1>1. NamesOK(EmptyMap, m) /\ LayersOK(EmptyMap, m) /\ AddedEmpty(EmptyMap, m, before')
  BY DEF NamesOK, LayersOK, AddedEmpty, EmptyMap
<1> QED  BY <1>1 DEF ReadInv

LEMMA AlikeOK == ASSUME NEW m, NEW n, CellsOK(m), Alike(m, n) PROVE CellsOK(n)
BY DEF Alike, CellsOK

LEMMA SavedFileOK ==
  ASSUME NEW m, IsLayout(m), CellsOK(m), NEW s, s = Named(m.cells), NEW f, f.cells = [i \in DOMAIN s |-> WriteCell(m, s[i])]
  PROVE  FileOK(f) /\ Len(f.cells) = Len(s)
<1>1. PICK t : t = f.cells
  OBVIOUS
<1>2. DOMAIN t = DOMAIN s /\ t = [i \in DOMAIN t |-> t[i]]
  BY <1>1
<1>a. IsList(m.cells) /\ IsList(s)
  BY NamedIsList DEF IsLayout
<1>3. IsList(t) /\ Len(t) = Len(s)
  BY <1>2, <1>a, ListOver
<1>4. ASSUME NEW i \in 1..Len(t)
      PROVE  t[i].name = s[i].name /\ t[i].name # NoName /\ IsList(t[i].shapes) /\ IsList(t[i].insts)
  <2>1. i \in DOMAIN s
    BY <1>2, <1>3, ListIs
  <2>2. PICK j \in 1..Len(m.cells) : s[i] = m.cells[j] /\ m.cells[j].name # NoName
    BY <1>3, <1>a, NamedIsOne
  <2>3. PICK cell : cell = s[i]
    OBVIOUS
  <2>4. t[i] = WriteCell(m, cell)
    BY <1>1, <2>1, <2>3
  <2>5. t[i].name = cell.name /\ t[i].shapes = WriteShapes(m, cell) /\ t[i].insts = WriteInstances(m, cell)
    BY <2>4 DEF WriteCell
  <2>6. IsList(cell.shapes) /\ IsList(cell.insts) /\ \A k \in 1..Len(cell.insts) : cell.insts[k].n \in Nat
    BY <2>2, <2>3 DEF CellsOK, CellOK
  <2>7. IsList(WriteShapes(m, cell))
    BY <2>6, WriteShapesIs
  <2>8. IsList(WriteInstances(m, cell))
    BY <2>6, ArraysWrittenIs
  <2> QED  BY <2>2, <2>3, <2>5, <2>7, <2>8
<1>5. AreDistinct(t)
  <2>1. AreDistinct(s)
    BY <1>a, NamedAreDistinct DEF CellsOK
  <2> QED  BY <1>3, <1>4, <2>1 DEF AreDistinct
<1> QED  BY <1>1, <1>3, <1>4, <1>5 DEF FileOK

LEMMA SaveReads == ASSUME IInv, ReadInv, NEW option, NEW stem, Save(option, stem) PROVE ReadInv'
<1>1. PICK name : name = ResolveLibName(mem, option, stem)
  OBVIOUS
<1>2. PICK m, f : m = mem' /\ f = file'
  OBVIOUS
<1>3. m = [mem EXCEPT !.libname = name] /\ rd' = NotReading /\ f = FileOf(m)
  BY <1>1, <1>2 DEF Save
<1>4. IsLayout(m) /\ CellsOK(m)
  BY <1>3, HeaderReplaced, AlikeOK DEF IInv, ReadInv, Alike
<1>5. FileOK(f)
  <2>1. f.cells = [i \in DOMAIN Named(m.cells) |-> WriteCell(m, Named(m.cells)[i])]
    BY <1>3 DEF FileOf
  <2> QED  BY <1>4, <2>1, SavedFileOK
<1>6. rd'.names = EmptyMap /\ rd'.layers = EmptyMap /\ rd'.cell = 0
  BY <1>3 DEF NotReading
<1> QED  BY <1>2, <1>4, <1>5, <1>6, NoneRead

LEMMA TargetOK == ASSUME CellsOK(mem), NEW fresh PROVE CellsOK(IF fresh THEN EmptyLayout ELSE mem)
<1>1. CellsOK(EmptyLayout)
  <2>1. EmptyLayout.cells = <<>>
    BY DEF EmptyLayout, NoLayout
  <2>2. Len(<<>>) = 0 /\ DOMAIN <<>> = {}
    OBVIOUS
  <2> QED  BY <2>1, <2>2 DEF CellsOK, AreUnique
<1>2. CASE fresh
  BY <1>1, <1>2
<1>3. CASE ~fresh
  BY <1>3
<1> QED  BY <1>2, <1>3

LEMMA ReadNoCellsReads == ASSUME IInv, ReadInv, NEW fresh, ReadNoCells(fresh) PROVE ReadInv'
<1>1. PICK target : target = IF fresh THEN EmptyLayout ELSE mem
  OBVIOUS
<1>2. mem' = target /\ file' = file /\ rd' = [NotReading EXCEPT !.at = "done", !.fresh = fresh]
  BY <1>1 DEF ReadNoCells
<1>3. rd'.names = EmptyMap /\ rd'.layers = EmptyMap /\ rd'.cell = 0
  BY <1>2 DEF NotReading
<1>4. CellsOK(target) /\ FileOK(file)
  BY <1>1, TargetOK DEF ReadInv
<1> QED  BY <1>2, <1>3, <1>4, NoneRead

LEMMA ReadHeaderReads == ASSUME IInv, ReadInv, NEW fresh, ReadHeader(fresh) PROVE ReadInv'
<1>1. PICK target : target = IF fresh THEN EmptyLayout ELSE mem
  OBVIOUS
<1>2. PICK lib : lib = IF file.name = "" THEN target.libname ELSE file.name
  OBVIOUS
<1>3. PICK named : named = [target EXCEPT !.dbu = FirstDbu, !.libname = lib]
  OBVIOUS
<1>4. PICK prop : prop = IF PropertiesIdFromCore(file.prop) = {} THEN named.prop ELSE PropertiesIdFromCore(file.prop)
  OBVIOUS
<1>5. /\ file' = file
      /\ \/ mem' = named /\ rd' = [NotReading EXCEPT !.at = "failed", !.fresh = fresh]
         \/ mem' = [named EXCEPT !.prop = prop] /\ rd' = [NotReading EXCEPT !.at = "add", !.fresh = fresh, !.k = 1]
  BY <1>1, <1>2, <1>3, <1>4 DEF ReadHeader
<1>6. CellsOK(target) /\ FileOK(file) /\ IsLayout(target)
  BY <1>1, TargetOK, TargetIs DEF ReadInv, IInv
<1>7. CellsOK(named) /\ IsLayout(named)
  <2>1. PICK m : m = [target EXCEPT !.dbu = FirstDbu]
    OBVIOUS
  <2>2. IsLayout(m) /\ CellsOK(m)
    BY <1>6, <2>1, HeaderReplaced, AlikeOK DEF Alike
  <2>3. named = [m EXCEPT !.libname = lib]
    BY <1>3, <2>1, <2>2, <1>6 DEF IsLayout
  <2> QED  BY <2>2, <2>3, HeaderReplaced, AlikeOK DEF Alike
<1>8. CellsOK([named EXCEPT !.prop = prop])
  BY <1>7, HeaderReplaced, AlikeOK
<1>9. PICK m : m = mem' /\ CellsOK(m)
  BY <1>5, <1>7, <1>8
<1>10. rd'.names = EmptyMap /\ rd'.layers = EmptyMap /\ rd'.cell = 0
  BY <1>5 DEF NotReading
<1> QED  BY <1>5, <1>6, <1>9, <1>10, NoneRead

LEMMA InitReads == Init => ReadInv
<1> SUFFICES ASSUME Init PROVE ReadInv
  OBVIOUS
<1>1. PICK start \in Starts : mem = start.mem /\ file = start.file
  BY DEF Init
<1>2. /\ IsTable(mem.layers) /\ IsTable(mem.cells) /\ AreUnique(mem.cells)
      /\ \A i \in DOMAIN mem.cells : IsCellOf(mem, mem.cells[i])
  BY <1>1, StartsAssumption
<1>3. /\ IsTable(file.cells) /\ AreUnique(file.cells)
      /\ \A i \in DOMAIN file.cells :
           file.cells[i].name # NoName /\ IsTable(file.cells[i].shapes) /\ IsTable(file.cells[i].insts)
  BY <1>1, StartsAssumption
<1>4. \A s : IsTable(s) => IsList(s) /\ DOMAIN s = 1..Len(s)
  BY ListIs DEF IsTable, IsList
<1>5. FileOK(file)
  <2>1. AreDistinct(file.cells)
    BY <1>3, <1>4 DEF AreUnique, AreDistinct
  <2> QED  BY <1>3, <1>4, <2>1 DEF FileOK
<1>6. ASSUME NEW i \in 1..Len(mem.cells) PROVE CellOK(mem.cells[i], Len(mem.layers), Len(mem.cells))
  <2>1. IsCellOf(mem, mem.cells[i]) /\ DOMAIN mem.layers = 1..Len(mem.layers) /\ DOMAIN mem.cells = 1..Len(mem.cells)
    BY <1>2, <1>4
  <2> QED  BY <1>4, <2>1 DEF IsCellOf, CellOK
<1>7. CellsOK(mem)
  BY <1>2, <1>6 DEF CellsOK
<1>8. rd.names = EmptyMap /\ rd.layers = EmptyMap /\ rd.cell = 0
  BY DEF Init, NotReading
<1>9. NamesOK(EmptyMap, mem) /\ LayersOK(EmptyMap, mem) /\ AddedEmpty(EmptyMap, mem, before)
  BY DEF NamesOK, LayersOK, AddedEmpty, EmptyMap
<1> QED  BY <1>5, <1>7, <1>8, <1>9 DEF ReadInv

-----------------------------------------------------------------------------
(* What a read has done at any point                                       *)

Inv == IInv /\ ReadInv

LEMMA InvHolds == Spec /\ []NumbersLeft => []Inv
<1>1. Init => Inv
  BY InitIs, InitReads DEF Inv
<1>2. Inv /\ NumbersLeft /\ [Next]_vars => Inv'
  <2> SUFFICES ASSUME IInv, ReadInv, NumbersLeft, [Next]_vars PROVE IInv' /\ ReadInv'
    BY DEF Inv
  <2>1. IInv'
    BY InvKept
  <2>2. ReadInv'
    <3>1. ASSUME NEW option \in LibNames \cup {""}, NEW stem \in Stems, Save(option, stem) PROVE ReadInv'
      BY <3>1, SaveReads
    <3>2. ASSUME NEW fresh \in BOOLEAN, ReadNoCells(fresh) \/ ReadHeader(fresh) PROVE ReadInv'
      BY <3>2, ReadNoCellsReads, ReadHeaderReads
    <3>3. CASE AddCell
      BY <3>3, AddCellReads
    <3>4. CASE CellsAdded
      BY <3>4, CellsAddedReads
    <3>5. CASE BeginCell
      BY <3>5, BeginCellReads
    <3>6. CASE ReadShape
      BY <3>6, ReadShapeReads
    <3>7. CASE ShapesRead
      BY <3>7, ShapesReadReads
    <3>8. CASE ReadInstance
      BY <3>8, ReadInstanceReads
    <3>9. CASE CellRead
      BY <3>9, CellReadReads
    <3>10. CASE ReadDone
      BY <3>10, ReadDoneReads
    <3>11. CASE UNCHANGED vars
      <4>1. mem' = mem /\ file' = file /\ rd' = rd /\ before' = before
        BY <3>11 DEF vars
      <4> QED  BY <4>1 DEF ReadInv
    <3> QED  BY <3>1, <3>2, <3>3, <3>4, <3>5, <3>6, <3>7, <3>8, <3>9, <3>10, <3>11 DEF Next, ReadStep
  <2> QED  BY <2>1, <2>2
<1> QED  BY <1>1, <1>2, PTL DEF Spec

LEMMA TypeIs == Inv => TypeOK
<1> SUFFICES ASSUME IInv, ReadInv PROVE TypeOK
  BY DEF Inv
<1>1. AreUnique(mem.cells)
  BY DEF ReadInv, CellsOK
<1>2. DOMAIN mem.cells = 1..Len(mem.cells) /\ DOMAIN mem.layers = 1..Len(mem.layers)
  BY ListIs DEF IInv, IsLayout
<1>3. ASSUME NEW i \in DOMAIN mem.cells
      PROVE  /\ \A j \in DOMAIN mem.cells[i].shapes : mem.cells[i].shapes[j].layer \in DOMAIN mem.layers
             /\ \A j \in DOMAIN mem.cells[i].insts : mem.cells[i].insts[j].cell \in DOMAIN mem.cells
  <2>1. PICK c : c = mem.cells[i]
    OBVIOUS
  <2>2. CellOK(c, Len(mem.layers), Len(mem.cells))
    BY <1>2, <1>3, <2>1 DEF ReadInv, CellsOK
  <2>3. DOMAIN c.shapes = 1..Len(c.shapes) /\ DOMAIN c.insts = 1..Len(c.insts)
    BY <2>2, ListIs DEF CellOK
  <2> QED  BY <1>2, <2>1, <2>2, <2>3 DEF CellOK
<1>4. (\A x \in DOMAIN rd.names : rd.names[x] \in DOMAIN mem.cells) /\ (\A x \in DOMAIN rd.layers : rd.layers[x] \in DOMAIN mem.layers)
  BY <1>2 DEF ReadInv, NamesOK, LayersOK
<1>5. rd.at \in {"idle", "add", "cell", "shapes", "insts", "done", "failed"}
  BY DEF IInv, ReaderInv, Places
<1> QED  BY <1>1, <1>3, <1>4, <1>5 DEF TypeOK

\* Cell names but the empty one stay unique, and each index that a shape, an instance or the reader
\* holds is one of the layout, whatever a read renames, takes over or leaves undone
\* (coreReader.cc do_read, with Layout::add_cell and uniquify_cell_name).
THEOREM TypeCorrect == Spec /\ []NumbersLeft => []TypeOK
BY InvHolds, TypeIs, PTL

LEMMA ReadSoFarIs == Inv => ReadSoFar
<1> SUFFICES ASSUME IInv, ReadInv, rd.cell > 0, NEW i \in DOMAIN file.cells
             PROVE  LET c == file.cells[i]
                        target == mem.cells[rd.names[c.name]]
                    IN  /\ (i < rd.cell /\ c.layout) =>
                               /\ ShapesIn(mem, target) = FileShapes(c)
                               /\ CellInstances(target) = FileInstances(c, rd.names)
                        /\ (i > rd.cell \/ ~c.layout) => target.shapes = <<>> /\ target.insts = <<>>
  BY DEF Inv, ReadSoFar
<1>1. PICK c, target : c = file.cells[i] /\ target = mem.cells[rd.names[c.name]]
  OBVIOUS
<1>2. i \in 1..Len(file.cells) /\ rd.cell \in Nat
  BY ListIs DEF IInv, ReaderInv
<1>3. TargetOf(mem, file, rd.names, i) = target
  BY <1>1 DEF TargetOf
<1>4. ASSUME i < rd.cell, c.layout
      PROVE  ShapesIn(mem, target) = FileShapes(c) /\ CellInstances(target) = FileInstances(c, rd.names)
  <2>1. i # rd.cell
    BY <1>2, <1>4
  <2>2. HasUpto(mem, target, rd.names, c, Len(c.shapes), Len(c.insts))
    BY <1>1, <1>2, <1>3, <1>4, <2>1 DEF ReadInv, Progress
  <2> QED  BY <2>2 DEF HasUpto, Has, FileShapes, FileInstances, Part
<1>5. ASSUME i > rd.cell \/ ~c.layout
      PROVE  IsEmpty(target)
  <2>1. CASE i # rd.cell
    BY <1>1, <1>2, <1>3, <1>5, <2>1 DEF ReadInv, Progress
  <2>2. CASE i = rd.cell
    <3>1. ~c.layout
      BY <1>2, <1>5, <2>2
    <3> QED  BY <1>1, <1>2, <1>3, <2>2, <3>1 DEF ReadInv, InHand
  <2> QED  BY <2>1, <2>2
<1> QED  BY <1>1, <1>4, <1>5 DEF IsEmpty

\* What a read does to the cells of the file does not depend on the target: at any
\* point, and after a failure, the cells passed hold exactly what the file has, in
\* its order, under the cells and layers of this read, and those not reached hold
\* nothing (coreReader.cc do_read).
THEOREM ReadExact == Spec /\ []NumbersLeft => []ReadSoFar
BY InvHolds, ReadSoFarIs, PTL
=============================================================================
