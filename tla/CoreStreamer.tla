---------------------------- MODULE CoreStreamer ----------------------------
(***************************************************************************)
(* The CORE streamer: Writer::write saves a db::Layout to a file,          *)
(* Reader::do_read adds the cells of a file to a db::Layout.               *)
(*                                                                         *)
(* A save is one step: the file is produced in memory and put out at the   *)
(* end.  A read is one step per iteration of its loops, because each of    *)
(* them can throw and what was inserted before stays in the layout.  The   *)
(* target is a new layout, or the one that is already there (strm2xxx      *)
(* "a.core+b.core", Layout#read called twice).                             *)
(*                                                                         *)
(* A layout is [dbu, libname, prop, layers, cells]; the unit dbu is given  *)
(* in parts of a micron, see Reciprocal.  Layer and cell indexes are       *)
(* positions in the sequences.  A cell name is a base and the numbers      *)
(* uniquify_cell_name has appended to it; a cell may have none (NoName).   *)
(* Of a shape only its kind matters, see WrittenAs.                        *)
(***************************************************************************)
EXTENDS PropertyBridge, Subsequences, SequencesExt, FiniteSets

CONSTANTS
    Starts,       \* the layouts a run starts with, each with no file or one of another program
    Stems,        \* file names to save under, without path and extension
    LibNames,     \* values of SaveLayoutOptions.libname besides ""
    MaxSaves, MaxReads, \* bounds on the calls of a run
    SuffixBits    \* bits of the numbers uniquify_cell_name appends (31 in the code)

ASSUME BoundsAssumption ==
    /\ MaxSaves \in Nat /\ MaxReads \in Nat
    /\ SuffixBits \in Nat \ {0}
    /\ "" \notin LibNames /\ "" \notin Stems

IsTable(s) == s \in Seq(ToSet(s))
\* The empty name is not registered and may be that of several cells.
NoName == [base |-> "", suffix |-> <<>>]
AreUnique(cells) ==
    \A i \in DOMAIN cells, j \in DOMAIN cells : cells[i].name = cells[j].name => i = j \/ cells[i].name = NoName

\* Shapes of other kinds than these are not visited by the writer.  A thin polygon is
\* a raw one, of points that all go if the hull is compressed.
Visited == {"box", "empty box", "polygon", "polygon with hole", "thin polygon", "polygon without points",
            "path", "path with extension", "path without points", "text", "rotated text"}
Kinds == Visited \cup {"edge"}
\* What a file may have: a point may be out of range, a path or polygon without points.
FileKinds == {"box", "empty box", "polygon", "thin polygon", "path", "text", "far away",
              "path without points", "polygon without points"}
HaveNumbers(layers) == \A l \in DOMAIN layers : layers[l].ld \in Int \X Int

\* A cell of a database: its shapes are on layers of the layout, its instances are
\* of cells of the layout.
IsCellOf(m, c) ==
    /\ c = [name |-> c.name, ghost |-> c.ghost, prop |-> c.prop, shapes |-> c.shapes, insts |-> c.insts]
    /\ c.ghost \in BOOLEAN
    /\ IsTable(c.shapes)
    /\ \A j \in DOMAIN c.shapes : c.shapes[j].layer \in DOMAIN m.layers /\ c.shapes[j].kind \in Kinds
    /\ IsTable(c.insts)
    /\ \A j \in DOMAIN c.insts :
           c.insts[j].cell \in DOMAIN m.cells /\ c.insts[j].at \in Int /\ c.insts[j].n \in Nat

\* A start is a layout of the database, with no file or one in which the cells have
\* names, all distinct.
ASSUME StartsAssumption ==
    \A start \in Starts :
        LET m == start.mem IN
        /\ m = [dbu |-> m.dbu, libname |-> m.libname, prop |-> m.prop, layers |-> m.layers, cells |-> m.cells]
        /\ IsTable(m.layers) /\ HaveNumbers(m.layers) /\ IsTable(m.cells)
        /\ AreUnique(m.cells) /\ \A i \in DOMAIN m.cells : IsCellOf(m, m.cells[i])
        /\ IsTable(start.file.cells) /\ AreUnique(start.file.cells)
        /\ \A i \in DOMAIN start.file.cells :
               LET c == start.file.cells[i] IN
               /\ c.name # NoName
               /\ IsTable(c.shapes) /\ \A j \in DOMAIN c.shapes : c.shapes[j].kind \in FileKinds
               /\ HaveNumbers(c.layers)
               /\ IsTable(c.insts) /\ \A j \in DOMAIN c.insts : c.insts[j].at \in Int

VARIABLES
    mem,    \* the layout
    file,   \* the file
    rd,     \* where the reader is: position, new cells by name, layers by key
    saved,  \* history: the layout as it was saved to the file
    rounds, \* history: how many times in a row that layout had been saved and loaded
    before, \* history: the target as it was when the read began
    saves, reads

vars == <<mem, file, rd, saved, rounds, before, saves, reads>>

NoLayout == [dbu |-> 0, libname |-> "", prop |-> {}, layers |-> <<>>, cells |-> <<>>]
EmptyLayout == [NoLayout EXCEPT !.dbu = 1000]
NoFile == [name |-> "", prop |-> {}, cells |-> <<>>]
EmptyMap == [x \in {} |-> 0]
NotReading == [at |-> "idle", fresh |-> TRUE, cell |-> 0, k |-> 0, names |-> EmptyMap, layers |-> EmptyMap]

\* The file is one that this writer wrote, and it has been read into a new layout.
FromOurFile == saved # NoLayout
LoadedBack == rd.at = "done" /\ rd.fresh /\ FromOurFile

CellNames(m) == {m.cells[i].name : i \in DOMAIN m.cells}
Named(cells) == Part(cells, {i \in DOMAIN cells : cells[i].name # NoName})
IndexOf(m, name) == CHOOSE i \in DOMAIN m.cells : m.cells[i].name = name

IsRealGhost_Any(cell) == cell.ghost            \* a fault: content not asked for
\* Cell::is_real_ghost_cell
IsRealGhost(cell) == cell.ghost /\ cell.shapes = <<>> /\ cell.insts = <<>>

NewCell(name) == [name |-> name, ghost |-> FALSE, prop |-> {}, shapes |-> <<>>, insts |-> <<>>]

-----------------------------------------------------------------------------
(* Writer                                                                  *)

ToUint16(n) == n % 65536
LayerKey_NoDatatype(ld) == <<ToUint16(ld[1]), 0>>   \* a fault: the datatype forgotten
LayerKey(ld) == <<ToUint16(ld[1]), ToUint16(ld[2])>>
IsWritten(layer) == layer.ld[1] >= 0 /\ layer.ld[2] >= 0

\* 1/x, for a unit in parts of a micron or a number of units per micron: with
\* Precision parts, since the quotient is rounded.
Precision == 1000000
Reciprocal(n) == Precision \div n
DbuPerMicron(m) == IF m.dbu > 0 THEN Reciprocal(m.dbu) ELSE 1000

\* Polygons and paths are put into the file if they have points.
Written == Visited \ {"polygon without points", "path without points"}

\* Of a polygon the hull is written, of a path the points and the width, of a text
\* not the orientation.
WrittenAs(kind) ==
    CASE kind = "polygon with hole" -> "polygon"
      [] kind = "path with extension" -> "path"
      [] kind = "rotated text" -> "text"
      [] OTHER -> kind

\* fp_trans takes an arbitrary angle to a multiple of 90 degree.
FpTrans(rot) == IF rot = "a30" THEN "r0" ELSE rot

\* The layers written, in the order of their indexes, and the distinct keys among them.
LayerIndexes(m) == [l \in DOMAIN m.layers |-> l]
WrittenLayers(m) == Part(LayerIndexes(m), {l \in DOMAIN m.layers : IsWritten(m.layers[l])})
FirstWithKey(m, l) ==
    CHOOSE i \in DOMAIN m.layers :
        /\ IsWritten(m.layers[i]) /\ LayerKey(m.layers[i].ld) = LayerKey(m.layers[l].ld)
        /\ \A j \in 1..(i - 1) :
               ~(IsWritten(m.layers[j]) /\ LayerKey(m.layers[j].ld) = LayerKey(m.layers[l].ld))

\* findOrAddViewLayer: the view lists each key once, with the first name.
ViewLayers(m) ==
    LET firsts == Part(LayerIndexes(m), {l \in DOMAIN m.layers : IsWritten(m.layers[l]) /\ FirstWithKey(m, l) = l})
    IN  [i \in DOMAIN firsts |-> [ld |-> LayerKey(m.layers[firsts[i]].ld), name |-> m.layers[firsts[i]].name]]
LayerId(m, l) == CHOOSE i \in DOMAIN ViewLayers(m) : ViewLayers(m)[i].ld = LayerKey(m.layers[l].ld)

WriteShape(m, s) ==
    [id |-> LayerId(m, s.layer), kind |-> WrittenAs(s.kind), prop |-> PropertiesFromKLayout(s.prop)]

ShapesOn(cell, l) ==
    Part(cell.shapes, {j \in DOMAIN cell.shapes : cell.shapes[j].layer = l /\ cell.shapes[j].kind \in Written})
WriteShapes(m, cell) ==
    LET all == FlattenSeq([i \in DOMAIN WrittenLayers(m) |-> ShapesOn(cell, WrittenLayers(m)[i])])
    IN  [i \in DOMAIN all |-> WriteShape(m, all[i])]

\* An array becomes one instance per element, none if the cell it is of has no name.
ElementsWritten(m, inst) == IF m.cells[inst.cell].name = NoName THEN 0 ELSE inst.n
ElementAt_FromOne(inst, e) == inst.at + e      \* a fault: counted from one
ElementAt(inst, e) == inst.at + e - 1
WriteArray(m, inst) ==
    [e \in 1..ElementsWritten(m, inst) |->
        [child |-> m.cells[inst.cell].name, rot |-> FpTrans(inst.rot),
         at |-> ElementAt(inst, e), prop |-> PropertiesFromKLayout(inst.prop)]]
WriteInstances(m, cell) == FlattenSeq([i \in DOMAIN cell.insts |-> WriteArray(m, cell.insts[i])])

WriteCell(m, cell) ==
    [name |-> cell.name, layout |-> TRUE, dbu |-> DbuPerMicron(m),
     prop |-> PropertiesFromKLayout(cell.prop), viewProp |-> {},
     layers |-> ViewLayers(m), shapes |-> WriteShapes(m, cell), insts |-> WriteInstances(m, cell)]

\* A cell without a name is not written.
FileOf(m) ==
    [name |-> m.libname, prop |-> PropertiesFromKLayout(m.prop),
     cells |-> [i \in DOMAIN Named(m.cells) |-> WriteCell(m, Named(m.cells)[i])]]

ResolveLibName(m, option, stem) ==
    IF option # "" THEN option ELSE IF m.libname # "" THEN m.libname ELSE stem

\* The layout keeps the library name that it is saved with.
Save(option, stem) ==
    LET named == [mem EXCEPT !.libname = ResolveLibName(mem, option, stem)] IN
    /\ rd.at \in {"idle", "done", "failed"}
    /\ saves < MaxSaves
    /\ saves' = saves + 1
    /\ mem' = named /\ saved' = named
    /\ file' = FileOf(named)
    /\ rounds' = IF LoadedBack THEN rounds + 1 ELSE 0
    /\ rd' = NotReading
    /\ before' = NoLayout
    /\ UNCHANGED reads

-----------------------------------------------------------------------------
(* Reader                                                                  *)

\* Whatever box the file has, its corners are sorted; the hull of a polygon is
\* compressed, and it is inserted even if nothing is left of it.
ReadAs(kind) ==
    CASE kind = "empty box" -> "box"
      [] kind = "thin polygon" -> "polygon without points"
      [] OTHER -> kind
Overflows(kind) == kind = "far away"

FileCell == file.cells[rd.cell]

\* resolveViewLayers gives the layers of the view; an id beyond them is 0/0.
LayerSpecById(id) ==
    IF id \in DOMAIN FileCell.layers THEN FileCell.layers[id] ELSE [ld |-> <<0, 0>>, name |-> "unknown"]

Extended(f, x, y) == [z \in DOMAIN f \cup {x} |-> IF z = x THEN y ELSE f[z]]

Goto(at, cell) == rd' = [rd EXCEPT !.at = at, !.cell = cell, !.k = 1]
Continue(at) == rd' = [rd EXCEPT !.at = at, !.k = @ + 1]
Fails == rd' = [rd EXCEPT !.at = "failed"]

CanRead == rd.at \in {"idle", "done", "failed"} /\ reads < MaxReads /\ file # NoFile

\* do_read returns before it has looked at anything but the cells.
ReadNoCells(fresh) ==
    LET target == IF fresh THEN EmptyLayout ELSE mem IN
    /\ CanRead
    /\ file.cells = <<>>
    /\ reads' = reads + 1
    /\ before' = target /\ mem' = target
    /\ rd' = [NotReading EXCEPT !.at = "done", !.fresh = fresh]
    /\ UNCHANGED <<file, saved, rounds, saves>>

\* The database unit is that of the first layout view that has one.
FirstDbu ==
    LET given == {i \in DOMAIN file.cells : file.cells[i].layout /\ file.cells[i].dbu > 0}
        first == CHOOSE i \in given : \A j \in given : i <= j
    IN  Reciprocal(IF given = {} THEN 1000 ELSE file.cells[first].dbu)

ReadHeader(fresh) ==
    LET target == IF fresh THEN EmptyLayout ELSE mem
        named == [target EXCEPT !.dbu = FirstDbu, !.libname = IF file.name = "" THEN @ ELSE file.name]
        prop == PropertiesIdFromCore(file.prop)
    IN
    /\ CanRead
    /\ file.cells # <<>>
    /\ reads' = reads + 1
    /\ before' = target
    /\ IF PropertiesThrow(file.prop)
       THEN /\ mem' = named
            /\ rd' = [NotReading EXCEPT !.at = "failed", !.fresh = fresh]
       ELSE /\ mem' = [named EXCEPT !.prop = IF prop = {} THEN @ ELSE prop]
            /\ rd' = [NotReading EXCEPT !.at = "add", !.fresh = fresh, !.k = 1]
    /\ UNCHANGED <<file, saved, rounds, saves>>

PowerOfTwo[n \in 0..SuffixBits] == IF n = 0 THEN 1 ELSE 2 * PowerOfTwo[n - 1]
WithNumber(name, j) == [name EXCEPT !.suffix = Append(@, j)]
\* The number after each of its bits, from the top: a bit stays if the name with the
\* number so far is taken.
Probed(m, name) ==
    LET probe[b \in 0..SuffixBits] ==
            IF b = 0 THEN 0
            ELSE LET j == probe[b - 1] + PowerOfTwo[SuffixBits - b]
                 IN  IF WithNumber(name, j) \in CellNames(m) THEN j ELSE probe[b - 1]
    IN  probe
UniquifyCellName_Not(m, name) == name          \* a fault: the name taken as it is
\* Layout::uniquify_cell_name
UniquifyCellName(m, name) == WithNumber(name, Probed(m, name)[SuffixBits] + 1)

\* Layout::add_cell: a ghost cell counts as not existing and becomes the new cell.
AddCell ==
    LET name == file.cells[rd.k].name
        next(i) == [rd EXCEPT !.k = @ + 1, !.names = Extended(@, name, i)]
        append(n) == /\ mem' = [mem EXCEPT !.cells = Append(@, NewCell(n))]
                     /\ rd' = next(Len(mem.cells) + 1)
    IN
    /\ rd.at = "add"
    /\ rd.k <= Len(file.cells)
    /\ \/ name \notin CellNames(mem) /\ append(name)
       \/ /\ name \in CellNames(mem)
          /\ IF IsRealGhost(mem.cells[IndexOf(mem, name)])
             THEN rd' = next(IndexOf(mem, name)) /\ UNCHANGED mem
             ELSE append(UniquifyCellName(mem, name))
    /\ UNCHANGED <<file, saved, rounds, before, saves, reads>>

CellsAdded ==
    /\ rd.at = "add"
    /\ rd.k > Len(file.cells)
    /\ Goto("cell", 1)
    /\ UNCHANGED <<mem, file, saved, rounds, before, saves, reads>>

TargetIndex == rd.names[FileCell.name]

\* The properties of the cell and of its view are merged.
ApplyCoreProperties ==
    LET prop == PropertiesIdFromCore(FileCell.prop) \cup PropertiesIdFromCore(FileCell.viewProp)
    IN  mem' = [mem EXCEPT !.cells[TargetIndex].prop = IF prop = {} THEN @ ELSE prop]

BeginCell ==
    /\ rd.at = "cell"
    /\ rd.cell <= Len(file.cells)
    /\ \/ ~FileCell.layout /\ Goto("cell", rd.cell + 1) /\ UNCHANGED mem
       \/ /\ FileCell.layout
          /\ IF PropertiesThrow(FileCell.prop) \/ PropertiesThrow(FileCell.viewProp)
             THEN Fails /\ UNCHANGED mem
             ELSE ApplyCoreProperties /\ Goto("shapes", rd.cell)
    /\ UNCHANGED <<file, saved, rounds, before, saves, reads>>

\* LayerMapper::layer_index: one new layer per key and read, whatever layers the
\* layout has already.
LayerIndex(spec) ==
    IF spec.ld \in DOMAIN rd.layers THEN rd.layers[spec.ld] ELSE Len(mem.layers) + 1
WithLayer(m, spec) ==
    IF spec.ld \in DOMAIN rd.layers THEN m ELSE [m EXCEPT !.layers = Append(@, spec)]

InsertShape(m, shape, spec) ==
    [m EXCEPT !.cells[TargetIndex].shapes =
        Append(@, [layer |-> LayerIndex(spec), kind |-> ReadAs(shape.kind),
                   prop |-> PropertiesIdFromCore(shape.prop)])]

\* The layer is looked up, or made, before the coordinates are converted.
ReadShape ==
    LET shape == FileCell.shapes[rd.k]
        spec == LayerSpecById(shape.id)
        layers == Extended(rd.layers, spec.ld, LayerIndex(spec))
    IN
    /\ rd.at = "shapes"
    /\ rd.k <= Len(FileCell.shapes)
    /\ \/ PropertiesThrow(shape.prop) /\ Fails /\ UNCHANGED mem
       \/ /\ ~PropertiesThrow(shape.prop)
          /\ \/ shape.kind = "path without points" /\ Continue("shapes") /\ UNCHANGED mem
             \/ /\ Overflows(shape.kind)
                /\ mem' = WithLayer(mem, spec)
                /\ rd' = [rd EXCEPT !.at = "failed", !.layers = layers]
             \/ /\ ~Overflows(shape.kind) /\ shape.kind # "path without points"
                /\ mem' = IF shape.kind = "polygon without points" THEN WithLayer(mem, spec)
                          ELSE InsertShape(WithLayer(mem, spec), shape, spec)
                /\ rd' = [rd EXCEPT !.k = @ + 1, !.layers = layers]
    /\ UNCHANGED <<file, saved, rounds, before, saves, reads>>

ShapesRead ==
    /\ rd.at = "shapes"
    /\ rd.k > Len(FileCell.shapes)
    /\ Goto("insts", rd.cell)
    /\ UNCHANGED <<mem, file, saved, rounds, before, saves, reads>>

ChildIndex_InLayout(name) == IndexOf(mem, name)    \* a fault: looked up in the layout
\* Which cell a name stands for is decided by the names of this read alone.
ChildIndex(name) == rd.names[name]

\* An instance of a cell the file does not have is skipped with a warning.
ReadInstance ==
    LET inst == FileCell.insts[rd.k] IN
    /\ rd.at = "insts"
    /\ rd.k <= Len(FileCell.insts)
    /\ \/ inst.child \notin DOMAIN rd.names /\ Continue("insts") /\ UNCHANGED mem
       \/ /\ inst.child \in DOMAIN rd.names
          /\ IF Overflows(inst.rot) \/ PropertiesThrow(inst.prop)
             THEN Fails /\ UNCHANGED mem
             ELSE /\ Continue("insts")
                  /\ mem' = [mem EXCEPT !.cells[TargetIndex].insts =
                        Append(@, [cell |-> ChildIndex(inst.child), rot |-> inst.rot, at |-> inst.at,
                                   n |-> 1, prop |-> PropertiesIdFromCore(inst.prop)])]
    /\ UNCHANGED <<file, saved, rounds, before, saves, reads>>

CellRead ==
    /\ rd.at = "insts"
    /\ rd.k > Len(FileCell.insts)
    /\ Goto("cell", rd.cell + 1)
    /\ UNCHANGED <<mem, file, saved, rounds, before, saves, reads>>

ReadDone ==
    /\ rd.at = "cell"
    /\ rd.cell > Len(file.cells)
    /\ rd' = [rd EXCEPT !.at = "done"]
    /\ UNCHANGED <<mem, file, saved, rounds, before, saves, reads>>

-----------------------------------------------------------------------------
Init ==
    /\ \E start \in Starts : mem = start.mem /\ file = start.file
    /\ rd = NotReading
    /\ saved = NoLayout /\ rounds = 0 /\ before = NoLayout
    /\ saves = 0 /\ reads = 0

ReadStep ==
    \/ AddCell \/ CellsAdded \/ BeginCell \/ ReadShape \/ ShapesRead
    \/ ReadInstance \/ CellRead \/ ReadDone

Next ==
    \/ \E option \in LibNames \cup {""}, stem \in Stems : Save(option, stem)
    \/ \E fresh \in BOOLEAN : ReadNoCells(fresh) \/ ReadHeader(fresh)
    \/ ReadStep

Spec == Init /\ [][Next]_vars

-----------------------------------------------------------------------------
(* What a layout contains, independent of the order of its tables.         *)

BagOf(s) == [x \in ToSet(s) |-> Cardinality({i \in DOMAIN s : s[i] = x})]

ShapesIn(m, cell) ==
    [j \in DOMAIN cell.shapes |->
        [ld |-> m.layers[cell.shapes[j].layer].ld, kind |-> cell.shapes[j].kind, prop |-> cell.shapes[j].prop]]

\* Every element of an array counts, but those of cells without a name do not.
ElementsOf(m, inst) ==
    [e \in 1..(IF m.cells[inst.cell].name = NoName THEN 0 ELSE inst.n) |-> [child |-> m.cells[inst.cell].name, rot |-> inst.rot,
                          at |-> inst.at + e - 1, prop |-> inst.prop]]
InstancesIn(m, cell) == FlattenSeq([j \in DOMAIN cell.insts |-> ElementsOf(m, cell.insts[j])])

\* The cells that have a name, with their shapes of some kinds.
RealNames(m) == CellNames(m) \ {NoName}
OfKinds(bag, kinds) == [x \in {y \in DOMAIN bag : y.kind \in kinds} |-> bag[x]]
Content(m, kinds) ==
    [name \in RealNames(m) |->
        LET cell == m.cells[IndexOf(m, name)]
        IN  [prop |-> cell.prop, shapes |-> OfKinds(BagOf(ShapesIn(m, cell)), kinds),
             insts |-> BagOf(InstancesIn(m, cell))]]

\* The kinds of shapes that a file cannot keep.
Lost == {"edge", "polygon without points", "path without points"}

\* The properties a CORE file holds as they are: integers and strings under GDS
\* attributes, strings under names that are no numbers.
RepresentableProperty(p) ==
    LET name == p[1].text
        value == p[2].text
    IN  \/ /\ name.n \in Nat /\ InRange(name.n, 0, 32767)
           /\ p \in {<<Long(name.n), Long(value.n)>>, <<Long(name.n), String(Text(<<>>, value.kind, value.n))>>}
        \/ /\ p = <<String(name), String(value)>>
           /\ name # NoText /\ ~CanConvertToLong(p[1])
RepresentableSet(set) == \A p \in set : RepresentableProperty(p)

\* A unit that both divisions leave as it is.
UnitKept(m) == m.dbu > 0 /\ Reciprocal(m.dbu) > 0 /\ Reciprocal(Reciprocal(m.dbu)) = m.dbu

\* The layouts that the format holds as they are.
Representable(m) ==
    /\ m.cells # <<>> /\ NoName \notin CellNames(m) /\ UnitKept(m) /\ RepresentableSet(m.prop)
    /\ \A l \in DOMAIN m.layers : InRange(m.layers[l].ld[1], 0, 65535) /\ InRange(m.layers[l].ld[2], 0, 65535)
    /\ \A i \in DOMAIN m.cells :
        /\ RepresentableSet(m.cells[i].prop)
        /\ \A j \in DOMAIN m.cells[i].shapes :
            /\ m.cells[i].shapes[j].kind \in {"box", "polygon", "path", "text"}
            /\ RepresentableSet(m.cells[i].shapes[j].prop)
        /\ \A j \in DOMAIN m.cells[i].insts :
            m.cells[i].insts[j].rot # "a30" /\ RepresentableSet(m.cells[i].insts[j].prop)

-----------------------------------------------------------------------------
(* Properties                                                              *)

\* Cell names are unique but for the empty one, and every index that a shape, an
\* instance or the reader holds is one of the layout.
TypeOK ==
    /\ rd.at \in {"idle", "add", "cell", "shapes", "insts", "done", "failed"}
    /\ AreUnique(mem.cells)
    /\ \A i \in DOMAIN mem.cells :
        /\ \A j \in DOMAIN mem.cells[i].shapes : mem.cells[i].shapes[j].layer \in DOMAIN mem.layers
        /\ \A j \in DOMAIN mem.cells[i].insts : mem.cells[i].insts[j].cell \in DOMAIN mem.cells
    /\ \A x \in DOMAIN rd.names : rd.names[x] \in DOMAIN mem.cells
    /\ \A x \in DOMAIN rd.layers : rd.layers[x] \in DOMAIN mem.layers

\* A layout within the format comes back from its file with every cell, shape,
\* instance and property it had, and the same database unit and library name
\* (coreWriter.cc write against coreReader.cc do_read).
RoundTripExact ==
    LoadedBack /\ Representable(saved) =>
        /\ Content(mem, Kinds) = Content(saved, Kinds)
        /\ mem.dbu = saved.dbu /\ mem.libname = saved.libname /\ mem.prop = saved.prop

NumberOn(m, name, key, kinds) ==
    LET cell == m.cells[IndexOf(m, name)]
    IN  Cardinality({j \in DOMAIN cell.shapes :
            /\ cell.shapes[j].kind \in kinds
            /\ m.layers[cell.shapes[j].layer].ld[1] >= 0 /\ m.layers[cell.shapes[j].layer].ld[2] >= 0
            /\ LET ld == m.layers[cell.shapes[j].layer].ld
               IN  <<ld[1] % 65536, ld[2] % 65536>> = key})

Placed(m, name) ==
    LET all == InstancesIn(m, m.cells[IndexOf(m, name)])
    IN  BagOf([j \in DOMAIN all |-> <<all[j].child, all[j].at>>])

\* Whatever layout is saved, also one beyond the format: no shape or instance
\* comes back in another cell, on another layer, twice, or under another cell
\* name.  Lost are the cells without a name and the instances of them, edges,
\* polygons and paths without points, what is on layers without numbers, and
\* nothing else.
NothingMoved ==
    LoadedBack =>
        /\ CellNames(mem) = RealNames(saved)
        /\ \A name \in CellNames(mem) :
            /\ Placed(mem, name) = Placed(saved, name)
            /\ \A key \in {LayerKey(mem.layers[l].ld) : l \in DOMAIN mem.layers}
                         \cup {LayerKey(saved.layers[l].ld) : l \in DOMAIN saved.layers} :
                   NumberOn(mem, name, key, Kinds) = NumberOn(saved, name, key, Kinds \ Lost)

\* A property that a save and a load keep.
Settled(p) == ~PropertiesThrow({ToCore(p)}) /\ FromCore(ToCore(p)) = p
AllSettled(m) ==
    \A i \in DOMAIN m.cells :
        /\ \A p \in m.cells[i].prop : Settled(p)
        /\ \A j \in DOMAIN m.cells[i].shapes : \A p \in m.cells[i].shapes[j].prop : Settled(p)
        /\ \A j \in DOMAIN m.cells[i].insts : \A p \in m.cells[i].insts[j].prop : Settled(p)

\* A layout that was loaded from our own file is the same after another round,
\* whatever it was at first, once its properties are settled; only the polygons
\* that lost their points on the first load are gone after the second save.
SecondRoundExact ==
    LoadedBack /\ rounds > 0 /\ AllSettled(saved) =>
        /\ Content(mem, Kinds) = Content(saved, Kinds \ {"polygon without points"})
        /\ UnitKept(saved) => mem.dbu = saved.dbu

\* The properties of the cells, shapes and instances of a layout are in P, and so are
\* those that a file has for them.
Holds(m, P) ==
    \A i \in DOMAIN m.cells :
        /\ m.cells[i].prop \subseteq P
        /\ \A j \in DOMAIN m.cells[i].shapes : m.cells[i].shapes[j].prop \subseteq P
        /\ \A j \in DOMAIN m.cells[i].insts : m.cells[i].insts[j].prop \subseteq P
FileHolds(f, P) ==
    \A i \in DOMAIN f.cells :
        LET c == f.cells[i]
            held(list) == PropertiesIdFromCore(list) \subseteq P
        IN  /\ held(c.prop) /\ held(c.viewProp)
            /\ \A j \in DOMAIN c.shapes : held(c.shapes[j].prop)
            /\ \A j \in DOMAIN c.insts : held(c.insts[j].prop)

\* No value starts with more than two prefixes.
TwoPrefixes ==
    \A start \in Starts : Holds(start.mem, ShortProperties) /\ FileHolds(start.file, ShortProperties)

\* Properties change their types, names and values on the way; a text loses one
\* type prefix per round.  This comes to an end: for texts of up to two prefixes,
\* what the second load gives is not changed by a third.
PropertiesSettle == LoadedBack /\ rounds > 0 => AllSettled(mem)

\* A read into a layout with content of its own leaves the layers and cells that
\* were there as they are, at every point and also if it fails; only ghost cells
\* without content are taken over (Layout::add_cell, dbLayout.cc:1454).
OthersUntouched ==
    before # NoLayout =>
        /\ \A l \in DOMAIN before.layers : mem.layers[l] = before.layers[l]
        /\ \A i \in DOMAIN before.cells :
            LET cell == before.cells[i]
            IN  (~cell.ghost \/ cell.shapes # <<>> \/ cell.insts # <<>>) => mem.cells[i] = cell

\* The shapes of a cell of the file, and its instances of cells that the file has.
RealShapes(c) == {j \in DOMAIN c.shapes : c.shapes[j].kind \notin {"polygon without points", "path without points"}}
ShapesAsRead(c, shapes) ==
    [j \in DOMAIN shapes |->
        [ld |-> IF shapes[j].id \in DOMAIN c.layers THEN c.layers[shapes[j].id].ld ELSE <<0, 0>>,
         kind |-> CASE shapes[j].kind = "empty box" -> "box"
                    [] shapes[j].kind = "thin polygon" -> "polygon without points"
                    [] OTHER -> shapes[j].kind,
         prop |-> PropertiesIdFromCore(shapes[j].prop)]]
FileShapes(c) == ShapesAsRead(c, Part(c.shapes, RealShapes(c)))

KnownInstances(c, names) == {j \in DOMAIN c.insts : c.insts[j].child \in DOMAIN names}
InstancesAsRead(names, insts) ==
    [j \in DOMAIN insts |->
        [child |-> names[insts[j].child], rot |-> insts[j].rot, at |-> insts[j].at,
         prop |-> PropertiesIdFromCore(insts[j].prop)]]
FileInstances(c, names) == InstancesAsRead(names, Part(c.insts, KnownInstances(c, names)))

CellInstances(cell) ==
    [j \in DOMAIN cell.insts |->
        [child |-> cell.insts[j].cell, rot |-> cell.insts[j].rot, at |-> cell.insts[j].at,
         prop |-> cell.insts[j].prop]]

\* What a read does to the cells of the file does not depend on the target: at any
\* point, and after a failure, the cells passed hold exactly what the file has,
\* with instances of this file's cells only however these had to be renamed, and
\* the cells not yet reached hold nothing.
ReadSoFar ==
    rd.at \in {"cell", "shapes", "insts", "done", "failed"} /\ rd.cell > 0 =>
        \A i \in DOMAIN file.cells :
            LET c == file.cells[i]
                target == mem.cells[rd.names[c.name]]
            IN  /\ (i < rd.cell /\ c.layout) =>
                       /\ ShapesIn(mem, target) = FileShapes(c)
                       /\ CellInstances(target) = FileInstances(c, rd.names)
                /\ (i > rd.cell \/ ~c.layout) => target.shapes = <<>> /\ target.insts = <<>>

-----------------------------------------------------------------------------
(* Statements of the documentation that the code does not keep             *)

\* src/README.md:3: "open and save .core / *.layout.core layout files directly".
\* A file this writer has written can be opened.
OpensWhatItSaved == FromOurFile => rd.at # "failed"
=============================================================================
