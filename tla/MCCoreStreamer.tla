--------------------------- MODULE MCCoreStreamer ---------------------------
(***************************************************************************)
(* Instances of CoreStreamer for TLC: the layouts and files a run starts   *)
(* with.  Every layout is one the database can hold.                       *)
(***************************************************************************)
EXTENDS CoreStreamer

Name(b) == [base |-> b, suffix |-> <<>>]
Numbered(b, n) == [base |-> b, suffix |-> <<n>>]
Layer(l, d) == [ld |-> <<l, d>>, name |-> ""]
Shape(l, kind, prop) == [layer |-> l, kind |-> kind, prop |-> prop]
Inst(c, rot, n, prop) == [cell |-> c, rot |-> rot, at |-> 1, n |-> n, prop |-> prop]
Cell(name, shapes, insts) ==
    [name |-> name, ghost |-> FALSE, prop |-> {}, shapes |-> shapes, insts |-> insts]
Ghost(name) == [Cell(name, <<>>, <<>>) EXCEPT !.ghost = TRUE]
Layout(dbu, layers, cells) ==
    [dbu |-> dbu, libname |-> "", prop |-> {}, layers |-> layers, cells |-> cells]

Word == Text(<<>>, "word", 0)
Plain == {<<Long(5), String(Word)>>}

\* Layer tables: distinct, twice the same, beyond 16 bits, without numbers.
LayerTables ==
    {<<Layer(1, 0), Layer(2, 0)>>, <<Layer(1, 0), Layer(1, 1)>>, <<Layer(1, 0), Layer(1, 0)>>,
     <<Layer(65536, 0), Layer(0, 0)>>, <<Layer(-1, -1), Layer(2, 0)>>}

ShapeLists ==
    {<<Shape(2, "box", {})>>, <<Shape(2, "text", Plain), Shape(1, "box", {})>>,
     <<Shape(1, "polygon with hole", {}), Shape(1, "edge", {}), Shape(2, "path without points", {})>>,
     <<Shape(2, "empty box", {}), Shape(1, "thin polygon", {})>>}

\* A calls B, B calls C.
Hierarchy(s, t, rot, n) ==
    <<Cell(Name("C"), t, <<>>), Cell(Name("A"), s, <<Inst(3, rot, n, {}), Inst(1, "m45", 1, Plain)>>),
      Cell(Name("B"), <<>>, <<Inst(1, "r90", 1, {})>>)>>

GeometryLayouts ==
    {Layout(dbu, layers, Hierarchy(s, t, rot, n)) :
        dbu \in {1000, 1500}, layers \in LayerTables, s \in ShapeLists, t \in ShapeLists,
        rot \in {"m90", "a30"}, n \in 1..2}

\* Cells without a name, that have shapes and instances and are called; a unit that
\* is none, and shapes without points.
NamelessLayouts ==
    {Layout(dbu, <<Layer(1, 0), Layer(2, 0)>>,
        <<Cell(NoName, s, <<Inst(2, "r90", n, {})>>), Cell(Name("A"), t, <<Inst(1, "r0", n, {}), Inst(3, rot, n, {})>>),
          Cell(Name("B"), s, <<Inst(4, rot, 1, {})>>), Cell(NoName, t, <<>>)>>) :
        dbu \in {0, 1000}, rot \in {"m90", "a30"}, n \in 1..2, s \in {<<>>, <<Shape(1, "box", {})>>},
        t \in {<<>>, <<Shape(2, "thin polygon", {}), Shape(2, "polygon without points", {}), Shape(1, "path", {})>>}}

\* Targets with names the file has too: the same name, the name add_cell would
\* make of it, ghost cells that are called, empty or not.
TargetLayouts ==
    {Layout(dbu, <<Layer(1, 0)>>, cells) :
        dbu \in {1000, 200},
        cells \in {
            <<Cell(Name("B"), <<Shape(1, "box", {})>>, <<Inst(2, "r0", 1, {})>>), Ghost(Name("A"))>>,
            <<Cell(Name("A"), <<>>, <<Inst(2, "r0", 2, {})>>), Cell(Name("B"), <<>>, <<>>)>>,
            <<Cell(Numbered("A", 2), <<>>, <<>>), Cell(Name("A"), <<Shape(1, "path", {})>>, <<Inst(3, "r0", 1, {})>>),
              Cell(NoName, <<>>, <<>>)>>,
            <<[Cell(Name("A"), <<Shape(1, "box", {})>>, <<>>) EXCEPT !.ghost = TRUE]>>,
            <<Ghost(Name("B")), [Cell(Name("A"), <<>>, <<Inst(1, "r0", 1, {})>>) EXCEPT !.ghost = TRUE]>>}}

FileShape(id, kind) == [id |-> id, kind |-> kind, prop |-> {}]
FileInst(child, rot) == [child |-> child, rot |-> rot, at |-> 1, prop |-> {}]
FileCellOf(name, shapes, insts) ==
    [name |-> name, layout |-> TRUE, dbu |-> 1000, prop |-> {}, viewProp |-> {},
     layers |-> <<Layer(1, 0), Layer(2, 0)>>, shapes |-> shapes, insts |-> insts]
Unreadable == {GdsProperty(1, Text(<<"i2:">>, "word", 0))}

\* Files of other programs: forward and missing references, layer ids out of
\* range, coordinates out of range, cells without a layout view or a unit.
Files ==
    {[name |-> "lib", prop |-> prop, cells |-> <<a, b>>] :
        prop \in {{}, Unreadable, {NamedProperty(Word, Word)}},
        a \in {FileCellOf(Name("A"), <<FileShape(1, "box"), FileShape(i, k)>>,
                          <<FileInst(Name("X"), "r0"), FileInst(Name("B"), r)>>) :
                  i \in {2, 3}, k \in {"path", "far away", "path without points", "polygon without points", "thin polygon"},
                  r \in {"m0", "far away"}},
        b \in {FileCellOf(Name("B"), <<FileShape(2, "text")>>, <<>>),
               [FileCellOf(Name("B"), <<>>, <<>>) EXCEPT !.layout = FALSE],
               [FileCellOf(Numbered("A", 1), <<>>, <<FileInst(Name("A"), "r0")>>) EXCEPT !.dbu = 0],
               [FileCellOf(Name("B"), <<>>, <<>>) EXCEPT !.viewProp = Unreadable]}}
    \cup {[name |-> "lib", prop |-> {}, cells |-> <<>>]}

-----------------------------------------------------------------------------
Texts == {Text(p, k, n) : p \in {<<>>, <<"i2:">>, <<"s:">>, <<"s:", "i4:">>}, k \in {"word", "frac"}, n \in {1}}
         \cup {IntText(7), IntText(40000), Text(<<"s:">>, "int", 7), NoText}
Double(n, kind) == [type |-> "double", text |-> Text(<<>>, kind, n)]
Nil == [type |-> "nil", text |-> Text(<<>>, "word", -1)]
Values == {Long(7), Long(-40000), Double(1, "frac"), Double(3, "huge"), Nil} \cup {String(t) : t \in Texts}
Names == {Long(7), Long(40000), Long(-7), Double(1, "frac"), Nil} \cup {String(t) : t \in Texts \ {NoText}}

\* One property on every kind of holder, and one on the layout.
PropertyLayouts ==
    {[Layout(1000, <<Layer(1, 0)>>,
        <<[Cell(Name("A"), <<Shape(1, "box", {p})>>, <<Inst(2, "r0", 1, {p})>>) EXCEPT !.prop = {p}],
          Cell(Name("B"), <<>>, <<>>)>>) EXCEPT !.prop = {q}] :
        p \in Names \X Values, q \in {<<Long(7), String(Word)>>}}

SavedLayouts == GeometryLayouts \cup NamelessLayouts \cup PropertyLayouts \cup {Layout(1000, <<>>, <<>>)}

AllStarts == [mem : SavedLayouts, file : {NoFile}] \cup [mem : TargetLayouts, file : Files]
PropertyStarts == [mem : PropertyLayouts, file : {NoFile}]

\* The texts above are short enough for what PropertiesSettle says.
ASSUME PrefixesAreFew == TwoPrefixes
=============================================================================
