--------------------------- MODULE PropertyBridge ---------------------------
(***************************************************************************)
(* The translation between KLayout's property sets and the property lists  *)
(* of a CORE file (mcore/db_plugin/propertyBridge.cc).                     *)
(*                                                                         *)
(* A property set is a set of pairs <<name, value>> of variants.  A text   *)
(* is cut where the code cuts it: the type prefixes it starts with, then   *)
(* the rest, of which only matters whether it reads as a number:           *)
(* "int" n is the decimal text of n, "frac" n a decimal fraction whose     *)
(* integer part is n, "huge" n a number beyond the range of long in        *)
(* scientific notation that begins with the digits of n, "word" any other  *)
(* text and "none" the empty one.                                          *)
(* A variant is its type and what to_string gives for it.                  *)
(***************************************************************************)
EXTENDS Integers, Sequences

Text(prefixes, kind, n) == [pre |-> prefixes, kind |-> kind, n |-> n]
NoText == Text(<<>>, "none", 0)
IntText(n) == Text(<<>>, "int", n)
Prefixed(p, t) == [t EXCEPT !.pre = <<p>> \o @]
StartsWith(t, p) == t.pre # <<>> /\ Head(t.pre) = p
Stripped(t) == [t EXCEPT !.pre = Tail(@)]

Long(n) == [type |-> "long", text |-> IntText(n)]
String(t) == [type |-> "string", text |-> t]

\* The texts there can be, and what can be of them as a name or a value: the text
\* of a number starts with no prefix.
AllTexts == [pre : Seq({"s:", "i2:", "i4:"}), kind : {"int", "frac", "huge", "word", "none"}, n : Int]
Variants == {v \in [type : {"nil", "long", "double", "string"}, text : AllTexts] :
                /\ v.type = "long" => v = Long(v.text.n)
                /\ v.type = "double" => v.text.pre = <<>>}
\* Properties with values of up to two prefixes.
ShortProperties == {p \in Variants \X Variants : Len(p[2].text.pre) <= 2}

\* std::stol takes the digits a text starts with and throws if there are none.
StolAccepts(t) == t.pre = <<>> /\ t.kind \in {"int", "frac", "huge"}

\* A nil converts, a double does if it is in range, a string if all of it is
\* the text of an integer.
CanConvertToLong(v) ==
    \/ v.type \in {"nil", "long"}
    \/ v.type = "double" /\ v.text.kind # "huge"
    \/ v.type = "string" /\ v.text.pre = <<>> /\ v.text.kind = "int"

InRange(n, low, high) == low <= n /\ n <= high

ToLong(v) == IF v.type = "nil" THEN 0 ELSE v.text.n

ToInt16_Shifted(n) == ((n + 32767) % 65536) - 32768   \* a fault: off by one
ToInt16(n) == ((n + 32768) % 65536) - 32768

-----------------------------------------------------------------------------
(* Values under a GDS attribute carry their type as a prefix.              *)

IsTypedLong(t) == StartsWith(t, "i2:") \/ StartsWith(t, "i4:")

DecodeThrows(t) == IsTypedLong(t) /\ ~StolAccepts(Stripped(t))

DecodeGdsTypedValue(t) ==
    IF IsTypedLong(t) THEN Long(Stripped(t).n)
    ELSE String(IF StartsWith(t, "s:") THEN Stripped(t) ELSE t)

EncodeGdsTypedValue_String(v) == Prefixed("s:", v.text)   \* a fault: the type forgotten
EncodeGdsTypedValue(v) ==
    CASE v.type = "nil" -> NoText
      [] v.type = "string" -> IF v.text.pre # <<>> THEN v.text ELSE Prefixed("s:", v.text)
      [] OTHER -> IF ~CanConvertToLong(v) THEN Prefixed("s:", v.text)
                  ELSE Prefixed(IF InRange(ToLong(v), -32768, 32767) THEN "i2:" ELSE "i4:",
                                IntText(ToLong(v)))

-----------------------------------------------------------------------------
(* One property.  GdsProperty stands for core::gds_prop::make, which       *)
(* isGdsProperty and attrOf take apart again.                              *)

GdsProperty(attr, value) == [gds |-> TRUE, attr |-> attr, name |-> NoText, value |-> value]
NamedProperty(name, value) == [gds |-> FALSE, attr |-> 0, name |-> name, value |-> value]

\* Every name that converts to a long of 16 bits becomes a GDS attribute.
IsAttr(name) == CanConvertToLong(name) /\ InRange(ToLong(name), 0, 65535)

ToCore(p) ==
    IF IsAttr(p[1])
    THEN GdsProperty(ToInt16(ToLong(p[1])), EncodeGdsTypedValue(p[2]))
    ELSE NamedProperty(p[1].text, p[2].text)

FromCore(c) ==
    IF c.gds THEN <<Long(c.attr), DecodeGdsTypedValue(c.value)>>
    ELSE <<String(c.name), String(c.value)>>

PropertiesFromKLayout(set) ==
    {ToCore(p) : p \in {q \in set : IsAttr(q[1]) \/ q[1].type # "nil"}}

\* std::stol's exception leaves properties_id_from_core.
PropertiesThrow(list) == \E c \in list : c.gds /\ DecodeThrows(c.value)

PropertiesIdFromCore(list) == {FromCore(c) : c \in {d \in list : d.gds \/ d.name # NoText}}
=============================================================================
