------------------------------- MODULE Shapes --------------------------------
(***************************************************************************)
(* The reader of a shape file (_prop/engine/shape.py): which documents it  *)
(* refuses, which definitions can refer to themselves, where a value whose *)
(* budget is used exits, and the generator of each shape.                  *)
(*                                                                         *)
(* A node is a record whose field shape is the id of its shape; a key that *)
(* the file does not state is not a field.  A document has a root, its     *)
(* definitions, and the names that the caller defines (externals).  Parsed *)
(* bounds are numbers, dates <<year, month, day>> and pairs of numbers.    *)
(***************************************************************************)
EXTENDS Generators

CONSTANTS Widths,      \* the widths of the int shape, and the one of two halves
          WideWidth,
          Units,       \* the units of a time shape: the number of each in one second
          LastSecond,  \* the default bounds of the time shapes, around zero
          MaxOffset,
          MaxDuration,
          LargestFloat

Keys ==
  [bool |-> <<{}, {}>>, int |-> <<{"width", "signed"}, {"min", "max"}>>,
   float |-> <<{"width"}, {"min", "max", "nan", "infinite"}>>, char |-> <<{}, {"alphabet"}>>,
   string |-> <<{}, {"min", "max", "alphabet", "pattern"}>>, bytes |-> <<{}, {"min", "max"}>>,
   list |-> <<{"of"}, {"min", "max"}>>, fixed |-> <<{"of", "size"}, {}>>,
   set |-> <<{"of"}, {"min", "max"}>>, map |-> <<{"key", "of"}, {"min", "max"}>>,
   optional |-> <<{"of"}, {}>>, record |-> <<{"fields"}, {}>>, enum |-> <<{"variants"}, {}>>,
   literal |-> <<{"values"}, {}>>, ref |-> <<{"name"}, {}>>, uuid |-> <<{}, {}>>,
   ip |-> <<{}, {"version"}>>, decimal |-> <<{"scale"}, {"min", "max"}>>,
   instant |-> <<{"unit"}, {"min", "max"}>>, date |-> <<{}, {"min", "max"}>>,
   time |-> <<{"unit"}, {"min", "max"}>>, local |-> <<{"unit"}, {"min", "max"}>>,
   duration |-> <<{"unit"}, {"min", "max"}>>, offset |-> <<{}, {"min", "max"}>>,
   zone |-> <<{}, {}>>, zoned |-> <<{"unit"}, {}>>, wall |-> <<{"unit"}, {}>>]

Stated(node, key, default) == IF key \in DOMAIN node THEN node[key] ELSE default

-----------------------------------------------------------------------------
(* Bounds of a shape *)

Leap(y) == (y % 4 = 0 /\ y % 100 # 0) \/ y % 400 = 0

MonthDays == <<31, 28, 31, 30, 31, 30, 31, 31, 30, 31, 30, 31>>

IsDate(d) ==
  /\ d[1] \in 1 .. 9999 /\ d[2] \in 1 .. 12
  /\ d[3] \in 1 .. (IF d[2] = 2 /\ Leap(d[1]) THEN 29 ELSE MonthDays[d[2]])

\* The days since 1970-01-01, by eras of 400 years that start in March.
DayOf(d) ==
  LET year == IF d[2] <= 2 THEN d[1] - 1 ELSE d[1]
      era  == year \div 400
      y    == year - era * 400
      day  == (153 * (IF d[2] > 2 THEN d[2] - 3 ELSE d[2] + 9) + 2) \div 5 + d[3] - 1
  IN era * 146097 + y * 365 + y \div 4 - y \div 100 + day - 719468

\* The unscaled value of a bound numerator/10^digits, rounded into the range.
DecimalBound(bound, factor, up) ==
  IF up THEN CeilDiv(bound[1] * factor, 10 ^ bound[2]) ELSE (bound[1] * factor) \div 10 ^ bound[2]

\* The min and the max of a shape, or the widest range.
RangeOf(node, fallback) == <<Stated(node, "min", fallback[1]), Stated(node, "max", fallback[2])>>

InRange(range, fallback) ==
  fallback[1] <= range[1] /\ range[1] <= range[2] /\ range[2] <= fallback[2]

PairLeq(p, q) == p[1] < q[1] \/ (p[1] = q[1] /\ p[2] <= q[2])

PairInRange(range, fallback) ==
  PairLeq(fallback[1], range[1]) /\ PairLeq(range[1], range[2]) /\ PairLeq(range[2], fallback[2])

Widest(node) ==
  IF node.signed THEN <<-(2 ^ (node.width - 1)), 2 ^ (node.width - 1) - 1>>
  ELSE <<0, 2 ^ node.width - 1>>

SizesOf(node) == <<Stated(node, "min", 0), Stated(node, "max", NoMax)>>
SizesFit(sizes) == 0 <= sizes[1] /\ (sizes[2] = NoMax \/ sizes[1] <= sizes[2])

\* A date bound as its day, and a decimal bound as its unscaled value.
DateRange(node) == <<DayOf(Stated(node, "min", <<1, 1, 1>>)), DayOf(Stated(node, "max", <<9999, 12, 31>>))>>
DecimalRange(node, fallback) ==
  LET factor == 10 ^ node.scale IN
  <<IF "min" \in DOMAIN node THEN DecimalBound(node.min, factor, TRUE) ELSE fallback[1],
    IF "max" \in DOMAIN node THEN DecimalBound(node.max, factor, FALSE) ELSE fallback[2]>>

FloatRange(node) ==
  RangeOf(node, IF Stated(node, "infinite", FALSE) THEN <<-Infinite, Infinite>>
                ELSE <<-LargestFloat, LargestFloat>>)

Seconds == <<-LastSecond, LastSecond>>
WholeInstant(per) == <<<<-LastSecond, 0>>, <<LastSecond, per - 1>>>>
WholeLocal(per) == <<<<-LastSecond, 0>>, <<LastSecond, Day * per - 1>>>>
DurationOf(unit) == MaxDuration \div (Max(Range(Units)) \div Units[unit])

\* The bounds of a shape of itself are empty, or outside its range.
BoundsFit(node) ==
  CASE node.shape = "int"      -> node.width \in Widths /\ InRange(RangeOf(node, Widest(node)), Widest(node))
    [] node.shape = "float"    -> /\ node.width \in {32, 64}
                                  /\ LET range == FloatRange(node) IN
                                     /\ range[1] <= range[2]
                                     /\ \A v \in Range(range) : Representable(v, node.width)
                                     /\ Stated(node, "infinite", FALSE) => Infinite \in {-range[1], range[2]}
    [] node.shape \in {"list", "set", "map", "bytes"} -> SizesFit(SizesOf(node))
    [] node.shape = "fixed"    -> node.size >= 0
    [] node.shape = "string"   -> IF "pattern" \in DOMAIN node
                                  THEN DOMAIN node = {"shape", "pattern"} ELSE SizesFit(SizesOf(node))
    [] node.shape = "literal"  -> node.values # <<>>
    [] node.shape = "ip"       -> Stated(node, "version", 4) \in {4, 6}
    [] node.shape = "date"     -> /\ \A key \in DOMAIN node \ {"shape"} : IsDate(node[key])
                                  /\ DateRange(node)[1] <= DateRange(node)[2]
    [] node.shape = "decimal"  -> node.scale >= 0 /\ InRange(DecimalRange(node, Seconds), Seconds)
    [] node.shape = "offset"   -> InRange(RangeOf(node, <<-MaxOffset, MaxOffset>>), <<-MaxOffset, MaxOffset>>)
    [] node.shape \in {"zoned", "wall"} -> node.unit \in DOMAIN Units
    [] node.shape \in {"instant", "local", "time", "duration"} ->
         /\ node.unit \in DOMAIN Units
         /\ LET per == Units[node.unit]
                Fits(whole) == InRange(RangeOf(node, whole), whole)
            IN CASE node.shape = "time"     -> Fits(<<0, Day * per - 1>>)
                 [] node.shape = "duration" -> Fits(<<-DurationOf(node.unit), DurationOf(node.unit)>>)
                 [] node.shape = "instant"  -> PairInRange(RangeOf(node, WholeInstant(per)), WholeInstant(per))
                 [] OTHER                   -> PairInRange(RangeOf(node, WholeLocal(per)), WholeLocal(per))
    [] OTHER -> TRUE

-----------------------------------------------------------------------------
(* Refs, exits and finite values *)

\* The named parts of a record or an enum, each <<name>> or <<name, shape>>.
Parts(node) ==
  IF node.shape = "record" THEN node.fields ELSE IF node.shape = "enum" THEN node.variants ELSE <<>>

\* The names of the parts are not empty and do not repeat.
NamesFit(node) ==
  \A i, j \in DOMAIN Parts(node) : Parts(node)[i][1] = Parts(node)[j][1] => i = j

PartsOf(node) ==
  {Parts(node)[i][2] : i \in {j \in DOMAIN Parts(node) : Len(Parts(node)[j]) = 2}}
Children(node) ==
  PartsOf(node) \cup {node[key] : key \in DOMAIN node \cap {"of", "key"}}

\* The paths of a graph of names, one step wider at a time.
RECURSIVE Closure(_)
Closure(paths) ==
  LET wider == [n \in DOMAIN paths |-> paths[n] \cup UNION {paths[m] : m \in paths[n] \cap DOMAIN paths}]
  IN IF wider = paths THEN paths ELSE Closure(wider)

RECURSIVE RefsIn(_)
RefsIn(node) ==
  IF node.shape = "ref" THEN {node.name} ELSE UNION {RefsIn(child) : child \in Children(node)}

\* The definitions that can refer to themselves through refs.
Cyclic(doc) ==
  LET paths == Closure([name \in DOMAIN doc.definitions |-> RefsIn(doc.definitions[name])])
  IN {name \in DOMAIN paths : name \in paths[name]}

RefersBack(doc, node) == RefsIn(node) \cap Cyclic(doc) # {}

\* The index of the first variant that does not refer back, or NoEdge.
ExitVariant(doc, node) ==
  LET exits == {i \in DOMAIN node.variants :
                  Len(node.variants[i]) = 1 \/ ~RefersBack(doc, node.variants[i][2])}
  IN IF exits = {} THEN NoEdge ELSE Min(exits) - 1

\* MUTANT: a list of any minimum is an exit.
ExitsOfAnyList(doc, node) ==
  \/ node.shape \in {"optional", "list", "set", "map"}
  \/ node.shape = "enum" /\ ExitVariant(doc, node) # NoEdge

\* A container can always take an exit.
Exits(doc, node) ==
  \/ node.shape = "optional"
  \/ node.shape \in {"list", "set", "map"} /\ Stated(node, "min", 0) = 0
  \/ node.shape = "enum" /\ ExitVariant(doc, node) # NoEdge

\* The refs inside a node outside its exits.
RECURSIVE RefsOutsideExits(_, _)
RefsOutsideExits(doc, node) ==
  IF node.shape = "ref" THEN {node.name}
  ELSE IF Exits(doc, node) THEN {}
  ELSE UNION {RefsOutsideExits(doc, child) : child \in Children(node)}

\* No definition refers to itself on a path without an exit.
Finite(doc) ==
  LET must == Closure([name \in DOMAIN doc.definitions |->
                         RefsOutsideExits(doc, doc.definitions[name])])
  IN \A name \in Cyclic(doc) : name \notin must[name]

-----------------------------------------------------------------------------
(* The generators *)

RECURSIVE WellFormed(_)
WellFormed(node) ==
  /\ node.shape \in DOMAIN Keys
  /\ Keys[node.shape][1] \subseteq DOMAIN node
  /\ DOMAIN node \subseteq {"shape"} \cup Keys[node.shape][1] \cup Keys[node.shape][2]
  /\ node.shape \in {"record", "enum"} => Parts(node) # <<>>
  /\ NamesFit(node) /\ BoundsFit(node)
  /\ \A child \in Children(node) : WellFormed(child)

Nodes(doc) == {doc.root} \cup Range(doc.definitions)

\* The reader accepts a document.
Accepts(doc) ==
  /\ \A node \in Nodes(doc) : WellFormed(node)
  /\ UNION {RefsIn(node) : node \in Nodes(doc)} \subseteq DOMAIN doc.definitions \cup doc.externals
  /\ Finite(doc)

FixedBytes(count) == [is |-> "bytes", bounds |-> SequenceBounds(ByteBase, count, count)]
InstantOf(node, per) ==
  LET range == RangeOf(node, WholeInstant(per)) IN
  [is |-> "instant", per |-> per, lo |-> range[1], hi |-> range[2]]
LocalOf(node, per) ==
  LET range == RangeOf(node, WholeLocal(per)) IN
  [is |-> "local", per |-> per, lo |-> range[1], hi |-> range[2]]
IntegersOf(range) == [is |-> "integer", bounds |-> IntegerBounds(range[1], range[2])]

IntShape(node) ==
  LET range == RangeOf(node, Widest(node)) IN
  IF node.width = WideWidth THEN [is |-> "int128", lo |-> range[1], hi |-> range[2]]
  ELSE IntegersOf(range)

FloatShape(node) ==
  [is |-> "float", bounds |-> FloatBounds(FloatRange(node)[1], FloatRange(node)[2],
                                          Stated(node, "nan", FALSE), node.width)]

\* The size of the alphabet stands for its characters.
TextShape(node, sizes) ==
  IF "pattern" \in DOMAIN node THEN [is |-> "matching", piece |-> node.pattern]
  ELSE [is |-> "text", bounds |-> SequenceBounds(Stated(node, "alphabet", 2), sizes[1], sizes[2])]

\* A fixed list does not exit.
ListShape(doc, node, of) ==
  LET sizes == IF node.shape = "fixed" THEN <<node.size, node.size>> ELSE SizesOf(node) IN
  [is |-> "list", of |-> of, min |-> sizes[1], max |-> sizes[2],
   unique |-> node.shape = "set", sorted |-> node.shape = "set",
   exits |-> node.shape # "fixed" /\ Exits(doc, node) /\ RefersBack(doc, node)]

MapShape(doc, node, key, of) ==
  [is |-> "dict", key |-> key, of |-> of, min |-> SizesOf(node)[1], max |-> SizesOf(node)[2],
   exits |-> Exits(doc, node) /\ RefersBack(doc, node)]

EnumShape(doc, node, variants) ==
  [is |-> "enum", variants |-> variants,
   exit |-> IF RefersBack(doc, node) THEN ExitVariant(doc, node) ELSE NoEdge]

IpShape(node) ==
  IF "version" \in DOMAIN node THEN FixedBytes(IF node.version = 4 THEN 1 ELSE 2)
  ELSE [is |-> "ip", versions |-> <<FixedBytes(1), FixedBytes(2)>>]

ZoneShape == [is |-> "sampled", values |-> [i \in DOMAIN Zones |-> <<"int", i - 1>>]]

TimeShape(node) ==
  LET per == Units[node.unit] IN
  CASE node.shape = "instant"  -> InstantOf(node, per)
    [] node.shape = "local"    -> LocalOf(node, per)
    [] node.shape = "time"     -> IntegersOf(RangeOf(node, <<0, Day * per - 1>>))
    [] node.shape = "duration" -> IntegersOf(RangeOf(node, <<-DurationOf(node.unit), DurationOf(node.unit)>>))
    [] node.shape = "zoned"    -> [is |-> "zoned", instant |-> InstantOf([shape |-> "instant"], per)]
    [] OTHER                   -> [is |-> "wall", local |-> LocalOf([shape |-> "local"], per)]

\* The generator of a shape.
RECURSIVE Build(_, _)
BuildParts(doc, parts) ==
  [i \in DOMAIN parts |-> IF Len(parts[i]) = 1 THEN parts[i] ELSE <<parts[i][1], Build(doc, parts[i][2])>>]
Build(doc, node) ==
  CASE node.shape = "bool"    -> [is |-> "boolean"]
    [] node.shape = "int"     -> IntShape(node)
    [] node.shape = "float"   -> FloatShape(node)
    [] node.shape = "char"    -> TextShape(node, <<1, 1>>)
    [] node.shape = "string"  -> TextShape(node, SizesOf(node))
    [] node.shape = "bytes"   -> [is |-> "bytes", bounds |-> SequenceBounds(ByteBase, SizesOf(node)[1], SizesOf(node)[2])]
    [] node.shape \in {"list", "fixed", "set"} -> ListShape(doc, node, Build(doc, node.of))
    [] node.shape = "map"     -> MapShape(doc, node, Build(doc, node.key), Build(doc, node.of))
    [] node.shape = "optional" -> [is |-> "optional", of |-> Build(doc, node.of), exits |-> RefersBack(doc, node)]
    [] node.shape = "record"  -> [is |-> "record", fields |-> BuildParts(doc, node.fields)]
    [] node.shape = "enum"    -> EnumShape(doc, node, BuildParts(doc, node.variants))
    [] node.shape = "literal" -> [is |-> "sampled", values |-> node.values]
    [] node.shape = "ref"     -> [is |-> "ref", name |-> node.name, cyclic |-> node.name \in Cyclic(doc)]
    [] node.shape = "uuid"    -> FixedBytes(2)
    [] node.shape = "ip"      -> IpShape(node)
    [] node.shape = "decimal" -> IntegersOf(DecimalRange(node, Seconds))
    [] node.shape = "date"    -> IntegersOf(DateRange(node))
    [] node.shape = "offset"  -> IntegersOf(RangeOf(node, <<-MaxOffset, MaxOffset>>))
    [] node.shape = "zone"    -> ZoneShape
    [] OTHER                  -> TimeShape(node)

\* The generator of the root, under a root that counts the budget when needed.
ReadShape(doc) ==
  LET root == Build(doc, doc.root) IN
  IF Cyclic(doc) = {} THEN root ELSE [is |-> "root", of |-> root]

==============================================================================
