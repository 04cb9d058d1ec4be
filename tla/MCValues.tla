------------------------------ MODULE MCValues -------------------------------
(***************************************************************************)
(* Instances of Values: a generator of every class, shapes of every id,    *)
(* and documents that the reader accepts and refuses; and of CaseTree, the *)
(* tree that the cases of a run enter.                                     *)
(***************************************************************************)
EXTENDS Values, CaseTree

CONSTANT Far  \* more values than any run draws (a float, a sequence without a maximum)

VARIABLE use

\* Requests of one value, of two and of more.
MCBounds == {{0}, {0, 1}, {0, Far}}


Ints(lo, hi) == [is |-> "integer", bounds |-> IntegerBounds(lo, hi)]
Just(v) == [is |-> "just", value |-> v]
ListOf(of, min, max, unique) ==
  [is |-> "list", of |-> of, min |-> min, max |-> max, unique |-> unique, sorted |-> FALSE, exits |-> FALSE]
DictOf(key, of, min, max) ==
  [is |-> "dict", key |-> key, of |-> of, min |-> min, max |-> max, exits |-> FALSE]
OptionalOf(of) == [is |-> "optional", of |-> of, exits |-> FALSE]
OneOf(gens) == [is |-> "one-of", of |-> gens]
TextOf(k, min, max) == [is |-> "text", bounds |-> SequenceBounds(k, min, max)]
FilterOf(of, keep) == [is |-> "filter", of |-> of, keep |-> keep]
MappedBy(of, f) == [is |-> "mapped", of |-> of, f |-> f]
Recursive(name) == [is |-> "recursive", name |-> name]
Position(name) == [is |-> "position", name |-> name]
Empty == <<"list", <<>>>>

Literal(char) == [is |-> "literal", char |-> char]
Repeat(p, min, max) == [is |-> "repeat", of |-> p, min |-> min, max |-> max, exits |-> FALSE]
Alternation(ps) == [is |-> "alternation", branches |-> ps]
Pattern(ps) == [is |-> "matching", piece |-> [is |-> "sequence", items |-> ps]]

MCZones == <<<<>>, <<<<1, 0, 1>>>>>>
MCUnits == [s |-> 1, ms |-> 2]

MCKeeps(name, v) ==
  CASE name = "odd"   -> v[1] = "int" /\ v[2] % 2 = 1
    [] name = "short" -> v[1] # "list" \/ Len(v[2]) < 2
MCApplied(name, v) ==
  CASE name = "next"    -> <<"int", v[2] + 1>>
    [] name = "one-way" -> <<"int", v[2] * v[2]>>
    [] name = "wrapped" -> v
MCBacks(name, v) ==
  CASE name = "next" -> IF v[1] = "int" THEN {<<"int", v[2] - 1>>} ELSE {}
    [] OTHER         -> NoInverse
MCBoundTo(name, v) == ListOf(Ints(0, v[2]), v[2], v[2], FALSE)

\* The leaves of a tree are numbers, and those of an overlapping one are empty lists,
\* as the lists of its extension may be.
MCRecursives ==
  [tree  |-> [base |-> Ints(0, 1), max |-> 2, extend |-> ListOf(Position("tree"), 0, 2, FALSE)],
   lists |-> [base |-> Just(Empty), max |-> 1, extend |-> ListOf(Position("lists"), 0, 2, FALSE)]]

-----------------------------------------------------------------------------

Node(shape) == [shape |-> shape]
Of(shape, of) == [shape |-> shape, of |-> of]
RefTo(name) == [shape |-> "ref", name |-> name]
Doc(root, definitions) == [root |-> root, definitions |-> definitions, externals |-> {"given"}]
NoDefinitions == [none \in {} |-> {}]
BoolShape == Node("bool")

\* Every accepted way to refer to oneself.
Chain   == Doc(RefTo("chain"), [chain |-> [shape |-> "record", fields |-> <<<<"next", Of("optional", RefTo("chain"))>>>>]])
Bush    == Doc(Of("list", RefTo("bush")),
               [bush |-> [shape |-> "enum", variants |-> <<<<"node", [shape |-> "list", of |-> RefTo("bush"), min |-> 1, max |-> 2]>>,
                                                            <<"leaf">>>>]])
Sets    == Doc(RefTo("sets"), [sets |-> [shape |-> "set", of |-> RefTo("sets"), max |-> 2]])
Maps    == Doc(RefTo("maps"), [maps |-> [shape |-> "map", key |-> BoolShape, of |-> RefTo("maps"), max |-> 2]])
Mutual  == Doc(RefTo("here"), [here |-> [shape |-> "fixed", of |-> RefTo("there"), size |-> 2],
                               there |-> Of("optional", RefTo("here"))])
Plain   == Doc(RefTo("given"), NoDefinitions)

\* Documents without a value, and one whose ref has no definition.
Endlessly == Doc(RefTo("endless"), [endless |-> [shape |-> "record", fields |-> <<<<"next", RefTo("endless")>>>>]])
Full      == Doc(RefTo("full"), [full |-> [shape |-> "list", of |-> RefTo("full"), min |-> 1]])
Trapped   == Doc(BoolShape, [a |-> [shape |-> "enum", variants |-> <<<<"again", RefTo("a")>>>>]])
Missing   == Doc(Of("list", RefTo("nowhere")), NoDefinitions)
Crooked   == Doc([shape |-> "list", of |-> BoolShape, min |-> 2, max |-> 1], NoDefinitions)

Documents == <<Chain, Bush, Sets, Maps, Mutual, Plain, Endlessly, Full, Trapped, Missing, Crooked,
  Doc([shape |-> "record", fields |-> <<<<"a", [shape |-> "int", width |-> 3, signed |-> TRUE, min |-> -1]>>,
                                        <<"b", [shape |-> "int", width |-> 4, signed |-> FALSE, min |-> 2, max |-> 9]>>>>], NoDefinitions),
  Doc([shape |-> "float", width |-> 32, min |-> 2, max |-> 6, nan |-> TRUE], NoDefinitions),
  Doc([shape |-> "float", width |-> 64, min |-> 5, max |-> 7], NoDefinitions),
  Doc([shape |-> "string", alphabet |-> 2, max |-> 2], NoDefinitions),
  Doc(Node("char"), NoDefinitions), Doc(Node("uuid"), NoDefinitions), Doc(Node("ip"), NoDefinitions),
  Doc([shape |-> "ip", version |-> 6], NoDefinitions), Doc([shape |-> "bytes", min |-> 1], NoDefinitions),
  Doc([shape |-> "literal", values |-> <<<<"int", 7>>, Null, <<"int", 7>>>>], NoDefinitions),
  Doc([shape |-> "decimal", scale |-> 0, min |-> <<5, 1>>, max |-> <<29, 1>>], NoDefinitions),
  Doc([shape |-> "date", min |-> <<2000, 2, 28>>, max |-> <<2000, 3, 1>>], NoDefinitions),
  Doc([shape |-> "instant", unit |-> "ms", min |-> <<-1, 1>>, max |-> <<1, 0>>], NoDefinitions),
  Doc([shape |-> "instant", unit |-> "s"], NoDefinitions),
  Doc([shape |-> "local", unit |-> "ms", min |-> <<0, 1>>, max |-> <<0, 2>>], NoDefinitions),
  Doc([shape |-> "time", unit |-> "s"], NoDefinitions), Doc([shape |-> "duration", unit |-> "s"], NoDefinitions),
  Doc([shape |-> "offset", min |-> -1], NoDefinitions), Doc(Node("zone"), NoDefinitions),
  Doc([shape |-> "zoned", unit |-> "ms"], NoDefinitions), Doc([shape |-> "wall", unit |-> "s"], NoDefinitions),
  Doc([shape |-> "string", pattern |-> Repeat(Literal(1), 0, 2)], NoDefinitions)>>

Accepted == SelectSeq(Documents, Accepts)

\* Names of definitions differ between the documents.
Definition(doc, name) == Build(doc, doc.definitions[name])
NamedIn(docs) ==
  [name \in UNION {DOMAIN docs[i].definitions : i \in DOMAIN docs} |->
     Definition(docs[CHOOSE i \in DOMAIN docs : name \in DOMAIN docs[i].definitions], name)]
MCNamed == [given |-> Ints(0, 2), deferred |-> Ints(0, 2)] @@ NamedIn(Documents)

-----------------------------------------------------------------------------

Body(gens, backwards, sets) == [of |-> gens, backwards |-> backwards, sets |-> sets]
Runs(g) == Body(<<g>>, TRUE, FALSE)

BodiesIn(docs) == [i \in DOMAIN docs |-> Body(<<ReadShape(docs[i])>>, TRUE, docs[i] = Sets)]

MCBodies ==
  BodiesIn(Accepted)
  \o <<Body(<<Ints(-1, 2), Ints(-1, 2)>>, TRUE, FALSE),
       Body(<<ListOf(Ints(0, 2), 2, 3, TRUE), Ints(0, 2)>>, TRUE, FALSE),
       Runs(DictOf(Ints(0, 1), OptionalOf(Ints(0, 2)), 1, 2)),
       Runs(OneOf(<<Just(Null), Ints(1, 2), OptionalOf(Ints(0, 1))>>)),
       Runs([is |-> "sampled", values |-> <<Null, <<"int", 1>>, Null>>]),
       Runs([is |-> "boolean"]),
       Runs(TextOf(3, 1, NoMax)),
       Runs([is |-> "permutation", values |-> <<<<"int", 1>>, <<"int", 2>>, <<"int", 1>>>>]),
       Body(<<FilterOf(Ints(0, 3), "odd"), Ints(0, 3)>>, TRUE, FALSE),
       Runs(ListOf(FilterOf(Recursive("tree"), "short"), 0, 2, FALSE)),
       Runs(FilterOf(ListOf(Ints(0, 3), 0, 2, FALSE), "short")),
       Runs(MappedBy(Ints(0, 2), "next")),
       Body(<<OneOf(<<MappedBy(Ints(0, 2), "one-way"), Ints(5, 6)>>)>>, FALSE, FALSE),
       Body(<<[is |-> "bound", of |-> Ints(0, 2), f |-> "sized"]>>, FALSE, FALSE),
       Body(<<[is |-> "composite", of |-> <<Ints(0, 2), [is |-> "boolean"]>>, f |-> "wrapped"]>>, FALSE, FALSE),
       Runs([is |-> "deferred", name |-> "deferred"]),
       Runs(Recursive("tree")),
       Runs(ListOf(Recursive("tree"), 1, 2, FALSE)),
       Body(<<Recursive("lists")>>, FALSE, FALSE),
       Runs(Pattern(<<Alternation(<<Literal(1), Repeat(Literal(1), 0, 2)>>), Repeat(Literal(1), 1, NoMax)>>)),
       Runs(Pattern(<<Repeat(Alternation(<<Literal(2), Repeat(Literal(1), 0, 1)>>), 2, 3)>>)),
       Runs(Pattern(<<ClassOf({<<1, 2>>, <<2, 3>>}), Repeat(ClassOf({<<2, 2>>}), 0, 1)>>))>>

\* The body of one recursive whose base and extension overlap.
OverlappingBodies == <<Runs(Recursive("lists"))>>

\* A fourth word is read after a first that asks for more.
Streams == UNION {[1 .. n -> 0 .. 2] : n \in 0 .. 3} \cup {<<1>> \o rest : rest \in [1 .. 3 -> 0 .. 2]}
\* Enough words for a list of an empty list and of a list of one leaf.
Deep == <<1, 1, 1, 0, 1, 1, 1, 0, 0>>
Bytes == UNION {[1 .. n -> 0 .. 3] : n \in 0 .. 2}
Recorded == {<<"integer", -1>>, <<"integer", 2>>, <<"float", 5>>, <<"sequence", <<0, 4, 1>>>>}
Tapes == UNION {[1 .. n -> Recorded] : n \in 0 .. 3}

MCProviders ==
  {Generating(words) : words \in Streams \cup {Deep}} \cup {Bridging(bytes) : bytes \in Bytes}
  \cup {Replaying(choices) : choices \in Tapes} \cup {EdgeOf(Boundaries[i]) : i \in DOMAIN Boundaries}

One == <<"int", 1>>
MCForeign == <<Null, One, <<"int", 9>>, <<"text", <<1, 2>>>>, <<"text", <<0, 4>>>>, Empty, <<"list", <<One, One>>>>,
               <<"list", <<<<"list", <<One, One>>>>, One>>>>, <<"map", <<<<One, One>>>>>>,
               <<"variant", <<"leaf">>>>, <<"record", <<>>>>>>

-----------------------------------------------------------------------------

MCInit ==
  /\ use \in {"values", "tree"}
  /\ ValuesInit /\ (use = "tree" => body = Bodies[1] /\ given = Generating(<<>>))
  /\ Init /\ (use = "values" => ~flaky)

MCNext ==
  /\ UNCHANGED use
  /\ \/ use = "values" /\ ValuesNext /\ UNCHANGED vars
     \/ use = "tree" /\ Next /\ UNCHANGED valueVars

MCSpec == MCInit /\ [][MCNext]_<<use, valueVars, vars>>

\* The tree alone.
TreeSpec == MCInit /\ use = "tree" /\ [][MCNext]_<<use, valueVars, vars>>
=============================================================================
