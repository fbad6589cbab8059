---------------------------- MODULE SchemaFamilies ----------------------------
(***************************************************************************)
(* Small schemas for SchemaRelation to compare, in families, and the JSON   *)
(* values that tell them apart.                                             *)
(***************************************************************************)
EXTENDS Integers, TLC

\* The two boolean schemas.
Anything == [boolean |-> TRUE]
Nothing  == [boolean |-> FALSE]


Number(halves) == [kind |-> "number", size |-> halves]
String(length) == [kind |-> "string", size |-> length]
True  == [kind |-> "boolean", size |-> 2]
Null  == [kind |-> "null", size |-> 0]
Object(members) == [kind |-> "object", members |-> members]
Array(elements) == [kind |-> "array", elements |-> elements]

\* Each schema as it is, and with the keyword and each of the values.
With(schemas, keyword, values) ==
    schemas \cup {s @@ (keyword :> v) : s \in schemas, v \in values}

Typed(type) == [type |-> {type}]
Integral == Typed("integer")
Text     == Typed("string")
Flag     == [type |-> {"boolean", "null"}]
Short    == [type |-> {"string"}, maxLength |-> 1]

Numbers ==
    With(With(With(With({Integral, Typed("number")},
        "minimum", {0, 2}), "exclusiveMinimum", {0, 2}), "maximum", {4}), "exclusiveMaximum", {4})

\* Lengths, lists of values, a constant, and a keyword that is not supported.
Strings ==
    With(With(With({Text, [type |-> {"string", "null"}]}, "minLength", {1}), "maxLength", {1, 2}),
         "not", {Short})
    \cup With({[enum |-> {String(1), String(2)}], [enum |-> {String(1), Null}],
               [const |-> String(2)]}, "type", {{"string"}})

\* A property may be named or not, required or not, and the rest closed, open or typed.
PropertySets ==
    {<<>>, 1 :> Integral, 1 :> Short, 1 :> Text, 2 :> Nothing, 2 :> Anything,
     (1 :> Integral) @@ (2 :> Text), (1 :> Typed("number")) @@ (2 :> Anything),
     (1 :> [type |-> {"integer"}, minimum |-> 2]) @@ (2 :> Short)}
Objects ==
    With(With(With({Typed("object")}, "properties", PropertySets), "required", {{1}, {1, 2}}),
         "additionalProperties", {Nothing, Text, Integral})

Arrays ==
    With(With(With({Typed("array")}, "items", {Nothing, Integral, Typed("number"), Text}),
              "minItems", {1}), "maxItems", {1, 2})

\* Unions and intersections, of one another too.
Leaves == {Integral, Typed("number"), Text, Short, Flag}
Unions ==
    LET pairs  == {<<a, b>> : a, b \in Leaves}
        nested == [anyOf |-> <<Integral, Short>>]
    IN  Leaves \cup {[anyOf |-> p] : p \in pairs} \cup {[oneOf |-> p] : p \in pairs}
        \cup {[allOf |-> p] : p \in pairs} \cup {[anyOf |-> p, type |-> {"string"}] : p \in pairs}
        \cup {[allOf |-> <<nested, [allOf |-> <<Text, Short>>]>>], [anyOf |-> <<nested, Flag>>]}

\* A node of a tree, whose definition is named for what it holds.
Tree(name, label, more) ==
    [ref |-> name,
     defs |-> name :> ([type |-> {"object"}, required |-> {1}, additionalProperties |-> Nothing,
                        properties |-> (1 :> label) @@
                            (2 :> ([type |-> {"array"}, items |-> [ref |-> name]] @@ more))])]
Trees == {Tree("a", Integral, [title |-> "t"]), Tree("b", Typed("number"), [title |-> "t"]),
          Tree("c", Integral, "maxItems" :> 1), Tree("d", Text, "minItems" :> 1),
          [ref |-> "e"]}

\* The five shapes of which the comparison proves too much, and what is next to them:
\* schemas without a type, assertions beside an allOf, namesakes of different
\* definitions, a definition that an intersection has twice, and true beside 1.
List(name) == [type |-> {"array"}, items |-> [ref |-> name]]
ListOf(name, definition) == List(name) @@ [defs |-> name :> definition]
TwiceListOf(name, definition) ==
    [allOf |-> <<List(name), List(name)>>, defs |-> name :> definition]
Shapes ==
    LET bare == {[required |-> {1}], [properties |-> 1 :> Text], [additionalProperties |-> Nothing],
                 [items |-> Text], [minLength |-> 1]}
    IN  bare \cup {s @@ [type |-> {"object", "array"}] : s \in bare}
        \cup {s @@ [allOf |-> <<Typed("number")>>] :
                 s \in {Integral, [minimum |-> 2], [title |-> "t"]}}
        \cup {ListOf(name, d) : name \in {"n", "m"}, d \in {Integral, Text}} \cup {List("n")}
        \cup {TwiceListOf("n", d) : d \in {Integral, Text}}
        \cup {[const |-> v] : v \in {True, Number(2)}}
        \cup {[enum |-> {v, Null}] : v \in {True, Number(2)}}
        \cup {Integral, Text, Typed("number"), Flag}

CheckedFamilies == {Numbers, Strings, Objects, Arrays, Unions, Trees, Shapes}

Scalars == {Number(1), Number(2), String(1), String(2), Null}
Leaf == Object(1 :> Number(2))
CheckedValues ==
    {Number(n) : n \in -1..5} \cup {String(n) : n \in 0..3} \cup {True, Null, Object(<<>>)}
    \cup {Object(1 :> v) : v \in Scalars}
    \cup {Object((1 :> v) @@ (2 :> w)) : v, w \in Scalars}
    \cup {Object((1 :> v) @@ (2 :> w) @@ (3 :> x)) : v, w, x \in {Number(2), String(1)}}
    \cup {Array(<<>>)} \cup {Array(<<v>>) : v \in Scalars} \cup {Array(<<v, w>>) : v, w \in Scalars}
    \cup {Object((1 :> v) @@ (2 :> Array(trees))) :
             v \in Scalars, trees \in {<<>>, <<Leaf>>, <<Leaf, Leaf>>, <<Object(1 :> Number(1))>>}}

==============================================================================
