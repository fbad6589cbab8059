---------------------------- MODULE SchemaRelation ----------------------------
(***************************************************************************)
(* The evidence check of an operation's schemas (contracts/fidelity.py)     *)
(* and the subset relation it asks (contracts/schema_relation.py).          *)
(*                                                                         *)
(* A JSON Schema is a record with a field for each keyword it has; a        *)
(* boolean schema is a record of its own.  A property name is a number,     *)
(* `type`, `required` and `enum` are sets, the bounds and the numbers they  *)
(* bound are counted in halves, and "#/$defs/N" is the reference N.  A      *)
(* string is its length.  Booleans have the size of the number that Python  *)
(* takes them for.                                                          *)
(***************************************************************************)
EXTENDS Integers, SequencesExt

CONSTANTS
    Families,   \* sets of schemas; those of one set are compared with each other
    Values      \* the JSON values with which an answer is judged

VARIABLES
    declared,   \* the schema of an operation
    source,     \* the schema its source contract gives evidence of
    direction,  \* whether it is the operation's input or its output
    severity    \* of the diagnostics the check answers

vars == <<declared, source, direction, severity>>

Anything == [boolean |-> TRUE]
Nothing  == [boolean |-> FALSE]

Has(s, keyword) == keyword \in DOMAIN s
Lookup(s, keyword, default) == IF Has(s, keyword) THEN s[keyword] ELSE default

Subschema  == {"items", "additionalProperties", "not"}
Subschemas == {"properties", "defs", "anyOf", "oneOf", "allOf"}
Annotations == {"title", "defs"}
Handled == {"ref", "type", "const", "enum", "minimum", "exclusiveMinimum", "maximum",
            "exclusiveMaximum", "minLength", "maxLength", "minItems", "maxItems", "required",
            "properties", "additionalProperties", "items", "anyOf", "oneOf", "allOf"}

-----------------------------------------------------------------------------
(* JSON Schema, draft 2020-12, which is also the jsonschema validator.      *)

Kinds(v) == {v.kind} \cup (IF v.kind = "number" /\ v.size % 2 = 0 THEN {"integer"} ELSE {})

Between(n, s, lower, upper) ==
    (Has(s, lower) => n >= s[lower]) /\ (Has(s, upper) => n <= s[upper])

\* The value is valid against the schema, whose references the root resolves; a dangling
\* reference makes the validator fail.
RECURSIVE Valid(_, _, _)
Valid(v, s, root) ==
    /\ Lookup(s, "boolean", TRUE)
    /\ Has(s, "ref") =>
          Has(root, "defs") /\ s.ref \in DOMAIN root.defs /\ Valid(v, root.defs[s.ref], root)
    /\ Has(s, "type") => Kinds(v) \cap s.type # {}
    /\ Has(s, "const") => v = s.const
    /\ Has(s, "enum") => v \in s.enum
    /\ Has(s, "not") => ~Valid(v, s.not, root)
    /\ Has(s, "allOf") => \A i \in DOMAIN s.allOf : Valid(v, s.allOf[i], root)
    /\ Has(s, "anyOf") => \E i \in DOMAIN s.anyOf : Valid(v, s.anyOf[i], root)
    /\ Has(s, "oneOf") => \E i \in DOMAIN s.oneOf : \A j \in DOMAIN s.oneOf :
                              Valid(v, s.oneOf[j], root) <=> j = i
    /\ v.kind = "number" =>
          /\ Between(v.size, s, "minimum", "maximum")
          /\ Has(s, "exclusiveMinimum") => v.size > s.exclusiveMinimum
          /\ Has(s, "exclusiveMaximum") => v.size < s.exclusiveMaximum
    /\ v.kind = "string" => Between(v.size, s, "minLength", "maxLength")
    /\ v.kind = "array" =>
          /\ Between(Len(v.elements), s, "minItems", "maxItems")
          /\ \A i \in DOMAIN v.elements : Valid(v.elements[i], Lookup(s, "items", Anything), root)
    /\ v.kind = "object" =>
          /\ Lookup(s, "required", {}) \subseteq DOMAIN v.members
          /\ \A name \in DOMAIN v.members :
                Valid(v.members[name],
                      IF name \in DOMAIN Lookup(s, "properties", <<>>) THEN s.properties[name]
                      ELSE Lookup(s, "additionalProperties", Anything), root)

Accepts(s, v) == Valid(v, s, s)

-----------------------------------------------------------------------------
(* Schemas as Python values.                                                *)

\* True == 1 in Python.
Plain(v) == IF v.kind = "boolean" THEN [v EXCEPT !.kind = "number"] ELSE v

\* left == right, wherever the two dicts stand.
RECURSIVE SameText(_, _)
SameText(a, b) ==
    /\ DOMAIN a = DOMAIN b
    /\ \A k \in DOMAIN a :
          CASE k = "const" -> Plain(a.const) = Plain(b.const)
            [] k = "enum" -> {Plain(v) : v \in a.enum} = {Plain(v) : v \in b.enum}
            [] k \in Subschema -> SameText(a[k], b[k])
            [] k \in Subschemas -> /\ DOMAIN a[k] = DOMAIN b[k]
                                   /\ \A i \in DOMAIN a[k] : SameText(a[k][i], b[k][i])
            [] OTHER -> a[k] = b[k]

\* The schema and every schema in it.
RECURSIVE Within(_)
Within(s) ==
    {s} \cup UNION {Within(s[k]) : k \in DOMAIN s \cap Subschema}
        \cup UNION {UNION {Within(s[k][i]) : i \in DOMAIN s[k]} : k \in DOMAIN s \cap Subschemas}

ContainsReference(s) == \E part \in Within(s) : Has(part, "ref")

\* A dict is known by its identity, the place it was loaded from.
Root(s) == [schema |-> s, at |-> <<>>, root |-> s]
Part(n, at, s) == [n EXCEPT !.schema = s, !.at = n.at \o at]
Item(n) == Part(n, <<"items">>, Lookup(n.schema, "items", Anything))
Rest(n) == Part(n, <<"rest">>, Lookup(n.schema, "additionalProperties", Anything))
Named(n) == DOMAIN Lookup(n.schema, "properties", <<>>)
Property(n, name) ==
    IF name \in Named(n) THEN Part(n, <<"properties", name>>, n.schema.properties[name])
    ELSE Rest(n)
Parts(n, k) == [i \in DOMAIN n.schema[k] |-> Part(n, <<k, i>>, n.schema[k][i])]

Resolvable(n) ==
    Has(n.schema, "ref") => Has(n.root, "defs") /\ n.schema.ref \in DOMAIN n.root.defs
Resolved(n) ==
    IF Has(n.schema, "ref")
    THEN [n EXCEPT !.schema = n.root.defs[n.schema.ref], !.at = <<"defs", n.schema.ref>>]
    ELSE n

-----------------------------------------------------------------------------
(* Assertions of one level.                                                 *)

\* The answer to several comparisons is the worst of theirs.
Worst(relations) ==
    IF "conflict" \in relations THEN "conflict"
    ELSE IF "unknown" \in relations THEN "unknown" ELSE "proven"

ConflictUnless(holds) == IF holds THEN "proven" ELSE "conflict"

\* A left schema that lists its values is compared value by value.
Finite(s) == Has(s, "const") \/ Has(s, "enum")
FiniteRelation(a, b) ==
    ConflictUnless(\A v \in IF Has(a, "const") THEN {a.const} ELSE a.enum :
                       Accepts(a, v) => Accepts(b, v))

TypeRelation(a, b) ==
    IF ~Has(b, "type") THEN "proven"
    ELSE IF ~Has(a, "type") THEN "unknown"
    ELSE ConflictUnless(\A t \in a.type : t \in b.type \/ (t = "integer" /\ "number" \in b.type))

\* A faulty variant: an exclusive bound is taken for the inclusive one.
TighterByValue(c, d) == c.bound >= d.bound

\* Of two bounds in one direction the first is at least as tight.
Tighter(c, d) == c.bound > d.bound \/ (c.bound = d.bound /\ (d.exclusive => c.exclusive))

\* The bounds of one direction that the schema has, greater for tighter.
Bounds(s, k) ==
    {[bound |-> k.sign * s[word], exclusive |-> word = k.exclusive] :
        word \in DOMAIN s \cap {k.inclusive, k.exclusive}}

Tightest(bounds) == CHOOSE c \in bounds : \A d \in bounds : Tighter(c, d)

BoundRelation(a, b, k) ==
    ConflictUnless(Bounds(b, k) # {} =>
        Bounds(a, k) # {} /\ Tighter(Tightest(Bounds(a, k)), Tightest(Bounds(b, k))))

BoundPair(inclusive, exclusive, sign) ==
    [inclusive |-> inclusive, exclusive |-> exclusive, sign |-> sign]
BoundPairs ==
    {BoundPair("minimum", "exclusiveMinimum", 1), BoundPair("maximum", "exclusiveMaximum", -1),
     BoundPair("minLength", "", 1), BoundPair("maxLength", "", -1),
     BoundPair("minItems", "", 1), BoundPair("maxItems", "", -1)}

ConstRelation(a, b) ==
    ConflictUnless(Has(b, "const") => Has(a, "const") /\ Plain(a.const) = Plain(b.const))

EnumRelation(a, b) ==
    IF ~Has(b, "enum") THEN "proven"
    ELSE IF ~Has(a, "enum") THEN "unknown"
    ELSE ConflictUnless({Plain(v) : v \in a.enum} \subseteq {Plain(v) : v \in b.enum})

\* One of the two schemas allows values of this type by name.
Either(a, b, type) == type \in Lookup(a, "type", {}) \cup Lookup(b, "type", {})

\* What the left object lacks or has too many of.
ObjectRelation(l, r) ==
    LET a == l.schema
        b == r.schema
    IN  ConflictUnless(
            /\ Lookup(b, "required", {}) \subseteq Lookup(a, "required", {})
            /\ Rest(r).schema = Nothing => Named(l) \subseteq Named(r) /\ Rest(l).schema = Nothing)

-----------------------------------------------------------------------------
(* The comparison.  `visited` are the pairs of dicts met so far: a pair met  *)
(* again is taken for proven.                                               *)

Report(relation, visited) == [relation |-> relation, visited |-> visited]

\* A faulty variant: a property the right schema does not name is not compared.
NamedPairs(l, r) ==
    LET names == SelectSeq(SetToSortSeq(Named(r), <), LAMBDA n : Property(l, n).schema # Nothing)
    IN  [i \in DOMAIN names |-> <<Property(l, names[i]), Property(r, names[i])>>]

\* The properties whose schemas are compared, in the order of the code.
ObjectPairs(l, r) ==
    LET Ascending(S) == SetToSortSeq(S, <)
        names == SelectSeq(Ascending(Named(r)), LAMBDA n : Property(l, n).schema # Nothing)
        extra == Ascending(Named(l) \ Named(r))
        open  == ~Has(Rest(r).schema, "boolean")
    IN  [i \in DOMAIN names |-> <<Property(l, names[i]), Property(r, names[i])>>]
        \o (IF open THEN [i \in DOMAIN extra |-> <<Property(l, extra[i]), Rest(r)>>] ELSE <<>>)
        \o (IF open /\ Rest(l).schema # Nothing THEN << <<Rest(l), Rest(r)>> >> ELSE <<>>)

\* Whether every value the left schema accepts is accepted by the right one.
RECURSIVE Compare(_, _, _)

\* Compares the pairs one after the other and collects their relations.
CompareEach(pairs, visited) ==
    FoldLeft(LAMBDA sofar, pair :
                 LET report == Compare(pair[1], pair[2], sofar.visited)
                 IN  Report(sofar.relation \cup {report.relation}, report.visited),
             Report({}, visited), pairs)

CompareAll(pairs, visited) ==
    LET each == CompareEach(pairs, visited) IN Report(Worst(each.relation), each.visited)

\* References are compared when neither side has an assertion beside one.
CompareReferences(l, r, visited) ==
    IF /\ Resolvable(l) /\ Resolvable(r)
       /\ (DOMAIN l.schema \cup DOMAIN r.schema) \subseteq {"ref"} \cup Annotations
    THEN Compare(Resolved(l), Resolved(r), visited)
    ELSE Report("unknown", visited)

Combined(a, b) == (DOMAIN a \cup DOMAIN b) \cap {"anyOf", "oneOf", "allOf"} # {}

CompareCombinations(l, r, visited) ==
    LET a == l.schema
        b == r.schema
        Lefts(k)  == LET parts == Parts(l, k) IN [i \in DOMAIN parts |-> <<parts[i], r>>]
        Rights(k) == LET parts == Parts(r, k) IN [i \in DOMAIN parts |-> <<l, parts[i]>>]
    IN  IF Has(a, "anyOf") THEN CompareAll(Lefts("anyOf"), visited)
        ELSE IF Has(a, "oneOf") THEN CompareAll(Lefts("oneOf"), visited)
        ELSE IF Has(b, "allOf") THEN CompareAll(Rights("allOf"), visited)
        ELSE IF Has(a, "allOf")
             THEN LET each == CompareEach(Lefts("allOf"), visited)
                  IN  Report(IF "proven" \in each.relation THEN "proven" ELSE "unknown",
                             each.visited)
        ELSE Report("unknown", visited)

CompareAssertions(l, r, visited) ==
    LET a == l.schema
        b == r.schema
        object == Either(a, b, "object")
        items  == IF Either(a, b, "array") THEN << <<Item(l), Item(r)>> >> ELSE <<>>
        parts  == CompareEach((IF object THEN ObjectPairs(l, r) ELSE <<>>) \o items, visited)
        level  == {TypeRelation(a, b), ConstRelation(a, b), EnumRelation(a, b)}
                  \cup {BoundRelation(a, b, k) : k \in BoundPairs}
                  \cup (IF object THEN {ObjectRelation(l, r)} ELSE {})
    IN  Report(Worst(level \cup parts.relation), parts.visited)

CompareDicts(l, r, visited) ==
    LET a == l.schema
        b == r.schema
    IN  IF Has(a, "ref") \/ Has(b, "ref") THEN CompareReferences(l, r, visited)
        ELSE IF ~((DOMAIN a \cup DOMAIN b) \subseteq Handled \cup Annotations)
             THEN Report("unknown", visited)
        ELSE IF Combined(a, b) THEN CompareCombinations(l, r, visited)
        ELSE IF Finite(a) /\ ~ContainsReference(a) /\ ~ContainsReference(b)
             THEN Report(FiniteRelation(a, b), visited)
        ELSE CompareAssertions(l, r, visited)

Compare(l, r, visited) ==
    LET a == l.schema
        b == r.schema
        pair == <<l.at, r.at>>
    IN  IF a = Nothing \/ b = Anything THEN Report("proven", visited)
        ELSE IF b = Nothing THEN Report("conflict", visited)
        ELSE IF a = Anything THEN Report("unknown", visited)
        ELSE IF SameText(a, b) \/ pair \in visited THEN Report("proven", visited)
        ELSE CompareDicts(l, r, visited \cup {pair})

Subset(left, right) == Compare(Root(left), Root(right), {}).relation

-----------------------------------------------------------------------------
\* Inputs are sent to the source, which must accept them; outputs come from it.
Sent     == IF direction = "input" THEN declared ELSE source
Received == IF direction = "input" THEN source ELSE declared

Init ==
    /\ \E family \in Families : declared \in family /\ source \in family
    /\ direction \in {"input", "output"}
    /\ severity = "pending"

\* analyze_operation_schema_fidelity for one of the operation's two schemas.
Analyze ==
    /\ severity = "pending"
    /\ severity' = [proven |-> "none", unknown |-> "warning", conflict |-> "error"]
                       [Subset(Sent, Received)]
    /\ UNCHANGED <<declared, source, direction>>

\* The diagnostics are reported.
Done == severity # "pending" /\ UNCHANGED vars

Next == Analyze \/ Done

Spec == Init /\ [][Next]_vars

-----------------------------------------------------------------------------
(* The pairs of documents for which the comparison answers "proven" of what  *)
(* is no subset.  schema_relation.py:1 promises soundness without exception. *)

\* Members and elements are compared only where a type names them (573-586), and two
\* schemas without types have nothing else to be compared.
Untyped(a, b) ==
    LET typeless(s) == {t \in Within(s) : DOMAIN t \cap {"type", "boolean"} = {}}
        parts == {"required", "properties", "additionalProperties", "items"}
    IN  typeless(a) # {} /\ \E s \in typeless(b) : DOMAIN s \cap parts # {}

\* The assertions beside an allOf of the right schema are not read (410-424).
Siblings(b) ==
    \E s \in Within(b) : Has(s, "allOf") /\ DOMAIN s \ ({"allOf"} \cup Annotations) # {}

\* Two references of the same name are equal texts (477), whatever each document defines.
Namesakes(a, b) ==
    LET names(s) == {part.ref : part \in {q \in Within(s) : Has(q, "ref")}}
        of(s, name) == {s.defs[n] : n \in {name} \cap DOMAIN Lookup(s, "defs", <<>>)}
    IN  \E name \in names(a) \cap names(b) : of(a, name) # of(b, name)

\* A pair that failed in one branch of an intersection is taken for proven in the next
\* (480-483): one definition is met twice, and one proven branch is enough (427-440).
Revisit(a) == ContainsReference(a) /\ \E s \in Within(a) : Has(s, "allOf")

\* true and 1 are equal (477, 545, 564), and so are the schemas that list them.
Constants(a, b) ==
    LET listed(s) == UNION {Lookup(q, "enum", {}) \cup (IF Has(q, "const") THEN {q.const} ELSE {}) :
                               q \in Within(s)}
    IN  \E v \in listed(a), w \in listed(b) : v # w /\ Plain(v) = Plain(w)

Excepted(a, b) ==
    Untyped(a, b) \/ Siblings(b) \/ Namesakes(a, b) \/ Revisit(a) \/ Constants(a, b)

\* What is left of the promise of sound and conservative checks, at their use: outside the
\* five shapes, an operation without a diagnostic sends its source nothing the source's
\* contract rejects, and accepts every answer the contract allows.
ProvenIsSubset ==
    severity = "none" /\ ~Excepted(Sent, Received) =>
        \A v \in Values : Accepts(Sent, v) => Accepts(Received, v)

=============================================================================
