--------------------------- MODULE MCSchemaOracle ---------------------------
EXTENDS SchemaOracle, TLC
CONSTANT Families   \* the families of this run

\* Documents.
Num(n) == [t |-> "integer", v |-> n]
Truth(n) == [t |-> "boolean", v |-> n]    \* 1 is true, 0 is false
Partial(S, T) == UNION {[N -> T] : N \in SUBSET S}
Objects(S, T) == {[t |-> "object", v |-> f] : f \in Partial(S, T)}
Arrays(T, n) == {[t |-> "array", v |-> q] : q \in UNION {[1 .. k -> T] : k \in 0 .. n}}
Text(n) == [t |-> "string", v |-> n]      \* a string of that length
Atoms == {Num(0), Num(5), Truth(1)}

\* Schemas: a keyword that may be absent, or have one of some values.
Option(key, values) == {<<>>} \cup {key :> x : x \in values}
Both(A, B) == {a @@ b : a \in A, b \in B}
Allow == <<>>
Integer == "type" :> "integer"
AtMostOne == Integer @@ "maximum" :> 1
Leaves == {Allow, Integer, AtMostOne}
Additional == Option("additionalProperties", {True, False, Allow, AtMostOne})

Numbers ==
  Both(Option("type", {"integer"}),
    Both(Both(Option("minimum", {0, 2}), Option("maximum", {3, 5})),
      Option("multipleOf", {1, 2, 3, 4}) \cup
      Option("enum", {<<Num(0)>>, <<Num(3), Num(0)>>, <<Num(0), Num(4)>>}) \cup
      Option("const", {Num(0), Num(3)})))
Properties(S, T) == {"properties" :> f : f \in Partial(S, T)}
Records ==
  Both(Both(Properties({"a", "b"}, Leaves), Additional),
      Option("required", {<<"a">>, <<"a", "b">>}))
Lists ==
  Both(Both(Option("minItems", {0, 1}), Option("maxItems", {1, 2})),
      Option("items", {"each" :> s : s \in Leaves}
                 \cup {"tuple" :> <<s>> : s \in Leaves}
                 \cup {"tuple" :> <<s, r>> : s, r \in Leaves}))
Ref(n) == "$ref" :> n
Uses == {Ref("A"), "anyOf" :> <<Ref("A"), Ref("B")>>, "allOf" :> <<Ref("A"), Ref("B")>>}
Defined(S, T) == {"$defs" :> f : f \in [S -> T]}
References == Both(Defined({"A", "B"}, Leaves \cup {"type" :> "boolean"}),
                  Both(Option("description", {"d", "e"}), {"properties" :> ("a" :> u) : u \in Uses}))
Nested ==
  Both(Additional,
      {"properties" :> ("a" :> s) : s \in Both(Properties({"b"}, Leaves), Additional)})

Sizes ==
  Both(Both(Option("minLength", {0, 1}), Option("maxLength", {1, 2})),
    Both(Option("exclusiveMinimum", {0, 1}) \cup Option("exclusiveMaximum", {1, 2}),
      Option("minProperties", {1}) \cup Option("maxProperties", {0, 1})))

\* The largest divisors whose quotients floats keep apart.
Coarse ==
  Both(Option("multipleOf", {1, 2, 249999999, 250000000, 500000000}), Option("minimum", {0, 1}))

\* Conditions: under not and if, and in oneOf, no reference.
Conditions ==
  Both(Both(Defined({"A"}, {Integer, AtMostOne}), Option("not", {AtMostOne, "const" :> Num(0)})),
    Both(Option("oneOf", {<<Integer, AtMostOne>>}),
      Both(Option("if", {Integer, AtMostOne}),
        Both(Option("then", {Ref("A"), AtMostOne}), Option("else", {Ref("A"), False})))))
Tuples ==
  Both(Option("maxItems", {1, 2}),
    Both({"prefixItems" :> <<s>> : s \in Leaves} \cup {"prefixItems" :> <<Integer, s>> : s \in Leaves},
      Option("items", {"each" :> s : s \in Leaves \cup {False}})))
Patterns ==
  Both(Both(Properties({"a"}, Leaves), Option("required", {<<"a">>})),
      Option("patternProperties",
             {{"a"} :> s : s \in Leaves} \cup {({"a", "b"} :> s) @@ ({"b"} :> Integer) : s \in Leaves}))

\* A family the comparator does not judge soundly: the keyword may be added.
Undeclared == Records \cup Additional

AllSchemas ==
  [numbers |-> Numbers, records |-> Records, lists |-> Lists, references |-> References,
   sizes |-> Sizes, nested |-> Nested, coarse |-> Coarse, conditions |-> Conditions,
   tuples |-> Tuples, patterns |-> Patterns, undeclared |-> Undeclared]
AllDocuments ==
  [numbers |-> {Num(n) : n \in 0 .. 6} \cup {Truth(0), Truth(1)},
   records |-> Objects({"a", "b"}, Atoms), lists |-> Arrays(Atoms, 3),
   sizes |-> {Num(n) : n \in 0 .. 2} \cup {Text(n) : n \in 0 .. 2} \cup Objects({"a", "b"}, {Num(0)}),
   references |-> Objects({"a"}, Atoms), nested |-> Objects({"a"}, Objects({"b"}, Atoms)),
   coarse |-> {Num(n) : n \in {-1, 0, 1, 2, 249999999, 250000000, 500000000}},
   conditions |-> Atoms \cup {Num(1), Text(0)}, tuples |-> Arrays(Atoms, 3),
   patterns |-> Objects({"a", "b"}, Atoms),
   undeclared |-> Objects({"a", "b"}, Atoms)]
MCSchemas == [f \in Families |-> AllSchemas[f]]
MCDocuments == [f \in Families |-> AllDocuments[f]]

\* The schemas with those within them and the documents with their values: three
\* and two levels close every family.
Down(S) == S \cup UNION {Below(s) : s \in {x \in S : ~ Boolean(x)}}
MCNodes == [f \in Families |-> Down(Down(Down(AllSchemas[f])))]

Keep(S) == {s \in S : Boolean(s) \/ (~ Has(s, "$ref") /\ Below(s) \subseteq S)}
MCPlain == [f \in Families |-> Keep(Keep(Keep(Keep(MCNodes[f]))))]

Inside(V) ==
  V \cup UNION {{d.v[x] : x \in DOMAIN d.v} : d \in {y \in V : y.t \in {"array", "object"}}}
MCValues == Inside(Inside(UNION {AllDocuments[f] : f \in Families}))

\* The conditions the theorems rest on hold of the families judged, and the documents
\* tell the schemas apart.
ASSUME FamiliesJudged == \A f \in Families \ {"undeclared"} : Sound(f) /\ Exact(f) /\ Distinct(f)
ASSUME FamiliesTold == DocumentsTell
=============================================================================
