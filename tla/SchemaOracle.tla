--------------------------- MODULE SchemaOracle ---------------------------
(* The input-schema relaxation oracle of config/schema_oracle.py, used as a  *)
(* CI gate: the input schema of an agent is compared with the proposed one   *)
(* and the proposal is promoted when the comparator flags nothing.           *)
(*                                                                           *)
(* A schema is a function from its keywords to their values, or one of the   *)
(* boolean schemas True and False.  Values of documents carry their JSON     *)
(* type, because Python's == does not tell 1 from true and JSON Schema does; *)
(* a string is its length, a pattern the set of names it matches, a number   *)
(* an integer.  Accepts, the reference the comparator is measured against,   *)
(* is the meaning the JSON Schema standard gives the keywords.               *)
(*                                                                           *)
(* Both are recursive, and are written as functions over the levels they     *)
(* may descend.  Where they run out the comparator flags, as a recursion     *)
(* that Python refuses passes nothing, and the reference accepts.            *)
EXTENDS Integers, FiniteSets, Sequences, SequencesExt

CONSTANTS
  Nothing,   \* no proposal is being compared
  True,      \* the JSON schema true, and additionalProperties: true
  False,     \* the JSON schema false, and additionalProperties: false
  Schemas,   \* the schemas of each family: proposals for an agent stay in its family
  Nodes,     \* the schemas of each family, and those within them
  Plain,     \* those of them that hold no reference at any depth
  Documents, \* the documents that tell the schemas of a family apart
  Values,    \* the documents, and the values within them
  Depth      \* bound: the levels of nesting

VARIABLES
  family,       \* the family the agent's input schema belongs to
  deployed,     \* the schema deployed now
  proposed,     \* the proposed one, or Nothing
  relaxations   \* the keywords that the comparator flags

oracleVars == <<family, deployed, proposed, relaxations>>

Boolean(s) == s \in {True, False}
Has(s, key) == key \in DOMAIN s

METADATA == {"title", "description", "default", "examples"}
UPPER == {"maxLength", "maxItems", "maxProperties", "maximum", "exclusiveMaximum"}
LOWER == {"minLength", "minItems", "minProperties", "minimum", "exclusiveMinimum"}

\* The keywords that hold schemas under names or positions, and those that hold one.
NAMED == {"properties", "patternProperties", "$defs", "anyOf", "allOf", "oneOf", "prefixItems"}
SINGLE == {"additionalProperties", "not", "if", "then", "else"}

\* The keywords that have a meaning here; $defs is definitions, too.
Keywords ==
  METADATA \cup UPPER \cup LOWER \cup NAMED \cup SINGLE
    \cup {"type", "multipleOf", "enum", "const", "required", "$ref", "items"}

AllNodes == UNION {Nodes[f] : f \in DOMAIN Nodes}
Pairs == AllNodes \X AllNodes
Questions == AllNodes \X AllNodes \X Values

\* The schemas of an items keyword, and those right below a schema.
Elements(items) == IF Has(items, "each") THEN {items["each"]} ELSE ToSet(items["tuple"])

Below(s) ==
  LET inside(key) == {s[key][x] : x \in DOMAIN s[key]}
  IN  (UNION {inside(key) : key \in DOMAIN s \cap NAMED})
      \cup (UNION {Elements(s[key]) : key \in DOMAIN s \cap {"items"}})
      \cup {s[key] : key \in DOMAIN s \cap SINGLE}

ASSUME SchemaAssumption ==
  /\ True # False /\ Depth \in Nat \ {0}
  /\ DOMAIN Nodes = DOMAIN Schemas
  /\ \A f \in DOMAIN Schemas :
       /\ Schemas[f] \subseteq Nodes[f] /\ Nothing \notin Schemas[f]
       /\ \A s \in Nodes[f] : ~ Boolean(s) =>
            /\ Below(s) \subseteq Nodes[f]
            /\ DOMAIN s \subseteq Keywords
            /\ \A key \in DOMAIN s \cap (UPPER \cup LOWER) : s[key] \in Int
            /\ Has(s, "multipleOf") => s["multipleOf"] \in Nat \ {0}
            /\ Has(s, "prefixItems") => s["prefixItems"] \in Seq(Nodes[f])
            /\ Has(s, "items") /\ ~ Has(s["items"], "each") =>
                 s["items"]["tuple"] \in Seq(Nodes[f])

ASSUME PlainAssumption ==
  \A f \in DOMAIN Schemas :
    /\ Plain[f] \subseteq Nodes[f]
    /\ \A s \in Plain[f] : ~ Boolean(s) => ~ Has(s, "$ref") /\ Below(s) \subseteq Plain[f]

ASSUME DocumentAssumption ==
  /\ \A f \in DOMAIN Schemas : Documents[f] \subseteq Values
  /\ \A d \in Values :
       /\ d.t \in {"integer", "string"} => d.v \in Int
       /\ d.t = "array" => d.v \in Seq(Values)
       /\ d.t = "object" =>
            /\ IsFiniteSet(DOMAIN d.v)
            /\ \A name \in DOMAIN d.v : d.v[name] \in Values

-----------------------------------------------------------------------------
(* What a schema accepts.  A reference resolves in the definitions of the    *)
(* root schema.                                                              *)

\* What the bounds measure, and of which documents.
Size(d) == CASE d.t = "array" -> Len(d.v)
             [] d.t = "object" -> Cardinality(DOMAIN d.v)
             [] OTHER -> d.v
Bounded(key) == CASE key \in {"maxLength", "minLength"} -> "string"
                  [] key \in {"maxItems", "minItems"} -> "array"
                  [] key \in {"maxProperties", "minProperties"} -> "object"
                  [] OTHER -> "integer"

Within(key, bound, d) == d.t = Bounded(key) =>
  /\ key \in UPPER => IF key = "exclusiveMaximum" THEN Size(d) < bound ELSE Size(d) <= bound
  /\ key \in LOWER => IF key = "exclusiveMinimum" THEN Size(d) > bound ELSE Size(d) >= bound

\* The keywords without schemas in them.
FlatAccepts(s, d) ==
  /\ Has(s, "type") => d.t = s["type"]
  /\ \A key \in DOMAIN s \cap (UPPER \cup LOWER) : Within(key, s[key], d)
  /\ Has(s, "multipleOf") /\ d.t = "integer" => d.v % s["multipleOf"] = 0
  /\ Has(s, "enum") => d \in ToSet(s["enum"])
  /\ Has(s, "const") => d = s["const"]
  /\ Has(s, "required") /\ d.t = "object" => ToSet(s["required"]) \subseteq DOMAIN d.v

UnionAccepts(acc, root, s, d) ==
  /\ Has(s, "$ref") => acc[root, root["$defs"][s["$ref"]], d]
  /\ Has(s, "anyOf") => \E i \in DOMAIN s["anyOf"] : acc[root, s["anyOf"][i], d]
  /\ Has(s, "allOf") => \A i \in DOMAIN s["allOf"] : acc[root, s["allOf"][i], d]
  /\ Has(s, "oneOf") =>
       Cardinality({i \in DOMAIN s["oneOf"] : acc[root, s["oneOf"][i], d]}) = 1
  /\ Has(s, "not") => ~ acc[root, s["not"], d]
  /\ Has(s, "if") =>
       LET branch == IF acc[root, s["if"], d] THEN "then" ELSE "else"
       IN  Has(s, branch) => acc[root, s[branch], d]

\* prefixItems and the older tuple form of items name the first elements; items that is
\* one schema is for the rest.
PrefixAccepts(acc, root, prefix, d) ==
  \A i \in DOMAIN d.v : i <= Len(prefix) => acc[root, prefix[i], d.v[i]]

Rest(s) == IF Has(s, "prefixItems") THEN Len(s["prefixItems"]) ELSE 0

ItemsAccept(acc, root, items, rest, d) ==
  IF Has(items, "each")
  THEN \A i \in DOMAIN d.v : i > rest => acc[root, items["each"], d.v[i]]
  ELSE PrefixAccepts(acc, root, items["tuple"], d)

ArrayAccepts(acc, root, s, d) ==
  /\ Has(s, "prefixItems") => PrefixAccepts(acc, root, s["prefixItems"], d)
  /\ Has(s, "items") => ItemsAccept(acc, root, s["items"], Rest(s), d)

\* The patterns of s that a name matches, and whether s names it either way.
Matching(s, name) ==
  IF Has(s, "patternProperties") THEN {q \in DOMAIN s["patternProperties"] : name \in q} ELSE {}
Named(s, name) == Has(s, "properties") /\ name \in DOMAIN s["properties"]

FieldAccepts(acc, root, s, name, v) ==
  /\ Named(s, name) => acc[root, s["properties"][name], v]
  /\ \A q \in Matching(s, name) : acc[root, s["patternProperties"][q], v]
  /\ Has(s, "additionalProperties") /\ ~ Named(s, name) /\ Matching(s, name) = {} =>
       acc[root, s["additionalProperties"], v]

AcceptsAt(acc, root, s, d) ==
  IF Boolean(s) THEN s = True ELSE
  /\ FlatAccepts(s, d)
  /\ UnionAccepts(acc, root, s, d)
  /\ d.t = "array" => ArrayAccepts(acc, root, s, d)
  /\ d.t = "object" =>
       \A name \in DOMAIN d.v : FieldAccepts(acc, root, s, name, d.v[name])

accepting[n \in Nat] ==
  [x \in Questions |->
     IF n = 0 THEN TRUE ELSE AcceptsAt(accepting[n - 1], x[1], x[2], x[3])]

Accepts(root, s, d) == accepting[Depth][root, s, d]

Accepted(s) == {d \in Documents[family] : Accepts(s, s, d)}

-----------------------------------------------------------------------------
(* Python's ==: true equals 1 and false equals 0, at any depth.              *)
PyAtom(a) == IF a.t = "boolean" THEN [a EXCEPT !.t = "integer"] ELSE a

PyEntry(py, key, v) ==
  CASE key = "const" -> PyAtom(v)
    [] key = "enum" -> [i \in DOMAIN v |-> PyAtom(v[i])]
    [] key \in NAMED -> [x \in DOMAIN v |-> py[v[x]]]
    [] key = "items" ->
         IF Has(v, "each") THEN [v EXCEPT !["each"] = py[@]]
         ELSE [v EXCEPT !["tuple"] = [i \in DOMAIN @ |-> py[@[i]]]]
    [] key \in SINGLE -> py[v]
    [] OTHER -> v

Py[s \in AllNodes] ==
  IF Boolean(s) THEN s ELSE [key \in DOMAIN s |-> PyEntry(Py, key, s[key])]

Equal(key, ov, nv) == PyEntry(Py, key, ov) = PyEntry(Py, key, nv)
EqualNode(a, b) == Py[a] = Py[b]

-----------------------------------------------------------------------------
(* The comparator.  Each operator returns the set of the keywords it flags;  *)
(* cmp compares the schemas one level below.                                 *)
FlagIf(cond, key) == IF cond THEN {key} ELSE {}

\* _divides takes a quotient of floats that is this near to an integer for one: b / a
\* is when b is nearer than a / TOLERANCE to a multiple of a.  The quotient is exact.
TOLERANCE == 1000000000

Divides(a, b) ==
  LET r == b % a
      distance == IF r <= a - r THEN r ELSE a - r
  IN  distance <= (a - 1) \div TOLERANCE

\* _value_set writes each value as JSON text, so here true is not 1.
ValueSet(values) == ToSet(values)

\* Mutant: the divisibility tests the wrong way round.
ScalarWidensSwapped(key, ov, nv) ==
  CASE key \in UPPER -> nv > ov
    [] key \in LOWER -> nv < ov
    [] key = "multipleOf" -> Divides(ov, nv) \/ ~Divides(nv, ov)
    [] key = "enum" -> ~ (ValueSet(nv) \subseteq ValueSet(ov))
    [] key = "required" -> ToSet(ov) \ ToSet(nv) # {}
    [] OTHER -> TRUE

\* A keyword that carries no sub-schema, present on both sides with another value.
ScalarWidens(key, ov, nv) ==
  CASE key \in UPPER -> nv > ov
    [] key \in LOWER -> nv < ov
    [] key = "multipleOf" -> Divides(nv, ov) \/ ~Divides(ov, nv)
    [] key = "enum" -> ~ (ValueSet(nv) \subseteq ValueSet(ov))
    [] key = "required" -> ToSet(ov) \ ToSet(nv) # {}
    [] OTHER -> TRUE     \* const, the opaque and the unrecognised keywords

\* _ap_rank: False < a schema < True.
Rank(v) == CASE v = False -> 0 [] v = True -> 2 [] OTHER -> 1

\* The allow-all schema written as an object without keywords.
EmptySchema(v) == ~ Boolean(v) /\ DOMAIN v = {}

\* Mutant: only additionalProperties: false keeps a field out.
ComparePropertiesConstrained(cmp, ov, nv, oldParent) ==
  LET closed == Has(oldParent, "additionalProperties")
                /\ oldParent["additionalProperties"] = False
  IN  (UNION {cmp[ov[n], nv[n]] : n \in DOMAIN ov \cap DOMAIN nv})
      \cup FlagIf(closed /\ DOMAIN nv \ DOMAIN ov # {}, "properties")
      \cup FlagIf(~ closed /\ DOMAIN ov \ DOMAIN nv # {}, "properties")

\* A field is added where the old schema took any, or removed where it now takes none.
CompareProperties(cmp, ov, nv, oldParent) ==
  LET declared == Has(oldParent, "additionalProperties")
      additional == oldParent["additionalProperties"]
      open == ~ declared \/ additional = True \/ EmptySchema(additional)
      closed == declared /\ additional = False
  IN  (UNION {cmp[ov[n], nv[n]] : n \in DOMAIN ov \cap DOMAIN nv})
      \cup FlagIf(~ open /\ DOMAIN nv \ DOMAIN ov # {}, "properties")
      \cup FlagIf(~ closed /\ DOMAIN ov \ DOMAIN nv # {}, "properties")

\* Entries of one side only are ignored, and no reference is resolved.
CompareDefs(cmp, ov, nv) ==
  UNION {cmp[ov[n], nv[n]] :
           n \in {m \in DOMAIN ov \cap DOMAIN nv : ~ EqualNode(ov[m], nv[m])}}

\* Positions of a tuple that are equal are not compared.
CompareItems(cmp, ov, nv) ==
  CASE Has(ov, "each") /\ Has(nv, "each") -> cmp[ov["each"], nv["each"]]
    [] /\ ~ Has(ov, "each") /\ ~ Has(nv, "each")
       /\ Len(ov["tuple"]) = Len(nv["tuple"]) ->
         UNION {cmp[ov["tuple"][i], nv["tuple"][i]] :
                  i \in {k \in DOMAIN ov["tuple"] :
                           ~ EqualNode(ov["tuple"][k], nv["tuple"][k])}}
    [] OTHER -> {"items"}

CompareAdditionalProperties(cmp, ov, nv) ==
  CASE Rank(nv) > Rank(ov) -> {"additionalProperties"}
    [] Rank(nv) < Rank(ov) -> {}
    [] OTHER -> IF Boolean(ov) THEN {} ELSE cmp[ov, nv]

CompareChanged(cmp, key, ov, nv, oldParent) ==
  CASE key = "properties" -> CompareProperties(cmp, ov, nv, oldParent)
    [] key = "$defs" -> CompareDefs(cmp, ov, nv)
    [] key = "items" -> CompareItems(cmp, ov, nv)
    [] key = "additionalProperties" -> CompareAdditionalProperties(cmp, ov, nv)
    [] OTHER -> FlagIf(ScalarWidens(key, ov, nv), key)

\* The keywords whose values are compared.
Changed(o, n) ==
  {key \in DOMAIN o \cap DOMAIN n : ~ Equal(key, o[key], n[key]) /\ key \notin METADATA}

\* An added keyword flags nothing; a removed one is flagged unless it is metadata.
CompareAt(cmp, o, n) ==
  IF Boolean(o) \/ Boolean(n) THEN FlagIf(~ EqualNode(o, n), "<node>")
  ELSE (UNION {CompareChanged(cmp, key, o[key], n[key], o) : key \in Changed(o, n)})
       \cup ((DOMAIN o \ DOMAIN n) \ METADATA)

comparing[n \in Nat] ==
  [x \in Pairs |->
     IF n = 0 THEN {"<depth>"} ELSE CompareAt(comparing[n - 1], x[1], x[2])]

Compare(o, n) == comparing[Depth][o, n]

-----------------------------------------------------------------------------
OracleInit ==
  /\ family \in DOMAIN Schemas
  /\ deployed \in Schemas[family]
  /\ proposed = Nothing
  /\ relaxations = {}

\* schema_relaxation_diff for an agent that both manifests have.
Diff ==
  /\ proposed = Nothing
  /\ proposed' \in Schemas[family]
  /\ relaxations' = Compare(deployed, proposed')
  /\ UNCHANGED <<family, deployed>>

\* check_no_schema_relaxation returns: the proposal becomes the deployed schema.
Promote ==
  /\ proposed # Nothing /\ relaxations = {}
  /\ deployed' = proposed /\ proposed' = Nothing
  /\ UNCHANGED <<family, relaxations>>

\* check_no_schema_relaxation raises: the deployed schema stays.
Refuse ==
  /\ proposed # Nothing /\ relaxations # {}
  /\ proposed' = Nothing /\ relaxations' = {}
  /\ UNCHANGED <<family, deployed>>

OracleNext == Diff \/ Promote \/ Refuse

OracleSpec == OracleInit /\ [][OracleNext]_oracleVars
-----------------------------------------------------------------------------
(* Properties.                                                               *)

\* What the soundness of the comparator rests on.  No reference stands where an accepted
\* document may be refused for it: under not and if, and where oneOf counts.  The
\* properties next to additionalProperties and the prefixItems next to items are not a
\* matter of the schema, and no pattern names what additionalProperties is for.  A
\* reference has a definition.
Sound(f) ==
  /\ \A s \in Nodes[f] : ~ Boolean(s) =>
       /\ \A key \in DOMAIN s \cap {"not", "if"} : s[key] \in Plain[f]
       /\ Has(s, "oneOf") => \A i \in DOMAIN s["oneOf"] : s["oneOf"][i] \in Plain[f]
       /\ ~ (Has(s, "additionalProperties") /\ Has(s, "patternProperties"))
       /\ Has(s, "$ref") => \A root \in Schemas[f] :
            ~ Boolean(root) /\ Has(root, "$defs") /\ s["$ref"] \in DOMAIN root["$defs"]
  /\ \A s, r \in Nodes[f] : ~ Boolean(s) /\ ~ Boolean(r) =>
       /\ Has(s, "additionalProperties") /\ Has(r, "additionalProperties") =>
            (Has(s, "properties") <=> Has(r, "properties"))
       /\ Has(s, "items") /\ Has(r, "items") => (Has(s, "prefixItems") <=> Has(r, "prefixItems"))

\* Divisors small enough for floats to tell a multiple.
Exact(f) ==
  \A s \in Nodes[f] : ~ Boolean(s) /\ Has(s, "multipleOf") => 2 * s["multipleOf"] <= TOLERANCE

\* Python's == tells apart what the schemas say.
Distinct(f) ==
  \A s, r \in Nodes[f] :
    /\ EqualNode(s, r) => s = r
    /\ ~ Boolean(s) /\ ~ Boolean(r) =>
         \A key \in DOMAIN s \cap DOMAIN r : Equal(key, s[key], r[key]) => s[key] = r[key]

\* The comparator "must NEVER pass a genuine relaxation": when nothing is
\* flagged, the new schema accepts no document that the old one refuses.
PassesNoRelaxation ==
  proposed # Nothing /\ relaxations = {} => Accepted(proposed) \subseteq Accepted(deployed)

Decided == METADATA \cup UPPER \cup LOWER \cup {"multipleOf", "enum", "required", "type"}

\* Reference for one keyword alone: what it accepts of the family's documents.
Alone(s, key) ==
  {d \in Documents[family] : FlatAccepts([x \in {key} |-> s[key]], d)}

\* check_no_schema_relaxation returns "on identity or a pure tightening": no
\* false alarm when every keyword the comparator can decide narrows by itself.
TighteningPasses ==
  LET constraints(s) == DOMAIN s \ METADATA
      narrows ==
        /\ constraints(deployed) \subseteq constraints(proposed) \cap Decided
        /\ \A key \in constraints(deployed) :
             Alone(proposed, key) \subseteq Alone(deployed, key)
  IN  proposed # Nothing /\ ~ Boolean(deployed) /\ ~ Boolean(proposed) /\ narrows
        => relaxations = {}

\* The documents that show a keyword of s to be wider than another value of it: one
\* at the bound, the divisor, every value listed, the required names and no more.
Told(f, s, key) ==
  /\ key \in UPPER \cup LOWER =>
       \E d \in Documents[f] :
         d.t = Bounded(key) /\ Size(d) = CASE key = "exclusiveMaximum" -> s[key] - 1
                                           [] key = "exclusiveMinimum" -> s[key] + 1
                                           [] OTHER -> s[key]
  /\ key = "multipleOf" => \E d \in Documents[f] : d.t = "integer" /\ d.v = s[key]
  /\ key = "enum" => ToSet(s[key]) \subseteq Documents[f]
  /\ key = "required" =>
       \E d \in Documents[f] : d.t = "object" /\ DOMAIN d.v = ToSet(s[key])
  /\ key = "type" => \E d \in Documents[f] : d.t = s[key]

DocumentsTell ==
  \A f \in DOMAIN Schemas : \A s \in Schemas[f] :
    ~ Boolean(s) => \A key \in DOMAIN s : Told(f, s, key)
=============================================================================
