---------------------------- MODULE ResponseChecks ----------------------------
(***************************************************************************)
(* What becomes of a response: executeSingleStep from the body it has read *)
(* to the verdict on the step.  internal/schema compares the response with *)
(* the spec, internal/variable extracts variables from it in the order of  *)
(* a Go map, internal/assertion evaluates the step's assertions, and the   *)
(* failure, if any, is classified once.                                    *)
(*                                                                         *)
(* A JSON value is a document: what is at each path into it, <<>> first,   *)
(* as a record of one field, its type.  A number is decoded to a float64,  *)
(* which tells integers apart only up to Exact (2^53).                     *)
(***************************************************************************)
EXTENDS Naturals, SequencesExt

CONSTANTS
  Operations, \* what a spec declares of the responses of an operation
  Responses,  \* the responses that may arrive
  Steps,      \* the extract and assert blocks of a step
  Stores,     \* the variables it may find
  Exact,      \* the largest integer below which float64 is exact; numbers stay below twice that
  Malformed, EmptyBody, \* bodies that are no JSON
  None        \* no schema, no default, no status asserted, no match

\* A step into a document: into the field of an object or an item of an array;
\* the wildcard of a JSONPath is a step into every item.
Key(k)  == [key |-> k]
Item(n) == [item |-> n]
Each    == [any |-> TRUE]

Paths     == Seq([key : STRING] \cup [item : Nat])
JsonPaths == Seq([key : STRING] \cup {Each})

\* A function from paths, that of each container among them.
IsDocument(d) ==
  /\ d = [p \in DOMAIN d |-> d[p]] /\ <<>> \in DOMAIN d /\ DOMAIN d \subseteq Paths
  /\ \A p \in DOMAIN d : "num" \in DOMAIN d[p] => d[p] \in [num : Nat]
  /\ \A p \in DOMAIN d \ {<<>>} :
       Front(p) \in DOMAIN d /\ (IF "key" \in DOMAIN Last(p) THEN "obj" ELSE "arr") \in DOMAIN d[Front(p)]

IsJson(body) == body \notin {Malformed, EmptyBody}

\* A declaration: the responses by status, each with the schemas of its media
\* types, and the default one.
ASSUME OperationsAssumption ==
  \A o \in Operations : DOMAIN o = {"codes", "default"} /\ DOMAIN o.codes \subseteq 100 .. 599
ASSUME ResponsesAssumption ==
  \A r \in Responses :
    DOMAIN r = {"status", "media", "body"} /\ r.status \in 100 .. 599 /\ (IsJson(r.body) => IsDocument(r.body))
ASSUME StepsAssumption ==
  \A s \in Steps :
    /\ DOMAIN s = {"extract", "status", "body"} /\ s.status \in {None} \cup 100 .. 599
    /\ \A n \in DOMAIN s.extract : s.extract[n] \in JsonPaths
    /\ s.body \in Seq(Range(s.body))
    /\ \A a \in Range(s.body) :
         /\ DOMAIN a = {"path", "equals", "exists", "notExists"}
         /\ a.path \in JsonPaths /\ IsDocument(a.equals)
ASSUME ExactAssumption == Exact \in Nat /\ Exact % 4 = 0

VARIABLES
  mode,       \* SchemaMode
  operation, response, step,
  at,         \* how far the checks have come
  left,       \* the variables not yet extracted
  store,      \* the variables
  violations, undeclared, \* what schema.Validate found
  results,    \* of the assertions
  status, category  \* of the step

vars == <<mode, operation, response, step, at, left, store, violations, undeclared, results,
          status, category>>

V == INSTANCE Verification

-----------------------------------------------------------------------------
(* Values                                                                  *)

\* An integer as a float64: the nearest one, the even one of two.
Float(n) ==
  IF n <= Exact \/ n % 2 = 0 THEN n ELSE IF n % 4 = 1 THEN n - 1 ELSE n + 1

\* The document json.Unmarshal makes of its numbers; and normaliseNumeric of YAML's.
Decoded(d) ==
  [p \in DOMAIN d |-> IF "num" \in DOMAIN d[p] THEN [num |-> Float(d[p].num)] ELSE d[p]]

\* The part of a document below a path.
ValueAt(d, p) ==
  [q \in {SubSeq(r, Len(p) + 1, Len(r)) : r \in {s \in DOMAIN d : IsPrefix(p, s)}} |-> d[p \o q]]

\* A document that consists of its root; and one of an array's items.
Scalar(v) == [p \in {<<>>} |-> v]

ArrayOf(docs) ==
  Scalar([arr |-> TRUE])
  @@ [p \in UNION {{<<Item(n)>> \o q : q \in DOMAIN docs[n]} : n \in DOMAIN docs}
       |-> docs[Head(p).item][Tail(p)]]

Definite(path) == Each \notin Range(path)

\* Where a JSONPath leads to in a document.
Matches(path, d) ==
  {p \in DOMAIN d : /\ Len(p) = Len(path)
                    /\ \A n \in DOMAIN p : p[n] = path[n] \/ (path[n] = Each /\ "item" \in DOMAIN p[n])}

\* Of two of its matches, the one that is first in the body.
Before(p, q) ==
  \E n \in DOMAIN p : SubSeq(p, 1, n - 1) = SubSeq(q, 1, n - 1) /\ p[n] # q[n] /\ p[n].item < q[n].item

InOrder(matches) == SetToSortSeq(matches, Before)

\* jsonpath.Get (external), as the set of what it returns: a definite path without
\* a match is an error; a path with a wildcard yields the list of its matches,
\* which may be empty.
Get(path, body) ==
  LET d     == Decoded(body)
      found == InOrder(Matches(path, d))
  IN IF Definite(path) THEN {ValueAt(d, p) : p \in Matches(path, d)}
     ELSE {ArrayOf([k \in DOMAIN found |-> ValueAt(d, found[k])])}

\* coerceToString: a text is a word, a numeral or compact JSON.
CoerceToString(d) ==
  LET v == d[<<>>]
  IN CASE "str" \in DOMAIN v  -> v.str
       [] "num" \in DOMAIN v  -> [numeral |-> v.num]
       [] "null" \in DOMAIN v -> [word |-> "null"]
       [] "bool" \in DOMAIN v -> [word |-> IF v.bool THEN "true" ELSE "false"]
       [] OTHER -> [json |-> d]

-----------------------------------------------------------------------------
(* schema.Validate                                                         *)

TypeOf(v) == CHOOSE t \in DOMAIN v : TRUE

KeysAt(d, p) == {Last(q).key : q \in {r \in DOMAIN d : r # <<>> /\ Front(r) = p /\ "key" \in DOMAIN Last(r)}}

\* The schema a schema has for what is one step into a value, if any.
Within(s, e) ==
  CASE s # None /\ s.type = "obj" /\ "key" \in DOMAIN e /\ e.key \in DOMAIN s.props -> s.props[e.key]
    [] s # None /\ s.type = "arr" /\ "item" \in DOMAIN e -> s.items
    [] OTHER -> None

SchemaAt(s, p) == FoldLeft(Within, s, p)

\* A value of another type, or an object with a field it must not have.
Conflicts(t, d, p) ==
  \/ t.type # TypeOf(d[p])
  \/ t.type = "obj" /\ t.additional = FALSE /\ ~(KeysAt(d, p) \subseteq DOMAIN t.props)

\* VisitJSON (external) with MultiErrors, as far as types, required fields and
\* additionalProperties: false go.
Visit(s, d) ==
  LET described == {p \in DOMAIN d : SchemaAt(s, p) # None}
      objects   == {p \in described : TypeOf(d[p]) = "obj" /\ SchemaAt(s, p).type = "obj"}
  IN {<<"schema_mismatch", p>> : p \in {q \in described : Conflicts(SchemaAt(s, q), d, q)}}
     \cup UNION {{<<"required_field_missing", Append(p, Key(k))>> : k \in SchemaAt(s, p).required \ KeysAt(d, p)} :
                 p \in objects}

\* undeclaredFields looks into no object that may have any field, or declares none;
\* the prefix of an array's items is the array's.
Open(t) == t.type = "obj" /\ (t.props = <<>> \/ t.additional = TRUE)

Undeclared(s, d) ==
  LET objects == {p \in DOMAIN d : /\ SchemaAt(s, p) # None /\ SchemaAt(s, p).type = "obj"
                                   /\ \A n \in 0 .. Len(p) : ~Open(SchemaAt(s, SubSeq(p, 1, n)))}
  IN UNION {{SelectSeq(Append(p, Key(k)), LAMBDA e : "key" \in DOMAIN e) :
              k \in KeysAt(d, p) \ DOMAIN SchemaAt(s, p).props} : p \in objects}

\* What is declared for the status: its own response or else the default one.
Content ==
  IF response.status \in DOMAIN operation.codes THEN operation.codes[response.status]
  ELSE operation.default

Schema ==
  IF Content # None /\ response.media \in DOMAIN Content THEN Content[response.media] ELSE None

\* The parameters of the media type have been stripped.  Nothing is checked of a
\* response without declared content, without a schema, or with an empty body.
Violations ==
  CASE Content = None -> {<<"status_undeclared", <<>>>>}
    [] Content # None /\ Content = <<>> -> {}
    [] Content # None /\ Content # <<>> /\ response.media \notin DOMAIN Content ->
         {<<"content_type_mismatch", <<>>>>}
    [] Content # None /\ Content # <<>> /\ Schema = None -> {}
    [] Schema # None /\ response.body = EmptyBody -> {}
    [] Schema # None /\ response.body = Malformed -> {<<"schema_mismatch", <<>>>>}
    [] Schema # None /\ IsJson(response.body) -> Visit(Schema, Decoded(response.body))

UndeclaredFields ==
  IF Schema # None /\ IsJson(response.body) THEN Undeclared(Schema, Decoded(response.body)) ELSE {}

-----------------------------------------------------------------------------
(* assertion.Evaluate                                                      *)

IsReference(e) == "ref" \in DOMAIN e[<<>>]

\* The equals value: a string is substituted first.
Substituted(e) == IF IsReference(e) THEN Scalar([str |-> store[e[<<>>].ref]]) ELSE e

Unresolved ==
  \E a \in Range(step.body) : IsReference(a.equals) /\ a.equals[<<>>].ref \notin DOMAIN store

\* exists before not_exists before equals.
AssertionType(a) ==
  IF a.exists THEN "exists" ELSE IF a.notExists THEN "not_exists" ELSE "equals"

\* A slip: a value of null counts as none.
Passes_NullIsNone(a) ==
  LET found == {v \in Get(a.path, response.body) : "null" \notin DOMAIN v[<<>>]}
  IN /\ IsJson(response.body)
     /\ CASE AssertionType(a) = "exists"     -> found # {}
          [] AssertionType(a) = "not_exists" -> found = {}
          [] AssertionType(a) = "equals"     -> \E v \in found : Decoded(Substituted(a.equals)) = Decoded(v)

Passes(a) ==
  LET found == Get(a.path, response.body)
  IN /\ IsJson(response.body)
     /\ CASE AssertionType(a) = "exists"     -> found # {}
          [] AssertionType(a) = "not_exists" -> found = {}
          [] AssertionType(a) = "equals"     -> \E v \in found : Decoded(Substituted(a.equals)) = Decoded(v)

\* A slip: the body's assertions are not evaluated if the status is wrong.
Evaluated_StopsEarly ==
  IF step.status \notin {None, response.status} THEN <<FALSE>>
  ELSE [k \in DOMAIN step.body |-> Passes(step.body[k])]

\* One result for each assertion, the status first.
Evaluated ==
  (IF step.status = None THEN <<>> ELSE <<response.status = step.status>>)
  \o [k \in DOMAIN step.body |-> Passes(step.body[k])]

-----------------------------------------------------------------------------

Init ==
  /\ mode \in {"off", "warn", "strict"}
  /\ operation \in Operations
  /\ response \in Responses
  /\ step \in Steps
  /\ store \in Stores
  /\ at = "schema"
  /\ left = DOMAIN step.extract
  /\ violations = {} /\ undeclared = {} /\ results = <<>>
  /\ status = "PASSED" /\ category = "none"

\* A slip: violations count in warn mode, too.
Category_AnyMode(inExtraction) ==
  V!Classify([status |-> response.status, violated |-> violations # {},
              transport |-> "nil", timedOut |-> FALSE, config |-> inExtraction])

\* Of a failed attempt: only in strict mode do violations count.
Category(inExtraction) ==
  V!Classify([status |-> response.status, violated |-> mode = "strict" /\ violations # {},
              transport |-> "nil", timedOut |-> FALSE, config |-> inExtraction])

CheckSchema ==
  /\ at = "schema"
  /\ IF mode = "off" THEN UNCHANGED <<violations, undeclared, status>>
     ELSE /\ violations' = Violations
          /\ undeclared' = UndeclaredFields
          /\ status' = IF mode = "strict" /\ violations' # {} THEN "FAILED" ELSE status
  /\ at' = "extract"
  /\ UNCHANGED <<mode, operation, response, step, left, store, results, category>>

Found(n) == IF IsJson(response.body) THEN Get(step.extract[n], response.body) ELSE {}

ExtractVariable ==
  /\ at = "extract"
  /\ \E n \in left : \E v \in Found(n) :
       /\ store' = [m \in DOMAIN store \cup {n} |-> IF m = n THEN CoerceToString(v) ELSE store[m]]
       /\ left' = left \ {n}
  /\ UNCHANGED <<mode, operation, response, step, at, violations, undeclared, results, status, category>>

Fail(inExtraction) ==
  /\ at' = "done"
  /\ status' = "FAILED"
  /\ category' = Category(inExtraction)
  /\ UNCHANGED <<mode, operation, response, step, left, store, violations, undeclared, results>>

\* The variables extracted before stay in the store.
FailExtraction == at = "extract" /\ (\E n \in left : Found(n) = {}) /\ Fail(TRUE)

FailSubstitution == at = "extract" /\ left = {} /\ Unresolved /\ Fail(FALSE)

Evaluate ==
  /\ at = "extract"
  /\ left = {}
  /\ ~Unresolved
  /\ results' = Evaluated
  /\ status' = IF FALSE \in Range(results') THEN "FAILED" ELSE status
  /\ category' = IF status' = "FAILED" THEN Category(FALSE) ELSE "none"
  /\ at' = "done"
  /\ UNCHANGED <<mode, operation, response, step, left, store, violations, undeclared>>

Returned == at = "done" /\ UNCHANGED vars

Next == CheckSchema \/ ExtractVariable \/ FailExtraction \/ FailSubstitution \/ Evaluate \/ Returned

Spec == Init /\ [][Next]_vars

-----------------------------------------------------------------------------
(* Correctness                                                             *)

\* The reference: what is at a definite path in the body.
ValuesAt(path) ==
  {ValueAt(response.body, p) : p \in DOMAIN response.body \cap {path}}

\* What the assertion demands of the body, of integers float64 can represent.
Demanded(a) ==
  CASE AssertionType(a) = "exists"     -> ValuesAt(a.path) # {}
    [] AssertionType(a) = "not_exists" -> ValuesAt(a.path) = {}
    [] AssertionType(a) = "equals"     -> Substituted(a.equals) \in ValuesAt(a.path)

\* No integer in it is beyond Exact.
Small(d) == \A p \in DOMAIN d : "num" \in DOMAIN d[p] => d[p].num <= Exact

\* A step passes exactly when its response is what the scenario and, in strict
\* mode only, the spec demand: every variable was extracted from this response,
\* and each assertion holds of the body as it was sent.  (Paths with wildcards and
\* numbers beyond Exact are apart: the one always match, the others are rounded.)
VerdictIsRight ==
  at = "done" /\ IsJson(response.body) /\ Small(response.body)
  /\ (\A a \in Range(step.body) : Definite(a.path) /\ Small(a.equals))
  /\ (\A n \in DOMAIN step.extract : Definite(step.extract[n])) =>
    (status = "PASSED" <=>
      /\ mode = "strict" => violations = {}
      /\ \A n \in DOMAIN step.extract : \E v \in ValuesAt(step.extract[n]) :
           n \in DOMAIN store /\ store[n] = CoerceToString(v)
      /\ step.status \in {None, response.status}
      /\ ~Unresolved
      /\ \A a \in Range(step.body) : Demanded(a))

\* The category says whose fault it is: the contract's only for a violation in
\* strict mode, the scenario's only for an extraction; an assertion's only when one
\* that was evaluated did not hold and neither is to blame; and a breach of the
\* contract is called one unless the extraction fails as well, or the status alone
\* says what is wrong.  Nothing is said of a variable in assert.equals that does
\* not resolve: docs/scenarios.md has it for a config_error, Classify for whatever
\* else there is.
CategoryIsJustified ==
  at = "done" /\ status = "FAILED" /\ (left # {} \/ ~Unresolved) =>
    /\ category = "contract_mismatch" => mode = "strict" /\ Violations # {}
    /\ category = "config_error" <=> left # {}
    /\ category = "assertion_failed" => left = {} /\ FALSE \in Range(results)
    /\ mode = "strict" /\ Violations # {} /\ left = {} /\ response.status \in 200 .. 299 =>
         category = "contract_mismatch"

\* A step that reports any assertion reports them all: the results of those that
\* hold and those that do not, in the order of the scenario (assertion/engine.go:13:
\* "It never returns early: all assertions are evaluated"); and every failure but
\* that of an extraction, a substitution or the contract shows in one of them.
NoAssertionIsSkipped ==
  at = "done" =>
    /\ results # <<>> => Len(results) = Len(step.body) + (IF step.status = None THEN 0 ELSE 1)
    /\ status = "PASSED" \/ left # {} \/ Unresolved \/ (mode = "strict" /\ Violations # {})
       \/ FALSE \in Range(results)
    /\ status = "PASSED" => FALSE \notin Range(results)

-----------------------------------------------------------------------------
(* What the documentation says and the code does not do                    *)

\* README.md:641: "Expected assertion values can also use extracted variables", path
\* $.id equals "{{userId}}".  A variable is a string, and a string never equals the
\* number it was extracted from: with a numeric id the documented step fails on
\* the very response the variable comes from.
ExtractedValuesCompareEqual ==
  at = "done" /\ left = {} /\ Len(results) = Len(step.body) =>
    \A k \in DOMAIN step.body :
      LET a == step.body[k]
                ref == a.equals[<<>>].ref
      IN AssertionType(a) = "equals" /\ IsReference(a.equals)
         /\ ref \in DOMAIN step.extract /\ step.extract[ref] = a.path
         => results[k]
=============================================================================
