--------------------------- MODULE ResponseProofs ---------------------------
(***************************************************************************)
(* The verdict on every response, proved for every declaration, response   *)
(* and step: it is right, the category says whose fault it is, and no      *)
(* assertion is skipped.                                                   *)
(*                                                                         *)
(* A step goes through the checks in order and the variables are extracted *)
(* in any order, so the invariant says what each check leaves behind, and  *)
(* of each variable that is no longer to be extracted that it was found.   *)
(***************************************************************************)
EXTENDS ResponseChecks, SequenceTheorems, TLAPS

-----------------------------------------------------------------------------
(* The inductive invariant                                                 *)

Given ==
  /\ mode \in {"off", "warn", "strict"} /\ response \in Responses /\ step \in Steps
  /\ at \in {"schema", "extract", "done"}
  /\ left \subseteq DOMAIN step.extract

Breached == mode = "strict" /\ violations # {}

SchemaChecked ==
  /\ at = "schema" => left = DOMAIN step.extract /\ violations = {} /\ status = "PASSED" /\ results = <<>>
  /\ at # "schema" => violations = IF mode = "off" THEN {} ELSE Violations
  /\ at = "extract" => results = <<>> /\ status = IF Breached THEN "FAILED" ELSE "PASSED"

Extracted ==
  \A n \in DOMAIN step.extract \ left :
    n \in DOMAIN store /\ \E v \in Found(n) : store[n] = CoerceToString(v)

\* The three ways in which a step ends.
FailedExtraction ==
  /\ \E n \in left : Found(n) = {}
  /\ status = "FAILED" /\ category = Category(TRUE) /\ results = <<>>

FailedSubstitution ==
  /\ left = {} /\ Unresolved
  /\ status = "FAILED" /\ category = Category(FALSE) /\ results = <<>>

Judged ==
  /\ left = {} /\ ~Unresolved /\ results = Evaluated
  /\ status = IF FALSE \in Range(results) \/ Breached THEN "FAILED" ELSE "PASSED"
  /\ status = "FAILED" => category = Category(FALSE)

Ended == at = "done" => FailedExtraction \/ FailedSubstitution \/ Judged

Inv == Given /\ SchemaChecked /\ Extracted /\ Ended

LEMMA InitInv ==
  ASSUME Init
  PROVE  Inv
  BY DEF Init, Inv, Given, SchemaChecked, Extracted, Ended

\* What the spec declares of this response does not change, nor what the body holds.
LEMMA SameViolations ==
  ASSUME UNCHANGED <<operation, response>>
  PROVE  Violations' = Violations
  BY DEF Violations, Schema, Content, IsJson

LEMMA SameFound ==
  ASSUME UNCHANGED <<response, step>>, NEW n
  PROVE  Found(n)' = Found(n)
  BY DEF Found, IsJson

LEMMA SameUnresolved ==
  ASSUME UNCHANGED <<step, store>>
  PROVE  Unresolved' <=> Unresolved
  BY DEF Unresolved, IsReference

LEMMA SameEvaluated ==
  ASSUME UNCHANGED <<response, step, store>>
  PROVE  Evaluated' = Evaluated
  BY DEF Evaluated, Passes, IsJson, Substituted, AssertionType, IsReference

LEMMA SameCategory ==
  ASSUME UNCHANGED <<mode, response, violations>>, NEW inExtraction
  PROVE  Category(inExtraction)' = Category(inExtraction)
  BY DEF Category

-----------------------------------------------------------------------------
(* The steps                                                               *)

\* What stays as it was when nothing but the checks' progress changes.
LEMMA SameExtracted ==
  ASSUME Extracted, UNCHANGED <<response, step, left, store>>
  PROVE  Extracted'
  BY SameFound DEF Extracted

LEMMA CheckSchemaInv ==
  ASSUME Inv, CheckSchema
  PROVE  Inv'
  <1> USE DEF Inv, CheckSchema
  <1>1. Given'
    BY DEF Given
  <1>2. SchemaChecked'
    <2>1. Violations' = Violations
      BY SameViolations
    <2>2. left = DOMAIN step.extract /\ violations = {} /\ status = "PASSED" /\ results = <<>>
      BY DEF SchemaChecked
    <2>3. CASE mode = "off"
      BY <2>1, <2>2, <2>3 DEF SchemaChecked, Breached
    <2>4. CASE mode # "off"
      BY <2>1, <2>2, <2>4 DEF SchemaChecked, Breached
    <2> QED
      BY <2>3, <2>4
  <1>3. Extracted'
    BY SameExtracted
  <1>4. Ended'
    BY DEF Ended
  <1> QED
    BY <1>1, <1>2, <1>3, <1>4

LEMMA ExtractVariableInv ==
  ASSUME Inv, ExtractVariable
  PROVE  Inv'
  <1> USE DEF Inv, ExtractVariable
  <1>1. Given'
    BY DEF Given
  <1>2. SchemaChecked'
    BY SameViolations DEF SchemaChecked, Breached
  <1>3. Extracted'
    <2> SUFFICES ASSUME NEW n \in DOMAIN step.extract \ left'
                 PROVE  n \in DOMAIN store' /\ \E v \in Found(n) : store'[n] = CoerceToString(v)
      BY SameFound DEF Extracted
    <2> DEFINE Set(m, v) ==
          store' = [k \in DOMAIN store \cup {m} |-> IF k = m THEN CoerceToString(v) ELSE store[k]]
    <2>1. PICK m \in left : \E v \in Found(m) : Set(m, v) /\ left' = left \ {m}
      OBVIOUS
    <2>2. PICK v \in Found(m) : Set(m, v)
      BY <2>1
    <2>3. CASE n = m
      BY <2>2, <2>3
    <2>4. CASE n # m
      <3>1. n \in DOMAIN store /\ \E w \in Found(n) : store[n] = CoerceToString(w)
        BY <2>1, <2>4 DEF Extracted
      <3>2. n \in DOMAIN store' /\ store'[n] = store[n]
        BY <2>2, <2>4, <3>1
      <3> QED
        BY <3>1, <3>2
    <2> QED
      BY <2>3, <2>4
  <1>4. Ended'
    BY DEF Ended
  <1> QED
    BY <1>1, <1>2, <1>3, <1>4

\* The ways to fail leave all but the verdict as it was.
LEMMA FailInv ==
  ASSUME Inv, at = "extract", NEW inExtraction \in BOOLEAN, Fail(inExtraction)
  PROVE  Given' /\ SchemaChecked' /\ Extracted'
  <1>1. Given'
    BY DEF Given, Inv, Fail
  <1>2. SchemaChecked'
    BY SameViolations DEF SchemaChecked, Inv, Fail
  <1>3. Extracted'
    BY SameExtracted DEF Inv, Fail
  <1> QED
    BY <1>1, <1>2, <1>3

LEMMA FailExtractionInv ==
  ASSUME Inv, FailExtraction
  PROVE  Inv'
  <1>1. PICK n \in left : Found(n) = {}
    BY DEF FailExtraction
  <1>2. FailedExtraction'
    <2>1. n \in left' /\ Found(n)' = {}
      BY <1>1, SameFound DEF FailExtraction, Fail
    <2>2. category' = Category(TRUE)'
      BY SameCategory DEF FailExtraction, Fail
    <2> QED
      BY <2>1, <2>2 DEF FailedExtraction, FailExtraction, Fail, Inv, SchemaChecked
  <1> QED
    BY <1>2, FailInv DEF FailExtraction, Inv, Ended

LEMMA FailSubstitutionInv ==
  ASSUME Inv, FailSubstitution
  PROVE  Inv'
  <1>1. FailedSubstitution'
    <2>1. left' = {} /\ Unresolved'
      BY SameUnresolved DEF FailSubstitution, Fail
    <2>2. category' = Category(FALSE)'
      BY SameCategory DEF FailSubstitution, Fail
    <2> QED
      BY <2>1, <2>2 DEF FailedSubstitution, FailSubstitution, Fail, Inv, SchemaChecked
  <1> QED
    BY <1>1, FailInv DEF FailSubstitution, Inv, Ended

LEMMA EvaluateInv ==
  ASSUME Inv, Evaluate
  PROVE  Inv'
  <1>1. Given'
    BY DEF Given, Inv, Evaluate
  <1>2. SchemaChecked'
    BY SameViolations DEF SchemaChecked, Inv, Evaluate
  <1>3. Extracted'
    BY SameExtracted DEF Inv, Evaluate
  <1>4. Judged'
    <2>1. left' = {} /\ ~Unresolved' /\ results' = Evaluated'
      BY SameUnresolved, SameEvaluated DEF Evaluate
    <2>2. status = IF Breached THEN "FAILED" ELSE "PASSED"
      BY DEF Evaluate, Inv, SchemaChecked
    <2>3. Breached' <=> Breached
      BY DEF Breached, Evaluate
    <2>4. status' = IF FALSE \in Range(results') \/ Breached' THEN "FAILED" ELSE "PASSED"
      BY <2>2, <2>3 DEF Evaluate
    <2>5. status' = "FAILED" => category' = Category(FALSE)'
      BY SameCategory DEF Evaluate
    <2> QED
      BY <2>1, <2>4, <2>5 DEF Judged
  <1> QED
    BY <1>1, <1>2, <1>3, <1>4 DEF Inv, Ended

LEMMA StutterInv ==
  ASSUME Inv, UNCHANGED vars
  PROVE  Inv'
  <1> USE DEF Inv, vars
  <1>1. Given'
    BY DEF Given
  <1>2. SchemaChecked'
    BY SameViolations DEF SchemaChecked, Breached
  <1>3. Extracted'
    BY SameExtracted
  <1>4. Ended'
    <2> SUFFICES ASSUME at = "done"
                 PROVE  FailedExtraction' \/ FailedSubstitution' \/ Judged'
      BY DEF Ended
    <2>1. CASE FailedExtraction
      <3>1. PICK n \in left : Found(n) = {}
        BY <2>1 DEF FailedExtraction
      <3>2. n \in left' /\ Found(n)' = {}
        BY <3>1, SameFound
      <3>3. category' = Category(TRUE)'
        BY <2>1, SameCategory DEF FailedExtraction
      <3> QED
        BY <2>1, <3>2, <3>3 DEF FailedExtraction
    <2>2. CASE FailedSubstitution
      <3>1. category' = Category(FALSE)'
        BY <2>2, SameCategory DEF FailedSubstitution
      <3> QED
        BY <2>2, <3>1, SameUnresolved DEF FailedSubstitution
    <2>3. CASE Judged
      <3>1. status = "FAILED" => category' = Category(FALSE)'
        BY <2>3, SameCategory DEF Judged
      <3>2. ~Unresolved' /\ results' = Evaluated'
        BY <2>3, SameUnresolved, SameEvaluated DEF Judged
      <3> QED
        BY <2>3, <3>1, <3>2 DEF Judged, Breached
    <2> QED
      BY <2>1, <2>2, <2>3 DEF Ended
  <1> QED
    BY <1>1, <1>2, <1>3, <1>4

\* Every check leaves behind what the invariant says.
THEOREM ResponseInvariant == Spec => []Inv
  <1>1. Init => Inv
    BY InitInv
  <1>2. Inv /\ [Next]_vars => Inv'
    BY CheckSchemaInv, ExtractVariableInv, FailExtractionInv, FailSubstitutionInv, EvaluateInv, StutterInv
    DEF Next, Returned
  <1> QED
    BY <1>1, <1>2, PTL DEF Spec

-----------------------------------------------------------------------------
(* Documents                                                               *)

\* A document whose integers float64 can represent is decoded to itself.
LEMMA SmallIsDecoded ==
  ASSUME NEW d, d = [p \in DOMAIN d |-> d[p]], Small(d),
         \A p \in DOMAIN d : "num" \in DOMAIN d[p] => d[p] \in [num : Nat]
  PROVE  Decoded(d) = d
  <1>1. \A p \in DOMAIN d : Decoded(d)[p] = d[p]
    <2> SUFFICES ASSUME NEW p \in DOMAIN d
                 PROVE  Decoded(d)[p] = d[p]
      OBVIOUS
    <2>1. CASE "num" \in DOMAIN d[p]
      <3>1. d[p] \in [num : Nat] /\ d[p].num <= Exact
        BY <2>1 DEF Small
      <3>2. Float(d[p].num) = d[p].num
        BY <3>1 DEF Float
      <3> QED
        BY <2>1, <3>1, <3>2 DEF Decoded
    <2>2. CASE "num" \notin DOMAIN d[p]
      BY <2>2 DEF Decoded
    <2> QED
      BY <2>1, <2>2
  <1>2. Decoded(d) = [p \in DOMAIN d |-> Decoded(d)[p]]
    BY DEF Decoded
  <1> QED
    BY <1>1, <1>2

\* What is below a path is what was there with the path before it.
LEMMA BelowAPath ==
  ASSUME NEW d, IsDocument(d), NEW p \in Paths, NEW r \in DOMAIN d, IsPrefix(p, r)
  PROVE  p \o SubSeq(r, Len(p) + 1, Len(r)) = r
  <1> DEFINE E == [key : STRING] \cup [item : Nat]
  <1>1. p \in Seq(E) /\ r \in Seq(E)
    BY DEF IsDocument, Paths
  <1> HIDE DEF E
  <1>2. Len(p) \in Nat /\ Len(r) \in Nat /\ Len(p) <= Len(r) /\ SubSeq(p, 1, Len(p)) = SubSeq(r, 1, Len(p))
    BY <1>1, LenProperties DEF IsPrefix
  <1>3. SubSeq(p, 1, Len(p)) = p /\ SubSeq(r, 1, Len(r)) = r
    BY <1>1, SubSeqFull
  <1>4. SubSeq(r, 1, Len(p)) \o SubSeq(r, Len(p) + 1, Len(r)) = SubSeq(r, 1, Len(r))
    <2>1. 1 \in 1 .. Len(r) + 1 /\ Len(p) \in 1 - 1 .. Len(r) /\ Len(r) \in Len(p) .. Len(r)
      BY <1>2
    <2> QED
      BY <1>1, <2>1, ConcatAdjacentSubSeq
  <1> QED
    BY <1>2, <1>3, <1>4

LEMMA ValueIsSmall ==
  ASSUME NEW d, IsDocument(d), Small(d), NEW p \in DOMAIN d
  PROVE  Decoded(ValueAt(d, p)) = ValueAt(d, p)
  <1> DEFINE v == ValueAt(d, p)
             D == {SubSeq(r, Len(p) + 1, Len(r)) : r \in {s \in DOMAIN d : IsPrefix(p, s)}}
  <1>1. v = [q \in D |-> d[p \o q]]
    BY DEF ValueAt
  <1>2. \A q \in D : p \o q \in DOMAIN d
    <2> SUFFICES ASSUME NEW q \in D
                 PROVE  p \o q \in DOMAIN d
      OBVIOUS
    <2>1. PICK r \in DOMAIN d : IsPrefix(p, r) /\ q = SubSeq(r, Len(p) + 1, Len(r))
      OBVIOUS
    <2>2. p \in Paths
      BY DEF IsDocument
    <2> QED
      BY <2>1, <2>2, BelowAPath
  <1> HIDE DEF D
  <1>3. DOMAIN v = D /\ \A q \in D : v[q] = d[p \o q]
    BY <1>1
  <1> HIDE DEF v
  <1>4. \A q \in DOMAIN v : "num" \in DOMAIN v[q] => v[q] \in [num : Nat] /\ v[q].num <= Exact
    BY <1>2, <1>3 DEF IsDocument, Small
  <1>5. v = [q \in DOMAIN v |-> v[q]]
    BY <1>1, <1>3
  <1>6. Small(v)
    BY <1>4 DEF Small
  <1> QED
    BY <1>4, <1>5, <1>6, SmallIsDecoded DEF v

\* A JSONPath without a wildcard leads to itself and nowhere else.
LEMMA DefiniteLeads ==
  ASSUME NEW d, IsDocument(d), NEW path \in JsonPaths, Definite(path), NEW p
  PROVE  p \in Matches(path, d) <=> p \in DOMAIN d /\ p = path
  <1> DEFINE E == [key : STRING] \cup [item : Nat]
             A == E \cup {Each}
  <1>1. path \in Seq([key : STRING] \cup {Each}) /\ DOMAIN path = 1 .. Len(path)
    BY LenProperties DEF JsonPaths
  <1>2. path \in Seq(A)
    <2>1. [key : STRING] \cup {Each} \subseteq A
      OBVIOUS
    <2> QED
      BY <1>1, <2>1, SeqMonotonic
  <1>3. \A n \in DOMAIN path : path[n] # Each
    BY DEF Definite, Range
  <1>4. ASSUME p \in Matches(path, d)
        PROVE  p \in DOMAIN d /\ p = path
    <2>1. p \in DOMAIN d /\ p \in Seq(E)
      BY <1>4 DEF Matches, IsDocument, Paths
    <2>2. p \in Seq(A) /\ DOMAIN p = 1 .. Len(p)
      <3>1. E \subseteq A
        OBVIOUS
      <3> HIDE DEF E, A
      <3> QED
        BY <2>1, <3>1, SeqMonotonic, LenProperties
    <2>3. Len(p) = Len(path)
      BY <1>4 DEF Matches
    <2>4. \A n \in 1 .. Len(p) : p[n] = path[n]
      BY <1>1, <1>3, <1>4, <2>2, <2>3 DEF Matches
    <2> HIDE DEF A
    <2> QED
      BY <1>2, <2>1, <2>2, <2>3, <2>4, SeqEqual
  <1>5. ASSUME p \in DOMAIN d, p = path
        PROVE  p \in Matches(path, d)
    BY <1>5 DEF Matches
  <1> QED
    BY <1>4, <1>5

\* jsonpath.Get of such a path and body is what the body holds there.
LEMMA GetIsValuesAt ==
  ASSUME IsDocument(response.body), Small(response.body), NEW path \in JsonPaths, Definite(path), NEW v
  PROVE  v \in Get(path, response.body) <=> v \in ValuesAt(path)
  <1>1. Decoded(response.body) = response.body
    BY SmallIsDecoded DEF IsDocument
  <1>2. Get(path, response.body) = {ValueAt(response.body, p) : p \in Matches(path, response.body)}
    BY <1>1 DEF Get
  <1> QED
    BY <1>2, DefiniteLeads DEF ValuesAt

-----------------------------------------------------------------------------
(* Assertions                                                              *)

\* What a step asserts of the body is a sequence of assertions.
LEMMA StepIsSound ==
  ASSUME Given
  PROVE  /\ step.body \in Seq(Range(step.body))
         /\ \A a \in Range(step.body) : a.path \in JsonPaths /\ IsDocument(a.equals)
         /\ \A n \in DOMAIN step.extract : step.extract[n] \in JsonPaths
         /\ IsJson(response.body) => IsDocument(response.body)
  BY StepsAssumption, ResponsesAssumption DEF Given

LEMMA PassesIsBoolean ==
  ASSUME NEW a
  PROVE  Passes(a) \in BOOLEAN
  BY DEF Passes

\* The value that is expected is compared as it is.
LEMMA ExpectedIsDecoded ==
  ASSUME NEW e, IsDocument(e), Small(e)
  PROVE  Decoded(Substituted(e)) = Substituted(e)
  <1>1. CASE IsReference(e)
    <2> DEFINE w == [str |-> store[e[<<>>].ref]]
               d == Scalar(w)
    <2>1. "num" \notin DOMAIN w
      OBVIOUS
    <2> HIDE DEF w
    <2>2. d = [p \in DOMAIN d |-> d[p]] /\ \A p \in DOMAIN d : "num" \notin DOMAIN d[p]
      BY <2>1 DEF Scalar
    <2> HIDE DEF d
    <2>3. Decoded(d) = d
      BY <2>2, SmallIsDecoded DEF Small
    <2>4. Substituted(e) = d
      BY <1>1 DEF Substituted, d, w
    <2> QED
      BY <2>3, <2>4
  <1>2. CASE ~IsReference(e)
    BY <1>2, SmallIsDecoded DEF Substituted, IsDocument
  <1> QED
    BY <1>1, <1>2

\* An assertion passes if and only if the body is what it demands.
LEMMA PassesIfDemanded ==
  ASSUME Given, IsJson(response.body), Small(response.body),
         NEW a \in Range(step.body), Definite(a.path), Small(a.equals)
  PROVE  Passes(a) <=> Demanded(a)
  <1> DEFINE found == Get(a.path, response.body)
             want  == Substituted(a.equals)
  <1>1. IsDocument(response.body) /\ a.path \in JsonPaths /\ IsDocument(a.equals)
    BY StepIsSound
  <1>2. \A v : v \in found <=> v \in ValuesAt(a.path)
    BY <1>1, GetIsValuesAt
  <1>3. \A v \in found : Decoded(v) = v
    BY <1>1, <1>2, ValueIsSmall DEF ValuesAt
  <1>4. Decoded(want) = want
    BY <1>1, ExpectedIsDecoded
  <1>5. /\ AssertionType(a) = "exists" => (Passes(a) <=> found # {})
        /\ AssertionType(a) = "not_exists" => (Passes(a) <=> found = {})
        /\ AssertionType(a) = "equals" => (Passes(a) <=> \E v \in found : Decoded(want) = Decoded(v))
    BY DEF Passes
  <1>6. /\ AssertionType(a) = "exists" => (Demanded(a) <=> ValuesAt(a.path) # {})
        /\ AssertionType(a) = "not_exists" => (Demanded(a) <=> ValuesAt(a.path) = {})
        /\ AssertionType(a) = "equals" => (Demanded(a) <=> want \in ValuesAt(a.path))
    BY DEF Demanded
  <1>7. AssertionType(a) \in {"exists", "not_exists", "equals"}
    BY DEF AssertionType
  <1> HIDE DEF found, want
  <1> QED
    BY <1>2, <1>3, <1>4, <1>5, <1>6, <1>7

\* The results are those of all the assertions.
LEMMA EvaluatedIsComplete ==
  ASSUME Given
  PROVE  /\ Len(Evaluated) = Len(step.body) + (IF step.status = None THEN 0 ELSE 1)
         /\ FALSE \in Range(Evaluated) <=>
              step.status \notin {None, response.status} \/ \E a \in Range(step.body) : ~Passes(a)
  <1> DEFINE code  == IF step.status = None THEN <<>> ELSE <<response.status = step.status>>
             tests == [k \in DOMAIN step.body |-> Passes(step.body[k])]
  <1>1. Len(step.body) \in Nat /\ DOMAIN step.body = 1 .. Len(step.body)
    BY StepIsSound, LenProperties
  <1>2. tests \in Seq(BOOLEAN) /\ Len(tests) = Len(step.body) /\ DOMAIN tests = 1 .. Len(step.body)
    <2>1. \A k \in DOMAIN step.body : Passes(step.body[k]) \in BOOLEAN
      BY PassesIsBoolean
    <2> QED
      BY <1>1, <2>1
  <1>3. code \in Seq(BOOLEAN) /\ Len(code) = IF step.status = None THEN 0 ELSE 1
    <2>1. CASE step.status = None
      BY <2>1
    <2>2. CASE step.status # None
      <3>1. \A b \in BOOLEAN : <<b>> \in Seq(BOOLEAN) /\ Len(<<b>>) = 1
        OBVIOUS
      <3> QED
        BY <2>2, <3>1
    <2> QED
      BY <2>1, <2>2
  <1>4. Evaluated = code \o tests
    BY DEF Evaluated
  <1>5. FALSE \in Range(code) <=> step.status \notin {None, response.status}
    <2>1. CASE step.status = None
      BY <2>1 DEF Range
    <2>2. CASE step.status # None
      <3>1. Range(code) = {response.status = step.status}
        BY <2>2 DEF Range
      <3> QED
        BY <2>2, <3>1
    <2> QED
      BY <2>1, <2>2
  <1>6. FALSE \in Range(tests) <=> \E a \in Range(step.body) : ~Passes(a)
    <2>1. \A k \in DOMAIN step.body : Passes(step.body[k]) \in BOOLEAN
      BY PassesIsBoolean
    <2> QED
      BY <2>1 DEF Range
  <1> HIDE DEF code, tests
  <1>7. Range(code \o tests) = Range(code) \cup Range(tests)
    BY <1>2, <1>3, RangeConcatenation
  <1>8. Len(code \o tests) = Len(code) + Len(tests)
    BY <1>2, <1>3, ConcatProperties
  <1>9. Len(Evaluated) = Len(step.body) + (IF step.status = None THEN 0 ELSE 1)
    <2> DEFINE k == IF step.status = None THEN 0 ELSE 1
    <2>1. k \in Nat /\ Len(code) = k
      BY <1>3
    <2> HIDE DEF k
    <2>2. Len(Evaluated) = k + Len(step.body)
      BY <1>2, <1>4, <1>8, <2>1
    <2>3. Len(Evaluated) = Len(step.body) + k
      BY <1>1, <2>1, <2>2
    <2> QED
      BY <2>3 DEF k
  <1> QED
    BY <1>4, <1>5, <1>6, <1>7, <1>9

-----------------------------------------------------------------------------
(* The verdict                                                             *)

\* A variable was found if and only if the body holds something at its path.
LEMMA ExtractedIfHeld ==
  ASSUME Given, IsJson(response.body), Small(response.body),
         NEW n \in DOMAIN step.extract, Definite(step.extract[n]), NEW v
  PROVE  v \in Found(n) <=> v \in ValuesAt(step.extract[n])
  <1>1. IsDocument(response.body) /\ step.extract[n] \in JsonPaths
    BY StepIsSound
  <1> QED
    BY <1>1, GetIsValuesAt DEF Found

\* What executeSingleStep, schema.Validate, Extract and Evaluate together decide is
\* right: a step passes exactly when its response is what the scenario and, in
\* strict mode only, the spec demand.
THEOREM TheVerdictIsRight == Spec => []VerdictIsRight
  <1>1. Inv => VerdictIsRight
    <2> SUFFICES ASSUME Inv, at = "done", IsJson(response.body), Small(response.body),
                        \A a \in Range(step.body) : Definite(a.path) /\ Small(a.equals),
                        \A n \in DOMAIN step.extract : Definite(step.extract[n])
                 PROVE  status = "PASSED" <=>
                          /\ mode = "strict" => violations = {}
                          /\ \A n \in DOMAIN step.extract : \E v \in ValuesAt(step.extract[n]) :
                               n \in DOMAIN store /\ store[n] = CoerceToString(v)
                          /\ step.status \in {None, response.status}
                          /\ ~Unresolved
                          /\ \A a \in Range(step.body) : Demanded(a)
      BY DEF VerdictIsRight
    <2>1. Given /\ Extracted /\ (FailedExtraction \/ FailedSubstitution \/ Judged)
      BY DEF Inv, Ended
    <2>2. \A n \in DOMAIN step.extract : \A v : v \in Found(n) <=> v \in ValuesAt(step.extract[n])
      BY <2>1, ExtractedIfHeld
    <2>3. CASE FailedExtraction
      <3>1. PICK n \in left : Found(n) = {}
        BY <2>3 DEF FailedExtraction
      <3>2. n \in DOMAIN step.extract /\ ValuesAt(step.extract[n]) = {}
        BY <2>1, <2>2, <3>1 DEF Given
      <3> QED
        BY <2>3, <3>2 DEF FailedExtraction
    <2>4. CASE FailedSubstitution
      BY <2>4 DEF FailedSubstitution
    <2>5. CASE Judged
      <3>1. \A n \in DOMAIN step.extract : \E v \in ValuesAt(step.extract[n]) :
              n \in DOMAIN store /\ store[n] = CoerceToString(v)
        <4> SUFFICES ASSUME NEW n \in DOMAIN step.extract
                     PROVE  \E v \in ValuesAt(step.extract[n]) :
                              n \in DOMAIN store /\ store[n] = CoerceToString(v)
          OBVIOUS
        <4>1. n \in DOMAIN store /\ \E v \in Found(n) : store[n] = CoerceToString(v)
          BY <2>1, <2>5 DEF Extracted, Judged
        <4> QED
          BY <2>2, <4>1
      <3>2. ~Unresolved
        BY <2>5 DEF Judged
      <3>3. status = "PASSED" <=> FALSE \notin Range(Evaluated) /\ ~Breached
        BY <2>5 DEF Judged
      <3>4. FALSE \notin Range(Evaluated) <=>
              step.status \in {None, response.status} /\ \A a \in Range(step.body) : Demanded(a)
        <4>1. \A a \in Range(step.body) : Passes(a) <=> Demanded(a)
          BY <2>1, PassesIfDemanded
        <4> QED
          BY <2>1, <4>1, EvaluatedIsComplete
      <3>5. ~Breached <=> (mode = "strict" => violations = {})
        BY DEF Breached
      <3> QED
        BY <3>1, <3>2, <3>3, <3>4, <3>5
    <2> QED
      BY <2>1, <2>3, <2>4, <2>5
  <1> QED
    BY <1>1, ResponseInvariant, PTL

\* Classify says of a failed step what it was that failed.
LEMMA Categories ==
  ASSUME Given
  PROVE  /\ Category(TRUE) = "config_error"
         /\ Category(FALSE) # "config_error"
         /\ Category(FALSE) = "contract_mismatch" => Breached
         /\ Category(FALSE) = "assertion_failed" => ~Breached
         /\ Breached /\ response.status \in 200 .. 299 => Category(FALSE) = "contract_mismatch"
  <1>1. response.status \in Nat
    BY ResponsesAssumption DEF Given
  <1> DEFINE in(config) == [status |-> response.status, violated |-> Breached, transport |-> "nil",
                            timedOut |-> FALSE, config |-> config]
  <1>2. \A config \in BOOLEAN : Category(config) = V!Classify(in(config))
    BY DEF Category, Breached
  <1>3. V!Classify(in(TRUE)) = "config_error"
    BY DEF V!Classify
  <1>4. V!Classify(in(FALSE)) =
          IF response.status \in {401, 403} THEN "auth_failure"
          ELSE IF response.status = 429 THEN "rate_limited"
          ELSE IF response.status \in 500 .. 599 THEN "server_error"
          ELSE IF Breached THEN "contract_mismatch"
          ELSE "assertion_failed"
    BY DEF V!Classify
  <1>5. Category(TRUE) = V!Classify(in(TRUE)) /\ Category(FALSE) = V!Classify(in(FALSE))
    BY <1>2
  <1> HIDE DEF in
  <1>6. response.status \in 200 .. 299 =>
          response.status \notin {401, 403} /\ response.status # 429 /\ response.status \notin 500 .. 599
    BY <1>1
  <1>7. PICK kind : kind = Category(FALSE)
    OBVIOUS
  <1>8. kind = IF response.status \in {401, 403} THEN "auth_failure"
               ELSE IF response.status = 429 THEN "rate_limited"
               ELSE IF response.status \in 500 .. 599 THEN "server_error"
               ELSE IF Breached THEN "contract_mismatch"
               ELSE "assertion_failed"
    BY <1>4, <1>5, <1>7
  <1>9. /\ kind # "config_error"
        /\ kind = "contract_mismatch" => Breached
        /\ kind = "assertion_failed" => ~Breached
        /\ Breached /\ response.status \in 200 .. 299 => kind = "contract_mismatch"
    BY <1>6, <1>8
  <1> QED
    BY <1>3, <1>5, <1>7, <1>9

\* The failure verification.Classify names is the one that happened, whoever is to
\* blame for it; a variable in assert.equals that does not resolve is apart.
THEOREM TheCategoryIsJustified == Spec => []CategoryIsJustified
  <1>1. Inv => CategoryIsJustified
    <2> SUFFICES ASSUME Inv, at = "done", status = "FAILED", left # {} \/ ~Unresolved
                 PROVE  /\ category = "contract_mismatch" => mode = "strict" /\ Violations # {}
                        /\ category = "config_error" <=> left # {}
                        /\ category = "assertion_failed" => left = {} /\ FALSE \in Range(results)
                        /\ mode = "strict" /\ Violations # {} /\ left = {} /\ response.status \in 200 .. 299 =>
                             category = "contract_mismatch"
      BY DEF CategoryIsJustified
    <2>1. Given /\ (FailedExtraction \/ FailedSubstitution \/ Judged)
      BY DEF Inv, Ended
    <2>2. Breached <=> mode = "strict" /\ Violations # {}
      BY DEF Inv, SchemaChecked, Breached
    <2>3. CASE FailedExtraction
      BY <2>1, <2>3, Categories DEF FailedExtraction
    <2>4. CASE FailedSubstitution
      BY <2>4 DEF FailedSubstitution
    <2>5. CASE Judged
      BY <2>1, <2>2, <2>5, Categories DEF Judged
    <2> QED
      BY <2>1, <2>3, <2>4, <2>5
  <1> QED
    BY <1>1, ResponseInvariant, PTL

\* Evaluate reports every assertion, and every failure of a step that no other check
\* explains shows in one of them.
THEOREM NoneIsSkipped == Spec => []NoAssertionIsSkipped
  <1>1. Inv => NoAssertionIsSkipped
    <2> SUFFICES ASSUME Inv, at = "done"
                 PROVE  /\ results # <<>> => Len(results) = Len(step.body) + (IF step.status = None THEN 0 ELSE 1)
                        /\ status = "PASSED" \/ left # {} \/ Unresolved \/ (mode = "strict" /\ Violations # {})
                             \/ FALSE \in Range(results)
                        /\ status = "PASSED" => FALSE \notin Range(results)
      BY DEF NoAssertionIsSkipped
    <2>1. Given /\ (FailedExtraction \/ FailedSubstitution \/ Judged)
      BY DEF Inv, Ended
    <2>2. Breached <=> mode = "strict" /\ Violations # {}
      BY DEF Inv, SchemaChecked, Breached
    <2>3. CASE FailedExtraction
      BY <2>3 DEF FailedExtraction
    <2>4. CASE FailedSubstitution
      BY <2>4 DEF FailedSubstitution
    <2>5. CASE Judged
      BY <2>1, <2>2, <2>5, EvaluatedIsComplete DEF Judged
    <2> QED
      BY <2>1, <2>3, <2>4, <2>5
  <1> QED
    BY <1>1, ResponseInvariant, PTL
=============================================================================
