------------------------------ MODULE Templates ------------------------------
(***************************************************************************)
(* How the text of a request is resolved: internal/template (the functions *)
(* {{fn(args)}}) and then internal/variable's Substitute ({{name}}).  Both *)
(* replace their tokens from left to right in one pass, go on after an     *)
(* error, and report the last error they met.                              *)
(*                                                                         *)
(* A text is a sequence of parts: words, references {{name}}, calls        *)
(* {{fn(args)}} and the placeholders {name} of paths.  Tokens put together *)
(* from pieces of two parts are left out.                                  *)
(***************************************************************************)
EXTENDS Naturals, SequencesExt

CONSTANTS
  Words,     \* text without braces
  Names,     \* of variables and placeholders
  Functions, \* names used as functions, known or not
  Numerals,  \* the arguments strconv.Atoi accepts
  Dates,     \* the words time.Parse accepts as RFC 3339
  Upper, Lower, \* Names under strings.ToUpper and ToLower
  None       \* no error

ASSUME NamesAssumption == Upper \in [Names -> Names] /\ Lower \in [Names -> Names]
ASSUME WordsAssumption == {"now", "encoded", "cut", "date"} \subseteq Words /\ "date" \in Dates

Word(w)        == [is |-> "word", name |-> w]
Ref(n)         == [is |-> "ref", name |-> n]
Open(n)        == [is |-> "open", name |-> n]
Call(fn, args) == [is |-> "call", name |-> fn, args |-> args]

\* What a variable may hold.  A value that spells a call is left out.
Values == Seq([is : {"word"}, name : Words] \cup [is : {"ref", "open"}, name : Names])

Errors == {"unknown", "arity", "missing", "integer", "date"}

ASSUME NoneAssumption == None \notin Errors

\* The number of arguments of each function.
Need == [now |-> 0, toUpper |-> 1, toLower |-> 1, base64 |-> 1, urlEncode |-> 1,
         substring |-> 3, addDays |-> 2]

\* store.Get: the value, empty if there is none.
Get(store, n) == IF n \in DOMAIN store THEN store[n] ELSE <<>>

IsDate(text) == \E d \in Dates : text = <<Word(d)>>

Misses(call, store) == call.args # <<>> /\ call.args[1] \notin DOMAIN store

\* What is wrong with the other arguments, or with the value, of a call of a
\* known function.
ArgumentErrors(call, store) ==
  CASE call.name = "substring" /\ ~({call.args[2], call.args[3]} \subseteq Numerals) -> <<"integer">>
    [] call.name = "addDays" /\ call.args[2] \notin Numerals -> <<"integer">>
    [] call.name = "addDays" /\ call.args[2] \in Numerals
         /\ ~IsDate(Get(store, call.args[1])) -> <<"date">>
    [] OTHER -> <<>>

\* The errors one call raises, in order: a missing variable does not end it.
CallErrors(call, store) ==
  CASE call.name \notin DOMAIN Need          -> <<"unknown">>
    [] call.name \in DOMAIN Need /\ Len(call.args) # Need[call.name] -> <<"arity">>
    [] OTHER -> (IF Misses(call, store) THEN <<"missing">> ELSE <<>>) \o ArgumentErrors(call, store)

Cased(text, case) ==
  [k \in DOMAIN text |-> IF text[k].is = "word" THEN text[k] ELSE [text[k] EXCEPT !.name = case[@]]]

\* What a call without errors leaves in its place.  Upper and lower case keep
\* the braces of a value, encodings do not; a cut that keeps a whole token is
\* left out.
CallResult(call, store) ==
  CASE call.name = "now"       -> <<Word("now")>>
    [] call.name = "toUpper"   -> Cased(Get(store, call.args[1]), Upper)
    [] call.name = "toLower"   -> Cased(Get(store, call.args[1]), Lower)
    [] call.name \in {"base64", "urlEncode"} -> <<Word("encoded")>>
    [] call.name = "substring" -> <<Word("cut")>>
    [] call.name = "addDays"   -> <<Word("date")>>

\* Each part of that kind replaced.
Replaced(text, kind, With(_)) ==
  FlattenSeq([k \in DOMAIN text |-> IF text[k].is = kind THEN With(text[k]) ELSE <<text[k]>>])

\* The last of the errors met.
LastError(errors) == IF errors = <<>> THEN None ELSE Last(errors)

\* template.Resolve
TemplateError(text, store) ==
  LastError(FlattenSeq([k \in DOMAIN text |->
    IF text[k].is = "call" THEN CallErrors(text[k], store) ELSE <<>>]))

Called(text, store) == Replaced(text, "call", LAMBDA c : CallResult(c, store))

\* variable.Substitute
SubstituteError(text, store) ==
  IF \E k \in DOMAIN text : text[k].is = "ref" /\ text[k].name \notin DOMAIN store
  THEN "missing" ELSE None

Substituted(text, store) == Replaced(text, "ref", LAMBDA r : store[r.name])

\* resolve of the engine: the functions, then the variables, those a function's
\* value spells included.
ResolveError(text, store) ==
  IF TemplateError(text, store) # None THEN TemplateError(text, store)
  ELSE SubstituteError(Called(text, store), store)

Resolved(text, store) == Substituted(Called(text, store), store)
=============================================================================
