----------------------------- MODULE MCValidation -----------------------------
(***************************************************************************)
(* An instance of Validation.tla for TLC: one step for every kind of token *)
(* a field may hold, steps whose placeholders are filled in from values    *)
(* that spell placeholders and tokens, and commands with several faults.   *)
(***************************************************************************)
EXTENDS Validation

MCWords == {"now", "encoded", "cut", "date", "/a", "1", "x"}
MCNames == {"id", "ID", "to"}
MCFunctions == DOMAIN Need \cup {"shout"}
MCUpper == [n \in MCNames |-> IF n = "id" THEN "ID" ELSE n]
MCLower == [n \in MCNames |-> IF n = "ID" THEN "id" ELSE n]

\* One field of each kind.
Samples ==
  {<<>>, <<Word("x")>>, <<Ref("id")>>, <<Ref("id"), Ref("to")>>, <<Call("now", <<>>)>>,
   <<Call("toUpper", <<"id">>)>>, <<Call("toLower", <<"id">>)>>, <<Call("urlEncode", <<"id">>)>>,
   <<Call("toUpper", <<"id", "to">>)>>, <<Call("now", <<"id">>)>>, <<Call("toLower", <<>>)>>,
   <<Call("shout", <<"id">>)>>,
   <<Call("shout", <<"id">>), Call("toUpper", <<"id">>)>>,
   <<Call("toUpper", <<"id">>), Call("shout", <<"id">>)>>,
   <<Call("substring", <<"id", "1", "1">>)>>, <<Call("substring", <<"id", "1", "x">>)>>,
   <<Call("addDays", <<"id", "1">>)>>, <<Call("addDays", <<"id", "x">>)>>,
   <<Call("addDays", <<"id", "1">>), Ref("to"), Call("base64", <<"to">>)>>}

Step0 == [operation |-> "list", noisy |-> FALSE, retryOn |-> {}, path |-> <<>>,
          query |-> <<>>, headers |-> <<>>, body |-> <<>>]

\* Each sample in the query, and in one other place.
Singles ==
  {[Step0 EXCEPT !.query = ("id" :> t)] : t \in Samples} \cup
  {[Step0 EXCEPT !.body = t, !.noisy = TRUE] : t \in Samples} \cup
  {[Step0 EXCEPT !.headers = ("to" :> t), !.retryOn = {404, 503}] : t \in Samples}

PathTexts == {<<Word("x")>>, <<Ref("id")>>, <<Call("toUpper", <<"to">>)>>, <<Word("x"), Open("to")>>}

\* Two placeholders, and steps that give one too few or one too many.
Paths2 ==
  {[Step0 EXCEPT !.operation = "get", !.path = ("id" :> a) @@ ("to" :> b)] : a, b \in PathTexts} \cup
  {[Step0 EXCEPT !.operation = "get", !.path = ("id" :> a)] : a \in PathTexts} \cup
  {[Step0 EXCEPT !.operation = "list", !.path = ("id" :> a), !.retryOn = {503}] : a \in PathTexts}

Condition == [Step0 EXCEPT !.operation = NoOperation]
Ghost     == [Step0 EXCEPT !.operation = "ghost"]
Shout     == [Step0 EXCEPT !.query = ("id" :> <<Call("shout", <<"id">>)>>), !.body = <<Call("now", <<"id">>)>>]

MCCommands ==
  {<<>>, <<Broken>>, <<Broken, <<Shout, Condition, Ghost>>, Broken>>, <<<<>>, <<Shout>>, <<Shout>>>>}
  \cup {<<<<s>>>> : s \in Singles \cup Paths2}

MCSpecs == {Broken, ("list" :> <<Word("/a")>>) @@ ("get" :> <<Word("/a"), Open("id"), Open("to")>>)}

Given == {<<Word("x")>>, <<Word("date")>>, <<Open("to")>>, <<Ref("to")>>, <<Open("id"), Word("x")>>}

MCStores ==
  {<<>>} \cup {("id" :> a) : a \in Given} \cup
  {("id" :> a) @@ ("to" :> b) : a, b \in Given}
  \cup {("id" :> <<Ref("ID")>>) @@ ("to" :> <<Word("x")>>) @@ ("ID" :> <<Word("x")>>)}
=============================================================================
