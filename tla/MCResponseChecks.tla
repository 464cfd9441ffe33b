--------------------------- MODULE MCResponseChecks ---------------------------
(***************************************************************************)
(* An instance of ResponseChecks.tla for TLC: every response of a small    *)
(* set against every declaration and every step, in every mode.  Integers  *)
(* are exact up to 8; 9 stands for an id beyond 2^53.                      *)
(***************************************************************************)
EXTENDS ResponseChecks

Num(n)    == Scalar([num |-> n])
Str(w)    == Scalar([str |-> [word |-> w]])
True      == Scalar([bool |-> TRUE])
Null      == Scalar([null |-> TRUE])
Time(t)   == Scalar([time |-> t])
Ref(n)    == Scalar([ref |-> n])
Obj(f) ==
  Scalar([obj |-> TRUE])
  @@ [p \in UNION {{<<Key(k)>> \o q : q \in DOMAIN f[k]} : k \in DOMAIN f} |-> f[Head(p).key][Tail(p)]]

Bodies ==
  {Malformed, EmptyBody, Obj(<<>>), Num(3), Obj("id" :> Num(5)), Obj("id" :> Num(9)), Obj("id" :> Str("x")),
   Obj(("id" :> Null) @@ ("extra" :> True)),
   Obj(("id" :> Num(5)) @@ ("items" :> ArrayOf(<<Obj("id" :> Num(1)), Obj("extra" :> Num(2))>>))),
   Obj(("id" :> Str("2024-01-01")) @@ ("items" :> ArrayOf(<<>>)))}

MCResponses ==
  {[status |-> 200, media |-> "json", body |-> b] : b \in Bodies} \cup
  {[status |-> 200, media |-> "html", body |-> Malformed],
   [status |-> 404, media |-> "json", body |-> Obj(<<>>)], [status |-> 401, media |-> "json", body |-> EmptyBody],
   [status |-> 503, media |-> "html", body |-> Malformed]}

Typed(t) == [type |-> t, required |-> {}, props |-> <<>>, additional |-> None, items |-> None]
ObjectOf(props, required, additional) ==
  [Typed("obj") EXCEPT !.props = props, !.required = required, !.additional = additional]

Entry  == ObjectOf("id" :> Typed("num"), {}, None)
Items  == [Typed("arr") EXCEPT !.items = Entry]
Entity == ObjectOf(("id" :> Typed("num")) @@ ("items" :> Items), {"id"}, None)

Answers(content, default) == [codes |-> (200 :> content), default |-> default]

MCOperations ==
  {Answers("json" :> Entity, None), Answers("json" :> [Entity EXCEPT !.additional = FALSE], "json" :> Typed("obj")),
   Answers("json" :> [Entity EXCEPT !.additional = TRUE], <<>>), Answers(<<>>, None), Answers("json" :> None, None)}

Check(path, equals) == [path |-> path, equals |-> equals, exists |-> FALSE, notExists |-> FALSE]
Exists(path)    == [Check(path, Null) EXCEPT !.exists = TRUE]
NotExists(path) == [Check(path, Null) EXCEPT !.notExists = TRUE]

Step(extract, code, body) == [extract |-> extract, status |-> code, body |-> body]
Id == <<Key("id")>>
ItemIds == <<Key("items"), Each, Key("id")>>

MCSteps ==
  {Step(<<>>, 200, <<b>>) : b \in
     {Check(Id, Num(5)), Check(Id, Num(8)), Check(Id, Str("x")), Check(Id, Null), Check(Id, Time("2024-01-01")),
      Check(Id, Ref("uid")), Exists(ItemIds), NotExists(ItemIds),
      Check(ItemIds, ArrayOf(<<Num(1)>>)), Exists(<<Key("items")>>)}} \cup
  {Step(<<>>, None, <<>>), Step(<<>>, 404, <<NotExists(Id)>>),
   Step("uid" :> Id, None, <<Check(Id, Ref("uid"))>>),
   Step(("uid" :> Id) @@ ("all" :> <<Key("items")>>), 200, <<Exists(Id), Check(Id, Num(5)), NotExists(<<Key("extra")>>)>>)}

MCStores == {<<>>, "uid" :> [word |-> "x"]}
=============================================================================
