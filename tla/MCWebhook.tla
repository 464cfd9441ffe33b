------------------------------- MODULE MCWebhook -------------------------------
(***************************************************************************)
(* An instance of Webhook.tla for TLC.                                     *)
(***************************************************************************)
EXTENDS Webhook, TLC

\* An authenticated route and an open one; both run the operation "pay".
MCRoutes ==
  << [paths |-> {"/pay"}, method |-> "POST", auth |-> "token", mapping |-> {"id"}],
     [paths |-> {"/pay", "/open"}, method |-> "PUT", auth |-> None, mapping |-> {}] >>

Request(path, method, credential, body, fields) ==
  [path |-> path, method |-> method, credential |-> credential, body |-> body, fields |-> fields]

Pay == Request("/pay", "POST", "token", "object", "id" :> "k")
Open == Request("/open", "PUT", None, "object", <<>>)

\* One that each of the checks refuses, beside two that pass them all.
MCRequests ==
  { Pay, Open,
    Request("/none", "POST", "token", "object", "id" :> "k"),
    [Open EXCEPT !.method = "POST"],
    [Pay EXCEPT !.credential = "wrong", !.body = "invalid"],
    [Pay EXCEPT !.fields = <<>>],
    [Pay EXCEPT !.credential = "wrong", !.body = "oversize"],
    [Open EXCEPT !.body = "broken"] }

Call_(op, attempts, always_run) == [op |-> op, attempts |-> attempts, always_run |-> always_run]
Once(op) == Call_(op, 1, FALSE)

Scenario_(calls, key, timeout) == [calls |-> calls, key |-> key, timeout |-> timeout]
Version(limits, s) == [env |-> TRUE, spec |-> TRUE, limits |-> limits, scenario |-> s]

\* A retried request under the key "id"; a request and a cleanup step under a
\* deadline.
Limited == Version("pay" :> 1, Scenario_(<<Call_("pay", 2, FALSE), Once("free")>>, "id", None))
Hasty == Version("pay" :> 2, Scenario_(<<Once("pay"), Call_("free", 1, TRUE)>>, None, 1))

MCVersions == {Limited, Hasty, [env |-> FALSE, spec |-> FALSE, limits |-> <<>>, scenario |-> None]}

MCFirstFiles == {<<Limited, Hasty>>}
=============================================================================
