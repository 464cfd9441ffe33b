---------------------------- MODULE MCContextTools ----------------------------
(***************************************************************************)
(* An instance of ContextTools.tla for TLC: queries that match a service,  *)
(* a workflow, an operation by its operationId or nothing at all, and      *)
(* entities with dependencies on either side, in the sample repositories.  *)
(***************************************************************************)
EXTENDS ContextTools, SampleRepositories

MCIgnored == {"add", "to"}

MCOccurs ==
  [pay |-> {"pay", "POST /pay", "GET /pay", "createPayment", "getPayment"},
   refund |-> {"refund"}, entries |-> {"POST /entries", "createEntry"},
   fee |-> {"fee.go"}, cart |-> {"cart.go"}, teleport |-> {}, buy |-> {"buy"}]

Query(tool, words) == [tool |-> tool, query |-> words]

MCCalls ==
  {Query("get_related_context", q) : q \in
     {<<>>, <<"add", "to">>, <<"pay">>, <<"entries">>, <<"add", "cart", "fee">>}} \cup
  {Query("propose_change", q) : q \in {<<>>, <<"refund">>, <<"teleport">>, <<"buy", "to", "refund">>, <<"cart">>}} \cup
  {[tool |-> "get_dependencies", id |-> id] : id \in
     {None, ServiceId("pay"), ServiceId("shop"), ServiceId("gone"), ServiceId("audit"), WorkflowId("buy")}} \cup
  {[tool |-> "get_owners", paths |-> p] : p \in {<<>>, <<<<"pay", "fee.go">>, <<"shop", "cart.go">>, <<"README">>>>}}
=============================================================================
