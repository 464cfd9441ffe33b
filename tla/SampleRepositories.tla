-------------------------- MODULE SampleRepositories --------------------------
(***************************************************************************)
(* A handful of repositories for TLC, each chosen for what can go wrong in *)
(* discovering it.                                                         *)
(***************************************************************************)
EXTENDS Discovery

MCNames  == {"shop", "pay", "ledger", "audit", "gone", "repo", "scenarios", "vault", "buy", "refund", "post", "check", "@a", "@b"}
MCRoutes == {"POST /pay", "GET /pay", "POST /entries", "GET /health"}
MCOpNames == {"createPayment", "getPayment", "createEntry", "ghost", ""}

Op(route, name) == [route |-> route, name |-> name]
Tree(d) == <<[path |-> d, deep |-> TRUE]>>
Scenario(f, name, steps) == [file |-> f, scenario |-> [name |-> name, steps |-> steps]]
Broken(f) == [file |-> f, scenario |-> Invalid]

\* A service in a directory of its own.
Declared(name, deps) ==
  [name |-> name, globs |-> Tree(<<name>>), spec |-> <<name, "openapi.yml">>,
   dir |-> <<name, "scenarios">>, deps |-> deps]

Bare == [manifest |-> None, base |-> "repo", tree |-> <<>>, dirs |-> <<Root>>,
         unreadable |-> {}, reach |-> 0, specs |-> <<>>, scenarios |-> <<>>,
         codeowners |-> <<None, None, None>>]

PaySpec    == {Op("POST /pay", "createPayment"), Op("GET /pay", "getPayment")}
LedgerSpec == {Op("POST /entries", "createEntry")}
OwnedBy == <<[pattern |-> [kind |-> "all"], owners |-> <<"@a">>],
             [pattern |-> [kind |-> "under", path |-> <<"pay">>], owners |-> <<"@b", "@a">>],
             [pattern |-> [kind |-> "bare", name |-> "shop"], owners |-> <<"@b">>],
             [pattern |-> [kind |-> "bare", name |-> "fee.go"], owners |-> <<>>]>>

\* docs/impact.md's example and more of its kind: four services, each one
\* depending on the next.
Chain ==
  [Bare EXCEPT
     !.manifest = <<Declared("shop", <<"pay">>), Declared("pay", <<"ledger", "gone">>),
                    Declared("ledger", <<"audit">>), Declared("audit", <<"pay">>)>>,
     !.tree  = <<<<"README">>, <<"pay", "fee.go">>, <<"pay", "openapi.yml">>, <<"shop", "cart.go">>>>,
     !.specs = (<<"pay", "openapi.yml">> :> PaySpec) @@ (<<"ledger", "openapi.yml">> :> LedgerSpec)
               @@ (<<"shop", "openapi.yml">> :> {}) @@ (<<"audit", "openapi.yml">> :> {}),
     !.scenarios =
       (<<"shop", "scenarios">> :> <<>>) @@
       (<<"pay", "scenarios">> :>
          <<Scenario(<<"pay", "scenarios", "a.yml">>, "buy", <<"createPayment", "", "getPayment">>),
            Scenario(<<"pay", "scenarios", "b.yml">>, "refund", <<"ghost">>)>>) @@
       (<<"ledger", "scenarios">> :>
          <<Scenario(<<"ledger", "scenarios", "a.yml">>, "post", <<"createEntry">>)>>) @@
       (<<"audit", "scenarios">> :>
          <<Scenario(<<"audit", "scenarios", "a.yml">>, "check", <<>>)>>),
     !.codeowners = <<None, OwnedBy, None>>]

\* Nothing can be read: no spec, no scenario directory, no scenario.
Troubled ==
  [Bare EXCEPT
     !.manifest = <<Declared("shop", <<>>), Declared("pay", <<>>),
                    [Declared("ledger", <<>>) EXCEPT !.spec = None, !.dir = None]>>,
     !.tree = <<<<"pay", "fee.go">>, <<"shop", "cart.go">>>>,
     !.specs = (<<"pay", "openapi.yml">> :> PaySpec),
     !.scenarios =
       (<<"pay", "scenarios">> :>
          <<Broken(<<"pay", "scenarios", "a.yml">>),
            Scenario(<<"pay", "scenarios", "b.yml">>, "refund", <<"getPayment", "ghost">>)>>)]

\* Two services with a route and a scenario name in common; an operation
\* without operationId.
Shared ==
  [Bare EXCEPT
     !.manifest = <<Declared("pay", <<>>), Declared("ledger", <<>>)>>,
     !.tree = <<<<"pay", "fee.go">>>>,
     !.specs = (<<"pay", "openapi.yml">> :> {Op("GET /health", "getPayment"), Op("GET /pay", "")}) @@
               (<<"ledger", "openapi.yml">> :> {Op("GET /health", "createEntry"), Op("POST /entries", "")}),
     !.scenarios =
       (<<"pay", "scenarios">> :>
          <<Scenario(<<"pay", "scenarios", "a.yml">>, "check", <<"getPayment">>)>>) @@
       (<<"ledger", "scenarios">> :>
          <<Scenario(<<"ledger", "scenarios", "a.yml">>, "check", <<"createEntry", "">>)>>)]

\* No manifest: a service at the root, which hides the one below it.
AtRoot ==
  [Bare EXCEPT
     !.tree = <<<<"openapi.yml">>, <<"pay", "fee.go">>, <<"pay", "openapi.yml">>>>,
     !.dirs = <<Root, <<"pay">>, <<"scenarios">>>>,
     !.specs = (<<"openapi.yml">> :> PaySpec),
     !.scenarios = (<<"scenarios">> :> <<Scenario(<<"scenarios", "a.yml">>, "buy", <<"getPayment">>)>>)]

\* No manifest: services side by side, two of them of one name.
SideBySide ==
  [Bare EXCEPT
     !.tree = <<<<"pay", "fee.go">>, <<"pay", "openapi.yaml">>, <<"shop", "pay", "openapi.yml">>>>,
     !.dirs = <<Root, <<"pay">>, <<"pay", "scenarios">>, <<"shop">>, <<"shop", "pay">>>>,
     !.specs = (<<"pay", "openapi.yaml">> :> PaySpec),
     !.scenarios =
       (<<"pay", "scenarios">> :>
          <<Scenario(<<"pay", "scenarios", "a.yml">>, "buy", <<"getPayment">>)>>),
     !.codeowners = <<None, OwnedBy, None>>]

\* Two services described by one spec, which a verification can be green against.
OneSpec ==
  [Bare EXCEPT
     !.manifest = <<[Declared("shop", <<"pay">>) EXCEPT !.spec = <<"pay", "openapi.yml">>], Declared("pay", <<>>)>>,
     !.tree  = <<<<"pay", "fee.go">>, <<"shop", "cart.go">>>>,
     !.specs = (<<"pay", "openapi.yml">> :> PaySpec),
     !.scenarios =
       (<<"shop", "scenarios">> :> <<Scenario(<<"shop", "scenarios", "a.yml">>, "check", <<"getPayment">>)>>) @@
       (<<"pay", "scenarios">> :>
          <<Scenario(<<"pay", "scenarios", "a.yml">>, "buy", <<"createPayment", "", "getPayment">>)>>)]

\* A directory that cannot be listed, and a CODEOWNERS that cannot be read before
\* one that can: the walk ends before it comes to the files of shop.
Locked ==
  [Chain EXCEPT !.dirs = <<Root, <<"pay">>, <<"pay", "vault">>, <<"shop">>>>,
                !.unreadable = {<<"pay", "vault">>}, !.reach = 3,
                !.codeowners = <<Invalid, None, OwnedBy>>]

\* Without a manifest it depends on whether it is in a service.
LockedInService == [SideBySide EXCEPT !.unreadable = {<<"pay">>}]
LockedElsewhere == [SideBySide EXCEPT !.unreadable = {<<"shop">>}, !.reach = 2]

\* The four services again, with other dependencies: cycles, loops.
Linked ==
  {[Chain EXCEPT !.manifest = [k \in 1 .. 4 |-> [@[k] EXCEPT !.deps = deps[k]]]] :
     deps \in [1 .. 4 -> {<<"audit">>, <<"ledger", "pay">>}]}

Whole(r) == [r EXCEPT !.reach = Len(r.tree)]

MCFewRepos ==
  {Whole(r) : r \in {Bare, [Bare EXCEPT !.manifest = Invalid], Chain, Troubled, Shared, AtRoot,
                     SideBySide, OneSpec}}
  \cup {Locked, LockedInService, LockedElsewhere}

MCRepos == MCFewRepos \cup {Whole(r) : r \in Linked}

MCPaths ==
  {Root} \cup UNION {Range(r.tree) \cup Range(r.dirs) \cup DOMAIN r.specs \cup DOMAIN r.scenarios : r \in MCRepos}
  \cup UNION {UNION {{f.file : f \in Range(r.scenarios[d])} : d \in DOMAIN r.scenarios} : r \in MCRepos}
  \cup {<<n>> : n \in MCNames}
  \cup {<<n, "openapi.yml">> : n \in MCNames} \cup {<<n, "scenarios">> : n \in MCNames}
  \cup {<<"pay", "old.go">>}
=============================================================================
