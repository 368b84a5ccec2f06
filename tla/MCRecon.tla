------------------------------- MODULE MCRecon -------------------------------
(***************************************************************************)
(* A small engagement for Recon: one zone with a wildcard record, names that *)
(* only one source each knows of (a wordlist, a model, a certificate, a body,*)
(* an address), an excluded name, and a site whose pages name each other.    *)
(***************************************************************************)
EXTENDS Recon

Stock == INSTANCE StockStages
StockGraph == INSTANCE ModuleGraph

\* The order in which the stock stages of AI mode "assist" are resolved.
MCOrder ==
  << "asset_discovery", "github_secrets", "github_subdomains", "ai_subwords", "dns_resolve",
     "alive_detection", "permutation", "tls_intel", "vhost_discovery", "api_discovery", "crawling",
     "historical_urls", "nuclei_scan", "tech_fingerprint", "ai_dirwords", "dir_bruteforce",
     "url_probe", "js_fetch", "normalization", "ai_params", "content_subdomains", "js_intel",
     "secret_scan", "param_discovery", "triage" >>
MCRunOnce == Stock!RunOnceStages

\* It holds all of them, each after what it waits for.
ASSUME OrderIsResolved ==
  LET plan == Stock!StockPlan("default", "assist")
  IN /\ {MCOrder[i] : i \in 1 .. Len(MCOrder)} = StockGraph!Built(plan)
     /\ \A i \in 1 .. Len(MCOrder) :
          StockGraph!Prereqs(plan, MCOrder[i]) \subseteq {MCOrder[k] : k \in 1 .. i - 1}

apex == <<"x">>
n(label) == <<"x", label>>
shared == <<"y">>

\* The agent's predicate beside the pipeline's, for every scope of patterns on two names.
ASSUME PredicatesAgree ==
  \A s \in Scopes({apex, n("www")}) : \A name \in {apex, n("www"), n("dev"), shared} : AgentIsStricter(s, name)

MCScope == [targets |-> {Exact(apex)}, in_scope |-> {Subdomains(apex)}, out_of_scope |-> {Exact(n("old"))}]
MCIp == {1, 2, 9, 10}
MCPrivate == {10}
MCDns ==
  [name \in {apex, n("www"), n("dev"), n("dev2"), n("int"), n("api"), n("old"), shared} |->
     CASE name \in {apex, n("www"), n("api")} -> {1}
       [] name = n("int") -> {10}
       [] OTHER -> {2}]
MCWildcard == [s \in {apex} |-> {9}]
MCServing == {apex, n("www"), n("dev"), n("api"), n("int")}
MCPassive == {n("www"), n("old"), n("gone")}
MCLeaked == {shared}
MCWords == {"zz"}
MCAiWords == {"dev"}
MCName == {apex, shared} \cup
          {n(label) : label \in {"www", "dev", "dev2", "int", "api", "old", "gone", "zz", "qq"}}
MCPermutations == [name \in MCName |->
                     IF name = n("dev") THEN {n("dev2")} ELSE {n("qq")}]
MCCertificate == [name \in MCName |-> IF name = n("dev") THEN {n("api"), n("old"), shared} ELSE {}]
MCVirtualHosts == [i \in MCIp |-> IF i = 2 THEN {n("stage")} ELSE {}]
MCNamedVirtualHosts == [s \in {apex} |-> {n("old")}]

Body(kind, status, mentions, endpoints, params, secret, hidden) ==
  [kind |-> kind, status |-> status, mentions |-> mentions, endpoints |-> endpoints,
   params |-> params, secret |-> secret, hidden |-> hidden]
At(name, p) == [host |-> name, path |-> p]
MCSite ==
  [page \in {At(n("www"), "home"), At(n("www"), "app.js"), At(n("api"), "v1"), At(n("www"), "admin")} |->
     CASE page = At(n("www"), "home")   -> Body("page", "ok", {n("int"), shared}, {}, {}, FALSE, {"id"})
       [] page = At(n("www"), "app.js") -> Body("script", "ok", {}, {"admin"}, {"id"}, TRUE, {})
       [] page = At(n("api"), "v1")     -> Body("data", "ok", {n("old")}, {}, {}, TRUE, {})
       [] OTHER                         -> Body("page", "gated", {}, {}, {}, FALSE, {"q"})]
AllHosts == MCName \cup {n("stage")}
MCCrawlable == [h \in AllHosts |->
  IF h = n("www") THEN {Url(h, "home", {}), Url(h, "app.js", {}), Url(n("old"), "home", {})} ELSE {}]
MCArchived == [h \in AllHosts |-> IF h = apex THEN {Url(n("gone"), "home", {})} ELSE {}]
MCApiSpec == [h \in AllHosts |-> IF h = n("api") THEN {Url(h, "v1", {})} ELSE {}]
MCDirWords == {"home"}
MCAiDirs == {"admin"}
MCParamWords == {}
MCAiParamWords == {"q"}
MCRisky == {"id"}
MCVulnerable == {n("dev")}
MCUniform == {n("www")}

MCUnreliable == {"dns_resolve", "js_fetch"}
MCFailing == {"asset_discovery", "ai_subwords", "js_fetch"}
==============================================================================
