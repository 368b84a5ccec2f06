-------------------------------- MODULE Recon --------------------------------
(***************************************************************************)
(* A scan: the stages of Discovery and Content on one store, in the resolved *)
(* order, under the discovery loop of Pipeline.run.                          *)
(***************************************************************************)
EXTENDS Content, Integers, Lists

CONSTANTS Name,     \* the names there are
          Order,    \* the resolved order of the stages, a sequence of names
          RunOnce,  \* the stages kept for the end
          Rounds,   \* discovery rounds, 1 when the loop is off
          Failing   \* stages that may fail, or be skipped, as a whole

VARIABLES phase, rnd, prev, todo   \* as in PipelineRun

loopVars == <<phase, rnd, prev, todo>>
vars == <<hostVars, urlVars, loopVars>>

Cycle == Filtered(Order, Elements(Order) \ RunOnce)
Finalize == Filtered(Order, RunOnce)

\* The stages that add names, and those that may add urls of hosts the store does not have.
Namers == {"asset_discovery", "github_subdomains", "dns_resolve", "permutation", "tls_intel",
           "content_subdomains"}
Collectors == {"api_discovery", "crawling", "historical_urls"}

\* No stage of a set comes after this one.
NothingAfter(list, stage, S) ==
  \A i, j \in 1 .. Len(list) : i < j /\ list[i] = stage => list[j] \notin S

\* The world is finite, and what its names lead to are names.
ASSUME WorldAssumption ==
  /\ IsFiniteSet(Name)
  /\ Seeds \cup Passive \cup Leaked \cup Labelled(Words \cup AiWords) \subseteq Name
  /\ \A n \in Name : Permutations[n] \cup Certificate[n] \subseteq Name
  /\ \A p \in DOMAIN Site : Site[p].mentions \subseteq Name

\* What the declarations of the stock stages make of their order (StockStages, ModuleOrder):
\* names are found and probed in the loop, and the stages that link urls, look for secrets
\* and rank run once, each after what it works on.
ASSUME ScanAssumption ==
  /\ Order \in Seq(STRING)
  /\ Rounds \in Nat \ {0}
  /\ "alive_detection" \in Elements(Order) \ RunOnce
  /\ Namers \cap RunOnce = {}
  /\ {"normalization", "secret_scan", "triage"} \subseteq Elements(Order) \cap RunOnce
  /\ NothingAfter(Order, "normalization", Collectors)
  /\ NothingAfter(Order, "secret_scan", {"js_fetch"})
  /\ NothingAfter(Order, "triage", {"secret_scan"})

ReconInit ==
  /\ Init /\ InitContent
  /\ rnd = 1 /\ prev = -1
  /\ IF Rounds = 1 THEN phase = "single" /\ todo = Order ELSE phase = "cycle" /\ todo = Cycle

\* The next stage of the list runs.  One that fails before it commits leaves the store as it
\* was; one that fails after (after_persist) has done to the store what its handler does.
Run(stage, Handler) ==
  /\ todo # << >> /\ Head(todo) = stage
  /\ todo' = Tail(todo)
  /\ UNCHANGED <<phase, rnd, prev>>
  /\ \/ Handler
     \/ stage \in Failing /\ UNCHANGED <<hostVars, urlVars>>

RunHosts(stage, Handler) == Run(stage, Handler /\ UNCHANGED urlVars)

\* Mutant of EndRound: a round that adds but one name ends the loop.
EndRoundHasty ==
  /\ phase = "cycle" /\ todo = << >>
  /\ LET count == Cardinality(Known)
     IN IF rnd = Rounds \/ count <= prev + 1
        THEN phase' = "finalize" /\ todo' = Finalize /\ UNCHANGED <<rnd, prev>>
        ELSE rnd' = rnd + 1 /\ prev' = count /\ todo' = Cycle /\ UNCHANGED phase
  /\ UNCHANGED <<hostVars, urlVars>>

\* Another round, unless it was the last or stored as many names as the one before.
EndRound ==
  /\ phase = "cycle" /\ todo = << >>
  /\ LET count == Cardinality(Known)
     IN IF rnd = Rounds \/ count = prev
        THEN phase' = "finalize" /\ todo' = Finalize /\ UNCHANGED <<rnd, prev>>
        ELSE rnd' = rnd + 1 /\ prev' = count /\ todo' = Cycle /\ UNCHANGED phase
  /\ UNCHANGED <<hostVars, urlVars>>

Finish ==
  /\ phase \in {"single", "finalize"} /\ todo = << >>
  /\ phase' = "done"
  /\ UNCHANGED <<rnd, prev, todo, hostVars, urlVars>>

HostStages ==
  \/ RunHosts("asset_discovery", AssetDiscovery)
  \/ RunHosts("github_subdomains", GithubSubdomains)
  \/ RunHosts("ai_subwords", AiSubwords)
  \/ RunHosts("dns_resolve", DnsResolve)
  \/ RunHosts("alive_detection", AliveDetection)
  \/ RunHosts("permutation", Permutation)
  \/ RunHosts("tls_intel", TlsIntel)
  \/ RunHosts("vhost_discovery", VhostDiscovery)

UrlStages ==
  \/ Run("github_secrets", GithubSecrets)
  \/ Run("api_discovery", ApiDiscovery)
  \/ Run("crawling", Crawling)
  \/ Run("historical_urls", HistoricalUrls)
  \/ Run("nuclei_scan", NucleiScan)
  \/ Run("tech_fingerprint", TechFingerprint)
  \/ Run("ai_dirwords", AiDirwords)
  \/ Run("dir_bruteforce", DirBruteforce)
  \/ Run("url_probe", UrlProbe)
  \/ Run("js_fetch", JsFetch)
  \/ Run("normalization", Normalization)
  \/ Run("ai_params", AiParams)
  \/ Run("content_subdomains", ContentSubdomains)
  \/ Run("js_intel", JsIntel)
  \/ Run("secret_scan", SecretScan)
  \/ Run("param_discovery", ParamDiscovery)
  \/ Run("triage", Triage)

Next == HostStages \/ UrlStages \/ EndRound \/ Finish

Spec == ReconInit /\ [][Next]_vars

-----------------------------------------------------------------------------
\* "Everything derived from the store is scope-gated" (ToolModule.run), and so is what
\* each stage stores, though each filters by itself and two do not: names, hosts and urls
\* are in scope, and a stage sends requests to such hosts or to the targets only.
InScopeOnly ==
  /\ \A n \in Known \cup hosts \cup {u.host : u \in urls} : IsAllowed(scope, n)
  /\ \A n \in contacted : IsAllowed(scope, n) \/ n \in Seeds

\* Guessed names are assets only if they resolve to more than the wildcard records of the
\* seeds whose synthetic names every batch heard of: dns_resolve and permutation filter apart
\* from each other, each by the answers of its own batch, and a name once stored stays.
\* (Where such an answer was lost, or wildcard_filter is off, a guess need only resolve.)
GuessesAreReal ==
  \A n \in Known :
    \/ n \in Seeds \cup Passive \cup Leaked
    \/ \E h \in Known \cup Seeds : n \in Certificate[h]
    \/ \E p \in DOMAIN Site : n \in Site[p].mentions
    \/ ~(Resolve(n) \subseteq CatchAll(Seeds \ unheard))

\* "Round 2 re-feeds newly found subdomains" until nothing is new: when the loop stops
\* because the count did, every name known then has been given to the probe, however
\* late in a round, and by whatever stage, it was found.
ConvergedMeansProbed ==
  phase \in {"finalize", "done"} /\ rnd < Rounds /\ "alive_detection" \notin Failing =>
    \A n \in Known : Reachable(n) => n \in probed

\* When a scan is over and normalization did not fail, every url, also those that stages after normalization add, is
\* linked to a stored host, as the curated context and the graph need.
UrlsBelong ==
  phase = "done" /\ "normalization" \notin Failing =>
    \A u \in urls : <<"belongs_to", u>> \in edges /\ u.host \in hosts

\* Unless a stage on its way fails, a secret in a stored body reaches the list of leads that the AI context must include.
SecretsAreLeads ==
  phase = "done" /\ {"secret_scan", "triage"} \cap Failing = {} =>
    \A u \in index : Content(u).secret => u \in leads
==============================================================================
