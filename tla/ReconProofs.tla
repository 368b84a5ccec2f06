----------------------------- MODULE ReconProofs -----------------------------
(***************************************************************************)
(* Proofs about the scope and about a scan, for every engagement and every   *)
(* world: the agent's predicate against that of the stages, that nothing out *)
(* of scope is stored or asked, and that guessed names are real.             *)
(***************************************************************************)
EXTENDS Recon, ListProofs, FiniteSetTheorems, TLAPS

\* The agent's predicate is the stricter one, and the two differ only where nothing asks
\* for the name (agent_http.py, _host_allowed).
THEOREM AgentPredicateIsStricter ==
  ASSUME NEW engagement, NEW name
  PROVE  AgentIsStricter(engagement, name)
BY DEF AgentIsStricter, HostAllowed, IsAllowed, MatchesAny

\* A request that passes AgentHttp._refuse is within budget, methods and engagement.
THEOREM PassedRequestsAreSafe ==
  ASSUME NEW engagement, NEW left \in Int, NEW allowed, NEW req
  PROVE  RequestsAreSafe(engagement, left, allowed, req)
<1>1. HostAllowed(engagement, req.host) => IsAllowed(engagement, req.host)
  BY AgentPredicateIsStricter DEF AgentIsStricter
<1>2. SUFFICES ASSUME Refusal(engagement, left, allowed, req) = "none"
               PROVE  left > 0 /\ req.method \in allowed /\ ~req.destructive
                        /\ HostAllowed(engagement, req.host)
  BY <1>1 DEF RequestsAreSafe
<1>. QED  BY <1>2 DEF Refusal

-----------------------------------------------------------------------------
\* What names may be: known to a source, seen in a certificate or a body, or resolving to
\* more than the wildcard records that every batch has heard of.
Real(name, known, lost) ==
  \/ name \in Seeds \cup Passive \cup Leaked
  \/ \E h \in known \cup Seeds : name \in Certificate[h]
  \/ \E p \in DOMAIN Site : name \in Site[p].mentions
  \/ ~(Resolve(name) \subseteq CatchAll(Seeds \ lost))

Allowed(name) == IsAllowed(scope, name)

\* The inductive invariant: both properties, and that stored bodies are of allowed pages
\* that are served, on which the stages that mine bodies rely without asking again.
ReconInv ==
  /\ \A n \in Known : Allowed(n) /\ Real(n, Known, unheard)
  /\ \A h \in hosts : Allowed(h)
  /\ \A u \in urls : Allowed(u.host)
  /\ \A u \in index : Allowed(u.host) /\ Served(u)
  /\ \A n \in contacted : Allowed(n) \/ n \in Seeds

\* A tool reports nothing but what there is, and a cap adds nothing.
LEMMA AnswersWithin ==
  ASSUME NEW stage, NEW found, NEW answer \in Answers(stage, found)
  PROVE  answer \subseteq found
BY DEF Answers

LEMMA CappedWithin ==
  ASSUME NEW S, NEW k, NEW T \in Capped(S, k)
  PROVE  T \subseteq S
BY DEF Capped

LEMMA InScopeAllowed ==
  ASSUME NEW found, NEW n \in InScope(found)
  PROVE  n \in found /\ Allowed(n)
BY DEF InScope, Allowed

LEMMA UrlsInScopeAllowed ==
  ASSUME NEW found, NEW u \in UrlsInScope(found)
  PROVE  u \in found /\ Allowed(u.host)
BY DEF UrlsInScope, Allowed

LEMMA NamesAfter ==
  ASSUME NEW found
  PROVE  DOMAIN WithNames(found) = Known \cup found /\ DOMAIN WithAddresses(found) = Known \cup found
BY DEF WithNames, WithAddresses

\* What is real stays so: names are only added, and ever fewer records have always been heard of.
LEMMA RealStays ==
  ASSUME NEW n, NEW known, NEW lost, Real(n, known, lost),
         NEW more, known \subseteq more, NEW worse, lost \subseteq worse
  PROVE  Real(n, more, worse)
<1>1. CatchAll(Seeds \ worse) \subseteq CatchAll(Seeds \ lost)
  BY DEF CatchAll
<1>. QED  BY <1>1 DEF Real

\* The invariant survives a step that only adds what is allowed and real.
LEMMA Additions ==
  ASSUME ReconInv,
         unheard \subseteq unheard',
         NEW added, Known' = Known \cup added,
         \A n \in added : Allowed(n) /\ Real(n, Known, unheard'),
         NEW live, hosts' = hosts \cup live, \A h \in live : Allowed(h),
         NEW shown, urls' = urls \cup shown, \A u \in shown : Allowed(u.host),
         \A u \in index' : Allowed(u.host) /\ Served(u),
         \A n \in contacted' : Allowed(n) \/ n \in Seeds
  PROVE  ReconInv'
<1>1. \A n \in Known : Real(n, Known, unheard)
  BY DEF ReconInv
<1>2. \A n \in Known' : Real(n, Known', unheard')
  BY <1>1, RealStays
<1>3. \A n \in Known' : Allowed(n)
  BY DEF ReconInv
<1>4. \A h \in hosts' : Allowed(h)
  BY DEF ReconInv
<1>5. \A u \in urls' : Allowed(u.host)
  BY DEF ReconInv
<1>. QED  BY <1>2, <1>3, <1>4, <1>5 DEF ReconInv, Allowed
-----------------------------------------------------------------------------
\* One lemma per stage.  First those that store names: their handlers filter by scope, and
\* what they add is known to a source or resolves.
LEMMA AssetDiscoveryStep ==
  ASSUME ReconInv, AssetDiscovery, UNCHANGED urlVars  PROVE ReconInv'
<1>1. PICK found \in Answers("asset_discovery", Passive) :
        names' = IF Enumerating THEN WithNames(InScope(found \cup Seeds)) ELSE names
  BY DEF AssetDiscovery
<1>2. \A n \in InScope(found \cup Seeds) : Allowed(n) /\ Real(n, Known, unheard)
  BY <1>1, AnswersWithin, InScopeAllowed DEF Real
<1>3. CASE Enumerating
  <2>1. Known' = Known \cup InScope(found \cup Seeds)
    BY <1>1, <1>3, NamesAfter DEF Known
  <2>. QED  BY <2>1, <1>2, Additions DEF AssetDiscovery, urlVars, ReconInv
<1>4. CASE ~Enumerating
  <2>1. Known' = Known \cup {}
    BY <1>1, <1>4 DEF Known
  <2>. QED  BY <2>1, Additions DEF AssetDiscovery, urlVars, ReconInv
<1>. QED  BY <1>3, <1>4

LEMMA GithubSubdomainsStep ==
  ASSUME ReconInv, GithubSubdomains, UNCHANGED urlVars  PROVE ReconInv'
<1>1. PICK found \in Answers("github_subdomains", Leaked) : names' = WithNames(InScope(found))
  BY DEF GithubSubdomains
<1>2. \A n \in InScope(found) : Allowed(n) /\ Real(n, Known, unheard)
  BY <1>1, AnswersWithin, InScopeAllowed DEF Real
<1>3. Known' = Known \cup InScope(found)
  BY <1>1, NamesAfter DEF Known
<1>. QED  BY <1>2, <1>3, Additions DEF GithubSubdomains, urlVars, ReconInv

\* What a batch adds resolves to more than it and all batches before heard of the wildcards.
LEMMA ResolutionAdds ==
  ASSUME NEW stage, NEW asked, NEW synthetic, Resolution(stage, asked, synthetic)
  PROVE  /\ unheard \subseteq unheard'
         /\ \E found : /\ found \subseteq asked
                       /\ Known' = Known \cup InScope(found)
                       /\ \A n \in found : Real(n, Known, unheard')
<1>1. PICK heard \in Answers(stage, synthetic) :
        /\ \E found \in Answers(stage, Refined(asked, heard)) : names' = WithAddresses(InScope(found))
        /\ unheard' = unheard \cup (Seeds \ heard)
  BY DEF Resolution
<1>2. PICK found \in Answers(stage, Refined(asked, heard)) : names' = WithAddresses(InScope(found))
  BY <1>1
<1>3. found \subseteq Refined(asked, heard)
  BY <1>2, AnswersWithin
<1>4. CatchAll(Seeds \ unheard') \subseteq CatchAll(heard)
  BY <1>1 DEF CatchAll
<1>5. \A n \in found : n \in asked /\ Real(n, Known, unheard')
  BY <1>3, <1>4 DEF Refined, Real
<1>6. Known' = Known \cup InScope(found)
  BY <1>2, NamesAfter DEF Known
<1>. QED  BY <1>1, <1>5, <1>6

LEMMA DnsResolveStep ==
  ASSUME ReconInv, DnsResolve, UNCHANGED urlVars  PROVE ReconInv'
<1>1. PICK candidates : Resolution("dns_resolve", InScope(Known \cup Seeds) \cup candidates,
                                   IF WildcardFilter THEN Seeds ELSE {})
  BY DEF DnsResolve
<1>2. PICK found : /\ Known' = Known \cup InScope(found)
                   /\ \A n \in found : Real(n, Known, unheard')
  BY <1>1, ResolutionAdds
<1>3. \A n \in InScope(found) : Allowed(n) /\ Real(n, Known, unheard')
  BY <1>2, InScopeAllowed
<1>. QED  BY <1>1, <1>2, <1>3, ResolutionAdds, Additions DEF DnsResolve, urlVars, ReconInv

LEMMA PermutationStep ==
  ASSUME ReconInv, Permutation, UNCHANGED urlVars  PROVE ReconInv'
<1>1. CASE HasWildcard(scope)
  <2>1. PICK asked : Resolution("permutation", asked, Seeds)
    BY <1>1 DEF Permutation
  <2>2. PICK found : /\ Known' = Known \cup InScope(found)
                     /\ \A n \in found : Real(n, Known, unheard')
    BY <2>1, ResolutionAdds
  <2>3. \A n \in InScope(found) : Allowed(n) /\ Real(n, Known, unheard')
    BY <2>2, InScopeAllowed
  <2>4. unheard \subseteq unheard'
    BY <2>1, ResolutionAdds
  <2>5. hosts' = hosts /\ contacted' = {} /\ UNCHANGED urlVars
    BY DEF Permutation
  <2>. QED  BY <2>2, <2>3, <2>4, <2>5, Additions DEF urlVars, ReconInv
<1>2. CASE ~HasWildcard(scope)
  <2>1. Known' = Known \cup {}
    BY <1>2 DEF Permutation, Known
  <2>. QED  BY <1>2, <2>1, Additions DEF Permutation, urlVars, ReconInv
<1>. QED  BY <1>1, <1>2

LEMMA TlsIntelStep ==
  ASSUME ReconInv, TlsIntel, UNCHANGED urlVars  PROVE ReconInv'
<1>1. PICK found \in Answers("tls_intel", Sans(contacted')) : names' = WithNames(InScope(found))
  BY DEF TlsIntel
<1>2. \A n \in contacted' : n \in Known /\ Allowed(n)
  BY InScopeAllowed DEF TlsIntel
<1>3. \A n \in Sans(contacted') : Real(n, Known, unheard)
  BY <1>2 DEF Sans, Real
<1>4. \A n \in InScope(found) : Allowed(n) /\ Real(n, Known, unheard)
  BY <1>1, <1>3, AnswersWithin, InScopeAllowed
<1>5. Known' = Known \cup InScope(found)
  BY <1>1, NamesAfter DEF Known
<1>. QED  BY <1>2, <1>4, <1>5, Additions DEF TlsIntel, urlVars, ReconInv

LEMMA ContentSubdomainsStep ==
  ASSUME ReconInv, ContentSubdomains  PROVE ReconInv'
<1>. DEFINE mentioned == UNION {Content(u).mentions : u \in index}
            below == {n \in mentioned : \E s \in Seeds : Below(n, s)}
<1>1. names' = WithNames(InScope(below))
  BY DEF ContentSubdomains
<1>2. \A n \in mentioned : Real(n, Known, unheard)
  BY DEF ReconInv, Served, Content, Real
<1>3. \A n \in InScope(below) : Allowed(n) /\ Real(n, Known, unheard)
  BY <1>2, InScopeAllowed
<1>4. Known' = Known \cup InScope(below)
  BY <1>1, NamesAfter DEF Known
<1>. QED  BY <1>3, <1>4, Additions DEF ContentSubdomains, urlVars, ReconInv
-----------------------------------------------------------------------------
\* The stages that store hosts.
LEMMA AliveDetectionStep ==
  ASSUME ReconInv, AliveDetection, UNCHANGED urlVars  PROVE ReconInv'
<1>1. \A n \in probed' : Allowed(n)
  BY InScopeAllowed DEF AliveDetection
<1>2. PICK live \in Answers("alive_detection", probed' \cap Serving) : hosts' = hosts \cup live
  BY DEF AliveDetection
<1>3. \A h \in live : Allowed(h)
  BY <1>1, <1>2, AnswersWithin
<1>4. Known' = Known \cup {} /\ contacted' = probed'
  BY DEF AliveDetection, Known
<1>. QED  BY <1>1, <1>2, <1>3, <1>4, Additions DEF AliveDetection, urlVars, ReconInv

LEMMA VhostDiscoveryStep ==
  ASSUME ReconInv, VhostDiscovery, UNCHANGED urlVars  PROVE ReconInv'
<1>1. Known' = Known \cup {} /\ contacted' \subseteq Seeds
  BY DEF VhostDiscovery, Known
<1>2. PICK found : hosts' = hosts \cup InScope(found)
  <2>1. CASE Enumerating
    BY <2>1 DEF VhostDiscovery
  <2>2. CASE ~Enumerating
    <3>1. hosts' = hosts \cup InScope({})
      BY <2>2 DEF VhostDiscovery, InScope
    <3>. QED  BY <3>1
  <2>. QED  BY <2>1, <2>2
<1>3. \A h \in InScope(found) : Allowed(h)
  BY InScopeAllowed
<1>. QED  BY <1>1, <1>2, <1>3, Additions DEF VhostDiscovery, urlVars, ReconInv

LEMMA NormalizationStep ==
  ASSUME ReconInv, Normalization  PROVE ReconInv'
<1>1. Known' = Known \cup {}
  BY DEF Normalization, Known
<1>2. \A h \in {u.host : u \in urls} : Allowed(h)
  BY DEF ReconInv
<1>. QED  BY <1>1, <1>2, Additions DEF Normalization, urlVars, ReconInv

\* The stages that store urls.
LEMMA HostsInScopeAllowed ==
  ASSUME NEW h \in HostsInScope  PROVE h \in hosts /\ Allowed(h)
BY InScopeAllowed DEF HostsInScope

\* What Store adds is allowed if its urls are.
LEMMA StoreStep ==
  ASSUME ReconInv, NEW found, Store(found), \A u \in found : Allowed(u.host),
         UNCHANGED <<names, hosts, index, unheard>>,
         \A n \in contacted' : Allowed(n) \/ n \in Seeds
  PROVE  ReconInv'
<1>1. Known' = Known \cup {}
  BY DEF Known
<1>. QED  BY <1>1, Additions DEF Store, ReconInv

LEMMA CrawlingStep ==
  ASSUME ReconInv, Crawling  PROVE ReconInv'
<1>1. PICK found : Store(UrlsInScope(found))
  BY DEF Crawling
<1>. QED  BY <1>1, UrlsInScopeAllowed, HostsInScopeAllowed, StoreStep DEF Crawling

LEMMA HistoricalUrlsStep ==
  ASSUME ReconInv, HistoricalUrls  PROVE ReconInv'
<1>1. PICK found : Store(UrlsInScope(found))
  BY DEF HistoricalUrls
<1>. QED  BY <1>1, UrlsInScopeAllowed, StoreStep DEF HistoricalUrls

LEMMA ApiDiscoveryStep ==
  ASSUME ReconInv, ApiDiscovery  PROVE ReconInv'
<1>1. PICK found : Store(UrlsInScope(found))
  BY DEF ApiDiscovery
<1>2. \A n \in contacted' : Allowed(n)
  BY CappedWithin, HostsInScopeAllowed DEF ApiDiscovery
<1>. QED  BY <1>1, <1>2, UrlsInScopeAllowed, StoreStep DEF ApiDiscovery

LEMMA DirBruteforceStep ==
  ASSUME ReconInv, DirBruteforce  PROVE ReconInv'
<1>1. PICK found : Store(UrlsInScope(found))
  BY DEF DirBruteforce
<1>. QED  BY <1>1, UrlsInScopeAllowed, HostsInScopeAllowed, StoreStep DEF DirBruteforce

LEMMA ParamDiscoveryStep ==
  ASSUME ReconInv, ParamDiscovery  PROVE ReconInv'
<1>1. PICK asked \in Capped(Endpoints, MaxEndpoints) :
        /\ contacted' = {u.host : u \in asked}
        /\ \E found \in Answers("param_discovery", {u \in {Baked(v) : v \in asked} : u.params # {}}) :
             Store(UrlsInScope(Stripped(found)))
  BY DEF ParamDiscovery
<1>2. PICK found : Store(UrlsInScope(Stripped(found)))
  BY <1>1
<1>3. \A u \in Endpoints : Allowed(u.host)
  <2>1. SUFFICES ASSUME NEW v \in UrlsInScope(urls)  PROVE Allowed(Url(v.host, v.path, {}).host)
    BY DEF Endpoints
  <2>. QED  BY UrlsInScopeAllowed DEF Url
<1>4. \A n \in contacted' : Allowed(n)
  BY <1>1, <1>3, CappedWithin
<1>. QED  BY <1>2, <1>4, UrlsInScopeAllowed, StoreStep DEF ParamDiscovery

\* js_intel does not filter: that endpoints of a stored body are in scope rests on what
\* js_fetch asked for.
LEMMA JsIntelStep ==
  ASSUME ReconInv, JsIntel  PROVE ReconInv'
<1>. DEFINE found == UNION {{Url(u.host, p, {}) : p \in Content(u).endpoints} : u \in index}
<1>1. ASSUME NEW v \in found  PROVE Allowed(v.host)
  BY <1>1 DEF ReconInv, Url
<1>2. Store(found)
  BY DEF JsIntel
<1>. HIDE DEF found
<1>. QED  BY <1>1, <1>2, StoreStep DEF JsIntel

\* The stages that ask or fetch without storing assets.
LEMMA NothingStored ==
  ASSUME ReconInv, UNCHANGED <<names, hosts, urls, unheard>>,
         \A u \in index' : Allowed(u.host) /\ Served(u),
         \A n \in contacted' : Allowed(n) \/ n \in Seeds
  PROVE  ReconInv'
<1>1. Known' = Known /\ hosts' = hosts /\ urls' = urls
  BY DEF Known
<1>2. \A n \in Known' : Allowed(n) /\ Real(n, Known', unheard')
  BY <1>1 DEF ReconInv
<1>. QED  BY <1>1, <1>2 DEF ReconInv, Allowed

LEMMA UrlProbeStep ==
  ASSUME ReconInv, UrlProbe  PROVE ReconInv'
<1>1. \A n \in contacted' : Allowed(n)
  BY UrlsInScopeAllowed DEF UrlProbe
<1>. QED  BY <1>1, NothingStored DEF UrlProbe, ReconInv

LEMMA JsFetchStep ==
  ASSUME ReconInv, JsFetch  PROVE ReconInv'
<1>1. PICK asked \in Capped({u \in urls : Fetchable(u)}, MaxBodies) :
        /\ contacted' = {u.host : u \in asked}
        /\ IF asked = {} THEN UNCHANGED index
           ELSE index' \in Answers("js_fetch", {u \in asked : Content(u).status # "gone"})
  BY DEF JsFetch
<1>2. \A u \in asked : Allowed(u.host) /\ Served(u)
  BY <1>1, CappedWithin DEF Fetchable, Allowed
<1>3. \A u \in index' : Allowed(u.host) /\ Served(u)
  <2>1. CASE asked = {}
    BY <1>1, <2>1 DEF ReconInv
  <2>2. CASE asked # {}
    BY <1>1, <1>2, <2>2, AnswersWithin
  <2>. QED  BY <2>1, <2>2
<1>. QED  BY <1>1, <1>2, <1>3, NothingStored DEF JsFetch

LEMMA NucleiScanStep ==
  ASSUME ReconInv, NucleiScan  PROVE ReconInv'
<1>1. \A n \in contacted' : Allowed(n)
  BY CappedWithin, HostsInScopeAllowed DEF NucleiScan
<1>. QED  BY <1>1, NothingStored DEF NucleiScan, urlVars, ReconInv

LEMMA TechFingerprintStep ==
  ASSUME ReconInv, TechFingerprint  PROVE ReconInv'
BY HostsInScopeAllowed, NothingStored DEF TechFingerprint, urlVars, ReconInv

LEMMA SuggestStep ==
  ASSUME ReconInv, NEW seam, NEW observed, NEW words, Suggest(seam, observed, words), UNCHANGED urlVars
  PROVE  ReconInv'
BY NothingStored DEF Suggest, urlVars, ReconInv

LEMMA SecretScanStep ==
  ASSUME ReconInv, SecretScan \/ GithubSecrets  PROVE ReconInv'
BY NothingStored DEF SecretScan, GithubSecrets, urlVars, ReconInv

LEMMA TriageStep ==
  ASSUME ReconInv, Triage  PROVE ReconInv'
BY NothingStored DEF Triage, ReconInv

LEMMA IdleStep ==
  ASSUME ReconInv, UNCHANGED <<hostVars, urlVars>>  PROVE ReconInv'
BY NothingStored DEF hostVars, urlVars, ReconInv
-----------------------------------------------------------------------------
LEMMA HostStagesStep ==
  ASSUME ReconInv, HostStages  PROVE ReconInv'
<1>1. CASE RunHosts("asset_discovery", AssetDiscovery)
  BY <1>1, AssetDiscoveryStep, IdleStep DEF RunHosts, Run
<1>2. CASE RunHosts("github_subdomains", GithubSubdomains)
  BY <1>2, GithubSubdomainsStep, IdleStep DEF RunHosts, Run
<1>3. CASE RunHosts("ai_subwords", AiSubwords)
  BY <1>3, SuggestStep, IdleStep DEF RunHosts, Run, AiSubwords
<1>4. CASE RunHosts("dns_resolve", DnsResolve)
  BY <1>4, DnsResolveStep, IdleStep DEF RunHosts, Run
<1>5. CASE RunHosts("alive_detection", AliveDetection)
  BY <1>5, AliveDetectionStep, IdleStep DEF RunHosts, Run
<1>6. CASE RunHosts("permutation", Permutation)
  BY <1>6, PermutationStep, IdleStep DEF RunHosts, Run
<1>7. CASE RunHosts("tls_intel", TlsIntel)
  BY <1>7, TlsIntelStep, IdleStep DEF RunHosts, Run
<1>8. CASE RunHosts("vhost_discovery", VhostDiscovery)
  BY <1>8, VhostDiscoveryStep, IdleStep DEF RunHosts, Run
<1>. QED  BY <1>1, <1>2, <1>3, <1>4, <1>5, <1>6, <1>7, <1>8 DEF HostStages

LEMMA UrlStagesStep ==
  ASSUME ReconInv, UrlStages  PROVE ReconInv'
<1>1. CASE Run("github_secrets", GithubSecrets)
  BY <1>1, SecretScanStep, IdleStep DEF Run
<1>2. CASE Run("api_discovery", ApiDiscovery)
  BY <1>2, ApiDiscoveryStep, IdleStep DEF Run
<1>3. CASE Run("crawling", Crawling)
  BY <1>3, CrawlingStep, IdleStep DEF Run
<1>4. CASE Run("historical_urls", HistoricalUrls)
  BY <1>4, HistoricalUrlsStep, IdleStep DEF Run
<1>5. CASE Run("nuclei_scan", NucleiScan)
  BY <1>5, NucleiScanStep, IdleStep DEF Run
<1>6. CASE Run("tech_fingerprint", TechFingerprint)
  BY <1>6, TechFingerprintStep, IdleStep DEF Run
<1>7. CASE Run("ai_dirwords", AiDirwords)
  BY <1>7, SuggestStep, IdleStep DEF Run, AiDirwords
<1>8. CASE Run("dir_bruteforce", DirBruteforce)
  BY <1>8, DirBruteforceStep, IdleStep DEF Run
<1>9. CASE Run("url_probe", UrlProbe)
  BY <1>9, UrlProbeStep, IdleStep DEF Run
<1>10. CASE Run("js_fetch", JsFetch)
  BY <1>10, JsFetchStep, IdleStep DEF Run
<1>11. CASE Run("normalization", Normalization)
  BY <1>11, NormalizationStep, IdleStep DEF Run
<1>12. CASE Run("ai_params", AiParams)
  BY <1>12, SuggestStep, IdleStep DEF Run, AiParams
<1>13. CASE Run("content_subdomains", ContentSubdomains)
  BY <1>13, ContentSubdomainsStep, IdleStep DEF Run
<1>14. CASE Run("js_intel", JsIntel)
  BY <1>14, JsIntelStep, IdleStep DEF Run
<1>15. CASE Run("secret_scan", SecretScan)
  BY <1>15, SecretScanStep, IdleStep DEF Run
<1>16. CASE Run("param_discovery", ParamDiscovery)
  BY <1>16, ParamDiscoveryStep, IdleStep DEF Run
<1>17. CASE Run("triage", Triage)
  BY <1>17, TriageStep, IdleStep DEF Run
<1>. QED  BY <1>1, <1>2, <1>3, <1>4, <1>5, <1>6, <1>7, <1>8, <1>9, <1>10, <1>11, <1>12, <1>13,
             <1>14, <1>15, <1>16, <1>17 DEF UrlStages

\* The inductive invariant of a scan, whatever the tools answer, which stages fail and in
\* which order they run.
THEOREM ReconInvariant == Spec => []ReconInv
<1>1. ReconInit => ReconInv
  BY DEF ReconInit, Init, InitContent, ReconInv, Known
<1>2. ReconInv /\ [Next]_vars => ReconInv'
  <2>1. SUFFICES ASSUME ReconInv, [Next]_vars  PROVE ReconInv'
    OBVIOUS
  <2>2. CASE HostStages
    BY <2>1, <2>2, HostStagesStep
  <2>3. CASE UrlStages
    BY <2>1, <2>3, UrlStagesStep
  <2>4. CASE EndRound \/ Finish
    BY <2>1, <2>4, IdleStep DEF EndRound, Finish
  <2>5. CASE UNCHANGED vars
    BY <2>1, <2>5, IdleStep DEF vars
  <2>. QED  BY <2>1, <2>2, <2>3, <2>4, <2>5 DEF Next
<1>. QED  BY <1>1, <1>2, PTL DEF Spec

\* "Everything derived from the store is scope-gated" (modules/base.py): for every scope and
\* every answer of the tools.
THEOREM ScanStaysInScope == Spec => []InScopeOnly
<1>1. ReconInv => InScopeOnly
  BY DEF ReconInv, InScopeOnly, Allowed
<1>. QED  BY <1>1, ReconInvariant, PTL

\* No name that only the wildcard record answers for becomes an asset by being guessed
\* (refine_records of dns_resolve and permutation).
THEOREM GuessesAreFiltered == Spec => []GuessesAreReal
<1>1. ReconInv => GuessesAreReal
  BY DEF ReconInv, GuessesAreReal, Real
<1>. QED  BY <1>1, ReconInvariant, PTL

-----------------------------------------------------------------------------
\* What the loop does with the store.  First the lists of stages: what comes after what.
LEMMA OrderFacts ==
  ASSUME NEW S
  PROVE  /\ Filtered(Order, S) \in Seq(STRING)
         /\ Elements(Filtered(Order, S)) = Elements(Order) \cap S
         /\ \A stage, T : NothingAfter(Order, stage, T) => NothingAfter(Filtered(Order, S), stage, T)
<1>1. Order \in Seq(STRING)
  BY ScanAssumption
<1>2. ASSUME NEW stage, NEW T, NothingAfter(Order, stage, T)
      PROVE  NothingAfter(Filtered(Order, S), stage, T)
  <2>. DEFINE f == Filtered(Order, S)
  <2>1. \A i, j \in 1 .. Len(f) : i < j =>
          \E k, l \in 1 .. Len(Order) : k < l /\ Order[k] = f[i] /\ Order[l] = f[j]
    BY <1>1, FilteredOrder
  <2>. HIDE DEF f
  <2>2. NothingAfter(f, stage, T)
    BY <1>2, <2>1 DEF NothingAfter
  <2>. QED  BY <2>2 DEF f
<1>. QED  BY <1>1, <1>2, FilteredType, FilteredFacts

\* A stage that runs leaves the others; if it is the one that nothing of T may come after,
\* nothing of T is left.
LEMMA TailFacts ==
  ASSUME NEW s \in Seq(STRING), s # << >>
  PROVE  /\ Tail(s) \in Seq(STRING)
         /\ Elements(s) = {Head(s)} \cup Elements(Tail(s))
         /\ \A stage, T : NothingAfter(s, stage, T) => NothingAfter(Tail(s), stage, T)
         /\ \A T : NothingAfter(s, Head(s), T) => Elements(Tail(s)) \cap T = {}
<1>. DEFINE t == Tail(s)
<1>1. /\ t \in Seq(STRING) /\ Len(s) \in Nat \ {0} /\ Len(t) = Len(s) - 1 /\ Head(s) = s[1]
      /\ \A i \in 1 .. Len(t) : t[i] = s[i + 1]
  BY HeadTailProperties
<1>. HIDE DEF t
<1>2. ASSUME NEW stage, NEW T, NothingAfter(s, stage, T)  PROVE NothingAfter(t, stage, T)
  <2>1. ASSUME NEW i \in 1 .. Len(t), NEW j \in 1 .. Len(t), i < j, t[i] = stage  PROVE t[j] \notin T
    <3>1. i + 1 \in 1 .. Len(s) /\ j + 1 \in 1 .. Len(s) /\ i + 1 < j + 1
      BY <1>1, <2>1
    <3>2. t[i] = s[i + 1] /\ t[j] = s[j + 1]
      BY <1>1
    <3>. QED  BY <1>2, <2>1, <3>1, <3>2 DEF NothingAfter
  <2>. QED  BY <2>1 DEF NothingAfter
<1>3. ASSUME NEW T, NothingAfter(s, Head(s), T)  PROVE Elements(t) \cap T = {}
  <2>1. ASSUME NEW i \in 1 .. Len(t)  PROVE t[i] \notin T
    <3>1. 1 \in 1 .. Len(s) /\ i + 1 \in 1 .. Len(s) /\ 1 < i + 1
      BY <1>1
    <3>. QED  BY <1>1, <1>3, <3>1 DEF NothingAfter
  <2>. QED  BY <2>1 DEF Elements
<1>4. Elements(s) = {Head(s)} \cup Elements(t)
  BY ElementsOfTail DEF t
<1>. QED  BY <1>1, <1>2, <1>3, <1>4 DEF t

LEMMA EmptyList == Elements(<< >>) = {}
BY DEF Elements

Closing == phase \in {"single", "finalize"}

\* The shape of the loop: the names are complete once the last stages run.
LoopInv ==
  /\ phase \in {"single", "cycle", "finalize", "done"}
  /\ todo \in Seq(STRING)
  /\ rnd \in Nat /\ prev \in Int
  /\ phase = "single" => rnd = Rounds
  /\ phase = "finalize" => Elements(todo) \cap Namers = {}
  /\ phase = "done" => todo = << >>

\* The turn of the stage at the head of the list.
LEMMA TurnFacts ==
  ASSUME HostStages \/ UrlStages
  PROVE  todo # << >> /\ todo' = Tail(todo) /\ UNCHANGED <<phase, rnd, prev>>
BY DEF HostStages, UrlStages, RunHosts, Run


\* Names are of the world, have no addresses or those the world gives, and stay.
NamesInv ==
  /\ Known \subseteq Name
  /\ \A n \in Known : names[n] \in {{}, Resolve(n)}
  /\ "ai_subwords" \in DOMAIN seams /\ seams["ai_subwords"] \subseteq AiWords

NamesKept ==
  /\ Known \subseteq Known'
  /\ \A n \in Known : names'[n] \in {names[n], Resolve(n)}

LEMMA KnownIsFinite ==
  ASSUME NamesInv  PROVE IsFiniteSet(Known) /\ Cardinality(Known) \in Nat
BY WorldAssumption, FS_Subset, FS_CardinalityType DEF NamesInv

LEMMA NamesAdded ==
  ASSUME NamesInv, NEW found, found \subseteq Name, seams' = seams,
         names' = WithNames(found) \/ names' = WithAddresses(found)
  PROVE  NamesInv' /\ NamesKept
<1>1. /\ Known' = Known \cup found
      /\ \A n \in Known \cup found : names'[n] \in {{}, Resolve(n)} \cup (IF n \in Known THEN {names[n]} ELSE {})
      /\ \A n \in Known : names'[n] \in {names[n], Resolve(n)}
  BY NamesAfter DEF Known, WithNames, WithAddresses, NamesInv
<1>2. \A n \in Known' : names'[n] \in {{}, Resolve(n)}
  BY <1>1 DEF NamesInv
<1>. QED  BY <1>1, <1>2 DEF NamesInv, NamesKept, Resolve

LEMMA NamesIdle ==
  ASSUME NamesInv, names' = names, seams' = seams  PROVE NamesInv' /\ NamesKept
BY DEF NamesInv, NamesKept, Known, Resolve

\* Labels of the wordlists are names, whether a model suggested them or not.
LEMMA LabelsAreNames ==
  ASSUME NamesInv
  PROVE  Labelled(Words \cup seams["ai_subwords"]) \cup Labelled(seams["ai_subwords"]) \subseteq Name
<1>1. \A L : L \subseteq Words \cup AiWords => Labelled(L) \subseteq Labelled(Words \cup AiWords)
  BY DEF Labelled
<1>. QED  BY <1>1, WorldAssumption DEF NamesInv

LEMMA InScopeWithin == \A found : InScope(found) \subseteq found
BY DEF InScope

LEMMA NamesAssetDiscovery ==
  ASSUME NamesInv, AssetDiscovery  PROVE NamesInv' /\ NamesKept
<1>1. PICK found \in Answers("asset_discovery", Passive) :
        names' = IF Enumerating THEN WithNames(InScope(found \cup Seeds)) ELSE names
  BY DEF AssetDiscovery
<1>2. InScope(found \cup Seeds) \subseteq Name
  BY <1>1, AnswersWithin, InScopeWithin, WorldAssumption
<1>. QED  BY <1>1, <1>2, NamesAdded, NamesIdle DEF AssetDiscovery

LEMMA NamesGithubSubdomains ==
  ASSUME NamesInv, GithubSubdomains  PROVE NamesInv' /\ NamesKept
<1>1. PICK found \in Answers("github_subdomains", Leaked) : names' = WithNames(InScope(found))
  BY DEF GithubSubdomains
<1>2. InScope(found) \subseteq Name
  BY <1>1, AnswersWithin, InScopeWithin, WorldAssumption
<1>. QED  BY <1>1, <1>2, NamesAdded DEF GithubSubdomains

LEMMA NamesResolution ==
  ASSUME NEW stage, NEW asked, NEW synthetic, Resolution(stage, asked, synthetic)
  PROVE  \E found : found \subseteq asked /\ names' = WithAddresses(InScope(found))
<1>1. PICK heard : \E found \in Answers(stage, Refined(asked, heard)) :
                     names' = WithAddresses(InScope(found))
  BY DEF Resolution
<1>2. PICK found \in Answers(stage, Refined(asked, heard)) : names' = WithAddresses(InScope(found))
  BY <1>1
<1>3. found \subseteq asked
  BY <1>2, AnswersWithin DEF Refined
<1>. QED  BY <1>2, <1>3

LEMMA NamesDnsResolve ==
  ASSUME NamesInv, DnsResolve  PROVE NamesInv' /\ NamesKept
<1>1. PICK candidates \in Candidates :
        Resolution("dns_resolve", InScope(Known \cup Seeds) \cup candidates,
                   IF WildcardFilter THEN Seeds ELSE {})
  BY DEF DnsResolve
<1>2. PICK found : /\ found \subseteq InScope(Known \cup Seeds) \cup candidates
                   /\ names' = WithAddresses(InScope(found))
  BY <1>1, NamesResolution
<1>3. candidates \subseteq Name
  BY LabelsAreNames DEF Candidates
<1>4. InScope(Known \cup Seeds) \subseteq Name
  BY InScopeWithin, WorldAssumption DEF NamesInv
<1>. QED  BY <1>2, <1>3, <1>4, InScopeWithin, NamesAdded DEF DnsResolve

LEMMA NamesPermutation ==
  ASSUME NamesInv, Permutation  PROVE NamesInv' /\ NamesKept
<1>1. Mutated \subseteq Name
  BY InScopeWithin, WorldAssumption DEF Mutated, NamesInv
<1>2. CASE HasWildcard(scope)
  <2>1. PICK asked \in Capped(Mutated \cup Labelled(seams["ai_subwords"]), MaxCandidates) :
          Resolution("permutation", asked, Seeds)
    BY <1>2 DEF Permutation
  <2>2. PICK found : found \subseteq asked /\ names' = WithAddresses(InScope(found))
    BY <2>1, NamesResolution
  <2>3. asked \subseteq Name
    BY <1>1, <2>1, CappedWithin, LabelsAreNames
  <2>. QED  BY <2>2, <2>3, InScopeWithin, NamesAdded DEF Permutation
<1>3. CASE ~HasWildcard(scope)
  BY <1>3, NamesIdle DEF Permutation
<1>. QED  BY <1>2, <1>3

LEMMA NamesTlsIntel ==
  ASSUME NamesInv, TlsIntel  PROVE NamesInv' /\ NamesKept
<1>1. PICK found \in Answers("tls_intel", Sans(InScope(Known))) : names' = WithNames(InScope(found))
  BY DEF TlsIntel
<1>2. Sans(InScope(Known)) \subseteq Name
  BY InScopeWithin, WorldAssumption DEF Sans, NamesInv
<1>. QED  BY <1>1, <1>2, AnswersWithin, InScopeWithin, NamesAdded DEF TlsIntel

LEMMA NamesContentSubdomains ==
  ASSUME ReconInv, NamesInv, ContentSubdomains  PROVE NamesInv' /\ NamesKept
<1>. DEFINE mentioned == UNION {Content(u).mentions : u \in index}
            below == {n \in mentioned : \E s \in Seeds : Below(n, s)}
<1>1. names' = WithNames(InScope(below)) /\ seams' = seams
  BY DEF ContentSubdomains
<1>2. mentioned \subseteq Name
  BY WorldAssumption DEF ReconInv, Served, Content
<1>3. InScope(below) \subseteq Name
  BY <1>2, InScopeWithin
<1>. HIDE DEF below
<1>. QED  BY <1>1, <1>3, NamesAdded

LEMMA NamesSuggest ==
  ASSUME NamesInv, NEW seam, NEW observed, NEW words, Suggest(seam, observed, words),
         seam = "ai_subwords" => words \subseteq AiWords
  PROVE  NamesInv' /\ NamesKept
<1>1. names' = names /\ (seams' = seams \/ seams' = [seams EXCEPT ![seam] = words])
  BY DEF Suggest
<1>2. "ai_subwords" \in DOMAIN seams' /\ seams'["ai_subwords"] \subseteq AiWords
  BY <1>1 DEF NamesInv
<1>. QED  BY <1>1, <1>2 DEF NamesInv, NamesKept, Known, Resolve

LEMMA NamesStep ==
  ASSUME ReconInv, NamesInv, [Next]_vars  PROVE NamesInv' /\ NamesKept
<1>1. CASE HostStages
  <2>1. CASE UNCHANGED hostVars
    BY <2>1, NamesIdle DEF hostVars
  <2>2. CASE AliveDetection \/ VhostDiscovery
    BY <2>2, NamesIdle DEF AliveDetection, VhostDiscovery
  <2>3. CASE AiSubwords
    BY <2>3, NamesSuggest DEF AiSubwords
  <2>. QED  BY <1>1, <2>1, <2>2, <2>3, NamesAssetDiscovery, NamesGithubSubdomains, NamesDnsResolve,
               NamesPermutation, NamesTlsIntel DEF HostStages, RunHosts, Run
<1>2. CASE UrlStages
  <2>1. CASE UNCHANGED hostVars
    BY <2>1, NamesIdle DEF hostVars
  <2>2. CASE AiDirwords \/ AiParams
    BY <2>2, NamesSuggest DEF AiDirwords, AiParams
  <2>3. CASE UNCHANGED <<names, seams>>
    BY <2>3, NamesIdle
  <2>4. CASE ContentSubdomains
    BY <2>4, NamesContentSubdomains
  <2>. QED  BY <1>2, <2>1, <2>2, <2>3, <2>4 DEF UrlStages, Run, GithubSecrets, ApiDiscovery, Crawling,
               HistoricalUrls, NucleiScan, TechFingerprint, DirBruteforce, UrlProbe, JsFetch,
               Normalization, JsIntel, SecretScan, ParamDiscovery, Triage
<1>3. CASE EndRound \/ Finish \/ UNCHANGED vars
  BY <1>3, NamesIdle DEF EndRound, Finish, vars, hostVars
<1>. QED  BY <1>1, <1>2, <1>3 DEF Next


LEMMA LoopStep ==
  ASSUME LoopInv, NamesInv, [Next]_vars  PROVE LoopInv'
<1>1. CASE HostStages \/ UrlStages
  <2>1. todo # << >> /\ todo' = Tail(todo) /\ phase' = phase /\ rnd' = rnd /\ prev' = prev
    BY <1>1, TurnFacts
  <2>2. todo' \in Seq(STRING) /\ Elements(todo) = {Head(todo)} \cup Elements(todo')
    BY <2>1, TailFacts DEF LoopInv
  <2>. QED  BY <2>1, <2>2 DEF LoopInv
<1>2. CASE EndRound
  <2>1. Cardinality(Known) \in Int /\ Rounds \in Nat
    BY KnownIsFinite, ScanAssumption
  <2>2. Cycle \in Seq(STRING) /\ Finalize \in Seq(STRING) /\ Elements(Finalize) \cap Namers = {}
    BY OrderFacts, ScanAssumption DEF Cycle, Finalize
  <2>. QED  BY <1>2, <2>1, <2>2 DEF EndRound, LoopInv
<1>3. CASE Finish
  BY <1>3 DEF Finish, LoopInv
<1>4. CASE UNCHANGED vars
  BY <1>4 DEF LoopInv, vars, loopVars
<1>. QED  BY <1>1, <1>2, <1>3, <1>4 DEF Next

LEMMA LoopInit ==
  ASSUME ReconInit  PROVE LoopInv /\ NamesInv
<1>1. Order \in Seq(STRING) /\ Cycle \in Seq(STRING)
  BY OrderFacts, ScanAssumption DEF Cycle
<1>2. LoopInv
  BY <1>1 DEF ReconInit, LoopInv
<1>3. DOMAIN names = {}
  BY DEF ReconInit, Init
<1>. QED  BY <1>2, <1>3 DEF ReconInit, Init, NamesInv, Known

-----------------------------------------------------------------------------
\* Convergence.  The names that the round before counted are still there, and the probe of
\* this round covers them: a count that did not change means that there are no others.
AllProbed(S) == \A n \in S : Reachable(n) => n \in probed

ProbeInv ==
  /\ phase = "cycle" =>
       \E S \in SUBSET Known : /\ prev = -1 \/ prev = Cardinality(S)
                               /\ "alive_detection" \in Elements(todo) \/ AllProbed(S)
  /\ phase \in {"finalize", "done"} /\ rnd < Rounds => AllProbed(Known)

\* A name never becomes reachable: its addresses are what the world gives, once it has any.
LEMMA StaysUnreachable ==
  ASSUME NamesInv, NamesKept, NEW n \in Known, Reachable(n)'
  PROVE  Reachable(n)
BY DEF NamesInv, NamesKept, Reachable

LEMMA StaysProbed ==
  ASSUME NamesInv, NamesKept, probed' = probed, NEW S \in SUBSET Known, AllProbed(S)
  PROVE  AllProbed(S)'
BY StaysUnreachable DEF AllProbed

LEMMA ProbeCovers ==
  ASSUME ReconInv, AliveDetection, NEW S \in SUBSET Known  PROVE AllProbed(S)'
<1>1. probed' = InScope({n \in Known : Reachable(n)} \cup Seeds) /\ names' = names
  BY DEF AliveDetection
<1>2. \A n \in S : Reachable(n)' => Reachable(n) /\ IsAllowed(scope, n)
  BY <1>1 DEF Reachable, ReconInv, Allowed
<1>. QED  BY <1>1, <1>2 DEF AllProbed, InScope

\* Only alive_detection changes what is probed, and only the namers change the names.
LEMMA ProbedBy ==
  ASSUME HostStages \/ UrlStages, "alive_detection" \notin Failing
  PROVE  /\ Head(todo) # "alive_detection" => probed' = probed
         /\ Head(todo) = "alive_detection" => AliveDetection
         /\ Head(todo) \notin Namers => names' = names
<1>1. CASE HostStages
  BY <1>1 DEF HostStages, RunHosts, Run, hostVars, Namers, AssetDiscovery, GithubSubdomains, AiSubwords,
              Suggest, DnsResolve, AliveDetection, Permutation, TlsIntel, VhostDiscovery
<1>2. CASE UrlStages
  BY <1>2 DEF UrlStages, Run, hostVars, Namers, Suggest, AiDirwords, AiParams, GithubSecrets,
              ApiDiscovery, Crawling, HistoricalUrls, NucleiScan, TechFingerprint, DirBruteforce,
              UrlProbe, JsFetch, Normalization, ContentSubdomains, JsIntel, SecretScan,
              ParamDiscovery, Triage
<1>. QED  BY <1>1, <1>2

LEMMA ProbeStep ==
  ASSUME "alive_detection" \notin Failing,
         ReconInv, NamesInv, NamesKept, LoopInv, ProbeInv, [Next]_vars
  PROVE  ProbeInv'
<1>1. CASE HostStages \/ UrlStages
  <2>1. /\ todo # << >> /\ phase' = phase /\ rnd' = rnd /\ prev' = prev
        /\ Elements(todo) = {Head(todo)} \cup Elements(todo')
    BY <1>1, TurnFacts, TailFacts DEF LoopInv
  <2>2. ASSUME NEW S \in SUBSET Known, "alive_detection" \in Elements(todo) \/ AllProbed(S)
        PROVE  "alive_detection" \in Elements(todo') \/ AllProbed(S)'
    BY <1>1, <2>1, <2>2, ProbedBy, ProbeCovers, StaysProbed
  <2>3. CASE phase = "cycle"
    <3>1. PICK S \in SUBSET Known : /\ prev = -1 \/ prev = Cardinality(S)
                                    /\ "alive_detection" \in Elements(todo) \/ AllProbed(S)
      BY <2>3 DEF ProbeInv
    <3>2. S \in SUBSET Known' /\ ("alive_detection" \in Elements(todo') \/ AllProbed(S)')
      BY <2>2, <3>1 DEF NamesKept
    <3>. QED  BY <2>1, <2>3, <3>1, <3>2 DEF ProbeInv, AllProbed, Reachable
  <2>4. CASE phase \in {"finalize", "done"} /\ rnd < Rounds
    <3>1. phase = "finalize" /\ Head(todo) \notin Namers
      BY <2>1, <2>4 DEF LoopInv
    <3>2. Known' = Known
      BY <1>1, <3>1, ProbedBy DEF Known
    <3>3. AllProbed(Known)
      BY <2>4 DEF ProbeInv
    <3>4. AllProbed(Known)'
      BY <1>1, <3>2, <3>3, ProbedBy, ProbeCovers, StaysProbed DEF AllProbed
    <3>. QED  BY <2>1, <3>1, <3>4 DEF ProbeInv
  <2>. QED  BY <2>1, <2>3, <2>4 DEF ProbeInv
<1>2. CASE EndRound
  <2>1. /\ phase = "cycle" /\ todo = << >> /\ names' = names /\ probed' = probed
        /\ Cardinality(Known) \in Nat /\ IsFiniteSet(Known)
    BY <1>2, KnownIsFinite DEF EndRound, hostVars
  <2>2. PICK S \in SUBSET Known : (prev = -1 \/ prev = Cardinality(S)) /\ AllProbed(S)
    BY <2>1, EmptyList DEF ProbeInv
  <2>3. CASE rnd # Rounds /\ Cardinality(Known) = prev
    <3>1. S = Known
      BY <2>1, <2>2, <2>3, FS_Subset
    <3>2. AllProbed(Known)'
      BY <2>1, <2>2, <3>1 DEF AllProbed, Reachable, Known
    <3>. QED  BY <1>2, <2>3, <3>2 DEF EndRound, ProbeInv
  <2>4. CASE rnd = Rounds
    <3>1. phase' = "finalize" /\ ~(rnd' < Rounds)
      BY <1>2, <2>4, ScanAssumption DEF EndRound
    <3>. QED  BY <3>1 DEF ProbeInv
  <2>5. CASE rnd # Rounds /\ Cardinality(Known) # prev
    <3>1. phase' = "cycle" /\ prev' = Cardinality(Known) /\ todo' = Cycle
      BY <1>2, <2>5 DEF EndRound
    <3>2. "alive_detection" \in Elements(Cycle)
      BY OrderFacts, ScanAssumption DEF Cycle
    <3>3. Known' = Known
      BY <2>1 DEF Known
    <3>. QED  BY <3>1, <3>2, <3>3 DEF ProbeInv
  <2>. QED  BY <2>3, <2>4, <2>5
<1>3. CASE Finish
  <2>1. /\ phase \in {"single", "finalize"} /\ phase' = "done" /\ rnd' = rnd
        /\ names' = names /\ probed' = probed
    BY <1>3 DEF Finish, hostVars
  <2>2. ~(rnd < Rounds) \/ AllProbed(Known)
    BY <2>1, ScanAssumption DEF LoopInv, ProbeInv
  <2>. QED  BY <2>1, <2>2 DEF ProbeInv, AllProbed, Reachable, Known
<1>4. CASE UNCHANGED vars
  <2>1. UNCHANGED <<phase, rnd, prev, todo, names, probed>>
    BY <1>4 DEF vars, loopVars, hostVars
  <2>. QED  BY <2>1 DEF ProbeInv, AllProbed, Reachable, Known
<1>. QED  BY <1>1, <1>2, <1>3, <1>4 DEF Next

\* The loop keeps its shape, and the names that it counts are finitely many, each with no
\* addresses or those the world gives (Pipeline.run, _subdomain_count).
THEOREM LoopInvariant == Spec => [](LoopInv /\ NamesInv)
<1>1. LoopInv /\ NamesInv /\ ReconInv /\ [Next]_vars => (LoopInv /\ NamesInv)'
  BY LoopStep, NamesStep
<1>. QED  BY <1>1, LoopInit, ReconInvariant, PTL DEF Spec

\* A loop that stops because nothing new was counted has given every reachable name to the
\* probe (Pipeline.run, the early break; alive_detection), whichever stages found the names,
\* whatever the tools missed, and whichever other stages failed.
THEOREM ConvergedIsProbed == Spec => []ConvergedMeansProbed
<1>1. CASE "alive_detection" \in Failing
  <2>1. ConvergedMeansProbed
    BY <1>1 DEF ConvergedMeansProbed
  <2>. QED  BY <2>1, PTL
<1>2. CASE "alive_detection" \notin Failing
  <2>1. ReconInit => ProbeInv
    <3>1. ReconInit => /\ phase \in {"single", "cycle"} /\ prev = -1
                       /\ phase = "cycle" => todo = Cycle
      BY DEF ReconInit
    <3>2. "alive_detection" \in Elements(Cycle)
      BY OrderFacts, ScanAssumption DEF Cycle
    <3>. QED  BY <3>1, <3>2 DEF ProbeInv
  <2>2. ReconInv /\ LoopInv /\ NamesInv /\ ProbeInv /\ [Next]_vars => ProbeInv'
    BY <1>2, NamesStep, ProbeStep
  <2>3. ProbeInv => ConvergedMeansProbed
    BY DEF ProbeInv, AllProbed, ConvergedMeansProbed
  <2>. QED  BY <2>1, <2>2, <2>3, ReconInvariant, LoopInvariant, PTL DEF Spec
<1>. QED  BY <1>1, <1>2


-----------------------------------------------------------------------------
\* The urls.  Every stage but the collectors stores urls of hosts that the store has, if those
\* it starts from are.
Linked == \A u \in urls : <<"belongs_to", u>> \in edges /\ u.host \in hosts

LEMMA StoreLinks ==
  ASSUME NEW found, Store(found), hosts' = hosts, Linked, \A u \in found : u.host \in hosts
  PROVE  Linked'
BY DEF Store, Linked, BelongsTo

LEMMA GrowsLinked ==
  ASSUME urls' = urls, edges \subseteq edges', hosts \subseteq hosts', Linked  PROVE Linked'
BY DEF Linked

LEMMA DirBruteforceLinks ==
  ASSUME Linked, DirBruteforce  PROVE Linked'
<1>1. hosts' = hosts
  BY DEF DirBruteforce
<1>2. PICK found \in Answers("dir_bruteforce", Responses(Paths(HostsInScope))) : Store(UrlsInScope(found))
  BY DEF DirBruteforce
<1>3. ASSUME NEW u \in Paths(HostsInScope)  PROVE u.host \in hosts
  <2>1. PICK h \in HostsInScope, p \in DirWords \cup seams["ai_dirwords"] : u = Url(h, p, {})
    BY DEF Paths
  <2>. QED  BY <2>1, HostsInScopeAllowed DEF Url
<1>4. \A u \in found : u \in Paths(HostsInScope)
  BY <1>2, AnswersWithin DEF Responses
<1>. QED  BY <1>1, <1>2, <1>3, <1>4, UrlsInScopeAllowed, StoreLinks

LEMMA JsIntelLinks ==
  ASSUME Linked, index \subseteq urls, JsIntel  PROVE Linked'
<1>. DEFINE found == UNION {{Url(u.host, p, {}) : p \in Content(u).endpoints} : u \in index}
<1>1. ASSUME NEW v \in found  PROVE v.host \in hosts
  <2>1. PICK u \in index : v \in {Url(u.host, p, {}) : p \in Content(u).endpoints}
    OBVIOUS
  <2>2. v.host = u.host
    BY <2>1 DEF Url
  <2>. QED  BY <2>2 DEF Linked
<1>2. Store(found) /\ hosts' = hosts
  BY DEF JsIntel
<1>. HIDE DEF found
<1>. QED  BY <1>1, <1>2, StoreLinks

LEMMA ParamDiscoveryLinks ==
  ASSUME Linked, ParamDiscovery  PROVE Linked'
<1>1. PICK asked \in Capped(Endpoints, MaxEndpoints) :
        \E found \in Answers("param_discovery", {u \in {Baked(v) : v \in asked} : u.params # {}}) :
          Store(UrlsInScope(Stripped(found)))
  BY DEF ParamDiscovery
<1>2. PICK found \in Answers("param_discovery", {u \in {Baked(v) : v \in asked} : u.params # {}}) :
        Store(UrlsInScope(Stripped(found)))
  BY <1>1
<1>3. \A v \in asked : v.host \in hosts
  <2>1. \A v \in Endpoints : v.host \in hosts
    <3>1. \A u \in UrlsInScope(urls) : u.host \in hosts
      BY UrlsInScopeAllowed DEF Linked
    <3>. QED  BY <3>1 DEF Endpoints, Url
  <2>. QED  BY <1>1, <2>1, CappedWithin
<1>4. ASSUME NEW u \in found  PROVE \E h \in hosts : \E p, q : u = Url(h, p, q)
  <2>1. PICK v \in asked : u = Baked(v)
    BY <1>2, AnswersWithin
  <2>. QED  BY <1>3, <2>1 DEF Baked
<1>5. ASSUME NEW w \in Stripped(found)  PROVE w.host \in hosts
  <2>1. PICK u \in found : \E noise : w = [u EXCEPT !.params = @ \ noise]
    BY DEF Stripped
  <2>2. PICK h \in hosts : \E p, q : u = Url(h, p, q)
    BY <1>4
  <2>. QED  BY <2>1, <2>2 DEF Url
<1>6. hosts' = hosts
  BY DEF ParamDiscovery
<1>. QED  BY <1>2, <1>5, <1>6, UrlsInScopeAllowed, StoreLinks

LEMMA NormalizationLinks ==
  ASSUME Normalization  PROVE Linked'
BY DEF Normalization, Linked, BelongsTo, urlVars

\* The stages that add urls, and those that link, fetch, look for secrets and rank.
LEMMA UrlsBy ==
  ASSUME HostStages \/ UrlStages
  PROVE  \/ urls' = urls /\ edges \subseteq edges' /\ hosts \subseteq hosts'
         \/ DirBruteforce \/ JsIntel \/ ParamDiscovery
         \/ Head(todo) \in Collectors
<1>1. CASE HostStages
  BY <1>1 DEF HostStages, RunHosts, Run, hostVars, urlVars, AssetDiscovery, GithubSubdomains,
              AiSubwords, Suggest, DnsResolve, AliveDetection, Permutation, TlsIntel, VhostDiscovery
<1>2. CASE UrlStages
  BY <1>2 DEF UrlStages, Run, hostVars, urlVars, Collectors, Suggest, AiDirwords, AiParams,
              GithubSecrets, NucleiScan, TechFingerprint, UrlProbe, JsFetch, Normalization,
              ContentSubdomains, SecretScan, Triage
<1>. QED  BY <1>1, <1>2

LEMMA ClosingBy ==
  ASSUME HostStages \/ UrlStages
  PROVE  /\ Head(todo) = "normalization" => Normalization \/ "normalization" \in Failing
         /\ Head(todo) = "secret_scan" => SecretScan \/ "secret_scan" \in Failing
         /\ Head(todo) = "triage" => Triage \/ "triage" \in Failing
         /\ Head(todo) = "js_fetch" => JsFetch \/ index' = index
         /\ Head(todo) # "js_fetch" => index' = index
         /\ Head(todo) # "triage" => leads' = leads
         /\ urls \subseteq urls' /\ findings \subseteq findings'
<1>1. CASE HostStages
  BY <1>1 DEF HostStages, RunHosts, Run, hostVars, urlVars, AssetDiscovery, GithubSubdomains,
              AiSubwords, Suggest, DnsResolve, AliveDetection, Permutation, TlsIntel, VhostDiscovery
<1>2. CASE UrlStages
  BY <1>2 DEF UrlStages, Run, hostVars, urlVars, Store, Suggest, AiDirwords, AiParams,
              GithubSecrets, ApiDiscovery, Crawling, HistoricalUrls, NucleiScan, TechFingerprint,
              DirBruteforce, UrlProbe, JsFetch, Normalization, ContentSubdomains, JsIntel, SecretScan,
              ParamDiscovery, Triage
<1>. QED  BY <1>1, <1>2

LEMMA IndexStep ==
  ASSUME index \subseteq urls, [Next]_vars  PROVE index' \subseteq urls'
<1>1. CASE HostStages \/ UrlStages
  <2>1. CASE JsFetch
    <3>1. PICK asked \in Capped({u \in urls : Fetchable(u)}, MaxBodies) :
            IF asked = {} THEN UNCHANGED index
            ELSE index' \in Answers("js_fetch", {u \in asked : Content(u).status # "gone"})
      BY <2>1 DEF JsFetch
    <3>2. asked \subseteq urls /\ urls' = urls
      BY <2>1, CappedWithin DEF JsFetch
    <3>. QED  BY <3>1, <3>2, AnswersWithin
  <2>. QED  BY <1>1, <2>1, ClosingBy
<1>2. CASE EndRound \/ Finish \/ UNCHANGED vars
  BY <1>2 DEF EndRound, Finish, vars, urlVars
<1>. QED  BY <1>1, <1>2 DEF Next

\* The lists before and after a turn.
LEMMA HeadLeaves ==
  ASSUME LoopInv, HostStages \/ UrlStages
  PROVE  /\ todo # << >> /\ todo' = Tail(todo) /\ phase' = phase
         /\ Elements(todo) = {Head(todo)} \cup Elements(todo')
         /\ \A stage, T : NothingAfter(todo, stage, T) => NothingAfter(todo', stage, T)
         /\ \A T : NothingAfter(todo, Head(todo), T) => Elements(todo') \cap T = {}
<1>1. todo # << >> /\ todo' = Tail(todo) /\ phase' = phase /\ todo \in Seq(STRING)
  BY TurnFacts DEF LoopInv
<1>2. /\ Elements(todo) = {Head(todo)} \cup Elements(Tail(todo))
      /\ \A stage, T : NothingAfter(todo, stage, T) => NothingAfter(Tail(todo), stage, T)
      /\ \A T : NothingAfter(todo, Head(todo), T) => Elements(Tail(todo)) \cap T = {}
  BY <1>1, TailFacts
<1>. QED  BY <1>1, <1>2

\* Until normalization has run it is still to come, and no collector follows it.
LinkInv ==
  /\ index \subseteq urls
  /\ Closing => /\ NothingAfter(todo, "normalization", Collectors)
                /\ \/ "normalization" \in Elements(todo)
                   \/ Linked /\ Elements(todo) \cap Collectors = {}
  /\ phase = "done" => Linked

LEMMA LinkStep ==
  ASSUME "normalization" \notin Failing, LoopInv, LinkInv, [Next]_vars  PROVE LinkInv'
<1>0. index' \subseteq urls'
  BY IndexStep DEF LinkInv
<1>1. CASE HostStages \/ UrlStages
  <2>1. /\ todo # << >> /\ todo' = Tail(todo) /\ phase' = phase
        /\ Elements(todo) = {Head(todo)} \cup Elements(todo')
        /\ \A stage, T : NothingAfter(todo, stage, T) => NothingAfter(todo', stage, T)
        /\ \A T : NothingAfter(todo, Head(todo), T) => Elements(todo') \cap T = {}
    BY <1>1, HeadLeaves
  <2>2. CASE ~Closing
    BY <1>0, <2>1, <2>2 DEF LinkInv, Closing, LoopInv
  <2>3. CASE Closing
    <3>1. NothingAfter(todo', "normalization", Collectors)
      BY <2>1, <2>3 DEF LinkInv
    <3>2. CASE Head(todo) = "normalization"
      <4>1. Linked'
        BY <1>1, <3>2, ClosingBy, NormalizationLinks
      <4>2. Elements(todo') \cap Collectors = {}
        BY <2>1, <2>3, <3>2 DEF LinkInv
      <4>. QED  BY <1>0, <2>1, <2>3, <3>1, <4>1, <4>2 DEF LinkInv, Closing
    <3>3. CASE Head(todo) # "normalization" /\ "normalization" \in Elements(todo)
      BY <1>0, <2>1, <2>3, <3>1, <3>3 DEF LinkInv, Closing
    <3>4. CASE "normalization" \notin Elements(todo)
      <4>1. Linked /\ Elements(todo) \cap Collectors = {} /\ index \subseteq urls
        BY <2>3, <3>4 DEF LinkInv
      <4>2. Linked'
        BY <1>1, <2>1, <4>1, UrlsBy, GrowsLinked, DirBruteforceLinks, JsIntelLinks, ParamDiscoveryLinks
      <4>. QED  BY <1>0, <2>1, <2>3, <3>1, <4>1, <4>2 DEF LinkInv, Closing
    <3>. QED  BY <3>2, <3>3, <3>4
  <2>. QED  BY <2>2, <2>3
<1>2. CASE EndRound
  <2>1. phase' = "cycle" \/ (phase' = "finalize" /\ todo' = Finalize)
    BY <1>2 DEF EndRound
  <2>2. "normalization" \in Elements(Finalize) /\ NothingAfter(Finalize, "normalization", Collectors)
    BY OrderFacts, ScanAssumption DEF Finalize
  <2>. QED  BY <1>0, <2>1, <2>2 DEF LinkInv, Closing
<1>3. CASE Finish
  <2>1. Closing /\ todo = << >> /\ phase' = "done" /\ urls' = urls /\ edges' = edges /\ hosts' = hosts
    BY <1>3 DEF Finish, Closing, hostVars, urlVars
  <2>2. Linked
    BY <2>1, EmptyList DEF LinkInv
  <2>. QED  BY <1>0, <2>1, <2>2 DEF LinkInv, Closing, Linked
<1>4. CASE UNCHANGED vars
  <2>1. UNCHANGED <<phase, todo, urls, edges, hosts>>
    BY <1>4 DEF vars, loopVars, hostVars, urlVars
  <2>. QED  BY <1>0, <2>1 DEF LinkInv, Closing, Linked
<1>. QED  BY <1>1, <1>2, <1>3, <1>4 DEF Next

\* Every url of a scan that is over belongs to a stored host, the ones that js_intel and
\* param_discovery add after normalization included (Normalization, ToolModule.run).
THEOREM UrlsAreLinked == Spec => []UrlsBelong
<1>1. CASE "normalization" \in Failing
  <2>1. UrlsBelong
    BY <1>1 DEF UrlsBelong
  <2>. QED  BY <2>1, PTL
<1>2. CASE "normalization" \notin Failing
  <2>1. ReconInit => LinkInv
    <3>1. ReconInit => /\ phase = "cycle" \/ (phase = "single" /\ todo = Order)
                       /\ index = {}
      BY DEF ReconInit, InitContent
    <3>. QED  BY <3>1, ScanAssumption DEF LinkInv, Closing
  <2>2. LoopInv /\ LinkInv /\ [Next]_vars => LinkInv'
    BY <1>2, LinkStep
  <2>3. LinkInv => UrlsBelong
    BY DEF LinkInv, Linked, UrlsBelong
  <2>. QED  BY <2>1, <2>2, <2>3, LoopInvariant, PTL DEF Spec
<1>. QED  BY <1>1, <1>2

-----------------------------------------------------------------------------
\* The leads.  The bodies do not change any more once they are searched for secrets, and no
\* search follows the ranking.
Scanned == \A u \in index : Content(u).secret => <<"secret", u>> \in findings
Led == \A u \in index : Content(u).secret => u \in leads

LeadsInv ==
  /\ index \subseteq urls
  /\ Closing => /\ NothingAfter(todo, "secret_scan", {"js_fetch"})
                /\ NothingAfter(todo, "triage", {"secret_scan"})
                /\ \/ "secret_scan" \in Elements(todo)
                   \/ Scanned /\ "js_fetch" \notin Elements(todo)
                /\ \/ "triage" \in Elements(todo)
                   \/ Led /\ "secret_scan" \notin Elements(todo)
  /\ phase = "done" => Led

LEMMA ScannedStays ==
  ASSUME Scanned, index' = index, findings \subseteq findings'  PROVE Scanned'
BY DEF Scanned, Content, Page

LEMMA SecretScanFinds ==
  ASSUME SecretScan  PROVE Scanned'
BY DEF SecretScan, urlVars, Scanned, Content, Page

LEMMA TriageLeads ==
  ASSUME Triage, Scanned, index \subseteq urls  PROVE Led'
BY DEF Triage, Scanned, Led, Content, Page

LEMMA LedStays ==
  ASSUME Led, index' = index, leads' = leads  PROVE Led'
BY DEF Led, Content, Page

LEMMA LeadsStep ==
  ASSUME {"secret_scan", "triage"} \cap Failing = {}, LoopInv, LeadsInv, [Next]_vars  PROVE LeadsInv'
<1>0. index' \subseteq urls'
  BY IndexStep DEF LeadsInv
<1>1. CASE HostStages \/ UrlStages
  <2>1. /\ todo # << >> /\ todo' = Tail(todo) /\ phase' = phase
        /\ Elements(todo) = {Head(todo)} \cup Elements(todo')
        /\ \A stage, T : NothingAfter(todo, stage, T) => NothingAfter(todo', stage, T)
        /\ \A T : NothingAfter(todo, Head(todo), T) => Elements(todo') \cap T = {}
    BY <1>1, HeadLeaves
  <2>2. CASE ~Closing
    BY <1>0, <2>1, <2>2 DEF LeadsInv, Closing, LoopInv
  <2>3. CASE Closing
    <3>1. /\ NothingAfter(todo', "secret_scan", {"js_fetch"})
          /\ NothingAfter(todo', "triage", {"secret_scan"})
          /\ index \subseteq urls
      BY <2>1, <2>3 DEF LeadsInv
    <3>2. \/ "secret_scan" \in Elements(todo')
          \/ Scanned' /\ "js_fetch" \notin Elements(todo')
      <4>1. CASE Head(todo) = "secret_scan"
        <5>1. Scanned'
          BY <1>1, <4>1, ClosingBy, SecretScanFinds
        <5>2. Elements(todo') \cap {"js_fetch"} = {}
          BY <2>1, <2>3, <4>1 DEF LeadsInv
        <5>. QED  BY <5>1, <5>2
      <4>2. CASE Head(todo) # "secret_scan" /\ "secret_scan" \in Elements(todo)
        BY <2>1, <4>2
      <4>3. CASE "secret_scan" \notin Elements(todo)
        <5>1. Scanned /\ Head(todo) # "js_fetch" /\ "js_fetch" \notin Elements(todo')
          BY <2>1, <2>3, <4>3 DEF LeadsInv
        <5>. QED  BY <1>1, <5>1, ClosingBy, ScannedStays
      <4>. QED  BY <4>1, <4>2, <4>3
    <3>3. \/ "triage" \in Elements(todo')
          \/ Led' /\ "secret_scan" \notin Elements(todo')
      <4>1. CASE Head(todo) = "triage"
        <5>1. Elements(todo') \cap {"secret_scan"} = {}
          BY <2>1, <2>3, <4>1 DEF LeadsInv
        <5>2. Scanned
          BY <2>1, <2>3, <4>1, <5>1 DEF LeadsInv
        <5>3. Led'
          BY <1>1, <3>1, <4>1, <5>2, ClosingBy, TriageLeads
        <5>. QED  BY <5>1, <5>3
      <4>2. CASE Head(todo) # "triage" /\ "triage" \in Elements(todo)
        BY <2>1, <4>2
      <4>3. CASE "triage" \notin Elements(todo)
        <5>1. Led /\ "secret_scan" \notin Elements(todo)
          BY <2>3, <4>3 DEF LeadsInv
        <5>2. Head(todo) # "triage" /\ Head(todo) # "js_fetch"
          BY <2>1, <2>3, <4>3, <5>1 DEF LeadsInv
        <5>. QED  BY <1>1, <2>1, <5>1, <5>2, ClosingBy, LedStays
      <4>. QED  BY <4>1, <4>2, <4>3
    <3>. QED  BY <1>0, <2>1, <2>3, <3>1, <3>2, <3>3 DEF LeadsInv, Closing
  <2>. QED  BY <2>2, <2>3
<1>2. CASE EndRound
  <2>1. phase' = "cycle" \/ (phase' = "finalize" /\ todo' = Finalize)
    BY <1>2 DEF EndRound
  <2>2. /\ {"secret_scan", "triage"} \subseteq Elements(Finalize)
        /\ NothingAfter(Finalize, "secret_scan", {"js_fetch"})
        /\ NothingAfter(Finalize, "triage", {"secret_scan"})
    BY OrderFacts, ScanAssumption DEF Finalize
  <2>. QED  BY <1>0, <2>1, <2>2 DEF LeadsInv, Closing
<1>3. CASE Finish
  <2>1. Closing /\ todo = << >> /\ phase' = "done" /\ index' = index /\ leads' = leads
    BY <1>3 DEF Finish, Closing, urlVars
  <2>2. Led
    BY <2>1, EmptyList DEF LeadsInv
  <2>. QED  BY <1>0, <2>1, <2>2, LedStays DEF LeadsInv, Closing
<1>4. CASE UNCHANGED vars
  <2>1. UNCHANGED <<phase, todo, index, leads, findings>>
    BY <1>4 DEF vars, loopVars, hostVars, urlVars
  <2>. QED  BY <1>0, <2>1, LedStays, ScannedStays DEF LeadsInv, Closing
<1>. QED  BY <1>1, <1>2, <1>3, <1>4 DEF Next

\* A secret in a body that is stored when the scan is over is among the leads that the AI
\* context must include, however the rounds replaced the bodies (JsFetch, SecretScan, Triage).
THEOREM SecretsBecomeLeads == Spec => []SecretsAreLeads
<1>1. CASE {"secret_scan", "triage"} \cap Failing # {}
  <2>1. SecretsAreLeads
    BY <1>1 DEF SecretsAreLeads
  <2>. QED  BY <2>1, PTL
<1>2. CASE {"secret_scan", "triage"} \cap Failing = {}
  <2>1. ReconInit => LeadsInv
    <3>1. ReconInit => /\ phase = "cycle" \/ (phase = "single" /\ todo = Order)
                       /\ index = {}
      BY DEF ReconInit, InitContent
    <3>. QED  BY <3>1, ScanAssumption DEF LeadsInv, Closing
  <2>2. LoopInv /\ LeadsInv /\ [Next]_vars => LeadsInv'
    BY <1>2, LeadsStep
  <2>3. LeadsInv => SecretsAreLeads
    BY DEF LeadsInv, Led, SecretsAreLeads
  <2>. QED  BY <2>1, <2>2, <2>3, LoopInvariant, PTL DEF Spec
<1>. QED  BY <1>1, <1>2
==============================================================================
