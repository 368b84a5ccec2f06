------------------------------- MODULE Content -------------------------------
(***************************************************************************)
(* The stages that collect URLs, fetch and mine their bodies, scan and rank. *)
(* A URL is a host, a path and a set of parameter names.                     *)
(***************************************************************************)
EXTENDS Discovery

CONSTANTS
  Site,           \* [host, path] -> what is served there: kind, status and body
  Crawlable, Archived, ApiSpec,   \* host -> URLs a crawl, an archive, a published spec shows
  DirWords, AiDirs,       \* paths of the wordlist, and those a model suggests
  ParamWords, AiParamWords,  \* parameter names of the wordlist, and those a model suggests
  RiskyParams,    \* names of a vulnerability class of triage
  Vulnerable, Uniform,    \* hosts nuclei reports on; hosts that answer every path alike
  MaxHosts, MaxTargets, MaxUrls, MaxBodies, MaxEndpoints,  \* per-stage caps
  MinEndpoints    \* answers below which no parameter is noise

VARIABLES
  urls,    \* the url assets
  graded,  \* the urls whose status is stored
  index,   \* responses/index.json: the urls whose body is on disk
  leads    \* must_include of the triage finding

urlVars == <<urls, graded, index, leads>>

Url(h, p, params) == [host |-> h, path |-> p, params |-> params]
Page(u) == [host |-> u.host, path |-> u.path]
Served(u) == Page(u) \in DOMAIN Site
Content(u) == Site[Page(u)]
UrlsInScope(found) == {u \in found : IsAllowed(scope, u.host)}
HostsInScope == InScope(hosts)
UrlsOf(shown, asked) == UNION {shown[h] : h \in asked}

\* A relation is stored if the store knows both its ends.
BelongsTo(found, known) == {<<"belongs_to", u>> : u \in {v \in found : v.host \in known}}

\* Mutant of Store: urls come without their relation.
StoreUnrelated(found) == urls' = urls \cup found /\ UNCHANGED edges

\* Url records are stored with their relation to their host.
Store(found) ==
  /\ urls' = urls \cup found
  /\ edges' = edges \cup BelongsTo(found, hosts)

InitContent == urls = {} /\ graded = {} /\ index = {} /\ leads = {}

-----------------------------------------------------------------------------
\* katana on every live host; what it shows of other hosts is kept if in scope.
Crawling ==
  /\ contacted' = HostsInScope
  /\ \E found \in Answers("crawling", UrlsOf(Crawlable, contacted')) : Store(UrlsInScope(found))
  /\ UNCHANGED <<names, hosts, seams, findings, probed, unheard, graded, index, leads>>

\* gau asks archives, not the hosts.
HistoricalUrls ==
  /\ contacted' = {}
  /\ \E found \in Answers("historical_urls", UrlsOf(Archived, HostsInScope)) : Store(UrlsInScope(found))
  /\ UNCHANGED <<names, hosts, seams, findings, probed, unheard, graded, index, leads>>

\* Well-known specification paths on a capped list of hosts.  (Each round adds its findings
\* once more; findings are a set here.)
ApiDiscovery ==
  /\ contacted' \in Capped(HostsInScope, MaxHosts)
  /\ \E found \in Answers("api_discovery", UrlsOf(ApiSpec, contacted')) :
       /\ Store(UrlsInScope(found))
       /\ findings' = findings \cup {<<"exposed_api_spec", u.host>> : u \in found}
  /\ UNCHANGED <<names, hosts, seams, probed, unheard, graded, index, leads>>

\* nuclei on the roots of a capped list of live hosts.
NucleiScan ==
  /\ contacted' \in Capped(HostsInScope, MaxTargets)
  /\ \E found \in Answers("nuclei_scan", Vulnerable \cap contacted') :
       findings' = findings \cup {<<"vulnerability", h>> : h \in found}
  /\ UNCHANGED <<names, hosts, edges, seams, probed, unheard, urlVars>>

Uses(found) == {<<"uses", h>> : h \in found \cap hosts}

\* whatweb on every live host.
TechFingerprint ==
  /\ contacted' = HostsInScope
  /\ \E found \in Answers("tech_fingerprint", contacted') : edges' = edges \cup Uses(found)
  /\ UNCHANGED <<names, hosts, seams, findings, probed, unheard, urlVars>>

\* Suggested paths and parameters start from what was observed.
AiDirwords == Suggest("ai_dirwords", {u.path : u \in urls}, AiDirs) /\ UNCHANGED urlVars

MinedParams == UNION {Content(u).params : u \in index}
ReusedParams == UNION {u.params : u \in urls}
AiParams == Suggest("ai_params", MinedParams \cup ReusedParams, AiParamWords) /\ UNCHANGED urlVars

\* The responses with one of the statuses asked for, the gated ones among them.
Responses(asked) == {u \in asked : Served(u) /\ Content(u).status \in {"ok", "gated"}}

\* The words of both lists as paths of the hosts asked.
Paths(asked) == {Url(h, p, {}) : h \in asked, p \in DirWords \cup seams["ai_dirwords"]}

\* feroxbuster with both wordlists on every live host; each hit is stored with its status,
\* and a host that answers all alike is noted.
DirBruteforce ==
  /\ contacted' = HostsInScope
  /\ \E found \in Answers("dir_bruteforce", Responses(Paths(HostsInScope))) :
       /\ Store(UrlsInScope(found))
       /\ graded' = graded \cup found
       /\ findings' = findings \cup {<<"recon_note", h>> : h \in {u.host : u \in found} \cap Uniform}
  /\ UNCHANGED <<names, hosts, seams, probed, unheard, index, leads>>

\* An answer is the status of the url that was asked for, whatever it redirects to.
Alive(asked) == {u \in asked : Served(u)}

\* httpx over a capped list of the stored urls, cut before it is scope-filtered.
UrlProbe ==
  /\ \E asked \in Capped(urls, MaxUrls) :
       /\ contacted' = {u.host : u \in UrlsInScope(asked)}
       /\ \E found \in Answers("url_probe", Alive(UrlsInScope(asked))) :
            graded' = graded \cup found
  /\ UNCHANGED <<names, hosts, edges, seams, findings, probed, unheard, urls, index, leads>>

\* js_fetch takes script and data urls, and others that are known to answer 200.
Fetchable(u) ==
  /\ IsAllowed(scope, u.host) /\ Served(u)
  /\ \/ Content(u).kind \in {"script", "data"}
     \/ (Content(u).kind # "media" /\ u \in graded /\ Content(u).status = "ok")

\* The index lists the answers of this round only; when the tool fails, or there is
\* nothing to ask for, the old one stays.  An answer is listed under the url that httpx
\* reports, taken to be the one it was asked for: js_fetch does not follow redirects.
JsFetch ==
  /\ \E asked \in Capped({u \in urls : Fetchable(u)}, MaxBodies) :
       /\ contacted' = {u.host : u \in asked}
       /\ IF asked = {} THEN UNCHANGED index
          ELSE index' \in Answers("js_fetch", {u \in asked : Content(u).status # "gone"})
  /\ UNCHANGED <<names, hosts, edges, seams, findings, probed, unheard, urls, graded, leads>>

\* Names below a seed in the stored bodies.
ContentSubdomains ==
  /\ LET mentioned == UNION {Content(u).mentions : u \in index}
     IN names' = WithNames(InScope({n \in mentioned : \E s \in Seeds : Below(n, s)}))
  /\ contacted' = {}
  /\ UNCHANGED <<hosts, edges, seams, findings, probed, unheard, urlVars>>

\* Every url gets a host asset for its origin, and the relation to it.
Normalization ==
  /\ hosts' = hosts \cup {u.host : u \in urls}
  /\ edges' = edges \cup BelongsTo(urls, hosts')
  /\ contacted' = {}
  /\ UNCHANGED <<names, seams, findings, probed, unheard, urlVars>>

\* Endpoints named in a body are urls of the body's own host; not scope-filtered.
JsIntel ==
  /\ Store(UNION {{Url(u.host, p, {}) : p \in Content(u).endpoints} : u \in index})
  /\ contacted' = {}
  /\ UNCHANGED <<names, hosts, seams, findings, probed, unheard, graded, index, leads>>

SecretScan ==
  /\ findings' = findings \cup {<<"secret", u>> : u \in {v \in index : Content(v).secret}}
  /\ contacted' = {}
  /\ UNCHANGED <<names, hosts, edges, seams, probed, unheard, urlVars>>

\* Public code of the organisation: a secret of no url.
GithubSecrets ==
  /\ \E found \in Answers("github_secrets", {<<"code_secret">>}) : findings' = findings \cup found
  /\ contacted' = {}
  /\ UNCHANGED <<names, hosts, edges, seams, probed, unheard, urlVars>>

\* The endpoints to fuzz: live, dynamic, one per path.
Endpoints ==
  {Url(u.host, u.path, {}) :
     u \in {v \in UrlsInScope(urls) : /\ Served(v) /\ Content(v).kind \in {"page", "data"}
                                      /\ v \in graded /\ Content(v).status # "gone"}}

\* The wordlist of one round: the base list, and what bodies, urls and a model suggest.
Candidate == ParamWords \cup MinedParams \cup ReusedParams \cup seams["ai_params"]

\* The hidden parameters of an endpoint that are in the wordlist, baked into its url.
Baked(u) == Url(u.host, u.path, Content(u).hidden \cap Candidate)

\* A parameter found at 4 of 5 urls that have any, hosts taken together, is noise and is
\* stripped, unless there are too few to tell.
Stripped(found) ==
  LET with(p) == Cardinality({u \in found : p \in u.params})
      noise == IF Cardinality(found) < MinEndpoints THEN {}
               ELSE {p \in UNION {u.params : u \in found} : 5 * with(p) >= 4 * Cardinality(found)}
  IN {[u EXCEPT !.params = @ \ noise] : u \in {v \in found : ~(v.params \subseteq noise)}}

\* arjun on a capped list of endpoints; what is left of its answers is stored.
ParamDiscovery ==
  /\ \E asked \in Capped(Endpoints, MaxEndpoints) :
       /\ contacted' = {u.host : u \in asked}
       /\ \E found \in Answers("param_discovery", {u \in {Baked(v) : v \in asked} : u.params # {}}) :
            Store(UrlsInScope(Stripped(found)))
  /\ UNCHANGED <<names, hosts, seams, findings, probed, unheard, graded, index, leads>>

\* Mutant of Triage: secrets do not make a lead.
TriageParamsOnly ==
  /\ leads' = {u \in urls : u.params \cap RiskyParams # {}}
  /\ findings' = findings \cup {<<"triage">>}
  /\ contacted' = {}
  /\ UNCHANGED <<names, hosts, edges, seams, probed, unheard, urls, graded, index>>

\* The ranking of module TriageScore, as far as it concerns the leads it must include.
Triage ==
  /\ leads' = {u \in urls : <<"secret", u>> \in findings \/ u.params \cap RiskyParams # {}}
  /\ findings' = findings \cup {<<"triage">>}
  /\ contacted' = {}
  /\ UNCHANGED <<names, hosts, edges, seams, probed, unheard, urls, graded, index>>
==============================================================================
