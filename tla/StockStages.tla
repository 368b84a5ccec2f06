----------------------------- MODULE StockStages -----------------------------
(***************************************************************************)
(* The stages the repository ships, as the plans a pipeline is built from:  *)
(* their registration order, what each requires and produces, the ones that *)
(* run once after the discovery loop, and the stage lists of the profiles.  *)
(***************************************************************************)
EXTENDS Naturals, Sequences

\* Import order of the web package and then of analysis.web.  ai_wordlists, the
\* first import, itself imports js_fetch and dns_resolve comes in with alive_detection.
Registration ==
  << "js_fetch", "ai_subwords", "ai_dirwords", "ai_params", "dns_resolve", "alive_detection",
     "api_discovery", "asset_discovery", "content_subdomains", "crawling", "dir_bruteforce",
     "github_secrets", "github_subdomains", "historical_urls", "js_intel", "normalization",
     "nuclei_scan", "param_discovery", "permutation", "screenshot", "secret_scan",
     "tech_fingerprint", "tls_intel", "triage", "url_probe", "vhost_discovery",
     "ai_recon_intel", "ai_pentest" >>

StageNames == {Registration[i] : i \in 1 .. Len(Registration)}

RegistrationIndex == [s \in StageNames |-> CHOOSE i \in 1 .. Len(Registration) : Registration[i] = s]

\* What a stage declares: the entity types it requires and produces, and whether it
\* runs once, after the discovery loop.  The produced names that no stage requires are
\* the sentinels that keep feedback edges out of the graph.
Stage(requires, produces) == [requires |-> requires, produces |-> produces, runOnce |-> FALSE]
StageOnce(requires, produces) == [requires |-> requires, produces |-> produces, runOnce |-> TRUE]

JsFetch           == Stage({"url"}, {"response"})
AiSubwords        == Stage({"passive_subdomains"}, {"ai_subwords"})
AiDirwords        == Stage({"endpoint"}, {"ai_dirwords"})
AiParams          == Stage({"response"}, {"ai_params"})
DnsResolve        == Stage({"subdomain", "ai_subwords"}, {"subdomain"})
AliveDetection    == Stage({"subdomain"}, {"host"})
ApiDiscovery      == Stage({"host"}, {"api"})
AssetDiscovery    == Stage({}, {"subdomain", "passive_subdomains"})
ContentSubdomains == Stage({"response"}, {"content_subdomain"})
Crawling          == Stage({"host"}, {"url", "endpoint"})
DirBruteforce     == StageOnce({"host", "ai_dirwords"}, {"url"})
GithubSecrets     == StageOnce({}, {"finding"})
GithubSubdomains  == Stage({}, {"subdomain"})
HistoricalUrls    == Stage({"host"}, {"url"})
JsIntel           == StageOnce({"response"}, {"finding"})
Normalization     == StageOnce({"url", "endpoint", "technology"}, {"normalized"})
NucleiScan        == StageOnce({"host"}, {"finding"})
ParamDiscovery    == StageOnce({"url", "response", "ai_params"}, {"param"})
Permutation       == Stage({"subdomain"}, {"permutation"})
Screenshot        == Stage({"host"}, {"artifact"})
SecretScan        == StageOnce({"response"}, {"finding"})
TechFingerprint   == Stage({"host"}, {"technology"})
TlsIntel          == Stage({"subdomain"}, {"tls"})
Triage            == StageOnce({"host", "url", "finding", "normalized"}, {"triage"})
UrlProbe          == Stage({"url"}, {"url"})
VhostDiscovery    == Stage({"subdomain"}, {"host"})
AiReconIntel      == StageOnce({"normalized"}, {"intel"})
AiPentest         == StageOnce({"intel"}, {"vulnerability"})

Declared ==
  [js_fetch           |-> JsFetch,
   ai_subwords        |-> AiSubwords,
   ai_dirwords        |-> AiDirwords,
   ai_params          |-> AiParams,
   dns_resolve        |-> DnsResolve,
   alive_detection    |-> AliveDetection,
   api_discovery      |-> ApiDiscovery,
   asset_discovery    |-> AssetDiscovery,
   content_subdomains |-> ContentSubdomains,
   crawling           |-> Crawling,
   dir_bruteforce     |-> DirBruteforce,
   github_secrets     |-> GithubSecrets,
   github_subdomains  |-> GithubSubdomains,
   historical_urls    |-> HistoricalUrls,
   js_intel           |-> JsIntel,
   normalization      |-> Normalization,
   nuclei_scan        |-> NucleiScan,
   param_discovery    |-> ParamDiscovery,
   permutation        |-> Permutation,
   screenshot         |-> Screenshot,
   secret_scan        |-> SecretScan,
   tech_fingerprint   |-> TechFingerprint,
   tls_intel          |-> TlsIntel,
   triage             |-> Triage,
   url_probe          |-> UrlProbe,
   vhost_discovery    |-> VhostDiscovery,
   ai_recon_intel     |-> AiReconIntel,
   ai_pentest         |-> AiPentest]

StageEntities ==
  UNION {Declared[s].requires \cup Declared[s].produces : s \in StageNames}

\* The stages marked run_once.
RunOnceStages == {s \in StageNames : Declared[s].runOnce}

\* The stages that call the AI provider, and those each AI mode keeps.
WordlistStages == {"ai_subwords", "ai_dirwords", "ai_params"}
AiStages == WordlistStages \cup {"ai_recon_intel", "ai_pentest"}
AiStagesOf(mode) ==
  CASE mode = "off"     -> {}
    [] mode = "assist"  -> WordlistStages
    [] mode = "analyze" -> WordlistStages \cup {"ai_recon_intel"}
    [] mode = "pentest" -> AiStages

Profiles ==
  [default |-> StageNames \ {"screenshot"},
   quick   |-> {"asset_discovery", "alive_detection", "tech_fingerprint"},
   direct  |-> StageNames \ ({"asset_discovery", "github_subdomains", "github_secrets", "dns_resolve",
                "permutation", "tls_intel", "vhost_discovery", "screenshot"} \cup WordlistStages)]

\* The stages of a profile that an AI mode enables.
SelectStages(profile, mode) == Profiles[profile] \ (AiStages \ AiStagesOf(mode))

StockPlan(profile, mode) ==
  [registered |-> StageNames,
   enabled    |-> SelectStages(profile, mode),
   requires   |-> [s \in StageNames |-> Declared[s].requires],
   produces   |-> [s \in StageNames |-> Declared[s].produces]]
==============================================================================
