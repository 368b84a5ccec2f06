------------------------------ MODULE Discovery ------------------------------
(***************************************************************************)
(* The stages that find host names and live hosts: each reads names from the *)
(* store or from the targets, asks a tool, and stores what the scope allows. *)
(* The world they ask (DNS, archives, certificates, servers) is constant.    *)
(***************************************************************************)
EXTENDS Scope, FiniteSets

CONSTANTS
  scope,         \* the engagement scope; targets are exact names
  Ip, Private,   \* addresses, and the private ones among them
  Dns,           \* name -> its own addresses; other names get what their zone's wildcard says
  Wildcard,      \* seed -> addresses of its wildcard record, {} if it has none
  Serving,       \* names at which an HTTP server answers
  Passive, Leaked,       \* names in passive sources and in public code
  Words, AiWords,        \* labels of the wordlist, and those a model suggests
  Permutations,  \* name -> names alterx derives from it
  Certificate,   \* name -> names in the certificate served there
  VirtualHosts, NamedVirtualHosts,  \* address, seed -> names its server answers by Host header
  Prefer,        \* dns_resolve.prefer: "public", "internal" or "both"
  Enumerate,     \* --enumerate: "auto", "always" or "never"
  SkipOnWildcard, WildcardFilter,  \* dns_resolve.brute.skip_on_wildcard, dns_resolve.wildcard_filter
  MaxIps, MaxCandidates,
  UseAi,         \* an AI provider is configured
  Unreliable     \* stages whose tool may miss any part of its answer

VARIABLES
  names,      \* the subdomain assets: name -> addresses, {} when unresolved
  hosts,      \* the host assets, by name
  edges,      \* relations that say which host a name or url is of, by their source
  seams,      \* the wordlist files the AI stages leave for others
  findings,   \* the findings
  probed,     \* the names given to the last alive_detection
  contacted,  \* the names the last stage sent requests to
  unheard     \* history: the seeds whose synthetic names some batch lost, or did not ask for

hostVars == <<names, hosts, edges, seams, findings, probed, contacted, unheard>>

Known == DOMAIN names
Seeds == {p.base : p \in scope.targets}
InScope(found) == {n \in found : IsAllowed(scope, n)}
Enumerating == ShouldEnumerate(Enumerate, scope.in_scope)

\* What a tool returns of what it could find.
Answers(stage, found) == IF stage \in Unreliable THEN SUBSET found ELSE {found}

\* Any choice of at most n elements: lists are capped in an order the model leaves out.
Capped(S, n) == IF Cardinality(S) <= n THEN {S} ELSE {T \in SUBSET S : Cardinality(T) = n}

\* What DNS says of a name, its zone's wildcard included.
Resolve(n) ==
  IF n \in DOMAIN Dns THEN Dns[n] ELSE UNION {Wildcard[z] : z \in {s \in Seeds : Below(n, s)}}

\* What the wildcard records of these seeds answer.
CatchAll(seeds) == UNION {Wildcard[s] : s \in seeds}
Labelled(labels) == {Append(s, w) : s \in Seeds, w \in labels}

\* A list of names adds them without addresses; a record with addresses replaces them.
WithNames(found) == [n \in Known \cup found |-> IF n \in Known THEN names[n] ELSE {}]
WithAddresses(found) == [n \in Known \cup found |-> IF n \in found THEN Resolve(n) ELSE names[n]]

Init ==
  /\ names = << >> /\ hosts = {} /\ edges = {} /\ findings = {}
  /\ seams = [s \in {"ai_subwords", "ai_dirwords", "ai_params"} |-> {}]
  /\ probed = {} /\ contacted = {} /\ unheard = {}

-----------------------------------------------------------------------------
\* subfinder, and the seeds themselves; kept by the command line only when enumerating.
AssetDiscovery ==
  /\ \E found \in Answers("asset_discovery", Passive) :
       names' = IF Enumerating THEN WithNames(InScope(found \cup Seeds)) ELSE names
  /\ contacted' = {}
  /\ UNCHANGED <<hosts, edges, seams, findings, probed, unheard>>

\* Public code search per seed, not bound to enumeration; without a token nothing is found.
GithubSubdomains ==
  /\ \E found \in Answers("github_subdomains", Leaked) : names' = WithNames(InScope(found))
  /\ contacted' = {}
  /\ UNCHANGED <<hosts, edges, seams, findings, probed, unheard>>

\* The flow of the three AI wordlist stages.  Without a provider or anything to start
\* from they do nothing; when the provider fails, the file of an earlier round stays.
Suggest(seam, observed, words) ==
  /\ \/ UNCHANGED <<seams, findings>>
     \/ /\ UseAi /\ observed # {}
        /\ seams' = [seams EXCEPT ![seam] = words]
        /\ findings' = findings \cup {<<"suggested", seam>> : w \in words}
  /\ contacted' = {}
  /\ UNCHANGED <<names, hosts, edges, probed, unheard>>

AiSubwords == Suggest("ai_subwords", Known, AiWords)

\* The brute-force candidates: words under the seeds, unless random names resolve too
\* (a lost answer to those hides the wildcard).
Candidates ==
  LET all == Labelled(Words \cup seams["ai_subwords"])
  IN IF ~HasWildcard(scope) THEN {{}}
     ELSE IF ~SkipOnWildcard \/ CatchAll(Seeds) = {} THEN {all}
     ELSE IF "dns_resolve" \in Unreliable THEN {{}, all} ELSE {{}}

\* Mutant of Refined: the wildcard filter is missing.
RefinedUnfiltered(asked, heard) == {n \in asked : Resolve(n) # {}}

\* What is left of an answer: names that resolve to more than what the synthetic names did,
\* as far as their lines came back.
Refined(asked, heard) == {n \in asked : ~(Resolve(n) \subseteq CatchAll(heard))}

\* One dnsx batch: the synthetic names of the seeds are asked for with the others, and their
\* lines may be lost like any.  (The three of a seed count as one.)
Resolution(stage, asked, synthetic) ==
  \E heard \in Answers(stage, synthetic) :
    /\ \E found \in Answers(stage, Refined(asked, heard)) : names' = WithAddresses(InScope(found))
    /\ unheard' = unheard \cup (Seeds \ heard)

\* Known names and seeds are resolved, candidates are tried.
DnsResolve ==
  /\ \E candidates \in Candidates :
       Resolution("dns_resolve", InScope(Known \cup Seeds) \cup candidates,
                  IF WildcardFilter THEN Seeds ELSE {})
  /\ contacted' = {}
  /\ UNCHANGED <<hosts, edges, seams, findings, probed>>

\* Whether a name may be probed: from outside, not when all its addresses are private;
\* a name of which no address is stored is taken to be reachable.
Reachable(n) == Prefer # "public" \/ names[n] = {} \/ names[n] \ Private # {}

\* An answer is a host and the relation of its name to it; the store drops the relation of
\* a name that it does not know.
ResolvesTo(live) == {<<"resolves_to", n>> : n \in live \cap Known}

\* httpx over the reachable names and the seeds: the ones that answer are hosts.
AliveDetection ==
  /\ probed' = InScope({n \in Known : Reachable(n)} \cup Seeds)
  /\ contacted' = probed'
  /\ \E live \in Answers("alive_detection", probed' \cap Serving) :
       /\ hosts' = hosts \cup live
       /\ edges' = edges \cup ResolvesTo(live)
  /\ UNCHANGED <<names, seams, findings, unheard>>

Mutated == UNION {Permutations[n] : n \in InScope(Known) \cup Seeds}

\* alterx over the known names, AI labels under the seeds, and dnsx over a capped list of
\* both; only for a wildcard scope.
Permutation ==
  /\ IF HasWildcard(scope)
     THEN \E asked \in Capped(Mutated \cup Labelled(seams["ai_subwords"]), MaxCandidates) :
            Resolution("permutation", asked, Seeds)
     ELSE UNCHANGED <<names, unheard>>
  /\ contacted' = {}
  /\ UNCHANGED <<hosts, edges, seams, findings, probed>>

\* The names in the certificates served, wildcards reduced to their parent.
Sans(asked) == UNION {Certificate[n] : n \in asked}

\* Mutant of TlsIntel: names of a shared certificate are not filtered.
TlsIntelUnscoped ==
  /\ contacted' = InScope(Known)
  /\ \E found \in Answers("tls_intel", Sans(contacted')) : names' = WithNames(found)
  /\ UNCHANGED <<hosts, edges, seams, findings, probed, unheard>>

\* tlsx over the known names, reachable or not.
TlsIntel ==
  /\ contacted' = InScope(Known)
  /\ \E found \in Answers("tls_intel", Sans(contacted')) : names' = WithNames(InScope(found))
  /\ UNCHANGED <<hosts, edges, seams, findings, probed, unheard>>

\* The addresses fuzzed: of the preferred family.
FamilyIps(ips) ==
  CASE Prefer = "both" -> ips [] Prefer = "internal" -> ips \cap Private [] OTHER -> ips \ Private

\* The hits: a keyword is a name below the seed that the item was built for.
Hits(ips) == (UNION {VirtualHosts[i] : i \in ips}) \cup (UNION {NamedVirtualHosts[s] : s \in Seeds})

\* ffuf of Host headers at the stored addresses and at the seeds; a hit is a live host.
\* The inputs are not scope-filtered, the hits are.
VhostDiscovery ==
  /\ contacted' = IF Enumerating THEN Seeds ELSE {}
  /\ IF Enumerating
     THEN \E ips \in Capped(FamilyIps(UNION {names[n] : n \in Known}), MaxIps) :
            \E found \in Answers("vhost_discovery", Hits(ips)) : hosts' = hosts \cup InScope(found)
     ELSE UNCHANGED hosts
  /\ UNCHANGED <<names, edges, seams, findings, probed, unheard>>
==============================================================================
