----------------------------- MODULE TriageScore -----------------------------
(***************************************************************************)
(* The deterministic triage: score_targets ranks the stored hosts and URLs by *)
(* the signals they carry, demotes noise, and the stage keeps the top of the *)
(* ranking and the leads that the AI context must include.                   *)
(***************************************************************************)
EXTENDS Integers, Sequences, FiniteSetsExt, Lists

CONSTANTS
  Weight,       \* signal -> points, noise below zero
  ParamClasses, \* vulnerability class -> parameter names
  Threshold,    \* urls alike that make a catch-all cluster
  TopN

\* The weights are the defaults with those configured: no signal of the code is missing.
ASSUME WeightAssumption ==
  /\ IsFiniteSet(DOMAIN Weight) /\ \A s \in DOMAIN Weight : Weight[s] \in Int
  /\ {"nuclei_info", "tech", "catch_all", "static", "duplicate"} \subseteq DOMAIN Weight

NoStatus == 0
NoLength == -1
DangerousMethods == {"PUT", "DELETE", "PATCH", "TRACE", "DEBUG", "CONNECT", "OPTIONS"}
NotAccepted == {400, 404, 405, 501}

\* A url is [key, host, scheme, netloc, path, params, static, keyword, methods]: keys are
\* numbers, in their order; the netloc is the host, with a port if there is one; methods is
\* the sequence of [verb, status, length] stored, in that order.
Answered(u, verb) == SelectSeq(u.methods, LAMBDA m : m.verb = verb)
Graded(u) == SelectSeq(u.methods, LAMBDA m : m.status # NoStatus)
StatusOf(ms) == IF ms = << >> THEN NoStatus ELSE Head(ms).status

\* The status and the length that stand for a url: those of GET, else the first there are.
Status(u) == IF Answered(u, "GET") # << >> THEN StatusOf(Answered(u, "GET")) ELSE StatusOf(Graded(u))
Length(u) ==
  LET sized == SelectSeq(Answered(u, "GET") \o u.methods, LAMBDA m : m.length # NoLength)
  IN IF sized = << >> THEN NoLength ELSE Head(sized).length

\* What the other methods tell: accepted, accepted where GET is not, and dangerous.
Others(u) == SelectSeq(Graded(u), LAMBDA m : m.verb # "GET")
NonGetAccepted(u) == \E m \in Elements(Others(u)) : m.status \in 200 .. 299
Anomalous(u) ==
  LET get == StatusOf(Answered(u, "GET"))
  IN NonGetAccepted(u) /\ (get = NoStatus \/ get >= 400)
Dangerous(u) == \E m \in Elements(Others(u)) : m.verb \in DangerousMethods /\ m.status \notin NotAccepted

Classes(u) == {c \in DOMAIN ParamClasses : ParamClasses[c] \cap u.params # {}}

\* The findings of nuclei are [id, severity, host, at] and name a host and a url, by key; two
\* that differ in their id only count twice.  A secret names a url.
Reported(findings, key) == {f \in findings : key \in {f.host, f.at}}

Signals(u, secrets) ==
  {s \in DOMAIN Weight :
     CASE s = "secret"           -> u.key \in secrets
       [] s = "method_anomaly"   -> Anomalous(u)
       [] s = "non_get_accepted" -> NonGetAccepted(u) /\ ~Anomalous(u)
       [] s = "dangerous_method" -> Dangerous(u)
       [] s = "param_vuln_class" -> Classes(u) # {}
       [] s = "has_param"        -> u.params # {} /\ Classes(u) = {}
       [] s = "path_keyword"     -> u.keyword
       [] s = "auth_status"      -> Status(u) \in {401, 403}
       [] OTHER                  -> FALSE}

\* The signal that noise never touches: "a finding, a non-GET method, a vuln-class param, or
\* a keyword".  A parameter of no class and an answer of 401 or 403 add points but do not
\* protect.
Protected(u, findings, secrets) ==
  \/ Reported(findings, u.key) # {}
  \/ Signals(u, secrets) \ {"has_param", "auth_status"} # {}

Cluster(u) == <<u.netloc, Status(u), Length(u)>>
Template(u) == <<u.scheme, u.netloc, u.path, u.params>>

\* Mutant of Noise: the url of a finding is demoted as any other.
NoiseOfAny(urls, findings, secrets, i) ==
  {s \in {"catch_all", "static"} :
     \/ s = "static" /\ urls[i].static
     \/ s = "catch_all" /\ Cardinality({j \in DOMAIN urls : Cluster(urls[j]) = Cluster(urls[i])}) >= Threshold}

\* Unprotected urls are demoted: in a cluster, static, or not the first unprotected one of
\* their template.  Protected ones count for the cluster.
Noise(urls, findings, secrets, i) ==
  LET u == urls[i]
      alike == {j \in DOMAIN urls : Cluster(urls[j]) = Cluster(u)}
      same == {j \in 1 .. i - 1 : Template(urls[j]) = Template(u) /\ ~Protected(urls[j], findings, secrets)}
  IN {s \in {"catch_all", "static", "duplicate"} :
        /\ ~Protected(u, findings, secrets)
        /\ \/ s = "catch_all" /\ Cardinality(alike) >= Threshold
           \/ s = "static" /\ u.static
           \/ s = "duplicate" /\ same # {}}

Points(signals) == MapThenSumSet(LAMBDA s : Weight[s], signals)
Severity(findings, key) == MapThenSumSet(LAMBDA f : Weight[f.severity], Reported(findings, key))

UrlScore(urls, findings, secrets, i) ==
  Severity(findings, urls[i].key)
    + Points(Signals(urls[i], secrets) \cup Noise(urls, findings, secrets, i))

\* A host has the points of its findings, and some if its technology is known.
HostScore(h, findings) == Severity(findings, h.key) + (IF h.tech THEN Weight["tech"] ELSE 0)

Guaranteed(u, secrets) ==
  Signals(u, secrets) \cap {"secret", "method_anomaly", "dangerous_method", "param_vuln_class"} # {}

\* Scored assets in their order: by score, then by key, of which no two are equal.
Better(s, t) == s.score > t.score \/ (s.score = t.score /\ s.key < t.key)
Ranked(items) ==
  [k \in 1 .. Cardinality(items) |->
     CHOOSE t \in items : Cardinality({s \in items : Better(s, t)}) = k - 1]

\* The ranking, nothing left out.
Ranking(hosts, urls, findings, secrets) ==
  LET host(h) == [kind |-> "host", key |-> h.key, host |-> h.key, lead |-> FALSE, score |-> HostScore(h, findings)]
      url(i) == [kind |-> "url", key |-> urls[i].key, host |-> urls[i].host,
                 lead |-> Guaranteed(urls[i], secrets), score |-> UrlScore(urls, findings, secrets, i)]
  IN Ranked({host(hosts[i]) : i \in DOMAIN hosts} \cup {url(i) : i \in DOMAIN urls})

\* The finding that the stage stores.
Triage(hosts, urls, findings, secrets) ==
  LET ranked == Ranking(hosts, urls, findings, secrets)
  IN [top |-> Cut(Filtered(ranked, {t \in Elements(ranked) : t.score > 0}), TopN),
      must_include |-> Filtered(ranked, {t \in Elements(ranked) : t.lead})]
==============================================================================
