------------------------------ MODULE MCAnalysis ------------------------------
(***************************************************************************)
(* Stores of up to four urls of three hosts, one of which is not stored, and *)
(* one finding; and graphs of three nodes and as many edges.                 *)
(***************************************************************************)
EXTENDS GraphQueries

MCWeight ==
  [s \in {"nuclei_info", "method_anomaly", "non_get_accepted", "dangerous_method", "secret", "param_vuln_class",
          "has_param", "path_keyword", "auth_status", "tech", "catch_all", "static", "duplicate"} |->
     CASE s = "nuclei_info" -> 5        [] s = "method_anomaly" -> 60   [] s = "non_get_accepted" -> 45
       [] s = "dangerous_method" -> 50  [] s = "secret" -> 90           [] s = "param_vuln_class" -> 35
       [] s = "has_param" -> 20         [] s = "path_keyword" -> 40     [] s = "auth_status" -> 15
       [] s = "tech" -> 20              [] s = "catch_all" -> -50       [] s = "static" -> -30
       [] OTHER -> -20]
MCParamClasses == [c \in {"sqli", "ssrf"} |-> IF c = "sqli" THEN {"id", "q"} ELSE {"url"}]

Got(status) == <<[verb |-> "GET", status |-> status, length |-> 7]>>
Ported(host, port, path, params, static, keyword, methods) ==
  [host |-> host, scheme |-> "https", netloc |-> <<host, port>>, path |-> path, params |-> params, static |-> static, keyword |-> keyword, methods |-> methods]
Page(host, path, params, static, keyword, methods) ==
  Ported(host, 443, path, params, static, keyword, methods)
MCShapes ==
  {Page(1, "a", {}, FALSE, FALSE, Got(200)),
   Page(1, "b", {"p"}, FALSE, FALSE, Got(403)),
   Page(1, "b", {"id"}, FALSE, FALSE, << >>),
   Page(2, "a", {"p"}, FALSE, FALSE, Got(200)),
   Ported(2, 8443, "js", {}, TRUE, FALSE, Got(200)),
   Page(2, "login", {}, FALSE, TRUE, Got(200)),
   Page(2, "b", {}, FALSE, FALSE, Got(403) \o <<[verb |-> "PUT", status |-> 201, length |-> NoLength]>>),
   Page(3, "c", {"p"}, FALSE, FALSE, <<[verb |-> "POST", status |-> 200, length |-> 7]>>)}

MCHosts == <<[key |-> 1, tech |-> TRUE], [key |-> 2, tech |-> FALSE]>>
Technology == [type |-> "technology", key |-> 50]
Name == [type |-> "subdomain", key |-> 51]
\* It has the key of the first url.
Artifact == [type |-> "artifact", key |-> 100]
MCAround == <<Technology, Name, Artifact>>
MCHostEdges == << <<Name, HostNode(2)>>, <<HostNode(1), Technology>> >>

MCIds == 1 .. 3
MCEdges == [src : MCIds, dst : MCIds, rel : {"r", "s"}]
==============================================================================
