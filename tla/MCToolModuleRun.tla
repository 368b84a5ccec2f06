--------------------------- MODULE MCToolModuleRun ---------------------------
(***************************************************************************)
(* Instances for ToolModuleRun: recursive discovery over five names, one of  *)
(* them out of scope, one reported twice in a level; and the inputs of       *)
(* vhost discovery, scheme|address|apex.                                     *)
(***************************************************************************)
EXTENDS ToolModuleRun

MCItem == {"a.com", "b.com", "www.a.com", "dev.a.com", "other.org"}
MCInputs == {<<"a.com", "b.com">>, <<"a.com", "other.org", "dev.a.com">>, << >>}
MCGroupOf == [i \in MCItem \cup {"none"} |-> i]
MCServer == [i \in MCItem |-> i]
MCFinds == [i \in MCItem |->
  CASE i = "a.com"     -> <<"www.a.com", "other.org", "dev.a.com">>
    [] i = "b.com"     -> <<"www.a.com", "b.com">>
    [] i = "dev.a.com" -> <<"a.com">>
    [] OTHER           -> << >>]
MCInScope == MCItem \ {"other.org"}

\* Two schemes of one address: host_of finds no host in such an item, only the item.
VhostItem == {"https|10.0.0.1|a.com", "http|10.0.0.1|a.com"}
VhostInputs == {<<"https|10.0.0.1|a.com", "http|10.0.0.1|a.com">>}
VhostGroupOf == [i \in VhostItem \cup {"none"} |-> i]
VhostServer == [i \in VhostItem |-> "10.0.0.1"]
VhostFinds == [i \in VhostItem |-> << >>]
==============================================================================
