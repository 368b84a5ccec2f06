--------------------------- MODULE MCRunLifecycle ---------------------------
(***************************************************************************)
(* A scan of a tool stage and two AI stages, then two analyses of it.  Two   *)
(* entities, one of which is spelled in two ways, and batches that repeat,   *)
(* overwrite, omit an attribute, and relate an entity to an unknown one.     *)
(***************************************************************************)
EXTENDS RunLifecycle

CONSTANTS upper, lower, other, entity, another, status, v1, v2, t1, t2, target,
          nuclei, recon, pentest

Canonical == [s \in Spelling |-> IF s = other THEN another ELSE entity]

Reported(key, value, tool) == [key |-> key, attributes |-> [a \in Attr |-> value], tool |-> tool]

Batches ==
  {[records |-> <<Reported(lower, v1, t1), Reported(upper, Null, t2)>>,
    relations |-> {<<lower, other>>}],
   [records |-> <<Reported(other, v1, t1), Reported(upper, v2, t1), Reported(lower, v1, t1)>>,
    relations |-> {<<other, lower>>, <<upper, other>>}],
   [records |-> <<Reported(upper, Null, Null)>>, relations |-> {}]}

Findings == {nuclei, recon, pentest} \X (1 .. MaxProcesses)
Scanned == <<nuclei, recon, pentest>>
Ais == {recon, pentest}
Modes == {"analyze", "pentest"}
StagesOf == [mode \in Modes |-> IF mode = "analyze" THEN <<recon>> ELSE <<recon, pentest>>]
=============================================================================
