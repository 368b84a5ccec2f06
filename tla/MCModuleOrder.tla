---------------------------- MODULE MCModuleOrder ----------------------------
(***************************************************************************)
(* Instances for ModuleOrder alone: the stock plans, each profile under the  *)
(* AI modes that change its stages.                                          *)
(***************************************************************************)
EXTENDS ModuleOrder, StockStages

StockPlans ==
  {StockPlan(profile, mode) : profile \in DOMAIN Profiles, mode \in {"off", "assist", "pentest"}}

-----------------------------------------------------------------------------
\* "Runs in the ANALYSIS stage after normalization + nuclei [...] and before the
\* AI stages" (modules/web/triage.py): once resolved, triage precedes both AI
\* analysis stages, so that they find the ranking their curated context needs.
TriageBeforeAI ==
  (pc = "resolved" /\ "triage" \in Built(plan)) =>
    \A i, j \in 1 .. Len(order) :
      (order[i] = "triage" /\ order[j] \in {"ai_recon_intel", "ai_pentest"}) => i < j
==============================================================================
