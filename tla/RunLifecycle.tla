---------------------------- MODULE RunLifecycle ----------------------------
(***************************************************************************)
(* The life of one run id: the process that scans (main), then any number of *)
(* processes that analyse again what it stored (_run_ai_only), each of which *)
(* may die anywhere; composed with the store.                                *)
(***************************************************************************)
EXTENDS Store

CONSTANTS ScanStages,     \* the stages of the scan, in order
          ToolStages,     \* those that persist what a tool found
          AiStages,       \* ALL_AI_STAGES
          Mode,           \* AI modes of an analysis
          AiStagesOf,     \* AI_STAGES_BY_MODE, in pipeline order
          MaxProcesses,   \* bound: processes on this run id
          MaxWrites       \* bound: transactions of one stage

Process == 1 .. MaxProcesses
Stage == AiStages \cup ToolStages

ASSUME LifecycleAssumption ==
  /\ ScanStages \in Seq(Stage)
  /\ AiStagesOf \in [Mode -> Seq(AiStages)]
  /\ AiStages \cap ToolStages = {}
  /\ MaxProcesses \in Nat \ {0} /\ MaxWrites \in Nat
  /\ Finding = Stage \X Process

VARIABLES
  exists,   \* recon.db exists
  process,  \* processes started so far, the last one being the current
  kind,     \* "none", "scan", "analysis"
  pc,       \* "idle", "start", "clear", "stages", "finish", "report"
  left,     \* stages left of the pipeline
  writes,   \* transactions of the current stage
  ran,      \* stages the current process has run
  statuses  \* statuses of their results

lifeVars == <<exists, process, kind, pc, left, writes, ran, statuses>>
vars == <<storeVars, lifeVars>>

FindingsOf(stages) == {f \in Finding : f[1] \in stages}
NoRecords == << >>

Init ==
  /\ StoreInit
  /\ exists = FALSE /\ process = 0
  /\ kind = "none" /\ pc = "idle"
  /\ left = << >> /\ writes = 0 /\ ran = {} /\ statuses = {}

-----------------------------------------------------------------------------
\* main, up to Store.open: a scan has a run id, hence a store, of its own.
StartScan ==
  /\ pc = "idle" /\ process = 0
  /\ exists' = TRUE
  /\ process' = 1 /\ kind' = "scan" /\ pc' = "start"
  /\ UNCHANGED <<storeVars, left, writes, ran, statuses>>

\* _run_ai_only, up to the first write: there must be a store, but not a run row.
StartAnalysis(mode) ==
  /\ pc = "idle" /\ exists /\ process < MaxProcesses
  /\ process' = process + 1 /\ kind' = "analysis" /\ pc' = "clear"
  /\ left' = AiStagesOf[mode]
  /\ writes' = 0 /\ ran' = {} /\ statuses' = {}
  /\ UNCHANGED <<storeVars, exists>>

\* Mutant of Outcome: one success is enough.
OutcomeOfAny == IF "success" \in statuses THEN "completed" ELSE "completed_with_errors"

\* store.start_run, store.clear_findings and store.finish_run.
Outcome == IF statuses \subseteq {"success", "skipped"} THEN "completed" ELSE "completed_with_errors"

BeginStart ==
  /\ pc = "start"
  /\ Begin(StartStatements, NoRecords)
  /\ UNCHANGED lifeVars

\* Mutant of BeginClear: the old findings are kept.
BeginClearNothing ==
  /\ pc = "clear"
  /\ Begin(ClearStatements({}), NoRecords)
  /\ UNCHANGED lifeVars

\* Mutant of BeginClear: the findings of every source are cleared.
BeginClearAll ==
  /\ pc = "clear"
  /\ Begin(ClearStatements(Finding), NoRecords)
  /\ UNCHANGED lifeVars

BeginClear ==
  /\ pc = "clear"
  /\ Begin(ClearStatements(FindingsOf(AiStages)), NoRecords)
  /\ UNCHANGED lifeVars

BeginFinish ==
  /\ pc = "finish"
  /\ Begin(FinishStatements(Outcome), NoRecords)
  /\ UNCHANGED lifeVars

-----------------------------------------------------------------------------
\* A stage persists what its tool found, and adds findings, each in a transaction.
StagePersists(batch) ==
  /\ pc = "stages" /\ left # << >> /\ Head(left) \in ToolStages
  /\ writes < MaxWrites /\ writes' = writes + 1
  /\ Begin(PersistStatements(batch), batch.records)
  /\ UNCHANGED <<exists, process, kind, pc, left, ran, statuses>>

StageAddsFinding ==
  /\ pc = "stages" /\ left # << >>
  /\ writes < MaxWrites /\ writes' = writes + 1
  /\ Begin(FindingStatements(<<Head(left), process>>), NoRecords)
  /\ UNCHANGED <<exists, process, kind, pc, left, ran, statuses>>

\* Its result is recorded, and the next stage runs.
StageResult(status) ==
  /\ left' = Tail(left) /\ ran' = ran \cup {Head(left)}
  /\ statuses' = statuses \cup {status}
  /\ writes' = 0
  /\ UNCHANGED <<exists, process, kind, pc>>

StageEnds ==
  /\ pc = "stages" /\ left # << >> /\ ~open
  /\ \E status \in {"success", "skipped", "failed"} : StageResult(status)
  /\ UNCHANGED storeVars

\* All stages have run: a scan sets the status of the run, an analysis leaves it.
EndStages ==
  /\ pc = "stages" /\ left = << >>
  /\ pc' = IF kind = "scan" THEN "finish" ELSE "report"
  /\ UNCHANGED <<storeVars, exists, process, kind, left, writes, ran, statuses>>

-----------------------------------------------------------------------------
\* The statements of an operation, its end, and what the caller does then.
ExecuteStatement ==
  /\ \E s \in todo : Execute(s)
  /\ UNCHANGED lifeVars

Committed ==
  /\ Commit
  /\ CASE pc = "start"  -> pc' = "stages" /\ left' = ScanStages
       [] pc = "clear"  -> pc' = "stages" /\ UNCHANGED left
       [] pc = "finish" -> pc' = "report" /\ UNCHANGED left
       [] OTHER         -> UNCHANGED <<pc, left>>
  /\ UNCHANGED <<exists, process, kind, writes, ran, statuses>>

\* An exception fails the stage it is raised in; elsewhere it ends the process.
StageRaises ==
  /\ pc = "stages"
  /\ Raise
  /\ StageResult("failed")

\* The process ends: it is done, it is killed, or an exception leaves main.
End ==
  /\ pc # "idle"
  /\ Disconnect
  /\ kind' = "none" /\ pc' = "idle"
  /\ UNCHANGED <<exists, process, left, writes, ran, statuses>>

Next ==
  \/ StartScan \/ \E mode \in Mode : StartAnalysis(mode)
  \/ BeginStart \/ BeginClear \/ BeginFinish
  \/ \E batch \in Batch : StagePersists(batch)
  \/ StageAddsFinding \/ StageEnds \/ EndStages
  \/ ExecuteStatement \/ Committed \/ StageRaises \/ End

Spec == Init /\ [][Next]_vars

-----------------------------------------------------------------------------
\* "Re-running replaces the prior AI findings (no duplicates)" (README): wherever a process
\* died before, the findings of an AI stage all come from one process, and an analysis that
\* has its pipeline running keeps none of the earlier ones.
NoPileUp ==
  LET found == db.finding \cap FindingsOf(AiStages)
  IN /\ \A f, g \in found : f[1] = g[1] => f[2] = g[2]
     /\ kind = "analysis" /\ pc \in {"stages", "report"} => \A f \in found : f[2] = process

\* The status of a run tells how its scan went: completed only if every stage of it ran
\* and none failed, with errors only if every stage ran, and it is never changed again.
OutcomeIsHonest ==
  [][/\ db'.run \in {"completed", "completed_with_errors"} /\ db'.run # db.run =>
          /\ kind = "scan" /\ left = << >>
          /\ \A i \in DOMAIN ScanStages : ScanStages[i] \in ran
          /\ db'.run = "completed" <=> "failed" \notin statuses
     /\ db.run \in {"completed", "completed_with_errors"} => db'.run = db.run]_vars

\* An analysis changes nothing of what the tools stored: it adds and removes AI findings.
ScanIsKept ==
  [][kind = "analysis" =>
       /\ db'.finding \ FindingsOf(AiStages) = db.finding \ FindingsOf(AiStages)
       /\ [db' EXCEPT !.finding = {}] = [db EXCEPT !.finding = {}]]_vars
=============================================================================
