--------------------------- MODULE AgenticPentest ---------------------------
(***************************************************************************)
(* The agentic mode of ai_pentest: plan, probe and observe in rounds, with a *)
(* checkpoint file after each round; a quota error or the soft cap on AI     *)
(* calls pauses the stage, and a re-run of the analysis resumes it.  The     *)
(* process may die at any step, and the checkpoint may fail to be written.   *)
(***************************************************************************)
EXTENDS Naturals, Sequences, FiniteSets

CONSTANTS MaxRequests,   \* agentic.max_requests: the request budget
          MaxIterations, \* agentic.max_iterations
          PerIteration,  \* agentic.per_iteration_actions
          MaxAiCalls,    \* agentic.max_ai_calls, 0 for no soft cap
          TwoStage,      \* two_stage: a second, verifying AI call
          Seed,          \* the fuzzing words the AI may propose
          MaxFaults      \* bound: deaths of the process, checkpoints not written or not removed

ASSUME PentestAssumption ==
  /\ MaxRequests \in Nat /\ MaxIterations \in Nat /\ PerIteration \in Nat
  /\ MaxAiCalls \in Nat /\ MaxFaults \in Nat
  /\ TwoStage \in BOOLEAN
  /\ IsFiniteSet(Seed)

VARIABLES
  pc,         \* where the stage is; "idle" when no process runs
  ended,      \* how the last process ended
  transcript, \* memory: the length of the transcript, refused steps included
  outer,      \* memory: the seeds of _run_agentic
  inner,      \* memory: the seeds _agentic_loop works on (seed_sets)
  iteration,  \* memory: counters["iteration"]
  loopDone,   \* memory: loop_done
  calls,      \* memory: counters["calls"]
  count,      \* memory: AgentHttp.count, the requests charged to the budget
  plan,       \* memory: what is left of the current plan
  vulns,      \* memory: the synthesis reports vulnerabilities
  disk,       \* agentic_state.json: absent, torn, or a checkpoint
  logged,     \* store: the transcript lengths of the agent_log findings
  reports,    \* store: how many times vulnerabilities were added
  exported,   \* the seeds merged into the wordlist files
  sent,       \* requests that reached the target since the last finished analysis
  faults,     \* deaths and failed writes so far
  wipes       \* faults that left neither checkpoint nor findings

loopState == <<transcript, inner, count, plan>>
memory == <<transcript, outer, inner, iteration, loopDone, calls, count, plan, vulns>>
store == <<logged, reports>>
faulty == <<faults, wipes>>
vars == <<pc, ended, transcript, outer, inner, iteration, loopDone, calls, count, plan, vulns,
          disk, logged, reports, exported, sent, faults, wipes>>

Absent == [kind |-> "absent"]
Torn == [kind |-> "torn"]
Checkpoint(t, s, i, d) ==
  [kind |-> "checkpoint", transcript |-> t, seeds |-> s, iteration |-> i, loopDone |-> d]
Saved(file) == file.kind = "checkpoint"

\* _load_state: a missing or unreadable file gives the state of a first run.
Loaded(file) == IF Saved(file) THEN file ELSE Checkpoint(0, {}, 0, FALSE)

\* _save_state: write_text replaces the file, or fails silently and leaves either
\* the old file or a truncated one.
Save(checkpoint) ==
  \/ disk' = checkpoint /\ UNCHANGED faulty
  \/ /\ faults < MaxFaults
     /\ faults' = faults + 1
     /\ \/ disk' = disk /\ wipes' = wipes
        \/ disk' = Torn /\ wipes' = wipes + 1

NoPlan == [left |-> 0, empty |-> TRUE, done |-> FALSE]
BudgetSpent == count >= MaxRequests

\* The memory of a process that does not run.
Forgotten ==
  /\ transcript' = 0 /\ outer' = {} /\ inner' = {} /\ iteration' = 0 /\ loopDone' = FALSE
  /\ calls' = 0 /\ count' = 0 /\ plan' = NoPlan /\ vulns' = FALSE

-----------------------------------------------------------------------------
Init ==
  /\ pc = "idle" /\ ended = "never"
  /\ transcript = 0 /\ outer = {} /\ inner = {} /\ iteration = 0 /\ loopDone = FALSE
  /\ calls = 0 /\ count = 0 /\ plan = NoPlan /\ vulns = FALSE
  /\ disk = Absent
  /\ logged = << >> /\ reports = 0 /\ exported = {}
  /\ sent = 0 /\ faults = 0 /\ wipes = 0

\* Mutant of Resume: the probes of earlier processes are not charged to the budget.
ResumeFreshBudget(state) ==
  /\ transcript' = state.transcript
  /\ outer' = state.seeds
  /\ inner' = state.seeds
  /\ iteration' = state.iteration
  /\ loopDone' = state.loopDone
  /\ count' = 0
  /\ pc' = IF state.loopDone THEN "export" ELSE "plan"

\* Mutant of Resume: the transcript starts anew.
ResumeFreshTranscript(state) ==
  /\ transcript' = 0
  /\ outer' = state.seeds
  /\ inner' = state.seeds
  /\ iteration' = state.iteration
  /\ loopDone' = state.loopDone
  /\ count' = state.transcript
  /\ pc' = IF state.loopDone THEN "export" ELSE "plan"

\* Mutant of Resume: a loop that was done is entered again.
ResumeInLoop(state) ==
  /\ transcript' = state.transcript
  /\ outer' = state.seeds
  /\ inner' = state.seeds
  /\ iteration' = 0
  /\ loopDone' = FALSE
  /\ count' = state.transcript
  /\ pc' = "plan"

\* What a process takes from the checkpoint file.
Resume(state) ==
  /\ transcript' = state.transcript
  /\ outer' = state.seeds
  /\ inner' = state.seeds
  /\ iteration' = state.iteration
  /\ loopDone' = state.loopDone
  /\ count' = state.transcript
  /\ pc' = IF state.loopDone THEN "export" ELSE "plan"

\* Mutant of Start: the findings of the previous analysis are kept.
StartKeepingFindings ==
  /\ pc = "idle"
  /\ Resume(Loaded(disk))
  /\ calls' = 0 /\ plan' = NoPlan /\ vulns' = FALSE
  /\ sent' = IF ended \in {"never", "finished"} THEN 0 ELSE sent
  /\ UNCHANGED <<ended, disk, store, exported, faulty>>

\* The analysis is run, or run again on the same run id: its old findings are
\* cleared, and the stage starts from the checkpoint if there is one to read.
Start ==
  /\ pc = "idle"
  /\ Resume(Loaded(disk))
  /\ calls' = 0 /\ plan' = NoPlan /\ vulns' = FALSE
  /\ logged' = << >> /\ reports' = 0
  /\ sent' = IF ended \in {"never", "finished"} THEN 0 ELSE sent
  /\ UNCHANGED <<ended, disk, exported, faulty>>

\* _ai_call: the soft cap comes first, then the call is counted and made.
Capped == MaxAiCalls # 0 /\ calls >= MaxAiCalls
Answered == ~Capped /\ calls' = calls + 1

\* Each iteration asks for a plan: proposed seeds and at most PerIteration actions.
InPlan == pc = "plan" /\ iteration < MaxIterations

PlanAnswered ==
  /\ InPlan
  /\ Answered
  /\ \E proposed \in SUBSET Seed, n \in 0 .. PerIteration, done \in BOOLEAN :
       /\ inner' = inner \cup proposed
       /\ plan' = [left |-> n, empty |-> n = 0, done |-> done]
  /\ pc' = "probe"
  /\ UNCHANGED <<ended, transcript, outer, iteration, loopDone, count, vulns, disk, store,
                 exported, sent, faulty>>

\* One action of the plan: sent and charged, or refused by a guard; both are logged.
Probe ==
  /\ pc = "probe"
  /\ plan.left > 0
  /\ ~BudgetSpent
  /\ \E cost \in {0, 1} : count' = count + cost /\ sent' = sent + cost
  /\ transcript' = transcript + 1
  /\ plan' = [plan EXCEPT !.left = @ - 1]
  /\ UNCHANGED <<pc, ended, outer, inner, iteration, loopDone, calls, vulns, disk, store,
                 exported, faulty>>

\* The round is over: the plan or the budget is exhausted.
RoundOver == pc = "probe" /\ (plan.left = 0 \/ BudgetSpent)

\* The round is checkpointed, and the loop goes
\* on unless the AI is done, planned nothing, or the budget is spent.
EndIteration ==
  /\ RoundOver
  /\ iteration' = iteration + 1
  /\ Save(Checkpoint(transcript, inner, iteration + 1, FALSE))
  /\ pc' = IF plan.done \/ plan.empty \/ BudgetSpent THEN "loopEnd" ELSE "plan"
  /\ plan' = NoPlan
  /\ UNCHANGED <<ended, transcript, outer, inner, loopDone, calls, count, vulns, store, exported, sent>>

LoopOver == pc = "loopEnd" \/ (pc = "plan" /\ iteration >= MaxIterations)

\* The loop returns its transcript and seeds, and is checkpointed as done.
EndLoop ==
  /\ LoopOver
  /\ outer' = inner
  /\ loopDone' = TRUE
  /\ Save(Checkpoint(transcript, inner, iteration, TRUE))
  /\ pc' = "export"
  /\ UNCHANGED <<ended, transcript, inner, iteration, calls, count, plan, vulns, store, exported, sent>>

\* The seeds join the wordlist files, and the final analysis is asked for.
Export ==
  /\ pc = "export"
  /\ exported' = exported \cup outer
  /\ pc' = "synthesize"
  /\ UNCHANGED <<ended, memory, disk, store, sent, faulty>>

Synthesized ==
  /\ pc = "synthesize"
  /\ Answered
  /\ vulns' \in BOOLEAN
  /\ pc' = IF TwoStage /\ vulns' THEN "verify" ELSE "clear"
  /\ UNCHANGED <<ended, transcript, outer, inner, iteration, loopDone, count, plan, disk, store,
                 exported, sent, faulty>>

\* The second pass may drop every vulnerability; out of quota, the first one stands.
Verified ==
  /\ pc = "verify"
  /\ vulns' \in BOOLEAN
  /\ pc' = "clear"
  /\ UNCHANGED <<ended, transcript, outer, inner, iteration, loopDone, calls, count, plan, disk,
                 store, exported, sent, faulty>>

\* The soft cap or a quota error stops the plan or the synthesis.
OutOfQuota ==
  /\ InPlan \/ pc = "synthesize"
  /\ pc' = "pause"
  /\ UNCHANGED <<ended, memory, disk, store, exported, sent, faulty>>

\* Mutant of Pause: the checkpoint forgets that the loop was done.
PauseInLoop ==
  /\ pc = "pause"
  /\ Save(Checkpoint(transcript, outer, iteration, FALSE))
  /\ pc' = "logPause"
  /\ UNCHANGED <<ended, memory, store, exported, sent>>

\* Mutant of Pause: only the seeds are saved, the counters are those of a new loop.
PauseFromScratch ==
  /\ pc = "pause"
  /\ Save(Checkpoint(0, outer, 0, FALSE))
  /\ pc' = "logPause"
  /\ UNCHANGED <<ended, memory, store, exported, sent>>

\* The pause is checkpointed with the state _run_agentic holds...
Pause ==
  /\ pc = "pause"
  /\ Save(Checkpoint(transcript, outer, iteration, loopDone))
  /\ pc' = "logPause"
  /\ UNCHANGED <<ended, memory, store, exported, sent>>

\* The probe transcript becomes a finding, unless it is empty.
LogTranscript == logged' = IF transcript > 0 THEN Append(logged, transcript) ELSE logged

\* ...and the probes gathered so far are recorded; the stage succeeds, paused.
LogPause ==
  /\ pc = "logPause"
  /\ LogTranscript
  /\ ended' = "paused"
  /\ pc' = "idle"
  /\ Forgotten
  /\ UNCHANGED <<disk, reports, exported, sent, faulty>>

\* The analysis is complete: the checkpoint goes first, or cannot be removed...
Clear ==
  /\ pc = "clear"
  /\ \/ disk' = Absent /\ UNCHANGED faulty
     \/ /\ faults < MaxFaults
        /\ faults' = faults + 1
        /\ UNCHANGED <<disk, wipes>>
  /\ pc' = "persist"
  /\ UNCHANGED <<ended, memory, store, exported, sent>>

\* ...then its findings are added: vulnerabilities and probe transcript.
Persist ==
  /\ pc = "persist"
  /\ reports' = IF vulns THEN reports + 1 ELSE reports
  /\ LogTranscript
  /\ ended' = "finished"
  /\ pc' = "idle"
  /\ Forgotten
  /\ UNCHANGED <<disk, exported, sent, faulty>>

\* Another provider error fails the stage; the checkpoint stays as it is.
ProviderFails ==
  /\ \/ InPlan /\ ~Capped
     \/ pc = "synthesize" /\ ~Capped
     \/ pc = "verify"
  /\ ended' = "failed"
  /\ pc' = "idle"
  /\ Forgotten
  /\ UNCHANGED <<disk, store, exported, sent, faulty>>

Writing == RoundOver \/ LoopOver \/ pc = "pause"

\* The process dies, or an unexpected exception ends the stage; in the middle of a
\* write, it leaves a truncated checkpoint, and before Persist it leaves none.
Die ==
  /\ pc # "idle"
  /\ faults < MaxFaults
  /\ faults' = faults + 1
  /\ \/ disk' = disk /\ wipes' = IF pc = "persist" THEN wipes + 1 ELSE wipes
     \/ Writing /\ disk' = Torn /\ wipes' = wipes + 1
  /\ ended' = "died"
  /\ pc' = "idle"
  /\ Forgotten
  /\ UNCHANGED <<store, exported, sent>>

Next ==
  \/ Start \/ PlanAnswered \/ Probe \/ EndIteration \/ EndLoop
  \/ Export \/ Synthesized \/ Verified \/ Clear \/ Persist
  \/ OutOfQuota \/ Pause \/ LogPause \/ ProviderFails \/ Die

\* A process that runs goes on, the operator re-runs what did not finish, and the AI
\* provider answers each kind of call if it is asked again and again.
Spec ==
  /\ Init /\ [][Next]_vars
  /\ WF_vars(Next)
  /\ SF_vars(PlanAnswered) /\ SF_vars(Synthesized) /\ SF_vars(Verified)

-----------------------------------------------------------------------------
\* The longest transcript the rounds can log.
MaxSteps == PerIteration * MaxIterations

Files ==
  {Absent, Torn} \cup
    [kind : {"checkpoint"}, transcript : 0 .. MaxSteps, seeds : SUBSET Seed,
     iteration : 0 .. MaxIterations, loopDone : BOOLEAN]

\* The counters of the loop stay within the configured limits, in memory and on disk.
TypeOK ==
  /\ pc \in {"idle", "plan", "probe", "loopEnd", "export", "synthesize", "verify", "clear",
             "persist", "pause", "logPause"}
  /\ ended \in {"never", "paused", "failed", "finished", "died"}
  /\ transcript \in 0 .. MaxSteps
  /\ outer \subseteq Seed /\ inner \subseteq Seed /\ exported \subseteq Seed
  /\ iteration \in 0 .. MaxIterations
  /\ loopDone \in BOOLEAN /\ vulns \in BOOLEAN
  /\ calls \in 0 .. MaxIterations + 1
  /\ count \in 0 .. MaxSteps
  /\ plan \in [left : 0 .. PerIteration, empty : BOOLEAN, done : BOOLEAN]
  /\ disk \in Files
  /\ logged \in Seq(0 .. MaxSteps)
  /\ reports \in Nat /\ sent \in Nat
  /\ faults \in 0 .. MaxFaults /\ wipes \in 0 .. faults

\* The requests that the faults so far may have made the checkpoint forget.
Lost == PerIteration * faults + MaxRequests * wipes

\* The budget is "a hard cap on total requests per run" to which "prior probes count"
\* (AgentHttp, _agentic_loop): over all the processes of an analysis it is exceeded
\* only by the unsaved round that a fault loses, or the whole transcript that it loses
\* when it tears the checkpoint or falls between Clear and Persist.
BudgetBounded == sent <= MaxRequests + Lost

\* A checkpoint that replaces another never forgets progress: neither probes, nor
\* iterations, nor that the loop is done (what _run_agentic resumes from).
CheckpointNeverRegresses ==
  [][(Saved(disk) /\ Saved(disk')) =>
       /\ disk'.transcript >= disk.transcript
       /\ disk'.iteration >= disk.iteration
       /\ disk.loopDone => disk'.loopDone]_vars

\* Once the loop is checkpointed as done, the target is not probed again: a resumed
\* analysis only has its synthesis left.
NoProbesAfterLoop ==
  [][sent' > sent => ~(Saved(disk) /\ disk.loopDone)]_vars

\* However often the analysis is paused, failed and run again, its findings hold one
\* transcript and one set of vulnerabilities at most (_run_ai_only replaces them).
NoDuplicateFindings == Len(logged) <= 1 /\ reports <= 1

\* As long as nothing is lost to a fault, a stage that pauses or finishes leaves a
\* transcript finding that covers every request ever sent for this analysis.
EvidenceIsReported ==
  (pc = "idle" /\ ended \in {"paused", "finished"} /\ faults = 0 /\ sent > 0) =>
    /\ logged # << >>
    /\ logged[Len(logged)] >= sent

\* Re-running the analysis makes progress even when each process may only make
\* MaxAiCalls calls: findings are persisted in the end, again and again.
AnalysisFinishes == []<>(pc = "persist")

\* The loop is "Resumable: transcript/seeds carry prior state" (_agentic_loop): a
\* checkpoint that replaces another never forgets a proposed seed.
CheckpointKeepsSeeds ==
  [][(Saved(disk) /\ Saved(disk')) => disk.seeds \subseteq disk'.seeds]_vars
=============================================================================
