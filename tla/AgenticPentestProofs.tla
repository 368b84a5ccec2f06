------------------------ MODULE AgenticPentestProofs ------------------------
(***************************************************************************)
(* Proofs about the agentic stage, for every budget, number of iterations,  *)
(* soft cap and set of seeds, and for any number of faults: the budget over *)
(* all the processes of an analysis, what a checkpoint may replace, and      *)
(* what the findings hold.                                                  *)
(***************************************************************************)
EXTENDS AgenticPentest, ListProofs

-----------------------------------------------------------------------------
\* The longest transcript that n rounds can log.
Steps(n) == PerIteration * n

\* The transcript a process would resume from.
OnDisk == IF Saved(disk) THEN disk.transcript ELSE 0

\* A round starts when some are left, and no round logs more than PerIteration steps.
RoundInv ==
  /\ pc = "idle" => transcript = 0 /\ iteration = 0 /\ calls = 0 /\ count = 0
  /\ pc = "probe" => /\ iteration < MaxIterations
                     /\ transcript + plan.left <= Steps(iteration + 1)
                     /\ calls <= iteration + 1
  /\ pc # "probe" => transcript <= Steps(iteration)
  /\ pc \in {"plan", "loopEnd", "export", "synthesize"} => calls <= iteration
  /\ Saved(disk) => disk.transcript <= Steps(disk.iteration)

\* The checkpoint is never ahead of the process that runs.
CheckpointInv ==
  /\ pc \in {"plan", "probe", "loopEnd"} => ~loopDone
  /\ pc \in {"export", "synthesize", "verify", "clear", "persist"} => loopDone
  /\ pc # "idle" /\ Saved(disk) =>
       /\ disk.transcript <= transcript
       /\ disk.iteration <= iteration
       /\ disk.loopDone => loopDone

\* Requests sent are charged, logged, checkpointed, or lost to a fault.
BudgetInv ==
  /\ BudgetBounded
  /\ pc # "idle" => sent <= count + Lost /\ count <= transcript
  /\ pc = "probe" => sent + plan.left <= OnDisk + PerIteration + Lost
  /\ (pc \notin {"probe", "persist"} /\ ~(pc = "idle" /\ ended = "finished"))
       => sent <= OnDisk + Lost
  /\ pc = "idle" /\ ended = "never" => sent = 0

\* The findings are written once, by the last step of a process.
FindingInv ==
  /\ NoDuplicateFindings
  /\ EvidenceIsReported
  /\ pc # "idle" => logged = << >> /\ reports = 0

Inv == TypeOK /\ RoundInv /\ CheckpointInv /\ BudgetInv /\ FindingInv

-----------------------------------------------------------------------------
\* Each round adds PerIteration steps at most.
LEMMA Rounding ==
  /\ MaxSteps \in Nat /\ Steps(0) = 0
  /\ \A n \in Nat : Steps(n) \in Nat /\ Steps(n + 1) = Steps(n) + PerIteration
<1>1. MaxIterations \in Nat /\ PerIteration \in Nat
  BY PentestAssumption
<1>2. \A n \in Nat : PerIteration * n \in Nat
  BY <1>1
<1> QED  BY <1>1, <1>2 DEF MaxSteps, Steps

\* No number of rounds that the loop allows exceeds the longest transcript.
LEMMA StepsGrow ==
  ASSUME NEW n \in Nat, n <= MaxIterations
  PROVE  Steps(n) <= MaxSteps
<1>1. MaxIterations \in Nat /\ PerIteration \in Nat /\ MaxIterations - n \in Nat
  BY PentestAssumption
<1>2. PerIteration * MaxIterations = PerIteration * n + PerIteration * (MaxIterations - n)
  BY <1>1
<1>3. PerIteration * n \in Nat /\ PerIteration * (MaxIterations - n) \in Nat
  BY <1>1
<1> QED  BY <1>2, <1>3 DEF Steps, MaxSteps

\* What a fault adds to the requests that may be lost.
LEMMA LostGrows ==
  ASSUME TypeOK
  PROVE  /\ Lost \in Nat
         /\ faults' = faults /\ wipes' = wipes => Lost' = Lost
         /\ faults' = faults + 1 /\ wipes' = wipes => Lost' = Lost + PerIteration
         /\ faults' = faults + 1 /\ wipes' = wipes + 1 => Lost' = Lost + PerIteration + MaxRequests
<1>1. faults \in Nat /\ wipes \in Nat /\ MaxRequests \in Nat /\ PerIteration \in Nat
  BY PentestAssumption DEF TypeOK
<1>2. PerIteration * faults \in Nat /\ MaxRequests * wipes \in Nat
  BY <1>1
<1>3. /\ PerIteration * (faults + 1) = PerIteration * faults + PerIteration
      /\ MaxRequests * (wipes + 1) = MaxRequests * wipes + MaxRequests
  BY <1>1
<1> QED  BY <1>1, <1>2, <1>3 DEF Lost

\* A checkpoint file is absent, torn, or a checkpoint whose fields are of their types.
LEMMA FileFacts ==
  /\ Absent \in Files /\ ~Saved(Absent)
  /\ Torn \in Files /\ ~Saved(Torn)
  /\ \A f \in Files : Saved(f) => /\ f.transcript \in 0 .. MaxSteps
                                  /\ f.seeds \subseteq Seed
                                  /\ f.iteration \in 0 .. MaxIterations
                                  /\ f.loopDone \in BOOLEAN
  /\ \A t \in 0 .. MaxSteps, s \in SUBSET Seed,
        i \in 0 .. MaxIterations, d \in BOOLEAN : Checkpoint(t, s, i, d) \in Files
  /\ \A t, s, i, d : /\ Saved(Checkpoint(t, s, i, d))
                     /\ Checkpoint(t, s, i, d).transcript = t
                     /\ Checkpoint(t, s, i, d).seeds = s
                     /\ Checkpoint(t, s, i, d).iteration = i
                     /\ Checkpoint(t, s, i, d).loopDone = d
BY DEF Absent, Torn, Files, Saved, Checkpoint

\* What a process resumes from is within the limits, whatever is left of the file.
LEMMA LoadedFacts ==
  ASSUME TypeOK, RoundInv
  PROVE  /\ Loaded(disk).transcript = OnDisk
         /\ Loaded(disk).transcript \in 0 .. MaxSteps
         /\ Loaded(disk).seeds \subseteq Seed
         /\ Loaded(disk).iteration \in 0 .. MaxIterations
         /\ Loaded(disk).loopDone \in BOOLEAN
         /\ Loaded(disk).transcript <= Steps(Loaded(disk).iteration)
<1>1. CASE Saved(disk)
  <2>1. Loaded(disk) = disk /\ OnDisk = disk.transcript /\ disk \in Files
    BY <1>1 DEF Loaded, OnDisk, TypeOK
  <2>2. disk.transcript <= Steps(disk.iteration)
    BY <1>1 DEF RoundInv
  <2> QED  BY <1>1, <2>1, <2>2, FileFacts
<1>2. CASE ~Saved(disk)
  <2>1. Loaded(disk) = Checkpoint(0, {}, 0, FALSE) /\ OnDisk = 0
    BY <1>2 DEF Loaded, OnDisk
  <2>2. /\ Checkpoint(0, {}, 0, FALSE).transcript = 0
        /\ Checkpoint(0, {}, 0, FALSE).seeds = {}
        /\ Checkpoint(0, {}, 0, FALSE).iteration = 0
        /\ Checkpoint(0, {}, 0, FALSE).loopDone = FALSE
    BY DEF Checkpoint
  <2>3. 0 \in 0 .. MaxSteps /\ 0 \in 0 .. MaxIterations /\ 0 <= Steps(0)
    BY Rounding, PentestAssumption
  <2> QED  BY <2>1, <2>2, <2>3
<1> QED  BY <1>1, <1>2

\* A plan of the AI, and the plan of a process that has none.
Plans == [left : 0 .. PerIteration, empty : BOOLEAN, done : BOOLEAN]

\* The empty plan is one, and so is what an action leaves of a plan.
LEMMA PlanFacts ==
  /\ NoPlan \in Plans /\ NoPlan.left = 0
  /\ \A n \in 0 .. PerIteration, e \in BOOLEAN, d \in BOOLEAN :
       LET p == [left |-> n, empty |-> e, done |-> d] IN p \in Plans /\ p.left = n
  /\ \A p \in Plans : /\ p.left \in 0 .. PerIteration
                      /\ p.left > 0 => /\ [p EXCEPT !.left = @ - 1] \in Plans
                                       /\ [p EXCEPT !.left = @ - 1].left = p.left - 1
<1>1. PerIteration \in Nat /\ 0 \in 0 .. PerIteration
  BY PentestAssumption
<1>2. NoPlan \in Plans /\ NoPlan.left = 0
  BY <1>1 DEF NoPlan, Plans
<1>3. ASSUME NEW p \in Plans
      PROVE  /\ p.left \in 0 .. PerIteration
             /\ p.left > 0 => /\ [p EXCEPT !.left = @ - 1] \in Plans
                              /\ [p EXCEPT !.left = @ - 1].left = p.left - 1
  <2>1. p.left \in 0 .. PerIteration
    BY DEF Plans
  <2>2. ASSUME p.left > 0 PROVE p.left - 1 \in 0 .. PerIteration
    BY <1>1, <2>1, <2>2
  <2> QED  BY <2>1, <2>2 DEF Plans
<1> QED  BY <1>2, <1>3 DEF Plans

\* The counters as numbers, and what the rounds leave of the limit.
LEMMA Numbers ==
  ASSUME TypeOK
  PROVE  /\ MaxIterations \in Nat /\ PerIteration \in Nat /\ MaxRequests \in Nat
         /\ MaxSteps \in Nat
         /\ iteration \in Nat /\ iteration <= MaxIterations
         /\ transcript \in Nat /\ transcript <= MaxSteps
         /\ count \in Nat /\ count <= MaxSteps
         /\ calls \in Nat /\ calls <= MaxIterations + 1
         /\ plan \in Plans /\ plan.left \in Nat /\ plan.left <= PerIteration
         /\ sent \in Nat /\ Lost \in Nat /\ OnDisk \in Nat /\ OnDisk <= MaxSteps
         /\ Steps(iteration) \in Nat
         /\ Steps(iteration + 1) = Steps(iteration) + PerIteration
         /\ iteration < MaxIterations => Steps(iteration + 1) <= MaxSteps
         /\ Steps(iteration) <= MaxSteps
<1>1. MaxIterations \in Nat /\ PerIteration \in Nat /\ MaxRequests \in Nat /\ MaxSteps \in Nat
  BY Rounding, PentestAssumption
<1>2. /\ iteration \in Nat /\ iteration <= MaxIterations
      /\ transcript \in Nat /\ transcript <= MaxSteps
      /\ count \in Nat /\ count <= MaxSteps
      /\ calls \in Nat /\ calls <= MaxIterations + 1
      /\ sent \in Nat
  BY <1>1 DEF TypeOK
<1>3. plan \in Plans /\ plan.left \in Nat /\ plan.left <= PerIteration
  BY <1>1, PlanFacts DEF TypeOK, Plans
<1>4. OnDisk \in Nat /\ OnDisk <= MaxSteps
  <2>1. disk \in Files  BY DEF TypeOK
  <2>2. Saved(disk) => disk.transcript \in 0 .. MaxSteps  BY <2>1, FileFacts
  <2> QED  BY <1>1, <2>2 DEF OnDisk
<1>5. Lost \in Nat
  BY LostGrows
<1>6. Steps(iteration) \in Nat /\ Steps(iteration + 1) = Steps(iteration) + PerIteration
  BY <1>2, Rounding
<1>7. Steps(iteration) <= MaxSteps
  BY <1>2, StepsGrow
<1>8. ASSUME iteration < MaxIterations PROVE Steps(iteration + 1) <= MaxSteps
  <2>1. iteration + 1 \in Nat /\ iteration + 1 <= MaxIterations
    BY <1>1, <1>2, <1>8
  <2> QED  BY <2>1, StepsGrow
<1> QED  BY <1>1, <1>2, <1>3, <1>4, <1>5, <1>6, <1>7, <1>8

\* After a write the file is the checkpoint, or a fault is counted for what it is instead.
LEMMA SaveFacts ==
  ASSUME TypeOK, NEW c \in Files, Save(c)
  PROVE  /\ disk' \in Files
         /\ faults' \in 0 .. MaxFaults /\ wipes' \in 0 .. faults'
         /\ \/ disk' = c /\ faults' = faults /\ wipes' = wipes
            \/ disk' = disk /\ faults' = faults + 1 /\ wipes' = wipes
            \/ ~Saved(disk') /\ faults' = faults + 1 /\ wipes' = wipes + 1
BY FileFacts, PentestAssumption DEF TypeOK, Save, faulty

-----------------------------------------------------------------------------
\* Before the first process there is nothing to account for.
LEMMA InitInv == Init => Inv
<1> SUFFICES ASSUME Init PROVE Inv
  OBVIOUS
<1>1. TypeOK
  <2>1. logged \in Seq(0 .. MaxSteps)
    BY EmptySeq DEF Init
  <2>2. MaxSteps \in Nat
    BY Rounding
  <2>3. 0 \in 0 .. MaxSteps
    BY <2>2
  <2>4. plan \in [left : 0 .. PerIteration, empty : BOOLEAN, done : BOOLEAN]
    BY PlanFacts DEF Init, Plans
  <2>5. disk \in Files
    BY FileFacts DEF Init
  <2>6. /\ 0 \in 0 .. MaxIterations /\ 0 \in 0 .. MaxIterations + 1
        /\ 0 \in 0 .. MaxFaults /\ 0 \in 0 .. 0
    BY PentestAssumption
  <2> QED  BY <2>1, <2>3, <2>4, <2>5, <2>6 DEF Init, TypeOK
<1>2. RoundInv
  BY FileFacts, Rounding DEF Init, RoundInv
<1>3. CheckpointInv
  BY FileFacts DEF Init, CheckpointInv
<1>4. BudgetInv
  BY <1>1, FileFacts, LostGrows, PentestAssumption DEF Init, BudgetInv, BudgetBounded, OnDisk
<1>5. FindingInv
  BY DEF Init, FindingInv, NoDuplicateFindings, EvidenceIsReported
<1> QED  BY <1>1, <1>2, <1>3, <1>4, <1>5 DEF Inv


\* A process resumes what the checkpoint holds, and is charged for all of it.
LEMMA StartInv == Inv /\ Start => Inv'
<1> SUFFICES ASSUME Inv, Start PROVE Inv'
  OBVIOUS
<1> DEFINE state == Loaded(disk)
<1> HIDE DEF state
<1>a. /\ state.transcript = OnDisk
      /\ state.transcript \in 0 .. MaxSteps
      /\ state.seeds \subseteq Seed
      /\ state.iteration \in 0 .. MaxIterations
      /\ state.loopDone \in BOOLEAN
      /\ state.transcript <= Steps(state.iteration)
  BY LoadedFacts DEF Inv, state
<1>b. /\ pc = "idle"
      /\ transcript' = state.transcript /\ count' = state.transcript
      /\ outer' = state.seeds /\ inner' = state.seeds
      /\ iteration' = state.iteration /\ loopDone' = state.loopDone
      /\ pc' = IF state.loopDone THEN "export" ELSE "plan"
      /\ calls' = 0 /\ plan' = NoPlan /\ vulns' = FALSE
      /\ logged' = << >> /\ reports' = 0
      /\ sent' = IF ended \in {"never", "finished"} THEN 0 ELSE sent
      /\ UNCHANGED <<ended, disk, exported, faults, wipes>>
  BY DEF Start, Resume, faulty, state
<1> HIDE DEF state
<1>1. TypeOK'
  <2>1. logged' \in Seq(0 .. MaxSteps)
    <3>1. << >> \in Seq(0 .. MaxSteps)  BY EmptySeq
    <3> QED  BY <1>b, <3>1
  <2>2. NoPlan \in [left : 0 .. PerIteration, empty : BOOLEAN, done : BOOLEAN]
    BY PlanFacts DEF Plans
  <2>3. pc' \in {"plan", "export"}
    BY <1>b
  <2>4. calls' \in 0 .. MaxIterations + 1
    BY <1>b, PentestAssumption
  <2>5. sent' \in Nat
    BY <1>b DEF Inv, TypeOK
  <2> QED  BY <1>a, <1>b, <2>1, <2>2, <2>3, <2>4, <2>5 DEF Inv, TypeOK
<1>2. RoundInv'
  BY <1>a, <1>b DEF Inv, TypeOK, RoundInv
<1>3. CheckpointInv'
  <2>1. Saved(disk) => state = disk
    BY DEF state, Loaded
  <2>2. Saved(disk)' = Saved(disk) /\ disk' = disk
    BY <1>b DEF Saved
  <2>3. pc' \in {"plan", "export"} /\ (pc' = "export" => loopDone') /\ (pc' = "plan" => ~loopDone')
    BY <1>a, <1>b
  <2>4. ASSUME Saved(disk)
        PROVE  /\ disk.transcript <= transcript' /\ disk.iteration <= iteration'
               /\ disk.loopDone => loopDone'
    <3>1. state = disk  BY <2>1, <2>4
    <3>2. transcript' = disk.transcript /\ iteration' = disk.iteration /\ loopDone' = disk.loopDone
      BY <3>1, <1>b
    <3>3. disk.transcript \in Nat /\ disk.iteration \in Nat
      BY <3>1, <1>a, Rounding, PentestAssumption
    <3> QED  BY <3>2, <3>3
  <2> QED  BY <2>2, <2>3, <2>4 DEF CheckpointInv
<1>4. BudgetInv'
  BY <1>a, <1>b, LostGrows, PentestAssumption DEF Inv, TypeOK, BudgetInv, BudgetBounded, OnDisk
<1>5. FindingInv'
  BY <1>b DEF Inv, FindingInv, NoDuplicateFindings, EvidenceIsReported
<1> QED  BY <1>1, <1>2, <1>3, <1>4, <1>5 DEF Inv

\* A plan has at most PerIteration actions.
LEMMA PlanAnsweredInv == Inv /\ PlanAnswered => Inv'
<1> SUFFICES ASSUME Inv, PlanAnswered PROVE Inv'
  OBVIOUS
<1>1. TypeOK'
  <2>1. calls <= iteration /\ iteration < MaxIterations
    BY DEF Inv, RoundInv, PlanAnswered, InPlan
  <2>2. calls' \in 0 .. MaxIterations + 1
    BY <2>1, Numbers DEF Inv, PlanAnswered, Answered
  <2>3. inner' \subseteq Seed
    BY DEF Inv, TypeOK, PlanAnswered
  <2>4. plan' \in Plans
    BY PlanFacts DEF PlanAnswered, Plans
  <2> QED  BY <2>2, <2>3, <2>4 DEF Inv, TypeOK, Plans, PlanAnswered, store, faulty
<1>2. RoundInv'
  <2>1. /\ pc = "plan" /\ iteration < MaxIterations /\ pc' = "probe" /\ calls' = calls + 1
        /\ UNCHANGED <<transcript, iteration, count, disk>>
    BY DEF PlanAnswered, InPlan, Answered
  <2>2. plan'.left <= PerIteration /\ plan'.left \in Nat
    BY <1>1, Numbers, PlanFacts DEF TypeOK, Plans
  <2>3. transcript <= Steps(iteration) /\ calls <= iteration
    BY <2>1 DEF Inv, RoundInv
  <2>4. transcript + plan'.left <= Steps(iteration + 1) /\ calls + 1 <= iteration + 1
    BY <2>2, <2>3, Numbers DEF Inv
  <2>5. Saved(disk)' => disk'.transcript <= Steps(disk'.iteration)
    BY <2>1 DEF Inv, RoundInv, Saved
  <2> QED  BY <2>1, <2>4, <2>5 DEF RoundInv, Steps
<1>3. CheckpointInv'
  BY FileFacts DEF Inv, TypeOK, RoundInv, CheckpointInv, PlanAnswered, Answered, InPlan,
       store, faulty, Capped
<1>4. BudgetInv'
  <2>1. /\ pc = "plan" /\ pc' = "probe"
        /\ UNCHANGED <<transcript, count, disk, sent, faults, wipes, ended>>
    BY DEF PlanAnswered, InPlan, faulty
  <2>2. plan'.left \in Nat /\ plan'.left <= PerIteration
    BY <1>1, PentestAssumption, PlanFacts DEF TypeOK, Plans
  <2>3. OnDisk' = OnDisk /\ Lost' = Lost
    BY <2>1, LostGrows DEF OnDisk, Saved, Inv
  <2>4. /\ sent <= MaxRequests + Lost /\ sent <= count + Lost /\ count <= transcript
        /\ sent <= OnDisk + Lost
    BY <2>1 DEF Inv, BudgetInv, BudgetBounded
  <2>5. sent + plan'.left <= OnDisk + PerIteration + Lost
    BY <2>2, <2>4, Numbers DEF Inv
  <2> QED  BY <2>1, <2>3, <2>4, <2>5 DEF BudgetInv, BudgetBounded
<1>5. FindingInv'
  BY LostGrows DEF Inv, TypeOK, FindingInv, NoDuplicateFindings, EvidenceIsReported,
       PlanAnswered, Answered, InPlan, store, faulty, Capped
<1> QED  BY <1>1, <1>2, <1>3, <1>4, <1>5 DEF Inv

\* A request is sent only while the budget is not spent, and is charged and logged.
LEMMA ProbeInv == Inv /\ Probe => Inv'
<1> SUFFICES ASSUME Inv, Probe PROVE Inv'
  OBVIOUS
<1>1. TypeOK'
  <2>1. pc = "probe" /\ plan.left > 0 /\ iteration < MaxIterations
    BY DEF Inv, RoundInv, Probe
  <2>2. transcript + plan.left <= Steps(iteration + 1) /\ Steps(iteration + 1) <= MaxSteps
    BY <2>1, Numbers DEF Inv, RoundInv
  <2>3. transcript + 1 \in 0 .. MaxSteps
    BY <2>1, <2>2, Numbers DEF Inv
  <2>4. count <= transcript
    BY <2>1 DEF Inv, BudgetInv
  <2>5. count' \in 0 .. MaxSteps /\ sent' \in Nat
    BY <2>3, <2>4, Numbers DEF Inv, Probe
  <2>6. plan' \in Plans
    BY <2>1, Numbers, PlanFacts DEF Inv, Probe
  <2> QED  BY <2>3, <2>5, <2>6 DEF Inv, TypeOK, Plans, Probe, store, faulty
<1>2. RoundInv'
  BY FileFacts, Rounding, PentestAssumption DEF Inv, TypeOK, RoundInv, Probe, BudgetSpent,
       store, faulty
<1>3. CheckpointInv'
  BY FileFacts DEF Inv, TypeOK, RoundInv, CheckpointInv, Probe, BudgetSpent, store, faulty
<1>4. BudgetInv'
  <2>1. /\ pc = "probe" /\ plan.left > 0 /\ count < MaxRequests
        /\ transcript' = transcript + 1
        /\ UNCHANGED <<pc, disk, faults, wipes, ended>>
    BY Numbers DEF Inv, Probe, BudgetSpent, faulty
  <2>2. \/ count' = count /\ sent' = sent
        \/ count' = count + 1 /\ sent' = sent + 1
    BY Numbers DEF Inv, Probe
  <2>3. plan'.left = plan.left - 1
    BY <2>1, Numbers, PlanFacts DEF Inv, Probe
  <2>4. OnDisk' = OnDisk /\ Lost' = Lost
    BY <2>1, LostGrows DEF OnDisk, Saved, Inv
  <2>5. /\ sent <= MaxRequests + Lost /\ sent <= count + Lost /\ count <= transcript
        /\ sent + plan.left <= OnDisk + PerIteration + Lost
    BY <2>1 DEF Inv, BudgetInv, BudgetBounded
  <2>6. /\ sent' <= MaxRequests + Lost /\ sent' <= count' + Lost /\ count' <= transcript'
        /\ sent' + plan'.left <= OnDisk + PerIteration + Lost
    BY <2>1, <2>2, <2>3, <2>5, Numbers DEF Inv
  <2> QED  BY <2>1, <2>4, <2>6 DEF BudgetInv, BudgetBounded
<1>5. FindingInv'
  BY LostGrows DEF Inv, TypeOK, FindingInv, NoDuplicateFindings, EvidenceIsReported, Probe,
       BudgetSpent, store, faulty
<1> QED  BY <1>1, <1>2, <1>3, <1>4, <1>5 DEF Inv

\* A round is checkpointed, or a fault accounts for it.
LEMMA EndIterationInv == Inv /\ EndIteration => Inv'
<1> SUFFICES ASSUME Inv, EndIteration PROVE Inv'
  OBVIOUS
<1> DEFINE c == Checkpoint(transcript, inner, iteration + 1, FALSE)
<1>a. /\ c \in Files
      /\ pc = "probe" /\ transcript <= Steps(iteration + 1) /\ iteration < MaxIterations
  <2>1. pc = "probe" /\ iteration < MaxIterations /\ transcript + plan.left <= Steps(iteration + 1)
    BY DEF Inv, RoundInv, EndIteration, RoundOver
  <2>2. transcript <= Steps(iteration + 1)
    BY <2>1, Numbers DEF Inv
  <2>3. iteration + 1 \in 0 .. MaxIterations
    BY <2>1, Numbers DEF Inv
  <2> QED  BY <2>1, <2>2, <2>3, FileFacts DEF Inv, TypeOK
<1>b. /\ Saved(c) /\ c.transcript = transcript
      /\ c.iteration = iteration + 1 /\ c.loopDone = FALSE
  BY DEF Saved, Checkpoint
<1>c. /\ disk' \in Files
      /\ faults' \in 0 .. MaxFaults /\ wipes' \in 0 .. faults'
      /\ \/ disk' = c /\ faults' = faults /\ wipes' = wipes
         \/ disk' = disk /\ faults' = faults + 1 /\ wipes' = wipes
         \/ ~Saved(disk') /\ faults' = faults + 1 /\ wipes' = wipes + 1
  BY <1>a, SaveFacts DEF Inv, EndIteration
<1> HIDE DEF c
<1>1. TypeOK'
  <2>1. iteration' \in 0 .. MaxIterations
    BY <1>a, Numbers DEF Inv, EndIteration
  <2>2. plan' \in Plans
    BY PlanFacts DEF EndIteration
  <2> QED  BY <1>c, <2>1, <2>2 DEF Inv, TypeOK, Plans, EndIteration, store
<1>2. RoundInv'
  <2>1. /\ pc' \in {"loopEnd", "plan"} /\ iteration' = iteration + 1
        /\ UNCHANGED <<transcript, calls>>
    BY DEF EndIteration
  <2>2. calls <= iteration + 1
    BY <1>a DEF Inv, RoundInv
  <2>3. Saved(disk) => disk.transcript <= Steps(disk.iteration)
    BY DEF Inv, RoundInv
  <2>4. Saved(disk') => disk'.transcript <= Steps(disk'.iteration)
    BY <1>a, <1>b, <1>c, <2>3
  <2> QED  BY <1>a, <2>1, <2>2, <2>4 DEF RoundInv, Saved, Steps
<1>3. CheckpointInv'
  BY <1>b, <1>c, FileFacts DEF Inv, TypeOK, RoundInv, CheckpointInv, EndIteration,
       BudgetSpent, RoundOver, NoPlan, store
<1>4. BudgetInv'
  <2>1. pc' \notin {"idle", "probe", "persist"} /\ UNCHANGED <<transcript, count, sent, ended>>
    BY DEF EndIteration, RoundOver
  <2>2. /\ pc \in {"probe"}
        /\ sent <= MaxRequests + Lost /\ sent <= count + Lost /\ count <= transcript
        /\ sent + plan.left <= OnDisk + PerIteration + Lost
    BY DEF Inv, BudgetInv, BudgetBounded, EndIteration, RoundOver
  <2>3. \/ OnDisk' = transcript /\ Lost' = Lost
        \/ OnDisk' = OnDisk /\ Lost' = Lost + PerIteration
        \/ OnDisk' = 0 /\ Lost' = Lost + PerIteration + MaxRequests
    BY <1>b, <1>c, LostGrows DEF Inv, OnDisk, Saved
  <2>4. /\ sent <= MaxRequests + Lost' /\ sent <= count + Lost'
        /\ sent <= OnDisk' + Lost'
    BY <2>2, <2>3, Numbers DEF Inv
  <2> QED  BY <2>1, <2>2, <2>4 DEF BudgetInv, BudgetBounded
<1>5. FindingInv'
  BY <1>b, <1>c, LostGrows DEF Inv, TypeOK, FindingInv, NoDuplicateFindings,
       EvidenceIsReported, EndIteration, BudgetSpent, RoundOver, NoPlan, store
<1> QED  BY <1>1, <1>2, <1>3, <1>4, <1>5 DEF Inv

\* The end of the loop is checkpointed, or a fault accounts for it.
LEMMA EndLoopInv == Inv /\ EndLoop => Inv'
<1> SUFFICES ASSUME Inv, EndLoop PROVE Inv'
  OBVIOUS
<1> DEFINE c == Checkpoint(transcript, inner, iteration, TRUE)
<1>a. c \in Files
  BY FileFacts DEF Inv, TypeOK, RoundInv, EndLoop, LoopOver
<1>b. /\ Saved(c) /\ c.transcript = transcript
      /\ c.iteration = iteration /\ c.loopDone = TRUE
  BY DEF Saved, Checkpoint
<1>c. /\ disk' \in Files
      /\ faults' \in 0 .. MaxFaults /\ wipes' \in 0 .. faults'
      /\ \/ disk' = c /\ faults' = faults /\ wipes' = wipes
         \/ disk' = disk /\ faults' = faults + 1 /\ wipes' = wipes
         \/ ~Saved(disk') /\ faults' = faults + 1 /\ wipes' = wipes + 1
  BY <1>a, SaveFacts DEF Inv, EndLoop
<1> HIDE DEF c
<1>1. TypeOK'
  BY <1>b, <1>c, FileFacts, Rounding, PentestAssumption DEF Inv, TypeOK, RoundInv, EndLoop,
       LoopOver, store
<1>2. RoundInv'
  BY <1>b, <1>c, FileFacts, Rounding, PentestAssumption DEF Inv, TypeOK, RoundInv, EndLoop,
       LoopOver, store
<1>3. CheckpointInv'
  BY <1>b, <1>c, FileFacts DEF Inv, TypeOK, RoundInv, CheckpointInv, EndLoop, LoopOver, store
<1>4. BudgetInv'
  <2>1. pc' \notin {"idle", "probe", "persist"} /\ UNCHANGED <<transcript, count, sent, ended>>
    BY DEF EndLoop, LoopOver
  <2>2. /\ pc \in {"plan", "loopEnd"}
        /\ sent <= MaxRequests + Lost /\ sent <= count + Lost /\ count <= transcript
        /\ sent <= OnDisk + Lost
    BY DEF Inv, BudgetInv, BudgetBounded, EndLoop, LoopOver
  <2>3. \/ OnDisk' = transcript /\ Lost' = Lost
        \/ OnDisk' = OnDisk /\ Lost' = Lost + PerIteration
        \/ OnDisk' = 0 /\ Lost' = Lost + PerIteration + MaxRequests
    BY <1>b, <1>c, LostGrows DEF Inv, OnDisk, Saved
  <2>4. /\ sent <= MaxRequests + Lost' /\ sent <= count + Lost'
        /\ sent <= OnDisk' + Lost'
    BY <2>2, <2>3, Numbers DEF Inv
  <2> QED  BY <2>1, <2>2, <2>4 DEF BudgetInv, BudgetBounded
<1>5. FindingInv'
  BY <1>b, <1>c, LostGrows DEF Inv, TypeOK, FindingInv, NoDuplicateFindings,
       EvidenceIsReported, EndLoop, LoopOver, store
<1> QED  BY <1>1, <1>2, <1>3, <1>4, <1>5 DEF Inv

\* Exporting the seeds touches neither counters nor checkpoint.
LEMMA ExportInv == Inv /\ Export => Inv'
<1> SUFFICES ASSUME Inv, Export PROVE Inv'
  OBVIOUS
<1>1. TypeOK'
  BY FileFacts, Rounding, PentestAssumption DEF Inv, TypeOK, RoundInv, Export, memory, store,
       faulty
<1>2. RoundInv'
  BY FileFacts, Rounding, PentestAssumption DEF Inv, TypeOK, RoundInv, Export, memory, store,
       faulty
<1>3. CheckpointInv'
  BY FileFacts DEF Inv, TypeOK, RoundInv, CheckpointInv, Export, memory, store, faulty
<1>4. BudgetInv'
  BY FileFacts, LostGrows, PentestAssumption DEF Inv, TypeOK, BudgetInv, BudgetBounded,
       OnDisk, Export, memory, store, faulty
<1>5. FindingInv'
  BY LostGrows DEF Inv, TypeOK, FindingInv, NoDuplicateFindings, EvidenceIsReported, Export,
       memory, store, faulty
<1> QED  BY <1>1, <1>2, <1>3, <1>4, <1>5 DEF Inv

\* The synthesis is one more AI call.
LEMMA SynthesizedInv == Inv /\ Synthesized => Inv'
<1> SUFFICES ASSUME Inv, Synthesized PROVE Inv'
  OBVIOUS
<1>1. TypeOK'
  <2>1. calls <= iteration
    BY DEF Inv, RoundInv, Synthesized
  <2>2. calls' \in 0 .. MaxIterations + 1
    BY <2>1, Numbers DEF Inv, Synthesized, Answered
  <2> QED  BY <2>2 DEF Inv, TypeOK, Synthesized, store, faulty
<1>2. RoundInv'
  BY FileFacts, Rounding, PentestAssumption DEF Inv, TypeOK, RoundInv, Synthesized, Answered,
       store, faulty, Capped
<1>3. CheckpointInv'
  BY FileFacts DEF Inv, TypeOK, RoundInv, CheckpointInv, Synthesized, Answered, store,
       faulty, Capped
<1>4. BudgetInv'
  BY FileFacts, LostGrows, PentestAssumption DEF Inv, TypeOK, BudgetInv, BudgetBounded,
       OnDisk, Synthesized, Answered, store, faulty, Capped
<1>5. FindingInv'
  BY LostGrows DEF Inv, TypeOK, FindingInv, NoDuplicateFindings, EvidenceIsReported,
       Synthesized, Answered, store, faulty, Capped
<1> QED  BY <1>1, <1>2, <1>3, <1>4, <1>5 DEF Inv

\* The second pass only changes the verdict.
LEMMA VerifiedInv == Inv /\ Verified => Inv'
<1> SUFFICES ASSUME Inv, Verified PROVE Inv'
  OBVIOUS
<1>1. TypeOK'
  BY FileFacts, Rounding, PentestAssumption DEF Inv, TypeOK, RoundInv, Verified, store, faulty
<1>2. RoundInv'
  BY FileFacts, Rounding, PentestAssumption DEF Inv, TypeOK, RoundInv, Verified, store, faulty
<1>3. CheckpointInv'
  BY FileFacts DEF Inv, TypeOK, RoundInv, CheckpointInv, Verified, store, faulty
<1>4. BudgetInv'
  BY FileFacts, LostGrows, PentestAssumption DEF Inv, TypeOK, BudgetInv, BudgetBounded,
       OnDisk, Verified, store, faulty
<1>5. FindingInv'
  BY LostGrows DEF Inv, TypeOK, FindingInv, NoDuplicateFindings, EvidenceIsReported,
       Verified, store, faulty
<1> QED  BY <1>1, <1>2, <1>3, <1>4, <1>5 DEF Inv

\* Removing the checkpoint forgets the transcript until it is persisted.
LEMMA ClearInv == Inv /\ Clear => Inv'
<1> SUFFICES ASSUME Inv, Clear PROVE Inv'
  OBVIOUS
<1>1. TypeOK'
  <2>1. disk' \in Files /\ faults' \in 0 .. MaxFaults /\ wipes' \in 0 .. faults'
    BY FileFacts, PentestAssumption DEF Inv, TypeOK, Clear, faulty
  <2> QED  BY <2>1 DEF Inv, TypeOK, Clear, memory, store
<1>2. RoundInv'
  BY FileFacts, Rounding, PentestAssumption DEF Inv, TypeOK, RoundInv, Clear, memory, store,
       faulty
<1>3. CheckpointInv'
  BY FileFacts DEF Inv, TypeOK, RoundInv, CheckpointInv, Clear, memory, store, faulty
<1>4. BudgetInv'
  <2>1. pc = "clear" /\ pc' = "persist" /\ UNCHANGED <<transcript, count, sent, ended>>
    BY DEF Clear, memory
  <2>2. sent <= MaxRequests + Lost /\ sent <= count + Lost /\ count <= transcript
    BY <2>1 DEF Inv, BudgetInv, BudgetBounded
  <2>3. Lost' \in {Lost, Lost + PerIteration}
    BY LostGrows DEF Inv, Clear, faulty
  <2>4. sent <= MaxRequests + Lost' /\ sent <= count + Lost'
    BY <2>2, <2>3, Numbers DEF Inv
  <2> QED  BY <2>1, <2>2, <2>4 DEF BudgetInv, BudgetBounded
<1>5. FindingInv'
  BY LostGrows DEF Inv, TypeOK, FindingInv, NoDuplicateFindings, EvidenceIsReported, Clear,
       memory, store, faulty
<1> QED  BY <1>1, <1>2, <1>3, <1>4, <1>5 DEF Inv

\* The findings are complete, and nothing is left to resume.
LEMMA PersistInv == Inv /\ Persist => Inv'
<1> SUFFICES ASSUME Inv, Persist PROVE Inv'
  OBVIOUS
<1>1. TypeOK'
  <2>1. logged = << >> /\ transcript \in 0 .. MaxSteps
    BY DEF Inv, FindingInv, TypeOK, Persist
  <2>2. logged' = << >> \/ logged' = <<transcript>>
    BY <2>1 DEF Persist, LogTranscript
  <2>3. logged' \in Seq(0 .. MaxSteps)
    <3>1. <<transcript>> \in Seq(0 .. MaxSteps)
      BY <2>1
    <3>2. << >> \in Seq(0 .. MaxSteps)
      BY EmptySeq
    <3> QED  BY <2>2, <3>1, <3>2
  <2>4. plan' \in Plans
    BY PlanFacts DEF Persist, Forgotten
  <2>5. 0 \in 0 .. MaxSteps /\ 0 \in 0 .. MaxIterations /\ 0 \in 0 .. MaxIterations + 1
    BY Numbers DEF Inv
  <2>6. reports' \in Nat
    BY DEF Inv, TypeOK, Persist
  <2> QED  BY <2>3, <2>4, <2>5, <2>6 DEF Inv, TypeOK, Plans, Persist, Forgotten, faulty
<1>2. RoundInv'
  BY FileFacts, Rounding, PentestAssumption DEF Inv, TypeOK, RoundInv, Persist,
       LogTranscript, Forgotten, faulty, NoPlan
<1>3. CheckpointInv'
  BY FileFacts DEF Inv, TypeOK, RoundInv, CheckpointInv, Persist, LogTranscript, Forgotten,
       faulty, NoPlan
<1>4. BudgetInv'
  BY FileFacts, LostGrows, PentestAssumption DEF Inv, TypeOK, BudgetInv, BudgetBounded,
       OnDisk, Persist, LogTranscript, Forgotten, faulty, NoPlan
<1>5. FindingInv'
  <2>1. logged = << >> /\ reports = 0
    BY DEF Inv, FindingInv, Persist
  <2>2. logged' = IF transcript > 0 THEN <<transcript>> ELSE << >>
    BY <2>1 DEF Persist, LogTranscript
  <2>3. Len(logged') <= 1 /\ reports' <= 1
    BY <2>1, <2>2 DEF Persist
  <2>4. ASSUME faults' = 0, sent' > 0
        PROVE  transcript > 0 /\ transcript >= sent'
    <3>1. /\ sent' = sent /\ faults = 0 /\ wipes = 0
      BY <2>4, PentestAssumption DEF Inv, TypeOK, Persist, faulty
    <3>2. Lost = 0
      BY <3>1, PentestAssumption DEF Lost
    <3>3. sent <= count + Lost /\ count <= transcript
      BY DEF Inv, BudgetInv, Persist
    <3> QED  BY <2>4, <3>1, <3>2, <3>3, Numbers DEF Inv
  <2> QED  BY <2>2, <2>3, <2>4 DEF FindingInv, NoDuplicateFindings, EvidenceIsReported, Persist
<1> QED  BY <1>1, <1>2, <1>3, <1>4, <1>5 DEF Inv

\* Running out of quota changes nothing but the way ahead.
LEMMA OutOfQuotaInv == Inv /\ OutOfQuota => Inv'
<1> SUFFICES ASSUME Inv, OutOfQuota PROVE Inv'
  OBVIOUS
<1>1. TypeOK'
  BY FileFacts, Rounding, PentestAssumption DEF Inv, TypeOK, RoundInv, OutOfQuota, InPlan,
       memory, store, faulty
<1>2. RoundInv'
  BY FileFacts, Rounding, PentestAssumption DEF Inv, TypeOK, RoundInv, OutOfQuota, InPlan,
       memory, store, faulty
<1>3. CheckpointInv'
  BY FileFacts DEF Inv, TypeOK, RoundInv, CheckpointInv, OutOfQuota, InPlan, memory, store,
       faulty
<1>4. BudgetInv'
  BY FileFacts, LostGrows, PentestAssumption DEF Inv, TypeOK, BudgetInv, BudgetBounded,
       OnDisk, OutOfQuota, InPlan, memory, store, faulty
<1>5. FindingInv'
  BY LostGrows DEF Inv, TypeOK, FindingInv, NoDuplicateFindings, EvidenceIsReported,
       OutOfQuota, InPlan, memory, store, faulty
<1> QED  BY <1>1, <1>2, <1>3, <1>4, <1>5 DEF Inv

\* A pause is checkpointed, or a fault accounts for it.
LEMMA PauseInv == Inv /\ Pause => Inv'
<1> SUFFICES ASSUME Inv, Pause PROVE Inv'
  OBVIOUS
<1> DEFINE c == Checkpoint(transcript, outer, iteration, loopDone)
<1>a. c \in Files
  BY FileFacts DEF Inv, TypeOK, RoundInv, Pause
<1>b. /\ Saved(c) /\ c.transcript = transcript
      /\ c.iteration = iteration /\ c.loopDone = loopDone
  BY DEF Saved, Checkpoint
<1>c. /\ disk' \in Files
      /\ faults' \in 0 .. MaxFaults /\ wipes' \in 0 .. faults'
      /\ \/ disk' = c /\ faults' = faults /\ wipes' = wipes
         \/ disk' = disk /\ faults' = faults + 1 /\ wipes' = wipes
         \/ ~Saved(disk') /\ faults' = faults + 1 /\ wipes' = wipes + 1
  BY <1>a, SaveFacts DEF Inv, Pause
<1> HIDE DEF c
<1>1. TypeOK'
  BY <1>b, <1>c, FileFacts, Rounding, PentestAssumption DEF Inv, TypeOK, RoundInv, Pause,
       memory, store
<1>2. RoundInv'
  BY <1>b, <1>c, FileFacts, Rounding, PentestAssumption DEF Inv, TypeOK, RoundInv, Pause,
       memory, store
<1>3. CheckpointInv'
  BY <1>b, <1>c, FileFacts DEF Inv, TypeOK, RoundInv, CheckpointInv, Pause, memory, store
<1>4. BudgetInv'
  <2>1. pc' \notin {"idle", "probe", "persist"} /\ UNCHANGED <<transcript, count, sent, ended>>
    BY DEF Pause, memory
  <2>2. /\ pc \in {"pause"}
        /\ sent <= MaxRequests + Lost /\ sent <= count + Lost /\ count <= transcript
        /\ sent <= OnDisk + Lost
    BY DEF Inv, BudgetInv, BudgetBounded, Pause
  <2>3. \/ OnDisk' = transcript /\ Lost' = Lost
        \/ OnDisk' = OnDisk /\ Lost' = Lost + PerIteration
        \/ OnDisk' = 0 /\ Lost' = Lost + PerIteration + MaxRequests
    BY <1>b, <1>c, LostGrows DEF Inv, OnDisk, Saved
  <2>4. /\ sent <= MaxRequests + Lost' /\ sent <= count + Lost'
        /\ sent <= OnDisk' + Lost'
    BY <2>2, <2>3, Numbers DEF Inv
  <2> QED  BY <2>1, <2>2, <2>4 DEF BudgetInv, BudgetBounded
<1>5. FindingInv'
  BY <1>b, <1>c, LostGrows DEF Inv, TypeOK, FindingInv, NoDuplicateFindings,
       EvidenceIsReported, Pause, memory, store
<1> QED  BY <1>1, <1>2, <1>3, <1>4, <1>5 DEF Inv

\* A paused process has checkpointed or lost its requests, and reports them.
LEMMA LogPauseInv == Inv /\ LogPause => Inv'
<1> SUFFICES ASSUME Inv, LogPause PROVE Inv'
  OBVIOUS
<1>1. TypeOK'
  <2>1. logged = << >> /\ transcript \in 0 .. MaxSteps
    BY DEF Inv, FindingInv, TypeOK, LogPause
  <2>2. logged' = << >> \/ logged' = <<transcript>>
    BY <2>1 DEF LogPause, LogTranscript
  <2>3. logged' \in Seq(0 .. MaxSteps)
    <3>1. <<transcript>> \in Seq(0 .. MaxSteps)
      BY <2>1
    <3>2. << >> \in Seq(0 .. MaxSteps)
      BY EmptySeq
    <3> QED  BY <2>2, <3>1, <3>2
  <2>4. plan' \in Plans
    BY PlanFacts DEF LogPause, Forgotten
  <2>5. 0 \in 0 .. MaxSteps /\ 0 \in 0 .. MaxIterations /\ 0 \in 0 .. MaxIterations + 1
    BY Numbers DEF Inv
  <2>6. reports' \in Nat
    BY DEF Inv, TypeOK, LogPause
  <2> QED  BY <2>3, <2>4, <2>5, <2>6 DEF Inv, TypeOK, Plans, LogPause, Forgotten, faulty
<1>2. RoundInv'
  BY FileFacts, Rounding, PentestAssumption DEF Inv, TypeOK, RoundInv, LogPause,
       LogTranscript, Forgotten, faulty, NoPlan
<1>3. CheckpointInv'
  BY FileFacts DEF Inv, TypeOK, RoundInv, CheckpointInv, LogPause, LogTranscript, Forgotten,
       faulty, NoPlan
<1>4. BudgetInv'
  BY FileFacts, LostGrows, PentestAssumption DEF Inv, TypeOK, BudgetInv, BudgetBounded,
       OnDisk, LogPause, LogTranscript, Forgotten, faulty, NoPlan
<1>5. FindingInv'
  <2>1. logged = << >> /\ reports = 0
    BY DEF Inv, FindingInv, LogPause
  <2>2. logged' = IF transcript > 0 THEN <<transcript>> ELSE << >>
    BY <2>1 DEF LogPause, LogTranscript
  <2>3. Len(logged') <= 1 /\ reports' <= 1
    BY <2>1, <2>2 DEF LogPause
  <2>4. ASSUME faults' = 0, sent' > 0
        PROVE  transcript > 0 /\ transcript >= sent'
    <3>1. /\ sent' = sent /\ faults = 0 /\ wipes = 0
      BY <2>4, PentestAssumption DEF Inv, TypeOK, LogPause, faulty
    <3>2. Lost = 0
      BY <3>1, PentestAssumption DEF Lost
    <3>3. sent <= count + Lost /\ count <= transcript
      BY DEF Inv, BudgetInv, LogPause
    <3> QED  BY <2>4, <3>1, <3>2, <3>3, Numbers DEF Inv
  <2> QED  BY <2>2, <2>3, <2>4 DEF FindingInv, NoDuplicateFindings, EvidenceIsReported, LogPause
<1> QED  BY <1>1, <1>2, <1>3, <1>4, <1>5 DEF Inv

\* A failing stage leaves the checkpoint of its last round.
LEMMA ProviderFailsInv == Inv /\ ProviderFails => Inv'
<1> SUFFICES ASSUME Inv, ProviderFails PROVE Inv'
  OBVIOUS
<1>1. TypeOK'
  <2>1. plan' \in Plans
    BY PlanFacts DEF ProviderFails, Forgotten
  <2>2. 0 \in 0 .. MaxSteps /\ 0 \in 0 .. MaxIterations /\ 0 \in 0 .. MaxIterations + 1
    BY Numbers DEF Inv
  <2> QED  BY <2>1, <2>2 DEF Inv, TypeOK, Plans, ProviderFails, Forgotten, store, faulty
<1>2. RoundInv'
  BY FileFacts, Rounding, PentestAssumption DEF Inv, TypeOK, RoundInv, ProviderFails, Capped,
       InPlan, Forgotten, store, faulty, NoPlan
<1>3. CheckpointInv'
  BY FileFacts DEF Inv, TypeOK, RoundInv, CheckpointInv, ProviderFails, Capped, InPlan,
       Forgotten, store, faulty, NoPlan
<1>4. BudgetInv'
  BY FileFacts, LostGrows, PentestAssumption DEF Inv, TypeOK, BudgetInv, BudgetBounded,
       OnDisk, ProviderFails, Capped, InPlan, Forgotten, store, faulty, NoPlan
<1>5. FindingInv'
  BY LostGrows DEF Inv, TypeOK, FindingInv, NoDuplicateFindings, EvidenceIsReported,
       ProviderFails, Capped, InPlan, Forgotten, store, faulty, NoPlan
<1> QED  BY <1>1, <1>2, <1>3, <1>4, <1>5 DEF Inv

\* A death costs a fault, which accounts for what the process had not saved.
LEMMA DieInv == Inv /\ Die => Inv'
<1> SUFFICES ASSUME Inv, Die PROVE Inv'
  OBVIOUS
<1>1. TypeOK'
  <2>1. plan' \in Plans
    BY PlanFacts DEF Die, Forgotten
  <2>2. 0 \in 0 .. MaxSteps /\ 0 \in 0 .. MaxIterations /\ 0 \in 0 .. MaxIterations + 1
    BY Numbers DEF Inv
  <2>3. disk' \in Files /\ faults' \in 0 .. MaxFaults /\ wipes' \in 0 .. faults'
    BY FileFacts, PentestAssumption DEF Inv, TypeOK, Die
  <2>4. pc' = "idle" /\ ended' = "died"
    BY DEF Die
  <2> QED  BY <2>1, <2>2, <2>3, <2>4 DEF Inv, TypeOK, Plans, Die, Forgotten, store
<1>2. RoundInv'
  <2>1. pc' = "idle" /\ transcript' = 0 /\ iteration' = 0 /\ calls' = 0 /\ count' = 0
    BY DEF Die, Forgotten
  <2>2. disk' = disk \/ ~Saved(disk')
    BY FileFacts DEF Die
  <2>3. Saved(disk) => disk.transcript <= Steps(disk.iteration)
    BY DEF Inv, RoundInv
  <2>4. 0 <= Steps(0)
    BY Rounding
  <2> QED  BY <2>1, <2>2, <2>3, <2>4 DEF RoundInv, Saved, Steps
<1>3. CheckpointInv'
  BY FileFacts DEF Inv, TypeOK, RoundInv, CheckpointInv, Die, Writing, Forgotten, store,
       RoundOver, LoopOver, NoPlan, BudgetSpent
<1>4. BudgetInv'
  <2>1. pc # "idle" /\ pc' = "idle" /\ ended' = "died" /\ sent' = sent
    BY DEF Die
  <2>2. /\ sent <= MaxRequests + Lost /\ sent <= count + Lost /\ count <= transcript
        /\ pc = "probe" => sent + plan.left <= OnDisk + PerIteration + Lost
        /\ pc \notin {"probe", "persist"} => sent <= OnDisk + Lost
    BY <2>1 DEF Inv, BudgetInv, BudgetBounded
  <2>3. \/ pc # "persist" /\ OnDisk' = OnDisk /\ Lost' = Lost + PerIteration
        \/ OnDisk' \in Nat /\ Lost' = Lost + PerIteration + MaxRequests
    <3>1. CASE disk' = disk /\ wipes' = IF pc = "persist" THEN wipes + 1 ELSE wipes
      BY <3>1, LostGrows, Numbers DEF Inv, Die, OnDisk, Saved
    <3>2. CASE disk' = Torn /\ wipes' = wipes + 1
      BY <3>2, LostGrows, FileFacts DEF Inv, Die, OnDisk, Saved
    <3> QED  BY <3>1, <3>2 DEF Die
  <2>4. sent <= MaxRequests + Lost' /\ sent <= OnDisk' + Lost'
    BY <2>2, <2>3, Numbers DEF Inv
  <2> QED  BY <2>1, <2>4 DEF BudgetInv, BudgetBounded
<1>5. FindingInv'
  BY LostGrows DEF Inv, TypeOK, FindingInv, NoDuplicateFindings, EvidenceIsReported, Die,
       Writing, Forgotten, store, RoundOver, LoopOver, NoPlan, BudgetSpent
<1> QED  BY <1>1, <1>2, <1>3, <1>4, <1>5 DEF Inv

-----------------------------------------------------------------------------
\* Every step of the stage, and every stutter, keeps the invariant.
LEMMA NextInv == Inv /\ [Next]_vars => Inv'
<1>1. Inv /\ UNCHANGED vars => Inv'
  BY DEF vars, Inv, TypeOK, RoundInv, CheckpointInv, BudgetInv, BudgetBounded, Lost, OnDisk,
         Saved, FindingInv, NoDuplicateFindings, EvidenceIsReported
<1> QED
  BY <1>1, StartInv, PlanAnsweredInv, ProbeInv, EndIterationInv, EndLoopInv, ExportInv,
     SynthesizedInv, VerifiedInv, ClearInv, PersistInv, OutOfQuotaInv, PauseInv, LogPauseInv,
     ProviderFailsInv, DieInv DEF Next

\* The invariant holds in every reachable state.
THEOREM AgenticInvariant == Spec => []Inv
<1> QED  BY InitInv, NextInv, PTL DEF Spec

\* The counters of the loop stay within the configured limits (AgentHttp, _agentic_loop).
THEOREM AgenticTypes == Spec => []TypeOK
<1>1. Inv => TypeOK
  BY DEF Inv
<1> QED  BY <1>1, AgenticInvariant, PTL

\* Over all the processes of an analysis, the target receives max_requests requests at
\* most, but for what faults made the checkpoint forget (_agentic_loop, AgentHttp).
THEOREM BudgetHolds == Spec => []BudgetBounded
<1>1. Inv => BudgetBounded
  BY DEF Inv, BudgetInv
<1> QED  BY <1>1, AgenticInvariant, PTL

\* Without a fault the budget is the hard cap that AgentHttp promises.
THEOREM BudgetIsHard == Spec => [](faults = 0 => sent <= MaxRequests)
<1>1. Inv => (faults = 0 => sent <= MaxRequests)
  <2> SUFFICES ASSUME Inv, faults = 0 PROVE sent <= MaxRequests
    OBVIOUS
  <2>1. wipes = 0
    BY DEF Inv, TypeOK
  <2>2. Lost = 0
    BY <2>1, PentestAssumption DEF Lost
  <2>3. sent <= MaxRequests + Lost
    BY DEF Inv, BudgetInv, BudgetBounded
  <2> QED  BY <2>2, <2>3, PentestAssumption
<1> QED  BY <1>1, AgenticInvariant, PTL

\* However often the stage is run again, its findings are there once (_run_ai_only).
THEOREM FindingsOnce == Spec => []NoDuplicateFindings
<1>1. Inv => NoDuplicateFindings
  BY DEF Inv, FindingInv
<1> QED  BY <1>1, AgenticInvariant, PTL

\* Without a fault, the transcript finding covers every request sent (_persist_paused).
THEOREM EvidenceHolds == Spec => []EvidenceIsReported
<1>1. Inv => EvidenceIsReported
  BY DEF Inv, FindingInv
<1> QED  BY <1>1, AgenticInvariant, PTL

-----------------------------------------------------------------------------
\* What a write leaves of a checkpoint that the new one is not behind of.
LEMMA SaveKeeps ==
  ASSUME TypeOK, NEW t \in 0 .. MaxSteps, NEW s \in SUBSET Seed,
         NEW i \in 0 .. MaxIterations, NEW d \in BOOLEAN,
         Save(Checkpoint(t, s, i, d)), Saved(disk), Saved(disk'),
         disk.transcript <= t, disk.iteration <= i, disk.loopDone => d
  PROVE  /\ disk'.transcript >= disk.transcript
         /\ disk'.iteration >= disk.iteration
         /\ disk.loopDone => disk'.loopDone
<1>1. /\ disk.transcript \in 0 .. MaxSteps /\ disk.iteration \in 0 .. MaxIterations
      /\ MaxSteps \in Nat /\ MaxIterations \in Nat
  BY FileFacts, Rounding, PentestAssumption DEF TypeOK
<1>2. disk' = Checkpoint(t, s, i, d) \/ disk' = disk
  BY FileFacts DEF Save
<1>3. CASE disk' = disk
  BY <1>1, <1>3
<1>4. CASE disk' = Checkpoint(t, s, i, d)
  BY <1>1, <1>4, FileFacts
<1> QED  BY <1>2, <1>3, <1>4

\* A step that writes no checkpoint leaves the file, or takes it away.
LEMMA OthersKeep ==
  ASSUME Inv, [Next]_vars, ~EndIteration, ~EndLoop, ~Pause, Saved(disk')
  PROVE  disk' = disk
BY FileFacts DEF Next, vars, Start, PlanAnswered, Probe, Export, Synthesized, Verified, Clear,
     Persist, OutOfQuota, LogPause, ProviderFails, Die

\* A checkpoint that replaces another never forgets progress (_save_state, _load_state).
THEOREM CheckpointsGrow == Spec => CheckpointNeverRegresses
<1> DEFINE Keeps == (Saved(disk) /\ Saved(disk')) =>
                      /\ disk'.transcript >= disk.transcript
                      /\ disk'.iteration >= disk.iteration
                      /\ disk.loopDone => disk'.loopDone
<1>1. Inv /\ [Next]_vars => Keeps
  <2> SUFFICES ASSUME Inv, [Next]_vars, Saved(disk), Saved(disk')
               PROVE  /\ disk'.transcript >= disk.transcript
                      /\ disk'.iteration >= disk.iteration
                      /\ disk.loopDone => disk'.loopDone
    OBVIOUS
  <2>1. /\ TypeOK
        /\ disk.transcript \in Nat /\ disk.iteration \in Nat
        /\ transcript \in 0 .. MaxSteps /\ inner \in SUBSET Seed /\ outer \in SUBSET Seed
        /\ iteration \in 0 .. MaxIterations /\ loopDone \in BOOLEAN
        /\ iteration < MaxIterations => iteration + 1 \in 0 .. MaxIterations
    <3>1. disk.transcript \in 0 .. MaxSteps /\ disk.iteration \in 0 .. MaxIterations
      BY FileFacts DEF Inv, TypeOK
    <3>2. MaxSteps \in Nat /\ MaxIterations \in Nat
      BY Rounding, PentestAssumption
    <3>3. iteration \in 0 .. MaxIterations
      BY DEF Inv, TypeOK
    <3>4. iteration < MaxIterations => iteration + 1 \in 0 .. MaxIterations
      BY <3>2, <3>3
    <3> QED  BY <3>1, <3>2, <3>4 DEF Inv, TypeOK
  <2>2. pc # "idle" => /\ disk.transcript <= transcript
                       /\ disk.iteration <= iteration
                       /\ disk.loopDone => loopDone
    BY DEF Inv, CheckpointInv
  <2>3. CASE EndIteration
    <3>1. pc = "probe" /\ iteration < MaxIterations /\ ~loopDone
      BY <2>3 DEF EndIteration, RoundOver, Inv, RoundInv, CheckpointInv
    <3>2. disk.iteration <= iteration + 1 /\ ~disk.loopDone
      BY <2>1, <2>2, <3>1
    <3>3. Save(Checkpoint(transcript, inner, iteration + 1, FALSE))
      BY <2>3 DEF EndIteration
    <3> QED  BY <2>1, <2>2, <3>1, <3>2, <3>3, SaveKeeps
  <2>4. CASE EndLoop
    <3>1. pc # "idle" /\ Save(Checkpoint(transcript, inner, iteration, TRUE))
      BY <2>4 DEF EndLoop, LoopOver
    <3> QED  BY <2>1, <2>2, <3>1, SaveKeeps
  <2>5. CASE Pause
    <3>1. pc # "idle" /\ Save(Checkpoint(transcript, outer, iteration, loopDone))
      BY <2>5 DEF Pause
    <3> QED  BY <2>1, <2>2, <3>1, SaveKeeps
  <2>6. CASE ~EndIteration /\ ~EndLoop /\ ~Pause
    <3>1. disk' = disk
      BY <2>6, OthersKeep
    <3> QED  BY <2>1, <3>1
  <2> QED  BY <2>3, <2>4, <2>5, <2>6
<1> QED  BY <1>1, AgenticInvariant, PTL DEF Spec, CheckpointNeverRegresses

\* Once the loop is checkpointed as done, only a new analysis probes the target again
\* (_agentic_loop is skipped when the state says loop_done).
THEOREM LoopIsNotReentered == Spec => NoProbesAfterLoop
<1>1. Inv /\ [Next]_vars => (sent' > sent => ~(Saved(disk) /\ disk.loopDone))
  <2> SUFFICES ASSUME Inv, [Next]_vars, sent' > sent PROVE ~(Saved(disk) /\ disk.loopDone)
    OBVIOUS
  <2>1. sent \in Nat
    BY DEF Inv, TypeOK
  <2>2. Probe \/ sent' = 0 \/ sent' = sent
    BY DEF Next, vars, Start, PlanAnswered, EndIteration, EndLoop, Export, Synthesized,
         Verified, Clear, Persist, OutOfQuota, Pause, LogPause, ProviderFails, Die
  <2>3. pc = "probe"
    BY <2>1, <2>2 DEF Probe
  <2> QED  BY <2>3 DEF Inv, CheckpointInv
<1> QED  BY <1>1, AgenticInvariant, PTL DEF Spec, NoProbesAfterLoop

-----------------------------------------------------------------------------
\* In the loop the checkpoint has no seed that the loop has not; after it, none that
\* _run_agentic has not.
SeedInv ==
  /\ pc \in {"plan", "probe", "loopEnd"} /\ Saved(disk) => disk.seeds \subseteq inner
  /\ pc # "idle" /\ loopDone /\ Saved(disk) => disk.seeds \subseteq outer

\* What a write of the seeds s leaves in the file.
LEMMA SavedSeeds ==
  ASSUME NEW t, NEW s, NEW i, NEW d, Save(Checkpoint(t, s, i, d)), Saved(disk')
  PROVE  disk'.seeds = s \/ disk' = disk
<1>1. disk' = Checkpoint(t, s, i, d) \/ disk' = disk
  BY FileFacts DEF Save
<1>2. CASE disk' = Checkpoint(t, s, i, d)
  <2>1. disk'.seeds = s
    BY <1>2 DEF Checkpoint
  <2>. QED  BY <2>1
<1>. QED  BY <1>1, <1>2

LEMMA SeedStep ==
  ASSUME Inv, SeedInv, [Next]_vars
  PROVE  SeedInv'
<1>. SUFFICES ASSUME Saved(disk')
              PROVE  /\ pc' \in {"plan", "probe", "loopEnd"} => disk'.seeds \subseteq inner'
                     /\ pc' # "idle" /\ loopDone' => disk'.seeds \subseteq outer'
  BY DEF SeedInv, Saved
<1>1. CASE Start
  <2>1. disk' = disk /\ Saved(disk) /\ Loaded(disk) = disk
    BY <1>1 DEF Start, Loaded
  <2>. QED  BY <1>1, <2>1 DEF Start, Resume
<1>2. CASE EndIteration
  <2>1. /\ pc = "probe" /\ ~loopDone /\ loopDone' = loopDone /\ inner' = inner
        /\ Save(Checkpoint(transcript, inner, iteration + 1, FALSE))
    BY <1>2 DEF EndIteration, RoundOver, Inv, CheckpointInv
  <2>2. disk'.seeds = inner \/ disk' = disk
    BY <2>1, SavedSeeds
  <2>. QED  BY <2>1, <2>2 DEF SeedInv
<1>3. CASE EndLoop
  <2>1. /\ pc \in {"plan", "loopEnd"} /\ pc' = "export" /\ outer' = inner
        /\ Save(Checkpoint(transcript, inner, iteration, TRUE))
    BY <1>3 DEF EndLoop, LoopOver
  <2>2. disk'.seeds = inner \/ disk' = disk
    BY <2>1, SavedSeeds
  <2>. QED  BY <2>1, <2>2 DEF SeedInv
<1>4. CASE Pause
  <2>1. /\ pc = "pause" /\ pc' = "logPause" /\ outer' = outer /\ loopDone' = loopDone
        /\ Save(Checkpoint(transcript, outer, iteration, loopDone))
    BY <1>4 DEF Pause, memory
  <2>2. disk'.seeds = outer \/ disk' = disk
    BY <2>1, SavedSeeds
  <2>. QED  BY <2>1, <2>2 DEF SeedInv
<1>5. CASE ~Start /\ ~EndIteration /\ ~EndLoop /\ ~Pause
  <2>1. disk' = disk
    BY <1>5, OthersKeep
  <2>2. CASE PlanAnswered
    BY <2>1, <2>2 DEF PlanAnswered, InPlan, SeedInv
  <2>3. CASE pc' = "idle"
    BY <2>3
  <2>4. CASE ~PlanAnswered /\ pc' # "idle"
    <3>1. /\ UNCHANGED <<inner, outer, loopDone>>
          /\ pc' \in {"plan", "probe", "loopEnd"} => pc' = pc
          /\ pc # "idle"
      <4>1. CASE UNCHANGED vars
        BY <2>4, <4>1 DEF vars
      <4>2. CASE Probe \/ Export \/ Synthesized \/ Verified \/ Clear \/ OutOfQuota
        BY <2>4, <4>2 DEF Probe, Export, Synthesized, Verified, Clear, OutOfQuota, InPlan, memory
      <4>3. CASE Persist \/ LogPause \/ ProviderFails \/ Die
        BY <2>4, <4>3 DEF Persist, LogPause, ProviderFails, Die
      <4>. QED  BY <1>5, <2>4, <4>1, <4>2, <4>3 DEF Next
    <3>. QED  BY <2>1, <3>1 DEF SeedInv
  <2>. QED  BY <2>2, <2>3, <2>4
<1>. QED  BY <1>1, <1>2, <1>3, <1>4, <1>5

\* The part of "Resumable: transcript/seeds carry prior state" (_agentic_loop) that
\* holds: no step makes the checkpoint forget a proposed seed but the checkpoint of a
\* pause inside the loop, which _run_agentic writes with the seeds it passed in.
THEOREM OnlyEarlyPausesForget ==
  Spec => [][(Saved(disk) /\ Saved(disk') /\ ~(disk.seeds \subseteq disk'.seeds))
               => Pause /\ ~loopDone]_vars
<1>1. Init => SeedInv
  BY FileFacts DEF Init, SeedInv
<1>2. Inv /\ SeedInv /\ [Next]_vars => SeedInv'
  BY SeedStep
<1>3. Inv /\ SeedInv /\ [Next]_vars
        => ((Saved(disk) /\ Saved(disk') /\ ~(disk.seeds \subseteq disk'.seeds)) => Pause /\ ~loopDone)
  <2>. SUFFICES ASSUME Inv, SeedInv, [Next]_vars, Saved(disk), Saved(disk'), ~(Pause /\ ~loopDone)
                PROVE  disk.seeds \subseteq disk'.seeds
    OBVIOUS
  <2>1. CASE EndIteration
    <3>1. pc = "probe" /\ Save(Checkpoint(transcript, inner, iteration + 1, FALSE))
      BY <2>1 DEF EndIteration, RoundOver
    <3>2. disk'.seeds = inner \/ disk' = disk
      BY <3>1, SavedSeeds
    <3>. QED  BY <3>1, <3>2 DEF SeedInv
  <2>2. CASE EndLoop
    <3>1. pc \in {"plan", "loopEnd"} /\ Save(Checkpoint(transcript, inner, iteration, TRUE))
      BY <2>2 DEF EndLoop, LoopOver
    <3>2. disk'.seeds = inner \/ disk' = disk
      BY <3>1, SavedSeeds
    <3>. QED  BY <3>1, <3>2 DEF SeedInv
  <2>3. CASE Pause /\ loopDone
    <3>1. pc = "pause" /\ Save(Checkpoint(transcript, outer, iteration, loopDone))
      BY <2>3 DEF Pause
    <3>2. disk'.seeds = outer \/ disk' = disk
      BY <3>1, SavedSeeds
    <3>. QED  BY <2>3, <3>1, <3>2 DEF SeedInv
  <2>4. CASE ~EndIteration /\ ~EndLoop /\ ~Pause
    BY <2>4, OthersKeep
  <2>. QED  BY <2>1, <2>2, <2>3, <2>4
<1>. QED  BY <1>1, <1>2, <1>3, AgenticInvariant, PTL DEF Spec

-----------------------------------------------------------------------------
\* What is left of a process: the parts of the stage, the iterations, the parts of an
\* iteration, and the actions of the plan.
PartsLeft ==
  CASE pc \in {"plan", "probe", "loopEnd"} -> 8
    [] pc = "export"     -> 7
    [] pc = "synthesize" -> 6
    [] pc = "verify"     -> 5
    [] pc = "clear"      -> 4
    [] pc = "persist"    -> 3
    [] pc = "pause"      -> 2
    [] pc = "logPause"   -> 1
    [] OTHER             -> 0
AsksLeft == IF pc = "plan" THEN 1 ELSE 0
Left ==
  [i \in 1 .. 4 |-> CASE i = 1 -> PartsLeft [] i = 2 -> MaxIterations - iteration
                      [] i = 3 -> AsksLeft  [] i = 4 -> plan.left]

LEMMA LeftType ==
  ASSUME Inv
  PROVE  Left \in [1 .. 4 -> Nat]
<1>1. PartsLeft \in Nat /\ AsksLeft \in Nat
  BY DEF PartsLeft, AsksLeft
<1>2. MaxIterations - iteration \in Nat /\ plan.left \in Nat
  BY Numbers DEF Inv
<1>. QED  BY <1>1, <1>2 DEF Left

LEMMA LeftAt ==
  /\ Left[1] = PartsLeft /\ Left[2] = MaxIterations - iteration
  /\ Left[3] = AsksLeft /\ Left[4] = plan.left
  /\ Left'[1] = PartsLeft' /\ Left'[2] = MaxIterations - iteration'
  /\ Left'[3] = AsksLeft' /\ Left'[4] = plan'.left
BY DEF Left

\* A step that lowers one of the numbers and leaves those before it.
LEMMA LeftFewer ==
  ASSUME Inv, Inv', NEW j \in 1 .. 4, Left'[j] < Left[j], \A i \in 1 .. j - 1 : Left'[i] = Left[i]
  PROVE  <<Left', Left>> \in Fewer(4)
<1>1. Left \in [1 .. 4 -> Nat]
  BY LeftType
<1>2. (Inv => Left \in [1 .. 4 -> Nat])'
  BY LeftType, PTL
<1>. DEFINE s == Left'
            t == Left
<1>3. s \in [1 .. 4 -> Nat] /\ t \in [1 .. 4 -> Nat] /\ s[j] < t[j] /\ \A i \in 1 .. j - 1 : s[i] = t[i]
  BY <1>1, <1>2
<1>. HIDE DEF s, t
<1>4. <<s, t>> \in Fewer(4)
  BY <1>3, FewerFacts
<1>. QED  BY <1>4 DEF s, t

LEMMA FewerLeft ==
  ASSUME Inv, Inv', Next, pc # "idle"
  PROVE  <<Left', Left>> \in Fewer(4)
<1>1. ASSUME PartsLeft' < PartsLeft  PROVE <<Left', Left>> \in Fewer(4)
  <2>1. 1 \in 1 .. 4 /\ Left'[1] < Left[1] /\ \A i \in 1 .. 1 - 1 : Left'[i] = Left[i]
    BY <1>1, LeftAt
  <2>. QED  BY <2>1, LeftFewer
<1>2. CASE EndLoop \/ Export \/ Synthesized \/ Verified \/ Clear \/ OutOfQuota \/ Pause
  <2>1. \/ pc \in {"plan", "loopEnd"} /\ pc' = "export"
        \/ pc = "export" /\ pc' = "synthesize"
        \/ pc = "synthesize" /\ pc' \in {"verify", "clear"}
        \/ pc = "verify" /\ pc' = "clear"
        \/ pc = "clear" /\ pc' = "persist"
        \/ pc \in {"plan", "synthesize"} /\ pc' = "pause"
        \/ pc = "pause" /\ pc' = "logPause"
    BY <1>2 DEF EndLoop, LoopOver, Export, Synthesized, Verified, Clear, OutOfQuota, InPlan, Pause
  <2>2. PartsLeft' < PartsLeft
    BY <2>1 DEF PartsLeft
  <2>. QED  BY <1>1, <2>2
<1>3. CASE pc' = "idle"
  <2>1. pc \in {"plan", "probe", "loopEnd", "export", "synthesize", "verify", "clear",
                "persist", "pause", "logPause"}
    BY DEF Inv, TypeOK
  <2>2. PartsLeft > 0 /\ PartsLeft' = 0
    BY <1>3, <2>1 DEF PartsLeft
  <2>. QED  BY <1>1, <2>2
<1>4. CASE PlanAnswered
  <2>1. pc = "plan" /\ pc' = "probe" /\ iteration' = iteration
    BY <1>4 DEF PlanAnswered, InPlan
  <2>2. PartsLeft' = PartsLeft /\ AsksLeft' < AsksLeft
    BY <2>1 DEF PartsLeft, AsksLeft
  <2>3. Left'[1] = Left[1] /\ Left'[2] = Left[2] /\ Left'[3] < Left[3]
    BY <2>1, <2>2, LeftAt
  <2>4. 3 \in 1 .. 4 /\ \A i \in 1 .. 3 - 1 : Left'[i] = Left[i]
    BY <2>3
  <2>. QED  BY <2>3, <2>4, LeftFewer
<1>5. CASE EndIteration
  <2>1. pc = "probe" /\ pc' \in {"plan", "loopEnd"} /\ iteration' = iteration + 1
    BY <1>5 DEF EndIteration, RoundOver
  <2>2. PartsLeft' = PartsLeft
    BY <2>1 DEF PartsLeft
  <2>3. MaxIterations \in Nat /\ iteration \in Nat
    BY Numbers DEF Inv
  <2>4. 2 \in 1 .. 4 /\ Left'[2] < Left[2] /\ \A i \in 1 .. 2 - 1 : Left'[i] = Left[i]
    BY <2>1, <2>2, <2>3, LeftAt
  <2>. QED  BY <2>4, LeftFewer
<1>6. CASE Probe
  <2>1. /\ pc' = pc /\ iteration' = iteration
        /\ plan.left > 0 /\ plan' = [plan EXCEPT !.left = @ - 1]
    BY <1>6 DEF Probe
  <2>2. plan.left \in Nat /\ plan'.left = plan.left - 1
    <3>1. plan \in Plans /\ plan.left \in Nat
      BY Numbers DEF Inv
    <3>. QED  BY <2>1, <3>1 DEF Plans
  <2>3. PartsLeft' = PartsLeft /\ AsksLeft' = AsksLeft
    BY <2>1 DEF PartsLeft, AsksLeft
  <2>4. Left'[1] = Left[1] /\ Left'[2] = Left[2] /\ Left'[3] = Left[3]
    BY <2>1, <2>3, LeftAt
  <2>5. 4 \in 1 .. 4 /\ Left'[4] < Left[4]
    BY <2>2, LeftAt
  <2>6. \A i \in 1 .. 4 - 1 : Left'[i] = Left[i]
    BY <2>4
  <2>. QED  BY <2>5, <2>6, LeftFewer
<1>7. pc' = "idle" \/ PlanAnswered \/ Probe \/ EndIteration \/ EndLoop \/ Export \/ Synthesized
      \/ Verified \/ Clear \/ OutOfQuota \/ Pause
  BY DEF Next, Start, Persist, LogPause, ProviderFails, Die
<1>. QED  BY <1>2, <1>3, <1>4, <1>5, <1>6, <1>7

\* Half of AnalysisFinishes, without fairness: each step of a process of the stage,
\* whatever the AI plans, the provider answers and the writes leave, lowers what is
\* left of it, in an order in which nothing goes down for ever.  Only the operator,
\* who runs the analysis again, can keep the stage busy.
THEOREM ProcessIsFinite ==
  /\ IsWellFoundedOn(Fewer(4), [1 .. 4 -> Nat])
  /\ Spec => [][pc # "idle" => <<Left', Left>> \in Fewer(4)]_vars
<1>1. IsWellFoundedOn(Fewer(4), [1 .. 4 -> Nat])
  BY FewerIsWellFounded
<1>2. Inv /\ Inv' /\ [Next]_vars
        => [pc # "idle" => <<Left', Left>> \in Fewer(4)]_vars
  BY FewerLeft
<1>. QED  BY <1>1, <1>2, AgenticInvariant, PTL DEF Spec
=============================================================================
