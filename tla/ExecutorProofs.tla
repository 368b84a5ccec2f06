--------------------------- MODULE ExecutorProofs ---------------------------
(***************************************************************************)
(* Proofs about CommandExecutor.run, for any number of attempts and of       *)
(* helpers, and any retry policy: no tool is left behind, what a time-out    *)
(* may leave of a process tree, and retries follow the policy.               *)
(***************************************************************************)
EXTENDS Executor, SequenceTheorems, TLAPS

\* What SIGTERM to the group left out, has been sent to, or need not end.
Evades(p) ==
  \/ p \notin grouped
  \/ p \in termed
  \/ \E q \in stubborn : q[1] = p[1]

\* The attempts whose tree has been signalled.
Ended == {a \in 1 .. Len(outcomes) : outcomes[a].status = "timeout"}
Signalled == Ended \cup (IF pc \in {"grace", "drain"} THEN {attempt} ELSE {})

\* What is left of signalled trees, of ended ones, and of those that were sent SIGKILL.
Remains ==
  \A p \in alive : /\ p[1] \in Signalled => Evades(p)
                   /\ p[1] \in Ended => p \notin holding
                   /\ p[1] \in killed => p \notin grouped

\* No later attempt was sent SIGKILL, and the current one only at the end of the grace.
KilledLast ==
  /\ \A a \in killed : a <= attempt
  /\ pc \in {"spawn", "communicate", "terminate", "grace"} => attempt \notin killed

TreeInv == Remains /\ KilledLast

Inv == TypeOK /\ NoToolLeftBehind /\ TreeInv /\ AttemptsAreJustified

-----------------------------------------------------------------------------
Outcomes == [status : {"success", "nonzero", "timeout", "spawn_error"}, exit : Code]

\* What recording one more outcome leaves of the others.
LEMMA Recorded ==
  ASSUME NEW s \in Seq(Outcomes), NEW o \in Outcomes
  PROVE  /\ Append(s, o) \in Seq(Outcomes)
         /\ Len(Append(s, o)) = Len(s) + 1
         /\ Append(s, o)[Len(s) + 1] = o
         /\ \A i \in 1 .. Len(s) : Append(s, o)[i] = s[i]
BY AppendProperties

\* The name of a process is the tool's or a helper's, and its attempt one of the policy's.
LEMMA ProcessNames ==
  /\ \A p \in Process : p[1] \in Attempt /\ p = <<p[1], p[2]>>
  /\ \A a \in Attempt : <<a, Tool>> \in Process
  /\ \A a \in Attempt, h \in Helper : /\ <<a, h>> \in Process /\ <<a, h>>[1] = a
                                      /\ \A b : <<a, h>> # <<b, Tool>>
  /\ \A a, b : <<a, Tool>> = <<b, Tool>> => a = b
BY ExecutorAssumption DEF Process, Name

-----------------------------------------------------------------------------
\* Nothing runs before the first attempt.
LEMMA InitInv == Init => Inv
<1> SUFFICES ASSUME Init PROVE Inv
  OBVIOUS
<1>1. outcomes = << >> /\ << >> \in Seq(Outcomes) /\ Len(<< >>) = 0
  BY EmptySeq DEF Init
<1>2. TypeOK
  BY <1>1, ExecutorAssumption DEF Init, TypeOK, Attempt, Outcomes
<1>3. NoToolLeftBehind /\ TreeInv
  BY DEF Init, NoToolLeftBehind, TreeInv, Remains, KilledLast
<1>4. AttemptsAreJustified
  BY DEF Init, AttemptsAreJustified
<1> QED  BY <1>2, <1>3, <1>4 DEF Inv

\* A process that forks hands down what it has: a helper of a signalled group evades the
\* signal because its parent does.
LEMMA ForkInv ==
  ASSUME Inv, NEW p \in Process, NEW h \in Helper, Fork(p, h)
  PROVE  Inv'
<1> DEFINE child == <<p[1], h>>
<1>1. /\ child \in Process /\ child[1] = p[1] /\ \A b : child # <<b, Tool>>
      /\ p \in alive /\ (p \in termed => p \in stubborn) /\ child \notin born
  BY ProcessNames DEF Fork
<1>2. PICK leaves \in BOOLEAN, ignores \in BOOLEAN :
        Started(child, p \in grouped /\ ~leaves, ignores, p \in holding)
  BY DEF Fork
<1>3. /\ UNCHANGED <<pc, attempt, termed, killed, code, outcomes>>
      /\ alive' = alive \cup {child} /\ born' = born \cup {child}
      /\ grouped' \in {grouped, grouped \cup {child}}
      /\ stubborn' \in {stubborn, stubborn \cup {child}}
      /\ holding' \in {holding, holding \cup {child}}
      /\ child \in grouped' => p \in grouped
      /\ child \in holding' => p \in holding
  <2> HIDE DEF child
  <2>1. child \notin grouped /\ child \notin holding
    BY <1>1 DEF Inv, TypeOK
  <2> QED  BY <1>2, <2>1 DEF Started, Fork
<1> HIDE DEF child
<1>4. TypeOK'
  <2>1. born' \subseteq Process /\ alive' \subseteq born'
    BY <1>1, <1>3 DEF Inv, TypeOK
  <2>2. grouped' \subseteq born' /\ stubborn' \subseteq born'
    BY <1>3 DEF Inv, TypeOK
  <2>3. holding' \subseteq alive' /\ termed' \subseteq grouped'
    BY <1>3 DEF Inv, TypeOK
  <2> QED  BY <1>3, <2>1, <2>2, <2>3 DEF Inv, TypeOK
<1>5. NoToolLeftBehind'
  BY <1>1, <1>3 DEF Inv, NoToolLeftBehind
<1>6. TreeInv'
  <2>1. Signalled' = Signalled /\ Ended' = Ended
    BY <1>3 DEF Signalled, Ended
  <2>2. ASSUME NEW q \in alive PROVE Evades(q) => Evades(q)'
    <3>1. q # child
      BY <1>1 DEF Inv, TypeOK
    <3> QED  BY <1>3, <3>1 DEF Evades
  <2>3. ASSUME p[1] \in Signalled PROVE Evades(child)'
    <3>1. Evades(p)
      BY <1>1, <2>3 DEF Inv, TreeInv, Remains, KilledLast
    <3>2. p \notin grouped \/ \E q \in stubborn : q[1] = p[1]
      BY <1>1, <3>1 DEF Evades
    <3> QED  BY <1>1, <1>3, <3>2 DEF Evades
  <2>4. ASSUME p[1] \in Ended PROVE child \notin holding'
    BY <1>1, <1>3, <2>4 DEF Inv, TreeInv, Remains, KilledLast
  <2>5. ASSUME NEW q \in alive, q[1] \in Ended PROVE q \notin holding'
    BY <1>1, <1>3, <2>5 DEF Inv, TreeInv, Remains, KilledLast, TypeOK
  <2>6. ASSUME NEW q \in alive', q[1] \in killed PROVE q \notin grouped'
    <3>1. CASE q \in alive /\ q # child
      BY <1>3, <2>6, <3>1 DEF Inv, TreeInv, Remains, KilledLast
    <3>2. CASE q = child
      <4>1. p \notin grouped
        BY <1>1, <2>6, <3>2 DEF Inv, TreeInv, Remains, KilledLast
      <4> QED  BY <1>3, <3>2, <4>1
    <3> QED  BY <1>1, <1>3, <3>1, <3>2 DEF Inv, TypeOK
  <2>7. /\ \A a \in killed' : a <= attempt'
        /\ pc' \in {"spawn", "communicate", "terminate", "grace"} => attempt' \notin killed'
    BY <1>3 DEF Inv, TreeInv, Remains, KilledLast
  <2> QED  BY <1>1, <1>3, <2>1, <2>2, <2>3, <2>4, <2>5, <2>6, <2>7 DEF Inv, TreeInv, Remains, KilledLast
<1>7. AttemptsAreJustified'
  BY <1>3 DEF Inv, AttemptsAreJustified, ShouldRetry, Ok
<1> QED  BY <1>4, <1>5, <1>6, <1>7 DEF Inv

\* Ends and closed pipes take members away from the trees.
LEMMA ShrinkInv ==
  ASSUME Inv, alive' \subseteq alive, holding' \subseteq holding \cap alive', code' \in Code,
         UNCHANGED <<pc, attempt, born, grouped, stubborn, termed, killed, outcomes>>
  PROVE  Inv'
<1>1. TypeOK'
  BY DEF Inv, TypeOK
<1>2. NoToolLeftBehind'
  BY DEF Inv, NoToolLeftBehind
<1>3. TreeInv'
  BY DEF Inv, TreeInv, Remains, KilledLast, Signalled, Ended, Evades
<1>4. AttemptsAreJustified'
  BY DEF Inv, AttemptsAreJustified, ShouldRetry, Ok
<1> QED  BY <1>1, <1>2, <1>3, <1>4 DEF Inv

\* A closed pipe and the end of a process are such steps.
LEMMA CloseInv == ASSUME Inv, NEW p \in Process, Close(p) PROVE Inv'
BY ShrinkInv DEF Close, Inv, TypeOK

LEMMA ExitInv == ASSUME Inv, NEW p \in Process, Exit(p) PROVE Inv'
BY ShrinkInv DEF Exit, Inv, TypeOK

-----------------------------------------------------------------------------
\* A tool is started only when the tools of all earlier attempts have ended.
LEMMA SpawnInv == ASSUME Inv, Spawn PROVE Inv'
<1>1. /\ pc = "spawn" /\ attempt \in Attempt /\ Len(outcomes) = attempt - 1
      /\ outcomes \in Seq(Outcomes) /\ attempt \in Nat
      /\ UNCHANGED <<attempt, termed, killed, code>>
      /\ Leader \in Process /\ Leader[1] = attempt
  BY ProcessNames, ExecutorAssumption DEF Inv, TypeOK, Spawn, Outcomes, Attempt, Leader
<1>2. Leader \notin alive
  BY <1>1 DEF Inv, NoToolLeftBehind, Leader
<1>3. CASE pc' = "communicate" /\ UNCHANGED outcomes
           /\ \E ignores \in BOOLEAN : Started(Leader, TRUE, ignores, TRUE)
  <2>1. PICK ignores \in BOOLEAN : Started(Leader, TRUE, ignores, TRUE)
    BY <1>3
  <2>2. /\ alive' = alive \cup {Leader} /\ born' = born \cup {Leader}
        /\ grouped' = grouped \cup {Leader} /\ holding' = holding \cup {Leader}
        /\ stubborn' \in {stubborn, stubborn \cup {Leader}}
    BY <2>1 DEF Started
  <2>3. TypeOK'
    BY <1>1, <1>3, <2>2 DEF Inv, TypeOK
  <2>4. NoToolLeftBehind'
    <3>1. ASSUME NEW a \in Attempt, <<a, Tool>> \in alive' PROVE a = attempt
      <4>1. <<a, Tool>> \notin alive
        BY <1>1 DEF Inv, NoToolLeftBehind
      <4>2. <<a, Tool>> = Leader
        BY <2>2, <3>1, <4>1
      <4> QED  BY <4>2, ProcessNames DEF Leader
    <3> QED  BY <1>1, <1>3, <3>1 DEF NoToolLeftBehind
  <2>5. TreeInv'
    <3>1. Signalled = Ended /\ Signalled' = Ended /\ Ended' = Ended
      BY <1>1, <1>3 DEF Signalled, Ended
    <3>2. attempt \notin Ended
      BY <1>1 DEF Ended
    <3>3. ASSUME NEW q \in alive, q[1] \in Ended PROVE Evades(q)' /\ q \notin holding'
      <4>1. q # Leader
        BY <1>1, <3>2, <3>3
      <4> QED  BY <1>1, <2>2, <3>1, <3>3, <4>1 DEF Inv, TreeInv, Remains, KilledLast, Evades
    <3>4. ASSUME NEW q \in alive', q[1] \in killed PROVE q \notin grouped'
      <4>1. q # Leader
        BY <1>1, <3>4 DEF Inv, TreeInv, Remains, KilledLast
      <4> QED  BY <1>1, <2>2, <3>4, <4>1 DEF Inv, TreeInv, Remains, KilledLast
    <3>5. /\ \A a \in killed' : a <= attempt'
          /\ attempt' \notin killed'
      BY <1>1 DEF Inv, TreeInv, Remains, KilledLast
    <3> QED  BY <1>1, <2>2, <3>1, <3>2, <3>3, <3>4, <3>5 DEF TreeInv, Remains, KilledLast
  <2>6. AttemptsAreJustified'
    BY <1>1, <1>3 DEF Inv, AttemptsAreJustified, ShouldRetry, Ok
  <2> QED  BY <2>3, <2>4, <2>5, <2>6 DEF Inv
<1>4. CASE /\ pc' = "decide"
           /\ outcomes' = Append(outcomes, Outcome("spawn_error", 0))
           /\ UNCHANGED <<alive, born, grouped, stubborn, holding>>
  <2>1. Outcome("spawn_error", 0) \in Outcomes /\ Outcome("spawn_error", 0).status # "timeout"
    BY ExecutorAssumption DEF Outcome, Outcomes
  <2>2. /\ outcomes' \in Seq(Outcomes) /\ Len(outcomes') = attempt
        /\ \A i \in 1 .. attempt - 1 : outcomes'[i] = outcomes[i]
        /\ outcomes'[attempt].status # "timeout"
    BY <1>1, <1>4, <2>1, Recorded
  <2>3. TypeOK'
    BY <1>1, <1>4, <2>2 DEF Inv, TypeOK, Outcomes
  <2>4. NoToolLeftBehind'
    BY <1>1, <1>4 DEF Inv, NoToolLeftBehind
  <2>5. TreeInv'
    <3>1. Ended' = Ended /\ Signalled' = Ended /\ Signalled = Ended
      BY <1>1, <1>4, <2>2 DEF Signalled, Ended
    <3> QED  BY <1>1, <1>4, <3>1 DEF Inv, TreeInv, Remains, KilledLast, Evades
  <2>6. AttemptsAreJustified'
    BY <1>1, <1>4, <2>2 DEF Inv, AttemptsAreJustified, ShouldRetry, Ok
  <2> QED  BY <2>3, <2>4, <2>5, <2>6 DEF Inv
<1> QED  BY <1>3, <1>4 DEF Spawn

\* An attempt whose tool has ended is recorded; if it timed out, nothing holds its pipes.
LEMMA CapturedInv ==
  ASSUME Inv, NEW status \in {"success", "nonzero", "timeout"}, Captured(status),
         pc \in {"communicate", "drain"}, EndOfOutput, ToolEnded,
         status = "timeout" => pc = "drain",
         UNCHANGED <<attempt, tree>>
  PROVE  Inv'
<1>1. /\ attempt \in Attempt /\ attempt \in Nat /\ Len(outcomes) = attempt - 1
      /\ outcomes \in Seq(Outcomes) /\ code \in Code
      /\ UNCHANGED <<attempt, alive, born, grouped, stubborn, holding, termed, killed, code>>
  BY ExecutorAssumption DEF Inv, TypeOK, Outcomes, Attempt, tree
<1>2. NoToolLeftBehind'
  BY <1>1 DEF Inv, NoToolLeftBehind, ToolEnded, Leader
<1>3. CASE pc' = "raised" /\ UNCHANGED outcomes
  <2>1. TypeOK'
    BY <1>1, <1>3 DEF Inv, TypeOK
  <2>2. TreeInv'
    BY <1>1, <1>3 DEF Inv, TreeInv, Remains, KilledLast, Signalled, Ended, Evades
  <2>3. AttemptsAreJustified'
    BY <1>1, <1>3 DEF Inv, AttemptsAreJustified, ShouldRetry, Ok
  <2> QED  BY <1>2, <2>1, <2>2, <2>3 DEF Inv
<1>4. CASE pc' = "decide" /\ outcomes' = Append(outcomes, Outcome(status, code))
  <2>1. Outcome(status, code) \in Outcomes /\ Outcome(status, code).status = status
    BY <1>1 DEF Outcome, Outcomes
  <2>2. /\ outcomes' \in Seq(Outcomes) /\ Len(outcomes') = attempt
        /\ \A i \in 1 .. attempt - 1 : outcomes'[i] = outcomes[i]
        /\ outcomes'[attempt].status = status
    BY <1>1, <1>4, <2>1, Recorded
  <2>3. TypeOK'
    BY <1>1, <1>4, <2>2 DEF Inv, TypeOK, Outcomes
  <2>4. TreeInv'
    <3>1. Signalled' = Ended' /\ Ended' \subseteq Ended \cup {attempt}
      BY <1>1, <1>4, <2>2 DEF Signalled, Ended
    <3>2. attempt \in Ended' => attempt \in Signalled
      BY <1>1, <2>2 DEF Ended, Signalled
    <3>3. \A p \in alive : p[1] = attempt => p \notin holding
      BY DEF EndOfOutput
    <3>4. Ended \subseteq Signalled
      BY DEF Signalled
    <3>5. ASSUME NEW p \in alive' PROVE /\ p[1] \in Signalled' => Evades(p)'
                                        /\ p[1] \in Ended' => p \notin holding'
                                        /\ p[1] \in killed' => p \notin grouped'
      <4>1. p \in alive
        BY <1>1
      <4>2. Evades(p)' <=> Evades(p)
        BY <1>1 DEF Evades
      <4> QED  BY <1>1, <3>1, <3>2, <3>3, <3>4, <4>1, <4>2 DEF Inv, TreeInv, Remains, KilledLast
    <3>6. /\ \A a \in killed' : a <= attempt'
          /\ pc' \in {"spawn", "communicate", "terminate", "grace"} => attempt' \notin killed'
      BY <1>1, <1>4 DEF Inv, TreeInv, Remains, KilledLast
    <3> QED  BY <3>5, <3>6 DEF TreeInv, Remains, KilledLast
  <2>5. AttemptsAreJustified'
    BY <1>1, <1>4, <2>2 DEF Inv, AttemptsAreJustified, ShouldRetry, Ok
  <2> QED  BY <1>2, <2>3, <2>4, <2>5 DEF Inv
<1> QED  BY <1>3, <1>4 DEF Captured

\* Both calls of communicate end that way, the first one not with a time-out.
LEMMA CollectInv == ASSUME Inv, Collect PROVE Inv'
<1> DEFINE status == IF code = 0 THEN "success" ELSE "nonzero"
<1>1. Captured(status) /\ pc = "communicate" /\ EndOfOutput /\ ToolEnded /\ UNCHANGED <<attempt, tree>>
  BY DEF Collect
<1>2. status \in {"success", "nonzero", "timeout"} /\ status # "timeout"
  OBVIOUS
<1> HIDE DEF status
<1> QED  BY <1>1, <1>2, CapturedInv

LEMMA DrainInv == ASSUME Inv, Drain PROVE Inv'
BY CapturedInv DEF Drain

\* The steps of _terminate before the signals only move on.
LEMMA TimeOutInv == ASSUME Inv, TimeOut PROVE Inv'
<1>1. TypeOK'
  BY DEF Inv, TypeOK, TimeOut, tree
<1>2. NoToolLeftBehind'
  BY DEF Inv, NoToolLeftBehind, TimeOut, tree
<1>3. TreeInv'
  BY DEF Inv, TreeInv, Remains, KilledLast, Signalled, Ended, Evades, TimeOut, tree
<1>4. AttemptsAreJustified'
  BY DEF Inv, AttemptsAreJustified, ShouldRetry, Ok, TimeOut, tree
<1> QED  BY <1>1, <1>2, <1>3, <1>4 DEF Inv

\* SIGTERM reaches every member of the group.
LEMMA TerminateInv == ASSUME Inv, Terminate PROVE Inv'
<1>1. /\ termed' = termed \cup GroupOfAttempt /\ pc = "terminate" /\ pc' = "grace"
      /\ UNCHANGED <<attempt, alive, born, grouped, stubborn, holding, killed, code, outcomes>>
  BY DEF Terminate
<1>2. TypeOK'
  BY <1>1 DEF Inv, TypeOK, GroupOfAttempt
<1>3. NoToolLeftBehind'
  BY <1>1 DEF Inv, NoToolLeftBehind
<1>4. TreeInv'
  <2>1. Signalled' = Ended \cup {attempt} /\ Ended' = Ended /\ Ended \subseteq Signalled
    BY <1>1 DEF Signalled, Ended
  <2>2. ASSUME NEW p \in alive, p[1] = attempt PROVE Evades(p)'
    BY <1>1, <2>2 DEF Evades, GroupOfAttempt
  <2>3. ASSUME NEW p \in alive, p[1] \in Ended PROVE Evades(p)'
    BY <1>1, <2>1, <2>3 DEF Inv, TreeInv, Remains, KilledLast, Evades
  <2> QED  BY <1>1, <2>1, <2>2, <2>3 DEF Inv, TreeInv, Remains, KilledLast
<1>5. AttemptsAreJustified'
  BY <1>1 DEF Inv, AttemptsAreJustified, ShouldRetry, Ok
<1> QED  BY <1>2, <1>3, <1>4, <1>5 DEF Inv

\* Whether or not the group is killed, the output is what remains to be waited for.
LEMMA GraceInv ==
  ASSUME Inv, pc = "grace", pc' = "drain", alive' \subseteq alive,
         holding' \subseteq holding \cap alive', code' \in Code,
         killed' = killed \/ (killed' = killed \cup {attempt} /\ alive' = alive \ GroupOfAttempt),
         UNCHANGED <<attempt, born, grouped, stubborn, termed, outcomes>>
  PROVE  Inv'
<1>0. attempt \in Nat /\ attempt \in Attempt
  BY ExecutorAssumption DEF Inv, TypeOK, Attempt
<1>1. TypeOK'
  BY <1>0 DEF Inv, TypeOK
<1>2. NoToolLeftBehind'
  BY DEF Inv, NoToolLeftBehind
<1>3. TreeInv'
  <2>1. Signalled' = Signalled /\ Ended' = Ended
    BY DEF Signalled, Ended
  <2>2. \A p \in alive' : /\ p[1] \in Signalled => Evades(p)'
                          /\ p[1] \in Ended => p \notin holding'
    BY DEF Inv, TreeInv, Remains, KilledLast, Evades
  <2>3. ASSUME NEW p \in alive', p[1] \in killed' PROVE p \notin grouped
    <3>1. CASE p[1] \in killed
      BY <3>1 DEF Inv, TreeInv, Remains, KilledLast
    <3>2. CASE p[1] \notin killed
      BY <2>3, <3>2 DEF GroupOfAttempt
    <3> QED  BY <3>1, <3>2
  <2>4. \A a \in killed' : a <= attempt
    BY <1>0 DEF Inv, TreeInv, Remains, KilledLast
  <2>5. \A p \in alive' : /\ p[1] \in Signalled' => Evades(p)'
                          /\ p[1] \in Ended' => p \notin holding'
                          /\ p[1] \in killed' => p \notin grouped'
    BY <2>1, <2>2, <2>3
  <2>6. /\ \A a \in killed' : a <= attempt'
        /\ pc' \in {"spawn", "communicate", "terminate", "grace"} => attempt' \notin killed'
    BY <2>4
  <2> QED  BY <2>5, <2>6 DEF TreeInv, Remains, KilledLast
<1>4. AttemptsAreJustified'
  BY DEF Inv, AttemptsAreJustified, ShouldRetry, Ok
<1> QED  BY <1>1, <1>2, <1>3, <1>4 DEF Inv

\* The tool ended by itself, or the group was killed.
LEMMA GraceReturnInv == ASSUME Inv, GraceReturn PROVE Inv'
BY GraceInv DEF GraceReturn, tree, Inv, TypeOK

LEMMA GraceOverInv == ASSUME Inv, GraceOver PROVE Inv'
<1>1. /\ pc = "grace" /\ pc' = "drain" /\ code' \in Code
      /\ alive' = alive \ GroupOfAttempt /\ holding' = holding \ GroupOfAttempt
      /\ killed' = killed \cup {attempt}
      /\ UNCHANGED <<attempt, born, grouped, stubborn, termed, outcomes>>
  BY DEF GraceOver
<1>2. holding' \subseteq holding \cap alive'
  BY <1>1 DEF Inv, TypeOK
<1> QED  BY <1>1, <1>2, GraceInv

\* The next attempt follows a retryable outcome; the last one is final.
LEMMA DecideInv == ASSUME Inv, Decide PROVE Inv'
<1>1. /\ pc = "decide" /\ attempt \in Nat /\ attempt \in Attempt /\ MaxAttempts \in Nat
      /\ Len(outcomes) = attempt
      /\ UNCHANGED <<alive, born, grouped, stubborn, holding, termed, killed, outcomes>>
      /\ Signalled = Ended /\ Ended' = Ended
  BY ExecutorAssumption DEF Inv, TypeOK, Decide, Attempt, Signalled, Ended
<1>2. CASE /\ Ok(outcomes[attempt]) \/ attempt >= MaxAttempts \/ ~ShouldRetry(outcomes[attempt])
           /\ pc' = "done" /\ UNCHANGED <<attempt, code>>
  <2>1. TypeOK'
    BY <1>1, <1>2 DEF Inv, TypeOK
  <2>2. attempt = MaxAttempts \/ ~ShouldRetry(outcomes[attempt])
    BY <1>1, <1>2 DEF Ok, ShouldRetry, Attempt
  <2>3. AttemptsAreJustified'
    BY <1>1, <1>2, <2>2 DEF Inv, AttemptsAreJustified, ShouldRetry, Ok
  <2>4. NoToolLeftBehind' /\ TreeInv'
    BY <1>1, <1>2 DEF Inv, NoToolLeftBehind, TreeInv, Remains, KilledLast, Signalled, Evades
  <2> QED  BY <2>1, <2>3, <2>4 DEF Inv
<1>3. CASE /\ ~Ok(outcomes[attempt]) /\ attempt < MaxAttempts /\ ShouldRetry(outcomes[attempt])
           /\ pc' = "spawn" /\ attempt' = attempt + 1 /\ code' = 0
  <2>1. TypeOK'
    BY <1>1, <1>3, ExecutorAssumption DEF Inv, TypeOK, Attempt
  <2>2. AttemptsAreJustified'
    BY <1>1, <1>3 DEF Inv, AttemptsAreJustified, ShouldRetry, Ok
  <2>3. NoToolLeftBehind'
    BY <1>1, <1>3 DEF Inv, NoToolLeftBehind
  <2>4. \A a \in killed : a <= attempt /\ a \in Nat
    BY ExecutorAssumption DEF Inv, TypeOK, TreeInv, Remains, KilledLast, Attempt
  <2>5. attempt' \notin killed' /\ \A a \in killed' : a <= attempt'
    BY <1>1, <1>3, <2>4
  <2>6. Signalled' = Signalled
    BY <1>1, <1>3 DEF Signalled
  <2>7. TreeInv'
    BY <1>1, <1>3, <2>5, <2>6 DEF Inv, TreeInv, Remains, KilledLast, Evades
  <2> QED  BY <2>1, <2>2, <2>3, <2>7 DEF Inv
<1> QED  BY <1>1, <1>2, <1>3 DEF Decide

-----------------------------------------------------------------------------
\* Every step of the executor and of the trees keeps the invariant.
LEMMA NextInv == Inv /\ [Next]_vars => Inv'
<1>1. Inv /\ UNCHANGED vars => Inv'
  BY DEF vars, Inv, TypeOK, NoToolLeftBehind, TreeInv, Remains, KilledLast, Signalled, Ended, Evades,
         AttemptsAreJustified, ShouldRetry, Ok
<1> QED
  BY <1>1, SpawnInv, CollectInv, TimeOutInv, TerminateInv, GraceReturnInv, GraceOverInv,
     DrainInv, DecideInv, ForkInv, CloseInv, ExitInv DEF Next, Run

\* The invariant holds in every reachable state.
THEOREM ExecutorInvariant == Spec => []Inv
<1> QED  BY InitInv, NextInv, PTL DEF Spec

\* There is one outcome per attempt, within the attempts of the policy (run).
THEOREM ExecutorTypes == Spec => []TypeOK
<1>1. Inv => TypeOK
  BY DEF Inv
<1> QED  BY <1>1, ExecutorInvariant, PTL

\* Whatever its signal handling, no tool outlives its attempt (_run_once, _terminate).
THEOREM ToolsEnd == Spec => []NoToolLeftBehind
<1>1. Inv => NoToolLeftBehind
  BY DEF Inv
<1> QED  BY <1>1, ExecutorInvariant, PTL

\* A time-out leaves no member of a group that was sent SIGKILL, and of one that was not
\* only what was sent SIGTERM or what belongs to an attempt of which some process ignores it;
\* nothing that is left holds a pipe.
THEOREM TimeoutsEndTrees == Spec => []TreeAfterTimeout
<1>1. Inv => TreeAfterTimeout
  <2> SUFFICES ASSUME Inv, NEW a \in 1 .. Len(outcomes), TimedOut(a),
                      NEW p \in alive, p[1] = a
               PROVE  /\ p \notin holding
                      /\ p \in grouped => /\ a \notin killed
                                         /\ (p \in termed \/ \E q \in stubborn : q[1] = a)
    BY DEF TreeAfterTimeout
  <2>1. p[1] \in Ended /\ p[1] \in Signalled
    BY DEF Ended, Signalled, TimedOut
  <2> QED  BY <2>1 DEF Inv, TreeInv, Remains, KilledLast, Evades
<1> QED  BY <1>1, ExecutorInvariant, PTL

\* Retries follow the policy, and what is returned is final (run, _should_retry).
THEOREM RetriesFollowPolicy == Spec => []AttemptsAreJustified
<1>1. Inv => AttemptsAreJustified
  BY DEF Inv
<1> QED  BY <1>1, ExecutorInvariant, PTL
=============================================================================
