------------------------------ MODULE Executor ------------------------------
(***************************************************************************)
(* CommandExecutor.run: one command, its attempts, and the process tree each *)
(* attempt starts.  The tool may fork helpers, which share its output pipe    *)
(* and its process group unless they leave it; the executor waits for the     *)
(* end of the output, and ends the tree when the time is up.                  *)
(***************************************************************************)
EXTENDS Naturals, Sequences

CONSTANTS Helper,      \* bound: the helper processes an attempt may fork
          Code,        \* exit codes, 0 for success
          MaxAttempts, \* RetryPolicy.max_attempts
          RetryCodes,  \* RetryPolicy.retry_on_exit_codes
          RetryTimeout \* RetryPolicy.retry_on_timeout

Tool == "tool"

ASSUME ExecutorAssumption ==
  /\ Tool \notin Helper
  /\ 0 \in Code /\ Code \ {0} # {}
  /\ MaxAttempts \in Nat \ {0}
  /\ RetryCodes \subseteq Code
  /\ RetryTimeout \in BOOLEAN

Attempt == 1 .. MaxAttempts
Name == {Tool} \cup Helper
Process == Attempt \X Name

VARIABLES
  pc,       \* "spawn", "communicate", "terminate", "grace", "drain", "decide", "done", "raised"
  attempt,  \* the current attempt
  alive,    \* the processes that run
  born,     \* the processes that were ever started
  grouped,  \* those in the process group of their attempt
  stubborn, \* those that do not end on SIGTERM
  holding,  \* those that hold the output pipes of their attempt
  termed,   \* those that were sent SIGTERM
  killed,   \* the attempts whose group was sent SIGKILL
  code,     \* the exit code of the tool of the current attempt
  outcomes  \* how each attempt ended

tree == <<alive, born, grouped, stubborn, holding, termed, killed, code>>
vars == <<pc, attempt, alive, born, grouped, stubborn, holding, termed, killed, code, outcomes>>

Leader == <<attempt, Tool>>
GroupOfAttempt == {p \in alive \cap grouped : p[1] = attempt}
EndOfOutput == \A p \in alive \cap holding : p[1] # attempt
ToolEnded == Leader \notin alive

Outcome(status, exit) == [status |-> status, exit |-> exit]
Ok(outcome) == outcome.status = "success"

Init ==
  /\ pc = "spawn" /\ attempt = 1
  /\ alive = {} /\ born = {} /\ grouped = {} /\ stubborn = {} /\ holding = {} /\ termed = {}
  /\ killed = {}
  /\ code = 0 /\ outcomes = << >>

-----------------------------------------------------------------------------
\* Processes of a tree, as the tools the stages wrap may behave.

\* What a started process is: it holds the pipes it inherits until it closes them.
Started(p, inGroup, ignores, holds) ==
  /\ alive' = alive \cup {p}
  /\ born' = born \cup {p}
  /\ grouped' = IF inGroup THEN grouped \cup {p} ELSE grouped
  /\ stubborn' = IF ignores THEN stubborn \cup {p} ELSE stubborn
  /\ holding' = IF holds THEN holding \cup {p} ELSE holding

\* A process forks a helper, which stays in its group or starts a session of its own.  A
\* process that SIGTERM is about to end forks no more.
Fork(p, h) ==
  LET child == <<p[1], h>>
  IN /\ p \in alive
     /\ p \in termed => p \in stubborn
     /\ child \notin born
     /\ \E leaves, ignores \in BOOLEAN :
          Started(child, p \in grouped /\ ~leaves, ignores, p \in holding)
     /\ UNCHANGED <<pc, attempt, termed, killed, code, outcomes>>

\* A process redirects its output elsewhere.
Close(p) ==
  /\ p \in alive \cap holding
  /\ holding' = holding \ {p}
  /\ UNCHANGED <<pc, attempt, alive, born, grouped, stubborn, termed, killed, code, outcomes>>

\* A process ends; the tool leaves an exit code.
Exit(p) ==
  /\ p \in alive
  /\ alive' = alive \ {p}
  /\ holding' = holding \ {p}
  /\ IF p = Leader THEN code' \in Code ELSE UNCHANGED code
  /\ UNCHANGED <<pc, attempt, born, grouped, stubborn, termed, killed, outcomes>>

-----------------------------------------------------------------------------
\* Popen starts the tool in a session and process group of its own, or fails with an
\* operating system error.
Spawn ==
  /\ pc = "spawn"
  /\ \/ \E ignores \in BOOLEAN : Started(Leader, TRUE, ignores, TRUE)
        /\ pc' = "communicate"
        /\ UNCHANGED outcomes
     \/ /\ pc' = "decide"
        /\ outcomes' = Append(outcomes, Outcome("spawn_error", 0))
        /\ UNCHANGED <<alive, born, grouped, stubborn, holding>>
  /\ UNCHANGED <<attempt, termed, killed, code>>

\* The output is decoded and captured, or that raises out of run.
Captured(status) ==
  \/ pc' = "decide" /\ outcomes' = Append(outcomes, Outcome(status, code))
  \/ pc' = "raised" /\ UNCHANGED outcomes

\* Mutant of Collect: the end of the output is taken for the end of the tool.
CollectAtEndOfOutput ==
  /\ pc = "communicate"
  /\ EndOfOutput
  /\ Captured(IF code = 0 THEN "success" ELSE "nonzero")
  /\ UNCHANGED <<attempt, tree>>

\* communicate returns: the pipes are at their end and the tool has ended.
Collect ==
  /\ pc = "communicate"
  /\ EndOfOutput /\ ToolEnded
  /\ Captured(IF code = 0 THEN "success" ELSE "nonzero")
  /\ UNCHANGED <<attempt, tree>>

\* communicate raises TimeoutExpired, whether the tool or only its output goes on.
TimeOut ==
  /\ pc = "communicate"
  /\ pc' = "terminate"
  /\ UNCHANGED <<attempt, tree, outcomes>>

\* Mutant of Terminate: only the tool is signalled, not its group.
TerminateToolOnly ==
  /\ pc = "terminate"
  /\ termed' = termed \cup ({Leader} \cap alive)
  /\ pc' = "grace"
  /\ UNCHANGED <<attempt, alive, born, grouped, stubborn, holding, killed, code, outcomes>>

\* SIGTERM to the process group: the tool is not reaped yet, so the group exists.
Terminate ==
  /\ pc = "terminate"
  /\ termed' = termed \cup GroupOfAttempt
  /\ pc' = "grace"
  /\ UNCHANGED <<attempt, alive, born, grouped, stubborn, holding, killed, code, outcomes>>

\* The tool ends within the grace period, and nothing else is done to its group: a member
\* that ignored SIGTERM goes on.
GraceReturn ==
  /\ pc = "grace"
  /\ ToolEnded
  /\ pc' = "drain"
  /\ UNCHANGED <<attempt, tree, outcomes>>

\* Mutant of GraceOver: SIGKILL goes to the tool, not to its group.
GraceOverToolOnly ==
  /\ pc = "grace"
  /\ ~ToolEnded
  /\ alive' = alive \ {Leader}
  /\ holding' = holding \ {Leader}
  /\ killed' = killed \cup {attempt}
  /\ code' \in Code \ {0}
  /\ pc' = "drain"
  /\ UNCHANGED <<attempt, born, grouped, stubborn, termed, outcomes>>

\* Mutant of GraceOver: no escalation.
GraceOverGivingUp ==
  /\ pc = "grace"
  /\ ~ToolEnded
  /\ pc' = "drain"
  /\ UNCHANGED <<attempt, tree, outcomes>>

\* It does not: SIGKILL ends the whole group at once.
GraceOver ==
  /\ pc = "grace"
  /\ ~ToolEnded
  /\ alive' = alive \ GroupOfAttempt
  /\ holding' = holding \ GroupOfAttempt
  /\ killed' = killed \cup {attempt}
  /\ code' \in Code \ {0}
  /\ pc' = "drain"
  /\ UNCHANGED <<attempt, born, grouped, stubborn, termed, outcomes>>

\* communicate is called again, without a timeout.
Drain ==
  /\ pc = "drain"
  /\ EndOfOutput /\ ToolEnded
  /\ Captured("timeout")
  /\ UNCHANGED <<attempt, tree>>

\* _should_retry: timeouts and exit codes as the policy says, spawn errors never.
ShouldRetry(outcome) ==
  \/ outcome.status = "timeout" /\ RetryTimeout
  \/ outcome.status = "nonzero" /\ outcome.exit \in RetryCodes

\* Mutant of Decide: every failure is retried, a missing binary too.
DecideRetryingAll ==
  /\ pc = "decide"
  /\ LET last == outcomes[Len(outcomes)]
     IN IF Ok(last) \/ attempt >= MaxAttempts
        THEN pc' = "done" /\ UNCHANGED <<attempt, code>>
        ELSE pc' = "spawn" /\ attempt' = attempt + 1 /\ code' = 0
  /\ UNCHANGED <<alive, born, grouped, stubborn, holding, termed, killed, outcomes>>

\* The result is returned, or after a pause the command is run again.
Decide ==
  /\ pc = "decide"
  /\ LET last == outcomes[Len(outcomes)]
     IN IF Ok(last) \/ attempt >= MaxAttempts \/ ~ShouldRetry(last)
        THEN pc' = "done" /\ UNCHANGED <<attempt, code>>
        ELSE pc' = "spawn" /\ attempt' = attempt + 1 /\ code' = 0
  /\ UNCHANGED <<alive, born, grouped, stubborn, holding, termed, killed, outcomes>>

Run ==
  \/ Spawn \/ Collect \/ TimeOut \/ Terminate \/ GraceReturn \/ GraceOver
  \/ Drain \/ Decide

Next ==
  \/ Run
  \/ \E p \in Process : \/ Close(p) \/ Exit(p)
                        \/ \E h \in Helper : Fork(p, h)

\* What is sent SIGTERM and does not ignore it ends; nothing else has to.
Obey(p) == p \in termed \ stubborn /\ Exit(p)

\* The executor goes on, its timer fires, and signals have their effect.
Spec ==
  /\ Init /\ [][Next]_vars
  /\ WF_vars(Run)
  /\ \A p \in Process : WF_vars(Obey(p))

-----------------------------------------------------------------------------
\* One outcome per attempt, and only processes that were started.
TypeOK ==
  /\ pc \in {"spawn", "communicate", "terminate", "grace", "drain", "decide", "done", "raised"}
  /\ attempt \in Attempt
  /\ born \subseteq Process
  /\ alive \subseteq born /\ grouped \subseteq born /\ stubborn \subseteq born
  /\ holding \subseteq alive /\ termed \subseteq grouped /\ killed \subseteq Attempt
  /\ code \in Code
  /\ outcomes \in Seq([status : {"success", "nonzero", "timeout", "spawn_error"}, exit : Code])
  /\ Len(outcomes) = IF pc \in {"decide", "done"} THEN attempt ELSE attempt - 1

\* run never leaves its tool behind: when it returns, raises or tries again, the tools of
\* all its attempts have ended, however they treat signals (run, _run_once).
NoToolLeftBehind ==
  \A a \in Attempt :
    <<a, Tool>> \in alive =>
      a = attempt /\ pc \in {"communicate", "terminate", "grace", "drain"}

\* What a time-out leaves of a process tree (_run_once, _terminate).  It has no hold on
\* the output.  Once SIGKILL was sent, no member of the process group is left; where the
\* tool ended in time, and SIGKILL was not sent, a member is left only if it was sent
\* SIGTERM or some process of the tree ignores SIGTERM.
TimedOut(a) == outcomes[a].status = "timeout"
TreeAfterTimeout ==
  \A a \in 1 .. Len(outcomes) : TimedOut(a) =>
    \A p \in alive : p[1] = a =>
      /\ p \notin holding
      /\ p \in grouped => /\ a \notin killed
                         /\ (p \in termed \/ \E q \in stubborn : q[1] = a)

\* "Timeouts ... with guaranteed process-tree termination" (08-engine-services.md, 8.1),
\* "escalating to SIGKILL if needed" (_terminate): of the process group of an attempt that
\* timed out, only what SIGTERM is about to end is left.
TreeIsTerminated ==
  \A a \in 1 .. Len(outcomes) : TimedOut(a) =>
    \A p \in alive \cap grouped : p[1] = a => p \in termed \ stubborn

\* A command is run again only after an outcome the policy calls retryable, never after
\* a success or a missing binary, and what is returned is final.
AttemptsAreJustified ==
  /\ \A a \in 1 .. attempt - 1 : ShouldRetry(outcomes[a]) /\ ~Ok(outcomes[a])
  /\ pc = "done" =>
       \/ attempt = MaxAttempts
       \/ ~ShouldRetry(outcomes[attempt])

\* run returns, unless some helper that was not ended holds the output pipe for good:
\* the second communicate has no timeout.
RunReturns ==
  \/ <>(pc \in {"done", "raised"})
  \/ <>[](pc = "drain" /\ \E h \in Helper : <<attempt, h>> \in alive \cap holding)
=============================================================================
