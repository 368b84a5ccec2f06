# ReconEcoboost in TLA+

TLA+ models of ReconEcoboost, a modular reconnaissance engine: a command line resolves a
pipeline of stages from a profile, runs them against the targets of an engagement, stores
what they find in SQLite, and lets an AI provider analyse it. The modules are checked with
TLC on small instances; what matters most is proved with TLAPS for every instance.

Paths below are relative to the repository; `pkg/` stands for `src/reconecoboost/`.

## 1. The system

| part | state | operations | interacts with |
|---|---|---|---|
| pipeline resolution (`pkg/orchestration/pipeline.py`, `registry.py`) | the registry (name to class, in import order); while resolving: in-degrees, a deque, an order | `register`, `build`, `_resolve_order` | reads `requires` / `produces` of the stages |
| pipeline execution (`pipeline.py`) | result ledger of the context, round number, last subdomain count | `run`, `_run_modules`, `_subdomain_count`, `_loop_rounds` | calls each stage, counts assets in the store |
| stock stages (`pkg/modules/web`, `pkg/analysis/web.py`), profiles (`config/pipeline.yaml`) | declarations | `_select_stages`, AI modes | data of the two parts above |
| ToolModule flow (`pkg/modules/base.py`) | frontier, seen inputs, level, thread pool, records | `run`, `_execute`, scope filters, captures | executor in threads; parser, store in the caller's thread |
| agentic pentest (`pkg/analysis/web.py`, `agent_http.py`) | transcript, seeds, counters, request count, checkpoint file | `_run_agentic`, `_agentic_loop`, `_ai_call`, `_save_state`, `_load_state`, ... | AI provider, HTTP, store, wordlist files |
| run lifecycle (`pkg/cli/main.py`, `pkg/core`) | run row, workspace, results directory | `main`, `_run_ai_only` | builds everything else |
| store (`pkg/persistence`) | assets, relations, findings, provenance, tool runs, runs | `persist_normalization`, upserts, `add_finding`, `clear_findings`, `start_run`, `finish_run` | all stages |
| executor, tool manager (`pkg/engine`) | child processes, version cache | `run` with timeout and retries, `resolve`, `version` | external tools |
| normalizer, entities, parsers | none | canonical keys, merging | between tools and store |
| knowledge graph (`pkg/graph`) | none of its own (SQL over relations) | `neighborhood`, `subgraph`, `paths`, `find_chains`, `stats` | store; report and AI context |
| scope (`pkg/core/scope.py`) | patterns | `is_allowed`; the agent's `_host_allowed`; `--enumerate` | ToolModule, AgentHttp, command line |
| discovery stages (`pkg/modules/web`: `asset_discovery`, `dns_resolve`, `permutation`, `alive_detection`, `tls_intel`, `vhost_discovery`, `github_subdomains`) | none: they read and write the store | `_gather_inputs`, `batch_command`, `refine_records`, `run` | names of one are inputs of the others, over rounds |
| content stages (`crawling`, `js_fetch`, `url_probe`, `dir_bruteforce`, `param_discovery`, `secret_scan`, `js_intel`, ...) | `responses/index.json` with the fetched bodies | `run`, `_store_bodies`, `_filter_wildcard_params`, ... | store, body files, seam files |
| triage (`pkg/analysis/triage.py`, `pkg/modules/web/triage.py`) | none | `score_targets`; the triage finding | curated AI context |
| curated context (`pkg/analysis/web.py` 259-390) | none | `_select_keys`, `_curated_payload` | triage finding, graph; AI stages |
| AI wordlists (`pkg/modules/web/ai_wordlists.py`) | seam files | `run`, `_write` | provider, brute-force stages |
| providers, prompts, configuration, output, logging | files | loading, rendering, writing | - |

What is hard to test here: the order of the stages is only implied by declarations; the
discovery loop cuts that order in two; tools of one level run in a thread pool whose
completion order is arbitrary and whose threads may raise; the agentic loop spans several
processes that share a checkpoint file, any of which may be paused by a quota, fail, or die
in the middle of a write. The stages of a scan feed each other through the store, over
rounds, and each filters scope and wildcard answers by itself; what triage and the curated
context give of one asset depends on all the others. `PROJECT.json` lists these hazards at
their lines, with the properties that would catch them.

## 2. Modules

| module | what it is | code |
|---|---|---|
| `ModuleGraph` | operators: producers, prerequisites, dependents, cycles of a plan | `pipeline.py` 33-73 |
| `TopologicalSort` | abstract specification: emit any module whose prerequisites are emitted, end in an order or, on a cycle only, in a rejection | the promise of `_resolve_order` |
| `ModuleOrder` | Kahn's algorithm; refines `TopologicalSort` | `pipeline.py` 53-94 |
| `StockStages` | the 28 stages, profiles and AI modes as plans | `modules/web/*`, `analysis/web.py`, `config/pipeline.yaml`, `cli/main.py` |
| `PipelineRun` | `Pipeline.run`; EXTENDS `ModuleOrder`, whose steps are its first phase | `pipeline.py` 98-172 |
| `PipelineProofs` | theorems about both | |
| `ToolModuleRun` | the flow of a tool stage, with its thread pool | `modules/base.py` 97-241 |
| `ToolModuleRunProofs` | theorems about it | |
| `Lists`, `ListProofs` | lists filtered, ascending, without repetitions, joined and cut, as several modules build them, and lemmas about them | list comprehensions of `modules/base.py`, `pipeline.py` and `analysis/web.py` |
| `AgenticPentest` | the resumable agentic loop, its checkpoint and its findings | `analysis/web.py` 522-743, `agent_http.py`, `_run_ai_only` |
| `AgenticPentestProofs` | theorems about it | |
| `Executor` | one command: its attempts, its process tree, time-out, signals, retries | `engine/executor.py` 96-235 |
| `ExecutorProofs` | theorems about it | |
| `AtomicStore` | abstract specification: every operation of the store as one step | the promise of `persistence` |
| `Store` | the store statement by statement; refines `AtomicStore` | `repositories.py`, `database.py`, `normalizer.py` |
| `RunLifecycle` | scan and analyses of one run id, composed with `Store` by EXTENDS | `cli/main.py` 197-366 |
| `RunLifecycleProofs` | theorems about both | |
| `Scope` | `is_allowed`, the agent's predicate and guards, the enumeration decisions | `core/scope.py`, `agent_http.py` 61-139, `cli/main.py` 53-87 |
| `Discovery` | the stages that find names and live hosts, one action each | `modules/web/asset_discovery.py`, `dns_resolve.py`, `permutation.py`, ... |
| `Content` | the stages that find, fetch, mine and rank URLs, one action each; EXTENDS `Discovery` | `crawling.py`, `js_fetch.py`, `param_discovery.py`, `triage.py`, ... |
| `Recon` | a scan: those stages in the resolved order under the discovery loop | `pipeline.py` 98-162 |
| `ReconProofs` | theorems about `Scope` and `Recon` | |
| `TriageScore` | the signals, noise and ranking of `score_targets`, as operators | `analysis/triage.py`, `modules/web/triage.py` 66-92 |
| `CuratedContext` | what the AI stages are given of the graph, as operators | `analysis/web.py` 276-390 |
| `KnowledgeGraph` | neighbourhoods, paths and chains, and their reference definitions | `graph/sqlite_graph.py` 102-230 |
| `Analysis` | ranking and context on a store that grows by one URL or finding; EXTENDS `CuratedContext` | |
| `AnalysisProofs` | theorems about it, and about the graph's queries | |
| `GraphQueries` | the queries on relations added one at a time, beside the store of `Analysis` | |
| `MC*` | instances | |

Definitions whose comment begins with "Mutant of" are what the named definition would be
with a plausible bug in it; no specification uses them. Each property is known to fail for
one of them.

**ModuleOrder.** `plan` holds what `Pipeline.build` is given: the registered modules, the
enabled names, the declarations. `Build` fills the tables and the deque, `Visit` is one turn
of the `while`, `Conclude` the comparison of the two lengths. Positions in the registry
(`Index`) stand for the `index` dict. Python iterates over sets on the way (`prereqs`); the
model has no order there, and `StableOrder` shows that none leaks into the result.

**PipelineRun.** Its specification is `RunSpec`, since `Spec` is that of `ModuleOrder`. `Resolve`
is a step of `ModuleOrder`; `Begin` chooses one pass or rounds;
`RunModule` runs the head of the list `_run_modules` was given and records its result, be it
a success, a skip or a failure: a module may add any subset of the subdomains it can find in
each of these cases, since a module can fail after it stored something. `EndRound` counts,
where a failing query counts 0, and goes on or finalizes. `seen` is a history variable: what
the store held when a module last started.

**ToolModuleRun.** `ToolMissing` skips the stage. One level at a time: `BeginLevel` removes the
inputs already seen and builds invocations, one for all inputs of the level if the stage is a
`batch`, and groups of those with one key, an invocation without a host being alone in its; `TakeGroup`, `EndInvocation` and `Raise` are the threads;
`EndPool` is `as_completed`, where the first exception is raised again after the pool has
been joined; `RecordResult`, `EndLevel` and `Persist` are the caller's thread, where a
parser or the store may raise too, and `AfterPersist`, the stage's own last step, after the
commit. An invocation may also never end (see the executor). With one worker the groups run in the caller's thread
and an exception stops the remaining ones. `begun` is a history variable. No stock stage is
recursive at this commit; recursion is a service of the base class which
`tests/test_recursive_discovery.py` exercises, so the model keeps it.

**AgenticPentest.** Memory and disk are separate: `transcript`, `outer` (the seeds of
`_run_agentic`), `inner` (the seeds `_agentic_loop` works on), `iteration`, `calls` and
`count` are lost when a process ends; `disk`, `logged`, `reports` and `exported` stay. A
transcript is its length. `Start` is a run of `_run_ai_only`: it clears the AI findings and
loads the checkpoint. A plan proposes seeds and up to `PerIteration` actions; a probe is
either sent and charged or refused, and logged in both cases. `Save` either replaces the
file, fails and leaves the old one, or leaves it torn; `Die` can happen before every step,
and in the middle of a write. `sent` counts the requests that reached the target since the
last finished analysis, whichever process sent them.

**Executor.** `attempt` and `outcomes` are the loop of `run`; `pc` is where the current
`_run_once` stands, up to the second `communicate` (`"drain"`). The processes of an attempt
are pairs of its number and a name; `grouped`, `stubborn` and `holding` say which are in the
process group that `start_new_session` made, ignore SIGTERM, and hold the output pipe.
`Fork`, `Close` and `Exit` are what a tool may do at any time, between the steps of
`_terminate` too. A child inherits its parent's group and pipe and may leave either.
`killed` is a history variable: the attempts whose group was sent SIGKILL. `ToolModuleRun` uses
of this that an invocation ends, well or not, raises, or stays where it is.

**Store.** `db` is what is committed and `work` what the connection sees; `Begin` enters
`Database.transaction` with the statements of an operation in `todo`, `Execute` runs one of
them, `Raise` is an exception with its roll-back, `Disconnect` the end of the process. The
order of the statements is that of the code up to the order of the entities, each of which
has rows of its own. A record has a spelling, which `CanonicalKey` maps to its entity, and
attributes, of which `Null` is the one it does not know. `Normalized` folds the records of a
batch as `Normalizer.normalize` does, `UpsertAsset` merges the result into the stored row;
`AtomicStore` says instead what the last record that knows an attribute says of it.
`history`, the committed records in order, is a history variable.

**RunLifecycle.** `StartScan` and `StartAnalysis` are `main` and `_run_ai_only`; each writes
through the store, a stage up to `MaxWrites` times; an exception in a stage fails that stage
(`StageRaises`), elsewhere it ends the process, as a kill does (`End`). A finding is a stage
and the process that added it. One process of a run id starts after the other has ended:
nothing in the code enforces that, which the hazard list records.

**Scope, Discovery, Content, Recon.** A host name is the sequence of its labels, a pattern a
name or everything below one; a host asset stands for the origin `scheme://host:port`, and a
URL is a host, a path and a set of parameter names. The world (DNS, certificates, archives,
servers, what is served at each page) is constant; `Answers` is what a tool reports of it,
all of it or, for the stages in `Unreliable`, any part. An action is the whole stage: what
it takes from the store, what it refuses, what it refines out of the answer, what it stores,
with the relation that the store keeps only if both ends are known. `Capped` chooses any
subset of the capped size, since the order in which a list is cut is that of the database.
`seams` are the wordlist files of the AI stages, which outlive a failed provider; `index` is
`responses/index.json`, which outlives a failed `js_fetch`. `contacted` and `probed` are
history variables. In `Recon`, `Run` executes the head of `todo`; a stage in `Failing` may
leave everything as it was. (A stage that fails after it has stored what it found leaves the
store as one that succeeds does.) The synthetic names of the wildcard filter are asked for in
the batch of the names they filter (`Resolution`), and their lines may be lost as well: the
catch-all answers of a seed that was not heard filter nothing. `unheard` keeps, as a history
variable, the seeds of which some batch heard nothing, or did not ask with `wildcard_filter` off.
Three choices abstract: hosts that `url` records name are stored without their scheme and
port; the bodies of the response index are those of pages the site serves; and a body is
indexed under the URL that httpx reports, which is taken to be the one asked, as `js_fetch`
has it follow no redirects.

**TriageScore, CuratedContext, Analysis, KnowledgeGraph, GraphQueries.** Pure code, as
operators: assets are records with numbers for keys, ordered as their strings are. A URL has a
scheme and a netloc beside its host, by which clusters and templates are told apart; findings
are rows, so two equal ones count twice.
`Analysis` adds one URL or finding at a time, so that its states are the inputs, and states
the properties over them. A node of another type may have the key of a host or of a URL, as
assets are unique by type and key only; the first row with a key stands for it, as in
`_curated_payload`. Weights are configuration; the instance gives them their defaults.
`GraphQueries` adds relations the same way, for the queries, and its other steps are those
of `Analysis`, whose theorems are about its `Spec`; the run checks both in one. The nested
calls of a search are a function of the depth, to the set of calls made at that depth, each
with its node, trail and marks: backtracking undoes all that a call does to the shared trail
and marks before the next begins, so a call sees those of its callers only. The order of the
answers is left out.

## 3. Runs

| run | instance | result |
|---|---|---|
| `stock_order` | the stock plans | violated: triage does not precede the AI stages |
| `pipeline_run` | in one pass: all 4096 graphs of three modules and two entities, all 16 subsets of a four-module graph with a self-loop, 9 stock plans; and three sets of four modules with and without a cycle under loops of 0, 2 and 4 rounds, an unreadable number of rounds and no loop, with two subdomains | passes |
| `stock_loop_fetch` | stock pentest plan, two rounds | violated: dir-fuzz hits are never fetched |
| `tool_module` | five names, one out of scope, two passes each or one batch, two threads, three levels | passes |
| `vhost_pool` | two vhost items of one address, two threads | violated: one server, two threads |
| `agentic` | budget of three requests, two rounds of two actions, two AI calls per process, two faults | passes |
| `agentic_seeds` | same, without faults | violated: a pause forgets checkpointed seeds |
| `executor` | two attempts, one helper each, a retryable and a final exit code, time-outs retried | passes |
| `executor_tree` | one attempt, one helper | violated: a helper of the group that ignores SIGTERM outlives the time-out |
| `lifecycle` | a scan of a tool stage and two AI stages, two analyses in either mode, three batches, three writes per stage | passes |
| `recon` | 25 stock stages in the resolved order, three rounds; a zone with a wildcard record and one excluded name; a name that only the wordlist, a model, a certificate, a body or an address knows, and a foreign one in each; a resolver (the synthetic names too) and fetches that lose answers; three stages that may fail | passes |
| `analysis` | all stores of up to four of eight kinds of URL on three hosts, one of them not stored, one kind on another port, with up to one finding or secret; all graphs of up to three of 18 edges over three nodes | passes |

**What the properties say.** `TopologicalOrder` and `RejectsOnlyCycles` are the
contract of `_resolve_order`, `ImplementsSort` that each step is one of the abstract sort; `StableOrder` says the order
depends on the registration order and nothing else. `LedgerIsComplete` says how often each
module runs, whatever fails; `LastRunsRespectOrder` is what is left of the dependency order
once the loop has cut it in two; `ConvergedMeansCovered` says that stopping early loses
nothing: every repeated module started its last run from all the subdomains known. It is
stated for runs in which no count failed: with two failed counts the loop does stop early,
which the hazard list records. `HostsAreSerial`, `LedgerIsOrdered` and
`SuccessIsAccounted` say what a tool stage keeps in spite of its threads. `AllOrNothing` does so of
the assets: a stage that fails before the commit leaves none, one that fails after it, in
`after_persist`, all. `NoRescan` says that recursion scans nothing twice, `StageReturns` that the
stage ends, unless a thread stays in the executor for good, which `RunReturns` shows it can. `BudgetBounded` says exactly how much a fault can cost:
a death or a failed write loses at most the probes of one round, and the whole transcript
only when the file is torn or the process dies between `_clear_state` and
`_persist_results`. `CheckpointNeverRegresses`, `NoProbesAfterLoop`, `EvidenceIsReported`,
`NoDuplicateFindings` and `AnalysisFinishes` are what resuming promises. `NoToolLeftBehind`
says that neither a return nor a retry leaves a tool running, `TreeAfterTimeout` what a
time-out can leave: nothing that holds the output, no member of a group that was sent SIGKILL,
and where it was not sent, a member that was sent SIGTERM or one of an attempt of which some
process ignores it; `AttemptsAreJustified` says when a command is run again, and `RunReturns` that
the only thing that can block the executor for good is a survivor holding the pipe.
`ImplementsAtomicStore` says that an exception or a death leaves whole operations,
`StoredIsMerged` that the stored assets are one merge of all committed records, however they
were batched or repeated, `NoDanglingRows` that rows refer to rows. `NoPileUp`,
`OutcomeIsHonest` and `ScanIsKept` are what the processes of a run id owe each other. That an
analysis finds again what it cleared is not among them: the findings of `ai_pentest` are
cleared by an analysis in `analyze` mode, which does not run that stage. `InScopeOnly`,
`GuessesAreReal` and `UrlsBelong` are about what twenty-five stages leave behind together:
each filters for itself, some only their inputs, some only their answers, and one that does
neither shows in the result of others. `ConvergedMeansProbed` says that the loop, which
looks at a count only, stops when the last name found by the last stage of a round has been
probed; `SecretsAreLeads` that a secret gets from a body through a finding and the ranking
to the AI. `GuessesAreReal` is stated of the seeds whose synthetic names every batch heard: one lost
answer lets the guesses of that batch through, and they stay. `SignalIsNeverDemoted` compares the
score of a URL in any store with the one it has alone. It is about what `triage.py` 308 protects:
a finding, a non-GET method, a vuln-class parameter or a keyword. A 401 or 403, called signal at
line 9 of the file, and a parameter of no class are demoted with the rest; `LeadsComeFirst` and `HostsShareContext` say what the cap on the context may
cost, and `QueriesAreExact` compares the queries with their definitions by walks.

One disagreement with the documentation has no run of its own: under the loop the AI wordlist
stages and `api_discovery` repeat their calls and findings in each round, although
`README.md` 516-519 says the AI is billed once.

**Violated properties** quote a comment or document of the repository and show the code does
otherwise; each has a finding in `PROJECT.json` with the line.

**Bounds and why they suffice.** Three modules give chains, diamonds, self-loops, two-cycles
and three-cycles; the four-module graph adds disabled prerequisites; the stock plans are the
real ones. The loop is varied for the plans made for it, and off for the graphs (`MCRunSpec`),
whose orders it does not change. Two subdomains and four rounds allow a round that finds something after one that
found nothing, which converges early. Two threads and three groups make one group wait;
three levels let a name be reported by a level above its own. Two faults allow a failed
write followed by a death; one helper can ignore a signal, leave the group, keep the
pipe, or be forked between two steps of `_terminate`; with two, the one can fork the other.
Three
batches repeat a key in another spelling, overwrite a value, leave it unknown, and relate an
entity to one that is stored later or never; two analyses after the scan let one find what
the other left half done. `MaxFaults`, `MaxWrites`, `MaxProcesses` and the number of helpers
are the only bounds the first modules add, all others are configuration values of the program. In
`recon` each of the names can be found by one stage only, so that a stage left out, out of
order or unfiltered shows; three rounds allow one that finds a name, one that uses it and one
that converges, and the loop can also end at its bound. In `analysis`, `MaxStored`,
`MaxFindings` and `MaxEdges` bound the input: four URLs fill a catch-all cluster of the
lowered threshold and still leave two hosts to share a context of four nodes; three edges
give cycles, parallel edges and self-loops. Nothing is symmetric enough to need symmetry
sets.

**Fairness.** Resolution and a run are sequential calls: they take steps as long as
they can (`WF_vars(Next)`). In `PipelineRun` this takes each module to return, which a tool
stage does unless its executor blocks. Of a tool stage only the caller and the pool go on
(`WF_vars(FlowStep)`); nothing is assumed of the invocations, since `executor.py` 181 waits
without a timeout, and `StageReturns` has an exception for it. For the agentic stage, weak fairness also says that the operator runs the
analysis again, and strong fairness that the provider answers each kind of call if it is
asked again and again: without it a quota that never returns pauses every process.
For the executor, `WF_vars(Run)`
says that its thread goes on and its timers fire, and `WF_vars(Obey(p))` that a process that
was sent SIGTERM and does not ignore it ends; no other process has to end.
`CHECK_DEADLOCK FALSE` stands where a run ends by design.

## 4. Proofs

`PipelineProofs`, on the resolution, for every registry, profile and set of declarations,
assuming only that the registry is finite and its positions are distinct (`OrderAssumption`):

- `ResolutionInvariant`: `TypeOK /\ TopologicalOrder /\ Bookkeeping` is inductive. The order
  alone is not: that a visited module has its prerequisites before it follows from the
  in-degrees being exact, which in turn needs the deque to be free of repetitions.
- `TypeCorrect`, `OrderIsTopological`, `BookkeepingIsExact` are its parts.
- `RejectionIsJustified`: with an empty deque and modules left, the leftovers all wait for
  one another; with equal lengths, the order, being free of repetitions, holds them all.
- `ResolvedPlansAreAcyclic`: the converse.
- `KahnImplementsSort`: every step is a step of `TopologicalSort`, or a stutter.
- `OrderIsStable`: `DequeInv` says that the order followed by the deque is sorted by the
  position of the last prerequisite, ties by registration, and that a position below the
  length of the order never changes. A visit releases exactly the modules whose last
  prerequisite it orders, and releases them in registration order.

The lemmas below them are about ranking a finite set by a key (`ByIndex` lists each member
once), about taking the head of a deque and appending new elements, about how one more
ordered module changes the count of missing prerequisites, and about the last position of a
set of modules in the order.

`PipelineProofs`, on the run, for every registry, plan, loop configuration and set of findable
subdomains (`OrderAssumption`, `RunAssumption`):

- `EveryModuleIsRun`: `RunInv` says that what is left to run is a list of distinct modules of
  the plan in which none comes before one it waits for, `CountInv` that for each module what
  the ledger holds and what is left of the round add up to what is due.
- `SplitKeepsOrder`: `AwaitInv` says of every module not left to run that what it waits for is
  not left either and last ran before it. It rests on `OrderIsTopological`: the two lists
  the loop makes are sublists of an order that has been proved topological.
- `ConvergenceIsCoverage`: `ConvergeInv` keeps, as a witness, the set of subdomains that the last
  count stands for. Counting compares only sizes: that an equal count means an equal set
  follows because nothing deletes assets, and every module started from at least that set.
- `RunIsFinite`: every step of the resolution and of the run lowers `Left`, the parts, rounds
  and modules that are left, in the lexicographical order `Fewer`. That rounds are left
  when another one begins needs that the round is at most `Rounds` (`RoundsInv`); that modules are left to
  order needs that the order is without repetitions (`OrderFits`).

`AgenticPentestProofs`, for every budget, number of iterations, plan size, soft cap, set of
seeds and number of faults, assuming that the limits are natural numbers and the seeds
finite (`PentestAssumption`):

- `AgenticInvariant`: `Inv` is inductive. `BudgetBounded` alone is not: that a resumed process
  is charged for what was sent needs the requests of every earlier process to be on disk or
  counted as lost (`BudgetInv`), that a step which saves does not save less needs the
  checkpoint never to be ahead of the process that runs (`CheckpointInv`), and that the
  transcript stays within its type needs a bound on what each round adds (`RoundInv`).
- `AgenticTypes`, `BudgetHolds`, `FindingsOnce`, `EvidenceHolds` are its consequences, and so is
  `BudgetIsHard`: without a fault, `max_requests` requests at most, whatever is paused and resumed.
- `CheckpointsGrow` and `LoopIsNotReentered`, the action properties, follow from the invariant
  in the state before the step: only three actions write the file, and only `Probe` sends.
- `OnlyEarlyPausesForget`: what `CheckpointKeepsSeeds` would be but for the finding of
  `agentic_seeds`. `SeedInv` says that in the loop the checkpoint has no seed that the loop has not,
  and after it none that `outer` has not; only a pause inside the loop writes `outer` while the
  loop may know more.
- `ProcessIsFinite`: every step of a process lowers its `Left`: the parts of the stage, the
  iterations, the question to the AI and the actions of the plan.

The non-linear part (requests per round times rounds or faults) is isolated in `Rounding`,
`StepsGrow` and `LostGrows`; the steps above them only add and compare.

`ExecutorProofs`, for every number of attempts and helpers, every set of exit codes and every
policy with at least one attempt (`ExecutorAssumption`):

- `ExecutorInvariant`: `Inv` is inductive. `TreeAfterTimeout` alone is not: at the moment
  a time-out is recorded it follows from what the group was sent on the way, so the invariant
  says it already for an attempt in its grace period or draining, and that processes of later
  attempts do not exist yet.
- `ToolsEnd`, `TimeoutsEndTrees`, `RetriesFollowPolicy`, `ExecutorTypes` are its consequences.

`ReconProofs`, for every scope, world, cap, order of the stages and set of unreliable or
failing ones. The first five use no assumption:

- `AgentPredicateIsStricter`, `PassedRequestsAreSafe`: what the agent may send to, every stage
  may work on, and what passes its guards is within budget, methods and scope.
- `ReconInvariant`: `ReconInv` is inductive. `InScopeOnly` alone is not: URLs that a body names
  are in scope because the body's own URL is, which needs the response index in the
  invariant, and that only served pages are in it. `GuessesAreReal` is in it too, since names from
  certificates must be justified by a name that is known or a target; that a batch can only
  make `unheard` larger keeps earlier names justified.
- `ScanStaysInScope` and `GuessesAreFiltered` are its consequences.

The others say what the loop gives to the end of a scan. `WorldAssumption` says that there
are finitely many names and that what the world gives of a name is one of them, without
which counting names would show nothing. `ScanAssumption` says what the order of the stages
must have: names are found and probed in the loop, and normalization, the search for secrets
and triage run once, after what they work on. It is what the declarations of the stages
(`StockStages`) and the resolution (`ModuleOrder`) make of the stock pipeline: TLC evaluates
it in `recon` for the stock order, and it leaves all other orders open.

- `LoopInvariant`: `LoopInv` (in each phase, what is left of its list, and the rounds) and
  `NamesInv` (the known names are a finite set of names, stored either without addresses or
  with those the world gives, so a name once reachable stays so) are inductive.
- `ConvergedIsProbed`: `ProbeInv` keeps a witness, the set of names that the last count stands
  for. If `alive_detection` is still to come it will see them; if not, it has probed every
  reachable one of them. That an equal count means an equal set follows because no stage
  removes a name.
- `UrlsAreLinked`: `LinkInv` says that in the last phase, normalization is still to come or all
  URLs are linked. Stages after it add URLs too: those of hosts that are stored, which they link
  themselves.
- `SecretsBecomeLeads`: `LeadsInv` does the same twice over, for the search for secrets (every
  secret in the index is a finding or the search is to come) and for triage.

The three are stated, in the model as in the theorems, for scans in which the stage that
does the work did not fail; whichever others fail.

`ToolModuleRunProofs`, for every set of inputs, grouping of them, number of threads, of levels
and of passes, and every outcome of the tools (`FlowAssumption`):

- `FlowTypes`: `TypeInv` is inductive.
- `InvocationsOfAHostAreSerial`: `SerialInv` adds that the groups that wait and those that are
  taken hold different hosts, which `BeginLevel` makes true and the pool keeps.
- `LedgerFollowsTheInputs`: `OrderInv` adds that a level is recorded up to a position, that what
  waits to be recorded is sorted and beyond it, and that earlier levels are below this one.
- `EveryInvocationIsRecorded`: `AccountInv` adds that, unless a thread raised, what was begun is
  recorded, running, or among the results that wait to be recorded. It needs the two before.
- `NothingIsRescanned`: `ScanInv` adds that what was begun is in `seen`, and is in the current
  list only if this level began it.
- `StageIsAllOrNothing`: nothing is stored before the transaction, all after it, whichever
  step fails; that the ledger is complete by then is `AccountInv`.
- `StageIsFinite`: every step lowers its `Left`: the parts of the stage, the levels, the parts of a
  level, the groups that wait, the invocations the threads hold, and the results to record.
  That a thread which ends an invocation holds one less needs that no other thread holds it
  (`SerialInv`) and that its group has it once (`GroupsInOrder`).
- `ServersOfOneGroup`: what `ServersAreSerial` would be but for the finding of `vhost_pool`. Where
  inputs on one machine have one key, its invocations are serial. The hypothesis is what
  `host_of` would have to give; that of `vhost_discovery` does not.

`RunLifecycleProofs`, for every set of keys, attributes, batches and AI stages, every number of
analyses, of writes and of stages. `StoreAssumption` types the constants: what a batch is, and
that spellings have keys. `LifecycleAssumption` says that the AI stages of `cli/main.py` 37-50
are not stages of tools:

- `NormalizedIsLearned`: what the loop of `normalize` computes from a batch is, for each key and
  attribute, what the last record that knows it says. The fold is a recursive function on the
  lengths of prefixes; what it holds is proved as the absence of a first prefix at which it fails.
- `LifecycleInvariant`: `LifecycleInv` is inductive. Its parts: `TransactionInv` (what a
  transaction has done so far, against what was committed when it began), `CommittedInv` (what
  is committed is the merge of the history, with its rows), `LifeInv` (what is open, left and
  run at each place of a process) and `FindingsInv` (whose findings there are at each place).
  `NoPileUp` alone is not inductive: that an analysis adds to no older findings needs that its
  clearing has been committed before its first stage.
- `AssetsAreMerged`, `RowsHaveTheirRows` and `FindingsDoNotPileUp` are its consequences;
  `OutcomesAreHonest` and `ScansAreKept` are action properties that follow from it in the state
  before the step.
- `StoreIsAtomic`: each step of the store is a step of `AtomicStore` or leaves `db` alone. Only a
  commit changes `db`; `TransactionInv` says that at a commit all the statements have been done,
  and their effect together is the operation: a merge by `Merged`, row after row, gives
  what one merge of all the records gives.

`AnalysisProofs`, for every store, ranking, scope of the context and limit. `WeightAssumption`
says that weights are integers and that the defaults the code reads are among them.
`AnalysisAssumption` says that limits are positive, as the code replaces 0 by a default, that
stored hosts have distinct keys, and that URLs have other keys than hosts. The latter gives up
a case the code allows, a host stored under the very string of a URL; nothing is assumed of
the keys of other assets:

- `SpecKeepsStore`: `StoreInvariant` is inductive: the keys of URLs count up, and the findings
  are finitely many. What a score or a cut does in one state depends on nothing else.
- `SignalsAreKept`: the noise of a protected URL (a finding, a non-GET method, a vuln-class
  parameter or a keyword) is empty, and its signals and findings are its
  own; of the unprotected URLs of one template, the first has no other before it.
- `LeadsAreFirst`: `Ahead(s, A)` says that in a list `s` what is in `A` comes before all else.
  It survives dropping repetitions, filtering and cutting (`UniqueAhead`, `FilteredAhead`,
  `CutAhead`), and a list that is cut with `A` ahead has all of `A` or nothing but `A`.
- `HostsShare`: no host has a second URL that is not a lead while another has none; the same, with the leads, the hosts and the first round of URLs ahead. That a
  URL of a second round is not among those needs that the ranking lists each asset once
  (`RankingFacts`), hence that scores are integers: `SumExists` proves that the sum over a
  finite set exists and `SumOfIntegers` that it is one, over the cardinality of its parts.

`AnalysisProofs` also has the queries, for every graph, node, depth and list of relations; of
the graph they assume only that an edge joins two of the nodes:

- `NeighbourhoodsAreExact`: what the table expression holds after k steps is what walks of at
  most k edges lead to (`NearbyFacts`, `LeadsOn`).
- `PathsAreExact`: the calls at depth k are the walks of k edges that pass no node twice and
  the target at their end only (`Simple`), each with its last node, its edges and its nodes:
  a call from such a walk is to such a walk (`CallGrows`), and such a walk without its last
  edge is one that makes the call (`CallShrinks`). That a list has as many elements as
  places if and only if no two are the same (`DifferentNodes`) links it to the definition.
- `ChainsAreExact`: the same, for walks whose edges have the relations of their places.
- `QueriesHold`: the relations are always between stored assets (`QueriesAssumption`), so the
  three hold in every state.

A filtered, a joined list, a sum and a search are defined by recursion; what they hold is
proved in `ListProofs` and `AnalysisProofs` by `SetInduction`, induction stated of a set of
numbers instead of a predicate, from the absence of a least number outside it.

`RunIsFinite`, `StageIsFinite` and `ProcessIsFinite` are about termination as far as it is a
safety property: no behaviour takes such steps for ever. `Fewer(n)` compares lists of n
numbers lexicographically; that it is well-founded is `FewerIsWellFounded`, from the library.

Only model-checked: liveness under fairness (`RunEnds`, `StageReturns`, `AnalysisFinishes`,
`RunReturns`), which the installed provers cannot reach. To what the three theorems say, the
runs add that no step is missing: that a run, a stage or an analysis does not stop before
its end, and that an analysis which is run again and again gets there.

## 5. Not modelled

The text formats that parsers read, prompts, configuration, reports and logging are text and
files; the tool manager looks up and probes binaries. The provider, the targets and the
external tools are nondeterministic choices or constants. Of the stages, `screenshot` stores
files only and is left out, as are command lines, rates, ports and schemes of the others;
captures, rate limits and timeouts of a tool stage are left out of `ToolModuleRun`. The
executor's fall-back for a group that may not be signalled (a tool that runs as another
user), its back-off time and the redaction of arguments are left out of `Executor`.
Two processes on one run id at the same time are not modelled: the code does nothing to
prevent them, and the hazard list says so. `PROJECT.json` gives the reason for each component.

## 6. Plan

1. Captures and their numbering in `ToolModuleRun`; the response bodies of the AI context.
