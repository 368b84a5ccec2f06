---------------------------- MODULE ToolModuleRun ----------------------------
(***************************************************************************)
(* ToolModule.run: the flow every tool-wrapping stage shares.  Inputs are    *)
(* scanned level by level, each level by a pool of threads that take one     *)
(* group of invocations (one host) each; the caller's thread then records,   *)
(* parses and scope-filters the results, persists all of them at the end,    *)
(* and calls the stage's own after_persist.                                  *)
(***************************************************************************)
EXTENDS Naturals, Sequences, FiniteSets, Lists

CONSTANTS Item,      \* what a stage scans: targets, subdomains, hosts, urls
          Inputs,    \* the lists of inputs _gather_inputs may return
          Seeds,     \* input_type is None: the inputs are the operator's own targets
          None,      \* the item of a batch invocation, and the host of an item without one
          GroupOf,   \* host_of(item)
          Server,    \* the machine an item's invocations send requests to
          Batches,   \* batch: one invocation is fed all inputs of a level
          Passes,    \* invocations per item
          Finds,     \* the subdomains in the output of scanning an item, in order
          InScope,   \* the items whose host the scope allows
          Workers,   \* max_concurrent_targets
          Depth      \* recursive_depth, 1 for a stage that is not recursive

ASSUME FlowAssumption ==
  /\ IsFiniteSet(Item)
  /\ \A s \in Inputs : s \in Seq(Item)
  /\ Seeds \in BOOLEAN
  /\ None \notin Item
  /\ DOMAIN GroupOf = Item \cup {None} /\ GroupOf[None] = None
  /\ DOMAIN Server = Item
  /\ Batches \subseteq BOOLEAN
  /\ Finds \in [Item -> Seq(Item)]
  /\ InScope \subseteq Item
  /\ Passes \in Nat \ {0} /\ Workers \in Nat \ {0} /\ Depth \in Nat \ {0}

VARIABLES
  pc,        \* "gather", "level", "pool", "record", "persist", "after"; then "done",
             \* "failed" or "skipped"
  batch,     \* whether the stage is one that feeds all inputs to one invocation
  frontier,  \* the inputs of the next level
  seen,      \* the inputs of the levels so far
  level,     \* levels begun
  pairs,     \* the invocations of the level: the item of each, and what it is fed
  queue,     \* the groups no thread has taken yet
  busy,      \* the groups being run: what is left of each, the first one running
  finished,  \* per busy group, the results of its invocations so far
  executed,  \* the results of the completed groups, in completion order
  raised,    \* the executor raised in a thread
  found,     \* level_records: the in-scope subdomains of the level
  records,   \* what will be persisted
  runs,      \* the tool_run rows of the store
  store,     \* the assets of the store
  begun      \* the invocations the threads have begun, named as in the ledger

scan == <<pairs, queue, busy, finished, executed, raised>>
vars == <<pc, batch, frontier, seen, level, pairs, queue, busy, finished, executed, raised,
          found, records, runs, store, begun>>

Empty == [g \in {} |-> << >>]

\* An invocation of the current level, as a tool_run row names it.
Invocation(i) == [level |-> level, idx |-> i, fed |-> pairs[i].fed]

\* One result: the position of the invocation, and whether the tool succeeded.
Result(i, ok) == [idx |-> i, ok |-> ok]

\* The subdomains in the output of an invocation, in order.
Output(i) == Joined([k \in 1 .. Len(pairs[i].fed) |-> Finds[pairs[i].fed[k]]])

\* Mutant of Sorted: results are recorded as the threads complete.
SortedByCompletion(results) == results

\* The results in the order of their invocations.
Sorted(results) ==
  LET idx == Ascending({r.idx : r \in Elements(results)}, Len(pairs))
  IN [k \in 1 .. Len(idx) |-> CHOOSE r \in Elements(results) : r.idx = idx[k]]

\* The invocations of a level: one for all its inputs, or Passes of them for each.
Alone(item) == [item |-> item, fed |-> <<item>>]
PairsOf(s) ==
  IF batch THEN <<[item |-> None, fed |-> s]>>
  ELSE [k \in 1 .. Len(s) * Passes |-> Alone(s[((k - 1) \div Passes) + 1])]

\* Mutant of KeyOf: invocations are grouped by input and pass, not by host.
KeyOfEach(p, i) == <<i>>

\* The key under which an invocation is serialised: its host, or one of its own.
KeyOf(p, i) ==
  LET host == GroupOf[p[i].item] IN IF host = None THEN <<"batch", i>> ELSE <<"host", host>>

\* The groups, in the order of their first invocation: the invocations with its key.
Group(p, i) == Ascending({k \in 1 .. Len(p) : KeyOf(p, k) = KeyOf(p, i)}, Len(p))
Groups(p) ==
  LET firsts == Ascending({k \in 1 .. Len(p) : \A i \in 1 .. k - 1 : KeyOf(p, i) # KeyOf(p, k)}, Len(p))
  IN [n \in 1 .. Len(firsts) |-> Group(p, firsts[n])]

-----------------------------------------------------------------------------
Init ==
  /\ pc = "gather" /\ batch \in Batches
  /\ frontier = << >> /\ seen = {} /\ level = 0
  /\ pairs = << >> /\ queue = << >> /\ busy = Empty /\ finished = Empty
  /\ executed = << >> /\ raised = FALSE
  /\ found = << >> /\ records = {} /\ runs = << >> /\ store = {}
  /\ begun = {}

\* The tool is not installed: the stage is skipped.
ToolMissing ==
  /\ pc = "gather"
  /\ pc' = "skipped"
  /\ UNCHANGED <<batch, frontier, seen, level, scan, found, records, runs, store, begun>>

\* Inputs derived from the store are scope-gated; the operator's own targets are
\* not, and are injected as records when they are in scope.
Gather ==
  /\ pc = "gather"
  /\ \E s \in Inputs :
       /\ frontier' = IF Seeds THEN s ELSE Filtered(s, InScope)
       /\ records' = IF Seeds THEN Elements(s) \cap InScope ELSE {}
  /\ pc' = IF frontier' = << >> /\ records' = {} THEN "done" ELSE "level"
  /\ UNCHANGED <<batch, seen, level, scan, found, runs, store, begun>>

\* Mutant of BeginLevel: the inputs of a level are not marked as seen.
BeginLevelForgetful ==
  /\ pc = "level"
  /\ LET current == Filtered(frontier, Item \ seen)
     IN IF level >= Depth \/ current = << >>
        THEN pc' = "persist" /\ UNCHANGED <<seen, level, pairs, queue>>
        ELSE /\ pc' = "pool"
             /\ level' = level + 1
             /\ pairs' = PairsOf(current)
             /\ queue' = Groups(PairsOf(current))
             /\ UNCHANGED seen
  /\ executed' = << >>
  /\ found' = << >>
  /\ UNCHANGED <<batch, frontier, busy, finished, raised, records, runs, store, begun>>

\* The next level: the frontier without what was already scanned, as invocations
\* grouped by host; the loop ends at the configured depth or when nothing is new.
BeginLevel ==
  /\ pc = "level"
  /\ LET current == Filtered(frontier, Item \ seen)
     IN IF level >= Depth \/ current = << >>
        THEN pc' = "persist" /\ UNCHANGED <<seen, level, pairs, queue>>
        ELSE /\ pc' = "pool"
             /\ level' = level + 1
             /\ pairs' = PairsOf(current)
             /\ queue' = Groups(PairsOf(current))
             /\ seen' = seen \cup Elements(current)
  /\ executed' = << >>
  /\ found' = << >>
  /\ UNCHANGED <<batch, frontier, busy, finished, raised, records, runs, store, begun>>

\* Mutant of TakeGroup: no group is taken after an exception, in the pool either.
TakeGroupUnlessRaised ==
  /\ pc = "pool"
  /\ queue # << >>
  /\ Cardinality(DOMAIN busy) < Workers
  /\ ~raised
  /\ LET g == Head(queue)[1]
     IN /\ busy' = [h \in DOMAIN busy \cup {g} |-> IF h = g THEN Head(queue) ELSE busy[h]]
        /\ finished' = [h \in DOMAIN busy \cup {g} |-> IF h = g THEN << >> ELSE finished[h]]
        /\ begun' = begun \cup {Invocation(g)}
  /\ queue' = Tail(queue)
  /\ UNCHANGED <<pc, batch, frontier, seen, level, pairs, executed, raised, found, records, runs, store>>

\* A free thread takes the next group and begins its first invocation.  A single
\* worker runs in the caller's thread, where an exception stops the groups left.
TakeGroup ==
  /\ pc = "pool"
  /\ queue # << >>
  /\ Cardinality(DOMAIN busy) < Workers
  /\ ~(raised /\ Workers = 1)
  /\ LET g == Head(queue)[1]
     IN /\ busy' = [h \in DOMAIN busy \cup {g} |-> IF h = g THEN Head(queue) ELSE busy[h]]
        /\ finished' = [h \in DOMAIN busy \cup {g} |-> IF h = g THEN << >> ELSE finished[h]]
        /\ begun' = begun \cup {Invocation(g)}
  /\ queue' = Tail(queue)
  /\ UNCHANGED <<pc, batch, frontier, seen, level, pairs, executed, raised, found, records, runs, store>>

Without(f, g) == [h \in DOMAIN f \ {g} |-> f[h]]

\* The running invocation of a group ends, well or not; the next of the group begins,
\* or the group is complete and its results are handed over.
EndInvocation(g) ==
  /\ pc = "pool"
  /\ g \in DOMAIN busy
  /\ \E ok \in BOOLEAN :
       LET results == Append(finished[g], Result(Head(busy[g]), ok))
           rest == Tail(busy[g])
       IN IF rest = << >>
          THEN /\ executed' = executed \o results
               /\ busy' = Without(busy, g)
               /\ finished' = Without(finished, g)
               /\ UNCHANGED begun
          ELSE /\ busy' = [busy EXCEPT ![g] = rest]
               /\ finished' = [finished EXCEPT ![g] = results]
               /\ begun' = begun \cup {Invocation(rest[1])}
               /\ UNCHANGED executed
  /\ UNCHANGED <<pc, batch, frontier, seen, level, pairs, queue, raised, found, records, runs, store>>

\* The executor raises (output that does not decode): the results of the whole group
\* are lost, the exception waits in its future.
Raise(g) ==
  /\ pc = "pool"
  /\ g \in DOMAIN busy
  /\ raised' = TRUE
  /\ busy' = Without(busy, g)
  /\ finished' = Without(finished, g)
  /\ UNCHANGED <<pc, batch, frontier, seen, level, pairs, queue, executed, found, records, runs, store, begun>>

\* Mutant of EndPool: the exceptions of the futures are dropped.
EndPoolIgnoring ==
  /\ pc = "pool"
  /\ busy = Empty
  /\ queue = << >> \/ (raised /\ Workers = 1)
  /\ pc' = "record"
  /\ executed' = Sorted(executed)
  /\ UNCHANGED <<batch, frontier, seen, level, pairs, queue, busy, finished, raised, found, records, runs,
                 store, begun>>

\* The pool is joined: an exception fails the stage, and with it the results of the
\* level; otherwise they are put back in the order of the invocations.
EndPool ==
  /\ pc = "pool"
  /\ busy = Empty
  /\ queue = << >> \/ (raised /\ Workers = 1)
  /\ pc' = IF raised THEN "failed" ELSE "record"
  /\ executed' = Sorted(executed)
  /\ UNCHANGED <<batch, frontier, seen, level, pairs, queue, busy, finished, raised, found, records, runs,
                 store, begun>>

\* On the caller's thread, one result: a tool_run row, then the in-scope part of what
\* the parser reads in the output of a tool that succeeded, unless it raises.
RecordResult ==
  /\ pc = "record"
  /\ executed # << >>
  /\ runs' = Append(runs, Invocation(Head(executed).idx))
  /\ \/ /\ found' = IF Head(executed).ok
                    THEN found \o Filtered(Output(Head(executed).idx), InScope)
                    ELSE found
        /\ UNCHANGED pc
     \/ /\ Head(executed).ok
        /\ pc' = "failed"
        /\ UNCHANGED found
  /\ executed' = Tail(executed)
  /\ UNCHANGED <<batch, frontier, seen, level, pairs, queue, busy, finished, raised, records, store, begun>>

\* The subdomains of the level are the next frontier, those already scanned aside.
EndLevel ==
  /\ pc = "record"
  /\ executed = << >>
  /\ frontier' = Filtered(found, Item \ seen)
  /\ records' = records \cup Elements(found)
  /\ pc' = "level"
  /\ UNCHANGED <<batch, seen, level, scan, found, runs, store, begun>>

\* Mutant of Persist: what was collected is stored in spite of the error.
PersistPartly ==
  /\ pc = "persist"
  /\ \E some \in SUBSET records :
       /\ store' = some
       /\ pc' = IF some = records THEN "after" ELSE "failed"
  /\ UNCHANGED <<batch, frontier, seen, level, scan, found, records, runs, begun>>

\* Everything is persisted in one transaction, or nothing is.
Persist ==
  /\ pc = "persist"
  /\ \/ pc' = "after" /\ store' = records
     \/ pc' = "failed" /\ UNCHANGED store
  /\ UNCHANGED <<batch, frontier, seen, level, scan, found, records, runs, begun>>

\* The transaction is committed when the stage's own after_persist runs: it writes files
\* or findings and may raise, which fails the stage and leaves what was stored.
AfterPersist ==
  /\ pc = "after"
  /\ pc' \in {"done", "failed"}
  /\ UNCHANGED <<batch, frontier, seen, level, scan, found, records, runs, store, begun>>

\* What the flow does by itself: all but the end of an invocation, which is the tool's.
FlowStep ==
  \/ ToolMissing \/ Gather \/ BeginLevel \/ TakeGroup
  \/ EndPool \/ RecordResult \/ EndLevel \/ Persist \/ AfterPersist

Next == FlowStep \/ \E g \in DOMAIN busy : EndInvocation(g) \/ Raise(g)

\* The caller and the threads of the pool go on.  Nothing is assumed of the invocations:
\* an executor whose tool left its output open never returns (Executor, RunReturns).
Spec == Init /\ [][Next]_vars /\ WF_vars(FlowStep)

-----------------------------------------------------------------------------
\* The invocations that are running: the first of each busy group.
Running == {busy[g][1] : g \in DOMAIN busy}

\* Whatever the threads do, two invocations with the same host_of key never run at the
\* same time (_execute: "a single host's invocations stay serial").
HostsAreSerial ==
  \A a, b \in Running :
    LET host == GroupOf[pairs[a].item] IN host # None /\ host = GroupOf[pairs[b].item] => a = b

\* The tool_run rows come in the order of levels and invocations, whichever thread
\* finished first, so that capture files keep their numbers from run to run.
LedgerIsOrdered ==
  \A i, j \in 1 .. Len(runs) :
    i < j => \/ runs[i].level < runs[j].level
             \/ runs[i].level = runs[j].level /\ runs[i].idx < runs[j].idx

\* A stage that succeeds has a tool_run row for every invocation it began, the failed
\* tools included, and none that it did not begin.
SuccessIsAccounted ==
  pc = "done" => Elements(runs) = begun /\ Len(runs) = Cardinality(begun)

\* Persistence is all or nothing (run, persist_normalization): a stage that succeeds
\* leaves all it collected in scope, one that fails before the commit nothing, and one
\* that fails after it, in after_persist, all; and nothing is stored before every
\* invocation begun has its tool_run row.
AllOrNothing ==
  /\ store \in {{}, records} /\ store \subseteq InScope
  /\ pc \in {"after", "done"} => store = records
  /\ pc \notin {"after", "done", "failed"} => store = {}
  /\ store # {} => begun = Elements(runs)

\* Recursive discovery goes down by in-scope subdomains only and never scans again, at
\* a deeper level, what a level above has scanned.
NoRescan ==
  \A b \in begun :
    /\ \A c \in begun : Elements(b.fed) \cap Elements(c.fed) # {} => c.level = b.level
    /\ Elements(b.fed) \subseteq InScope \/ (Seeds /\ b.level = 1)

\* However deep the recursion is configured and whatever raises, the stage returns,
\* unless a thread stays inside the executor for good.
Returned == pc \in {"done", "failed", "skipped"}
StageReturns == <>Returned \/ <>[](busy # Empty)

\* "A single host's invocations stay serial so we never exceed that host's rate"
\* (_execute): two running invocations never send requests to the same machine.
ServersAreSerial ==
  \A a, b \in Running :
    \A x \in Elements(pairs[a].fed), y \in Elements(pairs[b].fed) : Server[x] = Server[y] => a = b
==============================================================================
