------------------------------- MODULE Store -------------------------------
(***************************************************************************)
(* The store at the grain of SQL statements: an operation of the facade is a *)
(* transaction of several statements on one connection, any of which may     *)
(* raise, and the process may die between any two.                          *)
(***************************************************************************)
EXTENDS Naturals, Sequences, FiniteSets

CONSTANTS Spelling, Key, CanonicalKey, Attr, Value, Null, Tool, Target, Finding, Batch

ASSUME StoreAssumption ==
  /\ CanonicalKey \in [Spelling -> Key]
  /\ Null \notin Value \cup Tool
  /\ Batch \subseteq
       [records : Seq([key : Spelling, attributes : [Attr -> Value \cup {Null}],
                       tool : Tool \cup {Null}]),
        relations : SUBSET (Spelling \X Spelling)]

VARIABLES
  db,      \* what is committed
  work,    \* what the connection sees
  todo,    \* statements left of the open transaction
  open,    \* a transaction is open
  records, \* history: the records of the open transaction
  history  \* history: the records of all committed ones, in order

storeVars == <<db, work, todo, open, records, history>>

\* The committed store is what the atomic one would be.
Atomic == INSTANCE AtomicStore

StoreInit ==
  /\ db = Atomic!Empty /\ work = db
  /\ todo = {} /\ open = FALSE
  /\ records = << >> /\ history = << >>

-----------------------------------------------------------------------------
\* Normalizer.normalize: records are merged in their order into one entity per canonical
\* key, whose attributes are the last ones that are not null.

Unknown == [a \in Attr |-> Null]
Merged(old, new) == [a \in Attr |-> IF new[a] # Null THEN new[a] ELSE old[a]]

Normalized(batch) ==
  LET rs == batch.records
      entities[n \in 0 .. Len(rs)] ==
        IF n = 0 THEN << >>
        ELSE LET before == entities[n - 1]
                 key == CanonicalKey[rs[n].key]
             IN [k \in DOMAIN before \cup {key} |->
                   IF k # key THEN before[k]
                   ELSE Merged(IF k \in DOMAIN before THEN before[k] ELSE Unknown,
                               rs[n].attributes)]
  IN entities[Len(rs)]

\* _add_source: one per tool and capture, none for a record that names no tool.
NormalizedSources(batch) ==
  {s \in {<<CanonicalKey[batch.records[i].key], batch.records[i].tool>> :
            i \in DOMAIN batch.records} : s[2] # Null}

-----------------------------------------------------------------------------
\* Statements.  Their order is that of the loops of persist_normalization and start_run,
\* up to the order of the entities, each of which has rows of its own.

StartStatements == {<<"run">>} \cup {<<"target", t>> : t \in Target}
FinishStatements(status) == {<<"status", status>>}
FindingStatements(f) == {<<"finding", f>>}
ClearStatements(findings) == {<<"clear", findings>>}

PersistStatements(batch) ==
  LET entities == Normalized(batch)
  IN {<<"asset", k, entities[k]>> : k \in DOMAIN entities}
       \cup {<<"source", s[1], s[2]>> : s \in NormalizedSources(batch)}
       \cup {<<"relation", r[1], r[2]>> : r \in batch.relations}

Ready(s) ==
  CASE s[1] = "target"   -> <<"run">> \notin todo
    [] s[1] = "source"   -> \A o \in todo : o[1] = "asset" => o[2] # s[2]
    [] s[1] = "relation" -> \A o \in todo : o[1] \notin {"asset", "source"}
    [] OTHER             -> TRUE

\* Foreign keys are enforced, and the run's primary key.
Allowed(s) ==
  CASE s[1] = "run"                -> work.run = "none"
    [] s[1] \in {"status", "clear"} -> TRUE
    [] OTHER                       -> work.run # "none"

\* Mutant of UpsertAsset: an update replaces the attributes.
UpsertAssetReplacing(asset, k, attributes) ==
  [j \in DOMAIN asset \cup {k} |-> IF j = k THEN attributes ELSE asset[j]]

\* AssetRepository.upsert: attributes that are not null overwrite the stored ones.
UpsertAsset(asset, k, attributes) ==
  [j \in DOMAIN asset \cup {k} |->
     IF j # k THEN asset[j]
     ELSE IF k \in DOMAIN asset THEN Merged(asset[k], attributes) ELSE attributes]

\* Mutant of UpsertRelation: the ends are not looked up.
UpsertRelationUnchecked(relation, src, dst) ==
  relation \cup {<<CanonicalKey[src], CanonicalKey[dst]>>}

\* A relation is kept if the store knows both its ends.
UpsertRelation(relation, src, dst) ==
  IF {CanonicalKey[src], CanonicalKey[dst]} \subseteq DOMAIN work.asset
  THEN relation \cup {<<CanonicalKey[src], CanonicalKey[dst]>>}
  ELSE relation

Executed(s) ==
  CASE s[1] = "run"      -> [work EXCEPT !.run = "running"]
    [] s[1] = "target"   -> [work EXCEPT !.target = @ \cup {s[2]}]
    [] s[1] = "status"   -> [work EXCEPT !.run = IF @ = "none" THEN @ ELSE s[2]]
    [] s[1] = "asset"    -> [work EXCEPT !.asset = UpsertAsset(@, s[2], s[3])]
    [] s[1] = "source"   -> [work EXCEPT !.provenance = @ \cup {<<s[2], s[3]>>}]
    [] s[1] = "relation" -> [work EXCEPT !.relation = UpsertRelation(@, s[2], s[3])]
    [] s[1] = "finding"  -> [work EXCEPT !.finding = @ \cup {s[2]}]
    [] s[1] = "clear"    -> [work EXCEPT !.finding = @ \ s[2]]

-----------------------------------------------------------------------------
\* Database.transaction: a with block is entered.
Begin(statements, rs) ==
  /\ ~open
  /\ open' = TRUE
  /\ todo' = statements
  /\ records' = rs
  /\ UNCHANGED <<db, work, history>>

Execute(s) ==
  /\ open
  /\ s \in todo /\ Ready(s) /\ Allowed(s)
  /\ work' = Executed(s)
  /\ todo' = todo \ {s}
  /\ UNCHANGED <<db, open, records, history>>

\* The block is left normally.
Commit ==
  /\ open /\ todo = {}
  /\ open' = FALSE
  /\ db' = work
  /\ history' = history \o records
  /\ UNCHANGED <<work, todo, records>>

\* Mutant of Raise: the exception is passed on without a roll-back.
RaiseKeeping ==
  /\ open
  /\ open' = FALSE
  /\ todo' = {}
  /\ UNCHANGED <<db, work, records, history>>

\* A statement or the commit raises: a constraint, a full disk, a lock that times out.
Raise ==
  /\ open
  /\ open' = FALSE
  /\ todo' = {}
  /\ work' = db
  /\ UNCHANGED <<db, records, history>>

\* The process dies, or closes the store: what it has not committed is gone.
Disconnect ==
  /\ open' = FALSE
  /\ todo' = {}
  /\ work' = db
  /\ UNCHANGED <<db, records, history>>

-----------------------------------------------------------------------------
\* What is stored of the assets does not depend on how the records came in batches, on
\* which operations failed, nor on their repetition: it is what one pass over all the
\* committed records gives (Normalizer._merge_attributes, AssetRepository.upsert).
StoredIsMerged ==
  /\ db.asset = Atomic!Learned(<< >>, history)
  /\ db.provenance = Atomic!Sources(history)

\* No row refers to a row that is not there: relations and sources have their assets, and
\* nothing is stored of a run without its row (persist_normalization, schema).
NoDanglingRows ==
  \A d \in {db, work} :
    /\ \A e \in d.relation \cup {<<p[1], p[1]>> : p \in d.provenance} :
         {e[1], e[2]} \subseteq DOMAIN d.asset
    /\ d.run = "none" => d = Atomic!Empty

\* The committed store changes as the atomic one: an operation is stored as a whole or not
\* at all, whatever statement raises and wherever the process dies (Database.transaction).
ImplementsAtomicStore == Atomic!Spec
=============================================================================
