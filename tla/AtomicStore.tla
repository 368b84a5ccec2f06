---------------------------- MODULE AtomicStore ----------------------------
(***************************************************************************)
(* What the store promises: one recon run, on which every operation of the   *)
(* facade takes effect as a whole or not at all, and which keeps of all the  *)
(* records it was given the last value reported of each attribute and every  *)
(* source.                                                                  *)
(***************************************************************************)
EXTENDS Naturals, Sequences, FiniteSets

CONSTANTS Spelling,        \* keys as tools report them
          Key,             \* canonical keys
          CanonicalKey,    \* the entity a reported key means
          Attr, Value,     \* attributes of an entity and their values
          Null,            \* no value
          Tool,            \* where a record is from: a tool with its raw capture
          Target,          \* targets of the run
          Finding,         \* findings that may be stored
          Batch            \* what is persisted at once: records and relations

Attributes == [Attr -> Value \cup {Null}]
Record == [key : Spelling, attributes : Attributes, tool : Tool \cup {Null}]
Status == {"none", "running", "completed", "completed_with_errors"}

VARIABLE db

Empty == [run |-> "none", target |-> {}, asset |-> << >>, provenance |-> {},
          relation |-> {}, finding |-> {}]

Init == db = Empty

\* The records that are about an entity and know an attribute of it.
Reports(records, k, a) ==
  {i \in DOMAIN records : CanonicalKey[records[i].key] = k /\ records[i].attributes[a] # Null}

Entities(records) == {CanonicalKey[records[i].key] : i \in DOMAIN records}
Sources(records) ==
  {<<CanonicalKey[records[i].key], records[i].tool>> :
     i \in {j \in DOMAIN records : records[j].tool # Null}}

\* The last value reported, or else the one known before.
Last(records, k, a, before) ==
  LET reports == Reports(records, k, a)
  IN IF reports = {} THEN before
     ELSE LET last == CHOOSE i \in reports : \A j \in reports : j <= i
          IN records[last].attributes[a]

Learned(asset, records) ==
  [k \in DOMAIN asset \cup Entities(records) |->
     [a \in Attr |-> Last(records, k, a, IF k \in DOMAIN asset THEN asset[k][a] ELSE Null)]]

StartRun ==
  /\ db.run = "none"
  /\ db' = [db EXCEPT !.run = "running", !.target = Target]

FinishRun(status) ==
  db' = IF db.run = "none" THEN db ELSE [db EXCEPT !.run = status]

Persist(batch) ==
  LET asset == Learned(db.asset, batch.records)
      ends == {<<CanonicalKey[r[1]], CanonicalKey[r[2]]>> : r \in batch.relations}
  IN /\ db.run # "none"
     /\ db' = [db EXCEPT !.asset = asset,
                         !.provenance = @ \cup Sources(batch.records),
                         !.relation = @ \cup {e \in ends : {e[1], e[2]} \subseteq DOMAIN asset}]

AddFinding(f) ==
  /\ db.run # "none"
  /\ db' = [db EXCEPT !.finding = @ \cup {f}]

ClearFindings(findings) == db' = [db EXCEPT !.finding = @ \ findings]

Next ==
  \/ StartRun
  \/ \E status \in {"completed", "completed_with_errors"} : FinishRun(status)
  \/ \E batch \in Batch : Persist(batch)
  \/ \E f \in Finding : AddFinding(f)
  \/ \E findings \in SUBSET db.finding : ClearFindings(findings)

Spec == Init /\ [][Next]_db
=============================================================================
