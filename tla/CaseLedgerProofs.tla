-------------------------- MODULE CaseLedgerProofs --------------------------
(***************************************************************************)
(* The tables of a case implement the ledger: every commit, that of a run  *)
(* which failed half-way included, is one step of CaseLedger.              *)
(***************************************************************************)
EXTENDS CaseGraphMirrorProofs

-----------------------------------------------------------------------------
(* What a transaction has done so far                                       *)

Pristine(p) == uploaded[p] = {} /\ \A x \in Ids \cup Rels : owner[x] # p

Adds(p) ==
  /\ \A id \in Ids : owner[id] = p =>
       \/ draft.entity[id].state = db.entity[id].state
       \/ db.entity[id].state = "absent" /\ draft.entity[id].state = "live"
  /\ \A r \in Rels : owner[r] = p => db.rel[r].state = "absent" /\ draft.rel[r].state = "live"

Removes(p, x) ==
  /\ uploaded[p] = {} /\ \A y \in Ids \cup Rels : owner[y] = p <=> y = x
  /\ x \in Ids => draft.entity[x].state = "deleted" /\ db.entity[x].state # "absent"
  /\ x \in Rels => draft.rel[x].state = "deleted" /\ db.rel[x].state # "absent"

\* A transaction adds, or it soft-deletes one row and that is all it does.
OneKind(p) ==
  /\ pc[p] \in {"idle", "delete", "unlink"} => Pristine(p)
  /\ pc[p] \in {"idle", "delete", "unlink", "delete_vertex", "delete_edge"} => todo[p] = <<>>
  /\ pc[p] \in {"delete_vertex", "delete_edge"} => Removes(p, at[p])
  /\ pc[p] \notin {"delete_vertex", "delete_edge", "commit"} => Adds(p)
  /\ pc[p] = "commit" => Adds(p) \/ \E x \in Ids \cup Rels : Removes(p, x)

LEMMA OneKindOthers ==
  ASSUME Rows, NEW p \in Procs, StepOf(p), sessions' \in 0..MaxSessions,
         NEW q \in Procs, q # p, OneKind(q)
  PROVE  OneKind(q)'
<1> Shape /\ Synced /\ Forward /\ OnRow(p) /\ NoProc # p /\ NoProc # q
  BY ConstantsOK DEF Rows
<1>1. /\ pc'[q] = pc[q] /\ at'[q] = at[q] /\ todo'[q] = todo[q] /\ uploaded'[q] = uploaded[q]
      /\ \A x \in Ids \cup Rels : owner'[x] = q <=> owner[x] = q
  BY StepTyped DEF Alone
<1>2. /\ \A id \in Ids : owner[id] = q => draft'.entity[id] = draft.entity[id]
      /\ \A r \in Rels : owner[r] = q => draft'.rel[r] = draft.rel[r]
  BY HeldStays
<1>3. /\ \A id \in Ids : owner[id] = q => db'.entity[id] = db.entity[id]
      /\ \A r \in Rels : owner[r] = q => db'.rel[r] = db.rel[r]
  <2>1. CASE Commits(p)
    BY <2>1 DEF Commits, Committed
  <2>2. Commits(p) \/ db' = db
    BY InsertEntityDoes, UpdateEntityDoes, UpsertVertexDoes, DeleteEntityDoes,
       DeleteVertexDoes, InsertRelDoes, UpsertEdgeDoes, DeleteRelDoes, DeleteEdgeDoes,
       CreateEvidenceDoes
    DEF StepOf, Reading, RollsBack, RolledBack, store
  <2> QED
    BY <2>1, <2>2
<1>4. Pristine(q) => Pristine(q)'
  BY <1>1 DEF Pristine
<1>5. Adds(q) => Adds(q)'
  BY <1>1, <1>2, <1>3 DEF Adds
<1>6. ASSUME NEW x \in Ids \cup Rels, Removes(q, x) PROVE Removes(q, x)'
  BY <1>1, <1>2, <1>3, <1>6 DEF Removes
<1>7. pc[q] \in {"delete_vertex", "delete_edge"} => at[q] \in Ids \cup Rels
  BY DEF Shape, DataFits
<1>8. pc[q] \in {"delete_vertex", "delete_edge"} /\ Removes(q, at[q]) => Removes(q, at[q])'
  <2> SUFFICES ASSUME NEW x \in Ids \cup Rels, x = at[q], Removes(q, x)
               PROVE  Removes(q, at[q])'
    BY <1>7
  <2>1. Removes(q, x)' /\ x = at'[q]
    BY <1>1, <1>6
  <2> QED
    BY <2>1 DEF Removes
<1> QED
  BY <1>1, <1>4, <1>5, <1>6, <1>8 DEF OneKind

LEMMA OneKindSelf ==
  ASSUME Rows, NEW p \in Procs, OneKind(p), StepOf(p), sessions' \in 0..MaxSessions
  PROVE  OneKind(p)'
<1> Shape /\ Synced /\ Forward /\ OnRow(p) /\ NoProc # p
  BY ConstantsOK DEF Rows
<1>1. CASE Reading(p)
  <2>1. UNCHANGED <<db, draft, owner, uploaded>>
    BY <1>1 DEF Reading, store
  <2>2. pc[p] = "idle" => Pristine(p)' /\ Adds(p)' /\ todo[p] = <<>>
    BY <2>1 DEF OneKind, Pristine, Adds
  <2>3. pc[p] = "next" => Adds(p)'
    BY <2>1 DEF OneKind, Adds
  <2> QED
    BY <1>1, <2>2, <2>3 DEF Reading, OneKind
<1>2. CASE Commits(p) \/ RollsBack(p)
  <2>1. Released(p)
    BY <1>2 DEF Commits, RollsBack
  <2> QED
    BY <2>1 DEF Released, OneKind, Pristine, Adds
<1>3. CASE InsertEntity(p)
  <2>1. PICK new \in Ids :
          /\ Fresh(db.entity, new) /\ OnlyEntity(new) /\ Takes(p, new)
          /\ draft'.entity[new].state = "live" /\ pc'[p] = "upsert_vertex"
    BY <1>3, InsertEntityDoes
  <2>2. pc[p] = "insert" /\ db' = db
    BY <1>3, InsertEntityDoes DEF InsertEntity
  <2>3. Adds(p)'
    BY <2>1, <2>2, ConstantsOK DEF OneKind, Adds, OnlyEntity, Takes, Fresh
  <2> QED
    BY <2>1, <2>3 DEF OneKind
<1>4. CASE UpdateEntity(p)
  <2>1. /\ at[p] \in Ids /\ pc[p] = "update" /\ db' = db /\ pc'[p] = "upsert_vertex"
        /\ Takes(p, at[p]) \/ UNCHANGED <<owner, draft>>
        /\ OnlyEntity(at[p]) /\ draft'.entity[at[p]].state = draft.entity[at[p]].state
    BY <1>4, UpdateEntityDoes
  <2>2. Adds(p)'
    BY <2>1, ConstantsOK DEF OneKind, Adds, OnlyEntity, Takes, Synced
  <2> QED
    BY <2>1, <2>2 DEF OneKind
<1>5. CASE UpsertVertex(p)
  <2>1. /\ at[p] \in Ids /\ pc[p] = "upsert_vertex" /\ db' = db /\ pc'[p] \in {"commit", "next"}
        /\ Takes(p, at[p]) /\ OnlyVertex(at[p])
    BY <1>5, UpsertVertexDoes
  <2>2. Adds(p)'
    BY <2>1, ConstantsOK DEF OneKind, Adds, OnlyVertex, Takes, Synced
  <2> QED
    BY <2>1, <2>2 DEF OneKind
<1>6. CASE DeleteEntity(p)
  <2>1. /\ at[p] \in Ids /\ pc[p] = "delete" /\ UNCHANGED <<db, uploaded, todo>>
        /\ pc'[p] = "delete_vertex" /\ at'[p] = at[p]
        /\ Takes(p, at[p]) /\ draft'.entity[at[p]].state = "deleted"
    BY <1>6, DeleteEntityDoes
  <2>2. Pristine(p) /\ todo[p] = <<>>
    BY <2>1 DEF OneKind
  <2>3. db.entity[at[p]].state # "absent"
    BY <2>1, <2>2 DEF OnRow, Entity, Pristine
  <2>4. Removes(p, at[p])'
    BY <2>1, <2>2, <2>3, ConstantsOK DEF Removes, Pristine, Takes
  <2> QED
    BY <2>1, <2>2, <2>4 DEF OneKind
<1>7. CASE DeleteVertex(p)
  <2>1. /\ at[p] \in Ids /\ pc[p] = "delete_vertex" /\ OnlyVertex(at[p])
        /\ UNCHANGED <<db, owner, uploaded, todo>>
        /\ pc'[p] = IF todo[p] = <<>> THEN "commit" ELSE "next"
    BY <1>7, DeleteVertexDoes
  <2>2. Removes(p, at[p]) /\ todo[p] = <<>>
    BY <2>1 DEF OneKind
  <2>3. PICK x \in Ids \cup Rels : x = at[p]
    BY <2>1
  <2>4. Removes(p, x)'
    BY <2>1, <2>2, <2>3 DEF Removes, OnlyVertex
  <2> QED
    BY <2>1, <2>2, <2>4 DEF OneKind
<1>8. CASE InsertRel(p)
  <2>1. PICK new \in Rels :
          /\ Fresh(db.rel, new) /\ OnlyRel(new) /\ Takes(p, new) /\ pc'[p] = "upsert_edge"
          /\ draft'.rel[new] = [state |-> "live", src |-> data[p].src, dst |-> data[p].dst]
    BY <1>8, InsertRelDoes
  <2>2. pc[p] = "link" /\ db' = db
    BY <1>8, InsertRelDoes
  <2>3. Adds(p)'
    BY <2>1, <2>2, ConstantsOK DEF OneKind, Adds, OnlyRel, Takes, Fresh
  <2> QED
    BY <2>1, <2>3 DEF OneKind
<1>9. CASE UpsertEdge(p)
  <2>1. /\ pc[p] = "upsert_edge" /\ UNCHANGED <<db, owner>> /\ pc'[p] \in {"commit", "next"}
        /\ OnlyEdge(at[p])
    BY <1>9, UpsertEdgeDoes
  <2>2. Adds(p)'
    BY <2>1 DEF OneKind, Adds, OnlyEdge
  <2> QED
    BY <2>1, <2>2 DEF OneKind
<1>10. CASE DeleteRel(p)
  <2>1. /\ at[p] \in Rels /\ pc[p] = "unlink" /\ UNCHANGED <<db, uploaded, todo>>
        /\ pc'[p] = "delete_edge" /\ at'[p] = at[p]
        /\ Takes(p, at[p]) /\ draft'.rel[at[p]].state = "deleted"
    BY <1>10, DeleteRelDoes
  <2>2. Pristine(p) /\ todo[p] = <<>> /\ db.rel[at[p]].state # "absent"
    BY <2>1 DEF OneKind, OnRow
  <2>3. Removes(p, at[p])'
    BY <2>1, <2>2, ConstantsOK DEF Removes, Pristine, Takes
  <2> QED
    BY <2>1, <2>2, <2>3 DEF OneKind
<1>11. CASE DeleteEdge(p)
  <2>1. /\ at[p] \in Rels /\ pc[p] = "delete_edge" /\ OnlyEdge(at[p])
        /\ UNCHANGED <<db, owner, uploaded, todo>>
        /\ pc'[p] = IF todo[p] = <<>> THEN "commit" ELSE "next"
    BY <1>11, DeleteEdgeDoes
  <2>2. Removes(p, at[p]) /\ todo[p] = <<>>
    BY <2>1 DEF OneKind
  <2>3. PICK x \in Ids \cup Rels : x = at[p]
    BY <2>1
  <2>4. Removes(p, x)'
    BY <2>1, <2>2, <2>3 DEF Removes, OnlyEdge
  <2> QED
    BY <2>1, <2>2, <2>4 DEF OneKind
<1>12. CASE CreateEvidence(p)
  <2>1. /\ pc[p] = "upload" /\ UNCHANGED <<db, draft, owner>> /\ pc'[p] \in {"commit", "next"}
    BY <1>12, CreateEvidenceDoes
  <2>2. Adds(p)'
    BY <2>1 DEF OneKind, Adds
  <2> QED
    BY <2>1, <2>2 DEF OneKind
<1> QED
  BY <1>1, <1>2, <1>3, <1>4, <1>5, <1>6, <1>7, <1>8, <1>9, <1>10, <1>11, <1>12 DEF StepOf

-----------------------------------------------------------------------------
(* The refinement                                                           *)


LedgerInv == Mirrored /\ \A p \in Procs : OneKind(p)

\* The commit of a transaction that has only added.
LEMMA AddsCommit ==
  ASSUME Mirrored, NEW p \in Procs, Adds(p), Commits(p), sessions' \in 0..MaxSessions
  PROVE  Ledger!Add
<1> StepOf(p)
  BY DEF StepOf
<1> Shape /\ Forward /\ Rows /\ EndsExist
  BY DEF Mirrored, Rows
<1> DEFINE newIds == {id \in Ids : owner[id] = p /\ db.entity[id].state = "absent"
                                                 /\ draft.entity[id].state = "live"}
           newRels == {r \in Rels : owner[r] = p}
           src == [r \in newRels |-> draft.rel[r].src]
           dst == [r \in newRels |-> draft.rel[r].dst]
<1>1. [id \in Ids |-> db'.entity[id].state] =
        [id \in Ids |-> IF id \in newIds THEN "live" ELSE [i \in Ids |-> db.entity[i].state][id]]
  <2> SUFFICES ASSUME NEW id \in Ids
               PROVE  db'.entity[id].state = IF id \in newIds THEN "live" ELSE db.entity[id].state
    OBVIOUS
  <2> QED
    BY DEF Commits, Committed, Adds
<1>2. \A r \in newRels : db.rel[r].state = "absent"
  BY DEF Adds
<1>3. db'.rel \in [Rels -> RelRow] /\ db.rel \in [Rels -> RelRow]
  BY TypeParts DEF Commits, Shape, TypeOK, Tables, RelRow
<1>4. ASSUME NEW r \in Rels
      PROVE  db'.rel[r] = IF r \in newRels
                          THEN [state |-> "live", src |-> src[r], dst |-> dst[r]]
                          ELSE db.rel[r]
  <2>1. CASE r \in newRels
    <3>1. db'.rel[r] = draft.rel[r] /\ draft.rel[r].state = "live"
      BY <2>1 DEF Commits, Committed, Adds
    <3>2. db'.rel[r] \in RelRow
      BY <1>3
    <3> QED
      BY <2>1, <3>1, <3>2 DEF RelRow
  <2>2. CASE r \notin newRels
    BY <2>2 DEF Commits, Committed
  <2> QED
    BY <2>1, <2>2
<1>5. db'.rel = [r \in Rels |-> IF r \in newRels
                                THEN [state |-> "live", src |-> src[r], dst |-> dst[r]]
                                ELSE db.rel[r]]
  BY <1>3, <1>4
<1>6. /\ src \in [newRels -> {id \in Ids : [i \in Ids |-> db'.entity[i].state][id] # "absent"}]
      /\ dst \in [newRels -> {id \in Ids : [i \in Ids |-> db'.entity[i].state][id] # "absent"}]
  <2> SUFFICES ASSUME NEW r \in newRels
               PROVE  /\ draft.rel[r].src \in Ids /\ db'.entity[draft.rel[r].src].state # "absent"
                      /\ draft.rel[r].dst \in Ids /\ db'.entity[draft.rel[r].dst].state # "absent"
    OBVIOUS
  <2>1. db'.rel[r] = draft.rel[r] /\ draft.rel[r].state = "live"
    BY DEF Commits, Committed, Adds
  <2>2. \A id \in EndsOf(db'.rel[r]) : id \in Ids /\ db'.entity[id].state # "absent"
    BY <2>1, EndsStepTables
  <2> QED
    BY <2>1, <2>2 DEF EndsOf
<1>7. evidence \subseteq evidence'
  BY DEF Commits
<1>8. newIds \in SUBSET Ids /\ newRels \in SUBSET Rels
      /\ \A id \in newIds : [i \in Ids |-> db.entity[i].state][id] = "absent"
  OBVIOUS
<1> HIDE DEF newIds, newRels, src, dst
<1> QED
  <2>1. \E new \in SUBSET Ids :
          /\ \A id \in new : [i \in Ids |-> db.entity[i].state][id] = "absent"
          /\ [id \in Ids |-> db'.entity[id].state] =
               [id \in Ids |-> IF id \in new THEN "live"
                              ELSE [i \in Ids |-> db.entity[i].state][id]]
    BY <1>1, <1>8
  <2>2. \E new \in SUBSET Rels :
          \E from, to \in [new -> {id \in Ids : [i \in Ids |-> db'.entity[i].state][id] # "absent"}] :
            /\ \A r \in new : db.rel[r].state = "absent"
            /\ db'.rel = [r \in Rels |-> IF r \in new
                                         THEN [state |-> "live", src |-> from[r], dst |-> to[r]]
                                         ELSE db.rel[r]]
    <3> newRels \in SUBSET Rels
      BY <1>8
    <3> /\ src \in [newRels -> {id \in Ids : [i \in Ids |-> db'.entity[i].state][id] # "absent"}]
        /\ dst \in [newRels -> {id \in Ids : [i \in Ids |-> db'.entity[i].state][id] # "absent"}]
      BY <1>6
    <3> WITNESS newRels \in SUBSET Rels
    <3> WITNESS src \in [newRels -> {id \in Ids : [i \in Ids |-> db'.entity[i].state][id] # "absent"}],
                dst \in [newRels -> {id \in Ids : [i \in Ids |-> db'.entity[i].state][id] # "absent"}]
    <3> QED
      BY <1>2, <1>5
  <2> QED
    BY <1>7, <2>1, <2>2, Zenon DEF Ledger!Add

\* The commit of a transaction that has soft-deleted a row, or found it deleted.
LEMMA RemovesCommit ==
  ASSUME Mirrored, NEW p \in Procs, NEW x \in Ids \cup Rels, Removes(p, x), Commits(p)
  PROVE  \/ Ledger!Delete \/ Ledger!Unlink
         \/ UNCHANGED <<[id \in Ids |-> db.entity[id].state], db.rel, evidence>>
<1> Shape /\ Forward
  BY DEF Mirrored, Rows
<1>1. evidence' = evidence
  BY DEF Commits, Removes
<1>2. /\ db.rel \in [Rels -> RelRow] /\ db'.rel \in [Rels -> RelRow]
      /\ db.entity \in [Ids -> EntityRow]
  BY TypeParts DEF Commits, Shape, TypeOK, Tables, RelRow
<1>3. CASE x \in Ids
  <2>1. /\ \A id \in Ids : id # x => db'.entity[id] = db.entity[id]
        /\ \A r \in Rels : db'.rel[r] = db.rel[r]
        /\ db'.entity[x].state = "deleted" /\ db.entity[x].state # "absent"
    BY <1>3, ConstantsOK DEF Commits, Committed, Removes
  <2>2. db'.rel = db.rel
    BY <1>2, <2>1
  <2>3. [id \in Ids |-> db'.entity[id].state] =
          [[id \in Ids |-> db.entity[id].state] EXCEPT ![x] = "deleted"]
    BY <1>3, <2>1
  <2>4. CASE db.entity[x].state = "live"
    BY <1>1, <1>3, <2>2, <2>3, <2>4 DEF Ledger!Delete
  <2>5. CASE db.entity[x].state # "live"
    <3>1. db.entity[x].state = "deleted"
      BY <1>2, <1>3, <2>1, <2>5 DEF EntityRow, States
    <3>2. [id \in Ids |-> db'.entity[id].state] = [id \in Ids |-> db.entity[id].state]
      BY <2>1, <3>1
    <3> QED
      BY <1>1, <2>2, <3>2
  <2> QED
    BY <2>4, <2>5
<1>4. CASE x \in Rels
  <2>1. /\ \A id \in Ids : db'.entity[id] = db.entity[id]
        /\ \A r \in Rels : r # x => db'.rel[r] = db.rel[r]
        /\ db'.rel[x] = draft.rel[x] /\ draft.rel[x].state = "deleted"
        /\ db.rel[x].state # "absent"
    BY <1>4, ConstantsOK DEF Commits, Committed, Removes
  <2>2. [id \in Ids |-> db'.entity[id].state] = [id \in Ids |-> db.entity[id].state]
    BY <2>1
  <2>3. db'.rel[x].src = db.rel[x].src /\ db'.rel[x].dst = db.rel[x].dst
    BY <1>4, <2>1 DEF Forward
  <2>4. db'.rel[x] \in RelRow /\ db.rel[x] \in RelRow
    BY <1>2, <1>4
  <2>5. db'.rel[x] = [db.rel[x] EXCEPT !.state = "deleted"]
    BY <2>1, <2>3, <2>4 DEF RelRow
  <2>6. db'.rel = [db.rel EXCEPT ![x].state = "deleted"]
    BY <1>2, <1>4, <2>1, <2>5
  <2>7. CASE db.rel[x].state = "live"
    BY <1>1, <1>4, <2>2, <2>6, <2>7 DEF Ledger!Unlink
  <2>8. CASE db.rel[x].state # "live"
    <3>1. db.rel[x].state = "deleted"
      BY <2>1, <2>4, <2>8 DEF RelRow, States
    <3>2. db'.rel[x] = db.rel[x]
      BY <2>4, <2>5, <3>1 DEF RelRow
    <3>3. db'.rel = db.rel
      BY <1>2, <2>1, <3>2
    <3> QED
      BY <1>1, <2>2, <3>3
  <2> QED
    BY <2>7, <2>8
<1> QED
  BY <1>3, <1>4

\* Only commits change what the ledger holds.
LEMMA LedgerStep ==
  ASSUME LedgerInv, NEW p \in Procs, StepOf(p), sessions' \in 0..MaxSessions
  PROVE  \/ Ledger!Add \/ Ledger!Delete \/ Ledger!Unlink
         \/ UNCHANGED <<[id \in Ids |-> db.entity[id].state], db.rel, evidence>>
<1> Mirrored /\ Shape /\ OneKind(p)
  BY DEF LedgerInv, Mirrored, Rows
<1>1. CASE Commits(p)
  <2>1. CASE Adds(p)
    BY <1>1, <2>1, AddsCommit
  <2>2. CASE ~Adds(p)
    <3>1. PICK x \in Ids \cup Rels : Removes(p, x)
      BY <1>1, <2>2 DEF OneKind, Commits
    <3> QED
      BY <1>1, <3>1, RemovesCommit
  <2> QED
    BY <2>1, <2>2
<1>2. CASE ~Commits(p)
  <2>1. UNCHANGED <<db, evidence>>
    BY <1>2, InsertEntityDoes, UpdateEntityDoes, UpsertVertexDoes, DeleteEntityDoes,
       DeleteVertexDoes, InsertRelDoes, UpsertEdgeDoes, DeleteRelDoes, DeleteEdgeDoes,
       CreateEvidenceDoes
    DEF StepOf, Reading, RollsBack, RolledBack, store
  <2> QED
    BY <2>1
<1> QED
  BY <1>1, <1>2

LEMMA LedgerInvNext ==
  ASSUME LedgerInv, [Next]_vars
  PROVE  LedgerInv'
<1>1. Mirrored'
  BY MirroredNext DEF LedgerInv
<1>2. CASE Next
  <2>1. Shape /\ Rows
    BY DEF LedgerInv, Mirrored, Rows
  <2>2. sessions' \in 0..MaxSessions
    BY <1>2, <2>1, StepCases
  <2>3. PICK p \in Procs : StepOf(p)
    BY <1>2, <2>1, StepCases
  <2>4. ASSUME NEW q \in Procs PROVE OneKind(q)'
    <3>1. OneKind(p) /\ OneKind(q)
      BY DEF LedgerInv
    <3>2. CASE q = p
      BY <2>1, <2>2, <2>3, <3>1, <3>2, OneKindSelf
    <3>3. CASE q # p
      BY <2>1, <2>2, <2>3, <3>1, <3>3, OneKindOthers
    <3> QED
      BY <3>2, <3>3
  <2> QED
    BY <1>1, <2>4 DEF LedgerInv
<1>3. CASE UNCHANGED vars
  <2>1. UNCHANGED <<db, draft, owner, uploaded, pc, at, todo>>
    BY <1>3 DEF vars, store
  <2>2. \A q \in Procs : OneKind(q)'
    BY <2>1 DEF LedgerInv, OneKind, Pristine, Adds, Removes
  <2> QED
    BY <1>1, <2>2 DEF LedgerInv
<1> QED
  BY <1>2, <1>3

LEMMA LedgerInvInit ==
  ASSUME Init
  PROVE  LedgerInv /\ Ledger!Init
<1>1. Mirrored
  BY MirroredInit
<1>2. \A p \in Procs : OneKind(p)
  BY ConstantsOK DEF Init, OneKind, Pristine, Adds
<1>3. Ledger!Init
  BY DEF Init, Empty, NoRow, NoRel, Ledger!Init, Ledger!Unlinked
<1> QED
  BY <1>1, <1>2, <1>3 DEF LedgerInv

(***************************************************************************)
(* The tables implement CaseLedger, for any number of requests and runs    *)
(* that interleave, fail and are rolled back: a relationship never dangles *)
(* or moves, evidence is append-only, and what was deleted stays deleted.  *)
(***************************************************************************)
THEOREM LedgerImplemented == Spec => LedgerKept
<1>1. Init => LedgerInv /\ Ledger!Init
  BY LedgerInvInit
<1>2. LedgerInv /\ [Next]_vars => LedgerInv'
  BY LedgerInvNext
<1>3. LedgerInv /\ [Next]_vars => [Ledger!Add \/ Ledger!Delete \/ Ledger!Unlink]_(Ledger!vars)
  <2> SUFFICES ASSUME LedgerInv, [Next]_vars
               PROVE  \/ Ledger!Add \/ Ledger!Delete \/ Ledger!Unlink
                      \/ UNCHANGED <<[id \in Ids |-> db.entity[id].state], db.rel, evidence>>
    BY DEF Ledger!vars
  <2>1. CASE Next
    <3>1. Shape
      BY DEF LedgerInv, Mirrored, Rows
    <3> QED
      BY <2>1, <3>1, StepCases, LedgerStep
  <2>2. CASE UNCHANGED vars
    BY <2>2 DEF vars, store
  <2> QED
    BY <2>1, <2>2
<1> QED
  BY <1>1, <1>2, <1>3, PTL DEF Spec, LedgerKept, Ledger!Spec
=============================================================================
