------------------------ MODULE CaseGraphMirrorProofs ------------------------
(***************************************************************************)
(* The graph mirrors the tables: proofs of CaseGraph's safety invariants,  *)
(* from what CaseGraphProofs says of each of its steps.                    *)
(***************************************************************************)
EXTENDS CaseGraphProofs

-----------------------------------------------------------------------------
(* Rows and their versions                                                  *)

\* A row that nobody holds has one version.
Synced ==
  /\ \A id \in Ids : owner[id] = NoProc =>
        draft.entity[id] = db.entity[id] /\ draft.vertex[id] = db.vertex[id]
  /\ \A r \in Rels : owner[r] = NoProc =>
        draft.rel[r] = db.rel[r] /\ draft.edge[r] = db.edge[r]

\* A row is inserted live or not at all, and what is deleted stays deleted.
Later(s, t) == s = t \/ s = "absent" \/ t = "deleted"

\* A transaction only takes a row further, and no relationship moves.
Forward ==
  /\ \A id \in Ids : Later(db.entity[id].state, draft.entity[id].state)
  /\ \A r \in Rels :
       /\ Later(db.rel[r].state, draft.rel[r].state)
       /\ db.rel[r].state # "absent" =>
            draft.rel[r].src = db.rel[r].src /\ draft.rel[r].dst = db.rel[r].dst

\* A process writes to a row that was there when it chose it, and the mirror of
\* a row that it has itself written.
OnRow(p) ==
  /\ pc[p] \in {"update", "upsert_vertex", "delete"} => Entity(p, at[p]).state # "absent"
  /\ pc[p] = "delete_vertex" => owner[at[p]] = p /\ draft.entity[at[p]].state = "deleted"
  /\ pc[p] = "unlink" => db.rel[at[p]].state # "absent"
  /\ pc[p] = "upsert_edge" => owner[at[p]] = p /\ draft.rel[at[p]].state = "live"
  /\ pc[p] = "delete_edge" => owner[at[p]] = p /\ draft.rel[at[p]].state = "deleted"

LEMMA StepTyped ==
  ASSUME Shape, NEW p \in Procs, StepOf(p), sessions' \in 0..MaxSessions
  PROVE  Shape' /\ Alone(p)
  BY InsertEntityDoes, UpdateEntityDoes, UpsertVertexDoes, DeleteEntityDoes,
     DeleteVertexDoes, InsertRelDoes, UpsertEdgeDoes, DeleteRelDoes, DeleteEdgeDoes,
     CreateEvidenceDoes
  DEF StepOf, Reading, Commits, RollsBack

LEMMA ForwardStep ==
  ASSUME Shape, Forward, NEW p \in Procs, StepOf(p), sessions' \in 0..MaxSessions
  PROVE  Forward'
<1>1. CASE Reading(p)
  BY <1>1 DEF Reading, store, Forward
<1>2. CASE Commits(p)
  BY <1>2 DEF Commits, Committed, Forward, Later
<1>3. CASE RollsBack(p)
  BY <1>3 DEF RollsBack, RolledBack, Forward, Later
<1>4. CASE InsertEntity(p)
  BY <1>4, InsertEntityDoes DEF Forward, Later, OnlyEntity, Fresh
<1>5. CASE UpdateEntity(p)
  BY <1>5, UpdateEntityDoes DEF Forward, Later, OnlyEntity
<1>6. CASE UpsertVertex(p)
  BY <1>6, UpsertVertexDoes DEF Forward, OnlyVertex
<1>7. CASE DeleteEntity(p)
  BY <1>7, DeleteEntityDoes DEF Forward, Later, OnlyEntity
<1>8. CASE DeleteVertex(p)
  BY <1>8, DeleteVertexDoes DEF Forward, OnlyVertex
<1>9. CASE InsertRel(p)
  <2>1. PICK r \in Rels : Fresh(db.rel, r) /\ OnlyRel(r)
    BY <1>9, InsertRelDoes
  <2>2. db' = db
    BY <1>9, InsertRelDoes
  <2> QED
    BY <2>1, <2>2 DEF Forward, Later, OnlyRel, Fresh
<1>10. CASE UpsertEdge(p)
  BY <1>10, UpsertEdgeDoes DEF Forward, OnlyEdge
<1>11. CASE DeleteRel(p)
  <2>1. /\ at[p] \in Rels /\ OnlyRel(at[p]) /\ db' = db
        /\ draft'.rel[at[p]].state = "deleted"
        /\ draft'.rel[at[p]].src = draft.rel[at[p]].src
        /\ draft'.rel[at[p]].dst = draft.rel[at[p]].dst
    BY <1>11, DeleteRelDoes
  <2> QED
    BY <2>1 DEF Forward, Later, OnlyRel
<1>12. CASE DeleteEdge(p)
  BY <1>12, DeleteEdgeDoes DEF Forward, OnlyEdge
<1>13. CASE CreateEvidence(p)
  BY <1>13, CreateEvidenceDoes DEF Forward
<1> QED
  BY <1>1, <1>2, <1>3, <1>4, <1>5, <1>6, <1>7, <1>8, <1>9, <1>10, <1>11, <1>12, <1>13 DEF StepOf

LEMMA SyncedStep ==
  ASSUME Shape, Synced, NEW p \in Procs, OnRow(p), StepOf(p), sessions' \in 0..MaxSessions
  PROVE  Synced'
<1> NoProc # p
  BY ConstantsOK
<1>1. CASE Reading(p)
  BY <1>1 DEF Reading, store, Synced
<1>2. CASE Commits(p)
  <2>1. draft'.edge \in [Rels -> BOOLEAN] /\ db'.edge \in [Rels -> BOOLEAN]
    BY <1>2 DEF Commits, Shape, TypeOK, Tables
  <2> QED
    BY <1>2, <2>1 DEF Commits, Committed, Released, Synced
<1>3. CASE RollsBack(p)
  BY <1>3 DEF RollsBack, RolledBack, Released, Synced
<1>4. CASE InsertEntity(p)
  BY <1>4, InsertEntityDoes DEF Synced, OnlyEntity, Takes
<1>5. CASE UpdateEntity(p)
  BY <1>5, UpdateEntityDoes DEF Synced, OnlyEntity, Takes
<1>6. CASE UpsertVertex(p)
  BY <1>6, UpsertVertexDoes DEF Synced, OnlyVertex, Takes
<1>7. CASE DeleteEntity(p)
  BY <1>7, DeleteEntityDoes DEF Synced, OnlyEntity, Takes
<1>8. CASE DeleteVertex(p)
  BY <1>8, DeleteVertexDoes DEF Synced, OnlyVertex, OnRow
<1>9. CASE InsertRel(p)
  <2>1. PICK r \in Rels : Takes(p, r) /\ OnlyRel(r)
    BY <1>9, InsertRelDoes
  <2>2. db' = db
    BY <1>9, InsertRelDoes
  <2> QED
    BY <2>1, <2>2 DEF Synced, OnlyRel, Takes
<1>10. CASE UpsertEdge(p)
  BY <1>10, UpsertEdgeDoes DEF Synced, OnlyEdge, OnRow
<1>11. CASE DeleteRel(p)
  <2>1. at[p] \in Rels /\ Takes(p, at[p]) /\ OnlyRel(at[p]) /\ db' = db
    BY <1>11, DeleteRelDoes
  <2> QED
    BY <2>1 DEF Synced, OnlyRel, Takes
<1>12. CASE DeleteEdge(p)
  BY <1>12, DeleteEdgeDoes DEF Synced, OnlyEdge, OnRow
<1>13. CASE CreateEvidence(p)
  BY <1>13, CreateEvidenceDoes DEF Synced
<1> QED
  BY <1>1, <1>2, <1>3, <1>4, <1>5, <1>6, <1>7, <1>8, <1>9, <1>10, <1>11, <1>12, <1>13 DEF StepOf

\* What a process sees of an entity goes the same way, whoever writes to it, as
\* long as its transaction has not ended.
LEMMA ViewGrows ==
  ASSUME Shape, Synced, Forward, NEW p \in Procs, OnRow(p), StepOf(p), sessions' \in 0..MaxSessions,
         NEW q \in Procs, q # p \/ pc'[p] # "idle", NEW id \in Ids
  PROVE  Later(Entity(q, id).state, Entity(q, id)'.state)
<1> NoProc # p /\ NoProc # q
  BY ConstantsOK
<1> USE DEF Entity, Later
<1>0. q # p => (owner'[id] = q <=> owner[id] = q)
  BY StepTyped DEF Alone
<1>1. CASE Reading(p)
  BY <1>1 DEF Reading, store
<1>2. CASE Commits(p)
  BY <1>0, <1>2 DEF Commits, Committed, Released, Forward
<1>3. CASE RollsBack(p)
  BY <1>0, <1>3 DEF RollsBack, RolledBack, Released, Forward
<1>4. CASE InsertEntity(p)
  BY <1>0, <1>4, InsertEntityDoes DEF Synced, OnlyEntity, Takes, Fresh
<1>5. CASE UpdateEntity(p)
  BY <1>0, <1>5, UpdateEntityDoes DEF Synced, OnlyEntity, Takes
<1>6. CASE UpsertVertex(p)
  BY <1>0, <1>6, UpsertVertexDoes DEF Synced, OnlyVertex, Takes
<1>7. CASE DeleteEntity(p)
  BY <1>0, <1>7, DeleteEntityDoes DEF Synced, OnlyEntity, Takes
<1>8. CASE DeleteVertex(p)
  BY <1>8, DeleteVertexDoes DEF OnlyVertex
<1>9. CASE InsertRel(p)
  <2>1. PICK r \in Rels : Takes(p, r) /\ OnlyRel(r)
    BY <1>9, InsertRelDoes
  <2>2. db' = db
    BY <1>9, InsertRelDoes
  <2> QED
    BY <2>1, <2>2, ConstantsOK DEF OnlyRel, Takes
<1>10. CASE UpsertEdge(p)
  BY <1>10, UpsertEdgeDoes DEF OnlyEdge
<1>11. CASE DeleteRel(p)
  <2>1. at[p] \in Rels /\ Takes(p, at[p]) /\ OnlyRel(at[p]) /\ db' = db
    BY <1>11, DeleteRelDoes
  <2> QED
    BY <2>1, ConstantsOK DEF OnlyRel, Takes
<1>12. CASE DeleteEdge(p)
  BY <1>12, DeleteEdgeDoes DEF OnlyEdge
<1>13. CASE CreateEvidence(p)
  BY <1>13, CreateEvidenceDoes
<1> QED
  BY <1>1, <1>2, <1>3, <1>4, <1>5, <1>6, <1>7, <1>8, <1>9, <1>10, <1>11, <1>12, <1>13 DEF StepOf

\* What another process holds is not written.
LEMMA HeldStays ==
  ASSUME Shape, NEW p \in Procs, OnRow(p), StepOf(p), sessions' \in 0..MaxSessions,
         NEW q \in Procs, q # p
  PROVE  /\ \A id \in Ids : owner[id] = q =>
              draft'.entity[id] = draft.entity[id] /\ draft'.vertex[id] = draft.vertex[id]
         /\ \A r \in Rels : owner[r] = q => draft'.rel[r] = draft.rel[r]
<1> NoProc # p /\ NoProc # q
  BY ConstantsOK
<1>1. CASE Reading(p)
  BY <1>1 DEF Reading, store
<1>2. CASE Commits(p)
  BY <1>2 DEF Commits, Committed
<1>3. CASE RollsBack(p)
  BY <1>3 DEF RollsBack, RolledBack
<1>4. CASE InsertEntity(p)
  BY <1>4, InsertEntityDoes DEF OnlyEntity, Takes
<1>5. CASE UpdateEntity(p)
  BY <1>5, UpdateEntityDoes DEF OnlyEntity, Takes
<1>6. CASE UpsertVertex(p)
  BY <1>6, UpsertVertexDoes DEF OnlyVertex, Takes
<1>7. CASE DeleteEntity(p)
  BY <1>7, DeleteEntityDoes DEF OnlyEntity, Takes
<1>8. CASE DeleteVertex(p)
  BY <1>8, DeleteVertexDoes DEF OnlyVertex, OnRow
<1>9. CASE InsertRel(p)
  <2>1. PICK r \in Rels : Takes(p, r) /\ OnlyRel(r)
    BY <1>9, InsertRelDoes
  <2> QED
    BY <2>1 DEF OnlyRel, Takes
<1>10. CASE UpsertEdge(p)
  BY <1>10, UpsertEdgeDoes DEF OnlyEdge
<1>11. CASE DeleteRel(p)
  <2>1. at[p] \in Rels /\ Takes(p, at[p]) /\ OnlyRel(at[p])
    BY <1>11, DeleteRelDoes
  <2> QED
    BY <2>1 DEF OnlyRel, Takes
<1>12. CASE DeleteEdge(p)
  BY <1>12, DeleteEdgeDoes DEF OnlyEdge
<1>13. CASE CreateEvidence(p)
  BY <1>13, CreateEvidenceDoes
<1> QED
  BY <1>1, <1>2, <1>3, <1>4, <1>5, <1>6, <1>7, <1>8, <1>9, <1>10, <1>11, <1>12, <1>13 DEF StepOf

\* What is committed goes the same way too.
LEMMA TableGrows ==
  ASSUME Shape, Forward, NEW p \in Procs, StepOf(p), sessions' \in 0..MaxSessions
  PROVE  /\ \A id \in Ids : Later(db.entity[id].state, db'.entity[id].state)
         /\ \A r \in Rels :
              /\ Later(db.rel[r].state, db'.rel[r].state)
              /\ db.rel[r].state # "absent" =>
                   db'.rel[r].src = db.rel[r].src /\ db'.rel[r].dst = db.rel[r].dst
<1>1. CASE Commits(p)
  BY <1>1 DEF Commits, Committed, Forward, Later
<1>2. CASE db' = db
  BY <1>2 DEF Later
<1>3. Commits(p) \/ db' = db
  BY InsertEntityDoes, UpdateEntityDoes, UpsertVertexDoes, DeleteEntityDoes,
     DeleteVertexDoes, InsertRelDoes, UpsertEdgeDoes, DeleteRelDoes, DeleteEdgeDoes,
     CreateEvidenceDoes
  DEF StepOf, Reading, RollsBack, RolledBack, store
<1> QED
  BY <1>1, <1>2, <1>3

LEMMA OnRowOthers ==
  ASSUME Shape, Synced, Forward, NEW p \in Procs, OnRow(p), StepOf(p), sessions' \in 0..MaxSessions,
         NEW q \in Procs, q # p, OnRow(q)
  PROVE  OnRow(q)'
<1>1. /\ pc'[q] = pc[q] /\ at'[q] = at[q]
      /\ \A x \in Ids \cup Rels : owner'[x] = q <=> owner[x] = q
  BY StepTyped DEF Alone
<1>2. /\ pc[q] \in {"update", "upsert_vertex", "delete", "delete_vertex"} => at[q] \in Ids
      /\ pc[q] \in {"unlink", "upsert_edge", "delete_edge"} => at[q] \in Rels
  BY DEF Shape, DataFits
<1>3. pc[q] \in {"update", "upsert_vertex", "delete"} => Entity(q, at[q])'.state # "absent"
  <2> SUFFICES ASSUME pc[q] \in {"update", "upsert_vertex", "delete"}
               PROVE  Entity(q, at[q])'.state # "absent"
    OBVIOUS
  <2>1. PICK id \in Ids : id = at[q]
    BY <1>2
  <2>2. Later(Entity(q, id).state, Entity(q, id)'.state)
    BY ViewGrows
  <2>3. Entity(q, id).state # "absent"
    BY <2>1 DEF OnRow
  <2>4. Entity(q, id)' = Entity(q, at[q])'
    BY <1>1, <2>1 DEF Entity
  <2> QED
    BY <2>2, <2>3, <2>4 DEF Later
<1>4. /\ \A id \in Ids : owner[id] = q => draft'.entity[id] = draft.entity[id]
      /\ \A r \in Rels : owner[r] = q => draft'.rel[r] = draft.rel[r]
  BY HeldStays
<1>5. \A r \in Rels : db.rel[r].state # "absent" => db'.rel[r].state # "absent"
  BY TableGrows DEF Later
<1> QED
  BY <1>1, <1>2, <1>3, <1>4, <1>5 DEF OnRow

LEMMA OnRowSelf ==
  ASSUME Shape, Synced, Forward, NEW p \in Procs, OnRow(p), StepOf(p), sessions' \in 0..MaxSessions
  PROVE  OnRow(p)'
<1>1. CASE Reading(p)
  <2>1. pc[p] = "idle" => \A x \in Ids \cup Rels : owner[x] # p
    BY ConstantsOK DEF Shape, TypeOK
  <2>2. DataFits(p)'
    BY <1>1 DEF Reading, Shape
  <2>3. pc'[p] \in {"update", "delete"} => Entity(p, at[p])'.state = "live"
    BY <1>1 DEF Reading, GoesOn, Entity, store
  <2>4. pc'[p] = "unlink" => db'.rel[at'[p]].state = "live"
    BY <1>1, <2>1, <2>2 DEF Reading, GoesOn, Rel, store, DataFits
  <2> QED
    BY <1>1, <2>3, <2>4 DEF Reading, OnRow
<1>2. CASE Commits(p) \/ RollsBack(p)
  BY <1>2 DEF Commits, RollsBack, Released, OnRow
<1>4. CASE InsertEntity(p)
  BY <1>4, InsertEntityDoes DEF OnRow, Entity, Takes
<1>5. CASE UpdateEntity(p)
  <2>1. PICK id \in Ids : id = at[p] /\ pc[p] = "update" /\ pc'[p] = "upsert_vertex" /\ at'[p] = id
    BY <1>5, UpdateEntityDoes
  <2>2. Later(Entity(p, id).state, Entity(p, id)'.state)
    BY <2>1, ViewGrows
  <2> QED
    BY <2>1, <2>2 DEF OnRow, Later, Entity
<1>6. CASE UpsertVertex(p)
  BY <1>6, UpsertVertexDoes DEF OnRow
<1>7. CASE DeleteEntity(p)
  BY <1>7, DeleteEntityDoes DEF OnRow, Takes
<1>8. CASE DeleteVertex(p)
  BY <1>8, DeleteVertexDoes DEF OnRow
<1>9. CASE InsertRel(p)
  <2>1. PICK r \in Rels :
          /\ Takes(p, r)
          /\ draft'.rel[r] = [state |-> "live", src |-> data[p].src, dst |-> data[p].dst]
          /\ pc'[p] = "upsert_edge" /\ at'[p] = r
    BY <1>9, InsertRelDoes
  <2> QED
    BY <2>1 DEF OnRow, Takes
<1>10. CASE UpsertEdge(p)
  BY <1>10, UpsertEdgeDoes DEF OnRow
<1>11. CASE DeleteRel(p)
  <2>1. /\ Takes(p, at[p]) /\ draft'.rel[at[p]].state = "deleted"
        /\ pc'[p] = "delete_edge" /\ at'[p] = at[p]
    BY <1>11, DeleteRelDoes
  <2> QED
    BY <2>1 DEF OnRow, Takes
<1>12. CASE DeleteEdge(p)
  BY <1>12, DeleteEdgeDoes DEF OnRow
<1>13. CASE CreateEvidence(p)
  BY <1>13, CreateEvidenceDoes DEF OnRow
<1> QED
  BY <1>1, <1>2, <1>4, <1>5, <1>6, <1>7, <1>8, <1>9, <1>10, <1>11, <1>12, <1>13 DEF StepOf

\* The part of the inductive invariant that the rest of the proofs stand on.
Rows == Shape /\ Synced /\ Forward /\ \A p \in Procs : OnRow(p)

LEMMA RowsStep ==
  ASSUME Rows, NEW p \in Procs, StepOf(p), sessions' \in 0..MaxSessions
  PROVE  Rows'
<1>1. Shape' /\ Forward' /\ Synced'
  BY StepTyped, ForwardStep, SyncedStep DEF Rows
<1>2. ASSUME NEW q \in Procs PROVE OnRow(q)'
  <2>1. CASE q = p
    BY <2>1, OnRowSelf DEF Rows
  <2>2. CASE q # p
    BY <2>2, OnRowOthers DEF Rows
  <2> QED
    BY <2>1, <2>2
<1> QED
  BY <1>1, <1>2 DEF Rows

LEMMA RowsInit ==
  ASSUME Init
  PROVE  Rows
<1>1. Shape
  BY ShapeInit
<1>2. Synced /\ Forward
  BY DEF Init, Synced, Forward, Later
<1>3. \A p \in Procs : OnRow(p)
  BY DEF Init, OnRow
<1> QED
  BY <1>1, <1>2, <1>3 DEF Rows

-----------------------------------------------------------------------------
(* Entities and their vertices                                              *)

\* The process that holds the row x is about to take the step label on it.
StandsAt(label, x) == owner[x] # NoProc /\ pc[owner[x]] = label /\ at[owner[x]] = x

\* A version that is live has its vertex, unless its writer is about to write it.
DraftMirrored ==
  \A id \in Ids :
    draft.entity[id].state = "live" => draft.vertex[id].there \/ StandsAt("upsert_vertex", id)

\* What a step of p leaves of a row that another process holds, or nobody.
LEMMA StandsStays ==
  ASSUME Shape, NEW p \in Procs, StepOf(p), sessions' \in 0..MaxSessions,
         NEW label, NEW x \in Ids \cup Rels, StandsAt(label, x), owner[x] # p
  PROVE  StandsAt(label, x)'
<1>1. owner[x] \in Procs \ {p}
  BY TypeParts DEF StandsAt
<1>2. owner'[x] = owner[x] /\ pc'[owner[x]] = pc[owner[x]] /\ at'[owner[x]] = at[owner[x]]
  BY <1>1, StepTyped DEF Alone
<1> QED
  BY <1>2 DEF StandsAt

LEMMA MirroredStep ==
  ASSUME Rows, DraftMirrored, LiveIsMirrored,
         NEW p \in Procs, StepOf(p), sessions' \in 0..MaxSessions
  PROVE  DraftMirrored' /\ LiveIsMirrored'
<1> Shape /\ Synced /\ Forward /\ OnRow(p) /\ NoProc # p
  BY ConstantsOK DEF Rows
<1>0. SUFFICES ASSUME NEW id \in Ids
               PROVE  /\ draft'.entity[id].state = "live" =>
                           draft'.vertex[id].there \/ StandsAt("upsert_vertex", id)'
                      /\ db'.entity[id].state = "live" => db'.vertex[id].there
  BY DEF DraftMirrored, LiveIsMirrored
<1>a. /\ owner[id] # p /\ draft.entity[id].state = "live" =>
           draft.vertex[id].there \/ StandsAt("upsert_vertex", id)'
      /\ owner[id] = p /\ draft.entity[id].state = "live" =>
           draft.vertex[id].there \/ (pc[p] = "upsert_vertex" /\ at[p] = id)
  BY StandsStays DEF DraftMirrored, StandsAt
<1>b. db.entity[id].state = "live" => db.vertex[id].there
  BY DEF LiveIsMirrored
<1>1. CASE Reading(p)
  BY <1>a, <1>b, <1>1 DEF Reading, store
<1>2. CASE Commits(p)
  BY <1>a, <1>b, <1>2 DEF Commits, Committed
<1>3. CASE RollsBack(p)
  BY <1>a, <1>b, <1>3 DEF RollsBack, RolledBack
<1>4. CASE InsertEntity(p)
  <2>1. PICK new \in Ids : /\ OnlyEntity(new) /\ Takes(p, new)
                           /\ pc'[p] = "upsert_vertex" /\ at'[p] = new
    BY <1>4, InsertEntityDoes
  <2>2. pc[p] = "insert" /\ db' = db
    BY <1>4, InsertEntityDoes DEF InsertEntity
  <2> QED
    BY <1>a, <1>b, <2>1, <2>2 DEF OnlyEntity, Takes, StandsAt
<1>5. CASE UpdateEntity(p)
  BY <1>a, <1>b, <1>5, UpdateEntityDoes DEF OnlyEntity, Takes, StandsAt
<1>6. CASE UpsertVertex(p)
  BY <1>a, <1>b, <1>6, UpsertVertexDoes DEF OnlyVertex
<1>7. CASE DeleteEntity(p)
  BY <1>a, <1>b, <1>7, DeleteEntityDoes DEF OnlyEntity
<1>8. CASE DeleteVertex(p)
  BY <1>a, <1>b, <1>8, DeleteVertexDoes DEF OnlyVertex, OnRow
<1>9. CASE InsertRel(p)
  <2>1. PICK r \in Rels : OnlyRel(r)
    BY <1>9, InsertRelDoes
  <2>2. pc[p] = "link" /\ db' = db
    BY <1>9, InsertRelDoes
  <2> QED
    BY <1>a, <1>b, <2>1, <2>2 DEF OnlyRel
<1>10. CASE UpsertEdge(p)
  BY <1>a, <1>b, <1>10, UpsertEdgeDoes DEF OnlyEdge
<1>11. CASE DeleteRel(p)
  <2>1. pc[p] = "unlink" /\ OnlyRel(at[p]) /\ db' = db
    BY <1>11, DeleteRelDoes
  <2> QED
    BY <1>a, <1>b, <2>1 DEF OnlyRel
<1>12. CASE DeleteEdge(p)
  BY <1>a, <1>b, <1>12, DeleteEdgeDoes DEF OnlyEdge
<1>13. CASE CreateEvidence(p)
  BY <1>a, <1>b, <1>13, CreateEvidenceDoes
<1> QED
  BY <1>1, <1>2, <1>3, <1>4, <1>5, <1>6, <1>7, <1>8, <1>9, <1>10, <1>11, <1>12, <1>13 DEF StepOf

-----------------------------------------------------------------------------
(* Relationships and their edges                                            *)

\* A version's edge belongs to a live relationship, unless its writer is about
\* to remove it.
DraftEdgeLive ==
  \A r \in Rels : draft.edge[r] => draft.rel[r].state = "live" \/ StandsAt("delete_edge", r)

LEMMA EdgeLiveStep ==
  ASSUME Rows, DraftEdgeLive, EdgeIsLive,
         NEW p \in Procs, StepOf(p), sessions' \in 0..MaxSessions
  PROVE  DraftEdgeLive' /\ EdgeIsLive'
<1> Shape /\ Synced /\ Forward /\ OnRow(p) /\ NoProc # p
  BY ConstantsOK DEF Rows
<1>0. SUFFICES ASSUME NEW r \in Rels
               PROVE  /\ draft'.edge[r] =>
                           draft'.rel[r].state = "live" \/ StandsAt("delete_edge", r)'
                      /\ db'.edge[r] => db'.rel[r].state = "live"
  BY DEF DraftEdgeLive, EdgeIsLive
<1>a. /\ owner[r] # p /\ draft.edge[r] =>
           draft.rel[r].state = "live" \/ StandsAt("delete_edge", r)'
      /\ owner[r] = p /\ draft.edge[r] =>
           draft.rel[r].state = "live" \/ (pc[p] = "delete_edge" /\ at[p] = r)
  BY StandsStays DEF DraftEdgeLive, StandsAt
<1>b. db.edge[r] => db.rel[r].state = "live"
  BY DEF EdgeIsLive
<1>1. CASE Reading(p)
  BY <1>a, <1>b, <1>1 DEF Reading, store
<1>2. CASE Commits(p)
  BY <1>a, <1>b, <1>2 DEF Commits, Committed
<1>3. CASE RollsBack(p)
  BY <1>a, <1>b, <1>3 DEF RollsBack, RolledBack
<1>4. CASE InsertEntity(p)
  <2>1. PICK new \in Ids : OnlyEntity(new)
    BY <1>4, InsertEntityDoes
  <2>2. pc[p] = "insert" /\ db' = db
    BY <1>4, InsertEntityDoes DEF InsertEntity
  <2> QED
    BY <1>a, <1>b, <2>1, <2>2 DEF OnlyEntity
<1>5. CASE UpdateEntity(p)
  BY <1>a, <1>b, <1>5, UpdateEntityDoes DEF OnlyEntity
<1>6. CASE UpsertVertex(p)
  BY <1>a, <1>b, <1>6, UpsertVertexDoes DEF OnlyVertex
<1>7. CASE DeleteEntity(p)
  BY <1>a, <1>b, <1>7, DeleteEntityDoes DEF OnlyEntity
<1>8. CASE DeleteVertex(p)
  BY <1>a, <1>b, <1>8, DeleteVertexDoes DEF OnlyVertex
<1>9. CASE InsertRel(p)
  <2>1. PICK new \in Rels :
          /\ OnlyRel(new)
          /\ draft'.rel[new] = [state |-> "live", src |-> data[p].src, dst |-> data[p].dst]
    BY <1>9, InsertRelDoes
  <2>2. pc[p] = "link" /\ db' = db
    BY <1>9, InsertRelDoes
  <2> QED
    BY <1>a, <1>b, <2>1, <2>2 DEF OnlyRel
<1>10. CASE UpsertEdge(p)
  BY <1>a, <1>b, <1>10, UpsertEdgeDoes DEF OnlyEdge, OnRow
<1>11. CASE DeleteRel(p)
  <2>1. /\ pc[p] = "unlink" /\ Takes(p, at[p]) /\ OnlyRel(at[p]) /\ db' = db
        /\ pc'[p] = "delete_edge" /\ at'[p] = at[p]
    BY <1>11, DeleteRelDoes
  <2> QED
    BY <1>a, <1>b, <2>1 DEF OnlyRel, Takes, StandsAt
<1>12. CASE DeleteEdge(p)
  BY <1>a, <1>b, <1>12, DeleteEdgeDoes DEF OnlyEdge
<1>13. CASE CreateEvidence(p)
  BY <1>a, <1>b, <1>13, CreateEvidenceDoes
<1> QED
  BY <1>1, <1>2, <1>3, <1>4, <1>5, <1>6, <1>7, <1>8, <1>9, <1>10, <1>11, <1>12, <1>13 DEF StepOf

\* What the transaction that holds a row sees of an entity goes forward too, and
\* so does what is committed, which is what one sees of a row that nobody holds.
LEMMA HolderViewGrows ==
  ASSUME Rows, NEW p \in Procs, StepOf(p), sessions' \in 0..MaxSessions,
         NEW q \in Procs \cup {NoProc}, q # p \/ pc'[p] # "idle", NEW id \in Ids
  PROVE  Later(Entity(q, id).state, Entity(q, id)'.state)
<1>1. Rows'
  BY RowsStep
<1>2. CASE q = NoProc
  <2>1. Entity(q, id) = db.entity[id] /\ Entity(q, id)' = db'.entity[id]
    BY <1>1, <1>2 DEF Rows, Synced, Entity
  <2> QED
    BY <2>1, TableGrows DEF Rows
<1>3. CASE q # NoProc
  BY <1>3, ViewGrows DEF Rows
<1> QED
  BY <1>2, <1>3

EndsOf(row) == {row.src, row.dst}

\* A relationship is between entities of the case, as its writer sees them.
EndsKnown(p) ==
  /\ \A r \in Rels : owner[r] = p /\ draft.rel[r].state # "absent" =>
        \A id \in EndsOf(draft.rel[r]) : id \in Ids /\ Entity(p, id).state # "absent"
  /\ pc[p] = "link" => \A id \in EndsOf(data[p]) : id \in Ids /\ Entity(p, id).state # "absent"

EndsExist ==
  /\ \A r \in Rels : db.rel[r].state # "absent" =>
        \A id \in EndsOf(db.rel[r]) : id \in Ids /\ db.entity[id].state # "absent"
  /\ \A p \in Procs : EndsKnown(p)

LEMMA EndsStepTables ==
  ASSUME Rows, EndsExist, NEW p \in Procs, StepOf(p), sessions' \in 0..MaxSessions,
         NEW r \in Rels, db'.rel[r].state # "absent", NEW id \in EndsOf(db'.rel[r])
  PROVE  id \in Ids /\ db'.entity[id].state # "absent"
<1>1. \A i \in Ids : db.entity[i].state # "absent" => db'.entity[i].state # "absent"
  BY TableGrows DEF Rows, Later
<1>2. CASE db'.rel[r] = db.rel[r]
  BY <1>1, <1>2 DEF EndsExist
<1>3. CASE Commits(p) /\ owner[r] = p
  <2>1. db'.rel[r] = draft.rel[r]
    BY <1>3 DEF Commits, Committed
  <2>2. id \in Ids /\ Entity(p, id).state # "absent"
    BY <1>3, <2>1 DEF EndsExist, EndsKnown
  <2>3. db'.entity[id] = Entity(p, id)
    BY <1>3, <2>2 DEF Commits, Committed, Entity
  <2> QED
    BY <2>2, <2>3
<1>4. CASE ~Commits(p)
  <2>1. db' = db
    BY <1>4, InsertEntityDoes, UpdateEntityDoes, UpsertVertexDoes, DeleteEntityDoes,
       DeleteVertexDoes, InsertRelDoes, UpsertEdgeDoes, DeleteRelDoes, DeleteEdgeDoes,
       CreateEvidenceDoes
    DEF StepOf, Reading, RollsBack, RolledBack, store, Rows
  <2> QED
    BY <1>2, <2>1
<1> QED
  BY <1>2, <1>3, <1>4 DEF Commits, Committed

LEMMA EndsStepOthers ==
  ASSUME Rows, NEW p \in Procs, StepOf(p), sessions' \in 0..MaxSessions,
         NEW q \in Procs, q # p, EndsKnown(q)
  PROVE  EndsKnown(q)'
<1>1. /\ pc'[q] = pc[q] /\ data'[q] = data[q]
      /\ \A x \in Ids \cup Rels : owner'[x] = q <=> owner[x] = q
  BY StepTyped DEF Rows, Alone
<1>2. \A r \in Rels : owner[r] = q => draft'.rel[r] = draft.rel[r]
  BY HeldStays DEF Rows
<1>3. ASSUME NEW id \in Ids, Entity(q, id).state # "absent"
      PROVE  Entity(q, id)'.state # "absent"
  BY <1>3, HolderViewGrows DEF Later
<1> QED
  BY <1>1, <1>2, <1>3 DEF EndsKnown, Entity

LEMMA EndsStepSelf ==
  ASSUME Rows, EndsExist, NEW p \in Procs, StepOf(p), sessions' \in 0..MaxSessions
  PROVE  EndsKnown(p)'
<1> Shape /\ Synced /\ Forward /\ OnRow(p) /\ NoProc # p /\ EndsKnown(p)
  BY ConstantsOK DEF Rows, EndsExist
<1>1. CASE pc'[p] = "idle" /\ Released(p)
  BY <1>1 DEF Released, EndsKnown
<1>2. ASSUME pc'[p] # "idle", NEW id \in Ids, Entity(p, id).state # "absent"
      PROVE  Entity(p, id)'.state # "absent"
  BY <1>2, HolderViewGrows DEF Later
<1>3. CASE /\ pc'[p] # "idle" /\ pc'[p] # "link"
           /\ \A r \in Rels : owner'[r] = p => owner[r] = p /\ draft'.rel[r] = draft.rel[r]
  BY <1>2, <1>3 DEF EndsKnown, Entity
<1>4. CASE Reading(p)
  <2>1. UNCHANGED <<db, draft, owner>> /\ pc'[p] # "idle"
    BY <1>4 DEF Reading, store
  <2>2. pc'[p] = "link" => /\ data'[p].src \in Ids /\ data'[p].dst \in Ids
                           /\ EndpointsLive(p, data'[p].src, data'[p].dst)
    BY <1>4 DEF Reading, GoesOn, Shape, DataFits
  <2> QED
    BY <2>1, <2>2 DEF EndsKnown, Entity, EndsOf, EndpointsLive
<1>5. CASE InsertRel(p)
  <2>1. PICK new \in Rels :
          /\ OnlyRel(new) /\ Takes(p, new) /\ pc'[p] = "upsert_edge"
          /\ draft'.rel[new] = [state |-> "live", src |-> data[p].src, dst |-> data[p].dst]
    BY <1>5, InsertRelDoes
  <2>2. pc[p] = "link"
    BY <1>5 DEF InsertRel
  <2>3. EndsOf(draft'.rel[new]) = EndsOf(data[p])
    BY <2>1 DEF EndsOf
  <2>4. \A id \in EndsOf(data[p]) : id \in Ids /\ Entity(p, id)'.state # "absent"
    BY <1>2, <2>1, <2>2 DEF EndsKnown
  <2>5. ASSUME NEW r \in Rels, owner'[r] = p, draft'.rel[r].state # "absent",
               NEW id \in EndsOf(draft'.rel[r])
        PROVE  id \in Ids /\ Entity(p, id)'.state # "absent"
    <3>1. CASE r = new
      BY <2>3, <2>4, <2>5, <3>1
    <3>2. CASE r # new
      <4>1. owner[r] = p /\ draft'.rel[r] = draft.rel[r]
        BY <2>1, <2>5, <3>2 DEF Takes, OnlyRel
      <4> QED
        BY <1>2, <2>1, <2>5, <4>1 DEF EndsKnown
    <3> QED
      BY <3>1, <3>2
  <2> QED
    BY <2>1, <2>5 DEF EndsKnown
<1>6. CASE DeleteRel(p)
  <2>1. /\ at[p] \in Rels /\ pc[p] = "unlink" /\ OnlyRel(at[p]) /\ Takes(p, at[p])
        /\ pc'[p] = "delete_edge"
        /\ draft'.rel[at[p]].src = draft.rel[at[p]].src
        /\ draft'.rel[at[p]].dst = draft.rel[at[p]].dst
    BY <1>6, DeleteRelDoes
  <2>2. EndsOf(draft'.rel[at[p]]) = EndsOf(draft.rel[at[p]])
    BY <2>1 DEF EndsOf
  <2>3. db.rel[at[p]].state # "absent" /\ EndsOf(draft.rel[at[p]]) = EndsOf(db.rel[at[p]])
    BY <2>1 DEF OnRow, Forward, EndsOf
  <2>4. \A id \in EndsOf(draft.rel[at[p]]) : id \in Ids /\ Entity(p, id).state # "absent"
    BY <2>1, <2>3 DEF EndsExist, Entity, Forward, Later
  <2>5. ASSUME NEW r \in Rels, owner'[r] = p, draft'.rel[r].state # "absent",
               NEW id \in EndsOf(draft'.rel[r])
        PROVE  id \in Ids /\ Entity(p, id)'.state # "absent"
    <3>1. CASE r = at[p]
      BY <1>2, <2>1, <2>2, <2>4, <2>5, <3>1
    <3>2. CASE r # at[p]
      <4>1. owner[r] = p /\ draft'.rel[r] = draft.rel[r]
        BY <2>1, <2>5, <3>2 DEF Takes, OnlyRel
      <4> QED
        BY <1>2, <2>1, <2>5, <4>1 DEF EndsKnown
    <3> QED
      BY <3>1, <3>2
  <2> QED
    BY <2>1, <2>5 DEF EndsKnown
<1>7. CASE InsertEntity(p)
  <2>1. PICK new \in Ids : OnlyEntity(new) /\ Takes(p, new) /\ pc'[p] = "upsert_vertex"
    BY <1>7, InsertEntityDoes
  <2> QED
    BY <1>3, <2>1, ConstantsOK DEF OnlyEntity, Takes
<1>8. CASE UpdateEntity(p)
  BY <1>3, <1>8, UpdateEntityDoes, ConstantsOK DEF OnlyEntity, Takes
<1>9. CASE UpsertVertex(p)
  BY <1>3, <1>9, UpsertVertexDoes, ConstantsOK DEF OnlyVertex, Takes
<1>10. CASE DeleteEntity(p)
  BY <1>3, <1>10, DeleteEntityDoes, ConstantsOK DEF OnlyEntity, Takes
<1>11. CASE DeleteVertex(p)
  BY <1>3, <1>11, DeleteVertexDoes DEF OnlyVertex
<1>12. CASE UpsertEdge(p)
  BY <1>3, <1>12, UpsertEdgeDoes DEF OnlyEdge
<1>13. CASE DeleteEdge(p)
  BY <1>3, <1>13, DeleteEdgeDoes DEF OnlyEdge
<1>14. CASE CreateEvidence(p)
  BY <1>3, <1>14, CreateEvidenceDoes
<1>15. CASE Commits(p) \/ RollsBack(p)
  BY <1>1, <1>15 DEF Commits, RollsBack, Released
<1> QED
  BY <1>4, <1>5, <1>6, <1>7, <1>8, <1>9, <1>10, <1>11, <1>12, <1>13, <1>14, <1>15 DEF StepOf

LEMMA EndsStep ==
  ASSUME Rows, EndsExist, NEW p \in Procs, StepOf(p), sessions' \in 0..MaxSessions
  PROVE  EndsExist'
<1>1. ASSUME NEW q \in Procs PROVE EndsKnown(q)'
  <2>1. CASE q = p
    BY <2>1, EndsStepSelf
  <2>2. CASE q # p
    BY <2>2, EndsStepOthers DEF EndsExist
  <2> QED
    BY <2>1, <2>2
<1>2. \A r \in Rels : db'.rel[r].state # "absent" =>
        \A id \in EndsOf(db'.rel[r]) : id \in Ids /\ db'.entity[id].state # "absent"
  BY EndsStepTables
<1> QED
  BY <1>1, <1>2 DEF EndsExist, EndsOf

\* A live version of a relationship has its edge, unless its writer is about to
\* write it, or sees that an end has been deleted.
Linked(r) ==
  draft.rel[r].state = "live" =>
    \/ draft.edge[r] \/ StandsAt("upsert_edge", r)
    \/ \E id \in EndsOf(draft.rel[r]) : Entity(owner[r], id).state = "deleted"

DbLinked ==
  \A r \in Rels : db.rel[r].state = "live" =>
    db.edge[r] \/ \E id \in EndsOf(db.rel[r]) : db.entity[id].state = "deleted"

\* A relationship that the step does not write: it may lose an end, not an edge.
LEMMA LinkedStays ==
  ASSUME Rows, EndsExist, NEW p \in Procs, StepOf(p), sessions' \in 0..MaxSessions,
         NEW r \in Rels, Linked(r), owner[r] # p \/ pc'[p] # "idle",
         ~(owner[r] = p /\ pc[p] = "upsert_edge" /\ at[p] = r),
         draft'.rel[r] = draft.rel[r], draft.edge[r] => draft'.edge[r], owner'[r] = owner[r]
  PROVE  Linked(r)'
<1> Shape /\ Synced /\ Forward /\ NoProc # p
  BY ConstantsOK DEF Rows
<1>1. owner[r] \in Procs \cup {NoProc}
  BY TypeParts
<1>2. StandsAt("upsert_edge", r) => StandsAt("upsert_edge", r)'
  BY StandsStays DEF StandsAt
<1>3. draft.rel[r].state # "absent" => \A id \in EndsOf(draft.rel[r]) : id \in Ids
  BY <1>1 DEF EndsExist, EndsKnown, Synced
<1>4. ASSUME NEW id \in Ids, Entity(owner[r], id).state = "deleted"
      PROVE  Entity(owner[r], id)'.state = "deleted"
  <2>1. PICK q \in Procs \cup {NoProc} : q = owner[r]
    BY <1>1
  <2>2. Later(Entity(q, id).state, Entity(q, id)'.state)
    BY <2>1, HolderViewGrows
  <2>3. Entity(q, id) = Entity(owner[r], id) /\ Entity(q, id)' = Entity(owner[r], id)'
    BY <2>1 DEF Entity
  <2> QED
    BY <1>4, <2>2, <2>3 DEF Later
<1>5. CASE draft.rel[r].state = "live" /\ \E id \in EndsOf(draft.rel[r]) : Entity(owner[r], id).state = "deleted"
  <2>1. PICK id \in Ids : id \in EndsOf(draft.rel[r]) /\ Entity(owner[r], id).state = "deleted"
    BY <1>3, <1>5
  <2>2. Entity(owner[r], id)'.state = "deleted"
    BY <1>4, <2>1
  <2>3. EndsOf(draft'.rel[r]) = EndsOf(draft.rel[r])
    BY DEF EndsOf
  <2> QED
    BY <2>1, <2>2, <2>3 DEF Linked, EndsOf
<1>6. CASE draft.rel[r].state # "live" \/ draft.edge[r] \/ StandsAt("upsert_edge", r)
  BY <1>2, <1>6 DEF Linked
<1> QED
  BY <1>5, <1>6 DEF Linked

\* DETACH DELETE takes an edge away only when it deletes an end of it for good.
LEMMA DetachedDeleted ==
  ASSUME Rows, DraftMirrored, EndsExist, NEW p \in Procs, Commits(p),
         NEW r \in Rels, draft.rel[r].state # "absent", ~Keeps(p, r)
  PROVE  \E id \in EndsOf(draft.rel[r]) :
           id \in Ids /\ owner[id] = p /\ draft.entity[id].state = "deleted"
<1> Shape /\ Synced /\ Forward /\ NoProc # p
  BY ConstantsOK DEF Rows
<1>1. PICK id \in Ids : /\ id \in EndsOf(draft.rel[r]) /\ owner[id] = p
                        /\ ~draft.vertex[id].there
  BY DEF Keeps, Detached, EndsOf
<1>2. draft.entity[id].state # "live"
  BY <1>1 DEF DraftMirrored, StandsAt, Commits
<1>3. owner[r] \in Procs \cup {NoProc}
  BY TypeParts
<1>4. draft.entity[id].state # "absent"
  <2>1. CASE owner[r] = p
    BY <1>1, <2>1 DEF EndsExist, EndsKnown, Entity
  <2>2. CASE owner[r] # p
    <3>1. db.entity[id].state # "absent"
      BY <1>1, <1>3, <2>2 DEF EndsExist, EndsKnown, Entity, Synced
    <3> QED
      BY <3>1 DEF Forward, Later
  <2> QED
    BY <2>1, <2>2
<1>5. draft.entity[id] \in EntityRow
  BY TypeParts
<1>6. draft.entity[id].state = "deleted"
  BY <1>2, <1>4, <1>5 DEF EntityRow, States
<1> QED
  BY <1>1, <1>6

LEMMA LinkedCommit ==
  ASSUME Rows, DraftMirrored, EndsExist, DbLinked, \A r \in Rels : Linked(r),
         NEW p \in Procs, Commits(p), sessions' \in 0..MaxSessions
  PROVE  DbLinked' /\ \A r \in Rels : Linked(r)'
<1> Shape /\ Synced /\ Forward /\ NoProc # p
  BY ConstantsOK DEF Rows
<1> StepOf(p)
  BY DEF StepOf
<1>1. Rows'
  BY RowsStep
<1>2. /\ \A x \in Ids \cup Rels : owner[x] = p => owner'[x] = NoProc
      /\ \A x \in Ids \cup Rels : owner[x] # p => owner'[x] = owner[x]
  BY DEF Commits, Released
<1>3. draft'.edge \in [Rels -> BOOLEAN] /\ db'.edge \in [Rels -> BOOLEAN]
  BY DEF Commits, Shape, TypeOK, Tables
<1>4. ASSUME NEW r \in Rels
      PROVE  Linked(r)'
  <2> SUFFICES ASSUME draft'.rel[r].state = "live", ~draft'.edge[r]
               PROVE  \/ StandsAt("upsert_edge", r)'
                      \/ \E id \in EndsOf(draft'.rel[r]) : Entity(owner[r], id)'.state = "deleted"
    BY DEF Linked, EndsOf, Entity
  <2>1. draft'.rel[r] = draft.rel[r] /\ EndsOf(draft'.rel[r]) = EndsOf(draft.rel[r])
    BY DEF Commits, Committed
  <2>2. draft'.edge[r] <=> draft.edge[r] /\ Keeps(p, r)
    BY DEF Commits, Committed
  <2>3. CASE ~Keeps(p, r)
    <3>1. PICK id \in EndsOf(draft.rel[r]) :
            id \in Ids /\ owner[id] = p /\ draft.entity[id].state = "deleted"
      BY <2>1, <2>3, DetachedDeleted
    <3>2. Entity(owner[r], id)'.state = "deleted"
      BY <1>2, <3>1 DEF Commits, Committed, Entity
    <3> QED
      BY <2>1, <3>1, <3>2
  <2>4. CASE ~draft.edge[r] /\ owner[r] = p
    <3>1. ~StandsAt("upsert_edge", r)
      BY <2>4 DEF StandsAt, Commits
    <3>2. PICK id \in EndsOf(draft.rel[r]) : Entity(p, id).state = "deleted"
      BY <2>1, <2>4, <3>1 DEF Linked
    <3>3. id \in Ids
      BY <2>1, <2>4 DEF EndsExist, EndsKnown
    <3>4. Entity(owner[r], id)' = db'.entity[id]
      BY <1>1, <1>2, <2>4, <3>3 DEF Entity, Rows, Synced
    <3>5. db'.entity[id] = Entity(p, id)
      BY <3>3 DEF Commits, Committed, Entity
    <3> QED
      BY <2>1, <3>2, <3>4, <3>5
  <2>5. CASE ~draft.edge[r] /\ owner[r] # p
    <3>1. Linked(r)'
      BY <1>2, <2>1, <2>5, LinkedStays
    <3> QED
      BY <2>1, <3>1 DEF Linked, EndsOf, Entity
  <2> QED
    BY <2>2, <2>3, <2>4, <2>5
<1>5. ASSUME NEW r \in Rels, db'.rel[r].state = "live", ~db'.edge[r]
      PROVE  \E id \in EndsOf(db'.rel[r]) : db'.entity[id].state = "deleted"
  <2>1. CASE owner[r] = p
    <3>1. db'.rel[r] = draft'.rel[r] /\ db'.edge[r] = draft'.edge[r] /\ owner'[r] = NoProc
      BY <1>1, <1>2, <2>1 DEF Rows, Synced
    <3>2. ~StandsAt("upsert_edge", r)'
      BY <3>1 DEF StandsAt
    <3>3. PICK id \in EndsOf(draft'.rel[r]) : Entity(NoProc, id)'.state = "deleted"
      BY <1>4, <1>5, <3>1, <3>2 DEF Linked, Entity, EndsOf
    <3>4. draft'.rel[r] = draft.rel[r]
      BY DEF Commits, Committed
    <3>5. id \in Ids
      BY <1>5, <2>1, <3>1, <3>3, <3>4 DEF EndsExist, EndsKnown, EndsOf
    <3>6. Entity(NoProc, id)' = db'.entity[id]
      BY <1>1, <3>5 DEF Rows, Synced, Entity
    <3> QED
      BY <3>1, <3>3, <3>6 DEF EndsOf
  <2>2. CASE owner[r] # p
    <3>1. db'.rel[r] = db.rel[r] /\ (db'.edge[r] <=> db.edge[r] /\ Keeps(p, r))
      BY <2>2 DEF Commits, Committed
    <3>2. CASE ~Keeps(p, r)
      <4>1. draft.rel[r].state # "absent" /\ EndsOf(draft.rel[r]) = EndsOf(db.rel[r])
        BY <1>5, <3>1 DEF Forward, Later, EndsOf
      <4>2. PICK id \in EndsOf(draft.rel[r]) :
              id \in Ids /\ owner[id] = p /\ draft.entity[id].state = "deleted"
        BY <3>2, <4>1, DetachedDeleted
      <4>3. db'.entity[id].state = "deleted"
        BY <4>2 DEF Commits, Committed
      <4> QED
        BY <3>1, <4>1, <4>2, <4>3 DEF EndsOf
    <3>3. CASE ~db.edge[r]
      <4>1. PICK id \in EndsOf(db.rel[r]) : db.entity[id].state = "deleted"
        BY <1>5, <3>1, <3>3 DEF DbLinked
      <4>2. id \in Ids
        BY <1>5, <3>1 DEF EndsExist
      <4>3. db'.entity[id].state = "deleted"
        BY <4>1, <4>2, TableGrows DEF Later
      <4> QED
        BY <3>1, <4>1, <4>3 DEF EndsOf
    <3> QED
      BY <1>5, <3>1, <3>2, <3>3
  <2> QED
    BY <2>1, <2>2
<1> QED
  BY <1>4, <1>5 DEF DbLinked, EndsOf

LEMMA LinkedRollback ==
  ASSUME Rows, EndsExist, DbLinked, \A r \in Rels : Linked(r),
         NEW p \in Procs, RollsBack(p), sessions' \in 0..MaxSessions
  PROVE  DbLinked' /\ \A r \in Rels : Linked(r)'
<1> Shape /\ Synced /\ Forward /\ NoProc # p
  BY ConstantsOK DEF Rows
<1> StepOf(p)
  BY DEF StepOf
<1>1. Rows' /\ db' = db
  BY RowsStep DEF RollsBack, RolledBack
<1>2. ASSUME NEW r \in Rels, owner[r] # p
      PROVE  Linked(r)'
  BY <1>2, LinkedStays DEF RollsBack, RolledBack, Released
<1>3. ASSUME NEW r \in Rels, owner[r] = p
      PROVE  Linked(r)'
  <2>1. draft'.rel[r] = db.rel[r] /\ draft'.edge[r] = db.edge[r] /\ owner'[r] = NoProc
    BY <1>3 DEF RollsBack, RolledBack, Released
  <2> SUFFICES ASSUME db.rel[r].state = "live", ~db.edge[r]
               PROVE  \E id \in EndsOf(db.rel[r]) : Entity(NoProc, id)'.state = "deleted"
    BY <2>1 DEF Linked, EndsOf, Entity
  <2>2. PICK id \in EndsOf(db.rel[r]) : db.entity[id].state = "deleted"
    BY DEF DbLinked
  <2>3. id \in Ids
    BY DEF EndsExist
  <2>4. Entity(NoProc, id)' = db.entity[id]
    BY <1>1, <2>3 DEF Rows, Synced, Entity
  <2> QED
    BY <2>2, <2>4
<1> QED
  BY <1>1, <1>2, <1>3 DEF DbLinked, EndsOf

\* The MATCH of an edge's ends fails only for one that has been deleted.
LEMMA LinkedUpsertEdge ==
  ASSUME Rows, DraftMirrored, LiveIsMirrored, EndsExist,
         NEW p \in Procs, UpsertEdge(p), sessions' \in 0..MaxSessions,
         NEW r \in Rels, r = at[p]
  PROVE  Linked(r)'
<1> Shape /\ Synced /\ Forward /\ OnRow(p)
  BY DEF Rows
<1>1. /\ pc[p] = "upsert_edge" /\ OnlyEdge(r) /\ UNCHANGED <<db, owner>>
      /\ draft'.edge[r] <=> /\ Vertex(p, draft.rel[r].src).there
                            /\ Vertex(p, draft.rel[r].dst).there
  BY UpsertEdgeDoes
<1>2. owner[r] = p /\ draft.rel[r].state = "live"
  BY <1>1 DEF OnRow
<1>3. \A id \in EndsOf(draft.rel[r]) : id \in Ids /\ Entity(p, id).state # "absent"
  BY <1>1, <1>2 DEF EndsExist, EndsKnown
<1>4. ASSUME NEW id \in EndsOf(draft.rel[r]), ~Vertex(p, id).there
      PROVE  Entity(p, id).state = "deleted"
  <2>1. id \in Ids
    BY <1>3
  <2>2. Entity(p, id).state # "live"
    BY <1>1, <1>4, <2>1 DEF Entity, Vertex, DraftMirrored, LiveIsMirrored, StandsAt
  <2>3. Entity(p, id) \in EntityRow
    BY <2>1, SeesEntity
  <2> QED
    BY <1>3, <2>2, <2>3 DEF EntityRow, States
<1>5. draft'.rel = draft.rel /\ \A id : Entity(p, id)' = Entity(p, id)
  BY <1>1 DEF OnlyEdge, Entity
<1>6. CASE draft'.edge[r]
  BY <1>6 DEF Linked
<1>7. CASE ~draft'.edge[r]
  <2>1. PICK id \in EndsOf(draft.rel[r]) : ~Vertex(p, id).there
    BY <1>1, <1>7 DEF EndsOf
  <2>2. Entity(p, id)'.state = "deleted"
    BY <1>4, <1>5, <2>1
  <2> QED
    BY <1>1, <1>2, <1>5, <2>1, <2>2 DEF Linked, EndsOf, Entity
<1> QED
  BY <1>6, <1>7

LEMMA LinkedStep ==
  ASSUME Rows, DraftMirrored, LiveIsMirrored, EndsExist, DbLinked, \A r \in Rels : Linked(r),
         NEW p \in Procs, StepOf(p), sessions' \in 0..MaxSessions
  PROVE  DbLinked' /\ \A r \in Rels : Linked(r)'
<1> Shape /\ Synced /\ Forward /\ OnRow(p) /\ NoProc # p
  BY ConstantsOK DEF Rows
<1>1. CASE Commits(p)
  BY <1>1, LinkedCommit
<1>2. CASE RollsBack(p)
  BY <1>2, LinkedRollback
<1>3. SUFFICES ASSUME ~Commits(p), ~RollsBack(p), NEW r \in Rels
               PROVE  db' = db /\ Linked(r)'
  BY <1>1, <1>2 DEF DbLinked, EndsOf
\* Whatever does not write the relationship, and ends no transaction.
<1>4. ASSUME draft'.rel[r] = draft.rel[r], draft.edge[r] => draft'.edge[r], owner'[r] = owner[r],
             pc[p] # "upsert_edge" \/ at[p] # r, pc'[p] # "idle"
      PROVE  Linked(r)'
  BY <1>4, LinkedStays
<1>5. CASE Reading(p)
  BY <1>4, <1>5 DEF Reading, store
<1>6. CASE InsertEntity(p)
  <2>1. PICK new \in Ids : OnlyEntity(new) /\ Takes(p, new) /\ pc'[p] = "upsert_vertex"
    BY <1>6, InsertEntityDoes
  <2>2. pc[p] = "insert" /\ db' = db
    BY <1>6, InsertEntityDoes DEF InsertEntity
  <2> QED
    BY <1>4, <2>1, <2>2, ConstantsOK DEF OnlyEntity, Takes
<1>7. CASE UpdateEntity(p)
  BY <1>4, <1>7, UpdateEntityDoes, ConstantsOK DEF OnlyEntity, Takes
<1>8. CASE UpsertVertex(p)
  BY <1>4, <1>8, UpsertVertexDoes, ConstantsOK DEF OnlyVertex, Takes
<1>9. CASE DeleteEntity(p)
  BY <1>4, <1>9, DeleteEntityDoes, ConstantsOK DEF OnlyEntity, Takes
<1>10. CASE DeleteVertex(p)
  BY <1>4, <1>10, DeleteVertexDoes DEF OnlyVertex
<1>11. CASE InsertRel(p)
  <2>1. PICK new \in Rels :
          /\ OnlyRel(new) /\ Takes(p, new) /\ pc'[p] = "upsert_edge" /\ at'[p] = new
    BY <1>11, InsertRelDoes
  <2>2. pc[p] = "link" /\ db' = db
    BY <1>11, InsertRelDoes
  <2>3. CASE r = new
    BY <2>1, <2>2, <2>3 DEF Linked, StandsAt, Takes
  <2>4. CASE r # new
    BY <1>4, <2>1, <2>2, <2>4 DEF OnlyRel, Takes
  <2> QED
    BY <2>3, <2>4
<1>12. CASE UpsertEdge(p)
  <2>1. OnlyEdge(at[p]) /\ UNCHANGED <<db, owner>> /\ pc'[p] # "idle"
    BY <1>12, UpsertEdgeDoes
  <2>2. CASE r = at[p]
    BY <1>12, <2>1, <2>2, LinkedUpsertEdge
  <2>3. CASE r # at[p]
    BY <1>4, <2>1, <2>3 DEF OnlyEdge
  <2> QED
    BY <2>2, <2>3
<1>13. CASE DeleteRel(p)
  <2>1. /\ pc[p] = "unlink" /\ OnlyRel(at[p]) /\ Takes(p, at[p]) /\ db' = db
        /\ pc'[p] = "delete_edge" /\ draft'.rel[at[p]].state = "deleted"
    BY <1>13, DeleteRelDoes
  <2>2. CASE r = at[p]
    BY <2>1, <2>2 DEF Linked
  <2>3. CASE r # at[p]
    BY <1>4, <2>1, <2>3 DEF OnlyRel, Takes
  <2> QED
    BY <2>2, <2>3
<1>14. CASE DeleteEdge(p)
  <2>1. /\ pc[p] = "delete_edge" /\ OnlyEdge(at[p]) /\ UNCHANGED <<db, owner>> /\ pc'[p] # "idle"
    BY <1>14, DeleteEdgeDoes
  <2>2. CASE r = at[p]
    BY <2>1, <2>2 DEF OnRow, OnlyEdge, Linked
  <2>3. CASE r # at[p]
    BY <1>4, <2>1, <2>3 DEF OnlyEdge
  <2> QED
    BY <2>1, <2>2, <2>3
<1>15. CASE CreateEvidence(p)
  BY <1>4, <1>15, CreateEvidenceDoes
<1> QED
  BY <1>3, <1>5, <1>6, <1>7, <1>8, <1>9, <1>10, <1>11, <1>12, <1>13, <1>14, <1>15 DEF StepOf

-----------------------------------------------------------------------------
(* Evidence rows and their blobs                                            *)

\* A row that is flushed has its blob already: the failed step of a run that
\* commits what it has flushed is never the upload of one of these.
UploadedFirst == \A p \in Procs : uploaded[p] \subseteq blobs

LEMMA BlobsStep ==
  ASSUME Rows, UploadedFirst, EvidenceHasBlob,
         NEW p \in Procs, StepOf(p), sessions' \in 0..MaxSessions
  PROVE  UploadedFirst' /\ EvidenceHasBlob'
<1> Shape
  BY DEF Rows
<1>1. \A q \in Procs \ {p} : uploaded'[q] = uploaded[q]
  BY StepTyped DEF Alone
<1>2. CASE CreateEvidence(p)
  BY <1>1, <1>2, CreateEvidenceDoes DEF UploadedFirst, EvidenceHasBlob
<1>3. CASE Commits(p)
  BY <1>1, <1>3 DEF Commits, Released, UploadedFirst, EvidenceHasBlob
<1>4. CASE RollsBack(p)
  BY <1>1, <1>4 DEF RollsBack, Released, UploadedFirst, EvidenceHasBlob
<1>5. CASE UNCHANGED <<evidence, uploaded, blobs>>
  BY <1>5 DEF UploadedFirst, EvidenceHasBlob
<1> QED
  BY <1>2, <1>3, <1>4, <1>5, InsertEntityDoes, UpdateEntityDoes, UpsertVertexDoes,
     DeleteEntityDoes, DeleteVertexDoes, InsertRelDoes, UpsertEdgeDoes, DeleteRelDoes,
     DeleteEdgeDoes
  DEF StepOf, Reading, store

-----------------------------------------------------------------------------
(* The inductive invariant, and what follows from it                        *)

Mirrored ==
  /\ Rows
  /\ DraftMirrored /\ LiveIsMirrored
  /\ DraftEdgeLive /\ EdgeIsLive
  /\ EndsExist /\ DbLinked /\ \A r \in Rels : Linked(r)
  /\ UploadedFirst /\ EvidenceHasBlob

LEMMA MirroredInit ==
  ASSUME Init
  PROVE  Mirrored
<1> USE DEF Init, Empty, NoRow, NoVertex, NoRel
<1>1. Rows
  BY RowsInit
<1>2. DraftMirrored /\ LiveIsMirrored /\ DraftEdgeLive /\ EdgeIsLive
  BY DEF DraftMirrored, LiveIsMirrored, DraftEdgeLive, EdgeIsLive
<1>3. EndsExist
  BY ConstantsOK DEF EndsExist, EndsKnown
<1>4. DbLinked /\ \A r \in Rels : Linked(r)
  BY DEF DbLinked, Linked
<1>5. UploadedFirst /\ EvidenceHasBlob
  BY DEF UploadedFirst, EvidenceHasBlob
<1> QED
  BY <1>1, <1>2, <1>3, <1>4, <1>5 DEF Mirrored

LEMMA MirroredNext ==
  ASSUME Mirrored, [Next]_vars
  PROVE  Mirrored'
<1>1. CASE Next
  <2>1. Shape
    BY DEF Mirrored, Rows
  <2>2. sessions' \in 0..MaxSessions
    BY <1>1, <2>1, StepCases
  <2>3. PICK p \in Procs : StepOf(p)
    BY <1>1, <2>1, StepCases
  <2>4. Rows' /\ EndsExist'
    BY <2>2, <2>3, RowsStep, EndsStep DEF Mirrored
  <2>5. DraftMirrored' /\ LiveIsMirrored' /\ DraftEdgeLive' /\ EdgeIsLive'
    BY <2>2, <2>3, MirroredStep, EdgeLiveStep DEF Mirrored
  <2>6. DbLinked' /\ \A r \in Rels : Linked(r)'
    BY <2>2, <2>3, LinkedStep DEF Mirrored
  <2>7. UploadedFirst' /\ EvidenceHasBlob'
    BY <2>2, <2>3, BlobsStep DEF Mirrored
  <2> QED
    BY <2>4, <2>5, <2>6, <2>7 DEF Mirrored
<1>2. CASE UNCHANGED vars
  <2>1. UNCHANGED <<db, draft, owner, evidence, uploaded, blobs, pc, at, data, mem, todo, ref,
                    sessions>>
    BY <1>2 DEF vars, store
  <2>2. Rows'
    <3>1. Shape'
      BY <1>2, ShapeStep DEF Mirrored, Rows
    <3> QED
      BY <2>1, <3>1 DEF Mirrored, Rows, Synced, Forward, OnRow, Entity
  <2>3. DraftMirrored' /\ LiveIsMirrored' /\ DraftEdgeLive' /\ EdgeIsLive'
    BY <2>1 DEF Mirrored, DraftMirrored, LiveIsMirrored, DraftEdgeLive, EdgeIsLive, StandsAt
  <2>4. EndsExist' /\ DbLinked'
    BY <2>1 DEF Mirrored, EndsExist, EndsKnown, DbLinked, EndsOf, Entity
  <2>5. \A r \in Rels : Linked(r)'
    BY <2>1 DEF Mirrored, Linked, EndsOf, Entity, StandsAt
  <2>6. UploadedFirst' /\ EvidenceHasBlob'
    BY <2>1 DEF Mirrored, UploadedFirst, EvidenceHasBlob
  <2> QED
    BY <2>2, <2>3, <2>4, <2>5, <2>6 DEF Mirrored
<1> QED
  BY <1>1, <1>2

(***************************************************************************)
(* Every live entity has its vertex: an entity is committed together with  *)
(* its mirror, by requests and runs alike, and whatever is rolled back.    *)
(***************************************************************************)
THEOREM EntitiesMirrored == Spec => []LiveIsMirrored
<1>1. Init => Mirrored
  BY MirroredInit
<1>2. Mirrored /\ [Next]_vars => Mirrored'
  BY MirroredNext
<1>3. Mirrored => LiveIsMirrored
  BY DEF Mirrored
<1> QED
  BY <1>1, <1>2, <1>3, PTL DEF Spec

(***************************************************************************)
(* A live relationship between two live entities is an edge of the graph,  *)
(* although the MATCH that precedes the MERGE of the edge fails silently.  *)
(***************************************************************************)
THEOREM LinksMirrored == Spec => []LinkHasEdge
<1>1. Init => Mirrored
  BY MirroredInit
<1>2. Mirrored /\ [Next]_vars => Mirrored'
  BY MirroredNext
<1>3. Mirrored => LinkHasEdge
  BY DEF Mirrored, DbLinked, LinkHasEdge, EndsOf
<1> QED
  BY <1>1, <1>2, <1>3, PTL DEF Spec

(***************************************************************************)
(* A relationship that is soft-deleted leaves the graph with its row.      *)
(***************************************************************************)
THEOREM UnlinkedMirrored == Spec => []EdgeIsLive
<1>1. Init => Mirrored
  BY MirroredInit
<1>2. Mirrored /\ [Next]_vars => Mirrored'
  BY MirroredNext
<1>3. Mirrored => EdgeIsLive
  BY DEF Mirrored
<1> QED
  BY <1>1, <1>2, <1>3, PTL DEF Spec

(***************************************************************************)
(* No evidence row is committed without its blob, not even one that the    *)
(* runner's except branch commits when a later proposal has failed.        *)
(***************************************************************************)
THEOREM EvidenceStored == Spec => []EvidenceHasBlob
<1>1. Init => Mirrored
  BY MirroredInit
<1>2. Mirrored /\ [Next]_vars => Mirrored'
  BY MirroredNext
<1>3. Mirrored => EvidenceHasBlob
  BY DEF Mirrored
<1> QED
  BY <1>1, <1>2, <1>3, PTL DEF Spec
=============================================================================
