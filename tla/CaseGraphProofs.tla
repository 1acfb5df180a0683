--------------------------- MODULE CaseGraphProofs ---------------------------
(***************************************************************************)
(* Proofs about CaseGraph, for every set of requests, runners, rows,       *)
(* payloads and plugin results, any number of sessions and any faults.     *)
(***************************************************************************)
EXTENDS CaseGraph, TLAPS

-----------------------------------------------------------------------------
(* The inductive invariant, by its parts                                    *)

EntityRow == [state: States, label: Labels \cup {NoLabel}, conf: Confs \cup {0}]
VertexRow == [there: BOOLEAN, label: Labels \cup {NoLabel}, conf: Confs \cup {0}]
RelRow == [state: States, src: Ids \cup {NoId}, dst: Ids \cup {NoId}]
PCs == {"idle", "next", "insert", "update", "delete", "link", "unlink", "commit",
        "upsert_vertex", "delete_vertex", "upsert_edge", "delete_edge", "upload"}

\* What a process knows where it stands.
DataFits(p) ==
  /\ pc[p] = "insert" => data[p] \in [label: Labels, conf: Confs \cup {0}]
  /\ pc[p] = "update" => data[p] \in [label: Labels \cup {NoLabel}, conf: Confs \cup {0}]
  /\ pc[p] = "link" => data[p] \in [src: Ids, dst: Ids]
  /\ pc[p] = "upload" => data[p] \in [blob: Blobs]
  /\ pc[p] \in {"update", "upsert_vertex", "delete", "delete_vertex"} => at[p] \in Ids
  /\ pc[p] \in {"unlink", "upsert_edge", "delete_edge"} => at[p] \in Rels
  /\ pc[p] = "next" => todo[p] # <<>>

Shape ==
  /\ TypeOK
  /\ data = [p \in Procs |-> data[p]]
  /\ mem \in [Procs -> [Ids -> EntityRow]]
  /\ todo \in [Procs -> Seq(Proposal)]
  /\ \A p \in Procs : DataFits(p)

-----------------------------------------------------------------------------
(* Types                                                                    *)

\* What a step of p leaves of the other processes.
Alone(p) ==
  \A q \in Procs \ {p} :
    /\ pc'[q] = pc[q] /\ at'[q] = at[q] /\ data'[q] = data[q]
    /\ todo'[q] = todo[q] /\ uploaded'[q] = uploaded[q]
    /\ \A x \in Ids \cup Rels : owner'[x] = q <=> owner[x] = q

LEMMA Stepped ==
  ASSUME Shape, NEW p \in Procs, NEW label \in PCs, NEW x \in Ids \cup Rels \cup {NoId}, NEW d,
         Step(p, label, x, d)
  PROVE  /\ pc' \in [Procs -> PCs] /\ pc'[p] = label
         /\ at' \in [Procs -> Ids \cup Rels \cup {NoId}] /\ at'[p] = x
         /\ data' = [q \in Procs |-> data'[q]] /\ data'[p] = d
         /\ \A q \in Procs \ {p} : pc'[q] = pc[q] /\ at'[q] = at[q] /\ data'[q] = data[q]
<1>1. pc \in [Procs -> PCs] /\ at \in [Procs -> Ids \cup Rels \cup {NoId}]
  BY DEF Shape, TypeOK, PCs, Mirrors
<1>2. data = [q \in Procs |-> data[q]]
  BY DEF Shape
<1>3. /\ pc' = [pc EXCEPT ![p] = label] /\ at' = [at EXCEPT ![p] = x]
      /\ data' = [data EXCEPT ![p] = d]
  BY DEF Step
<1> QED
  BY <1>1, <1>2, <1>3

LEMMA Ended ==
  ASSUME Shape, NEW p \in Procs, EndSession(p)
  PROVE  /\ pc' \in [Procs -> PCs] /\ pc'[p] = "idle"
         /\ at' \in [Procs -> Ids \cup Rels \cup {NoId}]
         /\ data' = [q \in Procs |-> data'[q]]
         /\ mem' \in [Procs -> [Ids -> EntityRow]]
         /\ todo' \in [Procs -> Seq(Proposal)] /\ todo'[p] = <<>>
         /\ ref' \in [Procs -> [Labels \cup {"input"} -> Ids \cup {NoId}]]
         /\ \A q \in Procs \ {p} : /\ pc'[q] = pc[q] /\ at'[q] = at[q] /\ data'[q] = data[q]
                                   /\ todo'[q] = todo[q]
<1>1. pc \in [Procs -> PCs] /\ at \in [Procs -> Ids \cup Rels \cup {NoId}]
  BY DEF Shape, TypeOK, PCs, Mirrors
<1>2. data = [q \in Procs |-> data[q]]
  BY DEF Shape
<1>3. pc' = [pc EXCEPT ![p] = "idle"] /\ at' = [at EXCEPT ![p] = NoId]
  BY DEF EndSession
<1>4. data' = [data EXCEPT ![p] = <<>>] /\ todo' = [todo EXCEPT ![p] = <<>>]
  BY DEF EndSession
<1>5. mem' \in [Procs -> [Ids -> EntityRow]]
  <2>1. [id \in Ids |-> NoRow] \in [Ids -> EntityRow]
    BY DEF NoRow, EntityRow, States
  <2> QED
    BY <2>1 DEF EndSession, Shape
<1>6. ref' \in [Procs -> [Labels \cup {"input"} -> Ids \cup {NoId}]]
  <2>1. [l \in Labels \cup {"input"} |-> NoId] \in [Labels \cup {"input"} -> Ids \cup {NoId}]
    OBVIOUS
  <2> QED
    BY <2>1 DEF EndSession, Shape, TypeOK
<1>7. todo' \in [Procs -> Seq(Proposal)] /\ <<>> \in Seq(Proposal)
  BY <1>4 DEF Shape
<1> QED
  BY <1>1, <1>2, <1>3, <1>4, <1>5, <1>6, <1>7 DEF Shape, PCs

\* p has locked one row, or held it already.
Takes(p, x) ==
  /\ owner[x] \in {NoProc, p} /\ owner'[x] = p
  /\ \A y \in Ids \cup Rels : y # x => owner'[y] = owner[y]

OnlyEntity(id) ==
  /\ \A i \in Ids : i # id => draft'.entity[i] = draft.entity[i]
  /\ draft'.vertex = draft.vertex /\ draft'.rel = draft.rel /\ draft'.edge = draft.edge
OnlyVertex(id) ==
  /\ \A i \in Ids : i # id => draft'.vertex[i] = draft.vertex[i]
  /\ draft'.entity = draft.entity /\ draft'.rel = draft.rel /\ draft'.edge = draft.edge
OnlyRel(r) ==
  /\ \A x \in Rels : x # r => draft'.rel[x] = draft.rel[x]
  /\ draft'.entity = draft.entity /\ draft'.vertex = draft.vertex /\ draft'.edge = draft.edge
OnlyEdge(r) ==
  /\ \A x \in Rels : x # r => draft'.edge[x] = draft.edge[x]
  /\ draft'.entity = draft.entity /\ draft'.vertex = draft.vertex /\ draft'.rel = draft.rel

LEMMA Proceeded ==
  ASSUME Shape, NEW p \in Procs, Proceed(p), todo' \in [Procs -> Seq(Proposal)]
  PROVE  /\ pc' \in [Procs -> PCs]
         /\ pc'[p] = IF todo'[p] = <<>> THEN "commit" ELSE "next"
         /\ at' \in [Procs -> Ids \cup Rels \cup {NoId}] /\ at'[p] = NoId
         /\ data' = [q \in Procs |-> data'[q]]
         /\ \A q \in Procs \ {p} : pc'[q] = pc[q] /\ at'[q] = at[q] /\ data'[q] = data[q]
<1> DEFINE label == IF todo'[p] = <<>> THEN "commit" ELSE "next"
<1>1. label \in PCs
  BY DEF PCs
<1>2. Step(p, label, NoId, <<>>)
  BY DEF Proceed
<1> HIDE DEF label
<1>3. /\ pc' \in [Procs -> PCs] /\ pc'[p] = label
      /\ at' \in [Procs -> Ids \cup Rels \cup {NoId}] /\ at'[p] = NoId
      /\ data' = [q \in Procs |-> data'[q]]
      /\ \A q \in Procs \ {p} : pc'[q] = pc[q] /\ at'[q] = at[q] /\ data'[q] = data[q]
  BY <1>1, <1>2, Stepped
<1>4. label = IF todo'[p] = <<>> THEN "commit" ELSE "next"
  BY DEF label
<1> QED
  BY <1>3, <1>4, Zenon

LEMMA Locked ==
  ASSUME Shape, NEW p \in Procs, NEW x \in Ids \cup Rels, Lock(p, x)
  PROVE  /\ owner' \in [Ids \cup Rels -> Procs \cup {NoProc}]
         /\ Takes(p, x)
         /\ \A q \in Procs \ {p}, y \in Ids \cup Rels : owner'[y] = q <=> owner[y] = q
  BY ConstantsOK DEF Shape, TypeOK, Lock, Free, Takes

\* A row is only held by a process that has a session.
LEMMA HeldInSession ==
  ASSUME Shape, NEW p \in Procs, pc'[p] # "idle",
         \A q \in Procs \ {p} : pc'[q] = pc[q],
         owner' \in [Ids \cup Rels -> Procs \cup {NoProc}],
         \A y \in Ids \cup Rels : owner'[y] = owner[y] \/ owner'[y] = p
  PROVE  \A x \in Ids \cup Rels : owner'[x] # NoProc => pc'[owner'[x]] # "idle"
<1> SUFFICES ASSUME NEW x \in Ids \cup Rels, owner'[x] # NoProc
             PROVE  pc'[owner'[x]] # "idle"
  OBVIOUS
<1>1. owner'[x] \in Procs
  OBVIOUS
<1>2. owner[x] # NoProc => pc[owner[x]] # "idle"
  BY DEF Shape, TypeOK
<1> QED
  BY <1>1, <1>2

\* A table is written in one place.
LEMMA EntityWritten ==
  ASSUME draft \in Tables, NEW id \in Ids, NEW row \in EntityRow,
         draft' = [draft EXCEPT !.entity[id] = row]
  PROVE  /\ draft' \in Tables
         /\ draft'.entity[id] = row
         /\ OnlyEntity(id)
  BY DEF Tables, EntityRow, OnlyEntity

LEMMA VertexWritten ==
  ASSUME draft \in Tables, NEW id \in Ids, NEW row \in VertexRow,
         draft' = [draft EXCEPT !.vertex[id] = row]
  PROVE  /\ draft' \in Tables
         /\ draft'.vertex[id] = row
         /\ OnlyVertex(id)
  BY DEF Tables, VertexRow, OnlyVertex

LEMMA RelWritten ==
  ASSUME draft \in Tables, NEW r \in Rels, NEW row \in RelRow,
         draft' = [draft EXCEPT !.rel[r] = row]
  PROVE  /\ draft' \in Tables
         /\ draft'.rel[r] = row
         /\ OnlyRel(r)
  BY DEF Tables, RelRow, OnlyRel

LEMMA EdgeWritten ==
  ASSUME draft \in Tables, NEW r \in Rels, NEW there \in BOOLEAN,
         draft' = [draft EXCEPT !.edge[r] = there]
  PROVE  /\ draft' \in Tables
         /\ draft'.edge[r] = there
         /\ OnlyEdge(r)
  BY DEF Tables, OnlyEdge

\* The types that hold of every state: what is left to show of a step of p is
\* that p knows what it has to where it stands next.
LEMMA ShapeKept ==
  ASSUME Shape, NEW p \in Procs, Alone(p),
         db' \in Tables, draft' \in Tables,
         owner' \in [Ids \cup Rels -> Procs \cup {NoProc}],
         evidence' \subseteq Blobs, blobs' \subseteq Blobs,
         uploaded' \in [Procs -> SUBSET Blobs],
         pc' \in [Procs -> PCs],
         at' \in [Procs -> Ids \cup Rels \cup {NoId}],
         data' = [q \in Procs |-> data'[q]],
         mem' \in [Procs -> [Ids -> EntityRow]],
         todo' \in [Procs -> Seq(Proposal)],
         ref' \in [Procs -> [Labels \cup {"input"} -> Ids \cup {NoId}]],
         sessions' \in 0..MaxSessions,
         \A x \in Ids \cup Rels : owner'[x] # NoProc => pc'[owner'[x]] # "idle",
         DataFits(p)'
  PROVE  Shape'
<1>1. ASSUME NEW q \in Procs PROVE DataFits(q)'
  <2>1. CASE q = p
    BY <2>1
  <2>2. CASE q # p
    <3>1. pc'[q] = pc[q] /\ at'[q] = at[q] /\ data'[q] = data[q] /\ todo'[q] = todo[q]
      BY <2>2 DEF Alone
    <3>2. DataFits(q)
      BY DEF Shape
    <3> QED
      BY <3>1, <3>2 DEF DataFits
  <2> QED
    BY <2>1, <2>2
<1>2. TypeOK'
  BY DEF TypeOK, PCs, Mirrors
<1> QED
  BY <1>1, <1>2 DEF Shape

LEMMA TypeParts ==
  ASSUME Shape
  PROVE  /\ db \in Tables /\ draft \in Tables
         /\ draft.entity \in [Ids -> EntityRow] /\ draft.vertex \in [Ids -> VertexRow]
         /\ draft.rel \in [Rels -> RelRow] /\ draft.edge \in [Rels -> BOOLEAN]
         /\ db.entity \in [Ids -> EntityRow] /\ db.vertex \in [Ids -> VertexRow]
         /\ db.rel \in [Rels -> RelRow] /\ db.edge \in [Rels -> BOOLEAN]
         /\ owner \in [Ids \cup Rels -> Procs \cup {NoProc}]
         /\ evidence \subseteq Blobs /\ blobs \subseteq Blobs
         /\ uploaded \in [Procs -> SUBSET Blobs]
         /\ pc \in [Procs -> PCs]
         /\ at \in [Procs -> Ids \cup Rels \cup {NoId}]
         /\ data = [q \in Procs |-> data[q]]
         /\ mem \in [Procs -> [Ids -> EntityRow]]
         /\ todo \in [Procs -> Seq(Proposal)]
         /\ ref \in [Procs -> [Labels \cup {"input"} -> Ids \cup {NoId}]]
         /\ sessions \in 0..MaxSessions
  BY DEF Shape, TypeOK, Tables, EntityRow, VertexRow, RelRow, PCs, Mirrors

LEMMA InsertEntityDoes ==
  ASSUME Shape, NEW p \in Procs, InsertEntity(p), sessions' \in 0..MaxSessions
  PROVE  /\ Shape' /\ Alone(p) /\ UNCHANGED <<db, evidence, uploaded, blobs, todo>>
         /\ \E id \in Ids :
              /\ Fresh(db.entity, id) /\ Takes(p, id) /\ OnlyEntity(id)
              /\ draft'.entity[id].state = "live"
              /\ pc'[p] = "upsert_vertex" /\ at'[p] = id
<1> DEFINE row == [state |-> "live", label |-> data[p].label, conf |-> data[p].conf]
<1>1. PICK id \in Ids :
        /\ Fresh(db.entity, id) /\ Lock(p, id)
        /\ draft' = [draft EXCEPT !.entity[id] = row]
        /\ mem' = [mem EXCEPT ![p][id] = row]
        /\ ref' = IF p \in Runners THEN [ref EXCEPT ![p][row.label] = id] ELSE ref
        /\ Step(p, "upsert_vertex", id, <<>>)
  BY DEF InsertEntity
<1>2. pc[p] = "insert" /\ UNCHANGED <<db, evidence, uploaded, blobs, todo>>
  BY DEF InsertEntity
<1>3. data[p] \in [label: Labels, conf: Confs \cup {0}]
  BY <1>2 DEF Shape, DataFits
<1>4. row \in EntityRow /\ row.label \in Labels /\ row.state = "live"
  BY <1>3 DEF EntityRow, States
<1> HIDE DEF row
<1>5. /\ owner' \in [Ids \cup Rels -> Procs \cup {NoProc}]
      /\ Takes(p, id)
      /\ \A q \in Procs \ {p}, y \in Ids \cup Rels : owner'[y] = q <=> owner[y] = q
  BY <1>1, Locked
<1>6. draft' \in Tables /\ draft'.entity[id] = row /\ OnlyEntity(id)
  BY <1>1, <1>4, TypeParts, EntityWritten
<1>7. /\ pc' \in [Procs -> PCs] /\ pc'[p] = "upsert_vertex"
      /\ at' \in [Procs -> Ids \cup Rels \cup {NoId}] /\ at'[p] = id
      /\ data' = [q \in Procs |-> data'[q]]
      /\ \A q \in Procs \ {p} : pc'[q] = pc[q] /\ at'[q] = at[q] /\ data'[q] = data[q]
  BY <1>1, Stepped DEF PCs
<1>8. mem' \in [Procs -> [Ids -> EntityRow]]
  BY <1>1, <1>4, TypeParts
<1>9. ref' \in [Procs -> [Labels \cup {"input"} -> Ids \cup {NoId}]]
  BY <1>1, <1>4, TypeParts
<1>10. Alone(p)
  BY <1>2, <1>5, <1>7 DEF Alone
<1>11. DataFits(p)'
  BY <1>7 DEF DataFits
<1>12. \A x \in Ids \cup Rels : owner'[x] # NoProc => pc'[owner'[x]] # "idle"
  BY <1>5, <1>7, HeldInSession DEF Takes
<1>13. Shape'
  BY <1>2, <1>5, <1>6, <1>7, <1>8, <1>9, <1>10, <1>11, <1>12, TypeParts, ShapeKept
<1> QED
  BY <1>1, <1>2, <1>4, <1>5, <1>6, <1>7, <1>10, <1>13

LEMMA ApplyTyped ==
  ASSUME NEW row \in EntityRow, NEW d \in [label: Labels \cup {NoLabel}, conf: Confs \cup {0}]
  PROVE  /\ Apply(row, d) \in EntityRow /\ Apply(row, d).state = row.state
         /\ Changed(row, d) \in [label: Labels \cup {NoLabel}, conf: Confs \cup {0}]
  BY DEF Apply, Changed, EntityRow

\* Whether it changes a column or not, an update leaves the state of its row.
LEMMA UpdateEntityDoes ==
  ASSUME Shape, NEW p \in Procs, UpdateEntity(p), sessions' \in 0..MaxSessions
  PROVE  /\ Shape' /\ Alone(p) /\ UNCHANGED <<db, evidence, uploaded, blobs, todo>>
         /\ at[p] \in Ids /\ pc[p] = "update"
         /\ Takes(p, at[p]) \/ UNCHANGED <<owner, draft>>
         /\ OnlyEntity(at[p])
         /\ draft'.entity[at[p]].state = draft.entity[at[p]].state
         /\ pc'[p] = "upsert_vertex" /\ at'[p] = at[p]
<1> DEFINE id == at[p]
           d == Changed(mem[p][id], data[p])
<1>1. /\ pc[p] = "update" /\ UNCHANGED <<db, evidence, uploaded, blobs, todo, ref>>
      /\ \/ Lock(p, id) /\ draft' = [draft EXCEPT !.entity[id] = Apply(draft.entity[id], d)]
         \/ UNCHANGED <<owner, draft>>
      /\ mem' = [mem EXCEPT ![p][id] = Apply(mem[p][id], d)]
      /\ Step(p, "upsert_vertex", id, <<>>)
  BY DEF UpdateEntity
<1>2. id \in Ids /\ data[p] \in [label: Labels \cup {NoLabel}, conf: Confs \cup {0}]
  BY <1>1 DEF Shape, DataFits
<1>3. /\ mem[p][id] \in EntityRow /\ draft.entity[id] \in EntityRow
  BY <1>2, TypeParts
<1>4. d \in [label: Labels \cup {NoLabel}, conf: Confs \cup {0}]
  BY <1>2, <1>3, ApplyTyped
<1> HIDE DEF d
<1>5. /\ Apply(mem[p][id], d) \in EntityRow /\ Apply(draft.entity[id], d) \in EntityRow
      /\ Apply(draft.entity[id], d).state = draft.entity[id].state
  BY <1>3, <1>4, ApplyTyped
<1>6. /\ owner' \in [Ids \cup Rels -> Procs \cup {NoProc}]
      /\ Takes(p, id) \/ UNCHANGED <<owner, draft>>
      /\ \A q \in Procs \ {p}, y \in Ids \cup Rels : owner'[y] = q <=> owner[y] = q
  BY <1>1, <1>2, Locked, TypeParts
<1>7. /\ draft' \in Tables /\ OnlyEntity(id)
      /\ draft'.entity[id].state = draft.entity[id].state
  <2>1. CASE draft' = [draft EXCEPT !.entity[id] = Apply(draft.entity[id], d)]
    BY <2>1, <1>2, <1>5, TypeParts, EntityWritten
  <2>2. CASE draft' = draft
    BY <2>2, TypeParts DEF OnlyEntity
  <2> QED
    BY <2>1, <2>2, <1>1
<1>8. /\ pc' \in [Procs -> PCs] /\ pc'[p] = "upsert_vertex"
      /\ at' \in [Procs -> Ids \cup Rels \cup {NoId}] /\ at'[p] = id
      /\ data' = [q \in Procs |-> data'[q]]
      /\ \A q \in Procs \ {p} : pc'[q] = pc[q] /\ at'[q] = at[q] /\ data'[q] = data[q]
  BY <1>1, <1>2, Stepped DEF PCs
<1>9. mem' \in [Procs -> [Ids -> EntityRow]]
  BY <1>1, <1>2, <1>5, TypeParts
<1>10. Alone(p)
  BY <1>1, <1>6, <1>8 DEF Alone
<1>11. DataFits(p)'
  BY <1>2, <1>8 DEF DataFits
<1>12. \A x \in Ids \cup Rels : owner'[x] # NoProc => pc'[owner'[x]] # "idle"
  BY <1>2, <1>6, <1>8, HeldInSession DEF Takes
<1>13. Shape'
  BY <1>1, <1>6, <1>7, <1>8, <1>9, <1>10, <1>11, <1>12, TypeParts, ShapeKept
<1> QED
  BY <1>1, <1>2, <1>6, <1>7, <1>8, <1>10, <1>13

LEMMA UpsertVertexDoes ==
  ASSUME Shape, NEW p \in Procs, UpsertVertex(p), sessions' \in 0..MaxSessions
  PROVE  /\ Shape' /\ Alone(p) /\ UNCHANGED <<db, evidence, uploaded, blobs, todo>>
         /\ at[p] \in Ids /\ pc[p] = "upsert_vertex" /\ Takes(p, at[p]) /\ OnlyVertex(at[p])
         /\ draft'.vertex[at[p]].there
         /\ pc'[p] = IF todo[p] = <<>> THEN "commit" ELSE "next"
<1> DEFINE id == at[p]
           row == [there |-> TRUE, label |-> mem[p][id].label, conf |-> mem[p][id].conf]
<1>1. /\ pc[p] = "upsert_vertex" /\ UNCHANGED <<db, evidence, uploaded, blobs, mem, todo, ref>>
      /\ Lock(p, id) /\ draft' = [draft EXCEPT !.vertex[id] = row]
      /\ Proceed(p)
  BY DEF UpsertVertex
<1>2. id \in Ids
  BY <1>1 DEF Shape, DataFits
<1>3. mem[p][id] \in EntityRow
  BY <1>2, TypeParts
<1>4. row \in VertexRow /\ row.there
  BY <1>3 DEF EntityRow, VertexRow
<1> HIDE DEF row
<1>5. /\ owner' \in [Ids \cup Rels -> Procs \cup {NoProc}]
      /\ Takes(p, id)
      /\ \A q \in Procs \ {p}, y \in Ids \cup Rels : owner'[y] = q <=> owner[y] = q
  BY <1>1, <1>2, Locked
<1>6. draft' \in Tables /\ draft'.vertex[id] = row /\ OnlyVertex(id)
  BY <1>1, <1>2, <1>4, TypeParts, VertexWritten
<1>7. /\ pc' \in [Procs -> PCs] /\ pc'[p] = IF todo'[p] = <<>> THEN "commit" ELSE "next"
      /\ at' \in [Procs -> Ids \cup Rels \cup {NoId}]
      /\ data' = [q \in Procs |-> data'[q]]
      /\ \A q \in Procs \ {p} : pc'[q] = pc[q] /\ at'[q] = at[q] /\ data'[q] = data[q]
  BY <1>1, TypeParts, Proceeded
<1>8. Alone(p)
  BY <1>1, <1>5, <1>7 DEF Alone
<1>9. DataFits(p)'
  BY <1>7 DEF DataFits
<1>10. \A x \in Ids \cup Rels : owner'[x] # NoProc => pc'[owner'[x]] # "idle"
  BY <1>2, <1>5, <1>7, HeldInSession DEF Takes
<1>11. Shape'
  BY <1>1, <1>5, <1>6, <1>7, <1>8, <1>9, <1>10, TypeParts, ShapeKept
<1> QED
  BY <1>1, <1>2, <1>4, <1>5, <1>6, <1>7, <1>8, <1>11

LEMMA DeleteEntityDoes ==
  ASSUME Shape, NEW p \in Procs, DeleteEntity(p), sessions' \in 0..MaxSessions
  PROVE  /\ Shape' /\ Alone(p) /\ UNCHANGED <<db, evidence, uploaded, blobs, todo>>
         /\ at[p] \in Ids /\ pc[p] = "delete" /\ Takes(p, at[p]) /\ OnlyEntity(at[p])
         /\ draft'.entity[at[p]].state = "deleted"
         /\ pc'[p] = "delete_vertex" /\ at'[p] = at[p]
<1> DEFINE id == at[p]
           row == [draft.entity[id] EXCEPT !.state = "deleted"]
<1>1. /\ pc[p] = "delete"
      /\ UNCHANGED <<db, evidence, uploaded, blobs, mem, todo, ref>>
      /\ Lock(p, id) /\ Step(p, "delete_vertex", id, <<>>)
  BY DEF DeleteEntity
<1>2. draft' = [draft EXCEPT !.entity[id] = row]
  BY DEF DeleteEntity
<1>3. id \in Ids
  BY <1>1 DEF Shape, DataFits
<1>4. row \in EntityRow /\ row.state = "deleted"
  <2>1. draft.entity[id] \in EntityRow
    BY <1>3, TypeParts
  <2> QED
    BY <2>1 DEF EntityRow, States
<1> HIDE DEF row
<1>5. /\ owner' \in [Ids \cup Rels -> Procs \cup {NoProc}]
      /\ Takes(p, id)
      /\ \A q \in Procs \ {p}, y \in Ids \cup Rels : owner'[y] = q <=> owner[y] = q
  BY <1>1, <1>3, Locked
<1>6. draft' \in Tables /\ draft'.entity[id] = row /\ OnlyEntity(id)
  BY <1>2, <1>3, <1>4, TypeParts, EntityWritten
<1>7. /\ pc' \in [Procs -> PCs] /\ pc'[p] = "delete_vertex"
      /\ at' \in [Procs -> Ids \cup Rels \cup {NoId}] /\ at'[p] = id
      /\ data' = [q \in Procs |-> data'[q]]
      /\ \A q \in Procs \ {p} : pc'[q] = pc[q] /\ at'[q] = at[q] /\ data'[q] = data[q]
  BY <1>1, <1>3, Stepped DEF PCs
<1>8. Alone(p)
  BY <1>1, <1>5, <1>7 DEF Alone
<1>9. DataFits(p)'
  BY <1>3, <1>7 DEF DataFits
<1>10. \A x \in Ids \cup Rels : owner'[x] # NoProc => pc'[owner'[x]] # "idle"
  BY <1>3, <1>5, <1>7, HeldInSession DEF Takes
<1>11. Shape'
  BY <1>1, <1>5, <1>6, <1>7, <1>8, <1>9, <1>10, TypeParts, ShapeKept
<1> QED
  BY <1>1, <1>3, <1>4, <1>5, <1>6, <1>7, <1>8, <1>11

LEMMA DeleteVertexDoes ==
  ASSUME Shape, NEW p \in Procs, DeleteVertex(p), sessions' \in 0..MaxSessions
  PROVE  /\ Shape' /\ Alone(p) /\ UNCHANGED <<db, owner, evidence, uploaded, blobs, todo>>
         /\ at[p] \in Ids /\ pc[p] = "delete_vertex" /\ OnlyVertex(at[p])
         /\ ~draft'.vertex[at[p]].there
         /\ pc'[p] = IF todo[p] = <<>> THEN "commit" ELSE "next"
<1> DEFINE id == at[p]
<1>1. /\ pc[p] = "delete_vertex"
      /\ UNCHANGED <<db, owner, evidence, uploaded, blobs, mem, todo, ref>>
      /\ draft' = [draft EXCEPT !.vertex[id] = NoVertex]
      /\ Proceed(p)
  BY DEF DeleteVertex
<1>2. id \in Ids
  BY <1>1 DEF Shape, DataFits
<1>3. NoVertex \in VertexRow /\ ~NoVertex.there
  BY DEF NoVertex, VertexRow
<1>4. draft' \in Tables /\ draft'.vertex[id] = NoVertex /\ OnlyVertex(id)
  BY <1>1, <1>2, <1>3, TypeParts, VertexWritten
<1>5. /\ pc' \in [Procs -> PCs] /\ pc'[p] = IF todo'[p] = <<>> THEN "commit" ELSE "next"
      /\ at' \in [Procs -> Ids \cup Rels \cup {NoId}]
      /\ data' = [q \in Procs |-> data'[q]]
      /\ \A q \in Procs \ {p} : pc'[q] = pc[q] /\ at'[q] = at[q] /\ data'[q] = data[q]
  BY <1>1, TypeParts, Proceeded
<1>6. Alone(p)
  BY <1>1, <1>5 DEF Alone
<1>7. DataFits(p)'
  BY <1>5 DEF DataFits
<1>8. \A x \in Ids \cup Rels : owner'[x] # NoProc => pc'[owner'[x]] # "idle"
  BY <1>1, <1>5, TypeParts, HeldInSession
<1>9. Shape'
  BY <1>1, <1>4, <1>5, <1>6, <1>7, <1>8, TypeParts, ShapeKept
<1> QED
  BY <1>1, <1>2, <1>3, <1>4, <1>5, <1>6, <1>9

LEMMA InsertRelDoes ==
  ASSUME Shape, NEW p \in Procs, InsertRel(p), sessions' \in 0..MaxSessions
  PROVE  /\ Shape' /\ Alone(p) /\ UNCHANGED <<db, evidence, uploaded, blobs, todo>>
         /\ pc[p] = "link" /\ data[p].src \in Ids /\ data[p].dst \in Ids
         /\ \E r \in Rels :
              /\ Fresh(db.rel, r) /\ Takes(p, r) /\ OnlyRel(r)
              /\ draft'.rel[r] = [state |-> "live", src |-> data[p].src, dst |-> data[p].dst]
              /\ pc'[p] = "upsert_edge" /\ at'[p] = r
<1> DEFINE row == [state |-> "live", src |-> data[p].src, dst |-> data[p].dst]
<1>1. PICK r \in Rels :
        /\ Fresh(db.rel, r) /\ Lock(p, r)
        /\ draft' = [draft EXCEPT !.rel[r] = row]
        /\ Step(p, "upsert_edge", r, <<>>)
  BY DEF InsertRel
<1>2. pc[p] = "link" /\ UNCHANGED <<db, evidence, uploaded, blobs, mem, todo, ref>>
  BY DEF InsertRel
<1>3. data[p] \in [src: Ids, dst: Ids]
  BY <1>2 DEF Shape, DataFits
<1>4. row \in RelRow
  BY <1>3 DEF RelRow, States
<1>5. /\ owner' \in [Ids \cup Rels -> Procs \cup {NoProc}]
      /\ Takes(p, r)
      /\ \A q \in Procs \ {p}, y \in Ids \cup Rels : owner'[y] = q <=> owner[y] = q
  BY <1>1, Locked
<1>6. draft' \in Tables /\ draft'.rel[r] = row /\ OnlyRel(r)
  <2> HIDE DEF row
  <2> QED
    BY <1>1, <1>4, TypeParts, RelWritten
<1>7. /\ pc' \in [Procs -> PCs] /\ pc'[p] = "upsert_edge"
      /\ at' \in [Procs -> Ids \cup Rels \cup {NoId}] /\ at'[p] = r
      /\ data' = [q \in Procs |-> data'[q]]
      /\ \A q \in Procs \ {p} : pc'[q] = pc[q] /\ at'[q] = at[q] /\ data'[q] = data[q]
  BY <1>1, Stepped DEF PCs
<1>8. Alone(p)
  BY <1>2, <1>5, <1>7 DEF Alone
<1>9. DataFits(p)'
  BY <1>7 DEF DataFits
<1>10. \A x \in Ids \cup Rels : owner'[x] # NoProc => pc'[owner'[x]] # "idle"
  BY <1>5, <1>7, HeldInSession DEF Takes
<1>11. Shape'
  BY <1>2, <1>5, <1>6, <1>7, <1>8, <1>9, <1>10, TypeParts, ShapeKept
<1> QED
  BY <1>1, <1>2, <1>3, <1>5, <1>6, <1>7, <1>8, <1>11

LEMMA UpsertEdgeDoes ==
  ASSUME Shape, NEW p \in Procs, UpsertEdge(p), sessions' \in 0..MaxSessions
  PROVE  /\ Shape' /\ Alone(p) /\ UNCHANGED <<db, owner, evidence, uploaded, blobs, todo>>
         /\ at[p] \in Rels /\ pc[p] = "upsert_edge" /\ OnlyEdge(at[p])
         /\ draft'.edge[at[p]] <=> /\ Vertex(p, draft.rel[at[p]].src).there
                                   /\ Vertex(p, draft.rel[at[p]].dst).there
         /\ pc'[p] = IF todo[p] = <<>> THEN "commit" ELSE "next"
<1> DEFINE r == at[p]
           met == Vertex(p, draft.rel[r].src).there /\ Vertex(p, draft.rel[r].dst).there
<1>1. /\ pc[p] = "upsert_edge"
      /\ UNCHANGED <<db, owner, evidence, uploaded, blobs, mem, todo, ref>>
      /\ draft' = [draft EXCEPT !.edge[r] = met]
      /\ Proceed(p)
  BY DEF UpsertEdge
<1>2. r \in Rels
  BY <1>1 DEF Shape, DataFits
<1> HIDE DEF met
<1>3. met \in BOOLEAN
  BY Zenon DEF met
<1>4. draft' \in Tables /\ draft'.edge[r] = met /\ OnlyEdge(r)
  BY <1>1, <1>2, <1>3, TypeParts, EdgeWritten
<1>5. /\ pc' \in [Procs -> PCs] /\ pc'[p] = IF todo'[p] = <<>> THEN "commit" ELSE "next"
      /\ at' \in [Procs -> Ids \cup Rels \cup {NoId}]
      /\ data' = [q \in Procs |-> data'[q]]
      /\ \A q \in Procs \ {p} : pc'[q] = pc[q] /\ at'[q] = at[q] /\ data'[q] = data[q]
  BY <1>1, TypeParts, Proceeded
<1>6. Alone(p)
  BY <1>1, <1>5 DEF Alone
<1>7. DataFits(p)'
  BY <1>5 DEF DataFits
<1>8. \A x \in Ids \cup Rels : owner'[x] # NoProc => pc'[owner'[x]] # "idle"
  BY <1>1, <1>5, TypeParts, HeldInSession
<1>9. Shape'
  BY <1>1, <1>4, <1>5, <1>6, <1>7, <1>8, TypeParts, ShapeKept
<1>10. draft'.edge[r] <=> /\ Vertex(p, draft.rel[r].src).there
                          /\ Vertex(p, draft.rel[r].dst).there
  BY <1>4, Zenon DEF met
<1> QED
  BY <1>1, <1>2, <1>4, <1>5, <1>6, <1>9, <1>10

LEMMA DeleteRelDoes ==
  ASSUME Shape, NEW p \in Procs, DeleteRel(p), sessions' \in 0..MaxSessions
  PROVE  /\ Shape' /\ Alone(p) /\ UNCHANGED <<db, evidence, uploaded, blobs, todo>>
         /\ at[p] \in Rels /\ pc[p] = "unlink" /\ Takes(p, at[p]) /\ OnlyRel(at[p])
         /\ draft'.rel[at[p]] = [draft.rel[at[p]] EXCEPT !.state = "deleted"]
         /\ draft'.rel[at[p]].state = "deleted"
         /\ draft'.rel[at[p]].src = draft.rel[at[p]].src
         /\ draft'.rel[at[p]].dst = draft.rel[at[p]].dst
         /\ pc'[p] = "delete_edge" /\ at'[p] = at[p]
<1> DEFINE r == at[p]
           row == [draft.rel[r] EXCEPT !.state = "deleted"]
<1>1. /\ pc[p] = "unlink"
      /\ UNCHANGED <<db, evidence, uploaded, blobs, mem, todo, ref>>
      /\ Lock(p, r) /\ Step(p, "delete_edge", r, <<>>)
  BY DEF DeleteRel
<1>2. draft' = [draft EXCEPT !.rel[r] = row]
  BY DEF DeleteRel
<1>3. r \in Rels
  BY <1>1 DEF Shape, DataFits
<1>4. /\ row \in RelRow /\ row.state = "deleted"
      /\ row.src = draft.rel[r].src /\ row.dst = draft.rel[r].dst
  <2>1. draft.rel[r] \in RelRow
    BY <1>3, TypeParts
  <2> QED
    BY <2>1 DEF RelRow, States
<1>5. /\ owner' \in [Ids \cup Rels -> Procs \cup {NoProc}]
      /\ Takes(p, r)
      /\ \A q \in Procs \ {p}, y \in Ids \cup Rels : owner'[y] = q <=> owner[y] = q
  BY <1>1, <1>3, Locked
<1>6. draft' \in Tables /\ draft'.rel[r] = row /\ OnlyRel(r)
  <2> HIDE DEF row
  <2> QED
    BY <1>2, <1>3, <1>4, TypeParts, RelWritten
<1>7. /\ pc' \in [Procs -> PCs] /\ pc'[p] = "delete_edge"
      /\ at' \in [Procs -> Ids \cup Rels \cup {NoId}] /\ at'[p] = r
      /\ data' = [q \in Procs |-> data'[q]]
      /\ \A q \in Procs \ {p} : pc'[q] = pc[q] /\ at'[q] = at[q] /\ data'[q] = data[q]
  BY <1>1, <1>3, Stepped DEF PCs
<1>8. Alone(p)
  BY <1>1, <1>5, <1>7 DEF Alone
<1>9. DataFits(p)'
  BY <1>3, <1>7 DEF DataFits
<1>10. \A x \in Ids \cup Rels : owner'[x] # NoProc => pc'[owner'[x]] # "idle"
  BY <1>3, <1>5, <1>7, HeldInSession DEF Takes
<1>11. Shape'
  BY <1>1, <1>5, <1>6, <1>7, <1>8, <1>9, <1>10, TypeParts, ShapeKept
<1> QED
  BY <1>1, <1>3, <1>4, <1>5, <1>6, <1>7, <1>8, <1>11

LEMMA DeleteEdgeDoes ==
  ASSUME Shape, NEW p \in Procs, DeleteEdge(p), sessions' \in 0..MaxSessions
  PROVE  /\ Shape' /\ Alone(p) /\ UNCHANGED <<db, owner, evidence, uploaded, blobs, todo>>
         /\ at[p] \in Rels /\ pc[p] = "delete_edge" /\ OnlyEdge(at[p])
         /\ ~draft'.edge[at[p]]
         /\ pc'[p] = IF todo[p] = <<>> THEN "commit" ELSE "next"
<1> DEFINE r == at[p]
<1>1. /\ pc[p] = "delete_edge"
      /\ UNCHANGED <<db, owner, evidence, uploaded, blobs, mem, todo, ref>>
      /\ draft' = [draft EXCEPT !.edge[r] = FALSE]
      /\ Proceed(p)
  BY DEF DeleteEdge
<1>2. r \in Rels
  BY <1>1 DEF Shape, DataFits
<1>3. draft' \in Tables /\ draft'.edge[r] = FALSE /\ OnlyEdge(r)
  BY <1>1, <1>2, TypeParts, EdgeWritten
<1>4. /\ pc' \in [Procs -> PCs] /\ pc'[p] = IF todo'[p] = <<>> THEN "commit" ELSE "next"
      /\ at' \in [Procs -> Ids \cup Rels \cup {NoId}]
      /\ data' = [q \in Procs |-> data'[q]]
      /\ \A q \in Procs \ {p} : pc'[q] = pc[q] /\ at'[q] = at[q] /\ data'[q] = data[q]
  BY <1>1, TypeParts, Proceeded
<1>5. Alone(p)
  BY <1>1, <1>4 DEF Alone
<1>6. DataFits(p)'
  BY <1>4 DEF DataFits
<1>7. \A x \in Ids \cup Rels : owner'[x] # NoProc => pc'[owner'[x]] # "idle"
  BY <1>1, <1>4, TypeParts, HeldInSession
<1>8. Shape'
  BY <1>1, <1>3, <1>4, <1>5, <1>6, <1>7, TypeParts, ShapeKept
<1> QED
  BY <1>1, <1>2, <1>3, <1>4, <1>5, <1>8

LEMMA CreateEvidenceDoes ==
  ASSUME Shape, NEW p \in Procs, CreateEvidence(p), sessions' \in 0..MaxSessions
  PROVE  /\ Shape' /\ Alone(p) /\ UNCHANGED <<db, draft, owner, evidence, todo>>
         /\ pc[p] = "upload"
         /\ uploaded'[p] = uploaded[p] \cup {data[p].blob}
         /\ blobs' = blobs \cup {data[p].blob}
         /\ pc'[p] = IF todo[p] = <<>> THEN "commit" ELSE "next"
<1> DEFINE b == data[p].blob
<1>1. /\ pc[p] = "upload" /\ UNCHANGED <<db, draft, owner, evidence, mem, todo, ref>>
      /\ uploaded' = [uploaded EXCEPT ![p] = uploaded[p] \cup {b}]
      /\ blobs' = blobs \cup {b}
      /\ Proceed(p)
  BY DEF CreateEvidence, PutBlob
<1>2. b \in Blobs
  BY <1>1 DEF Shape, DataFits
<1> HIDE DEF b
<1>3. /\ uploaded' \in [Procs -> SUBSET Blobs]
      /\ uploaded'[p] = uploaded[p] \cup {b}
      /\ \A q \in Procs \ {p} : uploaded'[q] = uploaded[q]
  BY <1>1, <1>2, TypeParts
<1>4. blobs' \subseteq Blobs
  BY <1>1, <1>2, TypeParts
<1>5. /\ pc' \in [Procs -> PCs] /\ pc'[p] = IF todo'[p] = <<>> THEN "commit" ELSE "next"
      /\ at' \in [Procs -> Ids \cup Rels \cup {NoId}]
      /\ data' = [q \in Procs |-> data'[q]]
      /\ \A q \in Procs \ {p} : pc'[q] = pc[q] /\ at'[q] = at[q] /\ data'[q] = data[q]
  BY <1>1, TypeParts, Proceeded
<1>6. Alone(p)
  BY <1>1, <1>3, <1>5 DEF Alone
<1>7. DataFits(p)'
  BY <1>5 DEF DataFits
<1>8. \A x \in Ids \cup Rels : owner'[x] # NoProc => pc'[owner'[x]] # "idle"
  BY <1>1, <1>5, TypeParts, HeldInSession
<1>9. Shape'
  BY <1>1, <1>3, <1>4, <1>5, <1>6, <1>7, <1>8, TypeParts, ShapeKept
<1> QED
  BY <1>1, <1>3, <1>5, <1>6, <1>9 DEF b

\* What p has locked is committed, and an edge goes with its ends.
Committed(p) ==
  /\ \A id \in Ids :
       /\ owner[id] = p => db'.entity[id] = draft.entity[id] /\ db'.vertex[id] = draft.vertex[id]
       /\ owner[id] # p => db'.entity[id] = db.entity[id] /\ db'.vertex[id] = db.vertex[id]
  /\ \A r \in Rels :
       /\ owner[r] = p => /\ db'.rel[r] = draft.rel[r]
                          /\ db'.edge[r] <=> draft.edge[r] /\ Keeps(p, r)
       /\ owner[r] # p => /\ db'.rel[r] = db.rel[r]
                          /\ db'.edge[r] <=> db.edge[r] /\ Keeps(p, r)
       /\ draft'.edge[r] <=> draft.edge[r] /\ Keeps(p, r)
  /\ draft'.entity = draft.entity /\ draft'.vertex = draft.vertex /\ draft'.rel = draft.rel

RolledBack(p) ==
  /\ db' = db
  /\ \A id \in Ids :
       /\ owner[id] = p => draft'.entity[id] = db.entity[id] /\ draft'.vertex[id] = db.vertex[id]
       /\ owner[id] # p => draft'.entity[id] = draft.entity[id]
                           /\ draft'.vertex[id] = draft.vertex[id]
  /\ \A r \in Rels :
       /\ owner[r] = p => draft'.rel[r] = db.rel[r] /\ draft'.edge[r] = db.edge[r]
       /\ owner[r] # p => draft'.rel[r] = draft.rel[r] /\ draft'.edge[r] = draft.edge[r]

\* p holds nothing any more.
Released(p) ==
  /\ \A x \in Ids \cup Rels : owner'[x] = IF owner[x] = p THEN NoProc ELSE owner[x]
  /\ uploaded'[p] = {} /\ pc'[p] = "idle" /\ todo'[p] = <<>>

LEMMA ReleasedTyped ==
  ASSUME Shape, NEW p \in Procs, EndSession(p),
         owner' = [x \in DOMAIN owner |-> IF owner[x] = p THEN NoProc ELSE owner[x]],
         uploaded' = [uploaded EXCEPT ![p] = {}],
         db' \in Tables, draft' \in Tables,
         evidence' \subseteq Blobs, blobs' = blobs, sessions' \in 0..MaxSessions
  PROVE  Shape' /\ Alone(p) /\ Released(p)
<1>1. /\ pc' \in [Procs -> PCs] /\ pc'[p] = "idle"
      /\ at' \in [Procs -> Ids \cup Rels \cup {NoId}]
      /\ data' = [q \in Procs |-> data'[q]]
      /\ mem' \in [Procs -> [Ids -> EntityRow]]
      /\ todo' \in [Procs -> Seq(Proposal)] /\ todo'[p] = <<>>
      /\ ref' \in [Procs -> [Labels \cup {"input"} -> Ids \cup {NoId}]]
      /\ \A q \in Procs \ {p} : /\ pc'[q] = pc[q] /\ at'[q] = at[q] /\ data'[q] = data[q]
                                /\ todo'[q] = todo[q]
  BY Ended
<1>2. /\ owner' \in [Ids \cup Rels -> Procs \cup {NoProc}]
      /\ \A x \in Ids \cup Rels : owner'[x] = IF owner[x] = p THEN NoProc ELSE owner[x]
  BY TypeParts
<1>3. /\ uploaded' \in [Procs -> SUBSET Blobs] /\ uploaded'[p] = {}
      /\ \A q \in Procs \ {p} : uploaded'[q] = uploaded[q]
  BY TypeParts
<1>4. Alone(p)
  BY <1>1, <1>2, <1>3, ConstantsOK DEF Alone
<1>5. \A x \in Ids \cup Rels : owner'[x] # NoProc => pc'[owner'[x]] # "idle"
  <2> SUFFICES ASSUME NEW x \in Ids \cup Rels, owner'[x] # NoProc
               PROVE  pc'[owner'[x]] # "idle"
    OBVIOUS
  <2>1. owner'[x] = owner[x] /\ owner[x] # p /\ owner[x] \in Procs
    BY <1>2, TypeParts
  <2>2. pc[owner[x]] # "idle"
    BY <2>1, ConstantsOK DEF Shape, TypeOK
  <2> QED
    BY <1>1, <2>1, <2>2
<1>6. DataFits(p)'
  BY <1>1 DEF DataFits
<1>7. Shape'
  BY <1>1, <1>2, <1>3, <1>4, <1>5, <1>6, TypeParts, ShapeKept
<1> QED
  BY <1>1, <1>2, <1>3, <1>4, <1>7 DEF Released

LEMMA CommitDoes ==
  ASSUME Shape, NEW p \in Procs, CommitWork(p), EndSession(p), sessions' \in 0..MaxSessions
  PROVE  /\ Shape' /\ Alone(p) /\ Released(p) /\ Committed(p)
         /\ evidence' = evidence \cup uploaded[p] /\ blobs' = blobs
<1> DEFINE Merge(old, new) == [x \in DOMAIN old |-> IF owner[x] = p THEN new[x] ELSE old[x]]
<1>1. /\ db' = [entity |-> Merge(db.entity, draft.entity),
                vertex |-> Merge(db.vertex, draft.vertex),
                rel    |-> Merge(db.rel, draft.rel),
                edge   |-> [r \in Rels |-> Merge(db.edge, draft.edge)[r] /\ Keeps(p, r)]]
      /\ draft' = [draft EXCEPT !.edge = [r \in Rels |-> draft.edge[r] /\ Keeps(p, r)]]
      /\ owner' = [x \in DOMAIN owner |-> IF owner[x] = p THEN NoProc ELSE owner[x]]
      /\ evidence' = evidence \cup uploaded[p]
      /\ uploaded' = [uploaded EXCEPT ![p] = {}]
      /\ blobs' = blobs
  BY DEF CommitWork
<1>2. /\ Merge(db.entity, draft.entity) \in [Ids -> EntityRow]
      /\ Merge(db.vertex, draft.vertex) \in [Ids -> VertexRow]
      /\ Merge(db.rel, draft.rel) \in [Rels -> RelRow]
      /\ [r \in Rels |-> Merge(db.edge, draft.edge)[r] /\ Keeps(p, r)] \in [Rels -> BOOLEAN]
      /\ [r \in Rels |-> draft.edge[r] /\ Keeps(p, r)] \in [Rels -> BOOLEAN]
  BY TypeParts
<1>3. db' \in Tables
  BY <1>1, <1>2 DEF Tables, EntityRow, VertexRow, RelRow
<1>4. /\ draft' \in Tables
      /\ draft'.entity = draft.entity /\ draft'.vertex = draft.vertex /\ draft'.rel = draft.rel
      /\ draft'.edge = [r \in Rels |-> draft.edge[r] /\ Keeps(p, r)]
  BY <1>1, <1>2, TypeParts DEF Tables
<1>5. evidence' \subseteq Blobs
  BY <1>1, TypeParts
<1>6. Shape' /\ Alone(p) /\ Released(p)
  BY <1>1, <1>3, <1>4, <1>5, ReleasedTyped
<1>7. Committed(p)
  <2>1. /\ db'.entity = Merge(db.entity, draft.entity)
        /\ db'.vertex = Merge(db.vertex, draft.vertex)
        /\ db'.rel = Merge(db.rel, draft.rel)
        /\ db'.edge = [r \in Rels |-> Merge(db.edge, draft.edge)[r] /\ Keeps(p, r)]
    BY <1>1
  <2>2. ASSUME NEW id \in Ids
        PROVE  /\ owner[id] = p => db'.entity[id] = draft.entity[id]
                                   /\ db'.vertex[id] = draft.vertex[id]
               /\ owner[id] # p => db'.entity[id] = db.entity[id]
                                   /\ db'.vertex[id] = db.vertex[id]
    BY <2>1, TypeParts
  <2>3. ASSUME NEW r \in Rels
        PROVE  /\ owner[r] = p => db'.rel[r] = draft.rel[r]
               /\ owner[r] # p => db'.rel[r] = db.rel[r]
    BY <2>1, TypeParts
  <2>4. ASSUME NEW r \in Rels
        PROVE  /\ owner[r] = p => (db'.edge[r] <=> draft.edge[r] /\ Keeps(p, r))
               /\ owner[r] # p => (db'.edge[r] <=> db.edge[r] /\ Keeps(p, r))
               /\ draft'.edge[r] <=> draft.edge[r] /\ Keeps(p, r)
    <3>1. r \in DOMAIN db.edge
      BY TypeParts
    <3>2. Merge(db.edge, draft.edge)[r] = IF owner[r] = p THEN draft.edge[r] ELSE db.edge[r]
      BY <3>1
    <3> QED
      BY <2>1, <3>2, <1>4
  <2> QED
    BY <2>2, <2>3, <2>4, <1>4 DEF Committed
<1> QED
  BY <1>1, <1>6, <1>7

LEMMA RollbackDoes ==
  ASSUME Shape, NEW p \in Procs, RollbackWork(p), EndSession(p), sessions' \in 0..MaxSessions
  PROVE  /\ Shape' /\ Alone(p) /\ Released(p) /\ RolledBack(p)
         /\ UNCHANGED <<evidence, blobs>>
<1> DEFINE Restore(old, new) == [x \in DOMAIN old |-> IF owner[x] = p THEN old[x] ELSE new[x]]
<1>1. /\ draft' = [entity |-> Restore(db.entity, draft.entity),
                   vertex |-> Restore(db.vertex, draft.vertex),
                   rel    |-> Restore(db.rel, draft.rel),
                   edge   |-> Restore(db.edge, draft.edge)]
      /\ owner' = [x \in DOMAIN owner |-> IF owner[x] = p THEN NoProc ELSE owner[x]]
      /\ uploaded' = [uploaded EXCEPT ![p] = {}]
      /\ UNCHANGED <<db, evidence, blobs>>
  BY DEF RollbackWork
<1>2. /\ Restore(db.entity, draft.entity) \in [Ids -> EntityRow]
      /\ Restore(db.vertex, draft.vertex) \in [Ids -> VertexRow]
      /\ Restore(db.rel, draft.rel) \in [Rels -> RelRow]
      /\ Restore(db.edge, draft.edge) \in [Rels -> BOOLEAN]
  BY TypeParts
<1>3. draft' \in Tables
  BY <1>1, <1>2 DEF Tables, EntityRow, VertexRow, RelRow
<1>4. Shape' /\ Alone(p) /\ Released(p)
  BY <1>1, <1>3, TypeParts, ReleasedTyped
<1>5. RolledBack(p)
  BY <1>1, TypeParts DEF RolledBack
<1> QED
  BY <1>1, <1>4, <1>5

\* What the process p reads next, and with what it goes on.
GoesOn(p) ==
  /\ pc'[p] \in {"update", "delete"} => Entity(p, at'[p]).state = "live"
  /\ pc'[p] = "link" => EndpointsLive(p, data'[p].src, data'[p].dst)
  /\ pc'[p] = "unlink" => Rel(p, at'[p]).state = "live"

LEMMA SeesEntity ==
  ASSUME Shape, NEW p \in Procs, NEW id \in Ids
  PROVE  Entity(p, id) \in EntityRow
  BY TypeParts DEF Entity

LEMMA ReadsTyped ==
  ASSUME Shape, NEW p \in Procs, UNCHANGED store, NEW label \in PCs \ {"idle"},
         NEW x \in Ids \cup Rels \cup {NoId}, NEW d, Step(p, label, x, d),
         mem' \in [Procs -> [Ids -> EntityRow]],
         todo' \in [Procs -> Seq(Proposal)],
         \A q \in Procs \ {p} : todo'[q] = todo[q],
         ref' \in [Procs -> [Labels \cup {"input"} -> Ids \cup {NoId}]],
         sessions' \in 0..MaxSessions,
         /\ label = "insert" => d \in [label: Labels, conf: Confs \cup {0}]
         /\ label = "update" => d \in [label: Labels \cup {NoLabel}, conf: Confs \cup {0}]
         /\ label = "link" => d \in [src: Ids, dst: Ids]
         /\ label = "upload" => d \in [blob: Blobs]
         /\ label \in {"update", "upsert_vertex", "delete", "delete_vertex"} => x \in Ids
         /\ label \in {"unlink", "upsert_edge", "delete_edge"} => x \in Rels
         /\ label = "next" => todo'[p] # <<>>
  PROVE  /\ Shape' /\ Alone(p)
         /\ pc'[p] = label /\ at'[p] = x /\ data'[p] = d
<1>1. /\ pc' \in [Procs -> PCs] /\ pc'[p] = label
      /\ at' \in [Procs -> Ids \cup Rels \cup {NoId}] /\ at'[p] = x
      /\ data' = [q \in Procs |-> data'[q]] /\ data'[p] = d
      /\ \A q \in Procs \ {p} : pc'[q] = pc[q] /\ at'[q] = at[q] /\ data'[q] = data[q]
  BY Stepped
<1>2. UNCHANGED <<db, draft, owner, evidence, uploaded, blobs>>
  BY DEF store
<1>3. Alone(p)
  BY <1>1, <1>2 DEF Alone
<1>4. DataFits(p)'
  BY <1>1 DEF DataFits
<1>5. \A y \in Ids \cup Rels : owner'[y] # NoProc => pc'[owner'[y]] # "idle"
  BY <1>1, <1>2, TypeParts, HeldInSession
<1>6. Shape'
  BY <1>1, <1>2, <1>3, <1>4, <1>5, TypeParts, ShapeKept
<1> QED
  BY <1>1, <1>3, <1>6

LEMMA BeginTyped ==
  ASSUME Shape, NEW q \in Procs, NEW label \in PCs \ {"idle", "next"},
         NEW x \in Ids \cup Rels \cup {NoId}, NEW d, Begin(q, label, x, d),
         mem' \in [Procs -> [Ids -> EntityRow]],
         /\ label = "insert" => d \in [label: Labels, conf: Confs \cup {0}]
         /\ label = "update" => d \in [label: Labels \cup {NoLabel}, conf: Confs \cup {0}]
         /\ label = "link" => d \in [src: Ids, dst: Ids]
         /\ label = "upload" => d \in [blob: Blobs]
         /\ label \in {"update", "upsert_vertex", "delete", "delete_vertex"} => x \in Ids
         /\ label \in {"unlink", "upsert_edge", "delete_edge"} => x \in Rels
  PROVE  /\ Shape' /\ Alone(q) /\ UNCHANGED store /\ UNCHANGED todo /\ pc[q] = "idle"
         /\ pc'[q] = label /\ at'[q] = x /\ data'[q] = d
<1>1. /\ pc[q] = "idle" /\ sessions < MaxSessions /\ sessions' = sessions + 1
      /\ Step(q, label, x, d) /\ UNCHANGED store /\ UNCHANGED todo /\ UNCHANGED ref
  BY DEF Begin, Open
<1>2. sessions' \in 0..MaxSessions
  BY <1>1, ConstantsOK, TypeParts
<1>3. /\ todo' \in [Procs -> Seq(Proposal)]
      /\ ref' \in [Procs -> [Labels \cup {"input"} -> Ids \cup {NoId}]]
      /\ \A p \in Procs \ {q} : todo'[p] = todo[p]
  BY <1>1, TypeParts
<1>4. label \in PCs \ {"idle"} /\ label # "next"
  OBVIOUS
<1>5. Shape' /\ Alone(q) /\ pc'[q] = label /\ at'[q] = x /\ data'[q] = d
  BY <1>1, <1>2, <1>3, <1>4, ReadsTyped
<1> QED
  BY <1>1, <1>5

LEMMA RequestDoes ==
  ASSUME Shape, NEW q \in Requests, RequestStep(q)
  PROVE  /\ Shape' /\ Alone(q) /\ UNCHANGED store /\ UNCHANGED todo /\ GoesOn(q)
         /\ pc[q] = "idle"
         /\ pc'[q] \in {"insert", "update", "delete", "link", "unlink", "upload"}
<1> q \in Procs
  BY DEF Procs
<1>1. {"insert", "update", "delete", "link", "unlink", "upload"} \subseteq PCs \ {"idle", "next"}
  BY DEF PCs
<1>2. CASE RequestCreate(q)
  <2>1. PICK l \in Labels, c \in Confs : Begin(q, "insert", NoId, [label |-> l, conf |-> c])
    BY <1>2 DEF RequestCreate
  <2>2. mem' \in [Procs -> [Ids -> EntityRow]]
    BY <1>2, TypeParts DEF RequestCreate
  <2> QED
    BY <1>1, <2>1, <2>2, BeginTyped DEF GoesOn
<1>3. CASE RequestUpdate(q)
  <2>1. PICK id \in Ids, l \in Labels \cup {NoLabel}, c \in Confs \cup {0} :
          Load(q, id) /\ Begin(q, "update", id, [label |-> l, conf |-> c])
    BY <1>3 DEF RequestUpdate
  <2>2. mem' \in [Procs -> [Ids -> EntityRow]] /\ Entity(q, id).state = "live"
    BY <2>1, SeesEntity, TypeParts DEF Load
  <2>3. /\ Shape' /\ Alone(q) /\ UNCHANGED store /\ UNCHANGED todo /\ pc[q] = "idle"
        /\ pc'[q] = "update" /\ at'[q] = id
    BY <1>1, <2>1, <2>2, BeginTyped
  <2> QED
    BY <2>2, <2>3 DEF GoesOn
<1>4. CASE RequestDelete(q)
  <2>1. PICK id \in Ids : Load(q, id) /\ Begin(q, "delete", id, <<>>)
    BY <1>4 DEF RequestDelete
  <2>2. mem' \in [Procs -> [Ids -> EntityRow]] /\ Entity(q, id).state = "live"
    BY <2>1, SeesEntity, TypeParts DEF Load
  <2>3. /\ Shape' /\ Alone(q) /\ UNCHANGED store /\ UNCHANGED todo /\ pc[q] = "idle"
        /\ pc'[q] = "delete" /\ at'[q] = id
    BY <1>1, <2>1, <2>2, BeginTyped
  <2> QED
    BY <2>2, <2>3 DEF GoesOn
<1>5. CASE RequestLink(q)
  <2>1. PICK src \in Ids, dst \in Ids :
          EndpointsLive(q, src, dst) /\ Begin(q, "link", NoId, [src |-> src, dst |-> dst])
    BY <1>5 DEF RequestLink
  <2>2. mem' \in [Procs -> [Ids -> EntityRow]]
    BY <1>5, TypeParts DEF RequestLink
  <2>3. /\ Shape' /\ Alone(q) /\ UNCHANGED store /\ UNCHANGED todo /\ pc[q] = "idle"
        /\ pc'[q] = "link" /\ data'[q] = [src |-> src, dst |-> dst]
    BY <1>1, <2>1, <2>2, BeginTyped
  <2> QED
    BY <2>1, <2>3 DEF GoesOn
<1>6. CASE RequestUnlink(q)
  <2>1. PICK r \in Rels : Rel(q, r).state = "live" /\ Begin(q, "unlink", r, <<>>)
    BY <1>6 DEF RequestUnlink
  <2>2. mem' \in [Procs -> [Ids -> EntityRow]]
    BY <1>6, TypeParts DEF RequestUnlink
  <2>3. /\ Shape' /\ Alone(q) /\ UNCHANGED store /\ UNCHANGED todo /\ pc[q] = "idle"
        /\ pc'[q] = "unlink" /\ at'[q] = r
    BY <1>1, <2>1, <2>2, BeginTyped
  <2> QED
    BY <2>1, <2>3 DEF GoesOn
<1>7. CASE RequestUpload(q)
  <2>1. PICK b \in Blobs : Begin(q, "upload", NoId, [blob |-> b])
    BY <1>7 DEF RequestUpload
  <2>2. mem' \in [Procs -> [Ids -> EntityRow]]
    BY <1>7, TypeParts DEF RequestUpload
  <2> QED
    BY <1>1, <2>1, <2>2, BeginTyped DEF GoesOn
<1> QED
  BY <1>2, <1>3, <1>4, <1>5, <1>6, <1>7 DEF RequestStep

LEMMA StartRunDoes ==
  ASSUME Shape, NEW g \in Runners, StartRun(g)
  PROVE  /\ Shape' /\ Alone(g) /\ UNCHANGED store
         /\ pc[g] = "idle" /\ pc'[g] = IF todo'[g] = <<>> THEN "commit" ELSE "next"
<1> g \in Procs
  BY DEF Procs
<1>1. PICK id \in Ids, result \in Results :
        /\ mem' = [mem EXCEPT ![g][id] = Entity(g, id)]
        /\ ref' = [ref EXCEPT ![g]["input"] = id]
        /\ todo' = [todo EXCEPT ![g] = result]
  BY DEF StartRun
<1>2. /\ pc[g] = "idle" /\ sessions < MaxSessions /\ sessions' = sessions + 1
      /\ Proceed(g) /\ UNCHANGED store
  BY DEF StartRun, Open
<1>3. sessions' \in 0..MaxSessions
  BY <1>2, ConstantsOK, TypeParts
<1>4. mem' \in [Procs -> [Ids -> EntityRow]]
  BY <1>1, SeesEntity, TypeParts
<1>5. ref' \in [Procs -> [Labels \cup {"input"} -> Ids \cup {NoId}]]
  BY <1>1, TypeParts
<1>6. todo' \in [Procs -> Seq(Proposal)] /\ \A q \in Procs \ {g} : todo'[q] = todo[q]
  BY <1>1, ResultsOK, TypeParts
<1> DEFINE label == IF todo'[g] = <<>> THEN "commit" ELSE "next"
<1>7. Step(g, label, NoId, <<>>)
  BY <1>2 DEF Proceed
<1>8. label \in PCs \ {"idle"} /\ label \in {"commit", "next"} /\ (label = "next" => todo'[g] # <<>>)
  BY DEF PCs
<1>9. label = IF todo'[g] = <<>> THEN "commit" ELSE "next"
  OBVIOUS
<1> HIDE DEF label
<1>10. Shape' /\ Alone(g) /\ pc'[g] = label
  BY <1>2, <1>3, <1>4, <1>5, <1>6, <1>7, <1>8, ReadsTyped
<1> QED
  BY <1>2, <1>9, <1>10

\* A proposal that the run takes from its list is of the kind it proposes.
LEMMA ProposalTyped ==
  ASSUME Shape, NEW g \in Procs, pc[g] = "next"
  PROVE  /\ Head(todo[g]).kind = "entity" =>
              Head(todo[g]).label \in Labels /\ Head(todo[g]).conf \in Confs \cup {0}
         /\ Head(todo[g]).kind = "relationship" =>
              /\ Head(todo[g]).src \in Labels \cup {"input"}
              /\ Head(todo[g]).dst \in Labels \cup {"input"}
         /\ Head(todo[g]).kind = "evidence" => Head(todo[g]).blob \in Blobs
         /\ Take(g) => /\ todo' \in [Procs -> Seq(Proposal)]
                       /\ \A q \in Procs \ {g} : todo'[q] = todo[q]
<1>1. todo \in [Procs -> Seq(Proposal)] /\ todo[g] # <<>>
  BY DEF Shape, DataFits
<1>2. todo[g] \in Seq(Proposal)
  BY <1>1
<1>3. Head(todo[g]) \in Proposal /\ Tail(todo[g]) \in Seq(Proposal)
  BY <1>1, <1>2
<1>4. Head(todo[g]).kind = "entity" =>
        Head(todo[g]).label \in Labels /\ Head(todo[g]).conf \in Confs \cup {0}
  BY <1>3 DEF Proposal
<1>5. Head(todo[g]).kind = "relationship" =>
        Head(todo[g]).src \in Labels \cup {"input"} /\ Head(todo[g]).dst \in Labels \cup {"input"}
  BY <1>3 DEF Proposal
<1>6. Head(todo[g]).kind = "evidence" => Head(todo[g]).blob \in Blobs
  BY <1>3 DEF Proposal
<1>7. Take(g) => /\ todo' \in [Procs -> Seq(Proposal)]
                 /\ \A q \in Procs \ {g} : todo'[q] = todo[q]
  BY <1>1, <1>3 DEF Take
<1> QED
  BY <1>4, <1>5, <1>6, <1>7

\* What a step of a run leads to when it raises nothing.
Reads(g) ==
  /\ Shape' /\ Alone(g) /\ UNCHANGED store /\ GoesOn(g)
  /\ pc'[g] \in {"next", "commit", "insert", "update", "link", "upload"}
  /\ pc'[g] = "commit" => todo'[g] = <<>>

LEMMA TakenTyped ==
  ASSUME Shape, NEW g \in Procs, pc[g] = "next", Take(g), UNCHANGED store,
         NEW label \in {"insert", "update", "link", "upload"},
         NEW x \in Ids \cup Rels \cup {NoId}, NEW d, Step(g, label, x, d),
         mem' \in [Procs -> [Ids -> EntityRow]],
         ref' \in [Procs -> [Labels \cup {"input"} -> Ids \cup {NoId}]],
         sessions' \in 0..MaxSessions,
         /\ label = "insert" => d \in [label: Labels, conf: Confs \cup {0}]
         /\ label = "update" =>
              /\ d \in [label: Labels \cup {NoLabel}, conf: Confs \cup {0}]
              /\ x \in Ids /\ Entity(g, x).state = "live"
         /\ label = "link" => d \in [src: Ids, dst: Ids] /\ EndpointsLive(g, d.src, d.dst)
         /\ label = "upload" => d \in [blob: Blobs]
  PROVE  Reads(g)
<1>1. label \in PCs \ {"idle"} /\ label \notin {"upsert_vertex", "delete", "delete_vertex",
                                                "unlink", "upsert_edge", "delete_edge", "next"}
  BY DEF PCs
<1>2. /\ todo' \in [Procs -> Seq(Proposal)]
      /\ \A q \in Procs \ {g} : todo'[q] = todo[q]
  BY ProposalTyped
<1>3. Shape' /\ Alone(g) /\ pc'[g] = label /\ at'[g] = x /\ data'[g] = d
  BY <1>1, <1>2, ReadsTyped
<1> QED
  BY <1>3 DEF Reads, GoesOn

LEMMA SkippedTyped ==
  ASSUME Shape, NEW g \in Procs, pc[g] = "next", Take(g), UNCHANGED store, Proceed(g),
         mem' \in [Procs -> [Ids -> EntityRow]],
         ref' \in [Procs -> [Labels \cup {"input"} -> Ids \cup {NoId}]],
         sessions' \in 0..MaxSessions
  PROVE  Reads(g)
<1> DEFINE label == IF todo'[g] = <<>> THEN "commit" ELSE "next"
<1>1. Step(g, label, NoId, <<>>)
  BY DEF Proceed
<1>2. /\ label \in PCs \ {"idle"} /\ label \in {"commit", "next"}
      /\ (label = "next" => todo'[g] # <<>>) /\ (label = "commit" => todo'[g] = <<>>)
  BY DEF PCs
<1> HIDE DEF label
<1>3. /\ todo' \in [Procs -> Seq(Proposal)]
      /\ \A q \in Procs \ {g} : todo'[q] = todo[q]
  BY ProposalTyped
<1>4. Shape' /\ Alone(g) /\ pc'[g] = label
  BY <1>1, <1>2, <1>3, ReadsTyped
<1> QED
  BY <1>2, <1>4 DEF Reads, GoesOn

LEMMA RunDoes ==
  ASSUME Shape, NEW g \in Runners, RunStep(g), UNCHANGED sessions
  PROVE  /\ pc[g] = "next"
         /\ Reads(g) \/ (CommitWork(g) /\ EndSession(g))
<1> g \in Procs
  BY DEF Procs
<1>1. pc[g] = "next" /\ sessions' \in 0..MaxSessions
  BY TypeParts DEF RunStep, GetOrCreate, CreateIfNotExists, ProposeEvidence, Proposes
<1>2. CASE GetOrCreate(g)
  <2> DEFINE new == Head(todo[g])
  <2>1. new.label \in Labels /\ new.conf \in Confs \cup {0} /\ NoLabel \in Labels \cup {NoLabel}
    BY <1>1, <1>2, ProposalTyped DEF GetOrCreate, Proposes
  <2>2. \/ Raise(g)
        \/ \E id \in Found(g, new.label) :
             LET row == IF mem[g][id].state = "absent" THEN Entity(g, id) ELSE mem[g][id]
             IN  /\ Take(g)
                 /\ mem' = [mem EXCEPT ![g][id] = row]
                 /\ ref' = [ref EXCEPT ![g][new.label] = id]
                 /\ IF new.conf > row.conf
                    THEN Step(g, "update", id, [label |-> NoLabel, conf |-> new.conf])
                    ELSE Proceed(g)
                 /\ UNCHANGED store
        \/ /\ Take(g)
           /\ Step(g, "insert", NoId, [label |-> new.label, conf |-> new.conf])
           /\ UNCHANGED store /\ UNCHANGED mem /\ UNCHANGED ref
    BY <1>2 DEF GetOrCreate
  <2> HIDE DEF new
  <2>3. ASSUME NEW id \in Found(g, new.label),
               LET row == IF mem[g][id].state = "absent" THEN Entity(g, id) ELSE mem[g][id]
               IN  /\ Take(g)
                   /\ mem' = [mem EXCEPT ![g][id] = row]
                   /\ ref' = [ref EXCEPT ![g][new.label] = id]
                   /\ IF new.conf > row.conf
                      THEN Step(g, "update", id, [label |-> NoLabel, conf |-> new.conf])
                      ELSE Proceed(g)
                   /\ UNCHANGED store
        PROVE  Reads(g)
    <3> DEFINE row == IF mem[g][id].state = "absent" THEN Entity(g, id) ELSE mem[g][id]
    <3>1. id \in Ids /\ Entity(g, id).state = "live"
      BY DEF Found
    <3>2. row \in EntityRow
      BY <3>1, SeesEntity, TypeParts
    <3>3. mem' = [mem EXCEPT ![g][id] = row]
      BY <2>3
    <3> HIDE DEF row
    <3>4. mem' \in [Procs -> [Ids -> EntityRow]]
      BY <3>1, <3>2, <3>3, TypeParts
    <3>5. ref' \in [Procs -> [Labels \cup {"input"} -> Ids \cup {NoId}]]
      BY <2>1, <2>3, <3>1, TypeParts
    <3>6. CASE Step(g, "update", id, [label |-> NoLabel, conf |-> new.conf])
      <4>1. [label |-> NoLabel, conf |-> new.conf] \in [label: Labels \cup {NoLabel}, conf: Confs \cup {0}]
        BY <2>1
      <4> QED
        BY <1>1, <2>3, <3>1, <3>4, <3>5, <3>6, <4>1, TakenTyped
    <3>7. CASE Proceed(g)
      BY <1>1, <2>3, <3>4, <3>5, <3>7, SkippedTyped
    <3> QED
      BY <2>3, <3>6, <3>7
  <2>4. ASSUME Take(g), Step(g, "insert", NoId, [label |-> new.label, conf |-> new.conf]),
               UNCHANGED store, UNCHANGED mem, UNCHANGED ref
        PROVE  Reads(g)
    <3>1. [label |-> new.label, conf |-> new.conf] \in [label: Labels, conf: Confs \cup {0}]
      BY <2>1
    <3>2. /\ mem' \in [Procs -> [Ids -> EntityRow]]
          /\ ref' \in [Procs -> [Labels \cup {"input"} -> Ids \cup {NoId}]]
      BY <2>4, TypeParts
    <3> QED
      BY <1>1, <2>4, <3>1, <3>2, TakenTyped
  <2> QED
    BY <1>1, <2>2, <2>3, <2>4 DEF Raise
<1>3. CASE CreateIfNotExists(g)
  <2> DEFINE src == ref[g][Head(todo[g]).src]
             dst == ref[g][Head(todo[g]).dst]
  <2>1. src \in Ids \cup {NoId} /\ dst \in Ids \cup {NoId}
    <3>1. ref[g] \in [Labels \cup {"input"} -> Ids \cup {NoId}]
      BY TypeParts
    <3>2. Head(todo[g]).src \in Labels \cup {"input"} /\ Head(todo[g]).dst \in Labels \cup {"input"}
      BY <1>1, <1>3, ProposalTyped DEF CreateIfNotExists, Proposes
    <3> QED
      BY <3>1, <3>2
  <2>2. \/ Raise(g)
        \/ /\ Take(g) /\ Proceed(g)
           /\ UNCHANGED store /\ UNCHANGED mem /\ UNCHANGED ref
        \/ /\ src # NoId /\ dst # NoId /\ EndpointsLive(g, src, dst)
           /\ Take(g)
           /\ Step(g, "link", NoId, [src |-> src, dst |-> dst])
           /\ UNCHANGED store /\ UNCHANGED mem /\ UNCHANGED ref
    BY <1>3 DEF CreateIfNotExists
  <2> HIDE DEF src, dst
  <2>3. CASE UNCHANGED mem /\ UNCHANGED ref /\ UNCHANGED store /\ Take(g)
    <3>1. /\ mem' \in [Procs -> [Ids -> EntityRow]]
          /\ ref' \in [Procs -> [Labels \cup {"input"} -> Ids \cup {NoId}]]
      BY <2>3, TypeParts
    <3>2. CASE Proceed(g)
      BY <1>1, <2>3, <3>1, <3>2, SkippedTyped
    <3>3. CASE /\ src # NoId /\ dst # NoId /\ EndpointsLive(g, src, dst)
               /\ Step(g, "link", NoId, [src |-> src, dst |-> dst])
      <4>1. [src |-> src, dst |-> dst] \in [src: Ids, dst: Ids]
        BY <2>1, <3>3
      <4> QED
        BY <1>1, <2>3, <3>1, <3>3, <4>1, TakenTyped
    <3> QED
      BY <1>1, <2>2, <2>3, <3>2, <3>3 DEF Raise
  <2> QED
    BY <1>1, <2>2, <2>3 DEF Raise
<1>4. CASE ProposeEvidence(g)
  <2>1. Head(todo[g]).blob \in Blobs
    BY <1>1, <1>4, ProposalTyped DEF ProposeEvidence, Proposes
  <2>2. /\ Take(g) /\ Step(g, "upload", NoId, [blob |-> Head(todo[g]).blob])
        /\ UNCHANGED store /\ UNCHANGED mem /\ UNCHANGED ref
    BY <1>4 DEF ProposeEvidence
  <2>3. /\ mem' \in [Procs -> [Ids -> EntityRow]]
        /\ ref' \in [Procs -> [Labels \cup {"input"} -> Ids \cup {NoId}]]
    BY <2>2, TypeParts
  <2>4. [blob |-> Head(todo[g]).blob] \in [blob: Blobs]
    BY <2>1
  <2>5. Reads(g)
    BY <1>1, <2>2, <2>3, <2>4, TakenTyped
  <2> QED
    BY <1>1, <2>5
<1> QED
  BY <1>2, <1>3, <1>4 DEF RunStep

\* The steps that read, whoever takes them.
Reading(p) ==
  /\ Shape' /\ Alone(p) /\ UNCHANGED store /\ GoesOn(p)
  /\ pc[p] \in {"idle", "next"}
  /\ pc'[p] \in {"next", "commit", "insert", "update", "delete", "link", "unlink", "upload"}
  /\ pc'[p] \in {"delete", "unlink"} => pc[p] = "idle" /\ todo'[p] = todo[p]
  /\ pc'[p] = "commit" => todo'[p] = <<>>

\* The end of a session, in one of two ways.
Commits(p) ==
  /\ pc[p] \in {"commit", "next"}
  /\ Shape' /\ Alone(p) /\ Released(p) /\ Committed(p)
  /\ evidence' = evidence \cup uploaded[p] /\ blobs' = blobs

RollsBack(p) ==
  Shape' /\ Alone(p) /\ Released(p) /\ RolledBack(p) /\ evidence' = evidence /\ blobs' = blobs

StepOf(p) ==
  \/ Reading(p) \/ Commits(p) \/ RollsBack(p)
  \/ InsertEntity(p) \/ UpdateEntity(p) \/ UpsertVertex(p) \/ DeleteEntity(p)
  \/ DeleteVertex(p) \/ InsertRel(p) \/ UpsertEdge(p) \/ DeleteRel(p)
  \/ DeleteEdge(p) \/ CreateEvidence(p)

LEMMA StepCases ==
  ASSUME Shape, Next
  PROVE  sessions' \in 0..MaxSessions /\ \E p \in Procs : StepOf(p)
<1>1. ASSUME NEW q \in Requests, RequestStep(q)
      PROVE  sessions' \in 0..MaxSessions /\ \E p \in Procs : StepOf(p)
  <2>1. Reading(q)
    BY <1>1, RequestDoes DEF Reading
  <2>2. sessions' \in 0..MaxSessions /\ q \in Procs
    BY <1>1, RequestDoes, TypeParts DEF Procs, Shape, TypeOK
  <2> QED
    BY <2>1, <2>2 DEF StepOf
<1>2. ASSUME NEW g \in Runners, StartRun(g)
      PROVE  sessions' \in 0..MaxSessions /\ \E p \in Procs : StepOf(p)
  <2>1. Reading(g)
    BY <1>2, StartRunDoes DEF Reading, GoesOn
  <2>2. sessions' \in 0..MaxSessions /\ g \in Procs
    BY <1>2, StartRunDoes DEF Procs, Shape, TypeOK
  <2> QED
    BY <2>1, <2>2 DEF StepOf
<1>3. UNCHANGED sessions => sessions' \in 0..MaxSessions
  BY TypeParts
<1>4. ASSUME NEW g \in Runners, RunStep(g), UNCHANGED sessions
      PROVE  sessions' \in 0..MaxSessions /\ \E p \in Procs : StepOf(p)
  <2> g \in Procs
    BY DEF Procs
  <2>1. CASE Reads(g)
    <3>1. Reading(g)
      BY <1>4, <2>1, RunDoes DEF Reads, Reading
    <3> QED
      BY <1>3, <1>4, <3>1 DEF StepOf
  <2>2. CASE CommitWork(g) /\ EndSession(g)
    <3>1. Commits(g)
      BY <1>3, <1>4, <2>2, RunDoes, CommitDoes DEF Commits
    <3> QED
      BY <1>3, <1>4, <3>1 DEF StepOf
  <2> QED
    BY <1>4, <2>1, <2>2, RunDoes
<1>5. ASSUME NEW p \in Procs, RepositoryStep(p), UNCHANGED sessions
      PROVE  sessions' \in 0..MaxSessions /\ \E q \in Procs : StepOf(q)
  <2>1. CASE Commit(p)
    <3>1. Commits(p)
      BY <1>3, <1>5, <2>1, CommitDoes DEF Commit, Commits
    <3> QED
      BY <1>3, <1>5, <3>1 DEF StepOf
  <2>2. CASE ~Commit(p)
    BY <1>3, <1>5, <2>2 DEF RepositoryStep, StepOf
  <2> QED
    BY <2>1, <2>2
<1>6. ASSUME NEW p \in Procs, Undo(p) \/ Abort(p), UNCHANGED sessions
      PROVE  sessions' \in 0..MaxSessions /\ \E q \in Procs : StepOf(q)
  <2>1. RollsBack(p)
    BY <1>3, <1>6, RollbackDoes DEF Undo, Abort, RollsBack
  <2> QED
    BY <1>3, <1>6, <2>1 DEF StepOf
<1> QED
  BY <1>1, <1>2, <1>4, <1>5, <1>6 DEF Next

\* A step keeps the types: the lemmas above say so of each kind of step.
LEMMA ShapeStep ==
  ASSUME Shape, [Next]_vars
  PROVE  Shape'
<1>1. CASE Next
  <2>1. PICK p \in Procs : StepOf(p)
    BY <1>1, StepCases
  <2>2. sessions' \in 0..MaxSessions
    BY <1>1, StepCases
  <2> QED
    BY <2>1, <2>2, InsertEntityDoes, UpdateEntityDoes, UpsertVertexDoes, DeleteEntityDoes,
       DeleteVertexDoes, InsertRelDoes, UpsertEdgeDoes, DeleteRelDoes, DeleteEdgeDoes,
       CreateEvidenceDoes
    DEF StepOf, Reading, Commits, RollsBack
<1>2. CASE UNCHANGED vars
  <2>1. UNCHANGED <<db, draft, owner, evidence, uploaded, blobs, pc, at, data, mem, todo, ref,
                    sessions>>
    BY <1>2 DEF vars, store
  <2> QED
    BY <2>1 DEF Shape, TypeOK, DataFits
<1> QED
  BY <1>1, <1>2

LEMMA ShapeInit ==
  ASSUME Init
  PROVE  Shape
<1>1. Empty \in Tables
  BY DEF Empty, Tables, NoRow, NoVertex, NoRel, States
<1>2. mem \in [Procs -> [Ids -> EntityRow]]
  BY DEF Init, NoRow, EntityRow, States
<1>3. todo \in [Procs -> Seq(Proposal)] /\ data = [p \in Procs |-> data[p]]
  BY DEF Init
<1>4. TypeOK
  BY <1>1, ConstantsOK DEF Init, TypeOK
<1>5. \A p \in Procs : DataFits(p)
  BY DEF Init, DataFits
<1> QED
  BY <1>2, <1>3, <1>4, <1>5 DEF Shape

(***************************************************************************)
(* Every variable keeps its type, and whoever holds a row has a session    *)
(* that will end: no lock outlives its transaction.                        *)
(***************************************************************************)
THEOREM TypesKept == Spec => []TypeOK
<1>1. Init => Shape
  BY ShapeInit
<1>2. Shape /\ [Next]_vars => Shape'
  BY ShapeStep
<1>3. Shape => TypeOK
  BY DEF Shape
<1> QED
  BY <1>1, <1>2, <1>3, PTL DEF Spec
=============================================================================
