------------------------------ MODULE CaseGraph ------------------------------
(***************************************************************************)
(* What one case holds: entities and relationships with their Apache AGE   *)
(* mirror (entities/, relationships/, graph/age.py), and the evidence rows *)
(* with their blobs (evidence/).  It is written by HTTP requests, one      *)
(* operation and one transaction each, and by plugin runs, whose results   *)
(* go through the same repositories in a single transaction                *)
(* (PluginRunner._persist).                                                *)
(*                                                                         *)
(* A step is one SQL or Cypher statement, one upload, or one commit, and   *)
(* transactions interleave as PostgreSQL's READ COMMITTED lets them: a     *)
(* statement sees what was committed before it and what its own            *)
(* transaction wrote, and a row is locked from its first write to the end  *)
(* of the transaction that wrote it.                                       *)
(***************************************************************************)
EXTENDS Naturals, Sequences, FiniteSets

CONSTANTS
  Requests,  \* HTTP request handlers, each serving one request after another
  Runners,   \* processes that persist plugin runs, one run after another
  NoProc,    \* the owner of a row that is not locked
  Ids,       \* ids an entity can get
  Rels,      \* ids a relationship can get
  NoId,
  Labels,    \* the (type, label) pairs of entities
  NoLabel,   \* no label, or a label that an update leaves alone
  Confs,     \* confidence values; 0 stands for none
  Blobs,     \* evidence payloads; a blob's key is their hash
  Results,   \* what the plugins may return: a set of sequences of proposals
  MaxSessions, \* bound: how many requests and runs there are in all
  Faults     \* "db": a statement may fail; "mirror": a mirror write, an upload
             \* or a commit may fail

Procs == Requests \cup Runners

ASSUME ConstantsOK ==
  /\ Requests \cap Runners = {} /\ NoProc \notin Procs
  /\ Ids \cap Rels = {} /\ NoId \notin Ids \cup Rels
  /\ NoLabel \notin Labels
  /\ Confs \subseteq Nat \ {0}
  /\ MaxSessions \in Nat
  /\ Faults \subseteq {"db", "mirror"}

\* plugins/base.py: a ref is the proposed label, or the input entity.
Proposal ==
       [kind: {"entity"}, label: Labels, conf: Confs \cup {0}]
  \cup [kind: {"relationship"}, src: Labels \cup {"input"}, dst: Labels \cup {"input"}]
  \cup [kind: {"evidence"}, blob: Blobs]

ASSUME ResultsOK == Results \subseteq Seq(Proposal)

VARIABLES
  db,        \* the committed tables and graph
  draft,     \* the version of a row or a mirror that its owner has written;
             \* what db holds when it has no owner
  owner,     \* the transaction that holds the lock
  evidence,  \* the payloads of the committed evidence rows
  uploaded,  \* the payloads of the evidence rows a transaction has flushed
  blobs,     \* the payloads in the object store
  pc,        \* the repository step each process is about to take
  at,        \* the row it takes it on
  data,      \* what it is to write there
  mem,       \* its session's identity map: entities as it first loaded them
  todo,      \* the proposals a run has still to persist
  ref,       \* a run's input entity and its ref_to_entity
  sessions   \* how many requests and runs have begun

store == <<db, draft, owner, evidence, uploaded, blobs>>
vars == <<store, pc, at, data, mem, todo, ref, sessions>>

-----------------------------------------------------------------------------
(* Rows and transactions                                                    *)

States == {"absent", "live", "deleted"}
NoRow == [state |-> "absent", label |-> NoLabel, conf |-> 0]
NoVertex == [there |-> FALSE, label |-> NoLabel, conf |-> 0]
NoRel == [state |-> "absent", src |-> NoId, dst |-> NoId]

Tables == [entity: [Ids -> [state: States, label: Labels \cup {NoLabel}, conf: Confs \cup {0}]],
           vertex: [Ids -> [there: BOOLEAN, label: Labels \cup {NoLabel}, conf: Confs \cup {0}]],
           rel:    [Rels -> [state: States, src: Ids \cup {NoId}, dst: Ids \cup {NoId}]],
           edge:   [Rels -> BOOLEAN]]

Empty == [entity |-> [id \in Ids |-> NoRow], vertex |-> [id \in Ids |-> NoVertex],
          rel |-> [r \in Rels |-> NoRel], edge |-> [r \in Rels |-> FALSE]]

Free(p, x) == owner[x] \in {NoProc, p}
Lock(p, x) == Free(p, x) /\ owner' = [owner EXCEPT ![x] = p]

\* What a SELECT or a MATCH of p sees of an entity, a vertex, a relationship.
Entity(p, id) == IF owner[id] = p THEN draft.entity[id] ELSE db.entity[id]
Vertex(p, id) == IF owner[id] = p THEN draft.vertex[id] ELSE db.vertex[id]
Rel(p, r) == IF owner[r] = p THEN draft.rel[r] ELSE db.rel[r]

\* An edge exists as long as both of its vertices do: DETACH DELETE removes
\* those it sees, and no MATCH finds one that has lost an end.
Detached(p) == {id \in Ids : /\ owner[id] = p
                             /\ db.vertex[id].there /\ ~draft.vertex[id].there}
Keeps(p, r) == draft.rel[r].src \notin Detached(p) /\ draft.rel[r].dst \notin Detached(p)

CommitWork(p) ==
  LET Merge(old, new) == [x \in DOMAIN old |-> IF owner[x] = p THEN new[x] ELSE old[x]]
  IN  /\ db' = [entity |-> Merge(db.entity, draft.entity),
                vertex |-> Merge(db.vertex, draft.vertex),
                rel    |-> Merge(db.rel, draft.rel),
                edge   |-> [r \in Rels |-> /\ Merge(db.edge, draft.edge)[r]
                                           /\ Keeps(p, r)]]
      /\ draft' = [draft EXCEPT !.edge = [r \in Rels |-> draft.edge[r] /\ Keeps(p, r)]]
      /\ owner' = [x \in DOMAIN owner |-> IF owner[x] = p THEN NoProc ELSE owner[x]]
      /\ evidence' = evidence \cup uploaded[p]
      /\ uploaded' = [uploaded EXCEPT ![p] = {}]
      /\ UNCHANGED blobs

RollbackWork(p) ==
  LET Restore(old, new) == [x \in DOMAIN old |-> IF owner[x] = p THEN old[x] ELSE new[x]]
  IN  /\ draft' = [entity |-> Restore(db.entity, draft.entity),
                   vertex |-> Restore(db.vertex, draft.vertex),
                   rel    |-> Restore(db.rel, draft.rel),
                   edge   |-> Restore(db.edge, draft.edge)]
      /\ owner' = [x \in DOMAIN owner |-> IF owner[x] = p THEN NoProc ELSE owner[x]]
      /\ uploaded' = [uploaded EXCEPT ![p] = {}]
      /\ UNCHANGED <<db, evidence, blobs>>

\* The session is closed: the request is answered or the run is over.
EndSession(p) ==
  /\ pc' = [pc EXCEPT ![p] = "idle"]
  /\ at' = [at EXCEPT ![p] = NoId]
  /\ data' = [data EXCEPT ![p] = <<>>]
  /\ mem' = [mem EXCEPT ![p] = [id \in Ids |-> NoRow]]
  /\ todo' = [todo EXCEPT ![p] = <<>>]
  /\ ref' = [ref EXCEPT ![p] = [l \in Labels \cup {"input"} |-> NoId]]

Open(p) ==
  /\ pc[p] = "idle" /\ sessions < MaxSessions
  /\ sessions' = sessions + 1

\* The next step of a session, on which row, with which data.
Step(p, label, x, d) ==
  /\ pc' = [pc EXCEPT ![p] = label]
  /\ at' = [at EXCEPT ![p] = x]
  /\ data' = [data EXCEPT ![p] = d]

\* After the last write of an operation a request commits (commit=True); a run
\* goes on to its next proposal and commits after the last one.
Proceed(p) == Step(p, IF todo'[p] = <<>> THEN "commit" ELSE "next", NoId, <<>>)

-----------------------------------------------------------------------------
Init ==
  /\ db = Empty /\ draft = Empty
  /\ owner = [x \in Ids \cup Rels |-> NoProc]
  /\ evidence = {} /\ blobs = {}
  /\ uploaded = [p \in Procs |-> {}]
  /\ pc = [p \in Procs |-> "idle"]
  /\ at = [p \in Procs |-> NoId]
  /\ data = [p \in Procs |-> <<>>]
  /\ mem = [p \in Procs |-> [id \in Ids |-> NoRow]]
  /\ todo = [p \in Procs |-> <<>>]
  /\ ref = [p \in Procs |-> [l \in Labels \cup {"input"} |-> NoId]]
  /\ sessions = 0

-----------------------------------------------------------------------------
(* Requests: the first statement of each operation.  One that finds nothing *)
(* answers 404 or 400 and changes nothing.                                  *)

Begin(q, label, x, d) ==
  /\ Open(q)
  /\ Step(q, label, x, d)
  /\ UNCHANGED <<store, todo, ref>>

RequestCreate(q) ==
  /\ \E l \in Labels, c \in Confs : Begin(q, "insert", NoId, [label |-> l, conf |-> c])
  /\ UNCHANGED mem

\* EntityRepository.get, at the start of update and soft_delete.
Load(q, id) ==
  /\ Entity(q, id).state = "live"
  /\ mem' = [mem EXCEPT ![q][id] = Entity(q, id)]

RequestUpdate(q) ==
  \E id \in Ids, l \in Labels \cup {NoLabel}, c \in Confs \cup {0} :
    Load(q, id) /\ Begin(q, "update", id, [label |-> l, conf |-> c])

RequestDelete(q) ==
  \E id \in Ids : Load(q, id) /\ Begin(q, "delete", id, <<>>)

\* _assert_endpoints_in_case
EndpointsLive(p, src, dst) == Entity(p, src).state = "live" /\ Entity(p, dst).state = "live"

RequestLink(q) ==
  /\ \E src, dst \in Ids :
       EndpointsLive(q, src, dst) /\ Begin(q, "link", NoId, [src |-> src, dst |-> dst])
  /\ UNCHANGED mem

RequestUnlink(q) ==
  /\ \E r \in Rels : Rel(q, r).state = "live" /\ Begin(q, "unlink", r, <<>>)
  /\ UNCHANGED mem

RequestUpload(q) ==
  /\ \E b \in Blobs : Begin(q, "upload", NoId, [blob |-> b])
  /\ UNCHANGED mem

-----------------------------------------------------------------------------
(* The flush and the mirror of each operation, for requests and runs        *)

Fresh(rows, x) == rows[x].state = "absent" /\ owner[x] = NoProc

\* Mutation of InsertEntity: leave out the mirror.
InsertUnmirrored(p) ==
  /\ pc[p] = "insert"
  /\ \E id \in Ids :
       LET row == [state |-> "live", label |-> data[p].label, conf |-> data[p].conf]
       IN  /\ Fresh(db.entity, id) /\ Lock(p, id)
           /\ draft' = [draft EXCEPT !.entity[id] = row]
           /\ mem' = [mem EXCEPT ![p][id] = row]
           /\ ref' = IF p \in Runners THEN [ref EXCEPT ![p][row.label] = id] ELSE ref
           /\ UNCHANGED todo /\ Proceed(p)
  /\ UNCHANGED <<db, evidence, uploaded, blobs>>

InsertEntity(p) ==
  /\ pc[p] = "insert"
  /\ \E id \in Ids :
       LET row == [state |-> "live", label |-> data[p].label, conf |-> data[p].conf]
       IN  /\ Fresh(db.entity, id) /\ Lock(p, id)
           /\ draft' = [draft EXCEPT !.entity[id] = row]
           /\ mem' = [mem EXCEPT ![p][id] = row]
           /\ ref' = IF p \in Runners THEN [ref EXCEPT ![p][row.label] = id] ELSE ref
           /\ Step(p, "upsert_vertex", id, <<>>)
  /\ UNCHANGED <<db, evidence, uploaded, blobs, todo>>

\* The columns an UPDATE sets: those whose new value is not the loaded one.
Changed(row, d) ==
  [label |-> IF d.label = row.label THEN NoLabel ELSE d.label,
   conf  |-> IF d.conf = row.conf THEN 0 ELSE d.conf]

Apply(row, d) ==
  [row EXCEPT !.label = IF d.label = NoLabel THEN @ ELSE d.label,
              !.conf  = IF d.conf = 0 THEN @ ELSE d.conf]

\* Mutation of UpdateEntity: write back every column of the loaded row.
UpdateWholeRow(p) ==
  /\ pc[p] = "update"
  /\ LET id == at[p]
     IN  /\ Lock(p, id)
         /\ draft' = [draft EXCEPT !.entity[id] = Apply(mem[p][id], data[p])]
         /\ mem' = [mem EXCEPT ![p][id] = Apply(mem[p][id], data[p])]
         /\ Step(p, "upsert_vertex", id, <<>>)
  /\ UNCHANGED <<db, evidence, uploaded, blobs, todo, ref>>

\* Whatever the row has become since it was loaded: UPDATE ... WHERE id = ...
UpdateEntity(p) ==
  /\ pc[p] = "update"
  /\ LET id == at[p]
         d  == Changed(mem[p][id], data[p])
     IN  /\ \/ /\ d # [label |-> NoLabel, conf |-> 0]
              /\ Lock(p, id)
              /\ draft' = [draft EXCEPT !.entity[id] = Apply(draft.entity[id], d)]
           \/ /\ d = [label |-> NoLabel, conf |-> 0]
              /\ UNCHANGED <<owner, draft>>
         /\ mem' = [mem EXCEPT ![p][id] = Apply(mem[p][id], d)]
         /\ Step(p, "upsert_vertex", id, <<>>)
  /\ UNCHANGED <<db, evidence, uploaded, blobs, todo, ref>>

\* MERGE by id, then SET every property from the session's copy of the entity.
UpsertVertex(p) ==
  /\ pc[p] = "upsert_vertex"
  /\ LET row == mem[p][at[p]]
     IN  /\ Lock(p, at[p])
         /\ draft' = [draft EXCEPT !.vertex[at[p]] =
                        [there |-> TRUE, label |-> row.label, conf |-> row.conf]]
  /\ UNCHANGED todo /\ Proceed(p)
  /\ UNCHANGED <<db, evidence, uploaded, blobs, mem, ref>>

DeleteEntity(p) ==
  /\ pc[p] = "delete"
  /\ Lock(p, at[p])
  /\ draft' = [draft EXCEPT !.entity[at[p]].state = "deleted"]
  /\ Step(p, "delete_vertex", at[p], <<>>)
  /\ UNCHANGED <<db, evidence, uploaded, blobs, mem, todo, ref>>

DeleteVertex(p) ==
  /\ pc[p] = "delete_vertex"
  /\ draft' = [draft EXCEPT !.vertex[at[p]] = NoVertex]
  /\ UNCHANGED todo /\ Proceed(p)
  /\ UNCHANGED <<db, owner, evidence, uploaded, blobs, mem, ref>>

InsertRel(p) ==
  /\ pc[p] = "link"
  /\ \E r \in Rels :
       /\ Fresh(db.rel, r) /\ Lock(p, r)
       /\ draft' = [draft EXCEPT !.rel[r] =
                      [state |-> "live", src |-> data[p].src, dst |-> data[p].dst]]
       /\ Step(p, "upsert_edge", r, <<>>)
  /\ UNCHANGED <<db, evidence, uploaded, blobs, mem, todo, ref>>

\* Mutation of UpsertEdge: look the endpoints up from outside the transaction.
UpsertEdgeApart(p) ==
  /\ pc[p] = "upsert_edge"
  /\ draft' = [draft EXCEPT !.edge[at[p]] = /\ db.vertex[draft.rel[at[p]].src].there
                                           /\ db.vertex[draft.rel[at[p]].dst].there]
  /\ UNCHANGED todo /\ Proceed(p)
  /\ UNCHANGED <<db, owner, evidence, uploaded, blobs, mem, ref>>

\* MATCH the two vertices, then MERGE the edge: no match, no edge and no error.
UpsertEdge(p) ==
  /\ pc[p] = "upsert_edge"
  /\ draft' = [draft EXCEPT !.edge[at[p]] = /\ Vertex(p, draft.rel[at[p]].src).there
                                           /\ Vertex(p, draft.rel[at[p]].dst).there]
  /\ UNCHANGED todo /\ Proceed(p)
  /\ UNCHANGED <<db, owner, evidence, uploaded, blobs, mem, ref>>

\* Mutation of DeleteRel: commit the soft delete and leave the edge.
DeleteRelOnly(p) ==
  /\ pc[p] = "unlink"
  /\ Lock(p, at[p])
  /\ draft' = [draft EXCEPT !.rel[at[p]].state = "deleted"]
  /\ UNCHANGED todo /\ Proceed(p)
  /\ UNCHANGED <<db, evidence, uploaded, blobs, mem, ref>>

DeleteRel(p) ==
  /\ pc[p] = "unlink"
  /\ Lock(p, at[p])
  /\ draft' = [draft EXCEPT !.rel[at[p]].state = "deleted"]
  /\ Step(p, "delete_edge", at[p], <<>>)
  /\ UNCHANGED <<db, evidence, uploaded, blobs, mem, todo, ref>>

DeleteEdge(p) ==
  /\ pc[p] = "delete_edge"
  /\ draft' = [draft EXCEPT !.edge[at[p]] = FALSE]
  /\ UNCHANGED todo /\ Proceed(p)
  /\ UNCHANGED <<db, owner, evidence, uploaded, blobs, mem, ref>>

\* The key is the payload's hash: an object that is there already stays.
PutBlob(b) == blobs' = blobs \cup {b}

\* Mutation of CreateEvidence: carry on when the upload has failed.
CreateEvidenceAnyway(p) ==
  /\ pc[p] = "upload"
  /\ uploaded' = [uploaded EXCEPT ![p] = @ \cup {data[p].blob}]
  /\ blobs' \in {blobs, blobs \cup {data[p].blob}}
  /\ UNCHANGED todo /\ Proceed(p)
  /\ UNCHANGED <<db, draft, owner, evidence, mem, ref>>

\* Flush the row, then upload the payload; a blob already there is left alone.
CreateEvidence(p) ==
  /\ pc[p] = "upload"
  /\ uploaded' = [uploaded EXCEPT ![p] = @ \cup {data[p].blob}]
  /\ PutBlob(data[p].blob)
  /\ UNCHANGED todo /\ Proceed(p)
  /\ UNCHANGED <<db, draft, owner, evidence, mem, ref>>

Commit(p) ==
  /\ pc[p] = "commit"
  /\ CommitWork(p)
  /\ EndSession(p)

-----------------------------------------------------------------------------
(* Failures                                                                 *)

Mirrors == {"upsert_vertex", "delete_vertex", "upsert_edge", "delete_edge", "upload"}

\* Mutation of Undo: raise without the rollback.
RaiseOnly(p) ==
  /\ "mirror" \in Faults
  /\ pc[p] \in Mirrors \cup {"commit"}
  /\ UNCHANGED store
  /\ EndSession(p)

\* The repository's except branch rolls back and raises; the commit of the
\* runner's own except branch then finds nothing but its audit row to write.
Undo(p) ==
  /\ "mirror" \in Faults
  /\ pc[p] \in Mirrors \cup {"commit"}
  /\ RollbackWork(p)
  /\ EndSession(p)

\* A statement outside the try blocks fails, as one of two transactions that
\* wait for each other's rows does, or the process dies.  The session is lost:
\* a run cannot even record that it failed.
Abort(p) ==
  /\ "db" \in Faults
  /\ pc[p] # "idle"
  /\ RollbackWork(p)
  /\ EndSession(p)

-----------------------------------------------------------------------------
(* Plugin runs                                                              *)

\* The plugin has answered for an entity that was live when the run started.
StartRun(g) ==
  /\ Open(g)
  /\ \E id \in Ids, result \in Results :
       /\ Entity(g, id).state = "live"
       /\ mem' = [mem EXCEPT ![g][id] = Entity(g, id)]
       /\ ref' = [ref EXCEPT ![g]["input"] = id]
       /\ todo' = [todo EXCEPT ![g] = result]
  /\ Proceed(g)
  /\ UNCHANGED store

Proposes(g, kind) == pc[g] = "next" /\ Head(todo[g]).kind = kind
Take(g) == todo' = [todo EXCEPT ![g] = Tail(@)]

\* Any exception that no repository has rolled back: the runner's except branch
\* commits its audit row, and with it whatever the session has flushed.
Raise(g) ==
  /\ CommitWork(g)
  /\ EndSession(g)

Found(g, label) == {id \in Ids : /\ Entity(g, id).state = "live"
                                 /\ Entity(g, id).label = label}

\* get_or_create: MultipleResultsFound; or the row, whose confidence is raised
\* if the session's copy of it has a lower one; or none, and it is inserted.
GetOrCreate(g) ==
  /\ Proposes(g, "entity")
  /\ LET new   == Head(todo[g])
         found == Found(g, new.label)
     IN  \/ /\ Cardinality(found) > 1
            /\ Raise(g)
         \/ \E id \in found :
              LET row == IF mem[g][id].state = "absent" THEN Entity(g, id) ELSE mem[g][id]
              IN  /\ found = {id}
                  /\ Take(g)
                  /\ mem' = [mem EXCEPT ![g][id] = row]
                  /\ ref' = [ref EXCEPT ![g][new.label] = id]
                  /\ IF new.conf > row.conf
                     THEN Step(g, "update", id, [label |-> NoLabel, conf |-> new.conf])
                     ELSE Proceed(g)
                  /\ UNCHANGED store
         \/ /\ found = {}
            /\ Take(g)
            /\ Step(g, "insert", NoId, [label |-> new.label, conf |-> new.conf])
            /\ UNCHANGED <<store, mem, ref>>

\* _resolve_ref, then create_if_not_exists up to its insert.
CreateIfNotExists(g) ==
  /\ Proposes(g, "relationship")
  /\ LET src   == ref[g][Head(todo[g]).src]
         dst   == ref[g][Head(todo[g]).dst]
         known == src # NoId /\ dst # NoId
         found == {r \in Rels : Rel(g, r) = [state |-> "live", src |-> src, dst |-> dst]}
     IN  \/ /\ \/ ~known
               \/ Cardinality(found) > 1
               \/ known /\ found = {} /\ ~EndpointsLive(g, src, dst)
            /\ Raise(g)
         \/ /\ known /\ Cardinality(found) = 1
            /\ Take(g) /\ Proceed(g)
            /\ UNCHANGED <<store, mem, ref>>
         \/ /\ known /\ found = {} /\ EndpointsLive(g, src, dst)
            /\ Take(g)
            /\ Step(g, "link", NoId, [src |-> src, dst |-> dst])
            /\ UNCHANGED <<store, mem, ref>>

ProposeEvidence(g) ==
  /\ Proposes(g, "evidence")
  /\ Take(g)
  /\ Step(g, "upload", NoId, [blob |-> Head(todo[g]).blob])
  /\ UNCHANGED <<store, mem, ref>>

-----------------------------------------------------------------------------
RequestStep(q) ==
  \/ RequestCreate(q) \/ RequestUpdate(q) \/ RequestDelete(q)
  \/ RequestLink(q) \/ RequestUnlink(q) \/ RequestUpload(q)

RunStep(g) == GetOrCreate(g) \/ CreateIfNotExists(g) \/ ProposeEvidence(g)

RepositoryStep(p) ==
  \/ InsertEntity(p) \/ UpdateEntity(p) \/ UpsertVertex(p) \/ DeleteEntity(p)
  \/ DeleteVertex(p) \/ InsertRel(p) \/ UpsertEdge(p) \/ DeleteRel(p)
  \/ DeleteEdge(p) \/ CreateEvidence(p) \/ Commit(p)

Next ==
  \/ \E q \in Requests : RequestStep(q)
  \/ \E g \in Runners : StartRun(g)
  \/ /\ \/ \E g \in Runners : RunStep(g)
        \/ \E p \in Procs : RepositoryStep(p) \/ Undo(p) \/ Abort(p)
     /\ UNCHANGED sessions

Spec == Init /\ [][Next]_vars

-----------------------------------------------------------------------------
(* Properties                                                               *)

TypeOK ==
  /\ db \in Tables /\ draft \in Tables
  /\ owner \in [Ids \cup Rels -> Procs \cup {NoProc}]
  /\ evidence \subseteq Blobs /\ blobs \subseteq Blobs
  /\ uploaded \in [Procs -> SUBSET Blobs]
  /\ pc \in [Procs -> {"idle", "next", "insert", "update", "delete", "link", "unlink",
                       "commit"} \cup Mirrors]
  /\ at \in [Procs -> Ids \cup Rels \cup {NoId}]
  /\ ref \in [Procs -> [Labels \cup {"input"} -> Ids \cup {NoId}]]
  /\ sessions \in 0..MaxSessions
  /\ \A x \in Ids \cup Rels : owner[x] # NoProc => pc[owner[x]] # "idle"

\* Every live entity has its vertex, whatever transactions interleave or fail:
\* the row and the vertex are committed together or not at all, and no stale
\* delete takes away the vertex of an entity that lives.
LiveIsMirrored ==
  \A id \in Ids : db.entity[id].state = "live" => db.vertex[id].there

\* A live relationship between two live entities is an edge of the graph: a
\* MATCH that finds no endpoint is silent, and that must only ever happen when
\* an endpoint has been deleted for good since it was checked.
LinkHasEdge ==
  \A r \in Rels :
    LET l == db.rel[r]
    IN  /\ l.state = "live"
        /\ db.entity[l.src].state = "live" /\ db.entity[l.dst].state = "live"
        => db.edge[r]

\* A soft-deleted relationship leaves the graph with its row.
EdgeIsLive == \A r \in Rels : db.edge[r] => db.rel[r].state = "live"

\* No committed evidence row points at a blob that is not in the store: the
\* upload comes before the commit, even when a failed run's rows are committed
\* by the runner's except branch.
EvidenceHasBlob == evidence \subseteq blobs

\* The rows implement the ledger of CaseLedger: every commit, that of a run that
\* failed half-way included, adds rows or soft-deletes one, no relationship
\* dangles or moves, and an update that read a row before it was deleted does
\* not revive it.
Ledger == INSTANCE CaseLedger WITH
  entity <- [id \in Ids |-> db.entity[id].state], rel <- db.rel
LedgerKept == Ledger!Spec

\* README.md: AGE is a materialized mirror of the SQL rows, written in the same
\* transaction, and a soft delete removes the vertex.
MirrorInSync ==
  \A id \in Ids :
    db.vertex[id] = LET row == db.entity[id]
                    IN  IF row.state = "live"
                        THEN [there |-> TRUE, label |-> row.label, conf |-> row.conf]
                        ELSE NoVertex

\* runner.py, _persist: either every entity, relationship and evidence row of a
\* run commits, or none of them do: a run that ends anywhere but in the commit
\* after its last proposal leaves nothing behind.
AllOrNothing ==
  [][\A g \in Runners : pc[g] \notin {"idle", "commit"} /\ pc'[g] = "idle"
                          => UNCHANGED <<db, evidence>>]_vars
=============================================================================
