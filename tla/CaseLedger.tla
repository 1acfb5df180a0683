----------------------------- MODULE CaseLedger -----------------------------
(***************************************************************************)
(* What the rows of a case promise to the investigator who hands them on   *)
(* (README.md, the docstrings of entities/, relationships/ and evidence/): *)
(* whatever a request or a plugin run does takes effect at once, and       *)
(* either adds rows or soft-deletes a single one.  A relationship joins    *)
(* entities of the case and is immutable; what was deleted stays in the    *)
(* tables and stays deleted; evidence is append-only.                      *)
(***************************************************************************)
CONSTANTS Ids, Rels, NoId
VARIABLES
  entity,   \* the state of each entity's row
  rel,      \* each relationship's row
  evidence  \* the payloads of the evidence rows

vars == <<entity, rel, evidence>>

Unlinked == [state |-> "absent", src |-> NoId, dst |-> NoId]

Init ==
  /\ entity = [id \in Ids |-> "absent"]
  /\ rel = [r \in Rels |-> Unlinked]
  /\ evidence = {}

\* Entities, relationships between entities old and new, evidence.
Add ==
  /\ \E new \in SUBSET Ids :
       /\ \A id \in new : entity[id] = "absent"
       /\ entity' = [id \in Ids |-> IF id \in new THEN "live" ELSE entity[id]]
  /\ \E new \in SUBSET Rels :
       \E src, dst \in [new -> {id \in Ids : entity'[id] # "absent"}] :
         /\ \A r \in new : rel[r].state = "absent"
         /\ rel' = [r \in Rels |-> IF r \in new
                                   THEN [state |-> "live", src |-> src[r], dst |-> dst[r]]
                                   ELSE rel[r]]
  /\ evidence \subseteq evidence'

Delete ==
  /\ \E id \in Ids : entity[id] = "live" /\ entity' = [entity EXCEPT ![id] = "deleted"]
  /\ UNCHANGED <<rel, evidence>>

Unlink ==
  /\ \E r \in Rels : rel[r].state = "live" /\ rel' = [rel EXCEPT ![r].state = "deleted"]
  /\ UNCHANGED <<entity, evidence>>

Spec == Init /\ [][Add \/ Delete \/ Unlink]_vars
=============================================================================
