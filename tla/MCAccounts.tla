---------------------------- MODULE MCAccounts ----------------------------
(* Instantiates Accounts for TLC.                                           *)
EXTENDS Accounts, TLC

CONSTANTS e, E, root, Root, s1, s2, s3, c1, c2, edge, none

\* Two spellings that differ in the domain, and two that differ before the @.
MCMailbox == [x \in Emails |-> IF x = E THEN e ELSE IF x = Root THEN root ELSE x]
MCNormal == [x \in Emails |-> IF x = E THEN e ELSE x]

\* A subject of its own, and two that have had the admin's mailbox.
MCClaims ==
  [sub : {s1}, email : {e, E}, vouched : {TRUE}]
  \cup [sub : {s1}, email : {e}, vouched : {FALSE}]
  \cup [sub : {s2, s3}, email : {Root}, vouched : {TRUE}]

\* Through the edge, which names the client; through a proxy that appends what
\* it sees to the header it was sent; and past both, with an edge's header that
\* names somebody else.
MCArrivals ==
  { [cf |-> c1, xff |-> <<>>, peer |-> edge],
    [cf |-> none, xff |-> <<c2, c1>>, peer |-> edge],
    [cf |-> c2, xff |-> <<>>, peer |-> c1] }

Symmetry == Permutations(Replicas) \cup Permutations(Flows)
=============================================================================
