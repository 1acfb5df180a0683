---------------------------- MODULE MCCaseGraph ----------------------------
(* Instantiates CaseGraph for TLC.                                          *)
EXTENDS CaseGraph, TLC

CONSTANTS a, b   \* two labels

\* A plugin that finds a new entity, links the input to it and keeps its
\* evidence, and one whose second relationship names an entity it never
\* proposed.
MCResults ==
  { << [kind |-> "entity", label |-> a, conf |-> 2],
       [kind |-> "relationship", src |-> "input", dst |-> a],
       [kind |-> "evidence", blob |-> "payload"] >>,
    << [kind |-> "entity", label |-> a, conf |-> 1],
       [kind |-> "relationship", src |-> a, dst |-> b] >> }

Symmetry == Permutations(Requests) \cup Permutations(Ids)
=============================================================================
