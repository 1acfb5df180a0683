---------------------------- MODULE MCPluginRun ----------------------------
(* Instantiates PluginRun for TLC.                                         *)
EXTENDS PluginRun, TLC

\* The task slots of the arq workers are interchangeable.
Symmetry == Permutations(Workers)
=============================================================================
