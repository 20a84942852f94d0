---------------------------- MODULE MCAttachments ----------------------------
(* Instances of Attachments. *)
EXTENDS Attachments, TLC

CONSTANTS w1, w2, applier

Symmetry == Permutations(Handlers)
==============================================================================
