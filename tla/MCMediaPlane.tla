---------------------------- MODULE MCMediaPlane ----------------------------
EXTENDS MediaPlane, TLC

(* Requests, and workers, are interchangeable. *)
Symmetry == Permutations(Handlers) \cup Permutations(Workers)
=============================================================================
