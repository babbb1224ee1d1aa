-------------------------- MODULE MCVoiceSessions --------------------------
EXTENDS VoiceSessions, TLC

(* Users and requests are interchangeable. *)
Symmetry == Permutations(Users) \cup Permutations(Handlers)
=============================================================================
