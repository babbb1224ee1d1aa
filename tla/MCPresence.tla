----------------------------- MODULE MCPresence -----------------------------
EXTENDS Presence, TLC

CONSTANTS u1, c1

OneOfOne == c1 :> u1
=============================================================================
