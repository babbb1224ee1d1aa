--------------------------- MODULE VoiceLifecycle ---------------------------
(***************************************************************************)
(* What the voice module promises about a voice session, whatever requests,*)
(* timers and worker failures do: it is opened once, for one user and one  *)
(* channel, connects at most once and ends at most once, and opening one   *)
(* ends no session but the same user's.                                    *)
(***************************************************************************)
CONSTANTS Users, Channels, Sessions, None

VARIABLES
    phase,   \* of each session id
    holder   \* <<user, channel>> of each opened session

vars == <<phase, holder>>

Open(s) == phase[s] \in {"negotiating", "connected"}

Init ==
    /\ phase = [s \in Sessions |-> "absent"]
    /\ holder = [s \in Sessions |-> None]

(* User u joins channel c; the session that call replaces, if any, ends. *)
Begin(s, u, c, replaced) ==
    /\ phase[s] = "absent"
    /\ \A r \in replaced : /\ Open(r)
                           /\ holder[r] \in {u} \X Channels
    /\ phase' = [x \in Sessions |-> IF x = s THEN "negotiating"
                                    ELSE IF x \in replaced THEN "ended" ELSE phase[x]]
    /\ holder' = [holder EXCEPT ![s] = <<u, c>>]

Connect(s) ==
    /\ phase[s] = "negotiating"
    /\ phase' = [phase EXCEPT ![s] = "connected"]
    /\ UNCHANGED holder

(* One transaction may end several sessions. *)
Close(S) ==
    /\ \A s \in S : Open(s)
    /\ phase' = [x \in Sessions |-> IF x \in S THEN "ended" ELSE phase[x]]
    /\ UNCHANGED holder

Next ==
    \/ \E s \in Sessions, u \in Users, c \in Channels, replaced \in SUBSET Sessions :
         Begin(s, u, c, replaced)
    \/ \E s \in Sessions : Connect(s)
    \/ \E S \in SUBSET Sessions : Close(S)

Spec == Init /\ [][Next]_vars
=============================================================================
