----------------------------- MODULE Lifecycle -----------------------------
(***************************************************************************)
(* A connection as its user sees it: the state, and what the connection    *)
(* handler has been told since the last call of xmpp_connect_client.       *)
(***************************************************************************)
EXTENDS Naturals

VARIABLES state, attempts, ups, downs, authenticated

life == <<state, attempts, ups, downs, authenticated>>

Init ==
    /\ state = "DISCONNECTED" /\ attempts = 0 /\ ups = 0 /\ downs = 0
    /\ authenticated = FALSE

\* A new attempt, of which the user has been told nothing yet.
Begin ==
    /\ state' = "CONNECTING" /\ attempts' = attempts + 1 /\ ups' = 0 /\ downs' = 0
    /\ UNCHANGED authenticated

Connect == state = "DISCONNECTED" /\ Begin

Establish ==
    /\ state = "CONNECTING" /\ state' = "CONNECTED"
    /\ UNCHANGED <<attempts, ups, downs, authenticated>>

\* Only an established connection can come up.
TellConnect ==
    /\ state = "CONNECTED" /\ ups' = ups + 1 /\ authenticated' = TRUE
    /\ UNCHANGED <<state, attempts, downs>>

\* An attempt ends once, and its user hears of it.
TellDisconnect ==
    /\ state # "DISCONNECTED" /\ downs = 0
    /\ state' = "DISCONNECTED" /\ downs' = 1
    /\ UNCHANGED <<attempts, ups, authenticated>>

\* The user, being told, connects again.
ConnectWhenTold == state # "DISCONNECTED" /\ downs = 0 /\ Begin

Next == Connect \/ Establish \/ TellConnect \/ TellDisconnect \/ ConnectWhenTold

Spec == Init /\ [][Next]_life
=============================================================================
