------------------------------ MODULE Presence ------------------------------
(***************************************************************************)
(* What the network sees of a WS-Discovery host that keeps its word: it    *)
(* says Hello on an endpoint only while it joins and only if that endpoint *)
(* is not visible yet, nothing changes while it is present, and when it    *)
(* leaves it says Bye on every visible endpoint before it may join again   *)
(* or be gone.                                                             *)
(***************************************************************************)
CONSTANT Endpoint

VARIABLES phase,    \* "joining", "present", "leaving" or "gone"
          visible   \* endpoints that said Hello and not yet Bye

pvars == << phase, visible >>

Init == phase = "joining" /\ visible = {}

Hello(e) ==
    /\ phase = "joining" /\ e \notin visible
    /\ visible' = visible \cup {e}
    /\ UNCHANGED phase

Settle == phase = "joining" /\ phase' = "present" /\ UNCHANGED visible

Leave ==
    /\ phase \in {"joining", "present"}
    /\ phase' = "leaving"
    /\ UNCHANGED visible

Bye(e) ==
    /\ phase = "leaving" /\ e \in visible
    /\ visible' = visible \ {e}
    /\ UNCHANGED phase

Rejoin == phase = "leaving" /\ visible = {} /\ phase' = "joining" /\ UNCHANGED visible

Vanish ==
    /\ phase \in {"joining", "leaving"} /\ visible = {}
    /\ phase' = "gone"
    /\ UNCHANGED visible

Next == \/ \E e \in Endpoint : Hello(e) \/ Bye(e)
        \/ Settle \/ Leave \/ Rejoin \/ Vanish

SafeSpec == Init /\ [][Next]_pvars
Spec     == SafeSpec /\ WF_pvars(\E e \in Endpoint : Bye(e))
=============================================================================
