----------------------------- MODULE RoleInForce ------------------------------
(***************************************************************************)
(* What a change of role promises: requests may still be authorised with   *)
(* an earlier role for a while; an earlier role that is out of use stays   *)
(* out of use, and when the role stops changing only the current one is    *)
(* left.                                                                   *)
(***************************************************************************)
EXTENDS Naturals

VARIABLES
    current,       \* the user's role, counted by its changes
    usable         \* the roles a request may still be authorised with

Init == current = 0 /\ usable = {0}

Change ==
    /\ current' = current + 1
    /\ \E kept \in SUBSET usable : usable' = kept \union {current'}

Retire ==
    /\ \E old \in SUBSET (usable \ {current}) : old # {} /\ usable' = usable \ old
    /\ UNCHANGED current

Next == Change \/ Retire

Spec == Init /\ [][Next]_<<current, usable>> /\ WF_<<current, usable>>(Retire)
=============================================================================
