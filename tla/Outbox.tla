-------------------------------- MODULE Outbox --------------------------------
(***************************************************************************)
(* What the application promises about its mails: a mail is owed once its  *)
(* token is saved; it is queued or given up; a queued mail is sent or      *)
(* given up, sooner or later, and whatever stops or restarts meanwhile; a  *)
(* mail given up can be queued again, or prove to have been sent; a mail   *)
(* sent stays sent.                                                        *)
(***************************************************************************)
CONSTANT Mails

VARIABLE mail

States == {"none", "owed", "queued", "sent", "lost"}

Init == mail = [m \in Mails |-> "none"]

Move(ms, from, to) ==
    /\ \A m \in ms : mail[m] = from
    /\ mail' = [m \in Mails |-> IF m \in ms THEN to ELSE mail[m]]

Owe(m)     == Move({m}, "none", "owed")
Queue(m)   == Move({m}, "owed", "queued")
GiveUp(ms) == Move(ms, "owed", "lost")       \* a stop gives up many at once
Settle(m)  == Move({m}, "queued", "sent") \/ Move({m}, "queued", "lost")
Requeue(m) == Move({m}, "lost", "queued")
Late(m)    == Move({m}, "lost", "sent")      \* it was under way all the same

Next ==
    \/ \E m \in Mails : Owe(m) \/ Queue(m) \/ Settle(m) \/ Requeue(m) \/ Late(m)
    \/ \E ms \in SUBSET Mails : GiveUp(ms)

Leaves(m, stage) == Next /\ mail[m] = stage /\ mail'[m] # stage

Spec ==
    /\ Init /\ [][Next]_mail
    /\ \A m \in Mails : WF_mail(Leaves(m, "owed")) /\ WF_mail(Leaves(m, "queued"))
=============================================================================
