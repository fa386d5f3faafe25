--------------------------- MODULE MCPasswordReset ---------------------------
(* PasswordReset on small instances. *)
EXTENDS PasswordReset, TLC

RequestSymmetry == Permutations(Requests)

\* Tokens that are not in a row or in flight and have expired never come back,
\* and only now + ResetLife can be signed again.  An old password that no session
\* and no request in flight goes by is never seen again.
Current == {t \in signed : t >= now} \union {reset[i].expiresAt : i \in Rows}
             \union {req[r].token : r \in Requests}

\* What the state says of other tokens and passwords is garbage.
WithoutGarbage ==
    <<now, reset, password, passwords, sessions, mailed \intersect Current, req,
      signed \intersect {now + ResetLife}, signedTwice \intersect Current,
      {t \in raced : t >= now}, spent \intersect Current,
      excused \intersect (OldSessions \union OldInFlight)>>
=============================================================================
