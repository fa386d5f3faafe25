----------------------------- MODULE MCSessions -----------------------------
(* Sessions on small instances. *)
EXTENDS Sessions, TLC

\* What the further steps depend on, and the properties of the run that uses
\* this view: no guard reads the history, an id is never given twice, so ids
\* are known by their rank and those of rows that are gone not at all, and a
\* local variable counts as long as a later step reads it.
Rank(i) == IF i \in Ids THEN Cardinality(Ids \intersect 1 .. i) ELSE 0

Local(q) ==
    <<q.pc, IF q.pc = "idle" THEN SomeUser ELSE q.user,
      IF q.pc = "cleanup" \/ q.pc = "find" \/ q.pc = "evict" THEN q.op ELSE "none",
      IF q.pc \in {"reread", "logoutFind", "delete"} THEN q.token ELSE 0,
      q.mint,
      IF q.pc = "create" THEN 0 ELSE Rank(q.sid),
      {Rank(v) : v \in q.victims \intersect Ids}>>

\* updatedAt counts for an active row that a pending eviction spares although
\* it deletes a younger one: a refresh revived the row since the read.
Revived(i) ==
    ~Expired(i) /\ \E r \in Requests : /\ i \notin req[r].victims
                                      /\ \E v \in req[r].victims \intersect Ids :
                                            session[i].createdAt < session[v].createdAt

Columns(i) ==
    <<session[i].user, session[i].expireAt, session[i].refreshTokenExpiresAt,
      session[i].createdAt, IF Revived(i) THEN session[i].updatedAt ELSE 0>>

WithoutHistory ==
    <<now, nextId, {<<Rank(i), Columns(i)>> : i \in Ids},
      [r \in Requests |-> Local(req[r])]>>

\* For the properties of the history: it matters for the logins that a row or a
\* refresh still carries, since no other login comes back.
LiveLogins == {session[i].login : i \in Ids} \union Renewed

RelevantHistory ==
    <<now, nextId, {<<i, Columns(i), session[i].login>> : i \in Ids},
      [r \in Requests |-> <<Local(req[r]), req[r].op, req[r].sid, req[r].login>>],
      loggedOut \intersect LiveLogins, contested \intersect LiveLogins>>

RequestSymmetry == Permutations(Requests)

\* Users are interchangeable under a view: SomeUser, the one user the model
\* singles out, only fills the user field of idle requests.
FullSymmetry == RequestSymmetry \union Permutations(Users)
=============================================================================
