----------------------------- MODULE PolicyStore -----------------------------
(***************************************************************************)
(* The policies in force: src/lib/casbin.ts keeps them in the table        *)
(* casbin_rule and in the model of one enforcer per process, which it      *)
(* creates on first use and replaces on a reload.  The handlers of         *)
(* routes/admin/policies, rbac, users and cache change and reload them;    *)
(* casbinMiddleware consults them before every admin request.              *)
(*                                                                         *)
(* One server with the database adapter, and the script that fills the     *)
(* table from policy.csv in a process of its own.  Each await is a step;   *)
(* node-casbin runs everything else to completion.  A rule is a policy or a*)
(* role assignment, which take the same path.  What sets of rules are here *)
(* are lists in the code: a duplicate row or entry has no effect there.    *)
(***************************************************************************)
EXTENDS Integers, FiniteSets

CONSTANTS
    Requests,      \* slots for the requests in flight at one time
    Rules,         \* the policies an admin adds and removes
    AdminRule,     \* the policy that lets admins do so
    Csv            \* the policies of policy.csv

ASSUME RequestsAssumption == IsFiniteSet(Requests)
ASSUME RulesAssumption    == AdminRule \notin Rules
ASSUME CsvAssumption      == AdminRule \in Csv /\ Csv \subseteq Rules \union {AdminRule}

VARIABLES
    store,         \* the rows of casbin_rule
    enforcer,      \* the module variable of casbin.ts: null or an enforcer
    model,         \* the rules in the memory of each enforcer
    req,           \* the local variables of each request in flight
    script,        \* whether a sync script is between its deleteMany and createMany
    granted,       \* history: the rules the admins have asked for
    unaware,       \* history: the enforcer was loaded before the last sync
    conflict       \* history: changes overlapped, or one stopped half way

table == <<store, granted>>
sync  == <<script, unaware>>
vars  == <<store, enforcer, model, req, granted, sync, conflict>>

null      == 0
Enforcers == 1 .. Cardinality(Requests) + 1   \* those a reference exists to
AllRules  == Rules \union {AdminRule}
Kinds     == {"use", "add", "remove", "reload"}
Request   == [pc: {"idle", "get", "new", "read", "load", "got", "insert", "apply",
                   "delete", "unapply", "erase", "rebuild", "write"},
              kind: Kinds, admitted: BOOLEAN, rule: AllRules,
              e: Enforcers \union {null}, rows: SUBSET AllRules]
Idle      == [pc |-> "idle", kind |-> "use", admitted |-> FALSE, rule |-> AdminRule,
              e |-> null, rows |-> {}]

At(r, pc)    == req[r].pc = pc
Go(r, pc)    == req' = [req EXCEPT ![r].pc = pc]
End(r)       == req' = [req EXCEPT ![r] = Idle]
Referenced   == {enforcer} \union {req[r].e : r \in Requests}

Init ==
    /\ store = Csv /\ granted = Csv
    /\ enforcer = null
    /\ script = "idle" /\ unaware = FALSE
    /\ model = [e \in Enforcers |-> {}]
    /\ req = [r \in Requests |-> Idle]
    /\ conflict = FALSE

-----------------------------------------------------------------------------
(***************************************************************************)
(* Requests.  An admin request passes casbinMiddleware, which gets an      *)
(* enforcer and asks it; the handler then gets one again.                  *)
(***************************************************************************)
Arrive(r) ==
    /\ At(r, "idle")
    /\ \E kind \in Kinds, rule \in Rules :
          req' = [req EXCEPT ![r] = [Idle EXCEPT !.pc = "get", !.kind = kind, !.rule = rule]]
    /\ UNCHANGED <<table, enforcer, model>>

\* getEnforcer, when there is one ...
GetEnforcer(r) ==
    /\ At(r, "get")
    /\ IF enforcer = null
       THEN Go(r, "new")
       ELSE req' = [req EXCEPT ![r] = [@ EXCEPT !.pc = "got", !.e = enforcer]]
    /\ UNCHANGED <<table, enforcer, model>>

\* ... and when there is none: newEnforcer loads the policies, the enforcer is
\* published, and at once it is told to load them again, which empties it.
NewEnforcer(r) ==
    /\ At(r, "new")
    /\ LET e == CHOOSE x \in Enforcers : x \notin Referenced IN
         /\ enforcer' = e
         /\ model' = [model EXCEPT ![e] = {}]
         /\ req' = [req EXCEPT ![r] = [@ EXCEPT !.pc = "read", !.e = e]]
    /\ UNCHANGED table

FindMany(r) ==
    /\ At(r, "read")
    /\ req' = [req EXCEPT ![r] = [@ EXCEPT !.pc = "load", !.rows = store]]
    /\ UNCHANGED <<table, enforcer, model>>

OwnEnforcer(r) ==   \* mutant: getEnforcer returns the enforcer it has created
    /\ At(r, "load")
    /\ model' = [model EXCEPT ![req[r].e] = @ \union req[r].rows]
    /\ req' = [req EXCEPT ![r] = [@ EXCEPT !.pc = "got", !.rows = {}]]
    /\ UNCHANGED <<table, enforcer>>

\* What getEnforcer returns is the variable, not the enforcer it has created.
LoadPolicy(r) ==
    /\ At(r, "load")
    /\ model' = [model EXCEPT ![req[r].e] = @ \union req[r].rows]
    /\ req' = [req EXCEPT ![r] = [@ EXCEPT !.pc = "got", !.e = enforcer, !.rows = {}]]
    /\ UNCHANGED <<table, enforcer>>

Has(r, rule) == req[r].e # null /\ rule \in model[req[r].e]

\* The middleware lets an admin request go on to its handler.
Admitted(r) == At(r, "got") /\ ~req[r].admitted /\ Has(r, AdminRule)
Enter(r, pc) == req' = [req EXCEPT ![r] = [@ EXCEPT !.pc = pc, !.admitted = TRUE, !.e = null]]

Admit(r) ==
    /\ Admitted(r) /\ req[r].kind \in {"add", "remove"}
    /\ Enter(r, "get")
    /\ UNCHANGED <<table, enforcer, model>>

\* reloadPolicy drops the enforcer and creates another.
Reload(r) ==
    /\ Admitted(r) /\ req[r].kind = "reload"
    /\ enforcer' = null
    /\ Enter(r, "new")
    /\ unaware' = FALSE
    /\ UNCHANGED <<table, model, script>>

\* The answer needs no further step: a decision, an error from a null enforcer,
\* a refusal, the end of a reload, a policy that exists already or does not.
Answer(r) ==
    /\ At(r, "got")
    /\ \/ req[r].kind = "use" \/ req[r].e = null
       \/ ~req[r].admitted /\ ~Has(r, AdminRule)
       \/ req[r].admitted /\ req[r].kind = "reload"
       \/ req[r].admitted /\ req[r].kind = "add" /\ Has(r, req[r].rule)
       \/ req[r].admitted /\ req[r].kind = "remove" /\ ~Has(r, req[r].rule)
    /\ End(r)
    /\ UNCHANGED <<table, enforcer, model>>

(***************************************************************************)
(* addPolicy and removePolicy: the enforcer writes the row, then changes   *)
(* its model, and savePolicy then rewrites the whole table from the model. *)
(***************************************************************************)
Change(r) ==
    /\ At(r, "got") /\ req[r].admitted /\ req[r].e # null
    /\ \/ req[r].kind = "add" /\ ~Has(r, req[r].rule) /\ Go(r, "insert")
       \/ req[r].kind = "remove" /\ Has(r, req[r].rule) /\ Go(r, "delete")
    /\ UNCHANGED <<table, enforcer, model>>

Insert(r) ==
    /\ At(r, "insert")
    /\ store' = store \union {req[r].rule}
    /\ Go(r, "apply")
    /\ UNCHANGED <<enforcer, model, granted>>

\* Another request may have added the rule meanwhile: then nothing is saved.
Apply(r) ==
    /\ At(r, "apply")
    /\ IF Has(r, req[r].rule)
       THEN End(r) /\ UNCHANGED <<model, granted>>
       ELSE /\ model' = [model EXCEPT ![req[r].e] = @ \union {req[r].rule}]
            /\ granted' = granted \union {req[r].rule}
            /\ req' = [req EXCEPT ![r] = [@ EXCEPT !.pc = "erase", !.rows = model'[req[r].e]]]
    /\ UNCHANGED <<store, enforcer>>

Delete(r) ==
    /\ At(r, "delete")
    /\ store' = store \ {req[r].rule}
    /\ Go(r, "unapply")
    /\ UNCHANGED <<enforcer, model, granted>>

Unapply(r) ==
    /\ At(r, "unapply")
    /\ IF ~Has(r, req[r].rule)
       THEN End(r) /\ UNCHANGED <<model, granted>>
       ELSE /\ model' = [model EXCEPT ![req[r].e] = @ \ {req[r].rule}]
            /\ granted' = granted \ {req[r].rule}
            /\ req' = [req EXCEPT ![r] = [@ EXCEPT !.pc = "erase", !.rows = model'[req[r].e]]]
    /\ UNCHANGED <<store, enforcer>>

\* savePolicy: deleteMany, then the rows of the model as it is by then, then
\* createMany.
Erase(r) ==
    /\ At(r, "erase")
    /\ store' = {}
    /\ Go(r, "rebuild")
    /\ UNCHANGED <<enforcer, model, granted>>

RebuildEarlier(r) ==   \* mutant: the rows were built before deleteMany
    /\ At(r, "rebuild")
    /\ Go(r, "write")
    /\ UNCHANGED <<table, enforcer, model>>

Rebuild(r) ==
    /\ At(r, "rebuild")
    /\ req' = [req EXCEPT ![r] = [@ EXCEPT !.pc = "write", !.rows = model[req[r].e]]]
    /\ UNCHANGED <<table, enforcer, model>>

Write(r) ==
    /\ At(r, "write")
    /\ store' = store \union req[r].rows
    /\ End(r)
    /\ UNCHANGED <<enforcer, model, granted>>

(***************************************************************************)
(* syncCsvToDatabase: savePolicy of an enforcer that has read policy.csv.  *)
(* The server's enforcer does not learn of it.                             *)
(***************************************************************************)
SyncErase ==
    /\ script = "idle"
    /\ script' = "write"
    /\ store' = {}
    /\ unaware' = (enforcer # null)
    /\ UNCHANGED <<enforcer, model, req, granted>>

SyncWrite ==
    /\ script = "write"
    /\ script' = "idle"
    /\ store' = store \union Csv
    /\ granted' = Csv
    /\ UNCHANGED <<enforcer, model, req, unaware>>

(***************************************************************************)
(* Failures and overlaps.                                                  *)
(***************************************************************************)
Loading(r)  == req[r].pc \in {"new", "read", "load"}
Changing(r) ==
    \/ req[r].pc \in {"insert", "apply", "delete", "unapply", "erase", "rebuild", "write"}
    \/ At(r, "got") /\ req[r].admitted /\ req[r].kind \in {"add", "remove"}

\* Two changes commute when both add, and two loads do no harm to each other.  A
\* sync agrees with nothing that overlaps it, nor with a change made later by an
\* enforcer that was loaded before.
Conflict ==
    \/ \E r, q \in Requests :
        /\ r # q /\ Changing(r)
        /\ \/ Loading(q)
           \/ Changing(q) /\ "remove" \in {req[r].kind, req[q].kind}
    \/ \E r \in Requests : script = "write" /\ (Loading(r) \/ Changing(r))
    \/ \E r \in Requests : unaware /\ Changing(r)

\* A database error ends a request.  The places where it leaves the table or the
\* enforcer half way; before deleteMany too, as an overlapping savePolicy may
\* have wiped out the row that was written first.
HalfWay(r) == req[r].pc \in {"read", "load", "apply", "unapply", "erase", "rebuild", "write"}

Fail(r) ==
    /\ ~At(r, "idle")
    /\ End(r)
    /\ conflict' = (conflict \/ HalfWay(r))
    /\ UNCHANGED <<table, enforcer, model, sync>>

FailSync ==
    /\ script = "write"
    /\ script' = "idle"
    /\ conflict' = TRUE
    /\ UNCHANGED <<table, enforcer, model, req, unaware>>

RestartForgets ==   \* mutant: the rules of the enforcers are dropped with them
    /\ enforcer' = null
    /\ req' = [r \in Requests |-> Idle]
    /\ model' = << >>
    /\ unaware' = FALSE
    /\ UNCHANGED <<table, script, conflict>>

\* The process stops and starts again.
Restart ==
    /\ enforcer' = null
    /\ req' = [r \in Requests |-> Idle]
    /\ conflict' = (conflict \/ \E r \in Requests : HalfWay(r) /\ ~Loading(r))
    /\ unaware' = FALSE
    /\ UNCHANGED <<table, model, script>>

Step(r) ==
    \/ Arrive(r)
    \/ GetEnforcer(r) \/ NewEnforcer(r) \/ FindMany(r) \/ LoadPolicy(r)
    \/ Admit(r) \/ Answer(r) \/ Change(r)
    \/ Insert(r) \/ Apply(r) \/ Delete(r) \/ Unapply(r)
    \/ Erase(r) \/ Rebuild(r) \/ Write(r)

Next ==
    \/ /\ \/ \E r \in Requests : (Step(r) /\ UNCHANGED sync) \/ Reload(r)
          \/ SyncErase
          \/ SyncWrite
       /\ conflict' = (conflict \/ Conflict')
    \/ \E r \in Requests : Fail(r)
    \/ FailSync
    \/ Restart

Spec == Init /\ [][Next]_vars

-----------------------------------------------------------------------------
(***************************************************************************)
(* Properties.                                                             *)
(***************************************************************************)
TypeOK ==
    /\ store \subseteq AllRules /\ granted \subseteq AllRules
    /\ enforcer \in Enforcers \union {null}
    /\ model \in [Enforcers -> SUBSET AllRules]
    /\ req \in [Requests -> Request]
    /\ script \in {"idle", "write"} /\ unaware \in BOOLEAN
    /\ conflict \in BOOLEAN

Quiet == script = "idle" /\ \A r \in Requests : ~Loading(r) /\ ~Changing(r)

\* When no change, no load and no sync is half way, the table has the rules the
\* admins asked for, by requests or by the last sync, and an enforcer loaded since
\* that sync enforces them, whatever additions have overlapped each other and
\* whatever loads have overlapped each other; unless a removal overlapped another
\* change, a change overlapped a load or a sync, a request or a sync stopped
\* between two writes, or a change was made before the sync was loaded.
QuietAgreement ==
    Quiet /\ ~conflict =>
        /\ store = granted
        /\ enforcer # null /\ ~unaware => model[enforcer] = granted

\* A change is made on the enforcer that decides from then on, and not on one
\* that a reload or a simultaneous first use has replaced meanwhile, unless a
\* load overlapped the change.
ChangesReachEnforcer ==
    \A r \in Requests : Changing(r) /\ ~conflict => req[r].e = enforcer

\* README.md:61 "Real-time policy updates tanpa restart" (without a restart):
\* when no load is in progress, admins are let through to change or reload the
\* policies.  Violated: when the second load of a new enforcer fails, the empty
\* enforcer stays, and it refuses the reload too.
AdminsNotLockedOut ==
    Quiet /\ enforcer # null => AdminRule \in model[enforcer]
=============================================================================
