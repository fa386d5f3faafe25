# Specifications of bun-hono-boilerplate

TLA+ models of the server in this repository, checked with TLC on small
instances and, for the invariants that matter most, proved with TLAPS for every
value of the constants. Source paths below are relative to the repository's root.

## 1. The system

One Bun process serves a Hono app. It keeps its data in PostgreSQL (Prisma) and
Redis (cache, rate limits, BullMQ queue). JavaScript runs one callback at a time,
so two requests interleave exactly at their `await`s; no handler uses a database
transaction. That is why most of what can go wrong here goes wrong between two
awaited calls, and why the models make each such call a step.

| component | state | operations | talks to |
|---|---|---|---|
| Sessions: `src/services/auth/session.service.ts`, `src/routes/auth/auth.handlers.ts` | table `Session` | login, refresh, logout, list, revoke all; cleanup and eviction inside them | tokens, accounts |
| Tokens: `token.service.ts` | none (JWTs) | sign, look up | all of `auth` |
| Token middleware: `src/middlewares/auth.middleware.ts` | request variables | `validateToken`, `validateRefreshToken` | sessions |
| Password reset: `password-reset.service.ts` | table `PasswordReset`, `Account.password` | forgot, reset | sessions, mail queue |
| Accounts: `auth.service.ts` | tables `User`, `Account` | register, login, find | e-mail verification |
| E-mail verification: `email-verification.service.ts`, `auth.page.tsx` | table `EmailVerification`, `User.emailVerified` | create, resend, verify | mail queue |
| Authorisation: `casbin.middleware.ts`, `lib/cache.ts`, `lib/cache-redis.ts` | cached users | decide, fill, drop, expire | accounts, policy store |
| Policy store: `lib/casbin.ts`, admin `policies`, `rbac`, `cache` handlers | table `casbin_rule`, the enforcer variable, the enforcer's model | get, add, remove, reload, save | node-casbin |
| User administration: `users.service.ts`, admin `users` handlers | `User.role` | update role, list | cache |
| Rate limiter: `rate-limit-redis-store.ts`, `rate-limit.middleware.ts` | Redis counters with a time to live | increment (decrement and reset are not called) | Redis |
| Mail queue: `queue.ts`, `worker-factory.ts`, `tasks/email`, `bull-board.ts` | BullMQ jobs in Redis, worker instance | add, process, retry, register, shutdown | Resend |
| Start and shutdown: `src/index.ts`, `src/tasks/index.ts` | connections | boot, SIGTERM, SIGINT | queue, Prisma |
| Policy sync script: `scripts/sync-policies.ts` | table `casbin_rule`, from a process of its own | sync | policy store |
| The rest: health endpoints, pages, templates, schemas, OpenAPI, device detection, configuration, tests | none that a decision depends on | | |

What is hard, and what makes each part correct:

- **Sessions.** The documented cap of five sessions must hold although counting,
  evicting and inserting are three calls; eviction must take the oldest although
  it acts on an earlier read; a live session must not vanish without a cause; a
  refresh, whose own cleanup may delete its session, must not end on another
  user's session or leave two sessions for one login; logout must be final.
- **Password reset.** A token must work once, for its lifetime, and a reset must
  end the sessions of the old password although logins and refreshes overlap it; a
  token that was mailed must not be replaced while the user waits for it.
- **Accounts.** An address must have one account although it can be spelled
  in several ways and the lookup precedes the insert by a slow hash; unused
  tokens must not pile up; whatever step fails, the user must be able to recover.
- **Authorisation.** A role change must reach decisions although they go through
  a cache that other requests fill at the same time and whose failures are
  swallowed.
- **Policy store.** The table, the enforcer and the admins' wishes must agree
  although every change rewrites the whole table and a reload swaps the enforcer.
  The sync script rewrites the table behind the server's back.
- **Rate limiter.** A counter is incremented by one command and given its lifetime
  by another, which may be lost or late; no client may be locked out for good, and
  no window may let in more than the ends of two windows together.
- **Mail queue and shutdown.** A mail must go out once, although answers, locks,
  connections and whole processes are lost on the way; no job may be forgotten;
  two signals must not cut the worker off in the middle of a job.

The complete list of hazards, each at its line with the property that covers it
or the reason why none does, is `hazards` in `PROJECT.json`. A few are what a property
names as its exceptions: `contested` in `Sessions`, `conflict` in `PolicyStore`, `raced`
in `PasswordReset`, the mails `Outbox` lets the application give up. They do happen in
the code; the properties say that nothing else goes wrong, and the list counts them as
not covered.

## 2. Modules

| module | models | checked by | proved in |
|---|---|---|---|
| `Sessions` | the session table and its handlers | `MCSessions`: `SessionsConcurrent`, `SessionsOverlap`, `RefreshLife` | `SessionsProofs` |
| `PasswordReset` | forgot and reset, with logins and refreshes | `MCPasswordReset`: `PasswordReset`, `ExpiredResetToken` | `PasswordResetProofs` |
| `RoleCache` | the role a request is decided with | `MCRoleCache`: `RoleCache` | `RoleCacheProofs` |
| `RoleInForce` | what a change of role promises (abstract) | refined by `RoleCache` | `RoleCacheProofs` |
| `PolicyStore` | the policies it is decided with, and the sync script | `MCPolicyStore`: `PolicyStore`, `AdminLockout` | `PolicyStoreProofs` |
| `Accounts` | registration, resend, verification | `MCAccounts`: `Accounts`, `AccountRecovery` | `AccountsProofs` |
| `RateLimit` | one counter of one limiter | `MCRateLimit`: `RateLimit` | `RateLimitProofs` |
| `MailQueue` | queue, worker, process, shutdown | `MCMailQueue`: `MailQueue` | `MailQueueProofs` |
| `Outbox` | what the application promises about its mails (abstract) | refined by `MailQueue` | `MailQueueProofs` |

The modules of request handlers have the same shape. `Requests` is a set of slots for
the requests in flight; `req[r]` holds a handler's local variables and `pc`, the database call it
makes next. An action `Foo(r)` performs one awaited call together with everything
up to the next one, and bears the name of the service function. Beginning a
request in an idle slot is always possible, so a slot stands for any number of
requests one after the other. `Fail(r)` ends a request between any two calls: a
database error, a dropped connection, a killed process. Nothing is rolled back,
as the code has no transactions. Reads that cannot be told apart from the next
read are one step.

History variables (`loggedOut`, `contested`, `login`, `spent`, `excused`, `signedTwice`,
`raced`, `granted`, `unaware`, `conflict`, `seen`, `floor`, `done`, `lost`, `admitted`,
`sent`) are read by properties only.
Operators marked `mutant` are faulty variants of the definition that follows
them and are used by no specification; they document which bug each property
detects.

### Sessions
`session` is the `Session` table as a function from row ids; tokens are JWTs over
the user and the expiry in milliseconds, so a row is known by its user and
expiries, and the unique columns become `Unique`. `CleanupExpiredSessions`,
`GetActiveSessions` and `Evict` are the three calls of `manageUserSessions`
(`session.service.ts:35-52`), `GetSessionById`, `CreateSession`, `UpdateSession`
the ends of the login and refresh handlers. A refresh reads its token twice
(`BeginRefresh`, `Reread`), as middleware and service do. `createdAt` and
`updatedAt` are the columns Prisma stamps; `updatedAt` is what tells a session that
a refresh has revived from one that was never used again. A refresh at the cap
evicts another device although it adds no session: the model does the same.

### PasswordReset
One user. `reset` is the table; a token is its expiry. `FindExisting`, `Sign`,
`Store`, `Mail` are forgot-password; `FindUsable`, `ChangePassword`, `MarkUsed`,
`DeleteAllUserSessions` are reset-password. `sessions` keeps of every session the
password that opened it, so a login is a check and an insert (`CheckPassword`,
`OpenSession`). A refresh checks no password: it finds the session of its token
(`FindRefreshToken`), and when `GetSessionById` finds it gone it opens a new one that
goes by the same password (`auth.handlers.ts:120-132`). One session may go at any time
by a logout, an eviction or a cleanup; the model lets a refresh find its own gone and
otherwise keeps the password, so `sessions` is at least what the table has.
`TokenExpired` is `FALSE` because the code compares an invalid date.

### RoleCache
One user. A role is the number of the change that set it, so "older" has a
meaning. `Hit`, `Miss`, `FindUserById`, `SetCache`, `Enforce` are the awaited
calls of `casbinMiddleware`; `UpdateUserRole`, `DeleteUserCache` those of the
role update. `MayFail` distinguishes the Redis cache, whose errors are swallowed,
from the in-memory one. `cached.left` is the time to live.

`RoleInForce` says what a change of role promises while all this goes on: a set of
roles may be in use for a while, a role that is out of use stays out of use, and in
the end only the current one is left. `usable` is mapped to the roles the user row,
the cache and the requests in flight hold (`Usable`).

### PolicyStore
`store` is the table, `enforcer` the module variable of `lib/casbin.ts`, `model`
the memory of each enforcer object. An admin request passes the middleware
(`GetEnforcer` … `Admit`), and its handler asks for an enforcer again. node-casbin
is external and modelled from how it is used: `loadPolicy` empties the model
before its query, `addPolicy` writes through the adapter and then changes the
model, `savePolicy` deletes all rows and creates those of the model. Lists of
rules are sets. Since node-casbin has already saved the change, the explicit
`savePolicy` is redundant, and it is what makes overlapping changes dangerous.
Policies and role assignments take the same path; an assignment made through
`rbac` never affects a decision, as the middleware enforces with `User.role`.

`SyncErase` and `SyncWrite` are the two writes of `syncCsvToDatabase`, in a process
that shares the table with the server and nothing else. `unaware` says that the
enforcer was loaded before the last sync: until a reload or a restart it decides by
the old policies, and a change made on it saves those over the synced ones.

### Accounts
One address in several spellings; `users` is a sequence in order of creation.
`UserExists` looks for the lower-case spelling, `CreateUser` stores the spelling
as it came. `unused` holds the verification rows not used yet, `latest` the age of
each user's newest row (what the five-minute wait looks at), `mailed` the tokens
that reached the user. An e-mail address taken in another spelling than lower case
is refused by the unique column with a 500, not by the lookup with a 400.
A mail goes through the queue: `queued` holds the tokens whose job has not run,
`SendEmailVerificationJob` delivers one at any later time, even after a resend has
invalidated it, and `FailedJob` loses it. A resend returns its token in the answer
too, so there the mail may bring nothing new.

### RateLimit
One counter: a limiter and a client key. All clients without a forwarding header
share the key `unknown`, so overlapping requests are the normal case. `hits` and
`left` are the key and its time to live in Redis. `Increment`, `ReadTtl` and
`SetExpiry` are the commands of `increment`; `incr` and `pttl` travel in one
pipeline, but Redis may expire the key or serve another client between them.
`Fail` is a command that fails or a process that stops; `Tick` is time. `admitted`
keeps the requests let in during the last `Window` units; each is known by the hit
it was of its counter and by how many counters ago that was (`life`), so no two of
them are alike.

### MailQueue
`status` is the state of each mail's job in Redis, before it the token in the
database (`saved`) and, when the queue refused it, `unqueued`. The worker holds one
job at a time (`concurrency: 1`): `TakeJob`, `SendMail` (the job calls Resend, which
accepts, refuses, or accepts and its answer is lost), `FinishJob`. BullMQ is external
and modelled from the options the code passes and leaves at their defaults: no
`attempts`, so a failure is final; `maxStalledCount` 1, so a job whose lock is gone
is put back once and then failed. `Start` is boot with the worker's registration,
`Signal`, `CloseWorker`, `QuitRedis`, `Exit` one run of `handleShutdown` per signal;
`Crash` ends the process anywhere. While Redis is away commands wait
(`maxRetriesPerRequest: null`), so `AddJob` and `FinishJob` need a
connection that is ready or ended; ioredis answers a `quit` at once unless other
commands wait, so `QuitRedis` needs none.

`Outbox` is the outside view: a mail is owed, queued, sent or lost; whatever happens
in between, a queued mail is sent or lost sooner or later, and a mail sent stays sent.
`Stage` maps a job to it.

### Interaction
`PasswordReset` ends in the revocation that `Sessions` has as
`DeleteAllUserSessions`; `Sessions` starts where the password check of
`PasswordReset` succeeds; `RoleCache` decides the role and `PolicyStore` what the
role may do. `Accounts` has the queue of `MailQueue` as its environment: what it
assumes of it - a mail arrives later or never, and not for ever later - is what
`MailQueue` is shown to keep as `Outbox`. Modules that share a table are kept apart
otherwise: their product has too many states for the interleavings that matter, and
what one needs of the other is a step or two in it (a login and a refresh in
`PasswordReset`, a revocation in `Sessions`).

## 3. What the runs show

Passing runs:

| run | properties | shows |
|---|---|---|
| `sessions_concurrent` | `TypeOK`, `SessionCapUpToConcurrency`, `CapInv`, `VictimsAreOldest`, `LiveSessionsLeaveForCause` | with overlapping requests the cap is exceeded by at most one session per further request; eviction by an outdated read never takes a session opened after the last use of one it spares; no valid session disappears without eviction, logout or revocation |
| `sessions_overlapping` | `RefreshTargetsOwnUser`, `OneSessionPerLogin`, `LogoutIsFinal` | with requests of two users overlapping, a login keeps one session and a logout is final through any refreshes, evictions, cleanups, revocations and failures, unless the login is contested: a second refresh or a logout overtook a refresh of it |
| `password_reset` | `TypeOK`, `RowsBoundedByConcurrency`, `SpentTokensStaySpent`, `MailedTokensWork`, `OldSessionsExplained` | a used token stays used, a mailed one works until it is used or expires unless an overlapping request replaces it, at most one row per overlapping request, and every old session left after a reset is one of a login or a refresh that was in flight when the sessions were deleted, or of a reset that failed |
| `role_cache` | `TypeOK`, `CoherenceInv`, `StaleDecisionsExplained`, `RolesConverge`, `KeepsPromise` | a replaced role is used only when a fill in flight or a failed delete kept it, not for ever, and once out of use never again (`RoleInForce` is implemented) |
| `policy_store` | `TypeOK`, `QuietAgreement`, `ChangesReachEnforcer` | table, enforcer and requested policies agree whenever nothing is half way, whatever additions and loads overlap and whenever the sync script runs; only the overlaps named in `Conflict` break this |
| `accounts` | `TypeOK`, `TwinsExplained`, `UnusedBounded` | a second account of an address needs an upper-case predecessor or a lookup before it; unused tokens never outnumber overlapping requests |
| `account_recovery` | `EventuallyVerified` | whichever steps or mails fail, a user who keeps trying is verified |
| `rate_limit` | `TypeOK`, `AdmittedBounded`, `ImmortalExplained`, `AdmittedAgain` | within one window's length at most twice the limit is let in, even when a late `pexpire` meets a later counter; a counter without a time to live has a lost request to explain it, and the client is let in again all the same |
| `mail_queue` | `TypeOK`, `SentOncePerTry`, `CompletedWasSent`, `GracefulExit`, `KeepsPromise` | a mail goes out again only when its job was put back or retried; what is recorded as completed was sent; no shutdown reaches Redis with a job in the worker's hands (Redis may still call a job active whose lock was lost; it is found stalled later); `Outbox` is implemented, liveness included |

Runs whose violation is the result (`findings` in `PROJECT.json`):

| run | property | what the code does |
|---|---|---|
| `refresh_token_life` | `RefreshTokensLastTheirLife` | the cleanup deletes rows by the access expiry, so a 30-day refresh token ends after 2 days once any request of the user cleans up |
| `expired_reset_token` | `ExpiredTokensRefused` | the expiry check reads a claim that is never signed; an expired reset token changes the password |
| `admin_lockout` | `AdminsNotLockedOut` | an enforcer is published before its second load; when that load fails, every admin request is refused, the reload included |

Three more places where the repository's README and the code part, seen in passing
runs: README.md:725 "Max Sessions: 5" (`SessionCapUpToConcurrency`: one more for
each further login that overlaps); users.routes.ts:72 "invalidate cache
automatically" (`StaleDecisionsExplained`: a fill that overlaps an update brings the
old role back for up to 300 seconds); README.md:760 "Retry: 3 attempts with
exponential backoff" (`SentOncePerTry`: the queue sets no attempts). README.md:729-731
lists an API and an admin limiter that no route uses, and README.md:981 "Graceful
shutdown (no data loss)" holds for jobs (`GracefulExit`), not for requests in flight:
the shutdown does not wait for them, and a token may be saved whose mail is not queued.

### Bounds, and why they are enough
- **Two requests** (three for `RoleCache`): each race known here needs two
  handlers, and slots are reused, so histories are longer than two requests. A
  third slot for `RoleCache` allows a decision to follow a fill that overlaps an
  update. `AccountRecovery` uses one slot because its property is
  about requests that do not overlap.
- **`MaxSessions` 2** instead of 5 gives a full table, an eviction of one and, with
  an overshoot, an eviction of two. **`MaxRows` 4** and
  **`MaxTime` 3 or 4** allow eviction, expiry of one session while others live, and
  an insert after both. `SessionsOverlap` has `MaxSessions` 1, so that every refresh
  evicts the session it came from, and `MaxRows` 3: a login, the session one refresh
  opens for it and the one a second refresh opens.
- **Lifetimes** of 0 to 3 units keep the order that matters (access before refresh,
  wait before life) and let tokens be signed in the same instant. Tokens of one
  instant collide, so a user has at most `AccessLife + 1` active sessions in the
  model: `AccessLife` is 3 in the run about the cap, enough for a wrong count to show.
  In `SessionsOverlap` it is 1 with a clock that goes to 2, so that sessions expire
  between any two calls of a refresh.
- **`VictimsAreOldest`** can be disturbed by a refresh that revives an expired session
  only with a third request in flight (one refreshes, one opens the younger session,
  one evicts). The run has two; for any number of requests the property is proved.
- **`MaxPasswords`, `MaxChanges`, `MaxUsers` 2**: a second change or account while
  the first is still in flight. `password_reset` has `ResetLife` 1 and a clock that goes
  to 3: a row expires, and two requests that found it expired sign different tokens.
- **Three rules** besides the admin's own, one of them in `policy.csv`, let one
  change overwrite another and a sync both add and remove. After a conflict the
  properties of `PolicyStore` claim nothing, so `policy_store` goes no further there
  (`NoConflict`); `admin_lockout` has no such constraint.
- **`RateLimit`**: `Limit` 2 and `Window` 3 give a second request within a window and
  two windows within one window's length; three requests let two overlap while a
  third starts the next counter. The counter stops at `Limit + 1`, beyond which all
  counts are answered alike.
- **`MailQueue`**: two mails for one worker; `Retriable` allows one of them one retry
  on the board. Puts-back are bounded by BullMQ itself, crashes, signals and lost
  connections not at all.
- `MCSessions` identifies, in the run whose properties do not read the history, the
  states that differ in history, in the numbers of the rows or in local variables
  that no later step reads; where the properties read it, those that differ in logins
  no row and no refresh carries any more; `MCPasswordReset` those that differ in
  expired tokens and old passwords nothing carries any more; `MCPolicyStore` hides
  enforcers nothing refers to. Symmetry is used in runs
  without liveness only.

### Fairness
Four runs assume it. `RoleCache`: the awaited calls of a request settle
(`WF` of each request's `Progress`; Prisma and ioredis answer or reject) and the
clock runs (`WF` of `Expire`); no request has to arrive. `Accounts`: the property is
about a user who keeps asking for mails and following them, so these requests are
strongly fair, and no step and no mail job fails *every* time. `Prompt` says that a
request and its mail take less than the five minutes between two mails, and with
one slot the requests for an account do not overlap: overlapping resends could
invalidate each other's tokens for ever. `RateLimit`: the client keeps asking (`WF` of
`Increment`), time passes, and a command that can be sent again and again is not
lost each time (`SF`). `MailQueue`: a stopped process is started again and Redis comes
back; steps of requests, worker and shutdown that are possible again and again are
not cut off each time (`SF`), and now and then Redis is back while an idle worker is
not being shut down. Without this last condition a process that is stopped
whenever it has started would send nothing. Nothing obliges Resend to accept a mail.

## 4. What is proved

TLAPS proves these for any set of requests, any bounds and any lifetimes. The
only assumptions are the `ASSUME`s of the modules (naturals, finite sets of
requests, a cap of at least one).

| theorem | statement | argument |
|---|---|---|
| `SessionsProofs!TypeCorrect` | `Spec => []TypeOK` | inductive as it stands |
| `SessionsProofs!RefreshStaysWithUser` | `[]RefreshTargetsOwnUser` | ids are never reused and rows never change owner |
| `SessionsProofs!CapInvariant`, `SessionCapHolds`, `SequentialSessionCap` | `[]CapInv`, `[]SessionCapUpToConcurrency`, and `[]SessionCap` for one slot | see below |
| `SessionsProofs!EvictionTakesOldest`, `LiveSessionsLast` | `[]VictimsAreOldest`, `LiveSessionsLeaveForCause` | see below |
| `SessionsProofs!OneSessionHolds`, `LogoutHolds`, `SequentialUncontested` | `[]OneSessionPerLogin`, `[]LogoutIsFinal`, and no login contested for one slot | see below |
| `PasswordResetProofs!TypeCorrect`, `RowsBounded`, `UsedTokensStayUsed` | type, row bound, used tokens | rows are numbered without gaps; a token about to be stored is new or signed twice |
| `PasswordResetProofs!MailedTokensAreHonoured` | `[]MailedTokensWork` | a row somebody is about to rewrite has a token that has expired, or was stored after that request had found the row |
| `PasswordResetProofs!SessionsOfOldPasswords` | `[]OldSessionsExplained` | the same explanation holds for the logins and refreshes in flight, which open the sessions |
| `RoleCacheProofs!TypeCorrect`, `Coherence`, `StaleDecisions` | type, coherence, decisions | `CoherenceInv` with the bound on what a request remembers is inductive |
| `RoleCacheProofs!RolesStayRetired` | `Promise!Init /\ [][Promise!Next]` of `RoleInForce` | a step either adds the new role or brings no role into use |
| `RateLimitProofs!TypeCorrect`, `Immortal` | type, `[]ImmortalExplained` | only a request between its `incr` and its `pexpire` can leave a counter without a lifetime, and `lost` records the ones that stop there |
| `RateLimitProofs!Admitted` | `[]AdmittedBounded` | see below |
| `MailQueueProofs!TypeCorrect`, `OncePerTry`, `Completed`, `Graceful` | type, `SentOncePerTry`, `CompletedWasSent`, `GracefulExit` | see below |
| `MailQueueProofs!PromiseKept` | `Promise!Init /\ [][Promise!Next]` of `Outbox` | one job moves at a time, except when the process stops and gives up all that is owed |
| `AccountsProofs!Twins` | `[]TwinsExplained` | what a request saw at its lookup is a prefix of `users`, and none of it is lower case |
| `AccountsProofs!AccountTypes` | `[]TypeOK` | the rows of each user and the requests are at most `Cardinality(Requests)` each, so a token is free whenever one is signed |
| `AccountsProofs!UnusedTokensBounded` | `[]UnusedBounded` | counts the requests about to insert a row with the rows; a resend gets there only by invalidating all earlier ones |
| `PolicyStoreProofs!PolicyTypes` | `[]TypeOK` | fewer enforcers are referred to than there are, so a spare one exists |
| `PolicyStoreProofs!ChangesReach`, `PolicyAgreement` | `[]ChangesReachEnforcer`, `[]QuietAgreement` | see below |

The cap is the deepest. `SessionCapUpToConcurrency` alone is not inductive: a
request that has chosen its victims and one about to insert can both be pending.
`CapInv` says: for every set `T` of pending evictions, the sessions they would
leave plus the requests that may then add one stay within the bound. A count that
finds no room turns its request into a pending eviction whose victims leave a
place; the eviction of a request removes it from `T` and puts it among those that add.

`SentOncePerTry` is not inductive either: a job on its way to Resend has not been
counted yet. `TryInv` counts it: a mail's acceptances, plus one if its job still waits
to be taken, plus one if the worker is about to send it, are paid for by the first
try, the puts-back and the retries. It needs `JobInv`: the job in the worker's hands
has been queued, and a locked job is active, so no other action moves it.
`GracefulExit` needs that a shutdown passes `CloseWorker` only with the worker gone.

**Eviction** (`EvictInv` of `SessionsProofs`). A request carries victims only between
its read and its deleteMany, and they are ids of its own user's rows, which are never
given out again: so an eviction deletes nobody else's sessions, which is what
`LiveSessionsLast` needs. No row is stamped later than the clock. Whatever becomes
active after the read - a row inserted, or an expired one that a refresh revives - is
stamped with the time it does, and no victim was created after the read. With
`createdAt` in the place of `updatedAt` the statement is false from three requests on:
a refresh that was in flight when its session expired revives it after another
request has read the active sessions.

**Logins** (`LineInv` of `SessionsProofs`). A refresh in flight holds the login of the row
it found (`Held`): as long as the login is not contested no other refresh holds it, no
other row has it, no logout has ended it, and when the refresh comes to open a new
session the row it found is gone. The last part needs the ids to be fresh, which is
`RefreshTargetsOwnUser`. `contested` is set at the only two steps that can break this: a
second refresh finds a row of the same login, or a logout presents the token of one.
Evictions, cleanups, revocations and updates only take rows away or keep their login.
With one slot neither step can meet a refresh in flight (`SequentialUncontested`), so
there the two statements have no exception.

**What is let in** (`Lives` and `Distinct` of `RateLimitProofs`). Requests let in within
a window's length belong to the present counter or to the one before it. While the
present counter has `left` units to live, those of the earlier one are older than
`Window - left`, so they have left the window when it runs out; a `pexpire` only moves
that end away, whoever sends it. Each counter lets in at most `Limit`, one per hit.

**Policies** (`IInv` of `PolicyStoreProofs`). `Agree` says, as long as no conflict is
noted, what the phase each request is in makes of the difference between `granted` and
the table: a granted rule that is not there is about to be written, or about to be
withdrawn (`NothingLost`, `Owed`); a row nobody granted is about to be granted or to be
wiped out (`NothingGained`, `Passing`). What a load has read is what was granted
(`Fetched`), what a save will write is part of it (`Built`), and the enforcer in force
has what was granted or is empty and being loaded (`InForce`). Between the two writes of
a sync the table is empty and the enforcer `unaware`. `Noted` says that every overlap
that does harm has set `conflict`. With nothing half way, `QuietAgreement` is left.

Only model-checked: liveness (`RolesConverge`, `EventuallyVerified`, `AdmittedAgain`
and the fairness half of both refinements), which the installed back ends cannot
prove. Every other property of a passing run is the statement of a theorem.

## 5. Not modelled

- Several server processes: the cache, the enforcer and the worker are one process's.
  The CSV adapter of development cannot save, so only the database adapter is modelled.
- `worker.close` or `register` failing (BullMQ reports errors as events, and the
  registration makes no awaited call that could fail), the order of jobs and the
  worker's limit of two per second: none changes what may happen to a mail.
- Signatures, hashing and parsing: tokens are taken as unforgeable.
- Reads without effect (user lists, policy lists, health), layout and wording, and the
  script of the reset page, which keeps a form's state and calls a modelled endpoint.
- `decrement` and `resetKey` of the rate-limit store: not called with the options
  this repository sets. `stats`, `exists`, `increment` and the other operations of
  `cache-redis.ts` that no handler uses for a decision.
- Pausing the queue and removing jobs on the board (`bull-board.ts`): an operator's
  doing; of what the board offers only the retry of a failed job is modelled.
- What a client holds: a refresh whose answer is lost replaces a token its client
  still uses.

## 6. Plan

Done, in the order of the weight of the behaviour: `Sessions`, `PasswordReset`,
`RoleCache`, `PolicyStore`, `Accounts`, `MailQueue`, `RateLimit`; the abstract
specifications `RoleInForce` and `Outbox` with their refinements; the proofs of every
safety and action property of the passing runs. Left:

1. An abstract specification of the account of one address (registered, verified), with
   `Accounts` shown to implement it.

## 7. Running

    tlc -workers 2 -config SessionsConcurrent.cfg MCSessions
    tlapm SessionsProofs.tla

Each run ends within three minutes on two cores.
