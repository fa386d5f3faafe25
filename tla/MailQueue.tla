------------------------------ MODULE MailQueue ------------------------------
(***************************************************************************)
(* The mail queue, its worker and the life of the process: src/lib/        *)
(* queue.ts, src/tasks/, src/lib/resend.ts and src/index.ts.               *)
(*                                                                         *)
(* BullMQ keeps the jobs in Redis, where they outlive the process.  The    *)
(* queue sets no attempts, so a job that fails stays failed until somebody *)
(* retries it on the board.  A job whose lock has run out is put back      *)
(* once; the second time it fails.                                         *)
(***************************************************************************)
EXTENDS Integers

CONSTANTS
    Jobs,          \* the mails
    None,          \* no job
    Retriable      \* bound: the jobs that may be retried on the board, each once

ASSUME NoneAssumption      == None \notin Jobs
ASSUME RetriableAssumption == Retriable \subseteq Jobs

Signals == {"SIGTERM", "SIGINT"}

VARIABLES
    status,        \* each job's state; saved: its token is in the database
    stalls,        \* how often each job was put back as stalled
    retries,       \* how often each job was retried on the board
    sent,          \* history: how often Resend accepted each mail
    up,            \* whether the process runs
    conn,          \* the state of the process's Redis connection
    worker,        \* the worker, the job it processes and that job's lock
    sig            \* how far handleShutdown is, for each signal

queue   == <<status, stalls, retries, sent>>
process == <<up, conn, sig>>
vars    == <<queue, process, worker>>

Status    == {"none", "saved", "unqueued", "waiting", "active", "completed", "failed"}
Worker    == [pc: {"absent", "idle", "send", "ok", "error"}, job: Jobs \union {None},
              locked: BOOLEAN, closing: BOOLEAN]
Absent    == [pc |-> "absent", job |-> None, locked |-> FALSE, closing |-> FALSE]
Unstarted == [s \in Signals |-> "armed"]
Sets(j, s) == status' = [status EXCEPT ![j] = s]

Init ==
    /\ status = [j \in Jobs |-> "none"]
    /\ stalls = [j \in Jobs |-> 0]
    /\ retries = [j \in Jobs |-> 0]
    /\ sent = [j \in Jobs |-> 0]
    /\ up = FALSE
    /\ conn = "connecting"
    /\ worker = Absent
    /\ sig = Unstarted

-----------------------------------------------------------------------------
(***************************************************************************)
(* A request saves a token, then adds a job.  While the connection is down *)
(* the add waits (maxRetriesPerRequest null); after a quit it is refused.  *)
(***************************************************************************)
SaveToken(j) ==
    /\ up
    /\ status[j] = "none"
    /\ Sets(j, "saved")
    /\ UNCHANGED <<stalls, retries, sent, process, worker>>

AddJob(j) ==
    /\ status[j] = "saved"
    /\ \/ conn = "ready" /\ Sets(j, "waiting")
       \/ conn = "end" /\ Sets(j, "unqueued")
    /\ UNCHANGED <<stalls, retries, sent, process, worker>>

\* The board puts a failed job back into the queue.
RetryJob(j) ==
    /\ up /\ conn = "ready"
    /\ status[j] = "failed"
    /\ j \in Retriable /\ retries[j] = 0
    /\ Sets(j, "waiting")
    /\ retries' = [retries EXCEPT ![j] = 1]
    /\ UNCHANGED <<stalls, sent, process, worker>>

(***************************************************************************)
(* The worker: one job at a time.                                          *)
(***************************************************************************)
TakeJob(j) ==
    /\ worker.pc = "idle" /\ ~worker.closing
    /\ conn = "ready"
    /\ status[j] = "waiting"
    /\ Sets(j, "active")
    /\ worker' = [worker EXCEPT !.pc = "send", !.job = j, !.locked = TRUE]
    /\ UNCHANGED <<stalls, retries, sent, process>>

ErrorIgnored ==   \* mutant: response.error is not looked at
    /\ worker.pc = "send"
    /\ \/ sent' = [sent EXCEPT ![worker.job] = @ + 1]
       \/ UNCHANGED sent
    /\ worker' = [worker EXCEPT !.pc = "ok"]
    /\ UNCHANGED <<status, stalls, retries, process>>

\* Resend accepts the mail or answers an error, which the job throws; or it
\* accepts the mail and the answer is lost, which the client throws.
SendMail ==
    /\ worker.pc = "send"
    /\ \/ /\ sent' = [sent EXCEPT ![worker.job] = @ + 1]
          /\ \E pc \in {"ok", "error"} : worker' = [worker EXCEPT !.pc = pc]
       \/ /\ UNCHANGED sent
          /\ worker' = [worker EXCEPT !.pc = "error"]
    /\ UNCHANGED <<status, stalls, retries, process>>

Outcome(pc) == IF pc = "ok" THEN "completed" ELSE "failed"

FailedTriesAgain ==   \* mutant: a failed job has another attempt (README.md:760)
    /\ worker.pc \in {"ok", "error"}
    /\ conn = "ready" /\ worker.locked
    /\ Sets(worker.job, IF worker.pc = "ok" THEN "completed" ELSE "waiting")
    /\ worker' = [worker EXCEPT !.pc = "idle", !.job = None, !.locked = FALSE]
    /\ UNCHANGED <<stalls, retries, sent, process>>

\* The outcome reaches Redis only with the job's lock and an open connection;
\* without them the job is left as it is.
FinishJob ==
    /\ worker.pc \in {"ok", "error"}
    /\ conn # "connecting"
    /\ IF worker.locked /\ conn = "ready"
         THEN Sets(worker.job, Outcome(worker.pc))
         ELSE UNCHANGED status
    /\ worker' = [worker EXCEPT !.pc = "idle", !.job = None, !.locked = FALSE]
    /\ UNCHANGED <<stalls, retries, sent, process>>

\* The lock cannot be renewed while the connection is down.
LoseLock ==
    /\ worker.locked /\ conn # "ready"
    /\ worker' = [worker EXCEPT !.locked = FALSE]
    /\ UNCHANGED <<queue, process>>

StalledEachTime(j) ==   \* mutant: a stalled job is put back however often it stalls
    /\ worker.pc # "absent" /\ ~worker.closing
    /\ conn = "ready"
    /\ status[j] = "active" /\ ~(worker.job = j /\ worker.locked)
    /\ Sets(j, "waiting")
    /\ stalls' = [stalls EXCEPT ![j] = @ + 1]
    /\ UNCHANGED <<retries, sent, process, worker>>

\* An active job whose lock is gone: its process stopped or lost it.
FindStalled(j) ==
    /\ worker.pc # "absent" /\ ~worker.closing
    /\ conn = "ready"
    /\ status[j] = "active" /\ ~(worker.job = j /\ worker.locked)
    /\ IF stalls[j] = 0
         THEN Sets(j, "waiting") /\ stalls' = [stalls EXCEPT ![j] = 1]
         ELSE Sets(j, "failed") /\ UNCHANGED stalls
    /\ UNCHANGED <<retries, sent, process, worker>>

(***************************************************************************)
(* The process.  Redis may go and come back; it cannot come back after the *)
(* connection was quit.                                                    *)
(***************************************************************************)
StartWithoutWorker ==   \* mutant: registerAllWorkers leaves early, as in a test
    /\ ~up
    /\ up' = TRUE
    /\ UNCHANGED <<queue, conn, sig, worker>>

Start ==
    /\ ~up
    /\ up' = TRUE
    /\ worker' = [Absent EXCEPT !.pc = "idle"]
    /\ UNCHANGED <<queue, conn, sig>>

Connect    == up /\ conn = "connecting" /\ conn' = "ready"
Disconnect == conn = "ready" /\ conn' = "connecting"
Redis ==
    /\ Connect \/ Disconnect
    /\ UNCHANGED <<queue, worker, up, sig>>

\* The end of the process: Redis and the database keep what they have, and the
\* requests in flight are cut off.
Stop ==
    /\ up' = FALSE /\ conn' = "connecting"
    /\ worker' = Absent
    /\ sig' = Unstarted
    /\ status' = [j \in Jobs |-> IF status[j] = "saved" THEN "unqueued" ELSE status[j]]
    /\ UNCHANGED <<stalls, retries, sent>>

Crash == up /\ Stop

(***************************************************************************)
(* handleShutdown, once per signal; the two may overlap.  The worker takes *)
(* no new job once it is closing and is closed when it has none; closing   *)
(* it twice is closing it once, and BullMQ reports the errors of a close   *)
(* without throwing them.                                                  *)
(***************************************************************************)
Registered == worker.pc # "absent"
Steps(s, pc) == sig' = [sig EXCEPT ![s] = pc]

ForgetWorkerFirst(s) ==   \* mutant: workerInstance = null before the close
    /\ up /\ sig[s] = "armed"
    /\ Steps(s, IF Registered /\ ~worker.closing THEN "close" ELSE "quit")
    /\ worker' = [worker EXCEPT !.closing = TRUE]
    /\ UNCHANGED <<queue, up, conn>>

Signal(s) ==
    /\ up /\ sig[s] = "armed"
    /\ Steps(s, IF Registered THEN "close" ELSE "quit")
    /\ worker' = [worker EXCEPT !.closing = Registered]
    /\ UNCHANGED <<queue, up, conn>>

CloseWorker(s) ==
    /\ sig[s] = "close"
    /\ worker.job = None
    /\ worker' = Absent
    /\ Steps(s, "quit")
    /\ UNCHANGED <<queue, up, conn>>

\* connection.quit; when the other signal's handler came first it throws, and
\* the process exits at once.  While Redis is away it waits only behind commands
\* that wait already, so it may be through at any time.
QuitRedis(s) ==
    /\ sig[s] = "quit"
    /\ Steps(s, "exit")
    /\ conn' = "end"
    /\ UNCHANGED <<queue, up, worker>>

\* prisma.$disconnect, where nothing of this is left to wait for, and exit.
Exit(s) == sig[s] = "exit" /\ Stop

Shutdown(s) == CloseWorker(s) \/ QuitRedis(s) \/ Exit(s)

Next ==
    \/ \E j \in Jobs :
        \/ SaveToken(j)
        \/ AddJob(j)
        \/ RetryJob(j)
        \/ TakeJob(j)
        \/ FindStalled(j)
    \/ SendMail
    \/ FinishJob
    \/ LoseLock
    \/ Start
    \/ Redis
    \/ Crash
    \/ \E s \in Signals : Signal(s) \/ Shutdown(s)

Spec == Init /\ [][Next]_vars

\* A stopped process is started again, Redis comes back, and again and again it
\* does so while the worker waits for jobs and nobody stops the process; no step
\* of a request, of the worker or of a shutdown is cut off each time.
Fairness ==
    /\ WF_vars(Start)
    /\ SF_vars(Redis /\ Connect)
    /\ SF_vars(Redis /\ Connect /\ worker.pc = "idle" /\ ~worker.closing)
    /\ SF_vars(SendMail \/ FinishJob)
    /\ SF_vars(\E j \in Jobs : AddJob(j))
    /\ SF_vars(\E j \in Jobs : TakeJob(j))
    /\ SF_vars(\E j \in Jobs : FindStalled(j))
    /\ SF_vars(\E s \in Signals : Shutdown(s))

FairSpec == Spec /\ Fairness

-----------------------------------------------------------------------------
(***************************************************************************)
(* Properties.                                                             *)
(***************************************************************************)
TypeOK ==
    /\ status \in [Jobs -> Status]
    /\ stalls \in [Jobs -> 0 .. 1]
    /\ retries \in [Jobs -> 0 .. 1]
    /\ sent \in [Jobs -> Nat]
    /\ up \in BOOLEAN
    /\ conn \in {"connecting", "ready", "end"}
    /\ worker \in Worker
    /\ sig \in [Signals -> {"armed", "close", "quit", "exit"}]

\* A mail goes out once more only for a job that was put back as stalled or was
\* retried on the board, whatever stops, reconnects or loses an answer.
SentOncePerTry == \A j \in Jobs : sent[j] <= 1 + stalls[j] + retries[j]

\* A job counts as completed only when Resend accepted its mail, at some try.
CompletedWasSent == \A j \in Jobs : status[j] = "completed" => sent[j] > 0

\* README.md:981 "Graceful shutdown (no data loss)": when a signal's handler goes
\* on to close Redis and exits, no job is in the worker's hands, however the two
\* signals overlap.  Redis may still call a job active whose lock was lost.
GracefulExit ==
    \A s \in Signals : sig[s] \in {"quit", "exit"} => worker.job = None

\* Where a mail is, seen from outside.
Stage(j) ==
    IF sent[j] > 0 THEN "sent" ELSE
    CASE status[j] = "saved"                       -> "owed"
      [] status[j] \in {"waiting", "active"}       -> "queued"
      [] status[j] \in {"failed", "unqueued"}      -> "lost"
      [] OTHER                                     -> "none"

\* The queue keeps the promise of Outbox.tla: no mail is sent that is not owed, no
\* queued mail is forgotten, and none stays queued - crashes, restarts, shutdowns
\* and lost connections only delay its end.
Promise == INSTANCE Outbox WITH Mails <- Jobs, mail <- [j \in Jobs |-> Stage(j)]
KeepsPromise == Promise!Spec
=============================================================================
