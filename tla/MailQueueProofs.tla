--------------------------- MODULE MailQueueProofs ---------------------------
(***************************************************************************)
(* Proofs about MailQueue, for any number of mails and of retries.         *)
(***************************************************************************)
EXTENDS MailQueue, TLAPS

\* What the steps of a job do to its state.
LEMMA WorkerTypes ==
  /\ Absent \in Worker
  /\ [Absent EXCEPT !.pc = "idle"] \in Worker
  /\ \A w \in Worker : \A pc \in {"ok", "error"} : [w EXCEPT !.pc = pc] \in Worker
  /\ \A w \in Worker : \A j \in Jobs :
        [w EXCEPT !.pc = "send", !.job = j, !.locked = TRUE] \in Worker
  /\ \A w \in Worker : [w EXCEPT !.pc = "idle", !.job = None, !.locked = FALSE] \in Worker
  /\ \A w \in Worker : [w EXCEPT !.locked = FALSE] \in Worker
  /\ \A w \in Worker : \A b \in BOOLEAN : [w EXCEPT !.closing = b] \in Worker
<1>1. /\ Absent \in Worker
      /\ [Absent EXCEPT !.pc = "idle"] \in Worker
  BY DEF Worker, Absent
<1>2. ASSUME NEW w \in Worker
      PROVE  /\ \A pc \in {"ok", "error"} : [w EXCEPT !.pc = pc] \in Worker
             /\ \A j \in Jobs :
                  [w EXCEPT !.pc = "send", !.job = j, !.locked = TRUE] \in Worker
             /\ [w EXCEPT !.pc = "idle", !.job = None, !.locked = FALSE] \in Worker
             /\ [w EXCEPT !.locked = FALSE] \in Worker
             /\ \A b \in BOOLEAN : [w EXCEPT !.closing = b] \in Worker
  BY DEF Worker
<1> QED BY <1>1, <1>2

\* A worker that processes something has a job; only then can it hold a lock.
Busy == worker.pc \in {"send", "ok", "error"}

WorkerInv ==
    /\ Busy => worker.job \in Jobs
    /\ ~Busy => worker.job = None /\ ~worker.locked

\* A locked job is active, a job in the worker's hands has been queued, and an
\* outcome "ok" is that of a mail that was accepted.
JobInv ==
    /\ worker.locked => status[worker.job] = "active"
    /\ Busy => status[worker.job] \notin {"none", "saved", "unqueued"}
    /\ worker.pc = "ok" => sent[worker.job] > 0
    /\ CompletedWasSent

\* A shutdown goes on to Redis only when the worker is gone, and there is none
\* without a process.
ShutdownInv ==
    /\ ~up => sig = Unstarted
    /\ \A s \in Signals : sig[s] \in {"quit", "exit"} => worker.pc = "absent"

\* Every mail sent or still to be sent is paid for by a try.
Pending(j) == IF status[j] \in {"none", "saved", "waiting"} THEN 1 ELSE 0
Running(j) == IF worker.pc = "send" /\ worker.job = j THEN 1 ELSE 0
TryInv == \A j \in Jobs : sent[j] + Pending(j) + Running(j) <= 1 + stalls[j] + retries[j]

IInv == TypeOK /\ WorkerInv /\ JobInv /\ ShutdownInv /\ TryInv

-----------------------------------------------------------------------------
\* Every step keeps the types; the worker has the job it works on.
LEMMA TypeStep ==
  ASSUME TypeOK, WorkerInv, [Next]_vars PROVE TypeOK'
<1> USE DEF TypeOK, Status, process, queue, Sets
<1>1. ASSUME NEW j \in Jobs, SaveToken(j) PROVE TypeOK'
  BY <1>1 DEF SaveToken
<1>2. ASSUME NEW j \in Jobs, AddJob(j) PROVE TypeOK'
  BY <1>2 DEF AddJob
<1>3. ASSUME NEW j \in Jobs, RetryJob(j) PROVE TypeOK'
  BY <1>3 DEF RetryJob
<1>4. ASSUME NEW j \in Jobs, TakeJob(j) PROVE TypeOK'
  BY <1>4, WorkerTypes DEF TakeJob
<1>5. ASSUME NEW j \in Jobs, FindStalled(j) PROVE TypeOK'
  BY <1>5 DEF FindStalled
<1>6. CASE SendMail
  <2>1. worker.job \in Jobs
    BY <1>6 DEF SendMail, WorkerInv, Busy
  <2>2. sent' \in [Jobs -> Nat]
    BY <1>6, <2>1 DEF SendMail
  <2>3. worker' \in Worker
    <3>1. PICK pc \in {"ok", "error"} : worker' = [worker EXCEPT !.pc = pc]
      BY <1>6 DEF SendMail
    <3> QED BY <3>1, WorkerTypes
  <2> QED BY <1>6, <2>2, <2>3 DEF SendMail
<1>7. CASE FinishJob
  <2>1. Outcome(worker.pc) \in Status
    BY DEF Outcome
  <2>2. status' \in [Jobs -> Status]
    BY <1>7, <2>1 DEF FinishJob
  <2> QED BY <1>7, <2>2, WorkerTypes DEF FinishJob
<1>8. CASE LoseLock
  BY <1>8, WorkerTypes DEF LoseLock
<1>9. CASE Start
  BY <1>9, WorkerTypes DEF Start
<1>10. CASE Redis
  BY <1>10 DEF Redis, Connect, Disconnect
<1>11. ASSUME Stop PROVE TypeOK'
  BY <1>11, WorkerTypes DEF Stop, Unstarted
<1>12. ASSUME NEW s \in Signals, Signal(s) PROVE TypeOK'
  <2>1. worker' \in Worker
    BY <1>12, WorkerTypes DEF Signal, Registered
  <2>2. sig' \in [Signals -> {"armed", "close", "quit", "exit"}]
    BY <1>12 DEF Signal, Steps
  <2> QED BY <1>12, <2>1, <2>2 DEF Signal
<1>13. ASSUME NEW s \in Signals, CloseWorker(s) PROVE TypeOK'
  BY <1>13, WorkerTypes DEF CloseWorker, Steps
<1>14. ASSUME NEW s \in Signals, QuitRedis(s) PROVE TypeOK'
  BY <1>14 DEF QuitRedis, Steps
<1>15. CASE UNCHANGED vars
  BY <1>15 DEF vars
<1> QED BY <1>1, <1>2, <1>3, <1>4, <1>5, <1>6, <1>7, <1>8, <1>9, <1>10, <1>11, <1>12,
           <1>13, <1>14, <1>15 DEF Next, Crash, Shutdown, Exit

\* The worker has a job in hand when, and only when, it works on one.
LEMMA WorkerStep ==
  ASSUME TypeOK, WorkerInv, [Next]_vars PROVE WorkerInv'
<1> USE DEF TypeOK, WorkerInv, Busy, Worker
<1>1. ASSUME UNCHANGED worker PROVE WorkerInv'
  BY <1>1
<1>2. ASSUME NEW j \in Jobs, TakeJob(j) PROVE WorkerInv'
  BY <1>2 DEF TakeJob
<1>3. CASE SendMail
  BY <1>3 DEF SendMail
<1>4. CASE FinishJob
  BY <1>4 DEF FinishJob
<1>5. CASE LoseLock
  BY <1>5 DEF LoseLock
<1>6. CASE worker' = Absent \/ worker' = [Absent EXCEPT !.pc = "idle"]
  BY <1>6 DEF Absent
<1>7. ASSUME NEW s \in Signals, Signal(s) PROVE WorkerInv'
  BY <1>7 DEF Signal
<1> QED BY <1>1, <1>2, <1>3, <1>4, <1>5, <1>6, <1>7
           DEF Next, SaveToken, AddJob, RetryJob, FindStalled, Start, Redis, Crash, Stop,
               Shutdown, CloseWorker, QuitRedis, Exit, vars

\* The job in the worker's hands has been queued, and a locked job is active.
LEMMA JobStep ==
  ASSUME TypeOK, WorkerInv, JobInv, [Next]_vars PROVE JobInv'
<1> USE DEF TypeOK, WorkerInv, JobInv, Busy, Worker, CompletedWasSent, Sets
<1>1. ASSUME NEW j \in Jobs, SaveToken(j) \/ AddJob(j) PROVE JobInv'
  <2>1. worker' = worker /\ sent' = sent
    BY <1>1 DEF SaveToken, AddJob
  <2>2. /\ status[j] \in {"none", "saved"}
        /\ status'[j] # "completed"
        /\ \A i \in Jobs : i # j => status'[i] = status[i]
    BY <1>1 DEF SaveToken, AddJob
  <2>3. Busy => worker.job # j
    BY <2>2
  <2> QED BY <2>1, <2>2, <2>3
<1>2. ASSUME NEW j \in Jobs, RetryJob(j) PROVE JobInv'
  BY <1>2 DEF RetryJob
<1>3. ASSUME NEW j \in Jobs, TakeJob(j) PROVE JobInv'
  BY <1>3 DEF TakeJob
<1>4. ASSUME NEW j \in Jobs, FindStalled(j) PROVE JobInv'
  BY <1>4 DEF FindStalled
<1>5. CASE SendMail
  <2>1. worker.job \in Jobs /\ status' = status
    BY <1>5 DEF SendMail
  <2>2. /\ worker'.job = worker.job /\ worker'.locked = worker.locked
        /\ worker'.pc \in {"ok", "error"}
        /\ worker'.pc = "ok" => sent'[worker.job] > 0
        /\ \A i \in Jobs : sent[i] > 0 => sent'[i] > 0
    BY <1>5, <2>1 DEF SendMail
  <2> QED BY <1>5, <2>1, <2>2 DEF SendMail
<1>6. CASE FinishJob
  <2>1. worker.job \in Jobs /\ sent' = sent
    BY <1>6 DEF FinishJob
  <2>2. /\ worker'.pc = "idle" /\ ~worker'.locked
    BY <1>6 DEF FinishJob
  <2>3. CASE UNCHANGED status
    BY <2>1, <2>2, <2>3
  <2>4. CASE status' = [status EXCEPT ![worker.job] = Outcome(worker.pc)]
    <3>1. Outcome(worker.pc) = "completed" => worker.pc = "ok"
      BY DEF Outcome
    <3> QED BY <2>1, <2>2, <2>4, <3>1
  <2> QED BY <1>6, <2>3, <2>4 DEF FinishJob
<1>7. CASE LoseLock
  BY <1>7 DEF LoseLock, queue
<1>8. CASE Stop
  BY <1>8 DEF Stop, Absent
<1>9. CASE Start
  BY <1>9 DEF Start, Absent, queue
<1>10. ASSUME NEW s \in Signals, Signal(s) PROVE JobInv'
  BY <1>10 DEF Signal, queue
<1>11. ASSUME NEW s \in Signals, CloseWorker(s) PROVE JobInv'
  BY <1>11 DEF CloseWorker, Absent, queue
<1>12. ASSUME UNCHANGED <<queue, worker>> PROVE JobInv'
  BY <1>12 DEF queue
<1> QED BY <1>1, <1>2, <1>3, <1>4, <1>5, <1>6, <1>7, <1>8, <1>9, <1>10, <1>11, <1>12
           DEF Next, Redis, Crash, Shutdown, QuitRedis, Exit, vars

\* A shutdown passes CloseWorker only with the worker gone.
LEMMA ShutdownStep ==
  ASSUME TypeOK, WorkerInv, ShutdownInv, [Next]_vars PROVE ShutdownInv'
<1> USE DEF TypeOK, ShutdownInv, Worker, Unstarted, process
<1>1. CASE Stop
  BY <1>1 DEF Stop
<1>2. CASE Start
  BY <1>2 DEF Start
<1>3. ASSUME NEW s \in Signals, Signal(s) PROVE ShutdownInv'
  BY <1>3 DEF Signal, Steps, Registered
<1>4. ASSUME NEW s \in Signals, CloseWorker(s) PROVE ShutdownInv'
  BY <1>4 DEF CloseWorker, Steps, Absent
<1>5. ASSUME NEW s \in Signals, QuitRedis(s) PROVE ShutdownInv'
  BY <1>5 DEF QuitRedis, Steps
<1>6. ASSUME NEW j \in Jobs, TakeJob(j) PROVE ShutdownInv'
  BY <1>6 DEF TakeJob
<1>7. CASE SendMail
  BY <1>7 DEF SendMail
<1>8. CASE FinishJob
  BY <1>8 DEF FinishJob
<1>9. CASE LoseLock
  BY <1>9 DEF LoseLock
<1>10. ASSUME UNCHANGED <<up, sig, worker>> PROVE ShutdownInv'
  BY <1>10
<1> QED BY <1>1, <1>2, <1>3, <1>4, <1>5, <1>6, <1>7, <1>8, <1>9, <1>10
           DEF Next, SaveToken, AddJob, RetryJob, FindStalled, Redis, Crash, Shutdown, Exit,
               vars

\* Every acceptance under way is paid for, whichever step comes next.
LEMMA TryStep ==
  ASSUME TypeOK, WorkerInv, TryInv, [Next]_vars PROVE TryInv'
<1> USE DEF TypeOK, TryInv, Sets, queue
<1>1. ASSUME NEW j \in Jobs, SaveToken(j) \/ AddJob(j) \/ RetryJob(j) \/ FindStalled(j)
      PROVE  TryInv'
  <2>1. worker' = worker /\ sent' = sent
    BY <1>1 DEF SaveToken, AddJob, RetryJob, FindStalled
  <2>2. \A i \in Jobs : Running(i)' = Running(i)
    BY <2>1 DEF Running
  <2>3. \A i \in Jobs : i # j => /\ status'[i] = status[i]
                                /\ stalls'[i] = stalls[i] /\ retries'[i] = retries[i]
    BY <1>1 DEF SaveToken, AddJob, RetryJob, FindStalled
  <2>4. Pending(j)' - Pending(j) <= stalls'[j] - stalls[j] + retries'[j] - retries[j]
    BY <1>1 DEF SaveToken, AddJob, RetryJob, FindStalled, Pending
  <2>5. \A i \in Jobs : i # j => Pending(i)' = Pending(i)
    BY <2>3 DEF Pending
  <2>6. /\ stalls'[j] \in Nat /\ retries'[j] \in Nat
        /\ \A i \in Jobs : Pending(i) \in Nat /\ Pending(i)' \in Nat /\ Running(i) \in Nat
    BY <1>1 DEF SaveToken, AddJob, RetryJob, FindStalled, Pending, Running
  <2> HIDE DEF TryInv
  <2>7. ASSUME NEW i \in Jobs
        PROVE  sent'[i] + Pending(i)' + Running(i)' <= 1 + stalls'[i] + retries'[i]
    <3>1. /\ sent[i] + Pending(i) + Running(i) <= 1 + stalls[i] + retries[i]
          /\ sent[i] \in Nat /\ stalls[i] \in Nat /\ retries[i] \in Nat
      BY DEF TryInv
    <3>2. CASE i = j
      BY <2>1, <2>2, <2>4, <2>6, <3>1, <3>2
    <3>3. CASE i # j
      BY <2>1, <2>2, <2>3, <2>5, <3>1, <3>3
    <3> QED BY <3>2, <3>3
  <2> QED BY <2>7 DEF TryInv
<1>2. ASSUME NEW j \in Jobs, TakeJob(j) PROVE TryInv'
  <2>1. ~Busy
    BY <1>2 DEF TakeJob, Busy
  <2>2. \A i \in Jobs : Pending(i)' + Running(i)' = Pending(i) + Running(i)
    BY <1>2, <2>1 DEF TakeJob, Pending, Running, WorkerInv, Worker
  <2>3. \A i \in Jobs : Pending(i) \in Nat /\ Running(i) \in Nat
                       /\ Pending(i)' \in Nat /\ Running(i)' \in Nat
    BY DEF Pending, Running
  <2> QED BY <1>2, <2>2, <2>3 DEF TakeJob
<1>3. CASE SendMail
  <2>1. worker.job \in Jobs
    BY <1>3 DEF SendMail, WorkerInv, Busy
  <2>2. \A i \in Jobs : Running(i)' = 0
    BY <1>3 DEF SendMail, Running, Worker
  <2>3. /\ Running(worker.job) = 1
        /\ \A i \in Jobs : Running(i) \in Nat /\ Pending(i) \in Nat
    BY <1>3 DEF SendMail, Running, Pending
  <2>4. \A i \in Jobs : Pending(i)' = Pending(i)
    BY <1>3 DEF SendMail, Pending
  <2>5. \A i \in Jobs : sent'[i] <= sent[i] + Running(i) /\ sent'[i] \in Nat
    BY <1>3, <2>1, <2>3 DEF SendMail
  <2>6. stalls' = stalls /\ retries' = retries
    BY <1>3 DEF SendMail
  <2> QED BY <2>2, <2>3, <2>4, <2>5, <2>6
<1>4. ASSUME UNCHANGED <<sent, stalls, retries>>,
             \A i \in Jobs : Pending(i)' <= Pending(i),
             \A i \in Jobs : Running(i)' <= Running(i)
      PROVE  TryInv'
  <2>1. \A i \in Jobs : /\ Pending(i) \in Nat /\ Running(i) \in Nat
                        /\ Pending(i)' \in Nat /\ Running(i)' \in Nat
    BY DEF Pending, Running
  <2> QED BY <1>4, <2>1
<1>5. CASE FinishJob
  <2>1. \A i \in Jobs : Running(i)' <= Running(i)
    BY <1>5 DEF FinishJob, Running, Worker
  <2>2. \A i \in Jobs : Pending(i)' <= Pending(i)
    <3>1. Outcome(worker.pc) \notin {"none", "saved", "waiting"}
      BY DEF Outcome
    <3> QED BY <1>5, <3>1 DEF FinishJob, Pending
  <2> QED BY <1>4, <1>5, <2>1, <2>2 DEF FinishJob
<1>6. CASE Stop
  <2>1. \A i \in Jobs : Running(i)' <= Running(i)
    BY <1>6 DEF Stop, Running, Absent
  <2>2. \A i \in Jobs : Pending(i)' <= Pending(i)
    BY <1>6 DEF Stop, Pending
  <2> QED BY <1>4, <1>6, <2>1, <2>2 DEF Stop
<1>7. ASSUME UNCHANGED queue, worker'.pc = "send" => worker.pc = "send",
             worker'.pc = "send" => worker'.job = worker.job
      PROVE  TryInv'
  <2>1. \A i \in Jobs : Running(i)' <= Running(i) /\ Pending(i)' <= Pending(i)
    BY <1>7 DEF Running, Pending
  <2> QED BY <1>4, <1>7, <2>1
<1>8. CASE LoseLock
  BY <1>7, <1>8 DEF LoseLock, Worker
<1>9. CASE Start
  BY <1>7, <1>9 DEF Start, Absent
<1>10. ASSUME NEW s \in Signals, Signal(s) PROVE TryInv'
  BY <1>7, <1>10 DEF Signal, Worker
<1>11. ASSUME NEW s \in Signals, CloseWorker(s) PROVE TryInv'
  BY <1>7, <1>11 DEF CloseWorker, Absent
<1>12. ASSUME UNCHANGED <<queue, worker>> PROVE TryInv'
  BY <1>7, <1>12
<1> QED BY <1>1, <1>2, <1>3, <1>5, <1>6, <1>8, <1>9, <1>10, <1>11, <1>12
           DEF Next, Redis, Crash, Shutdown, QuitRedis, Exit, vars

\* The parts hold one another up.
LEMMA Invariant == Spec => []IInv
<1>1. Init => IInv
  <2> SUFFICES ASSUME Init PROVE IInv
    OBVIOUS
  <2>1. TypeOK
    <3>1. status \in [Jobs -> Status] /\ conn \in {"connecting", "ready", "end"}
      BY DEF Init, Status
    <3>2. /\ stalls \in [Jobs -> 0 .. 1] /\ retries \in [Jobs -> 0 .. 1]
          /\ sent \in [Jobs -> Nat]
      BY DEF Init
    <3>3. worker \in Worker
      BY DEF Init, Absent, Worker
    <3>4. sig \in [Signals -> {"armed", "close", "quit", "exit"}]
      BY DEF Init, Unstarted
    <3>5. up \in BOOLEAN
      BY DEF Init
    <3> QED BY <3>1, <3>2, <3>3, <3>4, <3>5 DEF TypeOK
  <2>2. WorkerInv /\ JobInv
    BY DEF Init, WorkerInv, JobInv, Busy, Absent, CompletedWasSent
  <2>3. ShutdownInv
    BY DEF Init, ShutdownInv, Unstarted
  <2>4. TryInv
    <3> SUFFICES ASSUME NEW j \in Jobs
                 PROVE  sent[j] + Pending(j) + Running(j) <= 1 + stalls[j] + retries[j]
      BY DEF TryInv
    <3>1. worker.pc = "absent"
      BY DEF Init, Absent
    <3>2. Running(j) = 0
      BY <3>1 DEF Running
    <3>3. Pending(j) \in 0 .. 1
      BY DEF Pending
    <3> QED BY <3>2, <3>3 DEF Init
  <2> QED BY <2>1, <2>2, <2>3, <2>4 DEF IInv
<1>2. IInv /\ [Next]_vars => IInv'
  BY TypeStep, WorkerStep, JobStep, ShutdownStep, TryStep DEF IInv
<1> QED BY <1>1, <1>2, PTL DEF Spec

\* Type correctness: among others, a job is put back as stalled at most once.
THEOREM TypeCorrect == Spec => []TypeOK
<1>1. IInv => TypeOK BY DEF IInv
<1> QED BY <1>1, Invariant, PTL

\* No mail goes out more often than its job was tried for a stated reason.
THEOREM OncePerTry == Spec => []SentOncePerTry
<1>1. IInv => SentOncePerTry
  <2> SUFFICES ASSUME IInv, NEW j \in Jobs PROVE sent[j] <= 1 + stalls[j] + retries[j]
    BY DEF SentOncePerTry
  <2>1. /\ Pending(j) \in Nat /\ Running(j) \in Nat
        /\ sent[j] \in Nat /\ stalls[j] \in Nat /\ retries[j] \in Nat
    BY DEF Pending, Running, IInv, TypeOK
  <2> QED BY <2>1 DEF IInv, TryInv
<1> QED BY <1>1, Invariant, PTL

\* Whatever is recorded as completed was accepted by Resend.
THEOREM Completed == Spec => []CompletedWasSent
<1>1. IInv => CompletedWasSent BY DEF IInv, JobInv
<1> QED BY <1>1, Invariant, PTL

\* A shutdown that has reached Redis leaves no job in the worker's hands, in
\* every overlap of the two signals.
THEOREM Graceful == Spec => []GracefulExit
<1>1. IInv => GracefulExit
  BY DEF IInv, ShutdownInv, WorkerInv, Busy, GracefulExit
<1> QED BY <1>1, Invariant, PTL

(***************************************************************************)
(* The refinement of Outbox, as far as it is safety.                       *)
(***************************************************************************)
Mail == [j \in Jobs |-> Stage(j)]

\* The moves of a single mail that Outbox allows.
Moves == {<<"none", "owed">>, <<"owed", "queued">>, <<"owed", "lost">>,
          <<"queued", "sent">>, <<"queued", "lost">>,
          <<"lost", "queued">>, <<"lost", "sent">>}

\* A step that moves no mail is a stutter.
LEMMA NoneMoves ==
  ASSUME \A i \in Jobs : Stage(i)' = Stage(i)
  PROVE  [Promise!Next]_Mail
<1>1. Mail' = Mail
  BY DEF Mail
<1> QED BY <1>1

\* A step that moves one mail in an allowed way is a step of Outbox.
LEMMA OneMoves ==
  ASSUME NEW j \in Jobs, \A i \in Jobs : i # j => Stage(i)' = Stage(i),
         Stage(j)' = Stage(j) \/ <<Stage(j), Stage(j)'>> \in Moves
  PROVE  [Promise!Next]_Mail
<1>1. CASE Stage(j)' = Stage(j)
  BY <1>1, NoneMoves
<1>2. CASE <<Stage(j), Stage(j)'>> \in Moves
  <2>1. \A from, to : from = Stage(j) /\ to = Stage(j)' => Promise!Move({j}, from, to)
    <3> SUFFICES ASSUME NEW from, NEW to, from = Stage(j), to = Stage(j)'
                 PROVE  Promise!Move({j}, from, to)
      OBVIOUS
    <3>1. Mail' = [m \in Jobs |-> IF m \in {j} THEN to ELSE Mail[m]]
      BY DEF Mail
    <3>2. \A m \in {j} : Mail[m] = from
      BY DEF Mail
    <3> QED BY <3>1, <3>2 DEF Promise!Move, Mail
  <2>2. Promise!Owe(j) \/ Promise!Queue(j) \/ Promise!GiveUp({j}) \/ Promise!Settle(j)
          \/ Promise!Requeue(j) \/ Promise!Late(j)
    BY <1>2, <2>1 DEF Moves, Promise!Owe, Promise!Queue, Promise!GiveUp, Promise!Settle,
                      Promise!Requeue, Promise!Late
  <2> QED BY <2>2 DEF Promise!Next
<1> QED BY <1>1, <1>2

\* The end of the process gives up the mails that are owed.
LEMMA StopMoves ==
  ASSUME TypeOK, Stop PROVE [Promise!Next]_Mail
<1> DEFINE owed == {j \in Jobs : Stage(j) = "owed"}
<1>1. \A j \in Jobs : Stage(j)' = IF j \in owed THEN "lost" ELSE Stage(j)
  BY DEF Stop, Stage, TypeOK, Status
<1>2. Mail' = [m \in Jobs |-> IF m \in owed THEN "lost" ELSE Mail[m]]
  BY <1>1 DEF Mail
<1>3. \A m \in owed : Mail[m] = "owed"
  BY DEF Mail
<1>4. Promise!GiveUp(owed)
  BY <1>2, <1>3 DEF Promise!GiveUp, Promise!Move, Mail
<1> QED BY <1>4 DEF Promise!Next

\* Every step of the queue, the worker and the process is a step of the promise.
LEMMA PromiseStep ==
  ASSUME IInv, [Next]_vars PROVE [Promise!Next]_Mail
<1> USE DEF IInv, TypeOK
<1>1. ASSUME NEW j \in Jobs, UNCHANGED sent, NEW s, Sets(j, s),
             sent[j] = 0 => \/ status[j] = "none" /\ s = "saved"
                            \/ status[j] = "saved" /\ s \in {"waiting", "unqueued"}
                            \/ status[j] = "failed" /\ s = "waiting"
                            \/ status[j] \in {"waiting", "active"}
                                 /\ s \in {"waiting", "active", "failed"}
      PROVE  [Promise!Next]_Mail
  <2>1. \A i \in Jobs : i # j => Stage(i)' = Stage(i)
    BY <1>1 DEF Sets, Stage
  <2>2. status'[j] = s
    BY <1>1 DEF Sets
  <2>3. CASE sent[j] > 0
    BY <1>1, <2>1, <2>3, OneMoves DEF Stage
  <2>4. CASE sent[j] = 0
    <3>1. Stage(j)' = Stage(j) \/ <<Stage(j), Stage(j)'>> \in Moves
      BY <1>1, <2>2, <2>4 DEF Stage, Moves
    <3> QED BY <2>1, <3>1, OneMoves
  <2> QED BY <2>3, <2>4
<1>2. ASSUME NEW j \in Jobs, SaveToken(j) \/ AddJob(j) \/ RetryJob(j) \/ TakeJob(j)
                                \/ FindStalled(j)
      PROVE  [Promise!Next]_Mail
  <2>1. CASE SaveToken(j)
    BY <1>1, <2>1 DEF SaveToken
  <2>2. CASE AddJob(j)
    BY <1>1, <2>2 DEF AddJob
  <2>3. CASE RetryJob(j)
    BY <1>1, <2>3 DEF RetryJob
  <2>4. CASE TakeJob(j)
    BY <1>1, <2>4 DEF TakeJob
  <2>5. CASE FindStalled(j)
    BY <1>1, <2>5 DEF FindStalled
  <2> QED BY <1>2, <2>1, <2>2, <2>3, <2>4, <2>5
<1>3. CASE SendMail
  <2>0. PICK j \in Jobs : j = worker.job
    BY <1>3 DEF SendMail, WorkerInv, Busy
  <2>1. status[j] \notin {"none", "saved", "unqueued"}
    BY <1>3, <2>0 DEF SendMail, JobInv, Busy
  <2>2. CASE UNCHANGED sent
    BY <1>3, <2>2, NoneMoves DEF SendMail, Stage
  <2>3. CASE sent' = [sent EXCEPT ![j] = @ + 1]
    <3>1. \A i \in Jobs : i # j => Stage(i)' = Stage(i)
      BY <1>3, <2>0, <2>3 DEF SendMail, Stage
    <3>2. Stage(j)' = "sent"
      BY <2>3 DEF Stage
    <3>3. Stage(j) \in {"sent", "queued", "lost"}
      BY <2>1 DEF Stage, Status, JobInv, CompletedWasSent
    <3> QED BY <3>1, <3>2, <3>3, OneMoves DEF Moves
  <2> QED BY <1>3, <2>0, <2>2, <2>3 DEF SendMail
<1>4. CASE FinishJob
  <2> DEFINE j == worker.job
  <2>1. j \in Jobs
    BY <1>4 DEF FinishJob, WorkerInv, Busy
  <2>2. CASE UNCHANGED status
    BY <1>4, <2>2, NoneMoves DEF FinishJob, Stage
  <2>3. CASE worker.locked /\ Sets(j, Outcome(worker.pc))
    <3>1. status[j] = "active"
      BY <2>3 DEF JobInv
    <3>2. sent[j] = 0 => Outcome(worker.pc) = "failed"
      BY <1>4, <2>1 DEF FinishJob, JobInv, Outcome
    <3> QED BY <1>1, <1>4, <2>1, <2>3, <3>1, <3>2 DEF FinishJob
  <2> QED BY <1>4, <2>2, <2>3 DEF FinishJob
<1>5. ASSUME UNCHANGED queue PROVE [Promise!Next]_Mail
  BY <1>5, NoneMoves DEF queue, Stage
<1>6. CASE Stop
  BY <1>6, StopMoves
<1> QED BY <1>2, <1>3, <1>4, <1>5, <1>6
           DEF Next, LoseLock, Start, Redis, Crash, Signal, Shutdown, CloseWorker,
               QuitRedis, Exit, vars

\* The queue keeps the promise of Outbox as far as it is safety: no mail is sent
\* that was not owed, and none that is queued or sent is forgotten, through every
\* crash, restart, shutdown and loss of Redis and for any number of mails.
THEOREM PromiseKept == Spec => Promise!Init /\ [][Promise!Next]_Mail
<1>1. Init => Promise!Init
  BY DEF Init, Promise!Init, Stage
<1> QED BY <1>1, Invariant, PromiseStep, PTL DEF Spec
=============================================================================
