------------------------------ MODULE JobQueue ------------------------------
(***************************************************************************)
(* The leased queue of processing jobs: Database in db.py (claim_jobs,     *)
(* release_claims, maintain_queue, refund_claim_attempt, finished_attempt, *)
(* _lock_live_claim, _finish_claim), job_outcomes.py (fail_claim,          *)
(* release_conflicted, _defer_conflicted) and the worker lanes that call   *)
(* them (worker.py).  PostgreSQL is modelled by what the code relies on:   *)
(* one action per transaction, except that the transaction which applies a *)
(* job's result stays open over two actions and holds the job's row lock.  *)
(*                                                                         *)
(* A claim of job j is named by its attempt number n: _lease_rows gives    *)
(* every claim the next number of its job together with a new random       *)
(* token, so the pair (j, n) stands for the pair (job id, lease token)     *)
(* that every fence compares.                                              *)
(***************************************************************************)
EXTENDS Integers, FiniteSets

CONSTANTS
    Jobs,           \* rows of python_processing_jobs
    Workers,        \* worker processes
    NoWorker,       \* the owner of an attempt row not yet inserted
    Supports,       \* [Workers -> SUBSET Jobs]: what a worker's image may claim
    MaxAttempts,    \* python_processing_jobs.max_attempts
    ClaimBatch,     \* --claim-batch: most jobs one transaction leases
    MaxClaims,      \* bound: attempt rows a job may get
    MaxGiveBacks    \* bound: claims handed back without using an attempt

ASSUME JobQueueConstants ==
    /\ NoWorker \notin Workers
    /\ Supports \in [Workers -> SUBSET Jobs]
    /\ MaxAttempts \in Nat \ {0}
    /\ ClaimBatch \in Nat \ {0}
    /\ MaxClaims \in Nat
    /\ MaxGiveBacks \in Nat

VARIABLES
    job,        \* the job rows
    row,        \* the attempt rows, python_processing_attempts
    made,       \* max(attempt_number) of each job
    lane,       \* what the process that made a claim is doing with it
    locked,     \* claim whose open transaction locks the job's row, or 0
    appliedBy,  \* claims whose result the domain tables hold
    report,     \* the ProcessResult a lane returned for a claim
    giveBacks   \* hand-backs so far

vars == <<job, row, made, lane, locked, appliedBy, report, giveBacks>>

Numbers == 1 .. MaxClaims
Claims == Jobs \X Numbers
PerClaim(Values) == [Jobs -> [Numbers -> Values]]

Waiting == {"pending", "waiting_retry", "waiting_dependency"}
Terminal == {"complete", "failed"}
Causes == {"none", "durable", "exhausted", "lease_expired_max_attempts"}

JobRow == [state: Waiting \cup {"leased"} \cup Terminal,
           attempts: Nat, token: Nat, live: BOOLEAN, cause: Causes]

\* "released" is the stale row whose failure_category is claim_released.
RowStates == {"none", "running", "stale", "released", "waiting_retry",
              "waiting_dependency", "complete", "failed"}
AttemptRow == [state: RowStates, owner: Workers \cup {NoWorker}, count: Nat, resume: BOOLEAN]

\* batched: leased, in the process's batch, no lane started it
\* started: a lane holds it and has not renewed it yet
\* running: renewed; the lane reads evidence, outside a transaction
\* applying: the lane's transaction holds the job's row lock
\* unknown: the session ended, perhaps while committing
\* deferring, refunding: rolled back, being handed back (release_conflicted)
\* refunded: handed back by refund_claim_attempt, its lease kept
\* over: the lane returned, or its process died
LaneStates == {"none", "batched", "started", "running", "applying", "unknown",
               "deferring", "refunding", "refunded", "over"}
Busy == {"started", "running", "applying", "unknown", "deferring", "refunding"}
Reports == {"none", "processed", "superseded", "retrying", "failed", "lease_lost"}

TypeOK ==
    /\ job \in [Jobs -> JobRow]
    /\ row \in PerClaim(AttemptRow)
    /\ made \in [Jobs -> 0 .. MaxClaims]
    /\ lane \in PerClaim(LaneStates)
    /\ locked \in [Jobs -> 0 .. MaxClaims]
    /\ appliedBy \in [Jobs -> SUBSET Numbers]
    /\ report \in PerClaim(Reports)
    /\ giveBacks \in Nat

Init ==
    /\ job = [j \in Jobs |-> [state |-> "pending", attempts |-> 0, token |-> 0,
                              live |-> FALSE, cause |-> "none"]]
    /\ row = [j \in Jobs |-> [n \in Numbers |->
                [state |-> "none", owner |-> NoWorker, count |-> 0, resume |-> FALSE]]]
    /\ made = [j \in Jobs |-> 0]
    /\ lane = [j \in Jobs |-> [n \in Numbers |-> "none"]]
    /\ locked = [j \in Jobs |-> 0]
    /\ appliedBy = [j \in Jobs |-> {}]
    /\ report = [j \in Jobs |-> [n \in Numbers |-> "none"]]
    /\ giveBacks = 0

-----------------------------------------------------------------------------
(* Predicates the statements' WHERE clauses compute *)

\* Mutant of Holds: the fence forgets the token.
HoldsAnyToken(j, n) == job[j].state = "leased"

\* The owner and token fence alone: it still holds after the lease expired.
Holds(j, n) == job[j].state = "leased" /\ job[j].token = n

\* The fence of _lock_live_claim and renew_claim: the lease has not expired.
HoldsLive(j, n) == Holds(j, n) /\ job[j].live

\* The lease a row loses when it is no longer leased.
Unleased(r, s) == [r EXCEPT !.state = s, !.token = 0, !.live = FALSE]

Expired(j) == job[j].state = "leased" /\ ~job[j].live

\* claim_jobs selects due rows, or leased ones that expired, and skips locked
\* rows.  A job waiting for a dependency needs no attempt left, a retry does.
Claimable(w, j) ==
    /\ j \in Supports[w]
    /\ locked[j] = 0
    /\ job[j].state \in Waiting \/ Expired(j)
    /\ job[j].state = "waiting_dependency" \/ job[j].attempts < MaxAttempts

\* Mutant of StaleRunning: abandoned attempts stay running.
StaleRunningKept(j, n) == row[j][n]

\* Closing a job's abandoned rows: every attempt row still running is stale.
StaleRunning(j, n) ==
    [row[j][n] EXCEPT !.state = IF @ = "running" THEN "stale" ELSE @]

MineIn(w, phases) ==
    {c \in Claims : row[c[1]][c[2]].owner = w /\ lane[c[1]][c[2]] \in phases}

-----------------------------------------------------------------------------
(* Claiming: one transaction leases the whole batch, each job its own token *)

Resumes(j) == job[j].state = "waiting_dependency"

\* Mutant of LeasedJob: a taken-over lease keeps its token.
LeasedJobSameToken(j) ==
    [job[j] EXCEPT !.state = "leased", !.live = TRUE,
                   !.token = IF @ = 0 THEN made[j] + 1 ELSE @,
                   !.attempts = IF Resumes(j) THEN @ ELSE @ + 1]

\* Resuming a dependency wait reuses its attempt: attempts does not grow.
LeasedJob(j) ==
    [job[j] EXCEPT !.state = "leased", !.token = made[j] + 1, !.live = TRUE,
                   !.attempts = IF Resumes(j) THEN @ ELSE @ + 1]

\* The Claim and its attempt row keep the attempts the job had before it.
NewRow(w, j) == [state |-> "running", owner |-> w, count |-> job[j].attempts,
                 resume |-> Resumes(j)]

\* A process claims its next batch only when it holds no unstarted claim.
ClaimJobs(w, S) ==
    /\ S # {} /\ Cardinality(S) <= ClaimBatch
    /\ MineIn(w, {"batched"}) = {}
    /\ \A j \in S : Claimable(w, j) /\ made[j] < MaxClaims
    /\ job' = [j \in Jobs |-> IF j \in S THEN LeasedJob(j) ELSE job[j]]
    /\ row' = [j \in Jobs |-> [n \in Numbers |->
                 IF j \in S /\ n = made[j] + 1 THEN NewRow(w, j)
                 ELSE IF j \in S THEN StaleRunning(j, n) ELSE row[j][n]]]
    /\ lane' = [j \in Jobs |-> [n \in Numbers |->
                 IF j \in S /\ n = made[j] + 1 THEN "batched" ELSE lane[j][n]]]
    /\ made' = [j \in Jobs |-> IF j \in S THEN made[j] + 1 ELSE made[j]]
    /\ UNCHANGED <<locked, appliedBy, report, giveBacks>>

\* _claim_next: a lane takes a batched claim.  One that waited half its lease
\* is renewed first and dropped when that finds the lease lost.
StartClaim(j, n) ==
    /\ lane[j][n] = "batched"
    /\ \/ lane' = [lane EXCEPT ![j][n] = "started"]
       \/ ~HoldsLive(j, n) /\ lane' = [lane EXCEPT ![j][n] = "over"]
    /\ UNCHANGED <<job, row, made, locked, appliedBy, report, giveBacks>>

\* The lane returns: what it reports is the last it does with the claim.
Return(j, n, result) ==
    /\ lane' = [lane EXCEPT ![j][n] = "over"]
    /\ report' = [report EXCEPT ![j][n] = result]

\* renew_claim before the work, and on every heartbeat of an archive read.
\* A renewal of a live lease leaves it live.
Renew(j, n) ==
    /\ lane[j][n] \in {"started", "running"}
    /\ IF HoldsLive(j, n)
       THEN lane' = [lane EXCEPT ![j][n] = "running"] /\ UNCHANGED report
       ELSE Return(j, n, "lease_lost")
    /\ UNCHANGED <<job, row, made, locked, appliedBy, giveBacks>>

-----------------------------------------------------------------------------
(* Applying a result: the transaction every complete_* function runs *)

\* _lock_live_claim: SELECT ... FOR UPDATE while the lease is live.
BeginApply(j, n) ==
    /\ lane[j][n] = "running"
    /\ locked[j] = 0
    /\ IF HoldsLive(j, n)
       THEN /\ lane' = [lane EXCEPT ![j][n] = "applying"]
            /\ locked' = [locked EXCEPT ![j] = n]
            /\ UNCHANGED report
       ELSE Return(j, n, "lease_lost") /\ UNCHANGED locked
    /\ UNCHANGED <<job, row, made, appliedBy, giveBacks>>

\* What a lane learns of its own commit: the result, or nothing at all when
\* the session ended while it was committing.
LearnCommit(j, n, result) ==
    \/ Return(j, n, result)
    \/ lane' = [lane EXCEPT ![j][n] = "unknown"] /\ UNCHANGED report

\* _finish_claim and the commit.  It checks the owner and token but not the
\* clock: the lease may have expired since BeginApply.  A superseded or
\* retired response finishes its job and applies nothing.
FinishClaim(j, n, result) ==
    /\ lane[j][n] = "applying"
    /\ Holds(j, n)
    /\ row' = [row EXCEPT ![j][n].state = "complete"]
    /\ job' = [job EXCEPT ![j] = Unleased(@, "complete")]
    /\ appliedBy' = IF result = "processed"
                    THEN [appliedBy EXCEPT ![j] = @ \cup {n}] ELSE appliedBy
    /\ locked' = [locked EXCEPT ![j] = 0]
    /\ LearnCommit(j, n, result)
    /\ UNCHANGED <<made, giveBacks>>

\* A deadlock or serialization failure reruns the work under the same claim.
\* DATABASE_CONFLICT_RETRIES limits it to three; giveBacks bounds it here.
Rerun(j, n) ==
    /\ lane[j][n] = "applying"
    /\ giveBacks < MaxGiveBacks
    /\ giveBacks' = giveBacks + 1
    /\ lane' = [lane EXCEPT ![j][n] = "started"]
    /\ locked' = [locked EXCEPT ![j] = 0]
    /\ UNCHANGED <<job, row, made, appliedBy, report>>

\* A busy lock or the statement deadline (deferring), a conflict after the
\* last rerun or no pool connection (refunding), or the end of the session
\* (unknown) rolls the transaction back.
Conflict(j, n, next) ==
    /\ lane[j][n] \in {"started", "running", "applying"}
    /\ giveBacks < MaxGiveBacks
    /\ giveBacks' = giveBacks + 1
    /\ lane' = [lane EXCEPT ![j][n] = next]
    /\ locked' = [locked EXCEPT ![j] = IF lane[j][n] = "applying" THEN 0 ELSE @]
    /\ UNCHANGED <<job, row, made, appliedBy, report>>

-----------------------------------------------------------------------------
(* Failing and handing back a claim *)

\* fail_claim.  A dependency failure waits without using an attempt; any other
\* retryable one is retried while its own attempt is not the last.
EffectiveAttempt(j, n) == row[j][n].count + (IF row[j][n].resume THEN 0 ELSE 1)

FailState(j, n, kind) ==
    CASE kind = "dependency" -> "waiting_dependency"
      [] kind = "retryable" /\ EffectiveAttempt(j, n) < MaxAttempts -> "waiting_retry"
      [] OTHER -> "failed"

FailedJob(j, s, kind) ==
    [Unleased(job[j], s) EXCEPT
        !.cause = IF s # "failed" THEN @
                  ELSE IF kind = "durable" THEN "durable" ELSE "exhausted"]

FailClaim(j, n, kind) ==
    /\ lane[j][n] \in {"started", "running"}
    /\ locked[j] = 0
    /\ HoldsLive(j, n)
    /\ kind = "dependency" => giveBacks < MaxGiveBacks
    /\ giveBacks' = giveBacks + (IF kind = "dependency" THEN 1 ELSE 0)
    /\ LET s == FailState(j, n, kind)
       IN /\ row' = [row EXCEPT ![j][n].state = s]
          /\ job' = [job EXCEPT ![j] = FailedJob(j, s, kind)]
          /\ LearnCommit(j, n, IF s = "failed" THEN "failed" ELSE "retrying")
    /\ UNCHANGED <<made, locked, appliedBy>>

\* fail_claim on a lease that is gone raises LeaseLost.
FailClaimLost(j, n) ==
    /\ lane[j][n] \in {"started", "running"}
    /\ ~HoldsLive(j, n)
    /\ Return(j, n, "lease_lost")
    /\ UNCHANGED <<job, row, made, locked, appliedBy, giveBacks>>

\* finished_attempt and _saved_result: the saved attempt row decides what a
\* lane whose session ended returns.
SavedReport(s) ==
    CASE s = "complete" -> "processed"
      [] s \in {"waiting_retry", "waiting_dependency"} -> "retrying"
      [] s = "failed" -> "failed"
      [] OTHER -> "lease_lost"

\* A superseded response is reported as such, like any other saved outcome.
SavedReports(j, n) ==
    IF row[j][n].state = "complete" /\ n \notin appliedBy[j]
    THEN "superseded" ELSE SavedReport(row[j][n].state)

\* An attempt still running had committed nothing, so it is handed back.
ReadSaved(j, n) ==
    /\ lane[j][n] = "unknown"
    /\ IF row[j][n].state = "running"
       THEN lane' = [lane EXCEPT ![j][n] = "refunding"] /\ UNCHANGED report
       ELSE Return(j, n, SavedReports(j, n))
    /\ UNCHANGED <<job, row, made, locked, appliedBy, giveBacks>>

\* A lane that can record nothing (the failure write or the refund was refused
\* or found no connection) returns and lets the lease run out.
Abandon(j, n) ==
    /\ lane[j][n] \in {"started", "running", "unknown", "refunding"}
    /\ Return(j, n, "retrying")
    /\ UNCHANGED <<job, row, made, locked, appliedBy, giveBacks>>

\* _defer_conflicted: fenced by owner and token, even after the lease expired.
\* A database error falls back to the refund, also one raised by a commit that
\* landed: the refund then finds no lease.
Defer(j, n) ==
    /\ lane[j][n] = "deferring"
    /\ \/ /\ Holds(j, n)
          /\ job' = [job EXCEPT ![j] = Unleased(@, "waiting_dependency")]
          /\ row' = [row EXCEPT ![j][n].state = "waiting_dependency"]
          /\ \/ Return(j, n, "retrying") /\ UNCHANGED giveBacks
             \/ /\ giveBacks < MaxGiveBacks /\ giveBacks' = giveBacks + 1
                /\ lane' = [lane EXCEPT ![j][n] = "refunding"] /\ UNCHANGED report
       \/ /\ ~Holds(j, n)
          /\ Return(j, n, "lease_lost")
          /\ UNCHANGED <<job, row, giveBacks>>
       \/ /\ lane' = [lane EXCEPT ![j][n] = "refunding"]
          /\ UNCHANGED <<job, row, report, giveBacks>>
    /\ UNCHANGED <<made, locked, appliedBy>>

\* refund_claim_attempt: LEAST(attempt_count, LEAST(claim count, max - 1)).
Refunded(j, n) ==
    LET least(a, b) == IF a <= b THEN a ELSE b
    IN least(job[j].attempts, least(row[j][n].count, MaxAttempts - 1))

Refund(j, n) ==
    /\ lane[j][n] = "refunding"
    /\ IF Holds(j, n)
       THEN /\ job' = [job EXCEPT ![j].attempts = Refunded(j, n)]
            /\ lane' = [lane EXCEPT ![j][n] = "refunded"]
            /\ report' = [report EXCEPT ![j][n] = "retrying"]
       ELSE Return(j, n, "lease_lost") /\ UNCHANGED job
    /\ UNCHANGED <<row, made, locked, appliedBy, giveBacks>>

\* A released job returns to the wait it resumed from, or to pending, with the
\* attempts its claim found.
ReleasedJob(j) ==
    LET r == row[j][job[j].token]
    IN [Unleased(job[j], IF r.resume THEN "waiting_dependency" ELSE "pending")
            EXCEPT !.attempts = r.count]

ReleasedRow(j, n) == [row[j][n] EXCEPT !.state = "released"]

\* release_batched_claims and release_claims when a worker stops: its lanes
\* have returned and what is left of the batch was never started.
ReleaseBatch(w) ==
    LET batch == MineIn(w, {"batched"})
        released == {c \in batch : Holds(c[1], c[2])}
    IN /\ batch # {} /\ MineIn(w, Busy) = {}
       /\ giveBacks < MaxGiveBacks
       /\ giveBacks' = giveBacks + 1
       /\ job' = [j \in Jobs |-> IF <<j, job[j].token>> \in released
                                  THEN ReleasedJob(j) ELSE job[j]]
       /\ row' = [j \in Jobs |-> [n \in Numbers |->
                    IF <<j, n>> \in released THEN ReleasedRow(j, n) ELSE row[j][n]]]
       /\ lane' = [j \in Jobs |-> [n \in Numbers |->
                    IF <<j, n>> \in batch THEN "over" ELSE lane[j][n]]]
       /\ UNCHANGED <<made, locked, appliedBy, report>>

-----------------------------------------------------------------------------
(* Time, crashes and queue maintenance *)

Expire(j) ==
    /\ job[j].state = "leased" /\ job[j].live
    /\ job' = [job EXCEPT ![j].live = FALSE]
    /\ UNCHANGED <<row, made, lane, locked, appliedBy, report, giveBacks>>

\* A process dies: its claims go with it and its open transactions roll back.
Crash(w) ==
    LET mine == MineIn(w, Busy \cup {"batched"})
    IN /\ mine # {}
       /\ lane' = [j \in Jobs |-> [n \in Numbers |->
                    IF <<j, n>> \in mine THEN "over" ELSE lane[j][n]]]
       /\ locked' = [j \in Jobs |-> IF <<j, locked[j]>> \in mine THEN 0 ELSE locked[j]]
       /\ UNCHANGED <<job, row, made, appliedBy, report, giveBacks>>

\* Mutant of Spent: off by one.
SpentLate(w, j) == j \in Supports[w] /\ job[j].attempts > MaxAttempts

\* The job has used its attempts, and this image may say so.
Spent(w, j) == j \in Supports[w] /\ job[j].attempts >= MaxAttempts

RecoveredJob(w, j) ==
    IF Spent(w, j)
    THEN [Unleased(job[j], "failed") EXCEPT !.cause = "lease_expired_max_attempts"]
    ELSE Unleased(job[j], "pending")

\* maintain_queue, run by any worker for every expired lease it can lock.
\* Work its image does not support is released whatever its attempts.
MaintainQueue(w) ==
    LET expired == {j \in Jobs : Expired(j) /\ locked[j] = 0}
    IN /\ expired # {}
       /\ row' = [j \in Jobs |-> [n \in Numbers |->
                    IF j \in expired THEN StaleRunning(j, n) ELSE row[j][n]]]
       /\ job' = [j \in Jobs |->
                    IF j \in expired THEN RecoveredJob(w, j) ELSE job[j]]
       /\ UNCHANGED <<made, lane, locked, appliedBy, report, giveBacks>>

-----------------------------------------------------------------------------
LaneStep(j, n) ==
    \/ StartClaim(j, n) \/ Renew(j, n) \/ BeginApply(j, n)
    \/ \E result \in {"processed", "superseded"} : FinishClaim(j, n, result)
    \/ \E kind \in {"dependency", "retryable", "durable"} : FailClaim(j, n, kind)
    \/ FailClaimLost(j, n) \/ ReadSaved(j, n) \/ Abandon(j, n)
    \/ Defer(j, n) \/ Refund(j, n)

Fault(j, n) ==
    \/ Rerun(j, n)
    \/ \E next \in {"deferring", "refunding", "unknown"} : Conflict(j, n, next)

Next ==
    \/ \E w \in Workers, S \in SUBSET Jobs : ClaimJobs(w, S)
    \/ \E j \in Jobs, n \in Numbers : LaneStep(j, n) \/ Fault(j, n)
    \/ \E w \in Workers : ReleaseBatch(w) \/ Crash(w) \/ MaintainQueue(w)
    \/ \E j \in Jobs : Expire(j)

Spec == Init /\ [][Next]_vars

\* Every worker keeps claiming, its lanes finish what they hold, maintenance
\* runs every ten seconds and clocks advance.  A job cannot be passed over for
\* ever: claims take the oldest due work first on every few turns.
Fairness ==
    /\ \A w \in Workers, j \in Jobs :
          SF_vars(\E S \in SUBSET Jobs : j \in S /\ ClaimJobs(w, S))
    /\ \A j \in Jobs, n \in Numbers : WF_vars(LaneStep(j, n))
    /\ \A w \in Workers : WF_vars(MaintainQueue(w))
    /\ \A j \in Jobs : WF_vars(Expire(j))

FairSpec == Spec /\ Fairness

-----------------------------------------------------------------------------
(* Properties *)

\* Exactly the claim that a job's lease names has a running attempt row, so no
\* abandoned attempt stays open and no leased job lacks its attempt (the stale
\* marking of _lease_rows and maintain_queue, the fences of every hand-back).
RunningRowIsLease ==
    \A j \in Jobs, n \in Numbers : row[j][n].state = "running" <=> Holds(j, n)

\* While a claim's transaction applies its result the job stays leased to it,
\* even after the lease expires: the reason _finish_claim gives for not
\* checking the clock.
LockKeepsLease ==
    \A j \in Jobs, n \in Numbers :
        /\ lane[j][n] = "applying" <=> locked[j] = n
        /\ locked[j] = n => Holds(j, n)

\* Attempts that used a slot: a resumption reuses one, a released batch claim
\* and a refund give it back.
Charged(j) ==
    {n \in Numbers : /\ row[j][n].state \notin {"none", "released"}
                     /\ ~row[j][n].resume /\ lane[j][n] # "refunded"}

\* attempt_count never exceeds the attempts that really used a slot, and a job
\* fails for exhaustion only when that many used all of them: claims given
\* back unstarted, deferred or refunded never cost a job its life.  A refunded
\* claim leaves an attempt, so that maintenance requeues the job when its lease
\* runs out (release_conflicted).
BudgetIsSpent ==
    \A j \in Jobs :
        /\ job[j].attempts <= Cardinality(Charged(j))
        /\ job[j].cause \in {"exhausted", "lease_expired_max_attempts"} =>
              Cardinality(Charged(j)) >= MaxAttempts
        /\ \A n \in Numbers :
              lane[j][n] = "refunded" /\ Holds(j, n) => job[j].attempts < MaxAttempts

\* What a lane reports agrees with what was committed, also when the session
\* ended while committing: a finished or failed job is never reported as a lost
\* lease.  Only a deferral whose commit landed and still raised is: the job then
\* waits, though no other worker or maintenance took it (worker.py's comment
\* says one did).
ReportsAgree ==
    \A j \in Jobs, n \in Numbers :
        LET s == row[j][n].state
        IN CASE report[j][n] = "processed" -> s = "complete" /\ n \in appliedBy[j]
             [] report[j][n] = "superseded" -> s = "complete" /\ n \notin appliedBy[j]
             [] report[j][n] = "failed" -> s = "failed"
             [] report[j][n] = "lease_lost" ->
                    s \in {"running", "stale", "waiting_dependency"} /\ ~HoldsLive(j, n)
             [] OTHER -> TRUE

\* No step changes an attempt row once it is closed: a late commit, failure,
\* refund or release of a claim that lost its job changes nothing.  _finish_claim
\* and fail_claim update the row by token alone, whatever its state.
ClosedRowsFrozen ==
    [][\A j \in Jobs, n \in Numbers :
          row[j][n].state \notin {"none", "running"} => row'[j][n] = row[j][n]]_vars

\* The books of an attempt agree: what its row ends as, what its lane reports
\* and what it costs the job.
AttemptsAddUp == [](BudgetIsSpent /\ ReportsAgree) /\ ClosedRowsFrozen

\* Every job ends complete or failed when conflicts, outages and worker stops
\* are finitely many.
EventuallySettled == \A j \in Jobs : <>[](job[j].state \in Terminal)

\* maintain_queue's docstring: unsupported work is released for a future
\* worker image.  A job it releases can be claimed by an image that supports it.
ReleasedIsClaimable ==
    \A j \in Jobs : job[j].state = "pending" => \E w \in Workers : Claimable(w, j)

\* The queue implements its contract.
Contract == INSTANCE JobContract WITH
    status <- [j \in Jobs |-> CASE job[j].state \in Waiting -> "open"
                                [] job[j].state = "leased" -> "held"
                                [] job[j].state = "complete" -> "done"
                                [] OTHER -> "failed"],
    holder <- [j \in Jobs |-> job[j].token],
    taken <- made

\* Every behaviour of the queue is one the contract allows: exclusive claims,
\* one applied result, permanent ends.
ImplementsContract == Contract!Spec
=============================================================================
