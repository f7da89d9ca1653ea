--------------------------- MODULE JobQueueProofs ---------------------------
(***************************************************************************)
(* Proofs about JobQueue for every set of jobs and workers, every attempt  *)
(* limit, batch size and bound.                                            *)
(*                                                                         *)
(* The argument rests on one inductive invariant, IInv: a claim's number   *)
(* never exceeds its job's last one (Numbered), only a leased job carries  *)
(* a token (Tokens), the running attempt row of a job is the one its lease *)
(* names (RunningRowIsLease) and a row lock keeps the lease of the claim   *)
(* whose transaction took it (LockKeepsLease).  Each alone is not          *)
(* inductive: RunningRowIsLease needs Numbered to know a new claim's row   *)
(* is fresh, LockKeepsLease needs the others to know whose lease a         *)
(* statement that compares only the token may end.                         *)
(*                                                                         *)
(* The second half proves that the queue implements JobContract, that no   *)
(* step changes a closed attempt row, and that what attempts cost and      *)
(* report adds up.                                                         *)
(***************************************************************************)
EXTENDS JobQueue, FiniteSetTheorems, TLAPS

\* Rows and lanes exist only for claims already made.
Numbered ==
    \A j \in Jobs, n \in Numbers :
        n > made[j] => row[j][n].state = "none" /\ lane[j][n] = "none"

\* A job has a token exactly while it is leased, that of a claim made.
Tokens ==
    \A j \in Jobs :
        /\ job[j].token <= made[j]
        /\ job[j].state = "leased" <=> job[j].token # 0

IInv == TypeOK /\ Numbered /\ Tokens /\ RunningRowIsLease /\ LockKeepsLease

-----------------------------------------------------------------------------
(* Types *)

\* Changing one claim's entry keeps a per-claim table well typed.
LEMMA OneClaim ==
    ASSUME NEW V, NEW f \in PerClaim(V), NEW j \in Jobs, NEW n \in Numbers, NEW v \in V
    PROVE  [f EXCEPT ![j][n] = v] \in PerClaim(V)
  BY DEF PerClaim

LEMMA RowState ==
    ASSUME NEW f \in PerClaim(AttemptRow), NEW j \in Jobs, NEW n \in Numbers,
           NEW s \in RowStates
    PROVE  [f EXCEPT ![j][n].state = s] \in PerClaim(AttemptRow)
  BY DEF PerClaim, AttemptRow

LEMMA UnleasedType ==
    ASSUME NEW r \in JobRow, NEW s \in Waiting \cup Terminal
    PROVE  Unleased(r, s) \in JobRow
  BY DEF Unleased, JobRow

LEMMA InitIInv == Init => IInv
<1> SUFFICES ASSUME Init PROVE IInv
  OBVIOUS
<1> USE DEF Init
<1>1. TypeOK
  <2>1. job \in [Jobs -> JobRow]
    BY DEF JobRow, Waiting, Causes
  <2>2. row \in PerClaim(AttemptRow)
    BY DEF AttemptRow, RowStates, PerClaim
  <2>3. lane \in PerClaim(LaneStates) /\ report \in PerClaim(Reports)
    BY DEF LaneStates, Reports, PerClaim
  <2>4. made \in [Jobs -> 0 .. MaxClaims] /\ locked \in [Jobs -> 0 .. MaxClaims]
    BY JobQueueConstants
  <2>5. appliedBy \in [Jobs -> SUBSET Numbers] /\ giveBacks \in Nat
    OBVIOUS
  <2> QED BY <2>1, <2>2, <2>3, <2>4, <2>5 DEF TypeOK
<1>2. Numbered /\ Tokens /\ RunningRowIsLease /\ LockKeepsLease
  BY DEF Numbers, Numbered, Tokens, RunningRowIsLease, LockKeepsLease, Holds
<1> QED BY <1>1, <1>2 DEF IInv

LEMMA StateNames ==
    /\ {"waiting_dependency", "waiting_retry", "failed"} \subseteq Waiting \cup Terminal
    /\ {"running", "stale", "released", "complete", "failed", "waiting_retry",
        "waiting_dependency"} \subseteq RowStates
    /\ {"batched", "started", "running", "applying", "unknown", "deferring",
        "refunding", "refunded", "over"} \subseteq LaneStates
    /\ {"processed", "superseded", "retrying", "failed", "lease_lost"} \subseteq Reports
  BY DEF Waiting, Terminal, RowStates, LaneStates, Reports

LEMMA ReturnType ==
    ASSUME TypeOK, NEW j \in Jobs, NEW n \in Numbers, NEW result \in Reports,
           Return(j, n, result)
    PROVE  lane' \in PerClaim(LaneStates) /\ report' \in PerClaim(Reports)
<1>1. lane \in PerClaim(LaneStates) /\ report \in PerClaim(Reports)
  BY DEF TypeOK
<1>2. "over" \in LaneStates
  BY StateNames
<1> QED BY <1>1, <1>2, OneClaim DEF Return

LEMMA LearnType ==
    ASSUME TypeOK, NEW j \in Jobs, NEW n \in Numbers, NEW result \in Reports,
           LearnCommit(j, n, result)
    PROVE  lane' \in PerClaim(LaneStates) /\ report' \in PerClaim(Reports)
<1>1. lane \in PerClaim(LaneStates) /\ report \in PerClaim(Reports)
  BY DEF TypeOK
<1>2. "unknown" \in LaneStates
  BY StateNames
<1> QED BY <1>1, <1>2, OneClaim, ReturnType DEF LearnCommit

LEMMA LaneType ==
    ASSUME TypeOK, NEW j \in Jobs, NEW n \in Numbers, NEW s \in LaneStates,
           lane' = [lane EXCEPT ![j][n] = s]
    PROVE  lane' \in PerClaim(LaneStates)
  BY OneClaim DEF TypeOK

\* The fields of the job and attempt rows each statement writes.
LEMMA RowFields ==
    ASSUME TypeOK, NEW j \in Jobs
    PROVE  /\ \A n \in Numbers : row[j][n] \in AttemptRow
           /\ job[j] \in JobRow
           /\ job[j].attempts \in Nat /\ job[j].token \in Nat
           /\ \A n \in Numbers : row[j][n].count \in Nat
           /\ made[j] \in 0 .. MaxClaims /\ made[j] + 1 \in Nat
<1>1. job[j] \in JobRow /\ \A n \in Numbers : row[j][n] \in AttemptRow
  BY DEF TypeOK, PerClaim
<1>2. made[j] \in 0 .. MaxClaims /\ made[j] + 1 \in Nat
  BY JobQueueConstants DEF TypeOK
<1> QED BY <1>1, <1>2 DEF JobRow, AttemptRow

LEMMA StatementTypes ==
    ASSUME TypeOK, NEW j \in Jobs
    PROVE  /\ LeasedJob(j) \in JobRow
           /\ \A w \in Workers : NewRow(w, j) \in AttemptRow /\ RecoveredJob(w, j) \in JobRow
           /\ \A n \in Numbers : /\ StaleRunning(j, n) \in AttemptRow
                                /\ ReleasedRow(j, n) \in AttemptRow
                                /\ Refunded(j, n) \in Nat
           /\ job[j].token \in Numbers => ReleasedJob(j) \in JobRow
           /\ \A s \in Waiting \cup Terminal : \A kind : FailedJob(j, s, kind) \in JobRow
<1>1. job[j] \in JobRow /\ \A n \in Numbers : row[j][n] \in AttemptRow
  BY RowFields
<1>2. LeasedJob(j) \in JobRow
  <2>1. \A r \in JobRow, a, t \in Nat :
           [r EXCEPT !.state = "leased", !.token = t, !.live = TRUE, !.attempts = a] \in JobRow
    BY DEF JobRow
  <2>2. (IF Resumes(j) THEN job[j].attempts ELSE job[j].attempts + 1) \in Nat
    BY RowFields
  <2> QED BY <1>1, <2>1, <2>2, RowFields DEF LeasedJob
<1>3. ASSUME NEW w \in Workers
      PROVE  NewRow(w, j) \in AttemptRow /\ RecoveredJob(w, j) \in JobRow
  <2>1. NewRow(w, j) \in AttemptRow
    BY RowFields DEF NewRow, Resumes, AttemptRow, RowStates
  <2>2. Unleased(job[j], "failed") \in JobRow /\ Unleased(job[j], "pending") \in JobRow
    BY <1>1, UnleasedType DEF Waiting, Terminal
  <2>3. \A r \in JobRow : [r EXCEPT !.cause = "lease_expired_max_attempts"] \in JobRow
    BY DEF JobRow, Causes
  <2> QED BY <2>1, <2>2, <2>3 DEF RecoveredJob
<1>4. ASSUME NEW n \in Numbers
      PROVE  /\ StaleRunning(j, n) \in AttemptRow /\ ReleasedRow(j, n) \in AttemptRow
             /\ Refunded(j, n) \in Nat
  <2>1. \A s \in RowStates, r \in AttemptRow : [r EXCEPT !.state = s] \in AttemptRow
    BY DEF AttemptRow
  <2>2. row[j][n].state \in RowStates
    BY <1>1 DEF AttemptRow
  <2>3. (IF row[j][n].state = "running" THEN "stale" ELSE row[j][n].state) \in RowStates
    BY <2>2, StateNames
  <2>4. StaleRunning(j, n) \in AttemptRow /\ ReleasedRow(j, n) \in AttemptRow
    BY <1>1, <2>1, <2>3, StateNames DEF StaleRunning, ReleasedRow
  <2>5. Refunded(j, n) \in Nat
    BY RowFields, JobQueueConstants DEF Refunded
  <2> QED BY <2>4, <2>5
<1>5. ASSUME job[j].token \in Numbers PROVE ReleasedJob(j) \in JobRow
  <2> DEFINE r == row[j][job[j].token]
  <2>1. r.count \in Nat
    BY <1>5, RowFields
  <2>2. (IF r.resume THEN "waiting_dependency" ELSE "pending") \in Waiting
    BY DEF Waiting
  <2>3. Unleased(job[j], IF r.resume THEN "waiting_dependency" ELSE "pending") \in JobRow
    BY <1>1, <2>2, UnleasedType
  <2>4. \A u \in JobRow, a \in Nat : [u EXCEPT !.attempts = a] \in JobRow
    BY DEF JobRow
  <2> QED BY <2>1, <2>3, <2>4 DEF ReleasedJob
<1>6. ASSUME NEW s \in Waiting \cup Terminal, NEW kind PROVE FailedJob(j, s, kind) \in JobRow
  <2>1. Unleased(job[j], s) \in JobRow
    BY <1>1, UnleasedType
  <2>2. \A r \in JobRow, c \in Causes : [r EXCEPT !.cause = c] \in JobRow
    BY DEF JobRow
  <2>3. Unleased(job[j], s).cause \in Causes
    BY <2>1 DEF JobRow
  <2> QED BY <2>1, <2>2, <2>3 DEF FailedJob, Causes
<1> QED BY <1>2, <1>3, <1>4, <1>5, <1>6

LEMMA ClaimType ==
    ASSUME TypeOK, NEW w \in Workers, NEW S \in SUBSET Jobs, ClaimJobs(w, S) PROVE TypeOK'
<1>1. job' \in [Jobs -> JobRow]
  BY StatementTypes DEF TypeOK, ClaimJobs
<1>2. row' \in PerClaim(AttemptRow)
  BY StatementTypes DEF TypeOK, ClaimJobs, PerClaim
<1>3. lane' \in PerClaim(LaneStates)
  BY StateNames DEF TypeOK, ClaimJobs, PerClaim
<1>4. made' \in [Jobs -> 0 .. MaxClaims]
  <2>1. \A j \in S : made[j] \in 0 .. MaxClaims /\ made[j] < MaxClaims
    BY DEF TypeOK, ClaimJobs
  <2>2. \A j \in S : made[j] + 1 \in 0 .. MaxClaims
    BY <2>1, JobQueueConstants
  <2> QED BY <2>2 DEF TypeOK, ClaimJobs
<1> QED BY <1>1, <1>2, <1>3, <1>4 DEF TypeOK, ClaimJobs

LEMMA TypeStep == TypeOK /\ [Next]_vars => TypeOK'
<1> SUFFICES ASSUME TypeOK, [Next]_vars PROVE TypeOK'
  OBVIOUS
<1>1. ASSUME NEW w \in Workers, NEW S \in SUBSET Jobs, ClaimJobs(w, S) PROVE TypeOK'
  BY <1>1, ClaimType
<1>2. ASSUME NEW j \in Jobs, NEW n \in Numbers, StartClaim(j, n) PROVE TypeOK'
  BY <1>2, LaneType, StateNames DEF StartClaim, TypeOK
<1>3. ASSUME NEW j \in Jobs, NEW n \in Numbers, Renew(j, n) PROVE TypeOK'
  BY <1>3, LaneType, ReturnType, StateNames DEF Renew, TypeOK
<1>4. ASSUME NEW j \in Jobs, NEW n \in Numbers, BeginApply(j, n) PROVE TypeOK'
  <2>1. lane' \in PerClaim(LaneStates) /\ report' \in PerClaim(Reports)
    BY <1>4, LaneType, ReturnType, StateNames DEF BeginApply, TypeOK
  <2>2. locked' \in [Jobs -> 0 .. MaxClaims]
    BY <1>4 DEF BeginApply, TypeOK, Numbers
  <2> QED BY <1>4, <2>1, <2>2 DEF BeginApply, TypeOK
<1>5. ASSUME NEW j \in Jobs, NEW n \in Numbers, NEW result \in {"processed", "superseded"},
             FinishClaim(j, n, result) PROVE TypeOK'
  <2>1. lane' \in PerClaim(LaneStates) /\ report' \in PerClaim(Reports)
    BY <1>5, LearnType, StateNames DEF FinishClaim
  <2>2. row' \in PerClaim(AttemptRow)
    BY <1>5, RowState, StateNames DEF FinishClaim, TypeOK
  <2>3. job' \in [Jobs -> JobRow]
    BY <1>5, UnleasedType DEF FinishClaim, TypeOK, Terminal
  <2>4. locked' \in [Jobs -> 0 .. MaxClaims]
    BY <1>5, JobQueueConstants DEF FinishClaim, TypeOK
  <2>5. appliedBy' \in [Jobs -> SUBSET Numbers]
    BY <1>5 DEF FinishClaim, TypeOK
  <2> QED BY <1>5, <2>1, <2>2, <2>3, <2>4, <2>5 DEF FinishClaim, TypeOK
<1>6. ASSUME NEW j \in Jobs, NEW n \in Numbers,
             NEW kind \in {"dependency", "retryable", "durable"}, FailClaim(j, n, kind)
      PROVE  TypeOK'
  <2> DEFINE s == FailState(j, n, kind)
  <2>1. s \in {"waiting_dependency", "waiting_retry", "failed"}
    BY DEF FailState
  <2>2. lane' \in PerClaim(LaneStates) /\ report' \in PerClaim(Reports)
    BY <1>6, LearnType, StateNames DEF FailClaim
  <2>3. row' \in PerClaim(AttemptRow)
    BY <1>6, <2>1, RowState, StateNames DEF FailClaim, TypeOK
  <2>4. job' \in [Jobs -> JobRow]
    BY <1>6, <2>1, StatementTypes, StateNames DEF FailClaim, TypeOK
  <2>5. giveBacks' \in Nat
    BY <1>6 DEF FailClaim, TypeOK
  <2> QED BY <1>6, <2>2, <2>3, <2>4, <2>5 DEF FailClaim, TypeOK
<1>7. ASSUME NEW j \in Jobs, NEW n \in Numbers, FailClaimLost(j, n) PROVE TypeOK'
  BY <1>7, ReturnType, StateNames DEF FailClaimLost, TypeOK
<1>8. ASSUME NEW j \in Jobs, NEW n \in Numbers, ReadSaved(j, n) PROVE TypeOK'
  <2>1. SavedReports(j, n) \in Reports
    BY StateNames DEF SavedReports, SavedReport
  <2> QED BY <1>8, <2>1, LaneType, ReturnType, StateNames DEF ReadSaved, TypeOK
<1>9. ASSUME NEW j \in Jobs, NEW n \in Numbers, Abandon(j, n) PROVE TypeOK'
  BY <1>9, ReturnType, StateNames DEF Abandon, TypeOK
<1>10. ASSUME NEW j \in Jobs, NEW n \in Numbers, Defer(j, n) PROVE TypeOK'
  <2>1. lane' \in PerClaim(LaneStates) /\ report' \in PerClaim(Reports)
    BY <1>10, LaneType, ReturnType, StateNames DEF Defer, TypeOK
  <2>2. row' \in PerClaim(AttemptRow)
    <3>1. row' = row \/ row' = [row EXCEPT ![j][n].state = "waiting_dependency"]
      BY <1>10 DEF Defer
    <3> QED BY <3>1, RowState, StateNames DEF TypeOK
  <2>3. job' \in [Jobs -> JobRow]
    BY <1>10, UnleasedType DEF Defer, TypeOK, Waiting
  <2> QED BY <1>10, <2>1, <2>2, <2>3 DEF Defer, TypeOK
<1>11. ASSUME NEW j \in Jobs, NEW n \in Numbers, Refund(j, n) PROVE TypeOK'
  <2>1. job' \in [Jobs -> JobRow]
    <3>1. \A r \in JobRow, a \in Nat : [r EXCEPT !.attempts = a] \in JobRow
      BY DEF JobRow
    <3> QED BY <1>11, <3>1, StatementTypes, RowFields DEF Refund, TypeOK
  <2>2. lane' \in PerClaim(LaneStates) /\ report' \in PerClaim(Reports)
    <3>1. lane \in PerClaim(LaneStates) /\ report \in PerClaim(Reports)
      BY DEF TypeOK
    <3>2. CASE Holds(j, n)
      BY <1>11, <3>1, <3>2, OneClaim, StateNames DEF Refund
    <3>3. CASE ~Holds(j, n)
      BY <1>11, <3>3, ReturnType, StateNames DEF Refund
    <3> QED BY <3>2, <3>3
  <2> QED BY <1>11, <2>1, <2>2 DEF Refund, TypeOK
<1>12. ASSUME NEW j \in Jobs, NEW n \in Numbers, Rerun(j, n) PROVE TypeOK'
  <2>1. locked' \in [Jobs -> 0 .. MaxClaims] /\ giveBacks' \in Nat
    BY <1>12, JobQueueConstants DEF Rerun, TypeOK
  <2> QED BY <1>12, <2>1, LaneType, StateNames DEF Rerun, TypeOK
<1>13. ASSUME NEW j \in Jobs, NEW n \in Numbers,
              NEW next \in {"deferring", "refunding", "unknown"}, Conflict(j, n, next)
       PROVE  TypeOK'
  <2>1. locked' \in [Jobs -> 0 .. MaxClaims] /\ giveBacks' \in Nat
    BY <1>13, JobQueueConstants DEF Conflict, TypeOK
  <2> QED BY <1>13, <2>1, LaneType, StateNames DEF Conflict, TypeOK
<1>14. ASSUME NEW w \in Workers, ReleaseBatch(w) PROVE TypeOK'
  <2>1. job' \in [Jobs -> JobRow]
    <3>1. \A j \in Jobs : <<j, job[j].token>> \in MineIn(w, {"batched"}) =>
                            ReleasedJob(j) \in JobRow
      BY StatementTypes DEF MineIn, Claims
    <3> QED BY <1>14, <3>1 DEF ReleaseBatch, TypeOK
  <2>2. row' \in PerClaim(AttemptRow)
    BY <1>14, StatementTypes, RowFields DEF ReleaseBatch, PerClaim
  <2>3. lane' \in PerClaim(LaneStates)
    BY <1>14, StateNames DEF ReleaseBatch, TypeOK, PerClaim
  <2>4. giveBacks' \in Nat
    BY <1>14 DEF ReleaseBatch, TypeOK
  <2> QED BY <1>14, <2>1, <2>2, <2>3, <2>4 DEF ReleaseBatch, TypeOK
<1>15. ASSUME NEW w \in Workers, Crash(w) PROVE TypeOK'
  <2>1. lane' \in PerClaim(LaneStates)
    BY <1>15, StateNames DEF Crash, TypeOK, PerClaim
  <2>2. locked' \in [Jobs -> 0 .. MaxClaims]
    BY <1>15, JobQueueConstants DEF Crash, TypeOK
  <2> QED BY <1>15, <2>1, <2>2 DEF Crash, TypeOK
<1>16. ASSUME NEW w \in Workers, MaintainQueue(w) PROVE TypeOK'
  <2>1. row' \in PerClaim(AttemptRow)
    BY <1>16, StatementTypes, RowFields DEF MaintainQueue, PerClaim
  <2>2. job' \in [Jobs -> JobRow]
    BY <1>16, StatementTypes DEF MaintainQueue, TypeOK
  <2> QED BY <1>16, <2>1, <2>2 DEF MaintainQueue, TypeOK
<1>17. ASSUME NEW j \in Jobs, Expire(j) PROVE TypeOK'
  <2>1. job' \in [Jobs -> JobRow]
    BY <1>17 DEF Expire, TypeOK, JobRow
  <2> QED BY <1>17, <2>1 DEF Expire, TypeOK
<1>18. CASE UNCHANGED vars
  BY <1>18 DEF vars, TypeOK
<1> QED
  BY <1>1, <1>2, <1>3, <1>4, <1>5, <1>6, <1>7, <1>8, <1>9, <1>10, <1>11, <1>12, <1>13,
     <1>14, <1>15, <1>16, <1>17, <1>18 DEF Next, LaneStep, Fault

\* TypeOK holds for every set of jobs and workers, attempt limit and bound.
THEOREM TypeCorrect == Spec => []TypeOK
<1>1. Init => TypeOK
  BY InitIInv DEF IInv
<1> QED BY <1>1, TypeStep, PTL DEF Spec

-----------------------------------------------------------------------------
(* Leases and locks *)

\* What each statement leaves in the columns the invariant reads.
LEMMA Effects ==
    ASSUME TypeOK, NEW j \in Jobs
    PROVE  /\ LeasedJob(j).state = "leased" /\ LeasedJob(j).token = made[j] + 1
           /\ \A w : NewRow(w, j).state = "running"
           /\ \A w : /\ RecoveredJob(w, j).state \in {"failed", "pending"}
                    /\ RecoveredJob(w, j).token = 0
           /\ \A s, kind : FailedJob(j, s, kind).state = s /\ FailedJob(j, s, kind).token = 0
           /\ \A s : Unleased(job[j], s).state = s /\ Unleased(job[j], s).token = 0
           /\ ReleasedJob(j).state \in {"waiting_dependency", "pending"}
           /\ ReleasedJob(j).token = 0
           /\ \A n \in Numbers :
                 /\ StaleRunning(j, n).state =
                       IF row[j][n].state = "running" THEN "stale" ELSE row[j][n].state
                 /\ ReleasedRow(j, n).state = "released"
<1>1. job[j] \in JobRow /\ \A n \in Numbers : row[j][n] \in AttemptRow
  BY RowFields
<1> QED
  BY <1>1 DEF LeasedJob, NewRow, RecoveredJob, FailedJob, Unleased, ReleasedJob, StaleRunning,
              ReleasedRow, JobRow, AttemptRow

\* The part of the invariant the fences rest on.
Fenced == Numbered /\ Tokens /\ RunningRowIsLease /\ LockKeepsLease

\* Steps that only move lanes which neither were nor become applying.
LEMMA LanesOnly ==
    ASSUME TypeOK, Fenced, UNCHANGED <<job, row, made, locked>>,
           \A j \in Jobs, n \in Numbers :
              lane'[j][n] # lane[j][n] =>
                 lane[j][n] \notin {"none", "applying"} /\ lane'[j][n] # "applying"
    PROVE  Fenced'
  BY DEF Fenced, Numbered, Tokens, RunningRowIsLease, LockKeepsLease, Holds

\* A claim that holds its job stops holding it, its row closed, no lock on it.
LEMMA Leaves ==
    ASSUME TypeOK, Fenced, NEW j \in Jobs, NEW n \in Numbers, Holds(j, n),
           locked[j] \in {0, n}, made' = made, locked'[j] = 0,
           job'[j].state # "leased", job'[j].token = 0, lane'[j][n] # "applying",
           row'[j][n].state # "running",
           \A k \in Jobs : k # j => job'[k] = job[k] /\ locked'[k] = locked[k],
           \A k \in Jobs, m \in Numbers :
              k # j \/ m # n => lane'[k][m] = lane[k][m] /\ row'[k][m] = row[k][m]
    PROVE  Fenced'
<1>1. \A k \in Jobs : made[k] \in Nat /\ job[k].token \in Nat
  BY RowFields
<1>2. ~(n > made[j])
  BY <1>1 DEF Fenced, Tokens, Holds, Numbers
<1>3. Numbered' /\ Tokens'
  BY <1>1, <1>2 DEF Fenced, Numbered, Tokens
<1>4. RunningRowIsLease'
  <2>1. ASSUME NEW k \in Jobs, NEW m \in Numbers
        PROVE  (row'[k][m].state = "running" <=> Holds(k, m)')
    <3>1. row[k][m].state = "running" <=> Holds(k, m)
      BY DEF Fenced, RunningRowIsLease
    <3>2. CASE k = j
      BY <3>1, <3>2 DEF Holds
    <3>3. CASE k # j
      BY <3>1, <3>3 DEF Holds
    <3> QED BY <3>2, <3>3
  <2> QED BY <2>1 DEF RunningRowIsLease
<1>5. LockKeepsLease'
  <2>1. ASSUME NEW k \in Jobs, NEW m \in Numbers
        PROVE  (lane'[k][m] = "applying" <=> locked'[k] = m) /\ (locked'[k] = m => Holds(k, m)')
    <3>1. /\ lane[k][m] = "applying" <=> locked[k] = m
          /\ locked[k] = m => Holds(k, m)
      BY DEF Fenced, LockKeepsLease
    <3>2. m # 0
      BY DEF Numbers
    <3>3. CASE k = j
      BY <3>1, <3>2, <3>3
    <3>4. CASE k # j
      BY <3>1, <3>4 DEF Holds
    <3> QED BY <3>3, <3>4
  <2> QED BY <2>1 DEF LockKeepsLease
<1> QED BY <1>3, <1>4, <1>5 DEF Fenced

LEMMA FencedClaim ==
    ASSUME TypeOK, Fenced, NEW w \in Workers, NEW S \in SUBSET Jobs, ClaimJobs(w, S)
    PROVE  Fenced'
<1>1. \A j \in Jobs : job'[j] = IF j \in S THEN LeasedJob(j) ELSE job[j]
  BY DEF ClaimJobs
<1>2. \A j \in Jobs, n \in Numbers :
         row'[j][n] = IF j \in S /\ n = made[j] + 1 THEN NewRow(w, j)
                      ELSE IF j \in S THEN StaleRunning(j, n) ELSE row[j][n]
  BY DEF ClaimJobs
<1>3. \A j \in Jobs, n \in Numbers :
         lane'[j][n] = IF j \in S /\ n = made[j] + 1 THEN "batched" ELSE lane[j][n]
  BY DEF ClaimJobs
<1>4. \A j \in Jobs : made'[j] = IF j \in S THEN made[j] + 1 ELSE made[j]
  BY DEF ClaimJobs
<1>5. locked' = locked /\ \A j \in S : locked[j] = 0
  BY DEF ClaimJobs, Claimable
<1>6. \A j \in Jobs : made[j] \in Nat /\ job[j].token \in Nat
  BY RowFields
<1>7. ASSUME NEW j \in Jobs, NEW n \in Numbers
      PROVE  /\ n > made'[j] => row'[j][n].state = "none" /\ lane'[j][n] = "none"
             /\ row'[j][n].state = "running" <=> Holds(j, n)'
             /\ lane'[j][n] = "applying" <=> locked'[j] = n
             /\ locked'[j] = n => Holds(j, n)'
  <2>1. /\ n > made[j] => row[j][n].state = "none" /\ lane[j][n] = "none"
        /\ row[j][n].state = "running" <=> Holds(j, n)
        /\ lane[j][n] = "applying" <=> locked[j] = n
        /\ locked[j] = n => Holds(j, n)
    BY DEF Fenced, Numbered, RunningRowIsLease, LockKeepsLease
  <2>2. CASE j \notin S
    BY <1>1, <1>2, <1>3, <1>4, <1>5, <2>1, <2>2 DEF Holds
  <2>3. CASE j \in S /\ n = made[j] + 1
    BY <1>1, <1>2, <1>3, <1>4, <1>5, <1>6, <2>1, <2>3, Effects DEF Holds, Numbers
  <2>4. CASE j \in S /\ n # made[j] + 1
    BY <1>1, <1>2, <1>3, <1>4, <1>5, <1>6, <2>1, <2>4, Effects DEF Holds, Numbers
  <2> QED BY <2>2, <2>3, <2>4
<1>8. Tokens'
  BY <1>1, <1>4, <1>6, Effects DEF Fenced, Tokens
<1> QED BY <1>7, <1>8 DEF Fenced, Numbered, RunningRowIsLease, LockKeepsLease

\* The parts of Fenced at one claim, for the lemmas that follow.
LEMMA FencedAt ==
    ASSUME TypeOK, Fenced, NEW j \in Jobs, NEW n \in Numbers
    PROVE  /\ n > made[j] => row[j][n].state = "none" /\ lane[j][n] = "none"
           /\ row[j][n].state = "running" <=> Holds(j, n)
           /\ lane[j][n] = "applying" <=> locked[j] = n
           /\ locked[j] = n => Holds(j, n)
           /\ job[j].state = "leased" <=> job[j].token # 0
           /\ job[j].token <= made[j] /\ n # 0
  BY DEF Fenced, Numbered, Tokens, RunningRowIsLease, LockKeepsLease, Numbers

\* A transaction starts or ends without changing a job or an attempt row.
LEMMA FencedLock ==
    ASSUME TypeOK, Fenced, NEW j \in Jobs, NEW n \in Numbers, NEW l,
           UNCHANGED <<job, row, made>>, lane' = [lane EXCEPT ![j][n] = l],
           lane[j][n] # "none",
           \/ l # "applying" /\ locked' = [locked EXCEPT ![j] =
                                            IF lane[j][n] = "applying" THEN 0 ELSE @]
           \/ /\ l = "applying" /\ Holds(j, n) /\ locked[j] = 0
              /\ locked' = [locked EXCEPT ![j] = n]
    PROVE  Fenced'
<1>1. \A k \in Jobs, m \in Numbers :
         lane'[k][m] = IF k = j /\ m = n THEN l ELSE lane[k][m]
  BY DEF TypeOK, PerClaim
<1>2. \A k \in Jobs : locked'[k] = IF k # j THEN locked[k]
                                  ELSE IF l = "applying" THEN n
                                  ELSE IF lane[j][n] = "applying" THEN 0 ELSE locked[j]
  BY DEF TypeOK
<1>3. ASSUME NEW k \in Jobs, NEW m \in Numbers
      PROVE  /\ m > made[k] => lane'[k][m] = "none"
             /\ lane'[k][m] = "applying" <=> locked'[k] = m
             /\ locked'[k] = m => Holds(k, m)
  <2>1. CASE k # j
    BY <1>1, <1>2, <2>1, FencedAt
  <2>2. CASE k = j /\ m = n
    BY <1>1, <1>2, <2>2, FencedAt
  <2>3. CASE k = j /\ m # n
    BY <1>1, <1>2, <2>3, FencedAt
  <2> QED BY <2>1, <2>2, <2>3
<1> QED
  BY <1>3 DEF Fenced, Numbered, Tokens, RunningRowIsLease, LockKeepsLease, Holds

LEMMA FencedFinish ==
    ASSUME TypeOK, Fenced, NEW j \in Jobs, NEW n \in Numbers, NEW result,
           FinishClaim(j, n, result)
    PROVE  Fenced'
<1>1. Holds(j, n) /\ locked[j] = n /\ made' = made
  BY FencedAt DEF FinishClaim
<1>2. job'[j].state # "leased" /\ job'[j].token = 0
  BY Effects DEF FinishClaim, TypeOK
<1>3. row \in [Jobs -> [Numbers -> AttemptRow]]
  BY DEF TypeOK, PerClaim
<1>4. row'[j][n].state # "running"
  BY <1>3 DEF FinishClaim, AttemptRow
<1>5. lane'[j][n] # "applying"
  BY DEF FinishClaim, LearnCommit, Return, TypeOK, PerClaim
<1>6. locked'[j] = 0 /\ \A k \in Jobs : k # j => job'[k] = job[k] /\ locked'[k] = locked[k]
  BY DEF FinishClaim, TypeOK
<1>7. \A k \in Jobs, m \in Numbers :
         k # j \/ m # n => lane'[k][m] = lane[k][m] /\ row'[k][m] = row[k][m]
  BY DEF FinishClaim, LearnCommit, Return, TypeOK, PerClaim
<1> QED BY <1>1, <1>2, <1>4, <1>5, <1>6, <1>7, Leaves

LEMMA FencedFail ==
    ASSUME TypeOK, Fenced, NEW j \in Jobs, NEW n \in Numbers, NEW kind,
           FailClaim(j, n, kind)
    PROVE  Fenced'
<1> DEFINE s == FailState(j, n, kind)
<1>1. Holds(j, n) /\ locked[j] = 0 /\ locked' = locked /\ made' = made
  BY DEF FailClaim, HoldsLive
<1>2. s \notin {"leased", "running"}
  BY DEF FailState
<1>3. job'[j].state # "leased" /\ job'[j].token = 0
  BY <1>2, Effects DEF FailClaim, TypeOK
<1>4. row \in [Jobs -> [Numbers -> AttemptRow]]
  BY DEF TypeOK, PerClaim
<1>5. row'[j][n].state # "running"
  BY <1>2, <1>4 DEF FailClaim, AttemptRow
<1>6. lane'[j][n] # "applying"
  BY DEF FailClaim, LearnCommit, Return, TypeOK, PerClaim
<1>7. \A k \in Jobs : k # j => job'[k] = job[k]
  BY DEF FailClaim, TypeOK
<1>8. \A k \in Jobs, m \in Numbers :
         k # j \/ m # n => lane'[k][m] = lane[k][m] /\ row'[k][m] = row[k][m]
  BY DEF FailClaim, LearnCommit, Return, TypeOK, PerClaim
<1> QED BY <1>1, <1>3, <1>5, <1>6, <1>7, <1>8, Leaves

LEMMA FencedDefer ==
    ASSUME TypeOK, Fenced, NEW j \in Jobs, NEW n \in Numbers, Defer(j, n)
    PROVE  Fenced'
<1>1. locked' = locked /\ made' = made /\ lane[j][n] = "deferring"
  BY DEF Defer
<1>2. lane'[j][n] \in {"over", "refunding"}
  BY DEF Defer, Return, TypeOK, PerClaim
<1>3. \A k \in Jobs, m \in Numbers : k # j \/ m # n => lane'[k][m] = lane[k][m]
  BY DEF Defer, Return, TypeOK, PerClaim
<1>4. CASE job' = job /\ row' = row
  BY <1>1, <1>2, <1>3, <1>4, LanesOnly
<1>5. CASE /\ Holds(j, n) /\ job' = [job EXCEPT ![j] = Unleased(@, "waiting_dependency")]
           /\ row' = [row EXCEPT ![j][n].state = "waiting_dependency"]
  <2>1. job'[j].state # "leased" /\ job'[j].token = 0
    BY <1>5, Effects DEF TypeOK
  <2>2. row \in [Jobs -> [Numbers -> AttemptRow]]
    BY DEF TypeOK, PerClaim
  <2>3. row'[j][n].state # "running"
    BY <1>5, <2>2 DEF AttemptRow
  <2>4. \A k \in Jobs, m \in Numbers :
           (k # j => job'[k] = job[k]) /\ (k # j \/ m # n => row'[k][m] = row[k][m])
    BY <1>5, <2>2 DEF TypeOK
  <2>5. \A k \in Jobs : k # j => job'[k] = job[k]
    BY <1>5 DEF TypeOK
  <2>6. locked[j] \in {0, n}
    <3>1. locked[j] \in 0 .. MaxClaims
      BY DEF TypeOK
    <3>2. locked[j] # 0 => Holds(j, locked[j])
      BY <3>1, FencedAt, JobQueueConstants DEF Numbers
    <3> QED BY <1>5, <3>2 DEF Holds
  <2>7. locked[j] = 0
    BY <1>1, <2>6, FencedAt
  <2> QED BY <1>1, <1>2, <1>3, <1>5, <2>1, <2>3, <2>4, <2>5, <2>7, Leaves
<1> QED BY <1>4, <1>5 DEF Defer

LEMMA FencedRefund ==
    ASSUME TypeOK, Fenced, NEW j \in Jobs, NEW n \in Numbers, Refund(j, n)
    PROVE  Fenced'
<1>1. /\ row' = row /\ made' = made /\ locked' = locked
      /\ \A k \in Jobs : job'[k].state = job[k].state /\ job'[k].token = job[k].token
  BY RowFields DEF Refund, TypeOK, JobRow
<1>2. \A k \in Jobs, m \in Numbers :
         lane'[k][m] # lane[k][m] =>
            lane[k][m] \notin {"none", "applying"} /\ lane'[k][m] # "applying"
  <2>1. \E l \in {"refunded", "over"} : lane' = [lane EXCEPT ![j][n] = l]
    BY DEF Refund, Return
  <2>2. lane[j][n] = "refunding"
    BY DEF Refund
  <2> QED BY <2>1, <2>2 DEF TypeOK, PerClaim
<1> QED
  BY <1>1, <1>2 DEF Fenced, Numbered, Tokens, RunningRowIsLease, LockKeepsLease, Holds

LEMMA FencedExpire ==
    ASSUME TypeOK, Fenced, NEW j \in Jobs, Expire(j)
    PROVE  Fenced'
<1>1. \A k \in Jobs : job'[k].state = job[k].state /\ job'[k].token = job[k].token
  BY RowFields DEF Expire, TypeOK, JobRow
<1> QED
  BY <1>1 DEF Expire, Fenced, Numbered, Tokens, RunningRowIsLease, LockKeepsLease, Holds

LEMMA FencedRelease ==
    ASSUME TypeOK, Fenced, NEW w \in Workers, ReleaseBatch(w)
    PROVE  Fenced'
<1> DEFINE batch == MineIn(w, {"batched"})
           released == {c \in batch : Holds(c[1], c[2])}
<1>1. \A j \in Jobs : job'[j] = IF <<j, job[j].token>> \in released
                               THEN ReleasedJob(j) ELSE job[j]
  BY DEF ReleaseBatch
<1>2. \A j \in Jobs, n \in Numbers :
         /\ row'[j][n] = IF <<j, n>> \in released THEN ReleasedRow(j, n) ELSE row[j][n]
         /\ lane'[j][n] = IF <<j, n>> \in batch THEN "over" ELSE lane[j][n]
  BY DEF ReleaseBatch
<1>3. \A j \in Jobs, n \in Numbers :
         /\ <<j, n>> \in batch => lane[j][n] = "batched"
         /\ <<j, n>> \in released <=> <<j, n>> \in batch /\ Holds(j, n)
  BY DEF MineIn, Claims
<1>4. \A j \in Jobs : <<j, job[j].token>> \in released =>
                      job[j].token \in Numbers /\ Holds(j, job[j].token)
  BY DEF MineIn, Claims
<1>5. locked' = locked /\ made' = made
  BY DEF ReleaseBatch
<1>6. ASSUME NEW j \in Jobs, NEW n \in Numbers
      PROVE  /\ n > made'[j] => row'[j][n].state = "none" /\ lane'[j][n] = "none"
             /\ row'[j][n].state = "running" <=> Holds(j, n)'
             /\ lane'[j][n] = "applying" <=> locked'[j] = n
             /\ locked'[j] = n => Holds(j, n)'
  <2>1. CASE <<j, n>> \in released
    <3>1. Holds(j, n) /\ job[j].token = n /\ ~(n > made[j]) /\ locked[j] # n
      BY <1>3, <2>1, FencedAt DEF Holds
    <3>2. job'[j].state # "leased" /\ row'[j][n].state = "released"
      BY <1>1, <1>2, <2>1, <3>1, Effects
    <3> QED BY <1>2, <1>3, <1>5, <2>1, <3>1, <3>2 DEF Holds
  <2>2. CASE <<j, n>> \notin released
    <3>1. row'[j][n] = row[j][n]
      BY <1>2, <2>2
    <3>2. Holds(j, n)' <=> Holds(j, n)
      <4>1. CASE <<j, job[j].token>> \in released
        BY <1>1, <1>4, <2>2, <4>1, Effects DEF Holds
      <4>2. CASE <<j, job[j].token>> \notin released
        BY <1>1, <4>2 DEF Holds
      <4> QED BY <4>1, <4>2
    <3>3. lane'[j][n] = lane[j][n] \/ (lane[j][n] = "batched" /\ lane'[j][n] = "over")
      BY <1>2, <1>3
    <3> QED BY <1>5, <3>1, <3>2, <3>3, FencedAt
  <2> QED BY <2>1, <2>2
<1>7. Tokens'
  <2>1. ASSUME NEW j \in Jobs
        PROVE  job'[j].token <= made[j] /\ (job'[j].state = "leased" <=> job'[j].token # 0)
    <3>1. job[j].token <= made[j] /\ (job[j].state = "leased" <=> job[j].token # 0)
      BY DEF Fenced, Tokens
    <3>2. made[j] \in Nat
      BY RowFields
    <3>3. CASE <<j, job[j].token>> \in released
      BY <1>1, <3>2, <3>3, Effects
    <3>4. CASE <<j, job[j].token>> \notin released
      BY <1>1, <3>1, <3>4
    <3> QED BY <3>3, <3>4
  <2> QED BY <1>5, <2>1 DEF Tokens
<1> QED BY <1>6, <1>7 DEF Fenced, Numbered, RunningRowIsLease, LockKeepsLease

LEMMA FencedCrash ==
    ASSUME TypeOK, Fenced, NEW w \in Workers, Crash(w)
    PROVE  Fenced'
<1> DEFINE mine == MineIn(w, Busy \cup {"batched"})
<1>1. \A j \in Jobs, n \in Numbers :
         lane'[j][n] = IF <<j, n>> \in mine THEN "over" ELSE lane[j][n]
  BY DEF Crash
<1>2. \A j \in Jobs : locked'[j] = IF <<j, locked[j]>> \in mine THEN 0 ELSE locked[j]
  BY DEF Crash
<1>3. \A j \in Jobs, n \in Numbers : <<j, n>> \in mine => lane[j][n] # "none"
  BY DEF MineIn, Claims, Busy
<1>4. UNCHANGED <<job, row, made>>
  BY DEF Crash
<1>5. ASSUME NEW j \in Jobs, NEW n \in Numbers
      PROVE  /\ n > made[j] => lane'[j][n] = "none"
             /\ lane'[j][n] = "applying" <=> locked'[j] = n
             /\ locked'[j] = n => Holds(j, n)
  <2> HIDE DEF mine
  <2>1. /\ n > made[j] => lane[j][n] = "none"
        /\ lane[j][n] = "applying" <=> locked[j] = n
        /\ locked[j] = n => Holds(j, n)
        /\ n # 0
    BY FencedAt
  <2>2. CASE <<j, n>> \in mine
    BY <1>1, <1>2, <1>3, <2>1, <2>2
  <2>3. CASE <<j, n>> \notin mine
    BY <1>1, <1>2, <2>1, <2>3
  <2> QED BY <2>2, <2>3
<1> QED
  BY <1>4, <1>5 DEF Fenced, Numbered, Tokens, RunningRowIsLease, LockKeepsLease, Holds

LEMMA FencedMaintain ==
    ASSUME TypeOK, Fenced, NEW w \in Workers, MaintainQueue(w)
    PROVE  Fenced'
<1> DEFINE expired == {j \in Jobs : Expired(j) /\ locked[j] = 0}
<1>1. \A j \in Jobs : job'[j] = IF j \in expired THEN RecoveredJob(w, j) ELSE job[j]
  BY DEF MaintainQueue
<1>2. \A j \in Jobs, n \in Numbers :
         row'[j][n] = IF j \in expired THEN StaleRunning(j, n) ELSE row[j][n]
  BY DEF MaintainQueue
<1>3. UNCHANGED <<made, lane, locked>>
  BY DEF MaintainQueue
<1>4. \A j \in expired : locked[j] = 0
  OBVIOUS
<1>5. ASSUME NEW j \in Jobs, NEW n \in Numbers
      PROVE  /\ n > made[j] => row'[j][n].state = "none" /\ lane[j][n] = "none"
             /\ row'[j][n].state = "running" <=> Holds(j, n)'
             /\ locked[j] = n => Holds(j, n)'
  <2>1. CASE j \in expired
    BY <1>1, <1>2, <1>4, <2>1, FencedAt, Effects DEF Holds
  <2>2. CASE j \notin expired
    BY <1>1, <1>2, <2>2, FencedAt DEF Holds
  <2> QED BY <2>1, <2>2
<1>6. Tokens'
  <2>1. ASSUME NEW j \in Jobs
        PROVE  job'[j].token <= made[j] /\ (job'[j].state = "leased" <=> job'[j].token # 0)
    BY <1>1, Effects, RowFields DEF Fenced, Tokens
  <2> QED BY <1>3, <2>1 DEF Tokens
<1> QED BY <1>3, <1>5, <1>6, FencedAt DEF Fenced, Numbered, RunningRowIsLease, LockKeepsLease

LEMMA FencedStep == TypeOK /\ Fenced /\ [Next]_vars => Fenced'
<1> SUFFICES ASSUME TypeOK, Fenced, [Next]_vars PROVE Fenced'
  OBVIOUS
<1>1. ASSUME NEW j \in Jobs, NEW n \in Numbers,
             StartClaim(j, n) \/ Renew(j, n) \/ FailClaimLost(j, n) \/ ReadSaved(j, n)
                \/ Abandon(j, n)
      PROVE  Fenced'
  <2>1. UNCHANGED <<job, row, made, locked>>
    BY <1>1 DEF StartClaim, Renew, FailClaimLost, ReadSaved, Abandon
  <2>2. lane[j][n] \notin {"none", "applying"}
    BY <1>1 DEF StartClaim, Renew, FailClaimLost, ReadSaved, Abandon
  <2>3. \E l \in {"started", "running", "refunding", "over"} : lane' = [lane EXCEPT ![j][n] = l]
    BY <1>1 DEF StartClaim, Renew, FailClaimLost, ReadSaved, Abandon, Return
  <2>4. \A k \in Jobs, m \in Numbers :
           lane'[k][m] # lane[k][m] =>
              lane[k][m] \notin {"none", "applying"} /\ lane'[k][m] # "applying"
    BY <2>2, <2>3 DEF TypeOK, PerClaim
  <2> QED BY <2>1, <2>4, LanesOnly
<1>2. ASSUME NEW j \in Jobs, NEW n \in Numbers, BeginApply(j, n) PROVE Fenced'
  <2>1. CASE HoldsLive(j, n)
    BY <1>2, <2>1, FencedLock DEF BeginApply, HoldsLive
  <2>2. CASE ~HoldsLive(j, n)
    <3>1. UNCHANGED <<job, row, made, locked>>
      BY <1>2, <2>2 DEF BeginApply
    <3>2. \A k \in Jobs, m \in Numbers :
             lane'[k][m] # lane[k][m] =>
                lane[k][m] \notin {"none", "applying"} /\ lane'[k][m] # "applying"
      <4>1. lane' = [lane EXCEPT ![j][n] = "over"] /\ lane[j][n] = "running"
        BY <1>2, <2>2 DEF BeginApply, Return
      <4> QED BY <4>1 DEF TypeOK, PerClaim
    <3> QED BY <3>1, <3>2, LanesOnly
  <2> QED BY <2>1, <2>2
<1>3. ASSUME NEW j \in Jobs, NEW n \in Numbers, Rerun(j, n) PROVE Fenced'
  <2>1. locked' = [locked EXCEPT ![j] = IF lane[j][n] = "applying" THEN 0 ELSE @]
    BY <1>3 DEF Rerun
  <2> QED BY <1>3, <2>1, FencedLock DEF Rerun
<1>4. ASSUME NEW j \in Jobs, NEW n \in Numbers,
             NEW next \in {"deferring", "refunding", "unknown"}, Conflict(j, n, next)
      PROVE  Fenced'
  BY <1>4, FencedLock DEF Conflict
<1>5. CASE UNCHANGED vars
  BY <1>5 DEF vars, Fenced, Numbered, Tokens, RunningRowIsLease, LockKeepsLease, Holds
<1> QED
  BY <1>1, <1>2, <1>3, <1>4, <1>5, FencedClaim, FencedFinish, FencedFail, FencedDefer,
     FencedRefund, FencedRelease, FencedCrash, FencedMaintain, FencedExpire
     DEF Next, LaneStep, Fault

\* Exactly the claim a job's lease names has a running attempt row, and a row
\* lock keeps the lease of its claim, in every reachable state of every
\* instance.
THEOREM LeaseFencing == Spec => [](RunningRowIsLease /\ LockKeepsLease)
<1>1. Init => TypeOK /\ Fenced
  BY InitIInv DEF IInv, Fenced
<1>2. TypeOK /\ Fenced /\ [Next]_vars => (TypeOK /\ Fenced)'
  BY TypeStep, FencedStep
<1>3. TypeOK /\ Fenced => RunningRowIsLease /\ LockKeepsLease
  BY DEF Fenced
<1> QED BY <1>1, <1>2, <1>3, PTL DEF Spec

-----------------------------------------------------------------------------
(* The ledger.  All of it follows from what one step may do to one job:    *)
(* leave it alone, claim it, close the claim that holds it, refund that    *)
(* claim, or recover its expired lease (Kind).  StepKinds shows, action by *)
(* action, that every step is one of these for every job; the properties   *)
(* are then argued over the five kinds instead of over the actions.        *)

\* The rest of job j's books that most kinds leave alone.
Unclaimed(j) == made'[j] = made[j]

SameRefunds(j) ==
    \A n \in Numbers : lane'[j][n] = "refunded" <=> lane[j][n] = "refunded"

\* Job j and its rows are left alone, but for a lease that may run out.
Stays(j) ==
    /\ job'[j].state = job[j].state /\ job'[j].token = job[j].token
    /\ job'[j].attempts = job[j].attempts /\ job'[j].cause = job[j].cause
    /\ \A n \in Numbers : row'[j][n] = row[j][n]
    /\ appliedBy'[j] = appliedBy[j]
    /\ Unclaimed(j) /\ SameRefunds(j)

\* A new claim leases job j; the rows of its older claims are closed.
Taken(j) ==
    /\ job[j].state \in Waiting \/ Expired(j)
    /\ job'[j] = LeasedJob(j)
    /\ made'[j] = made[j] + 1 /\ made[j] + 1 \in Numbers
    /\ \E w \in Workers : \A n \in Numbers :
          row'[j][n] = IF n = made[j] + 1 THEN NewRow(w, j) ELSE StaleRunning(j, n)
    /\ \A n \in Numbers : lane'[j][n] = IF n = made[j] + 1 THEN "batched" ELSE lane[j][n]
    /\ appliedBy'[j] = appliedBy[j]

\* Claim n, which holds job j, closes its row as s and lets the job go.
Closes(j, n, s) ==
    /\ Holds(j, n) /\ lane[j][n] # "refunded"
    /\ job'[j].token = 0
    /\ row'[j][n] = [row[j][n] EXCEPT !.state = s]
    /\ \A m \in Numbers \ {n} : row'[j][m] = row[j][m]
    /\ Unclaimed(j) /\ SameRefunds(j)

Finishes(j, n) ==
    /\ Closes(j, n, "complete")
    /\ job'[j].state = "complete"
    /\ job'[j].attempts = job[j].attempts /\ job'[j].cause = job[j].cause
    /\ appliedBy'[j] \in {appliedBy[j], appliedBy[j] \cup {n}}

Fails(j, n) ==
    /\ \E s \in {"waiting_dependency", "waiting_retry", "failed"} :
          /\ Closes(j, n, s)
          /\ job'[j].state = s
          /\ \/ job'[j].cause = job[j].cause
             \/ s = "failed" /\ job'[j].cause = "durable"
             \/ /\ s = "failed" /\ job'[j].cause = "exhausted"
                /\ EffectiveAttempt(j, n) >= MaxAttempts
    /\ job'[j].attempts = job[j].attempts
    /\ appliedBy'[j] = appliedBy[j]

Releases(j, n) ==
    /\ Closes(j, n, "released")
    /\ job'[j].state \in {"waiting_dependency", "pending"}
    /\ job'[j].attempts = row[j][n].count /\ job'[j].cause = job[j].cause
    /\ appliedBy'[j] = appliedBy[j]

\* Claim n gives its attempt back and keeps its lease.
Refunds(j, n) ==
    /\ Holds(j, n)
    /\ lane'[j][n] = "refunded"
    /\ \A m \in Numbers \ {n} : lane'[j][m] = lane[j][m]
    /\ job'[j].state = job[j].state /\ job'[j].token = job[j].token
    /\ job'[j].attempts = Refunded(j, n) /\ job'[j].cause = job[j].cause
    /\ \A m \in Numbers : row'[j][m] = row[j][m]
    /\ appliedBy'[j] = appliedBy[j]
    /\ Unclaimed(j)

\* Maintenance takes back the lease of a claim that let it run out.
Recovers(j) ==
    /\ Expired(j)
    /\ job'[j].token = 0 /\ job'[j].attempts = job[j].attempts
    /\ \/ job'[j].state = "pending" /\ job'[j].cause = job[j].cause
       \/ /\ job'[j].state = "failed" /\ job'[j].cause = "lease_expired_max_attempts"
          /\ job[j].attempts >= MaxAttempts
    /\ \A n \in Numbers : row'[j][n] = StaleRunning(j, n)
    /\ appliedBy'[j] = appliedBy[j]
    /\ Unclaimed(j) /\ SameRefunds(j)

Kind(j) ==
    \/ Stays(j) \/ Taken(j) \/ Recovers(j)
    \/ \E n \in Numbers : Finishes(j, n) \/ Fails(j, n) \/ Releases(j, n) \/ Refunds(j, n)

-----------------------------------------------------------------------------
(* Every step is of one kind for every job *)

\* A step that writes nothing but lanes and reports, none of them refunded.
LEMMA KindOfLanes ==
    ASSUME TypeOK, UNCHANGED <<job, row, made, appliedBy>>,
           \A j \in Jobs : SameRefunds(j)
    PROVE  \A j \in Jobs : Kind(j)
  BY DEF Kind, Stays, Unclaimed

\* One lane moves on to l.
LEMMA LaneMoves ==
    ASSUME TypeOK, NEW j \in Jobs, NEW n \in Numbers, NEW l,
           lane' = [lane EXCEPT ![j][n] = l]
    PROVE  /\ lane'[j][n] = l
           /\ \A k \in Jobs, m \in Numbers :
                 k # j \/ m # n => lane'[k][m] = lane[k][m]
  BY DEF TypeOK, PerClaim

\* One row is closed as s.
LEMMA RowCloses ==
    ASSUME TypeOK, NEW j \in Jobs, NEW n \in Numbers, NEW s,
           row' = [row EXCEPT ![j][n].state = s]
    PROVE  /\ row'[j][n] = [row[j][n] EXCEPT !.state = s]
           /\ \A k \in Jobs, m \in Numbers :
                 k # j \/ m # n => row'[k][m] = row[k][m]
  BY DEF TypeOK, PerClaim

\* A claim that was not refunded and will not be leaves its job.
LEMMA ClaimCloses ==
    ASSUME TypeOK, NEW j \in Jobs, NEW n \in Numbers, NEW s, NEW l,
           Holds(j, n), lane[j][n] # "refunded", l # "refunded",
           lane' = [lane EXCEPT ![j][n] = l], row' = [row EXCEPT ![j][n].state = s],
           job'[j].token = 0, made' = made
    PROVE  Closes(j, n, s)
<1>1. SameRefunds(j)
  BY LaneMoves DEF SameRefunds
<1>2. /\ row'[j][n] = [row[j][n] EXCEPT !.state = s]
      /\ \A m \in Numbers \ {n} : row'[j][m] = row[j][m]
  BY DEF TypeOK, PerClaim
<1> QED BY <1>1, <1>2 DEF Closes, Unclaimed

LEMMA UnleasedFields ==
    ASSUME TypeOK, NEW j \in Jobs, NEW s
    PROVE  /\ Unleased(job[j], s).state = s /\ Unleased(job[j], s).token = 0
           /\ Unleased(job[j], s).attempts = job[j].attempts
           /\ Unleased(job[j], s).cause = job[j].cause
           /\ \A k : /\ FailedJob(j, s, k).state = s /\ FailedJob(j, s, k).token = 0
                     /\ FailedJob(j, s, k).attempts = job[j].attempts
                     /\ FailedJob(j, s, k).cause =
                           IF s # "failed" THEN job[j].cause
                           ELSE IF k = "durable" THEN "durable" ELSE "exhausted"
<1>1. job[j] \in JobRow
  BY RowFields
<1> QED BY <1>1 DEF Unleased, FailedJob, JobRow

\* A job no lane of which is refunded or stops being so, and whose rows,
\* number and results do not change.
LEMMA OtherJobs ==
    ASSUME TypeOK, NEW k \in Jobs, job'[k] = job[k], made' = made,
           appliedBy'[k] = appliedBy[k],
           \A m \in Numbers : row'[k][m] = row[k][m] /\ lane'[k][m] = lane[k][m]
    PROVE  Kind(k)
  BY DEF Kind, Stays, SameRefunds, Unclaimed

LEMMA KindOfClaim ==
    ASSUME TypeOK, Fenced, NEW w \in Workers, NEW S \in SUBSET Jobs, ClaimJobs(w, S),
           NEW j \in Jobs
    PROVE  Kind(j)
<1>1. CASE j \in S
  <2>1. made[j] + 1 \in Numbers
    BY <1>1, RowFields, JobQueueConstants DEF ClaimJobs, Numbers
  <2>2. Taken(j)
    BY <1>1, <2>1 DEF ClaimJobs, Taken, Claimable
  <2> QED BY <2>2 DEF Kind
<1>2. CASE j \notin S
  <2>1. job'[j] = job[j] /\ made'[j] = made[j] /\ appliedBy'[j] = appliedBy[j]
    BY <1>2 DEF ClaimJobs
  <2>2. \A n \in Numbers : row'[j][n] = row[j][n] /\ lane'[j][n] = lane[j][n]
    BY <1>2 DEF ClaimJobs
  <2> QED BY <2>1, <2>2 DEF Kind, Stays, SameRefunds, Unclaimed
<1> QED BY <1>1, <1>2

LEMMA KindOfFinish ==
    ASSUME TypeOK, Fenced, NEW j \in Jobs, NEW n \in Numbers, NEW result,
           FinishClaim(j, n, result), NEW k \in Jobs
    PROVE  Kind(k)
<1>1. PICK l \in {"over", "unknown"} : lane' = [lane EXCEPT ![j][n] = l]
  BY DEF FinishClaim, LearnCommit, Return
<1>2. lane[j][n] = "applying" /\ Holds(j, n) /\ made' = made
  BY DEF FinishClaim
<1>3. row' = [row EXCEPT ![j][n].state = "complete"]
  BY DEF FinishClaim
<1>4. job'[j] = Unleased(job[j], "complete") /\ \A i \in Jobs : i # j => job'[i] = job[i]
  BY DEF FinishClaim, TypeOK
<1>5. /\ appliedBy'[j] \in {appliedBy[j], appliedBy[j] \cup {n}}
      /\ \A i \in Jobs : i # j => appliedBy'[i] = appliedBy[i]
  BY DEF FinishClaim, TypeOK
<1>6. CASE k = j
  <2>1. Closes(j, n, "complete")
    <3>1. job'[j].token = 0
      BY <1>4, UnleasedFields
    <3> QED BY <1>1, <1>2, <1>3, <3>1, ClaimCloses
  <2>2. Finishes(j, n)
    BY <1>4, <1>5, <2>1, UnleasedFields DEF Finishes
  <2> QED BY <1>6, <2>2 DEF Kind
<1>7. CASE k # j
  BY <1>1, <1>2, <1>3, <1>4, <1>5, <1>7, LaneMoves, RowCloses, OtherJobs
<1> QED BY <1>6, <1>7

LEMMA KindOfFail ==
    ASSUME TypeOK, Fenced, NEW j \in Jobs, NEW n \in Numbers,
           NEW kind \in {"dependency", "retryable", "durable"},
           FailClaim(j, n, kind), NEW k \in Jobs
    PROVE  Kind(k)
<1> DEFINE s == FailState(j, n, kind)
<1>1. PICK l \in {"over", "unknown"} : lane' = [lane EXCEPT ![j][n] = l]
  BY DEF FailClaim, LearnCommit, Return
<1>2. lane[j][n] \in {"started", "running"} /\ Holds(j, n) /\ made' = made
  BY DEF FailClaim, HoldsLive
<1>3. row' = [row EXCEPT ![j][n].state = s]
  BY DEF FailClaim
<1>4. job'[j] = FailedJob(j, s, kind) /\ \A i \in Jobs : i # j => job'[i] = job[i]
  BY DEF FailClaim, TypeOK
<1>5. appliedBy' = appliedBy
  BY DEF FailClaim
<1>6. s \in {"waiting_dependency", "waiting_retry", "failed"}
  BY DEF FailState
<1>7. s = "failed" /\ kind # "durable" => EffectiveAttempt(j, n) >= MaxAttempts
  <2>1. EffectiveAttempt(j, n) \in Nat
    BY RowFields DEF EffectiveAttempt
  <2> QED BY <2>1, JobQueueConstants DEF FailState
<1> HIDE DEF s
<1>8. CASE k = j
  <2>1. Closes(j, n, s)
    <3>1. job'[j].token = 0
      BY <1>4, UnleasedFields
    <3> QED BY <1>1, <1>2, <1>3, <3>1, ClaimCloses
  <2>2. Fails(j, n)
    BY <1>4, <1>5, <1>6, <1>7, <2>1, UnleasedFields DEF Fails
  <2> QED BY <1>8, <2>2 DEF Kind
<1>9. CASE k # j
  BY <1>1, <1>2, <1>3, <1>4, <1>5, <1>9, LaneMoves, RowCloses, OtherJobs
<1> QED BY <1>8, <1>9

LEMMA KindOfDefer ==
    ASSUME TypeOK, Fenced, NEW j \in Jobs, NEW n \in Numbers, Defer(j, n), NEW k \in Jobs
    PROVE  Kind(k)
<1>1. PICK l \in {"over", "refunding"} : lane' = [lane EXCEPT ![j][n] = l]
  BY DEF Defer, Return
<1>2. lane[j][n] = "deferring" /\ made' = made /\ appliedBy' = appliedBy
  BY DEF Defer
<1>3. \A i \in Jobs : SameRefunds(i)
  BY <1>1, <1>2, LaneMoves DEF SameRefunds
<1>4. CASE UNCHANGED <<job, row>>
  BY <1>2, <1>3, <1>4, KindOfLanes
<1>5. CASE /\ Holds(j, n) /\ job' = [job EXCEPT ![j] = Unleased(@, "waiting_dependency")]
           /\ row' = [row EXCEPT ![j][n].state = "waiting_dependency"]
  <2>1. job'[j] = Unleased(job[j], "waiting_dependency")
        /\ \A i \in Jobs : i # j => job'[i] = job[i]
    BY <1>5 DEF TypeOK
  <2>2. CASE k = j
    <3>1. Closes(j, n, "waiting_dependency")
      <4>1. job'[j].token = 0
        BY <2>1, UnleasedFields
      <4> QED BY <1>1, <1>2, <1>5, <4>1, ClaimCloses
    <3>2. Fails(j, n)
      BY <1>2, <2>1, <3>1, UnleasedFields DEF Fails
    <3> QED BY <2>2, <3>2 DEF Kind
  <2>3. CASE k # j
    BY <1>1, <1>2, <1>5, <2>1, <2>3, LaneMoves, RowCloses, OtherJobs
  <2> QED BY <2>2, <2>3
<1> QED BY <1>4, <1>5 DEF Defer

LEMMA KindOfRefund ==
    ASSUME TypeOK, Fenced, NEW j \in Jobs, NEW n \in Numbers, Refund(j, n), NEW k \in Jobs
    PROVE  Kind(k)
<1>1. lane[j][n] = "refunding" /\ UNCHANGED <<row, made, appliedBy>>
  BY DEF Refund
<1>2. CASE Holds(j, n)
  <2>1. lane' = [lane EXCEPT ![j][n] = "refunded"]
    BY <1>2 DEF Refund
  <2>2. /\ job'[j] = [job[j] EXCEPT !.attempts = Refunded(j, n)]
        /\ \A i \in Jobs : i # j => job'[i] = job[i]
    BY <1>2 DEF Refund, TypeOK
  <2>3. CASE k = j
    <3>1. job[j] \in JobRow
      BY RowFields
    <3>2. /\ job'[j].state = job[j].state /\ job'[j].token = job[j].token
          /\ job'[j].attempts = Refunded(j, n) /\ job'[j].cause = job[j].cause
      BY <2>2, <3>1 DEF JobRow
    <3>3. lane'[j][n] = "refunded" /\ \A m \in Numbers \ {n} : lane'[j][m] = lane[j][m]
      BY <2>1 DEF TypeOK, PerClaim
    <3>4. Refunds(j, n)
      BY <1>1, <1>2, <3>2, <3>3 DEF Refunds, Unclaimed
    <3> QED BY <2>3, <3>4 DEF Kind
  <2>4. CASE k # j
    BY <1>1, <2>1, <2>2, <2>4, LaneMoves, OtherJobs
  <2> QED BY <2>3, <2>4
<1>3. CASE ~Holds(j, n)
  <2>1. lane' = [lane EXCEPT ![j][n] = "over"] /\ job' = job
    BY <1>3 DEF Refund, Return
  <2>2. \A i \in Jobs : SameRefunds(i)
    BY <1>1, <2>1, LaneMoves DEF SameRefunds
  <2> QED BY <1>1, <2>1, <2>2, KindOfLanes
<1> QED BY <1>2, <1>3

LEMMA KindOfRelease ==
    ASSUME TypeOK, Fenced, NEW w \in Workers, ReleaseBatch(w), NEW j \in Jobs
    PROVE  Kind(j)
<1> DEFINE batch == MineIn(w, {"batched"})
           released == {c \in batch : Holds(c[1], c[2])}
           n == job[j].token
<1>1. job'[j] = IF <<j, n>> \in released THEN ReleasedJob(j) ELSE job[j]
  BY DEF ReleaseBatch
<1>2. \A m \in Numbers :
         /\ row'[j][m] = IF <<j, m>> \in released THEN ReleasedRow(j, m) ELSE row[j][m]
         /\ lane'[j][m] = IF <<j, m>> \in batch THEN "over" ELSE lane[j][m]
  BY DEF ReleaseBatch
<1>3. \A m \in Numbers :
         /\ <<j, m>> \in batch => lane[j][m] = "batched"
         /\ <<j, m>> \in released <=> <<j, m>> \in batch /\ Holds(j, m)
  BY DEF MineIn, Claims
<1>4. made' = made /\ appliedBy' = appliedBy /\ SameRefunds(j)
  BY <1>2, <1>3 DEF ReleaseBatch, SameRefunds
<1>5. <<j, n>> \in released => n \in Numbers /\ Holds(j, n) /\ lane[j][n] = "batched"
  BY DEF MineIn, Claims
<1> HIDE DEF batch, released
<1>6. CASE <<j, n>> \in released
  <2>1. ReleasedJob(j).attempts = row[j][n].count /\ ReleasedJob(j).cause = job[j].cause
    BY RowFields DEF ReleasedJob, Unleased, JobRow
  <2>2. \A m \in Numbers \ {n} : <<j, m>> \notin released
    BY <1>3 DEF Holds
  <2>3. Closes(j, n, "released")
    BY <1>1, <1>2, <1>4, <1>5, <1>6, <2>2, Effects DEF Closes, Unclaimed, ReleasedRow
  <2>4. Releases(j, n)
    BY <1>1, <1>4, <1>6, <2>1, <2>3, Effects DEF Releases
  <2> QED BY <1>5, <1>6, <2>4 DEF Kind
<1>7. CASE <<j, n>> \notin released
  <2>1. \A m \in Numbers : <<j, m>> \notin released
    BY <1>3, <1>7 DEF Holds
  <2> QED BY <1>1, <1>2, <1>4, <1>7, <2>1 DEF Kind, Stays, Unclaimed
<1> QED BY <1>6, <1>7

LEMMA KindOfMaintain ==
    ASSUME TypeOK, Fenced, NEW w \in Workers, MaintainQueue(w), NEW j \in Jobs
    PROVE  Kind(j)
<1>1. /\ UNCHANGED <<made, lane, appliedBy>>
      /\ SameRefunds(j)
  BY DEF MaintainQueue, SameRefunds
<1>2. CASE Expired(j) /\ locked[j] = 0
  <2>1. job'[j] = RecoveredJob(w, j) /\ \A n \in Numbers : row'[j][n] = StaleRunning(j, n)
    BY <1>2 DEF MaintainQueue
  <2>2. job[j] \in JobRow
    BY RowFields
  <2>3. Recovers(j)
    BY <1>1, <1>2, <2>1, <2>2
       DEF Recovers, RecoveredJob, Spent, Unleased, JobRow, Unclaimed
  <2> QED BY <2>3 DEF Kind
<1>3. CASE ~(Expired(j) /\ locked[j] = 0)
  BY <1>1, <1>3 DEF MaintainQueue, Kind, Stays, Unclaimed
<1> QED BY <1>2, <1>3

LEMMA KindOfExpire ==
    ASSUME TypeOK, Fenced, NEW j \in Jobs, Expire(j), NEW k \in Jobs
    PROVE  Kind(k)
<1>1. job[j] \in JobRow
  BY RowFields
<1>2. /\ job'[k].state = job[k].state /\ job'[k].token = job[k].token
      /\ job'[k].attempts = job[k].attempts /\ job'[k].cause = job[k].cause
  BY <1>1 DEF Expire, TypeOK, JobRow
<1> QED BY <1>2 DEF Expire, Kind, Stays, Unclaimed, SameRefunds

LEMMA StepKinds ==
    ASSUME TypeOK, Fenced, [Next]_vars
    PROVE  \A j \in Jobs : Kind(j)
<1>1. ASSUME NEW j \in Jobs, NEW n \in Numbers,
             \/ StartClaim(j, n) \/ Renew(j, n) \/ BeginApply(j, n) \/ FailClaimLost(j, n)
             \/ ReadSaved(j, n) \/ Abandon(j, n) \/ Rerun(j, n)
             \/ \E next \in {"deferring", "refunding", "unknown"} : Conflict(j, n, next)
      PROVE  \A k \in Jobs : Kind(k)
  <2>1. UNCHANGED <<job, row, made, appliedBy>>
    BY <1>1 DEF StartClaim, Renew, BeginApply, FailClaimLost, ReadSaved, Abandon, Rerun, Conflict
  <2>2. lane[j][n] # "refunded"
    BY <1>1 DEF StartClaim, Renew, BeginApply, FailClaimLost, ReadSaved, Abandon, Rerun, Conflict
  <2>3. \E l : l # "refunded" /\ lane' = [lane EXCEPT ![j][n] = l]
    BY <1>1 DEF StartClaim, Renew, BeginApply, FailClaimLost, ReadSaved, Abandon, Rerun,
                Conflict, Return
  <2>4. \A k \in Jobs : SameRefunds(k)
    BY <2>2, <2>3, LaneMoves DEF SameRefunds
  <2> QED BY <2>1, <2>4, KindOfLanes
<1>2. ASSUME NEW w \in Workers, Crash(w) PROVE \A k \in Jobs : Kind(k)
  <2>1. \A j \in Jobs, n \in Numbers :
           lane'[j][n] = lane[j][n] \/ (lane[j][n] # "refunded" /\ lane'[j][n] = "over")
    BY <1>2 DEF Crash, MineIn, Claims, Busy
  <2>2. \A k \in Jobs : SameRefunds(k)
    BY <2>1 DEF SameRefunds
  <2>3. UNCHANGED <<job, row, made, appliedBy>>
    BY <1>2 DEF Crash
  <2> QED BY <2>2, <2>3, KindOfLanes
<1>3. CASE UNCHANGED vars
  BY <1>3, KindOfLanes DEF vars, SameRefunds
<1> QED
  BY <1>1, <1>2, <1>3, KindOfClaim, KindOfFinish, KindOfFail, KindOfDefer, KindOfRefund,
     KindOfRelease, KindOfMaintain, KindOfExpire DEF Next, LaneStep, Fault
-----------------------------------------------------------------------------
(* Closed rows, and the contract *)

\* No step changes the row of an attempt that ended, whatever the lane that
\* made it still does (_finish_claim and fail_claim name a row by token alone).
THEOREM RowsFrozen == Spec => ClosedRowsFrozen
<1> DEFINE Frozen == \A j \in Jobs, n \in Numbers :
                        row[j][n].state \notin {"none", "running"} => row'[j][n] = row[j][n]
<1>1. TypeOK /\ Fenced /\ [Next]_vars => Frozen
  <2> SUFFICES ASSUME TypeOK, Fenced, [Next]_vars, NEW j \in Jobs, NEW n \in Numbers,
                      row[j][n].state \notin {"none", "running"}
               PROVE  row'[j][n] = row[j][n]
    OBVIOUS
  <2>1. ~Holds(j, n) /\ ~(n > made[j]) /\ row[j][n] \in AttemptRow
    BY FencedAt, RowFields
  <2>2. n # made[j] + 1
    BY <2>1, RowFields DEF Numbers
  <2>3. StaleRunning(j, n) = row[j][n]
    BY <2>1 DEF StaleRunning, AttemptRow
  <2>4. CASE Taken(j)
    BY <2>2, <2>3, <2>4 DEF Taken
  <2>5. CASE Recovers(j)
    BY <2>3, <2>5 DEF Recovers
  <2>6. ASSUME NEW m \in Numbers, Finishes(j, m) \/ Fails(j, m) \/ Releases(j, m)
        PROVE  row'[j][n] = row[j][n]
    <3>1. n # m
      BY <2>1, <2>6 DEF Finishes, Fails, Releases, Closes
    <3> QED BY <2>6, <3>1 DEF Finishes, Fails, Releases, Closes
  <2> QED
    BY <2>4, <2>5, <2>6, StepKinds DEF Kind, Stays, Refunds
<1>2. Init => TypeOK /\ Fenced
  BY InitIInv DEF IInv, Fenced
<1>3. TypeOK /\ Fenced /\ [Next]_vars => (TypeOK /\ Fenced)'
  BY TypeStep, FencedStep
<1> QED BY <1>1, <1>2, <1>3, PTL DEF Spec, ClosedRowsFrozen

\* Only a complete job has a result applied.
AppliedIsComplete == \A j \in Jobs : appliedBy[j] # {} => job[j].state = "complete"

LEMMA AppliedStep ==
    ASSUME TypeOK, Fenced, AppliedIsComplete, [Next]_vars PROVE AppliedIsComplete'
<1> SUFFICES ASSUME NEW j \in Jobs, appliedBy'[j] # {} PROVE job'[j].state = "complete"
  BY DEF AppliedIsComplete
<1>1. Kind(j)
  BY StepKinds
<1>2. CASE \E n \in Numbers : Finishes(j, n)
  BY <1>2 DEF Finishes
<1>3. CASE ~\E n \in Numbers : Finishes(j, n)
  <2>1. appliedBy'[j] = appliedBy[j]
    BY <1>1, <1>3 DEF Kind, Stays, Taken, Recovers, Fails, Releases, Refunds
  <2>2. job[j].state = "complete"
    BY <2>1 DEF AppliedIsComplete
  <2> QED
    BY <1>1, <1>3, <2>2 DEF Kind, Stays, Taken, Recovers, Fails, Releases, Refunds, Closes,
                            Holds, Expired, Waiting
<1> QED BY <1>2, <1>3

\* Every kind is a step of the contract, or none.
LEMMA KindImplements ==
    ASSUME TypeOK, Fenced, AppliedIsComplete, NEW j \in Jobs, Kind(j)
    PROVE  Contract!JobStep(j) \/ Contract!Same(j)
<1> USE DEF Contract!JobStep, Contract!Same
<1>1. job[j] \in JobRow /\ made[j] \in Nat
  BY RowFields
<1>2. CASE Stays(j)
  BY <1>2 DEF Stays, Unclaimed
<1>3. CASE Taken(j)
  <2>1. job'[j].state = "leased" /\ job'[j].token = made[j] + 1
    BY <1>3, Effects DEF Taken
  <2>2. Contract!Take(j)
    BY <1>3, <2>1 DEF Taken, Expired, Waiting, Contract!Take
  <2> QED BY <2>2
<1>4. CASE Recovers(j)
  BY <1>4 DEF Recovers, Expired, Unclaimed, Waiting, Contract!GiveBack, Contract!Fail, Contract!Leave
<1>5. ASSUME NEW n \in Numbers, Finishes(j, n) PROVE Contract!Finish(j)
  <2>1. appliedBy[j] = {} /\ job[j].token = n
    BY <1>5 DEF Finishes, Closes, Holds, AppliedIsComplete
  <2> QED
    BY <1>5, <2>1 DEF Finishes, Closes, Holds, Unclaimed, Waiting, Contract!Finish, Contract!Leave
<1>6. ASSUME NEW n \in Numbers, Fails(j, n) PROVE Contract!GiveBack(j) \/ Contract!Fail(j)
  BY <1>6 DEF Fails, Closes, Holds, Unclaimed, Waiting, Contract!GiveBack, Contract!Fail, Contract!Leave
<1>7. ASSUME NEW n \in Numbers, Releases(j, n) PROVE Contract!GiveBack(j)
  BY <1>7 DEF Releases, Closes, Holds, Unclaimed, Waiting, Contract!GiveBack, Contract!Leave
<1>8. ASSUME NEW n \in Numbers, Refunds(j, n) PROVE Contract!Same(j)
  BY <1>8 DEF Refunds, Unclaimed
<1> QED BY <1>2, <1>3, <1>4, <1>5, <1>6, <1>7, <1>8 DEF Kind

\* Every behaviour of the queue is one of the contract: a job is held by one
\* claim at a time, ended only by the claim that holds it, its result applied
\* at most once and by that claim, and an ended job stays ended.
THEOREM QueueImplementsContract == Spec => ImplementsContract
<1>1. Init => TypeOK /\ Fenced /\ AppliedIsComplete
  BY InitIInv DEF IInv, Fenced, Init, AppliedIsComplete
<1>2. TypeOK /\ Fenced /\ AppliedIsComplete /\ [Next]_vars => (TypeOK /\ Fenced /\ AppliedIsComplete)'
  BY TypeStep, FencedStep, AppliedStep
<1>3. Init => Contract!Init
  BY DEF Init, Waiting, Contract!Init
<1>4. TypeOK /\ Fenced /\ AppliedIsComplete /\ [Next]_vars => [Contract!Next]_(Contract!vars)
  BY StepKinds, KindImplements DEF Contract!Next
<1> QED BY <1>1, <1>2, <1>3, <1>4, PTL DEF Spec, ImplementsContract, Contract!Spec
-----------------------------------------------------------------------------
(* What attempts cost *)

\* BudgetIsSpent made inductive: a claim remembers in its row no more attempts
\* than others were charged for, which is what a refund or a release puts back.
Budget ==
    \A j \in Jobs :
        /\ job[j].attempts <= Cardinality(Charged(j))
        /\ job[j].cause # "none" => job[j].state = "failed"
        /\ job[j].cause \in {"exhausted", "lease_expired_max_attempts"} =>
              Cardinality(Charged(j)) >= MaxAttempts
        /\ \A n \in Numbers :
              Holds(j, n) => /\ row[j][n].count <= Cardinality(Charged(j) \ {n})
                             /\ lane[j][n] = "refunded" => job[j].attempts < MaxAttempts

LEMMA ChargedFinite ==
    ASSUME NEW j \in Jobs
    PROVE  /\ IsFiniteSet(Charged(j)) /\ Cardinality(Charged(j)) \in Nat
           /\ \A n \in Charged(j) : Cardinality(Charged(j) \ {n}) = Cardinality(Charged(j)) - 1
           /\ \A n : /\ IsFiniteSet(Charged(j) \ {n}) /\ Cardinality(Charged(j) \ {n}) \in Nat
                     /\ Cardinality(Charged(j) \ {n}) <= Cardinality(Charged(j))
           /\ \A n : n \notin Charged(j) =>
                 /\ Cardinality(Charged(j) \cup {n}) = Cardinality(Charged(j)) + 1
                 /\ (Charged(j) \cup {n}) \ {n} = Charged(j)
<1>1. IsFiniteSet(Numbers) /\ Charged(j) \subseteq Numbers
  BY FS_Interval, JobQueueConstants DEF Numbers, Charged
<1>2. IsFiniteSet(Charged(j))
  BY <1>1, FS_Subset
<1>3. \A n : Charged(j) \ {n} \subseteq Charged(j)
  OBVIOUS
<1>4. \A n : IsFiniteSet(Charged(j) \ {n})
  BY <1>2, <1>3, FS_Subset
<1> QED BY <1>2, <1>3, <1>4, FS_Subset, FS_AddElement, FS_RemoveElement, FS_CardinalityType

\* How each kind of step changes the attempts a job was charged for.
LEMMA ChargedChange ==
    ASSUME TypeOK, Fenced, NEW j \in Jobs
    PROVE  /\ Stays(j) \/ Recovers(j) => Charged(j)' = Charged(j)
           /\ Taken(j) => /\ made[j] + 1 \notin Charged(j)
                          /\ Charged(j)' = IF Resumes(j) THEN Charged(j)
                                           ELSE Charged(j) \cup {made[j] + 1}
           /\ \A n \in Numbers :
                 /\ Finishes(j, n) \/ Fails(j, n) => Charged(j)' = Charged(j)
                 /\ Releases(j, n) \/ Refunds(j, n) => Charged(j)' = Charged(j) \ {n}
<1>1. \A n \in Numbers : row[j][n] \in AttemptRow
  BY RowFields
<1>2. \A n \in Numbers :
         /\ StaleRunning(j, n).resume = row[j][n].resume
         /\ StaleRunning(j, n).state \in {"none", "released"} <=>
               row[j][n].state \in {"none", "released"}
  BY <1>1 DEF StaleRunning, AttemptRow
<1>3. Stays(j) => Charged(j)' = Charged(j)
  BY DEF Stays, SameRefunds, Charged
<1>4. Recovers(j) => Charged(j)' = Charged(j)
  BY <1>2 DEF Recovers, SameRefunds, Charged
<1>5. ASSUME Taken(j)
      PROVE  /\ made[j] + 1 \notin Charged(j)
             /\ Charged(j)' = IF Resumes(j) THEN Charged(j)
                              ELSE Charged(j) \cup {made[j] + 1}
  <2>1. made[j] + 1 \in Numbers /\ made[j] + 1 > made[j]
    BY <1>5, RowFields DEF Taken
  <2>2. row[j][made[j] + 1].state = "none"
    BY <2>1, FencedAt
  <2>3. made[j] + 1 \notin Charged(j)
    BY <2>2 DEF Charged
  <2>4. PICK w \in Workers : \A n \in Numbers :
           row'[j][n] = IF n = made[j] + 1 THEN NewRow(w, j) ELSE StaleRunning(j, n)
    BY <1>5 DEF Taken
  <2>5. NewRow(w, j).state = "running" /\ NewRow(w, j).resume = Resumes(j)
    BY DEF NewRow
  <2>6. \A n \in Numbers : lane'[j][n] = IF n = made[j] + 1 THEN "batched" ELSE lane[j][n]
    BY <1>5 DEF Taken
  <2>7. ASSUME NEW n \in Numbers
        PROVE  n \in Charged(j)' <=> IF n = made[j] + 1 THEN ~Resumes(j) ELSE n \in Charged(j)
    <3>1. CASE n = made[j] + 1
      BY <2>4, <2>5, <2>6, <3>1 DEF Charged
    <3>2. CASE n # made[j] + 1
      BY <1>2, <2>4, <2>6, <3>2 DEF Charged
    <3> QED BY <3>1, <3>2
  <2>8. Charged(j) \subseteq Numbers /\ Charged(j)' \subseteq Numbers
    BY DEF Charged
  <2> QED BY <2>1, <2>3, <2>7, <2>8
<1>6. ASSUME NEW n \in Numbers, NEW s \in RowStates \ {"none"}, Closes(j, n, s)
      PROVE  Charged(j)' = IF s = "released" THEN Charged(j) \ {n} ELSE Charged(j)
  <2>1. row[j][n].state = "running"
    BY <1>6, FencedAt DEF Closes
  <2>2. row'[j][n].state = s /\ row'[j][n].resume = row[j][n].resume
    BY <1>1, <1>6 DEF Closes, AttemptRow
  <2>3. \A m \in Numbers \ {n} : row'[j][m] = row[j][m]
    BY <1>6 DEF Closes
  <2>4. SameRefunds(j)
    BY <1>6 DEF Closes
  <2> QED BY <2>1, <2>2, <2>3, <2>4 DEF Charged, SameRefunds
<1>7. ASSUME NEW n \in Numbers, Refunds(j, n) PROVE Charged(j)' = Charged(j) \ {n}
  BY <1>7 DEF Refunds, Charged
<1> QED
  BY <1>3, <1>4, <1>5, <1>6, <1>7, StateNames DEF Finishes, Fails, Releases

LEMMA RefundedBound ==
    ASSUME TypeOK, NEW j \in Jobs, NEW n \in Numbers
    PROVE  Refunded(j, n) <= row[j][n].count /\ Refunded(j, n) < MaxAttempts
<1>1. job[j].attempts \in Nat /\ row[j][n].count \in Nat /\ MaxAttempts \in Nat
  BY RowFields, JobQueueConstants
<1> QED BY <1>1 DEF Refunded

LEMMA BudgetStep ==
    ASSUME TypeOK, Fenced, Budget, [Next]_vars PROVE Budget'
<1> SUFFICES ASSUME NEW j \in Jobs
             PROVE  /\ job'[j].attempts <= Cardinality(Charged(j)')
                    /\ job'[j].cause # "none" => job'[j].state = "failed"
                    /\ job'[j].cause \in {"exhausted", "lease_expired_max_attempts"} =>
                          Cardinality(Charged(j)') >= MaxAttempts
                    /\ \A n \in Numbers :
                          Holds(j, n)' =>
                             /\ row'[j][n].count <= Cardinality(Charged(j)' \ {n})
                             /\ lane'[j][n] = "refunded" => job'[j].attempts < MaxAttempts
  BY DEF Budget
<1> DEFINE C == Charged(j)
<1>1. /\ job[j].attempts <= Cardinality(C) /\ job[j].attempts \in Nat
      /\ job[j].cause # "none" => job[j].state = "failed"
      /\ job[j].cause \in {"exhausted", "lease_expired_max_attempts"} =>
            Cardinality(C) >= MaxAttempts
      /\ MaxAttempts \in Nat
  BY RowFields, JobQueueConstants DEF Budget
<1>2. \A n \in Numbers :
         /\ row[j][n].count \in Nat
         /\ Holds(j, n) => /\ row[j][n].count <= Cardinality(C \ {n})
                           /\ lane[j][n] = "refunded" => job[j].attempts < MaxAttempts
  BY RowFields DEF Budget
<1>3. /\ Cardinality(C) \in Nat
      /\ \A n \in C : Cardinality(C \ {n}) = Cardinality(C) - 1
      /\ \A n : Cardinality(C \ {n}) \in Nat /\ Cardinality(C \ {n}) <= Cardinality(C)
      /\ \A n : n \notin C => /\ Cardinality(C \cup {n}) = Cardinality(C) + 1
                              /\ (C \cup {n}) \ {n} = C
  BY ChargedFinite
<1>4. job[j] \in JobRow /\ \A n \in Numbers : row[j][n] \in AttemptRow
  BY RowFields
<1> HIDE DEF C
<1>5. CASE Stays(j)
  <2>1. Charged(j)' = C
    BY <1>5, ChargedChange DEF C
  <2> QED BY <1>1, <1>2, <1>5, <2>1 DEF Stays, SameRefunds, Holds
<1>6. CASE Taken(j)
  <2>1. made[j] + 1 \notin C /\ Charged(j)' = IF Resumes(j) THEN C ELSE C \cup {made[j] + 1}
    BY <1>6, ChargedChange DEF C
  <2>2. /\ job'[j].cause = job[j].cause /\ job'[j].token = made[j] + 1
        /\ job'[j].attempts = IF Resumes(j) THEN job[j].attempts ELSE job[j].attempts + 1
    BY <1>4, <1>6 DEF Taken, LeasedJob, JobRow
  <2>3. job[j].cause = "none"
    BY <1>1, <1>6 DEF Taken, Waiting, Expired
  <2>4. PICK w \in Workers : \A n \in Numbers :
           row'[j][n] = IF n = made[j] + 1 THEN NewRow(w, j) ELSE StaleRunning(j, n)
    BY <1>6 DEF Taken
  <2>5. made[j] + 1 \in Numbers /\ NewRow(w, j).count = job[j].attempts
    BY <1>6 DEF Taken, NewRow
  <2>6. row'[j][made[j] + 1].count = job[j].attempts /\ lane'[j][made[j] + 1] = "batched"
    BY <1>6, <2>4, <2>5 DEF Taken
  <2>7. C \ {made[j] + 1} = C
    BY <2>1
  <2>8. Cardinality(C) \in Nat /\ Cardinality(C \cup {made[j] + 1}) = Cardinality(C) + 1
        /\ (C \cup {made[j] + 1}) \ {made[j] + 1} = C
    BY <1>3, <2>1
  <2>9. /\ job'[j].attempts <= Cardinality(Charged(j)')
        /\ job[j].attempts <= Cardinality(Charged(j)' \ {made[j] + 1})
    <3>1. CASE Resumes(j)
      <4>1. Charged(j)' = C /\ Charged(j)' \ {made[j] + 1} = C
        BY <2>1, <2>7, <3>1
      <4>2. job'[j].attempts = job[j].attempts
        BY <2>2, <3>1
      <4> QED BY <1>1, <4>1, <4>2
    <3>2. CASE ~Resumes(j)
      <4>1. Charged(j)' = C \cup {made[j] + 1} /\ Charged(j)' \ {made[j] + 1} = C
        BY <2>1, <2>8, <3>2
      <4>2. job'[j].attempts = job[j].attempts + 1
        BY <2>2, <3>2
      <4>3. /\ Cardinality(Charged(j)') = Cardinality(C) + 1
            /\ Cardinality(Charged(j)' \ {made[j] + 1}) = Cardinality(C)
        <5> HIDE DEF C
        <5> QED BY <2>8, <4>1, Zenon
      <4> QED BY <1>1, <2>8, <4>2, <4>3
    <3> QED BY <3>1, <3>2
  <2> QED BY <2>2, <2>3, <2>6, <2>9 DEF Holds
<1>7. CASE Recovers(j)
  <2>1. Charged(j)' = C
    BY <1>7, ChargedChange DEF C
  <2>2. job[j].cause = "none"
    BY <1>1, <1>7 DEF Recovers, Expired
  <2> QED BY <1>1, <1>3, <1>7, <2>1, <2>2 DEF Recovers, Holds
<1>8. ASSUME NEW n \in Numbers, Finishes(j, n) \/ Fails(j, n) \/ Releases(j, n)
      PROVE  Holds(j, n) /\ ~Holds(j, n)' /\ (\A m \in Numbers : ~Holds(j, m)') /\ job[j].cause = "none"
  <2>1. Holds(j, n) /\ job'[j].state # "leased"
    BY <1>8 DEF Finishes, Fails, Releases, Closes
  <2> QED BY <1>1, <2>1 DEF Holds
<1>9. ASSUME NEW n \in Numbers, Finishes(j, n)
      PROVE  /\ job'[j].attempts <= Cardinality(Charged(j)') /\ job'[j].cause = "none"
  BY <1>1, <1>8, <1>9, ChargedChange DEF Finishes, C
<1>10. ASSUME NEW n \in Numbers, Fails(j, n)
       PROVE  /\ job'[j].attempts <= Cardinality(Charged(j)')
              /\ job'[j].cause # "none" => job'[j].state = "failed"
              /\ job'[j].cause \in {"exhausted", "lease_expired_max_attempts"} =>
                    Cardinality(Charged(j)') >= MaxAttempts
  <2>1. Charged(j)' = C /\ job[j].cause = "none"
    BY <1>8, <1>10, ChargedChange DEF C
  <2>2. lane[j][n] # "refunded" /\ row[j][n].state = "running" /\ Holds(j, n)
    BY <1>10, FencedAt DEF Fails, Closes
  <2>3. ~row[j][n].resume => n \in C
    BY <2>2 DEF C, Charged
  <2>4. EffectiveAttempt(j, n) <= Cardinality(C) /\ EffectiveAttempt(j, n) \in Nat
    <3>1. /\ row[j][n].count \in Nat /\ row[j][n].count <= Cardinality(C \ {n})
          /\ Cardinality(C) \in Nat /\ Cardinality(C \ {n}) \in Nat
          /\ Cardinality(C \ {n}) <= Cardinality(C)
      BY <1>2, <1>3, <2>2
    <3>2. n \in C => Cardinality(C \ {n}) = Cardinality(C) - 1
      BY <1>3
    <3> QED BY <2>3, <3>1, <3>2 DEF EffectiveAttempt
  <2> QED BY <1>1, <1>3, <1>10, <2>1, <2>4 DEF Fails
<1>11. ASSUME NEW n \in Numbers, Releases(j, n)
       PROVE  job'[j].attempts <= Cardinality(Charged(j)') /\ job'[j].cause = "none"
  BY <1>2, <1>8, <1>11, ChargedChange DEF Releases, C
<1>12. ASSUME NEW n \in Numbers, Refunds(j, n)
       PROVE  /\ job'[j].attempts <= Cardinality(Charged(j)') /\ job'[j].cause = "none"
              /\ \A m \in Numbers :
                    Holds(j, m)' => /\ row'[j][m].count <= Cardinality(Charged(j)' \ {m})
                                    /\ job'[j].attempts < MaxAttempts
  <2>1. Charged(j)' = C \ {n} /\ Holds(j, n)
    BY <1>12, ChargedChange DEF C, Refunds
  <2>2. /\ job'[j].attempts = Refunded(j, n) /\ job'[j].cause = job[j].cause
        /\ \A m \in Numbers : row'[j][m] = row[j][m] /\ (Holds(j, m)' <=> m = n)
    BY <1>12, <2>1 DEF Refunds, Holds
  <2>3. /\ Refunded(j, n) <= row[j][n].count /\ Refunded(j, n) < MaxAttempts
        /\ Refunded(j, n) \in Nat
    BY RefundedBound, StatementTypes
  <2>4. (C \ {n}) \ {n} = C \ {n}
    OBVIOUS
  <2>5. job[j].cause = "none"
    BY <1>1, <2>1 DEF Holds
  <2>6. /\ Cardinality(C \ {n}) \in Nat /\ row[j][n].count \in Nat
        /\ row[j][n].count <= Cardinality(C \ {n})
    BY <1>2, <1>3, <2>1
  <2>7. job'[j].attempts <= Cardinality(C \ {n})
    BY <2>2, <2>3, <2>6
  <2> QED BY <2>1, <2>2, <2>3, <2>4, <2>5, <2>6, <2>7
<1>13. Kind(j)
  BY StepKinds
<1> QED BY <1>5, <1>6, <1>7, <1>8, <1>9, <1>10, <1>11, <1>12, <1>13 DEF Kind

-----------------------------------------------------------------------------
(* What lanes report *)

\* A lane still at work has an open attempt or one taken from it, one that
\* refunds may have deferred it already, one that lost its session may have
\* closed its attempt itself, and a lane that reported is done with its claim.
OpenRows(l) == {"running", "stale"} \cup (IF l = "refunding" THEN {"waiting_dependency"} ELSE {})

Working == {"batched", "started", "running", "applying", "deferring", "refunding"}

LaneRows ==
    \A j \in Jobs, n \in Numbers :
        /\ lane[j][n] \in Working => row[j][n].state \in OpenRows(lane[j][n])
        /\ lane[j][n] = "unknown" => row[j][n].state \notin {"none", "released"}
        /\ report[j][n] # "none" => lane[j][n] \in {"over", "refunded"}

\* A report of claim n that agrees with its row: ReportsAgree of one claim.
Fits(j, n, r) ==
    LET s == row[j][n].state
    IN CASE r = "processed" -> s = "complete" /\ n \in appliedBy[j]
         [] r = "superseded" -> s = "complete" /\ n \notin appliedBy[j]
         [] r = "failed" -> s = "failed"
         [] r = "lease_lost" ->
                s \in {"running", "stale", "waiting_dependency"} /\ ~HoldsLive(j, n)
         [] OTHER -> TRUE

Agrees(j, n) == Fits(j, n, report[j][n])

\* What a step may do to claim n of job j: nothing but age it, open it, move
\* its lane on, or let its lane report what the rows then say.
Ages(j, n) ==
    /\ lane'[j][n] = lane[j][n] /\ report'[j][n] = report[j][n]
    /\ row'[j][n] \in {row[j][n], StaleRunning(j, n)}
    /\ n \in appliedBy'[j] <=> n \in appliedBy[j]
    /\ HoldsLive(j, n)' => HoldsLive(j, n)

Opens(j, n) ==
    /\ lane[j][n] = "none" /\ lane'[j][n] = "batched"
    /\ report'[j][n] = report[j][n]
    /\ row'[j][n].state = "running"

MovesOn(j, n) ==
    /\ lane[j][n] \in Working \cup {"unknown"}
    /\ lane'[j][n] \in Working \cup {"unknown", "over"}
    /\ report'[j][n] = report[j][n]
    /\ lane'[j][n] \in Working => row'[j][n].state \in OpenRows(lane'[j][n])
    /\ lane'[j][n] = "unknown" => row'[j][n].state \notin {"none", "released"}

ReportsIt(j, n) ==
    /\ lane'[j][n] \in {"over", "refunded"}
    /\ Agrees(j, n)'

ClaimKind(j, n) == Ages(j, n) \/ Opens(j, n) \/ MovesOn(j, n) \/ ReportsIt(j, n)

\* The invariant of one claim follows from its kind.
LEMMA ClaimKindKeeps ==
    ASSUME TypeOK, LaneRows, ReportsAgree, NEW j \in Jobs, NEW n \in Numbers, ClaimKind(j, n)
    PROVE  /\ Agrees(j, n)'
           /\ lane'[j][n] \in Working => row'[j][n].state \in OpenRows(lane'[j][n])
           /\ lane'[j][n] = "unknown" => row'[j][n].state \notin {"none", "released"}
           /\ report'[j][n] # "none" => lane'[j][n] \in {"over", "refunded"}
<1>1. /\ Agrees(j, n) /\ row[j][n] \in AttemptRow
      /\ lane[j][n] \in Working => row[j][n].state \in OpenRows(lane[j][n])
      /\ lane[j][n] = "unknown" => row[j][n].state \notin {"none", "released"}
      /\ report[j][n] # "none" => lane[j][n] \in {"over", "refunded"}
  BY RowFields DEF LaneRows, ReportsAgree, Agrees, Fits
<1>2. CASE Ages(j, n)
  <2>1. \/ row'[j][n].state = row[j][n].state
        \/ row[j][n].state = "running" /\ row'[j][n].state = "stale"
    BY <1>1, <1>2 DEF Ages, StaleRunning, AttemptRow
  <2>2. Agrees(j, n)'
    BY <1>1, <1>2, <2>1 DEF Ages, Agrees, Fits
  <2> QED BY <1>1, <1>2, <2>1, <2>2 DEF Ages, OpenRows
<1>3. CASE Opens(j, n)
  BY <1>1, <1>3 DEF Opens, Agrees, Fits, Working, OpenRows
<1>4. CASE MovesOn(j, n)
  <2>1. report'[j][n] = "none"
    BY <1>1, <1>4 DEF MovesOn, Working
  <2> QED BY <1>4, <2>1 DEF MovesOn, Agrees, Fits, Working
<1>5. CASE ReportsIt(j, n)
  BY <1>5 DEF ReportsIt, Working
<1> QED BY <1>2, <1>3, <1>4, <1>5 DEF ClaimKind

\* Steps that write no job and no row age every claim whose lane stands still.
LEMMA StillClaim ==
    ASSUME NEW j \in Jobs, NEW n \in Numbers, UNCHANGED <<job, row, appliedBy>>,
           lane'[j][n] = lane[j][n], report'[j][n] = report[j][n]
    PROVE  ClaimKind(j, n)
  BY DEF ClaimKind, Ages, HoldsLive, Holds

\* A step that writes no job and no row and moves one lane on.
LEMMA LaneWorks ==
    ASSUME TypeOK, NEW j \in Jobs, NEW n \in Numbers, NEW l \in Working \cup {"unknown", "over"},
           UNCHANGED <<job, row, appliedBy, report>>, lane' = [lane EXCEPT ![j][n] = l],
           lane[j][n] \in Working \cup {"unknown"},
           l \in Working => row[j][n].state \in OpenRows(l),
           l = "unknown" => row[j][n].state \notin {"none", "released"}
    PROVE  \A k \in Jobs, m \in Numbers : ClaimKind(k, m)
<1>1. lane'[j][n] = l
  BY DEF TypeOK, PerClaim
<1>2. \A k \in Jobs, m \in Numbers : k # j \/ m # n => lane'[k][m] = lane[k][m]
  BY DEF TypeOK, PerClaim
<1>3. ClaimKind(j, n)
  BY <1>1 DEF ClaimKind, MovesOn
<1> QED BY <1>2, <1>3, StillClaim

\* A step that writes no job and no row and lets one lane report.
LEMMA LaneReports ==
    ASSUME TypeOK, NEW j \in Jobs, NEW n \in Numbers, NEW r \in Reports,
           UNCHANGED <<job, row, appliedBy>>, Return(j, n, r), Fits(j, n, r)
    PROVE  \A k \in Jobs, m \in Numbers : ClaimKind(k, m)
<1>1. lane'[j][n] = "over" /\ report'[j][n] = r
  BY DEF TypeOK, PerClaim, Return
<1>2. \A k \in Jobs, m \in Numbers :
         k # j \/ m # n => lane'[k][m] = lane[k][m] /\ report'[k][m] = report[k][m]
  BY DEF TypeOK, PerClaim, Return
<1>3. Fits(j, n, r)'
  BY DEF Fits, HoldsLive, Holds
<1>4. ClaimKind(j, n)
  BY <1>1, <1>3 DEF ClaimKind, ReportsIt, Agrees
<1> QED BY <1>2, <1>4, StillClaim

\* A claim of another job than the one a step writes.
LEMMA OtherClaims ==
    ASSUME NEW k \in Jobs, NEW m \in Numbers, job'[k] = job[k],
           row'[k][m] = row[k][m], appliedBy'[k] = appliedBy[k],
           lane'[k][m] = lane[k][m], report'[k][m] = report[k][m]
    PROVE  ClaimKind(k, m)
  BY DEF ClaimKind, Ages, HoldsLive, Holds

\* The claims of a job another claim of which ends: none of them holds it.
LEMMA UnheldClaims ==
    ASSUME NEW k \in Jobs, NEW m \in Numbers, job'[k].state # "leased",
           row'[k][m] = row[k][m], m \in appliedBy'[k] <=> m \in appliedBy[k],
           lane'[k][m] = lane[k][m], report'[k][m] = report[k][m]
    PROVE  ClaimKind(k, m)
  BY DEF ClaimKind, Ages, HoldsLive, Holds

LEMMA ClaimKindOfClaim ==
    ASSUME TypeOK, Fenced, NEW w \in Workers, NEW S \in SUBSET Jobs, ClaimJobs(w, S),
           NEW j \in Jobs, NEW n \in Numbers
    PROVE  ClaimKind(j, n)
<1>1. report' = report /\ appliedBy' = appliedBy
  BY DEF ClaimJobs
<1>2. CASE j \notin S
  BY <1>1, <1>2, OtherClaims DEF ClaimJobs
<1>3. CASE j \in S /\ n = made[j] + 1
  <2>1. lane[j][n] = "none"
    BY <1>3, RowFields, FencedAt
  <2>2. lane'[j][n] = "batched" /\ row'[j][n] = NewRow(w, j)
    BY <1>3 DEF ClaimJobs
  <2> QED BY <1>1, <2>1, <2>2, Effects DEF ClaimKind, Opens
<1>4. CASE j \in S /\ n # made[j] + 1
  <2>1. lane'[j][n] = lane[j][n] /\ row'[j][n] = StaleRunning(j, n)
    BY <1>4 DEF ClaimJobs
  <2>2. ~HoldsLive(j, n)'
    BY <1>4, Effects DEF ClaimJobs, HoldsLive, Holds
  <2> QED BY <1>1, <2>1, <2>2 DEF ClaimKind, Ages
<1> QED BY <1>2, <1>3, <1>4

\* What a statement of claim n's own lane does to the claims of its job and
\* of the others: it closes its row and lets the job go.
LEMMA ClaimKindOfEnd ==
    ASSUME TypeOK, NEW j \in Jobs, NEW n \in Numbers, NEW s, NEW l \in {"over", "unknown", "refunding"},
           lane[j][n] \in Working, row' = [row EXCEPT ![j][n].state = s],
           lane' = [lane EXCEPT ![j][n] = l],
           job'[j].state # "leased", \A k \in Jobs : k # j => job'[k] = job[k],
           \A k \in Jobs : k # j => appliedBy'[k] = appliedBy[k],
           \A m \in Numbers : m # n => (m \in appliedBy'[j] <=> m \in appliedBy[j]),
           \/ /\ report' = report /\ s \notin {"none", "released"}
              /\ l = "refunding" => s = "waiting_dependency"
           \/ \E r \in Reports : /\ report' = [report EXCEPT ![j][n] = r]
                                 /\ l = "over" /\ Fits(j, n, r)'
    PROVE  \A k \in Jobs, m \in Numbers : ClaimKind(k, m)
<1>1. lane'[j][n] = l /\ row'[j][n].state = s
  BY DEF TypeOK, PerClaim, AttemptRow
<1>2. \A k \in Jobs, m \in Numbers :
         k # j \/ m # n => lane'[k][m] = lane[k][m] /\ row'[k][m] = row[k][m]
  BY DEF TypeOK, PerClaim
<1>3. \A k \in Jobs, m \in Numbers : k # j \/ m # n => report'[k][m] = report[k][m]
  BY DEF TypeOK, PerClaim
<1>4. ClaimKind(j, n)
  <2>1. CASE /\ report' = report /\ s \notin {"none", "released"}
             /\ l = "refunding" => s = "waiting_dependency"
    BY <1>1, <2>1 DEF ClaimKind, MovesOn, Working, OpenRows
  <2>2. ASSUME NEW r \in Reports, report' = [report EXCEPT ![j][n] = r], l = "over",
               Fits(j, n, r)'
        PROVE  ClaimKind(j, n)
    <3>1. report'[j][n] = r
      BY <2>2 DEF TypeOK, PerClaim
    <3> QED BY <1>1, <2>2, <3>1 DEF ClaimKind, ReportsIt, Agrees
  <2> QED BY <2>1, <2>2
<1>5. ASSUME NEW m \in Numbers, m # n PROVE ClaimKind(j, m)
  BY <1>2, <1>3, <1>5, UnheldClaims
<1> QED BY <1>2, <1>3, <1>4, <1>5, OtherClaims
LEMMA ClaimKindOfFinish ==
    ASSUME TypeOK, Fenced, AppliedIsComplete, NEW j \in Jobs, NEW n \in Numbers,
           NEW result \in {"processed", "superseded"}, FinishClaim(j, n, result)
    PROVE  \A k \in Jobs, m \in Numbers : ClaimKind(k, m)
<1>1. lane[j][n] \in Working /\ row' = [row EXCEPT ![j][n].state = "complete"]
  BY DEF FinishClaim, Working
<1>2. job'[j].state # "leased" /\ \A k \in Jobs : k # j => job'[k] = job[k]
  BY Effects DEF FinishClaim, TypeOK
<1>3. /\ \A k \in Jobs : k # j => appliedBy'[k] = appliedBy[k]
      /\ \A m \in Numbers : m # n => (m \in appliedBy'[j] <=> m \in appliedBy[j])
  BY DEF FinishClaim, TypeOK
<1>4. CASE lane' = [lane EXCEPT ![j][n] = "unknown"] /\ report' = report
  <2> DEFINE s == "complete"
  <2>1. row' = [row EXCEPT ![j][n].state = s] /\ s \notin {"none", "released"}
    BY <1>1
  <2> HIDE DEF s
  <2> QED BY <1>1, <1>2, <1>3, <1>4, <2>1, ClaimKindOfEnd
<1>5. CASE Return(j, n, result)
  <2>1. row'[j][n].state = "complete"
    BY <1>1 DEF TypeOK, PerClaim, AttemptRow
  <2>2. result = "processed" => n \in appliedBy'[j]
    BY DEF FinishClaim, TypeOK
  <2>3. result = "superseded" => n \notin appliedBy'[j]
    BY DEF FinishClaim, Holds, AppliedIsComplete
  <2>4. Fits(j, n, result)'
    BY <2>1, <2>2, <2>3 DEF Fits
  <2> QED BY <1>1, <1>2, <1>3, <1>5, <2>4, StateNames, ClaimKindOfEnd DEF Return
<1> QED BY <1>4, <1>5 DEF FinishClaim, LearnCommit

LEMMA ClaimKindOfFail ==
    ASSUME TypeOK, Fenced, NEW j \in Jobs, NEW n \in Numbers,
           NEW kind \in {"dependency", "retryable", "durable"}, FailClaim(j, n, kind)
    PROVE  \A k \in Jobs, m \in Numbers : ClaimKind(k, m)
<1> DEFINE s == FailState(j, n, kind)
           r == IF s = "failed" THEN "failed" ELSE "retrying"
<1>1. s \in {"waiting_dependency", "waiting_retry", "failed"}
  BY DEF FailState
<1>2. lane[j][n] \in Working /\ row' = [row EXCEPT ![j][n].state = s]
  BY DEF FailClaim, Working
<1>3. job'[j].state # "leased" /\ \A k \in Jobs : k # j => job'[k] = job[k]
  BY <1>1, Effects DEF FailClaim, TypeOK
<1>4. appliedBy' = appliedBy
  BY DEF FailClaim
<1>5. LearnCommit(j, n, r)
  BY DEF FailClaim
<1> HIDE DEF s
<1>6. CASE lane' = [lane EXCEPT ![j][n] = "unknown"] /\ report' = report
  BY <1>1, <1>2, <1>3, <1>4, <1>6, ClaimKindOfEnd
<1>7. CASE Return(j, n, r)
  <2>1. row'[j][n].state = s
    BY <1>2 DEF TypeOK, PerClaim, AttemptRow
  <2>2. CASE s = "failed"
    <3>1. r = "failed" /\ "failed" \in Reports
      BY <2>2, StateNames
    <3>2. Fits(j, n, "failed")'
      BY <2>1, <2>2 DEF Fits
    <3> QED BY <1>1, <1>2, <1>3, <1>4, <1>7, <3>1, <3>2, ClaimKindOfEnd DEF Return
  <2>3. CASE s # "failed"
    <3>1. r = "retrying" /\ "retrying" \in Reports
      BY <2>3, StateNames
    <3>2. Fits(j, n, "retrying")'
      BY DEF Fits
    <3> QED BY <1>1, <1>2, <1>3, <1>4, <1>7, <3>1, <3>2, ClaimKindOfEnd DEF Return
  <2> QED BY <2>2, <2>3
<1> QED BY <1>5, <1>6, <1>7 DEF LearnCommit

LEMMA ClaimKindOfDefer ==
    ASSUME TypeOK, Fenced, LaneRows, NEW j \in Jobs, NEW n \in Numbers, Defer(j, n)
    PROVE  \A k \in Jobs, m \in Numbers : ClaimKind(k, m)
<1>1. lane[j][n] \in Working /\ row[j][n].state \in {"running", "stale"} /\ appliedBy' = appliedBy
  BY DEF Defer, Working, LaneRows, OpenRows
<1>2. CASE /\ Holds(j, n) /\ job' = [job EXCEPT ![j] = Unleased(@, "waiting_dependency")]
           /\ row' = [row EXCEPT ![j][n].state = "waiting_dependency"]
  <2>1. job'[j].state # "leased" /\ \A k \in Jobs : k # j => job'[k] = job[k]
    BY <1>2, Effects DEF TypeOK
  <2>2. CASE Return(j, n, "retrying")
    <3>1. Fits(j, n, "retrying")' /\ "retrying" \in Reports
      BY StateNames DEF Fits
    <3> QED BY <1>1, <1>2, <2>1, <2>2, <3>1, ClaimKindOfEnd DEF Return
  <2>3. CASE lane' = [lane EXCEPT ![j][n] = "refunding"] /\ report' = report
    BY <1>1, <1>2, <2>1, <2>3, ClaimKindOfEnd
  <2>4. job' # job
    BY <1>2, <2>1 DEF Holds
  <2>5. \/ Return(j, n, "retrying")
        \/ lane' = [lane EXCEPT ![j][n] = "refunding"] /\ report' = report
    BY <1>2, <2>4 DEF Defer
  <2> QED BY <2>2, <2>3, <2>5
<1>3. CASE ~Holds(j, n) /\ Return(j, n, "lease_lost") /\ UNCHANGED <<job, row>>
  <2>1. Fits(j, n, "lease_lost") /\ "lease_lost" \in Reports
    BY <1>1, <1>3, StateNames DEF Fits, HoldsLive
  <2> QED BY <1>1, <1>3, <2>1, LaneReports
<1>4. CASE lane' = [lane EXCEPT ![j][n] = "refunding"] /\ UNCHANGED <<job, row, report>>
  BY <1>1, <1>4, LaneWorks DEF Working, OpenRows
<1> QED BY <1>2, <1>3, <1>4 DEF Defer

LEMMA ClaimKindOfRefund ==
    ASSUME TypeOK, Fenced, LaneRows, NEW j \in Jobs, NEW n \in Numbers, Refund(j, n)
    PROVE  \A k \in Jobs, m \in Numbers : ClaimKind(k, m)
<1>1. /\ row[j][n].state \in {"running", "stale", "waiting_dependency"}
      /\ appliedBy' = appliedBy /\ row' = row
  BY DEF Refund, Working, LaneRows, OpenRows
<1>2. CASE Holds(j, n)
  <2>1. /\ lane' = [lane EXCEPT ![j][n] = "refunded"]
        /\ report' = [report EXCEPT ![j][n] = "retrying"]
        /\ job' = [job EXCEPT ![j].attempts = Refunded(j, n)]
    BY <1>2 DEF Refund
  <2>2. lane'[j][n] = "refunded" /\ report'[j][n] = "retrying"
    BY <2>1 DEF TypeOK, PerClaim
  <2>3. \A k \in Jobs, m \in Numbers :
           k # j \/ m # n => lane'[k][m] = lane[k][m] /\ report'[k][m] = report[k][m]
    BY <2>1 DEF TypeOK, PerClaim
  <2>4. \A k \in Jobs, m \in Numbers : HoldsLive(k, m)' <=> HoldsLive(k, m)
    BY <2>1, RowFields DEF TypeOK, HoldsLive, Holds, JobRow
  <2>5. ClaimKind(j, n)
    BY <2>2 DEF ClaimKind, ReportsIt, Agrees, Fits
  <2>6. \A k \in Jobs, m \in Numbers : k # j \/ m # n => Ages(k, m)
    BY <1>1, <2>3, <2>4 DEF Ages
  <2> QED BY <2>5, <2>6 DEF ClaimKind
<1>3. CASE ~Holds(j, n)
  <2>1. Fits(j, n, "lease_lost") /\ "lease_lost" \in Reports
    BY <1>1, <1>3, StateNames DEF Fits, HoldsLive
  <2>2. Return(j, n, "lease_lost") /\ job' = job
    BY <1>3 DEF Refund
  <2> QED BY <1>1, <2>1, <2>2, LaneReports
<1> QED BY <1>2, <1>3

LEMMA ClaimKindOfRelease ==
    ASSUME TypeOK, Fenced, NEW w \in Workers, ReleaseBatch(w), NEW j \in Jobs, NEW n \in Numbers
    PROVE  ClaimKind(j, n)
<1> DEFINE batch == MineIn(w, {"batched"})
           released == {c \in batch : Holds(c[1], c[2])}
<1>1. /\ job'[j] = IF <<j, job[j].token>> \in released THEN ReleasedJob(j) ELSE job[j]
      /\ row'[j][n] = IF <<j, n>> \in released THEN ReleasedRow(j, n) ELSE row[j][n]
      /\ lane'[j][n] = IF <<j, n>> \in batch THEN "over" ELSE lane[j][n]
      /\ appliedBy' = appliedBy /\ report' = report
  BY DEF ReleaseBatch
<1>2. /\ <<j, n>> \in batch => lane[j][n] = "batched"
      /\ <<j, n>> \in released => <<j, n>> \in batch
  BY DEF MineIn, Claims
<1> HIDE DEF batch, released
<1>3. CASE <<j, n>> \in batch
  BY <1>1, <1>2, <1>3 DEF ClaimKind, MovesOn, Working
<1>4. CASE <<j, n>> \notin batch
  <2>1. HoldsLive(j, n)' => HoldsLive(j, n)
    BY <1>1, Effects DEF HoldsLive, Holds
  <2> QED BY <1>1, <1>2, <1>4, <2>1 DEF ClaimKind, Ages
<1> QED BY <1>3, <1>4

LEMMA ClaimKindOfMaintain ==
    ASSUME TypeOK, Fenced, NEW w \in Workers, MaintainQueue(w), NEW j \in Jobs, NEW n \in Numbers
    PROVE  ClaimKind(j, n)
<1>1. /\ lane' = lane /\ appliedBy' = appliedBy /\ report' = report
      /\ row'[j][n] \in {row[j][n], StaleRunning(j, n)}
      /\ job'[j] = IF Expired(j) /\ locked[j] = 0 THEN RecoveredJob(w, j) ELSE job[j]
  BY DEF MaintainQueue
<1>2. HoldsLive(j, n)' => HoldsLive(j, n)
  BY <1>1, Effects DEF HoldsLive, Holds
<1> QED BY <1>1, <1>2 DEF ClaimKind, Ages

LEMMA StepClaimKinds ==
    ASSUME TypeOK, Fenced, LaneRows, AppliedIsComplete, [Next]_vars
    PROVE  \A j \in Jobs, n \in Numbers : ClaimKind(j, n)
<1>1. ASSUME NEW j \in Jobs, NEW n \in Numbers,
             lane[j][n] \in Working \ {"refunding"}, UNCHANGED <<job, row, appliedBy>>,
             Return(j, n, "lease_lost"), ~HoldsLive(j, n)
      PROVE  \A k \in Jobs, m \in Numbers : ClaimKind(k, m)
  <2>1. row[j][n].state \in {"running", "stale"}
    BY <1>1 DEF LaneRows, OpenRows
  <2>2. Fits(j, n, "lease_lost") /\ "lease_lost" \in Reports
    BY <1>1, <2>1, StateNames DEF Fits
  <2> QED BY <1>1, <2>2, LaneReports
<1>2. ASSUME NEW j \in Jobs, NEW n \in Numbers, NEW l \in Working \cup {"unknown", "over"},
             lane[j][n] \in Working \ {"refunding"}, UNCHANGED <<job, row, appliedBy, report>>,
             lane' = [lane EXCEPT ![j][n] = l]
      PROVE  \A k \in Jobs, m \in Numbers : ClaimKind(k, m)
  <2>1. row[j][n].state \in {"running", "stale"} /\ row[j][n].state \in OpenRows(l)
    BY <1>2 DEF LaneRows, OpenRows
  <2>2. lane[j][n] \in Working \cup {"unknown"}
    BY <1>2
  <2> QED BY <1>2, <2>1, <2>2, LaneWorks
<1>3. ASSUME NEW j \in Jobs, NEW n \in Numbers,
             StartClaim(j, n) \/ Renew(j, n) \/ BeginApply(j, n) \/ FailClaimLost(j, n)
      PROVE  \A k \in Jobs, m \in Numbers : ClaimKind(k, m)
  <2>1. lane[j][n] \in Working \ {"refunding"} /\ UNCHANGED <<job, row, appliedBy>>
    BY <1>3 DEF StartClaim, Renew, BeginApply, FailClaimLost, Working
  <2>2. \/ Return(j, n, "lease_lost") /\ ~HoldsLive(j, n)
        \/ \E l \in {"started", "running", "applying", "over"} :
              lane' = [lane EXCEPT ![j][n] = l] /\ report' = report
    BY <1>3 DEF StartClaim, Renew, BeginApply, FailClaimLost
  <2> QED BY <1>1, <1>2, <2>1, <2>2 DEF Working
<1>4. ASSUME NEW j \in Jobs, NEW n \in Numbers,
             Rerun(j, n) \/ \E next \in {"deferring", "refunding", "unknown"} : Conflict(j, n, next)
      PROVE  \A k \in Jobs, m \in Numbers : ClaimKind(k, m)
  <2>1. /\ lane[j][n] \in Working \ {"refunding"} /\ UNCHANGED <<job, row, appliedBy, report>>
        /\ \E l \in Working \cup {"unknown"} : lane' = [lane EXCEPT ![j][n] = l]
    BY <1>4 DEF Rerun, Conflict, Working
  <2> QED BY <1>2, <2>1
<1>5. ASSUME NEW j \in Jobs, NEW n \in Numbers, ReadSaved(j, n)
      PROVE  \A k \in Jobs, m \in Numbers : ClaimKind(k, m)
  <2>1. lane[j][n] = "unknown" /\ UNCHANGED <<job, row, appliedBy>>
    BY <1>5 DEF ReadSaved
  <2>2. row[j][n].state \notin {"none", "released"} /\ row[j][n].state \in RowStates
    BY <2>1, RowFields DEF LaneRows, AttemptRow
  <2>3. CASE row[j][n].state = "running"
    <3>1. lane' = [lane EXCEPT ![j][n] = "refunding"] /\ report' = report
      BY <1>5, <2>3 DEF ReadSaved
    <3> QED BY <2>1, <2>3, <3>1, LaneWorks DEF Working, OpenRows
  <2>4. CASE row[j][n].state # "running"
    <3>1. Return(j, n, SavedReports(j, n))
      BY <1>5, <2>4 DEF ReadSaved
    <3>2. SavedReports(j, n) \in Reports
      BY StateNames DEF SavedReports, SavedReport
    <3>3. ~HoldsLive(j, n)
      BY <2>4, FencedAt DEF HoldsLive
    <3>4. Fits(j, n, SavedReports(j, n))
      BY <2>2, <2>4, <3>3 DEF Fits, SavedReports, SavedReport, RowStates
    <3> QED BY <2>1, <3>1, <3>2, <3>4, LaneReports
  <2> QED BY <2>3, <2>4
<1>6. ASSUME NEW j \in Jobs, NEW n \in Numbers, Abandon(j, n)
      PROVE  \A k \in Jobs, m \in Numbers : ClaimKind(k, m)
  <2>1. Fits(j, n, "retrying") /\ "retrying" \in Reports
    BY StateNames DEF Fits
  <2> QED BY <1>6, <2>1, LaneReports DEF Abandon
<1>7. ASSUME NEW w \in Workers, Crash(w), NEW j \in Jobs, NEW n \in Numbers
      PROVE  ClaimKind(j, n)
  <2>1. \/ lane'[j][n] = lane[j][n]
        \/ lane[j][n] \in Working \cup {"unknown"} /\ lane'[j][n] = "over"
    BY <1>7 DEF Crash, MineIn, Claims, Busy, Working
  <2>2. UNCHANGED <<job, row, appliedBy, report>>
    BY <1>7 DEF Crash
  <2> QED BY <2>1, <2>2, StillClaim DEF ClaimKind, MovesOn, Working
<1>8. ASSUME NEW j \in Jobs, Expire(j), NEW k \in Jobs, NEW m \in Numbers PROVE ClaimKind(k, m)
  <2>1. HoldsLive(k, m)' => HoldsLive(k, m)
    BY <1>8, RowFields DEF Expire, TypeOK, HoldsLive, Holds, JobRow
  <2> QED BY <1>8, <2>1 DEF Expire, ClaimKind, Ages
<1>9. CASE UNCHANGED vars
  BY <1>9, StillClaim DEF vars
<1> QED
  BY <1>3, <1>4, <1>5, <1>6, <1>7, <1>8, <1>9, ClaimKindOfClaim, ClaimKindOfFinish,
     ClaimKindOfFail, ClaimKindOfDefer, ClaimKindOfRefund, ClaimKindOfRelease,
     ClaimKindOfMaintain DEF Next, LaneStep, Fault

LEMMA ReportsStep ==
    ASSUME TypeOK, Fenced, LaneRows, AppliedIsComplete, ReportsAgree, [Next]_vars
    PROVE  LaneRows' /\ ReportsAgree'
<1>1. \A j \in Jobs, n \in Numbers : ClaimKind(j, n)
  BY StepClaimKinds
<1> QED BY <1>1, ClaimKindKeeps DEF LaneRows, ReportsAgree, Agrees, Fits

\* No claim given back unstarted, deferred or refunded costs its job an
\* attempt; what a lane reports of a claim is what was committed of it, even
\* when its session ended in the commit; and what an attempt ended as stays.
THEOREM AttemptsBalance == Spec => AttemptsAddUp
<1> DEFINE I == TypeOK /\ Fenced /\ Budget /\ AppliedIsComplete /\ LaneRows /\ ReportsAgree
<1>1. Init => I
  <2> SUFFICES ASSUME Init PROVE I
    OBVIOUS
  <2>1. TypeOK /\ Fenced
    BY InitIInv DEF IInv, Fenced
  <2>2. \A j \in Jobs : Charged(j) = {} /\ job[j].attempts = 0 /\ job[j].cause = "none"
                        /\ \A n \in Numbers : ~Holds(j, n)
    BY DEF Init, Charged, Holds
  <2>3. Budget
    BY <2>2, FS_EmptySet DEF Budget
  <2>4. AppliedIsComplete /\ LaneRows /\ ReportsAgree
    BY DEF Init, AppliedIsComplete, LaneRows, ReportsAgree, Working
  <2> QED BY <2>1, <2>3, <2>4
<1>2. I /\ [Next]_vars => I'
  BY TypeStep, FencedStep, BudgetStep, AppliedStep, ReportsStep
<1>3. I => BudgetIsSpent /\ ReportsAgree
  BY DEF Budget, BudgetIsSpent
<1> QED BY <1>1, <1>2, <1>3, RowsFrozen, PTL DEF Spec, AttemptsAddUp
=============================================================================
