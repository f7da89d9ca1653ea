---------------------------- MODULE JobContract ----------------------------
(***************************************************************************)
(* What the job queue promises the pipeline, without attempts, rows, lanes *)
(* or clocks: a job is open, held by exactly one claim, done or failed;    *)
(* every claim is a new one; only the claim that holds a job can end it;   *)
(* the result of a job is applied at most once, by the claim that ends it; *)
(* and an ended job stays ended.                                           *)
(***************************************************************************)
EXTENDS Integers

CONSTANT Jobs

VARIABLES
    status,     \* open, held, done or failed
    holder,     \* the claim that holds the job, 0 when none does
    taken,      \* claims made so far, the number of the latest one
    appliedBy   \* claims whose result the domain tables hold

vars == <<status, holder, taken, appliedBy>>

Init ==
    /\ status = [j \in Jobs |-> "open"]
    /\ holder = [j \in Jobs |-> 0]
    /\ taken = [j \in Jobs |-> 0]
    /\ appliedBy = [j \in Jobs |-> {}]

Same(j) ==
    /\ status'[j] = status[j] /\ holder'[j] = holder[j]
    /\ taken'[j] = taken[j] /\ appliedBy'[j] = appliedBy[j]

\* A claim takes an open job, or one whose holder let its lease run out.
Take(j) ==
    /\ status[j] \in {"open", "held"} /\ status'[j] = "held"
    /\ taken'[j] = taken[j] + 1 /\ holder'[j] = taken[j] + 1
    /\ appliedBy'[j] = appliedBy[j]

Leave(j, s) ==
    /\ status[j] = "held" /\ status'[j] = s
    /\ holder'[j] = 0 /\ taken'[j] = taken[j]

GiveBack(j) == Leave(j, "open") /\ appliedBy'[j] = appliedBy[j]

Fail(j) == Leave(j, "failed") /\ appliedBy'[j] = appliedBy[j]

\* A superseded response is done with nothing applied.
Finish(j) ==
    /\ Leave(j, "done")
    /\ appliedBy[j] = {}
    /\ appliedBy'[j] \in {{}, {holder[j]}}

JobStep(j) == Take(j) \/ GiveBack(j) \/ Fail(j) \/ Finish(j)

\* One transaction may claim, give back or recover several jobs.
Next == \A j \in Jobs : JobStep(j) \/ Same(j)

Spec == Init /\ [][Next]_vars
=============================================================================
