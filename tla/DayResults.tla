----------------------------- MODULE DayResults -----------------------------
(***************************************************************************)
(* The saved results of ended Legend days and the jobs that recalculate    *)
(* them (reconciliation_db.py, queue_refresh.py, late_battle_sweep.py).    *)
(* Battle logs and profiles change what a day is calculated from; the      *)
(* transaction that saves them queues the days they can change, merging    *)
(* into a recheck that waits.  A calculation reads its day, the day before *)
(* and the day after, goes on to the following day when the state, end or  *)
(* next start of the result changed, and records each new result for the   *)
(* board of its Reset.  The following day reads more than these three: the *)
(* defenses, shield and losses of the day before and its battles, which    *)
(* leave it stale when they change alone.                                  *)
(***************************************************************************)
EXTENDS Integers, Sequences, SequencesExt, FiniteSetsExt

CONSTANTS
    Players,
    LastDay,        \* the days are numbered from 1 and have all ended
    Values,         \* a player's battles of a day
    Shown, Passed,  \* what of them the result compares, and that of the next day
    Lanes, Savers,  \* worker lanes, transactions that save responses
    Sweep,          \* the late-battle sweep
    Unsaved,        \* the days without a result yet; the others start with one
    DayEnds,        \* the day-end job of a day that starts with a result
    MaxChanges,     \* bound on saved changes
    MaxRechecks,    \* bound on passes of the twice-daily recheck
    None

Days == 1..LastDay
PlayerDays == Players \X Days
Workers == Lanes \cup {Sweep}

\* What an instance's constants must be.
ConstantsFit ==
    /\ DOMAIN Shown = Values /\ DOMAIN Passed = Values /\ Unsaved \subseteq PlayerDays /\ DayEnds \in {"queued", "taken"}
    /\ LastDay \in Nat /\ {MaxChanges, MaxRechecks} \subseteq Nat /\ Sweep \notin Lanes
    /\ IsFiniteSet(Savers) /\ (DayEnds = "taken" => Unsaved = {})

VARIABLES
    battles,    \* what the player's reports say of each day
    versions,   \* the saved results of each day, oldest first
    waiting,    \* due rechecks not started, by day
    later,      \* rechecks of the daily pass not due yet
    retry,      \* jobs handed back by a calculation that gave up
    first,      \* days whose first calculation, queued by the Reset, waits
    dayEnd,     \* the day-end recalculation of each day
    late,       \* days ended for longer than DAY_END_RECALCULATION_DELAY
    lane,       \* the transaction of each worker
    saver,      \* the transaction of each saver
    changes, passes

jobs == <<waiting, later, retry, first, dayEnd>>
bounds == <<changes, passes>>
vars == <<battles, versions, jobs, late, lane, saver, bounds>>

NoJob == [player |-> None, from |-> 0, sweeps |-> FALSE, pending |-> {}, day |-> 0,
          done |-> <<>>, days |-> {}, members |-> {}, resets |-> {}]
NoSave == [day |-> 0, to |-> <<>>, locked |-> {}, queued |-> {}]

\* The state, end and next start of a result: what the chain compares.
Outcome(r) ==
    <<Shown[r.own], IF r.next = None THEN None ELSE Shown[r.next], r.start,
      IF r.rest = None THEN None ELSE <<Passed[r.rest.own], Passed[r.rest.battles]>>>>

\* What the next day reads of a result beside these: the defenses, shield,
\* losses and corrections, and the battles, as they are then, of its day.
Rest(r, reports) == [own |-> r.own, next |-> r.next, rest |-> r.rest, battles |-> reports]

\* The result of a day where every report says the same.
FirstResult[x \in PlayerDays] ==
    LET before == <<x[1], x[2] - 1>>
        unbuilt == x[2] = 1 \/ before \in Unsaved IN
    [own |-> battles[x], next |-> IF x[2] = LastDay THEN None ELSE battles[x],
     built |-> IF unbuilt THEN 0 ELSE 1,
     start |-> IF unbuilt THEN None ELSE Outcome(FirstResult[before]),
     rest |-> IF unbuilt THEN None ELSE Rest(FirstResult[before], battles[before])]

Init ==
    /\ battles \in [PlayerDays -> Values]
    /\ \A x, y \in PlayerDays : battles[x] = battles[y]
    /\ versions = [x \in PlayerDays |-> IF x \in Unsaved THEN <<>> ELSE <<FirstResult[x]>>]
    /\ waiting = [x \in PlayerDays |-> 0]
    /\ later = {} /\ first = Unsaved /\ late = IF DayEnds = "taken" THEN Days ELSE {}
    /\ retry = [x \in PlayerDays |-> 0]
    /\ dayEnd = [x \in PlayerDays |-> IF x \in Unsaved THEN "none" ELSE DayEnds]
    /\ lane = [w \in Workers |-> NoJob]
    /\ saver = [s \in Savers |-> NoSave]
    /\ changes = 0 /\ passes = 0

Saved(x) == versions[x] # <<>>

-----------------------------------------------------------------------------
(* Saving a response.  queue_for_battles and queue_for_reading name the    *)
(* days; _queue_day leaves one with a due recheck that has not started to  *)
(* that recheck, which stays locked until the change is committed.         *)

Locked(x) == Cardinality({s \in Savers : x \in saver[s].locked})
Merges(x) == waiting[x] > Locked(x)

SaveChange(s, P, d, v) ==
    LET touched == {x \in P \X {d, d - 1} : x[2] \in Days /\ Saved(x)} IN
    /\ saver[s] = NoSave /\ changes < MaxChanges
    /\ \E p \in P : battles[<<p, d>>] # v
    /\ saver' = [saver EXCEPT ![s] =
        [day |-> d, to |-> [p \in P |-> v],
         locked |-> {x \in touched : Merges(x)},
         queued |-> {x \in touched : ~Merges(x)}]]
    /\ changes' = changes + 1
    /\ UNCHANGED <<battles, versions, jobs, late, lane, passes>>

CommitChange(s) ==
    LET save == saver[s] IN
    /\ save # NoSave
    /\ battles' = [x \in PlayerDays |->
        IF x[1] \in DOMAIN save.to /\ x[2] = save.day THEN save.to[x[1]] ELSE battles[x]]
    /\ waiting' = [x \in PlayerDays |-> waiting[x] + IF x \in save.queued THEN 1 ELSE 0]
    /\ saver' = [saver EXCEPT ![s] = NoSave]
    /\ UNCHANGED <<versions, later, retry, first, dayEnd, late, lane, bounds>>

AbortChange(s) ==
    /\ saver[s] # NoSave
    /\ saver' = [saver EXCEPT ![s] = NoSave]
    /\ UNCHANGED <<battles, versions, jobs, late, lane, bounds>>

(* queue_recheck: the last two days, if saved and no job waits, due later. *)
Recheck ==
    /\ passes < MaxRechecks
    /\ later' = later \cup {x \in PlayerDays :
            /\ x[2] >= LastDay - 1 /\ Saved(x)
            /\ waiting[x] + retry[x] = 0 /\ x \notin first /\ dayEnd[x] # "queued"}
    /\ passes' = passes + 1
    /\ UNCHANGED <<battles, versions, waiting, retry, first, dayEnd, late, lane, saver, changes>>

RecheckDue(x) ==
    /\ x \in later
    /\ later' = later \ {x}
    /\ waiting' = [waiting EXCEPT ![x] = @ + 1]
    /\ UNCHANGED <<battles, versions, retry, first, dayEnd, late, lane, saver, bounds>>

(* The two hours of the delay are longer than any transaction, and a       *)
(* Reset's own work saves every day's first result well before them.       *)
DayIsLate(d) ==
    /\ d \in Days \ late /\ \A e \in Days \ late : d <= e
    /\ \A p \in Players : Saved(<<p, d>>)
    /\ \A s \in Savers : saver[s] = NoSave
    /\ \A w \in Workers : lane[w] = NoJob
    /\ late' = late \cup {d}
    /\ UNCHANGED <<battles, versions, jobs, lane, saver, bounds>>

-----------------------------------------------------------------------------
(* Claiming a job.                                                         *)

Take(w, x) ==
    lane' = [lane EXCEPT ![w] = [NoJob EXCEPT !.player = x[1], !.from = x[2], !.pending = {x[2]}]]

(* Mutant: the claim does not skip a recheck a saved change holds.          *)
ClaimableAny(x) == waiting[x] > 0

Claimable(x) == waiting[x] > Locked(x)

ClaimRecheck(w, x) ==
    /\ lane[w] = NoJob /\ Claimable(x)
    /\ Take(w, x)
    /\ waiting' = [waiting EXCEPT ![x] = @ - 1]
    /\ UNCHANGED <<battles, versions, later, retry, first, dayEnd, late, saver, bounds>>

ClaimRetry(w, x) ==
    /\ lane[w] = NoJob /\ retry[x] > 0
    /\ Take(w, x)
    /\ retry' = [retry EXCEPT ![x] = @ - 1]
    /\ UNCHANGED <<battles, versions, waiting, later, first, dayEnd, late, saver, bounds>>

ClaimFirst(w, x) ==
    /\ lane[w] = NoJob /\ x \in first
    /\ Take(w, x)
    /\ first' = first \ {x}
    /\ UNCHANGED <<battles, versions, waiting, later, retry, dayEnd, late, saver, bounds>>

ClaimDayEnd(w, x) ==
    /\ lane[w] = NoJob /\ dayEnd[x] = "queued" /\ x[2] \in late
    /\ Take(w, x)
    /\ dayEnd' = [dayEnd EXCEPT ![x] = "taken"]
    /\ UNCHANGED <<battles, versions, waiting, later, retry, first, late, saver, bounds>>

-----------------------------------------------------------------------------
(* Calculating.  A transaction sees its own results of the days before.    *)

Newest(x) == Last(versions[x])

Read(w, p, d) ==
    LET before == <<p, d - 1>>
        own == d - 1 \in DOMAIN lane[w].done
        built == IF own THEN lane[w].done[d - 1].version
                 ELSE IF d = 1 THEN 0 ELSE Len(versions[before])
        previous == IF own THEN lane[w].done[d - 1].result ELSE Newest(before) IN
    [own |-> battles[<<p, d>>],
     next |-> IF d + 1 \in Days THEN battles[<<p, d + 1>>] ELSE None,
     built |-> built,
     start |-> IF built = 0 THEN None ELSE Outcome(previous),
     rest |-> IF built = 0 THEN None ELSE Rest(previous, battles[before])]

\* Whether the newest saved result was calculated from the same inputs.
Existing(x, result) == Saved(x) /\ Newest(x) = result

\* Mutant: the next day takes a result that was not saved again for a new one.
VersionAnew(x, existing) == Len(versions[x]) + 1

\* The version of a result that is calculated now.
Version(x, existing) == Len(versions[x]) + (IF existing THEN 0 ELSE 1)

(* The following saved day, when the result of an ended day changed.       *)
Following(w, p, d, result) ==
    LET x == <<p, d>> IN
    {e \in {d + 1} \cap Days :
        /\ ~lane[w].sweeps /\ Saved(<<p, e>>)
        /\ ~Saved(x) \/ Outcome(Newest(x)) # Outcome(result)}

(* recalculate_ranked_day: a result like the newest saved one is not saved *)
(* again; one like an older one is.                                        *)
Calculate(w) ==
    LET p == lane[w].player
        d == lane[w].day
        x == <<p, d>>
        result == Read(w, p, d)
        existing == Existing(x, result)
        done == [version |-> Version(x, existing),
                 result |-> result, saves |-> ~existing] IN
    /\ d # 0
    /\ lane' = [lane EXCEPT
        ![w].day = 0,
        ![w].done = [e \in DOMAIN @ \cup {d} |-> IF e = d THEN done ELSE @[e]],
        ![w].pending = @ \cup (Following(w, p, d, result) \ DOMAIN lane[w].done),
        ![w].members = IF existing THEN @ ELSE @ \cup {d}]
    /\ UNCHANGED <<battles, versions, jobs, late, saver, bounds>>

(* The lock a transaction asks for next: its days in order, then the       *)
(* Resets whose boards its new results are recorded for, oldest first.  The *)
(* sweep records each result before it goes on to the next day.            *)
DayLock(p, d) == <<"day", p, d>>
ResetLock(d) == <<"reset", None, d>>
ToRecord(w) == lane[w].members \ lane[w].resets

(* Mutant: the newest Reset is recorded first.                              *)
NewestReset(w) == ResetLock(Max(ToRecord(w)))

NextReset(w) == ResetLock(Min(ToRecord(w)))

Wants(w) ==
    LET l == lane[w] IN
    IF l = NoJob \/ l.day # 0 THEN {}
    ELSE IF ToRecord(w) # {} /\ (l.sweeps \/ l.pending = {}) THEN {NextReset(w)}
    ELSE IF l.pending # {} THEN {DayLock(l.player, Min(l.pending))}
    ELSE {}

Locks(w) == {DayLock(lane[w].player, d) : d \in lane[w].days}
            \cup {ResetLock(d) : d \in lane[w].resets}

TakeLock(w) ==
    \E lock \in Wants(w) : LET d == lock[3] IN
    /\ \A v \in Workers \ {w} : lock \notin Locks(v)
    /\ lane' = IF lock[1] = "day"
        THEN [lane EXCEPT ![w].day = d, ![w].days = @ \cup {d}, ![w].pending = @ \ {d}]
        ELSE [lane EXCEPT ![w].resets = @ \cup {d}]
    /\ UNCHANGED <<battles, versions, jobs, late, saver, bounds>>

Finish(w) ==
    LET l == lane[w]
        of(x) == x[1] = l.player /\ x[2] \in DOMAIN l.done IN
    /\ l # NoJob /\ l.day = 0 /\ Wants(w) = {}
    /\ versions' = [x \in PlayerDays |->
        IF of(x) /\ l.done[x[2]].saves THEN Append(versions[x], l.done[x[2]].result)
        ELSE versions[x]]
    /\ dayEnd' = [x \in PlayerDays |->
        IF of(x) /\ x[2] \notin late /\ dayEnd[x] = "none" THEN "queued" ELSE dayEnd[x]]
    /\ lane' = [lane EXCEPT ![w] = NoJob]
    /\ UNCHANGED <<battles, waiting, later, retry, first, late, saver, bounds>>

(* A lock not given in time, an error or a lost worker: everything is      *)
(* rolled back and the job comes back; the sweep tries again later.        *)
GiveUp(w) ==
    LET l == lane[w] IN
    /\ l # NoJob
    /\ retry' = IF l.sweeps THEN retry ELSE [retry EXCEPT ![<<l.player, l.from>>] = @ + 1]
    /\ lane' = [lane EXCEPT ![w] = NoJob]
    /\ UNCHANGED <<battles, versions, waiting, later, first, dayEnd, late, saver, bounds>>

(* The sweep recalculates every saved day of a player from the first one   *)
(* that misses a battle or was built from an older result of the day       *)
(* before.                                                                 *)
Misses(x) == Newest(x).own # battles[x]
Outdated(x) == x[2] > 1 /\ Newest(x).built # Len(versions[<<x[1], x[2] - 1>>])

SweepPlayer(p) ==
    LET stale == {d \in Days : Saved(<<p, d>>) /\ (Misses(<<p, d>>) \/ Outdated(<<p, d>>))} IN
    /\ lane[Sweep] = NoJob /\ stale # {}
    /\ lane' = [lane EXCEPT ![Sweep] = [NoJob EXCEPT
        !.player = p, !.from = Min(stale), !.sweeps = TRUE,
        !.pending = {d \in Days : d >= Min(stale) /\ Saved(<<p, d>>)}]]
    /\ UNCHANGED <<battles, versions, jobs, late, saver, bounds>>

-----------------------------------------------------------------------------
Next ==
    \/ \E s \in Savers, P \in (SUBSET Players) \ {{}}, d \in Days, v \in Values : SaveChange(s, P, d, v)
    \/ \E s \in Savers : CommitChange(s) \/ AbortChange(s)
    \/ Recheck
    \/ \E x \in PlayerDays : RecheckDue(x)
    \/ \E d \in Days : DayIsLate(d)
    \/ \E w \in Lanes, x \in PlayerDays :
        ClaimRecheck(w, x) \/ ClaimRetry(w, x) \/ ClaimFirst(w, x) \/ ClaimDayEnd(w, x)
    \/ \E w \in Workers : TakeLock(w) \/ Calculate(w) \/ Finish(w) \/ GiveUp(w)
    \/ \E p \in Players : SweepPlayer(p)

Spec == Init /\ [][Next]_vars

-----------------------------------------------------------------------------
Current(p, d) ==
    [own |-> battles[<<p, d>>],
     next |-> IF d + 1 \in Days THEN battles[<<p, d + 1>>] ELSE None,
     start |-> IF d = 1 \/ ~Saved(<<p, d - 1>>) THEN None ELSE Outcome(Newest(<<p, d - 1>>))]

Matches(result, current) ==
    result.own = current.own /\ result.next = current.next /\ result.start = current.start

\* A job of the day that waits, or runs and has read nothing that changed since.
HasCause(x) ==
    \/ waiting[x] + retry[x] > 0 \/ x \in later \cup first \/ dayEnd[x] = "queued"
    \/ \E w \in Lanes : LET l == lane[w] IN
        /\ <<l.player, l.from>> = x
        /\ l.from \in DOMAIN l.done => Matches(l.done[l.from].result, Current(x[1], x[2]))

(* A saved result of an ended day that no longer matches the saved reports *)
(* of its day and the next, or the state, end and next start of the day    *)
(* before, has a recalculation of that day waiting, or one running that    *)
(* saw them all: a change merged into a waiting recheck, the chain of      *)
(* changed days and a first result saved while another day changes lose    *)
(* nothing.                                                                *)
StaleHasCause ==
    \A x \in PlayerDays :
        Saved(x) /\ ~Matches(Newest(x), Current(x[1], x[2])) => HasCause(x)

(* Stale in the rest of what it read of the result of the day before, a    *)
(* day may have no recalculation; but then its saved result names another  *)
(* version of that day than the newest, so that the late-battle sweep      *)
(* finds it, however many calculations of both days ran, failed or saved   *)
(* nothing new at once.                                                    *)
StaleRestIsSeen ==
    \A x \in PlayerDays : LET before == <<x[1], x[2] - 1>> IN
        Saved(x) /\ x[2] > 1 /\ Saved(before) /\ ~Outdated(x) =>
            \E v \in Values : Newest(x).rest = Rest(Newest(before), v)

(* The transactions that calculate and record days never wait for one      *)
(* another in a circle ("Lock order everywhere", boundary.py:57).          *)
NoWaitCycle ==
    \A W \in (SUBSET Workers) \ {{}} :
        \E w \in W : \A lock \in Wants(w) : \A v \in W \ {w} : lock \notin Locks(v)
=============================================================================
