----------------------------- MODULE RankedDay -----------------------------
(***************************************************************************)
(* What the profile readings of one Legend day prove of it: the rule that  *)
(* judges each reading against the ledger of battles (reading_rule.py) and *)
(* the day's result from either start the day before may have given it     *)
(* (reconciliation.py, loss_rule.py).                                      *)
(*                                                                         *)
(* The actions are the game's, as the comments of reading_rule.py tell it: *)
(* battles are fought and show in the profile some time later, automatic   *)
(* losses and the weekly raise land any time after their Reset or never,   *)
(* and profiles are read, each with what had landed by then.               *)
(***************************************************************************)
EXTENDS ReadingRule

CONSTANTS
    Scenarios,      \* what an instance starts from, see below
    DayEnd, Horizon,    \* ticks: the day's end Reset and the last tick
    Lag, Length,    \* BATTLE_LANDING_LAG, DEFENSE_SHOWS_EARLY
    StartTotal, Floor,  \* the total of the day before, the weekly raise
    MaxBattles,     \* bound on the battles, the hidden one included
    MaxEvents       \* bound on all battles and the readings together

\* A scenario: the automatic loss the day's own battles give and whether it is
\* certain; whether its end Reset raises totals to the floor; the loss of the
\* day before, whether it ever lands, whether the day's start reading shows it,
\* whether that day's result took it to land later, and whether that result is
\* Complete; the trust in readings, and how a battle missing from the logs shows.
ASSUME DayConstants ==
    /\ {DayEnd, Horizon, Lag, Length, StartTotal, Floor, MaxBattles, MaxEvents} \subseteq Nat
    /\ \A s \in Scenarios :
        /\ {s.loss, s.before} \subseteq Nat
        /\ {s.certain, s.weekly, s.lands, s.shown, s.later, s.complete} \subseteq BOOLEAN
        /\ s.trusts \subseteq {"full", "season 0"} /\ s.unseen \in {"never", "logs end", "reported"}
        /\ s.shown => s.lands /\ ~s.later
        \* A Complete day that took its loss as landed had a reading show it.
        /\ s.complete /\ ~s.later => s.shown \/ s.before = 0

VARIABLES
    scenario, now,
    battles,    \* the battles of the ledger, oldest first
    hidden,     \* a new-day battle no log of the player shows yet, or none
    credited,   \* the battles the profile shows; 0 is the hidden one
    landed,     \* the losses and the raise that landed
    readings

vars == <<scenario, now, battles, hidden, credited, landed, readings>>

\* A battle's change, when it may show and when it must, and whether it is of
\* the judged day or of the next.
Effect(b, change, at, ended) ==
    [id |-> b, change |-> change, from |-> at,
     until |-> at + Lag + (IF change < 0 THEN Length ELSE 0), ended |-> ended]

NoBattle == [id |-> 0, change |-> 0, from |-> 0, until |-> 0, ended |-> FALSE]
Battle(b) == IF b = 0 THEN hidden ELSE battles[b]
Fought == DOMAIN battles \cup (IF hidden = NoBattle THEN {} ELSE {0})

Events == Cardinality(Fought) + Len(readings)

Ledgered == {battles[b] : b \in DOMAIN battles}

\* The day's end before its automatic loss.
TrueStart == StartTotal - (IF scenario.lands THEN scenario.before ELSE 0)
TrueEnd == TrueStart + SumOf(OfDay(Ledgered))

-----------------------------------------------------------------------------
(* The game.                                                               *)

Init ==
    /\ scenario \in Scenarios /\ now = 0 /\ battles = <<>> /\ hidden = NoBattle
    /\ credited = {} /\ landed = IF scenario.shown THEN {"before"} ELSE {}
    /\ readings = <<>>

Tick ==
    /\ now < Horizon /\ now' = now + 1
    /\ UNCHANGED <<scenario, battles, hidden, credited, landed, readings>>

\* Attacks are fought one at a time.
Free(change) == change > 0 => \A b \in Fought : Battle(b).change > 0 => Battle(b).from < now

Fight(change) ==
    /\ Cardinality(Fought) < MaxBattles /\ Events < MaxEvents /\ Free(change)
    /\ battles' = Append(battles, Effect(Len(battles) + 1, change, now, now < DayEnd))
    /\ UNCHANGED <<scenario, now, hidden, credited, landed, readings>>

\* A battle of the new day that is in no log of the player yet.
FightUnseen(change) ==
    /\ scenario.unseen # "never" /\ now >= DayEnd /\ hidden = NoBattle
    /\ Cardinality(Fought) < MaxBattles /\ Events < MaxEvents /\ Free(change)
    /\ hidden' = Effect(0, change, now, FALSE)
    /\ UNCHANGED <<scenario, now, battles, credited, landed, readings>>

\* What the profile may show now besides what it showed before: a defense in
\* its time, an attack too or later, as long as the player goes on attacking,
\* so that the attacks overdue are the latest.
MayShow(S) ==
    LET due == {b \in Fought : Battle(b).until <= now}
    IN  /\ credited \subseteq S /\ S \subseteq Fought
        /\ \A b \in due \ S : /\ Battle(b).change > 0
                              /\ \A a \in due \cap S : Battle(a).change > 0 =>
                                                            Battle(a).from < Battle(b).from

\* The loss of the day before lands during the day, if ever; this day's loss
\* and the weekly raise any time after its end, if ever.
MayLand(S) ==
    /\ landed \subseteq S
    /\ S \subseteq {"before"} \cup (IF now < DayEnd THEN {} ELSE {"loss", "raise"})
    /\ "before" \in S => scenario.lands
    /\ now >= DayEnd /\ scenario.lands => "before" \in S
    /\ "loss" \in S => scenario.loss # 0
    /\ "raise" \in S => scenario.weekly

\* The total of a profile that shows these battles, losses and raise.
Total(S, T) ==
    LET shown == {Battle(b) : b \in S}
        ended == StartTotal - (IF "before" \in T THEN scenario.before ELSE 0)
                 + SumOf(OfDay(shown)) - (IF "loss" \in T THEN scenario.loss ELSE 0)
    IN  (IF "raise" \in T THEN Max({ended, Floor}) ELSE ended) + SumOf(shown \ OfDay(shown))

\* A profile is read.  One read after the logs that cover it is uncovered, and
\* all that may show the hidden battle are, unless its opponent reported it.
Read(trust, S, T) ==
    /\ Events < MaxEvents /\ now >= ReadingsFrom
    /\ \A i \in DOMAIN readings : readings[i].at < now
    /\ MayShow(S) /\ MayLand(T)
    /\ (trust = "uncovered") <=> (hidden # NoBattle /\ scenario.unseen = "logs end")
    /\ credited' = S /\ landed' = T
    /\ readings' = Append(readings, [at |-> now, trophies |-> Total(S, T), trust |-> trust])
    /\ UNCHANGED <<scenario, now, battles, hidden>>

Next ==
    \/ Tick
    \/ \E change \in {10, -10} : Fight(change) \/ FightUnseen(change)
    \/ \E trust \in scenario.trusts \cup {"uncovered"}, S \in SUBSET Fought,
          T \in SUBSET {"before", "loss", "raise"} : Read(trust, S, T)

Spec == Init /\ [][Next]_vars

-----------------------------------------------------------------------------
(* The day's result from the start "way" gives: as the day before's result *)
(* says, or with its loss taken off the start reading or not.              *)

StartReading == StartTotal - (IF scenario.shown THEN scenario.before ELSE 0)

\* _settled_start.
Start(way) ==
    StartReading - CASE way = "as said" -> IF scenario.later THEN scenario.before ELSE 0
                     [] way = "charged" -> scenario.before
                     [] way = "uncharged" -> 0

\* other_start: the other ways the loss of the day before can have gone.
OtherStarts ==
    IF scenario.before = 0 THEN <<>>
    ELSE IF scenario.later THEN <<"uncharged">>
    ELSE IF scenario.complete THEN <<>> ELSE <<"charged">>

UnknownFrom == IF hidden # NoBattle /\ scenario.unseen = "reported" THEN hidden.from ELSE 0

\* The day's result from its end before the loss, the rule its readings were
\* judged by, whether one during the day fitted nothing, and their verdict.
ResultOf(end, rule, misfit, verdict) ==
    LET calculated == IF scenario.certain THEN scenario.loss ELSE 0
        verified == verdict.outcome = "verified"
        taken == IF verified /\ ~scenario.certain THEN verdict.loss ELSE calculated
        hiddenEnd == scenario.weekly /\ end - taken <= Floor
        expected == IF hiddenEnd THEN Floor ELSE end - taken
        \* The Reset pair's own reading, the first from the end Reset on.
        reset == SelectSeq(readings, LAMBDA r : r.at >= DayEnd)
        explained == \/ reset[1].trophies = expected
                     \/ /\ hiddenEnd /\ JudgedAll(rule, <<reset[1]>>, TRUE) # <<>>
                        /\ Ways(rule, reset[1].at, reset[1].trophies) # {}
        decides == verified /\ ~hiddenEnd
        mismatch == \/ misfit \/ verdict.outcome = "contradicted"
                    \/ hiddenEnd /\ reset # <<>> /\ ~explained
        unsettled == decides /\ taken # 0 /\ verdict.loss = 0
        complete == ~mismatch /\ (decides \/ (hiddenEnd /\ reset # <<>>))
    IN  [state |-> IF mismatch THEN "Inconsistent" ELSE IF complete THEN "Complete" ELSE "Partial",
         exact |-> complete /\ ~hiddenEnd /\ ~unsettled /\ verdict.exact,
         clean |-> verified /\ verdict.clean,
         confirmed |-> decides /\ ~mismatch /\ taken # 0 /\ ~unsettled,
         end |-> end]

\* _reconcile, of a day whose battle logs are continuous: the readings from the
\* end Reset on, after what those of the day showed.
ReconcileAfter(during, end, stale) ==
    LET rule == Ledger(end, {scenario.loss}, scenario.certain, Ledgered,
                       IF scenario.weekly THEN Floor ELSE 0)
    IN  ResultOf(end, rule, during.misfit,
                 Decide(rule, readings, DayEnd, UnknownFrom, scenario.complete, during.history,
                        during.proof, stale))

Reconcile(way, stale) ==
    LET pending == IF way = "uncharged" THEN 0 ELSE scenario.before
    IN  ReconcileAfter(DuringDay(Ledger(Start(way) + pending, {pending}, pending # 0,
                                        {[b EXCEPT !.ended = FALSE] : b \in OfDay(Ledgered)}, 0),
                                 readings, DayEnd, stale),
                       Start(way) + SumOf(OfDay(Ledgered)), stale)

\* _proven.
Proven(result) == result.state = "Complete" /\ (result.exact \/ result.clean)

\* The first proven result, of the readings as they are or else, if one fitted
\* none of them, with the stale ones set aside; or else the first.
FirstProven(strict, lenient) ==
    LET provenBy(results) == SelectSeq(results, Proven)
    IN  IF provenBy(strict) # <<>> THEN provenBy(strict)[1]
        ELSE IF \A i \in DOMAIN strict : strict[i].state # "Inconsistent" THEN strict[1]
        ELSE IF provenBy(lenient) # <<>> THEN provenBy(lenient)[1] ELSE lenient[1]

\* reconcile_ranked_day: each start in turn, then again without stale readings.
RankedDayResult ==
    LET starts == <<"as said">> \o OtherStarts
        results(stale) == [i \in DOMAIN starts |-> Reconcile(starts[i], stale)]
    IN  FirstProven(results(FALSE), results(TRUE))

-----------------------------------------------------------------------------
(* Properties.                                                             *)

\* The day has ended and its newest reading is the newest event.
JustRead == now >= DayEnd /\ readings # <<>> /\ readings[Len(readings)].at = now

\* No reading of a profile that showed what the game did contradicts the day
\* from the start the player really had (reading_rule.decide: a contradiction
\* makes the day Uncertain for good), however battles, losses, the raise, late
\* credits and readings interleave.
TrueDayStands ==
    JustRead => \A way \in {"as said", "charged", "uncharged"}, stale \in BOOLEAN :
        Start(way) = TrueStart => Reconcile(way, stale).state # "Inconsistent"

\* A day the readings prove ended as it says before its automatic loss, also
\* when the day before's result was wrong about its own loss; and a loss it
\* calls confirmed has landed (reconcile_ranked_day).
ProvenIsTrue ==
    JustRead =>
        \A result \in {RankedDayResult} :
            /\ Proven(result) => result.end = TrueEnd
            /\ result.confirmed => "loss" \in landed
=============================================================================
