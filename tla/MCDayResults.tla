--------------------------- MODULE MCDayResults ---------------------------
(***************************************************************************)
(* Small instances for TLC of the two places where several writes of the   *)
(* same rows run at once: the results of ended days (DayResults) and crews *)
(* (Crews).  A behaviour follows one of five.  "chain": the first results  *)
(* of one player's two days, a change and two lanes.  "players": three old *)
(* days of two players with one change of either or both.  "rechecks": two *)
(* changes of one player saved at once and a pass of the daily recheck.    *)
(* "details": three days of one player, where a change shows only in the   *)
(* result of the day after.  "crews": two writes, one after the other or   *)
(* at once.                                                                *)
(***************************************************************************)
EXTENDS Crews, TLC

CONSTANTS p1, p2, w1, w2, lane1, s1, s2, sweep, val1, val2, val3, alice, bob, dave, k1, k2

VARIABLES
    followed,
    battles, versions, waiting, later, retry, first, dayEnd, late, lane, saver, changes, passes

days == <<battles, versions, waiting, later, retry, first, dayEnd, late, lane, saver, changes, passes>>

MCShown == val1 :> "u" @@ val2 :> "u" @@ val3 :> "v"
MCPassed == val1 :> "u" @@ val2 :> "v" @@ val3 :> "u"
Alike == val1 :> "u" @@ val2 :> "u"
TwoPassed == val1 :> "u" @@ val2 :> "v"
TwoShown == val1 :> "u" @@ val3 :> "v"

Chain == INSTANCE DayResults WITH
    Players <- {p1}, LastDay <- 2, Values <- {val1, val2, val3}, Shown <- MCShown, Passed <- MCPassed,
    Lanes <- {w1, w2}, Savers <- {s1}, Sweep <- sweep, Unsaved <- {p1} \X (1..2),
    DayEnds <- "queued", MaxChanges <- 1, MaxRechecks <- 0
Wide == INSTANCE DayResults WITH
    Players <- {p1, p2}, LastDay <- 3, Values <- {val1, val3}, Shown <- TwoShown, Passed <- TwoShown,
    Lanes <- {w1, w2}, Savers <- {s1}, Sweep <- sweep, Unsaved <- {},
    DayEnds <- "taken", MaxChanges <- 1, MaxRechecks <- 0
Late == INSTANCE DayResults WITH
    Players <- {p1}, LastDay <- 2, Values <- {val1, val3}, Shown <- TwoShown, Passed <- TwoShown,
    Lanes <- {lane1}, Savers <- {s1, s2}, Sweep <- sweep, Unsaved <- {},
    DayEnds <- "taken", MaxChanges <- 2, MaxRechecks <- 1
Details == INSTANCE DayResults WITH
    Players <- {p1}, LastDay <- 3, Values <- {val1, val2}, Shown <- Alike, Passed <- TwoPassed,
    Lanes <- {lane1}, Savers <- {s1}, Sweep <- sweep, Unsaved <- {},
    DayEnds <- "taken", MaxChanges <- 1, MaxRechecks <- 1

ASSUME InstancesFit ==
    Chain!ConstantsFit /\ Wide!ConstantsFit /\ Late!ConstantsFit /\ Details!ConstantsFit

\* A crew of an owner, an admin and a member; or one whose owner's player has
\* gone to another account and come back, beside a crew of the admin's own.
\* The limit of two crews leaves the first crew's members room for one more,
\* which two writes at once could exceed.
Nobody == [m \in {alice, bob, dave} |-> "none"]
Empty == <<None, None, None, None>>
FirstCrew == [size |-> <<3, 0, 0>>, place |-> <<<<alice, bob, dave, None>>, Empty, Empty>>,
    role |-> <<alice :> "owner" @@ bob :> "admin" @@ dave :> "member", Nobody, Nobody>>,
    invites |-> <<{bob}, {}, {}>>]
TwoCrews == [size |-> <<3, 2, 0>>, place |-> <<<<None, bob, dave, None>>, <<None, bob, None, None>>, Empty>>,
    role |-> <<alice :> "owner" @@ bob :> "admin" @@ dave :> "member",
               alice :> "none" @@ bob :> "owner" @@ dave :> "none", Nobody>>,
    invites |-> <<{}, {bob}, {}>>]
MCLinked == <<alice, bob, dave, alice>>
MCFounded == {FirstCrew, TwoCrews}

\* Lanes are interchangeable, and so are connections.
Symmetry == Permutations({w1, w2}) \cup Permutations({k1, k2})

DaysInit ==
    /\ \/ followed \in {"chain", "crews"} /\ Chain!Init
       \/ followed = "players" /\ Wide!Init
       \/ followed = "rechecks" /\ Late!Init
       \/ followed = "details" /\ Details!Init
    /\ Init
    /\ IF followed = "crews" THEN \A e \in {p1} \X (1..2) : battles[e] = val1 ELSE size = FirstCrew.size

DaysNext ==
    /\ followed' = followed
    /\ \/ /\ UNCHANGED vars
          /\ \/ followed = "chain" /\ Chain!Next
             \/ followed = "players" /\ Wide!Next
             \/ followed = "rechecks" /\ Late!Next
             \/ followed = "details" /\ Details!Next
       \/ followed = "crews" /\ Next /\ UNCHANGED days

DaysSpec == DaysInit /\ [][DaysNext]_<<followed, days, vars>>

\* DayResults' properties, of the instance followed.
StaleDayHasCause ==
    /\ followed = "chain" => Chain!StaleHasCause
    /\ followed = "players" => Wide!StaleHasCause
    /\ followed = "rechecks" => Late!StaleHasCause
    /\ followed = "details" => Details!StaleHasCause

\* What the chain does not compare, the sweep sees.
StaleIsSeen ==
    /\ followed = "chain" => Chain!StaleRestIsSeen
    /\ followed = "players" => Wide!StaleRestIsSeen
    /\ followed = "rechecks" => Late!StaleRestIsSeen
    /\ followed = "details" => Details!StaleRestIsSeen

\* No circle of waiting calculations.
LocksNeverCircle == followed = "players" => Wide!NoWaitCycle
===========================================================================
