---------------------------- MODULE MCRankedDay ----------------------------
(***************************************************************************)
(* Small instances for TLC of what one Legend day is made of: its profile  *)
(* readings against the ledger of battles (RankedDay), and the battle logs *)
(* the ledger comes from (BattleReports).  RankedDay takes a battle's       *)
(* reports as agreed, so a behaviour follows one of the two.               *)
(***************************************************************************)
EXTENDS RankedDay, TLC

CONSTANTS p1, p2, w1, w2, x, y, None

VARIABLES
    followed,   \* "readings" or "logs"
    rows, status, lane, evidence, selected, agreement, queued

Plain == [loss |-> 0, certain |-> FALSE, weekly |-> FALSE, before |-> 0, lands |-> FALSE,
          shown |-> FALSE, later |-> FALSE, complete |-> TRUE, trusts |-> {"full"},
          unseen |-> "never"]

\* The day before's loss: shown by its start reading, taken or not taken by the
\* day before's result, landed or not.  No sum of battles is as large.
Before(lands, shown, later, complete) ==
    [Plain EXCEPT !.before = 50, !.lands = lands, !.shown = shown, !.later = later,
                  !.complete = complete]

MCScenarios ==
    {[Plain EXCEPT !.loss = 10, !.certain = c] : c \in BOOLEAN}
    \cup {Before(TRUE, FALSE, TRUE, TRUE), Before(FALSE, FALSE, TRUE, TRUE),
          Before(TRUE, FALSE, FALSE, FALSE), Before(FALSE, FALSE, FALSE, FALSE)}
    \cup {[Plain EXCEPT !.weekly = TRUE, !.loss = 10],
          [Plain EXCEPT !.loss = 10, !.trusts = {"season 0"}],
          [Plain EXCEPT !.loss = 10, !.unseen = "reported"],
          [Plain EXCEPT !.loss = 10, !.unseen = "logs end"]}

\* Four logs, three of one player and one of the other, and two battles between
\* them.  The second is always reported alike, and the first log is older.
Logs == 1..4
Reports == INSTANCE BattleReports WITH
    Battles <- {1, 2}, Reporter <- <<p1, p2, p1, p1>>, Attacker <- <<p1, p1>>,
    Defender <- <<p2, p2>>, Values <- {x, y}, Workers <- {w1, w2}

logs == <<rows, status, lane, evidence, selected, agreement, queued>>

MCInit ==
    /\ Init /\ Reports!Init
    /\ 2 \notin DOMAIN rows[1]
    /\ \A l \in Logs : 2 \in DOMAIN rows[l] => rows[l][2] = x
    /\ \/ followed = "readings" /\ \A l \in Logs : rows[l] = <<>>
       \/ followed = "logs" /\ scenario = [Plain EXCEPT !.loss = 10]

MCNext ==
    \/ followed = "readings" /\ Next /\ UNCHANGED <<followed, logs>>
    \/ followed = "logs" /\ Reports!Next /\ UNCHANGED <<followed, vars>>

MCSpec == MCInit /\ [][MCNext]_<<followed, vars, logs>>

MCSymmetry == Permutations({w1, w2})

\* BattleReports' properties.
ReportsCount == Reports!ReportsCount
ChangeQueuesDays == [][followed = "logs" => Reports!Requeued]_<<followed, vars, logs>>
=============================================================================
