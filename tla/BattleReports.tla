--------------------------- MODULE BattleReports ---------------------------
(***************************************************************************)
(* Saved battle logs of one Legend day, applied in any order by several    *)
(* workers (battle_ingestion.py).  Both players of a battle report it, each *)
(* log repeats the battles of the logs before it, and the provider may      *)
(* change what it reports.  A battle keeps the newest report of each side   *)
(* and whether the two agree, and a log that changes either queues both     *)
(* players' ended days (queue_refresh.py).                                  *)
(***************************************************************************)
EXTENDS Integers, Sequences, FiniteSetsExt

CONSTANTS
    Logs,       \* saved battle logs, numbered in the order they were observed
    Reporter,   \* the player each log is of
    Battles,    \* numbered in the order of (day, attacker, defender)
    Attacker, Defender,
    Values,     \* what a report can say of a battle
    Workers,
    None


Sides == {"attacker", "defender"}
Player(b, s) == IF s = "attacker" THEN Attacker[b] ELSE Defender[b]
Of(l) == {b \in Battles : Reporter[l] \in {Attacker[b], Defender[b]}}

VARIABLES
    rows,       \* what each log reports: a battle it leaves out is not in its domain
    status,     \* each log's job
    lane,       \* what each worker's transaction is doing
    evidence,   \* the reports kept of each side of each battle, in the order saved
    selected,   \* the report a side's battle counts with, and until when it was seen
    agreement,  \* disagreement_state
    queued      \* the battles whose players' days the last commit queued

vars == <<rows, status, lane, evidence, selected, agreement, queued>>

Idle == [log |-> None, held |-> {}, saved |-> None]

Init ==
    /\ rows \in [Logs -> UNION {[B -> Values] : B \in SUBSET Battles}]
    /\ \A l \in Logs : DOMAIN rows[l] \subseteq Of(l)
    /\ status = [l \in Logs |-> "waiting"]
    /\ lane = [w \in Workers |-> Idle]
    /\ evidence = [b \in Battles |-> [s \in Sides |-> <<>>]]
    /\ selected = [b \in Battles |-> [s \in Sides |-> None]]
    /\ agreement = [b \in Battles |-> "single_perspective"]
    /\ queued = {}

SideOf(l, b) == IF Reporter[l] = Attacker[b] THEN "attacker" ELSE "defender"

(* A regular log is skipped when a newer one was applied and every report  *)
(* it holds is kept and was confirmed at or after it.                      *)
Covered(l) ==
    /\ \E m \in Logs : m > l /\ Reporter[m] = Reporter[l] /\ status[m] = "saved"
    /\ \A b \in DOMAIN rows[l] : LET s == SideOf(l, b) IN
        /\ \E i \in DOMAIN evidence[b][s] : evidence[b][s][i].value = rows[l][b]
        /\ selected[b][s] # None /\ selected[b][s].until >= l

Supersede(l) ==
    /\ status[l] = "waiting" /\ Covered(l)
    /\ status' = [status EXCEPT ![l] = "superseded"]
    /\ UNCHANGED <<rows, lane, evidence, selected, agreement, queued>>

\* A log of collector work, of a Reset or a Refresh, is never skipped.
Begin(w, l) ==
    /\ lane[w] = Idle /\ status[l] = "waiting"
    /\ status' = [status EXCEPT ![l] = "taken"]
    /\ lane' = [lane EXCEPT ![w].log = l]
    /\ UNCHANGED <<rows, evidence, selected, agreement, queued>>

Held(b) == \E v \in Workers : b \in lane[v].held

(* _save_battles: a battle saved before is locked, not rewritten, so the   *)
(* logs of its two sides take turns; all logs lock in the same order.      *)
Wanted(w) == DOMAIN rows[lane[w].log] \ lane[w].held

LockBattle(w) ==
    /\ lane[w].log # None /\ lane[w].saved = None /\ Wanted(w) # {}
    /\ LET b == Min(Wanted(w)) IN
        /\ ~Held(b)
        /\ lane' = [lane EXCEPT ![w].held = @ \cup {b}]
    /\ UNCHANGED <<rows, status, evidence, selected, agreement, queued>>

\* A report the side counts with already, seen no later, is not kept again.
Repeats(l, b) ==
    LET s == SideOf(l, b)
        chosen == selected[b][s] IN
    /\ chosen # None
    /\ evidence[b][s][chosen.id].value = rows[l][b]
    /\ evidence[b][s][chosen.id].at <= l

EvidenceWith(l, b) ==
    LET kept == evidence[b][SideOf(l, b)] IN
    IF Repeats(l, b) THEN kept ELSE Append(kept, [value |-> rows[l][b], at |-> l])

(* Mutant: a report seen again does not move the time it was last seen.    *)
SelectedOnce(l, b) ==
    LET chosen == selected[b][SideOf(l, b)] IN
    IF Repeats(l, b) THEN chosen
    ELSE IF chosen = None \/ l > chosen.until
    THEN [id |-> Len(EvidenceWith(l, b)), until |-> l] ELSE chosen

\* The newest observation of the battle counts, whatever the order of saving.
SelectedWith(l, b) ==
    LET chosen == selected[b][SideOf(l, b)]
        id == IF Repeats(l, b) THEN chosen.id ELSE Len(EvidenceWith(l, b)) IN
    IF chosen = None \/ l > chosen.until THEN [id |-> id, until |-> l] ELSE chosen

(* _refresh_battle_disagreements: whether the two reports counted agree.   *)
Agreement(kept, chosen) ==
    IF \E s \in Sides : chosen[s] = None THEN "single_perspective"
    ELSE IF Cardinality({kept[s][chosen[s].id].value : s \in Sides}) = 1 THEN "agreed"
    ELSE "disagreement"

(* Mutant: only the first report of a side is a change.                    *)
ChangesFirst(l, b) == evidence[b][SideOf(l, b)] = <<>>

(* queue_for_battles: a battle this log added a report of that differs     *)
(* from that side's last kept one.                                         *)
Changes(l, b) ==
    LET kept == evidence[b][SideOf(l, b)] IN
    /\ ~Repeats(l, b)
    /\ kept = <<>> \/ kept[Len(kept)].value # rows[l][b]

SaveReports(w) ==
    LET l == lane[w].log
        B == DOMAIN rows[l]
        kept(b) == [evidence[b] EXCEPT ![SideOf(l, b)] = EvidenceWith(l, b)]
        chosen(b) == [selected[b] EXCEPT ![SideOf(l, b)] = SelectedWith(l, b)] IN
    /\ l # None /\ lane[w].saved = None /\ Wanted(w) = {}
    /\ lane' = [lane EXCEPT ![w].saved =
        [b \in B |-> [kept |-> kept(b)[SideOf(l, b)],
                      chosen |-> chosen(b)[SideOf(l, b)],
                      agreement |-> Agreement(kept(b), chosen(b)),
                      changed |-> Changes(l, b)
                                  \/ Agreement(kept(b), chosen(b)) # agreement[b]]]]
    /\ UNCHANGED <<rows, status, evidence, selected, agreement, queued>>

Commit(w) ==
    LET l == lane[w].log
        saved == lane[w].saved
        B == DOMAIN saved IN
    /\ saved # None
    /\ evidence' = [b \in Battles |->
        IF b \in B THEN [evidence[b] EXCEPT ![SideOf(l, b)] = saved[b].kept] ELSE evidence[b]]
    /\ selected' = [b \in Battles |->
        IF b \in B THEN [selected[b] EXCEPT ![SideOf(l, b)] = saved[b].chosen] ELSE selected[b]]
    /\ agreement' = [b \in Battles |-> IF b \in B THEN saved[b].agreement ELSE agreement[b]]
    /\ queued' = {b \in B : saved[b].changed}
    /\ status' = [status EXCEPT ![l] = "saved"]
    /\ lane' = [lane EXCEPT ![w] = Idle]
    /\ UNCHANGED rows

\* The transaction fails or its worker dies: the job is claimed again.
Rollback(w) ==
    /\ lane[w] # Idle
    /\ status' = [status EXCEPT ![lane[w].log] = "waiting"]
    /\ lane' = [lane EXCEPT ![w] = Idle]
    /\ UNCHANGED <<rows, evidence, selected, agreement, queued>>

Next ==
    \/ \E l \in Logs : Supersede(l)
    \/ \E w \in Workers, l \in Logs : Begin(w, l)
    \/ \E w \in Workers : LockBattle(w) \/ SaveReports(w) \/ Commit(w) \/ Rollback(w)

Spec == Init /\ [][Next]_vars

-----------------------------------------------------------------------------
Applied(b, s) == {l \in Logs : /\ Reporter[l] = Player(b, s) /\ b \in DOMAIN rows[l]
                               /\ status[l] \in {"saved", "superseded"}}
Counted(b, s) == IF selected[b][s] = None THEN None ELSE evidence[b][s][selected[b][s].id].value

(* Whatever the order the logs are applied in and whichever are skipped,   *)
(* each side of a battle counts with the report of the newest log applied  *)
(* or skipped that holds it (supersede_battle_log, the perspective upsert  *)
(* of complete_battle_log).                                                *)
NewestCounts ==
    \A b \in Battles, s \in Sides :
        Counted(b, s) = IF Applied(b, s) = {} THEN None ELSE rows[Max(Applied(b, s))][b]

(* The stored agreement of a battle is that of the two reports it counts   *)
(* with, although each side's log writes it from its own transaction       *)
(* (_save_battles, _refresh_battle_disagreements).                         *)
AgreementHolds ==
    \A b \in Battles : agreement[b] = Agreement(evidence[b], selected[b])

(* Both sides of every battle count with their newest reports, and the      *)
(* stored agreement is that of those reports.                               *)
ReportsCount == NewestCounts /\ AgreementHolds

(* A commit that changes what a side of a battle counts with, or whether  *)
(* its reports agree, queues the ended days of its players: "New evidence   *)
(* for a player queues a recheck of each ended day it can change"           *)
(* (queue_refresh.py:1).  The code misses one change: a report equal to the *)
(* side's last kept one that is not the one the side counted with.          *)
LastKept(b, s) == evidence[b][s][Len(evidence[b][s])].value

Requeued ==
    \A b \in Battles :
        (\/ agreement'[b] # agreement[b]
         \/ \E s \in Sides : /\ Counted(b, s)' # Counted(b, s)
                             /\ Counted(b, s) # None => Counted(b, s)' # LastKept(b, s))
        => b \in queued'
ChangeQueuesDays == [][Requeued]_vars
=============================================================================
