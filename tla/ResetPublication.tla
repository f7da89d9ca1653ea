-------------------------- MODULE ResetPublication --------------------------
(***************************************************************************)
(* The publication of one Reset: its generations and their members, the    *)
(* results the workers record under the shared or full publication lock,   *)
(* the frozen inputs of the board and of the army results, their builds,   *)
(* the corrections that replace a generation, and the check that starts    *)
(* what was left behind (boundary.py, boundary_publication.py,             *)
(* boundary_members.py, board_deadline.py, boundary_manifest.py,           *)
(* reset_baselines.py, snapshots.py, army_ingestion.py).                   *)
(*                                                                         *)
(* A transaction under the full lock is one step, taken when no            *)
(* transaction shares the lock.  Finished corrections leave the list.      *)
(***************************************************************************)
EXTENDS Integers, Sequences, FiniteSets, SequencesExt

CONSTANTS
    Players,
    Sweeps,     \* whom the sweep may find: collector_reset_sweeps.member_ids
    OpenTail,       \* OPEN_GENERATION_TAIL
    Lanes,      \* transactions that can write member results at once
    MaxEvents,  \* bound: changes, failures and holds beyond the first results
    None

ASSUME ResetConstants ==
    /\ Sweeps \subseteq SUBSET Players /\ IsFiniteSet(Players)
    /\ OpenTail \in Nat /\ Lanes \in Nat /\ Lanes <= OpenTail /\ MaxEvents \in Nat
    /\ \A D \in SUBSET Players :
        None \notin [D -> Nat] /\ None \notin [D -> [ver : Nat, decodes : Nat]]

VARIABLES
    tracked,     \* the members the sweep takes
    swept,       \* the sweep is saved
    saved,       \* committed day versions, army readings, players below Legend I
    due,         \* players whose day waits for its calculation
    failed,      \* players whose day calculation failed for good
    unread,      \* swept players whose Reset reading is open
    gens,        \* boundary_publication_generations, with members and manifests
    corrections, \* boundary_publication_corrections not finalized
    sharing,     \* transactions that share the publication lock
    gate,        \* what a repair, the pacing and the clock let start
    board,       \* the published board: whom it ranks, by which version
    armies,      \* the published army results
    events

facts == <<tracked, swept, saved, due, failed, unread>>
publication == <<gens, corrections>>
shown == <<board, armies>>
vars == <<facts, publication, shown, sharing, gate, events>>

Both == {"snapshot", "army"}
Gates == {"open", "paced", "quiet", "held"}
Artifact == {"pending", "ready", "building", "published", "superseded"}
Status == {"pending", "counted", "out"}
Kinds == {"day", "read", "unreadable", "leave", "decode"}
Pub == [gens |-> gens, corrections |-> corrections]

-----------------------------------------------------------------------------
(* Members and their results.                                              *)

\* The board's members now: boundary_members.board_members.
BoardMembers(f) == {p \in tracked : p \notin f.below}
                   \cup {p \in Players : p \notin f.below /\ f.day[p] > 0}

\* boundary._boundary_army_status of a member with that board status.
ArmyStatus(p, snap, f) == IF snap = "counted" /\ f.decodes[p] = 0 THEN "pending" ELSE snap

\* A member with the result of one saved day version; 0 waits for its day.
Result(p, v, f) == LET snap == IF v = 0 THEN "pending" ELSE "counted"
                   IN  [ver |-> v, snap |-> snap, army |-> ArmyStatus(p, snap, f)]

LeftOut(m) == [m EXCEPT !.snap = "out", !.army = "out"]

Waiting(g) == {p \in DOMAIN g.members : g.members[p].snap = "pending"}
ArmyWaiting(g) == {p \in DOMAIN g.members : g.members[p].army = "pending"}

\* Mutant: a rebuild forgets the results its source recorded.
CopiedAnew(gs, i, f) ==
    [p \in BoardMembers(f) |-> IF i # 0 /\ p \in DOMAIN gs[i].members THEN Result(p, 0, f)
        ELSE Result(p, IF i = 0 /\ p \in tracked THEN 0 ELSE f.day[p], f)]

\* Mutant: a rebuild copies the first generation's results.
CopiedFromFirst(gs, i, f) ==
    [p \in BoardMembers(f) |-> IF i # 0 /\ p \in DOMAIN gs[1].members THEN gs[1].members[p]
        ELSE Result(p, IF i = 0 /\ p \in tracked THEN 0 ELSE f.day[p], f)]

\* boundary_members.copy_members: members kept from generation i keep their
\* results, swept members of a first one wait, others take their saved day.
Copied(gs, i, f) ==
    [p \in BoardMembers(f) |-> IF i # 0 /\ p \in DOMAIN gs[i].members THEN gs[i].members[p]
        ELSE Result(p, IF i = 0 /\ p \in tracked THEN 0 ELSE f.day[p], f)]

Given(inputs, p) == {k \in 1 .. Len(inputs) : inputs[k].player = p}

\* The inputs' day of p: the newest decides.
Newest(inputs, p) ==
    inputs[CHOOSE k \in Given(inputs, p) : \A j \in Given(inputs, p) : j <= k].ver

\* The members after a correction's inputs.
WithInputs(ms, inputs, f) ==
    [p \in DOMAIN ms |-> IF Given(inputs, p) = {} THEN ms[p]
                         ELSE Result(p, Newest(inputs, p), f)]

NewGeneration(source, affected, corr, ms) ==
    [snap |-> "pending", army |-> "pending", corr |-> corr, affected |-> affected,
     source |-> source, members |-> ms, ranked |-> None, read |-> None,
     statistics |-> FALSE, armies |-> FALSE, failed |-> {}]

\* The newest generation with nothing superseded; 0 when there is none.
Current(gs) ==
    LET alive == {i \in 1 .. Len(gs) : gs[i].snap # "superseded" /\ gs[i].army # "superseded"}
    IN  IF alive = {} THEN 0 ELSE CHOOSE i \in alive : \A j \in alive : j <= i

Frozen(g) == {kind \in Both : IF kind = "snapshot" THEN g.ranked # None ELSE g.read # None}
Published(g) == g.snap = "published" /\ g.army = "published"
Unfinished(g) == g.snap \in {"pending", "ready", "building"} \/ g.army \in {"pending", "ready"}
Open(g) == g.snap = "pending" /\ g.army = "pending" /\ g.corr = "none" /\ Frozen(g) = {}
Affects(g, kind) == g.affected = {} \/ kind \in g.affected

-----------------------------------------------------------------------------
(* Starting and replacing generations, under the full lock.  gs and cs are *)
(* the generations and the corrections, f the saved facts, t the gate.     *)

\* boundary._inherit_deferred_army_successor_snapshot.
Inherited(gs, i) ==
    LET g == gs[i]
    IN  IF /\ g.snap = "pending" /\ g.affected = {"army"} /\ g.source # 0 /\ g.ranked = None
           /\ gs[g.source].snap \in {"published", "superseded"} /\ gs[g.source].statistics
        THEN [gs EXCEPT ![i].snap = "published", ![i].statistics = TRUE,
                        ![i].ranked = gs[g.source].ranked]
        ELSE gs

Readied(g) ==
    [g EXCEPT !.snap = IF @ = "pending" /\ Waiting(g) = {} THEN "ready" ELSE @,
              !.army = IF @ = "pending" /\ ArmyWaiting(g) = {} THEN "ready" ELSE @]

\* boundary_manifest._freeze of the board: whom it ranks, by which version.
WithBoard(g, f) ==
    IF Waiting(g) = {} /\ g.snap = "ready" /\ Affects(g, "snapshot") /\ g.ranked = None
    THEN [g EXCEPT !.ranked =
            [p \in {q \in DOMAIN g.members : g.members[q].snap = "counted" /\ q \notin f.below}
                |-> g.members[p].ver]]
    ELSE g

\* Mutant: the army results read the newest day, not the generation's.
WithNewestArmies(g, f) ==
    IF /\ ArmyWaiting(g) = {} /\ g.army = "ready" /\ Affects(g, "army")
       /\ ~(Affects(g, "snapshot") /\ g.snap = "ready")
    THEN [g EXCEPT !.failed = @ \ {"waiting"},
                   !.read = IF @ # None THEN @ ELSE
                       [p \in {q \in DOMAIN g.members : g.members[q].ver > 0}
                           |-> [ver |-> f.day[p], decodes |-> f.decodes[p]]]]
    ELSE g

\* ... and of the army results: each day's version and its decodes now.
\* The board's build comes first.
WithArmies(g, f) ==
    IF /\ ArmyWaiting(g) = {} /\ g.army = "ready" /\ Affects(g, "army")
       /\ ~(Affects(g, "snapshot") /\ g.snap = "ready")
    THEN [g EXCEPT !.failed = @ \ {"waiting"},
                   !.read = IF @ # None THEN @ ELSE
                       [p \in {q \in DOMAIN g.members : g.members[q].ver > 0}
                           |-> [ver |-> g.members[p].ver, decodes |-> f.decodes[p]]]]
    ELSE g

\* boundary._try_enqueue_boundary_artifacts; army in the background check.
TryEnqueue(gs, i, army, f, t) ==
    LET next == Inherited(gs, i)
        ready == WithBoard(Readied(next[i]), f)
    IN  IF t = "held" THEN gs
        ELSE IF t = "quiet" THEN next
        ELSE [next EXCEPT ![i] = IF army THEN WithArmies(ready, f) ELSE ready]

Queued(cs, i) == {k \in 1 .. Len(cs) : cs[k].state = "queued" /\ cs[k].source = i}

\* Mutant: every change queues a correction of its own.
QueueAnew(cs, i, affected, inputs) ==
    Append(cs, [source |-> i, gen |-> 0, affected |-> affected,
                inputs |-> inputs, state |-> "queued"])

\* One correction waits on a generation; later changes coalesce into it.
Queue(cs, i, affected, inputs) ==
    IF Queued(cs, i) = {}
    THEN Append(cs, [source |-> i, gen |-> 0, affected |-> affected,
                     inputs |-> inputs, state |-> "queued"])
    ELSE [k \in 1 .. Len(cs) |-> IF k \in Queued(cs, i)
            THEN [cs[k] EXCEPT !.affected = @ \cup affected, !.inputs = @ \o inputs]
            ELSE cs[k]]

Active(i, n, affected) ==
    [source |-> i, gen |-> n, affected |-> affected, inputs |-> <<>>, state |-> "active"]

Replaced(gs, i) ==
    [gs EXCEPT ![i].snap = "superseded", ![i].army = "superseded", ![i].corr = "finalized"]

\* The corrections without the one generation i was: finalized.  A Reset has one
\* active correction (boundary_publication_one_active_correction).
Finalized(cs, i) ==
    LET at == {k \in 1 .. Len(cs) : cs[k].state = "active" /\ cs[k].gen = i}
    IN  IF at = {} THEN cs ELSE RemoveAt(cs, CHOOSE k \in at : TRUE)

\* boundary._supersede_generation: a replacement of both artifacts.
Supersede(gs, cs, i, inputs, f) ==
    LET n == Len(gs) + 1
        kept == Finalized(cs, i)
    IN  [gens |-> Append(Replaced(gs, i),
                    NewGeneration(i, Both, "active", WithInputs(Copied(gs, i, f), inputs, f))),
         corrections |-> Append([k \in 1 .. Len(kept) |->
                             IF kept[k].state = "queued" /\ kept[k].source = i
                             THEN [kept[k] EXCEPT !.source = n] ELSE kept[k]],
                         Active(i, n, Both))]

\* The generation that the waiting correction c starts from generation i: it keeps
\* the artifact the correction does not affect.
Successor(gs, i, c, f) ==
    LET fresh == NewGeneration(i, c.affected, "active", WithInputs(Copied(gs, i, f), c.inputs, f))
        kept == IF "snapshot" \in c.affected THEN fresh
                ELSE [fresh EXCEPT !.snap = gs[i].snap, !.ranked = gs[i].ranked,
                                   !.statistics = gs[i].statistics]
    IN  IF "army" \in c.affected THEN kept
        ELSE [kept EXCEPT !.army = gs[i].army, !.read = gs[i].read, !.armies = gs[i].armies]

\* boundary_publication._maybe_emit_boundary_signal: generation i is whole;
\* the oldest waiting correction starts from it, unless it must wait.
Emit(gs, cs, i, army, f, t) ==
    LET done == [gs EXCEPT ![i].corr = "finalized"]
        left == Finalized(cs, i)
        waiting == {k \in 1 .. Len(left) : left[k].state = "queued"}
        k == CHOOSE j \in waiting : \A l \in waiting : j <= l
        n == Len(gs) + 1
    IN  IF ~(gs[i].statistics /\ gs[i].armies) THEN [gens |-> gs, corrections |-> cs]
        ELSE IF t # "open" \/ waiting = {} THEN [gens |-> done, corrections |-> left]
        ELSE [gens |-> TryEnqueue(Append(done, Successor(done, i, left[k], f)), n, army, f, t),
              corrections |-> [left EXCEPT ![k].state = "active", ![k].gen = n]]

\* The first generation, created by whichever result first needs it.
Begun(gs, f) == IF gs = <<>> THEN <<NewGeneration(0, {}, "none", Copied(gs, 0, f))>> ELSE gs

-----------------------------------------------------------------------------
(* What each result does to the publication.  full: under the full lock.   *)

\* Set player p's result in generation i, and start what it leaves ready.
Settle(gs, i, p, m, full, f, t) ==
    LET next == IF p \in DOMAIN gs[i].members THEN [gs EXCEPT ![i].members[p] = m] ELSE gs
    IN  IF full THEN TryEnqueue(next, i, FALSE, f, t) ELSE next

\* boundary._record_boundary_generation: the changed day version of p.
RecordDay(p, full, f, t) ==
    LET gs == Begun(gens, f)
        i == Current(gs)
        g == gs[i]
        m == Result(p, f.day[p], f)
        joins == p \notin DOMAIN g.members
        active == g.corr = "active"
        frozen == IF Frozen(g) = {} /\ (active \/ ~joins) THEN {} ELSE Both
        fullyPublished == Published(g) /\ Queued(corrections, i) = {} /\ t = "open"
        with == {"snapshot"}
    IN  CASE p \notin BoardMembers(f) -> Pub
          [] p \in BoardMembers(f) /\ active /\ frozen = {} ->
                LET wider == [gs EXCEPT ![i].affected = @ \cup with]
                IN  [gens |-> Settle(wider, i, p, m, full, f, t),
                     corrections |-> [k \in 1 .. Len(corrections) |->
                        IF corrections[k].state = "active" /\ corrections[k].gen = i
                        THEN [corrections[k] EXCEPT !.affected = @ \cup with]
                        ELSE corrections[k]]]
          [] p \in BoardMembers(f) /\ frozen # {} /\ (active \/ ~fullyPublished) ->
                [gens |-> gs, corrections |->
                    Queue(corrections, i, frozen, <<[player |-> p, ver |-> f.day[p]]>>)]
          [] p \in BoardMembers(f) /\ frozen # {} /\ ~active /\ fullyPublished ->
                LET pub == Supersede(gs, corrections, i, <<[player |-> p, ver |-> f.day[p]]>>, f)
                IN  [pub EXCEPT !.gens = Settle(@, Len(@), p, m, full, f, t)]
          [] OTHER ->
                [gens |-> Settle(gs, i, p, m, full, f, t), corrections |-> corrections]

\* reset_baselines._record_boundary_baseline: always generation 1.
RecordReading(p, complete, full, f, t) ==
    LET gs == Begun(gens, f)
        m == gs[1].members[p]
        after == IF complete THEN Result(p, m.ver, f) ELSE LeftOut(m)
    IN  IF gs[1].snap = "superseded" /\ gs[1].army = "superseded" THEN Pub
        ELSE [gens |-> Settle(gs, 1, p, IF p \in DOMAIN gs[1].members THEN after ELSE None,
                              full, f, t),
              corrections |-> corrections]

\* boundary_members.leave: p's week left Legend I.
RecordLeave(p, full, f, t) ==
    LET i == Current(gens)
        g == gens[i]
    IN  IF i = 0 THEN Pub
        ELSE IF p \notin DOMAIN g.members THEN Pub
        ELSE IF Frozen(g) = {}
        THEN [gens |-> Settle(gens, i, p,
                IF g.members[p].snap = "pending" THEN LeftOut(g.members[p]) ELSE g.members[p],
                full, f, t),
              corrections |-> corrections]
        ELSE [gens |-> gens, corrections |-> Queue(corrections, i, Both, <<>>)]

\* boundary_publication._queue_boundary_army_correction, inheritance deferred.
CorrectArmies(gs, cs, i, f, t) ==
    IF Queued(cs, i) = {} /\ Published(gs[i]) /\ t = "open"
    THEN [gens |-> Append(Replaced(gs, i),
                    NewGeneration(i, {"army"}, "active", Copied(gs, i, f))),
          corrections |-> Append(cs, Active(i, Len(gs) + 1, {"army"}))]
    ELSE [gens |-> gs, corrections |-> Queue(cs, i, {"army"}, <<>>)]

\* boundary_publication._enqueue_army_analytics: p's decodes changed.
RecordDecode(p, full, f, t) ==
    LET i == Current(gens)
        g == gens[i]
        m == g.members[p]
        refreshed == IF p \in DOMAIN g.members /\ m.ver > 0
                     THEN [gens EXCEPT ![i].members[p].army = ArmyStatus(p, m.snap, f)]
                     ELSE gens
        stale == /\ g.army \in {"ready", "published"} /\ g.read # None
                 /\ p \in DOMAIN g.read /\ g.read[p].decodes # f.decodes[p]
        pub == IF stale THEN CorrectArmies(refreshed, corrections, i, f, t)
               ELSE [gens |-> refreshed, corrections |-> corrections]
    IN  IF i = 0 THEN Pub
        ELSE IF full THEN [pub EXCEPT !.gens = TryEnqueue(@, i, FALSE, f, t)] ELSE pub

\* The saved facts once a transaction of that kind commits.
Saved(kind, p) ==
    CASE kind = "day" -> [saved EXCEPT !.day[p] = @ + 1]
      [] kind = "decode" -> [saved EXCEPT !.decodes[p] = @ + 1]
      [] kind = "leave" -> [saved EXCEPT !.below = @ \cup {p}]
      [] OTHER -> saved

Recorded(kind, p, full) ==
    LET f == Saved(kind, p)
    IN  CASE kind = "day" -> RecordDay(p, full, f, gate)
          [] kind = "read" -> RecordReading(p, TRUE, full, f, gate)
          [] kind = "unreadable" -> RecordReading(p, FALSE, full, f, gate)
          [] kind = "leave" -> RecordLeave(p, full, f, gate)
          [] kind = "decode" -> RecordDecode(p, full, f, gate)

-----------------------------------------------------------------------------
(* The transactions that record a result.                                  *)

\* Mutant: the full lock does not wait for those that share it.
UnsharedAlways == TRUE

\* The full lock waits for those that share it.
Unshared == sharing = {}

Written(result) ==
    \E pub \in {result} : gens' = pub.gens /\ corrections' = pub.corrections

CanStart(kind, p) ==
    /\ \A tx \in sharing : tx.player # p
    /\ CASE kind = "day" -> p \in due
         [] kind \in {"read", "unreadable"} -> p \in unread
         [] kind = "leave" -> p \notin saved.below
         [] kind = "decode" -> TRUE

\* First results are free; a player who leaves or a battle decoded again is a change.
Spend(n) == events' = events + n /\ events + n <= MaxEvents

Cost(kind, p) == IF kind = "leave" \/ (kind = "decode" /\ saved.decodes[p] > 0) THEN 1 ELSE 0

\* boundary.lock_boundary_members: member results share the lock while the
\* newest generation is open and more than the tail wait.
MayShare(gs) ==
    LET i == Current(gs)
    IN  i # 0 /\ Open(gs[i]) /\ Cardinality(Waiting(gs[i])) > OpenTail

FullLock == swept /\ Unshared /\ ~MayShare(gens)

\* What a committed transaction leaves of the work it did.
Done(kind, p) ==
    /\ saved' = Saved(kind, p)
    /\ due' = IF kind = "day" THEN due \ {p}
              ELSE IF kind \in {"read", "unreadable"} THEN due \cup {p} ELSE due
    /\ unread' = IF kind \in {"read", "unreadable"} THEN unread \ {p} ELSE unread

Start(kind, p) ==
    /\ swept /\ MayShare(gens) /\ CanStart(kind, p)
    /\ Cardinality(sharing) < Lanes
    /\ Spend(Cost(kind, p))
    /\ sharing' = sharing \cup {[kind |-> kind, player |-> p]}
    /\ UNCHANGED <<facts, publication, shown, gate>>

\* A player who would join gives up under the shared lock and tries again.
Commit(kind, p) ==
    /\ [kind |-> kind, player |-> p] \in sharing
    /\ sharing' = sharing \ {[kind |-> kind, player |-> p]}
    /\ IF /\ kind = "day" /\ p \in BoardMembers(Saved(kind, p))
          /\ p \notin DOMAIN gens[Current(gens)].members
       THEN UNCHANGED <<facts, publication>>
       ELSE /\ Done(kind, p)
            /\ Written(Recorded(kind, p, FALSE))
            /\ UNCHANGED <<tracked, swept, failed>>
    /\ UNCHANGED <<shown, gate, events>>

Full(kind, p) ==
    /\ FullLock /\ CanStart(kind, p)
    /\ Spend(Cost(kind, p))
    /\ Done(kind, p)
    /\ Written(Recorded(kind, p, TRUE))
    /\ UNCHANGED <<tracked, swept, failed, shown, sharing, gate>>

-----------------------------------------------------------------------------
(* Before the sweep.                                                       *)

\* A swept player's last day waits for the Reset's reading; others' are
\* calculated whenever, and record nothing while nothing is swept.
SaveEarlier(p) ==
    /\ ~swept /\ p \in due \ tracked
    /\ Done("day", p)
    /\ UNCHANGED <<tracked, swept, failed, publication, shown, sharing, gate, events>>

\* boundary.lock_boundary_publication_once_swept: decodes share the lock.
StartEarlier(p) ==
    /\ ~swept /\ saved.decodes[p] = 0 /\ CanStart("decode", p) /\ Cardinality(sharing) < Lanes
    /\ sharing' = sharing \cup {[kind |-> "early", player |-> p]}
    /\ UNCHANGED <<facts, publication, shown, gate, events>>

CommitEarlier(p) ==
    /\ [kind |-> "early", player |-> p] \in sharing
    /\ sharing' = sharing \ {[kind |-> "early", player |-> p]}
    /\ Done("decode", p)
    /\ UNCHANGED <<tracked, swept, failed, publication, shown, gate, events>>

Sweep ==
    /\ ~swept
    /\ swept' = TRUE /\ unread' = tracked
    /\ UNCHANGED <<tracked, saved, due, failed, publication, shown, sharing, gate, events>>

-----------------------------------------------------------------------------
(* Builds.  Each takes the full lock before it writes the generation.      *)

BuildBoard(i) ==
    /\ Unshared /\ gens[i].snap = "ready" /\ gens[i].ranked # None
    /\ "board" \notin gens[i].failed
    /\ gens' = [gens EXCEPT ![i].snap = "building"]
    /\ board' = gens[i].ranked
    /\ UNCHANGED <<facts, corrections, armies, sharing, gate, events>>

BuildStatistics(i) ==
    /\ Unshared /\ gens[i].snap = "building" /\ "statistics" \notin gens[i].failed
    /\ Written(Emit([gens EXCEPT ![i].snap = "published", ![i].statistics = TRUE],
                  corrections, i, FALSE, saved, gate))
    /\ UNCHANGED <<facts, shown, sharing, gate, events>>

\* It gives up while a member's army status is pending.
BuildArmies(i) ==
    /\ Unshared /\ gens[i].army = "ready" /\ gens[i].read # None
    /\ gens[i].failed \cap {"army", "waiting"} = {}
    /\ IF ArmyWaiting(gens[i]) # {}
       THEN gens' = [gens EXCEPT ![i].failed = @ \cup {"waiting"}] /\ UNCHANGED <<corrections, armies>>
       ELSE /\ Written(Emit([gens EXCEPT ![i].army = "published", ![i].armies = TRUE],
                          corrections, i, FALSE, saved, gate))
            /\ armies' = gens[i].read
    /\ UNCHANGED <<facts, board, sharing, gate, events>>

\* One error fails a build for good; the background check queues it again.
FailBuild(i) ==
    /\ \E kind \in {"board", "statistics", "army"} :
        /\ CASE kind = "board" -> gens[i].snap = "ready" /\ gens[i].ranked # None
             [] kind = "statistics" -> gens[i].snap = "building"
             [] kind = "army" -> gens[i].army = "ready" /\ gens[i].read # None
        /\ kind \notin gens[i].failed
        /\ gens' = [gens EXCEPT ![i].failed = @ \cup {kind}]
    /\ Spend(1)
    /\ UNCHANGED <<facts, corrections, shown, sharing, gate>>

-----------------------------------------------------------------------------
(* The background check of one Reset.                                      *)

\* Army statuses checked again: on a board whose army is ready, or old.
Rechecked(g, f, old) ==
    IF g.army = "ready" \/ (g.army = "pending" /\ old)
    THEN [g EXCEPT !.members = [p \in DOMAIN @ |->
            LET m == g.members[p]
            IN  IF m.army = "pending" /\ m.ver > 0
                THEN [m EXCEPT !.army = ArmyStatus(p, m.snap, f)] ELSE m]]
    ELSE g

\* board_deadline.settle_waiting_members; cut: the deadline has come.
SettledWaiting(g, gs, f, lost, cut) ==
    LET taken == [p \in DOMAIN g.members |->
                    IF g.source # 0 /\ g.members[p].snap = "pending" /\ g.members[p].ver = 0
                       /\ f.day[p] > 0
                    THEN Result(p, f.day[p], f) ELSE g.members[p]]
        unpublished == \A j \in 1 .. Len(gs) : gs[j].snap # "published"
    IN  IF g.snap # "pending" \/ g.ranked # None THEN g
        ELSE [g EXCEPT !.members = [p \in DOMAIN @ |->
                IF taken[p].snap = "pending" /\ (p \in lost \/ (cut /\ unpublished))
                THEN LeftOut(taken[p]) ELSE taken[p]]]

\* Mutant: only the board is built again.
RetriedBoard(g, t) ==
    IF t \in {"held", "quiet"} THEN g ELSE [g EXCEPT !.failed = @ \ {"board", "statistics"}]

\* board_deadline.retry_failed_build.
Retried(g, t) ==
    IF t \in {"held", "quiet"} THEN g
    ELSE [g EXCEPT !.failed = @ \ IF ArmyWaiting(g) = {} THEN {"board", "statistics", "army"}
                                  ELSE {"board", "statistics"}]

\* boundary_publication._reevaluate_boundary.
Reevaluate(cut, old) ==
    LET i == Len(gens)
        unfinished == i > 0 /\ Unfinished(gens[i])
        settled == [gens EXCEPT ![i] =
                        SettledWaiting(Rechecked(gens[i], saved, old), gens, saved, failed, cut)]
        tried == TryEnqueue(settled, i, TRUE, saved, gate)
        checked == IF unfinished THEN [tried EXCEPT ![i] = Retried(tried[i], gate)] ELSE gens
        waiting == {k \in 1 .. Len(corrections) : corrections[k].state = "queued"}
        first == CHOOSE k \in waiting : \A j \in waiting : k <= j
    IN  /\ Unshared /\ (unfinished \/ waiting # {})
        /\ Written(IF waiting # {} /\ gate = "open"
                 THEN Emit(checked, corrections, corrections[first].source, TRUE, saved, gate)
                 ELSE [gens |-> checked, corrections |-> corrections])
        /\ UNCHANGED <<facts, shown, sharing, gate, events>>

-----------------------------------------------------------------------------
(* What else happens.                                                      *)

\* A saved battle or repair has p's day calculated again.
Change(p) ==
    /\ swept /\ p \notin due /\ saved.day[p] > 0
    /\ Spend(1)
    /\ due' = due \cup {p}
    /\ UNCHANGED <<tracked, swept, saved, failed, unread, publication, shown, sharing, gate>>

FailDay(p) ==
    /\ swept /\ p \in due /\ \A tx \in sharing : tx.player # p
    /\ Spend(1)
    /\ due' = due \ {p} /\ failed' = failed \cup {p}
    /\ UNCHANGED <<tracked, swept, saved, unread, publication, shown, sharing, gate>>

\* boundary.queue_board_rebuilds, of a frozen board or of one to inherit.
QueueRebuild ==
    LET i == Current(gens)
    IN  /\ Unshared /\ i # 0
        /\ gens[i].ranked # None
           \/ (gens[i].source # 0 /\ gens[i].snap = "pending" /\ gens[i].affected = {"army"}
               /\ gens[gens[i].source].ranked # None)
        /\ Spend(1)
        /\ corrections' = Queue(corrections, i, Both, <<>>)
        /\ UNCHANGED <<facts, gens, shown, sharing, gate>>

\* boundary.queue_army_corrections.
QueueArmyCorrection ==
    LET i == Current(gens)
    IN  /\ Unshared /\ i # 0
        /\ gens[i].army = "published" /\ Queued(corrections, i) = {}
        /\ Spend(1)
        /\ corrections' = Queue(corrections, i, {"army"}, <<>>)
        /\ UNCHANGED <<facts, gens, shown, sharing, gate>>

Hold(t) ==
    /\ gate = "open" /\ t # "open" /\ Spend(1) /\ gate' = t
    /\ UNCHANGED <<facts, publication, shown, sharing>>

Release ==
    /\ gate # "open" /\ gate' = "open"
    /\ UNCHANGED <<facts, publication, shown, sharing, events>>

Init ==
    /\ tracked \in Sweeps /\ swept = FALSE
    /\ saved = [day |-> [p \in Players |-> 0], decodes |-> [p \in Players |-> 0], below |-> {}]
    /\ due = Players \ tracked /\ failed = {} /\ unread = {}
    /\ gens = <<>> /\ corrections = <<>> /\ sharing = {} /\ gate = "open"
    /\ board = None /\ armies = None
    /\ events = 0

Next ==
    \/ \E p \in Players : SaveEarlier(p) \/ StartEarlier(p) \/ CommitEarlier(p)
    \/ Sweep
    \/ \E kind \in Kinds, p \in Players : Start(kind, p) \/ Commit(kind, p) \/ Full(kind, p)
    \/ \E i \in 1 .. Len(gens) :
            BuildBoard(i) \/ BuildStatistics(i) \/ BuildArmies(i) \/ FailBuild(i)
    \/ \E cut, old \in BOOLEAN : Reevaluate(cut, old)
    \/ \E p \in Players : Change(p) \/ FailDay(p)
    \/ QueueRebuild \/ QueueArmyCorrection
    \/ \E t \in Gates : Hold(t)
    \/ Release

Spec == Init /\ [][Next]_vars

\* The sweep and a hold end, the pool takes results, first decodes and
\* builds, and the check runs each pass, past the deadline and a day.
Work ==
    \/ Sweep \/ Release
    \/ \E p \in Players :
        \/ SaveEarlier(p) \/ CommitEarlier(p)
        \/ \E kind \in Kinds : Commit(kind, p)
        \/ \E kind \in {"day", "read"} : Start(kind, p) \/ Full(kind, p)
        \/ saved.decodes[p] = 0 /\ (Start("decode", p) \/ Full("decode", p))
    \/ \E i \in 1 .. Len(gens) : BuildBoard(i) \/ BuildStatistics(i) \/ BuildArmies(i)
    \/ Reevaluate(TRUE, TRUE)

\* The service does not stop while any of it is left to do.
Fair == WF_vars(Work)

FairSpec == Spec /\ Fair

-----------------------------------------------------------------------------
(* Properties.                                                             *)

GenerationOK(g) ==
    /\ g.snap \in Artifact /\ g.army \in Artifact \ {"building"}
    /\ g.corr \in {"none", "active", "finalized"} /\ g.affected \subseteq Both
    /\ g.source \in 0 .. Len(gens)
    /\ DOMAIN g.members \subseteq Players
    /\ \A p \in DOMAIN g.members :
        /\ g.members[p].ver \in 0 .. saved.day[p]
        /\ g.members[p].snap \in Status /\ g.members[p].army \in Status
    /\ g.ranked # None => \A p \in DOMAIN g.ranked : g.ranked[p] \in 1 .. saved.day[p]
    /\ g.read # None => \A p \in DOMAIN g.read : g.read[p].decodes \in 0 .. saved.decodes[p]
    /\ g.statistics \in BOOLEAN /\ g.armies \in BOOLEAN
    /\ g.failed \subseteq {"board", "statistics", "army", "waiting"}

\* Every variable has its type; no generation holds a day not saved.
TypeOK ==
    /\ tracked \in Sweeps /\ swept \in BOOLEAN /\ events \in 0 .. MaxEvents /\ gate \in Gates
    /\ saved.day \in [Players -> Nat] /\ saved.decodes \in [Players -> Nat]
    /\ saved.below \subseteq Players
    /\ due \subseteq Players /\ failed \subseteq Players /\ unread \subseteq tracked
    /\ sharing \subseteq [kind : Kinds \cup {"early"}, player : Players]
    /\ Cardinality(sharing) <= Lanes
    /\ \A i \in 1 .. Len(gens) : GenerationOK(gens[i])
    /\ \A k \in 1 .. Len(corrections) :
        /\ corrections[k].source \in 1 .. Len(gens) /\ corrections[k].gen \in 0 .. Len(gens)
        /\ corrections[k].affected \subseteq Both /\ corrections[k].state \in {"queued", "active"}

\* A Reset's generations follow one another: only the newest is unfinished or
\* under correction, by one active correction, and at most one more waits on
\* it, so no two rebuilds ever race for the next number.
OneAtATime ==
    LET n == Len(gens)
    IN  /\ TypeOK
        /\ \A i \in 1 .. n - 1 : ~Unfinished(gens[i]) /\ gens[i].corr = "finalized"
        /\ \A k \in 1 .. Len(corrections) :
            LET c == corrections[k]
            IN  IF c.state = "active" THEN c.gen = n /\ gens[n].corr = "active" ELSE c.source = n
        /\ \A k, l \in 1 .. Len(corrections) :
            corrections[k].state = corrections[l].state => k = l
        /\ n > 0 /\ gens[n].corr = "active" => \E k \in 1 .. Len(corrections) : corrections[k].gen = n

\* Results that share the lock only ever meet the open generation they were
\* let in for: nothing freezes, replaces or corrects it under them.
SharedSeesOpen ==
    (swept /\ \E tx \in sharing : tx.kind # "early") => (Current(gens) # 0 /\ Open(gens[Current(gens)]))

\* The day a waiting correction will give p: its newest input; 0 for none.
Promised(p) ==
    LET waiting == {k \in 1 .. Len(corrections) :
                        corrections[k].state = "queued" /\ Given(corrections[k].inputs, p) # {}}
    IN  IF waiting = {} THEN 0 ELSE Newest(corrections[CHOOSE k \in waiting : TRUE].inputs, p)

\* No member's newest saved day is ever lost between the member results, the
\* frozen inputs and the corrections: the newest generation holds it or a
\* waiting correction brings it.
NoResultLost ==
    LET i == Current(gens)
    IN  i # 0 => \A p \in DOMAIN gens[i].members \ saved.below :
                    saved.day[p] > 0 => saved.day[p] \in {gens[i].members[p].ver, Promised(p)}

\* A published generation's board and army results rest on the same days,
\* whichever of them it inherited; a board inherited from before a player left
\* Legend I may rank them without army results.
SameDays ==
    \A i \in 1 .. Len(gens) :
        LET g == gens[i]
        IN  Published(g) => \A p \in DOMAIN g.ranked \ saved.below :
                                p \in DOMAIN g.read /\ g.read[p].ver = g.ranked[p]

\* A member waits for armies only while a battle of their day is not decoded:
\* no decode commits unseen by the generation that counts it.
ArmyWaitHasCause ==
    LET i == Current(gens)
    IN  i # 0 => \A p \in DOMAIN gens[i].members :
                    (gens[i].members[p].army = "pending" /\ gens[i].members[p].snap = "counted")
                        => saved.decodes[p] = 0

\* The army results follow the days and the decodes of the board's members.
ArmiesFollowDays == SameDays /\ ArmyWaitHasCause

\* The step that leaves no member of the open first generation waiting
\* freezes the board, unless a repair or the quiet window holds it.
LastResultStartsBuild ==
    LET i == Current(gens)
    IN  /\ i # 0 /\ Open(gens[i]) /\ Waiting(gens[i]) # {} /\ Waiting(gens'[i]) = {}
        /\ gate \in {"open", "paced"}
        => gens'[i].ranked # None

\* Results may share the lock: none meets a generation that is no longer open,
\* and the last of them starts the build although none saw itself as the last.
SharedLockHolds == [][SharedSeesOpen' /\ LastResultStartsBuild]_vars

\* What is published never goes back to an older day of a player.
NeverOlder ==
    [][/\ board # None /\ board' # None
            => \A p \in DOMAIN board \cap DOMAIN board' : board'[p] >= board[p]
       /\ armies # None /\ armies' # None
            => \A p \in DOMAIN armies \cap DOMAIN armies' :
                    armies'[p].ver >= armies[p].ver /\ armies'[p].decodes >= armies[p].decodes]_vars

\* _record_boundary_generation's docstring: a player whose day is saved after
\* the members were taken joins, at once while nothing froze, else as a
\* changed member of a waiting correction.
LateDayJoins ==
    LET i == Current(gens)
    IN  i # 0 => \A p \in BoardMembers(saved) : saved.day[p] > 0 =>
                    \/ p \in DOMAIN gens[i].members
                    \/ \E k \in 1 .. Len(corrections) : corrections[k].state = "queued"

\* A Reset reading still open when the first board or army inputs froze.
ReadingIsLate == gens # <<>> /\ Frozen(gens[1]) # {} /\ unread # {}

\* The whole publication rests on the newest saved days and decodes.
AllShown ==
    LET i == Current(gens)
    IN  /\ i # 0 /\ Published(gens[i]) /\ corrections = <<>>
        /\ \A p \in BoardMembers(saved) : saved.day[p] > 0 =>
            /\ p \in DOMAIN board /\ board[p] = saved.day[p]
            /\ p \in DOMAIN armies
            /\ armies[p] = [ver |-> saved.day[p], decodes |-> saved.decodes[p]]

\* Whatever fails, waits or is held, the board and the army results come to
\* show every saved day and every decode of their members, unless a Reset
\* reading came after the first inputs froze.
EveryResultShown == [](~ReadingIsLate) => <>[]AllShown
=============================================================================
