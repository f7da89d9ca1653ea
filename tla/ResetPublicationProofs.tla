----------------------- MODULE ResetPublicationProofs -----------------------
(***************************************************************************)
(* Proofs about ResetPublication for any players, sweeps and limits.       *)
(*                                                                         *)
(* What a step does to the publication is built from a few operators of    *)
(* the generations, the corrections and the saved facts; each keeps Sound, *)
(* the invariant said of any such three, and a step only has to show that  *)
(* it may call them.  Sound says what a generation's statuses, inputs and  *)
(* results have to do with each other (GenOK), that the generations follow *)
(* one another and only the newest can be worked on (Linked), and that one *)
(* correction at most is under way and one waits on it (Corrected).        *)
(***************************************************************************)
EXTENDS ResetPublication, FiniteSetTheorems, SequenceTheorems,
    WellFoundedInduction, TLAPS

Member == [ver : Nat, snap : Status, army : Status]
Members == UNION {[D -> Member] : D \in SUBSET Players}
Ranks == UNION {[D -> Nat] : D \in SUBSET Players}
Reads == UNION {[D -> [ver : Nat, decodes : Nat]] : D \in SUBSET Players}

Generation ==
    [snap : Artifact, army : Artifact \ {"building"}, corr : {"none", "active", "finalized"},
     affected : SUBSET Both, source : Nat, members : Members, ranked : Ranks \cup {None},
     read : Reads \cup {None}, statistics : BOOLEAN, armies : BOOLEAN,
     failed : SUBSET {"board", "statistics", "army", "waiting"}]

Input == [player : Players, ver : Nat]
Correction ==
    [source : Nat, gen : Nat, affected : SUBSET Both, inputs : Seq(Input),
     state : {"queued", "active"}]

Facts == [day : [Players -> Nat], decodes : [Players -> Nat], below : SUBSET Players]

\* A member waits for their day, is counted by a saved day, or is left out.
MemberOK(m, newest) ==
    /\ m \in Member /\ m.ver <= newest
    /\ m.snap = "pending" => m.ver = 0 /\ m.army = "pending"
    /\ m.snap = "counted" => m.ver > 0 /\ m.army \in {"pending", "counted"}
    /\ m.snap = "out" => m.army = "out"

Ended(status) == status \in {"published", "superseded"}

\* An army correction that has still to take over its source's board.
ToInherit(g) == g.affected = {"army"} /\ g.source # 0 /\ g.snap = "pending"

\* One generation: what its statuses say of its inputs and of its builds.
GenBody(g, f) ==
    /\ g \in Generation
    /\ \A p \in DOMAIN g.members : MemberOK(g.members[p], f.day[p])
    /\ g.ranked # None => \A p \in DOMAIN g.ranked : g.ranked[p] \in 1 .. f.day[p]
    /\ g.read # None => \A p \in DOMAIN g.read :
                            g.read[p].ver \in 1 .. f.day[p] /\ g.read[p].decodes <= f.decodes[p]
    /\ g.statistics <=> Ended(g.snap)
    /\ g.armies <=> Ended(g.army)
    /\ g.snap = "pending" => g.ranked = None
    /\ g.snap \in {"building", "published", "superseded"} => g.ranked # None
    /\ g.army = "pending" => g.read = None
    /\ Ended(g.army) => g.read # None
    /\ ToInherit(g) => g.army = "pending"

\* ... and a correction ends with its generation's last build.
GenOK(g, f) == GenBody(g, f) /\ (g.corr = "active" => ~(g.statistics /\ g.armies))

\* One correction: what a waiting one brings are days already saved.
CorrectionOK(c, f) ==
    /\ c \in Correction
    /\ \A k \in 1 .. Len(c.inputs) : c.inputs[k].ver \in 1 .. f.day[c.inputs[k].player]
    /\ c.state = "queued" => c.gen = 0 /\ "army" \in c.affected

\* The generations follow one another: every one but the newest is whole and done
\* with; the newest is not replaced yet.
Linked(gs) ==
    /\ \A i \in 1 .. Len(gs) : gs[i].source = i - 1 /\ (gs[i].corr = "none" => i = 1)
    /\ \A i \in 1 .. Len(gs) - 1 : Ended(gs[i].snap) /\ Ended(gs[i].army) /\ gs[i].corr = "finalized"
    /\ Len(gs) > 0 => gs[Len(gs)].snap # "superseded" /\ gs[Len(gs)].army # "superseded"

\* One correction at most is under way, of the newest generation, and one waits on it.
Corrected(gs, cs) ==
    /\ \A k \in 1 .. Len(cs) :
        IF cs[k].state = "active" THEN cs[k].gen = Len(gs) /\ Len(gs) > 0 /\ gs[Len(gs)].corr = "active"
        ELSE cs[k].source = Len(gs)
    /\ \A k \in 1 .. Len(cs) : cs[k].source \in 1 .. Len(gs) /\ cs[k].gen \in 0 .. Len(gs)
    /\ \A k, l \in 1 .. Len(cs) : cs[k].state = cs[l].state => k = l
    /\ Len(gs) > 0 /\ gs[Len(gs)].corr = "active" => \E k \in 1 .. Len(cs) : cs[k].state = "active"

Sound(gs, cs, f) ==
    /\ f.day \in [Players -> Nat] /\ f.decodes \in [Players -> Nat] /\ f.below \subseteq Players
    /\ gs \in Seq(Generation) /\ cs \in Seq(Correction)
    /\ \A i \in 1 .. Len(gs) : GenOK(gs[i], f)
    /\ \A k \in 1 .. Len(cs) : CorrectionOK(cs[k], f)
    /\ Linked(gs)
    /\ Corrected(gs, cs)

Transactions == [kind : Kinds \cup {"early"}, player : Players]

\* The inductive invariant of OneAtATime.
OneInv ==
    /\ saved \in Facts /\ Sound(gens, corrections, saved)
    /\ tracked \in Sweeps /\ swept \in BOOLEAN /\ events \in 0 .. MaxEvents /\ gate \in Gates
    /\ due \subseteq Players /\ failed \subseteq Players /\ unread \subseteq tracked
    /\ sharing \subseteq Transactions /\ IsFiniteSet(sharing) /\ Cardinality(sharing) <= Lanes
    /\ swept \/ (gens = <<>> /\ \A tx \in sharing : tx.kind = "early")
-----------------------------------------------------------------------------
(* Lemmas about the operators.                                             *)

USE DEF Both

\* A set of natural numbers with a bound has a greatest member.
LEMMA GreatestExists ==
    ASSUME NEW n \in Nat, NEW S \in SUBSET (0 .. n), S # {}
    PROVE  \E k \in S : \A j \in S : j <= k
<1> DEFINE T == {n - k : k \in S}
<1>1. T \in SUBSET Nat /\ T # {}
  <2>1. \A k \in S : n - k \in Nat
    OBVIOUS
  <2> QED BY <2>1
<1>2. PICK m \in T : \A x \in T : <<x, m>> \notin OpToRel(<, Nat)
  BY <1>1, WFMin, NatLessThanWellFounded
<1>3. PICK k \in S : m = n - k
  OBVIOUS
<1>4. SUFFICES ASSUME NEW j \in S  PROVE j <= k
  BY <1>3
<1>5. n - j \in T /\ n - j \in Nat /\ m \in Nat
  OBVIOUS
<1>6. ~(n - j < m)
  BY <1>2, <1>5 DEF OpToRel
<1> QED
  BY <1>3, <1>5, <1>6

\* The newest of a correction's inputs of one player is one of them.
LEMMA NewestIsGiven ==
    ASSUME NEW inputs \in Seq(Input), NEW p, Given(inputs, p) # {}
    PROVE  \E k \in 1 .. Len(inputs) : inputs[k].player = p /\ Newest(inputs, p) = inputs[k].ver
<1>1. Given(inputs, p) \in SUBSET (0 .. Len(inputs)) /\ Len(inputs) \in Nat
  BY DEF Given
<1>2. \E k \in Given(inputs, p) : \A j \in Given(inputs, p) : j <= k
  BY <1>1, GreatestExists
<1> DEFINE best == CHOOSE k \in Given(inputs, p) : \A j \in Given(inputs, p) : j <= k
<1>3. best \in Given(inputs, p)
  BY <1>2
<1> QED
  BY <1>3 DEF Newest, Given

\* The saved facts only grow.
Later(f, h) ==
    /\ h.day \in [Players -> Nat] /\ h.decodes \in [Players -> Nat] /\ h.below \subseteq Players
    /\ \A p \in Players : f.day[p] <= h.day[p] /\ f.decodes[p] <= h.decodes[p]

LEMMA ResultOK ==
    ASSUME NEW f, f.day \in [Players -> Nat], f.decodes \in [Players -> Nat],
           NEW p \in Players, NEW v \in 0 .. f.day[p]
    PROVE  MemberOK(Result(p, v, f), f.day[p])
BY DEF MemberOK, Result, ArmyStatus, Member, Status

LEMMA LeftOutOK ==
    ASSUME NEW d \in Nat, NEW m, MemberOK(m, d)
    PROVE  MemberOK(LeftOut(m), d)
BY DEF MemberOK, LeftOut, Member, Status

\* The members of a generation to come.
MembersOK(ms, f) ==
    /\ ms \in [DOMAIN ms -> Member] /\ DOMAIN ms \subseteq Players
    /\ \A p \in DOMAIN ms : MemberOK(ms[p], f.day[p])

LEMMA CopiedOK ==
    ASSUME NEW gs \in Seq(Generation), NEW cs, NEW f, Sound(gs, cs, f), NEW i \in 0 .. Len(gs),
           tracked \subseteq Players
    PROVE  MembersOK(Copied(gs, i, f), f) /\ DOMAIN Copied(gs, i, f) = BoardMembers(f)
<1> DEFINE ms == Copied(gs, i, f)
<1>1. DOMAIN ms = BoardMembers(f) /\ ms = [p \in BoardMembers(f) |-> ms[p]]
  BY DEF Copied
<1>2. BoardMembers(f) \subseteq Players
  BY DEF BoardMembers
<1>3. ASSUME NEW p \in BoardMembers(f)  PROVE MemberOK(ms[p], f.day[p])
  <2>1. CASE i # 0 /\ p \in DOMAIN gs[i].members
    BY <2>1 DEF Sound, GenOK, GenBody, Copied
  <2>2. CASE ~(i # 0 /\ p \in DOMAIN gs[i].members)
    <3>1. f.day[p] \in Nat /\ p \in Players
      BY <1>2 DEF Sound
    <3>2. ms[p] = Result(p, IF i = 0 /\ p \in tracked THEN 0 ELSE f.day[p], f)
      BY <2>2 DEF Copied
    <3> HIDE DEF ms
    <3>3. PICK v : v = IF i = 0 /\ p \in tracked THEN 0 ELSE f.day[p]
      OBVIOUS
    <3>4. v \in 0 .. f.day[p] /\ ms[p] = Result(p, v, f)
      BY <3>1, <3>2, <3>3
    <3>5. f.day \in [Players -> Nat] /\ f.decodes \in [Players -> Nat]
      BY DEF Sound
    <3> QED BY <3>1, <3>4, <3>5, ResultOK
  <2> QED
    BY <2>1, <2>2
<1> HIDE DEF ms
<1>4. \A p \in BoardMembers(f) : ms[p] \in Member
  BY <1>3 DEF MemberOK
<1>5. ms \in [DOMAIN ms -> Member]
  BY <1>1, <1>4
<1>6. MembersOK(ms, f) /\ DOMAIN ms = BoardMembers(f)
  BY <1>1, <1>2, <1>3, <1>5 DEF MembersOK
<1> QED
  BY <1>6 DEF ms

InputsOK(inputs, f) ==
    /\ inputs \in Seq(Input)
    /\ \A k \in 1 .. Len(inputs) : inputs[k].ver \in 1 .. f.day[inputs[k].player]

LEMMA WithInputsOK ==
    ASSUME NEW f, f.day \in [Players -> Nat], f.decodes \in [Players -> Nat],
           NEW ms, MembersOK(ms, f), NEW inputs, InputsOK(inputs, f)
    PROVE  /\ MembersOK(WithInputs(ms, inputs, f), f)
           /\ DOMAIN WithInputs(ms, inputs, f) = DOMAIN ms
<1> DEFINE w == WithInputs(ms, inputs, f)
<1>1. DOMAIN w = DOMAIN ms /\ w = [p \in DOMAIN ms |-> w[p]]
  BY DEF WithInputs
<1>2. ASSUME NEW p \in DOMAIN ms  PROVE MemberOK(w[p], f.day[p])
  <2>1. CASE Given(inputs, p) = {}
    BY <2>1 DEF WithInputs, MembersOK
  <2>2. CASE Given(inputs, p) # {}
    <3>1. PICK k \in 1 .. Len(inputs) : inputs[k].player = p /\ Newest(inputs, p) = inputs[k].ver
      BY <2>2, NewestIsGiven DEF InputsOK
    <3>2. p \in Players /\ Newest(inputs, p) \in 0 .. f.day[p]
      BY <3>1 DEF InputsOK, MembersOK
    <3>3. w[p] = Result(p, Newest(inputs, p), f)
      BY <2>2 DEF WithInputs
    <3> HIDE DEF w
    <3> QED BY <3>2, <3>3, ResultOK
  <2> QED
    BY <2>1, <2>2
<1> HIDE DEF w
<1>3. \A p \in DOMAIN ms : w[p] \in Member
  BY <1>2 DEF MemberOK
<1>4. MembersOK(w, f) /\ DOMAIN w = DOMAIN ms
  BY <1>1, <1>2, <1>3 DEF MembersOK
<1> QED
  BY <1>4 DEF w

LEMMA MembersOfGeneration ==
    ASSUME NEW f, NEW g, GenOK(g, f)
    PROVE  MembersOK(g.members, f)
BY DEF GenOK, GenBody, MembersOK, Generation, Members

LEMMA MembersTyped ==
    ASSUME NEW f, NEW ms, MembersOK(ms, f)
    PROVE  ms \in Members
BY DEF MembersOK, Members

-----------------------------------------------------------------------------
(* What enqueueing does.                                                   *)

\* The frozen inputs of the board and of the army results.
Ranking(g, f) ==
    [p \in {q \in DOMAIN g.members : g.members[q].snap = "counted" /\ q \notin f.below}
        |-> g.members[p].ver]
Reading(g, f) ==
    [p \in {q \in DOMAIN g.members : g.members[q].ver > 0}
        |-> [ver |-> g.members[p].ver, decodes |-> f.decodes[p]]]

LEMMA RankingOK ==
    ASSUME NEW f, NEW g, GenOK(g, f), f.day \in [Players -> Nat]
    PROVE  /\ Ranking(g, f) \in Ranks /\ Ranking(g, f) # None
           /\ \A p \in DOMAIN Ranking(g, f) : Ranking(g, f)[p] \in 1 .. f.day[p]
<1> DEFINE D == {q \in DOMAIN g.members : g.members[q].snap = "counted" /\ q \notin f.below}
<1>1. MembersOK(g.members, f)
  BY MembersOfGeneration
<1>2. D \in SUBSET Players /\ \A p \in D : g.members[p].ver \in Nat /\ g.members[p].ver \in 1 .. f.day[p]
  BY <1>1 DEF MembersOK, MemberOK, Member
<1>3. Ranking(g, f) = [p \in D |-> g.members[p].ver]
  BY DEF Ranking
<1> HIDE DEF D
<1>4. Ranking(g, f) \in [D -> Nat] /\ \A p \in DOMAIN Ranking(g, f) : Ranking(g, f)[p] \in 1 .. f.day[p]
  BY <1>2, <1>3
<1> QED
  BY <1>2, <1>4, ResetConstants DEF Ranks

LEMMA ReadingOK ==
    ASSUME NEW f, NEW g, GenOK(g, f), f.day \in [Players -> Nat], f.decodes \in [Players -> Nat]
    PROVE  /\ Reading(g, f) \in Reads /\ Reading(g, f) # None
           /\ \A p \in DOMAIN Reading(g, f) :
                Reading(g, f)[p].ver \in 1 .. f.day[p] /\ Reading(g, f)[p].decodes <= f.decodes[p]
<1> DEFINE D == {q \in DOMAIN g.members : g.members[q].ver > 0}
<1>1. MembersOK(g.members, f)
  BY MembersOfGeneration
<1>2. D \in SUBSET Players /\ \A p \in D : g.members[p].ver \in Nat /\ g.members[p].ver \in 1 .. f.day[p]
  BY <1>1 DEF MembersOK, MemberOK, Member
<1>3. Reading(g, f) = [p \in D |-> [ver |-> g.members[p].ver, decodes |-> f.decodes[p]]]
  BY DEF Reading
<1> HIDE DEF D
<1>4. Reading(g, f) \in [D -> [ver : Nat, decodes : Nat]]
  BY <1>2, <1>3
<1>5. \A p \in DOMAIN Reading(g, f) :
            Reading(g, f)[p].ver \in 1 .. f.day[p] /\ Reading(g, f)[p].decodes <= f.decodes[p]
  BY <1>2, <1>3
<1> QED
  BY <1>2, <1>4, <1>5, ResetConstants DEF Reads

\* h is g after it was checked for what can start, by f.
Enqueues(g, h, f) ==
    /\ h.members = g.members /\ h.corr = g.corr /\ h.affected = g.affected
    /\ h.source = g.source /\ h.statistics = g.statistics /\ h.armies = g.armies
    /\ h.failed \subseteq g.failed
    /\ h.snap = g.snap \/ (g.snap = "pending" /\ Waiting(g) = {} /\ h.snap = "ready")
    /\ h.army = g.army \/ (g.army = "pending" /\ ArmyWaiting(g) = {} /\ h.army = "ready")
    /\ \/ h.ranked = g.ranked
       \/ /\ g.ranked = None /\ Waiting(g) = {} /\ h.snap = "ready"
          /\ h.ranked = Ranking(g, f)
    /\ \/ h.read = g.read
       \/ /\ g.read = None /\ ArmyWaiting(g) = {} /\ h.army = "ready" /\ h.snap # "pending"
          /\ ~(Affects(g, "snapshot") /\ h.snap = "ready")
          /\ h.read = Reading(g, f)

\* The board i takes over from its source.
Inherits(g, h, source) ==
    /\ ToInherit(g) /\ Ended(source.snap)
    /\ h = [g EXCEPT !.snap = "published", !.statistics = TRUE, !.ranked = source.ranked]

Startable(g, army, f) ==
    IF army THEN WithArmies(WithBoard(Readied(g), f), f) ELSE WithBoard(Readied(g), f)

LEMMA StartableOK ==
    ASSUME NEW f, f.day \in [Players -> Nat], f.decodes \in [Players -> Nat],
           NEW g, GenOK(g, f), ~ToInherit(g), NEW army
    PROVE  GenOK(Startable(g, army, f), f) /\ Enqueues(g, Startable(g, army, f), f)
<1> DEFINE r == Readied(g)
           b == WithBoard(r, f)
           a == WithArmies(b, f)
<1>1. g \in Generation
  BY DEF GenOK, GenBody
<1>2. /\ r \in Generation /\ r.members = g.members /\ r.ranked = g.ranked /\ r.read = g.read
      /\ r.corr = g.corr /\ r.affected = g.affected /\ r.source = g.source
      /\ r.statistics = g.statistics /\ r.armies = g.armies /\ r.failed = g.failed
      /\ r.snap = IF g.snap = "pending" /\ Waiting(g) = {} THEN "ready" ELSE g.snap
      /\ r.army = IF g.army = "pending" /\ ArmyWaiting(g) = {} THEN "ready" ELSE g.army
  <2> DEFINE s == IF g.snap = "pending" /\ Waiting(g) = {} THEN "ready" ELSE g.snap
             m == IF g.army = "pending" /\ ArmyWaiting(g) = {} THEN "ready" ELSE g.army
  <2>1. s \in Artifact /\ m \in Artifact \ {"building"}
    BY <1>1 DEF Generation, Artifact
  <2>2. r = [g EXCEPT !.snap = s, !.army = m]
    BY <1>1 DEF Readied, Generation, Waiting, ArmyWaiting
  <2> HIDE DEF r, s, m
  <2>3. /\ r \in Generation /\ r.members = g.members /\ r.ranked = g.ranked /\ r.read = g.read
        /\ r.corr = g.corr /\ r.affected = g.affected /\ r.source = g.source
        /\ r.statistics = g.statistics /\ r.armies = g.armies /\ r.failed = g.failed
        /\ r.snap = s /\ r.army = m
    BY <1>1, <2>1, <2>2 DEF Generation
  <2> QED
    BY <2>3 DEF s, m
<1>3. GenOK(r, f)
  BY <1>2 DEF GenOK, GenBody, ToInherit, Ended
<1>4. Waiting(r) = Waiting(g) /\ ArmyWaiting(r) = ArmyWaiting(g) /\ Ranking(r, f) = Ranking(g, f)
  BY <1>2 DEF Waiting, ArmyWaiting, Ranking
<1> HIDE DEF r
<1>5. b = IF Waiting(r) = {} /\ r.snap = "ready" /\ Affects(r, "snapshot") /\ r.ranked = None
          THEN [r EXCEPT !.ranked = Ranking(r, f)] ELSE r
  BY DEF WithBoard, Ranking
<1> HIDE DEF b
<1>6. /\ Ranking(r, f) \in Ranks /\ Ranking(r, f) # None
      /\ \A p \in DOMAIN Ranking(r, f) : Ranking(r, f)[p] \in 1 .. f.day[p]
  BY <1>3, RankingOK
<1>7. /\ b \in Generation /\ b.members = r.members /\ b.read = r.read /\ b.corr = r.corr
      /\ b.affected = r.affected /\ b.source = r.source /\ b.statistics = r.statistics
      /\ b.armies = r.armies /\ b.failed = r.failed /\ b.snap = r.snap /\ b.army = r.army
      /\ \/ b.ranked = r.ranked
         \/ Waiting(r) = {} /\ r.snap = "ready" /\ r.ranked = None /\ b.ranked = Ranking(r, f)
  BY <1>2, <1>5, <1>6 DEF Generation
<1>8. GenOK(b, f)
  BY <1>3, <1>6, <1>7 DEF GenOK, GenBody, ToInherit, Ended
<1>9. ArmyWaiting(b) = ArmyWaiting(g) /\ Reading(b, f) = Reading(g, f)
  BY <1>2, <1>7 DEF ArmyWaiting, Reading
<1>10. a = IF ArmyWaiting(b) = {} /\ b.army = "ready" /\ Affects(b, "army")
              /\ ~(Affects(b, "snapshot") /\ b.snap = "ready")
           THEN [b EXCEPT !.failed = @ \ {"waiting"},
                          !.read = IF @ # None THEN @ ELSE Reading(b, f)] ELSE b
  BY DEF WithArmies, Reading
<1> HIDE DEF a
<1>11. /\ Reading(b, f) \in Reads /\ Reading(b, f) # None
       /\ \A p \in DOMAIN Reading(b, f) :
            Reading(b, f)[p].ver \in 1 .. f.day[p] /\ Reading(b, f)[p].decodes <= f.decodes[p]
  BY <1>8, ReadingOK
<1>12. /\ a \in Generation /\ a.members = b.members /\ a.ranked = b.ranked /\ a.corr = b.corr
       /\ a.affected = b.affected /\ a.source = b.source /\ a.statistics = b.statistics
       /\ a.armies = b.armies /\ a.failed \subseteq b.failed /\ a.snap = b.snap /\ a.army = b.army
       /\ \/ a.read = b.read
          \/ /\ ArmyWaiting(b) = {} /\ b.army = "ready" /\ b.read = None /\ a.read = Reading(b, f)
             /\ ~(Affects(b, "snapshot") /\ b.snap = "ready")
  BY <1>7, <1>10, <1>11 DEF Generation
<1>13. GenOK(a, f)
  BY <1>8, <1>11, <1>12 DEF GenOK, GenBody, ToInherit, Ended
<1>14. Enqueues(g, b, f)
  BY <1>2, <1>4, <1>7 DEF Enqueues
<1>15. ArmyWaiting(g) = {} => Waiting(g) = {}
  BY DEF GenOK, GenBody, MemberOK, Waiting, ArmyWaiting
<1>16. ArmyWaiting(g) = {} => a.snap # "pending"
  BY <1>2, <1>7, <1>12, <1>15
<1>17. Enqueues(g, a, f)
  BY <1>2, <1>4, <1>7, <1>9, <1>12, <1>16 DEF Enqueues, Affects
<1> QED
  BY <1>8, <1>13, <1>14, <1>17 DEF Startable, a, b, r

\* Another state of generation i, as sound as the one it replaces.
LEMMA ReplaceOK ==
    ASSUME NEW gs, NEW cs, NEW f, Sound(gs, cs, f), NEW i \in 1 .. Len(gs),
           NEW h, GenOK(h, f), h.source = gs[i].source, h.corr = gs[i].corr,
           i < Len(gs) => Ended(h.snap) /\ Ended(h.army),
           h.snap = "superseded" => gs[i].snap = "superseded",
           h.army = "superseded" => gs[i].army = "superseded"
    PROVE  /\ Sound([gs EXCEPT ![i] = h], cs, f)
           /\ Len([gs EXCEPT ![i] = h]) = Len(gs) /\ [gs EXCEPT ![i] = h][i] = h
<1> DEFINE r == [gs EXCEPT ![i] = h]
<1>1. gs \in Seq(Generation) /\ h \in Generation /\ Len(gs) \in Nat
  BY DEF Sound, GenOK, GenBody
<1>2. /\ r \in Seq(Generation) /\ Len(r) = Len(gs) /\ r[i] = h
      /\ \A j \in 1 .. Len(gs) : j # i => r[j] = gs[j]
  BY <1>1, ExceptSeq
<1> HIDE DEF r
<1>3. \A j \in 1 .. Len(r) : GenOK(r[j], f)
  BY <1>2 DEF Sound
<1>4. Linked(r)
  <2>1. Linked(gs)
    BY DEF Sound
  <2>2. ASSUME NEW j \in 1 .. Len(r)
        PROVE  /\ r[j].source = j - 1 /\ (r[j].corr = "none" => j = 1)
               /\ j \in 1 .. Len(r) - 1 =>
                    Ended(r[j].snap) /\ Ended(r[j].army) /\ r[j].corr = "finalized"
               /\ j = Len(r) => r[j].snap # "superseded" /\ r[j].army # "superseded"
    <3>1. j \in 1 .. Len(gs) /\ Len(r) = Len(gs)
      BY <1>2
    <3>2. /\ gs[j].source = j - 1 /\ (gs[j].corr = "none" => j = 1)
          /\ j \in 1 .. Len(gs) - 1 =>
                Ended(gs[j].snap) /\ Ended(gs[j].army) /\ gs[j].corr = "finalized"
          /\ j = Len(gs) => gs[j].snap # "superseded" /\ gs[j].army # "superseded"
      BY <1>1, <2>1, <3>1 DEF Linked
    <3>3. CASE j = i
      BY <1>1, <1>2, <3>1, <3>2, <3>3
    <3>4. CASE j # i
      BY <1>2, <3>1, <3>2, <3>4
    <3> QED BY <3>3, <3>4
  <2>3. Len(r) > 0 => Len(r) \in 1 .. Len(r)
    BY <1>1, <1>2
  <2>4. \A j \in 1 .. Len(r) - 1 : j \in 1 .. Len(r)
    BY <1>1, <1>2
  <2> QED BY <2>2, <2>3, <2>4 DEF Linked
<1>5. Corrected(r, cs)
  <2>1. Len(gs) > 0 => r[Len(gs)].corr = gs[Len(gs)].corr
    BY <1>1, <1>2
  <2> QED BY <1>1, <1>2, <2>1 DEF Sound, Corrected
<1>6. Sound(r, cs, f) /\ Len(r) = Len(gs) /\ r[i] = h
  BY <1>2, <1>3, <1>4, <1>5 DEF Sound
<1> QED
  BY <1>6 DEF r

\* What the check for work that can start makes of generation i: it may take over
\* its source's board, and freezes the inputs nobody is waited for.
LEMMA TryEnqueueOK ==
    ASSUME NEW gs, NEW cs, NEW f, Sound(gs, cs, f), NEW i \in 1 .. Len(gs),
           NEW army, NEW t
    PROVE  \E a, h :
            /\ GenOK(a, f) /\ GenOK(h, f) /\ Enqueues(a, h, f)
            /\ a = gs[i] \/ (i > 1 /\ Inherits(gs[i], a, gs[i - 1]))
            /\ TryEnqueue(gs, i, army, f, t) = [gs EXCEPT ![i] = h]
            /\ t # "held" => ~ToInherit(h)
            /\ ToInherit(a) => h = a
            /\ t \notin {"held", "quiet"} => h = Startable(a, army, f)
<1> DEFINE g == gs[i]
           next == Inherited(gs, i)
           a == next[i]
<1>1. gs \in Seq(Generation) /\ GenOK(g, f) /\ g \in Generation /\ Len(gs) \in Nat
      /\ f.day \in [Players -> Nat] /\ f.decodes \in [Players -> Nat]
  BY DEF Sound, GenOK, GenBody
<1>2. GenOK(a, f) /\ ~ToInherit(a) /\ next = [gs EXCEPT ![i] = a]
      /\ (a = g \/ (i > 1 /\ Inherits(g, a, gs[i - 1])))
  <2>1. CASE ToInherit(g)
    <3>1. g.source = i - 1 /\ i > 1 /\ i - 1 \in 1 .. Len(gs) - 1 /\ Ended(gs[i - 1].snap)
          /\ GenOK(gs[i - 1], f) /\ g.snap = "pending" /\ g.ranked = None
      BY <1>1, <2>1 DEF Sound, Linked, ToInherit, GenOK, GenBody
    <3>2. gs[i - 1].statistics /\ gs[i - 1].ranked # None /\ gs[i - 1].ranked \in Ranks
      BY <3>1 DEF GenOK, GenBody, Ended, Generation
    <3> DEFINE x == [g EXCEPT !.snap = "published", !.statistics = TRUE,
                              !.ranked = gs[i - 1].ranked]
    <3>3. next = [gs EXCEPT ![i] = x]
      BY <1>1, <2>1, <3>1, <3>2 DEF Inherited, ToInherit, Ended
    <3>0. a = x
      <4> HIDE DEF x, next
      <4> QED BY <1>1, <3>3
    <3>4. a = [g EXCEPT !.snap = "published", !.statistics = TRUE, !.ranked = gs[i - 1].ranked]
      BY <3>0
    <3> HIDE DEF a, next
    <3>5. /\ a \in Generation /\ a.members = g.members /\ a.read = g.read /\ a.corr = g.corr
          /\ a.affected = g.affected /\ a.source = g.source /\ a.statistics = TRUE
          /\ a.armies = g.armies /\ a.snap = "published" /\ a.army = g.army
          /\ a.ranked = gs[i - 1].ranked
      BY <1>1, <3>2, <3>4 DEF Generation, Artifact
    <3>6. g.army = "pending" /\ ~g.armies
      BY <1>1, <2>1 DEF GenOK, GenBody, Ended
    <3>7. GenOK(a, f) /\ ~ToInherit(a)
      BY <1>1, <3>1, <3>2, <3>5, <3>6 DEF GenOK, GenBody, ToInherit, Ended
    <3>8. Inherits(g, a, gs[i - 1])
      BY <2>1, <3>1, <3>4 DEF Inherits
    <3> QED BY <3>1, <3>3, <3>4, <3>7, <3>8
  <2>2. CASE ~ToInherit(g)
    <3>1. next = gs
      BY <2>2 DEF Inherited, ToInherit
    <3>2. gs = [gs EXCEPT ![i] = gs[i]]
      BY <1>1
    <3> QED BY <1>1, <2>2, <3>1, <3>2
  <2> QED
    BY <2>1, <2>2
<1>3. CASE t = "held"
  <2>1. TryEnqueue(gs, i, army, f, t) = gs /\ gs = [gs EXCEPT ![i] = g]
    BY <1>1, <1>3 DEF TryEnqueue
  <2>2. Enqueues(g, g, f)
    BY DEF Enqueues
  <2> HIDE DEF g
  <2>3. g = gs[i]
    BY DEF g
  <2> QED BY <1>1, <1>3, <2>1, <2>2, <2>3
<1>4. CASE t = "quiet"
  <2>1. TryEnqueue(gs, i, army, f, t) = [gs EXCEPT ![i] = a]
    BY <1>2, <1>4 DEF TryEnqueue
  <2>2. Enqueues(a, a, f)
    BY DEF Enqueues
  <2> HIDE DEF a
  <2> QED BY <1>2, <1>4, <2>1, <2>2
<1>5. CASE t \notin {"held", "quiet"}
  <2> DEFINE h == Startable(a, army, f)
  <2>1. TryEnqueue(gs, i, army, f, t) = [next EXCEPT ![i] = h]
    BY <1>5 DEF TryEnqueue, Startable
  <2>2. GenOK(h, f) /\ Enqueues(a, h, f)
    <3> HIDE DEF a
    <3> QED BY <1>1, <1>2, StartableOK
  <2> HIDE DEF a, h, next
  <2>3. [next EXCEPT ![i] = h] = [gs EXCEPT ![i] = h]
    BY <1>1, <1>2
  <2>4. ~ToInherit(h)
    BY <1>2, <2>2 DEF Enqueues, ToInherit
  <2>5. h = Startable(a, army, f)
    BY DEF h
  <2> QED BY <1>2, <1>5, <2>1, <2>2, <2>3, <2>4, <2>5
<1> QED
  BY <1>3, <1>4, <1>5

LEMMA EarlierEnded ==
    ASSUME NEW gs, NEW cs, NEW f, Sound(gs, cs, f), NEW i \in 1 .. Len(gs), i < Len(gs)
    PROVE  Ended(gs[i].snap) /\ Ended(gs[i].army) /\ gs[i].corr = "finalized"
<1>1. Len(gs) \in Nat /\ Linked(gs)
  BY DEF Sound
<1>2. i \in 1 .. Len(gs) - 1
  BY <1>1
<1> QED
  BY <1>1, <1>2 DEF Linked

LEMMA EnqueueSound ==
    ASSUME NEW gs, NEW cs, NEW f, Sound(gs, cs, f), NEW i \in 1 .. Len(gs),
           NEW army, NEW t
    PROVE  /\ Sound(TryEnqueue(gs, i, army, f, t), cs, f)
           /\ Len(TryEnqueue(gs, i, army, f, t)) = Len(gs)
<1>1. PICK a, h :
            /\ GenOK(a, f) /\ GenOK(h, f) /\ Enqueues(a, h, f)
            /\ a = gs[i] \/ (i > 1 /\ Inherits(gs[i], a, gs[i - 1]))
            /\ TryEnqueue(gs, i, army, f, t) = [gs EXCEPT ![i] = h]
  BY TryEnqueueOK
<1>2. gs[i] \in Generation /\ Len(gs) \in Nat
  BY DEF Sound, GenOK, GenBody
<1>3. /\ a.source = gs[i].source /\ a.corr = gs[i].corr /\ a.army = gs[i].army
      /\ a.snap = gs[i].snap \/ (gs[i].snap = "pending" /\ a.snap = "published")
  <2>1. CASE a = gs[i]
    BY <2>1
  <2>2. CASE Inherits(gs[i], a, gs[i - 1])
    <3> DEFINE g == gs[i]
               ranked == gs[i - 1].ranked
    <3>1. g \in Generation /\ g.snap = "pending"
          /\ a = [g EXCEPT !.snap = "published", !.statistics = TRUE, !.ranked = ranked]
      BY <1>2, <2>2 DEF Inherits, ToInherit
    <3> HIDE DEF g, ranked
    <3>2. a.source = g.source /\ a.corr = g.corr /\ a.army = g.army /\ a.snap = "published"
      BY <3>1 DEF Generation
    <3> QED BY <3>1, <3>2 DEF g
  <2> QED BY <1>1, <2>1, <2>2
<1>4. /\ h.source = gs[i].source /\ h.corr = gs[i].corr
      /\ h.snap = "superseded" => gs[i].snap = "superseded"
      /\ h.army = "superseded" => gs[i].army = "superseded"
  BY <1>1, <1>3 DEF Enqueues
<1>5. i < Len(gs) => Ended(h.snap) /\ Ended(h.army)
  <2>1. i < Len(gs) => Ended(gs[i].snap) /\ Ended(gs[i].army)
    BY EarlierEnded
  <2> QED BY <1>1, <1>3, <2>1 DEF Enqueues, Ended
<1>6. GenOK(h, f)
  BY <1>1
<1>7. Sound([gs EXCEPT ![i] = h], cs, f) /\ Len([gs EXCEPT ![i] = h]) = Len(gs)
  BY <1>4, <1>5, <1>6, ReplaceOK
<1> QED
  BY <1>1, <1>7

LEMMA OneMember ==
    ASSUME NEW f, NEW ms, MembersOK(ms, f), NEW p \in DOMAIN ms, NEW m, MemberOK(m, f.day[p])
    PROVE  /\ MembersOK([ms EXCEPT ![p] = m], f) /\ DOMAIN [ms EXCEPT ![p] = m] = DOMAIN ms
<1>1. m \in Member
  BY DEF MemberOK
<1> QED
  BY <1>1 DEF MembersOK

LEMMA WithMembersOK ==
    ASSUME NEW f, NEW g, GenOK(g, f), NEW ms, MembersOK(ms, f)
    PROVE  GenOK([g EXCEPT !.members = ms], f)
<1> DEFINE h == [g EXCEPT !.members = ms]
<1>1. g \in Generation /\ ms \in Members
  BY MembersTyped DEF GenOK, GenBody
<1>2. /\ h \in Generation /\ h.members = ms /\ h.read = g.read /\ h.corr = g.corr
      /\ h.affected = g.affected /\ h.source = g.source /\ h.statistics = g.statistics
      /\ h.armies = g.armies /\ h.snap = g.snap /\ h.army = g.army /\ h.ranked = g.ranked
  BY <1>1 DEF Generation
<1> HIDE DEF h
<1>3. GenOK(h, f)
  BY <1>2 DEF GenOK, GenBody, ToInherit, MembersOK
<1> QED
  BY <1>3 DEF h

\* Generation i with other members.
LEMMA MembersSound ==
    ASSUME NEW gs, NEW cs, NEW f, Sound(gs, cs, f), NEW i \in 1 .. Len(gs),
           NEW ms, MembersOK(ms, f)
    PROVE  /\ Sound([gs EXCEPT ![i].members = ms], cs, f)
           /\ Len([gs EXCEPT ![i].members = ms]) = Len(gs)
           /\ [gs EXCEPT ![i].members = ms][i] = [gs[i] EXCEPT !.members = ms]
<1> DEFINE h == [gs[i] EXCEPT !.members = ms]
<1>1. GenOK(gs[i], f) /\ gs[i] \in Generation /\ Len(gs) \in Nat
  BY DEF Sound, GenOK, GenBody
<1>2. GenOK(h, f)
  BY <1>1, WithMembersOK
<1>3. h.source = gs[i].source /\ h.corr = gs[i].corr /\ h.snap = gs[i].snap /\ h.army = gs[i].army
  BY <1>1 DEF Generation
<1>4. i < Len(gs) => Ended(h.snap) /\ Ended(h.army)
  <2>1. i < Len(gs) => Ended(gs[i].snap) /\ Ended(gs[i].army)
    BY EarlierEnded
  <2> QED BY <1>3, <2>1
<1>5. [gs EXCEPT ![i].members = ms] = [gs EXCEPT ![i] = h]
  OBVIOUS
<1> HIDE DEF h
<1>6. /\ Sound([gs EXCEPT ![i] = h], cs, f)
      /\ Len([gs EXCEPT ![i] = h]) = Len(gs) /\ [gs EXCEPT ![i] = h][i] = h
  BY <1>2, <1>3, <1>4, ReplaceOK
<1> QED
  BY <1>5, <1>6 DEF h

WithMember(gs, i, p, m) == [gs EXCEPT ![i].members[p] = m]

LEMMA MemberSound ==
    ASSUME NEW gs, NEW cs, NEW f, Sound(gs, cs, f), NEW i \in 1 .. Len(gs),
           NEW p \in DOMAIN gs[i].members, NEW m, MemberOK(m, f.day[p]),
           NEW r, r = WithMember(gs, i, p, m)
    PROVE  Sound(r, cs, f) /\ Len(r) = Len(gs)
<1> DEFINE ms == [gs[i].members EXCEPT ![p] = m]
<1>1. GenOK(gs[i], f)
  BY DEF Sound
<1>2. MembersOK(ms, f)
  BY <1>1, MembersOfGeneration, OneMember
<1>3. r = [gs EXCEPT ![i].members = ms]
  BY DEF WithMember
<1> HIDE DEF ms
<1>4. /\ Sound([gs EXCEPT ![i].members = ms], cs, f)
      /\ Len([gs EXCEPT ![i].members = ms]) = Len(gs)
  BY <1>2, MembersSound
<1> QED
  BY <1>3, <1>4

LEMMA SettleSound ==
    ASSUME NEW gs, NEW cs, NEW f, Sound(gs, cs, f), NEW i \in 1 .. Len(gs), NEW p, NEW m,
           p \in DOMAIN gs[i].members => MemberOK(m, f.day[p]), NEW full \in BOOLEAN, NEW t
    PROVE  /\ Sound(Settle(gs, i, p, m, full, f, t), cs, f)
           /\ Len(Settle(gs, i, p, m, full, f, t)) = Len(gs)
<1> DEFINE next == IF p \in DOMAIN gs[i].members THEN [gs EXCEPT ![i].members[p] = m] ELSE gs
<1>1. Sound(next, cs, f) /\ Len(next) = Len(gs)
  <2>1. CASE p \in DOMAIN gs[i].members
    <3>1. next = WithMember(gs, i, p, m)
      BY <2>1 DEF WithMember
    <3> HIDE DEF next
    <3> QED BY <2>1, <3>1, MemberSound
  <2>2. CASE p \notin DOMAIN gs[i].members
    BY <2>2
  <2> QED BY <2>1, <2>2
<1>2. Settle(gs, i, p, m, full, f, t) = IF full THEN TryEnqueue(next, i, FALSE, f, t) ELSE next
  BY DEF Settle
<1> HIDE DEF next
<1>3. i \in 1 .. Len(next)
  BY <1>1
<1>4. Sound(TryEnqueue(next, i, FALSE, f, t), cs, f) /\ Len(TryEnqueue(next, i, FALSE, f, t)) = Len(next)
  <2> DEFINE army == FALSE
  <2> HIDE DEF army
  <2>1. Sound(TryEnqueue(next, i, army, f, t), cs, f) /\ Len(TryEnqueue(next, i, army, f, t)) = Len(next)
    BY <1>1, <1>3, EnqueueSound
  <2> QED BY <2>1 DEF army
<1> QED
  BY <1>1, <1>2, <1>4

-----------------------------------------------------------------------------
(* Corrections.                                                            *)

LEMMA InputsJoined ==
    ASSUME NEW f, NEW s, NEW r, InputsOK(s, f), InputsOK(r, f)
    PROVE  InputsOK(s \o r, f)
<1>1. s \in Seq(Input) /\ r \in Seq(Input)
  BY DEF InputsOK
<1>2. /\ s \o r \in Seq(Input) /\ Len(s \o r) = Len(s) + Len(r)
      /\ \A k \in 1 .. Len(s) + Len(r) :
            (s \o r)[k] = IF k <= Len(s) THEN s[k] ELSE r[k - Len(s)]
  BY <1>1, ConcatProperties
<1>3. Len(s) \in Nat /\ Len(r) \in Nat
  BY <1>1
<1>4. ASSUME NEW k \in 1 .. Len(s) + Len(r)
      PROVE  (s \o r)[k].ver \in 1 .. f.day[(s \o r)[k].player]
  <2>1. CASE k <= Len(s)
    BY <1>2, <1>3, <2>1 DEF InputsOK
  <2>2. CASE k > Len(s)
    <3>1. k - Len(s) \in 1 .. Len(r) /\ ~(k <= Len(s))
      BY <1>3, <2>2
    <3> QED BY <1>2, <3>1 DEF InputsOK
  <2> QED BY <1>3, <2>1, <2>2
<1> QED
  BY <1>2, <1>4 DEF InputsOK

LEMMA NoInputs ==
    ASSUME NEW f
    PROVE  InputsOK(<<>>, f)
<1>1. <<>> \in Seq(Input) /\ Len(<<>>) = 0
  BY EmptySeq
<1> QED
  BY <1>1 DEF InputsOK

LEMMA OneInput ==
    ASSUME NEW f, f.day \in [Players -> Nat], NEW p \in Players, f.day[p] > 0
    PROVE  InputsOK(<<[player |-> p, ver |-> f.day[p]]>>, f)
<1> DEFINE s == <<[player |-> p, ver |-> f.day[p]]>>
<1>1. s \in Seq(Input) /\ Len(s) = 1 /\ s[1] = [player |-> p, ver |-> f.day[p]]
  BY DEF Input
<1>2. f.day[p] \in 1 .. f.day[p]
  OBVIOUS
<1> HIDE DEF s
<1>3. InputsOK(s, f)
  BY <1>1, <1>2 DEF InputsOK
<1> QED
  BY <1>3 DEF s

LEMMA CorrectionInputs ==
    ASSUME NEW c, NEW f
    PROVE  CorrectionOK(c, f) <=> /\ c \in Correction /\ InputsOK(c.inputs, f)
                                  /\ c.state = "queued" => c.gen = 0 /\ "army" \in c.affected
BY DEF CorrectionOK, InputsOK, Correction

\* A waiting correction is the one its generation has.
LEMMA QueuedOne ==
    ASSUME NEW gs, NEW cs, NEW f, Sound(gs, cs, f)
    PROVE  /\ Queued(cs, Len(gs)) = {k \in 1 .. Len(cs) : cs[k].state = "queued"}
           /\ \A k, l \in Queued(cs, Len(gs)) : k = l
<1>1. \A k \in 1 .. Len(cs) : cs[k].state = "queued" => cs[k].source = Len(gs)
  BY DEF Sound, Corrected
<1>2. \A k, l \in 1 .. Len(cs) : cs[k].state = cs[l].state => k = l
  BY DEF Sound, Corrected
<1> QED
  BY <1>1, <1>2 DEF Queued

\* q is cs with a new waiting correction of generation n, or a wider one.
Widened(cs, n, affected, inputs, q) ==
    /\ q \in Seq(Correction)
    /\ \A k \in 1 .. Len(q) :
        \/ k \in 1 .. Len(cs) /\ q[k] = cs[k] /\ cs[k].state # "queued"
        \/ /\ k \in 1 .. Len(cs) /\ cs[k].state = "queued"
           /\ q[k] = [cs[k] EXCEPT !.affected = @ \cup affected, !.inputs = @ \o inputs]
        \/ /\ k = Len(cs) + 1 /\ Queued(cs, n) = {}
           /\ q[k] = [source |-> n, gen |-> 0, affected |-> affected,
                      inputs |-> inputs, state |-> "queued"]
    /\ \A k \in 1 .. Len(cs) : k \in 1 .. Len(q)
    /\ Queued(cs, n) = {} => Len(q) = Len(cs) + 1

LEMMA QueueDoes ==
    ASSUME NEW gs, NEW cs, NEW f, Sound(gs, cs, f), Len(gs) > 0,
           NEW affected \in SUBSET Both, "army" \in affected, NEW inputs, InputsOK(inputs, f),
           NEW q, q = Queue(cs, Len(gs), affected, inputs)
    PROVE  Widened(cs, Len(gs), affected, inputs, q)
<1> DEFINE n == Len(gs)
           fresh == [source |-> n, gen |-> 0, affected |-> affected, inputs |-> inputs,
                     state |-> "queued"]
           wider(k) == [cs[k] EXCEPT !.affected = @ \cup affected, !.inputs = @ \o inputs]
<1>1. cs \in Seq(Correction) /\ n \in Nat /\ inputs \in Seq(Input) /\ Len(cs) \in Nat
  BY DEF Sound, InputsOK
<1>2. fresh \in Correction
  BY <1>1 DEF Correction
<1>3. Queued(cs, n) = {k \in 1 .. Len(cs) : cs[k].state = "queued"}
  BY QueuedOne
<1>4. CASE Queued(cs, n) = {}
  <2>1. q = Append(cs, fresh)
    BY <1>4 DEF Queue
  <2>2. /\ q \in Seq(Correction) /\ Len(q) = Len(cs) + 1 /\ q[Len(cs) + 1] = fresh
        /\ \A k \in 1 .. Len(cs) : q[k] = cs[k]
    <3> HIDE DEF fresh
    <3> QED BY <1>1, <1>2, <2>1, AppendProperties
  <2>3. \A k \in 1 .. Len(cs) : cs[k].state # "queued"
    BY <1>3, <1>4
  <2>4. \A k \in 1 .. Len(q) : k \in 1 .. Len(cs) \/ k = Len(cs) + 1
    BY <1>1, <2>2
  <2>5. \A k \in 1 .. Len(cs) : k \in 1 .. Len(q)
    BY <1>1, <2>2
  <2> HIDE DEF fresh
  <2>6. /\ q \in Seq(Correction)
        /\ \A k \in 1 .. Len(q) :
            \/ k \in 1 .. Len(cs) /\ q[k] = cs[k] /\ cs[k].state # "queued"
            \/ k = Len(cs) + 1 /\ Queued(cs, n) = {} /\ q[k] = fresh
        /\ \A k \in 1 .. Len(cs) : k \in 1 .. Len(q)
        /\ Len(q) = Len(cs) + 1
    BY <1>4, <2>2, <2>3, <2>4, <2>5
  <2> QED BY <2>6 DEF fresh, Widened
<1>5. CASE Queued(cs, n) # {}
  <2>1. q = [k \in 1 .. Len(cs) |-> IF cs[k].state = "queued" THEN wider(k) ELSE cs[k]]
    BY <1>3, <1>5 DEF Queue
  <2>2. \A k \in 1 .. Len(cs) : cs[k] \in Correction /\ wider(k) \in Correction
    <3>1. ASSUME NEW k \in 1 .. Len(cs)  PROVE cs[k] \in Correction /\ wider(k) \in Correction
      <4>1. cs[k] \in Correction
        BY <1>1
      <4>2. cs[k].inputs \o inputs \in Seq(Input) /\ cs[k].affected \cup affected \in SUBSET Both
        BY <1>1, <4>1, ConcatProperties DEF Correction
      <4> QED BY <4>1, <4>2 DEF Correction
    <3> QED BY <3>1
  <2> HIDE DEF wider
  <2>3. q \in [1 .. Len(cs) -> Correction]
    BY <2>1, <2>2
  <2>4. q \in Seq(Correction) /\ Len(q) = Len(cs)
    BY <1>1, <2>3
  <2>5. \A k \in 1 .. Len(q) :
            \/ k \in 1 .. Len(cs) /\ q[k] = cs[k] /\ cs[k].state # "queued"
            \/ k \in 1 .. Len(cs) /\ cs[k].state = "queued" /\ q[k] = wider(k)
    BY <2>1, <2>4
  <2> QED BY <1>5, <2>4, <2>5 DEF wider, Widened
<1> QED
  BY <1>4, <1>5

LEMMA QueueSound ==
    ASSUME NEW gs, NEW cs, NEW f, Sound(gs, cs, f), Len(gs) > 0,
           NEW affected \in SUBSET Both, "army" \in affected, NEW inputs, InputsOK(inputs, f)
    PROVE  Sound(gs, Queue(cs, Len(gs), affected, inputs), f)
<1> DEFINE n == Len(gs)
           q == Queue(cs, n, affected, inputs)
<1>1. /\ q \in Seq(Correction)
      /\ \A k \in 1 .. Len(q) :
            \/ k \in 1 .. Len(cs) /\ q[k] = cs[k] /\ cs[k].state # "queued"
            \/ /\ k \in 1 .. Len(cs) /\ cs[k].state = "queued"
               /\ q[k] = [cs[k] EXCEPT !.affected = @ \cup affected, !.inputs = @ \o inputs]
            \/ /\ k = Len(cs) + 1 /\ Queued(cs, n) = {}
               /\ q[k] = [source |-> n, gen |-> 0, affected |-> affected,
                          inputs |-> inputs, state |-> "queued"]
      /\ \A k \in 1 .. Len(cs) : k \in 1 .. Len(q)
  <2> HIDE DEF q
  <2>1. q = Queue(cs, Len(gs), affected, inputs)
    BY DEF q
  <2>2. Widened(cs, n, affected, inputs, q)
    BY <2>1, QueueDoes
  <2> QED BY <2>2 DEF Widened
<1>0. \A k \in 1 .. Len(q) : q[k] \in Correction
  <2>1. q \in Seq(Correction)
    BY <1>1
  <2> HIDE DEF q
  <2> QED BY <2>1
<1>2. cs \in Seq(Correction) /\ n \in Nat /\ n > 0 /\ Len(cs) \in Nat
  BY DEF Sound
<1>3. Queued(cs, n) = {k \in 1 .. Len(cs) : cs[k].state = "queued"}
  BY QueuedOne
<1> HIDE DEF q
<1>4. ASSUME NEW k \in 1 .. Len(q)
      PROVE  /\ CorrectionOK(q[k], f)
             /\ k \in 1 .. Len(cs) => q[k].state = cs[k].state /\ q[k].gen = cs[k].gen
                                      /\ q[k].source = cs[k].source
             /\ k \notin 1 .. Len(cs) => /\ q[k].state = "queued" /\ Queued(cs, n) = {}
                                         /\ k = Len(cs) + 1 /\ q[k].gen = 0 /\ q[k].source = n
  <2>1. CASE k \in 1 .. Len(cs) /\ q[k] = cs[k]
    BY <2>1 DEF Sound
  <2>2. CASE k \in 1 .. Len(cs)
             /\ q[k] = [cs[k] EXCEPT !.affected = @ \cup affected, !.inputs = @ \o inputs]
    <3>1. cs[k] \in Correction /\ CorrectionOK(cs[k], f)
      BY <1>2, <2>2 DEF Sound
    <3>2. /\ q[k].affected = cs[k].affected \cup affected /\ q[k].inputs = cs[k].inputs \o inputs
          /\ q[k].state = cs[k].state /\ q[k].gen = cs[k].gen /\ q[k].source = cs[k].source
      BY <2>2, <3>1 DEF Correction
    <3>3. InputsOK(q[k].inputs, f)
      BY <3>1, <3>2, CorrectionInputs, InputsJoined
    <3>4. q[k] \in Correction
      BY <1>0
    <3> QED BY <2>2, <3>1, <3>2, <3>3, <3>4, CorrectionInputs
  <2>3. CASE /\ k = Len(cs) + 1 /\ Queued(cs, n) = {}
             /\ q[k] = [source |-> n, gen |-> 0, affected |-> affected,
                        inputs |-> inputs, state |-> "queued"]
    <3>1. q[k] \in Correction
      BY <1>0
    <3>2. CorrectionOK(q[k], f)
      BY <2>3, <3>1, CorrectionInputs
    <3> QED BY <1>2, <2>3, <3>2
  <2> QED
    BY <1>1, <2>1, <2>2, <2>3
<1>5. Corrected(gs, q)
  <2>1. Corrected(gs, cs)
    BY DEF Sound
  <2>2. ASSUME NEW k \in 1 .. Len(q)
        PROVE  /\ IF q[k].state = "active" THEN q[k].gen = n /\ n > 0 /\ gs[n].corr = "active"
                  ELSE q[k].source = n
               /\ q[k].source \in 1 .. n /\ q[k].gen \in 0 .. n
    <3>1. CASE k \in 1 .. Len(cs)
      BY <1>4, <2>1, <3>1 DEF Corrected
    <3>2. CASE k \notin 1 .. Len(cs)
      BY <1>2, <1>4, <3>2
    <3> QED BY <3>1, <3>2
  <2>3. ASSUME NEW k \in 1 .. Len(q), NEW l \in 1 .. Len(q), q[k].state = q[l].state
        PROVE  k = l
    <3>1. CASE k \in 1 .. Len(cs) /\ l \in 1 .. Len(cs)
      BY <1>4, <2>1, <2>3, <3>1 DEF Corrected
    <3>2. CASE k \notin 1 .. Len(cs) /\ l \in 1 .. Len(cs)
      BY <1>3, <1>4, <2>3, <3>2
    <3>3. CASE k \in 1 .. Len(cs) /\ l \notin 1 .. Len(cs)
      BY <1>3, <1>4, <2>3, <3>3
    <3>4. CASE k \notin 1 .. Len(cs) /\ l \notin 1 .. Len(cs)
      BY <1>4, <3>4
    <3> QED BY <3>1, <3>2, <3>3, <3>4
  <2>4. n > 0 /\ gs[n].corr = "active" => \E k \in 1 .. Len(q) : q[k].state = "active"
    <3>1. SUFFICES ASSUME gs[n].corr = "active"  PROVE \E k \in 1 .. Len(q) : q[k].state = "active"
      OBVIOUS
    <3>2. PICK k \in 1 .. Len(cs) : cs[k].state = "active"
      BY <1>2, <2>1, <3>1 DEF Corrected
    <3> QED BY <1>1, <1>4, <3>2
  <2> QED BY <2>2, <2>3, <2>4 DEF Corrected
<1>6. Sound(gs, q, f)
  BY <1>1, <1>4, <1>5 DEF Sound
<1> QED
  BY <1>6 DEF q

LEMMA RemoveAtDoes ==
    ASSUME NEW S, NEW s \in Seq(S), NEW i \in 1 .. Len(s)
    PROVE  /\ RemoveAt(s, i) \in Seq(S) /\ Len(RemoveAt(s, i)) = Len(s) - 1
           /\ \A k \in 1 .. Len(s) - 1 : RemoveAt(s, i)[k] = IF k < i THEN s[k] ELSE s[k + 1]
<1>1. Len(s) \in Nat /\ i \in Int /\ i - 1 \in Int /\ i + 1 \in Int /\ 1 \in Int /\ Len(s) \in Int
  OBVIOUS
<1> DEFINE a == SubSeq(s, 1, i - 1)
           b == SubSeq(s, i + 1, Len(s))
<1>2. /\ a \in Seq(S) /\ Len(a) = i - 1
      /\ \A k \in 1 .. i - 1 : a[k] = s[k]
  <2>1. \A k \in 1 .. i - 1 : s[k] \in S
    BY <1>1
  <2>2. /\ SubSeq(s, 1, i - 1) \in Seq(S)
        /\ Len(SubSeq(s, 1, i - 1)) = IF 1 <= i - 1 THEN (i - 1) - 1 + 1 ELSE 0
        /\ \A k \in 1 .. (i - 1) - 1 + 1 : SubSeq(s, 1, i - 1)[k] = s[1 + k - 1]
    BY <1>1, <2>1, SubSeqProperties
  <2> HIDE DEF a
  <2>3. /\ a \in Seq(S) /\ Len(a) = IF 1 <= i - 1 THEN (i - 1) - 1 + 1 ELSE 0
        /\ \A k \in 1 .. (i - 1) - 1 + 1 : a[k] = s[1 + k - 1]
    BY <2>2 DEF a
  <2> QED BY <1>1, <2>3
<1>3. /\ b \in Seq(S) /\ Len(b) = Len(s) - i
      /\ \A k \in 1 .. Len(s) - i : b[k] = s[i + k]
  <2>1. \A k \in i + 1 .. Len(s) : s[k] \in S
    BY <1>1
  <2>2. /\ SubSeq(s, i + 1, Len(s)) \in Seq(S)
        /\ Len(SubSeq(s, i + 1, Len(s))) = IF i + 1 <= Len(s) THEN Len(s) - (i + 1) + 1 ELSE 0
        /\ \A k \in 1 .. Len(s) - (i + 1) + 1 : SubSeq(s, i + 1, Len(s))[k] = s[(i + 1) + k - 1]
    BY <1>1, <2>1, SubSeqProperties
  <2> HIDE DEF b
  <2>3. /\ b \in Seq(S) /\ Len(b) = IF i + 1 <= Len(s) THEN Len(s) - (i + 1) + 1 ELSE 0
        /\ \A k \in 1 .. Len(s) - (i + 1) + 1 : b[k] = s[(i + 1) + k - 1]
    BY <2>2 DEF b
  <2> QED BY <1>1, <2>3
<1>4. RemoveAt(s, i) = a \o b
  BY DEF RemoveAt
<1> HIDE DEF a, b
<1>5. /\ a \o b \in Seq(S) /\ Len(a \o b) = Len(a) + Len(b)
      /\ \A k \in 1 .. Len(a) + Len(b) : (a \o b)[k] = IF k <= Len(a) THEN a[k] ELSE b[k - Len(a)]
  BY <1>2, <1>3, ConcatProperties
<1>6. \A k \in 1 .. Len(s) - 1 : (a \o b)[k] = IF k < i THEN s[k] ELSE s[k + 1]
  <2>1. ASSUME NEW k \in 1 .. Len(s) - 1  PROVE (a \o b)[k] = IF k < i THEN s[k] ELSE s[k + 1]
    <3>1. CASE k < i
      BY <1>1, <1>2, <1>3, <1>5, <3>1
    <3>2. CASE ~(k < i)
      <4>1. k - (i - 1) \in 1 .. Len(s) - i /\ i + (k - (i - 1)) = k + 1 /\ ~(k <= Len(a))
        BY <1>1, <1>2, <3>2
      <4>2. b[k - (i - 1)] = s[k + 1]
        BY <1>3, <4>1
      <4>3. k \in 1 .. Len(a) + Len(b)
        BY <1>1, <1>2, <1>3
      <4> QED BY <1>2, <1>5, <3>2, <4>1, <4>2, <4>3
    <3> QED BY <3>1, <3>2
  <2> QED BY <2>1
<1> QED
  BY <1>1, <1>2, <1>3, <1>4, <1>5, <1>6

\* What is left of the corrections once the one under way is done with.
Left(cs, left) ==
    /\ left \in Seq(Correction) /\ Len(left) <= 1
    /\ \A k \in 1 .. Len(left) : left[k].state = "queued" /\ \E j \in 1 .. Len(cs) : left[k] = cs[j]
    /\ \A j \in 1 .. Len(cs) : cs[j].state = "queued" => \E k \in 1 .. Len(left) : left[k] = cs[j]

LEMMA FinalizedDoes ==
    ASSUME NEW gs, NEW cs, NEW f, Sound(gs, cs, f), Len(gs) > 0
    PROVE  Left(cs, Finalized(cs, Len(gs)))
<1> DEFINE n == Len(gs)
           at == {k \in 1 .. Len(cs) : cs[k].state = "active" /\ cs[k].gen = n}
           left == Finalized(cs, n)
<1>1. cs \in Seq(Correction) /\ Len(cs) \in Nat
  BY DEF Sound
<1>2. /\ \A k \in 1 .. Len(cs) : cs[k].state = "active" => cs[k].gen = n
      /\ \A k, l \in 1 .. Len(cs) : cs[k].state = cs[l].state => k = l
  BY DEF Sound, Corrected
<1>3. \A k \in 1 .. Len(cs) : cs[k].state \in {"queued", "active"} /\ cs[k] \in Correction
  <2>1. \A k \in 1 .. Len(cs) : cs[k] \in Correction
    BY <1>1
  <2> QED BY <2>1 DEF Correction
<1>4. CASE at = {}
  <2>1. left = cs
    BY <1>4 DEF Finalized
  <2>2. \A k \in 1 .. Len(cs) : cs[k].state = "queued"
    BY <1>2, <1>3, <1>4
  <2>3. Len(cs) <= 1
    <3>1. ASSUME Len(cs) > 1  PROVE FALSE
      <4>1. 1 \in 1 .. Len(cs) /\ 2 \in 1 .. Len(cs)
        BY <1>1, <3>1
      <4> QED BY <1>2, <2>2, <4>1
    <3> QED BY <1>1, <3>1
  <2> HIDE DEF left
  <2> QED BY <1>1, <2>1, <2>2, <2>3 DEF Left, left
<1>5. CASE at # {}
  <2> DEFINE a == CHOOSE k \in at : TRUE
  <2>1. a \in at
    BY <1>5
  <2>2. left = RemoveAt(cs, a)
    BY <1>5 DEF Finalized
  <2> HIDE DEF a, left
  <2>3. a \in 1 .. Len(cs) /\ cs[a].state = "active"
    BY <2>1
  <2>4. \A k \in 1 .. Len(cs) : k # a => cs[k].state = "queued"
    BY <1>2, <1>3, <2>3
  <2>5. \A k, l \in 1 .. Len(cs) : k # a /\ l # a => k = l
    BY <1>2, <2>4
  <2>6. Len(cs) <= 2
    <3>1. ASSUME Len(cs) > 2  PROVE FALSE
      <4>1. 1 \in 1 .. Len(cs) /\ 2 \in 1 .. Len(cs) /\ 3 \in 1 .. Len(cs)
        BY <1>1, <3>1
      <4> QED BY <2>5, <4>1
    <3> QED BY <1>1, <3>1
  <2>7. /\ left \in Seq(Correction) /\ Len(left) = Len(cs) - 1
        /\ \A k \in 1 .. Len(cs) - 1 : left[k] = IF k < a THEN cs[k] ELSE cs[k + 1]
    BY <1>1, <2>2, <2>3, RemoveAtDoes
  <2>8. ASSUME NEW k \in 1 .. Len(left)
        PROVE  left[k].state = "queued" /\ \E j \in 1 .. Len(cs) : left[k] = cs[j]
    <3>1. CASE k < a
      <4>1. k \in 1 .. Len(cs) /\ k # a /\ left[k] = cs[k]
        BY <1>1, <2>3, <2>7, <3>1
      <4> QED BY <2>4, <4>1
    <3>2. CASE ~(k < a)
      <4>1. k + 1 \in 1 .. Len(cs) /\ k + 1 # a /\ left[k] = cs[k + 1]
        BY <1>1, <2>3, <2>7, <3>2
      <4> QED BY <2>4, <4>1
    <3> QED BY <3>1, <3>2
  <2>9. ASSUME NEW j \in 1 .. Len(cs), cs[j].state = "queued"
        PROVE  \E k \in 1 .. Len(left) : left[k] = cs[j]
    <3>1. CASE j < a
      <4>1. j \in 1 .. Len(left) /\ left[j] = cs[j]
        BY <1>1, <2>3, <2>7, <3>1
      <4> QED BY <4>1
    <3>2. CASE j > a
      <4>1. j - 1 \in 1 .. Len(left) /\ ~(j - 1 < a) /\ (j - 1) + 1 = j
        BY <1>1, <2>3, <2>7, <3>2
      <4>2. left[j - 1] = cs[j]
        BY <2>7, <4>1
      <4> QED BY <4>1, <4>2
    <3>3. j # a
      BY <2>3, <2>9
    <3> QED BY <2>3, <3>1, <3>2, <3>3
  <2>10. Len(left) <= 1
    BY <1>1, <2>6, <2>7
  <2> QED BY <2>7, <2>8, <2>9, <2>10 DEF Left, left
<1> QED
  BY <1>4, <1>5

LEMMA NewGenerationOK ==
    ASSUME NEW f, NEW ms, MembersOK(ms, f), NEW source \in Nat, NEW affected \in SUBSET Both,
           NEW corr \in {"none", "active", "finalized"}
    PROVE  GenOK(NewGeneration(source, affected, corr, ms), f)
<1> DEFINE g == NewGeneration(source, affected, corr, ms)
<1>1. ms \in Members
  BY MembersTyped
<1>2. /\ g.snap = "pending" /\ g.army = "pending" /\ g.corr = corr /\ g.affected = affected
      /\ g.source = source /\ g.members = ms /\ g.ranked = None /\ g.read = None
      /\ g.statistics = FALSE /\ g.armies = FALSE
  BY DEF NewGeneration
<1>3. g \in Generation
  BY <1>1 DEF NewGeneration, Generation, Artifact
<1> HIDE DEF g
<1>4. GenOK(g, f)
  BY <1>2, <1>3 DEF GenOK, GenBody, MembersOK, Ended
<1> QED
  BY <1>4 DEF g

\* Generations that are all whole and done with.
Whole(gs, f) ==
    /\ gs \in Seq(Generation)
    /\ \A i \in 1 .. Len(gs) :
        /\ GenOK(gs[i], f)
        /\ gs[i].source = i - 1 /\ Ended(gs[i].snap) /\ Ended(gs[i].army) /\ gs[i].corr = "finalized"

\* The next generation, with the one correction that leads to it.
LEMMA AppendSound ==
    ASSUME NEW gs, NEW f, Whole(gs, f), Len(gs) > 0,
           f.day \in [Players -> Nat], f.decodes \in [Players -> Nat], f.below \subseteq Players,
           NEW g, GenOK(g, f), g.source = Len(gs), g.corr = "active",
           g.snap # "superseded", g.army # "superseded",
           NEW cs, cs \in Seq(Correction), NEW k \in 1 .. Len(cs), \A j \in 1 .. Len(cs) : j = k,
           CorrectionOK(cs[k], f),
           cs[k].state = "active", cs[k].gen = Len(gs) + 1, cs[k].source = Len(gs)
    PROVE  Sound(Append(gs, g), cs, f) /\ Len(Append(gs, g)) = Len(gs) + 1
<1> DEFINE r == Append(gs, g)
           n == Len(gs) + 1
<1>1. gs \in Seq(Generation) /\ g \in Generation /\ Len(gs) \in Nat
  BY DEF Whole, GenOK, GenBody
<1>2. /\ r \in Seq(Generation) /\ Len(r) = n /\ r[n] = g
      /\ \A i \in 1 .. Len(gs) : r[i] = gs[i]
  BY <1>1, AppendProperties
<1> HIDE DEF r
<1>3. ASSUME NEW i \in 1 .. n
      PROVE  /\ GenOK(r[i], f) /\ r[i].source = i - 1 /\ r[i].corr # "none"
             /\ i \in 1 .. Len(gs) => Ended(r[i].snap) /\ Ended(r[i].army) /\ r[i].corr = "finalized"
  <2>1. CASE i \in 1 .. Len(gs)
    BY <1>2, <2>1 DEF Whole
  <2>2. CASE i = n
    BY <1>1, <1>2, <2>2
  <2> QED BY <1>1, <2>1, <2>2
<1>4. Linked(r)
  <2>1. Len(r) - 1 = Len(gs) /\ \A i \in 1 .. Len(gs) : i \in 1 .. n
    BY <1>1, <1>2
  <2> QED BY <1>2, <1>3, <2>1 DEF Linked
<1>5. Corrected(r, cs)
  <2>1. Len(r) = n /\ n \in Nat /\ n > 0 /\ Len(gs) \in 1 .. n /\ n \in 0 .. n
    BY <1>1, <1>2
  <2> HIDE DEF n
  <2>2. cs[k].state = "active" /\ cs[k].gen = n /\ cs[k].source \in 1 .. n /\ r[n].corr = "active"
    BY <1>2, <2>1 DEF n
  <2> QED BY <2>1, <2>2 DEF Corrected
<1>6. \A j \in 1 .. Len(cs) : CorrectionOK(cs[j], f)
  OBVIOUS
<1>7. Sound(r, cs, f) /\ Len(r) = n
  BY <1>2, <1>3, <1>4, <1>5, <1>6 DEF Sound
<1> QED
  BY <1>7 DEF r

\* A sequence with another element; the waiting correction once it is started.
Put(s, i, e) == [s EXCEPT ![i] = e]
Started(left, k, n) == [left EXCEPT ![k].state = "active", ![k].gen = n]

\* The newest generation is whole and done with, and its correction: one may wait.
LEMMA DoneSound ==
    ASSUME NEW gs, NEW cs, NEW f, Sound(gs, cs, f), NEW n, n = Len(gs), n > 0,
           NEW g, GenBody(g, f), g.source = gs[n].source, g.corr = "finalized",
           g.snap = "published", g.army = "published",
           NEW left, Left(cs, left), NEW r, r = Put(gs, n, g)
    PROVE  Sound(r, left, f) /\ Whole(r, f) /\ Len(r) = n /\ r[n] = g
<1>1. /\ gs \in Seq(Generation) /\ g \in Generation /\ n \in Nat /\ n \in 1 .. Len(gs) /\ GenOK(g, f)
      /\ n - 1 + 1 = n
  BY DEF Sound, GenOK, GenBody
<1>2. /\ r \in Seq(Generation) /\ Len(r) = n /\ r[n] = g
      /\ \A i \in 1 .. Len(gs) : i # n => r[i] = gs[i]
  BY <1>1, ExceptSeq DEF Put
<1>3. ASSUME NEW i \in 1 .. n
      PROVE  /\ GenOK(r[i], f) /\ r[i].source = i - 1 /\ r[i].corr = "finalized"
             /\ Ended(r[i].snap) /\ Ended(r[i].army)
  <2>1. CASE i # n
    <3>1. i < Len(gs) /\ r[i] = gs[i] /\ i \in 1 .. Len(gs)
      BY <1>1, <1>2, <2>1
    <3> QED BY <3>1, EarlierEnded DEF Sound, Linked
  <2>2. CASE i = n
    <3>1. gs[n].source = n - 1
      BY <1>1 DEF Sound, Linked
    <3> QED BY <1>1, <1>2, <2>2, <3>1 DEF Ended
  <2> QED BY <2>1, <2>2
<1>4. Whole(r, f)
  BY <1>2, <1>3 DEF Whole
<1>5. Linked(r)
  <2>1. \A i \in 1 .. n - 1 : i \in 1 .. n
    BY <1>1
  <2>2. \A i \in 1 .. n : /\ r[i].source = i - 1 /\ r[i].corr = "finalized"
                           /\ Ended(r[i].snap) /\ Ended(r[i].army)
    BY <1>2, <1>3 DEF Whole
  <2> QED BY <1>1, <1>2, <2>1, <2>2 DEF Linked
<1>6. \A k \in 1 .. Len(left) : /\ CorrectionOK(left[k], f) /\ left[k].state = "queued"
                                /\ left[k].source = n /\ left[k].gen = 0
  <2>1. \A j \in 1 .. Len(cs) : cs[j].state = "queued" =>
            CorrectionOK(cs[j], f) /\ cs[j].source = n /\ cs[j].gen = 0
    BY DEF Sound, Corrected, CorrectionOK
  <2> QED BY <2>1 DEF Left
<1>7. Corrected(r, left)
  <2>1. \A k, l \in 1 .. Len(left) : k = l
    BY DEF Left
  <2>2. n \in 1 .. n /\ 0 \in 0 .. n
    BY <1>1
  <2>3. r[n].corr # "active"
    BY <1>2
  <2> QED BY <1>2, <1>6, <2>1, <2>2, <2>3 DEF Corrected
<1> QED
  BY <1>2, <1>3, <1>4, <1>5, <1>6, <1>7 DEF Sound, Left

LEMMA SuccessorOK ==
    ASSUME NEW gs, NEW cs, NEW f, Sound(gs, cs, f), tracked \subseteq Players,
           NEW i \in 1 .. Len(gs), gs[i].snap = "published",
           NEW c, CorrectionOK(c, f), c.state = "queued",
           NEW h, h = Successor(gs, i, c, f)
    PROVE  /\ GenOK(h, f) /\ h.source = i /\ h.corr = "active"
           /\ h.snap # "superseded" /\ h.army = "pending"
<1> DEFINE ms == WithInputs(Copied(gs, i, f), c.inputs, f)
           fresh == NewGeneration(i, c.affected, "active", ms)
<1>1. /\ GenOK(gs[i], f) /\ gs[i] \in Generation /\ i \in Nat /\ gs \in Seq(Generation)
      /\ f.day \in [Players -> Nat] /\ f.decodes \in [Players -> Nat] /\ i \in 0 .. Len(gs)
  BY DEF Sound, GenOK, GenBody
<1>2. c.affected \in SUBSET Both /\ "army" \in c.affected /\ InputsOK(c.inputs, f)
  BY CorrectionInputs DEF Correction
<1>3. MembersOK(ms, f)
  <2>1. MembersOK(Copied(gs, i, f), f)
    BY <1>1, CopiedOK
  <2> QED BY <1>1, <1>2, <2>1, WithInputsOK
<1> HIDE DEF ms
<1>4. GenOK(fresh, f)
  BY <1>1, <1>2, <1>3, NewGenerationOK
<1>5. /\ fresh.snap = "pending" /\ fresh.army = "pending" /\ fresh.corr = "active"
      /\ fresh.affected = c.affected /\ fresh.source = i /\ fresh.members = ms
      /\ fresh.ranked = None /\ fresh.read = None /\ fresh.statistics = FALSE /\ fresh.armies = FALSE
  BY DEF NewGeneration
<1>6. h = IF "snapshot" \in c.affected THEN fresh
          ELSE [fresh EXCEPT !.snap = gs[i].snap, !.ranked = gs[i].ranked,
                             !.statistics = gs[i].statistics]
  BY <1>2 DEF Successor, ms
<1> HIDE DEF fresh
<1>7. CASE "snapshot" \in c.affected
  <2>1. h = fresh
    BY <1>6, <1>7
  <2> QED BY <1>4, <1>5, <2>1
<1>8. CASE "snapshot" \notin c.affected
  <2>1. h = [fresh EXCEPT !.snap = gs[i].snap, !.ranked = gs[i].ranked,
                          !.statistics = gs[i].statistics]
    BY <1>6, <1>8
  <2>2. fresh \in Generation
    BY <1>4 DEF GenOK, GenBody
  <2>3. /\ gs[i].ranked # None /\ gs[i].ranked \in Ranks \cup {None} /\ gs[i].statistics = TRUE
        /\ \A p \in DOMAIN gs[i].ranked : gs[i].ranked[p] \in 1 .. f.day[p]
    BY <1>1 DEF GenOK, GenBody, Generation, Ended
  <2>4. /\ h \in Generation /\ h.snap = "published" /\ h.ranked = gs[i].ranked /\ h.statistics = TRUE
        /\ h.army = fresh.army /\ h.corr = fresh.corr /\ h.affected = fresh.affected
        /\ h.source = fresh.source /\ h.members = fresh.members /\ h.read = fresh.read
        /\ h.armies = fresh.armies
    BY <2>1, <2>2, <2>3 DEF Generation, Artifact
  <2>5. GenOK(h, f)
    BY <1>4, <1>5, <2>3, <2>4 DEF GenOK, GenBody, Ended, ToInherit
  <2> QED BY <1>5, <2>4, <2>5
<1> QED
  BY <1>7, <1>8

DoneWith(g) == [g EXCEPT !.corr = "finalized"]

\* What Emit makes of the newest generation n, now g: nothing until it is whole; then
\* it is done with, and the waiting correction starts from it unless held back.
Emitted(gs, cs, n, g, army, f, t, pub) ==
    LET done == Put(gs, n, DoneWith(g))
    IN  \/ /\ ~(g.statistics /\ g.armies)
           /\ pub.gens = Put(gs, n, g) /\ pub.corrections = cs
        \/ /\ g.statistics /\ g.armies
           /\ pub.gens = done /\ Left(cs, pub.corrections)
           /\ t # "open" \/ pub.corrections = <<>>
        \/ /\ g.statistics /\ g.armies /\ t = "open"
           /\ \E left : \E k \in 1 .. Len(left) :
                /\ Left(cs, left)
                /\ pub.gens = TryEnqueue(Append(done, Successor(done, n, left[k], f)),
                                         n + 1, army, f, t)
                /\ pub.corrections = Started(left, k, n + 1)

LEMMA EmitDoes ==
    ASSUME NEW gs, NEW cs, NEW f, Sound(gs, cs, f), NEW n, n = Len(gs), n > 0,
           NEW g, GenBody(g, f), NEW army, NEW t
    PROVE  Emitted(gs, cs, n, g, army, f, t, Emit(Put(gs, n, g), cs, n, army, f, t))
<1> DEFINE r == Put(gs, n, g)
           done == Put(gs, n, DoneWith(g))
           left == Finalized(cs, n)
           waiting == {k \in 1 .. Len(left) : left[k].state = "queued"}
           pub == Emit(r, cs, n, army, f, t)
<1>1. gs \in Seq(Generation) /\ n \in Nat /\ n \in 1 .. Len(gs) /\ g \in Generation
  BY DEF Sound, GenBody
<1>2. r[n] = g /\ [r EXCEPT ![n].corr = "finalized"] = done /\ done[n] = DoneWith(g)
  <2>1. r[n] = g /\ done[n] = DoneWith(g)
    BY <1>1 DEF Put
  <2>2. [r EXCEPT ![n].corr = "finalized"] = [r EXCEPT ![n] = [r[n] EXCEPT !.corr = "finalized"]]
    OBVIOUS
  <2>3. [r EXCEPT ![n] = DoneWith(g)] = done
    BY <1>1 DEF Put
  <2> HIDE DEF r, done
  <2> QED BY <2>1, <2>2, <2>3 DEF DoneWith
<1>3. Left(cs, left)
  BY FinalizedDoes
<1>4. Len(done) = n /\ Len(r) = n
  <2>1. DoneWith(g) \in Generation
    BY <1>1 DEF DoneWith, Generation
  <2> QED BY <1>1, <2>1, ExceptSeq DEF Put
<1> HIDE DEF left, done, r
<1>5. CASE ~(g.statistics /\ g.armies)
  <2>1. pub = [gens |-> r, corrections |-> cs]
    BY <1>2, <1>5 DEF Emit
  <2> HIDE DEF pub
  <2>2. pub.gens = Put(gs, n, g) /\ pub.corrections = cs
    BY <2>1 DEF r
  <2> QED BY <1>5, <2>2 DEF Emitted, pub, r
<1>6. CASE g.statistics /\ g.armies /\ (t # "open" \/ waiting = {})
  <2>1. pub = [gens |-> done, corrections |-> left]
    BY <1>2, <1>6 DEF Emit, left
  <2>2. t # "open" \/ left = <<>>
    <3>1. CASE waiting = {}
      <4>1. Len(left) \in Nat /\ left \in Seq(Correction)
            /\ \A k \in 1 .. Len(left) : left[k].state = "queued"
        BY <1>3 DEF Left
      <4>2. \A k \in 1 .. Len(left) : FALSE
        BY <3>1, <4>1
      <4>3. Len(left) = 0
        <5>1. CASE Len(left) > 0
          <6>1. 1 \in 1 .. Len(left)
            BY <4>1, <5>1
          <6> QED BY <4>2, <6>1
        <5> QED BY <4>1, <5>1
      <4> QED BY <4>1, <4>3, EmptySeq
    <3> QED BY <1>6, <3>1
  <2> HIDE DEF pub
  <2>3. /\ g.statistics /\ g.armies
        /\ pub.gens = Put(gs, n, DoneWith(g)) /\ Left(cs, pub.corrections)
        /\ t # "open" \/ pub.corrections = <<>>
    BY <1>3, <1>6, <2>1, <2>2 DEF done
  <2>4. Emitted(gs, cs, n, g, army, f, t, pub)
    BY <2>3 DEF Emitted
  <2> QED BY <2>4 DEF pub, r
<1>7. CASE g.statistics /\ g.armies /\ ~(t # "open" \/ waiting = {})
  <2> DEFINE k == CHOOSE j \in waiting : \A l \in waiting : j <= l
  <2>1. k \in 1 .. Len(left)
    <3>1. Len(left) \in Nat /\ Len(left) <= 1 /\ left \in Seq(Correction)
          /\ \A j \in 1 .. Len(left) : left[j].state = "queued"
      BY <1>3 DEF Left
    <3>2. PICK j \in 1 .. Len(left) : TRUE
      BY <1>7
    <3>3. Len(left) = 1
      BY <3>1, <3>2
    <3>4. waiting = {1}
      BY <3>1, <3>3
    <3> QED BY <3>3, <3>4
  <2>2. pub = [gens |-> TryEnqueue(Append(done, Successor(done, n, left[k], f)), n + 1, army, f, t),
               corrections |-> [left EXCEPT ![k].state = "active", ![k].gen = n + 1]]
    <3>1. k = CHOOSE j \in waiting : \A l \in waiting : j <= l
      OBVIOUS
    <3> HIDE DEF k
    <3> QED BY <1>2, <1>4, <1>7, <3>1 DEF Emit, left
  <2> HIDE DEF pub, k
  <2>3. /\ pub.gens = TryEnqueue(Append(done, Successor(done, n, left[k], f)), n + 1, army, f, t)
        /\ pub.corrections = Started(left, k, n + 1)
    BY <2>2 DEF Started
  <2>4. Emitted(gs, cs, n, g, army, f, t, pub)
    BY <1>3, <1>7, <2>1, <2>3 DEF Emitted, done
  <2> QED BY <2>4 DEF pub, r
<1> QED
  BY <1>5, <1>6, <1>7

LEMMA DoneWithOK ==
    ASSUME NEW f, NEW g, GenBody(g, f), NEW h, h = DoneWith(g)
    PROVE  /\ GenBody(h, f) /\ h.corr = "finalized" /\ h.snap = g.snap /\ h.army = g.army
           /\ h.source = g.source /\ h.members = g.members
<1>1. g \in Generation
  BY DEF GenBody
<1>2. /\ h \in Generation /\ h.members = g.members /\ h.read = g.read /\ h.corr = "finalized"
      /\ h.affected = g.affected /\ h.source = g.source /\ h.statistics = g.statistics
      /\ h.armies = g.armies /\ h.snap = g.snap /\ h.army = g.army /\ h.ranked = g.ranked
  BY <1>1 DEF Generation, DoneWith
<1>3. GenBody(h, f)
  BY <1>2 DEF GenBody, ToInherit
<1> QED
  BY <1>2, <1>3

LEMMA PutDoes ==
    ASSUME NEW S, NEW s \in Seq(S), NEW i \in 1 .. Len(s), NEW e \in S, NEW r, r = Put(s, i, e)
    PROVE  /\ r \in Seq(S) /\ Len(r) = Len(s) /\ r[i] = e
           /\ \A j \in 1 .. Len(s) : j # i => r[j] = s[j]
BY ExceptSeq DEF Put

Starts(left, i, n, r, f) ==
    /\ r \in Seq(Correction) /\ Len(r) = Len(left) /\ CorrectionOK(r[i], f)
    /\ r[i].state = "active" /\ r[i].gen = n /\ r[i].source = left[i].source

LEMMA StartedOK ==
    ASSUME NEW f, NEW left, left \in Seq(Correction), NEW i, i \in 1 .. Len(left),
           CorrectionOK(left[i], f), NEW n, n \in Nat, NEW r, r = Started(left, i, n)
    PROVE  Starts(left, i, n, r, f)
<1> DEFINE d == [left[i] EXCEPT !.state = "active", !.gen = n]
<1>1. left[i] \in Correction
  OBVIOUS
<1>2. /\ d \in Correction /\ d.inputs = left[i].inputs /\ d.state = "active" /\ d.gen = n
      /\ d.source = left[i].source
  BY <1>1 DEF Correction
<1>3. CorrectionOK(d, f)
  BY <1>2, CorrectionInputs
<1>4. r = Put(left, i, d)
  BY DEF Started, Put
<1> HIDE DEF d
<1>5. r \in Seq(Correction) /\ Len(r) = Len(left) /\ r[i] = d
  <2>1. d \in Correction
    BY <1>2
  <2>2. r \in Seq(Correction)
    BY <1>4, <2>1, PutDoes
  <2>3. Len(r) = Len(left)
    BY <1>4, <2>1, PutDoes
  <2>4. r[i] = d
    BY <1>4 DEF Put
  <2> QED BY <2>2, <2>3, <2>4
<1> QED
  BY <1>2, <1>3, <1>5 DEF Starts

\* The state Emit starts the waiting correction in.
LEMMA StartSound ==
    ASSUME NEW gs, NEW cs, NEW f, Sound(gs, cs, f), tracked \subseteq Players,
           NEW n, n = Len(gs), n > 0,
           NEW g, GenBody(g, f), g.source = gs[n].source, g.snap = "published", g.army = "published",
           NEW left, Left(cs, left), NEW k \in 1 .. Len(left),
           NEW done, done = Put(gs, n, DoneWith(g)),
           NEW cs2, cs2 = Started(left, k, n + 1)
    PROVE  /\ Sound(Append(done, Successor(done, n, left[k], f)), cs2, f)
           /\ Len(Append(done, Successor(done, n, left[k], f))) = n + 1
           /\ Sound(done, left, f) /\ Len(done) = n /\ done[n] = DoneWith(g)
           /\ CorrectionOK(left[k], f) /\ left[k].state = "queued"
           /\ Whole(done, f)
<1> DEFINE c == left[k]
           h == DoneWith(g)
           s == Successor(done, n, c, f)
<1>1. GenBody(h, f) /\ h.corr = "finalized" /\ h.snap = "published" /\ h.army = "published"
      /\ h.source = gs[n].source
  <2>1. h = DoneWith(g)
    BY DEF h
  <2> HIDE DEF h
  <2> QED BY <2>1, DoneWithOK
<1> HIDE DEF h
<1>2. Sound(done, left, f) /\ Whole(done, f) /\ Len(done) = n /\ done[n] = h
  <2>1. done = Put(gs, n, h)
    BY DEF h
  <2> QED BY <1>1, <2>1, DoneSound
<1>3. /\ left \in Seq(Correction) /\ n \in Nat /\ n \in 1 .. Len(done)
      /\ f.day \in [Players -> Nat] /\ f.decodes \in [Players -> Nat] /\ f.below \subseteq Players
  BY <1>2 DEF Sound, Left
<1>4. CorrectionOK(c, f) /\ c.state = "queued" /\ c \in Correction /\ c.source = n
  BY <1>2, <1>3 DEF Sound, Corrected, Left, CorrectionOK
<1> HIDE DEF c
<1>5. /\ GenOK(s, f) /\ s.source = n /\ s.corr = "active"
      /\ s.snap # "superseded" /\ s.army = "pending"
  <2>1. done[n].snap = "published" /\ n \in 1 .. Len(done) /\ Sound(done, left, f)
    BY <1>1, <1>2, <1>3
  <2>2. CorrectionOK(c, f) /\ c.state = "queued"
    BY <1>4
  <2>3. s = Successor(done, n, c, f)
    BY DEF s
  <2> HIDE DEF s
  <2> QED BY <2>1, <2>2, <2>3, SuccessorOK
<1> HIDE DEF s
<1>6. /\ cs2 \in Seq(Correction) /\ k \in 1 .. Len(cs2) /\ CorrectionOK(cs2[k], f)
      /\ cs2[k].state = "active" /\ cs2[k].gen = n + 1 /\ cs2[k].source = n
      /\ \A j \in 1 .. Len(cs2) : j = k
  <2> DEFINE m == n + 1
  <2>1. m \in Nat /\ left \in Seq(Correction) /\ cs2 = Started(left, k, m)
    BY <1>3
  <2>2. CorrectionOK(left[k], f) /\ left[k].source = n
    BY <1>4 DEF c
  <2> HIDE DEF m
  <2>3. /\ cs2 \in Seq(Correction) /\ Len(cs2) = Len(left) /\ CorrectionOK(cs2[k], f)
        /\ cs2[k].state = "active" /\ cs2[k].gen = m /\ cs2[k].source = left[k].source
    <3>1. Starts(left, k, m, cs2, f)
      BY <2>1, <2>2, StartedOK
    <3> QED BY <3>1 DEF Starts
  <2>4. \A j \in 1 .. Len(left) : j = k
    BY DEF Left
  <2> QED BY <2>2, <2>3, <2>4 DEF m
<1>7. Sound(Append(done, s), cs2, f) /\ Len(Append(done, s)) = n + 1
  BY <1>2, <1>3, <1>5, <1>6, AppendSound
<1> QED
  BY <1>2, <1>4, <1>7 DEF s, c, h

LEMMA EmitSound ==
    ASSUME NEW gs, NEW cs, NEW f, Sound(gs, cs, f), tracked \subseteq Players,
           NEW n, n = Len(gs), n > 0,
           NEW g, GenBody(g, f), g.source = gs[n].source, g.corr = gs[n].corr,
           g.snap # "superseded", g.army # "superseded", NEW army, NEW t,
           NEW pub, pub = Emit(Put(gs, n, g), cs, n, army, f, t)
    PROVE  Sound(pub.gens, pub.corrections, f)
<1>1. Emitted(gs, cs, n, g, army, f, t, pub)
  BY EmitDoes
<1> DEFINE done == Put(gs, n, DoneWith(g))
<1>2. n \in Nat /\ n \in 1 .. Len(gs)
  BY DEF Sound
<1>3. CASE ~(g.statistics /\ g.armies) /\ pub.gens = Put(gs, n, g) /\ pub.corrections = cs
  <2>1. GenOK(g, f)
    BY <1>3 DEF GenOK
  <2>2. ~(n < Len(gs)) /\ gs[n].snap = gs[n].snap
    BY <1>2
  <2>3. Sound(Put(gs, n, g), cs, f)
    BY <1>2, <2>1, <2>2, ReplaceOK DEF Put
  <2> QED BY <1>3, <2>3
<1>4. ASSUME g.statistics, g.armies
      PROVE  g.snap = "published" /\ g.army = "published"
  BY <1>4 DEF GenBody, Ended
<1>5. CASE g.statistics /\ g.armies /\ pub.gens = done /\ Left(cs, pub.corrections)
  <2> DEFINE h == DoneWith(g)
  <2>1. GenBody(h, f) /\ h.corr = "finalized" /\ h.snap = "published" /\ h.army = "published"
        /\ h.source = gs[n].source
    <3>1. h = DoneWith(g)
      BY DEF h
    <3> HIDE DEF h
    <3> QED BY <1>4, <1>5, <3>1, DoneWithOK
  <2> HIDE DEF h
  <2>2. pub.gens = Put(gs, n, h)
    BY <1>5 DEF h
  <2> QED BY <1>5, <2>1, <2>2, DoneSound
<1>6. CASE /\ g.statistics /\ g.armies
           /\ \E left : \E k \in 1 .. Len(left) :
                /\ Left(cs, left)
                /\ pub.gens = TryEnqueue(Append(done, Successor(done, n, left[k], f)),
                                         n + 1, army, f, t)
                /\ pub.corrections = Started(left, k, n + 1)
  <2>1. PICK left : \E k \in 1 .. Len(left) :
            /\ Left(cs, left)
            /\ pub.gens = TryEnqueue(Append(done, Successor(done, n, left[k], f)),
                                     n + 1, army, f, t)
            /\ pub.corrections = Started(left, k, n + 1)
    BY <1>6
  <2>0. PICK k \in 1 .. Len(left) :
            /\ Left(cs, left)
            /\ pub.gens = TryEnqueue(Append(done, Successor(done, n, left[k], f)),
                                     n + 1, army, f, t)
            /\ pub.corrections = Started(left, k, n + 1)
    BY <2>1
  <2> DEFINE a == Append(done, Successor(done, n, left[k], f))
  <2>2. Sound(a, pub.corrections, f) /\ Len(a) = n + 1
    <3> HIDE DEF done
    <3>1. done = Put(gs, n, DoneWith(g))
      BY DEF done
    <3> QED BY <1>4, <1>6, <2>0, <3>1, StartSound
  <2> HIDE DEF a
  <2>3. n + 1 \in 1 .. Len(a)
    BY <1>2, <2>2
  <2>4. Sound(TryEnqueue(a, n + 1, army, f, t), pub.corrections, f)
    BY <2>2, <2>3, EnqueueSound
  <2> QED BY <2>0, <2>4 DEF a
<1> QED
  BY <1>1, <1>3, <1>5, <1>6 DEF Emitted

-----------------------------------------------------------------------------
(* The saved facts grow, and the publication stays sound.                  *)

LEMMA GenerationLater ==
    ASSUME NEW f, NEW h, f.day \in [Players -> Nat], f.decodes \in [Players -> Nat], Later(f, h),
           NEW g, GenOK(g, f)
    PROVE  GenOK(g, h)
<1>1. /\ DOMAIN g.members \subseteq Players
      /\ g.ranked # None => DOMAIN g.ranked \subseteq Players /\ g.ranked \in [DOMAIN g.ranked -> Nat]
      /\ g.read # None => /\ DOMAIN g.read \subseteq Players
                          /\ g.read \in [DOMAIN g.read -> [ver : Nat, decodes : Nat]]
  BY DEF GenOK, GenBody, Generation, Members, Ranks, Reads
<1>2. \A p \in DOMAIN g.members : MemberOK(g.members[p], h.day[p])
  <2>1. ASSUME NEW p \in DOMAIN g.members  PROVE MemberOK(g.members[p], h.day[p])
    <3>1. MemberOK(g.members[p], f.day[p]) /\ f.day[p] <= h.day[p] /\ f.day[p] \in Nat /\ h.day[p] \in Nat
      BY <1>1 DEF Later, GenOK, GenBody
    <3> QED BY <3>1 DEF MemberOK, Member
  <2> QED BY <2>1
<1>3. g.ranked # None => \A p \in DOMAIN g.ranked : g.ranked[p] \in 1 .. h.day[p]
  <2>1. ASSUME g.ranked # None, NEW p \in DOMAIN g.ranked  PROVE g.ranked[p] \in 1 .. h.day[p]
    <3>1. g.ranked[p] \in 1 .. f.day[p] /\ p \in Players
      BY <1>1, <2>1 DEF GenOK, GenBody
    <3>2. f.day[p] <= h.day[p] /\ f.day[p] \in Nat /\ h.day[p] \in Nat
      BY <3>1 DEF Later
    <3> QED BY <3>1, <3>2
  <2> QED BY <2>1
<1>4. g.read # None => \A p \in DOMAIN g.read :
                            g.read[p].ver \in 1 .. h.day[p] /\ g.read[p].decodes <= h.decodes[p]
  <2>1. ASSUME g.read # None, NEW p \in DOMAIN g.read
        PROVE  g.read[p].ver \in 1 .. h.day[p] /\ g.read[p].decodes <= h.decodes[p]
    <3>1. g.read[p].ver \in 1 .. f.day[p] /\ g.read[p].decodes <= f.decodes[p] /\ p \in Players
          /\ g.read[p] \in [ver : Nat, decodes : Nat]
      BY <1>1, <2>1 DEF GenOK, GenBody
    <3>2. /\ f.day[p] <= h.day[p] /\ f.day[p] \in Nat /\ h.day[p] \in Nat
          /\ f.decodes[p] <= h.decodes[p] /\ f.decodes[p] \in Nat /\ h.decodes[p] \in Nat
      BY <3>1 DEF Later
    <3>3. g.read[p].decodes \in Nat
      BY <3>1
    <3> QED BY <3>1, <3>2, <3>3
  <2> QED BY <2>1
<1> QED
  BY <1>2, <1>3, <1>4 DEF GenOK, GenBody

LEMMA LaterSound ==
    ASSUME NEW gs, NEW cs, NEW f, Sound(gs, cs, f), NEW h, Later(f, h)
    PROVE  Sound(gs, cs, h)
<1>1. \A i \in 1 .. Len(gs) : GenOK(gs[i], h)
  BY GenerationLater DEF Sound
<1>2. ASSUME NEW k \in 1 .. Len(cs)  PROVE CorrectionOK(cs[k], h)
  <2>1. CorrectionOK(cs[k], f) /\ cs[k] \in Correction
    BY DEF Sound, CorrectionOK
  <2>2. ASSUME NEW j \in 1 .. Len(cs[k].inputs)
        PROVE  cs[k].inputs[j].ver \in 1 .. h.day[cs[k].inputs[j].player]
    <3>1. cs[k].inputs[j] \in Input
      BY <2>1 DEF Correction
    <3>2. cs[k].inputs[j].player \in Players
      BY <3>1 DEF Input
    <3>3. /\ f.day[cs[k].inputs[j].player] <= h.day[cs[k].inputs[j].player]
          /\ f.day[cs[k].inputs[j].player] \in Nat /\ h.day[cs[k].inputs[j].player] \in Nat
      BY <3>2 DEF Later, Sound
    <3>4. cs[k].inputs[j].ver \in 1 .. f.day[cs[k].inputs[j].player]
      BY <2>1 DEF CorrectionOK
    <3> QED BY <3>3, <3>4
  <2> QED BY <2>1, <2>2 DEF CorrectionOK
<1> QED
  BY <1>1, <1>2 DEF Sound, Later

LEMMA SavedLater ==
    ASSUME saved \in Facts, NEW kind, NEW p \in Players
    PROVE  /\ Saved(kind, p) \in Facts /\ Later(saved, Saved(kind, p))
           /\ kind = "day" => Saved(kind, p).day[p] > 0
<1> DEFINE f == Saved(kind, p)
<1>1. saved.day \in [Players -> Nat] /\ saved.decodes \in [Players -> Nat] /\ saved.below \subseteq Players
  BY DEF Facts
<1>2. CASE kind = "day"
  <2>1. f = [saved EXCEPT !.day = [saved.day EXCEPT ![p] = saved.day[p] + 1]]
    BY <1>2 DEF Saved
  <2>2. [saved.day EXCEPT ![p] = saved.day[p] + 1] \in [Players -> Nat]
    BY <1>1
  <2>3. /\ f \in Facts /\ f.day = [saved.day EXCEPT ![p] = saved.day[p] + 1]
        /\ f.decodes = saved.decodes /\ f.below = saved.below
    BY <2>1, <2>2 DEF Facts
  <2> HIDE DEF f
  <2>4. /\ \A q \in Players : saved.day[q] <= f.day[q] /\ saved.decodes[q] <= f.decodes[q]
        /\ f.day[p] > 0
    BY <1>1, <2>3
  <2>5. f \in Facts /\ Later(saved, f) /\ f.day[p] > 0
    BY <1>1, <2>2, <2>3, <2>4 DEF Later
  <2> QED BY <2>5 DEF f
<1>3. CASE kind = "decode"
  <2>1. f = [saved EXCEPT !.decodes = [saved.decodes EXCEPT ![p] = saved.decodes[p] + 1]]
    BY <1>3 DEF Saved
  <2>2. [saved.decodes EXCEPT ![p] = saved.decodes[p] + 1] \in [Players -> Nat]
    BY <1>1
  <2>3. /\ f \in Facts /\ f.decodes = [saved.decodes EXCEPT ![p] = saved.decodes[p] + 1]
        /\ f.day = saved.day /\ f.below = saved.below
    BY <2>1, <2>2 DEF Facts
  <2> HIDE DEF f
  <2>4. \A q \in Players : saved.day[q] <= f.day[q] /\ saved.decodes[q] <= f.decodes[q]
    BY <1>1, <2>3
  <2>5. f \in Facts /\ Later(saved, f)
    BY <1>1, <2>2, <2>3, <2>4 DEF Later
  <2> QED BY <1>3, <2>5 DEF f
<1>4. CASE kind = "leave"
  <2>1. f = [saved EXCEPT !.below = saved.below \cup {p}]
    BY <1>4 DEF Saved
  <2>2. /\ f \in Facts /\ f.day = saved.day /\ f.decodes = saved.decodes
        /\ f.below \subseteq Players
    BY <1>1, <2>1 DEF Facts
  <2> HIDE DEF f
  <2>3. f \in Facts /\ Later(saved, f)
    BY <1>1, <2>2 DEF Later
  <2> QED BY <1>4, <2>3 DEF f
<1>5. CASE kind \notin {"day", "decode", "leave"}
  <2>1. f = saved
    BY <1>5 DEF Saved
  <2>2. Later(saved, saved)
    BY <1>1 DEF Later
  <2> HIDE DEF f
  <2>3. f \in Facts /\ Later(saved, f)
    BY <2>1, <2>2
  <2> QED BY <1>5, <2>3 DEF f
<1> QED
  BY <1>2, <1>3, <1>4, <1>5

-----------------------------------------------------------------------------
(* What each result does.                                                  *)

LEMMA CurrentIsNewest ==
    ASSUME NEW gs, NEW cs, NEW f, Sound(gs, cs, f)
    PROVE  Current(gs) = Len(gs)
<1> DEFINE alive == {i \in 1 .. Len(gs) : gs[i].snap # "superseded" /\ gs[i].army # "superseded"}
<1>1. Len(gs) \in Nat
  BY DEF Sound
<1>2. CASE Len(gs) = 0
  <2>1. alive = {}
    BY <1>2
  <2> QED BY <1>2, <2>1 DEF Current
<1>3. CASE Len(gs) # 0
  <2>1. Len(gs) \in alive
    BY <1>1, <1>3 DEF Sound, Linked
  <2>2. \A j \in alive : j <= Len(gs)
    BY <1>1
  <2>3. Current(gs) = CHOOSE i \in alive : \A j \in alive : j <= i
    BY <2>1 DEF Current
  <2> HIDE DEF alive
  <2>4. Current(gs) \in alive /\ \A j \in alive : j <= Current(gs)
    BY <2>1, <2>2, <2>3
  <2>5. Current(gs) <= Len(gs) /\ Len(gs) <= Current(gs) /\ Current(gs) \in Int
    BY <1>1, <2>1, <2>2, <2>4 DEF alive
  <2> QED BY <1>1, <2>5
<1> QED
  BY <1>2, <1>3

LEMMA BegunSound ==
    ASSUME NEW gs, NEW cs, NEW f, Sound(gs, cs, f), tracked \subseteq Players,
           gs = <<>> => cs = <<>>, NEW r, r = Begun(gs, f)
    PROVE  Sound(r, cs, f) /\ Len(r) > 0 /\ (gs # <<>> => r = gs)
<1>1. CASE gs # <<>>
  <2>1. r = gs /\ Len(gs) \in Nat
    BY <1>1 DEF Begun, Sound
  <2>2. Len(gs) # 0
    BY <1>1, EmptySeq DEF Sound
  <2> QED BY <2>1, <2>2
<1>2. CASE gs = <<>>
  <2> DEFINE none == {}
             zero == 0
             corr == "none"
             ms == Copied(gs, zero, f)
             g == NewGeneration(zero, none, corr, ms)
  <2>1. MembersOK(ms, f)
    <3>1. zero \in 0 .. Len(gs) /\ gs \in Seq(Generation)
      BY DEF Sound
    <3> HIDE DEF zero
    <3> QED BY <3>1, CopiedOK
  <2>2. GenOK(g, f) /\ g \in Generation
    <3>1. none \in SUBSET Both /\ zero \in Nat /\ corr \in {"none", "active", "finalized"}
      OBVIOUS
    <3> HIDE DEF none, zero, ms, corr
    <3>2. GenOK(g, f)
      BY <2>1, <3>1, NewGenerationOK
    <3> QED BY <3>2 DEF GenOK, GenBody
  <2>3. /\ g.snap = "pending" /\ g.army = "pending" /\ g.corr = "none" /\ g.source = 0
    BY DEF NewGeneration
  <2>4. r = <<g>>
    BY <1>2 DEF Begun
  <2> HIDE DEF g, ms
  <2>5. r \in Seq(Generation) /\ Len(r) = 1 /\ r[1] = g
    BY <2>2, <2>4
  <2>6. \A i \in 1 .. Len(r) : i = 1
    BY <2>5
  <2>7. Linked(r)
    BY <2>3, <2>5, <2>6 DEF Linked
  <2>8. Corrected(r, cs)
    BY <1>2, <2>3, <2>5 DEF Corrected
  <2>9. \A i \in 1 .. Len(r) : GenOK(r[i], f)
    BY <2>2, <2>5, <2>6
  <2> QED BY <1>2, <2>5, <2>7, <2>8, <2>9 DEF Sound
<1> QED
  BY <1>1, <1>2

\* A generation done with: superseded by the next one.
Superseded(g) == [g EXCEPT !.snap = "superseded", !.army = "superseded", !.corr = "finalized"]

LEMMA SupersededOK ==
    ASSUME NEW f, NEW g, GenBody(g, f), Published(g), NEW h, h = Superseded(g)
    PROVE  /\ GenOK(h, f) /\ h.source = g.source /\ h.corr = "finalized"
           /\ h.snap = "superseded" /\ h.army = "superseded"
<1>1. g \in Generation
  BY DEF GenBody
<1>2. /\ h \in Generation /\ h.members = g.members /\ h.read = g.read /\ h.corr = "finalized"
      /\ h.affected = g.affected /\ h.source = g.source /\ h.statistics = g.statistics
      /\ h.armies = g.armies /\ h.snap = "superseded" /\ h.army = "superseded"
      /\ h.ranked = g.ranked
  BY <1>1 DEF Generation, Superseded, Artifact
<1>3. GenBody(h, f)
  BY <1>2 DEF GenBody, ToInherit, Published, Ended
<1> QED
  BY <1>2, <1>3 DEF GenOK

\* A whole generation that nothing waits on has no correction at all.
LEMMA NothingWaits ==
    ASSUME NEW gs, NEW cs, NEW f, Sound(gs, cs, f), NEW n, n = Len(gs), n > 0, Published(gs[n])
    PROVE  /\ Whole(Replaced(gs, n), f) /\ Len(Replaced(gs, n)) = n
           /\ Replaced(gs, n) = Put(gs, n, Superseded(gs[n]))
           /\ Queued(cs, n) = {} => cs = <<>>
<1> DEFINE h == Superseded(gs[n])
           r == Put(gs, n, h)
<1>1. gs \in Seq(Generation) /\ n \in Nat /\ n \in 1 .. Len(gs) /\ GenOK(gs[n], f)
  BY DEF Sound
<1>2. GenOK(h, f) /\ h.source = gs[n].source /\ h.corr = "finalized"
      /\ h.snap = "superseded" /\ h.army = "superseded" /\ h \in Generation
  <2>1. h = Superseded(gs[n])
    BY DEF h
  <2> HIDE DEF h
  <2>2. GenOK(h, f) /\ h.source = gs[n].source /\ h.corr = "finalized"
        /\ h.snap = "superseded" /\ h.army = "superseded"
    BY <1>1, <2>1, SupersededOK DEF GenOK
  <2> QED BY <2>2 DEF GenOK, GenBody
<1> HIDE DEF h
<1>3. /\ r \in Seq(Generation) /\ Len(r) = n /\ r[n] = h
      /\ \A j \in 1 .. Len(gs) : j # n => r[j] = gs[j]
  BY <1>1, <1>2, ExceptSeq DEF Put
<1>4. Whole(r, f)
  <2> HIDE DEF r
  <2>1. ASSUME NEW i \in 1 .. n
        PROVE  /\ GenOK(r[i], f) /\ r[i].source = i - 1 /\ r[i].corr = "finalized"
               /\ Ended(r[i].snap) /\ Ended(r[i].army)
    <3>1. CASE i # n
      <4>1. i < Len(gs) /\ r[i] = gs[i] /\ i \in 1 .. Len(gs)
        BY <1>1, <1>3, <3>1
      <4> QED BY <4>1, EarlierEnded DEF Sound, Linked
    <3>2. CASE i = n
      <4>1. gs[n].source = n - 1
        BY <1>1 DEF Sound, Linked
      <4> QED BY <1>2, <1>3, <3>2, <4>1 DEF Ended
    <3> QED BY <3>1, <3>2
  <2> QED BY <1>3, <2>1 DEF Whole
<1>5. Replaced(gs, n) = r
  BY DEF Replaced, Put, h, Superseded
<1>6. Queued(cs, n) = {} => cs = <<>>
  <2>1. SUFFICES ASSUME Queued(cs, n) = {}  PROVE cs = <<>>
    OBVIOUS
  <2>2. gs[n].corr # "active"
    BY <1>1 DEF GenOK, GenBody, Published, Ended
  <2>3. cs \in Seq(Correction) /\ Len(cs) \in Nat
    BY DEF Sound
  <2>4. \A k \in 1 .. Len(cs) : cs[k].state \in {"queued", "active"}
    <3>1. \A k \in 1 .. Len(cs) : cs[k] \in Correction
      BY <2>3
    <3> QED BY <3>1 DEF Correction
  <2>5. \A k \in 1 .. Len(cs) : cs[k].state = "queued" => FALSE
    BY <2>1, QueuedOne
  <2>6. \A k \in 1 .. Len(cs) : cs[k].state = "active" => FALSE
    BY <2>2 DEF Sound, Corrected
  <2>7. Len(cs) = 0
    <3>1. CASE Len(cs) > 0
      <4>1. 1 \in 1 .. Len(cs)
        BY <2>3, <3>1
      <4> QED BY <2>4, <2>5, <2>6, <4>1
    <3> QED BY <2>3, <3>1
  <2> QED BY <2>3, <2>7, EmptySeq
<1> QED
  BY <1>3, <1>4, <1>5, <1>6 DEF h

\* One correction, under way from generation i to n.
Alone(cs, i, n, f) ==
    /\ cs \in Seq(Correction) /\ Len(cs) = 1 /\ CorrectionOK(cs[1], f)
    /\ cs[1].state = "active" /\ cs[1].gen = n /\ cs[1].source = i

LEMMA ActiveOne ==
    ASSUME NEW f, NEW i, i \in Nat, NEW n, n \in Nat, NEW affected, affected \in SUBSET Both,
           NEW cs, cs = <<Active(i, n, affected)>>
    PROVE  Alone(cs, i, n, f)
<1> DEFINE c == Active(i, n, affected)
<1>1. /\ c \in Correction /\ c.inputs = <<>> /\ c.state = "active" /\ c.gen = n /\ c.source = i
  <2>1. <<>> \in Seq(Input)
    BY EmptySeq
  <2> QED BY <2>1 DEF Active, Correction
<1>2. CorrectionOK(c, f)
  BY <1>1, NoInputs, CorrectionInputs
<1> HIDE DEF c
<1>3. cs = <<c>>
  BY DEF c
<1> QED
  BY <1>1, <1>2, <1>3 DEF Alone

\* A published generation replaced by a new one of its members' results.
Replacement(gs, n, affected, ms, r, q) ==
    /\ r = Append(Replaced(gs, n), NewGeneration(n, affected, "active", ms))
    /\ q = <<Active(n, n + 1, affected)>>

LEMMA ReplacementSound ==
    ASSUME NEW gs, NEW cs, NEW f, Sound(gs, cs, f), NEW n, n = Len(gs), n > 0,
           Published(gs[n]), NEW affected, affected \in SUBSET Both,
           NEW ms, MembersOK(ms, f),
           NEW r, NEW q, Replacement(gs, n, affected, ms, r, q)
    PROVE  Sound(r, q, f) /\ Len(r) = n + 1
<1> DEFINE done == Replaced(gs, n)
           g == NewGeneration(n, affected, "active", ms)
<1>1. Whole(done, f) /\ Len(done) = n
  BY NothingWaits
<1>2. n \in Nat /\ n + 1 \in Nat
  BY DEF Sound
<1>3. GenOK(g, f) /\ g.source = n /\ g.corr = "active" /\ g.snap = "pending" /\ g.army = "pending"
  <2> DEFINE corr == "active"
  <2>1. corr \in {"none", "active", "finalized"}
    OBVIOUS
  <2>2. g = NewGeneration(n, affected, corr, ms)
    BY DEF g
  <2>3. g.source = n /\ g.corr = corr /\ g.snap = "pending" /\ g.army = "pending"
    BY <2>2 DEF NewGeneration
  <2> HIDE DEF corr, g
  <2>4. GenOK(g, f)
    BY <1>2, <2>1, <2>2, NewGenerationOK
  <2> QED BY <2>3, <2>4 DEF corr
<1> HIDE DEF done, g
<1>4. /\ q \in Seq(Correction) /\ Len(q) = 1 /\ CorrectionOK(q[1], f)
      /\ q[1].state = "active" /\ q[1].gen = n + 1 /\ q[1].source = n
  <2> DEFINE m == n + 1
  <2>1. m \in Nat /\ q = <<Active(n, m, affected)>>
    BY <1>2 DEF Replacement
  <2> HIDE DEF m
  <2>2. Alone(q, n, m, f)
    BY <1>2, <2>1, ActiveOne
  <2> QED BY <2>2 DEF m, Alone
<1>5. f.day \in [Players -> Nat] /\ f.decodes \in [Players -> Nat] /\ f.below \subseteq Players
  BY DEF Sound
<1>6. r = Append(done, g)
  BY DEF done, g, Replacement
<1>7. PICK k \in 1 .. Len(q) : k = 1
  BY <1>4
<1>8. \A j \in 1 .. Len(q) : j = k
  BY <1>4, <1>7
<1>9. Sound(Append(done, g), q, f) /\ Len(Append(done, g)) = Len(done) + 1
  <2>1. g.snap # "superseded" /\ g.army # "superseded" /\ g.source = Len(done) /\ Len(done) > 0
    BY <1>1, <1>3
  <2>2. CorrectionOK(q[k], f) /\ q[k].state = "active" /\ q[k].gen = Len(done) + 1
        /\ q[k].source = Len(done) /\ q \in Seq(Correction)
    BY <1>1, <1>4, <1>7
  <2>3. g.corr = "active" /\ GenOK(g, f)
    BY <1>3
  <2> QED BY <1>1, <1>5, <1>8, <2>1, <2>2, <2>3, AppendSound
<1> QED
  BY <1>1, <1>6, <1>9

\* A whole generation that nothing waits on is replaced by one of its members and the
\* inputs, alone under correction.
LEMMA SupersedeDoes ==
    ASSUME NEW gs, NEW cs, NEW f, Sound(gs, cs, f), tracked \subseteq Players,
           NEW n, n = Len(gs), n > 0, Published(gs[n]), Queued(cs, n) = {},
           NEW inputs, InputsOK(inputs, f), NEW ms, ms = WithInputs(Copied(gs, n, f), inputs, f),
           NEW all, all = Both,
           NEW pub, pub = Supersede(gs, cs, n, inputs, f)
    PROVE  MembersOK(ms, f) /\ Replacement(gs, n, all, ms, pub.gens, pub.corrections)
<1>1. cs = <<>>
  BY NothingWaits
<1>2. MembersOK(ms, f)
  <2>1. n \in 0 .. Len(gs) /\ gs \in Seq(Generation) /\ f.day \in [Players -> Nat]
        /\ f.decodes \in [Players -> Nat]
    BY DEF Sound
  <2>2. MembersOK(Copied(gs, n, f), f)
    BY <2>1, CopiedOK
  <2> QED BY <2>1, <2>2, WithInputsOK
<1>3. pub.gens = Append(Replaced(gs, n), NewGeneration(n, all, "active", ms))
  BY DEF Supersede
<1>4. Finalized(cs, n) = <<>>
  BY <1>1 DEF Finalized
<1>5. pub.corrections = <<Active(n, n + 1, all)>>
  <2> DEFINE kept == Finalized(cs, n)
             moved == [k \in 1 .. Len(kept) |->
                             IF kept[k].state = "queued" /\ kept[k].source = n
                             THEN [kept[k] EXCEPT !.source = n + 1] ELSE kept[k]]
             a == Active(n, n + 1, all)
  <2>1. pub.corrections = Append(moved, a)
    BY DEF Supersede
  <2>2. moved = <<>>
    BY <1>4
  <2> HIDE DEF moved, a
  <2>3. Append(<<>>, a) = <<a>>
    OBVIOUS
  <2> QED BY <2>1, <2>2, <2>3 DEF a
<1> QED
  BY <1>2, <1>3, <1>5 DEF Replacement

LEMMA SupersedeSound ==
    ASSUME NEW gs, NEW cs, NEW f, Sound(gs, cs, f), tracked \subseteq Players,
           NEW n, n = Len(gs), n > 0, Published(gs[n]), Queued(cs, n) = {},
           NEW inputs, InputsOK(inputs, f),
           NEW pub, pub = Supersede(gs, cs, n, inputs, f)
    PROVE  Sound(pub.gens, pub.corrections, f) /\ Len(pub.gens) = n + 1
<1> DEFINE ms == WithInputs(Copied(gs, n, f), inputs, f)
           all == Both
<1>1. ms = WithInputs(Copied(gs, n, f), inputs, f) /\ all = Both /\ all \in SUBSET Both
  OBVIOUS
<1> HIDE DEF ms, all
<1>2. MembersOK(ms, f) /\ Replacement(gs, n, all, ms, pub.gens, pub.corrections)
  <2> HIDE DEF Both
  <2> QED BY <1>1, SupersedeDoes
<1> DEFINE r == pub.gens
           q == pub.corrections
<1> HIDE DEF r, q
<1>3. Sound(r, q, f) /\ Len(r) = n + 1
  <2>1. Replacement(gs, n, all, ms, r, q)
    BY <1>2 DEF r, q
  <2> HIDE DEF Both
  <2> QED BY <1>1, <1>2, <2>1, ReplacementSound
<1> QED
  BY <1>3 DEF r, q

\* A correction of the army results starts at once from a published generation, or waits.
ArmiesCorrected(gs, cs, n, affected, ms, pub) ==
    \/ /\ Published(gs[n]) /\ Queued(cs, n) = {}
       /\ Replacement(gs, n, affected, ms, pub.gens, pub.corrections)
    \/ pub.gens = gs /\ pub.corrections = Queue(cs, n, affected, <<>>)

LEMMA CorrectArmiesDoes ==
    ASSUME NEW gs, NEW cs, NEW f, Sound(gs, cs, f), tracked \subseteq Players,
           NEW n, n = Len(gs), n > 0, NEW t, NEW ms, ms = Copied(gs, n, f),
           NEW affected, affected = {"army"},
           NEW pub, pub = CorrectArmies(gs, cs, n, f, t)
    PROVE  MembersOK(ms, f) /\ ArmiesCorrected(gs, cs, n, affected, ms, pub)
<1>1. MembersOK(ms, f)
  <2>1. n \in 0 .. Len(gs) /\ gs \in Seq(Generation)
    BY DEF Sound
  <2> QED BY <2>1, CopiedOK
<1>2. CASE Queued(cs, n) = {} /\ Published(gs[n]) /\ t = "open"
  <2> DEFINE a == Active(n, n + 1, affected)
  <2>1. cs = <<>>
    BY <1>2, NothingWaits
  <2>2. /\ pub.gens = Append(Replaced(gs, n), NewGeneration(n, affected, "active", ms))
        /\ pub.corrections = Append(cs, a)
    BY <1>2 DEF CorrectArmies
  <2> HIDE DEF a
  <2>3. pub.corrections = <<a>>
    BY <2>1, <2>2
  <2>4. Replacement(gs, n, affected, ms, pub.gens, pub.corrections)
    BY <2>2, <2>3 DEF a, Replacement
  <2> QED BY <1>1, <1>2, <2>4 DEF ArmiesCorrected
<1>3. CASE ~(Queued(cs, n) = {} /\ Published(gs[n]) /\ t = "open")
  <2>1. pub.gens = gs /\ pub.corrections = Queue(cs, n, affected, <<>>)
    BY <1>3 DEF CorrectArmies
  <2> QED BY <1>1, <2>1 DEF ArmiesCorrected
<1> QED
  BY <1>2, <1>3

LEMMA CorrectArmiesSound ==
    ASSUME NEW gs, NEW cs, NEW f, Sound(gs, cs, f), tracked \subseteq Players,
           NEW n, n = Len(gs), n > 0, NEW t,
           NEW pub, pub = CorrectArmies(gs, cs, n, f, t)
    PROVE  Sound(pub.gens, pub.corrections, f) /\ Len(pub.gens) \in {n, n + 1}
<1> DEFINE affected == {"army"}
           ms == Copied(gs, n, f)
           inputs == <<>>
           r == pub.gens
           q == pub.corrections
<1>0. affected \in SUBSET Both /\ "army" \in affected /\ n \in Nat /\ affected = {"army"}
      /\ ms = Copied(gs, n, f) /\ inputs = <<>>
  BY DEF Sound
<1> HIDE DEF affected, ms, r, q
<1>1. /\ MembersOK(ms, f)
      /\ \/ /\ Published(gs[n]) /\ Queued(cs, n) = {}
            /\ Replacement(gs, n, affected, ms, r, q)
         \/ r = gs /\ q = Queue(cs, n, affected, inputs)
  <2>1. MembersOK(ms, f) /\ ArmiesCorrected(gs, cs, n, affected, ms, pub)
    BY <1>0, CorrectArmiesDoes
  <2> QED BY <2>1 DEF ArmiesCorrected, r, q
<1>2. CASE Published(gs[n]) /\ Replacement(gs, n, affected, ms, r, q)
  <2> HIDE DEF Both
  <2>1. Sound(r, q, f) /\ Len(r) = n + 1
    BY <1>0, <1>1, <1>2, ReplacementSound
  <2> QED BY <2>1 DEF r, q
<1>3. CASE r = gs /\ q = Queue(cs, n, affected, inputs)
  <2>1. InputsOK(inputs, f)
    BY <1>0, NoInputs
  <2> HIDE DEF inputs
  <2>2. Sound(gs, Queue(cs, Len(gs), affected, inputs), f)
    BY <1>0, <2>1, QueueSound
  <2> QED BY <1>3, <2>2 DEF r, q
<1> QED
  BY <1>1, <1>2, <1>3

\* Without a generation there is no correction.
LEMMA NoCorrectionYet ==
    ASSUME NEW gs, NEW cs, NEW f, Sound(gs, cs, f), gs = <<>>
    PROVE  cs = <<>>
<1>1. cs \in Seq(Correction) /\ Len(cs) \in Nat /\ Len(gs) = 0
  BY DEF Sound
<1>2. \A k \in 1 .. Len(cs) : cs[k].source \in 1 .. Len(gs)
  BY DEF Sound, Corrected
<1>3. \A k \in 1 .. Len(cs) : FALSE
  BY <1>1, <1>2
<1>4. Len(cs) = 0
  <2>1. CASE Len(cs) > 0
    <3>1. 1 \in 1 .. Len(cs)
      BY <1>1, <2>1
    <3> QED BY <1>3, <3>1
  <2> QED BY <1>1, <2>1
<1> QED
  BY <1>1, <1>4, EmptySeq

\* A correction under way that comes to affect the board as well, and its generation.
WithBoardToo(g) == [g EXCEPT !.affected = @ \cup {"snapshot"}]
BoardToo(gs, i) == [gs EXCEPT ![i].affected = @ \cup {"snapshot"}]
AllWithBoardToo(cs, i) ==
    [k \in 1 .. Len(cs) |-> IF cs[k].state = "active" /\ cs[k].gen = i
                            THEN [cs[k] EXCEPT !.affected = @ \cup {"snapshot"}] ELSE cs[k]]

LEMMA WiderSound ==
    ASSUME NEW gs, NEW cs, NEW f, Sound(gs, cs, f), NEW n, n = Len(gs), n > 0,
           NEW r, r = BoardToo(gs, n),
           NEW q, q = AllWithBoardToo(cs, n)
    PROVE  Sound(r, q, f) /\ Len(r) = n /\ r[n] = WithBoardToo(gs[n])
<1> DEFINE h == WithBoardToo(gs[n])
<1>1. /\ gs[n] \in Generation /\ GenOK(gs[n], f) /\ n \in 1 .. Len(gs) /\ n \in Nat
      /\ cs \in Seq(Correction) /\ Len(cs) \in Nat
  BY DEF Sound, GenOK, GenBody
<1>2. /\ h \in Generation /\ h.members = gs[n].members /\ h.read = gs[n].read
      /\ h.corr = gs[n].corr /\ h.affected = gs[n].affected \cup {"snapshot"}
      /\ h.source = gs[n].source /\ h.statistics = gs[n].statistics
      /\ h.armies = gs[n].armies /\ h.snap = gs[n].snap /\ h.army = gs[n].army
      /\ h.ranked = gs[n].ranked
  BY <1>1 DEF Generation, WithBoardToo
<1>3. r = [gs EXCEPT ![n] = h]
  BY DEF WithBoardToo, BoardToo
<1> HIDE DEF h
<1>4. GenOK(h, f)
  <2>1. ~ToInherit(h)
    <3>1. "snapshot" \in h.affected /\ "snapshot" \notin {"army"}
      BY <1>2
    <3> QED BY <3>1 DEF ToInherit
  <2> QED BY <1>1, <1>2, <2>1 DEF GenOK, GenBody
<1>5. Sound(r, cs, f) /\ Len(r) = n /\ r[n] = h
  <2>1. /\ ~(n < Len(gs)) /\ h.source = gs[n].source /\ h.corr = gs[n].corr
        /\ h.snap = gs[n].snap /\ h.army = gs[n].army
    BY <1>1, <1>2
  <2>2. Sound([gs EXCEPT ![n] = h], cs, f)
    BY <1>1, <1>4, <2>1, ReplaceOK
  <2>3. Len([gs EXCEPT ![n] = h]) = n /\ [gs EXCEPT ![n] = h][n] = h
    BY <1>1, <1>4, <2>1, ReplaceOK
  <2> QED BY <1>3, <2>2, <2>3
<1>6. /\ q \in Seq(Correction) /\ Len(q) = Len(cs)
      /\ \A k \in 1 .. Len(cs) : /\ CorrectionOK(q[k], f) /\ q[k].state = cs[k].state
                                 /\ q[k].gen = cs[k].gen /\ q[k].source = cs[k].source
  <2> DEFINE wider(k) == [cs[k] EXCEPT !.affected = cs[k].affected \cup {"snapshot"}]
  <2>1. ASSUME NEW k \in 1 .. Len(cs)
        PROVE  /\ wider(k) \in Correction /\ cs[k] \in Correction
               /\ CorrectionOK(cs[k], f) /\ (cs[k].state = "active" => CorrectionOK(wider(k), f))
               /\ wider(k).state = cs[k].state
               /\ wider(k).gen = cs[k].gen /\ wider(k).source = cs[k].source
    <3>1. CorrectionOK(cs[k], f) /\ cs[k] \in Correction
      BY DEF Sound, CorrectionOK
    <3>2. /\ wider(k) \in Correction /\ wider(k).state = cs[k].state
          /\ wider(k).gen = cs[k].gen /\ wider(k).source = cs[k].source
          /\ wider(k).inputs = cs[k].inputs
      BY <3>1 DEF Correction
    <3> HIDE DEF wider
    <3>3. cs[k].state = "active" => CorrectionOK(wider(k), f)
      BY <3>1, <3>2, CorrectionInputs
    <3> QED BY <3>1, <3>2, <3>3
  <2>2. q = [k \in 1 .. Len(cs) |-> IF cs[k].state = "active" /\ cs[k].gen = n THEN wider(k) ELSE cs[k]]
    BY DEF AllWithBoardToo
  <2> HIDE DEF wider
  <2>3. q \in [1 .. Len(cs) -> Correction]
    BY <2>1, <2>2
  <2>4. q \in Seq(Correction) /\ Len(q) = Len(cs)
    BY <1>1, <2>3
  <2> QED BY <2>1, <2>2, <2>4
<1>7. Corrected(r, q)
  <2>1. Corrected(r, cs)
    BY <1>5 DEF Sound
  <2>2. \A k \in 1 .. Len(q) :
            /\ IF q[k].state = "active" THEN q[k].gen = Len(r) /\ Len(r) > 0 /\ r[Len(r)].corr = "active"
               ELSE q[k].source = Len(r)
            /\ q[k].source \in 1 .. Len(r) /\ q[k].gen \in 0 .. Len(r)
    <3>1. \A k \in 1 .. Len(cs) :
              /\ IF cs[k].state = "active" THEN cs[k].gen = Len(r) /\ Len(r) > 0 /\ r[Len(r)].corr = "active"
                 ELSE cs[k].source = Len(r)
              /\ cs[k].source \in 1 .. Len(r) /\ cs[k].gen \in 0 .. Len(r)
      BY <2>1, Zenon DEF Corrected
    <3> QED BY <1>6, <3>1
  <2>3. \A k, l \in 1 .. Len(q) : q[k].state = q[l].state => k = l
    BY <1>6, <2>1 DEF Corrected
  <2>4. Len(r) > 0 /\ r[Len(r)].corr = "active" => \E k \in 1 .. Len(q) : q[k].state = "active"
    BY <1>6, <2>1 DEF Corrected
  <2> QED BY <2>2, <2>3, <2>4 DEF Corrected
<1>8. Sound(r, q, f)
  BY <1>5, <1>6, <1>7 DEF Sound
<1> QED
  BY <1>5, <1>8 DEF h

\* The ways p's day is recorded in the generations gs: not for a player who left Legend I;
\* in an open correction, which affects the board too; in a waiting correction; in a new
\* generation; or in an open generation that has the player.
DayRecorded(gs, p, full, f, t, pub) ==
    LET n == Len(gs)
        g == gs[n]
        m == Result(p, f.day[p], f)
        inputs == <<[player |-> p, ver |-> f.day[p]]>>
        super == Supersede(gs, corrections, n, inputs, f)
    IN  \/ p \notin BoardMembers(f) /\ pub.gens = gens /\ pub.corrections = corrections
        \/ /\ Frozen(g) = {} /\ g.corr = "active"
           /\ pub.gens = Settle(BoardToo(gs, n), n, p, m, full, f, t)
           /\ pub.corrections = AllWithBoardToo(corrections, n)
        \/ /\ Frozen(g) # {} \/ (g.corr # "active" /\ p \notin DOMAIN g.members)
           /\ pub.gens = gs /\ pub.corrections = Queue(corrections, n, Both, inputs)
        \/ /\ Published(g) /\ Queued(corrections, n) = {}
           /\ pub.gens = Settle(super.gens, Len(super.gens), p, m, full, f, t)
           /\ pub.corrections = super.corrections
        \/ /\ Frozen(g) = {} /\ g.corr # "active" /\ p \in DOMAIN g.members
           /\ pub.gens = Settle(gs, n, p, m, full, f, t) /\ pub.corrections = corrections

LEMMA RecordDayDoes ==
    ASSUME NEW f, Sound(gens, corrections, f), tracked \subseteq Players,
           NEW p, NEW full, NEW t, NEW gs, gs = Begun(gens, f),
           NEW pub, pub = RecordDay(p, full, f, t)
    PROVE  /\ Sound(gs, corrections, f) /\ Len(gs) > 0 /\ (gens # <<>> => gs = gens)
           /\ DayRecorded(gs, p, full, f, t, pub)
<1> DEFINE n == Len(gs)
           m == Result(p, f.day[p], f)
           g == gs[n]
           inputs == <<[player |-> p, ver |-> f.day[p]]>>
           joins == p \notin DOMAIN g.members
           active == g.corr = "active"
           frozen == IF Frozen(g) = {} /\ (active \/ ~joins) THEN {} ELSE Both
           fullyPublished == Published(g) /\ Queued(corrections, n) = {} /\ t = "open"
           wider == BoardToo(gs, n)
           super == Supersede(gs, corrections, n, inputs, f)
           b == p \in BoardMembers(f)
<1>1. Sound(gs, corrections, f) /\ n > 0 /\ (gens # <<>> => gs = gens) /\ Current(gs) = n
  <2>1. Sound(gs, corrections, f) /\ Len(gs) > 0 /\ (gens # <<>> => gs = gens)
    BY BegunSound, NoCorrectionYet
  <2> QED BY <2>1, CurrentIsNewest
<1>2. frozen \in {{}, Both} /\ Both # {}
  OBVIOUS
<1>3. pub = CASE ~b -> Pub
          [] b /\ active /\ frozen = {} ->
                [gens |-> Settle(wider, n, p, m, full, f, t),
                 corrections |-> AllWithBoardToo(corrections, n)]
          [] b /\ frozen # {} /\ (active \/ ~fullyPublished) ->
                [gens |-> gs, corrections |-> Queue(corrections, n, frozen, inputs)]
          [] b /\ frozen # {} /\ ~active /\ fullyPublished ->
                [super EXCEPT !.gens = Settle(@, Len(@), p, m, full, f, t)]
          [] OTHER -> [gens |-> Settle(gs, n, p, m, full, f, t), corrections |-> corrections]
  <2> HIDE DEF n
  <2> QED BY <1>1 DEF RecordDay, AllWithBoardToo, BoardToo
<1>4. super = [gens |-> super.gens, corrections |-> super.corrections]
  BY DEF Supersede
<1>5. frozen = {} <=> Frozen(g) = {} /\ (active \/ ~joins)
  BY <1>2
<1> HIDE DEF n, m, inputs, frozen, fullyPublished, super, wider, b
<1>6. CASE ~b
  <2>1. pub.gens = gens /\ pub.corrections = corrections
    BY <1>3, <1>6 DEF Pub
  <2> QED BY <1>1, <1>6, <2>1 DEF DayRecorded, n, b
<1>7. CASE b /\ active /\ frozen = {}
  <2>1. /\ pub.gens = Settle(wider, n, p, m, full, f, t)
        /\ pub.corrections = AllWithBoardToo(corrections, n)
    BY <1>3, <1>7
  <2>2. DayRecorded(gs, p, full, f, t, pub)
    BY <1>5, <1>7, <2>1 DEF DayRecorded, n, m, wider
  <2> QED BY <1>1, <2>2 DEF n
<1>8. CASE b /\ frozen # {} /\ (active \/ ~fullyPublished)
  <2>1. pub.gens = gs /\ pub.corrections = Queue(corrections, n, frozen, inputs) /\ frozen = Both
    BY <1>2, <1>3, <1>8
  <2>2. DayRecorded(gs, p, full, f, t, pub)
    BY <1>5, <1>8, <2>1 DEF DayRecorded, n, inputs
  <2> QED BY <1>1, <2>2 DEF n
<1>9. CASE b /\ frozen # {} /\ ~active /\ fullyPublished
  <2>1. pub = [super EXCEPT !.gens = Settle(super.gens, Len(super.gens), p, m, full, f, t)]
    BY <1>3, <1>9
  <2>2. /\ pub.gens = Settle(super.gens, Len(super.gens), p, m, full, f, t)
        /\ pub.corrections = super.corrections
    BY <1>4, <2>1
  <2>3. Published(g) /\ Queued(corrections, n) = {}
    BY <1>9 DEF fullyPublished
  <2>4. DayRecorded(gs, p, full, f, t, pub)
    BY <2>2, <2>3 DEF DayRecorded, n, m, inputs, super
  <2> QED BY <1>1, <2>4 DEF n
<1>10. CASE b /\ frozen = {} /\ ~active
  <2>1. pub.gens = Settle(gs, n, p, m, full, f, t) /\ pub.corrections = corrections
    BY <1>3, <1>10
  <2>2. DayRecorded(gs, p, full, f, t, pub)
    BY <1>5, <1>10, <2>1 DEF DayRecorded, n, m
  <2> QED BY <1>1, <2>2 DEF n
<1> QED
  BY <1>6, <1>7, <1>8, <1>9, <1>10

LEMMA RecordDaySound ==
    ASSUME NEW f, Sound(gens, corrections, f), tracked \subseteq Players,
           NEW p \in Players, f.day[p] > 0, NEW full \in BOOLEAN, NEW t,
           NEW pub, pub = RecordDay(p, full, f, t)
    PROVE  Sound(pub.gens, pub.corrections, f)
<1> DEFINE gs == Begun(gens, f)
           n == Len(gs)
           m == Result(p, f.day[p], f)
           g == gs[n]
           inputs == <<[player |-> p, ver |-> f.day[p]]>>
           wider == BoardToo(gs, n)
           super == Supersede(gs, corrections, n, inputs, f)
<1>1. Sound(gs, corrections, f) /\ n > 0 /\ DayRecorded(gs, p, full, f, t, pub)
  <2>1. gs = Begun(gens, f)
    BY DEF gs
  <2> HIDE DEF gs
  <2> QED BY <2>1, RecordDayDoes
<1> HIDE DEF gs
<1>2. MemberOK(m, f.day[p]) /\ InputsOK(inputs, f)
  <2>1. f.day \in [Players -> Nat] /\ f.decodes \in [Players -> Nat]
    BY DEF Sound
  <2>2. f.day[p] \in 0 .. f.day[p]
    BY <2>1
  <2> QED BY <2>1, <2>2, ResultOK, OneInput
<1>3. n \in 1 .. Len(gs) /\ n \in Nat
  BY <1>1 DEF Sound
<1>4. \/ pub.gens = gens /\ pub.corrections = corrections
      \/ /\ pub.gens = Settle(wider, n, p, m, full, f, t)
         /\ pub.corrections = AllWithBoardToo(corrections, n)
      \/ pub.gens = gs /\ pub.corrections = Queue(corrections, n, Both, inputs)
      \/ /\ Published(g) /\ Queued(corrections, n) = {}
         /\ pub.gens = Settle(super.gens, Len(super.gens), p, m, full, f, t)
         /\ pub.corrections = super.corrections
      \/ pub.gens = Settle(gs, n, p, m, full, f, t) /\ pub.corrections = corrections
  BY <1>1 DEF DayRecorded
<1> HIDE DEF n, m, inputs, wider, super
<1>5. CASE pub.gens = gens /\ pub.corrections = corrections
  BY <1>5
<1>6. CASE /\ pub.gens = Settle(wider, n, p, m, full, f, t)
           /\ pub.corrections = AllWithBoardToo(corrections, n)
  <2> DEFINE q == AllWithBoardToo(corrections, n)
  <2> HIDE DEF q
  <2>0. q = AllWithBoardToo(corrections, n) /\ n = Len(gs)
        /\ wider = BoardToo(gs, n)
    BY DEF q, n, wider
  <2>1. Sound(wider, q, f) /\ Len(wider) = n
    BY <1>1, <2>0, WiderSound
  <2>2. n \in 1 .. Len(wider)
    BY <1>3, <2>1, <2>0
  <2>3. Sound(Settle(wider, n, p, m, full, f, t), q, f)
    BY <1>2, <2>1, <2>2, SettleSound
  <2> QED BY <1>6, <2>0, <2>3
<1>7. CASE pub.gens = gs /\ pub.corrections = Queue(corrections, n, Both, inputs)
  <2> DEFINE frozen == Both
  <2>1. frozen \in SUBSET Both /\ "army" \in frozen
    OBVIOUS
  <2>0. pub.corrections = Queue(corrections, n, frozen, inputs)
    BY <1>7
  <2> HIDE DEF frozen
  <2>2. Sound(gs, Queue(corrections, Len(gs), frozen, inputs), f)
    <3> HIDE DEF Both
    <3>1. Len(gs) > 0
      BY <1>1 DEF n
    <3> QED BY <1>1, <1>2, <2>1, <3>1, QueueSound
  <2> QED BY <1>7, <2>0, <2>2 DEF n
<1>8. CASE /\ Published(g) /\ Queued(corrections, n) = {}
           /\ pub.gens = Settle(super.gens, Len(super.gens), p, m, full, f, t)
           /\ pub.corrections = super.corrections
  <2> DEFINE a == super.gens
             c == super.corrections
  <2>1. Sound(a, c, f) /\ Len(a) = n + 1
    <3>1. Published(gs[n]) /\ Queued(corrections, n) = {} /\ n = Len(gs)
      BY <1>8 DEF n
    <3>2. super = Supersede(gs, corrections, n, inputs, f)
      BY DEF super
    <3> QED BY <1>1, <1>2, <3>1, <3>2, SupersedeSound
  <2> HIDE DEF a, c
  <2>2. Len(a) \in 1 .. Len(a)
    BY <1>3, <2>1
  <2>3. Sound(Settle(a, Len(a), p, m, full, f, t), c, f)
    BY <1>2, <2>1, <2>2, SettleSound
  <2> QED BY <1>8, <2>3 DEF a, c
<1>9. CASE pub.gens = Settle(gs, n, p, m, full, f, t) /\ pub.corrections = corrections
  <2>1. Sound(Settle(gs, n, p, m, full, f, t), corrections, f)
    BY <1>1, <1>2, <1>3, SettleSound
  <2> QED BY <1>9, <2>1
<1> QED
  BY <1>4, <1>5, <1>6, <1>7, <1>8, <1>9

\* p's reading of the Reset: p's result in the first generation, kept or left out.
ReadingResult(g, p, complete, f) ==
    IF p \in DOMAIN g.members
    THEN IF complete THEN Result(p, g.members[p].ver, f) ELSE LeftOut(g.members[p]) ELSE None

ReadingRecorded(gs, first, p, m, full, f, t, pub) ==
    \/ pub.gens = gens /\ pub.corrections = corrections
    \/ pub.gens = Settle(gs, first, p, m, full, f, t) /\ pub.corrections = corrections

LEMMA RecordReadingDoes ==
    ASSUME NEW f, Sound(gens, corrections, f), tracked \subseteq Players,
           NEW p \in Players, NEW complete \in BOOLEAN, NEW full \in BOOLEAN, NEW t,
           NEW gs, gs = Begun(gens, f), NEW first, first = 1,
           NEW m, m = ReadingResult(gs[first], p, complete, f),
           NEW pub, pub = RecordReading(p, complete, full, f, t)
    PROVE  /\ Sound(gs, corrections, f) /\ (gens # <<>> => gs = gens)
           /\ first \in 1 .. Len(gs) /\ (p \in DOMAIN gs[first].members => MemberOK(m, f.day[p]))
           /\ ReadingRecorded(gs, first, p, m, full, f, t, pub)
<1>1. Sound(gs, corrections, f) /\ Len(gs) > 0 /\ (gens # <<>> => gs = gens)
  BY BegunSound, NoCorrectionYet
<1>2. ReadingRecorded(gs, first, p, m, full, f, t, pub)
  <2>1. pub = IF gs[first].snap = "superseded" /\ gs[first].army = "superseded" THEN Pub
              ELSE [gens |-> Settle(gs, first, p, m, full, f, t), corrections |-> corrections]
    BY DEF RecordReading, ReadingResult
  <2> QED BY <2>1 DEF Pub, ReadingRecorded
<1>3. first \in 1 .. Len(gs)
  BY <1>1 DEF Sound
<1>4. ASSUME p \in DOMAIN gs[first].members  PROVE MemberOK(m, f.day[p])
  <2> DEFINE b == gs[first].members[p]
             v == b.ver
  <2>1. MemberOK(b, f.day[p]) /\ f.day[p] \in Nat
    BY <1>1, <1>3, <1>4 DEF Sound, GenOK, GenBody
  <2>2. v \in 0 .. f.day[p]
    BY <2>1 DEF MemberOK, Member
  <2>3. m = IF complete THEN Result(p, v, f) ELSE LeftOut(b)
    BY <1>4 DEF ReadingResult
  <2> HIDE DEF b, v
  <2>4. MemberOK(Result(p, v, f), f.day[p])
    BY <1>1, <2>2, ResultOK DEF Sound
  <2>5. MemberOK(LeftOut(b), f.day[p])
    BY <2>1, LeftOutOK
  <2> QED BY <2>3, <2>4, <2>5
<1> QED
  BY <1>1, <1>2, <1>3, <1>4

LEMMA RecordReadingSound ==
    ASSUME NEW f, Sound(gens, corrections, f), tracked \subseteq Players,
           NEW p \in Players, NEW complete \in BOOLEAN, NEW full \in BOOLEAN, NEW t,
           NEW pub, pub = RecordReading(p, complete, full, f, t)
    PROVE  Sound(pub.gens, pub.corrections, f)
<1> DEFINE gs == Begun(gens, f)
           first == 1
           m == ReadingResult(gs[first], p, complete, f)
<1>1. gs = Begun(gens, f) /\ first = 1 /\ m = ReadingResult(gs[first], p, complete, f)
  OBVIOUS
<1> HIDE DEF gs, first, m
<1>2. /\ Sound(gs, corrections, f) /\ first \in 1 .. Len(gs)
      /\ (p \in DOMAIN gs[first].members => MemberOK(m, f.day[p]))
      /\ ReadingRecorded(gs, first, p, m, full, f, t, pub)
  BY <1>1, RecordReadingDoes
<1>3. Sound(Settle(gs, first, p, m, full, f, t), corrections, f)
  BY <1>2, SettleSound
<1> QED
  BY <1>2, <1>3 DEF ReadingRecorded

\* p left Legend I: p's result in the open newest generation, or a waiting correction.
LeaveResult(g, p) ==
    IF g.members[p].snap = "pending" THEN LeftOut(g.members[p]) ELSE g.members[p]

LeaveRecorded(n, p, m, full, f, t, pub) ==
    \/ /\ pub.gens = gens /\ pub.corrections = corrections
       /\ n = 0 \/ p \notin DOMAIN gens[n].members
    \/ /\ n # 0 /\ p \in DOMAIN gens[n].members /\ Frozen(gens[n]) = {}
       /\ pub.gens = Settle(gens, n, p, m, full, f, t) /\ pub.corrections = corrections
    \/ /\ n # 0 /\ p \in DOMAIN gens[n].members
       /\ pub.gens = gens /\ pub.corrections = Queue(corrections, n, Both, <<>>)

LEMMA RecordLeaveDoes ==
    ASSUME NEW f, Sound(gens, corrections, f),
           NEW p \in Players, NEW full \in BOOLEAN, NEW t,
           NEW n, n = Len(gens), NEW m, m = LeaveResult(gens[n], p),
           NEW pub, pub = RecordLeave(p, full, f, t)
    PROVE  LeaveRecorded(n, p, m, full, f, t, pub)
<1>1. Current(gens) = n
  BY CurrentIsNewest
<1>2. pub = IF n = 0 THEN Pub ELSE IF p \notin DOMAIN gens[n].members THEN Pub
            ELSE IF Frozen(gens[n]) = {}
            THEN [gens |-> Settle(gens, n, p, m, full, f, t), corrections |-> corrections]
            ELSE [gens |-> gens, corrections |-> Queue(corrections, n, Both, <<>>)]
  <2> HIDE DEF Both
  <2> QED BY <1>1 DEF RecordLeave, LeaveResult
<1> QED
  BY <1>2 DEF Pub, LeaveRecorded

LEMMA RecordLeaveSound ==
    ASSUME NEW f, Sound(gens, corrections, f),
           NEW p \in Players, NEW full \in BOOLEAN, NEW t,
           NEW pub, pub = RecordLeave(p, full, f, t)
    PROVE  Sound(pub.gens, pub.corrections, f)
<1> DEFINE n == Len(gens)
           m == LeaveResult(gens[n], p)
           inputs == <<>>
           all == Both
<1>1. n = Len(gens) /\ m = LeaveResult(gens[n], p) /\ n \in Nat
  BY DEF Sound
<1> HIDE DEF n, m
<1>2. LeaveRecorded(n, p, m, full, f, t, pub)
  BY <1>1, RecordLeaveDoes
<1>3. CASE /\ n # 0 /\ p \in DOMAIN gens[n].members
           /\ pub.gens = Settle(gens, n, p, m, full, f, t) /\ pub.corrections = corrections
  <2>1. n \in 1 .. Len(gens)
    BY <1>1, <1>3
  <2>2. MemberOK(gens[n].members[p], f.day[p]) /\ f.day[p] \in Nat
    BY <1>3, <2>1 DEF Sound, GenOK, GenBody
  <2>3. MemberOK(m, f.day[p])
    BY <1>1, <2>2, LeftOutOK DEF LeaveResult
  <2>4. Sound(Settle(gens, n, p, m, full, f, t), corrections, f)
    BY <2>1, <2>3, SettleSound
  <2> QED BY <1>3, <2>4
<1>4. CASE n # 0 /\ pub.gens = gens /\ pub.corrections = Queue(corrections, n, all, inputs)
  <2>1. all \in SUBSET Both /\ "army" \in all /\ InputsOK(inputs, f) /\ Len(gens) > 0
    BY <1>1, <1>4, NoInputs
  <2> HIDE DEF all, inputs
  <2>2. Sound(gens, Queue(corrections, Len(gens), all, inputs), f)
    <3> HIDE DEF Both
    <3> QED BY <2>1, QueueSound
  <2> QED BY <1>1, <1>4, <2>2
<1> QED
  BY <1>2, <1>3, <1>4 DEF LeaveRecorded

\* p's decodes changed: p's status in the newest generation is checked again, and its army
\* results are corrected, or left as they are.
Refreshed(n, p, f) ==
    IF p \in DOMAIN gens[n].members /\ gens[n].members[p].ver > 0
    THEN [gens EXCEPT ![n].members[p].army = ArmyStatus(p, gens[n].members[p].snap, f)] ELSE gens

DecodeRecorded(n, p, full, f, t, pub) ==
    LET refreshed == Refreshed(n, p, f)
        corrected == CorrectArmies(refreshed, corrections, n, f, t)
    IN  \/ n = 0 /\ pub.gens = gens /\ pub.corrections = corrections
        \/ /\ n # 0 /\ pub.corrections = corrections
           /\ pub.gens = IF full THEN TryEnqueue(refreshed, n, FALSE, f, t) ELSE refreshed
        \/ /\ n # 0 /\ pub.corrections = corrected.corrections
           /\ pub.gens = IF full THEN TryEnqueue(corrected.gens, n, FALSE, f, t) ELSE corrected.gens
           /\ gens[n].army \in {"ready", "published"} /\ gens[n].read # None

LEMMA RecordDecodeDoes ==
    ASSUME NEW f, Sound(gens, corrections, f), NEW p \in Players, NEW full \in BOOLEAN, NEW t,
           NEW n, n = Len(gens), NEW pub, pub = RecordDecode(p, full, f, t)
    PROVE  DecodeRecorded(n, p, full, f, t, pub)
<1> DEFINE refreshed == Refreshed(n, p, f)
           corrected == CorrectArmies(refreshed, corrections, n, f, t)
           stale == /\ gens[n].army \in {"ready", "published"} /\ gens[n].read # None
                    /\ p \in DOMAIN gens[n].read /\ gens[n].read[p].decodes # f.decodes[p]
           some == IF stale THEN corrected ELSE [gens |-> refreshed, corrections |-> corrections]
<1>1. Current(gens) = n
  BY CurrentIsNewest
<1>2. pub = IF n = 0 THEN Pub
            ELSE IF full THEN [some EXCEPT !.gens = TryEnqueue(some.gens, n, FALSE, f, t)] ELSE some
  BY <1>1 DEF RecordDecode, Refreshed
<1>3. corrected = [gens |-> corrected.gens, corrections |-> corrected.corrections]
  BY DEF CorrectArmies
<1>4. /\ some = [gens |-> some.gens, corrections |-> some.corrections]
      /\ \/ some.gens = refreshed /\ some.corrections = corrections
         \/ some.gens = corrected.gens /\ some.corrections = corrected.corrections
            /\ gens[n].army \in {"ready", "published"} /\ gens[n].read # None
  <2> HIDE DEF corrected, refreshed
  <2> QED BY <1>3
<1> HIDE DEF some, corrected, refreshed
<1>5. n # 0 => /\ pub.gens = (IF full THEN TryEnqueue(some.gens, n, FALSE, f, t) ELSE some.gens)
               /\ pub.corrections = some.corrections
  BY <1>2, <1>4
<1>6. n = 0 => pub.gens = gens /\ pub.corrections = corrections
  BY <1>2 DEF Pub
<1>7. \/ n = 0 /\ pub.gens = gens /\ pub.corrections = corrections
      \/ /\ n # 0 /\ pub.corrections = corrections
         /\ pub.gens = IF full THEN TryEnqueue(refreshed, n, FALSE, f, t) ELSE refreshed
      \/ /\ n # 0 /\ pub.corrections = corrected.corrections
         /\ pub.gens = IF full THEN TryEnqueue(corrected.gens, n, FALSE, f, t) ELSE corrected.gens
         /\ gens[n].army \in {"ready", "published"} /\ gens[n].read # None
  BY <1>4, <1>5, <1>6
<1> QED
  BY <1>7 DEF DecodeRecorded, corrected, refreshed

LEMMA RefreshedOK ==
    ASSUME NEW f, Sound(gens, corrections, f), NEW p \in Players, NEW n, n = Len(gens), n # 0,
           NEW r, r = Refreshed(n, p, f)
    PROVE  Sound(r, corrections, f) /\ Len(r) = n /\ n \in 1 .. Len(gens)
<1> DEFINE m == gens[n].members[p]
           after == [m EXCEPT !.army = ArmyStatus(p, m.snap, f)]
<1>1. n \in 1 .. Len(gens) /\ n \in Nat
  BY DEF Sound
<1>2. CASE p \in DOMAIN gens[n].members /\ m.ver > 0
  <2>1. MemberOK(m, f.day[p]) /\ f.day[p] \in Nat
    BY <1>1, <1>2 DEF Sound, GenOK, GenBody
  <2>2. MemberOK(after, f.day[p])
    BY <1>2, <2>1 DEF MemberOK, Member, ArmyStatus, Status
  <2>3. r = [gens EXCEPT ![n].members[p] = after]
    BY <1>2 DEF Refreshed
  <2> HIDE DEF after
  <2>4. r = WithMember(gens, n, p, after)
    BY <2>3 DEF WithMember
  <2> QED BY <1>1, <1>2, <2>2, <2>4, MemberSound
<1>3. CASE ~(p \in DOMAIN gens[n].members /\ m.ver > 0)
  BY <1>1, <1>3 DEF Refreshed
<1> QED
  BY <1>2, <1>3

LEMMA RecordDecodeSound ==
    ASSUME NEW f, Sound(gens, corrections, f), tracked \subseteq Players,
           NEW p \in Players, NEW full \in BOOLEAN, NEW t,
           NEW pub, pub = RecordDecode(p, full, f, t)
    PROVE  Sound(pub.gens, pub.corrections, f)
<1> DEFINE n == Len(gens)
           refreshed == Refreshed(n, p, f)
           corrected == CorrectArmies(refreshed, corrections, n, f, t)
           army == FALSE
<1>1. n = Len(gens) /\ n \in Nat
  BY DEF Sound
<1> HIDE DEF n
<1>2. /\ DecodeRecorded(n, p, full, f, t, pub) /\ refreshed = Refreshed(n, p, f)
      /\ corrected = CorrectArmies(refreshed, corrections, n, f, t)
  BY <1>1, RecordDecodeDoes
<1> HIDE DEF refreshed, corrected, army
<1>3. \/ pub.gens = gens /\ pub.corrections = corrections
      \/ /\ n # 0 /\ pub.corrections = corrections
         /\ pub.gens = IF full THEN TryEnqueue(refreshed, n, army, f, t) ELSE refreshed
      \/ /\ n # 0 /\ pub.corrections = corrected.corrections
         /\ pub.gens = IF full THEN TryEnqueue(corrected.gens, n, army, f, t) ELSE corrected.gens
  BY <1>2 DEF DecodeRecorded, refreshed, corrected, army
<1>4. CASE n # 0
  <2>1. Sound(refreshed, corrections, f) /\ Len(refreshed) = n /\ n \in 1 .. Len(refreshed) /\ n > 0
    <3>1. Sound(refreshed, corrections, f) /\ Len(refreshed) = n /\ n \in 1 .. Len(gens)
      BY <1>1, <1>2, <1>4, RefreshedOK
    <3> QED BY <1>1, <3>1
  <2>2. Sound(corrected.gens, corrected.corrections, f) /\ n \in 1 .. Len(corrected.gens)
    <3>1. Sound(corrected.gens, corrected.corrections, f) /\ Len(corrected.gens) \in {n, n + 1}
      BY <1>2, <2>1, CorrectArmiesSound
    <3> QED BY <1>1, <2>1, <3>1
  <2>3. Sound(TryEnqueue(refreshed, n, army, f, t), corrections, f)
    BY <2>1, EnqueueSound
  <2> DEFINE a == corrected.gens
             c == corrected.corrections
  <2> HIDE DEF a, c
  <2>4. Sound(a, c, f) /\ n \in 1 .. Len(a)
    BY <2>2 DEF a, c
  <2>5. Sound(TryEnqueue(a, n, army, f, t), c, f)
    BY <2>4, EnqueueSound
  <2> QED BY <1>3, <2>1, <2>2, <2>3, <2>5 DEF a, c
<1>5. CASE n = 0
  BY <1>3, <1>5
<1> QED
  BY <1>4, <1>5

LEMMA RecordedSound ==
    ASSUME OneInv, NEW kind \in Kinds, NEW p \in Players, NEW full \in BOOLEAN,
           NEW pub, pub = Recorded(kind, p, full)
    PROVE  Sound(pub.gens, pub.corrections, Saved(kind, p)) /\ Saved(kind, p) \in Facts
<1> DEFINE f == Saved(kind, p)
           yes == TRUE
           no == FALSE
<1>1. /\ saved \in Facts /\ tracked \subseteq Players /\ Sound(gens, corrections, saved)
  BY ResetConstants DEF OneInv
<1>2. f \in Facts /\ Later(saved, f) /\ (kind = "day" => f.day[p] > 0)
  BY <1>1, SavedLater
<1> HIDE DEF f
<1>3. Sound(gens, corrections, f)
  BY <1>1, <1>2, LaterSound
<1>4. \/ kind = "day" /\ pub = RecordDay(p, full, f, gate)
      \/ pub = RecordReading(p, yes, full, f, gate)
      \/ pub = RecordReading(p, no, full, f, gate)
      \/ pub = RecordLeave(p, full, f, gate)
      \/ pub = RecordDecode(p, full, f, gate)
  BY DEF Recorded, Kinds, f
<1>5. yes \in BOOLEAN /\ no \in BOOLEAN
  OBVIOUS
<1> HIDE DEF yes, no
<1>6. CASE kind = "day" /\ pub = RecordDay(p, full, f, gate)
  BY <1>1, <1>2, <1>3, <1>6, RecordDaySound DEF f
<1>7. CASE pub = RecordReading(p, yes, full, f, gate)
  BY <1>1, <1>2, <1>3, <1>5, <1>7, RecordReadingSound DEF f
<1>8. CASE pub = RecordReading(p, no, full, f, gate)
  BY <1>1, <1>2, <1>3, <1>5, <1>8, RecordReadingSound DEF f
<1>9. CASE pub = RecordLeave(p, full, f, gate)
  BY <1>1, <1>2, <1>3, <1>9, RecordLeaveSound DEF f
<1>10. CASE pub = RecordDecode(p, full, f, gate)
  BY <1>1, <1>2, <1>3, <1>10, RecordDecodeSound DEF f
<1> QED
  BY <1>4, <1>6, <1>7, <1>8, <1>9, <1>10

-----------------------------------------------------------------------------
(* Builds and the background check.                                        *)

Failing(gs, i, failures) == [gs EXCEPT ![i].failed = failures]

LEMMA FailingSound ==
    ASSUME NEW gs, NEW cs, NEW f, Sound(gs, cs, f), NEW i \in 1 .. Len(gs),
           NEW failures, failures \in SUBSET {"board", "statistics", "army", "waiting"},
           NEW r, r = Failing(gs, i, failures)
    PROVE  Sound(r, cs, f) /\ Len(r) = Len(gs)
<1> DEFINE h == [gs[i] EXCEPT !.failed = failures]
<1>1. gs[i] \in Generation /\ GenOK(gs[i], f)
  BY DEF Sound, GenOK, GenBody
<1>2. /\ h \in Generation /\ h.members = gs[i].members /\ h.read = gs[i].read
      /\ h.corr = gs[i].corr /\ h.affected = gs[i].affected
      /\ h.source = gs[i].source /\ h.statistics = gs[i].statistics
      /\ h.armies = gs[i].armies /\ h.snap = gs[i].snap /\ h.army = gs[i].army
      /\ h.ranked = gs[i].ranked
  BY <1>1 DEF Generation
<1>3. r = [gs EXCEPT ![i] = h]
  BY DEF Failing
<1> HIDE DEF h
<1>4. GenOK(h, f)
  BY <1>1, <1>2 DEF GenOK, GenBody, ToInherit
<1>5. i < Len(gs) => Ended(h.snap) /\ Ended(h.army)
  BY <1>2, EarlierEnded
<1>6. Sound([gs EXCEPT ![i] = h], cs, f)
  BY <1>2, <1>4, <1>5, ReplaceOK
<1>7. Len([gs EXCEPT ![i] = h]) = Len(gs)
  BY <1>2, <1>4, <1>5, ReplaceOK
<1> QED
  BY <1>3, <1>6, <1>7

\* h is g with other members, as sound as g's.
Remembered(g, h, f) == \E ms : MembersOK(ms, f) /\ h = [g EXCEPT !.members = ms]

LEMMA UnchangedRemembered ==
    ASSUME NEW f, NEW g, GenOK(g, f)
    PROVE  Remembered(g, g, f)
<1>1. g \in Generation
  BY DEF GenOK, GenBody
<1>2. g = [g EXCEPT !.members = g.members]
  BY <1>1 DEF Generation
<1>3. MembersOK(g.members, f)
  BY MembersOfGeneration
<1> QED
  BY <1>2, <1>3 DEF Remembered

LEMMA RecheckedOK ==
    ASSUME NEW f, f.day \in [Players -> Nat], f.decodes \in [Players -> Nat],
           NEW g, GenOK(g, f), NEW old, NEW h, h = Rechecked(g, f, old)
    PROVE  Remembered(g, h, f)
<1>1. CASE ~(g.army = "ready" \/ (g.army = "pending" /\ old))
  BY <1>1, UnchangedRemembered DEF Rechecked
<1>2. CASE g.army = "ready" \/ (g.army = "pending" /\ old)
  <2> DEFINE new(p) == IF g.members[p].army = "pending" /\ g.members[p].ver > 0
                       THEN [g.members[p] EXCEPT !.army = ArmyStatus(p, g.members[p].snap, f)]
                       ELSE g.members[p]
             ms == [p \in DOMAIN g.members |-> new(p)]
  <2>1. h = [g EXCEPT !.members = ms]
    BY <1>2 DEF Rechecked
  <2>2. MembersOK(g.members, f)
    BY MembersOfGeneration
  <2>3. ASSUME NEW p \in DOMAIN g.members  PROVE MemberOK(new(p), f.day[p]) /\ new(p) \in Member
    <3>1. MemberOK(g.members[p], f.day[p])
      BY <2>2 DEF MembersOK
    <3> QED BY <3>1 DEF MemberOK, Member, ArmyStatus, Status
  <2> HIDE DEF new
  <2>4. DOMAIN ms = DOMAIN g.members /\ \A p \in DOMAIN g.members : ms[p] = new(p)
    OBVIOUS
  <2>5. ms \in [DOMAIN ms -> Member]
    BY <2>3, <2>4
  <2> HIDE DEF ms
  <2>6. MembersOK(ms, f)
    BY <2>2, <2>3, <2>4, <2>5 DEF MembersOK
  <2> QED BY <2>1, <2>6 DEF Remembered
<1> QED
  BY <1>1, <1>2

LEMMA SettledWaitingOK ==
    ASSUME NEW f, f.day \in [Players -> Nat], f.decodes \in [Players -> Nat],
           NEW g, GenOK(g, f), NEW gs, NEW lost, NEW cut, NEW h, h = SettledWaiting(g, gs, f, lost, cut)
    PROVE  Remembered(g, h, f)
<1>1. CASE g.snap # "pending" \/ g.ranked # None
  BY <1>1, UnchangedRemembered DEF SettledWaiting
<1>2. CASE ~(g.snap # "pending" \/ g.ranked # None)
  <2> DEFINE taken == [p \in DOMAIN g.members |->
                    IF g.source # 0 /\ g.members[p].snap = "pending" /\ g.members[p].ver = 0
                       /\ f.day[p] > 0
                    THEN Result(p, f.day[p], f) ELSE g.members[p]]
             unpublished == \A j \in 1 .. Len(gs) : gs[j].snap # "published"
             new(p) == IF taken[p].snap = "pending" /\ (p \in lost \/ (cut /\ unpublished))
                       THEN LeftOut(taken[p]) ELSE taken[p]
             ms == [p \in DOMAIN g.members |-> new(p)]
  <2>1. h = [g EXCEPT !.members = ms]
    BY <1>2 DEF SettledWaiting
  <2>2. MembersOK(g.members, f)
    BY MembersOfGeneration
  <2>3. ASSUME NEW p \in DOMAIN g.members  PROVE MemberOK(new(p), f.day[p]) /\ new(p) \in Member
    <3>1. MemberOK(g.members[p], f.day[p]) /\ p \in Players
      BY <2>2 DEF MembersOK
    <3>2. f.day[p] \in Nat /\ f.day[p] \in 0 .. f.day[p]
      BY <3>1
    <3>3. MemberOK(Result(p, f.day[p], f), f.day[p])
      BY <3>1, <3>2, ResultOK
    <3>4. MemberOK(taken[p], f.day[p])
      BY <3>1, <3>3
    <3> HIDE DEF taken
    <3>5. MemberOK(new(p), f.day[p])
      BY <3>2, <3>4, LeftOutOK
    <3> QED BY <3>5 DEF MemberOK
  <2> HIDE DEF new
  <2>4. DOMAIN ms = DOMAIN g.members /\ \A p \in DOMAIN g.members : ms[p] = new(p)
    OBVIOUS
  <2>5. ms \in [DOMAIN ms -> Member]
    BY <2>3, <2>4
  <2> HIDE DEF ms
  <2>6. MembersOK(ms, f)
    BY <2>2, <2>3, <2>4, <2>5 DEF MembersOK
  <2> QED BY <2>1, <2>6 DEF Remembered
<1> QED
  BY <1>1, <1>2

\* h is g with other members or failures.
Alike(g, h) ==
    /\ h.source = g.source /\ h.corr = g.corr /\ h.snap = g.snap /\ h.army = g.army

LEMMA RememberedOK ==
    ASSUME NEW f, NEW g, GenOK(g, f), NEW h, Remembered(g, h, f)
    PROVE  GenOK(h, f) /\ Alike(g, h)
<1>1. PICK ms : MembersOK(ms, f) /\ h = [g EXCEPT !.members = ms]
  BY DEF Remembered
<1>2. g \in Generation
  BY DEF GenOK, GenBody
<1>3. GenOK([g EXCEPT !.members = ms], f)
  BY <1>1, WithMembersOK
<1>4. Alike(g, h)
  BY <1>1, <1>2 DEF Alike, Generation
<1> QED
  BY <1>1, <1>3, <1>4

LEMMA RetriedOK ==
    ASSUME NEW f, NEW g, GenOK(g, f), NEW t, NEW h, h = Retried(g, t)
    PROVE  GenOK(h, f) /\ Alike(g, h)
<1>1. PICK failures \in SUBSET {"board", "statistics", "army", "waiting"} : h = [g EXCEPT !.failed = failures]
  <2>1. g \in Generation
    BY DEF GenOK, GenBody
  <2>2. g.failed \in SUBSET {"board", "statistics", "army", "waiting"} /\ g = [g EXCEPT !.failed = g.failed]
    BY <2>1 DEF Generation
  <2> QED BY <2>2 DEF Retried
<1>2. g \in Generation
  BY DEF GenOK, GenBody
<1>3. /\ h \in Generation /\ h.members = g.members /\ h.read = g.read /\ h.corr = g.corr
      /\ h.affected = g.affected /\ h.source = g.source /\ h.statistics = g.statistics
      /\ h.armies = g.armies /\ h.snap = g.snap /\ h.army = g.army /\ h.ranked = g.ranked
  BY <1>1, <1>2 DEF Generation
<1>4. GenOK(h, f)
  BY <1>3 DEF GenOK, GenBody, ToInherit
<1> QED
  BY <1>3, <1>4 DEF Alike

LEMMA AlikeSound ==
    ASSUME NEW gs, NEW cs, NEW f, Sound(gs, cs, f), NEW i \in 1 .. Len(gs),
           NEW h, GenOK(h, f), Alike(gs[i], h), NEW r, r = Put(gs, i, h)
    PROVE  Sound(r, cs, f) /\ Len(r) = Len(gs)
<1>1. /\ h.source = gs[i].source /\ h.corr = gs[i].corr /\ h.snap = gs[i].snap /\ h.army = gs[i].army
  BY DEF Alike
<1>2. i < Len(gs) => Ended(h.snap) /\ Ended(h.army)
  BY <1>1, EarlierEnded
<1>3. Sound([gs EXCEPT ![i] = h], cs, f)
  BY <1>1, <1>2, ReplaceOK
<1>4. Len([gs EXCEPT ![i] = h]) = Len(gs)
  BY <1>1, <1>2, ReplaceOK
<1> QED
  BY <1>3, <1>4 DEF Put

\* The generations after the check looked at the newest one.
Settled(cut, old) ==
    SettledWaiting(Rechecked(gens[Len(gens)], saved, old), gens, saved, failed, cut)
Tried(cut, old) == TryEnqueue(Put(gens, Len(gens), Settled(cut, old)), Len(gens), TRUE, saved, gate)

LEMMA SettledSound ==
    ASSUME OneInv, Len(gens) > 0, NEW cut, NEW old,
           NEW r, r = Put(Tried(cut, old), Len(gens), Retried(Tried(cut, old)[Len(gens)], gate))
    PROVE  Sound(r, corrections, saved) /\ Len(r) = Len(gens)
<1> DEFINE n == Len(gens)
           g == gens[n]
           a == Rechecked(g, saved, old)
           b == Settled(cut, old)
           c == Put(gens, n, b)
           army == TRUE
           d == TryEnqueue(c, n, army, saved, gate)
           e == Retried(d[n], gate)
<1>0. n = Len(gens) /\ n \in 1 .. Len(gens) /\ n \in Nat
  BY DEF OneInv, Sound
<1>1. /\ Sound(gens, corrections, saved) /\ GenOK(g, saved)
      /\ saved.day \in [Players -> Nat] /\ saved.decodes \in [Players -> Nat]
  BY <1>0 DEF OneInv, Sound
<1> HIDE DEF n
<1>2. GenOK(a, saved) /\ Alike(g, a)
  <2>1. a = Rechecked(g, saved, old)
    OBVIOUS
  <2> HIDE DEF a
  <2>2. Remembered(g, a, saved)
    BY <1>1, <2>1, RecheckedOK
  <2> QED BY <1>1, <2>2, RememberedOK
<1>3. GenOK(b, saved) /\ Alike(g, b)
  <2>1. b = SettledWaiting(a, gens, saved, failed, cut)
    BY <1>0 DEF Settled
  <2> HIDE DEF a, b
  <2>2. Remembered(a, b, saved)
    BY <1>1, <1>2, <2>1, SettledWaitingOK
  <2>3. GenOK(b, saved) /\ Alike(a, b)
    BY <1>2, <2>2, RememberedOK
  <2> QED BY <1>2, <2>3 DEF Alike
<1> HIDE DEF a, b, g
<1>4. Sound(c, corrections, saved) /\ Len(c) = n
  <2>1. c = Put(gens, n, b) /\ Alike(gens[n], b)
    BY <1>3 DEF g
  <2> HIDE DEF c
  <2>2. Sound(c, corrections, saved) /\ Len(c) = Len(gens)
    BY <1>0, <1>1, <1>3, <2>1, AlikeSound
  <2> QED BY <1>0, <2>2
<1> HIDE DEF c, army
<1>5. Sound(d, corrections, saved) /\ Len(d) = n
  <2>1. n \in 1 .. Len(c)
    BY <1>0, <1>4
  <2> QED BY <1>4, <2>1, EnqueueSound
<1> HIDE DEF d
<1>6. n \in 1 .. Len(d) /\ GenOK(d[n], saved)
  <2>1. n \in 1 .. Len(d)
    BY <1>0, <1>5
  <2> QED BY <1>5, <2>1 DEF Sound
<1>7. GenOK(e, saved) /\ Alike(d[n], e)
  <2>1. e = Retried(d[n], gate)
    OBVIOUS
  <2> HIDE DEF e
  <2> QED BY <1>6, <2>1, RetriedOK
<1> HIDE DEF e
<1>8. r = Put(d, n, e)
  BY <1>0 DEF Tried, d, c, b, e, army
<1>9. Sound(r, corrections, saved) /\ Len(r) = Len(d)
  BY <1>5, <1>6, <1>7, <1>8, AlikeSound
<1> QED
  BY <1>0, <1>5, <1>9

\* ... with its failed builds to be tried again, if it is unfinished.
Checked(cut, old) ==
    IF Len(gens) > 0 /\ Unfinished(gens[Len(gens)])
    THEN Put(Tried(cut, old), Len(gens), Retried(Tried(cut, old)[Len(gens)], gate)) ELSE gens

Reevaluated(n, checked, r, q) ==
    LET pub == Emit(checked, corrections, n, TRUE, saved, gate)
    IN  \/ r = checked /\ q = corrections
        \/ n > 0 /\ r = pub.gens /\ q = pub.corrections

\* The waiting correction starts from the newest generation.
LEMMA ReevaluateDoes ==
    ASSUME OneInv, NEW cut, NEW old, Reevaluate(cut, old),
           NEW n, n = Len(gens), NEW checked, checked = Checked(cut, old)
    PROVE  Reevaluated(n, checked, gens', corrections')
<1> DEFINE waiting == {k \in 1 .. Len(corrections) : corrections[k].state = "queued"}
           first == CHOOSE k \in waiting : \A j \in waiting : k <= j
           army == TRUE
           pub == Emit(checked, corrections, n, army, saved, gate)
<1>1. n \in Nat /\ Sound(gens, corrections, saved)
  BY DEF OneInv, Sound
<1>2. waiting # {} => n > 0 /\ corrections[first].source = n
  <2>1. ASSUME waiting # {}  PROVE n > 0 /\ corrections[first].source = n
    <3>1. \A k, l \in waiting : k = l
      BY <1>1 DEF Sound, Corrected
    <3>2. PICK k \in waiting : TRUE
      BY <2>1
    <3>3. k \in 1 .. Len(corrections) /\ Len(corrections) \in Nat
      BY <1>1, <3>2 DEF Sound
    <3>4. \A j \in waiting : k <= j
      BY <3>1, <3>2, <3>3
    <3>5. first \in waiting
      BY <3>2, <3>4
    <3>6. first \in 1 .. Len(corrections) /\ corrections[first].state = "queued"
      BY <3>5
    <3> HIDE DEF first
    <3>7. corrections[first].source = n /\ corrections[first].source \in 1 .. n
      BY <1>1, <3>6 DEF Sound, Corrected
    <3> QED BY <1>1, <3>7
  <2> QED BY <2>1
<1>3. Written(IF waiting # {} /\ gate = "open"
              THEN Emit(checked, corrections, corrections[first].source, army, saved, gate)
              ELSE [gens |-> checked, corrections |-> corrections])
  BY DEF Reevaluate, Checked, Tried, Settled, Put
<1> HIDE DEF first, army
<1>4. CASE waiting # {} /\ gate = "open"
  <2>1. Written(pub) /\ n > 0
    BY <1>2, <1>3, <1>4
  <2>2. n > 0 /\ gens' = pub.gens /\ corrections' = pub.corrections
    BY <2>1 DEF Written
  <2>3. pub = Emit(checked, corrections, n, TRUE, saved, gate)
    BY DEF army
  <2> HIDE DEF pub
  <2>4. gens' = Emit(checked, corrections, n, TRUE, saved, gate).gens /\ corrections' = Emit(checked, corrections, n, TRUE, saved, gate).corrections
    BY ONLY <2>2, <2>3
  <2> QED BY <2>2, <2>4 DEF Reevaluated
<1>5. CASE ~(waiting # {} /\ gate = "open")
  <2>1. gens' = checked /\ corrections' = corrections
    BY <1>3, <1>5 DEF Written
  <2> QED BY <2>1 DEF Reevaluated
<1> QED
  BY <1>4, <1>5

LEMMA CheckedSound ==
    ASSUME OneInv, NEW cut, NEW old, NEW r, r = Checked(cut, old)
    PROVE  Sound(r, corrections, saved) /\ Len(r) = Len(gens)
<1>1. CASE Len(gens) > 0 /\ Unfinished(gens[Len(gens)])
  <2>1. r = Put(Tried(cut, old), Len(gens), Retried(Tried(cut, old)[Len(gens)], gate)) /\ Len(gens) > 0
    BY <1>1 DEF Checked
  <2> QED BY <2>1, SettledSound
<1>2. CASE ~(Len(gens) > 0 /\ Unfinished(gens[Len(gens)]))
  BY <1>2 DEF OneInv, Checked
<1> QED
  BY <1>1, <1>2

LEMMA ReevaluateSound ==
    ASSUME OneInv, NEW cut, NEW old, Reevaluate(cut, old)
    PROVE  Sound(gens', corrections', saved)
<1> DEFINE n == Len(gens)
           checked == Checked(cut, old)
           army == TRUE
           pub == Emit(checked, corrections, n, army, saved, gate)
           g == checked[n]
<1>1. n = Len(gens) /\ n \in Nat /\ tracked \subseteq Players /\ checked = Checked(cut, old)
  BY ResetConstants DEF OneInv, Sound
<1> HIDE DEF n, checked
<1>2. Sound(checked, corrections, saved) /\ n = Len(checked)
  BY <1>1, CheckedSound
<1>3. Reevaluated(n, checked, gens', corrections')
  BY <1>1, ReevaluateDoes
<1>4. CASE n > 0 /\ gens' = pub.gens /\ corrections' = pub.corrections
  <2>1. n \in 1 .. Len(checked) /\ checked \in Seq(Generation)
    BY <1>1, <1>2, <1>4 DEF Sound
  <2>2. GenBody(g, saved) /\ g.snap # "superseded" /\ g.army # "superseded"
    BY <1>2, <2>1 DEF Sound, Linked, GenOK
  <2>3. Put(checked, n, g) = checked
    BY <2>1 DEF Put
  <2>4. /\ pub = Emit(Put(checked, n, g), corrections, n, army, saved, gate)
        /\ g.source = checked[n].source /\ g.corr = checked[n].corr
    BY <2>3
  <2> HIDE DEF g, pub, army
  <2>5. Sound(pub.gens, pub.corrections, saved)
    BY <1>1, <1>2, <1>4, <2>2, <2>4, EmitSound
  <2> QED BY <1>4, <2>5
<1> QED
  BY <1>2, <1>3, <1>4 DEF Reevaluated

LEMMA BuildBoardSound ==
    ASSUME OneInv, NEW i \in 1 .. Len(gens), BuildBoard(i)
    PROVE  Sound(gens', corrections', saved)
<1> DEFINE h == [gens[i] EXCEPT !.snap = "building"]
<1>1. Sound(gens, corrections, saved) /\ gens[i] \in Generation /\ GenOK(gens[i], saved)
  BY DEF OneInv, Sound, GenOK, GenBody
<1>2. /\ h \in Generation /\ h.members = gens[i].members /\ h.read = gens[i].read
      /\ h.corr = gens[i].corr /\ h.affected = gens[i].affected
      /\ h.source = gens[i].source /\ h.statistics = gens[i].statistics
      /\ h.armies = gens[i].armies /\ h.snap = "building" /\ h.army = gens[i].army
      /\ h.ranked = gens[i].ranked
  BY <1>1 DEF Generation, Artifact
<1>3. /\ gens' = [gens EXCEPT ![i] = h] /\ corrections' = corrections
      /\ gens[i].snap = "ready" /\ gens[i].ranked # None
  BY DEF BuildBoard
<1> HIDE DEF h
<1>4. GenOK(h, saved)
  BY <1>1, <1>2, <1>3 DEF GenOK, GenBody, ToInherit, Ended
<1>5. ~(i < Len(gens))
  BY <1>1, <1>3, EarlierEnded DEF Ended
<1>6. Sound([gens EXCEPT ![i] = h], corrections, saved)
  BY <1>1, <1>2, <1>4, <1>5, ReplaceOK
<1> QED
  BY <1>3, <1>6

\* Only the newest generation is still built.
LEMMA BuildsNewest ==
    ASSUME NEW gs, NEW cs, NEW f, Sound(gs, cs, f), NEW i \in 1 .. Len(gs),
           ~Ended(gs[i].snap) \/ ~Ended(gs[i].army)
    PROVE  i = Len(gs)
<1>1. ~(i < Len(gs))
  BY EarlierEnded
<1> QED
  BY <1>1 DEF Sound

LEMMA BuildStatisticsSound ==
    ASSUME OneInv, NEW i \in 1 .. Len(gens), BuildStatistics(i)
    PROVE  Sound(gens', corrections', saved)
<1> DEFINE h == [gens[i] EXCEPT !.snap = "published", !.statistics = TRUE]
           army == FALSE
           pub == Emit(Put(gens, i, h), corrections, i, army, saved, gate)
<1>1. /\ Sound(gens, corrections, saved) /\ gens[i] \in Generation /\ GenOK(gens[i], saved)
      /\ tracked \subseteq Players
  BY ResetConstants DEF OneInv, Sound, GenOK, GenBody
<1>2. /\ h \in Generation /\ h.members = gens[i].members /\ h.read = gens[i].read
      /\ h.corr = gens[i].corr /\ h.affected = gens[i].affected
      /\ h.source = gens[i].source /\ h.statistics = TRUE
      /\ h.armies = gens[i].armies /\ h.snap = "published" /\ h.army = gens[i].army
      /\ h.ranked = gens[i].ranked
  BY <1>1 DEF Generation, Artifact
<1>3. gens' = pub.gens /\ corrections' = pub.corrections /\ gens[i].snap = "building"
  <2>1. [gens EXCEPT ![i].snap = "published", ![i].statistics = TRUE] = Put(gens, i, h)
    BY DEF Put
  <2>2. Written(pub) /\ gens[i].snap = "building"
    BY <2>1 DEF BuildStatistics
  <2> QED BY <2>2 DEF Written
<1> HIDE DEF h
<1>4. GenBody(h, saved)
  BY <1>1, <1>2, <1>3 DEF GenOK, GenBody, ToInherit, Ended
<1>5. i = Len(gens) /\ i > 0
  BY <1>1, <1>3, BuildsNewest DEF Ended
<1>6. gens[i].army # "superseded"
  BY <1>1, <1>5 DEF Sound, Linked
<1> HIDE DEF pub, army
<1>7. Sound(pub.gens, pub.corrections, saved)
  BY <1>1, <1>2, <1>4, <1>5, <1>6, EmitSound DEF pub
<1> QED
  BY <1>3, <1>7

LEMMA BuildArmiesSound ==
    ASSUME OneInv, NEW i \in 1 .. Len(gens), BuildArmies(i)
    PROVE  Sound(gens', corrections', saved)
<1> DEFINE h == [gens[i] EXCEPT !.army = "published", !.armies = TRUE]
           army == FALSE
           pub == Emit(Put(gens, i, h), corrections, i, army, saved, gate)
           failures == gens[i].failed \cup {"waiting"}
<1>1. /\ Sound(gens, corrections, saved) /\ gens[i] \in Generation /\ GenOK(gens[i], saved)
      /\ tracked \subseteq Players
  BY ResetConstants DEF OneInv, Sound, GenOK, GenBody
<1>2. /\ h \in Generation /\ h.members = gens[i].members /\ h.read = gens[i].read
      /\ h.corr = gens[i].corr /\ h.affected = gens[i].affected
      /\ h.source = gens[i].source /\ h.statistics = gens[i].statistics
      /\ h.armies = TRUE /\ h.snap = gens[i].snap /\ h.army = "published"
      /\ h.ranked = gens[i].ranked
  BY <1>1 DEF Generation, Artifact
<1>3. /\ gens[i].army = "ready" /\ gens[i].read # None
      /\ \/ gens' = Failing(gens, i, failures) /\ corrections' = corrections
         \/ gens' = pub.gens /\ corrections' = pub.corrections
  <2>1. [gens EXCEPT ![i].army = "published", ![i].armies = TRUE] = Put(gens, i, h)
    BY DEF Put
  <2>2. /\ gens[i].army = "ready" /\ gens[i].read # None
        /\ (gens' = [gens EXCEPT ![i].failed = @ \cup {"waiting"}] /\ corrections' = corrections)
           \/ Written(pub)
    BY <2>1 DEF BuildArmies
  <2> HIDE DEF pub
  <2> QED BY <2>2 DEF Written, Failing
<1> HIDE DEF h
<1>4. GenBody(h, saved)
  <2>1. ~ToInherit(h)
    BY <1>1, <1>2, <1>3 DEF GenOK, GenBody, ToInherit
  <2> QED BY <1>1, <1>2, <1>3, <2>1 DEF GenOK, GenBody, Ended
<1>5. i = Len(gens) /\ i > 0
  BY <1>1, <1>3, BuildsNewest DEF Ended
<1>6. gens[i].snap # "superseded"
  BY <1>1, <1>5 DEF Sound, Linked
<1> HIDE DEF pub, army
<1>7. Sound(pub.gens, pub.corrections, saved)
  BY <1>1, <1>2, <1>4, <1>5, <1>6, EmitSound DEF pub
<1>8. failures \in SUBSET {"board", "statistics", "army", "waiting"}
  BY <1>1 DEF Generation
<1> HIDE DEF failures
<1>9. Sound(Failing(gens, i, failures), corrections, saved)
  BY <1>1, <1>8, FailingSound
<1> QED
  BY <1>3, <1>7, <1>9

LEMMA FailBuildSound ==
    ASSUME OneInv, NEW i \in 1 .. Len(gens), FailBuild(i)
    PROVE  Sound(gens', corrections', saved)
<1>1. Sound(gens, corrections, saved) /\ gens[i] \in Generation
  BY DEF OneInv, Sound, GenOK, GenBody
<1>2. PICK kind \in {"board", "statistics", "army"} :
            gens' = [gens EXCEPT ![i].failed = @ \cup {kind}] /\ corrections' = corrections
  BY DEF FailBuild
<1> DEFINE failures == gens[i].failed \cup {kind}
<1>3. failures \in SUBSET {"board", "statistics", "army", "waiting"}
  BY <1>1 DEF Generation
<1>4. gens' = Failing(gens, i, failures)
  BY <1>2 DEF Failing
<1> HIDE DEF failures
<1>5. Sound(Failing(gens, i, failures), corrections, saved)
  BY <1>1, <1>3, FailingSound
<1> QED
  BY <1>2, <1>4, <1>5

LEMMA QueueingSound ==
    ASSUME OneInv, QueueRebuild \/ QueueArmyCorrection
    PROVE  Sound(gens', corrections', saved)
<1> DEFINE n == Len(gens)
           all == Both
           one == {"army"}
           inputs == <<>>
<1>1. Sound(gens, corrections, saved) /\ Current(gens) = n /\ n \in Nat
  <2>1. Sound(gens, corrections, saved)
    BY DEF OneInv
  <2>2. Current(gens) = Len(gens)
    BY <2>1, CurrentIsNewest
  <2> QED BY <2>1, <2>2 DEF Sound
<1>2. PICK affected \in {all, one} :
            /\ n # 0 /\ gens' = gens
            /\ corrections' = Queue(corrections, n, affected, inputs)
  BY <1>1 DEF QueueRebuild, QueueArmyCorrection
<1>3. affected \in SUBSET Both /\ "army" \in affected /\ InputsOK(inputs, saved)
  BY <1>2, NoInputs
<1> HIDE DEF inputs
<1>4. Sound(gens, Queue(corrections, Len(gens), affected, inputs), saved)
  <2> HIDE DEF Both
  <2> QED BY <1>1, <1>2, <1>3, QueueSound
<1> QED
  BY <1>2, <1>4

-----------------------------------------------------------------------------
(* The invariant.                                                          *)

\* What holds besides Sound.
Around ==
    /\ tracked \in Sweeps /\ swept \in BOOLEAN /\ events \in 0 .. MaxEvents /\ gate \in Gates
    /\ due \subseteq Players /\ failed \subseteq Players /\ unread \subseteq tracked
    /\ sharing \subseteq Transactions /\ IsFiniteSet(sharing) /\ Cardinality(sharing) <= Lanes
    /\ swept \/ (gens = <<>> /\ \A tx \in sharing : tx.kind = "early")

LEMMA OneInvParts ==
    OneInv <=> saved \in Facts /\ Sound(gens, corrections, saved) /\ Around
BY DEF OneInv, Around

LEMMA InitOne == Init => OneInv
<1> SUFFICES ASSUME Init  PROVE OneInv
  OBVIOUS
<1>1. /\ saved = [day |-> [p \in Players |-> 0], decodes |-> [p \in Players |-> 0], below |-> {}]
      /\ gens = <<>> /\ corrections = <<>> /\ sharing = {}
  BY DEF Init
<1>2. saved \in Facts /\ saved.day \in [Players -> Nat] /\ saved.decodes \in [Players -> Nat]
      /\ saved.below \subseteq Players
  BY <1>1 DEF Facts
<1>3. gens \in Seq(Generation) /\ corrections \in Seq(Correction) /\ Len(gens) = 0 /\ Len(corrections) = 0
  BY <1>1, EmptySeq
<1>4. Sound(gens, corrections, saved)
  BY <1>2, <1>3 DEF Sound, Linked, Corrected
<1>5. IsFiniteSet(sharing) /\ Cardinality(sharing) = 0
  BY <1>1, FS_EmptySet
<1>6. Around
  <2>1. tracked \in Sweeps /\ swept = FALSE /\ events = 0 /\ gate = "open"
        /\ due = Players \ tracked /\ failed = {} /\ unread = {}
    BY DEF Init
  <2>2. events \in 0 .. MaxEvents /\ gate \in Gates /\ Cardinality(sharing) <= Lanes
    BY <1>5, <2>1, ResetConstants DEF Gates
  <2>3. due \subseteq Players /\ failed \subseteq Players /\ unread \subseteq tracked
    BY <2>1
  <2>4. sharing \subseteq Transactions /\ \A tx \in sharing : tx.kind = "early"
    BY <1>1
  <2> QED BY <1>1, <1>5, <2>1, <2>2, <2>3, <2>4 DEF Around
<1> QED
  BY <1>2, <1>4, <1>6, OneInvParts

\* A transaction more or less shares the lock.
LEMMA SharingGrows ==
    ASSUME sharing \subseteq Transactions, IsFiniteSet(sharing), Cardinality(sharing) < Lanes,
           NEW tx \in Transactions
    PROVE  /\ sharing \cup {tx} \subseteq Transactions /\ IsFiniteSet(sharing \cup {tx})
           /\ Cardinality(sharing \cup {tx}) <= Lanes
<1>1. IsFiniteSet(sharing \cup {tx})
      /\ Cardinality(sharing \cup {tx}) \in {Cardinality(sharing), Cardinality(sharing) + 1}
  BY FS_AddElement
<1>2. Cardinality(sharing) \in Nat /\ Lanes \in Nat
  BY FS_CardinalityType, ResetConstants
<1> QED
  BY <1>1, <1>2

LEMMA SharingShrinks ==
    ASSUME sharing \subseteq Transactions, IsFiniteSet(sharing), Cardinality(sharing) <= Lanes, NEW tx
    PROVE  /\ sharing \ {tx} \subseteq Transactions /\ IsFiniteSet(sharing \ {tx})
           /\ Cardinality(sharing \ {tx}) <= Lanes
<1>1. IsFiniteSet(sharing \ {tx})
      /\ Cardinality(sharing \ {tx}) \in {Cardinality(sharing), Cardinality(sharing) - 1}
  BY FS_RemoveElement
<1>2. Cardinality(sharing) \in Nat /\ Lanes \in Nat
  BY FS_CardinalityType, ResetConstants
<1> QED
  BY <1>1, <1>2

LEMMA StepSound ==
    ASSUME OneInv, Next
    PROVE  saved' \in Facts /\ Sound(gens', corrections', saved')
<1>1. saved \in Facts /\ Sound(gens, corrections, saved)
  BY DEF OneInv
<1>2. ASSUME saved' = saved /\ gens' = gens /\ corrections' = corrections
      PROVE  saved' \in Facts /\ Sound(gens', corrections', saved')
  BY <1>1, <1>2
<1>3. ASSUME saved' = saved, Sound(gens', corrections', saved)
      PROVE  saved' \in Facts /\ Sound(gens', corrections', saved')
  BY <1>1, <1>3
<1>4. ASSUME NEW kind, NEW p \in Players, saved' = Saved(kind, p),
             gens' = gens, corrections' = corrections
      PROVE  saved' \in Facts /\ Sound(gens', corrections', saved')
  <2>1. Saved(kind, p) \in Facts /\ Later(saved, Saved(kind, p))
    BY <1>1, SavedLater
  <2>2. Sound(gens, corrections, Saved(kind, p))
    BY <1>1, <2>1, LaterSound
  <2> QED BY <1>4, <2>1, <2>2
<1>5. ASSUME NEW kind \in Kinds, NEW p \in Players, NEW full \in BOOLEAN,
             saved' = Saved(kind, p), Written(Recorded(kind, p, full))
      PROVE  saved' \in Facts /\ Sound(gens', corrections', saved')
  <2> DEFINE pub == Recorded(kind, p, full)
  <2>1. gens' = pub.gens /\ corrections' = pub.corrections
    BY <1>5 DEF Written
  <2>2. pub = Recorded(kind, p, full)
    OBVIOUS
  <2> HIDE DEF pub
  <2>3. Sound(pub.gens, pub.corrections, Saved(kind, p)) /\ Saved(kind, p) \in Facts
    BY <2>2, RecordedSound
  <2> QED BY <1>5, <2>1, <2>3
<1>6. ASSUME NEW p \in Players, SaveEarlier(p) \/ StartEarlier(p) \/ CommitEarlier(p)
      PROVE  saved' \in Facts /\ Sound(gens', corrections', saved')
  <2>1. /\ gens' = gens /\ corrections' = corrections
        /\ saved' = saved \/ saved' = Saved("day", p) \/ saved' = Saved("decode", p)
    BY <1>6 DEF SaveEarlier, StartEarlier, CommitEarlier, Done, facts, publication
  <2> QED BY <1>2, <1>4, <2>1
<1>7. ASSUME Sweep
      PROVE  saved' \in Facts /\ Sound(gens', corrections', saved')
  BY <1>2, <1>7 DEF Sweep, publication
<1>8. ASSUME NEW kind \in Kinds, NEW p \in Players, Start(kind, p) \/ Commit(kind, p) \/ Full(kind, p)
      PROVE  saved' \in Facts /\ Sound(gens', corrections', saved')
  <2> DEFINE yes == TRUE
             no == FALSE
  <2>1. \/ saved' = saved /\ gens' = gens /\ corrections' = corrections
        \/ saved' = Saved(kind, p) /\ Written(Recorded(kind, p, no))
        \/ saved' = Saved(kind, p) /\ Written(Recorded(kind, p, yes))
    BY <1>8 DEF Start, Commit, Full, Done, facts, publication
  <2>2. yes \in BOOLEAN /\ no \in BOOLEAN
    OBVIOUS
  <2> HIDE DEF yes, no
  <2> QED BY <1>2, <1>5, <2>1, <2>2
<1>9. ASSUME NEW i \in 1 .. Len(gens),
             BuildBoard(i) \/ BuildStatistics(i) \/ BuildArmies(i) \/ FailBuild(i)
      PROVE  saved' \in Facts /\ Sound(gens', corrections', saved')
  <2>1. saved' = saved
    BY <1>9 DEF BuildBoard, BuildStatistics, BuildArmies, FailBuild, facts
  <2>2. Sound(gens', corrections', saved)
    BY <1>9, BuildBoardSound, BuildStatisticsSound, BuildArmiesSound, FailBuildSound
  <2> QED BY <1>3, <2>1, <2>2
<1>10. ASSUME NEW cut, NEW old, Reevaluate(cut, old)
       PROVE  saved' \in Facts /\ Sound(gens', corrections', saved')
  <2>1. saved' = saved
    BY <1>10 DEF Reevaluate, facts
  <2>2. Sound(gens', corrections', saved)
    BY <1>10, ReevaluateSound
  <2> QED BY <1>3, <2>1, <2>2
<1>11. ASSUME NEW p \in Players, Change(p) \/ FailDay(p)
       PROVE  saved' \in Facts /\ Sound(gens', corrections', saved')
  BY <1>2, <1>11 DEF Change, FailDay, publication
<1>12. ASSUME QueueRebuild \/ QueueArmyCorrection
       PROVE  saved' \in Facts /\ Sound(gens', corrections', saved')
  <2>1. saved' = saved
    BY <1>12 DEF QueueRebuild, QueueArmyCorrection, facts
  <2>2. Sound(gens', corrections', saved)
    BY <1>12, QueueingSound
  <2> QED BY <1>3, <2>1, <2>2
<1>13. ASSUME (\E t \in Gates : Hold(t)) \/ Release
       PROVE  saved' \in Facts /\ Sound(gens', corrections', saved')
  BY <1>2, <1>13 DEF Hold, Release, facts, publication
<1> QED
  BY <1>6, <1>7, <1>8, <1>9, <1>10, <1>11, <1>12, <1>13 DEF Next

\* What a step leaves alone or adds to besides the publication: one lemma for all.
LEMMA StepAround ==
    ASSUME OneInv, Next
    PROVE  Around'
<1>0. Around /\ Sound(gens, corrections, saved)
  BY DEF OneInv, Around
<1>a. tracked' = tracked
  BY DEF Next, SaveEarlier, StartEarlier, CommitEarlier, Sweep, Start, Commit, Full, BuildBoard,
         BuildStatistics, BuildArmies, FailBuild, Reevaluate, Change, FailDay, QueueRebuild,
         QueueArmyCorrection, Hold, Release, facts
<1>b. /\ tracked' \in Sweeps
      /\ \A p \in unread : p \in Players
  BY <1>0, <1>a, ResetConstants DEF Around
<1>c. events \in Nat /\ MaxEvents \in Nat
  BY <1>0, ResetConstants DEF Around
<1> DEFINE Rest ==
        /\ swept' \in BOOLEAN /\ events' \in 0 .. MaxEvents /\ gate' \in Gates
        /\ due' \subseteq Players /\ failed' \subseteq Players /\ unread' \subseteq tracked'
           Shared == sharing' \subseteq Transactions /\ IsFiniteSet(sharing') /\ Cardinality(sharing') <= Lanes
           Idle == swept' \/ (gens' = <<>> /\ \A tx \in sharing' : tx.kind = "early")
<1>d. SUFFICES Rest /\ Shared /\ Idle
  BY <1>b DEF Around
<1>e. ASSUME sharing' = sharing  PROVE Shared
  BY <1>0, <1>e DEF Around
<1>f. ASSUME NEW tx \in Transactions, sharing' = sharing \cup {tx}, Cardinality(sharing) < Lanes
      PROVE  Shared
  BY <1>0, <1>f, SharingGrows DEF Around
<1>g. ASSUME NEW tx, sharing' = sharing \ {tx}
      PROVE  Shared
  BY <1>0, <1>g, SharingShrinks DEF Around
<1> HIDE DEF Shared
<1>1. ASSUME NEW p \in Players, SaveEarlier(p)
      PROVE  Rest /\ Shared /\ Idle
  <2>1. /\ swept' = swept /\ events' = events /\ gate' = gate /\ failed' = failed
        /\ due' = due \ {p} /\ unread' = unread /\ sharing' = sharing /\ gens' = gens
    BY <1>1 DEF SaveEarlier, Done, publication
  <2> QED BY <1>0, <1>a, <1>e, <2>1 DEF Around
<1>2. ASSUME NEW p \in Players, StartEarlier(p)
      PROVE  Rest /\ Shared /\ Idle
  <2> DEFINE tx == [kind |-> "early", player |-> p]
  <2>1. /\ swept' = swept /\ events' = events /\ gate' = gate /\ failed' = failed
        /\ due' = due /\ unread' = unread /\ sharing' = sharing \cup {tx} /\ gens' = gens
        /\ Cardinality(sharing) < Lanes
    BY <1>2 DEF StartEarlier, facts, publication
  <2>2. tx \in Transactions /\ tx.kind = "early"
    BY DEF Transactions
  <2> HIDE DEF tx
  <2> QED BY <1>0, <1>a, <1>f, <2>1, <2>2 DEF Around
<1>3. ASSUME NEW p \in Players, CommitEarlier(p)
      PROVE  Rest /\ Shared /\ Idle
  <2> DEFINE tx == [kind |-> "early", player |-> p]
  <2>1. /\ swept' = swept /\ events' = events /\ gate' = gate /\ failed' = failed
        /\ due' = due /\ unread' = unread /\ sharing' = sharing \ {tx} /\ gens' = gens
    BY <1>3 DEF CommitEarlier, Done, publication
  <2> HIDE DEF tx
  <2> QED BY <1>0, <1>a, <1>g, <2>1 DEF Around
<1>4. ASSUME Sweep
      PROVE  Rest /\ Shared /\ Idle
  <2>1. /\ swept' = TRUE /\ events' = events /\ gate' = gate /\ failed' = failed
        /\ due' = due /\ unread' = tracked /\ sharing' = sharing
    BY <1>4 DEF Sweep
  <2> QED BY <1>0, <1>a, <1>e, <2>1 DEF Around
<1>5. ASSUME NEW kind \in Kinds, NEW p \in Players, Start(kind, p)
      PROVE  Rest /\ Shared /\ Idle
  <2> DEFINE tx == [kind |-> kind, player |-> p]
  <2>1. /\ swept /\ swept' = swept /\ gate' = gate /\ failed' = failed
        /\ due' = due /\ unread' = unread /\ sharing' = sharing \cup {tx}
        /\ Cardinality(sharing) < Lanes /\ Spend(Cost(kind, p))
    BY <1>5 DEF Start, facts
  <2>2. tx \in Transactions
    BY DEF Transactions
  <2>3. events' \in 0 .. MaxEvents
    BY <1>c, <2>1 DEF Spend, Cost
  <2> HIDE DEF tx
  <2> QED BY <1>0, <1>a, <1>f, <2>1, <2>2, <2>3 DEF Around
<1>6. ASSUME NEW kind \in Kinds, NEW p \in Players, Commit(kind, p)
      PROVE  Rest /\ Shared /\ Idle
  <2> DEFINE tx == [kind |-> kind, player |-> p]
  <2>1. /\ swept' = swept /\ events' = events /\ gate' = gate /\ failed' = failed
        /\ due' \subseteq due \cup {p} /\ unread' \subseteq unread
        /\ tx \in sharing /\ sharing' = sharing \ {tx}
    BY <1>6 DEF Commit, facts, Done
  <2>2. tx.kind # "early"
    BY DEF Kinds
  <2> HIDE DEF tx
  <2>3. swept
    BY <1>0, <2>1, <2>2 DEF Around
  <2> QED BY <1>0, <1>a, <1>g, <2>1, <2>3 DEF Around
<1>7. ASSUME NEW kind \in Kinds, NEW p \in Players, Full(kind, p)
      PROVE  Rest /\ Shared /\ Idle
  <2>1. /\ swept /\ swept' = swept /\ gate' = gate /\ failed' = failed
        /\ due' \subseteq due \cup {p} /\ unread' \subseteq unread
        /\ sharing' = sharing /\ Spend(Cost(kind, p))
    BY <1>7 DEF Full, FullLock, Done
  <2>2. events' \in 0 .. MaxEvents
    BY <1>c, <2>1 DEF Spend, Cost
  <2> QED BY <1>0, <1>a, <1>e, <2>1, <2>2 DEF Around
<1>8. ASSUME NEW i \in 1 .. Len(gens),
             BuildBoard(i) \/ BuildStatistics(i) \/ BuildArmies(i) \/ FailBuild(i)
      PROVE  Rest /\ Shared /\ Idle
  <2>1. /\ swept' = swept /\ gate' = gate /\ failed' = failed /\ due' = due /\ unread' = unread
        /\ sharing' = sharing
    BY <1>8 DEF BuildBoard, BuildStatistics, BuildArmies, FailBuild, facts
  <2>2. events' \in 0 .. MaxEvents
    <3>1. CASE FailBuild(i)
      <4>1. events' = events + 1 /\ events + 1 <= MaxEvents
        BY <3>1 DEF FailBuild, Spend
      <4> QED BY <1>c, <4>1
    <3>2. CASE ~FailBuild(i)
      <4>1. events' = events
        BY <1>8, <3>2 DEF BuildBoard, BuildStatistics, BuildArmies
      <4> QED BY <1>0, <4>1 DEF Around
    <3> QED BY <3>1, <3>2
  <2>3. gens # <<>>
    BY EmptySeq
  <2>4. swept
    BY <1>0, <2>3 DEF Around
  <2> QED BY <1>0, <1>a, <1>e, <2>1, <2>2, <2>4 DEF Around
<1>9. ASSUME NEW cut, NEW old, Reevaluate(cut, old)
      PROVE  Rest /\ Shared /\ Idle
  <2>1. /\ swept' = swept /\ gate' = gate /\ failed' = failed /\ due' = due /\ unread' = unread
        /\ sharing' = sharing /\ events' = events
    BY <1>9 DEF Reevaluate, facts
  <2>2. gens # <<>>
    <3>1. Len(gens) > 0 \/ \E k \in 1 .. Len(corrections) : TRUE
      BY <1>9 DEF Reevaluate
    <3>2. CASE Len(gens) > 0
      BY <3>2, EmptySeq
    <3>3. CASE gens = <<>>
      <4>1. corrections = <<>> /\ Len(gens) = 0 /\ Len(corrections) = 0
        BY <1>0, <3>3, NoCorrectionYet
      <4> QED BY <3>1, <4>1
    <3> QED BY <3>1, <3>2, <3>3
  <2>3. swept
    BY <1>0, <2>2 DEF Around
  <2> QED BY <1>0, <1>a, <1>e, <2>1, <2>3 DEF Around
<1>10. ASSUME NEW p \in Players, Change(p) \/ FailDay(p)
       PROVE  Rest /\ Shared /\ Idle
  <2>1. /\ swept /\ swept' = swept /\ gate' = gate /\ unread' = unread
        /\ due' \subseteq due \cup {p} /\ failed' \subseteq failed \cup {p}
        /\ sharing' = sharing
    BY <1>10 DEF Change, FailDay
  <2>2. events' \in 0 .. MaxEvents
    BY <1>c, <1>10 DEF Change, FailDay, Spend
  <2> QED BY <1>0, <1>a, <1>e, <2>1, <2>2 DEF Around
<1>11. ASSUME QueueRebuild \/ QueueArmyCorrection
       PROVE  Rest /\ Shared /\ Idle
  <2>1. /\ swept' = swept /\ gate' = gate /\ failed' = failed /\ due' = due /\ unread' = unread
        /\ sharing' = sharing /\ gens' = gens
    BY <1>11 DEF QueueRebuild, QueueArmyCorrection, facts
  <2>2. events' \in 0 .. MaxEvents
    BY <1>c, <1>11 DEF QueueRebuild, QueueArmyCorrection, Spend
  <2> QED BY <1>0, <1>a, <1>e, <2>1, <2>2 DEF Around
<1>12. ASSUME (\E t \in Gates : Hold(t)) \/ Release
       PROVE  Rest /\ Shared /\ Idle
  <2>1. /\ swept' = swept /\ failed' = failed /\ due' = due /\ unread' = unread
        /\ sharing' = sharing /\ gens' = gens /\ gate' \in Gates
    BY <1>12 DEF Hold, Release, facts, publication, Gates
  <2>2. events' \in 0 .. MaxEvents
    <3>1. events' = events \/ (events' = events + 1 /\ events + 1 <= MaxEvents)
      BY <1>12 DEF Hold, Release, Spend
    <3>2. events \in 0 .. MaxEvents
      BY <1>0 DEF Around
    <3> QED BY <1>c, <3>1, <3>2
  <2> QED BY <1>0, <1>a, <1>e, <2>1, <2>2 DEF Around
<1> QED
  BY <1>1, <1>2, <1>3, <1>4, <1>5, <1>6, <1>7, <1>8, <1>9, <1>10, <1>11, <1>12 DEF Next

LEMMA NextOne == OneInv /\ [Next]_vars => OneInv'
<1> SUFFICES ASSUME OneInv, [Next]_vars  PROVE OneInv'
  OBVIOUS
<1>1. CASE Next
  <2>1. saved' \in Facts /\ Sound(gens', corrections', saved')
    BY <1>1, StepSound
  <2>2. Around'
    BY <1>1, StepAround
  <2> QED BY <2>1, <2>2 DEF OneInv, Around
<1>2. CASE UNCHANGED vars
  BY <1>2 DEF vars, facts, publication, shown, OneInv
<1> QED
  BY <1>1, <1>2

LEMMA OneInvHolds == OneInv => OneAtATime
<1> SUFFICES ASSUME OneInv  PROVE OneAtATime
  OBVIOUS
<1> DEFINE n == Len(gens)
<1>1. /\ Sound(gens, corrections, saved) /\ n \in Nat /\ saved \in Facts
      /\ Corrected(gens, corrections) /\ Linked(gens)
  BY DEF OneInv, Sound
<1>2. ASSUME NEW i \in 1 .. n  PROVE GenerationOK(gens[i])
  <2> DEFINE g == gens[i]
  <2>1. GenBody(g, saved) /\ g \in Generation /\ g.source \in 0 .. n
    BY <1>1 DEF Sound, GenOK, GenBody, Linked
  <2>2. /\ g.snap \in Artifact /\ g.army \in Artifact \ {"building"}
        /\ g.corr \in {"none", "active", "finalized"} /\ g.affected \subseteq Both
        /\ g.statistics \in BOOLEAN /\ g.armies \in BOOLEAN
        /\ g.failed \subseteq {"board", "statistics", "army", "waiting"}
        /\ g.members \in Members /\ g.ranked \in Ranks \cup {None} /\ g.read \in Reads \cup {None}
    BY <2>1 DEF Generation
  <2> HIDE DEF g
  <2>3. DOMAIN g.members \subseteq Players
    BY <2>2 DEF Members
  <2>4. ASSUME NEW p \in DOMAIN g.members
        PROVE  /\ g.members[p].ver \in 0 .. saved.day[p]
               /\ g.members[p].snap \in Status /\ g.members[p].army \in Status
    <3>1. MemberOK(g.members[p], saved.day[p]) /\ saved.day[p] \in Nat
      BY <1>1, <2>1, <2>3 DEF GenBody, Facts
    <3> QED BY <3>1 DEF MemberOK, Member
  <2>5. g.ranked # None => \A p \in DOMAIN g.ranked : g.ranked[p] \in 1 .. saved.day[p]
    BY <2>1 DEF GenBody
  <2>6. ASSUME g.read # None, NEW p \in DOMAIN g.read
        PROVE  g.read[p].decodes \in 0 .. saved.decodes[p]
    <3>1. g.read \in [DOMAIN g.read -> [ver : Nat, decodes : Nat]] /\ DOMAIN g.read \subseteq Players
      BY <2>2, <2>6 DEF Reads
    <3>2. g.read[p].decodes \in Nat /\ g.read[p].decodes <= saved.decodes[p] /\ saved.decodes[p] \in Nat
      BY <1>1, <2>1, <2>6, <3>1 DEF GenBody, Facts
    <3> QED BY <3>2
  <2>7. GenerationOK(g)
    BY <2>1, <2>2, <2>3, <2>4, <2>5, <2>6 DEF GenerationOK
  <2> QED BY <2>7 DEF g
<1>3. ASSUME NEW k \in 1 .. Len(corrections)
      PROVE  /\ corrections[k].source \in 1 .. n /\ corrections[k].gen \in 0 .. n
             /\ corrections[k].affected \subseteq Both /\ corrections[k].state \in {"queued", "active"}
  <2>1. corrections[k] \in Correction
    BY <1>1 DEF Sound
  <2> QED BY <1>1, <2>1 DEF Corrected, Correction
<1>4. TypeOK
  BY <1>1, <1>2, <1>3 DEF TypeOK, OneInv, Facts, Transactions
<1>5. \A i \in 1 .. n - 1 : ~Unfinished(gens[i]) /\ gens[i].corr = "finalized"
  BY <1>1 DEF Linked, Unfinished, Ended
<1>6. n > 0 /\ gens[n].corr = "active" => \E k \in 1 .. Len(corrections) : corrections[k].gen = n
  BY <1>1 DEF Corrected
<1> QED
  BY <1>1, <1>4, <1>5, <1>6 DEF OneAtATime, Corrected

\* A Reset's generations follow one another, for any players, sweeps and limits:
\* only the newest is unfinished or under correction, by one active correction,
\* and at most one more waits on it, whatever order the results, builds, checks
\* and holds take.
THEOREM OneCorrectionAtATime == Spec => []OneAtATime
<1> QED
  BY InitOne, NextOne, OneInvHolds, PTL DEF Spec

-----------------------------------------------------------------------------
(***************************************************************************)
(* No result is lost between the members, the frozen inputs and the        *)
(* corrections, and what is published follows the days and the decodes.    *)
(* Known adds to Sound what the generations hold of the players' results:  *)
(* every generation's frozen inputs are its members' days (FrozenOK), the  *)
(* newest holds each newest day and decode or a correction brings it       *)
(* (HeldOK, BroughtOK), and nothing newer is published (ShownOK).          *)
(***************************************************************************)

\* What is published: the board and the army results.
Out == [board |-> board, armies |-> armies]

\* What generation g's frozen inputs are: its members' days, those of players in Legend I
\* if it inherited the board; only the first generation affects everything.
FrozenOK(g, f) ==
    /\ g.ranked # None => \A p \in DOMAIN g.ranked :
            g.snap = "ready" \/ p \notin f.below
                => p \in DOMAIN g.members /\ g.members[p].ver = g.ranked[p]
    /\ g.read # None =>
            /\ g.ranked # None
            /\ DOMAIN g.read = {p \in DOMAIN g.members : g.members[p].ver > 0}
            /\ \A p \in DOMAIN g.read : g.read[p].ver = g.members[p].ver
    /\ g.affected = {"army"} => g.snap \in {"pending", "published", "superseded"}
    /\ g.corr = "finalized" => g.statistics /\ g.armies
    /\ IF g.source = 0 THEN g.affected = {} /\ g.corr # "active" ELSE "army" \in g.affected

\* What a waiting correction brings is its players' newest day, and the generation g it
\* waits on cannot take it: g froze, or g is the first and the player would join it.
BroughtOK(c, g, f, X) ==
    c.state = "queued" =>
        /\ "snapshot" \in c.affected \/ c.inputs = <<>>
        /\ \A p \in Players : Given(c.inputs, p) # {} =>
            /\ p \notin f.below \cup X => Newest(c.inputs, p) = f.day[p]
            /\ Frozen(g) # {} \/ (g.corr # "active" /\ p \notin DOMAIN g.members)

Awaited(cs, p) == \E k \in 1 .. Len(cs) : cs[k].state = "queued" /\ Given(cs[k].inputs, p) # {}

\* Generation g counts every decode, and holds every member's newest day or a correction
\* brings it; Y and X: the players whose new decode or day it has not been told yet.
HeldOK(g, cs, f, X, Y) ==
    \A p \in DOMAIN g.members :
        /\ p \notin Y /\ g.members[p].army = "pending" /\ g.members[p].snap = "counted"
                => f.decodes[p] = 0
        /\ p \notin f.below \cup X /\ ~Awaited(cs, p) => g.members[p].ver = f.day[p]

\* The board g is to take over from its source ranks g's members by their days.
TakenOK(g, source, f) ==
    ToInherit(g) => \A p \in DOMAIN source.ranked \ f.below :
        p \in DOMAIN g.members /\ g.members[p].ver = source.ranked[p]

\* What is published is no newer than what generation g will publish.
ShownOK(g, f, out) ==
    /\ out.board # None =>
        /\ out.board \in Ranks
        /\ \A p \in DOMAIN out.board :
            /\ out.board[p] <= f.day[p]
            /\ p \in DOMAIN g.members => out.board[p] <= g.members[p].ver
    /\ out.armies # None =>
        /\ out.armies \in Reads
        /\ \A p \in DOMAIN out.armies :
            /\ out.armies[p].ver <= f.day[p] /\ out.armies[p].decodes <= f.decodes[p]
            /\ p \in DOMAIN g.members => out.armies[p].ver <= g.members[p].ver
            /\ g.read # None /\ p \in DOMAIN g.read => out.armies[p].decodes <= g.read[p].decodes

\* The newest generation, what waits for it and what is published.
NewestOK(gs, cs, f, X, Y, out) ==
    LET g == gs[Len(gs)]
    IN  /\ HeldOK(g, cs, f, X, Y)
        /\ \A k \in 1 .. Len(cs) : BroughtOK(cs[k], g, f, X)
        /\ Len(gs) > 1 => TakenOK(g, gs[Len(gs) - 1], f)
        /\ ShownOK(g, f, out)

Known(gs, cs, f, X, Y, out) ==
    /\ \A i \in 1 .. Len(gs) : FrozenOK(gs[i], f)
    /\ IF Len(gs) = 0 THEN out.board = None /\ out.armies = None ELSE NewestOK(gs, cs, f, X, Y, out)

\* Before the first generation the lock is only shared by decodes, which have nobody to
\* tell, and no swept player has a day.
BeforeFirst ==
    /\ \A tx \in sharing : tx.kind = "early" <=> gens = <<>>
    /\ gens = <<>> => \A p \in tracked : saved.day[p] = 0 /\ p \notin due

\* The inductive invariant of NoResultLost, ArmiesFollowDays and NeverOlder.
ResultsInv == OneInv /\ Known(gens, corrections, saved, {}, {}, Out) /\ BeforeFirst

-----------------------------------------------------------------------------
(* Lemmas about one generation.                                            *)

LEMMA RankTyped ==
    ASSUME NEW r \in Ranks, NEW p \in DOMAIN r
    PROVE  p \in Players /\ r[p] \in Nat
BY DEF Ranks

LEMMA ReadTyped ==
    ASSUME NEW r \in Reads, NEW p \in DOMAIN r
    PROVE  p \in Players /\ r[p].ver \in Nat /\ r[p].decodes \in Nat
BY DEF Reads

\* The members of a generation, typed.
LEMMA MemberTyped ==
    ASSUME NEW f, f.day \in [Players -> Nat], NEW g, GenBody(g, f), NEW p \in DOMAIN g.members
    PROVE  /\ p \in Players /\ g.members[p].ver \in Nat /\ f.day[p] \in Nat
           /\ g.members[p].ver <= f.day[p]
BY DEF GenBody, MemberOK, Generation, Members, Member

\* What generation h, put in the place of the newest, must keep of it.
Heir(gs, cs, h, f, X, Y, out) ==
    /\ HeldOK(h, cs, f, X, Y)
    /\ \A k \in 1 .. Len(cs) : BroughtOK(cs[k], h, f, X)
    /\ Len(gs) > 1 => TakenOK(h, gs[Len(gs) - 1], f)
    /\ ShownOK(h, f, out)

LEMMA NewestIsHeir ==
    ASSUME NEW gs, NEW cs, NEW f, NEW X, NEW Y, NEW out, Known(gs, cs, f, X, Y, out),
           NEW n, n = Len(gs), n \in Nat, n > 0
    PROVE  Heir(gs, cs, gs[n], f, X, Y, out) /\ FrozenOK(gs[n], f)
BY DEF Known, NewestOK, Heir

\* Another state of the newest generation.
LEMMA PutNewest ==
    ASSUME NEW gs, NEW f, gs \in Seq(Generation), NEW n, n = Len(gs), n > 0,
           \A i \in 1 .. n : FrozenOK(gs[i], f),
           NEW h \in Generation, FrozenOK(h, f), NEW X, NEW Y, NEW out,
           NEW ds, Heir(gs, ds, h, f, X, Y, out), NEW r, r = Put(gs, n, h)
    PROVE  Known(r, ds, f, X, Y, out)
<1>1. Len(r) = n /\ n \in Nat /\ r[n] = h /\ \A j \in 1 .. n : j # n => r[j] = gs[j]
  BY ExceptSeq DEF Put
<1>2. \A i \in 1 .. n : FrozenOK(r[i], f)
  BY <1>1
<1>3. n > 1 => r[n - 1] = gs[n - 1]
  BY <1>1
<1> QED
  BY <1>1, <1>2, <1>3 DEF Known, NewestOK, Heir

\* Another state of an earlier generation.
LEMMA PutEarlier ==
    ASSUME NEW gs, NEW cs, NEW f, gs \in Seq(Generation),
           NEW X, NEW Y, NEW out, Known(gs, cs, f, X, Y, out),
           NEW i \in 1 .. Len(gs), i < Len(gs),
           NEW h \in Generation, FrozenOK(h, f), h.ranked = gs[i].ranked, NEW r, r = Put(gs, i, h)
    PROVE  Known(r, cs, f, X, Y, out)
<1> DEFINE n == Len(gs)
<1>1. Len(r) = n /\ n \in Nat /\ r[i] = h /\ \A j \in 1 .. n : j # i => r[j] = gs[j]
  BY ExceptSeq DEF Put
<1>2. \A j \in 1 .. n : FrozenOK(r[j], f)
  BY <1>1 DEF Known
<1>3. r[n] = gs[n] /\ n > 1
  BY <1>1
<1>4. r[n - 1].ranked = gs[n - 1].ranked
  BY <1>1
<1>5. TakenOK(gs[n], gs[n - 1], f) => TakenOK(r[n], r[n - 1], f)
  BY <1>3, <1>4 DEF TakenOK
<1> QED
  BY <1>1, <1>2, <1>3, <1>5 DEF Known, NewestOK

\* h is generation g after a step that leaves its members and keeps its frozen inputs.
Steady(g, h, f) ==
    /\ h.members = g.members
    /\ h.corr = "active" => g.corr = "active"
    /\ g.ranked # None => h.ranked # None
    /\ g.read # None => h.read # None
    /\ h.read = g.read \/ h.read = Reading(g, f)
    /\ ToInherit(h) => ToInherit(g)

LEMMA SteadyHeir ==
    ASSUME NEW gs, NEW cs, NEW f, f.decodes \in [Players -> Nat], NEW X, NEW Y, NEW out,
           NEW n, n = Len(gs), NEW g, Heir(gs, cs, g, f, X, Y, out), NEW h, Steady(g, h, f)
    PROVE  Heir(gs, cs, h, f, X, Y, out)
<1>1. HeldOK(h, cs, f, X, Y)
  BY DEF Heir, HeldOK, Steady
<1>2. ASSUME NEW k \in 1 .. Len(cs)  PROVE BroughtOK(cs[k], h, f, X)
  <2>1. Frozen(g) # {} => Frozen(h) # {}
    BY DEF Frozen, Steady
  <2> QED
    BY <2>1 DEF Heir, BroughtOK, Steady
<1>3. n > 1 => TakenOK(h, gs[n - 1], f)
  BY DEF Heir, TakenOK, Steady
<1>4. ASSUME out.armies # None, NEW p \in DOMAIN out.armies, h.read # None, p \in DOMAIN h.read
      PROVE  out.armies[p].decodes <= h.read[p].decodes
  <2>1. CASE h.read = g.read
    BY <1>4, <2>1 DEF Heir, ShownOK
  <2>2. CASE h.read = Reading(g, f)
    <3>1. h.read[p].decodes = f.decodes[p]
      BY <1>4, <2>2 DEF Reading
    <3> QED BY <1>4, <3>1 DEF Heir, ShownOK
  <2> QED
    BY <2>1, <2>2 DEF Steady
<1>5. ShownOK(h, f, out)
  <2>1. h.members = g.members /\ ShownOK(g, f, out)
    BY DEF Steady, Heir
  <2> QED BY <1>4, <2>1 DEF ShownOK
<1> QED
  BY <1>1, <1>2, <1>3, <1>5 DEF Heir

-----------------------------------------------------------------------------
(* Members that change.                                                    *)

WithMembers(g, ms) == [g EXCEPT !.members = ms]

\* The members ms may follow those of generation g: a member keeps their day, or takes the
\* newest while nothing froze and the board is not one to take over.
Moves(g, ms, f) ==
    \A q \in DOMAIN g.members :
        /\ \/ ms[q].ver = g.members[q].ver
           \/ /\ ms[q].ver = f.day[q] /\ Frozen(g) = {}
              /\ ToInherit(g) => g.members[q].ver = 0
        /\ ms[q].army = "pending" /\ ms[q].snap = "counted" =>
            \/ f.decodes[q] = 0
            \/ g.members[q].army = "pending" /\ g.members[q].snap = "counted"

\* Those of X not in X2 are told their newest day, those of Y not in Y2 their decodes.
Told(g, ms, f, X, X2, Y, Y2) ==
    /\ X2 \subseteq X /\ Y2 \subseteq Y
    /\ \A q \in X \ X2 :
        /\ Frozen(g) = {} /\ (g.corr = "active" \/ q \in DOMAIN g.members)
        /\ q \in DOMAIN g.members => ms[q].ver = f.day[q]
    /\ \A q \in Y \ Y2 :
        q \in DOMAIN g.members /\ ms[q].army = "pending" /\ ms[q].snap = "counted"
            => f.decodes[q] = 0

LEMMA WithMembersDoes ==
    ASSUME NEW g \in Generation, NEW ms \in Members, NEW h, h = WithMembers(g, ms)
    PROVE  /\ h \in Generation /\ h.members = ms /\ h.snap = g.snap /\ h.army = g.army
           /\ h.corr = g.corr /\ h.affected = g.affected /\ h.source = g.source
           /\ h.ranked = g.ranked /\ h.read = g.read /\ h.statistics = g.statistics
           /\ h.armies = g.armies
BY DEF WithMembers, Generation

LEMMA FrozenMembers ==
    ASSUME NEW f, NEW g, g \in Generation, FrozenOK(g, f), NEW ms \in Members,
           DOMAIN ms = DOMAIN g.members, Moves(g, ms, f), NEW h, h = WithMembers(g, ms)
    PROVE  FrozenOK(h, f)
<1>1. /\ h.members = ms /\ h.snap = g.snap /\ h.corr = g.corr /\ h.affected = g.affected
      /\ h.source = g.source /\ h.ranked = g.ranked /\ h.read = g.read
      /\ h.statistics = g.statistics /\ h.armies = g.armies
  BY WithMembersDoes
<1>2. g.ranked # None \/ g.read # None => \A q \in DOMAIN g.members : ms[q].ver = g.members[q].ver
  <2>1. "snapshot" \in Both /\ "army" \in Both
    BY DEF Both
  <2>2. Frozen(g) = {} => g.ranked = None /\ g.read = None
    BY <2>1 DEF Frozen
  <2> QED BY <2>2 DEF Moves
<1> QED
  BY <1>1, <1>2 DEF FrozenOK

LEMMA MembersHeir ==
    ASSUME NEW gs, NEW cs, NEW f, Sound(gs, cs, f), NEW X, NEW Y, NEW out,
           NEW n, n = Len(gs), n > 0, NEW g, g = gs[n], Heir(gs, cs, g, f, X, Y, out),
           NEW ms, MembersOK(ms, f), DOMAIN ms = DOMAIN g.members, Moves(g, ms, f),
           NEW X2, NEW Y2, Told(g, ms, f, X, X2, Y, Y2),
           NEW h, h = WithMembers(g, ms)
    PROVE  Heir(gs, cs, h, f, X2, Y2, out)
<1>1. GenBody(g, f) /\ g \in Generation /\ f.day \in [Players -> Nat] /\ gs \in Seq(Generation)
      /\ n \in Nat
  BY DEF Sound, GenOK, GenBody
<1>2. ms \in Members
  BY MembersTyped
<1>3. /\ h.members = ms /\ h.snap = g.snap /\ h.corr = g.corr /\ h.affected = g.affected
      /\ h.source = g.source /\ h.ranked = g.ranked /\ h.read = g.read
  BY <1>1, <1>2, WithMembersDoes
<1>4. Frozen(h) = Frozen(g) /\ (ToInherit(h) <=> ToInherit(g))
  BY <1>3 DEF Frozen, ToInherit
<1>5. HeldOK(h, cs, f, X2, Y2)
  <2>1. HeldOK(g, cs, f, X, Y)
    BY DEF Heir
  <2>2. SUFFICES ASSUME NEW p \in DOMAIN g.members
                 PROVE  /\ p \notin Y2 /\ ms[p].army = "pending" /\ ms[p].snap = "counted"
                                => f.decodes[p] = 0
                        /\ p \notin f.below \cup X2 /\ ~Awaited(cs, p) => ms[p].ver = f.day[p]
    BY <1>3 DEF HeldOK
  <2>3. p \notin Y2 /\ ms[p].army = "pending" /\ ms[p].snap = "counted" => f.decodes[p] = 0
    <3>1. CASE p \in Y
      BY <3>1 DEF Told
    <3>2. CASE p \notin Y
      BY <2>1, <3>2 DEF Moves, HeldOK
    <3> QED BY <3>1, <3>2
  <2>4. p \notin f.below \cup X2 /\ ~Awaited(cs, p) => ms[p].ver = f.day[p]
    <3>1. CASE p \in X
      BY <3>1 DEF Told
    <3>2. CASE p \notin X
      BY <2>1, <3>2 DEF Moves, HeldOK
    <3> QED BY <3>1, <3>2
  <2> QED
    BY <2>3, <2>4
<1>6. ASSUME NEW k \in 1 .. Len(cs)  PROVE BroughtOK(cs[k], h, f, X2)
  <2>1. BroughtOK(cs[k], g, f, X)
    BY DEF Heir
  <2>2. ASSUME cs[k].state = "queued", NEW p \in Players, Given(cs[k].inputs, p) # {},
               p \notin f.below \cup X2
        PROVE  Newest(cs[k].inputs, p) = f.day[p]
    <3>1. CASE p \in X
      BY <2>1, <2>2, <3>1 DEF BroughtOK, Told
    <3>2. CASE p \notin X
      BY <2>1, <2>2, <3>2 DEF BroughtOK
    <3> QED BY <3>1, <3>2
  <2>3. h.members = ms /\ h.corr = g.corr
    BY <1>3
  <2> QED
    BY <1>4, <2>1, <2>2, <2>3 DEF BroughtOK
<1>7. ASSUME n > 1  PROVE TakenOK(h, gs[n - 1], f)
  <2>1. ASSUME ToInherit(h), NEW p \in DOMAIN gs[n - 1].ranked \ f.below
        PROVE  p \in DOMAIN ms /\ ms[p].ver = gs[n - 1].ranked[p]
    <3>1. p \in DOMAIN g.members /\ g.members[p].ver = gs[n - 1].ranked[p]
      BY <1>4, <1>7, <2>1 DEF Heir, TakenOK
    <3>2. n - 1 \in 1 .. n - 1 /\ n - 1 \in 1 .. Len(gs)
      BY <1>1, <1>7
    <3>3. GenBody(gs[n - 1], f) /\ Ended(gs[n - 1].snap)
      BY <3>2 DEF Sound, Linked, GenOK
    <3>4. gs[n - 1].ranked # None
      BY <3>3 DEF GenBody, Ended
    <3>5. gs[n - 1].ranked[p] \in 1 .. f.day[p]
      BY <2>1, <3>3, <3>4 DEF GenBody
    <3>6. g.members[p].ver # 0
      BY <3>1, <3>5
    <3> QED
      BY <1>4, <2>1, <3>1, <3>6 DEF Moves
  <2> QED
    BY <1>3, <2>1 DEF TakenOK
<1>8. ShownOK(h, f, out)
  <2>1. ShownOK(g, f, out)
    BY DEF Heir
  <2>2. ASSUME NEW p \in DOMAIN g.members, NEW v, v <= g.members[p].ver, v <= f.day[p]
        PROVE  v <= ms[p].ver
    BY <2>2 DEF Moves
  <2>3. out.board # None => \A p \in DOMAIN out.board :
            p \in DOMAIN g.members => out.board[p] <= ms[p].ver
    BY <2>1, <2>2 DEF ShownOK
  <2>4. out.armies # None => \A p \in DOMAIN out.armies :
            p \in DOMAIN g.members => out.armies[p].ver <= ms[p].ver
    BY <2>1, <2>2 DEF ShownOK
  <2> QED
    BY <1>3, <2>1, <2>3, <2>4 DEF ShownOK
<1> QED
  BY <1>5, <1>6, <1>7, <1>8 DEF Heir

LEMMA MembersKnown ==
    ASSUME NEW gs, NEW cs, NEW f, Sound(gs, cs, f), NEW X, NEW Y, NEW out,
           Known(gs, cs, f, X, Y, out), NEW n, n = Len(gs), n > 0,
           NEW ms, MembersOK(ms, f), DOMAIN ms = DOMAIN gs[n].members, Moves(gs[n], ms, f),
           NEW X2, NEW Y2, Told(gs[n], ms, f, X, X2, Y, Y2),
           NEW r, r = Put(gs, n, WithMembers(gs[n], ms))
    PROVE  Known(r, cs, f, X2, Y2, out)
<1> DEFINE g == gs[n]
           h == WithMembers(g, ms)
<1>1. g \in Generation /\ gs \in Seq(Generation) /\ n \in Nat
  BY DEF Sound, GenOK, GenBody
<1>2. Heir(gs, cs, g, f, X, Y, out) /\ \A i \in 1 .. n : FrozenOK(gs[i], f)
  BY <1>1, NewestIsHeir DEF Known
<1>3. ms \in Members
  BY MembersTyped
<1>4. Heir(gs, cs, h, f, X2, Y2, out)
  <2> HIDE DEF h
  <2>1. h = WithMembers(g, ms)
    BY DEF h
  <2> HIDE DEF g
  <2>2. g = gs[n]
    BY DEF g
  <2> QED BY <1>2, <2>1, <2>2, MembersHeir
<1>5. FrozenOK(g, f)
  BY <1>1, <1>2
<1>6. FrozenOK(h, f) /\ h \in Generation
  <2> HIDE DEF h
  <2>1. h = WithMembers(g, ms)
    BY DEF h
  <2> QED BY <1>1, <1>3, <1>5, <2>1, FrozenMembers, WithMembersDoes
<1>7. r = Put(gs, n, h)
  BY DEF h, g
<1> HIDE DEF h, g
<1> QED
  BY <1>1, <1>2, <1>4, <1>6, <1>7, PutNewest

-----------------------------------------------------------------------------
(* Enqueueing.                                                             *)

\* A generation that took over its source's board has its members' days in it.
LEMMA InheritFrozen ==
    ASSUME NEW f, NEW g, GenOK(g, f), FrozenOK(g, f), NEW a, GenOK(a, f),
           NEW source, TakenOK(g, source, f), Inherits(g, a, source)
    PROVE  /\ FrozenOK(a, f) /\ a.members = g.members /\ a.corr = g.corr /\ a.read = g.read
           /\ g.ranked = None /\ ~ToInherit(a)
<1>1. g \in Generation
  BY DEF GenOK, GenBody
<1>2. a = [g EXCEPT !.snap = "published", !.statistics = TRUE, !.ranked = source.ranked]
  BY DEF Inherits
<1>3. /\ a.members = g.members /\ a.read = g.read /\ a.corr = g.corr /\ a.affected = g.affected
      /\ a.source = g.source /\ a.snap = "published" /\ a.ranked = source.ranked
  BY <1>1, <1>2 DEF Generation
<1>4. ToInherit(g) /\ g.snap = "pending" /\ g.source # 0
  BY DEF Inherits, ToInherit
<1>5. g.read = None /\ g.ranked = None /\ ~g.statistics
  BY <1>4 DEF GenOK, GenBody, Ended
<1>6. g.corr # "finalized"
  BY <1>5 DEF FrozenOK
<1>7. \A p \in DOMAIN a.ranked : p \notin f.below =>
            p \in DOMAIN a.members /\ a.members[p].ver = a.ranked[p]
  BY <1>3, <1>4 DEF TakenOK
<1>8. FrozenOK(a, f)
  BY <1>3, <1>4, <1>5, <1>6, <1>7 DEF FrozenOK
<1> QED
  BY <1>3, <1>5, <1>8 DEF ToInherit

\* What enqueueing freezes is the members' days, and only a board's inputs that froze let
\* the army results' freeze.
LEMMA StartsFrozen ==
    ASSUME NEW f, NEW a, GenOK(a, f), FrozenOK(a, f), NEW h, GenOK(h, f), Enqueues(a, h, f),
           ToInherit(a) => h = a
    PROVE  FrozenOK(h, f)
<1>1. /\ h.members = a.members /\ h.corr = a.corr /\ h.affected = a.affected
      /\ h.source = a.source /\ h.statistics = a.statistics /\ h.armies = a.armies
  BY DEF Enqueues
<1>2. CASE h = a
  BY <1>2
<1>3. CASE ~ToInherit(a)
  <2>1. ASSUME h.ranked # None, NEW p \in DOMAIN h.ranked, h.snap = "ready" \/ p \notin f.below
        PROVE  p \in DOMAIN h.members /\ h.members[p].ver = h.ranked[p]
    <3>1. CASE h.ranked = a.ranked
      <4>1. a.snap # "pending"
        BY <2>1, <3>1 DEF GenOK, GenBody
      <4>2. h.snap = a.snap
        BY <4>1 DEF Enqueues
      <4> QED BY <1>1, <2>1, <3>1, <4>2 DEF FrozenOK
    <3>2. CASE h.ranked = Ranking(a, f)
      BY <1>1, <2>1, <3>2 DEF Ranking
    <3> QED
      BY <3>1, <3>2 DEF Enqueues
  <2>2. ASSUME h.affected = {"army"}
        PROVE  h.snap \in {"pending", "published", "superseded"} /\ h.snap = a.snap
    <3>1. a.source # 0 /\ a.affected = {"army"}
      BY <1>1, <2>2 DEF FrozenOK
    <3>2. a.snap # "pending"
      BY <1>3, <3>1 DEF ToInherit
    <3>3. h.snap = a.snap
      BY <3>2 DEF Enqueues
    <3> QED BY <3>1, <3>3 DEF FrozenOK
  <2>3. ASSUME h.read # None
        PROVE  /\ h.ranked # None
               /\ DOMAIN h.read = {p \in DOMAIN h.members : h.members[p].ver > 0}
               /\ \A p \in DOMAIN h.read : h.read[p].ver = h.members[p].ver
    <3>1. CASE h.read = a.read
      <4>1. a.ranked # None
        BY <2>3, <3>1 DEF FrozenOK
      <4>2. h.ranked = a.ranked
        BY <4>1 DEF Enqueues
      <4> QED BY <1>1, <2>3, <3>1, <4>1, <4>2 DEF FrozenOK
    <3>2. CASE h.read # a.read
      <4>1. h.snap # "pending" /\ ~(Affects(a, "snapshot") /\ h.snap = "ready")
            /\ h.read = Reading(a, f)
        BY <3>2 DEF Enqueues
      <4>2. h.snap # "ready"
        <5>1. SUFFICES ASSUME h.snap = "ready"  PROVE FALSE
          OBVIOUS
        <5>2. a.affected \subseteq {"snapshot", "army"}
          BY DEF GenOK, GenBody, Generation, Both
        <5>3. a.affected = {"army"}
          BY <4>1, <5>1, <5>2 DEF Affects
        <5> QED BY <1>1, <2>2, <5>1, <5>3
      <4>3. h.ranked # None
        BY <4>1, <4>2 DEF GenOK, GenBody, Generation, Artifact
      <4>4. DOMAIN h.read = {p \in DOMAIN h.members : h.members[p].ver > 0}
            /\ \A p \in DOMAIN h.read : h.read[p].ver = h.members[p].ver
        BY <1>1, <4>1 DEF Reading
      <4> QED BY <4>3, <4>4
    <3> QED
      BY <3>1, <3>2
  <2> QED
    BY <1>1, <2>1, <2>2, <2>3 DEF FrozenOK
<1> QED
  BY <1>2, <1>3

LEMMA StartsSteady ==
    ASSUME NEW f, NEW g, NEW a, a.members = g.members, a.corr = g.corr, a.read = g.read,
           a = g \/ (g.ranked = None /\ ~ToInherit(a)),
           NEW h, Enqueues(a, h, f), ToInherit(a) => h = a
    PROVE  Steady(g, h, f)
<1>1. h.members = g.members /\ h.corr = g.corr
  BY DEF Enqueues
<1>2. g.ranked # None => h.ranked # None
  BY DEF Enqueues
<1>3. Reading(a, f) = Reading(g, f)
  BY DEF Reading
<1>4. (g.read # None => h.read # None) /\ (h.read = g.read \/ h.read = Reading(g, f))
  BY <1>3 DEF Enqueues
<1>5. ToInherit(h) => ToInherit(a)
  BY DEF Enqueues, ToInherit
<1> QED
  BY <1>1, <1>2, <1>4, <1>5 DEF Steady

LEMMA EnqueueKnown ==
    ASSUME NEW gs, NEW cs, NEW f, Sound(gs, cs, f), NEW X, NEW Y, NEW out,
           Known(gs, cs, f, X, Y, out), NEW i \in 1 .. Len(gs), NEW army, NEW t,
           NEW r, r = TryEnqueue(gs, i, army, f, t)
    PROVE  Known(r, cs, f, X, Y, out)
<1> DEFINE n == Len(gs)
           g == gs[i]
<1>1. /\ g \in Generation /\ gs \in Seq(Generation) /\ n \in Nat /\ GenOK(g, f) /\ FrozenOK(g, f)
      /\ f.decodes \in [Players -> Nat]
  BY DEF Sound, GenOK, GenBody, Known
<1>2. PICK a, h :
            /\ GenOK(a, f) /\ GenOK(h, f) /\ Enqueues(a, h, f)
            /\ a = gs[i] \/ (i > 1 /\ Inherits(gs[i], a, gs[i - 1]))
            /\ TryEnqueue(gs, i, army, f, t) = [gs EXCEPT ![i] = h]
            /\ ToInherit(a) => h = a
  BY TryEnqueueOK
<1>3. r = Put(gs, i, h) /\ h \in Generation
  BY <1>2 DEF Put, GenOK, GenBody
<1>4. CASE i = n
  <2>1. Heir(gs, cs, g, f, X, Y, out)
    BY <1>1, <1>4, NewestIsHeir
  <2>2. /\ FrozenOK(a, f) /\ a.members = g.members /\ a.corr = g.corr /\ a.read = g.read
        /\ a = g \/ (g.ranked = None /\ ~ToInherit(a))
    <3>1. CASE a = gs[i]
      BY <1>1, <3>1
    <3>2. CASE i > 1 /\ Inherits(gs[i], a, gs[i - 1])
      <4> DEFINE source == gs[i - 1]
      <4>1. TakenOK(g, source, f)
        BY <1>4, <2>1, <3>2 DEF Heir
      <4>2. Inherits(g, a, source)
        BY <3>2
      <4> HIDE DEF g, source
      <4> QED BY <1>1, <1>2, <4>1, <4>2, InheritFrozen
    <3> QED
      BY <1>2, <3>1, <3>2
  <2> HIDE DEF g
  <2>3. Steady(g, h, f)
    BY <1>2, <2>2, StartsSteady
  <2>4. FrozenOK(h, f)
    BY <1>2, <2>2, StartsFrozen
  <2>5. Heir(gs, cs, h, f, X, Y, out)
    BY <1>1, <2>1, <2>3, SteadyHeir
  <2>6. \A j \in 1 .. n : FrozenOK(gs[j], f)
    BY DEF Known
  <2> QED
    BY <1>1, <1>3, <1>4, <2>4, <2>5, <2>6, PutNewest
<1>5. CASE i < n
  <2>1. Ended(g.snap) /\ Ended(g.army)
    BY <1>5, EarlierEnded
  <2>2. a = g
    BY <1>2, <2>1 DEF Inherits, ToInherit, Ended
  <2>3. h.ranked = g.ranked
    BY <1>2, <2>1, <2>2 DEF Enqueues, Ended
  <2>4. FrozenOK(h, f)
    <3> HIDE DEF g
    <3> QED BY <1>1, <1>2, <2>2, StartsFrozen
  <2> QED
    BY <1>1, <1>3, <1>5, <2>3, <2>4, PutEarlier
<1> QED
  BY <1>1, <1>4, <1>5

-----------------------------------------------------------------------------
(* Facts saved later, and the first generation.                            *)

\* The facts h later than f: only players of X have a new day, of Y a new decode.
Beyond(f, h, X, Y) ==
    /\ Later(f, h) /\ f.below \subseteq h.below
    /\ \A p \in Players \ X : h.day[p] = f.day[p]
    /\ \A p \in Players \ Y : h.decodes[p] = f.decodes[p]

LEMMA LaterHeir ==
    ASSUME NEW gs, NEW cs, NEW f, NEW h, f.day \in [Players -> Nat], f.decodes \in [Players -> Nat],
           NEW X, NEW Y, Beyond(f, h, X, Y), NEW out,
           NEW g, GenBody(g, f), Heir(gs, cs, g, f, {}, {}, out)
    PROVE  Heir(gs, cs, g, h, X, Y, out)
<1>1. \A p \in DOMAIN g.members : p \in Players
  BY MemberTyped
<1>2. HeldOK(g, cs, h, X, Y)
  BY <1>1 DEF Heir, HeldOK, Beyond
<1>3. \A k \in 1 .. Len(cs) : BroughtOK(cs[k], g, h, X)
  BY DEF Heir, BroughtOK, Beyond
<1>4. Len(gs) > 1 => TakenOK(g, gs[Len(gs) - 1], h)
  BY DEF Heir, TakenOK, Beyond
<1>5. ShownOK(g, h, out)
  <2>1. ShownOK(g, f, out)
    BY DEF Heir
  <2>2. ASSUME out.board # None, NEW p \in DOMAIN out.board  PROVE out.board[p] <= h.day[p]
    <3>1. p \in Players /\ out.board[p] \in Nat
      BY <2>1, <2>2, RankTyped DEF ShownOK
    <3>2. out.board[p] <= f.day[p] /\ f.day[p] <= h.day[p] /\ f.day[p] \in Nat /\ h.day[p] \in Nat
      BY <2>1, <2>2, <3>1 DEF ShownOK, Beyond, Later
    <3> QED BY <3>1, <3>2
  <2>3. ASSUME out.armies # None, NEW p \in DOMAIN out.armies
        PROVE  out.armies[p].ver <= h.day[p] /\ out.armies[p].decodes <= h.decodes[p]
    <3>1. p \in Players /\ out.armies[p].ver \in Nat /\ out.armies[p].decodes \in Nat
      BY <2>1, <2>3, ReadTyped DEF ShownOK
    <3>2. /\ out.armies[p].ver <= f.day[p] /\ f.day[p] <= h.day[p]
          /\ out.armies[p].decodes <= f.decodes[p] /\ f.decodes[p] <= h.decodes[p]
          /\ f.day[p] \in Nat /\ h.day[p] \in Nat /\ f.decodes[p] \in Nat /\ h.decodes[p] \in Nat
      BY <2>1, <2>3, <3>1 DEF ShownOK, Beyond, Later
    <3> QED BY <3>1, <3>2
  <2> QED
    BY <2>1, <2>2, <2>3 DEF ShownOK
<1> QED
  BY <1>2, <1>3, <1>4, <1>5 DEF Heir

LEMMA LaterFrozen ==
    ASSUME NEW f, NEW h, f.below \subseteq h.below, NEW g, FrozenOK(g, f)
    PROVE  FrozenOK(g, h)
BY DEF FrozenOK

LEMMA LaterKnown ==
    ASSUME NEW gs, NEW cs, NEW f, Sound(gs, cs, f), NEW out, Known(gs, cs, f, {}, {}, out),
           NEW h, NEW X, NEW Y, Beyond(f, h, X, Y)
    PROVE  Known(gs, cs, h, X, Y, out)
<1> DEFINE n == Len(gs)
<1>1. n \in Nat /\ f.day \in [Players -> Nat] /\ f.decodes \in [Players -> Nat]
      /\ f.below \subseteq h.below
  BY DEF Sound, Beyond
<1>2. \A i \in 1 .. n : FrozenOK(gs[i], h)
  BY <1>1, LaterFrozen DEF Known
<1>3. CASE n = 0
  BY <1>2, <1>3 DEF Known
<1>4. CASE n > 0
  <2> DEFINE g == gs[n]
  <2>1. GenBody(g, f)
    BY <1>1, <1>4 DEF Sound, GenOK
  <2>2. Heir(gs, cs, g, f, {}, {}, out)
    BY <1>1, <1>4, NewestIsHeir
  <2> HIDE DEF g
  <2>3. Heir(gs, cs, g, h, X, Y, out)
    BY <1>1, <2>1, <2>2, LaterHeir
  <2> QED
    BY <1>2, <1>4, <2>3 DEF Known, NewestOK, Heir, g
<1> QED
  BY <1>1, <1>3, <1>4

LEMMA NewGenerationDoes ==
    ASSUME NEW source, NEW affected, NEW corr, NEW ms,
           NEW g, g = NewGeneration(source, affected, corr, ms)
    PROVE  /\ g.members = ms /\ g.source = source /\ g.affected = affected /\ g.corr = corr
           /\ g.snap = "pending" /\ g.army = "pending" /\ g.ranked = None /\ g.read = None
           /\ g.statistics = FALSE /\ g.armies = FALSE
BY DEF NewGeneration

\* A result counts its decodes, and its day is the one it was given.
LEMMA ResultHolds ==
    ASSUME NEW f, NEW p, NEW v, NEW m, m = Result(p, v, f)
    PROVE  m.ver = v /\ (m.army = "pending" /\ m.snap = "counted" => f.decodes[p] = 0)
BY DEF Result, ArmyStatus

\* The first generation: swept players have no day yet, but for those of X.
LEMMA BegunKnown ==
    ASSUME NEW gs, gs \in Seq(Generation), NEW f, f.day \in [Players -> Nat],
           NEW X, NEW Y, NEW out, Known(gs, <<>>, f, X, Y, out), gs = <<>>,
           \A p \in tracked \ X : f.day[p] = 0,
           NEW r, r = Begun(gs, f)
    PROVE  Known(r, <<>>, f, X, {}, out) /\ Len(r) = 1
<1> DEFINE ms == Copied(gs, 0, f)
           g == NewGeneration(0, {}, "none", ms)
<1>1. r = <<g>>
  BY DEF Begun
<1>2. ASSUME NEW p \in DOMAIN ms
      PROVE  /\ p \notin X => ms[p].ver = f.day[p]
             /\ ms[p].army = "pending" /\ ms[p].snap = "counted" => f.decodes[p] = 0
  <2> DEFINE v == IF p \in tracked THEN 0 ELSE f.day[p]
  <2>1. ms[p] = Result(p, v, f)
    BY DEF Copied
  <2>2. p \notin X => v = f.day[p]
    OBVIOUS
  <2> HIDE DEF v, ms
  <2>3. ms[p].ver = v /\ (ms[p].army = "pending" /\ ms[p].snap = "counted" => f.decodes[p] = 0)
    BY <2>1, ResultHolds
  <2> QED BY <2>2, <2>3
<1>3. /\ g.members = ms /\ g.source = 0 /\ g.affected = {} /\ g.corr = "none" /\ g.snap = "pending"
      /\ g.ranked = None /\ g.read = None
  <2> HIDE DEF ms
  <2> QED BY DEF NewGeneration
<1> HIDE DEF g, ms
<1>4. Len(r) = 1 /\ r[1] = g
  BY <1>1
<1>5. FrozenOK(g, f)
  BY <1>3 DEF FrozenOK
<1>6. HeldOK(g, <<>>, f, X, {})
  BY <1>2, <1>3 DEF HeldOK
<1>7. out.board = None /\ out.armies = None
  BY DEF Known
<1>8. ShownOK(g, f, out)
  BY <1>7 DEF ShownOK
<1> QED
  BY <1>4, <1>5, <1>6, <1>8 DEF Known, NewestOK

-----------------------------------------------------------------------------
(* The next generation.                                                    *)

\* Members that hold every newest day and count every decode.
FreshMembers(ms, f) ==
    \A p \in DOMAIN ms :
        /\ ms[p].ver = f.day[p]
        /\ ms[p].army = "pending" /\ ms[p].snap = "counted" => f.decodes[p] = 0

LEMMA OneQueued ==
    ASSUME NEW gs, NEW cs, NEW f, Sound(gs, cs, f), NEW k \in 1 .. Len(cs), cs[k].state = "queued",
           NEW p, Awaited(cs, p)
    PROVE  Given(cs[k].inputs, p) # {}
BY DEF Awaited, Sound, Corrected

\* The inputs bring the newest day of those of X and of those a correction brings it.
Fills(inputs, cs, f, X) ==
    \A p \in BoardMembers(f) :
        IF Given(inputs, p) = {} THEN p \notin X /\ ~Awaited(cs, p) ELSE Newest(inputs, p) = f.day[p]

\* Members copied from the newest generation, with the inputs of those it misses.
LEMMA CopiedFresh ==
    ASSUME NEW gs, NEW cs, NEW f, Sound(gs, cs, f), NEW X, NEW out,
           Known(gs, cs, f, X, {}, out), NEW n, n = Len(gs), n > 0,
           NEW inputs, Fills(inputs, cs, f, X),
           NEW ms, ms = WithInputs(Copied(gs, n, f), inputs, f)
    PROVE  FreshMembers(ms, f) /\ DOMAIN ms = BoardMembers(f)
<1> DEFINE copied == Copied(gs, n, f)
           g == gs[n]
<1>1. DOMAIN copied = BoardMembers(f)
  BY DEF Copied
<1>2. n \in Nat /\ HeldOK(g, cs, f, X, {})
  BY NewestIsHeir DEF Sound, Heir
<1>3. ASSUME NEW p \in BoardMembers(f), Given(inputs, p) = {}
      PROVE  /\ copied[p].ver = f.day[p]
             /\ copied[p].army = "pending" /\ copied[p].snap = "counted" => f.decodes[p] = 0
  <2>1. CASE p \in DOMAIN g.members
    <3>1. copied[p] = g.members[p] /\ p \notin f.below
      BY <1>2, <1>3, <2>1 DEF Copied, BoardMembers
    <3>2. p \notin X /\ ~Awaited(cs, p)
      BY <1>3 DEF Fills
    <3> HIDE DEF copied, g
    <3> QED BY <1>2, <2>1, <3>1, <3>2 DEF HeldOK
  <2>2. CASE p \notin DOMAIN g.members
    <3> DEFINE v == f.day[p]
    <3>1. copied[p] = Result(p, v, f)
      BY <1>2, <1>3, <2>2 DEF Copied
    <3> HIDE DEF v, copied
    <3>2. copied[p].ver = v /\ (copied[p].army = "pending" /\ copied[p].snap = "counted" => f.decodes[p] = 0)
      BY <3>1, ResultHolds
    <3> QED BY <3>2 DEF v
  <2> QED
    BY <2>1, <2>2
<1>4. ms = [p \in DOMAIN copied |-> IF Given(inputs, p) = {} THEN copied[p]
                                    ELSE Result(p, Newest(inputs, p), f)]
  BY DEF WithInputs
<1> HIDE DEF copied, g
<1>5. DOMAIN ms = BoardMembers(f)
  BY <1>1, <1>4
<1>6. ASSUME NEW p \in BoardMembers(f)
      PROVE  /\ ms[p].ver = f.day[p]
             /\ ms[p].army = "pending" /\ ms[p].snap = "counted" => f.decodes[p] = 0
  <2>1. CASE Given(inputs, p) = {}
    BY <1>1, <1>3, <1>4, <2>1
  <2>2. CASE Given(inputs, p) # {}
    <3> DEFINE v == Newest(inputs, p)
               m == ms[p]
    <3>1. m = Result(p, v, f) /\ v = f.day[p]
      BY <1>1, <1>4, <2>2 DEF Fills
    <3> HIDE DEF v, m
    <3>2. m.ver = v /\ (m.army = "pending" /\ m.snap = "counted" => f.decodes[p] = 0)
      BY <3>1, ResultHolds
    <3> QED BY <3>1, <3>2 DEF m
  <2> QED
    BY <2>1, <2>2
<1> QED
  BY <1>5, <1>6 DEF FreshMembers

\* Members copied without inputs are those copied with none.
LEMMA CopiedOnly ==
    ASSUME NEW gs, NEW i, NEW f
    PROVE  Copied(gs, i, f) = WithInputs(Copied(gs, i, f), <<>>, f)
<1>1. \A p : Given(<<>>, p) = {}
  BY DEF Given
<1> QED
  BY <1>1 DEF WithInputs, Copied

\* A generation with newest days is an heir of any: nothing waits for it.
LEMMA FreshHeir ==
    ASSUME NEW gs, gs \in Seq(Generation), NEW f, f.day \in [Players -> Nat], NEW n, n = Len(gs), n > 0,
           NEW X, NEW Y, NEW out, NEW old, ShownOK(old, f, out),
           NEW g, g.read = None, FreshMembers(g.members, f),
           NEW cs, \A k \in 1 .. Len(cs) : cs[k].state # "queued"
    PROVE  HeldOK(g, cs, f, X, Y) /\ ShownOK(g, f, out) /\ \A k \in 1 .. Len(cs) : BroughtOK(cs[k], g, f, X)
<1>1. HeldOK(g, cs, f, X, Y)
  BY DEF HeldOK, FreshMembers
<1>2. ShownOK(g, f, out)
  BY DEF ShownOK, FreshMembers
<1> QED
  BY <1>1, <1>2 DEF BroughtOK

LEMMA AppendKnown ==
    ASSUME NEW gs, gs \in Seq(Generation), NEW f, f.day \in [Players -> Nat], NEW n, n = Len(gs), n > 0,
           \A i \in 1 .. n : FrozenOK(gs[i], f), NEW out, NEW old, ShownOK(old, f, out),
           NEW g, FrozenOK(g, f), TakenOK(g, gs[n], f), g.read = None, FreshMembers(g.members, f),
           NEW cs, \A k \in 1 .. Len(cs) : cs[k].state # "queued",
           NEW X, NEW Y, NEW r, r = Append(gs, g)
    PROVE  Known(r, cs, f, X, Y, out)
<1>1. /\ Len(r) = n + 1 /\ n \in Nat /\ r[n + 1] = g /\ \A i \in 1 .. n : r[i] = gs[i]
  OBVIOUS
<1>2. \A i \in 1 .. n + 1 : FrozenOK(r[i], f)
  <2>1. SUFFICES ASSUME NEW i \in 1 .. n + 1  PROVE FrozenOK(r[i], f)
    OBVIOUS
  <2>2. i = n + 1 \/ i \in 1 .. n
    BY <1>1
  <2> QED BY <1>1, <2>2
<1>3. HeldOK(g, cs, f, X, Y) /\ ShownOK(g, f, out) /\ \A k \in 1 .. Len(cs) : BroughtOK(cs[k], g, f, X)
  BY FreshHeir
<1>4. r[Len(r)] = g /\ r[Len(r) - 1] = gs[n] /\ Len(r) > 1 /\ Len(r) # 0
  BY <1>1
<1> QED
  BY <1>1, <1>2, <1>3, <1>4 DEF Known, NewestOK

-----------------------------------------------------------------------------
(* The correction that starts when a generation is whole.                  *)

LEMMA SuccessorDoes ==
    ASSUME NEW gs, NEW n, NEW c, NEW f, "army" \in c.affected, NEW h, h = Successor(gs, n, c, f)
    PROVE  /\ h.members = WithInputs(Copied(gs, n, f), c.inputs, f) /\ h.read = None
           /\ h.source = n /\ h.affected = c.affected /\ h.corr = "active"
           /\ IF "snapshot" \in c.affected THEN h.snap = "pending" /\ h.ranked = None
              ELSE h.snap = gs[n].snap /\ h.ranked = gs[n].ranked
<1> DEFINE ms == WithInputs(Copied(gs, n, f), c.inputs, f)
           g == NewGeneration(n, c.affected, "active", ms)
           s == gs[n].snap
           r == gs[n].ranked
           x == gs[n].statistics
<1>1. h = IF "snapshot" \in c.affected THEN g
          ELSE [g EXCEPT !.snap = s, !.ranked = r, !.statistics = x]
  BY DEF Successor
<1> HIDE DEF s, r, x, ms
<1>2. CASE "snapshot" \in c.affected
  BY <1>1, <1>2 DEF NewGeneration, ms
<1>3. CASE "snapshot" \notin c.affected
  <2>1. h = [g EXCEPT !.snap = s, !.ranked = r, !.statistics = x]
    BY <1>1, <1>3
  <2>2. /\ h.members = ms /\ h.read = None /\ h.source = n /\ h.affected = c.affected
        /\ h.corr = "active" /\ h.snap = s /\ h.ranked = r
    BY <2>1 DEF NewGeneration
  <2> QED BY <1>3, <2>2 DEF ms, s, r
<1> QED
  BY <1>2, <1>3

\* It holds every newest day, and the board it keeps ranks its members by their days.
LEMMA SuccessorKnown ==
    ASSUME NEW gs, NEW cs, NEW f, Sound(gs, cs, f), NEW out, Known(gs, cs, f, {}, {}, out),
           NEW n, n = Len(gs), n > 0, gs[n].snap = "published",
           NEW k \in 1 .. Len(cs), cs[k].state = "queued",
           NEW h, h = Successor(gs, n, cs[k], f)
    PROVE  /\ FrozenOK(h, f) /\ TakenOK(h, gs[n], f) /\ h.read = None
           /\ FreshMembers(h.members, f)
<1> DEFINE c == cs[k]
           g == gs[n]
<1>1. /\ n \in Nat /\ f.day \in [Players -> Nat] /\ GenBody(g, f) /\ CorrectionOK(c, f)
      /\ f.below \subseteq Players
  BY DEF Sound, GenOK
<1>2. c.affected \subseteq {"snapshot", "army"} /\ "army" \in c.affected
  BY <1>1 DEF CorrectionOK, Correction, Both
<1>3. Heir(gs, cs, g, f, {}, {}, out) /\ FrozenOK(g, f)
  BY <1>1, NewestIsHeir
<1>4. BroughtOK(c, g, f, {})
  BY <1>3 DEF Heir
<1>5. ASSUME NEW p \in BoardMembers(f)
      PROVE  IF Given(c.inputs, p) = {} THEN p \notin {} /\ ~Awaited(cs, p)
             ELSE Newest(c.inputs, p) = f.day[p]
  <2>1. Given(c.inputs, p) = {} => ~Awaited(cs, p)
    BY OneQueued
  <2>2. p \notin f.below
    BY <1>5 DEF BoardMembers
  <2>3. Given(c.inputs, p) # {} => p \in Players
    <3>1. c.inputs \in Seq(Input)
      BY <1>1 DEF CorrectionOK, Correction
    <3>2. SUFFICES ASSUME NEW j \in 1 .. Len(c.inputs), c.inputs[j].player = p
                   PROVE  p \in Players
      BY DEF Given
    <3>3. c.inputs[j] \in Input
      <4> DEFINE s == c.inputs
      <4> HIDE DEF s, c
      <4>1. s \in Seq(Input) /\ j \in 1 .. Len(s)
        BY <3>1 DEF s
      <4>2. s[j] \in Input
        BY <4>1
      <4> QED BY <4>2 DEF s
    <3> QED BY <3>2, <3>3 DEF Input
  <2> QED
    BY <1>4, <2>1, <2>2, <2>3 DEF BroughtOK
<1>6. /\ h.members = WithInputs(Copied(gs, n, f), c.inputs, f) /\ h.read = None
      /\ h.source = n /\ h.affected = c.affected /\ h.corr = "active"
      /\ IF "snapshot" \in c.affected THEN h.snap = "pending" /\ h.ranked = None
         ELSE h.snap = gs[n].snap /\ h.ranked = gs[n].ranked
  <2> HIDE DEF c
  <2>1. h = Successor(gs, n, c, f)
    BY DEF c
  <2> QED BY <1>2, <2>1, SuccessorDoes
<1>7. FreshMembers(h.members, f) /\ DOMAIN h.members = BoardMembers(f)
  <2> DEFINE inputs == c.inputs
             ms == h.members
             none == {}
  <2>1. ms = WithInputs(Copied(gs, n, f), inputs, f)
    BY <1>6
  <2>2. Fills(inputs, cs, f, none)
    BY <1>5 DEF Fills
  <2>3. Known(gs, cs, f, none, {}, out)
    OBVIOUS
  <2> HIDE DEF inputs, ms, none, c
  <2>4. FreshMembers(ms, f) /\ DOMAIN ms = BoardMembers(f)
    BY <2>1, <2>2, <2>3, CopiedFresh
  <2> QED BY <2>4 DEF ms
<1>8. CASE "snapshot" \in c.affected
  <2>1. h.affected # {"army"}
    BY <1>6, <1>8
  <2>2. FrozenOK(h, f)
    BY <1>1, <1>2, <1>6, <1>8, <2>1 DEF FrozenOK
  <2> QED
    BY <1>6, <1>7, <2>1, <2>2 DEF TakenOK, ToInherit
<1>9. CASE "snapshot" \notin c.affected
  <2>1. h.snap = "published" /\ h.ranked = g.ranked
    BY <1>6, <1>9
  <2>2. ASSUME h.ranked # None, NEW p \in DOMAIN h.ranked, p \notin f.below
        PROVE  p \in DOMAIN h.members /\ h.members[p].ver = h.ranked[p]
    <3>1. p \in DOMAIN g.members /\ g.members[p].ver = g.ranked[p]
      BY <1>3, <2>1, <2>2 DEF FrozenOK
    <3>2. f.day[p] > 0 /\ p \in Players
      <4>1. g.ranked[p] \in 1 .. f.day[p]
        BY <1>1, <2>1, <2>2 DEF GenBody
      <4>2. p \in Players /\ f.day[p] \in Nat
        <5> HIDE DEF g
        <5> QED BY <1>1, <3>1, MemberTyped
      <4> QED BY <4>1, <4>2
    <3>3. p \in BoardMembers(f)
      BY <2>2, <3>2 DEF BoardMembers
    <3>4. c.inputs = <<>>
      BY <1>4, <1>9 DEF BroughtOK
    <3>5. Given(c.inputs, p) = {}
      BY <3>4 DEF Given
    <3>6. ~Awaited(cs, p)
      BY <3>5, OneQueued
    <3>7. g.members[p].ver = f.day[p]
      BY <1>3, <2>2, <3>1, <3>6 DEF Heir, HeldOK
    <3> QED
      BY <1>7, <2>1, <3>1, <3>3, <3>7 DEF FreshMembers
  <2>3. FrozenOK(h, f)
    BY <1>1, <1>2, <1>6, <2>1, <2>2 DEF FrozenOK
  <2> QED
    BY <1>6, <1>7, <2>1, <2>3 DEF TakenOK, ToInherit
<1> QED
  BY <1>8, <1>9

\* The corrections left wait as they did.
LEMMA LeftHeir ==
    ASSUME NEW gs, NEW cs, NEW f, NEW X, NEW Y, NEW out, NEW g, Heir(gs, cs, g, f, X, Y, out),
           NEW left, Left(cs, left)
    PROVE  Heir(gs, left, g, f, X, Y, out)
<1>1. \A p : Awaited(cs, p) => Awaited(left, p)
  BY DEF Awaited, Left
<1>2. HeldOK(g, left, f, X, Y)
  BY <1>1 DEF Heir, HeldOK
<1>3. \A k \in 1 .. Len(left) : BroughtOK(left[k], g, f, X)
  BY DEF Heir, Left
<1> QED
  BY <1>2, <1>3 DEF Heir

LEMMA DoneFrozen ==
    ASSUME NEW f, NEW g, GenBody(g, f), FrozenOK(g, f), g.statistics, g.armies,
           NEW h, h = DoneWith(g)
    PROVE  FrozenOK(h, f) /\ Steady(g, h, f) /\ h \in Generation
<1>1. g \in Generation
  BY DEF GenBody
<1>2. /\ h \in Generation /\ h.members = g.members /\ h.snap = g.snap /\ h.army = g.army
      /\ h.corr = "finalized" /\ h.affected = g.affected /\ h.source = g.source
      /\ h.ranked = g.ranked /\ h.read = g.read /\ h.statistics = g.statistics
      /\ h.armies = g.armies
  BY <1>1 DEF DoneWith, Generation
<1> QED
  BY <1>2 DEF FrozenOK, Steady, ToInherit

LEMMA EmitKnown ==
    ASSUME NEW gs, NEW cs, NEW f, Sound(gs, cs, f), tracked \subseteq Players,
           NEW n, n = Len(gs), n > 0, \A i \in 1 .. n : FrozenOK(gs[i], f), NEW out,
           NEW g, GenBody(g, f), g.source = gs[n].source, g.corr = gs[n].corr,
           g.snap # "superseded", g.army # "superseded",
           FrozenOK(g, f), Heir(gs, cs, g, f, {}, {}, out), NEW army, NEW t,
           NEW pub, pub = Emit(Put(gs, n, g), cs, n, army, f, t)
    PROVE  Known(pub.gens, pub.corrections, f, {}, {}, out)
<1> DEFINE h == DoneWith(g)
           done == Put(gs, n, h)
           none == {}
<1>1. Emitted(gs, cs, n, g, army, f, t, pub)
  BY EmitDoes
<1>2. /\ n \in Nat /\ n \in 1 .. Len(gs) /\ gs \in Seq(Generation) /\ g \in Generation
      /\ f.day \in [Players -> Nat] /\ f.decodes \in [Players -> Nat]
      /\ Heir(gs, cs, g, f, none, none, out)
  BY DEF Sound, GenBody
<1>3. CASE ~(g.statistics /\ g.armies) /\ pub.gens = Put(gs, n, g) /\ pub.corrections = cs
  <2> HIDE DEF none
  <2>1. Known(pub.gens, cs, f, none, none, out)
    BY <1>2, <1>3, PutNewest
  <2> QED BY <1>3, <2>1 DEF none
<1>4. ASSUME g.statistics, g.armies
      PROVE  /\ FrozenOK(h, f) /\ h \in Generation /\ Heir(gs, cs, h, f, none, none, out)
             /\ g.snap = "published" /\ g.army = "published"
  <2>1. h = DoneWith(g)
    OBVIOUS
  <2> HIDE DEF h, none
  <2>2. FrozenOK(h, f) /\ Steady(g, h, f) /\ h \in Generation
    BY <1>4, <2>1, DoneFrozen
  <2>3. Heir(gs, cs, h, f, none, none, out)
    BY <1>2, <2>2, SteadyHeir
  <2>4. g.snap = "published" /\ g.army = "published"
    BY <1>4 DEF GenBody, Ended
  <2> QED BY <2>2, <2>3, <2>4
<1>5. ASSUME g.statistics, g.armies, NEW left, Left(cs, left)
      PROVE  Known(done, left, f, none, none, out)
  <2>1. h \in Generation /\ FrozenOK(h, f) /\ Heir(gs, cs, h, f, none, none, out)
    BY <1>4, <1>5
  <2>2. done = Put(gs, n, h)
    OBVIOUS
  <2> HIDE DEF h, done, none
  <2>3. Heir(gs, left, h, f, none, none, out)
    BY <1>5, <2>1, LeftHeir
  <2> QED
    BY <1>2, <2>1, <2>2, <2>3, PutNewest
<1>6. CASE g.statistics /\ g.armies /\ pub.gens = done /\ Left(cs, pub.corrections)
  <2> DEFINE left == pub.corrections
  <2> HIDE DEF left, h, done, none
  <2>1. Known(done, left, f, none, none, out)
    BY <1>5, <1>6 DEF left
  <2> QED BY <1>6, <2>1 DEF left, none
<1>7. CASE /\ g.statistics /\ g.armies
           /\ \E left : \E k \in 1 .. Len(left) :
                /\ Left(cs, left)
                /\ pub.gens = TryEnqueue(Append(done, Successor(done, n, left[k], f)),
                                         n + 1, army, f, t)
                /\ pub.corrections = Started(left, k, n + 1)
  <2>1. PICK left : \E k \in 1 .. Len(left) :
            /\ Left(cs, left)
            /\ pub.gens = TryEnqueue(Append(done, Successor(done, n, left[k], f)),
                                     n + 1, army, f, t)
            /\ pub.corrections = Started(left, k, n + 1)
    BY <1>7
  <2>2. PICK k \in 1 .. Len(left) :
            /\ Left(cs, left)
            /\ pub.gens = TryEnqueue(Append(done, Successor(done, n, left[k], f)),
                                     n + 1, army, f, t)
            /\ pub.corrections = Started(left, k, n + 1)
    BY <2>1
  <2> DEFINE s == Successor(done, n, left[k], f)
             a == Append(done, s)
             m == n + 1
  <2>3. /\ Sound(a, pub.corrections, f) /\ Len(a) = m
        /\ Sound(done, left, f) /\ Len(done) = n /\ done[n] = h
        /\ CorrectionOK(left[k], f) /\ left[k].state = "queued"
    <3> DEFINE cs2 == pub.corrections
    <3>1. done = Put(gs, n, DoneWith(g)) /\ cs2 = Started(left, k, n + 1)
      BY <2>2
    <3>2. g.snap = "published" /\ g.army = "published"
      BY <1>4, <1>7
    <3> HIDE DEF done, cs2, h
    <3>3. /\ Sound(Append(done, Successor(done, n, left[k], f)), cs2, f)
          /\ Len(Append(done, Successor(done, n, left[k], f))) = n + 1
          /\ Sound(done, left, f) /\ Len(done) = n /\ done[n] = DoneWith(g)
          /\ CorrectionOK(left[k], f) /\ left[k].state = "queued"
      BY <2>2, <3>1, <3>2, StartSound
    <3> QED BY <3>3 DEF cs2, h
  <2>4. Known(done, left, f, none, none, out)
    <3> HIDE DEF done, none
    <3> QED BY <1>5, <1>7, <2>2
  <2>5. done[n].snap = "published"
    <3>1. h.snap = g.snap
      BY <1>2 DEF DoneWith, Generation
    <3> HIDE DEF done, h
    <3> QED BY <1>4, <1>7, <2>3, <3>1
  <2> HIDE DEF h
  <2>6. FrozenOK(s, f) /\ TakenOK(s, done[n], f) /\ s.read = None /\ FreshMembers(s.members, f)
    <3>1. s = Successor(done, n, left[k], f)
      OBVIOUS
    <3> HIDE DEF s, done
    <3>2. Known(done, left, f, {}, {}, out)
      BY <2>4 DEF none
    <3> QED
      BY <1>2, <2>3, <2>5, <3>1, <3>2, SuccessorKnown
  <2>7. ShownOK(h, f, out) /\ \A i \in 1 .. n : FrozenOK(done[i], f)
    <3> HIDE DEF done
    <3> QED BY <1>4, <1>7, <2>3, <2>4 DEF Heir, Known
  <2>8. done \in Seq(Generation)
    <3> HIDE DEF done
    <3> QED BY <2>3 DEF Sound
  <2>9. \A j \in 1 .. Len(pub.corrections) : pub.corrections[j].state # "queued"
    <3> DEFINE cs2 == pub.corrections
    <3>1. left \in Seq(Correction) /\ \A j \in 1 .. Len(left) : j = k
      BY <2>2 DEF Left
    <3>2. cs2 = Started(left, k, m) /\ m \in Nat
      BY <1>2, <2>2
    <3> HIDE DEF m, cs2
    <3>3. Starts(left, k, m, cs2, f)
      BY <2>3, <3>1, <3>2, StartedOK
    <3>4. \A j \in 1 .. Len(cs2) : cs2[j].state # "queued"
      BY <3>1, <3>3 DEF Starts
    <3> QED BY <3>4 DEF cs2
  <2>10. Known(a, pub.corrections, f, none, none, out)
    <3> DEFINE cs2 == pub.corrections
    <3>1. a = Append(done, s) /\ \A j \in 1 .. Len(cs2) : cs2[j].state # "queued"
      BY <2>9
    <3> HIDE DEF a, s, done, cs2, none
    <3>2. Known(a, cs2, f, none, none, out)
      BY <1>2, <2>3, <2>6, <2>7, <2>8, <3>1, AppendKnown
    <3> QED BY <3>2 DEF cs2
  <2>11. m \in 1 .. Len(a) /\ pub.gens = TryEnqueue(a, m, army, f, t)
    BY <1>2, <2>2, <2>3
  <2> DEFINE cs2 == pub.corrections
             r == pub.gens
  <2> HIDE DEF a, m, done, s, none, cs2, r
  <2>12. Known(r, cs2, f, none, none, out)
    BY <2>3, <2>10, <2>11, EnqueueKnown DEF cs2, r
  <2> QED
    BY <2>12 DEF cs2, r, none
<1> QED
  BY <1>1, <1>3, <1>6, <1>7 DEF Emitted

-----------------------------------------------------------------------------
(* Corrections that come to wait.                                          *)

LEMMA NewestIs ==
    ASSUME NEW s \in Seq(Input), NEW p, NEW k \in Given(s, p), \A j \in Given(s, p) : j <= k
    PROVE  Newest(s, p) = s[k].ver
<1> DEFINE best == CHOOSE i \in Given(s, p) : \A j \in Given(s, p) : j <= i
<1>1. best \in Given(s, p) /\ \A j \in Given(s, p) : j <= best
  OBVIOUS
<1>2. \A i \in Given(s, p) : i \in Nat
  BY DEF Given
<1>3. best = k
  <2> HIDE DEF best
  <2> QED BY <1>1, <1>2
<1> QED
  BY <1>3 DEF Newest

LEMMA LastGiven ==
    ASSUME NEW s \in Seq(Input), NEW p, Given(s, p) # {}
    PROVE  \E k \in Given(s, p) : \A j \in Given(s, p) : j <= k
<1>1. Given(s, p) \in SUBSET (0 .. Len(s)) /\ Len(s) \in Nat
  BY DEF Given
<1> QED
  BY <1>1, GreatestExists

\* Later inputs decide, where they say anything of a player.
LEMMA GivenJoined ==
    ASSUME NEW s \in Seq(Input), NEW r \in Seq(Input), NEW p
    PROVE  /\ Given(s \o r, p) = {} <=> Given(s, p) = {} /\ Given(r, p) = {}
           /\ Given(r, p) # {} => Newest(s \o r, p) = Newest(r, p)
           /\ Given(r, p) = {} /\ Given(s, p) # {} => Newest(s \o r, p) = Newest(s, p)
<1> DEFINE q == s \o r
           a == Len(s)
           b == Len(r)
<1>1. /\ q \in Seq(Input) /\ a \in Nat /\ b \in Nat /\ Len(q) = a + b
      /\ \A k \in 1 .. a : q[k] = s[k]
      /\ \A k \in 1 .. b : q[a + k] = r[k]
  OBVIOUS
<1> HIDE DEF q
<1>2. \A k : k \in Given(q, p) <=> (k \in Given(s, p) \/ (k \in Int /\ k - a \in Given(r, p)))
  <2>1. ASSUME NEW k \in 1 .. a + b  PROVE k \in 1 .. a \/ (k - a \in 1 .. b /\ q[k] = r[k - a])
    <3>1. CASE k > a
      <4>1. k - a \in 1 .. b /\ a + (k - a) = k
        BY <1>1, <3>1
      <4> QED BY <1>1, <4>1
    <3> QED BY <1>1, <3>1
  <2>2. ASSUME NEW k \in Int, k - a \in 1 .. b
        PROVE  k \in 1 .. a + b /\ q[k] = r[k - a] /\ k > a
    <3>1. a + (k - a) = k
      BY <1>1
    <3> QED BY <1>1, <2>2, <3>1
  <2> HIDE DEF a, b
  <2>3. Given(q, p) = {k \in 1 .. a + b : q[k].player = p}
    BY <1>1 DEF Given
  <2>4. Given(s, p) = {k \in 1 .. a : s[k].player = p} /\ Given(r, p) = {k \in 1 .. b : r[k].player = p}
    BY DEF Given, a, b
  <2> QED
    <3>1. ASSUME NEW k \in Given(q, p)
          PROVE  k \in Given(s, p) \/ (k \in Int /\ k - a \in Given(r, p))
      <4>1. k \in 1 .. a + b /\ q[k].player = p /\ k \in Int
        BY <1>1, <2>3
      <4>2. CASE k \in 1 .. a
        <5>1. q[k] = s[k]
          BY <1>1, <4>2
        <5> QED BY <2>4, <4>1, <4>2, <5>1
      <4>3. CASE k - a \in 1 .. b /\ q[k] = r[k - a]
        BY <2>4, <4>1, <4>3
      <4> QED BY <2>1, <4>1, <4>2, <4>3
    <3>2. ASSUME NEW k \in Given(s, p)  PROVE k \in Given(q, p)
      <4>1. k \in 1 .. a /\ s[k].player = p
        BY <2>4
      <4>2. q[k] = s[k] /\ k \in 1 .. a + b
        BY <1>1, <4>1
      <4> QED BY <2>3, <4>1, <4>2
    <3>3. ASSUME NEW k \in Int, k - a \in Given(r, p)  PROVE k \in Given(q, p)
      <4>1. k - a \in 1 .. b /\ r[k - a].player = p
        BY <2>4, <3>3
      <4>2. k \in 1 .. a + b /\ q[k] = r[k - a]
        BY <2>2, <4>1
      <4> QED BY <2>3, <4>1, <4>2
    <3> QED BY <3>1, <3>2, <3>3
<1>3. Given(q, p) = {} <=> Given(s, p) = {} /\ Given(r, p) = {}
  <2>1. ASSUME NEW j \in Given(r, p)  PROVE a + j \in Given(q, p)
    <3>1. j \in Int /\ (a + j) - a = j
      BY <1>1 DEF Given
    <3> QED BY <1>1, <1>2, <3>1
  <2> QED
    BY <1>2, <2>1
<1>4. ASSUME Given(r, p) # {}  PROVE Newest(q, p) = Newest(r, p)
  <2>1. PICK m \in Given(r, p) : \A j \in Given(r, p) : j <= m
    BY <1>4, LastGiven
  <2>2. m \in 1 .. b /\ (a + m) - a = m /\ a + m \in Int
    BY <1>1 DEF Given
  <2>3. a + m \in Given(q, p)
    BY <1>2, <2>2
  <2>4. ASSUME NEW j \in Given(q, p)  PROVE j <= a + m
    <3>1. CASE j \in Given(s, p)
      BY <1>1, <2>2, <3>1 DEF Given
    <3>2. CASE j \in Int /\ j - a \in Given(r, p)
      BY <1>1, <2>1, <2>2, <3>2
    <3> QED BY <1>2, <2>4, <3>1, <3>2
  <2> DEFINE k == a + m
  <2>5. k \in Given(q, p) /\ \A j \in Given(q, p) : j <= k
    BY <2>3, <2>4
  <2>6. q[k].ver = r[m].ver
    BY <1>1, <2>2
  <2> HIDE DEF k
  <2> QED
    BY <1>1, <2>1, <2>5, <2>6, NewestIs
<1>5. ASSUME Given(r, p) = {}, Given(s, p) # {}  PROVE Newest(q, p) = Newest(s, p)
  <2>1. PICK m \in Given(s, p) : \A j \in Given(s, p) : j <= m
    BY <1>5, LastGiven
  <2>2. m \in Given(q, p) /\ \A j \in Given(q, p) : j <= m
    BY <1>2, <1>5, <2>1
  <2>3. q[m].ver = s[m].ver
    BY <1>1 DEF Given
  <2> QED
    BY <1>1, <2>1, <2>2, <2>3, NewestIs
<1> QED
  BY <1>3, <1>4, <1>5 DEF q

\* The inputs bring the newest days of players generation g cannot take, those of X not in
\* X2 among them.
Brings(inputs, affected, g, f, X, X2) ==
    /\ "snapshot" \in affected \/ inputs = <<>>
    /\ \A p : Given(inputs, p) # {} =>
        /\ Newest(inputs, p) = f.day[p]
        /\ Frozen(g) # {} \/ (g.corr # "active" /\ p \notin DOMAIN g.members)
    /\ X2 \subseteq X /\ \A p \in X \ X2 : Given(inputs, p) # {}

LEMMA QueueKnown ==
    ASSUME NEW gs, NEW cs, NEW f, Sound(gs, cs, f), NEW n, n = Len(gs), n > 0,
           NEW X, NEW Y, NEW out, Known(gs, cs, f, X, Y, out),
           NEW affected \in SUBSET Both, "army" \in affected, NEW inputs, InputsOK(inputs, f),
           NEW X2, Brings(inputs, affected, gs[n], f, X, X2),
           NEW q, q = Queue(cs, n, affected, inputs)
    PROVE  Known(gs, q, f, X2, Y, out)
<1> DEFINE g == gs[n]
<1>1. Widened(cs, n, affected, inputs, q)
  <2> HIDE DEF g
  <2> QED BY QueueDoes
<1>2. /\ n \in Nat /\ cs \in Seq(Correction) /\ Len(cs) \in Nat /\ inputs \in Seq(Input)
      /\ q \in Seq(Correction)
  <2>1. gs \in Seq(Generation) /\ cs \in Seq(Correction)
    BY DEF Sound
  <2>2. inputs \in Seq(Input)
    BY DEF InputsOK
  <2>3. q \in Seq(Correction)
    BY <1>1 DEF Widened
  <2> HIDE DEF g
  <2> QED BY <2>1, <2>2, <2>3
<1>3. Heir(gs, cs, g, f, X, Y, out)
  BY <1>2, NewestIsHeir, Zenon
<1>4. Brings(inputs, affected, g, f, X, X2)
  BY Zenon
<1> HIDE DEF g
<1>5. ASSUME NEW k \in 1 .. Len(q), q[k].state = "queued"
      PROVE  \/ /\ k \in 1 .. Len(cs) /\ cs[k].state = "queued" /\ cs[k].inputs \in Seq(Input)
                /\ q[k].affected = cs[k].affected \cup affected /\ q[k].inputs = cs[k].inputs \o inputs
             \/ /\ Queued(cs, n) = {} /\ k = Len(cs) + 1
                /\ q[k].affected = affected /\ q[k].inputs = inputs
  <2>1. CASE k \in 1 .. Len(cs) /\ q[k] = cs[k] /\ cs[k].state # "queued"
    BY <1>5, <2>1
  <2>2. CASE /\ k \in 1 .. Len(cs) /\ cs[k].state = "queued"
             /\ q[k] = [cs[k] EXCEPT !.affected = @ \cup affected, !.inputs = @ \o inputs]
    <3>1. cs[k] \in Correction
      BY <1>2, <2>2
    <3> QED BY <2>2, <3>1 DEF Correction
  <2>3. CASE /\ k = Len(cs) + 1 /\ Queued(cs, n) = {}
             /\ q[k] = [source |-> n, gen |-> 0, affected |-> affected,
                        inputs |-> inputs, state |-> "queued"]
    BY <2>3
  <2> QED
    BY <1>1, <2>1, <2>2, <2>3 DEF Widened
<1>6. ASSUME NEW k \in 1 .. Len(q)  PROVE BroughtOK(q[k], g, f, X2)
  <2>1. SUFFICES ASSUME q[k].state = "queued"
                 PROVE  /\ "snapshot" \in q[k].affected \/ q[k].inputs = <<>>
                        /\ \A p \in Players : Given(q[k].inputs, p) # {} =>
                            /\ p \notin f.below \cup X2 => Newest(q[k].inputs, p) = f.day[p]
                            /\ Frozen(g) # {} \/ (g.corr # "active" /\ p \notin DOMAIN g.members)
    BY DEF BroughtOK
  <2>2. CASE /\ k \in 1 .. Len(cs) /\ cs[k].state = "queued" /\ cs[k].inputs \in Seq(Input)
             /\ q[k].affected = cs[k].affected \cup affected /\ q[k].inputs = cs[k].inputs \o inputs
    <3>1. BroughtOK(cs[k], g, f, X)
      BY <1>3, <2>2 DEF Heir
    <3>2. "snapshot" \in q[k].affected \/ q[k].inputs = <<>>
      BY <1>4, <2>2, <3>1 DEF BroughtOK, Brings
    <3>3. ASSUME NEW p \in Players, Given(q[k].inputs, p) # {}
          PROVE  /\ p \notin f.below \cup X2 => Newest(q[k].inputs, p) = f.day[p]
                 /\ Frozen(g) # {} \/ (g.corr # "active" /\ p \notin DOMAIN g.members)
      <4> DEFINE s == cs[k].inputs
                 r == q[k].inputs
      <4>1. s \in Seq(Input) /\ r = s \o inputs /\ Given(r, p) # {}
        BY <2>2, <3>3
      <4>2. BroughtOK(cs[k], g, f, X) /\ cs[k].state = "queued" /\ s = cs[k].inputs
        BY <2>2, <3>1
      <4> HIDE DEF s, r
      <4>3. CASE Given(inputs, p) # {}
        <5>1. Newest(r, p) = f.day[p]
          BY <1>2, <1>4, <4>1, <4>3, GivenJoined DEF Brings
        <5> QED BY <1>4, <4>3, <5>1 DEF Brings, r
      <4>4. CASE Given(inputs, p) = {}
        <5>1. Given(s, p) # {} /\ Newest(r, p) = Newest(s, p)
          BY <1>2, <4>1, <4>4, GivenJoined
        <5>2. p \in X => p \in X2
          BY <1>4, <4>4 DEF Brings
        <5> QED BY <4>2, <5>1, <5>2 DEF BroughtOK, r
      <4> QED
        BY <4>3, <4>4
    <3> QED
      BY <3>2, <3>3
  <2>3. CASE q[k].affected = affected /\ q[k].inputs = inputs
    BY <1>4, <2>3 DEF Brings
  <2> QED
    BY <1>5, <2>1, <2>2, <2>3
<1>7. ASSUME NEW p, ~Awaited(q, p)  PROVE ~Awaited(cs, p) /\ Given(inputs, p) = {}
  <2>1. ASSUME NEW k \in 1 .. Len(cs), cs[k].state = "queued"
        PROVE  /\ k \in 1 .. Len(q) /\ q[k].state = "queued" /\ q[k].inputs = cs[k].inputs \o inputs
               /\ cs[k].inputs \in Seq(Input)
    <3>1. cs[k] \in Correction /\ k \in 1 .. Len(q) /\ k # Len(cs) + 1
      <4>1. k \in 1 .. Len(q)
        BY <1>1 DEF Widened
      <4> QED BY <1>2, <4>1
    <3>2. q[k] = [cs[k] EXCEPT !.affected = @ \cup affected, !.inputs = @ \o inputs]
      BY <1>1, <2>1, <3>1 DEF Widened
    <3> QED BY <2>1, <3>1, <3>2 DEF Correction
  <2>2. ASSUME NEW k \in 1 .. Len(cs), cs[k].state = "queued"
        PROVE  Given(cs[k].inputs, p) = {} /\ Given(inputs, p) = {}
    <3> DEFINE s == cs[k].inputs
               r == q[k].inputs
    <3>1. s \in Seq(Input) /\ r = s \o inputs
      BY <2>1, <2>2
    <3>2. Given(r, p) = {}
      BY <1>7, <2>1, <2>2 DEF Awaited
    <3> HIDE DEF s, r
    <3>3. Given(s, p) = {} /\ Given(inputs, p) = {}
      BY <1>2, <3>1, <3>2, GivenJoined
    <3> QED BY <3>3 DEF s
  <2>3. ~Awaited(cs, p)
    BY <2>2 DEF Awaited
  <2>4. CASE \E k \in 1 .. Len(cs) : cs[k].state = "queued"
    BY <2>2, <2>3, <2>4
  <2>5. CASE \A k \in 1 .. Len(cs) : cs[k].state # "queued"
    <3>1. Queued(cs, n) = {}
      BY <2>5 DEF Queued
    <3> DEFINE l == Len(cs) + 1
    <3>2. Len(q) = l /\ l \in 1 .. Len(q) /\ l \notin 1 .. Len(cs)
      <4>1. Len(q) = l
        BY <1>1, <3>1 DEF Widened
      <4> QED BY <1>2, <4>1
    <3>3. q[l] = [source |-> n, gen |-> 0, affected |-> affected,
                  inputs |-> inputs, state |-> "queued"]
      BY <1>1, <3>2 DEF Widened
    <3> HIDE DEF l
    <3>4. q[l].state = "queued" /\ q[l].inputs = inputs
      BY <3>3
    <3> QED BY <1>7, <2>3, <3>2, <3>4 DEF Awaited
  <2> QED
    BY <2>4, <2>5
<1>8. HeldOK(g, q, f, X2, Y)
  <2>1. HeldOK(g, cs, f, X, Y)
    BY <1>3 DEF Heir
  <2>2. ASSUME NEW p, p \notin X2, ~Awaited(q, p)  PROVE p \notin X /\ ~Awaited(cs, p)
    BY <1>4, <1>7, <2>2 DEF Brings
  <2> QED
    BY <2>1, <2>2 DEF HeldOK
<1> QED
  BY <1>2, <1>3, <1>6, <1>8 DEF Known, NewestOK, Heir, g

-----------------------------------------------------------------------------
(* One player's result.                                                    *)

\* The result m of p may follow p's in generation g.
MovesOne(g, p, m, f) ==
    p \in DOMAIN g.members =>
        /\ \/ m.ver = g.members[p].ver
           \/ /\ m.ver = f.day[p] /\ Frozen(g) = {}
              /\ ToInherit(g) => g.members[p].ver = 0
        /\ m.army = "pending" /\ m.snap = "counted" =>
            \/ f.decodes[p] = 0
            \/ g.members[p].army = "pending" /\ g.members[p].snap = "counted"

\* It tells p's newest day, if p is of X and not of X2, and p's decodes, if of Y, not of Y2.
ToldOne(g, p, m, f, X, X2, Y, Y2) ==
    /\ X2 \subseteq X /\ Y2 \subseteq Y /\ X \ X2 \subseteq {p} /\ Y \ Y2 \subseteq {p}
    /\ p \in X \ X2 =>
        /\ Frozen(g) = {} /\ (g.corr = "active" \/ p \in DOMAIN g.members)
        /\ p \in DOMAIN g.members => m.ver = f.day[p]
    /\ p \in Y \ Y2 /\ p \in DOMAIN g.members =>
        ~(m.army = "pending" /\ m.snap = "counted" /\ f.decodes[p] # 0)

\* Generation g's members with p's result.
With(g, p, m) == IF p \in DOMAIN g.members THEN [g.members EXCEPT ![p] = m] ELSE g.members

LEMMA WithDoes ==
    ASSUME NEW f, NEW g, GenOK(g, f), NEW p, NEW m, p \in DOMAIN g.members => MemberOK(m, f.day[p]),
           NEW ms, ms = With(g, p, m)
    PROVE  /\ MembersOK(ms, f) /\ DOMAIN ms = DOMAIN g.members
           /\ \A q \in DOMAIN g.members : ms[q] = IF q = p THEN m ELSE g.members[q]
<1>1. MembersOK(g.members, f)
  BY MembersOfGeneration
<1>2. CASE p \in DOMAIN g.members
  <2>1. ms = [g.members EXCEPT ![p] = m]
    BY <1>2 DEF With
  <2>2. \A q \in DOMAIN g.members : ms[q] = IF q = p THEN m ELSE g.members[q]
    BY <2>1
  <2> QED BY <1>1, <1>2, <2>1, <2>2, OneMember
<1>3. CASE p \notin DOMAIN g.members
  BY <1>1, <1>3 DEF With
<1> QED
  BY <1>2, <1>3

LEMMA WithMoves ==
    ASSUME NEW f, NEW g, NEW p, NEW m, MovesOne(g, p, m, f),
           NEW ms, \A q \in DOMAIN g.members : ms[q] = IF q = p THEN m ELSE g.members[q]
    PROVE  Moves(g, ms, f)
<1>1. SUFFICES ASSUME NEW q \in DOMAIN g.members
               PROVE  /\ \/ ms[q].ver = g.members[q].ver
                         \/ /\ ms[q].ver = f.day[q] /\ Frozen(g) = {}
                            /\ ToInherit(g) => g.members[q].ver = 0
                      /\ ms[q].army = "pending" /\ ms[q].snap = "counted" =>
                            \/ f.decodes[q] = 0
                            \/ g.members[q].army = "pending" /\ g.members[q].snap = "counted"
  BY DEF Moves
<1>2. CASE q = p
  BY <1>2 DEF MovesOne
<1>3. CASE q # p
  BY <1>3
<1> QED
  BY <1>2, <1>3

LEMMA WithTold ==
    ASSUME NEW f, NEW g, NEW p, NEW m, NEW X, NEW X2, NEW Y, NEW Y2,
           ToldOne(g, p, m, f, X, X2, Y, Y2),
           NEW ms, \A q \in DOMAIN g.members : ms[q] = IF q = p THEN m ELSE g.members[q]
    PROVE  Told(g, ms, f, X, X2, Y, Y2)
<1>1. X2 \subseteq X /\ Y2 \subseteq Y
  BY DEF ToldOne
<1>2. ASSUME NEW q \in X \ X2
      PROVE  /\ Frozen(g) = {} /\ (g.corr = "active" \/ q \in DOMAIN g.members)
             /\ q \in DOMAIN g.members => ms[q].ver = f.day[q]
  <2>1. q = p
    BY <1>2 DEF ToldOne
  <2> QED BY <1>2, <2>1 DEF ToldOne
<1>3. ASSUME NEW q \in Y \ Y2, q \in DOMAIN g.members, ms[q].army = "pending", ms[q].snap = "counted"
      PROVE  f.decodes[q] = 0
  <2>1. q = p
    BY <1>3 DEF ToldOne
  <2>2. ms[q] = m
    BY <1>3, <2>1
  <2> QED BY <1>3, <2>1, <2>2 DEF ToldOne
<1> QED
  BY <1>1, <1>2, <1>3 DEF Told

\* Generation i with p's result in it; only the newest tells anybody.
WithResult(gs, i, p, m) ==
    IF p \in DOMAIN gs[i].members THEN [gs EXCEPT ![i].members[p] = m] ELSE gs
Tells(gs, i, p, m, f, X, X2, Y, Y2) ==
    IF i = Len(gs) THEN ToldOne(gs[i], p, m, f, X, X2, Y, Y2) ELSE X2 = X /\ Y2 = Y

LEMMA MemberPut ==
    ASSUME NEW gs, gs \in Seq(Generation), NEW i \in 1 .. Len(gs), NEW p, NEW m,
           NEW next, next = WithResult(gs, i, p, m)
    PROVE  next = Put(gs, i, WithMembers(gs[i], With(gs[i], p, m)))
<1>1. gs[i] \in Generation
  OBVIOUS
<1>2. CASE p \in DOMAIN gs[i].members
  BY <1>2 DEF Put, WithMembers, With, WithResult
<1>3. CASE p \notin DOMAIN gs[i].members
  <2>1. WithMembers(gs[i], gs[i].members) = gs[i]
    BY <1>1 DEF WithMembers, Generation
  <2>2. Put(gs, i, gs[i]) = gs
    BY DEF Put
  <2> QED BY <1>3, <2>1, <2>2 DEF With, WithResult
<1> QED
  BY <1>2, <1>3

LEMMA ToldSound ==
    ASSUME NEW gs, NEW cs, NEW f, Sound(gs, cs, f), NEW i \in 1 .. Len(gs),
           NEW p, NEW m, p \in DOMAIN gs[i].members => MemberOK(m, f.day[p]),
           NEW next, next = WithResult(gs, i, p, m)
    PROVE  Sound(next, cs, f) /\ Len(next) = Len(gs)
<1>1. CASE p \in DOMAIN gs[i].members
  <2>1. next = WithMember(gs, i, p, m)
    BY <1>1 DEF WithResult, WithMember
  <2> QED BY <1>1, <2>1, MemberSound
<1>2. CASE p \notin DOMAIN gs[i].members
  BY <1>2 DEF WithResult
<1> QED
  BY <1>1, <1>2

LEMMA MemberKnown ==
    ASSUME NEW gs, NEW cs, NEW f, Sound(gs, cs, f), NEW X, NEW Y, NEW out,
           Known(gs, cs, f, X, Y, out), NEW i \in 1 .. Len(gs), NEW p, NEW m,
           p \in DOMAIN gs[i].members => MemberOK(m, f.day[p]), MovesOne(gs[i], p, m, f),
           NEW X2, NEW Y2, Tells(gs, i, p, m, f, X, X2, Y, Y2),
           NEW next, next = WithResult(gs, i, p, m)
    PROVE  Sound(next, cs, f) /\ Len(next) = Len(gs) /\ Known(next, cs, f, X2, Y2, out)
<1> DEFINE n == Len(gs)
           g == gs[i]
           ms == With(g, p, m)
           h == WithMembers(g, ms)
<1>1. /\ gs \in Seq(Generation) /\ n \in Nat /\ n > 0 /\ GenOK(g, f) /\ g \in Generation
      /\ FrozenOK(g, f)
  BY DEF Sound, GenOK, GenBody, Known
<1> HIDE DEF n, g, ms, h
<1>2. Sound(next, cs, f) /\ Len(next) = Len(gs)
  BY ToldSound
<1>3. next = Put(gs, i, h)
  BY <1>1, MemberPut DEF h, ms, g
<1>4. ms = With(g, p, m) /\ h = WithMembers(g, ms) /\ MovesOne(g, p, m, f) /\ g = gs[i]
      /\ (p \in DOMAIN g.members => MemberOK(m, f.day[p]))
  BY DEF h, ms, g
<1>9. n = Len(gs)
  BY DEF n
<1>5. /\ MembersOK(ms, f) /\ DOMAIN ms = DOMAIN g.members
      /\ \A q \in DOMAIN g.members : ms[q] = IF q = p THEN m ELSE g.members[q]
  BY <1>1, <1>4, WithDoes
<1>6. Moves(g, ms, f) /\ ms \in Members
  BY <1>4, <1>5, WithMoves, MembersTyped
<1>7. CASE i = n
  <2>1. ToldOne(g, p, m, f, X, X2, Y, Y2)
    BY <1>4, <1>7, <1>9 DEF Tells
  <2>2. Told(g, ms, f, X, X2, Y, Y2)
    BY <1>5, <2>1, WithTold
  <2>3. Told(gs[n], ms, f, X, X2, Y, Y2) /\ Moves(gs[n], ms, f) /\ DOMAIN ms = DOMAIN gs[n].members
        /\ next = Put(gs, n, WithMembers(gs[n], ms))
    BY <1>3, <1>4, <1>5, <1>6, <1>7, <2>2
  <2>4. Known(next, cs, f, X2, Y2, out)
    BY <1>1, <1>5, <1>9, <2>3, MembersKnown
  <2> QED BY <1>2, <2>4
<1>8. CASE i < n
  <2>1. FrozenOK(h, f) /\ h \in Generation /\ h.ranked = g.ranked
    BY <1>1, <1>4, <1>5, <1>6, FrozenMembers, WithMembersDoes
  <2>2. Known(next, cs, f, X, Y, out)
    BY <1>1, <1>3, <1>4, <1>8, <1>9, <2>1, PutEarlier
  <2>3. X2 = X /\ Y2 = Y
    BY <1>8, <1>9 DEF Tells
  <2> QED BY <1>2, <2>2, <2>3
<1> QED
  BY <1>1, <1>7, <1>8, <1>9

LEMMA SettleKnown ==
    ASSUME NEW gs, NEW cs, NEW f, Sound(gs, cs, f), NEW X, NEW Y, NEW out,
           Known(gs, cs, f, X, Y, out), NEW i \in 1 .. Len(gs), NEW p, NEW m,
           p \in DOMAIN gs[i].members => MemberOK(m, f.day[p]), MovesOne(gs[i], p, m, f),
           NEW X2, NEW Y2, Tells(gs, i, p, m, f, X, X2, Y, Y2),
           NEW full \in BOOLEAN, NEW t, NEW r, r = Settle(gs, i, p, m, full, f, t)
    PROVE  Known(r, cs, f, X2, Y2, out)
<1> DEFINE next == WithResult(gs, i, p, m)
           army == FALSE
<1>1. r = IF full THEN TryEnqueue(next, i, army, f, t) ELSE next
  BY DEF Settle, WithResult
<1>2. next = WithResult(gs, i, p, m)
  OBVIOUS
<1> HIDE DEF next, army
<1>3. Sound(next, cs, f) /\ Len(next) = Len(gs) /\ Known(next, cs, f, X2, Y2, out)
  BY <1>2, MemberKnown
<1>4. i \in 1 .. Len(next)
  BY <1>3
<1>5. CASE full
  <2>1. r = TryEnqueue(next, i, army, f, t)
    BY <1>1, <1>5
  <2> QED BY <1>3, <1>4, <2>1, EnqueueKnown
<1>6. CASE ~full
  BY <1>1, <1>3, <1>6
<1> QED
  BY <1>5, <1>6

-----------------------------------------------------------------------------
(* Wider and new corrections.                                              *)

\* Players in Legend I have nothing to tell.
LEMMA LeftKnown ==
    ASSUME NEW gs, NEW cs, NEW f, NEW X, NEW X2, NEW Y, NEW out, Known(gs, cs, f, X, Y, out),
           X \subseteq f.below \cup X2
    PROVE  Known(gs, cs, f, X2, Y, out)
<1>1. CASE Len(gs) = 0
  BY <1>1 DEF Known
<1>2. CASE Len(gs) # 0
  <2> DEFINE g == gs[Len(gs)]
  <2>1. HeldOK(g, cs, f, X, Y) /\ \A k \in 1 .. Len(cs) : BroughtOK(cs[k], g, f, X)
    BY <1>2 DEF Known, NewestOK
  <2> HIDE DEF g
  <2>2. HeldOK(g, cs, f, X2, Y)
    BY <2>1 DEF HeldOK
  <2>3. \A k \in 1 .. Len(cs) : BroughtOK(cs[k], g, f, X2)
    BY <2>1 DEF BroughtOK
  <2> QED BY <1>2, <2>2, <2>3 DEF Known, NewestOK, g
<1> QED
  BY <1>1, <1>2

\* The corrections that wait are the same.
SameQueued(cs, q) ==
    /\ Len(q) = Len(cs)
    /\ \A k \in 1 .. Len(cs) : /\ q[k].state = "queued" <=> cs[k].state = "queued"
                               /\ cs[k].state = "queued" => q[k] = cs[k]

LEMMA SameQueuedHeir ==
    ASSUME NEW gs, NEW cs, NEW f, NEW X, NEW Y, NEW out, NEW g, Heir(gs, cs, g, f, X, Y, out),
           NEW q, SameQueued(cs, q)
    PROVE  Heir(gs, q, g, f, X, Y, out)
<1>1. \A p : Awaited(q, p) <=> Awaited(cs, p)
  BY DEF Awaited, SameQueued
<1>2. HeldOK(g, q, f, X, Y)
  BY <1>1 DEF HeldOK, Heir
<1>3. ASSUME NEW k \in 1 .. Len(q)  PROVE BroughtOK(q[k], g, f, X)
  <2>1. CASE q[k].state = "queued"
    <3>1. k \in 1 .. Len(cs) /\ q[k] = cs[k]
      BY <2>1 DEF SameQueued
    <3> QED BY <3>1 DEF Heir
  <2>2. CASE q[k].state # "queued"
    BY <2>2 DEF BroughtOK
  <2> QED BY <2>1, <2>2
<1> QED
  BY <1>2, <1>3 DEF Heir

LEMMA WiderKnown ==
    ASSUME NEW gs, NEW cs, NEW f, Sound(gs, cs, f), NEW n, n = Len(gs), n > 0,
           NEW X, NEW Y, NEW out, Known(gs, cs, f, X, Y, out),
           Frozen(gs[n]) = {}, gs[n].corr = "active",
           NEW r, r = BoardToo(gs, n), NEW q, q = AllWithBoardToo(cs, n)
    PROVE  Known(r, q, f, X, Y, out) /\ ~ToInherit(WithBoardToo(gs[n]))
<1> DEFINE g == gs[n]
           h == WithBoardToo(g)
<1>1. /\ g \in Generation /\ gs \in Seq(Generation) /\ n \in Nat /\ f.decodes \in [Players -> Nat]
      /\ cs \in Seq(Correction)
  BY DEF Sound, GenOK, GenBody
<1>2. Heir(gs, cs, g, f, X, Y, out) /\ FrozenOK(g, f) /\ \A i \in 1 .. n : FrozenOK(gs[i], f)
  BY <1>1, NewestIsHeir DEF Known
<1> HIDE DEF g
<1>3. /\ h \in Generation /\ h.members = g.members /\ h.read = g.read
      /\ h.corr = g.corr /\ h.affected = g.affected \cup {"snapshot"}
      /\ h.source = g.source /\ h.statistics = g.statistics
      /\ h.armies = g.armies /\ h.snap = g.snap /\ h.army = g.army /\ h.ranked = g.ranked
  BY <1>1 DEF Generation, WithBoardToo, Both
<1>4. r = Put(gs, n, h)
  BY DEF BoardToo, Put, WithBoardToo, g
<1>5. g.corr = "active"
  BY DEF g
<1> HIDE DEF h
<1>6. h.affected # {"army"}
  <2>1. "snapshot" \in h.affected /\ "snapshot" \notin {"army"}
    BY <1>3
  <2> QED BY <2>1, Zenon
<1>7. ~ToInherit(h)
  BY <1>6 DEF ToInherit
<1>8. FrozenOK(h, f)
  BY <1>2, <1>3, <1>5, <1>6 DEF FrozenOK
<1>9. Steady(g, h, f)
  BY <1>3, <1>7 DEF Steady
<1>10. Heir(gs, cs, h, f, X, Y, out)
  BY <1>1, <1>2, <1>9, SteadyHeir
<1>11. SameQueued(cs, q)
  <2>1. q \in [1 .. Len(cs) -> {q[k] : k \in 1 .. Len(cs)}] /\ DOMAIN q = 1 .. Len(cs)
    BY DEF AllWithBoardToo
  <2>2. Len(q) = Len(cs)
    BY <1>1, <2>1
  <2>3. ASSUME NEW k \in 1 .. Len(cs)
        PROVE  /\ q[k].state = "queued" <=> cs[k].state = "queued"
               /\ cs[k].state = "queued" => q[k] = cs[k]
    <3>1. cs[k] \in Correction
      BY <1>1
    <3>2. q[k] = IF cs[k].state = "active" /\ cs[k].gen = n
                 THEN [cs[k] EXCEPT !.affected = @ \cup {"snapshot"}] ELSE cs[k]
      BY DEF AllWithBoardToo
    <3> QED BY <3>1, <3>2 DEF Correction
  <2> QED BY <2>2, <2>3 DEF SameQueued
<1>12. Heir(gs, q, h, f, X, Y, out)
  BY <1>10, <1>11, SameQueuedHeir
<1>13. Known(r, q, f, X, Y, out)
  BY <1>1, <1>2, <1>3, <1>4, <1>8, <1>12, PutNewest
<1> QED
  BY <1>7, <1>13 DEF h, g

\* A superseded generation keeps its inputs.
LEMMA SupersededFrozen ==
    ASSUME NEW f, NEW g, GenBody(g, f), FrozenOK(g, f), Published(g), NEW h, h = Superseded(g)
    PROVE  FrozenOK(h, f) /\ h \in Generation /\ h.ranked = g.ranked
<1>1. /\ h \in Generation /\ h.members = g.members /\ h.read = g.read /\ h.ranked = g.ranked
      /\ h.affected = g.affected /\ h.source = g.source /\ h.statistics = g.statistics
      /\ h.armies = g.armies /\ h.snap = "superseded" /\ h.corr = "finalized"
  BY DEF GenBody, Generation, Superseded, Artifact
<1>2. g.statistics /\ g.armies /\ g.snap = "published"
  BY DEF GenBody, Ended, Published
<1>3. FrozenOK(h, f)
  BY <1>1, <1>2 DEF FrozenOK
<1> QED
  BY <1>1, <1>3

\* The members ms keep the days that g ranked.
RanksKept(g, ms, f) ==
    \A p \in DOMAIN g.ranked \ f.below : p \in DOMAIN ms /\ ms[p].ver = g.ranked[p]

\* The published newest generation is replaced by one with the members ms.
Replaces(gs, cs, f, X, Y, out, affected, ms, r, q) ==
    /\ Sound(gs, cs, f) /\ Len(gs) > 0 /\ Published(gs[Len(gs)]) /\ Known(gs, cs, f, X, Y, out)
    /\ affected \in SUBSET Both /\ "army" \in affected /\ FreshMembers(ms, f)
    /\ affected = {"army"} => RanksKept(gs[Len(gs)], ms, f)
    /\ Replacement(gs, Len(gs), affected, ms, r, q)

\* A published generation's replacement: its members hold every newest day.
LEMMA ReplacementKnown ==
    ASSUME NEW gs, NEW cs, NEW f, NEW X, NEW Y, NEW out, NEW affected, NEW ms, NEW r, NEW q,
           Replaces(gs, cs, f, X, Y, out, affected, ms, r, q), NEW X2, NEW Y2
    PROVE  /\ Known(r, q, f, X2, Y2, out) /\ r[Len(gs) + 1].members = ms /\ ~Unfinished(r[Len(gs)])
           /\ (affected # {"army"} => ~ToInherit(r[Len(gs) + 1]))
<1> PICK n : n = Len(gs)
  OBVIOUS
<1>0. /\ Sound(gs, cs, f) /\ n = Len(gs) /\ n > 0 /\ Published(gs[n]) /\ Known(gs, cs, f, X, Y, out)
      /\ affected \in SUBSET Both /\ "army" \in affected /\ FreshMembers(ms, f)
      /\ affected = {"army"} => RanksKept(gs[n], ms, f)
      /\ Replacement(gs, n, affected, ms, r, q)
  BY Zenon DEF Replaces
<1> USE <1>0
<1> DEFINE h == Superseded(gs[n])
           done == Replaced(gs, n)
           g == NewGeneration(n, affected, "active", ms)
<1>1. gs \in Seq(Generation) /\ n \in Nat /\ n \in 1 .. Len(gs) /\ GenBody(gs[n], f)
      /\ f.day \in [Players -> Nat]
  BY DEF Sound, GenOK
<1>2. done = Put(gs, n, h)
  BY NothingWaits
<1>3. FrozenOK(h, f) /\ h \in Generation /\ h.ranked = gs[n].ranked /\ ~Unfinished(h)
  <2>1. h = Superseded(gs[n])
    BY DEF h
  <2>2. FrozenOK(gs[n], f)
    BY <1>1 DEF Known
  <2>3. ~Unfinished(h)
    BY <1>1 DEF Superseded, Unfinished, GenBody, Generation
  <2> HIDE DEF h
  <2> QED BY <1>1, <2>1, <2>2, <2>3, SupersededFrozen
<1> HIDE DEF h
<1>4. /\ done \in Seq(Generation) /\ Len(done) = n /\ done[n] = h
      /\ \A j \in 1 .. n : j # n => done[j] = gs[j]
  <2> HIDE DEF done
  <2> QED BY <1>1, <1>2, <1>3, ExceptSeq DEF Put
<1>5. \A i \in 1 .. n : FrozenOK(done[i], f)
  <2> HIDE DEF done
  <2> QED BY <1>3, <1>4 DEF Known
<1>6. r = Append(done, g) /\ q = <<Active(n, n + 1, affected)>>
  BY DEF Replacement
<1> HIDE DEF done
<1>7. /\ g.members = ms /\ g.source = n /\ g.affected = affected /\ g.corr = "active"
      /\ g.snap = "pending" /\ g.army = "pending" /\ g.ranked = None /\ g.read = None
  BY DEF NewGeneration
<1> HIDE DEF g
<1>8. FrozenOK(g, f)
  BY <1>1, <1>7 DEF FrozenOK
<1>9. TakenOK(g, done[n], f)
  BY <1>3, <1>4, <1>7 DEF TakenOK, ToInherit, RanksKept
<1>10. ShownOK(gs[n], f, out)
  BY <1>1, NewestIsHeir DEF Heir
<1>11. \A k \in 1 .. Len(q) : q[k].state # "queued"
  <2>1. Active(n, n + 1, affected).state = "active"
    BY DEF Active
  <2> DEFINE a == Active(n, n + 1, affected)
  <2> HIDE DEF a
  <2>2. q = <<a>> /\ a.state = "active"
    BY <1>6, <2>1 DEF a
  <2> QED BY <2>2
<1>12. Known(r, q, f, X2, Y2, out)
  <2>1. /\ done \in Seq(Generation) /\ f.day \in [Players -> Nat] /\ n = Len(done) /\ n > 0
        /\ r = Append(done, g) /\ g.read = None /\ FreshMembers(g.members, f)
    BY <1>1, <1>4, <1>6, <1>7
  <2> QED BY <1>5, <1>8, <1>9, <1>10, <1>11, <2>1, AppendKnown, Zenon
<1>13. r[n + 1] = g /\ r[n] = h
  BY <1>1, <1>4, <1>6
<1>14. affected # {"army"} => ~ToInherit(g)
  BY <1>7 DEF ToInherit
<1> QED
  BY <1>3, <1>7, <1>12, <1>13, <1>14

-----------------------------------------------------------------------------
(* A day.                                                                  *)

LEMMA OneGiven ==
    ASSUME NEW p, NEW v, NEW inputs, inputs = <<[player |-> p, ver |-> v]>>
    PROVE  /\ \A q : Given(inputs, q) = IF q = p THEN {1} ELSE {}
           /\ Newest(inputs, p) = v
<1>1. \A q : Given(inputs, q) = IF q = p THEN {1} ELSE {}
  BY DEF Given
<1>2. (CHOOSE k \in {1} : \A j \in {1} : j <= k) = 1
  OBVIOUS
<1>3. Newest(inputs, p) = inputs[1].ver
  BY <1>1, <1>2 DEF Newest
<1> QED
  BY <1>1, <1>3

\* A published generation replaced for p's new day.
ReplacedKnown(pub, n, f, X, Y, out) ==
    /\ Known(pub.gens, pub.corrections, f, X, Y, out)
    /\ Sound(pub.gens, pub.corrections, f) /\ Len(pub.gens) = n + 1
    /\ FreshMembers(pub.gens[n + 1].members, f)

LEMMA SupersedeKnown ==
    ASSUME NEW gs, NEW cs, NEW f, Sound(gs, cs, f), tracked \subseteq Players,
           NEW n, n = Len(gs), n > 0, Published(gs[n]), Queued(cs, n) = {},
           NEW p, NEW inputs, inputs = <<[player |-> p, ver |-> f.day[p]]>>, InputsOK(inputs, f),
           NEW X, X \subseteq {p}, NEW Y, Y = {}, NEW out, Known(gs, cs, f, X, Y, out),
           NEW pub, pub = Supersede(gs, cs, n, inputs, f), NEW X2
    PROVE  ReplacedKnown(pub, n, f, X2, Y, out)
<1> DEFINE ms == WithInputs(Copied(gs, n, f), inputs, f)
           all == Both
           r == pub.gens
           q == pub.corrections
<1>1. /\ ms = WithInputs(Copied(gs, n, f), inputs, f) /\ all = Both
      /\ all \in SUBSET Both /\ "army" \in all
  BY DEF Both
<1> HIDE DEF ms, all
<1>2. MembersOK(ms, f) /\ Replacement(gs, n, all, ms, r, q)
  BY <1>1, SupersedeDoes
<1>3. Fills(inputs, cs, f, X)
  <2>1. /\ \A b : Given(inputs, b) = IF b = p THEN {1} ELSE {}
        /\ Newest(inputs, p) = f.day[p]
    <3> DEFINE v == f.day[p]
    <3>1. inputs = <<[player |-> p, ver |-> v]>>
      OBVIOUS
    <3> HIDE DEF v
    <3>2. /\ \A b : Given(inputs, b) = IF b = p THEN {1} ELSE {}
          /\ Newest(inputs, p) = v
      BY <3>1, OneGiven
    <3> QED BY <3>2 DEF v
  <2>2. cs = <<>>
    BY NothingWaits
  <2>3. \A b : ~Awaited(cs, b)
    BY <2>2 DEF Awaited
  <2> QED
    BY <2>1, <2>3 DEF Fills
<1>4. FreshMembers(ms, f)
  <2>1. Known(gs, cs, f, X, {}, out)
    OBVIOUS
  <2> QED BY <1>1, <1>3, <2>1, CopiedFresh
<1> HIDE DEF r, q
<1>5. Known(r, q, f, X2, Y, out) /\ r[n + 1].members = ms
  <2>1. all # {"army"}
    BY <1>1 DEF Both
  <2> QED
    <3>1. Replaces(gs, cs, f, X, Y, out, all, ms, r, q)
      BY <1>1, <1>2, <1>4, <2>1 DEF Replaces
    <3> QED BY <3>1, ReplacementKnown
<1>6. Sound(r, q, f) /\ Len(r) = n + 1
  BY <1>1, <1>2, ReplacementSound
<1> QED
  BY <1>4, <1>5, <1>6 DEF r, q, ReplacedKnown

\* Only a correction under way takes over a board.
LEMMA InheritsUnderCorrection ==
    ASSUME NEW gs, NEW cs, NEW f, Sound(gs, cs, f), NEW i \in 1 .. Len(gs), FrozenOK(gs[i], f),
           ToInherit(gs[i])
    PROVE  gs[i].corr = "active"
<1> DEFINE g == gs[i]
<1>1. GenOK(g, f) /\ g \in Generation /\ g.source = i - 1 /\ (g.corr = "none" => i = 1)
  BY DEF Sound, GenOK, GenBody, Linked
<1>2. g.source # 0 /\ g.snap = "pending"
  BY DEF ToInherit
<1> HIDE DEF g
<1>3. ~g.statistics
  BY <1>1, <1>2 DEF GenOK, GenBody, Ended
<1>4. g.corr # "finalized"
  BY <1>3 DEF FrozenOK, g
<1>5. g.corr # "none"
  BY <1>1, <1>2
<1>6. g.corr = "active"
  BY <1>1, <1>4, <1>5 DEF Generation
<1> QED
  BY <1>6 DEF g

LEMMA BegunAnyKnown ==
    ASSUME NEW f, Sound(gens, corrections, f), tracked \subseteq Players, NEW X,
           NEW Y, Y = {}, NEW out, Known(gens, corrections, f, X, Y, out),
           gens = <<>> => \A q \in tracked \ X : f.day[q] = 0,
           NEW gs, gs = Begun(gens, f)
    PROVE  Known(gs, corrections, f, X, Y, out)
<1>1. CASE gens = <<>>
  <2>1. corrections = <<>>
    BY <1>1, NoCorrectionYet
  <2>2. Known(gens, <<>>, f, X, Y, out) /\ gens \in Seq(Generation) /\ f.day \in [Players -> Nat]
    BY <2>1 DEF Sound
  <2>3. Known(gs, <<>>, f, X, {}, out)
    BY <1>1, <2>2, BegunKnown
  <2> QED BY <2>1, <2>3
<1>2. CASE gens # <<>>
  BY <1>2 DEF Begun
<1> QED
  BY <1>1, <1>2

LEMMA RecordDayKnown ==
    ASSUME NEW f, Sound(gens, corrections, f), tracked \subseteq Players,
           NEW p \in Players, f.day[p] > 0, NEW full \in BOOLEAN, NEW t,
           NEW X, X = {p}, NEW Y, Y = {}, NEW out, Known(gens, corrections, f, X, Y, out),
           gens = <<>> => \A q \in tracked \ X : f.day[q] = 0,
           NEW pub, pub = RecordDay(p, full, f, t)
    PROVE  Known(pub.gens, pub.corrections, f, Y, Y, out)
<1> DEFINE gs == Begun(gens, f)
           n == Len(gs)
           v == f.day[p]
           m == Result(p, v, f)
           g == gs[n]
           inputs == <<[player |-> p, ver |-> v]>>
           wider == BoardToo(gs, n)
           super == Supersede(gs, corrections, n, inputs, f)
<1>1. Sound(gs, corrections, f) /\ n > 0 /\ DayRecorded(gs, p, full, f, t, pub)
  <2>1. gs = Begun(gens, f)
    BY DEF gs
  <2> HIDE DEF gs
  <2> QED BY <2>1, RecordDayDoes
<1>2. Known(gs, corrections, f, X, Y, out)
  <2>1. gs = Begun(gens, f)
    BY DEF gs
  <2> HIDE DEF gs
  <2> QED BY <2>1, BegunAnyKnown
<1> HIDE DEF gs
<1>3. MemberOK(m, f.day[p]) /\ InputsOK(inputs, f)
      /\ m.ver = v /\ (m.army = "pending" /\ m.snap = "counted" => f.decodes[p] = 0)
  <2>1. f.day \in [Players -> Nat] /\ f.decodes \in [Players -> Nat]
    BY DEF Sound
  <2>2. v \in 0 .. f.day[p]
    BY <2>1
  <2>3. InputsOK(inputs, f)
    BY <2>1, OneInput
  <2>4. m = Result(p, v, f)
    OBVIOUS
  <2> HIDE DEF m, v, inputs
  <2> QED BY <2>1, <2>2, <2>3, <2>4, ResultOK, ResultHolds
<1>4. n \in 1 .. Len(gs) /\ n \in Nat /\ n = Len(gs) /\ FrozenOK(g, f)
  BY <1>1, <1>2 DEF Sound, Known
<1>5. \/ p \notin BoardMembers(f) /\ pub.gens = gens /\ pub.corrections = corrections
      \/ /\ Frozen(g) = {} /\ g.corr = "active"
         /\ pub.gens = Settle(wider, n, p, m, full, f, t)
         /\ pub.corrections = AllWithBoardToo(corrections, n)
      \/ /\ Frozen(g) # {} \/ (g.corr # "active" /\ p \notin DOMAIN g.members)
         /\ pub.gens = gs /\ pub.corrections = Queue(corrections, n, Both, inputs)
      \/ /\ Published(g) /\ Queued(corrections, n) = {}
         /\ pub.gens = Settle(super.gens, Len(super.gens), p, m, full, f, t)
         /\ pub.corrections = super.corrections
      \/ /\ Frozen(g) = {} /\ g.corr # "active" /\ p \in DOMAIN g.members
         /\ pub.gens = Settle(gs, n, p, m, full, f, t) /\ pub.corrections = corrections
  BY <1>1 DEF DayRecorded
<1>6. v = f.day[p] /\ inputs = <<[player |-> p, ver |-> f.day[p]]>> /\ g = gs[n]
      /\ wider = BoardToo(gs, n) /\ super = Supersede(gs, corrections, n, inputs, f)
  OBVIOUS
<1> DEFINE r == pub.gens
           c == pub.corrections
<1> HIDE DEF n, m, v, inputs, wider, super, g, r, c
<1>7. CASE p \notin BoardMembers(f) /\ pub.gens = gens /\ pub.corrections = corrections
  <2>1. X \subseteq f.below \cup Y
    BY <1>7 DEF BoardMembers
  <2>2. Known(gens, corrections, f, Y, Y, out)
    BY <2>1, LeftKnown
  <2> QED BY <1>7, <2>2
<1>8. CASE /\ Frozen(g) = {} /\ g.corr = "active"
           /\ pub.gens = Settle(wider, n, p, m, full, f, t)
           /\ pub.corrections = AllWithBoardToo(corrections, n)
  <2> DEFINE q == AllWithBoardToo(corrections, n)
             h == WithBoardToo(g)
  <2>1. q = AllWithBoardToo(corrections, n)
    OBVIOUS
  <2> HIDE DEF q
  <2>2. Sound(wider, q, f) /\ Len(wider) = n /\ wider[n] = h
    BY <1>1, <1>4, <1>6, <2>1, WiderSound
  <2>3. Known(wider, q, f, X, Y, out) /\ ~ToInherit(h)
    BY <1>1, <1>2, <1>4, <1>6, <1>8, <2>1, WiderKnown
  <2>4. h.members = g.members /\ h.corr = "active" /\ Frozen(h) = {}
    <3>1. g \in Generation
      BY <1>1, <1>4, <1>6 DEF Sound
    <3>2. h.members = g.members /\ h.corr = g.corr /\ h.ranked = g.ranked /\ h.read = g.read
      BY <3>1 DEF WithBoardToo, Generation
    <3> HIDE DEF h
    <3>3. Frozen(h) = Frozen(g)
      BY <3>2 DEF Frozen
    <3> QED BY <1>8, <3>2, <3>3
  <2> HIDE DEF h
  <2>5. MovesOne(h, p, m, f)
    BY <1>3, <1>6, <2>3, <2>4 DEF MovesOne
  <2>6. ToldOne(h, p, m, f, X, Y, Y, Y)
    BY <1>3, <1>6, <2>4 DEF ToldOne
  <2>7. Tells(wider, n, p, m, f, X, Y, Y, Y) /\ MovesOne(wider[n], p, m, f) /\ n \in 1 .. Len(wider)
    BY <1>4, <2>2, <2>5, <2>6 DEF Tells
  <2>8. r = Settle(wider, n, p, m, full, f, t)
    BY <1>8 DEF r
  <2>9. Known(r, q, f, Y, Y, out)
    BY <1>3, <2>2, <2>3, <2>7, <2>8, SettleKnown
  <2> QED BY <1>8, <2>1, <2>9 DEF r
<1>9. CASE /\ Frozen(g) # {} \/ (g.corr # "active" /\ p \notin DOMAIN g.members)
           /\ pub.gens = gs /\ pub.corrections = Queue(corrections, n, Both, inputs)
  <2> DEFINE all == Both
  <2>1. all \in SUBSET Both /\ "army" \in all /\ "snapshot" \in all
    BY DEF Both
  <2>2. c = Queue(corrections, n, all, inputs)
    BY <1>9 DEF c
  <2> HIDE DEF all
  <2>3. /\ \A b : Given(inputs, b) = IF b = p THEN {1} ELSE {}
        /\ Newest(inputs, p) = v
    BY OneGiven DEF inputs
  <2>4. Brings(inputs, all, g, f, X, Y)
    BY <1>6, <1>9, <2>1, <2>3 DEF Brings
  <2>5. Brings(inputs, all, gs[n], f, X, Y)
    BY <1>6, <2>4
  <2>6. Known(gs, c, f, Y, Y, out)
    BY <1>1, <1>2, <1>3, <1>4, <2>1, <2>2, <2>5, QueueKnown
  <2> QED BY <1>9, <2>6 DEF c
<1>10. CASE /\ Published(g) /\ Queued(corrections, n) = {}
            /\ pub.gens = Settle(super.gens, Len(super.gens), p, m, full, f, t)
            /\ pub.corrections = super.corrections
  <2> DEFINE a == super.gens
             q == super.corrections
             k == n + 1
             h == a[k]
  <2>1. /\ Known(a, q, f, Y, Y, out) /\ Sound(a, q, f) /\ Len(a) = n + 1
        /\ FreshMembers(a[n + 1].members, f)
    <3>1. Published(gs[n]) /\ X \subseteq {p}
      BY <1>6, <1>10
    <3>2. ReplacedKnown(super, n, f, Y, Y, out)
      <4> HIDE DEF a, q, k, h
      <4> QED BY <1>1, <1>2, <1>3, <1>4, <1>6, <1>10, <3>1, SupersedeKnown
    <3> QED BY <3>2 DEF ReplacedKnown
  <2>2. Len(a) = k /\ FreshMembers(h.members, f) /\ k \in 1 .. Len(a) /\ h = a[k]
    BY <1>4, <2>1
  <2> HIDE DEF a, q, k, h
  <2>3. MovesOne(h, p, m, f)
    BY <1>3, <1>6, <2>2 DEF MovesOne, FreshMembers
  <2>4. ToldOne(h, p, m, f, Y, Y, Y, Y)
    BY DEF ToldOne
  <2>5. Tells(a, k, p, m, f, Y, Y, Y, Y) /\ MovesOne(a[k], p, m, f)
    BY <2>2, <2>3, <2>4 DEF Tells
  <2>6. r = Settle(a, k, p, m, full, f, t)
    BY <1>10, <2>2 DEF r, a
  <2>7. Known(r, q, f, Y, Y, out)
    BY <1>3, <2>1, <2>2, <2>5, <2>6, SettleKnown
  <2> QED BY <1>10, <2>7 DEF r, q
<1>11. CASE /\ Frozen(g) = {} /\ g.corr # "active" /\ p \in DOMAIN g.members
            /\ pub.gens = Settle(gs, n, p, m, full, f, t) /\ pub.corrections = corrections
  <2>1. ~ToInherit(g)
    BY <1>1, <1>4, <1>6, <1>11, InheritsUnderCorrection
  <2>2. MovesOne(g, p, m, f)
    BY <1>3, <1>6, <1>11, <2>1 DEF MovesOne
  <2>3. ToldOne(g, p, m, f, X, Y, Y, Y)
    BY <1>3, <1>6, <1>11 DEF ToldOne
  <2>4. Tells(gs, n, p, m, f, X, Y, Y, Y) /\ MovesOne(gs[n], p, m, f)
    BY <1>4, <1>6, <2>2, <2>3 DEF Tells
  <2>5. r = Settle(gs, n, p, m, full, f, t)
    BY <1>11 DEF r
  <2>6. Known(r, corrections, f, Y, Y, out)
    BY <1>1, <1>2, <1>3, <1>4, <2>4, <2>5, SettleKnown
  <2> QED BY <1>11, <2>6 DEF r
<1> QED
  BY <1>5, <1>7, <1>8, <1>9, <1>10, <1>11

-----------------------------------------------------------------------------
(* The other results.                                                      *)

LEMMA RecordReadingKnown ==
    ASSUME NEW f, Sound(gens, corrections, f), tracked \subseteq Players,
           NEW p \in Players, NEW complete \in BOOLEAN, NEW full \in BOOLEAN, NEW t,
           NEW X, X = {}, NEW out, Known(gens, corrections, f, X, X, out),
           gens = <<>> => \A q \in tracked : f.day[q] = 0,
           NEW pub, pub = RecordReading(p, complete, full, f, t)
    PROVE  Known(pub.gens, pub.corrections, f, X, X, out)
<1> DEFINE gs == Begun(gens, f)
           first == 1
           m == ReadingResult(gs[first], p, complete, f)
           g == gs[first]
           r == pub.gens
<1>1. gs = Begun(gens, f) /\ first = 1 /\ m = ReadingResult(gs[first], p, complete, f) /\ g = gs[first]
  OBVIOUS
<1> HIDE DEF gs, first, m, g, r
<1>2. /\ Sound(gs, corrections, f) /\ first \in 1 .. Len(gs)
      /\ (p \in DOMAIN gs[first].members => MemberOK(m, f.day[p]))
      /\ ReadingRecorded(gs, first, p, m, full, f, t, pub)
  BY <1>1, RecordReadingDoes
<1>3. Known(gs, corrections, f, X, X, out)
  BY <1>1, BegunAnyKnown
<1>4. MovesOne(g, p, m, f)
  <2>1. SUFFICES ASSUME p \in DOMAIN g.members
                 PROVE  /\ m.ver = g.members[p].ver
                        /\ m.army = "pending" /\ m.snap = "counted" => f.decodes[p] = 0
    BY DEF MovesOne
  <2> DEFINE b == g.members[p]
             v == b.ver
  <2>2. m = IF complete THEN Result(p, v, f) ELSE LeftOut(b)
    BY <1>1, <2>1 DEF ReadingResult
  <2>3. b \in Member
    <3>1. GenBody(g, f)
      BY <1>1, <1>2 DEF Sound, GenOK
    <3> QED BY <2>1, <3>1 DEF GenBody, MemberOK
  <2> HIDE DEF b
  <2>4. CASE complete
    <3>1. m = Result(p, v, f)
      BY <2>2, <2>4
    <3> HIDE DEF v
    <3>2. m.ver = v /\ (m.army = "pending" /\ m.snap = "counted" => f.decodes[p] = 0)
      BY <3>1, ResultHolds
    <3> QED BY <3>2 DEF b, v
  <2>5. CASE ~complete
    <3>1. m = LeftOut(b)
      BY <2>2, <2>5
    <3>2. m.ver = b.ver /\ m.army = "out"
      BY <2>3, <3>1 DEF LeftOut, Member
    <3> QED BY <3>2 DEF b
  <2> QED
    BY <2>4, <2>5
<1>5. ToldOne(g, p, m, f, X, X, X, X)
  BY DEF ToldOne
<1>6. Tells(gs, first, p, m, f, X, X, X, X) /\ MovesOne(gs[first], p, m, f)
  BY <1>1, <1>4, <1>5 DEF Tells
<1>7. CASE pub.gens = gens /\ pub.corrections = corrections
  BY <1>7
<1>8. CASE r = Settle(gs, first, p, m, full, f, t) /\ pub.corrections = corrections
  <2>1. Known(r, corrections, f, X, X, out)
    BY <1>2, <1>3, <1>6, <1>8, SettleKnown
  <2> QED BY <1>8, <2>1 DEF r
<1> QED
  BY <1>2, <1>7, <1>8 DEF ReadingRecorded, r

\* A change without inputs waits for the newest generation.
LEMMA QueueNothingKnown ==
    ASSUME NEW gs, NEW cs, NEW f, Sound(gs, cs, f), NEW n, n = Len(gs), n > 0,
           NEW X, X = {}, NEW out, Known(gs, cs, f, X, X, out),
           NEW affected \in SUBSET Both, "army" \in affected,
           NEW q, q = Queue(cs, n, affected, <<>>)
    PROVE  Known(gs, q, f, X, X, out)
<1> DEFINE inputs == <<>>
           g == gs[n]
<1>1. InputsOK(inputs, f) /\ inputs = <<>> /\ \A p : Given(inputs, p) = {}
  BY NoInputs DEF Given
<1>2. q = Queue(cs, n, affected, inputs)
  OBVIOUS
<1> HIDE DEF inputs, g
<1>3. Brings(inputs, affected, g, f, X, X)
  BY <1>1 DEF Brings
<1>4. Brings(inputs, affected, gs[n], f, X, X)
  BY <1>3 DEF g
<1> QED
  BY <1>1, <1>2, <1>4, QueueKnown

LEMMA RecordLeaveKnown ==
    ASSUME NEW f, Sound(gens, corrections, f),
           NEW p \in Players, NEW full \in BOOLEAN, NEW t,
           NEW X, X = {}, NEW out, Known(gens, corrections, f, X, X, out),
           NEW pub, pub = RecordLeave(p, full, f, t)
    PROVE  Known(pub.gens, pub.corrections, f, X, X, out)
<1> DEFINE n == Len(gens)
           g == gens[n]
           m == LeaveResult(g, p)
           all == Both
           r == pub.gens
           c == pub.corrections
<1>1. /\ n = Len(gens) /\ m = LeaveResult(g, p) /\ g = gens[n] /\ n \in Nat
      /\ all \in SUBSET Both /\ "army" \in all
  BY DEF Sound, Both
<1> HIDE DEF n, m, g, all, r, c
<1>2. LeaveRecorded(n, p, m, full, f, t, pub)
  BY <1>1, RecordLeaveDoes
<1>3. CASE /\ n # 0 /\ p \in DOMAIN gens[n].members
           /\ r = Settle(gens, n, p, m, full, f, t) /\ pub.corrections = corrections
  <2>1. n \in 1 .. Len(gens)
    BY <1>1, <1>3
  <2>2. MemberOK(g.members[p], f.day[p]) /\ f.day[p] \in Nat
    BY <1>1, <1>3, <2>1 DEF Sound, GenOK, GenBody
  <2>3. MemberOK(m, f.day[p])
    BY <1>1, <2>2, LeftOutOK DEF LeaveResult
  <2>4. /\ m.ver = g.members[p].ver
        /\ m.army = "pending" /\ m.snap = "counted" =>
            g.members[p].army = "pending" /\ g.members[p].snap = "counted"
    <3> DEFINE b == g.members[p]
    <3>1. b \in Member /\ m = IF b.snap = "pending" THEN LeftOut(b) ELSE b
      BY <1>1, <2>2 DEF LeaveResult, MemberOK
    <3> HIDE DEF b
    <3>2. m.ver = b.ver /\ (m.army = "pending" /\ m.snap = "counted" =>
                                b.army = "pending" /\ b.snap = "counted")
      BY <3>1 DEF LeftOut, Member
    <3> QED BY <3>2 DEF b
  <2>5. MovesOne(g, p, m, f)
    BY <2>4 DEF MovesOne
  <2>6. ToldOne(g, p, m, f, X, X, X, X)
    BY DEF ToldOne
  <2>7. Tells(gens, n, p, m, f, X, X, X, X) /\ MovesOne(gens[n], p, m, f)
    BY <1>1, <2>5, <2>6 DEF Tells
  <2>8. Known(r, corrections, f, X, X, out)
    BY <1>3, <2>1, <2>3, <2>7, SettleKnown
  <2> QED BY <1>3, <2>8 DEF r
<1>4. CASE n # 0 /\ pub.gens = gens /\ c = Queue(corrections, n, all, <<>>)
  <2>1. Known(gens, c, f, X, X, out)
    BY <1>1, <1>4, QueueNothingKnown
  <2> QED BY <1>4, <2>1 DEF c
<1>5. CASE pub.gens = gens /\ pub.corrections = corrections
  BY <1>5
<1> QED
  BY <1>2, <1>3, <1>4, <1>5 DEF LeaveRecorded, r, c, all

\* The members copied from a published generation hold every newest day, and the board to
\* take over ranks them by their days.
LEMMA CorrectArmiesKnown ==
    ASSUME NEW gs, NEW cs, NEW f, Sound(gs, cs, f), tracked \subseteq Players,
           NEW n, n = Len(gs), n > 0, NEW t,
           NEW X, X = {}, NEW out, Known(gs, cs, f, X, X, out),
           NEW pub, pub = CorrectArmies(gs, cs, n, f, t)
    PROVE  Known(pub.gens, pub.corrections, f, X, X, out)
<1> DEFINE affected == {"army"}
           ms == Copied(gs, n, f)
           r == pub.gens
           q == pub.corrections
           g == gs[n]
<1>1. /\ affected \in SUBSET Both /\ "army" \in affected /\ n \in Nat /\ affected = {"army"}
      /\ ms = Copied(gs, n, f) /\ g = gs[n] /\ GenBody(g, f) /\ FrozenOK(g, f)
  BY DEF Sound, GenOK, Known, Both
<1> HIDE DEF affected, ms, r, q, g
<1>2. MembersOK(ms, f) /\ ArmiesCorrected(gs, cs, n, affected, ms, pub)
  BY <1>1, CorrectArmiesDoes
<1>3. CASE Published(gs[n]) /\ Queued(cs, n) = {} /\ Replacement(gs, n, affected, ms, r, q)
  <2>1. \A p : ~Awaited(cs, p)
    <3>1. cs = <<>>
      BY <1>3, NothingWaits
    <3> QED BY <3>1 DEF Awaited
  <2>2. FreshMembers(ms, f) /\ DOMAIN ms = BoardMembers(f)
    <3> DEFINE inputs == <<>>
    <3>1. Fills(inputs, cs, f, X)
      BY <2>1 DEF Given, Fills
    <3>2. ms = WithInputs(Copied(gs, n, f), inputs, f)
      BY <1>1, CopiedOnly
    <3>3. Known(gs, cs, f, X, {}, out)
      OBVIOUS
    <3> HIDE DEF inputs
    <3> QED BY <3>1, <3>2, <3>3, CopiedFresh
  <2>3. ASSUME NEW p \in DOMAIN g.ranked \ f.below
        PROVE  p \in DOMAIN ms /\ ms[p].ver = g.ranked[p]
    <3>1. g.snap = "published" /\ g.ranked # None
      BY <1>1, <1>3 DEF Published, GenBody
    <3>2. p \in Players
      <4>1. g.ranked \in Ranks
        BY <1>1, <3>1 DEF GenBody, Generation
      <4> QED BY <2>3, <4>1, RankTyped
    <3>3. g.ranked[p] \in 1 .. f.day[p] /\ f.day[p] \in Nat
      BY <1>1, <2>3, <3>1, <3>2 DEF GenBody, Sound
    <3>4. p \in BoardMembers(f)
      BY <2>3, <3>2, <3>3 DEF BoardMembers
    <3>5. p \in DOMAIN g.members /\ g.members[p].ver = g.ranked[p]
      BY <1>1, <2>3, <3>1 DEF FrozenOK
    <3>6. ms[p] = g.members[p]
      BY <1>1, <3>4, <3>5 DEF Copied
    <3> QED BY <2>2, <3>4, <3>5, <3>6
  <2>4. affected = {"army"} => RanksKept(gs[n], ms, f)
    BY <1>1, <2>3 DEF RanksKept
  <2>5. Known(r, q, f, X, X, out)
    <3>1. Replaces(gs, cs, f, X, X, out, affected, ms, r, q)
      BY <1>1, <1>3, <2>2, <2>4 DEF Replaces
    <3> QED BY <3>1, ReplacementKnown
  <2> QED BY <2>5 DEF r, q
<1>4. CASE r = gs /\ q = Queue(cs, n, affected, <<>>)
  <2>1. Known(gs, q, f, X, X, out)
    BY <1>1, <1>4, QueueNothingKnown
  <2> QED BY <1>4, <2>1 DEF r, q
<1> QED
  BY <1>2, <1>3, <1>4 DEF ArmiesCorrected, r, q

LEMMA RefreshedKnown ==
    ASSUME NEW f, Sound(gens, corrections, f), NEW p \in Players, NEW n, n = Len(gens), n # 0,
           NEW X, X = {}, NEW Y, Y = {p}, NEW out, Known(gens, corrections, f, X, Y, out),
           NEW r, r = Refreshed(n, p, f)
    PROVE  Known(r, corrections, f, X, X, out)
<1> DEFINE g == gens[n]
           b == g.members[p]
           m == IF b.ver > 0 THEN [b EXCEPT !.army = ArmyStatus(p, b.snap, f)] ELSE b
<1>1. n \in 1 .. Len(gens) /\ gens \in Seq(Generation) /\ GenOK(g, f)
  BY DEF Sound
<1>2. r = WithResult(gens, n, p, m)
  <2>1. CASE p \in DOMAIN g.members /\ b.ver > 0
    BY <2>1 DEF Refreshed, WithResult
  <2>2. CASE p \in DOMAIN g.members /\ ~(b.ver > 0)
    <3>1. r = gens
      BY <2>2 DEF Refreshed
    <3>2. WithResult(gens, n, p, m) = [gens EXCEPT ![n].members[p] = b]
      BY <2>2 DEF WithResult
    <3>3. [gens EXCEPT ![n].members[p] = b] = gens
      <4>1. [g.members EXCEPT ![p] = b] = g.members
        <5>1. g.members \in Members
          BY <1>1 DEF GenOK, GenBody, Generation
        <5> QED BY <5>1 DEF Members
      <4>2. [g EXCEPT !.members = g.members] = g
        BY <1>1 DEF GenOK, GenBody, Generation
      <4>3. [gens EXCEPT ![n] = g] = gens
        BY <1>1
      <4> QED BY <4>1, <4>2, <4>3
    <3> QED BY <3>1, <3>2, <3>3
  <2>3. CASE p \notin DOMAIN g.members
    BY <2>3 DEF Refreshed, WithResult
  <2> QED BY <2>1, <2>2, <2>3
<1>3. ASSUME p \in DOMAIN g.members
      PROVE  /\ MemberOK(m, f.day[p]) /\ m.ver = b.ver
             /\ m.army = "pending" /\ m.snap = "counted" => f.decodes[p] = 0
  <2>1. MemberOK(b, f.day[p]) /\ f.day[p] \in Nat
    BY <1>1, <1>3 DEF Sound, GenOK, GenBody
  <2> HIDE DEF b
  <2>2. CASE b.ver > 0
    BY <2>1, <2>2 DEF MemberOK, Member, ArmyStatus, Status
  <2>3. CASE ~(b.ver > 0)
    BY <2>1, <2>3 DEF MemberOK, Member
  <2> QED BY <2>2, <2>3
<1>4. MovesOne(g, p, m, f)
  <2> HIDE DEF m
  <2> QED BY <1>3 DEF MovesOne
<1>5. ToldOne(g, p, m, f, X, X, Y, X)
  <2> HIDE DEF m
  <2> QED BY <1>3 DEF ToldOne
<1> HIDE DEF m
<1>6. /\ Tells(gens, n, p, m, f, X, X, Y, X) /\ MovesOne(gens[n], p, m, f)
      /\ (p \in DOMAIN gens[n].members => MemberOK(m, f.day[p]))
  BY <1>3, <1>4, <1>5 DEF Tells
<1> HIDE DEF g, b
<1> QED
  BY <1>1, <1>2, <1>6, MemberKnown

LEMMA RecordDecodeKnown ==
    ASSUME NEW f, Sound(gens, corrections, f), tracked \subseteq Players,
           NEW p \in Players, NEW full \in BOOLEAN, NEW t,
           NEW X, X = {}, NEW Y, Y = {p}, NEW out, Known(gens, corrections, f, X, Y, out),
           NEW pub, pub = RecordDecode(p, full, f, t)
    PROVE  Known(pub.gens, pub.corrections, f, X, X, out)
<1> DEFINE n == Len(gens)
           refreshed == Refreshed(n, p, f)
           corrected == CorrectArmies(refreshed, corrections, n, f, t)
           army == FALSE
           a == corrected.gens
           q == corrected.corrections
           r == pub.gens
<1>1. n = Len(gens) /\ n \in Nat
  BY DEF Sound
<1> HIDE DEF n
<1>2. /\ DecodeRecorded(n, p, full, f, t, pub) /\ refreshed = Refreshed(n, p, f)
      /\ corrected = CorrectArmies(refreshed, corrections, n, f, t)
  BY <1>1, RecordDecodeDoes
<1> HIDE DEF refreshed, corrected, army, a, q, r
<1>3. \/ n = 0 /\ pub.gens = gens /\ pub.corrections = corrections
      \/ /\ n # 0 /\ pub.corrections = corrections
         /\ r = IF full THEN TryEnqueue(refreshed, n, army, f, t) ELSE refreshed
      \/ /\ n # 0 /\ pub.corrections = q
         /\ r = IF full THEN TryEnqueue(a, n, army, f, t) ELSE a
  BY <1>2 DEF DecodeRecorded, refreshed, corrected, army, a, q, r
<1>4. CASE n # 0
  <2>1. Sound(refreshed, corrections, f) /\ Len(refreshed) = n /\ n \in 1 .. Len(refreshed) /\ n > 0
    <3>1. Sound(refreshed, corrections, f) /\ Len(refreshed) = n /\ n \in 1 .. Len(gens)
      BY <1>1, <1>2, <1>4, RefreshedOK
    <3> QED BY <1>1, <3>1
  <2>2. Sound(a, q, f) /\ n \in 1 .. Len(a)
    <3>1. Sound(corrected.gens, corrected.corrections, f) /\ Len(corrected.gens) \in {n, n + 1}
      BY <1>2, <2>1, CorrectArmiesSound
    <3> QED BY <1>1, <2>1, <3>1 DEF a, q
  <2>3. Known(refreshed, corrections, f, X, X, out)
    BY <1>1, <1>2, <1>4, RefreshedKnown
  <2>4. Known(a, q, f, X, X, out)
    <3>1. Known(corrected.gens, corrected.corrections, f, X, X, out)
      BY <1>2, <2>1, <2>3, CorrectArmiesKnown
    <3> QED BY <3>1 DEF a, q
  <2>5. ASSUME NEW s, NEW c, Sound(s, c, f), n \in 1 .. Len(s), Known(s, c, f, X, X, out),
               r = (IF full THEN TryEnqueue(s, n, army, f, t) ELSE s)
        PROVE  Known(r, c, f, X, X, out)
    <3>1. CASE full
      <4>1. r = TryEnqueue(s, n, army, f, t)
        BY <2>5, <3>1
      <4> QED BY <2>5, <4>1, EnqueueKnown
    <3>2. CASE ~full
      BY <2>5, <3>2
    <3> QED BY <3>1, <3>2
  <2>6. CASE /\ pub.corrections = corrections
             /\ r = IF full THEN TryEnqueue(refreshed, n, army, f, t) ELSE refreshed
    <3>1. Known(r, corrections, f, X, X, out)
      BY <2>1, <2>3, <2>5, <2>6
    <3> QED BY <2>6, <3>1 DEF r
  <2>7. CASE /\ pub.corrections = q
             /\ r = IF full THEN TryEnqueue(a, n, army, f, t) ELSE a
    <3>1. Known(r, q, f, X, X, out)
      BY <2>2, <2>4, <2>5, <2>7
    <3> QED BY <2>7, <3>1 DEF r
  <2> QED BY <1>3, <1>4, <2>6, <2>7
<1>5. CASE n = 0
  <2>1. Known(gens, corrections, f, X, X, out)
    BY <1>1, <1>5 DEF Known
  <2> QED BY <1>3, <1>5, <2>1
<1> QED
  BY <1>4, <1>5

-----------------------------------------------------------------------------
(* One transaction's result.                                               *)

\* The players whose day, or whose decode, a transaction of that kind adds.
NewDay(kind, p) == IF kind = "day" THEN {p} ELSE {}
NewDecode(kind, p) == IF kind = "decode" THEN {p} ELSE {}

LEMMA SavedBeyond ==
    ASSUME saved \in Facts, NEW kind, NEW p \in Players
    PROVE  Beyond(saved, Saved(kind, p), NewDay(kind, p), NewDecode(kind, p))
<1> DEFINE f == Saved(kind, p)
<1>1. f \in Facts /\ Later(saved, f)
  BY SavedLater
<1>2. /\ saved.below \subseteq f.below
      /\ \A q \in Players : q # p \/ kind # "day" => f.day[q] = saved.day[q]
      /\ \A q \in Players : q # p \/ kind # "decode" => f.decodes[q] = saved.decodes[q]
  BY DEF Saved, Facts
<1> HIDE DEF f
<1> QED
  BY <1>1, <1>2 DEF Beyond, NewDay, NewDecode, f

LEMMA RecordedKnown ==
    ASSUME OneInv, NEW out, Known(gens, corrections, saved, {}, {}, out),
           gens = <<>> => \A q \in tracked : saved.day[q] = 0,
           NEW kind \in Kinds, NEW p \in Players, NEW full \in BOOLEAN,
           NEW pub, pub = Recorded(kind, p, full)
    PROVE  Known(pub.gens, pub.corrections, Saved(kind, p), {}, {}, out)
<1> DEFINE f == Saved(kind, p)
           yes == TRUE
           no == FALSE
           X == NewDay(kind, p)
           Y == NewDecode(kind, p)
           none == {}
<1>1. /\ saved \in Facts /\ tracked \subseteq Players /\ Sound(gens, corrections, saved)
  BY ResetConstants DEF OneInv
<1>2. f \in Facts /\ Later(saved, f) /\ (kind = "day" => f.day[p] > 0) /\ Beyond(saved, f, X, Y)
  BY <1>1, SavedLater, SavedBeyond
<1>3. /\ none = {}
      /\ kind = "day" => X = {p} /\ Y = none
      /\ kind = "decode" => X = none /\ Y = {p}
      /\ kind \notin {"day", "decode"} => X = none /\ Y = none
  BY DEF NewDay, NewDecode
<1>4. gens = <<>> => \A q \in tracked \ X : f.day[q] = 0
  BY <1>1, <1>2 DEF Beyond
<1> HIDE DEF f, X, Y, none
<1>5. Sound(gens, corrections, f)
  BY <1>1, <1>2, LaterSound
<1>6. Known(gens, corrections, f, X, Y, out)
  BY <1>1, <1>2, LaterKnown
<1>7. \/ kind = "day" /\ pub = RecordDay(p, full, f, gate)
      \/ kind = "read" /\ pub = RecordReading(p, yes, full, f, gate)
      \/ kind = "unreadable" /\ pub = RecordReading(p, no, full, f, gate)
      \/ kind = "leave" /\ pub = RecordLeave(p, full, f, gate)
      \/ kind = "decode" /\ pub = RecordDecode(p, full, f, gate)
  BY DEF Recorded, Kinds, f
<1>8. yes \in BOOLEAN /\ no \in BOOLEAN
  OBVIOUS
<1> HIDE DEF yes, no
<1>a. SUFFICES Known(pub.gens, pub.corrections, f, none, none, out)
  BY <1>3 DEF f
<1>9. CASE kind = "day" /\ pub = RecordDay(p, full, f, gate)
  <2>1. X = {p} /\ Y = {} /\ Y = none
    BY <1>3, <1>9
  <2>2. Known(pub.gens, pub.corrections, f, Y, Y, out)
    BY <1>1, <1>2, <1>4, <1>5, <1>6, <1>9, <2>1, RecordDayKnown
  <2> QED BY <2>1, <2>2
<1>10. ASSUME kind \in {"read", "unreadable"}, NEW complete \in BOOLEAN,
              pub = RecordReading(p, complete, full, f, gate)
       PROVE  Known(pub.gens, pub.corrections, f, none, none, out)
  <2>1. X = none /\ Y = none
    BY <1>3, <1>10
  <2>2. gens = <<>> => \A q \in tracked : f.day[q] = 0
    BY <1>3, <1>4, <2>1
  <2>3. Known(gens, corrections, f, none, none, out)
    BY <1>6, <2>1
  <2> QED BY <1>1, <1>3, <1>5, <1>10, <2>2, <2>3, RecordReadingKnown
<1>11. CASE kind = "leave" /\ pub = RecordLeave(p, full, f, gate)
  <2>1. X = none /\ Y = none
    BY <1>3, <1>11
  <2>2. Known(gens, corrections, f, none, none, out)
    BY <1>6, <2>1
  <2> QED BY <1>1, <1>3, <1>5, <1>11, <2>2, RecordLeaveKnown
<1>12. CASE kind = "decode" /\ pub = RecordDecode(p, full, f, gate)
  <2>1. X = none /\ Y = {p}
    BY <1>3, <1>12
  <2>2. Known(gens, corrections, f, none, Y, out)
    BY <1>6, <2>1
  <2> QED BY <1>1, <1>3, <1>5, <1>12, <2>1, <2>2, RecordDecodeKnown
<1> QED
  BY <1>7, <1>8, <1>9, <1>10, <1>11, <1>12

-----------------------------------------------------------------------------
(* The background check.                                                   *)

\* h is generation g with members that may follow g's.
Revised(g, h, f) ==
    \E ms : /\ MembersOK(ms, f) /\ DOMAIN ms = DOMAIN g.members /\ Moves(g, ms, f)
            /\ h = WithMembers(g, ms)

LEMMA UnchangedRevised ==
    ASSUME NEW f, NEW g, GenOK(g, f)
    PROVE  Revised(g, g, f)
<1>1. g \in Generation
  BY DEF GenOK, GenBody
<1>2. g = WithMembers(g, g.members)
  BY <1>1 DEF Generation, WithMembers
<1>3. MembersOK(g.members, f)
  BY MembersOfGeneration
<1>4. Moves(g, g.members, f)
  BY DEF Moves
<1> QED
  BY <1>2, <1>3, <1>4 DEF Revised

\* The publication r, with generation h as its newest, holds what gens and corrections do.
Keeps(r, cs, f, X, out, n, h) ==
    Known(r, cs, f, X, X, out) /\ Sound(r, cs, f) /\ Len(r) = n /\ r[n] = h

LEMMA RevisedKnown ==
    ASSUME NEW gs, NEW cs, NEW f, Sound(gs, cs, f), NEW X, X = {}, NEW out,
           Known(gs, cs, f, X, X, out), NEW n, n = Len(gs), n > 0,
           NEW g, g = gs[n], NEW h, Revised(g, h, f), NEW r, r = Put(gs, n, h)
    PROVE  Keeps(r, cs, f, X, out, n, h)
<1>1. PICK ms : /\ MembersOK(ms, f) /\ DOMAIN ms = DOMAIN g.members /\ Moves(g, ms, f)
                /\ h = WithMembers(g, ms)
  BY DEF Revised
<1>2. n \in 1 .. Len(gs) /\ GenOK(g, f) /\ gs \in Seq(Generation)
  BY DEF Sound
<1>3. Remembered(g, h, f)
  BY <1>1 DEF Remembered, WithMembers
<1>4. GenOK(h, f) /\ Alike(g, h)
  BY <1>2, <1>3, RememberedOK
<1>5. Sound(r, cs, f) /\ Len(r) = n
  BY <1>2, <1>4, AlikeSound
<1>6. Told(g, ms, f, X, X, X, X)
  BY DEF Told
<1>7. /\ DOMAIN ms = DOMAIN gs[n].members /\ Moves(gs[n], ms, f) /\ Told(gs[n], ms, f, X, X, X, X)
      /\ r = Put(gs, n, WithMembers(gs[n], ms))
  BY <1>1, <1>6
<1>8. Known(r, cs, f, X, X, out)
  BY <1>1, <1>7, MembersKnown
<1>9. r[n] = h
  BY <1>2 DEF Put
<1> QED
  BY <1>5, <1>8, <1>9 DEF Keeps

LEMMA RecheckedRevised ==
    ASSUME NEW f, f.day \in [Players -> Nat], f.decodes \in [Players -> Nat],
           NEW g, GenOK(g, f), NEW old, NEW h, h = Rechecked(g, f, old)
    PROVE  Revised(g, h, f)
<1>1. CASE ~(g.army = "ready" \/ (g.army = "pending" /\ old))
  BY <1>1, UnchangedRevised DEF Rechecked
<1>2. CASE g.army = "ready" \/ (g.army = "pending" /\ old)
  <2> DEFINE new(p) == IF g.members[p].army = "pending" /\ g.members[p].ver > 0
                       THEN [g.members[p] EXCEPT !.army = ArmyStatus(p, g.members[p].snap, f)]
                       ELSE g.members[p]
             ms == [p \in DOMAIN g.members |-> new(p)]
  <2>1. h = WithMembers(g, ms)
    BY <1>2 DEF Rechecked, WithMembers
  <2>2. MembersOK(g.members, f)
    BY MembersOfGeneration
  <2>3. ASSUME NEW p \in DOMAIN g.members
        PROVE  /\ MemberOK(new(p), f.day[p]) /\ new(p) \in Member
               /\ new(p).ver = g.members[p].ver
               /\ new(p).army = "pending" /\ new(p).snap = "counted" =>
                    \/ f.decodes[p] = 0
                    \/ g.members[p].army = "pending" /\ g.members[p].snap = "counted"
    <3>1. MemberOK(g.members[p], f.day[p])
      BY <2>2 DEF MembersOK
    <3> QED BY <3>1 DEF MemberOK, Member, ArmyStatus, Status
  <2> HIDE DEF new
  <2>4. DOMAIN ms = DOMAIN g.members /\ \A p \in DOMAIN g.members : ms[p] = new(p)
    OBVIOUS
  <2>5. ms \in [DOMAIN ms -> Member]
    BY <2>3, <2>4
  <2> HIDE DEF ms
  <2>6. MembersOK(ms, f)
    BY <2>2, <2>3, <2>4, <2>5 DEF MembersOK
  <2>7. Moves(g, ms, f)
    BY <2>3, <2>4 DEF Moves
  <2> QED BY <2>1, <2>4, <2>6, <2>7 DEF Revised
<1> QED
  BY <1>1, <1>2

LEMMA SettledWaitingRevised ==
    ASSUME NEW f, f.day \in [Players -> Nat], f.decodes \in [Players -> Nat],
           NEW g, GenOK(g, f), FrozenOK(g, f), NEW gs, NEW lost, NEW cut,
           NEW h, h = SettledWaiting(g, gs, f, lost, cut)
    PROVE  Revised(g, h, f)
<1>1. CASE g.snap # "pending" \/ g.ranked # None
  BY <1>1, UnchangedRevised DEF SettledWaiting
<1>2. CASE ~(g.snap # "pending" \/ g.ranked # None)
  <2> DEFINE taken == [p \in DOMAIN g.members |->
                    IF g.source # 0 /\ g.members[p].snap = "pending" /\ g.members[p].ver = 0
                       /\ f.day[p] > 0
                    THEN Result(p, f.day[p], f) ELSE g.members[p]]
             unpublished == \A j \in 1 .. Len(gs) : gs[j].snap # "published"
             new(p) == IF taken[p].snap = "pending" /\ (p \in lost \/ (cut /\ unpublished))
                       THEN LeftOut(taken[p]) ELSE taken[p]
             ms == [p \in DOMAIN g.members |-> new(p)]
  <2>1. h = WithMembers(g, ms)
    BY <1>2 DEF SettledWaiting, WithMembers
  <2>2. MembersOK(g.members, f)
    BY MembersOfGeneration
  <2>3. Frozen(g) = {}
    BY <1>2 DEF FrozenOK, Frozen
  <2>4. ASSUME NEW p \in DOMAIN g.members
        PROVE  /\ MemberOK(new(p), f.day[p]) /\ new(p) \in Member
               /\ \/ new(p).ver = g.members[p].ver
                  \/ new(p).ver = f.day[p] /\ g.members[p].ver = 0
               /\ new(p).army = "pending" /\ new(p).snap = "counted" =>
                    \/ f.decodes[p] = 0
                    \/ g.members[p].army = "pending" /\ g.members[p].snap = "counted"
    <3> DEFINE v == f.day[p]
               m == Result(p, v, f)
               b == g.members[p]
               c == taken[p]
    <3>1. MemberOK(b, v) /\ p \in Players /\ b \in Member
      BY <2>2 DEF MembersOK, MemberOK
    <3>2. v \in Nat /\ v \in 0 .. v
      BY <3>1
    <3>3. MemberOK(m, v)
      BY <3>1, <3>2, ResultOK
    <3>4. m.ver = v /\ (m.army = "pending" /\ m.snap = "counted" => f.decodes[p] = 0)
      <4> HIDE DEF v
      <4> QED BY ResultHolds
    <3>5. c = b \/ (c = m /\ b.ver = 0)
      OBVIOUS
    <3>6. new(p) = c \/ new(p) = LeftOut(c)
      OBVIOUS
    <3> HIDE DEF new, c, m, b, v
    <3>7. /\ MemberOK(c, v) /\ c \in Member
          /\ c.ver = b.ver \/ (c.ver = v /\ b.ver = 0)
          /\ c.army = "pending" /\ c.snap = "counted" =>
                f.decodes[p] = 0 \/ (b.army = "pending" /\ b.snap = "counted")
      BY <3>1, <3>3, <3>4, <3>5 DEF MemberOK
    <3>8. MemberOK(new(p), v)
      BY <3>2, <3>6, <3>7, LeftOutOK
    <3>9. new(p).ver = c.ver /\ (new(p) = c \/ new(p).army = "out")
      BY <3>6, <3>7 DEF LeftOut, Member
    <3> QED BY <3>7, <3>8, <3>9 DEF MemberOK, v, b
  <2> HIDE DEF new
  <2>5. DOMAIN ms = DOMAIN g.members /\ \A p \in DOMAIN g.members : ms[p] = new(p)
    OBVIOUS
  <2>6. ms \in [DOMAIN ms -> Member]
    BY <2>4, <2>5
  <2> HIDE DEF ms
  <2>7. MembersOK(ms, f)
    BY <2>2, <2>4, <2>5, <2>6 DEF MembersOK
  <2>8. Moves(g, ms, f)
    BY <2>3, <2>4, <2>5 DEF Moves
  <2> QED BY <2>1, <2>5, <2>7, <2>8 DEF Revised
<1> QED
  BY <1>1, <1>2

\* Only what failed changes.
FailedWith(g, failures) == [g EXCEPT !.failed = failures]

LEMMA RetriedSteady ==
    ASSUME NEW f, NEW g, g \in Generation, FrozenOK(g, f), NEW failures,
           failures \in SUBSET {"board", "statistics", "army", "waiting"},
           NEW h, h = FailedWith(g, failures)
    PROVE  FrozenOK(h, f) /\ Steady(g, h, f) /\ h \in Generation /\ h.ranked = g.ranked
<1>1. /\ h \in Generation /\ h.members = g.members /\ h.read = g.read /\ h.corr = g.corr
      /\ h.affected = g.affected /\ h.source = g.source /\ h.statistics = g.statistics
      /\ h.armies = g.armies /\ h.snap = g.snap /\ h.army = g.army /\ h.ranked = g.ranked
  BY DEF Generation, FailedWith
<1>2. FrozenOK(h, f)
  BY <1>1 DEF FrozenOK
<1>3. Steady(g, h, f)
  BY <1>1 DEF Steady, ToInherit
<1> QED
  BY <1>1, <1>2, <1>3

LEMMA FailedKnown ==
    ASSUME NEW gs, NEW cs, NEW f, Sound(gs, cs, f), NEW X, NEW out, Known(gs, cs, f, X, X, out),
           NEW i \in 1 .. Len(gs), NEW failures,
           failures \in SUBSET {"board", "statistics", "army", "waiting"},
           NEW r, r = Put(gs, i, FailedWith(gs[i], failures))
    PROVE  Known(r, cs, f, X, X, out)
<1> DEFINE n == Len(gs)
           g == gs[i]
           h == FailedWith(g, failures)
<1>1. /\ gs \in Seq(Generation) /\ n \in Nat /\ n > 0 /\ g \in Generation /\ FrozenOK(g, f)
      /\ f.decodes \in [Players -> Nat] /\ \A j \in 1 .. n : FrozenOK(gs[j], f)
  BY DEF Sound, Known
<1>2. h = FailedWith(g, failures) /\ r = Put(gs, i, h) /\ g = gs[i] /\ n = Len(gs)
  OBVIOUS
<1> HIDE DEF n, g, h
<1>3. FrozenOK(h, f) /\ Steady(g, h, f) /\ h \in Generation /\ h.ranked = g.ranked
  BY <1>1, <1>2, RetriedSteady
<1>4. CASE i = n
  <2>1. Heir(gs, cs, g, f, X, X, out)
    BY <1>1, <1>2, <1>4, NewestIsHeir
  <2>2. Heir(gs, cs, h, f, X, X, out)
    BY <1>1, <1>2, <1>3, <2>1, SteadyHeir
  <2> QED BY <1>1, <1>2, <1>3, <1>4, <2>2, PutNewest
<1>5. CASE i < n
  BY <1>1, <1>2, <1>3, <1>5, PutEarlier
<1> QED
  BY <1>1, <1>2, <1>4, <1>5

LEMMA SettledKnown ==
    ASSUME OneInv, Len(gens) > 0, NEW cut, NEW old, NEW X, X = {}, NEW out,
           Known(gens, corrections, saved, X, X, out),
           NEW r, r = Put(Tried(cut, old), Len(gens), Retried(Tried(cut, old)[Len(gens)], gate))
    PROVE  Known(r, corrections, saved, X, X, out)
<1> DEFINE n == Len(gens)
           g == gens[n]
           a == Rechecked(g, saved, old)
           b == Settled(cut, old)
           s == Put(gens, n, a)
           c == Put(gens, n, b)
           army == TRUE
           d == TryEnqueue(c, n, army, saved, gate)
           e == d[n]
           h == Retried(e, gate)
<1>0. n = Len(gens) /\ n \in 1 .. Len(gens) /\ n \in Nat /\ n > 0
  BY DEF OneInv, Sound
<1>1. /\ Sound(gens, corrections, saved) /\ GenOK(g, saved) /\ FrozenOK(g, saved)
      /\ saved.day \in [Players -> Nat] /\ saved.decodes \in [Players -> Nat]
      /\ gens \in Seq(Generation) /\ g = gens[n]
  BY <1>0 DEF OneInv, Sound, Known
<1> HIDE DEF n
<1>2. a = Rechecked(g, saved, old) /\ s = Put(gens, n, a)
  OBVIOUS
<1>3. b = SettledWaiting(a, gens, saved, failed, cut) /\ c = Put(gens, n, b)
  BY <1>0 DEF Settled
<1>4. d = TryEnqueue(c, n, army, saved, gate) /\ e = d[n] /\ h = Retried(e, gate)
  OBVIOUS
<1>5. r = Put(d, n, h)
  BY <1>0 DEF Tried
<1> HIDE DEF a, b, c, d, e, h, s, g, army
<1>6. Known(s, corrections, saved, X, X, out) /\ Sound(s, corrections, saved) /\ Len(s) = n /\ s[n] = a
  <2>1. Revised(g, a, saved)
    BY <1>1, <1>2, RecheckedRevised
  <2>2. Keeps(s, corrections, saved, X, out, n, a)
    BY <1>0, <1>1, <1>2, <2>1, RevisedKnown
  <2> QED BY <2>2 DEF Keeps
<1>7. Known(c, corrections, saved, X, X, out) /\ Sound(c, corrections, saved) /\ Len(c) = n
  <2>1. GenOK(a, saved) /\ FrozenOK(a, saved)
    BY <1>0, <1>6 DEF Sound, Known
  <2>2. Revised(a, b, saved)
    BY <1>1, <1>3, <2>1, SettledWaitingRevised
  <2>3. c = Put(s, n, b)
    BY <1>0, <1>1, <1>2, <1>3 DEF Put
  <2>4. n = Len(s) /\ a = s[n]
    BY <1>6
  <2>5. Keeps(c, corrections, saved, X, out, n, b)
    BY <1>0, <1>6, <2>2, <2>3, <2>4, RevisedKnown
  <2> QED BY <2>5 DEF Keeps
<1>8. Known(d, corrections, saved, X, X, out) /\ Sound(d, corrections, saved) /\ n = Len(d)
  <2>1. n \in 1 .. Len(c)
    BY <1>0, <1>7
  <2>2. Sound(TryEnqueue(c, n, army, saved, gate), corrections, saved)
        /\ Len(TryEnqueue(c, n, army, saved, gate)) = Len(c)
    BY <1>7, <2>1, EnqueueSound
  <2>3. Known(d, corrections, saved, X, X, out)
    BY <1>4, <1>7, <2>1, EnqueueKnown
  <2> QED BY <1>4, <1>7, <2>2, <2>3
<1>9. PICK failures \in SUBSET {"board", "statistics", "army", "waiting"} : h = FailedWith(e, failures)
  <2>1. e \in Generation
    BY <1>0, <1>4, <1>8 DEF Sound
  <2>2. e.failed \in SUBSET {"board", "statistics", "army", "waiting"} /\ e = FailedWith(e, e.failed)
    BY <2>1 DEF Generation, FailedWith
  <2> QED BY <1>4, <2>2 DEF Retried, FailedWith
<1>10. n \in 1 .. Len(d) /\ r = Put(d, n, FailedWith(d[n], failures))
  BY <1>0, <1>4, <1>5, <1>8, <1>9
<1> QED
  BY <1>8, <1>9, <1>10, FailedKnown

LEMMA CheckedKnown ==
    ASSUME OneInv, NEW cut, NEW old, NEW X, X = {}, NEW out,
           Known(gens, corrections, saved, X, X, out), NEW r, r = Checked(cut, old)
    PROVE  Known(r, corrections, saved, X, X, out)
<1>1. CASE Len(gens) > 0 /\ Unfinished(gens[Len(gens)])
  <2>1. r = Put(Tried(cut, old), Len(gens), Retried(Tried(cut, old)[Len(gens)], gate)) /\ Len(gens) > 0
    BY <1>1 DEF Checked
  <2> QED BY <2>1, SettledKnown
<1>2. CASE ~(Len(gens) > 0 /\ Unfinished(gens[Len(gens)]))
  BY <1>2 DEF Checked
<1> QED
  BY <1>1, <1>2

LEMMA ReevaluateKnown ==
    ASSUME OneInv, NEW cut, NEW old, Reevaluate(cut, old), NEW X, X = {}, NEW out,
           Known(gens, corrections, saved, X, X, out)
    PROVE  Known(gens', corrections', saved, X, X, out)
<1> DEFINE n == Len(gens)
           checked == Checked(cut, old)
           army == TRUE
           pub == Emit(checked, corrections, n, army, saved, gate)
           g == checked[n]
<1>1. n = Len(gens) /\ n \in Nat /\ tracked \subseteq Players /\ checked = Checked(cut, old)
  BY ResetConstants DEF OneInv, Sound
<1> HIDE DEF n, checked
<1>2. Sound(checked, corrections, saved) /\ n = Len(checked) /\ Known(checked, corrections, saved, X, X, out)
  BY <1>1, CheckedSound, CheckedKnown
<1>3. Reevaluated(n, checked, gens', corrections')
  BY <1>1, ReevaluateDoes
<1>4. CASE n > 0 /\ gens' = pub.gens /\ corrections' = pub.corrections
  <2>1. n \in 1 .. Len(checked) /\ checked \in Seq(Generation)
    BY <1>1, <1>2, <1>4 DEF Sound
  <2>2. GenBody(g, saved) /\ g.snap # "superseded" /\ g.army # "superseded"
    BY <1>2, <2>1 DEF Sound, Linked, GenOK
  <2>3. Put(checked, n, g) = checked
    BY <2>1 DEF Put
  <2>4. /\ pub = Emit(Put(checked, n, g), corrections, n, army, saved, gate)
        /\ g.source = checked[n].source /\ g.corr = checked[n].corr
    BY <2>3
  <2>5. Heir(checked, corrections, g, saved, X, X, out) /\ FrozenOK(g, saved)
    BY <1>1, <1>2, <1>4, NewestIsHeir
  <2>6. Heir(checked, corrections, g, saved, {}, {}, out) /\ \A i \in 1 .. n : FrozenOK(checked[i], saved)
    BY <1>2, <2>5 DEF Known
  <2> HIDE DEF g, pub, army
  <2>7. Known(pub.gens, pub.corrections, saved, {}, {}, out)
    BY <1>1, <1>2, <1>4, <2>2, <2>4, <2>5, <2>6, EmitKnown
  <2> QED BY <1>4, <2>7
<1> QED
  BY <1>2, <1>3, <1>4 DEF Reevaluated

-----------------------------------------------------------------------------
(* Builds and what waits for them.                                         *)

\* Generation h, whose builds have published more, is no older than what out shows of them.
LEMMA BoardShown ==
    ASSUME NEW f, NEW g, GenBody(g, f), FrozenOK(g, f), g.snap = "ready", g.ranked # None,
           NEW h, h.members = g.members, h.read = g.read,
           NEW old, ShownOK(h, f, old), NEW out, out = [old EXCEPT !.board = g.ranked],
           NEW b, NEW a, old = [board |-> b, armies |-> a]
    PROVE  ShownOK(h, f, out)
<1>1. out.board = g.ranked /\ out.armies = old.armies
  OBVIOUS
<1>2. g.ranked \in Ranks
  BY DEF GenBody, Generation
<1>3. ASSUME NEW p \in DOMAIN g.ranked  PROVE g.ranked[p] <= h.members[p].ver
  <2>1. g.ranked[p] \in Nat
    BY <1>2, <1>3, RankTyped
  <2>2. g.members[p].ver = g.ranked[p]
    BY <1>3 DEF FrozenOK
  <2> QED BY <2>1, <2>2
<1>4. \A p \in DOMAIN g.ranked : g.ranked[p] <= f.day[p]
  <2>1. ASSUME NEW p \in DOMAIN g.ranked  PROVE g.ranked[p] <= f.day[p]
    BY <2>1 DEF GenBody
  <2> QED BY <2>1
<1> QED
  BY <1>1, <1>2, <1>3, <1>4 DEF ShownOK

LEMMA BuildBoardKnown ==
    ASSUME OneInv, NEW X, X = {}, Known(gens, corrections, saved, X, X, Out),
           NEW i \in 1 .. Len(gens), BuildBoard(i)
    PROVE  Known(gens', corrections', saved, X, X, Out')
<1> DEFINE n == Len(gens)
           g == gens[i]
           h == [g EXCEPT !.snap = "building"]
           old == Out
           out == Out'
<1>1. /\ Sound(gens, corrections, saved) /\ g \in Generation /\ GenBody(g, saved) /\ FrozenOK(g, saved)
      /\ gens \in Seq(Generation) /\ saved.decodes \in [Players -> Nat]
      /\ n = Len(gens) /\ n > 0 /\ \A j \in 1 .. n : FrozenOK(gens[j], saved)
  BY DEF OneInv, Sound, GenOK, GenBody, Known
<1>2. /\ h \in Generation /\ h.members = g.members /\ h.read = g.read
      /\ h.corr = g.corr /\ h.affected = g.affected
      /\ h.source = g.source /\ h.statistics = g.statistics
      /\ h.armies = g.armies /\ h.snap = "building" /\ h.army = g.army
      /\ h.ranked = g.ranked
  BY <1>1 DEF Generation, Artifact
<1>3. /\ gens' = Put(gens, i, h) /\ corrections' = corrections
      /\ g.snap = "ready" /\ g.ranked # None
      /\ out = [old EXCEPT !.board = g.ranked] /\ old = [board |-> board, armies |-> armies]
  BY DEF BuildBoard, Put, Out
<1>4. i = n
  BY <1>1, <1>3, BuildsNewest DEF Ended
<1>5. Heir(gens, corrections, g, saved, X, X, old)
  BY <1>1, <1>4, NewestIsHeir
<1> HIDE DEF h, n, old, out
<1>6. FrozenOK(h, saved)
  BY <1>1, <1>2, <1>3 DEF FrozenOK
<1>7. Steady(g, h, saved)
  BY <1>2, <1>3 DEF Steady, ToInherit
<1>8. Heir(gens, corrections, h, saved, X, X, old)
  BY <1>1, <1>5, <1>7, SteadyHeir
<1> HIDE DEF g
<1>9. ShownOK(h, saved, out)
  <2>1. ShownOK(h, saved, old)
    BY <1>8 DEF Heir
  <2> QED BY <1>1, <1>2, <1>3, <2>1, BoardShown
<1>10. Heir(gens, corrections, h, saved, X, X, out)
  BY <1>8, <1>9 DEF Heir
<1>11. Known(gens', corrections, saved, X, X, out)
  BY <1>1, <1>2, <1>3, <1>4, <1>6, <1>10, PutNewest
<1> QED
  BY <1>3, <1>11 DEF out

LEMMA BuildStatisticsKnown ==
    ASSUME OneInv, NEW X, X = {}, NEW out, Known(gens, corrections, saved, X, X, out),
           NEW i \in 1 .. Len(gens), BuildStatistics(i)
    PROVE  Known(gens', corrections', saved, X, X, out)
<1> DEFINE n == Len(gens)
           g == gens[i]
           h == [g EXCEPT !.snap = "published", !.statistics = TRUE]
           army == FALSE
           pub == Emit(Put(gens, i, h), corrections, i, army, saved, gate)
<1>1. /\ Sound(gens, corrections, saved) /\ g \in Generation /\ GenBody(g, saved) /\ FrozenOK(g, saved)
      /\ GenOK(g, saved) /\ saved.decodes \in [Players -> Nat] /\ tracked \subseteq Players
      /\ n = Len(gens) /\ n > 0 /\ \A j \in 1 .. n : FrozenOK(gens[j], saved)
  <2>1. Sound(gens, corrections, saved) /\ tracked \subseteq Players
    BY ResetConstants DEF OneInv
  <2>2. GenOK(g, saved) /\ saved.decodes \in [Players -> Nat] /\ n = Len(gens) /\ n > 0
    BY <2>1 DEF Sound
  <2>3. \A j \in 1 .. n : FrozenOK(gens[j], saved)
    BY DEF Known
  <2> QED BY <2>1, <2>2, <2>3 DEF GenOK, GenBody
<1>2. /\ h \in Generation /\ h.members = g.members /\ h.read = g.read
      /\ h.corr = g.corr /\ h.affected = g.affected
      /\ h.source = g.source /\ h.statistics = TRUE
      /\ h.armies = g.armies /\ h.snap = "published" /\ h.army = g.army
      /\ h.ranked = g.ranked
  BY <1>1 DEF Generation, Artifact
<1>3. gens' = pub.gens /\ corrections' = pub.corrections /\ g.snap = "building"
  <2>1. [gens EXCEPT ![i].snap = "published", ![i].statistics = TRUE] = Put(gens, i, h)
    BY DEF Put
  <2>2. Written(pub) /\ g.snap = "building"
    BY <2>1 DEF BuildStatistics
  <2> QED BY <2>2 DEF Written
<1> HIDE DEF h
<1>4. GenBody(h, saved)
  BY <1>1, <1>2, <1>3 DEF GenOK, GenBody, ToInherit, Ended
<1>5. i = n /\ i > 0
  BY <1>1, <1>3, BuildsNewest DEF Ended
<1>6. h.snap # "superseded" /\ h.army # "superseded" /\ h.source = gens[n].source /\ h.corr = gens[n].corr
  BY <1>1, <1>2, <1>5 DEF Sound, Linked
<1>7. Heir(gens, corrections, g, saved, X, X, out)
  BY <1>1, <1>5, NewestIsHeir
<1>8. FrozenOK(h, saved)
  BY <1>1, <1>2, <1>3 DEF FrozenOK
<1>9. Steady(g, h, saved)
  BY <1>2, <1>3 DEF Steady, ToInherit
<1> HIDE DEF n, g
<1>10. Heir(gens, corrections, h, saved, X, X, out)
  BY <1>1, <1>7, <1>9, SteadyHeir
<1>11. Heir(gens, corrections, h, saved, {}, {}, out) /\ pub = Emit(Put(gens, n, h), corrections, n, army, saved, gate)
  BY <1>5, <1>10
<1> HIDE DEF pub, army
<1>12. Known(pub.gens, pub.corrections, saved, {}, {}, out)
  BY <1>1, <1>4, <1>6, <1>8, <1>11, EmitKnown
<1> QED
  BY <1>3, <1>12

\* What generation g's army results show once they are published.
LEMMA ArmiesShown ==
    ASSUME NEW f, f.decodes \in [Players -> Nat], NEW g, GenBody(g, f), FrozenOK(g, f), g.read # None,
           NEW h, h.members = g.members, h.read = g.read,
           NEW old, ShownOK(h, f, old), NEW out, out = [old EXCEPT !.armies = g.read],
           NEW b, NEW a, old = [board |-> b, armies |-> a]
    PROVE  ShownOK(h, f, out)
<1>1. out.armies = g.read /\ out.board = old.board
  OBVIOUS
<1>2. g.read \in Reads
  BY DEF GenBody, Generation
<1>3. ASSUME NEW p \in DOMAIN g.read
      PROVE  /\ g.read[p].ver <= f.day[p] /\ g.read[p].decodes <= f.decodes[p]
             /\ g.read[p].ver <= h.members[p].ver /\ g.read[p].decodes <= h.read[p].decodes
  <2>1. /\ g.read[p].ver \in 1 .. f.day[p] /\ g.read[p].ver \in Nat /\ g.read[p].decodes \in Nat
        /\ g.read[p].decodes <= f.decodes[p]
    BY <1>2, <1>3, ReadTyped DEF GenBody
  <2>2. g.members[p].ver = g.read[p].ver
    BY <1>3 DEF FrozenOK
  <2> QED BY <2>1, <2>2
<1> QED
  BY <1>1, <1>2, <1>3 DEF ShownOK

LEMMA BuildArmiesKnown ==
    ASSUME OneInv, NEW X, X = {}, Known(gens, corrections, saved, X, X, Out),
           NEW i \in 1 .. Len(gens), BuildArmies(i)
    PROVE  Known(gens', corrections', saved, X, X, Out')
<1> DEFINE n == Len(gens)
           g == gens[i]
           h == [g EXCEPT !.army = "published", !.armies = TRUE]
           army == FALSE
           pub == Emit(Put(gens, i, h), corrections, i, army, saved, gate)
           failures == g.failed \cup {"waiting"}
           old == Out
           out == Out'
<1>1. /\ Sound(gens, corrections, saved) /\ g \in Generation /\ GenBody(g, saved) /\ FrozenOK(g, saved)
      /\ GenOK(g, saved) /\ saved.decodes \in [Players -> Nat] /\ tracked \subseteq Players
      /\ n = Len(gens) /\ n > 0 /\ \A j \in 1 .. n : FrozenOK(gens[j], saved)
  <2>1. Sound(gens, corrections, saved) /\ tracked \subseteq Players
    BY ResetConstants DEF OneInv
  <2>2. GenOK(g, saved) /\ saved.decodes \in [Players -> Nat] /\ n = Len(gens) /\ n > 0
    BY <2>1 DEF Sound
  <2>3. \A j \in 1 .. n : FrozenOK(gens[j], saved)
    BY DEF Known
  <2> QED BY <2>1, <2>2, <2>3 DEF GenOK, GenBody
<1>2. /\ h \in Generation /\ h.members = g.members /\ h.read = g.read
      /\ h.corr = g.corr /\ h.affected = g.affected
      /\ h.source = g.source /\ h.statistics = g.statistics
      /\ h.armies = TRUE /\ h.snap = g.snap /\ h.army = "published"
      /\ h.ranked = g.ranked
  BY <1>1 DEF Generation, Artifact
<1>3. /\ g.army = "ready" /\ g.read # None /\ old = [board |-> board, armies |-> armies]
      /\ \/ gens' = Put(gens, i, FailedWith(g, failures)) /\ corrections' = corrections /\ out = old
         \/ gens' = pub.gens /\ corrections' = pub.corrections /\ out = [old EXCEPT !.armies = g.read]
  <2>1. [gens EXCEPT ![i].army = "published", ![i].armies = TRUE] = Put(gens, i, h)
    BY DEF Put
  <2>2. /\ g.army = "ready" /\ g.read # None /\ board' = board
        /\ \/ gens' = [gens EXCEPT ![i].failed = @ \cup {"waiting"}] /\ corrections' = corrections
              /\ armies' = armies
           \/ Written(pub) /\ armies' = g.read
    BY <2>1 DEF BuildArmies
  <2> HIDE DEF pub
  <2> QED BY <2>2 DEF Written, FailedWith, Put, Out
<1> HIDE DEF h, old, out, pub, army
<1>4. i = n /\ i > 0
  BY <1>1, <1>3, BuildsNewest DEF Ended
<1>5. CASE gens' = Put(gens, i, FailedWith(g, failures)) /\ corrections' = corrections /\ out = old
  <2>1. failures \in SUBSET {"board", "statistics", "army", "waiting"}
    BY <1>1 DEF Generation
  <2>2. Known(gens, corrections, saved, X, X, old)
    BY DEF old
  <2> HIDE DEF failures, n
  <2>3. Known(gens', corrections, saved, X, X, old)
    BY <1>1, <1>5, <2>1, <2>2, FailedKnown
  <2> QED BY <1>5, <2>3 DEF out
<1>6. CASE gens' = pub.gens /\ corrections' = pub.corrections /\ out = [old EXCEPT !.armies = g.read]
  <2>1. GenBody(h, saved)
    <3>1. ~ToInherit(h)
      BY <1>1, <1>2, <1>3 DEF GenOK, GenBody, ToInherit
    <3> QED BY <1>1, <1>2, <1>3, <3>1 DEF GenOK, GenBody, Ended
  <2>2. h.snap # "superseded" /\ h.army # "superseded" /\ h.source = gens[n].source /\ h.corr = gens[n].corr
    BY <1>1, <1>2, <1>4 DEF Sound, Linked
  <2>3. Heir(gens, corrections, g, saved, X, X, old)
    BY <1>1, <1>4, NewestIsHeir DEF old
  <2>4. FrozenOK(h, saved)
    BY <1>1, <1>2, <1>3 DEF FrozenOK
  <2>5. Steady(g, h, saved)
    BY <1>2, <1>3 DEF Steady, ToInherit
  <2> HIDE DEF n, g
  <2>6. Heir(gens, corrections, h, saved, X, X, old)
    BY <1>1, <2>3, <2>5, SteadyHeir
  <2>7. ShownOK(h, saved, out)
    <3>1. ShownOK(h, saved, old)
      BY <2>6 DEF Heir
    <3> QED BY <1>1, <1>2, <1>3, <1>6, <3>1, ArmiesShown
  <2>8. Heir(gens, corrections, h, saved, {}, {}, out)
    BY <2>6, <2>7 DEF Heir
  <2>9. pub = Emit(Put(gens, n, h), corrections, n, army, saved, gate)
    BY <1>4 DEF pub
  <2>10. Known(pub.gens, pub.corrections, saved, {}, {}, out)
    BY <1>1, <2>1, <2>2, <2>4, <2>8, <2>9, EmitKnown
  <2> QED BY <1>6, <2>10 DEF out
<1> QED
  BY <1>3, <1>5, <1>6

LEMMA FailBuildKnown ==
    ASSUME OneInv, NEW X, X = {}, NEW out, Known(gens, corrections, saved, X, X, out),
           NEW i \in 1 .. Len(gens), FailBuild(i)
    PROVE  Known(gens', corrections', saved, X, X, out)
<1>1. Sound(gens, corrections, saved) /\ gens[i] \in Generation
  BY DEF OneInv, Sound, GenOK, GenBody
<1>2. PICK kind \in {"board", "statistics", "army"} :
            gens' = [gens EXCEPT ![i].failed = @ \cup {kind}] /\ corrections' = corrections
  BY DEF FailBuild
<1> DEFINE failures == gens[i].failed \cup {kind}
<1>3. failures \in SUBSET {"board", "statistics", "army", "waiting"}
  BY <1>1 DEF Generation
<1>4. gens' = Put(gens, i, FailedWith(gens[i], failures))
  BY <1>2 DEF Put, FailedWith
<1> HIDE DEF failures
<1>5. Known(gens', corrections, saved, X, X, out)
  BY <1>1, <1>3, <1>4, FailedKnown
<1> QED
  BY <1>2, <1>5

LEMMA QueueingKnown ==
    ASSUME OneInv, NEW X, X = {}, NEW out, Known(gens, corrections, saved, X, X, out),
           QueueRebuild \/ QueueArmyCorrection
    PROVE  Known(gens', corrections', saved, X, X, out)
<1> DEFINE n == Len(gens)
           all == Both
           one == {"army"}
<1>1. Sound(gens, corrections, saved) /\ Current(gens) = n /\ n \in Nat
  <2>1. Sound(gens, corrections, saved)
    BY DEF OneInv
  <2>2. Current(gens) = Len(gens)
    BY <2>1, CurrentIsNewest
  <2> QED BY <2>1, <2>2 DEF Sound
<1>2. PICK affected \in {all, one} :
            /\ n # 0 /\ gens' = gens
            /\ corrections' = Queue(corrections, n, affected, <<>>)
  BY <1>1 DEF QueueRebuild, QueueArmyCorrection
<1>3. affected \in SUBSET Both /\ "army" \in affected /\ n > 0 /\ n = Len(gens)
  BY <1>1, <1>2 DEF Both
<1> HIDE DEF n
<1>4. Known(gens, corrections', saved, X, X, out)
  BY <1>1, <1>2, <1>3, QueueNothingKnown
<1> QED
  BY <1>2, <1>4

-----------------------------------------------------------------------------
(* The Reset keeps its generations.                                        *)

LEMMA EnqueueDomain ==
    ASSUME NEW gs, NEW i, NEW army, NEW f, NEW t
    PROVE  DOMAIN TryEnqueue(gs, i, army, f, t) = DOMAIN gs
<1> DEFINE next == Inherited(gs, i)
<1>1. DOMAIN next = DOMAIN gs
  BY DEF Inherited
<1>2. \E h : TryEnqueue(gs, i, army, f, t) \in {gs, next, [next EXCEPT ![i] = h]}
  <2> HIDE DEF next
  <2>1. TryEnqueue(gs, i, army, f, t) \in
            {gs, next, [next EXCEPT ![i] = IF army THEN WithArmies(WithBoard(Readied(next[i]), f), f)
                                           ELSE WithBoard(Readied(next[i]), f)]}
    BY DEF TryEnqueue, next
  <2> QED BY <2>1
<1> HIDE DEF next
<1> QED
  BY <1>1, <1>2

LEMMA SettleDomain ==
    ASSUME NEW gs, NEW i, NEW p, NEW m, NEW full, NEW f, NEW t
    PROVE  DOMAIN Settle(gs, i, p, m, full, f, t) = DOMAIN gs
<1> DEFINE next == IF p \in DOMAIN gs[i].members THEN [gs EXCEPT ![i].members[p] = m] ELSE gs
           army == FALSE
<1>1. DOMAIN next = DOMAIN gs
  OBVIOUS
<1>2. Settle(gs, i, p, m, full, f, t) = IF full THEN TryEnqueue(next, i, army, f, t) ELSE next
  BY DEF Settle
<1> HIDE DEF next, army
<1>3. DOMAIN TryEnqueue(next, i, army, f, t) = DOMAIN next
  BY EnqueueDomain
<1> QED
  BY <1>1, <1>2, <1>3

\* A publication that has a generation, or a correction of one.
Begins(gs, cs) == 1 \in DOMAIN gs \/ 1 \in DOMAIN cs

LEMMA BeginsWhole ==
    ASSUME NEW gs, NEW cs, NEW f, Sound(gs, cs, f), Begins(gs, cs)
    PROVE  gs # <<>>
<1>1. CASE 1 \in DOMAIN gs
  BY <1>1
<1>2. CASE 1 \in DOMAIN cs
  <2>1. cs \in Seq(Correction) /\ gs \in Seq(Generation)
    BY DEF Sound
  <2>2. 1 \in 1 .. Len(cs)
    BY <1>2, <2>1
  <2>3. cs[1].source \in 1 .. Len(gs)
    BY <2>2 DEF Sound, Corrected
  <2>4. Len(gs) # 0
    BY <2>1, <2>3
  <2> QED BY <2>1, <2>4, EmptySeq
<1> QED
  BY <1>1, <1>2 DEF Begins

LEMMA WholeBegins ==
    ASSUME NEW gs, gs \in Seq(Generation), gs # <<>>
    PROVE  1 \in DOMAIN gs
BY EmptySeq

LEMMA QueueBegins ==
    ASSUME NEW cs, cs \in Seq(Correction), NEW i, NEW affected, NEW inputs
    PROVE  1 \in DOMAIN Queue(cs, i, affected, inputs)
<1> DEFINE c == [source |-> i, gen |-> 0, affected |-> affected, inputs |-> inputs, state |-> "queued"]
<1>1. CASE Queued(cs, i) = {}
  <2>1. Queue(cs, i, affected, inputs) = Append(cs, c)
    BY <1>1 DEF Queue
  <2>2. DOMAIN Append(cs, c) = 1 .. Len(cs) + 1 /\ Len(cs) \in Nat
    <3> HIDE DEF c
    <3> QED OBVIOUS
  <2> QED BY <2>1, <2>2
<1>2. CASE Queued(cs, i) # {}
  <2>1. 1 \in 1 .. Len(cs)
    BY <1>2 DEF Queued
  <2>2. DOMAIN Queue(cs, i, affected, inputs) = 1 .. Len(cs)
    BY <1>2 DEF Queue
  <2> QED BY <2>1, <2>2
<1> QED
  BY <1>1, <1>2

LEMMA EmitBegins ==
    ASSUME NEW gs, NEW cs, NEW f, Sound(gs, cs, f), NEW n, n = Len(gs), n > 0,
           NEW g, GenBody(g, f), NEW army, NEW t, NEW pub,
           pub = Emit(Put(gs, n, g), cs, n, army, f, t)
    PROVE  Begins(pub.gens, pub.corrections)
<1>1. Emitted(gs, cs, n, g, army, f, t, pub)
  BY EmitDoes
<1>2. 1 \in DOMAIN gs
  BY DEF Sound
<1>3. \A h : 1 \in DOMAIN Put(gs, n, h)
  BY <1>2 DEF Put
<1>4. ASSUME NEW left, NEW k \in 1 .. Len(left), Left(cs, left)
      PROVE  1 \in DOMAIN Started(left, k, n + 1)
  <2>1. left \in Seq(Correction)
    BY <1>4 DEF Left, Sound
  <2> QED BY <1>4, <2>1 DEF Started
<1> QED
  BY <1>1, <1>3, <1>4 DEF Emitted, Begins

LEMMA RecordDayBegins ==
    ASSUME NEW f, Sound(gens, corrections, f), tracked \subseteq Players, gens # <<>>,
           NEW p \in Players, f.day[p] > 0, NEW full, NEW t,
           NEW pub, pub = RecordDay(p, full, f, t)
    PROVE  Begins(pub.gens, pub.corrections)
<1> DEFINE gs == Begun(gens, f)
           n == Len(gs)
           m == Result(p, f.day[p], f)
           inputs == <<[player |-> p, ver |-> f.day[p]]>>
           super == Supersede(gs, corrections, n, inputs, f)
           all == Both
           ms == WithInputs(Copied(gs, n, f), inputs, f)
<1>1. gs = Begun(gens, f) /\ InputsOK(inputs, f) /\ n = Len(gs) /\ all = Both
      /\ ms = WithInputs(Copied(gs, n, f), inputs, f) /\ super = Supersede(gs, corrections, n, inputs, f)
  <2>1. InputsOK(<<[player |-> p, ver |-> f.day[p]]>>, f)
    BY OneInput DEF Sound
  <2> QED BY <2>1
<1> HIDE DEF gs
<1>2. Sound(gs, corrections, f) /\ n > 0 /\ gs = gens /\ DayRecorded(gs, p, full, f, t, pub)
  BY <1>1, RecordDayDoes
<1>3. 1 \in DOMAIN gs
  BY <1>2, WholeBegins DEF Sound
<1>4. DayRecorded(gs, p, full, f, t, pub) =>
      \/ pub.gens = gens
      \/ pub.gens = Settle(BoardToo(gs, n), n, p, m, full, f, t)
      \/ pub.corrections = Queue(corrections, n, all, inputs)
      \/ Published(gs[n]) /\ Queued(corrections, n) = {} /\ pub.corrections = super.corrections
      \/ pub.gens = Settle(gs, n, p, m, full, f, t)
  BY DEF DayRecorded
<1> HIDE DEF n, m, inputs, super, all, ms
<1>5. CASE pub.gens = gens
  BY <1>2, <1>3, <1>5 DEF Begins
<1>6. CASE pub.gens = Settle(BoardToo(gs, n), n, p, m, full, f, t)
  <2>1. DOMAIN BoardToo(gs, n) = DOMAIN gs
    BY DEF BoardToo
  <2>2. DOMAIN pub.gens = DOMAIN BoardToo(gs, n)
    BY <1>6, SettleDomain
  <2> QED BY <1>3, <2>1, <2>2 DEF Begins
<1>7. CASE pub.corrections = Queue(corrections, n, all, inputs)
  <2>1. 1 \in DOMAIN Queue(corrections, n, all, inputs)
    BY QueueBegins DEF Sound
  <2> QED BY <1>7, <2>1 DEF Begins
<1>8. CASE Published(gs[n]) /\ Queued(corrections, n) = {} /\ pub.corrections = super.corrections
  <2>1. Replacement(gs, n, all, ms, super.gens, super.corrections)
    BY <1>1, <1>2, <1>8, SupersedeDoes
  <2>2. 1 \in DOMAIN super.corrections
    BY <2>1 DEF Replacement
  <2> QED BY <1>8, <2>2 DEF Begins
<1>9. CASE pub.gens = Settle(gs, n, p, m, full, f, t)
  <2>1. DOMAIN pub.gens = DOMAIN gs
    BY <1>9, SettleDomain
  <2> QED BY <1>3, <2>1 DEF Begins
<1> QED
  BY <1>2, <1>4, <1>5, <1>6, <1>7, <1>8, <1>9

LEMMA RecordReadingBegins ==
    ASSUME gens \in Seq(Generation), NEW f, NEW p, NEW complete, NEW full, NEW t,
           NEW pub, pub = RecordReading(p, complete, full, f, t)
    PROVE  Begins(pub.gens, pub.corrections)
<1> DEFINE gs == Begun(gens, f)
           first == 1
           none == None
           m == IF p \in DOMAIN gs[first].members
                THEN IF complete THEN Result(p, gs[first].members[p].ver, f) ELSE LeftOut(gs[first].members[p])
                ELSE none
           ms == Copied(gens, 0, f)
           g == NewGeneration(0, {}, "none", ms)
<1>1. \/ gs[first].snap = "superseded" /\ pub.gens = gens
      \/ pub.gens = Settle(gs, first, p, m, full, f, t)
  <2>1. pub = IF gs[first].snap = "superseded" /\ gs[first].army = "superseded" THEN Pub
              ELSE [gens |-> Settle(gs, first, p, m, full, f, t), corrections |-> corrections]
    BY DEF RecordReading
  <2> HIDE DEF gs, m
  <2> QED BY <2>1 DEF Pub
<1>2. CASE gens = <<>>
  <2>1. gs = <<g>> /\ g.snap = "pending"
    BY <1>2 DEF Begun, NewGeneration
  <2> HIDE DEF g
  <2>2. 1 \in DOMAIN gs /\ gs[first].snap # "superseded"
    BY <2>1
  <2> HIDE DEF gs, m
  <2> QED BY <1>1, <2>2, SettleDomain DEF Begins
<1>3. CASE gens # <<>>
  <2>1. gs = gens /\ 1 \in DOMAIN gens
    BY <1>3, WholeBegins DEF Begun
  <2> HIDE DEF gs, m
  <2> QED BY <1>1, <2>1, SettleDomain DEF Begins
<1> QED
  BY <1>2, <1>3

LEMMA RecordLeaveBegins ==
    ASSUME NEW f, Sound(gens, corrections, f), gens # <<>>, NEW p \in Players,
           NEW full \in BOOLEAN, NEW t, NEW pub, pub = RecordLeave(p, full, f, t)
    PROVE  Begins(pub.gens, pub.corrections)
<1> DEFINE n == Len(gens)
           m == LeaveResult(gens[n], p)
           all == Both
           inputs == <<>>
<1>1. 1 \in DOMAIN gens /\ corrections \in Seq(Correction)
  BY WholeBegins DEF Sound
<1>2. LeaveRecorded(n, p, m, full, f, t, pub)
  BY RecordLeaveDoes
<1>3. \/ pub.gens = gens
      \/ pub.gens = Settle(gens, n, p, m, full, f, t)
  BY <1>2 DEF LeaveRecorded
<1> HIDE DEF m, n
<1> QED
  BY <1>1, <1>3, SettleDomain DEF Begins

LEMMA RecordDecodeBegins ==
    ASSUME NEW f, Sound(gens, corrections, f), tracked \subseteq Players, gens # <<>>, NEW p \in Players,
           NEW full \in BOOLEAN, NEW t, NEW pub, pub = RecordDecode(p, full, f, t)
    PROVE  Begins(pub.gens, pub.corrections)
<1> DEFINE n == Len(gens)
           refreshed == Refreshed(n, p, f)
           corrected == CorrectArmies(refreshed, corrections, n, f, t)
           army == FALSE
           affected == {"army"}
           inputs == <<>>
           ms == Copied(refreshed, n, f)
<1>1. 1 \in DOMAIN gens /\ corrections \in Seq(Correction) /\ n = Len(gens) /\ n # 0
      /\ affected = {"army"} /\ inputs = <<>>
  BY WholeBegins DEF Sound
<1>2. DecodeRecorded(n, p, full, f, t, pub)
  BY RecordDecodeDoes
<1>3. \/ pub.gens = gens
      \/ pub.gens = refreshed
      \/ pub.gens = TryEnqueue(refreshed, n, army, f, t)
      \/ pub.corrections = corrected.corrections
  BY <1>2 DEF DecodeRecorded
<1>4. refreshed = Refreshed(n, p, f) /\ corrected = CorrectArmies(refreshed, corrections, n, f, t)
      /\ ms = Copied(refreshed, n, f)
  OBVIOUS
<1> HIDE DEF n, refreshed, corrected, army, affected, inputs, ms
<1>5. DOMAIN refreshed = DOMAIN gens
  BY <1>4 DEF Refreshed
<1>6. DOMAIN TryEnqueue(refreshed, n, army, f, t) = DOMAIN refreshed
  BY EnqueueDomain
<1>7. CASE pub.corrections = corrected.corrections
  <2>1. Sound(refreshed, corrections, f) /\ Len(refreshed) = n /\ n \in 1 .. Len(gens)
    BY <1>1, <1>4, RefreshedOK
  <2>2. n > 0 /\ n = Len(refreshed)
    BY <2>1
  <2>3. ArmiesCorrected(refreshed, corrections, n, affected, ms, corrected)
    BY <1>1, <1>4, <2>1, <2>2, CorrectArmiesDoes
  <2>4. \/ 1 \in DOMAIN corrected.corrections
        \/ corrected.corrections = Queue(corrections, n, affected, inputs)
    BY <1>1, <2>3 DEF ArmiesCorrected, Replacement
  <2>5. 1 \in DOMAIN Queue(corrections, n, affected, inputs)
    BY <1>1, QueueBegins
  <2> QED BY <1>7, <2>4, <2>5 DEF Begins
<1> QED
  BY <1>1, <1>3, <1>5, <1>6, <1>7 DEF Begins

LEMMA RecordedBegins ==
    ASSUME OneInv, NEW kind \in Kinds, NEW p \in Players, NEW full \in BOOLEAN,
           gens # <<>> \/ kind \in {"read", "unreadable"},
           NEW pub, pub = Recorded(kind, p, full)
    PROVE  pub.gens # <<>>
<1> DEFINE f == Saved(kind, p)
           yes == TRUE
           no == FALSE
<1>1. /\ saved \in Facts /\ tracked \subseteq Players /\ Sound(gens, corrections, saved)
  BY ResetConstants DEF OneInv
<1>2. f \in Facts /\ Later(saved, f) /\ (kind = "day" => f.day[p] > 0)
  BY <1>1, SavedLater
<1>3. Sound(pub.gens, pub.corrections, f)
  BY RecordedSound
<1> HIDE DEF f
<1>4. Sound(gens, corrections, f) /\ gens \in Seq(Generation)
  <2>1. Sound(gens, corrections, f)
    BY <1>1, <1>2, LaterSound
  <2> QED BY <2>1 DEF Sound
<1>5. \/ kind = "day" /\ pub = RecordDay(p, full, f, gate)
      \/ kind = "read" /\ pub = RecordReading(p, yes, full, f, gate)
      \/ kind = "unreadable" /\ pub = RecordReading(p, no, full, f, gate)
      \/ kind = "leave" /\ pub = RecordLeave(p, full, f, gate)
      \/ kind = "decode" /\ pub = RecordDecode(p, full, f, gate)
  BY DEF Recorded, Kinds, f
<1> HIDE DEF yes, no
<1> SUFFICES Begins(pub.gens, pub.corrections)
  BY <1>3, BeginsWhole
<1>6. CASE kind = "day" /\ pub = RecordDay(p, full, f, gate)
  BY <1>1, <1>2, <1>4, <1>6, RecordDayBegins
<1>7. CASE pub = RecordReading(p, yes, full, f, gate)
  BY <1>4, <1>7, RecordReadingBegins
<1>8. CASE pub = RecordReading(p, no, full, f, gate)
  BY <1>4, <1>8, RecordReadingBegins
<1>9. CASE kind = "leave" /\ pub = RecordLeave(p, full, f, gate)
  BY <1>4, <1>9, RecordLeaveBegins
<1>10. CASE kind = "decode" /\ pub = RecordDecode(p, full, f, gate)
  BY <1>1, <1>4, <1>10, RecordDecodeBegins
<1> QED
  BY <1>5, <1>6, <1>7, <1>8, <1>9, <1>10

LEMMA BuildsBegin ==
    ASSUME OneInv, NEW i \in 1 .. Len(gens),
           BuildBoard(i) \/ BuildStatistics(i) \/ BuildArmies(i) \/ FailBuild(i)
    PROVE  Begins(gens', corrections')
<1> DEFINE g == gens[i]
           army == FALSE
           a == [g EXCEPT !.snap = "published", !.statistics = TRUE]
           b == [g EXCEPT !.army = "published", !.armies = TRUE]
           s == Emit(Put(gens, i, a), corrections, i, army, saved, gate)
           r == Emit(Put(gens, i, b), corrections, i, army, saved, gate)
<1>1. /\ Sound(gens, corrections, saved) /\ GenOK(g, saved) /\ g \in Generation /\ 1 \in DOMAIN gens
  BY DEF OneInv, Sound, GenOK, GenBody
<1>2. \A h : [gens EXCEPT ![i] = h] = Put(gens, i, h)
  BY DEF Put
<1>3. \A h : 1 \in DOMAIN Put(gens, i, h)
  BY <1>1 DEF Put
<1>4. \/ \E h : gens' = Put(gens, i, h)
      \/ g.snap = "building" /\ gens' = s.gens /\ corrections' = s.corrections
      \/ g.army = "ready" /\ g.read # None /\ gens' = r.gens /\ corrections' = r.corrections
  <2>1. ASSUME BuildBoard(i)  PROVE \E h : gens' = Put(gens, i, h)
    BY <2>1 DEF BuildBoard, Put
  <2>2. ASSUME FailBuild(i)  PROVE \E h : gens' = Put(gens, i, h)
    BY <2>2 DEF FailBuild, Put
  <2>3. ASSUME BuildStatistics(i)
        PROVE  g.snap = "building" /\ gens' = s.gens /\ corrections' = s.corrections
    <3>1. [gens EXCEPT ![i].snap = "published", ![i].statistics = TRUE] = Put(gens, i, a)
      BY DEF Put
    <3>2. Written(s) /\ g.snap = "building"
      BY <2>3, <3>1 DEF BuildStatistics
    <3> HIDE DEF s
    <3> QED BY <3>2 DEF Written
  <2>4. ASSUME BuildArmies(i)
        PROVE  \/ \E h : gens' = Put(gens, i, h)
               \/ g.army = "ready" /\ g.read # None /\ gens' = r.gens /\ corrections' = r.corrections
    <3>1. [gens EXCEPT ![i].army = "published", ![i].armies = TRUE] = Put(gens, i, b)
      BY DEF Put
    <3>2. /\ Written(r) \/ gens' = [gens EXCEPT ![i].failed = @ \cup {"waiting"}]
          /\ g.army = "ready" /\ g.read # None
      BY <2>4, <3>1 DEF BuildArmies
    <3> HIDE DEF r
    <3> QED BY <3>2 DEF Written, Put
  <2> QED BY <2>1, <2>2, <2>3, <2>4
<1>5. CASE g.snap = "building" /\ gens' = s.gens /\ corrections' = s.corrections
  <2>1. i = Len(gens) /\ i > 0
    BY <1>1, <1>5, BuildsNewest DEF Ended
  <2>2. GenBody(a, saved)
    <3>1. /\ a \in Generation /\ a.members = g.members /\ a.read = g.read /\ a.affected = g.affected
          /\ a.source = g.source /\ a.statistics = TRUE /\ a.armies = g.armies /\ a.snap = "published"
          /\ a.army = g.army /\ a.ranked = g.ranked
      BY <1>1 DEF Generation, Artifact
    <3> HIDE DEF a
    <3> QED BY <1>1, <1>5, <3>1 DEF GenOK, GenBody, ToInherit, Ended
  <2>3. s = Emit(Put(gens, i, a), corrections, i, army, saved, gate)
    OBVIOUS
  <2> HIDE DEF s, a, army
  <2> QED BY <1>1, <1>5, <2>1, <2>2, <2>3, EmitBegins
<1>6. CASE g.army = "ready" /\ g.read # None /\ gens' = r.gens /\ corrections' = r.corrections
  <2>1. i = Len(gens) /\ i > 0
    BY <1>1, <1>6, BuildsNewest DEF Ended
  <2>2. GenBody(b, saved)
    <3>1. /\ b \in Generation /\ b.members = g.members /\ b.read = g.read /\ b.affected = g.affected
          /\ b.source = g.source /\ b.statistics = g.statistics /\ b.armies = TRUE /\ b.snap = g.snap
          /\ b.army = "published" /\ b.ranked = g.ranked
      BY <1>1 DEF Generation, Artifact
    <3> HIDE DEF b
    <3>2. ~ToInherit(b)
      BY <1>1, <1>6, <3>1 DEF GenOK, GenBody, ToInherit
    <3> QED BY <1>1, <1>6, <3>1, <3>2 DEF GenOK, GenBody, Ended
  <2>3. r = Emit(Put(gens, i, b), corrections, i, army, saved, gate)
    OBVIOUS
  <2> HIDE DEF r, b, army
  <2> QED BY <1>1, <1>6, <2>1, <2>2, <2>3, EmitBegins
<1> QED
  BY <1>3, <1>4, <1>5, <1>6 DEF Begins

LEMMA ReevaluateBegins ==
    ASSUME OneInv, gens # <<>>, NEW cut, NEW old, Reevaluate(cut, old)
    PROVE  Begins(gens', corrections')
<1> DEFINE n == Len(gens)
           checked == Checked(cut, old)
           army == TRUE
           pub == Emit(checked, corrections, n, army, saved, gate)
           g == checked[n]
<1>1. n = Len(gens) /\ n \in Nat /\ n > 0 /\ checked = Checked(cut, old)
  BY EmptySeq DEF OneInv, Sound
<1> HIDE DEF n, checked
<1>2. Sound(checked, corrections, saved) /\ n = Len(checked)
  BY <1>1, CheckedSound
<1>3. Reevaluated(n, checked, gens', corrections')
  BY <1>1, ReevaluateDoes
<1>4. n \in 1 .. Len(checked) /\ checked \in Seq(Generation) /\ 1 \in DOMAIN checked
  BY <1>1, <1>2 DEF Sound
<1>5. GenBody(g, saved)
  BY <1>2, <1>4 DEF Sound, GenOK
<1>6. Put(checked, n, g) = checked
  BY <1>4 DEF Put
<1>7. pub = Emit(Put(checked, n, g), corrections, n, army, saved, gate)
  BY <1>6
<1> HIDE DEF g, pub, army
<1>8. Begins(pub.gens, pub.corrections)
  BY <1>1, <1>2, <1>5, <1>7, EmitBegins
<1> QED
  BY <1>3, <1>4, <1>8 DEF Reevaluated, Begins, pub, army

-----------------------------------------------------------------------------
(* The invariant.                                                          *)

LEMMA InitResults == Init => ResultsInv
<1> SUFFICES ASSUME Init  PROVE ResultsInv
  OBVIOUS
<1>1. OneInv
  BY InitOne
<1>2. /\ saved.day = [p \in Players |-> 0] /\ due = Players \ tracked /\ tracked \subseteq Players
      /\ gens = <<>> /\ sharing = {} /\ board = None /\ armies = None
  BY <1>1, ResetConstants DEF Init, OneInv
<1>3. Len(gens) = 0
  BY <1>1, <1>2, EmptySeq
<1>4. Known(gens, corrections, saved, {}, {}, Out)
  BY <1>2, <1>3 DEF Known, Out
<1>5. BeforeFirst
  BY <1>2 DEF BeforeFirst
<1> QED
  BY <1>1, <1>4, <1>5 DEF ResultsInv

\* What is published changes only with the builds of the board and of the army results.
LEMMA StepKnown ==
    ASSUME ResultsInv, Next, NEW X, X = {}
    PROVE  Known(gens', corrections', saved', X, X, Out')
<1>1. OneInv /\ Known(gens, corrections, saved, X, X, Out) /\ saved \in Facts /\ BeforeFirst
  BY DEF ResultsInv, OneInv
<1>2. ASSUME saved' = saved, gens' = gens, corrections' = corrections, board' = board, armies' = armies
      PROVE  Known(gens', corrections', saved', X, X, Out')
  BY <1>1, <1>2 DEF Out
<1>3. ASSUME gens = <<>>, gens' = gens, board' = board, armies' = armies
      PROVE  Known(gens', corrections', saved', X, X, Out')
  <2>1. Len(gens) = 0
    BY <1>3, EmptySeq
  <2> QED BY <1>1, <1>3, <2>1 DEF Known, Out
<1>4. ASSUME NEW kind \in Kinds, NEW p \in Players, NEW full \in BOOLEAN,
             saved' = Saved(kind, p), Written(Recorded(kind, p, full)),
             board' = board, armies' = armies
      PROVE  Known(gens', corrections', saved', X, X, Out')
  <2> DEFINE pub == Recorded(kind, p, full)
             out == Out
  <2>1. gens' = pub.gens /\ corrections' = pub.corrections
    BY <1>4 DEF Written
  <2>2. pub = Recorded(kind, p, full) /\ out = Out /\ Out' = out
    BY <1>4 DEF Out
  <2> HIDE DEF pub, out
  <2>3. /\ Known(gens, corrections, saved, {}, {}, out)
        /\ gens = <<>> => \A q \in tracked : saved.day[q] = 0
    BY <1>1, <2>2 DEF BeforeFirst
  <2>4. Known(pub.gens, pub.corrections, Saved(kind, p), {}, {}, out)
    BY <1>1, <2>2, <2>3, RecordedKnown
  <2> QED BY <1>4, <2>1, <2>2, <2>4
<1>5. ASSUME NEW p \in Players, SaveEarlier(p) \/ StartEarlier(p) \/ CommitEarlier(p)
      PROVE  Known(gens', corrections', saved', X, X, Out')
  <2>1. gens' = gens /\ board' = board /\ armies' = armies
    BY <1>5 DEF SaveEarlier, StartEarlier, CommitEarlier, publication, shown
  <2>2. CASE CommitEarlier(p)
    BY <1>1, <1>3, <2>1, <2>2 DEF CommitEarlier, BeforeFirst
  <2>3. CASE SaveEarlier(p) \/ StartEarlier(p)
    BY <1>1, <1>3, <2>1, <2>3 DEF SaveEarlier, StartEarlier, OneInv
  <2> QED BY <1>5, <2>2, <2>3
<1>6. ASSUME NEW kind \in Kinds, NEW p \in Players, Start(kind, p) \/ Commit(kind, p) \/ Full(kind, p)
      PROVE  Known(gens', corrections', saved', X, X, Out')
  <2> DEFINE yes == TRUE
             no == FALSE
  <2>1. /\ board' = board /\ armies' = armies
        /\ \/ saved' = saved /\ gens' = gens /\ corrections' = corrections
           \/ saved' = Saved(kind, p) /\ Written(Recorded(kind, p, no))
           \/ saved' = Saved(kind, p) /\ Written(Recorded(kind, p, yes))
    BY <1>6 DEF Start, Commit, Full, Done, facts, publication, shown
  <2>2. yes \in BOOLEAN /\ no \in BOOLEAN
    OBVIOUS
  <2> HIDE DEF yes, no
  <2> QED BY <1>2, <1>4, <2>1, <2>2
<1>7. ASSUME NEW i \in 1 .. Len(gens),
             BuildBoard(i) \/ BuildStatistics(i) \/ BuildArmies(i) \/ FailBuild(i)
      PROVE  Known(gens', corrections', saved', X, X, Out')
  <2>1. saved' = saved
    BY <1>7 DEF BuildBoard, BuildStatistics, BuildArmies, FailBuild, facts
  <2>2. CASE BuildBoard(i)
    BY <1>1, <2>1, <2>2, BuildBoardKnown
  <2>3. CASE BuildArmies(i)
    BY <1>1, <2>1, <2>3, BuildArmiesKnown
  <2>4. CASE BuildStatistics(i) \/ FailBuild(i)
    <3> DEFINE out == Out
    <3>1. Out' = out /\ Known(gens, corrections, saved, X, X, out)
      BY <1>1, <2>4 DEF BuildStatistics, FailBuild, shown, Out
    <3> HIDE DEF out
    <3>2. Known(gens', corrections', saved, X, X, out)
      BY <1>1, <2>4, <3>1, BuildStatisticsKnown, FailBuildKnown
    <3> QED BY <2>1, <3>1, <3>2
  <2> QED BY <1>7, <2>2, <2>3, <2>4
<1>8. ASSUME (\E cut, old \in BOOLEAN : Reevaluate(cut, old)) \/ QueueRebuild \/ QueueArmyCorrection
      PROVE  Known(gens', corrections', saved', X, X, Out')
  <2> DEFINE out == Out
  <2>1. saved' = saved /\ Out' = out /\ Known(gens, corrections, saved, X, X, out)
    BY <1>1, <1>8 DEF Reevaluate, QueueRebuild, QueueArmyCorrection, facts, shown, Out
  <2> HIDE DEF out
  <2>2. Known(gens', corrections', saved, X, X, out)
    BY <1>1, <1>8, <2>1, ReevaluateKnown, QueueingKnown
  <2> QED BY <2>1, <2>2
<1>9. ASSUME \/ Sweep \/ (\E p \in Players : Change(p) \/ FailDay(p))
             \/ (\E t \in Gates : Hold(t)) \/ Release
      PROVE  Known(gens', corrections', saved', X, X, Out')
  BY <1>2, <1>9 DEF Sweep, Change, FailDay, Hold, Release, facts, publication, shown
<1> QED
  BY <1>5, <1>6, <1>7, <1>8, <1>9 DEF Next

LEMMA StepBefore ==
    ASSUME ResultsInv, Next
    PROVE  BeforeFirst'
<1>1. OneInv /\ BeforeFirst /\ saved \in Facts /\ tracked \subseteq Players
      /\ Sound(gens, corrections, saved) /\ gens \in Seq(Generation)
  BY ResetConstants DEF ResultsInv, OneInv, Sound
<1>2. tracked' = tracked
  BY DEF Next, SaveEarlier, StartEarlier, CommitEarlier, Sweep, Start, Commit, Full, BuildBoard,
         BuildStatistics, BuildArmies, FailBuild, Reevaluate, Change, FailDay, QueueRebuild,
         QueueArmyCorrection, Hold, Release, facts
<1>3. saved' \in Facts /\ Sound(gens', corrections', saved')
  BY <1>1, StepSound
<1> DEFINE Shared == \A tx \in sharing' : tx.kind = "early" <=> gens' = <<>>
           Days == gens' = <<>> => \A p \in tracked : saved'.day[p] = 0 /\ p \notin due'
<1>4. SUFFICES Shared /\ Days
  BY <1>2 DEF BeforeFirst
<1>5. ASSUME sharing' \subseteq sharing, gens' = gens, due' \subseteq due, saved'.day = saved.day
      PROVE  Shared /\ Days
  BY <1>1, <1>5 DEF BeforeFirst
<1>6. ASSUME gens # <<>>, gens' # <<>>, sharing' \subseteq sharing
      PROVE  Shared /\ Days
  BY <1>1, <1>6 DEF BeforeFirst
<1>7. ASSUME NEW p \in Players, SaveEarlier(p)
      PROVE  Shared /\ Days
  <2>1. /\ sharing' = sharing /\ gens' = gens /\ due' = due \ {p} /\ p \notin tracked
        /\ saved' = [saved EXCEPT !.day[p] = @ + 1]
    BY <1>7 DEF SaveEarlier, Done, Saved, publication
  <2>2. \A q \in tracked : saved'.day[q] = saved.day[q]
    BY <1>1, <2>1 DEF Facts
  <2> QED BY <1>1, <2>1, <2>2 DEF BeforeFirst
<1>8. ASSUME NEW p \in Players, StartEarlier(p)
      PROVE  Shared /\ Days
  <2>1. /\ sharing' = sharing \cup {[kind |-> "early", player |-> p]} /\ gens = <<>>
        /\ gens' = gens /\ due' = due /\ saved' = saved
    BY <1>1, <1>8 DEF StartEarlier, OneInv, facts, publication
  <2> QED BY <1>1, <2>1 DEF BeforeFirst
<1>9. ASSUME NEW p \in Players, CommitEarlier(p)
      PROVE  Shared /\ Days
  <2>1. /\ sharing' \subseteq sharing /\ gens' = gens /\ due' = due
        /\ saved' = [saved EXCEPT !.decodes[p] = @ + 1]
    BY <1>9 DEF CommitEarlier, Done, Saved, publication
  <2>2. saved'.day = saved.day
    BY <1>1, <2>1 DEF Facts
  <2> QED BY <1>5, <2>1, <2>2
<1>10. ASSUME NEW kind \in Kinds, NEW p \in Players, Start(kind, p)
       PROVE  Shared /\ Days
  <2>1. /\ sharing' = sharing \cup {[kind |-> kind, player |-> p]} /\ Current(gens) # 0
        /\ gens' = gens /\ kind # "early"
    BY <1>10 DEF Start, MayShare, publication, Kinds
  <2>2. gens # <<>>
    BY <1>1, <2>1, CurrentIsNewest, EmptySeq
  <2> QED BY <1>1, <2>1, <2>2 DEF BeforeFirst
<1>11. ASSUME NEW kind \in Kinds, NEW p \in Players, NEW full \in BOOLEAN, Written(Recorded(kind, p, full)),
              gens # <<>> \/ kind \in {"read", "unreadable"}
       PROVE  gens' # <<>>
  <2> DEFINE pub == Recorded(kind, p, full)
  <2>1. gens' = pub.gens
    BY <1>11 DEF Written
  <2>2. pub = Recorded(kind, p, full)
    OBVIOUS
  <2> HIDE DEF pub
  <2> QED BY <1>1, <1>11, <2>1, <2>2, RecordedBegins
<1>12. ASSUME NEW kind \in Kinds, NEW p \in Players, Commit(kind, p)
       PROVE  Shared /\ Days
  <2> DEFINE no == FALSE
  <2>1. /\ sharing' \subseteq sharing /\ [kind |-> kind, player |-> p] \in sharing /\ kind # "early"
        /\ gens' = gens \/ Written(Recorded(kind, p, no))
    BY <1>12 DEF Commit, publication, Kinds
  <2>2. gens # <<>> /\ no \in BOOLEAN
    BY <1>1, <2>1 DEF BeforeFirst
  <2> HIDE DEF no
  <2>3. gens' # <<>>
    BY <1>11, <2>1, <2>2
  <2> QED BY <1>6, <2>1, <2>2, <2>3
<1>13. ASSUME NEW kind \in Kinds, NEW p \in Players, Full(kind, p)
       PROVE  Shared /\ Days
  <2> DEFINE yes == TRUE
  <2>1. /\ sharing = {} /\ sharing' = sharing /\ Written(Recorded(kind, p, yes)) /\ saved' = Saved(kind, p)
        /\ kind = "day" => p \in due
        /\ due' \subseteq due \/ kind \in {"read", "unreadable"}
    BY <1>13 DEF Full, FullLock, Unshared, Done, CanStart
  <2>2. yes \in BOOLEAN
    OBVIOUS
  <2> HIDE DEF yes
  <2>3. Shared
    BY <2>1
  <2>4. ASSUME gens' = <<>>, NEW q \in tracked
        PROVE  saved'.day[q] = 0 /\ q \notin due'
    <3>1. gens = <<>> /\ kind \notin {"read", "unreadable"}
      BY <1>11, <2>1, <2>2, <2>4
    <3>2. saved.day[q] = 0 /\ q \notin due
      BY <1>1, <3>1 DEF BeforeFirst
    <3>3. q # p \/ kind # "day"
      BY <2>1, <3>2
    <3>4. saved'.day[q] = saved.day[q]
      BY <1>1, <2>1, <3>3, SavedBeyond DEF Beyond, NewDay
    <3> QED BY <2>1, <3>1, <3>2, <3>4
  <2> QED BY <2>3, <2>4
<1>14. ASSUME NEW i \in 1 .. Len(gens),
              BuildBoard(i) \/ BuildStatistics(i) \/ BuildArmies(i) \/ FailBuild(i)
       PROVE  Shared /\ Days
  <2>1. sharing' = sharing
    BY <1>14 DEF BuildBoard, BuildStatistics, BuildArmies, FailBuild
  <2>2. gens # <<>>
    BY EmptySeq
  <2>3. Begins(gens', corrections')
    BY <1>1, <1>14, BuildsBegin
  <2>4. gens' # <<>>
    BY <1>3, <2>3, BeginsWhole
  <2> QED BY <1>6, <2>1, <2>2, <2>4
<1>15. ASSUME NEW cut, NEW old, Reevaluate(cut, old)
       PROVE  Shared /\ Days
  <2>1. sharing' = sharing
    BY <1>15 DEF Reevaluate
  <2>2. gens # <<>>
    <3>1. Len(gens) > 0 \/ \E k \in 1 .. Len(corrections) : TRUE
      BY <1>15 DEF Reevaluate
    <3>2. CASE gens = <<>>
      <4>1. corrections = <<>> /\ Len(gens) = 0 /\ Len(corrections) = 0
        BY <1>1, <3>2, NoCorrectionYet
      <4> QED BY <3>1, <4>1
    <3> QED BY <3>2
  <2>3. Begins(gens', corrections')
    BY <1>1, <1>15, <2>2, ReevaluateBegins
  <2>4. gens' # <<>>
    BY <1>3, <2>3, BeginsWhole
  <2> QED BY <1>6, <2>1, <2>2, <2>4
<1>16. ASSUME NEW p \in Players, Change(p)
       PROVE  Shared /\ Days
  <2>1. /\ sharing' = sharing /\ gens' = gens /\ saved' = saved /\ due' = due \cup {p}
        /\ saved.day[p] > 0
    BY <1>16 DEF Change, publication
  <2>2. gens = <<>> => p \notin tracked
    BY <1>1, <2>1 DEF BeforeFirst
  <2> QED BY <1>1, <2>1, <2>2 DEF BeforeFirst
<1>17. ASSUME \/ Sweep \/ (\E p \in Players : FailDay(p)) \/ QueueRebuild \/ QueueArmyCorrection
              \/ (\E t \in Gates : Hold(t)) \/ Release
       PROVE  Shared /\ Days
  <2>1. sharing' = sharing /\ gens' = gens /\ saved' = saved /\ due' \subseteq due
    BY <1>17 DEF Sweep, FailDay, QueueRebuild, QueueArmyCorrection, Hold, Release, facts, publication
  <2> QED BY <1>5, <2>1
<1> HIDE DEF Shared, Days
<1> QED
  BY <1>7, <1>8, <1>9, <1>10, <1>12, <1>13, <1>14, <1>15, <1>16, <1>17 DEF Next

LEMMA NextResults == ResultsInv /\ [Next]_vars => ResultsInv'
<1> SUFFICES ASSUME ResultsInv, [Next]_vars  PROVE ResultsInv'
  OBVIOUS
<1>1. OneInv'
  BY NextOne DEF ResultsInv
<1>2. CASE Next
  <2> DEFINE X == {}
  <2>1. X = {}
    OBVIOUS
  <2> HIDE DEF X
  <2>2. Known(gens', corrections', saved', X, X, Out')
    BY <1>2, <2>1, StepKnown
  <2>3. BeforeFirst'
    BY <1>2, StepBefore
  <2> QED BY <1>1, <2>1, <2>2, <2>3 DEF ResultsInv
<1>3. CASE UNCHANGED vars
  <2>1. /\ gens' = gens /\ corrections' = corrections /\ saved' = saved /\ Out' = Out
        /\ sharing' = sharing /\ tracked' = tracked /\ due' = due
    BY <1>3 DEF vars, facts, publication, shown, Out
  <2>2. BeforeFirst'
    BY <2>1 DEF BeforeFirst, ResultsInv
  <2> QED BY <1>1, <2>1, <2>2 DEF ResultsInv
<1> QED
  BY <1>2, <1>3

LEMMA ResultsKept ==
    ASSUME ResultsInv
    PROVE  NoResultLost
<1> DEFINE n == Len(gens)
           g == gens[n]
<1>1. /\ OneInv /\ Sound(gens, corrections, saved) /\ n \in Nat /\ Known(gens, corrections, saved, {}, {}, Out)
      /\ saved.day \in [Players -> Nat]
  BY DEF ResultsInv, OneInv, Sound
<1>2. Current(gens) = n
  BY <1>1, CurrentIsNewest
<1>3. SUFFICES ASSUME n # 0, NEW p \in DOMAIN g.members \ saved.below
               PROVE  saved.day[p] \in {g.members[p].ver, Promised(p)}
  BY <1>2 DEF NoResultLost
<1>4. /\ p \in Players /\ HeldOK(g, corrections, saved, {}, {})
      /\ \A k \in 1 .. Len(corrections) : BroughtOK(corrections[k], g, saved, {})
  <2>1. GenBody(g, saved)
    BY <1>1, <1>3 DEF Sound, GenOK
  <2>2. DOMAIN g.members \subseteq Players
    BY <2>1 DEF GenBody, Generation, Members
  <2> QED BY <1>1, <1>3, <2>2 DEF Known, NewestOK
<1>5. CASE ~Awaited(corrections, p)
  BY <1>3, <1>4, <1>5 DEF HeldOK
<1>6. CASE Awaited(corrections, p)
  <2> DEFINE waiting == {k \in 1 .. Len(corrections) :
                            corrections[k].state = "queued" /\ Given(corrections[k].inputs, p) # {}}
             chosen == CHOOSE k \in waiting : TRUE
  <2>1. waiting # {}
    BY <1>6 DEF Awaited
  <2>2. chosen \in waiting
    BY <2>1
  <2>3. Promised(p) = Newest(corrections[chosen].inputs, p)
    BY <2>1 DEF Promised
  <2>4. chosen \in 1 .. Len(corrections) /\ corrections[chosen].state = "queued"
        /\ Given(corrections[chosen].inputs, p) # {}
    BY <2>2
  <2> HIDE DEF chosen
  <2>5. Newest(corrections[chosen].inputs, p) = saved.day[p]
    BY <1>3, <1>4, <2>4 DEF BroughtOK
  <2> QED BY <2>3, <2>5
<1> QED
  BY <1>5, <1>6

LEMMA DaysFollowed ==
    ASSUME ResultsInv
    PROVE  ArmiesFollowDays
<1> DEFINE n == Len(gens)
<1>1. /\ Sound(gens, corrections, saved) /\ n \in Nat /\ Known(gens, corrections, saved, {}, {}, Out)
      /\ saved.day \in [Players -> Nat]
  BY DEF ResultsInv, OneInv, Sound
<1>2. ASSUME NEW i \in 1 .. n, Published(gens[i]), NEW p \in DOMAIN gens[i].ranked \ saved.below
      PROVE  p \in DOMAIN gens[i].read /\ gens[i].read[p].ver = gens[i].ranked[p]
  <2> DEFINE g == gens[i]
  <2>1. GenBody(g, saved) /\ FrozenOK(g, saved) /\ g.snap = "published" /\ g.army = "published"
    BY <1>1, <1>2 DEF Sound, GenOK, Known, Published
  <2>2. p \in DOMAIN g.ranked /\ p \notin saved.below
    BY <1>2
  <2> HIDE DEF g
  <2>3. g.ranked # None /\ g.read # None
    BY <2>1 DEF GenBody, Ended
  <2>4. p \in DOMAIN g.members /\ g.members[p].ver = g.ranked[p]
    BY <2>1, <2>2, <2>3 DEF FrozenOK
  <2>5. g.ranked[p] \in 1 .. saved.day[p] /\ p \in Players
    BY <2>1, <2>2, <2>3, <2>4 DEF GenBody, Generation, Members
  <2>6. g.members[p].ver > 0
    BY <1>1, <2>4, <2>5
  <2>7. p \in DOMAIN g.read /\ g.read[p].ver = g.members[p].ver
    BY <2>1, <2>3, <2>4, <2>6 DEF FrozenOK
  <2> QED BY <2>4, <2>7 DEF g
<1>3. ArmyWaitHasCause
  <2>1. Current(gens) = n
    BY <1>1, CurrentIsNewest
  <2>2. n # 0 => HeldOK(gens[n], corrections, saved, {}, {})
    BY <1>1 DEF Known, NewestOK
  <2> QED BY <2>1, <2>2 DEF ArmyWaitHasCause, HeldOK
<1> QED
  BY <1>2, <1>3 DEF ArmiesFollowDays, SameDays

\* The only step that publishes a board, and it is the newest generation's.
LEMMA BoardNewer ==
    ASSUME ResultsInv, NEW i \in 1 .. Len(gens), BuildBoard(i), board # None,
           NEW p \in DOMAIN board \cap DOMAIN board'
    PROVE  board'[p] >= board[p]
<1> DEFINE n == Len(gens)
           g == gens[i]
<1>1. /\ Sound(gens, corrections, saved) /\ n \in Nat /\ Known(gens, corrections, saved, {}, {}, Out)
      /\ g.snap = "ready" /\ g.ranked # None /\ board' = g.ranked
  BY DEF ResultsInv, OneInv, Sound, BuildBoard
<1>2. i = n
  BY <1>1, BuildsNewest DEF Ended
<1>3. FrozenOK(g, saved) /\ ShownOK(g, saved, Out) /\ GenBody(g, saved)
  BY <1>1, <1>2 DEF Known, NewestOK, Sound, GenOK
<1>4. /\ board \in Ranks /\ p \in DOMAIN board /\ p \in DOMAIN g.ranked
      /\ p \in DOMAIN g.members => board[p] <= g.members[p].ver
  BY <1>1, <1>3 DEF ShownOK, Out
<1> HIDE DEF g
<1>5. p \in DOMAIN g.members /\ g.members[p].ver = g.ranked[p]
  BY <1>1, <1>3, <1>4 DEF FrozenOK
<1>6. board[p] \in Nat /\ g.members[p].ver \in Nat
  BY <1>3, <1>4, <1>5, RankTyped DEF GenBody, MemberOK, Member
<1> QED
  BY <1>1, <1>4, <1>5, <1>6

\* ... and the only one that publishes army results.
LEMMA ArmiesNewer ==
    ASSUME ResultsInv, NEW i \in 1 .. Len(gens), BuildArmies(i), armies # None, armies' # armies,
           NEW p \in DOMAIN armies \cap DOMAIN armies'
    PROVE  armies'[p].ver >= armies[p].ver /\ armies'[p].decodes >= armies[p].decodes
<1> DEFINE n == Len(gens)
           g == gens[i]
<1>1. /\ Sound(gens, corrections, saved) /\ n \in Nat /\ Known(gens, corrections, saved, {}, {}, Out)
      /\ g.army = "ready" /\ g.read # None /\ armies' = g.read
  <2>1. Sound(gens, corrections, saved) /\ n \in Nat /\ Known(gens, corrections, saved, {}, {}, Out)
    BY DEF ResultsInv, OneInv, Sound
  <2>2. g.army = "ready" /\ g.read # None
    BY DEF BuildArmies
  <2>3. armies' = armies \/ armies' = g.read
    BY DEF BuildArmies
  <2> QED BY <2>1, <2>2, <2>3
<1>2. i = n
  BY <1>1, BuildsNewest DEF Ended
<1>3. FrozenOK(g, saved) /\ ShownOK(g, saved, Out) /\ GenBody(g, saved)
  BY <1>1, <1>2 DEF Known, NewestOK, Sound, GenOK
<1>4. /\ armies \in Reads /\ p \in DOMAIN armies /\ p \in DOMAIN g.read
      /\ p \in DOMAIN g.members => armies[p].ver <= g.members[p].ver
      /\ armies[p].decodes <= g.read[p].decodes
  BY <1>1, <1>3 DEF ShownOK, Out
<1> HIDE DEF g
<1>5. p \in DOMAIN g.members /\ g.read[p].ver = g.members[p].ver
  BY <1>1, <1>3, <1>4 DEF FrozenOK
<1>6. g.read \in Reads
  BY <1>1, <1>3 DEF GenBody, Generation
<1>7. armies[p].ver \in Nat /\ armies[p].decodes \in Nat /\ g.read[p].ver \in Nat /\ g.read[p].decodes \in Nat
  BY <1>4, <1>6, ReadTyped
<1> QED
  BY <1>1, <1>4, <1>5, <1>7

-----------------------------------------------------------------------------
(* The theorems.                                                           *)

\* No member's newest saved day is ever lost: for any players, sweeps, lanes
\* and failures, the newest generation holds it or a waiting correction
\* brings it (boundary._record_boundary_generation, boundary_members.copy_members).
THEOREM NoResultIsLost == Spec => []NoResultLost
<1>1. Init => ResultsInv
  BY InitResults
<1>2. ResultsInv /\ [Next]_vars => ResultsInv'
  BY NextResults
<1>3. ResultsInv => NoResultLost
  BY ResultsKept
<1> QED
  BY <1>1, <1>2, <1>3, PTL DEF Spec

\* A published generation's board and army results rest on the same days, and a
\* counted member waits for armies only while nothing of their day is decoded
\* (boundary_manifest._freeze, reset_baselines and army_ingestion).
THEOREM ArmiesAlwaysFollowDays == Spec => []ArmiesFollowDays
<1>1. Init => ResultsInv
  BY InitResults
<1>2. ResultsInv /\ [Next]_vars => ResultsInv'
  BY NextResults
<1>3. ResultsInv => ArmiesFollowDays
  BY DaysFollowed
<1> QED
  BY <1>1, <1>2, <1>3, PTL DEF Spec

LEMMA ShownTyped ==
    ASSUME NEW gs, NEW cs, NEW f, NEW X, NEW Y, NEW out, Known(gs, cs, f, X, Y, out)
    PROVE  /\ out.board # None => out.board \in Ranks
           /\ out.armies # None => out.armies \in Reads
<1>1. CASE Len(gs) = 0
  BY <1>1 DEF Known
<1>2. CASE Len(gs) # 0
  <2>1. ShownOK(gs[Len(gs)], f, out)
    BY <1>2, Zenon DEF Known, NewestOK
  <2> QED BY <2>1 DEF ShownOK
<1> QED BY <1>1, <1>2

\* What is published never goes back to an older day or to fewer decodes of a
\* player, through every correction, rebuild and inherited board
\* (snapshots.py, boundary_publication._maybe_emit_boundary_signal).
THEOREM PublishedOnlyNewer == Spec => NeverOlder
<1> DEFINE Newer ==
        /\ board # None /\ board' # None
            => \A p \in DOMAIN board \cap DOMAIN board' : board'[p] >= board[p]
        /\ armies # None /\ armies' # None
            => \A p \in DOMAIN armies \cap DOMAIN armies' :
                    armies'[p].ver >= armies[p].ver /\ armies'[p].decodes >= armies[p].decodes
<1>1. Init => ResultsInv
  BY InitResults
<1>2. ResultsInv /\ [Next]_vars => ResultsInv'
  BY NextResults
<1>3. ResultsInv /\ [Next]_vars => [Newer]_vars
  <2> SUFFICES ASSUME ResultsInv, Next  PROVE Newer
    OBVIOUS
  <2>1. Len(gens) \in Nat /\ Known(gens, corrections, saved, {}, {}, Out)
    BY DEF ResultsInv, OneInv, Sound
  <2>2. ASSUME board # None  PROVE \A p \in DOMAIN board : board[p] \in Nat
    <3>1. board \in Ranks
      BY <2>1, <2>2, ShownTyped DEF Out
    <3> QED BY <3>1, RankTyped
  <2>3. ASSUME armies # None
        PROVE  \A p \in DOMAIN armies : armies[p].ver \in Nat /\ armies[p].decodes \in Nat
    <3>1. armies \in Reads
      BY <2>1, <2>3, ShownTyped DEF Out
    <3> QED BY <3>1, ReadTyped
  <2>4. /\ board' = board \/ \E i \in 1 .. Len(gens) : BuildBoard(i)
        /\ armies' = armies \/ \E i \in 1 .. Len(gens) : BuildArmies(i)
    <3>1. CASE \/ \E p \in Players : SaveEarlier(p) \/ StartEarlier(p) \/ CommitEarlier(p)
               \/ Sweep
               \/ \E kind \in Kinds, p \in Players : Start(kind, p) \/ Commit(kind, p) \/ Full(kind, p)
      BY <3>1 DEF SaveEarlier, StartEarlier, CommitEarlier, Sweep, Start, Commit, Full, shown
    <3>2. CASE \E i \in 1 .. Len(gens) :
                  BuildBoard(i) \/ BuildStatistics(i) \/ BuildArmies(i) \/ FailBuild(i)
      BY <3>2 DEF BuildBoard, BuildStatistics, BuildArmies, FailBuild, shown
    <3>3. CASE \/ \E cut, old \in BOOLEAN : Reevaluate(cut, old)
               \/ \E p \in Players : Change(p) \/ FailDay(p)
               \/ QueueRebuild \/ QueueArmyCorrection
               \/ \E t \in Gates : Hold(t)
               \/ Release
      BY <3>3 DEF Reevaluate, Change, FailDay, QueueRebuild, QueueArmyCorrection, Hold, Release, shown
    <3> QED BY <3>1, <3>2, <3>3, Zenon DEF Next
  <2>5. ASSUME board # None, NEW p \in DOMAIN board \cap DOMAIN board'
        PROVE  board'[p] >= board[p]
    <3>1. CASE board' = board
      BY <2>2, <2>5, <3>1
    <3>2. CASE \E i \in 1 .. Len(gens) : BuildBoard(i)
      BY <2>5, <3>2, BoardNewer
    <3> QED BY <2>4, <3>1, <3>2
  <2>6. ASSUME armies # None, NEW p \in DOMAIN armies \cap DOMAIN armies'
        PROVE  armies'[p].ver >= armies[p].ver /\ armies'[p].decodes >= armies[p].decodes
    <3>1. CASE armies' = armies
      BY <2>3, <2>6, <3>1
    <3>2. CASE armies' # armies
      BY <2>4, <2>6, <3>2, ArmiesNewer
    <3> QED BY <3>1, <3>2
  <2> QED BY <2>5, <2>6
<1> QED
  BY <1>1, <1>2, <1>3, PTL DEF Spec, NeverOlder

-----------------------------------------------------------------------------
(* Results that share the lock.                                            *)

\* Only the first generation is ever open: it affects everything and nothing of it froze.
First(g) == Open(g) /\ g.source = 0 /\ g.affected = {} /\ g.ranked = None

LEMMA OpenIsFirst ==
    ASSUME NEW gs, NEW cs, NEW f, Sound(gs, cs, f), NEW n, n = Len(gs), n > 0,
           FrozenOK(gs[n], f), Open(gs[n])
    PROVE  n = 1 /\ First(gs[n])
<1> DEFINE g == gs[n]
<1>1. n \in Nat /\ n \in 1 .. Len(gs) /\ g.source = n - 1 /\ (g.corr = "none" => n = 1)
  BY DEF Sound, Linked
<1>2. n = 1
  BY <1>1 DEF Open
<1>3. g.source = 0
  BY <1>1, <1>2
<1>4. g.affected = {}
  BY <1>3 DEF FrozenOK
<1>5. g.ranked = None
  <2>1. "snapshot" \in Both /\ "snapshot" \notin Frozen(g)
    BY DEF Open, Both
  <2> QED BY <2>1 DEF Frozen
<1> QED
  BY <1>2, <1>3, <1>4, <1>5 DEF First

\* h is generation g, still open: it waits for all g waited for but p.
Stays(g, h, p) == First(h) /\ Waiting(g) \ {p} \subseteq Waiting(h)

\* r are the generations gs once the open newest was told p's result: what a full lock
\* starts is all that can freeze.
Passed(gs, cs, f, p, full, t, r) ==
    \E next : /\ Sound(next, cs, f) /\ Len(next) = Len(gs) /\ Stays(gs[Len(gs)], next[Len(gs)], p)
              /\ r = IF full THEN TryEnqueue(next, Len(gs), FALSE, f, t) ELSE next

LEMMA MemberStays ==
    ASSUME NEW gs, NEW cs, NEW f, Sound(gs, cs, f), NEW n, n = Len(gs), n > 0, First(gs[n]),
           NEW p, NEW m, p \in DOMAIN gs[n].members => MemberOK(m, f.day[p]),
           NEW next, next = WithResult(gs, n, p, m)
    PROVE  Sound(next, cs, f) /\ Len(next) = n /\ Stays(gs[n], next[n], p)
<1> DEFINE g == gs[n]
           ms == With(g, p, m)
           h == WithMembers(g, ms)
<1>1. n \in 1 .. Len(gs) /\ gs \in Seq(Generation) /\ GenOK(g, f) /\ g \in Generation
  BY DEF Sound, GenOK, GenBody
<1>2. next = Put(gs, n, h) /\ ms = With(g, p, m) /\ h = WithMembers(g, ms) /\ g = gs[n]
  BY <1>1, MemberPut
<1> HIDE DEF ms, h, g
<1>3. /\ MembersOK(ms, f) /\ DOMAIN ms = DOMAIN g.members
      /\ \A q \in DOMAIN g.members : ms[q] = IF q = p THEN m ELSE g.members[q]
  <2>1. p \in DOMAIN g.members => MemberOK(m, f.day[p])
    BY <1>2
  <2> QED BY <1>1, <1>2, <2>1, WithDoes
<1>4. /\ h \in Generation /\ h.members = ms /\ h.snap = g.snap /\ h.army = g.army
      /\ h.corr = g.corr /\ h.affected = g.affected /\ h.source = g.source
      /\ h.ranked = g.ranked /\ h.read = g.read
  <2>1. ms \in Members
    BY <1>1, <1>3, MembersTyped
  <2> QED BY <1>1, <1>2, <2>1, WithMembersDoes
<1>5. Sound(next, cs, f) /\ Len(next) = n
  BY <1>1, ToldSound
<1>8. next[n] = h
  BY <1>1, <1>2 DEF Put
<1>6. First(h)
  <2>1. Frozen(h) = Frozen(g)
    BY <1>4 DEF Frozen
  <2> QED BY <1>2, <1>4, <2>1 DEF First, Open
<1>7. Waiting(g) \ {p} \subseteq Waiting(h)
  BY <1>3, <1>4 DEF Waiting
<1> QED
  BY <1>2, <1>5, <1>6, <1>7, <1>8 DEF Stays

LEMMA SettleStays ==
    ASSUME NEW gs, NEW cs, NEW f, Sound(gs, cs, f), NEW n, n = Len(gs), n > 0, First(gs[n]),
           NEW p, NEW m, p \in DOMAIN gs[n].members => MemberOK(m, f.day[p]),
           NEW full \in BOOLEAN, NEW t, NEW r, r = Settle(gs, n, p, m, full, f, t)
    PROVE  Passed(gs, cs, f, p, full, t, r)
<1> DEFINE next == WithResult(gs, n, p, m)
<1>1. r = IF full THEN TryEnqueue(next, n, FALSE, f, t) ELSE next
  BY DEF Settle, WithResult
<1>2. next = WithResult(gs, n, p, m)
  OBVIOUS
<1> HIDE DEF next
<1>3. Sound(next, cs, f) /\ Len(next) = n /\ Stays(gs[n], next[n], p)
  BY <1>2, MemberStays
<1> QED
  BY <1>1, <1>3 DEF Passed

LEMMA RefreshedStays ==
    ASSUME NEW f, Sound(gens, corrections, f), NEW p \in Players, NEW n, n = Len(gens), n > 0,
           First(gens[n]), NEW r, r = Refreshed(n, p, f)
    PROVE  Sound(r, corrections, f) /\ Len(r) = n /\ Stays(gens[n], r[n], p)
<1> DEFINE b == gens[n].members[p]
           m == [b EXCEPT !.army = ArmyStatus(p, b.snap, f)]
<1>1. CASE p \in DOMAIN gens[n].members /\ b.ver > 0
  <2>1. r = WithResult(gens, n, p, m)
    BY <1>1 DEF Refreshed, WithResult
  <2>2. MemberOK(m, f.day[p])
    <3>1. n \in 1 .. Len(gens)
      BY DEF Sound
    <3>2. MemberOK(b, f.day[p]) /\ f.day[p] \in Nat
      BY <1>1, <3>1 DEF Sound, GenOK, GenBody
    <3> HIDE DEF b
    <3> QED BY <1>1, <3>2 DEF MemberOK, Member, ArmyStatus, Status
  <2> HIDE DEF m
  <2> QED BY <2>1, <2>2, MemberStays
<1>2. CASE ~(p \in DOMAIN gens[n].members /\ b.ver > 0)
  BY <1>2 DEF Refreshed, Stays
<1> QED
  BY <1>1, <1>2

\* A result recorded while the newest generation is open.
LEMMA RecordedStays ==
    ASSUME OneInv, NEW n, n = Len(gens), n > 0, First(gens[n]),
           NEW kind \in Kinds, NEW p \in Players, NEW full \in BOOLEAN,
           NEW pub, pub = Recorded(kind, p, full)
    PROVE  pub.gens = gens \/ Passed(gens, corrections, Saved(kind, p), p, full, gate, pub.gens)
<1> DEFINE f == Saved(kind, p)
           g == gens[n]
           yes == TRUE
           no == FALSE
           r == pub.gens
<1>1. /\ saved \in Facts /\ tracked \subseteq Players /\ Sound(gens, corrections, saved)
  BY ResetConstants DEF OneInv
<1>2. f \in Facts /\ Later(saved, f) /\ (kind = "day" => f.day[p] > 0)
  BY <1>1, SavedLater
<1>3. \/ kind = "day" /\ pub = RecordDay(p, full, f, gate)
      \/ pub = RecordReading(p, yes, full, f, gate)
      \/ pub = RecordReading(p, no, full, f, gate)
      \/ pub = RecordLeave(p, full, f, gate)
      \/ pub = RecordDecode(p, full, f, gate)
  BY DEF Recorded, Kinds, f
<1>4. yes \in BOOLEAN /\ no \in BOOLEAN /\ g = gens[n] /\ f = Saved(kind, p)
  OBVIOUS
<1> HIDE DEF yes, no, f, g, r
<1>5. Sound(gens, corrections, f) /\ gens # <<>>
  BY <1>1, <1>2, LaterSound, EmptySeq
<1>6. g.snap = "pending" /\ g.army = "pending" /\ g.corr = "none" /\ Frozen(g) = {}
  BY <1>4 DEF First, Open
<1>7. SUFFICES r = gens \/ Passed(gens, corrections, f, p, full, gate, r)
  BY <1>4 DEF r
<1>8. CASE kind = "day" /\ pub = RecordDay(p, full, f, gate)
  <2> DEFINE gs == Begun(gens, f)
             v == f.day[p]
             m == Result(p, v, f)
  <2>1. gs = Begun(gens, f)
    OBVIOUS
  <2> HIDE DEF gs
  <2>2. gs = gens /\ DayRecorded(gens, p, full, f, gate, pub)
    <3>1. (gens # <<>> => gs = gens) /\ DayRecorded(gs, p, full, f, gate, pub)
      BY <1>1, <1>5, <1>8, <2>1, RecordDayDoes
    <3> QED BY <1>5, <3>1
  <2>3. r = gens \/ r = Settle(gens, n, p, m, full, f, gate)
    BY <1>4, <1>6, <2>2 DEF DayRecorded, r, Published
  <2>4. MemberOK(m, f.day[p])
    <3>1. f.day \in [Players -> Nat] /\ f.decodes \in [Players -> Nat]
      BY <1>5 DEF Sound
    <3>2. v \in 0 .. f.day[p] /\ m = Result(p, v, f)
      BY <3>1
    <3> HIDE DEF m, v
    <3> QED BY <3>1, <3>2, ResultOK
  <2> HIDE DEF m
  <2> QED BY <1>5, <2>3, <2>4, SettleStays
<1>9. ASSUME NEW complete \in BOOLEAN, pub = RecordReading(p, complete, full, f, gate)
      PROVE  r = gens \/ Passed(gens, corrections, f, p, full, gate, r)
  <2> DEFINE gs == Begun(gens, f)
             m == ReadingResult(gs[n], p, complete, f)
  <2>0. n = 1
    BY <1>5 DEF First, Sound, Linked
  <2>1. gs = Begun(gens, f) /\ m = ReadingResult(gs[n], p, complete, f)
    OBVIOUS
  <2> HIDE DEF gs, m
  <2>2. /\ gens # <<>> => gs = gens
        /\ p \in DOMAIN gs[n].members => MemberOK(m, f.day[p])
        /\ ReadingRecorded(gs, n, p, m, full, f, gate, pub)
    BY <1>1, <1>5, <1>9, <2>0, <2>1, RecordReadingDoes
  <2>3. r = gens \/ r = Settle(gens, n, p, m, full, f, gate)
    BY <1>5, <2>2 DEF ReadingRecorded, r
  <2> QED BY <1>5, <2>2, <2>3, SettleStays
<1>10. CASE pub = RecordLeave(p, full, f, gate)
  <2> DEFINE m == LeaveResult(gens[n], p)
  <2>1. m = LeaveResult(gens[n], p)
    OBVIOUS
  <2> HIDE DEF m
  <2>2. LeaveRecorded(n, p, m, full, f, gate, pub)
    BY <1>5, <1>10, <2>1, RecordLeaveDoes
  <2>3. r = gens \/ r = Settle(gens, n, p, m, full, f, gate)
    BY <2>2 DEF LeaveRecorded, r
  <2>4. ASSUME p \in DOMAIN gens[n].members  PROVE MemberOK(m, f.day[p])
    <3>1. n \in 1 .. Len(gens)
      BY <1>5 DEF Sound
    <3>2. MemberOK(gens[n].members[p], f.day[p]) /\ f.day[p] \in Nat
      BY <1>5, <2>4, <3>1 DEF Sound, GenOK, GenBody
    <3> QED BY <2>1, <3>2, LeftOutOK DEF LeaveResult
  <2> QED BY <1>5, <2>3, <2>4, SettleStays
<1>11. CASE pub = RecordDecode(p, full, f, gate)
  <2> DEFINE refreshed == Refreshed(n, p, f)
  <2>1. refreshed = Refreshed(n, p, f)
    OBVIOUS
  <2>2. DecodeRecorded(n, p, full, f, gate, pub)
    BY <1>5, <1>11, RecordDecodeDoes
  <2>5. \/ n = 0
        \/ r = IF full THEN TryEnqueue(refreshed, n, FALSE, f, gate) ELSE refreshed
        \/ gens[n].army \in {"ready", "published"}
    BY <2>2 DEF DecodeRecorded, r
  <2> HIDE DEF refreshed
  <2>6. n # 0 /\ gens[n].army \notin {"ready", "published"}
    BY <1>4, <1>5, <1>6 DEF Sound
  <2>3. r = IF full THEN TryEnqueue(refreshed, n, FALSE, f, gate) ELSE refreshed
    BY <2>5, <2>6
  <2>4. Sound(refreshed, corrections, f) /\ Len(refreshed) = n /\ Stays(gens[n], refreshed[n], p)
    BY <1>5, <2>1, RefreshedStays
  <2> QED BY <2>3, <2>4 DEF Passed
<1> QED
  BY <1>3, <1>4, <1>8, <1>9, <1>10, <1>11

\* What the last awaited result leaves: a board that froze.
BoardStarts(h) == Waiting(h) = {} => h.ranked # None

LEMMA StartableStarts ==
    ASSUME NEW f, f.day \in [Players -> Nat], NEW g, GenOK(g, f), First(g), NEW army,
           NEW h, h = Startable(g, army, f)
    PROVE  h.members = g.members => BoardStarts(h)
<1> DEFINE r == Readied(g)
           b == WithBoard(r, f)
<1>1. g \in Generation
  BY DEF GenOK, GenBody
<1>2. SUFFICES ASSUME h.members = g.members, Waiting(h) = {}  PROVE h.ranked # None
  BY DEF BoardStarts
<1>3. Waiting(g) = {}
  BY <1>2 DEF Waiting
<1>4. /\ r \in Generation /\ r.members = g.members /\ r.ranked = None
      /\ r.affected = {} /\ r.snap = "ready"
  <2> DEFINE status == IF g.army = "pending" /\ ArmyWaiting(g) = {} THEN "ready" ELSE g.army
  <2>1. status \in Artifact \ {"building"}
    BY <1>1 DEF Generation, Artifact
  <2>2. r = [g EXCEPT !.snap = "ready", !.army = status]
    BY <1>1, <1>3 DEF Readied, Generation, First, Open, Waiting, ArmyWaiting
  <2> HIDE DEF r, status
  <2> QED BY <1>1, <2>1, <2>2 DEF Generation, First, Artifact
<1>5. Waiting(r) = {} /\ Ranking(r, f) = Ranking(g, f)
  BY <1>3, <1>4 DEF Waiting, Ranking
<1> HIDE DEF r
<1>6. b = [r EXCEPT !.ranked = Ranking(r, f)]
  BY <1>4, <1>5 DEF WithBoard, Ranking, Affects
<1>7. Ranking(g, f) # None
  BY RankingOK
<1>8. b.ranked # None
  BY <1>4, <1>5, <1>6, <1>7 DEF Generation
<1> HIDE DEF b
<1>9. h.ranked = b.ranked
  BY DEF Startable, b, r, WithArmies
<1> QED
  BY <1>8, <1>9

\* Unless a repair or the quiet window holds it, the board of a first generation
\* that waits for nobody freezes.
LEMMA EnqueueStarts ==
    ASSUME NEW gs, NEW cs, NEW f, Sound(gs, cs, f), NEW n, n = Len(gs), n > 0, First(gs[n]),
           NEW army, NEW t, t \notin {"held", "quiet"}, NEW r, r = TryEnqueue(gs, n, army, f, t)
    PROVE  BoardStarts(r[n])
<1>1. n \in 1 .. Len(gs) /\ gs \in Seq(Generation) /\ GenOK(gs[n], f) /\ f.day \in [Players -> Nat]
  BY DEF Sound
<1>2. PICK a, h :
        /\ GenOK(a, f) /\ GenOK(h, f) /\ Enqueues(a, h, f)
        /\ a = gs[n] \/ (n > 1 /\ Inherits(gs[n], a, gs[n - 1]))
        /\ TryEnqueue(gs, n, army, f, t) = [gs EXCEPT ![n] = h]
        /\ h = Startable(a, army, f)
  BY <1>1, TryEnqueueOK
<1>3. a = gs[n]
  BY <1>2 DEF Inherits, ToInherit, First
<1>4. r[n] = h
  BY <1>1, <1>2
<1>5. h.members = a.members
  BY <1>2 DEF Enqueues
<1>6. BoardStarts(h)
  BY <1>1, <1>2, <1>3, <1>5, StartableStarts
<1> QED
  BY <1>4, <1>6

\* The check looks at the newest generation while it is open.
LEMMA CheckedStarts ==
    ASSUME OneInv, NEW n, n = Len(gens), n > 0, First(gens[n]), NEW cut, NEW old,
           gate \notin {"held", "quiet"}, NEW r, r = Checked(cut, old)
    PROVE  BoardStarts(r[n]) /\ ~r[n].statistics /\ Len(r) = n
<1> DEFINE g == gens[n]
           b == Settled(cut, old)
           c == Put(gens, n, b)
           army == TRUE
           d == TryEnqueue(c, n, army, saved, gate)
           e == Retried(d[n], gate)
<1>1. /\ n \in 1 .. Len(gens) /\ Sound(gens, corrections, saved) /\ GenOK(g, saved) /\ First(g)
      /\ gens \in Seq(Generation)
      /\ saved.day \in [Players -> Nat] /\ saved.decodes \in [Players -> Nat]
  BY DEF OneInv, Sound
<1>2. /\ r = Put(d, n, e) /\ b = Settled(cut, old) /\ c = Put(gens, n, b) /\ e = Retried(d[n], gate)
      /\ d = TryEnqueue(c, n, army, saved, gate) /\ g = gens[n]
  BY DEF Checked, Tried, First, Open, Unfinished
<1> HIDE DEF g, b, c, d, e, army
<1>3. GenOK(b, saved) /\ Alike(g, b) /\ b.affected = {} /\ b.ranked = None /\ b.read = g.read
  <2> DEFINE a == Rechecked(g, saved, old)
  <2>1. a = Rechecked(g, saved, old) /\ b = SettledWaiting(a, gens, saved, failed, cut)
    BY <1>2 DEF Settled
  <2> HIDE DEF a
  <2>2. Remembered(g, a, saved)
    BY <1>1, <2>1, RecheckedOK
  <2>3. GenOK(a, saved) /\ Alike(g, a)
    BY <1>1, <2>2, RememberedOK
  <2>4. Remembered(a, b, saved)
    BY <1>1, <2>1, <2>3, SettledWaitingOK
  <2>5. GenOK(b, saved) /\ Alike(a, b)
    BY <2>3, <2>4, RememberedOK
  <2>6. a \in Generation /\ g \in Generation
    BY <1>1, <2>3 DEF GenOK, GenBody
  <2>7. a.affected = g.affected /\ a.ranked = g.ranked /\ a.read = g.read
    BY <2>2, <2>6 DEF Remembered, Generation
  <2>8. b.affected = a.affected /\ b.ranked = a.ranked /\ b.read = a.read
    BY <2>4, <2>6 DEF Remembered, Generation
  <2> QED BY <1>1, <2>3, <2>5, <2>7, <2>8 DEF Alike, First
<1>4. First(b)
  BY <1>1, <1>3 DEF First, Open, Frozen, Alike
<1>5. Sound(c, corrections, saved) /\ Len(c) = n /\ c[n] = b
  <2>1. Sound(c, corrections, saved) /\ Len(c) = Len(gens)
    BY <1>1, <1>2, <1>3, AlikeSound
  <2>2. c[n] = b
    BY <1>1, <1>2 DEF Put
  <2> QED BY <2>1, <2>2
<1>6. BoardStarts(d[n])
  BY <1>2, <1>4, <1>5, EnqueueStarts
<1>7. Sound(d, corrections, saved) /\ Len(d) = n /\ d \in Seq(Generation) /\ n \in 1 .. Len(d)
  <2>1. n \in 1 .. Len(c)
    BY <1>1, <1>5
  <2>2. Sound(d, corrections, saved) /\ Len(d) = n
    BY <1>2, <1>5, <2>1, EnqueueSound
  <2> QED BY <1>1, <2>2 DEF Sound
<1>8. d[n].statistics = FALSE
  <2>1. PICK a, h :
          /\ Enqueues(a, h, saved)
          /\ a = c[n] \/ (n > 1 /\ Inherits(c[n], a, c[n - 1]))
          /\ TryEnqueue(c, n, army, saved, gate) = [c EXCEPT ![n] = h]
    <3>1. n \in 1 .. Len(c)
      BY <1>1, <1>5
    <3> QED BY <1>5, <3>1, TryEnqueueOK
  <2>2. a = b /\ d[n] = h
    <3>1. c \in Seq(Generation) /\ n \in 1 .. Len(c)
      BY <1>1, <1>5 DEF Sound
    <3> QED BY <1>2, <1>4, <1>5, <2>1, <3>1 DEF Inherits, ToInherit, First
  <2>3. b.statistics = FALSE
    BY <1>3, <1>4 DEF GenOK, GenBody, Ended, First, Open, Generation
  <2> QED BY <2>1, <2>2, <2>3 DEF Enqueues
<1>9. e.members = d[n].members /\ e.ranked = d[n].ranked /\ e.statistics = d[n].statistics
  <2>1. d[n] \in Generation
    BY <1>7
  <2> QED BY <1>2, <2>1 DEF Retried, Generation
<1>10. r[n] = e /\ Len(r) = n
  BY <1>2, <1>7 DEF Put
<1> QED
  BY <1>6, <1>8, <1>9, <1>10 DEF BoardStarts, Waiting

\* While results share the lock the newest generation is open, and more wait for theirs
\* than the transactions that share it can bring.
SharingOK ==
    (\E tx \in sharing : tx.kind # "early") =>
        LET n == Len(gens)
        IN  /\ n > 0 /\ Open(gens[n])
            /\ Cardinality(Waiting(gens[n])) > OpenTail - Lanes + Cardinality(sharing)

\* The inductive invariant of SharedLockHolds.
LockInv == ResultsInv /\ SharingOK

LEMMA NewestIsFirst ==
    ASSUME ResultsInv, NEW n, n = Len(gens), n > 0, Open(gens[n])
    PROVE  First(gens[n])
<1>1. Sound(gens, corrections, saved) /\ FrozenOK(gens[n], saved)
  <2>1. Sound(gens, corrections, saved) /\ Known(gens, corrections, saved, {}, {}, Out)
    BY DEF ResultsInv, OneInv
  <2>2. n \in 1 .. Len(gens)
    BY <2>1 DEF Sound
  <2> QED BY <2>1, <2>2 DEF Known
<1> QED
  BY <1>1, OpenIsFirst

\* A set of waiting players is finite.
LEMMA WaitingFinite ==
    ASSUME NEW f, NEW g, GenOK(g, f)
    PROVE  IsFiniteSet(Waiting(g)) /\ Cardinality(Waiting(g)) \in Nat
<1>1. Waiting(g) \subseteq Players
  BY DEF GenOK, GenBody, Generation, Members, Waiting
<1>2. IsFiniteSet(Players)
  BY ResetConstants
<1> QED
  BY <1>1, <1>2, FS_Subset, FS_CardinalityType

\* One result less to wait for at most.
LEMMA OneLessWaits ==
    ASSUME NEW f, NEW g, GenOK(g, f), NEW s, NEW h, GenOK(h, s), NEW p, Waiting(g) \ {p} \subseteq Waiting(h)
    PROVE  Cardinality(Waiting(h)) >= Cardinality(Waiting(g)) - 1
<1> DEFINE V == Waiting(g)
           W == Waiting(h)
<1>1. IsFiniteSet(V) /\ IsFiniteSet(W) /\ Cardinality(V) \in Nat /\ Cardinality(W) \in Nat
  BY WaitingFinite
<1>2. V \ {p} \subseteq W
  OBVIOUS
<1> HIDE DEF V, W
<1>3. Cardinality(V \ {p}) \in {Cardinality(V), Cardinality(V) - 1}
  BY <1>1, FS_RemoveElement
<1>4. Cardinality(V \ {p}) <= Cardinality(W)
  BY <1>1, <1>2, FS_Subset
<1>5. Cardinality(W) >= Cardinality(V) - 1
  BY <1>1, <1>3, <1>4
<1> QED
  BY <1>5 DEF V, W

\* What a transaction that shared the lock finds and leaves of the newest generation.
LEMMA CommitLeaves ==
    ASSUME LockInv, NEW kind \in Kinds, NEW p \in Players, Commit(kind, p),
           NEW n, n = Len(gens)
    PROVE  /\ n \in Nat /\ n > 0 /\ Len(gens') = n /\ Open(gens'[n])
           /\ Cardinality(sharing) \in Nat /\ Cardinality(sharing) > 0
           /\ Cardinality(sharing') = Cardinality(sharing) - 1
           /\ Cardinality(Waiting(gens[n])) \in Nat /\ Cardinality(Waiting(gens'[n])) \in Nat
           /\ Cardinality(Waiting(gens[n])) > OpenTail - Lanes + Cardinality(sharing)
           /\ Cardinality(Waiting(gens'[n])) >= Cardinality(Waiting(gens[n])) - 1
<1> DEFINE tx == [kind |-> kind, player |-> p]
           no == FALSE
           pub == Recorded(kind, p, no)
           f == Saved(kind, p)
           g == gens[n]
           h == gens'[n]
<1>1. tx \in sharing /\ tx.kind # "early" /\ sharing' = sharing \ {tx}
  BY DEF Commit, Kinds
<1>2. n > 0 /\ Open(g) /\ Cardinality(Waiting(g)) > OpenTail - Lanes + Cardinality(sharing)
  BY <1>1 DEF LockInv, SharingOK
<1>3. /\ n \in Nat /\ n \in 1 .. Len(gens) /\ OneInv /\ Sound(gens, corrections, saved)
      /\ GenOK(g, saved) /\ IsFiniteSet(sharing)
  BY <1>2 DEF LockInv, ResultsInv, OneInv, Sound
<1>4. /\ Cardinality(sharing) \in Nat /\ Cardinality(sharing) > 0
      /\ Cardinality(sharing') = Cardinality(sharing) - 1
  <2>1. Cardinality(sharing) \in Nat /\ sharing # {}
    BY <1>1, <1>3, FS_CardinalityType
  <2>2. Cardinality(sharing) # 0
    BY <1>3, <2>1, FS_EmptySet
  <2>3. Cardinality(sharing \ {tx}) = Cardinality(sharing) - 1
    BY <1>1, <1>3, FS_RemoveElement
  <2> QED BY <1>1, <2>1, <2>2, <2>3
<1>5. gens' = gens \/ gens' = pub.gens
  BY DEF Commit, Written, publication
<1>6. pub = Recorded(kind, p, no) /\ f = Saved(kind, p) /\ g = gens[n] /\ h = gens'[n] /\ no \in BOOLEAN
  OBVIOUS
<1>10. ~no
  OBVIOUS
<1> HIDE DEF tx, no, pub, f, g, h
<1>7. First(g)
  BY <1>2, <1>6, NewestIsFirst DEF LockInv
<1>8. pub.gens = gens \/ Passed(gens, corrections, f, p, no, gate, pub.gens)
  BY <1>2, <1>3, <1>6, <1>7, RecordedStays
<1>9. Len(gens') = n /\ Open(h) /\ Waiting(g) \ {p} \subseteq Waiting(h) /\ \E s : GenOK(h, s)
  <2>1. CASE gens' = gens
    BY <1>2, <1>3, <1>6, <2>1
  <2>2. CASE Passed(gens, corrections, f, p, no, gate, gens')
    <3>1. PICK next : /\ Sound(next, corrections, f) /\ Len(next) = Len(gens)
                      /\ Stays(gens[Len(gens)], next[Len(gens)], p)
                      /\ gens' = IF no THEN TryEnqueue(next, Len(gens), FALSE, f, gate) ELSE next
      BY <2>2 DEF Passed
    <3>2. gens' = next
      BY <1>10, <3>1
    <3>3. GenOK(h, f)
      BY <1>3, <1>6, <3>1, <3>2 DEF Sound
    <3> QED BY <1>6, <3>1, <3>2, <3>3 DEF Stays, First
  <2> QED BY <1>5, <1>8, <2>1, <2>2
<1>11. Cardinality(Waiting(h)) >= Cardinality(Waiting(g)) - 1
  <2>1. PICK s : GenOK(h, s)
    BY <1>9
  <2> QED BY <1>3, <1>9, <2>1, OneLessWaits
<1>12. Cardinality(Waiting(g)) \in Nat /\ Cardinality(Waiting(h)) \in Nat
  BY <1>3, <1>9, WaitingFinite
<1> QED
  BY <1>2, <1>3, <1>4, <1>6, <1>9, <1>11, <1>12

\* A failed build changes neither who waits nor whether the generation is open.
LEMMA FailBuildLeaves ==
    ASSUME NEW n, n = Len(gens), gens \in Seq(Generation), n > 0,
           NEW i \in 1 .. Len(gens), FailBuild(i)
    PROVE  /\ Len(gens') = n /\ Waiting(gens'[n]) = Waiting(gens[n])
           /\ Open(gens[n]) => Open(gens'[n])
<1>1. PICK kind : gens' = [gens EXCEPT ![i].failed = @ \cup {kind}]
  BY DEF FailBuild
<1>2. n \in 1 .. Len(gens) /\ gens[n] \in Generation /\ Len(gens') = n
  BY <1>1
<1>3. /\ gens'[n].members = gens[n].members /\ gens'[n].snap = gens[n].snap
      /\ gens'[n].army = gens[n].army /\ gens'[n].corr = gens[n].corr
      /\ gens'[n].ranked = gens[n].ranked /\ gens'[n].read = gens[n].read
  BY <1>1, <1>2 DEF Generation
<1> QED
  BY <1>2, <1>3 DEF Waiting, Open, Frozen

\* Who shares the lock, and the newest generation, are left alone, or nobody shares it.
LEMMA StepShares ==
    ASSUME LockInv, Next, BeforeFirst'
    PROVE  SharingOK'
<1> DEFINE n == Len(gens)
<1>1. /\ OneInv /\ BeforeFirst /\ Sound(gens, corrections, saved) /\ gens \in Seq(Generation)
      /\ n \in Nat /\ IsFiniteSet(sharing) /\ OpenTail \in Nat /\ Lanes \in Nat
      /\ sharing \subseteq Transactions /\ Cardinality(sharing) \in Nat /\ SharingOK
  BY ResetConstants, FS_CardinalityType DEF LockInv, ResultsInv, OneInv, Sound
<1>2. SUFFICES ASSUME NEW tx \in sharing', tx.kind # "early"
      PROVE  /\ Len(gens') > 0 /\ Open(gens'[Len(gens')])
             /\ Cardinality(Waiting(gens'[Len(gens')])) > OpenTail - Lanes + Cardinality(sharing')
  BY DEF SharingOK
<1> DEFINE Goal == /\ Len(gens') > 0 /\ Open(gens'[Len(gens')])
                   /\ Cardinality(Waiting(gens'[Len(gens')])) > OpenTail - Lanes + Cardinality(sharing')
<1>3. SUFFICES Goal
  OBVIOUS
<1> HIDE DEF n
<1>4. ASSUME sharing' \subseteq sharing, gens' = gens  PROVE Goal
  <2>1. /\ n > 0 /\ Open(gens[n]) /\ Cardinality(Waiting(gens[n])) > OpenTail - Lanes + Cardinality(sharing)
    BY <1>1, <1>2, <1>4 DEF SharingOK, n
  <2>2. Cardinality(sharing') <= Cardinality(sharing) /\ Cardinality(sharing') \in Nat
    BY <1>1, <1>4, FS_Subset, FS_CardinalityType
  <2>3. Cardinality(Waiting(gens[n])) \in Nat
    <3>1. n \in 1 .. Len(gens)
      BY <1>1, <2>1 DEF n
    <3> QED BY <1>1, <3>1, WaitingFinite DEF Sound
  <2> QED BY <1>1, <1>4, <2>1, <2>2, <2>3 DEF n
<1>5. ASSUME NEW p \in Players, StartEarlier(p)  PROVE Goal
  <2>1. sharing' = sharing \cup {[kind |-> "early", player |-> p]} /\ gens = <<>>
    BY <1>1, <1>5 DEF StartEarlier, OneInv
  <2> QED BY <1>1, <1>2, <2>1 DEF BeforeFirst
<1>6. ASSUME NEW kind \in Kinds, NEW p \in Players, Start(kind, p)  PROVE Goal
  <2>1. /\ MayShare(gens) /\ gens' = gens /\ Cardinality(sharing) < Lanes
        /\ sharing' = sharing \cup {[kind |-> kind, player |-> p]}
    BY <1>6 DEF Start, publication
  <2>2. Current(gens) = n
    BY <1>1, CurrentIsNewest DEF n
  <2>3. n > 0 /\ Open(gens[n]) /\ Cardinality(Waiting(gens[n])) > OpenTail
    BY <1>1, <2>1, <2>2 DEF MayShare
  <2>4. [kind |-> kind, player |-> p] \in Transactions
    BY DEF Transactions
  <2>5. Cardinality(sharing') <= Lanes /\ IsFiniteSet(sharing')
    BY <1>1, <2>1, <2>4, SharingGrows
  <2>6. Cardinality(sharing') \in Nat
    BY <2>5, FS_CardinalityType
  <2>7. Cardinality(Waiting(gens[n])) \in Nat
    <3>1. n \in 1 .. Len(gens)
      BY <1>1, <2>3 DEF n
    <3> QED BY <1>1, <3>1, WaitingFinite DEF Sound
  <2> QED BY <1>1, <2>1, <2>3, <2>5, <2>6, <2>7 DEF n
<1>7. ASSUME NEW kind \in Kinds, NEW p \in Players, Commit(kind, p)  PROVE Goal
  <2>1. n = Len(gens)
    BY DEF n
  <2>2. /\ n > 0 /\ Len(gens') = n /\ Open(gens'[n])
        /\ Cardinality(sharing') = Cardinality(sharing) - 1
        /\ Cardinality(Waiting(gens[n])) \in Nat /\ Cardinality(Waiting(gens'[n])) \in Nat
        /\ Cardinality(Waiting(gens[n])) > OpenTail - Lanes + Cardinality(sharing)
        /\ Cardinality(Waiting(gens'[n])) >= Cardinality(Waiting(gens[n])) - 1
    BY <1>7, <2>1, CommitLeaves
  <2> QED BY <1>1, <2>2
<1>8. ASSUME NEW i \in 1 .. Len(gens), FailBuild(i)  PROVE Goal
  <2>1. sharing' = sharing
    BY <1>8 DEF FailBuild
  <2>2. /\ n > 0 /\ Open(gens[n]) /\ Cardinality(Waiting(gens[n])) > OpenTail - Lanes + Cardinality(sharing)
    BY <1>1, <1>2, <2>1 DEF SharingOK, n
  <2>3. n = Len(gens)
    BY DEF n
  <2>4. Len(gens') = n /\ Waiting(gens'[n]) = Waiting(gens[n]) /\ Open(gens'[n])
    BY <1>1, <1>8, <2>2, <2>3, FailBuildLeaves
  <2> QED BY <2>1, <2>2, <2>4
<1>9. ASSUME \/ \E kind \in Kinds, p \in Players : Full(kind, p)
             \/ \E i \in 1 .. Len(gens) : BuildBoard(i) \/ BuildStatistics(i) \/ BuildArmies(i)
             \/ \E cut, old \in BOOLEAN : Reevaluate(cut, old)
      PROVE  Goal
  <2>1. sharing = {} /\ sharing' = sharing
    BY <1>9 DEF Full, FullLock, Unshared, BuildBoard, BuildStatistics, BuildArmies, Reevaluate
  <2> QED BY <1>2, <2>1
<1>10. ASSUME \/ Sweep \/ QueueRebuild \/ QueueArmyCorrection \/ Release
              \/ \E p \in Players : SaveEarlier(p) \/ CommitEarlier(p) \/ Change(p) \/ FailDay(p)
              \/ \E t \in Gates : Hold(t)
       PROVE  Goal
  <2>1. sharing' \subseteq sharing /\ gens' = gens
    BY <1>10 DEF Sweep, SaveEarlier, CommitEarlier, Change, FailDay, QueueRebuild, QueueArmyCorrection,
                Hold, Release, publication
  <2> QED BY <1>4, <2>1
<1> HIDE DEF Goal
<1> QED
  BY <1>5, <1>6, <1>7, <1>8, <1>9, <1>10 DEF Next

\* The result that leaves nobody waiting starts the board, unless it is held.
LEMMA FullStarts ==
    ASSUME ResultsInv, NEW n, n = Len(gens), n > 0, First(gens[n]), gate \notin {"held", "quiet"},
           NEW kind \in Kinds, NEW p \in Players, Full(kind, p)
    PROVE  gens' = gens \/ BoardStarts(gens'[n])
<1> DEFINE yes == TRUE
           no == FALSE
           pub == Recorded(kind, p, yes)
           f == Saved(kind, p)
<1>1. OneInv /\ n \in Nat
  BY DEF ResultsInv, OneInv, Sound
<1>2. gens' = pub.gens /\ pub = Recorded(kind, p, yes) /\ yes \in BOOLEAN /\ yes
  BY DEF Full, Written
<1> HIDE DEF yes, pub
<1>3. pub.gens = gens \/ Passed(gens, corrections, f, p, yes, gate, pub.gens)
  BY <1>1, <1>2, RecordedStays
<1>4. CASE Passed(gens, corrections, f, p, yes, gate, gens')
  <2>1. PICK next : /\ Sound(next, corrections, f) /\ Len(next) = Len(gens)
                    /\ Stays(gens[Len(gens)], next[Len(gens)], p)
                    /\ gens' = IF yes THEN TryEnqueue(next, Len(gens), no, f, gate) ELSE next
    BY <1>4 DEF Passed
  <2>2. gens' = TryEnqueue(next, n, no, f, gate) /\ n = Len(next) /\ First(next[n])
    BY <1>2, <2>1 DEF Stays
  <2> HIDE DEF no, f
  <2>3. BoardStarts(gens'[n])
    BY <2>1, <2>2, EnqueueStarts
  <2> QED BY <2>3
<1> QED
  BY <1>2, <1>3, <1>4

LEMMA ReevaluateStarts ==
    ASSUME ResultsInv, NEW n, n = Len(gens), n > 0, First(gens[n]), gate \notin {"held", "quiet"},
           NEW cut, NEW old, Reevaluate(cut, old)
    PROVE  BoardStarts(gens'[n])
<1> DEFINE checked == Checked(cut, old)
<1>1. OneInv /\ checked = Checked(cut, old)
  BY DEF ResultsInv
<1> HIDE DEF checked
<1>2. BoardStarts(checked[n]) /\ ~checked[n].statistics
  BY <1>1, CheckedStarts
<1>3. Reevaluated(n, checked, gens', corrections')
  BY <1>1, ReevaluateDoes
<1>4. Emit(checked, corrections, n, TRUE, saved, gate).gens = checked
  BY <1>2 DEF Emit
<1> QED
  BY <1>2, <1>3, <1>4 DEF Reevaluated

LEMMA StepStarts == LockInv /\ Next => LastResultStartsBuild
<1> DEFINE n == Len(gens)
<1>1. SUFFICES ASSUME LockInv, Next, Current(gens) # 0, Open(gens[Current(gens)]),
                      Waiting(gens[Current(gens)]) # {}, Waiting(gens'[Current(gens)]) = {},
                      gate \in {"open", "paced"}
               PROVE  gens'[Current(gens)].ranked # None
  BY DEF LastResultStartsBuild
<1>2. /\ ResultsInv /\ Sound(gens, corrections, saved) /\ gens \in Seq(Generation)
      /\ n \in Nat /\ n = Len(gens) /\ OpenTail \in Nat /\ Lanes \in Nat /\ Lanes <= OpenTail
  BY <1>1, ResetConstants DEF LockInv, ResultsInv, OneInv, Sound
<1> HIDE DEF n
<1>3. Current(gens) = n /\ n > 0
  BY <1>1, <1>2, CurrentIsNewest
<1>4. /\ n \in 1 .. Len(gens) /\ First(gens[n]) /\ Open(gens[n]) /\ gate \notin {"held", "quiet"}
      /\ Waiting(gens[n]) # {} /\ Waiting(gens'[n]) = {}
  BY <1>1, <1>2, <1>3, NewestIsFirst
<1>5. gens' # gens
  BY <1>4
<1>6. SUFFICES gens'[n].ranked # None
  BY <1>3
<1>7. ASSUME NEW kind \in Kinds, NEW p \in Players, Commit(kind, p)  PROVE FALSE
  <2>1. /\ Cardinality(sharing) \in Nat /\ Cardinality(sharing) > 0
        /\ Cardinality(Waiting(gens[n])) \in Nat /\ Cardinality(Waiting(gens'[n])) \in Nat
        /\ Cardinality(Waiting(gens[n])) > OpenTail - Lanes + Cardinality(sharing)
        /\ Cardinality(Waiting(gens'[n])) >= Cardinality(Waiting(gens[n])) - 1
    BY <1>1, <1>2, <1>7, CommitLeaves
  <2>2. Cardinality(Waiting(gens'[n])) > 0
    BY <1>2, <2>1
  <2> QED BY <1>4, <2>2, FS_EmptySet
<1>8. ASSUME NEW kind \in Kinds, NEW p \in Players, Full(kind, p)  PROVE gens'[n].ranked # None
  BY <1>2, <1>3, <1>4, <1>5, <1>8, FullStarts DEF BoardStarts
<1>9. ASSUME NEW cut, NEW old, Reevaluate(cut, old)  PROVE gens'[n].ranked # None
  BY <1>2, <1>3, <1>4, <1>9, ReevaluateStarts DEF BoardStarts
<1>10. ASSUME NEW i \in 1 .. Len(gens), FailBuild(i)  PROVE FALSE
  BY <1>2, <1>3, <1>4, <1>10, FailBuildLeaves
<1>11. ASSUME NEW i \in 1 .. Len(gens), BuildBoard(i) \/ BuildStatistics(i) \/ BuildArmies(i)
       PROVE  FALSE
  <2>1. gens[i].snap \in {"ready", "building"} \/ gens[i].army = "ready"
    BY <1>11 DEF BuildBoard, BuildStatistics, BuildArmies
  <2>2. i = n
    BY <1>2, <2>1, BuildsNewest DEF Ended
  <2> QED BY <1>4, <2>1, <2>2 DEF Open
<1>12. ASSUME \/ Sweep \/ QueueRebuild \/ QueueArmyCorrection \/ Release
              \/ \E p \in Players : SaveEarlier(p) \/ StartEarlier(p) \/ CommitEarlier(p)
              \/ \E p \in Players : Change(p) \/ FailDay(p)
              \/ \E kind \in Kinds, p \in Players : Start(kind, p)
              \/ \E t \in Gates : Hold(t)
       PROVE  gens' = gens
  BY <1>12 DEF Sweep, SaveEarlier, StartEarlier, CommitEarlier, Change, FailDay, Start, QueueRebuild,
               QueueArmyCorrection, Hold, Release, publication
<1> QED
  BY <1>1, <1>5, <1>7, <1>8, <1>9, <1>10, <1>11, <1>12 DEF Next

LEMMA NextLock == LockInv /\ [Next]_vars => LockInv'
<1>1. ASSUME LockInv, [Next]_vars  PROVE LockInv'
  <2>1. ResultsInv' /\ BeforeFirst'
    BY <1>1, NextResults DEF LockInv, ResultsInv
  <2>2. CASE Next
    BY <1>1, <2>1, <2>2, StepShares DEF LockInv
  <2>3. CASE UNCHANGED vars
    <3>1. gens' = gens /\ sharing' = sharing
      BY <2>3 DEF vars, publication
    <3> QED BY <1>1, <2>1, <3>1 DEF LockInv, SharingOK
  <2> QED BY <1>1, <2>2, <2>3
<1> QED
  BY <1>1

LEMMA LockSeesOpen == LockInv => SharedSeesOpen
<1>1. ASSUME LockInv  PROVE Current(gens) = Len(gens) /\ SharingOK
  BY <1>1, CurrentIsNewest DEF LockInv, ResultsInv, OneInv
<1> QED
  BY <1>1 DEF SharedSeesOpen, SharingOK

\* Results may share the lock: none meets a generation that is no longer open, and the
\* last of them starts the build although none saw itself as the last.
THEOREM SharedLockIsSafe == Spec => SharedLockHolds
<1>1. Init => LockInv
  <2>1. Init => sharing = {}
    BY DEF Init
  <2> QED BY <2>1, InitResults DEF LockInv, SharingOK
<1>2. LockInv /\ [Next]_vars => LockInv'
  BY NextLock
<1>3. LockInv /\ [Next]_vars => [SharedSeesOpen' /\ LastResultStartsBuild]_vars
  <2>1. ASSUME LockInv, Next  PROVE SharedSeesOpen' /\ LastResultStartsBuild
    <3>1. LockInv'
      BY <2>1, NextLock
    <3>2. LockInv' => SharedSeesOpen'
      BY LockSeesOpen, PTL
    <3> QED BY <2>1, <3>1, <3>2, StepStarts
  <2> QED BY <2>1
<1> QED
  BY <1>1, <1>2, <1>3, PTL DEF Spec, SharedLockHolds
=============================================================================
