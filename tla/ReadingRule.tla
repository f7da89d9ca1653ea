---------------------------- MODULE ReadingRule ----------------------------
(***************************************************************************)
(* One rule for every profile reading of a Legend day (reading_rule.py):   *)
(* in which ways a reading fits the ledger at its time, which of those can *)
(* follow the readings before it, and what the readings decide together.   *)
(*                                                                         *)
(* A way is the automatic loss a reading shows, whether it shows the weekly *)
(* raise, and the battles whose credit it shows.  The ledger's battles are *)
(* of the ended day or of the day after; a battle shows within [from,      *)
(* until], an attack possibly later.                                       *)
(***************************************************************************)
EXTENDS Integers, Sequences, FiniteSets, FiniteSetsExt, SequencesExt

CONSTANTS
    StaleLag,       \* STALE_READING_LAG
    ReadingsFrom,   \* DAY_READINGS_FROM
    MaxAmbiguous    \* MAX_AMBIGUOUS_BATTLES

\* judge's arguments: the end before the loss, the losses a reading may show
\* and whether one is certain, the battles, the floor of the raise (0: none).
Ledger(base, losses, certain, battles, floor) ==
    [base |-> base, losses |-> losses \ {0}, certain |-> certain,
     battles |-> battles, floor |-> floor]

SumOf(B) == MapThenSumSet(LAMBDA b : b.change, B)
OfDay(B) == {b \in B : b.ended}
Largest(S) == IF S = {} THEN 0 ELSE Max(S)

-----------------------------------------------------------------------------
(* judge                                                                   *)

Landed(L, at) == {b \in L.battles : b.until <= at}
InFlight(L, at) == {b \in L.battles : b.from <= at /\ at < b.until}

\* The runs of latest landed attacks whose credit a late profile may lack.
Runs(L, at) ==
    LET attacks == {b \in Landed(L, at) : b.change > 0}
    IN  {R \in SUBSET attacks : \A a \in R, b \in attacks \ R : b.from <= a.from}

\* The total a reading shows with these battles credited, raised or not.
Shown(L, credited, loss, raised) ==
    LET ended == L.base - SumOf(OfDay(L.battles \ credited)) - loss
    IN  (IF raised THEN Max({ended, L.floor}) ELSE ended) + SumOf(credited \ OfDay(credited))

Ways(L, at, trophies) ==
    {w \in [loss : L.losses \cup {0}, raised : IF L.floor = 0 THEN {FALSE} ELSE BOOLEAN,
            shown : {(Landed(L, at) \ R) \cup X : R \in Runs(L, at), X \in SUBSET InFlight(L, at)}] :
        trophies = Shown(L, w.shown, w.loss, w.raised)}

Late(L, at, w) == Landed(L, at) \ w.shown
LossesOf(ways) == {w.loss : w \in ways}

\* The way tried first: no late credit, few battles in flight read against
\* their day, no loss.
FirstWay(L, at, ways) ==
    LET order(w) == <<Cardinality(Late(L, at, w)),
                      Cardinality({b \in InFlight(L, at) : b.ended # (b \in w.shown)}), w.loss>>
        before(v, w) == \E i \in 1 .. 3 : /\ order(v)[i] < order(w)[i]
                                          /\ \A j \in 1 .. i - 1 : order(v)[j] = order(w)[j]
    IN  CHOOSE w \in ways : \A v \in ways : ~before(v, w)

\* A total the timeline showed just before a battle that has landed since, no
\* longer than StaleLag ago; before the Reset without loss or raise.
IsStale(L, r) ==
    \E b \in Landed(L, r.at) :
        LET earlier == IF b.ended THEN [L EXCEPT !.losses = {}, !.floor = 0] ELSE L
        IN  /\ r.at <= b.from + StaleLag
            /\ Cardinality(InFlight(earlier, b.from - 1)) <= MaxAmbiguous
            /\ \E w \in Ways(earlier, b.from - 1, r.trophies) : Late(earlier, b.from - 1, w) = {}

\* What a reading with these ways shows, of which "first" is tried first.
JudgedBy(L, r, ways, first) ==
    LET matched == ways # {}
    IN  [reading |-> r, ways |-> ways,
         lagged |-> matched /\ Late(L, r.at, first) # {},
         ambiguous |-> InFlight(L, r.at) # {} \/ (matched /\ Late(L, r.at, first) # {}),
         missed |-> matched /\ OfDay(L.battles \ first.shown) # {},
         loss |-> IF matched THEN first.loss ELSE 0,
         newDay |-> IF matched THEN SumOf(first.shown \ OfDay(first.shown)) ELSE 0]

\* What one reading shows; a reading with no way fits no value.
Judged(L, r) ==
    LET ways == Ways(L, r.at, r.trophies)
    IN  JudgedBy(L, r, ways, FirstWay(L, r.at, ways))

\* The readings that can be judged, in order; a stale one is set aside.
JudgedAll(L, readings, stale) ==
    LET usable(r) == /\ Cardinality(InFlight(L, r.at)) <= MaxAmbiguous
                     /\ (stale /\ Ways(L, r.at, r.trophies) = {}) => ~IsStale(L, r)
    IN  FoldLeft(LAMBDA acc, r : IF usable(r) THEN Append(acc, Judged(L, r)) ELSE acc,
                 <<>>, readings)

-----------------------------------------------------------------------------
(* _settle                                                                 *)

\* Mutant: a later reading shows the same loss, not a loss landed meanwhile.
FollowingSame(ways, before) ==
    IF before = {} THEN ways
    ELSE {w \in ways : \E b \in before : /\ w.loss = b.loss /\ (b.raised => w.raised)
                                         /\ b.shown \subseteq w.shown}

\* A loss landed, a raise applied and a credit shown stay so; {} knows nothing.
Following(ways, before) ==
    IF before = {} THEN ways
    ELSE {w \in ways : \E b \in before : /\ b.loss \in {0, w.loss} /\ (b.raised => w.raised)
                                         /\ b.shown \subseteq w.shown}

Narrowed(item, ways) ==
    [item EXCEPT !.ways = ways,
                 !.loss = IF @ \in LossesOf(ways) THEN @ ELSE Min(LossesOf(ways))]

\* The readings with the ways that can follow the reading before, up to the
\* first that has none.
Settle(judged, history) ==
    FoldLeft(LAMBDA acc, item :
                LET ways == Following(item.ways, acc.last)
                IN  IF acc.misfit THEN acc
                    ELSE IF ways = {} THEN [acc EXCEPT !.misfit = TRUE]
                    ELSE [acc EXCEPT !.last = ways, !.items = Append(@, Narrowed(item, ways))],
             [misfit |-> FALSE, last |-> history, items |-> <<>>], judged)

\* The ways of an untrusted reading after the last settled one before it.
WaysAfter(item, settled, history) ==
    LET before == {i \in DOMAIN settled : settled[i].reading.at <= item.reading.at}
    IN  Following(item.ways, IF before = {} THEN history ELSE settled[Max(before)].ways)

-----------------------------------------------------------------------------
(* contradiction_during_day: whether a reading fits nothing, the ways the  *)
(* last one left, and the total, if any, that shows the day's end.  To L,  *)
(* the day's battles are those of a new day.                               *)

ShownDuring(L, judged, settled) ==
    LET last == settled.items[Len(settled.items)]
        landed == Largest({b.until : b \in L.battles})
        showsEnd(i) == /\ i.reading.at >= landed /\ i.ways # {} /\ ~i.ambiguous /\ ~i.missed
                       /\ Cardinality(LossesOf(i.ways)) = 1
        confirming == {i \in judged : /\ i.reading.trust = "season 0"
                                      /\ WaysAfter(i, settled.items, {}) # {}
                                      /\ showsEnd(Narrowed(i, WaysAfter(i, settled.items, {})))}
        proofs == LET trusted == {i \in ToSet(settled.items) : showsEnd(i)}
                  IN  IF trusted = {} THEN confirming ELSE trusted
        latest == {i \in proofs : \A j \in proofs : j.reading.at <= i.reading.at}
    IN  [misfit |-> settled.misfit,
         history |-> IF settled.items = <<>> THEN {}
                     ELSE {[loss |-> 0, raised |-> FALSE,
                            shown |-> {[b EXCEPT !.ended = TRUE] : b \in w.shown}] : w \in last.ways},
         proof |-> IF settled.misfit THEN {} ELSE {i.reading.trophies : i \in latest}]

JudgedDuring(L, judged) ==
    ShownDuring(L, ToSet(judged), Settle(SelectSeq(judged, LAMBDA i : i.reading.trust # "season 0"), {}))

DuringDay(L, readings, dayEnd, stale) ==
    JudgedDuring(L, JudgedAll(L, SelectSeq(readings, LAMBDA r : ReadingsFrom <= r.at /\ r.at < dayEnd),
                              stale))

-----------------------------------------------------------------------------
(* decide                                                                  *)

\* Mutant: a reading that fits with and without the loss is clean.
CleanEitherLoss(L, item) ==
    /\ item.ways # {} /\ ~item.ambiguous /\ ~item.missed

Floored(L, item) == L.floor # 0 /\ L.floor \in {item.reading.trophies, item.reading.trophies - item.newDay}

\* A match with no battle in flight that shows one loss, and more than the floor.
Clean(L, item) ==
    /\ item.ways # {} /\ ~item.ambiguous /\ ~item.missed
    /\ Cardinality(LossesOf(item.ways)) = 1 /\ ~Floored(L, item)

OnlyLoss(item) == IF Cardinality(LossesOf(item.ways)) = 1 THEN item.loss ELSE 0

Verdict(outcome, loss, exact, clean) ==
    [outcome |-> outcome, loss |-> loss, exact |-> exact, clean |-> clean]

\* What an untrusted reading may confirm: one that no log covers, or that may
\* show a battle only its opponent reported, never shows a loss, and a Season 0
\* reading never that a possible loss did not land.
Confirming(L, item, unknown, settled, history) ==
    LET ways == WaysAfter(item, settled, history)
        possible == L.losses # {} /\ ~L.certain
    IN  IF item.reading.trust = "uncovered" \/ unknown
        THEN IF possible THEN {} ELSE {w \in ways : w.loss = 0}
        ELSE IF possible /\ \E w \in ways : w.loss = 0 THEN {} ELSE ways

\* The verdict of the readings from the end Reset on: those judged, and the
\* trusted ones settled one after another.
VerdictOf(L, judged, settled, confirmed, startProven, proof) ==
    LET items == ToSet(settled.items)
        shown == Largest({OnlyLoss(i) : i \in {j \in items : ~Floored(L, j)}})
        possible == L.losses # {} /\ ~L.certain
        lagged == \E i \in judged : i.lagged
        proven == ~possible /\ L.base \in proof
        clean(S) == {i \in S : Clean(L, i)}
        matches == IF clean(items) # {} THEN clean(items) ELSE clean(items \cup confirmed)
        loss == Largest({shown} \cup {i.loss : i \in matches})
        guesses == {i \in items \cup confirmed : i.ways # {} /\ ~Floored(L, i)}
        guess == CHOOSE i \in guesses : \A j \in guesses : i.reading.at <= j.reading.at
    IN  IF settled.misfit THEN Verdict("contradicted", 0, FALSE, FALSE)
        ELSE IF possible /\ \E i \in items : OnlyLoss(i) > shown
        THEN Verdict("unverified", 0, FALSE, FALSE)
        ELSE IF matches # {} \/ proven
        THEN Verdict("verified", loss, loss # 0 \/ ~L.certain, TRUE)
        ELSE IF guesses # {} /\ startProven /\ ~lagged
        THEN Verdict("verified", Largest({shown, OnlyLoss(guess)}), FALSE, FALSE)
        ELSE Verdict("unverified", 0, FALSE, FALSE)

\* "unknownFrom" is the first report of a battle only the opponent has (0:
\* none), "startProven" whether the day before was Complete.
JudgedVerdict(L, judged, unknownFrom, startProven, history, proof) ==
    LET unknown(i) == unknownFrom # 0 /\ i.reading.at >= unknownFrom
        trusted(i) == i.reading.trust = "full" /\ ~unknown(i)
        settled == Settle(SelectSeq(judged, trusted), history)
        confirmed == {Narrowed(i, Confirming(L, i, unknown(i), settled.items, history)) :
                        i \in {j \in ToSet(judged) : ~trusted(j) /\
                                 Confirming(L, j, unknown(j), settled.items, history) # {}}}
    IN  VerdictOf(L, ToSet(judged), settled, confirmed, startProven, proof)

Decide(L, readings, dayEnd, unknownFrom, startProven, history, proof, stale) ==
    JudgedVerdict(L, JudgedAll(L, SelectSeq(readings, LAMBDA r : r.at >= dayEnd), stale),
                  unknownFrom, startProven, history, proof)
=============================================================================
