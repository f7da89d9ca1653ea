------------------------- MODULE CollectorWorkProofs -------------------------
(***************************************************************************)
(* Proofs about CollectorWork for any players, Resets, retries and events. *)
(*                                                                         *)
(* Neither property is inductive.  That regular checks are held needs to   *)
(* know that no Reset is swept before its day (SweptByToday) and that only *)
(* a swept one has works (OnlySwept).  That a finished work has its        *)
(* answers needs to know what a run under way still lacks: an endpoint is  *)
(* left to it only while it is missing, and what is no longer left to a    *)
(* run with no failure so far is there (RunSound); and that no saved       *)
(* response waits, in a run or after a crash, that would replace an answer *)
(* complete evidence rests on (RowSound).                                  *)
(***************************************************************************)
EXTENDS CollectorWork, TLAPS

AnswerRow == [code : Answers \cup {"none"}, late : BOOLEAN,
              job : {"none", "queued", "done", "lost"}]
WorkRow ==
    [status : Statuses, profile : AnswerRow, log : AnswerRow, covers : BOOLEAN,
     evidence : {"none", "partial", "complete", "failed"},
     saved : [of : Endpoints \cup {"none"}, code : Answers \cup {"none"}, late : BOOLEAN],
     waits : BOOLEAN]
RunRow ==
    [at : {"idle", "finish"} \cup Endpoints, left : SUBSET Endpoints,
     try : 0 .. focus.attempts - 1, pass : BOOLEAN,
     out : SUBSET {"transient", "failed", "paused", "closed"}]

Typed ==
    /\ clock \in 0 .. focus.until /\ focus \in Focuses
    /\ DOMAIN members \subseteq Resets
    /\ \A r \in DOMAIN members : members[r] \subseteq Players
    /\ work \in [Works -> WorkRow] /\ run \in [Works -> RunRow]
    /\ tries \in [Works -> 0 .. Retries]
    /\ up \in BOOLEAN /\ outage \in BOOLEAN /\ regular \in {"none", "flying", "parked"}
    /\ events \in 0 .. focus.events /\ reopened \subseteq Works

SweptByToday == \A r \in Swept : r <= Today

\* Works and runs exist only for Resets already swept.
OnlySwept == \A w \in Works : w[1] \notin Swept => work[w] = NoWork /\ run[w] = NoRun

Held ==
    regular = "flying" =>
        \A r \in Swept, p \in Players :
            work[<<r, "pair", p>>].status \in Unfinished => <<r, "pair", p>> \in reopened

\* What a run asks an endpoint for is not there.
Missing(k, e) ==
    IF e = "profile" THEN ~Answered(k.profile)
    ELSE ~Answered(k.profile) \/ ~Answered(k.log) \/ ~k.covers

RowSound(k) ==
    /\ k.saved # NoSave => k.saved.of \in Endpoints /\ k.saved.code # "none" /\ Missing(k, k.saved.of)
    /\ k.status = "complete" =>
           k.saved = NoSave /\ k.covers /\ Answered(k.profile) /\ Answered(k.log)
    /\ (/\ k.covers /\ Answered(k.profile) /\ Answered(k.log)
        /\ k.profile.job = "done" /\ k.log.job = "done")
       => k.evidence \in {"complete", "failed"}
    /\ k.evidence = "complete" =>
           /\ k.covers /\ k.profile.code = "good" /\ k.log.code = "good"
           /\ ~k.profile.late /\ ~k.log.late

RunSound(k, x) ==
    /\ x.at = "idle" <=> x = NoRun
    /\ x.at # "idle" => x.at = First(x.left)
    /\ \A e \in x.left : Missing(k, e)
    /\ x.at # "idle" /\ k.saved # NoSave => k.saved.of = x.at
    /\ x.at # "idle" => k.status # "complete"
    /\ (x.at # "idle" /\ ~x.pass /\ x.out = {}) =>
           /\ "profile" \in x.left => "log" \in x.left
           /\ "profile" \notin x.left => Answered(k.profile)
           /\ "log" \notin x.left => Answered(k.log) /\ k.covers

IInv ==
    /\ Typed /\ SweptByToday /\ OnlySwept /\ Held
    /\ \A w \in Works : RowSound(work[w]) /\ RunSound(work[w], run[w])

-----------------------------------------------------------------------------
(* What the invariant says of the runs' properties *)

LEMMA InvariantSuffices == IInv => ChecksHeldDuringReset /\ EvidenceFollows
<1> SUFFICES ASSUME IInv PROVE ChecksHeldDuringReset /\ EvidenceFollows
  OBVIOUS
<1>1. TypeOK
  BY DEF IInv, Typed, TypeOK, WorkRow, RunRow, AnswerRow
<1>2. ChecksHeldDuringReset
  BY <1>1 DEF IInv, Held, ChecksHeldDuringReset
<1>3. ASSUME NEW w \in Works
      PROVE  /\ work[w].status = "complete" =>
                   work[w].covers /\ \A e \in Endpoints : Answered(work[w][e])
             /\ (/\ focus.judged /\ work[w].status = "complete"
                 /\ \A e \in Endpoints : work[w][e].job = "done")
                => work[w].evidence \in {"complete", "failed"}
             /\ work[w].evidence = "complete" =>
                   work[w].covers /\ \A e \in Endpoints : work[w][e].code = "good" /\ ~work[w][e].late
  BY DEF IInv, RowSound, Endpoints
<1> QED BY <1>2, <1>3 DEF EvidenceFollows

LEMMA EmptyRows ==
    ASSUME focus \in Focuses
    PROVE  /\ NoWork \in WorkRow /\ NoRun \in RunRow
           /\ RowSound(NoWork) /\ RunSound(NoWork, NoRun)
<1>1. 0 \in 0 .. focus.attempts - 1
  BY FocusesAreWorks
<1>2. NoRun \in RunRow
  BY <1>1 DEF NoRun, RunRow
<1>3. NoWork \in WorkRow /\ RowSound(NoWork) /\ RunSound(NoWork, NoRun)
  BY DEF NoWork, NoRun, NoAnswer, NoSave, WorkRow, AnswerRow, Statuses, RowSound, RunSound,
         Answered
<1> QED BY <1>2, <1>3

LEMMA InitIInv == Init => IInv
<1> SUFFICES ASSUME Init PROVE IInv
  OBVIOUS
<1>1. /\ focus \in Focuses /\ clock = 0 /\ DOMAIN members = {}
      /\ work = [w \in Works |-> NoWork] /\ run = [w \in Works |-> NoRun]
      /\ tries = [w \in Works |-> 0] /\ up = TRUE /\ outage = FALSE /\ events = 0 /\ reopened = {}
      /\ regular \in {"none", "flying"}
  BY DEF Init
<1>2. Typed
  <2>1. 0 \in 0 .. focus.until /\ 0 \in 0 .. focus.events /\ 0 \in 0 .. Retries
    BY <1>1, FocusesAreWorks, WorkConstants
  <2>2. /\ work \in [Works -> WorkRow] /\ run \in [Works -> RunRow]
        /\ tries \in [Works -> 0 .. Retries]
    BY <1>1, <2>1, EmptyRows
  <2> QED BY <1>1, <2>1, <2>2 DEF Typed
<1>3. SweptByToday /\ OnlySwept /\ Held
  BY <1>1 DEF SweptByToday, OnlySwept, Held, Swept
<1>4. \A w \in Works : RowSound(work[w]) /\ RunSound(work[w], run[w])
  BY <1>1, EmptyRows
<1> QED BY <1>2, <1>3, <1>4 DEF IInv

-----------------------------------------------------------------------------
(* Steps of one work *)

\* A step that writes the row and the run of one work of a swept Reset keeps the
\* invariant if they are sound and the work opens again only by an operator.
LEMMA OneWork ==
    ASSUME IInv, NEW w \in Works, NEW k \in WorkRow, NEW x \in RunRow,
           RowSound(k), RunSound(k, x), w[1] \in Swept,
           k.status \in Unfinished => work[w].status \in Unfinished \/ w \in reopened',
           work' = [work EXCEPT ![w] = k], run' = [run EXCEPT ![w] = x],
           tries' \in [Works -> 0 .. Retries], events' \in 0 .. focus.events,
           reopened \subseteq reopened', reopened' \subseteq Works,
           UNCHANGED <<focus, clock, members, up, regular, outage>>
    PROVE  IInv'
<1>1. Typed /\ SweptByToday /\ OnlySwept /\ Held
  BY DEF IInv
<1>2. Typed'
  BY <1>1 DEF Typed, RunRow
<1>3. SweptByToday' /\ OnlySwept'
  BY <1>1 DEF Typed, SweptByToday, OnlySwept, Swept, Today
<1>4. Held'
  <2> SUFFICES ASSUME regular = "flying", NEW r \in Swept, NEW p \in Players,
                      work'[<<r, "pair", p>>].status \in Unfinished
               PROVE  <<r, "pair", p>> \in reopened'
    BY DEF Held, Swept
  <2>1. <<r, "pair", p>> \in Works
    BY <1>1 DEF Typed, Swept, Works, Kinds
  <2>2. work[<<r, "pair", p>>].status \in Unfinished \/ <<r, "pair", p>> \in reopened'
    BY <1>1, <2>1 DEF Typed
  <2> QED BY <1>1, <2>2 DEF Held
<1>5. \A v \in Works : RowSound(work'[v]) /\ RunSound(work'[v], run'[v])
  BY <1>1 DEF IInv, Typed
<1> QED BY <1>2, <1>3, <1>4, <1>5 DEF IInv

\* Whoever has a row or a run belongs to a swept Reset.
LEMMA WorkIsSwept ==
    ASSUME IInv, NEW w \in Works,
           work[w].status # "none" \/ work[w].saved # NoSave \/ run[w].at # "idle"
               \/ \E e \in Endpoints : work[w][e].job # "none"
    PROVE  w[1] \in Swept
  BY DEF IInv, OnlySwept, NoWork, NoRun, NoAnswer, Endpoints

LEMMA NamesOfRows ==
    ASSUME NEW k \in WorkRow, NEW x \in RunRow
    PROVE  /\ k.profile \in AnswerRow /\ k.log \in AnswerRow
           /\ k.status \in Statuses /\ k.covers \in BOOLEAN
           /\ x.left \subseteq Endpoints /\ x.at \in {"idle", "finish"} \cup Endpoints
  BY DEF WorkRow, RunRow

LEMMA FirstLeft ==
    ASSUME NEW left \in SUBSET Endpoints
    PROVE  /\ First(left) \in {"finish"} \cup Endpoints
           /\ left = {} <=> First(left) = "finish"
           /\ left # {} => First(left) \in left
           /\ First(left) = "log" => "profile" \notin left
  BY DEF First, Endpoints

\* A run leaves its endpoint: what is left to it must still be missing from the row
\* as it is now, and the endpoint there if the run goes on without a failure.
LEMMA LeavesSound ==
    ASSUME focus \in Focuses, NEW k \in WorkRow, NEW new \in WorkRow, NEW x \in RunRow,
           NEW outcomes \in SUBSET {"transient", "failed", "paused", "closed"},
           RunSound(k, x), x.at \in Endpoints,
           new.saved = NoSave, new.status # "complete",
           \A e \in x.left \ {x.at} : Missing(new, e),
           (~x.pass /\ x.out = {} /\ outcomes = {}) =>
               /\ Answered(new.profile)
               /\ x.at = "log" => Answered(new.log) /\ new.covers
    PROVE  Leaves(x, outcomes) \in RunRow /\ RunSound(new, Leaves(x, outcomes))
<1> DEFINE y == Leaves(x, outcomes)
<1>1. x.left \ {x.at} \in SUBSET Endpoints
  BY DEF RunRow
<1>2. 0 \in 0 .. focus.attempts - 1
  BY FocusesAreWorks
<1>3. /\ y.left = x.left \ {x.at} /\ y.at = First(x.left \ {x.at}) /\ y.try = 0
      /\ y.out = x.out \cup outcomes /\ y.pass = x.pass /\ y \in RunRow
  BY <1>1, <1>2, FirstLeft DEF Leaves, RunRow
<1>4. y.at # "idle" /\ y # NoRun
  BY <1>1, <1>3, FirstLeft DEF NoRun, Endpoints
<1>5. ASSUME ~y.pass, y.out = {}
      PROVE  /\ "profile" \in y.left => "log" \in y.left
             /\ "profile" \notin y.left => Answered(new.profile)
             /\ "log" \notin y.left => Answered(new.log) /\ new.covers
  <2>1. ~x.pass /\ x.out = {} /\ outcomes = {}
    BY <1>3, <1>5
  <2>2. CASE x.at = "profile"
    <3>1. "profile" \in x.left
      BY <2>2, FirstLeft, NamesOfRows DEF RunSound
    <3>2. "log" \in x.left
      BY <2>1, <2>2, <3>1 DEF RunSound
    <3> QED BY <1>3, <2>1, <2>2, <3>2
  <2>3. CASE x.at = "log"
    <3>1. "profile" \notin x.left
      BY <2>3, FirstLeft, NamesOfRows DEF RunSound
    <3> QED BY <1>3, <2>1, <2>3, <3>1
  <2> QED BY <2>2, <2>3 DEF Endpoints
<1> HIDE DEF y
<1>6. RunSound(new, y)
  BY <1>3, <1>4, <1>5 DEF RunSound
<1> QED BY <1>3, <1>6 DEF y

LEMMA StartRunKeeps ==
    ASSUME IInv, NEW w \in Works, StartRun(w)
    PROVE  IInv'
<1> DEFINE k == work[w]
           x == [at |-> First(Owes(w)), left |-> Owes(w), try |-> 0, out |-> {},
                 pass |-> Owes(w) = {"profile"}]
<1>1. /\ Typed /\ work \in [Works -> WorkRow] /\ run \in [Works -> RunRow] /\ focus \in Focuses
      /\ k \in WorkRow /\ RowSound(k) /\ Due(w) /\ k.status \in Unfinished /\ k.saved = NoSave
  BY DEF IInv, Typed, StartRun, Due
<1>2. Owes(w) \in SUBSET Endpoints /\ 0 \in 0 .. focus.attempts - 1
  BY <1>1, FocusesAreWorks DEF Owes
<1>3. x \in RunRow /\ x.at # "idle"
  BY <1>2, FirstLeft DEF RunRow, Endpoints
<1>4. \A e \in Owes(w) : Missing(k, e)
  BY DEF Owes, Missing
<1>5. ASSUME Owes(w) # {"profile"}
      PROVE  /\ "profile" \in Owes(w) => "log" \in Owes(w)
             /\ "profile" \notin Owes(w) => Answered(k.profile)
             /\ "log" \notin Owes(w) => Answered(k.log) /\ k.covers
  <2>1. ~ProfilePass(w[1])
    <3>1. CASE w[2] = "check"
      BY <1>1, <3>1 DEF Due
    <3>2. CASE w[2] = "pair"
      <4>1. ASSUME ProfilePass(w[1]) PROVE FALSE
        <5>1. ~Answered(k.profile)
          BY <1>1, <3>2, <4>1 DEF Due
        <5>2. Owes(w) = {"profile"}
          BY <4>1, <5>1 DEF Owes, Endpoints
        <5> QED BY <1>5, <5>2
      <4> QED BY <4>1
    <3> QED BY <3>1, <3>2 DEF Works, Kinds
  <2>2. /\ "profile" \in Owes(w) <=> ~Answered(k.profile)
        /\ "log" \in Owes(w) <=> ~Answered(k.profile) \/ ~Answered(k.log) \/ ~k.covers
    BY <2>1 DEF Owes, Endpoints
  <2> QED BY <2>2
<1>6. RunSound(k, x)
  <2>1. x # NoRun /\ x.left = Owes(w) /\ x.at = First(x.left) /\ (x.pass <=> Owes(w) = {"profile"})
    BY <1>3 DEF NoRun
  <2> HIDE DEF x, k
  <2> QED BY <1>1, <1>3, <1>4, <1>5, <2>1 DEF RunSound, Unfinished
<1>7. w[1] \in Swept
  BY <1>1, WorkIsSwept DEF Unfinished
<1>8. work' = [work EXCEPT ![w] = k] /\ run' = [run EXCEPT ![w] = x]
  BY <1>1 DEF StartRun
<1> HIDE DEF k, x
<1>9. k.status \in Unfinished => work[w].status \in Unfinished
  BY DEF k
<1> QED BY <1>1, <1>3, <1>6, <1>7, <1>8, <1>9, OneWork DEF StartRun, Typed

\* A run asks: no saved response waits, and its endpoint is the first one left.
LEMMA RequestFacts ==
    ASSUME IInv, NEW w \in Works, Requests(w)
    PROVE  /\ Typed /\ work \in [Works -> WorkRow] /\ run \in [Works -> RunRow]
           /\ focus \in Focuses
           /\ work[w] \in WorkRow /\ run[w] \in RunRow
           /\ RowSound(work[w]) /\ RunSound(work[w], run[w])
           /\ work[w].saved = NoSave /\ work[w].status # "complete"
           /\ run[w].at \in Endpoints /\ run[w].at \in run[w].left
           /\ w[1] \in Swept /\ work = [work EXCEPT ![w] = work[w]]
<1>1. /\ Typed /\ work \in [Works -> WorkRow] /\ run \in [Works -> RunRow]
      /\ focus \in Focuses
      /\ work[w] \in WorkRow /\ run[w] \in RunRow
      /\ RowSound(work[w]) /\ RunSound(work[w], run[w])
      /\ work[w].saved = NoSave /\ run[w].at \in Endpoints /\ run[w].at # "idle"
  BY DEF IInv, Typed, Requests, Endpoints
<1>2. work[w].status # "complete" /\ run[w].at = First(run[w].left)
  BY <1>1 DEF RunSound
<1>3. run[w].at \in run[w].left
  <2>1. run[w].left \in SUBSET Endpoints
    BY <1>1, NamesOfRows
  <2>2. First(run[w].left) # "finish"
    BY <1>1, <1>2 DEF Endpoints
  <2> QED BY <1>2, <2>1, <2>2, FirstLeft
<1>4. w[1] \in Swept
  BY <1>1, WorkIsSwept
<1>5. work = [work EXCEPT ![w] = work[w]]
  BY <1>1
<1> QED BY <1>1, <1>2, <1>3, <1>4, <1>5

LEMMA AnswerKeeps ==
    ASSUME IInv, NEW w \in Works, NEW code \in focus.answers, Answer(w, code)
    PROVE  IInv'
<1> DEFINE save == [of |-> run[w].at, code |-> code, late |-> WindowOver(w[1])]
           k == [work[w] EXCEPT !.saved = save]
<1>1. Requests(w)
  BY DEF Answer
<1>2. /\ Typed /\ work[w] \in WorkRow /\ run[w] \in RunRow
      /\ RowSound(work[w]) /\ RunSound(work[w], run[w])
      /\ work[w].status # "complete" /\ run[w].at \in Endpoints /\ run[w].at \in run[w].left
      /\ w[1] \in Swept /\ work \in [Works -> WorkRow] /\ run \in [Works -> RunRow]
  BY <1>1, RequestFacts
<1>3. code \in Answers /\ code # "none"
  BY <1>2, FocusesAreWorks DEF Typed, Answers
<1>4. save \in [of : Endpoints \cup {"none"}, code : Answers \cup {"none"}, late : BOOLEAN]
  BY <1>2, <1>3 DEF WindowOver
<1>5. k \in WorkRow
  BY <1>2, <1>4 DEF WorkRow
<1>6. /\ k.status = work[w].status /\ k.profile = work[w].profile /\ k.log = work[w].log
      /\ k.covers = work[w].covers /\ k.evidence = work[w].evidence
      /\ k.saved = save /\ save.of = run[w].at /\ save.code # "none"
  BY <1>2, <1>3 DEF WorkRow
<1>7. work' = [work EXCEPT ![w] = k] /\ run' = [run EXCEPT ![w] = run[w]]
  BY <1>2 DEF Answer
<1> HIDE DEF k, save
<1>8. \A e : Missing(k, e) <=> Missing(work[w], e)
  BY <1>6 DEF Missing
<1>9. RowSound(k)
  BY <1>2, <1>6, <1>8 DEF RowSound, RunSound
<1>10. RunSound(k, run[w])
  BY <1>2, <1>6, <1>8 DEF RunSound
<1>11. k.status \in Unfinished => work[w].status \in Unfinished
  BY <1>6
<1> QED BY <1>2, <1>5, <1>7, <1>9, <1>10, <1>11, OneWork DEF Answer, Typed

\* A request without an answer, or that gives up, changes only the run.
LEMMA LeavingKeeps ==
    ASSUME IInv, NEW w \in Works, Requests(w),
           NEW outcomes \in SUBSET {"transient", "failed", "paused", "closed"}, outcomes # {},
           run' = [run EXCEPT ![w] = Leaves(run[w], outcomes)],
           events' \in 0 .. focus.events,
           UNCHANGED <<focus, clock, members, work, tries, up, regular, outage, reopened>>
    PROVE  IInv'
<1>1. /\ Typed /\ focus \in Focuses /\ work[w] \in WorkRow /\ run[w] \in RunRow
      /\ RowSound(work[w]) /\ RunSound(work[w], run[w]) /\ run[w].at \in Endpoints
      /\ work[w].saved = NoSave /\ work[w].status # "complete" /\ w[1] \in Swept
      /\ work = [work EXCEPT ![w] = work[w]]
  BY RequestFacts
<1>2. \A e \in run[w].left : Missing(work[w], e)
  BY <1>1 DEF RunSound
<1>3. Leaves(run[w], outcomes) \in RunRow /\ RunSound(work[w], Leaves(run[w], outcomes))
  BY <1>1, <1>2, LeavesSound
<1>4. tries' \in [Works -> 0 .. Retries] /\ reopened \subseteq Works
  BY <1>1 DEF Typed
<1> QED BY <1>1, <1>3, <1>4, OneWork

\* A request that is made again.
LEMMA AgainSound ==
    ASSUME focus \in Focuses, NEW k, NEW x \in RunRow, RunSound(k, x), x.at # "idle",
           x.try + 1 < focus.attempts
    PROVE  /\ [x EXCEPT !.try = @ + 1] \in RunRow
           /\ RunSound(k, [x EXCEPT !.try = @ + 1])
<1> DEFINE y == [x EXCEPT !.try = @ + 1]
<1>1. x.try + 1 \in 0 .. focus.attempts - 1
  BY FocusesAreWorks DEF RunRow
<1>2. /\ y \in RunRow /\ y.at = x.at /\ y.left = x.left /\ y.out = x.out /\ y.pass = x.pass
  BY <1>1 DEF RunRow
<1>3. y # NoRun
  BY <1>2 DEF NoRun
<1> HIDE DEF y
<1>4. RunSound(k, y)
  BY <1>2, <1>3 DEF RunSound
<1> QED BY <1>2, <1>4 DEF y

LEMMA NoAnswerKeeps ==
    ASSUME IInv, NEW w \in Works, NoAnswerComes(w)
    PROVE  IInv'
<1>1. Requests(w)
  BY DEF NoAnswerComes
<1>2. /\ Typed /\ focus \in Focuses /\ work[w] \in WorkRow /\ run[w] \in RunRow
      /\ RowSound(work[w]) /\ RunSound(work[w], run[w]) /\ run[w].at \in Endpoints
      /\ run \in [Works -> RunRow]
      /\ w[1] \in Swept /\ work = [work EXCEPT ![w] = work[w]]
  BY <1>1, RequestFacts
<1>3. events' \in 0 .. focus.events /\ tries' \in [Works -> 0 .. Retries] /\ reopened \subseteq Works
  BY <1>2 DEF NoAnswerComes, Typed
<1>4. run' = [run EXCEPT ![w] = Again(run[w], "transient")]
  BY <1>2 DEF NoAnswerComes
<1>5. CASE run[w].try + 1 < focus.attempts
  <2>1. /\ Again(run[w], "transient") = [run[w] EXCEPT !.try = @ + 1]
        /\ run[w].at # "idle"
    BY <1>2, <1>5 DEF Again, Endpoints
  <2>2. /\ Again(run[w], "transient") \in RunRow
        /\ RunSound(work[w], Again(run[w], "transient"))
    BY <1>2, <1>5, <2>1, AgainSound
  <2> QED BY <1>2, <1>3, <1>4, <2>2, OneWork DEF NoAnswerComes
<1>6. CASE ~(run[w].try + 1 < focus.attempts)
  <2>1. Again(run[w], "transient") = Leaves(run[w], {"transient"})
    BY <1>6 DEF Again
  <2>2. {"transient"} \in SUBSET {"transient", "failed", "paused", "closed"} /\ {"transient"} # {}
    OBVIOUS
  <2> QED BY <1>1, <1>3, <1>4, <2>1, <2>2, LeavingKeeps DEF NoAnswerComes
<1> QED BY <1>5, <1>6

LEMMA EventHappens ==
    ASSUME Typed, Happens
    PROVE  events' \in 0 .. focus.events
  BY FocusesAreWorks DEF Typed, Happens

LEMMA GivingUpKeeps ==
    ASSUME IInv, NEW w \in Works, Refused(w) \/ WindowCloses(w) \/ SpoolFull(w)
    PROVE  IInv'
<1>1. Requests(w)
  BY DEF Refused, WindowCloses, SpoolFull
<1>2. /\ Typed /\ focus \in Focuses /\ work[w] \in WorkRow /\ run[w] \in RunRow
      /\ RowSound(work[w]) /\ RunSound(work[w], run[w]) /\ run \in [Works -> RunRow]
      /\ work[w].saved = NoSave /\ work[w].status # "complete"
      /\ w[1] \in Swept /\ work = [work EXCEPT ![w] = work[w]]
  BY <1>1, RequestFacts
<1>3. ASSUME Refused(w) \/ WindowCloses(w) PROVE IInv'
  <2>1. PICK outcomes \in {{"failed"}, {"closed"}} : run' = [run EXCEPT ![w] = Leaves(run[w], outcomes)]
    BY <1>2, <1>3 DEF Refused, WindowCloses
  <2>2. outcomes \in SUBSET {"transient", "failed", "paused", "closed"} /\ outcomes # {}
    BY <2>1
  <2>3. /\ events' \in 0 .. focus.events
        /\ UNCHANGED <<focus, clock, members, work, tries, up, regular, outage, reopened>>
    BY <1>2, <1>3 DEF Refused, WindowCloses, Typed
  <2> QED BY <1>1, <2>1, <2>2, <2>3, LeavingKeeps
<1>4. ASSUME SpoolFull(w) PROVE IInv'
  <2>1. /\ events' \in 0 .. focus.events
        /\ UNCHANGED <<focus, clock, members, work, tries, up, regular, outage, reopened>>
    BY <1>2, <1>4, EventHappens DEF SpoolFull
  <2>2. CASE run' = [run EXCEPT ![w] = Leaves(@, {"paused"})]
    <3>1. run' = [run EXCEPT ![w] = Leaves(run[w], {"paused"})]
      BY <1>2, <2>2
    <3>2. {"paused"} \in SUBSET {"transient", "failed", "paused", "closed"} /\ {"paused"} # {}
      OBVIOUS
    <3> QED BY <1>1, <2>1, <3>1, <3>2, LeavingKeeps
  <2>3. CASE run' = [run EXCEPT ![w].at = "finish", ![w].left = {}, ![w].out = @ \cup {"paused"}]
    <3> DEFINE x == [run[w] EXCEPT !.at = "finish", !.left = {}, !.out = @ \cup {"paused"}]
    <3>1. run' = [run EXCEPT ![w] = x]
      BY <1>2, <2>3
    <3>2. x \in RunRow /\ x.at = "finish" /\ x.left = {} /\ x.out # {}
      BY <1>2 DEF RunRow
    <3>3. x # NoRun
      BY <3>2 DEF NoRun
    <3> HIDE DEF x
    <3>4. RunSound(work[w], x)
      BY <1>2, <3>2, <3>3 DEF RunSound, First
    <3>5. tries' \in [Works -> 0 .. Retries] /\ reopened \subseteq Works
      BY <1>2, <2>1 DEF Typed
    <3> QED BY <1>2, <2>1, <3>1, <3>2, <3>4, <3>5, OneWork
  <2> QED BY <1>4, <2>2, <2>3 DEF SpoolFull
<1> QED BY <1>3, <1>4

-----------------------------------------------------------------------------
(* A saved response commits *)

\* What the row says afterwards of the answer and of the other endpoint.
LEMMA RecordedRow ==
    ASSUME IInv, NEW w \in Works, work[w].saved # NoSave
    PROVE  /\ Recorded(w) \in WorkRow /\ Recorded(w).saved = NoSave
           /\ Recorded(w).status = work[w].status /\ work[w].status # "complete"
           /\ RowSound(Recorded(w)) /\ work[w].saved.of \in Endpoints
           /\ work[w].saved.code \in Answers
           /\ work[w].saved.of = "profile" =>
                  Recorded(w).profile.code = work[w].saved.code /\ ~Recorded(w).covers
           /\ work[w].saved.of = "log" =>
                  /\ Recorded(w).profile = work[w].profile /\ Recorded(w).covers
                  /\ \/ Recorded(w).log.code = work[w].saved.code
                     \/ /\ Recorded(w).log = work[w].log
                        /\ Answered(work[w].log) /\ ~Answered(work[w].profile)
<1> DEFINE k == work[w]
           s == k.saved
           n == Recorded(w)
<1>1. /\ Typed /\ focus \in Focuses /\ k \in WorkRow /\ RowSound(k)
      /\ s \in [of : Endpoints \cup {"none"}, code : Answers \cup {"none"}, late : BOOLEAN]
  BY DEF IInv, Typed, WorkRow
<1>2. s.of \in Endpoints /\ s.code \in Answers /\ Missing(k, s.of) /\ k.status # "complete"
  BY <1>1 DEF RowSound
<1> DEFINE answer == [code |-> s.code, late |-> s.late,
                      job |-> IF focus.judged THEN "queued" ELSE "none"]
<1>3. answer \in AnswerRow /\ answer.code = s.code /\ answer.job # "done"
  BY <1>1, <1>2 DEF AnswerRow
<1>4. k.evidence # "complete"
  BY <1>1, <1>2 DEF RowSound, Missing, Answered, Endpoints
<1>5. NoSave \in [of : Endpoints \cup {"none"}, code : Answers \cup {"none"}, late : BOOLEAN]
  BY DEF NoSave
<1>6. CASE s.of = "profile"
  <2>1. n = [k EXCEPT !.saved = NoSave, !.covers = FALSE, !.profile = answer]
    BY <1>1, <1>2, <1>6 DEF Recorded, Missing
  <2> HIDE DEF answer, n, s
  <2>2. /\ n \in WorkRow /\ n.saved = NoSave /\ n.status = k.status /\ ~n.covers
        /\ n.profile = answer /\ n.evidence = k.evidence
    BY <1>1, <1>3, <1>5, <2>1 DEF WorkRow
  <2>3. RowSound(n)
    BY <1>2, <1>4, <2>2 DEF RowSound
  <2> QED BY <1>2, <1>3, <1>6, <2>2, <2>3 DEF s, n
<1>7. CASE s.of = "log"
  <2>1. CASE w[2] = "check" /\ Answered(k.log) /\ k.covers
    <3>1. n = [k EXCEPT !.saved = NoSave]
      BY <1>1, <1>7, <2>1 DEF Recorded
    <3> HIDE DEF n, s
    <3>2. /\ n \in WorkRow /\ n.saved = NoSave /\ n.status = k.status /\ n.covers = k.covers
          /\ n.profile = k.profile /\ n.log = k.log /\ n.evidence = k.evidence
      BY <1>1, <1>5, <3>1 DEF WorkRow
    <3>3. RowSound(n)
      BY <1>1, <1>2, <1>4, <3>2 DEF RowSound
    <3>4. ~Answered(k.profile)
      BY <1>2, <1>7, <2>1 DEF Missing
    <3> QED BY <1>2, <1>7, <2>1, <3>2, <3>3, <3>4 DEF s, n
  <2>2. CASE ~(w[2] = "check" /\ Answered(k.log) /\ k.covers)
    <3>1. n = [k EXCEPT !.saved = NoSave, !.covers = TRUE, !.log = answer]
      BY <1>1, <1>7, <2>2 DEF Recorded
    <3> HIDE DEF answer, n, s
    <3>2. /\ n \in WorkRow /\ n.saved = NoSave /\ n.status = k.status /\ n.covers
          /\ n.profile = k.profile /\ n.log = answer /\ n.evidence = k.evidence
      BY <1>1, <1>3, <1>5, <3>1 DEF WorkRow
    <3>3. RowSound(n)
      BY <1>2, <1>3, <1>4, <3>2 DEF RowSound
    <3> QED BY <1>2, <1>3, <1>7, <3>2, <3>3 DEF s, n
  <2> QED BY <2>1, <2>2
<1> QED BY <1>2, <1>6, <1>7 DEF Endpoints

LEMMA CommitKeeps ==
    ASSUME IInv, NEW w \in Works, Commit(w)
    PROVE  IInv'
<1>0. /\ Recorded(w) \in WorkRow /\ Recorded(w).saved = NoSave
      /\ Recorded(w).status = work[w].status /\ work[w].status # "complete"
      /\ RowSound(Recorded(w)) /\ work[w].saved.of \in Endpoints
      /\ work[w].saved.code \in Answers
      /\ work[w].saved.of = "profile" =>
             Recorded(w).profile.code = work[w].saved.code /\ ~Recorded(w).covers
      /\ work[w].saved.of = "log" =>
             /\ Recorded(w).profile = work[w].profile /\ Recorded(w).covers
             /\ \/ Recorded(w).log.code = work[w].saved.code
                \/ /\ Recorded(w).log = work[w].log
                   /\ Answered(work[w].log) /\ ~Answered(work[w].profile)
  BY RecordedRow DEF Commit
<1> DEFINE k == work[w]
           x == run[w]
           n == Recorded(w)
           y == IF x.at # k.saved.of THEN x
                ELSE CASE k.saved.code = "busy" -> Again(x, "transient")
                       [] k.saved.code = "barred" -> Again(x, "failed")
                       [] OTHER -> Leaves(x, {})
<1>1. /\ Typed /\ focus \in Focuses /\ work \in [Works -> WorkRow] /\ run \in [Works -> RunRow]
      /\ k \in WorkRow /\ x \in RunRow /\ RunSound(k, x) /\ k.saved # NoSave
  BY DEF IInv, Typed, Commit
<1>2. /\ n \in WorkRow /\ n.saved = NoSave /\ n.status = k.status /\ k.status # "complete"
      /\ RowSound(n) /\ k.saved.of \in Endpoints /\ k.saved.code \in Answers
      /\ k.saved.of = "profile" => n.profile.code = k.saved.code /\ ~n.covers
      /\ k.saved.of = "log" =>
             /\ n.profile = k.profile /\ n.covers
             /\ \/ n.log.code = k.saved.code
                \/ n.log = k.log /\ Answered(k.log) /\ ~Answered(k.profile)
  BY <1>0
<1>3. w[1] \in Swept
  BY <1>1, WorkIsSwept
<1>4. work' = [work EXCEPT ![w] = n] /\ run' = [run EXCEPT ![w] = y]
  BY <1>1 DEF Commit
<1> HIDE DEF n
<1>5. y \in RunRow /\ RunSound(n, y)
  <2>1. CASE x.at # k.saved.of
    <3>1. x = NoRun
      BY <1>1, <2>1 DEF RunSound
    <3> QED BY <1>1, <1>2, <2>1, <3>1 DEF RunSound, NoRun
  <2>2. ASSUME x.at = k.saved.of,
               \A e \in x.left \ {x.at} : Missing(n, e)
        PROVE  \A outcomes \in SUBSET {"transient", "failed", "paused", "closed"} :
                  (outcomes # {} \/ k.saved.code \in {"good", "unusable"}) =>
                     Leaves(x, outcomes) \in RunRow /\ RunSound(n, Leaves(x, outcomes))
    <3> SUFFICES ASSUME NEW outcomes \in SUBSET {"transient", "failed", "paused", "closed"},
                        outcomes # {} \/ k.saved.code \in {"good", "unusable"}
                 PROVE  Leaves(x, outcomes) \in RunRow /\ RunSound(n, Leaves(x, outcomes))
      OBVIOUS
    <3>1. ASSUME ~x.pass, x.out = {}, outcomes = {}
          PROVE  /\ Answered(n.profile)
                 /\ x.at = "log" => Answered(n.log) /\ n.covers
      <4>1. CASE x.at = "profile"
        BY <1>2, <2>2, <3>1, <4>1 DEF Answered
      <4>2. CASE x.at = "log"
        <5>1. "profile" \notin x.left
          BY <1>1, <4>2, FirstLeft, NamesOfRows DEF RunSound
        <5>2. Answered(k.profile)
          BY <1>1, <3>1, <4>2, <5>1 DEF RunSound
        <5> QED BY <1>2, <2>2, <3>1, <4>2, <5>2 DEF Answered
      <4> QED BY <1>2, <2>2, <4>1, <4>2 DEF Endpoints
    <3> QED BY <1>1, <1>2, <2>2, <3>1, LeavesSound
  <2>3. ASSUME x.at = k.saved.of
        PROVE  \A e \in x.left \ {x.at} : Missing(n, e)
    <3>1. CASE x.at = "profile"
      BY <1>1, <1>2, <2>3, <3>1, NamesOfRows DEF Missing, Endpoints
    <3>2. CASE x.at = "log"
      <4>1. "profile" \notin x.left
        BY <1>1, <3>2, FirstLeft, NamesOfRows DEF RunSound
      <4> QED BY <1>1, <3>2, <4>1, NamesOfRows DEF Endpoints
    <3> QED BY <1>2, <2>3, <3>1, <3>2 DEF Endpoints
  <2>4. ASSUME x.at = k.saved.of, k.saved.code \in {"busy", "barred"}
        PROVE  RunSound(n, x)
    <3>1. /\ x.at # "idle" /\ x.at = First(x.left)
          /\ x.at \in x.left /\ (x.at = "log" => "profile" \notin x.left)
      BY <1>1, <1>2, <2>4, FirstLeft, NamesOfRows DEF RunSound, Endpoints
    <3>2. Missing(n, x.at)
      <4>1. CASE x.at = "profile"
        BY <1>2, <2>4, <4>1 DEF Missing, Answered
      <4>2. CASE x.at = "log"
        <5>1. CASE n.log.code = k.saved.code
          BY <2>4, <4>2, <5>1 DEF Missing, Answered
        <5>2. CASE n.log = k.log /\ Answered(k.log) /\ ~Answered(k.profile)
          BY <1>2, <2>4, <4>2, <5>2 DEF Missing
        <5> QED BY <1>2, <2>4, <4>2, <5>1, <5>2
      <4> QED BY <1>2, <2>4, <4>1, <4>2 DEF Endpoints
    <3>3. \A e \in x.left : Missing(n, e)
      BY <2>3, <2>4, <3>2
    <3>4. \A e \in Endpoints : e \notin x.left => (e = "profile" => n.profile = k.profile)
      BY <1>2, <2>4, <3>1 DEF Endpoints
    <3> QED BY <1>1, <1>2, <3>1, <3>3, <3>4 DEF RunSound, Endpoints
  <2>5. ASSUME x.at = k.saved.of, NEW outcome \in {"transient", "failed"},
               k.saved.code \in {"busy", "barred"}
        PROVE  Again(x, outcome) \in RunRow /\ RunSound(n, Again(x, outcome))
    <3>1. CASE x.try + 1 < focus.attempts
      <4>1. x.at # "idle"
        BY <1>2, <2>5 DEF Endpoints
      <4> QED BY <1>1, <2>4, <2>5, <3>1, <4>1, AgainSound DEF Again
    <3>2. CASE ~(x.try + 1 < focus.attempts)
      <4>1. {outcome} \in SUBSET {"transient", "failed", "paused", "closed"} /\ {outcome} # {}
        BY <2>5
      <4> QED BY <2>2, <2>3, <2>5, <3>2, <4>1 DEF Again
    <3> QED BY <3>1, <3>2
  <2>6. CASE x.at = k.saved.of /\ k.saved.code = "busy"
    BY <2>5, <2>6
  <2>7. CASE x.at = k.saved.of /\ k.saved.code = "barred"
    BY <2>5, <2>7
  <2>8. CASE x.at = k.saved.of /\ k.saved.code \in {"good", "unusable"}
    BY <2>2, <2>3, <2>8
  <2> QED BY <1>2, <2>1, <2>6, <2>7, <2>8 DEF Answers
<1> HIDE DEF k, y
<1>6. n.status \in Unfinished => work[w].status \in Unfinished
  BY <1>2 DEF k
<1> QED BY <1>1, <1>2, <1>3, <1>4, <1>5, <1>6, OneWork DEF Commit, Typed

-----------------------------------------------------------------------------
(* A run ends *)

\* An ended run leaves no trace in an idle work, whatever its row became.
LEMMA IdleSound ==
    ASSUME focus \in Focuses, NEW k, NEW x \in RunRow, x = NoRun
    PROVE  RunSound(k, x)
  BY DEF RunSound, NoRun, Answered

LEMMA RunFailsKeeps ==
    ASSUME IInv, NEW w \in Works, RunFails(w)
    PROVE  IInv'
<1> DEFINE open == work[w].status \in Unfinished
           status == IF ~open THEN work[w].status
                     ELSE IF Retried(w) THEN "waiting_retry" ELSE "failed"
           k == [work[w] EXCEPT !.status = status]
<1>1. /\ Typed /\ focus \in Focuses /\ work \in [Works -> WorkRow] /\ run \in [Works -> RunRow]
      /\ work[w] \in WorkRow /\ run[w] \in RunRow /\ RowSound(work[w])
      /\ RunSound(work[w], run[w]) /\ run[w].at = "finish"
      /\ tries \in [Works -> 0 .. Retries]
  BY DEF IInv, Typed, RunFails
<1>2. work[w].status # "complete" /\ w[1] \in Swept
  BY <1>1, WorkIsSwept DEF RunSound
<1>3. status \in Statuses /\ status # "complete" /\ (status \in Unfinished => open)
  BY <1>1, <1>2, NamesOfRows DEF Statuses, Unfinished
<1>4. work' = [work EXCEPT ![w] = k] /\ run' = [run EXCEPT ![w] = NoRun]
  BY <1>1 DEF RunFails
<1>5. tries' \in [Works -> 0 .. Retries]
  <2>1. Used(w) \in Nat
    BY <1>1, WorkConstants DEF Used
  <2>2. (IF open /\ Retried(w) THEN Used(w) ELSE 0) \in 0 .. Retries
    BY <2>1, WorkConstants DEF Retried
  <2> QED BY <1>1, <2>2 DEF RunFails
<1> HIDE DEF status
<1>6. /\ k \in WorkRow /\ k.status = status /\ k.saved = work[w].saved
      /\ k.profile = work[w].profile /\ k.log = work[w].log /\ k.covers = work[w].covers
      /\ k.evidence = work[w].evidence
  BY <1>1, <1>3 DEF WorkRow
<1> HIDE DEF k
<1>7. RowSound(k)
  BY <1>1, <1>3, <1>6 DEF RowSound, Missing
<1>8. NoRun \in RunRow /\ RunSound(k, NoRun)
  BY <1>1, EmptyRows, IdleSound
<1> QED BY <1>1, <1>2, <1>3, <1>4, <1>5, <1>6, <1>7, <1>8, OneWork DEF RunFails, Typed

LEMMA RunPausesKeeps ==
    ASSUME IInv, NEW w \in Works, RunPauses(w)
    PROVE  IInv'
<1>1. /\ Typed /\ focus \in Focuses /\ work[w] \in WorkRow /\ run[w] \in RunRow
      /\ RowSound(work[w]) /\ run[w].at = "finish"
      /\ work = [work EXCEPT ![w] = work[w]]
  BY DEF IInv, Typed, RunPauses
<1>2. w[1] \in Swept
  BY <1>1, WorkIsSwept
<1>3. NoRun \in RunRow /\ RunSound(work[w], NoRun)
  BY <1>1, EmptyRows, IdleSound
<1> QED BY <1>1, <1>2, <1>3, OneWork DEF RunPauses, Typed

\* A run that ends without a failure, and did not ask for the profile only, found or
\* brought a usable profile and a log that covers it.
LEMMA RunEndsKeeps ==
    ASSUME IInv, NEW w \in Works, RunEnds(w)
    PROVE  IInv'
<1> DEFINE status == IF Completes(w) THEN "complete" ELSE work[w].status
           k == [work[w] EXCEPT !.status = status]
<1>1. /\ Typed /\ focus \in Focuses /\ work \in [Works -> WorkRow] /\ run \in [Works -> RunRow]
      /\ work[w] \in WorkRow /\ run[w] \in RunRow /\ RowSound(work[w])
      /\ RunSound(work[w], run[w]) /\ run[w].at = "finish" /\ run[w].out = {}
      /\ tries \in [Works -> 0 .. Retries]
  BY DEF IInv, Typed, RunEnds
<1>2. work[w].status # "complete" /\ w[1] \in Swept
  BY <1>1, WorkIsSwept DEF RunSound
<1>3. status \in Statuses /\ (status \in Unfinished => work[w].status \in Unfinished)
  BY <1>1, NamesOfRows DEF Statuses, Unfinished
<1>4. work' = [work EXCEPT ![w] = k] /\ run' = [run EXCEPT ![w] = NoRun]
  BY <1>1 DEF RunEnds
<1>5. tries' \in [Works -> 0 .. Retries]
  BY <1>1, WorkConstants DEF RunEnds
<1>6. ASSUME status = "complete"
      PROVE  /\ work[w].saved = NoSave /\ work[w].covers
             /\ Answered(work[w].profile) /\ Answered(work[w].log)
  <2>1. ~run[w].pass
    BY <1>2, <1>6 DEF Completes
  <2>2. run[w].left = {}
    BY <1>1, FirstLeft, NamesOfRows DEF RunSound
  <2>3. ASSUME work[w].saved # NoSave PROVE FALSE
    <3>1. work[w].saved.of = "finish" /\ work[w].saved.of \in Endpoints
      BY <1>1, <2>3 DEF RunSound, RowSound
    <3> QED BY <3>1 DEF Endpoints
  <2> QED BY <1>1, <2>1, <2>2, <2>3 DEF RunSound
<1> HIDE DEF status
<1>7. /\ k \in WorkRow /\ k.status = status /\ k.saved = work[w].saved
      /\ k.profile = work[w].profile /\ k.log = work[w].log /\ k.covers = work[w].covers
      /\ k.evidence = work[w].evidence
  BY <1>1, <1>3 DEF WorkRow
<1> HIDE DEF k
<1>8. RowSound(k)
  BY <1>1, <1>6, <1>7 DEF RowSound, Missing
<1>9. NoRun \in RunRow /\ RunSound(k, NoRun)
  BY <1>1, EmptyRows, IdleSound
<1> QED BY <1>1, <1>2, <1>3, <1>4, <1>5, <1>7, <1>8, <1>9, OneWork DEF RunEnds, Typed

-----------------------------------------------------------------------------
(* The workers and the operator *)

\* Whatever the pair's row says, its new evidence is sound, and final once a
\* covered pair has both answers processed.
LEMMA EvaluatedSound ==
    ASSUME NEW k \in WorkRow,
           k.saved # NoSave => k.saved.of \in Endpoints /\ k.saved.code # "none" /\ Missing(k, k.saved.of),
           k.status = "complete" =>
               k.saved = NoSave /\ k.covers /\ Answered(k.profile) /\ Answered(k.log)
    PROVE  /\ Evaluated(k) \in WorkRow /\ RowSound(Evaluated(k))
           /\ Evaluated(k).status = k.status /\ Evaluated(k).saved = k.saved
           /\ Evaluated(k).profile = k.profile /\ Evaluated(k).log = k.log
           /\ Evaluated(k).covers = k.covers
<1> DEFINE hard == \/ \E e \in Endpoints : HardFailure(k, e)
                   \/ LogBefore(k) /\ k.status \notin Unfinished
           evidence == IF hard THEN "failed"
                       ELSE IF LogBefore(k) \/ \E e \in Endpoints : ~Valid(k, e)
                            THEN "partial" ELSE "complete"
           waits == \E e \in Endpoints : k[e].job \in {"queued", "lost"}
           n == [k EXCEPT !.evidence = evidence, !.waits = waits]
<1>1. n = Evaluated(k)
  BY DEF Evaluated
<1>2. evidence \in {"partial", "complete", "failed"} /\ waits \in BOOLEAN
  OBVIOUS
<1>3. ASSUME evidence = "complete"
      PROVE  /\ k.covers /\ k.profile.code = "good" /\ k.log.code = "good"
             /\ ~k.profile.late /\ ~k.log.late
  BY <1>3 DEF Valid, LogBefore, Endpoints
<1>4. ASSUME k.covers, Answered(k.profile), Answered(k.log),
             k.profile.job = "done", k.log.job = "done"
      PROVE  evidence # "partial"
  <2>1. ~LogBefore(k)
    BY <1>4 DEF LogBefore
  <2>2. ASSUME NEW e \in Endpoints, ~Valid(k, e) PROVE HardFailure(k, e)
    BY <1>4, <2>2 DEF Valid, HardFailure, Endpoints, Answered
  <2> QED BY <2>1, <2>2
<1> HIDE DEF evidence, waits
<1>5. /\ n \in WorkRow /\ n.evidence = evidence /\ n.status = k.status /\ n.saved = k.saved
      /\ n.profile = k.profile /\ n.log = k.log /\ n.covers = k.covers
  BY <1>2 DEF WorkRow
<1> HIDE DEF n
<1>6. RowSound(n)
  BY <1>2, <1>3, <1>4, <1>5 DEF RowSound, Missing
<1> QED BY <1>1, <1>5, <1>6

\* A run is untouched by a change that leaves the codes of the answers, what the log
\* covers, the saved response and whether the work is finished as they are.
LEMMA RunUntouched ==
    ASSUME NEW k, NEW new, NEW x, RunSound(k, x),
           new.saved = k.saved, new.covers = k.covers, new.profile.code = k.profile.code,
           new.log.code = k.log.code, new.status = "complete" => k.status = "complete"
    PROVE  RunSound(new, x)
<1>1. \A e : Missing(new, e) <=> Missing(k, e)
  BY DEF Missing, Answered
<1>2. /\ Answered(new.profile) <=> Answered(k.profile)
      /\ Answered(new.log) <=> Answered(k.log)
  BY DEF Answered
<1> QED BY <1>1, <1>2 DEF RunSound

\* A step of a worker or the operator writes one row only.
LEMMA OneRow ==
    ASSUME IInv, NEW w \in Works, NEW k \in WorkRow, RowSound(k), w[1] \in Swept,
           k.status \in Unfinished => work[w].status \in Unfinished \/ w \in reopened',
           k.saved = work[w].saved, k.covers = work[w].covers,
           k.profile.code = work[w].profile.code, k.log.code = work[w].log.code,
           k.status = "complete" => work[w].status = "complete",
           work' = [work EXCEPT ![w] = k],
           events' \in 0 .. focus.events, reopened \subseteq reopened', reopened' \subseteq Works,
           UNCHANGED <<focus, clock, members, run, tries, up, regular, outage>>
    PROVE  IInv'
<1>1. /\ Typed /\ focus \in Focuses /\ run \in [Works -> RunRow] /\ RunSound(work[w], run[w])
      /\ tries \in [Works -> 0 .. Retries]
  BY DEF IInv, Typed
<1>2. RunSound(k, run[w])
  BY <1>1, RunUntouched
<1>3. run' = [run EXCEPT ![w] = run[w]] /\ run[w] \in RunRow
  BY <1>1
<1> QED BY <1>1, <1>2, <1>3, OneWork

LEMMA ReopenKeeps ==
    ASSUME IInv, NEW w \in Works, Reopen(w)
    PROVE  IInv'
<1> DEFINE k == [work[w] EXCEPT !.status = "waiting_retry"]
<1>1. /\ Typed /\ work \in [Works -> WorkRow] /\ work[w] \in WorkRow /\ RowSound(work[w])
      /\ work[w].status = "failed" /\ reopened \subseteq Works
  BY DEF IInv, Typed, Reopen
<1>2. w[1] \in Swept
  BY <1>1, WorkIsSwept
<1>3. /\ k \in WorkRow /\ k.status = "waiting_retry" /\ k.saved = work[w].saved
      /\ k.profile = work[w].profile /\ k.log = work[w].log /\ k.covers = work[w].covers
      /\ k.evidence = work[w].evidence
  BY <1>1 DEF WorkRow, Statuses
<1>4. work' = [work EXCEPT ![w] = k]
  BY <1>1 DEF Reopen
<1> HIDE DEF k
<1>5. RowSound(k)
  BY <1>1, <1>3 DEF RowSound, Missing
<1>6. w \in reopened' /\ reopened \subseteq reopened' /\ reopened' \subseteq Works
  BY <1>1 DEF Reopen
<1>7. events' \in 0 .. focus.events
  BY <1>1, EventHappens DEF Reopen
<1> QED BY <1>1, <1>2, <1>3, <1>4, <1>5, <1>6, <1>7, OneRow DEF Reopen

\* The row of a pair with the job of one of its answers ended.
LEMMA JobEnded ==
    ASSUME NEW k \in WorkRow, RowSound(k), NEW e \in Endpoints, NEW end \in {"done", "lost"}
    PROVE  LET n == [k EXCEPT ![e].job = end]
           IN  /\ n \in WorkRow /\ n.status = k.status /\ n.saved = k.saved
               /\ n.covers = k.covers /\ n.evidence = k.evidence
               /\ n.profile.code = k.profile.code /\ n.log.code = k.log.code
               /\ n.saved # NoSave => n.saved.of \in Endpoints /\ n.saved.code # "none"
                                      /\ Missing(n, n.saved.of)
               /\ n.status = "complete" =>
                      n.saved = NoSave /\ n.covers /\ Answered(n.profile) /\ Answered(n.log)
               /\ end = "lost" => RowSound(n)
<1> DEFINE n == [k EXCEPT ![e].job = end]
<1>1. /\ k.profile \in AnswerRow /\ k.log \in AnswerRow
  BY DEF WorkRow
<1>2. CASE e = "profile"
  <2> DEFINE a == [k.profile EXCEPT !.job = end]
  <2>1. /\ a \in AnswerRow /\ a.code = k.profile.code /\ a.late = k.profile.late /\ a.job = end
    BY <1>1 DEF AnswerRow
  <2>2. n = [k EXCEPT !.profile = a]
    BY <1>2 DEF WorkRow
  <2> HIDE DEF a, n
  <2>3. /\ n \in WorkRow /\ n.status = k.status /\ n.saved = k.saved
        /\ n.covers = k.covers /\ n.evidence = k.evidence /\ n.profile = a /\ n.log = k.log
    BY <2>1, <2>2 DEF WorkRow
  <2>4. n.saved # NoSave => n.saved.of \in Endpoints /\ n.saved.code # "none"
                                      /\ Missing(n, n.saved.of)
    BY <2>1, <2>3 DEF RowSound, Missing, Answered
  <2>5. n.status = "complete" =>
            n.saved = NoSave /\ n.covers /\ Answered(n.profile) /\ Answered(n.log)
    BY <2>1, <2>3 DEF RowSound, Answered
  <2>6. end = "lost" => RowSound(n)
    BY <2>1, <2>3, <2>4, <2>5 DEF RowSound
  <2> QED BY <2>1, <2>3, <2>4, <2>5, <2>6 DEF n
<1>3. CASE e = "log"
  <2> DEFINE a == [k.log EXCEPT !.job = end]
  <2>1. /\ a \in AnswerRow /\ a.code = k.log.code /\ a.late = k.log.late /\ a.job = end
    BY <1>1 DEF AnswerRow
  <2>2. n = [k EXCEPT !.log = a]
    BY <1>3 DEF WorkRow
  <2> HIDE DEF a, n
  <2>3. /\ n \in WorkRow /\ n.status = k.status /\ n.saved = k.saved
        /\ n.covers = k.covers /\ n.evidence = k.evidence /\ n.profile = k.profile /\ n.log = a
    BY <2>1, <2>2 DEF WorkRow
  <2>4. n.saved # NoSave => n.saved.of \in Endpoints /\ n.saved.code # "none"
                                      /\ Missing(n, n.saved.of)
    BY <2>1, <2>3 DEF RowSound, Missing, Answered
  <2>5. n.status = "complete" =>
            n.saved = NoSave /\ n.covers /\ Answered(n.profile) /\ Answered(n.log)
    BY <2>1, <2>3 DEF RowSound, Answered
  <2>6. end = "lost" => RowSound(n)
    BY <2>1, <2>3, <2>4, <2>5 DEF RowSound
  <2> QED BY <2>1, <2>3, <2>4, <2>5, <2>6 DEF n
<1> QED BY <1>2, <1>3 DEF Endpoints

LEMMA ProcessKeeps ==
    ASSUME IInv, NEW w \in Works, NEW e \in Endpoints, Process(w, e)
    PROVE  IInv'
<1> DEFINE n == [work[w] EXCEPT ![e].job = "done"]
           k == Evaluated(n)
<1>1. /\ Typed /\ work \in [Works -> WorkRow] /\ work[w] \in WorkRow /\ RowSound(work[w])
      /\ work[w][e].job = "queued" /\ reopened \subseteq Works /\ events \in 0 .. focus.events
  BY DEF IInv, Typed, Process
<1>2. w[1] \in Swept
  BY <1>1, WorkIsSwept
<1>3. work' = [work EXCEPT ![w] = k]
  BY <1>1 DEF Process
<1>4. /\ n \in WorkRow /\ n.status = work[w].status /\ n.saved = work[w].saved
      /\ n.covers = work[w].covers
      /\ n.profile.code = work[w].profile.code /\ n.log.code = work[w].log.code
      /\ n.saved # NoSave => n.saved.of \in Endpoints /\ n.saved.code # "none"
                             /\ Missing(n, n.saved.of)
      /\ n.status = "complete" =>
             n.saved = NoSave /\ n.covers /\ Answered(n.profile) /\ Answered(n.log)
  BY <1>1, JobEnded
<1> HIDE DEF n
<1>5. /\ k \in WorkRow /\ RowSound(k) /\ k.status = n.status /\ k.saved = n.saved
      /\ k.profile = n.profile /\ k.log = n.log /\ k.covers = n.covers
  BY <1>4, EvaluatedSound
<1> HIDE DEF k
<1>6. k.status \in Unfinished => work[w].status \in Unfinished
  BY <1>4, <1>5
<1> QED BY <1>1, <1>2, <1>3, <1>4, <1>5, <1>6, OneRow DEF Process

LEMMA LoseJobKeeps ==
    ASSUME IInv, NEW w \in Works, NEW e \in Endpoints, LoseJob(w, e)
    PROVE  IInv'
<1> DEFINE n == [work[w] EXCEPT ![e].job = "lost"]
<1>1. /\ Typed /\ work \in [Works -> WorkRow] /\ work[w] \in WorkRow /\ RowSound(work[w])
      /\ work[w][e].job = "queued" /\ reopened \subseteq Works
  BY DEF IInv, Typed, LoseJob
<1>2. w[1] \in Swept
  BY <1>1, WorkIsSwept
<1>3. work' = [work EXCEPT ![w] = n]
  BY <1>1 DEF LoseJob
<1>4. /\ n \in WorkRow /\ n.status = work[w].status /\ n.saved = work[w].saved
      /\ n.covers = work[w].covers /\ RowSound(n)
      /\ n.profile.code = work[w].profile.code /\ n.log.code = work[w].log.code
  BY <1>1, JobEnded
<1> HIDE DEF n
<1>5. n.status \in Unfinished => work[w].status \in Unfinished
  BY <1>4
<1>6. events' \in 0 .. focus.events
  BY <1>1, EventHappens DEF LoseJob
<1> QED BY <1>1, <1>2, <1>3, <1>4, <1>5, <1>6, OneRow DEF LoseJob

LEMMA SettleKeeps ==
    ASSUME IInv, NEW w \in Works, Settle(w)
    PROVE  IInv'
<1> DEFINE k == Evaluated(work[w])
<1>1. /\ Typed /\ work \in [Works -> WorkRow] /\ work[w] \in WorkRow /\ RowSound(work[w])
      /\ work[w].status = "failed" /\ reopened \subseteq Works /\ events \in 0 .. focus.events
  BY DEF IInv, Typed, Settle
<1>2. w[1] \in Swept
  BY <1>1, WorkIsSwept
<1>3. work' = [work EXCEPT ![w] = k]
  BY <1>1 DEF Settle
<1>4. /\ k \in WorkRow /\ RowSound(k) /\ k.status = work[w].status /\ k.saved = work[w].saved
      /\ k.profile = work[w].profile /\ k.log = work[w].log /\ k.covers = work[w].covers
  BY <1>1, EvaluatedSound DEF RowSound
<1> HIDE DEF k
<1>5. k.status \in Unfinished => work[w].status \in Unfinished
  BY <1>4
<1> QED BY <1>1, <1>2, <1>3, <1>4, <1>5, OneRow DEF Settle

-----------------------------------------------------------------------------
(* Steps of many works *)

LEMMA ExpireKeeps ==
    ASSUME IInv, ExpireChecks
    PROVE  IInv'
<1>1. /\ Typed /\ SweptByToday /\ OnlySwept /\ Held
      /\ work \in [Works -> WorkRow] /\ run \in [Works -> RunRow]
  BY DEF IInv, Typed
<1>2. ASSUME NEW w \in Works
      PROVE  /\ work'[w] \in WorkRow /\ RowSound(work'[w]) /\ RunSound(work'[w], run[w])
             /\ work'[w].status \in Unfinished => work[w].status \in Unfinished
             /\ w[1] \notin Swept => work'[w] = work[w]
  <2> DEFINE k == [work[w] EXCEPT !.status = "failed"]
  <2>1. work[w] \in WorkRow /\ RowSound(work[w]) /\ RunSound(work[w], run[w])
    BY <1>1 DEF IInv
  <2>2. CASE work'[w] = work[w]
    BY <2>1, <2>2
  <2>3. CASE work'[w] # work[w]
    <3>1. work'[w] = k /\ work[w].status \in Unfinished
      BY <2>3 DEF ExpireChecks
    <3>2. /\ k \in WorkRow /\ k.status = "failed" /\ k.saved = work[w].saved
          /\ k.profile = work[w].profile /\ k.log = work[w].log /\ k.covers = work[w].covers
          /\ k.evidence = work[w].evidence
      BY <2>1 DEF WorkRow, Statuses
    <3> HIDE DEF k
    <3>3. RowSound(k) /\ RunSound(k, run[w])
      BY <2>1, <3>2, RunUntouched DEF RowSound, Missing
    <3>4. w[1] \in Swept
      BY <3>1, WorkIsSwept DEF Unfinished
    <3> QED BY <3>1, <3>2, <3>3, <3>4
  <2> QED BY <2>2, <2>3
<1>3. Typed'
  BY <1>1, <1>2 DEF Typed, ExpireChecks, RunRow
<1>4. SweptByToday' /\ OnlySwept'
  BY <1>1, <1>2 DEF ExpireChecks, SweptByToday, OnlySwept, Swept, Today
<1>5. Held'
  <2> SUFFICES ASSUME regular = "flying", NEW r \in Swept, NEW p \in Players,
                      work'[<<r, "pair", p>>].status \in Unfinished
               PROVE  <<r, "pair", p>> \in reopened
    BY DEF ExpireChecks, Held, Swept
  <2>1. <<r, "pair", p>> \in Works
    BY <1>1 DEF Typed, Swept, Works, Kinds
  <2> QED BY <1>1, <1>2, <2>1 DEF Held
<1>6. \A w \in Works : RowSound(work'[w]) /\ RunSound(work'[w], run'[w])
  BY <1>2 DEF ExpireChecks
<1> QED BY <1>3, <1>4, <1>5, <1>6 DEF IInv

\* The sweep of today's Reset gives its members their first rows; nobody had any.
LEMMA BeginResetKeeps ==
    ASSUME IInv, NEW M \in SUBSET {w[3] : w \in {v \in focus.works : v[1] = Today}},
           BeginReset(Today, M)
    PROVE  IInv'
<1> DEFINE new == [NoWork EXCEPT !.status = "pending"]
           owed(w) == w \in focus.works /\ w[1] = Today /\ w[3] \in M
<1>1. /\ Typed /\ SweptByToday /\ OnlySwept /\ Held /\ focus \in Focuses
      /\ work \in [Works -> WorkRow] /\ run \in [Works -> RunRow]
      /\ regular # "flying" /\ Today \notin Swept
      /\ UNCHANGED <<focus, clock, run, tries, up, regular, outage, events, reopened>>
  BY DEF IInv, Typed, BeginReset
<1>2. Today \in Resets
  <2>1. /\ clock \in Int /\ 0 <= clock /\ clock <= 4 * LastReset - 1 /\ LastReset \in Int
    BY <1>1, FocusesAreWorks, WorkConstants DEF Typed
  <2> QED BY <2>1 DEF Today, Resets
<1>3. M \subseteq Players
  <2> SUFFICES ASSUME NEW p \in M PROVE p \in Players
    OBVIOUS
  <2>1. PICK w \in focus.works : w[3] = p
    OBVIOUS
  <2>2. w \in Works
    BY <1>1, FocusesAreWorks
  <2> QED BY <2>1, <2>2 DEF Works
<1>4. new \in WorkRow /\ RowSound(new) /\ new.status = "pending"
  <2>1. NoWork \in WorkRow /\ RowSound(NoWork)
    BY <1>1, EmptyRows
  <2>2. /\ new \in WorkRow /\ new.status = "pending" /\ new.saved = NoWork.saved
        /\ new.profile = NoWork.profile /\ new.log = NoWork.log /\ new.covers = NoWork.covers
        /\ new.evidence = NoWork.evidence
    BY <2>1 DEF WorkRow, Statuses
  <2> QED BY <2>1, <2>2 DEF RowSound, Missing
<1> HIDE DEF new
<1>5. ASSUME NEW w \in Works
      PROVE  /\ work'[w] = IF owed(w) THEN new ELSE work[w]
             /\ work'[w] \in WorkRow /\ RowSound(work'[w]) /\ RunSound(work'[w], run[w])
  <2>1. work'[w] = IF owed(w) THEN new ELSE work[w]
    BY DEF BeginReset, new
  <2>2. CASE owed(w)
    <3>1. run[w] = NoRun /\ run[w] \in RunRow
      BY <1>1, <2>2 DEF OnlySwept
    <3> QED BY <1>1, <1>4, <2>1, <2>2, <3>1, IdleSound
  <2>3. CASE ~owed(w)
    BY <1>1, <2>1, <2>3 DEF IInv
  <2> QED BY <2>1, <2>2, <2>3
<1>6. work' \in [Works -> WorkRow]
  BY <1>5 DEF BeginReset
<1>7. /\ DOMAIN members' = Swept \cup {Today}
      /\ \A r \in DOMAIN members' : members'[r] \subseteq Players
  BY <1>1, <1>3 DEF BeginReset, Typed, Swept
<1>8. Typed'
  BY <1>1, <1>2, <1>6, <1>7 DEF Typed, RunRow, Swept
<1>9. SweptByToday'
  <2>1. Today' = Today /\ Today \in Int /\ Swept' = Swept \cup {Today}
    BY <1>1, <1>2, <1>7 DEF Today, Resets, Swept
  <2> QED BY <1>1, <2>1 DEF SweptByToday
<1>10. OnlySwept'
  BY <1>1, <1>5, <1>7 DEF OnlySwept, Swept
<1>11. Held'
  BY <1>1 DEF Held
<1>12. \A w \in Works : RowSound(work'[w]) /\ RunSound(work'[w], run'[w])
  BY <1>1, <1>5
<1> QED BY <1>8, <1>9, <1>10, <1>11, <1>12 DEF IInv

-----------------------------------------------------------------------------
(* Regular checks, the clock and the collector *)

\* A step that leaves the rows alone.
LEMMA RowsStay ==
    ASSUME IInv, Typed', Today <= Today', Held',
           UNCHANGED <<focus, members, work>>,
           \A w \in Works : run'[w] = run[w] \/ run'[w] = NoRun
    PROVE  IInv'
<1>1. SweptByToday /\ OnlySwept /\ focus \in Focuses /\ run' \in [Works -> RunRow]
      /\ DOMAIN members \subseteq Resets /\ clock \in Int /\ clock' \in Int
  BY DEF IInv, Typed, RunRow
<1>2. SweptByToday'
  <2>1. Today \in Int /\ Today' \in Int /\ \A r \in Swept : r \in Int
    BY <1>1 DEF Today, Swept, Resets
  <2> QED BY <1>1, <2>1 DEF SweptByToday, Swept
<1>3. OnlySwept'
  BY <1>1 DEF OnlySwept, Swept
<1>4. ASSUME NEW w \in Works PROVE RowSound(work'[w]) /\ RunSound(work'[w], run'[w])
  <2>1. RowSound(work[w]) /\ RunSound(work[w], run[w])
    BY DEF IInv
  <2>2. CASE run'[w] = NoRun
    <3>1. NoRun \in RunRow
      BY <1>1, EmptyRows
    <3> QED BY <1>1, <2>1, <2>2, <3>1, IdleSound
  <2> QED BY <2>1, <2>2
<1> QED BY <1>2, <1>3, <1>4 DEF IInv

\* While admission is open no pair of a swept Reset is unfinished, as none is swept
\* before its day.
LEMMA OpenHolds ==
    ASSUME Typed, SweptByToday, RegularOpen, NEW r \in Swept, NEW p \in Players
    PROVE  work[<<r, "pair", p>>].status \notin Unfinished
  BY DEF SweptByToday, RegularOpen, Owed

LEMMA ChecksKeep ==
    ASSUME IInv, Admit \/ CheckEnds \/ CheckPaused \/ Readmit
    PROVE  IInv'
<1>1. Typed /\ SweptByToday /\ Held /\ clock \in Int
  BY DEF IInv, Typed
<1>2. /\ UNCHANGED <<focus, clock, members, work, run, tries, up, outage, reopened>>
      /\ regular' \in {"none", "flying", "parked"}
      /\ regular' = "flying" => RegularOpen
  BY DEF Admit, CheckEnds, CheckPaused, Readmit
<1>3. events' \in 0 .. focus.events
  BY <1>1, EventHappens DEF Typed, Admit, CheckEnds, CheckPaused, Readmit
<1>4. Typed'
  BY <1>1, <1>2, <1>3 DEF Typed, RunRow
<1>5. Held'
  BY <1>1, <1>2, OpenHolds DEF Held, Swept
<1>6. Today <= Today'
  BY <1>1, <1>2 DEF Today
<1> QED BY <1>2, <1>4, <1>5, <1>6, RowsStay

LEMMA SurroundingsKeep ==
    ASSUME IInv, Surroundings \/ OutageBegins \/ Crash
    PROVE  IInv'
<1>1. Typed /\ Held /\ clock \in Int /\ focus \in Focuses
  BY DEF IInv, Typed
<1>2. CASE Tick
  <2>1. clock' \in 0 .. focus.until
    BY <1>1, <1>2, FocusesAreWorks DEF Typed, Tick
  <2>2. Typed'
    BY <1>1, <1>2, <2>1 DEF Typed, Tick, RunRow
  <2>3. Today <= Today'
    BY <1>1, <1>2 DEF Today, Tick
  <2>4. Held'
    BY <1>1, <1>2 DEF Held, Tick, Swept
  <2> QED BY <1>2, <2>2, <2>3, <2>4, RowsStay DEF Tick
<1>3. CASE OutageBegins \/ OutageEnds \/ Restart
  <2>1. UNCHANGED <<focus, clock, members, work, run, tries, regular, reopened>>
    BY <1>3 DEF OutageBegins, OutageEnds, Restart
  <2>2. up' \in BOOLEAN /\ outage' \in BOOLEAN /\ events' \in 0 .. focus.events
    BY <1>1, <1>3, EventHappens DEF OutageBegins, OutageEnds, Restart, Typed
  <2>3. Typed'
    BY <1>1, <2>1, <2>2 DEF Typed, RunRow
  <2>4. Held' /\ Today <= Today'
    BY <1>1, <2>1 DEF Held, Swept, Today
  <2> QED BY <2>1, <2>3, <2>4, RowsStay
<1>4. CASE Crash
  <2>1. events' \in 0 .. focus.events /\ 0 \in 0 .. Retries
    BY <1>1, <1>4, EventHappens, WorkConstants DEF Crash
  <2>2. run' \in [Works -> RunRow]
    BY <1>1, <1>4, EmptyRows DEF Crash
  <2>3. Typed'
    BY <1>1, <1>4, <2>1, <2>2 DEF Typed, Crash, RunRow
  <2>4. Held' /\ Today <= Today'
    BY <1>1, <1>4 DEF Held, Crash, Today
  <2>5. \A w \in Works : run'[w] = NoRun
    BY <1>4 DEF Crash
  <2> QED BY <1>4, <2>3, <2>4, <2>5, RowsStay DEF Crash
<1> QED BY <1>2, <1>3, <1>4 DEF Surroundings

-----------------------------------------------------------------------------
LEMMA StutterKeeps == IInv /\ UNCHANGED vars => IInv'
<1> SUFFICES ASSUME IInv, UNCHANGED vars PROVE IInv'
  OBVIOUS
<1>1. Typed'
  BY DEF IInv, Typed, vars, RunRow
<1>2. Held' /\ Today <= Today'
  BY DEF IInv, Held, Typed, vars, Swept, Today
<1> QED BY <1>1, <1>2, RowsStay DEF vars

LEMMA StepKeeps == IInv /\ [Next]_vars => IInv'
<1> SUFFICES ASSUME IInv, [Next]_vars PROVE IInv'
  OBVIOUS
<1>1. CASE IntentLoop
  <2>1. ASSUME NEW w \in Works, Collect(w) PROVE IInv'
    BY <2>1, StartRunKeeps, AnswerKeeps, NoAnswerKeeps, GivingUpKeeps, CommitKeeps,
       RunFailsKeeps, RunPausesKeeps, RunEndsKeeps DEF Collect
  <2> QED BY <1>1, <2>1, BeginResetKeeps, ExpireKeeps DEF IntentLoop
<1>2. CASE RegularLoop \/ Admit \/ CheckPaused
  BY <1>2, ChecksKeep DEF RegularLoop
<1>3. CASE Workers
  BY <1>3, SettleKeeps, ProcessKeeps DEF Workers
<1>4. CASE Surroundings \/ OutageBegins \/ Crash
  BY <1>4, SurroundingsKeep
<1>5. ASSUME NEW w \in Works, Reopen(w) \/ SpoolFull(w) \/ \E e \in Endpoints : LoseJob(w, e)
      PROVE  IInv'
  BY <1>5, ReopenKeeps, GivingUpKeeps, LoseJobKeeps
<1>6. CASE UNCHANGED vars
  BY <1>6, StutterKeeps
<1> QED BY <1>1, <1>2, <1>3, <1>4, <1>5, <1>6 DEF Next

LEMMA Invariance == Spec => []IInv
  BY InitIInv, StepKeeps, PTL DEF Spec

\* No regular check is in flight while a Reset pair is unfinished, but for pairs an
\* operator sent out again (_regular_admission_open, claim_due_players, begin_reset):
\* for any members, Resets, crashes, pauses and outages.
THEOREM ChecksAreHeld == Spec => []ChecksHeldDuringReset
  BY InvariantSuffices, Invariance, PTL

\* A finished work has both usable answers and a log that covers its profile, its
\* evidence is final once both are processed, and complete evidence rests on answers
\* that stay (_record_intent_endpoint, complete_intent, _evaluate_reset_baseline).
THEOREM EvidenceIsSound == Spec => []EvidenceFollows
  BY InvariantSuffices, Invariance, PTL
=============================================================================
