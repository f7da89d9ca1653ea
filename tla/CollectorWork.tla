--------------------------- MODULE CollectorWork ---------------------------
(***************************************************************************)
(* What the collector owes each Reset and what the workers make of it: the *)
(* sweep that freezes the members, the Reset pair and the settlement check *)
(* of every member, the runs that fetch a profile and the battle log that  *)
(* covers it, their retries, the evidence of a pair, and the regular       *)
(* checks that wait meanwhile (collector_reset.py, collector_intents.py,   *)
(* collector.py, collector_db.py, reset_baselines.py).                     *)
(*                                                                         *)
(* A day from Reset to Reset has four phases: until BATTLE_LOG_PASS_FROM   *)
(* only profiles go out; then battle logs too; from midnight UTC, the      *)
(* night, its Reset is no longer swept; from COLLECTION_WINDOW on nothing  *)
(* is retried and regular checks wait for the next Reset.                  *)
(***************************************************************************)
EXTENDS Integers, FiniteSets

CONSTANTS
    Players,
    Focuses,    \* what an instance may follow, see below
    LastReset,  \* Resets are numbered from 1
    Retries     \* _RETRIES_WHILE_ANSWERING

ASSUME WorkConstants ==
    /\ IsFiniteSet(Players) /\ LastReset \in Nat \ {0} /\ Retries \in Nat

Resets == 1 .. LastReset
Kinds == {"pair", "check"}
Works == Resets \X Kinds \X Players
Endpoints == {"profile", "log"}
\* "good" can prove a Reset; "unusable" is final but cannot (404, malformed,
\* after a battle); "busy" is 429 or 5xx; "barred" is 401 or 403.
Answers == {"good", "unusable", "busy", "barred"}

\* Works meet only where an older pair holds a sweep and regular checks, and
\* evidence meets nothing but its own pair: a behaviour follows some works,
\* with some kinds of answer and so many requests of one run for an endpoint,
\* with what they hold up (regular checks) and outlast (an outage), with the
\* evidence of its pairs, until some phase, and with so many events: crashes,
\* full spools, paused checks, outages, operator retries and processing jobs
\* that maintenance fails.
ASSUME FocusesAreWorks ==
    \A f \in Focuses :
        /\ f.works \subseteq Works /\ f.answers \subseteq Answers
        /\ f.attempts \in Nat \ {0} /\ f.events \in Nat /\ f.until \in 0 .. 4 * LastReset - 1
        /\ {f.judged, f.holds} \subseteq BOOLEAN
        /\ f.judged => \A w \in f.works : w[2] = "pair"

VARIABLES
    focus,      \* what the behaviour follows
    clock,      \* the phases passed: four a day
    members,    \* collector_reset_sweeps.member_ids, once a Reset is swept
    work,       \* collector_work, with the answers and the evidence it names
    run,        \* the intent loop's active task of each work
    tries,      \* collector._retries_while_answering
    up,         \* the collector is running
    regular,    \* a regular check: "none", "flying" or "parked" (capacity paused)
    outage,     \* the provider outage is active
    events,
    reopened    \* history: works an operator retried

vars == <<focus, clock, members, work, run, tries, up, regular, outage, events, reopened>>

Statuses == {"none", "pending", "waiting_retry", "complete", "failed"}
Unfinished == {"pending", "waiting_retry"}
NoAnswer == [code |-> "none", late |-> FALSE, job |-> "none"]
NoSave == [of |-> "none", code |-> "none", late |-> FALSE]
NoRun == [at |-> "idle", left |-> {}, try |-> 0, out |-> {}, pass |-> FALSE]
NoWork == [status |-> "none", profile |-> NoAnswer, log |-> NoAnswer, covers |-> FALSE,
           saved |-> NoSave, evidence |-> "none", waits |-> FALSE]

TypeOK ==
    LET Answer == [code : Answers \cup {"none"}, late : BOOLEAN,
                   job : {"none", "queued", "done", "lost"}]
    IN  /\ clock \in 0 .. focus.until
        /\ focus \in Focuses /\ DOMAIN members \subseteq Resets
        /\ \A r \in DOMAIN members : members[r] \subseteq Players
        /\ \A w \in Works :
            /\ work[w] \in [status : Statuses, profile : Answer, log : Answer,
                            covers : BOOLEAN, evidence : {"none", "partial", "complete", "failed"},
                            saved : [of : Endpoints \cup {"none"}, code : Answers \cup {"none"},
                                     late : BOOLEAN], waits : BOOLEAN]
            /\ run[w] \in [at : {"idle", "finish"} \cup Endpoints, left : SUBSET Endpoints,
                           try : 0 .. focus.attempts - 1, pass : BOOLEAN,
                           out : SUBSET {"transient", "failed", "paused", "closed"}]
        /\ tries \in [Works -> 0 .. Retries]
        /\ up \in BOOLEAN /\ outage \in BOOLEAN /\ regular \in {"none", "flying", "parked"}
        /\ events \in 0 .. focus.events /\ reopened \subseteq Works

Init ==
    /\ focus \in Focuses /\ clock = 0 /\ members = [r \in {} |-> {}]
    /\ work = [w \in Works |-> NoWork] /\ run = [w \in Works |-> NoRun]
    /\ tries = [w \in Works |-> 0] /\ up = TRUE /\ outage = FALSE
    /\ regular \in {"none"} \cup (IF focus.holds THEN {"flying"} ELSE {})
    /\ events = 0 /\ reopened = {}

-----------------------------------------------------------------------------
(* The clock.                                                              *)

Today == clock \div 4 + 1
ProfilePass(r) == clock = 4 * (r - 1)
Night == clock % 4 >= 2     \* the next Reset is of the same UTC date
WindowOver(r) == clock >= 4 * r - 1
Swept == DOMAIN members
Owed(r) == {p \in Players : work[<<r, "pair", p>>].status \in Unfinished}

\* _regular_admission_open: not in the five minutes before a Reset, not before
\* the sweep of the Reset of this UTC date, not while a Reset pair is
\* unfinished.  After midnight it no longer asks for the sweep.
RegularOpen ==
    /\ ~WindowOver(Today) /\ (~Night => Today \in Swept)
    /\ \A r \in Swept : r <= Today => Owed(r) = {}

Happens == events < focus.events /\ events' = events + 1

Tick ==
    /\ clock < focus.until /\ clock' = clock + 1
    /\ UNCHANGED <<focus, members, work, run, tries, up, regular, outage, events, reopened>>

OutageBegins ==
    /\ focus.holds /\ ~outage /\ Happens /\ outage' = TRUE
    /\ UNCHANGED <<focus, clock, members, work, run, tries, up, regular, reopened>>

OutageEnds ==
    /\ outage /\ outage' = FALSE
    /\ UNCHANGED <<focus, clock, members, work, run, tries, up, regular, events, reopened>>

\* The process ends; the rows and the spool stay.
Crash ==
    /\ up /\ Happens /\ up' = FALSE
    /\ run' = [w \in Works |-> NoRun] /\ tries' = [w \in Works |-> 0] /\ regular' = "none"
    /\ UNCHANGED <<focus, clock, members, work, outage, reopened>>

Restart ==
    /\ ~up /\ up' = TRUE
    /\ UNCHANGED <<focus, clock, members, work, run, tries, regular, outage, events, reopened>>

-----------------------------------------------------------------------------
(* Regular checks.                                                         *)

\* Mutant: paused work goes out again unasked.
ReadmitUnasked ==
    /\ up /\ regular = "parked" /\ regular' = "flying"
    /\ UNCHANGED <<focus, clock, members, work, run, tries, up, outage, events, reopened>>

\* claim_due_players, under the admission lock.
Admit ==
    /\ focus.holds /\ up /\ regular = "none" /\ RegularOpen /\ regular' = "flying"
    /\ UNCHANGED <<focus, clock, members, work, run, tries, up, outage, events, reopened>>

CheckEnds ==
    /\ regular = "flying" /\ regular' = "none"
    /\ UNCHANGED <<focus, clock, members, work, run, tries, up, outage, events, reopened>>

CheckPaused ==
    /\ regular = "flying" /\ Happens /\ regular' = "parked"
    /\ UNCHANGED <<focus, clock, members, work, run, tries, up, outage, reopened>>

\* Paused work starts again if admission is still open, else waits its turn.
Readmit ==
    /\ up /\ regular = "parked"
    /\ regular' = IF RegularOpen THEN "flying" ELSE "none"
    /\ UNCHANGED <<focus, clock, members, work, run, tries, up, outage, events, reopened>>

-----------------------------------------------------------------------------
(* The sweep.                                                              *)

\* begin_reset: the Reset of this UTC date takes its members, whoever is
\* active, once no regular check is in flight and no older Reset owes a pair.
BeginReset(r, M) ==
    /\ up /\ regular # "flying" /\ r = Today /\ ~Night /\ r \notin Swept
    /\ \A o \in Swept : o < r => Owed(o) = {}
    /\ members' = [o \in Swept \cup {r} |-> IF o = r THEN M ELSE members[o]]
    /\ work' = [w \in Works |-> IF w \in focus.works /\ w[1] = r /\ w[3] \in M
                                THEN [NoWork EXCEPT !.status = "pending"] ELSE work[w]]
    /\ UNCHANGED <<focus, clock, run, tries, up, regular, outage, events, reopened>>

-----------------------------------------------------------------------------
(* A run of one work.                                                      *)

Answered(a) == a.code \in {"good", "unusable"}

\* pending_intents: whether the intent loop may take work w now.
Due(w) ==
    /\ work[w].status \in Unfinished /\ work[w].saved = NoSave /\ run[w] = NoRun
    /\ w[2] = "pair" => ~(ProfilePass(w[1]) /\ Answered(work[w].profile))
    /\ w[2] = "check" => ~ProfilePass(w[1]) /\ ~WindowOver(w[1])

\* What a run must fetch: what has no usable answer, and a log that does not
\* cover the profile; only the profile in the profile pass.
Owes(w) ==
    LET k == work[w]
        log == ~Answered(k.profile) \/ ~Answered(k.log) \/ ~k.covers
    IN  {e \in Endpoints : IF e = "profile" THEN ~Answered(k.profile)
                           ELSE log /\ ~ProfilePass(w[1])}

First(left) == IF left = {} THEN "finish" ELSE IF "profile" \in left THEN "profile" ELSE "log"

\* collect_intent; a settlement check takes the Reset path.
StartRun(w) ==
    /\ up /\ Due(w)
    /\ run' = [run EXCEPT ![w] = [at |-> First(Owes(w)), left |-> Owes(w), try |-> 0,
                                  out |-> {}, pass |-> Owes(w) = {"profile"}]]
    /\ UNCHANGED <<focus, clock, members, work, tries, up, regular, outage, events, reopened>>

\* The run of an endpoint ends, "recorded" or with another outcome.
Leaves(x, outcomes) ==
    [x EXCEPT !.left = @ \ {x.at}, !.at = First(x.left \ {x.at}), !.try = 0,
              !.out = @ \cup outcomes]

\* A request that may be made again, while the run has attempts left.
Again(x, outcome) == IF x.try + 1 < focus.attempts THEN [x EXCEPT !.try = @ + 1]
                     ELSE Leaves(x, {outcome})

Requests(w) == run[w].at \in Endpoints /\ work[w].saved = NoSave

\* The response is saved to the spool before anything else (SpoolHandoff).
Answer(w, code) ==
    /\ Requests(w)
    /\ work' = [work EXCEPT ![w].saved = [of |-> run[w].at, code |-> code,
                                          late |-> WindowOver(w[1])]]
    /\ UNCHANGED <<focus, clock, members, run, tries, up, regular, outage, events, reopened>>

\* ProviderFailure: no response; some failures are not worth a retry.
NoAnswerComes(w) ==
    /\ Requests(w)
    /\ run' = [run EXCEPT ![w] = Again(@, "transient")]
    /\ UNCHANGED <<focus, clock, members, work, tries, up, regular, outage, events, reopened>>

Refused(w) ==
    /\ Requests(w)
    /\ run' = [run EXCEPT ![w] = Leaves(@, {"failed"})]
    /\ UNCHANGED <<focus, clock, members, work, tries, up, regular, outage, events, reopened>>

\* CollectionWindowClosed: a check's request may not start after its window.
WindowCloses(w) ==
    /\ Requests(w) /\ w[2] = "check" /\ WindowOver(w[1])
    /\ run' = [run EXCEPT ![w] = Leaves(@, {"closed"})]
    /\ UNCHANGED <<focus, clock, members, work, tries, up, regular, outage, events, reopened>>

\* The bounded spool is full, which pauses the request or the rest of the run.
SpoolFull(w) ==
    /\ Requests(w) /\ Happens
    /\ \/ run' = [run EXCEPT ![w] = Leaves(@, {"paused"})]
       \/ run' = [run EXCEPT ![w].at = "finish", ![w].left = {}, ![w].out = @ \cup {"paused"}]
    /\ UNCHANGED <<focus, clock, members, work, tries, up, regular, outage, reopened>>

\* _record_intent_endpoint: a check keeps its first usable profile and a usable
\* log that covers it; a pair takes the newest answer.
Recorded(w) ==
    LET k == work[w]
        s == k.saved
        kept == w[2] = "check" /\ Answered(k[s.of]) /\ (s.of = "log" => k.covers)
    IN  IF kept THEN [k EXCEPT !.saved = NoSave]
        ELSE [k EXCEPT !.saved = NoSave, !.covers = s.of = "log",
                ![s.of] = [code |-> s.code, late |-> s.late,
                           job |-> IF focus.judged THEN "queued" ELSE "none"]]

\* The saved response commits, in its run or after a restart; a run asks again
\* after a refusal while it has attempts left.
Commit(w) ==
    /\ up /\ work[w].saved # NoSave
    /\ work' = [work EXCEPT ![w] = Recorded(w)]
    /\ run' = [run EXCEPT ![w] =
                 IF @.at # work[w].saved.of THEN @
                 ELSE CASE work[w].saved.code = "busy" -> Again(@, "transient")
                        [] work[w].saved.code = "barred" -> Again(@, "failed")
                        [] OTHER -> Leaves(@, {})]
    /\ UNCHANGED <<focus, clock, members, tries, up, regular, outage, events, reopened>>

\* Failed runs are counted only while the provider answers, as it looks when
\* the run ends.
Used(w) == IF outage THEN tries[w] ELSE tries[w] + 1

Retried(w) == "failed" \notin run[w].out /\ Used(w) <= Retries /\ ~WindowOver(w[1])

\* fail_intent.
RunFails(w) ==
    /\ run[w].at = "finish" /\ run[w].out # {} /\ run[w].out \cap {"paused", "closed"} = {}
    /\ LET open == work[w].status \in Unfinished
       IN  /\ work' = [work EXCEPT ![w].status = IF ~open THEN @
                            ELSE IF Retried(w) THEN "waiting_retry" ELSE "failed"]
           /\ tries' = [tries EXCEPT ![w] = IF open /\ Retried(w) THEN Used(w) ELSE 0]
    /\ run' = [run EXCEPT ![w] = NoRun]
    /\ UNCHANGED <<focus, clock, members, up, regular, outage, events, reopened>>

\* A full spool or a closed window changes nothing.
RunPauses(w) ==
    /\ run[w].at = "finish" /\ run[w].out \cap {"paused", "closed"} # {}
    /\ run' = [run EXCEPT ![w] = NoRun]
    /\ UNCHANGED <<focus, clock, members, work, tries, up, regular, outage, events, reopened>>

\* complete_intent, unless only the profile was asked for.
Completes(w) ==
    /\ work[w].status \in Unfinished /\ ~run[w].pass
    /\ \A e \in Endpoints : work[w][e].code # "none"

RunEnds(w) ==
    /\ run[w].at = "finish" /\ run[w].out = {}
    /\ work' = [work EXCEPT ![w].status = IF Completes(w) THEN "complete" ELSE @]
    /\ run' = [run EXCEPT ![w] = NoRun] /\ tries' = [tries EXCEPT ![w] = 0]
    /\ UNCHANGED <<focus, clock, members, up, regular, outage, events, reopened>>

\* expire_settlement_checks.
ExpireChecks ==
    /\ up
    /\ \E w \in Works : w[2] = "check" /\ WindowOver(w[1]) /\ work[w].status \in Unfinished
    /\ work' = [w \in Works |-> IF w[2] = "check" /\ WindowOver(w[1])
                                   /\ work[w].status \in Unfinished
                                THEN [work[w] EXCEPT !.status = "failed"] ELSE work[w]]
    /\ UNCHANGED <<focus, clock, members, run, tries, up, regular, outage, events, reopened>>

\* An operator sends failed work out again (operator_recovery._retry_work).
Reopen(w) ==
    /\ work[w].status = "failed" /\ Happens
    /\ work' = [work EXCEPT ![w].status = "waiting_retry"] /\ reopened' = reopened \cup {w}
    /\ UNCHANGED <<focus, clock, members, run, tries, up, regular, outage>>

-----------------------------------------------------------------------------
(* The evidence of a pair.                                                 *)

\* _load_reset_endpoint_evidence: why an endpoint proves nothing, for good.
HardFailure(k, e) ==
    \/ k[e].code = "none" /\ k.status = "failed"
    \/ k[e].late
    \/ k[e].job = "done" /\ k[e].code \in {"unusable", "barred"}
    \/ k[e].job = "done" /\ k[e].code = "busy" /\ k.status \notin Unfinished

Valid(k, e) == k[e].code = "good" /\ k[e].job = "done" /\ ~k[e].late

\* The log must show every battle before the profile.
LogBefore(k) == k.profile.code # "none" /\ k.log.code # "none" /\ ~k.covers

\* _evaluate_reset_baseline, from the pair's row as it is now.
Evaluated(k) ==
    LET hard == \/ \E e \in Endpoints : HardFailure(k, e)
                \/ LogBefore(k) /\ k.status \notin Unfinished
    IN  [k EXCEPT !.evidence = IF hard THEN "failed"
                               ELSE IF LogBefore(k) \/ \E e \in Endpoints : ~Valid(k, e)
                                    THEN "partial" ELSE "complete",
                  !.waits = \E e \in Endpoints : k[e].job \in {"queued", "lost"}]

\* Mutant: only the profile's job re-checks the pair.
ProcessUnchecked(w, e) ==
    /\ work[w][e].job = "queued"
    /\ work' = [work EXCEPT ![w] = IF e = "profile" THEN Evaluated([@ EXCEPT ![e].job = "done"])
                                   ELSE [@ EXCEPT ![e].job = "done"]]
    /\ UNCHANGED <<focus, clock, members, run, tries, up, regular, outage, events, reopened>>

\* A worker processes the answer e of pair w and re-checks the pair.
Process(w, e) ==
    /\ work[w][e].job = "queued"
    /\ work' = [work EXCEPT ![w] = Evaluated([@ EXCEPT ![e].job = "done"])]
    /\ UNCHANGED <<focus, clock, members, run, tries, up, regular, outage, events, reopened>>

\* maintain_queue fails a job whose last lease expired: no outcome, no re-check.
LoseJob(w, e) ==
    /\ work[w][e].job = "queued" /\ Happens
    /\ work' = [work EXCEPT ![w][e].job = "lost"]
    /\ UNCHANGED <<focus, clock, members, run, tries, up, regular, outage, reopened>>

\* Mutant: every failed pair is taken to have been re-checked already.
SettlesPartial(w) == work[w].evidence = "partial"

Unsettled(w) == work[w].evidence \in {"none", "partial"} /\ ~work[w].waits

\* settle_failed_reset_work.
Settle(w) ==
    /\ focus.judged /\ work[w].status = "failed" /\ Unsettled(w)
    /\ work' = [work EXCEPT ![w] = Evaluated(@)]
    /\ UNCHANGED <<focus, clock, members, run, tries, up, regular, outage, events, reopened>>

-----------------------------------------------------------------------------
Collect(w) ==
    \/ StartRun(w) \/ (\E c \in focus.answers : Answer(w, c)) \/ NoAnswerComes(w) \/ Refused(w)
    \/ WindowCloses(w) \/ Commit(w) \/ RunFails(w) \/ RunPauses(w) \/ RunEnds(w)

IntentLoop ==
    \/ \E M \in SUBSET {w[3] : w \in {v \in focus.works : v[1] = Today}} : BeginReset(Today, M)
    \/ ExpireChecks
    \/ \E w \in Works : Collect(w)

RegularLoop == CheckEnds \/ Readmit

Workers == \E w \in Works : Settle(w) \/ \E e \in Endpoints : Process(w, e)

Surroundings == Tick \/ OutageEnds \/ Restart

Next ==
    \/ IntentLoop \/ RegularLoop \/ Workers \/ Surroundings
    \/ Admit \/ CheckPaused \/ OutageBegins \/ Crash
    \/ \E w \in Works : Reopen(w) \/ SpoolFull(w) \/ \E e \in Endpoints : LoseJob(w, e)

Spec == Init /\ [][Next]_vars

\* The two loops are tasks of one event loop and the workers processes of
\* their own; time passes, outages end and Podman restarts the collector.
\* Nothing else need ever happen, a good answer included.
Fairness ==
    /\ WF_vars(IntentLoop) /\ WF_vars(RegularLoop) /\ WF_vars(Workers) /\ WF_vars(Surroundings)

FairSpec == Spec /\ Fairness

-----------------------------------------------------------------------------
(* Properties.                                                             *)

\* While a Reset pair is unfinished no regular check is in flight, whoever
\* paused, crashed or was admitted before the Reset; only an operator's retry
\* meets checks already out.
ChecksHeldDuringReset ==
    TypeOK /\ (regular = "flying" =>
        \A r \in Swept, p \in Players :
            work[<<r, "pair", p>>].status \in Unfinished => <<r, "pair", p>> \in reopened)

\* A finished work has both answers and its log covers its profile, however
\* many runs, crashes and late commits gathered them.  The evidence of a pair
\* follows its answers: once both answers of a finished pair are processed it
\* is final, as the later of the two jobs sees the earlier one's result; and
\* complete evidence stays true, as nothing the collector does later replaces
\* an answer it rests on.
EvidenceFollows ==
    \A w \in Works :
        /\ work[w].status = "complete" =>
              work[w].covers /\ \A e \in Endpoints : Answered(work[w][e])
        /\ (/\ focus.judged /\ work[w].status = "complete"
            /\ \A e \in Endpoints : work[w][e].job = "done")
           => work[w].evidence \in {"complete", "failed"}
        /\ work[w].evidence = "complete" =>
              work[w].covers /\ \A e \in Endpoints : work[w][e].code = "good" /\ ~work[w][e].late

\* Every member of every sweep gets final evidence, so that no publication
\* waits for ever (settle_failed_reset_work), unless maintenance failed the
\* job of an answer it rests on.
EvidenceSettles ==
    focus.judged => <>[](\A w \in focus.works : w[1] \in Swept /\ w[3] \in members[w[1]] =>
            \/ work[w].evidence \in {"complete", "failed"}
            \/ \E e \in Endpoints : work[w][e].job = "lost")

\* Whatever the provider answers, regular checks may go out again: on the day
\* itself the last Reset is swept and its pairs and those of older Resets
\* finish; in the night the pairs of whatever was swept finish, also when an
\* older Reset kept the last one waiting until midnight and it is never swept.
DayResumes == focus.holds => <>[]RegularOpen

\* Each Reset comes to an end: its evidence is final and regular checks resume.
ResetsEnd == EvidenceSettles /\ DayResumes
=============================================================================
