-------------------------- MODULE ProviderRequests --------------------------
(***************************************************************************)
(* Requests to the official API (collector_http.py): they queue for a slot *)
(* on any key (KeyPool), hold a connection of the client, wait out a       *)
(* provider outage or become its recovery probe (ProviderOutage), and end  *)
(* by an answer, a failure, a timeout or a cancelled caller (_fetch). A    *)
(* request runs in a thread that outlives a fetch which gave it up; the    *)
(* thread asks the event loop for leave before it follows a redirect.      *)
(*                                                                         *)
(* One action is what a task of the event loop does between two awaits, or *)
(* what a thread does between two calls on the loop. Time only passes: a   *)
(* pause or a timeout ends at any moment.                                  *)
(***************************************************************************)
EXTENDS Integers, Sequences, FiniteSets, SequencesExt

CONSTANTS
    Requests,       \* fetches that may be under way at once
    Keys,           \* API keys of the pool
    PerKey,         \* concurrency_per_key
    Connections,    \* max_connections
    Threshold,      \* failures in a row that start an outage
    MaxDelay,       \* max_delay, in units of base_delay
    MaxRedirects    \* MAX_REDIRECTS

ASSUME ProviderConstants ==
    /\ IsFiniteSet(Requests) /\ IsFiniteSet(Keys)
    /\ PerKey \in Nat \ {0} /\ Connections \in Nat \ {0}
    /\ Threshold \in Nat \ {0} /\ MaxDelay \in Nat \ {0} /\ MaxRedirects \in Nat

VARIABLES
    queue,      \* _waiters not yet done, oldest first
    key,        \* _KeyState of each key
    free,       \* free connections: _executor_slots
    outage,     \* ProviderOutage
    request     \* each fetch, and the thread it may have left behind

vars == <<queue, key, free, outage, request>>

NoKey == "no key"
ASSUME NoKeyIsNoKey == NoKey \notin Keys

\* `due': the pause ended and its timer has not run _dispatch yet.
KeyState == [healthy : BOOLEAN, paused : BOOLEAN, due : BOOLEAN, active : 0 .. PerKey]
\* `delay' in units of base_delay: 0 is no outage.
Outage == [failures : 0 .. Threshold, delay : 0 .. MaxDelay, paused : BOOLEAN,
           probing : BOOLEAN, stopped : BOOLEAN]
\* `at': where the fetch is; "gone" once it ended while its thread goes on.
\* `leave': where start_when_provider_answers is, for the fetch itself or a redirect:
\* about to look at the outage, asleep until the pause ends or until notified, or in
\* start_request.
Request == [at : {"idle", "queued", "granted", "refused", "held", "admitting",
                  "submitted", "running", "gone"},
            key : Keys \cup {NoKey}, probe : BOOLEAN, hops : 0 .. MaxRedirects,
            leave : {"none", "look", "timed", "untimed", "starting"}]
Idle == [at |-> "idle", key |-> NoKey, probe |-> FALSE, hops |-> 0, leave |-> "none"]

TypeOK ==
    /\ queue \in Seq(Requests)
    /\ key \in [Keys -> KeyState]
    /\ free \in 0 .. Connections
    /\ outage \in Outage
    /\ request \in [Requests -> Request]

Init ==
    /\ queue = <<>>
    /\ key = [k \in Keys |-> [healthy |-> TRUE, paused |-> FALSE, due |-> FALSE, active |-> 0]]
    /\ free = Connections
    /\ outage = [failures |-> 0, delay |-> 0, paused |-> FALSE, probing |-> FALSE, stopped |-> FALSE]
    /\ request = [r \in Requests |-> Idle]

HasSlot(q) == q.at \in {"granted", "held", "admitting", "submitted", "running", "gone"}
HasConnection(q) == q.at \in {"admitting", "submitted", "running", "gone"}
Active == outage.delay > 0

-----------------------------------------------------------------------------
(* KeyPool: slots go to the oldest waiting requests.                       *)

Takeable(keys) == {k \in Keys : keys[k].healthy /\ ~keys[k].paused /\ keys[k].active < PerKey}
Given(give, k) == Cardinality({i \in DOMAIN give : give[i] = k})

\* _dispatch: which keys the oldest waiters get is the rotation's choice.
Dispatch(keys, waiting, requests) ==
    \/ /\ \A k \in Keys : ~keys[k].healthy
       /\ queue' = <<>> /\ key' = keys
       /\ request' = [r \in Requests |->
              IF \E i \in DOMAIN waiting : waiting[i] = r
              THEN [requests[r] EXCEPT !.at = "refused"] ELSE requests[r]]
    \/ /\ \E k \in Keys : keys[k].healthy
       /\ \E n \in 0 .. Len(waiting) : \E give \in [1 .. n -> Takeable(keys)] :
              /\ \A k \in Takeable(keys) : keys[k].active + Given(give, k) <= PerKey
              /\ n < Len(waiting) =>
                     \A k \in Takeable(keys) : keys[k].active + Given(give, k) = PerKey
              /\ queue' = SubSeq(waiting, n + 1, Len(waiting))
              /\ key' = [k \in Keys |-> [keys[k] EXCEPT !.active = @ + Given(give, k)]]
              /\ request' = [r \in Requests |->
                     IF \E i \in 1 .. n : waiting[i] = r
                     THEN [requests[r] EXCEPT !.at = "granted",
                              !.key = give[CHOOSE i \in 1 .. n : waiting[i] = r]]
                     ELSE requests[r]]

\* Mutant: a waiter cancelled with its slot granted keeps it.
ReleasedResumed(keys, q) ==
    IF HasSlot(q) /\ q.at # "granted" THEN [keys EXCEPT ![q.key].active = @ - 1] ELSE keys

Released(keys, q) ==
    IF HasSlot(q) THEN [keys EXCEPT ![q.key].active = @ - 1] ELSE keys

-----------------------------------------------------------------------------
(* ProviderOutage                                                          *)

Least(a, b) == IF a < b THEN a ELSE b

Doubled(delay) == Least(2 * delay, MaxDelay)

\* record(); failures are counted up to the threshold they are compared with.
Recorded(o, verdict, probe) ==
    LET p == [o EXCEPT !.probing = @ /\ ~probe]
        f == [p EXCEPT !.failures = Least(@ + 1, Threshold)]
    IN  CASE verdict = "neither" -> p
          [] verdict = "answered" -> [p EXCEPT !.failures = 0, !.delay = 0, !.paused = FALSE]
          [] verdict = "failed" /\ probe /\ o.delay > 0 ->
                [f EXCEPT !.delay = Doubled(@), !.paused = TRUE]
          [] verdict = "failed" /\ o.delay = 0 /\ f.failures = Threshold ->
                [f EXCEPT !.delay = 1, !.paused = TRUE]
          [] OTHER -> f

\* Mutant: a probe that neither answered nor failed wakes nobody.
NotifiesOutcome(o, verdict, probe) ==
    CASE verdict = "neither"  -> FALSE
      [] verdict = "answered" -> o.delay > 0
      [] verdict = "failed"   -> IF o.delay > 0 THEN probe ELSE o.failures + 1 >= Threshold

\* Whether record() ends in _notify.
Notifies(o, verdict, probe) ==
    CASE verdict = "neither"  -> probe
      [] verdict = "answered" -> o.delay > 0
      [] verdict = "failed"   -> IF o.delay > 0 THEN probe ELSE o.failures + 1 >= Threshold

\* _notify: every request asleep in admit() looks again.
Woken(requests) ==
    [r \in Requests |-> IF requests[r].leave \in {"timed", "untimed"}
                        THEN [requests[r] EXCEPT !.leave = "look"] ELSE requests[r]]

FreesProbe(r) == request[r].probe

Record(r, verdict, requests) ==
    IF Notifies(outage, verdict, FreesProbe(r)) THEN Woken(requests) ELSE requests

-----------------------------------------------------------------------------
(* How a fetch ends: with everything given back at once, or with its       *)
(* thread keeping the slot and the connection until it ends itself.        *)

Finish(r, verdict, keys) ==
    /\ outage' = Recorded(outage, verdict, FreesProbe(r))
    /\ free' = IF HasConnection(request[r]) THEN free + 1 ELSE free
    /\ LET ended == Record(r, verdict, [request EXCEPT ![r] = Idle])
       IN  IF HasSlot(request[r]) THEN Dispatch(Released(keys, request[r]), queue, ended)
           ELSE /\ queue' = RemoveFirst(queue, r)
                /\ request' = ended /\ UNCHANGED key

Detach(r, verdict) ==
    /\ outage' = Recorded(outage, verdict, FreesProbe(r))
    /\ request' = Record(r, verdict, [request EXCEPT ![r].at = "gone"])
    /\ UNCHANGED <<queue, key, free>>

ThreadEnds(r) ==
    /\ request[r].at = "gone"
    /\ free' = free + 1
    /\ Dispatch(Released(key, request[r]), queue, [request EXCEPT ![r] = Idle])
    /\ UNCHANGED outage

-----------------------------------------------------------------------------
(* One fetch                                                               *)

\* run() and _acquire(): queue for the pool, not for one key.
Fetch(r) ==
    /\ request[r].at = "idle"
    /\ Dispatch(key, Append(queue, r), [request EXCEPT ![r].at = "queued"])
    /\ UNCHANGED <<free, outage>>

\* _acquire() raises the exception _dispatch set.
Refused(r) ==
    /\ request[r].at = "refused"
    /\ Finish(r, "neither", key)

\* run() has its slot: the key may have been rejected before it resumed.
Resume(r) ==
    /\ request[r].at = "granted"
    /\ IF key[request[r].key].healthy
       THEN /\ request' = [request EXCEPT ![r].at = "held"]
            /\ UNCHANGED <<queue, key, free, outage>>
       ELSE Finish(r, "neither", key)

Connect(r) ==
    /\ request[r].at = "held" /\ free > 0
    /\ free' = free - 1
    /\ request' = [request EXCEPT ![r].at = "admitting", ![r].leave = "look"]
    /\ UNCHANGED <<queue, key, outage>>

\* The fetch, or the thread that asked for leave, fails; nobody listens to one
\* whose fetch is gone.
LeaveFails(r, verdict) ==
    IF request[r].at = "gone" THEN ThreadEnds(r) ELSE Finish(r, verdict, key)

\* admit(): one turn of its loop.
Look(r) ==
    /\ request[r].leave = "look"
    /\ IF Active /\ outage.stopped THEN LeaveFails(r, "failed")
       ELSE /\ LET probe == Active /\ ~outage.paused /\ ~outage.probing
               IN  /\ outage' = [outage EXCEPT !.probing = @ \/ probe]
                   /\ request' = [request EXCEPT ![r].probe = probe,
                          ![r].leave = IF ~Active \/ probe THEN "starting"
                                       ELSE IF outage.paused THEN "timed" ELSE "untimed"]
            /\ UNCHANGED <<queue, key, free>>

\* wait_for() reaches the end of the pause.
Wake(r) ==
    /\ request[r].leave = "timed" /\ ~outage.paused
    /\ request' = [request EXCEPT ![r].leave = "look"]
    /\ UNCHANGED <<queue, key, free, outage>>

\* Mutant: the outage is not looked at again after the wait for a start.
StartUnchecked(r) ==
    LET k == request[r].key
        q == request[r]
    IN  /\ q.leave = "starting" /\ key[k].healthy /\ ~key[k].paused
        /\ IF q.at = "gone" THEN ThreadEnds(r)
           ELSE /\ request' = [request EXCEPT ![r].leave = "none",
                       ![r].at = IF @ = "admitting" THEN "submitted" ELSE @]
                /\ UNCHANGED <<queue, key, free, outage>>

\* start_request() returns once the key may start; then the outage is looked at
\* again. A redirect whose fetch is gone fails on its finished timeout.
Start(r) ==
    LET k == request[r].key
        q == request[r]
    IN  /\ q.leave = "starting" /\ key[k].healthy /\ ~key[k].paused
        /\ IF ~q.probe /\ Active
           THEN /\ request' = [request EXCEPT ![r].leave = "look"]
                /\ UNCHANGED <<queue, key, free, outage>>
           ELSE IF q.at = "gone" THEN ThreadEnds(r)
           ELSE /\ request' = [request EXCEPT ![r].leave = "none",
                       ![r].at = IF @ = "admitting" THEN "submitted" ELSE @]
                /\ UNCHANGED <<queue, key, free, outage>>

\* start_request() finds the key rejected, or the collection window is closed by
\* the time it returns.
StartFails(r) ==
    LET k == request[r].key
        q == request[r]
    IN  /\ q.leave = "starting"
        /\ ~key[k].healthy \/ (~key[k].paused /\ (q.probe \/ ~Active))
        /\ LeaveFails(r, "neither")

\* The 20 seconds to start are over, or the caller is cancelled.
GiveUp(r) ==
    /\ request[r].at \in {"queued", "granted", "held", "admitting"}
    /\ Finish(r, "neither", key)

Begin(r) ==
    /\ request[r].at = "submitted"
    /\ request' = [request EXCEPT ![r].at = "running"]
    /\ UNCHANGED <<queue, key, free, outage>>

\* The thread follows a redirect: the recovery probe does not wait again.
Redirect(r) ==
    LET q == request[r]
    IN  /\ q.at = "running" /\ q.leave = "none" /\ q.hops < MaxRedirects
        /\ request' = [request EXCEPT ![r].hops = @ + 1,
                          ![r].leave = IF q.probe THEN "starting" ELSE "look"]
        /\ UNCHANGED <<queue, key, free, outage>>

\* The thread is done: 401 or 403 rejects the key, 429 pauses it.
Verdict(answer) ==
    CASE answer \in {"ok", "rejected", "limited"} -> "answered"
      [] answer \in {"server error", "transport failure"} -> "failed"
      [] answer = "unusable" -> "neither"
Answer(r, answer) ==
    /\ request[r].at = "running" /\ request[r].leave = "none"
    /\ Finish(r, Verdict(answer),
              CASE answer = "rejected" -> [key EXCEPT ![request[r].key].healthy = FALSE]
                [] answer = "limited" -> [key EXCEPT ![request[r].key].paused = TRUE]
                [] OTHER -> key)

\* The thread waited for leave until its deadline.
LeaveTimesOut(r) ==
    /\ request[r].at = "running" /\ request[r].leave # "none"
    /\ Finish(r, "failed", key)

\* The deadline ends ("failed"), or the caller is cancelled ("neither").
Expire(r, verdict) ==
    \/ request[r].at = "submitted" /\ Finish(r, verdict, key)
    \/ request[r].at = "running" /\ Detach(r, verdict)

-----------------------------------------------------------------------------
(* Time, and shutdown                                                      *)

KeyPauseEnds(k) ==
    /\ key[k].paused
    /\ key' = [key EXCEPT ![k].paused = FALSE, ![k].due = TRUE]
    /\ UNCHANGED <<queue, free, outage, request>>

\* The timer pause() set runs _dispatch.
KeyTimer(k) ==
    /\ key[k].due
    /\ Dispatch([key EXCEPT ![k].due = FALSE], queue, request)
    /\ UNCHANGED <<free, outage>>

OutagePauseEnds ==
    /\ outage.paused
    /\ outage' = [outage EXCEPT !.paused = FALSE]
    /\ UNCHANGED <<queue, key, free, request>>

Stop ==
    /\ ~outage.stopped
    /\ outage' = [outage EXCEPT !.stopped = TRUE]
    /\ request' = Woken(request)
    /\ UNCHANGED <<queue, key, free>>

Next ==
    \/ \E r \in Requests :
        \/ Fetch(r) \/ Refused(r) \/ Resume(r) \/ Connect(r) \/ Look(r) \/ Wake(r)
        \/ Start(r) \/ StartFails(r) \/ GiveUp(r) \/ Begin(r) \/ Redirect(r)
        \/ \E answer \in {"ok", "rejected", "limited", "server error", "transport failure",
                          "unusable"} : Answer(r, answer)
        \/ LeaveTimesOut(r) \/ ThreadEnds(r)
        \/ \E verdict \in {"failed", "neither"} : Expire(r, verdict)
    \/ \E k \in Keys : KeyPauseEnds(k) \/ KeyTimer(k)
    \/ OutagePauseEnds \/ Stop

Spec == Init /\ [][Next]_vars

-----------------------------------------------------------------------------
(* Properties                                                              *)

\* Every slot and every connection is held by a fetch or by the thread it left
\* behind: none is lost or given back twice when a waiter is cancelled with its slot
\* granted, a fetch gives its thread up, or the thread ends later.
SlotsHeld ==
    /\ TypeOK
    /\ \A k \in Keys : key[k].active =
           Cardinality({r \in Requests : HasSlot(request[r]) /\ request[r].key = k})
    /\ free = Connections - Cardinality({r \in Requests : HasConnection(request[r])})

\* No request waits while a healthy key has a slot for it, except until the timer of
\* a pause that just ended; and none waits once every key is rejected. Every release,
\* rejection and end of a pause must dispatch.
QueueServed ==
    /\ \A r \in Requests : request[r].at = "queued" <=> \E i \in DOMAIN queue : queue[i] = r
    /\ queue # <<>> => /\ \E k \in Keys : key[k].healthy
                       /\ \A k \in Takeable(key) : key[k].due

\* No slot is lost, held twice or idle while a request waits for it.
EverySlotServes == SlotsHeld /\ QueueServed

\* A request or redirect starts only on a healthy, unpaused key, and during an outage
\* only as the recovery probe, although the outage or the pause may have begun while
\* it waited for its slot or its start.
StartsAllowed ==
    [][\A r \in Requests :
         /\ request[r].leave # "none" /\ request'[r].leave = "none"
         /\ request'[r].at \in {"submitted", "running"}
         => /\ key[request[r].key].healthy /\ ~key[request[r].key].paused
            /\ Active => request[r].probe]_vars

\* One request at a time is the recovery probe, whichever requests answer, fail, give
\* up or are redirected meanwhile; and a request asleep in admit() is one whose
\* notification is still to come: it sleeps with no time limit only while a probe is
\* out, and not past the end of the outage or the shutdown.
SleepersAreWoken ==
    LET probes == {r \in Requests : request[r].probe /\ request[r].at # "gone"} IN
    /\ Cardinality(probes) <= 1
    /\ probes # {} => outage.probing
    /\ \A r \in Requests :
        /\ request[r].leave \in {"timed", "untimed"} => Active /\ ~outage.stopped
        /\ request[r].leave = "untimed" => outage.probing /\ ~outage.paused

\* ProviderOutage's docstring: "When the pause ends one request goes out as a recovery
\* probe". Requests that sleep with no time limit therefore wait for one that is a
\* probe and will record how it ended. (Violated: the redirect of a fetch that ended
\* may become the probe, which nobody records.)
ProbeIsRecorded ==
    (\E r \in Requests : request[r].leave = "untimed")
        => \E r \in Requests : request[r].probe /\ request[r].at # "gone"
=============================================================================
