--------------------------- MODULE ArchiveUploads ---------------------------
(***************************************************************************)
(* How the bytes of one response hash reach the archive and leave it       *)
(* again: the leased upload row (collector_uploads.py), the owners of the  *)
(* uploads process (uploader.py), sightings that reuse or re-open the      *)
(* upload (collector_db.py), retirement with its recovery hold             *)
(* (archive_retention.py), the operator's retry (operator_recovery.py) and *)
(* a restore of the database to an earlier point.                          *)
(*                                                                         *)
(* The object store, the file system and PostgreSQL are external: a        *)
(* conditional write lands, late or never, but never replaces an object.   *)
(***************************************************************************)
EXTENDS Integers, FiniteSets

CONSTANTS
    Owners,         \* upload loops, of one or several uploads processes
    Sightings,      \* observations of the bytes
    Original,       \* the location named by the hash alone
    Generations,    \* bound: fresh generation suffixes
    WaitAttempts,   \* UNRESOLVED_WRITE_ATTEMPTS
    RecoveryWindow, \* how old a point a finished restore may go back to
    RecoveryHold,   \* RECOVERY_HOLD
    MaxTime,        \* bound: days that pass
    MaxFaults       \* bound: things that go wrong

ASSUME ArchiveConstants ==
    /\ Original \notin Generations
    /\ WaitAttempts \in Nat /\ MaxTime \in Nat /\ MaxFaults \in Nat
    /\ RecoveryWindow \in Nat /\ RecoveryHold \in Nat
    /\ RecoveryHold > RecoveryWindow

Locations == Generations \cup {Original}
None == "none"

ASSUME NoneIsNoLocation == None \notin Locations /\ "unbound" \notin Locations

VARIABLES
    spooled,    \* the spool holds the bytes
    upload,     \* collector_response_uploads row
    catalogue,  \* archive_catalogue.availability of each location
    since,      \* archive_catalogue.retiring_since
    bound,      \* collector_observations.archive_reference
    objects,    \* locations that hold the bytes
    puts,       \* writes whose outcome is open: location and attempt
    drawn,      \* generations drawn so far
    claims,     \* lease tokens drawn so far
    lane,       \* what each owner is doing
    sighting,   \* the open transaction that records an observation
    point,      \* a point the database can be restored to
    now, faults

database == <<upload, catalogue, since, bound>>
store == <<objects, puts>>
counts == <<drawn, claims>>
recovery == <<point, now>>
vars == <<spooled, database, store, counts, lane, sighting, recovery, faults>>

Tokens == Nat
Upload == [state : {"none", "pending", "leased", "failed", "complete"},
           token : Tokens, live : BOOLEAN, attempts : Nat, generation : Locations,
           settled : Tokens, location : Locations \cup {None},
           retry : BOOLEAN, missing : BOOLEAN, wrote : Nat]
Lane == [at : {"idle", "claimed", "putting", "reading", "completing", "failing"},
         token : Tokens, attempt : Nat, generation : Locations, unresolved : Nat,
         wrote : BOOLEAN, retry : BOOLEAN, missing : BOOLEAN]
Availability == {"none", "verified", "retiring", "expired"}
Database == [upload : Upload, catalogue : [Locations -> Availability],
             since : [Locations -> Nat], bound : [Sightings -> Locations \cup {None, "unbound"}]]
Saved == [upload |-> upload, catalogue |-> catalogue, since |-> since, bound |-> bound]

TypeOK ==
    /\ spooled \in BOOLEAN
    /\ Saved \in Database
    /\ upload.state = "leased" <=> upload.token > 0
    /\ upload.live => upload.state = "leased"
    /\ objects \subseteq Locations /\ puts \subseteq [location : Locations, attempt : Nat]
    /\ drawn \subseteq Generations /\ claims \in Nat
    /\ lane \in [Owners -> Lane]
    /\ sighting \in [of : Sightings \cup {None}, seen : Availability]
    /\ now \in 0 .. MaxTime /\ faults \in 0 .. MaxFaults
    /\ point \in [at : {-1} \cup 0 .. MaxTime, used : BOOLEAN, saved : Database]
    /\ point.at <= now

NoUpload == [state |-> "none", token |-> 0, live |-> FALSE, attempts |-> 0,
             generation |-> Original, settled |-> 0, location |-> None,
             retry |-> FALSE, missing |-> FALSE, wrote |-> 0]
IdleLane == [at |-> "idle", token |-> 0, attempt |-> 0, generation |-> Original,
             unresolved |-> 0, wrote |-> FALSE, retry |-> FALSE, missing |-> FALSE]
NoSighting == [of |-> None, seen |-> "none"]

Init ==
    /\ spooled = FALSE
    /\ upload = NoUpload
    /\ catalogue = [l \in Locations |-> "none"] /\ since = [l \in Locations |-> 0]
    /\ bound = [s \in Sightings |-> None]
    /\ objects = {} /\ puts = {} /\ drawn = {} /\ claims = 0
    /\ lane = [o \in Owners |-> IdleLane]
    /\ sighting = NoSighting
    /\ point = [at |-> -1, used |-> FALSE, saved |-> Saved]
    /\ now = 0 /\ faults = 0

Fault == faults < MaxFaults /\ faults' = faults + 1

-----------------------------------------------------------------------------
(* Recording an observation of the bytes *)

\* A row somebody has locked in an open transaction is not written by others.
Unlocked == sighting.of = None

\* publish_handoff saved the bytes; _record_response locks the upload row and
\* reads whether its archived copy may still be used.
OpenSighting(s) ==
    /\ Unlocked /\ bound[s] = None
    /\ spooled' = TRUE
    /\ sighting' = [of |-> s, seen |-> IF upload.state = "complete"
                                       THEN catalogue[upload.location] ELSE "none"]
    /\ UNCHANGED <<database, store, counts, lane, recovery, faults>>

\* The upload is opened again under a fresh generation: the location of the
\* copy being retired is never written again.
Reopened(u, g) ==
    [u EXCEPT !.state = "pending", !.generation = g, !.token = 0, !.live = FALSE,
              !.location = None, !.settled = 0, !.retry = FALSE, !.missing = FALSE, !.wrote = 0]

\* Mutant of JobAccepted: no trigger looks at the location again.
JobAcceptedUnseen(l) == TRUE

\* clashlens_reject_expired_job_source: the processing job of an observation
\* whose location is no longer verified by now is rejected.
JobAccepted(l) == catalogue[l] = "verified"

\* Mutant of Sighted: the copy being retired still counts as archived.
SightedArchived(s) ==
    /\ upload' = IF upload.state = "none" THEN [NoUpload EXCEPT !.state = "pending"] ELSE upload
    /\ bound' = [bound EXCEPT ![s] = IF sighting.seen = "verified" THEN upload.location ELSE "unbound"]
    /\ UNCHANGED drawn

\* _upsert_upload and the rest of _record_response.
Sighted(s) ==
    \/ /\ sighting.seen = "verified" /\ JobAccepted(upload.location)
       /\ bound' = [bound EXCEPT ![s] = upload.location]
       /\ UNCHANGED <<upload, drawn>>
    \/ /\ sighting.seen \in {"retiring", "expired"}
       /\ \E g \in Generations \ drawn : drawn' = drawn \cup {g} /\ upload' = Reopened(upload, g)
       /\ bound' = [bound EXCEPT ![s] = "unbound"]
    \/ /\ upload.state # "complete"
       /\ upload' = IF upload.state = "none" THEN [NoUpload EXCEPT !.state = "pending"] ELSE upload
       /\ bound' = [bound EXCEPT ![s] = "unbound"]
       /\ UNCHANGED drawn

CommitSighting(s) ==
    /\ sighting.of = s /\ sighting' = NoSighting
    /\ Sighted(s)
    /\ UNCHANGED <<spooled, catalogue, since, store, claims, lane, recovery, faults>>

\* The transaction is rejected or its session ends; the response is recorded
\* again later.
AbortSighting(s) ==
    /\ sighting.of = s /\ sighting' = NoSighting
    /\ IF sighting.seen = "verified" /\ ~JobAccepted(upload.location)
       THEN UNCHANGED faults ELSE Fault
    /\ UNCHANGED <<spooled, database, store, counts, lane, recovery>>

-----------------------------------------------------------------------------
(* The lease of an upload *)

Busy(o) == lane[o].at # "idle"

\* Mutant of Due: a failed upload is not due again.
DuePending == upload.state = "pending"

\* A failure that may pass is due again in 5 seconds, any other never.
Due == upload.state = "pending" \/ (upload.state = "failed" /\ upload.retry)

\* Mutant of UnresolvedWrite: only a failure that was reported counts.
UnresolvedWriteFailed ==
    LET write == IF upload.wrote > 0 THEN upload.wrote ELSE upload.attempts
    IN IF upload.state = "failed" /\ upload.retry /\ upload.attempts < write + WaitAttempts
       THEN write ELSE 0

\* WRITE_UNRESOLVED_SQL: the attempt whose write may yet land, or 0.
UnresolvedWrite ==
    LET write == IF upload.state = "failed" /\ upload.wrote > 0 THEN upload.wrote ELSE upload.attempts
    IN IF /\ \/ upload.state = "failed" /\ upload.retry
             \/ upload.state = "pending" /\ upload.attempts > 0
          /\ upload.attempts < write + WaitAttempts
       THEN write ELSE 0

\* claim_upload: an upload of the original location draws a generation once
\* that location is being retired.
Claim(o) ==
    /\ ~Busy(o) /\ Due /\ Unlocked
    /\ LET stale == upload.generation = Original /\ catalogue[Original] \in {"retiring", "expired"}
       IN \E g \in IF stale THEN Generations \ drawn ELSE {upload.generation} :
             /\ drawn' = IF stale THEN drawn \cup {g} ELSE drawn
             /\ upload' = [upload EXCEPT !.state = "leased", !.token = claims + 1, !.live = TRUE,
                              !.attempts = @ + 1, !.settled = 0, !.retry = FALSE, !.generation = g]
             /\ lane' = [lane EXCEPT ![o] =
                   [IdleLane EXCEPT !.at = "claimed", !.token = claims + 1, !.generation = g,
                                    !.attempt = upload.attempts + 1, !.unresolved = UnresolvedWrite]]
    /\ claims' = claims + 1
    /\ UNCHANGED <<spooled, catalogue, since, bound, store, sighting, recovery, faults>>

Matches(o) == upload.attempts = lane[o].attempt /\ upload.generation = lane[o].generation

\* _require_live
HoldsLive(o) ==
    upload.state = "leased" /\ upload.token = lane[o].token /\ upload.live /\ Matches(o)

\* The lease runs out: its owner has died, or is slow.
Expire ==
    /\ upload.state = "leased" /\ upload.live
    /\ upload' = [upload EXCEPT !.live = FALSE]
    /\ IF \E o \in Owners : Busy(o) /\ HoldsLive(o) THEN Fault ELSE UNCHANGED faults
    /\ UNCHANGED <<spooled, catalogue, since, bound, store, counts, lane, sighting, recovery>>

ReleaseExpired ==
    /\ upload.state = "leased" /\ ~upload.live /\ Unlocked
    /\ upload' = [upload EXCEPT !.state = "pending", !.token = 0]
    /\ UNCHANGED <<spooled, catalogue, since, bound, store, counts, lane, sighting, recovery, faults>>

\* UploadLeaseLost, from a renewal, a completion or a failure.
LoseLease(o) ==
    /\ lane[o].at \in {"claimed", "completing", "failing"} /\ ~HoldsLive(o)
    /\ lane' = [lane EXCEPT ![o] = IdleLane]
    /\ UNCHANGED <<spooled, database, store, counts, sighting, recovery, faults>>

-----------------------------------------------------------------------------
(* One upload *)

Step(o, at) == lane' = [lane EXCEPT ![o].at = at]
Failing(o, retry, missing) ==
    lane' = [lane EXCEPT ![o].at = "failing", ![o].retry = retry, ![o].missing = missing]

\* The bytes in the spool are written; without them the archive is asked.  An
\* archive that is not the configured one is refused.
ReadSpool(o) ==
    /\ lane[o].at = "claimed"
    /\ \/ /\ spooled
          /\ lane' = [lane EXCEPT ![o].at = "putting", ![o].wrote = TRUE]
          /\ puts' = puts \cup {[location |-> lane[o].generation, attempt |-> lane[o].attempt]}
          /\ UNCHANGED faults
       \/ ~spooled /\ Step(o, "reading") /\ UNCHANGED <<puts, faults>>
       \/ Fault /\ Failing(o, FALSE, FALSE) /\ UNCHANGED puts
    /\ UNCHANGED <<spooled, database, objects, counts, sighting, recovery>>

\* A write lands at the latest while the attempts that wait for it last, or
\* it never does.
Land(p) ==
    /\ p \in puts /\ upload.attempts <= p.attempt + WaitAttempts
    /\ puts' = puts \ {p} /\ objects' = objects \cup {p.location}
    /\ UNCHANGED <<spooled, database, counts, lane, sighting, recovery, faults>>

Drop(p) ==
    /\ p \in puts /\ puts' = puts \ {p}
    /\ IF upload.attempts <= p.attempt + WaitAttempts THEN Fault ELSE UNCHANGED faults
    /\ UNCHANGED <<spooled, database, objects, counts, lane, sighting, recovery>>

\* write_immutable: created, or found there and read back; an unknown outcome
\* is retried later, a refused write is not.
WriteAnswers(o) ==
    LET put == [location |-> lane[o].generation, attempt |-> lane[o].attempt]
    IN /\ lane[o].at = "putting"
       /\ \/ /\ put \notin puts /\ put.location \in objects /\ Step(o, "completing")
             /\ UNCHANGED <<faults, puts>>
          \/ put \notin puts /\ put.location \notin objects /\ Failing(o, TRUE, FALSE)
             /\ UNCHANGED <<faults, puts>>
          \/ Fault /\ Failing(o, TRUE, FALSE) /\ UNCHANGED puts
          \/ Fault /\ Failing(o, FALSE, FALSE) /\ puts' = puts \ {put}
    /\ UNCHANGED <<spooled, database, objects, counts, sighting, recovery>>

\* A missing copy proves something only when no write may yet land.
NowhereToBeFound(o) == lane[o].attempt > 1 /\ lane[o].unresolved = 0

\* _archived_copy
ReadBack(o) ==
    /\ lane[o].at = "reading"
    /\ \/ lane[o].generation \in objects /\ Step(o, "completing") /\ UNCHANGED faults
       \/ /\ lane[o].generation \notin objects
          /\ Failing(o, ~NowhereToBeFound(o), NowhereToBeFound(o)) /\ UNCHANGED faults
       \/ Fault /\ Failing(o, TRUE, FALSE)
    /\ UNCHANGED <<spooled, database, store, counts, sighting, recovery>>

\* The answer of a transaction is lost: its call is repeated.
Answered(o) ==
    \/ lane' = [lane EXCEPT ![o] = IdleLane] /\ UNCHANGED faults
    \/ UNCHANGED lane /\ Fault

Settled(o, u) == [u EXCEPT !.token = 0, !.live = FALSE, !.settled = lane[o].token]

\* complete_upload at a location the catalogue knows or does not know yet.
Bind(l) ==
    /\ catalogue' = [catalogue EXCEPT ![l] = "verified"]
    /\ bound' = [s \in Sightings |-> IF bound[s] = "unbound" THEN l ELSE bound[s]]

\* A location marked while it was uploaded to is left alone: the bytes upload
\* again under a fresh generation.
CompleteLive(o) ==
    LET l == lane[o].generation
    IN \/ /\ catalogue[l] \in {"none", "verified"}
          /\ Bind(l)
          /\ upload' = [Settled(o, upload) EXCEPT !.state = "complete", !.location = l]
          /\ UNCHANGED drawn
       \/ /\ catalogue[l] \in {"retiring", "expired"}
          /\ \E g \in Generations \ drawn :
                /\ drawn' = drawn \cup {g}
                /\ upload' = [upload EXCEPT !.state = "pending", !.generation = g,
                                             !.token = 0, !.live = FALSE]
          /\ UNCHANGED <<catalogue, bound>>

\* A completion that is repeated finds itself done.
Complete(o) ==
    /\ lane[o].at = "completing" /\ Unlocked
    /\ \/ HoldsLive(o) /\ CompleteLive(o)
       \/ /\ upload.state = "complete" /\ upload.settled = lane[o].token /\ Matches(o)
          /\ upload.location = lane[o].generation
          /\ UNCHANGED <<upload, catalogue, bound, drawn>>
    /\ Answered(o)
    /\ UNCHANGED <<spooled, since, store, claims, sighting, recovery>>

\* fail_upload: an attempt that wrote nothing names the write that may yet land.
Fail(o) ==
    /\ lane[o].at = "failing" /\ Unlocked
    /\ \/ /\ HoldsLive(o)
          /\ upload' = [Settled(o, upload) EXCEPT !.state = "failed", !.retry = lane[o].retry,
                !.missing = lane[o].missing,
                !.wrote = IF lane[o].wrote THEN 0 ELSE lane[o].unresolved]
       \/ /\ upload.state = "failed" /\ upload.settled = lane[o].token /\ Matches(o)
          /\ UNCHANGED upload
    /\ Answered(o)
    /\ UNCHANGED <<spooled, catalogue, since, bound, store, counts, sighting, recovery>>

\* An uploads process dies or is stopped; its lease runs out later.
Crash(o) ==
    /\ Busy(o) /\ Fault
    /\ lane' = [lane EXCEPT ![o] = IdleLane]
    /\ UNCHANGED <<spooled, database, store, counts, sighting, recovery>>

\* _retry_upload
OperatorRetry ==
    /\ upload.state = "failed" /\ Unlocked /\ Fault
    /\ upload' = [upload EXCEPT !.state = "pending"]
    /\ UNCHANGED <<spooled, catalogue, since, bound, store, counts, lane, sighting, recovery>>

-----------------------------------------------------------------------------
(* The spool, retirement and restores *)

\* Cleanup deletes the spool's copy once the upload is complete, under the
\* hash's lock and behind the sidecar of a response not recorded yet.
CleanSpool ==
    /\ spooled /\ upload.state = "complete" /\ Unlocked
    /\ spooled' = FALSE
    /\ UNCHANGED <<database, store, counts, lane, sighting, recovery, faults>>

\* The disk loses the copy, or no longer holds the bytes of its hash.
LoseCopy ==
    /\ spooled /\ Fault
    /\ spooled' = FALSE
    /\ UNCHANGED <<database, store, counts, lane, sighting, recovery>>

\* Retirement marks a due location that no unfinished upload of the bytes or
\* unfinished processing keeps.  It does not see a sighting not yet committed.
Mark(l) ==
    /\ catalogue[l] = "verified" /\ upload.state = "complete"
    /\ catalogue' = [catalogue EXCEPT ![l] = "retiring"]
    /\ since' = [since EXCEPT ![l] = now]
    /\ UNCHANGED <<spooled, upload, bound, store, counts, lane, sighting, recovery, faults>>

\* Mutant of Released: the hold only covers the recovery window.
ReleasedEarly(l) == catalogue[l] = "retiring" /\ now >= since[l] + RecoveryWindow

Released(l) == catalogue[l] = "retiring" /\ now >= since[l] + RecoveryHold

\* remove_object; when its answer or the update after it is lost, the next run
\* deletes again.
DeleteObject(l) ==
    /\ Released(l)
    /\ objects' = objects \ {l}
    /\ \/ catalogue' = [catalogue EXCEPT ![l] = "expired"] /\ UNCHANGED faults
       \/ Fault /\ UNCHANGED catalogue
    /\ UNCHANGED <<spooled, upload, since, bound, puts, counts, lane, sighting, recovery>>

Tick ==
    /\ now < MaxTime /\ now' = now + 1
    /\ UNCHANGED <<spooled, database, store, counts, lane, sighting, point, faults>>

\* Bound: one point and one restore to it.
TakePoint ==
    /\ point.at < 0 /\ ~point.used
    /\ point' = [at |-> now, used |-> FALSE, saved |-> Saved]
    /\ UNCHANGED <<spooled, database, store, counts, lane, sighting, now, faults>>

\* Production runs on until the restored database replaces it; every open
\* write has ended by then.
Restore ==
    /\ point.at >= 0 /\ now - point.at <= RecoveryWindow /\ puts = {}
    /\ upload' = point.saved.upload /\ catalogue' = point.saved.catalogue
    /\ since' = point.saved.since /\ bound' = point.saved.bound
    /\ lane' = [o \in Owners |-> IdleLane] /\ sighting' = NoSighting
    /\ point' = [point EXCEPT !.at = -1, !.used = TRUE]
    /\ UNCHANGED <<spooled, store, counts, now, faults>>

-----------------------------------------------------------------------------
OwnerStep(o) ==
    Claim(o) \/ LoseLease(o) \/ ReadSpool(o) \/ WriteAnswers(o) \/ ReadBack(o)
    \/ Complete(o) \/ Fail(o)

Next ==
    \/ \E s \in Sightings : OpenSighting(s) \/ CommitSighting(s) \/ AbortSighting(s)
    \/ \E o \in Owners : OwnerStep(o) \/ Crash(o)
    \/ \E p \in puts : Land(p) \/ Drop(p)
    \/ Expire \/ ReleaseExpired \/ OperatorRetry \/ CleanSpool \/ LoseCopy
    \/ \E l \in Locations : Mark(l) \/ DeleteObject(l)
    \/ Tick \/ TakePoint \/ Restore

Spec == Init /\ [][Next]_vars

\* The owners' loops run, an abandoned lease runs out and is released, and a
\* write or a transaction ends.
Fairness ==
    /\ \A o \in Owners : WF_vars(OwnerStep(o)) /\ SF_vars(Complete(o)) /\ SF_vars(Fail(o))
    /\ SF_vars(\E o \in Owners : Claim(o))
    /\ WF_vars(Expire) /\ SF_vars(ReleaseExpired)
    /\ WF_vars(\E p \in puts : Land(p))
    /\ WF_vars(\E s \in Sightings : CommitSighting(s) \/ AbortSighting(s))

FairSpec == Spec /\ Fairness

-----------------------------------------------------------------------------
(* Properties *)

\* Every location the catalogue calls usable holds the bytes, also after a
\* restore to any point of the recovery window, however late a DELETE or PUT of
\* an earlier lease takes effect (docs/history-retention.md: Recovery hold).
VerifiedHasBytes == \A l \in Locations : catalogue[l] = "verified" => l \in objects

\* An observation without an archive location has an upload that is not
\* finished: no interleaving of sightings, completions and retirements leaves
\* one behind that no upload will ever bind.
UnboundIsUploading ==
    (\E s \in Sightings : bound[s] = "unbound") => upload.state \in {"pending", "leased", "failed"}

\* spool_missing, the failure nobody retries, is only recorded when the archive
\* does not hold the bytes where the upload would have put them and no write
\* may yet put them there (uploader._archived_copy).
MissingIsMissing ==
    [][upload.state = "leased" /\ upload'.state = "failed" /\ upload'.missing /\ point'.used = point.used =>
         /\ upload.generation \notin objects
         /\ \A p \in puts : p.location # upload.generation \/ upload.attempts > p.attempt + WaitAttempts]_vars

\* No step puts a location marked for deletion to a new use: no observation is
\* bound to it and it is never usable again.  A restore goes back in time.
RetiringIsUnused ==
    [][point.used' = point.used =>
         /\ \A s \in Sightings, l \in Locations :
               bound[s] # l /\ bound'[s] = l => catalogue'[l] = "verified"
         /\ \A l \in Locations :
               catalogue[l] \in {"retiring", "expired"} => catalogue'[l] \in {"retiring", "expired"}]_vars

\* An upload ends: the observations that wait for it are bound, or it has
\* failed in a way that only the operator can retry.
UploadSettles ==
    (\E s \in Sightings : bound[s] = "unbound") ~>
        \/ \A s \in Sightings : bound[s] # "unbound"
        \/ upload.state = "failed" /\ ~upload.retry
=============================================================================
