---------------------------- MODULE SpoolHandoff ----------------------------
(***************************************************************************)
(* How a response the collector fetched reaches the database without ever  *)
(* being lost: the spool's body file and handoff sidecar (spool.py), the   *)
(* commits that follow in the order the responses were saved (collector.py,*)
(* collector_commits.py, collector_db.py), restart recovery, and the sweep *)
(* and cleanup that delete body files behind the publication barrier.      *)
(*                                                                         *)
(* Responses are numbered in the order they were received                  *)
(* (response_completed_at).  The uploads process, the worker and archive   *)
(* retirement appear through what they do to the rows read here;           *)
(* ArchiveUploads models the first in full.                                *)
(***************************************************************************)
EXTENDS Integers, Sequences, FiniteSets, SequencesExt

CONSTANTS
    LastResponse,   \* responses are numbered 1 .. LastResponse
    Identities,     \* (scope, identity key, endpoint)
    Bodies,         \* raw bodies, by their hash
    Contents,       \* fingerprints of the fields the program uses
    IdentityOf, BodyOf,     \* of each response
    ContentOf,      \* of each body
    MaxCrashes,     \* bound: times the collector dies
    MaxFaults       \* bound: database or file calls whose outcome is an error

Responses == 1 .. LastResponse
None == 0

ASSUME SpoolHandoffConstants ==
    /\ LastResponse \in Nat
    /\ IdentityOf \in [Responses -> Identities]
    /\ BodyOf \in [Responses -> Bodies]
    /\ ContentOf \in [Bodies -> Contents]
    /\ MaxCrashes \in Nat /\ MaxFaults \in Nat

VARIABLES
    files,      \* bodies with a file in the spool
    sidecars,   \* responses with a handoff sidecar
    phase,      \* what the collector is doing with each response
    turns,      \* saved responses of an identity not yet settled, in order
    known,      \* newest response this process committed for an identity
    paused,     \* _handoff_recovery_required
    mode,       \* of the collector process
    recovery,   \* sidecars that restart recovery has still to commit
    cleaner,    \* the sweep or cleanup pass under way
    row,        \* collector_response_state
    evidence,   \* collector_observations and its archive_reference
    processed,  \* observations whose processing job is complete
    upload,     \* collector_response_uploads.state
    kept,       \* uploads with local_deleted_at NULL
    retired,    \* uploads whose archive location is no longer verified
    applied,    \* how often record_response applied a response
    sighted,    \* responses compacted without being saved
    disordered, \* identities that saved a response after a newer one
    crashes, faults

disk == <<files, sidecars>>
memory == <<phase, turns, known, paused>>
tables == <<row, evidence, processed, upload, kept, retired>>
history == <<applied, sighted, disordered>>
vars == <<disk, memory, mode, recovery, cleaner, tables, history, crashes, faults>>

\* fetched: received, perhaps checked against the state row without being saved
\* publishing: behind the barrier, body written and sidecar not
\* saved: waiting for its turn, or for a lock the database would not give it
\* recorded: committed, its sidecar not yet removed
\* left: its sidecar waits for restart recovery
Phases == {"none", "fetched", "checking", "refused", "publishing", "saved",
           "committing", "recorded", "left", "done", "lost"}
Modes == {"down", "recovering", "running", "stopping"}
StateRow == [newest : Responses \cup {None}, evidence : Responses \cup {None},
             marker : Responses \cup {None}]
Cleaner == [kind : {"none", "sweep", "cleanup"}, stage : {"idle", "waiting", "active", "deleted"},
            protected : SUBSET Bodies, chosen : SUBSET Bodies]
NoCleaner == [kind |-> "none", stage |-> "idle", protected |-> {}, chosen |-> {}]

TypeOK ==
    /\ files \subseteq Bodies /\ sidecars \subseteq Responses
    /\ phase \in [Responses -> Phases]
    /\ turns \in [Identities -> Seq(sidecars)]
    /\ known \in [Identities -> Responses \cup {None}]
    /\ paused \in BOOLEAN /\ mode \in Modes
    /\ recovery \in Seq(sidecars)
    /\ cleaner \in Cleaner
    /\ row \in [Identities -> StateRow]
    /\ evidence \in [Responses -> {"none", "unbound", "bound", "retired"}]
    /\ processed \subseteq Responses
    /\ upload \in [Bodies -> {"none", "pending", "complete"}]
    /\ kept \subseteq Bodies /\ retired \subseteq Bodies
    /\ applied \in [Responses -> Nat] /\ sighted \subseteq Responses
    /\ disordered \subseteq Identities
    /\ crashes \in 0 .. MaxCrashes /\ faults \in 0 .. MaxFaults

Init ==
    /\ files = {} /\ sidecars = {}
    /\ phase = [r \in Responses |-> "none"]
    /\ turns = [i \in Identities |-> <<>>]
    /\ known = [i \in Identities |-> None]
    /\ paused = FALSE /\ mode = "running" /\ recovery = <<>>
    /\ cleaner = NoCleaner
    /\ row = [i \in Identities |-> [newest |-> None, evidence |-> None, marker |-> None]]
    /\ evidence = [r \in Responses |-> "none"]
    /\ processed = {}
    /\ upload = [b \in Bodies |-> "none"]
    /\ kept = {} /\ retired = {}
    /\ applied = [r \in Responses |-> 0] /\ sighted = {} /\ disordered = {}
    /\ crashes = 0 /\ faults = 0

Content(r) == ContentOf[BodyOf[r]]
Siblings(r) == {s \in Responses : IdentityOf[s] = IdentityOf[r]}
Observed == {r \in Responses : evidence[r] # "none"}

-----------------------------------------------------------------------------
(* What the database records of one response *)

\* Mutant of Seen: the last response recorded counts as the newest.
SeenLast(r, observation, saved) ==
    [row EXCEPT ![IdentityOf[r]] =
        [newest |-> r, evidence |-> observation, marker |-> IF saved THEN r ELSE @.marker]]

\* The state row keeps the values of the newest response it has seen; only a
\* saved one becomes the marker of the last one applied.
Seen(r, observation, saved) ==
    LET old == row[IdentityOf[r]]
        newer == r >= old.newest
    IN [row EXCEPT ![IdentityOf[r]] =
           [newest |-> IF newer THEN r ELSE old.newest,
            evidence |-> IF newer THEN observation ELSE old.evidence,
            marker |-> IF saved THEN r ELSE old.marker]]

\* _record_unchanged: the used fields are those of the state row, and the
\* observation it names is not archived at a location being retired.
Unchanged(r) ==
    LET old == row[IdentityOf[r]]
    IN /\ old.evidence # None /\ evidence[old.evidence] # "retired"
       /\ Content(old.newest) = Content(r)

Compact(r, saved) ==
    /\ Unchanged(r)
    /\ row' = Seen(r, row[IdentityOf[r]].evidence, saved)
    /\ UNCHANGED <<evidence, processed, upload, kept, retired>>

\* Upload row, observation, processing job and state row in one transaction.
\* Bytes whose archived copy is being retired upload again, as a new generation.
Store(r) ==
    LET b == BodyOf[r]
        archived == upload[b] = "complete" /\ b \notin retired
    IN /\ upload' = [upload EXCEPT ![b] = IF archived THEN "complete" ELSE "pending"]
       /\ kept' = kept \cup {b}
       /\ retired' = retired \ {b}
       /\ evidence' = [evidence EXCEPT ![r] = IF archived THEN "bound" ELSE "unbound"]
       /\ row' = Seen(r, r, TRUE)
       /\ UNCHANGED processed

\* Mutant of Recognised: recovery does not ask what was committed before.
RecognisedLive(r, recovering) == ~recovering /\ row[IdentityOf[r]].marker = r

\* An occurrence key already recorded is recognised and changes nothing.
Recognised(r, recovering) ==
    \/ row[IdentityOf[r]].marker = r
    \/ recovering /\ evidence[r] # "none"

\* record_response.  An unchanged one may need its own observation all the same
\* (Reset evidence, a settlement check).
Record(r, recovering) ==
    IF Recognised(r, recovering)
    THEN UNCHANGED <<tables, applied>>
    ELSE /\ Compact(r, TRUE) \/ Store(r)
         /\ applied' = [applied EXCEPT ![r] = @ + 1]

\* Cleanup holds the advisory locks of the hashes it deletes until it commits.
HashLocked(b) == cleaner.stage = "deleted" /\ b \in cleaner.chosen

-----------------------------------------------------------------------------
(* Collecting a response *)

Idle == UNCHANGED <<mode, recovery, cleaner, crashes>>

Fetch(r) ==
    /\ phase[r] = "none" /\ \A s \in 1 .. r - 1 : phase[s] # "none"
    /\ mode = "running" /\ ~paused
    /\ phase' = [phase EXCEPT ![r] = "fetched"]
    /\ Idle /\ UNCHANGED <<disk, turns, known, paused, tables, history, faults>>

Publishing == {r \in Responses : phase[r] = "publishing"}

\* A known unchanged ordinary response may skip the spool, while no other of
\* its identity is being saved or waits to commit.
CheckUnchanged(r) ==
    LET i == IdentityOf[r]
    IN /\ phase[r] = "fetched" /\ ~paused
       /\ known[i] # None /\ Content(known[i]) = Content(r)
       /\ Siblings(r) \cap Publishing = {} /\ turns[i] = <<>>
       /\ phase' = [phase EXCEPT ![r] = "checking"]
       /\ Idle /\ UNCHANGED <<disk, turns, known, paused, tables, history, faults>>

\* Bookkeeping: an identity is disordered once a response reached the spool or
\* the state row after a newer one did, or while a newer one was being checked.
Arrives(r) ==
    LET newer == {s \in Siblings(r) : /\ s > r
                                      /\ \/ s \in sighted \cup sidecars
                                         \/ applied[s] > 0 \/ phase[s] = "checking"}
    IN disordered' = IF newer = {} THEN disordered ELSE disordered \cup {IdentityOf[r]}

Newer(i, r) == IF known[i] >= r THEN known ELSE [known EXCEPT ![i] = r]

\* record_unchanged_response: it commits, or it reports nothing recorded and
\* the response is saved after all.
FinishCheck(r) ==
    /\ phase[r] = "checking"
    /\ \/ /\ Compact(r, FALSE)
          /\ phase' = [phase EXCEPT ![r] = "done"]
          /\ known' = Newer(IdentityOf[r], r)
          /\ sighted' = sighted \cup {r}
          /\ Arrives(r)
       \/ /\ phase' = [phase EXCEPT ![r] = "refused"]
          /\ UNCHANGED <<known, tables, sighted, disordered>>
    /\ Idle /\ UNCHANGED <<disk, turns, paused, applied, faults>>

\* The barrier of spool._publication: a cleaner that waits comes first.
BarrierOpen == cleaner.stage = "idle"

\* _publish_reserved: the body gets a file of its own, or has one already.
PublishBody(r) == files' = files \cup {BodyOf[r]}

\* publish_handoff under the stripe lock, up to the body file, or the pause
\* found under the lock: nothing was saved and the response is fetched again.
Publish(r) ==
    /\ phase[r] \in {"fetched", "refused"} /\ Siblings(r) \cap Publishing = {}
    /\ paused \/ BarrierOpen
    /\ phase' = [phase EXCEPT ![r] = IF paused THEN "lost" ELSE "publishing"]
    /\ IF paused THEN UNCHANGED files ELSE PublishBody(r)
    /\ Idle /\ UNCHANGED <<sidecars, turns, known, paused, tables, history, faults>>

\* The sidecar makes the handoff durable and fixes the response's turn.  When
\* it cannot be written the body stays behind, unreferenced; when the call fails
\* after the rename the sidecar is there and collection pauses.
WriteSidecar(r) ==
    /\ phase[r] = "publishing"
    /\ \/ /\ sidecars' = sidecars \cup {r}
          /\ turns' = [turns EXCEPT ![IdentityOf[r]] = Append(@, r)]
          /\ phase' = [phase EXCEPT ![r] = "saved"]
          /\ Arrives(r)
          /\ UNCHANGED <<paused, faults>>
       \/ /\ faults < MaxFaults /\ faults' = faults + 1
          /\ \/ /\ phase' = [phase EXCEPT ![r] = "lost"]
                /\ UNCHANGED <<sidecars, paused, disordered>>
             \/ /\ phase' = [phase EXCEPT ![r] = "left"]
                /\ sidecars' = sidecars \cup {r} /\ paused' = TRUE
                /\ Arrives(r)
          /\ UNCHANGED turns
    /\ Idle /\ UNCHANGED <<files, known, tables, applied, sighted>>

-----------------------------------------------------------------------------
(* Committing saved responses, one identity's in the order they were saved *)

Turn(r) == turns[IdentityOf[r]] # <<>> /\ Head(turns[IdentityOf[r]]) = r

\* The response is settled: the next of its identity has its turn.
Settle(r, next) ==
    /\ phase' = [phase EXCEPT ![r] = next]
    /\ turns' = [turns EXCEPT ![IdentityOf[r]] = RemoveFirst(@, r)]

\* Its turn has come: at once, or in a background task after a lock held up an
\* earlier response or its own first try.
BeginCommit(r) ==
    /\ phase[r] = "saved" /\ Turn(r) /\ ~paused /\ mode # "recovering"
    /\ phase' = [phase EXCEPT ![r] = "committing"]
    /\ Idle /\ UNCHANGED <<disk, turns, known, paused, tables, history, faults>>

\* LockNotAvailable: a worker holds the player, or cleanup the hash.
LockBusy(r) ==
    /\ phase[r] = "committing"
    /\ phase' = [phase EXCEPT ![r] = "saved"]
    /\ Idle /\ UNCHANGED <<disk, turns, known, paused, tables, history, faults>>

CommitResponse(r) ==
    /\ phase[r] = "committing" /\ ~HashLocked(BodyOf[r])
    /\ Record(r, FALSE)
    /\ phase' = [phase EXCEPT ![r] = "recorded"]
    /\ known' = Newer(IdentityOf[r], r)
    /\ Idle /\ UNCHANGED <<disk, turns, paused, sighted, disordered, faults>>

\* Any other error, also of a commit that landed, pauses collection: restart
\* recovery has to find out what became of the saved response.
CommitFails(r) ==
    /\ phase[r] = "committing"
    /\ faults < MaxFaults /\ faults' = faults + 1
    /\ \/ ~HashLocked(BodyOf[r]) /\ Record(r, FALSE)
       \/ UNCHANGED <<tables, applied>>
    /\ Settle(r, "left") /\ paused' = TRUE
    /\ Idle /\ UNCHANGED <<disk, known, sighted, disordered>>

\* remove_handoff; when it fails collection pauses, the response is committed.
RemoveSidecar(r) ==
    /\ phase[r] = "recorded" /\ mode # "recovering"
    /\ \/ sidecars' = sidecars \ {r} /\ Settle(r, "done") /\ UNCHANGED <<paused, faults>>
       \/ /\ faults < MaxFaults /\ faults' = faults + 1
          /\ Settle(r, "left") /\ paused' = TRUE /\ UNCHANGED sidecars
    /\ Idle /\ UNCHANGED <<files, known, tables, history>>

\* A saved response whose collector is paused, or whose background task finds
\* the collector stopping, is left for restart recovery.
LeaveSaved(r) ==
    /\ phase[r] = "saved" /\ (paused \/ mode = "stopping")
    /\ Settle(r, "left") /\ paused' = TRUE
    /\ Idle /\ UNCHANGED <<disk, known, tables, history, faults>>

-----------------------------------------------------------------------------
(* Stopping, dying and restart recovery *)

\* Memory and the open transactions are gone; files, sidecars and rows stay.
Dead ==
    /\ mode' = "down" /\ recovery' = <<>> /\ cleaner' = NoCleaner
    /\ phase' = [r \in Responses |-> IF r \in sidecars THEN "left"
                                     ELSE IF phase[r] \in {"none", "done"} THEN phase[r] ELSE "lost"]
    /\ turns' = [i \in Identities |-> <<>>]
    /\ known' = [i \in Identities |-> None]
    /\ paused' = FALSE
    /\ UNCHANGED <<disk, tables, history, faults>>

Crash ==
    /\ mode # "down" /\ crashes < MaxCrashes
    /\ crashes' = crashes + 1
    /\ Dead

\* /livez answers handoff_recovery_required: Podman kills the collector and
\* systemd starts it again.
Kill == paused /\ Dead /\ UNCHANGED crashes

\* A stop signal.
Stop ==
    /\ mode = "running"
    /\ mode' = "stopping"
    /\ UNCHANGED <<disk, memory, recovery, cleaner, tables, history, crashes, faults>>

Exit ==
    /\ mode = "stopping" /\ cleaner = NoCleaner
    /\ \A r \in Responses : phase[r] \in {"none", "left", "done", "lost"}
    /\ Dead /\ UNCHANGED crashes

Applied(r) == row[IdentityOf[r]].marker = r

\* Mutant of RecoveryOrder: received order only.
RecoveryOrderReceived(S) == SetToSortSeq(S, LAMBDA r, s : r > s)

\* The numbers of T in their order.
Increasing(T) ==
    CHOOSE s \in [1 .. Cardinality(T) -> T] : \A j, k \in DOMAIN s : j < k => s[j] < s[k]

\* Those the state rows name as applied, then the rest as they were received.
RecoveryOrder(S) ==
    Increasing({r \in S : Applied(r)}) \o Increasing({r \in S : ~Applied(r)})

\* recover_handoffs refuses to start while a sidecar's body is missing.
Restart ==
    /\ mode = "down"
    /\ \A r \in sidecars : BodyOf[r] \in files
    /\ mode' = "recovering"
    /\ recovery' = RecoveryOrder(sidecars)
    /\ UNCHANGED <<disk, memory, cleaner, tables, history, crashes, faults>>

RecoverResponse ==
    /\ mode = "recovering" /\ recovery # <<>>
    /\ LET r == Head(recovery)
       IN /\ phase[r] = "left"
          /\ Record(r, TRUE)
          /\ phase' = [phase EXCEPT ![r] = "recorded"]
          /\ known' = Newer(IdentityOf[r], r)
    /\ UNCHANGED <<disk, turns, paused, mode, recovery, cleaner, sighted, disordered, crashes, faults>>

RecoverSidecar ==
    /\ mode = "recovering" /\ recovery # <<>>
    /\ phase[Head(recovery)] = "recorded"
    /\ sidecars' = sidecars \ {Head(recovery)}
    /\ phase' = [phase EXCEPT ![Head(recovery)] = "done"]
    /\ recovery' = Tail(recovery)
    /\ UNCHANGED <<files, turns, known, paused, mode, cleaner, tables, history, crashes, faults>>

\* The responses of one identity, in the order of the list.
OfIdentity(list, i) ==
    LET at == Increasing({k \in DOMAIN list : IdentityOf[list[k]] = i})
    IN [k \in DOMAIN at |-> list[at[k]]]

\* A lock ends recovery: this and every later response commit in background
\* tasks of their identities, in recovery order (commit_unrecovered).
RecoveryBusy ==
    /\ mode = "recovering" /\ recovery # <<>> /\ phase[Head(recovery)] = "left"
    /\ faults < MaxFaults /\ faults' = faults + 1
    /\ phase' = [r \in Responses |-> IF r \in ToSet(recovery) THEN "saved" ELSE phase[r]]
    /\ turns' = [i \in Identities |-> OfIdentity(recovery, i)]
    /\ recovery' = <<>>
    /\ UNCHANGED <<disk, known, paused, mode, cleaner, tables, history, crashes>>

-----------------------------------------------------------------------------
(* Deleting body files behind the publication barrier *)

Quiet == UNCHANGED <<sidecars, memory, mode, recovery, history, crashes, faults>>

Handoffs == {BodyOf[r] : r \in sidecars}

\* REFERENCED_SPOOL_HASHES_SQL.
Referenced == kept \cup {BodyOf[r] : r \in {s \in Responses : evidence[s] = "unbound"}}

\* deletable_hashes and delete_spool_if_deletable: archived, still kept, and no
\* unfinished processing of those bytes.
Deletable(b) ==
    /\ upload[b] = "complete" /\ b \in kept
    /\ \A r \in Observed : BodyOf[r] = b => r \in processed

\* A pass asks for the barrier: the sweep at startup, every minute and at the
\* end; cleanup of the archived bodies it has looked up before.
StartPass(kind, chosen) ==
    /\ cleaner = NoCleaner /\ mode \in {"recovering", "running", "stopping"} /\ recovery = <<>>
    /\ kind = "sweep" => chosen = {}
    /\ kind = "cleanup" => chosen # {} /\ mode # "recovering" /\ \A b \in chosen : Deletable(b)
    /\ cleaner' = [NoCleaner EXCEPT !.kind = kind, !.stage = "waiting", !.chosen = chosen]
    /\ Quiet /\ UNCHANGED <<files, tables>>

\* The barrier is taken once no publication is under way; then the sidecars
\* are read.
TakeBarrier ==
    /\ cleaner.stage = "waiting" /\ Publishing = {}
    /\ cleaner' = [cleaner EXCEPT !.stage = "active", !.protected = Handoffs]
    /\ Quiet /\ UNCHANGED <<files, tables>>

\* Mutant of SweepFiles: only archived bodies are removed, so that those of
\* compacted responses stay for ever.
SweepFilesArchived ==
    /\ cleaner.kind = "sweep" /\ cleaner.stage = "active"
    /\ files' = files \ {b \in Bodies \ (cleaner.protected \cup Referenced) : upload[b] = "complete"}
    /\ cleaner' = NoCleaner
    /\ mode' = IF mode = "recovering" THEN "running" ELSE mode
    /\ UNCHANGED <<sidecars, memory, recovery, history, crashes, faults, tables>>

\* remove_unreferenced: the database is read after the sidecars and within the
\* barrier; the read may run out of time and the pass deletes nothing.  The one
\* at startup ends recovery.
SweepFiles ==
    /\ cleaner.kind = "sweep" /\ cleaner.stage = "active"
    /\ \/ files' = files \cap (cleaner.protected \cup Referenced) /\ UNCHANGED faults
       \/ faults < MaxFaults /\ faults' = faults + 1 /\ UNCHANGED files
    /\ cleaner' = NoCleaner
    /\ mode' = IF mode = "recovering" THEN "running" ELSE mode
    /\ UNCHANGED <<sidecars, memory, recovery, history, crashes, tables>>

\* Mutant of Doomed: the rows chosen earlier are not read again.
DoomedStale == cleaner.chosen \ cleaner.protected

\* Of the chosen bodies, those still deletable under their locks and without a
\* sidecar.
Doomed == {b \in cleaner.chosen \ cleaner.protected : Deletable(b)}

\* delete_spool_if_deletable removes the files, then commits the rows.
CleanupFiles ==
    /\ cleaner.kind = "cleanup" /\ cleaner.stage = "active"
    /\ files' = files \ Doomed
    /\ cleaner' = [cleaner EXCEPT !.stage = "deleted", !.chosen = Doomed]
    /\ Quiet /\ UNCHANGED tables

CleanupRows ==
    /\ cleaner.stage = "deleted"
    /\ kept' = kept \ cleaner.chosen
    /\ cleaner' = NoCleaner
    /\ Quiet /\ UNCHANGED <<files, row, evidence, processed, upload, retired>>

-----------------------------------------------------------------------------
(* Uploads, processing and retirement, as this component sees them *)

Outside == UNCHANGED <<disk, memory, mode, recovery, cleaner, history, crashes, faults>>

\* complete_upload: the spool's body is archived and its observations bound.
UploadBody(b) ==
    /\ upload[b] = "pending" /\ b \in files /\ ~HashLocked(b)
    /\ upload' = [upload EXCEPT ![b] = "complete"]
    /\ evidence' = [r \in Responses |->
                      IF BodyOf[r] = b /\ evidence[r] = "unbound" THEN "bound" ELSE evidence[r]]
    /\ Outside /\ UNCHANGED <<row, processed, kept, retired>>

Process(r) ==
    /\ r \in Observed \ processed
    /\ processed' = processed \cup {r}
    /\ Outside /\ UNCHANGED <<row, evidence, upload, kept, retired>>

\* The archive location of an upload is due: nothing uploads or processes it.
RetireBody(b) ==
    /\ upload[b] = "complete" /\ b \notin retired
    /\ \A r \in Observed : BodyOf[r] = b => r \in processed
    /\ retired' = retired \cup {b}
    /\ evidence' = [r \in Responses |->
                      IF BodyOf[r] = b /\ evidence[r] = "bound" THEN "retired" ELSE evidence[r]]
    /\ Outside /\ UNCHANGED <<row, processed, upload, kept>>

-----------------------------------------------------------------------------
CollectStep(r) ==
    \/ Publish(r) \/ FinishCheck(r) \/ WriteSidecar(r) \/ BeginCommit(r)
    \/ CommitResponse(r) \/ RemoveSidecar(r) \/ LeaveSaved(r)

RecoverStep == RecoverResponse \/ RecoverSidecar \/ (mode = "recovering" /\ StartPass("sweep", {}))

CleanStep == TakeBarrier \/ SweepFiles \/ CleanupFiles \/ CleanupRows

Next ==
    \/ \E r \in Responses :
          \/ Fetch(r) \/ CheckUnchanged(r) \/ CollectStep(r) \/ LockBusy(r) \/ CommitFails(r)
          \/ Process(r)
    \/ Crash \/ Kill \/ Stop \/ Exit \/ Restart \/ RecoverResponse \/ RecoverSidecar \/ RecoveryBusy
    \/ \E kind \in {"sweep", "cleanup"}, chosen \in SUBSET Bodies : StartPass(kind, chosen)
    \/ CleanStep
    \/ \E b \in Bodies : UploadBody(b) \/ RetireBody(b)

Spec == Init /\ [][Next]_vars

\* The collector's tasks and threads run; a lock is free again sooner or later
\* and its waiter retries every 2 s (_RETRY_SECONDS); Podman and systemd restart
\* a paused collector; the upload loop sweeps and cleans up every minute, in
\* turn; the uploads process and the worker do their work.
Fairness ==
    /\ \A r \in Responses : /\ WF_vars(CollectStep(r)) /\ SF_vars(CommitResponse(r))
                            /\ WF_vars(Process(r))
    /\ WF_vars(Kill) /\ WF_vars(Exit) /\ WF_vars(Restart) /\ WF_vars(RecoverStep)
    /\ WF_vars(CleanStep)
    /\ SF_vars(StartPass("sweep", {}) /\ mode = "running")
    /\ \A b \in Bodies :
          /\ SF_vars(\E chosen \in SUBSET Bodies : b \in chosen /\ StartPass("cleanup", chosen))
          /\ SF_vars(UploadBody(b))

FairSpec == Spec /\ Fairness

-----------------------------------------------------------------------------
(* Properties *)

\* A handoff sidecar always has its body file: without it restart recovery
\* would refuse to start for ever (recover_handoffs, the publication barrier).
HandoffHasBody == \A r \in sidecars : BodyOf[r] \in files

\* A saved response is never lost: until the database has applied it, its
\* sidecar stays for restart recovery (_commit_saved removes it last).
SavedIsKept ==
    \A r \in Responses :
        phase[r] \in {"saved", "committing", "left", "done"} =>
            r \in sidecars \/ applied[r] > 0 \/ r \in sighted

\* The bytes of an observation are in the spool until the archive has them, so
\* its upload and its processing always find them, whatever sweeps, cleanups,
\* crashes and retirements did in between.
BytesReachable ==
    \A r \in Observed :
        evidence[r] = "unbound" => BodyOf[r] \in files /\ upload[BodyOf[r]] = "pending"

\* No body file is deleted while a handoff or an upload still leads to it,
\* whatever the sweeps and cleanups read before they had the barrier.
BodiesKept == HandoffHasBody /\ BytesReachable

\* record_response applies a saved response once, also when it is repeated by
\* restart recovery after a commit nobody saw end, and the state row keeps the
\* newest response applied or sighted, whatever the order of commits.
NewestKept ==
    /\ TypeOK
    /\ \A r \in Responses : applied[r] <= 1
    /\ \A r \in Responses :
        applied[r] > 0 \/ r \in sighted => row[IdentityOf[r]].newest >= r

\* A saved response reaches the database, and once.
SavedOnce == SavedIsKept /\ NewestKept

\* Of an identity whose responses reached the spool as they were received, no
\* change is compacted away: a response that differs from the one recorded
\* before it has an observation of its own, through background commits,
\* pauses and recoveries (collector_commits, recover_handoffs).
ChangeKept ==
    \A r, s \in Responses :
        /\ IdentityOf[r] = IdentityOf[s] /\ IdentityOf[r] \notin disordered
        /\ r < s /\ Content(r) # Content(s)
        /\ \A t \in {r, s} : applied[t] > 0 \/ t \in sighted
        /\ \A t \in r + 1 .. s - 1 : IdentityOf[t] = IdentityOf[r] =>
                                          applied[t] = 0 /\ t \notin sighted /\ t \notin sidecars
        => evidence[s] # "none"

\* Every saved response is settled: its sidecar goes once its commit is known,
\* whatever finite number of faults and crashes it meets.
SidecarSettled == \A r \in Responses : r \in sidecars ~> r \notin sidecars

\* Someone may still read a body file: a handoff waits, its upload does, or
\* processing does.
Needed(b) ==
    \/ b \in Handoffs \/ upload[b] = "pending"
    \/ \E r \in Responses : BodyOf[r] = b /\ (phase[r] = "publishing" \/ r \in Observed \ processed)

\* The spool drains: a body file nobody needs is deleted in the end, also the
\* one a compacted response or a failed publication left behind
\* (_sweep_unreferenced, cleanup_uploaded).
SpoolDrains == \A b \in Bodies : (b \in files /\ ~Needed(b)) ~> (b \notin files \/ Needed(b))

\* The spool empties: sidecars are settled and body files nobody needs go.
SpoolSettles == SidecarSettled /\ SpoolDrains
=============================================================================
