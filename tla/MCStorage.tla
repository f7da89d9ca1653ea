----------------------------- MODULE MCStorage -----------------------------
(***************************************************************************)
(* The spool and the archive of response bodies under their fairness, on   *)
(* instances smaller than those of their safety runs.  The spool's model   *)
(* has the archive as one step, so a behaviour follows one of the two.     *)
(***************************************************************************)
EXTENDS SpoolHandoff, TLC

CONSTANTS
    i1, i2, b1, c1,
    Owners, Sightings, Original, Generations, WaitAttempts, RecoveryWindow, RecoveryHold,
    MaxTime, MaxArchiveFaults

VARIABLES
    followed,   \* "spool" or "archive"
    spooled, archiving, catalogue, since, bound, objects, puts, drawn, claims, lane,
    sighting, point, now, archiveFaults

\* Two identities whose responses share a body.
MCApart == <<i1, i2>>
MCBoth == <<b1, b1>>
MCOneContent == b1 :> c1

Archive == INSTANCE ArchiveUploads WITH
    upload <- archiving, faults <- archiveFaults, MaxFaults <- MaxArchiveFaults

archive == <<spooled, archiving, catalogue, since, bound, objects, puts, drawn, claims, lane,
             sighting, point, now, archiveFaults>>
stored == <<vars, archive>>

StorageInit == followed \in {"spool", "archive"} /\ Init /\ Archive!Init

StorageNext ==
    \/ followed = "spool" /\ Next /\ UNCHANGED <<followed, archive>>
    \/ followed = "archive" /\ Archive!Next /\ UNCHANGED <<followed, vars>>

\* Each component's own fairness, a condition of each to a formula: only the
\* actions of the component followed can happen.
InSpool == followed = "spool" /\ UNCHANGED archive
InArchive == followed = "archive" /\ UNCHANGED vars

StorageFairness ==
    /\ WF_stored(\/ CollectStep(1) /\ InSpool
                 \/ (\E o \in Owners : Archive!OwnerStep(o)) /\ InArchive)
    /\ WF_stored(\/ CollectStep(2) /\ InSpool
                 \/ Archive!Expire /\ InArchive)
    /\ WF_stored(\/ Process(1) /\ InSpool
                 \/ (\E p \in puts : Archive!Land(p)) /\ InArchive)
    /\ WF_stored(\/ Process(2) /\ InSpool
                 \/ (\E s \in Sightings : \/ Archive!CommitSighting(s)
                                          \/ Archive!AbortSighting(s)) /\ InArchive)
    /\ WF_stored(Kill /\ InSpool) /\ WF_stored(Exit /\ InSpool)
    /\ WF_stored(Restart /\ InSpool) /\ WF_stored(RecoverStep /\ InSpool)
    /\ WF_stored(CleanStep /\ InSpool)
    /\ SF_stored(\/ CommitResponse(1) /\ InSpool
                 \/ (\E o \in Owners : Archive!Complete(o)) /\ InArchive)
    /\ SF_stored(\/ CommitResponse(2) /\ InSpool
                 \/ (\E o \in Owners : Archive!Fail(o)) /\ InArchive)
    /\ SF_stored(\/ StartPass("sweep", {}) /\ mode = "running" /\ InSpool
                 \/ (\E o \in Owners : Archive!Claim(o)) /\ InArchive)
    /\ SF_stored(\/ StartPass("cleanup", {b1}) /\ InSpool
                 \/ Archive!ReleaseExpired /\ InArchive)
    /\ SF_stored(UploadBody(b1) /\ InSpool)

StorageSpec == StorageInit /\ [][StorageNext]_<<followed, stored>> /\ StorageFairness

\* ArchiveUploads' liveness property, where the archive is followed.
UploadSettles == followed = "archive" => Archive!UploadSettles
=============================================================================
