------------------------ MODULE ArchiveUploadsProofs ------------------------
(***************************************************************************)
(* Proofs about ArchiveUploads for every number of owners, sightings and   *)
(* locations, every waiting time and every recovery window shorter than    *)
(* the hold.                                                               *)
(*                                                                         *)
(* A restore replaces the database by an earlier state of it, so what is   *)
(* proved of the database must be proved of the saved point too:           *)
(*   IType   types; a complete upload has a location; no observation       *)
(*           waits for a finished upload; the same of the saved point.     *)
(*   IInv    a usable location has its bytes; so has one an owner is about *)
(*           to complete, unless it was marked meanwhile; and what the     *)
(*           saved point calls usable keeps its bytes while the point can  *)
(*           be restored: a location is deleted RecoveryHold after it was  *)
(*           marked, which is longer than RecoveryWindow                   *)
(*           (ReleasedIsUnusable).                                         *)
(*   WritesInv  every write that may still land belongs to an attempt that *)
(*           the upload row, or the owner of its lease, still waits for.   *)
(***************************************************************************)
EXTENDS ArchiveUploads, TLAPS

\* What the type of an upload row does not say.
Shape(u) ==
    /\ u.state = "leased" <=> u.token > 0
    /\ u.live => u.state = "leased"
    /\ u.state = "complete" => u.location \in Locations

\* An unbound observation of a database keeps its upload unfinished.
Waits(u, b) ==
    (\E s \in Sightings : b[s] = "unbound") => u.state \in {"pending", "leased", "failed"}

\* The point to restore to was a state of the database.
PointIsSound ==
    point.at >= 0 =>
       /\ ~point.used /\ Shape(point.saved.upload)
       /\ Waits(point.saved.upload, point.saved.bound)

IType == TypeOK /\ Shape(upload) /\ PointIsSound /\ UnboundIsUploading

-----------------------------------------------------------------------------
(* Types *)

LEMMA Fields ==
    /\ Saved.upload = upload /\ Saved.catalogue = catalogue
    /\ Saved.since = since /\ Saved.bound = bound
    /\ Saved \in Database <=>
          /\ upload \in Upload /\ catalogue \in [Locations -> Availability]
          /\ since \in [Locations -> Nat]
          /\ bound \in [Sightings -> Locations \cup {None, "unbound"}]
  BY DEF Saved, Database

LEMMA FieldsNext ==
    Saved' \in Database <=>
          /\ upload' \in Upload /\ catalogue' \in [Locations -> Availability]
          /\ since' \in [Locations -> Nat]
          /\ bound' \in [Sightings -> Locations \cup {None, "unbound"}]
  BY DEF Saved, Database

\* What an upload row's statements write: a row of the given state.
Row(u, state) == u \in Upload /\ Shape(u) /\ u.state = state

LEMMA RowBy ==
    ASSUME NEW u \in Upload, NEW state, u.state = state,
           state = "leased" <=> u.token > 0, u.live => state = "leased",
           state = "complete" => u.location \in Locations
    PROVE  Row(u, state)
  BY DEF Row, Shape

LEMMA LeasedRow ==
    ASSUME NEW u \in Upload, NEW g \in Locations, NEW t \in Nat, t > 0
    PROVE  Row([u EXCEPT !.state = "leased", !.token = t, !.live = TRUE,
                   !.attempts = u.attempts + 1, !.settled = 0, !.retry = FALSE,
                   !.generation = g], "leased")
<1> DEFINE v(n) == [u EXCEPT !.state = "leased", !.token = t, !.live = TRUE, !.attempts = n,
                             !.settled = 0, !.retry = FALSE, !.generation = g]
<1>1. \A n \in Nat : v(n) \in Upload /\ v(n).state = "leased" /\ v(n).token = t
  BY DEF Upload, Tokens
<1>2. u.attempts + 1 \in Nat
  BY DEF Upload
<1>3. Row(v(u.attempts + 1), "leased")
  <2> HIDE DEF v
  <2> QED BY <1>1, <1>2, RowBy
<1> QED BY <1>3

LEMMA ReopenedRow ==
    ASSUME NEW u \in Upload, NEW g \in Locations
    PROVE  Row(Reopened(u, g), "pending")
<1>1. /\ Reopened(u, g) \in Upload /\ Reopened(u, g).state = "pending"
      /\ Reopened(u, g).token = 0 /\ Reopened(u, g).live = FALSE
  BY DEF Reopened, Upload, Tokens
<1> QED BY <1>1, RowBy

LEMMA PendingRow ==
    ASSUME NEW u \in Upload, Shape(u), u.state # "leased"
    PROVE  Row([u EXCEPT !.state = "pending"], "pending")
<1> DEFINE v == [u EXCEPT !.state = "pending"]
<1>1. v \in Upload /\ v.state = "pending" /\ v.token = u.token /\ v.live = u.live
  BY DEF Upload
<1>2. ~(v.token > 0) /\ ~v.live
  BY <1>1 DEF Shape
<1>3. Row(v, "pending")
  <2> HIDE DEF v
  <2> QED BY <1>1, <1>2, RowBy
<1> QED BY <1>3

LEMMA ReleasedRow ==
    ASSUME NEW u \in Upload, ~u.live
    PROVE  Row([u EXCEPT !.state = "pending", !.token = 0], "pending")
<1> DEFINE v == [u EXCEPT !.state = "pending", !.token = 0]
<1>1. v \in Upload /\ v.state = "pending" /\ v.token = 0 /\ v.live = u.live
  BY DEF Upload, Tokens
<1>2. Row(v, "pending")
  <2> HIDE DEF v
  <2> QED BY <1>1, RowBy
<1> QED BY <1>2

LEMMA MovedRow ==
    ASSUME NEW u \in Upload, NEW g \in Locations
    PROVE  Row([u EXCEPT !.state = "pending", !.generation = g,
                         !.token = 0, !.live = FALSE], "pending")
<1> DEFINE v == [u EXCEPT !.state = "pending", !.generation = g, !.token = 0, !.live = FALSE]
<1>1. v \in Upload /\ v.state = "pending" /\ v.token = 0 /\ v.live = FALSE
  BY DEF Upload, Tokens
<1>2. Row(v, "pending")
  <2> HIDE DEF v
  <2> QED BY <1>1, RowBy
<1> QED BY <1>2

LEMMA SettledRow ==
    ASSUME NEW u \in Upload, NEW o \in Owners, lane[o].token \in Nat
    PROVE  /\ Settled(o, u) \in Upload
           /\ Settled(o, u).token = 0 /\ Settled(o, u).live = FALSE
  BY DEF Settled, Upload, Tokens

LEMMA CompletedRow ==
    ASSUME NEW u \in Upload, u.token = 0, u.live = FALSE, NEW g \in Locations
    PROVE  Row([u EXCEPT !.state = "complete", !.location = g], "complete")
<1> DEFINE v == [u EXCEPT !.state = "complete", !.location = g]
<1>1. /\ v \in Upload /\ v.state = "complete" /\ v.location = g
      /\ v.token = u.token /\ v.live = u.live
  BY DEF Upload
<1>2. Row(v, "complete")
  <2> HIDE DEF v
  <2> QED BY <1>1, RowBy
<1> QED BY <1>2

LEMMA FailedRow ==
    ASSUME NEW u \in Upload, u.token = 0, u.live = FALSE,
           NEW b \in BOOLEAN, NEW c \in BOOLEAN, NEW w \in Nat
    PROVE  Row([u EXCEPT !.state = "failed", !.retry = b, !.missing = c, !.wrote = w], "failed")
<1> DEFINE v == [u EXCEPT !.state = "failed", !.retry = b, !.missing = c, !.wrote = w]
<1>1. v \in Upload /\ v.state = "failed" /\ v.token = u.token /\ v.live = u.live
  BY DEF Upload
<1>2. Row(v, "failed")
  <2> HIDE DEF v
  <2> QED BY <1>1, RowBy
<1> QED BY <1>2

LEMMA ExpiredRow ==
    ASSUME NEW u \in Upload, Shape(u), u.state = "leased"
    PROVE  Row([u EXCEPT !.live = FALSE], "leased")
<1> DEFINE v == [u EXCEPT !.live = FALSE]
<1>1. v \in Upload /\ v.state = u.state /\ v.token = u.token
  BY DEF Upload
<1>2. v.token > 0
  BY <1>1 DEF Shape
<1>3. Row(v, "leased")
  <2> HIDE DEF v
  <2> QED BY <1>1, <1>2, RowBy
<1> QED BY <1>3

LEMMA FirstRow ==
    NoUpload \in Upload /\ Shape(NoUpload) /\ Row([NoUpload EXCEPT !.state = "pending"], "pending")
<1>1. NoUpload \in Upload
  BY DEF NoUpload, Upload, Tokens, Locations
<1>2. NoUpload.state = "none" /\ NoUpload.token = 0 /\ NoUpload.live = FALSE
  BY DEF NoUpload
<1> QED BY <1>1, <1>2, PendingRow DEF Shape

LEMMA LaneWrites ==
    ASSUME NEW r \in Lane, NEW t \in Nat, NEW n \in Nat, NEW w \in Nat, NEW g \in Locations,
           NEW b \in BOOLEAN, NEW c \in BOOLEAN,
           NEW at \in {"idle", "claimed", "putting", "reading", "completing", "failing"}
    PROVE  /\ IdleLane \in Lane
           /\ [IdleLane EXCEPT !.at = "claimed", !.token = t, !.generation = g,
                               !.attempt = n, !.unresolved = w] \in Lane
           /\ [r EXCEPT !.at = at] \in Lane
           /\ [r EXCEPT !.at = at, !.wrote = b] \in Lane
           /\ [r EXCEPT !.at = at, !.retry = b, !.missing = c] \in Lane
  BY DEF Lane, IdleLane, Tokens, Locations

-----------------------------------------------------------------------------
(* Which steps change what *)

LEMMA WhoWritesUpload ==
    ASSUME Next
    PROVE  \/ \E s \in Sightings : CommitSighting(s)
           \/ \E o \in Owners : Claim(o) \/ Complete(o) \/ Fail(o)
           \/ Expire \/ ReleaseExpired \/ OperatorRetry \/ Restore
           \/ UNCHANGED upload
<1> USE DEF database, recovery
<1>1. CASE \E s \in Sightings : OpenSighting(s) \/ AbortSighting(s)
  BY <1>1 DEF OpenSighting, AbortSighting
<1>2. CASE \E o \in Owners : LoseLease(o) \/ ReadSpool(o) \/ WriteAnswers(o) \/ ReadBack(o) \/ Crash(o)
  BY <1>2 DEF LoseLease, ReadSpool, WriteAnswers, ReadBack, Crash
<1>3. CASE \E p \in puts : Land(p) \/ Drop(p)
  BY <1>3 DEF Land, Drop
<1>4. CASE CleanSpool \/ LoseCopy \/ Tick \/ TakePoint
  BY <1>4 DEF CleanSpool, LoseCopy, Tick, TakePoint
<1>5. CASE \E l \in Locations : Mark(l) \/ DeleteObject(l)
  BY <1>5 DEF Mark, DeleteObject
<1> QED BY <1>1, <1>2, <1>3, <1>4, <1>5 DEF Next, OwnerStep

LEMMA WhoWritesTables ==
    ASSUME Next
    PROVE  \/ \E s \in Sightings : CommitSighting(s)
           \/ \E o \in Owners : Complete(o)
           \/ \E l \in Locations : Mark(l) \/ DeleteObject(l)
           \/ Restore
           \/ UNCHANGED <<catalogue, since, bound>>
<1> USE DEF database, recovery
<1>1. CASE \E s \in Sightings : OpenSighting(s) \/ AbortSighting(s)
  BY <1>1 DEF OpenSighting, AbortSighting
<1>2. CASE \E o \in Owners : LoseLease(o) \/ ReadSpool(o) \/ WriteAnswers(o) \/ ReadBack(o) \/ Crash(o)
  BY <1>2 DEF LoseLease, ReadSpool, WriteAnswers, ReadBack, Crash
<1>3. CASE \E p \in puts : Land(p) \/ Drop(p)
  BY <1>3 DEF Land, Drop
<1>4. CASE CleanSpool \/ LoseCopy \/ Tick \/ TakePoint
  BY <1>4 DEF CleanSpool, LoseCopy, Tick, TakePoint
<1>5. CASE \E o \in Owners : Claim(o) \/ Fail(o)
  BY <1>5 DEF Claim, Fail
<1>6. CASE Expire \/ ReleaseExpired \/ OperatorRetry
  BY <1>6 DEF Expire, ReleaseExpired, OperatorRetry
<1> QED BY <1>1, <1>2, <1>3, <1>4, <1>5, <1>6 DEF Next, OwnerStep

LEMMA WhoWritesLanes ==
    ASSUME Next
    PROVE  \/ \E o \in Owners : OwnerStep(o) \/ Crash(o)
           \/ Restore
           \/ UNCHANGED lane
<1>1. CASE \E s \in Sightings : OpenSighting(s) \/ CommitSighting(s) \/ AbortSighting(s)
  BY <1>1 DEF OpenSighting, CommitSighting, AbortSighting
<1>2. CASE \E p \in puts : Land(p) \/ Drop(p)
  BY <1>2 DEF Land, Drop
<1>3. CASE CleanSpool \/ LoseCopy \/ Tick \/ TakePoint
  BY <1>3 DEF CleanSpool, LoseCopy, Tick, TakePoint
<1>4. CASE Expire \/ ReleaseExpired \/ OperatorRetry
  BY <1>4 DEF Expire, ReleaseExpired, OperatorRetry
<1>5. CASE \E l \in Locations : Mark(l) \/ DeleteObject(l)
  BY <1>5 DEF Mark, DeleteObject
<1> QED BY <1>1, <1>2, <1>3, <1>4, <1>5 DEF Next

LEMMA WhoWritesRecovery ==
    ASSUME Next
    PROVE  Tick \/ TakePoint \/ Restore \/ UNCHANGED <<point, now>>
<1> USE DEF recovery
<1>1. CASE \E s \in Sightings : OpenSighting(s) \/ CommitSighting(s) \/ AbortSighting(s)
  BY <1>1 DEF OpenSighting, CommitSighting, AbortSighting
<1>2. CASE \E o \in Owners : OwnerStep(o) \/ Crash(o)
  BY <1>2 DEF OwnerStep, Claim, LoseLease, ReadSpool, WriteAnswers, ReadBack, Complete, Fail, Crash
<1>3. CASE \E p \in puts : Land(p) \/ Drop(p)
  BY <1>3 DEF Land, Drop
<1>4. CASE Expire \/ ReleaseExpired \/ OperatorRetry \/ CleanSpool \/ LoseCopy
  BY <1>4 DEF Expire, ReleaseExpired, OperatorRetry, CleanSpool, LoseCopy
<1>5. CASE \E l \in Locations : Mark(l) \/ DeleteObject(l)
  BY <1>5 DEF Mark, DeleteObject
<1> QED BY <1>1, <1>2, <1>3, <1>4, <1>5 DEF Next

\* Only a deletion takes an object away.
LEMMA WhoDeletes ==
    ASSUME Next
    PROVE  (\E l \in Locations : DeleteObject(l)) \/ objects \subseteq objects'
<1> USE DEF store
<1>1. CASE \E s \in Sightings : OpenSighting(s) \/ CommitSighting(s) \/ AbortSighting(s)
  BY <1>1 DEF OpenSighting, CommitSighting, AbortSighting
<1>2. CASE \E o \in Owners : OwnerStep(o) \/ Crash(o)
  BY <1>2 DEF OwnerStep, Claim, LoseLease, ReadSpool, WriteAnswers, ReadBack, Complete, Fail, Crash
<1>3. CASE \E p \in puts : Land(p) \/ Drop(p)
  BY <1>3 DEF Land, Drop
<1>4. CASE Expire \/ ReleaseExpired \/ OperatorRetry \/ CleanSpool \/ LoseCopy
  BY <1>4 DEF Expire, ReleaseExpired, OperatorRetry, CleanSpool, LoseCopy
<1>5. CASE Tick \/ TakePoint \/ Restore \/ \E l \in Locations : Mark(l)
  BY <1>5 DEF Mark, Tick, TakePoint, Restore
<1> QED BY <1>1, <1>2, <1>3, <1>4, <1>5 DEF Next

-----------------------------------------------------------------------------
(* Type correctness *)

LEMMA Typed ==
    ASSUME TypeOK
    PROVE  /\ upload \in Upload /\ catalogue \in [Locations -> Availability]
           /\ since \in [Locations -> Nat]
           /\ bound \in [Sightings -> Locations \cup {None, "unbound"}]
           /\ \A o \in Owners : /\ lane[o] \in Lane /\ lane[o].generation \in Locations
                                /\ lane[o].token \in Nat /\ lane[o].unresolved \in Nat
                                /\ lane[o].attempt \in Nat
                                /\ lane[o].retry \in BOOLEAN /\ lane[o].missing \in BOOLEAN
           /\ sighting.seen \in Availability
           /\ point.saved \in Database /\ point.at \in Int /\ now \in Nat
<1>1. /\ upload \in Upload /\ catalogue \in [Locations -> Availability]
      /\ since \in [Locations -> Nat]
      /\ bound \in [Sightings -> Locations \cup {None, "unbound"}]
  BY Fields DEF TypeOK
<1>2. \A o \in Owners : lane[o] \in Lane
  BY DEF TypeOK
<1>3. \A r \in Lane : /\ r.generation \in Locations /\ r.token \in Nat
                      /\ r.unresolved \in Nat /\ r.attempt \in Nat
                      /\ r.retry \in BOOLEAN /\ r.missing \in BOOLEAN
  BY DEF Lane, Tokens
<1>4. sighting.seen \in Availability
  BY DEF TypeOK
<1>5. point.saved \in Database /\ point.at \in Int /\ now \in Nat
  BY ArchiveConstants DEF TypeOK
<1> QED BY <1>1, <1>2, <1>3, <1>4, <1>5

LEMMA SavedTypes ==
    ASSUME NEW d \in Database
    PROVE  /\ d.upload \in Upload /\ d.catalogue \in [Locations -> Availability]
           /\ d.since \in [Locations -> Nat]
           /\ d.bound \in [Sightings -> Locations \cup {None, "unbound"}]
  BY DEF Database

LEMMA UploadNext ==
    ASSUME IType, Next
    PROVE  upload' \in Upload /\ Shape(upload)'
<1>0. /\ TypeOK /\ Shape(upload) /\ PointIsSound /\ upload \in Upload /\ claims \in Nat
      /\ drawn \subseteq Generations
  BY Typed DEF IType, TypeOK
<1> SUFFICES upload' \in Upload /\ Shape(upload')
  BY DEF Shape
<1>1. ASSUME NEW s \in Sightings, CommitSighting(s)
      PROVE  upload' \in Upload /\ Shape(upload')
  <2>1. CASE UNCHANGED upload
    BY <2>1, <1>0
  <2>2. ASSUME NEW g \in Generations \ drawn, upload' = Reopened(upload, g)
        PROVE  upload' \in Upload /\ Shape(upload')
    BY <2>2, <1>0, ReopenedRow DEF Row, Locations
  <2>3. CASE upload' = [NoUpload EXCEPT !.state = "pending"]
    BY <2>3, FirstRow DEF Row
  <2> QED BY <1>1, <2>1, <2>2, <2>3 DEF CommitSighting, Sighted
<1>2. ASSUME NEW o \in Owners, Claim(o)
      PROVE  upload' \in Upload /\ Shape(upload')
  <2>1. PICK g : g \in Generations \cup {upload.generation} /\
             upload' = [upload EXCEPT !.state = "leased", !.token = claims + 1, !.live = TRUE,
                              !.attempts = @ + 1, !.settled = 0, !.retry = FALSE, !.generation = g]
    BY <1>2 DEF Claim
  <2>2. g \in Locations
    BY <2>1, <1>0 DEF Locations, Upload
  <2>3. claims + 1 \in Nat /\ claims + 1 > 0
    BY <1>0
  <2> QED BY <2>1, <2>2, <2>3, <1>0, LeasedRow DEF Row
<1>3. ASSUME NEW o \in Owners, Complete(o)
      PROVE  upload' \in Upload /\ Shape(upload')
  <2>1. CASE UNCHANGED upload
    BY <2>1, <1>0
  <2>2. CASE upload' = [Settled(o, upload) EXCEPT !.state = "complete", !.location = lane[o].generation]
    BY <2>2, <1>0, Typed, SettledRow, CompletedRow DEF Row
  <2>3. ASSUME NEW g \in Generations,
               upload' = [upload EXCEPT !.state = "pending", !.generation = g,
                                        !.token = 0, !.live = FALSE]
        PROVE  upload' \in Upload /\ Shape(upload')
    BY <2>3, <1>0, MovedRow DEF Row, Locations
  <2> QED BY <1>3, <2>1, <2>2, <2>3 DEF Complete, CompleteLive
<1>4. ASSUME NEW o \in Owners, Fail(o)
      PROVE  upload' \in Upload /\ Shape(upload')
  <2>1. CASE UNCHANGED upload
    BY <2>1, <1>0
  <2>2. ASSUME NEW w \in Nat,
               upload' = [Settled(o, upload) EXCEPT !.state = "failed", !.retry = lane[o].retry,
                             !.missing = lane[o].missing, !.wrote = w]
        PROVE  upload' \in Upload /\ Shape(upload')
    BY <2>2, <1>0, Typed, SettledRow, FailedRow DEF Row
  <2>3. (IF lane[o].wrote THEN 0 ELSE lane[o].unresolved) \in Nat
    BY <1>0, Typed
  <2> QED BY <1>4, <2>1, <2>2, <2>3 DEF Fail
<1>5. CASE Expire
  BY <1>5, <1>0, ExpiredRow DEF Expire, Row
<1>6. CASE ReleaseExpired
  BY <1>6, <1>0, ReleasedRow DEF ReleaseExpired, Row
<1>7. CASE OperatorRetry
  BY <1>7, <1>0, PendingRow DEF OperatorRetry, Row
<1>8. CASE Restore
  BY <1>8, <1>0, Typed, SavedTypes DEF Restore, PointIsSound
<1>9. CASE UNCHANGED upload
  BY <1>9, <1>0
<1> QED BY <1>1, <1>2, <1>3, <1>4, <1>5, <1>6, <1>7, <1>8, <1>9, WhoWritesUpload

LEMMA TablesNext ==
    ASSUME IType, Next
    PROVE  /\ catalogue' \in [Locations -> Availability]
           /\ since' \in [Locations -> Nat]
           /\ bound' \in [Sightings -> Locations \cup {None, "unbound"}]
<1> DEFINE Good == /\ catalogue' \in [Locations -> Availability]
                   /\ since' \in [Locations -> Nat]
                   /\ bound' \in [Sightings -> Locations \cup {None, "unbound"}]
<1>0. /\ TypeOK /\ upload \in Upload /\ catalogue \in [Locations -> Availability]
      /\ since \in [Locations -> Nat]
      /\ bound \in [Sightings -> Locations \cup {None, "unbound"}]
  BY Typed DEF IType
<1>1. ASSUME NEW s \in Sightings, CommitSighting(s)
      PROVE  Good
  <2>1. UNCHANGED <<catalogue, since>>
    BY <1>1 DEF CommitSighting
  <2>2. upload.location \in Locations \cup {None}
    BY <1>0 DEF Upload
  <2>3. \/ bound' = [bound EXCEPT ![s] = upload.location]
        \/ bound' = [bound EXCEPT ![s] = "unbound"]
    BY <1>1 DEF CommitSighting, Sighted
  <2> QED BY <2>1, <2>2, <2>3, <1>0
<1>2. ASSUME NEW o \in Owners, Complete(o)
      PROVE  Good
  <2>1. CASE UNCHANGED <<catalogue, bound>>
    BY <2>1, <1>2, <1>0 DEF Complete
  <2>2. CASE Bind(lane[o].generation)
    BY <2>2, <1>2, <1>0, Typed DEF Bind, Complete, Availability
  <2> QED BY <1>2, <2>1, <2>2 DEF Complete, CompleteLive
<1>3. ASSUME NEW l \in Locations, Mark(l) \/ DeleteObject(l)
      PROVE  Good
  <2>1. CASE Mark(l)
    BY <2>1, <1>0, Typed DEF Mark, Availability
  <2>2. CASE DeleteObject(l)
    BY <2>2, <1>0 DEF DeleteObject, Availability
  <2> QED BY <1>3, <2>1, <2>2
<1>4. CASE Restore
  BY <1>4, <1>0, Typed, SavedTypes DEF Restore
<1>5. CASE UNCHANGED <<catalogue, since, bound>>
  BY <1>5, <1>0
<1> QED BY <1>1, <1>2, <1>3, <1>4, <1>5, WhoWritesTables

LEMMA LanesNext ==
    ASSUME IType, Next
    PROVE  lane' \in [Owners -> Lane]
<1>0. /\ TypeOK /\ lane \in [Owners -> Lane] /\ upload \in Upload /\ claims \in Nat
      /\ drawn \subseteq Generations
  BY Typed DEF IType, TypeOK
<1>1. ASSUME NEW o \in Owners, NEW r \in Lane, lane' = [lane EXCEPT ![o] = r]
      PROVE  lane' \in [Owners -> Lane]
  BY <1>0, <1>1
<1>2. ASSUME NEW o \in Owners,
             NEW at \in {"idle", "claimed", "putting", "reading", "completing", "failing"},
             Step(o, at)
      PROVE  lane' \in [Owners -> Lane]
  <2>1. lane' = [lane EXCEPT ![o] = [lane[o] EXCEPT !.at = at]]
    BY <1>2, <1>0 DEF Step
  <2>2. [lane[o] EXCEPT !.at = at] \in Lane
    BY <1>0, LaneWrites, 0 \in Nat, Original \in Locations, TRUE \in BOOLEAN DEF Locations
  <2> QED BY <2>1, <2>2, <1>1
<1>3. ASSUME NEW o \in Owners, NEW b \in BOOLEAN, NEW c \in BOOLEAN, Failing(o, b, c)
      PROVE  lane' \in [Owners -> Lane]
  <2>1. lane' = [lane EXCEPT ![o] = [lane[o] EXCEPT !.at = "failing", !.retry = b, !.missing = c]]
    BY <1>3, <1>0 DEF Failing
  <2>2. [lane[o] EXCEPT !.at = "failing", !.retry = b, !.missing = c] \in Lane
    BY <1>0, LaneWrites, 0 \in Nat, Original \in Locations DEF Locations
  <2> QED BY <2>1, <2>2, <1>1
<1>4. IdleLane \in Lane
  BY DEF Lane, IdleLane, Tokens, Locations
<1>5. ASSUME NEW o \in Owners, Claim(o)
      PROVE  lane' \in [Owners -> Lane]
  <2>1. PICK g \in Generations \cup {upload.generation} :
             lane' = [lane EXCEPT ![o] =
                   [IdleLane EXCEPT !.at = "claimed", !.token = claims + 1, !.generation = g,
                                    !.attempt = upload.attempts + 1, !.unresolved = UnresolvedWrite]]
    BY <1>5 DEF Claim
  <2>2. g \in Locations /\ claims + 1 \in Nat /\ upload.attempts + 1 \in Nat
    BY <1>0 DEF Locations, Upload
  <2>3. UnresolvedWrite \in Nat
    BY <1>0 DEF UnresolvedWrite, Upload
  <2>4. \A t \in Nat, n \in Nat, w \in Nat :
           [IdleLane EXCEPT !.at = "claimed", !.token = t, !.generation = g,
                            !.attempt = n, !.unresolved = w] \in Lane
    BY <2>2, <1>4, LaneWrites, TRUE \in BOOLEAN
  <2>5. [IdleLane EXCEPT !.at = "claimed", !.token = claims + 1, !.generation = g,
                         !.attempt = upload.attempts + 1, !.unresolved = UnresolvedWrite] \in Lane
    BY <2>2, <2>3, <2>4
  <2> QED BY <2>1, <2>5, <1>1
<1>6. ASSUME NEW o \in Owners, ReadSpool(o)
      PROVE  lane' \in [Owners -> Lane]
  <2>1. CASE lane' = [lane EXCEPT ![o].at = "putting", ![o].wrote = TRUE]
    <3>1. lane' = [lane EXCEPT ![o] = [lane[o] EXCEPT !.at = "putting", !.wrote = TRUE]]
      BY <2>1, <1>0
    <3>2. [lane[o] EXCEPT !.at = "putting", !.wrote = TRUE] \in Lane
      BY <1>0, LaneWrites, 0 \in Nat, Original \in Locations, TRUE \in BOOLEAN DEF Locations
    <3> QED BY <3>1, <3>2, <1>1
  <2>2. CASE Step(o, "reading")
    BY <2>2, <1>2
  <2>3. CASE Failing(o, FALSE, FALSE)
    BY <2>3, <1>3
  <2> QED BY <1>6, <2>1, <2>2, <2>3 DEF ReadSpool
<1>7. ASSUME NEW o \in Owners, WriteAnswers(o)
      PROVE  lane' \in [Owners -> Lane]
  BY <1>7, <1>2, <1>3, TRUE \in BOOLEAN, FALSE \in BOOLEAN DEF WriteAnswers
<1>8. ASSUME NEW o \in Owners, ReadBack(o)
      PROVE  lane' \in [Owners -> Lane]
  <2>1. NowhereToBeFound(o) \in BOOLEAN
    BY DEF NowhereToBeFound
  <2>2. CASE Failing(o, ~NowhereToBeFound(o), NowhereToBeFound(o))
    BY <2>1, <2>2, <1>3
  <2> QED BY <1>8, <1>2, <1>3, <2>2, TRUE \in BOOLEAN, FALSE \in BOOLEAN DEF ReadBack
<1>9. ASSUME NEW o \in Owners, LoseLease(o) \/ Crash(o) \/ Complete(o) \/ Fail(o)
      PROVE  lane' \in [Owners -> Lane]
  <2>1. lane' = lane \/ lane' = [lane EXCEPT ![o] = IdleLane]
    BY <1>9 DEF LoseLease, Crash, Complete, Fail, Answered
  <2> QED BY <2>1, <1>0, <1>1, <1>4
<1>10. CASE Restore
  BY <1>10, <1>4 DEF Restore
<1>11. CASE UNCHANGED lane
  BY <1>11, <1>0
<1> QED BY <1>5, <1>6, <1>7, <1>8, <1>9, <1>10, <1>11, WhoWritesLanes DEF OwnerStep

\* The variables that only bound the model or that no table reads.
Plain ==
    /\ spooled \in BOOLEAN
    /\ objects \subseteq Locations /\ puts \subseteq [location : Locations, attempt : Nat]
    /\ drawn \subseteq Generations /\ claims \in Nat
    /\ faults \in 0 .. MaxFaults

LEMMA PlainNext ==
    ASSUME IType, Next
    PROVE  Plain'
<1>0. /\ TypeOK /\ Plain
      /\ \A o \in Owners : [location |-> lane[o].generation, attempt |-> lane[o].attempt]
                              \in [location : Locations, attempt : Nat]
  BY Typed DEF IType, TypeOK, Plain
<1>1. Fault => faults' \in 0 .. MaxFaults
  BY <1>0, ArchiveConstants DEF Fault, Plain
<1> USE <1>0, <1>1 DEF Plain, database, store, counts, recovery
<1>2. ASSUME NEW s \in Sightings, OpenSighting(s) \/ CommitSighting(s) \/ AbortSighting(s)
      PROVE  Plain'
  <2>1. CASE OpenSighting(s)
    BY <2>1 DEF OpenSighting
  <2>2. CASE CommitSighting(s)
    BY <2>2 DEF CommitSighting, Sighted
  <2>3. CASE AbortSighting(s)
    BY <2>3 DEF AbortSighting
  <2> QED BY <1>2, <2>1, <2>2, <2>3
<1>3. ASSUME NEW o \in Owners, Claim(o)
      PROVE  Plain'
  <2>1. drawn' \subseteq Generations
    BY <1>3 DEF Claim
  <2>2. claims' \in Nat /\ UNCHANGED <<spooled, objects, puts, faults>>
    BY <1>3 DEF Claim
  <2> QED BY <2>1, <2>2
<1>4. ASSUME NEW o \in Owners, ReadSpool(o) \/ WriteAnswers(o) \/ ReadBack(o)
      PROVE  Plain'
  <2>1. CASE ReadSpool(o)
    BY <2>1 DEF ReadSpool
  <2>2. CASE WriteAnswers(o)
    BY <2>2 DEF WriteAnswers
  <2>3. CASE ReadBack(o)
    BY <2>3 DEF ReadBack
  <2> QED BY <1>4, <2>1, <2>2, <2>3
<1>5. ASSUME NEW o \in Owners, LoseLease(o) \/ Complete(o) \/ Fail(o) \/ Crash(o)
      PROVE  Plain'
  <2>1. CASE LoseLease(o) \/ Crash(o)
    BY <2>1 DEF LoseLease, Crash
  <2>2. CASE Complete(o)
    BY <2>2 DEF Complete, CompleteLive, Answered
  <2>3. CASE Fail(o)
    BY <2>3 DEF Fail, Answered
  <2> QED BY <1>5, <2>1, <2>2, <2>3
<1>6. CASE \E p \in puts : Land(p) \/ Drop(p)
  BY <1>6 DEF Land, Drop
<1>7. CASE Expire \/ ReleaseExpired \/ OperatorRetry
  BY <1>7 DEF Expire, ReleaseExpired, OperatorRetry
<1>8. CASE CleanSpool \/ LoseCopy \/ Tick \/ TakePoint \/ Restore
  BY <1>8 DEF CleanSpool, LoseCopy, Tick, TakePoint, Restore
<1>9. CASE \E l \in Locations : Mark(l) \/ DeleteObject(l)
  BY <1>9 DEF Mark, DeleteObject
<1> QED BY <1>2, <1>3, <1>4, <1>5, <1>6, <1>7, <1>8, <1>9 DEF Next, OwnerStep

LEMMA SightingNext ==
    ASSUME IType, Next
    PROVE  sighting' \in [of : Sightings \cup {None}, seen : Availability]
<1>0. /\ TypeOK /\ sighting \in [of : Sightings \cup {None}, seen : Availability]
      /\ catalogue \in [Locations -> Availability] /\ Shape(upload)
  BY Typed DEF IType, TypeOK
<1>1. NoSighting \in [of : Sightings \cup {None}, seen : Availability]
  BY DEF NoSighting, Availability
<1>2. ASSUME NEW s \in Sightings, OpenSighting(s)
      PROVE  sighting' \in [of : Sightings \cup {None}, seen : Availability]
  <2>1. (IF upload.state = "complete" THEN catalogue[upload.location] ELSE "none") \in Availability
    BY <1>0 DEF Shape, Availability
  <2> QED BY <1>2, <2>1 DEF OpenSighting
<1>3. CASE sighting' = NoSighting \/ UNCHANGED sighting
  BY <1>0, <1>1, <1>3
<1>4. (\E s \in Sightings : OpenSighting(s)) \/ sighting' = NoSighting \/ UNCHANGED sighting
  <2>1. CASE \E s \in Sightings : CommitSighting(s) \/ AbortSighting(s)
    BY <2>1 DEF CommitSighting, AbortSighting
  <2>2. CASE \E o \in Owners : OwnerStep(o) \/ Crash(o)
    BY <2>2 DEF OwnerStep, Claim, LoseLease, ReadSpool, WriteAnswers, ReadBack, Complete, Fail, Crash
  <2>3. CASE \E p \in puts : Land(p) \/ Drop(p)
    BY <2>3 DEF Land, Drop
  <2>4. CASE Expire \/ ReleaseExpired \/ OperatorRetry \/ CleanSpool \/ LoseCopy
    BY <2>4 DEF Expire, ReleaseExpired, OperatorRetry, CleanSpool, LoseCopy
  <2>5. CASE \E l \in Locations : Mark(l) \/ DeleteObject(l)
    BY <2>5 DEF Mark, DeleteObject
  <2>6. CASE Tick \/ TakePoint \/ Restore
    BY <2>6 DEF Tick, TakePoint, Restore
  <2> QED BY <2>1, <2>2, <2>3, <2>4, <2>5, <2>6 DEF Next
<1> QED BY <1>2, <1>3, <1>4

LEMMA RecoveryNext ==
    ASSUME IType, Next
    PROVE  /\ now' \in 0 .. MaxTime
           /\ point' \in [at : {-1} \cup 0 .. MaxTime, used : BOOLEAN, saved : Database]
           /\ point'.at <= now' /\ PointIsSound'
<1>0. /\ TypeOK /\ PointIsSound /\ Shape(upload) /\ UnboundIsUploading
      /\ now \in 0 .. MaxTime /\ point.at <= now
      /\ point \in [at : {-1} \cup 0 .. MaxTime, used : BOOLEAN, saved : Database]
      /\ Saved \in Database
  BY DEF IType, TypeOK
<1>1. CASE Tick
  <2>1. now' \in 0 .. MaxTime /\ now <= now' /\ point' = point
    BY <1>0, <1>1, ArchiveConstants DEF Tick
  <2>2. point.at \in Int
    BY <1>0
  <2> QED BY <2>1, <2>2, <1>0 DEF PointIsSound, Shape, Waits
<1>2. CASE TakePoint
  <2>1. point' = [at |-> now, used |-> FALSE, saved |-> Saved] /\ now' = now
    BY <1>2 DEF TakePoint
  <2>2. Shape(Saved.upload) /\ Waits(Saved.upload, Saved.bound)
    BY <1>0, Fields DEF Waits, UnboundIsUploading
  <2>3. point'.saved = Saved /\ point'.at = now /\ point'.used = FALSE
    BY <2>1
  <2>4. PointIsSound'
    BY <2>2, <2>3 DEF PointIsSound, Shape, Waits
  <2> QED BY <2>1, <2>4, <1>0
<1>3. CASE Restore
  <2>1. point' = [point EXCEPT !.at = -1, !.used = TRUE] /\ now' = now
    BY <1>3 DEF Restore
  <2>2. point'.at = -1
    BY <2>1, <1>0
  <2>3. PointIsSound'
    BY <2>2 DEF PointIsSound
  <2>4. point' \in [at : {-1} \cup 0 .. MaxTime, used : BOOLEAN, saved : Database]
    BY <2>1, <1>0
  <2>5. now' \in 0 .. MaxTime /\ -1 <= now'
    BY <2>1, <1>0, ArchiveConstants
  <2> QED BY <2>2, <2>3, <2>4, <2>5
<1>4. CASE UNCHANGED <<point, now>>
  BY <1>4, <1>0 DEF PointIsSound, Shape, Waits
<1> QED BY <1>1, <1>2, <1>3, <1>4, WhoWritesRecovery

LEMMA WaitsNext ==
    ASSUME IType, Next
    PROVE  UnboundIsUploading'
<1> DEFINE Open == {"pending", "leased", "failed"}
<1>0. /\ TypeOK /\ PointIsSound /\ UnboundIsUploading /\ upload \in Upload
      /\ bound \in [Sightings -> Locations \cup {None, "unbound"}]
      /\ drawn \subseteq Generations /\ claims \in Nat
  BY Typed DEF IType, TypeOK
<1>1. ASSUME NEW s \in Sightings, CommitSighting(s)
      PROVE  UnboundIsUploading'
  <2>1. CASE upload' = upload /\ upload.state \in Open
    BY <2>1 DEF UnboundIsUploading
  <2>2. ASSUME NEW g \in Generations \ drawn, upload' = Reopened(upload, g)
        PROVE  UnboundIsUploading'
    BY <2>2, <1>0, ReopenedRow DEF Row, Locations, UnboundIsUploading
  <2>3. CASE upload' = [NoUpload EXCEPT !.state = "pending"]
    BY <2>3, FirstRow DEF Row, UnboundIsUploading
  <2>4. CASE /\ upload' = upload /\ bound' = [bound EXCEPT ![s] = upload.location]
             /\ JobAccepted(upload.location) /\ sighting.seen = "verified"
    <3>1. upload.location # "unbound"
      BY <1>0, NoneIsNoLocation DEF Upload, None
    <3>2. \A x \in Sightings : bound'[x] = "unbound" => bound[x] = "unbound"
      BY <2>4, <3>1, <1>0
    <3> QED BY <2>4, <3>2, <1>0 DEF UnboundIsUploading
  <2>5. upload.state \in {"none", "pending", "leased", "failed", "complete"}
    BY <1>0 DEF Upload
  <2> QED BY <1>1, <2>1, <2>2, <2>3, <2>4, <2>5 DEF CommitSighting, Sighted
<1>2. ASSUME NEW o \in Owners, Complete(o)
      PROVE  UnboundIsUploading'
  <2>1. CASE UNCHANGED <<upload, bound>>
    BY <2>1, <1>0 DEF UnboundIsUploading
  <2>2. CASE Bind(lane[o].generation)
    <3>1. lane[o].generation # "unbound"
      BY <1>0, Typed, NoneIsNoLocation
    <3>2. \A s \in Sightings : bound'[s] # "unbound"
      BY <2>2, <3>1 DEF Bind
    <3> QED BY <3>2 DEF UnboundIsUploading
  <2>3. ASSUME NEW g \in Generations,
               upload' = [upload EXCEPT !.state = "pending", !.generation = g,
                                        !.token = 0, !.live = FALSE]
        PROVE  UnboundIsUploading'
    BY <2>3, <1>0, MovedRow DEF Row, Locations, UnboundIsUploading
  <2> QED BY <1>2, <2>1, <2>2, <2>3 DEF Complete, CompleteLive
<1>3. CASE \E o \in Owners : Claim(o) \/ Fail(o)
  <2>1. upload'.state \in Open
    <3>1. ASSUME NEW o \in Owners, Claim(o) PROVE upload'.state = "leased"
      BY <3>1, <1>0 DEF Claim, Upload
    <3>2. ASSUME NEW o \in Owners, Fail(o) PROVE upload'.state = "failed"
      <4>1. \A u \in Upload, b, c \in BOOLEAN, w \in Nat :
               [u EXCEPT !.state = "failed", !.retry = b, !.missing = c, !.wrote = w].state = "failed"
        BY DEF Upload
      <4>2. (IF lane[o].wrote THEN 0 ELSE lane[o].unresolved) \in Nat
        BY <1>0, Typed
      <4>3. Settled(o, upload) \in Upload
        BY <1>0, Typed, SettledRow
      <4>4. CASE upload' = upload /\ upload.state = "failed"
        BY <4>4
      <4>5. ASSUME NEW w \in Nat,
                   upload' = [Settled(o, upload) EXCEPT !.state = "failed", !.retry = lane[o].retry,
                                 !.missing = lane[o].missing, !.wrote = w]
            PROVE  upload'.state = "failed"
        <5>1. lane[o].retry \in BOOLEAN /\ lane[o].missing \in BOOLEAN
          BY <1>0, Typed
        <5> QED BY <4>1, <4>3, <4>5, <5>1
      <4> QED BY <3>2, <4>2, <4>4, <4>5 DEF Fail
    <3> QED BY <1>3, <3>1, <3>2
  <2> QED BY <2>1 DEF UnboundIsUploading
<1>4. CASE Expire \/ ReleaseExpired \/ OperatorRetry
  <2>1. upload'.state \in Open
    BY <1>4, <1>0 DEF Expire, ReleaseExpired, OperatorRetry, Upload
  <2> QED BY <2>1 DEF UnboundIsUploading
<1>5. CASE Restore
  BY <1>5, <1>0 DEF Restore, PointIsSound, Waits, UnboundIsUploading
<1>6. CASE UNCHANGED upload /\ ~(\E s \in Sightings : CommitSighting(s)) /\ ~(\E o \in Owners : Complete(o))
           /\ ~Restore
  BY <1>6, <1>0, WhoWritesTables DEF UnboundIsUploading, Mark, DeleteObject
<1> QED BY <1>1, <1>2, <1>3, <1>4, <1>5, <1>6, WhoWritesUpload

LEMMA InitIType == Init => IType
<1> SUFFICES ASSUME Init PROVE IType
  OBVIOUS
<1>1. Saved \in Database
  <2>1. upload \in Upload
    BY FirstRow DEF Init
  <2>2. /\ catalogue \in [Locations -> Availability] /\ since \in [Locations -> Nat]
        /\ bound \in [Sightings -> Locations \cup {None, "unbound"}]
    BY DEF Init, Availability
  <2> QED BY <2>1, <2>2, Fields
<1>2. lane \in [Owners -> Lane]
  <2>1. IdleLane \in Lane
    BY DEF IdleLane, Lane, Tokens, Locations
  <2> QED BY <2>1 DEF Init
<1>3. sighting \in [of : Sightings \cup {None}, seen : Availability]
  BY DEF Init, NoSighting, Availability
<1>4. /\ point \in [at : {-1} \cup 0 .. MaxTime, used : BOOLEAN, saved : Database]
      /\ point.at = -1
  BY <1>1 DEF Init
<1>5. now \in 0 .. MaxTime /\ -1 <= now /\ faults \in 0 .. MaxFaults
  BY ArchiveConstants DEF Init
<1>9. Plain
  BY <1>5 DEF Init, Plain
<1>6. Shape(upload)
  BY FirstRow DEF Init
<1>7. PointIsSound
  BY <1>4 DEF PointIsSound
<1>8. UnboundIsUploading
  BY DEF Init, UnboundIsUploading, None
<1> QED BY <1>1, <1>2, <1>3, <1>4, <1>5, <1>6, <1>7, <1>8, <1>9
     DEF IType, TypeOK, Shape, Plain

LEMMA NextIType == IType /\ [Next]_vars => IType'
<1> SUFFICES ASSUME IType, [Next]_vars PROVE IType'
  OBVIOUS
<1>1. CASE Next
  <2>1. Saved' \in Database
    BY <1>1, UploadNext, TablesNext, FieldsNext
  <2>2. Shape(upload)' /\ PointIsSound' /\ UnboundIsUploading'
    BY <1>1, UploadNext, RecoveryNext, WaitsNext
  <2>3. TypeOK'
    BY <1>1, <2>1, <2>2, PlainNext, LanesNext, SightingNext, RecoveryNext DEF TypeOK, Plain, Shape
  <2> QED BY <2>2, <2>3 DEF IType
<1>2. CASE UNCHANGED vars
  <2>1. UNCHANGED <<spooled, upload, catalogue, since, bound, objects, puts, drawn, claims,
                    lane, sighting, point, now, faults>>
    BY <1>2 DEF vars, database, store, counts, recovery
  <2>2. Saved' = Saved
    BY <2>1 DEF Saved
  <2>3. TypeOK'
    BY <2>1, <2>2 DEF IType, TypeOK
  <2>4. Shape(upload)' /\ PointIsSound' /\ UnboundIsUploading'
    BY <2>1 DEF IType, Shape, PointIsSound, Waits, UnboundIsUploading
  <2> QED BY <2>3, <2>4 DEF IType
<1> QED BY <1>1, <1>2

LEMMA ITypeInvariant == Spec => []IType
  BY InitIType, NextIType, PTL DEF Spec

\* Every reachable state is well typed: in particular a lease's token is set
\* exactly while the upload is leased (collector_uploads.py, _require_live).
THEOREM TypeCorrect == Spec => []TypeOK
<1>1. IType => TypeOK
  BY DEF IType
<1> QED BY <1>1, ITypeInvariant, PTL

\* An observation whose body is not archived yet always has an unfinished
\* upload, through sightings, completions, retirement and a restore
\* (collector_uploads.complete_upload binds every unbound observation).
THEOREM NothingLeftUnbound == Spec => []UnboundIsUploading
<1>1. IType => UnboundIsUploading
  BY DEF IType
<1> QED BY <1>1, ITypeInvariant, PTL

-----------------------------------------------------------------------------
(* Retention *)

\* What an owner is about to complete has been archived, unless the location
\* has been marked meanwhile.
Uploaded ==
    \A o \in Owners : lane[o].at = "completing" =>
        \/ lane[o].generation \in objects
        \/ catalogue[lane[o].generation] \in {"retiring", "expired"}

\* A location that a restore could call usable again holds the bytes, and if it
\* has been marked since the point was taken its hold is not over.
HeldForRestore ==
    point.at >= 0 /\ now - point.at <= RecoveryWindow =>
       \A l \in Locations : point.saved.catalogue[l] = "verified" =>
          /\ l \in objects
          /\ \/ catalogue[l] = "verified"
             \/ catalogue[l] = "retiring" /\ since[l] >= point.at

IInv == VerifiedHasBytes /\ Uploaded /\ HeldForRestore

LEMMA InitIInv == Init => IInv
<1> SUFFICES ASSUME Init PROVE IInv
  OBVIOUS
<1>1. VerifiedHasBytes
  BY DEF Init, VerifiedHasBytes
<1>2. Uploaded
  BY DEF Init, Uploaded, IdleLane
<1>3. HeldForRestore
  BY DEF Init, HeldForRestore
<1> QED BY <1>1, <1>2, <1>3 DEF IInv

\* A location whose bytes may be deleted cannot be restored to usable.
LEMMA ReleasedIsUnusable ==
    ASSUME IType, HeldForRestore, NEW l \in Locations, Released(l)
    PROVE  ~(/\ point.at >= 0 /\ now - point.at <= RecoveryWindow
             /\ point.saved.catalogue[l] = "verified")
<1>1. point.at \in Int /\ now \in Nat /\ since[l] \in Nat
  BY Typed DEF IType
<1>2. catalogue[l] = "retiring" /\ now >= since[l] + RecoveryHold
  BY DEF Released
<1>3. SUFFICES ASSUME point.at >= 0, now - point.at <= RecoveryWindow,
                      point.saved.catalogue[l] = "verified"
               PROVE  FALSE
  OBVIOUS
<1>4. since[l] >= point.at
  BY <1>2, <1>3 DEF HeldForRestore
<1> QED BY <1>1, <1>2, <1>3, <1>4, ArchiveConstants

LEMMA VerifiedNext ==
    ASSUME IType, IInv, Next
    PROVE  VerifiedHasBytes'
<1>0. /\ VerifiedHasBytes /\ Uploaded /\ HeldForRestore
      /\ catalogue \in [Locations -> Availability]
  BY Typed DEF IType, IInv
<1> SUFFICES ASSUME NEW l \in Locations, catalogue'[l] = "verified"
             PROVE  l \in objects'
  BY DEF VerifiedHasBytes
<1>1. ASSUME NEW x \in Locations, DeleteObject(x)
      PROVE  l \in objects'
  <2>1. catalogue[x] = "retiring"
    BY <1>1 DEF DeleteObject, Released
  <2>2. catalogue'[x] # "verified"
    BY <1>1, <1>0, <2>1 DEF DeleteObject
  <2>3. x # l
    BY <2>2
  <2>4. catalogue[l] = "verified"
    BY <1>1, <1>0, <2>3 DEF DeleteObject
  <2> QED BY <1>1, <1>0, <2>3, <2>4 DEF DeleteObject, VerifiedHasBytes
<1>2. CASE objects \subseteq objects'
  <2>1. CASE UNCHANGED catalogue
    BY <2>1, <1>2, <1>0 DEF VerifiedHasBytes
  <2>2. ASSUME NEW o \in Owners, Complete(o), Bind(lane[o].generation),
               catalogue[lane[o].generation] \in {"none", "verified"}
        PROVE  l \in objects'
    <3>1. lane[o].generation \in objects
      BY <2>2, <1>0 DEF Complete, Uploaded
    <3>2. l = lane[o].generation \/ catalogue[l] = "verified"
      BY <2>2, <1>0 DEF Bind
    <3> QED BY <3>1, <3>2, <1>0, <1>2 DEF VerifiedHasBytes
  <2>3. ASSUME NEW x \in Locations, Mark(x)
        PROVE  l \in objects'
    <3>1. catalogue[l] = "verified"
      BY <2>3, <1>0 DEF Mark
    <3> QED BY <3>1, <1>0, <1>2 DEF VerifiedHasBytes
  <2>4. CASE Restore
    BY <2>4, <1>0, <1>2 DEF Restore, HeldForRestore
  <2>5. ASSUME NEW s \in Sightings, CommitSighting(s) PROVE UNCHANGED catalogue
    BY <2>5 DEF CommitSighting
  <2>6. ASSUME NEW o \in Owners, Complete(o)
        PROVE  \/ UNCHANGED catalogue
               \/ /\ Bind(lane[o].generation)
                  /\ catalogue[lane[o].generation] \in {"none", "verified"}
    BY <2>6 DEF Complete, CompleteLive
  <2> QED BY <1>1, <2>1, <2>2, <2>3, <2>4, <2>5, <2>6, WhoWritesTables
<1> QED BY <1>1, <1>2, WhoDeletes

\* The catalogue forgets a mark only by a restore.
LEMMA MarkedStays ==
    ASSUME IType, Next, ~Restore, NEW l \in Locations,
           catalogue[l] \in {"retiring", "expired"}
    PROVE  catalogue'[l] \in {"retiring", "expired"}
<1>0. catalogue \in [Locations -> Availability]
  BY Typed DEF IType
<1>1. ASSUME NEW s \in Sightings, CommitSighting(s) PROVE UNCHANGED catalogue
  BY <1>1 DEF CommitSighting
<1>2. ASSUME NEW o \in Owners, Complete(o)
      PROVE  catalogue'[l] = catalogue[l]
  <2>1. CASE UNCHANGED catalogue
    BY <2>1
  <2>2. CASE /\ Bind(lane[o].generation)
             /\ catalogue[lane[o].generation] \in {"none", "verified"}
    <3>1. l # lane[o].generation
      BY <2>2
    <3> QED BY <3>1, <2>2, <1>0 DEF Bind
  <2> QED BY <1>2, <2>1, <2>2 DEF Complete, CompleteLive
<1>3. ASSUME NEW x \in Locations, Mark(x) \/ DeleteObject(x)
      PROVE  catalogue'[l] \in {"retiring", "expired"}
  <2>1. CASE Mark(x)
    BY <2>1, <1>0 DEF Mark
  <2>2. CASE DeleteObject(x)
    BY <2>2, <1>0 DEF DeleteObject
  <2> QED BY <1>3, <2>1, <2>2
<1> QED BY <1>1, <1>2, <1>3, WhoWritesTables

LEMMA UploadedNext ==
    ASSUME IType, IInv, Next
    PROVE  Uploaded'
<1>0. /\ Uploaded /\ catalogue \in [Locations -> Availability]
      /\ lane \in [Owners -> Lane] /\ \A o \in Owners : lane[o].generation \in Locations
  BY Typed DEF IType, IInv, TypeOK
<1>1. CASE Restore
  BY <1>1 DEF Restore, Uploaded, IdleLane
<1>2. CASE ~Restore
  <2> SUFFICES ASSUME NEW o \in Owners, lane'[o].at = "completing"
               PROVE  \/ lane'[o].generation \in objects'
                      \/ catalogue'[lane'[o].generation] \in {"retiring", "expired"}
    BY DEF Uploaded
  <2>1. /\ lane'[o].generation = lane[o].generation
        /\ \/ lane[o].at = "completing" \/ lane[o].generation \in objects
    <3>1. CASE UNCHANGED lane
      BY <3>1
    <3>2. ASSUME NEW p \in Owners, OwnerStep(p) \/ Crash(p)
          PROVE  /\ lane'[o].generation = lane[o].generation
                 /\ \/ lane[o].at = "completing" \/ lane[o].generation \in objects
      <4>1. CASE p # o
        <5>1. lane'[o] = lane[o]
          BY <3>2, <4>1, <1>0 DEF OwnerStep, Claim, LoseLease, ReadSpool, WriteAnswers, ReadBack,
                                  Complete, Fail, Crash, Answered, Step, Failing
        <5> QED BY <5>1
      <4>2. CASE p = o
        <5>1. CASE Claim(o)
          BY <5>1, <1>0 DEF Claim, IdleLane
        <5>2. CASE LoseLease(o) \/ Crash(o)
          BY <5>2, <1>0 DEF LoseLease, Crash, IdleLane
        <5>3. CASE ReadSpool(o)
          BY <5>3, <1>0 DEF ReadSpool, Step, Failing, Lane
        <5>4. CASE WriteAnswers(o)
          BY <5>4, <1>0 DEF WriteAnswers, Step, Failing, Lane
        <5>5. CASE ReadBack(o)
          BY <5>5, <1>0 DEF ReadBack, Step, Failing, Lane
        <5>6. CASE Complete(o) \/ Fail(o)
          BY <5>6, <1>0 DEF Complete, Fail, Answered, IdleLane
        <5> QED BY <3>2, <4>2, <5>1, <5>2, <5>3, <5>4, <5>5, <5>6 DEF OwnerStep
      <4> QED BY <4>1, <4>2
    <3> QED BY <1>2, <3>1, <3>2, WhoWritesLanes
  <2>2. CASE catalogue[lane[o].generation] \in {"retiring", "expired"}
    BY <2>1, <2>2, <1>0, <1>2, MarkedStays
  <2>3. CASE lane[o].generation \in objects /\ objects \subseteq objects'
    BY <2>1, <2>3
  <2>4. ASSUME NEW x \in Locations, DeleteObject(x), lane[o].generation \in objects
        PROVE  \/ lane[o].generation \in objects'
               \/ catalogue'[lane[o].generation] \in {"retiring", "expired"}
    BY <2>4, <1>0 DEF DeleteObject, Released
  <2> QED BY <2>1, <2>2, <2>3, <2>4, <1>0, WhoDeletes DEF Uploaded
<1> QED BY <1>1, <1>2

\* Outside a restore a location leaves "verified" only by a mark, which dates it
\* now, and a dated mark keeps its date until it is deleted.
LEMMA MarksAreDated ==
    ASSUME IType, Next, ~Restore, NEW l \in Locations
    PROVE  /\ catalogue[l] = "verified" =>
                \/ catalogue'[l] = "verified"
                \/ catalogue'[l] = "retiring" /\ since'[l] = now
           /\ catalogue[l] = "retiring" =>
                \/ catalogue'[l] = "retiring" /\ since'[l] = since[l]
                \/ Released(l)
<1> DEFINE Good == /\ catalogue[l] = "verified" =>
                         \/ catalogue'[l] = "verified"
                         \/ catalogue'[l] = "retiring" /\ since'[l] = now
                   /\ catalogue[l] = "retiring" =>
                         \/ catalogue'[l] = "retiring" /\ since'[l] = since[l]
                         \/ Released(l)
<1>0. catalogue \in [Locations -> Availability] /\ since \in [Locations -> Nat]
  BY Typed DEF IType
<1>1. ASSUME NEW s \in Sightings, CommitSighting(s) PROVE Good
  BY <1>1 DEF CommitSighting
<1>2. ASSUME NEW o \in Owners, Complete(o) PROVE Good
  <2>1. UNCHANGED since
    BY <1>2 DEF Complete
  <2>2. CASE UNCHANGED catalogue
    BY <2>1, <2>2
  <2>3. CASE /\ Bind(lane[o].generation)
             /\ catalogue[lane[o].generation] \in {"none", "verified"}
    BY <2>1, <2>3, <1>0 DEF Bind
  <2> QED BY <1>2, <2>2, <2>3 DEF Complete, CompleteLive
<1>3. ASSUME NEW x \in Locations, Mark(x) PROVE Good
  BY <1>3, <1>0 DEF Mark
<1>4. ASSUME NEW x \in Locations, DeleteObject(x) PROVE Good
  <2>1. CASE x = l
    BY <2>1, <1>4 DEF DeleteObject, Released
  <2>2. CASE x # l
    BY <2>2, <1>4, <1>0 DEF DeleteObject
  <2> QED BY <2>1, <2>2
<1>5. CASE UNCHANGED <<catalogue, since, bound>>
  BY <1>5
<1> QED BY <1>1, <1>2, <1>3, <1>4, <1>5, WhoWritesTables

LEMMA HeldNext ==
    ASSUME IType, IInv, Next
    PROVE  HeldForRestore'
<1>0. /\ TypeOK /\ VerifiedHasBytes /\ HeldForRestore /\ now \in Nat /\ point.at \in Int
      /\ point.at <= now /\ \A l \in Locations : since[l] \in Nat
  BY Typed DEF IType, IInv, TypeOK
<1>1. CASE TakePoint
  <2>1. UNCHANGED <<catalogue, since, objects>>
    BY <1>1 DEF TakePoint, database, store
  <2>2. point'.saved.catalogue = catalogue
    BY <1>1, Fields DEF TakePoint
  <2> QED BY <2>1, <2>2, <1>0 DEF HeldForRestore, VerifiedHasBytes
<1>2. CASE Restore
  <2>1. point'.at = -1
    BY <1>2, <1>0 DEF Restore, TypeOK
  <2> QED BY <2>1 DEF HeldForRestore
<1>3. CASE point' = point /\ now <= now' /\ now' \in Nat /\ ~Restore
  <2> SUFFICES ASSUME point.at >= 0, now' - point.at <= RecoveryWindow,
                      NEW l \in Locations, point.saved.catalogue[l] = "verified"
               PROVE  /\ l \in objects'
                      /\ \/ catalogue'[l] = "verified"
                         \/ catalogue'[l] = "retiring" /\ since'[l] >= point.at
    BY <1>3 DEF HeldForRestore
  <2>1. now - point.at <= RecoveryWindow
    BY <1>0, <1>3, ArchiveConstants
  <2>2. /\ l \in objects
        /\ \/ catalogue[l] = "verified"
           \/ catalogue[l] = "retiring" /\ since[l] >= point.at
    BY <2>1, <1>0 DEF HeldForRestore
  <2>3. ~Released(l)
    BY <2>1, <1>0, ReleasedIsUnusable
  <2>4. l \in objects'
    <3>1. ASSUME NEW x \in Locations, DeleteObject(x) PROVE l \in objects'
      BY <3>1, <2>2, <2>3 DEF DeleteObject
    <3> QED BY <3>1, <2>2, WhoDeletes
  <2>5. \/ catalogue'[l] = "verified"
        \/ catalogue'[l] = "retiring" /\ since'[l] >= point.at
    BY <2>2, <2>3, <1>0, <1>3, MarksAreDated
  <2> QED BY <2>4, <2>5
<1>4. CASE Tick
  BY <1>3, <1>4, <1>0, <1>2 DEF Tick
<1>5. CASE UNCHANGED <<point, now>>
  BY <1>3, <1>5, <1>0, <1>2
<1> QED BY <1>1, <1>2, <1>4, <1>5, WhoWritesRecovery

LEMMA NextIInv == IType /\ IInv /\ [Next]_vars => IInv'
<1> SUFFICES ASSUME IType, IInv, [Next]_vars PROVE IInv'
  OBVIOUS
<1>1. CASE Next
  BY <1>1, VerifiedNext, UploadedNext, HeldNext DEF IInv
<1>2. CASE UNCHANGED vars
  <2>1. UNCHANGED <<catalogue, since, objects, lane, point, now>>
    BY <1>2 DEF vars, database, store, recovery
  <2> QED BY <2>1 DEF IInv, VerifiedHasBytes, Uploaded, HeldForRestore
<1> QED BY <1>1, <1>2

\* Every location the catalogue calls usable holds the bytes, also after a
\* restore, for every hold longer than the recovery window
\* (archive_retention.RECOVERY_HOLD).
THEOREM RetentionKeepsBytes == Spec => []VerifiedHasBytes
<1>1. IInv => VerifiedHasBytes
  BY DEF IInv
<1> QED BY <1>1, InitIInv, NextIInv, ITypeInvariant, PTL DEF Spec

\* No step binds an observation to a location marked for deletion or calls it
\* usable again (clashlens_reject_expired_job_source, complete_upload).
THEOREM MarkedIsNeverReused == Spec => RetiringIsUnused
<1> DEFINE Unused == point.used' = point.used =>
         /\ \A s \in Sightings, l \in Locations :
               bound[s] # l /\ bound'[s] = l => catalogue'[l] = "verified"
         /\ \A l \in Locations :
               catalogue[l] \in {"retiring", "expired"} => catalogue'[l] \in {"retiring", "expired"}
<1>1. ASSUME IType, [Next]_vars PROVE Unused
  <2> SUFFICES ASSUME point.used' = point.used PROVE Unused
    OBVIOUS
  <2>0. /\ catalogue \in [Locations -> Availability] /\ PointIsSound /\ TypeOK
        /\ bound \in [Sightings -> Locations \cup {None, "unbound"}]
        /\ \A o \in Owners : lane[o].generation \in Locations
    BY <1>1, Typed DEF IType
  <2>1. ~Restore
    BY <2>0 DEF Restore, PointIsSound, TypeOK
  <2>2. ASSUME NEW l \in Locations, catalogue[l] \in {"retiring", "expired"}
        PROVE  catalogue'[l] \in {"retiring", "expired"}
    BY <1>1, <2>1, <2>2, MarkedStays DEF vars, database
  <2>3. ASSUME NEW s \in Sightings, NEW l \in Locations, bound[s] # l, bound'[s] = l
        PROVE  catalogue'[l] = "verified"
    <3>1. Next
      BY <1>1, <2>3 DEF vars, database
    <3>2. ASSUME NEW x \in Sightings, CommitSighting(x)
          PROVE  catalogue'[l] = "verified"
      <4>1. \/ bound' = [bound EXCEPT ![x] = upload.location] /\ JobAccepted(upload.location)
            \/ bound' = [bound EXCEPT ![x] = "unbound"]
        BY <3>2 DEF CommitSighting, Sighted
      <4>2. l # "unbound"
        BY NoneIsNoLocation
      <4>3. l = upload.location /\ JobAccepted(upload.location)
        BY <4>1, <4>2, <2>3, <2>0
      <4> QED BY <4>3, <3>2 DEF CommitSighting, JobAccepted
    <3>3. ASSUME NEW o \in Owners, Complete(o)
          PROVE  catalogue'[l] = "verified"
      <4>1. Bind(lane[o].generation)
        BY <3>3, <2>3 DEF Complete, CompleteLive
      <4>2. l = lane[o].generation
        BY <4>1, <2>3 DEF Bind
      <4> QED BY <4>1, <4>2, <2>0 DEF Bind
    <3>4. ASSUME NEW x \in Locations, Mark(x) \/ DeleteObject(x) PROVE FALSE
      BY <3>4, <2>3 DEF Mark, DeleteObject
    <3> QED BY <3>1, <3>2, <3>3, <3>4, <2>1, <2>3, WhoWritesTables
  <2> QED BY <2>2, <2>3
<1>2. IType /\ [Next]_vars => Unused
  BY <1>1
<1>3. [][Unused]_vars <=> RetiringIsUnused
  BY DEF RetiringIsUnused
<1> HIDE DEF Unused
<1> QED BY <1>2, <1>3, ITypeInvariant, PTL DEF Spec

-----------------------------------------------------------------------------
(* Writes whose outcome is open                                            *)
(*                                                                         *)
(* An attempt that finds the bytes nowhere may say so only when every      *)
(* earlier attempt's write has ended, and those attempts' owners may be    *)
(* gone.  Numbered: an open write is one of the attempts counted so far    *)
(* and goes to a location drawn so far; a live owner is the only one with  *)
(* its token.  Failure and Awaited: what the row, and then the owner that  *)
(* claimed it, knows of the writes to its location: each is no later than  *)
(* the write it waits for, or has been waited for, or is the owner's own.  *)

\* The write an owner that has claimed the upload is about to make.
Made(o) == [location |-> lane[o].generation, attempt |-> lane[o].attempt]

\* The writes that may yet land, those about to be made by the owners O included.
OpenWrites(O) == puts \cup {Made(q) : q \in {r \in O : lane[r].at = "claimed"}}

\* So many attempts later that the write cannot land any more.
Gone(p) == upload.attempts > p.attempt + WaitAttempts

\* An upload row whose generation and token were drawn before.
Drawn(u) ==
    /\ u.generation \in drawn \cup {Original}
    /\ u.token <= claims
    /\ u.state = "none" => u.attempts = 0

Numbered ==
    /\ \A p \in OpenWrites(Owners) :
          p.attempt > 0 /\ p.attempt <= upload.attempts /\ p.location \in drawn \cup {Original}
    /\ Drawn(upload)
    /\ point.at >= 0 => Drawn(point.saved.upload)
    /\ \A o \in Owners : Busy(o) => lane[o].token <= claims

Failure ==
    upload.state = "failed" /\ upload.wrote > 0 =>
        \A p \in OpenWrites(Owners) :
           p.location = upload.generation => p.attempt <= upload.wrote \/ Gone(p)

Awaited(o) ==
    \A p \in OpenWrites(Owners \ {o}) : p.location = lane[o].generation =>
        \/ p.attempt <= lane[o].unresolved
        \/ Gone(p)
        \/ lane[o].wrote

\* What an owner that did not write has found out.
Searched(o) ==
    /\ lane[o].at \in {"claimed", "reading"} => ~lane[o].wrote
    /\ lane[o].at = "failing" /\ lane[o].missing =>
          ~lane[o].wrote /\ lane[o].unresolved = 0 /\ lane[o].generation \notin objects

WritesInv ==
    /\ Numbered
    /\ Failure
    /\ \A o \in Owners : Busy(o) /\ HoldsLive(o) => Awaited(o) /\ Searched(o)

\* What a row keeps when its lease is given up or ended.
Ended(u, v) ==
    /\ v.state \notin {"none", "leased"} /\ v.token = 0 /\ v.attempts = u.attempts
    /\ v.generation = u.generation

LEMMA ReopenedIs ==
    ASSUME NEW u \in Upload, NEW g \in Locations, NEW v, v = Reopened(u, g)
    PROVE  v.state = "pending" /\ v.token = 0 /\ v.attempts = u.attempts /\ v.generation = g
  BY DEF Upload, Tokens, Reopened

\* What claim_upload, complete_upload and fail_upload write.
Moved(u, g) == [u EXCEPT !.state = "pending", !.generation = g, !.token = 0, !.live = FALSE]
Leased(u, t, n, g) == [u EXCEPT !.state = "leased", !.token = t, !.live = TRUE,
                          !.attempts = n, !.settled = 0, !.retry = FALSE, !.generation = g]
FailedAs(u, b, c, w) == [u EXCEPT !.state = "failed", !.retry = b, !.missing = c, !.wrote = w]
LaneOf(t, g, n, w) == [IdleLane EXCEPT !.at = "claimed", !.token = t, !.generation = g,
                                       !.attempt = n, !.unresolved = w]

LEMMA MovedIs ==
    ASSUME NEW u \in Upload, NEW g \in Locations, NEW v, v = Moved(u, g)
    PROVE  v.state = "pending" /\ v.token = 0 /\ v.attempts = u.attempts /\ v.generation = g
  BY DEF Upload, Tokens, Moved

LEMMA LeasedIs ==
    ASSUME NEW u \in Upload, NEW g \in Locations, NEW t \in Nat, NEW n \in Nat, NEW v,
           v = Leased(u, t, n, g)
    PROVE  v.state = "leased" /\ v.token = t /\ v.attempts = n /\ v.generation = g
  BY DEF Upload, Tokens, Leased

LEMMA ReleasedIs ==
    ASSUME NEW u \in Upload, NEW v, v = [u EXCEPT !.state = "pending", !.token = 0]
    PROVE  /\ v.state = "pending" /\ v.token = 0 /\ v.attempts = u.attempts
           /\ v.generation = u.generation
  BY DEF Upload, Tokens

LEMMA RetriedIs ==
    ASSUME NEW u \in Upload, NEW v, v = [u EXCEPT !.state = "pending"]
    PROVE  /\ v.state = "pending" /\ v.token = u.token /\ v.attempts = u.attempts
           /\ v.generation = u.generation
  BY DEF Upload

LEMMA ExpiredIs ==
    ASSUME NEW u \in Upload, NEW v, v = [u EXCEPT !.live = FALSE]
    PROVE  /\ v.state = u.state /\ v.token = u.token /\ v.attempts = u.attempts
           /\ v.generation = u.generation /\ ~v.live
  BY DEF Upload

LEMMA CompletedIs ==
    ASSUME NEW u \in Upload, NEW g \in Locations, NEW o \in Owners, lane[o].token \in Nat, NEW v,
           v = [Settled(o, u) EXCEPT !.state = "complete", !.location = g]
    PROVE  Ended(u, v) /\ v.state = "complete"
  BY DEF Upload, Tokens, Settled, Ended

LEMMA FailedIs ==
    ASSUME NEW u \in Upload, NEW w \in Nat, NEW b \in BOOLEAN, NEW c \in BOOLEAN,
           NEW o \in Owners, lane[o].token \in Nat, NEW v,
           v = FailedAs(Settled(o, u), b, c, w)
    PROVE  Ended(u, v) /\ v.state = "failed" /\ v.missing = c /\ v.wrote = w
  BY DEF Upload, Tokens, Settled, Ended, FailedAs

LEMMA ClaimedLane ==
    ASSUME NEW t, NEW g, NEW n, NEW w, NEW r, r = LaneOf(t, g, n, w)
    PROVE  /\ r.at = "claimed" /\ r.token = t /\ r.generation = g /\ r.attempt = n
           /\ r.unresolved = w /\ ~r.wrote
  BY DEF IdleLane, LaneOf

\* The counters only grow, and a claim draws its token.
LEMMA CountsGrow ==
    ASSUME IType, Next
    PROVE  /\ drawn \subseteq drawn' /\ drawn' \subseteq Generations
           /\ claims \in Nat /\ claims' \in Nat /\ claims <= claims'
<1>0. claims \in Nat /\ drawn \subseteq Generations
  BY DEF IType, TypeOK
<1>1. \/ \E s \in Sightings : CommitSighting(s)
      \/ \E o \in Owners : Claim(o) \/ Complete(o)
      \/ UNCHANGED <<drawn, claims>>
  <2> USE DEF counts
  <2>1. CASE \E s \in Sightings : OpenSighting(s) \/ AbortSighting(s)
    BY <2>1 DEF OpenSighting, AbortSighting
  <2>2. CASE \E o \in Owners : LoseLease(o) \/ ReadSpool(o) \/ WriteAnswers(o) \/ ReadBack(o)
                               \/ Fail(o) \/ Crash(o)
    BY <2>2 DEF LoseLease, ReadSpool, WriteAnswers, ReadBack, Fail, Crash
  <2>3. CASE \E p \in puts : Land(p) \/ Drop(p)
    BY <2>3 DEF Land, Drop
  <2>4. CASE Expire \/ ReleaseExpired \/ OperatorRetry \/ CleanSpool \/ LoseCopy
    BY <2>4 DEF Expire, ReleaseExpired, OperatorRetry, CleanSpool, LoseCopy
  <2>5. CASE Tick \/ TakePoint \/ Restore \/ \E l \in Locations : Mark(l) \/ DeleteObject(l)
    BY <2>5 DEF Mark, DeleteObject, Tick, TakePoint, Restore
  <2> QED BY <2>1, <2>2, <2>3, <2>4, <2>5 DEF Next, OwnerStep
<1>2. /\ drawn \subseteq drawn' /\ drawn' \subseteq Generations
      /\ claims' \in {claims, claims + 1}
  <2>1. CASE \E s \in Sightings : CommitSighting(s)
    BY <2>1, <1>0 DEF CommitSighting, Sighted
  <2>2. CASE \E o \in Owners : Claim(o)
    BY <2>2, <1>0 DEF Claim
  <2>3. CASE \E o \in Owners : Complete(o)
    BY <2>3, <1>0 DEF Complete, CompleteLive
  <2> QED BY <1>0, <1>1, <2>1, <2>2, <2>3
<1> QED BY <1>0, <1>2

\* Objects appear only when a write lands.
LEMMA WhoLands ==
    ASSUME Next
    PROVE  (\E p \in puts : Land(p)) \/ objects' \subseteq objects
<1> USE DEF store
<1>1. CASE \E s \in Sightings : OpenSighting(s) \/ CommitSighting(s) \/ AbortSighting(s)
  BY <1>1 DEF OpenSighting, CommitSighting, AbortSighting
<1>2. CASE \E o \in Owners : OwnerStep(o) \/ Crash(o)
  BY <1>2 DEF OwnerStep, Claim, LoseLease, ReadSpool, WriteAnswers, ReadBack, Complete, Fail, Crash
<1>3. CASE \E p \in puts : Drop(p)
  BY <1>3 DEF Drop
<1>4. CASE Expire \/ ReleaseExpired \/ OperatorRetry \/ CleanSpool \/ LoseCopy
  BY <1>4 DEF Expire, ReleaseExpired, OperatorRetry, CleanSpool, LoseCopy
<1>5. CASE Tick \/ TakePoint \/ Restore \/ \E l \in Locations : Mark(l) \/ DeleteObject(l)
  BY <1>5 DEF Mark, DeleteObject, Tick, TakePoint, Restore
<1> QED BY <1>1, <1>2, <1>3, <1>4, <1>5 DEF Next

\* Only an owner that has read the spool opens a write.
LEMMA WhoWritesPuts ==
    ASSUME Next
    PROVE  (\E o \in Owners : ReadSpool(o)) \/ puts' \subseteq puts
<1> USE DEF store
<1>1. CASE \E s \in Sightings : OpenSighting(s) \/ CommitSighting(s) \/ AbortSighting(s)
  BY <1>1 DEF OpenSighting, CommitSighting, AbortSighting
<1>2. CASE \E o \in Owners : Claim(o) \/ LoseLease(o) \/ WriteAnswers(o) \/ ReadBack(o)
                             \/ Complete(o) \/ Fail(o) \/ Crash(o)
  BY <1>2 DEF Claim, LoseLease, WriteAnswers, ReadBack, Complete, Fail, Crash
<1>3. CASE \E p \in puts : Land(p) \/ Drop(p)
  BY <1>3 DEF Land, Drop
<1>4. CASE Expire \/ ReleaseExpired \/ OperatorRetry \/ CleanSpool \/ LoseCopy
  BY <1>4 DEF Expire, ReleaseExpired, OperatorRetry, CleanSpool, LoseCopy
<1>5. CASE Tick \/ TakePoint \/ Restore \/ \E l \in Locations : Mark(l) \/ DeleteObject(l)
  BY <1>5 DEF Mark, DeleteObject, Tick, TakePoint, Restore
<1> QED BY <1>1, <1>2, <1>3, <1>4, <1>5 DEF Next, OwnerStep

\* The write an attempt waits for, as the row knows it before its claim.
LEMMA UnresolvedIs ==
    ASSUME upload \in Upload
    PROVE  /\ UnresolvedWrite \in Nat
           /\ UnresolvedWrite # 0 =>
                 UnresolvedWrite = upload.attempts
                 \/ (UnresolvedWrite = upload.wrote /\ upload.state = "failed" /\ upload.wrote > 0)
           /\ UnresolvedWrite = 0 /\ Due =>
                 \/ upload.attempts = 0
                 \/ upload.attempts >= upload.attempts + WaitAttempts
                 \/ /\ upload.attempts >= upload.wrote + WaitAttempts
                    /\ upload.state = "failed" /\ upload.wrote > 0
<1>1. upload.attempts \in Nat /\ upload.wrote \in Nat
  BY DEF Upload
<1> QED BY <1>1, ArchiveConstants DEF UnresolvedWrite, Due

\* How the upload row moves.
Reopens(u, v) ==
    /\ v.state = "pending" /\ v.token = 0 /\ v.attempts = u.attempts
    /\ v.generation \in drawn' \cup {u.generation}

Claimed(o, u, v) ==
    /\ Claim(o) /\ claims' = claims + 1
    /\ v.state = "leased" /\ v.token = claims' /\ v.attempts = u.attempts + 1
    /\ \/ v.generation = u.generation
       \/ v.generation \in Generations \ drawn /\ v.generation \in drawn'
    /\ lane'[o].at = "claimed" /\ lane'[o].attempt = v.attempts
    /\ lane'[o].generation = v.generation /\ lane'[o].token = v.token
    /\ lane'[o].unresolved = UnresolvedWrite /\ ~lane'[o].wrote

Failed(o, u, v) ==
    /\ Fail(o) /\ HoldsLive(o) /\ Ended(u, v) /\ v.state = "failed" /\ v.missing = lane[o].missing
    /\ v.wrote = IF lane[o].wrote THEN 0 ELSE lane[o].unresolved

LEMMA ClaimMoves ==
    ASSUME IType, NEW o \in Owners, Claim(o)
    PROVE  Claimed(o, upload, upload')
<1>0. /\ upload \in Upload /\ claims \in Nat /\ claims + 1 \in Nat
      /\ lane \in [Owners -> Lane] /\ upload.generation \in Locations
      /\ upload.attempts \in Nat /\ upload.attempts + 1 \in Nat /\ UnresolvedWrite \in Nat
  BY Typed, UnresolvedIs DEF IType, TypeOK, Upload
<1>1. PICK g \in Locations :
         /\ \/ g = upload.generation
            \/ g \in Generations \ drawn /\ g \in drawn'
         /\ upload' = [upload EXCEPT !.state = "leased", !.token = claims + 1, !.live = TRUE,
                          !.attempts = upload.attempts + 1, !.settled = 0, !.retry = FALSE,
                          !.generation = g]
         /\ lane' = [lane EXCEPT ![o] =
               [IdleLane EXCEPT !.at = "claimed", !.token = claims + 1, !.generation = g,
                                !.attempt = upload.attempts + 1, !.unresolved = UnresolvedWrite]]
  BY <1>0 DEF Claim, Locations
<1>2. PICK t \in Nat : t = claims + 1
  BY <1>0
<1>3. PICK n \in Nat : n = upload.attempts + 1
  BY <1>0
<1>4. PICK w \in Nat : w = UnresolvedWrite
  BY <1>0
<1>5. upload'.state = "leased" /\ upload'.token = t /\ upload'.attempts = n /\ upload'.generation = g
  <2>1. upload' = Leased(upload, t, n, g)
    BY <1>1, <1>2, <1>3, Zenon DEF Leased
  <2> QED BY <1>0, <2>1, LeasedIs
<1>6. /\ lane'[o].at = "claimed" /\ lane'[o].token = t /\ lane'[o].generation = g
      /\ lane'[o].attempt = n /\ lane'[o].unresolved = w /\ ~lane'[o].wrote
  <2>1. lane'[o] = LaneOf(t, g, n, w)
    <3>1. lane' = [lane EXCEPT ![o] = LaneOf(t, g, n, w)]
      BY <1>1, <1>2, <1>3, <1>4, Zenon DEF LaneOf
    <3> QED BY <3>1, <1>0
  <2> QED BY <2>1, ClaimedLane
<1>7. claims' = claims + 1
  BY DEF Claim
<1> QED BY <1>1, <1>2, <1>3, <1>4, <1>5, <1>6, <1>7 DEF Claimed

LEMMA UploadMoves ==
    ASSUME IType, Next, upload' # upload
    PROVE  \/ \E o \in Owners : Claimed(o, upload, upload')
           \/ \E o \in Owners : Failed(o, upload, upload')
           \/ Reopens(upload, upload')
           \/ Ended(upload, upload') /\ upload'.state = "complete"
           \/ upload.state = "none" /\ upload' = [NoUpload EXCEPT !.state = "pending"]
           \/ Expire
           \/ Restore
<1>0. /\ upload \in Upload /\ Shape(upload) /\ claims \in Nat /\ drawn \subseteq Generations
      /\ lane \in [Owners -> Lane] /\ upload.generation \in Locations /\ upload.attempts \in Nat
  BY Typed DEF IType, TypeOK, Upload
<1>1. ASSUME NEW s \in Sightings, CommitSighting(s)
      PROVE  \/ Reopens(upload, upload')
             \/ upload.state = "none" /\ upload' = [NoUpload EXCEPT !.state = "pending"]
  <2>1. ASSUME NEW g \in Generations \ drawn, upload' = Reopened(upload, g), g \in drawn'
        PROVE  Reopens(upload, upload')
    <3>1. g \in Locations
      BY DEF Locations
    <3> QED BY <2>1, <3>1, <1>0, ReopenedIs DEF Reopens
  <2> QED BY <1>1, <2>1 DEF CommitSighting, Sighted
<1>2. ASSUME NEW o \in Owners, Claim(o)
      PROVE  Claimed(o, upload, upload')
  BY <1>2, <1>0, ClaimMoves
<1>3. ASSUME NEW o \in Owners, Complete(o)
      PROVE  \/ Reopens(upload, upload')
             \/ Ended(upload, upload') /\ upload'.state = "complete"
  <2>0. lane[o].token \in Nat /\ lane[o].generation \in Locations
    BY Typed DEF IType
  <2>1. ASSUME NEW g \in Generations \ drawn, drawn' = drawn \cup {g},
               upload' = [upload EXCEPT !.state = "pending", !.generation = g,
                                        !.token = 0, !.live = FALSE]
        PROVE  Reopens(upload, upload')
    <3>1. g \in Locations
      BY DEF Locations
    <3>2. /\ upload'.state = "pending" /\ upload'.token = 0
          /\ upload'.attempts = upload.attempts /\ upload'.generation = g
      <4>1. upload' = Moved(upload, g)
        BY <2>1, Zenon DEF Moved
      <4> QED BY <4>1, <3>1, <1>0, MovedIs
    <3> QED BY <2>1, <3>2 DEF Reopens
  <2>2. CASE upload' = [Settled(o, upload) EXCEPT !.state = "complete",
                                                  !.location = lane[o].generation]
    BY <2>2, <2>0, <1>0, CompletedIs
  <2> QED BY <1>3, <2>1, <2>2 DEF Complete, CompleteLive
<1>4. ASSUME NEW o \in Owners, Fail(o)
      PROVE  Failed(o, upload, upload')
  <2>0. /\ lane[o].token \in Nat /\ lane[o].unresolved \in Nat
        /\ lane[o].retry \in BOOLEAN /\ lane[o].missing \in BOOLEAN
    BY Typed DEF IType
  <2>1. PICK w \in Nat : w = IF lane[o].wrote THEN 0 ELSE lane[o].unresolved
    BY <2>0
  <2>2. /\ HoldsLive(o)
        /\ upload' = [Settled(o, upload) EXCEPT !.state = "failed", !.retry = lane[o].retry,
                         !.missing = lane[o].missing, !.wrote = w]
    BY <1>4, <2>1 DEF Fail
  <2>3. /\ Ended(upload, upload') /\ upload'.state = "failed"
        /\ upload'.missing = lane[o].missing /\ upload'.wrote = w
    <3>1. PICK b \in BOOLEAN, c \in BOOLEAN : b = lane[o].retry /\ c = lane[o].missing
      BY <2>0, Zenon
    <3>2. upload' = FailedAs(Settled(o, upload), b, c, w)
      BY <2>2, <3>1, Zenon DEF FailedAs
    <3>3. Ended(upload, upload') /\ upload'.state = "failed" /\ upload'.missing = c /\ upload'.wrote = w
      BY <3>2, <2>0, <1>0, FailedIs
    <3> QED BY <3>1, <3>3, Zenon
  <2> QED BY <1>4, <2>1, <2>2, <2>3 DEF Failed
<1>5. CASE ReleaseExpired
  BY <1>5, <1>0, ReleasedIs DEF ReleaseExpired, Reopens
<1>6. CASE OperatorRetry
  <2>1. upload.token = 0
    BY <1>6, <1>0 DEF OperatorRetry, Shape, Upload, Tokens
  <2> QED BY <1>6, <2>1, <1>0, RetriedIs DEF OperatorRetry, Reopens
<1> QED BY <1>1, <1>2, <1>3, <1>4, <1>5, <1>6, WhoWritesUpload

\* An owner's lane between a claim and its end: what it was claimed with stays,
\* a write it made is not forgotten, and it says the bytes are missing only
\* after it found them nowhere.
Kept(q, r) ==
    /\ r.token = q.token /\ r.attempt = q.attempt /\ r.generation = q.generation
    /\ r.unresolved = q.unresolved

Moves(o) ==
    \/ lane'[o] = lane[o]
    \/ /\ ReadSpool(o) /\ lane[o].at = "claimed"
       /\ lane'[o].at = "putting" \/ lane'[o].wrote = lane[o].wrote
       /\ lane'[o].at # "claimed"
       /\ ~(lane'[o].at = "failing" /\ lane'[o].missing)
    \/ /\ ReadBack(o) /\ lane[o].at = "reading" /\ lane'[o].wrote = lane[o].wrote
       /\ lane'[o].at = "failing" /\ lane'[o].missing =>
             lane[o].unresolved = 0 /\ lane[o].generation \notin objects
    \/ lane'[o].at = "completing"
    \/ lane'[o].at = "failing" /\ ~lane'[o].missing

LEMMA LaneMoves ==
    ASSUME IType, Next, NEW o \in Owners, lane'[o].at # "idle", ~Claim(o)
    PROVE  /\ lane[o].at # "idle" /\ ~Restore
           /\ Kept(lane[o], lane'[o])
           /\ lane[o].wrote => lane'[o].wrote
           /\ Moves(o)
<1>0. lane \in [Owners -> Lane] /\ lane[o] \in Lane
  BY DEF IType, TypeOK
<1>1. ~Restore
  BY DEF Restore, IdleLane
<1>2. CASE lane'[o] = lane[o]
  BY <1>1, <1>2 DEF Kept, Moves
<1>3. ASSUME NEW p \in Owners, p # o, OwnerStep(p) \/ Crash(p)
      PROVE  lane'[o] = lane[o]
  BY <1>3, <1>0 DEF OwnerStep, Claim, LoseLease, ReadSpool, WriteAnswers, ReadBack,
                    Complete, Fail, Crash, Answered, Step, Failing
<1>4. CASE LoseLease(o) \/ Crash(o)
  BY <1>4, <1>0 DEF LoseLease, Crash, IdleLane
<1>5. CASE Complete(o) \/ Fail(o)
  <2>1. lane'[o] = lane[o]
    BY <1>5, <1>0 DEF Complete, Fail, Answered, IdleLane
  <2> QED BY <2>1, <1>2
<1>6. CASE ReadSpool(o)
  <2>1. lane[o].at = "claimed" /\ lane[o].at # "idle"
    BY <1>6 DEF ReadSpool
  <2>2. CASE lane' = [lane EXCEPT ![o].at = "putting", ![o].wrote = TRUE]
    BY <1>6, <2>1, <2>2, <1>0, <1>1 DEF Kept, Lane, Moves
  <2>3. CASE Step(o, "reading")
    <3>1. /\ lane'[o].at = "reading" /\ lane'[o].wrote = lane[o].wrote /\ Kept(lane[o], lane'[o])
      BY <2>3, <1>0 DEF Step, Kept, Lane
    <3> QED BY <1>6, <2>1, <3>1, <1>1 DEF Moves
  <2>4. CASE Failing(o, FALSE, FALSE)
    BY <1>6, <2>1, <2>4, <1>0, <1>1 DEF Failing, Kept, Lane, Moves
  <2> QED BY <1>6, <2>2, <2>3, <2>4 DEF ReadSpool
<1>7. CASE WriteAnswers(o)
  BY <1>7, <1>0, <1>1 DEF WriteAnswers, Step, Failing, Kept, Lane, Moves
<1>8. CASE ReadBack(o)
  <2>1. CASE Step(o, "completing")
    BY <1>8, <2>1, <1>0, <1>1 DEF ReadBack, Step, Kept, Lane, Moves
  <2>2. CASE /\ lane[o].generation \notin objects
             /\ Failing(o, ~NowhereToBeFound(o), NowhereToBeFound(o))
    <3>1. PICK b \in BOOLEAN, c \in BOOLEAN : Failing(o, b, c) /\ c = NowhereToBeFound(o)
      <4>1. NowhereToBeFound(o) \in BOOLEAN
        BY DEF NowhereToBeFound
      <4> QED BY <4>1, <2>2
    <3> QED BY <1>8, <2>2, <3>1, <1>0, <1>1 DEF ReadBack, Failing, Kept, Lane, Moves, NowhereToBeFound
  <2>3. CASE Failing(o, TRUE, FALSE)
    BY <1>8, <2>3, <1>0, <1>1 DEF ReadBack, Failing, Kept, Lane, Moves
  <2> QED BY <1>8, <2>1, <2>2, <2>3 DEF ReadBack
<1> QED BY <1>1, <1>2, <1>3, <1>4, <1>5, <1>6, <1>7, <1>8, WhoWritesLanes DEF OwnerStep

LEMMA InOpenWrites ==
    ASSUME NEW O, NEW p
    PROVE  p \in OpenWrites(O) <=>
              p \in puts \/ \E q \in O : lane[q].at = "claimed" /\ p = Made(q)
  BY DEF OpenWrites

LEMMA InOpenWritesNext ==
    ASSUME NEW O, NEW p
    PROVE  p \in OpenWrites(O)' <=>
              p \in puts' \/ \E q \in O : lane'[q].at = "claimed" /\ p = Made(q)'
  BY DEF OpenWrites

\* A write is opened by a claim; reading the spool only hands it over.
LEMMA OpenNext ==
    ASSUME IType, Next, NEW O \in SUBSET Owners, NEW p, p \in OpenWrites(O)'
    PROVE  \/ p \in OpenWrites(O)
           \/ \E q \in O : Claim(q) /\ lane'[q].at = "claimed" /\ p = Made(q)'
           \/ \E q \in Owners \ O : ReadSpool(q) /\ lane[q].at = "claimed" /\ lane'[q].wrote
                                    /\ p = Made(q)
<1>0. lane \in [Owners -> Lane]
  BY DEF IType, TypeOK
<1>1. CASE p \in puts' /\ puts' \subseteq puts
  BY <1>1, InOpenWrites
<1>2. ASSUME NEW o \in Owners, ReadSpool(o), p \in puts', p \notin puts
      PROVE  \/ p \in OpenWrites(O)
             \/ \E q \in Owners \ O : ReadSpool(q) /\ lane[q].at = "claimed" /\ lane'[q].wrote
                                      /\ p = Made(q)
  <2>1. p = Made(o) /\ lane[o].at = "claimed" /\ lane'[o].wrote
    BY <1>2, <1>0 DEF ReadSpool, Made, Lane
  <2> QED BY <1>2, <2>1, InOpenWrites
<1>3. ASSUME NEW q \in O, lane'[q].at = "claimed", p = Made(q)', ~Claim(q)
      PROVE  p \in OpenWrites(O)
  <2>1. q \in Owners
    OBVIOUS
  <2>2. Kept(lane[q], lane'[q]) /\ lane'[q] = lane[q]
    <3>1. ReadSpool(q) => lane'[q].at # "claimed"
      BY <2>1, <1>0 DEF ReadSpool, Step, Failing, Lane
    <3>2. ReadBack(q) => lane'[q].at # "claimed"
      BY <2>1, <1>0 DEF ReadBack, Step, Failing, Lane
    <3> QED BY <1>3, <2>1, <3>1, <3>2, LaneMoves DEF Moves
  <2>3. p = Made(q) /\ lane[q].at = "claimed"
    BY <1>3, <2>2 DEF Made
  <2> QED BY <2>3, InOpenWrites
<1> QED BY <1>1, <1>2, <1>3, InOpenWritesNext, InOpenWrites, WhoWritesPuts

LEMMA WritesTypes ==
    ASSUME IType, Numbered
    PROVE  /\ upload.attempts \in Nat /\ upload.token \in Nat /\ upload.wrote \in Nat
           /\ upload.state \in {"none", "pending", "leased", "failed", "complete"}
           /\ upload.generation \in Locations
           /\ \A p \in OpenWrites(Owners) : p.attempt \in Nat /\ p.location \in Locations
           /\ \A o \in Owners : lane[o].token \in Nat /\ lane[o].unresolved \in Nat
                                /\ lane[o].attempt \in Nat /\ lane[o].wrote \in BOOLEAN
<1>0. /\ upload \in Upload /\ \A o \in Owners : lane[o] \in Lane
      /\ puts \subseteq [location : Locations, attempt : Nat]
  BY Typed DEF IType, TypeOK
<1>1. \A r \in Lane : /\ r.token \in Nat /\ r.unresolved \in Nat /\ r.attempt \in Nat
                      /\ r.wrote \in BOOLEAN /\ r.generation \in Locations
  BY DEF Lane, Tokens
<1>2. ASSUME NEW p \in OpenWrites(Owners)
      PROVE  p.attempt \in Nat /\ p.location \in Locations
  BY <1>0, <1>1, InOpenWrites DEF Made
<1> QED BY <1>0, <1>1, <1>2 DEF Upload, Tokens

\* A row keeps to generations and tokens drawn so far.
LEMMA DrawnNext ==
    ASSUME IType, Numbered, Next
    PROVE  Drawn(upload)' /\ (point'.at >= 0 => Drawn(point.saved.upload)')
<1> DEFINE Good(u) == /\ u.generation \in drawn' \cup {Original}
                      /\ u.token <= claims'
                      /\ u.state = "none" => u.attempts = 0
<1>0. /\ drawn \subseteq drawn' /\ claims \in Nat /\ claims' \in Nat /\ claims <= claims'
      /\ Drawn(upload) /\ upload \in Upload
      /\ point.at >= 0 => Drawn(point.saved.upload) /\ point.saved.upload \in Upload
  BY CountsGrow, Typed, SavedTypes DEF IType, Numbered
<1>1. \A u \in Upload : Drawn(u) => Good(u)
  <2>1. \A u \in Upload : u.token \in Nat
    BY DEF Upload, Tokens
  <2> QED BY <2>1, <1>0 DEF Drawn
<1>2. Good(upload')
  <2>1. CASE upload' = upload
    BY <2>1, <1>0, <1>1
  <2>2. ASSUME NEW o \in Owners, Claimed(o, upload, upload')
        PROVE  Good(upload')
    BY <2>2, <1>0, <1>1 DEF Claimed
  <2>3. ASSUME NEW o \in Owners, Failed(o, upload, upload')
        PROVE  Good(upload')
    BY <2>3, <1>0, <1>1 DEF Failed, Ended
  <2>4. CASE Reopens(upload, upload')
    BY <2>4, <1>0, <1>1 DEF Reopens
  <2>5. CASE Ended(upload, upload') /\ upload'.state = "complete"
    BY <2>5, <1>0, <1>1 DEF Ended
  <2>6. CASE upload' = [NoUpload EXCEPT !.state = "pending"]
    BY <2>6, <1>0 DEF NoUpload
  <2>7. CASE Expire
    <3>1. /\ upload'.state = upload.state /\ upload'.token = upload.token
          /\ upload'.attempts = upload.attempts /\ upload'.generation = upload.generation
      BY <2>7, <1>0, ExpiredIs DEF Expire
    <3> QED BY <3>1, <1>0, <1>1
  <2>8. CASE Restore
    BY <2>8, <1>0, <1>1 DEF Restore
  <2> QED BY <2>1, <2>2, <2>3, <2>4, <2>5, <2>6, <2>7, <2>8, UploadMoves
<1>3. point'.at >= 0 => Good(point'.saved.upload)
  <2>1. CASE TakePoint
    BY <2>1, <1>0, <1>1, Fields DEF TakePoint
  <2>2. CASE Restore
    BY <2>2 DEF Restore, IType, TypeOK
  <2>3. CASE point' = point
    BY <2>3, <1>0, <1>1
  <2> QED BY <2>1, <2>2, <2>3, WhoWritesRecovery DEF Tick
<1> QED BY <1>2, <1>3 DEF Drawn

LEMMA NumberedNext ==
    ASSUME IType, Numbered, Next
    PROVE  Numbered'
<1>0. /\ drawn \subseteq drawn' /\ claims \in Nat /\ claims' \in Nat /\ claims <= claims'
  BY CountsGrow
<1>1. ASSUME NEW p, p \in OpenWrites(Owners)'
      PROVE  p.attempt > 0 /\ p.attempt <= upload'.attempts /\ p.location \in drawn' \cup {Original}
  <2>1. ASSUME NEW q \in Owners, Claim(q), p = Made(q)'
        PROVE  p.attempt > 0 /\ p.attempt <= upload'.attempts /\ p.location \in drawn' \cup {Original}
    <3>1. Claimed(q, upload, upload')
      BY <2>1, ClaimMoves
    <3>2. p.attempt = upload'.attempts /\ p.location = upload'.generation
      BY <2>1, <3>1 DEF Claimed, Made
    <3>3. upload'.generation \in drawn' \cup {Original}
      BY DrawnNext DEF Drawn
    <3> QED BY <3>1, <3>2, <3>3, WritesTypes DEF Claimed
  <2>2. ASSUME p \in OpenWrites(Owners)
        PROVE  p.attempt > 0 /\ p.attempt <= upload'.attempts /\ p.location \in drawn' \cup {Original}
    <3>1. /\ p.attempt > 0 /\ p.attempt <= upload.attempts /\ p.location \in drawn \cup {Original}
          /\ p.attempt \in Nat /\ upload.attempts \in Nat /\ upload \in Upload
      BY <2>2, WritesTypes, Typed DEF Numbered, IType
    <3>2. upload.state # "none"
      BY <3>1 DEF Numbered, Drawn
    <3>3. ~Restore
      BY <1>1, InOpenWritesNext DEF Restore, IdleLane, store
    <3>4. upload'.attempts = upload.attempts \/ upload'.attempts = upload.attempts + 1
      <4>1. CASE Expire
        BY <4>1, <3>1, ExpiredIs DEF Expire
      <4> QED BY <3>2, <3>3, <4>1, UploadMoves DEF Claimed, Failed, Reopens, Ended
    <3> QED BY <3>1, <3>4, <1>0
  <2> QED BY <1>1, <2>1, <2>2, OpenNext
<1>2. ASSUME NEW o \in Owners, lane'[o].at # "idle"
      PROVE  lane'[o].token <= claims'
  <2>1. CASE Claim(o)
    BY <2>1, <1>0, ClaimMoves DEF Claimed
  <2>2. CASE ~Claim(o)
    BY <1>2, <2>2, <1>0, LaneMoves, WritesTypes DEF Numbered, Busy, Kept
  <2> QED BY <2>1, <2>2
<1> QED BY <1>1, <1>2, DrawnNext DEF Numbered, Busy

\* A lease that an owner still holds after a step of another kind than its claim
\* was its lease before, and nothing of the row has changed.
LEMMA StillHolds ==
    ASSUME IType, Numbered, Next, NEW o \in Owners, ~Claim(o),
           (Busy(o) /\ HoldsLive(o))'
    PROVE  /\ upload' = upload /\ Busy(o) /\ HoldsLive(o)
           /\ Kept(lane[o], lane'[o]) /\ (lane[o].wrote => lane'[o].wrote) /\ Moves(o)
<1>0. /\ lane[o].at # "idle" /\ ~Restore /\ Kept(lane[o], lane'[o])
      /\ (lane[o].wrote => lane'[o].wrote) /\ Moves(o)
  BY LaneMoves DEF Busy
<1>1. /\ upload'.state = "leased" /\ upload'.live /\ upload'.token = lane[o].token
  BY <1>0 DEF HoldsLive, Kept
<1>2. upload' = upload
  <2>1. ASSUME NEW q \in Owners, Claimed(q, upload, upload') PROVE FALSE
    <3>1. upload'.token = claims + 1 /\ claims \in Nat
      BY <2>1, CountsGrow DEF Claimed
    <3>2. lane[o].token <= claims /\ lane[o].token \in Nat
      BY <1>0, WritesTypes DEF Numbered, Busy
    <3> QED BY <3>1, <3>2, <1>1
  <2>2. ~Expire
    BY <1>1, Typed, ExpiredIs DEF Expire, IType
  <2>3. upload' # [NoUpload EXCEPT !.state = "pending"]
    BY <1>1 DEF NoUpload
  <2> QED BY <1>0, <1>1, <2>1, <2>2, <2>3, UploadMoves DEF Failed, Reopens, Ended
<1>3. HoldsLive(o)
  BY <1>0, <1>1, <1>2 DEF HoldsLive, Matches, Kept
<1> QED BY <1>0, <1>2, <1>3 DEF Busy

LEMMA FailureNext ==
    ASSUME IType, WritesInv, Next
    PROVE  Failure'
<1>0. Numbered /\ Failure /\ upload \in Upload
  BY Typed DEF WritesInv, IType
<1> SUFFICES ASSUME upload'.state = "failed", upload'.wrote > 0,
                    NEW p, p \in OpenWrites(Owners)', p.location = upload'.generation
             PROVE  p.attempt <= upload'.wrote \/ upload'.attempts > p.attempt + WaitAttempts
  BY DEF Failure, Gone
<1>1. ~Restore
  BY InOpenWritesNext DEF Restore, IdleLane, store
<1>2. p \in OpenWrites(Owners)
  <2>1. ASSUME NEW q \in Owners, Claim(q) PROVE FALSE
    BY <2>1, ClaimMoves DEF Claimed
  <2> QED BY <2>1, OpenNext
<1>3. CASE upload' = upload
  BY <1>2, <1>3, <1>0 DEF Failure, Gone
<1>4. ASSUME NEW o \in Owners, Failed(o, upload, upload')
      PROVE  p.attempt <= upload'.wrote \/ upload'.attempts > p.attempt + WaitAttempts
  <2>1. /\ Busy(o) /\ HoldsLive(o) /\ lane[o].at = "failing" /\ ~lane[o].wrote
        /\ upload'.wrote = lane[o].unresolved
    BY <1>4 DEF Failed, Fail, Busy
  <2>2. /\ upload'.generation = lane[o].generation /\ upload'.attempts = upload.attempts
    BY <1>4 DEF Failed, HoldsLive, Matches, Ended
  <2>3. Awaited(o)
    BY <2>1 DEF WritesInv
  <2>4. p \in OpenWrites(Owners \ {o})
    BY <1>2, <2>1, InOpenWrites
  <2> QED BY <2>1, <2>2, <2>3, <2>4 DEF Awaited, Gone
<1>5. ~Expire
  BY <1>0, ExpiredIs DEF Expire
<1>6. upload' # [NoUpload EXCEPT !.state = "pending"]
  BY DEF NoUpload
<1> QED BY <1>1, <1>3, <1>4, <1>5, <1>6, UploadMoves DEF Claimed, Reopens

\* What an owner's claim learns of the writes of earlier attempts.
LEMMA AwaitedByClaim ==
    ASSUME IType, Numbered, Failure, Next, NEW o \in Owners, Claim(o)
    PROVE  Awaited(o)' /\ Searched(o)'
<1>1. Claimed(o, upload, upload')
  BY ClaimMoves
<1>2. Searched(o)'
  BY <1>1 DEF Searched, Claimed
<1>3. ASSUME NEW p, p \in OpenWrites(Owners \ {o})', p.location = lane'[o].generation
      PROVE  \/ p.attempt <= lane'[o].unresolved
             \/ upload'.attempts > p.attempt + WaitAttempts
  <2>0. lane \in [Owners -> Lane]
    BY DEF IType, TypeOK
  <2>1. p \in OpenWrites(Owners \ {o})
    <3>1. \A q \in Owners \ {o} : lane'[q] = lane[q]
      BY <2>0 DEF Claim
    <3>2. puts' = puts
      BY DEF Claim, store
    <3> QED BY <1>3, <3>1, <3>2, InOpenWrites, InOpenWritesNext DEF Made
  <2>2. p \in OpenWrites(Owners)
    BY <2>1, InOpenWrites
  <2>3. /\ p.attempt > 0 /\ p.attempt <= upload.attempts /\ p.location \in drawn \cup {Original}
        /\ p.attempt \in Nat /\ upload.attempts \in Nat /\ upload.wrote \in Nat
    BY <2>2, WritesTypes DEF Numbered
  <2>4. p.location = upload.generation
    BY <1>1, <1>3, <2>3, ArchiveConstants DEF Claimed
  <2>5. upload.state = "failed" /\ upload.wrote > 0 =>
           p.attempt <= upload.wrote \/ upload.attempts > p.attempt + WaitAttempts
    BY <2>2, <2>4 DEF Failure, Gone
  <2>6. lane'[o].unresolved = UnresolvedWrite /\ upload'.attempts = upload.attempts + 1
    BY <1>1 DEF Claimed
  <2>7. Due /\ upload \in Upload
    BY Typed DEF Claim, IType
  <2> QED BY <2>3, <2>5, <2>6, <2>7, UnresolvedIs, ArchiveConstants
<1> QED BY <1>2, <1>3 DEF Awaited, Gone

LEMMA LiveNext ==
    ASSUME IType, WritesInv, Next, NEW o \in Owners, (Busy(o) /\ HoldsLive(o))'
    PROVE  Awaited(o)' /\ Searched(o)'
<1>0. Numbered /\ Failure
  BY DEF WritesInv
<1>1. CASE Claim(o)
  BY <1>0, <1>1, AwaitedByClaim
<1>2. CASE ~Claim(o)
  <2>1. /\ upload' = upload /\ Busy(o) /\ HoldsLive(o)
        /\ Kept(lane[o], lane'[o]) /\ (lane[o].wrote => lane'[o].wrote) /\ Moves(o)
    BY <1>0, <1>2, StillHolds
  <2>2. Awaited(o) /\ Searched(o)
    BY <2>1 DEF WritesInv
  <2>3. ASSUME NEW p, p \in OpenWrites(Owners \ {o})', p.location = lane'[o].generation
        PROVE  \/ p.attempt <= lane'[o].unresolved
               \/ upload'.attempts > p.attempt + WaitAttempts
               \/ lane'[o].wrote
    <3>1. ASSUME NEW q \in Owners, Claim(q) PROVE FALSE
      <4>1. upload'.attempts = upload.attempts + 1
        BY <3>1, ClaimMoves DEF Claimed
      <4> QED BY <4>1, <2>1, <1>0, WritesTypes
    <3>2. p \in OpenWrites(Owners \ {o}) \/ lane'[o].wrote
      BY <2>3, <3>1, OpenNext
    <3> QED BY <3>2, <2>1, <2>2, <2>3 DEF Awaited, Gone, Kept
  <2>4. Searched(o)'
    <3>1. lane'[o].at \in {"claimed", "reading"} => ~lane'[o].wrote
      BY <2>1, <2>2 DEF Moves, Searched
    <3>2. ASSUME lane'[o].at = "failing", lane'[o].missing
          PROVE  /\ ~lane'[o].wrote /\ lane'[o].unresolved = 0
                 /\ lane'[o].generation \notin objects
      <4>1. CASE lane'[o] = lane[o]
        BY <3>2, <4>1, <2>2 DEF Searched
      <4>2. CASE lane'[o] # lane[o]
        BY <3>2, <4>2, <2>1, <2>2 DEF Moves, Searched, Kept
      <4> QED BY <4>1, <4>2
    <3>3. ASSUME lane'[o].at = "failing", lane'[o].missing
          PROVE  lane'[o].generation \notin objects'
      <4>1. CASE objects' \subseteq objects
        BY <3>2, <3>3, <4>1
      <4>2. ASSUME NEW p \in puts, Land(p) PROVE lane'[o].generation \notin objects'
        <5>1. objects' = objects \cup {p.location} /\ upload.attempts <= p.attempt + WaitAttempts
              /\ lane' = lane
          BY <4>2 DEF Land
        <5>2. p \in OpenWrites(Owners \ {o}) /\ p \in OpenWrites(Owners)
          BY InOpenWrites
        <5>3. p.attempt > 0 /\ p.attempt \in Nat /\ upload.attempts \in Nat
          BY <5>2, <1>0, WritesTypes DEF Numbered
        <5>4. p.location # lane[o].generation
          <6>1. ~lane[o].wrote /\ lane[o].unresolved = 0
            BY <5>1, <3>2, <3>3
          <6>2. p.location = lane[o].generation =>
                   p.attempt <= 0 \/ upload.attempts > p.attempt + WaitAttempts
            BY <5>2, <6>1, <2>2 DEF Awaited, Gone
          <6> QED BY <5>1, <5>3, <6>2, ArchiveConstants
        <5> QED BY <5>1, <5>4, <3>2, <3>3
      <4> QED BY <4>1, <4>2, WhoLands
    <3> QED BY <3>1, <3>2, <3>3 DEF Searched
  <2> QED BY <2>3, <2>4 DEF Awaited, Gone
<1> QED BY <1>1, <1>2

LEMMA NextWrites == IType /\ WritesInv /\ [Next]_vars => WritesInv'
<1> SUFFICES ASSUME IType, WritesInv, [Next]_vars PROVE WritesInv'
  OBVIOUS
<1>1. CASE Next
  <2>1. Numbered' /\ Failure'
    BY <1>1, NumberedNext, FailureNext DEF WritesInv
  <2>2. ASSUME NEW o \in Owners, (Busy(o) /\ HoldsLive(o))'
        PROVE  Awaited(o)' /\ Searched(o)'
    BY <1>1, <2>2, LiveNext
  <2> QED BY <2>1, <2>2 DEF WritesInv
<1>2. CASE UNCHANGED vars
  <2>1. UNCHANGED <<upload, objects, puts, drawn, claims, lane, point>>
    BY <1>2 DEF vars, database, store, counts, recovery
  <2>2. Numbered' /\ Failure'
    BY <2>1 DEF WritesInv, Numbered, Failure, OpenWrites, Made, Gone, Drawn, Busy
  <2>3. ASSUME NEW o \in Owners, (Busy(o) /\ HoldsLive(o))'
        PROVE  Awaited(o)' /\ Searched(o)'
    <3>1. Awaited(o) /\ Searched(o)
      BY <2>1, <2>3 DEF WritesInv, Busy, HoldsLive, Matches
    <3> QED BY <2>1, <3>1 DEF Awaited, Searched, OpenWrites, Made, Gone
  <2> QED BY <2>2, <2>3 DEF WritesInv
<1> QED BY <1>1, <1>2

LEMMA InitWrites == Init => WritesInv
<1> SUFFICES ASSUME Init PROVE WritesInv
  OBVIOUS
<1>1. \A o \in Owners : lane[o].at = "idle"
  BY DEF Init, IdleLane
<1>2. OpenWrites(Owners) = {}
  BY <1>1 DEF Init, OpenWrites
<1>3. Drawn(upload)
  BY DEF Init, Drawn, NoUpload
<1>4. point.at = -1
  BY DEF Init
<1> QED BY <1>1, <1>2, <1>3, <1>4 DEF WritesInv, Numbered, Failure, Busy

\* An upload is recorded as missing its bytes only when they are not where it
\* would have put them and no write of any attempt can still put them there
\* (uploader._archived_copy, WRITE_UNRESOLVED_SQL), for every waiting time.
THEOREM MissingIsProven == Spec => MissingIsMissing
<1> DEFINE Proven ==
         upload.state = "leased" /\ upload'.state = "failed" /\ upload'.missing
         /\ point'.used = point.used =>
            /\ upload.generation \notin objects
            /\ \A p \in puts : p.location # upload.generation
                               \/ upload.attempts > p.attempt + WaitAttempts
<1>1. ASSUME IType, WritesInv, [Next]_vars PROVE Proven
  <2> SUFFICES ASSUME upload.state = "leased", upload'.state = "failed", upload'.missing,
                      point'.used = point.used
               PROVE  /\ upload.generation \notin objects
                      /\ \A p \in puts : p.location # upload.generation
                                         \/ upload.attempts > p.attempt + WaitAttempts
    OBVIOUS
  <2>0. /\ Next /\ upload' # upload /\ upload \in Upload /\ Numbered
        /\ PointIsSound /\ TypeOK
    BY <1>1, Typed DEF vars, database, IType, WritesInv
  <2>1. ~Restore
    BY <2>0 DEF Restore, PointIsSound, TypeOK
  <2>2. ~Expire
    BY <2>0, ExpiredIs DEF Expire
  <2>3. PICK o \in Owners : Failed(o, upload, upload')
    BY <1>1, <2>0, <2>1, <2>2, UploadMoves DEF Claimed, Reopens, NoUpload
  <2>4. /\ lane[o].at = "failing" /\ lane[o].missing /\ Busy(o) /\ HoldsLive(o)
        /\ upload.generation = lane[o].generation
    BY <2>3 DEF Failed, Fail, Busy, HoldsLive, Matches
  <2>5. Awaited(o) /\ Searched(o)
    BY <1>1, <2>4 DEF WritesInv
  <2>6. ~lane[o].wrote /\ lane[o].unresolved = 0 /\ lane[o].generation \notin objects
    BY <2>4, <2>5 DEF Searched
  <2>7. ASSUME NEW p \in puts, p.location = upload.generation
        PROVE  upload.attempts > p.attempt + WaitAttempts
    <3>1. p \in OpenWrites(Owners \ {o}) /\ p \in OpenWrites(Owners)
      BY InOpenWrites
    <3>2. p.attempt > 0 /\ p.attempt \in Nat
      BY <3>1, <2>0, <1>1, WritesTypes DEF Numbered
    <3>3. \/ p.attempt <= 0
          \/ upload.attempts > p.attempt + WaitAttempts
      <4>1. p.location = lane[o].generation
        BY <2>4, <2>7
      <4>2. p.attempt <= lane[o].unresolved \/ Gone(p) \/ lane[o].wrote
        BY <3>1, <4>1, <2>5 DEF Awaited
      <4> QED BY <4>2, <2>6 DEF Gone
    <3> QED BY <3>2, <3>3
  <2> QED BY <2>4, <2>6, <2>7
<1>2. IType /\ WritesInv /\ [Next]_vars => Proven
  BY <1>1
<1>3. [][Proven]_vars <=> MissingIsMissing
  BY DEF MissingIsMissing
<1> HIDE DEF Proven
<1> QED BY <1>2, <1>3, ITypeInvariant, InitWrites, NextWrites, PTL DEF Spec

=============================================================================
