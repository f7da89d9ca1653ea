------------------------ MODULE MCProviderRequests ------------------------
(***************************************************************************)
(* Small instances for TLC of the collector's requests (ProviderRequests)  *)
(* and of the responses it saves (SpoolHandoff, for its safety).  A        *)
(* request's answer is all that SpoolHandoff takes from it, so a behaviour  *)
(* follows one of the two.                                                 *)
(***************************************************************************)
EXTENDS ProviderRequests, TLC

CONSTANTS i1, b1, b2, c1, c2

VARIABLES
    followed,   \* "requests" or "responses"
    files, sidecars, phase, turns, known, paused, mode, recovery, cleaner, row, evidence,
    processed, upload, kept, retired, applied, sighted, disordered, crashes, faults

\* Requests are interchangeable, and so are keys.
Symmetry == Permutations(Requests) \cup Permutations(Keys)

\* One identity; a response changes the used fields and the next one changes
\* them back.
Spool == INSTANCE SpoolHandoff WITH
    LastResponse <- 3, Identities <- {i1}, Bodies <- {b1, b2}, Contents <- {c1, c2},
    IdentityOf <- <<i1, i1, i1>>, BodyOf <- <<b1, b2, b1>>, ContentOf <- b1 :> c1 @@ b2 :> c2,
    MaxCrashes <- 1, MaxFaults <- 0

spool == <<files, sidecars, phase, turns, known, paused, mode, recovery, cleaner, row, evidence,
           processed, upload, kept, retired, applied, sighted, disordered, crashes, faults>>

CollectorInit == followed \in {"requests", "responses"} /\ Init /\ Spool!Init

\* Requests never all wait for one another; the three responses are saved and
\* settled in the end.
CollectorNext ==
    \/ followed = "requests" /\ Next /\ UNCHANGED <<followed, spool>>
    \/ followed = "responses" /\ Spool!Next /\ UNCHANGED <<followed, vars>>
    \/ followed = "responses" /\ UNCHANGED <<followed, vars, spool>>

CollectorSpec == CollectorInit /\ [][CollectorNext]_<<followed, vars, spool>>

\* SpoolHandoff's properties.
SavedOnce == followed = "responses" => Spool!SavedOnce
ChangeKept == followed = "responses" => Spool!ChangeKept
===========================================================================
