------------------------- MODULE MCArchiveUploads -------------------------
(***************************************************************************)
(* Small instances for TLC of two clients of services whose answers may be *)
(* lost and whose writes may land late: the uploads to the object store    *)
(* (ArchiveUploads) and the bot's Discord DMs (DiscordMessages).  A        *)
(* behaviour follows one of them: "uploads", "alerts" or "summaries".      *)
(***************************************************************************)
EXTENDS ArchiveUploads, TLC

CONSTANTS Nothing, User1

VARIABLES
    followed,
    clock, events, crashes, may, user, on, confirm, summaryOn, saved, log, waiting, loop, air, shown

\* One player's alerts, switched and linked twice around one defense.
Alerts == INSTANCE DiscordMessages WITH
    now <- clock, Players <- {1}, Battles <- {1}, Defender <- <<1>>, Users <- {User1},
    Parts <- <<{1}>>, Window <- 4, Limit <- 2, Wait <- 1, Flight <- 1, Memory <- 3, NextReset <- 0,
    LastEvent <- 3, LastTick <- 4, MaxEvents <- 2, MaxCrashes <- 1, Loops <- {"alerts"},
    None <- Nothing

\* Two players' summary in two DMs.
Summaries == INSTANCE DiscordMessages WITH
    now <- clock, Players <- {1, 2}, Battles <- {}, Defender <- <<>>, Users <- {User1},
    Parts <- <<{1}, {2}>>, Window <- 5, Limit <- 3, Wait <- 1, Flight <- 1, Memory <- 4,
    NextReset <- 7, LastEvent <- 4, LastTick <- 8, MaxEvents <- 1, MaxCrashes <- 1,
    Loops <- {"summaries"}, None <- Nothing

discord == <<clock, events, crashes, may, user, on, confirm, summaryOn, saved, log, waiting, loop,
             air, shown>>

\* Fresh generations are interchangeable, and so are owners and sightings.
Symmetry == Permutations(Generations) \cup Permutations(Owners) \cup Permutations(Sightings)

ServicesInit ==
    /\ Init
    /\ \/ followed \in {"uploads", "alerts"} /\ Alerts!Init
       \/ followed = "summaries" /\ Summaries!Init

ServicesNext ==
    /\ followed' = followed
    /\ \/ followed = "uploads" /\ Next /\ UNCHANGED discord
       \/ /\ UNCHANGED vars
          /\ \/ followed = "alerts" /\ Alerts!Next
             \/ followed = "summaries" /\ Summaries!Next

ServicesSpec == ServicesInit /\ [][ServicesNext]_<<followed, vars, discord>>

\* DiscordMessages' properties, of the instance followed.
OnceEach == (followed = "alerts" => Alerts!OnceEach) /\ (followed = "summaries" => Summaries!OnceEach)
QuietWhenOff ==
    (followed = "alerts" => Alerts!QuietWhenOff) /\ (followed = "summaries" => Summaries!QuietWhenOff)
===========================================================================
