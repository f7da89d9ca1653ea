-------------------------- MODULE DiscordMessages --------------------------
(***************************************************************************)
(* The Discord bot's DMs (bot/alerts.py, bot/summaries.py) for one account *)
(* whose Clasher changes switches, links and the connected Discord user at *)
(* any moment (api_discord_alerts.py, api_accounts.py, migrations 0108,    *)
(* 0112, 0139).  One loop sends confirmations and attack alerts, another   *)
(* the summary of the day that ended, in parts.  A try may reach Discord   *)
(* though its answer is lost or cut off, and the bot may crash.            *)
(***************************************************************************)
EXTENDS Integers, Sequences, FiniteSetsExt, TLC

CONSTANTS
    Players,    \* the account's players
    Battles,    \* defenses that may be saved,
    Defender,   \* and whose they are
    Users,      \* Discord users the account may be connected to
    Parts,      \* of the summary: the players each of its DMs names
    Window,     \* an alert is due this long after its battle (WINDOW),
    Limit,      \* tried this long after its first try (NONCE_SECONDS),
    Wait,       \* first after this wait, then twice that (RETRY_SECONDS)
    Flight,     \* a cut-off try lands within this, or never
    Memory,     \* Discord remembers a nonce this long, Limit and Flight included
    NextReset,  \* the summary's day ends
    LastEvent, LastTick, MaxEvents, MaxCrashes,   \* bounds
    Loops,      \* the loops followed, of "alerts" and "summaries"
    None

VARIABLES
    now, events, crashes,
    may,        \* of each player: linked to the account (MAY_SEND)
    user,       \* the Discord user connected, or None
    on,         \* when each player's alerts went on, 0 while they are off
    confirm,    \* when their confirmation was last asked for
    summaryOn,  \* the players whose summary is on
    saved,      \* when each battle was saved, 0 before
    log,        \* the delivery log: the DMs and summaries logged
    waiting,    \* the alert loop's DMs waiting for their next try
    loop,       \* what each loop does
    air,        \* tries given up that may still reach Discord
    shown       \* the nonces Discord took: when last, and how many DMs show

site == <<may, user, on, confirm, summaryOn, saved>>
bot == <<log, waiting, loop>>
vars == <<now, events, crashes, site, bot, air, shown>>

Resting == [at |-> "round"]

Confirmation(p) == [player |-> p, battle |-> None, since |-> confirm[p]]
Alert(b) == [player |-> Defender[b], battle |-> b, since |-> saved[b]]
Summary == [player |-> None, battle |-> None, since |-> NextReset]

Nonce(t) == <<t.dm, t.part>>

(***************************************************************************)
(* What is still due, read fresh from the database.                        *)
(***************************************************************************)
WantedDM(d, u) ==
    /\ user = u /\ on[d.player] # 0 /\ may[d.player]
    /\ IF d.battle = None THEN confirm[d.player] = d.since ELSE on[d.player] < d.since

Named(part) == IF part = 0 THEN UNION {Parts[k] : k \in DOMAIN Parts} ELSE Parts[part]

Wanted(t) ==
    IF t.dm = Summary THEN user = t.user /\ \A p \in Named(t.part) : may[p] /\ p \in summaryOn
    ELSE WantedDM(t.dm, t.user)

InTime(t) == now < IF t.dm = Summary THEN NextReset ELSE t.dm.since + Window

StillDue(t) == Wanted(t) /\ InTime(t)

\* How long the DM may still be tried.
Left(t) ==
    IF t.dm = Summary THEN Min({t.first + Limit, NextReset}) - now ELSE t.first + Limit - now

At(l, at) == loop[l].at = at

\* The loop's try is on its way to Discord.
Flying(l) == At(l, "sending") /\ loop[l].try = "going"

(***************************************************************************)
(* The website and the worker.  Everything that is stamped takes an        *)
(* instant of its own; a try in the air lands in time or never.            *)
(***************************************************************************)
Pass ==
    /\ air' = {f \in air : f.until > now}
    /\ \A l \in Loops : Flying(l) => Left(loop[l]) + Flight > 0
    /\ now' = now + 1

Event ==
    /\ events < MaxEvents /\ now < LastEvent
    /\ events' = events + 1
    /\ Pass
    /\ UNCHANGED <<crashes, bot, shown>>

\* set_attack_alert: turning on what is on changes nothing.
SwitchOn(p) ==
    /\ Event
    /\ "alerts" \in Loops /\ may[p] /\ on[p] = 0
    /\ on' = [on EXCEPT ![p] = now'] /\ confirm' = [confirm EXCEPT ![p] = now']
    /\ UNCHANGED <<may, user, summaryOn, saved>>

SwitchOff(p) ==
    /\ Event
    /\ may[p] /\ on[p] # 0
    /\ on' = [on EXCEPT ![p] = 0]
    /\ UNCHANGED <<may, user, confirm, summaryOn, saved>>

SwitchSummary(p) ==
    /\ Event
    /\ "summaries" \in Loops /\ may[p]
    /\ summaryOn' = SymDiff(summaryOn, {p})
    /\ UNCHANGED <<may, user, on, confirm, saved>>

\* The link goes or moves, and both switches with it (the triggers).
LoseLink(p) ==
    /\ Event
    /\ may[p]
    /\ may' = [may EXCEPT ![p] = FALSE]
    /\ on' = [on EXCEPT ![p] = 0]
    /\ summaryOn' = summaryOn \ {p}
    /\ UNCHANGED <<user, confirm, saved>>

Link(p) ==
    /\ Event
    /\ ~may[p]
    /\ may' = [may EXCEPT ![p] = TRUE]
    /\ UNCHANGED <<user, on, confirm, summaryOn, saved>>

Disconnect ==
    /\ Event
    /\ user # None
    /\ user' = None
    /\ UNCHANGED <<may, on, confirm, summaryOn, saved>>

\* link_provider, also for the user connected already: confirmed again.
Connect(u) ==
    /\ Event
    /\ user \in {None, u}
    /\ user' = u
    /\ confirm' = [p \in Players |-> IF on[p] = 0 THEN confirm[p] ELSE now']
    /\ UNCHANGED <<may, on, summaryOn, saved>>

SaveBattle(b) ==
    /\ Event
    /\ saved[b] = 0
    /\ saved' = [saved EXCEPT ![b] = now']
    /\ UNCHANGED <<may, user, on, confirm, summaryOn>>

\* After the last event time passes only for what waits for it.
Tick ==
    /\ now < LastEvent \/ waiting \cup air # {} \/ \E l \in Loops : ~At(l, "round")
    /\ now < LastTick
    /\ Pass
    /\ UNCHANGED <<events, crashes, site, bot, shown>>

(***************************************************************************)
(* The loops.  A DM is logged while it is still due, then sent at once; a  *)
(* lost answer of the log's insert leaves it logged and never sent.        *)
(***************************************************************************)
\* How the DM went is written to its log row, which stays.
Rest(l) == loop' = [loop EXCEPT ![l] = Resting]

\* Ready to be sent, and how many of its tries since were not wanted.
Sendable(d, u, part) ==
    [at |-> "checked", dm |-> d, user |-> u, part |-> part, first |-> None, wait |-> 0,
     try |-> "none", late |-> 0]

Claim(l, d) ==
    LET t == Sendable(d, user, IF l = "alerts" THEN 1 ELSE 0) IN
    /\ At(l, "round")
    /\ user # None /\ d \notin log /\ StillDue(t)
    /\ log' = log \cup {d}
    /\ \/ loop' = [loop EXCEPT ![l] = [t EXCEPT !.part = 1]]
       \/ Rest(l)
    /\ UNCHANGED <<now, events, crashes, site, waiting, air, shown>>

ClaimAlert ==
    \/ \E p \in Players : on[p] # 0 /\ Claim("alerts", Confirmation(p))
    \/ \E b \in Battles : saved[b] # 0 /\ Claim("alerts", Alert(b))

ClaimSummary == "summaries" \in Loops /\ summaryOn # {} /\ Claim("summaries", Summary)

\* Mutant: what is still due is asked for only when the DM is logged.
RetryUnchecked ==
    /\ waiting # {} /\ At("alerts", "round")
    /\ \E w \in waiting :
          /\ waiting' = waiting \ {w}
          /\ IF Left(w) <= 0
             THEN Rest("alerts")
             ELSE w.retry <= now /\ loop' = [loop EXCEPT !["alerts"] = w]
    /\ UNCHANGED <<now, events, crashes, site, log, air, shown>>

\* A waiting DM past its last moment, or no longer due, is given up; one whose
\* time has come is tried again.
RetryAlert ==
    /\ waiting # {} /\ At("alerts", "round")
    /\ \E w \in waiting :
          /\ waiting' = waiting \ {w}
          /\ IF Left(w) <= 0 \/ (w.retry <= now /\ ~StillDue(w))
             THEN Rest("alerts")
             ELSE /\ w.retry <= now
                  /\ loop' = [loop EXCEPT !["alerts"] = [w EXCEPT !.late = 0]]
    /\ UNCHANGED <<now, events, crashes, site, log, air, shown>>

\* A summary's DM waits in place, and is checked after its wait.
RetrySummary ==
    /\ "summaries" \in Loops /\ At("summaries", "waiting")
    /\ LET t == loop["summaries"] IN
       /\ t.retry <= now
       /\ IF StillDue(t)
          THEN loop' = [loop EXCEPT !["summaries"].at = "checked", !["summaries"].late = 0]
          ELSE Rest("summaries")
    /\ UNCHANGED <<now, events, crashes, site, log, waiting, air, shown>>

\* The next part of a summary, checked for the players it names.
NextPart ==
    /\ "summaries" \in Loops /\ At("summaries", "delivered")
    /\ LET t == Sendable(Summary, loop["summaries"].user, loop["summaries"].part + 1) IN
       IF t.part > Len(Parts) THEN Rest("summaries")
       ELSE IF StillDue(t)
       THEN loop' = [loop EXCEPT !["summaries"] = t]
       ELSE Rest("summaries")
    /\ UNCHANGED <<now, events, crashes, site, log, waiting, air, shown>>

(***************************************************************************)
(* One try, cut off at the DM's last moment.                               *)
(***************************************************************************)
\* Mutant: every try has the whole two minutes again.
SendAgain(l) ==
    /\ At(l, "checked")
    /\ LET t == loop[l] IN
       loop' = [loop EXCEPT ![l] = [t EXCEPT !.at = "sending", !.first = now, !.try = "going"]]
    /\ UNCHANGED <<now, events, crashes, site, log, waiting, air, shown>>

Send(l) ==
    /\ At(l, "checked")
    /\ LET t == IF loop[l].first = None THEN [loop[l] EXCEPT !.first = now] ELSE loop[l] IN
       IF Left(t) <= 0 THEN Rest(l)
       ELSE loop' = [loop EXCEPT ![l] = [t EXCEPT !.at = "sending", !.try = "going",
                                                  !.late = IF Wanted(t) THEN @ ELSE @ + 1]]
    /\ UNCHANGED <<now, events, crashes, site, log, waiting, air, shown>>

\* Discord takes a DM, and shows it unless it remembers the nonce.
Show(n) ==
    IF n \in DOMAIN shown
    THEN shown' = IF now - shown[n].last <= Memory THEN shown
                  ELSE [shown EXCEPT ![n] = [last |-> now, times |-> @.times + 1]]
    ELSE shown' = (n :> [last |-> now, times |-> 1] @@ shown)

Take(l) ==
    /\ Flying(l)
    /\ Show(Nonce(loop[l]))
    /\ loop' = [loop EXCEPT ![l].try = "taken"]
    /\ UNCHANGED <<now, events, crashes, site, log, waiting, air>>

TakeLate ==
    /\ \E f \in air : Show(f.nonce) /\ air' = air \ {f}
    /\ UNCHANGED <<now, events, crashes, site, bot>>

\* A try the loop stops waiting for may land until its cut-off and a little later.
LeftInAir(t) ==
    IF t.try = "going" THEN air \cup {[nonce |-> Nonce(t), until |-> now + Left(t) + Flight]} ELSE air

Delivered(l) ==
    /\ At(l, "sending") /\ loop[l].try = "taken"
    /\ IF l = "alerts" THEN Rest(l)
       ELSE loop' = [loop EXCEPT ![l].at = "delivered"]
    /\ UNCHANGED <<now, events, crashes, site, log, waiting, air, shown>>

Refused(l) ==
    /\ Flying(l)
    /\ Rest(l)
    /\ UNCHANGED <<now, events, crashes, site, log, waiting, air, shown>>

\* A 5xx or 429 answer, a network error, an answer cut off: tried again after
\* a wait that doubles, and as long as Discord asks, while there is time.
Unreachable(l) ==
    /\ At(l, "sending")
    /\ LET t == loop[l]
           wait == Max({2 * t.wait, Wait})
       IN  \E asked \in {0, Wait + 1} :
              LET pause == Max({wait, asked})
                  again == [t EXCEPT !.wait = wait, !.try = "none"] @@ [retry |-> now + pause]
              IN  IF pause >= Left(t) THEN Rest(l) /\ waiting' = waiting
                  ELSE IF l = "alerts"
                       THEN waiting' = waiting \cup {[again EXCEPT !.at = "checked"]} /\ Rest(l)
                       ELSE waiting' = waiting /\ loop' = [loop EXCEPT ![l] = [again EXCEPT !.at = "waiting"]]
    /\ air' = LeftInAir(loop[l])
    /\ UNCHANGED <<now, events, crashes, site, log, shown>>

CutOff(l) ==
    /\ At(l, "sending") /\ Left(loop[l]) <= 0
    /\ Rest(l)
    /\ air' = LeftInAir(loop[l])
    /\ UNCHANGED <<now, events, crashes, site, log, waiting, shown>>

\* The bot forgets its loops; the log stays.
Crash ==
    /\ crashes < MaxCrashes
    /\ crashes' = crashes + 1
    /\ loop' = [l \in Loops |-> Resting] /\ waiting' = {}
    /\ air' = air \cup UNION {IF At(l, "sending") THEN LeftInAir(loop[l]) ELSE {} : l \in Loops}
    /\ UNCHANGED <<now, events, site, log, shown>>

Init ==
    /\ now = 1 /\ events = 0 /\ crashes = 0
    /\ may = [p \in Players |-> TRUE] /\ user \in Users
    /\ on = [p \in Players |-> IF "alerts" \in Loops THEN 1 ELSE 0] /\ confirm = on
    /\ summaryOn = Players
    /\ saved = [b \in Battles |-> 0]
    /\ log = {} /\ waiting = {} /\ loop = [l \in Loops |-> Resting]
    /\ air = {} /\ shown = <<>>

Website ==
    \/ \E p \in Players : SwitchOn(p) \/ SwitchOff(p) \/ SwitchSummary(p) \/ LoseLink(p) \/ Link(p)
    \/ Disconnect
    \/ \E u \in Users : Connect(u)

Next ==
    \/ Website
    \/ \E b \in Battles : SaveBattle(b)
    \/ ClaimAlert \/ ClaimSummary \/ RetryAlert \/ RetrySummary \/ NextPart
    \/ \E l \in Loops : Send(l) \/ Take(l) \/ Delivered(l) \/ Refused(l) \/ Unreachable(l) \/ CutOff(l)
    \/ TakeLate \/ Crash \/ Tick

Spec == Init /\ [][Next]_vars

(***************************************************************************)
(* Properties.                                                             *)
(***************************************************************************)
\* No Clasher sees a DM twice, whatever is lost, cut off or tried again, and
\* a summary's parts show in order.
OnceEach ==
    /\ \A n \in DOMAIN shown : shown[n].times = 1
    /\ \A n \in DOMAIN shown : n[2] > 1 => <<n[1], n[2] - 1>> \in DOMAIN shown

\* After a switch goes off, the link or the Discord user goes, at most the
\* try checked before goes out: no DM of it starts again.
QuietWhenOff ==
    \A t \in waiting \cup {loop[l] : l \in Loops} : t.at # "round" => t.late <= 1
=============================================================================
