------------------------------- MODULE Crews -------------------------------
(***************************************************************************)
(* Crews and the links of verified players (api_crews.py, unlink_player,   *)
(* migrations 0094 and 0095).  Every write is a READ COMMITTED transaction *)
(* that takes its locks one by one, reads what is committed, and shows its *)
(* changes to the others only when it commits.  A write that waits too     *)
(* long, or is chosen to break a deadlock, leaves nothing behind.          *)
(***************************************************************************)
EXTENDS Integers, FiniteSetsExt

CONSTANTS
    Accounts, Players,  \* players are numbered: tags and places go in order
    Crews,              \* crew ids, in the order PostgreSQL gives them
    Sizes,              \* the sizes a crew may be given
    CrewLimit,          \* MAX_CREWS_PER_ACCOUNT
    Writes,             \* connections that run writes
    MaxWrites,          \* bound on writes
    Linked,             \* the account each player starts linked to, or None
    Founded,            \* the crews earlier writes may have left
    None

ASSUME CrewConstants ==
    /\ Players \subseteq Nat /\ IsFiniteSet(Players)
    /\ Crews \subseteq Nat \ {0} /\ IsFiniteSet(Crews)
    /\ Sizes \subseteq Nat \ {0} /\ IsFiniteSet(Accounts)
    /\ CrewLimit \in Nat /\ MaxWrites \in Nat
    /\ None \notin Accounts /\ None \notin Writes
    /\ Linked \in [Players -> Accounts \cup {None}]

\* A crew of size n with roles r and places q, when the links are k: exactly
\* one owner, nobody without a place but the owner, never more places than its
\* size, and each place belongs to a member and to the account the player is
\* verified to.
CrewSound(n, r, q, k) ==
    /\ Cardinality({a \in Accounts : r[a] = "owner"}) = 1
    /\ \A a \in Accounts : r[a] \in {"admin", "member"} => \E p \in Players : q[p] = a
    /\ Cardinality({p \in Players : q[p] # None}) <= n
    /\ \A p \in Players : q[p] # None => r[q[p]] # "none" /\ q[p] = k[p]

\* A crew nobody created has no rows.
NoCrew(r, q, i) ==
    (\A a \in Accounts : r[a] = "none") /\ (\A p \in Players : q[p] = None) /\ i = {}

Roles == {"none", "member", "admin", "owner"}

ASSUME FoundedCrews == \A f \in Founded :
    /\ f.size \in [Crews -> Sizes \cup {0}] /\ f.role \in [Crews -> [Accounts -> Roles]]
    /\ f.place \in [Crews -> [Players -> Accounts \cup {None}]]
    /\ f.invites \in [Crews -> SUBSET Accounts]
    /\ \A c \in Crews : IF f.size[c] = 0 THEN NoCrew(f.role[c], f.place[c], f.invites[c])
                         ELSE CrewSound(f.size[c], f.role[c], f.place[c], Linked)
    /\ \A a \in Accounts : Cardinality({c \in Crews : f.role[c][a] # "none"}) <= CrewLimit

VARIABLES
    size,       \* of each crew: 0 before it is created, Deleted after it
    role,       \* of each account in each crew
    place,      \* the account that holds each player's place in each crew
    invites,    \* the members whose invite link to the crew is on
    link,       \* the account each player is verified to
    tx,         \* the write each connection runs
    locks,      \* the row locks it holds
    started

crewRows == <<size, role, place, invites>>
vars == <<crewRows, link, tx, locks, started>>

Deleted == -1
Idle == [op |-> "none", by |-> None, crew |-> 0, tags |-> {}, to |-> None, n |-> 0,
         at |-> "idle", left |-> {}, changes |-> {}]

Exists(c) == size[c] > 0
Places(c, a) == {p \in Players : place[c][p] = a}
Used(c) == {p \in Players : place[c][p] # None}
CrewsOf(a) == {c \in Crews : role[c][a] # "none"}
InCrews(p) == {c \in Crews : place[c][p] # None}

(***************************************************************************)
(* Locks.  "share" is the lock a new place's reference takes on its link.  *)
(***************************************************************************)
Conflicting(l) ==
    CASE l[1] = "link" -> {l, <<"share", l[2]>>}
      [] l[1] = "share" -> {<<"link", l[2]>>}
      [] OTHER -> {l}

CanLock(w, rows) ==
    \A v \in Writes \ {w} : locks[v] \cap UNION {Conflicting(l) : l \in rows} = {}

Take(w, rows) == CanLock(w, rows) /\ locks' = [locks EXCEPT ![w] = @ \cup rows]

End(w) == tx' = [tx EXCEPT ![w] = Idle] /\ locks' = [locks EXCEPT ![w] = {}]

Goto(w, at) == tx' = [tx EXCEPT ![w].at = at]

Running(w, op) == tx[w].op = op /\ tx[w].at = "crew"

\* Mutant: the handlers read the caller's role without locking the crew.
DecideUnlocked(w, allowed, changes) ==
    /\ IF allowed
       THEN tx' = [tx EXCEPT ![w].at = "commit", ![w].changes = changes] /\ locks' = locks
       ELSE End(w)
    /\ UNCHANGED <<crewRows, link, started>>

\* A handler that may go on has made its changes; a refusal undoes them all.
Decide(w, allowed, changes) ==
    /\ IF allowed
       THEN /\ tx' = [tx EXCEPT ![w].at = "commit", ![w].changes = changes]
            /\ Take(w, {<<"crew", tx[w].crew>>})
       ELSE CanLock(w, {<<"crew", tx[w].crew>>}) /\ End(w)
    /\ UNCHANGED <<crewRows, link, started>>

\* The crews whose member, not the owner, loses the last place with the player.
Emptied(crews, p) ==
    {c \in crews : role[c][place[c][p]] # "owner" /\ Places(c, place[c][p]) = {p}}

\* The player's places in some crews go, and the members left with none.
Leaves(crews, p) ==
    {<<"place", c, p, None>> : c \in crews}
    \cup {<<"role", c, place[c][p], "none">> : c \in Emptied(crews, p)}

(***************************************************************************)
(* The handlers of a crew's members.  Each locks the crew row first and    *)
(* reads the caller's role afterwards; a deleted crew has no members.      *)
(***************************************************************************)
MyRole(w) == role[tx[w].crew][tx[w].by]

UpdateCrew(w) ==
    /\ Running(w, "update_crew")
    /\ Decide(w, MyRole(w) \in {"owner", "admin"} /\ tx[w].n >= Cardinality(Used(tx[w].crew)),
              {<<"size", tx[w].crew, tx[w].n>>})

DeleteCrew(w) ==
    /\ Running(w, "delete_crew")
    /\ Decide(w, MyRole(w) = "owner", {<<"delete", tx[w].crew>>})

MayRemove(c, by, p) ==
    LET holder == place[c][p]
    IN  IF holder = by
        THEN role[c][by] = "owner" => Places(c, by) # {p}
        ELSE role[c][by] = "owner" \/ (role[c][by] = "admin" /\ role[c][holder] = "member")

RemovePlayer(w) ==
    /\ Running(w, "remove_player")
    /\ \E p \in tx[w].tags : LET c == tx[w].crew IN
          Decide(w, MyRole(w) # "none" /\ place[c][p] # None /\ MayRemove(c, tx[w].by, p),
                 Leaves({c}, p))

SetMemberRole(w) ==
    /\ Running(w, "set_member_role")
    /\ LET t == tx[w] IN
       Decide(w, MyRole(w) = "owner" /\ role[t.crew][t.to] \in {"admin", "member"},
              {<<"role", t.crew, t.to, IF t.n = 1 THEN "admin" ELSE "member">>})

HandOver(w) ==
    /\ Running(w, "hand_over")
    /\ LET t == tx[w] IN
       Decide(w, MyRole(w) = "owner" /\ role[t.crew][t.to] \in {"admin", "member"},
              {<<"role", t.crew, t.to, "owner">>,
               <<"role", t.crew, t.by, IF Places(t.crew, t.by) = {} THEN "none" ELSE "admin">>})

LeaveCrew(w) ==
    /\ Running(w, "leave_crew")
    /\ LET t == tx[w] IN
       Decide(w, MyRole(w) \in {"admin", "member"},
              {<<"role", t.crew, t.by, "none">>}
              \cup {<<"place", t.crew, p, None>> : p \in Places(t.crew, t.by)})

MakeInvite(w) ==
    /\ Running(w, "make_invite")
    /\ LET t == tx[w] IN
       Decide(w, MyRole(w) # "none" /\ size[t.crew] > Cardinality(Used(t.crew)),
              {<<"invite", t.crew, t.by>>})

RevokeInvite(w) ==
    /\ Running(w, "revoke_invite")
    /\ LET t == tx[w] IN
       Decide(w, /\ MyRole(w) # "none" /\ t.to \in invites[t.crew]
                 /\ t.to # t.by => MyRole(w) \in {"owner", "admin"},
              {<<"revoke", t.crew, t.to>>})

(***************************************************************************)
(* Joining: the crew, the account when it joins, the tags, the checks, and *)
(* one place after the other, whose reference waits for its link.          *)
(***************************************************************************)
Entering(w) == {"create_crew", "accept_invite"} \cap {tx[w].op} # {} /\ MyRole(w) = "none"

JoinCrew(w) ==
    /\ tx[w].op \in {"add_players", "accept_invite"} /\ tx[w].at = "crew"
    /\ LET t == tx[w] IN
       IF IF t.op = "add_players" THEN MyRole(w) # "none" ELSE t.to \in invites[t.crew]
       THEN Take(w, {<<"crew", t.crew>>}) /\ Goto(w, IF Entering(w) THEN "account" ELSE "tags")
       ELSE CanLock(w, {<<"crew", t.crew>>}) /\ End(w)
    /\ UNCHANGED <<crewRows, link, started>>

LockAccount(w) ==
    /\ tx[w].at = "account"
    /\ Take(w, {<<"account", tx[w].by>>})
    /\ Goto(w, "tags")
    /\ UNCHANGED <<crewRows, link, started>>

\* Mutant: that a tag has no place yet is left to the insert.
UnplacedLinked(t) == \A p \in t.tags : link[p] = t.by

\* The tags are verified to the caller and have no place in the crew yet.
Unplaced(t) == \A p \in t.tags : link[p] = t.by /\ place[t.crew][p] = None

\* The tags are taken in order, so taking them together adds no wait.
CheckPlaces(w) ==
    /\ tx[w].at = "tags"
    /\ LET t == tx[w]
           open == IF t.op = "create_crew" THEN t.n ELSE size[t.crew] - Cardinality(Used(t.crew))
           rows == {<<"tag", p>> : p \in t.tags}
       IN  IF /\ Unplaced(t)
              /\ Cardinality(t.tags) <= open
              /\ Entering(w) => Cardinality(CrewsOf(t.by)) < CrewLimit
           THEN /\ Take(w, rows)
                /\ tx' = [tx EXCEPT ![w].at = "places", ![w].left = t.tags, ![w].changes =
                       {<<"place", t.crew, p, t.by>> : p \in t.tags}
                       \cup (IF t.op = "create_crew"
                             THEN {<<"size", t.crew, t.n>>, <<"role", t.crew, t.by, "owner">>}
                             ELSE IF Entering(w) THEN {<<"role", t.crew, t.by, "member">>} ELSE {})]
           ELSE CanLock(w, rows) /\ End(w)
    /\ UNCHANGED <<crewRows, link, started>>

\* The place needs its link; one that has gone or moved fails the write.
InsertPlace(w) ==
    /\ tx[w].at = "places"
    /\ IF tx[w].left = {} THEN Goto(w, "commit") /\ locks' = locks
       ELSE LET p == Min(tx[w].left) IN
            IF link[p] = tx[w].by
            THEN Take(w, {<<"share", p>>}) /\ tx' = [tx EXCEPT ![w].left = @ \ {p}]
            ELSE CanLock(w, {<<"share", p>>}) /\ End(w)
    /\ UNCHANGED <<crewRows, link, started>>

(***************************************************************************)
(* A link goes (unlink_player) or moves (the operator's support transfer): *)
(* the link row, then the crews the player is in, in order, then its       *)
(* places.  An unlinked player's owner keeps another place in the crew; a  *)
(* transfer then queues a check of the player under the player's tag.      *)
(***************************************************************************)
\* Mutant: the places of a player who goes are taken without locking crews.
LockLinkOnly(w) ==
    /\ tx[w].at = "link"
    /\ LET p == Min(tx[w].tags) IN
       IF link[p] = tx[w].by
       THEN Take(w, {<<"link", p>>}) /\ Goto(w, "crews")
       ELSE CanLock(w, {<<"link", p>>}) /\ End(w)
    /\ UNCHANGED <<crewRows, link, started>>

LockLink(w) ==
    /\ tx[w].at = "link"
    /\ LET p == Min(tx[w].tags) IN
       IF link[p] = tx[w].by
       THEN /\ Take(w, {<<"link", p>>})
            /\ tx' = [tx EXCEPT ![w].at = "crews", ![w].left = InCrews(p)]
       ELSE CanLock(w, {<<"link", p>>}) /\ End(w)
    /\ UNCHANGED <<crewRows, link, started>>

LockNextCrew(w) ==
    /\ tx[w].at = "crews" /\ tx[w].left # {}
    /\ LET c == Min(tx[w].left) IN
       /\ Take(w, {<<"crew", c>>})
       /\ tx' = [tx EXCEPT ![w].left = @ \ {c}]
    /\ UNCHANGED <<crewRows, link, started>>

OnlyPlaceOfOwner(p, a) ==
    \E c \in InCrews(p) : role[c][a] = "owner" /\ Places(c, a) = {p}

DropLink(w) ==
    /\ tx[w].at = "crews" /\ tx[w].left = {}
    /\ LET t == tx[w]  p == Min(t.tags) IN
       IF t.op = "unlink_player" /\ OnlyPlaceOfOwner(p, t.by) THEN End(w)
       ELSE /\ tx' = [tx EXCEPT ![w].at = IF t.op = "transfer" THEN "check" ELSE "commit",
                        ![w].changes = Leaves(InCrews(p), p) \cup {<<"link", p, t.to>>}]
            /\ locks' = locks
    /\ UNCHANGED <<crewRows, link, started>>

QueueCheck(w) ==
    /\ tx[w].at = "check"
    /\ Take(w, {<<"tag", p>> : p \in tx[w].tags})
    /\ Goto(w, "commit")
    /\ UNCHANGED <<crewRows, link, started>>

(***************************************************************************)
(* The end of a write.                                                     *)
(***************************************************************************)
Commit(w) ==
    /\ tx[w].at = "commit"
    /\ LET done == tx[w].changes
           gone == {c \in Crews : <<"delete", c>> \in done}
       IN  /\ size' = [c \in Crews |-> IF c \in gone THEN Deleted
                         ELSE IF \E n \in Sizes : <<"size", c, n>> \in done
                         THEN CHOOSE n \in Sizes : <<"size", c, n>> \in done ELSE size[c]]
           /\ role' = [c \in Crews |-> [a \in Accounts |->
                IF c \in gone THEN "none"
                ELSE LET to == {r \in Roles : <<"role", c, a, r>> \in done}
                     IN  IF to = {} THEN role[c][a] ELSE CHOOSE r \in to : TRUE]]
           /\ place' = [c \in Crews |-> [p \in Players |->
                IF c \in gone THEN None
                ELSE LET to == {a \in Accounts \cup {None} : <<"place", c, p, a>> \in done}
                     IN  IF to = {} THEN place[c][p] ELSE CHOOSE a \in to : TRUE]]
           /\ invites' = [c \in Crews |-> IF c \in gone THEN {}
                ELSE {a \in Accounts : \/ <<"invite", c, a>> \in done
                                       \/ a \in invites[c] /\ <<"revoke", c, a>> \notin done}]
           /\ link' = [p \in Players |->
                LET to == {a \in Accounts \cup {None} : <<"link", p, a>> \in done}
                IN  IF to = {} THEN link[p] ELSE CHOOSE a \in to : TRUE]
    /\ End(w)
    /\ UNCHANGED started

\* The lock timeout, a deadlock's victim or a lost connection.
GiveUp(w) ==
    /\ tx[w].at # "idle"
    /\ End(w)
    /\ UNCHANGED <<crewRows, link, started>>

(***************************************************************************)
(* The requests.  Nothing is read before the first lock, so a request that *)
(* its first check would refuse now may as well come later.                *)
(***************************************************************************)
Request(op, by, c, tags, to, n) ==
    [Idle EXCEPT !.op = op, !.by = by, !.crew = c, !.tags = tags, !.to = to, !.n = n,
                 !.at = CASE op = "create_crew" -> "account"
                          [] op \in {"unlink_player", "transfer"} -> "link"
                          [] OTHER -> "crew"]

Own(a) == {p \in Players : link[p] = a}

Unused == {c \in Crews : size[c] = 0} \ {tx[v].crew : v \in Writes}

OfMember(a, c) ==
    {Request("update_crew", a, c, {}, None, n) : n \in Sizes}
    \cup {Request(op, a, c, {}, None, 0) : op \in {"delete_crew", "leave_crew", "make_invite"}}
    \cup {Request("remove_player", a, c, {p}, None, 0) : p \in Used(c)}
    \cup {Request("set_member_role", a, c, {}, b, n) : b \in Accounts \ {a}, n \in {0, 1}}
    \cup {Request("hand_over", a, c, {}, b, 0) : b \in Accounts \ {a}}
    \cup {Request("revoke_invite", a, c, {}, b, 0) : b \in invites[c]}
    \cup {Request("add_players", a, c, tags, None, 0) : tags \in (SUBSET Own(a)) \ {{}}}

Creations(a) ==
    {Request("create_crew", a, Min(Unused), tags, None, n) :
        tags \in IF Unused = {} THEN {} ELSE (SUBSET Own(a)) \ {{}}, n \in Sizes}

Acceptances(a) ==
    UNION {{Request("accept_invite", a, c, tags, b, 0) :
              tags \in (SUBSET Own(a)) \ {{}}, b \in invites[c]} : c \in Crews}

Unlinks(a) == {Request("unlink_player", a, 0, {p}, None, 0) : p \in Own(a)}

Transfers(a) ==
    UNION {{Request("transfer", a, 0, {p}, b, 0) : b \in Accounts \ {a}} : p \in Own(a)}

OfAnyone(a) == Creations(a) \cup Acceptances(a) \cup Unlinks(a) \cup Transfers(a)

Begin(w) ==
    /\ tx[w].at = "idle" /\ started < MaxWrites
    /\ started' = started + 1
    /\ \E a \in Accounts : \E r \in OfAnyone(a) \cup UNION {OfMember(a, c) : c \in CrewsOf(a)} :
          tx' = [tx EXCEPT ![w] = r]
    /\ UNCHANGED <<crewRows, link, locks>>

\* A verification links a player nobody holds, in one transaction.
LinkPlayer(p, a) ==
    /\ link[p] = None /\ CanLock(None, {<<"tag", p>>}) /\ started < MaxWrites
    /\ link' = [link EXCEPT ![p] = a]
    /\ started' = started + 1
    /\ UNCHANGED <<crewRows, tx, locks>>

Init ==
    /\ \E f \in Founded : size = f.size /\ role = f.role /\ place = f.place /\ invites = f.invites
    /\ link = Linked
    /\ tx = [w \in Writes |-> Idle]
    /\ locks = [w \in Writes |-> {}]
    /\ started = 0

Handler(w) ==
    \/ UpdateCrew(w) \/ DeleteCrew(w) \/ RemovePlayer(w) \/ SetMemberRole(w) \/ HandOver(w)
    \/ LeaveCrew(w) \/ MakeInvite(w) \/ RevokeInvite(w)
    \/ JoinCrew(w) \/ LockAccount(w) \/ CheckPlaces(w) \/ InsertPlace(w)
    \/ LockLink(w) \/ LockNextCrew(w) \/ DropLink(w) \/ QueueCheck(w)

Next ==
    \/ \E w \in Writes : Begin(w) \/ Handler(w) \/ Commit(w) \/ GiveUp(w)
    \/ \E p \in Players, a \in Accounts : LinkPlayer(p, a)

Spec == Init /\ [][Next]_vars

(***************************************************************************)
(* Properties.                                                             *)
(***************************************************************************)
\* Whatever writes run at once, every crew that exists is sound: it has one
\* owner, no member without a place, no more places than its size, and its
\* places belong to its members and to the accounts verified for the players;
\* nobody is in more crews than the limit (api_crews.py, migration 0095).
CrewsHold ==
    /\ \A c \in Crews : Exists(c) => CrewSound(size[c], role[c], place[c], link)
    /\ \A a \in Accounts : Cardinality(CrewsOf(a)) <= CrewLimit

\* Who may make the changes of a write, by the roles of this moment.
Authority(t) ==
    CASE t.op = "update_crew" -> role[t.crew][t.by] \in {"owner", "admin"}
      [] t.op \in {"delete_crew", "set_member_role", "hand_over"} -> role[t.crew][t.by] = "owner"
      [] t.op = "remove_player" -> \A p \in t.tags : MayRemove(t.crew, t.by, p)
      [] t.op = "accept_invite" -> t.to \in invites[t.crew]
      [] t.op \in {"add_players", "make_invite"} -> role[t.crew][t.by] # "none"
      [] t.op = "unlink_player" -> \A p \in t.tags : link[p] = t.by /\ ~OnlyPlaceOfOwner(p, t.by)
      [] OTHER -> TRUE

\* A write is made on the strength of roles and links that still hold when
\* it commits: a member removed or demoted, or an invite link turned off,
\* while the write waited, does not let it through.
Allowed == \A w \in Writes : Commit(w) => Authority(tx[w])
StillAllowed == [][Allowed]_vars

\* The lock each write asks for next.
Wants(w) ==
    LET t == tx[w] IN
    CASE t.at = "crew" -> {<<"crew", t.crew>>}
      [] t.at = "account" -> {<<"account", t.by>>}
      [] t.at \in {"tags", "check"} -> {<<"tag", p>> : p \in t.tags}
      [] t.at = "places" /\ t.left # {} -> {<<"share", Min(t.left)>>}
      [] t.at = "link" -> {<<"link", p>> : p \in t.tags}
      [] t.at = "crews" /\ t.left # {} -> {<<"crew", Min(t.left)>>}
      [] OTHER -> {}

WaitsFor(w, v) == w # v /\ (UNION {Conflicting(l) : l \in Wants(w)}) \cap locks[v] # {}

\* The player that goes has left the crew the write waits for since it chose it.
LeftSince(w) ==
    tx[w].at = "crews" /\ \A p \in tx[w].tags : Min(tx[w].left) \notin InCrews(p)

\* A join waits for the link of the player that goes with write w.
JoinsPlayerOf(v, w) == tx[v].at = "places" /\ Min(tx[v].left) \in tx[w].tags

\* Two writes wait for each other only when one is a join that waits for the
\* link of a player whom the other unlinks or transfers, and that one waits for
\* a crew the player has left since it chose its crews, or is a transfer that
\* queues its check and waits for the player's tag (api_crews.py's lock order,
\* which promises it never happens; migration 0095 admits it of a transfer).
Crossed(v, w) == JoinsPlayerOf(v, w) /\ (LeftSince(w) \/ tx[w].at = "check")

NoMutualWait ==
    \A v, w \in Writes :
        WaitsFor(v, w) /\ WaitsFor(w, v) => Crossed(v, w) \/ Crossed(w, v)
=============================================================================
