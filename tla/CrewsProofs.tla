---------------------------- MODULE CrewsProofs ----------------------------
(***************************************************************************)
(* Proofs about Crews for every set of accounts, players, crews and        *)
(* connections, all sizes and limits and whatever crews there were before. *)
(*                                                                         *)
(* CrewInv says what a write relies on from the step that decided until it *)
(* commits (Ready): its changes are those its operation may make of the    *)
(* rows as they still are.  They still are because the write owns the      *)
(* crews it changes: it holds their rows, or nobody else knows of the crew *)
(* it creates (Owns, OneWriter); and a link it rests on is locked, shared  *)
(* by a join or in full by an unlink (Exclusive).  So the commit of one    *)
(* write leaves what the others rely on (Calm, CommitCalm), and makes of   *)
(* sound crews sound crews (CommitEffect: MemberCommit, JoinCommit,        *)
(* LinkCommit).  The limit of crews per account needs the account's lock,  *)
(* because a join counts crews it does not hold.                           *)
(***************************************************************************)
EXTENDS Crews, FiniteSetTheorems, WellFoundedInduction, TLAPS

-----------------------------------------------------------------------------
(* The invariant                                                           *)

MemberOps == {"update_crew", "delete_crew", "remove_player", "set_member_role", "hand_over",
              "leave_crew", "make_invite", "revoke_invite"}
JoinOps == {"create_crew", "add_players", "accept_invite"}
LinkOps == {"unlink_player", "transfer"}

RowTypes ==
    /\ size \in [Crews -> Sizes \cup {0, Deleted}]
    /\ role \in [Crews -> [Accounts -> Roles]]
    /\ place \in [Crews -> [Players -> Accounts \cup {None}]]
    /\ invites \in [Crews -> SUBSET Accounts]
    /\ link \in [Players -> Accounts \cup {None}]

IsTx(t) ==
    t = [op |-> t.op, by |-> t.by, crew |-> t.crew, tags |-> t.tags, to |-> t.to, n |-> t.n,
         at |-> t.at, left |-> t.left, changes |-> t.changes]

\* The steps of an operation, and what it was asked for.
Asked(t) ==
    \/ t = Idle
    \/ /\ t.by \in Accounts /\ t.tags \subseteq Players
       /\ \/ /\ t.op \in MemberOps /\ t.at \in {"crew", "commit"} /\ t.crew \in Crews
             /\ t.op = "update_crew" => t.n \in Sizes
             /\ t.op = "remove_player" => \E p \in Players : t.tags = {p}
             /\ t.op \in {"set_member_role", "hand_over"} => t.to \in Accounts
          \/ /\ t.op \in JoinOps /\ t.at \in {"crew", "account", "tags", "places", "commit"}
             /\ t.op = "create_crew" => t.at # "crew" /\ t.n \in Sizes
             /\ t.op = "add_players" => t.at # "account"
             /\ t.crew \in Crews /\ t.tags # {}
          \/ /\ t.op \in LinkOps /\ t.at \in {"link", "crews", "check", "commit"}
             /\ \E p \in Players : t.tags = {p}
             /\ t.to \in Accounts \cup {None}

TxTypes ==
    /\ DOMAIN tx = Writes /\ DOMAIN locks = Writes
    /\ tx = [w \in Writes |-> tx[w]] /\ locks = [w \in Writes |-> locks[w]]
    /\ \A w \in Writes : IsTx(tx[w]) /\ Asked(tx[w])

\* A crew that does not exist has no rows.
NoRows == \A c \in Crews : ~Exists(c) => NoCrew(role[c], place[c], invites[c])

\* Nobody else knows of a crew that is being created.
Fresh ==
    \A w \in Writes : tx[w].op = "create_crew" =>
        /\ size[tx[w].crew] = 0
        /\ \A v \in Writes \ {w} : tx[v].crew # tx[w].crew

\* No two writes hold locks that conflict.
Exclusive ==
    \A v, w \in Writes : v # w =>
        /\ \A c \in Crews : <<"crew", c>> \in locks[v] => <<"crew", c>> \notin locks[w]
        /\ \A a \in Accounts : <<"account", a>> \in locks[v] => <<"account", a>> \notin locks[w]
        /\ \A p \in Players : <<"link", p>> \in locks[v] =>
              <<"link", p>> \notin locks[w] /\ <<"share", p>> \notin locks[w]

\* The crews whose rows a write may change.
Owns(w, c) ==
    IF tx[w].op \in LinkOps THEN Exists(c) /\ <<"crew", c>> \in locks[w]
    ELSE c = tx[w].crew /\ (tx[w].op = "create_crew" \/ <<"crew", c>> \in locks[w])

\* What a member's write may make, by the roles and the places of its crew.
MayChange(t, d) ==
    LET c == t.crew  mine == role[c][t.by] IN
    \/ /\ t.op = "update_crew" /\ mine \in {"owner", "admin"} /\ t.n \in Sizes
       /\ t.n >= Cardinality(Used(c)) /\ d = {<<"size", c, t.n>>}
    \/ /\ t.op = "delete_crew" /\ mine = "owner" /\ d = {<<"delete", c>>}
    \/ /\ t.op = "remove_player"
       /\ \E p \in Players : /\ t.tags = {p} /\ place[c][p] # None /\ MayRemove(c, t.by, p)
                             /\ d = Leaves({c}, p)
    \/ /\ t.op = "set_member_role" /\ mine = "owner" /\ t.to \in Accounts
       /\ role[c][t.to] \in {"admin", "member"}
       /\ \E r \in {"admin", "member"} : d = {<<"role", c, t.to, r>>}
    \/ /\ t.op = "hand_over" /\ mine = "owner" /\ t.to \in Accounts
       /\ role[c][t.to] \in {"admin", "member"}
       /\ d = {<<"role", c, t.to, "owner">>,
               <<"role", c, t.by, IF Places(c, t.by) = {} THEN "none" ELSE "admin">>}
    \/ /\ t.op = "leave_crew" /\ mine \in {"admin", "member"}
       /\ d = {<<"role", c, t.by, "none">>} \cup {<<"place", c, p, None>> : p \in Places(c, t.by)}
    \/ /\ t.op = "make_invite" /\ mine # "none" /\ d = {<<"invite", c, t.by>>}
    \/ t.op = "revoke_invite" /\ d = {<<"revoke", c, t.to>>}

MemberReady(w) ==
    <<"crew", tx[w].crew>> \in locks[w] /\ MayChange(tx[w], tx[w].changes)

JoinHeld(w) ==
    LET t == tx[w] IN
    /\ t.op # "create_crew" => <<"crew", t.crew>> \in locks[w]
    /\ t.op = "add_players" => MyRole(w) # "none"
    /\ t.op = "accept_invite" => t.to \in invites[t.crew]

JoinReady(w) ==
    LET t == tx[w] IN
    /\ JoinHeld(w)
    /\ Entering(w) => <<"account", t.by>> \in locks[w]

Joined(w) ==
    LET t == tx[w] IN
    {<<"place", t.crew, p, t.by>> : p \in t.tags}
    \cup (IF t.op = "create_crew"
          THEN {<<"size", t.crew, t.n>>, <<"role", t.crew, t.by, "owner">>}
          ELSE IF Entering(w) THEN {<<"role", t.crew, t.by, "member">>} ELSE {})

PlacesReady(w) ==
    LET t == tx[w] IN
    /\ JoinReady(w)
    /\ \A p \in t.tags : place[t.crew][p] = None
    /\ IF t.op = "create_crew" THEN Cardinality(t.tags) <= t.n
       ELSE Cardinality(t.tags) + Cardinality(Used(t.crew)) <= size[t.crew]
    /\ Entering(w) => Cardinality(CrewsOf(t.by)) < CrewLimit
    /\ t.changes = Joined(w)
    /\ \A p \in t.tags \ t.left : <<"share", p>> \in locks[w] /\ link[p] = t.by

LinkHeld(w) ==
    LET t == tx[w] IN
    \A p \in t.tags :
       /\ <<"link", p>> \in locks[w] /\ link[p] = t.by
       /\ \A c \in InCrews(p) : c \in t.left \/ <<"crew", c>> \in locks[w]

LinkReady(w) ==
    LET t == tx[w] IN
    /\ LinkHeld(w) /\ t.left = {}
    /\ \A p \in t.tags :
       /\ t.op = "unlink_player" => ~OnlyPlaceOfOwner(p, t.by)
       /\ t.changes = Leaves(InCrews(p), p) \cup {<<"link", p, t.to>>}

Ready(w) ==
    LET t == tx[w] IN
    /\ t.op \in MemberOps /\ t.at = "commit" => MemberReady(w)
    /\ t.op = "accept_invite" /\ t.at = "account" => JoinHeld(w) /\ MyRole(w) = "none"
    /\ t.at = "tags" => JoinReady(w)
    /\ t.op \in JoinOps /\ t.at \in {"places", "commit"} => PlacesReady(w)
    /\ t.op \in JoinOps /\ t.at = "commit" => t.left = {}
    /\ t.at = "crews" => LinkHeld(w)
    /\ t.op \in LinkOps /\ t.at \in {"check", "commit"} => LinkReady(w)

\* What a write that may still wait can hold.
Holdable(t, l) ==
    \/ t.at \in {"account", "tags", "places"} /\ l = <<"crew", t.crew>>
    \/ t.at \in {"tags", "places"} /\ l = <<"account", t.by>>
    \/ t.at = "places" /\ l[1] \in {"tag", "share"}
    \/ t.at \in {"crews", "check"} /\ \E p \in t.tags : l = <<"link", p>>
    \/ t.at \in {"crews", "check"} /\ \E c \in Crews : l = <<"crew", c>> /\ \A d \in t.left : c < d

HoldsFew(w) ==
    /\ tx[w].at # "commit" => \A l \in locks[w] : Holdable(tx[w], l)
    /\ tx[w].at = "places" => tx[w].left \subseteq tx[w].tags
    /\ tx[w].at = "crews" => tx[w].left \subseteq Crews

Holding == \A w \in Writes : HoldsFew(w)

CrewInv ==
    /\ RowTypes /\ TxTypes /\ NoRows /\ CrewsHold /\ Fresh /\ Exclusive
    /\ \A w \in Writes : Ready(w)
-----------------------------------------------------------------------------
(* A crew by itself                                                        *)

Taken(q) == {p \in Players : q[p] # None}

OneOwner(r) == \E o \in Accounts : \A a \in Accounts : r[a] = "owner" <=> a = o

RolesOf == [Accounts -> Roles]
PlacesOf == [Players -> Accounts \cup {None}]

LEMMA SoundIs ==
    ASSUME NEW n, NEW r, NEW q, NEW k
    PROVE  CrewSound(n, r, q, k) <=>
             /\ OneOwner(r)
             /\ \A a \in Accounts : r[a] \in {"admin", "member"} => \E p \in Players : q[p] = a
             /\ Cardinality(Taken(q)) <= n
             /\ \A p \in Players : q[p] # None => r[q[p]] # "none" /\ q[p] = k[p]
<1> DEFINE owners == {a \in Accounts : r[a] = "owner"}
<1>1. IsFiniteSet(owners)
  BY CrewConstants, FS_Subset
<1>2. Cardinality(owners) = 1 <=> OneOwner(r)
  <2>1. Cardinality(owners) = 1 <=> \E x : owners = {x}
    BY <1>1, FS_Singleton
  <2>2. (\E x : owners = {x}) <=> OneOwner(r)
    BY DEF OneOwner
  <2> QED BY <2>1, <2>2
<1> QED BY <1>2 DEF CrewSound, Taken

LEMMA TakenIsFinite ==
    ASSUME NEW q
    PROVE  IsFiniteSet(Taken(q)) /\ Cardinality(Taken(q)) \in Nat
  BY CrewConstants, FS_Subset, FS_CardinalityType DEF Taken

LEMMA FewerTaken ==
    ASSUME NEW q, NEW v, Taken(v) \subseteq Taken(q)
    PROVE  Cardinality(Taken(v)) <= Cardinality(Taken(q))
  BY TakenIsFinite, FS_Subset

\* A role change between the members who are not the owner.
LEMMA RoleGiven ==
    ASSUME NEW n, NEW r \in RolesOf, NEW q, NEW k, CrewSound(n, r, q, k),
           NEW to \in Accounts, r[to] \in {"admin", "member"}, NEW x \in {"admin", "member"},
           NEW s, \A a \in Accounts : s[a] = IF a = to THEN x ELSE r[a],
           q \in PlacesOf
    PROVE  CrewSound(n, s, q, k)
<1>1. OneOwner(s)
  BY SoundIs DEF OneOwner
<1> QED BY <1>1, SoundIs, CrewConstants DEF PlacesOf

\* The owner makes another member the owner.
LEMMA HandedOver ==
    ASSUME NEW n, NEW r \in RolesOf, NEW q \in PlacesOf, NEW k, CrewSound(n, r, q, k),
           NEW to \in Accounts, r[to] \in {"admin", "member"},
           NEW by \in Accounts, r[by] = "owner", NEW x,
           x = IF {p \in Players : q[p] = by} = {} THEN "none" ELSE "admin",
           NEW s, \A a \in Accounts : s[a] = IF a = to THEN "owner" ELSE IF a = by THEN x ELSE r[a]
    PROVE  CrewSound(n, s, q, k)
<1>0. x \in {"none", "admin"} /\ to # by
  OBVIOUS
<1>1. OneOwner(s)
  <2>1. \A a \in Accounts : r[a] = "owner" <=> a = by
    BY SoundIs DEF OneOwner
  <2> QED BY <1>0, <2>1 DEF OneOwner
<1>2. \A a \in Accounts : s[a] \in {"admin", "member"} => \E p \in Players : q[p] = a
  BY <1>0, SoundIs
<1>3. \A p \in Players : q[p] # None => s[q[p]] # "none" /\ q[p] = k[p]
  BY <1>0, SoundIs DEF PlacesOf
<1> QED BY <1>1, <1>2, <1>3, SoundIs

\* A member leaves with all places.
LEMMA MemberLeft ==
    ASSUME NEW n \in Int, NEW r \in RolesOf, NEW q \in PlacesOf, NEW k, CrewSound(n, r, q, k),
           NEW by \in Accounts, r[by] \in {"admin", "member"},
           NEW s, \A a \in Accounts : s[a] = IF a = by THEN "none" ELSE r[a],
           NEW v, \A p \in Players : v[p] = IF q[p] = by THEN None ELSE q[p]
    PROVE  CrewSound(n, s, v, k)
<1>1. OneOwner(s)
  BY SoundIs DEF OneOwner
<1>2. Cardinality(Taken(v)) <= n
  <2>1. Taken(v) \subseteq Taken(q)
    BY DEF Taken
  <2> QED BY <2>1, FewerTaken, TakenIsFinite, SoundIs
<1>3. \A a \in Accounts : s[a] \in {"admin", "member"} => \E p \in Players : v[p] = a
  BY SoundIs, CrewConstants
<1>4. \A p \in Players : v[p] # None => s[v[p]] # "none" /\ v[p] = k[p]
  BY SoundIs, CrewConstants DEF PlacesOf
<1> QED BY <1>1, <1>2, <1>3, <1>4, SoundIs

\* A place goes, and with the last one its member.
LEMMA PlaceGone ==
    ASSUME NEW n \in Int, NEW r \in RolesOf, NEW q \in PlacesOf, NEW k, CrewSound(n, r, q, k),
           NEW p \in Players, q[p] # None,
           NEW j, \A x \in Players : x # p => j[x] = k[x],
           NEW v, \A x \in Players : v[x] = IF x = p THEN None ELSE q[x],
           NEW gone \in BOOLEAN, gone <=> r[q[p]] # "owner" /\ {x \in Players : q[x] = q[p]} = {p},
           NEW s, \A a \in Accounts : s[a] = IF gone /\ a = q[p] THEN "none" ELSE r[a]
    PROVE  CrewSound(n, s, v, j)
<1>0. q[p] \in Accounts
  BY DEF PlacesOf
<1>1. OneOwner(s)
  BY <1>0, SoundIs DEF OneOwner
<1>2. Cardinality(Taken(v)) <= n
  <2>1. Taken(v) \subseteq Taken(q)
    BY DEF Taken
  <2> QED BY <2>1, FewerTaken, TakenIsFinite, SoundIs
<1>3. ASSUME NEW a \in Accounts, s[a] \in {"admin", "member"}
      PROVE  \E x \in Players : v[x] = a
  <2>1. r[a] = s[a] /\ \E x \in Players : q[x] = a
    BY <1>3, SoundIs
  <2>2. CASE a # q[p]
    BY <2>1, <2>2
  <2>3. CASE a = q[p]
    <3>1. {x \in Players : q[x] = q[p]} # {p}
      BY <1>3, <2>1, <2>3
    <3>2. PICK x \in Players : x # p /\ q[x] = q[p]
      BY <3>1
    <3> QED BY <2>3, <3>2
  <2> QED BY <2>2, <2>3
<1>4. ASSUME NEW x \in Players, v[x] # None
      PROVE  s[v[x]] # "none" /\ v[x] = j[x]
  <2>1. x # p /\ v[x] = q[x] /\ q[x] \in Accounts /\ r[q[x]] # "none" /\ q[x] = k[x]
    BY <1>4, SoundIs DEF PlacesOf
  <2>2. gone => q[x] # q[p]
    BY <2>1
  <2> QED BY <2>1, <2>2
<1> QED BY <1>1, <1>2, <1>3, <1>4, SoundIs

\* Places v are places q with those of some players added.
Added(v, q, tags, by) == \A p \in Players : v[p] = IF p \in tags THEN by ELSE q[p]

\* An account adds places for players verified to it, joining if it must.
LEMMA PlacesAdded ==
    ASSUME NEW n \in Int, NEW r \in RolesOf, NEW q \in PlacesOf, NEW k, CrewSound(n, r, q, k),
           NEW by \in Accounts, NEW tags \in SUBSET Players, tags # {},
           \A p \in tags : q[p] = None /\ k[p] = by,
           Cardinality(tags) + Cardinality(Taken(q)) <= n,
           NEW v, Added(v, q, tags, by),
           NEW s, \A a \in Accounts : s[a] = IF a = by /\ r[by] = "none" THEN "member" ELSE r[a]
    PROVE  CrewSound(n, s, v, k)
<1>1. OneOwner(s)
  BY SoundIs DEF OneOwner
<1>2. Cardinality(Taken(v)) <= n
  <2>1. Taken(v) = Taken(q) \cup tags
    BY CrewConstants DEF Taken, Added
  <2>2. Taken(q) \cap tags = {}
    BY DEF Taken, Added
  <2>3. IsFiniteSet(tags) /\ Cardinality(tags) \in Nat
    BY CrewConstants, FS_Subset, FS_CardinalityType
  <2>4. Cardinality(Taken(v)) = Cardinality(Taken(q)) + Cardinality(tags) - Cardinality(Taken(q) \cap tags)
    BY <2>1, <2>3, TakenIsFinite, FS_Union
  <2>5. Cardinality(Taken(q) \cap tags) = 0
    BY <2>2, FS_EmptySet
  <2> QED BY <2>3, <2>4, <2>5, TakenIsFinite
<1>3. ASSUME NEW a \in Accounts, s[a] \in {"admin", "member"}
      PROVE  \E p \in Players : v[p] = a
  <2>1. CASE a = by
    BY <2>1 DEF Added
  <2>2. CASE a # by
    <3>1. r[a] \in {"admin", "member"}
      BY <1>3, <2>2
    <3>2. PICK p \in Players : q[p] = a
      BY <3>1, SoundIs
    <3>3. p \notin tags
      BY <3>2, CrewConstants
    <3> QED BY <3>2, <3>3 DEF Added
  <2> QED BY <2>1, <2>2
<1>4. \A p \in Players : v[p] # None => s[v[p]] # "none" /\ v[p] = k[p]
  BY SoundIs DEF PlacesOf, RolesOf, Added
<1> QED BY <1>1, <1>2, <1>3, <1>4, SoundIs

\* The places of a crew are those of some players of one account.
Placed(q, tags, by) == \A p \in Players : q[p] = IF p \in tags THEN by ELSE None

\* A new crew holds its founder and the founder's players.
LEMMA CrewCreated ==
    ASSUME NEW n \in Int, NEW r, NEW q, NEW k, NEW by \in Accounts,
           NEW tags \in SUBSET Players, \A p \in tags : k[p] = by, Cardinality(tags) <= n,
           \A a \in Accounts : r[a] = IF a = by THEN "owner" ELSE "none",
           Placed(q, tags, by)
    PROVE  CrewSound(n, r, q, k)
<1>1. OneOwner(r)
  BY DEF OneOwner
<1>2. Taken(q) = tags
  BY CrewConstants DEF Taken, Placed
<1> QED BY <1>1, <1>2, SoundIs DEF Placed

\* A link nobody's place rests on changes.
LEMMA LinkMoved ==
    ASSUME NEW n, NEW r, NEW q, NEW k, NEW j, CrewSound(n, r, q, k),
           \A p \in Players : q[p] # None => j[p] = k[p]
    PROVE  CrewSound(n, r, q, j)
  BY DEF CrewSound

LEMMA MinIs ==
    ASSUME NEW S \in SUBSET Nat, S # {}
    PROVE  Min(S) \in S /\ \A x \in S : Min(S) <= x
<1> DEFINE R == OpToRel(<, Nat)
<1>1. \A x, y \in Nat : x < y => <<x, y>> \in R
  BY DEF OpToRel
<1>2. IsWellFoundedOn(R, Nat)
  BY NatLessThanWellFounded
<1> HIDE DEF R
<1>3. \E m \in S : \A y \in S : ~(<<y, m>> \in R)
  BY <1>2, WFMin
<1>4. PICK m \in S : \A y \in S : ~(<<y, m>> \in R)
  BY <1>3
<1>5. \A y \in S : ~(y < m)
  BY <1>1, <1>4
<1>6. \A y \in S : m <= y
  BY <1>5
<1> QED BY <1>6 DEF Min
-----------------------------------------------------------------------------
(* The locks                                                               *)

LEMMA ConflictsAre ==
    ASSUME NEW x
    PROVE  /\ Conflicting(<<"crew", x>>) = {<<"crew", x>>}
           /\ Conflicting(<<"account", x>>) = {<<"account", x>>}
           /\ Conflicting(<<"tag", x>>) = {<<"tag", x>>}
           /\ Conflicting(<<"link", x>>) = {<<"link", x>>, <<"share", x>>}
           /\ Conflicting(<<"share", x>>) = {<<"link", x>>}
  BY DEF Conflicting

LEMMA Locked ==
    ASSUME NEW w \in Writes, NEW rows, CanLock(w, rows), NEW v \in Writes, v # w, NEW l \in rows
    PROVE  Conflicting(l) \cap locks[v] = {}
  BY DEF CanLock

\* Nobody else holds what a write is given.
LEMMA Free ==
    ASSUME NEW w \in Writes, NEW rows, CanLock(w, rows), NEW v \in Writes, v # w
    PROVE  /\ \A c \in Crews : <<"crew", c>> \in rows => <<"crew", c>> \notin locks[v]
           /\ \A a \in Accounts : <<"account", a>> \in rows => <<"account", a>> \notin locks[v]
           /\ \A p \in Players : <<"link", p>> \in rows =>
                 <<"link", p>> \notin locks[v] /\ <<"share", p>> \notin locks[v]
           /\ \A p \in Players : <<"share", p>> \in rows => <<"link", p>> \notin locks[v]
<1>1. \A l \in rows : Conflicting(l) \cap locks[v] = {}
  BY Locked
<1>2. \A c \in Crews : <<"crew", c>> \in rows => <<"crew", c>> \notin locks[v]
  BY <1>1, ConflictsAre
<1>3. \A a \in Accounts : <<"account", a>> \in rows => <<"account", a>> \notin locks[v]
  BY <1>1, ConflictsAre
<1>4. \A p \in Players : <<"link", p>> \in rows =>
         <<"link", p>> \notin locks[v] /\ <<"share", p>> \notin locks[v]
  BY <1>1, ConflictsAre
<1>5. \A p \in Players : <<"share", p>> \in rows => <<"link", p>> \notin locks[v]
  BY <1>1, ConflictsAre
<1> QED BY <1>2, <1>3, <1>4, <1>5

LEMMA TakeKeepsExclusive ==
    ASSUME CrewInv, NEW w \in Writes, NEW rows, Take(w, rows)
    PROVE  /\ Exclusive'
           /\ locks'[w] = locks[w] \cup rows
           /\ \A v \in Writes \ {w} : locks'[v] = locks[v]
           /\ DOMAIN locks' = Writes /\ locks' = [v \in Writes |-> locks'[v]]
<1>1. DOMAIN locks = Writes
  BY DEF CrewInv, TxTypes
<1>2. /\ locks'[w] = locks[w] \cup rows
      /\ \A v \in Writes \ {w} : locks'[v] = locks[v]
      /\ DOMAIN locks' = Writes /\ locks' = [v \in Writes |-> locks'[v]]
  BY <1>1, locks = [v \in Writes |-> locks[v]] DEF Take, CrewInv, TxTypes
<1>3. CanLock(w, rows) /\ Exclusive
  BY DEF Take, CrewInv
<1>4. SUFFICES ASSUME NEW v \in Writes, NEW u \in Writes, v # u
      PROVE  /\ \A c \in Crews : <<"crew", c>> \in locks'[v] => <<"crew", c>> \notin locks'[u]
             /\ \A a \in Accounts : <<"account", a>> \in locks'[v] => <<"account", a>> \notin locks'[u]
             /\ \A p \in Players : <<"link", p>> \in locks'[v] =>
                   <<"link", p>> \notin locks'[u] /\ <<"share", p>> \notin locks'[u]
  BY <1>2 DEF Exclusive
<1>5. CASE v = w
  BY <1>2, <1>3, <1>4, <1>5, Free DEF Exclusive
<1>6. CASE u = w
  BY <1>2, <1>3, <1>4, <1>6, Free DEF Exclusive
<1>7. CASE v # w /\ u # w
  BY <1>2, <1>3, <1>4, <1>7 DEF Exclusive
<1> QED BY <1>5, <1>6, <1>7

LEMMA EndKeepsExclusive ==
    ASSUME CrewInv, NEW w \in Writes, End(w)
    PROVE  /\ Exclusive'
           /\ tx'[w] = Idle /\ \A v \in Writes \ {w} : tx'[v] = tx[v] /\ locks'[v] = locks[v]
           /\ DOMAIN locks' = Writes /\ locks' = [v \in Writes |-> locks'[v]]
           /\ DOMAIN tx' = Writes /\ tx' = [v \in Writes |-> tx'[v]]
<1>1. /\ locks'[w] = {}
      /\ tx'[w] = Idle /\ \A v \in Writes \ {w} : tx'[v] = tx[v] /\ locks'[v] = locks[v]
      /\ DOMAIN locks' = Writes /\ locks' = [v \in Writes |-> locks'[v]]
      /\ DOMAIN tx' = Writes /\ tx' = [v \in Writes |-> tx'[v]]
  BY DEF End, CrewInv, TxTypes
<1>2. Exclusive
  BY DEF CrewInv
<1> QED BY <1>1, <1>2 DEF Exclusive

\* A crew's rows are changed by one write at a time.
LEMMA OneWriter ==
    ASSUME CrewInv, NEW v \in Writes, NEW w \in Writes, v # w, NEW c \in Crews, Owns(v, c)
    PROVE  ~Owns(w, c)
<1>1. SUFFICES ASSUME Owns(w, c) PROVE FALSE
  OBVIOUS
<1>2. ~(<<"crew", c>> \in locks[v] /\ <<"crew", c>> \in locks[w])
  BY DEF CrewInv, Exclusive
<1>3. ~(tx[v].op = "create_crew" /\ c = tx[v].crew /\ (Exists(c) \/ c = tx[w].crew))
  BY DEF CrewInv, Fresh, Exists
<1>4. ~(tx[w].op = "create_crew" /\ c = tx[w].crew /\ (Exists(c) \/ c = tx[v].crew))
  BY DEF CrewInv, Fresh, Exists
<1> QED BY <1>1, <1>2, <1>3, <1>4 DEF Owns
-----------------------------------------------------------------------------
(* The write of a connection                                               *)

\* A step of a write leaves what was asked for, and the other writes.
Asks(w) ==
    /\ tx'[w].op = tx[w].op /\ tx'[w].by = tx[w].by /\ tx'[w].crew = tx[w].crew
    /\ tx'[w].tags = tx[w].tags /\ tx'[w].to = tx[w].to /\ tx'[w].n = tx[w].n
    /\ IsTx(tx'[w])
    /\ \A v \in Writes \ {w} : tx'[v] = tx[v]
    /\ DOMAIN tx' = Writes /\ tx' = [v \in Writes |-> tx'[v]]

LEMMA SetAt ==
    ASSUME CrewInv, NEW w \in Writes, NEW a, tx' = [tx EXCEPT ![w].at = a]
    PROVE  Asks(w) /\ tx'[w].at = a /\ tx'[w].left = tx[w].left /\ tx'[w].changes = tx[w].changes
  BY IsTx(tx[w]), tx = [v \in Writes |-> tx[v]] DEF Asks, IsTx, CrewInv, TxTypes

LEMMA SetLeft ==
    ASSUME CrewInv, NEW w \in Writes, NEW l, tx' = [tx EXCEPT ![w].left = l]
    PROVE  Asks(w) /\ tx'[w].at = tx[w].at /\ tx'[w].left = l /\ tx'[w].changes = tx[w].changes
  BY IsTx(tx[w]), tx = [v \in Writes |-> tx[v]] DEF Asks, IsTx, CrewInv, TxTypes

LEMMA SetAtLeft ==
    ASSUME CrewInv, NEW w \in Writes, NEW a, NEW l, tx' = [tx EXCEPT ![w].at = a, ![w].left = l]
    PROVE  Asks(w) /\ tx'[w].at = a /\ tx'[w].left = l /\ tx'[w].changes = tx[w].changes
  BY IsTx(tx[w]), tx = [v \in Writes |-> tx[v]] DEF Asks, IsTx, CrewInv, TxTypes

LEMMA SetAtChanges ==
    ASSUME CrewInv, NEW w \in Writes, NEW a, NEW d,
           tx' = [tx EXCEPT ![w].at = a, ![w].changes = d]
    PROVE  Asks(w) /\ tx'[w].at = a /\ tx'[w].left = tx[w].left /\ tx'[w].changes = d
  BY IsTx(tx[w]), tx = [v \in Writes |-> tx[v]] DEF Asks, IsTx, CrewInv, TxTypes

LEMMA SetAll ==
    ASSUME CrewInv, NEW w \in Writes, NEW a, NEW l, NEW d,
           tx' = [tx EXCEPT ![w].at = a, ![w].left = l, ![w].changes = d]
    PROVE  Asks(w) /\ tx'[w].at = a /\ tx'[w].left = l /\ tx'[w].changes = d
  BY IsTx(tx[w]), tx = [v \in Writes |-> tx[v]] DEF Asks, IsTx, CrewInv, TxTypes
-----------------------------------------------------------------------------
(* What a commit shows                                                     *)

\* The rows of a crew that a commit leaves alone.
Same(c) ==
    size'[c] = size[c] /\ role'[c] = role[c] /\ place'[c] = place[c] /\ invites'[c] = invites[c]

SizesTo(d, c) == {n \in Sizes : <<"size", c, n>> \in d}
RolesTo(d, c, a) == {r \in Roles : <<"role", c, a, r>> \in d}
PlacesTo(d, c, p) == {a \in Accounts \cup {None} : <<"place", c, p, a>> \in d}
LinksTo(d, p) == {a \in Accounts \cup {None} : <<"link", p, a>> \in d}

\* Each row after changes d.
SizeAfter(d, c) ==
    IF <<"delete", c>> \in d THEN Deleted
    ELSE IF SizesTo(d, c) # {} THEN CHOOSE n \in Sizes : <<"size", c, n>> \in d ELSE size[c]
RoleAfter(d, c, a) ==
    IF <<"delete", c>> \in d THEN "none"
    ELSE IF RolesTo(d, c, a) = {} THEN role[c][a] ELSE CHOOSE r \in RolesTo(d, c, a) : TRUE
PlaceAfter(d, c, p) ==
    IF <<"delete", c>> \in d THEN None
    ELSE IF PlacesTo(d, c, p) = {} THEN place[c][p] ELSE CHOOSE a \in PlacesTo(d, c, p) : TRUE
InvitesAfter(d, c) ==
    IF <<"delete", c>> \in d THEN {}
    ELSE {a \in Accounts : \/ <<"invite", c, a>> \in d
                           \/ a \in invites[c] /\ <<"revoke", c, a>> \notin d}
LinkAfter(d, p) ==
    IF LinksTo(d, p) = {} THEN link[p] ELSE CHOOSE a \in LinksTo(d, p) : TRUE

LEMMA RowsShown ==
    ASSUME NEW w \in Writes, Commit(w), NEW d, d = tx[w].changes
    PROVE  /\ size' = [c \in Crews |-> SizeAfter(d, c)]
           /\ role' = [c \in Crews |-> [a \in Accounts |-> RoleAfter(d, c, a)]]
           /\ place' = [c \in Crews |-> [p \in Players |-> PlaceAfter(d, c, p)]]
           /\ invites' = [c \in Crews |-> InvitesAfter(d, c)]
           /\ link' = [p \in Players |-> LinkAfter(d, p)]
<1>1. size' = [c \in Crews |-> SizeAfter(d, c)]
  BY DEF Commit, SizesTo, SizeAfter
<1>2. role' = [c \in Crews |-> [a \in Accounts |-> RoleAfter(d, c, a)]]
  BY DEF Commit, RolesTo, RoleAfter
<1>3. place' = [c \in Crews |-> [p \in Players |-> PlaceAfter(d, c, p)]]
  BY DEF Commit, PlacesTo, PlaceAfter
<1>4. invites' = [c \in Crews |-> InvitesAfter(d, c)]
  BY DEF Commit, InvitesAfter
<1>5. link' = [p \in Players |-> LinkAfter(d, p)]
  BY DEF Commit, LinksTo, LinkAfter
<1> QED BY <1>1, <1>2, <1>3, <1>4, <1>5

LEMMA Chosen ==
    ASSUME NEW S, S # {}
    PROVE  (CHOOSE x \in S : TRUE) \in S
  OBVIOUS

LEMMA RolesShown ==
    ASSUME RowTypes, NEW w \in Writes, Commit(w), NEW d, d = tx[w].changes,
           NEW c \in Crews, NEW a \in Accounts
    PROVE  /\ <<"delete", c>> \in d => role'[c][a] = "none"
           /\ <<"delete", c>> \notin d /\ (\A r : <<"role", c, a, r>> \notin d)
                 => role'[c][a] = role[c][a]
           /\ <<"delete", c>> \notin d => \A x \in Roles :
                 (\A r : <<"role", c, a, r>> \in d <=> r = x) => role'[c][a] = x
           /\ role'[c][a] \in Roles
<1>1. role'[c][a] = RoleAfter(d, c, a)
  BY RowsShown
<1>2. RolesTo(d, c, a) # {} => (CHOOSE r \in RolesTo(d, c, a) : TRUE) \in RolesTo(d, c, a)
  BY Chosen
<1>3. role[c][a] \in Roles /\ "none" \in Roles
  BY DEF RowTypes, Roles
<1> QED BY <1>1, <1>2, <1>3 DEF RolesTo, RoleAfter

LEMMA PlacesShown ==
    ASSUME RowTypes, NEW w \in Writes, Commit(w), NEW d, d = tx[w].changes,
           NEW c \in Crews, NEW p \in Players
    PROVE  /\ <<"delete", c>> \in d => place'[c][p] = None
           /\ <<"delete", c>> \notin d /\ (\A a : <<"place", c, p, a>> \notin d)
                 => place'[c][p] = place[c][p]
           /\ <<"delete", c>> \notin d => \A x \in Accounts \cup {None} :
                 (\A a : <<"place", c, p, a>> \in d <=> a = x) => place'[c][p] = x
           /\ place'[c][p] \in Accounts \cup {None}
<1>1. place'[c][p] = PlaceAfter(d, c, p)
  BY RowsShown
<1>2. PlacesTo(d, c, p) # {} => (CHOOSE a \in PlacesTo(d, c, p) : TRUE) \in PlacesTo(d, c, p)
  BY Chosen
<1>3. place[c][p] \in Accounts \cup {None}
  BY DEF RowTypes
<1> QED BY <1>1, <1>2, <1>3 DEF PlacesTo, PlaceAfter

LEMMA LinksShown ==
    ASSUME RowTypes, NEW w \in Writes, Commit(w), NEW d, d = tx[w].changes, NEW p \in Players
    PROVE  /\ (\A a : <<"link", p, a>> \notin d) => link'[p] = link[p]
           /\ \A x \in Accounts \cup {None} :
                 (\A a : <<"link", p, a>> \in d <=> a = x) => link'[p] = x
           /\ link'[p] \in Accounts \cup {None}
<1>1. link'[p] = LinkAfter(d, p)
  BY RowsShown
<1>2. LinksTo(d, p) # {} => (CHOOSE a \in LinksTo(d, p) : TRUE) \in LinksTo(d, p)
  BY Chosen
<1>3. link[p] \in Accounts \cup {None}
  BY DEF RowTypes
<1> QED BY <1>1, <1>2, <1>3 DEF LinksTo, LinkAfter

LEMMA SizesShown ==
    ASSUME RowTypes, NEW w \in Writes, Commit(w), NEW d, d = tx[w].changes, NEW c \in Crews
    PROVE  /\ <<"delete", c>> \in d => size'[c] = Deleted /\ invites'[c] = {}
           /\ <<"delete", c>> \notin d /\ (\A n : <<"size", c, n>> \notin d)
                 => size'[c] = size[c]
           /\ <<"delete", c>> \notin d => \A x \in Sizes :
                 (\A n : <<"size", c, n>> \in d <=> n = x) => size'[c] = x
           /\ size'[c] \in Sizes \cup {0, Deleted}
           /\ invites'[c] \subseteq Accounts
           /\ <<"delete", c>> \notin d
                 /\ (\A a : <<"invite", c, a>> \notin d /\ <<"revoke", c, a>> \notin d)
                 => invites'[c] = invites[c]
<1>1. size'[c] = SizeAfter(d, c)
  BY RowsShown
<1>2. SizesTo(d, c) # {} => (CHOOSE n \in Sizes : <<"size", c, n>> \in d) \in SizesTo(d, c)
  <2>1. ASSUME NEW m \in SizesTo(d, c)
        PROVE  (CHOOSE n \in Sizes : <<"size", c, n>> \in d) \in SizesTo(d, c)
    <3>1. \E n \in Sizes : <<"size", c, n>> \in d
      BY <2>1 DEF SizesTo
    <3> QED BY <3>1 DEF SizesTo
  <2> QED BY <2>1
<1>3. size[c] \in Sizes \cup {0, Deleted} /\ invites[c] \subseteq Accounts
  BY DEF RowTypes
<1>4. invites'[c] = InvitesAfter(d, c)
  BY RowsShown
<1>5. /\ <<"delete", c>> \in d => size'[c] = Deleted
      /\ <<"delete", c>> \notin d /\ (\A n : <<"size", c, n>> \notin d) => size'[c] = size[c]
      /\ <<"delete", c>> \notin d => \A x \in Sizes :
            (\A n : <<"size", c, n>> \in d <=> n = x) => size'[c] = x
      /\ size'[c] \in Sizes \cup {0, Deleted}
  BY <1>1, <1>2, <1>3 DEF SizesTo, SizeAfter
<1>6. /\ <<"delete", c>> \in d => invites'[c] = {}
      /\ invites'[c] \subseteq Accounts
      /\ <<"delete", c>> \notin d
            /\ (\A a : <<"invite", c, a>> \notin d /\ <<"revoke", c, a>> \notin d)
            => invites'[c] = invites[c]
  BY <1>3, <1>4 DEF InvitesAfter
<1> QED BY <1>5, <1>6

LEMMA CommitTypes ==
    ASSUME RowTypes, NEW w \in Writes, Commit(w)
    PROVE  RowTypes'
<1>1. PICK d : d = tx[w].changes
  OBVIOUS
<1>2. /\ \A c \in Crews : size'[c] \in Sizes \cup {0, Deleted} /\ invites'[c] \subseteq Accounts
      /\ \A c \in Crews, a \in Accounts : role'[c][a] \in Roles
      /\ \A c \in Crews, p \in Players : place'[c][p] \in Accounts \cup {None}
      /\ \A p \in Players : link'[p] \in Accounts \cup {None}
  BY <1>1, SizesShown, RolesShown, PlacesShown, LinksShown
<1>3. size' \in [Crews -> Sizes \cup {0, Deleted}] /\ invites' \in [Crews -> SUBSET Accounts]
  BY <1>1, <1>2, RowsShown
<1>4. role' \in [Crews -> [Accounts -> Roles]]
  BY <1>1, <1>2, RowsShown
<1>5. place' \in [Crews -> [Players -> Accounts \cup {None}]]
  BY <1>1, <1>2, RowsShown
<1>6. link' \in [Players -> Accounts \cup {None}]
  BY <1>1, <1>2, RowsShown
<1> QED BY <1>3, <1>4, <1>5, <1>6 DEF RowTypes

\* A crew none of the changes name stays as it is.
LEMMA CrewKept ==
    ASSUME RowTypes, NEW w \in Writes, Commit(w), NEW d, d = tx[w].changes, NEW c \in Crews,
           <<"delete", c>> \notin d,
           \A x : <<"size", c, x>> \notin d /\ <<"invite", c, x>> \notin d /\ <<"revoke", c, x>> \notin d,
           \A x, y : <<"role", c, x, y>> \notin d /\ <<"place", c, x, y>> \notin d
    PROVE  Same(c)
<1>1. size'[c] = size[c] /\ invites'[c] = invites[c]
  BY SizesShown
<1>2. \A a \in Accounts : role'[c][a] = role[c][a]
  BY RolesShown
<1>3. \A p \in Players : place'[c][p] = place[c][p]
  BY PlacesShown
<1>4. /\ role'[c] \in [Accounts -> Roles] /\ role[c] \in [Accounts -> Roles]
      /\ place'[c] \in [Players -> Accounts \cup {None}] /\ place[c] \in [Players -> Accounts \cup {None}]
  BY CommitTypes DEF RowTypes
<1>5. role'[c] = role[c]
  BY <1>2, <1>4
<1>6. place'[c] = place[c]
  BY <1>3, <1>4
<1> QED BY <1>1, <1>5, <1>6 DEF Same
-----------------------------------------------------------------------------
(* What a commit does to each crew                                         *)

\* What a commit may touch: rows of crews the write owns, nobody's role but
\* that of the account that enters, places it shares the links of, and links
\* it has locked.
Frame(w) ==
    /\ \A c \in Crews : Same(c) \/ Owns(w, c)
    /\ \A c \in Crews, a \in Accounts : role'[c][a] # "none" =>
          role[c][a] # "none" \/ (Entering(w) /\ c = tx[w].crew /\ a = tx[w].by)
    /\ \A c \in Crews, p \in Players : place'[c][p] # None =>
          place[c][p] # None \/ <<"share", p>> \in locks[w]
    /\ \A p \in Players : link'[p] = link[p] \/ <<"link", p>> \in locks[w]

CrewAfter(c) ==
    IF Exists(c)' THEN CrewSound(size'[c], role'[c], place'[c], link')
    ELSE NoCrew(role'[c], place'[c], invites'[c])

\* The changes concern one crew.
Names(d, c) ==
    /\ \A e : e # c =>
          /\ <<"delete", e>> \notin d
          /\ \A x : <<"size", e, x>> \notin d /\ <<"invite", e, x>> \notin d /\ <<"revoke", e, x>> \notin d
          /\ \A x, y : <<"role", e, x, y>> \notin d /\ <<"place", e, x, y>> \notin d
    /\ \A x, y : <<"link", x, y>> \notin d

LEMMA RolesKept ==
    ASSUME RowTypes, RowTypes', NEW c \in Crews, \A a \in Accounts : role'[c][a] = role[c][a]
    PROVE  role'[c] = role[c]
<1>1. role'[c] \in [Accounts -> Roles] /\ role[c] \in [Accounts -> Roles]
  BY DEF RowTypes
<1> QED BY <1>1

LEMMA PlacesKept ==
    ASSUME RowTypes, RowTypes', NEW c \in Crews, \A p \in Players : place'[c][p] = place[c][p]
    PROVE  place'[c] = place[c]
<1>1. place'[c] \in [Players -> Accounts \cup {None}] /\ place[c] \in [Players -> Accounts \cup {None}]
  BY DEF RowTypes
<1> QED BY <1>1

LEMMA LinksKept ==
    ASSUME RowTypes, RowTypes', \A p \in Players : link'[p] = link[p]
    PROVE  link' = link
  BY DEF RowTypes

\* The rows of a crew, by whether it exists.
LEMMA RowsOf ==
    ASSUME CrewInv, NEW c \in Crews
    PROVE  /\ Exists(c) => CrewSound(size[c], role[c], place[c], link)
           /\ ~Exists(c) => NoCrew(role[c], place[c], invites[c])
           /\ role[c] \in RolesOf /\ place[c] \in PlacesOf /\ size[c] \in Int
           /\ \A a \in Accounts : role[c][a] # "none" => Exists(c)
           /\ \A p \in Players : place[c][p] # None => Exists(c)
           /\ invites[c] # {} => Exists(c)
<1>1. /\ Exists(c) => CrewSound(size[c], role[c], place[c], link)
      /\ ~Exists(c) => NoCrew(role[c], place[c], invites[c])
  BY DEF CrewInv, CrewsHold, NoRows
<1>2. role[c] \in RolesOf /\ place[c] \in PlacesOf /\ size[c] \in Int
  <2>1. RowTypes /\ Sizes \cup {0, Deleted} \subseteq Int
    BY CrewConstants DEF CrewInv, Deleted
  <2>2. size[c] \in Int
    BY <2>1 DEF RowTypes
  <2> QED BY <2>1, <2>2 DEF RowTypes, RolesOf, PlacesOf
<1> QED BY <1>1, <1>2 DEF NoCrew

LEMMA NoRoles ==
    ASSUME RowTypes, NEW w \in Writes, Commit(w), NEW d, d = tx[w].changes, NEW c \in Crews,
           <<"delete", c>> \notin d, \A a, r : <<"role", c, a, r>> \notin d
    PROVE  role'[c] = role[c]
<1>1. \A a \in Accounts : role'[c][a] = role[c][a]
  BY RolesShown
<1> QED BY <1>1, CommitTypes, RolesKept

LEMMA NoPlaces ==
    ASSUME RowTypes, NEW w \in Writes, Commit(w), NEW d, d = tx[w].changes, NEW c \in Crews,
           <<"delete", c>> \notin d, \A p, a : <<"place", c, p, a>> \notin d
    PROVE  place'[c] = place[c]
<1>1. \A p \in Players : place'[c][p] = place[c][p]
  BY PlacesShown
<1> QED BY <1>1, CommitTypes, PlacesKept

LEMMA RoleStays ==
    ASSUME RowTypes, NEW w \in Writes, Commit(w), NEW d, d = tx[w].changes, NEW c \in Crews,
           <<"delete", c>> \notin d, NEW a \in Accounts, \A r : <<"role", c, a, r>> \notin d
    PROVE  role'[c][a] = role[c][a]
  BY RolesShown

LEMMA RoleBecomes ==
    ASSUME RowTypes, NEW w \in Writes, Commit(w), NEW d, d = tx[w].changes, NEW c \in Crews,
           <<"delete", c>> \notin d, NEW a \in Accounts, NEW x \in Roles,
           \A r : <<"role", c, a, r>> \in d <=> r = x
    PROVE  role'[c][a] = x
<1>1. role'[c][a] = RoleAfter(d, c, a)
  BY RowsShown
<1>2. RolesTo(d, c, a) = {x}
  BY DEF RolesTo
<1> QED BY <1>1, <1>2 DEF RoleAfter

LEMMA PlaceStays ==
    ASSUME RowTypes, NEW w \in Writes, Commit(w), NEW d, d = tx[w].changes, NEW c \in Crews,
           <<"delete", c>> \notin d, NEW p \in Players, \A a : <<"place", c, p, a>> \notin d
    PROVE  place'[c][p] = place[c][p]
  BY PlacesShown

LEMMA PlaceBecomes ==
    ASSUME RowTypes, NEW w \in Writes, Commit(w), NEW d, d = tx[w].changes, NEW c \in Crews,
           <<"delete", c>> \notin d, NEW p \in Players, NEW x \in Accounts \cup {None},
           \A a : <<"place", c, p, a>> \in d <=> a = x
    PROVE  place'[c][p] = x
<1>1. place'[c][p] = PlaceAfter(d, c, p)
  BY RowsShown
<1>2. PlacesTo(d, c, p) = {x}
  BY DEF PlacesTo
<1> QED BY <1>1, <1>2 DEF PlaceAfter

LEMMA SizeBecomes ==
    ASSUME RowTypes, NEW w \in Writes, Commit(w), NEW d, d = tx[w].changes, NEW c \in Crews,
           <<"delete", c>> \notin d, NEW x \in Sizes, \A n : <<"size", c, n>> \in d <=> n = x
    PROVE  size'[c] = x
<1>1. size'[c] = SizeAfter(d, c)
  BY RowsShown
<1>2. SizesTo(d, c) = {x}
  BY DEF SizesTo
<1>3. (CHOOSE n \in Sizes : <<"size", c, n>> \in d) = x
  OBVIOUS
<1> QED BY <1>1, <1>2, <1>3 DEF SizeAfter

LEMMA OneCrew ==
    ASSUME CrewInv, NEW w \in Writes, Commit(w), NEW c \in Crews, c = tx[w].crew, Owns(w, c),
           Names(tx[w].changes, c), CrewAfter(c),
           \A a \in Accounts : role'[c][a] # "none" =>
              role[c][a] # "none" \/ (Entering(w) /\ a = tx[w].by),
           \A p \in Players : place'[c][p] # None =>
              place[c][p] # None \/ <<"share", p>> \in locks[w]
    PROVE  Frame(w) /\ \A e \in Crews : CrewAfter(e)
<1>0. RowTypes
  BY DEF CrewInv
<1>1. ASSUME NEW e \in Crews, e # c
      PROVE  Same(e)
  <2>1. PICK d : d = tx[w].changes
    OBVIOUS
  <2>2. /\ <<"delete", e>> \notin d
        /\ \A x : <<"size", e, x>> \notin d /\ <<"invite", e, x>> \notin d /\ <<"revoke", e, x>> \notin d
        /\ \A x, y : <<"role", e, x, y>> \notin d /\ <<"place", e, x, y>> \notin d
    BY <1>1, <2>1 DEF Names
  <2> QED BY <1>0, <2>1, <2>2, CrewKept
<1>2. \A p \in Players : link'[p] = link[p]
  BY <1>0, LinksShown DEF Names
<1>3. link' = link
  BY <1>0, <1>2, CommitTypes, LinksKept
<1>4. Frame(w)
  BY <1>1, <1>2 DEF Frame, Same
<1>5. ASSUME NEW e \in Crews, e # c
      PROVE  CrewAfter(e)
  BY <1>1, <1>3, <1>5, RowsOf DEF CrewAfter, Same, Exists
<1> QED BY <1>4, <1>5

LEMMA LeavesAre ==
    ASSUME NEW cs, NEW p
    PROVE  /\ \A c, q, a : <<"place", c, q, a>> \in Leaves(cs, p) <=> c \in cs /\ q = p /\ a = None
           /\ \A c, a, r : <<"role", c, a, r>> \in Leaves(cs, p)
                 <=> c \in Emptied(cs, p) /\ a = place[c][p] /\ r = "none"
           /\ \A c : <<"delete", c>> \notin Leaves(cs, p)
           /\ \A c, x : /\ <<"size", c, x>> \notin Leaves(cs, p) /\ <<"invite", c, x>> \notin Leaves(cs, p)
                        /\ <<"revoke", c, x>> \notin Leaves(cs, p)
                        /\ <<"link", c, x>> \notin Leaves(cs, p)
  BY DEF Leaves

\* A player's place in a crew goes.
LEMMA PlaceLeft ==
    ASSUME CrewInv, NEW w \in Writes, Commit(w), NEW d, d = tx[w].changes, NEW c \in Crews,
           NEW p \in Players, place[c][p] # None, NEW cs, c \in cs,
           <<"delete", c>> \notin d, \A x : <<"size", c, x>> \notin d,
           \A q, a : <<"place", c, q, a>> \in d <=> <<"place", c, q, a>> \in Leaves(cs, p),
           \A a, r : <<"role", c, a, r>> \in d <=> <<"role", c, a, r>> \in Leaves(cs, p),
           \A x \in Players : x # p => link'[x] = link[x]
    PROVE  /\ CrewAfter(c)
           /\ \A a \in Accounts : role'[c][a] # "none" => role[c][a] # "none"
           /\ \A x \in Players : place'[c][x] # None => place[c][x] # None
<1>0. RowTypes /\ Exists(c)
  BY RowsOf DEF CrewInv
<1>1. size'[c] = size[c]
  BY <1>0, SizesShown
<1>2. \A x \in Players : place'[c][x] = IF x = p THEN None ELSE place[c][x]
  <2>1. \A x, a : <<"place", c, x, a>> \in d <=> x = p /\ a = None
    BY LeavesAre
  <2> QED BY <1>0, <2>1, PlaceStays, PlaceBecomes
<1> DEFINE gone == role[c][place[c][p]] # "owner" /\ {x \in Players : place[c][x] = place[c][p]} = {p}
<1>3. \A a \in Accounts : role'[c][a] = IF gone /\ a = place[c][p] THEN "none" ELSE role[c][a]
  <2>1. c \in Emptied(cs, p) <=> gone
    BY DEF Emptied, Places
  <2>2. \A a, r : <<"role", c, a, r>> \in d <=> gone /\ a = place[c][p] /\ r = "none"
    BY <2>1, LeavesAre
  <2> HIDE DEF gone
  <2>3. "none" \in Roles
    BY DEF Roles
  <2> QED BY <1>0, <2>2, <2>3, RoleStays, RoleBecomes
<1>4. CrewSound(size'[c], role'[c], place'[c], link')
  <2>1. PICK n, r, q, k, s, v, j : /\ n = size[c] /\ r = role[c] /\ q = place[c] /\ k = link
                                   /\ s = role'[c] /\ v = place'[c] /\ j = link'
    OBVIOUS
  <2>2. n \in Int /\ r \in RolesOf /\ q \in PlacesOf /\ CrewSound(n, r, q, k) /\ q[p] # None
    BY <1>0, <2>1, RowsOf
  <2>3. PICK b \in BOOLEAN : b <=> gone
    OBVIOUS
  <2>4. b <=> r[q[p]] # "owner" /\ {x \in Players : q[x] = q[p]} = {p}
    BY <2>1, <2>3
  <2>5. \A a \in Accounts : s[a] = IF b /\ a = q[p] THEN "none" ELSE r[a]
    BY <1>3, <2>1, <2>3
  <2>6. \A x \in Players : v[x] = IF x = p THEN None ELSE q[x]
    BY <1>2, <2>1
  <2>7. \A x \in Players : x # p => j[x] = k[x]
    BY <2>1
  <2> HIDE DEF gone
  <2>8. CrewSound(n, s, v, j)
    BY <2>2, <2>4, <2>5, <2>6, <2>7, PlaceGone
  <2> QED BY <1>1, <2>1, <2>8
<1>5. CrewAfter(c)
  BY <1>0, <1>1, <1>4 DEF CrewAfter, Exists
<1> QED BY <1>2, <1>3, <1>5
-----------------------------------------------------------------------------
(* The commit of each operation                                            *)

\* Changes d leave crew c as a crew may be, with no new member or place.
Changed(d, c) ==
    /\ Names(d, c) /\ CrewAfter(c)
    /\ \A a \in Accounts : role'[c][a] # "none" => role[c][a] # "none"
    /\ \A p \in Players : place'[c][p] # None => place[c][p] # None

LEMMA LinksStay ==
    ASSUME CrewInv, NEW w \in Writes, Commit(w), NEW c, Names(tx[w].changes, c)
    PROVE  link' = link
<1>1. RowTypes
  BY DEF CrewInv
<1>2. \A x \in Players : link'[x] = link[x]
  BY <1>1, LinksShown DEF Names
<1> QED BY <1>1, <1>2, CommitTypes, LinksKept

LEMMA UpdateCommit ==
    ASSUME CrewInv, NEW w \in Writes, Commit(w), NEW d, d = tx[w].changes, NEW c \in Crews,
           NEW n \in Sizes, n >= Cardinality(Used(c)), Exists(c),
           Names(d, c), <<"delete", c>> \notin d, \A x : <<"size", c, x>> \in d <=> x = n,
           \A x, y : <<"role", c, x, y>> \notin d /\ <<"place", c, x, y>> \notin d
    PROVE  Changed(d, c)
<1>2. RowTypes /\ link' = link
  BY LinksStay DEF CrewInv
<1>3. role'[c] = role[c] /\ place'[c] = place[c]
  BY <1>2, NoRoles, NoPlaces
<1>6. size'[c] = n
  BY <1>2, SizeBecomes
<1>4. CrewSound(n, role[c], place[c], link)
  BY RowsOf DEF CrewSound, Used
<1>5. n > 0
  BY CrewConstants
<1> QED BY <1>2, <1>3, <1>4, <1>5, <1>6 DEF Changed, CrewAfter, Exists

LEMMA DeleteCommit ==
    ASSUME CrewInv, NEW w \in Writes, Commit(w), NEW d, d = tx[w].changes, NEW c \in Crews,
           Names(d, c), <<"delete", c>> \in d
    PROVE  Changed(d, c)
<1>2. RowTypes
  BY DEF CrewInv
<1>4. ASSUME NEW a \in Accounts
      PROVE  role'[c][a] = "none"
  <2>1. role'[c][a] = RoleAfter(d, c, a)
    BY RowsShown
  <2> QED BY <2>1 DEF RoleAfter
<1>5. ASSUME NEW p \in Players
      PROVE  place'[c][p] = None
  <2>1. place'[c][p] = PlaceAfter(d, c, p)
    BY RowsShown
  <2> QED BY <2>1 DEF PlaceAfter
<1>3. size'[c] = Deleted /\ invites'[c] = {}
  BY <1>2, SizesShown
<1> QED BY <1>3, <1>4, <1>5 DEF Changed, CrewAfter, Exists, NoCrew, Deleted

LEMMA RemoveCommit ==
    ASSUME CrewInv, NEW w \in Writes, Commit(w), NEW d, d = tx[w].changes, NEW c \in Crews,
           NEW p \in Players, place[c][p] # None, NEW cs, cs = {c}, d = Leaves(cs, p)
    PROVE  Changed(d, c)
<1>1. Names(d, c) /\ <<"delete", c>> \notin d /\ (\A x : <<"size", c, x>> \notin d)
  BY LeavesAre DEF Names, Emptied
<1>2. link' = link
  BY <1>1, LinksStay
<1>3. c \in cs
  OBVIOUS
<1>4. /\ CrewAfter(c)
      /\ \A a \in Accounts : role'[c][a] # "none" => role[c][a] # "none"
      /\ \A x \in Players : place'[c][x] # None => place[c][x] # None
  BY <1>1, <1>2, <1>3, PlaceLeft
<1> QED BY <1>1, <1>4 DEF Changed

LEMMA RoleCommit ==
    ASSUME CrewInv, NEW w \in Writes, Commit(w), NEW d, d = tx[w].changes, NEW c \in Crews,
           NEW to \in Accounts, role[c][to] \in {"admin", "member"}, NEW x \in {"admin", "member"},
           Names(d, c), <<"delete", c>> \notin d, \A y : <<"size", c, y>> \notin d,
           \A q, a : <<"place", c, q, a>> \notin d,
           \A a, r : <<"role", c, a, r>> \in d <=> a = to /\ r = x
    PROVE  Changed(d, c)
<1>2. RowTypes /\ link' = link /\ x \in Roles
  BY LinksStay DEF CrewInv, Roles
<1>3. size'[c] = size[c] /\ place'[c] = place[c]
  <2>1. size'[c] = size[c]
    BY <1>2, SizesShown
  <2> QED BY <1>2, <2>1, NoPlaces
<1>4. ASSUME NEW a \in Accounts
      PROVE  role'[c][a] = IF a = to THEN x ELSE role[c][a]
  <2>1. CASE a = to
    BY <1>2, <2>1, RoleStays, RoleBecomes
  <2>2. CASE a # to
    BY <1>2, <2>2, RoleStays, RoleBecomes
  <2> QED BY <2>1, <2>2
<1>5. Exists(c) /\ role[c] \in RolesOf /\ place[c] \in PlacesOf
      /\ CrewSound(size[c], role[c], place[c], link)
  BY RowsOf
<1>6. CrewSound(size[c], role'[c], place[c], link)
  <2>1. PICK n, r, q, k, s : n = size[c] /\ r = role[c] /\ q = place[c] /\ k = link /\ s = role'[c]
    OBVIOUS
  <2>2. n \in Int /\ r \in RolesOf /\ q \in PlacesOf /\ r[to] \in {"admin", "member"}
        /\ CrewSound(n, r, q, k) /\ \A a \in Accounts : s[a] = IF a = to THEN x ELSE r[a]
    BY <1>4, <1>5, <2>1, RowsOf
  <2>3. CrewSound(n, s, q, k)
    BY <2>2, RoleGiven
  <2> QED BY <2>1, <2>3
<1> QED BY <1>2, <1>3, <1>4, <1>5, <1>6 DEF Changed, CrewAfter, Exists

LEMMA HandOverCommit ==
    ASSUME CrewInv, NEW w \in Writes, Commit(w), NEW d, d = tx[w].changes, NEW c \in Crews,
           NEW to \in Accounts, role[c][to] \in {"admin", "member"},
           NEW by \in Accounts, role[c][by] = "owner", NEW x,
           x = IF Places(c, by) = {} THEN "none" ELSE "admin",
           Names(d, c), <<"delete", c>> \notin d, \A y : <<"size", c, y>> \notin d,
           \A q, a : <<"place", c, q, a>> \notin d,
           NEW owner, owner = "owner",
           \A a, r : <<"role", c, a, r>> \in d <=> (a = to /\ r = owner) \/ (a = by /\ r = x)
    PROVE  Changed(d, c)
<1>2. RowTypes /\ link' = link /\ x \in Roles /\ owner \in Roles /\ to # by
  BY LinksStay DEF CrewInv, Roles
<1>3. size'[c] = size[c] /\ place'[c] = place[c]
  <2>1. size'[c] = size[c]
    BY <1>2, SizesShown
  <2> QED BY <1>2, <2>1, NoPlaces
<1>4. ASSUME NEW a \in Accounts
      PROVE  role'[c][a] = IF a = to THEN owner ELSE IF a = by THEN x ELSE role[c][a]
  <2>1. CASE a = to
    BY <1>2, <2>1, RoleStays, RoleBecomes
  <2>2. CASE a = by
    BY <1>2, <2>2, RoleStays, RoleBecomes
  <2>3. CASE a # to /\ a # by
    BY <1>2, <2>3, RoleStays, RoleBecomes
  <2> QED BY <1>2, <2>1, <2>2, <2>3
<1>5. Exists(c) /\ role[c] \in RolesOf /\ place[c] \in PlacesOf
      /\ CrewSound(size[c], role[c], place[c], link)
  BY RowsOf
<1>6. CrewSound(size[c], role'[c], place[c], link)
  <2>1. PICK n, r, q, k, s : n = size[c] /\ r = role[c] /\ q = place[c] /\ k = link /\ s = role'[c]
    OBVIOUS
  <2>2. x = IF {p \in Players : q[p] = by} = {} THEN "none" ELSE "admin"
    BY <2>1 DEF Places
  <2>3. n \in Int /\ r \in RolesOf /\ q \in PlacesOf /\ r[to] \in {"admin", "member"}
        /\ r[by] = "owner" /\ CrewSound(n, r, q, k)
        /\ \A a \in Accounts : s[a] = IF a = to THEN "owner" ELSE IF a = by THEN x ELSE r[a]
    BY <1>4, <1>5, <2>1, RowsOf
  <2>4. CrewSound(n, s, q, k)
    BY <2>2, <2>3, HandedOver
  <2> QED BY <2>1, <2>4
<1> QED BY <1>2, <1>3, <1>4, <1>5, <1>6 DEF Changed, CrewAfter, Exists

LEMMA LeaveCommit ==
    ASSUME CrewInv, NEW w \in Writes, Commit(w), NEW d, d = tx[w].changes, NEW c \in Crews,
           NEW by \in Accounts, role[c][by] \in {"admin", "member"},
           Names(d, c), <<"delete", c>> \notin d, \A y : <<"size", c, y>> \notin d,
           \A q, a : <<"place", c, q, a>> \in d <=> q \in Places(c, by) /\ a = None,
           NEW none, none = "none", \A a, r : <<"role", c, a, r>> \in d <=> a = by /\ r = none
    PROVE  Changed(d, c)
<1>2. RowTypes /\ link' = link /\ none \in Roles
  BY LinksStay DEF CrewInv, Roles
<1>3. size'[c] = size[c]
  BY <1>2, SizesShown
<1>4. ASSUME NEW a \in Accounts
      PROVE  role'[c][a] = IF a = by THEN none ELSE role[c][a]
  <2>1. CASE a = by
    BY <1>2, <2>1, RoleStays, RoleBecomes
  <2>2. CASE a # by
    BY <1>2, <2>2, RoleStays, RoleBecomes
  <2> QED BY <2>1, <2>2
<1>5. ASSUME NEW p \in Players
      PROVE  place'[c][p] = IF place[c][p] = by THEN None ELSE place[c][p]
  <2>1. p \in Places(c, by) <=> place[c][p] = by
    BY DEF Places
  <2>2. CASE place[c][p] = by
    BY <1>2, <2>1, <2>2, PlaceStays, PlaceBecomes
  <2>3. CASE place[c][p] # by
    BY <1>2, <2>1, <2>3, PlaceStays, PlaceBecomes
  <2> QED BY <2>2, <2>3
<1>6. Exists(c) /\ role[c] \in RolesOf /\ place[c] \in PlacesOf /\ size[c] \in Int
      /\ CrewSound(size[c], role[c], place[c], link)
  BY RowsOf
<1>7. CrewSound(size[c], role'[c], place'[c], link)
  <2>1. PICK n, r, q, k, s, v : /\ n = size[c] /\ r = role[c] /\ q = place[c] /\ k = link
                                /\ s = role'[c] /\ v = place'[c]
    OBVIOUS
  <2>2. CrewSound(n, s, v, k)
    BY <1>4, <1>5, <1>6, <2>1, MemberLeft
  <2> QED BY <2>1, <2>2
<1> QED BY <1>2, <1>3, <1>4, <1>5, <1>6, <1>7 DEF Changed, CrewAfter, Exists

LEMMA InviteCommit ==
    ASSUME CrewInv, NEW w \in Writes, Commit(w), NEW d, d = tx[w].changes, NEW c \in Crews,
           Names(d, c), <<"delete", c>> \notin d, \A x : <<"size", c, x>> \notin d,
           \A x, y : <<"role", c, x, y>> \notin d /\ <<"place", c, x, y>> \notin d,
           Exists(c) \/ \A x : <<"invite", c, x>> \notin d
    PROVE  Changed(d, c)
<1>2. RowTypes /\ link' = link
  BY LinksStay DEF CrewInv
<1>3. size'[c] = size[c] /\ role'[c] = role[c] /\ place'[c] = place[c]
  <2>1. size'[c] = size[c]
    BY <1>2, SizesShown
  <2> QED BY <1>2, <2>1, NoRoles, NoPlaces
<1>4. ~Exists(c) => invites'[c] \subseteq invites[c]
  <2>1. invites'[c] = InvitesAfter(d, c)
    BY RowsShown
  <2> QED BY <2>1 DEF InvitesAfter
<1>5. /\ Exists(c) => CrewSound(size[c], role[c], place[c], link)
      /\ ~Exists(c) => NoCrew(role[c], place[c], invites[c])
  BY RowsOf
<1> QED BY <1>2, <1>3, <1>4, <1>5 DEF Changed, CrewAfter, Exists, NoCrew

\* The forms a set of changes takes.
LEMMA SizeChange ==
    ASSUME NEW c, NEW n, NEW d, d = {<<"size", c, n>>}
    PROVE  /\ Names(d, c) /\ <<"delete", c>> \notin d /\ \A x : <<"size", c, x>> \in d <=> x = n
           /\ \A x, y : <<"role", c, x, y>> \notin d /\ <<"place", c, x, y>> \notin d
  BY DEF Names

LEMMA DeleteChange ==
    ASSUME NEW c, NEW d, d = {<<"delete", c>>}
    PROVE  Names(d, c) /\ <<"delete", c>> \in d
  BY DEF Names

LEMMA InviteChange ==
    ASSUME NEW c, NEW a, NEW d, d = {<<"invite", c, a>>} \/ d = {<<"revoke", c, a>>}
    PROVE  /\ Names(d, c) /\ <<"delete", c>> \notin d /\ \A x : <<"size", c, x>> \notin d
           /\ \A x, y : <<"role", c, x, y>> \notin d /\ <<"place", c, x, y>> \notin d
           /\ d = {<<"revoke", c, a>>} => \A x : <<"invite", c, x>> \notin d
  BY DEF Names

\* A member's write: the crew's rows change, and nothing else.
LEMMA MemberCommit ==
    ASSUME CrewInv, NEW w \in Writes, Commit(w), tx[w].op \in MemberOps
    PROVE  Frame(w) /\ \A e \in Crews : CrewAfter(e)
<1>1. PICK c, by, to, n, d : /\ c = tx[w].crew /\ by = tx[w].by /\ to = tx[w].to
                             /\ n = tx[w].n /\ d = tx[w].changes
  OBVIOUS
<1>2. /\ MemberReady(w) /\ c \in Crews /\ by \in Accounts /\ tx[w].op \notin LinkOps
      /\ tx[w].op = "update_crew" => n \in Sizes
  BY <1>1 DEF CrewInv, TxTypes, Asked, Idle, Ready, Commit, MemberOps, JoinOps, LinkOps
<1>3. Owns(w, c)
  BY <1>1, <1>2 DEF Owns, MemberReady
<1>4. role[c][by] # "none" => Exists(c)
  BY <1>2, RowsOf
<1>5. SUFFICES Changed(d, c)
  BY <1>1, <1>2, <1>3, OneCrew DEF Changed
<1>6. CASE /\ role[c][by] \in {"owner", "admin"} /\ n \in Sizes
           /\ n >= Cardinality(Used(c)) /\ d = {<<"size", c, n>>}
  <2>1. Exists(c)
    BY <1>1, <1>4, <1>6
  <2>2. /\ Names(d, c) /\ <<"delete", c>> \notin d /\ \A x : <<"size", c, x>> \in d <=> x = n
        /\ \A x, y : <<"role", c, x, y>> \notin d /\ <<"place", c, x, y>> \notin d
    BY <1>6, SizeChange
  <2> QED BY <1>1, <1>2, <1>6, <2>1, <2>2, UpdateCommit
<1>7. CASE d = {<<"delete", c>>}
  <2>1. Names(d, c) /\ <<"delete", c>> \in d
    BY <1>7, DeleteChange
  <2> QED BY <1>1, <1>2, <2>1, DeleteCommit
<1>8. ASSUME NEW p \in Players, place[c][p] # None, d = Leaves({c}, p)
      PROVE  Changed(d, c)
  BY <1>1, <1>2, <1>8, RemoveCommit
<1>9. ASSUME to \in Accounts, role[c][to] \in {"admin", "member"},
             NEW r \in {"admin", "member"}, d = {<<"role", c, to, r>>}
      PROVE  Changed(d, c)
  <2>1. d = {<<"role", c, to, r>>, <<"role", c, to, r>>}
    BY <1>9
  <2>2. /\ Names(d, c) /\ <<"delete", c>> \notin d /\ \A x : <<"size", c, x>> \notin d
        /\ \A x, y : <<"place", c, x, y>> \notin d
        /\ \A x, y : <<"role", c, x, y>> \in d <=> x = to /\ y = r
    BY <2>1 DEF Names
  <2>3. to \in Accounts /\ role[c][to] \in {"admin", "member"}
    BY <1>9
  <2> QED BY <1>1, <1>2, <2>2, <2>3, RoleCommit
<1>10. ASSUME role[c][by] = "owner", to \in Accounts, role[c][to] \in {"admin", "member"}, NEW x,
              x = IF Places(c, by) = {} THEN "none" ELSE "admin",
              d = {<<"role", c, to, "owner">>, <<"role", c, by, x>>}
       PROVE  Changed(d, c)
  <2>1. PICK owner : owner = "owner"
    OBVIOUS
  <2>2. /\ Names(d, c) /\ <<"delete", c>> \notin d /\ \A y : <<"size", c, y>> \notin d
        /\ \A q, y : <<"place", c, q, y>> \notin d
        /\ \A a, r : <<"role", c, a, r>> \in d <=> (a = to /\ r = owner) \/ (a = by /\ r = x)
    BY <1>10, <2>1 DEF Names
  <2>3. /\ role[c][by] = "owner" /\ to \in Accounts /\ role[c][to] \in {"admin", "member"}
        /\ x = IF Places(c, by) = {} THEN "none" ELSE "admin"
    BY <1>1, <1>10
  <2> QED BY <1>1, <1>2, <2>1, <2>2, <2>3, HandOverCommit
<1>11. ASSUME role[c][by] \in {"admin", "member"},
              d = {<<"role", c, by, "none">>} \cup {<<"place", c, p, None>> : p \in Places(c, by)}
       PROVE  Changed(d, c)
  <2>1. PICK none, gone : none = "none" /\ gone = Places(c, by)
    OBVIOUS
  <2>2. /\ Names(d, c) /\ <<"delete", c>> \notin d /\ \A y : <<"size", c, y>> \notin d
        /\ \A q, a : <<"place", c, q, a>> \in d <=> q \in gone /\ a = None
        /\ \A a, r : <<"role", c, a, r>> \in d <=> a = by /\ r = none
    <3>1. d = {<<"role", c, by, none>>} \cup {<<"place", c, p, None>> : p \in gone}
      BY <1>11, <2>1
    <3> QED BY <3>1 DEF Names
  <2>3. role[c][by] \in {"admin", "member"}
    BY <1>11
  <2> QED BY <1>1, <1>2, <2>1, <2>2, <2>3, LeaveCommit
<1>12. ASSUME NEW a, (d = {<<"invite", c, a>>} /\ Exists(c)) \/ d = {<<"revoke", c, a>>}
       PROVE  Changed(d, c)
  <2>1. /\ Names(d, c) /\ <<"delete", c>> \notin d /\ \A x : <<"size", c, x>> \notin d
        /\ \A x, y : <<"role", c, x, y>> \notin d /\ <<"place", c, x, y>> \notin d
        /\ Exists(c) \/ \A x : <<"invite", c, x>> \notin d
    BY <1>12, InviteChange
  <2> QED BY <1>1, <1>2, <2>1, InviteCommit
<1> QED BY <1>1, <1>2, <1>4, <1>6, <1>7, <1>8, <1>9, <1>10, <1>11, <1>12 DEF MemberReady, MayChange

\* Places are added for players whose links are shared; an account may enter.
LEMMA AddCommit ==
    ASSUME CrewInv, NEW w \in Writes, Commit(w), NEW d, d = tx[w].changes, NEW c \in Crews,
           c = tx[w].crew, NEW by \in Accounts, by = tx[w].by, Owns(w, c), Exists(c),
           NEW tags \in SUBSET Players, tags # {},
           \A p \in tags : <<"share", p>> \in locks[w] /\ link[p] = by /\ place[c][p] = None,
           Cardinality(tags) + Cardinality(Used(c)) <= size[c],
           Entering(w) <=> role[c][by] = "none",
           Names(d, c), <<"delete", c>> \notin d, \A x : <<"size", c, x>> \notin d,
           \A q, a : <<"place", c, q, a>> \in d <=> q \in tags /\ a = by,
           NEW new, new = "member",
           \A a, r : <<"role", c, a, r>> \in d <=> Entering(w) /\ a = by /\ r = new
    PROVE  Frame(w) /\ \A e \in Crews : CrewAfter(e)
<1>1. RowTypes /\ link' = link /\ new \in Roles
  BY LinksStay DEF CrewInv, Roles
<1>2. size'[c] = size[c]
  BY <1>1, SizesShown
<1>3. ASSUME NEW a \in Accounts
      PROVE  role'[c][a] = IF a = by /\ role[c][by] = "none" THEN new ELSE role[c][a]
  <2>1. CASE a = by /\ role[c][by] = "none"
    BY <1>1, <2>1, RoleBecomes
  <2>2. CASE ~(a = by /\ role[c][by] = "none")
    BY <1>1, <2>2, RoleStays
  <2> QED BY <2>1, <2>2
<1>4. ASSUME NEW p \in Players
      PROVE  place'[c][p] = IF p \in tags THEN by ELSE place[c][p]
  <2>1. CASE p \in tags
    BY <1>1, <2>1, PlaceBecomes
  <2>2. CASE p \notin tags
    BY <1>1, <2>2, PlaceStays
  <2> QED BY <2>1, <2>2
<1>5. CrewSound(size[c], role'[c], place'[c], link)
  <2>1. PICK n, r, q, k, s, v : /\ n = size[c] /\ r = role[c] /\ q = place[c] /\ k = link
                                /\ s = role'[c] /\ v = place'[c]
    OBVIOUS
  <2>2. n \in Int /\ r \in RolesOf /\ q \in PlacesOf /\ CrewSound(n, r, q, k)
    BY <2>1, RowsOf
  <2>3. \A p \in tags : q[p] = None /\ k[p] = by
    BY <2>1
  <2>4. Cardinality(tags) + Cardinality(Taken(q)) <= n
    BY <2>1 DEF Used, Taken
  <2>5. Added(v, q, tags, by)
    BY <1>4, <2>1 DEF Added
  <2>6. \A a \in Accounts : s[a] = IF a = by /\ r[by] = "none" THEN "member" ELSE r[a]
    BY <1>3, <2>1
  <2>7. CrewSound(n, s, v, k)
    BY <2>2, <2>3, <2>4, <2>5, <2>6, PlacesAdded
  <2> QED BY <2>1, <2>7
<1>6. CrewAfter(c)
  BY <1>1, <1>2, <1>5 DEF CrewAfter, Exists
<1>7. /\ \A a \in Accounts : role'[c][a] # "none" =>
            role[c][a] # "none" \/ (Entering(w) /\ a = tx[w].by)
      /\ \A p \in Players : place'[c][p] # None =>
            place[c][p] # None \/ <<"share", p>> \in locks[w]
  BY <1>3, <1>4
<1> QED BY <1>6, <1>7, OneCrew

LEMMA CreateCommit ==
    ASSUME CrewInv, NEW w \in Writes, Commit(w), NEW d, d = tx[w].changes, NEW c \in Crews,
           c = tx[w].crew, NEW by \in Accounts, by = tx[w].by, Owns(w, c), ~Exists(c),
           NEW tags \in SUBSET Players, NEW n \in Sizes, Cardinality(tags) <= n,
           \A p \in tags : <<"share", p>> \in locks[w] /\ link[p] = by,
           Entering(w), Names(d, c), <<"delete", c>> \notin d,
           \A x : <<"size", c, x>> \in d <=> x = n,
           \A q, a : <<"place", c, q, a>> \in d <=> q \in tags /\ a = by,
           NEW new, new = "owner",
           \A a, r : <<"role", c, a, r>> \in d <=> a = by /\ r = new
    PROVE  Frame(w) /\ \A e \in Crews : CrewAfter(e)
<1>1. RowTypes /\ link' = link /\ new \in Roles /\ NoCrew(role[c], place[c], invites[c])
  BY LinksStay, RowsOf DEF CrewInv, Roles
<1>2. size'[c] = n
  BY <1>1, SizeBecomes
<1>3. ASSUME NEW a \in Accounts
      PROVE  role'[c][a] = IF a = by THEN new ELSE "none"
  <2>1. CASE a = by
    BY <1>1, <2>1, RoleBecomes
  <2>2. CASE a # by
    <3>1. role'[c][a] = role[c][a]
      BY <1>1, <2>2, RoleStays
    <3> QED BY <1>1, <2>2, <3>1 DEF NoCrew
  <2> QED BY <2>1, <2>2
<1>4. ASSUME NEW p \in Players
      PROVE  place'[c][p] = IF p \in tags THEN by ELSE None
  <2>1. CASE p \in tags
    BY <1>1, <2>1, PlaceBecomes
  <2>2. CASE p \notin tags
    <3>1. place'[c][p] = place[c][p]
      BY <1>1, <2>2, PlaceStays
    <3> QED BY <1>1, <2>2, <3>1 DEF NoCrew
  <2> QED BY <2>1, <2>2
<1>5. n \in Int /\ n > 0
  BY CrewConstants
<1>6. CrewSound(n, role'[c], place'[c], link)
  <2>1. PICK k, s, v : k = link /\ s = role'[c] /\ v = place'[c]
    OBVIOUS
  <2>2. CrewSound(n, s, v, k)
    <3>1. Placed(v, tags, by)
      BY <1>4, <2>1 DEF Placed
    <3>2. \A a \in Accounts : s[a] = IF a = by THEN "owner" ELSE "none"
      BY <1>3, <2>1
    <3>3. \A p \in tags : k[p] = by
      BY <2>1
    <3> QED BY <1>5, <3>1, <3>2, <3>3, CrewCreated
  <2> QED BY <2>1, <2>2
<1>7. CrewAfter(c)
  BY <1>1, <1>2, <1>5, <1>6 DEF CrewAfter, Exists
<1>8. /\ \A a \in Accounts : role'[c][a] # "none" =>
            role[c][a] # "none" \/ (Entering(w) /\ a = tx[w].by)
      /\ \A p \in Players : place'[c][p] # None =>
            place[c][p] # None \/ <<"share", p>> \in locks[w]
  BY <1>3, <1>4
<1> QED BY <1>7, <1>8, OneCrew

LEMMA JoinCommit ==
    ASSUME CrewInv, NEW w \in Writes, Commit(w), tx[w].op \in JoinOps
    PROVE  Frame(w) /\ \A e \in Crews : CrewAfter(e)
<1>1. PICK c, by, tags, n, d : /\ c = tx[w].crew /\ by = tx[w].by /\ tags = tx[w].tags
                               /\ n = tx[w].n /\ d = tx[w].changes
  OBVIOUS
<1>2. /\ PlacesReady(w) /\ tx[w].left = {} /\ c \in Crews /\ by \in Accounts
      /\ tags \in SUBSET Players /\ tags # {} /\ tx[w].op \notin LinkOps
      /\ tx[w].op = "create_crew" => n \in Sizes
  BY <1>1 DEF CrewInv, TxTypes, Asked, Idle, Ready, Commit, MemberOps, JoinOps, LinkOps
<1>3. /\ \A p \in tags : <<"share", p>> \in locks[w] /\ link[p] = by /\ place[c][p] = None
      /\ IF tx[w].op = "create_crew" THEN Cardinality(tags) <= n
         ELSE Cardinality(tags) + Cardinality(Used(c)) <= size[c]
      /\ d = Joined(w) /\ JoinHeld(w)
  BY <1>1, <1>2 DEF PlacesReady, JoinReady
<1>4. Owns(w, c)
  BY <1>1, <1>2, <1>3 DEF Owns, JoinHeld
<1>5. CASE tx[w].op = "create_crew"
  <2>1. ~Exists(c)
    BY <1>1, <1>5 DEF CrewInv, Fresh, Exists
  <2>2. Entering(w)
    BY <1>1, <1>2, <1>5, <2>1, RowsOf DEF Entering, MyRole
  <2>3. PICK new : new = "owner"
    OBVIOUS
  <2>4. /\ Names(d, c) /\ <<"delete", c>> \notin d
        /\ \A x : <<"size", c, x>> \in d <=> x = n
        /\ \A q, a : <<"place", c, q, a>> \in d <=> q \in tags /\ a = by
        /\ \A a, r : <<"role", c, a, r>> \in d <=> a = by /\ r = new
    <3>1. d = {<<"place", c, p, by>> : p \in tags} \cup {<<"size", c, n>>, <<"role", c, by, new>>}
      BY <1>1, <1>3, <1>5, <2>3 DEF Joined
    <3> QED BY <3>1 DEF Names
  <2>5. /\ c = tx[w].crew /\ by = tx[w].by /\ d = tx[w].changes /\ c \in Crews
        /\ by \in Accounts /\ tags \in SUBSET Players /\ n \in Sizes /\ Cardinality(tags) <= n
        /\ \A p \in tags : <<"share", p>> \in locks[w] /\ link[p] = by
    BY <1>1, <1>2, <1>3, <1>5
  <2> QED BY <1>4, <2>1, <2>2, <2>3, <2>4, <2>5, CreateCommit
<1>6. CASE tx[w].op # "create_crew"
  <2>1. Exists(c) /\ (Entering(w) <=> role[c][by] = "none")
    <3>1. tx[w].op \in {"add_players", "accept_invite"}
      BY <1>6 DEF JoinOps
    <3>2. MyRole(w) = role[c][by]
      BY <1>1 DEF MyRole
    <3>3. role[c][by] # "none" \/ invites[c] # {}
      BY <1>1, <1>3, <3>1, <3>2 DEF JoinHeld
    <3>4. tx[w].op = "add_players" => role[c][by] # "none"
      BY <1>3, <3>2 DEF JoinHeld
    <3> QED BY <1>2, <3>1, <3>2, <3>3, <3>4, RowsOf DEF Entering
  <2>2. PICK new : new = "member"
    OBVIOUS
  <2>3. /\ Names(d, c) /\ <<"delete", c>> \notin d /\ \A x : <<"size", c, x>> \notin d
        /\ \A q, a : <<"place", c, q, a>> \in d <=> q \in tags /\ a = by
        /\ \A a, r : <<"role", c, a, r>> \in d <=> Entering(w) /\ a = by /\ r = new
    <3>1. d = {<<"place", c, p, by>> : p \in tags}
              \cup (IF Entering(w) THEN {<<"role", c, by, new>>} ELSE {})
      BY <1>1, <1>3, <1>6, <2>2 DEF Joined
    <3> QED BY <3>1 DEF Names
  <2>4. /\ c = tx[w].crew /\ by = tx[w].by /\ d = tx[w].changes /\ c \in Crews
        /\ by \in Accounts /\ tags \in SUBSET Players /\ tags # {}
        /\ Cardinality(tags) + Cardinality(Used(c)) <= size[c]
        /\ \A p \in tags : <<"share", p>> \in locks[w] /\ link[p] = by /\ place[c][p] = None
    BY <1>1, <1>2, <1>3, <1>6
  <2> QED BY <1>4, <2>1, <2>2, <2>3, <2>4, AddCommit
<1> QED BY <1>5, <1>6

\* A link goes or moves, and the player's places with it.
LEMMA LinkCommit ==
    ASSUME CrewInv, NEW w \in Writes, Commit(w), tx[w].op \in LinkOps
    PROVE  Frame(w) /\ \A e \in Crews : CrewAfter(e)
<1>1. PICK p \in Players : tx[w].tags = {p}
  BY DEF CrewInv, TxTypes, Asked, Idle, Commit, MemberOps, JoinOps, LinkOps
<1>2. PICK to, d, cs : to = tx[w].to /\ d = tx[w].changes /\ cs = InCrews(p)
  OBVIOUS
<1>3. /\ to \in Accounts \cup {None} /\ <<"link", p>> \in locks[w]
      /\ \A c \in Crews : c \in cs <=> place[c][p] # None
      /\ \A c \in cs : <<"crew", c>> \in locks[w]
      /\ d = Leaves(cs, p) \cup {<<"link", p, to>>}
  <2>1. LinkReady(w) /\ to \in Accounts \cup {None}
    BY <1>2 DEF CrewInv, TxTypes, Asked, Idle, Ready, Commit, MemberOps, JoinOps, LinkOps
  <2> QED BY <1>1, <1>2, <2>1 DEF LinkReady, LinkHeld, InCrews
<1>4. /\ \A c : <<"delete", c>> \notin d
      /\ \A c, x : <<"size", c, x>> \notin d /\ <<"invite", c, x>> \notin d /\ <<"revoke", c, x>> \notin d
      /\ \A c, q, a : <<"place", c, q, a>> \in d <=> <<"place", c, q, a>> \in Leaves(cs, p)
      /\ \A c, a, r : <<"role", c, a, r>> \in d <=> <<"role", c, a, r>> \in Leaves(cs, p)
      /\ \A q, a : <<"link", q, a>> \in d <=> q = p /\ a = to
  BY <1>3, LeavesAre
<1>5. RowTypes
  BY DEF CrewInv
<1>6. \A q \in Players : q # p => link'[q] = link[q]
  BY <1>2, <1>4, <1>5, LinksShown
<1>7. ASSUME NEW c \in Crews, c \in cs
      PROVE  /\ CrewAfter(c) /\ Owns(w, c)
             /\ \A a \in Accounts : role'[c][a] # "none" => role[c][a] # "none"
             /\ \A x \in Players : place'[c][x] # None => place[c][x] # None
  <2>1. place[c][p] # None /\ Exists(c) /\ <<"crew", c>> \in locks[w]
    BY <1>3, <1>7, RowsOf
  <2>2. Owns(w, c)
    BY <2>1 DEF Owns
  <2>3. /\ <<"delete", c>> \notin d /\ \A x : <<"size", c, x>> \notin d
        /\ \A q, a : <<"place", c, q, a>> \in d <=> <<"place", c, q, a>> \in Leaves(cs, p)
        /\ \A a, r : <<"role", c, a, r>> \in d <=> <<"role", c, a, r>> \in Leaves(cs, p)
    BY <1>4
  <2> QED BY <1>2, <1>6, <1>7, <2>1, <2>2, <2>3, PlaceLeft
<1>8. ASSUME NEW c \in Crews, c \notin cs
      PROVE  Same(c)
  <2>1. /\ \A x, y : <<"role", c, x, y>> \notin d /\ <<"place", c, x, y>> \notin d
    BY <1>4, <1>8, LeavesAre DEF Emptied
  <2> QED BY <1>2, <1>4, <1>5, <2>1, CrewKept
<1>9. ASSUME NEW c \in Crews, c \notin cs
      PROVE  CrewAfter(c)
  <2>1. Same(c) /\ place[c][p] = None
    BY <1>3, <1>8, <1>9
  <2>2. CASE Exists(c)
    <3>1. PICK n, r, q, k, j : n = size[c] /\ r = role[c] /\ q = place[c] /\ k = link /\ j = link'
      OBVIOUS
    <3>2. CrewSound(n, r, q, k)
      BY <2>2, <3>1, RowsOf
    <3>3. \A x \in Players : q[x] # None => j[x] = k[x]
      BY <1>6, <2>1, <3>1
    <3>4. CrewSound(n, r, q, j)
      BY <3>2, <3>3, LinkMoved
    <3> QED BY <2>1, <2>2, <3>1, <3>4 DEF CrewAfter, Same, Exists
  <2>3. CASE ~Exists(c)
    BY <2>1, <2>3, RowsOf DEF CrewAfter, Same, Exists
  <2> QED BY <2>2, <2>3
<1>10. Frame(w)
  BY <1>3, <1>6, <1>7, <1>8 DEF Frame, Same
<1> QED BY <1>7, <1>9, <1>10

LEMMA CommitEffect ==
    ASSUME CrewInv, NEW w \in Writes, Commit(w)
    PROVE  Frame(w) /\ \A e \in Crews : CrewAfter(e)
<1>1. tx[w].op \in MemberOps \/ tx[w].op \in JoinOps \/ tx[w].op \in LinkOps
  BY DEF CrewInv, TxTypes, Asked, Idle, Commit
<1> QED BY <1>1, MemberCommit, JoinCommit, LinkCommit

\* A write that is about to let its account into a crew.
LEMMA Enters ==
    ASSUME CrewInv, NEW w \in Writes, Commit(w), Entering(w)
    PROVE  /\ tx[w].by \in Accounts /\ <<"account", tx[w].by>> \in locks[w]
           /\ Cardinality(CrewsOf(tx[w].by)) < CrewLimit
<1>1. tx[w].op \in JoinOps
  BY DEF Entering, JoinOps
<1>2. PlacesReady(w) /\ tx[w].by \in Accounts
  BY <1>1 DEF CrewInv, TxTypes, Asked, Idle, Ready, Commit, MemberOps, JoinOps, LinkOps
<1> QED BY <1>2 DEF PlacesReady, JoinReady

LEMMA CommitKeepsCrews ==
    ASSUME CrewInv, NEW w \in Writes, Commit(w)
    PROVE  RowTypes' /\ NoRows' /\ CrewsHold'
<1>1. RowTypes /\ RowTypes' /\ Frame(w) /\ \A e \in Crews : CrewAfter(e)
  BY CommitTypes, CommitEffect DEF CrewInv
<1>2. NoRows' /\ \A c \in Crews : Exists(c)' => CrewSound(size'[c], role'[c], place'[c], link')
  BY <1>1 DEF CrewAfter, NoRows
<1>3. ASSUME NEW a \in Accounts
      PROVE  Cardinality(CrewsOf(a)') <= CrewLimit
  <2>1. /\ IsFiniteSet(CrewsOf(a)) /\ Cardinality(CrewsOf(a)) \in Nat /\ IsFiniteSet(CrewsOf(a)')
        /\ Cardinality(CrewsOf(a)') \in Nat
    BY CrewConstants, FS_Subset, FS_CardinalityType DEF CrewsOf
  <2>2. Cardinality(CrewsOf(a)) <= CrewLimit /\ CrewLimit \in Nat
    BY CrewConstants DEF CrewInv, CrewsHold
  <2>3. CASE Entering(w) /\ a = tx[w].by
    <3>1. PICK c : c = tx[w].crew
      OBVIOUS
    <3>2. CrewsOf(a)' \subseteq CrewsOf(a) \cup {c}
      BY <1>1, <3>1 DEF Frame, CrewsOf
    <3>3. IsFiniteSet(CrewsOf(a) \cup {c})
          /\ Cardinality(CrewsOf(a) \cup {c}) <= Cardinality(CrewsOf(a)) + 1
      <4>1. PICK S : S = CrewsOf(a)
        OBVIOUS
      <4>2. IsFiniteSet(S \cup {c})
            /\ Cardinality(S \cup {c}) = IF c \in S THEN Cardinality(S) ELSE Cardinality(S) + 1
        BY <2>1, <4>1, FS_AddElement
      <4> QED BY <2>1, <4>1, <4>2
    <3>4. Cardinality(CrewsOf(a) \cup {c}) \in Nat
          /\ Cardinality(CrewsOf(a)') <= Cardinality(CrewsOf(a) \cup {c})
      BY <3>2, <3>3, FS_Subset, FS_CardinalityType
    <3>5. Cardinality(CrewsOf(a)) < CrewLimit
      BY <2>3, Enters
    <3> QED BY <2>1, <2>2, <3>3, <3>4, <3>5
  <2>4. CASE ~(Entering(w) /\ a = tx[w].by)
    <3>1. CrewsOf(a)' \subseteq CrewsOf(a)
      BY <1>1, <2>4 DEF Frame, CrewsOf
    <3>2. Cardinality(CrewsOf(a)') <= Cardinality(CrewsOf(a))
      BY <2>1, <3>1, FS_Subset
    <3> QED BY <2>1, <2>2, <3>2
  <2> QED BY <2>3, <2>4
<1> QED BY <1>1, <1>2, <1>3 DEF CrewsHold
-----------------------------------------------------------------------------
(* What a write has found stays true until it commits                      *)

\* What the locks of a write keep still: the crews it owns, the links it
\* shares or has locked, the crews of a player whose link it has locked, and
\* the crews of an account it has locked.
Calm(v) ==
    /\ tx'[v] = tx[v] /\ locks'[v] = locks[v]
    /\ \A c \in Crews : Owns(v, c) => Same(c)
    /\ \A p \in Players : link[p] # None /\ locks[v] \cap {<<"share", p>>, <<"link", p>>} # {}
          => link'[p] = link[p]
    /\ \A p \in Players : <<"link", p>> \in locks[v] => InCrews(p)' \subseteq InCrews(p)
    /\ tx[v].by \in Accounts /\ <<"account", tx[v].by>> \in locks[v]
          => CrewsOf(tx[v].by)' \subseteq CrewsOf(tx[v].by)

LEMMA LeavesSame ==
    ASSUME NEW cs, NEW p, \A c \in cs : Same(c)
    PROVE  Leaves(cs, p)' = Leaves(cs, p)
<1>1. Emptied(cs, p)' = Emptied(cs, p)
  BY DEF Emptied, Same, Places
<1>2. \A c \in cs : place'[c][p] = place[c][p]
  BY DEF Same
<1>3. Emptied(cs, p) \subseteq cs
  BY DEF Emptied
<1> QED BY <1>1, <1>2, <1>3 DEF Leaves

LEMMA SameReads ==
    ASSUME NEW c \in Crews, Same(c)
    PROVE  /\ Used(c)' = Used(c) /\ Exists(c)' = Exists(c)
           /\ \A a : Places(c, a)' = Places(c, a)
           /\ \A a, p : MayRemove(c, a, p)' = MayRemove(c, a, p)
<1>1. Used(c)' = Used(c) /\ Exists(c)' = Exists(c)
  BY DEF Same, Used, Exists
<1>2. \A a : Places(c, a)' = Places(c, a)
  BY DEF Same, Places
<1>3. \A a, p : MayRemove(c, a, p)' = MayRemove(c, a, p)
  BY <1>2 DEF Same, MayRemove
<1> QED BY <1>1, <1>2, <1>3

LEMMA MaySame ==
    ASSUME NEW t, NEW d, t.crew \in Crews, Same(t.crew), MayChange(t, d)
    PROVE  MayChange(t, d)'
<1>1. /\ Used(t.crew)' = Used(t.crew) /\ \A a : Places(t.crew, a)' = Places(t.crew, a)
      /\ \A a, p : MayRemove(t.crew, a, p)' = MayRemove(t.crew, a, p)
      /\ \A p : Leaves({t.crew}, p)' = Leaves({t.crew}, p)
  BY SameReads, LeavesSame
<1>2. role'[t.crew] = role[t.crew] /\ place'[t.crew] = place[t.crew]
  BY DEF Same
<1> QED BY <1>1, <1>2 DEF MayChange

LEMMA MemberStays ==
    ASSUME NEW v \in Writes, MemberReady(v), tx'[v] = tx[v], locks'[v] = locks[v],
           tx[v].crew \in Crews, Same(tx[v].crew)
    PROVE  MemberReady(v)'
<1>1. PICK t, d : t = tx[v] /\ d = t.changes
  OBVIOUS
<1>2. MayChange(t, d)'
  BY <1>1, MaySame DEF MemberReady
<1> QED BY <1>1, <1>2 DEF MemberReady

LEMMA JoinStays ==
    ASSUME NEW v \in Writes, Calm(v), tx[v].crew \in Crews, Same(tx[v].crew), tx[v].by \in Accounts,
           RowTypes
    PROVE  /\ JoinHeld(v) => JoinHeld(v)'
           /\ JoinReady(v) => JoinReady(v)'
           /\ MyRole(v)' = MyRole(v)
           /\ PlacesReady(v) /\ tx[v].tags \subseteq Players => PlacesReady(v)'
<1>1. PICK c, by : c = tx[v].crew /\ by = tx[v].by
  OBVIOUS
<1>2. /\ Used(c)' = Used(c) /\ tx'[v] = tx[v] /\ locks'[v] = locks[v]
      /\ size'[c] = size[c] /\ role'[c] = role[c] /\ place'[c] = place[c] /\ invites'[c] = invites[c]
  BY <1>1, SameReads DEF Calm, Same
<1>3. MyRole(v)' = MyRole(v) /\ Entering(v)' = Entering(v)
  BY <1>1, <1>2 DEF MyRole, Entering
<1>4. /\ JoinHeld(v) => JoinHeld(v)'
      /\ JoinReady(v) => JoinReady(v)'
  BY <1>1, <1>2, <1>3 DEF JoinHeld, JoinReady
<1>5. Joined(v)' = Joined(v)
  BY <1>2, <1>3 DEF Joined
<1>6. ASSUME PlacesReady(v), tx[v].tags \subseteq Players
      PROVE  PlacesReady(v)'
  <2>1. JoinReady(v)' /\ tx'[v].changes = Joined(v)'
    BY <1>2, <1>4, <1>5, <1>6 DEF PlacesReady
  <2>2. \A p \in tx'[v].tags : place'[tx'[v].crew][p] = None
    BY <1>1, <1>2, <1>6 DEF PlacesReady
  <2>3. IF tx'[v].op = "create_crew" THEN Cardinality(tx'[v].tags) <= tx'[v].n
        ELSE Cardinality(tx'[v].tags) + Cardinality(Used(c)') <= size'[c]
    BY <1>1, <1>2, <1>6 DEF PlacesReady
  <2>4. Entering(v)' => Cardinality(CrewsOf(by)') < CrewLimit
    <3>1. ASSUME Entering(v)
          PROVE  Cardinality(CrewsOf(by)') < CrewLimit
      <4>1. CrewsOf(by)' \subseteq CrewsOf(by) /\ Cardinality(CrewsOf(by)) < CrewLimit
        BY <1>1, <1>6, <3>1 DEF PlacesReady, JoinReady, Calm
      <4>2. /\ IsFiniteSet(CrewsOf(by)) /\ Cardinality(CrewsOf(by)) \in Nat
            /\ Cardinality(CrewsOf(by)') \in Nat
        BY CrewConstants, FS_Subset, FS_CardinalityType DEF CrewsOf
      <4>3. Cardinality(CrewsOf(by)') <= Cardinality(CrewsOf(by))
        BY <4>1, <4>2, FS_Subset
      <4> QED BY <4>1, <4>2, <4>3, CrewConstants
    <3> QED BY <1>1, <1>2, <1>3, <3>1
  <2>5. \A p \in tx'[v].tags \ tx'[v].left : <<"share", p>> \in locks'[v] /\ link'[p] = tx'[v].by
    BY <1>2, <1>6, CrewConstants DEF PlacesReady, Calm
  <2>6. c = tx'[v].crew /\ by = tx'[v].by
    BY <1>1, <1>2
  <2> QED BY <2>1, <2>2, <2>3, <2>4, <2>5, <2>6 DEF PlacesReady
<1> QED BY <1>3, <1>4, <1>6

LEMMA LinkStays ==
    ASSUME CrewInv, NEW v \in Writes, Calm(v), tx[v].op \in LinkOps, tx[v].by \in Accounts,
           tx[v].tags \subseteq Players
    PROVE  /\ LinkHeld(v) => LinkHeld(v)'
           /\ LinkReady(v) => LinkReady(v)'
<1>1. tx'[v] = tx[v] /\ locks'[v] = locks[v]
  BY DEF Calm
<1>2. ASSUME LinkHeld(v)
      PROVE  LinkHeld(v)'
  <2>1. ASSUME NEW p \in tx[v].tags
        PROVE  /\ <<"link", p>> \in locks[v] /\ link'[p] = tx[v].by
               /\ \A c \in InCrews(p)' : c \in tx[v].left \/ <<"crew", c>> \in locks[v]
    <3>1. /\ p \in Players /\ <<"link", p>> \in locks[v] /\ link[p] = tx[v].by
          /\ \A c \in InCrews(p) : c \in tx[v].left \/ <<"crew", c>> \in locks[v]
      BY <1>2, <2>1 DEF LinkHeld
    <3>2. link'[p] = link[p]
      BY <3>1, CrewConstants DEF Calm
    <3>3. InCrews(p)' \subseteq InCrews(p)
      BY <3>1 DEF Calm
    <3> QED BY <3>1, <3>2, <3>3
  <2> QED BY <1>1, <2>1 DEF LinkHeld
<1>3. ASSUME LinkReady(v)
      PROVE  LinkReady(v)'
  <2>1. LinkHeld(v)' /\ tx'[v].left = {}
    BY <1>1, <1>2, <1>3 DEF LinkReady
  <2>2. ASSUME NEW p \in tx[v].tags
        PROVE  /\ OnlyPlaceOfOwner(p, tx[v].by)' => OnlyPlaceOfOwner(p, tx[v].by)
               /\ InCrews(p)' = InCrews(p) /\ Leaves(InCrews(p), p)' = Leaves(InCrews(p), p)
    <3>1. PICK by, cs : by = tx[v].by /\ cs = InCrews(p)
      OBVIOUS
    <3>2. ASSUME NEW c \in cs
          PROVE  Same(c) /\ c \in Crews
      <4>1. <<"crew", c>> \in locks[v] /\ c \in Crews /\ place[c][p] # None
        BY <1>3, <3>1 DEF LinkReady, LinkHeld, InCrews
      <4>2. Exists(c)
        BY <4>1, RowsOf
      <4> QED BY <4>1, <4>2 DEF Calm, Owns
    <3>3. InCrews(p)' = InCrews(p)
      <4>1. InCrews(p)' \subseteq InCrews(p)
        BY <1>3 DEF LinkReady, LinkHeld, Calm
      <4>2. InCrews(p) \subseteq InCrews(p)'
        BY <3>1, <3>2 DEF InCrews, Same
      <4> QED BY <4>1, <4>2
    <3>4. Leaves(cs, p)' = Leaves(cs, p)
      BY <3>2, LeavesSame
    <3>5. OnlyPlaceOfOwner(p, by)' => OnlyPlaceOfOwner(p, by)
      BY <3>1, <3>2, <3>3, SameReads DEF OnlyPlaceOfOwner, Same
    <3> QED BY <1>1, <3>1, <3>3, <3>4, <3>5
  <2> QED BY <1>1, <1>3, <2>1, <2>2 DEF LinkReady
<1> QED BY <1>2, <1>3

LEMMA ReadyStays ==
    ASSUME CrewInv, NEW v \in Writes, Calm(v)
    PROVE  Ready(v)'
<1>1. tx'[v] = tx[v] /\ locks'[v] = locks[v] /\ RowTypes /\ Ready(v) /\ Asked(tx[v])
  BY DEF Calm, CrewInv, TxTypes
<1>2. CASE tx[v] = Idle
  BY <1>1, <1>2 DEF Ready, Idle, MemberOps, JoinOps, LinkOps
<1>3. CASE tx[v].op \in MemberOps /\ tx[v] # Idle
  <2>1. tx[v].at \in {"crew", "commit"} /\ tx[v].crew \in Crews /\ tx[v].op \notin JoinOps \cup LinkOps
        /\ tx[v].op # "accept_invite"
    BY <1>1, <1>3 DEF Asked, MemberOps, JoinOps, LinkOps
  <2>2. ASSUME tx[v].at = "commit"
        PROVE  MemberReady(v)'
    <3>1. MemberReady(v)
      BY <1>1, <1>3, <2>2 DEF Ready
    <3>2. Same(tx[v].crew)
      BY <2>1, <3>1 DEF MemberReady, Owns, Calm
    <3> QED BY <1>1, <2>1, <3>1, <3>2, MemberStays
  <2> QED BY <1>1, <2>1, <2>2 DEF Ready
<1>4. CASE tx[v].op \in JoinOps
  <2>1. /\ tx[v].at \in {"crew", "account", "tags", "places", "commit"} /\ tx[v].crew \in Crews
        /\ tx[v].by \in Accounts /\ tx[v].tags \subseteq Players
        /\ tx[v].op \notin MemberOps /\ tx[v].op \notin LinkOps
    BY <1>1, <1>4 DEF Asked, Idle, MemberOps, JoinOps, LinkOps
  <2>2. CASE JoinHeld(v)
    <3>1. Same(tx[v].crew)
      BY <2>1, <2>2 DEF JoinHeld, Owns, Calm
    <3>2. /\ JoinHeld(v) => JoinHeld(v)'
          /\ JoinReady(v) => JoinReady(v)'
          /\ MyRole(v)' = MyRole(v)
          /\ PlacesReady(v) => PlacesReady(v)'
      BY <1>1, <2>1, <3>1, JoinStays
    <3> QED BY <1>1, <2>1, <3>2 DEF Ready
  <2>3. CASE ~JoinHeld(v)
    <3>1. ~JoinReady(v) /\ ~PlacesReady(v)
      BY <2>3 DEF JoinReady, PlacesReady
    <3> QED BY <1>1, <1>4, <2>1, <2>3, <3>1 DEF Ready
  <2> QED BY <2>2, <2>3
<1>5. CASE tx[v].op \in LinkOps
  <2>1. /\ tx[v].at \in {"link", "crews", "check", "commit"} /\ tx[v].by \in Accounts
        /\ tx[v].tags \subseteq Players
        /\ tx[v].op \notin MemberOps /\ tx[v].op \notin JoinOps /\ tx[v].op # "accept_invite"
    BY <1>1, <1>5 DEF Asked, Idle, MemberOps, JoinOps, LinkOps
  <2>2. /\ LinkHeld(v) => LinkHeld(v)'
        /\ LinkReady(v) => LinkReady(v)'
    BY <1>5, <2>1, LinkStays
  <2> QED BY <1>1, <1>5, <2>1, <2>2 DEF Ready
<1> QED BY <1>1, <1>2, <1>3, <1>4, <1>5 DEF Asked

\* A step that shows nothing disturbs nobody.
LEMMA QuietCalm ==
    ASSUME NEW v \in Writes, tx'[v] = tx[v], locks'[v] = locks[v], UNCHANGED <<crewRows, link>>
    PROVE  Calm(v)
<1>1. UNCHANGED <<size, role, place, invites, link>>
  BY DEF crewRows
<1> QED BY <1>1 DEF Calm, Same, InCrews, CrewsOf

LEMMA CommitCalm ==
    ASSUME CrewInv, NEW w \in Writes, Commit(w), NEW v \in Writes, v # w
    PROVE  Calm(v)
<1>1. Frame(w) /\ Exclusive
  BY CommitEffect DEF CrewInv
<1>2. tx'[v] = tx[v] /\ locks'[v] = locks[v]
  BY EndKeepsExclusive DEF Commit
<1>3. \A c \in Crews : Owns(v, c) => Same(c)
  BY <1>1, OneWriter DEF Frame
<1>4. ASSUME NEW p \in Players, locks[v] \cap {<<"share", p>>, <<"link", p>>} # {}
      PROVE  link'[p] = link[p]
  <2>1. <<"link", p>> \notin locks[w]
    BY <1>1, <1>4 DEF Exclusive
  <2> QED BY <1>1, <2>1 DEF Frame
<1>5. ASSUME NEW p \in Players, <<"link", p>> \in locks[v]
      PROVE  InCrews(p)' \subseteq InCrews(p)
  <2>1. <<"share", p>> \notin locks[w]
    BY <1>1, <1>5 DEF Exclusive
  <2> QED BY <1>1, <2>1 DEF Frame, InCrews
<1>6. ASSUME tx[v].by \in Accounts, <<"account", tx[v].by>> \in locks[v]
      PROVE  CrewsOf(tx[v].by)' \subseteq CrewsOf(tx[v].by)
  <2>1. PICK a \in Accounts : a = tx[v].by
    BY <1>6
  <2>2. ~(Entering(w) /\ a = tx[w].by)
    BY <1>1, <1>6, <2>1, Enters DEF Exclusive
  <2>3. CrewsOf(a)' \subseteq CrewsOf(a)
    BY <1>1, <2>2 DEF Frame, CrewsOf
  <2> QED BY <1>2, <2>1, <2>3
<1> QED BY <1>2, <1>3, <1>4, <1>5, <1>6 DEF Calm

LEMMA LinkPlayerCalm ==
    ASSUME NEW p \in Players, NEW a \in Accounts, LinkPlayer(p, a), NEW v \in Writes, RowTypes
    PROVE  Calm(v)
<1>1. /\ link[p] = None /\ link' = [link EXCEPT ![p] = a]
      /\ UNCHANGED <<size, role, place, invites, tx, locks>>
  BY DEF LinkPlayer, crewRows
<1>2. \A q \in Players : link[q] # None => link'[q] = link[q]
  BY <1>1 DEF RowTypes
<1> QED BY <1>1, <1>2 DEF Calm, Same, InCrews, CrewsOf
-----------------------------------------------------------------------------
(* Each step keeps the invariant                                           *)

\* A step that shows nothing keeps the rows as they are.
LEMMA QuietRows ==
    ASSUME CrewInv, UNCHANGED <<crewRows, link>>
    PROVE  /\ RowTypes' /\ NoRows' /\ CrewsHold'
           /\ \A c : Same(c)
           /\ \A a : CrewsOf(a)' = CrewsOf(a)
           /\ \A p : InCrews(p)' = InCrews(p)
           /\ \A cs, p : Leaves(cs, p)' = Leaves(cs, p)
           /\ \A p, a : OnlyPlaceOfOwner(p, a)' = OnlyPlaceOfOwner(p, a)
<1>1. UNCHANGED <<size, role, place, invites, link>>
  BY DEF crewRows
<1>2. \A c : Same(c)
  BY <1>1 DEF Same
<1>3. \A a : CrewsOf(a)' = CrewsOf(a)
  BY <1>1 DEF CrewsOf
<1>4. \A p : InCrews(p)' = InCrews(p)
  BY <1>1 DEF InCrews
<1>5. \A cs, p : Leaves(cs, p)' = Leaves(cs, p)
  BY <1>2, LeavesSame
<1>6. \A p, a : OnlyPlaceOfOwner(p, a)' = OnlyPlaceOfOwner(p, a)
  BY <1>1, <1>4 DEF OnlyPlaceOfOwner, Places
<1>7. RowTypes' /\ NoRows'
  BY <1>1 DEF CrewInv, RowTypes, NoRows, Exists
<1>8. CrewsHold'
  BY <1>1, <1>3 DEF CrewInv, CrewsHold, Exists
<1> QED BY <1>2, <1>3, <1>4, <1>5, <1>6, <1>7, <1>8

\* The parts of the invariant that speak of one write are kept for it.
LEMMA OneWriteSteps ==
    ASSUME CrewInv, NEW w \in Writes,
           RowTypes', NoRows', CrewsHold', Exclusive',
           \A v \in Writes \ {w} : Calm(v),
           DOMAIN tx' = Writes, tx' = [v \in Writes |-> tx'[v]],
           DOMAIN locks' = Writes, locks' = [v \in Writes |-> locks'[v]],
           IsTx(tx'[w]), Asked(tx'[w]),
           tx'[w].op = "create_crew" => size'[tx'[w].crew] = 0,
           \A v \in Writes \ {w} : tx[v].op = "create_crew" =>
              size'[tx[v].crew] = 0 /\ tx'[w].crew # tx[v].crew,
           \A v \in Writes \ {w} : tx'[w].op = "create_crew" => tx[v].crew # tx'[w].crew,
           Ready(w)'
    PROVE  CrewInv'
<1>1. \A v \in Writes \ {w} : tx'[v] = tx[v]
  BY DEF Calm
<1>2. TxTypes'
  BY <1>1 DEF TxTypes, CrewInv
<1>3. Fresh'
  BY <1>1 DEF Fresh, CrewInv
<1>4. \A v \in Writes : Ready(v)'
  BY ReadyStays
<1> QED BY <1>2, <1>3, <1>4 DEF CrewInv

\* A step of a write that goes on.
LEMMA GoesOn ==
    ASSUME CrewInv, NEW w \in Writes, Asks(w), UNCHANGED <<crewRows, link>>,
           NEW rows, locks' = locks \/ Take(w, rows), Asked(tx'[w]), Ready(w)'
    PROVE  CrewInv'
<1>1. /\ Exclusive' /\ DOMAIN locks' = Writes /\ locks' = [v \in Writes |-> locks'[v]]
      /\ \A v \in Writes \ {w} : locks'[v] = locks[v]
  <2>1. CASE locks' = locks
    BY <2>1 DEF CrewInv, TxTypes, Exclusive
  <2>2. CASE Take(w, rows)
    BY <2>2, TakeKeepsExclusive, ZenonT(60)
  <2> QED BY <2>1, <2>2
<1>2. \A v \in Writes \ {w} : Calm(v)
  BY <1>1, QuietCalm DEF Asks
<1>3. RowTypes' /\ NoRows' /\ CrewsHold' /\ size' = size
  BY QuietRows DEF crewRows
<1>4. /\ tx'[w].op = "create_crew" => size'[tx'[w].crew] = 0
      /\ \A v \in Writes \ {w} : tx[v].op = "create_crew" =>
            size'[tx[v].crew] = 0 /\ tx'[w].crew # tx[v].crew
      /\ \A v \in Writes \ {w} : tx'[w].op = "create_crew" => tx[v].crew # tx'[w].crew
  BY <1>3 DEF Asks, CrewInv, Fresh
<1> QED BY <1>1, <1>2, <1>3, <1>4, OneWriteSteps DEF Asks

\* A write that has ended asks for nothing.
LEMMA NothingReady ==
    ASSUME NEW w, tx'[w] = Idle
    PROVE  IsTx(tx'[w]) /\ Asked(tx'[w]) /\ Ready(w)' /\ tx'[w].op = "none" /\ tx'[w].crew = 0
  BY DEF IsTx, Asked, Ready, Idle, MemberOps, JoinOps, LinkOps

LEMMA CreatesACrew ==
    ASSUME CrewInv, NEW v \in Writes, tx[v].op = "create_crew"
    PROVE  tx[v].crew \in Crews /\ tx[v].crew # 0
  BY CrewConstants DEF CrewInv, TxTypes, Asked, Idle, MemberOps, JoinOps, LinkOps

LEMMA Ends ==
    ASSUME CrewInv, NEW w \in Writes, End(w), UNCHANGED <<crewRows, link>>
    PROVE  CrewInv'
<1>1. /\ Exclusive' /\ DOMAIN locks' = Writes /\ locks' = [v \in Writes |-> locks'[v]]
      /\ DOMAIN tx' = Writes /\ tx' = [v \in Writes |-> tx'[v]] /\ tx'[w] = Idle
      /\ \A v \in Writes \ {w} : tx'[v] = tx[v] /\ locks'[v] = locks[v]
  BY EndKeepsExclusive
<1>2. \A v \in Writes \ {w} : Calm(v)
  BY <1>1, QuietCalm
<1>3. RowTypes' /\ NoRows' /\ CrewsHold' /\ size' = size
  BY QuietRows DEF crewRows
<1>4. IsTx(tx'[w]) /\ Asked(tx'[w]) /\ Ready(w)' /\ tx'[w].op = "none" /\ tx'[w].crew = 0
  BY <1>1, NothingReady
<1>5. \A v \in Writes \ {w} : tx[v].op = "create_crew" =>
         size'[tx[v].crew] = 0 /\ tx'[w].crew # tx[v].crew
  BY <1>3, <1>4, CreatesACrew DEF CrewInv, Fresh
<1> QED BY <1>1, <1>2, <1>3, <1>4, <1>5, OneWriteSteps

LEMMA Commits ==
    ASSUME CrewInv, NEW w \in Writes, Commit(w)
    PROVE  CrewInv'
<1>1. /\ Exclusive' /\ DOMAIN locks' = Writes /\ locks' = [v \in Writes |-> locks'[v]]
      /\ DOMAIN tx' = Writes /\ tx' = [v \in Writes |-> tx'[v]] /\ tx'[w] = Idle
      /\ \A v \in Writes \ {w} : tx'[v] = tx[v] /\ locks'[v] = locks[v]
  BY EndKeepsExclusive DEF Commit
<1>2. \A v \in Writes \ {w} : Calm(v)
  BY CommitCalm
<1>3. RowTypes' /\ NoRows' /\ CrewsHold'
  BY CommitKeepsCrews
<1>4. IsTx(tx'[w]) /\ Asked(tx'[w]) /\ Ready(w)' /\ tx'[w].op = "none" /\ tx'[w].crew = 0
  BY <1>1, NothingReady
<1>5. ASSUME NEW v \in Writes \ {w}, tx[v].op = "create_crew"
      PROVE  size'[tx[v].crew] = 0 /\ tx'[w].crew # tx[v].crew
  <2>1. tx[v].crew \in Crews /\ tx[v].crew # 0 /\ size[tx[v].crew] = 0
    BY <1>5, CreatesACrew DEF CrewInv, Fresh
  <2>2. Owns(v, tx[v].crew)
    BY <1>5 DEF Owns, LinkOps
  <2>3. Same(tx[v].crew)
    BY <1>2, <2>1, <2>2 DEF Calm
  <2> QED BY <1>4, <2>1, <2>3 DEF Same
<1> QED BY <1>1, <1>2, <1>3, <1>4, <1>5, OneWriteSteps

\* What a member's write may change depends on what it asked, not on how far it is.
LEMMA SameAsk ==
    ASSUME NEW t, NEW u, NEW d, u.op = t.op, u.by = t.by, u.crew = t.crew,
           u.tags = t.tags, u.to = t.to, u.n = t.n, MayChange(t, d)
    PROVE  MayChange(u, d)
  BY DEF MayChange

\* A member's write that may go on has what it found, and makes its changes.
LEMMA Decides ==
    ASSUME CrewInv, NEW w \in Writes, tx[w].op \in MemberOps, tx[w].at = "crew",
           NEW allowed, NEW d, Decide(w, allowed, d), allowed => MayChange(tx[w], d)
    PROVE  CrewInv'
<1>0. UNCHANGED <<crewRows, link>>
  BY DEF Decide
<1>1. CASE ~allowed
  <2>1. End(w)
    BY <1>1 DEF Decide
  <2> QED BY <1>0, <2>1, Ends
<1>2. CASE allowed
  <2>1. PICK rows, at : rows = {<<"crew", tx[w].crew>>} /\ at = "commit"
    OBVIOUS
  <2>2. Take(w, rows) /\ tx' = [tx EXCEPT ![w].at = at, ![w].changes = d]
    BY <1>2, <2>1 DEF Decide
  <2>set. tx' = [tx EXCEPT ![w].at = at, ![w].changes = d]
    BY <2>2
  <2>8. Asks(w) /\ tx'[w].at = at /\ tx'[w].changes = d
    BY <2>set, SetAtChanges, ZenonT(60)
  <2>take. Take(w, rows)
    BY <2>2
  <2>9. locks'[w] = locks[w] \cup rows
    BY <2>take, TakeKeepsExclusive, ZenonT(60)
  <2>3. /\ Asks(w) /\ tx'[w].at = "commit" /\ tx'[w].changes = d
        /\ locks'[w] = locks[w] \cup rows
    BY <2>1, <2>8, <2>9
  <2>4. /\ tx[w].op \notin JoinOps /\ tx[w].op \notin LinkOps /\ tx[w].crew \in Crews
        /\ Asked(tx[w]) /\ tx[w] # Idle
    BY DEF CrewInv, TxTypes, Asked, Idle, MemberOps, JoinOps, LinkOps
  <2>5. Asked(tx'[w])
    BY <2>3, <2>4 DEF Asks, Asked
  <2>6. MemberReady(w)'
    <3>1. PICK t, u : t = tx[w] /\ u = tx'[w]
      OBVIOUS
    <3>2. MayChange(u, d)
      BY <1>2, <2>3, <3>1, SameAsk DEF Asks
    <3>3. MayChange(u, d)'
      BY <1>0, <2>3, <2>4, <3>1, <3>2, MaySame, QuietRows DEF Asks
    <3> QED BY <2>1, <2>3, <3>1, <3>3 DEF MemberReady, Asks
  <2>7. Ready(w)'
    BY <2>3, <2>4, <2>6 DEF Ready, Asks, JoinOps
  <2> QED BY <1>0, <2>2, <2>3, <2>5, <2>7, GoesOn
<1> QED BY <1>1, <1>2

LEMMA MemberStep ==
    ASSUME CrewInv, NEW w \in Writes,
           \/ UpdateCrew(w) \/ DeleteCrew(w) \/ RemovePlayer(w) \/ SetMemberRole(w) \/ HandOver(w)
           \/ LeaveCrew(w) \/ MakeInvite(w) \/ RevokeInvite(w)
    PROVE  CrewInv'
<1>1. PICK t, c, mine : t = tx[w] /\ c = tx[w].crew /\ mine = MyRole(w)
  OBVIOUS
<1>2. mine = role[c][t.by] /\ Asked(t) /\ \A op \in MemberOps : Running(w, op) => t.op = op /\ t.at = "crew"
  BY <1>1 DEF MyRole, Running, CrewInv, TxTypes
<1>3. ASSUME UpdateCrew(w) PROVE CrewInv'
  <2>1. Running(w, "update_crew") /\ t.op = "update_crew" /\ t.at = "crew" /\ t.n \in Sizes
    BY <1>1, <1>2, <1>3 DEF UpdateCrew, MemberOps, JoinOps, LinkOps, Asked, Idle
  <2>2. PICK ok, d : /\ ok = (mine \in {"owner", "admin"} /\ t.n >= Cardinality(Used(c)))
                     /\ d = {<<"size", c, t.n>>}
    OBVIOUS
  <2>3. Decide(w, ok, d)
    BY <1>1, <1>3, <2>2 DEF UpdateCrew
  <2>4. ok => MayChange(t, d)
    BY <1>1, <1>2, <2>1, <2>2 DEF MayChange
  <2> QED BY <1>1, <2>1, <2>3, <2>4, Decides DEF MemberOps
<1>4. ASSUME DeleteCrew(w) PROVE CrewInv'
  <2>1. t.op = "delete_crew" /\ t.at = "crew"
    BY <1>1, <1>4 DEF DeleteCrew, Running
  <2>2. PICK ok, d : ok = (mine = "owner") /\ d = {<<"delete", c>>}
    OBVIOUS
  <2>3. Decide(w, ok, d)
    BY <1>1, <1>4, <2>2 DEF DeleteCrew
  <2>4. ok => MayChange(t, d)
    BY <1>1, <1>2, <2>1, <2>2 DEF MayChange
  <2> QED BY <1>1, <2>1, <2>3, <2>4, Decides DEF MemberOps
<1>5. ASSUME RemovePlayer(w) PROVE CrewInv'
  <2>1. t.op = "remove_player" /\ t.at = "crew"
    BY <1>1, <1>5 DEF RemovePlayer, Running
  <2>2. PICK p \in Players : t.tags = {p}
    BY <1>2, <2>1 DEF Asked, Idle, MemberOps, JoinOps, LinkOps
  <2>3. PICK ok, d : /\ ok = (mine # "none" /\ place[c][p] # None /\ MayRemove(c, t.by, p))
                     /\ d = Leaves({c}, p)
    OBVIOUS
  <2>4. Decide(w, ok, d)
    BY <1>1, <1>5, <2>2, <2>3 DEF RemovePlayer
  <2>5. ok => MayChange(t, d)
    BY <1>1, <2>1, <2>2, <2>3 DEF MayChange
  <2> QED BY <1>1, <2>1, <2>4, <2>5, Decides DEF MemberOps
<1>6. ASSUME SetMemberRole(w) PROVE CrewInv'
  <2>1. t.op = "set_member_role" /\ t.at = "crew"
    BY <1>1, <1>6 DEF SetMemberRole, Running
  <2>2. PICK ok, r, d : /\ ok = (mine = "owner" /\ role[t.crew][t.to] \in {"admin", "member"})
                        /\ r = (IF t.n = 1 THEN "admin" ELSE "member")
                        /\ d = {<<"role", t.crew, t.to, r>>}
    OBVIOUS
  <2>3. Decide(w, ok, d)
    BY <1>1, <1>6, <2>2 DEF SetMemberRole
  <2>4. ok => MayChange(t, d)
    <3>1. ok => t.to \in Accounts
      BY <1>2, <2>1, <2>2 DEF Asked, Idle, MemberOps, JoinOps, LinkOps
    <3>2. r \in {"admin", "member"}
      BY <2>2
    <3> QED BY <1>1, <1>2, <2>1, <2>2, <3>1, <3>2 DEF MayChange
  <2> QED BY <1>1, <2>1, <2>3, <2>4, Decides DEF MemberOps
<1>7. ASSUME HandOver(w) PROVE CrewInv'
  <2>1. t.op = "hand_over" /\ t.at = "crew"
    BY <1>1, <1>7 DEF HandOver, Running
  <2>2. PICK ok, d : /\ ok = (mine = "owner" /\ role[t.crew][t.to] \in {"admin", "member"})
                     /\ d = {<<"role", t.crew, t.to, "owner">>,
                             <<"role", t.crew, t.by,
                               IF Places(t.crew, t.by) = {} THEN "none" ELSE "admin">>}
    OBVIOUS
  <2>3. Decide(w, ok, d)
    BY <1>1, <1>7, <2>2 DEF HandOver
  <2>4. ok => MayChange(t, d)
    <3>1. ok => t.to \in Accounts
      BY <1>2, <2>1, <2>2 DEF Asked, Idle, MemberOps, JoinOps, LinkOps
    <3> QED BY <1>1, <1>2, <2>1, <2>2, <3>1 DEF MayChange
  <2> QED BY <1>1, <2>1, <2>3, <2>4, Decides DEF MemberOps
<1>8. ASSUME LeaveCrew(w) PROVE CrewInv'
  <2>1. t.op = "leave_crew" /\ t.at = "crew"
    BY <1>1, <1>8 DEF LeaveCrew, Running
  <2>2. PICK ok, d : /\ ok = (mine \in {"admin", "member"})
                     /\ d = {<<"role", t.crew, t.by, "none">>}
                            \cup {<<"place", t.crew, p, None>> : p \in Places(t.crew, t.by)}
    OBVIOUS
  <2>3. Decide(w, ok, d)
    BY <1>1, <1>8, <2>2 DEF LeaveCrew
  <2>4. ok => MayChange(t, d)
    BY <1>1, <1>2, <2>1, <2>2 DEF MayChange
  <2> QED BY <1>1, <2>1, <2>3, <2>4, Decides DEF MemberOps
<1>9. ASSUME MakeInvite(w) PROVE CrewInv'
  <2>1. t.op = "make_invite" /\ t.at = "crew"
    BY <1>1, <1>9 DEF MakeInvite, Running
  <2>2. PICK ok, d : /\ ok = (mine # "none" /\ size[t.crew] > Cardinality(Used(t.crew)))
                     /\ d = {<<"invite", t.crew, t.by>>}
    OBVIOUS
  <2>3. Decide(w, ok, d)
    BY <1>1, <1>9, <2>2 DEF MakeInvite
  <2>4. ok => MayChange(t, d)
    BY <1>1, <1>2, <2>1, <2>2 DEF MayChange
  <2> QED BY <1>1, <2>1, <2>3, <2>4, Decides DEF MemberOps
<1>10. ASSUME RevokeInvite(w) PROVE CrewInv'
  <2>1. t.op = "revoke_invite" /\ t.at = "crew"
    BY <1>1, <1>10 DEF RevokeInvite, Running
  <2>2. PICK ok, d : /\ ok = (/\ mine # "none" /\ t.to \in invites[t.crew]
                              /\ t.to # t.by => mine \in {"owner", "admin"})
                     /\ d = {<<"revoke", t.crew, t.to>>}
    OBVIOUS
  <2>3. Decide(w, ok, d)
    BY <1>1, <1>10, <2>2 DEF RevokeInvite
  <2>4. ok => MayChange(t, d)
    BY <2>1, <2>2 DEF MayChange
  <2> QED BY <1>1, <2>1, <2>3, <2>4, Decides DEF MemberOps
<1> QED BY <1>3, <1>4, <1>5, <1>6, <1>7, <1>8, <1>9, <1>10

LEMMA JoinReads ==
    ASSUME CrewInv, NEW w \in Writes, Asks(w), UNCHANGED <<crewRows, link>>
    PROVE  MyRole(w)' = MyRole(w) /\ Entering(w)' = Entering(w) /\ Joined(w)' = Joined(w)
<1>1. role' = role
  BY DEF crewRows
<1>2. MyRole(w)' = MyRole(w)
  BY <1>1 DEF MyRole, Asks
<1>3. Entering(w)' = Entering(w)
  BY <1>2 DEF Entering, Asks
<1>4. Joined(w)' = Joined(w)
  BY <1>3 DEF Joined, Asks
<1> QED BY <1>2, <1>3, <1>4

\* A write that joins, before and after one of its steps.
Joins(w) ==
    /\ tx[w].op \in JoinOps /\ tx[w].op \notin MemberOps /\ tx[w].op \notin LinkOps
    /\ tx[w].crew \in Crews /\ tx[w].by \in Accounts /\ tx[w].tags \in SUBSET Players
    /\ tx[w].tags # {}

LEMMA JoinAsks ==
    ASSUME CrewInv, NEW w \in Writes, tx[w].op \in JoinOps, Asks(w),
           tx'[w].at \in {"account", "tags", "places", "commit"},
           tx[w].op = "add_players" => tx'[w].at # "account"
    PROVE  Joins(w) /\ Asked(tx'[w])
<1>1. Joins(w) /\ tx[w] # Idle /\ Asked(tx[w])
  BY DEF Joins, CrewInv, TxTypes, Asked, Idle, MemberOps, JoinOps, LinkOps
<1> QED BY <1>1 DEF Joins, Asks, Asked

LEMMA JoinCrewStep ==
    ASSUME CrewInv, NEW w \in Writes, JoinCrew(w)
    PROVE  CrewInv'
<1>1. /\ tx[w].op \in {"add_players", "accept_invite"} /\ tx[w].op \in JoinOps
      /\ UNCHANGED <<crewRows, link>>
  BY DEF JoinCrew, JoinOps
<1>2. PICK ok, rows, at : /\ ok = (IF tx[w].op = "add_players" THEN MyRole(w) # "none"
                                   ELSE tx[w].to \in invites[tx[w].crew])
                          /\ rows = {<<"crew", tx[w].crew>>}
                          /\ at = (IF Entering(w) THEN "account" ELSE "tags")
  OBVIOUS
<1>3. CASE ~ok
  <2>1. End(w)
    BY <1>2, <1>3 DEF JoinCrew
  <2> QED BY <1>1, <2>1, Ends
<1>4. CASE ok
  <2>1. Take(w, rows) /\ tx' = [tx EXCEPT ![w].at = at]
    BY <1>2, <1>4 DEF JoinCrew, Goto
  <2>set. tx' = [tx EXCEPT ![w].at = at]
    BY <2>1
  <2>2. Asks(w) /\ tx'[w].at = at
    BY <2>set, SetAt, ZenonT(60)
  <2>take. Take(w, rows)
    BY <2>1
  <2>3. locks'[w] = locks[w] \cup rows
    BY <2>take, TakeKeepsExclusive, ZenonT(60)
  <2>4. MyRole(w)' = MyRole(w) /\ Entering(w)' = Entering(w) /\ invites' = invites
    BY <1>1, <2>2, JoinReads DEF crewRows
  <2>5. JoinHeld(w)'
    BY <1>1, <1>2, <1>4, <2>2, <2>3, <2>4 DEF JoinHeld, Asks
  <2>6. Entering(w) => tx[w].op # "add_players" /\ MyRole(w) = "none"
    BY DEF Entering
  <2>7. at \in {"account", "tags"} /\ (at = "account" <=> Entering(w))
    BY <1>2
  <2>8. Joins(w) /\ Asked(tx'[w])
    BY <1>1, <2>2, <2>6, <2>7, JoinAsks
  <2>9. at = "tags" => JoinReady(w)'
    BY <2>4, <2>5, <2>7 DEF JoinReady
  <2>10. Ready(w)'
    BY <2>2, <2>4, <2>5, <2>6, <2>7, <2>8, <2>9 DEF Ready, Asks, Joins
  <2> QED BY <1>1, <2>1, <2>2, <2>8, <2>10, GoesOn
<1> QED BY <1>3, <1>4

LEMMA LockAccountStep ==
    ASSUME CrewInv, NEW w \in Writes, LockAccount(w)
    PROVE  CrewInv'
<1>1. /\ tx[w].at = "account" /\ UNCHANGED <<crewRows, link>>
      /\ tx[w].op \in {"create_crew", "accept_invite"} /\ tx[w].op \in JoinOps
      /\ tx[w].op = "accept_invite" => JoinHeld(w)
  BY DEF LockAccount, CrewInv, TxTypes, Ready, Asked, Idle, MemberOps, JoinOps, LinkOps
<1>2. PICK rows, at : rows = {<<"account", tx[w].by>>} /\ at = "tags"
  OBVIOUS
<1>3. Take(w, rows) /\ tx' = [tx EXCEPT ![w].at = at]
  BY <1>2 DEF LockAccount, Goto
<1>set. tx' = [tx EXCEPT ![w].at = at]
  BY <1>3
<1>4. Asks(w) /\ tx'[w].at = at
  BY <1>set, SetAt, ZenonT(60)
<1>take. Take(w, rows)
  BY <1>3
<1>5. locks'[w] = locks[w] \cup rows
  BY <1>take, TakeKeepsExclusive, ZenonT(60)
<1>6. MyRole(w)' = MyRole(w) /\ invites' = invites
  BY <1>1, <1>4, JoinReads DEF crewRows
<1>7. JoinHeld(w)'
  BY <1>1, <1>4, <1>5, <1>6 DEF JoinHeld, Asks
<1>8. JoinReady(w)'
  BY <1>2, <1>4, <1>5, <1>7 DEF JoinReady, Asks
<1>9. Joins(w) /\ Asked(tx'[w])
  BY <1>1, <1>2, <1>4, JoinAsks
<1>10. Ready(w)'
  BY <1>2, <1>4, <1>8, <1>9 DEF Ready, Asks, Joins
<1> QED BY <1>1, <1>3, <1>4, <1>9, <1>10, GoesOn

LEMMA CheckPlacesStep ==
    ASSUME CrewInv, NEW w \in Writes, CheckPlaces(w)
    PROVE  CrewInv'
<1>1. /\ tx[w].at = "tags" /\ UNCHANGED <<crewRows, link>> /\ tx[w].op \in JoinOps
      /\ JoinReady(w) /\ JoinHeld(w)
  BY DEF CheckPlaces, CrewInv, TxTypes, Ready, JoinReady, Asked, Idle, MemberOps, JoinOps, LinkOps
<1>2. PICK open, rows, at, tags, d :
         /\ open = (IF tx[w].op = "create_crew" THEN tx[w].n
                    ELSE size[tx[w].crew] - Cardinality(Used(tx[w].crew)))
         /\ rows = {<<"tag", p>> : p \in tx[w].tags} /\ at = "places" /\ tags = tx[w].tags
         /\ d = Joined(w)
  OBVIOUS
<1>3. CASE End(w)
  BY <1>1, <1>3, Ends
<1>4. CASE ~End(w)
  <2>1. /\ Unplaced(tx[w]) /\ Cardinality(tx[w].tags) <= open
        /\ Entering(w) => Cardinality(CrewsOf(tx[w].by)) < CrewLimit
        /\ Take(w, rows)
        /\ tx' = [tx EXCEPT ![w].at = at, ![w].left = tags, ![w].changes = d]
    BY <1>2, <1>4 DEF CheckPlaces, Joined
  <2>set. tx' = [tx EXCEPT ![w].at = at, ![w].left = tags, ![w].changes = d]
    BY <2>1
  <2>2. Asks(w) /\ tx'[w].at = at /\ tx'[w].left = tags /\ tx'[w].changes = d
    BY <2>set, SetAll, ZenonT(60)
  <2>take. Take(w, rows)
    BY <2>1
  <2>3. locks'[w] = locks[w] \cup rows
    BY <2>take, TakeKeepsExclusive, ZenonT(60)
  <2>4. /\ MyRole(w)' = MyRole(w) /\ Entering(w)' = Entering(w) /\ Joined(w)' = Joined(w)
        /\ \A a : CrewsOf(a)' = CrewsOf(a)
        /\ UNCHANGED <<size, role, place, invites, link>>
    BY <1>1, <2>2, JoinReads, QuietRows DEF crewRows
  <2>5. JoinReady(w)'
    BY <1>1, <2>2, <2>3, <2>4 DEF JoinReady, JoinHeld, Asks
  <2>6. Joins(w) /\ Asked(tx'[w])
    BY <1>1, <1>2, <2>2, JoinAsks
  <2>7. PICK c, by : c = tx[w].crew /\ by = tx[w].by
    OBVIOUS
  <2>8. c = tx'[w].crew /\ by = tx'[w].by /\ tags = tx'[w].tags /\ c \in Crews
        /\ tags \in SUBSET Players /\ tx'[w].op = tx[w].op /\ tx'[w].n = tx[w].n
    BY <1>2, <2>2, <2>6, <2>7 DEF Asks, Joins
  <2>9. Used(c)' = Used(c) /\ CrewsOf(by)' = CrewsOf(by)
    BY <2>4 DEF Used
  <2>10. \A p \in tags : place'[c][p] = None
    BY <1>2, <2>1, <2>4, <2>7 DEF Unplaced
  <2>11. IF tx[w].op = "create_crew" THEN Cardinality(tags) <= tx[w].n
         ELSE Cardinality(tags) + Cardinality(Used(c)') <= size'[c]
    <3>1. Cardinality(tags) \in Nat /\ Cardinality(Used(c)) \in Nat /\ size[c] \in Int
      BY <2>8, CrewConstants, FS_Subset, FS_CardinalityType, RowsOf DEF Used
    <3>2. Cardinality(tags) <= IF tx[w].op = "create_crew" THEN tx[w].n
                               ELSE size[c] - Cardinality(Used(c))
      BY <1>2, <2>1, <2>7
    <3>3. CASE tx[w].op = "create_crew"
      BY <3>2, <3>3
    <3>4. CASE tx[w].op # "create_crew"
      <4>1. Cardinality(tags) <= size[c] - Cardinality(Used(c))
        BY <3>2, <3>4
      <4>2. Cardinality(tags) + Cardinality(Used(c)) <= size[c]
        BY <3>1, <4>1
      <4> QED BY <2>4, <2>9, <3>4, <4>2
    <3> QED BY <3>3, <3>4
  <2>12. Entering(w)' => Cardinality(CrewsOf(by)') < CrewLimit
    BY <2>1, <2>4, <2>7, <2>9
  <2>13. tx'[w].tags \ tx'[w].left = {}
    BY <2>2, <2>8
  <2>14. PlacesReady(w)'
    BY <1>2, <2>2, <2>4, <2>5, <2>8, <2>10, <2>11, <2>12, <2>13 DEF PlacesReady
  <2>15. Ready(w)'
    BY <1>2, <2>2, <2>6, <2>14 DEF Ready, Asks, Joins
  <2> QED BY <1>1, <2>1, <2>2, <2>6, <2>15, GoesOn
<1> QED BY <1>3, <1>4

LEMMA InsertPlaceStep ==
    ASSUME CrewInv, NEW w \in Writes, InsertPlace(w)
    PROVE  CrewInv'
<1>1. /\ tx[w].at = "places" /\ UNCHANGED <<crewRows, link>> /\ tx[w].op \in JoinOps
      /\ PlacesReady(w)
  BY DEF InsertPlace, CrewInv, TxTypes, Ready, Asked, Idle, MemberOps, JoinOps, LinkOps
<1>2. CASE End(w)
  BY <1>1, <1>2, Ends
<1>3. ASSUME Asks(w), NEW rows, locks' = locks \/ Take(w, rows), NEW at, tx'[w].at = at,
             at \in {"places", "commit"}, at = "commit" => tx'[w].left = {},
             tx'[w].changes = tx[w].changes,
             \A p \in tx[w].tags \ tx'[w].left : p \in tx[w].tags \ tx[w].left
                \/ (link[p] = tx[w].by /\ <<"share", p>> \in locks'[w])
      PROVE  CrewInv'
  <2>1. locks[w] \subseteq locks'[w]
    BY <1>3, TakeKeepsExclusive, ZenonT(60)
  <2>2. /\ MyRole(w)' = MyRole(w) /\ Entering(w)' = Entering(w) /\ Joined(w)' = Joined(w)
        /\ \A a : CrewsOf(a)' = CrewsOf(a)
        /\ UNCHANGED <<size, role, place, invites, link>>
    BY <1>1, <1>3, JoinReads, QuietRows DEF crewRows
  <2>3. Joins(w) /\ Asked(tx'[w])
    BY <1>1, <1>3, JoinAsks
  <2>4. JoinReady(w)'
    BY <1>1, <1>3, <2>1, <2>2 DEF PlacesReady, JoinReady, JoinHeld, Asks
  <2>5. PICK c, by, tags : c = tx[w].crew /\ by = tx[w].by /\ tags = tx[w].tags
    OBVIOUS
  <2>6. /\ c = tx'[w].crew /\ by = tx'[w].by /\ tags = tx'[w].tags
        /\ tx'[w].op = tx[w].op /\ tx'[w].n = tx[w].n
    BY <1>3, <2>5 DEF Asks
  <2>7. Used(c)' = Used(c) /\ CrewsOf(by)' = CrewsOf(by)
    BY <2>2 DEF Used
  <2>8. /\ \A p \in tags : place'[c][p] = None
        /\ IF tx[w].op = "create_crew" THEN Cardinality(tags) <= tx[w].n
           ELSE Cardinality(tags) + Cardinality(Used(c)') <= size'[c]
        /\ Entering(w)' => Cardinality(CrewsOf(by)') < CrewLimit
        /\ tx'[w].changes = Joined(w)'
    BY <1>1, <1>3, <2>2, <2>5, <2>7 DEF PlacesReady
  <2>9. \A p \in tags \ tx'[w].left : <<"share", p>> \in locks'[w] /\ link'[p] = by
    BY <1>1, <1>3, <2>1, <2>2, <2>5 DEF PlacesReady
  <2>10. PlacesReady(w)'
    BY <2>4, <2>6, <2>8, <2>9 DEF PlacesReady
  <2>11. Ready(w)'
    BY <1>3, <2>3, <2>10 DEF Ready, Asks, Joins
  <2> QED BY <1>1, <1>3, <2>3, <2>11, GoesOn
<1>4. CASE tx[w].left = {}
  <2>1. PICK at : at = "commit"
    OBVIOUS
  <2>2. tx' = [tx EXCEPT ![w].at = at] /\ locks' = locks
    BY <1>4, <2>1 DEF InsertPlace, Goto
  <2>set. tx' = [tx EXCEPT ![w].at = at]
    BY <2>2
  <2>3. /\ Asks(w) /\ tx'[w].at = at /\ tx'[w].left = tx[w].left
        /\ tx'[w].changes = tx[w].changes
    BY <2>set, SetAt, ZenonT(60)
  <2> QED BY <1>3, <1>4, <2>1, <2>2, <2>3
<1>5. CASE tx[w].left # {} /\ ~End(w)
  <2>1. PICK p : p = Min(tx[w].left)
    OBVIOUS
  <2>2. PICK rows, left : rows = {<<"share", p>>} /\ left = tx[w].left \ {p}
    OBVIOUS
  <2>3. link[p] = tx[w].by /\ Take(w, rows) /\ tx' = [tx EXCEPT ![w].left = left]
    BY <1>5, <2>1, <2>2 DEF InsertPlace
  <2>set. tx' = [tx EXCEPT ![w].left = left]
    BY <2>3
  <2>4. /\ Asks(w) /\ tx'[w].at = tx[w].at /\ tx'[w].left = left
        /\ tx'[w].changes = tx[w].changes
    BY <2>set, SetLeft, ZenonT(60)
  <2>take. Take(w, rows)
    BY <2>3
  <2>5. locks'[w] = locks[w] \cup rows
    BY <2>take, TakeKeepsExclusive, ZenonT(60)
  <2>6. \A q \in tx[w].tags \ tx'[w].left : q \in tx[w].tags \ tx[w].left
           \/ (link[q] = tx[w].by /\ <<"share", q>> \in locks'[w])
    BY <2>2, <2>3, <2>4, <2>5
  <2> QED BY <1>1, <1>3, <2>3, <2>4, <2>6
<1> QED BY <1>2, <1>4, <1>5

\* A write that unlinks or moves a player, before and after one of its steps.
LEMMA LinkAsks ==
    ASSUME CrewInv, NEW w \in Writes, tx[w].at \in {"link", "crews", "check"}
    PROVE  /\ tx[w].op \in LinkOps /\ tx[w].op \notin MemberOps /\ tx[w].op \notin JoinOps
           /\ \E p \in Players : tx[w].tags = {p}
           /\ Asks(w) /\ tx'[w].at \in {"link", "crews", "check", "commit"} => Asked(tx'[w])
<1>1. /\ tx[w].op \in LinkOps /\ tx[w].op \notin MemberOps /\ tx[w].op \notin JoinOps
      /\ \E p \in Players : tx[w].tags = {p}
      /\ tx[w] # Idle /\ Asked(tx[w])
  BY DEF CrewInv, TxTypes, Asked, Idle, MemberOps, JoinOps, LinkOps
<1> QED BY <1>1 DEF Asks, Asked

LEMMA MinOfOne ==
    ASSUME NEW p \in Players
    PROVE  Min({p}) = p
<1>1. PICK S : S = {p}
  OBVIOUS
<1>2. S \in SUBSET Nat /\ S # {}
  BY <1>1, CrewConstants
<1>3. Min(S) \in S
  BY <1>2, MinIs
<1> QED BY <1>1, <1>3

\* The link is held, and the crews its player is in are held or still to come.
LEMMA LinkGoesOn ==
    ASSUME CrewInv, NEW w \in Writes, tx[w].at \in {"link", "crews", "check"}, Asks(w),
           UNCHANGED <<crewRows, link>>, NEW rows, locks' = locks \/ Take(w, rows),
           tx'[w].at \in {"crews", "check", "commit"}, NEW p \in Players, tx[w].tags = {p},
           link[p] = tx[w].by, <<"link", p>> \in locks'[w],
           \A c \in InCrews(p) : c \in tx'[w].left \/ <<"crew", c>> \in locks'[w],
           tx'[w].at # "crews" =>
              /\ tx'[w].left = {}
              /\ tx[w].op = "unlink_player" => ~OnlyPlaceOfOwner(p, tx[w].by)
              /\ tx'[w].changes = Leaves(InCrews(p), p) \cup {<<"link", p, tx[w].to>>}
    PROVE  CrewInv'
<1>1. /\ tx[w].op \in LinkOps /\ tx[w].op \notin MemberOps /\ tx[w].op \notin JoinOps
      /\ Asked(tx'[w])
  BY LinkAsks
<1>2. PICK cs, by : cs = InCrews(p) /\ by = tx[w].by
  OBVIOUS
<1>3. /\ InCrews(p)' = cs /\ Leaves(cs, p)' = Leaves(cs, p) /\ link' = link
      /\ OnlyPlaceOfOwner(p, by)' = OnlyPlaceOfOwner(p, by)
  BY <1>2, QuietRows DEF crewRows
<1>4. /\ tx'[w].tags = {p} /\ tx'[w].by = by /\ tx'[w].op = tx[w].op /\ tx'[w].to = tx[w].to
  BY <1>2 DEF Asks
<1>5. LinkHeld(w)'
  BY <1>2, <1>3, <1>4 DEF LinkHeld
<1>6. tx'[w].at # "crews" => LinkReady(w)'
  BY <1>2, <1>3, <1>4, <1>5 DEF LinkReady
<1>7. Ready(w)'
  <2>1. tx'[w].op \notin MemberOps /\ tx'[w].op \notin JoinOps /\ tx'[w].op # "accept_invite"
    BY <1>1, <1>4 DEF JoinOps
  <2> QED BY <1>5, <1>6, <2>1 DEF Ready
<1> QED BY <1>1, <1>7, GoesOn

LEMMA LockLinkStep ==
    ASSUME CrewInv, NEW w \in Writes, LockLink(w)
    PROVE  CrewInv'
<1>1. tx[w].at = "link" /\ UNCHANGED <<crewRows, link>>
  BY DEF LockLink
<1>2. PICK p \in Players : tx[w].tags = {p}
  BY <1>1, LinkAsks
<1>3. Min(tx[w].tags) = p
  BY <1>2, MinOfOne
<1>4. CASE End(w)
  BY <1>1, <1>4, Ends
<1>5. CASE ~End(w)
  <2>1. PICK rows, at, left : rows = {<<"link", p>>} /\ at = "crews" /\ left = InCrews(p)
    OBVIOUS
  <2>2. /\ link[p] = tx[w].by /\ Take(w, rows)
        /\ tx' = [tx EXCEPT ![w].at = at, ![w].left = left]
    BY <1>3, <1>5, <2>1 DEF LockLink
  <2>set. tx' = [tx EXCEPT ![w].at = at, ![w].left = left]
    BY <2>2
  <2>3. Asks(w) /\ tx'[w].at = at /\ tx'[w].left = left
    BY <2>set, SetAtLeft, ZenonT(60)
  <2>take. Take(w, rows)
    BY <2>2
  <2>4. locks'[w] = locks[w] \cup rows
    BY <2>take, TakeKeepsExclusive, ZenonT(60)
  <2>5. tx[w].at \in {"link", "crews", "check"} /\ tx'[w].at = "crews"
    BY <1>1, <2>1, <2>3
  <2>6. link[p] = tx[w].by /\ <<"link", p>> \in locks'[w]
    BY <2>1, <2>2, <2>4
  <2>7. \A c \in InCrews(p) : c \in tx'[w].left \/ <<"crew", c>> \in locks'[w]
    BY <2>1, <2>3
  <2> QED BY <1>1, <1>2, <2>3, <2>take, <2>5, <2>6, <2>7, LinkGoesOn
<1> QED BY <1>4, <1>5

LEMMA LockNextCrewStep ==
    ASSUME CrewInv, NEW w \in Writes, LockNextCrew(w)
    PROVE  CrewInv'
<1>1. /\ tx[w].at = "crews" /\ UNCHANGED <<crewRows, link>> /\ LinkHeld(w)
  BY DEF LockNextCrew, CrewInv, Ready
<1>2. PICK p \in Players : tx[w].tags = {p}
  BY <1>1, LinkAsks
<1>3. PICK c : c = Min(tx[w].left)
  OBVIOUS
<1>4. PICK rows, left : rows = {<<"crew", c>>} /\ left = tx[w].left \ {c}
  OBVIOUS
<1>5. Take(w, rows) /\ tx' = [tx EXCEPT ![w].left = left]
  BY <1>3, <1>4 DEF LockNextCrew
<1>set. tx' = [tx EXCEPT ![w].left = left]
  BY <1>5
<1>6. Asks(w) /\ tx'[w].at = "crews" /\ tx'[w].left = left
  BY <1>1, <1>set, SetLeft, ZenonT(60)
<1>take. Take(w, rows)
  BY <1>5
<1>7. locks'[w] = locks[w] \cup rows
  BY <1>take, TakeKeepsExclusive, ZenonT(60)
<1>8. /\ link[p] = tx[w].by /\ <<"link", p>> \in locks[w]
      /\ \A e \in InCrews(p) : e \in tx[w].left \/ <<"crew", e>> \in locks[w]
  BY <1>1, <1>2 DEF LinkHeld
<1>9. \A e \in InCrews(p) : e \in tx'[w].left \/ <<"crew", e>> \in locks'[w]
  BY <1>4, <1>6, <1>7, <1>8
<1> QED BY <1>1, <1>2, <1>5, <1>6, <1>7, <1>8, <1>9, LinkGoesOn

LEMMA DropLinkStep ==
    ASSUME CrewInv, NEW w \in Writes, DropLink(w)
    PROVE  CrewInv'
<1>1. /\ tx[w].at = "crews" /\ tx[w].left = {} /\ UNCHANGED <<crewRows, link>> /\ LinkHeld(w)
  BY DEF DropLink, CrewInv, Ready
<1>2. PICK p \in Players : tx[w].tags = {p}
  BY <1>1, LinkAsks
<1>3. Min(tx[w].tags) = p
  BY <1>2, MinOfOne
<1>4. CASE End(w)
  BY <1>1, <1>4, Ends
<1>5. CASE ~End(w)
  <2>1. PICK at, d : /\ at = IF tx[w].op = "transfer" THEN "check" ELSE "commit"
                 /\ d = Leaves(InCrews(p), p) \cup {<<"link", p, tx[w].to>>}
    OBVIOUS
  <2>2. /\ tx[w].op = "unlink_player" => ~OnlyPlaceOfOwner(p, tx[w].by)
        /\ tx' = [tx EXCEPT ![w].at = at, ![w].changes = d] /\ locks' = locks
    BY <1>3, <1>5, <2>1 DEF DropLink
  <2>set. tx' = [tx EXCEPT ![w].at = at, ![w].changes = d]
    BY <2>2
  <2>3. Asks(w) /\ tx'[w].at = at /\ tx'[w].left = tx[w].left /\ tx'[w].changes = d
    BY <2>set, SetAtChanges, ZenonT(60)
  <2>4. /\ link[p] = tx[w].by /\ <<"link", p>> \in locks[w]
        /\ \A e \in InCrews(p) : e \in tx[w].left \/ <<"crew", e>> \in locks[w]
    BY <1>1, <1>2 DEF LinkHeld
  <2>5. tx'[w].at \in {"crews", "check", "commit"} /\ tx'[w].at # "crews"
    BY <2>1, <2>3
  <2>6. /\ tx'[w].left = {} /\ tx'[w].changes = Leaves(InCrews(p), p) \cup {<<"link", p, tx[w].to>>}
        /\ <<"link", p>> \in locks'[w]
        /\ \A e \in InCrews(p) : e \in tx'[w].left \/ <<"crew", e>> \in locks'[w]
    BY <1>1, <2>1, <2>2, <2>3, <2>4
  <2> QED BY <1>1, <1>2, <2>2, <2>3, <2>4, <2>5, <2>6, LinkGoesOn
<1> QED BY <1>4, <1>5

LEMMA QueueCheckStep ==
    ASSUME CrewInv, NEW w \in Writes, QueueCheck(w)
    PROVE  CrewInv'
<1>1. tx[w].at = "check" /\ UNCHANGED <<crewRows, link>>
  BY DEF QueueCheck
<1>2. PICK p \in Players : tx[w].tags = {p}
  BY <1>1, LinkAsks
<1>3. LinkReady(w) /\ LinkHeld(w)
  BY <1>1, LinkAsks DEF CrewInv, Ready, LinkReady
<1>4. PICK rows, at : rows = {<<"tag", q>> : q \in tx[w].tags} /\ at = "commit"
  OBVIOUS
<1>take. Take(w, rows)
  BY <1>4 DEF QueueCheck
<1>set. tx' = [tx EXCEPT ![w].at = at]
  BY <1>4 DEF QueueCheck, Goto
<1>5. /\ Asks(w) /\ tx'[w].at = at /\ tx'[w].left = tx[w].left
      /\ tx'[w].changes = tx[w].changes
  BY <1>set, SetAt, ZenonT(60)
<1>6. locks'[w] = locks[w] \cup rows
  BY <1>take, TakeKeepsExclusive, ZenonT(60)
<1>7. /\ link[p] = tx[w].by /\ <<"link", p>> \in locks'[w]
      /\ \A e \in InCrews(p) : e \in tx'[w].left \/ <<"crew", e>> \in locks'[w]
  BY <1>2, <1>3, <1>5, <1>6 DEF LinkHeld
<1>8. /\ tx'[w].left = {}
      /\ tx[w].op = "unlink_player" => ~OnlyPlaceOfOwner(p, tx[w].by)
      /\ tx'[w].changes = Leaves(InCrews(p), p) \cup {<<"link", p, tx[w].to>>}
  BY <1>2, <1>3, <1>5 DEF LinkReady
<1>9. /\ tx[w].at \in {"link", "crews", "check"}
      /\ tx'[w].at \in {"crews", "check", "commit"} /\ tx'[w].at # "crews"
  BY <1>1, <1>4, <1>5
<1> QED BY <1>1, <1>2, <1>take, <1>5, <1>7, <1>8, <1>9, LinkGoesOn
-----------------------------------------------------------------------------
(* Requests, and the invariant                                             *)

\* A request is a write that has not begun to lock.
LEMMA RequestIs ==
    ASSUME NEW op, NEW by, NEW c, NEW tags, NEW to, NEW n, NEW r, r = Request(op, by, c, tags, to, n)
    PROVE  /\ IsTx(r) /\ r.op = op /\ r.by = by /\ r.crew = c /\ r.tags = tags /\ r.to = to
           /\ r.n = n
           /\ op = "create_crew" => r.at = "account"
           /\ op \in LinkOps => r.at = "link"
           /\ op # "create_crew" /\ op \notin LinkOps => r.at = "crew"
<1>1. PICK at : at = CASE op = "create_crew" -> "account"
                       [] op \in {"unlink_player", "transfer"} -> "link"
                       [] OTHER -> "crew"
  OBVIOUS
<1>2. r = [Idle EXCEPT !.op = op, !.by = by, !.crew = c, !.tags = tags, !.to = to, !.n = n,
                       !.at = at]
  BY <1>1 DEF Request
<1>3. r = [op |-> op, by |-> by, crew |-> c, tags |-> tags, to |-> to, n |-> n,
           at |-> at, left |-> {}, changes |-> {}]
  BY <1>2 DEF Idle
<1>4. /\ r.op = op /\ r.by = by /\ r.crew = c /\ r.tags = tags /\ r.to = to /\ r.n = n
      /\ r.at = at /\ r.left = {} /\ r.changes = {}
  BY <1>3
<1>5. IsTx(r)
  BY <1>3, <1>4 DEF IsTx
<1>6. /\ op = "create_crew" => at = "account"
      /\ op \in LinkOps => at = "link"
      /\ op # "create_crew" /\ op \notin LinkOps => at = "crew"
  BY <1>1 DEF LinkOps
<1> QED BY <1>4, <1>5, <1>6

\* What a request may be.
Fair(r) ==
    /\ IsTx(r) /\ Asked(r) /\ r # Idle
    /\ r.op = "create_crew" => Unused # {} /\ r.crew = Min(Unused) /\ r.at = "account"
    /\ r.op \in LinkOps => r.at = "link" /\ r.crew = 0
    /\ r.op # "create_crew" /\ r.op \notin LinkOps => r.at = "crew" /\ Exists(r.crew)

LEMMA MemberRequest ==
    ASSUME CrewInv, NEW a \in Accounts, NEW c \in CrewsOf(a), NEW r \in OfMember(a, c)
    PROVE  Fair(r)
<1>1. c \in Crews /\ Exists(c)
  BY RowsOf DEF CrewsOf
<1>2. ASSUME NEW op \in MemberOps, NEW tags \in SUBSET Players, NEW to, NEW n,
             r = Request(op, a, c, tags, to, n), op = "update_crew" => n \in Sizes,
             op = "remove_player" => \E p \in Players : tags = {p},
             op \in {"set_member_role", "hand_over"} => to \in Accounts
      PROVE  Fair(r)
  <2>1. op # "create_crew" /\ op \notin LinkOps
    BY DEF MemberOps, LinkOps
  <2>2. IsTx(r) /\ r.op = op /\ r.by = a /\ r.crew = c /\ r.tags = tags /\ r.to = to /\ r.n = n
        /\ r.at = "crew"
    BY <1>2, <2>1, RequestIs
  <2>3. r # Idle
    BY <2>2 DEF Idle
  <2>4. Asked(r)
    BY <1>1, <1>2, <2>2 DEF Asked
  <2> QED BY <1>1, <2>1, <2>2, <2>3, <2>4 DEF Fair
<1>3. ASSUME NEW tags \in (SUBSET Own(a)) \ {{}}, r = Request("add_players", a, c, tags, None, 0)
      PROVE  Fair(r)
  <2>1. tags \in SUBSET Players /\ tags # {}
    BY DEF Own
  <2>2. PICK op, n : op = "add_players" /\ n = 0
    OBVIOUS
  <2>3. op # "create_crew" /\ op \notin LinkOps /\ op \in JoinOps
    BY <2>2 DEF LinkOps, JoinOps
  <2>4. r = Request(op, a, c, tags, None, n)
    BY <1>3, <2>2
  <2>5. IsTx(r) /\ r.op = op /\ r.by = a /\ r.crew = c /\ r.tags = tags /\ r.at = "crew"
    BY <2>3, <2>4, RequestIs
  <2>6. r # Idle
    BY <2>5 DEF Idle
  <2>7. Asked(r)
    BY <1>1, <2>1, <2>2, <2>3, <2>5 DEF Asked
  <2> QED BY <1>1, <2>3, <2>5, <2>6, <2>7 DEF Fair
<1>4. CASE \E n \in Sizes : r = Request("update_crew", a, c, {}, None, n)
  BY <1>2, <1>4 DEF MemberOps
<1>5. CASE \E op \in {"delete_crew", "leave_crew", "make_invite"} : r = Request(op, a, c, {}, None, 0)
  BY <1>2, <1>5 DEF MemberOps
<1>6. CASE \E p \in Used(c) : r = Request("remove_player", a, c, {p}, None, 0)
  BY <1>2, <1>6 DEF MemberOps, Used
<1>7. CASE \E b \in Accounts, n \in {0, 1} : r = Request("set_member_role", a, c, {}, b, n)
  BY <1>2, <1>7 DEF MemberOps
<1>8. CASE \E b \in Accounts : r = Request("hand_over", a, c, {}, b, 0)
  BY <1>2, <1>8 DEF MemberOps
<1>9. CASE \E b \in invites[c] : r = Request("revoke_invite", a, c, {}, b, 0)
  BY <1>2, <1>9 DEF MemberOps
<1>10. CASE \E tags \in (SUBSET Own(a)) \ {{}} : r = Request("add_players", a, c, tags, None, 0)
  BY <1>3, <1>10
<1> QED BY <1>4, <1>5, <1>6, <1>7, <1>8, <1>9, <1>10 DEF OfMember

LEMMA UnusedIs ==
    ASSUME CrewInv, Unused # {}
    PROVE  Min(Unused) \in Unused /\ Min(Unused) \in Crews /\ size[Min(Unused)] = 0
<1>1. PICK S : S = Unused
  OBVIOUS
<1>2. S \in SUBSET Nat /\ S # {} /\ \A c \in S : c \in Crews /\ size[c] = 0
  BY <1>1, CrewConstants DEF Unused
<1>3. Min(S) \in S
  BY <1>2, MinIs
<1> QED BY <1>1, <1>2, <1>3

LEMMA AnyoneRequest ==
    ASSUME CrewInv, NEW a \in Accounts, NEW r \in OfAnyone(a)
    PROVE  Fair(r)
<1>0. \A tags \in (SUBSET Own(a)) \ {{}} : tags \in SUBSET Players /\ tags # {}
  BY DEF Own
<1>1. ASSUME NEW tags \in (SUBSET Own(a)) \ {{}}, NEW n \in Sizes, Unused # {},
             r = Request("create_crew", a, Min(Unused), tags, None, n)
      PROVE  Fair(r)
  <2>1. PICK op, c : op = "create_crew" /\ c = Min(Unused)
    OBVIOUS
  <2>2. r = Request(op, a, c, tags, None, n)
    BY <1>1, <2>1
  <2>3. IsTx(r) /\ r.op = op /\ r.by = a /\ r.crew = c /\ r.tags = tags /\ r.n = n
        /\ (op = "create_crew" => r.at = "account")
    BY <2>2, RequestIs
  <2>4. r.op = "create_crew" /\ r.at = "account" /\ op \in JoinOps /\ op \notin LinkOps
    BY <2>1, <2>3 DEF JoinOps, LinkOps
  <2>5. r # Idle
    BY <2>4 DEF Idle
  <2>6. c \in Crews
    BY <1>1, <2>1, UnusedIs
  <2>7. Asked(r)
    BY <1>0, <2>3, <2>4, <2>6 DEF Asked
  <2> QED BY <1>1, <2>1, <2>3, <2>4, <2>5, <2>7 DEF Fair
<1>2. ASSUME NEW c \in Crews, NEW tags \in (SUBSET Own(a)) \ {{}}, NEW b \in invites[c],
             r = Request("accept_invite", a, c, tags, b, 0)
      PROVE  Fair(r)
  <2>1. PICK op, n : op = "accept_invite" /\ n = 0
    OBVIOUS
  <2>2. r = Request(op, a, c, tags, b, n)
    BY <1>2, <2>1
  <2>3. op # "create_crew" /\ op \notin LinkOps /\ op \in JoinOps
    BY <2>1 DEF LinkOps, JoinOps
  <2>4. IsTx(r) /\ r.op = op /\ r.by = a /\ r.crew = c /\ r.tags = tags /\ r.at = "crew"
    BY <2>2, <2>3, RequestIs
  <2>5. r # Idle
    BY <2>4 DEF Idle
  <2>6. Asked(r)
    BY <1>0, <2>1, <2>3, <2>4 DEF Asked
  <2>7. Exists(c)
    BY RowsOf
  <2> QED BY <2>3, <2>4, <2>5, <2>6, <2>7 DEF Fair
<1>3. ASSUME NEW op \in LinkOps, NEW p \in Own(a), NEW to \in Accounts \cup {None},
             r = Request(op, a, 0, {p}, to, 0)
      PROVE  Fair(r)
  <2>1. PICK c, tags, n : c = 0 /\ tags = {p} /\ n = 0
    OBVIOUS
  <2>2. r = Request(op, a, c, tags, to, n)
    BY <1>3, <2>1
  <2>3. IsTx(r) /\ r.op = op /\ r.by = a /\ r.crew = c /\ r.tags = tags /\ r.to = to
        /\ r.at = "link"
    BY <2>2, RequestIs
  <2>4. r # Idle /\ op # "create_crew"
    BY <2>3 DEF Idle, LinkOps
  <2>5. p \in Players
    BY DEF Own
  <2>6. Asked(r)
    BY <2>1, <2>3, <2>5 DEF Asked
  <2> QED BY <2>1, <2>3, <2>4, <2>6 DEF Fair
<1>4. CASE r \in Creations(a)
  <2>1. \E tags \in (IF Unused = {} THEN {} ELSE (SUBSET Own(a)) \ {{}}), n \in Sizes :
           r = Request("create_crew", a, Min(Unused), tags, None, n)
    BY <1>4 DEF Creations
  <2>2. Unused # {}
    BY <2>1
  <2>3. \E tags \in (SUBSET Own(a)) \ {{}}, n \in Sizes :
           r = Request("create_crew", a, Min(Unused), tags, None, n)
    BY <2>1, <2>2
  <2> QED BY <1>1, <2>2, <2>3
<1>5. CASE r \in Acceptances(a)
  <2>1. PICK c \in Crews : r \in {Request("accept_invite", a, c, tags, b, 0) :
                                    tags \in (SUBSET Own(a)) \ {{}}, b \in invites[c]}
    BY <1>5 DEF Acceptances
  <2>2. \E tags \in (SUBSET Own(a)) \ {{}}, b \in invites[c] :
           r = Request("accept_invite", a, c, tags, b, 0)
    BY <2>1
  <2> QED BY <1>2, <2>2
<1>6. CASE r \in Unlinks(a)
  <2>1. "unlink_player" \in LinkOps
    BY DEF LinkOps
  <2> QED BY <1>3, <1>6, <2>1 DEF Unlinks
<1>7. CASE r \in Transfers(a)
  <2>1. "transfer" \in LinkOps
    BY DEF LinkOps
  <2>2. PICK p \in Own(a) : r \in {Request("transfer", a, 0, {p}, b, 0) : b \in Accounts \ {a}}
    BY <1>7 DEF Transfers
  <2>3. PICK b \in Accounts \ {a} : r = Request("transfer", a, 0, {p}, b, 0)
    BY <2>2
  <2>4. b \in Accounts \cup {None}
    OBVIOUS
  <2> QED BY <1>3, <2>1, <2>3, <2>4
<1> QED BY <1>4, <1>5, <1>6, <1>7 DEF OfAnyone

\* A connection begins with such a request.
LEMMA BegunIsFair ==
    ASSUME CrewInv, NEW w \in Writes, Begin(w)
    PROVE  \E r : Fair(r) /\ tx' = [tx EXCEPT ![w] = r]
<1>1. PICK a \in Accounts : \E r \in OfAnyone(a) \cup UNION {OfMember(a, c) : c \in CrewsOf(a)} :
         tx' = [tx EXCEPT ![w] = r]
  BY DEF Begin
<1>2. PICK r \in OfAnyone(a) \cup UNION {OfMember(a, c) : c \in CrewsOf(a)} :
         tx' = [tx EXCEPT ![w] = r]
  BY <1>1
<1>3. CASE r \in OfAnyone(a)
  BY <1>2, <1>3, AnyoneRequest
<1>4. CASE \E c \in CrewsOf(a) : r \in OfMember(a, c)
  BY <1>2, <1>4, MemberRequest
<1> QED BY <1>2, <1>3, <1>4

LEMMA BeginStep ==
    ASSUME CrewInv, NEW w \in Writes, Begin(w)
    PROVE  CrewInv'
<1>1. /\ tx[w].at = "idle" /\ UNCHANGED <<crewRows, link, locks>>
  BY DEF Begin
<1>2. PICK r : Fair(r) /\ tx' = [tx EXCEPT ![w] = r]
  BY BegunIsFair
<1>3. /\ tx'[w] = r /\ \A v \in Writes \ {w} : tx'[v] = tx[v]
      /\ DOMAIN tx' = Writes /\ tx' = [v \in Writes |-> tx'[v]]
  BY <1>2 DEF CrewInv, TxTypes
<1>4. /\ Exclusive' /\ DOMAIN locks' = Writes /\ locks' = [v \in Writes |-> locks'[v]]
      /\ locks' = locks /\ size' = size
  BY <1>1 DEF CrewInv, TxTypes, Exclusive, crewRows
<1>5. \A v \in Writes \ {w} : Calm(v)
  BY <1>1, <1>3, <1>4, QuietCalm
<1>6. RowTypes' /\ NoRows' /\ CrewsHold'
  BY <1>1, QuietRows
<1>7. Ready(w)'
  BY <1>2, <1>3 DEF Fair, Ready, MemberOps, JoinOps, LinkOps
<1>8. r.op = "create_crew" => /\ size'[r.crew] = 0
                              /\ \A v \in Writes : tx[v].crew # r.crew
  BY <1>2, <1>4, UnusedIs DEF Fair, Unused
<1>9. ASSUME NEW v \in Writes \ {w}, tx[v].op = "create_crew"
      PROVE  size'[tx[v].crew] = 0 /\ r.crew # tx[v].crew
  <2>1. tx[v].crew # 0 /\ size[tx[v].crew] = 0
    BY <1>9, CreatesACrew DEF CrewInv, Fresh
  <2>2. CASE r.op = "create_crew"
    BY <1>4, <1>8, <2>1, <2>2
  <2>3. CASE r.op # "create_crew"
    BY <1>2, <1>4, <2>1, <2>3 DEF Fair, Exists
  <2> QED BY <2>2, <2>3
<1>10. IsTx(tx'[w]) /\ Asked(tx'[w])
  BY <1>2, <1>3 DEF Fair
<1> QED BY <1>3, <1>4, <1>5, <1>6, <1>7, <1>8, <1>9, <1>10, OneWriteSteps

LEMMA LinkPlayerStep ==
    ASSUME CrewInv, NEW p \in Players, NEW a \in Accounts, LinkPlayer(p, a)
    PROVE  CrewInv'
<1>1. /\ link[p] = None /\ link' = [link EXCEPT ![p] = a]
      /\ UNCHANGED <<size, role, place, invites, tx, locks>>
  BY DEF LinkPlayer, crewRows
<1>2. RowTypes'
  BY <1>1 DEF CrewInv, RowTypes
<1>3. NoRows' /\ Fresh' /\ Exclusive' /\ TxTypes'
  BY <1>1 DEF CrewInv, NoRows, Fresh, Exclusive, TxTypes, Exists
<1>4. CrewsHold'
  <2>1. ASSUME NEW c \in Crews, Exists(c)
        PROVE  CrewSound(size[c], role[c], place[c], link')
    <3>1. CrewSound(size[c], role[c], place[c], link)
      BY <2>1, RowsOf
    <3>2. \A x \in Players : place[c][x] # None => link[x] # None
      BY <3>1 DEF CrewSound
    <3>3. \A x \in Players : place[c][x] # None => link'[x] = link[x]
      BY <1>1, <3>2 DEF CrewInv, RowTypes
    <3>4. PICK n, r, q, k, j : n = size[c] /\ r = role[c] /\ q = place[c] /\ k = link /\ j = link'
      OBVIOUS
    <3>5. CrewSound(n, r, q, j)
      BY <3>1, <3>3, <3>4, LinkMoved
    <3> QED BY <3>4, <3>5
  <2>2. \A x : CrewsOf(x)' = CrewsOf(x)
    BY <1>1 DEF CrewsOf
  <2> QED BY <1>1, <2>1, <2>2 DEF CrewInv, CrewsHold, Exists
<1>5. \A v \in Writes : Ready(v)'
  BY LinkPlayerCalm, ReadyStays DEF CrewInv
<1> QED BY <1>2, <1>3, <1>4, <1>5 DEF CrewInv

LEMMA InitHolds == Init => CrewInv
<1> SUFFICES ASSUME Init PROVE CrewInv
  OBVIOUS
<1>1. PICK f \in Founded : size = f.size /\ role = f.role /\ place = f.place /\ invites = f.invites
  BY DEF Init
<1>2. /\ link = Linked /\ tx = [w \in Writes |-> Idle] /\ locks = [w \in Writes |-> {}]
  BY DEF Init
<1>3. /\ size \in [Crews -> Sizes \cup {0}] /\ role \in [Crews -> [Accounts -> Roles]]
      /\ place \in [Crews -> [Players -> Accounts \cup {None}]]
      /\ invites \in [Crews -> SUBSET Accounts]
      /\ \A c \in Crews : IF size[c] = 0 THEN NoCrew(role[c], place[c], invites[c])
                          ELSE CrewSound(size[c], role[c], place[c], link)
      /\ \A a \in Accounts : Cardinality({c \in Crews : role[c][a] # "none"}) <= CrewLimit
  BY <1>1, <1>2, FoundedCrews
<1>4. RowTypes
  BY <1>2, <1>3, CrewConstants DEF RowTypes
<1>5. \A c \in Crews : Exists(c) <=> size[c] # 0
  <2>1. \A n \in Sizes \cup {0} : n > 0 <=> n # 0
    BY CrewConstants
  <2> QED BY <1>3, <2>1 DEF Exists
<1>6. NoRows
  BY <1>3, <1>5 DEF NoRows
<1>7. CrewsHold
  BY <1>3, <1>5 DEF CrewsHold, CrewsOf
<1>8. TxTypes
  <2>1. \A w \in Writes : tx[w] = Idle
    BY <1>2
  <2>2. \A w \in Writes : IsTx(tx[w]) /\ Asked(tx[w])
    BY <2>1 DEF IsTx, Asked, Idle
  <2> QED BY <1>2, <2>2 DEF TxTypes
<1>9. Fresh /\ Exclusive /\ \A w \in Writes : Ready(w)
  <2>1. \A w \in Writes : tx[w] = Idle /\ locks[w] = {}
    BY <1>2
  <2> QED BY <2>1 DEF Fresh, Exclusive, Ready, Idle, MemberOps, JoinOps, LinkOps
<1> QED BY <1>4, <1>6, <1>7, <1>8, <1>9 DEF CrewInv

LEMMA CrewStep == CrewInv /\ [Next]_vars => CrewInv'
<1> SUFFICES ASSUME CrewInv, [Next]_vars PROVE CrewInv'
  OBVIOUS
<1>1. ASSUME NEW w \in Writes, Begin(w) PROVE CrewInv'
  BY <1>1, BeginStep
<1>2. ASSUME NEW w \in Writes, Handler(w) PROVE CrewInv'
  BY <1>2, MemberStep, JoinCrewStep, LockAccountStep, CheckPlacesStep, InsertPlaceStep,
     LockLinkStep, LockNextCrewStep, DropLinkStep, QueueCheckStep DEF Handler
<1>3. ASSUME NEW w \in Writes, Commit(w) PROVE CrewInv'
  BY <1>3, Commits
<1>4. ASSUME NEW w \in Writes, GiveUp(w) PROVE CrewInv'
  BY <1>4, Ends DEF GiveUp
<1>5. ASSUME NEW p \in Players, NEW a \in Accounts, LinkPlayer(p, a) PROVE CrewInv'
  BY <1>5, LinkPlayerStep
<1>6. CASE UNCHANGED vars
  <2>1. UNCHANGED <<size, role, place, invites, link, tx, locks>>
    BY <1>6 DEF vars, crewRows
  <2>2. \A v \in Writes : Ready(v)'
    BY <1>6, QuietCalm, ReadyStays DEF vars
  <2>3. RowTypes' /\ NoRows' /\ CrewsHold'
    BY <1>6, QuietRows DEF vars
  <2>4. TxTypes' /\ Fresh' /\ Exclusive'
    BY <2>1 DEF CrewInv, TxTypes, Fresh, Exclusive
  <2> QED BY <2>2, <2>3, <2>4 DEF CrewInv
<1> QED BY <1>1, <1>2, <1>3, <1>4, <1>5, <1>6 DEF Next

\* Whatever accounts, players and connections there are, and however their
\* writes interleave, wait, fail and commit, every crew has its one owner, no
\* member without a place, no more places than its size, only places of its
\* members' own verified players, and nobody is in more crews than the limit.
THEOREM CrewsAreSound == Spec => []CrewsHold
<1>1. Spec => []CrewInv
  BY InitHolds, CrewStep, PTL DEF Spec
<1>2. CrewInv => CrewsHold
  BY DEF CrewInv
<1> QED BY <1>1, <1>2, PTL

\* A write that commits has, by the roles and links of that moment, the
\* authority it was given when it took its locks.
LEMMA CommitHasAuthority ==
    ASSUME CrewInv, NEW w \in Writes, Commit(w)
    PROVE  Authority(tx[w])
<1>1. PICK t : t = tx[w] /\ Ready(w) /\ Asked(t) /\ t # Idle /\ t.at = "commit"
  BY DEF CrewInv, TxTypes, Commit, Idle
<1>2. CASE t.op \in MemberOps
  <2>1. MayChange(t, t.changes)
    BY <1>1, <1>2 DEF Ready, MemberReady
  <2>2. CASE t.op = "remove_player"
    BY <1>1, <2>1, <2>2 DEF MayChange, Authority
  <2>3. CASE t.op # "remove_player"
    BY <1>1, <1>2, <2>1, <2>3 DEF MayChange, Authority, MemberOps
  <2> QED BY <2>2, <2>3
<1>3. CASE t.op \in JoinOps
  <2>1. JoinHeld(w)
    BY <1>1, <1>3 DEF Ready, PlacesReady, JoinReady
  <2> QED BY <1>1, <1>3, <2>1 DEF JoinHeld, MyRole, Authority, JoinOps
<1>4. CASE t.op \in LinkOps
  <2>1. LinkReady(w)
    BY <1>1, <1>4 DEF Ready
  <2> QED BY <1>1, <1>4, <2>1 DEF LinkReady, LinkHeld, Authority, LinkOps
<1> QED BY <1>1, <1>2, <1>3, <1>4 DEF Asked

\* What a write commits, its caller may still do at that moment: roles, places,
\* invites and links that changed while it waited do not let it through.
THEOREM AuthorityHolds == Spec => StillAllowed
<1>1. Spec => []CrewInv
  BY InitHolds, CrewStep, PTL DEF Spec
<1>2. CrewInv /\ [Next]_vars => [Allowed]_vars
  BY CommitHasAuthority DEF Allowed
<1> QED BY <1>1, <1>2, PTL DEF Spec, StillAllowed
-----------------------------------------------------------------------------
(* Waiting                                                                 *)

\* A step of a write that goes on leaves the others what they hold.
LEMMA HoldsOn ==
    ASSUME CrewInv, Holding, NEW w \in Writes, Asks(w), HoldsFew(w)',
           NEW rows, locks' = locks \/ Take(w, rows)
    PROVE  Holding'
<1>1. \A v \in Writes \ {w} : tx'[v] = tx[v] /\ locks'[v] = locks[v]
  BY TakeKeepsExclusive DEF Asks
<1> QED BY <1>1 DEF Holding, HoldsFew, Holdable

\* A write that has ended holds nothing.
LEMMA HoldsNoMore ==
    ASSUME CrewInv, Holding, NEW w \in Writes, End(w)
    PROVE  Holding'
<1>1. /\ tx'[w] = Idle /\ \A v \in Writes \ {w} : tx'[v] = tx[v] /\ locks'[v] = locks[v]
  BY EndKeepsExclusive
<1>2. locks'[w] = {}
  BY DEF End, CrewInv, TxTypes
<1>3. HoldsFew(w)'
  BY <1>1, <1>2 DEF HoldsFew, Idle
<1> QED BY <1>1, <1>3 DEF Holding, HoldsFew, Holdable

\* A member's write waits for its crew and holds nothing until it commits.
LEMMA MemberHolds ==
    ASSUME CrewInv, Holding, NEW w \in Writes, NEW allowed, NEW d, Decide(w, allowed, d)
    PROVE  Holding'
<1>1. CASE ~allowed
  BY <1>1, HoldsNoMore DEF Decide
<1>2. CASE allowed
  <2>1. PICK rows, at : rows = {<<"crew", tx[w].crew>>} /\ at = "commit"
    OBVIOUS
  <2>2. Take(w, rows) /\ tx' = [tx EXCEPT ![w].at = at, ![w].changes = d]
    BY <1>2, <2>1 DEF Decide
  <2>set. tx' = [tx EXCEPT ![w].at = at, ![w].changes = d]
    BY <2>2
  <2>3. Asks(w) /\ tx'[w].at = at
    BY <2>set, SetAtChanges, ZenonT(60)
  <2>4. HoldsFew(w)'
    BY <2>1, <2>3 DEF HoldsFew
  <2> QED BY <2>2, <2>3, <2>4, HoldsOn
<1> QED BY <1>1, <1>2

LEMMA JoinCrewHolds ==
    ASSUME CrewInv, Holding, NEW w \in Writes, JoinCrew(w)
    PROVE  Holding'
<1>1. CASE End(w)
  BY <1>1, HoldsNoMore
<1>2. CASE ~End(w)
  <2>1. PICK rows, at, c : /\ rows = {<<"crew", c>>} /\ c = tx[w].crew
                           /\ at = IF Entering(w) THEN "account" ELSE "tags"
    OBVIOUS
  <2>2. Take(w, rows) /\ tx' = [tx EXCEPT ![w].at = at] /\ tx[w].at = "crew"
    BY <1>2, <2>1 DEF JoinCrew, Goto
  <2>set. tx' = [tx EXCEPT ![w].at = at]
    BY <2>2
  <2>3. Asks(w) /\ tx'[w].at = at
    BY <2>set, SetAt, ZenonT(60)
  <2>take. Take(w, rows)
    BY <2>2
  <2>4. locks'[w] = locks[w] \cup rows
    BY <2>take, TakeKeepsExclusive, ZenonT(60)
  <2>5. locks[w] = {}
    BY <2>2 DEF Holding, HoldsFew, Holdable
  <2>6. at \in {"account", "tags"}
    BY <2>1
  <2>7. HoldsFew(w)'
    BY <2>1, <2>3, <2>4, <2>5, <2>6 DEF HoldsFew, Holdable, Asks
  <2> QED BY <2>2, <2>3, <2>7, HoldsOn
<1> QED BY <1>1, <1>2

LEMMA LockAccountHolds ==
    ASSUME CrewInv, Holding, NEW w \in Writes, LockAccount(w)
    PROVE  Holding'
<1>1. PICK rows, at : rows = {<<"account", tx[w].by>>} /\ at = "tags"
  OBVIOUS
<1>2. Take(w, rows) /\ tx' = [tx EXCEPT ![w].at = at] /\ tx[w].at = "account"
  BY <1>1 DEF LockAccount, Goto
<1>set. tx' = [tx EXCEPT ![w].at = at]
  BY <1>2
<1>3. Asks(w) /\ tx'[w].at = at
  BY <1>set, SetAt, ZenonT(60)
<1>take. Take(w, rows)
  BY <1>2
<1>4. locks'[w] = locks[w] \cup rows
  BY <1>take, TakeKeepsExclusive, ZenonT(60)
<1>5. \A l \in locks[w] : l = <<"crew", tx[w].crew>>
  BY <1>2 DEF Holding, HoldsFew, Holdable
<1>6. HoldsFew(w)'
  BY <1>1, <1>3, <1>4, <1>5 DEF HoldsFew, Holdable, Asks
<1> QED BY <1>2, <1>3, <1>6, HoldsOn

LEMMA CheckPlacesHolds ==
    ASSUME CrewInv, Holding, NEW w \in Writes, CheckPlaces(w)
    PROVE  Holding'
<1>1. CASE End(w)
  BY <1>1, HoldsNoMore
<1>2. CASE ~End(w)
  <2>1. PICK rows, at, tags, d :
           rows = {<<"tag", p>> : p \in tx[w].tags} /\ at = "places" /\ tags = tx[w].tags
           /\ d = Joined(w)
    OBVIOUS
  <2>2. Take(w, rows) /\ tx[w].at = "tags"
        /\ tx' = [tx EXCEPT ![w].at = at, ![w].left = tags, ![w].changes = d]
    BY <1>2, <2>1 DEF CheckPlaces, Joined
  <2>set. tx' = [tx EXCEPT ![w].at = at, ![w].left = tags, ![w].changes = d]
    BY <2>2
  <2>3. Asks(w) /\ tx'[w].at = at /\ tx'[w].left = tags
    BY <2>set, SetAll, ZenonT(60)
  <2>take. Take(w, rows)
    BY <2>2
  <2>4. locks'[w] = locks[w] \cup rows
    BY <2>take, TakeKeepsExclusive, ZenonT(60)
  <2>5. \A l \in locks[w] : l = <<"crew", tx[w].crew>> \/ l = <<"account", tx[w].by>>
    BY <2>2 DEF Holding, HoldsFew, Holdable
  <2>6. \A l \in rows : l[1] \in {"tag", "share"}
    BY <2>1
  <2>7. HoldsFew(w)'
    BY <2>1, <2>3, <2>4, <2>5, <2>6 DEF HoldsFew, Holdable, Asks
  <2> QED BY <2>2, <2>3, <2>7, HoldsOn
<1> QED BY <1>1, <1>2

LEMMA InsertPlaceHolds ==
    ASSUME CrewInv, Holding, NEW w \in Writes, InsertPlace(w)
    PROVE  Holding'
<1>1. CASE End(w)
  BY <1>1, HoldsNoMore
<1>2. CASE tx[w].left = {}
  <2>1. PICK at : at = "commit"
    OBVIOUS
  <2>2. tx' = [tx EXCEPT ![w].at = at] /\ locks' = locks
    BY <1>2, <2>1 DEF InsertPlace, Goto
  <2>set. tx' = [tx EXCEPT ![w].at = at]
    BY <2>2
  <2>3. Asks(w) /\ tx'[w].at = at
    BY <2>set, SetAt, ZenonT(60)
  <2>4. HoldsFew(w)'
    BY <2>1, <2>3 DEF HoldsFew
  <2> QED BY <2>2, <2>3, <2>4, HoldsOn
<1>3. CASE tx[w].left # {} /\ ~End(w)
  <2>1. PICK p : p = Min(tx[w].left)
    OBVIOUS
  <2>2. PICK rows, left : rows = {<<"share", p>>} /\ left = tx[w].left \ {p}
    OBVIOUS
  <2>3. Take(w, rows) /\ tx' = [tx EXCEPT ![w].left = left] /\ tx[w].at = "places"
    BY <1>3, <2>1, <2>2 DEF InsertPlace
  <2>set. tx' = [tx EXCEPT ![w].left = left]
    BY <2>3
  <2>4. Asks(w) /\ tx'[w].at = tx[w].at /\ tx'[w].left = left
    BY <2>set, SetLeft, ZenonT(60)
  <2>take. Take(w, rows)
    BY <2>3
  <2>5. locks'[w] = locks[w] \cup rows
    BY <2>take, TakeKeepsExclusive, ZenonT(60)
  <2>6. \A l \in rows : l[1] \in {"tag", "share"}
    BY <2>2
  <2>7. tx[w].left \subseteq tx[w].tags /\ \A l \in locks[w] : Holdable(tx[w], l)
    BY <2>3 DEF Holding, HoldsFew
  <2>8. \A l \in locks'[w] : Holdable(tx'[w], l)
    BY <2>3, <2>4, <2>5, <2>6, <2>7 DEF Holdable, Asks
  <2>9. tx'[w].at = "places" /\ tx'[w].left \subseteq tx'[w].tags
    BY <2>2, <2>3, <2>4, <2>7 DEF Asks
  <2>10. HoldsFew(w)'
    BY <2>8, <2>9 DEF HoldsFew
  <2> QED BY <2>3, <2>4, <2>10, HoldsOn
<1> QED BY <1>1, <1>2, <1>3

LEMMA LockLinkHolds ==
    ASSUME CrewInv, Holding, NEW w \in Writes, LockLink(w)
    PROVE  Holding'
<1>1. CASE End(w)
  BY <1>1, HoldsNoMore
<1>2. CASE ~End(w)
  <2>1. tx[w].at = "link"
    BY DEF LockLink
  <2>2. PICK p \in Players : tx[w].tags = {p}
    BY <2>1, LinkAsks
  <2>3. PICK rows, at, left : rows = {<<"link", p>>} /\ at = "crews" /\ left = InCrews(p)
    OBVIOUS
  <2>4. Take(w, rows) /\ tx' = [tx EXCEPT ![w].at = at, ![w].left = left]
    BY <1>2, <2>2, <2>3, MinOfOne DEF LockLink
  <2>set. tx' = [tx EXCEPT ![w].at = at, ![w].left = left]
    BY <2>4
  <2>5. Asks(w) /\ tx'[w].at = at /\ tx'[w].left = left
    BY <2>set, SetAtLeft, ZenonT(60)
  <2>take. Take(w, rows)
    BY <2>4
  <2>6. locks'[w] = locks[w] \cup rows
    BY <2>take, TakeKeepsExclusive, ZenonT(60)
  <2>7. locks[w] = {}
    BY <2>1 DEF Holding, HoldsFew, Holdable
  <2>8. left \subseteq Crews
    BY <2>3 DEF InCrews
  <2>9. HoldsFew(w)'
    BY <2>2, <2>3, <2>5, <2>6, <2>7, <2>8 DEF HoldsFew, Holdable, Asks
  <2> QED BY <2>4, <2>5, <2>9, HoldsOn
<1> QED BY <1>1, <1>2

\* The crews are locked in order.
LEMMA LockNextCrewHolds ==
    ASSUME CrewInv, Holding, NEW w \in Writes, LockNextCrew(w)
    PROVE  Holding'
<1>1. PICK c, t : c = Min(tx[w].left) /\ t = tx[w]
  OBVIOUS
<1>2. PICK rows, left : rows = {<<"crew", c>>} /\ left = tx[w].left \ {c}
  OBVIOUS
<1>3. /\ Take(w, rows) /\ tx' = [tx EXCEPT ![w].left = left]
      /\ tx[w].at = "crews" /\ tx[w].left # {}
  BY <1>1, <1>2 DEF LockNextCrew
<1>set. tx' = [tx EXCEPT ![w].left = left]
  BY <1>3
<1>4. Asks(w) /\ tx'[w].at = tx[w].at /\ tx'[w].left = left
  BY <1>set, SetLeft, ZenonT(60)
<1>take. Take(w, rows)
  BY <1>3
<1>5. locks'[w] = locks[w] \cup rows
  BY <1>take, TakeKeepsExclusive, ZenonT(60)
<1>6. t.left \subseteq Crews /\ \A l \in locks[w] : Holdable(t, l)
  BY <1>1, <1>3 DEF Holding, HoldsFew
<1>7. c \in Crews /\ \A d \in left : c < d
  <2>1. PICK S : S = t.left
    OBVIOUS
  <2>2. S \in SUBSET Nat /\ S # {} /\ S \subseteq Crews
    BY <1>1, <1>3, <1>6, <2>1, CrewConstants
  <2>3. Min(S) \in S /\ \A x \in S : Min(S) <= x
    BY <2>2, MinIs
  <2>4. c \in S /\ c \in Nat /\ \A x \in S : c <= x /\ x \in Nat
    BY <1>1, <2>1, <2>2, <2>3
  <2>5. \A d \in S \ {c} : c < d
    BY <2>4
  <2> QED BY <1>1, <1>2, <2>1, <2>2, <2>4, <2>5
<1>8. ASSUME NEW l \in locks'[w] PROVE Holdable(tx'[w], l)
  <2>1. tx'[w].at = "crews" /\ tx'[w].tags = t.tags /\ left \subseteq t.left
    BY <1>1, <1>2, <1>3, <1>4 DEF Asks
  <2>2. CASE l \in rows
    BY <1>2, <1>4, <1>7, <2>1, <2>2 DEF Holdable
  <2>3. CASE l \in locks[w]
    BY <1>1, <1>3, <1>4, <1>6, <2>1, <2>3 DEF Holdable
  <2> QED BY <1>5, <2>2, <2>3
<1>9. HoldsFew(w)'
  BY <1>1, <1>2, <1>3, <1>4, <1>6, <1>8 DEF HoldsFew
<1> QED BY <1>3, <1>4, <1>9, HoldsOn

LEMMA DropLinkHolds ==
    ASSUME CrewInv, Holding, NEW w \in Writes, DropLink(w)
    PROVE  Holding'
<1>1. CASE End(w)
  BY <1>1, HoldsNoMore
<1>2. CASE ~End(w)
  <2>1. PICK at, p : at = (IF tx[w].op = "transfer" THEN "check" ELSE "commit") /\ p = Min(tx[w].tags)
    OBVIOUS
  <2>2. PICK d : d = Leaves(InCrews(p), p) \cup {<<"link", p, tx[w].to>>}
    OBVIOUS
  <2>3. tx' = [tx EXCEPT ![w].at = at, ![w].changes = d] /\ locks' = locks
    BY <1>2, <2>1, <2>2 DEF DropLink
  <2>set. tx' = [tx EXCEPT ![w].at = at, ![w].changes = d]
    BY <2>3
  <2>4. Asks(w) /\ tx'[w].at = at /\ tx'[w].left = tx[w].left
    BY <2>set, SetAtChanges, ZenonT(60)
  <2>5. tx[w].at = "crews" /\ \A l \in locks[w] : Holdable(tx[w], l)
    BY DEF DropLink, Holding, HoldsFew
  <2>6. at = "check" => \A l \in locks'[w] : Holdable(tx'[w], l)
    BY <2>3, <2>4, <2>5 DEF Holdable, Asks
  <2>7. HoldsFew(w)'
    BY <2>1, <2>4, <2>6 DEF HoldsFew
  <2> QED BY <2>3, <2>4, <2>7, HoldsOn
<1> QED BY <1>1, <1>2

LEMMA QueueCheckHolds ==
    ASSUME CrewInv, Holding, NEW w \in Writes, QueueCheck(w)
    PROVE  Holding'
<1>1. PICK rows, at : rows = {<<"tag", q>> : q \in tx[w].tags} /\ at = "commit"
  OBVIOUS
<1>2. Take(w, rows) /\ tx' = [tx EXCEPT ![w].at = at]
  BY <1>1 DEF QueueCheck, Goto
<1>set. tx' = [tx EXCEPT ![w].at = at]
  BY <1>2
<1>3. Asks(w) /\ tx'[w].at = at
  BY <1>set, SetAt, ZenonT(60)
<1>4. HoldsFew(w)'
  BY <1>1, <1>3 DEF HoldsFew
<1> QED BY <1>2, <1>3, <1>4, HoldsOn

\* A request holds nothing yet.
LEMMA BeginHolds ==
    ASSUME CrewInv, Holding, NEW w \in Writes, Begin(w)
    PROVE  Holding'
<1>1. tx[w].at = "idle" /\ locks' = locks
  BY DEF Begin
<1>2. PICK r : Fair(r) /\ tx' = [tx EXCEPT ![w] = r]
  BY BegunIsFair
<1>3. tx'[w] = r /\ \A v \in Writes \ {w} : tx'[v] = tx[v]
  BY <1>2 DEF CrewInv, TxTypes
<1>4. locks[w] = {}
  BY <1>1 DEF Holding, HoldsFew, Holdable
<1>5. r.at # "crews" /\ r.at # "places"
  BY <1>2 DEF Fair
<1>6. HoldsFew(w)'
  BY <1>1, <1>3, <1>4, <1>5 DEF HoldsFew
<1> QED BY <1>1, <1>3, <1>6 DEF Holding, HoldsFew, Holdable

LEMMA HoldingStep == CrewInv /\ Holding /\ [Next]_vars => Holding'
<1> SUFFICES ASSUME CrewInv, Holding, [Next]_vars PROVE Holding'
  OBVIOUS
<1>1. ASSUME NEW w \in Writes, Handler(w) PROVE Holding'
  <2>1. CASE UpdateCrew(w)
    BY <2>1, MemberHolds DEF UpdateCrew
  <2>2. CASE DeleteCrew(w)
    BY <2>2, MemberHolds DEF DeleteCrew
  <2>3. CASE RemovePlayer(w)
    BY <2>3, MemberHolds DEF RemovePlayer
  <2>4. CASE SetMemberRole(w)
    BY <2>4, MemberHolds DEF SetMemberRole
  <2>5. CASE HandOver(w)
    BY <2>5, MemberHolds DEF HandOver
  <2>6. CASE LeaveCrew(w)
    BY <2>6, MemberHolds DEF LeaveCrew
  <2>7. CASE MakeInvite(w)
    BY <2>7, MemberHolds DEF MakeInvite
  <2>8. CASE RevokeInvite(w)
    BY <2>8, MemberHolds DEF RevokeInvite
  <2> QED BY <1>1, <2>1, <2>2, <2>3, <2>4, <2>5, <2>6, <2>7, <2>8, JoinCrewHolds,
             LockAccountHolds, CheckPlacesHolds, InsertPlaceHolds, LockLinkHolds,
             LockNextCrewHolds, DropLinkHolds, QueueCheckHolds DEF Handler
<1>2. ASSUME NEW w \in Writes, Begin(w) PROVE Holding'
  BY <1>2, BeginHolds
<1>3. ASSUME NEW w \in Writes, Commit(w) \/ GiveUp(w) PROVE Holding'
  BY <1>3, HoldsNoMore DEF Commit, GiveUp
<1>4. CASE UNCHANGED <<tx, locks>>
  BY <1>4 DEF Holding, HoldsFew, Holdable
<1> QED BY <1>1, <1>2, <1>3, <1>4 DEF Next, LinkPlayer, vars

\* What a write that waits for another needs of it.
LEMMA Needs ==
    ASSUME CrewInv, NEW v \in Writes, NEW w \in Writes, WaitsFor(v, w)
    PROVE  /\ v # w
           /\ \/ tx[v].at \in {"crew", "link"}
              \/ tx[v].at = "account" /\ <<"account", tx[v].by>> \in locks[w]
              \/ tx[v].at = "tags" /\ \E p : <<"tag", p>> \in locks[w]
              \/ tx[v].at = "check" /\ \E p : <<"tag", p>> \in locks[w]
              \/ /\ tx[v].at = "places" /\ tx[v].left # {}
                 /\ <<"link", Min(tx[v].left)>> \in locks[w]
              \/ /\ tx[v].at = "crews" /\ tx[v].left # {}
                 /\ <<"crew", Min(tx[v].left)>> \in locks[w]
<1>1. PICK t, m : t = tx[v] /\ m = Min(tx[v].left)
  OBVIOUS
<1>2. v # w /\ \E l \in Wants(v) : \E k \in Conflicting(l) : k \in locks[w]
  BY DEF WaitsFor
<1>3. PICK l \in Wants(v) : \E k \in Conflicting(l) : k \in locks[w]
  BY <1>2
<1>4. CASE t.at \in {"crew", "link"}
  BY <1>1, <1>2, <1>4
<1>5. CASE t.at = "account"
  <2>1. l = <<"account", t.by>>
    BY <1>1, <1>3, <1>5 DEF Wants
  <2>2. Conflicting(l) = {l}
    BY <2>1, ConflictsAre
  <2> QED BY <1>1, <1>2, <1>3, <1>5, <2>1, <2>2
<1>6. CASE t.at \in {"tags", "check"}
  <2>1. PICK p : l = <<"tag", p>>
    BY <1>1, <1>3, <1>6 DEF Wants
  <2>2. Conflicting(l) = {l}
    BY <2>1, ConflictsAre
  <2> QED BY <1>1, <1>2, <1>3, <1>6, <2>1, <2>2
<1>7. CASE t.at = "places"
  <2>1. t.left # {} /\ l = <<"share", m>>
    BY <1>1, <1>3, <1>7 DEF Wants
  <2>2. Conflicting(l) = {<<"link", m>>}
    BY <2>1, ConflictsAre
  <2> QED BY <1>1, <1>2, <1>3, <1>7, <2>1, <2>2
<1>8. CASE t.at = "crews"
  <2>1. t.left # {} /\ l = <<"crew", m>>
    BY <1>1, <1>3, <1>8 DEF Wants
  <2>2. Conflicting(l) = {l}
    BY <2>1, ConflictsAre
  <2> QED BY <1>1, <1>2, <1>3, <1>8, <2>1, <2>2
<1>9. t.at \in {"crew", "link", "account", "tags", "places", "crews", "check"}
  BY <1>1, <1>3 DEF Wants
<1> QED BY <1>4, <1>5, <1>6, <1>7, <1>8, <1>9

\* What a write that waits may hold.
LEMMA HeldBy ==
    ASSUME Holding, NEW w \in Writes, tx[w].at # "commit", NEW x
    PROVE  /\ <<"crew", x>> \in locks[w] =>
                 \/ tx[w].at \in {"account", "tags", "places"} /\ x = tx[w].crew
                 \/ tx[w].at \in {"crews", "check"} /\ x \in Crews /\ \A d \in tx[w].left : x < d
           /\ <<"account", x>> \in locks[w] => tx[w].at \in {"tags", "places"}
           /\ <<"tag", x>> \in locks[w] => tx[w].at = "places"
           /\ <<"link", x>> \in locks[w] => tx[w].at \in {"crews", "check"} /\ x \in tx[w].tags
<1>1. \A l \in locks[w] : Holdable(tx[w], l)
  BY DEF Holding, HoldsFew
<1>2. ASSUME <<"crew", x>> \in locks[w]
      PROVE  \/ tx[w].at \in {"account", "tags", "places"} /\ x = tx[w].crew
             \/ tx[w].at \in {"crews", "check"} /\ x \in Crews /\ \A d \in tx[w].left : x < d
  <2>1. Holdable(tx[w], <<"crew", x>>)
    BY <1>1, <1>2
  <2> QED BY <2>1 DEF Holdable
<1>3. ASSUME <<"account", x>> \in locks[w] PROVE tx[w].at \in {"tags", "places"}
  <2>1. Holdable(tx[w], <<"account", x>>)
    BY <1>1, <1>3
  <2> QED BY <2>1 DEF Holdable
<1>4. ASSUME <<"tag", x>> \in locks[w] PROVE tx[w].at = "places"
  <2>1. Holdable(tx[w], <<"tag", x>>)
    BY <1>1, <1>4
  <2> QED BY <2>1 DEF Holdable
<1>5. ASSUME <<"link", x>> \in locks[w] PROVE tx[w].at \in {"crews", "check"} /\ x \in tx[w].tags
  <2>1. Holdable(tx[w], <<"link", x>>)
    BY <1>1, <1>5
  <2> QED BY <2>1 DEF Holdable
<1> QED BY <1>2, <1>3, <1>4, <1>5

\* The first of some crews or players that are left.
LEMMA FirstLeft ==
    ASSUME CrewInv, Holding, NEW w \in Writes, tx[w].at \in {"places", "crews"},
           tx[w].left # {}, NEW m, m = Min(tx[w].left)
    PROVE  /\ m \in tx[w].left
           /\ tx[w].at = "crews" => m \in Crews /\ m \in Nat
           /\ tx[w].at = "places" => m \in tx[w].tags
<1>1. PICK S : S = tx[w].left
  OBVIOUS
<1>2. CASE tx[w].at = "crews"
  <2>1. S \in SUBSET Nat /\ S # {} /\ S \subseteq Crews
    BY <1>1, <1>2, CrewConstants DEF Holding, HoldsFew
  <2>2. Min(S) \in S
    BY <2>1, MinIs
  <2> QED BY <1>1, <1>2, <2>1, <2>2
<1>3. CASE tx[w].at = "places"
  <2>1. S \subseteq tx[w].tags /\ tx[w].tags \subseteq Players
    BY <1>1, <1>3 DEF Holding, HoldsFew, CrewInv, TxTypes, Asked, Idle
  <2>2. S \in SUBSET Nat /\ S # {}
    BY <1>1, <2>1, CrewConstants
  <2>3. Min(S) \in S
    BY <2>2, MinIs
  <2> QED BY <1>1, <1>3, <2>1, <2>3
<1> QED BY <1>2, <1>3

\* A join that waits for the link of a player who goes with a write that waits
\* for the join: for its crew, where the join found the player without a place,
\* or for the tag of the player.
LEMMA JoinMeetsUnlink ==
    ASSUME CrewInv, Holding, NEW v \in Writes, NEW w \in Writes, WaitsFor(w, v),
           tx[v].at = "places", tx[v].left # {}, <<"link", Min(tx[v].left)>> \in locks[w],
           tx[w].at \in {"crews", "check"}
    PROVE  Crossed(v, w)
<1>1. PICK p, c : p = Min(tx[v].left) /\ c = Min(tx[w].left)
  OBVIOUS
<1>2. p \in tx[v].tags
  BY <1>1, FirstLeft
<1>3. p \in tx[w].tags
  BY <1>1, HeldBy
<1>4. JoinsPlayerOf(v, w)
  BY <1>1, <1>3 DEF JoinsPlayerOf
<1>5. CASE tx[w].at = "check"
  BY <1>4, <1>5 DEF Crossed
<1>6. CASE tx[w].at = "crews"
  <2>1. tx[w].tags = {p}
    BY <1>3, LinkAsks
  <2>2. <<"crew", c>> \in locks[v]
    BY <1>1, <1>6, Needs
  <2>3. c = tx[v].crew
    BY <2>2, HeldBy
  <2>4. PlacesReady(v)
    <3>1. tx[v].op \in JoinOps
      BY DEF CrewInv, TxTypes, Asked, Idle
    <3> QED BY <3>1 DEF CrewInv, Ready
  <2>5. c \notin InCrews(p)
    BY <1>2, <2>3, <2>4 DEF PlacesReady, InCrews
  <2>6. LeftSince(w)
    BY <1>1, <1>6, <2>1, <2>5 DEF LeftSince
  <2> QED BY <1>4, <2>6 DEF Crossed
<1> QED BY <1>5, <1>6

LEMMA HeldMeansNoCircle ==
    ASSUME CrewInv, Holding
    PROVE  NoMutualWait
<1> SUFFICES ASSUME NEW v \in Writes, NEW w \in Writes, WaitsFor(v, w), WaitsFor(w, v)
             PROVE  Crossed(v, w) \/ Crossed(w, v)
  BY DEF NoMutualWait
<1>1. /\ tx[v].at \in {"crew", "link", "account", "tags", "places", "crews", "check"}
      /\ tx[w].at \in {"crew", "link", "account", "tags", "places", "crews", "check"}
  BY Needs
<1>2. \A l \in locks[v] : tx[v].at \notin {"crew", "link"}
  BY DEF Holding, HoldsFew, Holdable
<1>3. \A l \in locks[w] : tx[w].at \notin {"crew", "link"}
  BY DEF Holding, HoldsFew, Holdable
<1>4. locks[v] # {} /\ locks[w] # {}
  BY DEF WaitsFor
<1>5. /\ tx[v].at \in {"account", "tags", "places", "crews", "check"}
      /\ tx[w].at \in {"account", "tags", "places", "crews", "check"}
  BY <1>1, <1>2, <1>3, <1>4
<1>6. CASE tx[v].at = "crews" /\ tx[w].at = "crews"
  <2>1. PICK c, d : c = Min(tx[v].left) /\ d = Min(tx[w].left)
    OBVIOUS
  <2>2. /\ tx[v].left # {} /\ <<"crew", c>> \in locks[w]
        /\ tx[w].left # {} /\ <<"crew", d>> \in locks[v]
    BY <1>6, <2>1, Needs
  <2>3. c \in tx[v].left /\ d \in tx[w].left /\ c \in Nat /\ d \in Nat
    BY <1>6, <2>1, <2>2, FirstLeft
  <2>4. c < d /\ d < c
    BY <1>6, <2>2, <2>3, HeldBy
  <2> QED BY <2>3, <2>4
<1>7. CASE tx[v].at = "places" /\ tx[w].at \in {"crews", "check"}
  BY <1>7, Needs, JoinMeetsUnlink
<1>8. CASE tx[w].at = "places" /\ tx[v].at \in {"crews", "check"}
  BY <1>8, Needs, JoinMeetsUnlink
<1>9. ASSUME NEW x \in Writes, NEW y \in Writes, WaitsFor(x, y), WaitsFor(y, x),
             tx[x].at \in {"account", "tags"},
             tx[y].at \in {"account", "tags", "places", "crews", "check"}
      PROVE  FALSE
  <2>1. CASE tx[x].at = "account"
    <3>1. tx[y].at \in {"tags", "places"}
      BY <1>9, <2>1, Needs, HeldBy
    <3>2. \E p : <<"tag", p>> \in locks[x] \/ <<"link", p>> \in locks[x]
      BY <1>9, <3>1, Needs
    <3> QED BY <2>1, <3>2, HeldBy
  <2>2. CASE tx[x].at = "tags"
    <3>1. tx[y].at = "places"
      BY <1>9, <2>2, Needs, HeldBy
    <3>2. \E p : <<"link", p>> \in locks[x]
      BY <1>9, <3>1, Needs
    <3> QED BY <2>2, <3>2, HeldBy
  <2> QED BY <1>9, <2>1, <2>2
<1>10. CASE tx[v].at = "places" /\ tx[w].at = "places"
  <2>1. \E p : <<"link", p>> \in locks[w]
    BY <1>10, Needs
  <2> QED BY <1>10, <2>1, HeldBy
<1>11. ASSUME NEW x \in Writes, NEW y \in Writes, WaitsFor(x, y),
              tx[x].at = "check", tx[y].at \in {"crews", "check"}
       PROVE  FALSE
  <2>1. \E p : <<"tag", p>> \in locks[y]
    BY <1>11, Needs
  <2> QED BY <1>11, <2>1, HeldBy
<1> QED BY <1>5, <1>6, <1>7, <1>8, <1>9, <1>10, <1>11

\* No two writes wait for each other, for any number of connections, crews and
\* places, unless one is a join that waits for the link of a player who goes
\* with the other, and that one waits for a crew the player has left since it
\* chose its crews or is a transfer that waits for the player's tag.
THEOREM WritesNeverCircle == Spec => []NoMutualWait
<1>1. Init => Holding
  BY DEF Init, Holding, HoldsFew, Idle
<1>2. Spec => [](CrewInv /\ Holding)
  BY <1>1, InitHolds, CrewStep, HoldingStep, PTL DEF Spec
<1> QED BY <1>2, HeldMeansNoCircle, PTL

=============================================================================
