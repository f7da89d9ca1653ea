-------------------------- MODULE DayResultsProofs --------------------------
(***************************************************************************)
(* Proofs about DayResults for any players, days, lanes and savers.        *)
(*                                                                         *)
(* That the calculations never wait for one another in a circle is a       *)
(* matter of order, and not of one order for all: a lane locks its days in *)
(* order and only then the Resets of its results, while the sweep goes     *)
(* back and forth between a day and its Reset.  A circle would need the    *)
(* sweep, holding a Reset, to wait for a later day of a player whose lane  *)
(* waits for an earlier Reset; but what a lane holds has no gaps           *)
(* (ChainOK), so it would hold a day the sweep holds.                      *)
(*                                                                         *)
(* That no stale result is without a cause needs to know what each job     *)
(* under way has calculated: from what (DoneOK), and that the next late    *)
(* day follows in the same job or its result starts as before.             *)
(*                                                                         *)
(* That a day stale in what the chain does not compare is seen by the      *)
(* sweep needs to know which version of the day before each result was     *)
(* built from (RestInv).                                                   *)
(***************************************************************************)
EXTENDS DayResults, FiniteSetTheorems, WellFoundedInduction, TLAPS

IsJob(l) ==
    l \in [player : {l.player}, from : {l.from}, sweeps : {l.sweeps}, pending : {l.pending},
           day : {l.day}, done : {l.done}, days : {l.days}, members : {l.members},
           resets : {l.resets}]

\* Days are locked in order, the one being calculated last; results are recorded
\* for their Resets in order.
JobOK(l) ==
    /\ IsJob(l) /\ l.sweeps \in BOOLEAN
    /\ l.pending \subseteq Days /\ l.days \subseteq Days /\ l.day \in l.days \cup {0}
    /\ DOMAIN l.done = l.days \ {l.day}
    /\ l.members \subseteq DOMAIN l.done /\ l.resets \subseteq l.members
    /\ \A d \in l.days : (\A e \in l.pending : d < e) /\ (l.day # 0 => d <= l.day)
    /\ \A r \in l.resets, m \in l.members \ l.resets : r < m

\* A lane goes on from day to day, and locks Resets when it has all its days.
ChainOK(l) ==
    ~l.sweeps =>
        /\ \A d, e \in l.days \cup l.pending, f \in Days :
               d <= f /\ f <= e => f \in l.days \cup l.pending
        /\ \A d, e \in l.pending : d = e
        /\ l.day # 0 \/ l.resets # {} => l.pending = {}
        /\ l.day # 0 => l.resets = {}

LockInv ==
    /\ DOMAIN lane = Workers /\ lane = [w \in Workers |-> lane[w]]
    /\ \A w \in Workers : JobOK(lane[w]) /\ ChainOK(lane[w]) /\ (lane[w].sweeps => w = Sweep)
    /\ \A v, w \in Workers : v # w =>
           /\ lane[v].player = lane[w].player => lane[v].days \cap lane[w].days = {}
           /\ lane[v].resets \cap lane[w].resets = {}

-----------------------------------------------------------------------------
(* Least and greatest                                                      *)

LEMMA MinOf ==
    ASSUME NEW S \in SUBSET Nat, S # {}
    PROVE  Min(S) \in S /\ \A x \in S : Min(S) <= x
<1>1. PICK m \in S : \A x \in S : <<x, m>> \notin OpToRel(<, Nat)
  BY WFMin, NatLessThanWellFounded
<1>2. \A x \in S : ~(x < m)
  BY <1>1 DEF OpToRel
<1>3. \A x \in S : m <= x
  BY <1>2
<1> QED BY <1>3 DEF Min

LEMMA MaxOf ==
    ASSUME NEW n \in Nat, NEW S \in SUBSET (1 .. n), S # {}
    PROVE  \E m \in S : \A x \in S : x <= m
<1> DEFINE T == {n - x : x \in S}
<1>1. T \in SUBSET Nat /\ T # {}
  <2>1. \A x \in S : n - x \in Nat
    OBVIOUS
  <2> QED BY <2>1
<1>2. Min(T) \in T /\ \A x \in T : Min(T) <= x
  <2> HIDE DEF T
  <2> QED BY <1>1, MinOf
<1>3. PICK m \in S : Min(T) = n - m
  BY <1>2
<1>4. ASSUME NEW x \in S PROVE x <= m
  <2>1. n - m <= n - x
    BY <1>2, <1>3
  <2> QED BY <2>1
<1> QED BY <1>4

-----------------------------------------------------------------------------
(* The locks a transaction holds and asks for                              *)

LEMMA HeldLocks ==
    ASSUME NEW w
    PROVE  /\ \A p, d : DayLock(p, d) \in Locks(w) <=> p = lane[w].player /\ d \in lane[w].days
           /\ \A d : ResetLock(d) \in Locks(w) <=> d \in lane[w].resets
BY DEF Locks, DayLock, ResetLock

\* It asks for the first of its days, or for the first of its Resets.
LEMMA AskedLock ==
    ASSUME ConstantsFit, NEW w, JobOK(lane[w]), NEW lock, lock \in Wants(w)
    PROVE  /\ lane[w].day = 0 /\ Wants(w) = {lock}
           /\ \E d \in Days :
                \/ /\ lock = ResetLock(d) /\ d \in lane[w].members \ lane[w].resets
                   /\ \A m \in lane[w].members \ lane[w].resets : d <= m
                   /\ lane[w].sweeps \/ lane[w].pending = {}
                \/ /\ lock = DayLock(lane[w].player, d) /\ d \in lane[w].pending
                   /\ \A e \in lane[w].pending : d <= e
                   /\ ~(lane[w].sweeps /\ lane[w].members \ lane[w].resets # {})
<1> DEFINE l == lane[w]
           M == l.members \ l.resets
<1>1. ~(l = NoJob \/ l.day # 0)
  BY DEF Wants
<1>2. M \in SUBSET Nat /\ M \subseteq Days /\ l.pending \in SUBSET Nat /\ l.pending \subseteq Days
  BY DEF JobOK, Days, ConstantsFit
<1>3. l.day = 0
  BY <1>1
<1>4. CASE M # {} /\ (l.sweeps \/ l.pending = {})
  <2>1. Wants(w) = {ResetLock(Min(M))}
    BY <1>1, <1>4 DEF Wants, ToRecord, NextReset
  <2>2. Min(M) \in M /\ \A m \in M : Min(M) <= m
    BY <1>2, <1>4, MinOf
  <2> QED BY <1>2, <1>3, <1>4, <2>1, <2>2
<1>5. CASE ~(M # {} /\ (l.sweeps \/ l.pending = {}))
  <2>1. l.pending # {} /\ Wants(w) = {DayLock(l.player, Min(l.pending))}
    BY <1>1, <1>5 DEF Wants, ToRecord
  <2>2. Min(l.pending) \in l.pending /\ \A e \in l.pending : Min(l.pending) <= e
    BY <1>2, <2>1, MinOf
  <2> QED BY <1>2, <1>3, <1>5, <2>1, <2>2
<1> QED BY <1>4, <1>5

-----------------------------------------------------------------------------
(* The invariant                                                           *)

\* One worker moves on, and holds nothing another holds.
LEMMA LaneKeeps ==
    ASSUME LockInv, NEW w \in Workers, NEW l, lane' = [lane EXCEPT ![w] = l],
           JobOK(l), ChainOK(l), l.sweeps => w = Sweep,
           \A v \in Workers \ {w} :
               /\ lane[v].player = l.player => lane[v].days \cap l.days = {}
               /\ lane[v].resets \cap l.resets = {}
    PROVE  LockInv'
<1>1. lane'[w] = l /\ \A v \in Workers \ {w} : lane'[v] = lane[v]
  BY DEF LockInv
<1>2. DOMAIN lane' = Workers /\ lane' = [v \in Workers |-> lane'[v]]
  BY DEF LockInv
<1>3. Workers' = Workers /\ Sweep' = Sweep
  BY DEF Workers
<1>4. \A v \in Workers : JobOK(lane'[v]) /\ ChainOK(lane'[v]) /\ (lane'[v].sweeps => v = Sweep)
  BY <1>1 DEF LockInv
<1>5. \A v, u \in Workers : v # u =>
          /\ lane'[v].player = lane'[u].player => lane'[v].days \cap lane'[u].days = {}
          /\ lane'[v].resets \cap lane'[u].resets = {}
  BY <1>1 DEF LockInv
<1> QED BY <1>2, <1>3, <1>4, <1>5 DEF LockInv, JobOK, ChainOK, IsJob, Days

LEMMA NobodyOK == JobOK(NoJob) /\ ChainOK(NoJob) /\ NoJob.days = {} /\ NoJob.resets = {} /\ ~NoJob.sweeps
  BY DEF JobOK, IsJob, ChainOK, NoJob

\* A job that has just been taken.
Begun(l, p, pending) ==
    /\ IsJob(l) /\ l.player = p /\ l.pending = pending /\ l.day = 0 /\ DOMAIN l.done = {}
    /\ l.days = {} /\ l.members = {} /\ l.resets = {}

LEMMA EmptyDone == DOMAIN <<>> = {}
  OBVIOUS

LEMMA TakeKeeps ==
    ASSUME LockInv, NEW w \in Lanes, NEW x \in PlayerDays, Take(w, x) PROVE LockInv'
<1>1. w \in Workers /\ x[2] \in Days
  BY DEF Workers, PlayerDays
<1>2. PICK l, p, d : /\ l = [NoJob EXCEPT !.player = p, !.from = d, !.pending = {d}]
                     /\ lane' = [lane EXCEPT ![w] = l] /\ p = x[1] /\ d = x[2]
  BY DEF Take
<1>3. Begun(l, p, {d}) /\ l.sweeps = FALSE
  <2>1. l = [NoJob EXCEPT !.player = p, !.from = d, !.pending = {d}]
    BY <1>2
  <2>2. /\ IsJob(l) /\ l.player = p /\ l.sweeps = FALSE /\ l.pending = {d} /\ l.day = 0
        /\ l.done = <<>> /\ l.days = {} /\ l.members = {} /\ l.resets = {}
    BY <2>1 DEF IsJob, NoJob
  <2> QED BY <2>2, EmptyDone DEF Begun
<1>4. JobOK(l)
  BY <1>1, <1>2, <1>3 DEF JobOK, Begun
<1>5. ChainOK(l)
  BY <1>1, <1>2, <1>3 DEF ChainOK, Begun, Days
<1>6. \A v \in Workers \ {w} :
          /\ lane[v].player = l.player => lane[v].days \cap l.days = {}
          /\ lane[v].resets \cap l.resets = {}
  BY <1>3 DEF Begun
<1>7. lane' = [lane EXCEPT ![w] = l] /\ (l.sweeps => w = Sweep)
  BY <1>2, <1>3
<1> QED BY <1>1, <1>4, <1>5, <1>6, <1>7, LaneKeeps

LEMMA SweepPlayerKeeps ==
    ASSUME LockInv, NEW p \in Players, SweepPlayer(p) PROVE LockInv'
<1>1. PICK from, pending, l : /\ pending \in SUBSET Days
         /\ l = [NoJob EXCEPT !.player = p, !.from = from, !.sweeps = TRUE, !.pending = pending]
         /\ lane' = [lane EXCEPT ![Sweep] = l]
  <2> DEFINE stale == {d \in Days : Saved(<<p, d>>) /\ (Misses(<<p, d>>) \/ Outdated(<<p, d>>))}
             all == {d \in Days : d >= Min(stale) /\ Saved(<<p, d>>)}
  <2>1. lane' = [lane EXCEPT ![Sweep] = [NoJob EXCEPT
            !.player = p, !.from = Min(stale), !.sweeps = TRUE, !.pending = all]]
    BY DEF SweepPlayer
  <2>2. all \in SUBSET Days
    OBVIOUS
  <2> HIDE DEF stale, all
  <2> QED BY <2>1, <2>2
<1>2. Begun(l, p, pending) /\ l.sweeps = TRUE
  <2>1. l = [NoJob EXCEPT !.player = p, !.from = from, !.sweeps = TRUE, !.pending = pending]
    BY <1>1
  <2>2. /\ IsJob(l) /\ l.player = p /\ l.sweeps = TRUE /\ l.pending = pending /\ l.day = 0
        /\ l.done = <<>> /\ l.days = {} /\ l.members = {} /\ l.resets = {}
    BY <2>1 DEF IsJob, NoJob
  <2> QED BY <2>2, EmptyDone DEF Begun
<1>3. JobOK(l) /\ ChainOK(l) /\ Sweep \in Workers
  BY <1>1, <1>2 DEF JobOK, ChainOK, Begun, Workers
<1> QED BY <1>1, <1>2, <1>3, LaneKeeps DEF Begun

\* A finished, failed or lost transaction gives everything back.
LEMMA EndKeeps ==
    ASSUME LockInv, NEW w \in Workers, lane' = [lane EXCEPT ![w] = NoJob] PROVE LockInv'
  BY NobodyOK, LaneKeeps

\* What a lock it takes changes.
LEMMA TakesLock ==
    ASSUME NEW w \in Workers, TakeLock(w)
    PROVE  LET l == lane[w] IN
           \E lock, n :
               /\ lock \in Wants(w) /\ \A v \in Workers \ {w} : lock \notin Locks(v)
               /\ lane' = [lane EXCEPT ![w] = n]
               /\ lock[1] = "day" => n = [l EXCEPT !.day = lock[3], !.days = l.days \cup {lock[3]},
                                                   !.pending = l.pending \ {lock[3]}]
               /\ lock[1] # "day" => n = [l EXCEPT !.resets = l.resets \cup {lock[3]}]
<1> DEFINE l == lane[w]
<1>1. PICK lock \in Wants(w) :
         /\ \A v \in Workers \ {w} : lock \notin Locks(v)
         /\ lane' = IF lock[1] = "day"
               THEN [lane EXCEPT ![w].day = lock[3], ![w].days = l.days \cup {lock[3]},
                                 ![w].pending = l.pending \ {lock[3]}]
               ELSE [lane EXCEPT ![w].resets = l.resets \cup {lock[3]}]
  BY Zenon DEF TakeLock
<1>2. CASE lock[1] = "day"
  <2>1. PICK n : n = [l EXCEPT !.day = lock[3], !.days = l.days \cup {lock[3]},
                               !.pending = l.pending \ {lock[3]}]
    OBVIOUS
  <2>2. lane' = [lane EXCEPT ![w] = n]
    BY <1>1, <1>2, <2>1
  <2> QED BY <1>1, <1>2, <2>1, <2>2
<1>3. CASE lock[1] # "day"
  <2>1. PICK n : n = [l EXCEPT !.resets = l.resets \cup {lock[3]}]
    OBVIOUS
  <2>2. lane' = [lane EXCEPT ![w] = n]
    BY <1>1, <1>3, <2>1
  <2> QED BY <1>1, <1>3, <2>1, <2>2
<1> QED BY <1>2, <1>3

LEMMA TakeLockKeeps ==
    ASSUME ConstantsFit, LockInv, NEW w \in Workers, TakeLock(w) PROVE LockInv'
<1> DEFINE l == lane[w]
<1>1. JobOK(l) /\ ChainOK(l) /\ (l.sweeps => w = Sweep)
  BY DEF LockInv
<1>2. PICK lock, n :
         /\ lock \in Wants(w) /\ \A v \in Workers \ {w} : lock \notin Locks(v)
         /\ lane' = [lane EXCEPT ![w] = n]
         /\ lock[1] = "day" => n = [l EXCEPT !.day = lock[3], !.days = l.days \cup {lock[3]},
                                             !.pending = l.pending \ {lock[3]}]
         /\ lock[1] # "day" => n = [l EXCEPT !.resets = l.resets \cup {lock[3]}]
  BY TakesLock
<1>3. /\ l.day = 0
      /\ \E d \in Days :
            \/ /\ lock = ResetLock(d) /\ d \in l.members \ l.resets
               /\ \A m \in l.members \ l.resets : d <= m
               /\ l.sweeps \/ l.pending = {}
            \/ /\ lock = DayLock(l.player, d) /\ d \in l.pending
               /\ \A e \in l.pending : d <= e
  BY <1>1, <1>2, AskedLock
<1>4. IsJob(l)
  BY <1>1 DEF JobOK
<1>5. \A d \in Days : d \in Int /\ d # 0
  BY DEF Days
<1>6. l.days \subseteq Days /\ l.pending \subseteq Days /\ l.members \subseteq l.days
  BY <1>1 DEF JobOK
<1>7. ASSUME NEW d \in Days, lock = ResetLock(d), d \in l.members \ l.resets,
             \A m \in l.members \ l.resets : d <= m, l.sweeps \/ l.pending = {}
      PROVE  LockInv'
  <2>1. n = [l EXCEPT !.resets = l.resets \cup {d}]
    BY <1>2, <1>7 DEF ResetLock
  <2>4. /\ IsJob(n) /\ n.player = l.player /\ n.sweeps = l.sweeps /\ n.pending = l.pending
        /\ n.day = l.day /\ n.done = l.done /\ n.days = l.days /\ n.members = l.members
        /\ n.resets = l.resets \cup {d}
    BY <1>4, <2>1 DEF IsJob
  <2>5. \A r \in n.resets, m \in n.members \ n.resets : r < m
    <3> SUFFICES ASSUME NEW r \in n.resets, NEW m \in n.members \ n.resets PROVE r < m
      OBVIOUS
    <3>1. m \in l.members \ l.resets /\ m # d /\ m \in Days
      BY <1>6, <2>4
    <3>2. CASE r = d
      BY <1>5, <1>7, <3>1, <3>2
    <3>3. CASE r \in l.resets
      BY <1>1, <3>1, <3>3 DEF JobOK
    <3> QED BY <2>4, <3>2, <3>3
  <2>6. JobOK(n)
    BY <1>1, <1>7, <2>4, <2>5 DEF JobOK
  <2>7. ChainOK(n)
    BY <1>1, <1>3, <1>7, <2>4 DEF ChainOK
  <2>8. \A v \in Workers \ {w} :
            /\ lane[v].player = n.player => lane[v].days \cap n.days = {}
            /\ lane[v].resets \cap n.resets = {}
    <3>1. \A v \in Workers \ {w} : d \notin lane[v].resets
      BY <1>2, <1>7, HeldLocks
    <3> QED BY <2>4, <3>1 DEF LockInv
  <2> QED BY <1>1, <1>2, <2>4, <2>6, <2>7, <2>8, LaneKeeps
<1>8. ASSUME NEW d \in Days, lock = DayLock(l.player, d), d \in l.pending,
             \A e \in l.pending : d <= e
      PROVE  LockInv'
  <2>1. n = [l EXCEPT !.day = d, !.days = l.days \cup {d}, !.pending = l.pending \ {d}]
    BY <1>2, <1>8 DEF DayLock
  <2>4. /\ IsJob(n) /\ n.player = l.player /\ n.sweeps = l.sweeps /\ n.pending = l.pending \ {d}
        /\ n.day = d /\ n.done = l.done /\ n.days = l.days \cup {d} /\ n.members = l.members
        /\ n.resets = l.resets
    BY <1>4, <2>1 DEF IsJob
  <2>5. d \notin l.days /\ \A e \in l.days : e < d
    BY <1>1, <1>5, <1>8 DEF JobOK
  <2>6. DOMAIN n.done = n.days \ {n.day}
    BY <1>1, <1>3, <1>5, <1>6, <2>4, <2>5 DEF JobOK
  <2>7. \A a \in n.days : (\A e \in n.pending : a < e) /\ (n.day # 0 => a <= n.day)
    <3>1. \A e \in l.pending \ {d} : d < e
      BY <1>5, <1>6, <1>8
    <3>2. \A a \in l.days : \A e \in l.pending : a < e
      BY <1>1 DEF JobOK
    <3>3. \A a \in l.days \cup {d} : a <= d
      BY <1>5, <1>6, <2>5
    <3> QED BY <2>4, <3>1, <3>2, <3>3
  <2>8. JobOK(n)
    BY <1>1, <1>8, <2>4, <2>6, <2>7 DEF JobOK
  <2>9. ChainOK(n)
    <3>1. n.days \cup n.pending = l.days \cup l.pending
      BY <1>8, <2>4
    <3>2. ~l.sweeps => n.pending = {} /\ l.resets = {}
      BY <1>1, <1>8, <2>4 DEF ChainOK
    <3> QED BY <1>1, <2>4, <3>1, <3>2 DEF ChainOK
  <2>10. \A v \in Workers \ {w} :
            /\ lane[v].player = n.player => lane[v].days \cap n.days = {}
            /\ lane[v].resets \cap n.resets = {}
    <3>1. \A v \in Workers \ {w} : lane[v].player = l.player => d \notin lane[v].days
      BY <1>2, <1>8, HeldLocks
    <3> QED BY <2>4, <3>1 DEF LockInv
  <2> QED BY <1>1, <1>2, <2>4, <2>8, <2>9, <2>10, LaneKeeps
<1> QED BY <1>3, <1>7, <1>8

\* A calculation ends its day, and may go on to the next one.
LEMMA CalculateKeeps ==
    ASSUME ConstantsFit, LockInv, NEW w \in Workers, Calculate(w) PROVE LockInv'
<1> DEFINE l == lane[w]
           d == l.day
<1>1. JobOK(l) /\ ChainOK(l) /\ (l.sweeps => w = Sweep) /\ IsJob(l)
  BY DEF LockInv, JobOK
<1>2. PICK more, members, done :
         /\ more \subseteq {d + 1} \cap Days /\ (l.sweeps => more = {})
         /\ members \in {l.members, l.members \cup {d}}
         /\ DOMAIN done = DOMAIN l.done \cup {d}
         /\ lane' = [lane EXCEPT ![w].day = 0, ![w].done = done, ![w].pending = l.pending \cup more,
                                 ![w].members = members]
  <2> DEFINE p == l.player
             x == <<p, d>>
             result == Read(w, p, d)
             existing == Existing(x, result)
             entry == [version |-> Version(x, existing),
                       result |-> result, saves |-> ~existing]
             done == [e \in DOMAIN l.done \cup {d} |-> IF e = d THEN entry ELSE l.done[e]]
             more == Following(w, p, d, result) \ DOMAIN l.done
             members == IF existing THEN l.members ELSE l.members \cup {d}
  <2>1. more \subseteq {d + 1} \cap Days /\ (l.sweeps => more = {})
    BY DEF Following
  <2>2. DOMAIN done = DOMAIN l.done \cup {d} /\ members \in {l.members, l.members \cup {d}}
    OBVIOUS
  <2>3. lane' = [lane EXCEPT ![w].day = 0, ![w].done = done, ![w].pending = l.pending \cup more,
                             ![w].members = members]
    BY DEF Calculate
  <2> HIDE DEF done, more, members
  <2> QED BY <2>1, <2>2, <2>3
<1>3. d # 0 /\ d \in l.days /\ d \in Days
  BY <1>1 DEF Calculate, JobOK
<1>4. PICK n : n = [l EXCEPT !.day = 0, !.done = done, !.pending = l.pending \cup more,
                             !.members = members]
  OBVIOUS
<1>5. lane' = [lane EXCEPT ![w] = n]
  BY <1>2, <1>4
<1>6. /\ IsJob(n) /\ n.player = l.player /\ n.sweeps = l.sweeps /\ n.pending = l.pending \cup more
      /\ n.day = 0 /\ n.done = done /\ n.days = l.days /\ n.members = members
      /\ n.resets = l.resets
  BY <1>1, <1>4 DEF IsJob
<1>7. \A e \in Days : e \in Int /\ e # 0
  BY DEF Days
<1>8. l.days \subseteq Days /\ l.pending \subseteq Days /\ l.members \subseteq l.days /\ l.resets \subseteq l.members
  BY <1>1 DEF JobOK
<1>9. JobOK(n)
  <2>1. DOMAIN n.done = n.days \ {n.day}
    BY <1>1, <1>2, <1>3, <1>6, <1>7, <1>8 DEF JobOK
  <2>2. \A a \in n.days : \A e \in n.pending : a < e
    <3> SUFFICES ASSUME NEW a \in n.days, NEW e \in n.pending PROVE a < e
      OBVIOUS
    <3>1. CASE e \in l.pending
      BY <1>1, <1>6, <3>1 DEF JobOK
    <3>2. CASE e \in more
      <4>1. e = d + 1 /\ a <= d
        BY <1>1, <1>2, <1>3, <1>6, <3>2 DEF JobOK
      <4> QED BY <1>3, <1>6, <1>7, <1>8, <4>1
    <3> QED BY <1>6, <3>1, <3>2
  <2>3. \A r \in n.resets, m \in n.members \ n.resets : r < m
    <3> SUFFICES ASSUME NEW r \in n.resets, NEW m \in n.members \ n.resets PROVE r < m
      OBVIOUS
    <3>1. CASE m \in l.members
      BY <1>1, <1>6, <3>1 DEF JobOK
    <3>2. CASE m = d
      <4>1. r \in DOMAIN l.done /\ r # d /\ r \in Days
        BY <1>1, <1>6, <1>8 DEF JobOK
      <4>2. r <= d
        BY <1>1, <1>3, <1>6, <1>8 DEF JobOK
      <4> QED BY <1>3, <1>7, <3>2, <4>1, <4>2
    <3> QED BY <1>2, <1>6, <3>1, <3>2
  <2>4. n.members \subseteq DOMAIN n.done /\ n.resets \subseteq n.members
    BY <1>1, <1>2, <1>3, <1>6 DEF JobOK
  <2> QED BY <1>1, <1>2, <1>6, <1>8, <2>1, <2>2, <2>3, <2>4 DEF JobOK
<1>10. ChainOK(n)
  <2> SUFFICES ASSUME ~l.sweeps
               PROVE  /\ \A a, e \in n.days \cup n.pending, f \in Days :
                             a <= f /\ f <= e => f \in n.days \cup n.pending
                      /\ \A a, e \in n.pending : a = e
                      /\ n.resets = {}
    BY <1>6 DEF ChainOK
  <2>1. l.pending = {} /\ l.resets = {}
    BY <1>1, <1>3 DEF ChainOK
  <2>2. ASSUME NEW a \in n.days \cup n.pending, NEW e \in n.days \cup n.pending, NEW f \in Days,
               a <= f, f <= e
        PROVE  f \in n.days \cup n.pending
    <3>1. CASE e \in l.days /\ a \in l.days
      BY <1>1, <1>6, <2>2, <3>1 DEF ChainOK
    <3>2. CASE a \in more
      <4>1. a = d + 1 /\ e <= d + 1
        <5>1. \A b \in l.days : b <= d
          BY <1>1, <1>3 DEF JobOK
        <5> QED BY <1>2, <1>3, <1>6, <1>7, <1>8, <2>1, <3>2, <5>1
      <4> QED BY <1>2, <1>3, <1>6, <1>7, <1>8, <2>1, <2>2, <3>2, <4>1
    <3>3. CASE a \in l.days /\ e \in more
      <4>1. e = d + 1
        BY <1>2, <3>3
      <4>2. f = e \/ f <= d
        BY <1>3, <1>7, <2>2, <4>1
      <4>3. f <= d => f \in l.days
        BY <1>1, <1>3, <2>1, <2>2, <3>3 DEF ChainOK
      <4> QED BY <1>6, <2>2, <4>2, <4>3
    <3> QED BY <1>6, <2>1, <3>1, <3>2, <3>3
  <2>3. \A a, e \in n.pending : a = e
    BY <1>2, <1>6, <2>1
  <2> QED BY <1>6, <2>1, <2>2, <2>3
<1>11. \A v \in Workers \ {w} :
          /\ lane[v].player = n.player => lane[v].days \cap n.days = {}
          /\ lane[v].resets \cap n.resets = {}
  BY <1>6 DEF LockInv
<1> QED BY <1>1, <1>5, <1>6, <1>9, <1>10, <1>11, LaneKeeps

LEMMA LockInvStarts == ASSUME Init PROVE LockInv
<1>1. lane = [w \in Workers |-> NoJob]
  BY DEF Init
<1> QED BY <1>1, NobodyOK DEF LockInv

LEMMA LockInvKept == ASSUME ConstantsFit, LockInv, [Next]_vars PROVE LockInv'
<1>1. CASE UNCHANGED lane
  <2>1. /\ DOMAIN lane' = Workers /\ lane' = [w \in Workers |-> lane'[w]]
        /\ \A w \in Workers : JobOK(lane'[w]) /\ ChainOK(lane'[w]) /\ (lane'[w].sweeps => w = Sweep)
        /\ \A v, w \in Workers : v # w =>
               /\ lane'[v].player = lane'[w].player => lane'[v].days \cap lane'[w].days = {}
               /\ lane'[v].resets \cap lane'[w].resets = {}
    BY <1>1 DEF LockInv
  <2>2. Workers' = Workers /\ Sweep' = Sweep
    BY DEF Workers
  <2> QED BY <2>1, <2>2 DEF LockInv, JobOK, ChainOK, IsJob, Days
<1>2. ASSUME NEW s \in Savers, NEW P, NEW d \in Days, NEW v, SaveChange(s, P, d, v) PROVE UNCHANGED lane
  BY <1>2 DEF SaveChange
<1>3. ASSUME NEW s \in Savers, CommitChange(s) \/ AbortChange(s) PROVE UNCHANGED lane
  BY <1>3 DEF CommitChange, AbortChange
<1>4. ASSUME NEW x \in PlayerDays, RecheckDue(x) PROVE UNCHANGED lane
  BY <1>4 DEF RecheckDue
<1>5. ASSUME Recheck \/ \E d \in Days : DayIsLate(d) PROVE UNCHANGED lane
  BY <1>5 DEF Recheck, DayIsLate
<1>6. ASSUME NEW w \in Lanes, NEW x \in PlayerDays,
             ClaimRecheck(w, x) \/ ClaimRetry(w, x) \/ ClaimFirst(w, x) \/ ClaimDayEnd(w, x)
      PROVE  LockInv'
  <2>1. Take(w, x)
    BY <1>6 DEF ClaimRecheck, ClaimRetry, ClaimFirst, ClaimDayEnd
  <2> QED BY <2>1, TakeKeeps
<1>7. ASSUME NEW w \in Workers, Finish(w) \/ GiveUp(w) PROVE LockInv'
  <2>1. lane' = [lane EXCEPT ![w] = NoJob]
    BY <1>7 DEF Finish, GiveUp
  <2> QED BY <2>1, EndKeeps
<1>8. ASSUME NEW w \in Workers, TakeLock(w) \/ Calculate(w) PROVE LockInv'
  BY <1>8, TakeLockKeeps, CalculateKeeps
<1>9. ASSUME NEW p \in Players, SweepPlayer(p) PROVE LockInv'
  BY <1>9, SweepPlayerKeeps
<1>10. CASE UNCHANGED vars
  BY <1>1, <1>10 DEF vars
<1>11. CASE Next
  <2>1. CASE \/ \E s \in Savers, P \in (SUBSET Players) \ {{}}, d \in Days, v \in Values : SaveChange(s, P, d, v)
             \/ \E s \in Savers : CommitChange(s) \/ AbortChange(s)
             \/ Recheck
             \/ \E x \in PlayerDays : RecheckDue(x)
             \/ \E d \in Days : DayIsLate(d)
    BY <1>1, <1>2, <1>3, <1>4, <1>5, <2>1
  <2>2. CASE \E w \in Lanes, x \in PlayerDays :
               ClaimRecheck(w, x) \/ ClaimRetry(w, x) \/ ClaimFirst(w, x) \/ ClaimDayEnd(w, x)
    BY <1>6, <2>2
  <2>3. CASE \E w \in Workers : TakeLock(w) \/ Calculate(w) \/ Finish(w) \/ GiveUp(w)
    BY <1>7, <1>8, <2>3
  <2>4. CASE \E p \in Players : SweepPlayer(p)
    BY <1>9, <2>4
  <2> QED BY <1>11, <2>1, <2>2, <2>3, <2>4, Zenon DEF Next
<1> QED BY <1>10, <1>11

-----------------------------------------------------------------------------
(* No circle                                                               *)

\* One asks for what another holds.
WaitsForReset(w, v, d) ==
    /\ d \in Days /\ v # w /\ d \in lane[w].members \ lane[w].resets
    /\ lane[w].sweeps \/ lane[w].pending = {}
    /\ d \in lane[v].resets

WaitsForDay(w, v, d) ==
    /\ d \in Days /\ v # w /\ d \in lane[w].pending
    /\ lane[v].player = lane[w].player /\ d \in lane[v].days

Circle(W) ==
    \A w \in W : \E v \in W, d \in Days : WaitsForReset(w, v, d) \/ WaitsForDay(w, v, d)

LEMMA CircleWaits ==
    ASSUME ConstantsFit, LockInv, ~NoWaitCycle
    PROVE  \E W \in SUBSET Workers : W # {} /\ Circle(W)
<1>1. PICK W \in (SUBSET Workers) \ {{}} :
          ~\E w \in W : \A lock \in Wants(w) : \A v \in W \ {w} : lock \notin Locks(v)
  BY Zenon DEF NoWaitCycle
<1>2. ASSUME NEW w \in W
      PROVE  \E v \in W, d \in Days : WaitsForReset(w, v, d) \/ WaitsForDay(w, v, d)
  <2>1. PICK lock \in Wants(w), v \in W : v # w /\ lock \in Locks(v)
    BY <1>1
  <2>2. JobOK(lane[w])
    BY DEF LockInv
  <2>3. PICK d \in Days :
           \/ /\ lock = ResetLock(d) /\ d \in lane[w].members \ lane[w].resets
              /\ lane[w].sweeps \/ lane[w].pending = {}
           \/ lock = DayLock(lane[w].player, d) /\ d \in lane[w].pending
    BY <2>1, <2>2, AskedLock
  <2>4. CASE /\ lock = ResetLock(d) /\ d \in lane[w].members \ lane[w].resets
             /\ lane[w].sweeps \/ lane[w].pending = {}
    <3>1. d \in lane[v].resets
      BY <2>1, <2>4, HeldLocks
    <3> QED BY <2>1, <2>4, <3>1 DEF WaitsForReset
  <2>5. CASE lock = DayLock(lane[w].player, d) /\ d \in lane[w].pending
    <3>1. lane[v].player = lane[w].player /\ d \in lane[v].days
      BY <2>1, <2>5, HeldLocks
    <3> QED BY <2>1, <2>5, <3>1 DEF WaitsForDay
  <2> QED BY <2>3, <2>4, <2>5
<1>3. Circle(W)
  BY <1>2, Zenon DEF Circle
<1>4. W \in SUBSET Workers /\ W # {}
  BY <1>1
<1> QED BY <1>3, <1>4, Zenon

\* Who waits for a day holds only earlier ones, so not everyone waits for a day.
LEMMA NoDayCircle ==
    ASSUME ConstantsFit, LockInv, NEW W \in SUBSET Workers, W # {}, Circle(W)
    PROVE  \E w, v \in W, d \in Days : WaitsForReset(w, v, d)
<1> SUFFICES ASSUME \A w, v \in W, d \in Days : ~WaitsForReset(w, v, d)
             PROVE  FALSE
  OBVIOUS
<1>1. \A w \in W : \E v \in W, d \in Days : WaitsForDay(w, v, d)
  BY DEF Circle
<1>2. PICK w0 \in W : TRUE
  OBVIOUS
<1> DEFINE p == lane[w0].player
           D == {d \in Days : \E w, v \in W : lane[w].player = p /\ WaitsForDay(w, v, d)}
<1>3. D # {} /\ D \in SUBSET (1 .. LastDay) /\ LastDay \in Nat
  BY <1>1, <1>2 DEF Days, ConstantsFit
<1>4. PICK m \in D : \A d \in D : d <= m
  <2> HIDE DEF D
  <2> QED BY <1>3, MaxOf
<1>5. PICK w, v \in W : lane[w].player = p /\ WaitsForDay(w, v, m)
  BY <1>4
<1>6. PICK u \in W, f \in Days : WaitsForDay(v, u, f)
  BY <1>1
<1>7. f \in D
  BY <1>5, <1>6 DEF WaitsForDay
<1>8. m < f
  BY <1>5, <1>6 DEF WaitsForDay, LockInv, JobOK
<1> QED BY <1>4, <1>7, <1>8 DEF Days

\* The greatest Reset anyone waits for is held by the sweep, which waits for a later
\* day of its player.
LEMMA SweepWaits ==
    ASSUME ConstantsFit, LockInv, NEW W \in SUBSET Workers, W # {}, Circle(W)
    PROVE  \E v \in W, r \in Days :
              /\ lane[v].sweeps /\ r \in lane[v].days
              /\ \E u \in W, d \in Days : WaitsForDay(v, u, d) /\ r < d
              /\ \A w, u \in W, q \in Days : WaitsForReset(w, u, q) => q <= r
<1> DEFINE R == {d \in Days : \E w, v \in W : WaitsForReset(w, v, d)}
<1>1. R # {} /\ R \in SUBSET (1 .. LastDay) /\ LastDay \in Nat
  BY NoDayCircle DEF Days, ConstantsFit
<1>2. PICK r \in R : \A d \in R : d <= r
  <2> HIDE DEF R
  <2> QED BY <1>1, MaxOf
<1>3. PICK w, v \in W : WaitsForReset(w, v, r)
  BY <1>2
<1>4. JobOK(lane[v]) /\ ChainOK(lane[v])
  BY DEF LockInv
<1>5. r \in Int /\ r \in Days /\ r \in lane[v].resets /\ r \in lane[v].days
  BY <1>3, <1>4 DEF WaitsForReset, JobOK, Days
<1>6. PICK u \in W, d \in Days : WaitsForReset(v, u, d) \/ WaitsForDay(v, u, d)
  BY DEF Circle
<1>7. ~WaitsForReset(v, u, d)
  <2> SUFFICES ASSUME WaitsForReset(v, u, d) PROVE FALSE
    OBVIOUS
  <2>1. r < d
    BY <1>4, <1>5 DEF WaitsForReset, JobOK
  <2>2. d \in R
    OBVIOUS
  <2> QED BY <1>2, <1>5, <2>1, <2>2 DEF Days
<1>8. lane[v].sweeps
  BY <1>4, <1>5, <1>6, <1>7 DEF WaitsForDay, ChainOK
<1>9. r < d
  BY <1>4, <1>5, <1>6, <1>7 DEF WaitsForDay, JobOK
<1>10. \A a, b \in W, q \in Days : WaitsForReset(a, b, q) => q <= r
  BY <1>2
<1> QED BY <1>5, <1>6, <1>7, <1>8, <1>9, <1>10

\* A lane of the sweep's player would hold a day the sweep holds.
LEMMA NoCircle ==
    ASSUME ConstantsFit, LockInv, NEW W \in SUBSET Workers, W # {}, Circle(W)
    PROVE  FALSE
<1>1. PICK v \in W, r \in Days :
         /\ lane[v].sweeps /\ r \in lane[v].days
         /\ \E u \in W, d \in Days : WaitsForDay(v, u, d) /\ r < d
         /\ \A w, u \in W, q \in Days : WaitsForReset(w, u, q) => q <= r
  BY SweepWaits
<1>2. PICK u0 \in W, d \in Days : WaitsForDay(v, u0, d) /\ r < d
  BY <1>1
<1>3. \A e \in Days : e \in Int
  BY DEF Days
<1>4. JobOK(lane[v]) /\ v = Sweep
  BY <1>1 DEF LockInv
<1> DEFINE p == lane[v].player
           E == {e \in Days : d <= e /\ \E u \in W : u # v /\ lane[u].player = p /\ e \in lane[u].days}
<1>5. E # {} /\ E \in SUBSET (1 .. LastDay) /\ LastDay \in Nat
  <2>1. d \in E
    BY <1>2, <1>3 DEF WaitsForDay
  <2> QED BY <2>1 DEF Days, ConstantsFit
<1>6. PICK m \in E : \A e \in E : e <= m
  <2> HIDE DEF E
  <2> QED BY <1>5, MaxOf
<1>7. PICK u \in W : u # v /\ lane[u].player = p /\ m \in lane[u].days
  BY <1>6
<1>8. JobOK(lane[u]) /\ ChainOK(lane[u]) /\ ~lane[u].sweeps /\ lane[u].days \cap lane[v].days = {}
  BY <1>4, <1>7 DEF LockInv
<1>9. PICK z \in W, f \in Days : WaitsForReset(u, z, f) \/ WaitsForDay(u, z, f)
  BY DEF Circle
<1>10. CASE WaitsForReset(u, z, f)
  <2>1. lane[u].pending = {} /\ f \in lane[u].days
    BY <1>8, <1>10 DEF WaitsForReset, JobOK
  <2>2. f <= r /\ r <= m
    BY <1>1, <1>2, <1>3, <1>6, <1>10
  <2>3. r \in lane[u].days
    BY <1>7, <1>8, <2>1, <2>2 DEF ChainOK
  <2> QED BY <1>1, <1>8, <2>3
<1>11. CASE WaitsForDay(u, z, f)
  <2>1. m < f /\ d <= f
    BY <1>3, <1>6, <1>7, <1>8, <1>11 DEF WaitsForDay, JobOK
  <2>2. z # v
    <3> SUFFICES ASSUME z = v PROVE FALSE
      OBVIOUS
    <3>1. f < d
      BY <1>2, <1>4, <1>11 DEF WaitsForDay, JobOK
    <3> QED BY <1>3, <2>1, <3>1
  <2>3. f \in E
    BY <1>7, <1>11, <2>1, <2>2 DEF WaitsForDay
  <2> QED BY <1>3, <1>6, <2>1, <2>3
<1> QED BY <1>9, <1>10, <1>11

(* Whatever the players, days and lanes, calculations and the sweep never   *)
(* wait for one another in a circle (the lock order of reconciliation_db.py *)
(* and late_battle_sweep.py: each day, then its Resets, oldest first).      *)
THEOREM CalculationsNeverCircle == ASSUME ConstantsFit PROVE Spec => []NoWaitCycle
<1>1. LockInv => NoWaitCycle
  BY CircleWaits, NoCircle
<1>2. Init => LockInv
  BY LockInvStarts
<1>3. LockInv /\ [Next]_vars => LockInv'
  BY LockInvKept
<1> QED BY <1>1, <1>2, <1>3, PTL DEF Spec

-----------------------------------------------------------------------------
(* The results the days start with                                         *)

FirstOf(F, x) ==
    LET before == <<x[1], x[2] - 1>>
        unbuilt == x[2] = 1 \/ before \in Unsaved IN
    [own |-> battles[x], next |-> IF x[2] = LastDay THEN None ELSE battles[x],
     built |-> IF unbuilt THEN 0 ELSE 1,
     start |-> IF unbuilt THEN None ELSE Outcome(F[before]),
     rest |-> IF unbuilt THEN None ELSE Rest(F[before], battles[before])]

\* FirstResult exists: a function of the first n days extends to one of n + 1.
LEMMA FirstResultIs ==
    ASSUME ConstantsFit PROVE \A x \in PlayerDays : FirstResult[x] = FirstOf(FirstResult, x)
<1> DEFINE Upto(n) == Players \X (1 .. n)
           S == {n \in Nat : ~\E F : F = [x \in Upto(n) |-> FirstOf(F, x)]}
<1>1. S = {}
  <2> SUFFICES ASSUME S # {} PROVE FALSE
    OBVIOUS
  <2>1. PICK m \in S : \A n \in S : m <= n
    <3> HIDE DEF S
    <3>1. S \in SUBSET Nat
      BY DEF S
    <3> QED BY <3>1, MinOf
  <2>2. CASE m = 0
    <3>1. Upto(m) = {}
      BY <2>2
    <3>2. PICK F : F = [x \in Upto(m) |-> None]
      OBVIOUS
    <3>3. F = [x \in Upto(m) |-> FirstOf(F, x)]
      BY <3>1, <3>2
    <3> QED BY <2>1, <3>3
  <2>3. CASE m # 0
    <3>1. m - 1 \in Nat /\ ~(m <= m - 1)
      BY <2>3
    <3>2. PICK F : F = [x \in Upto(m - 1) |-> FirstOf(F, x)]
      BY <2>1, <3>1
    <3>3. PICK G : G = [x \in Upto(m) |-> FirstOf(F, x)]
      OBVIOUS
    <3>4. ASSUME NEW x \in Upto(m) PROVE FirstOf(F, x) = FirstOf(G, x)
      <4> DEFINE before == <<x[1], x[2] - 1>>
      <4>1. CASE x[2] = 1
        BY <4>1 DEF FirstOf
      <4>2. CASE x[2] # 1
        <5>1. before \in Upto(m - 1) /\ before \in Upto(m)
          BY <4>2
        <5>2. F[before] = G[before]
          BY <3>2, <3>3, <5>1, Zenon
        <5> QED BY <5>2 DEF FirstOf
      <4> QED BY <4>1, <4>2
    <3>5. G = [x \in Upto(m) |-> FirstOf(G, x)]
      BY <3>3, <3>4
    <3> QED BY <2>1, <3>5
  <2> QED BY <2>2, <2>3
<1>2. PICK F : F = [x \in PlayerDays |-> FirstOf(F, x)]
  BY <1>1 DEF ConstantsFit, PlayerDays, Days
<1>3. FirstResult = [x \in PlayerDays |-> FirstOf(FirstResult, x)]
  BY <1>2, Zenon DEF FirstResult, FirstOf
<1> HIDE DEF Upto, S
<1> QED BY <1>3, Zenon

-----------------------------------------------------------------------------
(* What is saved and queued                                                *)

Typed ==
    /\ DOMAIN versions = PlayerDays /\ \A x \in PlayerDays : \E S : versions[x] \in Seq(S)
    /\ waiting \in [PlayerDays -> Nat] /\ retry \in [PlayerDays -> Nat]
    /\ dayEnd \in [PlayerDays -> {"none", "queued", "taken"}]
    /\ DOMAIN saver = Savers

\* The days before a late one are late; a late day has a result, and any other day
\* with a result has its day-end recalculation before it.
LateInv ==
    /\ late \subseteq Days /\ \A d \in late, e \in Days : e <= d => e \in late
    /\ \A x \in PlayerDays :
           /\ x[2] \in late => Saved(x)
           /\ dayEnd[x] = "taken" => x[2] \in late
           /\ Saved(x) /\ x[2] \notin late => dayEnd[x] = "queued"

\* The days a save can change.
Touches(save, x) == x[1] \in DOMAIN save.to /\ x[2] \in {save.day, save.day - 1}

\* Each late one it has queued, or has locked a recheck that waits.
SaverInv ==
    /\ \A x \in PlayerDays : Locked(x) <= waiting[x]
    /\ \A s \in Savers, x \in PlayerDays :
           Touches(saver[s], x) /\ x[2] \in late => x \in saver[s].locked \cup saver[s].queued

QueueInv == Typed /\ LateInv /\ SaverInv

LEMMA LockedStep ==
    ASSUME ConstantsFit, Typed, NEW s \in Savers, NEW n, saver' = [saver EXCEPT ![s] = n], NEW x
    PROVE  /\ Locked(x) \in Nat /\ Locked(x)' \in Nat
           /\ x \in saver[s].locked => Locked(x) > 0
           /\ x \notin n.locked => Locked(x)' <= Locked(x)
           /\ saver[s].locked = {} => Locked(x)' <= Locked(x) + 1
<1> DEFINE L == {t \in Savers : x \in saver[t].locked}
           M == {t \in Savers : x \in saver'[t].locked}
<1>1. \A t \in Savers : saver'[t] = IF t = s THEN n ELSE saver[t]
  BY DEF Typed
<1>2. IsFiniteSet(Savers)
  BY DEF ConstantsFit
<1>3. IsFiniteSet(L) /\ IsFiniteSet(M)
  BY <1>2, FS_Subset
<1>4. Locked(x) = Cardinality(L) /\ Locked(x)' = Cardinality(M)
  BY DEF Locked
<1>5. Cardinality(L) \in Nat /\ Cardinality(M) \in Nat
  BY <1>3, FS_CardinalityType
<1>6. x \in saver[s].locked => Cardinality(L) # 0
  BY <1>3, FS_EmptySet
<1>7. M \subseteq L \cup {s} /\ (x \notin n.locked => M \subseteq L)
  BY <1>1
<1>8. x \notin n.locked => Cardinality(M) <= Cardinality(L)
  BY <1>3, <1>7, FS_Subset
<1>9. saver[s].locked = {} => Cardinality(M) <= Cardinality(L) + 1
  <2>0. Cardinality(L \cup {s}) = IF s \in L THEN Cardinality(L) ELSE Cardinality(L) + 1
    BY <1>3, FS_AddElement, Zenon
  <2>1. IsFiniteSet(L \cup {s}) /\ Cardinality(L \cup {s}) <= Cardinality(L) + 1
    <3> HIDE DEF L
    <3>1. IsFiniteSet(L \cup {s})
      BY <1>3, FS_AddElement
    <3> QED BY <1>5, <2>0, <3>1
  <2>2. Cardinality(M) <= Cardinality(L \cup {s}) /\ Cardinality(L \cup {s}) \in Nat
    BY <1>7, <2>1, FS_Subset, FS_CardinalityType
  <2> QED BY <1>5, <2>1, <2>2
<1> QED BY <1>4, <1>5, <1>6, <1>8, <1>9

\* Jobs come and go.
JobsMove ==
    /\ versions' = versions /\ late' = late /\ saver' = saver
    /\ waiting' \in [PlayerDays -> Nat] /\ \A x \in PlayerDays : Locked(x) <= waiting'[x]
    /\ retry' \in [PlayerDays -> Nat] /\ dayEnd' \in [PlayerDays -> {"none", "queued", "taken"}]
    /\ \A x \in PlayerDays : dayEnd'[x] # dayEnd[x] => dayEnd'[x] = "taken" /\ x[2] \in late

LEMMA QueueStays == ASSUME QueueInv, JobsMove PROVE QueueInv'
<1>2. Typed'
  BY DEF JobsMove, QueueInv, Typed, PlayerDays, Days
<1>3. LateInv'
  BY DEF JobsMove, QueueInv, LateInv, Saved, PlayerDays, Days
<1>4. SaverInv'
  BY DEF JobsMove, QueueInv, SaverInv, Locked, Touches, PlayerDays, Days
<1> QED BY <1>2, <1>3, <1>4 DEF QueueInv

LEMMA LockedNat == ASSUME ConstantsFit, NEW x PROVE Locked(x) \in Nat
  BY FS_Subset, FS_CardinalityType DEF Locked, ConstantsFit

LEMMA ClaimQueue ==
    ASSUME ConstantsFit, QueueInv, NEW w, NEW x \in PlayerDays,
           ClaimRecheck(w, x) \/ ClaimRetry(w, x) \/ ClaimFirst(w, x) \/ ClaimDayEnd(w, x)
    PROVE  QueueInv'
<1>1. /\ waiting \in [PlayerDays -> Nat] /\ retry \in [PlayerDays -> Nat]
      /\ dayEnd \in [PlayerDays -> {"none", "queued", "taken"}]
      /\ \A y \in PlayerDays : Locked(y) <= waiting[y] /\ Locked(y) \in Nat
  BY LockedNat DEF QueueInv, SaverInv, Typed
<1>2. CASE ClaimRecheck(w, x)
  <2>1. \A y \in PlayerDays : waiting'[y] = IF y = x THEN waiting[x] - 1 ELSE waiting[y]
    BY <1>1, <1>2 DEF ClaimRecheck
  <2>2. waiting[x] > Locked(x)
    BY <1>2 DEF ClaimRecheck, Claimable
  <2>3. waiting' \in [PlayerDays -> Nat] /\ \A y \in PlayerDays : Locked(y) <= waiting'[y]
    BY <1>1, <1>2, <2>1, <2>2 DEF ClaimRecheck
  <2>4. JobsMove
    BY <1>1, <1>2, <2>3 DEF ClaimRecheck, JobsMove
  <2> QED BY <2>4, QueueStays
<1>3. CASE ClaimRetry(w, x)
  <2>1. retry' \in [PlayerDays -> Nat]
    BY <1>1, <1>3 DEF ClaimRetry
  <2>2. JobsMove
    BY <1>1, <1>3, <2>1 DEF ClaimRetry, JobsMove
  <2> QED BY <2>2, QueueStays
<1>4. CASE ClaimFirst(w, x)
  <2>1. JobsMove
    BY <1>1, <1>4 DEF ClaimFirst, JobsMove
  <2> QED BY <2>1, QueueStays
<1>5. CASE ClaimDayEnd(w, x)
  <2>1. JobsMove
    BY <1>1, <1>5 DEF ClaimDayEnd, JobsMove
  <2> QED BY <2>1, QueueStays
<1> QED BY <1>2, <1>3, <1>4, <1>5

LEMMA RecheckQueue ==
    ASSUME ConstantsFit, QueueInv, Recheck \/ \E x \in PlayerDays : RecheckDue(x) PROVE QueueInv'
<1>1. /\ waiting \in [PlayerDays -> Nat] /\ retry \in [PlayerDays -> Nat]
      /\ dayEnd \in [PlayerDays -> {"none", "queued", "taken"}]
      /\ \A y \in PlayerDays : Locked(y) <= waiting[y] /\ Locked(y) \in Nat
  BY LockedNat DEF QueueInv, SaverInv, Typed
<1>2. waiting' \in [PlayerDays -> Nat] /\ \A y \in PlayerDays : waiting[y] <= waiting'[y]
  <2>1. waiting' = waiting \/ \E x \in PlayerDays : waiting' = [waiting EXCEPT ![x] = @ + 1]
    BY DEF Recheck, RecheckDue
  <2> QED BY <1>1, <2>1
<1>3. \A y \in PlayerDays : Locked(y) <= waiting'[y]
  BY <1>1, <1>2
<1>4. JobsMove
  BY <1>1, <1>2, <1>3 DEF Recheck, RecheckDue, JobsMove
<1> QED BY <1>4, QueueStays

LEMMA SaveQueue ==
    ASSUME ConstantsFit, QueueInv, NEW s \in Savers, NEW P \in SUBSET Players, NEW d \in Days, NEW v,
           SaveChange(s, P, d, v)
    PROVE  QueueInv'
<1> DEFINE touched == {x \in P \X {d, d - 1} : x[2] \in Days /\ Saved(x)}
           n == [day |-> d, to |-> [p \in P |-> v], locked |-> {x \in touched : Merges(x)},
                 queued |-> {x \in touched : ~Merges(x)}]
<1>1. saver[s] = NoSave /\ saver' = [saver EXCEPT ![s] = n] /\ UNCHANGED <<versions, late, jobs>>
  BY DEF SaveChange
<1>2. Typed' /\ Typed
  BY <1>1 DEF QueueInv, Typed, PlayerDays, Days, jobs
<1>3. LateInv'
  BY <1>1 DEF QueueInv, LateInv, Saved, PlayerDays, Days, jobs
<1>4. ASSUME NEW x \in PlayerDays PROVE Locked(x)' <= waiting'[x]
  <2>1. /\ Locked(x) \in Nat /\ Locked(x)' \in Nat /\ Locked(x)' <= Locked(x) + 1
        /\ x \notin n.locked => Locked(x)' <= Locked(x)
    <3> HIDE DEF n
    <3>1. saver[s].locked = {}
      BY <1>1 DEF NoSave
    <3> QED BY <1>1, <1>2, <3>1, LockedStep
  <2>2. x \in n.locked => waiting[x] > Locked(x)
    BY DEF Merges
  <2>3. Locked(x) <= waiting[x] /\ waiting[x] \in Nat /\ waiting' = waiting
    BY <1>1, <1>2 DEF QueueInv, SaverInv, Typed, jobs
  <2> HIDE DEF n
  <2> QED BY <2>1, <2>2, <2>3
<1>5. ASSUME NEW t \in Savers, NEW x \in PlayerDays, Touches(saver'[t], x), x[2] \in late
      PROVE  x \in saver'[t].locked \cup saver'[t].queued
  <2>1. CASE t = s
    <3>1. saver'[t] = n
      BY <1>1, <1>2, <2>1 DEF Typed
    <3>2. x \in P \X {d, d - 1} /\ x[2] \in Days
      BY <1>5, <3>1 DEF Touches, PlayerDays
    <3>3. Saved(x)
      BY <1>5 DEF QueueInv, LateInv
    <3> QED BY <3>1, <3>2, <3>3
  <2>2. CASE t # s
    BY <1>1, <1>2, <1>5, <2>2 DEF QueueInv, SaverInv, Typed
  <2> QED BY <2>1, <2>2
<1>6. SaverInv'
  BY <1>1, <1>4, <1>5 DEF SaverInv, Touches, PlayerDays, Days
<1> QED BY <1>2, <1>3, <1>6 DEF QueueInv

LEMMA EndSaveQueue ==
    ASSUME ConstantsFit, QueueInv, NEW s \in Savers, CommitChange(s) \/ AbortChange(s) PROVE QueueInv'
<1>1. /\ saver' = [saver EXCEPT ![s] = NoSave] /\ UNCHANGED <<versions, retry, dayEnd, late>>
      /\ \A x \in PlayerDays : waiting[x] <= waiting'[x]
      /\ waiting' \in [PlayerDays -> Nat] /\ Typed
  <2>1. Typed
    BY DEF QueueInv
  <2>2. CASE CommitChange(s)
    <3> DEFINE save == saver[s]
    <3>1. waiting' = [x \in PlayerDays |-> waiting[x] + IF x \in save.queued THEN 1 ELSE 0]
      BY <2>2 DEF CommitChange
    <3>2. \A x \in PlayerDays : waiting[x] \in Nat
      BY <2>1 DEF Typed
    <3>3. waiting' \in [PlayerDays -> Nat] /\ \A x \in PlayerDays : waiting[x] <= waiting'[x]
      BY <3>1, <3>2
    <3> QED BY <2>1, <2>2, <3>3 DEF CommitChange
  <2>3. CASE AbortChange(s)
    BY <2>1, <2>3 DEF AbortChange, jobs, Typed
  <2> QED BY <2>2, <2>3
<1>2. Typed'
  BY <1>1 DEF Typed, PlayerDays, Days
<1>3. LateInv'
  BY <1>1 DEF QueueInv, LateInv, Saved, PlayerDays, Days
<1>4. ASSUME NEW x \in PlayerDays PROVE Locked(x)' <= waiting'[x]
  <2>1. Locked(x)' <= Locked(x) /\ Locked(x) \in Nat /\ Locked(x)' \in Nat
    <3>1. x \notin NoSave.locked
      BY DEF NoSave
    <3> QED BY <1>1, <3>1, LockedStep
  <2>2. Locked(x) <= waiting[x] /\ waiting[x] \in Nat /\ waiting'[x] \in Nat
    BY <1>1 DEF QueueInv, SaverInv, Typed
  <2> QED BY <1>1, <2>1, <2>2
<1>5. ASSUME NEW t \in Savers, NEW x \in PlayerDays, Touches(saver'[t], x), x[2] \in late
      PROVE  x \in saver'[t].locked \cup saver'[t].queued
  <2>1. t # s
    BY <1>1, <1>5, EmptyDone DEF Typed, Touches, NoSave
  <2> QED BY <1>1, <1>5, <2>1 DEF QueueInv, SaverInv, Typed
<1>6. SaverInv'
  BY <1>1, <1>4, <1>5 DEF SaverInv, Touches, PlayerDays, Days
<1> QED BY <1>2, <1>3, <1>6 DEF QueueInv

LEMMA DayIsLateQueue ==
    ASSUME ConstantsFit, QueueInv, NEW d \in Days, DayIsLate(d) PROVE QueueInv'
<1>1. /\ late' = late \cup {d} /\ \A e \in Days \ late : d <= e
      /\ \A p \in Players : Saved(<<p, d>>)
      /\ \A s \in Savers : saver[s] = NoSave
      /\ UNCHANGED <<versions, waiting, retry, dayEnd, saver>> /\ Typed
  BY DEF DayIsLate, jobs, QueueInv
<1>2. Typed'
  BY <1>1 DEF Typed, PlayerDays, Days
<1>3. LateInv'
  <2>1. late' \subseteq Days /\ \A a \in late', e \in Days : e <= a => e \in late'
    <3> SUFFICES ASSUME NEW a \in late', NEW e \in Days, e <= a PROVE e \in late'
      BY <1>1 DEF QueueInv, LateInv
    <3>1. a = d /\ e \notin late => e = d
      BY <1>1 DEF Days
    <3> QED BY <1>1, <3>1 DEF QueueInv, LateInv
  <2>2. ASSUME NEW x \in PlayerDays
        PROVE  /\ x[2] \in late' => Saved(x)
               /\ dayEnd[x] = "taken" => x[2] \in late'
               /\ Saved(x) /\ x[2] \notin late' => dayEnd[x] = "queued"
    <3>1. x[2] = d => Saved(x)
      <4>1. x[1] \in Players /\ x = <<x[1], x[2]>>
        BY DEF PlayerDays
      <4> QED BY <1>1, <4>1
    <3> QED BY <1>1, <3>1 DEF QueueInv, LateInv
  <2> QED BY <1>1, <2>1, <2>2 DEF LateInv, Saved, PlayerDays, Days
<1>4. SaverInv'
  <2>1. \A s \in Savers, x \in PlayerDays : ~Touches(saver[s], x)
    <3>1. DOMAIN NoSave.to = {}
      BY EmptyDone DEF NoSave
    <3>2. \A s \in Savers : saver[s].to = NoSave.to
      BY <1>1
    <3> QED BY <3>1, <3>2 DEF Touches
  <2> QED BY <1>1, <2>1 DEF QueueInv, SaverInv, Locked, Touches, PlayerDays, Days
<1> QED BY <1>2, <1>3, <1>4 DEF QueueInv

\* What a finished calculation leaves as a day's newest result.
LEMMA Appended ==
    ASSUME NEW S, NEW s \in Seq(S), NEW r
    PROVE  /\ Append(s, r) \in Seq(S \cup {r}) /\ Append(s, r) # <<>> /\ Last(Append(s, r)) = r
  BY DEF Last

LEMMA FinishQueue ==
    ASSUME ConstantsFit, QueueInv, NEW w, Finish(w) PROVE QueueInv'
<1> DEFINE l == lane[w]
           of(x) == x[1] = l.player /\ x[2] \in DOMAIN l.done
<1>1. /\ versions' = [x \in PlayerDays |-> IF of(x) /\ l.done[x[2]].saves
             THEN Append(versions[x], l.done[x[2]].result) ELSE versions[x]]
      /\ dayEnd' = [x \in PlayerDays |->
             IF of(x) /\ x[2] \notin late /\ dayEnd[x] = "none" THEN "queued" ELSE dayEnd[x]]
      /\ UNCHANGED <<waiting, retry, late, saver>> /\ Typed
  BY DEF Finish, QueueInv
<1>2. ASSUME NEW x \in PlayerDays
      PROVE  /\ \E S : versions'[x] \in Seq(S)
             /\ Saved(x) => versions'[x] # <<>>
             /\ versions'[x] # <<>> => Saved(x) \/ of(x)
  <2>1. PICK S : versions[x] \in Seq(S)
    BY <1>1 DEF Typed
  <2> DEFINE r == l.done[x[2]].result
  <2>2. versions'[x] \in {versions[x], Append(versions[x], r)} /\ (versions'[x] # versions[x] => of(x))
    BY <1>1
  <2>3. Append(versions[x], r) \in Seq(S \cup {r}) /\ Append(versions[x], r) # <<>>
    BY <2>1, Appended
  <2> QED BY <2>1, <2>2, <2>3 DEF Saved
<1>3. Typed'
  BY <1>1, <1>2 DEF Typed, PlayerDays, Days
<1>4. ASSUME NEW x \in PlayerDays
      PROVE  /\ x[2] \in late => versions'[x] # <<>>
             /\ dayEnd'[x] = "taken" => x[2] \in late
             /\ versions'[x] # <<>> /\ x[2] \notin late => dayEnd'[x] = "queued"
  <2>1. /\ x[2] \in late => Saved(x)
        /\ dayEnd[x] = "taken" => x[2] \in late
        /\ Saved(x) /\ x[2] \notin late => dayEnd[x] = "queued"
        /\ dayEnd[x] \in {"none", "queued", "taken"}
    BY <1>1 DEF QueueInv, LateInv, Typed
  <2> QED BY <1>1, <1>2, <2>1
<1>5. LateInv'
  BY <1>1, <1>4 DEF QueueInv, LateInv, Saved, PlayerDays, Days
<1>6. SaverInv'
  BY <1>1 DEF QueueInv, SaverInv, Locked, Touches, PlayerDays, Days
<1> QED BY <1>3, <1>5, <1>6 DEF QueueInv

\* A worker's other steps leave all this alone, or hand a job back.
LEMMA RestQueue ==
    ASSUME QueueInv, UNCHANGED <<versions, late, saver, waiting, retry, dayEnd>> PROVE QueueInv'
<1>1. JobsMove
  BY DEF JobsMove, QueueInv, SaverInv, Typed
<1> QED BY <1>1, QueueStays

LEMMA BackQueue ==
    ASSUME QueueInv, UNCHANGED <<versions, late, saver, waiting, dayEnd>>,
           NEW x \in PlayerDays, retry' = [retry EXCEPT ![x] = @ + 1]
    PROVE  QueueInv'
<1>1. retry \in [PlayerDays -> Nat]
  BY DEF QueueInv, Typed
<1>2. retry' \in [PlayerDays -> Nat]
  BY <1>1
<1>3. JobsMove
  BY <1>2 DEF JobsMove, QueueInv, SaverInv, Typed
<1> QED BY <1>3, QueueStays

-----------------------------------------------------------------------------
(* What a stale result has for it                                          *)

\* A job of the day that waits, or runs.
Waits(x) == waiting[x] > 0 \/ retry[x] > 0 \/ x \in later \/ x \in first \/ dayEnd[x] = "queued"
TakenBy(w, x) == lane[w].player = x[1] /\ lane[w].from = x[2]
Cause(x) == Waits(x) \/ \E w \in Lanes : TakenBy(w, x)

\* One that has not read its day yet.
Fresh(x) == Waits(x) \/ \E w \in Lanes : TakenBy(w, x) /\ x[2] \notin DOMAIN lane[w].done

After(x) == IF x[2] + 1 \in Days THEN battles[<<x[1], x[2] + 1>>] ELSE None
Before(x) ==
    LET before == <<x[1], x[2] - 1>> IN
    IF x[2] = 1 \/ ~Saved(before) THEN None ELSE Outcome(Newest(before))

SameReports(r, x) == r.own = battles[x] /\ r.next = After(x)

\* A calculated day: what it saves or found saved; whether the next day's result
\* follows; and that it was calculated from what is saved, or its day has a job that
\* will read what changed since.
DoneOK(l, d) ==
    LET x == <<l.player, d>>
        r == l.done[d].result IN
    /\ l.done[d].version > 0
    /\ ~l.done[d].saves => Saved(x) /\ Newest(x) = r
    /\ d + 1 \in late /\ d + 1 \notin l.days \cup l.pending => Outcome(Newest(x)) = Outcome(r)
    /\ d \in late =>
           /\ SameReports(r, x) \/ Fresh(x)
           /\ d = l.from => r.start = Before(x)
           /\ d # l.from => d - 1 \in DOMAIN l.done /\ r.start = Outcome(l.done[d - 1].result)

\* A calculation starts with its first day; the sweep takes all late days from there.
RunOK(l) ==
    /\ l.player \in Players /\ l.from \in Days \cap (l.days \cup l.pending)
    /\ \A d \in l.days \cup l.pending : l.from <= d
    /\ l.sweeps => \A d \in late : l.from <= d => d \in l.days \cup l.pending

RunInv ==
    \A w \in Workers :
        /\ lane[w] # NoJob => RunOK(lane[w])
        /\ \A d \in DOMAIN lane[w].done : DoneOK(lane[w], d)

Meets(x) == SameReports(Newest(x), x) /\ Newest(x).start = Before(x)
MeetInv == \A x \in PlayerDays : x[2] \in late => Meets(x) \/ Cause(x)

DayInv == LockInv /\ QueueInv /\ RunInv /\ MeetInv

LEMMA FreshIsCause == ASSUME NEW x, Fresh(x) PROVE Cause(x)
  BY DEF Fresh, Cause

LEMMA FromDay ==
    ASSUME ConstantsFit, NEW x \in PlayerDays
    PROVE  x = <<x[1], x[2]>> /\ x[1] \in Players /\ x[2] \in Days /\ x[2] # 0
  BY DEF PlayerDays, Days

LEMMA DayInvSuffices == ASSUME ConstantsFit, DayInv PROVE StaleHasCause
<1> SUFFICES ASSUME NEW x \in PlayerDays, Saved(x), ~Matches(Newest(x), Current(x[1], x[2]))
             PROVE  HasCause(x)
  BY DEF StaleHasCause
<1>1. x = <<x[1], x[2]>>
  BY FromDay
<1>2. /\ waiting[x] \in Nat /\ retry[x] \in Nat
      /\ x[2] \notin late => dayEnd[x] = "queued"
  BY DEF DayInv, QueueInv, Typed, LateInv
<1>3. ASSUME NEW r PROVE Matches(r, Current(x[1], x[2])) <=> SameReports(r, x) /\ r.start = Before(x)
  BY <1>1 DEF Matches, Current, SameReports, After, Before
<1>4. Waits(x) => HasCause(x)
  BY <1>2 DEF Waits, HasCause
<1>5. ASSUME NEW w \in Lanes, TakenBy(w, x), x[2] \in late PROVE HasCause(x)
  <2> DEFINE l == lane[w]
  <2>1. <<l.player, l.from>> = x
    BY <1>1, <1>5 DEF TakenBy
  <2>2. CASE l.from \notin DOMAIN l.done
    BY <2>1, <2>2 DEF HasCause
  <2>3. CASE l.from \in DOMAIN l.done
    <3> DEFINE r == l.done[l.from].result
    <3>1. /\ SameReports(r, x) \/ Fresh(x)
          /\ r.start = Before(x)
      <4>1. w \in Workers
        BY DEF Workers
      <4>2. DoneOK(l, l.from)
        BY <2>3, <4>1 DEF DayInv, RunInv
      <4> QED BY <1>5, <2>1, <4>2 DEF DoneOK, TakenBy
    <3>2. CASE SameReports(r, x)
      <4>1. Matches(r, Current(x[1], x[2]))
        BY <1>3, <3>1, <3>2
      <4> QED BY <2>1, <4>1 DEF HasCause
    <3>3. CASE Fresh(x)
      <4>1. CASE Waits(x)
        BY <1>4, <4>1
      <4>2. CASE \E v \in Lanes : TakenBy(v, x) /\ x[2] \notin DOMAIN lane[v].done
        <5>1. PICK v \in Lanes : TakenBy(v, x) /\ x[2] \notin DOMAIN lane[v].done
          BY <4>2
        <5>2. <<lane[v].player, lane[v].from>> = x /\ lane[v].from \notin DOMAIN lane[v].done
          BY <1>1, <5>1 DEF TakenBy
        <5> QED BY <5>2 DEF HasCause
      <4> QED BY <3>3, <4>1, <4>2 DEF Fresh
    <3> QED BY <3>1, <3>2, <3>3
  <2> QED BY <2>2, <2>3
<1>6. CASE x[2] \in late
  <2>1. ~Meets(x)
    BY <1>3 DEF Meets
  <2>2. Cause(x)
    BY <1>6, <2>1 DEF DayInv, MeetInv
  <2> QED BY <1>4, <1>5, <1>6, <2>2 DEF Cause
<1>7. CASE x[2] \notin late
  BY <1>2, <1>4, <1>7 DEF Waits
<1> QED BY <1>6, <1>7

-----------------------------------------------------------------------------
(* Steps that leave the calculations alone                                 *)

\* What changes is what a job that has not read its day will read.
Calm ==
    /\ versions' = versions /\ late' = late /\ lane' = lane
    /\ \A x \in PlayerDays : Waits(x) => Waits(x)'
    /\ \A x \in PlayerDays : x[2] \in late /\ (battles'[x] # battles[x] \/ After(x)' # After(x)) => Waits(x)'

\* What a step keeps of a day a job has calculated.
DayKept(l, n, d) ==
    LET x == <<l.player, d>>
        r == l.done[d].result IN
    /\ n.player = l.player /\ n.from = l.from /\ n.done[d] = l.done[d]
    /\ l.days \cup l.pending \subseteq n.days \cup n.pending
    /\ d - 1 \in DOMAIN l.done => d - 1 \in DOMAIN n.done /\ n.done[d - 1] = l.done[d - 1]
    /\ late' = late /\ Saved(x)' = Saved(x) /\ Newest(x)' = Newest(x)
    /\ d \in late => Before(x)' = Before(x)
    /\ Fresh(x) => Fresh(x)'
    /\ d \in late /\ SameReports(r, x) => SameReports(r, x)' \/ Fresh(x)'

LEMMA DoneStays == ASSUME NEW l, NEW n, NEW d, DoneOK(l, d), DayKept(l, n, d) PROVE DoneOK(n, d)'
<1>1. PICK x, r : x = <<l.player, d>> /\ r = l.done[d].result
  OBVIOUS
<1>2. x = <<n.player, d>> /\ r = n.done[d].result /\ late' = late /\ n.from = l.from
  BY <1>1 DEF DayKept
<1>3. n.done[d].version > 0 /\ (~n.done[d].saves => Saved(x)' /\ Newest(x)' = r)
  BY <1>1 DEF DoneOK, DayKept
<1>4. d + 1 \in late /\ d + 1 \notin n.days \cup n.pending => Outcome(Newest(x)') = Outcome(r)
  BY <1>1 DEF DoneOK, DayKept
<1>5. d \in late => SameReports(r, x)' \/ Fresh(x)'
  BY <1>1 DEF DoneOK, DayKept
<1>6. d \in late /\ d = n.from => r.start = Before(x)'
  BY <1>1 DEF DoneOK, DayKept
<1>7. d \in late /\ d # n.from => d - 1 \in DOMAIN n.done /\ r.start = Outcome(n.done[d - 1].result)
  BY <1>1 DEF DoneOK, DayKept
<1> QED BY <1>2, <1>3, <1>4, <1>5, <1>6, <1>7 DEF DoneOK, Outcome

LEMMA CalmMeets == ASSUME ConstantsFit, DayInv, Calm PROVE RunInv' /\ MeetInv'
<1>1. ASSUME NEW x \in PlayerDays
      PROVE  /\ Fresh(x) => Fresh(x)'
             /\ Cause(x) => Cause(x)'
             /\ Saved(x)' = Saved(x) /\ Newest(x)' = Newest(x) /\ Before(x)' = Before(x)
  <2>1. Waits(x) => Waits(x)'
    BY DEF Calm
  <2>2. lane' = lane /\ versions' = versions
    BY DEF Calm
  <2>3. /\ Fresh(x) => Fresh(x)'
        /\ Cause(x) => Cause(x)'
    BY <2>1, <2>2 DEF Fresh, Cause, TakenBy
  <2> QED BY <2>2, <2>3 DEF Saved, Newest, Before, Outcome
<1>2. ASSUME NEW x \in PlayerDays, x[2] \in late, NEW r, SameReports(r, x)
      PROVE  SameReports(r, x)' \/ Waits(x)'
  BY <1>2 DEF Calm, SameReports
<1>3. MeetInv'
  <2> SUFFICES ASSUME NEW x \in PlayerDays, x[2] \in late, ~Cause(x)' PROVE Meets(x)'
    BY DEF Calm, MeetInv, PlayerDays, Days
  <2>1. Meets(x)
    BY <1>1 DEF DayInv, MeetInv
  <2>2. ~Waits(x)'
    BY DEF Cause
  <2>3. SameReports(Newest(x), x) /\ Newest(x).start = Before(x)
    BY <2>1 DEF Meets
  <2>4. SameReports(Newest(x), x)'
    <3>1. PICK r : r = Newest(x)
      OBVIOUS
    <3>2. SameReports(r, x)'
      BY <1>2, <2>2, <2>3, <3>1
    <3>3. r = Newest(x)'
      BY <1>1, <3>1
    <3> QED BY <3>2, <3>3 DEF SameReports
  <2> QED BY <1>1, <2>3, <2>4 DEF Meets
<1>4. RunInv'
  <2> SUFFICES ASSUME NEW w \in Workers
               PROVE  /\ lane[w] # NoJob => RunOK(lane[w])'
                      /\ \A d \in DOMAIN lane[w].done : DoneOK(lane[w], d)'
    BY DEF Calm, RunInv, Workers
  <2>1. lane[w] # NoJob => RunOK(lane[w])'
    BY DEF Calm, DayInv, RunInv, RunOK, Days
  <2>2. ASSUME NEW d \in DOMAIN lane[w].done PROVE DoneOK(lane[w], d)'
    <3>1. PICK l, x, r : l = lane[w] /\ x = <<l.player, d>> /\ r = l.done[d].result
      OBVIOUS
    <3>2. DoneOK(l, d)
      BY <3>1 DEF DayInv, RunInv
    <3>3. x \in PlayerDays /\ x[2] = d
      <4>1. l # NoJob
        BY <3>1, EmptyDone DEF NoJob
      <4>2. RunOK(l) /\ JobOK(l)
        BY <3>1, <4>1 DEF DayInv, RunInv, LockInv
      <4> QED BY <3>1, <4>2 DEF RunOK, JobOK, PlayerDays
    <3>4. lane'[w] = l /\ late' = late
      BY <3>1 DEF Calm
    <3>5. /\ Saved(x)' = Saved(x) /\ Newest(x)' = Newest(x) /\ Before(x)' = Before(x)
          /\ Fresh(x) => Fresh(x)'
      BY <1>1, <3>3
    <3>6. d \in late /\ SameReports(r, x) => SameReports(r, x)' \/ Fresh(x)'
      BY <1>2, <3>3 DEF Fresh
    <3>7. DoneOK(l, d)'
      <4>1. DayKept(l, l, d)
        BY <3>1, <3>4, <3>5, <3>6 DEF DayKept
      <4> QED BY <3>2, <4>1, DoneStays
    <3> QED BY <3>4, <3>7 DEF DoneOK
  <2> QED BY <2>1, <2>2
<1> QED BY <1>3, <1>4

LEMMA SaveCalm ==
    ASSUME NEW s, NEW P, NEW d, NEW v, SaveChange(s, P, d, v) \/ AbortChange(s) PROVE Calm
<1>1. UNCHANGED <<versions, late, lane, battles, waiting, later, retry, first, dayEnd>>
  BY DEF SaveChange, AbortChange, jobs
<1> QED BY <1>1 DEF Calm, Waits, After, Days

\* A committed change has a job for every late day it changes.
LEMMA CommitCalm ==
    ASSUME ConstantsFit, DayInv, NEW s \in Savers, CommitChange(s) PROVE Calm
<1> DEFINE save == saver[s]
<1>1. /\ \A x \in PlayerDays : battles'[x] =
             IF x[1] \in DOMAIN save.to /\ x[2] = save.day THEN save.to[x[1]] ELSE battles[x]
      /\ \A x \in PlayerDays : waiting'[x] = waiting[x] + IF x \in save.queued THEN 1 ELSE 0
      /\ UNCHANGED <<versions, later, retry, first, dayEnd, late, lane>>
  BY DEF CommitChange
<1>2. \A x \in PlayerDays : waiting[x] \in Nat /\ Locked(x) <= waiting[x] /\ Locked(x) \in Nat
  BY LockedNat DEF DayInv, QueueInv, Typed, SaverInv
<1>3. ASSUME NEW x \in PlayerDays, x \in save.locked \cup save.queued PROVE waiting'[x] > 0
  <2>1. CASE x \in save.queued
    BY <1>1, <1>2, <2>1
  <2>2. CASE x \in save.locked
    <3>1. Typed /\ saver' = [saver EXCEPT ![s] = NoSave]
      BY DEF CommitChange, DayInv, QueueInv
    <3>2. Locked(x) > 0
      BY <2>2, <3>1, LockedStep
    <3> QED BY <1>1, <1>2, <3>2
  <2> QED BY <1>3, <2>1, <2>2
<1>4. ASSUME NEW x \in PlayerDays, x[2] \in late, battles'[x] # battles[x] \/ After(x)' # After(x)
      PROVE  Touches(save, x)
  <2>1. CASE battles'[x] # battles[x]
    BY <1>1, <2>1 DEF Touches
  <2>2. CASE After(x)' # After(x)
    <3> DEFINE y == <<x[1], x[2] + 1>>
    <3>1. x[1] \in Players /\ x[2] \in Days /\ x[2] \in Int
      BY DEF PlayerDays, Days
    <3>2. x[2] + 1 \in Days /\ battles'[y] # battles[y]
      BY <2>2 DEF After, Days
    <3>3. y \in PlayerDays
      BY <3>1, <3>2 DEF PlayerDays
    <3>4. x[1] \in DOMAIN save.to /\ x[2] + 1 = save.day
      BY <1>1, <3>2, <3>3
    <3> QED BY <3>1, <3>4 DEF Touches
  <2> QED BY <1>4, <2>1, <2>2
<1>5. \A x \in PlayerDays : Touches(save, x) /\ x[2] \in late => x \in save.locked \cup save.queued
  BY DEF DayInv, QueueInv, SaverInv
<1>6. \A x \in PlayerDays : waiting[x] <= waiting'[x] /\ waiting'[x] \in Nat
  BY <1>1, <1>2
<1>7. \A x \in PlayerDays : Waits(x) => Waits(x)'
  BY <1>1, <1>2, <1>6 DEF Waits
<1>8. \A x \in PlayerDays :
          x[2] \in late /\ (battles'[x] # battles[x] \/ After(x)' # After(x)) => Waits(x)'
  <2> HIDE DEF save
  <2> QED BY <1>3, <1>4, <1>5 DEF Waits
<1> QED BY <1>1, <1>7, <1>8 DEF Calm

LEMMA RecheckCalm ==
    ASSUME DayInv, Recheck \/ \E x \in PlayerDays : RecheckDue(x) PROVE Calm
<1>1. UNCHANGED <<battles, versions, retry, first, dayEnd, late, lane>>
  BY DEF Recheck, RecheckDue
<1>2. waiting \in [PlayerDays -> Nat]
  BY DEF DayInv, QueueInv, Typed
<1>3. \A y \in PlayerDays : /\ waiting[y] > 0 => waiting'[y] > 0
                            /\ y \in later => y \in later' \/ waiting'[y] > 0
  BY <1>2 DEF Recheck, RecheckDue
<1> QED BY <1>1, <1>3 DEF Calm, Waits, After, Days

-----------------------------------------------------------------------------
(* Steps of one worker                                                     *)

\* It leaves what the others calculated as it is.
OwnStep(w, n) ==
    /\ lane' = [lane EXCEPT ![w] = n]
    /\ UNCHANGED <<battles, versions, late>>
    /\ n # NoJob => RunOK(n)
    /\ \A d \in DOMAIN n.done : DoneOK(n, d)'
    /\ \A v \in Workers \ {w}, x \in PlayerDays :
           lane[v].player = x[1] /\ x[2] \in DOMAIN lane[v].done => (Fresh(x) => Fresh(x)')
    /\ \A x \in PlayerDays : Cause(x) => Cause(x)'

LEMMA DoneDay ==
    ASSUME DayInv, NEW v \in Workers, NEW d \in DOMAIN lane[v].done
    PROVE  /\ lane[v] # NoJob /\ RunOK(lane[v]) /\ JobOK(lane[v]) /\ d \in lane[v].days
           /\ <<lane[v].player, d>> \in PlayerDays
<1>1. lane[v] # NoJob
  BY EmptyDone DEF NoJob
<1>2. RunOK(lane[v]) /\ JobOK(lane[v])
  BY <1>1 DEF DayInv, RunInv, LockInv
<1> QED BY <1>1, <1>2 DEF RunOK, JobOK, PlayerDays

LEMMA OwnStepMeets ==
    ASSUME ConstantsFit, DayInv, NEW w \in Workers, NEW n, OwnStep(w, n) PROVE RunInv' /\ MeetInv'
<1>1. \A x : /\ Saved(x)' = Saved(x) /\ Newest(x)' = Newest(x) /\ Before(x)' = Before(x)
             /\ \A r : SameReports(r, x)' = SameReports(r, x)
  BY DEF OwnStep, Saved, Newest, Before, Outcome, SameReports, After, Days
<1>2. MeetInv'
  <2> SUFFICES ASSUME NEW x \in PlayerDays, x[2] \in late, ~Cause(x)' PROVE Meets(x)'
    BY DEF OwnStep, MeetInv, PlayerDays, Days
  <2>1. Meets(x)
    BY DEF OwnStep, DayInv, MeetInv
  <2>2. SameReports(Newest(x), x)' = SameReports(Newest(x), x)
    BY DEF OwnStep, Newest, SameReports, After, Days
  <2> QED BY <1>1, <2>1, <2>2 DEF Meets
<1>3. \A v \in Workers : lane'[v] = IF v = w THEN n ELSE lane[v]
  BY DEF OwnStep, DayInv, LockInv
<1>4. RunInv'
  <2> SUFFICES ASSUME NEW v \in Workers
               PROVE  /\ lane'[v] # NoJob => RunOK(lane[v])'
                      /\ \A d \in DOMAIN lane'[v].done : DoneOK(lane[v], d)'
    BY DEF RunInv, Workers
  <2>1. CASE v = w
    <3>1. n # NoJob => RunOK(n)'
      BY DEF OwnStep, RunOK, Days
    <3>2. \A d \in DOMAIN n.done : DoneOK(n, d)'
      BY DEF OwnStep
    <3>3. lane'[v] = n
      BY <1>3, <2>1
    <3> QED BY <3>1, <3>2, <3>3 DEF RunOK, DoneOK
  <2>2. CASE v # w
    <3>1. PICK l : l = lane[v] /\ l = lane'[v]
      BY <1>3, <2>2
    <3>2. l # NoJob => RunOK(lane[v])'
      <4>1. l # NoJob => RunOK(l)
        BY <3>1 DEF DayInv, RunInv
      <4> QED BY <3>1, <4>1 DEF OwnStep, RunOK, Days
    <3>3. ASSUME NEW d \in DOMAIN l.done PROVE DoneOK(lane[v], d)'
      <4>1. PICK x, r : x = <<l.player, d>> /\ r = l.done[d].result
        OBVIOUS
      <4>2. DoneOK(l, d)
        BY <3>1 DEF DayInv, RunInv
      <4>3. Fresh(x) => Fresh(x)'
        <5>1. x \in PlayerDays /\ x[1] = l.player /\ x[2] = d
          BY <3>1, <4>1, DoneDay
        <5> QED BY <2>2, <3>1, <5>1 DEF OwnStep
      <4>4. late' = late
        BY DEF OwnStep
      <4>5. DoneOK(l, d)'
        <5>1. DayKept(l, l, d)
          BY <1>1, <4>1, <4>3, <4>4 DEF DayKept
        <5> QED BY <4>2, <5>1, DoneStays
      <4> QED BY <3>1, <4>5 DEF DoneOK
    <3> QED BY <3>1, <3>2, <3>3
  <2> QED BY <2>1, <2>2
<1> QED BY <1>2, <1>4

\* Whose causes stay when one worker moves on.
LEMMA OthersCause ==
    ASSUME LockInv, NEW w \in Workers, NEW n, lane' = [lane EXCEPT ![w] = n], NEW x,
           \/ w \notin Lanes \/ ~TakenBy(w, x) \/ Waits(x)'
           \/ n.player = lane[w].player /\ n.from = lane[w].from,
           \/ Waits(x) => Waits(x)'
           \/ w \in Lanes /\ n.player = x[1] /\ n.from = x[2]
    PROVE  Cause(x) => Cause(x)'
<1>1. \A v \in Lanes : v \in Workers /\ (lane'[v] = IF v = w THEN n ELSE lane[v])
  BY DEF LockInv, Workers
<1> QED BY <1>1 DEF Cause, TakenBy

LEMMA OthersFresh ==
    ASSUME LockInv, NEW w \in Workers, NEW n, lane' = [lane EXCEPT ![w] = n], NEW x,
           \/ w \notin Lanes \/ ~TakenBy(w, x) \/ Waits(x)' \/ x[2] \in DOMAIN lane[w].done
           \/ n.player = lane[w].player /\ n.from = lane[w].from /\ x[2] \notin DOMAIN n.done,
           \/ Waits(x) => Waits(x)'
           \/ w \in Lanes /\ n.player = x[1] /\ n.from = x[2] /\ x[2] \notin DOMAIN n.done
    PROVE  Fresh(x) => Fresh(x)'
<1>1. \A v \in Lanes : v \in Workers /\ (lane'[v] = IF v = w THEN n ELSE lane[v])
  BY DEF LockInv, Workers
<1> QED BY <1>1 DEF Fresh, TakenBy

\* A claimed job is a cause of its day that has read nothing.
LEMMA TakeMeets ==
    ASSUME ConstantsFit, DayInv, NEW w \in Lanes, NEW x \in PlayerDays, lane[w] = NoJob,
           Take(w, x), UNCHANGED <<battles, versions, late>>,
           \A y \in PlayerDays : Waits(y) => Waits(y)' \/ y = x
    PROVE  RunInv' /\ MeetInv'
<1>1. w \in Workers /\ x \in Players \X Days /\ x = <<x[1], x[2]>> /\ x[1] \in Players /\ x[2] \in Days
  BY DEF Workers, PlayerDays
<1>2. PICK n : /\ n = [NoJob EXCEPT !.player = x[1], !.from = x[2], !.pending = {x[2]}]
               /\ lane' = [lane EXCEPT ![w] = n]
  BY DEF Take
<1>3. /\ n.player = x[1] /\ n.from = x[2] /\ n.pending = {x[2]} /\ n.days = {} /\ n.sweeps = FALSE
      /\ n.done = <<>>
  BY <1>2 DEF NoJob
<1>4. DOMAIN n.done = {}
  BY <1>3, EmptyDone
<1>5. \A y \in PlayerDays : ~TakenBy(w, y)
  BY FromDay DEF TakenBy, NoJob
<1>6. RunOK(n)
  BY <1>1, <1>3 DEF RunOK, Days
<1>7. ASSUME NEW y \in PlayerDays PROVE (Fresh(y) => Fresh(y)') /\ (Cause(y) => Cause(y)')
  <2>1. \/ Waits(y) => Waits(y)'
        \/ w \in Lanes /\ n.player = y[1] /\ n.from = y[2] /\ y[2] \notin DOMAIN n.done
    BY <1>3, <1>4
  <2>2. LockInv
    BY DEF DayInv
  <2>3. Fresh(y) => Fresh(y)'
    BY <1>1, <1>2, <1>5, <2>1, <2>2, OthersFresh
  <2>4. Cause(y) => Cause(y)'
    BY <1>1, <1>2, <1>5, <2>1, <2>2, OthersCause
  <2> QED BY <2>3, <2>4
<1>9. OwnStep(w, n)
  BY <1>2, <1>4, <1>6, <1>7 DEF OwnStep
<1> QED BY <1>1, <1>9, OwnStepMeets

LEMMA ClaimMeets ==
    ASSUME ConstantsFit, DayInv, NEW w \in Lanes, NEW x \in PlayerDays,
           ClaimRecheck(w, x) \/ ClaimRetry(w, x) \/ ClaimFirst(w, x) \/ ClaimDayEnd(w, x)
    PROVE  RunInv' /\ MeetInv'
<1>1. lane[w] = NoJob /\ Take(w, x) /\ UNCHANGED <<battles, versions, late>>
  BY DEF ClaimRecheck, ClaimRetry, ClaimFirst, ClaimDayEnd
<1>2. DOMAIN waiting = PlayerDays /\ DOMAIN retry = PlayerDays /\ DOMAIN dayEnd = PlayerDays
  BY DEF DayInv, QueueInv, Typed
<1>3. /\ \A y \in PlayerDays \ {x} : waiting'[y] = waiting[y] /\ retry'[y] = retry[y] /\ dayEnd'[y] = dayEnd[y]
      /\ later' = later /\ first \ {x} \subseteq first'
  BY <1>2 DEF ClaimRecheck, ClaimRetry, ClaimFirst, ClaimDayEnd
<1>4. \A y \in PlayerDays : Waits(y) => Waits(y)' \/ y = x
  BY <1>3 DEF Waits
<1> QED BY <1>1, <1>4, TakeMeets

LEMMA TakeLockMeets ==
    ASSUME ConstantsFit, DayInv, NEW w \in Workers, TakeLock(w) PROVE RunInv' /\ MeetInv'
<1> DEFINE l == lane[w]
<1>1. LockInv /\ JobOK(l) /\ IsJob(l)
  BY DEF DayInv, LockInv, JobOK
<1>2. PICK lock, n :
         /\ lock \in Wants(w) /\ lane' = [lane EXCEPT ![w] = n]
         /\ lock[1] = "day" => n = [l EXCEPT !.day = lock[3], !.days = l.days \cup {lock[3]},
                                             !.pending = l.pending \ {lock[3]}]
         /\ lock[1] # "day" => n = [l EXCEPT !.resets = l.resets \cup {lock[3]}]
  BY TakesLock
<1>3. /\ n.player = l.player /\ n.from = l.from /\ n.sweeps = l.sweeps /\ n.done = l.done
      /\ n.days \cup n.pending = l.days \cup l.pending
  <2>1. PICK d \in Days : lock = ResetLock(d) \/ (lock = DayLock(l.player, d) /\ d \in l.pending)
    BY <1>1, <1>2, AskedLock
  <2>2. CASE lock = ResetLock(d)
    <3>1. n = [l EXCEPT !.resets = l.resets \cup {d}]
      BY <1>2, <2>2 DEF ResetLock
    <3> QED BY <1>1, <3>1 DEF IsJob
  <2>3. CASE lock = DayLock(l.player, d) /\ d \in l.pending
    <3>1. n = [l EXCEPT !.day = d, !.days = l.days \cup {d}, !.pending = l.pending \ {d}]
      BY <1>2, <2>3 DEF DayLock
    <3>2. /\ n.player = l.player /\ n.from = l.from /\ n.sweeps = l.sweeps /\ n.done = l.done
          /\ n.days = l.days \cup {d} /\ n.pending = l.pending \ {d}
      BY <1>1, <3>1 DEF IsJob
    <3> QED BY <2>3, <3>2
  <2> QED BY <2>1, <2>2, <2>3
<1>4. l # NoJob
  BY <1>2 DEF Wants
<1>5. RunOK(l) /\ RunOK(n)
  <2>1. RunOK(l)
    BY <1>4 DEF DayInv, RunInv
  <2> QED BY <1>3, <2>1 DEF RunOK
<1>6. UNCHANGED <<battles, versions, late, waiting, later, retry, first, dayEnd>>
  BY DEF TakeLock, jobs
<1>7. \A x : Waits(x)' = Waits(x)
  BY <1>6 DEF Waits
<1>8. \A x : (Fresh(x) => Fresh(x)') /\ (Cause(x) => Cause(x)')
  <2> SUFFICES ASSUME NEW x PROVE (Fresh(x) => Fresh(x)') /\ (Cause(x) => Cause(x)')
    OBVIOUS
  <2>1. Fresh(x) => Fresh(x)'
    BY <1>1, <1>2, <1>3, <1>7, OthersFresh
  <2>2. Cause(x) => Cause(x)'
    BY <1>1, <1>2, <1>3, <1>7, OthersCause
  <2> QED BY <2>1, <2>2
<1>9. ASSUME NEW d \in DOMAIN n.done PROVE DoneOK(n, d)'
  <2>1. PICK m, x, r : m = l /\ x = <<m.player, d>> /\ r = m.done[d].result
    OBVIOUS
  <2>2. DoneOK(m, d)
    BY <1>3, <2>1 DEF DayInv, RunInv
  <2>3. /\ Saved(x)' = Saved(x) /\ Newest(x)' = Newest(x) /\ Before(x)' = Before(x)
        /\ SameReports(r, x)' = SameReports(r, x)
    BY <1>6 DEF Saved, Newest, Before, Outcome, SameReports, After, Days
  <2>4. DayKept(m, n, d)
    BY <1>3, <1>6, <1>8, <2>1, <2>3 DEF DayKept
  <2> QED BY <2>2, <2>4, DoneStays
<1>10. OwnStep(w, n)
  BY <1>2, <1>5, <1>6, <1>8, <1>9 DEF OwnStep
<1> QED BY <1>10, OwnStepMeets

\* What comes back after a failure is a cause again.
LEMMA GiveUpMeets ==
    ASSUME ConstantsFit, DayInv, NEW w \in Workers, GiveUp(w) PROVE RunInv' /\ MeetInv'
<1> DEFINE l == lane[w]
           z == <<l.player, l.from>>
<1>1. /\ l # NoJob /\ lane' = [lane EXCEPT ![w] = NoJob]
      /\ retry' = IF l.sweeps THEN retry ELSE [retry EXCEPT ![z] = @ + 1]
      /\ UNCHANGED <<battles, versions, waiting, later, first, dayEnd, late>>
  BY DEF GiveUp
<1>2. RunOK(l) /\ LockInv /\ retry \in [PlayerDays -> Nat]
  BY <1>1 DEF DayInv, RunInv, QueueInv, Typed
<1>3. z \in PlayerDays
  BY <1>2 DEF RunOK, PlayerDays
<1>4. \A x \in PlayerDays : retry[x] > 0 => retry'[x] > 0
  BY <1>1, <1>2
<1>5. \A x \in PlayerDays : Waits(x) => Waits(x)'
  BY <1>1, <1>4 DEF Waits
<1>6. ASSUME NEW x \in PlayerDays, w \in Lanes, TakenBy(w, x) PROVE Waits(x)'
  <2>1. x = z
    BY <1>6, FromDay DEF TakenBy
  <2>2. ~l.sweeps
    BY <1>2, <1>6 DEF LockInv, ConstantsFit, Workers
  <2>3. retry'[z] > 0
    BY <1>1, <1>2, <1>3, <2>2
  <2> QED BY <2>1, <2>3 DEF Waits
<1>7. ASSUME NEW x \in PlayerDays PROVE (Fresh(x) => Fresh(x)') /\ (Cause(x) => Cause(x)')
  <2>1. w \notin Lanes \/ ~TakenBy(w, x) \/ Waits(x)'
    BY <1>6
  <2>2. Fresh(x) => Fresh(x)'
    BY <1>1, <1>2, <1>5, <2>1, OthersFresh
  <2>3. Cause(x) => Cause(x)'
    BY <1>1, <1>2, <1>5, <2>1, OthersCause
  <2> QED BY <2>2, <2>3
<1>9. DOMAIN NoJob.done = {}
  BY EmptyDone DEF NoJob
<1>10. OwnStep(w, NoJob)
  BY <1>1, <1>7, <1>9 DEF OwnStep
<1> QED BY <1>10, OwnStepMeets

\* The sweep takes every late day from the first one that needs it.
LEMMA SweepPlayerMeets ==
    ASSUME ConstantsFit, DayInv, NEW p \in Players, SweepPlayer(p) PROVE RunInv' /\ MeetInv'
<1> DEFINE stale == {d \in Days : Saved(<<p, d>>) /\ (Misses(<<p, d>>) \/ Outdated(<<p, d>>))}
           all == {d \in Days : d >= Min(stale) /\ Saved(<<p, d>>)}
<1>1. /\ stale # {} /\ lane[Sweep] = NoJob
      /\ lane' = [lane EXCEPT ![Sweep] = [NoJob EXCEPT
            !.player = p, !.from = Min(stale), !.sweeps = TRUE, !.pending = all]]
      /\ UNCHANGED <<battles, versions, waiting, later, retry, first, dayEnd, late>>
  BY DEF SweepPlayer, jobs
<1>2. Min(stale) \in stale
  <2>1. stale \in SUBSET Nat
    BY DEF Days
  <2> HIDE DEF stale
  <2> QED BY <1>1, <2>1, MinOf
<1>3. PICK from \in Days, pending \in SUBSET Days :
         /\ from \in pending /\ \A d \in pending : from <= d
         /\ \A d \in late : from <= d => d \in pending
         /\ lane' = [lane EXCEPT ![Sweep] = [NoJob EXCEPT
               !.player = p, !.from = from, !.sweeps = TRUE, !.pending = pending]]
  <2>1. Min(stale) \in Days /\ Min(stale) \in all /\ all \in SUBSET Days
    BY <1>2 DEF Days
  <2>2. \A d \in late : d \in Days /\ Saved(<<p, d>>)
    BY DEF DayInv, QueueInv, LateInv, PlayerDays
  <2>3. \A d \in all : Min(stale) <= d
    BY <2>1 DEF Days
  <2>4. \A d \in late : Min(stale) <= d => d \in all
    BY <2>1, <2>2 DEF Days
  <2> HIDE DEF stale, all
  <2> QED BY <1>1, <2>1, <2>3, <2>4
<1>4. PICK n : n = [NoJob EXCEPT !.player = p, !.from = from, !.sweeps = TRUE, !.pending = pending]
  OBVIOUS
<1>5. n.player = p /\ n.from = from /\ n.sweeps = TRUE /\ n.pending = pending /\ n.days = {} /\ n.done = <<>>
  BY <1>4 DEF NoJob
<1>6. RunOK(n) /\ DOMAIN n.done = {}
  BY <1>3, <1>5, EmptyDone DEF RunOK
<1>7. Sweep \in Workers /\ Sweep \notin Lanes /\ LockInv /\ lane' = [lane EXCEPT ![Sweep] = n]
  BY <1>3, <1>4 DEF Workers, ConstantsFit, DayInv
<1>8. \A x : Waits(x) => Waits(x)'
  BY <1>1 DEF Waits
<1>9. \A x : (Fresh(x) => Fresh(x)') /\ (Cause(x) => Cause(x)')
  <2> SUFFICES ASSUME NEW x PROVE (Fresh(x) => Fresh(x)') /\ (Cause(x) => Cause(x)')
    OBVIOUS
  <2>1. Fresh(x) => Fresh(x)'
    BY <1>7, <1>8, OthersFresh
  <2>2. Cause(x) => Cause(x)'
    BY <1>7, <1>8, OthersCause
  <2> QED BY <2>1, <2>2
<1>10. OwnStep(Sweep, n)
  <2> HIDE DEF stale, all
  <2> QED BY <1>1, <1>6, <1>7, <1>9 DEF OwnStep
<1> QED BY <1>7, <1>10, OwnStepMeets

\* A day that turns late has its day-end recalculation, and nothing is under way.
LEMMA DayIsLateMeets ==
    ASSUME ConstantsFit, DayInv, NEW d \in Days, DayIsLate(d) PROVE RunInv' /\ MeetInv'
<1>1. /\ late' = late \cup {d}
      /\ \A p \in Players : Saved(<<p, d>>)
      /\ \A w \in Workers : lane[w] = NoJob
      /\ UNCHANGED <<battles, versions, waiting, later, retry, first, dayEnd, lane>>
  BY DEF DayIsLate, jobs
<1>2. RunInv'
  <2>1. DOMAIN NoJob.done = {}
    BY EmptyDone DEF NoJob
  <2> QED BY <1>1, <2>1 DEF RunInv, Workers, NoJob
<1>3. ASSUME NEW x \in PlayerDays, x[2] \in late' PROVE Meets(x)' \/ Cause(x)'
  <2>1. CASE x[2] \in late
    <3>1. Meets(x) \/ Cause(x)
      BY <2>1 DEF DayInv, MeetInv
    <3>2. Cause(x) => Cause(x)'
      BY <1>1 DEF Cause, Waits, TakenBy
    <3>3. Meets(x) => Meets(x)'
      BY <1>1 DEF Meets, SameReports, After, Before, Newest, Saved, Outcome, Days
    <3> QED BY <3>1, <3>2, <3>3
  <2>2. CASE x[2] = d /\ x[2] \notin late
    <3>1. Saved(x)
      BY <1>1, <2>2, FromDay
    <3>2. dayEnd[x] = "queued"
      BY <2>2, <3>1 DEF DayInv, QueueInv, LateInv
    <3>3. Waits(x)'
      BY <1>1, <3>2 DEF Waits
    <3> QED BY <3>3 DEF Cause
  <2> QED BY <1>1, <1>3, <2>1, <2>2
<1>4. MeetInv'
  BY <1>3 DEF MeetInv, PlayerDays, Days
<1> QED BY <1>2, <1>4

\* What is under way when the first states begin: nothing.
LEMMA DayInvStarts == ASSUME ConstantsFit, Init PROVE DayInv
<1>1. /\ \A x, y \in PlayerDays : battles[x] = battles[y]
      /\ versions = [x \in PlayerDays |-> IF x \in Unsaved THEN <<>> ELSE <<FirstResult[x]>>]
      /\ waiting = [x \in PlayerDays |-> 0] /\ retry = [x \in PlayerDays |-> 0]
      /\ late = IF DayEnds = "taken" THEN Days ELSE {}
      /\ dayEnd = [x \in PlayerDays |-> IF x \in Unsaved THEN "none" ELSE DayEnds]
      /\ lane = [w \in Workers |-> NoJob] /\ saver = [s \in Savers |-> NoSave]
  BY DEF Init
<1>2. DayEnds \in {"queued", "taken"} /\ (DayEnds = "taken" => Unsaved = {}) /\ Unsaved \subseteq PlayerDays
  BY DEF ConstantsFit
<1>3. ASSUME NEW x \in PlayerDays PROVE Saved(x) <=> x \notin Unsaved
  <2>1. versions[x] = IF x \in Unsaved THEN <<>> ELSE <<FirstResult[x]>>
    BY <1>1
  <2> QED BY <2>1 DEF Saved
<1>4. LockInv
  BY LockInvStarts
<1>5. Typed
  <2>1. ASSUME NEW x \in PlayerDays PROVE versions[x] \in Seq({FirstResult[x]})
    <3>1. versions[x] = IF x \in Unsaved THEN <<>> ELSE <<FirstResult[x]>>
      BY <1>1
    <3> DEFINE S == {FirstResult[x]}
    <3>2. FirstResult[x] \in S
      OBVIOUS
    <3> HIDE DEF S
    <3>3. <<FirstResult[x]>> \in Seq(S) /\ <<>> \in Seq(S)
      BY <3>2
    <3>4. versions[x] \in Seq(S)
      BY <3>1, <3>3
    <3> QED BY <3>4 DEF S
  <2>2. dayEnd \in [PlayerDays -> {"none", "queued", "taken"}]
    BY <1>1, <1>2
  <2> QED BY <1>1, <2>1, <2>2 DEF Typed
<1>6. LateInv
  BY <1>1, <1>2, <1>3 DEF LateInv, PlayerDays
<1>7. SaverInv
  <2>1. ASSUME NEW x \in PlayerDays PROVE Locked(x) = 0
    <3>1. {s \in Savers : x \in saver[s].locked} = {}
      BY <1>1 DEF NoSave
    <3> QED BY <3>1, FS_EmptySet DEF Locked
  <2>2. \A s \in Savers, x \in PlayerDays : ~Touches(saver[s], x)
    <3>1. DOMAIN NoSave.to = {}
      BY EmptyDone DEF NoSave
    <3>2. \A s \in Savers : saver[s].to = NoSave.to
      BY <1>1
    <3> QED BY <3>1, <3>2 DEF Touches
  <2> QED BY <1>1, <2>1, <2>2 DEF SaverInv
<1>8. RunInv
  <2>1. DOMAIN NoJob.done = {}
    BY EmptyDone DEF NoJob
  <2> QED BY <1>1, <2>1 DEF RunInv
<1>9. MeetInv
  <2> SUFFICES ASSUME NEW x \in PlayerDays, x[2] \in late PROVE Meets(x)
    BY DEF MeetInv
  <2>1. Unsaved = {}
    BY <1>1, <1>2
  <2>2. \A y \in PlayerDays : Newest(y) = FirstOf(FirstResult, y)
    <3>1. \A y \in PlayerDays : versions[y] = <<FirstResult[y]>>
      BY <1>1, <2>1
    <3> QED BY <3>1, FirstResultIs DEF Newest, Last
  <2>3. PICK r : r = Newest(x) /\ r = FirstOf(FirstResult, x)
    BY <2>2
  <2>4. x = <<x[1], x[2]>> /\ x[1] \in Players /\ x[2] \in 1 .. LastDay /\ LastDay \in Nat
    BY FromDay DEF Days, ConstantsFit
  <2>5. SameReports(r, x)
    <3>1. r.own = battles[x] /\ r.next = IF x[2] = LastDay THEN None ELSE battles[x]
      BY <2>3 DEF FirstOf
    <3>2. x[2] # LastDay => <<x[1], x[2] + 1>> \in PlayerDays
      BY <2>4 DEF PlayerDays, Days
    <3> QED BY <1>1, <2>4, <3>1, <3>2 DEF SameReports, After, Days
  <2>6. r.start = Before(x)
    <3>1. CASE x[2] = 1
      BY <2>3, <3>1 DEF FirstOf, Before
    <3>2. CASE x[2] # 1
      <4> DEFINE b == <<x[1], x[2] - 1>>
      <4>1. b \in PlayerDays
        BY <2>4, <3>2 DEF PlayerDays, Days
      <4>2. Saved(b) /\ Newest(b) = FirstResult[b]
        BY <1>3, <2>1, <2>2, <4>1, FirstResultIs
      <4>3. r.start = Outcome(FirstResult[b])
        BY <2>1, <2>3, <3>2 DEF FirstOf
      <4> QED BY <3>2, <4>2, <4>3 DEF Before
    <3> QED BY <3>1, <3>2
  <2> QED BY <2>3, <2>5, <2>6 DEF Meets
<1> QED BY <1>4, <1>5, <1>6, <1>7, <1>8, <1>9 DEF DayInv, QueueInv

-----------------------------------------------------------------------------
(* A calculation                                                           *)

\* What a calculation notes of its day, and the job it leaves.
Entry(x, r) ==
    [version |-> Version(x, Existing(x, r)), result |-> r,
     saves |-> ~Existing(x, r)]

CalculatedJob(w, n) ==
    LET l == lane[w]
        r == Read(w, l.player, l.day) IN
    /\ n.player = l.player /\ n.from = l.from /\ n.sweeps = l.sweeps /\ n.days = l.days
    /\ n.pending = l.pending \cup (Following(w, l.player, l.day, r) \ DOMAIN l.done)
    /\ DOMAIN n.done = DOMAIN l.done \cup {l.day}
    /\ n.done[l.day] = Entry(<<l.player, l.day>>, r)
    /\ \A e \in DOMAIN l.done \ {l.day} : n.done[e] = l.done[e]

LEMMA Calculates ==
    ASSUME LockInv, NEW w \in Workers, Calculate(w)
    PROVE  lane[w].day # 0 /\ \E n : lane' = [lane EXCEPT ![w] = n] /\ CalculatedJob(w, n)
<1> DEFINE l == lane[w]
           d == l.day
           p == l.player
           x == <<p, d>>
           result == Read(w, p, d)
           existing == Existing(x, result)
<1>1. PICK entry : entry = Entry(x, result)
  OBVIOUS
<1>2. PICK done : done = [e \in DOMAIN l.done \cup {d} |-> IF e = d THEN entry ELSE l.done[e]]
  OBVIOUS
<1>3. PICK pending, members :
         /\ pending = l.pending \cup (Following(w, p, d, result) \ DOMAIN l.done)
         /\ members = IF existing THEN l.members ELSE l.members \cup {d}
  OBVIOUS
<1>4. lane' = [lane EXCEPT ![w].day = 0, ![w].done = done, ![w].pending = pending, ![w].members = members]
  BY <1>1, <1>2, <1>3 DEF Calculate, Entry
<1>5. PICK n : n = [l EXCEPT !.day = 0, !.done = done, !.pending = pending, !.members = members]
  OBVIOUS
<1>6. lane' = [lane EXCEPT ![w] = n]
  BY <1>4, <1>5
<1>7. IsJob(l)
  BY DEF LockInv, JobOK
<1>8. /\ n.player = l.player /\ n.from = l.from /\ n.sweeps = l.sweeps /\ n.days = l.days
      /\ n.pending = pending /\ n.done = done
  BY <1>5, <1>7 DEF IsJob
<1>9. d # 0
  BY DEF Calculate
<1>10. /\ DOMAIN n.done = DOMAIN l.done \cup {d} /\ n.done[d] = entry
       /\ \A e \in DOMAIN l.done \ {d} : n.done[e] = l.done[e]
  BY <1>2, <1>8
<1>11. CalculatedJob(w, n)
  BY <1>1, <1>3, <1>8, <1>10 DEF CalculatedJob
<1> QED BY <1>6, <1>9, <1>11

\* What it read, and from which result of the day before.
LEMMA ReadSound ==
    ASSUME ConstantsFit, DayInv, NEW w \in Workers, RunOK(lane[w]), JobOK(lane[w]), lane[w].day # 0
    PROVE  LET l == lane[w]
               x == <<l.player, l.day>>
               r == Read(w, l.player, l.day) IN
           /\ x \in PlayerDays
           /\ SameReports(r, x)
           /\ l.day = l.from => r.start = Before(x)
           /\ l.day # l.from /\ l.day - 1 \in DOMAIN l.done => r.start = Outcome(l.done[l.day - 1].result)
<1>1. PICK l, p, d, x, r : /\ l = lane[w] /\ p = l.player /\ d = l.day /\ x = <<p, d>>
                           /\ r = Read(w, p, d)
  OBVIOUS
<1>2. d \in Days /\ p \in Players /\ d \in Nat /\ d # 0
  BY <1>1 DEF RunOK, JobOK, Days
<1>3. x \in PlayerDays /\ x[1] = p /\ x[2] = d
  BY <1>1, <1>2 DEF PlayerDays
<1>4. SameReports(r, x)
  BY <1>1, <1>2, <1>3 DEF Read, SameReports, After
<1>5. ASSUME d = l.from PROVE r.start = Before(x)
  <2>1. d - 1 \notin DOMAIN l.done
    BY <1>1, <1>2, <1>5 DEF RunOK, JobOK, Days
  <2>2. PICK b : b = <<p, d - 1>>
    OBVIOUS
  <2>3. r.start = IF (IF d = 1 THEN 0 ELSE Len(versions[b])) = 0 THEN None ELSE Outcome(Newest(b))
    BY <1>1, <2>1, <2>2 DEF Read
  <2>4. CASE d = 1
    BY <1>3, <2>3, <2>4 DEF Before
  <2>5. CASE d # 1
    <3>1. b \in PlayerDays
      BY <1>2, <2>2, <2>5 DEF PlayerDays, Days, ConstantsFit
    <3>2. PICK S : versions[b] \in Seq(S)
      BY <3>1 DEF DayInv, QueueInv, Typed
    <3>3. Len(versions[b]) = 0 <=> ~Saved(b)
      BY <3>2 DEF Saved
    <3> QED BY <1>3, <2>2, <2>3, <2>5, <3>3 DEF Before
  <2> QED BY <2>4, <2>5
<1>6. ASSUME d # l.from, d - 1 \in DOMAIN l.done PROVE r.start = Outcome(l.done[d - 1].result)
  <2>1. l.done[d - 1].version > 0
    <3>1. DoneOK(l, d - 1)
      BY <1>1, <1>6 DEF DayInv, RunInv
    <3> QED BY <3>1 DEF DoneOK
  <2>2. l.done[d - 1].version # 0
    BY <2>1
  <2> QED BY <1>1, <1>6, <2>2 DEF Read
<1> QED BY <1>1, <1>3, <1>4, <1>5, <1>6

\* A late day's calculation has the day before, unless it is the first.
LEMMA DayBefore ==
    ASSUME ConstantsFit, DayInv, NEW w \in Workers, RunOK(lane[w]), JobOK(lane[w]),
           lane[w].day # 0, lane[w].day # lane[w].from, lane[w].day \in late
    PROVE  lane[w].day - 1 \in DOMAIN lane[w].done
<1> DEFINE l == lane[w]
           d == l.day
<1>1. d \in l.days /\ d \in Days /\ l.from \in Days /\ l.from <= d /\ l.from \in l.days \cup l.pending
  BY DEF RunOK, JobOK
<1>2. d - 1 \in Days /\ l.from <= d - 1 /\ d - 1 < d /\ d - 1 # d /\ d \in Int
  BY <1>1 DEF Days, ConstantsFit
<1>3. d - 1 \in l.days \cup l.pending
  <2>1. CASE l.sweeps
    <3>1. d - 1 \in late
      BY <1>2 DEF DayInv, QueueInv, LateInv
    <3> QED BY <1>2, <2>1, <3>1 DEF RunOK
  <2>2. CASE ~l.sweeps
    <3>1. ChainOK(l)
      BY DEF DayInv, LockInv
    <3> QED BY <1>1, <1>2, <2>2, <3>1 DEF ChainOK
  <2> QED BY <2>1, <2>2
<1>4. d - 1 \notin l.pending
  BY <1>1, <1>2 DEF JobOK
<1> QED BY <1>2, <1>3, <1>4 DEF JobOK

LEMMA CalculateMeets ==
    ASSUME ConstantsFit, DayInv, NEW w \in Workers, Calculate(w) PROVE RunInv' /\ MeetInv'
<1>1. PICK l, d, p, x : l = lane[w] /\ d = l.day /\ p = l.player /\ x = <<p, d>>
  OBVIOUS
<1>2. LockInv /\ JobOK(l) /\ ChainOK(l)
  BY <1>1 DEF DayInv, LockInv
<1>3. d # 0 /\ l # NoJob
  <2>1. d # 0
    BY <1>1, <1>2, Calculates
  <2> QED BY <1>1, <2>1 DEF NoJob
<1>4. PICK n, r :
         /\ lane' = [lane EXCEPT ![w] = n] /\ r = Read(w, p, d)
         /\ n.player = p /\ n.from = l.from /\ n.sweeps = l.sweeps /\ n.days = l.days
         /\ n.pending = l.pending \cup (Following(w, p, d, r) \ DOMAIN l.done)
         /\ DOMAIN n.done = DOMAIN l.done \cup {d} /\ n.done[d] = Entry(x, r)
         /\ \A e \in DOMAIN l.done \ {d} : n.done[e] = l.done[e]
  <2>1. PICK n : lane' = [lane EXCEPT ![w] = n] /\ CalculatedJob(w, n)
    BY <1>2, Calculates
  <2>2. PICK r : r = Read(w, p, d)
    OBVIOUS
  <2>3. /\ n.player = p /\ n.from = l.from /\ n.sweeps = l.sweeps /\ n.days = l.days
        /\ n.pending = l.pending \cup (Following(w, p, d, r) \ DOMAIN l.done)
        /\ DOMAIN n.done = DOMAIN l.done \cup {d} /\ n.done[d] = Entry(x, r)
        /\ \A e \in DOMAIN l.done \ {d} : n.done[e] = l.done[e]
    BY <1>1, <2>1, <2>2 DEF CalculatedJob
  <2> QED BY <2>1, <2>2, <2>3
<1>5. RunOK(l)
  BY <1>1, <1>3 DEF DayInv, RunInv
<1>6. d \in l.days /\ d \in Days /\ d \notin DOMAIN l.done /\ d \in Nat /\ DOMAIN l.done \subseteq l.days
  BY <1>1, <1>2, <1>3 DEF JobOK, Days
<1>8. /\ x \in PlayerDays /\ x[1] = p /\ x[2] = d
      /\ SameReports(r, x)
      /\ d = l.from => r.start = Before(x)
      /\ d # l.from /\ d - 1 \in DOMAIN l.done => r.start = Outcome(l.done[d - 1].result)
  BY <1>1, <1>2, <1>3, <1>4, <1>5, ReadSound
<1>9. UNCHANGED <<battles, versions, late, waiting, later, retry, first, dayEnd>>
  BY DEF Calculate, jobs
<1>10. RunOK(n)
  <2>1. n.pending \subseteq l.pending \cup {d + 1} /\ l.pending \subseteq n.pending
    BY <1>4 DEF Following
  <2>2. l.from <= d /\ l.from \in Int
    BY <1>5, <1>6 DEF RunOK, Days
  <2> QED BY <1>1, <1>4, <1>5, <1>6, <2>1, <2>2 DEF RunOK
<1>11. \A y : (Waits(y) => Waits(y)') /\ (Cause(y) => Cause(y)')
  <2> SUFFICES ASSUME NEW y PROVE (Waits(y) => Waits(y)') /\ (Cause(y) => Cause(y)')
    OBVIOUS
  <2>1. Waits(y) => Waits(y)'
    BY <1>9 DEF Waits
  <2>2. Cause(y) => Cause(y)'
    <3>1. n.player = lane[w].player /\ n.from = lane[w].from
      BY <1>1, <1>4
    <3> QED BY <1>2, <1>4, <2>1, <3>1, OthersCause
  <2> QED BY <2>1, <2>2
<1>12. ASSUME NEW y, y[2] # d \/ ~TakenBy(w, y) PROVE Fresh(y) => Fresh(y)'
  <2>1. \/ w \notin Lanes \/ ~TakenBy(w, y) \/ Waits(y)' \/ y[2] \in DOMAIN lane[w].done
        \/ n.player = lane[w].player /\ n.from = lane[w].from /\ y[2] \notin DOMAIN n.done
    BY <1>1, <1>4, <1>12
  <2> QED BY <1>2, <1>4, <1>11, <2>1, OthersFresh
<1>13. ASSUME NEW v \in Workers \ {w}, NEW y \in PlayerDays, lane[v].player = y[1], y[2] \in DOMAIN lane[v].done
       PROVE  Fresh(y) => Fresh(y)'
  <2>1. ~(y[2] = d /\ TakenBy(w, y))
    <3>1. y[2] \in lane[v].days
      BY <1>13 DEF DayInv, LockInv, JobOK
    <3> QED BY <1>1, <1>2, <1>6, <1>13, <3>1 DEF TakenBy, LockInv
  <2> QED BY <1>12, <2>1
<1>14. \A y : /\ Saved(y)' = Saved(y) /\ Newest(y)' = Newest(y) /\ Before(y)' = Before(y)
              /\ \A q : SameReports(q, y)' = SameReports(q, y)
  BY <1>9 DEF Saved, Newest, Before, Outcome, SameReports, After, Days
<1>15. DoneOK(n, d)'
  <2>1. n.done[d].result = r /\ d \in DOMAIN n.done
    BY <1>4 DEF Entry
  <2>2. n.done[d].version > 0 /\ (~n.done[d].saves => Saved(x) /\ Newest(x) = r)
    <3>1. PICK S : versions[x] \in Seq(S)
      BY <1>8 DEF DayInv, QueueInv, Typed
    <3>2. Len(versions[x]) \in Nat /\ (Saved(x) => Len(versions[x]) > 0)
      BY <3>1 DEF Saved
    <3>3. CASE Existing(x, r)
      <4>1. Saved(x) /\ Newest(x) = r
        BY <3>3 DEF Existing
      <4>2. n.done[d].version = Len(versions[x]) + 0
        BY <1>4, <3>3 DEF Entry, Version
      <4> QED BY <3>2, <4>1, <4>2
    <3>4. CASE ~Existing(x, r)
      <4>1. n.done[d].version = Len(versions[x]) + 1
        BY <1>4, <3>4 DEF Entry, Version
      <4>2. n.done[d].saves
        <5>1. Entry(x, r).saves = ~Existing(x, r)
          BY SMT DEF Entry
        <5> QED BY <1>4, <3>4, <5>1, Zenon
      <4>3. Len(versions[x]) + 1 > 0
        BY <3>2
      <4> QED BY <4>1, <4>2, <4>3
    <3> QED BY <3>3, <3>4
  <2>3. ASSUME d + 1 \in late, d + 1 \notin n.days \cup n.pending PROVE Outcome(Newest(x)) = Outcome(r)
    <3>1. d + 1 \in Days /\ d \in late
      BY <1>6, <2>3 DEF DayInv, QueueInv, LateInv, Days
    <3>2. Saved(x) /\ Saved(<<p, d + 1>>)
      <4>1. x[2] \in late
        BY <1>8, <3>1
      <4>2. <<p, d + 1>> \in PlayerDays /\ <<p, d + 1>>[2] = d + 1
        BY <1>1, <1>5, <3>1 DEF RunOK, PlayerDays
      <4> QED BY <1>8, <2>3, <4>1, <4>2 DEF DayInv, QueueInv, LateInv
    <3>3. ~l.sweeps
      <4>1. l.from <= d + 1
        BY <1>5, <1>6 DEF RunOK, Days
      <4> QED BY <1>4, <1>5, <2>3, <4>1 DEF RunOK
    <3>4. d + 1 \notin DOMAIN l.done
      BY <1>4, <1>6, <2>3
    <3>5. d + 1 \notin Following(w, p, d, r)
      BY <1>4, <2>3, <3>4
    <3> QED BY <1>1, <3>1, <3>2, <3>3, <3>5 DEF Following
  <2>4. d \in late /\ d # l.from => d - 1 \in DOMAIN l.done
    BY <1>1, <1>2, <1>3, <1>5, DayBefore
  <2>5. d - 1 \in DOMAIN l.done => d - 1 \in DOMAIN n.done /\ n.done[d - 1] = l.done[d - 1]
    BY <1>4, <1>6
  <2>6. x = <<n.player, d>> /\ n.from = l.from /\ late' = late
    BY <1>1, <1>4, <1>9
  <2>7. SameReports(r, x)' /\ Before(x)' = Before(x) /\ Saved(x)' = Saved(x) /\ Newest(x)' = Newest(x)
    BY <1>8, <1>14
  <2>8. ~n.done[d].saves => Saved(x)' /\ Newest(x)' = r
    BY <2>2, <2>7
  <2>9. d + 1 \in late /\ d + 1 \notin n.days \cup n.pending => Outcome(Newest(x)') = Outcome(r)
    BY <2>3, <2>7
  <2>10. d = n.from => r.start = Before(x)'
    BY <1>8, <2>6, <2>7
  <2>11. d \in late /\ d # n.from => d - 1 \in DOMAIN n.done /\ r.start = Outcome(n.done[d - 1].result)
    BY <1>8, <2>4, <2>5, <2>6
  <2> QED BY <2>1, <2>2, <2>6, <2>7, <2>8, <2>9, <2>10, <2>11 DEF DoneOK, Outcome
<1>16. ASSUME NEW e \in DOMAIN l.done PROVE DoneOK(n, e)'
  <2>1. PICK y, q : y = <<p, e>> /\ q = l.done[e].result
    OBVIOUS
  <2>2. DoneOK(l, e)
    BY <1>1 DEF DayInv, RunInv
  <2>3. e \in DOMAIN n.done /\ n.done[e] = l.done[e] /\ e # d
    BY <1>4, <1>6
  <2>4. Fresh(y) => Fresh(y)'
    BY <1>12, <2>1, <2>3
  <2>5. e - 1 \in DOMAIN l.done => e - 1 \in DOMAIN n.done /\ n.done[e - 1] = l.done[e - 1]
    BY <1>4, <1>6
  <2>6. l.days \cup l.pending \subseteq n.days \cup n.pending
    BY <1>4
  <2>7. DayKept(l, n, e)
    BY <1>1, <1>4, <1>9, <1>14, <2>1, <2>3, <2>4, <2>5, <2>6 DEF DayKept
  <2> QED BY <2>2, <2>7, DoneStays
<1>17. OwnStep(w, n)
  <2>1. \A e \in DOMAIN n.done : DoneOK(n, e)'
    BY <1>4, <1>15, <1>16
  <2> QED BY <1>4, <1>9, <1>10, <1>11, <1>13, <2>1 DEF OwnStep
<1> QED BY <1>17, OwnStepMeets

-----------------------------------------------------------------------------
(* A calculation that ends                                                 *)

\* The days it has: with their results, the newest of each.
Ended(w, x) == x[1] = lane[w].player /\ x[2] \in DOMAIN lane[w].done

LEMMA FinishedJob ==
    ASSUME ConstantsFit, DayInv, NEW w \in Workers, Finish(w)
    PROVE  /\ lane[w] # NoJob /\ lane[w].pending = {} /\ DOMAIN lane[w].done = lane[w].days
           /\ RunOK(lane[w]) /\ JobOK(lane[w])
<1> DEFINE l == lane[w]
<1>1. l # NoJob /\ l.day = 0 /\ Wants(w) = {}
  BY DEF Finish
<1>2. l.pending = {}
  BY <1>1 DEF Wants
<1>3. RunOK(l) /\ JobOK(l)
  BY <1>1 DEF DayInv, RunInv, LockInv
<1>4. 0 \notin l.days
  BY <1>3 DEF JobOK, Days
<1> QED BY <1>1, <1>2, <1>3, <1>4 DEF JobOK

\* Each of its days' newest result is then what it calculated.
LEMMA FinishedResults ==
    ASSUME ConstantsFit, DayInv, NEW w \in Workers, Finish(w), NEW x \in PlayerDays
    PROVE  /\ Ended(w, x) => Saved(x)' /\ Newest(x)' = lane[w].done[x[2]].result
           /\ ~Ended(w, x) => Saved(x)' = Saved(x) /\ Newest(x)' = Newest(x)
<1> DEFINE l == lane[w]
<1>1. versions'[x] = IF Ended(w, x) /\ l.done[x[2]].saves
                     THEN Append(versions[x], l.done[x[2]].result) ELSE versions[x]
  BY DEF Finish, Ended
<1>2. CASE ~Ended(w, x)
  BY <1>1, <1>2 DEF Saved, Newest
<1>3. CASE Ended(w, x) /\ l.done[x[2]].saves
  <2>1. PICK S : versions[x] \in Seq(S)
    BY DEF DayInv, QueueInv, Typed
  <2>2. PICK r : r = l.done[x[2]].result
    OBVIOUS
  <2>3. Append(versions[x], r) # <<>> /\ Last(Append(versions[x], r)) = r
    BY <2>1, Appended
  <2>4. versions'[x] = Append(versions[x], r)
    BY <1>1, <1>3, <2>2
  <2> QED BY <1>3, <2>2, <2>3, <2>4 DEF Saved, Newest
<1>4. CASE Ended(w, x) /\ ~l.done[x[2]].saves
  <2>1. DoneOK(l, x[2]) /\ x = <<l.player, x[2]>>
    BY <1>4, FromDay DEF Ended, DayInv, RunInv
  <2>2. Saved(x) /\ Newest(x) = l.done[x[2]].result
    BY <1>4, <2>1 DEF DoneOK
  <2>3. versions'[x] = versions[x]
    BY <1>1, <1>4
  <2> QED BY <1>4, <2>2, <2>3 DEF Saved, Newest
<1> QED BY <1>2, <1>3, <1>4

\* A late day that is not one of them starts as it did: the day before it, if it is
\* one of them, ended as it had.
LEMMA OtherStarts ==
    ASSUME ConstantsFit, DayInv, NEW w \in Workers, Finish(w),
           NEW x \in PlayerDays, x[2] \in late, ~Ended(w, x)
    PROVE  Before(x)' = Before(x)
<1> DEFINE l == lane[w]
<1>1. CASE x[2] = 1
  BY <1>1 DEF Before
<1>2. CASE x[2] # 1
  <2>1. PICK b : b = <<x[1], x[2] - 1>>
    OBVIOUS
  <2>2. b \in PlayerDays /\ b[2] \in late /\ b[2] + 1 = x[2] /\ b[1] = x[1] /\ b[2] = x[2] - 1
    <3>1. x[1] \in Players /\ x[2] \in Days /\ x[2] - 1 \in Days /\ x[2] \in Int
      BY <1>2 DEF PlayerDays, Days, ConstantsFit
    <3>2. x[2] - 1 \in late
      BY <3>1 DEF DayInv, QueueInv, LateInv
    <3> QED BY <2>1, <3>1, <3>2 DEF PlayerDays
  <2>3. Saved(b)
    BY <2>2 DEF DayInv, QueueInv, LateInv
  <2>4. Before(x) = Outcome(Newest(b))
    BY <1>2, <2>1, <2>3 DEF Before
  <2>5. Saved(b)' /\ Outcome(Newest(b)') = Outcome(Newest(b))
    <3>1. CASE ~Ended(w, b)
      BY <2>2, <2>3, <3>1, FinishedResults
    <3>2. CASE Ended(w, b)
      <4>1. Saved(b)' /\ Newest(b)' = l.done[b[2]].result
        BY <2>2, <3>2, FinishedResults
      <4>2. DoneOK(l, b[2]) /\ b = <<l.player, b[2]>>
        BY <2>1, <2>2, <3>2 DEF Ended, DayInv, RunInv
      <4>3. b[2] + 1 \notin l.days \cup l.pending
        BY <2>2, <3>2, FinishedJob DEF Ended
      <4>4. Outcome(Newest(b)) = Outcome(l.done[b[2]].result)
        BY <2>2, <4>2, <4>3 DEF DoneOK
      <4> QED BY <4>1, <4>4
    <3> QED BY <3>1, <3>2
  <2>6. Before(x)' = Outcome(Newest(b)')
    BY <1>2, <2>1, <2>5 DEF Before, Outcome
  <2> QED BY <2>4, <2>5, <2>6
<1> QED BY <1>1, <1>2

\* One of them starts from what the day before ended with.
LEMMA OwnStarts ==
    ASSUME ConstantsFit, DayInv, NEW w \in Workers, Finish(w),
           NEW x \in PlayerDays, x[2] \in late, Ended(w, x)
    PROVE  lane[w].done[x[2]].result.start = Before(x)'
<1> DEFINE l == lane[w]
           r == l.done[x[2]].result
<1>1. DoneOK(l, x[2]) /\ x = <<l.player, x[2]>>
  BY FromDay DEF Ended, DayInv, RunInv
<1>2. x[2] \in Days /\ x[2] \in Int /\ x[1] \in Players /\ RunOK(l) /\ DOMAIN l.done = l.days
  BY FromDay, FinishedJob DEF Days
<1>3. PICK b : b = <<x[1], x[2] - 1>>
  OBVIOUS
<1>4. CASE x[2] = l.from
  <2>1. r.start = Before(x)
    BY <1>1, <1>4 DEF DoneOK
  <2>2. CASE x[2] = 1
    BY <2>1, <2>2 DEF Before
  <2>3. CASE x[2] # 1
    <3>1. b \in PlayerDays /\ b[2] = x[2] - 1
      BY <1>2, <1>3, <2>3 DEF PlayerDays, Days, ConstantsFit
    <3>2. ~Ended(w, b)
      BY <1>2, <1>4, <3>1 DEF Ended, RunOK
    <3>3. Saved(b)' = Saved(b) /\ Newest(b)' = Newest(b)
      BY <3>1, <3>2, FinishedResults
    <3>4. Before(x)' = Before(x)
      BY <1>3, <2>3, <3>3 DEF Before, Outcome
    <3> QED BY <2>1, <3>4
  <2> QED BY <2>2, <2>3
<1>5. CASE x[2] # l.from
  <2>1. x[2] - 1 \in DOMAIN l.done /\ r.start = Outcome(l.done[x[2] - 1].result)
    BY <1>1, <1>5 DEF DoneOK
  <2>2. x[2] - 1 \in Days
    BY <1>2, <2>1, FinishedJob DEF JobOK
  <2>3. b \in PlayerDays /\ b[1] = x[1] /\ b[2] = x[2] - 1 /\ x[2] # 1
    BY <1>2, <1>3, <2>2 DEF PlayerDays, Days
  <2>4. Saved(b)' /\ Newest(b)' = l.done[x[2] - 1].result
    <3>1. Ended(w, b)
      BY <2>1, <2>3 DEF Ended
    <3> QED BY <2>3, <3>1, FinishedResults
  <2>5. Before(x)' = Outcome(Newest(b)')
    BY <1>3, <2>3, <2>4 DEF Before, Outcome
  <2> QED BY <2>1, <2>4, <2>5
<1> QED BY <1>4, <1>5

LEMMA FinishMeets ==
    ASSUME ConstantsFit, DayInv, NEW w \in Workers, Finish(w) PROVE RunInv' /\ MeetInv'
<1>1. PICK l : l = lane[w]
  OBVIOUS
<1>2. /\ lane' = [lane EXCEPT ![w] = NoJob]
      /\ UNCHANGED <<battles, waiting, later, retry, first, late>>
      /\ \A x \in PlayerDays : dayEnd[x] = "queued" => dayEnd'[x] = "queued"
  BY DEF Finish
<1>3. RunOK(l) /\ JobOK(l) /\ DOMAIN l.done = l.days /\ l.pending = {} /\ LockInv
  BY <1>1, FinishedJob DEF DayInv
<1>4. \A x \in PlayerDays : Waits(x) => Waits(x)'
  BY <1>2 DEF Waits
<1>5. \A x \in PlayerDays : TakenBy(w, x) => Ended(w, x)
  BY <1>1, <1>3 DEF TakenBy, Ended, RunOK
<1>6. ASSUME NEW x \in PlayerDays PROVE Fresh(x) => Fresh(x)'
  <2>1. w \notin Lanes \/ ~TakenBy(w, x) \/ x[2] \in DOMAIN lane[w].done
    BY <1>5, <1>6 DEF Ended
  <2> QED BY <1>2, <1>3, <1>4, <1>6, <2>1, OthersFresh
<1>7. ASSUME NEW x \in PlayerDays, ~Ended(w, x) PROVE Cause(x) => Cause(x)'
  BY <1>2, <1>3, <1>4, <1>5, <1>7, OthersCause
<1>8. \A x, r : SameReports(r, x)' = SameReports(r, x)
  BY <1>2 DEF SameReports, After, Days
<1>9. ASSUME NEW x \in PlayerDays, x[2] \in late PROVE Meets(x)' \/ Cause(x)'
  <2>1. CASE Ended(w, x)
    <3>1. PICK r : r = l.done[x[2]].result
      OBVIOUS
    <3>2. Newest(x)' = r /\ r.start = Before(x)'
      BY <1>1, <1>9, <2>1, <3>1, FinishedResults, OwnStarts
    <3>3. SameReports(r, x) \/ Fresh(x)
      <4>1. DoneOK(l, x[2]) /\ x = <<l.player, x[2]>>
        BY <1>1, <2>1, FromDay DEF Ended, DayInv, RunInv
      <4> QED BY <1>9, <3>1, <4>1 DEF DoneOK
    <3>4. SameReports(r, x) => Meets(x)'
      <4>1. SameReports(r, x) => SameReports(r, x)'
        BY <1>8
      <4> QED BY <3>2, <4>1 DEF Meets, SameReports
    <3>5. Fresh(x) => Cause(x)'
      BY <1>6, <1>9 DEF Fresh, Cause
    <3> QED BY <3>3, <3>4, <3>5
  <2>2. CASE ~Ended(w, x)
    <3>1. Meets(x) \/ Cause(x)
      BY <1>9 DEF DayInv, MeetInv
    <3>2. PICK r : r = Newest(x) /\ r = Newest(x)'
      BY <1>9, <2>2, FinishedResults
    <3>3. Before(x)' = Before(x)
      BY <1>9, <2>2, OtherStarts
    <3>4. SameReports(r, x)' = SameReports(r, x)
      BY <1>8
    <3>5. Meets(x) => Meets(x)'
      BY <3>2, <3>3, <3>4 DEF Meets, SameReports
    <3> QED BY <1>7, <1>9, <2>2, <3>1, <3>5
  <2> QED BY <2>1, <2>2
<1>10. MeetInv'
  BY <1>2, <1>9 DEF MeetInv, PlayerDays, Days
<1>11. RunInv'
  <2>1. \A v \in Workers : lane'[v] = IF v = w THEN NoJob ELSE lane[v]
    BY <1>2, <1>3 DEF LockInv
  <2> SUFFICES ASSUME NEW v \in Workers
               PROVE  /\ lane'[v] # NoJob => RunOK(lane[v])'
                      /\ \A d \in DOMAIN lane'[v].done : DoneOK(lane[v], d)'
    BY DEF RunInv, Workers
  <2>2. CASE v = w
    <3>1. DOMAIN NoJob.done = {}
      BY EmptyDone DEF NoJob
    <3> QED BY <2>1, <2>2, <3>1
  <2>3. CASE v # w
    <3>1. PICK m : m = lane[v] /\ m = lane'[v]
      BY <2>1, <2>3
    <3>2. m # NoJob => RunOK(lane[v])'
      <4>1. m # NoJob => RunOK(m)
        BY <3>1 DEF DayInv, RunInv
      <4> QED BY <1>2, <3>1, <4>1 DEF RunOK, Days
    <3>3. ASSUME NEW d \in DOMAIN m.done PROVE DoneOK(lane[v], d)'
      <4>1. PICK x, r : x = <<m.player, d>> /\ r = m.done[d].result
        OBVIOUS
      <4>2. DoneOK(m, d)
        BY <3>1 DEF DayInv, RunInv
      <4>3. x \in PlayerDays /\ x[1] = m.player /\ x[2] = d /\ d \in m.days
        BY <3>1, <4>1, DoneDay
      <4>4. ~Ended(w, x)
        BY <1>1, <1>3, <2>3, <3>1, <4>3 DEF Ended, LockInv
      <4>5. /\ Saved(x)' = Saved(x) /\ Newest(x)' = Newest(x)
            /\ d \in late => Before(x)' = Before(x)
        BY <4>3, <4>4, FinishedResults, OtherStarts
      <4>6. (Fresh(x) => Fresh(x)') /\ SameReports(r, x)' = SameReports(r, x) /\ late' = late
        BY <1>2, <1>6, <1>8, <4>3
      <4>7. DoneOK(m, d)'
        <5>1. DayKept(m, m, d)
          BY <4>1, <4>5, <4>6 DEF DayKept
        <5> QED BY <4>2, <5>1, DoneStays
      <4> QED BY <3>1, <4>7 DEF DoneOK
    <3> QED BY <3>1, <3>2, <3>3
  <2> QED BY <2>2, <2>3
<1> QED BY <1>10, <1>11

-----------------------------------------------------------------------------
(* Every step                                                              *)

LEMMA QueueInvKept == ASSUME ConstantsFit, DayInv, Next PROVE QueueInv'
<1>1. LockInv /\ QueueInv
  BY DEF DayInv
<1>2. ASSUME NEW s \in Savers, NEW P \in (SUBSET Players) \ {{}}, NEW d \in Days, NEW v, SaveChange(s, P, d, v)
      PROVE  QueueInv'
  BY <1>1, <1>2, SaveQueue
<1>3. ASSUME NEW s \in Savers, CommitChange(s) \/ AbortChange(s) PROVE QueueInv'
  BY <1>1, <1>3, EndSaveQueue
<1>4. ASSUME Recheck \/ \E x \in PlayerDays : RecheckDue(x) PROVE QueueInv'
  BY <1>1, <1>4, RecheckQueue
<1>5. ASSUME NEW d \in Days, DayIsLate(d) PROVE QueueInv'
  BY <1>1, <1>5, DayIsLateQueue
<1>6. ASSUME NEW w \in Lanes, NEW x \in PlayerDays,
             ClaimRecheck(w, x) \/ ClaimRetry(w, x) \/ ClaimFirst(w, x) \/ ClaimDayEnd(w, x)
      PROVE  QueueInv'
  BY <1>1, <1>6, ClaimQueue
<1>7. ASSUME NEW w \in Workers, TakeLock(w) \/ Calculate(w) PROVE QueueInv'
  <2>1. UNCHANGED <<versions, late, saver, waiting, retry, dayEnd>>
    BY <1>7, Zenon DEF TakeLock, Calculate, jobs
  <2> QED BY <1>1, <2>1, RestQueue
<1>8. ASSUME NEW w \in Workers, Finish(w) PROVE QueueInv'
  BY <1>1, <1>8, FinishQueue
<1>9. ASSUME NEW w \in Workers, GiveUp(w) PROVE QueueInv'
  <2>1. RunOK(lane[w])
    BY <1>9 DEF GiveUp, DayInv, RunInv
  <2>2. <<lane[w].player, lane[w].from>> \in PlayerDays
    BY <2>1 DEF RunOK, PlayerDays
  <2>3. UNCHANGED <<versions, late, saver, waiting, dayEnd>>
    BY <1>9 DEF GiveUp
  <2>4. CASE lane[w].sweeps
    <3>1. retry' = retry
      BY <1>9, <2>4 DEF GiveUp
    <3> QED BY <1>1, <2>3, <3>1, RestQueue
  <2>5. CASE ~lane[w].sweeps
    <3>1. retry' = [retry EXCEPT ![<<lane[w].player, lane[w].from>>] = @ + 1]
      BY <1>9, <2>5 DEF GiveUp
    <3> QED BY <1>1, <2>2, <2>3, <3>1, BackQueue
  <2> QED BY <2>4, <2>5
<1>10. ASSUME NEW p \in Players, SweepPlayer(p) PROVE QueueInv'
  <2>1. UNCHANGED <<versions, late, saver, waiting, retry, dayEnd>>
    BY <1>10, Zenon DEF SweepPlayer, jobs
  <2> QED BY <1>1, <2>1, RestQueue
<1> QED BY <1>2, <1>3, <1>4, <1>5, <1>6, <1>7, <1>8, <1>9, <1>10, Zenon DEF Next

LEMMA MeetInvKept == ASSUME ConstantsFit, DayInv, Next PROVE RunInv' /\ MeetInv'
<1>1. ASSUME NEW s \in Savers, NEW P, NEW d \in Days, NEW v, SaveChange(s, P, d, v)
      PROVE  RunInv' /\ MeetInv'
  BY <1>1, SaveCalm, CalmMeets
<1>2. ASSUME NEW s \in Savers, CommitChange(s) \/ AbortChange(s) PROVE RunInv' /\ MeetInv'
  BY <1>2, SaveCalm, CommitCalm, CalmMeets
<1>3. ASSUME Recheck \/ \E x \in PlayerDays : RecheckDue(x) PROVE RunInv' /\ MeetInv'
  BY <1>3, RecheckCalm, CalmMeets
<1>4. ASSUME NEW d \in Days, DayIsLate(d) PROVE RunInv' /\ MeetInv'
  BY <1>4, DayIsLateMeets
<1>5. ASSUME NEW w \in Lanes, NEW x \in PlayerDays,
             ClaimRecheck(w, x) \/ ClaimRetry(w, x) \/ ClaimFirst(w, x) \/ ClaimDayEnd(w, x)
      PROVE  RunInv' /\ MeetInv'
  BY <1>5, ClaimMeets
<1>6. ASSUME NEW w \in Workers, TakeLock(w) \/ Calculate(w) \/ Finish(w) \/ GiveUp(w)
      PROVE  RunInv' /\ MeetInv'
  BY <1>6, TakeLockMeets, CalculateMeets, FinishMeets, GiveUpMeets
<1>7. ASSUME NEW p \in Players, SweepPlayer(p) PROVE RunInv' /\ MeetInv'
  BY <1>7, SweepPlayerMeets
<1> QED BY <1>1, <1>2, <1>3, <1>4, <1>5, <1>6, <1>7, Zenon DEF Next

LEMMA DayInvKept == ASSUME ConstantsFit, DayInv, [Next]_vars PROVE DayInv'
<1>1. CASE Next
  <2>1. LockInv'
    BY <1>1, LockInvKept DEF DayInv
  <2> QED BY <1>1, <2>1, QueueInvKept, MeetInvKept DEF DayInv
<1>2. CASE UNCHANGED vars
  <2>1. LockInv'
    BY LockInvKept DEF DayInv
  <2>2. UNCHANGED <<battles, versions, waiting, later, retry, first, dayEnd, late, lane, saver>>
    BY <1>2 DEF vars, jobs
  <2>3. QueueInv'
    BY <2>2, RestQueue DEF DayInv
  <2>4. Calm
    BY <2>2 DEF Calm, Waits, After, Days
  <2> QED BY <2>1, <2>3, <2>4, CalmMeets DEF DayInv
<1> QED BY <1>1, <1>2

(* Whatever the players, days, lanes, savers and changes, a saved result   *)
(* that no longer matches the saved reports of its day and the next, or    *)
(* the state, end and next start of the day before, has a recalculation    *)
(* that waits, or one running that has read them all (what _queue_day's    *)
(* merging, the chain of changed days and the Reset's first results must   *)
(* not lose).                                                              *)
THEOREM StaleDaysHaveCauses == ASSUME ConstantsFit PROVE Spec => []StaleHasCause
<1>1. DayInv => StaleHasCause
  BY DayInvSuffices
<1>2. Init => DayInv
  BY DayInvStarts
<1>3. DayInv /\ [Next]_vars => DayInv'
  BY DayInvKept
<1> QED BY <1>1, <1>2, <1>3, PTL DEF Spec

-----------------------------------------------------------------------------
(* What else a result was calculated from                                  *)

DayBeforeOf(x) == <<x[1], x[2] - 1>>

\* A result from the saved version of the day before that it names.
BuiltOK(x, r) ==
    x[2] # 1 =>
        /\ r.built \in 0 .. Len(versions[DayBeforeOf(x)])
        /\ r.built # 0 => \E v \in Values : r.rest = Rest(versions[DayBeforeOf(x)][r.built], v)

\* One from the day before as the same job has calculated it.
OwnBuilt(l, d) ==
    LET r == l.done[d].result IN
    /\ d - 1 \in DOMAIN l.done /\ r.built = l.done[d - 1].version
    /\ \E v \in Values : r.rest = Rest(l.done[d - 1].result, v)

\* What a calculated day notes: the version it will be, and what it was built from.
NoteOK(l, d) ==
    LET x == <<l.player, d>> IN
    /\ l.done[d].version = Len(versions[x]) + IF l.done[d].saves THEN 1 ELSE 0
    /\ BuiltOK(x, l.done[d].result) \/ OwnBuilt(l, d)

Reported ==
    /\ battles \in [PlayerDays -> Values]
    /\ \A s \in Savers, p \in Players : p \in DOMAIN saver[s].to => saver[s].to[p] \in Values

NotesOK == \A w \in Workers : \A d \in DOMAIN lane[w].done : NoteOK(lane[w], d)
NewestBuilt == \A x \in PlayerDays : Saved(x) => BuiltOK(x, Newest(x))

RestInv == Reported /\ NotesOK /\ NewestBuilt

LEMMA RestInvSuffices == ASSUME ConstantsFit, DayInv, RestInv PROVE StaleRestIsSeen
<1> SUFFICES ASSUME NEW x \in PlayerDays, Saved(x), x[2] > 1, Saved(<<x[1], x[2] - 1>>), ~Outdated(x)
             PROVE  \E v \in Values : Newest(x).rest = Rest(Newest(<<x[1], x[2] - 1>>), v)
  BY DEF StaleRestIsSeen
<1>1. PICK b, r : b = <<x[1], x[2] - 1>> /\ r = Newest(x)
  OBVIOUS
<1>2. b \in PlayerDays /\ x[2] # 1
  BY <1>1, FromDay DEF PlayerDays, Days, ConstantsFit
<1>3. PICK S : versions[b] \in Seq(S)
  BY <1>2 DEF DayInv, QueueInv, Typed
<1>4. Len(versions[b]) # 0 /\ r.built = Len(versions[b])
  BY <1>1, <1>3 DEF Saved, Outdated
<1>5. r.built # 0 => \E v \in Values : r.rest = Rest(versions[b][r.built], v)
  BY <1>1, <1>2 DEF RestInv, NewestBuilt, BuiltOK, DayBeforeOf
<1>6. Newest(b) = versions[b][Len(versions[b])]
  BY DEF Newest, Last
<1> QED BY <1>1, <1>4, <1>5, <1>6

LEMMA RestInvStarts == ASSUME ConstantsFit, Init PROVE RestInv
<1>1. /\ battles \in [PlayerDays -> Values]
      /\ versions = [x \in PlayerDays |-> IF x \in Unsaved THEN <<>> ELSE <<FirstResult[x]>>]
      /\ lane = [w \in Workers |-> NoJob] /\ saver = [s \in Savers |-> NoSave]
  BY DEF Init
<1>2. Reported
  <2>1. DOMAIN NoSave.to = {}
    BY EmptyDone DEF NoSave
  <2>2. \A s \in Savers : saver[s].to = NoSave.to
    BY <1>1
  <2> QED BY <1>1, <2>1, <2>2 DEF Reported
<1>3. NotesOK
  <2>1. DOMAIN NoJob.done = {}
    BY EmptyDone DEF NoJob
  <2> QED BY <1>1, <2>1 DEF NotesOK
<1>4. ASSUME NEW x \in PlayerDays, Saved(x), x[2] # 1 PROVE BuiltOK(x, Newest(x))
  <2>1. PICK b, r : b = DayBeforeOf(x) /\ r = FirstResult[x]
    OBVIOUS
  <2>2. versions[x] = <<r>>
    BY <1>1, <1>4, <2>1 DEF Saved
  <2>3. Newest(x) = r
    BY <2>2 DEF Newest, Last
  <2>4. b \in PlayerDays
    BY <1>4, <2>1, FromDay DEF DayBeforeOf, PlayerDays, Days, ConstantsFit
  <2>5. r = FirstOf(FirstResult, x)
    BY <2>1, FirstResultIs
  <2>6. CASE b \in Unsaved
    <3>1. r.built = 0 /\ versions[b] = <<>>
      BY <1>1, <1>4, <2>1, <2>4, <2>5, <2>6 DEF FirstOf, DayBeforeOf
    <3> QED BY <2>1, <2>3, <3>1 DEF BuiltOK
  <2>7. CASE b \notin Unsaved
    <3>1. PICK q : q = FirstResult[b]
      OBVIOUS
    <3>2. r.built = 1 /\ r.rest = Rest(q, battles[b]) /\ versions[b] = <<q>>
      BY <1>1, <1>4, <2>1, <2>4, <2>5, <2>7, <3>1 DEF FirstOf, DayBeforeOf
    <3>3. battles[b] \in Values /\ Len(<<q>>) = 1 /\ <<q>>[1] = q
      BY <1>1, <2>4
    <3> QED BY <2>1, <2>3, <3>2, <3>3 DEF BuiltOK
  <2> QED BY <2>6, <2>7
<1>5. NewestBuilt
  BY <1>4 DEF NewestBuilt, BuiltOK
<1> QED BY <1>2, <1>3, <1>5 DEF RestInv

\* What the reports say is one of the values, also of a save not committed.
LEMMA ReportedKept == ASSUME Typed, Reported, Next PROVE Reported'
<1> USE DEF PlayerDays, Days
<1>1. ASSUME NEW s \in Savers, NEW P \in (SUBSET Players) \ {{}}, NEW d \in Days, NEW v \in Values,
             SaveChange(s, P, d, v)
      PROVE  Reported'
  <2>1. PICK n : n.to = [p \in P |-> v] /\ saver' = [saver EXCEPT ![s] = n]
    BY <1>1 DEF SaveChange
  <2>2. battles' = battles
    BY <1>1 DEF SaveChange
  <2>3. \A t \in Savers : saver'[t] = IF t = s THEN n ELSE saver[t]
    BY <2>1 DEF Typed
  <2>4. ASSUME NEW t \in Savers, NEW p \in Players, p \in DOMAIN saver'[t].to PROVE saver'[t].to[p] \in Values
    BY <2>1, <2>3, <2>4 DEF Reported
  <2> QED BY <2>2, <2>4 DEF Reported
<1>2. ASSUME NEW s \in Savers, CommitChange(s) \/ AbortChange(s) PROVE Reported'
  <2>1. saver' = [saver EXCEPT ![s] = NoSave]
    BY <1>2 DEF CommitChange, AbortChange
  <2>2. DOMAIN NoSave.to = {}
    BY EmptyDone DEF NoSave
  <2>3. ASSUME NEW t \in Savers, NEW p \in Players, p \in DOMAIN saver'[t].to PROVE saver'[t].to[p] \in Values
    <3>1. t # s
      BY <2>1, <2>2, <2>3 DEF Typed
    <3>2. saver'[t] = saver[t]
      BY <2>1, <3>1 DEF Typed
    <3> QED BY <2>3, <3>2 DEF Reported
  <2>4. battles' \in [PlayerDays -> Values]
    <3>1. CASE AbortChange(s)
      BY <3>1 DEF AbortChange, Reported
    <3>2. CASE CommitChange(s)
      <4>1. battles' = [x \in PlayerDays |->
               IF x[1] \in DOMAIN saver[s].to /\ x[2] = saver[s].day THEN saver[s].to[x[1]] ELSE battles[x]]
        BY <3>2 DEF CommitChange
      <4>2. \A x \in PlayerDays : x[1] \in Players
        OBVIOUS
      <4> QED BY <4>1, <4>2 DEF Reported
    <3> QED BY <1>2, <3>1, <3>2
  <2> QED BY <2>3, <2>4 DEF Reported
<1>3. ASSUME UNCHANGED <<battles, saver>> PROVE Reported'
  BY <1>3 DEF Reported
<1>4. ASSUME Recheck \/ (\E x \in PlayerDays : RecheckDue(x)) \/ \E d \in Days : DayIsLate(d) PROVE Reported'
  BY <1>3, <1>4 DEF Recheck, RecheckDue, DayIsLate
<1>5. ASSUME NEW w \in Lanes, NEW x \in PlayerDays,
             ClaimRecheck(w, x) \/ ClaimRetry(w, x) \/ ClaimFirst(w, x) \/ ClaimDayEnd(w, x)
      PROVE  Reported'
  BY <1>3, <1>5 DEF ClaimRecheck, ClaimRetry, ClaimFirst, ClaimDayEnd
<1>6. ASSUME NEW w \in Workers, TakeLock(w) \/ Calculate(w) \/ Finish(w) \/ GiveUp(w) PROVE Reported'
  <2>1. UNCHANGED <<battles, saver>>
    BY <1>6, Zenon DEF TakeLock, Calculate, Finish, GiveUp
  <2> QED BY <1>3, <2>1
<1>7. ASSUME NEW p \in Players, SweepPlayer(p) PROVE Reported'
  <2>1. UNCHANGED <<battles, saver>>
    BY <1>7, Zenon DEF SweepPlayer
  <2> QED BY <1>3, <2>1
<1> QED BY <1>1, <1>2, <1>4, <1>5, <1>6, <1>7, Zenon DEF Next

\* A step that saves no result and leaves what jobs have calculated, or ends one.
LEMMA NotesStay ==
    ASSUME RestInv, Reported', versions' = versions,
           \A w \in Workers : \/ DOMAIN lane'[w].done = {}
                              \/ lane'[w].done = lane[w].done /\ lane'[w].player = lane[w].player
    PROVE  RestInv'
<1>1. \A x, r : BuiltOK(x, r)' = BuiltOK(x, r)
  BY DEF BuiltOK, DayBeforeOf, Rest
<1>2. NewestBuilt'
  <2> SUFFICES ASSUME NEW x \in PlayerDays, Saved(x)' PROVE BuiltOK(x, Newest(x))'
    BY DEF NewestBuilt, PlayerDays, Days
  <2>1. PICK r : r = Newest(x) /\ r = Newest(x)'
    BY DEF Newest
  <2>2. BuiltOK(x, r)
    BY <2>1 DEF RestInv, NewestBuilt, Saved
  <2>3. BuiltOK(x, r)'
    BY <1>1, <2>2
  <2> QED BY <2>1, <2>3 DEF BuiltOK
<1>3. NotesOK'
  <2> SUFFICES ASSUME NEW w \in Workers, NEW d \in DOMAIN lane'[w].done PROVE NoteOK(lane[w], d)'
    BY DEF NotesOK, Workers
  <2>1. PICK l, n : l = lane[w] /\ n = lane'[w]
    OBVIOUS
  <2>2. n.done = l.done /\ n.player = l.player /\ NoteOK(l, d)
    BY <2>1 DEF RestInv, NotesOK
  <2>3. PICK x, r : x = <<l.player, d>> /\ r = l.done[d].result
    OBVIOUS
  <2>4. BuiltOK(x, r) \/ OwnBuilt(l, d)
    BY <2>2, <2>3 DEF NoteOK
  <2>5. BuiltOK(x, r)' \/ OwnBuilt(n, d)
    BY <1>1, <2>2, <2>4 DEF OwnBuilt
  <2>6. OwnBuilt(n, d) => OwnBuilt(n, d)'
    BY DEF OwnBuilt, Rest
  <2>7. n.done[d].version = Len(versions'[x]) + IF n.done[d].saves THEN 1 ELSE 0
    BY <2>2, <2>3 DEF NoteOK
  <2>8. NoteOK(n, d)'
    BY <2>2, <2>3, <2>5, <2>6, <2>7 DEF NoteOK
  <2> QED BY <2>1, <2>8 DEF NoteOK, OwnBuilt, BuiltOK
<1> QED BY <1>2, <1>3 DEF RestInv

\* What a calculation is built from: a saved version, or its own of the day before.
LEMMA ReadBuilt ==
    ASSUME ConstantsFit, DayInv, RestInv, NEW w \in Workers, RunOK(lane[w]), JobOK(lane[w]), lane[w].day # 0
    PROVE  LET l == lane[w]
               r == Read(w, l.player, l.day) IN
           \/ BuiltOK(<<l.player, l.day>>, r)
           \/ /\ l.day - 1 \in DOMAIN l.done /\ r.built = l.done[l.day - 1].version
              /\ \E v \in Values : r.rest = Rest(l.done[l.day - 1].result, v)
<1>1. PICK l, p, d, x, r : /\ l = lane[w] /\ p = l.player /\ d = l.day /\ x = <<p, d>>
                           /\ r = Read(w, p, d)
  OBVIOUS
<1>2. d \in Days /\ p \in Players /\ d \in Nat /\ d # 0
  BY <1>1 DEF RunOK, JobOK, Days
<1>3. x[1] = p /\ x[2] = d /\ DayBeforeOf(x) = <<p, d - 1>>
  BY <1>1 DEF DayBeforeOf
<1>4. PICK b : b = <<p, d - 1>>
  OBVIOUS
<1>5. d = 1 \/ b \in PlayerDays
  BY <1>2, <1>4 DEF PlayerDays, Days, ConstantsFit
<1>6. CASE d = 1
  BY <1>1, <1>3, <1>6 DEF BuiltOK
<1>7. CASE d # 1
  <2>1. b \in PlayerDays /\ battles[b] \in Values
    BY <1>5, <1>7 DEF RestInv, Reported
  <2>2. PICK S : versions[b] \in Seq(S)
    BY <2>1 DEF DayInv, QueueInv, Typed
  <2>3. CASE d - 1 \in DOMAIN l.done
    <3>1. DoneOK(l, d - 1)
      BY <1>1, <2>3 DEF DayInv, RunInv
    <3>2. l.done[d - 1].version # 0
      BY <3>1 DEF DoneOK
    <3>3. r.built = l.done[d - 1].version /\ r.rest = Rest(l.done[d - 1].result, battles[b])
      BY <1>1, <1>4, <2>3, <3>2 DEF Read
    <3> QED BY <1>1, <2>1, <2>3, <3>3
  <2>4. CASE d - 1 \notin DOMAIN l.done
    <3>1. /\ r.built = Len(versions[b])
          /\ r.built # 0 => r.rest = Rest(Newest(b), battles[b])
      BY <1>1, <1>4, <1>7, <2>4 DEF Read
    <3>2. Newest(b) = versions[b][Len(versions[b])]
      BY DEF Newest, Last
    <3>3. r.built \in 0 .. Len(versions[b])
      BY <2>2, <3>1
    <3>4. r.built # 0 => r.rest = Rest(versions[b][r.built], battles[b])
      BY <3>1, <3>2
    <3>5. BuiltOK(x, r)
      BY <1>3, <1>4, <2>1, <3>3, <3>4 DEF BuiltOK
    <3> QED BY <1>1, <3>5
  <2> QED BY <2>3, <2>4
<1> QED BY <1>6, <1>7

LEMMA CalculateRest ==
    ASSUME ConstantsFit, DayInv, RestInv, NEW w \in Workers, Calculate(w) PROVE NotesOK' /\ NewestBuilt'
<1>1. PICK l, d, p, x, r : l = lane[w] /\ d = l.day /\ p = l.player /\ x = <<p, d>> /\ r = Read(w, p, d)
  OBVIOUS
<1>2. LockInv /\ JobOK(l) /\ versions' = versions
  BY <1>1 DEF DayInv, LockInv, Calculate
<1>3. PICK n : /\ lane' = [lane EXCEPT ![w] = n] /\ n.player = p
               /\ DOMAIN n.done = DOMAIN l.done \cup {d} /\ n.done[d] = Entry(x, r)
               /\ \A e \in DOMAIN l.done \ {d} : n.done[e] = l.done[e]
  <2>1. PICK n : lane' = [lane EXCEPT ![w] = n] /\ CalculatedJob(w, n)
    BY <1>2, Calculates
  <2> QED BY <1>1, <2>1 DEF CalculatedJob
<1>4. d # 0 /\ l # NoJob
  <2>1. d # 0
    BY <1>1, <1>2, Calculates
  <2> QED BY <1>1, <2>1 DEF NoJob
<1>5. RunOK(l) /\ d \notin DOMAIN l.done /\ d \in Days
  BY <1>1, <1>2, <1>4 DEF DayInv, RunInv, JobOK
<1>6. \A y, q : BuiltOK(y, q)' = BuiltOK(y, q)
  BY <1>2 DEF BuiltOK, DayBeforeOf, Rest
<1>7. d - 1 # d
  BY <1>5 DEF Days
<1>8. ASSUME NEW e \in DOMAIN l.done PROVE NoteOK(n, e)'
  <2>1. PICK y, q : y = <<p, e>> /\ q = l.done[e].result
    OBVIOUS
  <2>2. n.done[e] = l.done[e] /\ NoteOK(l, e)
    BY <1>1, <1>3, <1>5 DEF RestInv, NotesOK
  <2>3. BuiltOK(y, q) \/ OwnBuilt(l, e)
    BY <1>1, <2>1, <2>2 DEF NoteOK
  <2>4. OwnBuilt(l, e) => OwnBuilt(n, e)'
    BY <1>3, <1>5, <2>2 DEF OwnBuilt, Rest
  <2>5. n.done[e].version = Len(versions'[y]) + IF n.done[e].saves THEN 1 ELSE 0
    BY <1>1, <1>2, <2>1, <2>2 DEF NoteOK
  <2>6. BuiltOK(y, n.done[e].result)' \/ OwnBuilt(n, e)'
    <3>1. n.done[e].result = q
      BY <2>1, <2>2
    <3>2. BuiltOK(y, q) => BuiltOK(y, n.done[e].result)'
      BY <1>6, <3>1
    <3> QED BY <2>3, <2>4, <3>2
  <2> QED BY <1>3, <2>1, <2>5, <2>6 DEF NoteOK
<1>9. NoteOK(n, d)'
  <2>1. n.done[d].version = Len(versions'[x]) + IF n.done[d].saves THEN 1 ELSE 0
    <3>1. Entry(x, r).saves = ~Existing(x, r) /\ Entry(x, r).version = Version(x, Existing(x, r))
      BY SMT DEF Entry
    <3>2. CASE Existing(x, r)
      <4>1. n.done[d].version = Len(versions[x]) + 0
        BY <1>3, <3>1, <3>2 DEF Version
      <4>2. ~n.done[d].saves
        BY <1>3, <3>1, <3>2, Zenon
      <4> QED BY <1>2, <4>1, <4>2
    <3>3. CASE ~Existing(x, r)
      <4>1. n.done[d].version = Len(versions[x]) + 1
        BY <1>3, <3>1, <3>3 DEF Version
      <4>2. n.done[d].saves
        BY <1>3, <3>1, <3>3, Zenon
      <4> QED BY <1>2, <4>1, <4>2
    <3> QED BY <3>2, <3>3
  <2>2. n.done[d].result = r
    BY <1>3 DEF Entry
  <2>3. BuiltOK(x, r) \/ OwnBuilt(n, d)
    <3>1. \/ BuiltOK(x, r)
          \/ /\ d - 1 \in DOMAIN l.done /\ r.built = l.done[d - 1].version
             /\ \E v \in Values : r.rest = Rest(l.done[d - 1].result, v)
      BY <1>1, <1>2, <1>4, <1>5, ReadBuilt
    <3> QED BY <1>3, <1>7, <2>2, <3>1 DEF OwnBuilt
  <2>4. BuiltOK(x, n.done[d].result)' \/ OwnBuilt(n, d)'
    <3>1. OwnBuilt(n, d) => OwnBuilt(n, d)'
      BY DEF OwnBuilt, Rest
    <3>2. BuiltOK(x, r) => BuiltOK(x, n.done[d].result)'
      BY <1>6, <2>2
    <3> QED BY <2>3, <3>1, <3>2
  <2> QED BY <1>1, <1>3, <2>1, <2>4 DEF NoteOK
<1>10. ASSUME NEW v \in Workers, NEW e \in DOMAIN lane'[v].done PROVE NoteOK(lane[v], e)'
  <2>1. CASE v = w
    <3>1. lane'[v] = n
      BY <1>2, <1>3, <2>1 DEF LockInv
    <3>2. NoteOK(n, e)'
      BY <1>3, <1>8, <1>9, <1>10, <3>1
    <3> QED BY <3>1, <3>2 DEF NoteOK, OwnBuilt, BuiltOK
  <2>2. CASE v # w
    <3>1. PICK m : m = lane[v] /\ m = lane'[v]
      BY <1>2, <1>3, <2>2 DEF LockInv
    <3>2. NoteOK(m, e)
      BY <1>10, <3>1 DEF RestInv, NotesOK
    <3>3. PICK y, q : y = <<m.player, e>> /\ q = m.done[e].result
      OBVIOUS
    <3>4. NoteOK(m, e)'
      <4>1. BuiltOK(y, q) => BuiltOK(y, m.done[e].result)'
        BY <1>6, <3>3
      <4>2. OwnBuilt(m, e) => OwnBuilt(m, e)'
        BY DEF OwnBuilt, Rest
      <4> QED BY <1>2, <3>2, <3>3, <4>1, <4>2 DEF NoteOK
    <3> QED BY <3>1, <3>4 DEF NoteOK, OwnBuilt, BuiltOK
  <2> QED BY <2>1, <2>2
<1>11. NotesOK'
  BY <1>10 DEF NotesOK, Workers
<1>12. NewestBuilt'
  <2> SUFFICES ASSUME NEW y \in PlayerDays, Saved(y)' PROVE BuiltOK(y, Newest(y))'
    BY DEF NewestBuilt, PlayerDays, Days
  <2>1. PICK q : q = Newest(y) /\ q = Newest(y)'
    BY <1>2 DEF Newest
  <2>2. BuiltOK(y, q)'
    BY <1>2, <1>6, <2>1 DEF RestInv, NewestBuilt, Saved
  <2> QED BY <2>1, <2>2 DEF BuiltOK
<1> QED BY <1>11, <1>12

\* A job that ends saves its results after the versions there are, so that what a
\* result was built from stays where it was, or is what the same job saves.
LEMMA FinishRest ==
    ASSUME ConstantsFit, DayInv, RestInv, NEW w \in Workers, Finish(w) PROVE NotesOK' /\ NewestBuilt'
<1>1. PICK l : l = lane[w]
  OBVIOUS
<1>2. LockInv /\ lane' = [lane EXCEPT ![w] = NoJob] /\ JobOK(l) /\ RunOK(l) /\ DOMAIN l.done = l.days
  BY <1>1, FinishedJob DEF DayInv, Finish
<1>3. ASSUME NEW x \in PlayerDays
      PROVE  /\ Len(versions[x]) \in Nat /\ Len(versions'[x]) \in Nat
             /\ Len(versions[x]) <= Len(versions'[x])
             /\ \A i \in 1 .. Len(versions[x]) : versions'[x][i] = versions[x][i]
             /\ ~Ended(w, x) => versions'[x] = versions[x]
             /\ Ended(w, x) => Len(versions'[x]) = l.done[x[2]].version
  <2>1. PICK S : versions[x] \in Seq(S)
    BY DEF DayInv, QueueInv, Typed
  <2>2. PICK r : r = l.done[x[2]].result
    OBVIOUS
  <2>3. versions'[x] = IF Ended(w, x) /\ l.done[x[2]].saves THEN Append(versions[x], r) ELSE versions[x]
    BY <1>1, <2>2 DEF Finish, Ended
  <2>4. Ended(w, x) => l.done[x[2]].version = Len(versions[x]) + IF l.done[x[2]].saves THEN 1 ELSE 0
    <3> SUFFICES ASSUME Ended(w, x)
                 PROVE  l.done[x[2]].version = Len(versions[x]) + IF l.done[x[2]].saves THEN 1 ELSE 0
      OBVIOUS
    <3>1. NoteOK(l, x[2]) /\ x = <<l.player, x[2]>>
      BY <1>1, FromDay DEF Ended, RestInv, NotesOK
    <3> QED BY <3>1 DEF NoteOK
  <2>5. /\ Len(Append(versions[x], r)) = Len(versions[x]) + 1
        /\ \A i \in 1 .. Len(versions[x]) : Append(versions[x], r)[i] = versions[x][i]
    BY <2>1
  <2>6. CASE Ended(w, x) /\ l.done[x[2]].saves
    <3>1. versions'[x] = Append(versions[x], r) /\ l.done[x[2]].version = Len(versions[x]) + 1
      BY <2>3, <2>4, <2>6
    <3> QED BY <2>1, <2>5, <2>6, <3>1
  <2>7. CASE ~(Ended(w, x) /\ l.done[x[2]].saves)
    <3>1. versions'[x] = versions[x] /\ (Ended(w, x) => l.done[x[2]].version = Len(versions[x]) + 0)
      BY <2>3, <2>4, <2>7
    <3> QED BY <2>1, <2>7, <3>1
  <2> QED BY <2>6, <2>7
<1>4. ASSUME NEW x \in PlayerDays, NEW r, BuiltOK(x, r) PROVE BuiltOK(x, r)'
  <2>1. CASE x[2] = 1
    BY <2>1 DEF BuiltOK
  <2>2. CASE x[2] # 1
    <3>0. DayBeforeOf(x) \in PlayerDays
      <4>1. x[1] \in Players /\ x[2] \in Days
        BY FromDay
      <4>2. x[2] - 1 \in Days
        BY <2>2, <4>1 DEF Days, ConstantsFit
      <4> QED BY <4>1, <4>2 DEF DayBeforeOf, PlayerDays
    <3>1. PICK b : b = DayBeforeOf(x) /\ b \in PlayerDays
      BY <3>0
    <3>2. /\ r.built \in 0 .. Len(versions[b])
          /\ r.built # 0 => \E v \in Values : r.rest = Rest(versions[b][r.built], v)
      BY <1>4, <2>2, <3>1 DEF BuiltOK
    <3>3. r.built \in 0 .. Len(versions'[b])
      BY <1>3, <3>1, <3>2
    <3>4. r.built # 0 => versions'[b][r.built] = versions[b][r.built]
      BY <1>3, <3>1, <3>2
    <3>5. r.built # 0 => \E v \in Values : r.rest = Rest(versions'[b][r.built], v)
      BY <3>2, <3>4
    <3> QED BY <3>1, <3>3, <3>5 DEF BuiltOK, DayBeforeOf, Rest
  <2> QED BY <2>1, <2>2
<1>5. ASSUME NEW x \in PlayerDays, Ended(w, x) PROVE BuiltOK(x, l.done[x[2]].result)'
  <2>1. PICK d, r : d = x[2] /\ r = l.done[d].result /\ d \in Days /\ d \in DOMAIN l.done
    BY <1>1, <1>5, FromDay DEF Ended
  <2>2. NoteOK(l, d) /\ x = <<l.player, d>>
    BY <1>1, <1>5, <2>1, FromDay DEF Ended, RestInv, NotesOK
  <2>3. CASE BuiltOK(x, r)
    <3>1. BuiltOK(x, r)'
      BY <1>4, <2>3
    <3> QED BY <2>1, <3>1 DEF BuiltOK
  <2>4. CASE OwnBuilt(l, d)
    <3>1. PICK b, q : b = DayBeforeOf(x) /\ q = l.done[d - 1].result
      OBVIOUS
    <3>2. /\ d - 1 \in DOMAIN l.done /\ r.built = l.done[d - 1].version
          /\ \E v \in Values : r.rest = Rest(q, v)
      BY <2>1, <2>4, <3>1 DEF OwnBuilt
    <3>3. b = <<l.player, d - 1>> /\ d - 1 \in Days
      BY <1>2, <2>2, <3>1, <3>2 DEF DayBeforeOf, JobOK
    <3>4. b \in PlayerDays /\ b[1] = l.player /\ b[2] = d - 1
      BY <1>2, <3>3 DEF RunOK, PlayerDays
    <3>5. Ended(w, b)
      BY <1>1, <3>2, <3>4 DEF Ended
    <3>6. Newest(b)' = q /\ Len(versions'[b]) = r.built
      BY <1>1, <1>3, <3>1, <3>2, <3>4, <3>5, FinishedResults
    <3>7. Newest(b)' = versions'[b][Len(versions'[b])]
      BY DEF Newest, Last
    <3>8. r.built \in 0 .. Len(versions'[b])
      BY <1>3, <3>4, <3>6
    <3>9. \E v \in Values : r.rest = Rest(versions'[b][r.built], v)
      BY <3>2, <3>6, <3>7
    <3>10. BuiltOK(x, r)'
      BY <3>1, <3>8, <3>9 DEF BuiltOK, DayBeforeOf, Rest
    <3> QED BY <2>1, <3>10 DEF BuiltOK
  <2> QED BY <2>1, <2>2, <2>3, <2>4 DEF NoteOK
<1>6. NewestBuilt'
  <2> SUFFICES ASSUME NEW x \in PlayerDays, Saved(x)' PROVE BuiltOK(x, Newest(x))'
    BY DEF NewestBuilt, PlayerDays, Days
  <2>1. CASE Ended(w, x)
    <3>1. PICK r : r = l.done[x[2]].result /\ r = Newest(x)'
      BY <1>1, <2>1, FinishedResults
    <3>2. BuiltOK(x, r)'
      <4>1. BuiltOK(x, l.done[x[2]].result)'
        BY <1>5, <2>1
      <4> QED BY <3>1, <4>1
    <3> QED BY <3>1, <3>2 DEF BuiltOK
  <2>2. CASE ~Ended(w, x)
    <3>1. PICK r : r = Newest(x) /\ r = Newest(x)' /\ Saved(x)
      BY <2>2, FinishedResults
    <3>2. BuiltOK(x, r)
      BY <3>1 DEF RestInv, NewestBuilt
    <3>3. BuiltOK(x, r)'
      BY <1>4, <3>2
    <3> QED BY <3>1, <3>3 DEF BuiltOK
  <2> QED BY <2>1, <2>2
<1>7. NotesOK'
  <2> SUFFICES ASSUME NEW v \in Workers, NEW d \in DOMAIN lane'[v].done PROVE NoteOK(lane[v], d)'
    BY DEF NotesOK, Workers
  <2>1. v # w
    <3>1. DOMAIN NoJob.done = {}
      BY EmptyDone DEF NoJob
    <3> QED BY <1>2, <3>1 DEF LockInv
  <2>2. PICK m : m = lane[v] /\ m = lane'[v]
    BY <1>2, <2>1 DEF LockInv
  <2>3. NoteOK(m, d)
    BY <2>2 DEF RestInv, NotesOK
  <2>4. PICK x, r : x = <<m.player, d>> /\ r = m.done[d].result
    OBVIOUS
  <2>5. x \in PlayerDays /\ x[1] = m.player /\ x[2] = d /\ d \in m.days
    <3>1. d \in DOMAIN lane[v].done
      BY <2>2
    <3> QED BY <2>2, <2>4, <3>1, DoneDay
  <2>6. ~Ended(w, x)
    BY <1>1, <1>2, <2>1, <2>2, <2>5 DEF Ended, LockInv
  <2>7. versions'[x] = versions[x]
    BY <1>3, <2>5, <2>6
  <2>8. BuiltOK(x, r) => BuiltOK(x, r)'
    BY <1>4, <2>5
  <2>9. BuiltOK(x, r) \/ OwnBuilt(m, d)
    BY <2>3, <2>4 DEF NoteOK
  <2>10. OwnBuilt(m, d) => OwnBuilt(m, d)'
    BY DEF OwnBuilt, Rest
  <2>11. m.done[d].version = Len(versions'[x]) + IF m.done[d].saves THEN 1 ELSE 0
    BY <2>3, <2>4, <2>7 DEF NoteOK
  <2>12. NoteOK(m, d)'
    BY <2>4, <2>8, <2>9, <2>10, <2>11 DEF NoteOK
  <2> QED BY <2>2, <2>12 DEF NoteOK, OwnBuilt, BuiltOK
<1> QED BY <1>6, <1>7

LEMMA RestInvKept == ASSUME ConstantsFit, DayInv, RestInv, [Next]_vars PROVE RestInv'
<1>1. CASE Next
  <2>1. Reported'
    BY <1>1, ReportedKept DEF DayInv, QueueInv, RestInv
  <2>2. ASSUME NEW w \in Workers, NEW n, lane' = [lane EXCEPT ![w] = n], versions' = versions,
               (n.done = lane[w].done /\ n.player = lane[w].player) \/ DOMAIN n.done = {}
        PROVE  RestInv'
    BY <2>1, <2>2, NotesStay DEF DayInv, LockInv
  <2>3. ASSUME UNCHANGED <<versions, lane>> PROVE RestInv'
    BY <2>1, <2>3, NotesStay
  <2>4. ASSUME NEW s \in Savers, NEW P \in (SUBSET Players) \ {{}}, NEW d \in Days, NEW v \in Values,
               SaveChange(s, P, d, v)
        PROVE  RestInv'
    BY <2>3, <2>4 DEF SaveChange
  <2>5. ASSUME NEW s \in Savers, CommitChange(s) \/ AbortChange(s) PROVE RestInv'
    BY <2>3, <2>5 DEF CommitChange, AbortChange
  <2>6. ASSUME Recheck \/ (\E x \in PlayerDays : RecheckDue(x)) \/ \E d \in Days : DayIsLate(d) PROVE RestInv'
    BY <2>3, <2>6 DEF Recheck, RecheckDue, DayIsLate
  <2>7. ASSUME NEW w \in Lanes, NEW x \in PlayerDays,
               ClaimRecheck(w, x) \/ ClaimRetry(w, x) \/ ClaimFirst(w, x) \/ ClaimDayEnd(w, x)
        PROVE  RestInv'
    <3>1. Take(w, x) /\ versions' = versions /\ w \in Workers
      BY <2>7 DEF ClaimRecheck, ClaimRetry, ClaimFirst, ClaimDayEnd, Workers
    <3>2. PICK n : /\ n = [NoJob EXCEPT !.player = x[1], !.from = x[2], !.pending = {x[2]}]
                   /\ lane' = [lane EXCEPT ![w] = n]
      BY <3>1 DEF Take
    <3>3. n.done = <<>>
      BY <3>2 DEF NoJob
    <3> QED BY <2>2, <3>1, <3>2, <3>3, EmptyDone
  <2>8. ASSUME NEW w \in Workers, TakeLock(w) PROVE RestInv'
    <3>1. IsJob(lane[w]) /\ versions' = versions
      BY <2>8, Zenon DEF DayInv, LockInv, JobOK, TakeLock
    <3>2. PICK lock, n :
             /\ lane' = [lane EXCEPT ![w] = n]
             /\ lock[1] = "day" => n = [lane[w] EXCEPT !.day = lock[3], !.days = lane[w].days \cup {lock[3]},
                                                       !.pending = lane[w].pending \ {lock[3]}]
             /\ lock[1] # "day" => n = [lane[w] EXCEPT !.resets = lane[w].resets \cup {lock[3]}]
      BY <2>8, TakesLock
    <3>3. n.done = lane[w].done /\ n.player = lane[w].player
      BY <3>1, <3>2 DEF IsJob
    <3> QED BY <2>2, <3>1, <3>2, <3>3
  <2>9. ASSUME NEW w \in Workers, Calculate(w) \/ Finish(w) PROVE RestInv'
    BY <2>1, <2>9, CalculateRest, FinishRest DEF RestInv
  <2>10. ASSUME NEW w \in Workers, GiveUp(w) PROVE RestInv'
    <3>1. lane' = [lane EXCEPT ![w] = NoJob] /\ versions' = versions /\ DOMAIN NoJob.done = {}
      BY <2>10, EmptyDone DEF GiveUp, NoJob
    <3> QED BY <2>2, <3>1
  <2>11. ASSUME NEW p \in Players, SweepPlayer(p) PROVE RestInv'
    <3>1. PICK from, pending, n :
             /\ n = [NoJob EXCEPT !.player = p, !.from = from, !.sweeps = TRUE, !.pending = pending]
             /\ lane' = [lane EXCEPT ![Sweep] = n] /\ versions' = versions
      BY <2>11 DEF SweepPlayer
    <3>2. n.done = <<>> /\ Sweep \in Workers
      BY <3>1 DEF NoJob, Workers
    <3> QED BY <2>2, <3>1, <3>2, EmptyDone
  <2> QED BY <1>1, <2>4, <2>5, <2>6, <2>7, <2>8, <2>9, <2>10, <2>11, Zenon DEF Next
<1>2. CASE UNCHANGED vars
  <2>1. UNCHANGED <<battles, saver, versions, lane>>
    BY <1>2 DEF vars
  <2>2. Reported'
    BY <2>1 DEF RestInv, Reported, PlayerDays, Days
  <2> QED BY <2>1, <2>2, NotesStay
<1> QED BY <1>1, <1>2

(* Whatever the players, days, lanes, savers and changes, a saved result   *)
(* that names the newest version of the day before was calculated from all *)
(* of that version the next day reads (load_previous_day), so the days the *)
(* late-battle sweep passes over as built from it are not stale in it.     *)
THEOREM StaleRestsAreSeen == ASSUME ConstantsFit PROVE Spec => []StaleRestIsSeen
<1> DEFINE IInv == DayInv /\ RestInv
<1>1. IInv => StaleRestIsSeen
  BY RestInvSuffices
<1>2. Init => IInv
  BY DayInvStarts, RestInvStarts
<1>3. IInv /\ [Next]_vars => IInv'
  BY DayInvKept, RestInvKept
<1> QED BY <1>1, <1>2, <1>3, PTL DEF Spec
=============================================================================
