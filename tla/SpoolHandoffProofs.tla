------------------------- MODULE SpoolHandoffProofs -------------------------
(***************************************************************************)
(* Proofs about SpoolHandoff for any responses, identities, bodies, faults *)
(* and crashes.                                                            *)
(*                                                                         *)
(* That no body file goes missing rests on the barrier: while a pass is    *)
(* active or its rows are uncommitted nothing publishes, so the sidecars   *)
(* it read are all there are (Cleaning).  That a response is applied once  *)
(* rests on the order of an identity's responses: one that was applied and *)
(* still has its sidecar comes before every other of its identity, in its  *)
(* turns and in the recovery list, so that its marker is still there when  *)
(* it is recognised (AppliedFirst, Alone, Marked).                         *)
(*                                                                         *)
(* That no change is compacted away rests on the order in which an         *)
(* identity's responses were saved: its turns and its part of the recovery *)
(* list rise (Ascending), so that none is recorded while an older one still*)
(* waits (InOrder), and the state row a response is compared with names one*)
(* that was recorded (NewestReached).                                      *)
(***************************************************************************)
EXTENDS SpoolHandoff, FiniteSetTheorems, FunctionTheorems, SequenceTheorems, TLAPS

Handing == {"saved", "committing", "recorded", "left"}
Resting == {"none", "left", "done", "lost"}

Typed ==
    /\ files \subseteq Bodies /\ sidecars \subseteq Responses
    /\ phase \in [Responses -> Phases]
    /\ turns \in [Identities -> Seq(Responses)]
    /\ known \in [Identities -> Responses \cup {None}]
    /\ paused \in BOOLEAN /\ mode \in Modes
    /\ recovery \in Seq(Responses)
    /\ cleaner \in Cleaner
    /\ row \in [Identities -> StateRow]
    /\ evidence \in [Responses -> {"none", "unbound", "bound", "retired"}]
    /\ processed \subseteq Responses
    /\ upload \in [Bodies -> {"none", "pending", "complete"}]
    /\ kept \subseteq Bodies /\ retired \subseteq Bodies
    /\ applied \in [Responses -> Nat] /\ sighted \subseteq Responses
    /\ disordered \subseteq Identities
    /\ crashes \in 0 .. MaxCrashes /\ faults \in 0 .. MaxFaults

\* A response has a sidecar from its publication until its commit is known.
Phased ==
    /\ \A r \in Responses : r \in sidecars <=> phase[r] \in Handing
    /\ \A r \in Responses : phase[r] = "publishing" => BodyOf[r] \in files

Cleaning ==
    /\ cleaner.stage \in {"active", "deleted"} => Publishing = {}
    /\ cleaner.stage = "active" => Handoffs \subseteq cleaner.protected
    /\ cleaner # NoCleaner => recovery = <<>> /\ mode # "down"

\* What is going on while the process is down or recovers.
Recovering ==
    /\ recovery # <<>> => mode = "recovering"
    /\ \A k \in DOMAIN recovery :
        /\ recovery[k] \in sidecars
        /\ phase[recovery[k]] = "left" \/ (k = 1 /\ phase[recovery[k]] = "recorded")
    /\ \A j, k \in DOMAIN recovery : recovery[j] = recovery[k] => j = k
    /\ mode = "down" => ~paused /\ \A r \in Responses : phase[r] \in Resting
    /\ mode = "recovering" =>
        /\ ~paused
        /\ \A r \in Responses :
            \/ phase[r] \in Resting \ {"left"}
            \/ phase[r] = "saved" /\ recovery = <<>>
            \/ \E k \in DOMAIN recovery : recovery[k] = r
    /\ mode \in {"running", "stopping"} => \A r \in Responses : phase[r] = "left" => paused

BInv == Typed /\ Phased /\ HandoffHasBody /\ BytesReachable /\ Cleaning /\ Recovering

\* An identity's turns: its saved responses not yet settled, each once.
Turned ==
    /\ \A i \in Identities :
        /\ \A k \in DOMAIN turns[i] :
            /\ IdentityOf[turns[i][k]] = i
            /\ phase[turns[i][k]] \in Handing \ {"left"} /\ recovery = <<>>
        /\ \A j, k \in DOMAIN turns[i] : turns[i][j] = turns[i][k] => j = k
    /\ \A r \in Responses :
        /\ phase[r] \in Handing \ {"left"} /\ recovery = <<>> =>
               \E k \in DOMAIN turns[IdentityOf[r]] : turns[IdentityOf[r]][k] = r
        /\ phase[r] \in {"committing", "recorded"} /\ recovery = <<>> =>
               turns[IdentityOf[r]][1] = r

\* Of the responses of an identity that wait, only the first may be applied already.
AppliedFirst ==
    /\ \A i \in Identities : \A k \in DOMAIN turns[i] : k > 1 => applied[turns[i][k]] = 0
    /\ \A j, k \in DOMAIN recovery :
        j < k /\ IdentityOf[recovery[j]] = IdentityOf[recovery[k]] => applied[recovery[k]] = 0

Alone ==
    \A r, s \in Responses :
        phase[r] = "committing" /\ s \in sidecars /\ s # r /\ IdentityOf[s] = IdentityOf[r]
            => applied[s] = 0

\* What the rows say of the responses applied.
Marked ==
    /\ \A r \in Responses :
        /\ applied[r] <= 1
        /\ applied[r] > 0 => phase[r] \in Handing \cup {"done"}
        /\ phase[r] = "recorded" => applied[r] > 0
        /\ phase[r] = "done" => applied[r] > 0 \/ r \in sighted
        /\ r \in sidecars /\ applied[r] > 0 => row[IdentityOf[r]].marker = r
        /\ evidence[r] # "none" => applied[r] > 0
        /\ applied[r] > 0 \/ r \in sighted => row[IdentityOf[r]].newest >= r
    /\ \A i \in Identities : row[i].marker # None => applied[row[i].marker] > 0

IInv == BInv /\ Turned /\ AppliedFirst /\ Alone /\ Marked

-----------------------------------------------------------------------------
(* Increasing lists *)

\* Every finite set of numbers has an increasing list: the rank of a number,
\* how many of the set are no larger, is one-to-one onto 1 .. Cardinality.
LEMMA IncreasingExists ==
    ASSUME NEW T \in SUBSET Nat, IsFiniteSet(T)
    PROVE  \E s \in [1 .. Cardinality(T) -> T] : \A j, k \in DOMAIN s : j < k => s[j] < s[k]
<1> DEFINE n == Cardinality(T)
           upTo(t) == {u \in T : u <= t}
           rank == [t \in T |-> Cardinality(upTo(t))]
<1>1. n \in Nat
  BY FS_CardinalityType
<1>2. ASSUME NEW t \in T
      PROVE  rank[t] \in 1 .. n
  <2>1. /\ IsFiniteSet(upTo(t)) /\ Cardinality(upTo(t)) <= n
        /\ Cardinality(upTo(t)) \in Nat
    <3>1. upTo(t) \in SUBSET T
      OBVIOUS
    <3> HIDE DEF upTo
    <3> QED BY <3>1, FS_Subset, FS_CardinalityType
  <2>2. Cardinality(upTo(t)) # 0
    <3>1. t \in upTo(t)
      OBVIOUS
    <3> HIDE DEF upTo
    <3> QED BY <2>1, <3>1, FS_EmptySet
  <2> QED BY <1>1, <2>1, <2>2
<1>3. ASSUME NEW t \in T, NEW u \in T, t < u
      PROVE  rank[t] < rank[u]
  <2>1. upTo(t) \in SUBSET upTo(u) /\ upTo(u) \in SUBSET T /\ upTo(t) \in SUBSET T
    <3>1. ASSUME NEW v \in T, v <= t PROVE v <= u
      <4>1. v \in Nat /\ t \in Nat /\ u \in Nat
        OBVIOUS
      <4> QED BY <1>3, <3>1, <4>1
    <3> QED BY <3>1
  <2>2. u \in upTo(u) /\ u \notin upTo(t)
    BY <1>3
  <2> HIDE DEF upTo
  <2>3. IsFiniteSet(upTo(u)) /\ IsFiniteSet(upTo(t))
    BY <2>1, FS_Subset
  <2>4. Cardinality(upTo(t)) <= Cardinality(upTo(u)) /\ Cardinality(upTo(t)) # Cardinality(upTo(u))
    BY <2>1, <2>2, <2>3, FS_Subset
  <2>5. Cardinality(upTo(t)) \in Nat /\ Cardinality(upTo(u)) \in Nat
    BY <2>3, FS_CardinalityType
  <2> QED BY <2>4, <2>5
<1> HIDE DEF rank
<1>4. rank \in [T -> 1 .. n]
  <2>1. rank = [t \in T |-> rank[t]]
    BY DEF rank
  <2> QED BY <1>2, <2>1
<1>5. rank \in Injection(T, 1 .. n)
  <2>1. ASSUME NEW t \in T, NEW u \in T, rank[t] = rank[u] PROVE t = u
    <3>1. t < u \/ u < t \/ t = u
      OBVIOUS
    <3> QED BY <1>2, <1>3, <2>1, <3>1
  <2> QED BY <1>4, <2>1 DEF Injection, IsInjective
<1>6. IsFiniteSet(1 .. n) /\ Cardinality(1 .. n) = n
  BY <1>1, FS_Interval
<1>7. rank \in Surjection(T, 1 .. n)
  BY <1>5, <1>6, FS_Injection
<1> DEFINE s == [k \in 1 .. n |-> CHOOSE t \in T : rank[t] = k]
<1>8. ASSUME NEW k \in 1 .. n PROVE s[k] \in T /\ rank[s[k]] = k
  <2>1. \E t \in T : rank[t] = k
    BY <1>7 DEF Surjection
  <2> QED BY <2>1
<1>9. s \in [1 .. n -> T]
  BY <1>8
<1>10. ASSUME NEW j \in 1 .. n, NEW k \in 1 .. n, j < k PROVE s[j] < s[k]
  <2>1. s[j] \in T /\ s[k] \in T /\ rank[s[j]] < rank[s[k]]
    BY <1>8, <1>10
  <2> HIDE DEF s
  <2>2. s[j] \in Nat /\ s[k] \in Nat
    BY <2>1
  <2>3. s[j] < s[k] \/ s[k] < s[j] \/ s[j] = s[k]
    BY <2>2
  <2>7. rank[s[k]] \in 1 .. n /\ rank[s[j]] \in 1 .. n
    BY <1>4, <2>1
  <2>4. s[j] # s[k]
    BY <1>1, <2>1, <2>7
  <2>5. ASSUME s[k] < s[j] PROVE FALSE
    <3>1. rank[s[k]] < rank[s[j]]
      BY <1>3, <2>1, <2>5
    <3> QED BY <1>1, <2>1, <2>7, <3>1
  <2> QED BY <2>3, <2>4, <2>5
<1> QED BY <1>9, <1>10

LEMMA IncreasingList ==
    ASSUME NEW T \in SUBSET Nat, IsFiniteSet(T)
    PROVE  /\ Increasing(T) \in Seq(T) /\ Len(Increasing(T)) = Cardinality(T)
           /\ DOMAIN Increasing(T) = 1 .. Cardinality(T) /\ Cardinality(T) \in Nat
           /\ \A k \in DOMAIN Increasing(T) : Increasing(T)[k] \in T
           /\ \A j, k \in DOMAIN Increasing(T) : j < k => Increasing(T)[j] < Increasing(T)[k]
           /\ \A j, k \in DOMAIN Increasing(T) : Increasing(T)[j] = Increasing(T)[k] => j = k
           /\ \A t \in T : \E k \in DOMAIN Increasing(T) : Increasing(T)[k] = t
<1> DEFINE n == Cardinality(T)
           s == Increasing(T)
<1>1. n \in Nat
  BY FS_CardinalityType
<1>2. s \in [1 .. n -> T] /\ \A j, k \in DOMAIN s : j < k => s[j] < s[k]
  BY IncreasingExists DEF Increasing
<1> HIDE DEF s
<1>3. ASSUME NEW j \in 1 .. n, NEW k \in 1 .. n, s[j] = s[k] PROVE j = k
  <2>1. s[j] \in T /\ s[k] \in T
    BY <1>2
  <2>2. s[j] \in Nat /\ s[k] \in Nat
    BY <2>1
  <2>3. j \in Nat /\ k \in Nat /\ (j < k \/ k < j \/ j = k)
    BY <1>1
  <2>4. ~(j < k) /\ ~(k < j)
    BY <1>2, <1>3, <2>2
  <2> QED BY <2>3, <2>4
<1>4. s \in Injection(1 .. n, T)
  BY <1>2, <1>3 DEF Injection, IsInjective
<1>5. IsFiniteSet(1 .. n) /\ Cardinality(1 .. n) = n
  BY <1>1, FS_Interval
<1>6. s \in Surjection(1 .. n, T)
  BY <1>4, <1>5, FS_Injection
<1>7. \A t \in T : \E k \in 1 .. n : s[k] = t
  BY <1>6 DEF Surjection
<1>8. s \in Seq(T) /\ Len(s) = n
  BY <1>1, <1>2
<1> HIDE DEF n
<1>9. DOMAIN s = 1 .. n
  BY <1>2
<1> QED BY <1>1, <1>2, <1>3, <1>7, <1>8, <1>9 DEF s, n

\* Recovery takes every sidecar once, those the rows name as applied first.
LEMMA RecoveryOrderList ==
    ASSUME NEW S \in SUBSET Responses
    PROVE  /\ RecoveryOrder(S) \in Seq(Responses)
           /\ \A k \in DOMAIN RecoveryOrder(S) : RecoveryOrder(S)[k] \in S
           /\ \A r \in S : \E k \in DOMAIN RecoveryOrder(S) : RecoveryOrder(S)[k] = r
           /\ \A j, k \in DOMAIN RecoveryOrder(S) :
                  RecoveryOrder(S)[j] = RecoveryOrder(S)[k] => j = k
           /\ \A j, k \in DOMAIN RecoveryOrder(S) :
                  j < k /\ Applied(RecoveryOrder(S)[k]) => Applied(RecoveryOrder(S)[j])
<1> DEFINE A == {r \in S : Applied(r)}
           B == {r \in S : ~Applied(r)}
           a == Increasing(A)
           b == Increasing(B)
           o == RecoveryOrder(S)
<1>1. /\ A \in SUBSET Nat /\ IsFiniteSet(A) /\ A \subseteq S
      /\ B \in SUBSET Nat /\ IsFiniteSet(B) /\ B \subseteq S
      /\ A \cap B = {} /\ A \cup B = S
  <2>1. IsFiniteSet(Responses) /\ Responses \subseteq Nat
    BY FS_Interval, SpoolHandoffConstants DEF Responses
  <2>2. A \in SUBSET Responses /\ B \in SUBSET Responses
    OBVIOUS
  <2>3. IsFiniteSet(A) /\ IsFiniteSet(B)
    <3> HIDE DEF A, B
    <3> QED BY <2>1, <2>2, FS_Subset
  <2> QED BY <2>1, <2>2, <2>3
<1>2. \A r \in A : Applied(r)
  OBVIOUS
<1>3. \A r \in B : ~Applied(r)
  OBVIOUS
<1>4. o = a \o b
  BY DEF RecoveryOrder
<1> HIDE DEF A, B, o
<1>5. /\ a \in Seq(A) /\ DOMAIN a = 1 .. Len(a) /\ Len(a) \in Nat
      /\ \A k \in DOMAIN a : a[k] \in A
      /\ \A j, k \in DOMAIN a : a[j] = a[k] => j = k
      /\ \A t \in A : \E k \in DOMAIN a : a[k] = t
  BY <1>1, IncreasingList
<1>6. /\ b \in Seq(B) /\ DOMAIN b = 1 .. Len(b) /\ Len(b) \in Nat
      /\ \A k \in DOMAIN b : b[k] \in B
      /\ \A j, k \in DOMAIN b : b[j] = b[k] => j = k
      /\ \A t \in B : \E k \in DOMAIN b : b[k] = t
  BY <1>1, IncreasingList
<1> HIDE DEF a, b
<1>7. /\ o \in Seq(S) /\ Len(o) = Len(a) + Len(b) /\ DOMAIN o = 1 .. Len(a) + Len(b)
      /\ \A k \in 1 .. Len(a) + Len(b) : o[k] = IF k <= Len(a) THEN a[k] ELSE b[k - Len(a)]
  <2>1. a \in Seq(S) /\ b \in Seq(S)
    BY <1>1, <1>5, <1>6
  <2>2. a \o b \in Seq(S) /\ Len(a \o b) = Len(a) + Len(b)
        /\ \A k \in 1 .. Len(a) + Len(b) : (a \o b)[k] = IF k <= Len(a) THEN a[k] ELSE b[k - Len(a)]
    BY <2>1, ConcatProperties
  <2> QED BY <1>4, <2>2
<1>8. ASSUME NEW k \in DOMAIN o
      PROVE  \/ k \in DOMAIN a /\ o[k] = a[k] /\ o[k] \in A
             \/ k - Len(a) \in DOMAIN b /\ o[k] = b[k - Len(a)] /\ o[k] \in B /\ k > Len(a)
  <2>1. k \in 1 .. Len(a) + Len(b)
    BY <1>7
  <2>2. CASE k <= Len(a)
    BY <1>5, <1>7, <2>1, <2>2
  <2>3. CASE ~(k <= Len(a))
    <3>1. k - Len(a) \in 1 .. Len(b)
      BY <1>5, <1>6, <2>1, <2>3
    <3> QED BY <1>5, <1>6, <1>7, <2>1, <2>3, <3>1
  <2> QED BY <2>2, <2>3
<1>9. \A k \in DOMAIN o : o[k] \in S
  BY <1>7
<1>10. ASSUME NEW r \in S PROVE \E k \in DOMAIN o : o[k] = r
  <2>1. CASE r \in A
    <3>1. PICK k \in DOMAIN a : a[k] = r
      BY <1>5, <2>1
    <3>2. k \in DOMAIN o /\ o[k] = a[k]
      BY <1>5, <1>6, <1>7
    <3> QED BY <3>1, <3>2
  <2>2. CASE r \in B
    <3>1. PICK k \in DOMAIN b : b[k] = r
      BY <1>6, <2>2
    <3>2. /\ k + Len(a) \in 1 .. Len(a) + Len(b) /\ ~(k + Len(a) <= Len(a))
          /\ k + Len(a) - Len(a) = k
      BY <1>5, <1>6
    <3>3. o[k + Len(a)] = b[k]
      BY <1>7, <3>2
    <3> QED BY <1>7, <3>1, <3>2, <3>3
  <2> QED BY <1>1, <2>1, <2>2
<1>11. ASSUME NEW j \in DOMAIN o, NEW k \in DOMAIN o, o[j] = o[k] PROVE j = k
  <2>1. j \in Nat /\ k \in Nat /\ Len(a) \in Nat
    BY <1>5, <1>6, <1>7
  <2>2. CASE o[j] \in A
    BY <1>1, <1>5, <1>8, <1>11, <2>2
  <2>3. CASE o[j] \in B
    <3>1. /\ j - Len(a) \in DOMAIN b /\ k - Len(a) \in DOMAIN b
          /\ b[j - Len(a)] = b[k - Len(a)]
      BY <1>1, <1>8, <1>11, <2>3
    <3>2. j - Len(a) = k - Len(a)
      BY <1>6, <3>1
    <3> QED BY <2>1, <3>2
  <2> QED BY <1>1, <1>9, <2>2, <2>3
<1>12. ASSUME NEW j \in DOMAIN o, NEW k \in DOMAIN o, j < k, Applied(o[k]) PROVE Applied(o[j])
  <2>1. o[k] \in A /\ k \in DOMAIN a
    BY <1>3, <1>8, <1>12
  <2>2. j \in Nat /\ k \in Nat /\ Len(a) \in Nat /\ k <= Len(a)
    BY <1>5, <1>6, <1>7, <2>1
  <2>3. ~(j > Len(a))
    BY <1>12, <2>2
  <2> QED BY <1>2, <1>8, <2>3
<1>13. o \in Seq(Responses)
  BY <1>7
<1> QED BY <1>9, <1>10, <1>11, <1>12, <1>13 DEF o

\* The turns of an identity are its responses of the list, in the list's order.
LEMMA OfIdentityList ==
    ASSUME NEW list \in Seq(Responses), NEW i
    PROVE  /\ OfIdentity(list, i) \in Seq(Responses)
           /\ \A k \in DOMAIN OfIdentity(list, i) : \E m \in DOMAIN list :
                  OfIdentity(list, i)[k] = list[m] /\ IdentityOf[list[m]] = i
           /\ \A m \in DOMAIN list : IdentityOf[list[m]] = i =>
                  \E k \in DOMAIN OfIdentity(list, i) : OfIdentity(list, i)[k] = list[m]
           /\ (\A j, k \in DOMAIN list : list[j] = list[k] => j = k) =>
                  \A j, k \in DOMAIN OfIdentity(list, i) :
                      OfIdentity(list, i)[j] = OfIdentity(list, i)[k] => j = k
           /\ \A k \in DOMAIN OfIdentity(list, i) : k > 1 => \E l, m \in DOMAIN list :
                  /\ l < m /\ OfIdentity(list, i)[k] = list[m]
                  /\ IdentityOf[list[l]] = i /\ IdentityOf[list[m]] = i
<1> DEFINE K == {k \in DOMAIN list : IdentityOf[list[k]] = i}
           at == Increasing(K)
           o == OfIdentity(list, i)
<1>1. DOMAIN list = 1 .. Len(list) /\ Len(list) \in Nat
  OBVIOUS
<1>2. K \in SUBSET Nat /\ IsFiniteSet(K) /\ K \subseteq DOMAIN list
  <2>1. K \in SUBSET (1 .. Len(list))
    BY <1>1
  <2>2. IsFiniteSet(1 .. Len(list))
    BY <1>1, FS_Interval
  <2>3. IsFiniteSet(K)
    <3> HIDE DEF K
    <3> QED BY <2>1, <2>2, FS_Subset
  <2> QED BY <1>1, <2>3
<1>3. \A k \in DOMAIN list : k \in K <=> IdentityOf[list[k]] = i
  OBVIOUS
<1>4. o = [k \in DOMAIN at |-> list[at[k]]]
  BY DEF OfIdentity
<1> HIDE DEF K, o
<1>5. /\ at \in Seq(K) /\ DOMAIN at = 1 .. Len(at) /\ Len(at) \in Nat
      /\ \A k \in DOMAIN at : at[k] \in K
      /\ \A j, k \in DOMAIN at : j < k => at[j] < at[k]
      /\ \A j, k \in DOMAIN at : at[j] = at[k] => j = k
      /\ \A t \in K : \E k \in DOMAIN at : at[k] = t
  BY <1>2, IncreasingList
<1> HIDE DEF at
<1>6. /\ DOMAIN o = DOMAIN at
      /\ \A k \in DOMAIN at : o[k] = list[at[k]] /\ at[k] \in DOMAIN list /\ IdentityOf[list[at[k]]] = i
  BY <1>2, <1>3, <1>4, <1>5
<1>7. o \in Seq(Responses)
  <2>1. \A k \in 1 .. Len(at) : list[at[k]] \in Responses
    BY <1>1, <1>5, <1>6
  <2> QED BY <1>4, <1>5, <2>1
<1>8. ASSUME NEW k \in DOMAIN o, k > 1
      PROVE  \E l, m \in DOMAIN list :
                  /\ l < m /\ o[k] = list[m] /\ IdentityOf[list[l]] = i /\ IdentityOf[list[m]] = i
  <2>1. k \in DOMAIN at /\ 1 \in DOMAIN at
    BY <1>5, <1>6, <1>8
  <2>2. at[1] < at[k]
    BY <1>5, <1>8, <2>1
  <2> QED BY <1>6, <2>1, <2>2
<1>9. \A m \in DOMAIN list : IdentityOf[list[m]] = i => \E k \in DOMAIN o : o[k] = list[m]
  BY <1>3, <1>5, <1>6
<1>10. (\A j, k \in DOMAIN list : list[j] = list[k] => j = k) =>
           \A j, k \in DOMAIN o : o[j] = o[k] => j = k
  BY <1>5, <1>6
<1> QED BY <1>6, <1>7, <1>8, <1>9, <1>10 DEF o

-----------------------------------------------------------------------------
(* Turns *)

\* The one that leaves is taken out, and those behind it move up.
LEMMA RemovedAt ==
    ASSUME NEW list \in Seq(Responses), NEW r, NEW i \in 1 .. Len(list), list[i] = r,
           \A j, k \in DOMAIN list : list[j] = list[k] => j = k
    PROVE  /\ RemoveFirst(list, r) \in Seq(Responses) /\ Len(RemoveFirst(list, r)) = Len(list) - 1
           /\ \A j \in 1 .. Len(list) - 1 :
                  RemoveFirst(list, r)[j] = IF j < i THEN list[j] ELSE list[j + 1]
<1> DEFINE new == RemoveFirst(list, r)
           l == Len(list)
<1>1. l \in Nat /\ DOMAIN list = 1 .. l /\ \A j \in 1 .. l : list[j] \in Responses
  OBVIOUS
<1>2. /\ new \in Seq(Responses) /\ Len(new) = l - 1
      /\ \A j \in 1 .. l - 1 : new[j] = IF j < i THEN list[j] ELSE list[j + 1]
  <2>1. new = RemoveAt(list, i)
    <3>1. {j \in 1 .. Len(list) : list[j] = r} = {i}
      BY <1>1
    <3>2. Min({i}) = i
      BY <1>1 DEF Min
    <3>3. SelectInSeq(list, LAMBDA v : v = r) = i
      BY <3>1, <3>2 DEF SelectInSeq
    <3> QED BY <3>3 DEF RemoveFirst
  <2>2. /\ SubSeq(list, 1, i - 1) \in Seq(Responses) /\ Len(SubSeq(list, 1, i - 1)) = i - 1
        /\ \A j \in 1 .. i - 1 : SubSeq(list, 1, i - 1)[j] = list[j]
    <3>1. \A j \in 1 .. i - 1 : list[j] \in Responses
      BY <1>1
    <3>2. 1 \in Int /\ i - 1 \in Int
      BY <1>1
    <3>3. /\ SubSeq(list, 1, i - 1) \in Seq(Responses)
          /\ Len(SubSeq(list, 1, i - 1)) = IF 1 <= i - 1 THEN i - 1 - 1 + 1 ELSE 0
          /\ \A j \in 1 .. i - 1 - 1 + 1 : SubSeq(list, 1, i - 1)[j] = list[1 + j - 1]
      BY <3>1, <3>2, SubSeqProperties
    <3> QED BY <1>1, <3>3
  <2>3. /\ SubSeq(list, i + 1, l) \in Seq(Responses) /\ Len(SubSeq(list, i + 1, l)) = l - i
        /\ \A j \in 1 .. l - i : SubSeq(list, i + 1, l)[j] = list[i + j]
    <3> HIDE DEF l
    <3>1. \A j \in i + 1 .. l : list[j] \in Responses
      BY <1>1
    <3>2. i + 1 \in Int /\ l \in Int
      BY <1>1
    <3>3. /\ SubSeq(list, i + 1, l) \in Seq(Responses)
          /\ Len(SubSeq(list, i + 1, l)) = IF i + 1 <= l THEN l - (i + 1) + 1 ELSE 0
          /\ \A j \in 1 .. l - (i + 1) + 1 : SubSeq(list, i + 1, l)[j] = list[(i + 1) + j - 1]
      BY <3>1, <3>2, SubSeqProperties
    <3> QED BY <1>1, <3>3
  <2> DEFINE a == SubSeq(list, 1, i - 1)
             b == SubSeq(list, i + 1, l)
  <2>4. new = a \o b
    BY <2>1 DEF RemoveAt
  <2> HIDE DEF new, l, a, b
  <2>5. /\ a \o b \in Seq(Responses) /\ Len(a \o b) = Len(a) + Len(b)
        /\ \A j \in 1 .. Len(a) + Len(b) : (a \o b)[j] = IF j <= Len(a) THEN a[j] ELSE b[j - Len(a)]
    BY <2>2, <2>3, ConcatProperties DEF a, b
  <2>6. Len(a) = i - 1 /\ Len(b) = l - i /\ Len(a) + Len(b) = l - 1
    BY <1>1, <2>2, <2>3 DEF a, b
  <2>7. ASSUME NEW j \in 1 .. l - 1
        PROVE  new[j] = IF j < i THEN list[j] ELSE list[j + 1]
    <3>1. CASE j < i
      <4>1. new[j] = a[j]
        BY <1>1, <2>4, <2>5, <2>6, <3>1
      <4>2. j \in 1 .. i - 1
        BY <1>1, <3>1
      <4> QED BY <2>2, <3>1, <4>1, <4>2 DEF a
    <3>2. CASE ~(j < i)
      <4>1. new[j] = b[j - (i - 1)]
        BY <1>1, <2>4, <2>5, <2>6, <3>2
      <4>2. j - (i - 1) \in 1 .. l - i /\ i + (j - (i - 1)) = j + 1
        BY <1>1, <3>2
      <4>3. b[j - (i - 1)] = list[i + (j - (i - 1))]
        BY <2>3, <4>2 DEF b
      <4> QED BY <3>2, <4>1, <4>2, <4>3
    <3> QED BY <3>1, <3>2
  <2> QED BY <2>4, <2>5, <2>6, <2>7
<1> QED BY <1>2

\* A settled response leaves its turns, the others keep their order: none moves back,
\* and the first stays first unless it is the one that left.
LEMMA RemovedFromTurns ==
    ASSUME NEW list \in Seq(Responses), NEW r,
           \A i, j \in DOMAIN list : list[i] = list[j] => i = j
    PROVE  /\ RemoveFirst(list, r) \in Seq(Responses)
           /\ \A i, j \in DOMAIN RemoveFirst(list, r) :
                  RemoveFirst(list, r)[i] = RemoveFirst(list, r)[j] => i = j
           /\ \A s : (\E i \in DOMAIN RemoveFirst(list, r) : RemoveFirst(list, r)[i] = s)
                       <=> s # r /\ \E i \in DOMAIN list : list[i] = s
           /\ \A j \in DOMAIN RemoveFirst(list, r) :
                  \E m \in DOMAIN list : RemoveFirst(list, r)[j] = list[m] /\ m >= j
           /\ list # <<>> /\ list[1] # r => RemoveFirst(list, r)[1] = list[1]
<1> DEFINE new == RemoveFirst(list, r)
           l == Len(list)
<1>1. l \in Nat /\ DOMAIN list = 1 .. l /\ \A i \in 1 .. l : list[i] \in Responses
  OBVIOUS
<1>2. ASSUME NEW i \in 1 .. l, list[i] = r
      PROVE  /\ new \in Seq(Responses) /\ Len(new) = l - 1
             /\ \A j \in 1 .. l - 1 : new[j] = IF j < i THEN list[j] ELSE list[j + 1]
  BY <1>2, RemovedAt
<1>3. ASSUME NEW i \in 1 .. l, list[i] = r
      PROVE  /\ \A j, m \in DOMAIN new : new[j] = new[m] => j = m
             /\ \A s : (\E j \in DOMAIN new : new[j] = s)
                         <=> s # r /\ \E j \in DOMAIN list : list[j] = s
             /\ \A j \in DOMAIN new : \E m \in DOMAIN list : new[j] = list[m] /\ m >= j
             /\ list[1] # r => new[1] = list[1]
  <2>1. /\ new \in Seq(Responses) /\ Len(new) = l - 1 /\ DOMAIN new = 1 .. l - 1
        /\ \A j \in 1 .. l - 1 : new[j] = IF j < i THEN list[j] ELSE list[j + 1]
    BY <1>2, <1>3
  <2> HIDE DEF new, l
  <2>2. ASSUME NEW j \in 1 .. l - 1
        PROVE  \E m \in 1 .. l : m # i /\ new[j] = list[m] /\ m = IF j < i THEN j ELSE j + 1
    BY <1>1, <2>1
  <2>6. ASSUME NEW j \in 1 .. l - 1 PROVE \E m \in DOMAIN list : new[j] = list[m] /\ m >= j
    BY <1>1, <2>2
  <2>7. ASSUME list[1] # r PROVE new[1] = list[1]
    <3>1. 1 < i /\ 1 \in 1 .. l - 1
      BY <1>1, <1>3, <2>7
    <3> QED BY <2>1, <3>1
  <2>3. ASSUME NEW j \in 1 .. l - 1, NEW m \in 1 .. l - 1, new[j] = new[m] PROVE j = m
    BY <1>1, <2>2, <2>3
  <2>4. ASSUME NEW j \in 1 .. l - 1 PROVE new[j] # r /\ \E m \in DOMAIN list : list[m] = new[j]
    BY <1>1, <1>3, <2>2
  <2>5. ASSUME NEW m \in 1 .. l, list[m] # r
        PROVE  \E j \in DOMAIN new : new[j] = list[m]
    <3>1. CASE m < i
      <4>1. m \in 1 .. l - 1
        BY <1>1, <3>1
      <4> QED BY <2>1, <3>1, <4>1
    <3>2. CASE m > i
      <4>1. m - 1 \in 1 .. l - 1 /\ ~(m - 1 < i) /\ (m - 1) + 1 = m
        BY <1>1, <3>2
      <4>2. new[m - 1] = list[m]
        BY <2>1, <4>1
      <4> QED BY <2>1, <4>1, <4>2
    <3>3. m # i
      BY <1>3, <2>5
    <3> QED BY <1>1, <3>1, <3>2, <3>3
  <2> QED BY <1>1, <2>1, <2>3, <2>4, <2>5, <2>6, <2>7
<1> HIDE DEF new
<1>4. ASSUME NEW i \in 1 .. l, list[i] = r
      PROVE  /\ new \in Seq(Responses)
             /\ \A j, m \in DOMAIN new : new[j] = new[m] => j = m
             /\ \A s : (\E j \in DOMAIN new : new[j] = s)
                         <=> s # r /\ \E j \in DOMAIN list : list[j] = s
             /\ \A j \in DOMAIN new : \E m \in DOMAIN list : new[j] = list[m] /\ m >= j
             /\ list[1] # r => new[1] = list[1]
  BY <1>2, <1>3, <1>4
<1>5. CASE \A i \in 1 .. l : list[i] # r
  <2>1. new = list
    BY <1>5 DEF RemoveFirst, new
  <2>2. \A j \in DOMAIN list : j >= j
    BY <1>1
  <2>3. list \in Seq(Responses)
    OBVIOUS
  <2> HIDE DEF new
  <2> QED BY <1>1, <1>5, <2>1, <2>2, <2>3 DEF new
<1>6. CASE \E i \in 1 .. l : list[i] = r
  BY <1>4, <1>6 DEF new
<1> QED BY <1>5, <1>6

\* The others keep their order.
LEMMA RemovedRises ==
    ASSUME NEW list \in Seq(Responses), NEW r,
           \A j, k \in DOMAIN list : list[j] = list[k] => j = k
    PROVE  \A j, k \in DOMAIN RemoveFirst(list, r) : j < k => \E l, m \in DOMAIN list :
               l < m /\ RemoveFirst(list, r)[j] = list[l] /\ RemoveFirst(list, r)[k] = list[m]
<1> DEFINE new == RemoveFirst(list, r)
<1>1. Len(list) \in Nat /\ DOMAIN list = 1 .. Len(list)
  OBVIOUS
<1>2. CASE \E i \in 1 .. Len(list) : list[i] = r
  <2>1. PICK i \in 1 .. Len(list) : list[i] = r
    BY <1>2
  <2>2. /\ new \in Seq(Responses) /\ Len(new) = Len(list) - 1
        /\ \A j \in 1 .. Len(list) - 1 : new[j] = IF j < i THEN list[j] ELSE list[j + 1]
    BY <2>1, RemovedAt
  <2> HIDE DEF new
  <2>3. DOMAIN new = 1 .. Len(list) - 1
    BY <2>2
  <2>4. ASSUME NEW j \in DOMAIN new, NEW k \in DOMAIN new, j < k
        PROVE  \E l, m \in DOMAIN list : l < m /\ new[j] = list[l] /\ new[k] = list[m]
    <3>1. j \in 1 .. Len(list) - 1 /\ k \in 1 .. Len(list) - 1
      BY <2>3
    <3>2. /\ j \in DOMAIN list /\ j + 1 \in DOMAIN list /\ k \in DOMAIN list /\ k + 1 \in DOMAIN list
          /\ j < k + 1 /\ j + 1 < k + 1
      BY <1>1, <2>4, <3>1
    <3>3. CASE k < i
      <4>1. j < i
        BY <1>1, <2>4, <3>1, <3>3
      <4> QED BY <2>2, <2>4, <3>1, <3>2, <3>3, <4>1
    <3>4. CASE j < i /\ ~(k < i)
      BY <2>2, <3>1, <3>2, <3>4
    <3>5. CASE ~(j < i)
      <4>1. ~(k < i)
        BY <1>1, <2>4, <3>1, <3>5
      <4> QED BY <2>2, <3>1, <3>2, <3>5, <4>1
    <3> QED BY <3>3, <3>4, <3>5
  <2> QED BY <2>4 DEF new
<1>3. CASE \A i \in 1 .. Len(list) : list[i] # r
  <2>1. new = list
    BY <1>3 DEF RemoveFirst
  <2> QED BY <2>1
<1> QED BY <1>2, <1>3

-----------------------------------------------------------------------------
(* The initial state *)

LEMMA InitIInv == Init => IInv
<1> SUFFICES ASSUME Init PROVE IInv
  OBVIOUS
<1>1. Typed
  <2>1. <<>> \in Seq(Responses) /\ 0 \in Nat
    OBVIOUS
  <2>2. 0 \in 0 .. MaxCrashes /\ 0 \in 0 .. MaxFaults
    BY SpoolHandoffConstants
  <2>3. NoCleaner \in Cleaner
    BY DEF NoCleaner, Cleaner
  <2> QED BY <2>1, <2>2, <2>3 DEF Init, Typed, Phases, Modes, StateRow
<1>2. Phased /\ HandoffHasBody /\ BytesReachable
  BY DEF Init, Phased, Handing, HandoffHasBody, BytesReachable, Observed
<1>3. Cleaning /\ Recovering
  BY DEF Init, Cleaning, Recovering, NoCleaner, Publishing, Resting
<1>4. Turned /\ AppliedFirst /\ Alone
  BY DEF Init, Turned, AppliedFirst, Alone, Handing
<1>5. Marked
  BY SpoolHandoffConstants DEF Init, Marked, Handing, Responses, None
<1> QED BY <1>1, <1>2, <1>3, <1>4, <1>5 DEF IInv, BInv

-----------------------------------------------------------------------------
(* What a response changes of the rows *)

\* The row of another identity is left alone; the newest only rises.
LEMMA SeenRow ==
    ASSUME Typed, NEW r \in Responses, NEW o \in Responses \cup {None}, NEW saved \in BOOLEAN,
           row' = Seen(r, o, saved)
    PROVE  /\ row' \in [Identities -> StateRow]
           /\ \A i \in Identities : i # IdentityOf[r] => row'[i] = row[i]
           /\ row'[IdentityOf[r]].marker = IF saved THEN r ELSE row[IdentityOf[r]].marker
           /\ row'[IdentityOf[r]].newest >= row[IdentityOf[r]].newest
           /\ row'[IdentityOf[r]].newest >= r
<1> DEFINE i == IdentityOf[r]
<1>1. i \in Identities /\ r \in Nat
  BY SpoolHandoffConstants DEF Responses
<1>2. row \in [Identities -> StateRow] /\ row[i] \in StateRow
  BY <1>1 DEF Typed
<1>3. row[i].newest \in Nat /\ row[i].newest \in Responses \cup {None}
  BY <1>2 DEF StateRow, Responses, None
<1> DEFINE new == [newest |-> IF r >= row[i].newest THEN r ELSE row[i].newest,
                   evidence |-> IF r >= row[i].newest THEN o ELSE row[i].evidence,
                   marker |-> IF saved THEN r ELSE row[i].marker]
<1>4. new \in StateRow
  BY <1>2 DEF StateRow
<1>5. row' = [row EXCEPT ![i] = new]
  BY DEF Seen
<1>6. new.newest >= row[i].newest /\ new.newest >= r
  BY <1>1, <1>3
<1>7. new.marker = IF saved THEN r ELSE row[i].marker
  OBVIOUS
<1> HIDE DEF new
<1>8. row'[i] = new /\ \A k \in Identities : k # i => row'[k] = row[k]
  BY <1>1, <1>2, <1>5
<1>9. row' \in [Identities -> StateRow]
  BY <1>1, <1>2, <1>4, <1>5
<1> QED BY <1>6, <1>7, <1>8, <1>9

LEMMA CompactRow ==
    ASSUME Typed, NEW r \in Responses, NEW saved \in BOOLEAN, Compact(r, saved)
    PROVE  /\ row' \in [Identities -> StateRow]
           /\ \A i \in Identities : i # IdentityOf[r] => row'[i] = row[i]
           /\ row'[IdentityOf[r]].marker = IF saved THEN r ELSE row[IdentityOf[r]].marker
           /\ row'[IdentityOf[r]].newest >= row[IdentityOf[r]].newest
           /\ row'[IdentityOf[r]].newest >= r
           /\ UNCHANGED <<evidence, processed, upload, kept, retired>>
<1>1. row[IdentityOf[r]].evidence \in Responses \cup {None}
  <2>1. IdentityOf[r] \in Identities
    BY SpoolHandoffConstants
  <2> QED BY <2>1 DEF Typed, StateRow
<1>2. row' = Seen(r, row[IdentityOf[r]].evidence, saved)
  BY DEF Compact
<1>3. UNCHANGED <<evidence, processed, upload, kept, retired>>
  BY DEF Compact
<1> QED BY <1>1, <1>2, <1>3, SeenRow

\* Stored bytes that are not archived wait for their upload.
LEMMA StoreBytes ==
    ASSUME Typed, NEW r \in Responses, Store(r)
    PROVE  /\ evidence' \in [Responses -> {"none", "unbound", "bound", "retired"}]
           /\ upload' \in [Bodies -> {"none", "pending", "complete"}]
           /\ kept' \subseteq Bodies /\ retired' \subseteq Bodies /\ processed' \subseteq Responses
           /\ \A s \in Responses : s # r => evidence'[s] = evidence[s]
           /\ \A b \in Bodies : b # BodyOf[r] => upload'[b] = upload[b]
           /\ \/ evidence'[r] = "bound" /\ upload' = upload
              \/ evidence'[r] = "unbound" /\ upload'[BodyOf[r]] = "pending"
<1> DEFINE b == BodyOf[r]
           archived == upload[b] = "complete" /\ b \notin retired
<1>1. b \in Bodies
  BY SpoolHandoffConstants
<1>2. /\ upload' = [upload EXCEPT ![b] = IF archived THEN "complete" ELSE "pending"]
      /\ evidence' = [evidence EXCEPT ![r] = IF archived THEN "bound" ELSE "unbound"]
      /\ kept' = kept \cup {b} /\ retired' = retired \ {b} /\ processed' = processed
  BY DEF Store
<1>3. /\ upload \in [Bodies -> {"none", "pending", "complete"}]
      /\ evidence \in [Responses -> {"none", "unbound", "bound", "retired"}]
      /\ kept \subseteq Bodies /\ retired \subseteq Bodies /\ processed \subseteq Responses
  BY DEF Typed
<1>4. archived => upload[b] = "complete"
  OBVIOUS
<1> HIDE DEF archived
<1>5. CASE archived
  <2>1. upload' = upload
    BY <1>1, <1>2, <1>3, <1>4, <1>5
  <2> QED BY <1>1, <1>2, <1>3, <1>5, <2>1
<1>6. CASE ~archived
  BY <1>1, <1>2, <1>3, <1>6
<1> QED BY <1>5, <1>6

\* The rows and their bytes after record_response: typed, and nothing but r
\* changes.
RowsTyped ==
    /\ row \in [Identities -> StateRow]
    /\ evidence \in [Responses -> {"none", "unbound", "bound", "retired"}]
    /\ processed \subseteq Responses
    /\ upload \in [Bodies -> {"none", "pending", "complete"}]
    /\ kept \subseteq Bodies /\ retired \subseteq Bodies
    /\ applied \in [Responses -> Nat]

\* record_response applies a response that was not applied, and recognises one
\* that was: its row names it, as long as its sidecar is there.
LEMMA RecordApplies ==
    ASSUME Typed, HandoffHasBody, BytesReachable, Marked,
           NEW r \in sidecars, NEW recovering \in BOOLEAN,
           Record(r, recovering), UNCHANGED files
    PROVE  /\ RowsTyped' /\ BytesReachable'
           /\ applied' = [applied EXCEPT ![r] = 1]
           /\ \A s \in Responses : s # r => evidence'[s] = evidence[s]
           /\ \A i \in Identities : i # IdentityOf[r] => row'[i] = row[i]
           /\ row'[IdentityOf[r]].marker = r
           /\ row'[IdentityOf[r]].newest >= row[IdentityOf[r]].newest
           /\ row'[IdentityOf[r]].newest >= r
<1> DEFINE i == IdentityOf[r]
<1>1. /\ r \in Responses /\ r \in Nat /\ r # None /\ i \in Identities /\ BodyOf[r] \in Bodies
      /\ BodyOf[r] \in files
  BY SpoolHandoffConstants DEF Typed, Responses, None, HandoffHasBody
<1>2. /\ applied \in [Responses -> Nat] /\ applied[r] \in Nat /\ applied[r] <= 1
      /\ applied[r] > 0 => row[i].marker = r
      /\ evidence[r] # "none" => applied[r] > 0
      /\ row[i].marker # None => applied[row[i].marker] > 0
      /\ applied[r] > 0 => row[i].newest >= r
  BY <1>1 DEF Typed, Marked
<1>3. Recognised(r, recovering) => applied[r] > 0
  BY <1>1, <1>2 DEF Recognised
<1>4. applied[r] > 0 => Recognised(r, recovering)
  BY <1>2 DEF Recognised
<1>5. row[i].newest \in Nat
  <2>1. row[i] \in StateRow
    BY <1>1 DEF Typed
  <2> QED BY <2>1 DEF StateRow, Responses, None
<1>6. CASE Recognised(r, recovering)
  <2>1. UNCHANGED <<tables, applied>>
    BY <1>6 DEF Record
  <2>2. /\ row' = row /\ evidence' = evidence /\ upload' = upload /\ processed' = processed
        /\ kept' = kept /\ retired' = retired /\ applied' = applied
    BY <2>1 DEF tables
  <2>3. applied[r] = 1
    BY <1>2, <1>3, <1>6
  <2>4. applied' = [applied EXCEPT ![r] = 1]
    BY <1>1, <1>2, <2>2, <2>3
  <2>5. RowsTyped'
    BY <2>2 DEF Typed, RowsTyped
  <2>6. BytesReachable'
    BY <2>2 DEF BytesReachable, Observed
  <2>7. row'[i].marker = r /\ row'[i].newest >= row[i].newest /\ row'[i].newest >= r
    BY <1>2, <1>3, <1>5, <1>6, <2>2
  <2> QED BY <2>2, <2>4, <2>5, <2>6, <2>7
<1>7. CASE ~Recognised(r, recovering)
  <2>1. /\ Compact(r, TRUE) \/ Store(r)
        /\ applied' = [applied EXCEPT ![r] = @ + 1]
    BY <1>7 DEF Record
  <2>2. applied[r] = 0
    BY <1>2, <1>4, <1>7
  <2>3. applied' = [applied EXCEPT ![r] = 1] /\ applied' \in [Responses -> Nat]
    BY <1>1, <1>2, <2>1, <2>2
  <2>4. CASE Compact(r, TRUE)
    <3>1. /\ row' \in [Identities -> StateRow]
          /\ \A k \in Identities : k # i => row'[k] = row[k]
          /\ row'[i].marker = r
          /\ row'[i].newest >= row[i].newest /\ row'[i].newest >= r
          /\ UNCHANGED <<evidence, processed, upload, kept, retired>>
      BY <1>1, <2>4, CompactRow
    <3>2. RowsTyped'
      BY <2>3, <3>1 DEF Typed, RowsTyped
    <3>3. BytesReachable'
      BY <3>1 DEF BytesReachable, Observed
    <3> QED BY <2>3, <3>1, <3>2, <3>3
  <2>5. CASE Store(r)
    <3>1. /\ evidence' \in [Responses -> {"none", "unbound", "bound", "retired"}]
          /\ upload' \in [Bodies -> {"none", "pending", "complete"}]
          /\ kept' \subseteq Bodies /\ retired' \subseteq Bodies /\ processed' \subseteq Responses
          /\ \A s \in Responses : s # r => evidence'[s] = evidence[s]
          /\ \A b \in Bodies : b # BodyOf[r] => upload'[b] = upload[b]
          /\ \/ evidence'[r] = "bound" /\ upload' = upload
             \/ evidence'[r] = "unbound" /\ upload'[BodyOf[r]] = "pending"
      BY <1>1, <2>5, StoreBytes
    <3>2. /\ row' \in [Identities -> StateRow]
          /\ \A k \in Identities : k # i => row'[k] = row[k]
          /\ row'[i].marker = r
          /\ row'[i].newest >= row[i].newest /\ row'[i].newest >= r
      <4>1. row' = Seen(r, r, TRUE)
        BY <2>5 DEF Store
      <4> QED BY <1>1, <4>1, SeenRow
    <3>3. RowsTyped'
      BY <2>3, <3>1, <3>2 DEF RowsTyped
    <3>4. BytesReachable'
      <4> SUFFICES ASSUME NEW s \in Responses, evidence'[s] = "unbound"
                   PROVE  BodyOf[s] \in files /\ upload'[BodyOf[s]] = "pending"
        BY DEF BytesReachable, Observed
      <4>1. BodyOf[s] \in Bodies
        BY SpoolHandoffConstants
      <4>2. CASE s = r
        BY <1>1, <3>1, <4>2
      <4>3. CASE s # r
        <5>1. evidence[s] = "unbound"
          BY <3>1, <4>3
        <5>2. BodyOf[s] \in files /\ upload[BodyOf[s]] = "pending"
          BY <5>1 DEF BytesReachable, Observed
        <5> QED BY <3>1, <4>1, <5>2
      <4> QED BY <4>2, <4>3
    <3> QED BY <2>3, <3>1, <3>2, <3>3, <3>4
  <2> QED BY <2>1, <2>4, <2>5
<1> QED BY <1>6, <1>7

\* What the rows say of the responses applied stays true: the marker passes from
\* a response that has no sidecar any more, or was r itself.
LEMMA RecordMarks ==
    ASSUME Typed, Phased, HandoffHasBody, BytesReachable, Marked,
           NEW r \in sidecars, NEW recovering \in BOOLEAN,
           Record(r, recovering), UNCHANGED <<files, sidecars, sighted>>,
           \A s \in sidecars : s # r /\ IdentityOf[s] = IdentityOf[r] => applied[s] = 0,
           NEW q \in {"recorded", "left"}, phase' = [phase EXCEPT ![r] = q]
    PROVE  Marked'
<1> DEFINE i == IdentityOf[r]
<1>1. r \in Responses /\ r # None /\ r \in Nat /\ i \in Identities
  BY SpoolHandoffConstants DEF Typed, Responses, None
<1>2. /\ RowsTyped'
      /\ applied' = [applied EXCEPT ![r] = 1]
      /\ \A s \in Responses : s # r => evidence'[s] = evidence[s]
      /\ \A k \in Identities : k # i => row'[k] = row[k]
      /\ row'[i].marker = r
      /\ row'[i].newest >= row[i].newest
      /\ row'[i].newest >= r
  BY RecordApplies
<1>3. /\ applied'[r] = 1 /\ \A s \in Responses : s # r => applied'[s] = applied[s]
      /\ phase'[r] = q /\ \A s \in Responses : s # r => phase'[s] = phase[s]
  BY <1>1, <1>2 DEF Typed
<1>4. ASSUME NEW s \in Responses
      PROVE  /\ applied'[s] <= 1
             /\ applied'[s] > 0 => phase'[s] \in Handing \cup {"done"}
             /\ phase'[s] = "recorded" => applied'[s] > 0
             /\ phase'[s] = "done" => applied'[s] > 0 \/ s \in sighted'
             /\ s \in sidecars' /\ applied'[s] > 0 => row'[IdentityOf[s]].marker = s
             /\ evidence'[s] # "none" => applied'[s] > 0
             /\ applied'[s] > 0 \/ s \in sighted' => row'[IdentityOf[s]].newest >= s
  <2>1. IdentityOf[s] \in Identities /\ s \in Nat
    BY SpoolHandoffConstants DEF Responses
  <2>2. CASE s = r
    BY <1>1, <1>2, <1>3, <2>2 DEF Handing
  <2>3. CASE s # r
    <3>1. /\ applied'[s] = applied[s] /\ phase'[s] = phase[s] /\ evidence'[s] = evidence[s]
          /\ sighted' = sighted /\ sidecars' = sidecars
      BY <1>2, <1>3, <2>3
    <3>2. /\ applied[s] <= 1
          /\ applied[s] > 0 => phase[s] \in Handing \cup {"done"}
          /\ phase[s] = "recorded" => applied[s] > 0
          /\ phase[s] = "done" => applied[s] > 0 \/ s \in sighted
          /\ s \in sidecars /\ applied[s] > 0 => row[IdentityOf[s]].marker = s
          /\ evidence[s] # "none" => applied[s] > 0
          /\ applied[s] > 0 \/ s \in sighted => row[IdentityOf[s]].newest >= s
      BY DEF Marked
    <3>3. s \in sidecars /\ applied[s] > 0 => IdentityOf[s] # i
      BY <2>3
    <3>4. row'[IdentityOf[s]].newest >= row[IdentityOf[s]].newest
      <4>1. row[IdentityOf[s]].newest \in Nat
        <5>1. row[IdentityOf[s]] \in StateRow
          BY <2>1 DEF Typed
        <5> QED BY <5>1 DEF StateRow, Responses, None
      <4> QED BY <1>2, <2>1, <4>1
    <3>5. row[IdentityOf[s]].newest >= s => row'[IdentityOf[s]].newest >= s
      <4>1. row[IdentityOf[s]].newest \in Nat /\ row'[IdentityOf[s]].newest \in Nat
        <5>1. row[IdentityOf[s]] \in StateRow /\ row'[IdentityOf[s]] \in StateRow
          BY <1>2, <2>1 DEF Typed, RowsTyped
        <5> QED BY <5>1 DEF StateRow, Responses, None
      <4> QED BY <2>1, <3>4, <4>1
    <3>6. s \in sidecars /\ applied[s] > 0 => row'[IdentityOf[s]].marker = s
      BY <1>2, <2>1, <3>2, <3>3
    <3> QED BY <3>1, <3>2, <3>5, <3>6
  <2> QED BY <2>2, <2>3
<1>5. ASSUME NEW k \in Identities, row'[k].marker # None PROVE applied'[row'[k].marker] > 0
  <2>1. CASE k = i
    BY <1>1, <1>2, <1>3, <2>1
  <2>2. CASE k # i
    <3>1. row[k].marker # None /\ row'[k].marker = row[k].marker
      BY <1>2, <1>5, <2>2
    <3>2. applied[row[k].marker] > 0 /\ row[k].marker \in Responses
      <4>1. row[k] \in StateRow
        BY DEF Typed
      <4> QED BY <3>1, <4>1 DEF Marked, StateRow
    <3> QED BY <1>3, <3>1, <3>2
  <2> QED BY <2>1, <2>2
<1> QED BY <1>4, <1>5 DEF Marked

-----------------------------------------------------------------------------
(* Collecting: one response goes from one phase to the next *)

\* While the process is down nothing is under way, and during restart recovery
\* nothing but its own commits.
LEMMA Running ==
    ASSUME Typed, Recovering, NEW r \in Responses, phase[r] \notin Resting,
           mode = "recovering" => phase[r] \notin {"saved", "recorded"}
    PROVE  mode \in {"running", "stopping"} /\ recovery = <<>>
<1>1. mode # "down"
  BY DEF Recovering
<1>2. ASSUME mode = "recovering" PROVE FALSE
  <2>1. \E k \in DOMAIN recovery : recovery[k] = r
    BY <1>2 DEF Recovering
  <2> QED BY <1>2, <2>1 DEF Recovering, Resting
<1>3. mode \in {"running", "stopping"}
  BY <1>1, <1>2 DEF Typed, Modes
<1> QED BY <1>3 DEF Recovering

\* A response that moves on while the collector runs, and neither gains nor
\* loses its sidecar or its turn.
LEMMA MoveKeeps ==
    ASSUME IInv, NEW r \in Responses, NEW q \in Phases, phase' = [phase EXCEPT ![r] = q],
           UNCHANGED <<sidecars, turns, known, paused, mode, recovery, cleaner, tables, history, crashes>>,
           mode \in {"running", "stopping"}, recovery = <<>>,
           files' \subseteq Bodies, files \subseteq files', faults' \in 0 .. MaxFaults,
           phase[r] \notin {"left", "done", "recorded"}, q \notin {"left", "done", "recorded"},
           phase[r] \in Handing <=> q \in Handing,
           q = "publishing" => BodyOf[r] \in files' /\ cleaner.stage = "idle",
           q = "committing" => /\ turns[IdentityOf[r]][1] = r
                               /\ \A s \in sidecars : s # r /\ IdentityOf[s] = IdentityOf[r]
                                                          => applied[s] = 0
    PROVE  IInv'
<1>0. /\ sidecars' = sidecars /\ turns' = turns /\ known' = known /\ paused' = paused
      /\ mode' = mode /\ recovery' = recovery /\ cleaner' = cleaner
      /\ row' = row /\ evidence' = evidence /\ processed' = processed /\ upload' = upload
      /\ kept' = kept /\ retired' = retired /\ applied' = applied /\ sighted' = sighted
      /\ disordered' = disordered /\ crashes' = crashes
  BY DEF tables, history
<1>1. /\ Typed /\ Phased /\ HandoffHasBody /\ BytesReachable /\ Cleaning /\ Recovering
      /\ Turned /\ AppliedFirst /\ Alone /\ Marked
  BY DEF IInv, BInv
<1>2. phase'[r] = q /\ \A s \in Responses : s # r => phase'[s] = phase[s]
  BY <1>1 DEF Typed
<1>3. Typed'
  <2>1. phase' \in [Responses -> Phases]
    BY <1>1 DEF Typed
  <2> QED BY <1>0, <1>1, <2>1 DEF Typed
<1>4. Phased'
  BY <1>0, <1>1, <1>2 DEF Phased
<1>5. HandoffHasBody' /\ BytesReachable'
  BY <1>0, <1>1 DEF HandoffHasBody, BytesReachable, Observed
<1>6. Cleaning'
  <2>1. ASSUME cleaner.stage \in {"active", "deleted"} PROVE Publishing' = {}
    BY <1>1, <1>2, <2>1 DEF Cleaning, Publishing
  <2>2. Handoffs' = Handoffs
    BY <1>0 DEF Handoffs
  <2> QED BY <1>0, <1>1, <2>1, <2>2 DEF Cleaning
<1>7. Recovering'
  BY <1>0, <1>1, <1>2 DEF Recovering
<1>8. Turned'
  BY <1>0, <1>1, <1>2 DEF Turned, Handing
<1>9. AppliedFirst'
  BY <1>0, <1>1 DEF AppliedFirst
<1>10. Alone'
  BY <1>0, <1>1, <1>2 DEF Alone
<1>11. Marked'
  BY <1>0, <1>1, <1>2 DEF Marked
<1> QED BY <1>3, <1>4, <1>5, <1>6, <1>7, <1>8, <1>9, <1>10, <1>11 DEF IInv, BInv

\* The first in turn of a collector that is not paused: the others of its identity
\* that have a sidecar wait behind it, and none of them was applied.
LEMMA FirstIsAlone ==
    ASSUME IInv, NEW r \in Responses, phase[r] = "saved", Turn(r), ~paused, mode # "recovering"
    PROVE  /\ turns[IdentityOf[r]][1] = r
           /\ \A s \in sidecars : s # r /\ IdentityOf[s] = IdentityOf[r] => applied[s] = 0
<1> DEFINE i == IdentityOf[r]
<1>1. Typed /\ Phased /\ Recovering /\ Turned /\ AppliedFirst
  BY DEF IInv, BInv
<1>2. mode \in {"running", "stopping"} /\ recovery = <<>>
  BY <1>1, Running DEF Resting
<1>3. turns[i] \in Seq(Responses) /\ i \in Identities
  BY <1>1, SpoolHandoffConstants DEF Typed
<1>4. turns[i][1] = r
  BY <1>3 DEF Turn
<1>5. ASSUME NEW s \in sidecars, s # r, IdentityOf[s] = i PROVE applied[s] = 0
  <2>1. s \in Responses /\ phase[s] \in Handing
    BY <1>1 DEF Typed, Phased
  <2>2. phase[s] # "left"
    BY <1>1, <1>2, <2>1 DEF Recovering
  <2>3. PICK k \in DOMAIN turns[i] : turns[i][k] = s
    BY <1>1, <1>2, <1>5, <2>1, <2>2 DEF Turned
  <2>4. k > 1
    BY <1>3, <1>4, <1>5, <2>3
  <2> QED BY <1>1, <1>3, <2>3, <2>4 DEF AppliedFirst
<1> QED BY <1>4, <1>5

LEMMA FetchKeeps == ASSUME IInv, NEW r \in Responses, Fetch(r) PROVE IInv'
<1>1. Typed /\ Recovering
  BY DEF IInv, BInv
<1>2. mode = "running" /\ recovery = <<>>
  BY <1>1 DEF Fetch, Recovering
<1> QED BY <1>1, <1>2, MoveKeeps DEF Fetch, Idle, disk, Phases, Handing, Typed

LEMMA CheckUnchangedKeeps == ASSUME IInv, NEW r \in Responses, CheckUnchanged(r) PROVE IInv'
<1>1. Typed /\ Recovering
  BY DEF IInv, BInv
<1>2. mode \in {"running", "stopping"} /\ recovery = <<>>
  BY <1>1, Running DEF CheckUnchanged, Resting
<1> QED BY <1>1, <1>2, MoveKeeps DEF CheckUnchanged, Idle, disk, Phases, Handing, Typed

LEMMA PublishKeeps == ASSUME IInv, NEW r \in Responses, Publish(r) PROVE IInv'
<1>1. Typed /\ Recovering
  BY DEF IInv, BInv
<1>2. mode \in {"running", "stopping"} /\ recovery = <<>>
  BY <1>1, Running DEF Publish, Resting
<1>3. BodyOf[r] \in Bodies
  BY SpoolHandoffConstants
<1>4. CASE paused
  BY <1>1, <1>2, <1>4, MoveKeeps DEF Publish, Idle, Phases, Handing, Typed
<1>5. CASE ~paused
  <2>1. files' = files \cup {BodyOf[r]} /\ cleaner.stage = "idle"
    BY <1>5 DEF Publish, PublishBody, BarrierOpen
  <2>2. files' \subseteq Bodies /\ files \subseteq files' /\ BodyOf[r] \in files'
    BY <1>1, <1>3, <2>1 DEF Typed
  <2>3. phase' = [phase EXCEPT ![r] = "publishing"]
    BY <1>5 DEF Publish
  <2>4. phase[r] \in {"fetched", "refused"} /\ faults' \in 0 .. MaxFaults
        /\ UNCHANGED <<sidecars, turns, known, paused, mode, recovery, cleaner, tables, history, crashes>>
    BY <1>1 DEF Publish, Idle, Typed
  <2> QED BY <1>1, <1>2, <2>1, <2>2, <2>3, <2>4, MoveKeeps DEF Phases, Handing
<1> QED BY <1>4, <1>5

LEMMA BeginCommitKeeps == ASSUME IInv, NEW r \in Responses, BeginCommit(r) PROVE IInv'
<1>1. Typed /\ Recovering
  BY DEF IInv, BInv
<1>2. mode \in {"running", "stopping"} /\ recovery = <<>>
  BY <1>1, Running DEF BeginCommit, Resting
<1>3. /\ turns[IdentityOf[r]][1] = r
      /\ \A s \in sidecars : s # r /\ IdentityOf[s] = IdentityOf[r] => applied[s] = 0
  BY FirstIsAlone DEF BeginCommit
<1> QED BY <1>1, <1>2, <1>3, MoveKeeps DEF BeginCommit, Idle, disk, Phases, Handing, Typed

LEMMA LockBusyKeeps == ASSUME IInv, NEW r \in Responses, LockBusy(r) PROVE IInv'
<1>1. Typed /\ Recovering
  BY DEF IInv, BInv
<1>2. mode \in {"running", "stopping"} /\ recovery = <<>>
  BY <1>1, Running DEF LockBusy, Resting
<1> QED BY <1>1, <1>2, MoveKeeps DEF LockBusy, Idle, disk, Phases, Handing, Typed

LEMMA ArrivesTyped ==
    ASSUME Typed, NEW r \in Responses, Arrives(r)
    PROVE  disordered' \subseteq Identities
<1>1. IdentityOf[r] \in Identities /\ disordered \subseteq Identities
  BY SpoolHandoffConstants DEF Typed
<1> QED BY <1>1 DEF Arrives

LEMMA NewerTyped ==
    ASSUME Typed, NEW r \in Responses, known' = Newer(IdentityOf[r], r)
    PROVE  known' \in [Identities -> Responses \cup {None}]
BY SpoolHandoffConstants DEF Typed, Newer

\* A response found unchanged is sighted: its row rises to it and keeps its marker.
LEMMA FinishCheckKeeps == ASSUME IInv, NEW r \in Responses, FinishCheck(r) PROVE IInv'
<1>1. /\ Typed /\ Phased /\ HandoffHasBody /\ BytesReachable /\ Cleaning /\ Recovering
      /\ Turned /\ AppliedFirst /\ Alone /\ Marked
  BY DEF IInv, BInv
<1>2. mode \in {"running", "stopping"} /\ recovery = <<>>
  BY <1>1, Running DEF FinishCheck, Resting
<1>3. /\ phase[r] = "checking"
      /\ UNCHANGED <<files, sidecars, turns, paused, applied, faults, mode, recovery, cleaner, crashes>>
  BY DEF FinishCheck, Idle, disk
<1>4. CASE /\ phase' = [phase EXCEPT ![r] = "refused"]
           /\ UNCHANGED <<known, tables, sighted, disordered>>
  <2>1. UNCHANGED history
    BY <1>3, <1>4 DEF history
  <2> QED BY <1>1, <1>2, <1>3, <1>4, <2>1, MoveKeeps DEF Phases, Handing, Typed
<1>5. CASE /\ Compact(r, FALSE)
           /\ phase' = [phase EXCEPT ![r] = "done"]
           /\ known' = Newer(IdentityOf[r], r)
           /\ sighted' = sighted \cup {r}
           /\ Arrives(r)
  <2> DEFINE i == IdentityOf[r]
  <2>1. /\ row' \in [Identities -> StateRow]
        /\ \A k \in Identities : k # i => row'[k] = row[k]
        /\ row'[i].marker = row[i].marker
        /\ row'[i].newest >= row[i].newest
        /\ row'[i].newest >= r
        /\ evidence' = evidence /\ processed' = processed /\ upload' = upload /\ kept' = kept
        /\ retired' = retired
    BY <1>1, <1>5, CompactRow
  <2>2. phase'[r] = "done" /\ \A s \in Responses : s # r => phase'[s] = phase[s]
    BY <1>1, <1>5 DEF Typed
  <2>3. Typed'
    <3>1. known' \in [Identities -> Responses \cup {None}] /\ disordered' \subseteq Identities
      BY <1>1, <1>5, ArrivesTyped, NewerTyped
    <3>2. phase' \in [Responses -> Phases] /\ sighted' \subseteq Responses
      BY <1>1, <1>5 DEF Typed, Phases
    <3> QED BY <1>1, <1>3, <2>1, <3>1, <3>2 DEF Typed
  <2>4. Phased' /\ HandoffHasBody' /\ BytesReachable'
    <3>1. Phased'
      BY <1>1, <1>3, <2>2 DEF Phased, Handing
    <3>2. HandoffHasBody' /\ BytesReachable'
      BY <1>1, <1>3, <2>1 DEF HandoffHasBody, BytesReachable, Observed
    <3> QED BY <3>1, <3>2
  <2>5. Cleaning' /\ Recovering'
    <3>1. cleaner.stage \in {"active", "deleted"} => Publishing' = {}
      BY <1>1, <2>2 DEF Cleaning, Publishing
    <3>2. Handoffs' = Handoffs
      BY <1>3 DEF Handoffs
    <3>3. Cleaning'
      BY <1>1, <1>3, <3>1, <3>2 DEF Cleaning
    <3>4. Recovering'
      BY <1>1, <1>2, <1>3, <2>2 DEF Recovering
    <3> QED BY <3>3, <3>4
  <2>6. Turned' /\ AppliedFirst' /\ Alone'
    <3>1. Turned'
      <4>2. \A s \in Responses : /\ phase'[s] \in Handing \ {"left"} <=> phase[s] \in Handing \ {"left"}
                                 /\ phase'[s] \in {"committing", "recorded"} => phase'[s] = phase[s]
        BY <1>3, <2>2 DEF Handing
      <4>3. \A j \in Identities : \A k \in DOMAIN turns[j] : turns[j][k] \in Responses
        BY <1>1 DEF Typed
      <4> QED BY <1>1, <1>3, <4>2, <4>3 DEF Turned
    <3>2. AppliedFirst' /\ Alone'
      BY <1>1, <1>3, <2>2 DEF AppliedFirst, Alone
    <3> QED BY <3>1, <3>2
  <2>7. Marked'
    <3>1. ASSUME NEW s \in Responses
          PROVE  /\ applied'[s] <= 1
                 /\ applied'[s] > 0 => phase'[s] \in Handing \cup {"done"}
                 /\ phase'[s] = "recorded" => applied'[s] > 0
                 /\ phase'[s] = "done" => applied'[s] > 0 \/ s \in sighted'
                 /\ s \in sidecars' /\ applied'[s] > 0 => row'[IdentityOf[s]].marker = s
                 /\ evidence'[s] # "none" => applied'[s] > 0
                 /\ applied'[s] > 0 \/ s \in sighted' => row'[IdentityOf[s]].newest >= s
      <4>1. IdentityOf[s] \in Identities /\ s \in Nat /\ row'[IdentityOf[s]].marker = row[IdentityOf[s]].marker
        BY <2>1, SpoolHandoffConstants DEF Responses
      <4>2. row[IdentityOf[s]].newest \in Nat /\ row'[IdentityOf[s]].newest \in Nat
        <5>1. row[IdentityOf[s]] \in StateRow /\ row'[IdentityOf[s]] \in StateRow
          BY <1>1, <2>1, <4>1 DEF Typed
        <5> QED BY <5>1 DEF StateRow, Responses, None
      <4>3. row'[IdentityOf[s]].newest >= row[IdentityOf[s]].newest
        BY <2>1, <4>1, <4>2
      <4>4. s = r => row'[IdentityOf[s]].newest >= s
        BY <2>1
      <4>5. row[IdentityOf[s]].newest >= s => row'[IdentityOf[s]].newest >= s
        BY <4>1, <4>2, <4>3
      <4>6. /\ applied[s] <= 1
            /\ applied[s] > 0 => phase[s] \in Handing \cup {"done"}
            /\ phase[s] = "recorded" => applied[s] > 0
            /\ phase[s] = "done" => applied[s] > 0 \/ s \in sighted
            /\ s \in sidecars /\ applied[s] > 0 => row[IdentityOf[s]].marker = s
            /\ evidence[s] # "none" => applied[s] > 0
            /\ applied[s] > 0 \/ s \in sighted => row[IdentityOf[s]].newest >= s
        BY <1>1 DEF Marked
      <4> QED BY <1>3, <1>5, <2>1, <2>2, <4>1, <4>4, <4>5, <4>6 DEF Handing
    <3>2. ASSUME NEW k \in Identities, row'[k].marker # None PROVE applied'[row'[k].marker] > 0
      <4>1. row'[k].marker = row[k].marker
        BY <2>1
      <4> QED BY <1>1, <1>3, <3>2, <4>1 DEF Marked
    <3> QED BY <3>1, <3>2 DEF Marked
  <2> QED BY <2>3, <2>4, <2>5, <2>6, <2>7 DEF IInv, BInv
<1> QED BY <1>4, <1>5 DEF FinishCheck

\* The sidecar of a response that was never applied, behind the others.
LEMMA WriteSidecarKeeps == ASSUME IInv, NEW r \in Responses, WriteSidecar(r) PROVE IInv'
<1>1. /\ Typed /\ Phased /\ HandoffHasBody /\ BytesReachable /\ Cleaning /\ Recovering
      /\ Turned /\ AppliedFirst /\ Alone /\ Marked
  BY DEF IInv, BInv
<1>2. mode \in {"running", "stopping"} /\ recovery = <<>>
  BY <1>1, Running DEF WriteSidecar, Resting
<1>3. /\ phase[r] = "publishing"
      /\ UNCHANGED <<files, known, tables, applied, sighted, mode, recovery, cleaner, crashes>>
  BY DEF WriteSidecar, Idle
<1>4. CASE /\ faults < MaxFaults /\ faults' = faults + 1
           /\ phase' = [phase EXCEPT ![r] = "lost"]
           /\ UNCHANGED <<sidecars, paused, disordered, turns>>
  <2>1. UNCHANGED history
    BY <1>3, <1>4 DEF history
  <2>2. faults' \in 0 .. MaxFaults /\ files' \subseteq Bodies /\ files \subseteq files'
    BY <1>1, <1>3, <1>4, SpoolHandoffConstants DEF Typed
  <2> QED BY <1>1, <1>2, <1>3, <1>4, <2>1, <2>2, MoveKeeps DEF Phases, Handing
<1>5. ASSUME NEW q \in {"saved", "left"}, phase' = [phase EXCEPT ![r] = q],
             sidecars' = sidecars \cup {r}, Arrives(r), faults' \in 0 .. MaxFaults,
             \/ q = "saved" /\ turns' = [turns EXCEPT ![IdentityOf[r]] = Append(@, r)] /\ paused' = paused
             \/ q = "left" /\ turns' = turns /\ paused' = TRUE
      PROVE  IInv'
  <2> DEFINE i == IdentityOf[r]
  <2>0. /\ files' = files /\ known' = known /\ row' = row /\ evidence' = evidence
        /\ processed' = processed /\ upload' = upload /\ kept' = kept /\ retired' = retired
        /\ applied' = applied /\ sighted' = sighted /\ mode' = mode /\ recovery' = recovery
        /\ cleaner' = cleaner /\ crashes' = crashes
    BY <1>3 DEF tables
  <2>1. phase'[r] = q /\ \A s \in Responses : s # r => phase'[s] = phase[s]
    BY <1>1, <1>5 DEF Typed
  <2>2. applied[r] = 0 /\ BodyOf[r] \in files /\ r \notin sidecars
    <3>1. applied[r] \in Nat /\ ~(applied[r] > 0)
      BY <1>1, <1>3 DEF Marked, Typed, Handing
    <3>2. BodyOf[r] \in files /\ r \notin sidecars
      BY <1>1, <1>3 DEF Phased, Handing
    <3> QED BY <3>1, <3>2
  <2>3. /\ i \in Identities /\ turns[i] \in Seq(Responses)
        /\ DOMAIN turns[i] = 1 .. Len(turns[i]) /\ Len(turns[i]) \in Nat
    BY <1>1, SpoolHandoffConstants DEF Typed
  <2>4. ASSUME q = "saved"
        PROVE  /\ turns'[i] \in Seq(Responses) /\ Len(turns'[i]) = Len(turns[i]) + 1
               /\ DOMAIN turns'[i] = 1 .. Len(turns[i]) + 1
               /\ turns'[i][Len(turns[i]) + 1] = r
               /\ \A k \in DOMAIN turns[i] : turns'[i][k] = turns[i][k]
               /\ \A k \in Identities : k # i => turns'[k] = turns[k]
               /\ turns' \in [Identities -> Seq(Responses)]
    <3>1. turns'[i] = Append(turns[i], r) /\ \A k \in Identities : k # i => turns'[k] = turns[k]
      BY <1>1, <1>5, <2>3, <2>4 DEF Typed
    <3>2. Append(turns[i], r) \in Seq(Responses)
      BY <2>3
    <3>3. turns' \in [Identities -> Seq(Responses)]
      BY <1>1, <1>5, <2>3, <2>4, <3>2 DEF Typed
    <3> QED BY <2>3, <3>1, <3>2, <3>3
  <2>5. Typed'
    <3>1. phase' \in [Responses -> Phases] /\ disordered' \subseteq Identities
      BY <1>1, <1>5, ArrivesTyped DEF Typed, Phases
    <3>2. turns' \in [Identities -> Seq(Responses)]
      BY <1>1, <1>5, <2>4 DEF Typed
    <3>3. paused' \in BOOLEAN /\ sidecars' \subseteq Responses
      BY <1>1, <1>5 DEF Typed
    <3> QED BY <1>1, <1>5, <2>0, <3>1, <3>2, <3>3 DEF Typed
  <2>6. Phased' /\ HandoffHasBody' /\ BytesReachable'
    <3>1. Phased'
      BY <1>1, <1>5, <2>0, <2>1 DEF Phased, Handing
    <3>2. HandoffHasBody' /\ BytesReachable'
      BY <1>1, <1>5, <2>0, <2>2 DEF HandoffHasBody, BytesReachable, Observed
    <3> QED BY <3>1, <3>2
  <2>7. Cleaning' /\ Recovering'
    <3>1. cleaner.stage \notin {"active", "deleted"}
      BY <1>1, <1>3 DEF Cleaning, Publishing
    <3>2. Cleaning'
      BY <1>1, <2>0, <3>1 DEF Cleaning
    <3>3. Recovering'
      BY <1>1, <1>2, <1>5, <2>0, <2>1 DEF Recovering
    <3> QED BY <3>2, <3>3
  <2>8. Turned'
    <3>1. CASE q = "left"
      <4>1. turns' = turns
        BY <1>5, <3>1
      <4>2. \A s \in Responses : /\ phase'[s] \in Handing \ {"left"} <=> phase[s] \in Handing \ {"left"}
                                 /\ phase'[s] \in {"committing", "recorded"} => phase'[s] = phase[s]
        BY <1>3, <2>1, <3>1 DEF Handing
      <4>3. \A j \in Identities : \A k \in DOMAIN turns[j] : turns[j][k] \in Responses
        BY <1>1 DEF Typed
      <4> QED BY <1>1, <2>0, <4>1, <4>2, <4>3 DEF Turned
    <3>2. CASE q = "saved"
      <4>1. ASSUME NEW k \in DOMAIN turns'[i]
            PROVE  \/ k \in DOMAIN turns[i] /\ turns'[i][k] = turns[i][k]
                   \/ k = Len(turns[i]) + 1 /\ turns'[i][k] = r
        BY <2>3, <2>4, <3>2
      <4>2. \A k \in DOMAIN turns[i] : turns[i][k] # r
        BY <1>1, <1>3, <2>3 DEF Turned, Handing
      <4>3. ASSUME NEW j \in Identities
            PROVE  /\ \A k \in DOMAIN turns'[j] :
                        /\ IdentityOf[turns'[j][k]] = j
                        /\ phase'[turns'[j][k]] \in Handing \ {"left"} /\ recovery' = <<>>
                   /\ \A k, l \in DOMAIN turns'[j] : turns'[j][k] = turns'[j][l] => k = l
        <5>1. CASE j = i
          <6>1. \A k \in DOMAIN turns[i] : turns[i][k] \in Responses
            BY <2>3
          <6>2. ASSUME NEW k \in DOMAIN turns'[i]
                PROVE  /\ IdentityOf[turns'[i][k]] = i
                       /\ phase'[turns'[i][k]] \in Handing \ {"left"} /\ recovery' = <<>>
            BY <1>1, <1>2, <2>0, <2>1, <2>3, <3>2, <4>1, <4>2, <6>1 DEF Turned, Handing
          <6>3. ASSUME NEW k \in DOMAIN turns'[i], NEW l \in DOMAIN turns'[i], turns'[i][k] = turns'[i][l]
                PROVE  k = l
            BY <1>1, <2>3, <4>1, <4>2, <6>3 DEF Turned
          <6> QED BY <5>1, <6>2, <6>3
        <5>2. CASE j # i
          <6>1. turns'[j] = turns[j] /\ turns[j] \in Seq(Responses)
            BY <1>1, <2>4, <3>2, <5>2 DEF Typed
          <6>2. \A k \in DOMAIN turns[j] : turns[j][k] # r /\ turns[j][k] \in Responses
            BY <1>1, <5>2, <6>1 DEF Turned
          <6> QED BY <1>1, <2>0, <2>1, <6>1, <6>2 DEF Turned
        <5> QED BY <5>1, <5>2
      <4>4. ASSUME NEW s \in Responses
            PROVE  /\ phase'[s] \in Handing \ {"left"} /\ recovery' = <<>> =>
                          \E k \in DOMAIN turns'[IdentityOf[s]] : turns'[IdentityOf[s]][k] = s
                   /\ phase'[s] \in {"committing", "recorded"} /\ recovery' = <<>> =>
                          turns'[IdentityOf[s]][1] = s
        <5>0. IdentityOf[s] \in Identities
          BY SpoolHandoffConstants
        <5>1. CASE s = r
          <6>1. Len(turns[i]) + 1 \in DOMAIN turns'[i] /\ turns'[i][Len(turns[i]) + 1] = r
            BY <2>3, <2>4, <3>2
          <6>2. phase'[s] = "saved"
            BY <2>1, <3>2, <5>1
          <6> QED BY <5>1, <6>1, <6>2
        <5>2. CASE s # r /\ phase[s] \in Handing \ {"left"}
          <6>1. PICK k \in DOMAIN turns[IdentityOf[s]] : turns[IdentityOf[s]][k] = s
            BY <1>1, <1>2, <5>2 DEF Turned
          <6>2. k \in DOMAIN turns'[IdentityOf[s]] /\ turns'[IdentityOf[s]][k] = s
            <7>1. CASE IdentityOf[s] = i
              <8>1. k \in DOMAIN turns[i] /\ turns'[i][k] = turns[i][k]
                BY <2>4, <3>2, <6>1, <7>1
              <8>2. k \in DOMAIN turns'[i]
                BY <2>3, <2>4, <3>2, <8>1
              <8> QED BY <6>1, <7>1, <8>1, <8>2
            <7>2. CASE IdentityOf[s] # i
              BY <2>4, <3>2, <5>0, <6>1, <7>2
            <7> QED BY <7>1, <7>2
          <6>3. phase[s] \in {"committing", "recorded"} => turns[IdentityOf[s]][1] = s
            BY <1>1, <1>2 DEF Turned
          <6>4. turns'[IdentityOf[s]][1] = turns[IdentityOf[s]][1]
            <7>1. CASE IdentityOf[s] = i
              <8>1. 1 \in DOMAIN turns[i]
                BY <2>3, <6>1, <7>1
              <8> QED BY <2>4, <3>2, <7>1, <8>1
            <7>2. CASE IdentityOf[s] # i
              BY <2>4, <3>2, <5>0, <7>2
            <7> QED BY <7>1, <7>2
          <6> QED BY <2>1, <5>2, <6>2, <6>3, <6>4
        <5>3. CASE s # r /\ phase[s] \notin Handing \ {"left"}
          BY <2>1, <5>3 DEF Handing
        <5> QED BY <5>1, <5>2, <5>3
      <4> QED BY <4>3, <4>4 DEF Turned
    <3> QED BY <3>1, <3>2
  <2>9. AppliedFirst'
    <3>1. ASSUME NEW j \in Identities, NEW k \in DOMAIN turns'[j], k > 1
          PROVE  applied'[turns'[j][k]] = 0
      <4>1. CASE k \in DOMAIN turns[j] /\ turns'[j][k] = turns[j][k]
        BY <1>1, <2>0, <3>1, <4>1 DEF AppliedFirst
      <4>2. CASE q = "saved" /\ j = i /\ turns'[j][k] = r
        BY <2>0, <2>2, <4>2
      <4>3. q = "left" => turns' = turns
        BY <1>5
      <4>4. q = "saved" /\ j = i => k \in DOMAIN turns[i] \/ k = Len(turns[i]) + 1
        BY <2>3, <2>4
      <4> QED BY <1>5, <2>4, <4>1, <4>2, <4>3, <4>4
    <3>2. \A j, k \in DOMAIN recovery' :
            j < k /\ IdentityOf[recovery'[j]] = IdentityOf[recovery'[k]] => applied'[recovery'[k]] = 0
      BY <1>1, <2>0 DEF AppliedFirst
    <3> QED BY <3>1, <3>2 DEF AppliedFirst
  <2>10. Alone'
    BY <1>1, <1>5, <2>0, <2>1, <2>2 DEF Alone
  <2>11. Marked'
    BY <1>1, <1>3, <1>5, <2>0, <2>1, <2>2 DEF Marked, Handing
  <2> QED BY <2>5, <2>6, <2>7, <2>8, <2>9, <2>10, <2>11 DEF IInv, BInv
<1>6. faults \in 0 .. MaxFaults /\ (faults < MaxFaults /\ faults' = faults + 1 => faults' \in 0 .. MaxFaults)
  BY <1>1, SpoolHandoffConstants DEF Typed
<1>7. CASE /\ sidecars' = sidecars \cup {r}
           /\ turns' = [turns EXCEPT ![IdentityOf[r]] = Append(@, r)]
           /\ phase' = [phase EXCEPT ![r] = "saved"]
           /\ Arrives(r)
           /\ UNCHANGED <<paused, faults>>
  BY <1>5, <1>6, <1>7
<1>8. CASE /\ faults < MaxFaults /\ faults' = faults + 1
           /\ phase' = [phase EXCEPT ![r] = "left"]
           /\ sidecars' = sidecars \cup {r} /\ paused' = TRUE
           /\ Arrives(r) /\ UNCHANGED turns
  BY <1>5, <1>6, <1>8
<1> QED BY <1>4, <1>7, <1>8 DEF WriteSidecar

-----------------------------------------------------------------------------
(* Committing, and settling a response *)

LEMMA CommitResponseKeeps == ASSUME IInv, NEW r \in Responses, CommitResponse(r) PROVE IInv'
<1>1. /\ Typed /\ Phased /\ HandoffHasBody /\ BytesReachable /\ Cleaning /\ Recovering
      /\ Turned /\ AppliedFirst /\ Alone /\ Marked
  BY DEF IInv, BInv
<1>2. mode \in {"running", "stopping"} /\ recovery = <<>>
  BY <1>1, Running DEF CommitResponse, Resting
<1>3. /\ phase[r] = "committing" /\ Record(r, FALSE)
      /\ phase' = [phase EXCEPT ![r] = "recorded"]
      /\ known' = Newer(IdentityOf[r], r)
      /\ files' = files /\ sidecars' = sidecars /\ turns' = turns /\ paused' = paused
      /\ sighted' = sighted /\ disordered' = disordered /\ faults' = faults
      /\ mode' = mode /\ recovery' = recovery /\ cleaner' = cleaner /\ crashes' = crashes
  BY DEF CommitResponse, Idle, disk
<1>4. r \in sidecars
  BY <1>1, <1>3 DEF Phased, Handing
<1>5. RowsTyped' /\ BytesReachable' /\ applied' = [applied EXCEPT ![r] = 1]
  BY <1>1, <1>3, <1>4, RecordApplies
<1>6. \A s \in sidecars : s # r /\ IdentityOf[s] = IdentityOf[r] => applied[s] = 0
  BY <1>1, <1>3 DEF Alone, Typed
<1>7. Marked'
  <2>1. phase' = [phase EXCEPT ![r] = "recorded"] /\ "recorded" \in {"recorded", "left"}
    BY <1>3
  <2>2. UNCHANGED <<files, sidecars, sighted>>
    BY <1>3
  <2> QED BY <1>1, <1>3, <1>4, <1>6, <2>1, <2>2, RecordMarks
<1>8. /\ phase'[r] = "recorded" /\ \A s \in Responses : s # r => phase'[s] = phase[s]
      /\ \A s \in Responses : s # r => applied'[s] = applied[s]
  BY <1>1, <1>3, <1>5 DEF Typed
<1>9. Typed'
  <2>1. known' \in [Identities -> Responses \cup {None}]
    BY <1>1, <1>3, NewerTyped
  <2>2. phase' \in [Responses -> Phases]
    BY <1>1, <1>3 DEF Typed, Phases
  <2> QED BY <1>1, <1>3, <1>5, <2>1, <2>2 DEF Typed, RowsTyped
<1>10. Phased' /\ HandoffHasBody'
  BY <1>1, <1>3, <1>8 DEF Phased, HandoffHasBody, Handing
<1>11. Cleaning' /\ Recovering'
  <2>1. cleaner.stage \in {"active", "deleted"} => Publishing' = {}
    BY <1>1, <1>8 DEF Cleaning, Publishing
  <2>2. Handoffs' = Handoffs
    BY <1>3 DEF Handoffs
  <2>3. Cleaning'
    BY <1>1, <1>3, <2>1, <2>2 DEF Cleaning
  <2>4. Recovering'
    BY <1>1, <1>2, <1>3, <1>8 DEF Recovering
  <2> QED BY <2>3, <2>4
<1>12. Turned'
  <2>1. \A s \in Responses : /\ phase'[s] \in Handing \ {"left"} <=> phase[s] \in Handing \ {"left"}
                             /\ phase'[s] \in {"committing", "recorded"} => phase[s] \in {"committing", "recorded"}
    BY <1>3, <1>8 DEF Handing
  <2>2. \A j \in Identities : \A k \in DOMAIN turns[j] : turns[j][k] \in Responses
    BY <1>1 DEF Typed
  <2> QED BY <1>1, <1>3, <2>1, <2>2 DEF Turned
<1>13. AppliedFirst'
  <2>1. ASSUME NEW j \in Identities, NEW k \in DOMAIN turns[j], k > 1 PROVE applied'[turns[j][k]] = 0
    <3>1. turns[j] \in Seq(Responses) /\ turns[j][k] \in Responses /\ 1 \in DOMAIN turns[j] /\ k # 1
      <4>1. turns[j] \in Seq(Responses)
        BY <1>1 DEF Typed
      <4> QED BY <2>1, <4>1
    <3>2. turns[j][k] # r
      <4> SUFFICES ASSUME turns[j][k] = r PROVE FALSE
        OBVIOUS
      <4>1. IdentityOf[r] = j
        BY <1>1 DEF Turned
      <4>2. turns[j][1] = r
        BY <1>1, <1>2, <1>3, <4>1 DEF Turned
      <4> QED BY <1>1, <3>1, <4>2 DEF Turned
    <3> QED BY <1>1, <1>8, <2>1, <3>1, <3>2 DEF AppliedFirst
  <2> QED BY <1>2, <1>3, <2>1 DEF AppliedFirst
<1>14. Alone'
  <2> SUFFICES ASSUME NEW t \in Responses, NEW s \in Responses, phase'[t] = "committing",
                      s \in sidecars', s # t, IdentityOf[s] = IdentityOf[t]
               PROVE  applied'[s] = 0
    BY DEF Alone
  <2>1. t # r /\ phase[t] = "committing"
    BY <1>8
  <2>2. s # r
    BY <1>1, <1>2, <1>3, <2>1 DEF Turned
  <2> QED BY <1>1, <1>3, <1>8, <2>1, <2>2 DEF Alone
<1> QED BY <1>5, <1>7, <1>9, <1>10, <1>11, <1>12, <1>13, <1>14 DEF IInv, BInv

\* The next of the identity has its turn; what was behind the first still is.
LEMMA SettleTurns ==
    ASSUME Typed, Turned, AppliedFirst, recovery = <<>>, recovery' = recovery,
           NEW r \in Responses, NEW q \in {"left", "done"}, Settle(r, q),
           \A s \in Responses : s # r => applied'[s] = applied[s]
    PROVE  /\ Turned' /\ AppliedFirst' /\ turns' \in [Identities -> Seq(Responses)]
           /\ phase' \in [Responses -> Phases]
           /\ phase'[r] = q /\ \A s \in Responses : s # r => phase'[s] = phase[s]
<1> DEFINE i == IdentityOf[r]
           new == RemoveFirst(turns[i], r)
<1>1. i \in Identities /\ turns[i] \in Seq(Responses) /\ DOMAIN turns[i] = 1 .. Len(turns[i])
  BY SpoolHandoffConstants DEF Typed
<1>2. \A j, k \in DOMAIN turns[i] : turns[i][j] = turns[i][k] => j = k
  BY <1>1 DEF Turned
<1>3. /\ new \in Seq(Responses)
      /\ \A j, k \in DOMAIN new : new[j] = new[k] => j = k
      /\ \A s : (\E j \in DOMAIN new : new[j] = s)
                  <=> s # r /\ \E j \in DOMAIN turns[i] : turns[i][j] = s
      /\ \A j \in DOMAIN new : \E m \in DOMAIN turns[i] : new[j] = turns[i][m] /\ m >= j
      /\ turns[i] # <<>> /\ turns[i][1] # r => new[1] = turns[i][1]
  BY <1>1, <1>2, RemovedFromTurns
<1>4. turns' = [turns EXCEPT ![i] = new] /\ phase' = [phase EXCEPT ![r] = q]
  BY DEF Settle
<1> HIDE DEF new
<1>5. turns'[i] = new /\ \A j \in Identities : j # i => turns'[j] = turns[j]
  BY <1>1, <1>4 DEF Typed
<1>6. phase'[r] = q /\ \A s \in Responses : s # r => phase'[s] = phase[s]
  BY <1>4 DEF Typed
<1>7. phase' \in [Responses -> Phases] /\ turns' \in [Identities -> Seq(Responses)]
  BY <1>1, <1>3, <1>4 DEF Typed, Phases
<1>8. ASSUME NEW j \in Identities
      PROVE  /\ \A k \in DOMAIN turns'[j] :
                  /\ IdentityOf[turns'[j][k]] = j
                  /\ phase'[turns'[j][k]] \in Handing \ {"left"} /\ recovery' = <<>>
             /\ \A k, l \in DOMAIN turns'[j] : turns'[j][k] = turns'[j][l] => k = l
  <2>1. \A k \in DOMAIN turns[j] : /\ IdentityOf[turns[j][k]] = j
                                   /\ phase[turns[j][k]] \in Handing \ {"left"}
                                   /\ turns[j][k] \in Responses
    BY DEF Turned, Typed
  <2>2. CASE j = i
    <3>1. ASSUME NEW k \in DOMAIN new
          PROVE  IdentityOf[new[k]] = i /\ phase'[new[k]] \in Handing \ {"left"} /\ recovery' = <<>>
      <4>1. PICK m \in DOMAIN turns[i] : turns[i][m] = new[k]
        BY <1>3
      <4>2. new[k] # r
        BY <1>3
      <4> QED BY <1>6, <2>1, <2>2, <4>1, <4>2
    <3> QED BY <1>3, <1>5, <2>2, <3>1
  <2>3. CASE j # i
    <3>1. \A k \in DOMAIN turns[j] : turns[j][k] # r
      BY <2>1, <2>3
    <3>2. \A k, l \in DOMAIN turns[j] : turns[j][k] = turns[j][l] => k = l
      BY DEF Turned
    <3> QED BY <1>5, <1>6, <2>1, <2>3, <3>1, <3>2
  <2> QED BY <2>2, <2>3
<1>9. ASSUME NEW s \in Responses
      PROVE  /\ phase'[s] \in Handing \ {"left"} /\ recovery' = <<>> =>
                    \E k \in DOMAIN turns'[IdentityOf[s]] : turns'[IdentityOf[s]][k] = s
             /\ phase'[s] \in {"committing", "recorded"} /\ recovery' = <<>> =>
                    turns'[IdentityOf[s]][1] = s
  <2>0. IdentityOf[s] \in Identities
    BY SpoolHandoffConstants
  <2>1. CASE s = r
    BY <1>6, <2>1 DEF Handing
  <2>2. CASE s # r
    <3>1. phase'[s] = phase[s]
      BY <1>6, <2>2
    <3>2. /\ phase[s] \in Handing \ {"left"} => \E k \in DOMAIN turns[IdentityOf[s]] : turns[IdentityOf[s]][k] = s
          /\ phase[s] \in {"committing", "recorded"} => turns[IdentityOf[s]][1] = s
      BY DEF Turned
    <3>3. CASE IdentityOf[s] = i
      <4>1. phase[s] \in Handing \ {"left"} => \E k \in DOMAIN new : new[k] = s
        BY <1>3, <2>2, <3>2, <3>3
      <4>2. ASSUME phase[s] \in {"committing", "recorded"} PROVE new[1] = s
        <5>1. turns[i][1] = s /\ turns[i] # <<>>
          BY <3>2, <3>3, <4>2 DEF Handing
        <5> QED BY <1>3, <2>2, <5>1
      <4> QED BY <1>5, <3>1, <3>3, <4>1, <4>2
    <3>4. CASE IdentityOf[s] # i
      BY <1>5, <2>0, <3>1, <3>2, <3>4
    <3> QED BY <3>3, <3>4
  <2> QED BY <2>1, <2>2
<1>10. ASSUME NEW j \in Identities, NEW k \in DOMAIN turns'[j], k > 1
       PROVE  applied'[turns'[j][k]] = 0
  <2>1. \A m \in DOMAIN turns[j] : turns[j][m] \in Responses /\ IdentityOf[turns[j][m]] = j
    BY DEF Turned, Typed
  <2>2. CASE j = i
    <3>1. PICK m \in DOMAIN turns[i] : new[k] = turns[i][m] /\ m >= k
      BY <1>3, <1>5, <2>2
    <3>2. m > 1 /\ new[k] # r
      <4>1. k \in Nat /\ m \in Nat
        BY <1>1, <1>3, <1>5, <2>2
      <4>2. new[k] # r
        BY <1>3, <1>5, <2>2
      <4> QED BY <1>10, <3>1, <4>1, <4>2
    <3>3. applied[turns[i][m]] = 0
      BY <1>1, <3>2 DEF AppliedFirst
    <3> QED BY <1>5, <2>1, <2>2, <3>1, <3>2, <3>3
  <2>3. CASE j # i
    <3>1. turns'[j] = turns[j] /\ turns[j][k] # r
      BY <1>5, <2>1, <2>3
    <3> QED BY <1>10, <2>1, <3>1 DEF AppliedFirst
  <2> QED BY <2>2, <2>3
<1>11. Turned'
  BY <1>8, <1>9 DEF Turned
<1>12. AppliedFirst'
  BY <1>10 DEF AppliedFirst
<1> QED BY <1>6, <1>7, <1>11, <1>12

\* A response settled without a commit in the step: its sidecar waits for restart
\* recovery, or its commit is known and the sidecar goes.
LEMMA SettledKeeps ==
    ASSUME IInv, NEW r \in Responses, NEW q \in {"left", "done"}, Settle(r, q),
           mode \in {"running", "stopping"}, recovery = <<>>,
           UNCHANGED <<files, known, tables, history, mode, recovery, cleaner, crashes>>,
           faults' \in 0 .. MaxFaults, phase[r] \in Handing \ {"left"},
           \/ q = "left" /\ sidecars' = sidecars /\ paused' = TRUE
           \/ q = "done" /\ phase[r] = "recorded" /\ sidecars' = sidecars \ {r} /\ paused' = paused
    PROVE  IInv'
<1>1. /\ Typed /\ Phased /\ HandoffHasBody /\ BytesReachable /\ Cleaning /\ Recovering
      /\ Turned /\ AppliedFirst /\ Alone /\ Marked
  BY DEF IInv, BInv
<1>2. /\ files' = files /\ known' = known /\ mode' = mode /\ recovery' = recovery
      /\ cleaner' = cleaner /\ crashes' = crashes
      /\ row' = row /\ evidence' = evidence /\ processed' = processed /\ upload' = upload
      /\ kept' = kept /\ retired' = retired /\ applied' = applied /\ sighted' = sighted
      /\ disordered' = disordered
  BY DEF tables, history
<1>3. /\ Turned' /\ AppliedFirst' /\ turns' \in [Identities -> Seq(Responses)]
      /\ phase' \in [Responses -> Phases]
      /\ phase'[r] = q /\ \A s \in Responses : s # r => phase'[s] = phase[s]
  BY <1>1, <1>2, SettleTurns
<1>4. Typed'
  <2>1. sidecars' \subseteq Responses /\ paused' \in BOOLEAN
    BY <1>1 DEF Typed
  <2> QED BY <1>1, <1>2, <1>3, <2>1 DEF Typed
<1>5. Phased'
  BY <1>1, <1>2, <1>3 DEF Phased, Handing
<1>6. HandoffHasBody' /\ BytesReachable'
  BY <1>1, <1>2 DEF HandoffHasBody, BytesReachable, Observed
<1>7. Cleaning' /\ Recovering'
  <2>1. cleaner.stage \in {"active", "deleted"} => Publishing' = {}
    BY <1>1, <1>3 DEF Cleaning, Publishing
  <2>2. Handoffs' \subseteq Handoffs
    BY DEF Handoffs
  <2>3. Cleaning'
    BY <1>1, <1>2, <2>1, <2>2 DEF Cleaning
  <2>4. Recovering'
    BY <1>1, <1>2, <1>3 DEF Recovering
  <2> QED BY <2>3, <2>4
<1>8. Alone'
  BY <1>1, <1>2, <1>3 DEF Alone
<1>9. Marked'
  BY <1>1, <1>2, <1>3 DEF Marked, Handing
<1> QED BY <1>3, <1>4, <1>5, <1>6, <1>7, <1>8, <1>9 DEF IInv, BInv

LEMMA RemoveSidecarKeeps == ASSUME IInv, NEW r \in Responses, RemoveSidecar(r) PROVE IInv'
<1>1. Typed /\ Recovering
  BY DEF IInv, BInv
<1>2. mode \in {"running", "stopping"} /\ recovery = <<>>
  BY <1>1, Running DEF RemoveSidecar, Resting
<1>3. /\ phase[r] = "recorded" /\ phase[r] \in Handing \ {"left"}
      /\ UNCHANGED <<files, known, tables, history, mode, recovery, cleaner, crashes>>
  BY DEF RemoveSidecar, Idle, Handing
<1>4. faults \in 0 .. MaxFaults /\ (faults < MaxFaults /\ faults' = faults + 1 => faults' \in 0 .. MaxFaults)
  BY <1>1, SpoolHandoffConstants DEF Typed
<1>5. CASE sidecars' = sidecars \ {r} /\ Settle(r, "done") /\ UNCHANGED <<paused, faults>>
  BY <1>2, <1>3, <1>4, <1>5, SettledKeeps
<1>6. CASE /\ faults < MaxFaults /\ faults' = faults + 1
           /\ Settle(r, "left") /\ paused' = TRUE /\ UNCHANGED sidecars
  BY <1>2, <1>3, <1>4, <1>6, SettledKeeps
<1> QED BY <1>5, <1>6 DEF RemoveSidecar

LEMMA LeaveSavedKeeps == ASSUME IInv, NEW r \in Responses, LeaveSaved(r) PROVE IInv'
<1>1. Typed /\ Recovering
  BY DEF IInv, BInv
<1>2. mode # "recovering"
  BY <1>1 DEF LeaveSaved, Recovering
<1>3. mode \in {"running", "stopping"} /\ recovery = <<>>
  BY <1>1, <1>2, Running DEF LeaveSaved, Resting
<1>4. /\ phase[r] \in Handing \ {"left"} /\ Settle(r, "left") /\ paused' = TRUE /\ sidecars' = sidecars
      /\ UNCHANGED <<files, known, tables, history, mode, recovery, cleaner, crashes>>
      /\ faults' \in 0 .. MaxFaults
  BY <1>1 DEF LeaveSaved, Idle, disk, Handing, Typed
<1> QED BY <1>3, <1>4, SettledKeeps

LEMMA CommitFailsKeeps == ASSUME IInv, NEW r \in Responses, CommitFails(r) PROVE IInv'
<1>1. /\ Typed /\ Phased /\ HandoffHasBody /\ BytesReachable /\ Cleaning /\ Recovering
      /\ Turned /\ AppliedFirst /\ Alone /\ Marked
  BY DEF IInv, BInv
<1>2. mode \in {"running", "stopping"} /\ recovery = <<>>
  BY <1>1, Running DEF CommitFails, Resting
<1>3. /\ phase[r] = "committing" /\ Settle(r, "left") /\ paused' = TRUE
      /\ files' = files /\ sidecars' = sidecars /\ known' = known
      /\ sighted' = sighted /\ disordered' = disordered
      /\ mode' = mode /\ recovery' = recovery /\ cleaner' = cleaner /\ crashes' = crashes
  BY DEF CommitFails, Idle, disk
<1>4. faults' \in 0 .. MaxFaults /\ phase[r] \in Handing \ {"left"} /\ r \in sidecars
  BY <1>1, <1>3, SpoolHandoffConstants DEF CommitFails, Typed, Phased, Handing
<1>5. CASE UNCHANGED <<tables, applied>>
  <2>1. UNCHANGED history
    BY <1>3, <1>5 DEF history
  <2> QED BY <1>2, <1>3, <1>4, <1>5, <2>1, SettledKeeps
<1>6. CASE Record(r, FALSE)
  <2>1. RowsTyped' /\ BytesReachable' /\ applied' = [applied EXCEPT ![r] = 1]
    BY <1>1, <1>3, <1>4, <1>6, RecordApplies
  <2>2. \A s \in sidecars : s # r /\ IdentityOf[s] = IdentityOf[r] => applied[s] = 0
    BY <1>1, <1>3 DEF Alone, Typed
  <2>3. Marked'
    <3>1. phase' = [phase EXCEPT ![r] = "left"] /\ "left" \in {"recorded", "left"}
      BY <1>3 DEF Settle
    <3>2. UNCHANGED <<files, sidecars, sighted>>
      BY <1>3
    <3> QED BY <1>1, <1>4, <1>6, <2>2, <3>1, <3>2, RecordMarks
  <2>4. \A s \in Responses : s # r => applied'[s] = applied[s]
    BY <1>1, <2>1 DEF Typed
  <2>5. /\ Turned' /\ AppliedFirst' /\ turns' \in [Identities -> Seq(Responses)]
        /\ phase' \in [Responses -> Phases]
        /\ phase'[r] = "left" /\ \A s \in Responses : s # r => phase'[s] = phase[s]
    BY <1>1, <1>2, <1>3, <2>4, SettleTurns
  <2>6. Typed'
    BY <1>1, <1>3, <1>4, <2>1, <2>5 DEF Typed, RowsTyped
  <2>7. Phased' /\ HandoffHasBody'
    BY <1>1, <1>3, <2>5 DEF Phased, HandoffHasBody, Handing
  <2>8. Cleaning' /\ Recovering'
    <3>1. cleaner.stage \in {"active", "deleted"} => Publishing' = {}
      BY <1>1, <2>5 DEF Cleaning, Publishing
    <3>2. Handoffs' = Handoffs
      BY <1>3 DEF Handoffs
    <3>3. Cleaning'
      BY <1>1, <1>3, <3>1, <3>2 DEF Cleaning
    <3>4. Recovering'
      BY <1>1, <1>2, <1>3, <2>5 DEF Recovering
    <3> QED BY <3>3, <3>4
  <2>9. Alone'
    <3> SUFFICES ASSUME NEW t \in Responses, NEW s \in Responses, phase'[t] = "committing",
                        s \in sidecars', s # t, IdentityOf[s] = IdentityOf[t]
                 PROVE  applied'[s] = 0
      BY DEF Alone
    <3>1. t # r /\ phase[t] = "committing"
      BY <2>5
    <3>2. s # r
      BY <1>1, <1>2, <1>3, <3>1 DEF Turned
    <3> QED BY <1>1, <1>3, <2>4, <3>1, <3>2 DEF Alone
  <2> QED BY <2>1, <2>3, <2>5, <2>6, <2>7, <2>8, <2>9 DEF IInv, BInv
<1> QED BY <1>5, <1>6 DEF CommitFails

-----------------------------------------------------------------------------
(* Dying, stopping and restart recovery *)

\* Whatever the process was doing: sidecars wait for recovery, the rest is over.
LEMMA DeadKeeps == ASSUME IInv, Dead, crashes' \in 0 .. MaxCrashes PROVE IInv'
<1>1. /\ Typed /\ Phased /\ HandoffHasBody /\ BytesReachable /\ Marked
  BY DEF IInv, BInv
<1>2. /\ mode' = "down" /\ recovery' = <<>> /\ cleaner' = NoCleaner /\ paused' = FALSE
      /\ turns' = [i \in Identities |-> <<>>] /\ known' = [i \in Identities |-> None]
      /\ files' = files /\ sidecars' = sidecars /\ faults' = faults
      /\ row' = row /\ evidence' = evidence /\ processed' = processed /\ upload' = upload
      /\ kept' = kept /\ retired' = retired /\ applied' = applied /\ sighted' = sighted
      /\ disordered' = disordered
  BY DEF Dead, disk, tables, history
<1>3. \A r \in Responses :
        phase'[r] = IF r \in sidecars THEN "left"
                    ELSE IF phase[r] \in {"none", "done"} THEN phase[r] ELSE "lost"
  BY DEF Dead
<1>4. phase' \in [Responses -> Phases]
  <2>1. \A r \in Responses : (IF r \in sidecars THEN "left"
                              ELSE IF phase[r] \in {"none", "done"} THEN phase[r] ELSE "lost") \in Phases
    BY DEF Phases
  <2> QED BY <2>1 DEF Dead
<1>5. Typed'
  <2>1. <<>> \in Seq(Responses) /\ NoCleaner \in Cleaner
    BY DEF NoCleaner, Cleaner
  <2>2. turns' \in [Identities -> Seq(Responses)] /\ known' \in [Identities -> Responses \cup {None}]
    BY <1>2
  <2> QED BY <1>1, <1>2, <1>4, <2>1, <2>2 DEF Typed, Modes
<1>6. Phased' /\ HandoffHasBody' /\ BytesReachable'
  <2>1. Phased'
    BY <1>1, <1>2, <1>3 DEF Phased, Handing
  <2>2. HandoffHasBody' /\ BytesReachable'
    BY <1>1, <1>2 DEF HandoffHasBody, BytesReachable, Observed
  <2> QED BY <2>1, <2>2
<1>7. Cleaning'
  BY <1>2 DEF Cleaning, NoCleaner
<1>8. Recovering'
  BY <1>2, <1>3 DEF Recovering, Resting
<1>9. Turned' /\ AppliedFirst' /\ Alone'
  <2>1. Turned'
    BY <1>2, <1>3 DEF Turned, Handing
  <2>2. AppliedFirst' /\ Alone'
    BY <1>2, <1>3 DEF AppliedFirst, Alone
  <2> QED BY <2>1, <2>2
<1>10. Marked'
  <2>1. \A r \in Responses : /\ applied[r] > 0 => phase'[r] \in Handing \cup {"done"}
                             /\ phase'[r] # "recorded"
                             /\ phase'[r] = "done" => phase[r] = "done"
    BY <1>1, <1>3 DEF Marked, Phased, Handing
  <2> QED BY <1>1, <1>2, <2>1 DEF Marked
<1> QED BY <1>5, <1>6, <1>7, <1>8, <1>9, <1>10 DEF IInv, BInv

LEMMA StopKeeps == ASSUME IInv, Stop PROVE IInv'
<1>1. /\ Typed /\ Phased /\ HandoffHasBody /\ BytesReachable /\ Cleaning /\ Recovering
      /\ Turned /\ AppliedFirst /\ Alone /\ Marked
  BY DEF IInv, BInv
<1>2. /\ mode = "running" /\ mode' = "stopping" /\ files' = files /\ sidecars' = sidecars
      /\ phase' = phase /\ turns' = turns /\ known' = known /\ paused' = paused
      /\ recovery' = recovery /\ cleaner' = cleaner /\ row' = row /\ evidence' = evidence
      /\ processed' = processed /\ upload' = upload /\ kept' = kept /\ retired' = retired
      /\ applied' = applied /\ sighted' = sighted /\ disordered' = disordered
      /\ crashes' = crashes /\ faults' = faults
  BY DEF Stop, disk, memory, tables, history
<1>3. Typed' /\ Phased' /\ HandoffHasBody' /\ BytesReachable'
  <2>1. Typed'
    BY <1>1, <1>2 DEF Typed, Modes
  <2>2. Phased' /\ HandoffHasBody' /\ BytesReachable'
    BY <1>1, <1>2 DEF Phased, HandoffHasBody, BytesReachable, Observed
  <2> QED BY <2>1, <2>2
<1>4. Cleaning' /\ Recovering'
  BY <1>1, <1>2 DEF Cleaning, Recovering, Publishing, Handoffs
<1>5. Turned' /\ AppliedFirst' /\ Alone' /\ Marked'
  BY <1>1, <1>2 DEF Turned, AppliedFirst, Alone, Marked
<1> QED BY <1>3, <1>4, <1>5 DEF IInv, BInv

\* Those the rows name come first: any other of their identity waits behind.
LEMMA RestartKeeps == ASSUME IInv, Restart PROVE IInv'
<1>1. /\ Typed /\ Phased /\ HandoffHasBody /\ BytesReachable /\ Cleaning /\ Recovering
      /\ Turned /\ AppliedFirst /\ Alone /\ Marked
  BY DEF IInv, BInv
<1>2. /\ mode = "down" /\ mode' = "recovering" /\ recovery' = RecoveryOrder(sidecars)
      /\ files' = files /\ sidecars' = sidecars
      /\ phase' = phase /\ turns' = turns /\ known' = known /\ paused' = paused
      /\ cleaner' = cleaner /\ row' = row /\ evidence' = evidence
      /\ processed' = processed /\ upload' = upload /\ kept' = kept /\ retired' = retired
      /\ applied' = applied /\ sighted' = sighted /\ disordered' = disordered
      /\ crashes' = crashes /\ faults' = faults
  BY DEF Restart, disk, memory, tables, history
<1>3. /\ recovery' \in Seq(Responses)
      /\ \A k \in DOMAIN recovery' : recovery'[k] \in sidecars
      /\ \A r \in sidecars : \E k \in DOMAIN recovery' : recovery'[k] = r
      /\ \A j, k \in DOMAIN recovery' : recovery'[j] = recovery'[k] => j = k
      /\ \A j, k \in DOMAIN recovery' : j < k /\ Applied(recovery'[k]) => Applied(recovery'[j])
  BY <1>1, <1>2, RecoveryOrderList DEF Typed
<1>4. ~paused /\ cleaner = NoCleaner /\ \A r \in Responses : phase[r] \in Resting
  <2>1. cleaner = NoCleaner
    BY <1>1, <1>2 DEF Cleaning
  <2>2. ~paused
    BY <1>1, <1>2 DEF Recovering
  <2> QED BY <1>1, <1>2, <2>1, <2>2 DEF Recovering
<1>5. Typed'
  BY <1>1, <1>2, <1>3 DEF Typed, Modes
<1>6. Phased' /\ HandoffHasBody' /\ BytesReachable'
  BY <1>1, <1>2 DEF Phased, HandoffHasBody, BytesReachable, Observed
<1>7. Cleaning'
  BY <1>2, <1>4 DEF Cleaning, NoCleaner
<1>8. Recovering'
  <2>1. \A k \in DOMAIN recovery' : recovery'[k] \in sidecars' /\ phase'[recovery'[k]] = "left"
    <3>1. \A r \in sidecars : r \in Responses /\ phase[r] = "left"
      BY <1>1, <1>4 DEF Phased, Handing, Resting, Typed
    <3> QED BY <1>2, <1>3, <3>1
  <2>2. \A r \in Responses : \/ phase'[r] \in Resting \ {"left"}
                             \/ \E k \in DOMAIN recovery' : recovery'[k] = r
    <3>1. \A r \in Responses : phase[r] = "left" => r \in sidecars
      BY <1>1 DEF Phased, Handing
    <3> QED BY <1>2, <1>3, <1>4, <3>1
  <2>3. mode' = "recovering" /\ paused' = FALSE
    BY <1>1, <1>2, <1>4 DEF Typed
  <2> QED BY <1>3, <2>1, <2>2, <2>3 DEF Recovering
<1>9. Turned'
  <2>1. \A i \in Identities : DOMAIN turns[i] = {}
    <3>1. \A i \in Identities : \A k \in DOMAIN turns[i] : turns[i][k] \in Responses
      BY <1>1 DEF Typed
    <3> QED BY <1>1, <1>4, <3>1 DEF Turned, Resting, Handing
  <2>2. \A r \in Responses : phase[r] \notin Handing \ {"left"}
    BY <1>4 DEF Resting, Handing
  <2> QED BY <1>2, <2>1, <2>2 DEF Turned, Handing
<1>10. AppliedFirst'
  <2> SUFFICES ASSUME NEW j \in DOMAIN recovery', NEW k \in DOMAIN recovery', j < k,
                      IdentityOf[recovery'[j]] = IdentityOf[recovery'[k]]
               PROVE  applied'[recovery'[k]] = 0
    BY <1>1, <1>2 DEF AppliedFirst
  <2>1. recovery'[k] \in sidecars /\ recovery'[k] \in Responses
    BY <1>1, <1>3 DEF Typed
  <2>2. ASSUME applied[recovery'[k]] > 0 PROVE FALSE
    <3>1. Applied(recovery'[k])
      BY <1>1, <2>1, <2>2 DEF Marked, Applied
    <3>2. Applied(recovery'[j])
      BY <1>3, <3>1
    <3>3. recovery'[j] = recovery'[k]
      BY <3>1, <3>2 DEF Applied
    <3>4. j = k /\ j \in Nat
      BY <1>3, <3>3
    <3> QED BY <3>4
  <2>3. applied[recovery'[k]] \in Nat
    BY <1>1, <2>1 DEF Typed
  <2> QED BY <1>2, <2>2, <2>3
<1>11. Alone' /\ Marked'
  BY <1>1, <1>2 DEF Alone, Marked
<1> QED BY <1>5, <1>6, <1>7, <1>8, <1>9, <1>10, <1>11 DEF IInv, BInv

\* Recovery commits the head of its list; those of its identity behind it were
\* not applied, so that none of them loses its marker.
LEMMA RecoverResponseKeeps == ASSUME IInv, RecoverResponse PROVE IInv'
<1> DEFINE r == Head(recovery)
<1>1. /\ Typed /\ Phased /\ HandoffHasBody /\ BytesReachable /\ Cleaning /\ Recovering
      /\ Turned /\ AppliedFirst /\ Alone /\ Marked
  BY DEF IInv, BInv
<1>2. /\ recovery \in Seq(Responses) /\ recovery # <<>> /\ mode = "recovering"
      /\ r = recovery[1] /\ 1 \in DOMAIN recovery /\ DOMAIN recovery \subseteq Nat
  BY <1>1 DEF Typed, RecoverResponse
<1>3. /\ phase[r] = "left" /\ Record(r, TRUE)
      /\ phase' = [phase EXCEPT ![r] = "recorded"]
      /\ known' = Newer(IdentityOf[r], r)
      /\ files' = files /\ sidecars' = sidecars /\ turns' = turns /\ paused' = paused
      /\ sighted' = sighted /\ disordered' = disordered /\ faults' = faults
      /\ mode' = mode /\ recovery' = recovery /\ cleaner' = cleaner /\ crashes' = crashes
  BY DEF RecoverResponse, disk
<1> HIDE DEF r
<1>4. r \in sidecars /\ r \in Responses
  BY <1>1, <1>2 DEF Recovering, Typed
<1>5. RowsTyped' /\ BytesReachable' /\ applied' = [applied EXCEPT ![r] = 1]
  BY <1>1, <1>3, <1>4, RecordApplies
<1>6. ASSUME NEW s \in sidecars, s # r, IdentityOf[s] = IdentityOf[r] PROVE applied[s] = 0
  <2>1. s \in Responses /\ phase[s] \in Handing
    BY <1>1 DEF Typed, Phased
  <2>2. PICK k \in DOMAIN recovery : recovery[k] = s
    BY <1>1, <1>2, <2>1 DEF Recovering, Handing, Resting
  <2>3. 1 < k
    BY <1>2, <1>6, <2>2
  <2> QED BY <1>1, <1>2, <1>6, <2>2, <2>3 DEF AppliedFirst
<1>7. Marked'
  <2>1. phase' = [phase EXCEPT ![r] = "recorded"] /\ "recorded" \in {"recorded", "left"}
    BY <1>3
  <2>2. UNCHANGED <<files, sidecars, sighted>>
    BY <1>3
  <2> QED BY <1>1, <1>3, <1>4, <1>6, <2>1, <2>2, RecordMarks
<1>8. /\ phase'[r] = "recorded" /\ \A s \in Responses : s # r => phase'[s] = phase[s]
      /\ \A s \in Responses : s # r => applied'[s] = applied[s]
  BY <1>1, <1>3, <1>4, <1>5 DEF Typed
<1>9. Typed'
  <2>1. known' \in [Identities -> Responses \cup {None}]
    BY <1>1, <1>3, <1>4, NewerTyped
  <2>2. phase' \in [Responses -> Phases]
    BY <1>1, <1>3 DEF Typed, Phases
  <2> QED BY <1>1, <1>3, <1>5, <2>1, <2>2 DEF Typed, RowsTyped
<1>10. Phased' /\ HandoffHasBody'
  BY <1>1, <1>3, <1>4, <1>8 DEF Phased, HandoffHasBody, Handing
<1>11. Cleaning'
  <2>1. cleaner = NoCleaner
    BY <1>1, <1>2 DEF Cleaning
  <2> QED BY <1>3, <2>1 DEF Cleaning, NoCleaner
<1>12. Recovering'
  <2>1. ASSUME NEW k \in DOMAIN recovery
        PROVE  /\ recovery[k] \in sidecars
               /\ phase'[recovery[k]] = "left" \/ (k = 1 /\ phase'[recovery[k]] = "recorded")
    <3>1. recovery[k] \in Responses /\ recovery[k] \in sidecars
      BY <1>1, <1>2 DEF Recovering
    <3>2. CASE k = 1
      BY <1>2, <1>8, <3>1, <3>2
    <3>3. CASE k # 1
      <4>1. recovery[k] # r
        BY <1>1, <1>2, <3>3 DEF Recovering
      <4> QED BY <1>1, <1>8, <3>1, <3>3, <4>1 DEF Recovering
    <3> QED BY <3>2, <3>3
  <2>2. ASSUME NEW s \in Responses
        PROVE  \/ phase'[s] \in Resting \ {"left"}
               \/ \E k \in DOMAIN recovery : recovery[k] = s
    BY <1>1, <1>2, <1>8, <2>2 DEF Recovering
  <2> QED BY <1>1, <1>2, <1>3, <2>1, <2>2 DEF Recovering
<1>13. Turned'
  <2>1. \A i \in Identities : DOMAIN turns[i] = {}
    BY <1>1, <1>2 DEF Turned
  <2> QED BY <1>2, <1>3, <2>1 DEF Turned
<1>14. AppliedFirst'
  <2>1. \A i \in Identities : DOMAIN turns[i] = {}
    BY <1>1, <1>2 DEF Turned
  <2> SUFFICES ASSUME NEW j \in DOMAIN recovery, NEW k \in DOMAIN recovery, j < k,
                      IdentityOf[recovery[j]] = IdentityOf[recovery[k]]
               PROVE  applied'[recovery[k]] = 0
    BY <1>3, <2>1 DEF AppliedFirst
  <2>2. k # 1 /\ recovery[k] \in Responses
    BY <1>2
  <2>3. recovery[k] # r
    BY <1>1, <1>2, <2>2 DEF Recovering
  <2> QED BY <1>1, <1>8, <2>2, <2>3 DEF AppliedFirst
<1>15. Alone'
  <2>1. ASSUME NEW t \in Responses PROVE phase'[t] # "committing"
    <3>1. phase[t] # "committing"
      BY <1>1, <1>2 DEF Recovering, Resting
    <3> QED BY <1>8, <3>1
  <2> QED BY <2>1 DEF Alone
<1> QED BY <1>5, <1>7, <1>9, <1>10, <1>11, <1>12, <1>13, <1>14, <1>15 DEF IInv, BInv

LEMMA RecoverSidecarKeeps == ASSUME IInv, RecoverSidecar PROVE IInv'
<1> DEFINE r == Head(recovery)
<1>1. /\ Typed /\ Phased /\ HandoffHasBody /\ BytesReachable /\ Cleaning /\ Recovering
      /\ Turned /\ AppliedFirst /\ Alone /\ Marked
  BY DEF IInv, BInv
<1>2. /\ recovery \in Seq(Responses) /\ recovery # <<>> /\ mode = "recovering"
      /\ r = recovery[1] /\ 1 \in DOMAIN recovery /\ DOMAIN recovery = 1 .. Len(recovery)
      /\ Len(recovery) \in Nat
  BY <1>1 DEF Typed, RecoverSidecar
<1>3. /\ phase[r] = "recorded" /\ sidecars' = sidecars \ {r}
      /\ phase' = [phase EXCEPT ![r] = "done"] /\ recovery' = Tail(recovery)
      /\ files' = files /\ turns' = turns /\ known' = known /\ paused' = paused
      /\ mode' = mode /\ cleaner' = cleaner /\ row' = row /\ evidence' = evidence
      /\ processed' = processed /\ upload' = upload /\ kept' = kept /\ retired' = retired
      /\ applied' = applied /\ sighted' = sighted /\ disordered' = disordered
      /\ crashes' = crashes /\ faults' = faults
  BY DEF RecoverSidecar, tables, history
<1>4. /\ recovery' \in Seq(Responses) /\ DOMAIN recovery' = 1 .. Len(recovery) - 1
      /\ \A k \in DOMAIN recovery' : recovery'[k] = recovery[k + 1] /\ k + 1 \in DOMAIN recovery
  <2>1. Tail(recovery) \in Seq(Responses) /\ Len(Tail(recovery)) = Len(recovery) - 1
        /\ \A k \in 1 .. Len(recovery) - 1 : Tail(recovery)[k] = recovery[k + 1]
    BY <1>2
  <2> QED BY <1>2, <1>3, <2>1
<1> HIDE DEF r
<1>5. r \in sidecars /\ r \in Responses
  BY <1>1, <1>2 DEF Recovering, Typed
<1>6. phase'[r] = "done" /\ \A s \in Responses : s # r => phase'[s] = phase[s]
  BY <1>1, <1>3, <1>5 DEF Typed
<1>7. \A i \in Identities : DOMAIN turns[i] = {}
  BY <1>1, <1>2 DEF Turned
<1>8. \A k \in DOMAIN recovery : recovery[k] \in Responses /\ (k # 1 => recovery[k] # r)
  BY <1>1, <1>2 DEF Recovering
<1>9. Typed'
  <2>1. phase' \in [Responses -> Phases] /\ sidecars' \subseteq Responses
    BY <1>1, <1>3 DEF Typed, Phases
  <2> QED BY <1>1, <1>3, <1>4, <2>1 DEF Typed
<1>10. Phased' /\ HandoffHasBody' /\ BytesReachable'
  <2>1. Phased'
    BY <1>1, <1>3, <1>5, <1>6 DEF Phased, Handing
  <2>2. HandoffHasBody' /\ BytesReachable'
    BY <1>1, <1>3 DEF HandoffHasBody, BytesReachable, Observed
  <2> QED BY <2>1, <2>2
<1>11. Cleaning'
  <2>1. cleaner = NoCleaner
    BY <1>1, <1>2 DEF Cleaning
  <2> QED BY <1>3, <2>1 DEF Cleaning, NoCleaner
<1>12. ASSUME NEW k \in DOMAIN recovery'
       PROVE  recovery'[k] \in sidecars' /\ phase'[recovery'[k]] = "left"
  <2>1. recovery'[k] = recovery[k + 1] /\ k + 1 \in DOMAIN recovery /\ k + 1 # 1
    BY <1>2, <1>4
  <2>2. recovery[k + 1] # r /\ recovery[k + 1] \in Responses
    BY <1>8, <2>1
  <2>3. recovery[k + 1] \in sidecars /\ phase[recovery[k + 1]] = "left"
    BY <1>1, <2>1 DEF Recovering
  <2> QED BY <1>3, <1>6, <2>1, <2>2, <2>3
<1>13. Recovering'
  <2>1. ASSUME NEW j \in DOMAIN recovery', NEW k \in DOMAIN recovery', recovery'[j] = recovery'[k]
        PROVE  j = k
    <3>1. recovery[j + 1] = recovery[k + 1] /\ j + 1 \in DOMAIN recovery /\ k + 1 \in DOMAIN recovery
      BY <1>4, <2>1
    <3>2. j + 1 = k + 1 /\ j \in Int /\ k \in Int
      BY <1>1, <1>4, <3>1 DEF Recovering
    <3> QED BY <3>2
  <2>2. ASSUME NEW s \in Responses
        PROVE  phase'[s] \in Resting \ {"left"} \/ \E k \in DOMAIN recovery' : recovery'[k] = s
    <3>1. CASE s = r
      BY <1>6, <3>1 DEF Resting
    <3>2. CASE s # r
      <4>1. phase[s] \in Resting \ {"left"} \/ \E k \in DOMAIN recovery : recovery[k] = s
        BY <1>1, <1>2 DEF Recovering
      <4>2. ASSUME NEW k \in DOMAIN recovery, recovery[k] = s
            PROVE  \E l \in DOMAIN recovery' : recovery'[l] = s
        <5>1. k # 1
          BY <1>2, <3>2, <4>2
        <5>2. k - 1 \in DOMAIN recovery' /\ (k - 1) + 1 = k
          BY <1>2, <1>4, <5>1
        <5>3. recovery'[k - 1] = recovery[(k - 1) + 1]
          BY <1>4, <5>2
        <5> QED BY <4>2, <5>2, <5>3
      <4> QED BY <1>6, <3>2, <4>1, <4>2
    <3> QED BY <3>1, <3>2
  <2>3. mode' = "recovering" /\ ~paused'
    BY <1>1, <1>2, <1>3 DEF Recovering
  <2> QED BY <1>12, <2>1, <2>2, <2>3 DEF Recovering
<1>14. ASSUME NEW s \in Responses PROVE phase'[s] \notin Handing \ {"left"}
  <2>1. phase'[s] \in Resting \ {"left"} \/ \E k \in DOMAIN recovery' : recovery'[k] = s
    <3>1. phase'[s] # "saved"
      BY <1>1, <1>2, <1>6 DEF Recovering, Resting
    <3>2. mode' = "recovering"
      BY <1>2, <1>3
    <3> QED BY <1>13, <3>1, <3>2 DEF Recovering
  <2> QED BY <1>12, <2>1 DEF Handing, Resting
<1>15. Turned' /\ Alone'
  <2>1. Turned'
    BY <1>3, <1>7, <1>14 DEF Turned, Handing
  <2>2. Alone'
    BY <1>14 DEF Alone, Handing
  <2> QED BY <2>1, <2>2
<1>16. AppliedFirst'
  <2> SUFFICES ASSUME NEW j \in DOMAIN recovery', NEW k \in DOMAIN recovery', j < k,
                      IdentityOf[recovery'[j]] = IdentityOf[recovery'[k]]
               PROVE  applied'[recovery'[k]] = 0
    BY <1>3, <1>7 DEF AppliedFirst
  <2>1. /\ recovery'[j] = recovery[j + 1] /\ recovery'[k] = recovery[k + 1]
        /\ j + 1 \in DOMAIN recovery /\ k + 1 \in DOMAIN recovery /\ j + 1 < k + 1
    BY <1>4
  <2> QED BY <1>1, <1>3, <2>1 DEF AppliedFirst
<1>17. Marked'
  BY <1>1, <1>3, <1>5, <1>6 DEF Marked, Handing
<1> QED BY <1>9, <1>10, <1>11, <1>13, <1>15, <1>16, <1>17 DEF IInv, BInv

\* A lock ends recovery: what is left of its list becomes the turns, and the list's
\* order theirs.
LEMMA RecoveryBusyKeeps == ASSUME IInv, RecoveryBusy PROVE IInv'
<1>0. recovery \in Seq(Responses)
  BY DEF IInv, BInv, Typed
<1>1. \A i \in Identities :
        /\ OfIdentity(recovery, i) \in Seq(Responses)
        /\ \A k \in DOMAIN OfIdentity(recovery, i) : \E m \in DOMAIN recovery :
               OfIdentity(recovery, i)[k] = recovery[m] /\ IdentityOf[recovery[m]] = i
        /\ \A m \in DOMAIN recovery : IdentityOf[recovery[m]] = i =>
               \E k \in DOMAIN OfIdentity(recovery, i) : OfIdentity(recovery, i)[k] = recovery[m]
        /\ (\A j, k \in DOMAIN recovery : recovery[j] = recovery[k] => j = k) =>
               \A j, k \in DOMAIN OfIdentity(recovery, i) :
                   OfIdentity(recovery, i)[j] = OfIdentity(recovery, i)[k] => j = k
        /\ \A k \in DOMAIN OfIdentity(recovery, i) : k > 1 => \E l, m \in DOMAIN recovery :
               /\ l < m /\ OfIdentity(recovery, i)[k] = recovery[m]
               /\ IdentityOf[recovery[l]] = i /\ IdentityOf[recovery[m]] = i
  BY <1>0, OfIdentityList
<1>2. /\ Typed /\ Phased /\ HandoffHasBody /\ BytesReachable /\ Cleaning /\ Recovering
      /\ Turned /\ AppliedFirst /\ Alone /\ Marked
  BY DEF IInv, BInv
<1>3. /\ mode = "recovering" /\ recovery # <<>> /\ recovery' = <<>>
      /\ phase' = [r \in Responses |-> IF r \in ToSet(recovery) THEN "saved" ELSE phase[r]]
      /\ turns' = [i \in Identities |-> OfIdentity(recovery, i)]
      /\ files' = files /\ sidecars' = sidecars /\ known' = known /\ paused' = paused
      /\ mode' = mode /\ cleaner' = cleaner /\ row' = row /\ evidence' = evidence
      /\ processed' = processed /\ upload' = upload /\ kept' = kept /\ retired' = retired
      /\ applied' = applied /\ sighted' = sighted /\ disordered' = disordered
      /\ crashes' = crashes
  BY DEF RecoveryBusy, disk, tables, history
<1>4. faults' \in 0 .. MaxFaults
  BY <1>2, SpoolHandoffConstants DEF RecoveryBusy, Typed
<1>5. \A k \in DOMAIN recovery : /\ recovery[k] \in Responses /\ recovery[k] \in sidecars
                                 /\ phase[recovery[k]] = "left"
  <2>1. phase[recovery[1]] = "left"
    BY <1>0, <1>3 DEF RecoveryBusy
  <2> QED BY <1>0, <1>2, <2>1 DEF Recovering
<1>6. \A r \in Responses : \/ phase[r] \in Resting \ {"left"} /\ phase'[r] = phase[r]
                           \/ /\ \E k \in DOMAIN recovery : recovery[k] = r
                              /\ phase'[r] = "saved" /\ phase[r] = "left"
  <2> SUFFICES ASSUME NEW r \in Responses
               PROVE  \/ phase[r] \in Resting \ {"left"} /\ phase'[r] = phase[r]
                      \/ /\ \E k \in DOMAIN recovery : recovery[k] = r
                         /\ phase'[r] = "saved" /\ phase[r] = "left"
    OBVIOUS
  <2>1. r \in ToSet(recovery) <=> \E k \in DOMAIN recovery : recovery[k] = r
    BY DEF ToSet
  <2>2. phase[r] \in Resting \ {"left"} \/ \E k \in DOMAIN recovery : recovery[k] = r
    BY <1>2, <1>3 DEF Recovering
  <2> QED BY <1>3, <1>5, <2>1, <2>2 DEF Resting
<1>7. Typed'
  <2>1. phase' \in [Responses -> Phases]
    BY <1>2, <1>3 DEF Typed, Phases
  <2>2. turns' \in [Identities -> Seq(Responses)] /\ recovery' \in Seq(Responses)
    BY <1>1, <1>3
  <2> QED BY <1>2, <1>3, <1>4, <2>1, <2>2 DEF Typed
<1>8. Phased' /\ HandoffHasBody' /\ BytesReachable'
  <2>1. Phased'
    BY <1>2, <1>3, <1>6 DEF Phased, Handing, Resting
  <2>2. HandoffHasBody' /\ BytesReachable'
    BY <1>2, <1>3 DEF HandoffHasBody, BytesReachable, Observed
  <2> QED BY <2>1, <2>2
<1>9. Cleaning'
  <2>1. cleaner = NoCleaner
    BY <1>2, <1>3 DEF Cleaning
  <2> QED BY <1>3, <2>1 DEF Cleaning, NoCleaner
<1>10. Recovering'
  <2>1. \A r \in Responses : phase'[r] \in Resting \ {"left"} \/ phase'[r] = "saved"
    BY <1>6
  <2> QED BY <1>2, <1>3, <2>1 DEF Recovering
<1>11. Turned'
  <2>1. ASSUME NEW i \in Identities
        PROVE  /\ \A k \in DOMAIN turns'[i] :
                    /\ IdentityOf[turns'[i][k]] = i
                    /\ phase'[turns'[i][k]] \in Handing \ {"left"} /\ recovery' = <<>>
               /\ \A j, k \in DOMAIN turns'[i] : turns'[i][j] = turns'[i][k] => j = k
    <3>1. turns'[i] = OfIdentity(recovery, i)
      BY <1>3
    <3>2. ASSUME NEW k \in DOMAIN turns'[i]
          PROVE  IdentityOf[turns'[i][k]] = i /\ phase'[turns'[i][k]] = "saved"
      <4>1. PICK m \in DOMAIN recovery : turns'[i][k] = recovery[m] /\ IdentityOf[recovery[m]] = i
        BY <1>1, <3>1
      <4> QED BY <1>5, <1>6, <4>1
    <3>3. \A j, k \in DOMAIN turns'[i] : turns'[i][j] = turns'[i][k] => j = k
      BY <1>1, <1>2, <3>1 DEF Recovering
    <3> QED BY <1>3, <3>2, <3>3 DEF Handing
  <2>2. ASSUME NEW r \in Responses
        PROVE  /\ phase'[r] \in Handing \ {"left"} /\ recovery' = <<>> =>
                      \E k \in DOMAIN turns'[IdentityOf[r]] : turns'[IdentityOf[r]][k] = r
               /\ phase'[r] \notin {"committing", "recorded"}
    <3>1. IdentityOf[r] \in Identities
      BY SpoolHandoffConstants
    <3>2. turns'[IdentityOf[r]] = OfIdentity(recovery, IdentityOf[r])
      BY <1>3, <3>1
    <3>3. CASE phase[r] \in Resting \ {"left"} /\ phase'[r] = phase[r]
      BY <3>3 DEF Resting, Handing
    <3>4. CASE (\E k \in DOMAIN recovery : recovery[k] = r) /\ phase'[r] = "saved"
      BY <1>1, <3>1, <3>2, <3>4
    <3> QED BY <1>6, <3>3, <3>4
  <2> QED BY <2>1, <2>2 DEF Turned
<1>12. AppliedFirst'
  <2>1. ASSUME NEW i \in Identities, NEW k \in DOMAIN turns'[i], k > 1
        PROVE  applied'[turns'[i][k]] = 0
    <3>1. turns'[i] = OfIdentity(recovery, i)
      BY <1>3
    <3>2. PICK l \in DOMAIN recovery, m \in DOMAIN recovery :
             /\ l < m /\ turns'[i][k] = recovery[m]
             /\ IdentityOf[recovery[l]] = i /\ IdentityOf[recovery[m]] = i
      BY <1>1, <2>1, <3>1
    <3> QED BY <1>2, <1>3, <3>2 DEF AppliedFirst
  <2> QED BY <1>3, <2>1 DEF AppliedFirst
<1>13. Alone'
  BY <1>6 DEF Alone, Resting
<1>14. Marked'
  BY <1>2, <1>3, <1>6 DEF Marked, Handing, Resting
<1> QED BY <1>7, <1>8, <1>9, <1>10, <1>11, <1>12, <1>13, <1>14 DEF IInv, BInv

-----------------------------------------------------------------------------
(* Deleting body files, uploads, processing and retirement *)

\* What the passes, the uploads process, the worker and retirement leave alone.
LEMMA ElsewhereKeeps ==
    ASSUME IInv, UNCHANGED <<sidecars, memory, recovery, history, row>>,
           \A r \in Responses : evidence'[r] # "none" => evidence[r] # "none"
    PROVE  Turned' /\ AppliedFirst' /\ Alone' /\ Marked'
<1>1. /\ sidecars' = sidecars /\ phase' = phase /\ turns' = turns /\ recovery' = recovery
      /\ applied' = applied /\ sighted' = sighted /\ row' = row
  BY DEF memory, history
<1>2. Turned /\ AppliedFirst /\ Alone /\ Marked
  BY DEF IInv
<1> QED BY <1>1, <1>2 DEF Turned, AppliedFirst, Alone, Marked

LEMMA StartPassKeeps ==
    ASSUME IInv, NEW kind \in {"sweep", "cleanup"}, NEW chosen \in SUBSET Bodies,
           StartPass(kind, chosen)
    PROVE  IInv'
<1>1. /\ Typed /\ Phased /\ HandoffHasBody /\ BytesReachable /\ Cleaning /\ Recovering
  BY DEF IInv, BInv
<1>2. /\ recovery = <<>> /\ mode \in {"recovering", "running", "stopping"}
      /\ cleaner' = [NoCleaner EXCEPT !.kind = kind, !.stage = "waiting", !.chosen = chosen]
      /\ files' = files /\ sidecars' = sidecars
      /\ phase' = phase /\ turns' = turns /\ known' = known /\ paused' = paused
      /\ mode' = mode /\ recovery' = recovery /\ row' = row /\ evidence' = evidence
      /\ processed' = processed /\ upload' = upload /\ kept' = kept /\ retired' = retired
      /\ applied' = applied /\ sighted' = sighted /\ disordered' = disordered
      /\ crashes' = crashes /\ faults' = faults
  BY DEF StartPass, Quiet, memory, tables, history
<1>3. cleaner'.stage = "waiting" /\ cleaner' \in Cleaner
  BY <1>2 DEF NoCleaner, Cleaner
<1>4. Typed'
  BY <1>1, <1>2, <1>3 DEF Typed
<1>5. Phased' /\ HandoffHasBody' /\ BytesReachable'
  BY <1>1, <1>2 DEF Phased, HandoffHasBody, BytesReachable, Observed
<1>6. Cleaning'
  BY <1>2, <1>3 DEF Cleaning
<1>7. Recovering'
  BY <1>1, <1>2 DEF Recovering
<1>8. Turned' /\ AppliedFirst' /\ Alone' /\ Marked'
  BY <1>2, ElsewhereKeeps DEF memory, history
<1> QED BY <1>4, <1>5, <1>6, <1>7, <1>8 DEF IInv, BInv

LEMMA TakeBarrierKeeps == ASSUME IInv, TakeBarrier PROVE IInv'
<1>1. /\ Typed /\ Phased /\ HandoffHasBody /\ BytesReachable /\ Cleaning /\ Recovering
  BY DEF IInv, BInv
<1>2. /\ cleaner.stage = "waiting" /\ Publishing = {}
      /\ cleaner' = [cleaner EXCEPT !.stage = "active", !.protected = Handoffs]
      /\ files' = files /\ sidecars' = sidecars
      /\ phase' = phase /\ turns' = turns /\ known' = known /\ paused' = paused
      /\ mode' = mode /\ recovery' = recovery /\ row' = row /\ evidence' = evidence
      /\ processed' = processed /\ upload' = upload /\ kept' = kept /\ retired' = retired
      /\ applied' = applied /\ sighted' = sighted /\ disordered' = disordered
      /\ crashes' = crashes /\ faults' = faults
  BY DEF TakeBarrier, Quiet, memory, tables, history
<1>3. recovery = <<>> /\ mode # "down"
  BY <1>1, <1>2 DEF Cleaning, NoCleaner
<1>4. cleaner' \in Cleaner /\ cleaner'.protected = Handoffs /\ cleaner'.stage = "active"
  <2>1. Handoffs \subseteq Bodies
    BY <1>1, SpoolHandoffConstants DEF Handoffs, Typed
  <2> QED BY <1>1, <1>2, <2>1 DEF Typed, Cleaner
<1>5. Typed'
  BY <1>1, <1>2, <1>4 DEF Typed
<1>6. Phased' /\ HandoffHasBody' /\ BytesReachable'
  BY <1>1, <1>2 DEF Phased, HandoffHasBody, BytesReachable, Observed
<1>7. Cleaning'
  <2>1. Publishing' = {} /\ Handoffs' = Handoffs
    BY <1>2 DEF Publishing, Handoffs
  <2> QED BY <1>2, <1>3, <1>4, <2>1 DEF Cleaning
<1>8. Recovering'
  BY <1>1, <1>2 DEF Recovering
<1>9. Turned' /\ AppliedFirst' /\ Alone' /\ Marked'
  BY <1>2, ElsewhereKeeps DEF memory, history
<1> QED BY <1>5, <1>6, <1>7, <1>8, <1>9 DEF IInv, BInv

\* The sidecars the pass read are all there are, and an upload that still waits is
\* referenced.
LEMMA SweepFilesKeeps == ASSUME IInv, SweepFiles PROVE IInv'
<1>1. /\ Typed /\ Phased /\ HandoffHasBody /\ BytesReachable /\ Cleaning /\ Recovering
  BY DEF IInv, BInv
<1>2. /\ cleaner.stage = "active" /\ cleaner' = NoCleaner
      /\ files' = files \cap (cleaner.protected \cup Referenced) \/ files' = files
      /\ mode' = IF mode = "recovering" THEN "running" ELSE mode
      /\ sidecars' = sidecars
      /\ phase' = phase /\ turns' = turns /\ known' = known /\ paused' = paused
      /\ recovery' = recovery /\ row' = row /\ evidence' = evidence
      /\ processed' = processed /\ upload' = upload /\ kept' = kept /\ retired' = retired
      /\ applied' = applied /\ sighted' = sighted /\ disordered' = disordered
      /\ crashes' = crashes
  BY DEF SweepFiles, memory, tables, history
<1>3. faults' \in 0 .. MaxFaults
  BY <1>1, SpoolHandoffConstants DEF SweepFiles, Typed
<1>4. recovery = <<>> /\ mode # "down" /\ Publishing = {} /\ Handoffs \subseteq cleaner.protected
  BY <1>1, <1>2 DEF Cleaning, NoCleaner
<1>5. files' \subseteq files
  BY <1>2
<1>6. Typed'
  <2>1. NoCleaner \in Cleaner
    BY DEF NoCleaner, Cleaner
  <2> QED BY <1>1, <1>2, <1>3, <1>5, <2>1 DEF Typed, Modes
<1>7. Phased'
  BY <1>1, <1>2, <1>4 DEF Phased, Publishing
<1>8. HandoffHasBody'
  <2>1. \A r \in sidecars : BodyOf[r] \in files /\ BodyOf[r] \in cleaner.protected
    BY <1>1, <1>4 DEF HandoffHasBody, Handoffs
  <2> QED BY <1>2, <2>1 DEF HandoffHasBody
<1>9. BytesReachable'
  <2>1. \A r \in Responses : evidence[r] = "unbound" => BodyOf[r] \in Referenced
    BY DEF Referenced
  <2>2. \A r \in Responses : evidence[r] = "unbound" => BodyOf[r] \in files /\ upload[BodyOf[r]] = "pending"
    BY <1>1 DEF BytesReachable, Observed
  <2> QED BY <1>2, <2>1, <2>2 DEF BytesReachable, Observed
<1>10. Cleaning'
  BY <1>2 DEF Cleaning, NoCleaner
<1>11. Recovering'
  <2>1. mode = "recovering" => \A r \in Responses : phase[r] # "left"
    BY <1>1, <1>4 DEF Recovering
  <2>2. mode' \in {"running", "stopping"} /\ recovery' = <<>>
    BY <1>1, <1>2, <1>4 DEF Typed, Modes
  <2> QED BY <1>1, <1>2, <2>1, <2>2 DEF Recovering
<1>12. Turned' /\ AppliedFirst' /\ Alone' /\ Marked'
  BY <1>2, ElsewhereKeeps DEF memory, history
<1> QED BY <1>6, <1>7, <1>8, <1>9, <1>10, <1>11, <1>12 DEF IInv, BInv

LEMMA CleanupFilesKeeps == ASSUME IInv, CleanupFiles PROVE IInv'
<1>1. /\ Typed /\ Phased /\ HandoffHasBody /\ BytesReachable /\ Cleaning /\ Recovering
  BY DEF IInv, BInv
<1>2. /\ cleaner.stage = "active" /\ files' = files \ Doomed
      /\ cleaner' = [cleaner EXCEPT !.stage = "deleted", !.chosen = Doomed]
      /\ sidecars' = sidecars
      /\ phase' = phase /\ turns' = turns /\ known' = known /\ paused' = paused
      /\ mode' = mode /\ recovery' = recovery /\ row' = row /\ evidence' = evidence
      /\ processed' = processed /\ upload' = upload /\ kept' = kept /\ retired' = retired
      /\ applied' = applied /\ sighted' = sighted /\ disordered' = disordered
      /\ crashes' = crashes /\ faults' = faults
  BY DEF CleanupFiles, Quiet, memory, tables, history
<1>3. recovery = <<>> /\ mode # "down" /\ Publishing = {} /\ Handoffs \subseteq cleaner.protected
  BY <1>1, <1>2 DEF Cleaning, NoCleaner
<1>4. cleaner' \in Cleaner /\ cleaner'.stage = "deleted"
  <2>1. Doomed \subseteq Bodies
    BY <1>1 DEF Doomed, Typed, Cleaner
  <2> QED BY <1>1, <1>2, <2>1 DEF Typed, Cleaner
<1>5. Typed'
  BY <1>1, <1>2, <1>4 DEF Typed
<1>6. Phased'
  BY <1>1, <1>2, <1>3 DEF Phased, Publishing
<1>7. HandoffHasBody'
  <2>1. \A r \in sidecars : BodyOf[r] \in files /\ BodyOf[r] \notin Doomed
    BY <1>1, <1>3 DEF HandoffHasBody, Handoffs, Doomed
  <2> QED BY <1>2, <2>1 DEF HandoffHasBody
<1>8. BytesReachable'
  <2>1. \A r \in Responses : evidence[r] = "unbound" => BodyOf[r] \in files /\ upload[BodyOf[r]] = "pending"
    BY <1>1 DEF BytesReachable, Observed
  <2>2. \A b \in Doomed : upload[b] = "complete"
    BY DEF Doomed, Deletable
  <2>3. \A r \in Responses : evidence[r] = "unbound" => BodyOf[r] \notin Doomed
    BY <2>1, <2>2
  <2> QED BY <1>2, <2>1, <2>3 DEF BytesReachable, Observed
<1>9. Cleaning'
  <2>1. Publishing' = {}
    BY <1>2, <1>3 DEF Publishing
  <2> QED BY <1>2, <1>3, <1>4, <2>1 DEF Cleaning
<1>10. Recovering'
  BY <1>1, <1>2 DEF Recovering
<1>11. Turned' /\ AppliedFirst' /\ Alone' /\ Marked'
  BY <1>2, ElsewhereKeeps DEF memory, history
<1> QED BY <1>5, <1>6, <1>7, <1>8, <1>9, <1>10, <1>11 DEF IInv, BInv

LEMMA CleanupRowsKeeps == ASSUME IInv, CleanupRows PROVE IInv'
<1>1. /\ Typed /\ Phased /\ HandoffHasBody /\ BytesReachable /\ Cleaning /\ Recovering
  BY DEF IInv, BInv
<1>2. /\ kept' = kept \ cleaner.chosen /\ cleaner' = NoCleaner /\ files' = files
      /\ sidecars' = sidecars
      /\ phase' = phase /\ turns' = turns /\ known' = known /\ paused' = paused
      /\ mode' = mode /\ recovery' = recovery /\ row' = row /\ evidence' = evidence
      /\ processed' = processed /\ upload' = upload /\ retired' = retired
      /\ applied' = applied /\ sighted' = sighted /\ disordered' = disordered
      /\ crashes' = crashes /\ faults' = faults
  BY DEF CleanupRows, Quiet, memory, history
<1>3. Typed'
  <2>1. NoCleaner \in Cleaner /\ kept' \subseteq Bodies
    BY <1>1, <1>2 DEF NoCleaner, Cleaner, Typed
  <2> QED BY <1>1, <1>2, <2>1 DEF Typed
<1>4. Phased' /\ HandoffHasBody' /\ BytesReachable'
  BY <1>1, <1>2 DEF Phased, HandoffHasBody, BytesReachable, Observed
<1>5. Cleaning' /\ Recovering'
  <2>1. Cleaning'
    BY <1>2 DEF Cleaning, NoCleaner
  <2>2. Recovering'
    BY <1>1, <1>2 DEF Recovering
  <2> QED BY <2>1, <2>2
<1>6. Turned' /\ AppliedFirst' /\ Alone' /\ Marked'
  BY <1>2, ElsewhereKeeps DEF memory, history
<1> QED BY <1>3, <1>4, <1>5, <1>6 DEF IInv, BInv

\* Steps of the uploads process, the worker and retirement.
LEMMA OutsideKeeps ==
    ASSUME IInv, Outside, row' = row, kept' = kept, retired' \subseteq Bodies,
           processed' \subseteq Responses, upload' \in [Bodies -> {"none", "pending", "complete"}],
           evidence' \in [Responses -> {"none", "unbound", "bound", "retired"}],
           \A r \in Responses : evidence'[r] # "none" => evidence[r] # "none",
           \A r \in Responses : evidence'[r] = "unbound" =>
               evidence[r] = "unbound" /\ upload'[BodyOf[r]] = upload[BodyOf[r]]
    PROVE  IInv'
<1>1. /\ Typed /\ Phased /\ HandoffHasBody /\ BytesReachable /\ Cleaning /\ Recovering
  BY DEF IInv, BInv
<1>2. /\ files' = files /\ sidecars' = sidecars
      /\ phase' = phase /\ turns' = turns /\ known' = known /\ paused' = paused
      /\ mode' = mode /\ recovery' = recovery /\ cleaner' = cleaner
      /\ applied' = applied /\ sighted' = sighted /\ disordered' = disordered
      /\ crashes' = crashes /\ faults' = faults
  BY DEF Outside, disk, memory, history
<1>3. Typed'
  BY <1>1, <1>2 DEF Typed
<1>4. Phased' /\ HandoffHasBody' /\ BytesReachable'
  <2>1. BytesReachable'
    BY <1>1, <1>2 DEF BytesReachable, Observed
  <2> QED BY <1>1, <1>2, <2>1 DEF Phased, HandoffHasBody
<1>5. Cleaning' /\ Recovering'
  BY <1>1, <1>2 DEF Cleaning, Recovering, Publishing, Handoffs
<1>6. Turned' /\ AppliedFirst' /\ Alone' /\ Marked'
  BY <1>2, ElsewhereKeeps DEF memory, history
<1> QED BY <1>3, <1>4, <1>5, <1>6 DEF IInv, BInv

LEMMA UploadBodyKeeps == ASSUME IInv, NEW b \in Bodies, UploadBody(b) PROVE IInv'
<1>1. Typed
  BY DEF IInv, BInv
<1>2. /\ Outside /\ row' = row /\ kept' = kept /\ retired' = retired /\ processed' = processed
      /\ upload' = [upload EXCEPT ![b] = "complete"]
      /\ evidence' = [r \in Responses |->
                        IF BodyOf[r] = b /\ evidence[r] = "unbound" THEN "bound" ELSE evidence[r]]
  BY DEF UploadBody
<1>3. /\ retired' \subseteq Bodies /\ processed' \subseteq Responses
      /\ upload' \in [Bodies -> {"none", "pending", "complete"}]
      /\ evidence' \in [Responses -> {"none", "unbound", "bound", "retired"}]
  BY <1>1, <1>2 DEF Typed
<1>4. \A r \in Responses : evidence'[r] # "none" => evidence[r] # "none"
  BY <1>2
<1>5. \A r \in Responses : evidence'[r] = "unbound" =>
        evidence[r] = "unbound" /\ upload'[BodyOf[r]] = upload[BodyOf[r]]
  <2>1. \A r \in Responses : evidence'[r] = "unbound" => evidence[r] = "unbound" /\ BodyOf[r] # b
    BY <1>2
  <2>2. \A r \in Responses : BodyOf[r] \in Bodies
    BY SpoolHandoffConstants
  <2> QED BY <1>1, <1>2, <2>1, <2>2 DEF Typed
<1> QED BY <1>2, <1>3, <1>4, <1>5, OutsideKeeps

LEMMA ProcessKeeps == ASSUME IInv, NEW r \in Responses, Process(r) PROVE IInv'
<1>1. Typed
  BY DEF IInv, BInv
<1>2. /\ Outside /\ row' = row /\ kept' = kept /\ retired' = retired /\ evidence' = evidence
      /\ upload' = upload /\ processed' = processed \cup {r}
  BY DEF Process
<1> QED BY <1>1, <1>2, OutsideKeeps DEF Typed

LEMMA RetireBodyKeeps == ASSUME IInv, NEW b \in Bodies, RetireBody(b) PROVE IInv'
<1>1. Typed
  BY DEF IInv, BInv
<1>2. /\ Outside /\ row' = row /\ kept' = kept /\ retired' = retired \cup {b}
      /\ processed' = processed /\ upload' = upload
      /\ evidence' = [r \in Responses |->
                        IF BodyOf[r] = b /\ evidence[r] = "bound" THEN "retired" ELSE evidence[r]]
  BY DEF RetireBody
<1>3. /\ retired' \subseteq Bodies /\ processed' \subseteq Responses
      /\ upload' \in [Bodies -> {"none", "pending", "complete"}]
      /\ evidence' \in [Responses -> {"none", "unbound", "bound", "retired"}]
  BY <1>1, <1>2 DEF Typed
<1>4. \A r \in Responses : /\ evidence'[r] # "none" => evidence[r] # "none"
                           /\ evidence'[r] = "unbound" => evidence[r] = "unbound"
  BY <1>2
<1> QED BY <1>2, <1>3, <1>4, OutsideKeeps

-----------------------------------------------------------------------------
(* The theorems *)

LEMMA StepKeeps == ASSUME IInv, [Next]_vars PROVE IInv'
<1>1. CASE UNCHANGED vars
  <2>1. /\ files' = files /\ sidecars' = sidecars /\ phase' = phase /\ turns' = turns
        /\ known' = known /\ paused' = paused /\ mode' = mode /\ recovery' = recovery
        /\ cleaner' = cleaner /\ row' = row /\ evidence' = evidence /\ processed' = processed
        /\ upload' = upload /\ kept' = kept /\ retired' = retired /\ applied' = applied
        /\ sighted' = sighted /\ disordered' = disordered /\ crashes' = crashes /\ faults' = faults
    BY <1>1 DEF vars, disk, memory, tables, history
  <2>2. Outside
    BY <2>1 DEF Outside, disk, memory, history
  <2>3. Typed
    BY DEF IInv, BInv
  <2> QED BY <2>1, <2>2, <2>3, OutsideKeeps DEF Typed
<1>2. ASSUME NEW r \in Responses,
             Fetch(r) \/ CheckUnchanged(r) \/ CollectStep(r) \/ LockBusy(r) \/ CommitFails(r) \/ Process(r)
      PROVE  IInv'
  BY <1>2, FetchKeeps, CheckUnchangedKeeps, PublishKeeps, FinishCheckKeeps, WriteSidecarKeeps,
     BeginCommitKeeps, CommitResponseKeeps, RemoveSidecarKeeps, LeaveSavedKeeps, LockBusyKeeps,
     CommitFailsKeeps, ProcessKeeps DEF CollectStep
<1>3. ASSUME Crash \/ Kill \/ Exit PROVE IInv'
  <2>1. Typed /\ crashes \in 0 .. MaxCrashes
    BY DEF IInv, BInv, Typed
  <2>2. Dead /\ crashes' \in 0 .. MaxCrashes
    BY <1>3, <2>1, SpoolHandoffConstants DEF Crash, Kill, Exit
  <2> QED BY <2>2, DeadKeeps
<1>4. ASSUME Stop \/ Restart \/ RecoverResponse \/ RecoverSidecar \/ RecoveryBusy PROVE IInv'
  BY <1>4, StopKeeps, RestartKeeps, RecoverResponseKeeps, RecoverSidecarKeeps, RecoveryBusyKeeps
<1>5. ASSUME NEW kind \in {"sweep", "cleanup"}, NEW chosen \in SUBSET Bodies, StartPass(kind, chosen)
      PROVE  IInv'
  BY <1>5, StartPassKeeps
<1>6. ASSUME CleanStep PROVE IInv'
  BY <1>6, TakeBarrierKeeps, SweepFilesKeeps, CleanupFilesKeeps, CleanupRowsKeeps DEF CleanStep
<1>7. ASSUME NEW b \in Bodies, UploadBody(b) \/ RetireBody(b) PROVE IInv'
  BY <1>7, UploadBodyKeeps, RetireBodyKeeps
<1> QED BY <1>1, <1>2, <1>3, <1>4, <1>5, <1>6, <1>7 DEF Next

LEMMA Invariance == Spec => []IInv
<1>1. Init => IInv
  BY InitIInv
<1>2. IInv /\ [Next]_vars => IInv'
  BY StepKeeps
<1> QED BY <1>1, <1>2, PTL DEF Spec

\* No body file goes while a sidecar or an unarchived observation leads to it: the
\* sweep, cleanup and retirement against publications, crashes and recoveries
\* (spool._publication, remove_unreferenced, delete_spool_if_deletable).
THEOREM BodiesAreKept == Spec => []BodiesKept
<1>1. IInv => BodiesKept
  BY DEF IInv, BInv, BodiesKept
<1> QED BY <1>1, Invariance, PTL

\* A turn or an entry of the recovery list is a response with a sidecar.
LEMMA TypesHold == IInv => TypeOK
<1> SUFFICES ASSUME IInv PROVE TypeOK
  OBVIOUS
<1>1. Typed /\ Phased /\ Recovering /\ Turned
  BY DEF IInv, BInv
<1>2. \A i \in Identities : turns[i] \in Seq(sidecars)
  <2> SUFFICES ASSUME NEW i \in Identities PROVE turns[i] \in Seq(sidecars)
    OBVIOUS
  <2>1. turns[i] \in Seq(Responses)
    BY <1>1 DEF Typed
  <2>2. \A k \in 1 .. Len(turns[i]) : turns[i][k] \in sidecars
    BY <1>1, <2>1 DEF Turned, Phased
  <2> QED BY <2>1, <2>2
<1>3. recovery \in Seq(sidecars)
  <2>1. recovery \in Seq(Responses)
    BY <1>1 DEF Typed
  <2>2. \A k \in 1 .. Len(recovery) : recovery[k] \in sidecars
    BY <1>1, <2>1 DEF Recovering
  <2> QED BY <2>1, <2>2
<1>4. turns \in [Identities -> Seq(sidecars)]
  <2>1. DOMAIN turns = Identities /\ turns = [i \in Identities |-> turns[i]]
    BY <1>1 DEF Typed
  <2> QED BY <1>2, <2>1
<1> QED BY <1>1, <1>3, <1>4 DEF Typed, TypeOK

\* A saved response reaches the database, and once, whatever crashes, faults,
\* pauses and recoveries there are, and the state row keeps the newest
\* (_commit_saved, recover_handoffs, record_response).
THEOREM SavedReachesOnce == Spec => []SavedOnce
<1>1. IInv => SavedIsKept
  <2> SUFFICES ASSUME IInv, NEW r \in Responses, phase[r] \in {"saved", "committing", "left", "done"}
               PROVE  r \in sidecars \/ applied[r] > 0 \/ r \in sighted
    BY DEF SavedIsKept
  <2>1. Phased /\ Marked
    BY DEF IInv, BInv
  <2> QED BY <2>1 DEF Phased, Marked, Handing
<1>2. IInv => NewestKept
  <2> SUFFICES ASSUME IInv PROVE NewestKept
    OBVIOUS
  <2>1. Marked /\ TypeOK
    BY TypesHold DEF IInv
  <2> QED BY <2>1 DEF Marked, NewestKept
<1>3. IInv => SavedOnce
  BY <1>1, <1>2 DEF SavedOnce
<1> QED BY <1>3, Invariance, PTL

-----------------------------------------------------------------------------
(* No change is compacted away *)

Reached(r) == applied[r] > 0 \/ r \in sighted

\* Of an identity whose responses came in order: once one is being checked or
\* committed, or was recorded, no older one still waits with its sidecar.
InOrder ==
    \A r, s \in Responses :
        /\ r < s /\ IdentityOf[r] = IdentityOf[s] /\ IdentityOf[s] \notin disordered
        /\ phase[s] \in {"checking", "committing"} \/ Reached(s)
        => r \notin sidecars

\* The turns of such an identity and its part of the recovery list rise.
Ascending ==
    /\ \A i \in Identities : \A j, k \in DOMAIN turns[i] :
           j < k /\ i \notin disordered => turns[i][j] < turns[i][k]
    /\ \A j, k \in DOMAIN recovery :
           /\ j < k /\ IdentityOf[recovery[j]] = IdentityOf[recovery[k]]
           /\ IdentityOf[recovery[k]] \notin disordered
           => recovery[j] < recovery[k]

\* The newest response a state row names was recorded.
NewestReached ==
    \A i \in Identities :
        row[i].newest # None => Reached(row[i].newest) /\ IdentityOf[row[i].newest] = i

ChangeInv == InOrder /\ Ascending /\ NewestReached /\ ChangeKept

\* The turns taken from a list keep its order.
LEMMA OfIdentityRises ==
    ASSUME NEW list \in Seq(Responses), NEW i
    PROVE  \A j, k \in DOMAIN OfIdentity(list, i) : j < k => \E l, m \in DOMAIN list :
               /\ l < m /\ OfIdentity(list, i)[j] = list[l] /\ OfIdentity(list, i)[k] = list[m]
               /\ IdentityOf[list[l]] = i /\ IdentityOf[list[m]] = i
<1> DEFINE K == {k \in DOMAIN list : IdentityOf[list[k]] = i}
           at == Increasing(K)
           o == OfIdentity(list, i)
<1>1. DOMAIN list = 1 .. Len(list) /\ Len(list) \in Nat
  OBVIOUS
<1>2. K \in SUBSET Nat /\ IsFiniteSet(K) /\ K \subseteq DOMAIN list
  <2>1. K \in SUBSET (1 .. Len(list))
    BY <1>1
  <2>2. IsFiniteSet(1 .. Len(list))
    BY <1>1, FS_Interval
  <2>3. IsFiniteSet(K)
    <3> HIDE DEF K
    <3> QED BY <2>1, <2>2, FS_Subset
  <2> QED BY <1>1, <2>3
<1>3. \A k \in K : IdentityOf[list[k]] = i
  OBVIOUS
<1>4. o = [k \in DOMAIN at |-> list[at[k]]]
  BY DEF OfIdentity
<1> HIDE DEF K, o
<1>5. (\A k \in DOMAIN at : at[k] \in K) /\ \A j, k \in DOMAIN at : j < k => at[j] < at[k]
  BY <1>2, IncreasingList
<1> HIDE DEF at
<1>6. \A k \in DOMAIN o : o[k] = list[at[k]] /\ at[k] \in DOMAIN list /\ IdentityOf[list[at[k]]] = i
  BY <1>2, <1>3, <1>4, <1>5
<1>7. ASSUME NEW j \in DOMAIN o, NEW k \in DOMAIN o, j < k
      PROVE  \E l, m \in DOMAIN list : /\ l < m /\ o[j] = list[l] /\ o[k] = list[m]
                                       /\ IdentityOf[list[l]] = i /\ IdentityOf[list[m]] = i
  <2>1. at[j] < at[k]
    BY <1>4, <1>5, <1>7
  <2> QED BY <1>6, <2>1
<1> QED BY <1>7 DEF o

\* Recovery takes the applied ones first, and else the older ones.
LEMMA RecoveryOrderRises ==
    ASSUME NEW S \in SUBSET Responses
    PROVE  \A j, k \in DOMAIN RecoveryOrder(S) : j < k =>
               \/ RecoveryOrder(S)[j] < RecoveryOrder(S)[k]
               \/ /\ Applied(RecoveryOrder(S)[j])
                  /\ ~Applied(RecoveryOrder(S)[k])
<1> DEFINE A == {r \in S : Applied(r)}
           B == {r \in S : ~Applied(r)}
           a == Increasing(A)
           b == Increasing(B)
           o == RecoveryOrder(S)
<1>1. /\ A \in SUBSET Nat /\ IsFiniteSet(A) /\ A \subseteq Responses
      /\ B \in SUBSET Nat /\ IsFiniteSet(B) /\ B \subseteq Responses
  <2>1. IsFiniteSet(Responses) /\ Responses \subseteq Nat
    BY FS_Interval, SpoolHandoffConstants DEF Responses
  <2>2. A \in SUBSET Responses /\ B \in SUBSET Responses
    OBVIOUS
  <2>3. IsFiniteSet(A) /\ IsFiniteSet(B)
    <3> HIDE DEF A, B
    <3> QED BY <2>1, <2>2, FS_Subset
  <2> QED BY <2>1, <2>2, <2>3
<1>2. (\A r \in A : Applied(r)) /\ \A r \in B : ~Applied(r)
  OBVIOUS
<1>3. o = a \o b
  BY DEF RecoveryOrder
<1> HIDE DEF A, B, o
<1>4. /\ a \in Seq(A) /\ DOMAIN a = 1 .. Len(a) /\ Len(a) \in Nat
      /\ \A k \in DOMAIN a : a[k] \in A
      /\ \A j, k \in DOMAIN a : j < k => a[j] < a[k]
  BY <1>1, IncreasingList
<1>5. /\ b \in Seq(B) /\ DOMAIN b = 1 .. Len(b) /\ Len(b) \in Nat
      /\ \A k \in DOMAIN b : b[k] \in B
      /\ \A j, k \in DOMAIN b : j < k => b[j] < b[k]
  BY <1>1, IncreasingList
<1> HIDE DEF a, b
<1>6. /\ DOMAIN o = 1 .. Len(a) + Len(b)
      /\ \A k \in 1 .. Len(a) + Len(b) : o[k] = IF k <= Len(a) THEN a[k] ELSE b[k - Len(a)]
  <2>1. a \in Seq(Responses) /\ b \in Seq(Responses)
    <3>1. A \subseteq Responses /\ B \subseteq Responses
      BY <1>1
    <3>2. a \in Seq(A) /\ b \in Seq(B)
      BY <1>4, <1>5
    <3> QED BY <3>1, <3>2
  <2>2. a \o b \in Seq(Responses) /\ Len(a \o b) = Len(a) + Len(b)
        /\ \A k \in 1 .. Len(a) + Len(b) : (a \o b)[k] = IF k <= Len(a) THEN a[k] ELSE b[k - Len(a)]
    BY <2>1, ConcatProperties
  <2> QED BY <1>3, <2>2
<1>7. ASSUME NEW j \in DOMAIN o, NEW k \in DOMAIN o, j < k
      PROVE  o[j] < o[k] \/ (Applied(o[j]) /\ ~Applied(o[k]))
  <2>1. CASE k <= Len(a)
    <3>1. j \in DOMAIN a /\ k \in DOMAIN a /\ o[j] = a[j] /\ o[k] = a[k]
      BY <1>4, <1>5, <1>6, <1>7, <2>1
    <3> QED BY <1>4, <1>7, <3>1
  <2>2. CASE j <= Len(a) /\ ~(k <= Len(a))
    <3>1. j \in DOMAIN a /\ k - Len(a) \in DOMAIN b /\ o[j] = a[j] /\ o[k] = b[k - Len(a)]
      BY <1>4, <1>5, <1>6, <1>7, <2>2
    <3> QED BY <1>2, <1>4, <1>5, <3>1
  <2>3. CASE ~(j <= Len(a))
    <3>1. /\ j - Len(a) \in DOMAIN b /\ k - Len(a) \in DOMAIN b /\ j - Len(a) < k - Len(a)
          /\ o[j] = b[j - Len(a)] /\ o[k] = b[k - Len(a)]
      BY <1>4, <1>5, <1>6, <1>7, <2>3
    <3> QED BY <1>5, <3>1
  <2> QED BY <2>1, <2>2, <2>3
<1> QED BY <1>7 DEF o

LEMMA InitChange == Init => ChangeInv
<1> SUFFICES ASSUME Init PROVE ChangeInv
  OBVIOUS
<1>1. InOrder /\ NewestReached
  BY DEF Init, InOrder, NewestReached
<1>2. Ascending
  BY DEF Init, Ascending
<1>3. ChangeKept
  BY DEF Init, ChangeKept
<1> QED BY <1>1, <1>2, <1>3 DEF ChangeInv

\* A step that records nothing: sidecars go only once their response is recorded.
LEMMA HistoryStands ==
    ASSUME Typed, InOrder, NewestReached, ChangeKept,
           UNCHANGED <<applied, sighted, disordered, row>>,
           \A r \in Responses : evidence[r] # "none" => evidence'[r] # "none",
           sidecars' \subseteq sidecars, \A r \in sidecars \ sidecars' : Reached(r),
           \A s \in Responses :
               phase'[s] \in {"checking", "committing"} /\ IdentityOf[s] \notin disordered =>
                   \/ phase[s] \in {"checking", "committing"}
                   \/ \A r \in Responses : r < s /\ IdentityOf[r] = IdentityOf[s] => r \notin sidecars
    PROVE  InOrder' /\ NewestReached' /\ ChangeKept'
<1>0. \A s \in Responses : Reached(s)' <=> Reached(s)
  BY DEF Reached
<1>1. InOrder'
  <2> SUFFICES ASSUME NEW r \in Responses, NEW s \in Responses,
                      r < s, IdentityOf[r] = IdentityOf[s], IdentityOf[s] \notin disordered',
                      phase'[s] \in {"checking", "committing"} \/ Reached(s)'
               PROVE  r \notin sidecars'
    BY DEF InOrder
  <2>1. IdentityOf[s] \notin disordered
    OBVIOUS
  <2>2. CASE phase[s] \in {"checking", "committing"} \/ Reached(s)
    BY <2>1, <2>2 DEF InOrder
  <2>3. CASE ~(phase[s] \in {"checking", "committing"} \/ Reached(s))
    BY <1>0, <2>1, <2>3
  <2> QED BY <2>2, <2>3
<1>2. NewestReached'
  <2>1. \A i \in Identities : row[i].newest \in Responses \cup {None}
    BY DEF Typed, StateRow
  <2> QED BY <1>0, <2>1 DEF NewestReached
<1>3. ChangeKept'
  <2> SUFFICES ASSUME NEW r \in Responses, NEW s \in Responses,
                      IdentityOf[r] = IdentityOf[s], IdentityOf[r] \notin disordered',
                      r < s, Content(r) # Content(s),
                      \A t \in {r, s} : applied'[t] > 0 \/ t \in sighted',
                      \A t \in r + 1 .. s - 1 : IdentityOf[t] = IdentityOf[r] =>
                          applied'[t] = 0 /\ t \notin sighted' /\ t \notin sidecars'
               PROVE  evidence'[s] # "none"
    BY DEF ChangeKept, Content
  <2>1. ASSUME NEW t \in r + 1 .. s - 1, IdentityOf[t] = IdentityOf[r]
        PROVE  applied[t] = 0 /\ t \notin sighted /\ t \notin sidecars
    <3>1. applied[t] = 0 /\ t \notin sighted /\ t \notin sidecars'
      BY <2>1
    <3> QED BY <3>1 DEF Reached
  <2>2. IdentityOf[r] \notin disordered /\ \A t \in {r, s} : applied[t] > 0 \/ t \in sighted
    OBVIOUS
  <2>3. evidence[s] # "none"
    BY <2>1, <2>2 DEF ChangeKept
  <2> QED BY <2>3
<1> QED BY <1>1, <1>2, <1>3

\* A response newly recorded, compacted only with the newest one of its identity.
LEMMA NewlyReached ==
    ASSUME Typed, Typed', Marked, NewestReached, ChangeKept, NEW x \in Responses,
           \A s \in Responses : Reached(s)' <=> Reached(s) \/ s = x,
           disordered \subseteq disordered', UNCHANGED sidecars,
           \A r \in Responses : evidence[r] # "none" => evidence'[r] # "none",
           IdentityOf[x] \notin disordered' =>
               \A s \in Responses : s > x /\ IdentityOf[s] = IdentityOf[x] => ~Reached(s),
           \/ evidence'[x] # "none" \/ Reached(x)
           \/ Content(row[IdentityOf[x]].newest) = Content(x)
    PROVE  ChangeKept'
<1> SUFFICES ASSUME NEW r \in Responses, NEW s \in Responses,
                    IdentityOf[r] = IdentityOf[s], IdentityOf[r] \notin disordered',
                    r < s, Content(r) # Content(s),
                    \A t \in {r, s} : Reached(t)',
                    \A t \in r + 1 .. s - 1 : IdentityOf[t] = IdentityOf[r] =>
                        ~Reached(t)' /\ t \notin sidecars'
             PROVE  evidence'[s] # "none"
  <2>1. \A t \in Responses : applied'[t] = 0 <=> ~(applied'[t] > 0)
    BY DEF Typed
  <2>2. \A u, v \in Responses : u + 1 .. v - 1 \subseteq Responses
    BY SpoolHandoffConstants DEF Responses
  <2> QED BY <2>1, <2>2 DEF ChangeKept, Reached, Content
<1>0. r \in Nat /\ s \in Nat /\ x \in Nat /\ r + 1 .. s - 1 \subseteq Responses /\ r # None
  BY SpoolHandoffConstants DEF Responses, None
<1>1. CASE Reached(r) /\ Reached(s)
  <2>1. ASSUME NEW t \in r + 1 .. s - 1, IdentityOf[t] = IdentityOf[r]
        PROVE  applied[t] = 0 /\ t \notin sighted /\ t \notin sidecars
    <3>1. t \in Responses /\ applied[t] \in Nat
      BY <1>0 DEF Typed
    <3>2. ~Reached(t) /\ t \notin sidecars
      BY <2>1, <3>1
    <3> QED BY <3>1, <3>2 DEF Reached
  <2>2. IdentityOf[r] \notin disordered /\ \A t \in {r, s} : applied[t] > 0 \/ t \in sighted
    BY <1>1 DEF Reached
  <2>3. evidence[s] # "none"
    BY <2>1, <2>2 DEF ChangeKept
  <2> QED BY <2>3
<1>2. CASE s = x /\ Reached(r) /\ ~Reached(s)
  <2> DEFINE i == IdentityOf[x]
             n == row[i].newest
  <2>1. i \in Identities /\ n \in Responses \cup {None}
    BY SpoolHandoffConstants DEF Typed, StateRow
  <2>2. n >= r
    BY <1>2 DEF Marked, Reached
  <2>3. n \in Responses /\ Reached(n) /\ IdentityOf[n] = i
    BY <1>0, <2>1, <2>2 DEF NewestReached, None
  <2> HIDE DEF n
  <2>4. n \in Nat /\ ~(n > x) /\ n # x
    BY <1>2, <2>3 DEF Responses
  <2>5. ~(n > r)
    <3> SUFFICES ASSUME n > r PROVE FALSE
      OBVIOUS
    <3>1. n \in r + 1 .. s - 1
      BY <1>0, <1>2, <2>4
    <3> QED BY <1>2, <2>3, <3>1
  <2>6. n = r
    BY <1>0, <2>2, <2>4, <2>5
  <2> QED BY <1>2, <2>6 DEF n
<1>3. CASE r = x /\ Reached(s)
  BY <1>3
<1> QED BY <1>1, <1>2, <1>3

\* The newest of the row stays, or r becomes it.
LEMMA SeenNewest ==
    ASSUME Typed, NEW r \in Responses, NEW o, NEW saved, row' = Seen(r, o, saved)
    PROVE  /\ row'[IdentityOf[r]].newest \in {r, row[IdentityOf[r]].newest}
           /\ \A i \in Identities : i # IdentityOf[r] => row'[i] = row[i]
<1> DEFINE new == [newest |-> IF r >= row[IdentityOf[r]].newest THEN r ELSE row[IdentityOf[r]].newest,
                   evidence |-> IF r >= row[IdentityOf[r]].newest THEN o ELSE row[IdentityOf[r]].evidence,
                   marker |-> IF saved THEN r ELSE row[IdentityOf[r]].marker]
<1>1. row' = [row EXCEPT ![IdentityOf[r]] = new]
  BY DEF Seen
<1>2. new.newest \in {r, row[IdentityOf[r]].newest}
  OBVIOUS
<1> HIDE DEF new
<1>3. IdentityOf[r] \in Identities
  BY SpoolHandoffConstants
<1> QED BY <1>1, <1>2, <1>3 DEF Typed

\* The newest rises to one that is recorded.
LEMMA NewestRises ==
    ASSUME Typed, NewestReached, NEW x \in Responses, Reached(x)',
           \A s \in Responses : Reached(s) => Reached(s)',
           row'[IdentityOf[x]].newest \in {x, row[IdentityOf[x]].newest},
           \A i \in Identities : i # IdentityOf[x] => row'[i] = row[i]
    PROVE  NewestReached'
<1>1. \A i \in Identities : row[i].newest \in Responses \cup {None}
  BY DEF Typed, StateRow
<1> QED BY <1>1 DEF NewestReached

\* What record_response does to the newest and to the evidence.
LEMMA RecordSees ==
    ASSUME Typed, Typed', Marked, NEW r \in sidecars, NEW recovering \in BOOLEAN,
           Record(r, recovering)
    PROVE  /\ row'[IdentityOf[r]].newest \in {r, row[IdentityOf[r]].newest}
           /\ \A i \in Identities : i # IdentityOf[r] => row'[i] = row[i]
           /\ \A s \in Responses : evidence[s] # "none" => evidence'[s] # "none"
           /\ \/ evidence'[r] # "none" \/ Reached(r)
              \/ Content(row[IdentityOf[r]].newest) = Content(r)
<1>0. r \in Responses /\ IdentityOf[r] \in Identities
  BY SpoolHandoffConstants DEF Typed
<1>1. CASE Recognised(r, recovering)
  <2>1. row' = row /\ evidence' = evidence
    BY <1>1 DEF Record, tables
  <2>2. applied[r] > 0
    <3>1. row[IdentityOf[r]].marker = r => applied[r] > 0
      <4>1. r # None
        BY <1>0, SpoolHandoffConstants DEF Responses, None
      <4> QED BY <1>0, <4>1 DEF Marked
    <3> QED BY <1>0, <1>1, <3>1 DEF Recognised, Marked
  <2> QED BY <2>1, <2>2 DEF Reached
<1>2. CASE ~Recognised(r, recovering) /\ Compact(r, TRUE)
  <2>1. row' = Seen(r, row[IdentityOf[r]].evidence, TRUE) /\ evidence' = evidence /\ Unchanged(r)
    BY <1>2 DEF Compact
  <2>2. Content(row[IdentityOf[r]].newest) = Content(r)
    BY <2>1 DEF Unchanged
  <2> QED BY <1>0, <2>1, <2>2, SeenNewest
<1>3. CASE ~Recognised(r, recovering) /\ Store(r)
  <2>1. row' = Seen(r, r, TRUE)
    BY <1>3 DEF Store
  <2>2. /\ \A s \in Responses : s # r => evidence'[s] = evidence[s]
        /\ evidence'[r] = "bound" \/ evidence'[r] = "unbound"
    BY <1>0, <1>3, StoreBytes
  <2> QED BY <1>0, <2>1, <2>2, SeenNewest
<1> QED BY <1>1, <1>2, <1>3 DEF Record

\* A saved response recorded when no older one of its identity waits.
LEMMA RecordInOrder ==
    ASSUME IInv, Typed', ChangeInv, NEW r \in sidecars, NEW recovering \in BOOLEAN,
           Record(r, recovering), UNCHANGED <<files, sidecars, sighted, disordered>>,
           IdentityOf[r] \notin disordered =>
               \A s \in sidecars : IdentityOf[s] = IdentityOf[r] => ~(s < r),
           \A s \in Responses : phase'[s] \in {"checking", "committing"} => phase'[s] = phase[s]
    PROVE  InOrder' /\ NewestReached' /\ ChangeKept'
<1>1. /\ Typed /\ HandoffHasBody /\ BytesReachable /\ Marked
      /\ InOrder /\ NewestReached /\ ChangeKept
  BY DEF IInv, BInv, ChangeInv
<1>2. r \in Responses /\ r \in Nat
  BY <1>1 DEF Typed, Responses
<1>3. applied' = [applied EXCEPT ![r] = 1]
  BY <1>1, RecordApplies
<1>4. \A s \in Responses : Reached(s)' <=> Reached(s) \/ s = r
  <2>1. applied'[r] = 1 /\ \A s \in Responses : s # r => applied'[s] = applied[s]
    BY <1>1, <1>2, <1>3 DEF Typed
  <2> QED BY <1>2, <2>1 DEF Reached
<1>5. /\ row'[IdentityOf[r]].newest \in {r, row[IdentityOf[r]].newest}
      /\ \A i \in Identities : i # IdentityOf[r] => row'[i] = row[i]
      /\ \A s \in Responses : evidence[s] # "none" => evidence'[s] # "none"
      /\ \/ evidence'[r] # "none" \/ Reached(r)
         \/ Content(row[IdentityOf[r]].newest) = Content(r)
  BY <1>1, RecordSees
<1>6. ASSUME IdentityOf[r] \notin disordered',
             NEW s \in Responses, s > r, IdentityOf[s] = IdentityOf[r]
      PROVE  ~Reached(s)
  <2>1. r < s
    BY <1>2, <1>6 DEF Responses
  <2> QED BY <1>1, <1>2, <1>6, <2>1 DEF InOrder
<1>7. InOrder'
  <2> SUFFICES ASSUME NEW q \in Responses, NEW s \in Responses,
                      q < s, IdentityOf[q] = IdentityOf[s], IdentityOf[s] \notin disordered',
                      phase'[s] \in {"checking", "committing"} \/ Reached(s)'
               PROVE  q \notin sidecars'
    BY DEF InOrder
  <2>1. CASE phase[s] \in {"checking", "committing"} \/ Reached(s)
    BY <1>1, <2>1 DEF InOrder
  <2>2. CASE s = r
    BY <2>2
  <2> QED BY <1>4, <2>1, <2>2
<1>8. NewestReached'
  BY <1>1, <1>2, <1>4, <1>5, NewestRises
<1>9. ChangeKept'
  BY <1>1, <1>2, <1>4, <1>5, <1>6, NewlyReached
<1> QED BY <1>7, <1>8, <1>9

LEMMA AscendingStands ==
    ASSUME Ascending, UNCHANGED <<turns, recovery>>, disordered \subseteq disordered'
    PROVE  Ascending'
BY DEF Ascending

\* One response moves on, and nothing is recorded.
LEMMA MoveInOrder ==
    ASSUME Typed, ChangeInv, NEW r \in Responses, NEW q, phase' = [phase EXCEPT ![r] = q],
           UNCHANGED <<sidecars, turns, recovery, tables, history>>,
           q \in {"checking", "committing"} /\ IdentityOf[r] \notin disordered =>
               \A s \in sidecars : IdentityOf[s] = IdentityOf[r] => ~(s < r)
    PROVE  ChangeInv'
<1>1. /\ sidecars' = sidecars /\ turns' = turns /\ recovery' = recovery /\ row' = row
      /\ evidence' = evidence /\ applied' = applied /\ sighted' = sighted /\ disordered' = disordered
  BY DEF tables, history
<1>2. InOrder /\ Ascending /\ NewestReached /\ ChangeKept
  BY DEF ChangeInv
<1>3. \A s \in Responses : s # r => phase'[s] = phase[s]
  BY DEF Typed
<1>4. phase'[r] = q
  BY DEF Typed
<1>5. ASSUME NEW s \in Responses, phase'[s] \in {"checking", "committing"}, IdentityOf[s] \notin disordered
      PROVE  \/ phase[s] \in {"checking", "committing"}
             \/ \A t \in Responses : t < s /\ IdentityOf[t] = IdentityOf[s] => t \notin sidecars
  BY <1>3, <1>4, <1>5
<1>6. InOrder' /\ NewestReached' /\ ChangeKept'
  BY <1>1, <1>2, <1>5, HistoryStands
<1>7. Ascending'
  BY <1>1, <1>2, AscendingStands
<1> QED BY <1>6, <1>7 DEF ChangeInv

\* Nothing moves and nothing is recorded.
LEMMA ElsewhereInOrder ==
    ASSUME Typed, ChangeInv,
           UNCHANGED <<sidecars, phase, turns, recovery, applied, sighted, disordered, row>>,
           \A r \in Responses : evidence[r] # "none" => evidence'[r] # "none"
    PROVE  ChangeInv'
<1>1. InOrder /\ Ascending /\ NewestReached /\ ChangeKept
  BY DEF ChangeInv
<1>2. InOrder' /\ NewestReached' /\ ChangeKept'
  BY <1>1, HistoryStands
<1>3. Ascending'
  BY <1>1, AscendingStands
<1> QED BY <1>2, <1>3 DEF ChangeInv

\* An identity with a saved response that has its turn, of a collector that is not
\* paused: all its sidecars are in its turns.
LEMMA AllInTurn ==
    ASSUME Recovering, Turned, Phased, mode \in {"running", "stopping"}, ~paused,
           NEW s \in Responses, s \in sidecars
    PROVE  \E k \in DOMAIN turns[IdentityOf[s]] : turns[IdentityOf[s]][k] = s
<1>1. phase[s] \in Handing /\ phase[s] # "left" /\ recovery = <<>>
  BY DEF Recovering, Phased
<1> QED BY <1>1 DEF Turned

LEMMA CheckInOrder ==
    ASSUME IInv, ChangeInv, NEW r \in Responses, CheckUnchanged(r)
    PROVE  ChangeInv'
<1>1. Typed /\ Phased /\ Recovering /\ Turned
  BY DEF IInv, BInv
<1>2. mode \in {"running", "stopping"} /\ recovery = <<>>
  BY <1>1, Running DEF CheckUnchanged, Resting
<1>3. ~paused /\ turns[IdentityOf[r]] = <<>>
  BY DEF CheckUnchanged
<1>4. \A s \in sidecars : IdentityOf[s] # IdentityOf[r]
  <2> SUFFICES ASSUME NEW s \in sidecars, IdentityOf[s] = IdentityOf[r] PROVE FALSE
    OBVIOUS
  <2>1. s \in Responses
    BY <1>1 DEF Typed
  <2>2. \E k \in DOMAIN turns[IdentityOf[r]] : turns[IdentityOf[r]][k] = s
    BY <1>1, <1>2, <1>3, <2>1, AllInTurn
  <2> QED BY <1>3, <2>2
<1> QED BY <1>1, <1>4, MoveInOrder DEF CheckUnchanged, Idle, disk

LEMMA BeginInOrder ==
    ASSUME IInv, ChangeInv, NEW r \in Responses, BeginCommit(r)
    PROVE  ChangeInv'
<1>1. Typed /\ Phased /\ Recovering /\ Turned /\ Ascending
  BY DEF IInv, BInv, ChangeInv
<1>2. mode \in {"running", "stopping"} /\ recovery = <<>>
  BY <1>1, Running DEF BeginCommit, Resting
<1> DEFINE i == IdentityOf[r]
<1>3. ~paused /\ turns[i] # <<>> /\ i \in Identities /\ turns[i] \in Seq(Responses)
  BY <1>1, SpoolHandoffConstants DEF BeginCommit, Turn, Typed
<1>4. turns[i][1] = r /\ 1 \in DOMAIN turns[i]
  BY <1>3 DEF BeginCommit, Turn
<1>5. ASSUME i \notin disordered, NEW s \in sidecars, IdentityOf[s] = i PROVE ~(s < r)
  <2>1. s \in Responses
    BY <1>1 DEF Typed
  <2>2. PICK k \in DOMAIN turns[i] : turns[i][k] = s
    BY <1>1, <1>2, <1>3, <1>5, <2>1, AllInTurn
  <2>3. k = 1 \/ k > 1
    BY <1>3
  <2>4. k > 1 => r < s
    BY <1>1, <1>3, <1>4, <1>5, <2>2 DEF Ascending
  <2> QED BY <1>4, <2>1, <2>2, <2>3, <2>4 DEF Responses
<1> QED BY <1>1, <1>5, MoveInOrder DEF BeginCommit, Idle, disk

LEMMA MovesInOrder ==
    ASSUME IInv, ChangeInv, NEW r \in Responses, Fetch(r) \/ Publish(r) \/ LockBusy(r)
    PROVE  ChangeInv'
<1>1. Typed
  BY DEF IInv, BInv
<1>2. PICK q \in {"fetched", "lost", "publishing", "saved"} : phase' = [phase EXCEPT ![r] = q]
  BY DEF Fetch, Publish, LockBusy
<1>3. UNCHANGED <<sidecars, turns, recovery, tables, history>>
  BY DEF Fetch, Publish, LockBusy, Idle, disk
<1> QED BY <1>1, <1>2, <1>3, MoveInOrder

\* A response compacted without being saved counts only where none newer came before.
LEMMA FinishInOrder ==
    ASSUME IInv, Typed', ChangeInv, NEW r \in Responses, FinishCheck(r)
    PROVE  ChangeInv'
<1>1. /\ Typed /\ Marked /\ InOrder /\ Ascending /\ NewestReached /\ ChangeKept
  BY DEF IInv, BInv, ChangeInv
<1>2. /\ phase[r] = "checking"
      /\ sidecars' = sidecars /\ turns' = turns /\ recovery' = recovery /\ applied' = applied
  BY DEF FinishCheck, Idle, disk
<1>3. CASE phase' = [phase EXCEPT ![r] = "refused"] /\ UNCHANGED <<known, tables, sighted, disordered>>
  <2>1. UNCHANGED history
    BY <1>2, <1>3 DEF history
  <2> QED BY <1>1, <1>2, <1>3, <2>1, MoveInOrder
<1>4. CASE /\ Compact(r, FALSE) /\ phase' = [phase EXCEPT ![r] = "done"]
           /\ sighted' = sighted \cup {r} /\ Arrives(r)
  <2>1. row' = Seen(r, row[IdentityOf[r]].evidence, FALSE) /\ evidence' = evidence /\ Unchanged(r)
    BY <1>4 DEF Compact
  <2>2. Content(row[IdentityOf[r]].newest) = Content(r)
    BY <2>1 DEF Unchanged
  <2>3. \A s \in Responses : Reached(s)' <=> Reached(s) \/ s = r
    BY <1>2, <1>4 DEF Reached
  <2>4. disordered \subseteq disordered'
    BY <1>4 DEF Arrives
  <2>5. ASSUME IdentityOf[r] \notin disordered',
               NEW s \in Responses, s > r, IdentityOf[s] = IdentityOf[r]
        PROVE  ~Reached(s)
    BY <1>4, <2>5 DEF Arrives, Siblings, Reached
  <2>6. InOrder'
    <3> SUFFICES ASSUME NEW q \in Responses, NEW s \in Responses,
                        q < s, IdentityOf[q] = IdentityOf[s], IdentityOf[s] \notin disordered',
                        phase'[s] \in {"checking", "committing"} \/ Reached(s)'
                 PROVE  q \notin sidecars'
      BY DEF InOrder
    <3>1. phase'[s] \in {"checking", "committing"} => phase'[s] = phase[s]
      BY <1>1, <1>4 DEF Typed
    <3>2. phase[s] \in {"checking", "committing"} \/ Reached(s)
      BY <1>2, <2>3, <3>1
    <3> QED BY <1>1, <1>2, <2>4, <3>2 DEF InOrder
  <2>7. NewestReached'
    <3>1. /\ row'[IdentityOf[r]].newest \in {r, row[IdentityOf[r]].newest}
          /\ \A i \in Identities : i # IdentityOf[r] => row'[i] = row[i]
      BY <1>1, <2>1, SeenNewest
    <3> QED BY <1>1, <2>3, <3>1, NewestRises
  <2>8. ChangeKept'
    <3>1. \A s \in Responses : evidence[s] # "none" => evidence'[s] # "none"
      BY <2>1
    <3> QED BY <1>1, <1>2, <2>2, <2>3, <2>4, <2>5, <3>1, NewlyReached
  <2>9. Ascending'
    BY <1>1, <1>2, <2>4, AscendingStands
  <2> QED BY <2>6, <2>7, <2>8, <2>9 DEF ChangeInv
<1> QED BY <1>3, <1>4 DEF FinishCheck

\* A response that reaches the spool behind a newer one disorders its identity.
LEMMA WriteInOrder ==
    ASSUME IInv, Typed', ChangeInv, NEW r \in Responses, WriteSidecar(r)
    PROVE  ChangeInv'
<1>1. /\ Typed /\ Phased /\ Turned /\ InOrder /\ Ascending /\ NewestReached /\ ChangeKept
  BY DEF IInv, BInv, ChangeInv
<1>2. /\ phase[r] = "publishing" /\ recovery' = recovery /\ row' = row /\ evidence' = evidence
      /\ applied' = applied /\ sighted' = sighted
  BY DEF WriteSidecar, Idle, tables
<1>3. CASE /\ phase' = [phase EXCEPT ![r] = "lost"]
           /\ UNCHANGED <<sidecars, disordered, turns>>
  <2>1. UNCHANGED <<tables, history>>
    BY <1>2, <1>3 DEF WriteSidecar, tables, history
  <2> QED BY <1>1, <1>2, <1>3, <2>1, MoveInOrder
<1>4. ASSUME sidecars' = sidecars \cup {r}, Arrives(r),
             NEW q \in {"saved", "left"}, phase' = [phase EXCEPT ![r] = q],
             \/ turns' = turns
             \/ turns' = [turns EXCEPT ![IdentityOf[r]] = Append(@, r)]
      PROVE  ChangeInv'
  <2>1. phase'[r] = q /\ \A s \in Responses : s # r => phase'[s] = phase[s]
    BY <1>1, <1>4 DEF Typed
  <2>2. disordered \subseteq disordered'
    BY <1>4 DEF Arrives
  <2>3. ASSUME IdentityOf[r] \notin disordered', NEW s \in Responses, s > r, IdentityOf[s] = IdentityOf[r]
        PROVE  s \notin sidecars /\ ~Reached(s) /\ phase[s] \notin {"checking", "committing"}
    <3>1. s \notin sidecars /\ ~Reached(s) /\ phase[s] # "checking"
      BY <1>4, <2>3 DEF Arrives, Siblings, Reached
    <3>2. phase[s] # "committing"
      BY <1>1, <3>1 DEF Phased, Handing
    <3> QED BY <3>1, <3>2
  <2>4. \A s \in Responses : Reached(s)' <=> Reached(s)
    BY <1>2 DEF Reached
  <2>5. InOrder'
    <3> SUFFICES ASSUME NEW t \in Responses, NEW s \in Responses,
                        t < s, IdentityOf[t] = IdentityOf[s], IdentityOf[s] \notin disordered',
                        phase'[s] \in {"checking", "committing"} \/ Reached(s)'
                 PROVE  t \notin sidecars'
      BY DEF InOrder
    <3>1. phase[s] \in {"checking", "committing"} \/ Reached(s)
      BY <2>1, <2>4
    <3>2. t \notin sidecars
      BY <1>1, <2>2, <3>1 DEF InOrder
    <3>3. t # r
      <4>1. t = r => s > r
        BY DEF Responses
      <4> QED BY <2>3, <3>1, <4>1
    <3> QED BY <1>4, <3>2, <3>3
  <2>6. NewestReached'
    <3>1. \A i \in Identities : row[i].newest \in Responses \cup {None}
      BY <1>1 DEF Typed, StateRow
    <3> QED BY <1>1, <1>2, <2>4, <3>1 DEF NewestReached
  <2>7. ChangeKept'
    <3> SUFFICES ASSUME NEW t \in Responses, NEW s \in Responses,
                        IdentityOf[t] = IdentityOf[s], IdentityOf[t] \notin disordered',
                        t < s, Content(t) # Content(s),
                        \A u \in {t, s} : applied'[u] > 0 \/ u \in sighted',
                        \A u \in t + 1 .. s - 1 : IdentityOf[u] = IdentityOf[t] =>
                            applied'[u] = 0 /\ u \notin sighted' /\ u \notin sidecars'
                 PROVE  evidence'[s] # "none"
      BY DEF ChangeKept, Content
    <3>1. \A u \in t + 1 .. s - 1 : IdentityOf[u] = IdentityOf[t] =>
              applied[u] = 0 /\ u \notin sighted /\ u \notin sidecars
      BY <1>2, <1>4
    <3>2. IdentityOf[t] \notin disordered /\ \A u \in {t, s} : applied[u] > 0 \/ u \in sighted
      BY <1>2, <2>2
    <3>3. evidence[s] # "none"
      BY <1>1, <3>1, <3>2 DEF ChangeKept
    <3> QED BY <1>2, <3>3
  <2>8. CASE turns' = turns
    <3>1. Ascending'
      BY <1>1, <1>2, <2>2, <2>8, AscendingStands
    <3> QED BY <2>5, <2>6, <2>7, <3>1 DEF ChangeInv
  <2>9. CASE turns' = [turns EXCEPT ![IdentityOf[r]] = Append(@, r)]
    <3> DEFINE i == IdentityOf[r]
    <3>1. i \in Identities /\ turns[i] \in Seq(Responses) /\ r \notin sidecars /\ r \in Nat
      <4>1. i \in Identities /\ r \in Nat
        BY SpoolHandoffConstants DEF Responses
      <4>2. turns[i] \in Seq(Responses)
        BY <1>1, <4>1 DEF Typed
      <4>3. r \notin sidecars
        BY <1>1 DEF Phased, Handing, WriteSidecar
      <4> QED BY <4>1, <4>2, <4>3
    <3>2. turns'[i] = Append(turns[i], r) /\ \A j \in Identities : j # i => turns'[j] = turns[j]
      BY <1>1, <2>9, <3>1 DEF Typed
    <3>3. ASSUME i \notin disordered', NEW j \in DOMAIN turns'[i], NEW k \in DOMAIN turns'[i], j < k
          PROVE  turns'[i][j] < turns'[i][k]
      <4>1. /\ DOMAIN turns[i] = 1 .. Len(turns[i]) /\ Len(turns[i]) \in Nat
            /\ DOMAIN turns'[i] = 1 .. Len(turns[i]) + 1
            /\ turns'[i][Len(turns[i]) + 1] = r
            /\ \A m \in 1 .. Len(turns[i]) : turns'[i][m] = turns[i][m]
        BY <3>1, <3>2
      <4>2. j \in DOMAIN turns[i] /\ turns'[i][j] = turns[i][j]
        BY <3>3, <4>1
      <4>3. CASE k \in DOMAIN turns[i]
        <5>1. turns'[i][k] = turns[i][k] /\ i \notin disordered
          BY <2>2, <3>3, <4>1, <4>3
        <5> QED BY <1>1, <3>1, <3>3, <4>2, <4>3, <5>1 DEF Ascending
      <4>4. CASE k = Len(turns[i]) + 1
        <5>1. turns[i][j] \in Responses
          BY <3>1, <4>2
        <5>3. IdentityOf[turns[i][j]] = i /\ phase[turns[i][j]] \in Handing
          BY <1>1, <3>1, <4>2 DEF Turned
        <5>4. turns[i][j] \in sidecars
          BY <1>1, <5>1, <5>3 DEF Phased
        <5>2. turns[i][j] # r /\ ~(turns[i][j] > r) /\ turns[i][j] \in Nat
          BY <2>3, <3>1, <3>3, <5>1, <5>3, <5>4 DEF Responses
        <5>5. turns[i][j] < r
          BY <3>1, <5>2
        <5>6. turns'[i][k] = r
          BY <4>1, <4>4
        <5> QED BY <4>2, <5>5, <5>6
      <4>5. k \in DOMAIN turns[i] \/ k = Len(turns[i]) + 1
        <5>1. k \in 1 .. Len(turns[i]) + 1 /\ Len(turns[i]) \in Nat
          BY <3>3, <4>1
        <5>2. k \in 1 .. Len(turns[i]) \/ k = Len(turns[i]) + 1
          BY <5>1
        <5> QED BY <4>1, <5>2
      <4> QED BY <4>3, <4>4, <4>5
    <3>4. Ascending'
      <4>1. ASSUME NEW l \in Identities, l \notin disordered',
                   NEW j \in DOMAIN turns'[l], NEW k \in DOMAIN turns'[l], j < k
            PROVE  turns'[l][j] < turns'[l][k]
        <5>1. CASE l = i
          BY <3>3, <4>1, <5>1
        <5>2. CASE l # i
          BY <1>1, <2>2, <3>2, <4>1, <5>2 DEF Ascending
        <5> QED BY <5>1, <5>2
      <4>2. \A j, k \in DOMAIN recovery' :
                /\ j < k /\ IdentityOf[recovery'[j]] = IdentityOf[recovery'[k]]
                /\ IdentityOf[recovery'[k]] \notin disordered'
                => recovery'[j] < recovery'[k]
        BY <1>1, <1>2, <2>2 DEF Ascending
      <4> QED BY <4>1, <4>2 DEF Ascending
    <3> QED BY <2>5, <2>6, <2>7, <3>4 DEF ChangeInv
  <2> QED BY <1>4, <2>8, <2>9
<1>5. CASE /\ sidecars' = sidecars \cup {r}
           /\ turns' = [turns EXCEPT ![IdentityOf[r]] = Append(@, r)]
           /\ phase' = [phase EXCEPT ![r] = "saved"]
           /\ Arrives(r)
  BY <1>4, <1>5
<1>6. CASE /\ phase' = [phase EXCEPT ![r] = "left"]
           /\ sidecars' = sidecars \cup {r} /\ Arrives(r) /\ turns' = turns
  BY <1>4, <1>6
<1> QED BY <1>3, <1>5, <1>6 DEF WriteSidecar

\* The next of an identity has its turn, and the turns still rise.
LEMMA SettleRises ==
    ASSUME Typed, Turned, Ascending, NEW r \in Responses, NEW q, Settle(r, q),
           UNCHANGED <<recovery, disordered>>
    PROVE  Ascending' /\ phase' = [phase EXCEPT ![r] = q]
<1> DEFINE i == IdentityOf[r]
           new == RemoveFirst(turns[i], r)
<1>1. i \in Identities /\ turns[i] \in Seq(Responses)
  BY SpoolHandoffConstants DEF Typed
<1>2. turns' = [turns EXCEPT ![i] = new] /\ phase' = [phase EXCEPT ![r] = q]
  BY DEF Settle
<1>3. \A j, k \in DOMAIN new : j < k => \E l, m \in DOMAIN turns[i] :
          l < m /\ new[j] = turns[i][l] /\ new[k] = turns[i][m]
  <2>1. \A j, k \in DOMAIN turns[i] : turns[i][j] = turns[i][k] => j = k
    BY <1>1 DEF Turned
  <2> QED BY <1>1, <2>1, RemovedRises
<1> HIDE DEF new
<1>4. turns'[i] = new /\ \A j \in Identities : j # i => turns'[j] = turns[j]
  BY <1>1, <1>2 DEF Typed
<1>5. ASSUME NEW h \in Identities, h \notin disordered',
             NEW j \in DOMAIN turns'[h], NEW k \in DOMAIN turns'[h], j < k
      PROVE  turns'[h][j] < turns'[h][k]
  <2>1. CASE h = i
    <3>1. PICK l \in DOMAIN turns[i], m \in DOMAIN turns[i] :
             l < m /\ new[j] = turns[i][l] /\ new[k] = turns[i][m]
      BY <1>3, <1>4, <1>5, <2>1
    <3> QED BY <1>1, <1>4, <1>5, <2>1, <3>1 DEF Ascending
  <2>2. CASE h # i
    BY <1>4, <1>5, <2>2 DEF Ascending
  <2> QED BY <2>1, <2>2
<1>6. \A j, k \in DOMAIN recovery' :
          /\ j < k /\ IdentityOf[recovery'[j]] = IdentityOf[recovery'[k]]
          /\ IdentityOf[recovery'[k]] \notin disordered'
          => recovery'[j] < recovery'[k]
  BY DEF Ascending
<1> QED BY <1>2, <1>5, <1>6 DEF Ascending

\* The one being committed is the oldest of its identity with a sidecar.
LEMMA CommitInOrder ==
    ASSUME IInv, Typed', ChangeInv, NEW r \in Responses, phase[r] = "committing",
           Record(r, FALSE), UNCHANGED <<files, sidecars, sighted, disordered>>,
           NEW q \in {"recorded", "left"}, phase' = [phase EXCEPT ![r] = q]
    PROVE  InOrder' /\ NewestReached' /\ ChangeKept'
<1>1. Typed /\ Phased /\ InOrder
  BY DEF IInv, BInv, ChangeInv
<1>2. r \in sidecars
  BY <1>1 DEF Phased, Handing
<1>3. \A s \in Responses : phase'[s] \in {"checking", "committing"} => phase'[s] = phase[s]
  BY <1>1 DEF Typed
<1>4. IdentityOf[r] \notin disordered =>
          \A s \in sidecars : IdentityOf[s] = IdentityOf[r] => ~(s < r)
  BY <1>1 DEF InOrder, Typed
<1> QED BY <1>2, <1>3, <1>4, RecordInOrder

LEMMA CommitResponseInOrder ==
    ASSUME IInv, Typed', ChangeInv, NEW r \in Responses, CommitResponse(r)
    PROVE  ChangeInv'
<1>1. /\ phase[r] = "committing" /\ Record(r, FALSE) /\ phase' = [phase EXCEPT ![r] = "recorded"]
      /\ UNCHANGED <<files, sidecars, sighted, disordered, turns, recovery>>
  BY DEF CommitResponse, Idle, disk
<1>2. InOrder' /\ NewestReached' /\ ChangeKept'
  BY <1>1, CommitInOrder
<1>3. Ascending'
  BY <1>1, AscendingStands DEF ChangeInv
<1> QED BY <1>2, <1>3 DEF ChangeInv

LEMMA CommitFailsInOrder ==
    ASSUME IInv, Typed', ChangeInv, NEW r \in Responses, CommitFails(r)
    PROVE  ChangeInv'
<1>1. /\ phase[r] = "committing" /\ Settle(r, "left")
      /\ UNCHANGED <<files, sidecars, sighted, disordered, recovery>>
  BY DEF CommitFails, Idle, disk
<1>2. Typed /\ Turned /\ InOrder /\ Ascending /\ NewestReached /\ ChangeKept
  BY DEF IInv, BInv, ChangeInv
<1>3. Ascending' /\ phase' = [phase EXCEPT ![r] = "left"]
  BY <1>1, <1>2, SettleRises
<1>4. CASE Record(r, FALSE)
  <2>1. InOrder' /\ NewestReached' /\ ChangeKept'
    BY <1>1, <1>3, <1>4, CommitInOrder
  <2> QED BY <1>3, <2>1 DEF ChangeInv
<1>5. CASE UNCHANGED <<tables, applied>>
  <2>1. row' = row /\ evidence' = evidence /\ applied' = applied
    BY <1>5 DEF tables
  <2>2. \A s \in Responses : phase'[s] \in {"checking", "committing"} => phase'[s] = phase[s]
    BY <1>2, <1>3 DEF Typed
  <2>3. InOrder' /\ NewestReached' /\ ChangeKept'
    BY <1>1, <1>2, <2>1, <2>2, HistoryStands
  <2> QED BY <1>3, <2>3 DEF ChangeInv
<1> QED BY <1>4, <1>5 DEF CommitFails

\* A sidecar goes, or stays for restart recovery, once its response is settled.
LEMMA SettledInOrder ==
    ASSUME IInv, ChangeInv, NEW r \in Responses, RemoveSidecar(r) \/ LeaveSaved(r)
    PROVE  ChangeInv'
<1>1. PICK q \in {"left", "done"} : Settle(r, q)
  BY DEF RemoveSidecar, LeaveSaved
<1>2. /\ UNCHANGED <<tables, history, recovery>>
      /\ sidecars' = sidecars \/ (phase[r] = "recorded" /\ sidecars' = sidecars \ {r})
  BY DEF RemoveSidecar, LeaveSaved, Idle, disk
<1>3. /\ row' = row /\ evidence' = evidence
      /\ applied' = applied /\ sighted' = sighted /\ disordered' = disordered
  BY <1>2 DEF tables, history
<1>4. Typed /\ Turned /\ Marked /\ InOrder /\ Ascending /\ NewestReached /\ ChangeKept
  BY DEF IInv, BInv, ChangeInv
<1>5. Ascending' /\ phase' = [phase EXCEPT ![r] = q]
  BY <1>1, <1>2, <1>3, <1>4, SettleRises
<1>6. \A s \in Responses : phase'[s] \in {"checking", "committing"} => phase'[s] = phase[s]
  BY <1>4, <1>5 DEF Typed
<1>7. sidecars' \subseteq sidecars /\ \A s \in sidecars \ sidecars' : Reached(s)
  BY <1>2, <1>4 DEF Marked, Reached
<1>8. InOrder' /\ NewestReached' /\ ChangeKept'
  BY <1>3, <1>4, <1>6, <1>7, HistoryStands
<1> QED BY <1>5, <1>8 DEF ChangeInv

\* The process dies: nothing is being checked or committed, and no turns are left.
LEMMA DeadInOrder == ASSUME IInv, ChangeInv, Dead PROVE ChangeInv'
<1>1. Typed /\ InOrder /\ NewestReached /\ ChangeKept
  BY DEF IInv, BInv, ChangeInv
<1>2. /\ row' = row /\ evidence' = evidence /\ sidecars' = sidecars
      /\ applied' = applied /\ sighted' = sighted /\ disordered' = disordered
  BY DEF Dead, disk, tables, history
<1>3. \A s \in Responses : phase'[s] \notin {"checking", "committing"}
  BY DEF Dead
<1>4. InOrder' /\ NewestReached' /\ ChangeKept'
  BY <1>1, <1>2, <1>3, HistoryStands
<1>5. recovery' = <<>> /\ \A i \in Identities : turns'[i] = <<>>
  BY DEF Dead
<1>6. Ascending'
  BY <1>5 DEF Ascending
<1> QED BY <1>4, <1>6 DEF ChangeInv

\* The recovery list rises for an identity whose responses came in order: of its
\* sidecars only the oldest may have been applied, and that one comes first.
LEMMA RestartInOrder == ASSUME IInv, ChangeInv, Restart PROVE ChangeInv'
<1>1. Typed /\ Marked /\ InOrder /\ Ascending /\ NewestReached /\ ChangeKept
  BY DEF IInv, BInv, ChangeInv
<1>2. /\ row' = row /\ evidence' = evidence /\ sidecars' = sidecars /\ turns' = turns
      /\ applied' = applied /\ sighted' = sighted /\ disordered' = disordered /\ phase' = phase
      /\ recovery' = RecoveryOrder(sidecars)
  BY DEF Restart, disk, memory, tables, history
<1>3. InOrder' /\ NewestReached' /\ ChangeKept'
  BY <1>1, <1>2, HistoryStands
<1>4. ASSUME NEW j \in DOMAIN recovery', NEW k \in DOMAIN recovery', j < k,
             IdentityOf[recovery'[j]] = IdentityOf[recovery'[k]],
             IdentityOf[recovery'[k]] \notin disordered'
      PROVE  recovery'[j] < recovery'[k]
  <2> DEFINE a == recovery'[j]
             b == recovery'[k]
  <2>1. a \in sidecars /\ b \in sidecars
    BY <1>1, <1>2, <1>4, RecoveryOrderList DEF Typed
  <2>2. a \in Responses /\ b \in Responses /\ a \in Nat /\ b \in Nat /\ a # None
    <3>1. a \in Responses /\ b \in Responses
      BY <1>1, <2>1 DEF Typed
    <3> HIDE DEF a, b
    <3>2. \A s \in Responses : s \in Nat /\ s # None
      BY DEF Responses, None
    <3> QED BY <3>1, <3>2
  <2>3. a < b \/ (Applied(a) /\ ~Applied(b))
    BY <1>1, <1>2, <1>4, RecoveryOrderRises DEF Typed
  <2>4. CASE Applied(a) /\ ~Applied(b)
    <3>1. IdentityOf[a] \in Identities
      BY <2>2, SpoolHandoffConstants
    <3>2. applied[a] > 0
      BY <1>1, <2>2, <2>4, <3>1 DEF Marked, Applied
    <3>3. ~(b < a)
      BY <1>1, <1>2, <1>4, <2>1, <2>2, <3>2 DEF InOrder, Reached
    <3>4. a # b
      BY <2>4
    <3> QED BY <2>2, <3>3, <3>4
  <2> QED BY <2>3, <2>4
<1>5. Ascending'
  BY <1>1, <1>2, <1>4 DEF Ascending
<1> QED BY <1>3, <1>5 DEF ChangeInv

\* Recovery commits the head of its list, which holds every sidecar.
LEMMA RecoverResponseInOrder ==
    ASSUME IInv, Typed', ChangeInv, RecoverResponse
    PROVE  ChangeInv'
<1> DEFINE r == Head(recovery)
<1>1. Typed /\ Phased /\ Recovering /\ Ascending
  BY DEF IInv, BInv, ChangeInv
<1>2. /\ recovery \in Seq(Responses) /\ recovery # <<>> /\ mode = "recovering"
      /\ r = recovery[1] /\ 1 \in DOMAIN recovery /\ DOMAIN recovery \subseteq Nat \ {0}
  BY <1>1 DEF Typed, RecoverResponse
<1>3. /\ Record(r, TRUE) /\ phase' = [phase EXCEPT ![r] = "recorded"]
      /\ UNCHANGED <<files, sidecars, sighted, disordered, turns, recovery>>
  BY DEF RecoverResponse, disk
<1> HIDE DEF r
<1>4. r \in sidecars /\ r \in Responses
  BY <1>1, <1>2 DEF Recovering, Typed
<1>5. ASSUME IdentityOf[r] \notin disordered, NEW s \in sidecars, IdentityOf[s] = IdentityOf[r]
      PROVE  ~(s < r)
  <2>1. s \in Responses /\ phase[s] \in Handing
    BY <1>1 DEF Typed, Phased
  <2>2. PICK k \in DOMAIN recovery : recovery[k] = s
    BY <1>1, <1>2, <2>1 DEF Recovering, Handing, Resting
  <2>3. k = 1 \/ 1 < k
    BY <1>2
  <2>4. 1 < k => r < s
    BY <1>1, <1>2, <1>5, <2>2 DEF Ascending
  <2> QED BY <1>2, <1>4, <2>1, <2>2, <2>3, <2>4 DEF Responses
<1>6. \A s \in Responses : phase'[s] \in {"checking", "committing"} => phase'[s] = phase[s]
  BY <1>1, <1>3, <1>4 DEF Typed
<1>7. InOrder' /\ NewestReached' /\ ChangeKept'
  BY <1>3, <1>4, <1>5, <1>6, RecordInOrder
<1>8. Ascending'
  BY <1>1, <1>3, AscendingStands
<1> QED BY <1>7, <1>8 DEF ChangeInv

LEMMA RecoverSidecarInOrder == ASSUME IInv, ChangeInv, RecoverSidecar PROVE ChangeInv'
<1> DEFINE r == Head(recovery)
<1>1. /\ Typed /\ Recovering /\ Marked
      /\ InOrder /\ Ascending /\ NewestReached /\ ChangeKept
  BY DEF IInv, BInv, ChangeInv
<1>2. /\ recovery \in Seq(Responses) /\ recovery # <<>> /\ r = recovery[1] /\ 1 \in DOMAIN recovery
  BY <1>1 DEF Typed, RecoverSidecar
<1>3. /\ phase[r] = "recorded" /\ sidecars' = sidecars \ {r}
      /\ phase' = [phase EXCEPT ![r] = "done"] /\ recovery' = Tail(recovery)
      /\ turns' = turns /\ row' = row /\ evidence' = evidence
      /\ applied' = applied /\ sighted' = sighted /\ disordered' = disordered
  BY DEF RecoverSidecar, tables, history
<1>4. \A k \in DOMAIN recovery' : /\ recovery'[k] = recovery[k + 1]
                                  /\ k + 1 \in DOMAIN recovery /\ k \in Nat
  <2>1. /\ Len(Tail(recovery)) = Len(recovery) - 1 /\ Len(recovery) \in Nat
        /\ DOMAIN Tail(recovery) = 1 .. Len(recovery) - 1 /\ DOMAIN recovery = 1 .. Len(recovery)
        /\ \A k \in 1 .. Len(recovery) - 1 : Tail(recovery)[k] = recovery[k + 1]
    BY <1>2
  <2> QED BY <1>3, <2>1
<1> HIDE DEF r
<1>5. r \in Responses /\ Reached(r)
  <2>1. r \in Responses
    BY <1>2
  <2> QED BY <1>1, <1>3, <2>1 DEF Marked, Reached
<1>6. \A s \in Responses : phase'[s] \in {"checking", "committing"} => phase'[s] = phase[s]
  BY <1>1, <1>3, <1>5 DEF Typed
<1>7. InOrder' /\ NewestReached' /\ ChangeKept'
  BY <1>1, <1>3, <1>5, <1>6, HistoryStands
<1>8. ASSUME NEW j \in DOMAIN recovery', NEW k \in DOMAIN recovery', j < k,
             IdentityOf[recovery'[j]] = IdentityOf[recovery'[k]],
             IdentityOf[recovery'[k]] \notin disordered'
      PROVE  recovery'[j] < recovery'[k]
  <2>1. /\ recovery'[j] = recovery[j + 1] /\ recovery'[k] = recovery[k + 1]
        /\ j + 1 \in DOMAIN recovery /\ k + 1 \in DOMAIN recovery /\ j + 1 < k + 1
    BY <1>4, <1>8
  <2> QED BY <1>1, <1>3, <1>8, <2>1 DEF Ascending
<1>9. Ascending'
  BY <1>1, <1>3, <1>8 DEF Ascending
<1> QED BY <1>7, <1>9 DEF ChangeInv

LEMMA RecoveryBusyInOrder == ASSUME IInv, ChangeInv, RecoveryBusy PROVE ChangeInv'
<1>1. Typed /\ InOrder /\ Ascending /\ NewestReached /\ ChangeKept
  BY DEF IInv, BInv, ChangeInv
<1>2. /\ phase' = [s \in Responses |-> IF s \in ToSet(recovery) THEN "saved" ELSE phase[s]]
      /\ turns' = [i \in Identities |-> OfIdentity(recovery, i)] /\ recovery' = <<>>
      /\ sidecars' = sidecars /\ row' = row /\ evidence' = evidence
      /\ applied' = applied /\ sighted' = sighted /\ disordered' = disordered
  BY DEF RecoveryBusy, disk, tables, history
<1>3. \A s \in Responses : phase'[s] \in {"checking", "committing"} => phase'[s] = phase[s]
  BY <1>2
<1>4. InOrder' /\ NewestReached' /\ ChangeKept'
  BY <1>1, <1>2, <1>3, HistoryStands
<1>5. ASSUME NEW i \in Identities, i \notin disordered',
             NEW j \in DOMAIN turns'[i], NEW k \in DOMAIN turns'[i], j < k
      PROVE  turns'[i][j] < turns'[i][k]
  <2>1. turns'[i] = OfIdentity(recovery, i) /\ recovery \in Seq(Responses)
    BY <1>1, <1>2 DEF Typed
  <2>2. PICK l \in DOMAIN recovery, m \in DOMAIN recovery :
           /\ l < m /\ turns'[i][j] = recovery[l] /\ turns'[i][k] = recovery[m]
           /\ IdentityOf[recovery[l]] = i /\ IdentityOf[recovery[m]] = i
    BY <1>5, <2>1, OfIdentityRises
  <2> QED BY <1>1, <1>2, <1>5, <2>2 DEF Ascending
<1>6. Ascending'
  BY <1>2, <1>5 DEF Ascending
<1> QED BY <1>4, <1>6 DEF ChangeInv

\* The passes, the uploads process, the worker and retirement.
LEMMA PassesInOrder ==
    ASSUME IInv, ChangeInv, NEW b, NEW r, NEW kind, NEW chosen,
           \/ StartPass(kind, chosen) \/ CleanStep \/ Stop
           \/ UploadBody(b) \/ RetireBody(b) \/ Process(r) \/ UNCHANGED vars
    PROVE  ChangeInv'
<1>1. Typed
  BY DEF IInv, BInv
<1>2. /\ sidecars' = sidecars /\ phase' = phase /\ turns' = turns /\ recovery' = recovery
      /\ applied' = applied /\ sighted' = sighted /\ disordered' = disordered /\ row' = row
  BY DEF StartPass, CleanStep, TakeBarrier, SweepFiles, CleanupFiles, CleanupRows, Stop,
         UploadBody, RetireBody, Process, Outside, Quiet, disk, memory, tables, history, vars
<1>3. \A s \in Responses : evidence[s] # "none" => evidence'[s] # "none"
  BY DEF StartPass, CleanStep, TakeBarrier, SweepFiles, CleanupFiles, CleanupRows, Stop,
         UploadBody, RetireBody, Process, tables, vars
<1> QED BY <1>1, <1>2, <1>3, ElsewhereInOrder

LEMMA ChangeStep == ASSUME IInv, ChangeInv, [Next]_vars PROVE ChangeInv'
<1>1. Typed'
  BY StepKeeps DEF IInv, BInv
<1>2. ASSUME NEW r \in Responses,
             Fetch(r) \/ CheckUnchanged(r) \/ CollectStep(r) \/ LockBusy(r) \/ CommitFails(r)
      PROVE  ChangeInv'
  BY <1>1, <1>2, MovesInOrder, CheckInOrder, FinishInOrder, WriteInOrder, BeginInOrder,
     CommitResponseInOrder, SettledInOrder, CommitFailsInOrder DEF CollectStep
<1>3. ASSUME Crash \/ Kill \/ Exit PROVE ChangeInv'
  BY <1>3, DeadInOrder DEF Crash, Kill, Exit
<1>4. ASSUME Restart \/ RecoverResponse \/ RecoverSidecar \/ RecoveryBusy PROVE ChangeInv'
  BY <1>1, <1>4, RestartInOrder, RecoverResponseInOrder, RecoverSidecarInOrder, RecoveryBusyInOrder
<1>5. ASSUME NEW b, NEW r, NEW kind, NEW chosen,
             \/ StartPass(kind, chosen) \/ CleanStep \/ Stop
             \/ UploadBody(b) \/ RetireBody(b) \/ Process(r) \/ UNCHANGED vars
      PROVE  ChangeInv'
  BY <1>5, PassesInOrder
<1> QED BY <1>2, <1>3, <1>4, <1>5 DEF Next

\* Of an identity whose responses reached the spool as they were received, no change
\* is compacted away, through background commits, pauses, crashes and recoveries
\* (collector_commits, recover_handoffs, _record_unchanged).
THEOREM ChangesAreKept == Spec => []ChangeKept
<1>1. Init => ChangeInv
  BY InitChange
<1>2. IInv /\ ChangeInv /\ [Next]_vars => ChangeInv'
  BY ChangeStep
<1>3. ChangeInv => ChangeKept
  BY DEF ChangeInv
<1> QED BY <1>1, <1>2, <1>3, Invariance, PTL DEF Spec
=============================================================================
