----------------------- MODULE ProviderRequestsProofs -----------------------
(***************************************************************************)
(* Proofs about ProviderRequests for every set of requests and keys and    *)
(* every limit.                                                            *)
(*                                                                         *)
(* The inductive invariant joins the three invariants the runs check       *)
(* (EverySlotServes, SleepersAreWoken) with two facts about the parts they *)
(* speak of: which places of a fetch go with a slot, with the recovery     *)
(* probe and with a wait for leave (Sound), and that a request waits once  *)
(* in the queue (Lined).  _dispatch is where slots, queue and requests     *)
(* meet, so what it keeps is one lemma (DispatchServes), for any keys,     *)
(* queue and requests that fit each other; each end of a fetch then only   *)
(* has to show that what it gives back leaves them fitting.                *)
(***************************************************************************)
EXTENDS ProviderRequests, FiniteSetTheorems, FunctionTheorems, SequenceTheorems, TLAPS

\* One request: only one that has a slot has a key; only one that may be about to
\* start asks for leave; only one past admit() is the probe.
Sound(q) ==
    /\ HasSlot(q) <=> q.key # NoKey
    /\ q.leave # "none" => q.at \in {"admitting", "running", "gone"}
    /\ q.at = "admitting" => q.leave # "none"
    /\ q.probe => HasConnection(q) /\ q.leave \in {"none", "starting"}

\* The queue is the waiting requests, each once.
Lined(waiting, requests) ==
    /\ waiting \in Seq(Requests)
    /\ \A i, j \in DOMAIN waiting : waiting[i] = waiting[j] => i = j
    /\ \A r \in Requests :
           requests[r].at = "queued" <=> \E i \in DOMAIN waiting : waiting[i] = r

Holders(requests, k) == {r \in Requests : HasSlot(requests[r]) /\ requests[r].key = k}
Connected(requests) == {r \in Requests : HasConnection(requests[r])}

\* Keys, queue and requests that _dispatch may be given.
Fit(keys, waiting, requests) ==
    /\ keys \in [Keys -> KeyState]
    /\ requests \in [Requests -> Request]
    /\ \A r \in Requests : Sound(requests[r])
    /\ Lined(waiting, requests)
    /\ \A k \in Keys : keys[k].active = Cardinality(Holders(requests, k))

\* No request waits while a slot is free (QueueServed, of any state).
Served(keys, waiting) ==
    waiting # <<>> => /\ \E k \in Keys : keys[k].healthy
                      /\ \A k \in Takeable(keys) : keys[k].due

Probes(requests) == {r \in Requests : requests[r].probe /\ requests[r].at # "gone"}

\* SleepersAreWoken, of any outage and requests, its one probe said without counting.
Watched(o, requests) ==
    /\ \A r, s \in Probes(requests) : r = s
    /\ Probes(requests) # {} => o.probing
    /\ \A r \in Requests :
        /\ requests[r].leave \in {"timed", "untimed"} => o.delay > 0 /\ ~o.stopped
        /\ requests[r].leave = "untimed" => o.probing /\ ~o.paused

IInv ==
    /\ Fit(key, queue, request)
    /\ Served(key, queue)
    /\ Watched(outage, request)
    /\ outage \in Outage
    /\ free \in 0 .. Connections
    /\ free = Connections - Cardinality(Connected(request))

-----------------------------------------------------------------------------
(* What the invariant says of the runs' properties *)

LEMMA FiniteParts ==
    ASSUME NEW requests, NEW k
    PROVE  /\ IsFiniteSet(Holders(requests, k)) /\ Cardinality(Holders(requests, k)) \in Nat
           /\ IsFiniteSet(Connected(requests)) /\ Cardinality(Connected(requests)) \in Nat
           /\ IsFiniteSet(Probes(requests)) /\ Cardinality(Probes(requests)) \in Nat
<1>1. /\ Holders(requests, k) \in SUBSET Requests
      /\ Connected(requests) \in SUBSET Requests
      /\ Probes(requests) \in SUBSET Requests
  BY DEF Holders, Connected, Probes
<1> QED BY <1>1, ProviderConstants, FS_Subset, FS_CardinalityType

\* A finite set with no two elements has at most one.
LEMMA AtMostOne ==
    ASSUME NEW S, IsFiniteSet(S), \A x, y \in S : x = y
    PROVE  Cardinality(S) <= 1
<1>1. CASE S = {}
  BY <1>1, FS_EmptySet
<1>2. CASE S # {}
  <2>1. PICK x : x \in S
    BY <1>2
  <2>2. S = {x}
    BY <2>1
  <2> QED BY <2>2, FS_Singleton
<1> QED BY <1>1, <1>2

LEMMA InvariantSuffices == IInv => EverySlotServes /\ SleepersAreWoken
<1> SUFFICES ASSUME IInv PROVE EverySlotServes /\ SleepersAreWoken
  OBVIOUS
<1>1. TypeOK
  BY DEF IInv, Fit, Lined, TypeOK
<1>2. SlotsHeld
  BY <1>1 DEF IInv, Fit, SlotsHeld, Holders, Connected
<1>3. QueueServed
  BY DEF IInv, Fit, Lined, Served, QueueServed
<1>4. SleepersAreWoken
  <2>1. Cardinality(Probes(request)) <= 1
    BY FiniteParts, AtMostOne DEF IInv, Watched
  <2> QED BY <2>1 DEF IInv, Watched, Probes, SleepersAreWoken, Active
<1> QED BY <1>2, <1>3, <1>4 DEF EverySlotServes

LEMMA InitIInv == Init => IInv
<1> SUFFICES ASSUME Init PROVE IInv
  OBVIOUS
<1> USE DEF Init
<1>1. /\ \A k \in Keys : Holders(request, k) = {}
      /\ Connected(request) = {} /\ Probes(request) = {}
  BY DEF Holders, Connected, Probes, HasSlot, HasConnection, Idle
<1>2. Fit(key, queue, request)
  <2>1. key \in [Keys -> KeyState] /\ request \in [Requests -> Request]
    BY ProviderConstants DEF KeyState, Request, Idle
  <2>2. \A r \in Requests : Sound(request[r])
    BY DEF Sound, Idle, HasSlot, HasConnection
  <2>3. Lined(queue, request)
    BY DEF Lined, Idle
  <2> QED BY <1>1, <2>1, <2>2, <2>3, FS_EmptySet DEF Fit
<1>3. Watched(outage, request)
  BY <1>1 DEF Watched, Idle
<1>4. outage \in Outage /\ Served(key, queue)
  BY ProviderConstants DEF Outage, Served
<1>5. free \in 0 .. Connections /\ free = Connections - Cardinality(Connected(request))
  <2>1. Cardinality(Connected(request)) = 0
    BY <1>1, FS_EmptySet, Zenon
  <2> QED BY <2>1, ProviderConstants
<1> QED BY <1>2, <1>3, <1>4, <1>5 DEF IInv

-----------------------------------------------------------------------------
(* _dispatch *)

\* Given counts places of the oldest waiters.
LEMMA GivenType ==
    ASSUME NEW n \in Nat, NEW T, NEW give \in [1 .. n -> T], NEW k
    PROVE  /\ Given(give, k) \in Nat
           /\ k \notin T => Given(give, k) = 0
<1>1. {i \in DOMAIN give : give[i] = k} \in SUBSET (1 .. n)
  OBVIOUS
<1>2. Given(give, k) \in Nat
  <2>1. IsFiniteSet(1 .. n)
    BY FS_Interval
  <2>2. IsFiniteSet({i \in DOMAIN give : give[i] = k})
    BY <1>1, <2>1, FS_Subset
  <2> QED BY <2>2, FS_CardinalityType DEF Given
<1>3. k \notin T => {i \in DOMAIN give : give[i] = k} = {}
  OBVIOUS
<1> QED BY <1>2, <1>3, FS_EmptySet DEF Given

\* _dispatch keeps keys, queue and requests fitting, leaves no request waiting that
\* could be served, and touches of a request only one that waited.
LEMMA DispatchServes ==
    ASSUME NEW keys, NEW waiting, NEW requests,
           Fit(keys, waiting, requests),
           Dispatch(keys, waiting, requests)
    PROVE  /\ Fit(key', queue', request')
           /\ Served(key', queue')
           /\ \A r \in Requests :
                 \/ request'[r] = requests[r]
                 \/ /\ requests[r].at = "queued" /\ request'[r].at \in {"granted", "refused"}
                    /\ request'[r].leave = requests[r].leave
                    /\ request'[r].probe = requests[r].probe
<1> DEFINE Goal == /\ Fit(key', queue', request')
                   /\ Served(key', queue')
                   /\ \A r \in Requests :
                        \/ request'[r] = requests[r]
                        \/ /\ requests[r].at = "queued"
                           /\ request'[r].at \in {"granted", "refused"}
                           /\ request'[r].leave = requests[r].leave
                           /\ request'[r].probe = requests[r].probe
<1>1. /\ keys \in [Keys -> KeyState]
      /\ requests \in [Requests -> Request]
      /\ \A r \in Requests : Sound(requests[r])
      /\ waiting \in Seq(Requests)
      /\ \A i, j \in DOMAIN waiting : waiting[i] = waiting[j] => i = j
      /\ \A r \in Requests :
           requests[r].at = "queued" <=> \E i \in DOMAIN waiting : waiting[i] = r
      /\ \A k \in Keys : keys[k].active = Cardinality(Holders(requests, k))
  BY DEF Fit, Lined
<1>2. CASE /\ \A k \in Keys : ~keys[k].healthy
           /\ queue' = <<>> /\ key' = keys
           /\ request' = [r \in Requests |->
                  IF \E i \in DOMAIN waiting : waiting[i] = r
                  THEN [requests[r] EXCEPT !.at = "refused"] ELSE requests[r]]
  <2>1. \A r \in Requests :
          /\ requests[r].at = "queued" => request'[r] = [requests[r] EXCEPT !.at = "refused"]
          /\ requests[r].at # "queued" => request'[r] = requests[r]
    BY <1>1, <1>2
  <2>2. \A r \in Requests :
          /\ request'[r] \in Request /\ Sound(request'[r]) /\ request'[r].at # "queued"
          /\ HasSlot(request'[r]) <=> HasSlot(requests[r])
          /\ request'[r].key = requests[r].key
          /\ request'[r].leave = requests[r].leave /\ request'[r].probe = requests[r].probe
    <3> SUFFICES ASSUME NEW r \in Requests
                 PROVE  /\ request'[r] \in Request /\ Sound(request'[r])
                        /\ request'[r].at # "queued"
                        /\ HasSlot(request'[r]) <=> HasSlot(requests[r])
                        /\ request'[r].key = requests[r].key
                        /\ request'[r].leave = requests[r].leave
                        /\ request'[r].probe = requests[r].probe
      OBVIOUS
    <3>1. requests[r] \in Request /\ Sound(requests[r])
      BY <1>1
    <3>2. CASE requests[r].at = "queued"
      <4>1. request'[r] = [requests[r] EXCEPT !.at = "refused"]
        BY <2>1, <3>2
      <4> QED BY <3>1, <3>2, <4>1 DEF Request, Sound, HasSlot, HasConnection
    <3>3. CASE requests[r].at # "queued"
      BY <2>1, <3>1, <3>3
    <3> QED BY <3>2, <3>3
  <2>3. request' \in [Requests -> Request]
    BY <1>2, <2>2
  <2>4. \A k \in Keys : Holders(request', k) = Holders(requests, k)
    BY <2>2 DEF Holders
  <2>5. Lined(queue', request')
    <3>1. queue' \in Seq(Requests) /\ DOMAIN queue' = {}
      BY <1>2
    <3> QED BY <2>2, <3>1 DEF Lined
  <2>6. Fit(key', queue', request')
    BY <1>1, <1>2, <2>2, <2>3, <2>4, <2>5 DEF Fit
  <2>7. Served(key', queue')
    BY <1>2 DEF Served
  <2>8. \A r \in Requests :
          requests[r].at = "queued" => /\ request'[r].at = "refused"
                                       /\ request'[r].leave = requests[r].leave
                                       /\ request'[r].probe = requests[r].probe
    <3> SUFFICES ASSUME NEW r \in Requests, requests[r].at = "queued"
                 PROVE  request'[r].at = "refused"
      BY <2>2
    <3>1. requests[r] \in Request /\ request'[r] = [requests[r] EXCEPT !.at = "refused"]
      BY <1>1, <2>1
    <3> QED BY <3>1 DEF Request
  <2> QED BY <2>1, <2>6, <2>7, <2>8
<1>3. ASSUME \E k \in Keys : keys[k].healthy,
             NEW n \in 0 .. Len(waiting), NEW give \in [1 .. n -> Takeable(keys)],
             \A k \in Takeable(keys) : keys[k].active + Given(give, k) <= PerKey,
             n < Len(waiting) =>
                 \A k \in Takeable(keys) : keys[k].active + Given(give, k) = PerKey,
             queue' = SubSeq(waiting, n + 1, Len(waiting)),
             key' = [k \in Keys |-> [keys[k] EXCEPT !.active = @ + Given(give, k)]],
             request' = [r \in Requests |->
                 IF \E i \in 1 .. n : waiting[i] = r
                 THEN [requests[r] EXCEPT !.at = "granted",
                          !.key = give[CHOOSE i \in 1 .. n : waiting[i] = r]]
                 ELSE requests[r]]
      PROVE  Goal
  <2>1. /\ n \in Nat /\ Len(waiting) \in Nat /\ 1 .. n \subseteq DOMAIN waiting
        /\ DOMAIN waiting = 1 .. Len(waiting)
        /\ \A i \in DOMAIN waiting : waiting[i] \in Requests
    BY <1>1
  <2>2. \A k : Given(give, k) \in Nat /\ (k \notin Takeable(keys) => Given(give, k) = 0)
    BY <2>1, GivenType
  <2>3. \A k \in Keys :
          /\ key'[k] \in KeyState
          /\ key'[k].active = keys[k].active + Given(give, k)
          /\ key'[k].healthy = keys[k].healthy /\ key'[k].paused = keys[k].paused
    <3> SUFFICES ASSUME NEW k \in Keys
                 PROVE  /\ key'[k] \in KeyState
                        /\ key'[k].active = keys[k].active + Given(give, k)
                        /\ key'[k].healthy = keys[k].healthy /\ key'[k].paused = keys[k].paused
      OBVIOUS
    <3>1. keys[k] \in KeyState /\ key'[k] = [keys[k] EXCEPT !.active = @ + Given(give, k)]
      BY <1>1, <1>3
    <3>2. Given(give, k) \in Nat /\ keys[k].active + Given(give, k) <= PerKey
      <4>1. keys[k].active \in 0 .. PerKey
        BY <3>1 DEF KeyState
      <4>2. Given(give, k) \in Nat /\ PerKey \in Nat
        BY <2>2, ProviderConstants
      <4>3. CASE k \in Takeable(keys)
        BY <1>3, <4>2, <4>3
      <4>4. CASE k \notin Takeable(keys)
        BY <2>2, <4>1, <4>2, <4>4
      <4> QED BY <4>3, <4>4
    <3> QED BY <3>1, <3>2, ProviderConstants DEF KeyState
  \* Whom each granted slot goes to.
  <2>4. \A i \in 1 .. n :
          /\ requests[waiting[i]].at = "queued" /\ give[i] \in Keys
          /\ request'[waiting[i]] = [requests[waiting[i]] EXCEPT !.at = "granted", !.key = give[i]]
    <3> SUFFICES ASSUME NEW i \in 1 .. n
                 PROVE  /\ requests[waiting[i]].at = "queued" /\ give[i] \in Keys
                        /\ request'[waiting[i]] = [requests[waiting[i]] EXCEPT
                                !.at = "granted", !.key = give[i]]
      OBVIOUS
    <3>1. (CHOOSE l \in 1 .. n : waiting[l] = waiting[i]) = i
      BY <1>1, <2>1
    <3>2. waiting[i] \in Requests /\ requests[waiting[i]].at = "queued"
      BY <1>1, <2>1
    <3>3. give[i] \in Keys
      BY <1>3 DEF Takeable
    <3> QED BY <1>3, <3>1, <3>2, <3>3
  <2>5. \A r \in Requests : (\A i \in 1 .. n : waiting[i] # r) => request'[r] = requests[r]
    BY <1>3
  <2>6. \A r \in Requests : request'[r] \in Request /\ Sound(request'[r])
    <3> SUFFICES ASSUME NEW r \in Requests PROVE request'[r] \in Request /\ Sound(request'[r])
      OBVIOUS
    <3>1. CASE \A i \in 1 .. n : waiting[i] # r
      BY <1>1, <2>5, <3>1
    <3>2. ASSUME NEW i \in 1 .. n, waiting[i] = r
          PROVE  request'[r] \in Request /\ Sound(request'[r])
      <4>1. /\ requests[r] \in Request /\ Sound(requests[r]) /\ requests[r].at = "queued"
            /\ give[i] \in Keys
            /\ request'[r] = [requests[r] EXCEPT !.at = "granted", !.key = give[i]]
        BY <1>1, <2>4, <3>2
      <4> QED BY <4>1, NoKeyIsNoKey DEF Request, Sound, HasSlot, HasConnection
    <3> QED BY <3>1, <3>2
  <2>7. \A k \in Keys : key'[k].active = Cardinality(Holders(request', k))
    <3> SUFFICES ASSUME NEW k \in Keys
                 PROVE  key'[k].active = Cardinality(Holders(request', k))
      OBVIOUS
    <3> DEFINE I == {i \in DOMAIN give : give[i] = k}
               N == {r \in Requests : \E i \in I : waiting[i] = r}
               f == [i \in I |-> waiting[i]]
    <3>1. I \subseteq 1 .. n /\ IsFiniteSet(I)
      <4>1. IsFiniteSet(1 .. n)
        BY <2>1, FS_Interval
      <4>2. I \subseteq 1 .. n
        OBVIOUS
      <4> QED BY <4>1, <4>2, FS_Subset
    <3>2. f \in Bijection(I, N)
      <4>1. f \in [I -> N]
        BY <2>1, <3>1
      <4>2. \A i, j \in I : f[i] = f[j] => i = j
        BY <1>1, <2>1, <3>1
      <4>3. \A r \in N : \E i \in I : f[i] = r
        BY <3>1
      <4> QED BY <4>1, <4>2, <4>3, Fun_IsBij
    <3>3. IsFiniteSet(N) /\ Cardinality(N) = Given(give, k)
      <4>1. ExistsBijection(I, N)
        BY <3>2 DEF ExistsBijection
      <4> QED BY <3>1, <4>1, FS_Bijection DEF Given
    <3>4. Holders(request', k) = Holders(requests, k) \cup N
      <4>1. ASSUME NEW r \in Requests
            PROVE  r \in Holders(request', k) <=> r \in Holders(requests, k) \/ r \in N
        <5>1. CASE \A i \in 1 .. n : waiting[i] # r
          BY <2>5, <3>1, <5>1 DEF Holders
        <5>2. ASSUME NEW i \in 1 .. n, waiting[i] = r
              PROVE  r \in Holders(request', k) <=> r \in Holders(requests, k) \/ r \in N
          <6>1. requests[r] \in Request /\ ~HasSlot(requests[r])
            BY <1>1, <2>4, <5>2 DEF HasSlot
          <6>2. HasSlot(request'[r]) /\ request'[r].key = give[i]
            BY <2>4, <5>2, <6>1 DEF HasSlot, Request
          <6>3. r \in N <=> give[i] = k
            BY <1>1, <2>1, <5>2
          <6> QED BY <6>1, <6>2, <6>3 DEF Holders
        <5> QED BY <5>1, <5>2
      <4> QED BY <4>1 DEF Holders
    <3>5. Holders(requests, k) \cap N = {}
      <4>1. \A r \in N : ~HasSlot(requests[r])
        BY <2>4, <3>1 DEF HasSlot
      <4> QED BY <4>1 DEF Holders
    <3>6. Cardinality(Holders(request', k)) = Cardinality(Holders(requests, k)) + Cardinality(N)
      <4> HIDE DEF N
      <4>1. /\ Cardinality(Holders(requests, k) \cup N)
               = Cardinality(Holders(requests, k)) + Cardinality(N)
                 - Cardinality(Holders(requests, k) \cap N)
        BY <3>3, FiniteParts, FS_Union
      <4>2. Cardinality(Holders(requests, k) \cap N) = 0
        BY <3>5, FS_EmptySet, Zenon
      <4>3. Cardinality(Holders(request', k)) = Cardinality(Holders(requests, k) \cup N)
        BY <3>4, Zenon
      <4> QED BY <3>3, <4>1, <4>2, <4>3, FiniteParts, FS_CardinalityType
    <3> QED BY <1>1, <2>3, <3>3, <3>6
  <2>8. Lined(queue', request')
    <3>1. /\ queue' \in Seq(Requests) /\ Len(queue') = Len(waiting) - n
          /\ \A i \in 1 .. Len(waiting) - n : queue'[i] = waiting[n + i]
      <4>1. \A i \in n + 1 .. Len(waiting) : waiting[i] \in Requests
        BY <2>1
      <4> DEFINE l == Len(waiting)
      <4>2. l \in Nat /\ n \in 0 .. l /\ queue' = SubSeq(waiting, n + 1, l)
        BY <1>3, <2>1
      <4> HIDE DEF l
      <4>3. /\ SubSeq(waiting, n + 1, l) \in Seq(Requests)
            /\ Len(SubSeq(waiting, n + 1, l)) = IF n + 1 <= l THEN l - (n + 1) + 1 ELSE 0
            /\ \A i \in 1 .. l - (n + 1) + 1 :
                   SubSeq(waiting, n + 1, l)[i] = waiting[(n + 1) + i - 1]
        <5>1. \A i \in n + 1 .. l : waiting[i] \in Requests
          BY <4>1 DEF l
        <5>2. n + 1 \in Int /\ l \in Int
          BY <4>2
        <5> QED BY <5>1, <5>2, SubSeqProperties
      <4>4. /\ Len(SubSeq(waiting, n + 1, l)) = l - n
            /\ \A i \in 1 .. l - n : SubSeq(waiting, n + 1, l)[i] = waiting[n + i]
        BY <4>2, <4>3
      <4> QED BY <4>2, <4>3, <4>4 DEF l
    <3>2. DOMAIN queue' = 1 .. Len(waiting) - n
      BY <3>1
    <3>3. \A i, j \in DOMAIN queue' : queue'[i] = queue'[j] => i = j
      <4>1. ASSUME NEW i \in DOMAIN queue', NEW j \in DOMAIN queue', queue'[i] = queue'[j]
            PROVE  i = j
        <5>1. /\ i \in Nat /\ j \in Nat /\ n + i \in DOMAIN waiting /\ n + j \in DOMAIN waiting
              /\ waiting[n + i] = waiting[n + j]
          BY <2>1, <3>1, <3>2, <4>1
        <5>2. n + i = n + j
          BY <1>1, <5>1
        <5> QED BY <2>1, <5>1, <5>2
      <4> QED BY <4>1
    <3>4. ASSUME NEW r \in Requests
          PROVE  request'[r].at = "queued" <=> \E i \in DOMAIN queue' : queue'[i] = r
      <4>1. CASE \A i \in 1 .. n : waiting[i] # r
        <5>1. (\E i \in DOMAIN queue' : queue'[i] = r) <=> \E i \in DOMAIN waiting : waiting[i] = r
          <6>1. ASSUME NEW i \in DOMAIN waiting, waiting[i] = r
                PROVE  \E j \in DOMAIN queue' : queue'[j] = r
            <7>1. i > n
              BY <2>1, <4>1, <6>1
            <7>2. i - n \in DOMAIN queue' /\ queue'[i - n] = r
              BY <2>1, <3>1, <3>2, <6>1, <7>1
            <7> QED BY <7>2
          <6>2. ASSUME NEW j \in DOMAIN queue', queue'[j] = r
                PROVE  \E i \in DOMAIN waiting : waiting[i] = r
            <7>1. n + j \in DOMAIN waiting /\ waiting[n + j] = r
              BY <2>1, <3>1, <3>2, <6>2
            <7> QED BY <7>1
          <6> QED BY <6>1, <6>2
        <5> QED BY <1>1, <2>5, <4>1, <5>1
      <4>2. ASSUME NEW i \in 1 .. n, waiting[i] = r
            PROVE  /\ request'[r].at # "queued"
                   /\ \A j \in DOMAIN queue' : queue'[j] # r
        <5>1. request'[r].at # "queued"
          <6>1. /\ requests[r] \in Request
                /\ request'[r] = [requests[r] EXCEPT !.at = "granted", !.key = give[i]]
            BY <1>1, <2>4, <4>2
          <6> QED BY <6>1 DEF Request
        <5>2. \A j \in DOMAIN queue' : queue'[j] # r
          <6> SUFFICES ASSUME NEW j \in DOMAIN queue', queue'[j] = r PROVE FALSE
            OBVIOUS
          <6>1. /\ j \in Nat /\ j > 0 /\ i <= n /\ i \in DOMAIN waiting /\ n + j \in DOMAIN waiting
                /\ waiting[n + j] = waiting[i]
            BY <2>1, <3>1, <3>2, <4>2
          <6>2. n + j = i
            BY <1>1, <6>1
          <6> QED BY <2>1, <6>1, <6>2
        <5> QED BY <5>1, <5>2
      <4> QED BY <4>1, <4>2
    <3> QED BY <3>1, <3>3, <3>4 DEF Lined
  <2>9. Served(key', queue')
    <3> SUFFICES ASSUME queue' # <<>>
                 PROVE  /\ \E k \in Keys : key'[k].healthy
                        /\ \A k \in Takeable(key') : key'[k].due
      BY DEF Served
    <3>1. n < Len(waiting)
      <4> DEFINE l == Len(waiting)
      <4>1. queue' = SubSeq(waiting, n + 1, l) /\ n \in 0 .. l
        BY <1>3
      <4>2. l \in Nat
        BY <2>1
      <4> HIDE DEF l
      <4>3. n + 1 > l => queue' = <<>>
        BY <4>1, <4>2, SubSeqEmpty
      <4>4. n < l
        BY <4>1, <4>2, <4>3
      <4> QED BY <4>4 DEF l
    <3>2. \A k \in Keys : k \notin Takeable(key')
      <4> SUFFICES ASSUME NEW k \in Keys, k \in Takeable(key') PROVE FALSE
        OBVIOUS
      <4>1. /\ key'[k].healthy /\ ~key'[k].paused /\ key'[k].active < PerKey
        BY DEF Takeable
      <4>2. keys[k].healthy /\ ~keys[k].paused /\ key'[k].active = keys[k].active + Given(give, k)
        BY <2>3, <4>1
      <4>3. /\ keys[k].active \in Nat /\ Given(give, k) \in Nat /\ PerKey \in Nat
        BY <1>1, <2>2, ProviderConstants DEF KeyState
      <4>4. k \in Takeable(keys)
        BY <4>1, <4>2, <4>3 DEF Takeable
      <4>5. keys[k].active + Given(give, k) = PerKey
        BY <1>3, <3>1, <4>4
      <4> QED BY <4>1, <4>2, <4>3, <4>5
    <3>3. \E k \in Keys : key'[k].healthy
      BY <1>3, <2>3
    <3> QED BY <3>2, <3>3 DEF Takeable
  <2>10. ASSUME NEW r \in Requests
         PROVE  \/ request'[r] = requests[r]
                \/ /\ requests[r].at = "queued" /\ request'[r].at \in {"granted", "refused"}
                   /\ request'[r].leave = requests[r].leave
                   /\ request'[r].probe = requests[r].probe
    <3>1. CASE \A i \in 1 .. n : waiting[i] # r
      BY <2>5, <3>1
    <3>2. ASSUME NEW i \in 1 .. n, waiting[i] = r
          PROVE  /\ requests[r].at = "queued" /\ request'[r].at = "granted"
                 /\ request'[r].leave = requests[r].leave
                 /\ request'[r].probe = requests[r].probe
      <4>1. /\ requests[r] \in Request /\ requests[r].at = "queued"
            /\ request'[r] = [requests[r] EXCEPT !.at = "granted", !.key = give[i]]
        BY <1>1, <2>4, <3>2
      <4> QED BY <4>1 DEF Request
    <3> QED BY <3>1, <3>2
  <2>11. Fit(key', queue', request')
    <3>1. key' \in [Keys -> KeyState] /\ request' \in [Requests -> Request]
      BY <1>3, <2>3, <2>6
    <3> QED BY <2>6, <2>7, <2>8, <3>1 DEF Fit
  <2> QED BY <2>9, <2>10, <2>11
<1>4. \/ /\ \A k \in Keys : ~keys[k].healthy
         /\ queue' = <<>> /\ key' = keys
         /\ request' = [r \in Requests |->
                IF \E i \in DOMAIN waiting : waiting[i] = r
                THEN [requests[r] EXCEPT !.at = "refused"] ELSE requests[r]]
      \/ Goal
  BY <1>3 DEF Dispatch
<1> QED BY <1>2, <1>4

-----------------------------------------------------------------------------
(* What ends with a fetch *)

\* The requests after some of those asleep in admit() were woken.
Wakes(old, new) ==
    /\ new \in [Requests -> Request]
    /\ \A s \in Requests :
           \/ new[s] = old[s]
           \/ /\ old[s].leave \in {"timed", "untimed"}
              /\ new[s] = [old[s] EXCEPT !.leave = "look"]

LEMMA WokenWakes ==
    ASSUME NEW requests \in [Requests -> Request]
    PROVE  /\ Wakes(requests, Woken(requests)) /\ Wakes(requests, requests)
           /\ \A s \in Requests : Woken(requests)[s].leave \notin {"timed", "untimed"}
<1>1. ASSUME NEW s \in Requests
      PROVE  /\ Woken(requests)[s] \in Request
             /\ Woken(requests)[s].leave \notin {"timed", "untimed"}
             /\ \/ Woken(requests)[s] = requests[s]
                \/ /\ requests[s].leave \in {"timed", "untimed"}
                   /\ Woken(requests)[s] = [requests[s] EXCEPT !.leave = "look"]
  BY DEF Woken, Request
<1>2. Woken(requests) \in [Requests -> Request]
  BY <1>1 DEF Woken
<1> QED BY <1>1, <1>2 DEF Wakes

\* Waking requests changes nothing that slots, connections and the queue are about.
LEMMA WakingFits ==
    ASSUME NEW keys, NEW waiting, NEW old, NEW new,
           Fit(keys, waiting, old), Wakes(old, new)
    PROVE  /\ Fit(keys, waiting, new)
           /\ Connected(new) = Connected(old) /\ Probes(new) = Probes(old)
<1>1. ASSUME NEW s \in Requests
      PROVE  /\ new[s].at = old[s].at /\ new[s].key = old[s].key
             /\ new[s].probe = old[s].probe /\ Sound(new[s])
  <2>1. old[s] \in Request /\ Sound(old[s])
    BY DEF Fit
  <2>2. CASE new[s] = old[s]
    BY <2>1, <2>2
  <2>3. CASE /\ old[s].leave \in {"timed", "untimed"}
             /\ new[s] = [old[s] EXCEPT !.leave = "look"]
    BY <2>1, <2>3 DEF Request, Sound, HasSlot, HasConnection
  <2> QED BY <2>2, <2>3 DEF Wakes
<1>2. /\ \A k : Holders(new, k) = Holders(old, k)
      /\ Connected(new) = Connected(old) /\ Probes(new) = Probes(old)
  BY <1>1 DEF Holders, Connected, Probes, HasSlot, HasConnection
<1>3. Lined(waiting, new)
  BY <1>1 DEF Fit, Lined
<1> QED BY <1>1, <1>2, <1>3 DEF Fit, Wakes

LEMMA RecordedType ==
    ASSUME NEW o \in Outage, NEW verdict, NEW probe \in BOOLEAN
    PROVE  Recorded(o, verdict, probe) \in Outage
<1> DEFINE p == [o EXCEPT !.probing = @ /\ ~probe]
           f == [p EXCEPT !.failures = Least(@ + 1, Threshold)]
<1>0. /\ 0 \in 0 .. MaxDelay /\ 1 \in 0 .. MaxDelay /\ 0 \in 0 .. Threshold
      /\ \A n \in 0 .. Threshold : Least(n + 1, Threshold) \in 0 .. Threshold
  BY ProviderConstants DEF Least
<1>1. p \in Outage /\ p.delay = o.delay
  BY DEF Outage
<1> HIDE DEF p
<1>2. f \in Outage /\ f.delay = o.delay
  <2>1. Least(p.failures + 1, Threshold) \in 0 .. Threshold
    BY <1>0, <1>1 DEF Outage
  <2> QED BY <1>1, <2>1 DEF Outage
<1>3. /\ [p EXCEPT !.failures = 0, !.delay = 0, !.paused = FALSE] \in Outage
      /\ o.delay > 0 => [f EXCEPT !.delay = Doubled(@), !.paused = TRUE] \in Outage
      /\ [f EXCEPT !.delay = 1, !.paused = TRUE] \in Outage
  <2>1. Doubled(o.delay) \in 0 .. MaxDelay
    BY ProviderConstants DEF Doubled, Least, Outage
  <2> HIDE DEF f
  <2>2. [p EXCEPT !.failures = 0, !.delay = 0, !.paused = FALSE] \in Outage
    BY <1>0, <1>1 DEF Outage
  <2>3. [f EXCEPT !.delay = Doubled(@), !.paused = TRUE] \in Outage
    BY <1>2, <2>1, ProviderConstants DEF Outage
  <2>4. [f EXCEPT !.delay = 1, !.paused = TRUE] \in Outage
    BY <1>0, <1>2 DEF Outage
  <2> QED BY <2>2, <2>3, <2>4
<1>4. \/ Recorded(o, verdict, probe) = p
      \/ Recorded(o, verdict, probe) = f
      \/ Recorded(o, verdict, probe) = [p EXCEPT !.failures = 0, !.delay = 0, !.paused = FALSE]
      \/ o.delay > 0 /\ Recorded(o, verdict, probe) = [f EXCEPT !.delay = Doubled(@), !.paused = TRUE]
      \/ Recorded(o, verdict, probe) = [f EXCEPT !.delay = 1, !.paused = TRUE]
  BY DEF Recorded, p
<1> QED BY <1>1, <1>2, <1>3, <1>4

\* What record() leaves of an outage, when it notifies nobody above all.
LEMMA QuietRecord ==
    ASSUME NEW o \in Outage, NEW verdict \in {"failed", "answered", "neither"},
           NEW probe \in BOOLEAN
    PROVE  /\ Recorded(o, verdict, probe).stopped = o.stopped
           /\ Recorded(o, verdict, probe).probing <=> o.probing /\ ~probe
           /\ ~Notifies(o, verdict, probe) /\ o.delay > 0 =>
                  /\ Recorded(o, verdict, probe).delay = o.delay
                  /\ Recorded(o, verdict, probe).paused = o.paused
                  /\ ~probe
<1>1. CASE verdict = "neither"
  BY <1>1 DEF Recorded, Notifies, Outage
<1>2. CASE verdict = "answered"
  BY <1>2 DEF Recorded, Notifies, Outage
<1>3. CASE verdict = "failed"
  <2>1. CASE probe /\ o.delay > 0
    BY <1>3, <2>1 DEF Recorded, Notifies, Outage
  <2>2. CASE ~probe /\ o.delay > 0
    <3>1. ~(o.delay = 0)
      BY <2>2 DEF Outage
    <3> QED BY <1>3, <2>2, <3>1 DEF Recorded, Notifies, Outage
  <2>3. CASE ~(o.delay > 0)
    BY <1>3, <2>3 DEF Recorded, Notifies, Outage
  <2> QED BY <2>1, <2>2, <2>3
<1> QED BY <1>1, <1>2, <1>3

\* A fetch ends and is recorded: its request becomes q, one that is no longer the
\* probe.  Whoever still sleeps still has its notification to come.
LEMMA RecordWatches ==
    ASSUME NEW r \in Requests, NEW verdict \in {"failed", "answered", "neither"},
           NEW q \in Request, outage \in Outage, request \in [Requests -> Request],
           Watched(outage, request), request[r].at # "gone",
           q.probe => q.at = "gone", q.leave \in {"none", request[r].leave}
    PROVE  /\ Wakes([request EXCEPT ![r] = q], Record(r, verdict, [request EXCEPT ![r] = q]))
           /\ Watched(Recorded(outage, verdict, FreesProbe(r)),
                      Record(r, verdict, [request EXCEPT ![r] = q]))
<1> DEFINE X == [request EXCEPT ![r] = q]
           new == Record(r, verdict, X)
           o == Recorded(outage, verdict, FreesProbe(r))
<1>1. X \in [Requests -> Request] /\ FreesProbe(r) \in BOOLEAN
  BY DEF FreesProbe, Request
<1>2. Wakes(X, new)
  BY <1>1, WokenWakes DEF Record
<1>3. Probes(new) \subseteq Probes(request) \ {r}
  <2>1. Probes(X) \subseteq Probes(request) \ {r}
    BY DEF Probes
  <2>2. \A s \in Requests : new[s].probe = X[s].probe /\ new[s].at = X[s].at
    <3> SUFFICES ASSUME NEW s \in Requests PROVE new[s].probe = X[s].probe /\ new[s].at = X[s].at
      OBVIOUS
    <3>1. X[s] \in Request
      BY <1>1
    <3> HIDE DEF X, new
    <3> QED BY <1>2, <3>1 DEF Wakes, Request
  <2> QED BY <2>1, <2>2 DEF Probes
<1>4. ASSUME Probes(new) # {} PROVE o.probing
  <2>1. PICK s : s \in Probes(request) /\ s # r
    BY <1>3, <1>4
  <2>2. ~FreesProbe(r)
    BY <2>1 DEF Watched, Probes, FreesProbe
  <2>3. outage.probing
    BY <2>1 DEF Watched
  <2> QED BY <1>1, <2>2, <2>3, QuietRecord
<1>5. ASSUME NEW s \in Requests, new[s].leave \in {"timed", "untimed"}
      PROVE  /\ o.delay > 0 /\ ~o.stopped
             /\ new[s].leave = "untimed" => o.probing /\ ~o.paused
  <2>1. ~Notifies(outage, verdict, FreesProbe(r)) /\ new[s] = X[s]
    BY <1>1, <1>5, WokenWakes DEF Record
  <2>2. request[s].leave = new[s].leave
    <3>1. CASE s = r
      BY <1>5, <2>1, <3>1
    <3>2. CASE s # r
      BY <2>1, <3>2
    <3> QED BY <3>1, <3>2
  <2>3. /\ outage.delay > 0 /\ ~outage.stopped
        /\ new[s].leave = "untimed" => outage.probing /\ ~outage.paused
    BY <1>5, <2>2 DEF Watched
  <2>4. /\ o.delay = outage.delay /\ o.paused = outage.paused /\ o.stopped = outage.stopped
        /\ o.probing <=> outage.probing
    BY <1>1, <2>1, <2>3, QuietRecord
  <2> QED BY <2>3, <2>4
<1>6. \A s, t \in Probes(new) : s = t
  BY <1>3 DEF Watched
<1>7. Watched(o, new)
  <2> HIDE DEF o, new
  <2> QED BY <1>4, <1>5, <1>6 DEF Watched
<1> QED BY <1>2, <1>7

\* Giving a slot back: one holder less, and its key has one slot more.
LEMMA ReleasedFits ==
    ASSUME NEW keys, NEW r \in Requests, Fit(keys, queue, request),
           HasSlot(request[r])
    PROVE  Fit(Released(keys, request[r]), queue, [request EXCEPT ![r] = Idle])
<1> DEFINE X == [request EXCEPT ![r] = Idle]
           k0 == request[r].key
           new == Released(keys, request[r])
<1>1. /\ keys \in [Keys -> KeyState] /\ request \in [Requests -> Request]
      /\ k0 \in Keys /\ request[r].at # "queued"
  BY DEF Fit, Sound, Request, HasSlot
<1>2. Idle \in Request /\ Sound(Idle) /\ ~HasSlot(Idle)
  BY ProviderConstants DEF Idle, Request, Sound, HasSlot, HasConnection
<1>3. X \in [Requests -> Request] /\ \A s \in Requests : Sound(X[s])
  BY <1>1, <1>2 DEF Fit
<1>4. \A k \in Keys : Holders(X, k) = Holders(request, k) \ {r}
  BY <1>1, <1>2 DEF Holders
<1>5. \A k \in Keys : r \in Holders(request, k) <=> k = k0
  BY DEF Holders
<1>6. keys[k0].active \in Nat /\ keys[k0].active > 0
  <2>1. keys[k0].active = Cardinality(Holders(request, k0)) /\ r \in Holders(request, k0)
    BY <1>1, <1>5 DEF Fit
  <2>2. Cardinality(Holders(request, k0)) # 0
    BY <2>1, FiniteParts, FS_EmptySet
  <2> QED BY <2>1, <2>2, FiniteParts
<1>7. new = [keys EXCEPT ![k0].active = @ - 1]
  BY DEF Released
<1>8. ASSUME NEW k \in Keys
      PROVE  new[k] \in KeyState /\ new[k].active = Cardinality(Holders(X, k))
  <2> HIDE DEF X, k0
  <2>1. /\ keys[k] \in KeyState /\ keys[k].active = Cardinality(Holders(request, k))
    BY <1>1 DEF Fit
  <2>2. CASE k = k0
    <3>1. new[k] = [keys[k] EXCEPT !.active = @ - 1]
      BY <1>1, <1>7, <2>2
    <3>2. Cardinality(Holders(request, k) \ {r}) = Cardinality(Holders(request, k)) - 1
      BY <1>5, <2>2, FiniteParts, FS_RemoveElement
    <3>3. Cardinality(Holders(X, k)) = Cardinality(Holders(request, k) \ {r})
      BY <1>4, Zenon
    <3>4. new[k].active = keys[k].active - 1 /\ new[k] \in KeyState
      BY <1>6, <2>1, <2>2, <3>1, ProviderConstants DEF KeyState
    <3> QED BY <2>1, <3>2, <3>3, <3>4
  <2>3. CASE k # k0
    <3>1. new[k] = keys[k]
      BY <1>1, <1>7, <2>3
    <3>2. Holders(request, k) \ {r} = Holders(request, k)
      BY <1>5, <2>3
    <3>3. Cardinality(Holders(X, k)) = Cardinality(Holders(request, k))
      BY <1>4, <3>2, Zenon
    <3> QED BY <2>1, <3>1, <3>3
  <2> QED BY <2>2, <2>3
<1>9. new \in [Keys -> KeyState]
  BY <1>1, <1>7, <1>8
<1>10. Lined(queue, X)
  BY <1>1 DEF Fit, Lined, Idle
<1> HIDE DEF X, new
<1>11. Fit(new, queue, X)
  BY <1>3, <1>8, <1>9, <1>10 DEF Fit
<1> QED BY <1>11 DEF X, new

\* A cancelled request leaves the queue, the others keep their order.
LEMMA RemovedFromQueue ==
    ASSUME NEW waiting \in Seq(Requests), NEW r,
           \A i, j \in DOMAIN waiting : waiting[i] = waiting[j] => i = j
    PROVE  /\ RemoveFirst(waiting, r) \in Seq(Requests)
           /\ \A i, j \in DOMAIN RemoveFirst(waiting, r) :
                  RemoveFirst(waiting, r)[i] = RemoveFirst(waiting, r)[j] => i = j
           /\ \A s : (\E i \in DOMAIN RemoveFirst(waiting, r) : RemoveFirst(waiting, r)[i] = s)
                       <=> s # r /\ \E i \in DOMAIN waiting : waiting[i] = s
           /\ waiting = <<>> => RemoveFirst(waiting, r) = <<>>
<1> DEFINE new == RemoveFirst(waiting, r)
           l == Len(waiting)
<1>1. l \in Nat /\ DOMAIN waiting = 1 .. l /\ \A i \in 1 .. l : waiting[i] \in Requests
  OBVIOUS
<1>2. CASE \A i \in 1 .. l : waiting[i] # r
  <2>1. new = waiting
    BY <1>2 DEF RemoveFirst
  <2> QED BY <1>1, <1>2, <2>1
<1>3. ASSUME NEW i \in 1 .. l, waiting[i] = r
      PROVE  /\ new \in Seq(Requests) /\ Len(new) = l - 1
             /\ \A j \in 1 .. l - 1 : new[j] = IF j < i THEN waiting[j] ELSE waiting[j + 1]
  <2>1. new = RemoveAt(waiting, i)
    <3>1. {j \in 1 .. Len(waiting) : waiting[j] = r} = {i}
      BY <1>1, <1>3
    <3>2. Min({i}) = i
      BY <1>1 DEF Min
    <3>3. SelectInSeq(waiting, LAMBDA v : v = r) = i
      BY <3>1, <3>2 DEF SelectInSeq
    <3> QED BY <1>3, <3>3 DEF RemoveFirst
  <2>2. /\ SubSeq(waiting, 1, i - 1) \in Seq(Requests) /\ Len(SubSeq(waiting, 1, i - 1)) = i - 1
        /\ \A j \in 1 .. i - 1 : SubSeq(waiting, 1, i - 1)[j] = waiting[j]
    <3>1. \A j \in 1 .. i - 1 : waiting[j] \in Requests
      BY <1>1
    <3>2. 1 \in Int /\ i - 1 \in Int
      BY <1>1
    <3>3. /\ SubSeq(waiting, 1, i - 1) \in Seq(Requests)
          /\ Len(SubSeq(waiting, 1, i - 1)) = IF 1 <= i - 1 THEN i - 1 - 1 + 1 ELSE 0
          /\ \A j \in 1 .. i - 1 - 1 + 1 : SubSeq(waiting, 1, i - 1)[j] = waiting[1 + j - 1]
      BY <3>1, <3>2, SubSeqProperties
    <3> QED BY <1>1, <3>3
  <2>3. /\ SubSeq(waiting, i + 1, l) \in Seq(Requests) /\ Len(SubSeq(waiting, i + 1, l)) = l - i
        /\ \A j \in 1 .. l - i : SubSeq(waiting, i + 1, l)[j] = waiting[i + j]
    <3> HIDE DEF l
    <3>1. \A j \in i + 1 .. l : waiting[j] \in Requests
      BY <1>1
    <3>2. i + 1 \in Int /\ l \in Int
      BY <1>1
    <3>3. /\ SubSeq(waiting, i + 1, l) \in Seq(Requests)
          /\ Len(SubSeq(waiting, i + 1, l)) = IF i + 1 <= l THEN l - (i + 1) + 1 ELSE 0
          /\ \A j \in 1 .. l - (i + 1) + 1 : SubSeq(waiting, i + 1, l)[j] = waiting[(i + 1) + j - 1]
      BY <3>1, <3>2, SubSeqProperties
    <3> QED BY <1>1, <3>3
  <2> DEFINE a == SubSeq(waiting, 1, i - 1)
             b == SubSeq(waiting, i + 1, l)
  <2>4. new = a \o b
    BY <2>1 DEF RemoveAt
  <2> HIDE DEF new, l, a, b
  <2>5. /\ a \o b \in Seq(Requests) /\ Len(a \o b) = Len(a) + Len(b)
        /\ \A j \in 1 .. Len(a) + Len(b) : (a \o b)[j] = IF j <= Len(a) THEN a[j] ELSE b[j - Len(a)]
    BY <2>2, <2>3, ConcatProperties DEF a, b
  <2>6. Len(a) = i - 1 /\ Len(b) = l - i /\ Len(a) + Len(b) = l - 1
    BY <1>1, <2>2, <2>3 DEF a, b
  <2>7. ASSUME NEW j \in 1 .. l - 1
        PROVE  new[j] = IF j < i THEN waiting[j] ELSE waiting[j + 1]
    <3>1. CASE j < i
      <4>1. new[j] = a[j]
        BY <1>1, <2>4, <2>5, <2>6, <3>1
      <4>2. j \in 1 .. i - 1
        BY <1>1, <3>1
      <4> QED BY <2>2, <3>1, <4>1, <4>2 DEF a
    <3>2. CASE ~(j < i)
      <4>1. new[j] = b[j - (i - 1)]
        BY <1>1, <2>4, <2>5, <2>6, <3>2
      <4>2. j - (i - 1) \in 1 .. l - i /\ i + (j - (i - 1)) = j + 1
        BY <1>1, <3>2
      <4>3. b[j - (i - 1)] = waiting[i + (j - (i - 1))]
        BY <2>3, <4>2 DEF b
      <4> QED BY <3>2, <4>1, <4>2, <4>3
    <3> QED BY <3>1, <3>2
  <2> QED BY <2>4, <2>5, <2>6, <2>7
<1>4. ASSUME NEW i \in 1 .. l, waiting[i] = r
      PROVE  /\ \A j, m \in DOMAIN new : new[j] = new[m] => j = m
             /\ \A s : (\E j \in DOMAIN new : new[j] = s)
                         <=> s # r /\ \E j \in DOMAIN waiting : waiting[j] = s
  <2>1. /\ new \in Seq(Requests) /\ Len(new) = l - 1 /\ DOMAIN new = 1 .. l - 1
        /\ \A j \in 1 .. l - 1 : new[j] = IF j < i THEN waiting[j] ELSE waiting[j + 1]
    BY <1>3, <1>4
  <2> HIDE DEF new, l
  <2>2. ASSUME NEW j \in 1 .. l - 1
        PROVE  \E m \in 1 .. l : m # i /\ new[j] = waiting[m] /\ m = IF j < i THEN j ELSE j + 1
    BY <1>1, <2>1
  <2>3. ASSUME NEW j \in 1 .. l - 1, NEW m \in 1 .. l - 1, new[j] = new[m] PROVE j = m
    BY <1>1, <2>2, <2>3
  <2>4. ASSUME NEW j \in 1 .. l - 1 PROVE new[j] # r /\ \E m \in DOMAIN waiting : waiting[m] = new[j]
    BY <1>1, <1>4, <2>2
  <2>5. ASSUME NEW m \in 1 .. l, waiting[m] # r
        PROVE  \E j \in DOMAIN new : new[j] = waiting[m]
    <3>1. CASE m < i
      <4>1. m \in 1 .. l - 1
        BY <1>1, <3>1
      <4> QED BY <2>1, <3>1, <4>1
    <3>2. CASE m > i
      <4>1. m - 1 \in 1 .. l - 1 /\ ~(m - 1 < i) /\ (m - 1) + 1 = m
        BY <1>1, <3>2
      <4>2. new[m - 1] = waiting[m]
        BY <2>1, <4>1
      <4> QED BY <2>1, <4>1, <4>2
    <3>3. m # i
      BY <1>4, <2>5
    <3> QED BY <1>1, <3>1, <3>2, <3>3
  <2> QED BY <1>1, <2>1, <2>3, <2>4, <2>5
<1>5. waiting = <<>> => new = <<>>
  BY DEF RemoveFirst
<1> HIDE DEF new
<1>6. ASSUME NEW i \in 1 .. l, waiting[i] = r
      PROVE  /\ new \in Seq(Requests)
             /\ \A j, m \in DOMAIN new : new[j] = new[m] => j = m
             /\ \A s : (\E j \in DOMAIN new : new[j] = s)
                         <=> s # r /\ \E j \in DOMAIN waiting : waiting[j] = s
  BY <1>3, <1>4, <1>6
<1>7. /\ new \in Seq(Requests)
      /\ \A j, m \in DOMAIN new : new[j] = new[m] => j = m
      /\ \A s : (\E j \in DOMAIN new : new[j] = s)
                  <=> s # r /\ \E j \in DOMAIN waiting : waiting[j] = s
  BY <1>2, <1>6 DEF new
<1> QED BY <1>5, <1>7 DEF new

-----------------------------------------------------------------------------
(* How a fetch ends *)

\* No request starts in the step: one that was waiting for leave, and is no longer,
\* is not on its way to the provider (StartsAllowed of every action but Start).
NoStart ==
    \A s \in Requests : request[s].leave # "none" /\ request'[s].leave = "none"
                            => request'[s].at \notin {"submitted", "running"}

\* _dispatch touches neither connections nor what the outage is about.
LEMMA DispatchWatches ==
    ASSUME NEW keys, NEW waiting, NEW requests, NEW o,
           Fit(keys, waiting, requests), Dispatch(keys, waiting, requests),
           Watched(o, requests)
    PROVE  Watched(o, request') /\ Connected(request') = Connected(requests)
<1>1. ASSUME NEW s \in Requests
      PROVE  /\ request'[s].leave = requests[s].leave
             /\ request'[s].probe = requests[s].probe
             /\ HasConnection(request'[s]) <=> HasConnection(requests[s])
             /\ request'[s].at = "gone" <=> requests[s].at = "gone"
  BY DispatchServes DEF HasConnection
<1>2. Probes(request') = Probes(requests) /\ Connected(request') = Connected(requests)
  BY <1>1 DEF Probes, Connected
<1> QED BY <1>1, <1>2 DEF Watched

\* A fetch ends that holds no slot: it waited, or was refused one.
LEMMA UnslottedFits ==
    ASSUME IInv, NEW r \in Requests, request[r].at \in {"queued", "refused"}
    PROVE  /\ Fit(key, RemoveFirst(queue, r), [request EXCEPT ![r] = Idle])
           /\ Served(key, RemoveFirst(queue, r))
<1> DEFINE X == [request EXCEPT ![r] = Idle]
           waiting == RemoveFirst(queue, r)
<1>1. /\ Fit(key, queue, request) /\ Served(key, queue)
      /\ queue \in Seq(Requests)
      /\ \A i, j \in DOMAIN queue : queue[i] = queue[j] => i = j
      /\ \A s \in Requests : request[s].at = "queued" <=> \E i \in DOMAIN queue : queue[i] = s
      /\ request \in [Requests -> Request]
  BY DEF IInv, Fit, Lined
<1>2. /\ waiting \in Seq(Requests)
      /\ \A i, j \in DOMAIN waiting : waiting[i] = waiting[j] => i = j
      /\ \A s : (\E i \in DOMAIN waiting : waiting[i] = s)
                  <=> s # r /\ \E i \in DOMAIN queue : queue[i] = s
      /\ queue = <<>> => waiting = <<>>
  BY <1>1, RemovedFromQueue
<1> HIDE DEF waiting
<1>3. Idle \in Request /\ Sound(Idle) /\ ~HasSlot(Idle) /\ Idle.at # "queued"
  BY ProviderConstants DEF Idle, Request, Sound, HasSlot, HasConnection
<1>4. X \in [Requests -> Request] /\ \A s \in Requests : Sound(X[s])
  BY <1>1, <1>3 DEF Fit
<1>5. \A k : Holders(X, k) = Holders(request, k)
  BY <1>1, <1>3 DEF Holders, HasSlot
<1>6. Lined(waiting, X)
  <2>1. ASSUME NEW s \in Requests
        PROVE  X[s].at = "queued" <=> \E i \in DOMAIN waiting : waiting[i] = s
    <3>1. X[s].at = "queued" <=> s # r /\ request[s].at = "queued"
      BY <1>1, <1>3
    <3> QED BY <1>1, <1>2, <3>1
  <2> QED BY <1>2, <2>1 DEF Lined
<1> HIDE DEF X
<1>7. Fit(key, waiting, X)
  BY <1>1, <1>4, <1>5, <1>6 DEF Fit
<1>8. Served(key, waiting)
  BY <1>1, <1>2 DEF Served
<1> QED BY <1>7, <1>8 DEF waiting, X

\* A connection is given back by who held one.
LEMMA ConnectionBack ==
    ASSUME IInv, NEW r \in Requests,
           free' = IF HasConnection(request[r]) THEN free + 1 ELSE free,
           NEW new, Connected(new) = Connected([request EXCEPT ![r] = Idle])
    PROVE  free' \in 0 .. Connections /\ free' = Connections - Cardinality(Connected(new))
<1> DEFINE C == Connected(request)
<1>1. /\ free \in 0 .. Connections /\ free = Connections - Cardinality(C) /\ Cardinality(C) \in Nat
      /\ request \in [Requests -> Request]
  BY FiniteParts DEF IInv, Fit
<1>2. Connected(new) = C \ {r} /\ (r \in C <=> HasConnection(request[r]))
  BY <1>1 DEF Connected, Idle, HasConnection
<1>3. Cardinality(C \ {r}) = IF r \in C THEN Cardinality(C) - 1 ELSE Cardinality(C)
  BY FiniteParts, FS_RemoveElement
<1>4. Cardinality(Connected(new)) = Cardinality(C \ {r})
  BY <1>2, Zenon
<1>5. Cardinality(C \ {r}) \in Nat
  BY <1>4, FiniteParts
<1> HIDE DEF C
<1> QED BY <1>1, <1>2, <1>3, <1>4, <1>5, ProviderConstants

LEMMA FinishKeeps ==
    ASSUME IInv, NEW r \in Requests, NEW verdict \in {"failed", "answered", "neither"},
           NEW keys, Fit(keys, queue, request), request[r].at \notin {"idle", "gone"},
           HasSlot(request[r]) \/ keys = key,
           Finish(r, verdict, keys)
    PROVE  IInv' /\ NoStart
<1> DEFINE X == [request EXCEPT ![r] = Idle]
           ended == Record(r, verdict, X)
<1>1. /\ request \in [Requests -> Request] /\ outage \in Outage /\ Watched(outage, request)
      /\ Idle \in Request /\ ~Idle.probe /\ Idle.leave = "none"
  BY ProviderConstants DEF IInv, Fit, Idle, Request
<1>2. Wakes(X, ended) /\ Watched(Recorded(outage, verdict, FreesProbe(r)), ended)
  BY <1>1, RecordWatches
<1>3. outage' = Recorded(outage, verdict, FreesProbe(r)) /\ outage' \in Outage
  <2>1. FreesProbe(r) \in BOOLEAN
    BY <1>1 DEF FreesProbe, Request
  <2> QED BY <1>1, <2>1, RecordedType DEF Finish
<1>4. ended[r] = Idle
  <2>1. X[r] = Idle
    BY <1>1
  <2> HIDE DEF ended, X
  <2> QED BY <1>1, <1>2, <2>1 DEF Wakes
<1>5. CASE HasSlot(request[r])
  <2>1. Dispatch(Released(keys, request[r]), queue, ended)
    BY <1>5 DEF Finish
  <2>2. Fit(Released(keys, request[r]), queue, X)
    BY <1>5, ReleasedFits
  <2> HIDE DEF X, ended
  <2>3. Fit(Released(keys, request[r]), queue, ended) /\ Connected(ended) = Connected(X)
    BY <1>2, <2>2, WakingFits
  <2>4. /\ Fit(key', queue', request') /\ Served(key', queue')
        /\ Watched(outage', request') /\ Connected(request') = Connected(X)
    BY <1>2, <1>3, <2>1, <2>3, DispatchServes, DispatchWatches
  <2>5. free' \in 0 .. Connections /\ free' = Connections - Cardinality(Connected(request'))
    BY <2>4, ConnectionBack DEF Finish, X
  <2>6. NoStart
    <3> SUFFICES ASSUME NEW s \in Requests, request[s].leave # "none", request'[s].leave = "none"
                 PROVE  request'[s].at \notin {"submitted", "running"}
      BY DEF NoStart
    <3>1. \/ request'[s] = ended[s]
          \/ request'[s].at \in {"granted", "refused"}
      BY <2>1, <2>3, DispatchServes
    <3>2. CASE s = r
      BY <1>4, <3>1, <3>2 DEF Idle
    <3>3. CASE s # r
      <4>1. X[s] = request[s] /\ X[s] \in Request
        BY <1>1, <3>3 DEF X
      <4>2. ended[s].leave # "none"
        BY <1>2, <4>1 DEF Wakes, Request
      <4> QED BY <3>1, <4>2
    <3> QED BY <3>2, <3>3
  <2> QED BY <1>3, <2>4, <2>5, <2>6 DEF IInv
<1>6. CASE ~HasSlot(request[r])
  <2>1. request[r].at \in {"queued", "refused"} /\ keys = key
    BY <1>1, <1>6 DEF HasSlot, Request
  <2>2. queue' = RemoveFirst(queue, r) /\ request' = ended /\ key' = key
    BY <1>6 DEF Finish
  <2>3. Fit(key, queue', X) /\ Served(key, queue')
    BY <2>1, <2>2, UnslottedFits
  <2> HIDE DEF X, ended
  <2>4. /\ Fit(key', queue', request') /\ Served(key', queue') /\ Watched(outage', request')
        /\ Connected(request') = Connected(X)
    BY <1>2, <1>3, <2>2, <2>3, WakingFits
  <2>5. free' \in 0 .. Connections /\ free' = Connections - Cardinality(Connected(request'))
    BY <2>4, ConnectionBack DEF Finish, X
  <2>6. NoStart
    <3> SUFFICES ASSUME NEW s \in Requests, request[s].leave # "none", request'[s].leave = "none"
                 PROVE  request'[s].at \notin {"submitted", "running"}
      BY DEF NoStart
    <3>1. CASE s = r
      BY <1>4, <2>2, <3>1 DEF Idle
    <3>2. CASE s # r
      <4>1. X[s] = request[s] /\ X[s] \in Request
        BY <1>1, <3>2 DEF X
      <4> QED BY <1>2, <2>2, <4>1 DEF Wakes, Request
    <3> QED BY <3>1, <3>2
  <2> QED BY <1>3, <2>4, <2>5, <2>6 DEF IInv
<1> QED BY <1>5, <1>6

LEMMA DetachKeeps ==
    ASSUME IInv, NEW r \in Requests, NEW verdict \in {"failed", "neither"},
           request[r].at = "running", Detach(r, verdict)
    PROVE  IInv' /\ NoStart
<1> DEFINE q == [request[r] EXCEPT !.at = "gone"]
           X == [request EXCEPT ![r] = q]
<1>1. /\ request \in [Requests -> Request] /\ outage \in Outage /\ Watched(outage, request)
      /\ request[r] \in Request /\ Sound(request[r]) /\ Fit(key, queue, request)
  BY DEF IInv, Fit
<1>2. q \in Request /\ Sound(q) /\ q.at = "gone" /\ q.leave = request[r].leave /\ q.key = request[r].key
  BY <1>1 DEF Request, Sound, HasSlot, HasConnection
<1>3. X = [request EXCEPT ![r].at = "gone"]
  BY <1>1
<1> HIDE DEF q
<1>4. /\ Wakes(X, request') /\ Watched(outage', request')
  BY <1>1, <1>2, <1>3, RecordWatches DEF Detach
<1>5. outage' \in Outage
  <2>1. FreesProbe(r) \in BOOLEAN
    BY <1>1 DEF FreesProbe, Request
  <2> QED BY <1>1, <2>1, RecordedType DEF Detach
<1>6. Fit(key, queue, X) /\ Connected(X) = Connected(request)
  <2>1. X \in [Requests -> Request] /\ \A s \in Requests : Sound(X[s])
    BY <1>1, <1>2 DEF Fit
  <2>2. \A k : Holders(X, k) = Holders(request, k)
    BY <1>1, <1>2 DEF Holders, HasSlot
  <2>3. Connected(X) = Connected(request)
    BY <1>1, <1>2 DEF Connected, HasConnection
  <2>4. Lined(queue, X)
    BY <1>1, <1>2 DEF Fit, Lined
  <2> HIDE DEF X
  <2> QED BY <1>1, <2>1, <2>2, <2>3, <2>4 DEF Fit
<1>7. NoStart
  <2> SUFFICES ASSUME NEW s \in Requests, request[s].leave # "none", request'[s].leave = "none"
               PROVE  request'[s].at \notin {"submitted", "running"}
    BY DEF NoStart
  <2>1. X[s] \in Request /\ X[s].leave = request[s].leave
    BY <1>1, <1>2
  <2> HIDE DEF X
  <2> QED BY <1>4, <2>1 DEF Wakes, Request
<1> HIDE DEF X
<1>8. Fit(key, queue, request') /\ Connected(request') = Connected(request)
  BY <1>4, <1>6, WakingFits
<1> QED BY <1>4, <1>5, <1>7, <1>8 DEF IInv, Detach

LEMMA ThreadEndsKeeps ==
    ASSUME IInv, NEW r \in Requests, ThreadEnds(r)
    PROVE  IInv' /\ NoStart
<1> DEFINE X == [request EXCEPT ![r] = Idle]
<1>1. /\ request \in [Requests -> Request] /\ Watched(outage, request) /\ Fit(key, queue, request)
      /\ request[r].at = "gone" /\ HasSlot(request[r]) /\ HasConnection(request[r])
      /\ Dispatch(Released(key, request[r]), queue, X) /\ outage' = outage
  BY DEF IInv, Fit, ThreadEnds, HasSlot, HasConnection
<1>2. Fit(Released(key, request[r]), queue, X)
  BY <1>1, ReleasedFits
<1>3. Watched(outage, X)
  <2>1. Probes(X) = Probes(request)
    BY <1>1 DEF Probes, Idle
  <2>2. \A s \in Requests : X[s].leave = request[s].leave \/ X[s].leave = "none"
    BY <1>1 DEF Idle
  <2> HIDE DEF X
  <2> QED BY <1>1, <2>1, <2>2 DEF Watched
<1>4. NoStart
  <2> SUFFICES ASSUME NEW s \in Requests, request[s].leave # "none", request'[s].leave = "none"
               PROVE  request'[s].at \notin {"submitted", "running"}
    BY DEF NoStart
  <2>1. X[s] = request[s] \/ X[s].at = "idle"
    BY <1>1 DEF Idle
  <2> HIDE DEF X
  <2>2. request'[s] = X[s] \/ request'[s].at \in {"granted", "refused"}
    BY <1>1, <1>2, DispatchServes
  <2>3. request'[s].leave = request[s].leave \/ request'[s].at \in {"idle", "granted", "refused"}
    BY <2>1, <2>2
  <2> QED BY <2>3
<1> HIDE DEF X
<1>5. /\ Fit(key', queue', request') /\ Served(key', queue')
      /\ Watched(outage, request') /\ Connected(request') = Connected(X)
  BY <1>1, <1>2, <1>3, DispatchServes, DispatchWatches
<1>6. free' \in 0 .. Connections /\ free' = Connections - Cardinality(Connected(request'))
  BY <1>1, <1>5, ConnectionBack DEF ThreadEnds, X
<1> QED BY <1>1, <1>4, <1>5, <1>6 DEF IInv

-----------------------------------------------------------------------------
(* The actions that end no fetch *)

\* One request changes where it is, and neither its slot nor its connection.
LEMMA MovesOn ==
    ASSUME IInv, NEW r \in Requests, NEW q \in Request, Sound(q),
           q.key = request[r].key, HasConnection(q) <=> HasConnection(request[r]),
           q.at # "queued", request[r].at # "queued",
           request' = [request EXCEPT ![r] = q], UNCHANGED <<queue, key, free>>
    PROVE  /\ Fit(key', queue', request') /\ Served(key', queue')
           /\ free' \in 0 .. Connections
           /\ free' = Connections - Cardinality(Connected(request'))
<1>1. Fit(key, queue, request) /\ request \in [Requests -> Request]
  BY DEF IInv, Fit
<1>2. \A s \in Requests :
        /\ Sound(request'[s]) /\ request'[s].key = request[s].key
        /\ HasSlot(request'[s]) <=> HasSlot(request[s])
        /\ HasConnection(request'[s]) <=> HasConnection(request[s])
        /\ request'[s].at = "queued" <=> request[s].at = "queued"
  BY <1>1 DEF Fit, Sound
<1>3. request' \in [Requests -> Request]
  BY <1>1
<1>4. (\A k : Holders(request', k) = Holders(request, k)) /\ Connected(request') = Connected(request)
  BY <1>2 DEF Holders, Connected
<1>5. Lined(queue, request')
  BY <1>1, <1>2 DEF Fit, Lined
<1>6. Fit(key, queue, request')
  BY <1>1, <1>2, <1>3, <1>4, <1>5 DEF Fit
<1> QED BY <1>4, <1>6 DEF IInv

\* A move that leaves the outage alone, falls asleep nowhere and makes no probe.
LEMMA MovesQuietly ==
    ASSUME outage \in Outage, Watched(outage, request), NEW r \in Requests, NEW q \in Request,
           request \in [Requests -> Request],
           q.probe => request[r].probe, q.at = "gone" <=> request[r].at = "gone",
           q.leave \in {"none", "look", "starting"},
           request' = [request EXCEPT ![r] = q], outage' = outage
    PROVE  Watched(outage', request')
<1>1. Probes(request') \subseteq Probes(request)
  BY DEF Probes
<1>2. \A s \in Requests :
        request'[s].leave = request[s].leave \/ request'[s].leave \in {"none", "look", "starting"}
  OBVIOUS
<1> QED BY <1>1, <1>2 DEF Watched

LEMMA FetchKeeps ==
    ASSUME IInv, NEW r \in Requests, Fetch(r)
    PROVE  IInv' /\ NoStart
<1> DEFINE q == [request[r] EXCEPT !.at = "queued"]
           X == [request EXCEPT ![r] = q]
           waiting == Append(queue, r)
<1>1. /\ Fit(key, queue, request) /\ request \in [Requests -> Request] /\ Watched(outage, request)
      /\ request[r] \in Request /\ Sound(request[r]) /\ request[r].at = "idle"
      /\ queue \in Seq(Requests) /\ \A i \in DOMAIN queue : queue[i] # r
      /\ \A i, j \in DOMAIN queue : queue[i] = queue[j] => i = j
      /\ \A s \in Requests : request[s].at = "queued" <=> \E i \in DOMAIN queue : queue[i] = s
  BY DEF IInv, Fit, Lined, Fetch
<1>2. /\ q \in Request /\ Sound(q) /\ q.at = "queued" /\ q.leave = request[r].leave
      /\ q.probe = request[r].probe
  BY <1>1 DEF Request, Sound, HasSlot, HasConnection
<1> HIDE DEF q
<1>3. Dispatch(key, waiting, X)
  BY <1>1 DEF Fetch, q
<1>4. X \in [Requests -> Request] /\ \A s \in Requests : Sound(X[s])
  BY <1>1, <1>2 DEF Fit
<1>5. /\ \A k : Holders(X, k) = Holders(request, k)
      /\ Connected(X) = Connected(request) /\ Probes(X) = Probes(request)
  BY <1>1, <1>2 DEF Holders, Connected, Probes, HasSlot, HasConnection, Sound
<1>6. Lined(waiting, X)
  <2>1. /\ waiting \in Seq(Requests) /\ Len(waiting) = Len(queue) + 1 /\ Len(queue) \in Nat
        /\ \A i \in 1 .. Len(queue) : waiting[i] = queue[i]
        /\ waiting[Len(queue) + 1] = r
        /\ DOMAIN queue = 1 .. Len(queue) /\ DOMAIN waiting = 1 .. Len(queue) + 1
    BY <1>1, AppendProperties
  <2> HIDE DEF waiting
  <2>2. ASSUME NEW i \in DOMAIN waiting, NEW j \in DOMAIN waiting, waiting[i] = waiting[j]
        PROVE  i = j
    BY <1>1, <2>1, <2>2
  <2>3. ASSUME NEW s \in Requests
        PROVE  X[s].at = "queued" <=> \E i \in DOMAIN waiting : waiting[i] = s
    <3>1. CASE s = r
      <4>1. Len(queue) + 1 \in DOMAIN waiting
        BY <2>1
      <4> QED BY <1>1, <1>2, <2>1, <3>1, <4>1
    <3>2. CASE s # r
      <4>1. X[s] = request[s]
        BY <1>1, <3>2
      <4>2. (\E i \in DOMAIN waiting : waiting[i] = s) <=> \E i \in DOMAIN queue : queue[i] = s
        BY <2>1, <3>2
      <4> QED BY <1>1, <4>1, <4>2
    <3> QED BY <3>1, <3>2
  <2> QED BY <2>1, <2>2, <2>3 DEF Lined
<1>7. Watched(outage, X)
  <2>1. \A s \in Requests : X[s].leave = request[s].leave
    BY <1>1, <1>2
  <2> HIDE DEF X
  <2> QED BY <1>1, <1>5, <2>1 DEF Watched
<1>8. \A s \in Requests : request[s].leave = X[s].leave /\ (X[s].at = request[s].at \/ X[s].at = "queued")
  BY <1>1, <1>2
<1> HIDE DEF X, waiting
<1>9. Fit(key, waiting, X)
  BY <1>1, <1>4, <1>5, <1>6 DEF Fit
<1>10. /\ Fit(key', queue', request') /\ Served(key', queue')
       /\ Watched(outage, request') /\ Connected(request') = Connected(request)
  BY <1>3, <1>5, <1>7, <1>9, DispatchServes, DispatchWatches
<1>11. NoStart
  <2> SUFFICES ASSUME NEW s \in Requests, request[s].leave # "none", request'[s].leave = "none"
               PROVE  request'[s].at \notin {"submitted", "running"}
    BY DEF NoStart
  <2>1. request'[s] = X[s] \/ request'[s].at \in {"granted", "refused"}
    BY <1>3, <1>9, DispatchServes
  <2> QED BY <1>8, <2>1
<1> QED BY <1>10, <1>11 DEF IInv, Fetch

LEMMA RefusedKeeps ==
    ASSUME IInv, NEW r \in Requests, Refused(r)
    PROVE  IInv' /\ NoStart
  BY FinishKeeps DEF IInv, Refused

LEMMA ResumeKeeps ==
    ASSUME IInv, NEW r \in Requests, Resume(r)
    PROVE  IInv' /\ NoStart
<1>1. /\ request \in [Requests -> Request] /\ request[r] \in Request /\ Sound(request[r])
      /\ Watched(outage, request) /\ outage \in Outage /\ request[r].at = "granted"
  BY DEF IInv, Fit, Resume
<1>2. CASE key[request[r].key].healthy
  <2> DEFINE q == [request[r] EXCEPT !.at = "held"]
  <2>1. /\ q \in Request /\ Sound(q) /\ q.at = "held" /\ q.leave = "none" /\ q.key = request[r].key
        /\ q.probe = request[r].probe /\ request[r].leave = "none"
    BY <1>1 DEF Request, Sound, HasSlot, HasConnection
  <2>2. request' = [request EXCEPT ![r] = q] /\ UNCHANGED <<queue, key, free, outage>>
    BY <1>1, <1>2 DEF Resume
  <2> HIDE DEF q
  <2>3. HasConnection(q) <=> HasConnection(request[r])
    BY <1>1, <2>1 DEF HasConnection
  <2>4. /\ Fit(key', queue', request') /\ Served(key', queue') /\ free' \in 0 .. Connections
        /\ free' = Connections - Cardinality(Connected(request'))
    BY <1>1, <2>1, <2>2, <2>3, MovesOn
  <2>5. Watched(outage', request')
    BY <1>1, <2>1, <2>2, MovesQuietly
  <2>6. NoStart
    BY <1>1, <2>1, <2>2 DEF NoStart
  <2> QED BY <1>1, <2>2, <2>4, <2>5, <2>6 DEF IInv
<1>3. CASE ~key[request[r].key].healthy
  <2>1. Finish(r, "neither", key)
    BY <1>3 DEF Resume
  <2> QED BY <1>1, <2>1, FinishKeeps DEF IInv
<1> QED BY <1>2, <1>3

LEMMA BeginKeeps ==
    ASSUME IInv, NEW r \in Requests, Begin(r)
    PROVE  IInv' /\ NoStart
<1> DEFINE q == [request[r] EXCEPT !.at = "running"]
<1>1. /\ request \in [Requests -> Request] /\ request[r] \in Request /\ Sound(request[r])
      /\ Watched(outage, request) /\ outage \in Outage /\ request[r].at = "submitted"
  BY DEF IInv, Fit, Begin
<1>2. /\ q \in Request /\ Sound(q) /\ q.at = "running" /\ q.leave = "none" /\ q.key = request[r].key
      /\ q.probe = request[r].probe /\ request[r].leave = "none"
  BY <1>1 DEF Request, Sound, HasSlot, HasConnection
<1>3. request' = [request EXCEPT ![r] = q] /\ UNCHANGED <<queue, key, free, outage>>
  BY <1>1 DEF Begin
<1> HIDE DEF q
<1>4. HasConnection(q) <=> HasConnection(request[r])
  BY <1>1, <1>2 DEF HasConnection
<1>5. /\ Fit(key', queue', request') /\ Served(key', queue') /\ free' \in 0 .. Connections
      /\ free' = Connections - Cardinality(Connected(request'))
  BY <1>1, <1>2, <1>3, <1>4, MovesOn
<1>6. Watched(outage', request')
  BY <1>1, <1>2, <1>3, MovesQuietly
<1>7. NoStart
  BY <1>1, <1>2, <1>3 DEF NoStart
<1> QED BY <1>1, <1>3, <1>5, <1>6, <1>7 DEF IInv

LEMMA RedirectKeeps ==
    ASSUME IInv, NEW r \in Requests, Redirect(r)
    PROVE  IInv' /\ NoStart
<1> DEFINE q == [request[r] EXCEPT !.hops = request[r].hops + 1,
                    !.leave = IF request[r].probe THEN "starting" ELSE "look"]
<1>1. /\ request \in [Requests -> Request] /\ request[r] \in Request /\ Sound(request[r])
      /\ Watched(outage, request) /\ outage \in Outage /\ request[r].at = "running"
      /\ request[r].hops < MaxRedirects
  BY DEF IInv, Fit, Redirect
<1>2. /\ q \in Request /\ Sound(q) /\ q.at = "running" /\ q.key = request[r].key
      /\ q.leave \in {"starting", "look"} /\ q.probe = request[r].probe
  <2>1. request[r].hops + 1 \in 0 .. MaxRedirects
    BY <1>1, ProviderConstants DEF Request
  <2>2. CASE request[r].probe
    <3>1. q = [request[r] EXCEPT !.hops = request[r].hops + 1, !.leave = "starting"]
      BY <2>2
    <3> HIDE DEF q
    <3> QED BY <1>1, <2>1, <2>2, <3>1 DEF Request, Sound, HasSlot, HasConnection
  <2>3. CASE ~request[r].probe
    <3>1. q = [request[r] EXCEPT !.hops = request[r].hops + 1, !.leave = "look"]
      BY <2>3
    <3> HIDE DEF q
    <3> QED BY <1>1, <2>1, <2>3, <3>1 DEF Request, Sound, HasSlot, HasConnection
  <2> QED BY <2>2, <2>3
<1>3. request' = [request EXCEPT ![r] = q] /\ UNCHANGED <<queue, key, free, outage>>
  BY <1>1 DEF Redirect
<1> HIDE DEF q
<1>4. HasConnection(q) <=> HasConnection(request[r])
  BY <1>1, <1>2 DEF HasConnection
<1>5. /\ Fit(key', queue', request') /\ Served(key', queue') /\ free' \in 0 .. Connections
      /\ free' = Connections - Cardinality(Connected(request'))
  BY <1>1, <1>2, <1>3, <1>4, MovesOn
<1>6. Watched(outage', request')
  BY <1>1, <1>2, <1>3, MovesQuietly
<1>7. NoStart
  BY <1>1, <1>2, <1>3 DEF NoStart
<1> QED BY <1>1, <1>3, <1>5, <1>6, <1>7 DEF IInv

LEMMA ConnectKeeps ==
    ASSUME IInv, NEW r \in Requests, Connect(r)
    PROVE  IInv' /\ NoStart
<1> DEFINE q == [request[r] EXCEPT !.at = "admitting", !.leave = "look"]
           C == Connected(request)
<1>1. /\ request \in [Requests -> Request] /\ request[r] \in Request /\ Sound(request[r])
      /\ Fit(key, queue, request) /\ Watched(outage, request) /\ outage \in Outage
      /\ request[r].at = "held" /\ free > 0 /\ free' = free - 1
  BY DEF IInv, Fit, Connect
<1>2. /\ q \in Request /\ Sound(q) /\ q.at = "admitting" /\ q.leave = "look" /\ q.key = request[r].key
      /\ q.probe = request[r].probe /\ HasSlot(q) /\ HasConnection(q)
  BY <1>1 DEF Request, Sound, HasSlot, HasConnection
<1>3. request' = [request EXCEPT ![r] = q] /\ UNCHANGED <<queue, key, outage>>
  BY <1>1 DEF Connect
<1> HIDE DEF q
<1>4. Fit(key, queue, request')
  <2>1. request' \in [Requests -> Request] /\ \A s \in Requests : Sound(request'[s])
    BY <1>1, <1>2, <1>3 DEF Fit
  <2>2. \A k : Holders(request', k) = Holders(request, k)
    BY <1>1, <1>2, <1>3 DEF Holders, HasSlot
  <2>3. Lined(queue, request')
    BY <1>1, <1>2, <1>3 DEF Fit, Lined
  <2> QED BY <1>1, <2>1, <2>2, <2>3 DEF Fit
<1>5. Watched(outage', request')
  BY <1>1, <1>2, <1>3, MovesQuietly
<1>6. NoStart
  BY <1>1, <1>2, <1>3 DEF NoStart
<1>7. free' \in 0 .. Connections /\ free' = Connections - Cardinality(Connected(request'))
  <2>1. Connected(request') = C \cup {r} /\ r \notin C
    BY <1>1, <1>2, <1>3 DEF Connected, HasConnection
  <2>2. Cardinality(C \cup {r}) = Cardinality(C) + 1 /\ Cardinality(C) \in Nat
    BY <2>1, FiniteParts, FS_AddElement
  <2>3. Cardinality(Connected(request')) = Cardinality(C \cup {r})
    BY <2>1, Zenon
  <2>4. free \in 0 .. Connections /\ free = Connections - Cardinality(C)
    BY DEF IInv
  <2> HIDE DEF C
  <2> QED BY <1>1, <2>2, <2>3, <2>4, ProviderConstants
<1> QED BY <1>1, <1>3, <1>4, <1>5, <1>6, <1>7 DEF IInv

-----------------------------------------------------------------------------
(* Leave to start, answers and time *)

LEMMA LeaveFailsKeeps ==
    ASSUME IInv, NEW r \in Requests, NEW verdict \in {"failed", "neither"},
           request[r].leave # "none", LeaveFails(r, verdict)
    PROVE  IInv' /\ NoStart
<1>1. Fit(key, queue, request) /\ request[r].at # "idle"
  BY DEF IInv, Fit, Sound
<1> QED BY <1>1, FinishKeeps, ThreadEndsKeeps DEF LeaveFails

LEMMA LookKeeps ==
    ASSUME IInv, NEW r \in Requests, Look(r)
    PROVE  IInv' /\ NoStart
<1>1. /\ request \in [Requests -> Request] /\ request[r] \in Request /\ Sound(request[r])
      /\ Watched(outage, request) /\ outage \in Outage /\ request[r].leave = "look"
  BY DEF IInv, Fit, Look
<1>2. CASE Active /\ outage.stopped
  <2>1. LeaveFails(r, "failed")
    BY <1>2 DEF Look
  <2> QED BY <1>1, <2>1, LeaveFailsKeeps
<1>3. CASE ~(Active /\ outage.stopped)
  <2> DEFINE probe == Active /\ ~outage.paused /\ ~outage.probing
             leave == IF ~Active \/ probe THEN "starting"
                      ELSE IF outage.paused THEN "timed" ELSE "untimed"
             q == [request[r] EXCEPT !.probe = probe, !.leave = leave]
  <2>1. /\ outage' = [outage EXCEPT !.probing = @ \/ probe]
        /\ request' = [request EXCEPT ![r] = q] /\ UNCHANGED <<queue, key, free>>
    BY <1>1, <1>3 DEF Look
  <2>2. probe \in BOOLEAN /\ leave \in {"starting", "timed", "untimed"} /\ (probe => leave = "starting")
    OBVIOUS
  <2>3. /\ leave \in {"timed", "untimed"} => Active /\ ~outage.stopped
        /\ leave = "untimed" => outage.probing /\ ~outage.paused
        /\ probe => ~outage.probing
    BY <1>3
  <2> HIDE DEF probe, leave
  <2>4. /\ q \in Request /\ Sound(q) /\ q.at = request[r].at /\ q.key = request[r].key
        /\ q.probe = probe /\ q.leave = leave /\ q.at \notin {"queued", "idle"}
    BY <1>1, <2>2 DEF Request, Sound, HasSlot, HasConnection
  <2> HIDE DEF q
  <2>5. /\ outage' \in Outage /\ outage'.probing = (outage.probing \/ probe)
        /\ outage'.delay = outage.delay /\ outage'.stopped = outage.stopped
        /\ outage'.paused = outage.paused
    BY <1>1, <2>1, <2>2 DEF Outage
  <2>6. HasConnection(q) <=> HasConnection(request[r])
    BY <2>4 DEF HasConnection
  <2>7. /\ Fit(key', queue', request') /\ Served(key', queue') /\ free' \in 0 .. Connections
        /\ free' = Connections - Cardinality(Connected(request'))
    BY <1>1, <2>1, <2>4, <2>6, MovesOn
  <2>8. Watched(outage', request')
    <3>1. Probes(request') \subseteq Probes(request) \cup (IF probe THEN {r} ELSE {})
      BY <1>1, <2>1, <2>4 DEF Probes
    <3>2. probe => Probes(request) = {}
      BY <1>1, <2>3 DEF Watched
    <3>3. \A s, t \in Probes(request') : s = t
      BY <1>1, <3>1, <3>2 DEF Watched
    <3>4. Probes(request') # {} => outage'.probing
      BY <1>1, <2>5, <3>1 DEF Watched
    <3>5. ASSUME NEW s \in Requests
          PROVE  /\ request'[s].leave \in {"timed", "untimed"} => outage'.delay > 0 /\ ~outage'.stopped
                 /\ request'[s].leave = "untimed" => outage'.probing /\ ~outage'.paused
      <4>1. CASE s = r
        <5>1. request'[s].leave = leave
          BY <1>1, <2>1, <2>4, <4>1
        <5> QED BY <2>3, <2>5, <5>1 DEF Active
      <4>2. CASE s # r
        <5>1. request'[s] = request[s]
          BY <1>1, <2>1, <4>2
        <5> QED BY <1>1, <2>5, <5>1 DEF Watched
      <4> QED BY <4>1, <4>2
    <3> QED BY <3>3, <3>4, <3>5 DEF Watched
  <2>9. NoStart
    BY <1>1, <2>1, <2>2, <2>4 DEF NoStart
  <2> QED BY <2>5, <2>7, <2>8, <2>9 DEF IInv
<1> QED BY <1>2, <1>3

LEMMA WakeKeeps ==
    ASSUME IInv, NEW r \in Requests, Wake(r)
    PROVE  IInv' /\ NoStart
<1> DEFINE q == [request[r] EXCEPT !.leave = "look"]
<1>1. /\ request \in [Requests -> Request] /\ request[r] \in Request /\ Sound(request[r])
      /\ Watched(outage, request) /\ outage \in Outage /\ request[r].leave = "timed"
  BY DEF IInv, Fit, Wake
<1>2. /\ q \in Request /\ Sound(q) /\ q.at = request[r].at /\ q.leave = "look" /\ q.key = request[r].key
      /\ q.probe = request[r].probe /\ q.at # "queued"
  BY <1>1 DEF Request, Sound, HasSlot, HasConnection
<1>3. request' = [request EXCEPT ![r] = q] /\ UNCHANGED <<queue, key, free, outage>>
  BY <1>1 DEF Wake
<1> HIDE DEF q
<1>4. HasConnection(q) <=> HasConnection(request[r])
  BY <1>2 DEF HasConnection
<1>5. /\ Fit(key', queue', request') /\ Served(key', queue') /\ free' \in 0 .. Connections
      /\ free' = Connections - Cardinality(Connected(request'))
  BY <1>1, <1>2, <1>3, <1>4, MovesOn
<1>6. Watched(outage', request')
  BY <1>1, <1>2, <1>3, MovesQuietly
<1>7. NoStart
  BY <1>1, <1>2, <1>3 DEF NoStart
<1> QED BY <1>1, <1>3, <1>5, <1>6, <1>7 DEF IInv

\* The one action by which a request goes out.
StartsWell(r) ==
    /\ key[request[r].key].healthy /\ ~key[request[r].key].paused
    /\ Active => request[r].probe
    /\ \A s \in Requests \ {r} : request'[s] = request[s]

LEMMA StartKeeps ==
    ASSUME IInv, NEW r \in Requests, Start(r)
    PROVE  IInv' /\ (NoStart \/ StartsWell(r))
<1>1. /\ request \in [Requests -> Request] /\ request[r] \in Request /\ Sound(request[r])
      /\ Watched(outage, request) /\ outage \in Outage /\ request[r].leave = "starting"
      /\ key[request[r].key].healthy /\ ~key[request[r].key].paused
  BY DEF IInv, Fit, Start
<1>2. CASE ~request[r].probe /\ Active
  <2> DEFINE q == [request[r] EXCEPT !.leave = "look"]
  <2>1. /\ q \in Request /\ Sound(q) /\ q.at = request[r].at /\ q.leave = "look" /\ q.key = request[r].key
        /\ q.probe = request[r].probe /\ q.at # "queued"
    BY <1>1, <1>2 DEF Request, Sound, HasSlot, HasConnection
  <2>2. request' = [request EXCEPT ![r] = q] /\ UNCHANGED <<queue, key, free, outage>>
    BY <1>1, <1>2 DEF Start
  <2> HIDE DEF q
  <2>3. HasConnection(q) <=> HasConnection(request[r])
    BY <2>1 DEF HasConnection
  <2>4. /\ Fit(key', queue', request') /\ Served(key', queue') /\ free' \in 0 .. Connections
        /\ free' = Connections - Cardinality(Connected(request'))
    BY <1>1, <2>1, <2>2, <2>3, MovesOn
  <2>5. Watched(outage', request')
    BY <1>1, <2>1, <2>2, MovesQuietly
  <2>6. NoStart
    BY <1>1, <2>1, <2>2 DEF NoStart
  <2> QED BY <1>1, <2>2, <2>4, <2>5, <2>6 DEF IInv
<1>3. CASE ~(~request[r].probe /\ Active) /\ request[r].at = "gone"
  BY <1>3, ThreadEndsKeeps DEF Start
<1>4. CASE ~(~request[r].probe /\ Active) /\ request[r].at # "gone"
  <2> DEFINE at == IF request[r].at = "admitting" THEN "submitted" ELSE request[r].at
             q == [request[r] EXCEPT !.leave = "none", !.at = at]
  <2>1. at \in {"submitted", "running"}
    BY <1>1, <1>4 DEF Sound
  <2>2. request' = [request EXCEPT ![r] = q] /\ UNCHANGED <<queue, key, free, outage>>
    BY <1>1, <1>4 DEF Start
  <2> HIDE DEF at
  <2>3. /\ q \in Request /\ Sound(q) /\ q.at = at /\ q.leave = "none" /\ q.key = request[r].key
        /\ q.probe = request[r].probe
    BY <1>1, <1>4, <2>1 DEF Request, Sound, HasSlot, HasConnection
  <2> HIDE DEF q
  <2>4. HasConnection(q) <=> HasConnection(request[r])
    BY <1>1, <2>1, <2>3 DEF Sound, HasConnection
  <2>5. request[r].at # "queued"
    BY <1>1 DEF Sound
  <2>6. /\ Fit(key', queue', request') /\ Served(key', queue') /\ free' \in 0 .. Connections
        /\ free' = Connections - Cardinality(Connected(request'))
    BY <2>1, <2>2, <2>3, <2>4, <2>5, MovesOn
  <2>7. Watched(outage', request')
    BY <1>1, <1>4, <2>1, <2>2, <2>3, MovesQuietly
  <2>8. StartsWell(r)
    BY <1>1, <1>4, <2>2 DEF StartsWell
  <2> QED BY <1>1, <2>2, <2>6, <2>7, <2>8 DEF IInv
<1> QED BY <1>2, <1>3, <1>4

\* A key's flags change; its slots do not.
LEMMA FlagsFit ==
    ASSUME IInv, NEW k \in Keys, NEW state \in KeyState, state.active = key[k].active
    PROVE  Fit([key EXCEPT ![k] = state], queue, request)
<1>1. Fit(key, queue, request) /\ key \in [Keys -> KeyState]
  BY DEF IInv, Fit
<1>2. \A l \in Keys : [key EXCEPT ![k] = state][l].active = key[l].active
  BY <1>1
<1>3. [key EXCEPT ![k] = state] \in [Keys -> KeyState]
  BY <1>1
<1> QED BY <1>1, <1>2, <1>3 DEF Fit

LEMMA AnswerKeeps ==
    ASSUME IInv, NEW r \in Requests,
           NEW answer \in {"ok", "rejected", "limited", "server error", "transport failure",
                           "unusable"},
           Answer(r, answer)
    PROVE  IInv' /\ NoStart
<1> DEFINE k == request[r].key
<1>1. /\ Fit(key, queue, request) /\ key \in [Keys -> KeyState] /\ k \in Keys
      /\ request[r].at = "running" /\ HasSlot(request[r])
  BY DEF IInv, Fit, Sound, Request, HasSlot, Answer
<1>2. Verdict(answer) \in {"failed", "answered", "neither"}
  BY DEF Verdict
<1>3. CASE answer = "rejected"
  <2>1. Finish(r, Verdict(answer), [key EXCEPT ![k].healthy = FALSE])
    BY <1>3 DEF Answer
  <2>2. /\ [key EXCEPT ![k].healthy = FALSE] = [key EXCEPT ![k] = [key[k] EXCEPT !.healthy = FALSE]]
        /\ [key[k] EXCEPT !.healthy = FALSE] \in KeyState
        /\ [key[k] EXCEPT !.healthy = FALSE].active = key[k].active
    BY <1>1 DEF KeyState
  <2>3. Fit([key EXCEPT ![k].healthy = FALSE], queue, request)
    BY <1>1, <2>2, FlagsFit
  <2> QED BY <1>1, <1>2, <2>1, <2>3, FinishKeeps
<1>4. CASE answer = "limited"
  <2>1. Finish(r, Verdict(answer), [key EXCEPT ![k].paused = TRUE])
    BY <1>4 DEF Answer
  <2>2. /\ [key EXCEPT ![k].paused = TRUE] = [key EXCEPT ![k] = [key[k] EXCEPT !.paused = TRUE]]
        /\ [key[k] EXCEPT !.paused = TRUE] \in KeyState
        /\ [key[k] EXCEPT !.paused = TRUE].active = key[k].active
    BY <1>1 DEF KeyState
  <2>3. Fit([key EXCEPT ![k].paused = TRUE], queue, request)
    BY <1>1, <2>2, FlagsFit
  <2> QED BY <1>1, <1>2, <2>1, <2>3, FinishKeeps
<1>5. CASE answer \notin {"rejected", "limited"}
  <2>1. Finish(r, Verdict(answer), key)
    BY <1>5 DEF Answer
  <2> QED BY <1>1, <1>2, <2>1, FinishKeeps
<1> QED BY <1>3, <1>4, <1>5

LEMMA KeyPauseEndsKeeps ==
    ASSUME IInv, NEW k \in Keys, KeyPauseEnds(k)
    PROVE  IInv' /\ NoStart
<1> DEFINE state == [key[k] EXCEPT !.paused = FALSE, !.due = TRUE]
<1>1. /\ key \in [Keys -> KeyState] /\ Served(key, queue)
      /\ key' = [key EXCEPT ![k] = state] /\ UNCHANGED <<queue, free, outage, request>>
  BY DEF IInv, Fit, KeyPauseEnds
<1>2. state \in KeyState /\ state.active = key[k].active /\ state.healthy = key[k].healthy /\ state.due
  BY <1>1 DEF KeyState
<1> HIDE DEF state
<1>3. Fit(key', queue, request)
  BY <1>1, <1>2, FlagsFit
<1>4. Served(key', queue)
  BY <1>1, <1>2 DEF Served, Takeable
<1> QED BY <1>1, <1>3, <1>4 DEF IInv, NoStart

LEMMA KeyTimerKeeps ==
    ASSUME IInv, NEW k \in Keys, KeyTimer(k)
    PROVE  IInv' /\ NoStart
<1> DEFINE state == [key[k] EXCEPT !.due = FALSE]
           keys == [key EXCEPT ![k] = state]
<1>1. /\ key \in [Keys -> KeyState] /\ Watched(outage, request)
      /\ Dispatch(keys, queue, request) /\ UNCHANGED <<free, outage>>
  <2>1. key \in [Keys -> KeyState]
    BY DEF IInv, Fit
  <2>2. keys = [key EXCEPT ![k].due = FALSE]
    BY <2>1
  <2> HIDE DEF keys
  <2> QED BY <2>1, <2>2 DEF IInv, KeyTimer
<1>2. state \in KeyState /\ state.active = key[k].active
  BY <1>1 DEF KeyState
<1> HIDE DEF state
<1>3. Fit(keys, queue, request)
  BY <1>1, <1>2, FlagsFit
<1> HIDE DEF keys
<1>4. /\ Fit(key', queue', request') /\ Served(key', queue') /\ Watched(outage, request')
      /\ Connected(request') = Connected(request)
  BY <1>1, <1>3, DispatchServes, DispatchWatches
<1>5. NoStart
  BY <1>1, <1>3, DispatchServes DEF NoStart
<1> QED BY <1>1, <1>4, <1>5 DEF IInv

LEMMA OutagePauseEndsKeeps ==
    ASSUME IInv, OutagePauseEnds
    PROVE  IInv' /\ NoStart
<1>1. outage \in Outage /\ outage' = [outage EXCEPT !.paused = FALSE] /\ UNCHANGED <<queue, key, free, request>>
  BY DEF IInv, OutagePauseEnds
<1>2. /\ outage' \in Outage /\ outage'.delay = outage.delay /\ outage'.stopped = outage.stopped
      /\ outage'.probing = outage.probing /\ ~outage'.paused
  BY <1>1 DEF Outage
<1>3. Watched(outage', request)
  BY <1>2 DEF IInv, Watched
<1> QED BY <1>1, <1>2, <1>3 DEF IInv, NoStart

LEMMA StopKeeps ==
    ASSUME IInv, Stop
    PROVE  IInv' /\ NoStart
<1>1. /\ outage \in Outage /\ Fit(key, queue, request) /\ request \in [Requests -> Request]
      /\ Watched(outage, request)
      /\ outage' = [outage EXCEPT !.stopped = TRUE] /\ request' = Woken(request)
      /\ UNCHANGED <<queue, key, free>>
  BY DEF IInv, Fit, Stop
<1>2. outage' \in Outage /\ outage'.probing = outage.probing
  BY <1>1 DEF Outage
<1>3. Wakes(request, request') /\ \A s \in Requests : request'[s].leave \notin {"timed", "untimed"}
  BY <1>1, WokenWakes
<1>4. /\ Fit(key, queue, request')
      /\ Connected(request') = Connected(request) /\ Probes(request') = Probes(request)
  BY <1>1, <1>3, WakingFits
<1>5. Watched(outage', request')
  BY <1>1, <1>2, <1>3, <1>4 DEF Watched
<1>6. NoStart
  <2> SUFFICES ASSUME NEW s \in Requests, request[s].leave # "none", request'[s].leave = "none"
               PROVE  request'[s].at \notin {"submitted", "running"}
    BY DEF NoStart
  <2>1. request[s] \in Request
    BY <1>1
  <2> QED BY <1>3, <2>1 DEF Wakes, Request
<1> QED BY <1>1, <1>2, <1>4, <1>5, <1>6 DEF IInv

-----------------------------------------------------------------------------
(* Theorems *)

LEMMA StepKeeps ==
    ASSUME IInv, Next
    PROVE  IInv' /\ (NoStart \/ \E r \in Requests : StartsWell(r))
<1>1. Fit(key, queue, request)
  BY DEF IInv
<1>2. ASSUME NEW r \in Requests, StartFails(r) PROVE IInv' /\ NoStart
  BY <1>2, LeaveFailsKeeps DEF StartFails
<1>3. ASSUME NEW r \in Requests, GiveUp(r) PROVE IInv' /\ NoStart
  BY <1>1, <1>3, FinishKeeps DEF GiveUp
<1>4. ASSUME NEW r \in Requests, LeaveTimesOut(r) PROVE IInv' /\ NoStart
  BY <1>1, <1>4, FinishKeeps DEF LeaveTimesOut
<1>5. ASSUME NEW r \in Requests, NEW verdict \in {"failed", "neither"}, Expire(r, verdict)
      PROVE  IInv' /\ NoStart
  BY <1>1, <1>5, FinishKeeps, DetachKeeps DEF Expire
<1>6. ASSUME NEW k \in Keys, KeyPauseEnds(k) \/ KeyTimer(k) PROVE IInv' /\ NoStart
  BY <1>6, KeyPauseEndsKeeps, KeyTimerKeeps
<1>7. ASSUME NEW r \in Requests, Start(r) PROVE IInv' /\ (NoStart \/ StartsWell(r))
  BY <1>7, StartKeeps
<1>8. ASSUME NEW r \in Requests,
             NEW answer \in {"ok", "rejected", "limited", "server error", "transport failure",
                             "unusable"},
             Answer(r, answer)
      PROVE  IInv' /\ NoStart
  BY <1>8, AnswerKeeps
<1>9. ASSUME NEW r \in Requests,
             \/ Fetch(r) \/ Refused(r) \/ Resume(r) \/ Connect(r) \/ Look(r) \/ Wake(r)
             \/ Begin(r) \/ Redirect(r) \/ ThreadEnds(r)
      PROVE  IInv' /\ NoStart
  BY <1>9, FetchKeeps, RefusedKeeps, ResumeKeeps, ConnectKeeps, LookKeeps, WakeKeeps,
     BeginKeeps, RedirectKeeps, ThreadEndsKeeps
<1>10. CASE OutagePauseEnds \/ Stop
  BY <1>10, OutagePauseEndsKeeps, StopKeeps
<1> QED BY <1>2, <1>3, <1>4, <1>5, <1>6, <1>7, <1>8, <1>9, <1>10 DEF Next

LEMMA Invariance == Spec => []IInv
<1>1. IInv /\ [Next]_vars => IInv'
  <2>1. IInv /\ UNCHANGED vars => IInv'
    BY DEF vars, IInv
  <2> QED BY <2>1, StepKeeps
<1> QED BY <1>1, InitIInv, PTL DEF Spec

\* Every slot and every connection is held by a fetch or by the thread it left
\* behind, and no request waits while a healthy key has a slot for it, for any number
\* of requests, keys, slots and connections.
THEOREM SlotsServe == Spec => []EverySlotServes
  BY Invariance, InvariantSuffices, PTL

\* At most one request is the recovery probe, and whoever sleeps in admit() has its
\* wake-up still to come.
THEOREM SleepersWake == Spec => []SleepersAreWoken
  BY Invariance, InvariantSuffices, PTL

\* A request or redirect starts only on a healthy, unpaused key, and during an outage
\* only as the probe.
THEOREM StartsAreAllowed == Spec => StartsAllowed
<1> DEFINE A == \A r \in Requests :
         /\ request[r].leave # "none" /\ request'[r].leave = "none"
         /\ request'[r].at \in {"submitted", "running"}
         => /\ key[request[r].key].healthy /\ ~key[request[r].key].paused
            /\ Active => request[r].probe
<1>1. IInv /\ [Next]_vars => [A]_vars
  <2>1. ASSUME NoStart PROVE A
    BY <2>1 DEF NoStart
  <2>2. ASSUME NEW r \in Requests, StartsWell(r) PROVE A
    BY <2>2 DEF StartsWell
  <2> HIDE DEF A
  <2> QED BY <2>1, <2>2, StepKeeps
<1>2. [][A]_vars => StartsAllowed
  BY PTL DEF StartsAllowed
<1> QED BY <1>1, <1>2, Invariance, PTL DEF Spec
=============================================================================
