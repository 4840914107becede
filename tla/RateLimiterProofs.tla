------------------------- MODULE RateLimiterProofs -------------------------
(***************************************************************************)
(* Proofs about RateLimiter: how far concurrent requests can overrun the   *)
(* limit, for every limit, window, concurrency and number of requests.     *)
(***************************************************************************)
EXTENDS RateLimiter, FiniteSetTheorems, TLAPS

-----------------------------------------------------------------------------
(* Cardinalities of sets of requests.                                      *)

\* Sets of requests are finite.
LEMMA CardType ==
  ASSUME NEW S, S \subseteq Requests
  PROVE  IsFiniteSet(S) /\ Cardinality(S) \in Nat
  BY LimitAssumption, FS_Subset, FS_CardinalityType

\* Cardinality is monotone.
LEMMA CardMono ==
  ASSUME NEW T, T \subseteq Requests, NEW S, S \subseteq T
  PROVE  Cardinality(S) <= Cardinality(T)
  BY CardType, FS_Subset

\* Cardinality is subadditive.
LEMMA CardUnion ==
  ASSUME NEW S, S \subseteq Requests, NEW T, T \subseteq Requests
  PROVE  Cardinality(S \cup T) <= Cardinality(S) + Cardinality(T)
<1>1. S \cap T \subseteq Requests /\ S \cup T \subseteq Requests
  OBVIOUS
<1>2. Cardinality(S \cup T)
        = Cardinality(S) + Cardinality(T) - Cardinality(S \cap T)
  BY CardType, FS_Union
<1> QED
  BY <1>1, <1>2, CardType

\* Adding a request adds at most one.
LEMMA CardAdd ==
  ASSUME NEW S, S \subseteq Requests, NEW r \in Requests
  PROVE  Cardinality(S \cup {r}) <= Cardinality(S) + 1
  BY CardType, FS_AddElement

-----------------------------------------------------------------------------
(* The invariant.                                                          *)

\* The invariant holds initially.
LEMMA InitIndInv == Init => IndInv
<1> SUFFICES ASSUME Init PROVE IndInv
  OBVIOUS
<1> USE LimitAssumption DEF Init
<1>1. TypeOK
  BY DEF TypeOK
<1>2. InFlight = {} /\ \A i \in Identities : Adding(i) = {} /\ zset[i] = {}
  BY DEF InFlight, Adding
<1>3. \A i \in Identities, x \in since..MaxTime : InWindow(i, x) = {} /\ Claims(i, x) = {}
  <2>1. \A i \in Identities, x \in since..MaxTime : InWindow(i, x) = {}
    BY DEF InWindow, ReadIn
  <2> QED
    BY <1>2, <2>1 DEF Claims
<1>4. Cardinality({}) = 0
  BY FS_EmptySet
<1>5. MarkersBounded
  <2> SUFFICES ASSUME NEW i \in Identities
               PROVE  Cardinality(zset[i] \cup Adding(i))
                        <= Limit[i] + MaxConcurrent - 1
    BY DEF MarkersBounded
  <2>1. zset[i] \cup Adding(i) = {}
    BY <1>2
  <2>2. Cardinality(zset[i] \cup Adding(i)) = 0
    BY <1>4, <2>1, Zenon
  <2>3. Limit[i] \in Nat
    OBVIOUS
  <2> QED
    BY <2>2, <2>3
<1>6. WindowStored
  BY <1>3 DEF WindowStored
<1> QED
  BY <1>1, <1>2, <1>3, <1>4, <1>5, <1>6
     DEF IndInv, MarkersAccurate, ClaimsBounded, DenialJustified

\* Types, the concurrency bound, and what is known of each marker.
LEMMA AccurateStep ==
  ASSUME IndInv, [Next]_vars
  PROVE  MarkersAccurate'
<1> USE LimitAssumption DEF IndInv, MarkersAccurate, TypeOK, Goto
<1>1. ASSUME NEW r \in Requests, Arrive(r) PROVE MarkersAccurate'
  <2>1. InFlight' \subseteq InFlight \cup {r}
    BY <1>1 DEF Arrive, InFlight
  <2>2. Cardinality(InFlight') <= MaxConcurrent
    <3>1. InFlight \subseteq Requests /\ InFlight \cup {r} \subseteq Requests
      BY DEF InFlight
    <3>2. Cardinality(InFlight') <= Cardinality(InFlight \cup {r})
      BY <2>1, <3>1, CardMono
    <3>3. Cardinality(InFlight \cup {r}) <= Cardinality(InFlight) + 1
      BY <3>1, CardAdd
    <3>4. /\ Cardinality(InFlight) \in Nat
          /\ Cardinality(InFlight \cup {r}) \in Nat
          /\ Cardinality(InFlight') \in Nat
      <4>1. InFlight' \subseteq Requests
        BY <2>1, <3>1
      <4> QED
        BY <3>1, <4>1, CardType
    <3>5. Cardinality(InFlight) < MaxConcurrent
      BY <1>1 DEF Arrive
    <3> QED
      BY <3>2, <3>3, <3>4, <3>5
  <2> QED
    BY <1>1, <2>2 DEF Arrive
<1>2. ASSUME NEW r \in Requests, Check(r) \/ Add(r) \/ FailOpen(r)
      PROVE  MarkersAccurate'
  <2>1. InFlight' \subseteq InFlight /\ InFlight \subseteq Requests
    BY <1>2 DEF Check, Add, FailOpen, InFlight
  <2>2. Cardinality(InFlight') <= MaxConcurrent
    BY <2>1, CardMono, CardType
  <2>3. CASE Check(r)
    BY <2>2, <2>3 DEF Check, Trimmed
  <2>4. CASE Add(r)
    BY <2>2, <2>4 DEF Add, Added, ExpireAt
  <2>5. CASE FailOpen(r)
    BY <2>2, <2>5 DEF FailOpen, Added, ExpireAt, Trimmed
  <2> QED
    BY <1>2, <2>3, <2>4, <2>5
<1>3. CASE Tick \/ RedisRestart
  <2>1. InFlight' = InFlight
    BY <1>3 DEF Tick, RedisRestart, InFlight
  <2>2. CASE Tick
    BY <2>1, <2>2 DEF Tick
  <2>3. CASE RedisRestart
    BY <2>1, <2>3 DEF RedisRestart
  <2> QED
    BY <1>3, <2>2, <2>3
<1>4. CASE UNCHANGED vars
  BY <1>4 DEF vars, InFlight
<1> QED
  BY <1>1, <1>2, <1>3, <1>4 DEF Next

\* A request is one of at most MaxConcurrent between check and add, and passed
\* its check when fewer than Limit markers were left.
LEMMA MarkersStep ==
  ASSUME IndInv, [Next]_vars
  PROVE  MarkersBounded'
<1> USE LimitAssumption DEF Goto
<1> SUFFICES ASSUME NEW i \in Identities
             PROVE  Cardinality(zset'[i] \cup Adding(i)')
                      <= Limit[i] + MaxConcurrent - 1
  BY DEF MarkersBounded
<1> DEFINE Now == zset[i] \cup Adding(i)
           Then == zset'[i] \cup Adding(i)'
<1>1. /\ Now \subseteq Requests
      /\ Cardinality(Now) \in Nat
      /\ Cardinality(Now) <= Limit[i] + MaxConcurrent - 1
  BY CardType DEF IndInv, MarkersAccurate, TypeOK, MarkersBounded, Adding
<1>2. CASE Then \subseteq Now
  <2>1. Then \subseteq Requests /\ Cardinality(Then) \in Nat
    BY <1>1, <1>2, CardType
  <2> QED
    BY <1>1, <1>2, <2>1, CardMono
<1>3. ASSUME NEW r \in Requests, Check(r), ~(Then \subseteq Now)
      PROVE  Cardinality(Then) <= Limit[i] + MaxConcurrent - 1
  <2>1. /\ who[r] = i
        /\ Cardinality(Trimmed(r)) < Limit[i]
        /\ zset'[i] = Trimmed(r)
        /\ Adding(i)' \subseteq InFlight
    <3> USE <1>3 DEF Check, IndInv, MarkersAccurate, TypeOK
    <3>1. Trimmed(r) \subseteq zset[who[r]]
      BY DEF Trimmed
    <3>2. CASE who[r] # i
      <4>1. zset'[i] = zset[i] /\ Adding(i)' = Adding(i)
        BY <3>2 DEF Adding
      <4> QED
        BY <4>1
    <3>3. CASE who[r] = i /\ pc'[r] # "add"
      <4>1. zset'[i] = Trimmed(r) /\ Adding(i)' = Adding(i)
        BY <3>3 DEF Adding
      <4> QED
        BY <3>1, <3>3, <4>1
    <3>4. CASE who[r] = i /\ pc'[r] = "add"
      <4>1. Cardinality(Trimmed(r)) < Limit[i]
        BY <3>4 DEF UnderLimit
      <4>2. zset'[i] = Trimmed(r)
        BY <3>4
      <4>3. Adding(i)' \subseteq InFlight
        BY <3>4 DEF Adding, InFlight
      <4> QED
        BY <3>4, <4>1, <4>2, <4>3
    <3> QED
      BY <3>2, <3>3, <3>4
  <2>2. /\ Trimmed(r) \subseteq Requests
        /\ InFlight \subseteq Requests
        /\ Adding(i)' \subseteq Requests
    BY <2>1 DEF Trimmed, InFlight, IndInv, MarkersAccurate, TypeOK
  <2>3. Cardinality(Adding(i)') <= MaxConcurrent
    <3>1. Cardinality(Adding(i)') <= Cardinality(InFlight)
      BY <2>1, <2>2, CardMono
    <3>2. Cardinality(Adding(i)') \in Nat /\ Cardinality(InFlight) \in Nat
      BY <2>2, CardType
    <3> QED
      BY <3>1, <3>2 DEF IndInv, MarkersAccurate
  <2>4. Cardinality(Then) <= Cardinality(Trimmed(r)) + Cardinality(Adding(i)')
    BY <2>1, <2>2, CardUnion
  <2>5. /\ Cardinality(Then) \in Nat
        /\ Cardinality(Trimmed(r)) \in Nat
        /\ Cardinality(Adding(i)') \in Nat
    <3>1. Then \subseteq Requests
      BY <2>1, <2>2
    <3> QED
      BY <2>2, <3>1, CardType
  <2> HIDE DEF Then
  <2> QED
    BY <2>1, <2>3, <2>4, <2>5
<1>4. ASSUME NEW r \in Requests, Arrive(r) \/ Add(r) \/ FailOpen(r)
      PROVE  Then \subseteq Now
  BY <1>4 DEF Arrive, Add, FailOpen, Added, Trimmed, Adding, IndInv,
              MarkersAccurate, TypeOK
<1>5. CASE Tick \/ RedisRestart \/ UNCHANGED vars
  BY <1>2, <1>5 DEF Tick, RedisRestart, vars, Adding, IndInv, MarkersAccurate,
                    TypeOK
<1> QED
  BY <1>2, <1>3, <1>4, <1>5 DEF Next

\* As long as a window is open neither the trim nor the EXPIRE removes a marker
\* of a request granted in it.
LEMMA WindowStep ==
  ASSUME IndInv, [Next]_vars
  PROVE  WindowStored'
<1> USE LimitAssumption DEF IndInv, MarkersAccurate, TypeOK, Goto
<1> SUFFICES ASSUME NEW i \in Identities, NEW x \in since'..MaxTime,
                    now' < x + WindowTicks, NEW q \in InWindow(i, x)'
             PROVE  q \in zset'[i]
  BY DEF WindowStored
<1>1. now \in Nat /\ since \in Nat /\ q \in Requests /\ t[q] \in Nat
  BY DEF InWindow, ReadIn
<1>2. CASE RedisRestart
  <2>1. now + 1 <= x /\ x <= t[q] /\ t[q] <= now
    BY <1>1, <1>2 DEF RedisRestart, InWindow, ReadIn
  <2> QED
    BY <1>1, <2>1
<1>3. ASSUME since' = since PROVE x \in since..MaxTime /\ x \in Nat
  BY <1>1, <1>3
<1>4. ASSUME NEW r \in Requests, Arrive(r) PROVE q \in zset'[i]
  <2>1. q \in InWindow(i, x)
    BY <1>4 DEF Arrive, InWindow, ReadIn
  <2> QED
    BY <1>3, <1>4, <2>1 DEF Arrive, WindowStored
<1>5. ASSUME NEW r \in Requests, now' = now, since' = since, q \in InWindow(i, x),
             zset'[i] = zset[i] \/ (zset'[i] = Trimmed(r) /\ who[r] = i)
      PROVE  q \in zset'[i]
  <2>1. q \in zset[i] /\ x <= t[q]
    BY <1>3, <1>5 DEF WindowStored, InWindow, ReadIn
  <2>2. t[q] > t[r] - WindowTicks
    <3>1. t[r] \in Nat /\ t[r] <= now /\ now < x + WindowTicks
      BY <1>5
    <3> QED
      BY <1>1, <1>3, <1>5, <2>1, <3>1
  <2> QED
    BY <1>5, <2>1, <2>2 DEF Trimmed
<1>6. ASSUME NEW r \in Requests, Check(r) PROVE q \in zset'[i]
  <2>1. q \in InWindow(i, x) /\ now' = now /\ since' = since
    BY <1>6 DEF Check, InWindow, ReadIn
  <2>2. zset'[i] = zset[i] \/ (zset'[i] = Trimmed(r) /\ who[r] = i)
    <3>1. CASE who[r] = i
      BY <1>6, <3>1 DEF Check
    <3>2. CASE who[r] # i
      BY <1>6, <3>2 DEF Check
    <3> QED
      BY <3>1, <3>2
  <2> QED
    BY <1>5, <2>1, <2>2
<1>7. ASSUME NEW r \in Requests, Add(r) PROVE q \in zset'[i]
  <2>1. (q = r /\ who[r] = i) \/ q \in InWindow(i, x)
    BY <1>7 DEF Add, InWindow, ReadIn
  <2> QED
    BY <1>3, <1>7, <2>1 DEF Add, Added, WindowStored
<1>8. ASSUME NEW r \in Requests, FailOpen(r) PROVE q \in zset'[i]
  <2>1. q \in InWindow(i, x) /\ now' = now /\ since' = since
    BY <1>8 DEF FailOpen, InWindow, ReadIn
  <2>2. q \in zset[i]
    BY <1>3, <2>1 DEF WindowStored
  <2>3. CASE zset'[i] = zset[i] \/ (zset'[i] = Trimmed(r) /\ who[r] = i)
    BY <1>5, <2>1, <2>3
  <2>4. CASE Added(r)
    BY <2>2, <2>4 DEF Added
  <2>5. CASE zset' = [zset EXCEPT ![who[r]] = Trimmed(r)]
    <3>1. CASE who[r] = i
      BY <2>3, <2>5, <3>1
    <3>2. CASE who[r] # i
      BY <2>3, <2>5, <3>2
    <3> QED
      BY <3>1, <3>2
  <2> QED
    BY <1>8, <2>3, <2>4, <2>5 DEF FailOpen
<1>9. CASE Tick
  <2>1. q \in InWindow(i, x) /\ now' \in Nat /\ since' = since
    BY <1>9 DEF Tick, InWindow, ReadIn
  <2>2. now < x + WindowTicks
    BY <1>1, <1>3, <1>9, <2>1 DEF Tick
  <2>3. q \in zset[i] /\ x <= t[q]
    BY <1>3, <2>1, <2>2 DEF WindowStored, InWindow, ReadIn
  <2>4. t[q] + WindowTicks <= dies[i]
    BY <2>3
  <2>5. now' < dies[i]
    <3>1. dies[i] \in Nat
      OBVIOUS
    <3> QED
      BY <1>1, <1>3, <2>1, <2>3, <2>4, <3>1
  <2> QED
    BY <1>9, <2>3, <2>5 DEF Tick
<1>10. CASE UNCHANGED vars
  BY <1>3, <1>10 DEF vars, WindowStored, InWindow, ReadIn
<1> QED
  BY <1>2, <1>4, <1>6, <1>7, <1>8, <1>9, <1>10 DEF Next

\* When a window closes, its claims are the markers stored for it and the
\* requests in flight; afterwards no request can join them.
LEMMA ClaimsStep ==
  ASSUME IndInv, [Next]_vars
  PROVE  ClaimsBounded'
<1> USE LimitAssumption
<1> SUFFICES ASSUME NEW i \in Identities, NEW x \in since'..MaxTime,
                    now' >= x + WindowTicks
             PROVE  Cardinality(Claims(i, x)')
                      <= Limit[i] + 2 * MaxConcurrent - 1
  BY DEF ClaimsBounded
<1>0. since' >= since /\ since' \in Nat /\ x \in since..MaxTime /\ x \in Nat
  <2>1. since' \in {since, now + 1} /\ since <= now + 1
    BY DEF IndInv, MarkersAccurate, TypeOK, Next, Arrive, Check, Add, FailOpen,
           RedisRestart, Tick, vars
  <2>2. since \in Nat /\ now \in Nat
    BY DEF IndInv, MarkersAccurate, TypeOK
  <2> QED
    BY <2>1, <2>2
<1>1. Claims(i, x) \subseteq Requests /\ InFlight \subseteq Requests
  BY DEF Claims, InWindow, ReadIn, InFlight
<1>2. CASE now >= x + WindowTicks
  <2>1. Claims(i, x)' \subseteq Claims(i, x)
    <3> USE <1>2 DEF Claims, InWindow, ReadIn, InFlight, IndInv, MarkersAccurate, TypeOK, Goto
    <3>1. ASSUME NEW r \in Requests, Arrive(r)
          PROVE  Claims(i, x)' \subseteq Claims(i, x)
      <4>1. ~(t'[r] < x + WindowTicks)
        BY <3>1 DEF Arrive
      <4> QED
        BY <3>1, <4>1 DEF Arrive
    <3>2. ASSUME NEW r \in Requests, Check(r) \/ Add(r) \/ FailOpen(r)
          PROVE  Claims(i, x)' \subseteq Claims(i, x)
      BY <3>2 DEF Check, Add, FailOpen
    <3>3. CASE Tick \/ RedisRestart \/ UNCHANGED vars
      BY <3>3 DEF Tick, RedisRestart, vars
    <3> QED
      BY <3>1, <3>2, <3>3 DEF Next
  <2>2. Cardinality(Claims(i, x)') <= Cardinality(Claims(i, x))
    BY <1>1, <2>1, CardMono
  <2>3. Cardinality(Claims(i, x)') \in Nat /\ Cardinality(Claims(i, x)) \in Nat
    <3>1. Claims(i, x)' \subseteq Requests
      BY <1>1, <2>1
    <3> QED
      BY <1>1, <3>1, CardType
  <2>4. Cardinality(Claims(i, x)) <= Limit[i] + 2 * MaxConcurrent - 1
    BY <1>0, <1>2 DEF IndInv, ClaimsBounded
  <2> QED
    BY <2>2, <2>3, <2>4
<1>3. CASE now < x + WindowTicks
  <2>1. Tick
    <3>1. now' # now
      BY <1>0, <1>3 DEF IndInv, MarkersAccurate, TypeOK
    <3> QED
      BY <3>1 DEF Next, Arrive, Check, Add, FailOpen, RedisRestart, vars
  <2>2. Claims(i, x)' \subseteq zset[i] \cup InFlight
    BY <1>0, <1>3, <2>1
       DEF Tick, Claims, InWindow, ReadIn, InFlight, IndInv, WindowStored
  <2>3. zset[i] \subseteq Requests
    BY DEF IndInv, MarkersAccurate, TypeOK
  <2>4. Cardinality(zset[i]) <= Limit[i] + MaxConcurrent - 1
    <3>1. /\ zset[i] \cup Adding(i) \subseteq Requests
          /\ Cardinality(zset[i] \cup Adding(i)) <= Limit[i] + MaxConcurrent - 1
      BY <2>3 DEF IndInv, MarkersBounded, Adding
    <3>2. Cardinality(zset[i]) <= Cardinality(zset[i] \cup Adding(i))
      BY <3>1, CardMono
    <3>3. /\ Cardinality(zset[i]) \in Nat
          /\ Cardinality(zset[i] \cup Adding(i)) \in Nat
      BY <2>3, <3>1, CardType
    <3> QED
      BY <3>1, <3>2, <3>3
  <2>5. Cardinality(zset[i] \cup InFlight) <= Cardinality(zset[i]) + Cardinality(InFlight)
    BY <1>1, <2>3, CardUnion
  <2>6. Cardinality(Claims(i, x)') <= Cardinality(zset[i] \cup InFlight)
    BY <1>1, <2>2, <2>3, CardMono
  <2>7. /\ Cardinality(zset[i]) \in Nat
        /\ Cardinality(InFlight) \in Nat
        /\ Cardinality(zset[i] \cup InFlight) \in Nat
        /\ Cardinality(Claims(i, x)') \in Nat
    <3>1. zset[i] \cup InFlight \subseteq Requests /\ Claims(i, x)' \subseteq Requests
      BY <1>1, <2>2, <2>3
    <3> QED
      BY <1>1, <2>3, <3>1, CardType
  <2>8. Cardinality(InFlight) <= MaxConcurrent
    BY DEF IndInv, MarkersAccurate
  <2> QED
    BY <2>4, <2>5, <2>6, <2>7, <2>8
<1> QED
  BY <1>0, <1>2, <1>3 DEF IndInv, MarkersAccurate, TypeOK

\* What a denied request was denied for stays: a marker counted by the check is
\* of an admitted request, and nobody's admission is taken back.
LEMMA DenialStep ==
  ASSUME IndInv, [Next]_vars
  PROVE  DenialJustified'
<1> USE LimitAssumption DEF IndInv, MarkersAccurate, TypeOK, Goto
<1> SUFFICES ASSUME NEW r \in Requests, pc'[r] = "denied"
             PROVE  Cardinality(AdmittedSince(r)') >= Limit[who'[r]]
  BY DEF DenialJustified
<1>1. ASSUME NEW S, S \subseteq AdmittedSince(r)', Cardinality(S) >= Limit[who'[r]]
      PROVE  Cardinality(AdmittedSince(r)') >= Limit[who'[r]]
  <2>1. AdmittedSince(r)' \subseteq Requests /\ S \subseteq Requests
    BY <1>1 DEF AdmittedSince
  <2>2. Limit[who'[r]] \in Nat
    <3>1. who' = who
      BY DEF Next, Arrive, Check, Add, FailOpen, RedisRestart, Tick, vars
    <3> QED
      BY <3>1
  <2> QED
    BY <1>1, <2>1, <2>2, CardMono, CardType
<1>2. CASE pc[r] = "denied"
  <2>1. AdmittedSince(r) \subseteq AdmittedSince(r)' /\ who' = who
    BY <1>2 DEF Next, Arrive, Check, Add, FailOpen, RedisRestart, Tick, vars,
                AdmittedSince
  <2>2. Cardinality(AdmittedSince(r)) >= Limit[who'[r]]
    BY <1>2, <2>1 DEF DenialJustified
  <2> QED
    BY <1>1, <2>1, <2>2
<1>3. CASE pc[r] # "denied"
  <2>1. Check(r)
    BY <1>3 DEF Next, Arrive, Check, Add, FailOpen, RedisRestart, Tick, vars
  <2>2. Cardinality(Trimmed(r)) >= Limit[who'[r]]
    <3>1. Trimmed(r) \subseteq Requests
      BY DEF Trimmed
    <3>2. ~UnderLimit(Cardinality(Trimmed(r)), who[r]) /\ who' = who
      BY <2>1 DEF Check
    <3>3. Cardinality(Trimmed(r)) \in Nat /\ Limit[who[r]] \in Nat
      BY <3>1, CardType
    <3> QED
      BY <3>2, <3>3 DEF UnderLimit
  <2>3. Trimmed(r) \subseteq AdmittedSince(r)'
    BY <2>1 DEF Check, Trimmed, AdmittedSince
  <2> QED
    BY <1>1, <2>2, <2>3
<1> QED
  BY <1>2, <1>3

-----------------------------------------------------------------------------
(* The theorems.                                                           *)

\* Markers, requests in flight and granted requests keep the relation that
\* bounds the overrun, whatever fails in Redis.
THEOREM Invariance == Spec => []IndInv
<1>1. IndInv /\ [Next]_vars => IndInv'
  BY AccurateStep, MarkersStep, WindowStep, ClaimsStep, DenialStep
     DEF IndInv
<1> QED
  BY <1>1, InitIndInv, PTL DEF Spec

\* Nobody is denied who was not admitted Limit times in the window before.
THEOREM DenialJustifiedHolds == Spec => []DenialJustified
<1>1. IndInv => DenialJustified
  BY DEF IndInv
<1> QED
  BY <1>1, Invariance, PTL

\* In any window since the last restart of Redis an identity is granted less
\* than its limit plus twice the number of requests in flight.
THEOREM OverrunBoundedHolds == Spec => []OverrunBounded
<1>1. ASSUME IndInv PROVE OverrunBounded
  <2> USE LimitAssumption, <1>1
  <2> SUFFICES ASSUME NEW i \in Identities, NEW x \in since..MaxTime
               PROVE  Cardinality(InWindow(i, x))
                        <= Limit[i] + 2 * MaxConcurrent - 1
    BY DEF OverrunBounded
  <2>1. InWindow(i, x) \subseteq Requests /\ Claims(i, x) \subseteq Requests
    BY DEF InWindow, ReadIn, Claims, InFlight
  <2>2. CASE now < x + WindowTicks
    <3>1. InWindow(i, x) \subseteq zset[i] \cup Adding(i)
      BY <2>2 DEF IndInv, WindowStored
    <3>2. /\ zset[i] \cup Adding(i) \subseteq Requests
          /\ Cardinality(zset[i] \cup Adding(i)) <= Limit[i] + MaxConcurrent - 1
      BY DEF IndInv, MarkersAccurate, TypeOK, MarkersBounded, Adding
    <3>3. Cardinality(InWindow(i, x)) <= Cardinality(zset[i] \cup Adding(i))
      BY <3>1, <3>2, CardMono
    <3>4. /\ Cardinality(InWindow(i, x)) \in Nat
          /\ Cardinality(zset[i] \cup Adding(i)) \in Nat
      BY <2>1, <3>2, CardType
    <3> QED
      BY <3>2, <3>3, <3>4
  <2>3. CASE now >= x + WindowTicks
    <3>1. Cardinality(InWindow(i, x)) <= Cardinality(Claims(i, x))
      <4>1. InWindow(i, x) \subseteq Claims(i, x)
        BY DEF Claims
      <4> QED
        BY <2>1, <4>1, CardMono
    <3>2. /\ Cardinality(InWindow(i, x)) \in Nat
          /\ Cardinality(Claims(i, x)) \in Nat
      BY <2>1, CardType
    <3>3. Cardinality(Claims(i, x)) <= Limit[i] + 2 * MaxConcurrent - 1
      BY <2>3 DEF IndInv, ClaimsBounded
    <3> QED
      BY <3>1, <3>2, <3>3
  <2> QED
    BY <2>2, <2>3 DEF IndInv, MarkersAccurate, TypeOK
<1>2. IndInv => OverrunBounded
  BY <1>1
<1> QED
  BY <1>2, Invariance, PTL

\* Only a restart of Redis forgets a marker inside the window.
THEOREM MarkersKeptHolds == Spec => MarkersKept
<1> DEFINE Kept == \A i \in Identities : \A r \in zset[i] \ zset'[i] :
                     t[r] <= now' - WindowTicks
<1>1. ASSUME IndInv, [Next]_vars, ~RedisRestart PROVE Kept
  <2> USE <1>1, LimitAssumption DEF IndInv, MarkersAccurate, TypeOK
  <2>1. ASSUME NEW r \in Requests, Check(r) PROVE Kept
    BY <2>1 DEF Check, Trimmed
  <2>2. ASSUME NEW r \in Requests, Arrive(r) \/ Add(r) PROVE Kept
    BY <2>2 DEF Arrive, Add, Added
  <2>3. ASSUME NEW r \in Requests, FailOpen(r) PROVE Kept
    BY <2>3 DEF FailOpen, Added, Trimmed
  <2>4. CASE Tick
    BY <2>4 DEF Tick
  <2>5. CASE UNCHANGED vars
    BY <2>5 DEF vars
  <2> QED
    BY <1>1, <2>1, <2>2, <2>3, <2>4, <2>5 DEF Next
<1>2. IndInv /\ [Next]_vars => [RedisRestart \/ Kept]_vars
  BY <1>1
<1> QED
  BY <1>2, Invariance, PTL DEF Spec, MarkersKept

=============================================================================
