---------------------------- MODULE RateLimiter ----------------------------
(***************************************************************************)
(* The sliding-window rate limiter in front of URL creation: one Redis     *)
(* sorted set per identity, shared by all backend instances.               *)
(*                                                                         *)
(* is_allowed reads the clock, then sends two pipelines: the first trims   *)
(* the set and counts it, the second adds the request's marker.  Each      *)
(* pipeline is a MULTI/EXEC transaction, so it is one action; requests of  *)
(* other threads and instances fall between them.  Every request is made   *)
(* once, so that its name can serve as the uuid4 marker and t[r] as the    *)
(* marker's score.                                                         *)
(***************************************************************************)
EXTENDS Integers, FiniteSets

CONSTANTS
  Requests,       \* requests to create a URL
  Identities,     \* "user:<id>" and "ip:<host>"
  Limit,          \* Limit[i]: requests per window granted to i
  WindowTicks,    \* WINDOW_SECONDS, in ticks
  MaxConcurrent,  \* requests in flight, over all threads and instances
  MaxTime,        \* bound on the clock
  FaultsPossible  \* Redis may fail or restart

ASSUME LimitAssumption ==
  /\ IsFiniteSet(Requests)
  /\ Limit \in [Identities -> Nat]
  /\ WindowTicks \in Nat \ {0}
  /\ MaxConcurrent \in Nat \ {0}
  /\ MaxTime \in Nat
  /\ FaultsPossible \in BOOLEAN

VARIABLES
  now,   \* the clock
  zset,  \* zset[i]: markers in ratelimit:<i>
  dies,  \* dies[i]: when the key's EXPIRE runs out, if it exists
  pc,    \* pc[r]: next pipeline of r, or the outcome
  who,   \* who[r]: the identity of r
  t,     \* t[r]: time.time() as r read it
  since  \* history: the first tick wholly after the last restart of Redis

vars == <<now, zset, dies, pc, who, t, since>>

InFlight == {r \in Requests : pc[r] \in {"check", "add"}}

Init ==
  /\ now = 0
  /\ zset = [i \in Identities |-> {}]
  /\ dies = [i \in Identities |-> 0]
  /\ pc = [r \in Requests |-> "new"]
  /\ who \in [Requests -> Identities]
  /\ t = [r \in Requests |-> 0]
  /\ since = 0

Goto(r, label) == pc' = [pc EXCEPT ![r] = label]

\* enforce_create_url_rate_limit has picked the identity; now = time.time().
Arrive(r) ==
  /\ pc[r] = "new"
  /\ Cardinality(InFlight) < MaxConcurrent
  /\ t' = [t EXCEPT ![r] = now]
  /\ Goto(r, "check")
  /\ UNCHANGED <<now, zset, dies, who, since>>

\* Mutant: an off-by-one in the trim, which keeps the marker on the boundary.
TrimmedExclusive(r) == {q \in zset[who[r]] : t[q] >= t[r] - WindowTicks}

\* ZREMRANGEBYSCORE 0..window_start, both ends included.
Trimmed(r) == {q \in zset[who[r]] : t[q] > t[r] - WindowTicks}

\* Mutant: one request more than the limit.
AtMostLimit(n, i) == n <= Limit[i]

UnderLimit(n, i) == n < Limit[i]

\* The first pipeline: trim, then count what is left.
Check(r) ==
  /\ pc[r] = "check"
  /\ zset' = [zset EXCEPT ![who[r]] = Trimmed(r)]
  /\ Goto(r, IF UnderLimit(Cardinality(Trimmed(r)), who[r]) THEN "add" ELSE "denied")
  /\ UNCHANGED <<now, dies, who, t, since>>

\* Mutant: the key dies before its newest marker leaves the window.
ExpireEarly == now + WindowTicks - 1

ExpireAt == now + WindowTicks

Added(r) ==
  /\ zset' = [zset EXCEPT ![who[r]] = @ \cup {r}]
  /\ dies' = [dies EXCEPT ![who[r]] = ExpireAt]

\* The second pipeline: ZADD and EXPIRE.
Add(r) ==
  /\ pc[r] = "add"
  /\ Added(r)
  /\ Goto(r, "allowed")
  /\ UNCHANGED <<now, who, t, since>>

\* A RedisError in either pipeline, whether or not it took effect: fail open.
FailOpen(r) ==
  /\ FaultsPossible
  /\ \/ /\ pc[r] = "check"
        /\ zset' \in {zset, [zset EXCEPT ![who[r]] = Trimmed(r)]}
        /\ UNCHANGED dies
     \/ /\ pc[r] = "add"
        /\ \/ Added(r)
           \/ UNCHANGED <<zset, dies>>
  /\ Goto(r, "failed_open")
  /\ UNCHANGED <<now, who, t, since>>

RedisRestart ==
  /\ FaultsPossible
  /\ zset # [i \in Identities |-> {}]
  /\ zset' = [i \in Identities |-> {}]
  /\ since' = now + 1
  /\ UNCHANGED <<now, dies, pc, who, t>>

\* Time passes; Redis drops the keys that have run out.
Tick ==
  /\ now < MaxTime
  /\ now' = now + 1
  /\ zset' = [i \in Identities |-> IF now' >= dies[i] THEN {} ELSE zset[i]]
  /\ UNCHANGED <<dies, pc, who, t, since>>

Next ==
  \/ \E r \in Requests : Arrive(r) \/ Check(r) \/ Add(r) \/ FailOpen(r)
  \/ RedisRestart
  \/ Tick

Spec == Init /\ [][Next]_vars

-----------------------------------------------------------------------------
(* Properties.                                                             *)

TypeOK ==
  /\ now \in 0..MaxTime
  /\ zset \in [Identities -> SUBSET Requests]
  /\ dies \in [Identities -> Nat]
  /\ pc \in [Requests -> {"new", "check", "add", "allowed", "denied", "failed_open"}]
  /\ who \in [Requests -> Identities]
  /\ t \in [Requests -> 0..MaxTime]
  /\ since \in 0..(now + 1)

\* Requests of i whose clock reading is in [x, x + window).
ReadIn(i, x) == {r \in Requests : who[r] = i /\ x <= t[r] /\ t[r] < x + WindowTicks}

\* Those of them that the limiter counted and granted.
InWindow(i, x) == {r \in ReadIn(i, x) : pc[r] = "allowed"}

\* The requests one identity is granted by count in any window of
\* WINDOW_SECONDS that began since Redis last lost its data exceed its limit by
\* less than twice the concurrency.  The overrun has two causes, each worth up
\* to MaxConcurrent requests: requests that count before the others add, and
\* requests delayed after their clock reading until the markers they should
\* have counted were trimmed or expired.  Requests that fail open never widen it.
OverrunBounded ==
  \A i \in Identities, x \in since..MaxTime :
    Cardinality(InWindow(i, x)) <= Limit[i] + 2 * MaxConcurrent - 1

\* The requests of r's identity admitted with a clock reading in r's window or
\* after it.
AdmittedSince(r) ==
  {q \in Requests : /\ pc[q] \in {"allowed", "failed_open"}
                    /\ who[q] = who[r] /\ t[q] > t[r] - WindowTicks}

\* A request is denied only if its identity was admitted Limit times within the
\* window before it: neither denied requests, nor other identities, nor markers
\* on the window's edge count against it, whatever fails in Redis.
DenialJustified ==
  \A r \in Requests : pc[r] = "denied" =>
    Cardinality(AdmittedSince(r)) >= Limit[who[r]]

\* Only a restart of Redis forgets a marker that is still inside the window:
\* not the trim, not the EXPIRE on the key, not a pipeline that fails.
MarkersKept ==
  [][RedisRestart \/ \A i \in Identities : \A r \in zset[i] \ zset'[i] :
       t[r] <= now' - WindowTicks]_vars

-----------------------------------------------------------------------------
(* The inductive invariant behind OverrunBounded and DenialJustified.      *)

\* Requests of i between their two pipelines.
Adding(i) == {r \in Requests : pc[r] = "add" /\ who[r] = i}

\* The set of an identity never holds more than its limit plus the requests
\* that passed the check together, and these are counted before they add.
MarkersBounded ==
  \A i \in Identities :
    Cardinality(zset[i] \cup Adding(i)) <= Limit[i] + MaxConcurrent - 1

\* Until a window is over, the markers of all requests granted in it are there.
WindowStored ==
  \A i \in Identities, x \in since..MaxTime :
    now < x + WindowTicks => InWindow(i, x) \subseteq zset[i]

\* Requests of i, granted or not yet answered, whose clock reading is in the window.
Claims(i, x) == InWindow(i, x) \cup (ReadIn(i, x) \cap InFlight)

\* The bound on the requests that still claim a place in a finished window.
ClaimsBounded ==
  \A i \in Identities, x \in since..MaxTime :
    now >= x + WindowTicks =>
      Cardinality(Claims(i, x)) <= Limit[i] + 2 * MaxConcurrent - 1

\* Clock readings lie in the past, and a marker stands for an admitted request
\* of its identity and does not outlive its key.
MarkersAccurate ==
  /\ TypeOK
  /\ Cardinality(InFlight) <= MaxConcurrent
  /\ \A r \in Requests : t[r] <= now
  /\ \A i \in Identities : \A r \in zset[i] :
       /\ pc[r] \in {"allowed", "failed_open"} /\ who[r] = i
       /\ t[r] + WindowTicks <= dies[i]

\* What every step preserves, failures included.
IndInv ==
  /\ MarkersAccurate
  /\ MarkersBounded
  /\ WindowStored
  /\ ClaimsBounded
  /\ DenialJustified

-----------------------------------------------------------------------------
(* A claim of the repository that the code does not keep.                  *)

\* Claimed by ADR-007: a request is admitted only if under the limit, across
\* instances.  (Refuted: two requests both count before either adds.)
LimitHolds ==
  \A i \in Identities, x \in 0..MaxTime :
    Cardinality(InWindow(i, x)) <= Limit[i]

=============================================================================
