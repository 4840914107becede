-------------------------- MODULE AnalyticsProofs --------------------------
(***************************************************************************)
(* Proof that the invariants of Analytics hold for any number of requests, *)
(* workers, events, urls and users and any limit.                          *)
(*                                                                         *)
(* Rows are never changed or removed, urls never come back and an answer   *)
(* is final; so what a request has counted stays a lower bound of what is  *)
(* stored, and only the acting request must be looked at.                  *)
(***************************************************************************)
EXTENDS Analytics, FiniteSetTheorems, TLAPS

\* The steps of one request.
RequestStep(r) ==
  \/ \E u \in Urls, c \in Users : GetUrlAnalytics(r, u, c)
  \/ GetUrl(r) \/ GetCount(r) \/ GetRecent(r) \/ Fail(r)

\* The steps of workers, owners and the clock.
OtherStep ==
  \/ \E w \in Workers : \/ \E e \in Events : BeginInsert(w, e)
                        \/ CommitInsert(w) \/ AbortInsert(w)
  \/ \E u \in Urls : DeleteUrl(u)
  \/ Tick

\* The step leaves request r alone.
Same(r) ==
  /\ pc'[r] = pc[r] /\ req'[r] = req[r] /\ total'[r] = total[r] /\ recent'[r] = recent[r]

\* What no step takes back.
Grows ==
  /\ active' \subseteq active
  /\ \A e \in Events : rows[e] # None => rows'[e] = rows[e]
  /\ \A r \in Requests : pc[r] = "200" => Same(r)

\* The stored clicks of a url are finitely many.
LEMMA StoredFinite ==
  ASSUME NEW u
  PROVE  /\ IsFiniteSet(Stored(u)) /\ Cardinality(Stored(u)) \in Nat
         /\ \A S \in SUBSET Stored(u) :
              /\ IsFiniteSet(S) /\ Cardinality(S) \in Nat
              /\ Cardinality(S) <= Cardinality(Stored(u))
<1>1. Stored(u) \subseteq Events
  BY DEF Stored
<1>2. IsFiniteSet(Stored(u))
  BY <1>1, FS_Subset, AnalyticsAssumption
<1> QED BY <1>2, FS_Subset, FS_CardinalityType

\* The stored clicks of a url, and hence their number, only grow.
LEMMA StoredGrows ==
  ASSUME TypeOK, Grows, NEW u
  PROVE  /\ Stored(u) \subseteq Stored(u)'
         /\ Cardinality(Stored(u)) \in Nat /\ Cardinality(Stored(u)') \in Nat
         /\ Cardinality(Stored(u)) <= Cardinality(Stored(u)')
<1>1. Stored(u) \subseteq Stored(u)'
  BY DEF Stored, Grows
<1>2. Stored(u)' \subseteq Events
  BY DEF Stored
<1>3. IsFiniteSet(Stored(u)')
  BY <1>2, FS_Subset, AnalyticsAssumption
<1> QED BY <1>1, <1>3, FS_Subset, FS_CardinalityType

\* Every step keeps the types.
LEMMA TypeStep ==
  ASSUME TypeOK, \A r \in Requests : RequestSound(r), [Next]_vars
  PROVE  TypeOK'
<1> USE AnalyticsAssumption
<1>1. CASE UNCHANGED vars
  BY <1>1 DEF vars, TypeOK
<1>2. ASSUME NEW w \in Workers, NEW e \in Events, BeginInsert(w, e) PROVE TypeOK'
  <2>1. [event |-> e, clicked_at |-> now] \in [event : Events, clicked_at : 0..MaxTime]
    BY DEF TypeOK
  <2> QED BY <1>2, <2>1 DEF BeginInsert, TypeOK
<1>3. ASSUME NEW w \in Workers, CommitInsert(w) PROVE TypeOK'
  <2>1. tx[w].event \in Events /\ tx[w].clicked_at \in 0..MaxTime
    BY <1>3 DEF CommitInsert, TypeOK
  <2> QED BY <1>3, <2>1 DEF CommitInsert, Inserted, TypeOK
<1>4. ASSUME NEW w \in Workers, AbortInsert(w) PROVE TypeOK'
  BY <1>4 DEF AbortInsert, TypeOK
<1>5. ASSUME NEW u \in Urls, DeleteUrl(u) PROVE TypeOK'
  BY <1>5 DEF DeleteUrl, TypeOK
<1>6. CASE Tick
  BY <1>6 DEF Tick, TypeOK
<1>7. ASSUME NEW r \in Requests, NEW u \in Urls, NEW c \in Users, GetUrlAnalytics(r, u, c)
      PROVE  TypeOK'
  <2>1. [url |-> u, user |-> c, gone |-> Urls \ active,
         earlier |-> {q \in Requests : pc[q] = "200"}] \in Request
    BY DEF Request
  <2> QED BY <1>7, <2>1 DEF GetUrlAnalytics, Goto, TypeOK
<1>8. ASSUME NEW r \in Requests, GetUrl(r) PROVE TypeOK'
  BY <1>8 DEF GetUrl, Then, Goto, TypeOK
<1>9. ASSUME NEW r \in Requests, GetCount(r) PROVE TypeOK'
  BY <1>9, StoredFinite DEF GetCount, Then, Goto, TypeOK
<1>10. ASSUME NEW r \in Requests, GetRecent(r) PROVE TypeOK'
  <2>1. PICK S \in Newest(req[r].url) : recent' = [recent EXCEPT ![r] = S]
    BY <1>10 DEF GetRecent
  <2>2. S \subseteq Events
    BY DEF Newest, Stored
  <2> QED BY <1>10, <2>1, <2>2 DEF GetRecent, Then, Goto, TypeOK
<1>11. ASSUME NEW r \in Requests, Fail(r) PROVE TypeOK'
  BY <1>11 DEF Fail, Goto, TypeOK
<1> QED BY <1>1, <1>2, <1>3, <1>4, <1>5, <1>6, <1>7, <1>8, <1>9, <1>10, <1>11 DEF Next

\* A step of one request leaves the others alone; other steps leave all alone.
LEMMA OthersSame ==
  ASSUME TypeOK
  PROVE  /\ \A r, q \in Requests : RequestStep(r) /\ q # r => Same(q)
         /\ OtherStep \/ UNCHANGED vars => \A q \in Requests : Same(q)
<1>1. ASSUME NEW r \in Requests, NEW q \in Requests, RequestStep(r), q # r PROVE Same(q)
  BY <1>1 DEF RequestStep, GetUrlAnalytics, GetUrl, GetCount, GetRecent, Fail, Goto, Same, TypeOK
<1>2. ASSUME OtherStep \/ UNCHANGED vars, NEW q \in Requests PROVE Same(q)
  BY <1>2 DEF OtherStep, BeginInsert, CommitInsert, AbortInsert, DeleteUrl, Tick, vars, Same
<1> QED BY <1>1, <1>2

\* No step removes or changes a row, brings a url back or alters an answer.
LEMMA GrowsStep ==
  ASSUME TypeOK, [Next]_vars
  PROVE  Grows
<1>1. active' \subseteq active
  BY DEF Next, BeginInsert, CommitInsert, AbortInsert, DeleteUrl, Tick, GetUrlAnalytics, GetUrl,
     GetCount, GetRecent, Fail, vars
<1>2. ASSUME NEW e \in Events, rows[e] # None PROVE rows'[e] = rows[e]
  <2>1. ASSUME NEW w \in Workers, CommitInsert(w) PROVE rows'[e] = rows[e]
    BY <1>2, <2>1 DEF CommitInsert, Inserted, TypeOK
  <2>2. CASE ~\E w \in Workers : CommitInsert(w)
    <3>1. rows' = rows
      BY <2>2 DEF Next, BeginInsert, AbortInsert, DeleteUrl, Tick, GetUrlAnalytics, GetUrl,
         GetCount, GetRecent, Fail, vars
    <3> QED BY <3>1
  <2> QED BY <2>1, <2>2
<1>3. ASSUME NEW r \in Requests, pc[r] = "200" PROVE Same(r)
  <2>1. ~RequestStep(r)
    BY <1>3 DEF RequestStep, GetUrlAnalytics, GetUrl, GetCount, GetRecent, Fail
  <2> QED BY <2>1, OthersSame DEF Next, RequestStep, OtherStep
<1> QED BY <1>1, <1>2, <1>3 DEF Grows

\* What is known of a request stays true while it waits.
LEMMA SoundKept ==
  ASSUME TypeOK, TypeOK', Grows, NEW r \in Requests, RequestSound(r), Same(r)
  PROVE  RequestSound(r)'
<1>1. CASE pc[r] = "new"
  BY <1>1 DEF RequestSound, Same
<1>2. CASE pc[r] # "new"
  <2>1. req[r] \in Request /\ req[r].earlier \subseteq Requests /\ req[r] # None
    BY <1>2 DEF TypeOK, RequestSound, Request
  <2>2. \A q \in req[r].earlier : pc[q] = "200" /\ Same(q)
    BY <1>2, <2>1 DEF RequestSound, Grows
  <2>3. /\ req'[r] # None /\ req'[r].gone \cap active' = {}
        /\ \A q \in req'[r].earlier : pc'[q] = "200"
    BY <1>2, <2>1, <2>2 DEF RequestSound, Same, Grows
  <2>4. total[r] \in Nat
    BY DEF TypeOK
  <2>5. PICK u : u = req[r].url
    OBVIOUS
  <2>6. Stored(req[r].url)' = Stored(u)' /\ req'[r].url = u
    BY <2>5 DEF Same, Stored
  <2>7. pc[r] \in {"recent", "200"} =>
          /\ total'[r] <= Cardinality(Stored(u)')
          /\ \A q \in req'[r].earlier : req'[q].url = u =>
               total'[q] <= total'[r] /\ Cardinality(recent'[q]) <= total'[r]
    <3> SUFFICES ASSUME pc[r] \in {"recent", "200"}
                 PROVE  /\ total'[r] <= Cardinality(Stored(u)')
                        /\ \A q \in req'[r].earlier : req'[q].url = u =>
                             total'[q] <= total'[r] /\ Cardinality(recent'[q]) <= total'[r]
      OBVIOUS
    <3>1. total[r] <= Cardinality(Stored(u))
      BY <2>5 DEF RequestSound
    <3>2. total'[r] <= Cardinality(Stored(u)')
      BY <2>4, <3>1, StoredGrows DEF Same
    <3> QED BY <2>2, <2>5, <3>2 DEF RequestSound, Same
  <2>8. pc[r] = "200" => recent'[r] \subseteq Stored(u)'
    BY <2>5, StoredGrows DEF RequestSound, Same
  <2> QED BY <2>3, <2>5, <2>6, <2>7, <2>8 DEF RequestSound, Same
<1> QED BY <1>1, <1>2

\* What the acting request learns is true.
LEMMA ActorSound ==
  ASSUME IndInv, TypeOK', Grows, NEW r \in Requests, RequestStep(r)
  PROVE  RequestSound(r)'
<1>0. TypeOK /\ \A q \in Requests : RequestSound(q)
  BY DEF IndInv
<1>1. CASE \E u \in Urls, c \in Users : GetUrlAnalytics(r, u, c)
  <2>1. PICK u \in Urls, c \in Users : GetUrlAnalytics(r, u, c)
    BY <1>1
  <2>2. /\ pc'[r] = "get" /\ active' = active
        /\ req'[r] = [url |-> u, user |-> c, gone |-> Urls \ active,
                      earlier |-> {q \in Requests : pc[q] = "200"}]
    BY <1>0, <2>1 DEF GetUrlAnalytics, Goto, TypeOK
  <2>3. req'[r] \in Request
    BY <2>2 DEF Request
  <2>4. req'[r] # None /\ req'[r].gone \cap active' = {}
    BY <2>2, <2>3, RequestAssumption
  <2>5. \A q \in req'[r].earlier : pc'[q] = "200"
    BY <2>2 DEF Grows, Same
  <2> QED BY <2>2, <2>4, <2>5 DEF RequestSound
<1>2. ASSUME pc[r] # "new", req' = req
      PROVE  /\ req'[r] # None /\ req'[r].gone \cap active' = {}
             /\ req[r] \in Request /\ req[r].earlier \subseteq Requests
             /\ \A q \in req[r].earlier : pc[q] = "200" /\ Same(q)
             /\ \A q \in req'[r].earlier : pc'[q] = "200"
  <2>1. req[r] \in Request /\ req[r].earlier \subseteq Requests
    BY <1>0, <1>2 DEF TypeOK, RequestSound, Request
  <2>2. \A q \in req[r].earlier : pc[q] = "200" /\ Same(q)
    BY <1>0, <1>2, <2>1 DEF RequestSound, Grows
  <2> QED BY <1>0, <1>2, <2>1, <2>2 DEF RequestSound, Same, Grows
<1>3. CASE GetUrl(r)
  <2>1. pc[r] = "get" /\ req' = req /\ pc'[r] \in {"403", "404", "count"}
    BY <1>0, <1>3 DEF GetUrl, Then, Goto, TypeOK
  <2>2. pc'[r] = "count" => Owner[req[r].url] = req[r].user /\ req[r].url \in active
    BY <1>0, <1>3 DEF GetUrl, Then, Goto, TypeOK, Found
  <2>3. req[r].gone \cap active = {}
    BY <1>0, <2>1 DEF RequestSound
  <2> QED BY <1>2, <2>1, <2>2, <2>3 DEF RequestSound
<1>4. CASE GetCount(r)
  <2>1. /\ pc[r] = "count" /\ req' = req /\ pc'[r] = "recent" /\ rows' = rows /\ recent' = recent
        /\ total'[r] = Cardinality(Stored(req[r].url))
    BY <1>0, <1>4 DEF GetCount, Then, Goto, TypeOK
  <2>2. PICK u : u = req[r].url
    OBVIOUS
  <2>3. Stored(req[r].url)' = Stored(u) /\ total'[r] = Cardinality(Stored(u))
    BY <2>1, <2>2 DEF Stored
  <2>4. Cardinality(Stored(u)) \in Nat
    BY StoredFinite
  <2>5. ASSUME NEW q \in req[r].earlier, req[q].url = u
        PROVE  total'[q] <= total'[r] /\ Cardinality(recent'[q]) <= total'[r]
    <3>1. q \in Requests /\ pc[q] = "200" /\ Same(q)
      BY <1>2, <2>1
    <3>2. total[q] <= Cardinality(Stored(u)) /\ recent[q] \subseteq Stored(u)
      BY <1>0, <2>5, <3>1 DEF RequestSound
    <3> QED BY <2>3, <3>1, <3>2, StoredFinite DEF Same
  <2> QED BY <1>0, <1>2, <2>1, <2>2, <2>3, <2>4, <2>5 DEF RequestSound
<1>5. CASE GetRecent(r)
  <2>1. PICK S \in Newest(req[r].url) : recent' = [recent EXCEPT ![r] = S]
    BY <1>5 DEF GetRecent
  <2>2. /\ pc[r] = "recent" /\ req' = req /\ pc'[r] = "200" /\ rows' = rows /\ total' = total
        /\ recent'[r] = S /\ S \subseteq Stored(req[r].url)
    BY <1>0, <1>5, <2>1 DEF GetRecent, Then, Goto, TypeOK, Newest
  <2>3. Stored(req[r].url)' = Stored(req[r].url)
    BY <2>2 DEF Stored
  <2>4. \A q \in req[r].earlier : recent'[q] = recent[q]
    BY <1>2, <2>2 DEF Same
  <2> QED BY <1>0, <1>2, <2>2, <2>3, <2>4 DEF RequestSound
<1>6. CASE Fail(r)
  <2>1. pc[r] # "new" /\ req' = req /\ pc'[r] = "500"
    BY <1>0, <1>6 DEF Fail, Goto, TypeOK
  <2> QED BY <1>2, <2>1 DEF RequestSound
<1> QED BY <1>1, <1>3, <1>4, <1>5, <1>6 DEF RequestStep

\* A new report lists all it counts; the old ones do not change.
LEMMA CoversStep ==
  ASSUME IndInv, TypeOK', Grows, [Next]_vars, NEW r \in Requests, pc'[r] = "200"
  PROVE  /\ \A e \in recent'[r] : UrlOf[e] = req'[r].url
         /\ Cardinality(recent'[r]) <= RecentLimit
         /\ Cardinality(recent'[r]) < RecentLimit => total'[r] <= Cardinality(recent'[r])
         /\ \A q \in req'[r].earlier : req'[q].url = req'[r].url =>
              \A d \in recent'[q] \ recent'[r] : Displaced(d, r)'
<1>0. TypeOK /\ RequestSound(r) /\ \A q \in Requests : RequestSound(q)
  BY DEF IndInv
<1>1. CASE pc[r] = "200"
  <2>1. Same(r) /\ req[r].earlier \subseteq Requests
    BY <1>0, <1>1 DEF Grows, TypeOK, RequestSound, Request
  <2>2. ASSUME NEW q \in req'[r].earlier, req'[q].url = req'[r].url,
               NEW d \in recent'[q] \ recent'[r]
        PROVE  Displaced(d, r)'
    <3>1. q \in Requests /\ pc[q] = "200" /\ Same(q)
      BY <1>0, <1>1, <2>1 DEF RequestSound, Grows, Same
    <3>2. Displaced(d, r)
      BY <1>1, <2>1, <2>2, <3>1 DEF IndInv, ReportsAgree, Same
    <3>3. recent[q] \subseteq Stored(req[q].url) /\ recent[r] \subseteq Stored(req[r].url)
      BY <1>0, <1>1, <3>1 DEF RequestSound
    <3>4. rows'[d] = rows[d] /\ \A e \in recent[r] : rows'[e] = rows[e]
      BY <2>2, <3>1, <3>3 DEF Stored, Grows, Same
    <3> QED BY <2>1, <3>2, <3>4 DEF Displaced, Same
  <2> QED BY <1>1, <2>1, <2>2 DEF IndInv, RecentCoversTotal, Same
<1>2. CASE pc[r] # "200"
  <2>1. GetRecent(r)
    <3>1. RequestStep(r)
      BY <1>0, <1>2, OthersSame DEF Next, RequestStep, OtherStep, Same
    <3> QED BY <1>0, <1>2, <3>1 DEF RequestStep, GetUrlAnalytics, GetUrl, GetCount, Fail, Then,
            Goto, TypeOK
  <2>2. PICK S \in Newest(req[r].url) : recent' = [recent EXCEPT ![r] = S]
    BY <2>1 DEF GetRecent
  <2>3. /\ pc[r] = "recent" /\ req' = req /\ rows' = rows /\ total' = total /\ recent'[r] = S
    BY <1>0, <2>1, <2>2 DEF GetRecent, TypeOK
  <2>4. PICK u : u = req[r].url
    OBVIOUS
  <2>5. /\ S \subseteq Stored(u)
        /\ Cardinality(S) = RecentLimit \/ (S = Stored(u) /\ Cardinality(S) < RecentLimit)
        /\ \A e \in S, d \in Stored(u) \ S : rows[e] >= rows[d]
    BY <2>2, <2>4 DEF Newest
  <2>6. Cardinality(S) \in Nat /\ RecentLimit \in Nat
    BY <2>5, StoredFinite, AnalyticsAssumption
  <2>7. total[r] <= Cardinality(Stored(u))
    BY <1>0, <2>3, <2>4 DEF RequestSound
  <2>8. ASSUME NEW q \in req'[r].earlier, req'[q].url = req'[r].url,
               NEW d \in recent'[q] \ recent'[r]
        PROVE  Displaced(d, r)'
    <3>1. q \in Requests /\ pc[q] = "200" /\ Same(q)
      BY <1>0, <2>3 DEF RequestSound, Grows, TypeOK, Request
    <3>2. d \in Stored(u) \ S
      BY <1>0, <2>3, <2>4, <2>8, <3>1 DEF RequestSound, Same
    <3>3. Cardinality(S) = RecentLimit
      BY <2>5, <3>2
    <3> QED BY <2>3, <2>5, <3>2, <3>3 DEF Displaced
  <2>9. \A e \in recent'[r] : UrlOf[e] = req'[r].url
    BY <2>3, <2>4, <2>5 DEF Stored
  <2>10. Cardinality(S) < RecentLimit => S = Stored(u)
    BY <2>5, <2>6
  <2>11. /\ Cardinality(recent'[r]) <= RecentLimit
         /\ Cardinality(recent'[r]) < RecentLimit => total'[r] <= Cardinality(recent'[r])
    BY <2>3, <2>5, <2>6, <2>7, <2>10
  <2> QED BY <2>8, <2>9, <2>11
<1> QED BY <1>1, <1>2

\* The inductive invariant holds in every state, whatever clicks, deletions and
\* failures fall between the statements of a report.
THEOREM Invariance == Spec => []IndInv
<1>1. Init => IndInv
  BY AnalyticsAssumption DEF Init, IndInv, TypeOK, RequestSound, RecentCoversTotal, ReportsAgree
<1>2. IndInv /\ [Next]_vars => IndInv'
  <2> SUFFICES ASSUME IndInv, [Next]_vars PROVE IndInv'
    OBVIOUS
  <2>1. TypeOK /\ \A r \in Requests : RequestSound(r)
    BY DEF IndInv
  <2>2. TypeOK' /\ Grows
    BY <2>1, TypeStep, GrowsStep
  <2>3. ASSUME NEW r \in Requests PROVE RequestSound(r)'
    <3>1. CASE RequestStep(r)
      BY <2>2, <3>1, ActorSound
    <3>2. CASE ~RequestStep(r)
      <4>1. Same(r)
        BY <2>1, <3>2, OthersSame DEF Next, RequestStep, OtherStep
      <4> QED BY <2>1, <2>2, <4>1, SoundKept
    <3> QED BY <3>1, <3>2
  <2>4. RecentCoversTotal'
    BY <2>2, CoversStep DEF RecentCoversTotal
  <2>5. ReportsAgree'
    <3> SUFFICES ASSUME NEW r \in Requests, pc'[r] = "200",
                        NEW q \in req'[r].earlier, req'[q].url = req'[r].url
                 PROVE  /\ total'[q] <= total'[r]
                        /\ Cardinality(recent'[q]) <= total'[r]
                        /\ \A d \in recent'[q] \ recent'[r] : Displaced(d, r)'
      BY DEF ReportsAgree
    <3>1. total'[q] <= total'[r] /\ Cardinality(recent'[q]) <= total'[r]
      BY <2>3 DEF RequestSound
    <3> QED BY <2>2, <3>1, CoversStep
  <2> QED BY <2>2, <2>3, <2>4, <2>5 DEF IndInv
<1> QED BY <1>1, <1>2, PTL DEF Spec

\* A report lists all that it counts, up to the limit.
THEOREM RecentCoversTotalHolds == Spec => []RecentCoversTotal
<1>1. IndInv => RecentCoversTotal
  BY DEF IndInv
<1> QED BY <1>1, Invariance, PTL

\* Later reports confirm earlier ones.
THEOREM ReportsAgreeHolds == Spec => []ReportsAgree
<1>1. IndInv => ReportsAgree
  BY DEF IndInv
<1> QED BY <1>1, Invariance, PTL

\* Only owners of urls not deleted before they asked get reports.
THEOREM ReportsAuthorisedHolds == Spec => []ReportsAuthorised
<1>1. IndInv => ReportsAuthorised
  BY DEF IndInv, RequestSound, ReportsAuthorised
<1> QED BY <1>1, Invariance, PTL

=============================================================================
