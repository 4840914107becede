------------------------ MODULE UrlServiceRefinement ------------------------
(***************************************************************************)
(* UrlService implements LinkStore: every step of a handler, of Redis or   *)
(* of a failure is a step of the abstract store or changes nothing of it.  *)
(***************************************************************************)
EXTENDS UrlServiceProofs

\* An empty table and no requests: every code is free.
LEMMA InitRefines == Init => Store!Init
BY DEF Init, Store!Init, Links, Fates, Fate, Asked, Served, ResolveSteps

-----------------------------------------------------------------------------
(* Links and their fates.                                                  *)

\* A handler that was answered takes no part in resolving until it is reused.
LEMMA AnsweredStep ==
  ASSUME IndInv, [Next]_vars, NEW r \in Requests, pc[r] = "302"
  PROVE  pc'[r] \notin ResolveSteps \ {"cache_get", "get"}
<1> USE DEF IndInv, TypeOK, Goto, ResolveSteps
<1>1. ASSUME NEW s \in Requests, CreateShortUrl(s) \/ Resolve(s) \/ Delete(s)
      PROVE  pc'[r] \notin ResolveSteps \ {"cache_get", "get"}
  BY <1>1 DEF CreateShortUrl, FirstStep, Resolve, Delete, Begin
<1>2. ASSUME NEW s \in Requests, Progress(s)
      PROVE  pc'[r] = "302"
  BY <1>2 DEF Progress, AliasExists, InsertAlias, InsertGenerated, CacheGet,
              CheckHit, GetRecord, CheckRow, ComputeTtl, CacheSet, GetOwner,
              DeleteRow, Invalidate
<1>3. ASSUME NEW s \in Requests, DbError(s) \/ LostCommit(s) \/ Crash(s)
      PROVE  pc'[r] \notin ResolveSteps \ {"cache_get", "get"}
  BY <1>3 DEF DbError, LostCommit, Crash
<1>4. CASE RedisRestart \/ Tick \/ UNCHANGED vars
  BY <1>4 DEF RedisRestart, Tick, vars
<1> QED
  BY <1>1, <1>2, <1>3, <1>4 DEF Next

\* No copy of a deleted link appears once there is none: Redis is filled only
\* by readers, and readers read only active rows or Redis.
LEMMA HeldStep ==
  ASSUME IndInv, [Next]_vars, NEW c \in Codes, Held(c)',
         \A row \in urls : row.short_code = c => ~row.is_active
  PROVE  Held(c)
<1>1. ASSUME NEW e \in cache', e.short_code = c PROVE Held(c)
  <2>1. ASSUME NEW r \in Requests, pc[r] = "cache_set",
               NEW x \in got[r], SameLink(e, x)
        PROVE  Held(c)
    BY <1>1, <2>1 DEF IndInv, CopiesAreOfRows, HoldsCopy, SameLink, Held,
                      ResolveSteps
  <2>2. CASE e \in cache
    BY <1>1, <2>2 DEF Held
  <2> QED
    BY <2>1, <2>2, CacheOrigin
<1>2. ASSUME NEW r \in Requests, pc'[r] \in ResolveSteps \ {"cache_get", "get"},
             arg'[r].short_code = c
      PROVE  Held(c)
  <2>1. HoldsCopy(r)'
    BY <1>2 DEF HoldsCopy, ResolveSteps
  <2>2. CASE HoldsCopy(r) /\ arg'[r] = arg[r]
    <3>1. pc[r] \in ResolveSteps \ {"cache_get", "get"}
      BY <1>2, <2>2, AnsweredStep DEF HoldsCopy, ResolveSteps
    <3> QED
      BY <1>2, <2>2, <3>1 DEF Held
  <2>3. ASSUME CacheGet(r), NEW e \in CacheHits(arg[r].short_code)
        PROVE  Held(c)
    BY <1>2, <2>3 DEF CacheGet, CacheHits, Held
  <2>4. CASE GetRecord(r)
    BY <1>2, <2>4 DEF GetRecord, SelectActive, Goto, IndInv, TypeOK, ResolveSteps
  <2> QED
    BY <2>1, <2>2, <2>3, <2>4, CopyOrigin
<1> QED
  BY <1>1, <1>2 DEF Held

\* If the rows of c stay as they are, its fate changes only from lingering to
\* gone.
LEMMA FadesStep ==
  ASSUME IndInv, [Next]_vars, NEW c \in Codes,
         \A row : row.short_code = c => (row \in urls <=> row \in urls')
  PROVE  Store!Fades(c)
<1>1. Fates[c] = Fate(c) /\ Fates'[c] = Fate(c)'
  BY DEF Fates
<1>2. /\ (\A row \in urls : row.short_code # c)
           <=> (\A row \in urls' : row.short_code # c)
      /\ (\E row \in urls : row.short_code = c /\ row.is_active)
           <=> (\E row \in urls' : row.short_code = c /\ row.is_active)
  OBVIOUS
<1>3. Fate(c)' = Fate(c) \/ (Fate(c) = "lingering" /\ Fate(c)' = "gone")
  BY <1>2, HeldStep DEF Fate
<1> QED
  BY <1>1, <1>3 DEF Store!Fades

\* A step that leaves the table alone lets copies disappear at most.
LEMMA FadingStep ==
  ASSUME IndInv, [Next]_vars, UNCHANGED urls
  PROVE  Store!Fading /\ Links' = Links
BY FadesStep DEF Store!Fading, Links

\* An insert gives a free code its link.
LEMMA InsertRefines ==
  ASSUME IndInv, [Next]_vars, NEW r \in Requests, NEW c \in Codes, Inserted(r, c),
         UNCHANGED <<now, Asked, Served>>
  PROVE  Store!Create(c)
<1> DEFINE new == NewRow(r, c)
<1>1. /\ urls' = urls \cup {new}
      /\ \A row \in urls : row.short_code # c
      /\ new.short_code = c /\ new.is_active
  BY NewRowType DEF Inserted, InsertRow, Taken, IndInv
<1> HIDE DEF new
<1>2. Fates[c] = "free" /\ Fates'[c] = "live"
  BY <1>1 DEF Fates, Fate
<1>3. ASSUME NEW d \in Codes \ {c} PROVE Store!Fades(d)
  BY <1>1, FadesStep
<1>4. Links' = Links \cup {AsResolved(new)} /\ AsResolved(new) \in Links'
  BY <1>1 DEF Links
<1>5. AsResolved(new).short_code = c
  BY <1>1 DEF AsResolved
<1> QED
  BY <1>2, <1>3, <1>4, <1>5 DEF Store!Create

\* A soft delete retires the link of its code, or changes nothing.
LEMMA RetireRefines ==
  ASSUME IndInv, [Next]_vars, NEW r \in Requests, Retired(r),
         UNCHANGED <<now, Asked, Served>>
  PROVE  Store!Delete(arg[r].short_code) \/ Store!Pass
<1> DEFINE c == arg[r].short_code
<1>1. urls \subseteq UrlRecord /\ urls' = SoftDeleted(c) /\ c \in Codes
  BY DEF IndInv, TypeOK, Retired, LocalsFitStep, DeleteSteps, DeleteArg
<1> HIDE DEF c
<1>2. Links' = Links
  <2>1. ASSUME NEW row \in urls, NEW row2 \in urls', SameLink(row, row2) \/ SameLink(row2, row)
        PROVE  AsResolved(row) = AsResolved(row2)
    BY <2>1 DEF SameLink, AsResolved
  <2>2. \A row \in urls : \E row2 \in urls' : SameLink(row, row2)
    BY <1>1, SoftDeletedRows
  <2>3. \A row2 \in urls' : \E row \in urls : SameLink(row2, row)
    BY <1>1, SoftDeletedRows
  <2> QED
    BY <2>1, <2>2, <2>3 DEF Links
<1>3. ASSUME NEW d \in Codes \ {c} PROVE Store!Fades(d)
  <2>1. \A row : row.short_code = d => (row \in urls <=> row \in urls')
    BY <1>1 DEF SoftDeleted, SelectActive, UrlRecord
  <2> QED
    BY <2>1, FadesStep
<1>4. CASE \E row \in urls : row.short_code = c /\ row.is_active
  <2>1. Fates[c] = "live"
    BY <1>1, <1>4 DEF Fates, Fate
  <2>2. /\ \A row \in urls' : row.short_code = c => ~row.is_active
        /\ \E row \in urls' : row.short_code = c
    BY <1>1, <1>4, SoftDeletedRows DEF SameLink
  <2>3. Fates'[c] \in {"lingering", "gone"}
    BY <1>1, <2>2 DEF Fates, Fate
  <2> QED
    BY <1>2, <1>3, <2>1, <2>3 DEF Store!Delete, c
<1>5. CASE ~\E row \in urls : row.short_code = c /\ row.is_active
  <2>1. urls' = urls
    BY <1>1, <1>5 DEF SoftDeleted, SelectActive
  <2> QED
    BY <2>1, FadingStep DEF Store!Pass
<1> QED
  BY <1>4, <1>5

-----------------------------------------------------------------------------
(* Requests.                                                               *)

\* Only what a handler does for r changes what r asked and was served.
LEMMA OneRequest ==
  ASSUME NEW r \in Requests, NEW q, NEW l,
         \A s \in Requests \ {r} :
           pc'[s] = pc[s] /\ arg'[s] = arg[s] /\ got'[s] = got[s],
         q = IF pc'[r] \in ResolveSteps THEN {arg'[r]} ELSE {},
         l = IF pc'[r] = "302" THEN got'[r] ELSE {}
  PROVE  /\ Asked' = [Asked EXCEPT ![r] = q]
         /\ Served' = [Served EXCEPT ![r] = l]
BY DEF Asked, Served

\* A handler that ends up outside resolve() has neither question nor link.
LEMMA LeaveStep ==
  ASSUME NEW r \in Requests,
         \A s \in Requests \ {r} :
           pc'[s] = pc[s] /\ arg'[s] = arg[s] /\ got'[s] = got[s],
         pc'[r] \notin ResolveSteps /\ pc'[r] # "302"
  PROVE  /\ Asked' = [Asked EXCEPT ![r] = {}]
         /\ Served' = [Served EXCEPT ![r] = {}]
BY DEF Asked, Served

\* A handler in no resolve() step, before and after, leaves the questions alone.
LEMMA SilentStep ==
  ASSUME NEW r \in Requests,
         \A s \in Requests \ {r} :
           pc'[s] = pc[s] /\ arg'[s] = arg[s] /\ got'[s] = got[s],
         \/ /\ pc[r] \notin ResolveSteps /\ pc'[r] \notin ResolveSteps
            /\ pc[r] # "302" /\ pc'[r] # "302"
         \/ /\ pc[r] \in ResolveSteps /\ pc'[r] \in ResolveSteps
            /\ pc[r] # "302" /\ pc'[r] # "302" /\ arg'[r] = arg[r]
  PROVE  UNCHANGED <<Asked, Served>>
BY DEF Asked, Served

\* A new request of r.
LEMMA BeginRefines ==
  ASSUME IndInv, [Next]_vars, NEW r \in Requests,
         CreateShortUrl(r) \/ Resolve(r) \/ Delete(r)
  PROVE  Store!Next
<1> USE DEF IndInv, TypeOK
<1>1. /\ \A s \in Requests \ {r} :
           pc'[s] = pc[s] /\ arg'[s] = arg[s] /\ got'[s] = got[s]
      /\ UNCHANGED <<urls, now>>
  BY DEF CreateShortUrl, Resolve, Delete, Begin
<1>2. Store!Fading /\ Links' = Links
  BY <1>1, FadingStep
<1>3. CASE Resolve(r)
  <2>1. PICK c \in Codes :
          pc'[r] = "cache_get" /\ arg'[r] = [short_code |-> c, at |-> now]
    BY <1>3 DEF Resolve, Begin
  <2>2. /\ Asked' = [Asked EXCEPT ![r] = {[short_code |-> c, at |-> now]}]
        /\ Served' = [Served EXCEPT ![r] = {}]
    BY <1>1, <2>1, OneRequest DEF ResolveSteps
  <2>3. Store!Ask(r, c)
    BY <1>1, <1>2, <2>2 DEF Store!Ask, Store!Answer
  <2> QED
    BY <2>3 DEF Store!Next
<1>4. CASE CreateShortUrl(r) \/ Delete(r)
  <2>1. pc'[r] \notin ResolveSteps /\ pc'[r] # "302"
    BY <1>4 DEF CreateShortUrl, FirstStep, Delete, Begin, ResolveSteps
  <2>2. /\ Asked' = [Asked EXCEPT ![r] = {}]
        /\ Served' = [Served EXCEPT ![r] = {}]
    BY <1>1, <2>1, LeaveStep
  <2>3. Store!Leave(r)
    BY <1>1, <1>2, <2>2 DEF Store!Leave, Store!Answer
  <2> QED
    BY <2>3 DEF Store!Next
<1> QED
  BY <1>3, <1>4

\* A step of create() or delete(): the table may change, no question does.
LEMMA WriteRefines ==
  ASSUME IndInv, [Next]_vars, NEW r \in Requests,
         \/ AliasExists(r) \/ InsertAlias(r) \/ InsertGenerated(r)
         \/ GetOwner(r) \/ DeleteRow(r) \/ Invalidate(r) \/ LostCommit(r)
  PROVE  Store!Next
<1> USE DEF IndInv, TypeOK
<1>1. /\ \A s \in Requests \ {r} :
           pc'[s] = pc[s] /\ arg'[s] = arg[s] /\ got'[s] = got[s]
      /\ now' = now
  BY DEF AliasExists, InsertAlias, InsertGenerated, GetOwner, DeleteRow,
         Invalidate, LostCommit, Goto
<1>2. /\ pc[r] \notin ResolveSteps /\ pc'[r] \notin ResolveSteps
      /\ pc[r] # "302" /\ pc'[r] # "302"
  BY DEF AliasExists, InsertAlias, InsertGenerated, GetOwner, DeleteRow,
         Invalidate, LostCommit, Goto, ResolveSteps
<1>3. UNCHANGED <<now, Asked, Served>>
  BY <1>1, <1>2, SilentStep
<1>4. CASE UNCHANGED urls
  <2>1. Store!Pass
    BY <1>3, <1>4, FadingStep DEF Store!Pass
  <2> QED
    BY <2>1 DEF Store!Next
<1>5. ASSUME NEW s \in Requests, NEW c \in Codes, Inserted(s, c) PROVE Store!Next
  BY <1>3, <1>5, InsertRefines DEF Store!Next
<1>6. ASSUME NEW s \in Requests, Retired(s) PROVE Store!Next
  <2>1. arg[s].short_code \in Codes
    BY <1>6 DEF Retired, LocalsFitStep, DeleteSteps, DeleteArg
  <2> QED
    BY <1>3, <1>6, <2>1, RetireRefines DEF Store!Next
<1> QED
  BY <1>4, <1>5, <1>6, TableStep

\* The answer of resolve(): the copy in hand is the link of the code asked for,
\* was in date, and its link is alive or lingers, for r itself holds a copy.
LEMMA ServeRefines ==
  ASSUME IndInv, [Next]_vars, NEW r \in Requests, CheckHit(r) \/ CacheSet(r),
         pc'[r] = "302"
  PROVE  Store!Serve(r)
<1> USE DEF IndInv, TypeOK
<1>1. /\ \A s \in Requests \ {r} :
           pc'[s] = pc[s] /\ arg'[s] = arg[s] /\ got'[s] = got[s]
      /\ UNCHANGED <<urls, now>> /\ arg'[r] = arg[r] /\ got'[r] = got[r]
      /\ pc[r] \in {"check_hit", "cache_set"}
      /\ got[r] # {}
  BY DEF CheckHit, CacheSet, Goto
<1>2. PICK x \in got[r] :
        /\ got[r] = {x} /\ x \in ResolvedUrl
        /\ x.short_code = arg[r].short_code
        /\ \E row \in urls : SameLink(x, row)
  BY <1>1 DEF CopiesAreOfRows, HoldsCopy
<1>3. x.expires_at = Never \/ x.expires_at >= arg[r].at
  BY <1>1, <1>2, InDateStep DEF AcceptedInDate
<1>4. x \in Links
  BY <1>2 DEF Links, AsResolved, SameLink, ResolvedUrl
<1>5. arg[r].short_code \in Codes /\ Asked[r] = {arg[r]}
  BY <1>1 DEF LocalsFitStep, ResolveSteps, ResolveArg, Asked
<1>6. Fates[arg[r].short_code] \in {"live", "lingering"}
  <2>1. Held(arg[r].short_code)
    BY <1>1 DEF Held, ResolveSteps
  <2> QED
    BY <1>2, <1>5, <2>1 DEF Fates, Fate, SameLink
<1>7. Store!Answer(r, {}, {x})
  <2>1. /\ Asked' = [Asked EXCEPT ![r] = {}]
        /\ Served' = [Served EXCEPT ![r] = {x}]
    <3>1. /\ {} = IF pc'[r] \in ResolveSteps THEN {arg'[r]} ELSE {}
          /\ {x} = IF pc'[r] = "302" THEN got'[r] ELSE {}
      BY <1>1, <1>2 DEF ResolveSteps
    <3> HIDE DEF IndInv, TypeOK
    <3> QED
      BY <1>1, <3>1, OneRequest
  <2> QED
    BY <1>1, <2>1, FadingStep DEF Store!Answer
<1> QED
  BY <1>2, <1>3, <1>4, <1>5, <1>6, <1>7 DEF Store!Serve

\* A step of resolve(): it goes on asking, is served, or leaves without a link.
LEMMA ReadRefines ==
  ASSUME IndInv, [Next]_vars, NEW r \in Requests,
         \/ CacheGet(r) \/ CheckHit(r) \/ GetRecord(r)
         \/ CheckRow(r) \/ ComputeTtl(r) \/ CacheSet(r)
         \/ DbError(r) \/ Crash(r)
  PROVE  Store!Next
<1> USE DEF IndInv, TypeOK
<1>1. /\ \A s \in Requests \ {r} :
           pc'[s] = pc[s] /\ arg'[s] = arg[s] /\ got'[s] = got[s]
      /\ UNCHANGED <<urls, now>> /\ arg'[r] = arg[r]
      /\ pc[r] # "302"
  BY DEF CacheGet, CheckHit, GetRecord, CheckRow, ComputeTtl, CacheSet, DbError,
         Crash, Goto, AtRest, Steps, DbSteps, CreateSteps, ResolveSteps, DeleteSteps
<1>2. Store!Fading /\ Links' = Links
  BY <1>1, FadingStep
<1>3. CASE pc[r] \in ResolveSteps /\ pc'[r] \in ResolveSteps
  <2>1. UNCHANGED <<Asked, Served>>
    BY <1>1, <1>3, SilentStep DEF ResolveSteps
  <2>2. Store!Pass
    BY <1>1, <1>2, <2>1 DEF Store!Pass
  <2> QED
    BY <2>2 DEF Store!Next
<1>4. CASE pc'[r] = "302"
  <2>1. CheckHit(r) \/ CacheSet(r)
    BY <1>4 DEF CacheGet, GetRecord, CheckRow, ComputeTtl, DbError, Crash, Goto
  <2> QED
    BY <1>4, <2>1, ServeRefines DEF Store!Next
<1>5. CASE pc'[r] \notin ResolveSteps /\ pc'[r] # "302"
  <2>1. /\ Asked' = [Asked EXCEPT ![r] = {}]
        /\ Served' = [Served EXCEPT ![r] = {}]
    BY <1>1, <1>5, LeaveStep
  <2>2. Store!Leave(r)
    BY <1>1, <1>2, <2>1 DEF Store!Leave, Store!Answer
  <2> QED
    BY <2>2 DEF Store!Next
<1>6. pc'[r] \in ResolveSteps => pc[r] \in ResolveSteps
  BY DEF CacheGet, CheckHit, GetRecord, CheckRow, ComputeTtl, CacheSet, DbError,
         Crash, Goto, ResolveSteps
<1> QED
  BY <1>3, <1>4, <1>5, <1>6

\* Every step of UrlService is a step of the store or leaves it unchanged.
LEMMA NextRefines ==
  ASSUME IndInv, [Next]_vars
  PROVE  [Store!Next]_(Store!store)
<1>1. ASSUME NEW r \in Requests, CreateShortUrl(r) \/ Resolve(r) \/ Delete(r)
      PROVE  Store!Next
  BY <1>1, BeginRefines
<1>2. ASSUME NEW r \in Requests, Progress(r) PROVE Store!Next
  BY <1>2, WriteRefines, ReadRefines DEF Progress
<1>3. ASSUME NEW r \in Requests, DbError(r) \/ LostCommit(r) \/ Crash(r)
      PROVE  Store!Next
  BY <1>3, WriteRefines, ReadRefines
<1>4. CASE RedisRestart \/ Tick
  <2>1. UNCHANGED <<urls, pc, arg, got>> /\ now' \in {now, now + 1}
    BY <1>4 DEF RedisRestart, Tick
  <2>2. Store!Pass
    BY <2>1, FadingStep DEF Store!Pass, Asked, Served
  <2> QED
    BY <2>2 DEF Store!Next
<1>5. CASE UNCHANGED vars
  BY <1>5 DEF vars, Store!store, Links, Fates, Fate, Held, Asked, Served
<1> QED
  BY <1>1, <1>2, <1>3, <1>4, <1>5 DEF Next

\* The shortener with its cache, its concurrent handlers and all its failures
\* implements the store that has none of them.
THEOREM Refinement == Spec => ImplementsLinkStore
<1>1. IndInv /\ [Next]_vars => [Store!Next]_(Store!store)
  BY NextRefines
<1> QED
  BY <1>1, InitRefines, Invariance, PTL DEF Spec, ImplementsLinkStore, Store!Spec

=============================================================================
