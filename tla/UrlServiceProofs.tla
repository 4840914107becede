-------------------------- MODULE UrlServiceProofs --------------------------
(***************************************************************************)
(* Proofs about UrlService: every safety property of the specification,    *)
(* for any number of requests, codes, users and ticks.                     *)
(***************************************************************************)
EXTENDS UrlService, TLAPS

\* The inductive invariant holds initially.
LEMMA InitIndInv == Init => IndInv
<1> SUFFICES ASSUME Init PROVE IndInv
  OBVIOUS
<1> USE DEF Init
<1>1. TypeOK
  BY TimeAssumption DEF TypeOK
<1>2. LocalsFitStep
  BY DEF LocalsFitStep, CreateSteps, ResolveSteps, DeleteSteps
<1>3. OneRowPerCode /\ OneRowPerId
  BY DEF OneRowPerCode, OneRowPerId
<1>4. CopiesAreOfRows
  BY DEF CopiesAreOfRows, HoldsCopy
<1>5. AcceptedInDate
  BY DEF AcceptedInDate, ResolveSteps
<1>6. EntriesDieInTime
  BY DEF EntriesDieInTime
<1>7. DeleterMayDelete
  BY DEF DeleterMayDelete
<1> QED
  BY <1>1, <1>2, <1>3, <1>4, <1>5, <1>6, <1>7 DEF IndInv

-----------------------------------------------------------------------------
(* What the repository and cache operators return.                         *)

\* INSERT stores a well-formed row under the code it was given.
LEMMA NewRowType ==
  ASSUME TypeOK, NEW r \in Requests, arg[r] \in CreateArg, NEW c \in Codes
  PROVE  /\ NewRow(r, c) \in UrlRecord
         /\ NewRow(r, c).short_code = c
         /\ NewRow(r, c).is_active
  BY DEF TypeOK, NewRow, CreateArg, UrlRecord

\* The soft delete changes nothing but is_active, of active rows of its code.
LEMMA SoftDeletedRows ==
  ASSUME urls \subseteq UrlRecord, NEW c
  PROVE  /\ SoftDeleted(c) \subseteq UrlRecord
         /\ \A row \in SoftDeleted(c) : \E old \in urls :
              /\ SameLink(row, old)
              /\ row.owner_id = old.owner_id
              /\ row = old \/ (old.is_active /\ ~row.is_active)
              /\ old.short_code = c => ~row.is_active
         /\ \A old \in urls : \E row \in SoftDeleted(c) :
              /\ SameLink(old, row)
              /\ row.owner_id = old.owner_id
              /\ row.is_active => old.is_active
         /\ \A old \in urls : old.short_code # c => old \in SoftDeleted(c)
<1> USE DEF SoftDeleted, SelectActive, SameLink
<1> DEFINE Deactivated(row) == [row EXCEPT !.is_active = FALSE]
<1>1. ASSUME NEW row \in urls
      PROVE  /\ Deactivated(row) \in UrlRecord
             /\ Deactivated(row).id = row.id
             /\ Deactivated(row).short_code = row.short_code
             /\ Deactivated(row).long_url = row.long_url
             /\ Deactivated(row).expires_at = row.expires_at
             /\ Deactivated(row).owner_id = row.owner_id
             /\ ~Deactivated(row).is_active
  BY DEF UrlRecord
<1> HIDE DEF Deactivated
<1>2. SoftDeleted(c) = (urls \ SelectActive(c))
                         \cup {Deactivated(row) : row \in SelectActive(c)}
  BY DEF Deactivated
<1> QED
  BY <1>1, <1>2

\* The TTL is a whole number of seconds, at most redis_cache_ttl_seconds.
LEMMA TtlType ==
  ASSUME TypeOK, NEW x \in ResolvedUrl
  PROVE  TtlSeconds(x) \in Int /\ TtlSeconds(x) <= CacheTtl
<1>1. CASE x.expires_at = Never
  BY <1>1, TimeAssumption DEF TtlSeconds
<1>2. CASE x.expires_at \in Nat
  <2>1. (x.expires_at - now) \div TicksPerSecond \in Int
    BY <1>2, TimeAssumption DEF TypeOK
  <2> QED
    BY <1>2, <2>1, TimeAssumption DEF TtlSeconds
<1> QED
  BY <1>1, <1>2 DEF ResolvedUrl, ExpiresAt

\* SET stores a well-formed entry that dies at a definite tick.
LEMMA StoredType ==
  ASSUME TypeOK, NEW x \in ResolvedUrl, NEW n \in Int, n > 0
  PROVE  Stored(x, n) \subseteq CacheEntry
<1>1. n * TicksPerSecond \in Nat
  BY TimeAssumption
<1>2. now + n * TicksPerSecond \in Nat
  BY <1>1 DEF TypeOK
<1> QED
  BY <1>2 DEF TypeOK, Stored, CacheHits, ResolvedUrl, CacheEntry

-----------------------------------------------------------------------------
\* Rows, cache entries and local variables keep their types: each action.
LEMMA TypeStep == IndInv /\ [Next]_vars => TypeOK'
<1> SUFFICES ASSUME IndInv, [Next]_vars PROVE TypeOK'
  OBVIOUS
<1> USE TimeAssumption, CodesAssumption
        DEF IndInv, TypeOK, LocalsFitStep, Steps, Statuses, CreateSteps,
            ResolveSteps, DeleteSteps, DbSteps, Goto
<1>1. ASSUME NEW r \in Requests, CreateShortUrl(r) PROVE TypeOK'
  <2> PICK u \in LongUrls, a \in Codes \cup {NoAlias},
           e \in Expiries \cup {Never}, o \in Owner :
        Begin(r, [long_url |-> u, custom_alias |-> a,
                  expires_at |-> e, owner_id |-> o],
              IF u \notin ValidUrls THEN "400"
              ELSE IF a # NoAlias THEN "exists" ELSE "insert_generated")
    BY <1>1 DEF CreateShortUrl, FirstStep
  <2>1. [long_url |-> u, custom_alias |-> a, expires_at |-> e, owner_id |-> o]
          \in CreateArg
    BY DEF CreateArg, ExpiresAt
  <2> QED
    BY <1>1, <2>1 DEF CreateShortUrl, Begin
<1>2. ASSUME NEW r \in Requests, AliasExists(r) PROVE TypeOK'
  BY <1>2 DEF AliasExists
<1>3. ASSUME NEW r \in Requests, InsertAlias(r) PROVE TypeOK'
  BY <1>3, NewRowType DEF InsertAlias, InsertRow
<1>4. ASSUME NEW r \in Requests, InsertGenerated(r) PROVE TypeOK'
  BY <1>4, NewRowType DEF InsertGenerated, InsertRow, NextAttempt, LastAttempt
<1>5. ASSUME NEW r \in Requests, Resolve(r) PROVE TypeOK'
  BY <1>5 DEF Resolve, Begin, ResolveArg
<1>6. ASSUME NEW r \in Requests, CacheGet(r) PROVE TypeOK'
  BY <1>6 DEF CacheGet, CacheHits, AsResolved, CacheEntry, ResolvedUrl
<1>7. ASSUME NEW r \in Requests, CheckHit(r) PROVE TypeOK'
  BY <1>7 DEF CheckHit
<1>8. ASSUME NEW r \in Requests, GetRecord(r) PROVE TypeOK'
  BY <1>8 DEF GetRecord, SelectActive, AsResolved, UrlRecord, ResolvedUrl
<1>9. ASSUME NEW r \in Requests, CheckRow(r) PROVE TypeOK'
  BY <1>9 DEF CheckRow
<1>10. ASSUME NEW r \in Requests, CacheSet(r) PROVE TypeOK'
  <2>1. got[r] \subseteq ResolvedUrl
    BY <1>10 DEF CacheSet, CopiesAreOfRows, HoldsCopy
  <2>2. cache' \subseteq CacheEntry
    BY <1>10, <2>1, StoredType DEF CacheSet
  <2> QED
    BY <1>10, <2>2 DEF CacheSet
<1>11. ASSUME NEW r \in Requests, Delete(r) PROVE TypeOK'
  BY <1>11 DEF Delete, Begin, DeleteArg
<1>12. ASSUME NEW r \in Requests, GetOwner(r) PROVE TypeOK'
  BY <1>12 DEF GetOwner
<1>13. ASSUME NEW r \in Requests, DeleteRow(r) PROVE TypeOK'
  BY <1>13, SoftDeletedRows DEF DeleteRow
<1>14. ASSUME NEW r \in Requests, Invalidate(r) PROVE TypeOK'
  BY <1>14 DEF Invalidate, Evicted, CacheHits
<1>15. ASSUME NEW r \in Requests, DbError(r) PROVE TypeOK'
  BY <1>15 DEF DbError
<1>16. ASSUME NEW r \in Requests, LostCommit(r) PROVE TypeOK'
  BY <1>16, NewRowType, SoftDeletedRows DEF LostCommit, InsertRow
<1>17. ASSUME NEW r \in Requests, Crash(r) PROVE TypeOK'
  BY <1>17 DEF Crash
<1>18. CASE RedisRestart
  BY <1>18 DEF RedisRestart
<1>19. CASE Tick
  BY <1>19 DEF Tick
<1>20. CASE UNCHANGED vars
  BY <1>20 DEF vars
<1>21. ASSUME NEW r \in Requests, ComputeTtl(r) PROVE TypeOK'
  BY <1>21, TtlType DEF ComputeTtl, CopiesAreOfRows, HoldsCopy
<1> QED
  BY <1>1, <1>2, <1>3, <1>4, <1>5, <1>6, <1>7, <1>8, <1>9, <1>10, <1>11,
     <1>12, <1>13, <1>14, <1>15, <1>16, <1>17, <1>18, <1>19, <1>20,
     <1>21
     DEF Next, Progress

-----------------------------------------------------------------------------
(* What a step may do to the table.                                        *)

\* Inserting a row under a code that no row has.
Inserted(r, c) ==
  /\ arg[r] \in CreateArg
  /\ ~Taken(c)
  /\ InsertRow(r, c)

\* Soft-deleting the link a delete() is about.
Retired(r) ==
  /\ pc[r] = "delete_row"
  /\ pc'[r] # "delete_row"
  /\ urls' = SoftDeleted(arg[r].short_code)
  /\ UNCHANGED next_id

\* A step leaves the table alone, inserts one fresh code or retires one link.
LEMMA TableStep ==
  ASSUME IndInv, [Next]_vars
  PROVE  \/ UNCHANGED <<urls, next_id>>
         \/ \E r \in Requests, c \in Codes : Inserted(r, c)
         \/ \E r \in Requests : Retired(r)
<1>1. ASSUME NEW r \in Requests, InsertAlias(r)
      PROVE  UNCHANGED <<urls, next_id>> \/ \E c \in Codes : Inserted(r, c)
  BY <1>1 DEF InsertAlias, Inserted, IndInv, LocalsFitStep, CreateSteps
<1>2. ASSUME NEW r \in Requests, InsertGenerated(r)
      PROVE  UNCHANGED <<urls, next_id>> \/ \E c \in Codes : Inserted(r, c)
  BY <1>2, CodesAssumption
     DEF InsertGenerated, Inserted, IndInv, LocalsFitStep, CreateSteps
<1>3. ASSUME NEW r \in Requests, DeleteRow(r)
      PROVE  Retired(r)
  BY <1>3 DEF DeleteRow, Goto, Retired, IndInv, TypeOK
<1>4. ASSUME NEW r \in Requests, LostCommit(r)
      PROVE  Retired(r) \/ \E c \in Codes : Inserted(r, c)
  BY <1>4, CodesAssumption
     DEF LostCommit, Goto, InsertRow, Retired, Inserted, IndInv, TypeOK,
         LocalsFitStep, CreateSteps
<1>5. CASE UNCHANGED vars
  BY <1>5 DEF vars
<1> QED
  BY <1>1, <1>2, <1>3, <1>4, <1>5
     DEF Next, Progress, CreateShortUrl, AliasExists, Resolve, CacheGet,
         CheckHit, GetRecord, CheckRow, ComputeTtl, CacheSet, Delete,
         GetOwner, Invalidate, DbError, Crash, RedisRestart, Tick

\* Every link survives every step, with its owner; it may only be retired.
LEMMA LinksPersist ==
  ASSUME IndInv, [Next]_vars
  PROVE  \A row \in urls : \E row2 \in urls' :
           /\ SameLink(row, row2)
           /\ row2.owner_id = row.owner_id
           /\ row2.is_active => row.is_active
<1>1. CASE UNCHANGED urls
  BY <1>1 DEF SameLink
<1>2. ASSUME NEW r \in Requests, NEW c \in Codes, Inserted(r, c)
      PROVE  \A row \in urls : row \in urls'
  BY <1>2 DEF Inserted, InsertRow
<1>3. ASSUME NEW r \in Requests, Retired(r)
      PROVE  \A row \in urls : \E row2 \in urls' :
               /\ SameLink(row, row2)
               /\ row2.owner_id = row.owner_id
               /\ row2.is_active => row.is_active
  BY <1>3, SoftDeletedRows DEF Retired, IndInv, TypeOK
<1> QED
  BY <1>1, <1>2, <1>3, TableStep DEF SameLink

\* The UNIQUE constraint keeps one row per code: a code is never reused.
LEMMA OneRowStep ==
  ASSUME IndInv, [Next]_vars
  PROVE  OneRowPerCode'
<1> USE DEF IndInv, OneRowPerCode
<1>1. CASE UNCHANGED urls
  BY <1>1
<1>2. ASSUME NEW r \in Requests, NEW c \in Codes, Inserted(r, c)
      PROVE  OneRowPerCode'
  BY <1>2, NewRowType DEF Inserted, InsertRow, Taken
<1>3. ASSUME NEW r \in Requests, Retired(r)
      PROVE  OneRowPerCode'
  <2>1. ASSUME NEW a \in urls', NEW b \in urls',
               a.short_code = b.short_code
        PROVE  a = b
    <3> DEFINE c == arg[r].short_code
    <3>1. urls' = (urls \ SelectActive(c))
                    \cup {[row EXCEPT !.is_active = FALSE] : row \in SelectActive(c)}
      BY <1>3 DEF Retired, SoftDeleted
    <3>2. ASSUME NEW x \in urls'
          PROVE  \E old \in urls :
                   /\ x.short_code = old.short_code
                   /\ x = IF old \in SelectActive(c)
                          THEN [old EXCEPT !.is_active = FALSE] ELSE old
      BY <3>1 DEF SelectActive, TypeOK, UrlRecord
    <3>3. PICK p \in urls :
            /\ a.short_code = p.short_code
            /\ a = IF p \in SelectActive(c)
                   THEN [p EXCEPT !.is_active = FALSE] ELSE p
      BY <3>2
    <3>4. PICK q \in urls :
            /\ b.short_code = q.short_code
            /\ b = IF q \in SelectActive(c)
                   THEN [q EXCEPT !.is_active = FALSE] ELSE q
      BY <3>2
    <3>5. p = q
      BY <2>1, <3>3, <3>4
    <3> QED
      BY <3>3, <3>4, <3>5
  <2> QED
    BY <2>1
<1> QED
  BY <1>1, <1>2, <1>3, TableStep

\* An insert takes the next id of the sequence, and an update keeps the id.
LEMMA IdsStep ==
  ASSUME IndInv, [Next]_vars
  PROVE  OneRowPerId'
<1> USE DEF IndInv, TypeOK, OneRowPerId
<1>1. ASSUME UNCHANGED <<urls, next_id>> PROVE OneRowPerId'
  BY <1>1
<1>2. ASSUME NEW r \in Requests, NEW c \in Codes, Inserted(r, c)
      PROVE  OneRowPerId'
  <2>1. /\ urls' = urls \cup {NewRow(r, c)} /\ next_id' = next_id + 1
        /\ NewRow(r, c).id = next_id
    BY <1>2 DEF Inserted, InsertRow, NewRow
  <2>2. \A row \in urls : row.id \in Nat
    BY DEF UrlRecord
  <2> QED
    BY <2>1, <2>2
<1>3. ASSUME NEW r \in Requests, Retired(r)
      PROVE  OneRowPerId'
  <2>1. /\ \A x \in urls' : \E old \in urls : SameLink(x, old)
        /\ urls' = SoftDeleted(arg[r].short_code)
    BY <1>3, SoftDeletedRows DEF Retired
  <2>2. \A row \in urls' : row.id < next_id
    BY <2>1 DEF SameLink
  <2>3. ASSUME NEW a \in urls', NEW b \in urls', a.id = b.id PROVE a = b
    <3>1. PICK p \in urls, q \in urls : SameLink(a, p) /\ SameLink(b, q)
      BY <2>1
    <3>2. p = q
      BY <2>3, <3>1 DEF SameLink
    <3>3. a.short_code = b.short_code
      BY <3>1, <3>2 DEF SameLink
    <3> QED
      BY <3>3, OneRowStep DEF OneRowPerCode
  <2> QED
    BY <1>3, <2>2, <2>3 DEF Retired
<1> QED
  BY <1>1, <1>2, <1>3, TableStep

-----------------------------------------------------------------------------
(* What a step may do to the handlers.                                     *)

\* A handler moves on only to steps that its local variables fit.
LEMMA LocalsStep ==
  ASSUME IndInv, [Next]_vars
  PROVE  LocalsFitStep'
<1> USE TimeAssumption, CodesAssumption
        DEF IndInv, TypeOK, LocalsFitStep, CreateSteps, ResolveSteps,
            DeleteSteps, Goto
<1>1. ASSUME NEW r \in Requests, CreateShortUrl(r) PROVE LocalsFitStep'
  <2> PICK u \in LongUrls, a \in Codes \cup {NoAlias},
           e \in Expiries \cup {Never}, o \in Owner :
        Begin(r, [long_url |-> u, custom_alias |-> a,
                  expires_at |-> e, owner_id |-> o],
              IF u \notin ValidUrls THEN "400"
              ELSE IF a # NoAlias THEN "exists" ELSE "insert_generated")
    BY <1>1 DEF CreateShortUrl, FirstStep
  <2>1. [long_url |-> u, custom_alias |-> a, expires_at |-> e, owner_id |-> o]
          \in CreateArg
    BY DEF CreateArg, ExpiresAt
  <2> QED
    BY <1>1, <2>1 DEF Begin
<1>2. ASSUME NEW r \in Requests, Resolve(r) PROVE LocalsFitStep'
  BY <1>2 DEF Resolve, Begin, ResolveArg
<1>3. ASSUME NEW r \in Requests, Delete(r) PROVE LocalsFitStep'
  BY <1>3 DEF Delete, Begin, DeleteArg
<1>4. ASSUME NEW r \in Requests,
             AliasExists(r) \/ InsertAlias(r) \/ InsertGenerated(r)
      PROVE  LocalsFitStep'
  BY <1>4 DEF AliasExists, InsertAlias, InsertGenerated, NextAttempt, LastAttempt
<1>5. ASSUME NEW r \in Requests,
             \/ CacheGet(r) \/ CheckHit(r) \/ GetRecord(r)
             \/ CheckRow(r) \/ ComputeTtl(r) \/ CacheSet(r)
      PROVE  LocalsFitStep'
  BY <1>5 DEF CacheGet, CheckHit, GetRecord, CheckRow, ComputeTtl, CacheSet
<1>6. ASSUME NEW r \in Requests, GetOwner(r) \/ DeleteRow(r) \/ Invalidate(r)
      PROVE  LocalsFitStep'
  BY <1>6 DEF GetOwner, DeleteRow, Invalidate
<1>7. ASSUME NEW r \in Requests, DbError(r) \/ LostCommit(r) \/ Crash(r)
      PROVE  LocalsFitStep'
  BY <1>7 DEF DbError, LostCommit, Crash
<1>8. CASE RedisRestart \/ Tick \/ UNCHANGED vars
  BY <1>8 DEF RedisRestart, Tick, vars
<1> QED
  BY <1>1, <1>2, <1>3, <1>4, <1>5, <1>6, <1>7, <1>8 DEF Next, Progress

\* Between delete()'s two statements nobody can give the code another owner.
LEMMA DeleterStep ==
  ASSUME IndInv, [Next]_vars
  PROVE  DeleterMayDelete'
<1> USE DEF DeleterMayDelete, Goto
<1>1. ASSUME NEW r \in Requests, pc[r] = "delete_row",
             pc'[r] = "delete_row", arg'[r] = arg[r]
      PROVE  \E row \in urls' :
               /\ row.short_code = arg'[r].short_code
               /\ row.owner_id \in {Nobody, arg'[r].requesting_user_id}
  BY <1>1, LinksPersist DEF IndInv, SameLink
<1>2. ASSUME NEW r \in Requests, GetOwner(r), pc'[r] = "delete_row"
      PROVE  \E row \in urls' :
               /\ row.short_code = arg'[r].short_code
               /\ row.owner_id \in {Nobody, arg'[r].requesting_user_id}
  BY <1>2 DEF GetOwner, SelectActive, MayDelete, IndInv, TypeOK
<1>3. ASSUME NEW r \in Requests, pc'[r] = "delete_row"
      PROVE  GetOwner(r) \/ (pc[r] = "delete_row" /\ arg'[r] = arg[r])
  <2> USE <1>3 DEF IndInv, TypeOK
  <2>1. ASSUME NEW s \in Requests,
               CreateShortUrl(s) \/ Resolve(s) \/ Delete(s)
        PROVE  pc[r] = "delete_row" /\ arg'[r] = arg[r]
    BY <2>1 DEF CreateShortUrl, FirstStep, Resolve, Delete, Begin
  <2>2. ASSUME NEW s \in Requests, Progress(s)
        PROVE  GetOwner(r) \/ (pc[r] = "delete_row" /\ arg'[r] = arg[r])
    BY <2>2 DEF Progress, AliasExists, InsertAlias, InsertGenerated, CacheGet,
                CheckHit, GetRecord, CheckRow, ComputeTtl, CacheSet,
                GetOwner, DeleteRow, Invalidate
  <2>3. ASSUME NEW s \in Requests, DbError(s) \/ LostCommit(s) \/ Crash(s)
        PROVE  pc[r] = "delete_row" /\ arg'[r] = arg[r]
    BY <2>3 DEF DbError, LostCommit, Crash
  <2>4. CASE RedisRestart \/ Tick \/ UNCHANGED vars
    BY <2>4 DEF RedisRestart, Tick, vars
  <2> QED
    BY <2>1, <2>2, <2>3, <2>4 DEF Next
<1> QED
  BY <1>1, <1>2, <1>3

\* A handler that holds a copy kept it, or just read it from Redis or from
\* PostgreSQL.
LEMMA CopyOrigin ==
  ASSUME IndInv, [Next]_vars, NEW r \in Requests, HoldsCopy(r)'
  PROVE  \/ HoldsCopy(r) /\ arg'[r] = arg[r] /\ got'[r] = got[r]
         \/ CacheGet(r) /\ \E e \in CacheHits(arg[r].short_code) :
                              got'[r] = {AsResolved(e)}
         \/ GetRecord(r)
<1> USE DEF IndInv, TypeOK, HoldsCopy, Goto
<1>1. ASSUME NEW s \in Requests, CreateShortUrl(s) \/ Resolve(s) \/ Delete(s)
      PROVE  HoldsCopy(r) /\ arg'[r] = arg[r] /\ got'[r] = got[r]
  BY <1>1 DEF CreateShortUrl, FirstStep, Resolve, Delete, Begin
<1>2. ASSUME NEW s \in Requests,
             \/ AliasExists(s) \/ InsertAlias(s) \/ InsertGenerated(s)
             \/ GetOwner(s) \/ DeleteRow(s) \/ Invalidate(s)
             \/ DbError(s) \/ LostCommit(s) \/ Crash(s)
      PROVE  HoldsCopy(r) /\ arg'[r] = arg[r] /\ got'[r] = got[r]
  BY <1>2 DEF AliasExists, InsertAlias, InsertGenerated, GetOwner, DeleteRow,
              Invalidate, DbError, LostCommit, Crash
<1>3. ASSUME NEW s \in Requests,
             CheckHit(s) \/ CheckRow(s) \/ ComputeTtl(s) \/ CacheSet(s)
      PROVE  HoldsCopy(r) /\ arg'[r] = arg[r] /\ got'[r] = got[r]
  BY <1>3 DEF CheckHit, CheckRow, ComputeTtl, CacheSet
<1>4. ASSUME NEW s \in Requests, CacheGet(s) \/ GetRecord(s), s # r
      PROVE  HoldsCopy(r) /\ arg'[r] = arg[r] /\ got'[r] = got[r]
  BY <1>4 DEF CacheGet, GetRecord
<1>5. ASSUME CacheGet(r)
      PROVE  \E e \in CacheHits(arg[r].short_code) : got'[r] = {AsResolved(e)}
  BY <1>5 DEF CacheGet
<1>6. CASE RedisRestart \/ Tick \/ UNCHANGED vars
  BY <1>6 DEF RedisRestart, Tick, vars
<1> QED
  BY <1>1, <1>2, <1>3, <1>4, <1>5, <1>6 DEF Next, Progress

\* Redis only ever gains what some handler read from PostgreSQL.
LEMMA CacheOrigin ==
  ASSUME IndInv, [Next]_vars, NEW e \in cache'
  PROVE  \/ e \in cache
         \/ \E r \in Requests : /\ pc[r] = "cache_set"
                                /\ \E x \in got[r] : SameLink(e, x)
<1>1. ASSUME NEW r \in Requests, CacheSet(r)
      PROVE  e \in cache \/ \E x \in got[r] : SameLink(e, x)
  BY <1>1 DEF CacheSet, Stored, SameLink
<1>2. ASSUME NEW r \in Requests, CacheSet(r)
      PROVE  pc[r] = "cache_set"
  BY <1>2 DEF CacheSet
<1>3. CASE UNCHANGED vars
  BY <1>3 DEF vars
<1> QED
  BY <1>1, <1>2, <1>3
     DEF Next, Progress, CreateShortUrl, AliasExists, InsertAlias,
         InsertGenerated, Resolve, CacheGet, CheckHit, GetRecord, CheckRow, ComputeTtl,
         Delete, GetOwner, DeleteRow, Invalidate, Evicted, DbError, LostCommit, Crash,
         RedisRestart, Tick

\* Copies stay copies of rows of the table.
LEMMA CopiesStep ==
  ASSUME IndInv, [Next]_vars
  PROVE  CopiesAreOfRows'
<1>1. \A row \in urls : \E row2 \in urls' : SameLink(row, row2)
  BY LinksPersist
<1>2. ASSUME NEW e \in cache'
      PROVE  \E row \in urls' : SameLink(e, row)
  <2>1. \E row \in urls : SameLink(e, row)
    BY CacheOrigin DEF IndInv, CopiesAreOfRows, HoldsCopy, SameLink
  <2> QED
    BY <1>1, <2>1 DEF SameLink
<1>3. ASSUME NEW r \in Requests, HoldsCopy(r)'
      PROVE  /\ got'[r] # {} /\ got'[r] \subseteq ResolvedUrl
             /\ \A x, y \in got'[r] : x = y
             /\ \A x \in got'[r] :
                  /\ x.short_code = arg'[r].short_code
                  /\ \E row \in urls' : SameLink(x, row)
  <2>1. CASE HoldsCopy(r) /\ arg'[r] = arg[r] /\ got'[r] = got[r]
    BY <1>1, <2>1 DEF IndInv, CopiesAreOfRows, SameLink
  <2>2. ASSUME CacheGet(r), NEW e \in CacheHits(arg[r].short_code),
               got'[r] = {AsResolved(e)}
        PROVE  /\ got'[r] # {} /\ got'[r] \subseteq ResolvedUrl
               /\ \A x, y \in got'[r] : x = y
               /\ \A x \in got'[r] :
                    /\ x.short_code = arg'[r].short_code
                    /\ \E row \in urls' : SameLink(x, row)
    <3>1. AsResolved(e) \in ResolvedUrl
      BY DEF IndInv, TypeOK, CacheHits, CacheEntry, AsResolved, ResolvedUrl
    <3>2. AsResolved(e).short_code = arg'[r].short_code
      BY <2>2 DEF CacheHits, AsResolved, CacheGet
    <3>3. \E row \in urls : SameLink(AsResolved(e), row)
      BY DEF IndInv, CopiesAreOfRows, CacheHits, AsResolved, SameLink
    <3> QED
      BY <1>1, <2>2, <3>1, <3>2, <3>3 DEF SameLink
  <2>3. CASE GetRecord(r)
    <3>1. /\ got'[r] = {AsResolved(row) : row \in SelectActive(arg[r].short_code)}
          /\ arg'[r] = arg[r]
          /\ urls' = urls
      BY <2>3 DEF GetRecord, IndInv, TypeOK
    <3>2. ASSUME NEW row \in SelectActive(arg[r].short_code)
          PROVE  /\ AsResolved(row) \in ResolvedUrl
                 /\ AsResolved(row).short_code = arg[r].short_code
                 /\ SameLink(AsResolved(row), row)
                 /\ row \in urls
      BY DEF SelectActive, AsResolved, SameLink, IndInv, TypeOK, UrlRecord,
             ResolvedUrl
    <3>3. \A a, b \in SelectActive(arg[r].short_code) : a = b
      BY DEF SelectActive, IndInv, OneRowPerCode
    <3>4. SelectActive(arg[r].short_code) # {}
      BY <1>3, <2>3 DEF GetRecord, Goto, HoldsCopy, IndInv, TypeOK
    <3> QED
      BY <3>1, <3>2, <3>3, <3>4
  <2> QED
    BY <1>3, <2>1, <2>2, <2>3, CopyOrigin
<1> QED
  BY <1>2, <1>3 DEF CopiesAreOfRows

\* resolve() accepts a copy only after comparing its expiry with a clock that
\* is not behind the one of the request's arrival.
LEMMA InDateStep ==
  ASSUME IndInv, [Next]_vars
  PROVE  AcceptedInDate'
<1> DEFINE InDate(x, r) == x.expires_at = Never \/ x.expires_at >= arg[r].at
<1> USE DEF IndInv, TypeOK, LocalsFitStep, AcceptedInDate, ResolveSteps,
            ResolveArg, Goto
<1>1. now' \in Nat /\ now <= now'
  BY DEF Next, Progress, CreateShortUrl, AliasExists, InsertAlias,
         InsertGenerated, Resolve, CacheGet, CheckHit, GetRecord, CheckRow, ComputeTtl,
         CacheSet, Delete, GetOwner, DeleteRow, Invalidate, DbError,
         LostCommit, Crash, RedisRestart, Tick, vars
<1>2. ASSUME NEW r \in Requests, Resolve(r) PROVE AcceptedInDate'
  BY <1>2 DEF Resolve, Begin
<1>3. ASSUME NEW r \in Requests, CreateShortUrl(r) \/ Delete(r)
      PROVE  AcceptedInDate'
  BY <1>3 DEF CreateShortUrl, FirstStep, Delete, Begin
<1>4. ASSUME NEW r \in Requests, CheckHit(r) \/ CheckRow(r)
      PROVE  AcceptedInDate'
  <2>1. PICK x \in got[r] :
          /\ pc'[r] \in {"compute_ttl", "cache_set", "302"} => ~Expired(x)
          /\ \A y \in got[r] : y = x
          /\ x.expires_at \in ExpiresAt
    BY <1>4 DEF CheckHit, CheckRow, CopiesAreOfRows, HoldsCopy, ResolvedUrl
  <2>2. pc'[r] \in {"compute_ttl", "cache_set", "302"} => \A y \in got[r] : InDate(y, r)
    BY <1>4, <2>1 DEF Expired, ExpiresAt, CheckHit, CheckRow
  <2> QED
    BY <1>4, <2>2 DEF CheckHit, CheckRow
<1>5. ASSUME NEW r \in Requests,
             CacheGet(r) \/ GetRecord(r) \/ ComputeTtl(r) \/ CacheSet(r)
      PROVE  AcceptedInDate'
  BY <1>5 DEF CacheGet, GetRecord, ComputeTtl, CacheSet
<1>6. ASSUME NEW r \in Requests,
             \/ AliasExists(r) \/ InsertAlias(r) \/ InsertGenerated(r)
             \/ GetOwner(r) \/ DeleteRow(r) \/ Invalidate(r)
             \/ DbError(r) \/ LostCommit(r) \/ Crash(r)
      PROVE  AcceptedInDate'
  BY <1>6 DEF AliasExists, InsertAlias, InsertGenerated, GetOwner, DeleteRow,
              Invalidate, DbError, LostCommit, Crash
<1>7. CASE RedisRestart \/ UNCHANGED vars
  BY <1>7 DEF RedisRestart, vars
<1>8. CASE Tick
  BY <1>1, <1>8 DEF Tick
<1> QED
  BY <1>2, <1>3, <1>4, <1>5, <1>6, <1>7, <1>8 DEF Next, Progress

\* Every SET is given at most the configured TTL, and Redis counts it down.
LEMMA EntriesStep ==
  ASSUME IndInv, [Next]_vars
  PROVE  EntriesDieInTime'
<1> USE DEF IndInv, TypeOK, EntriesDieInTime
<1>1. StaleTicks \in Nat
  BY TimeAssumption DEF StaleTicks
<1>2. ASSUME NEW r \in Requests, CacheSet(r), NEW e \in cache', e \notin cache
      PROVE  now < e.dies /\ e.dies <= now + StaleTicks
  <2>1. ttl[r] \in Int /\ ttl[r] > 0 /\ ttl[r] <= CacheTtl
    BY <1>2 DEF CacheSet
  <2>2. ttl[r] * TicksPerSecond <= StaleTicks
    BY <2>1, TimeAssumption DEF StaleTicks
  <2>3. ttl[r] * TicksPerSecond \in Nat /\ ttl[r] * TicksPerSecond > 0
    BY <2>1, TimeAssumption
  <2>4. e.dies = now + ttl[r] * TicksPerSecond
    BY <1>2 DEF CacheSet, Stored
  <2> QED
    BY <1>1, <2>2, <2>3, <2>4
<1>3. ASSUME NEW r \in Requests, CacheSet(r)
      PROVE  now' = now
  BY <1>3 DEF CacheSet
<1>4. CASE Tick
  <2>1. \A e \in cache : e.dies \in Nat
    BY DEF CacheEntry
  <2> QED
    BY <1>1, <1>4, <2>1 DEF Tick
<1>5. ASSUME UNCHANGED now, cache' \subseteq cache
      PROVE  EntriesDieInTime'
  BY <1>5
<1> QED
  BY <1>2, <1>3, <1>4, <1>5
     DEF Next, Progress, CreateShortUrl, AliasExists, InsertAlias,
         InsertGenerated, Resolve, CacheGet, CheckHit, GetRecord, CheckRow,
         ComputeTtl, Delete, GetOwner, DeleteRow, Invalidate, Evicted, DbError,
         LostCommit, Crash, RedisRestart, vars

-----------------------------------------------------------------------------
(* The theorems.                                                           *)

\* Table, cache and in-flight handlers always agree on the link of a code.
THEOREM Invariance == Spec => []IndInv
<1>1. IndInv /\ [Next]_vars => IndInv'
  BY TypeStep, LocalsStep, OneRowStep, IdsStep, CopiesStep, InDateStep, EntriesStep,
     DeleterStep
     DEF IndInv
<1> QED
  BY <1>1, InitIndInv, PTL DEF Spec

\* The state keeps its type: the generation loop stays within
\* MAX_GENERATION_ATTEMPTS and no TTL exceeds redis_cache_ttl_seconds.
THEOREM TypeCorrect == Spec => []TypeOK
<1>1. IndInv => TypeOK
  BY DEF IndInv
<1> QED
  BY <1>1, Invariance, PTL

\* Whatever resolve() answers or caches is the one link its code ever had.
THEOREM OneDestinationHolds == Spec => []OneDestination
<1>1. IndInv => OneDestination
  BY DEF IndInv, OneDestination, Genuine, OneRowPerCode, OneRowPerId,
         CopiesAreOfRows, HoldsCopy, SameLink
<1> QED
  BY <1>1, Invariance, PTL

\* No request is answered with a link that had expired when it arrived.
THEOREM NeverServedExpiredHolds == Spec => []NeverServedExpired
<1>1. IndInv => NeverServedExpired
  BY DEF IndInv, NeverServedExpired, AcceptedInDate
<1> QED
  BY <1>1, Invariance, PTL

\* No step of any request removes, rewrites or revives a row.
THEOREM RowsOnlyRetireHolds == Spec => RowsOnlyRetire
<1>1. IndInv /\ [Next]_vars =>
        [\A row \in urls : \E row2 \in urls' :
           /\ SameLink(row, row2)
           /\ row2.owner_id = row.owner_id
           /\ row2.is_active => row.is_active]_vars
  BY LinksPersist
<1> QED
  BY <1>1, Invariance, PTL DEF Spec, RowsOnlyRetire

\* An owned link is deactivated only by a delete() of its owner, although the
\* ownership check and the UPDATE are separate statements.
THEOREM OwnerOnlyDeletesHolds == Spec => OwnerOnlyDeletes
<1> DEFINE ByOwner ==
      \A row \in urls :
        row.is_active /\ row.owner_id # Nobody /\ row \notin urls' =>
          \E r \in Requests :
            /\ pc[r] = "delete_row" /\ pc'[r] # "delete_row"
            /\ arg[r].short_code = row.short_code
            /\ arg[r].requesting_user_id = row.owner_id
<1>1. ASSUME IndInv, [Next]_vars PROVE ByOwner
  <2>1. ASSUME NEW r \in Requests, Retired(r), NEW row \in urls,
               row.owner_id # Nobody, row \notin urls'
        PROVE  /\ arg[r].short_code = row.short_code
               /\ arg[r].requesting_user_id = row.owner_id
    <3>1. row.short_code = arg[r].short_code
      BY <1>1, <2>1, SoftDeletedRows DEF Retired, IndInv, TypeOK
    <3> QED
      BY <1>1, <2>1, <3>1
         DEF Retired, IndInv, OneRowPerCode, DeleterMayDelete
  <2>2. ASSUME NEW r \in Requests, NEW c \in Codes, Inserted(r, c),
               NEW row \in urls
        PROVE  row \in urls'
    BY <2>2 DEF Inserted, InsertRow
  <2> QED
    BY <1>1, <2>1, <2>2, TableStep DEF Retired
<1>2. IndInv /\ [Next]_vars => [ByOwner]_vars
  BY <1>1
<1> QED
  BY <1>2, Invariance, PTL DEF Spec, OwnerOnlyDeletes

\* A deleted link stays gone, and once the overlapping readers are done its
\* cache entry is never renewed.
LEMMA GoneStep ==
  ASSUME IndInv, [Next]_vars, NEW c \in Codes, Gone(c)
  PROVE  Gone(c)' /\ CacheHits(c)' \subseteq CacheHits(c)
<1>1. \E row \in urls' : row.short_code = c
  BY LinksPersist DEF Gone, SameLink
<1>2. \A row \in urls' : row.short_code = c => ~row.is_active
  BY <1>1, LinksPersist, OneRowStep DEF Gone, OneRowPerCode, SameLink
<1>3. ASSUME NEW r \in Requests, pc'[r] \in {"check_row", "compute_ttl", "cache_set"}
      PROVE  arg'[r].short_code # c
  <2>1. CASE GetRecord(r)
    BY <1>3, <2>1
       DEF GetRecord, SelectActive, Gone, Goto, IndInv, TypeOK
  <2>2. ASSUME ~GetRecord(r)
        PROVE  pc[r] \in {"check_row", "compute_ttl", "cache_set"} /\ arg'[r] = arg[r]
    <3> USE <1>3, <2>2 DEF IndInv, TypeOK, Goto
    <3>1. ASSUME NEW s \in Requests,
                 CreateShortUrl(s) \/ Resolve(s) \/ Delete(s)
          PROVE  pc[r] \in {"check_row", "compute_ttl", "cache_set"} /\ arg'[r] = arg[r]
      BY <3>1 DEF CreateShortUrl, FirstStep, Resolve, Delete, Begin
    <3>2. ASSUME NEW s \in Requests, Progress(s)
          PROVE  pc[r] \in {"check_row", "compute_ttl", "cache_set"} /\ arg'[r] = arg[r]
      BY <3>2 DEF Progress, AliasExists, InsertAlias, InsertGenerated,
                  CacheGet, CheckHit, GetRecord, CheckRow, ComputeTtl, CacheSet,
                  GetOwner, DeleteRow, Invalidate
    <3>3. ASSUME NEW s \in Requests, DbError(s) \/ LostCommit(s) \/ Crash(s)
          PROVE  pc[r] \in {"check_row", "compute_ttl", "cache_set"} /\ arg'[r] = arg[r]
      BY <3>3 DEF DbError, LostCommit, Crash
    <3>4. CASE RedisRestart \/ Tick \/ UNCHANGED vars
      BY <3>4 DEF RedisRestart, Tick, vars
    <3> QED
      BY <3>1, <3>2, <3>3, <3>4 DEF Next
  <2> QED
    BY <2>1, <2>2 DEF Gone
<1>4. ASSUME NEW e \in cache', e.short_code = c
      PROVE  e \in cache
  <2>1. ASSUME NEW r \in Requests, pc[r] = "cache_set",
               NEW x \in got[r], SameLink(e, x)
        PROVE  FALSE
    BY <1>4, <2>1
       DEF IndInv, CopiesAreOfRows, HoldsCopy, SameLink, Gone
  <2> QED
    BY <2>1, CacheOrigin
<1> QED
  BY <1>1, <1>2, <1>3, <1>4 DEF Gone, CacheHits

\* Each step keeps a gone link gone and its cache entry from being renewed.
THEOREM DeletedStaysGoneHolds == Spec => DeletedStaysGone
<1> DEFINE StaysGone ==
      \A c \in Codes : Gone(c) =>
        Gone(c)' /\ CacheHits(c)' \subseteq CacheHits(c)
<1>1. IndInv /\ [Next]_vars => [StaysGone]_vars
  BY GoneStep
<1> QED
  BY <1>1, Invariance, PTL DEF Spec, DeletedStaysGone

\* What the cache holds of a gone link dies within one TTL, and with it the
\* last answers.
THEOREM StalenessBoundedHolds == Spec => StalenessBounded
<1> SUFFICES ASSUME NEW c \in Codes, NEW t \in 0..MaxTime
             PROVE  Spec => [](Gone(c) /\ now <= t =>
                      [](\A r \in Requests : pc[r] = "302" /\ arg[r].short_code = c =>
                           arg[r].at < t + StaleTicks))
  BY DEF StalenessBounded
<1> DEFINE End == t + StaleTicks
           InTime(r) == HoldsCopy(r) /\ arg[r].short_code = c => arg[r].at < End
           Bounded == /\ Gone(c)
                      /\ \A e \in CacheHits(c) : e.dies <= End
                      /\ \A r \in Requests : InTime(r)
<1>1. t \in Nat /\ StaleTicks \in Nat /\ StaleTicks > 0
  BY TimeAssumption DEF StaleTicks
<1>2. IndInv /\ Gone(c) /\ now <= t => Bounded
  <2> SUFFICES ASSUME IndInv, Gone(c), now <= t PROVE Bounded
    OBVIOUS
  <2>1. ASSUME NEW e \in CacheHits(c) PROVE e.dies <= End
    BY <1>1, <2>1 DEF IndInv, TypeOK, EntriesDieInTime, CacheHits, CacheEntry
  <2>2. ASSUME NEW r \in Requests PROVE InTime(r)
    BY <1>1, <2>2 DEF IndInv, TypeOK, LocalsFitStep, AcceptedInDate, HoldsCopy,
                      ResolveSteps, ResolveArg
  <2> QED
    BY <2>1, <2>2
<1>3. IndInv /\ [Next]_vars /\ Bounded => Bounded'
  <2> SUFFICES ASSUME IndInv, [Next]_vars, Bounded PROVE Bounded'
    OBVIOUS
  <2>1. Gone(c)' /\ CacheHits(c)' \subseteq CacheHits(c)
    BY GoneStep
  <2>2. ASSUME NEW r \in Requests, HoldsCopy(r)', arg'[r].short_code = c
        PROVE  arg'[r].at < End
    <3>1. CASE HoldsCopy(r) /\ arg'[r] = arg[r]
      BY <2>2, <3>1
    <3>2. ASSUME CacheGet(r), NEW e \in CacheHits(arg[r].short_code)
          PROVE  arg'[r].at < End
      <4>1. arg'[r] = arg[r] /\ pc[r] = "cache_get"
        BY <3>2 DEF CacheGet
      <4>2. e \in CacheHits(c) /\ e.dies \in Nat /\ now < e.dies
        BY <2>2, <3>2, <4>1
           DEF CacheHits, IndInv, TypeOK, CacheEntry, EntriesDieInTime
      <4>3. arg[r].at \in Nat /\ arg[r].at <= now /\ now \in Nat
        BY <4>1 DEF IndInv, TypeOK, LocalsFitStep, AcceptedInDate, ResolveSteps,
                    ResolveArg
      <4> QED
        BY <1>1, <4>1, <4>2, <4>3
    <3>3. CASE GetRecord(r)
      BY <2>2, <3>3
         DEF GetRecord, SelectActive, Gone, HoldsCopy, Goto, IndInv, TypeOK
    <3> QED
      BY <2>2, <3>1, <3>2, <3>3, CopyOrigin
  <2> QED
    BY <2>1, <2>2
<1>4. Bounded => \A r \in Requests : pc[r] = "302" /\ arg[r].short_code = c =>
                                       arg[r].at < t + StaleTicks
  BY DEF HoldsCopy
<1> HIDE DEF Bounded
<1> QED
  BY <1>2, <1>3, <1>4, Invariance, PTL DEF Spec

\* The row of an answered link stays, and no other row gets its id.
THEOREM ClicksStorableHolds == Spec => ClicksStorable
<1> SUFFICES ASSUME NEW x \in ResolvedUrl
             PROVE  Spec =>
               []((\E r \in Requests : pc[r] = "302" /\ x \in got[r]) =>
                    [](\E row \in urls :
                         /\ SameLink(x, row)
                         /\ \A other \in urls : other.id = x.id => other = row))
  BY DEF ClicksStorable
<1> DEFINE Known == \E row \in urls : SameLink(x, row)
<1>1. IndInv /\ (\E r \in Requests : pc[r] = "302" /\ x \in got[r]) => Known
  BY DEF IndInv, CopiesAreOfRows, HoldsCopy
<1>2. IndInv /\ [Next]_vars /\ Known => Known'
  BY LinksPersist DEF SameLink
<1>3. IndInv /\ Known =>
        \E row \in urls : /\ SameLink(x, row)
                          /\ \A other \in urls : other.id = x.id => other = row
  BY DEF IndInv, OneRowPerId, SameLink
<1> HIDE DEF Known
<1> QED
  BY <1>1, <1>2, <1>3, Invariance, PTL DEF Spec

\* A handler's own step takes it forward, and leaves the others where they are.
LEMMA ForwardStep ==
  ASSUME IndInv, NEW r \in Requests, Progress(r)
  PROVE  /\ StepsLeft(r)' < StepsLeft(r)
         /\ \A s \in Requests \ {r} : Untouched(s)
<1> USE TimeAssumption
        DEF Untouched, IndInv, TypeOK, Goto, StepsLeft, Left, Steps, CreateSteps, ResolveSteps,
            DeleteSteps
<1>1. CASE AliasExists(r) \/ InsertAlias(r)
  BY <1>1 DEF AliasExists, InsertAlias, LocalsFitStep
<1>2. CASE InsertGenerated(r)
  BY <1>2 DEF InsertGenerated, NextAttempt, LastAttempt, LocalsFitStep
<1>3. CASE CacheGet(r) \/ CheckHit(r) \/ GetRecord(r)
  BY <1>3 DEF CacheGet, CheckHit, GetRecord
<1>4. CASE CheckRow(r) \/ ComputeTtl(r) \/ CacheSet(r)
  BY <1>4 DEF CheckRow, ComputeTtl, CacheSet
<1>5. CASE GetOwner(r) \/ DeleteRow(r) \/ Invalidate(r)
  BY <1>5 DEF GetOwner, DeleteRow, Invalidate
<1> QED
  BY <1>1, <1>2, <1>3, <1>4, <1>5 DEF Progress

\* Every step is a handler's own, ends a handler, or touches none of them.
THEOREM StepsRunOutHolds == Spec => StepsRunOut
<1> DEFINE Closer == \A r \in Requests : pc[r] \in Steps =>
                       Untouched(r) \/ StepsLeft(r)' < StepsLeft(r)
<1>1. ASSUME IndInv, [Next]_vars PROVE Closer
  <2>1. ASSUME NEW s \in Requests, CreateShortUrl(s) \/ Resolve(s) \/ Delete(s)
        PROVE  Closer
    BY <1>1, <2>1 DEF CreateShortUrl, Resolve, Delete, Begin, AtRest, Untouched,
                      IndInv, TypeOK
  <2>2. ASSUME NEW s \in Requests, Progress(s) PROVE Closer
    BY <1>1, <2>2, ForwardStep
  <2>3. ASSUME NEW s \in Requests, DbError(s) \/ LostCommit(s) \/ Crash(s)
        PROVE  Closer
    <3>1. /\ \A r \in Requests \ {s} : Untouched(r)
          /\ pc[s] \in Steps /\ pc'[s] \in {"500", "idle"}
      BY <1>1, <2>3 DEF DbError, LostCommit, Crash, Goto, AtRest, Untouched,
                        IndInv, TypeOK, DbSteps, Steps, CreateSteps, ResolveSteps, DeleteSteps
    <3>2. StepsLeft(s)' = 0
      BY <3>1 DEF StepsLeft, Steps, CreateSteps, ResolveSteps, DeleteSteps
    <3>3. StepsLeft(s) > 0
      BY <1>1, <3>1, TimeAssumption
         DEF StepsLeft, Left, Steps, CreateSteps, ResolveSteps, DeleteSteps, IndInv,
             TypeOK, LocalsFitStep
    <3> QED
      BY <3>1, <3>2, <3>3
  <2>4. CASE RedisRestart \/ Tick \/ UNCHANGED vars
    BY <2>4 DEF RedisRestart, Tick, vars, Untouched
  <2> QED
    BY <1>1, <2>1, <2>2, <2>3, <2>4 DEF Next
<1>2. IndInv /\ [Next]_vars => [Closer]_vars
  BY <1>1
<1> QED
  BY <1>2, Invariance, PTL DEF Spec, StepsRunOut

\* The row of an answered link stays, and no other row gets its code.
THEOREM AnswersAgreeHolds == Spec => AnswersAgree
<1> SUFFICES ASSUME NEW x \in ResolvedUrl
             PROVE  Spec =>
               []((\E r \in Requests : pc[r] = "302" /\ x \in got[r]) =>
                    [](\A r \in Requests : pc[r] = "302" =>
                         \A y \in got[r] : y.short_code = x.short_code => y = x))
  BY DEF AnswersAgree
<1> DEFINE Known == \E row \in urls : SameLink(x, row)
<1>1. IndInv /\ (\E r \in Requests : pc[r] = "302" /\ x \in got[r]) => Known
  BY DEF IndInv, CopiesAreOfRows, HoldsCopy
<1>2. IndInv /\ [Next]_vars /\ Known => Known'
  BY LinksPersist DEF SameLink
<1>3. IndInv /\ Known => \A r \in Requests : pc[r] = "302" =>
        \A y \in got[r] : y.short_code = x.short_code => y = x
  <2> SUFFICES ASSUME IndInv, Known, NEW r \in Requests, pc[r] = "302",
                      NEW y \in got[r], y.short_code = x.short_code
               PROVE  y = x
    OBVIOUS
  <2>1. y \in ResolvedUrl /\ \E row \in urls : SameLink(y, row)
    BY DEF IndInv, CopiesAreOfRows, HoldsCopy
  <2>2. SameLink(x, y)
    BY <2>1 DEF SameLink, IndInv, OneRowPerCode
  <2> QED
    BY <2>1, <2>2 DEF SameLink, ResolvedUrl
<1> HIDE DEF Known
<1> QED
  BY <1>1, <1>2, <1>3, Invariance, PTL DEF Spec

=============================================================================
