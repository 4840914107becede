----------------------------- MODULE UrlService -----------------------------
(***************************************************************************)
(* The life of a short link: the urls table in PostgreSQL, the cache-aside *)
(* copy in Redis, and the request handlers of the API (create, resolve,    *)
(* delete) that run concurrently in FastAPI's thread pool, on any number   *)
(* of backend instances.                                                   *)
(*                                                                         *)
(* A handler is a sequence of round trips to PostgreSQL or Redis; each     *)
(* round trip is one action, so the steps of different requests interleave *)
(* between them.  Clock reads that other steps can separate from a round   *)
(* trip are steps of their own.  Time is counted in ticks; TicksPerSecond  *)
(* of them make the second in which Redis counts a TTL.                    *)
(***************************************************************************)
EXTENDS Integers

CONSTANTS
  Requests,        \* request handler threads
  Codes,           \* short codes (and custom aliases)
  GeneratedCodes,  \* the codes generate_short_code() can draw
  LongUrls,        \* destinations a client may send
  ValidUrls,       \* those _validate_long_url accepts
  Users,           \* ids of registered users
  Nobody,          \* owner_id / requesting_user_id None
  Expiries,        \* the expires_at values clients send (ticks)
  Never,           \* expires_at None
  NoAlias,         \* custom_alias None
  MaxAttempts,     \* MAX_GENERATION_ATTEMPTS
  CacheTtl,        \* redis_cache_ttl_seconds
  TicksPerSecond,
  MaxTime,         \* bound on the clock
  FaultsPossible   \* PostgreSQL and Redis may fail, backends may crash

ASSUME CodesAssumption ==
  /\ GeneratedCodes \subseteq Codes
  /\ ValidUrls \subseteq LongUrls
  /\ NoAlias \notin Codes
  /\ Nobody \notin Users

ASSUME TimeAssumption ==
  /\ Expiries \subseteq Nat
  /\ Never \notin Nat
  /\ MaxAttempts \in Nat \ {0}
  /\ CacheTtl \in Nat \ {0}
  /\ TicksPerSecond \in Nat \ {0}
  /\ MaxTime \in Nat
  /\ FaultsPossible \in BOOLEAN

VARIABLES
  urls,      \* rows of the urls table
  next_id,   \* the BIGSERIAL of urls.id
  cache,     \* live Redis entries under the url: prefix
  now,       \* the clock
  pc,        \* pc[r]: next step of the handler, or the status it answered with
  arg,       \* arg[r]: the arguments of the request
  got,       \* got[r]: the record in hand, as the result set of the last read
  attempts,  \* attempts[r]: codes already tried by the generation loop
  ttl        \* ttl[r]: the cache TTL just computed, in seconds

vars == <<urls, next_id, cache, now, pc, arg, got, attempts, ttl>>

-----------------------------------------------------------------------------
(* Records.                                                                *)

Owner == Users \cup {Nobody}
ExpiresAt == Nat \cup {Never}

\* A row of urls; UrlRecord in Python.
UrlRecord == [id : Nat, short_code : Codes, long_url : LongUrls,
              expires_at : ExpiresAt, is_active : BOOLEAN, owner_id : Owner]

\* What resolve() returns and what is cached: no owner_id, no is_active.
ResolvedUrl == [id : Nat, short_code : Codes, long_url : LongUrls,
                expires_at : ExpiresAt]

\* A key in Redis: the serialized ResolvedUrl and the tick at which it dies.
CacheEntry == [id : Nat, short_code : Codes, long_url : LongUrls,
               expires_at : ExpiresAt, dies : Nat]

CreateArg == [long_url : LongUrls, custom_alias : Codes \cup {NoAlias},
              expires_at : ExpiresAt, owner_id : Owner]
ResolveArg == [short_code : Codes, at : Nat]
DeleteArg == [short_code : Codes, requesting_user_id : Owner]

CreateSteps == {"exists", "insert_alias", "insert_generated"}
ResolveSteps == {"cache_get", "check_hit", "get", "check_row", "compute_ttl",
                 "cache_set"}
DeleteSteps == {"get_owner", "delete_row", "invalidate"}
DbSteps == CreateSteps \cup {"get", "get_owner", "delete_row"}
Steps == CreateSteps \cup ResolveSteps \cup DeleteSteps
Statuses == {"201", "204", "302", "400", "403", "404", "409", "410", "500"}

AtRest(r) == pc[r] \notin Steps

Init ==
  /\ urls = {}
  /\ next_id = 1
  /\ cache = {}
  /\ now = 0
  /\ pc = [r \in Requests |-> "idle"]
  /\ arg = [r \in Requests |-> [none |-> TRUE]]
  /\ got = [r \in Requests |-> {}]
  /\ attempts = [r \in Requests |-> 0]
  /\ ttl = [r \in Requests |-> 0]

-----------------------------------------------------------------------------
(* PostgreSQL: the statements of PostgresUrlRepository.                    *)

\* Mutant: a partial unique index, under which a deleted code is free again.
TakenByActive(c) == \E row \in urls : row.short_code = c /\ row.is_active

\* urls_short_code_unique covers soft-deleted rows too.
Taken(c) == \E row \in urls : row.short_code = c

\* Mutant: the query without its "AND is_active".
SelectAny(c) == {row \in urls : row.short_code = c}

\* SELECT ... WHERE short_code = c AND is_active.
SelectActive(c) == {row \in urls : row.short_code = c /\ row.is_active}

\* The alias pre-check, blind to soft-deleted rows.
Exists(c) == SelectActive(c) # {}

\* INSERT INTO urls: a fresh id, everything else from the request.
NewRow(r, c) ==
  [id |-> next_id, short_code |-> c, long_url |-> arg[r].long_url,
   expires_at |-> arg[r].expires_at, is_active |-> TRUE,
   owner_id |-> arg[r].owner_id]

InsertRow(r, c) ==
  /\ urls' = urls \cup {NewRow(r, c)}
  /\ next_id' = next_id + 1

\* Mutant: a hard DELETE, as the in-memory repository does.
WithoutCode(c) == urls \ SelectActive(c)

\* UPDATE urls SET is_active = false WHERE short_code = c AND is_active.
SoftDeleted(c) ==
  (urls \ SelectActive(c))
    \cup {[row EXCEPT !.is_active = FALSE] : row \in SelectActive(c)}

-----------------------------------------------------------------------------
(* Redis: the commands of RedisCache.  A failing command is logged and     *)
(* treated as a miss or a no-op; an error can hide a command that took     *)
(* effect, which is the same step as success.                              *)

CacheHits(c) == {e \in cache : e.short_code = c}

Stored(x, seconds) ==
  (cache \ CacheHits(x.short_code))
    \cup {[id |-> x.id, short_code |-> x.short_code, long_url |-> x.long_url,
           expires_at |-> x.expires_at, dies |-> now + seconds * TicksPerSecond]}

Evicted(c) == cache \ CacheHits(c)

AsResolved(x) ==
  [id |-> x.id, short_code |-> x.short_code, long_url |-> x.long_url,
   expires_at |-> x.expires_at]

-----------------------------------------------------------------------------
(* Starting and answering a request.                                       *)

Begin(r, a, label) ==
  /\ AtRest(r)
  /\ arg' = [arg EXCEPT ![r] = a]
  /\ pc' = [pc EXCEPT ![r] = label]
  /\ got' = [got EXCEPT ![r] = {}]
  /\ attempts' = [attempts EXCEPT ![r] = 0]
  /\ ttl' = [ttl EXCEPT ![r] = 0]

Goto(r, label) == pc' = [pc EXCEPT ![r] = label]

-----------------------------------------------------------------------------
(* create_short_url.                                                       *)

\* The URL is validated before anything is asked of PostgreSQL; an alias is
\* looked up, a code is generated.
FirstStep(u, a) ==
  IF u \notin ValidUrls THEN "400"
  ELSE IF a # NoAlias THEN "exists" ELSE "insert_generated"

CreateShortUrl(r) ==
  /\ \E u \in LongUrls, a \in Codes \cup {NoAlias},
        e \in Expiries \cup {Never}, o \in Owner :
       Begin(r, [long_url |-> u, custom_alias |-> a,
                 expires_at |-> e, owner_id |-> o], FirstStep(u, a))
  /\ UNCHANGED <<urls, next_id, cache, now>>

\* The pre-check is a statement of its own: its answer may be outdated at once.
AliasExists(r) ==
  /\ pc[r] = "exists"
  /\ Goto(r, IF Exists(arg[r].custom_alias) THEN "409" ELSE "insert_alias")
  /\ UNCHANGED <<urls, next_id, cache, now, arg, got, attempts, ttl>>

\* The insert of an alias.  Nothing catches its ShortCodeCollisionError.
InsertAlias(r) ==
  /\ pc[r] = "insert_alias"
  /\ LET c == arg[r].custom_alias IN
       \/ /\ Taken(c)
          /\ Goto(r, "500")
          /\ UNCHANGED <<urls, next_id, got>>
       \/ /\ ~Taken(c)
          /\ InsertRow(r, c)
          /\ got' = [got EXCEPT ![r] = {NewRow(r, c)}]
          /\ Goto(r, "201")
  /\ UNCHANGED <<cache, now, arg, attempts, ttl>>

\* Mutant: the loop forgets to count.
SameAttempt(n) == n

NextAttempt(n) == n + 1

\* Mutant: one attempt too many.
PastLastAttempt(n) == n > MaxAttempts

LastAttempt(n) == n = MaxAttempts

\* One turn of the generation loop: draw a code, insert it, retry on collision.
InsertGenerated(r) ==
  /\ pc[r] = "insert_generated"
  /\ \E c \in GeneratedCodes :
       \/ /\ Taken(c)
          /\ LET n == NextAttempt(attempts[r]) IN
               /\ attempts' = [attempts EXCEPT ![r] = n]
               /\ Goto(r, IF LastAttempt(n) THEN "500" ELSE "insert_generated")
          /\ UNCHANGED <<urls, next_id, got>>
       \/ /\ ~Taken(c)
          /\ InsertRow(r, c)
          /\ got' = [got EXCEPT ![r] = {NewRow(r, c)}]
          /\ Goto(r, "201")
          /\ UNCHANGED attempts
  /\ UNCHANGED <<cache, now, arg, ttl>>

-----------------------------------------------------------------------------
(* resolve(), behind both the redirect (302) and the metadata endpoint     *)
(* (200, written 302 here too).                                            *)

Resolve(r) ==
  /\ \E c \in Codes :
       Begin(r, [short_code |-> c, at |-> now], "cache_get")
  /\ UNCHANGED <<urls, next_id, cache, now>>

\* Mutant: a hit starts the TTL of its entry anew.
CacheGetRenewing(r) ==
  /\ pc[r] = "cache_get"
  /\ \/ \E e \in CacheHits(arg[r].short_code) :
          /\ cache' = Stored(e, CacheTtl)
          /\ got' = [got EXCEPT ![r] = {AsResolved(e)}]
          /\ Goto(r, "check_hit")
     \/ /\ CacheHits(arg[r].short_code) = {}
        /\ Goto(r, "get")
        /\ UNCHANGED <<cache, got>>
  /\ UNCHANGED <<urls, next_id, now, arg, attempts, ttl>>

CacheGet(r) ==
  /\ pc[r] = "cache_get"
  /\ LET hits == CacheHits(arg[r].short_code) IN
       \/ \E e \in hits :
            /\ got' = [got EXCEPT ![r] = {AsResolved(e)}]
            /\ Goto(r, "check_hit")
       \/ /\ hits = {} \/ FaultsPossible
          /\ Goto(r, "get")
          /\ UNCHANGED got
  /\ UNCHANGED <<urls, next_id, cache, now, arg, attempts, ttl>>

\* _raise_if_expired: strictly past.
Expired(x) == x.expires_at # Never /\ x.expires_at < now

\* Mutant: the hit is trusted, because the TTL was capped to expires_at.
TrustHit(r) ==
  /\ pc[r] = "check_hit"
  /\ Goto(r, "302")
  /\ UNCHANGED <<urls, next_id, cache, now, arg, got, attempts, ttl>>

CheckHit(r) ==
  /\ pc[r] = "check_hit"
  /\ \E x \in got[r] : Goto(r, IF Expired(x) THEN "410" ELSE "302")
  /\ UNCHANGED <<urls, next_id, cache, now, arg, got, attempts, ttl>>

GetRecord(r) ==
  /\ pc[r] = "get"
  /\ LET rows == SelectActive(arg[r].short_code) IN
       /\ got' = [got EXCEPT ![r] = {AsResolved(row) : row \in rows}]
       /\ Goto(r, IF rows = {} THEN "404" ELSE "check_row")
  /\ UNCHANGED <<urls, next_id, cache, now, arg, attempts, ttl>>

CheckRow(r) ==
  /\ pc[r] = "check_row"
  /\ \E x \in got[r] : Goto(r, IF Expired(x) THEN "410" ELSE "compute_ttl")
  /\ UNCHANGED <<urls, next_id, cache, now, arg, got, attempts, ttl>>

\* min(cache_ttl_seconds, int(seconds until expiry)).  \div floors where int()
\* truncates; they differ only below zero, where neither is ever stored.
TtlSeconds(x) ==
  IF x.expires_at = Never THEN CacheTtl
  ELSE LET left == (x.expires_at - now) \div TicksPerSecond IN
       IF left < CacheTtl THEN left ELSE CacheTtl

\* The clock is read again, so the link may have expired since the check.
ComputeTtl(r) ==
  /\ pc[r] = "compute_ttl"
  /\ \E x \in got[r] : ttl' = [ttl EXCEPT ![r] = TtlSeconds(x)]
  /\ Goto(r, "cache_set")
  /\ UNCHANGED <<urls, next_id, cache, now, arg, got, attempts>>

\* SET key value EX ttl, counted by Redis from the moment it arrives.
CacheSet(r) ==
  /\ pc[r] = "cache_set"
  /\ \E x \in got[r] :
       \/ /\ ttl[r] > 0
          /\ cache' = Stored(x, ttl[r])
       \/ /\ ttl[r] <= 0 \/ FaultsPossible
          /\ UNCHANGED cache
  /\ Goto(r, "302")
  /\ UNCHANGED <<urls, next_id, now, arg, got, attempts, ttl>>

-----------------------------------------------------------------------------
(* delete().                                                               *)

Delete(r) ==
  /\ \E c \in Codes, u \in Owner :
       Begin(r, [short_code |-> c, requesting_user_id |-> u], "get_owner")
  /\ UNCHANGED <<urls, next_id, cache, now>>

MayDelete(row, user) == row.owner_id = Nobody \/ row.owner_id = user

GetOwner(r) ==
  /\ pc[r] = "get_owner"
  /\ LET rows == SelectActive(arg[r].short_code) IN
       \/ rows = {} /\ Goto(r, "404")
       \/ \E row \in rows :
            Goto(r, IF MayDelete(row, arg[r].requesting_user_id)
                    THEN "delete_row" ELSE "403")
  /\ UNCHANGED <<urls, next_id, cache, now, arg, got, attempts, ttl>>

\* The UPDATE names only the code: rowcount 0 if another delete came first.
DeleteRow(r) ==
  /\ pc[r] = "delete_row"
  /\ LET c == arg[r].short_code IN
       /\ urls' = SoftDeleted(c)
       /\ Goto(r, IF SelectActive(c) # {} THEN "invalidate" ELSE "404")
  /\ UNCHANGED <<next_id, cache, now, arg, got, attempts, ttl>>

Invalidate(r) ==
  /\ pc[r] = "invalidate"
  /\ \/ cache' = Evicted(arg[r].short_code)
     \/ FaultsPossible /\ UNCHANGED cache
  /\ Goto(r, "204")
  /\ UNCHANGED <<urls, next_id, now, arg, got, attempts, ttl>>

-----------------------------------------------------------------------------
(* Failures and time.                                                      *)

\* A repository call raises before it changed anything: unhandled, 500.
DbError(r) ==
  /\ FaultsPossible
  /\ pc[r] \in DbSteps
  /\ Goto(r, "500")
  /\ UNCHANGED <<urls, next_id, cache, now, arg, got, attempts, ttl>>

\* The statement committed but its answer was lost: the rest of the handler,
\* the cache invalidation included, is skipped.
LostCommit(r) ==
  /\ FaultsPossible
  /\ \/ /\ pc[r] = "insert_alias"
        /\ ~Taken(arg[r].custom_alias)
        /\ InsertRow(r, arg[r].custom_alias)
     \/ /\ pc[r] = "insert_generated"
        /\ \E c \in GeneratedCodes : ~Taken(c) /\ InsertRow(r, c)
     \/ /\ pc[r] = "delete_row"
        /\ urls' = SoftDeleted(arg[r].short_code)
        /\ UNCHANGED next_id
  /\ Goto(r, "500")
  /\ UNCHANGED <<cache, now, arg, got, attempts, ttl>>

\* The backend process dies with the request in flight.
Crash(r) ==
  /\ FaultsPossible
  /\ ~AtRest(r)
  /\ Goto(r, "idle")
  /\ UNCHANGED <<urls, next_id, cache, now, arg, got, attempts, ttl>>

\* Redis has no volume: a restart empties it.
RedisRestart ==
  /\ FaultsPossible
  /\ cache # {}
  /\ cache' = {}
  /\ UNCHANGED <<urls, next_id, now, pc, arg, got, attempts, ttl>>

\* Time passes; Redis drops the keys whose TTL has run out.
Tick ==
  /\ now < MaxTime
  /\ now' = now + 1
  /\ cache' = {e \in cache : now' < e.dies}
  /\ UNCHANGED <<urls, next_id, pc, arg, got, attempts, ttl>>

-----------------------------------------------------------------------------
\* What a thread that serves r does next.
Progress(r) ==
  \/ AliasExists(r) \/ InsertAlias(r) \/ InsertGenerated(r)
  \/ CacheGet(r) \/ CheckHit(r)
  \/ GetRecord(r) \/ CheckRow(r) \/ ComputeTtl(r) \/ CacheSet(r)
  \/ GetOwner(r) \/ DeleteRow(r) \/ Invalidate(r)

Next ==
  \/ \E r \in Requests :
       \/ CreateShortUrl(r) \/ Resolve(r) \/ Delete(r)
       \/ Progress(r)
       \/ DbError(r) \/ LostCommit(r) \/ Crash(r)
  \/ RedisRestart
  \/ Tick

\* Every round trip returns or times out, so a started request keeps moving;
\* nothing obliges clients, time or failures.
Spec == Init /\ [][Next]_vars /\ \A r \in Requests : WF_vars(Progress(r))

-----------------------------------------------------------------------------
(* Properties.                                                             *)

\* The state has its type; in particular the generation loop never runs past
\* MAX_GENERATION_ATTEMPTS, and no entry is stored for longer than the TTL.
TypeOK ==
  /\ urls \subseteq UrlRecord
  /\ next_id \in Nat
  /\ cache \subseteq CacheEntry
  /\ now \in Nat
  /\ pc \in [Requests -> Steps \cup Statuses \cup {"idle"}]
  /\ arg \in [Requests -> CreateArg \cup ResolveArg \cup DeleteArg
                            \cup {[none |-> TRUE]}]
  /\ got \in [Requests -> SUBSET (UrlRecord \cup ResolvedUrl)]
  /\ attempts \in [Requests -> 0..MaxAttempts]
  /\ ttl \in [Requests -> Int]
  /\ \A r \in Requests : ttl[r] <= CacheTtl

\* The identity of a link: what must never differ between its copies.
SameLink(x, y) ==
  /\ x.id = y.id
  /\ x.short_code = y.short_code
  /\ x.long_url = y.long_url
  /\ x.expires_at = y.expires_at

\* A copy is genuine if its code and its id have one row, and the copy is of it.
Genuine(x) ==
  \E row \in urls :
    /\ SameLink(x, row)
    /\ \A other \in urls :
         other.short_code = x.short_code \/ other.id = x.id => other = row

\* Whatever is cached under a code, and whatever a redirect answers, is a copy
\* of the one link ever registered under that code, even if the copy is stale:
\* a code is never reused, so a stale entry cannot send a visitor to somebody
\* else's link, and the id in it cannot book the click to somebody else.
OneDestination ==
  /\ \A e \in cache : Genuine(e)
  /\ \A r \in Requests : pc[r] = "302" => \E x \in got[r] : got[r] = {x} /\ Genuine(x)

\* A request is never answered with a link that had already expired when the
\* request arrived, whether the answer came from Redis or from PostgreSQL.
NeverServedExpired ==
  \A r \in Requests : pc[r] = "302" =>
    \A x \in got[r] : x.expires_at = Never \/ x.expires_at >= arg[r].at

\* delete() checks the owner in one statement and deletes by code in another:
\* still, an owned link is only ever deactivated by its owner's request.
OwnerOnlyDeletes ==
  [][\A row \in urls :
       row.is_active /\ row.owner_id # Nobody /\ row \notin urls' =>
         \E r \in Requests :
           /\ pc[r] = "delete_row" /\ pc'[r] # "delete_row"
           /\ arg[r].short_code = row.short_code
           /\ arg[r].requesting_user_id = row.owner_id]_vars

\* Rows are never removed, rewritten or revived: the id a cached copy or a
\* queued click carries keeps denoting the same link (the click_events foreign
\* key rests on it).
RowsOnlyRetire ==
  [][\A row \in urls : \E row2 \in urls' :
       /\ SameLink(row, row2)
       /\ row2.owner_id = row.owner_id
       /\ row2.is_active => row.is_active]_vars

\* c was deleted, and no resolve() still holds the row it read before that.
Gone(c) ==
  /\ \E row \in urls : row.short_code = c
  /\ \A row \in urls : row.short_code = c => ~row.is_active
  /\ \A r \in Requests :
       pc[r] \in {"check_row", "compute_ttl", "cache_set"} => arg[r].short_code # c

\* Once a link is deleted and the readers that overlapped the delete are done,
\* it stays gone and its cache entry is never renewed: what is left of it in
\* Redis dies within its TTL, whatever failed in the delete.
DeletedStaysGone ==
  [][\A c \in Codes : Gone(c) =>
       Gone(c)' /\ CacheHits(c)' \subseteq CacheHits(c)]_vars

StaleTicks == CacheTtl * TicksPerSecond

\* The staleness the cache costs, for a client: once the delete of a link and the
\* readers that overlapped it are done, at t or before, no request that arrives
\* redis_cache_ttl_seconds after t is answered with the link, even if the
\* invalidation failed or a reader undid it.
StalenessBounded ==
  \A c \in Codes, t \in 0..MaxTime :
    [](Gone(c) /\ now <= t =>
         [](\A r \in Requests : pc[r] = "302" /\ arg[r].short_code = c =>
              arg[r].at < t + StaleTicks))

\* A code that has answered with a link answers with that link for ever.
AnswersAgree ==
  \A x \in ResolvedUrl :
    []((\E r \in Requests : pc[r] = "302" /\ x \in got[r]) =>
         [](\A r \in Requests : pc[r] = "302" =>
              \A y \in got[r] : y.short_code = x.short_code => y = x))

\* The click of an answered redirect can always be stored, however late: the id
\* it carries is that of a row, and denotes the link the visitor was sent to.
ClicksStorable ==
  \A x \in ResolvedUrl :
    []((\E r \in Requests : pc[r] = "302" /\ x \in got[r]) =>
         [](\E row \in urls : /\ SameLink(x, row)
                              /\ \A other \in urls : other.id = x.id => other = row))

\* How many statements a handler still has to make, at most.
Left ==
  [exists |-> 2, insert_alias |-> 1,
   cache_get |-> 5, check_hit |-> 1, get |-> 4, check_row |-> 3, compute_ttl |-> 2,
   cache_set |-> 1, get_owner |-> 3, delete_row |-> 2, invalidate |-> 1]

StepsLeft(r) ==
  IF pc[r] = "insert_generated" THEN MaxAttempts - attempts[r]
  ELSE IF pc[r] \in Steps THEN Left[pc[r]] ELSE 0

Untouched(r) ==
  /\ pc'[r] = pc[r] /\ arg'[r] = arg[r] /\ got'[r] = got[r]
  /\ attempts'[r] = attempts[r] /\ ttl'[r] = ttl[r]

\* No handler goes in a circle, and no other handler, nor time, nor a failure in
\* Redis, sends it back: a step is another's, or leaves fewer steps to take.
StepsRunOut ==
  [][\A r \in Requests : pc[r] \in Steps =>
       Untouched(r) \/ StepsLeft(r)' < StepsLeft(r)]_vars

\* Every request that is not killed is answered: the generation loop gives up
\* after MAX_GENERATION_ATTEMPTS instead of looping forever.
RequestsAnswered ==
  \A r \in Requests : pc[r] \in Steps ~> pc[r] \notin Steps

-----------------------------------------------------------------------------
(* UrlService implements LinkStore.                                        *)

\* Somewhere a copy of c can still be served from: Redis, or a resolve() that
\* has read it and not answered yet.
Held(c) ==
  \/ \E e \in cache : e.short_code = c
  \/ \E r \in Requests : /\ pc[r] \in ResolveSteps \ {"cache_get", "get"}
                         /\ arg[r].short_code = c

Fate(c) ==
  IF \A row \in urls : row.short_code # c THEN "free"
  ELSE IF \E row \in urls : row.short_code = c /\ row.is_active THEN "live"
  ELSE IF Held(c) THEN "lingering" ELSE "gone"

Links == {AsResolved(row) : row \in urls}
Fates == [c \in Codes |-> Fate(c)]
Asked == [r \in Requests |-> IF pc[r] \in ResolveSteps THEN {arg[r]} ELSE {}]
Served == [r \in Requests |-> IF pc[r] = "302" THEN got[r] ELSE {}]

Store == INSTANCE LinkStore WITH
  links <- Links, fate <- Fates, clock <- now, asked <- Asked, served <- Served

\* Cache-aside over PostgreSQL behaves as one store, whatever fails: a code
\* denotes one link for ever, an answer is that link and was in date, and a
\* deleted link whose last copy has gone is never served again.
ImplementsLinkStore == Store!Spec

-----------------------------------------------------------------------------
(* The inductive invariant the safety properties rest on.                  *)

\* A handler's local variables fit the step it has reached.
LocalsFitStep ==
  \A r \in Requests :
    /\ pc[r] \in CreateSteps => arg[r] \in CreateArg
    /\ pc[r] \in {"exists", "insert_alias"} => arg[r].custom_alias \in Codes
    /\ pc[r] = "insert_generated" => attempts[r] < MaxAttempts
    /\ pc[r] \in ResolveSteps \cup {"302"} => arg[r] \in ResolveArg
    /\ pc[r] \in DeleteSteps => arg[r] \in DeleteArg

\* The UNIQUE constraint on short_code, soft-deleted rows included.
OneRowPerCode ==
  \A a, b \in urls : a.short_code = b.short_code => a = b

\* PRIMARY KEY on id, from a sequence.
OneRowPerId ==
  /\ \A row \in urls : row.id < next_id
  /\ \A a, b \in urls : a.id = b.id => a = b

\* resolve() has a copy of a link in hand.
HoldsCopy(r) ==
  pc[r] \in {"check_hit", "check_row", "compute_ttl", "cache_set", "302"}

\* Every cached entry and every copy in hand is of a row that still exists,
\* and the copy in hand is of the link that was asked for.
CopiesAreOfRows ==
  /\ \A e \in cache : \E row \in urls : SameLink(e, row)
  /\ \A r \in Requests : HoldsCopy(r) =>
       /\ got[r] # {} /\ got[r] \subseteq ResolvedUrl
       /\ \A x, y \in got[r] : x = y
       /\ \A x \in got[r] :
            /\ x.short_code = arg[r].short_code
            /\ \E row \in urls : SameLink(x, row)

\* Arrival precedes every later step, and an accepted copy was in date then.
AcceptedInDate ==
  \A r \in Requests :
    /\ pc[r] \in ResolveSteps \cup {"302"} => arg[r].at <= now
    /\ pc[r] \in {"compute_ttl", "cache_set", "302"} =>
         \A x \in got[r] : x.expires_at = Never \/ x.expires_at >= arg[r].at

\* An entry in Redis is alive, and not for longer than the configured TTL.
EntriesDieInTime ==
  \A e \in cache : now < e.dies /\ e.dies <= now + StaleTicks

\* Between the ownership check and the UPDATE the row keeps its owner.
DeleterMayDelete ==
  \A r \in Requests : pc[r] = "delete_row" =>
    \E row \in urls :
      /\ row.short_code = arg[r].short_code
      /\ row.owner_id \in {Nobody, arg[r].requesting_user_id}

\* What every step preserves: the handlers' local copies, the cache and the
\* table agree on which link a code denotes, at every interleaving point.
IndInv ==
  /\ TypeOK
  /\ LocalsFitStep
  /\ OneRowPerCode
  /\ OneRowPerId
  /\ CopiesAreOfRows
  /\ AcceptedInDate
  /\ EntriesDieInTime
  /\ DeleterMayDelete

-----------------------------------------------------------------------------
(* Claims of the repository that the code does not keep.                   *)

\* Claimed by url_service.py and its tests: after a delete the cache entry is
\* gone.  (Refuted: a resolve() that read the row before the delete stores it
\* after the invalidation.)
NoStaleEntry ==
  \A row \in urls :
    ~row.is_active /\ CacheHits(row.short_code) # {} =>
      \E r \in Requests :
        pc[r] = "invalidate" /\ arg[r].short_code = row.short_code

\* Claimed by api/urls.py: a duplicate custom alias is a 409.  (Refuted: the
\* pre-check misses soft-deleted rows and concurrent inserts, and the
\* collision the insert then raises is answered with a 500.)
AliasConflictIs409 ==
  \A r \in Requests :
    pc[r] = "500" /\ arg[r] \in CreateArg => arg[r].custom_alias = NoAlias

=============================================================================
