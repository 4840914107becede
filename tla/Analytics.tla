----------------------------- MODULE Analytics -----------------------------
(***************************************************************************)
(* The analytics endpoint over the click_events table.                     *)
(*                                                                         *)
(* A report is three statements, each with its own snapshot: the url, the  *)
(* count, the recent clicks.  Between them workers commit clicks and the   *)
(* owner may delete the url.  clicked_at is the start of the transaction   *)
(* that inserts the click, so clicks become visible in another order than  *)
(* that of clicked_at.  Who asks is settled by get_current_user before     *)
(* (module AuthService); how events reach the workers, once or several     *)
(* times, is in ClickPipeline.                                             *)
(***************************************************************************)
EXTENDS Integers, FiniteSets

CONSTANTS
  Requests,     \* GET /api/v1/urls/{short_code}/analytics
  Workers,      \* threads that insert clicks
  Events,       \* event_id of a click
  Urls,
  Users,
  UrlOf,        \* UrlOf[e]: the url_id of event e
  Owner,        \* Owner[u]: owner_id, Anonymous if NULL
  RecentLimit,  \* limit of recent clicks
  MaxTime,      \* bound on the clock
  Anonymous,
  None          \* no row, no transaction, no request yet

ASSUME AnalyticsAssumption ==
  /\ IsFiniteSet(Events)
  /\ UrlOf \in [Events -> Urls]
  /\ Owner \in [Urls -> Users \cup {Anonymous}] /\ Anonymous \notin Users
  /\ RecentLimit \in Nat /\ MaxTime \in Nat
  /\ None \notin 0..MaxTime

VARIABLES
  now,     \* the clock of PostgreSQL
  rows,    \* rows[e]: clicked_at of the committed row of e
  tx,      \* tx[w]: the open transaction of w
  active,  \* urls with is_active
  pc,      \* pc[r]: next statement of r, or the answer
  req,     \* req[r]: url and user of r
  total,   \* total[r]: total_clicks
  recent   \* recent[r]: recent_clicks

vars == <<now, rows, tx, active, pc, req, total, recent>>

\* earlier and gone are history: the reports answered and the urls deleted
\* before the request arrived.
Request == [url : Urls, user : Users, earlier : SUBSET Requests, gone : SUBSET Urls]

ASSUME RequestAssumption == None \notin Request

Init ==
  /\ now = 0
  /\ rows = [e \in Events |-> None]
  /\ tx = [w \in Workers |-> None]
  /\ active = Urls
  /\ pc = [r \in Requests |-> "new"]
  /\ req = [r \in Requests |-> None]
  /\ total = [r \in Requests |-> 0]
  /\ recent = [r \in Requests |-> {}]

Goto(r, label) == pc' = [pc EXCEPT ![r] = label]

\* A delivery of e reaches the database: now() is fixed for the transaction.
BeginInsert(w, e) ==
  /\ tx[w] = None
  /\ tx' = [tx EXCEPT ![w] = [event |-> e, clicked_at |-> now]]
  /\ UNCHANGED <<now, rows, active, pc, req, total, recent>>

\* Mutant: a redelivered event replaces its row instead of doing nothing.
Replaced(e, t) == [rows EXCEPT ![e] = t]

\* ON CONFLICT (event_id) DO NOTHING.
Inserted(e, t) == [rows EXCEPT ![e] = IF @ = None THEN t ELSE @]

CommitInsert(w) ==
  /\ tx[w] # None
  /\ rows' = Inserted(tx[w].event, tx[w].clicked_at)
  /\ tx' = [tx EXCEPT ![w] = None]
  /\ UNCHANGED <<now, active, pc, req, total, recent>>

\* The insert fails or its connection is lost; the event is delivered again.
AbortInsert(w) ==
  /\ tx[w] # None
  /\ tx' = [tx EXCEPT ![w] = None]
  /\ UNCHANGED <<now, rows, active, pc, req, total, recent>>

\* The soft delete of a url keeps its clicks.
DeleteUrl(u) ==
  /\ u \in active
  /\ active' = active \ {u}
  /\ UNCHANGED <<now, rows, tx, pc, req, total, recent>>

\* Mutant: the recent clicks are read before the total.
RecentFirst == [get |-> "recent", recent |-> "count", count |-> "200"]

\* The order of the statements.
Then == [get |-> "count", count |-> "recent", recent |-> "200"]

GetUrlAnalytics(r, u, c) ==
  /\ pc[r] = "new"
  /\ req' = [req EXCEPT ![r] = [url |-> u, user |-> c, gone |-> Urls \ active,
                                earlier |-> {q \in Requests : pc[q] = "200"}]]
  /\ Goto(r, "get")
  /\ UNCHANGED <<now, rows, tx, active, total, recent>>

\* Mutant: the url is read without its is_active filter.
FoundAny(u) == TRUE

Found(u) == u \in active

\* url_repository.get and the ownership check.
GetUrl(r) ==
  /\ pc[r] = "get"
  /\ \/ ~Found(req[r].url) /\ Goto(r, "404")
     \/ Found(req[r].url) /\ Owner[req[r].url] # req[r].user /\ Goto(r, "403")
     \/ Found(req[r].url) /\ Owner[req[r].url] = req[r].user /\ Goto(r, Then.get)
  /\ UNCHANGED <<now, rows, tx, active, req, total, recent>>

Stored(u) == {e \in Events : UrlOf[e] = u /\ rows[e] # None}

GetCount(r) ==
  /\ pc[r] = "count"
  /\ total' = [total EXCEPT ![r] = Cardinality(Stored(req[r].url))]
  /\ Goto(r, Then.count)
  /\ UNCHANGED <<now, rows, tx, active, req, recent>>

\* Mutant: ORDER BY clicked_at without DESC.
Oldest(u) ==
  {S \in SUBSET Stored(u) :
     /\ Cardinality(S) = RecentLimit \/ (S = Stored(u) /\ Cardinality(S) < RecentLimit)
     /\ \A e \in S, d \in Stored(u) \ S : rows[e] <= rows[d]}

\* ORDER BY clicked_at DESC LIMIT; clicks of one instant come in any order.
Newest(u) ==
  {S \in SUBSET Stored(u) :
     /\ Cardinality(S) = RecentLimit \/ (S = Stored(u) /\ Cardinality(S) < RecentLimit)
     /\ \A e \in S, d \in Stored(u) \ S : rows[e] >= rows[d]}

GetRecent(r) ==
  /\ pc[r] = "recent"
  /\ \E S \in Newest(req[r].url) : recent' = [recent EXCEPT ![r] = S]
  /\ Goto(r, Then.recent)
  /\ UNCHANGED <<now, rows, tx, active, req, total>>

\* Any of the three statements fails.
Fail(r) ==
  /\ pc[r] \in {"get", "count", "recent"}
  /\ Goto(r, "500")
  /\ UNCHANGED <<now, rows, tx, active, req, total, recent>>

Tick ==
  /\ now < MaxTime
  /\ now' = now + 1
  /\ UNCHANGED <<rows, tx, active, pc, req, total, recent>>

Next ==
  \/ \E w \in Workers : \/ \E e \in Events : BeginInsert(w, e)
                        \/ CommitInsert(w) \/ AbortInsert(w)
  \/ \E u \in Urls : DeleteUrl(u)
  \/ \E r \in Requests : \/ \E u \in Urls, c \in Users : GetUrlAnalytics(r, u, c)
                         \/ GetUrl(r) \/ GetCount(r) \/ GetRecent(r) \/ Fail(r)
  \/ Tick

Spec == Init /\ [][Next]_vars

-----------------------------------------------------------------------------
(* Properties.                                                             *)

TypeOK ==
  /\ now \in 0..MaxTime
  /\ rows \in [Events -> 0..MaxTime \cup {None}]
  /\ tx \in [Workers -> [event : Events, clicked_at : 0..MaxTime] \cup {None}]
  /\ active \subseteq Urls
  /\ pc \in [Requests -> {"new", "get", "count", "recent", "200", "403", "404", "500"}]
  /\ req \in [Requests -> Request \cup {None}]
  /\ total \in [Requests -> Nat]
  /\ recent \in [Requests -> SUBSET Events]

\* Though clicks arrive between the two statements, a report lists every click
\* it counts, up to the limit, and only clicks of its url.  (It may list clicks
\* that it does not count.)
RecentCoversTotal ==
  \A r \in Requests : pc[r] = "200" =>
    /\ \A e \in recent[r] : UrlOf[e] = req[r].url
    /\ Cardinality(recent[r]) <= RecentLimit
    /\ Cardinality(recent[r]) < RecentLimit => total[r] <= Cardinality(recent[r])

\* The click d, once listed, is missing from r's report only because the list
\* is full of clicks that are not older.
Displaced(d, r) ==
  Cardinality(recent[r]) = RecentLimit /\ \A e \in recent[r] : rows[e] >= rows[d]

\* A report never takes back what an earlier one for the same url said: its
\* total counts all that the earlier one counted or listed, and a listed click
\* gives way only to newer ones, although commits are out of order, events are
\* delivered again and the url may have been deleted meanwhile.
ReportsAgree ==
  \A r \in Requests : pc[r] = "200" =>
    \A q \in req[r].earlier : req[q].url = req[r].url =>
      /\ total[q] <= total[r]
      /\ Cardinality(recent[q]) <= total[r]
      /\ \A d \in recent[q] \ recent[r] : Displaced(d, r)

\* A report goes only to the owner, and never to a request that came after the
\* url's deletion; a deletion during the request does not stop it.
ReportsAuthorised ==
  \A r \in Requests : pc[r] = "200" =>
    Owner[req[r].url] = req[r].user /\ req[r].url \notin req[r].gone

-----------------------------------------------------------------------------
(* The inductive invariant behind them.                                    *)

\* What a request knows once it has passed the check, counted, and listed.
RequestSound(r) ==
  /\ pc[r] # "new" =>
       /\ req[r] # None
       /\ req[r].gone \cap active = {}
       /\ \A q \in req[r].earlier : pc[q] = "200"
  /\ pc[r] \in {"count", "recent", "200"} =>
       Owner[req[r].url] = req[r].user /\ req[r].url \notin req[r].gone
  /\ pc[r] \in {"recent", "200"} =>
       /\ total[r] <= Cardinality(Stored(req[r].url))
       /\ \A q \in req[r].earlier : req[q].url = req[r].url =>
            total[q] <= total[r] /\ Cardinality(recent[q]) <= total[r]
  /\ pc[r] = "200" => recent[r] \subseteq Stored(req[r].url)

IndInv ==
  /\ TypeOK
  /\ \A r \in Requests : RequestSound(r)
  /\ RecentCoversTotal
  /\ ReportsAgree

=============================================================================
