---------------------------- MODULE AuthService ----------------------------
(***************************************************************************)
(* Accounts, passwords and tokens: AuthService behind /api/v1/auth, the    *)
(* users table, and the two bearer-token dependencies of the other         *)
(* endpoints.                                                              *)
(*                                                                         *)
(* Nothing is kept between requests but the users table: a token is        *)
(* checked by its signature, its exp and its type, and every read of the   *)
(* table is a statement of its own, so the steps of a request interleave   *)
(* with other requests, with the clock and with an operator deactivating   *)
(* accounts.  Every request is made once.                                  *)
(***************************************************************************)
EXTENDS Integers, FiniteSets

CONSTANTS
  Requests,       \* requests of all clients
  Ids,            \* values of users.id
  Emails,         \* well-formed addresses
  Passwords,
  ShortPasswords, \* those below MIN_PASSWORD_LENGTH
  AccessTtl,      \* ACCESS_TOKEN_EXPIRE_MINUTES, in ticks
  RefreshTtl,     \* REFRESH_TOKEN_EXPIRE_DAYS, in ticks
  MaxConcurrent,  \* bound on the requests in flight
  MaxTime,        \* bound on the clock
  None,           \* no row, no request yet
  NoCredentials,  \* no Authorization header
  Garbage         \* a token that this service did not sign

ASSUME AuthAssumption ==
  /\ ShortPasswords \subseteq Passwords
  /\ AccessTtl \in Nat \ {0} /\ RefreshTtl \in Nat \ {0}
  /\ MaxConcurrent \in Nat /\ MaxTime \in Nat

VARIABLES
  now,     \* the clock
  users,   \* users[u]: the row with id u; rows are never removed
  tokens,  \* tokens delivered to clients
  logins,  \* history: the logins answered 200
  pc,      \* pc[r]: next step of r, or the answer
  req,     \* req[r]: what r asks
  user,    \* user[r]: id of the row r has read
  minted   \* minted[r]: iat of the access token a login is about to return

vars == <<now, users, tokens, logins, pc, req, user, minted>>

\* The Argon2id hash of a password tells nothing but whether a password matches.
hash_password(p) == [argon2id |-> p]

verify_password(p, hash) == hash = hash_password(p)

UserRecord == [email : Emails, password_hash : {hash_password(p) : p \in Passwords},
               is_active : BOOLEAN]

Ttl(type) == IF type = "access" THEN AccessTtl ELSE RefreshTtl

\* A signed payload; asked is history: when the request that got it arrived.
create_token(u, type, iat, asked) ==
  [sub |-> u, type |-> type, iat |-> iat, exp |-> iat + Ttl(type), asked |-> asked]

Token == [sub : Ids, type : {"access", "refresh"}, iat : 0..MaxTime, exp : Nat,
          asked : 0..MaxTime]

\* at and gone are history: when r arrived, and the accounts inactive by then.
Request ==
  [op : {"register", "login", "refresh", "required", "optional"}, email : Emails \cup {None},
   password : Passwords \cup {None}, token : Token \cup {Garbage, NoCredentials},
   at : 0..MaxTime, gone : SUBSET Ids]

ASSUME NoneAssumption == None \notin UserRecord \cup Request

Active(u) == users[u] # None /\ users[u].is_active

Inactive == {u \in Ids : users[u] # None /\ ~users[u].is_active}

Init ==
  /\ now = 0
  /\ users = [u \in Ids |-> None]
  /\ tokens = {}
  /\ logins = {}
  /\ pc = [r \in Requests |-> "new"]
  /\ req = [r \in Requests |-> None]
  /\ user = [r \in Requests |-> None]
  /\ minted = [r \in Requests |-> 0]

InFlight == {"insert", "get_by_email", "verify", "mint_refresh", "get_by_id", "mint_access"}

Goto(r, label) == pc' = [pc EXCEPT ![r] = label]

Arrive(r, op, e, p, t) ==
  /\ pc[r] = "new"
  /\ Cardinality({s \in Requests : pc[s] \in InFlight}) < MaxConcurrent
  /\ req' = [req EXCEPT ![r] = [op |-> op, email |-> e, password |-> p, token |-> t,
                                at |-> now, gone |-> Inactive]]
  /\ UNCHANGED <<now, users, tokens, logins, user, minted>>

\* min_length of the schema, whose failure FastAPI answers with 422; the service
\* checks the same length again.
Acceptable(p) == p \notin ShortPasswords

Register(r, e, p) ==
  /\ Arrive(r, "register", e, p, NoCredentials)
  /\ Goto(r, IF Acceptable(p) THEN "insert" ELSE "422")

\* Mutant: the table has no UNIQUE (email), inactive rows do not count.
EmailTakenByActive(e) == \E u \in Ids : Active(u) /\ users[u].email = e

\* users_email_unique covers inactive rows too.
EmailTaken(e) == \E u \in Ids : users[u] # None /\ users[u].email = e

\* INSERT ... RETURNING, and the commit, whose confirmation may be lost.
InsertUser(r) ==
  /\ pc[r] = "insert"
  /\ \/ /\ EmailTaken(req[r].email)
        /\ Goto(r, "409")
        /\ UNCHANGED users
     \/ /\ ~EmailTaken(req[r].email)
        /\ \E u \in Ids :
             /\ users[u] = None
             /\ users' = [users EXCEPT ![u] =
                  [email |-> req[r].email, is_active |-> TRUE,
                   password_hash |-> hash_password(req[r].password)]]
        /\ \E answer \in {"201", "500"} : Goto(r, answer)
  /\ UNCHANGED <<now, tokens, logins, req, user, minted>>

Login(r, e, p) ==
  /\ Arrive(r, "login", e, p, NoCredentials)
  /\ Goto(r, "get_by_email")

\* The id stands for the record read: its email and hash never change.
GetByEmail(r) ==
  /\ pc[r] = "get_by_email"
  /\ \/ \E u \in Ids :
          /\ Active(u) /\ users[u].email = req[r].email
          /\ user' = [user EXCEPT ![r] = u]
          /\ Goto(r, "verify")
     \/ /\ ~\E u \in Ids : Active(u) /\ users[u].email = req[r].email
        /\ Goto(r, "401")
        /\ UNCHANGED user
  /\ UNCHANGED <<now, users, tokens, logins, req, minted>>

\* Mutant: a login whose password is not compared.
AnyPassword(r) == TRUE

PasswordMatches(r) == verify_password(req[r].password, users[user[r]].password_hash)

\* verify_password, then create_access_token reads the clock.
Verify(r) ==
  /\ pc[r] = "verify"
  /\ IF PasswordMatches(r)
     THEN Goto(r, "mint_refresh") /\ minted' = [minted EXCEPT ![r] = now]
     ELSE Goto(r, "401") /\ UNCHANGED minted
  /\ UNCHANGED <<now, users, tokens, logins, req, user>>

\* create_refresh_token reads the clock again; both tokens are returned.
MintRefresh(r) ==
  /\ pc[r] = "mint_refresh"
  /\ tokens' = tokens \cup {create_token(user[r], "access", minted[r], req[r].at),
                            create_token(user[r], "refresh", now, req[r].at)}
  /\ logins' = logins \cup {[id |-> user[r], email |-> req[r].email,
                             password |-> req[r].password, at |-> now]}
  /\ Goto(r, "200")
  /\ UNCHANGED <<now, users, req, user, minted>>

\* Mutant: either type of token is accepted everywhere.
DecodesAnyType(t, type) == t \in tokens /\ t.exp > now

\* Mutant: no expiry is checked.
DecodesExpired(t, type) == t \in tokens /\ t.type = type

\* decode_token: signed here, not expired, of the expected type.
Decodes(t, type) == t \in tokens /\ t.exp > now /\ t.type = type

\* Mutant: the optional dependency treats an invalid token as no token.
InvalidIsAnonymous(op) == IF op = "optional" THEN "anonymous" ELSE "401"

\* Every endpoint answers 401 to a token it cannot decode.
InvalidToken(op) == "401"

Refresh(r, t) ==
  /\ Arrive(r, "refresh", None, None, t)
  /\ Goto(r, IF Decodes(t, "refresh") THEN "get_by_id" ELSE InvalidToken("refresh"))

\* get_current_user (required) and get_current_user_optional.
Authenticate(r, op, t) ==
  /\ Arrive(r, op, None, None, t)
  /\ \/ /\ t = NoCredentials
        /\ Goto(r, IF op = "optional" THEN "anonymous" ELSE "401")
     \/ /\ t # NoCredentials
        /\ Goto(r, IF Decodes(t, "access") THEN "get_by_id" ELSE InvalidToken(op))

\* Mutant: the is_active filter is missing.
FoundAnyById(u) == users[u] # None

FoundById(u) == Active(u)

\* get_by_id of the token's sub, and what the caller makes of None.
GetById(r) ==
  /\ pc[r] = "get_by_id"
  /\ IF FoundById(req[r].token.sub)
     THEN /\ user' = [user EXCEPT ![r] = req[r].token.sub]
          /\ Goto(r, IF req[r].op = "refresh" THEN "mint_access" ELSE "authenticated")
     ELSE /\ Goto(r, IF req[r].op = "optional" THEN "anonymous" ELSE "401")
          /\ UNCHANGED user
  /\ UNCHANGED <<now, users, tokens, logins, req, minted>>

\* refresh ends with create_access_token; the refresh token is not rotated.
MintAccess(r) ==
  /\ pc[r] = "mint_access"
  /\ tokens' = tokens \cup {create_token(user[r], "access", now, req[r].at)}
  /\ Goto(r, "200")
  /\ UNCHANGED <<now, users, logins, req, user, minted>>

\* A database error or the death of the process: nothing is delivered.
Fail(r) ==
  /\ pc[r] \in InFlight
  /\ Goto(r, "500")
  /\ UNCHANGED <<now, users, tokens, logins, req, user, minted>>

\* An operator clears is_active; no code of the backend does.
Deactivate(u) ==
  /\ Active(u)
  /\ users' = [users EXCEPT ![u] = [email |-> @.email, is_active |-> FALSE,
                                    password_hash |-> @.password_hash]]
  /\ UNCHANGED <<now, tokens, logins, pc, req, user, minted>>

Tick ==
  /\ now < MaxTime
  /\ now' = now + 1
  /\ UNCHANGED <<users, tokens, logins, pc, req, user, minted>>

Next ==
  \/ \E r \in Requests :
       \/ \E e \in Emails, p \in Passwords : Register(r, e, p) \/ Login(r, e, p)
       \/ \E t \in tokens \cup {Garbage} : Refresh(r, t)
       \/ \E t \in tokens \cup {Garbage, NoCredentials}, op \in {"required", "optional"} :
            Authenticate(r, op, t)
       \/ InsertUser(r) \/ GetByEmail(r) \/ Verify(r) \/ MintRefresh(r)
       \/ GetById(r) \/ MintAccess(r) \/ Fail(r)
  \/ \E u \in Ids : Deactivate(u)
  \/ Tick

Spec == Init /\ [][Next]_vars

-----------------------------------------------------------------------------
(* Properties.                                                             *)

TypeOK ==
  /\ now \in 0..MaxTime
  /\ users \in [Ids -> UserRecord \cup {None}]
  /\ tokens \subseteq Token
  /\ logins \subseteq [id : Ids, email : Emails, password : Passwords, at : 0..MaxTime]
  /\ pc \in [Requests -> InFlight \cup {"new", "200", "201", "422", "401", "409", "500",
                                        "authenticated", "anonymous"}]
  /\ req \in [Requests -> Request \cup {None}]
  /\ user \in [Requests -> Ids \cup {None}]
  /\ minted \in [Requests -> 0..MaxTime]

\* A login that gave the email and the password of the account it entered.
Proven(l) == /\ users[l.id] # None
             /\ users[l.id].email = l.email
             /\ verify_password(l.password, users[l.id].password_hash)

\* t goes back to a proven login of its own account, and was asked for before
\* that login's refresh token expired.
Descends(t) == \E l \in logins : l.id = t.sub /\ Proven(l) /\ t.asked < l.at + RefreshTtl

\* Sessions end: whatever chain of logins and refreshes a client runs, every
\* token it gets was asked for less than REFRESH_TOKEN_EXPIRE_DAYS after a login
\* with the account's own password.  No sequence of refreshes renews itself.
SessionsEnd == \A t \in tokens : Descends(t)

\* A request is authenticated only as a user to whom an access token was issued
\* less than ACCESS_TOKEN_EXPIRE_MINUTES before the request, in a live session.
BearerIsFresh ==
  \A r \in Requests : pc[r] = "authenticated" =>
    \E t \in tokens : /\ t.type = "access" /\ t.sub = user[r] /\ Descends(t)
                      /\ req[r].at < t.iat + AccessTtl

\* Deactivation takes effect at once: no request that arrives after it is
\* authenticated as that account or gets a token for it, however fresh its token.
DeactivationEnds ==
  \A r \in Requests : pc[r] \in {"200", "authenticated"} => user[r] \notin req[r].gone

\* A token that is presented is never treated as no token, with one exception:
\* the optional dependency, when the account was deactivated.
AnonymousOnlyIfGone ==
  \A r \in Requests : pc[r] = "anonymous" /\ req[r].token # NoCredentials =>
    /\ req[r].token \in tokens
    /\ req[r].token.type = "access" /\ req[r].at < req[r].token.exp
    /\ req[r].token.sub \in Inactive

\* An email has one account for ever, that of the only registration answered
\* 201, even if requests race, commits are lost or the account is deactivated.
RegistrationExclusive ==
  /\ \A u, v \in Ids : users[u] # None /\ users[v] # None /\ users[u].email = users[v].email
       => u = v
  /\ \A r \in Requests : pc[r] = "201" =>
       /\ \E u \in Ids : /\ users[u] # None /\ users[u].email = req[r].email
                         /\ verify_password(req[r].password, users[u].password_hash)
       /\ \A s \in Requests : pc[s] = "201" /\ req[s].email = req[r].email => s = r

-----------------------------------------------------------------------------
(* The inductive invariant behind them.                                    *)

\* Clock readings are in order, and a refresh token carries its login's clock.
TokensSound ==
  \A t \in tokens :
    /\ t.asked <= t.iat /\ t.iat <= now /\ t.exp = t.iat + Ttl(t.type)
    /\ users[t.sub] # None
    /\ t.type = "refresh" => \E l \in logins : l.id = t.sub /\ l.at = t.iat

\* What a request in flight knows of its account, and of its token.
RequestSound(r) ==
  /\ minted[r] <= now
  /\ pc[r] # "new" => /\ req[r] # None
                      /\ req[r].at <= now
                      /\ req[r].gone \subseteq Inactive
  /\ pc[r] \in {"insert", "201"} => req[r].op = "register"
  /\ pc[r] \in {"get_by_email", "verify", "mint_refresh"} => req[r].op = "login"
  /\ pc[r] \in {"insert", "201", "get_by_email", "verify", "mint_refresh"} =>
       req[r].email \in Emails /\ req[r].password \in Passwords
  /\ pc[r] \in {"verify", "mint_refresh", "mint_access", "200", "authenticated"} =>
       user[r] \in Ids /\ user[r] \notin req[r].gone /\ users[user[r]] # None
  /\ pc[r] \in {"verify", "mint_refresh"} => users[user[r]].email = req[r].email
  /\ pc[r] = "mint_refresh" =>
       /\ req[r].at <= minted[r]
       /\ verify_password(req[r].password, users[user[r]].password_hash)
  /\ pc[r] \in {"get_by_id", "mint_access", "authenticated"} =>
       /\ req[r].token \in tokens /\ req[r].at < req[r].token.exp
       /\ req[r].op \in {"refresh", "required", "optional"}
       /\ req[r].token.type = IF req[r].op = "refresh" THEN "refresh" ELSE "access"
  /\ pc[r] \in {"mint_access", "authenticated"} => user[r] = req[r].token.sub
  /\ pc[r] = "mint_access" => req[r].op = "refresh"
  /\ pc[r] = "authenticated" => req[r].op \in {"required", "optional"}

IndInv ==
  /\ TypeOK
  /\ TokensSound
  /\ \A r \in Requests : RequestSound(r)
  /\ \A l \in logins : Proven(l) /\ l.at <= now
  /\ SessionsEnd
  /\ AnonymousOnlyIfGone
  /\ RegistrationExclusive

=============================================================================
