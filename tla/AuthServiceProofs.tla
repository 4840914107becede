------------------------- MODULE AuthServiceProofs -------------------------
(***************************************************************************)
(* Proof that the invariants of AuthService hold for any number of         *)
(* requests, accounts and passwords, any life times of the tokens and any  *)
(* bound on the clock.                                                     *)
(*                                                                         *)
(* Rows, tokens, logins and the clock only grow, so what is known of a     *)
(* request stays true while it waits; the steps below check, action by     *)
(* action, what the acting request learns.                                 *)
(***************************************************************************)
EXTENDS AuthService, TLAPS

\* The steps of one request.
RequestStep(r) ==
  \/ \E e \in Emails, p \in Passwords : Register(r, e, p) \/ Login(r, e, p)
  \/ \E t \in tokens \cup {Garbage} : Refresh(r, t)
  \/ \E t \in tokens \cup {Garbage, NoCredentials}, op \in {"required", "optional"} :
       Authenticate(r, op, t)
  \/ InsertUser(r) \/ GetByEmail(r) \/ Verify(r) \/ MintRefresh(r)
  \/ GetById(r) \/ MintAccess(r) \/ Fail(r)

\* What no step takes back.
Grows ==
  /\ now <= now'
  /\ tokens \subseteq tokens'
  /\ logins \subseteq logins'
  /\ \A u \in Ids : users[u] # None =>
       /\ users'[u] # None
       /\ users'[u].email = users[u].email
       /\ users'[u].password_hash = users[u].password_hash
       /\ ~users[u].is_active => ~users'[u].is_active

\* The step leaves request r alone.
Same(r) ==
  /\ pc'[r] = pc[r] /\ req'[r] = req[r] /\ user'[r] = user[r] /\ minted'[r] = minted[r]

\* The records that steps build have the types declared for them.
LEMMA RecordTypes ==
  /\ \A u \in Ids, type \in {"access", "refresh"}, i, a \in 0..MaxTime :
       create_token(u, type, i, a) \in Token
  /\ \A e \in Emails, p \in Passwords, b \in BOOLEAN :
       [email |-> e, is_active |-> b, password_hash |-> hash_password(p)] \in UserRecord
BY AuthAssumption DEF create_token, Token, Ttl, UserRecord, hash_password

\* Every step keeps the types.
LEMMA TypeStep ==
  ASSUME TypeOK, \A r \in Requests : RequestSound(r), [Next]_vars
  PROVE  TypeOK'
<1> USE AuthAssumption
<1>1. CASE UNCHANGED vars
  BY <1>1 DEF vars, TypeOK
<1>2. ASSUME NEW r \in Requests, RequestStep(r) PROVE TypeOK'
  <2>1. ASSUME NEW op \in {"register", "login", "refresh", "required", "optional"},
               NEW e \in Emails \cup {None}, NEW p \in Passwords \cup {None},
               NEW t \in tokens \cup {Garbage, NoCredentials},
               NEW l \in {"422", "401", "insert", "get_by_email", "get_by_id", "anonymous"},
               Arrive(r, op, e, p, t), Goto(r, l)
        PROVE  TypeOK'
    <3>1. [op |-> op, email |-> e, password |-> p, token |-> t, at |-> now,
           gone |-> Inactive] \in Request
      BY DEF TypeOK, Request, Inactive
    <3> QED BY <2>1, <3>1 DEF Arrive, Goto, TypeOK, InFlight
  <2>2. CASE \E e \in Emails, p \in Passwords : Register(r, e, p) \/ Login(r, e, p)
    BY <2>1, <2>2 DEF Register, Login
  <2>3. CASE \E t \in tokens \cup {Garbage} : Refresh(r, t)
    BY <2>1, <2>3 DEF Refresh, InvalidToken
  <2>4. CASE \E t \in tokens \cup {Garbage, NoCredentials}, op \in {"required", "optional"} :
               Authenticate(r, op, t)
    <3>1. PICK t \in tokens \cup {Garbage, NoCredentials}, op \in {"required", "optional"} :
                 Authenticate(r, op, t)
      BY <2>4
    <3>2. PICK l \in {"401", "get_by_id", "anonymous"} : Goto(r, l)
      BY <3>1 DEF Authenticate, InvalidToken
    <3>3. Arrive(r, op, None, None, t)
      BY <3>1 DEF Authenticate
    <3>4. op \in {"register", "login", "refresh", "required", "optional"}
      OBVIOUS
    <3> HIDE DEF TypeOK
    <3> QED BY <2>1, <3>2, <3>3, <3>4
  <2>5. CASE InsertUser(r)
    <3>1. req[r].email \in Emails /\ req[r].password \in Passwords
      BY <2>5 DEF InsertUser, RequestSound
    <3>2. users' \in [Ids -> UserRecord \cup {None}]
      <4>1. CASE UNCHANGED users
        BY <4>1 DEF TypeOK
      <4>2. ASSUME NEW u \in Ids,
                   users' = [users EXCEPT ![u] =
                     [email |-> req[r].email, is_active |-> TRUE,
                      password_hash |-> hash_password(req[r].password)]]
            PROVE  users' \in [Ids -> UserRecord \cup {None}]
        <5>1. [email |-> req[r].email, is_active |-> TRUE,
               password_hash |-> hash_password(req[r].password)] \in UserRecord
          BY <3>1, RecordTypes
        <5> QED BY <4>2, <5>1 DEF TypeOK
      <4> QED BY <2>5, <4>1, <4>2 DEF InsertUser
    <3>3. pc' = [pc EXCEPT ![r] = "409"] \/ pc' = [pc EXCEPT ![r] = "201"]
            \/ pc' = [pc EXCEPT ![r] = "500"]
      BY <2>5 DEF InsertUser, Goto
    <3> QED BY <2>5, <3>2, <3>3 DEF InsertUser, TypeOK
  <2>6. CASE GetByEmail(r)
    BY <2>6 DEF GetByEmail, Goto, TypeOK, InFlight
  <2>7. CASE Verify(r)
    BY <2>7 DEF Verify, Goto, TypeOK, InFlight
  <2>8. CASE MintRefresh(r)
    <3>1. /\ req[r].email \in Emails /\ req[r].password \in Passwords
          /\ user[r] \in Ids /\ req[r] \in Request /\ req[r].at \in 0..MaxTime
      BY <2>8 DEF MintRefresh, TypeOK, RequestSound, Request
    <3> QED BY <2>8, <3>1, RecordTypes DEF MintRefresh, Goto, TypeOK, InFlight
  <2>9. CASE GetById(r)
    BY <2>9 DEF GetById, Goto, TypeOK, RequestSound, InFlight, Token
  <2>10. CASE MintAccess(r)
    <3>1. user[r] \in Ids /\ req[r] \in Request /\ req[r].at \in 0..MaxTime
      BY <2>10 DEF MintAccess, TypeOK, RequestSound, Request
    <3> QED BY <2>10, <3>1, RecordTypes DEF MintAccess, Goto, TypeOK, InFlight
  <2>11. CASE Fail(r)
    BY <2>11 DEF Fail, Goto, TypeOK
  <2> QED BY <1>2, <2>2, <2>3, <2>4, <2>5, <2>6, <2>7, <2>8, <2>9, <2>10, <2>11
          DEF RequestStep
<1>3. ASSUME NEW u \in Ids, Deactivate(u) PROVE TypeOK'
  <2>1. [email |-> users[u].email, is_active |-> FALSE,
         password_hash |-> users[u].password_hash] \in UserRecord
    BY <1>3 DEF Deactivate, Active, TypeOK, UserRecord
  <2> QED BY <1>3, <2>1 DEF Deactivate, TypeOK
<1>4. CASE Tick
  BY <1>4 DEF Tick, TypeOK
<1> QED BY <1>1, <1>2, <1>3, <1>4 DEF Next, RequestStep


\* No step takes back a row, a token, a login or a tick of the clock.
LEMMA GrowsStep ==
  ASSUME TypeOK, [Next]_vars
  PROVE  Grows
<1> USE AuthAssumption
<1>1. CASE UNCHANGED vars
  BY <1>1 DEF vars, TypeOK, Grows
<1>2. ASSUME NEW r \in Requests, RequestStep(r), ~InsertUser(r) PROVE Grows
  <2>1. now' = now /\ users' = users /\ tokens \subseteq tokens' /\ logins \subseteq logins'
    BY <1>2 DEF RequestStep, Register, Login, Refresh, Authenticate, Arrive, GetByEmail,
       Verify, MintRefresh, GetById, MintAccess, Fail
  <2> QED BY <2>1 DEF Grows, TypeOK
<1>3. ASSUME NEW r \in Requests, InsertUser(r) PROVE Grows
  BY <1>3 DEF InsertUser, Grows, TypeOK
<1>4. ASSUME NEW u \in Ids, Deactivate(u) PROVE Grows
  <2>1. /\ users[u] \in UserRecord /\ now' = now /\ tokens' = tokens /\ logins' = logins
        /\ users' = [users EXCEPT ![u] = [email |-> users[u].email, is_active |-> FALSE,
                                          password_hash |-> users[u].password_hash]]
    BY <1>4 DEF Deactivate, Active, TypeOK
  <2>2. ASSUME NEW v \in Ids, users[v] # None
        PROVE  /\ users'[v] # None
               /\ users'[v].email = users[v].email
               /\ users'[v].password_hash = users[v].password_hash
               /\ ~users[v].is_active => ~users'[v].is_active
    <3>1. CASE v = u
      <4>1. users'[v] = [email |-> users[v].email, is_active |-> FALSE,
                         password_hash |-> users[v].password_hash]
        BY <2>1, <3>1 DEF TypeOK
      <4>2. users'[v] \in UserRecord
        BY <2>1, <3>1, <4>1 DEF UserRecord
      <4>3. users'[v].is_active = FALSE
        BY <4>1
      <4>4. users'[v] # None
        BY <4>2, NoneAssumption
      <4>5. users'[v].email = users[v].email /\ users'[v].password_hash = users[v].password_hash
        BY <4>1
      <4> QED BY <4>3, <4>4, <4>5, Zenon
    <3>2. CASE v # u
      BY <2>1, <2>2, <3>2 DEF TypeOK
    <3> QED BY <3>1, <3>2
  <2> QED BY <2>1, <2>2 DEF Grows, TypeOK
<1>5. CASE Tick
  BY <1>5 DEF Tick, Grows, TypeOK
<1> QED BY <1>1, <1>2, <1>3, <1>4, <1>5 DEF Next, RequestStep

\* A step of one request leaves the others alone; other steps leave all alone.
LEMMA OthersSame ==
  ASSUME TypeOK, NEW r \in Requests, RequestStep(r), NEW q \in Requests, q # r
  PROVE  Same(q)
BY DEF RequestStep, Register, Login, Refresh, Authenticate, Arrive, InsertUser, GetByEmail,
   Verify, MintRefresh, GetById, MintAccess, Fail, Goto, Same, TypeOK

\* What is known of a request stays true while it waits.
LEMMA SoundKept ==
  ASSUME TypeOK, TypeOK', Grows, NEW r \in Requests, RequestSound(r), Same(r)
  PROVE  RequestSound(r)'
<1> USE AuthAssumption
<1>1. Inactive \subseteq Inactive'
  BY DEF Grows, Inactive
<1>2. /\ now \in Nat /\ now' \in Nat /\ minted[r] \in Nat
      /\ req[r] # None => req[r].at \in Nat
  BY DEF TypeOK, Request
<1>3. tokens \subseteq Token /\ tokens' \subseteq Token
  BY DEF TypeOK
<1> QED BY <1>1, <1>2, <1>3 DEF Grows, Same, RequestSound, verify_password

\* What the acting request learns is true.
LEMMA ActorSound ==
  ASSUME IndInv, TypeOK', Grows, NEW r \in Requests, RequestStep(r)
  PROVE  RequestSound(r)'
<1> USE AuthAssumption
<1>0. TypeOK /\ TokensSound /\ RequestSound(r)
  BY DEF IndInv
<1>a. now \in Nat /\ now' \in Nat /\ minted[r] \in Nat
  BY <1>0 DEF TypeOK
<1>b. req[r] # None => req[r].at \in Nat /\ req[r] \in Request
  BY <1>0 DEF TypeOK, Request
<1>1. Inactive \subseteq Inactive'
  BY DEF Grows, Inactive
<1>2. ASSUME NEW op \in {"register", "login", "refresh", "required", "optional"},
             NEW e \in Emails \cup {None}, NEW p \in Passwords \cup {None},
             NEW t \in tokens \cup {Garbage, NoCredentials}, NEW l,
             Arrive(r, op, e, p, t), Goto(r, l)
      PROVE  /\ pc'[r] = l /\ tokens' = tokens /\ req'[r] # None
             /\ minted'[r] <= now' /\ req'[r].at <= now' /\ req'[r].gone \subseteq Inactive'
             /\ req'[r].op = op /\ req'[r].email = e /\ req'[r].password = p
             /\ req'[r].token = t /\ req'[r].at = now
  <2>1. req'[r] = [op |-> op, email |-> e, password |-> p, token |-> t, at |-> now,
                   gone |-> Inactive]
    BY <1>0, <1>2 DEF Arrive, TypeOK
  <2>2. req'[r] \in Request
    BY <1>0, <2>1 DEF TypeOK, Request, Inactive
  <2> QED BY <1>0, <1>a, <1>1, <1>2, <2>1, <2>2, NoneAssumption
          DEF Arrive, Goto, TypeOK, RequestSound
<1>3. CASE \E e \in Emails, p \in Passwords : Register(r, e, p) \/ Login(r, e, p)
  <2>1. PICK e \in Emails, p \in Passwords : Register(r, e, p) \/ Login(r, e, p)
    BY <1>3
  <2>2. CASE Register(r, e, p)
    <3>1. PICK l \in {"422", "insert"} : Goto(r, l)
      BY <2>2 DEF Register
    <3> QED BY <1>2, <2>2, <3>1 DEF Register, RequestSound
  <2>3. CASE Login(r, e, p)
    BY <1>2, <2>3 DEF Login, RequestSound
  <2> QED BY <2>1, <2>2, <2>3
<1>4. CASE \E t \in tokens \cup {Garbage} : Refresh(r, t)
  <2>1. PICK t \in tokens \cup {Garbage} : Refresh(r, t)
    BY <1>4
  <2>2. CASE Decodes(t, "refresh")
    <3>1. Goto(r, "get_by_id")
      BY <2>1, <2>2 DEF Refresh
    <3> QED BY <1>2, <2>1, <2>2, <3>1 DEF Refresh, RequestSound, Decodes
  <2>3. CASE ~Decodes(t, "refresh")
    <3>1. Goto(r, "401")
      BY <2>1, <2>3 DEF Refresh, InvalidToken
    <3> QED BY <1>2, <2>1, <3>1 DEF Refresh, RequestSound
  <2> QED BY <2>2, <2>3
<1>5. CASE \E t \in tokens \cup {Garbage, NoCredentials}, op \in {"required", "optional"} :
             Authenticate(r, op, t)
  <2>1. PICK t \in tokens \cup {Garbage, NoCredentials}, op \in {"required", "optional"} :
               Authenticate(r, op, t)
    BY <1>5
  <2>a. Arrive(r, op, None, None, t) /\ op \in {"register", "login", "refresh", "required", "optional"}
    BY <2>1 DEF Authenticate
  <2>2. CASE Decodes(t, "access") /\ Goto(r, "get_by_id")
    BY <1>2, <2>a, <2>2 DEF RequestSound, Decodes
  <2>3. CASE Goto(r, "401") \/ Goto(r, "anonymous")
    BY <1>2, <2>a, <2>3 DEF RequestSound
  <2> QED BY <2>1, <2>2, <2>3 DEF Authenticate, InvalidToken
<1>6. CASE InsertUser(r)
  <2>1. PICK l \in {"201", "409", "500"} : Goto(r, l)
    BY <1>6 DEF InsertUser
  <2> QED BY <1>0, <1>1, <1>6, <2>1 DEF InsertUser, Goto, RequestSound, TypeOK
<1>7. CASE GetByEmail(r)
  BY <1>0, <1>1, <1>7 DEF GetByEmail, Goto, RequestSound, TypeOK, Active, Inactive
<1>8. CASE Verify(r)
  BY <1>0, <1>1, <1>8 DEF Verify, Goto, RequestSound, TypeOK, PasswordMatches
<1>9. CASE MintRefresh(r)
  BY <1>0, <1>1, <1>9 DEF MintRefresh, Goto, RequestSound, TypeOK
<1>10. CASE GetById(r)
  <2>1. /\ req' = req /\ req[r] # None /\ tokens' = tokens /\ users' = users /\ minted' = minted
        /\ now' = now /\ req[r].token \in tokens /\ req[r].token.sub \in Ids
        /\ req[r].op \in {"refresh", "required", "optional"}
    BY <1>0, <1>10 DEF GetById, RequestSound, TypeOK, Token
  <2>2. CASE Active(req[r].token.sub)
    <3>1. /\ user'[r] = req[r].token.sub
          /\ pc'[r] = IF req[r].op = "refresh" THEN "mint_access" ELSE "authenticated"
      BY <1>0, <1>10, <2>2 DEF GetById, FoundById, Goto, TypeOK
    <3>2. users[user'[r]] # None /\ user'[r] \notin req[r].gone
      BY <1>0, <1>10, <2>1, <2>2, <3>1 DEF GetById, RequestSound, Active, Inactive
    <3> QED BY <1>0, <1>1, <1>10, <2>1, <3>1, <3>2 DEF GetById, RequestSound
  <2>3. CASE ~Active(req[r].token.sub)
    BY <1>0, <1>1, <1>10, <2>1, <2>3 DEF GetById, FoundById, Goto, RequestSound, TypeOK
  <2> QED BY <2>2, <2>3
<1>11. CASE MintAccess(r)
  BY <1>0, <1>1, <1>11 DEF MintAccess, Goto, RequestSound, TypeOK
<1>12. CASE Fail(r)
  BY <1>0, <1>1, <1>12 DEF Fail, InFlight, Goto, RequestSound, TypeOK
<1> QED BY <1>3, <1>4, <1>5, <1>6, <1>7, <1>8, <1>9, <1>10, <1>11, <1>12 DEF RequestStep

\* A login stays proven, and with it what descends from it.
LEMMA ProvenKept ==
  ASSUME TypeOK, Grows
  PROVE  /\ \A l \in logins : Proven(l) => Proven(l)'
         /\ \A t \in tokens : Descends(t) => Descends(t)'
<1>1. ASSUME NEW l \in logins, Proven(l) PROVE Proven(l)'
  <2>1. l.id \in Ids
    BY DEF TypeOK
  <2> QED BY <1>1, <2>1 DEF Proven, Grows, verify_password
<1>2. ASSUME NEW t \in tokens, Descends(t) PROVE Descends(t)'
  BY <1>1, <1>2 DEF Descends, Grows
<1> QED BY <1>1, <1>2

\* What a step must show of the tokens it adds: the others stay sound.
LEMMA TokensKept ==
  ASSUME IndInv, TypeOK', Grows,
         \A l \in logins' \ logins : Proven(l)' /\ l.at <= now',
         NEW t \in tokens
  PROVE  /\ t.asked <= t.iat /\ t.iat <= now' /\ t.exp = t.iat + Ttl(t.type)
         /\ users'[t.sub] # None
         /\ t.type = "refresh" => \E l \in logins' : l.id = t.sub /\ l.at = t.iat
         /\ Descends(t)'
<1>1. t \in Token /\ now \in Nat /\ now' \in Nat /\ t.iat \in Nat /\ t.sub \in Ids
  BY AuthAssumption DEF IndInv, TypeOK, Token
<1>2. Descends(t)'
  BY ProvenKept DEF IndInv, SessionsEnd
<1>3. /\ t.asked <= t.iat /\ t.iat <= now /\ t.exp = t.iat + Ttl(t.type)
      /\ users[t.sub] # None
      /\ t.type = "refresh" => \E l \in logins : l.id = t.sub /\ l.at = t.iat
  BY DEF IndInv, TokensSound
<1> QED BY <1>1, <1>2, <1>3 DEF Grows

\* Every token a step delivers is sound and belongs to a session that has not ended.
LEMMA TokensStep ==
  ASSUME IndInv, TypeOK', Grows, [Next]_vars
  PROVE  /\ TokensSound'
         /\ SessionsEnd'
         /\ (\A l \in logins : Proven(l) /\ l.at <= now)'
<1> USE AuthAssumption
<1>0. TypeOK /\ TokensSound /\ SessionsEnd /\ \A l \in logins : Proven(l) /\ l.at <= now
  BY DEF IndInv
<1>a. now \in Nat /\ now' \in Nat /\ now <= now' /\ \A l \in logins : l.at \in Nat
  BY <1>0 DEF TypeOK, Grows
<1>1. ASSUME \A l \in logins' \ logins : Proven(l)' /\ l.at <= now',
             \A t \in tokens' \ tokens :
               /\ t.asked <= t.iat /\ t.iat <= now' /\ t.exp = t.iat + Ttl(t.type)
               /\ users'[t.sub] # None
               /\ t.type = "refresh" => \E l \in logins' : l.id = t.sub /\ l.at = t.iat
               /\ Descends(t)'
      PROVE  TokensSound' /\ SessionsEnd' /\ (\A l \in logins : Proven(l) /\ l.at <= now)'
  <2>1. (\A l \in logins : Proven(l) /\ l.at <= now)'
    BY <1>0, <1>a, <1>1, ProvenKept
  <2> QED BY <1>1, <2>1, TokensKept DEF TokensSound, SessionsEnd
<1>2. ASSUME tokens' = tokens, logins' = logins
      PROVE  TokensSound' /\ SessionsEnd' /\ (\A l \in logins : Proven(l) /\ l.at <= now)'
  <2>1. (\A l \in logins : Proven(l) /\ l.at <= now)'
    BY <1>0, <1>a, <1>2, ProvenKept
  <2> QED BY <1>2, <2>1, TokensKept DEF TokensSound, SessionsEnd
<1>3. ASSUME NEW r \in Requests, MintRefresh(r)
      PROVE  TokensSound' /\ SessionsEnd' /\ (\A l \in logins : Proven(l) /\ l.at <= now)'
  <2>a. PICK l : l = [id |-> user[r], email |-> req[r].email, password |-> req[r].password,
                      at |-> now]
    OBVIOUS
  <2>b. PICK a : a = create_token(user[r], "access", minted[r], req[r].at)
    OBVIOUS
  <2>c. PICK f : f = create_token(user[r], "refresh", now, req[r].at)
    OBVIOUS
  <2>1. RequestSound(r) /\ pc[r] = "mint_refresh"
    BY <1>3 DEF IndInv, MintRefresh
  <2>2. /\ now' = now /\ users' = users /\ logins' = logins \cup {l} /\ tokens' = tokens \cup {a, f}
    BY <1>3, <2>a, <2>b, <2>c DEF MintRefresh
  <2>3. /\ users[user[r]] # None /\ users[user[r]].email = req[r].email
        /\ verify_password(req[r].password, users[user[r]].password_hash)
        /\ req[r].at <= minted[r] /\ minted[r] <= now /\ req[r] # None
    BY <2>1 DEF RequestSound
  <2>4. req[r].at \in Nat /\ minted[r] \in Nat
    BY <1>0, <2>3 DEF TypeOK, Request
  <2>5. Proven(l)'
    BY <2>a, <2>2, <2>3 DEF Proven, verify_password
  <2>6. /\ a.sub = user[r] /\ a.type = "access" /\ a.iat = minted[r] /\ a.asked = req[r].at
        /\ a.exp = a.iat + Ttl(a.type)
        /\ f.sub = user[r] /\ f.type = "refresh" /\ f.iat = now /\ f.asked = req[r].at
        /\ f.exp = f.iat + Ttl(f.type)
    BY <2>b, <2>c DEF create_token
  <2>7. l \in logins' /\ l.id = user[r] /\ l.at = now
    BY <2>a, <2>2
  <2>8. Descends(a)' /\ Descends(f)'
    BY <1>a, <2>3, <2>4, <2>5, <2>6, <2>7 DEF Descends
  <2>9. \A m \in logins' \ logins : Proven(m)' /\ m.at <= now'
    BY <1>a, <2>2, <2>5, <2>7
  <2>10. \A t \in {a, f} :
           /\ t.asked <= t.iat /\ t.iat <= now' /\ t.exp = t.iat + Ttl(t.type)
           /\ users'[t.sub] # None
           /\ t.type = "refresh" => \E m \in logins' : m.id = t.sub /\ m.at = t.iat
           /\ Descends(t)'
    BY <1>a, <2>2, <2>3, <2>4, <2>6, <2>7, <2>8
  <2> QED BY <1>1, <2>2, <2>9, <2>10
<1>4. ASSUME NEW r \in Requests, MintAccess(r)
      PROVE  TokensSound' /\ SessionsEnd' /\ (\A l \in logins : Proven(l) /\ l.at <= now)'
  <2>a. PICK a : a = create_token(user[r], "access", now, req[r].at)
    OBVIOUS
  <2>1. RequestSound(r) /\ pc[r] = "mint_access"
    BY <1>4 DEF IndInv, MintAccess
  <2>2. now' = now /\ users' = users /\ logins' = logins /\ tokens' = tokens \cup {a}
    BY <1>4, <2>a DEF MintAccess
  <2>3. /\ users[user[r]] # None /\ req[r].token \in tokens /\ req[r].at < req[r].token.exp
        /\ req[r].token.type = "refresh" /\ user[r] = req[r].token.sub
        /\ req[r] # None /\ req[r].at <= now
    BY <2>1 DEF RequestSound
  <2>4. req[r].at \in Nat
    BY <1>0, <2>3 DEF TypeOK, Request
  <2>5. PICK l \in logins : l.id = user[r] /\ l.at = req[r].token.iat
    BY <1>0, <2>3 DEF TokensSound
  <2>6. req[r].token.exp = l.at + RefreshTtl
    BY <1>0, <2>3, <2>5 DEF TokensSound, Ttl
  <2>7. /\ a.sub = user[r] /\ a.type = "access" /\ a.iat = now /\ a.asked = req[r].at
        /\ a.exp = a.iat + Ttl(a.type)
    BY <2>a DEF create_token
  <2>8. Descends(a)'
    BY <1>0, <2>2, <2>3, <2>5, <2>6, <2>7, ProvenKept DEF Descends
  <2> QED BY <1>1, <1>a, <2>2, <2>3, <2>4, <2>7, <2>8
<1>5. CASE UNCHANGED vars
  BY <1>2, <1>5 DEF vars
<1>6. ASSUME NEW r \in Requests, RequestStep(r), ~MintRefresh(r), ~MintAccess(r)
      PROVE  tokens' = tokens /\ logins' = logins
  BY <1>6 DEF RequestStep, Register, Login, Refresh, Authenticate, Arrive, InsertUser,
     GetByEmail, Verify, GetById, Fail
<1>7. CASE Tick \/ \E u \in Ids : Deactivate(u)
  BY <1>2, <1>7 DEF Tick, Deactivate
<1> QED BY <1>2, <1>3, <1>4, <1>5, <1>6, <1>7 DEF Next, RequestStep

\* A request goes on as anonymous only without a token or without an account.
LEMMA AnonymousStep ==
  ASSUME IndInv, Grows, [Next]_vars
  PROVE  AnonymousOnlyIfGone'
<1> DEFINE P(r) ==
      pc[r] = "anonymous" /\ req[r].token # NoCredentials =>
        /\ req[r].token \in tokens
        /\ req[r].token.type = "access" /\ req[r].at < req[r].token.exp
        /\ req[r].token.sub \in Inactive
<1>0. TypeOK /\ TokensSound /\ \A r \in Requests : RequestSound(r) /\ P(r)
  BY DEF IndInv, AnonymousOnlyIfGone
<1>1. Inactive \subseteq Inactive'
  BY DEF Grows, Inactive
<1>2. ASSUME NEW r \in Requests, Same(r) PROVE P(r)'
  BY <1>0, <1>1, <1>2 DEF Same, Grows
<1>3. ASSUME NEW r \in Requests, RequestStep(r) PROVE P(r)'
  <2>1. CASE GetById(r)
    <3>1. /\ req[r].token \in tokens /\ req[r].at < req[r].token.exp
          /\ req[r].token.type = IF req[r].op = "refresh" THEN "refresh" ELSE "access"
      BY <1>0, <2>1 DEF GetById, RequestSound
    <3>2. users[req[r].token.sub] # None /\ req[r].token.sub \in Ids
      BY <1>0, <3>1 DEF TokensSound, TypeOK, Token
    <3>3. pc'[r] = "anonymous" => req[r].op = "optional" /\ ~Active(req[r].token.sub)
      BY <1>0, <2>1 DEF GetById, FoundById, Goto, TypeOK
    <3> QED BY <1>1, <2>1, <3>1, <3>2, <3>3 DEF GetById, Active, Inactive
  <2>2. CASE \E t \in tokens \cup {Garbage, NoCredentials}, op \in {"required", "optional"} :
               Authenticate(r, op, t)
    <3>1. PICK t \in tokens \cup {Garbage, NoCredentials}, op \in {"required", "optional"} :
                 Authenticate(r, op, t)
      BY <2>2
    <3>2. req'[r].token = t
      BY <1>0, <3>1 DEF Authenticate, Arrive, TypeOK
    <3>3. t # NoCredentials => pc'[r] # "anonymous"
      BY <1>0, <3>1 DEF Authenticate, InvalidToken, Goto, TypeOK
    <3> QED BY <3>2, <3>3
  <2>3. CASE /\ ~GetById(r)
             /\ ~\E t \in tokens \cup {Garbage, NoCredentials}, op \in {"required", "optional"} :
                  Authenticate(r, op, t)
    <3>1. pc'[r] # "anonymous"
      BY <1>0, <1>3, <2>3 DEF RequestStep, Register, Login, Refresh, InvalidToken, InsertUser,
         GetByEmail, Verify, MintRefresh, MintAccess, Fail, Goto, TypeOK
    <3> QED BY <3>1
  <2> QED BY <2>1, <2>2, <2>3
<1>4. ASSUME NEW r \in Requests PROVE P(r)'
  <2>1. ASSUME NEW q \in Requests, RequestStep(q) PROVE P(r)'
    <3>1. CASE q = r
      BY <1>3, <2>1, <3>1
    <3>2. CASE q # r
      BY <1>0, <1>2, <2>1, <3>2, OthersSame
    <3> QED BY <3>1, <3>2
  <2>2. CASE Tick \/ (\E u \in Ids : Deactivate(u)) \/ UNCHANGED vars
    BY <1>2, <2>2 DEF Tick, Deactivate, vars, Same
  <2> QED BY <2>1, <2>2 DEF Next, RequestStep
<1> QED BY <1>4 DEF AnonymousOnlyIfGone

\* No step gives an email a second account or a second registration.
LEMMA RegistrationStep ==
  ASSUME IndInv, TypeOK', Grows, [Next]_vars
  PROVE  RegistrationExclusive'
<1>0. TypeOK /\ RegistrationExclusive
  BY DEF IndInv
<1>1. ASSUME \A u \in Ids : users'[u] # None =>
               users[u] # None /\ users'[u].email = users[u].email,
             \A r \in Requests : pc'[r] = "201" => pc[r] = "201" /\ req'[r] = req[r]
      PROVE  RegistrationExclusive'
  BY <1>0, <1>1 DEF RegistrationExclusive, Grows, verify_password
<1>2. ASSUME NEW r \in Requests, RequestStep(r), ~InsertUser(r) PROVE RegistrationExclusive'
  <2>1. users' = users
    BY <1>2 DEF RequestStep, Register, Login, Refresh, Authenticate, Arrive, GetByEmail,
       Verify, MintRefresh, GetById, MintAccess, Fail
  <2>2. pc'[r] # "201"
    BY <1>0, <1>2 DEF RequestStep, Register, Login, Refresh, Authenticate, InvalidToken,
       GetByEmail, Verify, MintRefresh, GetById, MintAccess, Fail, Goto, TypeOK
  <2>3. \A q \in Requests : q # r => Same(q)
    BY <1>0, <1>2, OthersSame
  <2> QED BY <1>1, <2>1, <2>2, <2>3 DEF Same
<1>3. ASSUME NEW r \in Requests, InsertUser(r) PROVE RegistrationExclusive'
  <2>1. CASE Goto(r, "409") /\ UNCHANGED users
    BY <1>0, <1>1, <1>3, <2>1 DEF InsertUser, Goto, TypeOK
  <2>2. ASSUME NEW u \in Ids, users[u] = None, ~EmailTaken(req[r].email),
               users' = [users EXCEPT ![u] =
                 [email |-> req[r].email, is_active |-> TRUE,
                  password_hash |-> hash_password(req[r].password)]]
        PROVE  RegistrationExclusive'
    <3>1. /\ \A v \in Ids : v # u => users'[v] = users[v]
          /\ users'[u].email = req[r].email
          /\ verify_password(req[r].password, users'[u].password_hash)
      BY <1>0, <2>2 DEF TypeOK, verify_password
    <3>2. \A v \in Ids : users[v] # None => users[v].email # req[r].email
      BY <2>2 DEF EmailTaken
    <3>3. \A q \in Requests : q # r => pc'[q] = pc[q]
      BY <1>0, <1>3 DEF InsertUser, Goto, TypeOK
    <3>4. req' = req
      BY <1>3 DEF InsertUser
    <3>5. users'[u] # None
      <4>1. req[r].email \in Emails /\ req[r].password \in Passwords
        BY <1>3 DEF IndInv, InsertUser, RequestSound
      <4>2. users'[u] \in UserRecord
        BY <1>0, <2>2, <4>1, RecordTypes DEF TypeOK
      <4> QED BY <4>2, NoneAssumption
    <3>6. \A v, w \in Ids : /\ users'[v] # None /\ users'[w] # None
                             /\ users'[v].email = users'[w].email
            => v = w
      BY <1>0, <3>1, <3>2 DEF RegistrationExclusive
    <3>7. ASSUME NEW q \in Requests, pc'[q] = "201"
          PROVE  \E v \in Ids : /\ users'[v] # None /\ users'[v].email = req[q].email
                                /\ verify_password(req[q].password, users'[v].password_hash)
      <4>1. CASE q = r
        BY <3>1, <3>5, <4>1
      <4>2. CASE q # r
        BY <1>0, <2>2, <3>1, <3>3, <3>7, <4>2 DEF RegistrationExclusive
      <4> QED BY <4>1, <4>2
    <3>8. ASSUME NEW q \in Requests, NEW s \in Requests, pc'[q] = "201", pc'[s] = "201",
                 req[s].email = req[q].email
          PROVE  s = q
      <4>1. \A z \in Requests : z # r /\ pc'[z] = "201" => req[z].email # req[r].email
        BY <1>0, <3>2, <3>3 DEF RegistrationExclusive
      <4> QED BY <1>0, <3>3, <3>8, <4>1 DEF RegistrationExclusive
    <3> QED BY <3>4, <3>6, <3>7, <3>8 DEF RegistrationExclusive
  <2> QED BY <1>3, <2>1, <2>2 DEF InsertUser
<1>4. ASSUME NEW u \in Ids, Deactivate(u) PROVE RegistrationExclusive'
  <2>1. \A v \in Ids : users'[v] # None => users[v] # None
    BY <1>0, <1>4 DEF Deactivate, Active, TypeOK
  <2>2. \A v \in Ids : users[v] # None => users'[v].email = users[v].email
    BY DEF Grows
  <2>3. pc' = pc /\ req' = req
    BY <1>4 DEF Deactivate
  <2> QED BY <1>1, <2>1, <2>2, <2>3
<1>5. CASE Tick \/ UNCHANGED vars
  BY <1>1, <1>5 DEF Tick, vars
<1> QED BY <1>2, <1>3, <1>4, <1>5 DEF Next, RequestStep

\* The inductive invariant holds in every state, whatever interleaving of
\* requests, deactivations, failures and ticks leads to it.
THEOREM Invariance == Spec => []IndInv
<1>1. Init => IndInv
  <2> SUFFICES ASSUME Init PROVE IndInv
    OBVIOUS
  <2>1. TypeOK
    BY AuthAssumption DEF Init, TypeOK
  <2>2. \A r \in Requests : RequestSound(r)
    BY DEF Init, RequestSound
  <2> QED BY <2>1, <2>2 DEF Init, IndInv, TokensSound, SessionsEnd, AnonymousOnlyIfGone,
          RegistrationExclusive
<1>2. IndInv /\ [Next]_vars => IndInv'
  <2> SUFFICES ASSUME IndInv, [Next]_vars PROVE IndInv'
    OBVIOUS
  <2>1. TypeOK /\ \A r \in Requests : RequestSound(r)
    BY DEF IndInv
  <2>2. TypeOK' /\ Grows
    BY <2>1, TypeStep, GrowsStep
  <2>3. ASSUME NEW r \in Requests PROVE RequestSound(r)'
    <3>1. ASSUME NEW q \in Requests, RequestStep(q) PROVE RequestSound(r)'
      <4>1. CASE q = r
        BY <2>2, <3>1, <4>1, ActorSound
      <4>2. CASE q # r
        BY <2>1, <2>2, <3>1, <4>2, OthersSame, SoundKept
      <4> QED BY <4>1, <4>2
    <3>2. CASE Tick \/ (\E u \in Ids : Deactivate(u)) \/ UNCHANGED vars
      <4>1. Same(r)
        BY <3>2 DEF Tick, Deactivate, vars, Same
      <4> QED BY <2>1, <2>2, <4>1, SoundKept
    <3> QED BY <3>1, <3>2 DEF Next, RequestStep
  <2> QED BY <2>2, <2>3, TokensStep, AnonymousStep, RegistrationStep DEF IndInv
<1> QED BY <1>1, <1>2, PTL DEF Spec

\* Sessions end: no chain of refreshes outlives the login it began with by
\* REFRESH_TOKEN_EXPIRE_DAYS.
THEOREM SessionsEndHolds == Spec => []SessionsEnd
<1>1. IndInv => SessionsEnd
  BY DEF IndInv
<1> QED BY <1>1, Invariance, PTL

\* A bearer token authenticates only within ACCESS_TOKEN_EXPIRE_MINUTES of its issue.
THEOREM BearerIsFreshHolds == Spec => []BearerIsFresh
<1>1. IndInv => BearerIsFresh
  <2> SUFFICES ASSUME IndInv, NEW r \in Requests, pc[r] = "authenticated"
               PROVE  \E t \in tokens : /\ t.type = "access" /\ t.sub = user[r] /\ Descends(t)
                                        /\ req[r].at < t.iat + AccessTtl
    BY DEF BearerIsFresh
  <2>1. /\ req[r].token \in tokens /\ req[r].at < req[r].token.exp
        /\ req[r].token.type = "access" /\ user[r] = req[r].token.sub
    BY DEF IndInv, RequestSound
  <2>2. req[r].token.exp = req[r].token.iat + AccessTtl
    BY <2>1 DEF IndInv, TokensSound, Ttl
  <2>3. Descends(req[r].token)
    BY <2>1 DEF IndInv, SessionsEnd
  <2> QED BY <2>1, <2>2, <2>3
<1> QED BY <1>1, Invariance, PTL

\* No request that arrives after a deactivation acts for the account.
THEOREM DeactivationEndsHolds == Spec => []DeactivationEnds
<1>1. IndInv => DeactivationEnds
  BY DEF IndInv, RequestSound, DeactivationEnds
<1> QED BY <1>1, Invariance, PTL

\* A token presented to the optional dependency is ignored only if the account
\* it was issued for is inactive.
THEOREM AnonymousOnlyIfGoneHolds == Spec => []AnonymousOnlyIfGone
<1>1. IndInv => AnonymousOnlyIfGone
  BY DEF IndInv
<1> QED BY <1>1, Invariance, PTL

\* Racing registrations, lost commits and deactivations never give an email a
\* second account or a second success.
THEOREM RegistrationExclusiveHolds == Spec => []RegistrationExclusive
<1>1. IndInv => RegistrationExclusive
  BY DEF IndInv
<1> QED BY <1>1, Invariance, PTL

=============================================================================
