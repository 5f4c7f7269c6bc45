------------------------------ MODULE Accounts ------------------------------
(***************************************************************************)
(* Who is who: sign-in with Google, accounts, browser sessions and         *)
(* personal access tokens.                                                 *)
(*                                                                         *)
(* The callback of a sign-in consumes its state nonce in Redis, exchanges  *)
(* the code, and then looks for the account, updates or inserts it, and    *)
(* inserts a session, each in a statement of its own.  Every other request *)
(* first goes through the middleware, which looks up the session or token  *)
(* and then the account.                                                   *)
(***************************************************************************)
EXTENDS Integers, Sequences, FiniteSets

CONSTANTS
    People,      \* Google accounts: the sub claim
    Addresses,   \* e-mail addresses
    Nonces,      \* values of the state parameter
    Procs,       \* requests in flight at once
    ClientOps,   \* the operations in use
    MaxUsers, MaxSessions, MaxTokens,  \* bounds on the rows inserted
    None

ASSUME AccountsAssumption ==
    /\ MaxUsers \in Nat /\ MaxSessions \in Nat /\ MaxTokens \in Nat
    /\ None \notin People \cup Addresses \cup Nonces

VARIABLES
    email,     \* the address each Google account has at present
    nonces,    \* oauth:state:<nonce> in Redis
    users,     \* the rows of the three tables, by id
    sessions,
    tokens,
    req        \* the request each process is serving

vars == <<email, nonces, users, sessions, tokens, req>>
tables == <<users, sessions, tokens>>

\* "deleted": deleted_at is set; "purged": no row any more
User == [sub : People, email : Addresses, st : {"present", "deleted", "purged"}]
\* "gone": deleted, expired or revoked.  who, via: history, the person who signed in
\* and the nonce; a token has both from the session it was created with.
Credential == [user : Nat, st : {"live", "gone"}, who : People, via : Nonces]

HasRow(i) == i \in DOMAIN users /\ users[i].st # "purged"
Deleted   == {i \in DOMAIN users : users[i].st # "present"}

End(creds, D) ==
    [i \in DOMAIN creds |-> IF i \in D THEN [creds[i] EXCEPT !.st = "gone"] ELSE creds[i]]
OfUser(creds, i) == {c \in DOMAIN creds : creds[c].user = i}

-----------------------------------------------------------------------------
(* Requests *)

SessionOps == {"LogoutAll", "CreateToken", "RevokeToken", "DeleteMe"}
TokenOps   == {"LogoutAll", "RevokeToken", "DeleteMe"}
Ops == SessionOps \cup {"SignIn", "Logout"}

\* late: history, the accounts deleted when the request arrived
Idle == [op |-> "idle", pc |-> "idle", via |-> None, who |-> None, email |-> None,
         user |-> 0, cred |-> 0, late |-> {}]

At(p, op, pc) == req[p].op = op /\ req[p].pc = pc
Goto(p, pc) == req' = [req EXCEPT ![p].pc = pc]
Done(p) == req' = [req EXCEPT ![p] = Idle]

\* A failed check, an error, the timeout, a crash: no further effect
Return(p) ==
    /\ req[p] # Idle
    /\ Done(p)
    /\ UNCHANGED <<email, nonces, tables>>

-----------------------------------------------------------------------------
(* GoogleStart and GoogleCallback *)

\* State.Issue: one SET with a TTL, of a fresh random nonce
GoogleStart(n) ==
    /\ nonces[n] = "none"
    /\ nonces' = [nonces EXCEPT ![n] = "live"]
    /\ UNCHANGED <<email, tables, req>>

StateExpires(n) ==
    /\ nonces[n] = "live"
    /\ nonces' = [nonces EXCEPT ![n] = "spent"]
    /\ UNCHANGED <<email, tables, req>>

\* Mutant of Consume: GET without DEL
ReadState(p, n) ==
    /\ req[p] = Idle /\ "SignIn" \in ClientOps
    /\ nonces[n] = "live"
    /\ req' = [req EXCEPT ![p] =
                 [Idle EXCEPT !.op = "SignIn", !.pc = "consumed", !.via = n, !.late = Deleted]]
    /\ UNCHANGED <<email, nonces, tables>>

\* State.Consume: GETDEL.  The callback may be delivered twice.
Consume(p, n) ==
    /\ req[p] = Idle /\ "SignIn" \in ClientOps
    /\ nonces[n] = "live"
    /\ nonces' = [nonces EXCEPT ![n] = "spent"]
    /\ req' = [req EXCEPT ![p] =
                 [Idle EXCEPT !.op = "SignIn", !.pc = "consumed", !.via = n, !.late = Deleted]]
    /\ UNCHANGED <<email, tables>>

\* Provider.Exchange: the claims of whoever has consented at Google
Exchange(p) ==
    /\ At(p, "SignIn", "consumed")
    /\ \E g \in People :
          req' = [req EXCEPT ![p].pc = "exchanged", ![p].who = g, ![p].email = email[g]]
    /\ UNCHANGED <<email, nonces, tables>>

\* Mutant: the account is looked up by its e-mail address
AccountByEmail(g, a) == {i \in DOMAIN users : HasRow(i) /\ users[i].email = a}
AccountOf(g, a) == {i \in DOMAIN users : HasRow(i) /\ users[i].sub = g}

GetUserByGoogleSub(p) ==
    LET A == AccountOf(req[p].who, req[p].email) IN
    /\ At(p, "SignIn", "exchanged")
    /\ \/ \E i \in A : req' = [req EXCEPT ![p].pc = "found", ![p].user = i]
       \/ A = {} /\ Goto(p, "absent")
    /\ UNCHANGED <<email, nonces, tables>>

\* The name and the picture, which nothing here depends on; not the address, and
\* not deleted_at.  A row purged in between is an error (Return).
UpdateUserProfile(p) ==
    /\ At(p, "SignIn", "found")
    /\ HasRow(req[p].user)
    /\ Goto(p, "upserted")
    /\ UNCHANGED <<email, nonces, tables>>

\* Mutant: the columns of the INSERT in another order
NewUserSwapped(g, a) == [sub |-> a, email |-> g, st |-> "present"]
NewUser(g, a) == [sub |-> g, email |-> a, st |-> "present"]

\* google_sub and email are unique: a second sign-in that found no account either,
\* or another account with a stale address, makes it fail (Return)
InsertUser(p) ==
    LET r == req[p] IN
    /\ At(p, "SignIn", "absent")
    /\ \A i \in DOMAIN users : HasRow(i) => users[i].sub # r.who /\ users[i].email # r.email
    /\ Len(users) < MaxUsers
    /\ users' = Append(users, NewUser(r.who, r.email))
    /\ req' = [req EXCEPT ![p].pc = "upserted", ![p].user = Len(users) + 1]
    /\ UNCHANGED <<email, nonces, sessions, tokens>>

\* Sessions.Issue, whether or not the account is deleted
IssueSession(p) ==
    LET r == req[p] IN
    /\ At(p, "SignIn", "upserted")
    /\ HasRow(r.user)                              \* FK sessions.user_id
    /\ Len(sessions) < MaxSessions
    /\ sessions' = Append(sessions, [user |-> r.user, st |-> "live",
                                     who |-> r.who, via |-> r.via])
    /\ Done(p)
    /\ UNCHANGED <<email, nonces, users, tokens>>

-----------------------------------------------------------------------------
(* The middleware *)

Carry(p, op, c, creds) ==
    req' = [req EXCEPT ![p] = [Idle EXCEPT !.op = op, !.pc = "looked up", !.late = Deleted,
                                           !.who = creds[c].who, !.via = creds[c].via,
                                           !.user = creds[c].user, !.cred = c]]

\* GetSessionByToken; GetPATByHash.  CreateToken refuses a request that came with a
\* token, after the middleware has let it in.
Lookup(p) ==
    /\ req[p] = Idle
    /\ \/ \E op \in SessionOps \cap ClientOps, s \in DOMAIN sessions :
             sessions[s].st = "live" /\ Carry(p, op, s, sessions)
       \/ \E op \in TokenOps \cap ClientOps, t \in DOMAIN tokens :
             tokens[t].st = "live" /\ Carry(p, op, t, tokens)
    /\ UNCHANGED <<email, nonces, tables>>

\* Mutant: the account is there, deleted or not
AnyRow(i) == HasRow(i)
MayEnter(i) == HasRow(i) /\ users[i].st = "present"

\* GetUserByID, and RequireUser.  No code sets users.suspended_at.
GetUserByID(p) ==
    /\ req[p].pc = "looked up"
    /\ MayEnter(req[p].user)
    /\ Goto(p, "admitted")
    /\ UNCHANGED <<email, nonces, tables>>

-----------------------------------------------------------------------------
(* What an admitted request does *)

LogoutAll(p) ==
    /\ At(p, "LogoutAll", "admitted")
    /\ sessions' = End(sessions, OfUser(sessions, req[p].user))
    /\ Done(p)
    /\ UNCHANGED <<email, nonces, users, tokens>>

CreateToken(p) ==
    LET r == req[p] IN
    /\ At(p, "CreateToken", "admitted")
    /\ HasRow(r.user)                              \* FK personal_access_tokens.user_id
    /\ Len(tokens) < MaxTokens
    /\ tokens' = Append(tokens, [user |-> r.user, st |-> "live", who |-> r.who, via |-> r.via])
    /\ Done(p)
    /\ UNCHANGED <<email, nonces, users, sessions>>

\* RevokePAT: WHERE id = t AND user_id = u; any other id changes nothing
RevokeToken(p) ==
    /\ At(p, "RevokeToken", "admitted")
    /\ \E t \in OfUser(tokens, req[p].user) : tokens' = End(tokens, {t})
    /\ Done(p)
    /\ UNCHANGED <<email, nonces, users, sessions>>

\* softDeleteUserTx (Retention has its agents)
MarkUserDeleted(p) ==
    LET i == req[p].user IN
    /\ At(p, "DeleteMe", "admitted")
    /\ users' = IF HasRow(i) THEN [users EXCEPT ![i].st = "deleted"] ELSE users
    /\ Goto(p, "marked")
    /\ UNCHANGED <<email, nonces, sessions, tokens>>

\* Best effort: the request may end without it (Return)
RevokeAllForUser(p) ==
    /\ At(p, "DeleteMe", "marked")
    /\ sessions' = End(sessions, OfUser(sessions, req[p].user))
    /\ Done(p)
    /\ UNCHANGED <<email, nonces, users, tokens>>

\* Logout: Sessions.Revoke looks the session up, and deletes it by id
LookupForLogout(p) ==
    /\ req[p] = Idle /\ "Logout" \in ClientOps
    /\ \E s \in DOMAIN sessions : sessions[s].st = "live" /\ Carry(p, "Logout", s, sessions)
    /\ UNCHANGED <<email, nonces, tables>>

DeleteSession(p) ==
    /\ At(p, "Logout", "looked up")
    /\ sessions' = End(sessions, {req[p].cred})
    /\ Done(p)
    /\ UNCHANGED <<email, nonces, users, tokens>>

-----------------------------------------------------------------------------
(* Time, the purge worker, and the world outside *)

SessionExpires(s) ==
    /\ sessions[s].st = "live"
    /\ sessions' = End(sessions, {s})
    /\ UNCHANGED <<email, nonces, users, tokens, req>>

\* A token may have been given an expiry date
TokenExpires(t) ==
    /\ tokens[t].st = "live"
    /\ tokens' = End(tokens, {t})
    /\ UNCHANGED <<email, nonces, users, sessions, req>>

\* PurgeExpiredUsers, some time after the deletion; sessions and tokens cascade
PurgeExpiredUser(i) ==
    /\ users[i].st = "deleted"
    /\ users' = [users EXCEPT ![i].st = "purged"]
    /\ sessions' = End(sessions, OfUser(sessions, i))
    /\ tokens' = End(tokens, OfUser(tokens, i))
    /\ UNCHANGED <<email, nonces, req>>

\* A Google account takes another address, one that no other has
ChangeEmail(g, a) ==
    /\ \A h \in People : email[h] # a
    /\ email' = [email EXCEPT ![g] = a]
    /\ UNCHANGED <<nonces, tables, req>>

-----------------------------------------------------------------------------

Init ==
    /\ email \in {f \in [People -> Addresses] : \A g, h \in People : f[g] = f[h] => g = h}
    /\ nonces = [n \in Nonces |-> "none"]
    /\ users = <<>> /\ sessions = <<>> /\ tokens = <<>>
    /\ req = [p \in Procs |-> Idle]

Handle(p) ==
    \/ \E n \in Nonces : Consume(p, n)
    \/ Exchange(p) \/ GetUserByGoogleSub(p) \/ UpdateUserProfile(p) \/ InsertUser(p)
    \/ IssueSession(p)
    \/ Lookup(p) \/ GetUserByID(p)
    \/ LogoutAll(p) \/ CreateToken(p) \/ RevokeToken(p)
    \/ MarkUserDeleted(p) \/ RevokeAllForUser(p)
    \/ LookupForLogout(p) \/ DeleteSession(p)
    \/ Return(p)

Next ==
    \/ \E p \in Procs : Handle(p)
    \/ \E n \in Nonces : GoogleStart(n) \/ StateExpires(n)
    \/ \E s \in DOMAIN sessions : SessionExpires(s)
    \/ \E t \in DOMAIN tokens : TokenExpires(t)
    \/ \E i \in DOMAIN users : PurgeExpiredUser(i)
    \/ \E g \in People, a \in Addresses : ChangeEmail(g, a)

Spec == Init /\ [][Next]_vars

-----------------------------------------------------------------------------
(* Properties *)

\* Every variable has its type, and ids refer to rows that were inserted.
TypeOK ==
    /\ email \in [People -> Addresses]
    /\ nonces \in [Nonces -> {"none", "live", "spent"}]
    /\ users \in Seq(User)
    /\ sessions \in Seq(Credential) /\ tokens \in Seq(Credential)
    /\ \A s \in DOMAIN sessions : sessions[s].user \in DOMAIN users
    /\ \A t \in DOMAIN tokens : tokens[t].user \in DOMAIN users
    /\ req \in [Procs -> [op : Ops \cup {"idle"},
                         pc : {"idle", "consumed", "exchanged", "found", "absent", "upserted",
                               "looked up", "admitted", "marked"},
                         via : Nonces \cup {None}, who : People \cup {None},
                         email : Addresses \cup {None}, user : Nat, cred : Nat,
                         late : SUBSET Nat]]

\* Nobody gets into another's account: whatever addresses change hands, accounts are
\* purged and opened again, and sign-ins race, a session is of the account of the
\* person who signed in, and so is every token created with it.
OwnAccount ==
    /\ \A s \in DOMAIN sessions : users[sessions[s].user].sub = sessions[s].who
    /\ \A t \in DOMAIN tokens : users[tokens[t].user].sub = tokens[t].who

\* A state nonce is good for one session, though its callback be delivered twice and
\* the two be served at once.
OneSessionPerState ==
    \A s, t \in DOMAIN sessions : s # t => sessions[s].via # sessions[t].via

\* A deleted account is locked: a request that arrives after the deletion is never
\* admitted in its name, be it with a session that the deletion failed to revoke, one
\* from a sign-in that raced with it or came later, or a token, which it leaves alone.
DeletedLockedOut ==
    \A p \in Procs : req[p].pc \in {"admitted", "marked"} => req[p].user \notin req[p].late
=============================================================================
