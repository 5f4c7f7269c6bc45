--------------------------- MODULE AccountsProofs ---------------------------
(***************************************************************************)
(* Theorems about Accounts, for any people, addresses, nonces and requests *)
(* in flight, any of the operations and any bounds.                        *)
(***************************************************************************)
EXTENDS Accounts, TLAPS

-----------------------------------------------------------------------------
(* The inductive invariant *)

SignInPcs == {"consumed", "exchanged", "found", "absent", "upserted"}
CarryPcs  == {"looked up", "admitted", "marked"}

RequestType == [op : Ops \cup {"idle"}, pc : {"idle"} \cup SignInPcs \cup CarryPcs,
                via : Nonces \cup {None}, who : People \cup {None},
                email : Addresses \cup {None}, user : Nat, cred : Nat,
                late : SUBSET Nat]

\* What a request knows is so: the nonce it came with is spent, the account it has
\* found is that of its person, and nobody is in whose account had been deleted.
RequestOK(r) ==
    /\ r.late \subseteq Deleted
    /\ r.pc \in SignInPcs => r.via \in Nonces /\ nonces[r.via] = "spent"
    /\ r.pc \in {"exchanged", "absent", "found", "upserted"} =>
          r.who \in People /\ r.email \in Addresses
    /\ r.pc \in {"found", "upserted"} \cup CarryPcs =>
          r.user \in DOMAIN users /\ users[r.user].sub = r.who
    /\ r.pc \in CarryPcs => r.who \in People /\ r.via \in Nonces
    /\ r.pc \in {"admitted", "marked"} => r.user \notin r.late

RequestsOK == req \in [Procs -> RequestType] /\ \A p \in Procs : RequestOK(req[p])

\* A nonce is spent once: by one request, or by one session.
SpentOnce ==
    /\ \A s \in DOMAIN sessions : nonces[sessions[s].via] = "spent"
    /\ \A p \in Procs : req[p].pc \in SignInPcs =>
          /\ \A s \in DOMAIN sessions : sessions[s].via # req[p].via
          /\ \A q \in Procs \ {p} : req[q].pc \in SignInPcs => req[q].via # req[p].via

IInv == TypeOK /\ RequestsOK /\ SpentOnce /\ OwnAccount /\ OneSessionPerState

-----------------------------------------------------------------------------
(* What the steps do to the tables *)

\* Accounts are added and their rows change state; none changes hands or comes back.
UsersStep ==
    /\ users' \in Seq(User)
    /\ DOMAIN users \subseteq DOMAIN users'
    /\ \A i \in DOMAIN users : /\ users'[i].sub = users[i].sub
                               /\ users[i].st # "present" => users'[i].st # "present"

NoncesStep ==
    /\ nonces' \in [Nonces -> {"none", "live", "spent"}]
    /\ \A n \in Nonces : nonces[n] = "spent" => nonces'[n] = "spent"

\* Credentials d are what is left of c: some may have ended
Same(c, d) ==
    /\ d \in Seq(Credential)
    /\ DOMAIN d = DOMAIN c
    /\ \A i \in DOMAIN c : d[i].user = c[i].user /\ d[i].who = c[i].who /\ d[i].via = c[i].via

\* A sequence has the domain of its length, and its elements their type.
LEMMA Elements ==
    ASSUME NEW S, NEW c \in Seq(S)
    PROVE  /\ Len(c) \in Nat /\ DOMAIN c = 1..Len(c) /\ DOMAIN c \subseteq Nat
           /\ \A i \in DOMAIN c : c[i] \in S
OBVIOUS

\* A function of 1..n is a sequence.
LEMMA FunctionIsSeq ==
    ASSUME NEW S, NEW n \in Nat, NEW f, f = [i \in 1..n |-> f[i]], \A i \in 1..n : f[i] \in S
    PROVE  f \in Seq(S) /\ Len(f) = n
OBVIOUS

\* Ending credentials changes nothing but their state.
LEMMA EndSame ==
    ASSUME NEW c \in Seq(Credential), NEW D
    PROVE  Same(c, End(c, D))
<1>1. \A x \in Credential :
          /\ [x EXCEPT !.st = "gone"] \in Credential
          /\ [x EXCEPT !.st = "gone"].user = x.user
          /\ [x EXCEPT !.st = "gone"].who = x.who /\ [x EXCEPT !.st = "gone"].via = x.via
    BY DEF Credential
<1>2. \A i \in DOMAIN c : c[i] \in Credential
    BY Elements
<1>3. \A i \in DOMAIN c :
          /\ End(c, D)[i] \in Credential /\ End(c, D)[i].user = c[i].user
          /\ End(c, D)[i].who = c[i].who /\ End(c, D)[i].via = c[i].via
    BY <1>1, <1>2 DEF End
<1>4. /\ Len(c) \in Nat /\ DOMAIN c = 1..Len(c)
      /\ End(c, D) = [i \in 1..Len(c) |-> End(c, D)[i]]
    BY Elements DEF End
<1>5. End(c, D) \in Seq(Credential)
    BY <1>3, <1>4, FunctionIsSeq
<1> QED BY <1>3, <1>4, <1>5 DEF Same

\* So does leaving them alone.
LEMMA SameSame ==
    ASSUME NEW c \in Seq(Credential)
    PROVE  Same(c, c)
BY DEF Same

-----------------------------------------------------------------------------
(* Steps that add no credential and begin no sign-in *)

\* What a request knows stays so.
LEMMA RequestKeeps ==
    ASSUME TypeOK, UsersStep, NoncesStep, NEW r \in RequestType, RequestOK(r)
    PROVE  RequestOK(r)'
<1>1. Deleted \subseteq Deleted'
    BY DEF UsersStep, Deleted
<1>2. r.via \in Nonces /\ nonces[r.via] = "spent" => nonces'[r.via] = "spent"
    BY DEF NoncesStep
<1>3. r.user \in DOMAIN users => r.user \in DOMAIN users' /\ users'[r.user].sub = users[r.user].sub
    BY DEF UsersStep
<1> QED BY <1>1, <1>2, <1>3 DEF RequestOK

\* The requests stay right when one of them moves on to r and the others wait.
LEMMA RequestStep ==
    ASSUME TypeOK, RequestsOK, UsersStep, NoncesStep,
           NEW p \in Procs, NEW r \in RequestType, RequestOK(r)',
           req' = [req EXCEPT ![p] = r]
    PROVE  RequestsOK'
<1>1. req' \in [Procs -> RequestType]
    BY DEF RequestsOK
<1>2. req'[p] = r /\ \A q \in Procs \ {p} : req'[q] = req[q]
    BY DEF RequestsOK
<1>3. \A q \in Procs \ {p} : RequestOK(req[q])'
    <2> TAKE q \in Procs \ {p}
    <2> DEFINE s == req[q]
    <2>1. s \in RequestType /\ RequestOK(s)
        BY DEF RequestsOK
    <2> QED BY <2>1, <1>2, RequestKeeps
<1> QED BY <1>1, <1>2, <1>3 DEF RequestsOK

\* Credentials are of accounts, and these of the people who signed in.
OwnedBy(c) ==
    /\ c \in Seq(Credential)
    /\ \A i \in DOMAIN c : c[i].user \in DOMAIN users /\ users[c[i].user].sub = c[i].who

\* Those that remain are still owned.
LEMMA SameOwned ==
    ASSUME UsersStep, NEW c, NEW d, OwnedBy(c), Same(c, d)
    PROVE  OwnedBy(d)'
<1> SUFFICES ASSUME NEW i \in DOMAIN d
             PROVE  d[i].user \in DOMAIN users' /\ users'[d[i].user].sub = d[i].who
    BY DEF OwnedBy, Same
<1>1. i \in DOMAIN c /\ d[i].user = c[i].user /\ d[i].who = c[i].who
    BY DEF Same
<1>2. c[i].user \in DOMAIN users /\ users[c[i].user].sub = c[i].who
    BY <1>1 DEF OwnedBy
<1> QED BY <1>1, <1>2 DEF UsersStep

\* So is one that is added, if it should be.
LEMMA AppendOwned ==
    ASSUME NEW c, OwnedBy(c), NEW x \in Credential,
           x.user \in DOMAIN users, users[x.user].sub = x.who
    PROVE  OwnedBy(Append(c, x))
<1>1. /\ c \in Seq(Credential) /\ Len(c) \in Nat
      /\ Append(c, x) \in Seq(Credential)
      /\ DOMAIN Append(c, x) = 1..(Len(c) + 1) /\ DOMAIN c = 1..Len(c)
      /\ Append(c, x)[Len(c) + 1] = x
      /\ \A i \in 1..Len(c) : Append(c, x)[i] = c[i]
    BY DEF OwnedBy
<1>2. \A i \in 1..(Len(c) + 1) : i = Len(c) + 1 \/ i \in 1..Len(c)
    BY <1>1
<1> QED BY <1>1, <1>2 DEF OwnedBy

\* The tables as the invariant has them.
LEMMA Tables ==
    ASSUME IInv
    PROVE  /\ email \in [People -> Addresses]
           /\ nonces \in [Nonces -> {"none", "live", "spent"}]
           /\ users \in Seq(User)
           /\ OwnedBy(sessions) /\ OwnedBy(tokens)
           /\ \A s \in DOMAIN sessions : sessions[s].via \in Nonces
<1>1. sessions \in Seq(Credential) /\ TypeOK
    BY DEF IInv, TypeOK
<1>2. \A s \in DOMAIN sessions : sessions[s] \in Credential
    BY <1>1, Elements
<1>3. \A s \in DOMAIN sessions : sessions[s].via \in Nonces
    BY <1>2 DEF Credential
<1> QED BY <1>3 DEF IInv, TypeOK, OwnAccount, OwnedBy

\* The parts of the invariant, after a step.
LEMMA Parts ==
    ASSUME UsersStep, NoncesStep, RequestsOK', email' \in [People -> Addresses],
           OwnedBy(sessions)', OwnedBy(tokens)', SpentOnce', OneSessionPerState'
    PROVE  IInv'
<1>1. {"idle"} \cup SignInPcs \cup CarryPcs =
          {"idle", "consumed", "exchanged", "found", "absent", "upserted",
           "looked up", "admitted", "marked"}
    BY DEF SignInPcs, CarryPcs
<1>2. TypeOK'
    BY <1>1 DEF TypeOK, RequestsOK, RequestType, OwnedBy, UsersStep, NoncesStep
<1>3. OwnAccount'
    BY DEF OwnAccount, OwnedBy
<1> QED BY <1>2, <1>3 DEF IInv

\* Requests that wait, or move on within what they are doing, keep the invariant.
LEMMA Keeps ==
    ASSUME IInv, UsersStep, NoncesStep, RequestsOK',
           email' \in [People -> Addresses], Same(sessions, sessions'), OwnedBy(tokens)',
           \A p \in Procs : req'[p].pc \in SignInPcs =>
               req[p].pc \in SignInPcs /\ req'[p].via = req[p].via
    PROVE  IInv'
<1>1. SpentOnce /\ OneSessionPerState
    BY DEF IInv
<1>2. /\ DOMAIN sessions' = DOMAIN sessions
      /\ \A s \in DOMAIN sessions : sessions'[s].via = sessions[s].via
    BY DEF Same
<1>3. OneSessionPerState'
    BY <1>1, <1>2 DEF OneSessionPerState
<1>4. \A s \in DOMAIN sessions' : nonces'[sessions'[s].via] = "spent"
    BY <1>1, <1>2, Tables DEF SpentOnce, NoncesStep
<1>5. ASSUME NEW p \in Procs, req'[p].pc \in SignInPcs
      PROVE  /\ \A s \in DOMAIN sessions' : sessions'[s].via # req'[p].via
             /\ \A q \in Procs \ {p} : req'[q].pc \in SignInPcs => req'[q].via # req'[p].via
    BY <1>1, <1>2, <1>5 DEF SpentOnce
<1>6. SpentOnce'
    BY <1>4, <1>5 DEF SpentOnce
<1>7. OwnedBy(sessions)'
    BY Tables, SameOwned
<1> QED BY <1>3, <1>6, <1>7, Parts

\* When one request moves on to r, and the tables change as they may.
LEMMA MoveKeeps ==
    ASSUME IInv, UsersStep, NoncesStep,
           email' \in [People -> Addresses], Same(sessions, sessions'), OwnedBy(tokens)',
           NEW p \in Procs, NEW r \in RequestType, RequestOK(r)',
           req' = [req EXCEPT ![p] = r],
           r.pc \in SignInPcs => req[p].pc \in SignInPcs /\ r.via = req[p].via
    PROVE  IInv'
<1>1. TypeOK /\ RequestsOK
    BY DEF IInv
<1>2. RequestsOK'
    BY <1>1, RequestStep
<1>3. req'[p] = r /\ \A q \in Procs \ {p} : req'[q] = req[q]
    BY <1>1 DEF RequestsOK
<1> QED BY <1>2, <1>3, Keeps

\* When no request moves.
LEMMA WaitKeeps ==
    ASSUME IInv, UsersStep, NoncesStep,
           email' \in [People -> Addresses], Same(sessions, sessions'), OwnedBy(tokens)',
           req' = req
    PROVE  IInv'
<1>1. TypeOK /\ RequestsOK
    BY DEF IInv
<1>2. \A p \in Procs : RequestOK(req[p])'
    <2> TAKE p \in Procs
    <2>1. req[p] \in RequestType /\ RequestOK(req[p])
        BY <1>1 DEF RequestsOK
    <2> QED BY <1>1, <2>1, RequestKeeps
<1>3. RequestsOK'
    BY <1>1, <1>2 DEF RequestsOK
<1> QED BY <1>3, Keeps

\* What does not change is a step.
LEMMA NoStep ==
    ASSUME IInv
    PROVE  /\ users' = users => UsersStep
           /\ nonces' = nonces => NoncesStep
           /\ email' = email => email' \in [People -> Addresses]
           /\ sessions' = sessions => Same(sessions, sessions')
           /\ tokens' = tokens => Same(tokens, tokens')
           /\ UsersStep /\ Same(tokens, tokens') => OwnedBy(tokens)'
<1>1. sessions \in Seq(Credential) /\ tokens \in Seq(Credential)
    BY Tables DEF OwnedBy
<1>2. UsersStep /\ Same(tokens, tokens') => OwnedBy(tokens)'
    BY Tables, SameOwned
<1> QED BY <1>1, <1>2, Tables, SameSame DEF UsersStep, NoncesStep

\* A request that ends keeps the invariant.
LEMMA DoneKeeps ==
    ASSUME IInv, UsersStep, NoncesStep,
           email' \in [People -> Addresses], Same(sessions, sessions'), OwnedBy(tokens)',
           NEW p \in Procs, Done(p)
    PROVE  IInv'
<1>1. Idle \in RequestType /\ Idle.pc = "idle" /\ Idle.late = {}
    BY DEF Idle, RequestType
<1>2. RequestOK(Idle)'
    BY <1>1 DEF RequestOK, SignInPcs, CarryPcs
<1>3. Idle.pc \notin SignInPcs
    BY <1>1 DEF SignInPcs
<1> QED BY <1>1, <1>2, <1>3, MoveKeeps DEF Done

\* A request keeps its other fields when its pc moves on.
LEMMA PcUpdate ==
    ASSUME NEW r \in RequestType, NEW pc \in SignInPcs \cup CarryPcs
    PROVE  /\ [r EXCEPT !.pc = pc] \in RequestType
           /\ [r EXCEPT !.pc = pc].pc = pc /\ [r EXCEPT !.pc = pc].via = r.via
           /\ [r EXCEPT !.pc = pc].who = r.who /\ [r EXCEPT !.pc = pc].email = r.email
           /\ [r EXCEPT !.pc = pc].user = r.user /\ [r EXCEPT !.pc = pc].late = r.late
<1>1. [r EXCEPT !.pc = pc] \in RequestType
    BY DEF RequestType
<1> QED BY <1>1 DEF RequestType

\* A request that goes on, knowing no more than it did.
LEMMA GotoKeeps ==
    ASSUME IInv, UsersStep, UNCHANGED <<email, nonces, sessions, tokens>>,
           NEW p \in Procs, NEW pc \in SignInPcs \cup CarryPcs, Goto(p, pc),
           \/ pc = "absent" /\ req[p].pc = "exchanged"
           \/ pc = "upserted" /\ req[p].pc = "found"
           \/ pc = "admitted" /\ req[p].pc = "looked up" /\ req[p].user \notin req[p].late
           \/ pc = "marked" /\ req[p].pc = "admitted"
    PROVE  IInv'
<1>1. RequestsOK /\ TypeOK
    BY DEF IInv
<1>2. req[p] \in RequestType /\ RequestOK(req[p])
    BY <1>1 DEF RequestsOK
<1>3. NoncesStep /\ email' \in [People -> Addresses]
      /\ Same(sessions, sessions') /\ OwnedBy(tokens)'
    BY NoStep
<1>4. PICK r : r = [req[p] EXCEPT !.pc = pc]
    OBVIOUS
<1>5. /\ r \in RequestType /\ r.pc = pc /\ r.via = req[p].via /\ r.who = req[p].who
      /\ r.email = req[p].email /\ r.user = req[p].user /\ r.late = req[p].late
    BY <1>2, <1>4, PcUpdate
<1>6. RequestOK(r)
    BY <1>2, <1>5 DEF RequestOK, SignInPcs, CarryPcs
<1>7. RequestOK(r)'
    BY <1>1, <1>3, <1>5, <1>6, RequestKeeps
<1>8. req' = [req EXCEPT ![p] = r]
    BY <1>1, <1>4 DEF Goto, RequestsOK
<1>9. r.pc \in SignInPcs => req[p].pc \in SignInPcs /\ r.via = req[p].via
    BY <1>5 DEF SignInPcs, CarryPcs
<1> QED BY <1>3, <1>5, <1>7, <1>8, <1>9, MoveKeeps

-----------------------------------------------------------------------------
(* Signing in *)

\* A request that comes in with a nonce that was live.
LEMMA ConsumeKeeps ==
    ASSUME IInv, NEW p \in Procs, NEW n \in Nonces, Consume(p, n)
    PROVE  IInv'
<1>1. /\ RequestsOK /\ TypeOK /\ SpentOnce /\ OneSessionPerState
      /\ nonces \in [Nonces -> {"none", "live", "spent"}]
    BY Tables DEF IInv
<1>2. /\ nonces[n] = "live" /\ nonces' = [nonces EXCEPT ![n] = "spent"]
      /\ email' = email /\ users' = users /\ sessions' = sessions /\ tokens' = tokens
    BY DEF Consume, tables
<1>3. UsersStep /\ NoncesStep /\ email' \in [People -> Addresses]
      /\ Same(sessions, sessions') /\ OwnedBy(tokens)'
    BY <1>1, <1>2, NoStep DEF NoncesStep
<1>4. PICK r : r = [Idle EXCEPT !.op = "SignIn", !.pc = "consumed", !.via = n, !.late = Deleted]
    OBVIOUS
<1>5. Deleted \in SUBSET Nat
    BY <1>1, Tables, Elements DEF Deleted
<1>6. /\ r \in RequestType /\ r.pc = "consumed" /\ r.via = n /\ r.late = Deleted
    BY <1>4, <1>5 DEF Idle, RequestType, Ops, SignInPcs
<1>7. RequestOK(r)'
    BY <1>1, <1>2, <1>6 DEF RequestOK, SignInPcs, CarryPcs, Deleted
<1>8. req' = [req EXCEPT ![p] = r] /\ req'[p] = r /\ \A q \in Procs \ {p} : req'[q] = req[q]
    BY <1>1, <1>4 DEF Consume, RequestsOK
<1>9. RequestsOK'
    BY <1>1, <1>3, <1>6, <1>7, <1>8, RequestStep
<1>10. SpentOnce'
    <2>1. /\ \A s \in DOMAIN sessions : nonces'[sessions[s].via] = "spent" /\ sessions[s].via # n
          /\ \A q \in Procs : req[q].pc \in SignInPcs => req[q].via # n
        BY <1>1, <1>2, Tables DEF SpentOnce, RequestsOK, RequestOK
    <2>2. \A q \in Procs : req'[q].pc \in SignInPcs =>
              \A s \in DOMAIN sessions : sessions[s].via # req'[q].via
        BY <2>1, <1>1, <1>6, <1>8 DEF SpentOnce
    <2>3. \A q \in Procs : req'[q].pc \in SignInPcs =>
              \A o \in Procs \ {q} : req'[o].pc \in SignInPcs => req'[o].via # req'[q].via
        BY <2>1, <1>1, <1>6, <1>8 DEF SpentOnce
    <2> QED BY <2>1, <2>2, <2>3, <1>2 DEF SpentOnce
<1>11. OneSessionPerState' /\ OwnedBy(sessions)'
    BY <1>1, <1>2, <1>3, Tables, SameOwned DEF OneSessionPerState
<1> QED BY <1>3, <1>9, <1>10, <1>11, Parts

\* The claims are those of a person, with that person's address.
LEMMA ExchangeKeeps ==
    ASSUME IInv, NEW p \in Procs, Exchange(p)
    PROVE  IInv'
<1>1. RequestsOK /\ TypeOK /\ email \in [People -> Addresses]
    BY Tables DEF IInv
<1>2. /\ req[p].pc = "consumed" /\ email' = email /\ nonces' = nonces
      /\ users' = users /\ sessions' = sessions /\ tokens' = tokens
    BY DEF Exchange, At, tables
<1>3. UsersStep /\ NoncesStep /\ email' \in [People -> Addresses]
      /\ Same(sessions, sessions') /\ OwnedBy(tokens)'
    BY <1>2, NoStep
<1>4. PICK g \in People :
          req' = [req EXCEPT ![p].pc = "exchanged", ![p].who = g, ![p].email = email[g]]
    BY DEF Exchange
<1>5. PICK r : r = [req[p] EXCEPT !.pc = "exchanged", !.who = g, !.email = email[g]]
    OBVIOUS
<1>6. req[p] \in RequestType /\ RequestOK(req[p])
    BY <1>1 DEF RequestsOK
<1>7. /\ r \in RequestType /\ r.pc = "exchanged" /\ r.via = req[p].via
      /\ r.who = g /\ r.email = email[g] /\ r.late = req[p].late
    BY <1>1, <1>5, <1>6 DEF RequestType, SignInPcs
<1>8. RequestOK(r)
    BY <1>1, <1>2, <1>6, <1>7 DEF RequestOK, SignInPcs, CarryPcs
<1>9. RequestOK(r)'
    BY <1>1, <1>3, <1>7, <1>8, RequestKeeps
<1>10. req' = [req EXCEPT ![p] = r]
    BY <1>1, <1>4, <1>5 DEF RequestsOK
<1> QED BY <1>2, <1>3, <1>7, <1>9, <1>10, MoveKeeps DEF SignInPcs

\* The account that is found is the person's own.
LEMMA FindKeeps ==
    ASSUME IInv, NEW p \in Procs, GetUserByGoogleSub(p)
    PROVE  IInv'
<1>1. /\ RequestsOK /\ TypeOK
      /\ req[p].pc = "exchanged" /\ UNCHANGED <<email, nonces, users, sessions, tokens>>
    BY DEF IInv, GetUserByGoogleSub, At, tables
<1>2. UsersStep /\ NoncesStep /\ email' \in [People -> Addresses]
      /\ Same(sessions, sessions') /\ OwnedBy(tokens)'
    BY <1>1, NoStep
<1>3. CASE Goto(p, "absent")
    BY <1>1, <1>2, <1>3, GotoKeeps DEF SignInPcs
<1>4. ASSUME NEW i \in AccountOf(req[p].who, req[p].email),
             req' = [req EXCEPT ![p].pc = "found", ![p].user = i]
      PROVE  IInv'
    <2>1. PICK r : r = [req[p] EXCEPT !.pc = "found", !.user = i]
        OBVIOUS
    <2>2. req[p] \in RequestType /\ RequestOK(req[p])
        BY <1>1 DEF RequestsOK
    <2>3. i \in DOMAIN users /\ users[i].sub = req[p].who /\ i \in Nat
        BY Tables, Elements DEF AccountOf
    <2>4. /\ r \in RequestType /\ r.pc = "found" /\ r.via = req[p].via /\ r.who = req[p].who
          /\ r.email = req[p].email /\ r.user = i /\ r.late = req[p].late
        BY <2>1, <2>2, <2>3 DEF RequestType, SignInPcs
    <2>5. RequestOK(r)
        BY <1>1, <2>2, <2>3, <2>4 DEF RequestOK, SignInPcs, CarryPcs
    <2>6. RequestOK(r)'
        BY <1>1, <1>2, <2>4, <2>5, RequestKeeps
    <2>7. req' = [req EXCEPT ![p] = r]
        BY <1>1, <1>4, <2>1 DEF RequestsOK
    <2> QED BY <1>1, <1>2, <2>4, <2>6, <2>7, MoveKeeps DEF SignInPcs
<1> QED BY <1>3, <1>4 DEF GetUserByGoogleSub

\* A new account is of the person who signs in; the others are left alone.
LEMMA InsertUserKeeps ==
    ASSUME IInv, NEW p \in Procs, InsertUser(p)
    PROVE  IInv'
<1>1. /\ RequestsOK /\ TypeOK /\ req[p].pc = "absent" /\ users \in Seq(User)
      /\ UNCHANGED <<email, nonces, sessions, tokens>>
      /\ users' = Append(users, NewUser(req[p].who, req[p].email))
    BY DEF IInv, TypeOK, InsertUser, At
<1>2. req[p] \in RequestType /\ RequestOK(req[p])
    BY <1>1 DEF RequestsOK
<1>3. PICK u \in User : u = NewUser(req[p].who, req[p].email) /\ u.sub = req[p].who
    BY <1>1, <1>2 DEF RequestOK, NewUser, User
<1>4. /\ Len(users) \in Nat /\ DOMAIN users = 1..Len(users)
      /\ users' \in Seq(User) /\ DOMAIN users' = 1..(Len(users) + 1)
      /\ users'[Len(users) + 1] = u
      /\ \A i \in 1..Len(users) : users'[i] = users[i]
    BY <1>1, <1>3
<1>5. UsersStep
    BY <1>4 DEF UsersStep
<1>6. NoncesStep /\ email' \in [People -> Addresses]
      /\ Same(sessions, sessions') /\ OwnedBy(tokens)'
    BY <1>1, <1>5, NoStep
<1>n. PICK n \in Nat : n = Len(users) + 1
    BY <1>4
<1>7. PICK r : r = [req[p] EXCEPT !.pc = "upserted", !.user = n]
    OBVIOUS
<1>8. /\ r \in RequestType /\ r.pc = "upserted" /\ r.via = req[p].via /\ r.who = req[p].who
      /\ r.email = req[p].email /\ r.user = n /\ r.late = req[p].late
    BY <1>2, <1>7 DEF RequestType, SignInPcs
<1>9. RequestOK(r)'
    <2>1. r.user \in DOMAIN users' /\ users'[r.user].sub = r.who
        BY <1>3, <1>4, <1>n, <1>8
    <2>2. Deleted \subseteq Deleted'
        BY <1>5 DEF UsersStep, Deleted
    <2> QED BY <2>1, <2>2, <1>1, <1>2, <1>8 DEF RequestOK, SignInPcs, CarryPcs
<1>10. req' = [req EXCEPT ![p] = r]
    BY <1>1, <1>n, <1>7 DEF InsertUser, RequestsOK
<1> QED BY <1>1, <1>5, <1>6, <1>8, <1>9, <1>10, MoveKeeps DEF SignInPcs

\* The session is of the account that was found or made, and the nonce's only one.
LEMMA IssueKeeps ==
    ASSUME IInv, NEW p \in Procs, IssueSession(p)
    PROVE  IInv'
<1>1. /\ RequestsOK /\ TypeOK /\ SpentOnce /\ OneSessionPerState
      /\ req[p].pc = "upserted" /\ UNCHANGED <<email, nonces, users, tokens>> /\ Done(p)
    BY DEF IInv, IssueSession, At
<1>2. req[p] \in RequestType /\ RequestOK(req[p])
    BY <1>1 DEF RequestsOK
<1>3. PICK x : x = [user |-> req[p].user, st |-> "live", who |-> req[p].who, via |-> req[p].via]
    OBVIOUS
<1>4. /\ x \in Credential /\ x.user \in DOMAIN users /\ users[x.user].sub = x.who
      /\ x.via = req[p].via /\ x.via \in Nonces /\ nonces[x.via] = "spent"
    BY <1>1, <1>2, <1>3 DEF RequestOK, RequestType, Credential, SignInPcs
<1>5. sessions' = Append(sessions, x)
    BY <1>3 DEF IssueSession
<1>6. /\ sessions \in Seq(Credential) /\ Len(sessions) \in Nat
      /\ DOMAIN sessions = 1..Len(sessions) /\ DOMAIN sessions' = 1..(Len(sessions) + 1)
      /\ sessions'[Len(sessions) + 1] = x
      /\ \A i \in 1..Len(sessions) : sessions'[i] = sessions[i]
    BY <1>4, <1>5, Tables DEF OwnedBy
<1>7. \A s \in DOMAIN sessions' : \/ s = Len(sessions) + 1 /\ sessions'[s] = x
                                  \/ s \in DOMAIN sessions /\ sessions'[s] = sessions[s]
    BY <1>6
<1>8. \A s \in DOMAIN sessions : sessions[s].via # x.via
    BY <1>1, <1>4 DEF SpentOnce, SignInPcs
<1>9. OneSessionPerState'
    <2> SUFFICES ASSUME NEW s \in DOMAIN sessions', NEW t \in DOMAIN sessions', s # t
                 PROVE  sessions'[s].via # sessions'[t].via
        BY DEF OneSessionPerState
    <2> QED BY <1>1, <1>7, <1>8 DEF OneSessionPerState
<1>10. Idle \in RequestType /\ Idle.pc = "idle" /\ Idle.late = {}
    BY DEF Idle, RequestType
<1>11. UsersStep /\ NoncesStep /\ email' \in [People -> Addresses] /\ OwnedBy(tokens)'
    BY <1>1, NoStep
<1>12. RequestOK(Idle)' /\ req' = [req EXCEPT ![p] = Idle]
       /\ req'[p] = Idle /\ \A q \in Procs \ {p} : req'[q] = req[q]
    BY <1>1, <1>10 DEF RequestOK, SignInPcs, CarryPcs, Done, RequestsOK
<1>13. RequestsOK'
    BY <1>1, <1>10, <1>11, <1>12, RequestStep
<1>14. SpentOnce'
    <2>1. \A s \in DOMAIN sessions' : nonces'[sessions'[s].via] = "spent"
        BY <1>1, <1>4, <1>7 DEF SpentOnce
    <2>2. ASSUME NEW q \in Procs, req'[q].pc \in SignInPcs
          PROVE  /\ q # p /\ req'[q] = req[q] /\ req[q].via # x.via
                 /\ \A s \in DOMAIN sessions : sessions[s].via # req[q].via
                 /\ \A o \in Procs \ {q} : req'[o].pc \in SignInPcs => req'[o].via # req'[q].via
        <3>1. "idle" \notin SignInPcs /\ "upserted" \in SignInPcs
            BY DEF SignInPcs
        <3>2. q # p /\ req'[q] = req[q]
            BY <2>2, <3>1, <1>10, <1>12
        <3>3. req[q].via # x.via /\ \A s \in DOMAIN sessions : sessions[s].via # req[q].via
            BY <1>1, <1>4, <2>2, <3>1, <3>2 DEF SpentOnce
        <3>4. \A o \in Procs \ {q} : req'[o].pc \in SignInPcs => o # p /\ req'[o] = req[o]
            BY <3>1, <1>10, <1>12
        <3> QED BY <1>1, <2>2, <3>2, <3>3, <3>4 DEF SpentOnce
    <2>3. ASSUME NEW q \in Procs, req'[q].pc \in SignInPcs, NEW s \in DOMAIN sessions'
          PROVE  sessions'[s].via # req'[q].via
        BY <2>2, <2>3, <1>7
    <2> QED BY <2>1, <2>2, <2>3 DEF SpentOnce
<1>15. OwnedBy(sessions)'
    <2>1. OwnedBy(Append(sessions, x))
        BY <1>4, Tables, AppendOwned
    <2> QED BY <1>1, <1>5, <2>1 DEF OwnedBy
<1> QED BY <1>9, <1>11, <1>13, <1>14, <1>15, Parts

-----------------------------------------------------------------------------
(* Requests with a credential *)

\* A request that comes in with a credential acts for the person who signed in.
LEMMA CarryKeeps ==
    ASSUME IInv, NEW p \in Procs, NEW op \in Ops, req[p] = Idle,
           NEW creds, OwnedBy(creds), NEW c \in DOMAIN creds, Carry(p, op, c, creds),
           UNCHANGED <<email, nonces, tables>>
    PROVE  IInv'
<1>1. RequestsOK /\ TypeOK
    BY DEF IInv
<1>2. PICK r : r = [Idle EXCEPT !.op = op, !.pc = "looked up", !.late = Deleted,
                                !.who = creds[c].who, !.via = creds[c].via,
                                !.user = creds[c].user, !.cred = c]
    OBVIOUS
<1>3. /\ creds[c] \in Credential /\ c \in Nat
      /\ creds[c].user \in DOMAIN users /\ users[creds[c].user].sub = creds[c].who
    BY Elements DEF OwnedBy
<1>4. Deleted \in SUBSET Nat
    BY Tables, Elements DEF Deleted
<1>5. /\ r \in RequestType /\ r.pc = "looked up" /\ r.late = Deleted /\ r.who = creds[c].who
      /\ r.via = creds[c].via /\ r.user = creds[c].user
    BY <1>2, <1>3, <1>4 DEF Idle, RequestType, Credential, CarryPcs
<1>6. RequestOK(r)
    BY <1>3, <1>5 DEF RequestOK, SignInPcs, CarryPcs, Credential
<1>7. UsersStep /\ NoncesStep /\ email' \in [People -> Addresses]
      /\ Same(sessions, sessions') /\ OwnedBy(tokens)'
    BY NoStep DEF tables
<1>8. RequestOK(r)'
    BY <1>1, <1>5, <1>6, <1>7, RequestKeeps
<1>9. req' = [req EXCEPT ![p] = r] /\ r.pc \notin SignInPcs
    BY <1>2, <1>5 DEF Carry, SignInPcs
<1> QED BY <1>5, <1>7, <1>8, <1>9, MoveKeeps

\* The middleware admits nobody to an account that is deleted.
LEMMA AdmitKeeps ==
    ASSUME IInv, NEW p \in Procs, GetUserByID(p)
    PROVE  IInv'
<1>1. req[p].pc = "looked up" /\ Goto(p, "admitted") /\ MayEnter(req[p].user)
      /\ UNCHANGED <<email, nonces, users, sessions, tokens>>
    BY DEF GetUserByID, tables
<1>2. RequestOK(req[p])
    BY DEF IInv, RequestsOK
<1>3. req[p].user \notin req[p].late
    BY <1>1, <1>2 DEF RequestOK, MayEnter, HasRow, Deleted
<1>4. UsersStep
    BY <1>1, NoStep
<1> QED BY <1>1, <1>3, <1>4, GotoKeeps DEF CarryPcs

\* A new token is of the same person as the session it was created with.
LEMMA CreateTokenKeeps ==
    ASSUME IInv, NEW p \in Procs, CreateToken(p)
    PROVE  IInv'
<1>1. /\ req[p] \in RequestType /\ RequestOK(req[p]) /\ req[p].pc = "admitted" /\ Done(p)
      /\ UNCHANGED <<email, nonces, users, sessions>>
    BY DEF IInv, RequestsOK, CreateToken, At
<1>2. PICK x : x = [user |-> req[p].user, st |-> "live", who |-> req[p].who, via |-> req[p].via]
    OBVIOUS
<1>3. /\ x \in Credential /\ x.user \in DOMAIN users /\ users[x.user].sub = x.who
    BY <1>1, <1>2 DEF RequestOK, RequestType, Credential, CarryPcs
<1>4. OwnedBy(Append(tokens, x))
    BY <1>3, Tables, AppendOwned
<1>5. OwnedBy(tokens)'
    BY <1>1, <1>2, <1>4 DEF CreateToken, OwnedBy
<1>6. UsersStep /\ NoncesStep /\ email' \in [People -> Addresses] /\ Same(sessions, sessions')
    BY <1>1, NoStep
<1> QED BY <1>1, <1>5, <1>6, DoneKeeps

\* A row of an account that changes its state is still of the same person.
LEMMA UserState ==
    ASSUME IInv, NEW i \in DOMAIN users, NEW s \in {"deleted", "purged"},
           users' = [users EXCEPT ![i].st = s]
    PROVE  UsersStep
<1>1. users \in Seq(User) /\ \A j \in DOMAIN users : users[j] \in User
    BY Tables, Elements
<1>2. [users[i] EXCEPT !.st = s] \in User
      /\ [users[i] EXCEPT !.st = s].sub = users[i].sub /\ [users[i] EXCEPT !.st = s].st = s
    BY <1>1 DEF User
<1>3. users' \in Seq(User) /\ DOMAIN users' = DOMAIN users
      /\ users'[i] = [users[i] EXCEPT !.st = s]
      /\ \A j \in DOMAIN users \ {i} : users'[j] = users[j]
    BY <1>1, <1>2
<1> QED BY <1>2, <1>3 DEF UsersStep

\* Ending sessions or tokens keeps who they are of.
LEMMA EndingKeeps ==
    ASSUME IInv, UsersStep,
           \/ sessions' = sessions
           \/ \E D : sessions' = End(sessions, D),
           \/ tokens' = tokens
           \/ \E D : tokens' = End(tokens, D)
    PROVE  Same(sessions, sessions') /\ OwnedBy(tokens)'
<1>1. sessions \in Seq(Credential) /\ tokens \in Seq(Credential) /\ OwnedBy(tokens)
    BY Tables DEF OwnedBy
<1>2. Same(sessions, sessions') /\ Same(tokens, tokens')
    BY <1>1, EndSame, SameSame
<1> QED BY <1>1, <1>2, SameOwned

\* What an admitted request does, and logging out, keeps the invariant.
LEMMA AdmittedKeeps ==
    ASSUME IInv, NEW p \in Procs,
           \/ LogoutAll(p) \/ CreateToken(p) \/ RevokeToken(p)
           \/ MarkUserDeleted(p) \/ RevokeAllForUser(p) \/ DeleteSession(p)
    PROVE  IInv'
<1>1. CASE CreateToken(p)
    BY <1>1, CreateTokenKeeps
<1>2. CASE MarkUserDeleted(p)
    <2>1. /\ req[p].pc = "admitted" /\ Goto(p, "marked")
          /\ UNCHANGED <<email, nonces, sessions, tokens>>
        BY <1>2 DEF MarkUserDeleted, At
    <2>2. UsersStep
        <3>1. CASE HasRow(req[p].user)
            <4>1. req[p].user \in DOMAIN users
                  /\ users' = [users EXCEPT ![req[p].user].st = "deleted"]
                BY <1>2, <3>1 DEF MarkUserDeleted, HasRow
            <4> QED BY <4>1, UserState
        <3>2. CASE ~HasRow(req[p].user)
            BY <1>2, <3>2, NoStep DEF MarkUserDeleted
        <3> QED BY <3>1, <3>2
    <2> QED BY <2>1, <2>2, GotoKeeps DEF CarryPcs
<1>3. CASE LogoutAll(p) \/ RevokeToken(p) \/ RevokeAllForUser(p) \/ DeleteSession(p)
    <2>1. Done(p) /\ UNCHANGED <<email, nonces, users>>
        BY <1>3 DEF LogoutAll, RevokeToken, RevokeAllForUser, DeleteSession
    <2>2. UsersStep /\ NoncesStep /\ email' \in [People -> Addresses]
        BY <2>1, NoStep
    <2>3. /\ sessions' = sessions \/ \E D : sessions' = End(sessions, D)
          /\ tokens' = tokens \/ \E D : tokens' = End(tokens, D)
        BY <1>3 DEF LogoutAll, RevokeToken, RevokeAllForUser, DeleteSession
    <2>4. Same(sessions, sessions') /\ OwnedBy(tokens)'
        BY <2>2, <2>3, EndingKeeps
    <2> QED BY <2>1, <2>2, <2>4, DoneKeeps
<1> QED BY <1>1, <1>2, <1>3

\* The look-ups of sessions and tokens keep it.
LEMMA LookupKeeps ==
    ASSUME IInv, NEW p \in Procs, Lookup(p) \/ LookupForLogout(p)
    PROVE  IInv'
<1>1. OwnedBy(sessions) /\ OwnedBy(tokens)
    BY Tables
<1>2. req[p] = Idle /\ UNCHANGED <<email, nonces, tables>>
    BY DEF Lookup, LookupForLogout
<1>3. CASE Lookup(p)
    <2>1. CASE \E op \in SessionOps \cap ClientOps, s \in DOMAIN sessions :
                   sessions[s].st = "live" /\ Carry(p, op, s, sessions)
        <3>1. PICK op \in SessionOps, s \in DOMAIN sessions : Carry(p, op, s, sessions)
            BY <2>1
        <3>2. op \in Ops
            BY DEF Ops
        <3> QED BY <1>1, <1>2, <3>1, <3>2, CarryKeeps
    <2>2. CASE \E op \in TokenOps \cap ClientOps, t \in DOMAIN tokens :
                   tokens[t].st = "live" /\ Carry(p, op, t, tokens)
        <3>1. PICK op \in TokenOps, t \in DOMAIN tokens : Carry(p, op, t, tokens)
            BY <2>2
        <3>2. op \in Ops
            BY DEF Ops, TokenOps, SessionOps
        <3> QED BY <1>1, <1>2, <3>1, <3>2, CarryKeeps
    <2> QED BY <1>3, <2>1, <2>2 DEF Lookup
<1>4. CASE LookupForLogout(p)
    <2>1. PICK s \in DOMAIN sessions : Carry(p, "Logout", s, sessions)
        BY <1>4 DEF LookupForLogout
    <2> QED BY <1>1, <1>2, <2>1, CarryKeeps DEF Ops
<1> QED BY <1>3, <1>4

\* Handlers keep the invariant.
LEMMA HandleKeeps ==
    ASSUME IInv, NEW p \in Procs, Handle(p)
    PROVE  IInv'
<1>1. CASE UpdateUserProfile(p)
    <2>1. req[p].pc = "found" /\ Goto(p, "upserted")
          /\ UNCHANGED <<email, nonces, users, sessions, tokens>>
        BY <1>1 DEF UpdateUserProfile, At, tables
    <2> QED BY <2>1, NoStep, GotoKeeps DEF SignInPcs
<1>2. CASE Return(p)
    <2>1. Done(p) /\ UNCHANGED <<email, nonces, users, sessions, tokens>>
        BY <1>2 DEF Return, tables
    <2> QED BY <2>1, NoStep, DoneKeeps
<1> QED BY <1>1, <1>2, ConsumeKeeps, ExchangeKeeps, FindKeeps, InsertUserKeeps, IssueKeeps,
           LookupKeeps, AdmitKeeps, AdmittedKeeps DEF Handle

\* So does what happens without a request.
LEMMA WorldKeeps ==
    ASSUME IInv,
           \/ \E n \in Nonces : GoogleStart(n) \/ StateExpires(n)
           \/ \E s \in DOMAIN sessions : SessionExpires(s)
           \/ \E t \in DOMAIN tokens : TokenExpires(t)
           \/ \E i \in DOMAIN users : PurgeExpiredUser(i)
           \/ \E g \in People, a \in Addresses : ChangeEmail(g, a)
    PROVE  IInv'
<1>1. ASSUME NEW n \in Nonces, GoogleStart(n) \/ StateExpires(n)
      PROVE  IInv'
    <2>1. /\ \E v \in {"live", "spent"} : nonces' = [nonces EXCEPT ![n] = v]
          /\ nonces[n] # "spent" /\ UNCHANGED <<email, users, sessions, tokens, req>>
        BY <1>1 DEF GoogleStart, StateExpires, tables
    <2>2. NoncesStep
        BY <2>1, Tables DEF NoncesStep
    <2> QED BY <2>1, <2>2, NoStep, WaitKeeps
<1>2. ASSUME NEW s \in DOMAIN sessions, SessionExpires(s)
      PROVE  IInv'
    <2>1. sessions' = End(sessions, {s}) /\ UNCHANGED <<email, nonces, users, tokens, req>>
        BY <1>2 DEF SessionExpires
    <2> QED BY <2>1, NoStep, EndingKeeps, WaitKeeps
<1>3. ASSUME NEW t \in DOMAIN tokens, TokenExpires(t)
      PROVE  IInv'
    <2>1. tokens' = End(tokens, {t}) /\ UNCHANGED <<email, nonces, users, sessions, req>>
        BY <1>3 DEF TokenExpires
    <2> QED BY <2>1, NoStep, EndingKeeps, WaitKeeps
<1>4. ASSUME NEW i \in DOMAIN users, PurgeExpiredUser(i)
      PROVE  IInv'
    <2>1. /\ users' = [users EXCEPT ![i].st = "purged"]
          /\ sessions' = End(sessions, OfUser(sessions, i)) /\ tokens' = End(tokens, OfUser(tokens, i))
          /\ UNCHANGED <<email, nonces, req>>
        BY <1>4 DEF PurgeExpiredUser
    <2>2. UsersStep
        BY <2>1, UserState
    <2>3. Same(sessions, sessions') /\ OwnedBy(tokens)'
        BY <2>1, <2>2, EndingKeeps
    <2> QED BY <2>1, <2>2, <2>3, NoStep, WaitKeeps
<1>5. ASSUME NEW g \in People, NEW a \in Addresses, ChangeEmail(g, a)
      PROVE  IInv'
    <2>1. email' = [email EXCEPT ![g] = a] /\ UNCHANGED <<nonces, users, sessions, tokens, req>>
        BY <1>5 DEF ChangeEmail, tables
    <2>2. email' \in [People -> Addresses]
        BY <2>1, Tables
    <2> QED BY <2>1, <2>2, NoStep, WaitKeeps
<1> QED BY <1>1, <1>2, <1>3, <1>4, <1>5

-----------------------------------------------------------------------------
(* The theorems *)

\* The invariant holds initially.
LEMMA InitIInv == Init => IInv
<1> SUFFICES ASSUME Init
             PROVE  IInv
    OBVIOUS
<1>1. /\ email \in [People -> Addresses]
      /\ nonces \in [Nonces -> {"none", "live", "spent"}]
      /\ users = <<>> /\ sessions = <<>> /\ tokens = <<>> /\ req = [p \in Procs |-> Idle]
    BY DEF Init
<1>2. Idle \in RequestType /\ Idle.pc = "idle" /\ Idle.late = {}
    BY DEF Idle, RequestType
<1>3. RequestsOK
    BY <1>1, <1>2 DEF RequestsOK, RequestOK, SignInPcs, CarryPcs
<1>4. SpentOnce /\ OneSessionPerState /\ OwnAccount
    BY <1>1, <1>2 DEF SpentOnce, OneSessionPerState, OwnAccount, SignInPcs
<1>5. {"idle"} \cup SignInPcs \cup CarryPcs =
          {"idle", "consumed", "exchanged", "found", "absent", "upserted",
           "looked up", "admitted", "marked"}
    BY DEF SignInPcs, CarryPcs
<1>6. TypeOK
    <2>1. req \in [Procs -> [op : Ops \cup {"idle"},
                         pc : {"idle", "consumed", "exchanged", "found", "absent", "upserted",
                               "looked up", "admitted", "marked"},
                         via : Nonces \cup {None}, who : People \cup {None},
                         email : Addresses \cup {None}, user : Nat, cred : Nat,
                         late : SUBSET Nat]]
        BY <1>3, <1>5 DEF RequestsOK, RequestType
    <2>2. /\ users \in Seq(User) /\ sessions \in Seq(Credential) /\ tokens \in Seq(Credential)
          /\ DOMAIN sessions = {} /\ DOMAIN tokens = {}
        BY <1>1
    <2> QED BY <1>1, <2>1, <2>2 DEF TypeOK
<1> QED BY <1>3, <1>4, <1>6 DEF IInv

\* Every step keeps the invariant.
LEMMA NextIInv == IInv /\ [Next]_vars => IInv'
<1> SUFFICES ASSUME IInv, [Next]_vars
             PROVE  IInv'
    OBVIOUS
<1>1. CASE \E p \in Procs : Handle(p)
    BY <1>1, HandleKeeps
<1>2. CASE UNCHANGED vars
    BY <1>2, NoStep, WaitKeeps DEF vars
<1> QED BY <1>1, <1>2, WorldKeeps DEF Next

\* The invariant of all the theorems below.
LEMMA AccountsInvariant == Spec => []IInv
<1> QED BY InitIInv, NextIInv, PTL DEF Spec

\* Every variable of Accounts keeps its type, and ids refer to rows.
THEOREM AccountsTypeCorrect == Spec => []TypeOK
<1>1. IInv => TypeOK
    BY DEF IInv
<1> QED BY <1>1, AccountsInvariant, PTL

\* Whatever addresses change hands and accounts are purged and opened again, every
\* session and token is of the account of the person who signed in.
THEOREM OwnAccounts == Spec => []OwnAccount
<1>1. IInv => OwnAccount
    BY DEF IInv
<1> QED BY <1>1, AccountsInvariant, PTL

\* A nonce gives one session at most, however often and however concurrently its
\* callback is served.
THEOREM StatesUsedOnce == Spec => []OneSessionPerState
<1>1. IInv => OneSessionPerState
    BY DEF IInv
<1> QED BY <1>1, AccountsInvariant, PTL

\* Nobody is admitted in the name of an account that had been deleted when the
\* request arrived.
THEOREM DeletedAreLockedOut == Spec => []DeletedLockedOut
<1>1. IInv => DeletedLockedOut
    BY DEF IInv, RequestsOK, RequestOK, DeletedLockedOut
<1> QED BY <1>1, AccountsInvariant, PTL
=============================================================================
