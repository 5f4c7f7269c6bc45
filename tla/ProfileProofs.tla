---------------------------- MODULE ProfileProofs ----------------------------
(***************************************************************************)
(* Theorems about Profile, for any number of users, handles, requests in   *)
(* flight and agents: whom a public page names, who changes a profile, and *)
(* whom a handle leads to.                                                 *)
(***************************************************************************)
EXTENDS Profile, TLAPS

-----------------------------------------------------------------------------
(* The inductive invariant *)

RequestType ==
    [op : Ops \cup {"idle"}, pc : {"idle", "authed", "inserted", "loaded", "answered"},
     user : Users \cup {NULL}, handle : Handles \cup {NULL},
     patch : Fields \cup Patches \cup {NULL}, row : Nat, read : Fields \cup {NULL},
     shown : Users \cup {NULL}, gone : SUBSET Users, open : SUBSET Nat]

\* The agents whose flag is on
Flagged(ag) == {a \in DOMAIN ag : ag[a].profile.show = TRUE}

\* What a request knows of the agent that it has found stays true: whose it is, that
\* its flag was on when the page read it so, and whose accounts had gone.
Core(r, ag, del) ==
    /\ r.pc \in {"inserted", "loaded", "answered"} \/ r.op = "Restore" => r.row \in DOMAIN ag
    /\ r.op = "Create" => r.patch \in Fields /\ r.user \in Users /\ r.handle \in Handles
    /\ r.op = "DeleteAccount" => r.user \in Users
    /\ r.op = "Patch" => r.patch \in Patches
    /\ r.op \in {"Patch", "View"} /\ r.pc = "loaded" => r.read \in Fields
    /\ r.op = "Patch" /\ r.pc = "loaded" => ag[r.row].owner = r.user
    /\ r.op = "View" /\ r.pc = "loaded" /\ r.read.show = TRUE => r.row \in r.open
    /\ r.gone \subseteq del
    /\ r.shown # NULL => /\ r.pc = "answered" /\ r.shown = ag[r.row].owner
                         /\ r.row \in r.open /\ r.shown \notin r.gone

\* A request in flight has been told of every flag that is on.
Told(r, ag) == r # Idle => Flagged(ag) \subseteq r.open

\* A handle that is in the bin is taken as well.
UniqueHandles == \A a, b \in Present : agents[a].handle = agents[b].handle => a = b

PInv ==
    /\ agents \in Seq(Agent) /\ deleted \in SUBSET Users
    /\ req \in [Procs -> RequestType]
    /\ \A p \in Procs : Core(req[p], agents, deleted) /\ Told(req[p], agents)
    /\ UniqueHandles

-----------------------------------------------------------------------------
(* What the agents and the requests in flight keep *)

\* Rows come at the end, belong to whom they belonged, and never come back.
Evolves ==
    /\ DOMAIN agents \subseteq DOMAIN agents'
    /\ \A a \in DOMAIN agents :
          /\ agents'[a].owner = agents[a].owner /\ agents'[a].handle = agents[a].handle
          /\ agents[a].st = "purged" => agents'[a].st = "purged"

\* Nobody has a flag that was not on before.
SameFlags == Flagged(agents') \subseteq Flagged(agents)

\* What a request knows survives a step of others.
LEMMA CoreKept ==
    ASSUME Evolves, deleted \subseteq deleted', NEW r \in RequestType, Core(r, agents, deleted)
    PROVE  Core(r, agents', deleted')
<1>1. r.pc \in {"inserted", "loaded", "answered"} \/ r.op = "Restore" =>
          /\ r.row \in DOMAIN agents /\ r.row \in DOMAIN agents'
          /\ agents'[r.row].owner = agents[r.row].owner
    BY DEF Core, Evolves
<1> QED BY <1>1 DEF Core

\* A request that is told of more flags knows what it knew.
LEMMA CoreTold ==
    ASSUME NEW r \in RequestType, NEW ag, NEW del, NEW S \in SUBSET Nat, Core(r, ag, del)
    PROVE  /\ [r EXCEPT !.open = @ \cup S] \in RequestType
           /\ Core([r EXCEPT !.open = @ \cup S], ag, del)
<1> DEFINE q == [r EXCEPT !.open = @ \cup S]
<1>1. /\ q \in RequestType
      /\ q.op = r.op /\ q.pc = r.pc /\ q.patch = r.patch /\ q.row = r.row
      /\ q.user = r.user /\ q.handle = r.handle
      /\ q.read = r.read /\ q.shown = r.shown /\ q.gone = r.gone /\ r.open \subseteq q.open
    BY DEF RequestType
<1> HIDE DEF q
<1>2. Core(q, ag, del)
    BY <1>1 DEF Core
<1> QED BY <1>1, <1>2 DEF q

\* No request is in flight.
LEMMA IdleOK ==
    ASSUME NEW ag, NEW del
    PROVE  Idle \in RequestType /\ Core(Idle, ag, del) /\ Told(Idle, ag) /\ Idle.shown = NULL
BY DEF Idle, RequestType, Core, Told, Ops

\* A step in which one request goes on, and no flag is put on
LEMMA OneRequest ==
    ASSUME PInv, agents' \in Seq(Agent), Evolves, SameFlags, UniqueHandles',
           deleted' \in SUBSET Users, deleted \subseteq deleted', NEW p \in Procs,
           NEW r \in RequestType, req' = [req EXCEPT ![p] = r],
           Core(r, agents', deleted'), Told(r, agents')
    PROVE  PInv'
<1>1. /\ req' \in [Procs -> RequestType] /\ req'[p] = r
      /\ \A q \in Procs \ {p} : req'[q] = req[q]
    BY DEF PInv
<1>2. ASSUME NEW q \in Procs
      PROVE  Core(req'[q], agents', deleted') /\ Told(req'[q], agents')
    <2>1. CASE q = p
        BY <1>1, <2>1
    <2>2. CASE q # p
        BY <1>1, <2>2, CoreKept DEF PInv, Told, SameFlags
    <2> QED BY <2>1, <2>2
<1> QED BY <1>1, <1>2 DEF PInv

\* A step in which one request goes on, and all are told of the flags
LEMMA AllTold ==
    ASSUME PInv, agents' \in Seq(Agent), Evolves, UniqueHandles', UNCHANGED deleted,
           NEW p \in Procs, NEW r \in RequestType, req' = Watched([req EXCEPT ![p] = r]),
           Core(r, agents', deleted')
    PROVE  PInv'
<1> DEFINE f == [req EXCEPT ![p] = r]
           S == Flagged(agents')
           W(q) == IF f[q] = Idle THEN Idle ELSE [f[q] EXCEPT !.open = @ \cup S]
<1>1. /\ f \in [Procs -> RequestType] /\ f[p] = r /\ \A q \in Procs \ {p} : f[q] = req[q]
      /\ S \in SUBSET Nat
    BY DEF PInv, Flagged
<1>2. \A q \in Procs : req'[q] = W(q)
    BY DEF Watched, Flagged
<1>3. DOMAIN req' = Procs /\ req' = [q \in Procs |-> W(q)]
    BY DEF Watched, Flagged
<1> HIDE DEF f, S
<1>4. ASSUME NEW q \in Procs
      PROVE  W(q) \in RequestType /\ Core(W(q), agents', deleted') /\ Told(W(q), agents')
    <2>1. f[q] \in RequestType /\ Core(f[q], agents', deleted')
        BY <1>1, CoreKept DEF PInv
    <2>2. CASE f[q] = Idle
        BY <2>2, IdleOK
    <2>3. CASE f[q] # Idle
        <3>1. [f[q] EXCEPT !.open = @ \cup S] \in RequestType
              /\ Core([f[q] EXCEPT !.open = @ \cup S], agents', deleted')
            BY <1>1, <2>1, CoreTold
        <3>2. S \subseteq [f[q] EXCEPT !.open = @ \cup S].open
            BY <2>1 DEF RequestType
        <3> QED BY <2>3, <3>1, <3>2 DEF Told, S
    <2> QED BY <2>2, <2>3
<1> HIDE DEF W
<1>5. req' \in [Procs -> RequestType]
    BY <1>3, <1>4
<1> QED BY <1>2, <1>4, <1>5 DEF PInv

-----------------------------------------------------------------------------
(* What a step does to the agents *)

\* Nothing
LEMMA Untouched ==
    ASSUME PInv, UNCHANGED agents
    PROVE  agents' \in Seq(Agent) /\ Evolves /\ SameFlags /\ UniqueHandles'
BY DEF PInv, Evolves, SameFlags, UniqueHandles, Present

\* A change of state keeps the rest of every row.
LEMMA Restated ==
    ASSUME PInv, NEW g \in [DOMAIN agents -> {"live", "binned", "purged"}],
           \A a \in DOMAIN agents : agents[a].st = "purged" => g[a] = "purged",
           agents' = [a \in DOMAIN agents |-> [agents[a] EXCEPT !.st = g[a]]]
    PROVE  agents' \in Seq(Agent) /\ Evolves /\ SameFlags /\ UniqueHandles'
<1>1. DOMAIN agents = 1..Len(agents) /\ Len(agents) \in Nat /\ \A a \in DOMAIN agents : agents[a] \in Agent
    BY DEF PInv
<1>2. \A a \in DOMAIN agents :
          /\ agents'[a] \in Agent /\ agents'[a].st = g[a]
          /\ agents'[a].owner = agents[a].owner /\ agents'[a].handle = agents[a].handle
          /\ agents'[a].profile = agents[a].profile
    BY <1>1 DEF Agent
<1>3. agents' \in Seq(Agent) /\ DOMAIN agents' = DOMAIN agents
    <2>1. agents' \in [1..Len(agents) -> Agent]
        BY <1>1, <1>2
    <2> QED BY <1>1, <2>1
<1>4. Evolves /\ SameFlags
    BY <1>2, <1>3 DEF Evolves, SameFlags, Flagged
<1>5. UniqueHandles'
    BY <1>2, <1>3 DEF UniqueHandles, Present, PInv
<1> QED BY <1>3, <1>4, <1>5

\* One row that changes its state
LEMMA Moved ==
    ASSUME PInv, NEW a \in DOMAIN agents, NEW s \in {"live", "binned", "purged"}, Move(a, s)
    PROVE  agents' \in Seq(Agent) /\ Evolves /\ SameFlags /\ UniqueHandles'
<1> DEFINE g == [b \in DOMAIN agents |->
                   IF b = a /\ agents[b].st # "purged" THEN s ELSE agents[b].st]
<1>1. \A b \in DOMAIN agents : agents[b] \in Agent
    BY DEF PInv
<1>2. g \in [DOMAIN agents -> {"live", "binned", "purged"}]
    BY <1>1 DEF Agent
<1>3. \A b \in DOMAIN agents : [agents[b] EXCEPT !.st = agents[b].st] = agents[b]
    BY <1>1 DEF Agent
<1>4. agents' = [b \in DOMAIN agents |-> [agents[b] EXCEPT !.st = g[b]]]
    BY <1>1, <1>3 DEF Move
<1>5. \A b \in DOMAIN agents : agents[b].st = "purged" => g[b] = "purged"
    OBVIOUS
<1> HIDE DEF g
<1> QED BY <1>2, <1>4, <1>5, Restated
-----------------------------------------------------------------------------
(* Each action keeps the invariant *)

\* A request as it arrives, with the agent that it names by its id
Begun(op, u, h, f, a) ==
    [op |-> op, pc |-> "authed", user |-> u, handle |-> h, patch |-> f, row |-> a,
     read |-> NULL, shown |-> NULL, gone |-> deleted, open |-> Flagged(agents)]

\* Request has no agent yet; a restore names one.
LEMMA RequestBegun ==
    ASSUME NEW op, NEW u, NEW h, NEW f, NEW a
    PROVE  /\ Request(op, u, h, f) = Begun(op, u, h, f, 0)
           /\ [Request(op, u, h, f) EXCEPT !.row = a] = Begun(op, u, h, f, a)
<1>1. Request(op, u, h, f) = Begun(op, u, h, f, 0)
    BY DEF Request, Begun, Flagged
<1>2. [Begun(op, u, h, f, 0) EXCEPT !.row = a] = Begun(op, u, h, f, a)
    BY DEF Begun
<1> QED BY <1>1, <1>2

\* A request that arrives knows nothing yet, and is told of the flags that are on.
LEMMA BeginKeeps ==
    ASSUME PInv, NEW p \in Procs, UNCHANGED <<agents, deleted>>,
           NEW op \in Ops, NEW u \in Users \cup {NULL}, NEW h \in Handles \cup {NULL},
           NEW f \in Fields \cup Patches \cup {NULL}, NEW a \in {0} \cup DOMAIN agents,
           op = "Create" => f \in Fields /\ u \in Users /\ h \in Handles,
           op = "DeleteAccount" => u \in Users,
           op = "Patch" => f \in Patches,
           op = "Restore" => a \in DOMAIN agents,
           req' = [req EXCEPT ![p] = Begun(op, u, h, f, a)]
    PROVE  PInv'
<1> DEFINE r == Begun(op, u, h, f, a)
<1>1. /\ r.op = op /\ r.pc = "authed" /\ r.patch = f /\ r.row = a /\ r.shown = NULL
      /\ r.user = u /\ r.handle = h /\ r.gone = deleted /\ r.open = Flagged(agents)
    BY DEF Begun
<1>2. r \in RequestType
    <2>1. a \in Nat /\ Flagged(agents) \subseteq Nat /\ deleted \subseteq Users
        BY DEF PInv, Flagged
    <2> QED BY <2>1 DEF RequestType, Begun
<1> HIDE DEF r
<1>3. Core(r, agents, deleted) /\ Told(r, agents)
    BY <1>1 DEF Core, Told
<1>4. req' = [req EXCEPT ![p] = r]
    BY DEF r
<1> QED BY <1>2, <1>3, <1>4, Untouched, OneRequest DEF PInv

\* Whatever arrives, from whomever the middleware lets in
LEMMA ArriveKeeps ==
    ASSUME PInv, NEW p \in Procs, Arrive(p)
    PROVE  PInv'
<1>1. UNCHANGED <<agents, deleted>>
    BY DEF Arrive
<1>2. CASE \E u \in Users \ deleted, h \in Handles : \E f \in Fields :
              req' = [req EXCEPT ![p] = Request("Create", u, h, f)]
    <2>1. PICK u \in Users \ deleted, h \in Handles, f \in Fields :
              req' = [req EXCEPT ![p] = Request("Create", u, h, f)]
        BY <1>2
    <2>2. Request("Create", u, h, f) = Begun("Create", u, h, f, 0)
        BY RequestBegun
    <2> QED BY <1>1, <2>1, <2>2, BeginKeeps DEF Ops
<1>3. CASE \E u \in Users \ deleted, h \in Handles : \E f \in Patches :
              req' = [req EXCEPT ![p] = Request("Patch", u, h, f)]
    <2>1. PICK u \in Users \ deleted, h \in Handles, f \in Patches :
              req' = [req EXCEPT ![p] = Request("Patch", u, h, f)]
        BY <1>3
    <2>2. Request("Patch", u, h, f) = Begun("Patch", u, h, f, 0)
        BY RequestBegun
    <2> QED BY <1>1, <2>1, <2>2, BeginKeeps DEF Ops
<1>4. CASE \E u \in Users \ deleted, h \in Handles :
              req' = [req EXCEPT ![p] = Request("Delete", u, h, NULL)]
    <2>1. PICK u \in Users \ deleted, h \in Handles :
              req' = [req EXCEPT ![p] = Request("Delete", u, h, NULL)]
        BY <1>4
    <2>2. Request("Delete", u, h, NULL) = Begun("Delete", u, h, NULL, 0)
        BY RequestBegun
    <2> QED BY <1>1, <2>1, <2>2, BeginKeeps DEF Ops
<1>5. CASE \E u \in Users \ deleted, a \in DOMAIN agents :
              req' = [req EXCEPT ![p] = [Request("Restore", u, NULL, NULL) EXCEPT !.row = a]]
    <2>1. PICK u \in Users \ deleted, a \in DOMAIN agents :
              req' = [req EXCEPT ![p] = [Request("Restore", u, NULL, NULL) EXCEPT !.row = a]]
        BY <1>5
    <2>2. [Request("Restore", u, NULL, NULL) EXCEPT !.row = a] = Begun("Restore", u, NULL, NULL, a)
        BY RequestBegun
    <2>3. req' = [req EXCEPT ![p] = Begun("Restore", u, NULL, NULL, a)]
        BY <2>1, <2>2
    <2>4. /\ "Restore" \in Ops /\ u \in Users \cup {NULL} /\ NULL \in Handles \cup {NULL}
          /\ NULL \in Fields \cup Patches \cup {NULL} /\ a \in {0} \cup DOMAIN agents
        BY DEF Ops
    <2> QED BY <1>1, <2>3, <2>4, BeginKeeps
<1>6. CASE \E u \in Users \ deleted :
              req' = [req EXCEPT ![p] = Request("DeleteAccount", u, NULL, NULL)]
    <2>1. PICK u \in Users \ deleted :
              req' = [req EXCEPT ![p] = Request("DeleteAccount", u, NULL, NULL)]
        BY <1>6
    <2>2. Request("DeleteAccount", u, NULL, NULL) = Begun("DeleteAccount", u, NULL, NULL, 0)
        BY RequestBegun
    <2> QED BY <1>1, <2>1, <2>2, BeginKeeps DEF Ops
<1>7. CASE \E h \in Handles : req' = [req EXCEPT ![p] = Request("View", NULL, h, NULL)]
    <2>1. PICK h \in Handles :
              req' = [req EXCEPT ![p] = Request("View", NULL, h, NULL)]
        BY <1>7
    <2>2. Request("View", NULL, h, NULL) = Begun("View", NULL, h, NULL, 0)
        BY RequestBegun
    <2> QED BY <1>1, <2>1, <2>2, BeginKeeps DEF Ops
<1> QED BY <1>2, <1>3, <1>4, <1>5, <1>6, <1>7 DEF Arrive

\* A request that ends is forgotten.
LEMMA IdleKeeps ==
    ASSUME PInv, agents' \in Seq(Agent), Evolves, SameFlags, UniqueHandles',
           deleted' \in SUBSET Users, deleted \subseteq deleted', NEW p \in Procs,
           req' = [req EXCEPT ![p] = Idle]
    PROVE  PInv'
BY IdleOK, OneRequest

\* A state that the request of one process writes to its row
LEMMA MoveKeeps ==
    ASSUME PInv, NEW p \in Procs, req[p].row \in DOMAIN agents,
           NEW s \in {"live", "binned", "purged"}, Move(req[p].row, s),
           req' = [req EXCEPT ![p] = Idle], UNCHANGED deleted
    PROVE  PInv'
<1>1. deleted' \in SUBSET Users /\ deleted \subseteq deleted'
    BY DEF PInv
<1> QED BY <1>1, Moved, IdleKeeps

\* A handle is given to one agent only: the insert looks at every row that is there.
LEMMA InsertKeeps ==
    ASSUME PInv, NEW p \in Procs, InsertAgent(p)
    PROVE  PInv'
<1>1. req[p] \in RequestType /\ Core(req[p], agents, deleted) /\ req[p].op = "Create"
      /\ req[p].pc = "authed"
    BY DEF PInv, InsertAgent, At
<1> DEFINE new == [owner |-> req[p].user, handle |-> req[p].handle, st |-> "live",
                   profile |-> req[p].patch]
           m == Len(agents) + 1
           r == [req[p] EXCEPT !.pc = "inserted", !.row = m]
<1>2. new \in Agent /\ new.handle = req[p].handle
    BY <1>1 DEF Core, Agent
<1>3. agents \in Seq(Agent) /\ agents' = Append(agents, new) /\ Len(agents) \in Nat
    BY DEF PInv, InsertAgent
<1> HIDE DEF new
<1>4. /\ agents' \in Seq(Agent) /\ Len(agents') = m /\ agents'[m] = new
      /\ DOMAIN agents' = DOMAIN agents \cup {m}
      /\ \A a \in DOMAIN agents : agents'[a] = agents[a]
    BY <1>2, <1>3
<1>5. Evolves
    BY <1>4 DEF Evolves
<1>6. UniqueHandles'
    <2>1. \A a \in Present : agents[a].handle # new.handle
        BY <1>2 DEF InsertAgent, HandleTaken
    <2>2. Present' \subseteq Present \cup {m} /\ \A a \in Present : a \in DOMAIN agents
        BY <1>4 DEF Present
    <2> QED BY <1>4, <2>1, <2>2 DEF PInv, UniqueHandles
<1>7. /\ r \in RequestType /\ r.op = "Create" /\ r.pc = "inserted" /\ r.row = m
      /\ r.patch = req[p].patch /\ r.user = req[p].user /\ r.handle = req[p].handle
      /\ r.gone = req[p].gone /\ r.shown = req[p].shown
    <2> DEFINE q == [req[p] EXCEPT !.pc = "inserted"]
    <2>1. /\ q \in RequestType /\ q.op = "Create" /\ q.pc = "inserted"
          /\ q.patch = req[p].patch /\ q.user = req[p].user /\ q.handle = req[p].handle
          /\ q.gone = req[p].gone /\ q.shown = req[p].shown /\ r = [q EXCEPT !.row = m]
        BY <1>1 DEF RequestType
    <2> HIDE DEF q
    <2>2. m \in Nat
        BY <1>3
    <2> QED BY <2>1, <2>2 DEF RequestType
<1>8. req' = Watched([req EXCEPT ![p] = r]) /\ UNCHANGED deleted
    BY <1>4 DEF InsertAgent
<1> HIDE DEF r
<1>9. Core(r, agents', deleted')
    BY <1>1, <1>4, <1>7, <1>8 DEF Core
<1> QED BY <1>4, <1>5, <1>6, <1>7, <1>8, <1>9, AllTold

\* The profile is written to the agent that was found, which is still its owner's.
LEMMA UpdateKeeps ==
    ASSUME PInv, NEW p \in Procs, UpdateAgentProfile(p)
    PROVE  PInv'
<1>1. /\ req[p] \in RequestType /\ req[p].patch \in Patches /\ req[p].read \in Fields
    BY DEF PInv, UpdateAgentProfile, At, Core
<1> DEFINE f == Merged(req[p].patch, req[p].read)
           R == RowsUpdated(req[p])
<1>2. f \in Fields
    BY <1>1 DEF Merged, Patches, Fields
<1>3. agents' = [a \in DOMAIN agents |->
                   IF a \in R THEN [agents[a] EXCEPT !.profile = f] ELSE agents[a]]
    BY DEF UpdateAgentProfile
<1> HIDE DEF f, R
<1>4. /\ DOMAIN agents = 1..Len(agents) /\ Len(agents) \in Nat
      /\ \A a \in DOMAIN agents : agents[a] \in Agent
    BY DEF PInv
<1>5. \A a \in DOMAIN agents :
          /\ agents'[a] \in Agent /\ agents'[a].st = agents[a].st
          /\ agents'[a].owner = agents[a].owner /\ agents'[a].handle = agents[a].handle
    BY <1>2, <1>3, <1>4 DEF Agent
<1>6. agents' \in Seq(Agent) /\ DOMAIN agents' = DOMAIN agents
    <2>1. agents' \in [1..Len(agents) -> Agent]
        BY <1>3, <1>4, <1>5
    <2> QED BY <1>4, <2>1
<1>7. Evolves
    BY <1>5, <1>6 DEF Evolves
<1>8. UniqueHandles'
    BY <1>5, <1>6 DEF UniqueHandles, Present, PInv
<1>9. req' = Watched([req EXCEPT ![p] = Idle]) /\ UNCHANGED deleted
    BY DEF UpdateAgentProfile
<1> QED BY <1>6, <1>7, <1>8, <1>9, IdleOK, AllTold

\* A request that only looks, at what is there
LEMMA LookKeeps ==
    ASSUME PInv, NEW p \in Procs, UNCHANGED <<agents, deleted>>, req[p] # Idle,
           NEW r \in RequestType, req' = [req EXCEPT ![p] = r], r.open = req[p].open,
           Core(r, agents, deleted)
    PROVE  PInv'
<1>1. Told(r, agents)
    BY DEF PInv, Told
<1> QED BY <1>1, Untouched, OneRequest DEF PInv

\* The agent that a handler or the page has looked up, with its profile
LEMMA LoadKeeps ==
    ASSUME PInv, NEW p \in Procs, LoadOwnedAgent(p) \/ GetAgentByHandle(p)
    PROVE  PInv'
<1> DEFINE q == req[p]
<1>1. /\ q \in RequestType /\ Core(q, agents, deleted) /\ Told(q, agents)
      /\ q.op \in {"Patch", "Delete", "View"} /\ q.pc = "authed" /\ q # Idle
      /\ UNCHANGED <<agents, deleted>>
    <2>1. q.op \in {"Patch", "Delete", "View"} /\ q.pc = "authed" /\ UNCHANGED <<agents, deleted>>
        BY DEF LoadOwnedAgent, GetAgentByHandle, At
    <2>2. Idle.pc = "idle"
        BY DEF Idle
    <2> QED BY <2>1, <2>2 DEF PInv
<1>2. PICK a \in Live :
          /\ req' = [req EXCEPT ![p].pc = "loaded", ![p].row = a, ![p].read = agents[a].profile]
          /\ q.op # "View" => agents[a].owner = q.user
    BY DEF LoadOwnedAgent, GetAgentByHandle, At, Owns
<1>3. a \in DOMAIN agents /\ a \in Nat /\ agents[a] \in Agent /\ agents[a].profile \in Fields
    <2>1. a \in DOMAIN agents /\ agents \in Seq(Agent)
        BY DEF Live, PInv
    <2>2. a \in Nat /\ agents[a] \in Agent
        BY <2>1
    <2> QED BY <2>1, <2>2 DEF Agent
<1> DEFINE f == agents[a].profile
           r == [q EXCEPT !.pc = "loaded", !.row = a, !.read = f]
<1>4. req' = [req EXCEPT ![p] = r]
    BY <1>2 DEF PInv
<1>5. /\ r \in RequestType /\ r.pc = "loaded" /\ r.row = a /\ r.read = f /\ r.op = q.op
      /\ r.patch = q.patch /\ r.user = q.user /\ r.gone = q.gone /\ r.open = q.open
      /\ r.shown = q.shown
    <2> HIDE DEF f
    <2> DEFINE r1 == [q EXCEPT !.pc = "loaded"]
               r2 == [r1 EXCEPT !.row = a]
    <2>1. /\ r1 \in RequestType /\ r1.pc = "loaded" /\ r1.op = q.op
          /\ r1.patch = q.patch /\ r1.user = q.user /\ r1.gone = q.gone /\ r1.open = q.open
          /\ r1.shown = q.shown
        BY <1>1 DEF RequestType
    <2> HIDE DEF r1
    <2>2. /\ r2 \in RequestType /\ r2.pc = "loaded" /\ r2.row = a /\ r2.op = q.op
          /\ r2.patch = q.patch /\ r2.user = q.user /\ r2.gone = q.gone /\ r2.open = q.open
          /\ r2.shown = q.shown
        BY <1>3, <2>1 DEF RequestType
    <2>3. r = [r2 EXCEPT !.read = f]
        BY DEF r1
    <2> HIDE DEF r2, r
    <2>4. f \in Fields
        BY <1>3 DEF f
    <2> QED BY <2>2, <2>3, <2>4 DEF RequestType
<1> HIDE DEF r
<1>6. f.show = TRUE => a \in q.open
    BY <1>1, <1>3 DEF Told, Flagged
<1>7. Core(r, agents, deleted)
    <2>1. q.shown = NULL
        BY <1>1 DEF Core
    <2>2. q.op = "Patch" => q.patch \in Patches /\ agents[a].owner = q.user
        BY <1>1, <1>2 DEF Core
    <2> QED BY <1>1, <1>3, <1>5, <1>6, <2>1, <2>2 DEF Core
<1> QED BY <1>1, <1>4, <1>5, <1>7, LookKeeps

\* A restore has found its agent in the bin.
LEMMA FindKeeps ==
    ASSUME PInv, NEW p \in Procs, GetBinnedAgentForOwner(p)
    PROVE  PInv'
<1> DEFINE q == req[p]
           r == [q EXCEPT !.pc = "loaded"]
<1>1. /\ q \in RequestType /\ Core(q, agents, deleted) /\ q.op = "Restore" /\ q.pc = "authed"
      /\ q # Idle /\ UNCHANGED <<agents, deleted>> /\ req' = [req EXCEPT ![p] = r]
    BY DEF PInv, GetBinnedAgentForOwner, At, Idle
<1>2. /\ r \in RequestType /\ r.pc = "loaded" /\ r.row = q.row /\ r.op = q.op
      /\ r.gone = q.gone /\ r.open = q.open /\ r.shown = q.shown
    BY <1>1 DEF RequestType
<1> HIDE DEF r
<1>3. Core(r, agents, deleted)
    BY <1>1, <1>2 DEF Core
<1> QED BY <1>1, <1>2, <1>3, LookKeeps

\* The page names the owner only if the flag that it read was on and the account is
\* there now, hence was when the page was asked for.
LEMMA NameKeeps ==
    ASSUME PInv, NEW p \in Procs, GetUserByID(p)
    PROVE  PInv'
<1> DEFINE q == req[p]
<1>1. /\ q \in RequestType /\ Core(q, agents, deleted) /\ q.op = "View" /\ q.pc = "loaded"
      /\ q # Idle /\ UNCHANGED <<agents, deleted>>
    BY DEF PInv, GetUserByID, At, Idle
<1> DEFINE u == agents[q.row].owner
<1>2. PICK s \in {NULL, u} :
          /\ req' = [req EXCEPT ![p].pc = "answered", ![p].shown = s]
          /\ s # NULL => s = u /\ q.read.show /\ u \notin deleted
    BY DEF GetUserByID, NotDeleted
<1>3. q.row \in DOMAIN agents /\ u \in Users /\ q.read \in Fields
    <2>1. q.row \in DOMAIN agents /\ q.read \in Fields
        BY <1>1 DEF Core
    <2>2. agents[q.row] \in Agent
        BY <2>1 DEF PInv
    <2> QED BY <2>1, <2>2 DEF Agent
<1> DEFINE r == [q EXCEPT !.pc = "answered", !.shown = s]
<1>4. req' = [req EXCEPT ![p] = r]
    BY <1>2 DEF PInv
<1>5. /\ r \in RequestType /\ r.pc = "answered" /\ r.shown = s /\ r.row = q.row
      /\ r.op = q.op /\ r.gone = q.gone /\ r.open = q.open
    <2>1. s \in Users \cup {NULL}
        BY <1>3
    <2> HIDE DEF u
    <2> DEFINE r1 == [q EXCEPT !.pc = "answered"]
    <2>2. /\ r1 \in RequestType /\ r1.pc = "answered" /\ r1.row = q.row /\ r1.op = q.op
          /\ r1.gone = q.gone /\ r1.open = q.open /\ r = [r1 EXCEPT !.shown = s]
        BY <1>1 DEF RequestType
    <2> HIDE DEF r1, r
    <2> QED BY <2>1, <2>2 DEF RequestType
<1> HIDE DEF r
<1>6. s # NULL => q.row \in q.open /\ s \notin q.gone
    BY <1>1, <1>2 DEF Core
<1>7. Core(r, agents, deleted)
    BY <1>1, <1>2, <1>3, <1>5, <1>6 DEF Core
<1> QED BY <1>1, <1>4, <1>5, <1>7, LookKeeps

\* A deleted account's agents go into the bin, whatever they were found for.
LEMMA UserKeeps ==
    ASSUME PInv, NEW p \in Procs, SoftDeleteUser(p)
    PROVE  PInv'
<1> DEFINE u == req[p].user
           g == [a \in DOMAIN agents |->
                   IF agents[a].owner = u /\ a \in Live THEN "binned" ELSE agents[a].st]
<1>1. u \in Users /\ deleted \in SUBSET Users
    BY DEF PInv, SoftDeleteUser, At, Core
<1>2. \A a \in DOMAIN agents : agents[a] \in Agent
    BY DEF PInv
<1>3. g \in [DOMAIN agents -> {"live", "binned", "purged"}]
    BY <1>2 DEF Agent
<1>4. \A a \in DOMAIN agents : [agents[a] EXCEPT !.st = agents[a].st] = agents[a]
    BY <1>2 DEF Agent
<1>5. agents' = [a \in DOMAIN agents |-> [agents[a] EXCEPT !.st = g[a]]]
    BY <1>4 DEF SoftDeleteUser
<1>6. \A a \in DOMAIN agents : agents[a].st = "purged" => g[a] = "purged"
    BY DEF Live
<1>7. agents' \in Seq(Agent) /\ Evolves /\ SameFlags /\ UniqueHandles'
    <2> HIDE DEF g
    <2> QED BY <1>3, <1>5, <1>6, Restated
<1>8. /\ deleted' \in SUBSET Users /\ deleted \subseteq deleted'
      /\ req' = [req EXCEPT ![p] = Idle]
    BY <1>1 DEF SoftDeleteUser
<1> QED BY <1>7, <1>8, IdleKeeps

-----------------------------------------------------------------------------
(* The theorems *)

\* No agent, and no request.
LEMMA InitPInv == Init => PInv
<1> SUFFICES ASSUME Init PROVE PInv
    OBVIOUS
<1>1. agents \in Seq(Agent) /\ UniqueHandles /\ deleted \in SUBSET Users
    BY DEF Init, UniqueHandles, Present
<1>2. \A p \in Procs : req[p] = Idle
    BY DEF Init
<1>3. req \in [Procs -> RequestType]
    BY IdleOK DEF Init
<1> QED BY <1>1, <1>2, <1>3, IdleOK DEF PInv

\* Every step keeps the invariant.
LEMMA NextPInv == PInv /\ [Next]_vars => PInv'
<1> SUFFICES ASSUME PInv, [Next]_vars PROVE PInv'
    OBVIOUS
<1>1. CASE UNCHANGED vars
    BY <1>1 DEF vars, PInv, UniqueHandles, Present
<1>2. ASSUME NEW p \in Procs, Return(p) PROVE PInv'
    BY <1>2, Untouched, IdleKeeps DEF Return, PInv
<1>3. ASSUME NEW p \in Procs, UndoCreate(p) PROVE PInv'
    <2>1. req[p].row \in DOMAIN agents
        BY <1>3 DEF UndoCreate, At, PInv, Core
    <2> QED BY <1>3, <2>1, MoveKeeps DEF UndoCreate
<1>4. ASSUME NEW p \in Procs, SoftDeleteAgent(p) PROVE PInv'
    <2>1. req[p].row \in DOMAIN agents
        BY <1>4 DEF SoftDeleteAgent, At, PInv, Core
    <2> QED BY <1>4, <2>1, MoveKeeps DEF SoftDeleteAgent
<1>5. ASSUME NEW p \in Procs, RestoreAgent(p) PROVE PInv'
    <2>1. req[p].row \in DOMAIN agents
        BY <1>5 DEF RestoreAgent, At, PInv, Core
    <2> QED BY <1>5, <2>1, MoveKeeps DEF RestoreAgent
<1>6. ASSUME NEW a \in DOMAIN agents, PurgeAgent(a) PROVE PInv'
    <2>1. agents' \in Seq(Agent) /\ Evolves /\ SameFlags /\ UniqueHandles' /\ UNCHANGED <<deleted, req>>
        BY <1>6, Moved DEF PurgeAgent
    <2>2. \A p \in Procs : Core(req[p], agents', deleted') /\ Told(req[p], agents')
        BY <2>1, CoreKept DEF PInv, Told, SameFlags
    <2> QED BY <2>1, <2>2 DEF PInv
<1> QED BY <1>1, <1>2, <1>3, <1>4, <1>5, <1>6, ArriveKeeps, InsertKeeps, LoadKeeps, UpdateKeeps,
        FindKeeps, UserKeeps, NameKeeps DEF Next

\* What a request knows of the agent that it has found stays true to its end, though
\* its handle, its profile and its account change hands meanwhile.
THEOREM ProfileInvariant == Spec => []PInv
BY InitPInv, NextPInv, PTL DEF Spec

\* Every variable of Profile has its type.
THEOREM ProfileTypeCorrect == Spec => []TypeOK
<1>1. PInv => TypeOK
    BY DEF PInv, Core, TypeOK, RequestType
<1> QED BY <1>1, ProfileInvariant, PTL

\* A page names as operator only the owner of its agent, of an agent whose flag was on
\* while the page was made, and nobody whose account had gone before.
THEOREM OperatorsConsent == Spec => []OperatorConsent
<1>1. PInv => OperatorConsent
    BY DEF PInv, Core, OperatorConsent
<1> QED BY <1>1, ProfileInvariant, PTL

\* A handle leads to one agent only, of however many there are in the bin.
THEOREM HandlesAreUnique == Spec => []OneAgentPerHandle
<1>1. PInv => OneAgentPerHandle
    BY DEF PInv, UniqueHandles, OneAgentPerHandle, Present, Live
<1> QED BY <1>1, ProfileInvariant, PTL

\* Only its owner changes an agent's profile, whoever has its handle meanwhile.
THEOREM OwnersPatch == Spec => OwnerPatches
<1>1. PInv /\ [Next]_vars => [\A a \in DOMAIN agents :
         agents'[a].profile # agents[a].profile =>
             \E p \in Procs : At(p, "Patch", "loaded") /\ req[p].user = agents[a].owner]_vars
    <2> SUFFICES ASSUME PInv, Next, NEW a \in DOMAIN agents,
                        agents'[a].profile # agents[a].profile
                 PROVE  \E p \in Procs : At(p, "Patch", "loaded") /\ req[p].user = agents[a].owner
        OBVIOUS
    <2>1. \A s : \A b \in DOMAIN agents : [agents[b] EXCEPT !.st = s].profile = agents[b].profile
        BY DEF PInv, Agent
    <2>2. ASSUME NEW b, NEW s, Move(b, s) PROVE FALSE
        BY <2>1, <2>2 DEF Move, PInv
    <2>3. ASSUME NEW p \in Procs, InsertAgent(p) PROVE FALSE
        BY <2>3 DEF InsertAgent, PInv
    <2>4. ASSUME NEW p \in Procs, SoftDeleteUser(p) PROVE FALSE
        BY <2>1, <2>4 DEF SoftDeleteUser
    <2>5. PICK p \in Procs : UpdateAgentProfile(p)
        BY <2>2, <2>3, <2>4 DEF Next, Arrive, Return, UndoCreate, LoadOwnedAgent, SoftDeleteAgent,
           GetBinnedAgentForOwner, RestoreAgent, GetAgentByHandle, GetUserByID, PurgeAgent
    <2>6. a = req[p].row
        BY <2>5 DEF UpdateAgentProfile, RowsUpdated
    <2> QED BY <2>5, <2>6 DEF UpdateAgentProfile, PInv, Core, At
<1> QED BY <1>1, ProfileInvariant, PTL DEF Spec, OwnerPatches
==============================================================================
