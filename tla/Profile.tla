------------------------------ MODULE Profile ------------------------------
(***************************************************************************)
(* The agents of all accounts under their handles: creation, the patch of  *)
(* a profile, binning, restoring and purging, account deletion, and the    *)
(* public page that may name the operator, the person behind the agent.    *)
(*                                                                         *)
(* A handler looks an agent up by its handle, and writes by its id in a    *)
(* later statement; Update writes every column of the row it has read.     *)
(* The public page reads the agent and its owner in two statements.        *)
(***************************************************************************)
EXTENDS Integers, Sequences

CONSTANTS
    Users,
    Handles,
    Bios,        \* the values of bio, which stands for all fields but the flag
    NULL,
    Procs,       \* requests in flight at once
    MaxAgents    \* bound on the rows ever inserted

ASSUME ProfileAssumption ==
    /\ NULL \notin Users \cup Bios
    /\ MaxAgents \in Nat

VARIABLES
    agents,   \* rows of agents in the order of their ids, which are not used again
    deleted,  \* the users with deleted_at
    req       \* the request each process is serving

vars == <<agents, deleted, req>>

-----------------------------------------------------------------------------
(* Rows *)

Fields == [bio : Bios, show : BOOLEAN]
Agent == [owner : Users, handle : Handles, st : {"live", "binned", "purged"}, profile : Fields]

\* A patch names some fields; NULL stands for those it does not name
Patches == [bio : Bios \cup {NULL}, show : BOOLEAN \cup {NULL}]

Present == {a \in DOMAIN agents : agents[a].st # "purged"}
Live == {a \in DOMAIN agents : agents[a].st = "live"}

\* Mutant: a unique index over the rows that are not in the bin
TakenByLive(h) == \E a \in Live : agents[a].handle = h
\* UNIQUE (LOWER(handle)), in the bin as well
HandleTaken(h) == \E a \in Present : agents[a].handle = h

\* UPDATE or DELETE ... WHERE id = a: a row that has gone stays gone
Move(a, s) == agents' = [agents EXCEPT ![a].st = IF @ = "purged" THEN @ ELSE s]

-----------------------------------------------------------------------------
(* Requests *)

Ops == {"Create", "Patch", "Delete", "Restore", "DeleteAccount", "View"}

\* user: whose session it is; handle: in the path; patch: in the body; row: the agent
\* found; read: its profile then; shown: the operator that the page names.  History:
\* gone, the users deleted when the request arrived; open, the agents whose flag has
\* been on at some time since.
Request(op, u, h, f) ==
    [op |-> op, pc |-> "authed", user |-> u, handle |-> h, patch |-> f, row |-> 0,
     read |-> NULL, shown |-> NULL, gone |-> deleted,
     open |-> {a \in DOMAIN agents : agents[a].profile.show = TRUE}]
Idle == [op |-> "idle", pc |-> "idle", user |-> NULL, handle |-> NULL, patch |-> NULL, row |-> 0,
         read |-> NULL, shown |-> NULL, gone |-> {}, open |-> {}]

At(p, op, pc) == req[p].op = op /\ req[p].pc = pc

\* The middleware lets no deleted account in; the public page needs none.  A restore
\* names an agent by its id.
Arrive(p) ==
    /\ req[p] = Idle
    /\ \/ \E u \in Users \ deleted, h \in Handles :
             \/ \E f \in Fields : req' = [req EXCEPT ![p] = Request("Create", u, h, f)]
             \/ \E f \in Patches : req' = [req EXCEPT ![p] = Request("Patch", u, h, f)]
             \/ req' = [req EXCEPT ![p] = Request("Delete", u, h, NULL)]
       \/ \E u \in Users \ deleted, a \in DOMAIN agents :
             req' = [req EXCEPT ![p] = [Request("Restore", u, NULL, NULL) EXCEPT !.row = a]]
       \/ \E u \in Users \ deleted :
             req' = [req EXCEPT ![p] = Request("DeleteAccount", u, NULL, NULL)]
       \/ \E h \in Handles : req' = [req EXCEPT ![p] = Request("View", NULL, h, NULL)]
    /\ UNCHANGED <<agents, deleted>>

\* The request ends: with its answer, a failed check, an error or the timeout
Return(p) ==
    /\ req[p] # Idle
    /\ req' = [req EXCEPT ![p] = Idle]
    /\ UNCHANGED <<agents, deleted>>

\* Every request in flight is told of a flag that is on
Watched(r) ==
    [q \in Procs |->
        IF r[q] = Idle THEN Idle
        ELSE [r[q] EXCEPT !.open = @ \cup {a \in DOMAIN agents' : agents'[a].profile.show = TRUE}]]

-----------------------------------------------------------------------------
(* The owner's handlers *)

\* Create: the row, unless the handle is taken
InsertAgent(p) ==
    LET r == req[p] IN
    /\ At(p, "Create", "authed")
    /\ ~HandleTaken(r.handle)
    /\ Len(agents) < MaxAgents
    /\ agents' = Append(agents, [owner |-> r.user, handle |-> r.handle, st |-> "live",
                                 profile |-> r.patch])
    /\ req' = Watched([req EXCEPT ![p].pc = "inserted", ![p].row = Len(agents')])
    /\ UNCHANGED deleted

\* The key cannot be inserted: the agent goes into the bin
UndoCreate(p) ==
    /\ At(p, "Create", "inserted")
    /\ Move(req[p].row, "binned")
    /\ req' = [req EXCEPT ![p] = Idle]
    /\ UNCHANGED deleted

\* Mutant: the handle alone decides
OwnsAny(u, a) == TRUE
Owns(u, a) == agents[a].owner = u

LoadOwnedAgent(p) ==
    LET r == req[p] IN
    /\ r.op \in {"Patch", "Delete"} /\ r.pc = "authed"
    /\ \E a \in Live :
          /\ agents[a].handle = r.handle /\ Owns(r.user, a)
          /\ req' = [req EXCEPT ![p].pc = "loaded", ![p].row = a, ![p].read = agents[a].profile]
    /\ UNCHANGED <<agents, deleted>>

\* Update: what the patch does not name is taken from the row that was read
Merged(f, old) ==
    [bio |-> IF f.bio = NULL THEN old.bio ELSE f.bio,
     show |-> IF f.show = NULL THEN old.show ELSE f.show]

\* Mutant: UPDATE ... WHERE handle = ...
RowsNamed(r) == {a \in Present : agents[a].handle = r.handle}
RowsUpdated(r) == {r.row} \cap Present

UpdateAgentProfile(p) ==
    LET r == req[p] IN
    /\ At(p, "Patch", "loaded")
    /\ agents' = [a \in DOMAIN agents |->
                    IF a \in RowsUpdated(r)
                    THEN [agents[a] EXCEPT !.profile = Merged(r.patch, r.read)]
                    ELSE agents[a]]
    /\ req' = Watched([req EXCEPT ![p] = Idle])
    /\ UNCHANGED deleted

SoftDeleteAgent(p) ==
    /\ At(p, "Delete", "loaded")
    /\ Move(req[p].row, "binned")
    /\ req' = [req EXCEPT ![p] = Idle]
    /\ UNCHANGED deleted

GetBinnedAgentForOwner(p) ==
    LET r == req[p] IN
    /\ At(p, "Restore", "authed")
    /\ agents[r.row].st = "binned" /\ Owns(r.user, r.row)
    /\ req' = [req EXCEPT ![p].pc = "loaded"]
    /\ UNCHANGED <<agents, deleted>>

RestoreAgent(p) ==
    /\ At(p, "Restore", "loaded")
    /\ Move(req[p].row, "live")
    /\ req' = [req EXCEPT ![p] = Idle]
    /\ UNCHANGED deleted

\* softDeleteUserTx
SoftDeleteUser(p) ==
    LET u == req[p].user IN
    /\ At(p, "DeleteAccount", "authed")
    /\ deleted' = deleted \cup {u}
    /\ agents' = [a \in DOMAIN agents |->
                    IF agents[a].owner = u /\ a \in Live
                    THEN [agents[a] EXCEPT !.st = "binned"] ELSE agents[a]]
    /\ req' = [req EXCEPT ![p] = Idle]

\* The worker, which takes an expired account's agents live or not, or the owner, by id
\* after a check that found it in the bin: deadlines are left out
PurgeAgent(a) ==
    /\ agents[a].st \in {"live", "binned"}
    /\ Move(a, "purged")
    /\ UNCHANGED <<deleted, req>>

-----------------------------------------------------------------------------
(* The public page *)

\* GetAgent: first the agent
GetAgentByHandle(p) ==
    /\ At(p, "View", "authed")
    /\ \E a \in Live :
          /\ agents[a].handle = req[p].handle
          /\ req' = [req EXCEPT ![p].pc = "loaded", ![p].row = a, ![p].read = agents[a].profile]
    /\ UNCHANGED <<agents, deleted>>

\* Mutant: the owner's row is there, which is enough
IsUser(u) == u \in Users
NotDeleted(u) == u \notin deleted

\* then its owner, if the flag was on; the owner's row may be in error, or purged
GetUserByID(p) ==
    LET r == req[p]
        u == agents[r.row].owner
    IN
    /\ At(p, "View", "loaded")
    /\ \E s \in {NULL} \cup (IF r.read.show /\ NotDeleted(u) THEN {u} ELSE {}) :
          req' = [req EXCEPT ![p].pc = "answered", ![p].shown = s]
    /\ UNCHANGED <<agents, deleted>>

-----------------------------------------------------------------------------

Init ==
    /\ agents = <<>>
    /\ deleted = {}
    /\ req = [p \in Procs |-> Idle]

Next ==
    \/ \E p \in Procs :
          \/ Arrive(p) \/ Return(p)
          \/ InsertAgent(p) \/ UndoCreate(p)
          \/ LoadOwnedAgent(p) \/ UpdateAgentProfile(p) \/ SoftDeleteAgent(p)
          \/ GetBinnedAgentForOwner(p) \/ RestoreAgent(p) \/ SoftDeleteUser(p)
          \/ GetAgentByHandle(p) \/ GetUserByID(p)
    \/ \E a \in DOMAIN agents : PurgeAgent(a)

Spec == Init /\ [][Next]_vars

-----------------------------------------------------------------------------
(* Properties *)

\* Every variable has its type, and a request that has found an agent its row.
TypeOK ==
    /\ agents \in Seq(Agent)
    /\ deleted \in SUBSET Users
    /\ \A p \in Procs :
          LET r == req[p] IN
          /\ r.op \in Ops \cup {"idle"}
          /\ r.pc \in {"idle", "authed", "inserted", "loaded", "answered"}
          /\ r.user \in Users \cup {NULL} /\ r.handle \in Handles \cup {NULL}
          /\ r.pc \in {"inserted", "loaded", "answered"} \/ r.op = "Restore" => r.row \in DOMAIN agents
          /\ r.op = "Create" => r.patch \in Fields
          /\ r.op = "Patch" => r.patch \in Patches
          /\ r.op \in {"Patch", "View"} /\ r.pc = "loaded" => r.read \in Fields
          /\ r.shown \in Users \cup {NULL}
          /\ r.gone \in SUBSET Users

\* public/agent.go: a page names as operator only the owner of its agent, of an agent
\* whose flag was on at some time while the page was made, and nobody whose account
\* had been deleted before: though an agent may still be created, restored or patched
\* in the name of a deleted account by a request that was under way.
OperatorConsent ==
    \A p \in Procs :
        LET r == req[p] IN
        r.shown # NULL =>
            /\ r.shown = agents[r.row].owner
            /\ r.row \in r.open
            /\ r.shown \notin r.gone

\* agents.go: "asserts ownership": only its owner changes an agent's profile, though
\* its handle may pass to another account while a patch is under way.
OwnerPatches ==
    [][\A a \in DOMAIN agents :
         agents'[a].profile # agents[a].profile =>
             \E p \in Procs : At(p, "Patch", "loaded") /\ req[p].user = agents[a].owner]_vars

\* A handle leads to one agent only, also when one comes back from the bin.
OneAgentPerHandle ==
    \A a, b \in Live : agents[a].handle = agents[b].handle => a = b

\* Design document 5.4 and 7.2: a PATCH carries the "fields to update": no other field
\* changes, and nothing shows the operator again but a patch that says so.
\* The code does not keep it.
PatchWritesItsFields ==
    [][\A a \in DOMAIN agents :
         (~agents[a].profile.show /\ agents'[a].profile.show) =>
             \E p \in Procs : At(p, "Patch", "loaded") /\ req[p].patch.show = TRUE]_vars
=============================================================================
