---------------------------- MODULE Syndication ----------------------------
(***************************************************************************)
(* The documents that machines fetch: the feed of an agent, of all agents  *)
(* and of a topic, and the sitemap, each made of one or two statements     *)
(* while agents and entries come and go, and kept by a shared cache for as *)
(* long as Cache-Control: max-age allows.                                  *)
(***************************************************************************)
EXTENDS Integers, FiniteSets

CONSTANTS
    Agents,
    Entries,        \* numbered in the order of (published_at, id)
    AgentOf,        \* AgentOf[e]: entries.agent_id
    Tagged,         \* the entries with the tag of the topic feed
    URLs,           \* the documents in use
    Procs,          \* requests in flight at once
    MaxFeedItems,
    MaxAge,         \* 300 seconds, in ticks of the longest request
    MaxTime,        \* bound on the clock
    NULL

ASSUME SyndicationAssumption ==
    /\ Entries \in SUBSET Nat /\ IsFiniteSet(Entries)
    /\ AgentOf \in [Entries -> Agents]
    /\ Tagged \in SUBSET Entries
    /\ MaxFeedItems \in Nat \ {0}
    /\ MaxAge \in Nat /\ MaxTime \in Nat
    /\ URLs \in SUBSET ([kind : {"global", "topic", "sitemap"}, agent : {NULL}]
                        \cup [kind : {"agent"}, agent : Agents])

VARIABLES
    agents,   \* the state of each agent's row
    entries,  \* and of each entry's
    now,      \* the clock, in ticks
    url,      \* the document that this behaviour is about
    req,      \* the request for it that each process is serving
    cache,    \* the copy that the cache keeps
    public,   \* history: the last tick in which an entry was live, and its agent too,
    live,     \* in which it was live,
    alive     \* and in which an agent was; 0 for never

rowVars == <<agents, entries, public, live, alive>>
vars == <<agents, entries, now, url, req, cache, public, live, alive>>

-----------------------------------------------------------------------------
(* Rows *)

RowState == {"none", "live", "binned", "purged"}

LiveAgents == {a \in Agents : agents[a] = "live"}
LiveEntries == {e \in Entries : entries[e] = "live"}

\* Mutant: only the entry's own removed_at is looked at
VisibleByEntry(e) == e \in LiveEntries
\* removed_at of the entry and of its agent; suspension is left out, which no code sets
Visible(e) == e \in LiveEntries /\ AgentOf[e] \in LiveAgents

\* The rows that the feed of a URL is chosen from: an agent's own feed does not look
\* at the agent again
Matching ==
    CASE url.kind = "agent" -> {e \in LiveEntries : AgentOf[e] = url.agent}
      [] url.kind = "topic" -> {e \in Tagged : Visible(e)}
      [] OTHER -> {e \in Entries : Visible(e)}

\* Mutant: ORDER BY published_at without DESC
Older(d, e) == d < e
Newer(d, e) == d > e

\* Mutant: no LIMIT
AllRows(S) == S = Matching
\* ORDER BY published_at DESC, id DESC LIMIT MaxFeedItems; the sitemap takes all
IsSelection(S) ==
    /\ S \in SUBSET Matching
    /\ url.kind = "sitemap" => S = Matching
    /\ url.kind # "sitemap" =>
          /\ S # Matching => Cardinality(S) = MaxFeedItems
          /\ Cardinality(S) <= MaxFeedItems
          /\ \A d \in S, e \in Matching \ S : Newer(d, e)

-----------------------------------------------------------------------------
(* Requests *)

\* found: the agents of the first statement; items: the entries of the second; at: when
\* the request arrived.  History: steady, the entries there to be listed ever since.
Idle == [pc |-> "idle", found |-> {}, items |-> {}, at |-> 0, steady |-> {}]
NoCopy == [found |-> {}, items |-> {}, at |-> 0]

Fresh == cache # NoCopy /\ now - cache.at <= MaxAge

\* A reader asks, and there is no copy, or an old one
Arrive(p) ==
    /\ req[p] = Idle
    /\ ~Fresh
    /\ req' = [req EXCEPT ![p] = [Idle EXCEPT !.pc = "read", !.at = now, !.steady = Matching]]
    /\ UNCHANGED <<rowVars, now, url, cache>>

\* An error, a timeout, or no such agent
Return(p) ==
    /\ req[p] # Idle
    /\ req' = [req EXCEPT ![p] = Idle]
    /\ UNCHANGED <<rowVars, now, url, cache>>

\* agentFeed
GetAgentByHandle(p) ==
    /\ url.kind = "agent" /\ req[p].pc = "read"
    /\ url.agent \in LiveAgents
    /\ req' = [req EXCEPT ![p].pc = "found", ![p].found = {url.agent}]
    /\ UNCHANGED <<rowVars, now, url, cache>>

\* Sitemap
ListAgentsForSitemap(p) ==
    /\ url.kind = "sitemap" /\ req[p].pc = "read"
    /\ req' = [req EXCEPT ![p].pc = "found", ![p].found = LiveAgents]
    /\ UNCHANGED <<rowVars, now, url, cache>>

\* The only statement of globalFeed and topicFeed, the second of the others
ListEntries(p) ==
    /\ req[p].pc = IF url.kind \in {"global", "topic"} THEN "read" ELSE "found"
    /\ \E S \in SUBSET Matching :
          /\ IsSelection(S)
          /\ req' = [req EXCEPT ![p].pc = "listed", ![p].items = S]
    /\ UNCHANGED <<rowVars, now, url, cache>>

\* The document goes out, and the cache keeps it, though another request may have
\* been answered since with newer rows
WriteFeed(p) ==
    /\ req[p].pc = "listed"
    /\ cache' = [found |-> req[p].found, items |-> req[p].items, at |-> now]
    /\ req' = [req EXCEPT ![p] = Idle]
    /\ UNCHANGED <<rowVars, now, url>>

\* A copy may be dropped at any time
Evict ==
    /\ cache # NoCopy
    /\ cache' = NoCopy
    /\ UNCHANGED <<rowVars, now, url, req>>

-----------------------------------------------------------------------------
(* The rows change under them, as the models of the handlers say *)

\* A row takes another state, and the histories note what that makes public
Becomes(A, E) ==
    /\ UNCHANGED <<now, url, cache>>
    /\ agents' = A /\ entries' = E
    /\ alive' = [a \in Agents |-> IF A[a] = "live" THEN now ELSE alive[a]]
    /\ live' = [e \in Entries |-> IF E[e] = "live" THEN now ELSE live[e]]
    /\ public' = [e \in Entries |->
                    IF E[e] = "live" /\ A[AgentOf[e]] = "live" THEN now ELSE public[e]]
    /\ req' = [p \in Procs |-> [req[p] EXCEPT !.steady = @ \cap Matching']]

AgentStep(a, from, to) == agents[a] = from /\ Becomes([agents EXCEPT ![a] = to], entries)
EntryStep(e, from, to) == entries[e] = from /\ Becomes(agents, [entries EXCEPT ![e] = to])

\* A post inserts, and the bin restores, an entry whose agent has gone into the bin
InsertAgent(a)     == AgentStep(a, "none", "live")
SoftDeleteAgent(a) == AgentStep(a, "live", "binned")
RestoreAgent(a)    == AgentStep(a, "binned", "live")
\* A purge goes by id, after a check that found the row in the bin; and the worker takes
\* an expired account's agents live or not
PurgeAgent(a) ==
    /\ \A e \in Entries : AgentOf[e] = a => entries[e] \in {"none", "purged"}
    /\ \E from \in {"live", "binned"} : AgentStep(a, from, "purged")

InsertEntry(e) == agents[AgentOf[e]] \in {"live", "binned"} /\ EntryStep(e, "none", "live")
SoftDeleteEntry(e) == EntryStep(e, "live", "binned")
RestoreEntry(e)    == EntryStep(e, "binned", "live")
PurgeEntry(e)      == \E from \in {"live", "binned"} : EntryStep(e, from, "purged")

\* A request ends 30 seconds after it arrived: one tick may pass meanwhile
Tick ==
    /\ now < MaxTime
    /\ \A p \in Procs : req[p] # Idle => req[p].at = now
    /\ now' = now + 1
    /\ alive' = [a \in Agents |-> IF a \in LiveAgents THEN now' ELSE alive[a]]
    /\ live' = [e \in Entries |-> IF e \in LiveEntries THEN now' ELSE live[e]]
    /\ public' = [e \in Entries |->
                    IF e \in LiveEntries /\ AgentOf[e] \in LiveAgents THEN now' ELSE public[e]]
    /\ UNCHANGED <<agents, entries, url, req, cache>>

-----------------------------------------------------------------------------

\* The clock begins where 0 is longer ago than any bound
Start == MaxAge + 2

Init ==
    /\ agents = [a \in Agents |-> "none"]
    /\ entries = [e \in Entries |-> "none"]
    /\ now = Start
    /\ url \in URLs
    /\ req = [p \in Procs |-> Idle]
    /\ cache = NoCopy
    /\ public = [e \in Entries |-> 0]
    /\ live = [e \in Entries |-> 0]
    /\ alive = [a \in Agents |-> 0]

Next ==
    \/ \E p \in Procs :
          \/ Arrive(p) \/ Return(p) \/ WriteFeed(p)
          \/ GetAgentByHandle(p) \/ ListAgentsForSitemap(p) \/ ListEntries(p)
    \/ Evict
    \/ \E a \in Agents : InsertAgent(a) \/ SoftDeleteAgent(a) \/ RestoreAgent(a) \/ PurgeAgent(a)
    \/ \E e \in Entries : InsertEntry(e) \/ SoftDeleteEntry(e) \/ RestoreEntry(e) \/ PurgeEntry(e)
    \/ Tick

Spec == Init /\ [][Next]_vars

-----------------------------------------------------------------------------
(* Properties *)

\* Every variable has its type, and no feed is longer than it may be.
TypeOK ==
    /\ agents \in [Agents -> RowState] /\ entries \in [Entries -> RowState]
    /\ now \in Nat /\ url \in URLs
    /\ req \in [Procs -> [pc : {"idle", "read", "found", "listed"}, found : SUBSET Agents,
                          items : SUBSET Entries, at : Nat, steady : SUBSET Entries]]
    /\ cache \in [found : SUBSET Agents, items : SUBSET Entries, at : Nat]
    /\ public \in [Entries -> Nat] /\ live \in [Entries -> Nat] /\ alive \in [Agents -> Nat]
    /\ url.kind # "sitemap" => Cardinality(cache.items) <= MaxFeedItems

Lately(t) == now - t <= MaxAge + 1

\* syndication.go: "max-age=300": what has been binned is gone from every document that
\* is still handed out once max-age, and the time that a request takes, are over; for
\* the feed of an agent, whose second statement does not look at the agent again, that
\* goes for the entry and for the agent, each by itself.
TakenDownInTime ==
    Fresh => \A e \in cache.items :
        IF url.kind = "agent" THEN Lately(live[e]) /\ Lately(alive[AgentOf[e]])
                              ELSE Lately(public[e])

\* What was there to be listed from the beginning of a request to its end is listed,
\* unless the feed is full of newer entries.
NothingLost ==
    \A p \in Procs : req[p].pc = "listed" =>
        \A e \in req[p].steady \ req[p].items :
            /\ url.kind # "sitemap"
            /\ Cardinality(req[p].items) = MaxFeedItems
            /\ \A d \in req[p].items : d > e

\* sitemap.go: "every live, non-suspended agent profile plus every live entry
\* permalink": where an entry is listed, so is the profile of its agent.
\* The code does not keep it.
ProfileListed ==
    url.kind = "sitemap" => \A e \in cache.items : AgentOf[e] \in cache.found
=============================================================================
