--------------------------- MODULE MCSyndication ---------------------------
(***************************************************************************)
(* Small instances of Syndication for TLC: the entries 1 and 3 are of one  *)
(* agent, 2 is of another if there are two; 2 and 3 have the tag.          *)
(***************************************************************************)
EXTENDS Syndication

CONSTANTS a1, a2

MCAgentOf == [e \in Entries |-> IF e = 2 /\ a2 \in Agents THEN a2 ELSE a1]
URL(k, a) == [kind |-> k, agent |-> a]
AllURLs == {URL("global", NULL), URL("topic", NULL), URL("sitemap", NULL), URL("agent", a1)}
=============================================================================
