--------------------------- MODULE MCLogCampaigns ---------------------------
(* A small instance of LogCampaigns for TLC. *)
EXTENDS LogCampaigns

CONSTANTS a1, a2, c, p

c1 == [name |-> c, agent |-> a1]
c2 == [name |-> c, agent |-> a2]
p2 == [name |-> p, agent |-> a2]
\* The collector has moved, and its agent has not yet deleted it.
MCStartup == {[desired |-> {c2, p2}, alive |-> {c1, c2, p2}]}
\* The collector goes; the provider goes.
MCUpdate == {{p2}, {c2}}
MCWanted == {{p2}}
=============================================================================
