--------------------------- MODULE MCLinkedInPosts ---------------------------
EXTENDS LinkedInPosts

CONSTANTS p1, p2, w1

OnePost   == {p1}
TwoPosts  == {p1, p2}
OneWriter == {w1}

(* Under "overlap" one post is enough to see in which wording it went live,  *)
(* and without archiving the state space stays small.                        *)
Editing    == Ops \ {"archive", "posted"}
ByHand     == [publish |-> FALSE, faults |-> {}, ops |-> Ops, bound |-> 0]
FaultModes == {ByHand,
               [publish |-> TRUE, faults |-> {"crash", "refuse"}, ops |-> Ops, bound |-> 2],
               [publish |-> TRUE, faults |-> {"refuse", "lost"}, ops |-> Ops, bound |-> 2],
               [publish |-> TRUE, faults |-> {"overlap"}, ops |-> Editing, bound |-> 1]}
=============================================================================
