--------------------------- MODULE MCPosixUpdate ---------------------------
EXTENDS PosixUpdate

\* Releases of each health; an unhealthy one whose snapshot does not match
\* the hash, a good one that needs version 2 first.
MCKinds == {First,
            [First EXCEPT !.health = "unhealthy"],
            [health |-> "dead", min |-> 0, sound |-> TRUE],
            [First EXCEPT !.min = 2, !.sound = FALSE]}
=============================================================================
