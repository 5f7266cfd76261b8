------------------------- MODULE MCUpdateProcessor -------------------------
(***************************************************************************)
(* Small instances of UpdateProcessor for TLC.                             *)
(***************************************************************************)
EXTENDS UpdateProcessor

CONSTANTS a, b, c

\* Two ordinary and two exclusive priorities: trains tie on priority, and two
\* exclusive sources (emergency stop, programming track) may coexist.
MCPriorities == {0, 2, 3}

=============================================================================
