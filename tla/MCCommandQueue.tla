--------------------------- MODULE MCCommandQueue ---------------------------
(* CommandQueue with two handlers, and as many fatal commands.             *)
EXTENDS CommandQueue

CONSTANTS r1, r2, r3, h1, h2
=============================================================================
