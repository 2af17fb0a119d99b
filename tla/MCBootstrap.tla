---------------------------- MODULE MCBootstrap ----------------------------
(* Small instances of Bootstrap for TLC. *)
EXTENDS Bootstrap

CONSTANTS a, b

\* No number, two proper ones, a negative one, and one that overflows to it.
Settings == {Unset, 0, 2, -1, 2 * Limit - 1}
=============================================================================
