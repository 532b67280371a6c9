------------------------------- MODULE MCTeam -------------------------------
(* Small instances of Team for TLC. *)
EXTENDS Team

CONSTANTS a, b, r1, w1, w2

Two == <<a, b>>

\* The second task waits for the first.
Chain == <<{}, {1}>>

\* It may be freed of that.
Freed == <<{}, {{}}>>
=============================================================================
