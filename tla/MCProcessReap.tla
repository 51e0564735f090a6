--------------------------- MODULE MCProcessReap ---------------------------
(* Two threads of a program, each with two connections.                    *)
EXTENDS ProcessReap

EachWorld == {{"interrupt"}, {"hostReaps"}}
=============================================================================
