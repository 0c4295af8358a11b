--------------------------- MODULE MCCommandChannel ---------------------------
(* Two users, two links, two commands.  Two fragments are the fewest that    *)
(* can be mixed, and stand for the five of PAIR; the switch command has its  *)
(* three.                                                                    *)
EXTENDS CommandChannel, TLC

MCFragments == [info |-> 2, pair |-> 2, switch |-> 3]

MCSymmetry == Permutations(Users)
=============================================================================
