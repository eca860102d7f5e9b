------------------------- MODULE MCCommandReceiver -------------------------
(* Small instances of CommandReceiver.                                     *)
EXTENDS CommandReceiver, TLC

Symmetry == Permutations(Handlers)

\* Two cancellations with one key, as when QS repeats a command under a new
\* message id.
SharedKey == [c \in Commands |-> "k1"]
FirstVersion == [c \in Commands |-> 1]

CONSTANTS c1, c2, w1, w2, w3, w4

\* The first command sealed twice, and a forged wire.
Resealed == w1 :> c1 @@ w2 :> c1 @@ w3 :> c2 @@ w4 :> c2
=============================================================================
