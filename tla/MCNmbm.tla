------------------------------- MODULE MCNmbm -------------------------------
(* Instances of Nmbm for TLC: nine blocks, of which two hold data. *)
EXTENDS Nmbm

Life(b, f, r) == [bad |-> b, fails |-> f, restarts |-> r]

\* A chip that is good at first; one with a factory bad block among the data
\* blocks, at the end, or where the tables go; ones with too few good blocks
MCLives ==
    {Life({}, 1, 2), Life({}, 2, 1),
     Life({1}, 1, 1), Life({8}, 1, 1),
     Life({7}, 3, 0), Life({6, 7}, 3, 0),
     Life({5, 6, 7}, 1, 1), Life({3, 4, 5, 6, 7}, 2, 0),
     Life({0, 1, 6, 7}, 1, 0), Life({3, 4, 5, 6, 7, 8}, 0, 0)}

\* The last block below the signature is bad.
LastBad == {Life({8}, 2, 1)}
=============================================================================
