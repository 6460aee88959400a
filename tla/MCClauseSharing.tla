--------------------------- MODULE MCClauseSharing ---------------------------
(* A small instance of ClauseSharing: a block of two solvers and a reducer *)
(* and its sharer, as PainlessSolver builds them.                          *)
EXTENDS ClauseSharing

CONSTANTS a, b, r, h

Clause(n, lbd) == [size |-> n, lbd |-> lbd]

MCProducers == h :> <<a, b, r>>
MCConsumers == h :> <<a, b, r>>
(* What a learns: two lengths at once, the shorter in the way of the longer; *)
(* three lengths, one of them longer than a round; one length that fills the *)
(* database.                                                                 *)
MCInputs ==
    {a :> l @@ b :> <<>> @@ r :> <<>> :
        l \in {<<Clause(2, 2), Clause(1, 1), Clause(2, 3)>>,
              <<Clause(2, 2), Clause(3, 3), Clause(1, 1)>>,
              <<Clause(2, 2), Clause(2, 2), Clause(2, 3)>>}}
=============================================================================
