----------------------------- MODULE MCEvolution -----------------------------
(* A small instance of Evolution: two variables, so four masks. *)
EXTENDS Evolution, TLC

CONSTANTS x, y

(* Refuted: nothing, x, or one assignment of both without the base           *)
(* assumption; under it both values of y, or all assignments of both, or a   *)
(* few.                                                                      *)
MCFormulas ==
    {[plain |-> {x :> TRUE}, under |-> {x :> TRUE, y :> FALSE @@ x :> FALSE}],
     [plain |-> {x :> TRUE @@ y :> TRUE}, under |-> {x :> TRUE, x :> FALSE}],
     [plain |-> {}, under |-> {x :> a @@ y :> b : a, b \in BOOLEAN}]}

Alg(kind, q, h, limit, size) ==
    [kind |-> kind, q |-> q, h |-> h, limit |-> limit, cache |-> size]

(* A cache of three masks evicts one; one of four can hold every mask. *)
MCConfigs == {Alg("EA", 1, 1, "points", 3), Alg("EA", 1, 1, "stall", 3),
              Alg("EA", 1, 1, "points", 4), Alg("EA", 1, 1, "stall", 4),
              Alg("GA", 2, 0, "stall", 3),
              Alg("GA", 3, 1, "points", 3), Alg("GA", 3, 0, "points", 3),
              Alg("GA", 1, 0, "points", 3)}
=============================================================================
