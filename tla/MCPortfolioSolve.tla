--------------------------- MODULE MCPortfolioSolve ---------------------------
(* A small instance of PortfolioSolve: two searching solves and a naive one. *)
EXTENDS PortfolioSolve

MCEventOf == [h \in Handles |-> IF h = Main THEN "INTERRUPT" ELSE "SBS_FOUND"]
=============================================================================
