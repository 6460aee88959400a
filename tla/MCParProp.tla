------------------------------ MODULE MCParProp ------------------------------
(* A small instance of ParProp. *)
EXTENDS ParProp

CONSTANTS c1, c2

Request(kind, n, total, lists) == [kind |-> kind, n |-> n, total |-> total, lists |-> lists]

(* Three variables or samples that do not divide evenly, a product with a   *)
(* set that is left out because it would be too large, a tree that is split *)
(* and one that is not.                                                     *)
Plain == {Request("full", 2, 4, <<>>), Request("full", 0, 1, <<>>),
          Request("unique", 2, 3, <<>>), Request("random", 1, 2, <<>>),
          Request("cartesian", 0, 0, <<3, 2, 2>>), Request("cartesian", 0, 0, <<5, 4>>),
          Request("tree", 3, 0, <<>>), Request("tree", 1, 0, <<>>)}

(* The assignments whose first digit is not zero conflict. *)
Conflicting(r) == {a \in Space(r) : \E i \in DOMAIN a : i = 1 /\ a[i] # 0}

WithConflicts(r) == [kind |-> r.kind, n |-> r.n, total |-> r.total, lists |-> r.lists,
                     conf |-> Conflicting(r)]

(* The first caller asks for anything, the second for a tree that is not split. *)
Small == [c \in {c1, c2} |->
             IF c = c1 THEN {WithConflicts(r) : r \in Plain}
             ELSE {WithConflicts(Request("tree", 1, 0, <<>>))}]
=============================================================================
