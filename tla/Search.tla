------------------------------- MODULE Search -------------------------------
(***************************************************************************)
(* core::search: objects that step through assignments, and split_search,  *)
(* which cuts one into the parts that ParProp gives to its threads.        *)
(*                                                                         *)
(* An assignment is the sequence of its digits.  For FullSearch, Unique-   *)
(* Search and RandomSearch they are the signs of the literals, the first   *)
(* the least significant; for CartesianSearch the i-th digit says which of *)
(* the i-th set's partial assignments is taken, the last the least         *)
(* significant.                                                            *)
(*                                                                         *)
(* A request asks for one search: its kind, n variables or the sizes of    *)
(* the sets, and the number of samples where that is a parameter.          *)
(***************************************************************************)
EXTENDS Integers, Sequences

CONSTANTS MaxUnpropagated,   \* max_unpropagated of CartesianRBSearchConfig
          MaxCartesianSize,  \* max_cartesian_size
          WordBits           \* width of the integer that CartesianSearch counts in

ASSUME SearchAssumption ==
    /\ MaxUnpropagated \in Nat
    /\ WordBits \in Nat
    /\ MaxCartesianSize \in 0..(2^WordBits - 1)

Bits(n) == [1..n -> {0, 1}]

(* The digits of a number, and adding one to them: a digit flips if all     *)
(* the digits before it carry.                                              *)
SetAssignment(n, value) == [i \in 1..n |-> (value \div 2^(i - 1)) % 2]

NextAssignment(a) ==
    [i \in DOMAIN a |-> IF \A j \in 1..(i - 1) : a[j] = 1 THEN 1 - a[i] ELSE a[i]]

----------------------------------------------------------------------------
(* CartesianSearch.                                                        *)

(* The number of combinations, in an unsigned integer of WordBits bits. *)
CartesianTotal(sizes) ==
    LET size[i \in 0..Len(sizes)] ==
            IF i = 0 THEN 1 ELSE (size[i - 1] * sizes[i]) % 2^WordBits
    IN size[Len(sizes)]

(* _reset: the digits of `first` in the mixed radix of the sizes. *)
CartesianIndices(sizes, first) ==
    LET tmp[i \in 1..Len(sizes)] ==
            IF i = Len(sizes) THEN first ELSE tmp[i + 1] \div sizes[i + 1]
    IN [i \in 1..Len(sizes) |-> tmp[i] % sizes[i]]

(* _advance carries into the i-th digit. *)
CarriesInto(sizes, idx, i) == \A j \in (i + 1)..Len(sizes) : idx[j] + 1 = sizes[j]

NextIndices(sizes, idx) ==
    [i \in 1..Len(sizes) |->
        IF CarriesInto(sizes, idx, i) THEN (idx[i] + 1) % sizes[i] ELSE idx[i]]

(* _set_cur: only the digits from the incremented one on are rewritten. *)
SetCur(s, idx) ==
    [i \in 1..Len(s.sizes) |->
        IF CarriesInto(s.sizes, s.idx, i) THEN idx[i] ELSE s.cur[i]]

(* A faulty _prepare_cartesian, without the bound on the product. *)
PrepareWithoutBound(lists) == SelectSeq(lists, LAMBDA c : c <= MaxUnpropagated)

(* CartesianRBSearch::_prepare_cartesian: of the lists of assignments that  *)
(* the algorithms kept (here their lengths), those that are not too long    *)
(* and keep the product small enough; or, if all are too long, a shortest.  *)
PrepareCartesian(lists) ==
    LET shortest == CHOOSE c \in {lists[i] : i \in DOMAIN lists} :
                        \A i \in DOMAIN lists : c <= lists[i]
        fits(acc, c) == c <= MaxUnpropagated /\ c * acc.size <= MaxCartesianSize
        taken[i \in 0..Len(lists)] ==
            IF i = 0 THEN [sets |-> <<>>, size |-> 1]
            ELSE LET acc == taken[i - 1] IN
                 IF fits(acc, lists[i])
                 THEN [sets |-> Append(acc.sets, lists[i]), size |-> acc.size * lists[i]]
                 ELSE acc
    IN IF shortest > MaxUnpropagated THEN <<shortest>> ELSE taken[Len(lists)].sets

----------------------------------------------------------------------------
(* Search objects.  _reset and _advance of the random searches have several *)
(* outcomes, so each operator yields the set of objects that may result.    *)

Object(r, sizes, total, cur) ==
    [kind |-> r.kind, n |-> r.n, sizes |-> sizes, total |-> total, done |-> 0,
     first |-> 0, last |-> total - 1, cur |-> cur,
     idx     |-> IF r.kind = "cartesian" THEN cur ELSE <<>>,
     visited |-> IF r.kind = "unique" THEN {0} ELSE {}]

(* The constructors. *)
Create(r) ==
    CASE r.kind = "full"   -> {Object(r, <<>>, 2^r.n, SetAssignment(r.n, 0))}
      [] r.kind = "unique" -> {Object(r, <<>>, r.total, SetAssignment(r.n, 0))}
      [] r.kind = "random" -> {Object(r, <<>>, r.total, a) : a \in Bits(r.n)}
      [] r.kind = "cartesian" ->
             LET sizes == PrepareCartesian(r.lists)
             IN {Object(r, sizes, CartesianTotal(sizes), [i \in 1..Len(sizes) |-> 0])}

Sample(s, v) == [s EXCEPT !.visited = @ \cup {v}, !.cur = SetAssignment(s.n, v)]

(* _advance(); UniqueSearch draws until it meets a value it has not had. *)
Advance(s) ==
    CASE s.kind = "full"   -> {[s EXCEPT !.cur = NextAssignment(@)]}
      [] s.kind = "unique" ->
             IF s.first \notin s.visited THEN {Sample(s, s.first)}
             ELSE {Sample(s, v) : v \in ((s.first + 1)..s.last) \ s.visited}
      [] s.kind = "random" -> {[s EXCEPT !.cur = a] : a \in Bits(s.n)}
      [] s.kind = "cartesian" ->
             LET idx == NextIndices(s.sizes, s.idx)
             IN {[s EXCEPT !.cur = SetCur(s, idx), !.idx = idx]}

(* _reset() *)
Reset(s) ==
    CASE s.kind = "full"      -> {[s EXCEPT !.cur = SetAssignment(s.n, s.first)]}
      [] s.kind = "cartesian" ->
             LET idx == CartesianIndices(s.sizes, s.first)
             IN {[s EXCEPT !.cur = idx, !.idx = idx]}
      [] OTHER -> Advance([s EXCEPT !.visited = {}])

(* get_start_and_todo: the first `rem` parts get one assignment more. *)
StartOf(total, num_split, index) ==
    LET div == total \div num_split
        rem == total % num_split
    IN IF index < rem THEN index * (div + 1)
       ELSE rem * (div + 1) + (index - rem) * div

TodoOf(total, num_split, index) ==
    LET div == total \div num_split
        rem == total % num_split
    IN IF index < rem THEN div + 1 ELSE div

SplitSearch(s, num_split, index) ==
    LET start == StartOf(s.total, num_split, index)
        to_do == TodoOf(s.total, num_split, index)
    IN IF start < s.total
       THEN Reset([s EXCEPT !.first = start, !.last = start + to_do - 1,
                            !.done = 0, !.total = to_do])
       ELSE {[s EXCEPT !.total = 0]}

(* operator++: is there a next assignment, and the object that is at it. *)
HasNext(s) == s.total # 0 /\ s.done # s.total - 1

Increment(s) == {[t EXCEPT !.done = @ + 1] : t \in Advance(s)}

----------------------------------------------------------------------------
(* Reference: the assignments that a search of this kind is to visit. *)
Space(r) ==
    CASE r.kind \in {"full", "tree"} -> Bits(r.n)
      [] r.kind = "unique" -> {SetAssignment(r.n, v) : v \in 0..(r.total - 1)}
      [] r.kind = "random" -> Bits(r.n)
      [] r.kind = "cartesian" ->
             LET sizes == PrepareCartesian(r.lists)
             IN {a \in [1..Len(sizes) -> 0..2^WordBits] :
                    \A i \in 1..Len(sizes) : a[i] < sizes[i]}
=============================================================================
