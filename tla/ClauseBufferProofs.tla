------------------------- MODULE ClauseBufferProofs -------------------------
(***************************************************************************)
(* Theorems about ClauseBuffer, for every number of threads, addresses and *)
(* clauses: as long as adders do not overlap each other and poppers do not *)
(* either, no deleted node is touched and the list is a queue.             *)
(***************************************************************************)
EXTENDS ClauseBuffer, FiniteSetTheorems, SequenceTheorems, WellFoundedInduction, TLAPS

----------------------------------------------------------------------------
(* The inductive invariant, of a buffer that has not been misused.         *)

Elems(p) == {p[i] : i \in 1..Len(p)}

Distinct(p) == \A i, j \in 1..Len(p) : p[i] = p[j] => i = j

Pointers == Nodes \cup {Null}

Types ==
    /\ live \subseteq Nodes
    /\ head \in Nodes /\ tail \in Nodes
    /\ next \in [Nodes -> Pointers]
    /\ clause \in [Nodes -> Clauses \cup {Null}]
    /\ pc = [t \in Threads |-> pc[t]]
    /\ left \subseteq Clauses
    /\ my \in [Threads -> [head : Pointers, tail : Pointers, next : Pointers, node : Pointers]]
    /\ out \in [Threads -> Clauses \cup {Null}]

NoCrash == \A t \in Threads : pc[t] # "crashed"

(* At most one thread of each role is inside a call. *)
OneOfEach ==
    /\ \A t, u \in Adders : pc[t] # "idle" /\ pc[u] # "idle" => t = u
    /\ \A t, u \in Poppers : pc[t] # "idle" /\ pc[u] # "idle" => t = u

(* An adder whose node is not yet, or already, in the list. *)
Preparing == {"tail", "next", "same", "link"}
Linked == {"grow", "swing"}

(* p is the list: a path of allocated nodes from head to a node without a   *)
(* successor, with tail at its end or one node before.                      *)
Chain(p) ==
    /\ p \in Seq(live) /\ p # <<>> /\ Distinct(p)
    /\ head = p[1]
    /\ \A i \in 1..(Len(p) - 1) : next[p[i]] = p[i + 1]
    /\ next[p[Len(p)]] = Null
    /\ tail = p[Len(p)] \/ (Len(p) > 1 /\ tail = p[Len(p) - 1])

(* A new node is not in it yet, the old dummy is not in it any more, and    *)
(* they are not the same node.                                              *)
Apart(p) ==
    /\ \A t \in Adders : pc[t] \in Preparing => my[t].node \notin Elems(p)
    /\ \A t \in Poppers : pc[t] = "delete" => my[t].head \notin Elems(p)
    /\ \A t \in Adders, u \in Poppers :
          pc[t] \in Preparing /\ pc[u] = "delete" => my[t].node # my[u].head

ListInv == \E p \in Seq(live) : Chain(p) /\ Apart(p)

(* Only while an adder is about to move tail is there a node behind it; so  *)
(* an adder finds the last node at once, and only a popper may move tail    *)
(* before it.                                                               *)
AdderInv ==
    /\ next[tail] # Null => \E t \in Adders : pc[t] \in Linked
    /\ \A t \in Adders :
        /\ pc[t] # "help"
        /\ pc[t] \in Preparing \cup Linked => my[t].node \in Nodes /\ next[my[t].node] = Null
        /\ pc[t] \in Preparing => my[t].node \in live /\ clause[my[t].node] \in Clauses
        /\ pc[t] \in {"next", "same", "link"} => my[t].tail = tail
        /\ pc[t] \in {"same", "link"} => my[t].next = Null
        /\ pc[t] \in Linked =>
               /\ my[t].tail # my[t].node
               /\ \/ tail = my[t].node
                  \/ tail = my[t].tail /\ next[tail] = my[t].node

(* What a popper has read is still so, except that tail may have moved away *)
(* from head, and a first node may have come; it goes on to take a node     *)
(* only if tail has left the dummy for good.                                *)
PopperInv ==
    \A t \in Poppers :
        /\ pc[t] \in {"htail", "hnext", "hsame", "decide", "help", "take", "pop"} =>
               my[t].head = head
        /\ pc[t] \in {"hnext", "hsame", "decide"} /\ my[t].tail # head => tail # head
        /\ pc[t] \in {"hsame", "decide"} =>
               /\ my[t].next \in {Null, next[head]}
               /\ my[t].tail # head => my[t].next # Null
        /\ pc[t] = "help" => my[t].tail = head /\ my[t].next # Null /\ my[t].next = next[head]
        /\ pc[t] \in {"take", "pop"} =>
               tail # head /\ my[t].next # Null /\ my[t].next = next[head]
        /\ pc[t] = "pop" => out[t] = clause[my[t].next]
        /\ pc[t] = "delete" => my[t].head \in live

Sound == Types /\ NoCrash /\ OneOfEach /\ ListInv /\ AdderInv /\ PopperInv

BufferInv == misused \/ Sound

----------------------------------------------------------------------------
(* Facts that the steps share.                                             *)

(* What the ends of the list say about each other. *)
LEMMA ListFacts ==
  ASSUME Types, ListInv
  PROVE  /\ head \in live /\ tail \in live
         /\ next[head] \in live \cup {Null}
         /\ tail # head => next[head] # Null
         /\ next[tail] # Null =>
                /\ next[tail] \in live /\ next[tail] # head /\ next[tail] # tail
                /\ next[next[tail]] = Null
  <1>1. PICK p \in Seq(live) : Chain(p)
    BY DEF ListInv
  <1>a. Len(p) \in Nat /\ Len(p) > 0
    BY <1>1 DEF Chain
  <1>2. \A i \in 1..Len(p) : p[i] \in live
    BY <1>1 DEF Chain
  <1>3. head = p[1] /\ next[p[Len(p)]] = Null
    BY <1>1 DEF Chain
  <1>4. \A i \in 1..(Len(p) - 1) : next[p[i]] = p[i + 1]
    BY <1>1 DEF Chain
  <1>5. tail = p[Len(p)] \/ (Len(p) > 1 /\ tail = p[Len(p) - 1])
    BY <1>1 DEF Chain
  <1>6. Null \notin live
    BY BufferAssumption DEF Types
  <1>7. head \in live /\ tail \in live
    BY <1>a, <1>2, <1>3, <1>5
  <1>8. CASE Len(p) = 1
    BY <1>2, <1>3, <1>5, <1>7, <1>8
  <1>9. CASE Len(p) > 1
    <2>1. next[p[1]] = p[2] /\ next[p[Len(p) - 1]] = p[Len(p)]
      BY <1>a, <1>4, <1>9
    <2>2. p[1] # p[Len(p)] /\ p[Len(p) - 1] # p[Len(p)]
      BY <1>1, <1>a, <1>9 DEF Chain, Distinct
    <2>3. next[head] \in live /\ next[head] # Null
      BY <1>a, <1>2, <1>3, <1>6, <1>9, <2>1
    <2>4. next[tail] # Null => next[tail] = p[Len(p)] /\ tail = p[Len(p) - 1]
      BY <1>3, <1>5, <2>1
    <2>5. p[Len(p)] \in live
      BY <1>a, <1>2
    <2> QED
      BY <1>3, <1>7, <2>2, <2>3, <2>4, <2>5
  <1>10. Len(p) = 1 \/ Len(p) > 1
    <2>1. \A n \in Nat : n > 0 => n = 1 \/ n > 1
      OBVIOUS
    <2> QED
      BY <1>a, <2>1
  <1> QED
    BY <1>8, <1>9, <1>10

(* Only the locals of t change in a step. *)
Alone(t) ==
    \A u \in Threads : u # t => pc'[u] = pc[u] /\ my'[u] = my[u] /\ out'[u] = out[u]

LEMMA Roles ==
  /\ \A t \in Adders : t \in Threads /\ t \notin Poppers
  /\ \A t \in Poppers : t \in Threads /\ t \notin Adders
  BY BufferAssumption DEF Threads

LEMMA AdderAlone ==
  ASSUME Types, NEW t \in Adders, AdderNext(t)
  PROVE  Alone(t)
  <1> USE Roles DEF Types, Alone, Access, Step, listVars
  <1>1. CASE Add(t)
    BY <1>1 DEF Add
  <1>2. CASE ReadTail(t) \/ ReadNext(t) \/ SameTail(t)
    BY <1>2 DEF ReadTail, ReadNext, SameTail
  <1>3. CASE Link(t) \/ Grow(t)
    BY <1>3 DEF Link, Grow
  <1>4. CASE Help(t) \/ Swing(t)
    BY <1>4 DEF Help, Swing
  <1> QED
    BY <1>1, <1>2, <1>3, <1>4 DEF AdderNext

LEMMA PopperAlone ==
  ASSUME Types, NEW t \in Poppers, PopperNext(t)
  PROVE  Alone(t)
  <1> USE Roles DEF Types, Alone, Access, Step, listVars
  <1>1. CASE Get(t) \/ ReadHead(t) \/ ReadTailOfPop(t) \/ ReadHeadNext(t)
    BY <1>1 DEF Get, ReadHead, ReadTailOfPop, ReadHeadNext
  <1>2. CASE SameHead(t) \/ Decide(t) \/ Help(t)
    BY <1>2 DEF SameHead, Decide, Help
  <1>3. CASE Take(t) \/ Pop(t)
    BY <1>3 DEF Take, Pop
  <1>4. CASE Delete(t) \/ Shrink(t)
    BY <1>4 DEF Delete, Shrink
  <1> QED
    BY <1>1, <1>2, <1>3, <1>4 DEF PopperNext

(* What a step may make of the list p: it stays, gets one more node, or      *)
(* loses its first one, and then the clause of the second one is returned.  *)
Moves(p, q) ==
    \/ /\ q = p /\ popped' = popped
       /\ \A n \in Elems(p) : clause'[n] = clause[n]
    \/ /\ popped' = popped /\ clause' = clause
       /\ \E n \in Nodes : clause[n] \in Clauses /\ q = Append(p, n)
    \/ /\ Len(p) > 1 /\ q = Tail(p) /\ clause' = clause
       /\ popped' = Append(popped, clause[p[2]])

(* The list stays as it is while its nodes do, though tail may catch up. *)
LEMMA ListStays ==
  ASSUME Types, NEW p, Chain(p), Elems(p) \subseteq live', head' = head,
         \A n \in Elems(p) : next'[n] = next[n],
         tail' = tail \/ (next[tail] # Null /\ tail' = next[tail])
  PROVE  Chain(p)'
  <1>1. p \in Seq(live) /\ p # <<>>
    BY DEF Chain
  <1>2. Len(p) \in Nat /\ Len(p) > 0 /\ DOMAIN p = 1..Len(p)
    BY <1>1
  <1>3. \A i \in 1..Len(p) : p[i] \in Elems(p)
    BY DEF Elems
  <1>4. p \in Seq(live')
    <2>1. \A i \in 1..Len(p) : p[i] \in live'
      BY <1>3
    <2> QED
      BY <1>1, <1>2, <2>1
  <1>5. \A i \in 1..(Len(p) - 1) : next'[p[i]] = p[i + 1]
    <2>1. \A i \in 1..(Len(p) - 1) : next'[p[i]] = next[p[i]]
      BY <1>2, <1>3
    <2> QED
      BY <2>1 DEF Chain
  <1>6. next'[p[Len(p)]] = Null
    BY <1>2, <1>3 DEF Chain
  <1>7. tail' = p[Len(p)] \/ (Len(p) > 1 /\ tail' = p[Len(p) - 1])
    <2>1. CASE tail' = tail
      BY <2>1 DEF Chain
    <2>2. CASE next[tail] # Null /\ tail' = next[tail]
      <3>1. Len(p) > 1 /\ tail = p[Len(p) - 1]
        BY <2>2 DEF Chain
      <3>2. next[p[Len(p) - 1]] = p[Len(p)]
        <4>1. Len(p) - 1 \in 1..(Len(p) - 1)
          BY <1>2, <3>1
        <4> QED
          BY <1>2, <4>1 DEF Chain
      <3> QED
        BY <2>2, <3>1, <3>2
    <2> QED
      BY <2>1, <2>2
  <1> QED
    BY <1>1, <1>4, <1>5, <1>6, <1>7 DEF Chain

LEMMA ElemsAppend ==
  ASSUME NEW S, NEW p \in Seq(S), NEW n
  PROVE  Elems(Append(p, n)) = Elems(p) \cup {n}
  <1>1. Len(Append(p, n)) = Len(p) + 1 /\ Len(p) \in Nat
    OBVIOUS
  <1>2. \A i \in 1..Len(p) : Append(p, n)[i] = p[i]
    OBVIOUS
  <1>3. Append(p, n)[Len(p) + 1] = n
    OBVIOUS
  <1>4. 1..(Len(p) + 1) = (1..Len(p)) \cup {Len(p) + 1}
    BY <1>1
  <1> QED
    BY <1>1, <1>2, <1>3, <1>4 DEF Elems

(* A new node is linked behind the last one. *)
LEMMA ListGrows ==
  ASSUME Types, NEW p, Chain(p), NEW n \in live, n \notin Elems(p), next[n] = Null,
         next[tail] = Null, live' = live, head' = head, tail' = tail,
         next' = [next EXCEPT ![tail] = n]
  PROVE  Chain(Append(p, n))'
  <1> DEFINE q == Append(p, n)
             N == Len(p)
  <1>1. p \in Seq(live) /\ p # <<>> /\ live \subseteq Nodes /\ Null \notin live
    BY BufferAssumption DEF Chain, Types
  <1>2. N \in Nat /\ N > 0 /\ Len(q) = N + 1 /\ q \in Seq(live)
    BY <1>1
  <1>3. \A i \in 1..N : q[i] = p[i] /\ p[i] \in live /\ p[i] \in Elems(p)
    BY <1>1 DEF Elems
  <1>4. q[N + 1] = n
    BY <1>1
  <1>5. tail = p[N]
    <2>1. SUFFICES ASSUME N > 1, tail = p[N - 1]
                   PROVE  FALSE
      BY DEF Chain
    <2>2. N - 1 \in 1..(N - 1) /\ N \in 1..N
      BY <1>2, <2>1
    <2>3. next[p[N - 1]] = p[N]
      BY <1>2, <2>2 DEF Chain
    <2> QED
      BY <1>1, <1>3, <2>1, <2>2, <2>3
  <1>6. Distinct(q)
    <2>1. SUFFICES ASSUME NEW i \in 1..(N + 1), NEW j \in 1..(N + 1), q[i] = q[j]
                   PROVE  i = j
      BY <1>2 DEF Distinct
    <2>2. CASE i \in 1..N /\ j \in 1..N
      BY <1>3, <2>1, <2>2 DEF Chain, Distinct
    <2>3. CASE i = N + 1 \/ j = N + 1
      <3>1. \A k \in 1..(N + 1) : k \in 1..N \/ k = N + 1
        BY <1>2
      <3> QED
        BY <1>3, <1>4, <2>1, <2>3, <3>1
    <2> QED
      BY <1>2, <2>2, <2>3
  <1>7. \A i \in 1..N : next'[q[i]] = q[i + 1]
    <2>1. SUFFICES ASSUME NEW i \in 1..N
                   PROVE  next'[q[i]] = q[i + 1]
      OBVIOUS
    <2>2. CASE i = N
      BY <1>1, <1>2, <1>3, <1>4, <1>5, <2>2 DEF Types
    <2>3. CASE i \in 1..(N - 1)
      <3>1. i + 1 \in 1..N /\ N \in 1..N /\ i # N
        BY <1>2, <2>3
      <3>2. p[i] # p[N]
        BY <3>1 DEF Chain, Distinct
      <3>3. next[p[i]] = p[i + 1]
        BY <2>3 DEF Chain
      <3> QED
        BY <1>1, <1>3, <1>5, <3>1, <3>2, <3>3 DEF Types
    <2> QED
      BY <1>2, <2>2, <2>3
  <1>8. next'[q[N + 1]] = Null
    <2>1. n # tail
      BY <1>2, <1>3, <1>5
    <2> QED
      BY <1>1, <1>4, <2>1 DEF Types
  <1>9. head' = q[1] /\ tail' = q[Len(q) - 1]
    BY <1>2, <1>3, <1>5 DEF Chain
  <1> QED
    <2>1. q # <<>> /\ Len(q) > 1 /\ (Len(q) - 1) = N /\ q \in Seq(live')
      BY <1>2
    <2> HIDE DEF q, N
    <2> QED
      BY <1>2, <1>6, <1>7, <1>8, <1>9, <2>1 DEF Chain, q

LEMMA TailProp ==
  ASSUME NEW S, NEW p \in Seq(S), Len(p) > 1
  PROVE  /\ Tail(p) \in Seq(S) /\ Len(Tail(p)) = Len(p) - 1
         /\ \A i \in 1..(Len(p) - 1) : Tail(p)[i] = p[i + 1]
  <1>1. p # <<>>
    OBVIOUS
  <1> QED
    BY <1>1, HeadTailProperties

LEMMA ElemsTail ==
  ASSUME NEW S, NEW p \in Seq(S), Len(p) > 1
  PROVE  Elems(Tail(p)) \subseteq Elems(p) /\ p[1] \in Elems(p)
  <1>1. \A i \in 1..(Len(p) - 1) : i + 1 \in 1..Len(p)
    OBVIOUS
  <1>2. 1 \in 1..Len(p)
    OBVIOUS
  <1> QED
    BY <1>1, <1>2, TailProp DEF Elems

(* The dummy goes, and the first node of the list takes its place. *)
LEMMA ListShrinks ==
  ASSUME Types, NEW p, Chain(p), Len(p) > 1, head' = p[2], tail # head,
         live' = live, tail' = tail, next' = next
  PROVE  Chain(Tail(p))' /\ p[1] \notin Elems(Tail(p))
  <1> DEFINE q == Tail(p)
             N == Len(p)
  <1>1. p \in Seq(live) /\ N \in Nat /\ N > 1
    BY DEF Chain
  <1>2. q \in Seq(live') /\ Len(q) = N - 1 /\ q # <<>>
    <2>1. q \in Seq(live) /\ Len(q) = N - 1
      BY <1>1, TailProp
    <2>2. N - 1 # 0
      BY <1>1
    <2> HIDE DEF q, N
    <2> QED
      BY <2>1, <2>2
  <1>3. \A i \in 1..(N - 1) : q[i] = p[i + 1]
    BY <1>1, <1>2, TailProp
  <1>4. Distinct(q)
    <2>1. \A i \in 1..(N - 1) : i \in Int /\ i + 1 \in 1..N
      BY <1>1
    <2>2. \A i, j \in 1..(N - 1) : p[i + 1] = p[j + 1] => i + 1 = j + 1
      BY <2>1 DEF Chain, Distinct
    <2>3. \A i, j \in 1..(N - 1) : q[i] = q[j] => i + 1 = j + 1
      BY <1>3, <2>2
    <2>4. \A i, j \in 1..(N - 1) : i + 1 = j + 1 => i = j
      BY <1>1
    <2> HIDE DEF q, N
    <2> QED
      BY <1>2, <2>3, <2>4 DEF Distinct
  <1>5. \A i \in 1..(Len(q) - 1) : next'[q[i]] = q[i + 1]
    <2>1. SUFFICES ASSUME NEW i \in 1..(N - 2)
                   PROVE  next[q[i]] = q[i + 1]
      BY <1>1, <1>2
    <2>2. i \in 1..(N - 1) /\ i + 1 \in 1..(N - 1) /\ (i + 1) + 1 = i + 2
      BY <1>1
    <2>3. next[p[i + 1]] = p[(i + 1) + 1]
      BY <2>2 DEF Chain
    <2>4. q[i] = p[i + 1] /\ q[i + 1] = p[(i + 1) + 1]
      BY <1>3, <2>2
    <2> QED
      BY <2>3, <2>4
  <1>6. q[Len(q)] = p[N] /\ q[1] = p[2]
    <2>1. N - 1 \in 1..(N - 1) /\ (N - 1) + 1 = N /\ 1 \in 1..(N - 1)
      BY <1>1
    <2> HIDE DEF q, N
    <2> QED
      BY <1>2, <1>3, <2>1
  <1>7. tail' = q[Len(q)] \/ (Len(q) > 1 /\ tail' = q[Len(q) - 1])
    <2>1. SUFFICES ASSUME tail = p[N - 1]
                   PROVE  Len(q) > 1 /\ tail = q[Len(q) - 1]
      BY <1>6 DEF Chain
    <2>2. N # 2
      BY <1>1, <2>1 DEF Chain
    <2>3. N - 2 \in 1..(N - 1) /\ (N - 2) + 1 = N - 1 /\ (N - 1) - 1 = N - 2 /\ N - 1 > 1
      <3>1. \A m \in Nat : m > 1 /\ m # 2 =>
               m - 2 \in 1..(m - 1) /\ (m - 2) + 1 = m - 1 /\ (m - 1) - 1 = m - 2 /\ m - 1 > 1
        OBVIOUS
      <3> HIDE DEF N
      <3> QED
        BY <1>1, <2>2, <3>1
    <2>4. q[N - 2] = p[(N - 2) + 1]
      BY <1>3, <2>3
    <2> HIDE DEF q, N
    <2> QED
      BY <1>2, <2>1, <2>3, <2>4
  <1>8. p[1] \notin Elems(q)
    <2>1. \A i \in 1..(N - 1) : i + 1 \in 1..N /\ i + 1 # 1 /\ 1 \in 1..N
      BY <1>1
    <2>2. \A i \in 1..(N - 1) : q[i] # p[1]
      BY <1>3, <2>1 DEF Chain, Distinct
    <2> HIDE DEF q, N
    <2> QED
      BY <1>2, <2>2 DEF Elems
  <1>9. next'[q[Len(q)]] = Null
    BY <1>6 DEF Chain
  <1> QED
    <2> HIDE DEF q, N
    <2> QED
      BY <1>2, <1>4, <1>5, <1>6, <1>7, <1>8, <1>9 DEF Chain, q

----------------------------------------------------------------------------
(* addClause.                                                              *)

LEMMA AdderTypes ==
  ASSUME Sound, NEW t \in Adders, AdderNext(t)
  PROVE  Types'
  <1>0. Types /\ t \in Threads
    BY Roles DEF Sound
  <1>a. pc' = [u \in Threads |-> pc'[u]]
    <2>1. CASE Add(t) \/ ReadTail(t) \/ ReadNext(t) \/ SameTail(t)
      BY <1>0, <2>1 DEF Types, Add, ReadTail, ReadNext, SameTail, Access, Step
    <2>2. CASE Link(t) \/ Grow(t) \/ Help(t) \/ Swing(t)
      BY <1>0, <2>2 DEF Types, Link, Grow, Help, Swing, Access, Step
    <2> QED
      BY <2>1, <2>2 DEF AdderNext
  <1>1. CASE Add(t)
    <2>1. PICK c \in left, n \in Nodes \ live :
             /\ left' = left \ {c}
             /\ out' = [out EXCEPT ![t] = c]
             /\ live' = live \cup {n}
             /\ next' = [next EXCEPT ![n] = Null]
             /\ clause' = [clause EXCEPT ![n] = c]
             /\ my' = [my EXCEPT ![t].node = n]
      BY <1>1 DEF Add
    <2>2. c \in Clauses
      BY <1>0 DEF Types
    <2>3. head' = head /\ tail' = tail
      BY <1>1 DEF Add
    <2>4. my' \in [Threads -> [head : Pointers, tail : Pointers, next : Pointers, node : Pointers]]
      BY <1>0, <2>1 DEF Types, Pointers
    <2> QED
      BY <1>0, <1>a, <2>1, <2>2, <2>3, <2>4 DEF Types, Pointers
  <1>2. CASE ReadTail(t)
    BY <1>0, <1>a, <1>2 DEF ReadTail, listVars, Types, Pointers
  <1>3. CASE ReadNext(t)
    <2>1. my[t].tail = tail
      BY <1>3 DEF ReadNext, Access, Step, Sound, AdderInv
    <2>2. next[tail] \in Pointers
      BY <1>0 DEF Types
    <2> QED
      BY <1>0, <1>a, <1>3, <2>1, <2>2 DEF ReadNext, listVars, Types
  <1>4. CASE SameTail(t) \/ Grow(t)
    BY <1>0, <1>a, <1>4 DEF SameTail, Grow, listVars, Types
  <1>5. CASE Link(t)
    BY <1>0, <1>a, <1>5 DEF Link, Types
  <1>6. CASE Help(t)
    BY <1>6 DEF Help, Step, Sound, AdderInv
  <1>7. CASE Swing(t)
    <2>1. my[t].node \in Nodes
      BY <1>7 DEF Swing, Step, Sound, AdderInv, Linked
    <2>2. tail' \in Nodes
      BY <1>0, <1>7, <2>1 DEF Swing, MoveTail, Types
    <2> QED
      BY <1>0, <1>a, <1>7, <2>2 DEF Swing, NoPointers, Types, Pointers
  <1> QED
    BY <1>1, <1>2, <1>3, <1>4, <1>5, <1>6, <1>7 DEF AdderNext

(* The adder's accesses are to tail, and tail is allocated. *)
LEMMA AdderNoCrash ==
  ASSUME Sound, NEW t \in Adders, AdderNext(t)
  PROVE  NoCrash'
  <1>0. Types /\ tail \in live
    BY ListFacts DEF Sound
  <1>1. Alone(t)
    BY <1>0, AdderAlone
  <1>2. pc'[t] # "crashed"
    <2> USE Roles DEF Types
    <2>1. CASE ReadNext(t)
      <3>1. my[t].tail = tail
        BY <2>1 DEF ReadNext, Access, Step, Sound, AdderInv
      <3> QED
        BY <1>0, <2>1, <3>1 DEF ReadNext, Access, Step
    <2>2. CASE Link(t)
      <3>1. my[t].tail = tail
        BY <2>2 DEF Link, Access, Step, Sound, AdderInv
      <3> QED
        BY <1>0, <2>2, <3>1 DEF Link, Access, Step
    <2>3. CASE Add(t) \/ ReadTail(t) \/ SameTail(t) \/ Grow(t) \/ Help(t) \/ Swing(t)
      BY <1>0, <2>3 DEF Add, ReadTail, SameTail, Grow, Help, Swing, Step
    <2> QED
      BY <2>1, <2>2, <2>3 DEF AdderNext
  <1> QED
    BY <1>1, <1>2 DEF Alone, NoCrash, Sound

LEMMA AdderOneOfEach ==
  ASSUME Sound, NEW t \in Adders, AdderNext(t), ~misused'
  PROVE  OneOfEach' /\ \A u \in Adders : u # t => pc[u] = "idle" /\ pc'[u] = "idle"
  <1>0. Types /\ OneOfEach
    BY DEF Sound
  <1>1. Alone(t)
    BY <1>0, AdderAlone
  <1>2. \A u \in Adders : u # t => pc[u] = "idle"
    <2>1. CASE Add(t)
      BY <2>1 DEF Add, Busy
    <2>2. CASE ~Add(t)
      <3>1. pc[t] # "idle"
        BY <2>2 DEF AdderNext, ReadTail, ReadNext, SameTail, Link, Grow, Help, Swing, Access, Step
      <3> QED
        BY <1>0, <3>1 DEF OneOfEach
    <2> QED
      BY <2>1, <2>2
  <1> QED
    BY <1>0, <1>1, <1>2, Roles DEF Alone, OneOfEach

(* Only the compare-and-swap of tail->next changes the list. *)
LEMMA AdderList ==
  ASSUME Sound, NEW t \in Adders, AdderNext(t), ~misused', NEW p, Chain(p), Apart(p)
  PROVE  \E q : Chain(q)' /\ Apart(q)' /\ Moves(p, q)
  <1>0. Types /\ t \in Threads /\ t \notin Poppers
    BY Roles DEF Sound
  <1>1. Alone(t)
    BY <1>0, AdderAlone
  <1>2. Elems(p) \subseteq live
    BY DEF Chain, Elems
  <1>3. popped' = popped
    BY DEF AdderNext, Add, ReadTail, ReadNext, SameTail, Link, Grow, Help, Swing
  <1>4. ASSUME pc'[t] \in Preparing =>
                  /\ my'[t].node \notin Elems(p)
                  /\ \A u \in Poppers : pc[u] = "delete" => my'[t].node # my[u].head
        PROVE  Apart(p)'
    BY <1>0, <1>1, <1>4, Roles DEF Alone, Apart
  <1>5. CASE Add(t)
    <2>1. PICK c \in left, n \in Nodes \ live :
             /\ live' = live \cup {n}
             /\ next' = [next EXCEPT ![n] = Null]
             /\ clause' = [clause EXCEPT ![n] = c]
             /\ my' = [my EXCEPT ![t].node = n]
      BY <1>5 DEF Add
    <2>2. \A m \in Elems(p) : m \in Nodes /\ m # n /\ next'[m] = next[m] /\ clause'[m] = clause[m]
      BY <1>0, <1>2, <2>1 DEF Types
    <2>3. my'[t].node = n
      BY <1>0, <2>1 DEF Types
    <2>4. head' = head /\ tail' = tail /\ Elems(p) \subseteq live'
      BY <1>2, <1>5, <2>1 DEF Add
    <2>5. Chain(p)'
      BY <1>0, <2>2, <2>4, ListStays
    <2>6. \A u \in Poppers : pc[u] = "delete" => my[u].head \in live
      BY DEF Sound, PopperInv
    <2>7. Apart(p)'
      BY <1>2, <1>4, <2>3, <2>6
    <2> QED
      BY <1>3, <2>2, <2>5, <2>7 DEF Moves
  <1>6. CASE ReadTail(t) \/ ReadNext(t) \/ SameTail(t) \/ Grow(t)
    <2>1. UNCHANGED <<head, tail, live, next, clause>>
      BY <1>6 DEF ReadTail, ReadNext, SameTail, Grow, listVars
    <2>2. Chain(p)'
      BY <1>0, <1>2, <2>1, ListStays
    <2>3. my'[t].node = my[t].node
      BY <1>0, <1>6 DEF Types, ReadTail, ReadNext, SameTail, Grow
    <2>4. pc'[t] \in Preparing => pc[t] \in Preparing
      BY <1>0, <1>6 DEF Types, ReadTail, ReadNext, SameTail, Grow, Access, Step, Preparing
    <2>5. Apart(p)'
      BY <1>4, <2>3, <2>4 DEF Apart
    <2> QED
      BY <1>3, <2>1, <2>2, <2>5 DEF Moves
  <1>7. CASE Link(t)
    <2>1. pc[t] = "link"
      BY <1>7 DEF Link, Access, Step
    <2>2. PICK n \in live : n = my[t].node /\ clause[n] \in Clauses /\ next[n] = Null
      BY <2>1 DEF Sound, AdderInv, Preparing
    <2>3. tail \in live /\ my[t].tail = tail
      BY <1>0, <2>1, ListFacts DEF Sound, AdderInv
    <2>4. next[tail] = Null
      <3>1. \A u \in Adders : pc[u] # "idle" => u = t
        BY <2>1 DEF Sound, OneOfEach
      <3> QED
        BY <2>1, <3>1 DEF Sound, AdderInv, Linked
    <2>5. /\ next' = [next EXCEPT ![tail] = n]
          /\ UNCHANGED <<head, tail, live, clause, my>>
          /\ pc'[t] = "grow"
      BY <1>0, <1>7, <2>2, <2>3, <2>4 DEF Link, Access, Step, Types
    <2>6. n \notin Elems(p)
      BY <2>1, <2>2 DEF Apart, Preparing
    <2>7. Chain(Append(p, n))'
      BY <1>0, <2>2, <2>4, <2>5, <2>6, ListGrows
    <2>8. Apart(Append(p, n))'
      <3>1. \A u \in Adders : pc'[u] \notin Preparing
        BY <2>5, AdderOneOfEach DEF Preparing
      <3>2. \A u \in Poppers : pc'[u] = "delete" => my'[u].head \notin Elems(p) /\ my'[u].head # n
        BY <1>0, <1>1, <2>1, <2>2, Roles DEF Alone, Apart, Preparing
      <3>3. Elems(Append(p, n)) = Elems(p) \cup {n}
        BY ElemsAppend DEF Chain
      <3> QED
        BY <3>1, <3>2, <3>3 DEF Apart
    <2>9. n \in Nodes
      BY <1>0, <2>2 DEF Types
    <2> QED
      BY <1>3, <2>2, <2>5, <2>7, <2>8, <2>9 DEF Moves
  <1>8. CASE Help(t)
    BY <1>8 DEF Help, Step, Sound, AdderInv
  <1>9. CASE Swing(t)
    <2>1. pc[t] = "swing" /\ pc'[t] = "idle"
      BY <1>0, <1>9 DEF Swing, Step, Types
    <2>2. tail' = tail \/ (next[tail] # Null /\ tail' = next[tail])
      BY <1>9, <2>1, BufferAssumption DEF Swing, MoveTail, Sound, AdderInv, Linked
    <2>3. UNCHANGED <<head, live, next, clause>>
      BY <1>9 DEF Swing
    <2>4. Chain(p)'
      BY <1>0, <1>2, <2>2, <2>3, ListStays
    <2>5. Apart(p)'
      BY <1>4, <2>1 DEF Preparing
    <2> QED
      BY <1>3, <2>3, <2>4, <2>5 DEF Moves
  <1> QED
    BY <1>5, <1>6, <1>7, <1>8, <1>9 DEF AdderNext

LEMMA AdderAdderInv ==
  ASSUME Sound, NEW t \in Adders, AdderNext(t), ~misused'
  PROVE  AdderInv'
  <1>0. Types /\ t \in Threads /\ AdderInv
    BY Roles DEF Sound
  <1>1. \A u \in Adders : u # t => pc[u] = "idle" /\ pc'[u] = "idle"
    BY AdderOneOfEach
  <1>2. tail \in live /\ tail \in Nodes /\ Null \notin Nodes
    BY <1>0, ListFacts, BufferAssumption DEF Sound, Types
  <1>3. ASSUME /\ next'[tail'] # Null => pc'[t] \in Linked
               /\ pc'[t] # "help"
               /\ pc'[t] \in Preparing \cup Linked =>
                      my'[t].node \in Nodes /\ next'[my'[t].node] = Null
               /\ pc'[t] \in Preparing => my'[t].node \in live' /\ clause'[my'[t].node] \in Clauses
               /\ pc'[t] \in {"next", "same", "link"} => my'[t].tail = tail'
               /\ pc'[t] \in {"same", "link"} => my'[t].next = Null
               /\ pc'[t] \in Linked =>
                      /\ my'[t].tail # my'[t].node
                      /\ \/ tail' = my'[t].node
                         \/ tail' = my'[t].tail /\ next'[tail'] = my'[t].node
        PROVE  AdderInv'
    BY <1>1, <1>3 DEF AdderInv, Preparing, Linked
  <1>4. next[tail] # Null => pc[t] \in Linked
    BY <1>0, <1>1 DEF AdderInv, Linked
  <1>5. CASE Add(t)
    <2>1. PICK c \in left, n \in Nodes \ live :
             /\ live' = live \cup {n}
             /\ next' = [next EXCEPT ![n] = Null]
             /\ clause' = [clause EXCEPT ![n] = c]
             /\ my' = [my EXCEPT ![t].node = n]
      BY <1>5 DEF Add
    <2>2. pc[t] = "idle" /\ pc'[t] = "tail" /\ tail' = tail
      BY <1>0, <1>5 DEF Add, Step, Types
    <2>3. my'[t].node = n /\ next'[n] = Null /\ next'[tail] = next[tail]
      BY <1>0, <1>2, <2>1 DEF Types
    <2>4. clause'[n] \in Clauses
      BY <1>0, <2>1 DEF Types
    <2> QED
      BY <1>3, <1>4, <2>1, <2>2, <2>3, <2>4 DEF Linked
  <1>6. CASE ReadTail(t)
    <2>1. pc[t] = "tail" /\ pc'[t] = "next" /\ UNCHANGED <<tail, next, clause, live>>
      BY <1>0, <1>6 DEF ReadTail, Step, Types, listVars
    <2>2. my'[t].node = my[t].node /\ my'[t].tail = tail
      BY <1>0, <1>6 DEF ReadTail, Types
    <2> QED
      BY <1>0, <1>3, <1>4, <2>1, <2>2 DEF AdderInv, Linked, Preparing
  <1>7. CASE ReadNext(t)
    <2>1. pc[t] = "next" /\ UNCHANGED <<tail, next, clause, live>>
      BY <1>0, <1>7 DEF ReadNext, Access, Step, listVars
    <2>2. my[t].tail = tail
      BY <1>0, <2>1 DEF AdderInv
    <2>3. pc'[t] = "same"
      BY <1>0, <1>2, <1>7, <2>2 DEF ReadNext, Access, Step, Types
    <2>4. my'[t].node = my[t].node /\ my'[t].tail = tail /\ my'[t].next = next[tail]
      BY <1>0, <1>7, <2>2 DEF ReadNext, Types
    <2> QED
      BY <1>0, <1>3, <1>4, <2>1, <2>3, <2>4 DEF AdderInv, Linked, Preparing
  <1>8. CASE SameTail(t)
    <2>1. pc[t] = "same" /\ UNCHANGED <<tail, next, clause, live, my>>
      BY <1>0, <1>8 DEF SameTail, Step, listVars
    <2>2. my[t].tail = tail /\ my[t].next = Null
      BY <1>0, <2>1 DEF AdderInv
    <2>3. pc'[t] = "link"
      BY <1>0, <1>8, <2>2 DEF SameTail, Step, Types
    <2> QED
      BY <1>0, <1>3, <1>4, <2>1, <2>2, <2>3 DEF AdderInv, Linked, Preparing
  <1>9. CASE Link(t)
    <2>1. pc[t] = "link" /\ UNCHANGED <<tail, live, clause, my>>
      BY <1>9 DEF Link, Access, Step
    <2>2. my[t].tail = tail /\ my[t].node \in Nodes /\ next[my[t].node] = Null /\ next[tail] = Null
      BY <1>0, <1>4, <2>1 DEF AdderInv, Linked, Preparing
    <2>3. pc'[t] = "grow" /\ next' = [next EXCEPT ![tail] = my[t].node]
      BY <1>0, <1>2, <1>9, <2>2 DEF Link, Access, Step, Types
    <2>4. tail # my[t].node
      <3>1. PICK p : Chain(p) /\ Apart(p)
        BY DEF Sound, ListInv
      <3>2. tail \in Elems(p)
        BY <3>1 DEF Chain, Elems
      <3> QED
        BY <2>1, <3>1, <3>2 DEF Apart, Preparing
    <2>5. next'[tail] = my[t].node /\ next'[my[t].node] = Null
      BY <1>0, <1>2, <2>2, <2>3, <2>4 DEF Types
    <2> QED
      BY <1>3, <2>1, <2>2, <2>3, <2>4, <2>5 DEF Linked, Preparing
  <1>10. CASE Grow(t)
    <2>1. pc[t] = "grow" /\ pc'[t] = "swing" /\ UNCHANGED <<tail, live, clause, my, next>>
      BY <1>0, <1>10 DEF Grow, Step, Types
    <2> QED
      BY <1>0, <1>3, <2>1 DEF AdderInv, Linked, Preparing
  <1>11. CASE Help(t)
    BY <1>0, <1>11 DEF Help, Step, AdderInv
  <1>12. CASE Swing(t)
    <2>1. pc[t] = "swing" /\ pc'[t] = "idle" /\ UNCHANGED <<live, clause, next>>
      BY <1>0, <1>12 DEF Swing, Step, Types
    <2>2. tail' = my[t].node
      BY <1>0, <1>12, <2>1 DEF Swing, MoveTail, AdderInv, Linked
    <2>3. next[my[t].node] = Null
      BY <1>0, <2>1 DEF AdderInv, Linked
    <2> QED
      BY <1>3, <2>1, <2>2, <2>3 DEF Linked, Preparing
  <1> QED
    BY <1>5, <1>6, <1>7, <1>8, <1>9, <1>10, <1>11, <1>12 DEF AdderNext

(* An adder changes the field next of a node of the list only at its end,   *)
(* and moves tail only away from head.                                      *)
LEMMA AdderPopperInv ==
  ASSUME Sound, NEW t \in Adders, AdderNext(t), ~misused'
  PROVE  PopperInv'
  <1>0. Types /\ t \in Threads /\ t \notin Poppers /\ AdderInv
    BY Roles DEF Sound
  <1>1. \A u \in Poppers : pc'[u] = pc[u] /\ my'[u] = my[u] /\ out'[u] = out[u]
    BY <1>0, AdderAlone, Roles DEF Alone
  <1>2. head \in live /\ head' = head
    BY <1>0, ListFacts DEF Sound, AdderNext, Add, ReadTail, ReadNext, SameTail, Link, Grow,
                           Help, Swing, listVars
  <1>3. live \subseteq live'
    BY DEF AdderNext, Add, ReadTail, ReadNext, SameTail, Link, Grow, Help, Swing, listVars
  <1>4. tail # head => tail' # head
    <2>1. CASE Swing(t)
      <3>1. pc[t] = "swing"
        BY <2>1 DEF Swing, Step
      <3>2. tail' = tail \/ (next[tail] # Null /\ tail' = next[tail])
        BY <1>0, <2>1, <3>1, BufferAssumption DEF Swing, MoveTail, AdderInv, Linked
      <3> QED
        BY <1>0, <3>2, ListFacts DEF Sound
    <2>2. CASE ~Swing(t)
      <3>1. ~Help(t)
        BY <1>0 DEF Help, Step, AdderInv
      <3> QED
        BY <2>2, <3>1 DEF AdderNext, Add, ReadTail, ReadNext, SameTail, Link, Grow, listVars
    <2> QED
      BY <2>1, <2>2
  <1>5. next[head] # Null => next'[head] = next[head]
    <2>1. CASE Add(t)
      BY <1>0, <1>2, <2>1 DEF Add, Types
    <2>2. CASE Link(t)
      BY <1>0, <1>2, <2>2 DEF Link, Types
    <2> QED
      BY <2>1, <2>2 DEF AdderNext, ReadTail, ReadNext, SameTail, Grow, Help, Swing, listVars
  <1>6. \A n \in live : clause'[n] = clause[n]
    <2>1. CASE Add(t)
      BY <1>0, <2>1 DEF Add, Types
    <2> QED
      BY <2>1 DEF AdderNext, ReadTail, ReadNext, SameTail, Link, Grow, Help, Swing, listVars
  <1>7. next[head] # Null => next[head] \in live
    BY <1>0, ListFacts DEF Sound
  <1> QED
    <2>1. SUFFICES ASSUME NEW u \in Poppers
                   PROVE
        /\ pc[u] \in {"htail", "hnext", "hsame", "decide", "help", "take", "pop"} =>
               my[u].head = head
        /\ pc[u] \in {"hnext", "hsame", "decide"} /\ my[u].tail # head => tail' # head
        /\ pc[u] \in {"hsame", "decide"} =>
               /\ my[u].next \in {Null, next'[head]}
               /\ my[u].tail # head => my[u].next # Null
        /\ pc[u] = "help" => my[u].tail = head /\ my[u].next # Null /\ my[u].next = next'[head]
        /\ pc[u] \in {"take", "pop"} =>
               tail' # head /\ my[u].next # Null /\ my[u].next = next'[head]
        /\ pc[u] = "pop" => out[u] = clause'[my[u].next]
        /\ pc[u] = "delete" => my[u].head \in live'
      BY <1>1, <1>2 DEF PopperInv
    <2>2. PopperInv
      BY DEF Sound
    <2> QED
      BY <1>3, <1>4, <1>5, <1>6, <1>7, <2>2 DEF PopperInv

(* A step of addClause. *)
LEMMA AdderSound ==
  ASSUME Sound, NEW t \in Adders, AdderNext(t), ~misused'
  PROVE  Sound'
  <1>1. PICK p : Chain(p) /\ Apart(p)
    BY DEF Sound, ListInv
  <1>2. PICK q : Chain(q)' /\ Apart(q)'
    BY <1>1, AdderList
  <1>3. ListInv'
    BY <1>2 DEF ListInv, Chain
  <1> QED
    BY <1>3, AdderTypes, AdderNoCrash, AdderOneOfEach, AdderAdderInv, AdderPopperInv DEF Sound

----------------------------------------------------------------------------
(* getClause.                                                              *)

LEMMA PopperTypes ==
  ASSUME Sound, NEW t \in Poppers, PopperNext(t)
  PROVE  Types'
  <1>0. Types /\ t \in Threads /\ PopperInv
    BY Roles DEF Sound
  <1>a. pc' = [u \in Threads |-> pc'[u]]
    <2>1. CASE Get(t) \/ ReadHead(t) \/ ReadTailOfPop(t) \/ ReadHeadNext(t)
      BY <1>0, <2>1 DEF Types, Get, ReadHead, ReadTailOfPop, ReadHeadNext, Access, Step
    <2>2. CASE SameHead(t) \/ Decide(t) \/ Help(t) \/ Take(t)
      BY <1>0, <2>2 DEF Types, SameHead, Decide, Help, Take, Access, Step
    <2>3. CASE Pop(t) \/ Delete(t) \/ Shrink(t)
      BY <1>0, <2>3 DEF Types, Pop, Delete, Shrink, Access, Step
    <2> QED
      BY <2>1, <2>2, <2>3 DEF PopperNext
  <1>b. next[head] # Null => next[head] \in Nodes
    BY <1>0 DEF Types, Pointers
  <1>1. CASE Get(t) \/ SameHead(t) \/ Decide(t)
    <2>1. CASE Get(t)
      BY <1>0, <1>a, <2>1 DEF Get, listVars, Types
    <2>2. CASE SameHead(t)
      BY <1>0, <1>a, <2>2 DEF SameHead, listVars, Types
    <2>3. CASE Decide(t)
      BY <1>0, <1>a, <2>3 DEF Decide, listVars, Types
    <2> QED
      BY <1>1, <2>1, <2>2, <2>3
  <1>2. CASE ReadHead(t)
    BY <1>0, <1>a, <1>2 DEF ReadHead, listVars, Types, Pointers
  <1>3. CASE ReadTailOfPop(t)
    BY <1>0, <1>a, <1>3, SMTT(30) DEF ReadTailOfPop, listVars, Types, Pointers
  <1>4. CASE ReadHeadNext(t)
    <2>1. my[t].head = head
      BY <1>0, <1>4 DEF ReadHeadNext, Access, Step, PopperInv
    <2>2. next[head] \in Pointers
      BY <1>0 DEF Types
    <2> QED
      BY <1>0, <1>a, <1>4, <2>1, <2>2 DEF ReadHeadNext, listVars, Types
  <1>5. CASE Help(t)
    <2>1. my[t].next \in Nodes
      BY <1>0, <1>b, <1>5 DEF Help, Step, PopperInv
    <2> QED
      BY <1>0, <1>a, <1>5, <2>1 DEF Help, MoveTail, Types
  <1>6. CASE Take(t)
    <2>1. my[t].next \in Nodes
      BY <1>0, <1>b, <1>6 DEF Take, Access, Step, PopperInv
    <2>2. clause[my[t].next] \in Clauses \cup {Null}
      BY <1>0, <2>1 DEF Types
    <2> QED
      BY <1>0, <1>a, <1>6, <2>2 DEF Take, listVars, Types
  <1>7. CASE Pop(t)
    <2>1. my[t].next \in Nodes
      BY <1>0, <1>b, <1>7 DEF Pop, Step, PopperInv
    <2> QED
      BY <1>0, <1>a, <1>7, <2>1 DEF Pop, Types
  <1>8. CASE Delete(t)
    BY <1>0, <1>a, <1>8 DEF Delete, Types
  <1>9. CASE Shrink(t)
    BY <1>0, <1>a, <1>9 DEF Shrink, NoPointers, Types, Pointers
  <1> QED
    BY <1>1, <1>2, <1>3, <1>4, <1>5, <1>6, <1>7, <1>8, <1>9 DEF PopperNext

(* The popper's accesses are to head, to the node behind it, and to the old *)
(* dummy, which it alone deletes.                                           *)
LEMMA PopperNoCrash ==
  ASSUME Sound, NEW t \in Poppers, PopperNext(t)
  PROVE  NoCrash'
  <1>0. Types /\ t \in Threads /\ PopperInv
    BY Roles DEF Sound
  <1>1. head \in live /\ (next[head] # Null => next[head] \in live)
    BY <1>0, ListFacts DEF Sound
  <1>2. Alone(t)
    BY <1>0, PopperAlone
  <1>3. pc'[t] # "crashed"
    <2>1. CASE ReadHeadNext(t)
      <3>1. my[t].head = head
        BY <1>0, <2>1 DEF ReadHeadNext, Access, Step, PopperInv
      <3> QED
        BY <1>0, <1>1, <2>1, <3>1 DEF ReadHeadNext, Access, Step, Types
    <2>2. CASE Take(t)
      <3>1. my[t].next \in live
        BY <1>0, <1>1, <2>2 DEF Take, Access, Step, PopperInv
      <3> QED
        BY <1>0, <2>2, <3>1 DEF Take, Access, Step, Types
    <2>3. CASE Delete(t)
      <3>1. my[t].head \in live
        BY <1>0, <2>3 DEF Delete, Access, Step, PopperInv
      <3> QED
        BY <1>0, <2>3, <3>1 DEF Delete, Access, Step, Types
    <2>4. CASE Get(t) \/ ReadHead(t) \/ ReadTailOfPop(t) \/ SameHead(t) \/ Decide(t)
      BY <1>0, <2>4 DEF Get, ReadHead, ReadTailOfPop, SameHead, Decide, Step, Types
    <2>5. CASE Help(t) \/ Pop(t) \/ Shrink(t)
      BY <1>0, <2>5 DEF Help, Pop, Shrink, Step, Types
    <2> QED
      BY <2>1, <2>2, <2>3, <2>4, <2>5 DEF PopperNext
  <1> QED
    BY <1>2, <1>3 DEF Alone, NoCrash, Sound

LEMMA PopperOneOfEach ==
  ASSUME Sound, NEW t \in Poppers, PopperNext(t), ~misused'
  PROVE  OneOfEach' /\ \A u \in Poppers : u # t => pc[u] = "idle" /\ pc'[u] = "idle"
  <1>0. Types /\ OneOfEach
    BY DEF Sound
  <1>1. Alone(t)
    BY <1>0, PopperAlone
  <1>2. \A u \in Poppers : u # t => pc[u] = "idle"
    <2>1. CASE Get(t)
      BY <2>1 DEF Get, Busy
    <2>2. CASE ~Get(t)
      <3>1. pc[t] # "idle"
        BY <2>2 DEF PopperNext, ReadHead, ReadTailOfPop, ReadHeadNext, SameHead, Decide, Help,
                    Take, Pop, Delete, Shrink, Access, Step
      <3> QED
        BY <1>0, <3>1 DEF OneOfEach
    <2> QED
      BY <2>1, <2>2
  <1> QED
    BY <1>0, <1>1, <1>2, Roles DEF Alone, OneOfEach

(* Only the compare-and-swap of head changes the list. *)
LEMMA PopperList ==
  ASSUME Sound, NEW t \in Poppers, PopperNext(t), ~misused', NEW p, Chain(p), Apart(p)
  PROVE  \E q : Chain(q)' /\ Apart(q)' /\ Moves(p, q)
  <1>0. Types /\ t \in Threads /\ t \notin Adders /\ PopperInv
    BY Roles DEF Sound
  <1>1. Alone(t)
    BY <1>0, PopperAlone
  <1>2. Elems(p) \subseteq live
    BY DEF Chain, Elems
  <1>3. ASSUME pc'[t] # "delete"
        PROVE  Apart(p)'
    BY <1>0, <1>1, <1>3, Roles DEF Alone, Apart
  <1>4. CASE Get(t) \/ ReadHead(t) \/ ReadTailOfPop(t) \/ ReadHeadNext(t)
    <2>1. UNCHANGED <<head, tail, live, next, clause, popped>>
      BY <1>4 DEF Get, ReadHead, ReadTailOfPop, ReadHeadNext, listVars
    <2>2. Chain(p)'
      BY <1>0, <1>2, <2>1, ListStays
    <2>3. pc'[t] # "delete"
      BY <1>0, <1>4 DEF Get, ReadHead, ReadTailOfPop, ReadHeadNext, Access, Step, Types
    <2> QED
      BY <1>3, <2>1, <2>2, <2>3 DEF Moves
  <1>5. CASE SameHead(t) \/ Decide(t) \/ Take(t) \/ Shrink(t)
    <2>1. UNCHANGED <<head, tail, live, next, clause, popped>>
      BY <1>5 DEF SameHead, Decide, Take, Shrink, listVars
    <2>2. Chain(p)'
      BY <1>0, <1>2, <2>1, ListStays
    <2>3. pc'[t] # "delete"
      BY <1>0, <1>5 DEF SameHead, Decide, Take, Shrink, Access, Step, Types
    <2> QED
      BY <1>3, <2>1, <2>2, <2>3 DEF Moves
  <1>6. CASE Help(t)
    <2>1. pc[t] = "help" /\ pc'[t] # "delete" /\ UNCHANGED <<head, live, next, clause, popped>>
      BY <1>0, <1>6 DEF Help, Step, Types
    <2>2. tail' = tail \/ (next[tail] # Null /\ tail' = next[tail])
      BY <1>0, <1>6, <2>1 DEF Help, MoveTail, PopperInv
    <2>3. Chain(p)'
      BY <1>0, <1>2, <2>1, <2>2, ListStays
    <2> QED
      BY <1>3, <2>1, <2>3 DEF Moves
  <1>7. CASE Delete(t)
    <2>1. pc[t] = "delete" /\ pc'[t] # "delete" /\ UNCHANGED <<head, tail, next, clause, popped>>
          /\ live' = live \ {my[t].head}
      BY <1>0, <1>7 DEF Delete, Access, Step, Types
    <2>2. Elems(p) \subseteq live'
      BY <1>2, <2>1 DEF Apart
    <2>3. Chain(p)'
      BY <1>0, <2>1, <2>2, ListStays
    <2> QED
      BY <1>3, <2>1, <2>3 DEF Moves
  <1>8. CASE Pop(t)
    <2>1. pc[t] = "pop" /\ UNCHANGED <<tail, live, next, clause, my>>
      BY <1>8 DEF Pop, Step
    <2>2. /\ my[t].head = head /\ my[t].next = next[head] /\ next[head] # Null
          /\ tail # head /\ out[t] = clause[next[head]]
      BY <1>0, <2>1 DEF PopperInv
    <2>3. head' = next[head] /\ popped' = Append(popped, clause[next[head]])
      BY <1>8, <2>2 DEF Pop
    <2>4. p \in Seq(live) /\ Len(p) > 1 /\ head = p[1] /\ next[head] = p[2]
      <3>1. p \in Seq(live) /\ p # <<>> /\ head = p[1]
        BY DEF Chain
      <3>2. Len(p) \in Nat /\ Len(p) > 0
        BY <3>1
      <3>3. Len(p) # 1
        BY <2>2, <3>1 DEF Chain
      <3>4. Len(p) > 1
        <4>1. \A m \in Nat : m > 0 /\ m # 1 => m > 1
          OBVIOUS
        <4> QED
          BY <3>2, <3>3, <4>1
      <3>5. 1 \in 1..(Len(p) - 1)
        BY <3>2, <3>4
      <3> QED
        BY <3>1, <3>4, <3>5 DEF Chain
    <2>5. Chain(Tail(p))' /\ p[1] \notin Elems(Tail(p))
      BY <1>0, <2>1, <2>2, <2>3, <2>4, ListShrinks
    <2>6. Elems(Tail(p)) \subseteq Elems(p) /\ p[1] \in Elems(p)
      BY <2>4, ElemsTail
    <2>7. Apart(Tail(p))'
      <3>1. \A u \in Poppers : pc'[u] = "delete" => u = t
        BY PopperOneOfEach
      <3>2. \A u \in Adders : pc'[u] \in Preparing => my'[u].node \notin Elems(p)
        BY <1>0, <1>1, Roles DEF Alone, Apart
      <3> QED
        BY <2>1, <2>2, <2>4, <2>5, <2>6, <3>1, <3>2 DEF Apart
    <2> QED
      BY <2>1, <2>3, <2>4, <2>5, <2>7 DEF Moves
  <1> QED
    BY <1>4, <1>5, <1>6, <1>7, <1>8 DEF PopperNext

(* A popper moves tail only onto the node of an adder that is about to.     *)
LEMMA PopperAdderInv ==
  ASSUME Sound, NEW t \in Poppers, PopperNext(t)
  PROVE  AdderInv'
  <1>0. Types /\ t \in Threads /\ t \notin Adders /\ PopperInv /\ AdderInv
    BY Roles DEF Sound
  <1>1. \A u \in Adders : pc'[u] = pc[u] /\ my'[u] = my[u]
    BY <1>0, PopperAlone, Roles DEF Alone
  <1>2. next' = next /\ clause' = clause
    BY DEF PopperNext, Get, ReadHead, ReadTailOfPop, ReadHeadNext, SameHead, Decide, Help, Take,
           Pop, Delete, Shrink, listVars
  <1>3. CASE Help(t)
    <2>1. pc[t] = "help" /\ live' = live
      BY <1>3 DEF Help, Step
    <2>2. my[t].tail = head /\ my[t].next = next[head] /\ next[head] # Null
      BY <1>0, <2>1 DEF PopperInv
    <2>3. CASE tail = head
      <3>1. tail' = next[tail] /\ next[tail] # Null
        BY <1>3, <2>2, <2>3 DEF Help, MoveTail
      <3>2. PICK u \in Adders : pc[u] \in Linked
        BY <1>0, <3>1 DEF AdderInv
      <3>3. \A w \in Adders : w # u => pc[w] = "idle"
        BY <3>2 DEF Sound, OneOfEach, Linked
      <3>4. next[tail] = my[u].node /\ next[my[u].node] = Null
        BY <1>0, <3>1, <3>2 DEF AdderInv
      <3> QED
        BY <1>0, <1>1, <1>2, <2>1, <3>1, <3>2, <3>3, <3>4 DEF AdderInv, Linked, Preparing
    <2>4. CASE tail # head
      <3>1. tail' = tail
        BY <1>3, <2>2, <2>4 DEF Help, MoveTail
      <3> QED
        BY <1>0, <1>1, <1>2, <2>1, <3>1 DEF AdderInv
    <2> QED
      BY <2>3, <2>4
  <1>4. CASE Delete(t)
    <2>1. pc[t] = "delete" /\ tail' = tail /\ live' = live \ {my[t].head}
      BY <1>4 DEF Delete, Access, Step
    <2>2. \A u \in Adders : pc[u] \in Preparing => my[u].node # my[t].head
      BY <2>1 DEF Sound, ListInv, Apart
    <2> QED
      BY <1>0, <1>1, <1>2, <2>1, <2>2 DEF AdderInv
  <1>5. CASE ~Help(t) /\ ~Delete(t)
    <2>1. tail' = tail /\ live' = live
      BY <1>5 DEF PopperNext, Get, ReadHead, ReadTailOfPop, ReadHeadNext, SameHead, Decide, Take,
                  Pop, Shrink, listVars
    <2> QED
      BY <1>0, <1>1, <1>2, <2>1 DEF AdderInv
  <1> QED
    BY <1>3, <1>4, <1>5

LEMMA PopperPopperInv ==
  ASSUME Sound, NEW t \in Poppers, PopperNext(t), ~misused'
  PROVE  PopperInv'
  <1>0. Types /\ t \in Threads /\ PopperInv
    BY Roles DEF Sound
  <1>1. \A u \in Poppers : u # t => pc'[u] = "idle"
    BY PopperOneOfEach
  <1>2. head \in live /\ (next[head] # Null => next[head] \in live)
        /\ (tail # head => next[head] # Null)
    BY <1>0, ListFacts DEF Sound
  <1>3. ASSUME
        /\ pc'[t] \in {"htail", "hnext", "hsame", "decide", "help", "take", "pop"} =>
               my'[t].head = head'
        /\ pc'[t] \in {"hnext", "hsame", "decide"} /\ my'[t].tail # head' => tail' # head'
        /\ pc'[t] \in {"hsame", "decide"} =>
               /\ my'[t].next \in {Null, next'[head']}
               /\ my'[t].tail # head' => my'[t].next # Null
        /\ pc'[t] = "help" =>
               my'[t].tail = head' /\ my'[t].next # Null /\ my'[t].next = next'[head']
        /\ pc'[t] \in {"take", "pop"} =>
               tail' # head' /\ my'[t].next # Null /\ my'[t].next = next'[head']
        /\ pc'[t] = "pop" => out'[t] = clause'[my'[t].next]
        /\ pc'[t] = "delete" => my'[t].head \in live'
        PROVE  PopperInv'
    BY <1>1, <1>3 DEF PopperInv
  <1>4. CASE Get(t) \/ Help(t) \/ Delete(t) \/ Shrink(t)
    <2>1. pc'[t] \in {"head", "shrink", "idle", "crashed"}
      BY <1>0, <1>4, Roles DEF Get, Help, Delete, Shrink, Access, Step, Types
    <2> QED
      BY <1>3, <2>1
  <1>5. CASE ReadHead(t)
    <2>1. pc'[t] = "htail" /\ head' = head /\ my'[t].head = head
      BY <1>0, <1>5 DEF ReadHead, Step, Types, listVars
    <2> QED
      BY <1>3, <2>1
  <1>6. CASE ReadTailOfPop(t)
    <2>1. pc[t] = "htail" /\ pc'[t] = "hnext" /\ head' = head /\ tail' = tail
      BY <1>0, <1>6 DEF ReadTailOfPop, Step, Types, listVars
    <2>2. my'[t].head = my[t].head /\ my'[t].tail = tail
      BY <1>0, <1>6 DEF ReadTailOfPop, Types
    <2>3. my[t].head = head
      BY <1>0, <2>1 DEF PopperInv
    <2> QED
      BY <1>3, <2>1, <2>2, <2>3
  <1>7. CASE ReadHeadNext(t)
    <2>1. pc[t] = "hnext" /\ UNCHANGED <<head, tail, next>>
      BY <1>7 DEF ReadHeadNext, Access, Step, listVars
    <2>2. my[t].head = head /\ (my[t].tail # head => tail # head)
      BY <1>0, <2>1 DEF PopperInv
    <2>3. pc'[t] = "hsame"
      BY <1>0, <1>2, <1>7, <2>2 DEF ReadHeadNext, Access, Step, Types
    <2>4. my'[t].head = my[t].head /\ my'[t].tail = my[t].tail /\ my'[t].next = next[head]
      BY <1>0, <1>7, <2>2 DEF ReadHeadNext, Types
    <2> QED
      BY <1>2, <1>3, <2>1, <2>2, <2>3, <2>4
  <1>8. CASE SameHead(t)
    <2>1. pc[t] = "hsame" /\ UNCHANGED <<head, tail, next, my>>
      BY <1>8 DEF SameHead, Step, listVars
    <2>2. my[t].head = head
      BY <1>0, <2>1 DEF PopperInv
    <2>3. pc'[t] = "decide"
      BY <1>0, <1>8, <2>2 DEF SameHead, Step, Types
    <2> QED
      BY <1>0, <1>3, <2>1, <2>2, <2>3 DEF PopperInv
  <1>9. CASE Decide(t)
    <2>1. pc[t] = "decide" /\ UNCHANGED <<head, tail, next, my>>
      BY <1>9 DEF Decide, Step, listVars
    <2>2. /\ my[t].head = head /\ my[t].next \in {Null, next[head]}
          /\ (my[t].tail # head => tail # head /\ my[t].next # Null)
      BY <1>0, <2>1 DEF PopperInv
    <2>3. pc'[t] = IF my[t].tail # head THEN "take"
                   ELSE IF my[t].next = Null THEN "idle" ELSE "help"
      BY <1>0, <1>9, <2>2 DEF Decide, Step, Types
    <2> QED
      BY <1>3, <2>1, <2>2, <2>3
  <1>10. CASE Take(t)
    <2>1. pc[t] = "take" /\ UNCHANGED <<head, tail, next, clause, my>>
      BY <1>10 DEF Take, Access, Step, listVars
    <2>2. my[t].head = head /\ tail # head /\ my[t].next # Null /\ my[t].next = next[head]
      BY <1>0, <2>1 DEF PopperInv
    <2>3. pc'[t] = "pop" /\ out'[t] = clause[my[t].next]
      BY <1>0, <1>2, <1>10, <2>2 DEF Take, Access, Step, Types
    <2> QED
      BY <1>3, <2>1, <2>2, <2>3
  <1>11. CASE Pop(t)
    <2>1. pc[t] = "pop" /\ UNCHANGED <<my, live>>
      BY <1>11 DEF Pop, Step
    <2>2. my[t].head = head
      BY <1>0, <2>1 DEF PopperInv
    <2>3. pc'[t] = "delete"
      BY <1>0, <1>11, <2>2 DEF Pop, Step, Types
    <2> QED
      BY <1>2, <1>3, <2>1, <2>2, <2>3
  <1> QED
    BY <1>4, <1>5, <1>6, <1>7, <1>8, <1>9, <1>10, <1>11 DEF PopperNext

(* A step of getClause. *)
LEMMA PopperSound ==
  ASSUME Sound, NEW t \in Poppers, PopperNext(t), ~misused'
  PROVE  Sound'
  <1>1. PICK p : Chain(p) /\ Apart(p)
    BY DEF Sound, ListInv
  <1>2. PICK q : Chain(q)' /\ Apart(q)'
    BY <1>1, PopperList
  <1>3. ListInv'
    BY <1>2 DEF ListInv, Chain
  <1> QED
    BY <1>3, PopperTypes, PopperNoCrash, PopperOneOfEach, PopperAdderInv, PopperPopperInv DEF Sound

----------------------------------------------------------------------------
(* Induction over the naturals, as the existence of a least one.           *)

Less == {p \in Nat \X Nat : p[1] < p[2]}

LEMMA NatMin ==
  ASSUME NEW T \in SUBSET Nat, T # {}
  PROVE  \E x \in T : \A y \in T : x <= y
  <1>1. OpToRel(<, Nat) = Less
    BY DEF OpToRel, Less
  <1>2. IsWellFoundedOn(Less, Nat)
    BY <1>1, NatLessThanWellFounded
  <1>3. \E x \in T : \A y \in T : ~(<<y, x>> \in Less)
    BY <1>2, WFMin, Zenon
  <1>4. \A x, y \in Nat : ~(<<y, x>> \in Less) => x <= y
    BY DEF Less
  <1> QED
    BY <1>3, <1>4

(* A set of naturals with 0, and with the successor of each of its members  *)
(* below N, reaches N.                                                      *)
LEMMA NatUpTo ==
  ASSUME NEW N \in Nat, NEW S, 0 \in S, \A k \in 0..(N - 1) : k \in S => k + 1 \in S
  PROVE  0..N \subseteq S
  <1> DEFINE T == {k \in 0..N : k \notin S}
  <1>1. SUFFICES ASSUME T # {}
                 PROVE  FALSE
    OBVIOUS
  <1>2. T \in SUBSET Nat
    OBVIOUS
  <1>3. PICK x \in T : \A y \in T : x <= y
    BY <1>1, <1>2, NatMin
  <1>4. x \in 0..N /\ x # 0 /\ x \notin S
    OBVIOUS
  <1>5. x - 1 \in 0..(N - 1) /\ x - 1 \in 0..N /\ (x - 1) + 1 = x /\ ~(x <= x - 1)
    BY <1>4
  <1>6. x - 1 \in S
    BY <1>3, <1>5
  <1> QED
    BY <1>4, <1>5, <1>6

----------------------------------------------------------------------------
(* What the list holds.                                                    *)

(* One more node, where b holds the clauses of up to k - 1 of them.         *)
Layer(nx, cl, k, b) ==
    [n \in Nodes \cup {Null} |->
        IF k = 0 \/ n = Null \/ nx[n] = Null THEN <<>> ELSE <<cl[nx[n]]>> \o b[nx[n]]]

LEMMA LayerZero ==
  ASSUME NEW nx, NEW cl, NEW b, NEW c
  PROVE  Layer(nx, cl, 0, b) = Layer(nx, cl, 0, c)
  BY Zenon DEF Layer

(* g solves the equation of Behind up to N. *)
Layered(g, nx, cl, N) == g = [k \in 0..N |-> Layer(nx, cl, k, g[k - 1])]

(* There is a solution, up to any bound. *)
LEMMA LayersExist ==
  ASSUME NEW nx, NEW cl, NEW N \in Nat
  PROVE  \E g : Layered(g, nx, cl, N)
  <1> DEFINE S == {K \in Nat : \E g : g = [k \in 0..K |-> Layer(nx, cl, k, g[k - 1])]}
  <1>1. 0 \in S
    <2> DEFINE g == [k \in 0..0 |-> Layer(nx, cl, 0, 0)]
    <2>1. Layer(nx, cl, 0, 0) = Layer(nx, cl, 0, g[0 - 1])
      BY LayerZero
    <2>2. g = [k \in 0..0 |-> Layer(nx, cl, k, g[k - 1])]
      <3>1. \A k \in 0..0 : k = 0
        OBVIOUS
      <3> QED
        BY <2>1, <3>1
    <2> QED
      BY <2>2
  <1>2. ASSUME NEW K \in 0..(N - 1), K \in S
        PROVE  K + 1 \in S
    <2>1. PICK g : g = [k \in 0..K |-> Layer(nx, cl, k, g[k - 1])]
      BY <1>2
    <2> DEFINE h == [k \in 0..(K + 1) |-> IF k = K + 1 THEN Layer(nx, cl, K + 1, g[K]) ELSE g[k]]
    <2>2. ASSUME NEW k \in 0..(K + 1)
          PROVE  h[k] = Layer(nx, cl, k, h[k - 1])
      <3>1. CASE k = K + 1
        <4>1. k - 1 = K /\ K \in 0..(K + 1) /\ K # K + 1
          BY <3>1
        <4>2. h[k - 1] = g[K]
          BY <4>1
        <4> QED
          BY <3>1, <4>2
      <3>2. CASE k = 0
        <4>1. 0 # K + 1 /\ 0 \in 0..K
          OBVIOUS
        <4>2. h[0] = g[0]
          BY <3>2, <4>1
        <4>3. g[0] = Layer(nx, cl, 0, g[0 - 1])
          BY <2>1, <4>1
        <4>4. Layer(nx, cl, 0, g[0 - 1]) = Layer(nx, cl, 0, h[0 - 1])
          BY LayerZero
        <4> QED
          BY <3>2, <4>2, <4>3, <4>4
      <3>3. CASE k # 0 /\ k # K + 1
        <4>1. k \in 0..K /\ k - 1 \in 0..(K + 1) /\ k - 1 # K + 1
          BY <3>3
        <4>2. h[k] = g[k] /\ h[k - 1] = g[k - 1]
          BY <3>3, <4>1
        <4>3. g[k] = Layer(nx, cl, k, g[k - 1])
          BY <2>1, <4>1
        <4> QED
          BY <4>2, <4>3
      <3> QED
        BY <3>1, <3>2, <3>3
    <2>3. h = [k \in 0..(K + 1) |-> Layer(nx, cl, k, h[k - 1])]
      <3>1. h = [k \in 0..(K + 1) |-> h[k]]
        OBVIOUS
      <3> HIDE DEF h
      <3> QED
        BY <2>2, <3>1
    <2>4. K + 1 \in Nat
      OBVIOUS
    <2> HIDE DEF h
    <2> QED
      BY <2>3, <2>4
  <1>3. N \in 0..N
    OBVIOUS
  <1> HIDE DEF S
  <1>4. N \in S
    BY <1>1, <1>2, <1>3, NatUpTo
  <1> QED
    BY <1>4 DEF S, Layered

LEMMA BehindUnfold ==
  ASSUME NEW nx, NEW cl
  PROVE  \A k \in 0..Cardinality(Nodes) :
             Behind(nx, cl)[k] = Layer(nx, cl, k, Behind(nx, cl)[k - 1])
  <1> DEFINE f == Behind(nx, cl)
  <1>1. PICK N \in Nat : N = Cardinality(Nodes)
    BY BufferAssumption, FS_CardinalityType
  <1>2. \E g : Layered(g, nx, cl, N)
    BY LayersExist
  <1>3. \E g : g = [k \in 0..Cardinality(Nodes) |->
                      [n \in Nodes \cup {Null} |->
                          IF k = 0 \/ n = Null \/ nx[n] = Null THEN <<>>
                          ELSE <<cl[nx[n]]>> \o g[k - 1][nx[n]]]]
    BY <1>1, <1>2, Zenon DEF Layered, Layer
  <1>4. f = [k \in 0..Cardinality(Nodes) |->
                [n \in Nodes \cup {Null} |->
                    IF k = 0 \/ n = Null \/ nx[n] = Null THEN <<>>
                    ELSE <<cl[nx[n]]>> \o f[k - 1][nx[n]]]]
    BY <1>3, Zenon DEF Behind
  <1>5. f = [k \in 0..Cardinality(Nodes) |-> Layer(nx, cl, k, f[k - 1])]
    BY <1>4, Zenon DEF Layer
  <1> HIDE DEF f
  <1>6. \A k \in 0..Cardinality(Nodes) : f[k] = Layer(nx, cl, k, f[k - 1])
    BY <1>5
  <1> QED
    BY <1>6 DEF f

(* The clauses of the path p behind its place j. *)
Rest(cl, p, j) == [i \in 1..(Len(p) - j) |-> cl[p[i + j]]]

LEMMA RestFacts ==
  ASSUME NEW cl, NEW p \in Seq(Nodes), NEW j \in 1..Len(p), NEW S,
         \A n \in Nodes : cl[n] \in S
  PROVE  /\ Rest(cl, p, j) \in Seq(S) /\ Len(Rest(cl, p, j)) = Len(p) - j
         /\ \A i \in 1..(Len(p) - j) : Rest(cl, p, j)[i] = cl[p[i + j]]
  <1>1. Len(p) - j \in Nat /\ Len(p) \in Nat
    OBVIOUS
  <1>2. \A i \in 1..(Len(p) - j) : i + j \in 1..Len(p)
    OBVIOUS
  <1>3. \A i \in 1..(Len(p) - j) : cl[p[i + j]] \in S
    BY <1>2
  <1> QED
    BY <1>1, <1>3 DEF Rest

LEMMA RestUnfold ==
  ASSUME NEW cl, NEW p \in Seq(Nodes), NEW j \in 1..(Len(p) - 1), NEW S,
         \A n \in Nodes : cl[n] \in S
  PROVE  Rest(cl, p, j) = <<cl[p[j + 1]]>> \o Rest(cl, p, j + 1)
  <1> DEFINE a == Rest(cl, p, j)
             b == Rest(cl, p, j + 1)
             c == <<cl[p[j + 1]]>>
  <1>1. Len(p) \in Nat /\ j \in 1..Len(p) /\ j + 1 \in 1..Len(p)
    OBVIOUS
  <1>2. c \in Seq(S) /\ Len(c) = 1 /\ c[1] = cl[p[j + 1]]
    BY <1>1
  <1>3. a \in Seq(S) /\ Len(a) = Len(p) - j /\ \A i \in 1..(Len(p) - j) : a[i] = cl[p[i + j]]
    BY <1>1, RestFacts, ZenonT(60)
  <1>4. /\ b \in Seq(S) /\ Len(b) = Len(p) - (j + 1)
        /\ \A i \in 1..(Len(p) - (j + 1)) : b[i] = cl[p[i + (j + 1)]]
    BY <1>1, RestFacts, ZenonT(60)
  <1> HIDE DEF a, b, c
  <1>5. /\ c \o b \in Seq(S) /\ Len(c \o b) = Len(p) - j
        /\ \A i \in 1..(Len(p) - j) : (c \o b)[i] = IF i <= 1 THEN c[i] ELSE b[i - 1]
    <2>1. 1 + (Len(p) - (j + 1)) = Len(p) - j
      BY <1>1
    <2>2. /\ c \o b \in Seq(S) /\ Len(c \o b) = Len(c) + Len(b)
          /\ \A i \in 1..(Len(c) + Len(b)) :
                (c \o b)[i] = IF i <= Len(c) THEN c[i] ELSE b[i - Len(c)]
      BY <1>2, <1>4, ConcatProperties
    <2>3. Len(c) = 1 /\ Len(c) + Len(b) = Len(p) - j
      BY <1>2, <1>4, <2>1
    <2> QED
      BY <2>2, <2>3
  <1>6. \A i \in 1..(Len(p) - j) : a[i] = (c \o b)[i]
    <2>1. SUFFICES ASSUME NEW i \in 1..(Len(p) - j)
                   PROVE  a[i] = (c \o b)[i]
      OBVIOUS
    <2>2. CASE i = 1
      <3>1. 1 \in 1..(Len(p) - j) /\ 1 + j = j + 1
        BY <1>1
      <3>2. a[1] = cl[p[1 + j]]
        BY <1>3, <3>1
      <3>3. (c \o b)[1] = c[1]
        BY <1>5, <3>1
      <3> QED
        BY <1>2, <2>2, <3>1, <3>2, <3>3
    <2>3. CASE i # 1
      <3>1. i - 1 \in 1..(Len(p) - (j + 1)) /\ ~(i <= 1) /\ (i - 1) + (j + 1) = i + j
        BY <1>1, <2>3
      <3>2. b[i - 1] = cl[p[(i - 1) + (j + 1)]]
        BY <1>4, <3>1
      <3> QED
        BY <1>3, <1>5, <3>1, <3>2
    <2> QED
      BY <2>2, <2>3
  <1>7. a = c \o b
    BY <1>3, <1>5, <1>6, SeqEqual
  <1> QED
    BY <1>7 DEF a, b, c

(* A path without repetition is not longer than there are nodes. *)
LEMMA PathBound ==
  ASSUME NEW p \in Seq(Nodes), Distinct(p)
  PROVE  Len(p) <= Cardinality(Nodes)
  <1>1. p \in [1..Len(p) -> Nodes] /\ Len(p) \in Nat
    OBVIOUS
  <1>2. p \in Injection(1..Len(p), Nodes)
    BY <1>1 DEF Distinct, Injection, IsInjective
  <1>3. Cardinality(1..Len(p)) <= Cardinality(Nodes)
    BY <1>2, BufferAssumption, FS_Injection
  <1>4. Cardinality(1..Len(p)) = Len(p)
    <2>1. Cardinality(1..Len(p)) = IF 1 > Len(p) THEN 0 ELSE Len(p) - 1 + 1
      BY <1>1, FS_Interval
    <2>2. \A n \in Nat : n = IF 1 > n THEN 0 ELSE n - 1 + 1
      OBVIOUS
    <2> QED
      BY <1>1, <2>1, <2>2
  <1> QED
    BY <1>3, <1>4

(* Behind reads the clauses off a path, one node a layer. *)
LEMMA BehindPath ==
  ASSUME NEW nx, NEW cl, NEW p \in Seq(Nodes), NEW S, \A n \in Nodes : cl[n] \in S,
         p # <<>>, Distinct(p),
         \A i \in 1..(Len(p) - 1) : nx[p[i]] = p[i + 1],
         nx[p[Len(p)]] = Null
  PROVE  Behind(nx, cl)[Cardinality(Nodes)][p[1]] = Rest(cl, p, 1)
  <1> DEFINE N == Cardinality(Nodes)
             f == Behind(nx, cl)
             K == {k \in 0..N : \A j \in 1..Len(p) : Len(p) - j <= k => f[k][p[j]] = Rest(cl, p, j)}
  <1>1. N \in Nat /\ Len(p) \in Nat /\ Len(p) > 0 /\ Len(p) <= N
    BY PathBound, BufferAssumption, FS_CardinalityType
  <1>2. \A k \in 0..N : f[k] = Layer(nx, cl, k, f[k - 1])
    BY BehindUnfold
  <1>3. \A j \in 1..Len(p) : p[j] \in Nodes /\ p[j] # Null
    BY BufferAssumption
  <1> HIDE DEF f, N
  <1>4. ASSUME NEW k \in 0..N, NEW j \in 1..Len(p), j = Len(p) \/ k = 0
        PROVE  f[k][p[j]] = <<>>
    <2>1. Layer(nx, cl, k, f[k - 1])[p[j]] = <<>>
      BY <1>3, <1>4 DEF Layer
    <2> QED
      BY <1>2, <2>1
  <1>5. Rest(cl, p, Len(p)) = <<>>
    <2>1. Len(p) \in 1..Len(p) /\ Len(p) - Len(p) = 0
      BY <1>1
    <2>2. Rest(cl, p, Len(p)) \in Seq(S) /\ Len(Rest(cl, p, Len(p))) = 0
      BY <2>1, RestFacts
    <2> QED
      BY <2>2, EmptySeq
  <1>6. 0 \in K
    <2>1. \A j \in 1..Len(p) : Len(p) - j <= 0 => j = Len(p)
      BY <1>1
    <2>2. 0 \in 0..N
      BY <1>1
    <2> QED
      BY <1>4, <1>5, <2>1, <2>2
  <1>7. ASSUME NEW k \in 0..(N - 1), k \in K
        PROVE  k + 1 \in K
    <2>1. k + 1 \in 0..N /\ (k + 1) - 1 = k /\ k + 1 # 0 /\ k \in 0..N
      BY <1>1
    <2>2. SUFFICES ASSUME NEW j \in 1..Len(p), Len(p) - j <= k + 1
                   PROVE  f[k + 1][p[j]] = Rest(cl, p, j)
      BY <2>1
    <2>3. CASE j = Len(p)
      BY <1>4, <1>5, <2>1, <2>3
    <2>4. CASE j # Len(p)
      <3>1. j \in 1..(Len(p) - 1) /\ j + 1 \in 1..Len(p) /\ Len(p) - (j + 1) <= k
        BY <1>1, <2>1, <2>2, <2>4
      <3>2. nx[p[j]] = p[j + 1] /\ p[j + 1] # Null /\ p[j] # Null
        BY <1>3, <3>1
      <3>3. Layer(nx, cl, k + 1, f[k])[p[j]] = <<cl[p[j + 1]]>> \o f[k][p[j + 1]]
        BY <1>3, <2>1, <3>2 DEF Layer
      <3>4. f[k + 1] = Layer(nx, cl, k + 1, f[k])
        BY <1>2, <2>1
      <3>5. f[k][p[j + 1]] = Rest(cl, p, j + 1)
        BY <1>7, <3>1
      <3>6. Rest(cl, p, j) = <<cl[p[j + 1]]>> \o Rest(cl, p, j + 1)
        BY <3>1, RestUnfold
      <3> QED
        BY <3>3, <3>4, <3>5, <3>6
    <2> QED
      BY <2>3, <2>4
  <1> HIDE DEF K
  <1>8. N \in K
    <2>1. 0..N \subseteq K
      BY <1>1, <1>6, <1>7, NatUpTo
    <2> QED
      BY <1>1, <2>1
  <1>9. f[N][p[1]] = Rest(cl, p, 1)
    <2>1. 1 \in 1..Len(p) /\ Len(p) - 1 <= N
      BY <1>1
    <2> QED
      BY <1>8, <2>1 DEF K
  <1> QED
    BY <1>9 DEF f, N

LEMMA ContentsAre ==
  ASSUME NEW p, Types, Chain(p)
  PROVE  Contents = Rest(clause, p, 1)
  <1>1. p \in Seq(Nodes) /\ p # <<>> /\ head = p[1]
    BY DEF Types, Chain
  <1>2. \A n \in Nodes : clause[n] \in Clauses \cup {Null}
    BY DEF Types
  <1>3. Behind(next, clause)[Cardinality(Nodes)][p[1]] = Rest(clause, p, 1)
    BY <1>1, <1>2, BehindPath DEF Chain
  <1> QED
    BY <1>1, <1>3 DEF Contents

LEMMA ContentsWillBe ==
  ASSUME NEW p, Types', Chain(p)'
  PROVE  Contents' = Rest(clause', p, 1)
  <1>1. p \in Seq(Nodes) /\ p # <<>> /\ head' = p[1]
    BY DEF Types, Chain
  <1>2. \A n \in Nodes : clause'[n] \in Clauses \cup {Null}
    BY DEF Types
  <1>3. Behind(next', clause')[Cardinality(Nodes)][p[1]] = Rest(clause', p, 1)
    BY <1>1, <1>2, BehindPath DEF Chain
  <1> QED
    BY <1>1, <1>3 DEF Contents

(* What becomes of the list becomes of its clauses. *)
LEMMA MovesFifo ==
  ASSUME Types, Types', NEW p, Chain(p), NEW q, Chain(q)', Moves(p, q)
  PROVE  FifoStep
  <1> DEFINE S == Clauses \cup {Null}
             a == Rest(clause, p, 1)
  <1>1. Contents = a /\ Contents' = Rest(clause', q, 1)
    BY ContentsAre, ContentsWillBe
  <1>2. p \in Seq(Nodes) /\ Len(p) \in Nat /\ Len(p) > 0 /\ 1 \in 1..Len(p)
    BY DEF Types, Chain
  <1>3. \A n \in Nodes : clause[n] \in S /\ clause'[n] \in S
    BY DEF Types
  <1>4. \A r \in Seq(Nodes) : 1 \in 1..Len(r) =>
            /\ Rest(clause, r, 1) \in Seq(S) /\ Len(Rest(clause, r, 1)) = Len(r) - 1
            /\ \A i \in 1..(Len(r) - 1) : Rest(clause, r, 1)[i] = clause[r[i + 1]]
    BY <1>3, RestFacts
  <1>a. /\ a \in Seq(S) /\ Len(a) = Len(p) - 1
        /\ \A i \in 1..(Len(p) - 1) : a[i] = clause[p[i + 1]]
    BY <1>2, <1>4
  <1> HIDE DEF a, S
  <1>5. CASE /\ q = p /\ popped' = popped
             /\ \A n \in Elems(p) : clause'[n] = clause[n]
    <2>1. \A i \in 1..(Len(p) - 1) : i + 1 \in 1..Len(p)
      BY <1>2
    <2>2. \A i \in 1..(Len(p) - 1) : clause'[p[i + 1]] = clause[p[i + 1]]
      BY <1>5, <2>1 DEF Elems
    <2>3. Rest(clause', p, 1) = a
      BY <2>2 DEF Rest, a
    <2> QED
      BY <1>1, <1>5, <2>3 DEF FifoStep
  <1>6. CASE /\ popped' = popped /\ clause' = clause
             /\ \E n \in Nodes : clause[n] \in Clauses /\ q = Append(p, n)
    <2>1. PICK n \in Nodes : clause[n] \in Clauses /\ q = Append(p, n)
      BY <1>6
    <2> DEFINE b == Rest(clause, q, 1)
               c == Append(a, clause[n])
    <2>2. q \in Seq(Nodes) /\ Len(q) = Len(p) + 1 /\ 1 \in 1..Len(q) /\ (Len(p) + 1) - 1 = Len(p)
      BY <1>2, <2>1
    <2>3. \A i \in 1..Len(p) : q[i] = p[i]
      BY <1>2, <2>1
    <2>4. q[Len(p) + 1] = n
      BY <1>2, <2>1
    <2>5. b \in Seq(S) /\ Len(b) = Len(p) /\ \A i \in 1..Len(p) : b[i] = clause[q[i + 1]]
      <3>1. /\ b \in Seq(S) /\ Len(b) = Len(q) - 1
            /\ \A i \in 1..(Len(q) - 1) : b[i] = clause[q[i + 1]]
        BY <1>4, <2>2
      <3> HIDE DEF b
      <3> QED
        BY <2>2, <3>1
    <2>6. /\ c \in Seq(S) /\ Len(c) = Len(a) + 1
          /\ \A i \in 1..Len(a) : c[i] = a[i]
          /\ c[Len(a) + 1] = clause[n]
      BY <1>3, <1>a, AppendProperties
    <2>7. Len(a) + 1 = Len(p)
      BY <1>2, <1>a
    <2> HIDE DEF b, c
    <2>8. \A i \in 1..Len(p) : b[i] = c[i]
      <3>1. SUFFICES ASSUME NEW i \in 1..Len(p)
                     PROVE  b[i] = c[i]
        OBVIOUS
      <3>2. CASE i = Len(p)
        BY <2>4, <2>5, <2>6, <2>7, <3>2
      <3>3. CASE i # Len(p)
        <4>1. i \in 1..(Len(p) - 1) /\ i + 1 \in 1..Len(p)
          BY <1>2, <3>3
        <4> QED
          BY <1>a, <2>3, <2>5, <2>6, <4>1
      <3> QED
        BY <3>2, <3>3
    <2>9. b = c
      BY <2>5, <2>6, <2>7, <2>8, SeqEqual
    <2> QED
      BY <1>1, <1>6, <2>1, <2>9 DEF FifoStep, b, c
  <1>7. CASE /\ Len(p) > 1 /\ q = Tail(p) /\ clause' = clause
             /\ popped' = Append(popped, clause[p[2]])
    <2> DEFINE b == Rest(clause, q, 1)
               c == Tail(a)
    <2>1. q \in Seq(Nodes) /\ Len(q) = Len(p) - 1 /\ \A i \in 1..(Len(p) - 1) : q[i] = p[i + 1]
      BY <1>2, <1>7, TailProp
    <2>2. 1 \in 1..Len(q) /\ (Len(p) - 1) - 1 = Len(p) - 2 /\ 1 \in 1..(Len(p) - 1)
      BY <1>2, <1>7, <2>1
    <2>3. b \in Seq(S) /\ Len(b) = Len(p) - 2 /\ \A i \in 1..(Len(p) - 2) : b[i] = clause[q[i + 1]]
      <3>1. /\ b \in Seq(S) /\ Len(b) = Len(q) - 1
            /\ \A i \in 1..(Len(q) - 1) : b[i] = clause[q[i + 1]]
        BY <1>4, <2>1, <2>2
      <3> HIDE DEF b
      <3> QED
        BY <2>1, <2>2, <3>1
    <2>4. a # <<>> /\ Head(a) = clause[p[2]]
      <3>1. Len(a) > 0
        BY <1>2, <1>a, <1>7
      <3>2. a[1] = clause[p[1 + 1]]
        BY <1>a, <2>2
      <3> QED
        BY <1>a, <3>1, <3>2
    <2>5. c \in Seq(S) /\ Len(c) = Len(a) - 1 /\ \A i \in 1..Len(c) : c[i] = a[i + 1]
      BY <1>a, <2>4, HeadTailProperties
    <2>6. Len(c) = Len(p) - 2
      BY <1>a, <2>2, <2>5
    <2> HIDE DEF b, c
    <2>7. \A i \in 1..(Len(p) - 2) : b[i] = c[i]
      <3>1. SUFFICES ASSUME NEW i \in 1..(Len(p) - 2)
                     PROVE  b[i] = c[i]
        OBVIOUS
      <3>2. i + 1 \in 1..(Len(p) - 1)
        BY <1>2
      <3> QED
        BY <1>a, <2>1, <2>3, <2>5, <2>6, <3>2
    <2>8. b = c
      BY <2>3, <2>5, <2>6, <2>7, SeqEqual
    <2> QED
      BY <1>1, <1>7, <2>4, <2>8 DEF FifoStep, b, c
  <1> QED
    BY <1>5, <1>6, <1>7 DEF Moves

----------------------------------------------------------------------------
(* The buffer.                                                             *)

LEMMA BufferInit ==
  ASSUME Init
  PROVE  Sound
  <1>1. Types
    BY BufferAssumption DEF Init, Types, Pointers, NoPointers
  <1>2. NoCrash /\ OneOfEach /\ PopperInv
    BY Roles DEF Init, NoCrash, OneOfEach, PopperInv
  <1>3. AdderInv
    BY Roles, BufferAssumption DEF Init, AdderInv, Preparing, Linked
  <1>4. ListInv
    <2> DEFINE p == <<Dummy>>
    <2>1. p \in Seq(live) /\ Len(p) = 1 /\ p[1] = Dummy /\ p # <<>>
      BY DEF Init
    <2>2. Chain(p)
      <3>1. Distinct(p)
        BY <2>1 DEF Distinct
      <3> QED
        BY <2>1, <3>1, BufferAssumption DEF Init, Chain
    <2>3. Apart(p)
      BY Roles DEF Init, Apart, Preparing
    <2> QED
      BY <2>1, <2>2, <2>3 DEF ListInv
  <1> QED
    BY <1>1, <1>2, <1>3, <1>4 DEF Sound

(* Once misused, always misused. *)
LEMMA MisusedStays ==
  ASSUME [Next]_vars, misused
  PROVE  misused'
  <1>1. CASE \E t \in Adders : AdderNext(t)
    BY <1>1 DEF AdderNext, Add, ReadTail, ReadNext, SameTail, Link, Grow, Help, Swing
  <1>2. CASE \E t \in Poppers : PopperNext(t)
    BY <1>2 DEF PopperNext, Get, ReadHead, ReadTailOfPop, ReadHeadNext, SameHead, Decide, Help,
                Take, Pop, Delete, Shrink
  <1>3. CASE UNCHANGED vars
    BY <1>3 DEF vars
  <1> QED
    BY <1>1, <1>2, <1>3 DEF Next

LEMMA BufferStep ==
  ASSUME BufferInv, [Next]_vars
  PROVE  BufferInv'
  <1>1. SUFFICES ASSUME ~misused'
                 PROVE  Sound'
    BY DEF BufferInv
  <1>2. Sound
    BY <1>1, MisusedStays DEF BufferInv
  <1>3. CASE \E t \in Adders : AdderNext(t)
    BY <1>1, <1>2, <1>3, AdderSound
  <1>4. CASE \E t \in Poppers : PopperNext(t)
    BY <1>1, <1>2, <1>4, PopperSound
  <1>5. CASE UNCHANGED vars
    <2>1. Types' /\ NoCrash' /\ OneOfEach'
      BY <1>2, <1>5 DEF vars, Sound, Types, NoCrash, OneOfEach
    <2>2. ListInv'
      BY <1>2, <1>5 DEF vars, Sound, ListInv, Chain, Apart
    <2>3. AdderInv' /\ PopperInv'
      BY <1>2, <1>5 DEF vars, Sound, AdderInv, PopperInv
    <2> QED
      BY <2>1, <2>2, <2>3 DEF Sound
  <1> QED
    BY <1>3, <1>4, <1>5 DEF Next

(* The inductive invariant holds in every run. *)
THEOREM BufferInvariant == Spec => []BufferInv
  <1>1. Init => BufferInv
    BY BufferInit DEF BufferInv
  <1>2. BufferInv /\ [Next]_vars => BufferInv'
    BY BufferStep
  <1> QED
    BY <1>1, <1>2, PTL DEF Spec

(* No thread touches a deleted node before two calls of addClause, or two   *)
(* of getClause, have overlapped (ClauseBuffer.cpp:46-102).                 *)
THEOREM BufferSafe == Spec => []SafeForOneOfEach
  <1>1. BufferInv => SafeForOneOfEach
    BY DEF BufferInv, Sound, NoCrash, SafeForOneOfEach, Crashed
  <1> QED
    BY <1>1, BufferInvariant, PTL

(* As long as that has not happened, every step appends one clause to what  *)
(* the buffer holds, removes and returns the oldest one, or leaves both as  *)
(* they are (ClauseBuffer.cpp:46-102).                                      *)
THEOREM BufferLinearizes == Spec => LinearizesToFifo
  <1>1. ASSUME BufferInv, [Next]_vars
        PROVE  [misused' \/ FifoStep]_vars
    <2>1. SUFFICES ASSUME ~misused', ~UNCHANGED vars
                   PROVE  FifoStep
      OBVIOUS
    <2>2. Sound /\ Types
      BY <1>1, <2>1, MisusedStays DEF BufferInv, Sound
    <2>3. PICK p : Chain(p) /\ Apart(p)
      BY <2>2 DEF Sound, ListInv
    <2>4. CASE \E t \in Adders : AdderNext(t)
      <3>1. PICK q : Chain(q)' /\ Moves(p, q)
        BY <2>1, <2>2, <2>3, <2>4, AdderList
      <3>2. Types'
        BY <2>2, <2>4, AdderTypes
      <3> QED
        BY <2>2, <2>3, <3>1, <3>2, MovesFifo
    <2>5. CASE \E t \in Poppers : PopperNext(t)
      <3>1. PICK q : Chain(q)' /\ Moves(p, q)
        BY <2>1, <2>2, <2>3, <2>5, PopperList
      <3>2. Types'
        BY <2>2, <2>5, PopperTypes
      <3> QED
        BY <2>2, <2>3, <3>1, <3>2, MovesFifo
    <2> QED
      BY <1>1, <2>1, <2>4, <2>5 DEF Next
  <1> QED
    BY <1>1, BufferInvariant, PTL DEF Spec, LinearizesToFifo
=============================================================================
