----------------------------- MODULE ClauseBuffer -----------------------------
(***************************************************************************)
(* painless::ClauseBuffer, the lock-free queue through which solvers and   *)
(* sharers pass clauses: a linked list with a dummy node in front, whose   *)
(* popped nodes are deleted at once.  Each step of a thread is one atomic  *)
(* access of a shared field.                                               *)
(*                                                                         *)
(* A deleted node may be allocated again.  A thread that reads or writes a *)
(* field of a deleted node has undefined behaviour: the model stops there. *)
(***************************************************************************)
EXTENDS Integers, Sequences, FiniteSets

CONSTANTS Adders,   \* threads that call addClause
          Poppers,  \* threads that call getClause
          Nodes,    \* addresses of list elements
          Dummy,    \* the address of the first one
          Clauses,  \* the clauses to be added, each of them once
          Null

ASSUME BufferAssumption ==
    /\ Dummy \in Nodes /\ Null \notin Nodes \cup Clauses
    /\ IsFiniteSet(Nodes) /\ IsFiniteSet(Clauses)
    /\ Adders \cap Poppers = {}

Threads == Adders \cup Poppers

VARIABLES
    head, tail, size,   \* ListRoot
    live,               \* the nodes that are allocated
    next, clause,       \* the fields of each node
    pc,                 \* where each thread is
    my,                 \* its local pointers: head, tail, next and the new node
    out,                \* the clause in its *clause, or the one it adds
    left,               \* clauses no one has added yet
    popped,             \* history: what the pops returned
    misused             \* history: two calls of addClause, or two of getClause, overlapped

vars == <<head, tail, size, live, next, clause, pc, my, out, left, popped, misused>>
listVars == <<head, tail, size, live, next, clause>>

NoPointers == [head |-> Null, tail |-> Null, next |-> Null, node |-> Null]

Init ==
    /\ head = Dummy /\ tail = Dummy /\ size = 0
    /\ live = {Dummy}
    /\ next = [n \in Nodes |-> Null]
    /\ clause = [n \in Nodes |-> Null]
    /\ pc = [t \in Threads |-> "idle"]
    /\ my = [t \in Threads |-> NoPointers]
    /\ out = [t \in Threads |-> Null]
    /\ left = Clauses
    /\ popped = <<>>
    /\ misused = FALSE

Crashed == \E t \in Threads : pc[t] = "crashed"

Step(t, from, to) == ~Crashed /\ pc[t] = from /\ pc' = [pc EXCEPT ![t] = to]

(* The next access of t is to a field of node n. *)
Access(t, n, from, to) == Step(t, from, IF n \in live THEN to ELSE "crashed")

(* The compare-and-swap of buffer.tail, to a node that was linked. *)
MoveTail(t, to) == tail' = IF tail = my[t].tail THEN to ELSE tail

Busy(role) == \E t \in role : pc[t] # "idle"

----------------------------------------------------------------------------
(* Faulty variants of the operations below; the properties must notice them. *)

(* *clause = head->clause: the node in front is the dummy. *)
TakeFromHead(t) ==
    /\ Access(t, my[t].head, "take", "pop")
    /\ out' = [out EXCEPT ![t] = IF my[t].head \in live THEN clause[my[t].head] ELSE Null]
    /\ UNCHANGED <<listVars, my, left, popped, misused>>

(* The node that was taken is deleted instead of the dummy before it. *)
DeleteNext(t) ==
    /\ Access(t, my[t].next, "delete", "shrink")
    /\ live' = live \ {my[t].next}
    /\ UNCHANGED <<head, tail, size, next, clause, my, out, left, popped, misused>>

----------------------------------------------------------------------------
(* addClause. *)

Add(t) ==
    /\ Step(t, "idle", "tail")
    /\ \E c \in left, n \in Nodes \ live :
          /\ left' = left \ {c}
          /\ out' = [out EXCEPT ![t] = c]
          /\ live' = live \cup {n}
          /\ next' = [next EXCEPT ![n] = Null]
          /\ clause' = [clause EXCEPT ![n] = c]
          /\ my' = [my EXCEPT ![t].node = n]
    /\ misused' = (misused \/ Busy(Adders))
    /\ UNCHANGED <<head, tail, size, popped>>

ReadTail(t) ==
    /\ Step(t, "tail", "next")
    /\ my' = [my EXCEPT ![t].tail = tail]
    /\ UNCHANGED <<listVars, out, left, popped, misused>>

ReadNext(t) ==
    /\ Access(t, my[t].tail, "next", "same")
    /\ my' = [my EXCEPT ![t].next = next[my[t].tail]]
    /\ UNCHANGED <<listVars, out, left, popped, misused>>

SameTail(t) ==
    /\ Step(t, "same", IF my[t].tail # tail THEN "tail"
                       ELSE IF my[t].next = Null THEN "link" ELSE "help")
    /\ UNCHANGED <<listVars, my, out, left, popped, misused>>

(* The compare-and-swap of tail->next. *)
Link(t) ==
    /\ Access(t, my[t].tail, "link", IF next[my[t].tail] = Null THEN "grow" ELSE "tail")
    /\ IF my[t].tail \in live /\ next[my[t].tail] = Null
       THEN next' = [next EXCEPT ![my[t].tail] = my[t].node]
       ELSE UNCHANGED next
    /\ UNCHANGED <<head, tail, size, live, clause, my, out, left, popped, misused>>

Grow(t) ==
    /\ Step(t, "grow", "swing")
    /\ size' = size + 1
    /\ UNCHANGED <<head, tail, live, next, clause, my, out, left, popped, misused>>

Help(t) ==
    /\ Step(t, "help", IF t \in Adders THEN "tail" ELSE "head")
    /\ MoveTail(t, my[t].next)
    /\ UNCHANGED <<head, size, live, next, clause, my, out, left, popped, misused>>

Swing(t) ==
    /\ Step(t, "swing", "idle")
    /\ MoveTail(t, my[t].node)
    /\ my' = [my EXCEPT ![t] = NoPointers]
    /\ out' = [out EXCEPT ![t] = Null]
    /\ UNCHANGED <<head, size, live, next, clause, left, popped, misused>>

----------------------------------------------------------------------------
(* getClause. *)

Get(t) ==
    /\ Step(t, "idle", "head")
    /\ misused' = (misused \/ Busy(Poppers))
    /\ UNCHANGED <<listVars, my, out, left, popped>>

ReadHead(t) ==
    /\ Step(t, "head", "htail")
    /\ my' = [my EXCEPT ![t].head = head]
    /\ UNCHANGED <<listVars, out, left, popped, misused>>

ReadTailOfPop(t) ==
    /\ Step(t, "htail", "hnext")
    /\ my' = [my EXCEPT ![t].tail = tail]
    /\ UNCHANGED <<listVars, out, left, popped, misused>>

ReadHeadNext(t) ==
    /\ Access(t, my[t].head, "hnext", "hsame")
    /\ my' = [my EXCEPT ![t].next = next[my[t].head]]
    /\ UNCHANGED <<listVars, out, left, popped, misused>>

SameHead(t) ==
    /\ Step(t, "hsame", IF my[t].head # head THEN "head" ELSE "decide")
    /\ UNCHANGED <<listVars, my, out, left, popped, misused>>

Decide(t) ==
    /\ Step(t, "decide", IF my[t].head # my[t].tail THEN "take"
                         ELSE IF my[t].next = Null THEN "idle" ELSE "help")
    /\ UNCHANGED <<listVars, my, out, left, popped, misused>>

(* *clause = next->clause. *)
Take(t) ==
    /\ Access(t, my[t].next, "take", "pop")
    /\ out' = [out EXCEPT ![t] = IF my[t].next \in live THEN clause[my[t].next] ELSE Null]
    /\ UNCHANGED <<listVars, my, left, popped, misused>>

(* The compare-and-swap of buffer.head. *)
Pop(t) ==
    /\ Step(t, "pop", IF head = my[t].head THEN "delete" ELSE "head")
    /\ IF head = my[t].head
       THEN head' = my[t].next /\ popped' = Append(popped, out[t])
       ELSE UNCHANGED <<head, popped>>
    /\ UNCHANGED <<tail, size, live, next, clause, my, out, left, misused>>

Delete(t) ==
    /\ Access(t, my[t].head, "delete", "shrink")
    /\ live' = live \ {my[t].head}
    /\ UNCHANGED <<head, tail, size, next, clause, my, out, left, popped, misused>>

Shrink(t) ==
    /\ Step(t, "shrink", "idle")
    /\ size' = size - 1
    /\ my' = [my EXCEPT ![t] = NoPointers]
    /\ out' = [out EXCEPT ![t] = Null]
    /\ UNCHANGED <<head, tail, live, next, clause, left, popped, misused>>

----------------------------------------------------------------------------
AdderNext(t) ==
    \/ Add(t) \/ ReadTail(t) \/ ReadNext(t) \/ SameTail(t) \/ Link(t) \/ Grow(t)
    \/ Help(t) \/ Swing(t)

PopperNext(t) ==
    \/ Get(t) \/ ReadHead(t) \/ ReadTailOfPop(t) \/ ReadHeadNext(t) \/ SameHead(t)
    \/ Decide(t) \/ Help(t) \/ Take(t) \/ Pop(t) \/ Delete(t) \/ Shrink(t)

Next ==
    \/ \E t \in Adders : AdderNext(t)
    \/ \E t \in Poppers : PopperNext(t)

Spec == Init /\ [][Next]_vars

----------------------------------------------------------------------------
(* The clauses of up to k nodes behind each node, in the order of the list  *)
(* that has the fields nx and cl.                                           *)
Behind(nx, cl) ==
    LET after[k \in 0..Cardinality(Nodes)] ==
            [n \in Nodes \cup {Null} |->
                IF k = 0 \/ n = Null \/ nx[n] = Null THEN <<>>
                ELSE <<cl[nx[n]]>> \o after[k - 1][nx[n]]]
    IN after

(* What the queue holds. *)
Contents == Behind(next, clause)[Cardinality(Nodes)][head]

(* As long as calls of addClause do not overlap each other, and neither do  *)
(* calls of getClause, no thread touches a deleted node, whatever an adder  *)
(* and a popper do to each other (ClauseBuffer.cpp:52, 81, 90 and 99).  The *)
(* code has no such guarantee when two blocks share (Sharing.cpp:28) or     *)
(* when solves share in a ring (PortfolioSolve.cpp:19).                     *)
SafeForOneOfEach == Crashed => misused

(* The steps of a first-in first-out queue. *)
FifoStep ==
    \/ Contents' = Contents /\ popped' = popped
    \/ /\ popped' = popped
       /\ \E c \in Clauses : Contents' = Append(Contents, c)
    \/ /\ Contents # <<>> /\ Contents' = Tail(Contents)
       /\ popped' = Append(popped, Head(Contents))

(* With one adder and one popper at a time the list is a queue: every step *)
(* appends one clause, removes and returns the oldest one, or changes      *)
(* nothing (ClauseBuffer.cpp:46-102).                                      *)
LinearizesToFifo == [][misused' \/ FifoStep]_vars
=============================================================================
