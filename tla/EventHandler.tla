----------------------------- MODULE EventHandler -----------------------------
(***************************************************************************)
(* util::event::EventHandler: callbacks are attached to an event, raise()  *)
(* queues an event, and one thread calls, for each event in turn, the      *)
(* callbacks of its list.  The list is changed under its mutex and walked  *)
(* without it.  PortfolioSolve adds what the callbacks do.                 *)
(*                                                                         *)
(* A step from a handle that is no longer in the list, or a callback whose *)
(* objects are gone, is undefined behaviour: the thread is then "crashed". *)
(***************************************************************************)
EXTENDS SequencesExt

CONSTANTS Handles,  \* the EventCallbackHandles
          EventOf,  \* EventOf[h]: the event h is attached to
          End       \* the end of a callback list

VARIABLES
    equeue,    \* _event_queue
    list,      \* the callback list of each event
    attached,  \* handles whose _unlink_mutex is set
    shutdown,  \* _shutdown
    epc,       \* where the event thread is
    event,     \* the event it serves, or End
    it,        \* its iterator
    cur,       \* the handle whose callback it runs
    missed,    \* history: it was about to block when _shutdown was stored
    raced      \* history: an owner detached a handle of the event being served

eventVars == <<equeue, list, attached, shutdown, epc, event, it, cur, missed, raced>>
threadVars == <<event, it, cur>>

Events == {EventOf[h] : h \in Handles}

EventInit ==
    /\ equeue = <<>>
    /\ list = [e \in Events |-> <<>>]
    /\ attached = {}
    /\ shutdown = FALSE
    /\ epc = "top" /\ event = End /\ it = End /\ cur = End
    /\ missed = FALSE /\ raced = FALSE

(* The thread holds _event_queue_mutex from its test until it blocks. *)
QueueMutexFree == epc # "checked"

NotifyOne == epc' = IF epc = "blocked" THEN "top" ELSE epc

Serving == epc \in {"begin", "next", "call", "self", "unlink"}

Linked(h) == h \in ToSet(list[EventOf[h]])

(* The place of h, and the element behind it, while h is in the list. *)
Place(h) == CHOOSE k \in DOMAIN list[EventOf[h]] : list[EventOf[h]][k] = h

Successor(h) ==
    IF Place(h) = Len(list[EventOf[h]]) THEN End ELSE list[EventOf[h]][Place(h) + 1]

(* Nothing happens to a handle that has been taken out already. *)
Unlink(h) ==
    list' = IF Linked(h) THEN [list EXCEPT ![EventOf[h]] = RemoveAt(@, Place(h))] ELSE list

----------------------------------------------------------------------------
(* Faulty variants of the operations below; the properties must notice them. *)

(* it->_callback(), and ++it when the callback has returned. *)
StepAfterCall ==
    /\ epc = "next"
    /\ \/ it = End /\ epc' = "top" /\ event' = End /\ cur' = End /\ UNCHANGED it
       \/ it # End /\ cur # it /\ Linked(it) /\ epc' = "call" /\ cur' = it /\ UNCHANGED <<it, event>>
       \/ it # End /\ cur = it /\ Linked(it) /\ it' = Successor(it) /\ UNCHANGED <<epc, cur, event>>
       \/ it # End /\ ~Linked(it) /\ epc' = "crashed" /\ UNCHANGED threadVars
    /\ UNCHANGED <<equeue, list, attached, shutdown, missed, raced>>

(* A detach() that waits until the callback does not run: the callback that  *)
(* detaches itself waits for itself.                                         *)
DetachAwaitsCallback(gone, unset) ==
    /\ epc = "self"
    /\ epc' = IF gone \/ unset THEN "crashed" ELSE "awaits itself"
    /\ UNCHANGED <<equeue, list, attached, shutdown, threadVars, missed, raced>>

----------------------------------------------------------------------------
(* What other threads call. *)

Raise(e) ==
    /\ QueueMutexFree
    /\ equeue' = Append(equeue, e)
    /\ NotifyOne
    /\ UNCHANGED <<list, attached, shutdown, threadVars, missed, raced>>

Attach(h) ==
    /\ list' = [list EXCEPT ![EventOf[h]] = Append(@, h)]
    /\ attached' = attached \cup {h}
    /\ NotifyOne
    /\ UNCHANGED <<equeue, shutdown, threadVars, missed, raced>>

(* EventCallbackHandle::detach by the owner of the handle, and the end of   *)
(* the handle; nothing is left to do if the callback has begun to detach it *)
(* (and, if it has not yet unlinked it, its thread touches freed memory).   *)
Detach(h) ==
    /\ attached' = attached \ {h}
    /\ Unlink(h)
    /\ raced' = (raced \/ (Serving /\ event = EventOf[h]))
    /\ UNCHANGED <<equeue, shutdown, epc, threadVars, missed>>

(* ~EventHandler up to the join: _shutdown is stored without the mutex. *)
Shutdown ==
    /\ shutdown' = TRUE
    /\ missed' = (epc = "checked")
    /\ NotifyOne
    /\ UNCHANGED <<equeue, list, attached, threadVars, raced>>

----------------------------------------------------------------------------
(* _event_handling_thread. *)

(* The predicate of the wait, under the mutex, and the pop. *)
Test ==
    /\ epc = "top"
    /\ IF shutdown THEN epc' = "stopped" /\ UNCHANGED <<event, equeue>>
       ELSE IF equeue # <<>>
       THEN event' = Head(equeue) /\ equeue' = Tail(equeue) /\ epc' = "begin"
       ELSE epc' = "checked" /\ UNCHANGED <<event, equeue>>
    /\ UNCHANGED <<list, attached, shutdown, it, cur, missed, raced>>

Block ==
    /\ epc = "checked" /\ epc' = "blocked"
    /\ UNCHANGED <<equeue, list, attached, shutdown, threadVars, missed, raced>>

Begin ==
    /\ epc = "begin" /\ epc' = "next"
    /\ it' = IF list[event] = <<>> THEN End ELSE Head(list[event])
    /\ cur' = End
    /\ UNCHANGED <<equeue, list, attached, shutdown, event, missed, raced>>

(* (it++)->_callback(): the iterator moves on before the call. *)
StepIterator ==
    /\ epc = "next"
    /\ \/ it = End /\ epc' = "top" /\ event' = End /\ cur' = End /\ UNCHANGED it
       \/ it # End /\ Linked(it) /\ epc' = "call" /\ cur' = it /\ it' = Successor(it)
            /\ UNCHANGED event
       \/ it # End /\ ~Linked(it) /\ epc' = "crashed" /\ UNCHANGED threadVars
    /\ UNCHANGED <<equeue, list, attached, shutdown, missed, raced>>

(* The callback detaches its own handle: the compare-and-swap, and the   *)
(* unlink under the mutex of the list.  gone: the handle was destroyed;  *)
(* unset: the variable that should hold it has not been initialised.     *)
SelfDetach(gone, unset) ==
    /\ epc = "self"
    /\ LET bad == gone \/ unset IN
       \/ bad /\ epc' = "crashed" /\ UNCHANGED attached
       \/ ~bad /\ cur \in attached /\ epc' = "unlink" /\ attached' = attached \ {cur}
       \/ ~bad /\ cur \notin attached /\ epc' = "next" /\ UNCHANGED attached
    /\ UNCHANGED <<equeue, list, shutdown, threadVars, missed, raced>>

SelfUnlink(gone) ==
    /\ epc = "unlink"
    /\ \/ gone /\ epc' = "crashed" /\ UNCHANGED list
       \/ ~gone /\ epc' = "next" /\ Unlink(cur)
    /\ UNCHANGED <<equeue, attached, shutdown, threadVars, missed, raced>>
=============================================================================
