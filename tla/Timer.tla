-------------------------------- MODULE Timer --------------------------------
(***************************************************************************)
(* util::Timer with a clock: the ordered set of events, the thread that    *)
(* sleeps until the first of them, add(), abort() and the destructor.      *)
(*                                                                         *)
(* The thread is scheduled promptly: the clock only advances while it is   *)
(* blocked in wait_for with its timeout in the future.                     *)
(***************************************************************************)
EXTENDS Integers, FiniteSets

CONSTANTS Ids,       \* the calls of add(), each made at most once
          Delays,    \* the durations they may pass
          MaxTime,   \* the clock stops here; every deadline lies before it
          None

ASSUME TimerAssumption ==
    /\ Delays \subseteq 1..MaxTime
    /\ Delays # {}
    /\ MaxTime \in Nat
    /\ None \notin Ids

VARIABLES now,      \* util::clock_t::now()
          when,     \* TimerEvent::when
          state,    \* is the event in _events, and what became of it
          aborted,  \* TimerHandleType::aborted
          stop,     \* _stop
          pc,       \* where the timer's thread is
          until,    \* the timeout of the wait_for it is in
          cur,      \* the event whose callback it is running
          gone      \* the destructor has returned

vars == <<now, when, state, aborted, stop, pc, until, cur, gone>>

TypeOK ==
    /\ now \in 0..MaxTime
    /\ when \in [Ids -> 0..MaxTime]
    /\ state \in [Ids -> {"none", "pending", "lost", "called", "erased"}]
    /\ aborted \in [Ids -> BOOLEAN]
    /\ stop \in BOOLEAN
    /\ pc \in {"top", "checked", "asleep", "woken", "scan", "calling", "exited"}
    /\ until \in 0..MaxTime
    /\ cur \in Ids \cup {None}
    /\ gone \in BOOLEAN

Init ==
    /\ now = 0
    /\ when = [e \in Ids |-> 0]
    /\ state = [e \in Ids |-> "none"]
    /\ aborted = [e \in Ids |-> FALSE]
    /\ stop = FALSE
    /\ pc = "top"
    /\ until = 0
    /\ cur = None
    /\ gone = FALSE

Pending == {e \in Ids : state[e] = "pending"}

(* _events.begin(); operator< orders events by `when` alone. *)
IsFirst(e) == e \in Pending /\ \A f \in Pending : when[e] <= when[f]

(* _m is free unless the thread is between two waits. *)
Unlocked == pc \in {"top", "asleep", "exited"}

----------------------------------------------------------------------------
(* Faulty variants of the operations below; the properties must notice them. *)

SleepWhenEmpty ==
    /\ pc = "top"
    /\ IF stop
       THEN pc' = "exited" /\ UNCHANGED until
       ELSE /\ pc' = "checked"
            /\ IF Pending = {} THEN until' = MaxTime
               ELSE \E e \in Ids : IsFirst(e) /\ until' = when[e]
    /\ UNCHANGED <<now, when, state, aborted, stop, cur, gone>>

ScanKeepsAborted(e) ==
    /\ pc = "scan"
    /\ IsFirst(e)
    /\ when[e] <= now
    /\ ~aborted[e]
    /\ pc' = "calling"
    /\ cur' = e
    /\ UNCHANGED <<now, when, state, aborted, stop, until, gone>>

----------------------------------------------------------------------------
(* Timer::add.  std::set keeps one event per `when`: a second one is not   *)
(* inserted, and its handle is returned all the same.  notify_one wakes the *)
(* thread, whose predicate is only _stop: it goes back to the same wait.    *)
Add(e, d) ==
    /\ ~stop
    /\ Unlocked
    /\ state[e] = "none"
    /\ now + d <= MaxTime
    /\ when' = [when EXCEPT ![e] = now + d]
    /\ state' = [state EXCEPT ![e] =
                    IF \E f \in Pending : when[f] = now + d THEN "lost" ELSE "pending"]
    /\ UNCHANGED <<now, aborted, stop, pc, until, cur, gone>>

(* TimerHandleType::abort: the event stays in the set. *)
Abort(e) ==
    /\ state[e] # "none"
    /\ ~aborted[e]
    /\ aborted' = [aborted EXCEPT ![e] = TRUE]
    /\ UNCHANGED <<now, when, state, stop, pc, until, cur, gone>>

(* ~Timer: _stop is stored without _m, so the notification reaches the     *)
(* thread only if it is already blocked.                                   *)
Stop ==
    /\ ~stop
    /\ stop' = TRUE
    /\ pc' = IF pc = "asleep" THEN "woken" ELSE pc
    /\ UNCHANGED <<now, when, state, aborted, until, cur, gone>>

Join ==
    /\ stop
    /\ pc = "exited"
    /\ ~gone
    /\ gone' = TRUE
    /\ UNCHANGED <<now, when, state, aborted, stop, pc, until, cur>>

----------------------------------------------------------------------------
(* The thread: the loop test, then under _m the timeout is computed and the *)
(* predicate evaluated.  With no event, begin()->when reads the header of   *)
(* the empty std::set, whose node count 0 stands for the epoch: the wait    *)
(* times out at once and the loop spins.                                    *)
ComputeWait ==
    /\ pc = "top"
    /\ IF stop
       THEN pc' = "exited" /\ UNCHANGED until
       ELSE /\ pc' = "checked"
            /\ IF Pending = {} THEN until' = 0
               ELSE \E e \in Ids : IsFirst(e) /\ until' = when[e]
    /\ UNCHANGED <<now, when, state, aborted, stop, cur, gone>>

(* wait_for blocks, or returns at once if the timeout has already passed. *)
Block ==
    /\ pc = "checked"
    /\ pc' = IF until <= now THEN "woken" ELSE "asleep"
    /\ UNCHANGED <<now, when, state, aborted, stop, until, cur, gone>>

TimeOut ==
    /\ pc = "asleep"
    /\ until <= now
    /\ pc' = "woken"
    /\ UNCHANGED <<now, when, state, aborted, stop, until, cur, gone>>

(* The test of _stop after the wait. *)
TestStop ==
    /\ pc = "woken"
    /\ pc' = IF stop THEN "exited" ELSE "scan"
    /\ UNCHANGED <<now, when, state, aborted, stop, until, cur, gone>>

(* The loop over the events that are due. *)
ScanEnds ==
    /\ pc = "scan"
    /\ \A e \in Pending : when[e] > now
    /\ pc' = "top"
    /\ UNCHANGED <<now, when, state, aborted, stop, until, cur, gone>>

ScanFirst(e) ==
    /\ pc = "scan"
    /\ IsFirst(e)
    /\ when[e] <= now
    /\ IF aborted[e]
       THEN state' = [state EXCEPT ![e] = "erased"] /\ UNCHANGED <<pc, cur>>
       ELSE pc' = "calling" /\ cur' = e /\ UNCHANGED state
    /\ UNCHANGED <<now, when, aborted, stop, until, gone>>

(* The callback returns and the event is erased. *)
CallbackReturns ==
    /\ pc = "calling"
    /\ state' = [state EXCEPT ![cur] = "called"]
    /\ cur' = None
    /\ pc' = "scan"
    /\ UNCHANGED <<now, when, aborted, stop, until, gone>>

ThreadStep ==
    \/ ComputeWait \/ Block \/ TimeOut \/ TestStop \/ ScanEnds
    \/ CallbackReturns \/ \E e \in Ids : ScanFirst(e)

(* Time passes while the thread is blocked, or spins over no event. *)
Tick ==
    /\ now < MaxTime
    /\ \/ pc = "asleep" /\ until > now
       \/ pc = "top" /\ Pending = {}
    /\ now' = now + 1
    /\ UNCHANGED <<when, state, aborted, stop, pc, until, cur, gone>>

(* The destructor has returned: nothing is left to run. *)
Destroyed == gone /\ UNCHANGED vars

Next ==
    \/ \E e \in Ids : Abort(e) \/ \E d \in Delays : Add(e, d)
    \/ Stop \/ Join
    \/ ThreadStep
    \/ Tick
    \/ Destroyed

Spec == Init /\ [][Next]_vars

(* The timer's thread runs, and time goes on. *)
FairSpec == Spec /\ WF_vars(ThreadStep) /\ WF_vars(Tick) /\ WF_vars(Join)

----------------------------------------------------------------------------
Overdue(e) == ~stop /\ e \in Pending /\ ~aborted[e] /\ when[e] < now

(* An event is overdue by no more than the difference between the longest  *)
(* and the shortest delay in use: the thread never oversleeps the timeout  *)
(* it chose, whatever is added or aborted meanwhile.                       *)
LatenessBounded ==
    \A e \in Ids : Overdue(e) =>
        \E long, short \in Delays : now - when[e] <= long - short

(* For every event that is added, an event due at the same instant is       *)
(* served, unless the timer is destroyed: the thread cannot sleep, or spin, *)
(* past it for ever.  No more can be said, since of two events due at the   *)
(* same instant the set keeps one (Timer.cpp:7, 44): the other is called    *)
(* never, and if the one that is kept has been aborted, neither is.         *)
Served ==
    \A e \in Ids :
        (state[e] # "none") ~>
            (stop \/ \E f \in Ids : when[f] = when[e] /\ state[f] \in {"called", "erased"})

(* ~Timer returns, even when its notification is lost. *)
DestructorReturns == stop ~> gone

(* The timer's thread never hangs: it serves what is due and, told to stop,  *)
(* it stops.                                                                *)
ThreadResponds == Served /\ DestructorReturns
=============================================================================
