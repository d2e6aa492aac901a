----------------------------- MODULE CrawlerOps -----------------------------
(***************************************************************************)
(* The life of crawler operations.  The player runs operations on the      *)
(* crawler it has activated: to find the next item (FindNextOp), which     *)
(* walks through lists, enters them and waits for items, and to get the    *)
(* URIs of an item (GetURIsOp), which waits for one answer.  A running     *)
(* operation reaches the main loop by events, to be continued after it has *)
(* yielded and to have its caller notified after it has finished.  It may  *)
(* be canceled at any time, the crawler may be deactivated (which cancels  *)
(* all operations), and one operation may be delayed by a timer.           *)
(*                                                                         *)
(* An operation is a member of Finds or Fetches; the name is free for a    *)
(* new object when nothing refers to the old one anymore.  All of this is  *)
(* done by the main thread.  What an operation does between two events is  *)
(* modelled by its outcome; where it leads is in DirectoryTraversal.       *)
(***************************************************************************)
EXTENDS Integers, Sequences

CONSTANTS
    Finds,            \* FindNextOp objects
    Fetches,          \* GetURIsOp objects
    Places,           \* lists and lines FindNextOp can ask for
    None,
    ReturnsToPlaces   \* whether a FindNextOp asks for what a registered one has asked for

Ops == Finds \cup Fetches

ASSUME NamesAssumption  ==
    /\ None \notin Ops /\ None \notin [place : Places, by : Finds]
    /\ Finds \cap Fetches = {}
ASSUME SwitchAssumption == ReturnsToPlaces \in BOOLEAN

VARIABLES
    is_active,  \* Iface::is_active_
    ops,        \* Iface::ops_
    state,      \* per operation: OperationBase::state_, "NONE" if there is no object
    canceled_after_done, \* per operation: was_canceled_after_done_
    place,      \* per find operation: requested_list_id_ and requested_line_
    hinted,     \* find operations waiting for an item (is_waiting_for_item_hint_)
    query,      \* who has the traversal list entered at which place, None if it is not
    fetching,   \* fetch operations waiting for the list broker
    delayed_op, \* Iface::delayed_op_, the operation a timer is going to start
    dropped,    \* Iface::canceled_delayed_ops_, their timers are still running
    events,     \* UI events for the crawler, in order
    mine,       \* operations run since the last activation (history)
    told,       \* per operation: times its completion callback was called (history)
    given_up,   \* operations the player has canceled (history)
    bad_calls   \* operations finished when they had been finished before (history)

list_vars == <<hinted, query>>
history   == <<mine, told, given_up, bad_calls>>
vars == <<is_active, ops, state, canceled_after_done, place, list_vars,
          fetching, delayed_op, dropped, events, history>>

States    == {"NOT_STARTED", "RUNNING", "DONE", "FAILED", "CANCELING", "CANCELED"}
Finished  == {"DONE", "FAILED", "CANCELED"}
Completed(o) == [what |-> "COMPLETED", op |-> o]
Yielded(o)   == [what |-> "YIELDED", op |-> o]

TypeOK ==
    /\ is_active \in BOOLEAN
    /\ ops \subseteq Ops /\ mine \subseteq Ops /\ given_up \subseteq Ops /\ bad_calls \subseteq Ops
    /\ state \in [Ops -> States \cup {"NONE"}]
    /\ canceled_after_done \in [Ops -> BOOLEAN]
    /\ place \in [Finds -> Places]
    /\ hinted \subseteq Finds
    /\ query \in [place: Places, by: Finds] \cup {None}
    /\ fetching \subseteq Fetches
    /\ delayed_op \in Ops \cup {None} /\ dropped \subseteq Ops
    /\ events \in Seq([what: {"COMPLETED", "YIELDED"}, op: Ops])
    /\ told \in [Ops -> Nat]

Init ==
    /\ is_active = FALSE
    /\ ops = {} /\ fetching = {} /\ hinted = {} /\ dropped = {}
    /\ query = None /\ delayed_op = None
    /\ state = [o \in Ops |-> "NONE"]
    /\ canceled_after_done = [o \in Ops |-> FALSE]
    /\ place \in [Finds -> Places] /\ \A f, g \in Finds : place[f] = place[g]
    /\ events = <<>>
    /\ mine = {} /\ given_up = {} /\ bad_calls = {} /\ told = [o \in Ops |-> 0]

HasEvent(o)  == \E i \in DOMAIN events : events[i].op = o
Enters(o)    == query # None /\ query.by = o
Waits(o)     == o \in hinted \/ Enters(o) \/ o \in fetching
IsDelayed(o) == delayed_op = o \/ o \in dropped

\* Something is going to call the operation.
IsPending(o) == Waits(o) \/ HasEvent(o) \/ IsDelayed(o)
IsFree(o)    == o \notin ops /\ ~IsPending(o)

-----------------------------------------------------------------------------
(* What operations do: OperationBase, FindNextOp and GetURIsOp. *)

\* operation_finished(): state and event which come of it
FinishedState_uncanceled(o, success) == IF success THEN "DONE" ELSE "FAILED"
FinishedState(o, success) ==
    IF state[o] = "RUNNING" THEN IF success THEN "DONE" ELSE "FAILED" ELSE "CANCELED"

Finish(o, success, queue) ==
    \/ /\ state[o] \in {"RUNNING", "CANCELING"}
       /\ state' = [state EXCEPT ![o] = FinishedState(o, success)]
       /\ events' = Append(queue, Completed(o))
       /\ UNCHANGED bad_calls
    \/ /\ state[o] \in Finished
       /\ bad_calls' = bad_calls \cup {o}
       /\ events' = queue
       /\ UNCHANGED state

\* Places an operation may go to, and enter_list_async(), which takes the place
\* of the query under way
PlacesFor(o) ==
    {p \in Places : ReturnsToPlaces \/ \A f \in (Finds \cap ops) \ {o} : place[f] # p}
EnterList(o, p) ==
    /\ place' = [place EXCEPT ![o] = p]
    /\ query' = [place |-> p, by |-> o]

\* run_as_far_as_possible(): the operation has found something or failed, or
\* needs an item, or goes to another list.  Left are the queue, operations
\* which wait for items, and the query.
RunAsFarAsPossible(o, queue, waiting, left) ==
    \/ /\ \E success \in BOOLEAN : Finish(o, success, queue)
       /\ hinted' = waiting /\ query' = left
       /\ UNCHANGED place
    \/ /\ hinted' = waiting \cup {o} /\ query' = left
       /\ events' = queue
       /\ UNCHANGED <<place, state, bad_calls>>
    \/ /\ \E p \in PlacesFor(o) : EnterList(o, p)
       /\ hinted' = waiting
       /\ events' = queue
       /\ UNCHANGED <<state, bad_calls>>

\* cancel(): the next state of each operation in a set, and whether its
\* do_cancel() is called
Canceled(s) ==
    [o \in Ops |-> IF o \in s /\ state[o] \in {"NOT_STARTED", "RUNNING"}
                   THEN "CANCELING" ELSE state[o]]
CanceledAfterDone(s) ==
    [o \in Ops |-> canceled_after_done[o] \/ (o \in s /\ state[o] \in {"DONE", "FAILED"})]
CancelsList_for_all(s) == \E o \in s : state[o] \in {"NOT_STARTED", "RUNNING"}
CancelsList(s) == \E f \in Finds \cap s : state[f] \in {"NOT_STARTED", "RUNNING"}

\* FindNextOp::do_cancel() cancels all calls of the traversal list, and the
\* operations which have been waiting for them ignore that they have been
\* canceled; GetURIsOp::do_cancel() aborts the request, which is answered.
CancelAllAsyncCalls(s) ==
    IF CancelsList(s)
    THEN hinted' = {} /\ query' = None
    ELSE UNCHANGED list_vars

\* start(): what an operation does first, and whether it can be started.  An
\* operation that has been canceled cannot.
Start(o, registered) ==
    \/ /\ o \in Finds
       /\ state' = [state EXCEPT ![o] = "RUNNING"]
       /\ ops' = registered
       /\ \/ events' = Append(events, Yielded(o)) /\ UNCHANGED query
          \/ query' = [place |-> place'[o], by |-> o] /\ UNCHANGED events
       /\ UNCHANGED fetching
    \/ /\ o \in Fetches
       /\ ops' = registered
       /\ \/ /\ state' = [state EXCEPT ![o] = "RUNNING"]
             /\ fetching' = fetching \cup {o}
             /\ UNCHANGED events
          \/ /\ \E s \in {"DONE", "FAILED"} : state' = [state EXCEPT ![o] = s]
             /\ events' = Append(events, Completed(o))
             /\ UNCHANGED fetching
       /\ UNCHANGED query
    \/ /\ state' = [state EXCEPT ![o] = "FAILED"]
       /\ ops' = registered \ {o}
       /\ UNCHANGED <<events, query, fetching>>

StartFails(o) ==
    /\ ops' = ops \ {o}
    /\ UNCHANGED <<state, events, query, fetching>>

-----------------------------------------------------------------------------
(* The player. *)

Activate ==
    /\ ~is_active
    /\ is_active' = TRUE
    /\ UNCHANGED <<ops, state, canceled_after_done, place, list_vars,
                   fetching, delayed_op, dropped, events, history>>

\* The handle is destroyed.
DeactivatedOps_kept == ops
DeactivatedOps == {}
Deactivate ==
    /\ is_active
    /\ is_active' = FALSE
    /\ state' = Canceled(ops)
    /\ canceled_after_done' = CanceledAfterDone(ops)
    /\ CancelAllAsyncCalls(ops)
    /\ ops' = DeactivatedOps
    /\ mine' = {}
    /\ UNCHANGED <<place, fetching, delayed_op, dropped, events, told, given_up, bad_calls>>

\* Players look for one item at a time: the prefetch operation is canceled for
\* a skip, there is no prefetching while skipping, and so on.
NobodySearches == \A f \in Finds \cap ops : state[f] \notin {"NOT_STARTED", "RUNNING"}
New(o) ==
    /\ is_active /\ IsFree(o) /\ (o \in Finds => NobodySearches)
    /\ canceled_after_done' = [canceled_after_done EXCEPT ![o] = FALSE]
    /\ told' = [told EXCEPT ![o] = 0]
    /\ mine' = mine \cup {o}
    /\ \/ o \in Finds /\ \E p \in PlacesFor(o) : place' = [place EXCEPT ![o] = p]
       \/ o \in Fetches /\ UNCHANGED place
    /\ bad_calls' = bad_calls \ {o} /\ given_up' = given_up \ {o}
    /\ UNCHANGED is_active

\* run() without a delay
Run(o) ==
    /\ New(o)
    /\ Start(o, ops \cup {o})
    /\ UNCHANGED <<hinted, delayed_op, dropped>>

\* run() with a delay takes the place of the delayed operation there is
RunDelayed(o) ==
    /\ o \in Finds /\ New(o)
    /\ state' = [state EXCEPT ![o] = "NOT_STARTED"]
    /\ delayed_op' = o
    /\ \/ delayed_op = None /\ dropped' = dropped /\ ops' = ops \cup {o}
       \/ /\ delayed_op # None
          /\ dropped' = dropped \cup {delayed_op}
          /\ ops' = (ops \cup {o}) \ {delayed_op}
    /\ UNCHANGED <<list_vars, fetching, events>>

\* cancel() of an operation the player still has
Cancel(o) ==
    /\ state[o] # "NONE" /\ o \in mine
    /\ Canceled({o}) # state \/ CanceledAfterDone({o}) # canceled_after_done
    /\ state' = Canceled({o})
    /\ canceled_after_done' = CanceledAfterDone({o})
    /\ CancelAllAsyncCalls({o})
    /\ given_up' = given_up \cup {o}
    /\ UNCHANGED <<is_active, ops, place, fetching, delayed_op, dropped, events, mine, told,
                   bad_calls>>

-----------------------------------------------------------------------------
(* The main loop. *)

\* run_delayed(), after three seconds
DelayIsOver(o) ==
    /\ IsDelayed(o)
    /\ UNCHANGED <<is_active, canceled_after_done, place, hinted, history>>
    /\ \/ /\ o = delayed_op
          /\ \/ state[o] = "NOT_STARTED" /\ Start(o, ops)
             \/ state[o] # "NOT_STARTED" /\ StartFails(o)
          /\ delayed_op' = None /\ UNCHANGED dropped
       \/ /\ o # delayed_op
          /\ dropped' = dropped \ {o}
          /\ UNCHANGED <<ops, state, events, query, fetching, delayed_op>>

IsNotified_always(o) == TRUE
IsNotified(o)     == o \in ops
\* All operations have SUPPRESS_CANCELED for a filter.
IsSuppressed(o)   == state[o] = "CANCELED"

\* operation_complete_notification()
HandleCompleted ==
    /\ events # <<>> /\ Head(events).what = "COMPLETED"
    /\ events' = Tail(events)
    /\ LET o == Head(events).op IN
       /\ ops' = ops \ {o}
       /\ \/ /\ IsNotified(o) /\ state[o] \in Finished /\ ~IsSuppressed(o)
             /\ told' = [told EXCEPT ![o] = @ + 1]
          \/ /\ ~IsNotified(o) \/ state[o] \notin Finished \/ IsSuppressed(o)
             /\ UNCHANGED told
    /\ UNCHANGED <<is_active, state, canceled_after_done, place, list_vars,
                   fetching, delayed_op, dropped, mine, given_up, bad_calls>>

\* operation_yielded_notification() and continue_running()
HandleYielded ==
    /\ events # <<>> /\ Head(events).what = "YIELDED"
    /\ LET o == Head(events).op IN
       \/ /\ o \in ops /\ state[o] = "RUNNING"
          /\ RunAsFarAsPossible(o, Tail(events), hinted, query)
       \/ /\ o \in ops /\ state[o] = "CANCELING"
          /\ Finish(o, FALSE, Tail(events))
          /\ UNCHANGED <<place, list_vars>>
       \/ /\ o \notin ops
          /\ events' = Tail(events)
          /\ UNCHANGED <<state, place, list_vars, bad_calls>>
    /\ UNCHANGED <<is_active, ops, canceled_after_done, fetching, delayed_op,
                   dropped, mine, told, given_up>>

\* async_list__enter_list_event(): the traversal list has been entered, or could
\* not be.  The first operation found to have asked for this place is told,
\* whatever its state.
Matches_anywhere(o) == o \in Finds
Matches(o) == o \in Finds /\ place[o] = query.place
ListEntered ==
    /\ query # None
    /\ \/ \E o \in ops : Matches(o) /\ RunAsFarAsPossible(o, events, hinted, None)
       \/ /\ \A o \in ops : ~Matches(o)
          /\ query' = None
          /\ UNCHANGED <<place, hinted, state, events, bad_calls>>
    /\ UNCHANGED <<is_active, ops, canceled_after_done, fetching, delayed_op,
                   dropped, mine, told, given_up>>

\* The item has been loaded, or loading it has failed.
HintedItemArrives(o) ==
    /\ o \in hinted
    /\ RunAsFarAsPossible(o, events, hinted \ {o}, query)
    /\ UNCHANGED <<is_active, ops, canceled_after_done, fetching, delayed_op,
                   dropped, mine, told, given_up>>

\* The list broker has answered, or it has aborted the request.
URIsArrive(o) ==
    /\ o \in fetching
    /\ fetching' = fetching \ {o}
    /\ \E success \in BOOLEAN : Finish(o, success, events)
    /\ UNCHANGED <<is_active, ops, canceled_after_done, place, list_vars, delayed_op,
                   dropped, mine, told, given_up>>

Next ==
    \/ Activate
    \/ Deactivate
    \/ \E o \in Ops : Run(o)
    \/ \E o \in Finds : RunDelayed(o)
    \/ \E o \in Ops : Cancel(o)
    \/ \E o \in Finds : DelayIsOver(o)
    \/ HandleCompleted
    \/ HandleYielded
    \/ ListEntered
    \/ \E o \in Finds : HintedItemArrives(o)
    \/ \E o \in Fetches : URIsArrive(o)

Spec == Init /\ [][Next]_vars

-----------------------------------------------------------------------------
(* Properties. *)

\* The events in the queue fit the operations: each operation has at most one,
\* an operation to be continued is not over, and one that is over has its
\* caller notified as long as the crawler knows it.
EventsFitStates ==
    /\ \A i, j \in DOMAIN events : events[i].op = events[j].op => i = j
    /\ \A i \in DOMAIN events :
           IF events[i].what = "YIELDED"
           THEN state[events[i].op] \in {"RUNNING", "CANCELING"}
           ELSE state[events[i].op] \in Finished
    /\ \A o \in ops : state[o] \in Finished => HasEvent(o)

\* An operation reports its end once; its notification function is gone then.
FinishedOnce == bad_calls = {}

\* A player which is notified of an operation it has canceled can tell so: that
\* it has been canceled is not forgotten when the operation ends, nor when a
\* delayed operation is not started for it.
IsOpCanceled(o) == state[o] \in {"CANCELING", "CANCELED"} \/ canceled_after_done[o]
CancelIsRemembered == \A o \in given_up : IsOpCanceled(o)

\* Operations are all accounted for: by the events queued for them, the end they have
\* reported, and what their callers have asked for.
OperationsAccounted == TypeOK /\ EventsFitStates /\ FinishedOnce /\ CancelIsRemembered

\* A registered operation has not been forgotten by everyone, unless it has
\* been canceled while it waited for the list: a player waiting for an
\* operation it has not canceled is going to be called.
NobodyWaitsInVain ==
    \A o \in ops : IsPending(o) \/ (o \in Finds /\ state[o] = "CANCELING")

\* A player is notified once, and only of operations which it has run since it
\* has activated the crawler: the player before it has let go of its own.
NotifiedOnceByCurrentCrawler ==
    [][\A o \in Ops : told'[o] > told[o] => o \in mine /\ told[o] = 0]_vars

\* The crawler has something to do if is_busy() says so; the player counts on
\* it when a stream has failed and there is nothing else to play.
IsBusy == is_active /\ ops # {}
BusyMeansWorking == IsBusy => \E o \in ops : IsPending(o)
=============================================================================
