----------------------------- MODULE CookieCalls -----------------------------
(***************************************************************************)
(* Request, notify, fetch: how a file browser view asks a list broker for  *)
(* the ID of a list.  A call object (DBusRNF::CallBase, Call, CookieCall)  *)
(* sends its request from the main thread.  Unless the list broker has the *)
(* answer at hand it returns a cookie, tells the D-Bus thread later that   *)
(* the cookie is available or failed, and the main thread fetches the      *)
(* answer by the cookie.  In between sit the tables of pending cookies and *)
(* the queue of UI events, and a call may be aborted at any time.          *)
(*                                                                         *)
(* A call object is a member of Calls; after its destruction the name is   *)
(* free for a new object.  Calls in Root and Child occupy the single slot  *)
(* of the view's AsyncCalls, those in Blocking are waited for by the main  *)
(* thread.  The cookie of a call is always the same, or the invalid        *)
(* cookie 0, so that a Boolean tells which one a member variable holds.    *)
(***************************************************************************)
EXTENDS Integers, Sequences, FiniteSets

CONSTANTS
    Calls,
    Root,       \* made by do_point_to_real_root_directory()
    Child,      \* made by point_to_child_directory()
    Blocking,   \* made by get_child_item_internal(), which waits for the result
    Replies,    \* what the list broker replies to a request
    Fetches,    \* what it replies to a fetch by a valid cookie
    Signals,    \* what it signals for a cookie of its own accord
    Aborts,     \* how its abort method ends
    Entrances,  \* how entering a list ends
    User,       \* a UI event caused by the user
    None,
    MaxTriggers, \* bound: no key is pressed while more triggers are scheduled
    MaxCalls    \* bound: calls that exist at a time

CallStates == {"INITIALIZED", "WAIT_FOR_NOTIFICATION", "READY_TO_FETCH",
               "RESULT_FETCHED", "ABORTING", "ABORTED_BY_LIST_BROKER", "FAILED"}
Active  == {"WAIT_FOR_NOTIFICATION", "READY_TO_FETCH"}
Results == {"data", "refused", "exception"}

\* Where the main thread can be: in the main loop, processing UI events, in
\* one of the steps of a navigation, or in one of the steps of a call.
Places  == {"idle", "events", "input", "cancel", "abort", "request", "requesting",
            "waiting", "finish", "drop"}

ASSUME CallsAssumption ==
    /\ IsFiniteSet(Calls)
    /\ Calls = Root \cup Child \cup Blocking
    /\ Root \cap Child = {} /\ Root \cap Blocking = {} /\ Child \cap Blocking = {}
    /\ None \notin Calls /\ User \notin Calls /\ User # None
ASSUME BoundAssumption == MaxTriggers \in Nat \ {0} /\ MaxCalls \in Nat \ {0}
ASSUME BrokerAssumption ==
    /\ Replies \subseteq Results \cup {"cookie"}
    /\ Fetches \subseteq Results /\ Fetches # {}
    /\ Signals \subseteq {"available", "error"}
    /\ Aborts \subseteq {"aborted", "failed"}
    /\ Entrances \subseteq {"succeeded", "failed"}

VARIABLES
    state,                  \* per call: CallBase::state_, "NONE" if no object
    has_cookie,             \* per call: cookie_ # 0
    cleared,                \* per call: cleared_cookie_ # 0
    was_aborted_after_done, \* per call
    result,                 \* per call: what the promise was set to
    slot,                   \* AsyncCalls::get_list_id_
    zombies,                \* DeathRow::zombies_
    notification_functions, \* PendingCookies: calls to be notified
    fetch_functions,        \* PendingCookies: calls to be finished
    busy_count,             \* Busy counter of GETTING_LIST_ID
    main,                   \* main thread: where it is, with which call
    dbus,                   \* D-Bus thread: likewise
    queue_,                 \* UI::EventQueue::queue_
    triggers,               \* scheduled calls of process_pending_events()
    broker,                 \* per call: what the list broker knows of it
    signals,                \* signals on their way to the D-Bus thread
    entering,               \* EnterListData::query_: for the list of which call
    latest,                 \* ghost: the call for the list asked for last
    entered                 \* ghost: the call whose list was entered since then

call_vars   == <<state, has_cookie, cleared, was_aborted_after_done, result>>
owner_vars  == <<slot, zombies>>
cookie_vars == <<notification_functions, fetch_functions>>
event_vars  == <<queue_, triggers>>
broker_vars == <<broker, signals>>
list_vars   == <<entering, latest, entered>>
vars == <<call_vars, owner_vars, cookie_vars, busy_count, main, dbus, event_vars,
          broker_vars, list_vars>>

(***************************************************************************)
(* Helpers                                                                 *)
(***************************************************************************)
\* Mutant: the counter wraps around.
clear_below_zero(count) == count - 1

\* A busy counter never falls below zero.
clear(count) == IF count > 0 THEN count - 1 ELSE 0

MainAt(where) == main.at = where

Goto(where, c, then) == main' = [at |-> where, call |-> c, then |-> then]

Proceed(where) == main' = [main EXCEPT !.at = where]

DBusGoto(where) == dbus' = [at |-> where, call |-> None, error |-> FALSE]

set_state(c, st) == state' = [state EXCEPT ![c] = st]

\* Mutant: the cleared cookie is not remembered.
clear_cookie_only(c) ==
    has_cookie' = [has_cookie EXCEPT ![c] = FALSE] /\ UNCHANGED cleared

\* The cookie is forgotten and from now on known as the cleared one.
clear_cookie(c) ==
    /\ cleared' = [cleared EXCEPT ![c] = has_cookie[c]]
    /\ has_cookie' = [has_cookie EXCEPT ![c] = FALSE]

\* Mutant: the call is copied to the death row, and the slot keeps it.
delete_get_list_id_copies == slot' = slot /\ zombies' = zombies \cup ({slot} \ {None})

\* The slot is emptied, its call goes to the death row.
delete_get_list_id == slot' = None /\ zombies' = zombies \cup ({slot} \ {None})

\* Mutant: the fetch functions hold weak pointers.
Referenced_weakly(c) ==
    \/ c = slot
    \/ c \in notification_functions
    \/ dbus.at = "notify" /\ dbus.call = c

\* Somebody other than the death row shares the ownership of call c.
Referenced(c) ==
    \/ c = slot
    \/ c \in notification_functions \cup fetch_functions
    \/ dbus.at = "notify" /\ dbus.call = c

\* Mutant: the busy flag is cleared once for all of them.
clear_for_once(D) == busy_count' = IF D = {} THEN busy_count ELSE clear(busy_count)

\* Busy::clear() in the destructor of each call in D.
clear_for(D) ==
    busy_count' = IF busy_count > Cardinality(D) THEN busy_count - Cardinality(D) ELSE 0

\* Destruction of the calls in D.  Nothing is aborted, since none of them is
\* active any more, but each takes back its busy flag.
destroy(D) ==
    /\ state' = [c \in Calls |-> IF c \in D THEN "NONE" ELSE state[c]]
    /\ has_cookie' = [c \in Calls |-> has_cookie[c] /\ c \notin D]
    /\ cleared' = [c \in Calls |-> cleared[c] /\ c \notin D]
    /\ was_aborted_after_done' = [c \in Calls |-> was_aborted_after_done[c] /\ c \notin D]
    /\ result' = [c \in Calls |-> IF c \in D THEN None ELSE result[c]]
    /\ broker' = [c \in Calls |-> IF c \in D THEN "none" ELSE broker[c]]
    /\ clear_for(D)

\* The list ID arrived and is valid: enter the list.
enter_list_async(c) ==
    /\ entering' = c
    /\ entered' = c
    /\ UNCHANGED latest

\* Look for an error in the result for a child.  Whether or not there is one, the
\* busy flag is cleared here, and once more when the call is destroyed.
sink_point_to_child_error == busy_count' = clear(busy_count)

\* What the view does with the result r for a child; None is for a call aborted
\* by the list broker.
child_got_list_id(c, r) ==
    /\ sink_point_to_child_error
    /\ IF r = "data" THEN enter_list_async(c) ELSE UNCHANGED list_vars
    /\ delete_get_list_id

\* What it does with the result for the root.  An exception leaves the slot as
\* it is.
root_got_list_id(c, r) ==
    /\ IF r = "data" THEN enter_list_async(c) ELSE UNCHANGED list_vars
    /\ IF r \in {"data", "refused"} THEN delete_get_list_id ELSE UNCHANGED owner_vars
    /\ UNCHANGED busy_count

\* Mutant: nobody checks which call the answer is for.
got_list_id_of_any(c, r) ==
    IF c \in Child THEN child_got_list_id(c, r) ELSE root_got_list_id(c, r)

\* The chained notification function of call c: only the call in the slot is of
\* interest.
got_list_id(c, r) ==
    IF c # slot
    THEN UNCHANGED <<owner_vars, busy_count, list_vars>>
    ELSE IF c \in Child THEN child_got_list_id(c, r) ELSE root_got_list_id(c, r)

(***************************************************************************)
(* Main thread: navigation.  A UI event of the user makes the view ask for *)
(* another list, after what is still under way was canceled.               *)
(***************************************************************************)
\* Call c can be made: the object does not exist yet.
IsNew(c) ==
    /\ state[c] = "NONE"
    /\ Cardinality({d \in Calls : state[d] # "NONE"}) < MaxCalls

\* point_to_child_directory(), or point_to_root_directory() and then
\* do_point_to_real_root_directory(), with c the call made for it.
PointTo(c) ==
    /\ MainAt("input")
    /\ c \in Root \cup Child
    /\ IsNew(c)
    /\ latest' = c
    /\ entered' = None
    /\ Goto("cancel", c, "events")
    /\ UNCHANGED <<call_vars, owner_vars, cookie_vars, busy_count, dbus, event_vars,
                   broker_vars, entering>>

\* point_to_parent_link() asks in another way, which is not followed here.
PointToParent ==
    /\ MainAt("input")
    /\ latest' = None
    /\ entered' = None
    /\ Goto("cancel", None, "events")
    /\ UNCHANGED <<call_vars, owner_vars, cookie_vars, busy_count, dbus, event_vars,
                   broker_vars, entering>>

\* get_child_item_internal(), for the directory crawler.
GetChildItem(c) ==
    /\ MainAt("input")
    /\ c \in Blocking
    /\ IsNew(c)
    /\ Goto("request", c, "events")
    /\ UNCHANGED <<call_vars, owner_vars, cookie_vars, busy_count, dbus, event_vars,
                   broker_vars, list_vars>>

\* Where a navigation continues after the cancelation.
AfterCancel == Proceed(IF main.call = None THEN main.then ELSE "request")

CancelNothing ==
    /\ MainAt("cancel")
    /\ slot = None
    /\ AfterCancel
    /\ UNCHANGED <<call_vars, owner_vars, cookie_vars, busy_count, dbus, event_vars,
                   broker_vars, list_vars>>

\* abort_request() of a call that is over already or being aborted, or that
\* has no cookie (yet, or any more).
CancelLocally ==
    /\ MainAt("cancel")
    /\ slot # None
    /\ ~(state[slot] \in Active /\ has_cookie[slot])
    /\ was_aborted_after_done' =
          [was_aborted_after_done EXCEPT
             ![slot] = @ \/ state[slot] \in {"RESULT_FETCHED", "FAILED"}]
    /\ state' = [state EXCEPT ![slot] =
                   IF @ \in Active \cup {"INITIALIZED"} THEN "ABORTED_BY_LIST_BROKER" ELSE @]
    /\ delete_get_list_id
    /\ AfterCancel
    /\ UNCHANGED <<has_cookie, cleared, result, cookie_vars, busy_count, dbus,
                   event_vars, broker_vars, list_vars>>

\* abort_request() of an active call takes the cookie from it, and has the
\* list broker abort it, without holding the lock of the call.
CancelByCookie ==
    /\ MainAt("cancel")
    /\ slot # None
    /\ state[slot] \in Active
    /\ has_cookie[slot]
    /\ clear_cookie(slot)
    /\ Proceed("abort")
    /\ UNCHANGED <<state, was_aborted_after_done, result, owner_vars, cookie_vars, busy_count,
                   dbus, event_vars, broker_vars, list_vars>>

\* The list broker has replied.  If it aborted what it had not signalled yet,
\* then it signals an error.
AbortReply ==
    /\ MainAt("abort")
    /\ \/ /\ "aborted" \in Aborts
          /\ set_state(slot, "ABORTING")
          /\ broker' = [broker EXCEPT ![slot] = "signalled"]
          /\ signals' = IF broker[slot] = "pending"
                       THEN Append(signals, [call |-> slot, error |-> TRUE])
                       ELSE signals
       \/ "failed" \in Aborts /\ UNCHANGED <<state, broker_vars>>
    /\ delete_get_list_id
    /\ AfterCancel
    /\ UNCHANGED <<has_cookie, cleared, was_aborted_after_done, result, cookie_vars,
                   busy_count, dbus, event_vars, list_vars>>

(***************************************************************************)
(* Main thread: request().  From here to the reply the lock of the call    *)
(* and that of the pending cookies are held.                               *)
(***************************************************************************)
Request ==
    /\ MainAt("request")
    /\ LET c == main.call IN
         /\ set_state(c, "INITIALIZED")
         /\ IF c \in Blocking
            THEN UNCHANGED owner_vars
            ELSE slot' = c /\ zombies' = zombies \cup ({slot} \ {None})
         /\ broker' = [broker EXCEPT ![c] = "asked"]
    /\ busy_count' = busy_count + 1
    /\ Proceed("requesting")
    /\ UNCHANGED <<has_cookie, cleared, was_aborted_after_done, result, cookie_vars, dbus,
                   event_vars, signals, list_vars>>

\* The view keeps what is to be called when the cookie is available.
set_pending_cookie(c) ==
    /\ notification_functions' = notification_functions \cup {c}
    /\ fetch_functions' = fetch_functions \cup {c}

\* The reply is a cookie, to wait for.
RequestCookie ==
    /\ MainAt("requesting")
    /\ LET c == main.call IN
         /\ broker[c] \in {"pending", "signalled"}
         /\ has_cookie' = [has_cookie EXCEPT ![c] = TRUE]
         /\ set_pending_cookie(c)
         /\ set_state(c, "WAIT_FOR_NOTIFICATION")
         /\ IF c \in Blocking THEN Proceed("waiting") ELSE Goto(main.then, None, main.then)
    /\ UNCHANGED <<cleared, was_aborted_after_done, result, owner_vars, busy_count, dbus,
                   event_vars, broker_vars, list_vars>>

\* The reply is the result, the fast path.
RequestFastPath ==
    /\ MainAt("requesting")
    /\ LET c == main.call IN
         /\ broker[c] \in {"data", "refused"}
         /\ set_state(c, "RESULT_FETCHED")
         /\ result' = [result EXCEPT ![c] = broker[c]]
         /\ got_list_id(c, broker[c])
    /\ Proceed("drop")
    /\ UNCHANGED <<has_cookie, cleared, was_aborted_after_done, cookie_vars, dbus,
                   event_vars, broker_vars>>

\* There is no reply.  The caller of request() deletes the call.
RequestFailed ==
    /\ MainAt("requesting")
    /\ LET c == main.call IN
         /\ broker[c] = "exception"
         /\ set_state(c, "FAILED")
         /\ result' = [result EXCEPT ![c] = "exception"]
         /\ IF c = slot THEN delete_get_list_id ELSE UNCHANGED owner_vars
    /\ Proceed("drop")
    /\ UNCHANGED <<has_cookie, cleared, was_aborted_after_done, cookie_vars, busy_count, dbus,
                   event_vars, broker_vars, list_vars>>

\* fetch_blocking() has waited for the notification.
FetchBlocking ==
    /\ MainAt("waiting")
    /\ state[main.call] # "WAIT_FOR_NOTIFICATION"
    /\ Proceed("finish")
    /\ UNCHANGED <<call_vars, owner_vars, cookie_vars, busy_count, dbus, event_vars,
                   broker_vars, list_vars>>

(***************************************************************************)
(* Main thread: UI events.                                                 *)
(***************************************************************************)
process_pending_events ==
    /\ MainAt("idle")
    /\ triggers > 0
    /\ triggers' = triggers - 1
    /\ Goto("events", None, "events")
    /\ UNCHANGED <<call_vars, owner_vars, cookie_vars, busy_count, dbus, queue_,
                   broker_vars, list_vars>>

NoMoreEvents ==
    /\ MainAt("events")
    /\ queue_ = <<>>
    /\ Goto("idle", None, "idle")
    /\ UNCHANGED <<call_vars, owner_vars, cookie_vars, busy_count, dbus, event_vars,
                   broker_vars, list_vars>>

TakeUserEvent ==
    /\ MainAt("events")
    /\ queue_ # <<>>
    /\ Head(queue_) = User
    /\ queue_' = Tail(queue_)
    /\ Goto("input", None, "events")
    /\ UNCHANGED <<call_vars, owner_vars, cookie_vars, busy_count, dbus, triggers,
                   broker_vars, list_vars>>

\* data_cookies_available() or data_cookies_error(): finish the call whose
\* fetch function is stored with the cookie.
TakeCookieEvent ==
    /\ MainAt("events")
    /\ queue_ # <<>>
    /\ Head(queue_) # User
    /\ queue_' = Tail(queue_)
    /\ IF Head(queue_) \in fetch_functions
       THEN Goto("finish", Head(queue_), "events")
       ELSE UNCHANGED main
    /\ fetch_functions' = fetch_functions \ {Head(queue_)}
    /\ UNCHANGED <<call_vars, owner_vars, notification_functions, busy_count, dbus, triggers,
                   broker_vars, list_vars>>

\* fetch_unlocked() and, for calls with context data, the chained function.
\* Fetching by the invalid cookie never yields data.
FinishFetch ==
    /\ MainAt("finish")
    /\ LET c == main.call IN
         /\ state[c] = "READY_TO_FETCH"
         /\ \E r \in IF has_cookie[c] THEN Fetches ELSE Results \ {"data"} :
              /\ result' = [result EXCEPT ![c] = r]
              /\ set_state(c, IF r = "exception" THEN "FAILED" ELSE "RESULT_FETCHED")
              /\ got_list_id(c, r)
         /\ clear_cookie(c)
    /\ Proceed("drop")
    /\ UNCHANGED <<was_aborted_after_done, cookie_vars, dbus, event_vars, broker_vars>>

\* There is nothing to fetch.  A call which is still waiting for notification
\* throws, and its function is not called.
FinishDone ==
    /\ MainAt("finish")
    /\ LET c == main.call IN
         /\ state[c] # "READY_TO_FETCH"
         /\ IF state[c] = "WAIT_FOR_NOTIFICATION"
            THEN UNCHANGED <<owner_vars, busy_count, list_vars>>
            ELSE got_list_id(c, result[c])
    /\ Proceed("drop")
    /\ UNCHANGED <<call_vars, cookie_vars, dbus, event_vars, broker_vars>>

\* The last reference is dropped unless the call has other owners.
Drop ==
    /\ MainAt("drop")
    /\ IF Referenced(main.call) \/ main.call \in zombies
       THEN UNCHANGED <<call_vars, broker, busy_count>>
       ELSE destroy({main.call})
    /\ Goto(main.then, None, main.then)
    /\ UNCHANGED <<owner_vars, cookie_vars, dbus, event_vars, signals, list_vars>>

\* DeathRow::execute(), when the main loop is idle.
execute ==
    /\ MainAt("idle")
    /\ zombies # {}
    /\ zombies' = {}
    /\ destroy({c \in zombies : ~Referenced(c)})
    /\ UNCHANGED <<slot, cookie_vars, main, dbus, event_vars, signals, list_vars>>

\* The list is entered, or could not be entered: handle_enter_list_event().
\* Whatever call is in the slot is deleted without being aborted.  A child
\* that could not be entered makes the view go to the root.
handle_enter_list_event ==
    /\ MainAt("idle")
    /\ entering # None
    /\ delete_get_list_id
    /\ entering' = None
    /\ \/ /\ "succeeded" \in Entrances \/ entering \in Root
          /\ UNCHANGED <<main, latest, entered>>
       \/ /\ "failed" \in Entrances
          /\ entering \in Child
          /\ \E c \in Root :
               /\ state[c] = "NONE"
               /\ latest' = c
               /\ entered' = None
               /\ Goto("cancel", c, "idle")
    /\ UNCHANGED <<call_vars, cookie_vars, busy_count, dbus, event_vars, broker_vars>>

(***************************************************************************)
(* D-Bus thread.                                                           *)
(***************************************************************************)
\* A key is pressed; at most one such event is in the queue.
InputEvent ==
    /\ dbus.at = "idle"
    /\ triggers < MaxTriggers
    /\ \A i \in DOMAIN queue_ : queue_[i] # User
    /\ dbus' = [at |-> "post", call |-> User, error |-> FALSE]
    /\ UNCHANGED <<call_vars, owner_vars, cookie_vars, busy_count, main, event_vars,
                   broker_vars, list_vars>>

\* Mutant: the lock of the pending cookies is not held during the request.
available_unblocked ==
    /\ dbus.at = "idle"
    /\ signals # <<>>
    /\ LET s == Head(signals) IN
         /\ dbus' = IF s.call \in notification_functions
                    THEN [at |-> "notify", call |-> s.call, error |-> s.error]
                    ELSE [at |-> "post", call |-> s.call, error |-> FALSE]
         /\ notification_functions' = notification_functions \ {s.call}
    /\ signals' = Tail(signals)
    /\ UNCHANGED <<call_vars, owner_vars, fetch_functions, busy_count, main, event_vars,
                   broker, list_vars>>

\* PendingCookies::available(), which waits for the lock held by a request.
available ==
    /\ dbus.at = "idle"
    /\ signals # <<>>
    /\ ~MainAt("requesting")
    /\ LET s == Head(signals) IN
         /\ dbus' = IF s.call \in notification_functions
                    THEN [at |-> "notify", call |-> s.call, error |-> s.error]
                    ELSE [at |-> "post", call |-> s.call, error |-> FALSE]
         /\ notification_functions' = notification_functions \ {s.call}
    /\ signals' = Tail(signals)
    /\ UNCHANGED <<call_vars, owner_vars, fetch_functions, busy_count, main, event_vars,
                   broker, list_vars>>

\* CallBase::notification() accepts the notification if it is for the cookie
\* or the cleared cookie, in a call that waits for it.
Expected(c) ==
    /\ has_cookie[c] \/ cleared[c]
    /\ state[c] \in {"WAIT_FOR_NOTIFICATION", "ABORTING"}

notification ==
    /\ dbus.at = "notify"
    /\ IF Expected(dbus.call)
       THEN set_state(dbus.call, IF dbus.error THEN "ABORTED_BY_LIST_BROKER"
                                               ELSE "READY_TO_FETCH")
       ELSE UNCHANGED state
    /\ dbus' = [dbus EXCEPT !.at = "post", !.error = FALSE]
    /\ UNCHANGED <<has_cookie, cleared, was_aborted_after_done, result, owner_vars,
                   cookie_vars, busy_count, main, event_vars, broker_vars, list_vars>>

\* Mutant: whether to trigger is asked after the event is in the queue.
post_asks_late ==
    /\ dbus.at = "post"
    /\ queue_' = Append(queue_, dbus.call)
    /\ DBusGoto(IF queue_' = <<>> THEN "trigger" ELSE "idle")
    /\ UNCHANGED <<call_vars, owner_vars, cookie_vars, busy_count, main, triggers,
                   broker_vars, list_vars>>

\* EventQueue::post(): only the first event of a queue triggers processing.
post ==
    /\ dbus.at = "post"
    /\ queue_' = Append(queue_, dbus.call)
    /\ DBusGoto(IF queue_ = <<>> THEN "trigger" ELSE "idle")
    /\ UNCHANGED <<call_vars, owner_vars, cookie_vars, busy_count, main, triggers,
                   broker_vars, list_vars>>

trigger_processing ==
    /\ dbus.at = "trigger"
    /\ triggers' = triggers + 1
    /\ DBusGoto("idle")
    /\ UNCHANGED <<call_vars, owner_vars, cookie_vars, busy_count, main, queue_,
                   broker_vars, list_vars>>

(***************************************************************************)
(* The list broker, another process.                                       *)
(***************************************************************************)
BrokerReplies(c) ==
    /\ broker[c] = "asked"
    /\ \E r \in Replies :
         broker' = [broker EXCEPT ![c] = IF r = "cookie" THEN "pending" ELSE r]
    /\ UNCHANGED <<call_vars, owner_vars, cookie_vars, busy_count, main, dbus, event_vars,
                   signals, list_vars>>

BrokerSignals(c) ==
    /\ broker[c] = "pending"
    /\ broker' = [broker EXCEPT ![c] = "signalled"]
    /\ \E s \in Signals :
         signals' = Append(signals, [call |-> c, error |-> s = "error"])
    /\ UNCHANGED <<call_vars, owner_vars, cookie_vars, busy_count, main, dbus, event_vars,
                   list_vars>>

(***************************************************************************)
(* The specification                                                       *)
(***************************************************************************)
Init ==
    /\ state = [c \in Calls |-> "NONE"]
    /\ has_cookie = [c \in Calls |-> FALSE]
    /\ cleared = [c \in Calls |-> FALSE]
    /\ was_aborted_after_done = [c \in Calls |-> FALSE]
    /\ result = [c \in Calls |-> None]
    /\ slot = None
    /\ zombies = {}
    /\ notification_functions = {}
    /\ fetch_functions = {}
    /\ busy_count = 0
    /\ main = [at |-> "idle", call |-> None, then |-> "idle"]
    /\ dbus = [at |-> "idle", call |-> None, error |-> FALSE]
    /\ queue_ = <<>>
    /\ triggers = 0
    /\ broker = [c \in Calls |-> "none"]
    /\ signals = <<>>
    /\ entering = None
    /\ latest = None
    /\ entered = None

Navigate == PointToParent \/ \E c \in Calls : PointTo(c) \/ GetChildItem(c)

\* What the main thread goes through with once it has begun.
MainStep ==
    \/ Navigate
    \/ CancelNothing \/ CancelLocally \/ CancelByCookie \/ AbortReply
    \/ Request \/ RequestCookie \/ RequestFastPath \/ RequestFailed \/ FetchBlocking
    \/ NoMoreEvents \/ TakeUserEvent \/ TakeCookieEvent
    \/ FinishFetch \/ FinishDone \/ Drop

\* What the main loop calls.
MainLoop == process_pending_events \/ execute \/ handle_enter_list_event

DBusStep == notification \/ post \/ trigger_processing

Broker == \E c \in Calls : BrokerReplies(c) \/ BrokerSignals(c)

Next == MainStep \/ MainLoop \/ InputEvent \/ available \/ DBusStep \/ Broker

Spec == Init /\ [][Next]_vars

\* Both threads run, the main loop serves its sources in turn, the lock of
\* the pending cookies is not withheld forever, and the list broker answers.
FairSpec ==
    /\ Spec
    /\ WF_vars(MainStep)
    /\ SF_vars(process_pending_events)
    /\ SF_vars(execute)
    /\ SF_vars(handle_enter_list_event)
    /\ SF_vars(available)
    /\ WF_vars(DBusStep)
    /\ \A c \in Calls : WF_vars(BrokerReplies(c)) /\ WF_vars(BrokerSignals(c))

(***************************************************************************)
(* Properties                                                              *)
(***************************************************************************)
TypeOK ==
    /\ state \in [Calls -> CallStates \cup {"NONE"}]
    /\ has_cookie \in [Calls -> BOOLEAN]
    /\ cleared \in [Calls -> BOOLEAN]
    /\ was_aborted_after_done \in [Calls -> BOOLEAN]
    /\ result \in [Calls -> Results \cup {None}]
    /\ slot \in Root \cup Child \cup {None}
    /\ zombies \subseteq Root \cup Child
    /\ notification_functions \subseteq Calls
    /\ fetch_functions \subseteq Calls
    /\ busy_count \in Nat
    /\ main \in [at : Places, call : Calls \cup {None}, then : {"idle", "events"}]
    /\ dbus \in [at : {"idle", "notify", "post", "trigger"},
                 call : Calls \cup {User, None}, error : BOOLEAN]
    /\ queue_ \in Seq(Calls \cup {User})
    /\ triggers \in Nat
    /\ broker \in [Calls -> {"none", "asked", "pending", "signalled"} \cup Results]
    /\ signals \in Seq([call : Calls, error : BOOLEAN])
    /\ entering \in Root \cup Child \cup {None}
    /\ latest \in Root \cup Child \cup {None}
    /\ entered \in Root \cup Child \cup {None}

\* A call that waits for its notification can still be notified, and one that
\* waits to be fetched can still be fetched, also if the signal overtakes the
\* reply to the request: what block_async_result_notifications() is for.
CanBeNotified(c) ==
    \/ c \in notification_functions
    \/ dbus.at = "notify" /\ dbus.call = c
CanBeFetched(c) ==
    \/ c \in fetch_functions
    \/ MainAt("finish") /\ main.call = c
WaitingIsReachable ==
    \A c \in Calls :
        /\ state[c] = "WAIT_FOR_NOTIFICATION" => CanBeNotified(c)
        /\ state[c] \in Active => CanBeFetched(c)

\* Every notification is for a call that waits for it, with a cookie it knows:
\* notification() never complains, whatever a concurrent abort_request() does.
NotificationExpected == dbus.at = "notify" => Expected(dbus.call)

\* UI events are never left in the queue with nobody told to process them,
\* although EventQueue::post() triggers after it has released its lock.
NoLostWakeup ==
    queue_ # <<>> =>
        \/ triggers > 0
        \/ dbus.at = "trigger"
        \/ main.then = "events"

\* ~CallBase() never finds a call waiting or ready ("Destroying RNF call with
\* active cookie").
NeverDestroyedActive ==
    [][\A c \in Calls : state'[c] = "NONE" => state[c] \notin Active]_vars

\* A list is entered only for the call made last: an answer that arrives after
\* the user went elsewhere changes nothing.
LastWins == [][entered' # entered /\ entered' # None => entered' = latest']_vars

\* What is fetched belongs to the cookie returned for the request.
FetchesByCookie ==
    \A c \in Calls : MainAt("finish") /\ main.call = c /\ state[c] = "READY_TO_FETCH"
                        => has_cookie[c]

\* Waiting calls can be told and fetched, and what they are told reaches them.
CallsAreNotified == TypeOK /\ WaitingIsReachable /\ NotificationExpected /\ NoLostWakeup

\* When nothing is under way in any process, the device is not busy.
AtRest ==
    /\ main.at = "idle" /\ dbus.at = "idle"
    /\ queue_ = <<>> /\ triggers = 0 /\ zombies = {} /\ signals = <<>>
    /\ entering = None /\ fetch_functions = {}
NotBusyAtRest == AtRest => busy_count = 0

\* Each set() of the busy flag is taken back by the destruction of its call at the latest,
\* and no call is forgotten: when nothing is under way in any process, none is left that
\* could hold the flag.  Except in one case: a call to the root the list broker has failed
\* stays in its slot, and busy, until the next one takes its place.
BusyForCalls ==
    /\ busy_count <= Cardinality({c \in Calls : state[c] # "NONE"})
    /\ AtRest => \A c \in Calls : state[c] # "NONE" => c \in Root /\ state[c] \notin Active

\* Once the user leaves the keys alone, each call ends and is destroyed, with
\* the busy flag it holds, be it for a list or an item.
QuietUser == <>[](dbus.call # User /\ ~MainAt("input")
                    /\ \A i \in DOMAIN queue_ : queue_[i] # User)
EveryCallEnds == QuietUser => \A c \in Child \cup Blocking : []<>(state[c] = "NONE")

=============================================================================
