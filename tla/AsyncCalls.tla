------------------------------ MODULE AsyncCalls ------------------------------
(***************************************************************************)
(* Asynchronous D-Bus calls: DBus::AsyncCall, the pool that keeps them     *)
(* alive for GLib, and the busy state they set.  A file browser view asks  *)
(* for the parent of a list and for the root of a context by such calls,   *)
(* each kind in a slot of its own; whoever makes a call cancels those      *)
(* which are still in the slots.  The root of a context is asked for when  *)
(* a jump to the context begins; if the view is jumping there already, the *)
(* call is put in its slot, but never made.                                *)
(*                                                                         *)
(* Everything here runs in the main thread.  A call is a member of Calls;  *)
(* after its destruction the name is free for a new object.  (The queries  *)
(* of DBusList use the same class without canceling them synchronously.)   *)
(***************************************************************************)
EXTENDS Naturals, FiniteSets

CONSTANTS
    AsyncCallNames,     \* names of call objects
    NoCall,
    MaxBusyCount        \* std::numeric_limits<unsigned short>::max()

\* The slots of ViewFileBrowser::View::AsyncCalls, named after their busy sources.
ParentLink == "GETTING_PARENT_LINK"
ContextRoot == "GETTING_LIST_CONTEXT_ROOT_LINK"
Sources == {ParentLink, ContextRoot}
Appliance == "WAITING_FOR_APPLIANCE_AUDIO"  \* Busy::DirectSource
AsyncResults == {"INITIALIZED", "IN_PROGRESS", "READY", "DONE", "CANCELING_DIRECTLY",
                 "CANCELED", "FAILED"}

ASSUME AsyncAssumption ==
    /\ IsFiniteSet(AsyncCallNames) /\ NoCall \notin AsyncCallNames \cup Sources
    /\ MaxBusyCount \in Nat \ {0}

VARIABLES
    async,          \* the calls
    slots,          \* get_parent_id_ and get_context_root_
    pool,           \* AsyncCallPool: active_queries
    busy,           \* GlobalBusyState
    jump,           \* context_jump_: its state; BrowserNavigation has the steps of a jump
    patient         \* bound: whether the user waits for GLib to let go of earlier calls

async_vars == <<async, slots, pool, busy, jump, patient>>

\* "ENTERING" stands for the three states after GET_CONTEXT_PARENT_ID.
JumpStates == {"NOT_JUMPING", "GET_CONTEXT_PARENT_ID", "ENTERING"}

(***************************************************************************)
(* Busy state: flags, and counters for those sources which have them.      *)
(***************************************************************************)
\* The callback is called when the busy state differs from the one notified last.
notify_if_necessary(b) ==
    IF b.last_notified = (b.flags # {}) THEN b
    ELSE [b EXCEPT !.last_notified = ~@, !.told = ~b.last_notified]

BusySet(b, s) ==
    notify_if_necessary(
        [b EXCEPT !.flags = @ \cup {s},
                  !.counts[s] = IF @ < MaxBusyCount THEN @ + 1 ELSE @])

\* Mutant: the flag is cleared with the first call that ends, whatever the counter says.
BusyClear_always(b, s) ==
    notify_if_necessary(
        [b EXCEPT !.counts[s] = IF @ > 0 THEN @ - 1 ELSE 0, !.flags = @ \ {s}])

BusyClear(b, s) ==
    notify_if_necessary(
        [b EXCEPT !.counts[s] = IF @ > 0 THEN @ - 1 ELSE 0,
                  !.flags = IF b.counts[s] <= 1 THEN @ \ {s} ELSE @])

set_direct(b) == notify_if_necessary([b EXCEPT !.flags = @ \cup {Appliance}])
clear_direct(b) == notify_if_necessary([b EXCEPT !.flags = @ \ {Appliance}])

\* Busy::init(): the callback is called once with the state as it is, in any case.
BusyInit ==
    [flags |-> {}, counts |-> [s \in Sources |-> 0], last_notified |-> FALSE, told |-> FALSE]

-----------------------------------------------------------------------------
(* Calls.                                                                  *)

NoObject == [source |-> NoCall, state |-> "INITIALIZED", cancelled |-> FALSE,
             reported |-> FALSE, in_glib |-> FALSE]

AsyncInit ==
    /\ async = [c \in AsyncCallNames |-> NoObject]
    /\ slots = [s \in Sources |-> NoCall]
    /\ pool = {}
    /\ busy = BusyInit
    /\ jump = "NOT_JUMPING"
    /\ patient \in BOOLEAN

is_active(call) == call.state # "INITIALIZED"
is_success(result) == result \in {"READY", "DONE"}

Referenced_by(c, refs, registered) == c \in registered \/ \E s \in Sources : refs[s] = c
IsFreeName(c) == async[c].source = NoCall

\* Objects nobody refers to are deleted.  GLib's pointer is not a reference.
Deleted(calls, refs, registered) ==
    [c \in AsyncCallNames |->
        IF Referenced_by(c, refs, registered) THEN calls[c]
        ELSE IF calls[c].in_glib THEN [NoObject EXCEPT !.in_glib = TRUE]
        ELSE NoObject]

(***************************************************************************)
(* A record W of everything a step of the main thread changes in sequence. *)
(***************************************************************************)
World == [async |-> async, slots |-> slots, pool |-> pool, busy |-> busy, jump |-> jump]

Become(w) ==
    /\ async' = Deleted(w.async, w.slots, w.pool)
    /\ slots' = w.slots /\ pool' = w.pool /\ busy' = w.busy /\ jump' = w.jump

\* wait_for_result() for a call GLib has called back for: the result is there.
wait_for_result(w, c) ==
    IF w.async[c].state = "READY" THEN [w EXCEPT !.async[c].state = "DONE"] ELSE w

\* point_to_parent_link__got_parent_link(): a link to the parent stays in its slot until the
\* next call.
got_parent_link(w, c, valid) ==
    LET u == wait_for_result(w, c)
    IN  IF is_success(u.async[c].state) /\ valid THEN u
        ELSE [u EXCEPT !.slots[ParentLink] = NoCall]

\* point_to_list_context_root__got_parent_link(): the slot is cleared, and the jump goes on to
\* enter the list, or is over.
got_context_root(w, c, valid) ==
    LET u == wait_for_result(w, c)
    IN  [u EXCEPT !.slots[ContextRoot] = NoCall,
                  !.jump = IF is_success(u.async[c].state) /\ valid THEN "ENTERING"
                           ELSE "NOT_JUMPING"]

\* The view ignores calls which are not in the slot any more.
result_available(w, c, valid) ==
    IF w.slots[w.async[c].source] # c THEN w
    ELSE IF w.async[c].source = ParentLink THEN got_parent_link(w, c, valid)
    ELSE got_context_root(w, c, valid)

\* A result is reported once, even if the call is canceled first, and called back later.
report(w, c, valid) ==
    IF w.async[c].reported THEN w
    ELSE result_available([w EXCEPT !.async[c].reported = TRUE], c, valid)

\* ready_locked(): a canceled call has no result, whatever GLib has got.
ready_locked(w, c, result, valid) ==
    report([w EXCEPT !.async[c].state = IF w.async[c].cancelled THEN "CANCELED" ELSE result],
           c, valid)

\* ready() on behalf of GLib lets go of the call, ...
unregister_call(w, c) == [w EXCEPT !.pool = @ \ {c}, !.async[c].in_glib = FALSE]
\* Mutant: a call that is canceled is forgotten at once.
ready_directly_unregisters(w, c) ==
    LET u == ready_locked([w EXCEPT !.async[c].state = "CANCELING_DIRECTLY"], c, "CANCELED", FALSE)
    IN  [u EXCEPT !.busy = BusyClear(@, w.async[c].source), !.pool = @ \ {c}]
\* ... but on behalf of cancel_and_delete() it does not: GLib has not called back yet.  The
\* busy state is cleared in both cases.
ready_directly(w, c) ==
    LET u == ready_locked([w EXCEPT !.async[c].state = "CANCELING_DIRECTLY"], c, "CANCELED", FALSE)
    IN  [u EXCEPT !.busy = BusyClear(@, w.async[c].source)]

do_cancel(w, c) == [w EXCEPT !.async[c].cancelled = TRUE]

\* It expects the call to have been made, and takes one that has not like one under way.
cancel_and_delete(w, s) ==
    LET c == w.slots[s]
        u == do_cancel(w, c)
    IN  IF c = NoCall THEN w
        ELSE [(IF w.async[c].state = "DONE" THEN u ELSE ready_directly(u, c))
                 EXCEPT !.slots[s] = NoCall]

cancel_and_delete_all(w) == cancel_and_delete(cancel_and_delete(w, ParentLink), ContextRoot)

make_shared(w, c, s) ==
    [w EXCEPT !.async[c] = [NoObject EXCEPT !.source = s], !.slots[s] = c]

\* invoke(): the pool has a reference until GLib calls back.
invoke(w, c, s) ==
    [w EXCEPT !.async[c].state = "IN_PROGRESS", !.async[c].reported = FALSE,
              !.async[c].in_glib = TRUE, !.pool = @ \cup {c}, !.busy = BusySet(@, s)]

point_to_parent_link(w, c) ==
    invoke(make_shared(cancel_and_delete_all(w), c, ParentLink), c, ParentLink)

\* do_point_to_context_root_directory(): the new call is in its slot before anybody looks
\* whether there is a jump.  A jump that is in the same context goes on, and the call stays; one
\* to another context is a reason to give up.
do_point_to_context_root_directory(w, c, same) ==
    LET u == cancel_and_delete_all(w)
        v == make_shared(u, c, ContextRoot)
    IN  IF u.jump = "NOT_JUMPING"
        THEN [invoke(v, c, ContextRoot) EXCEPT !.jump = "GET_CONTEXT_PARENT_ID"]
        ELSE IF same THEN v ELSE u

-----------------------------------------------------------------------------
(* Actions.                                                                *)

InGLib(s) == {c \in AsyncCallNames : async[c].in_glib /\ async[c].source = s}

PointToParentLink ==
    /\ patient => InGLib(ParentLink) = {}
    /\ \E c \in AsyncCallNames :
          /\ IsFreeName(c) /\ ~async[c].in_glib
          /\ Become(point_to_parent_link(World, c))
    /\ UNCHANGED patient

\* point_to_root_directory(), with a restriction to some context, be it that of a jump or not.
PointToContextRoot(same) ==
    /\ patient => InGLib(ContextRoot) = {}
    /\ \E c \in AsyncCallNames :
          /\ IsFreeName(c) /\ ~async[c].in_glib
          /\ Become(do_point_to_context_root_directory(World, c, same))
    /\ UNCHANGED patient

\* The list of the context is entered, or cannot be.
JumpEnds ==
    /\ jump = "ENTERING"
    /\ jump' = "NOT_JUMPING"
    /\ UNCHANGED <<async, slots, pool, busy, patient>>

\* The user goes somewhere else, or the view is left.
CancelAll ==
    /\ Become(cancel_and_delete_all(World))
    /\ UNCHANGED patient

\* delete_all(), when a list has been entered: the link to the parent is dropped.
DeleteAll ==
    /\ Become([World EXCEPT !.slots[ParentLink] = NoCall])
    /\ UNCHANGED patient

\* async_ready_trampoline(): the list broker has replied, or does not; a reply may say that
\* there is no such list.
GLibReady(c, result, valid) ==
    /\ async[c].in_glib
    /\ LET u == unregister_call(ready_locked(World, c, result, valid), c)
       IN  Become([u EXCEPT !.busy = BusyClear(@, async[c].source)])
    /\ UNCHANGED patient

\* The player waits for the audio path, or does not any more.
ApplianceBusy(is_busy) ==
    /\ busy' = IF is_busy THEN set_direct(busy) ELSE clear_direct(busy)
    /\ UNCHANGED <<async, slots, pool, jump, patient>>

AsyncNext ==
    \/ PointToParentLink
    \/ \E same \in BOOLEAN : PointToContextRoot(same)
    \/ CancelAll \/ DeleteAll \/ JumpEnds
    \/ \E c \in AsyncCallNames :
          \/ \E valid \in BOOLEAN : GLibReady(c, "READY", valid)
          \/ GLibReady(c, "FAILED", FALSE)
    \/ \E b \in BOOLEAN : ApplianceBusy(b)

-----------------------------------------------------------------------------
(* Properties.                                                             *)

\* GLib's pointers are to objects which exist, the calls in the slots are waiting for an
\* answer, or have a valid one, or are for the root of a context and have never been made; a
\* call is reported before GLib calls back only if it was canceled.  A jump is at its first
\* step just while there is a call whose answer takes it further.
CallsAreKept ==
    /\ \A c \in AsyncCallNames : async[c].in_glib <=> c \in pool
    /\ \A s \in Sources : slots[s] # NoCall =>
          LET call == async[slots[s]]
          IN  /\ call.source = s /\ ~call.cancelled
              /\ \/ call.state = "IN_PROGRESS" /\ call.in_glib /\ ~call.reported
                 \/ call.state = "DONE" /\ s = ParentLink
                 \/ ~is_active(call) /\ ~call.in_glib /\ s = ContextRoot
    /\ \A c \in AsyncCallNames :
          async[c].reported /\ async[c].in_glib => async[c].state = "CANCELED"
    /\ jump = "GET_CONTEXT_PARENT_ID" <=>
          slots[ContextRoot] # NoCall /\ async[slots[ContextRoot]].state = "IN_PROGRESS"

\* What cancel() and wait_for_result() assert of the call in a slot.
CallsAreMade == \A s \in Sources : slots[s] # NoCall => is_active(async[slots[s]])

\* The views are busy as long as an answer is waited for, and not longer than GLib keeps
\* calls; a user who does not wait for GLib, however, may see the busy state end early, when
\* GLib calls back for the call that was canceled.
BusyWhileWaiting ==
    /\ busy.told = (busy.flags # {})
    /\ \A s \in Sources :
          /\ busy.counts[s] <= Cardinality(InGLib(s))
          /\ s \in busy.flags <=> busy.counts[s] > 0
          /\ patient /\ slots[s] # NoCall /\ async[slots[s]].state = "IN_PROGRESS" =>
                s \in busy.flags
=============================================================================
