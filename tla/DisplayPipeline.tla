-------------------------- MODULE DisplayPipeline --------------------------
(***************************************************************************)
(* The path of a screen update from a view to dcpd: the view's             *)
(* do_serialize(), DCP::Queue, DCP::Transaction, the answer timeout and    *)
(* the deferred calls of the main loop, with the two threads that enter    *)
(* them.                                                                   *)
(*                                                                         *)
(* "main" is the GLib main loop.  It runs deferred calls, reads dcpd's     *)
(* answers, fires the timeout, and lets views ask for updates.  "dbus" is  *)
(* the D-Bus I/O thread, which serializes the active view by itself when   *)
(* the language setting is written over D-Bus.                             *)
(*                                                                         *)
(* A step is a lock-delimited section of the code.  process() holds        *)
(* active_.lock_ over its whole loop (pc "loop" while a refused entry has  *)
(* just been dropped); everything else holds it for a single step.         *)
(***************************************************************************)
EXTENDS DCPTransaction, Integers, Sequences

CONSTANTS
    Views,           \* all views known to the view manager
    Browsers,        \* list views: always updated in full, may load or refuse
    Unconditional,   \* views serialized even while not active (play, search)
    Silent,          \* views that never serialize themselves (inactive, no-op)
    Flags,           \* view-specific update flags
    SourceIds,       \* GLib event source IDs the timeout timer may be given
    Answers,         \* what dcpd answers: a subset of DcpdResults
    Dcpd,            \* "punctual", "silent" or "late" dcpd
    LanguageChanges, \* whether the D-Bus thread may switch the language
    RacingTimeouts,  \* whether it may do so while a timeout is armed
    MaxUnanswered,   \* messages dcpd remembers before it forgets the rest
    MaxDeferred,     \* deferred calls after which the environment waits
    None             \* no active_.data_, no view

DcpdResults == {"OK", "FAILED", "INVALID_ANSWER", "IO_ERROR"}
Results     == DcpdResults \cup {"TIMEOUT"}
Threads     == {"main", "dbus"}
MaybeBusy   == {"unknown", "yes", "no"}
Modes       == {"SYNC_IF_POSSIBLE", "FORCE_ASYNC"}
Data        == [view : Views, full : BOOLEAN, flags : SUBSET Flags, busy : MaybeBusy]

(* What a thread is about: the arguments of do_serialize() or, for the     *)
(* main thread, of serialization_result(), and what it goes on with once   *)
(* start_transaction() or process() has returned.                          *)
Jobs == [view : Views \cup {None}, full : BOOLEAN, busy : MaybeBusy, mode : Modes,
         then : {"idle", "end", "rearm"}, result : Results]
PCs  == {"idle", "check", "begin", "add", "reset", "start", "process", "loop",
         "end", "finish", "rearm", "aborted"}

ASSUME ViewsAssumption ==
    /\ Views # {}
    /\ Browsers \cup Unconditional \cup Silent \subseteq Views
    /\ Browsers \cap Unconditional = {}
    /\ (Browsers \cup Unconditional) \cap Silent = {}
ASSUME NoneAssumption == None \notin Data \cup Views
ASSUME SourceIdsAssumption == SourceIds \subseteq Nat \ {0}
ASSUME DcpdAssumption ==
    /\ Answers \subseteq DcpdResults
    /\ Dcpd \in {"punctual", "silent", "late"}
    /\ LanguageChanges \in BOOLEAN
    /\ RacingTimeouts \in BOOLEAN
    /\ MaxUnanswered \in Nat \ {0}
    /\ MaxDeferred \in Nat \ {0}

VARIABLES
    active_view,    \* ViewManager::Manager::active_view_
    update_flags,   \* per view: update_flags_
    serializing,    \* per view: is_serializing_
    q,              \* DCP::Queue::q_.data_
    tx,             \* state of active_.dcpd_
    data,           \* active_.data_
    timer_id,       \* Timer::timeout_event_source_id_
    live,           \* timeout sources attached to the main context
    deferred,       \* number of scheduled process_pending_transactions() calls
    pc, job,        \* per thread: where it is, and what it is about
    fired,          \* the timeout source being dispatched, 0 if none
    unanswered,     \* messages dcpd has yet to answer
    answers,        \* answers in dcpd's FIFO
    busy,           \* Busy::is_busy()
    sent_busy,      \* ghost: last busy value written to dcpd
    lost_busy,      \* ghost: latest busy notification never made it to dcpd
    owed            \* ghost, per view: flags raised, but not yet written out

view_vars   == <<active_view, update_flags, serializing>>
queue_vars  == <<q, tx, data>>
timer_vars  == <<timer_id, live, fired>>
thread_vars == <<pc, job>>
dcpd_vars   == <<unanswered, answers>>
busy_vars   == <<busy, sent_busy, lost_busy>>
vars == <<view_vars, queue_vars, timer_vars, deferred, thread_vars, dcpd_vars,
          busy_vars, owed>>

(***************************************************************************)
(* Helpers                                                                 *)
(***************************************************************************)
QueuedViews(qq) == {qq[i].view : i \in DOMAIN qq}

(* Mutants: flags are overwritten; the busy flag of the first call is kept. *)
merge_overwrites_flags(d, full, fl, b) ==
    [d EXCEPT !.full = @ \/ full, !.flags = fl, !.busy = IF b = "unknown" THEN @ ELSE b]

merge_keeps_busy(d, full, fl, b) == [d EXCEPT !.full = @ \/ full, !.flags = @ \cup fl]

(* The entry add() leaves behind where there was entry d already.          *)
merge(d, full, fl, b) ==
    [d EXCEPT !.full  = @ \/ full,
              !.flags = @ \cup fl,
              !.busy  = IF b = "unknown" THEN @ ELSE b]

(* Mutants: entries are not coalesced; new entries jump the queue.         *)
add_appends(qq, v, full, fl, b) ==
    Append(qq, [view |-> v, full |-> full, flags |-> fl, busy |-> b])

add_prepends(qq, v, full, fl, b) ==
    IF v \in QueuedViews(qq)
    THEN [i \in DOMAIN qq |-> IF qq[i].view = v THEN merge(qq[i], full, fl, b) ELSE qq[i]]
    ELSE <<[view |-> v, full |-> full, flags |-> fl, busy |-> b]>> \o qq

add(qq, v, full, fl, b) ==
    IF v \in QueuedViews(qq)
    THEN [i \in DOMAIN qq |-> IF qq[i].view = v THEN merge(qq[i], full, fl, b)
                                                ELSE qq[i]]
    ELSE Append(qq, [view |-> v, full |-> full, flags |-> fl, busy |-> b])

is_serialization_allowed(v) == v \in Unconditional \/ v = active_view

(* A list view may refuse to be written at any time, because its list is   *)
(* locked by other code; any view refuses what it is not allowed.          *)
may_refuse(v) == v \in Browsers \/ ~is_serialization_allowed(v)

(* write_xml() of a list view may find that the items are not there, and   *)
(* start loading them.  It says so by setting busy_state_triggered.        *)
may_trigger_busy_state(v) == v \in Browsers

(* Timeout::Timer::start(); a timer that runs already is left alone.       *)
timer_start ==
    IF timer_id # 0
    THEN UNCHANGED <<timer_id, live>>
    ELSE \E s \in SourceIds \ (live \cup {fired}) : timer_id' = s /\ live' = live \cup {s}

(* Mutant: the source is removed, but its ID is kept.                      *)
timer_stop_keeps_id == UNCHANGED timer_id /\ live' = live \ {timer_id}

(* Timeout::Timer::stop()                                                  *)
timer_stop == timer_id' = 0 /\ live' = live \ {timer_id}

(* Mutants: nothing is scheduled for a deferred start; no timeout is armed.*)
transaction_observer_unscheduled(st) ==
    \/ st = IDLE            /\ timer_stop  /\ UNCHANGED deferred
    \/ st = STARTED_ASYNC   /\ UNCHANGED <<timer_id, live, deferred>>
    \/ st = WAIT_FOR_ANSWER /\ timer_start /\ UNCHANGED deferred

transaction_observer_unarmed(st) ==
    \/ st = IDLE            /\ timer_stop /\ UNCHANGED deferred
    \/ st = STARTED_ASYNC   /\ deferred' = deferred + 1 /\ UNCHANGED <<timer_id, live>>
    \/ st = WAIT_FOR_ANSWER /\ UNCHANGED <<timer_id, live, deferred>>

(* transaction_observer(), called for a transaction that moves to st.      *)
transaction_observer(st) ==
    \/ st = IDLE            /\ timer_stop  /\ UNCHANGED deferred
    \/ st = STARTED_ASYNC   /\ deferred' = deferred + 1 /\ UNCHANGED <<timer_id, live>>
    \/ st = WAIT_FOR_ANSWER /\ timer_start /\ UNCHANGED deferred

(* The busy state dcpd knows of after append_busy_value(): the flag of the *)
(* entry, or "yes" if writing the view has triggered something (loads) and *)
(* the entry does not say "yes" already.                                   *)
append_busy_value(flag, loads) ==
    IF loads THEN (IF flag = "yes" THEN sent_busy ELSE "yes")
             ELSE (IF flag = "unknown" THEN sent_busy ELSE flag)

(***************************************************************************)
(* Threads                                                                 *)
(***************************************************************************)
NoJob == [view |-> None, full |-> FALSE, busy |-> "unknown",
          mode |-> "SYNC_IF_POSSIBLE", then |-> "idle", result |-> "OK"]

(* A failed assertion ends the process, with all its threads.              *)
Alive == pc["main"] # "aborted"

At(t, where) == Alive /\ pc[t] = where

Idle(t) == At(t, "idle")

InProcess(t) == At(t, "process") \/ At(t, "loop")

Goto(t, where) == pc' = [pc EXCEPT ![t] = where] /\ UNCHANGED job

Call(t, where, j) ==
    /\ pc' = [pc EXCEPT ![t] = where]
    /\ job' = [job EXCEPT ![t] = j]

(* Back to the code that made thread t do its job.                         *)
Return(t) == Call(t, job[t].then, IF job[t].then = "end" THEN job[t] ELSE NoJob)

(* Nobody but thread t is inside a section guarded by active_.lock_.       *)
LockFree(t) == \A u \in Threads \ {t} : pc[u] # "loop"

(***************************************************************************)
(* do_serialize(), step by step                                            *)
(***************************************************************************)
do_serialize(t, v, full, b, mode) ==
    Call(t, "check", [view |-> v, full |-> full, busy |-> b, mode |-> mode,
                      then |-> "end", result |-> "OK"])

(* serialize() and update() of a view; those of a silent view are empty.   *)
serialize(t, v, mode) ==
    IF v \in Silent THEN UNCHANGED thread_vars
                    ELSE do_serialize(t, v, TRUE, "unknown", mode)

update(t, v, b, mode) ==
    IF v \in Silent THEN UNCHANGED thread_vars
                    ELSE do_serialize(t, v, v \in Browsers, b, mode)

CheckSerializing(t) ==
    /\ At(t, "check")
    /\ IF serializing[job[t].view]
       THEN /\ Call(t, "idle", NoJob)
            /\ lost_busy' = (lost_busy \/ job[t].busy # "unknown")
       ELSE Goto(t, "begin") /\ UNCHANGED lost_busy
    /\ UNCHANGED <<view_vars, queue_vars, timer_vars, deferred, dcpd_vars, busy,
                   sent_busy, owed>>

SerializeBegin(t) ==
    /\ At(t, "begin")
    /\ serializing' = [serializing EXCEPT ![job[t].view] = TRUE]
    /\ Goto(t, "add")
    /\ UNCHANGED <<active_view, update_flags, queue_vars, timer_vars, deferred,
                   dcpd_vars, busy_vars, owed>>

Add(t) ==
    /\ At(t, "add")
    /\ LET j == job[t] IN
       /\ q' = add(q, j.view, j.full, update_flags[j.view], j.busy)
       /\ lost_busy' = (lost_busy /\ j.busy = "unknown")
    /\ Goto(t, "reset")
    /\ UNCHANGED <<view_vars, tx, data, timer_vars, deferred, dcpd_vars, busy,
                   sent_busy, owed>>

ResetFlags(t) ==
    /\ At(t, "reset")
    /\ update_flags' = [update_flags EXCEPT ![job[t].view] = {}]
    /\ Goto(t, "start")
    /\ UNCHANGED <<active_view, serializing, queue_vars, timer_vars, deferred,
                   dcpd_vars, busy_vars, owed>>

SerializeEnd(t) ==
    /\ At(t, "end")
    /\ serializing' = [serializing EXCEPT ![job[t].view] = FALSE]
    /\ Call(t, "idle", NoJob)
    /\ UNCHANGED <<active_view, update_flags, queue_vars, timer_vars, deferred,
                   dcpd_vars, busy_vars, owed>>

(***************************************************************************)
(* DCP::Queue::start_transaction() and process_pending_transactions()      *)
(***************************************************************************)
(* Mutant: nobody starts a transaction unless it is to be deferred.        *)
StartTransaction_lazy(t) ==
    /\ At(t, "start")
    /\ LockFree(t)
    /\ IF q = <<>> \/ is_in_progress(tx) \/ job[t].mode = "SYNC_IF_POSSIBLE"
       THEN UNCHANGED <<tx, timer_id, live, deferred>>
       ELSE tx' = start_async(tx) /\ transaction_observer(tx')
    /\ Return(t)
    /\ UNCHANGED <<view_vars, q, data, fired, dcpd_vars, busy_vars, owed>>

StartTransaction(t) ==
    /\ At(t, "start")
    /\ LockFree(t)
    /\ \/ /\ q = <<>> \/ is_in_progress(tx)
          /\ Return(t)
          /\ UNCHANGED <<tx, timer_vars, deferred>>
       \/ /\ q # <<>> /\ ~is_in_progress(tx) /\ job[t].mode = "FORCE_ASYNC"
          /\ tx' = start_async(tx)
          /\ transaction_observer(tx')
          /\ Return(t)
          /\ UNCHANGED fired
       \/ /\ q # <<>> /\ ~is_in_progress(tx) /\ job[t].mode = "SYNC_IF_POSSIBLE"
          /\ Goto(t, "process")
          /\ UNCHANGED <<tx, timer_vars, deferred>>
    /\ UNCHANGED <<view_vars, q, data, dcpd_vars, busy_vars, owed>>

(* process() finds nothing to do, or a transaction that occupies the link. *)
ProcessNothing(t) ==
    /\ InProcess(t)
    /\ LockFree(t)
    /\ q = <<>> \/ ~start_ok(tx)
    /\ Return(t)
    /\ UNCHANGED <<view_vars, queue_vars, timer_vars, deferred, dcpd_vars, busy_vars,
                   owed>>

(* process() takes the first entry, but its view refuses to be serialized: *)
(* always when it is not allowed to be, and at any time for a browser view *)
(* whose list is not accessible.  The transaction is aborted, the entry    *)
(* dropped, and the loop goes on with active_.lock_ held.                  *)
ProcessRefused(t) ==
    /\ InProcess(t)
    /\ LockFree(t)
    /\ q # <<>> /\ start_ok(tx)
    /\ may_refuse(Head(q).view)
    /\ q' = Tail(q)
    /\ tx' = abort(start(tx))
    /\ transaction_observer(tx')
    /\ data' = None
    /\ Goto(t, "loop")
    /\ lost_busy' = (lost_busy \/ Head(q).busy # "unknown")
    /\ owed' = [owed EXCEPT ![Head(q).view] = {}]
    /\ UNCHANGED <<view_vars, fired, dcpd_vars, busy, sent_busy>>

(* process() takes the first entry, its view writes itself to the stream,  *)
(* and the transaction is committed.  A browser view may start loading its *)
(* list while it is written (loads), which raises the busy flag and, by    *)
(* the busy callback, re-enters do_serialize(): another full serialization *)
(* is queued, unless the view is marked as being serialized.               *)
ProcessWritten(t) ==
    /\ InProcess(t)
    /\ LockFree(t)
    /\ q # <<>> /\ start_ok(tx)
    /\ is_serialization_allowed(Head(q).view)
    /\ tx' = commit(start(tx))
    /\ transaction_observer(tx')
    /\ data' = Head(q)
    /\ unanswered' = IF unanswered < MaxUnanswered THEN unanswered + 1 ELSE unanswered
    /\ LET d == Head(q)
           v == d.view
       IN \E loads \in BOOLEAN :
          /\ loads => may_trigger_busy_state(v)
          /\ busy' = (busy \/ loads)
          /\ sent_busy' = append_busy_value(d.busy, loads)
          /\ lost_busy' = IF loads THEN d.busy = "yes" /\ (busy \/ serializing[v])
                                   ELSE lost_busy
          /\ owed' = [owed EXCEPT ![v] = IF d.full THEN {} ELSE @ \ d.flags]
          /\ IF loads /\ ~busy /\ ~serializing[v]
             THEN /\ q' = add(Tail(q), v, TRUE, update_flags[v], "yes")
                  /\ update_flags' = [update_flags EXCEPT ![v] = {}]
             ELSE q' = Tail(q) /\ UNCHANGED update_flags
    /\ Goto(t, "process")
    /\ UNCHANGED <<active_view, serializing, fired, answers>>

(***************************************************************************)
(* The main loop: deferred calls, answers, timeout                         *)
(***************************************************************************)
(* Mutant: the call is made whether or not it was scheduled.               *)
DeferredCall_unscheduled ==
    /\ Idle("main")
    /\ deferred' = deferred - 1
    /\ Goto("main", "process")
    /\ UNCHANGED <<view_vars, queue_vars, timer_vars, dcpd_vars, busy_vars, owed>>

DeferredCall ==
    /\ Idle("main") /\ deferred > 0
    /\ deferred' = deferred - 1
    /\ Goto("main", "process")
    /\ UNCHANGED <<view_vars, queue_vars, timer_vars, dcpd_vars, busy_vars, owed>>

(* serialization_result(r), called from the main loop.                     *)
serialization_result(r, then) ==
    Call("main", "finish", [NoJob EXCEPT !.result = r, !.then = then])

ReadAnswer ==
    /\ Idle("main") /\ answers # <<>>
    /\ answers' = Tail(answers)
    /\ serialization_result(Head(answers), "idle")
    /\ UNCHANGED <<view_vars, queue_vars, timer_vars, deferred, unanswered, busy_vars,
                   owed>>

(* A timeout source fires that the timer does not know of any more (its ID *)
(* was overwritten).                                                       *)
TimerIgnored ==
    /\ Idle("main") /\ timer_id = 0
    /\ \E s \in live : live' = live \ {s}
    /\ UNCHANGED <<view_vars, queue_vars, timer_id, fired, deferred, thread_vars,
                   dcpd_vars, busy_vars, owed>>

TimerExpired ==
    /\ Idle("main") /\ timer_id # 0
    /\ Dcpd # "punctual"
    /\ Dcpd = "silent" => answers = <<>>
    /\ RacingTimeouts \/ Idle("dbus")
    /\ unanswered' = IF Dcpd = "silent" THEN 0 ELSE unanswered
    /\ \E s \in live : fired' = s
    /\ serialization_result("TIMEOUT", "rearm")
    /\ UNCHANGED <<view_vars, queue_vars, timer_id, live, deferred, answers,
                   busy_vars, owed>>

(* A timeout source is dispatched, whether the timer knows of it or not.   *)
TimerFires == IF timer_id = 0 THEN TimerIgnored ELSE TimerExpired

(* keep_or_restart(milliseconds::min()): the ID is forgotten, the source   *)
(* that fired is removed by GLib.                                          *)
TimerDisable ==
    /\ At("main", "rearm")
    /\ timer_id' = 0
    /\ live' = live \ {fired}
    /\ fired' = 0
    /\ Goto("main", "idle")
    /\ UNCHANGED <<view_vars, queue_vars, deferred, dcpd_vars, busy_vars, owed>>

(* finish_transaction(), and the decision of serialization_result() to     *)
(* start the next transaction, or not.                                     *)
FinishIdle ==
    /\ At("main", "finish") /\ LockFree("main")
    /\ ~is_in_progress(tx)
    /\ Goto("main", "start")
    /\ UNCHANGED <<view_vars, queue_vars, timer_vars, deferred, dcpd_vars, busy_vars,
                   owed>>

FinishAborted ==
    /\ At("main", "finish") /\ LockFree("main")
    /\ is_in_progress(tx) /\ job["main"].result = "OK" /\ data = None
    /\ Goto("main", "aborted")
    /\ UNCHANGED <<view_vars, queue_vars, timer_vars, deferred, dcpd_vars, busy_vars,
                   owed>>

(* Mutants: a success does not start the next transaction; data survives   *)
(* the end of its transaction.                                             *)
FinishOK_rests ==
    /\ At("main", "finish") /\ LockFree("main")
    /\ is_in_progress(tx) /\ job["main"].result = "OK" /\ data # None
    /\ data' = None
    /\ tx' = IF done_ok(tx) THEN done(tx) ELSE abort(tx)
    /\ transaction_observer(tx')
    /\ Return("main")
    /\ UNCHANGED <<view_vars, q, fired, dcpd_vars, busy_vars, owed>>

FinishOK_keeps_data ==
    /\ At("main", "finish") /\ LockFree("main")
    /\ is_in_progress(tx) /\ job["main"].result = "OK" /\ data # None
    /\ tx' = IF done_ok(tx) THEN done(tx) ELSE abort(tx)
    /\ transaction_observer(tx')
    /\ IF done_ok(tx) THEN Goto("main", "start") ELSE Return("main")
    /\ UNCHANGED <<view_vars, q, data, fired, dcpd_vars, busy_vars, owed>>

FinishOK ==
    /\ At("main", "finish") /\ LockFree("main")
    /\ is_in_progress(tx) /\ job["main"].result = "OK" /\ data # None
    /\ data' = None
    /\ tx' = IF done_ok(tx) THEN done(tx) ELSE abort(tx)
    /\ transaction_observer(tx')
    /\ IF done_ok(tx) THEN Goto("main", "start") ELSE Return("main")
    /\ UNCHANGED <<view_vars, q, fired, dcpd_vars, busy_vars, owed>>

(* Mutant: data survives a failed transaction.                             *)
FinishFailed_keeps_data ==
    /\ At("main", "finish") /\ LockFree("main")
    /\ is_in_progress(tx) /\ job["main"].result # "OK"
    /\ tx' = abort(tx)
    /\ transaction_observer(tx')
    /\ Return("main")
    /\ UNCHANGED <<view_vars, q, data, fired, dcpd_vars, busy_vars, owed>>

FinishFailed ==
    /\ At("main", "finish") /\ LockFree("main")
    /\ is_in_progress(tx) /\ job["main"].result # "OK"
    /\ data' = None
    /\ tx' = abort(tx)
    /\ transaction_observer(tx')
    /\ Return("main")
    /\ UNCHANGED <<view_vars, q, fired, dcpd_vars, busy_vars, owed>>

(***************************************************************************)
(* What makes views ask for updates                                        *)
(***************************************************************************)
MayCall == Idle("main") /\ deferred < MaxDeferred

(* A view raises update flags, and is updated if it is the active one.     *)
FlagsRaised(v, fl, mode) ==
    /\ MayCall /\ v \notin Browsers \cup Silent
    /\ update_flags' = [update_flags EXCEPT ![v] = @ \cup fl]
    /\ owed' = [owed EXCEPT ![v] = @ \cup fl]
    /\ IF v = active_view THEN update("main", v, "unknown", mode) ELSE UNCHANGED thread_vars
    /\ UNCHANGED <<active_view, serializing, queue_vars, timer_vars, deferred,
                   dcpd_vars, busy_vars>>

(* serialize_view_forced(v), or serialize_view_if_active() of the active   *)
(* view.                                                                   *)
ViewForced(v, mode) ==
    /\ MayCall
    /\ serialize("main", v, mode)
    /\ UNCHANGED <<view_vars, queue_vars, timer_vars, deferred, dcpd_vars, busy_vars,
                   owed>>

(* activate_view(v)                                                        *)
ActivateView(v) ==
    /\ MayCall
    /\ active_view' = v
    /\ serialize("main", v, "SYNC_IF_POSSIBLE")
    /\ UNCHANGED <<update_flags, serializing, queue_vars, timer_vars, deferred,
                   dcpd_vars, busy_vars, owed>>

(* The busy state changes: busy_state_notification() updates the active    *)
(* view, and nobody else will report the change.                           *)
BusyChanged ==
    /\ MayCall
    /\ busy' = ~busy
    /\ update("main", active_view, IF busy THEN "no" ELSE "yes", "FORCE_ASYNC")
    /\ lost_busy' = (lost_busy \/ active_view \in Silent)
    /\ UNCHANGED <<view_vars, queue_vars, timer_vars, deferred, dcpd_vars, sent_busy,
                   owed>>

(* The language notifier runs in the thread that wrote the setting.        *)
LanguageChanged ==
    /\ LanguageChanges /\ Idle("dbus")
    /\ RacingTimeouts \/ (timer_id = 0 /\ fired = 0)
    /\ serialize("dbus", active_view, "SYNC_IF_POSSIBLE")
    /\ UNCHANGED <<view_vars, queue_vars, timer_vars, deferred, dcpd_vars, busy_vars,
                   owed>>

(***************************************************************************)
(* dcpd                                                                    *)
(***************************************************************************)
DcpdAnswers ==
    /\ unanswered > 0 /\ Len(answers) < MaxUnanswered
    /\ \E r \in Answers : answers' = Append(answers, r)
    /\ unanswered' = unanswered - 1
    /\ UNCHANGED <<view_vars, queue_vars, timer_vars, deferred, thread_vars, busy_vars,
                   owed>>

(* dcpd dies or skips everything it has not answered yet.                  *)
DcpdForgets ==
    /\ Dcpd # "punctual" /\ unanswered > 0
    /\ unanswered' = 0
    /\ UNCHANGED <<view_vars, queue_vars, timer_vars, deferred, thread_vars, answers,
                   busy_vars, owed>>

(***************************************************************************)
(* Specification                                                           *)
(***************************************************************************)
Init ==
    /\ active_view \in Views
    /\ update_flags = [v \in Views |-> {}]
    /\ serializing = [v \in Views |-> FALSE]
    /\ q = <<>> /\ tx = IDLE /\ data = None
    /\ timer_id = 0 /\ live = {} /\ fired = 0 /\ deferred = 0
    /\ pc = [t \in Threads |-> "idle"]
    /\ job = [t \in Threads |-> NoJob]
    /\ unanswered = 0 /\ answers = <<>>
    /\ busy = FALSE /\ sent_busy = "no" /\ lost_busy = FALSE
    /\ owed = [v \in Views |-> {}]

Step(t) ==
    \/ CheckSerializing(t) \/ SerializeBegin(t) \/ Add(t) \/ ResetFlags(t)
    \/ StartTransaction(t)
    \/ ProcessNothing(t) \/ ProcessRefused(t) \/ ProcessWritten(t)
    \/ SerializeEnd(t)

Finish == FinishIdle \/ FinishAborted \/ FinishOK \/ FinishFailed

MainStep ==
    \/ Finish
    \/ TimerDisable
    \/ DeferredCall
    \/ ReadAnswer
    \/ TimerFires

Requests ==
    \/ \E v \in Views, f \in Flags, mode \in Modes : FlagsRaised(v, {f}, mode)
    \/ \E v \in Views, mode \in Modes : ViewForced(v, mode)
    \/ \E v \in Views : ActivateView(v)
    \/ BusyChanged
    \/ LanguageChanged

Next ==
    \/ \E t \in Threads : Step(t)
    \/ MainStep
    \/ Requests
    \/ DcpdAnswers \/ DcpdForgets

Spec == Init /\ [][Next]_vars

(***************************************************************************)
(* Fairness: a thread in the middle of a call goes on.  GLib dispatches a  *)
(* source that is ready time and again, although the main loop is busy     *)
(* with other sources in between, hence SF.  Views, the D-Bus client that  *)
(* sets the language, and dcpd owe nothing; a punctual dcpd does answer.   *)
(***************************************************************************)
Fairness ==
    /\ \A t \in Threads : WF_vars(Step(t))
    /\ WF_vars(Finish) /\ WF_vars(TimerDisable)
    /\ SF_vars(DeferredCall) /\ SF_vars(ReadAnswer) /\ SF_vars(TimerExpired)
    /\ Dcpd = "punctual" => WF_vars(DcpdAnswers)

FairSpec == Spec /\ Fairness

(***************************************************************************)
(* Properties                                                              *)
(***************************************************************************)
ViewsOK ==
    /\ active_view \in Views
    /\ update_flags \in [Views -> SUBSET Flags]
    /\ serializing \in [Views -> BOOLEAN]
    /\ owed \in [Views -> SUBSET Flags]

QueueOK ==
    /\ q \in Seq(Data)
    /\ tx \in {IDLE, STARTED_ASYNC, WAIT_FOR_ANSWER}
    /\ data \in Data \cup {None}

TimerOK ==
    /\ timer_id \in SourceIds \cup {0}
    /\ live \subseteq SourceIds
    /\ fired \in SourceIds \cup {0}
    /\ deferred \in Nat

ThreadsOK ==
    /\ pc \in [Threads -> PCs]
    /\ job \in [Threads -> Jobs]
    /\ \A t \in Threads :
          pc[t] \in {"check", "begin", "add", "reset", "end"} \/ job[t].then = "end"
              => job[t].view \in Views

DcpdOK ==
    /\ unanswered \in Nat
    /\ answers \in Seq(DcpdResults)

BusyOK ==
    /\ busy \in BOOLEAN
    /\ sent_busy \in {"yes", "no"}
    /\ lost_busy \in BOOLEAN

(* Type correctness.  Between locked sections no transaction waits for a   *)
(* commit, and a thread in do_serialize() knows its view until the end,    *)
(* across whatever start_transaction() does.                               *)
TypeOK == ViewsOK /\ QueueOK /\ TimerOK /\ ThreadsOK /\ DcpdOK /\ BusyOK

(* The assertions on active_.data_ in process(): data is owned exactly     *)
(* while an answer is awaited, whatever interleaving of threads, answers   *)
(* and timeouts led there.  At most one transfer is ever outstanding.      *)
ActiveData == tx = WAIT_FOR_ANSWER <=> data # None

(* add() coalesces: a view never waits in the queue twice, so that the     *)
(* queue is bounded by the number of views.                                *)
OneEntryPerView ==
    \A i, k \in DOMAIN q : q[i].view = q[k].view => i = k

(* A thread is between add() and the end of its attempt to send.           *)
GoesOn(t) == pc[t] \in {"reset", "start", "process", "loop"}

(* A transaction deferred to the main loop has something to send, and a    *)
(* deferred call that is going to send it: the request cannot get lost     *)
(* between the thread that deferred it and the main loop.                  *)
AsyncScheduled ==
    tx = STARTED_ASYNC =>
        /\ q # <<>>
        /\ deferred > 0 \/ pc["main"] = "process"

(* Queued updates sit in an idle pipeline and nothing is under way that    *)
(* would send them.                                                        *)
Stalled ==
    /\ q # <<>> /\ tx = IDLE
    /\ \A t \in Threads : ~GoesOn(t)

(* Updates get stuck in the queue only because a transaction failed:       *)
(* serialization_result() starts the next one after a success only.        *)
OnlyFailureStalls ==
    [][~Stalled /\ Stalled' => pc["main"] = "finish" /\ job["main"].result # "OK"]_vars

(* While an answer is awaited the timeout that ends the wait is armed, and *)
(* the timer object knows the source it would have to stop.                *)
TimeoutArmed == tx = WAIT_FOR_ANSWER => timer_id \in live

(* The assertion in finish_transaction(): an answer OK finds the data of   *)
(* the transaction it is an answer to.                                     *)
AnswerHasData ==
    pc["main"] = "finish" /\ is_in_progress(tx) /\ job["main"].result = "OK" => data # None

(* Flags a view has raised are still with the view, in its queue entry, or *)
(* about to be queued, until they have been written out.                   *)
FlagsAccounted ==
    \A v \in Views : \A f \in owed[v] :
        \/ f \in update_flags[v]
        \/ \E i \in DOMAIN q : q[i].view = v /\ (q[i].full \/ f \in q[i].flags)

Quiescent ==
    /\ q = <<>> /\ tx = IDLE /\ deferred = 0
    /\ \A t \in Threads : pc[t] = "idle"

(* When everything has come to rest, the busy indicator that was last sent *)
(* tells the busy state, unless the latest notification was dropped by a   *)
(* view that is being serialized or refuses to be.                         *)
BusyReported ==
    Quiescent /\ ~lost_busy => (sent_busy = "yes" <=> busy)

(* The wait for dcpd's answer always ends, by the answer or by timeout.    *)
WaitEnds == tx = WAIT_FOR_ANSWER ~> tx # WAIT_FOR_ANSWER

(* As long as dcpd answers in time and has no complaints, each queued       *)
(* update gets its turn, however many updates other views keep asking for. *)
UpdatesGetTheirTurn ==
    [](fired = 0 /\ "FAILED" \notin {answers[i] : i \in DOMAIN answers}) =>
        \A v \in Views :
            v \in QueuedViews(q) ~>
                v \notin QueuedViews(q) \/ (data # None /\ data.view = v)

(* The views in the queue, and what each view wants to be shown.           *)
turns(qq) == [i \in DOMAIN qq |-> qq[i].view]

wishes(qq) ==
    [v \in Views |->
        IF v \in QueuedViews(qq)
        THEN LET d == qq[CHOOSE i \in DOMAIN qq : qq[i].view = v]
             IN [full |-> d.full, flags |-> d.flags, busy |-> d.busy]
        ELSE [full |-> FALSE, flags |-> {}, busy |-> "unknown"]]

(* The pipeline is a mailbox with one wish per view and one message on the *)
(* wire, whatever threads, transactions, timers and answers do: updates    *)
(* are coalesced, never reordered between views, never sent twice, and     *)
(* leave the queue only by being written or refused.                       *)
Mailbox == INSTANCE DisplayMailbox WITH turn <- turns(q), wish <- wishes(q), wire <- data

ImplementsMailbox == Mailbox!Spec

=============================================================================
