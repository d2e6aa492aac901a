# DRCPD in TLA+

DRCPD ("DRCP daemon") sits between the remote control/display protocol daemon
`dcpd`, several list brokers (media browsing services that are reached over
D-Bus), the stream player, and the audio path manager.  It owns the views the
user navigates: it receives UI events, asks list brokers for list IDs and list
items, pushes streams into the player, and sends XML descriptions of its views
to `dcpd` over a pair of named pipes.

This directory holds TLA+ specifications of the parts of DRCPD in which threads,
processes, answers and timeouts meet, the TLC configurations that check them on
small instances, and TLAPS proofs of theorems that hold for all instances.

- [1. The system](#1-the-system): inventory of components
- [2. Modules](#2-modules): what is modelled, and how it corresponds to the code
- [3. Runs](#3-runs): what TLC checks, within which bounds, under which fairness
- [4. Proofs](#4-proofs): what TLAPS proves, and along which argument
- [5. Findings](#5-findings): where the code does not do what it says
- [6. Not modelled](#6-not-modelled-and-why), [7. Plan](#7-plan)

Paths below are relative to the root of the repository (`src/src/…` here means
the directory `src` of the repository).

## 1. The system

### 1.1 Threads and processes

| Actor | Where | What it runs |
|---|---|---|
| main thread | `drcpd.cc`, `main_context.hh` | the GLib main loop: answers from dcpd, timeouts, deferred calls, UI event processing, the RNF death row at idle priority |
| D-Bus I/O thread | `dbus_iface.cc`, `dbus_handlers.cc` | method handlers and signal handlers; posts UI events; notifies calls; the language setting runs a notifier that serializes the active view in this thread |
| dcpd | external | reads XML, answers each transaction `OK`, `FF`, or not at all |
| list brokers | external | answer requests at once or by cookie; signal availability or errors of cookies; abort cookies |
| stream player, audio path manager | external | start, stop and position events; selection and deselection of sources |

### 1.2 Components

*DCP transaction and queue* (`dcp_transaction.*`, `dcp_transaction_queue.*`).
State: `q_.data_`, `active_.dcpd_` (idle, started, started asynchronously,
waiting for commit, waiting for an answer), `active_.data_`, two locks.
Operations: `add`, `start_transaction`, `process_pending_transactions`,
`finish_transaction`; the observer is told about each change of state.
Correct if: updates of a view are coalesced and never lost; entries leave the
queue only by being written or refused; data is owned exactly while dcpd owes
an answer; a deferred start is always followed by a call that performs it.

*View serialization* (`view_serialize.*`, `view_manager.cc`, `busy.cc`).
State: `update_flags_` and `is_serializing_` of each view; which view is
active.  Operations: `serialize`, `update`, `do_serialize`, `write_xml`,
`append_busy_value`, `serialization_result`.  Correct if: flags survive until
they were written; the display tells the busy state in the end.

*Timeout timer* (`timeout.*`).  State: the ID of a GLib source.  Operations:
`start`, `stop`, the expiry callback which keeps, restarts or disables the
timer.  Correct if: the timer is armed while there is something to wait for,
and can be stopped.

*RNF calls* (`rnfcall*.hh`, `rnfcall.cc`): request, notify, fetch.  State: an
enum of seven states, the cookie and the cleared cookie, a promise, a lock per
call.  Operations: `request`, `notification`, `fetch`, `fetch_blocking`,
`abort_request`, and the destructor.  Correct if: no call waits without anybody
left to notify it; no call is destroyed while it waits; results belong to the
cookie of the call.

*Pending cookies* (`view_filebrowser.hh`, `view_filebrowser.cc`): tables from
cookies to notification and fetch functions, with a lock that blocks
notifications while a request is under way.  *RNF death row*
(`rnfcall_death_row.*`): owner of calls which cannot be destroyed where their
last owner lets them go.  *UI event queue* (`ui_event_queue.*`,
`ui_events.hh`): posted to from any thread, processed by the main thread, which
is triggered by the first event in an empty queue.  *Busy state* (`busy.*`):
one counter per source and a callback when the sum leaves or reaches zero.

*File browser view* (`view_filebrowser*.cc`): navigation (to the root, to a
child, to a parent, to links, by search), one slot for the call that asks for
a list ID, the async enter/load operations of its list.  Correct if: the last
navigation wins, answers to earlier ones are ignored, and the busy indicator
goes down in the end.

*D-Bus lists, viewports, segments* (`dbuslist*`, `cache_segment.hh`,
`lru.*`), *list navigation* (`listnav.*`), *search* (`search_algo.hh`):
windows of cached items over remote lists, the cursor over them, and binary
search.  *Crawlers* (`playlist_crawler.*`, `directory_crawler.*`): operations
that find the next playable item, with delayed start and cancelation.
*Player control, player data, skipper* (`player_*`): the stream queue, skip
requests and retries.  *Audio sources* (`audiosource.*`): selection states
against the audio path manager.  *Cache enforcer* (`cacheenforcer.*`): keeps a
list alive at its broker as long as it plays.  *View manager*
(`view_manager.*`): activation, input, distribution of events.  *Error sink*
(`view_error_sink.*`), *play view*, *external sources*, *Airable*, *search
view*, *small views*.  *Contexts, configuration, i18n, XML escape, logging,
D-Bus glue*: tables and conversions.

### 1.3 How they interact

```
   UI events (D-Bus)        language (D-Bus)            player, audio path
        |                        |                              |
  UI event queue            D-Bus thread                  player control
        |                        |                              |
  view manager -- activates --> views -- raise flags --> play view
        |                      /  |
        |   AsyncCalls slot <-'   |  do_serialize()
        |        |                v
   pending <-- RNF call       DCP::Queue --> DCP::Transaction --> pipe --> dcpd
   cookies       |                ^                                         |
        ^        v                '----- serialization_result() <--- answer or
        '--- list broker                                             timeout
```

### 1.4 What is hard about it

- Two threads serialize views; the queue has one lock for its entries and one
  for the active transaction, and neither covers a view's flags.
- A transaction may be started in one thread and processed in a later call of
  the main loop, with answers and timeouts in between.
- An answer carries no ID: which transaction it belongs to is a matter of
  order, and a timeout destroys that order.
- The signal for a cookie may overtake the reply that tells the cookie, and an
  abort releases the lock of the call while it talks to the list broker.
- Objects are shared by a slot, two tables, the death row and whatever a
  thread holds in a local variable; destruction has side effects (busy flags).
- Failures in the middle of a sequence: exceptions between request and clean-up,
  aborts that fail, writes to a pipe whose reader has died.

`PROJECT.json` lists each of these hazards at the line where it bites, with the
properties that cover it.

## 2. Modules

| Module | Models | Source |
|---|---|---|
| `DCPTransaction` | the state machine of a transaction, as operators on its state | `dcp_transaction.cc/.hh` |
| `DisplayPipeline` | queue, transaction, serialization, timer, deferred calls, two threads, dcpd | `dcp_transaction_queue.*`, `view_serialize.hh`, `view_manager.cc`, `drcpd.cc`, `timeout.cc` |
| `DisplayMailbox` | what the pipeline promises: one wish per view, one message on the wire | abstract |
| `CookieCalls` | calls by cookie, event queue, death row, the list ID slot, the busy counter | `rnfcall*`, `view_filebrowser.*`, `ui_event_queue.*`, `busy.cc` |
| `AsyncCalls` | asynchronous D-Bus calls, the pool that keeps them for GLib, busy counters with a limit | `dbus_async.hh`, `view_filebrowser.*`, `busy.*` |
| `PlayerData` | the mirror of the stream player's queue, as operators on a record | `player_data.*` |
| `StreamPlayer` | the stream player as its callers see it, with its signals on the way | external |
| `PlayerControl` | commands, skipping, prefetching, retries, audio source, crawler operations | `player_control*`, `view_play.cc`, `audiosource.*`, `playlist_crawler.*` |
| `CacheSegment` | segments of lists and how two of them overlap, as operators | `cache_segment.hh` |
| `ListViewport` | the window on a list and the lines held in RAM, as operators on a record | `dbuslist_viewport.*`, `ramlist.*` |
| `DBusList` | entering, loading, moving, replacing lists, with the answers of the broker | `dbuslist*`, `rnfcall_get_range*`, `dbus_async.hh` |
| `ListNavigation` | cursor and display over an unfiltered list | `listnav.*` |
| `SearchAlgo` | the binary search, with every comparison and every bound | `search_algo.*` |
| `PlayView` | signals of the player, the stream information, and what is shown of it | `view_play.*`, `player_data.*`, `view_manager.cc`, `dbus_handlers.cc` |
| `UserInput` | `ListNavigation`, `SearchAlgo` and `PlayView` under the events of the main loop | `view_manager.cc`, `view_filebrowser.cc`, `ui_events.hh` |
| `DirectoryTraversal` | the walk of a find operation through lists and directories, both ways | `directory_crawler*` |
| `CrawlerOps` | operations of a crawler: start, delay, yield, cancelation, completion, events | `playlist_crawler*`, `directory_crawler*` |
| `CacheEnforcer` | keeping a list alive: timer, call, answers, ownership | `cacheenforcer.*` |
| `BrowserNavigation` | navigation of a browser through lists and contexts, with jumps | `view_filebrowser.*`, `view_filebrowser_airable.*` |
| `Views` | the view manager, the search form, the REST view, the error sink, two threads | `view_manager.*`, `view_search.*`, `view_src_rest.*`, `view_error_sink.*` |
| `AudioSources` | plugging, selection, audio paths, resuming | `audiosource.hh`, `view_play.cc`, `player_control.cc`, `player_resumer.hh` |
| `MC…` | model values, small trees and sizes for TLC; `MCCookieCalls` also puts `CookieCalls` and `AsyncCalls` side by side (`kind` says which one a behaviour is about) | |
| `…_proofs` | the theorems of [section 4](#4-proofs) | |

`DisplayPipeline` extends `DCPTransaction` and instantiates `DisplayMailbox` with
a refinement mapping.  `PlayerControl` extends `StreamPlayer`, which extends
`PlayerData`.  `DBusList` extends `ListViewport`, which extends `CacheSegment`.
`UserInput` extends `ListNavigation`, `SearchAlgo` and `PlayView`.

The modules meet at interfaces which are stated once and assumed on the other
side: `PlayerControl` assumes of crawler operations what `CrawlerOps` and
`DirectoryTraversal` show of them (each ends once, at the neighbour or at an end
of the list); `DBusList` and `BrowserNavigation` assume of calls what `CookieCalls`
and `AsyncCalls` show; `Views` has the transactions of `DisplayPipeline` in
four states; in `AudioSources` a call to realize a location ends the behaviour, because
starting it throws (finding 19).

### 2.1 The display pipeline

An action is a section of the code delimited by locks, or by the point where a
thread returns to its caller.  `pc` and `job` say where a thread is and what it
was called for.  The steps of `do_serialize()` are `CheckSerializing`,
`SerializeBegin`, `Add`, `ResetFlags`, `StartTransaction`, `SerializeEnd`; those
of `DCP::Queue::process()` are `ProcessNothing`, `ProcessRefused` and
`ProcessWritten`, the last with all that happens from taking the entry to
`commit()`.  While an entry has just been refused the thread goes on with the
lock held, at `"loop"`; other threads that need the lock wait (`LockFree`).

The main loop calls `DeferredCall` (a deferred
`process_pending_transactions()`), `ReadAnswer` and `TimerExpired`, which both
lead to `serialization_result()` and hence to one of `FinishIdle`,
`FinishAborted` (the failed assertion), `FinishOK` and `FinishFailed`.
`transaction_observer()` is not an action of its own, but a part of each action
that changes the state of the transaction: it arms and stops the timer and
schedules the deferred call.

The timer is modelled with the sources GLib knows (`live`) apart from the one
the object remembers (`timer_id`), because the code can get the two out of
step: the callback of an expired timer may start the next transaction, which
arms the timer anew, before its own return value zeroes the ID.

Views are told apart by what matters here: `Browsers` always serialize in full,
may refuse at any time because their list is locked, and may trigger loading;
`Unconditional` views are written while they are not active; `Silent` views
never serialize.  Anything that makes a view ask for an update is one of
`FlagsRaised`, `ViewForced`, `ActivateView`, `BusyChanged`, `LanguageChanged`;
the last one runs in the D-Bus thread
(`dbus_handlers.cc` → `drcpd.cc` → `i18n.cc` → `view_manager.cc:97`).

The ghost variables `sent_busy`, `lost_busy` and `owed` record what was
written, what was dropped with the code's knowledge, and which flags are still
to be written.


### 2.2 Calls by cookie


A call object is a member of `Calls`; its name is free for another object when
it has been destroyed.  `broker` is what the list broker knows of it (another
process, connected by a FIFO of `signals` and by synchronous D-Bus calls).
`main` and `dbus` say where the two threads are.  A navigation
is `PointTo`, `PointToParent` or `GetChildItem`, then `CancelNothing`,
`CancelLocally` or `CancelByCookie` followed by `AbortReply`, then `Request` and
one of `RequestCookie`, `RequestFastPath`, `RequestFailed`, then `Drop` of the
local reference.  The D-Bus thread goes through `available`, `notification`,
`post` and `trigger_processing`; the main loop then through
`process_pending_events`, `TakeCookieEvent`, and `FinishFetch` or `FinishDone`.
Ownership is explicit: `Referenced` says who holds a pointer, `execute` is the
death row, `destroy` the destructor with its `Busy::clear()`.

Abstractions: one cookie per signal (the code loops over vectors of them); one
view; a list broker which aborted a cookie it has not signalled yet signals an
error for it; the update of the active view after cookie events belongs to the
pipeline and is left out.

### 2.3 Asynchronous D-Bus calls

A call is a record: its state in `DBus::AsyncCall`, whether GLib still has to
call back, its result.  `PointToLink` cancels what is in the slots and asks for the
parent of a list.  `PointToContextRoot` is the jump to the root of a context: it puts
a new call in its slot, and makes it only if there is no jump yet; a view which is
jumping to that context already is left with a call that is never made, and never
answered.  `jump` is as much of the jump as this takes, the rest is in
`BrowserNavigation`.  `GLibReady` is the callback with a result or an error, and what the view
does then; `CancelAll` and `DeleteAll` are the two ways to clear the slots.
`ApplianceBusy` is another user of the busy state, whose counters have the limit
`MaxBusyCount`.  A `patient` user navigates only when GLib owes no answer.

### 2.4 The player

Everything here runs in the main thread: a handler locks player control and
player data and runs to its end, and its callbacks are UI events handled later.
So a handler is one step, written as an operator from the world it finds to the
world it leaves (`World`: player data, player control, stream player), and the
operators are called in the order in which the methods call each other.  The
hard part is the order of the handlers, for which there are four sources:

- commands (`Play`, `StartCommand`, `StopCommand`, `PauseCommand`, `NextCommand`,
  `PreviousCommand`, `WindCommand`);
- signals of the player, delivered in order but late (`Deliver`): `now_playing`,
  `stream_stopped`, `stream_paused`, `stream_unpaused`, and the rejection of a
  stream; between two of them the player goes on (`PlayerStep`);
- operations of the crawler: started late if delayed (`OpStart`), finished
  (`OpFinish`), and reported by an event (`OpCompleted`).  An operation that was
  canceled before it was done is only counted (`dead`); one canceled later is
  still reported.  `next`, `uris` and `skip` are the pointers of player control
  and skipper to operations they own;
- selection and deselection of audio sources (`SourceSelected`,
  `FreshActivation`, `SourceDeselected`, `AudioPathChanged`) and loss of the
  list (`ListLost`).

`data` is `Player::Data`: the queue of streams, the stream in flight, one
description per stream, and the count of references to the list they are from.
`PlayerData!Consistent` is the check in `QueuedStreams::log()`.  The stream player
is another process.  `StreamPlayer` says what the calls made by player
control return and which signals follow; in particular `Push`, `Clear` and
`Stop` report dropped streams, in the return value or in a later signal.

`ctl.bugs` collects what the last handler logged as a bug; a failed assertion
or the use of a null pointer ends the behaviour (`Alive`).  The ghost `goal` is
what the user asked for last, as far as it was accepted.  `OpStart` needs all
signals delivered: the delay is three seconds.

Abstractions: one source of our own with a flat list of `Last` items, so that
looking for the next item moves a position by one or runs into an end; streams
are identified by IDs, which are reused only if nobody knows them any more;
metadata, seeking, bit rates, permissions other than skipping on error,
prefetching and winding backward, repeat and shuffle modes are left out.  `"hold"` in `Faults` lets the
audio path select our source on hold; `Player_main` leaves it out (see
[section 5](#5-findings)).

### 2.5 Lists

`ListViewport` has the methods of a viewport as operators: what of the view is
not in RAM, moving the items, filling them in.  `DBusList` has the list, its
viewports, the loads (`fetches`) and the queries for entering.  An action is one
operation of the main thread; the broker answers in any order (`EnterReady`,
`Signal`, `Fetch`, `Done`).  An item is identified by the list and line it was
loaded for, so that a line in the wrong place can be told.  The ghost `kin` is the
current list with the IDs it has had since it was entered.

Views move, and lists are entered, replaced and removed, while lines are being loaded.
The code does not notice if a view has gone on to lines it had, or its list was entered or
replaced by one of another size, since lines were asked for, and writes them all the same.
Two ghosts tell what has happened so far: `strayed` has the viewports whose lines
are on the way to the wrong place, `spoiled` those which got such lines and have not been
cleared since.  The properties say nothing about the contents of a spoiled
viewport, but they hold for every way to get there and for all that follows after it has been
cleared.  A list may be replaced while it is being entered only if `EnteredListsChange` is
TRUE, which the code does not cope with (see [section 5](#5-findings)).

### 2.6 User input

`ListNavigation` has the methods of `List::Nav` for the one filter the program has,
`NavItemNoFilter`, which hides nothing (`view_filebrowser.hh`, `directory_crawler.hh`,
`player_control_skipper.hh`); filters that hide items exist in `tests/test_listnav.cc` only,
and are not modelled.  The list has up to `MaxItems` items, and may be replaced under the
cursor by a list of another length.  `SearchAlgo` makes a step per comparison and keeps the locals of the
nested searches; strings are sequences of characters, sorted after case
folding, and every sorted list up to the bounds is an initial state.
`PlayView` has the player (what it plays, what it will say), the queue of UI
events, the play view's data and update flags, and the screen.  `UserInput` puts
them under the dispatch of events by the view manager; as scrolling, searching and
listening do not touch each other's state, a behaviour is about one of them
(`Tasks`).

### 2.7 Crawlers and cache enforcer

`DirectoryTraversal` walks through a tree of lists: the steps of
`FindNextOp::run()` and its continuations, one item at a time, in flat or
depth-first mode, forward and backward, with lists that cannot be entered and
items that cannot be loaded: a load that cannot be started ends the operation, one that fails
later is started again without limit (`HintedInVain`), which is what the callback does.  An
operation may start in a list that is entered already, whose level is then not counted
(the ghost `uncounted`, see [section 5](#5-findings)).  `CrawlerOps` is about the objects: who holds an operation, what is
posted for it, whether it was canceled, delayed, or yielded; what it does between
two events is arbitrary there.  In `CacheEnforcer` a timer is the time it has been
set to, to be compared with what the broker has granted; messages to the broker are
handled in order, and the broker may drop or replace a list at any time.

### 2.8 Browser navigation

A list ID is a place and a version; the broker may change versions, and signals each
change; signals are handled in order.  `Answer` is
the answer to whichever of the (at most two) calls is under way, with the
continuations the view has registered for it, including the second half of a
jump to a context.  Contexts have restrictions, search forms and the marks of
the lists they may be left through.  `Interruptions` says what may get in the
way of navigation that is under way.  The code copes with the user going elsewhere while
a view does nothing but wait for the ID of a list, in a list that still exists
(`"by_user_early"`, the one in `Browser_main`); it copes with none of the others entirely.

### 2.9 Views and audio sources

`Views` has the view manager: activation, toggling, the search form (requested by
a browser, answered or left), lines set by a REST client, errors sunk by either
thread, and the queue of updates.  A browser may be entering a list (`entering`) when its turn
has come; then it need not be written, and its queue entry is forgotten (`DropView`;
the ghost `dropped` tells which browsers that has happened to).  When the query is done the
browser asks to be written anew, unless the query was canceled.  The locks `errors_lock_` and that of the active
transaction are modelled by the states in which they are held.  `AudioSources`
has the audio path manager (external), the messages between it and the program,
the plug of the player control, the resumer, and views which are activated by
the path.  A request may be refused, or fail (`RequestFails`); the program logs that and
leaves the source requested, and plugged.  `Settled` means that no message is on its way.

## 3. Runs

All twelve runs pass.

| Run | Properties | Question |
|---|---|---|
| `Pipeline_main` | `AnswerHasData`, `OneEntryPerView`, `FlagsAccounted`, `ImplementsMailbox`, `UpdatesGetTheirTurn` | the main loop with a dcpd that answers in time: is any update lost, sent twice, reordered, stuck, or starved by other views? |
| `Pipeline_late` | `TimeoutArmed`, `AsyncScheduled`, `WaitEnds` | two threads and a dcpd that answers late or never: are deferred transfers carried out, and does each wait end? |
| `Calls_main` | `CallsAreNotified`, `BusyForCalls`, `CallsAreKept`, `BusyWhileWaiting`, `NeverDestroyedActive`, `LastWins` | is a call lost, waiting in vain, destroyed too early, or effective after the user went elsewhere? |
| `Player_main` | `QueueConsistent`, `OperationsAccounted`, `StreamsAccounted`, `QueueOrder`, `PlayedFromQueue` | what do commands, signals, lookups and changes of the audio source do to each other? |
| `Lists_main` | `CacheIsRight`, `AnswerForCurrentQuery`, `UpdatesFit` | is each line in RAM where it belongs, and is everybody told who entered a list? |
| `Input_main` | `CursorIsShown`, `FindsFirstMatch`, `KnownAndShown`, `NoItemSkipped`, `SearchEnds` | is the cursor on the display, does a search find the first match, is what is known of the stream shown? |
| `Crawl_main` | `FindsNeighbour`, `SearchEnds` | does each search end at the neighbour of where it started? |
| `Enforcer_main` | `EnforcersAccounted`, `RefreshBeforeExpiry`, `OrphansEnd` | do callbacks find their object, and is a list refreshed in time? |
| `Ops_main` | `OperationsAccounted`, `NobodyWaitsInVain` | does each operation report its end once, and has each something to wait for? |
| `Browser_main` | `JumpEndsInLivingList`, `ListsFitContext` | do jumps go on, and do lists fit the context they are shown in? |
| `Views_main` | `SearchRequestIsOwned`, `AllIsShown` | do the active view, the lines of the REST view, and each error get to the display? |
| `Sources_main` | `PlugIsConsistent`, `SettlesOnPath` | does the player control settle on the audio path? |

Each property comes with a mutant in `PROJECT.json`: a plausible mistake in one
definition that makes TLC report the property as violated.  Several properties
are conjunctions of named parts, among them the type invariant of the module.

### 3.1 Bounds

*Pipeline.*  Two views suffice for interference between views, since entries
are coalesced per view and relations are between pairs of entries.  One update
flag suffices for losing it.  `SourceIds` has two members where a source can be
forgotten while another one is armed (GLib never gives out the ID of a source
that still exists), one where that cannot happen.  `MaxUnanswered` is the
number of messages dcpd can be behind: `Pipeline_late` does not check for
deadlock, because a late dcpd stops at this bound.  `MaxDeferred = 1`: requests
wait while a deferred call is pending, the calls themselves are not restricted
and may still pile up; `Pipeline_main` was also checked with 2, which makes no
difference.  `LanguageChanges` is FALSE in `Pipeline_main` because of the lost
flags of finding 3, `RacingTimeouts` is FALSE in `Pipeline_late` because of
the forgotten timer described below.

*Calls.*  A call to the root, one to a child, and a blocking one for an item
are enough for a call in the slot, one in the death row, and one that somebody
else still refers to to be different objects; `MaxCalls` of them exist at a time.
`MaxTriggers` bounds the keys pressed while processing is scheduled, and at most
one event of the user is in the queue; cookie events are bounded by the
cookies.  Three asynchronous calls are one in each of the two slots and one
that is canceled and not forgotten by GLib yet.

*Player.*  A list of two items has both of its ends and a step between them; one
stream may be prefetched (as in the permissions of most sources), so up to four
IDs are in use at a time: in flight, queued, announced last, and new.  Four
operations are enough for the two that can be owned together and the two left
over from before.  `MaxCommands = 2` and `MaxFaults = 1` bound what the user does
and what goes wrong; the player, the signals and the crawler are bounded by
`MaxSignals = 2` only, the number of signals from which on the player waits.
The properties held also with more commands or faults while the model was
written.  `Player_main` does not check for deadlock: playback ends.

*Lists.*  A list of three lines under a view of two makes a partial overlap of each
kind; it may be replaced by one of two lines, and either may be entered, also while it is
entered already; two
loads and two queries are one under way and one left over.  One viewport suffices, because
viewports share nothing but the list.  `UINT_MAX = 4` is the
invalid line number, next to the last valid one.  The view `LiveState` leaves out of a state
which list a query was for after it has been reported, and which lines a fetcher loads that
is not its viewport's any more: no guard, no value that is kept, and no property looks at these.
`EnteredListsChange` is FALSE because of finding 8.

*Input.*  A display of three lines, as configured; seven items are two displays
and a line, so that each kind of step by more than one line happens.  Searches run on every sorted list of up to four items
with up to two characters each out of three, for each string.  Two streams, and
three events in the queue: what was announced, something about it, and the next.

*Crawlers.*  The tree of seven lists has a file at either side of a directory, an empty list,
directories with a single file and with a file before a directory, a list which holds
directories only, and more levels than `MAX_DIRECTORY_DEPTH` (three
instead of the 100 of the code).  `ListLeft` is FALSE because of finding 13.  Three find operations are one running, one
delayed, and one canceled.  `OpsView` leaves out of a state what nobody reads any
more.  Neither `Ops_main` nor `Enforcer_main` checks for deadlock: they end
when nothing is active and all names are taken.

*Enforcers.*  Three of them: the one that is owned and two that own themselves, on
two lists, with expiry times at both ends of the range for which refreshes are in
time.

*Browser, views, sources.*  Two contexts, two browsers, two sources of our own
are needed for one to meet the other; two versions of a list ID are before and
after it was replaced; two errors are one being written and one that arrives.
`MaxEvents`, `MaxRequests` and `MaxQueue` bound queues of messages; `MaxRequests = 1` and
`MaxQueue = 2` keep the runs short: with 2 (3.8 million states) and 3 (1.5 million) the same
properties hold, and the theorems are for every value.  A behaviour of `Views` has requests
of one kind (`requests`): search forms and errors, lists that are entered, or what else there is
to display; browsers enter lists in the second kind only.  `LocksCross` is FALSE because of
finding 16.  `MaxRefused = 1` bounds the sources whose request was refused
since they had the path last.  `Browser_main` has the one interruption the code copes with.  Its view
`Live` leaves out of a state what a call was for that has been taken out of its slot: its
answer is ignored, whatever it is.

Symmetry is used where the members of a set are treated alike, and only in runs
whose properties are all invariants.

### 3.2 Fairness

`DisplayPipeline!FairSpec`: a thread in the middle of a call goes on (`WF` of
`Step`, `Finish`, `TimerDisable`).  GLib dispatches a ready source again and
again although other sources keep the loop busy: `SF` of `DeferredCall`,
`ReadAnswer`, `TimerExpired`.  Nothing obliges views, the D-Bus client that sets
the language, or dcpd to act, except that a `"punctual"` dcpd answers each
message.  `UpdatesGetTheirTurn` is conditional: it says nothing of behaviours in
which a timeout expires or dcpd refuses a message, because queued updates wait
for the next request then.

`CacheEnforcer!FairSpec`: the list broker handles messages, answers (or their
failure) arrive, and timers expire.  `OrphansEnd` needs no more.

`DirectoryTraversal!Spec`: a running operation goes on (`WF` of its steps) and the broker
answers each request to load an item, with the item or with an error (`WF` of
`Look \/ HintedInVain`).  `SearchEnds` is conditional: it says nothing of behaviours in which
loads fail again and again, because the operation starts the load again each time.
`UserInput!Spec`: a search that is under way is continued.

`CookieCalls!FairSpec`: both threads run, the main loop serves its sources, the
lock of the pending cookies is released again and again (`SF` of `available`),
and the list broker replies to requests and signals cookies.  With it,
`EveryCallEnds` holds for a user who eventually leaves the keys alone
(`QuietUser`): the death row is executed at idle priority (`g_idle_add`), and a
user who never rests can keep it waiting.  (This was checked with `CookieCalls` alone, and is not among the runs.)

## 4. Proofs

Checked by `tlapm`, for all values of the constants that satisfy the named
assumptions of the modules.

| Theorem | Statement | if |
|---|---|---|
| `DisplayPipeline_proofs!TypeCorrect` | `Spec => []TypeOK` | |
| `DisplayPipeline_proofs!ActiveDataHolds` | `Spec => []ActiveData` | |
| `DisplayPipeline_proofs!AsyncScheduledHolds` | `Spec => []AsyncScheduled` | |
| `DisplayPipeline_proofs!OneEntryPerViewHolds` | `Spec => []OneEntryPerView` | |
| `DisplayPipeline_proofs!AnswersHaveData` | `Spec => []AnswerHasData` | `Dcpd = "punctual"` |
| `DisplayPipeline_proofs!TimeoutIsArmed` | `Spec => []TimeoutArmed` | `~RacingTimeouts` |
| `DisplayPipeline_proofs!NoFlagIsLost` | `Spec => []FlagsAccounted` | `~LanguageChanges` |
| `DisplayPipeline_proofs!MailboxImplemented` | `Spec => ImplementsMailbox` | |
| `Calls_proofs!EveryCallCanBeTold` | `Spec => []CallsAreNotified` | |
| `Calls_proofs!NoCallIsForgotten` | `Spec => []BusyForCalls` | |
| `Calls_proofs!NoActiveCallIsDestroyed` | `Spec => NeverDestroyedActive` | |
| `Calls_proofs!AnswersEnterTheLatest` | `Spec => LastWins` | |
| `Calls_proofs!CallsAreKeptForGLib` | `AsyncSpec => []CallsAreKept` | |
| `Calls_proofs!BusyIsAboutCalls` | `AsyncSpec => []BusyWhileWaiting` | |
| `PlayerControl_proofs!QueueConsistentHolds` | `Spec => []QueueConsistent` | |
| `PlayerControl_proofs!OperationsAreAccounted` | `Spec => []OperationsAccounted` | `"hold" \notin Faults` |
| `PlayerControl_proofs!StreamsAreAccounted` | `Spec => []StreamsAccounted` | `"hold" \notin Faults` |
| `PlayerControl_proofs!NoListIsKept` | `Spec => []NoListLeak` | |
| `PlayerControl_proofs!OnlyQueuedIsPlayed` | `Spec => PlayedFromQueue` | |
| `PlayerControl_proofs!QueueKeepsOrder` | `Spec => QueueOrder` | |
| `Lists_proofs!EveryQueryIsAnswered` | `Spec => []AnswerForCurrentQuery` | `~EnteredListsChange` |
| `Lists_proofs!ItemsAreThoseOfTheList` | `Spec => []CacheIsRight` | |
| `Lists_proofs!LoadedLinesFit` | `Spec => []UpdatesFit` | |
| `UserInput_proofs!CursorIsAlwaysShown` | `Spec => []CursorIsShown` | |
| `UserInput_proofs!PagingSkipsNothing` | `Spec => NoItemSkipped` | |
| `UserInput_proofs!SearchFindsFirst` | `Spec => []FindsFirstMatch` | |
| `UserInput_proofs!StreamIsKnown` | `Spec => []KnowsStream` | |
| `UserInput_proofs!WhatIsKnownIsShown` | `Spec => []KnownAndShown` | `~RenewsMetaData` |
| `Crawlers_proofs!CrawlerOpsAccounted` | `Spec => []OperationsAccounted` | `~ReturnsToPlaces` |
| `Crawlers_proofs!NoPlayerWaitsInVain` | `Spec => []NobodyWaitsInVain` | `~ReturnsToPlaces` |
| `Crawlers_proofs!CurrentPlayerIsNotifiedOnce` | `Spec => NotifiedOnceByCurrentCrawler` | |
| `Views_proofs!SearchRequestsAreOwned` | `Spec => []SearchRequestIsOwned` | |
| `Views_proofs!AllGetsShown` | `Spec => []AllIsShown` | |
| `Crawlers_proofs!EnforcersAreAccounted` | `EnforcerSpec => []EnforcersAccounted` | |
| `Crawlers_proofs!RefreshesAreInTime` | `EnforcerSpec => []RefreshBeforeExpiry` | `InTime(ms)` for each expiry |
| `Lists_proofs!FirstStepEnds` | `BrowserSpec => []FirstStepIsDriven` | |
| `AudioSources_proofs!ControlIsConsistent` | `Spec => []PlugIsConsistent` | |
| `AudioSources_proofs!SourcesSettleOnPath` | `Spec => []SettlesOnPath` | |

The conditions in the last column are not there for the provers' sake: TLC
violates each of the properties without its condition
([section 5](#5-findings)), and with it there is plenty of behaviour left.
The exception is `StreamsAreAccounted`: its condition comes from `Steady`, on which its
proof rests, and TLC has found no state that violates `StreamsAccounted` with a source put
on hold (exhaustively in `Player_main` with `"hold"` added to `Faults` and `MaxFaults = 2`,
and in random behaviours with more of both).
Nothing is assumed about the number of views, flags, timers, calls, streams,
operations, lists, lines, enforcers, contexts, list IDs, audio sources or events, which all are bounded in the runs.
The bounds in guards (`MaxTriggers`, `MaxSignals`, …) are parameters of the
theorems like the others.

### 4.1 Display pipeline

*Types.*  `TypeOK` is a conjunction of named parts (`ViewsOK`, `QueueOK`, `TimerOK`,
`ThreadsOK`, `DcpdOK`, `BusyOK`) and is inductive.  Two of its parts say more than
types: between two locked sections the transaction is idle, started
asynchronously, or waiting for an answer, never in one of the states it passes
through inside of `process()`; and a thread inside of `do_serialize()` knows its
view, also after it has been through `start_transaction()`.

*Safety.*  `ActiveData`, `AsyncScheduled` and `OneEntryPerView` are each
inductive relative to `TypeOK` and each other: `ActiveData` because data is
taken in the same locked section that commits the transaction, and given up in
the one that finishes it; `AsyncScheduled` because only the main thread
takes a deferred call, and it reaches `process()` in the next step while
nobody else can take away the last queue entry of a transaction that is
started already; `OneEntryPerView` by a lemma about `add` and the
fact that nothing else makes the queue longer.

`AnswersHaveData` counts messages: those dcpd has not answered, answers not read,
and the one being handled are together one if an answer is awaited and none
otherwise (`OneUnderWay`).  A punctual dcpd is what lets a transaction end by
its answer only.  `TimeoutIsArmed` follows the ID of the timer through the callback
of an expired timer (`TimerAccounted`); `NoFlagIsLost` follows a flag through
`do_serialize()` (`FlagsKept`): between `add()` and the reset of the flags nobody
but the thread which resets them may raise one.

*Refinement.*  The queue is mapped to the sequence of views whose turn it is
(`turns`) and to a function from views to wishes (`wishes`), the active data to
the message on the wire.  Lemmas say what `add` and `Tail` do to the mapped
values under `OneEntryPerView`, which the mapping needs to be meaningful: the
`CHOOSE` in `wishes` is unique because of it.  Each action maps to an action of
the mailbox or to a stutter.

### 4.2 Calls

*By cookie.*  The properties say nothing about where a cookie is, which is what
decides about them; the inductive invariant `IInv` does.  The cookie of a call is at
the list broker, in a signal, with the D-Bus thread, or in the queue of UI events,
and in one of these places only (`BrokerOK`, `SignalsOK`, `OneSignal`, `OneEvent`);
the tables of pending cookies hold a call just as long (`StatesOK`, `OwnedOK`); what
the main thread is doing with a call fits the call's state (`MainOK`, `SlotOK`);
events in the queue have been told about (`NoLostWakeup`).  A signal for a call
can therefore never be taken for one for its successor by the same name, and no
owner can drop a call whose cookie is on its way.  `BusyOK` (the busy counter is
not above the number of existing calls) needs finite cardinalities only.
The two action properties follow from `IInv` by a lemma each: `OnlyOverIsDestroyed` and
`OnlyLatestIsEntered`.

*Asynchronous.*  A handler cancels, drops, and makes calls in one step, so that it is
followed through its intermediate worlds: `WorldOK` is shown for each operator
on a world, and `DeletedOK` for the deletion at the end.  Each call that GLib has to
call back for is in the pool; each that is counted as busy is one GLib has not
called back for; a patient user's call is in its slot.  The slot for the root of a context
may hold a call that was never made, which GLib does not know and nobody is told busy for; a
jump is in its first step just while the call in that slot was made (`WorldOK` has both).

### 4.3 Player

`SaneMirror` is `QueueConsistent` with the types of the queue and of the stream in
flight; it is inductive.  Handlers are shown to satisfy `Sane(F, B, d)`: the queue
of `d` is consistent, it is a subsequence of `B` followed by at most one new stream,
and the stream in flight is in `F`.  Lemmas about sequences without repetitions (one
element taken out, the first one, the first `k`) carry lemmas about each method
of the mirror; those carry one lemma for each operator on the world, in the
order of their calls, up to the handlers.  With `F` and `B` from the state before the
step, the action properties `PlayedFromQueue` and `QueueOrder` come out of the same
lemmas.  The streams the player reports as dropped, played or rejected are
arbitrary there: the mirror copes with whatever the player says.  The only
thing needed from outside is a fresh ID for a new stream (`FreeIds`), which the
guard `Room` provides and which the real program takes from a counter.

`OperationsAccounted` is not inductive, because it says nothing about who starts an
operation where.  `Steady` does: each pointer is to an operation of its kind that has not been
canceled, the skipper's excludes the others; an operation that looks for an item and
has not been canceled is the one player control points to (only those are ever
delayed, so that a delayed one replacing another takes nobody's operation away);
and while our source is not plugged, or has only been requested, the crawler is idle,
no item is marked, and the mirror is empty.  The last part is what makes the find
operation saved in that time safe to run when the source is selected, and it is
the part that a source on hold breaks.  A handler that only cancels or forgets makes less
of everything (`LessOps`), one that starts something finds the pointer empty
(`RunSteady`); these two lemmas carry one lemma for each operator again.  The mirror's
emptiness is `Sane({None}, <<>>, d)`, so that the first part's lemmas apply.

`StreamsAccounted` relates the mirror to the stream player's own queue and to its
signals under way.  `Tracks(X, Q, p)`: the player has each stream in `Q`, but for those
in `X`, or a signal under way tells what became of it; and a stream it has announced is
announced by a signal that has not been handled yet.  The signals count because the player takes a stream out of its
queue before player control hears of it, and `X` because a handler takes note of a
signal before it adjusts the mirror, or the other way around.  `Fine(X, w)` adds to this what each
operator needs and keeps (`Core`): the types, an empty mirror without an intention, the
stream being played not being queued, no stream sent twice, and a found item being in
the list (`RightOp`).  The invariant is `StreamsFine`, which is `Fine({}, Now)`,
together with `SaneMirror` and `ControlSteady`.  The latter is what makes the selection of a requested source
safe: it finds an empty mirror, so that a player which was not ours until then has
nothing to know.  There is one lemma for each operator again, most of them of the form `Leads` (whatever `X`
is, the step does not add to it); retries and the replay of a failed
stream, which clear the player's queue and push its streams again, are followed through each of their worlds.

### 4.4 Lists

`QueriesOK`: an unreported query is the current one, and only it can report; a
restarted query has a successor.  The two theorems about lines do not need it, but only
the types of queries (`QueryTypes`), which hold with or without restarts; this is why
they have no condition.  `CacheInv` is about viewports and
loads: `CallsOK` (a viewport's fetcher exists and is its own), `ItemsOK` (a viewport that is not
`spoiled` has all its lines in RAM or none, each of them from
the list or from one it has replaced, and at its place), `LoadingOK` (unless its viewport has
`strayed`, a load that can still be used is for the lines its viewport misses, of a list that
has the size the viewport was set up for).  Entering a list lets each viewport stray
whose lines are being loaded; asking for lines anew brings it back.  Lemmas about segments (what remains to be loaded for each of the ways two
segments overlap) and about moving and filling items carry the proof; the
arithmetic is done once in them.

### 4.5 User input

*Cursor.*  `Shown` (cursor and first line of the display within the list, and the
cursor on the display) is kept by each method of the navigation; `NoItemSkipped`
follows from a lemma about moving down by any number of lines.

*Search.*  `SearchInv` says what the locals of the nested binary searches mean: all
items from `all_top_` to `all_bottom_` are exactly those that begin with the part of
the string looked at so far (`RestOK`); while this range is narrowed for the next
character, the upper partition contains the first item with that character and the
lower one the last, if there is one (`TopOK`, `BottomOK`).  Comparing the rest of the list with a character
is reduced to ranks (smaller, equal, greater), which ascend in a sorted list.  No induction on strings is needed, as the search itself goes
character by character.

*Play view.*  `PlayInv` has a part about events: those in the queue lead from what is
known to what the player does (`IsHistory`), which gives `StreamIsKnown` when the
queue is empty.  `ScreenOK` is about the display: each part of the screen shows
what is known, or is flagged in the view or in the queue entry, which is going to
be written.  The proof also shows that the check of the stream ID in the
handler for meta data never rejects an event.

### 4.6 Crawler operations and enforcers

*Operations.*  One operation at most looks for something (`SearchersOK`), which is
what the players' habits come to; hence a query for a list, and each operation that
waits for an item, belongs to it (`WaitsOK`), and the operation which
`async_list__enter_list_event()` finds by its place is the one that has asked.  This
is where `~ReturnsToPlaces` is needed: the loop takes the first operation with a
matching place, whatever its state, and with a canceled one for the same place still
registered it may tell the wrong one.  Events fit the states of operations and there
is one at most for each (`EventsOK`); who waits has no event (`WaitsOK`, `DelayedOK`);
and a registered operation has an event, a query, a request or a timer, unless it was
canceled while it waited for the list (`PendingOK`).  Starting, finishing, waiting and
canceling have a lemma each, which the actions cite.  That a player is
notified once needs none of this, but only that registered operations are the current
player's and have not been reported (`Uncalled`).

*Enforcers.*  `EnforcerIInv`: an enforcer whose timer or call is outstanding exists and holds itself;
a message that asks for a list belongs to the call of one enforcer (`RequestsOK`); a
list nobody enforces is let go by a message behind those which ask for it
(`OthersLetGo`); the list of the crawler's enforcer is kept or asked for, and no later
message lets it go (`OwnKept`).  `InTime(ms)` is the
condition on expiry times under which the next refresh is early enough: more
than a second and up to three and a half minutes, or more than half an hour; it is
a plain condition on numbers that the lemma `RefreshIsInTime` derives from the code's
divisions.

### 4.7 Views

`SearchRequestIsOwned` is inductive: each way out of waiting (an event, another view,
the parameters) ends the wait and the search view's knowledge of it in the same step.
`AllIsShown` is about a state in which nothing is on its way, and says nothing about
how that state is reached.  The invariant `IInv` therefore says what is still on its
way.  `ViewComes`: the active view is in the queue in full, or being written in
full, or what the display shows once dcpd has answered (`ViewToShow`) is that view
or the player, or the view is a browser that was left out because it was entering a list
(`dropped`): it gets out of that set only by being written or by asking for it.  `LineComes`: the same for each line of the REST view, which may
also be flagged or empty.  After a refusal neither has to hold until the
active view has been shown in full; for lines, the complete REST view on the wire counts
already (`LinesCount`), because its answer ends that time.  `ErrorsOK`: the error view
is in the queue or being written, not both, just as long as there are errors,
whichever thread has told of them; the D-Bus thread may be between its two locks
meanwhile.  `AddedIs` (an entry of a view is extended, or the only one of that view is
appended) carries `AskKeeps`, one lemma for everything that asks for views at rest,
which all actions but those that write, start or answer a transaction, and the
D-Bus thread's error, come down to.

### 4.8 Browser navigation

`FirstStepEnds` is about the assertion in `put_parent_list_id()`
(`view_filebrowser.hh:120-125`): whatever gets in the way of navigation, a jump is in its
first step just while the call for the root of its context is on its way.  The invariant
`Jumps(b)` is a statement on a browser as a value, so that handlers calling each other
can be followed from value to value; beside the theorem's statement it says that the slot for
list IDs is empty in the first step, so that no other answer can be put into the jump.
There is a lemma for each way a call, a link or a query may end, and for each way
navigation may begin.

This is the only theorem about navigation.  That later steps of a jump go on, that the
view comes to rest in a list that exists, and that lists fit their contexts does not hold
with all of `Interruptions` (finding 15), and is model-checked for the one of them the code
copes with.

### 4.9 Audio sources

*Plug.*  `PlugInv` is inductive; its core is `Tidy`, a statement on the player control as a
value that each of its methods keeps: nothing is left when it is not plugged, and an
operation saved while a source is requested is for that source.

*Path.*  `SettlesOnPath` is about a state in which everything that was said has been heard.
`SettleInv` says what is still to be heard.  Messages of the manager come in order, the
last one is the current path (`Announced`); a source that was selected and has lost the
path since is deselected later in the queue (`Superseded`), and the source of the
path is selected in the queue after all others were, or has been (`Coming`,
`OnlyPath`).  `WillLeave`: a source that is selected or requested without having the path
is going to be deselected, or the manager has yet to see the request.  `WillArrive`: the
source of the path is selected and plugged, unless another one has been requested
meanwhile, and then the path will change again, or the request was refused.  A refused source
stays requested until it gets the path or hears that it has lost it (`Asked`).  `NotDeaf`: the
control may be plugged to a source that has just been deselected, but then the message
to be heard next is about another source, which takes the plug.

### 4.10 Checked by TLC only

- Liveness, which is out of reach of the prover here: `UpdatesGetTheirTurn`,
  `WaitEnds`, `OrphansEnd`, and `SearchEnds` of `UserInput` and `DirectoryTraversal`.
- `FindsNeighbour` of `DirectoryTraversal`, whose
  reference is the order of all files of a tree, which is defined by recursion over the tree.
- `JumpEndsInLivingList` and `ListsFitContext` of `BrowserNavigation`, but for the first
  step of a jump (4.8).

## 5. Findings

Where the code does not do what it or its documentation says, as seen with TLC.
The properties named here are defined in the modules beside those that hold.  To
reproduce one of them, change the `.cfg` named as said, and check the property alone.

### 5.1 Display pipeline

1. `DCP::Queue::add()` merges a busy value into the entry the view already has
   (`dcp_transaction_queue.cc:60`).  An older value queued for another view
   behind it is sent later, and the display shows "busy" while nothing is.
   (`Pipeline_main`: `Spec`, `Flags = {}`, `Answers = {"OK"}`, `BusyReported`.)
2. After a timeout, the late `OK` for the aborted transaction finds the next
   one in state `STARTED_ASYNC` without data; the assertion in
   `finish_transaction()` (`dcp_transaction_queue.cc:169`) fails.
   (`Pipeline_main`: `Spec`, `Views = {browser}`, `Unconditional = {}`, `Flags = {}`,
   `Answers = {"OK"}`, `Dcpd = "late"`, `MaxUnanswered = 2`, `AnswerHasData`.)
3. Flags raised by the main loop between `add()` and `update_flags_ = 0`
   (`view_serialize.hh:284`) are lost if the D-Bus thread serializes the view.
   (`Pipeline_main`: `Spec`, `Views = {play}`, `Browsers = {}`, `Answers = {"OK"}`,
   `LanguageChanges = TRUE`, `FlagsAccounted`.)
4. With a language change on the D-Bus thread in between, a timer can be armed by
   that thread while the callback of the expired one is still running; the
   return value of the callback then zeroes the ID of the new one
   (`timeout.cc:80`).  The new source still fires but cannot be stopped, and its
   expiry is ignored or attributed to another wait.
   (`Pipeline_late`: `Spec`, `RacingTimeouts = TRUE`, `TimeoutArmed`.)

Also: `append_busy_value()` (`view_serialize.hh:232`) writes nothing if writing the
view triggered loading and the entry says "busy" already, so that the
notification is swallowed (the ghost `sent_busy` follows the code here); and a
language change on the D-Bus thread may serialize a view which the main loop is about to
serialize, as `is_serializing_` is tested and set without a lock.

### 5.2 Calls

5. `abort_request()` takes the cookie from the call first; if the abort fails
   the call still gets ready, and its result is fetched with cookie 0
   (`rnfcall.cc:88`).  (`Calls_main`: calls `c1`, `c2` only, both in `Child`,
   `Replies = {"cookie"}`, `Aborts = {"failed"}`, `FetchesByCookie`.)
6. If the root list ID cannot be fetched due to an exception, the call stays in
   the slot (`view_filebrowser.cc:1889`) and the device stays busy.
   (`Calls_main`: call `r1` only, `Fetches = {"exception"}`, `NotBusyAtRest`.)
   The next navigation aborts a call that is over, which is the message "Multiple
   aborts of RNF call" (`rnfcall.cc:69`).

Also: the busy flag of a call to a child is cleared by
`sink_point_to_child_error()` (`view_filebrowser.cc:2142`, before it looks at the
error) and again by the destructor of the call; the second one may hit the flag
of the next call, which then waits without the display being busy.  The same
happens to asynchronous calls: the late callback of a canceled one clears the busy
flag twice (`dbus_async.hh:541`), which is seen by users who are not `patient`.

A view asked to jump to the context it is jumping to already puts a new call in the
slot and returns without making it (`view_filebrowser.cc:2038-2078`).  The next navigation
cancels that call, where the assertion of `cancel()` that the call is active
(`dbus_async.hh`) fails, and without assertions its destruction clears a busy flag nobody has
set.  (`Calls_main`: `CallsAreMade`.)  `CallsAreKept` and `BusyWhileWaiting` allow for such calls.

### 5.3 Player

7. When the player announces a stream, the play view sets the intention to
   listening (`view_play.cc:616`), also if the user has asked for a pause in the
   meantime.  The pause is undone as soon as the player reports it, although
   "the stream state should follow the user's intention"
   (`player_data.hh:45`).  A stop is overridden in the same way.  (`Player_main`:
   `Commands = {"play", "pause"}`, `Faults = {}`, `MaxFaults = 0`, `PauseHolds`.)

Seen with TLC on `PlayerControl`, where the code copes, stops or dies:

- When the last stream ends while the next one is being pushed,
  `stop_notification_ok()` (`player_control.cc:1592`) takes it for the end of
  the list and gives up control, and "Queues out of sync" is logged.
- The retry counter belongs to a stream ID, but a change of the ID does not
  reset it (`player_control.hh:167-193`; `playing()` only stores the ID), so
  that the failures of one stream count against the next.
- A skip that runs into the end of the list before the first stream was
  announced reverts to a bookmark that does not exist (null pointer).
- An operation that is canceled after it is done, but before its event is
  handled, reports to whoever took its place.  A skip operation then finds the
  skipper's pointer null; the lookup for a play request clears the pointer to
  its successor, and the successor fails the assertion at
  `player_control.cc:591` or the one for prefetching (this takes two failures).
- The operation that moves back to the current item after a failed skip may
  be overtaken by another skip, which it resets on completion; the intention
  remains "skipping".
- A second play request overwrites the pointer to the operation that fetches
  URIs for the first one (`player_control.cc:642`) and both push a stream.
- The find operation saved while the source was not selected remains saved when
  the source is selected on hold, and is run when the source is selected without
  hold, whatever has been started meanwhile (`player_control.cc:923`): also while
  the skipper is looking for an item.  (`Player_main`: `Faults = {"hold"}`,
  `Commands = {"play", "start", "next", "pause"}`, `MaxCommands = 5`, `SkipAlone`.)
- References to lists are given up twice for streams reported as dropped or
  rejected (`player_data.cc:626-730`): by the queue's callback and by its caller.
- Streams that were queued behind one which is tried again are pushed to the
  player again, but its answer to the first push has removed them from the
  mirror already.
- A complete unplug forgets the audio source before it would clear the URL FIFO
  through it, hence the FIFO is not cleared.
- A play request is ignored while the source is plugged, but deselected.
- The test for `"io"` in `player_stopped_reason.hh:95` holds for every string
  but `"io"`.
- Winding calls the audio source through a pointer that is null when nothing is
  plugged (`player_control.cc:1406`).

### 5.4 Lists and user input

8. A view which has been moved while lines are loaded gets them in the wrong places
   (`dbuslist.cc:957`), and so does one whose list was entered meanwhile
   (`Lists_main`: `LinesFindTheirView`); there may even be no room for them
   (`ramlist.cc:62`; `LinesAlwaysFit`).  When a list is replaced while it is being
   entered, the query is restarted and the answer is reported to the caller of the
   old one (`dbuslist.cc:385-452`; `EnteredListsChange = TRUE`, `AnswerForCurrentQuery`).
9. A move up by several lines wraps around to the end of the list also from its
   second item (`listnav.hh:372`), although it should snap to the top there
   (`tests/test_listnav.cc`; property `WrapsFromEndOnly`).
10. The search asks for a character behind the end of an item that is shorter than
    the string, where an assertion fails (`search_algo.cc:82`; `KeyIsValid`).
    `FindsFirstMatch` is about searches that are not ended by it.
11. If the player announces a stream a second time with other meta data, the play view
    takes over the data, but asks for the playback state only to be written
    (`view_play.cc:628`; `RenewsMetaData = TRUE` violates `KnownAndShown`).
    Speed changes and streams dropped early are not bounced to the play view when
    another view is active (`view_manager.cc:439-462`); play modes are reset
    without a flag; stream information is shown only for the stream that has not been
    switched since.

### 5.5 Crawlers and enforcers

12. For lists that expire after ten minutes, the next refresh is scheduled too late
    (`cacheenforcer.cc:29-46`; `Enforcer_main` with `Expiries <- MCTenMinutes`).
13. An operation to find the next item takes the traversal list for that of its
    position ("we may assume that the list and our cursor are doing fine",
    `directory_crawler_find_next_op.cc:672`).  If another list has been entered since, it
    finds an item of that list and reports a position in its own (`ListLeft = TRUE` violates
    `FoundAtPosition`).
14. A crawler says it is busy when its operations have been canceled and nobody
    continues them (`player_control.cc:1977`; `BusyMeansWorking`).

A search may skip files (`Crawl_main`: `NoFileIsSkipped`):

- Going backward, an operation which has come to a directory from behind passes over the
  directory's first item, if it could not enter any item after it: it takes the line
  for one it has been at.  A directory with a single file is always passed over
  (`directory_crawler_find_next_op.cc:208-217`, `:489`; `IsPassedOver`).
- An operation that starts in a list which is entered already does not count the level of
  that list (`:659-663`): the search goes a level deeper than `MAX_DIRECTORY_DEPTH`, and
  ends when it returns from a directory of that list, as if it were at the end (`:389`;
  the ghost `uncounted`).

`FindsNeighbour` is about all other files.  A load that has failed is started again by the callback, which
does not look at the result (`:225-233`), without limit or delay; `SearchEnds` is about searches
whose loads do not fail for ever.

Also: a list that has been entered is reported to the first operation that has asked for
that place, whatever its state (`directory_crawler.cc:133-167`).  If an operation can return
to a place which a canceled one has asked for (`ReturnsToPlaces = TRUE` in `Ops_main`), the
canceled one is told and ends twice, or the other one is never continued.

### 5.6 Browser, views, audio sources

15. Each member of `Interruptions` but `"by_user_early"` lets TLC violate a property of `Browser_main`:
    `"by_user"` and `"by_free_search"` leave a list shown which does not fit the
    context; `"by_source"`, `"by_reload"`, `"by_failure"` and `"by_broker"` leave a
    jump that nothing continues, or a view in a list that is gone.  Among the
    sequences: the user goes back while the root is asked for after a list was
    removed; the root call fails; the ID of the root is taken from a list that is not
    the root when `ENTER_ROOT` was canceled (`view_filebrowser.cc:129`); a late
    `CANCELED` event deletes the call in the slot that belongs to the next
    navigation (`view_filebrowser.cc:82`).
16. An error sunk by the D-Bus thread takes `errors_lock_` and then the lock of the
    active transaction; the main thread takes them in the opposite order when
    it writes the error view (`view_error_sink.cc:32-46`; `LocksCross = TRUE`
    violates `NoLockCycle`).
17. The search view can be written without a context (`view_search.cc:103`;
    `FormHasContext`), and a REST view whose lines have both been cleared does not show
    its fallback string, although "If both lines are cleared, then a fallback string
    will be show instead" (`view_src_rest.hh`; `RestIsShown`).
18. The operation saved until the source is selected is lost when the user plays
    again before (`player_control.cc:520`; `SavedForLater`).  Audio path changes to a
    source of our own do get to the handler that denies it (`view_play.cc:348`;
    `OnlyForeignPaths`), and a source is switched in states said to be impossible
    (`audiosource.hh`; `NoBogusSwitch`).  A source can be played while another one is
    plugged (`PlaysPluggedSource`).
    If the request for a source is refused or fails, the source stays requested and the
    control plugged to it (`player_control.cc:70-78`); playing from it once more does not
    request it again (`PlayingRequests`), so that the play request is saved for a
    selection nobody has asked for.
19. A resumer is kept by value, but starts its call through `shared_from_this()`,
    which throws (`rnfcall.hh:486`); an empty function is called if the path
    changes before a view has registered one (`view_play.cc:324`).  (`Survives`.)
20. A browser that is entering a list when its turn in the queue has come is not written, and
    its queue entry is forgotten (`view_filebrowser.cc:1452-1454`,
    `dcp_transaction_queue.cc:146-150`).  If the list it enters is removed then, the query is
    canceled and nobody asks for the view to be written any more (`dbuslist.cc:298-320`): the
    display goes on showing the view before.  (`Views_main`: `DroppedIsWritten`.)
    `AllIsShown` is about the active view in all other cases.

## 6. Not modelled, and why

- *Contexts, configuration, texts*: tables, files and translations; sequential.
- *JSON parser, tests, build files*: vendored, or no part of the program.
- *I/O and presentation*: the pipes and their reopening, XML and escaping, logging,
  the command line, the texts of list items.
- *D-Bus marshalling* (`dbus_iface.cc`, generated proxies, most of `dbus_handlers.cc`):
  conversions of parameters into UI events; handlers appear as the steps that post
  those events.
- *Permissions* other than those of section 2.4, bit rate limits, Airable's ranked
  links, login errors and OAuth requests beyond their effect on jumps.
- *Data races on single members* (`update_flags_`, `is_serializing_`, `allowed_context`,
  the value passed to the busy callback at `busy.cc:199`): each access is taken to be
  atomic.
- *Filters that hide list items* (`listnav.hh`): used by tests only.
- *The answers to calls that realize a location* (`player_resumer.hh`): starting such a call
  throws (finding 19), so nothing is answered.
- `List::enter_list()` (synchronous) and blocking waits for asynchronous D-Bus calls:
  nothing calls them.

Beyond these, `PROJECT.json` says for each component what is left out of it.

## 7. Plan

What section 6 leaves out apart, the following is left:

1. `FindsNeighbour`: the position against an order on all files, for any tree.  The order is
   defined by recursion over the tree, and what it says of any tree takes an induction
   that the installed provers cannot instantiate; an order given as a constant with
   assumptions would be a way around it.
2. `JumpEndsInLivingList` and `ListsFitContext` under the interruptions the code copes with, and a weaker
   form of them, with what goes astray kept in ghosts as in `DBusList`, under the others.
3. `StreamsAccounted` for a source that is put on hold, which takes an invariant weaker
   than `Steady`.
