-------------------------------- MODULE Views --------------------------------
(***************************************************************************)
(* The view manager with the views it shows: which view is active, which   *)
(* one to go back to, how a browser asks for search parameters and gets    *)
(* them, how errors from two threads reach the display, and what the       *)
(* display shows in the end.  Source: view_manager.cc, view_search.cc,     *)
(* view_error_sink.cc, view_src_rest.cc, the search protocol of            *)
(* view_filebrowser.cc.                                                    *)
(*                                                                         *)
(* DisplayPipeline has the details of transactions; here a transaction is  *)
(* idle, started asynchronously, being written, or waiting for an answer,  *)
(* and the locks matter: the lock of the active transaction is held in the *)
(* states "loop" and "write" of the main thread, the lock of the errors is *)
(* held by the D-Bus thread in its state "start".                          *)
(***************************************************************************)
EXTENDS Sequences, SequencesExt, Naturals

CONSTANTS
    Browsers,       \* file browser views
    Errors,         \* things that may go wrong
    Texts,          \* texts a REST client may put into a line
    Answers,        \* what dcpd may answer: a subset of {"OK", "FAILED"}
    LocksCross,     \* whether the two threads may be between two locks at once
    MaxQueue,       \* bound of the queue, errors not counted
    None

\* No view is taken for another one, nor a text for what is shown in its place.
ASSUME ViewsAssumption ==
    /\ Browsers \cap {"player", "rest", "inactive", "search", "errors"} = {}
    /\ None \notin Browsers \cup {"player", "rest", "inactive", "search", "errors"}
    /\ Texts \cap {"empty", "fallback"} = {}
ASSUME BoundsAssumption == LocksCross \in BOOLEAN /\ Answers \subseteq {"OK", "FAILED"}

VARIABLES
    active,         \* ViewManager::Manager::active_view_
    return_to,      \* return_to_view_
    waiting,        \* the browsers with waiting_for_search_parameters_
    request_view,   \* ViewSearch::View::request_view_
    context,        \* ViewSearch::View::request_context_, None if empty
    query,          \* the context in ViewSearch::View::query_, or None
    errors,         \* ViewErrorSink::View::errors_
    lines,          \* ViewSourceREST::View::lines_
    flags,          \* the lines in update_flags_ of the REST view
    queue,          \* DCP::Queue::q_.data_
    tx,             \* "idle", "async", "writing", "answer"
    entry,          \* DCP::Queue::active_.data_, or None
    main,           \* main thread: "rest", "enter", "loop", "write", "dead"
    dbus,           \* D-Bus thread: "rest", "start"
    shown,          \* the view the display shows
    display,        \* what it shows in the lines of the REST view
    requests,       \* bound: which kind of requests a behaviour has
    failed,         \* dcpd has refused something, and not shown it since
    entering,       \* the browsers whose DBusList has enter_list_data_.query_
    dropped         \* history: the browsers left out when they were to be written
                    \* in full, and neither written nor told of a list since

search == <<waiting, request_view, context, query>>
rest == <<lines, flags>>
lists == <<entering, dropped>>
client == <<shown, display, failed, requests, lists>>
vars == <<active, return_to, search, errors, rest, queue, tx, entry, main,
          dbus, client>>

Lines == {1, 2}
Targets == Browsers \cup {"player", "rest", "inactive"}
AllViews == Targets \cup {"search", "errors"}
Empty == "empty"            \* the empty line
Fallback == "fallback"      \* the name of the view, shown instead of lines
Shown == Texts \cup {Empty, Fallback}

CanReturnTo(v) == v \in Browsers \cup {"rest"}
CanHide(v) == v \notin Browsers \cup {"rest"}

EntryOf(v, full, fl) == [view |-> v, full |-> full, flags |-> fl]

TypeOK ==
    /\ active \in Targets
    /\ return_to \in Browsers \cup {"rest", None}
    /\ waiting \subseteq Browsers
    /\ {request_view, context, query} \subseteq Browsers \cup {None}
    /\ \A i \in DOMAIN errors : errors[i] \in Errors
    /\ lines \in [Lines -> Texts \cup {Empty}]
    /\ flags \subseteq Lines
    /\ \A i \in DOMAIN queue : queue[i].view \in AllViews /\ queue[i].full \in BOOLEAN
    /\ tx \in {"idle", "async", "writing", "answer"}
    /\ main \in {"rest", "enter", "loop", "write", "dead"}
    /\ dbus \in {"rest", "start"}
    /\ shown \in Targets /\ failed \in BOOLEAN
    /\ display \in [Lines -> Shown]
    /\ entering \subseteq Browsers /\ dropped \subseteq Browsers

Init ==
    /\ active = "inactive" /\ return_to = None
    /\ waiting = {} /\ request_view = None /\ context = None /\ query = None
    /\ errors = <<>>
    /\ lines = [l \in Lines |-> Empty] /\ flags = {}
    /\ queue = <<>> /\ tx = "idle" /\ entry = None
    /\ main = "rest" /\ dbus = "rest"
    /\ shown = "inactive"
    /\ display = [l \in Lines |-> Empty]
    /\ failed = FALSE
    /\ requests \in {"search", "lists", "display"}
    /\ entering = {} /\ dropped = {}

-----------------------------------------------------------------------------
(* Queuing.                                                                *)

(* An entry of the view in the queue is extended in its place.             *)
Added(q, v, full, fl) ==
    LET i == SelectInSeq(q, LAMBDA e : e.view = v)
    IN  IF i = 0
        THEN Append(q, EntryOf(v, full, fl))
        ELSE [q EXCEPT ![i].full = @ \/ full, ![i].flags = @ \cup fl]

FlagsOf(v, fl) == IF v = "rest" THEN fl ELSE {}

(* The search view is serialized only while it has a context, the inactive *)
(* view never.                                                             *)
IsSerialized(v, ctx) == v # "inactive" /\ (v = "search" => ctx # None)

(* What is left in the queue after asking to serialize a view, and after   *)
(* asking for those of a sequence of pairs <<view, full>>, two at most.    *)
AskedFor(q, t, ctx, fl) ==
    IF IsSerialized(t[1], ctx) THEN Added(q, t[1], t[2], FlagsOf(t[1], fl)) ELSE q

Serialized(q, todo, ctx, fl) ==
    CASE Len(todo) = 0 -> q
      [] Len(todo) = 1 -> AskedFor(q, todo[1], ctx, fl)
      [] Len(todo) = 2 -> AskedFor(AskedFor(q, todo[1], ctx, fl), todo[2], ctx, fl)

WithinBound(q) == Len(SelectSeq(q, LAMBDA e : e.view # "errors")) <= MaxQueue

FlagsLeft(todo, fl) ==
    IF \E i \in DOMAIN todo : todo[i][1] = "rest" THEN {} ELSE fl

(* Mode::SYNC_IF_POSSIBLE: the calling main thread goes on to write.       *)
SerializeSync(todo, fl) ==
    /\ queue' = Serialized(queue, todo, context', fl)
    /\ WithinBound(queue')
    /\ flags' = FlagsLeft(todo, fl)
    /\ main' = IF queue' # <<>> /\ tx = "idle"
                  /\ \E i \in DOMAIN todo : IsSerialized(todo[i][1], context')
               THEN "enter" ELSE "rest"
    /\ UNCHANGED tx

(* Mode::FORCE_ASYNC: the main loop will write later.                      *)
SerializeAsync(todo, fl) ==
    /\ queue' = Serialized(queue, todo, context', fl)
    /\ WithinBound(queue')
    /\ flags' = FlagsLeft(todo, fl)
    /\ tx' = IF queue' # <<>> /\ tx = "idle"
                /\ \E i \in DOMAIN todo : IsSerialized(todo[i][1], context')
             THEN "async" ELSE tx
    /\ main' = "rest"

-----------------------------------------------------------------------------
(* Activation.                                                             *)

\* Mutant: the search view keeps what it knows.
defocus_keeps_request(v) ==
    IF v \in Browsers
    THEN waiting' = waiting \ {v} /\ UNCHANGED <<request_view, context, query>>
    ELSE UNCHANGED search

(* Losing the focus ends the wait of a browser for parameters and makes    *)
(* the search view forget what it knows; other views have nothing to do.   *)
defocus(v) ==
    IF v \in Browsers
    THEN /\ waiting' = waiting \ {v}
         /\ request_view' = None /\ context' = None /\ query' = None
    ELSE UNCHANGED search

activate_view(v, enforce) ==
    IF v = None \/ (v = active /\ ~enforce)
    THEN UNCHANGED <<active, return_to, search, flags, queue, main, tx>>
    ELSE /\ defocus(active)
         /\ active' = v
         /\ SerializeSync(<<<<v, TRUE>>>>, flags)
         /\ return_to' = IF CanReturnTo(v) THEN v ELSE return_to

AtRest == main = "rest"

(* A view is opened over D-Bus, or because its audio source was selected.  *)
OpenView(v) ==
    /\ AtRest
    /\ activate_view(v, TRUE)
    /\ UNCHANGED <<errors, lines, entry, dbus, client>>

ToggleTarget(a, b) == IF a # b /\ a = active THEN b ELSE a

ToggleViews(a, b) ==
    /\ AtRest
    /\ activate_view(ToggleTarget(a, b), TRUE)
    /\ UNCHANGED <<errors, lines, entry, dbus, client>>

(* A stream has started: the player is shown unless it is already.         *)
NowPlaying ==
    /\ AtRest
    /\ activate_view("player", FALSE)
    /\ UNCHANGED <<errors, lines, entry, dbus, client>>

(* The audio source is gone.                                               *)
SourceGone ==
    /\ AtRest
    /\ activate_view("inactive", FALSE)
    /\ UNCHANGED <<errors, lines, entry, dbus, client>>

(* The user leaves the player, or the player has finished: it is hidden.   *)
HidePlayer ==
    /\ AtRest /\ active = "player" /\ CanHide(active)
    /\ activate_view(return_to, TRUE)
    /\ UNCHANGED <<errors, lines, entry, dbus, client>>

(* The busy state has changed, or a list has been loaded.                  *)
UpdateActive ==
    /\ AtRest
    /\ UNCHANGED search
    /\ SerializeAsync(<<<<active, FALSE>>>>, flags)
    /\ UNCHANGED <<active, return_to, errors, lines, entry, dbus, client>>

-----------------------------------------------------------------------------
(* Lists.                                                                  *)

EnterResults == {"SUCCEEDED", "FAILED", "CANCELED", "RESTARTED"}

(* A browser begins to enter a list, the active one or another.            *)
EnterList(b) ==
    /\ AtRest
    /\ entering' = entering \cup {b}
    /\ UNCHANGED <<active, return_to, search, errors, rest, queue, tx, entry, main,
                   dbus, shown, display, failed, requests, dropped>>

(* handle_enter_list_event_update_after_finish(): the browser is written   *)
(* anew unless the query was canceled, as it is when the list to be        *)
(* entered is removed.  If that list has been replaced then its query was  *)
(* restarted, and the DBusList keeps the new one when it is answered.      *)
EnterListDone(b, result) ==
    /\ AtRest /\ b \in entering
    /\ entering' = IF result = "RESTARTED" THEN entering ELSE entering \ {b}
    /\ dropped' = IF result = "CANCELED" THEN dropped ELSE dropped \ {b}
    /\ UNCHANGED search
    /\ SerializeAsync(IF result # "CANCELED" /\ b = active THEN <<<<b, TRUE>>>> ELSE <<>>,
                      flags)
    /\ UNCHANGED <<active, return_to, errors, lines, entry, dbus, shown, display,
                   failed, requests>>

-----------------------------------------------------------------------------
(* Searching.                                                              *)

\* Mutant: the search view keeps waiting for the form.
AfterEvent_keeps_request(b, keep, keep_parameters, asked) ==
    /\ waiting' = IF keep THEN waiting \cup {b} ELSE waiting \ {b}
    /\ request_view' = IF asked THEN b ELSE request_view
    /\ context' = IF asked THEN b ELSE context
    /\ UNCHANGED query

(* WaitForParametersHelper: after an event the browser waits if it has     *)
(* asked for parameters while handling it (keep), otherwise it stops       *)
(* waiting; parameters it has not waited for are forgotten unless they     *)
(* have just come in (keep_parameters).                                    *)
AfterEvent(b, keep, keep_parameters, asked) ==
    LET forget == \/ b \in waiting /\ ~keep
                  \/ query # None /\ ~keep_parameters
    IN  /\ waiting' = IF keep THEN waiting \cup {b}
                      ELSE IF forget THEN waiting \ {b} ELSE waiting
        /\ request_view' = IF forget THEN None ELSE IF asked THEN b ELSE request_view
        /\ context' = IF forget THEN None ELSE IF asked THEN b ELSE context
        /\ query' = IF forget THEN None ELSE query

Updates(b, updated) == IF updated /\ b = active THEN <<<<b, FALSE>>>> ELSE <<>>

(* Any other event ends the wait.  The browser for the internet radio gets *)
(* some of its events while it is not active.                              *)
BrowserEvent(b, updated) ==
    /\ AtRest
    /\ AfterEvent(b, FALSE, FALSE, FALSE)
    /\ SerializeSync(Updates(b, updated), flags)
    /\ UNCHANGED <<active, return_to, errors, lines, entry, dbus, client>>

(* SEARCH_COMMENCE: the context may not support searching, or have no      *)
(* form; otherwise the search view is shown, and the list with the form is *)
(* entered if there is one (navigating).                                   *)
SearchCommence(b, possible, navigating) ==
    /\ AtRest /\ b = active /\ b \in Browsers
    /\ query = None
    /\ AfterEvent(b, possible, FALSE, possible)
    /\ SerializeSync((IF possible THEN <<<<"search", TRUE>>>> ELSE <<>>)
                        \o Updates(b, navigating), flags)
    /\ UNCHANGED <<active, return_to, errors, lines, entry, dbus, client>>

(* SEARCH_STORE_PARAMETERS is bounced to the search view, which drops the  *)
(* parameters if nobody has asked for any, and bounces them to the view    *)
(* that has asked otherwise.  If that view is waiting then it applies them *)
(* and makes the search view forget them, whatever comes out of it.        *)
StoreParameters(ctx, found) ==
    /\ AtRest
    /\ IF request_view = None
       THEN /\ query' = None
            /\ UNCHANGED <<waiting, request_view, context>>
            /\ SerializeSync(<<>>, flags)
       ELSE IF request_view \notin waiting
       THEN /\ query' = ctx
            /\ UNCHANGED <<waiting, request_view, context>>
            /\ SerializeSync(<<>>, flags)
       ELSE /\ waiting' = waiting \ {request_view}
            /\ request_view' = None /\ context' = None /\ query' = None
            /\ SerializeSync(Updates(request_view, found), flags)
    /\ UNCHANGED <<active, return_to, errors, lines, entry, dbus, client>>

-----------------------------------------------------------------------------
(* Errors.                                                                 *)

(* Only the first error in an empty list needs a transaction: the error    *)
(* view asks for the next one itself.                                      *)
NeedsSerialize(errs) == errs = <<>>
(* Errors are told in the main thread when a list cannot be entered, ...   *)
SinkInMain(e) ==
    /\ AtRest /\ dbus = "rest"
    /\ errors' = Append(errors, e)
    /\ UNCHANGED search
    /\ SerializeAsync(IF NeedsSerialize(errors) THEN <<<<"errors", TRUE>>>> ELSE <<>>,
                      flags)
    /\ UNCHANGED <<active, return_to, lines, entry, dbus, client>>

(* ... and in the D-Bus thread when another program has signaled one.      *)
SinkInDBus(e) ==
    /\ main # "dead" /\ dbus = "rest"
    /\ LocksCross \/ main \in {"rest", "enter"}
    /\ errors' = Append(errors, e)
    /\ IF NeedsSerialize(errors)
       THEN queue' = Added(queue, "errors", TRUE, {}) /\ dbus' = "start"
       ELSE UNCHANGED <<queue, dbus>>
    /\ UNCHANGED <<active, return_to, search, rest, tx, entry, main, client>>

(* The D-Bus thread, holding the lock of the errors, needs the lock of the *)
(* active transaction.                                                     *)
StartInDBus ==
    /\ dbus = "start" /\ main \notin {"loop", "write", "dead"}
    /\ dbus' = "rest"
    /\ tx' = IF queue # <<>> /\ tx = "idle" THEN "async" ELSE tx
    /\ UNCHANGED <<active, return_to, search, errors, rest, queue, entry, main,
                   client>>

-----------------------------------------------------------------------------
\* Mutant: the wrong flag is raised for the second line.
SetLine_first_only(l, text, fl) == IF lines[l] = text THEN fl ELSE fl \cup {1}

(* REST client.                                                            *)

(* set_line() raises a flag if the text of the line changes.               *)
SetLine(l, text, fl) == IF lines[l] = text THEN fl ELSE fl \cup {l}
(* A request changes the lines it contains; a complete one (display_set)   *)
(* clears the others.  The result for the second line of a complete        *)
(* request that does not contain it replaces the one for the first line.   *)
DisplayUpdate(complete, contains, text, title_changed) ==
    LET new == [l \in Lines |-> IF l \in contains THEN text[l]
                                ELSE IF complete THEN Empty ELSE lines[l]]
        first == new[1] # lines[1]
        second == new[2] # lines[2]
        changed_lines == IF complete /\ 2 \notin contains THEN second
                         ELSE first \/ second
        todo == IF active # "rest" THEN <<>>
                ELSE IF title_changed THEN <<<<"rest", TRUE>>>>
                ELSE IF changed_lines THEN <<<<"rest", FALSE>>>>
                ELSE <<>>
    IN  /\ AtRest
        /\ lines' = new
        /\ UNCHANGED search
        /\ SerializeSync(todo, SetLine(2, new[2], SetLine(1, new[1], flags)))
        /\ UNCHANGED <<active, return_to, errors, entry, dbus, client>>

(* If both lines are empty then the name of the view is written, and only  *)
(* to the first line.                                                      *)
LinesWritten(full, fl) ==
    IF \A l \in Lines : lines[l] = Empty
    THEN [l \in {1} |-> Fallback]
    ELSE [l \in (IF full THEN Lines ELSE fl) |-> lines[l]]

-----------------------------------------------------------------------------
(* Writing.                                                                *)

(* The main loop gets to a transaction started asynchronously.             *)
ProcessDeferred ==
    /\ AtRest /\ tx = "async"
    /\ main' = "enter"
    /\ UNCHANGED <<active, return_to, search, errors, rest, queue, tx, entry,
                   dbus, client>>

TakeEntry ==
    /\ main \in {"enter", "loop"}
    /\ LocksCross \/ dbus = "rest"
    /\ IF queue = <<>> \/ tx \notin {"idle", "async"}
       THEN main' = "rest" /\ UNCHANGED <<queue, tx, entry>>
       ELSE /\ main' = "write" /\ tx' = "writing"
            /\ entry' = Head(queue) /\ queue' = Tail(queue)
    /\ UNCHANGED <<active, return_to, search, errors, rest, dbus, client>>

\* Mutant: views are written whether or not they are active.
IsAllowed_always(v) == TRUE

(* Browsers and external sources are written only while they are active.   *)
IsAllowed(v) == v \in Browsers \cup {"rest"} => v = active
Committed(text) ==
    /\ tx' = "answer" /\ main' = "rest"
    /\ entry' = [view |-> entry.view, full |-> entry.full, text |-> text]

WriteView ==
    /\ main = "write" /\ entry.view \in Targets
    /\ IsAllowed(entry.view)
    /\ Committed(IF entry.view = "rest"
                 THEN LinesWritten(entry.full, entry.flags) ELSE <<>>)
    /\ dropped' = IF entry.full THEN dropped \ {entry.view} ELSE dropped
    /\ UNCHANGED <<active, return_to, search, errors, rest, queue, dbus, shown,
                   display, failed, requests, entering>>

(* process() forgets the entry if the view is not written: because it may  *)
(* not be, or because it is a browser that is entering a list.  While such *)
(* a browser has nothing but a text to show (it is jumping, locked, or has *)
(* no list yet) it is written all the same, hence both are possible.       *)
DropView ==
    /\ main = "write" /\ entry.view \in Targets
    /\ ~IsAllowed(entry.view) \/ entry.view \in entering
    /\ tx' = "idle" /\ main' = "loop" /\ entry' = None
    /\ dropped' = IF entry.full /\ entry.view \in entering
                  THEN dropped \cup {entry.view} ELSE dropped
    /\ UNCHANGED <<active, return_to, search, errors, rest, queue, dbus, shown,
                   display, failed, requests, entering>>

(* The search view insists on a context.                                   *)
WriteForm ==
    /\ main = "write" /\ entry.view = "search"
    /\ IF context = None
       THEN main' = "dead" /\ UNCHANGED <<tx, entry>>
       ELSE Committed(<<context>>)
    /\ context' = None
    /\ UNCHANGED <<active, return_to, waiting, request_view, query, errors, rest,
                   queue, dbus, client>>

\* Mutant: the error view does not ask for the next error.
WriteError_once ==
    /\ main = "write" /\ entry.view = "errors" /\ dbus # "start"
    /\ IF errors = <<>>
       THEN /\ tx' = "idle" /\ main' = "loop" /\ entry' = None
            /\ UNCHANGED errors
       ELSE Committed(<<Head(errors)>>) /\ errors' = Tail(errors)
    /\ UNCHANGED <<active, return_to, search, rest, queue, dbus, client>>

(* The error view needs the lock of the errors.  It writes the oldest, and *)
(* asks for another transaction if there are more.                         *)
WriteError ==
    /\ main = "write" /\ entry.view = "errors" /\ dbus # "start"
    /\ IF errors = <<>>
       THEN /\ tx' = "idle" /\ main' = "loop" /\ entry' = None
            /\ UNCHANGED <<errors, queue>>
       ELSE /\ Committed(<<Head(errors)>>)
            /\ errors' = Tail(errors)
            /\ queue' = IF Tail(errors) # <<>>
                        THEN Added(queue, "errors", TRUE, {}) ELSE queue
    /\ UNCHANGED <<active, return_to, search, rest, dbus, client>>

(* dcpd shows what was written, or fails.                                  *)
Shows(e) ==
    /\ IF e.view \in {"search", "errors"} THEN UNCHANGED <<shown, display>>
       ELSE IF e.full
       THEN /\ shown' = e.view
            /\ display' = [l \in Lines |-> IF l \in DOMAIN e.text THEN e.text[l]
                                           ELSE Empty]
       ELSE /\ display' = [l \in Lines |-> IF l \in DOMAIN e.text /\ shown = e.view
                                           THEN e.text[l] ELSE display[l]]
            /\ UNCHANGED shown
    /\ failed' = (failed /\ ~(e.view = active /\ e.full))
    /\ UNCHANGED <<requests, lists>>

(* serialization_result(): the next transaction is started only after a    *)
(* successful one.                                                         *)
Answer(a) ==
    /\ AtRest /\ tx = "answer"
    /\ tx' = "idle" /\ entry' = None
    /\ IF a = "OK"
       THEN /\ Shows(entry)
            /\ main' = IF queue # <<>> THEN "enter" ELSE "rest"
       ELSE /\ failed' = TRUE
            /\ UNCHANGED <<shown, display, requests, lists, main>>
    /\ UNCHANGED <<active, return_to, search, errors, rest, queue, dbus>>

-----------------------------------------------------------------------------
Process == TakeEntry \/ WriteView \/ DropView \/ WriteForm \/ WriteError

(* The signals of dcpd: open or toggle views, begin a search, and what to  *)
(* search for.                                                             *)
DcpdViewsSignals ==
    \/ \E v \in Targets : OpenView(v) /\ (requests = "display" => v \notin Browsers)
    \/ ToggleViews("player", "rest") \/ ToggleViews("rest", "player")
    \/ /\ requests = "search"
       /\ \/ \E b \in Browsers, p, n \in BOOLEAN : SearchCommence(b, p, n)
          \/ \E c \in Browsers, f \in BOOLEAN : StoreParameters(c, f)

(* What the views are told by others and by each other.                    *)
Activations == NowPlaying \/ SourceGone \/ HidePlayer \/ UpdateActive

Searches == requests = "search" /\ \E b \in Browsers, u \in BOOLEAN : BrowserEvent(b, u)

(* The lists browsers enter, and the answers of the list broker.           *)
ListEntries ==
    /\ requests = "lists"
    /\ \E b \in Browsers :
           EnterList(b) \/ \E r \in EnterResults : EnterListDone(b, r)

(* The errors that come from other programs, and those of the browsers.    *)
ErrorMessages ==
    /\ requests = "search"
    /\ \E e \in Errors \ ToSet(errors) : SinkInMain(e) \/ SinkInDBus(e)

(* The text sent by the client of the REST interface.                      *)
DisplayUpdates ==
    /\ requests = "display"
    /\ \E c, t \in BOOLEAN, s \in SUBSET Lines :
           \E text \in [s -> Texts \cup {Empty}] : DisplayUpdate(c, s, text, t)

(* Nothing happens any more after a failed assertion.                      *)
Dead == main = "dead" /\ UNCHANGED vars

Next ==
    \/ DcpdViewsSignals \/ Activations \/ Searches \/ ListEntries \/ ErrorMessages
    \/ DisplayUpdates
    \/ StartInDBus \/ ProcessDeferred \/ Process
    \/ \E a \in Answers : Answer(a)
    \/ Dead

Spec == Init /\ [][Next]_vars

-----------------------------------------------------------------------------
(* Nothing is on the way to the display.                                    *)
Quiet == queue = <<>> /\ tx = "idle" /\ main = "rest" /\ dbus = "rest"

(* A browser that waits for search parameters is the active view and the   *)
(* one the search view knows; and the search view knows a view only while  *)
(* that view waits.  All ways out of waiting, in both views, have to agree.*)
SearchRequestIsOwned ==
    /\ waiting = IF request_view = None THEN {} ELSE {request_view}
    /\ waiting \subseteq {active}
    /\ query = None

(* Once all is written the display shows the active view, unless it shows  *)
(* the player, which is written whether or not it is active, or the active *)
(* view is a browser that was left out while it entered a list: it still   *)
(* does, or that was canceled.                                             *)
ShowsActiveView ==
    Quiet /\ ~failed /\ active # "inactive" =>
        shown \in {active, "player"} \/ active \in dropped

(* What the display shows in the lines of the REST view is what the client *)
(* has put there, or the line is still flagged to be written.              *)
LinesAccounted ==
    Quiet /\ ~failed /\ active = "rest" /\ shown = "rest" =>
        \A l \in Lines :
            lines[l] # Empty => display[l] = lines[l] \/ l \in flags

(* While there are errors the error view is on its way to the display, and *)
(* it never gets there without an error.                                   *)
ErrorsAccounted ==
    errors # <<>> <=>
        \/ \E i \in DOMAIN queue : queue[i].view = "errors"
        \/ main = "write" /\ entry.view = "errors"

-----------------------------------------------------------------------------
(* All there is to show gets to the display: the view that is active, the  *)
(* lines a client has set, and each error.                                 *)
AllIsShown == TypeOK /\ ShowsActiveView /\ LinesAccounted /\ ErrorsAccounted

-----------------------------------------------------------------------------
(* What the code does not keep.                                            *)

(* view_error_sink.hh: "All errors emitted by the system are collected by  *)
(* this view and emitted to the SPI slave at some time."  The error view   *)
(* is written with the lock of the active transaction held, and locks the  *)
(* errors; the D-Bus thread stores an error with the errors locked, and    *)
(* locks the active transaction.  Nobody gets on if they do both at once.  *)
NoLockCycle == ~(main = "write" /\ entry.view = "errors" /\ dbus = "start")

(* view_search.cc: the search view has a context when it is written.       *)
FormHasContext == main # "dead"

(* The display shows the active view, or the player.                       *)
ActiveViewIsShown ==
    Quiet /\ ~failed /\ active # "inactive" => shown = active

(* A browser left out for a list it enters is shown in the end.            *)
DroppedIsWritten == Quiet /\ ~failed /\ active \in dropped \ entering => shown = active

(* view_src_rest.hh: "If both lines are cleared, then a fallback string    *)
(* will be show instead."                                                  *)
RestIsShown ==
    Quiet /\ ~failed /\ active = "rest" /\ shown = "rest" =>
        display = IF \A l \in Lines : lines[l] = Empty
                  THEN [l \in Lines |-> IF l = 1 THEN Fallback ELSE Empty]
                  ELSE lines
==============================================================================
