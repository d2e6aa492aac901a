------------------------------- MODULE DBusList -------------------------------
(***************************************************************************)
(* A list filled over D-Bus of which only fractions are held in RAM        *)
(* (List::DBusList).  Entering a list asks for its size in an asynchronous *)
(* D-Bus call; looking at a part of it loads the missing lines by an RNF   *)
(* call, which reports to a viewport when it is done.  Both go on while    *)
(* the user moves on: the view is moved, other lists are entered, and the  *)
(* list broker replaces or removes lists.                                  *)
(*                                                                         *)
(* All of it runs in the main thread, one operation at a time; the answers *)
(* of the list broker and the order they are handled in are arbitrary.     *)
(* The RNF calls are modelled in detail in module CookieCalls; here a call *)
(* for a range is no more than its state, and a cookie always comes.       *)
(***************************************************************************)
EXTENDS ListViewport, FiniteSets

CONSTANTS
    Lists,          \* list IDs
    Size,           \* number of lines of each
    NoList,         \* the invalid list ID
    Replacements,   \* pairs of lists of which the second one may replace the first
    Viewports,
    ViewSize,       \* prefetch size of each viewport
    Fetches,        \* bound: segment fetchers that exist at a time
    Queries,        \* bound: list entries that exist at a time
    None, Unknown, Dead,
    EnteredListsChange      \* a list is replaced while it is being entered; the query's
                            \* answer is lost then

Segments == [line : Nat, count : Nat]
CallStates == {"WAIT_FOR_NOTIFICATION", "READY_TO_FETCH", "RESULT_FETCHED", "ABORTING",
               "ABORTED_BY_LIST_BROKER", "FAILED"}
FetchRecords ==
    [viewport : Viewports, list : Lists, segment : Segments, state : CallStates,
     has_cookie : BOOLEAN, signalled : BOOLEAN, deferred : BOOLEAN,
     was_aborted_after_done : BOOLEAN]
QueryRecords ==
    [list : Lists, line : Nat, viewport : Viewports, callback_for : Queries,
     state : {"IN_PROGRESS", "READY", "FAILED", "CANCELED", "RESTARTED"}, has_call : BOOLEAN,
     cancelled : BOOLEAN, restart : BOOLEAN, reported : BOOLEAN, in_glib : BOOLEAN]

ASSUME ListAssumption ==
    /\ Size \in [Lists -> Nat]
    /\ ViewSize \in [Viewports -> Nat \ {0}]
    /\ UINT_MAX \in Nat
    /\ \A l \in Lists : Size[l] < UINT_MAX
    /\ \A v \in Viewports : ViewSize[v] < UINT_MAX
    /\ NoList \notin Lists
    /\ Replacements \subseteq Lists \X Lists
    /\ {None, Unknown, Dead} \cap (Fetches \cup Queries) = {}
    /\ None \notin FetchRecords /\ None \notin QueryRecords
    /\ NoItem \notin [list : Lists, line : Nat]
    /\ EnteredListsChange \in BOOLEAN

VARIABLES
    list_id_,
    number_of_items_,
    viewport,       \* the viewports' segments and items
    fetcher,        \* viewports_and_fetchers_: per viewport Unknown if it is not in the
                    \* map, None for nullptr, Dead if the fetcher's call failed at once
    fetch,          \* the fetchers and their calls, None if there is no such object
    query_,         \* enter_list_data_.query_
    enter,          \* the queries and their D-Bus calls, None if there is no such object
    reload,         \* list the view is about to reload, since the current one was replaced
    kin,            \* history: list_id_ and the lists it has replaced since it was entered
    strayed,        \* history: the viewports which were moved away from the lines that are
                    \* being loaded for them, whose list was entered meanwhile, or was
                    \* replaced by one of another size and has not been entered since
    spoiled         \* history: the viewports which got such lines since they were cleared

fetch_vars == <<fetcher, fetch>>
enter_vars == <<query_, enter>>
list_vars  == <<list_id_, number_of_items_, kin>>
history == <<strayed, spoiled>>
vars == <<list_vars, viewport, fetch_vars, enter_vars, reload, history>>

(***************************************************************************)
(* Helpers                                                                 *)
(***************************************************************************)
Line(l, n) == [list |-> l, line |-> n]

EmptyViewport == [view_segment |-> Segment(0, 0), items_segment |-> Segment(0, 0),
                  items |-> <<>>]

\* What the list broker has for a segment of a list.
Contents(l, s) ==
    LET available == IF s.line >= Size[l] THEN 0
                     ELSE IF beyond(s) <= Size[l] THEN s.count ELSE Size[l] - s.line
    IN  [i \in 1 .. available |-> Line(l, s.line + i - 1)]

\* A call that is still going to be answered, or whose answer is still to be used.
Loading(v) == fetcher[v] \in Fetches

\* GetRangeCallBase::is_already_loading(), adjusted by is_line_loading() for a
\* call which is done but whose notification was deferred.
original_loading_state(f, line) ==
    IF ~contains_line(fetch[f].segment, line) THEN "OUT_OF_RANGE"
    ELSE CASE fetch[f].state \in {"WAIT_FOR_NOTIFICATION", "READY_TO_FETCH"} -> "LOADING"
           [] fetch[f].state \in {"ABORTING", "ABORTED_BY_LIST_BROKER", "FAILED"} ->
                 "FAILED_OR_ABORTED"
           [] fetch[f].state = "RESULT_FETCHED" -> "DONE"

is_line_loading(v, line) ==
    IF fetcher[v] = Dead THEN "INACTIVE"
    ELSE IF fetch[fetcher[v]].deferred THEN "LOADING"
    ELSE original_loading_state(fetcher[v], line)

\* Mutant: the call goes on.
cancel_op_of_none(F) == fetch' = fetch

\* cancel_op() of the fetchers in F.  A call that is done already is marked.
cancel_op(F) ==
    fetch' = [f \in Fetches |->
                IF f \notin F \/ fetch[f] = None THEN fetch[f]
                ELSE CASE fetch[f].state \in {"WAIT_FOR_NOTIFICATION", "READY_TO_FETCH"} ->
                             [fetch[f] EXCEPT !.state = "ABORTING", !.has_cookie = FALSE]
                       [] fetch[f].state \in {"RESULT_FETCHED", "FAILED"} ->
                             [fetch[f] EXCEPT !.was_aborted_after_done = TRUE]
                       [] OTHER -> fetch[f]]

\* announce_viewport(): a viewport which is not in the map is added and cleared.
announced(v, line) ==
    IF fetcher[v] = Unknown THEN clear_for_line(viewport[v], line) ELSE viewport[v]

ListInit ==
    /\ list_id_ = NoList
    /\ number_of_items_ = 0
    /\ kin = {}
    /\ viewport = [v \in Viewports |-> EmptyViewport]
    /\ fetcher = [v \in Viewports |-> Unknown]
    /\ fetch = [f \in Fetches |-> None]
    /\ query_ = None
    /\ enter = [q \in Queries |-> None]
    /\ reload = NoList
    /\ strayed = {}
    /\ spoiled = {}

(***************************************************************************)
(* Entering a list: QueryContextEnterList and its DBus::AsyncCall.  Each   *)
(* query makes one call.  The result of a call is reported to the query    *)
(* its callback was made for, which in case of a restart is not the query  *)
(* that makes the call.                                                    *)
(***************************************************************************)
new_query(l, line, v, reported_to) ==
    [list |-> l, line |-> line, viewport |-> v, callback_for |-> reported_to,
     state |-> "IN_PROGRESS", has_call |-> TRUE, cancelled |-> FALSE, restart |-> FALSE,
     reported |-> FALSE, in_glib |-> TRUE]

\* Mutant: the current query is replaced without canceling its call.
not_canceled_sync(E, q) == E

\* cancel_sync(): the call is canceled and its result is reported, both before the
\* D-Bus library is done with it.
canceled_sync(E, q) ==
    IF q = None \/ ~E[q].has_call \/ E[q].cancelled
    THEN E  \* not running
    ELSE [E EXCEPT ![q].state = "CANCELED", ![q].cancelled = TRUE, ![q].has_call = FALSE,
                   ![q].reported = TRUE]

\* Objects nobody refers to any more are gone: neither the list, nor GLib, nor a callback
\* of one of these.
Reaped(E, current) ==
    LET InUse(q) == E[q] # None /\ (E[q].in_glib \/ q = current)
    IN  [q \in Queries |->
            IF InUse(q) \/ \E p \in Queries : InUse(p) /\ E[p].callback_for = q
            THEN E[q] ELSE None]

EnterListAsync(l, line, v, q) ==
    /\ enter[q] = None
    /\ query_' = q
    /\ enter' = Reaped([canceled_sync(enter, query_) EXCEPT ![q] = new_query(l, line, v, q)], q)

\* The view enters a list: the root list, that of an item, the parent list.
EnterList(l, line, v, q) ==
    /\ reload = NoList
    /\ EnterListAsync(l, line, v, q)
    /\ UNCHANGED <<list_vars, viewport, fetch_vars, reload, history>>

\* The view reloads its list under the ID that replaces the one it has had.
ReloadList(line, v, q) ==
    /\ reload # NoList
    /\ EnterListAsync(reload, line, v, q)
    /\ reload' = NoList
    /\ UNCHANGED <<list_vars, viewport, fetch_vars, history>>

\* All known viewports lose their items when a list was entered.
cleared_for(v, line) ==
    [w \in Viewports |->
        IF fetcher[w] = Unknown THEN viewport[w]
        ELSE clear_for_line(viewport[w], IF w = v THEN line ELSE 0)]

\* The viewports which lose their items are as good as new.
unspoiled == {v \in spoiled : fetcher[v] = Unknown}

\* enter_list_async_handle_done() for query q, with E the state of the calls.  The lines
\* that are being loaded go on being loaded, into the viewports on the new list.
handle_done(E, q) ==
    IF E[q].has_call /\ E[q].state = "READY"
    THEN /\ number_of_items_' = Size[E[q].list]
         /\ list_id_' = E[q].list
         /\ kin' = {E[q].list}
         /\ viewport' = cleared_for(E[q].viewport, E[q].line)
         /\ strayed' = {v \in Viewports : Loading(v)}
         /\ spoiled' = unspoiled
    ELSE UNCHANGED <<list_vars, viewport, history>>

\* Mutant: the current query is not forgotten when it has been answered.
query_kept(q) == query_

\* The query that is current when a call for query q is done: q is not any more.
query_left(q) == IF q = query_ THEN None ELSE query_

\* What put_result() makes of the list broker's answer: the size of the list, or any
\* of the errors, which are all the same to the view.
Answers == {"READY", "FAILED"}

\* ready(): the D-Bus library is done with the call of query c.  Calls canceled in
\* the meantime are done before others are answered.
EnterReady(c, answer) ==
    /\ reload = NoList
    /\ enter[c] # None
    /\ enter[c].in_glib
    /\ enter[c].cancelled \/ \A d \in Queries :
          enter[d] # None => ~(enter[d].in_glib /\ enter[d].cancelled)
    /\ LET state == IF ~enter[c].cancelled THEN answer
                    ELSE IF enter[c].restart THEN "RESTARTED" ELSE "CANCELED"
           E == [enter EXCEPT ![c].state = state, ![c].in_glib = FALSE, ![c].reported = TRUE]
           q == enter[c].callback_for
       IN  IF enter[c].reported
           THEN /\ enter' = Reaped(E, query_)
                /\ UNCHANGED <<list_vars, viewport, query_, history>>
           ELSE /\ query_' = query_left(q)
                /\ handle_done(E, q)
                /\ enter' = Reaped([E EXCEPT ![q].has_call =
                                       @ /\ E[q].state = "READY"], query_')
    /\ UNCHANGED <<fetch_vars, reload>>

\* restart_if_necessary(): the call for the list that was replaced is canceled and
\* made once more, for its replacement, with the callback it was made with.
restart_if_necessary(l, replacement, q) ==
    IF query_ = None \/ ~enter[query_].has_call \/ enter[query_].list # l
    THEN UNCHANGED enter_vars
    ELSE LET old == enter[query_]
             E == [enter EXCEPT ![query_].cancelled = TRUE,
                                ![query_].restart =
                                    IF old.cancelled THEN @ ELSE replacement # NoList]
         IN  IF replacement = NoList
             THEN enter' = E /\ UNCHANGED query_
             ELSE /\ EnteredListsChange
                  /\ enter[q] = None
                  /\ query_' = q
                  /\ enter' = [E EXCEPT ![q] = new_query(replacement, old.line, old.viewport,
                                                        old.callback_for)]

\* list_invalidate() on behalf of the view: a list was removed, or replaced.
ListInvalidate(l, replacement, q) ==
    /\ reload = NoList
    /\ replacement = NoList \/ <<l, replacement>> \in Replacements
    /\ IF l # list_id_
       THEN UNCHANGED <<list_vars, viewport, fetch, reload, spoiled>>
       ELSE /\ list_id_' = replacement
            /\ reload' = replacement
            /\ UNCHANGED number_of_items_
            /\ IF replacement # NoList
               THEN /\ kin' = kin \cup {replacement}
                    /\ cancel_op({fetcher[v] : v \in Viewports})
                    /\ UNCHANGED <<viewport, spoiled>>
               ELSE /\ kin' = {}
                    /\ viewport' = cleared_for(None, 0)
                    /\ spoiled' = unspoiled
                    /\ UNCHANGED fetch
    /\ restart_if_necessary(l, replacement, q)
    /\ UNCHANGED <<fetcher, strayed>>

\* cancel_all_async_calls().
CancelAll ==
    /\ reload = NoList
    /\ query_' = IF query_ = None \/ ~enter[query_].has_call \/ enter[query_].cancelled
                THEN query_ ELSE None
    /\ enter' = Reaped(canceled_sync(enter, query_), query_')
    /\ cancel_op({fetcher[v] : v \in Viewports})
    /\ UNCHANGED <<list_vars, viewport, fetcher, reload, history>>

(***************************************************************************)
(* Loading lines                                                           *)
(***************************************************************************)
\* A new call for the lines missing in a viewport, and how its request ended.
new_call(v, vp, reply) ==
    [viewport |-> v, list |-> list_id_, segment |-> get_missing_segment(vp),
     state |-> reply, has_cookie |-> reply # "RESULT_FETCHED",
     signalled |-> reply = "RESULT_FETCHED", deferred |-> reply = "RESULT_FETCHED",
     was_aborted_after_done |-> FALSE]

\* load_segment_in_background() of a new fetcher, with how the request ends.
StartFetch(v, f, vp, reply) ==
    /\ fetch[f] = None
    /\ fetcher' = [fetcher EXCEPT ![v] = IF reply = "FAILED" THEN Dead ELSE f]
    /\ fetch' = IF reply = "FAILED" THEN fetch
                ELSE [fetch EXCEPT ![f] = new_call(v, vp, reply)]

\* Its notification was deferred and it is of no use for the line.
IsOutdated(v, line) ==
    /\ Loading(v)
    /\ is_line_loading(v, line) = "LOADING"
    /\ original_loading_state(fetcher[v], line) \in {"OUT_OF_RANGE", "FAILED_OR_ABORTED"}

\* The fetcher of the viewport does not stand in the way of a request for a line.
MayLoad(v, line) ==
    Loading(v) => is_line_loading(v, line) = "OUT_OF_RANGE" \/ IsOutdated(v, line)

\* get_item_async_set_hint() with the number of lines the view can show.  If the
\* lines are loading already, or cannot be loaded, nothing happens.  Lines held in RAM
\* may be looked at while others are being loaded, which goes on then.
Hint(v, line, f, reply) ==
    LET count == IF number_of_items_ < ViewSize[v] THEN number_of_items_ ELSE ViewSize[v]
        vp == set_view(announced(v, line), line, count, number_of_items_)
    IN  /\ reload = NoList
        /\ list_id_ # NoList
        /\ query_ = None
        /\ line < number_of_items_
        /\ MayLoad(v, line)
        /\ viewport' = [viewport EXCEPT ![v] = vp]
        /\ spoiled' = IF fetcher[v] = Unknown THEN spoiled \ {v} ELSE spoiled
        /\ IF compute_overlap(vp, vp.view_segment) = "CACHED"
           THEN /\ fetcher' = [fetcher EXCEPT ![v] =
                                 IF IsOutdated(v, line) THEN Unknown
                                 ELSE IF @ = Unknown THEN None ELSE @]
                /\ strayed' = IF Loading(v) /\ ~IsOutdated(v, line) THEN strayed \cup {v}
                              ELSE strayed \ {v}
                /\ UNCHANGED fetch
           ELSE /\ StartFetch(v, f, vp, reply)
                /\ strayed' = IF number_of_items_ = Size[list_id_] THEN strayed \ {v}
                              ELSE strayed \cup {v}
        /\ UNCHANGED <<list_vars, enter_vars, reload>>

\* get_item_async(): looking at an item makes the viewport known.
GetItem(v, line) ==
    /\ reload = NoList
    /\ list_id_ # NoList
    /\ query_ = None
    /\ line < number_of_items_
    /\ fetcher[v] = Unknown
    /\ viewport' = [viewport EXCEPT ![v] = announced(v, line)]
    /\ fetcher' = [fetcher EXCEPT ![v] = None]
    /\ spoiled' = spoiled \ {v}
    /\ UNCHANGED <<list_vars, fetch, enter_vars, reload, strayed>>

\* The D-Bus thread is told that the lines are available, or of an error.
Signal(f, available) ==
    /\ fetch[f] # None
    /\ ~fetch[f].signalled
    /\ fetch' = [fetch EXCEPT ![f].signalled = TRUE,
                              ![f].state = IF available THEN "READY_TO_FETCH"
                                           ELSE "ABORTED_BY_LIST_BROKER"]
    /\ UNCHANGED <<list_vars, viewport, fetcher, enter_vars, reload, history>>

\* The main thread fetches the lines, and leaves the rest for later.  There are no
\* lines without a cookie.
Fetch(f, ending) ==
    /\ reload = NoList
    /\ fetch[f] # None
    /\ fetch[f].signalled
    /\ ~fetch[f].deferred
    /\ fetch[f].has_cookie \/ ending = "FAILED"
    /\ fetch' = [fetch EXCEPT ![f].deferred = TRUE,
                              ![f].state = IF @ = "READY_TO_FETCH" THEN ending ELSE @,
                              ![f].has_cookie = FALSE]
    /\ UNCHANGED <<list_vars, viewport, fetcher, enter_vars, reload, history>>

\* Mutant: nobody checks whether the fetcher is still the one of the viewport.
IsCurrent_always(f) == TRUE

IsCurrent(f) == fetcher[fetch[f].viewport] = f

HasLines(f) == fetch[f].state = "RESULT_FETCHED" /\ ~fetch[f].was_aborted_after_done

\* get_item_result_available_notification().
Done(f) ==
    LET v == fetch[f].viewport
        lines == Contents(fetch[f].list, fetch[f].segment)
    IN  /\ reload = NoList
        /\ fetch[f] # None
        /\ fetch[f].deferred
        /\ IF IsCurrent(f)
           THEN /\ fetcher' = [fetcher EXCEPT ![v] = None]
                /\ viewport' = IF HasLines(f)
                               THEN [viewport EXCEPT ![v] = update_cache_region(@, lines)]
                               ELSE viewport
           ELSE UNCHANGED <<fetcher, viewport>>
        /\ fetch' = [fetch EXCEPT ![f] = None]
        /\ strayed' = IF IsCurrent(f) THEN strayed \ {v} ELSE strayed
        /\ spoiled' = IF IsCurrent(f) /\ HasLines(f) /\ v \in strayed THEN spoiled \cup {v}
                      ELSE spoiled
        /\ UNCHANGED <<list_vars, enter_vars, reload>>

-----------------------------------------------------------------------------
AllLines == 0 .. UINT_MAX

ListNext ==
    \/ \E l \in Lists, v \in Viewports, q \in Queries : EnterList(l, 1, v, q)
    \/ \E v \in Viewports, q \in Queries : ReloadList(0, v, q)
    \/ \E q \in Queries, a \in Answers : EnterReady(q, a)
    \/ \E l \in Lists, r \in Lists \cup {NoList}, q \in Queries : ListInvalidate(l, r, q)
    \/ \E v \in Viewports, line \in AllLines, f \in Fetches,
          r \in {"WAIT_FOR_NOTIFICATION", "RESULT_FETCHED", "FAILED"} : Hint(v, line, f, r)
    \/ \E v \in Viewports, line \in AllLines : GetItem(v, line)
    \/ CancelAll
    \/ \E f \in Fetches, a \in BOOLEAN : Signal(f, a)
    \/ \E f \in Fetches, e \in {"RESULT_FETCHED", "FAILED"} : Fetch(f, e)
    \/ \E f \in Fetches : Done(f)

Spec == ListInit /\ [][ListNext]_vars

\* Each item held in RAM is the item of the line it is shown in, of the list shown or of
\* one that list has replaced: moving the items around when the view moves, and late
\* answers, never put an item into another line, nor keep items of another list.  The one
\* way to get there is that lines arrive for a view which has gone on to lines it had, or
\* to another list, since they were asked for; it is over when the viewport is cleared.
CacheHoldsItems ==
    \A v \in Viewports \ spoiled : list_id_ # NoList /\ fetcher[v] # Unknown =>
        LET vp == viewport[v]
        IN  \A i \in 1 .. Len(vp.items) :
              \/ vp.items[i] = NoItem
              \/ /\ vp.items[i].line = vp.items_segment.line + i - 1
                 /\ vp.items[i].list \in kin

\* While there is a query for entering a list, its answer is still to come and will be
\* reported to this very query: no query is overwritten or canceled without an end, after
\* which the view would wait for the list forever.
AnswerForCurrentQuery ==
    query_ # None => /\ enter[query_].in_glib
                     /\ ~enter[query_].reported
                     /\ enter[query_].callback_for = query_

\* Loaded lines fit into the room made for them in the RAM list of their viewport, unless the
\* view went on to other lines, or another list was entered, while they were being loaded, or
\* that was so before and what is in RAM is wrong already.
UpdatesFit ==
    \A v \in Viewports \ (strayed \cup spoiled) :
        LET f == fetcher[v]
        IN  Loading(v) /\ fetch[f].deferred /\ HasLines(f) =>
                UpdateFits(viewport[v], Contents(fetch[f].list, fetch[f].segment))

\* All lines of the segment which is supposed to be in RAM really are: a line in it is never
\* shown as loading forever.
SegmentIsCached ==
    \A v \in Viewports \ spoiled : list_id_ # NoList /\ fetcher[v] # Unknown =>
        \A n \in Lines(viewport[v].items_segment) : item_at(viewport[v], n) # NoItem

\* What is in RAM is all there and where it belongs.
CacheIsRight == CacheHoldsItems /\ SegmentIsCached


\* Lines that arrive are those which their view misses: List::DBusList checks whether they were
\* canceled, but not whether the view or the list is still that of the request, and writes
\* them (dbuslist.cc:957).  The program breaks this.
LinesFindTheirView == spoiled = {}

\* Loaded lines fit into the RAM list in any case: RamList::replace() does not check it
\* (ramlist.cc:62).  The program breaks this, too.
LinesAlwaysFit ==
    \A v \in Viewports :
        LET f == fetcher[v]
        IN  Loading(v) /\ fetch[f].deferred /\ HasLines(f) =>
                UpdateFits(viewport[v], Contents(fetch[f].list, fetch[f].segment))
=============================================================================
