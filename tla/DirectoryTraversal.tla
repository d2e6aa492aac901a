--------------------------- MODULE DirectoryTraversal ---------------------------
(***************************************************************************)
(* Finding the next file in a hierarchy of lists                           *)
(* (Playlist::Crawler::DirectoryCrawler::FindNextOp).  An operation works  *)
(* on the crawler's one traversal list, from a position which its caller   *)
(* gives it; it enters the directories it comes across, goes back to the   *)
(* parent at the end of a directory, and ends at the next file, or at the  *)
(* end of the list the traversal was started in.                           *)
(*                                                                         *)
(* The tree of lists is given and does not change.  The operation runs in  *)
(* the main thread, and stops for the answers of the list broker: a list   *)
(* has been entered, or the item it wants to look at has been loaded.      *)
(* Operations are done one after the other; starting, canceling, and       *)
(* notifying them is the subject of module CrawlerOps.                     *)
(***************************************************************************)
EXTENDS Integers, Sequences, SequencesExt

CONSTANTS
    Lists,          \* list IDs
    Root,           \* list all other lists are found in
    Entries,        \* the items of each list: a File, or a list
    File,
    NoList,         \* the invalid list ID
    Modes,          \* RecursiveMode: how operations deal with directories
    MAX_DIRECTORY_DEPTH,
    None,
    ListLeft            \* operations are started while another list is entered

ASSUME TreeAssumption ==
    /\ Root \in Lists
    /\ NoList \notin Lists
    /\ Entries \in [Lists -> Seq(Lists \cup {File})]
    /\ \A l \in Lists \ {Root} :
          \E p \in Lists : \E n \in DOMAIN Entries[p] :
             /\ Entries[p][n] = l
             /\ \A q \in Lists : \A m \in DOMAIN Entries[q] :
                   Entries[q][m] = l => q = p /\ m = n
    /\ Modes \subseteq {"FLAT", "DEPTH_FIRST"}

VARIABLES
    list_id_,   \* list entered by the traversal list
    op,         \* the operation, None before the first one
    found,      \* position of the item found last, None before
    top,        \* ghost: list the traversal was started in
    uncounted   \* ghost: levels above the traversal's depth 1, see FindFirst

ghosts == <<top, uncounted>>
vars == <<list_id_, op, found, ghosts>>

(***************************************************************************)
(* The tree                                                                *)
(***************************************************************************)
Size(l) == Len(Entries[l])

\* Lines are counted from 0.
Item(l, n) == Entries[l][n + 1]

\* get_parent_link_id(): the list a list was found in, and the line.
ParentOf(l) == CHOOSE p \in Lists : l \in Range(Entries[p])
ParentLine(l) == (CHOOSE n \in DOMAIN Entries[ParentOf(l)] : Entries[ParentOf(l)][n] = l) - 1

\* Reference: a place in the tree is named by the lines to take from the root; the items
\* of a depth-first traversal are in lexicographic order of their names.
Trail[l \in Lists] == IF l = Root THEN <<>> ELSE Append(Trail[ParentOf(l)], ParentLine(l))
Place(l, n) == Append(Trail[l], n)

IsBefore(s, t) ==
    \/ IsStrictPrefix(s, t)
    \/ \E i \in 1 .. Len(s) : /\ i <= Len(t)
                              /\ s[i] < t[i]
                              /\ \A j \in 1 .. i - 1 : s[j] = t[j]

FilePositions ==
    {p \in Lists \X (0 .. 10) : p[2] < Size(p[1]) /\ Item(p[1], p[2]) = File}

(***************************************************************************)
(* Positions (Cursor).  All of them use the same filter, which knows the   *)
(* number of items of the list that is entered.                            *)
(***************************************************************************)
TotalItems == IF list_id_ = NoList THEN 0 ELSE Size(list_id_)

mk_cursor(l, line, depth) ==
    [list |-> l, line |-> IF line < TotalItems THEN line ELSE 0, depth |-> depth,
     requested_list |-> l, requested_line |-> line]

sync_request_with_pos(p) == [p EXCEPT !.requested_line = p.line, !.requested_list = p.list]

\* Mutant: the depth of the position is not that of the list entered.
sync_list_only(p, depth) == [p EXCEPT !.list = p.requested_list]

sync_list_id_with_request(p, depth) == [p EXCEPT !.list = p.requested_list, !.depth = depth]

\* Nav::down() and Nav::up() without wrapping around, in list l.
can_advance(l, line, direction) ==
    CASE direction = "FORWARD"  -> line + 1 < Size(l)
      [] direction = "BACKWARD" -> line > 0 /\ line < Size(l)
      [] OTHER                  -> FALSE

advance(p, direction) == [p EXCEPT !.line = IF direction = "FORWARD" THEN @ + 1 ELSE @ - 1]

\* Mutant: the lines of the parent list are counted from the end as well.
update_navigation_both(l, direction, cid, line) ==
    IF Size(l) = 0 THEN 0
    ELSE IF line >= Size(l) THEN IF direction # "BACKWARD" THEN Size(l) - 1 ELSE 0
    ELSE IF direction = "BACKWARD" THEN Size(l) - 1 - line
    ELSE line

\* update_navigation(): the line after entering a list.  Lists entered backwards are
\* entered at their end.
update_navigation(l, direction, cid, line) ==
    LET backward == direction = "BACKWARD" /\ cid # "CRAWLER_ASCEND"
    IN  IF Size(l) = 0 THEN 0
        ELSE IF line >= Size(l) THEN IF backward THEN 0 ELSE Size(l) - 1
        ELSE IF backward THEN Size(l) - 1 - line
        ELSE line

(***************************************************************************)
(* The operation.  Its phase says what it is waiting for: to be continued  *)
(* after it has yielded, for a list to be entered, for an item to be       *)
(* loaded; RUNNING is between two steps of run_as_far_as_possible().       *)
(***************************************************************************)
New(mode, direction, find_mode, position) ==
    [mode |-> mode, direction |-> direction, find_mode |-> find_mode, position |-> position,
     depth |-> position.depth,
     cid |-> IF direction = "NONE" THEN "CRAWLER_RESET_POSITION" ELSE "CRAWLER_FIRST_ENTRY",
     has_skipped_first |-> FALSE, phase |-> "NOT_STARTED", result |-> "UNKNOWN",
     \* ghosts: where it was started, the item it has found, what could not be entered
     from |-> <<position.requested_list, position.requested_line>>, item |-> None,
     missing |-> {}]

IsActive == op # None /\ op.phase \in {"YIELDED", "ENTERING", "HINTED", "RUNNING"}

Finished(o, success, result) ==
    [o EXCEPT !.phase = IF success THEN "DONE" ELSE "FAILED", !.result = result]

EndOfList(direction) ==
    IF direction = "BACKWARD" THEN "REACHED_START_OF_LIST" ELSE "REACHED_END_OF_LIST"

Entering(o, l, line, cid) ==
    [o EXCEPT !.cid = cid, !.position.requested_list = l, !.position.requested_line = line,
              !.phase = "ENTERING"]

\* do_start().
Started(o) ==
    IF o.position.requested_list = list_id_ \/ o.find_mode = "FIND_NEXT"
    THEN [o EXCEPT !.phase = "YIELDED"]
    ELSE [o EXCEPT !.phase = "ENTERING"]

\* Mutant: the traversal is over when it is back in the list it was started in.
continue_search_early_end(o, l, parent_known) ==
    IF can_advance(l, o.position.line, o.direction)
    THEN [o EXCEPT !.position = advance(@, o.direction), !.phase = "RUNNING"]
    ELSE IF o.direction = "NONE" THEN Finished(o, TRUE, "SOMEWHERE_IN_LIST")
    ELSE IF o.depth <= 2 THEN Finished(o, TRUE, EndOfList(o.direction))
    ELSE IF parent_known /\ l # Root
    THEN Entering(o, ParentOf(l), ParentLine(l), "CRAWLER_ASCEND")
    ELSE Finished(o, FALSE, "UNKNOWN")

\* continue_search(): go to the next item of list l, or back to its parent.
continue_search(o, l, parent_known) ==
    IF can_advance(l, o.position.line, o.direction)
    THEN [o EXCEPT !.position = advance(@, o.direction), !.phase = "RUNNING"]
    ELSE IF o.direction = "NONE" THEN Finished(o, TRUE, "SOMEWHERE_IN_LIST")
    ELSE IF o.depth <= 1 THEN Finished(o, TRUE, EndOfList(o.direction))
    ELSE IF parent_known /\ l # Root
    THEN Entering(o, ParentOf(l), ParentLine(l), "CRAWLER_ASCEND")
    ELSE Finished(o, FALSE, "UNKNOWN")

\* Mutant: the directory it comes from is looked at once more.
IsPastFirst_never_on_ascent(o) ==
    /\ o.direction # "NONE"
    /\ ~o.has_skipped_first
    /\ IF o.direction = "FORWARD" THEN o.position.line >= TotalItems ELSE o.position.line = 0

\* The item it is at has been dealt with before: it is the directory it comes from, or
\* the list is left at once.
IsPastFirst(o) ==
    /\ o.direction # "NONE"
    /\ ~o.has_skipped_first
    /\ \/ o.cid = "CRAWLER_ASCEND"
       \/ IF o.direction = "FORWARD" THEN o.position.line >= TotalItems
          ELSE o.position.line = 0

\* The traversal list is what the item is read from.
ItemAt(o) == Item(list_id_, o.position.line)

\* do_continue().
Continue(parent_known) ==
    /\ op # None
    /\ op.phase = "YIELDED"
    /\ op' = IF op.find_mode = "FIND_FIRST" THEN [op EXCEPT !.phase = "RUNNING"]
             ELSE LET next == continue_search(op, list_id_, parent_known)
                  IN  IF next.phase = "RUNNING" THEN [next EXCEPT !.has_skipped_first = TRUE]
                      ELSE next
    /\ UNCHANGED <<list_id_, found, ghosts>>

\* finish_with_current_item_or_continue(): the item is not to be looked at.
PassFirst(parent_known) ==
    /\ op # None
    /\ op.phase = "RUNNING"
    /\ IsPastFirst(op)
    /\ op' = continue_search([op EXCEPT !.has_skipped_first = @ \/ op.cid = "CRAWLER_ASCEND"],
                             list_id_, parent_known)
    /\ UNCHANGED <<list_id_, found, ghosts>>

\* finish_with_current_item_or_continue(): the item must be loaded first, or it cannot be.
Hint(reply) ==
    /\ op # None
    /\ op.phase = "RUNNING"
    /\ ~IsPastFirst(op)
    /\ op' = IF reply = "STARTED" THEN [op EXCEPT !.phase = "HINTED"]
             ELSE Finished(op, FALSE, "UNKNOWN")
    /\ UNCHANGED <<list_id_, found, ghosts>>

check_skip_directory(o) == o.mode = "FLAT" \/ o.depth >= MAX_DIRECTORY_DEPTH

\* The list of a directory, which may not be known for whatever reason: errors are suppressed
\* for the crawler.
get_child_id_for_enter(o, child_known) == IF child_known THEN ItemAt(o) ELSE NoList

\* The callback for the item: it could not be loaded.  The operation does not ask why, and
\* tries again.
HintedInVain ==
    /\ op # None
    /\ op.phase = "HINTED"
    /\ op' = [op EXCEPT !.phase = "RUNNING"]
    /\ UNCHANGED <<list_id_, found, ghosts>>

\* finish_with_current_item_or_continue(), with the item in RAM.  Directories which cannot
\* be entered are passed over.
LookAtItem(child_known, parent_known) ==
    /\ op # None
    /\ op.phase \in {"RUNNING", "HINTED"}
    /\ op.phase = "RUNNING" => ~IsPastFirst(op)
    /\ op' = IF op.position.line >= TotalItems THEN Finished(op, FALSE, "UNKNOWN")
             ELSE IF ItemAt(op) = File
             THEN [Finished(op, TRUE, "SOMEWHERE_IN_LIST") EXCEPT
                        !.item = <<list_id_, op.position.line>>]
             ELSE IF op.direction = "NONE" THEN Finished(op, FALSE, "UNKNOWN")
             ELSE IF check_skip_directory(op)
             THEN continue_search(op, list_id_, parent_known)
             ELSE IF get_child_id_for_enter(op, child_known) = NoList
             THEN continue_search([op EXCEPT !.missing = @ \cup {ItemAt(op)}],
                                  list_id_, parent_known)
             ELSE Entering(op, get_child_id_for_enter(op, child_known), 0, "CRAWLER_DESCEND")
    /\ UNCHANGED <<list_id_, found, ghosts>>

\* enter_list_event(): state of the operation after its list was entered.
EnteredList(o) ==
    LET depth == CASE o.cid = "CRAWLER_DESCEND" -> o.depth + 1
                   [] o.cid = "CRAWLER_ASCEND" -> o.depth - 1
                   [] o.cid = "CRAWLER_FIRST_ENTRY" -> 1
                   [] o.cid = "CRAWLER_RESET_POSITION" -> o.depth
        line == update_navigation(o.position.requested_list, o.direction, o.cid,
                                  o.position.requested_line)
    IN  [o EXCEPT !.depth = depth, !.phase = "RUNNING",
                  !.has_skipped_first = @ /\ o.cid \notin {"CRAWLER_DESCEND", "CRAWLER_ASCEND"},
                  !.position = sync_list_id_with_request([@ EXCEPT !.line = line], depth)]

\* enter_list_event(): the list was entered.  There is nothing to find in an empty one;
\* a parent list cannot be empty.
Entered(parent_known) ==
    /\ op # None
    /\ op.phase = "ENTERING"
    /\ LET l == op.position.requested_list
           entered == EnteredList(op)
       IN  /\ list_id_' = l
           /\ op' = IF Size(l) > 0 THEN entered
                    ELSE CASE op.cid = "CRAWLER_DESCEND" ->
                                 continue_search(entered, l, parent_known)
                           [] op.cid = "CRAWLER_ASCEND" -> Finished(entered, FALSE, "UNKNOWN")
                           [] OTHER -> Finished(entered, TRUE, EndOfList(op.direction))
    /\ UNCHANGED <<found, ghosts>>

\* enter_list_event(): the list could not be entered.  A directory is passed over.
NotEntered(parent_known) ==
    /\ op # None
    /\ op.phase = "ENTERING"
    /\ op' = IF op.cid # "CRAWLER_DESCEND" THEN Finished(op, FALSE, "UNKNOWN")
             ELSE continue_search([op EXCEPT !.missing = @ \cup {op.position.requested_list}],
                                  list_id_, parent_known)
    /\ UNCHANGED <<list_id_, found, ghosts>>

(***************************************************************************)
(* The callers: the file browser and the player                            *)
(***************************************************************************)
\* Playback is started at an item of a list.  If this list happens to be the one entered
\* last, it is not entered again, and the depth of the traversal is not set.
FindFirst(l, line, mode) ==
    /\ ~IsActive
    /\ op' = Started(New(mode, "FORWARD", "FIND_FIRST", mk_cursor(l, line, 0)))
    /\ top' = l
    /\ uncounted' = IF l = list_id_ THEN 1 ELSE 0
    /\ found' = None
    /\ UNCHANGED list_id_

\* The next item is prefetched, or the user skips to the next or the previous item.
FindNext(direction) ==
    /\ ~IsActive
    /\ found # None
    /\ ListLeft \/ found.list = list_id_
    /\ op' = Started(New(op.mode, direction, "FIND_NEXT", found))
    /\ UNCHANGED <<list_id_, found, ghosts>>

\* There is no further item to skip to: back to the item which is being played.
JumpBack ==
    /\ ~IsActive
    /\ found # None
    /\ op' = Started(New(op.mode, "NONE", "FIND_FIRST", found))
    /\ UNCHANGED <<list_id_, found, ghosts>>

\* The caller is notified, and keeps the position of the item.
Notified ==
    /\ op # None
    /\ op.phase = "DONE"
    /\ op.result = "SOMEWHERE_IN_LIST"
    /\ op.direction # "NONE"
    /\ found' = sync_request_with_pos(op.position)
    /\ op' = [op EXCEPT !.phase = "NOTIFIED"]
    /\ UNCHANGED <<list_id_, ghosts>>

-----------------------------------------------------------------------------
Init ==
    /\ list_id_ = NoList
    /\ op = None
    /\ found = None
    /\ top = NoList
    /\ uncounted = 0

Step(b) == Continue(b) \/ PassFirst(b) \/ Entered(b) \/ NotEntered(b)

Next ==
    \/ \E l \in Lists, m \in Modes : \E n \in 0 .. Size(l) - 1 : FindFirst(l, n, m)
    \/ \E d \in {"FORWARD", "BACKWARD"} : FindNext(d)
    \/ JumpBack
    \/ Notified
    \/ \E b \in BOOLEAN : Step(b)
    \/ \E r \in {"STARTED", "FAILED"} : Hint(r)
    \/ HintedInVain
    \/ \E c, b \in BOOLEAN : LookAtItem(c, b)

Look == \E c, b \in BOOLEAN : LookAtItem(c, b)

\* The list broker answers, and the operation goes on with each answer, whatever it is.
Fairness ==
    /\ WF_vars(\E b \in BOOLEAN : Step(b))
    /\ WF_vars(Look \/ HintedInVain)

Spec == Init /\ [][Next]_vars /\ Fairness

(***************************************************************************)
(* What it is to find                                                      *)
(***************************************************************************)
\* The depth of a list as the traversal should know it.
DepthOf(l) == Len(Trail[l]) - Len(Trail[top]) + 1 - uncounted

\* Where a search that goes back is blind: in a directory it comes to from behind, it takes
\* the first item for one it has been at if it could not enter any item after it.
IsPassedOver(p, o) ==
    /\ o.direction = "BACKWARD"
    /\ \E l \in Lists :
          /\ IsPrefix(Trail[l], Trail[p[1]]) /\ ~IsPrefix(Trail[l], Trail[o.from[1]])
          /\ p = <<l, 0>> \/ IsPrefix(Place(l, 0), Trail[p[1]])
          /\ \A n \in 1 .. Size(l) - 1 :
                Item(l, n) # File /\ (Item(l, n) \in o.missing \/ DepthOf(l) >= MAX_DIRECTORY_DEPTH)

\* The files an operation may find: those below the list the traversal was started in, but
\* for directories it could not enter.
IsReachable(p, o) ==
    /\ IF o.mode = "FLAT" THEN p[1] = o.from[1]
       ELSE IsPrefix(Trail[top], Trail[p[1]]) /\ DepthOf(p[1]) <= MAX_DIRECTORY_DEPTH
    /\ \A m \in o.missing : ~IsPrefix(Trail[m], Trail[p[1]])

PlaceOf(p) == Place(p[1], p[2])

\* Those in its direction.
Ahead(o) ==
    {p \in FilePositions :
        /\ IsReachable(p, o)
        /\ IF o.direction = "BACKWARD" THEN IsBefore(PlaceOf(p), PlaceOf(o.from))
           ELSE \/ IsBefore(PlaceOf(o.from), PlaceOf(p))
                \/ o.find_mode = "FIND_FIRST" /\ p = o.from}

InSight(o) == {p \in Ahead(o) : ~IsPassedOver(p, o)}

Closest(o, S) ==
    CHOOSE p \in S : \A q \in S \ {p} :
        IF o.direction = "BACKWARD" THEN IsBefore(PlaceOf(q), PlaceOf(p))
        ELSE IsBefore(PlaceOf(p), PlaceOf(q))

\* A search in some direction ends at the nearest file in that direction, in the order of a
\* depth-first traversal: descending, passing over what cannot be entered, and going back
\* to the parent skip no file, but for those IsPassedOver(), nor find one twice.  When the
\* end is reported, there is none left in the list the search is back in, which is the one
\* the traversal was started in, unless its level is not counted.
NeighbourIsFound ==
    op # None /\ op.phase = "DONE" /\ op.direction # "NONE" =>
        IF op.result = "SOMEWHERE_IN_LIST"
        THEN InSight(op) # {} /\ op.item = Closest(op, InSight(op))
        ELSE /\ \A p \in InSight(op) : ~IsPrefix(Trail[op.position.list], Trail[p[1]])
             /\ uncounted = 0 /\ op.mode = "DEPTH_FIRST" => op.position.list = top

\* No file is passed over, and when the end is reported, there is none left anywhere.
NoFileIsSkipped ==
    op # None /\ op.phase = "DONE" /\ op.direction # "NONE" =>
        IF op.result = "SOMEWHERE_IN_LIST" THEN op.item = Closest(op, Ahead(op))
        ELSE Ahead(op) = {}

\* The item that was found is the one at the position the operation reports, of which the
\* player is going to ask the URIs: its meta data are not those of some other stream.
FoundAtPosition ==
    op # None /\ op.phase = "DONE" /\ op.item # None =>
        op.item = <<op.position.list, op.position.line>>

\* The depth a position is at, by which the traversal knows where to end, is that of its list.
DepthIsKnown ==
    /\ op # None /\ op.phase \in {"RUNNING", "HINTED", "DONE"} =>
          op.depth = DepthOf(op.position.list)
    /\ found # None => found.depth = DepthOf(found.list)

\* A search finds the neighbour of where it started, and knows where that is.
FindsNeighbour == NeighbourIsFound /\ FoundAtPosition /\ DepthIsKnown

\* Each search comes to an end, as long as it does not happen again and again that an item
\* cannot be loaded: it never goes down into the directory it has come from.
SearchEnds == <>[][~HintedInVain]_vars => (IsActive ~> ~IsActive)
=============================================================================
