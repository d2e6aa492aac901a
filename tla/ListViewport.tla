----------------------------- MODULE ListViewport -----------------------------
(***************************************************************************)
(* A viewport on a list (List::DBusListViewport): the segment the user is  *)
(* looking at, and the segment of the list that is held in a RamList.  The *)
(* view moves freely; the items are moved after it when the lines missing  *)
(* in the cache have been loaded.                                          *)
(*                                                                         *)
(* A viewport is a record of view_segment_, items_segment_ and items_,     *)
(* where items_ is the sequence of the cached items.                       *)
(***************************************************************************)
EXTENDS CacheSegment, Sequences

CONSTANTS
    NoItem,   \* nullptr in a RamList
    UINT_MAX

\* Part of the cached items, behind and before a gap to be filled.  With lines of another
\* view in RAM, the count may be negative, which is undefined: nothing is said then of what
\* is in RAM.
shift_up(items, count) ==
    [i \in 1 .. Len(items) |-> IF i + count \in 1 .. Len(items) THEN items[i + count]
                               ELSE NoItem]

shift_down(items, count) ==
    [i \in 1 .. Len(items) |-> IF i - count \in 1 .. Len(items) THEN items[i - count]
                               ELSE NoItem]

\* Mutant: lines beyond the end of the list are dropped from the view.
view_cut_off(line, count, total) ==
    LET first == IF line > UINT_MAX - count THEN UINT_MAX - count ELSE line
    IN  IF first + count <= total THEN Segment(first, count)
        ELSE IF first <= total THEN Segment(first, total - first)
        ELSE Segment(0, total)

\* The view segment for count lines starting at a line.  At the end of the list
\* the view is moved rather than shortened.
view_for(line, count, total) ==
    LET first == IF line > UINT_MAX - count THEN UINT_MAX - count ELSE line
    IN  IF first + count <= total THEN Segment(first, count)
        ELSE IF count <= total THEN Segment(total - count, count)
        ELSE Segment(0, total)

\* How much of the segment is cached, as far as it is asked for.
compute_overlap(vp, segment) ==
    LET x == intersection(segment, vp.items_segment)
    IN  IF x.size = 0 THEN "EMPTY"
        ELSE CASE x.kind \in {"EQUAL", "INCLUDED_IN_OTHER"} -> "CACHED"
               [] x.kind = "TOP_REMAINS" -> "CACHED_TOP_EMPTY_BOTTOM"
               [] x.kind = "BOTTOM_REMAINS" -> "CACHED_BOTTOM_EMPTY_TOP"
               [] x.kind = "CENTER_REMAINS" -> "CACHED_CENTER"

set_view(vp, line, count, total) ==
    [vp EXCEPT !.view_segment = view_for(line, count, total)]

\* The part of the view to be loaded.
get_missing_segment(vp) ==
    LET v == vp.view_segment
        x == intersection(v, vp.items_segment)
    IN  CASE x.kind \in {"DISJOINT", "CENTER_REMAINS"} -> v
          [] x.kind \in {"EQUAL", "INCLUDED_IN_OTHER"} -> Segment(v.line, 0)
          [] x.kind = "TOP_REMAINS" -> Segment(v.line + x.size, v.count - x.size)
          [] x.kind = "BOTTOM_REMAINS" -> Segment(v.line, v.count - x.size)

\* Where the gap begins that the missing items belong into.
beginning_of_gap(vp) ==
    LET x == intersection(vp.view_segment, vp.items_segment)
    IN  IF x.kind = "TOP_REMAINS" THEN x.size ELSE 0

\* Mutant: cached items stay where they are, and new ones overwrite them.
prepare_update_in_place(vp) ==
    LET x == intersection(vp.view_segment, vp.items_segment)
    IN  IF x.kind \in {"DISJOINT", "CENTER_REMAINS"} THEN <<>> ELSE vp.items

\* The cached items after having made room for the missing ones.
prepare_update(vp) ==
    LET x == intersection(vp.view_segment, vp.items_segment)
        surplus == Len(vp.items) - x.size
    IN  CASE x.kind \in {"DISJOINT", "CENTER_REMAINS"} -> <<>>
          [] x.kind \in {"EQUAL", "INCLUDED_IN_OTHER"} -> vp.items
          [] x.kind = "TOP_REMAINS" -> shift_up(vp.items, surplus)
          [] x.kind = "BOTTOM_REMAINS" -> shift_down(vp.items, surplus)

\* Writing the new items at the gap stays within the RamList, or it is empty.
UpdateFits(vp, new) ==
    LET room == prepare_update(vp)
    IN  room = <<>> \/ beginning_of_gap(vp) + Len(new) <= Len(room)

\* The new items are put into the gap of the cached ones, or appended if there
\* are none.  An empty answer is ignored.
update_cache_region(vp, new) ==
    LET room == prepare_update(vp)
        gap == beginning_of_gap(vp)
    IN  IF new = <<>> THEN [vp EXCEPT !.items = room]
        ELSE [view_segment |-> vp.view_segment,
              items_segment |-> vp.view_segment,
              items |-> IF room = <<>> THEN new
                        ELSE [i \in 1 .. Len(room) |->
                                IF i > gap /\ i <= gap + Len(new) THEN new[i - gap] ELSE room[i]]]

\* Mutant: the segment of the items is kept.
clear_items_only(vp, line) == [vp EXCEPT !.items = <<>>]

clear_for_line(vp, line) ==
    [vp EXCEPT !.items = <<>>, !.items_segment = Segment(line, 0)]

\* The cached item in a line, as a sequence of length one, or no item at all.
item_at(vp, line) ==
    IF contains_line(vp.items_segment, line)
    THEN LET i == line - vp.items_segment.line + 1
         IN  IF i \in 1 .. Len(vp.items) THEN vp.items[i] ELSE NoItem
    ELSE NoItem

=============================================================================
