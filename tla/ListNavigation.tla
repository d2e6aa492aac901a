---------------------------- MODULE ListNavigation ----------------------------
(***************************************************************************)
(* Moving through a list (List::Nav): the selected item, and the part of   *)
(* the list shown on a display of a few lines.  The items of the list are  *)
(* not looked at; all items are visible and selectable (NavItemNoFilter),  *)
(* so that their line numbers are those of the list.                       *)
(*                                                                         *)
(* A navigation state is a record of cursor_, first_displayed_item_ and    *)
(* selected_line_number_, the line of the display the cursor is in.        *)
(***************************************************************************)
EXTENDS Integers

CONSTANTS
    max_lines,  \* maximum_number_of_displayed_lines_
    MaxItems,   \* bound: number of items in a list
    MaxCount    \* bound: lines to move by in one go

\* There are navigators for 3 lines (the display), 4 (the skipper) and 1 (the crawler).
ASSUME NavAssumption == max_lines \in 1 .. 4 /\ MaxItems \in Nat /\ MaxCount \in Nat

WrapModes == {"NO_WRAP", "WRAP_TO_TOP", "WRAP_TO_BOTTOM", "FULL_WRAP"}

Smaller(a, b) == IF a < b THEN a ELSE b

(***************************************************************************)
(* Operations on navigation states, for a list of n items                  *)
(***************************************************************************)
\* The display starts as far above the cursor as the selected line says.
recover_first_displayed_item(cursor, selected) ==
    [cursor |-> cursor, selected |-> selected, first |-> cursor - Smaller(selected, cursor)]

recover_cursor_and_selection == [cursor |-> 0, selected |-> 0, first |-> 0]

\* Mutant: the selected line is in the middle even at the end of the list.
centered_always(n, line) == (max_lines + 1) \div 2 - 1

\* Line of the display for a line of the list: centered, but for the end of the list.
centered(n, line) ==
    LET center == (max_lines + 1) \div 2 - 1
        distance_to_end == n - line - 1
    IN  IF distance_to_end < max_lines - center THEN max_lines - distance_to_end - 1
        ELSE center

set_cursor_by_line_number(n, line) ==
    IF line = 0 \/ line >= n THEN recover_cursor_and_selection
    ELSE recover_first_displayed_item(line, IF n < max_lines THEN line ELSE centered(n, line))

distance_to_top(n, nav) == IF n > 0 THEN nav.selected ELSE 0

distance_to_bottom(n, nav) == IF n > 0 THEN Smaller(max_lines, n) - nav.selected - 1 ELSE 0

\* Mutant: moving beyond the end wraps around wherever it starts.
fixup_down_count_early(mode, n, nav, count) ==
    IF count = 0 \/ nav.cursor >= n THEN [wraps |-> FALSE, count |-> 0]
    ELSE IF nav.cursor + count < n THEN [wraps |-> FALSE, count |-> count]
    ELSE [wraps |-> mode \in {"FULL_WRAP", "WRAP_TO_TOP"}, count |-> n - nav.cursor - 1]

\* Whether moving down by some lines goes back to the top, else by how many lines.
fixup_down_count(mode, n, nav, count) ==
    IF count = 0 \/ nav.cursor >= n THEN [wraps |-> FALSE, count |-> 0]
    ELSE IF nav.cursor + count < n THEN [wraps |-> FALSE, count |-> count]
    ELSE IF mode \in {"FULL_WRAP", "WRAP_TO_TOP"} /\ nav.cursor = n - 1
    THEN [wraps |-> TRUE, count |-> n]
    ELSE [wraps |-> FALSE, count |-> n - nav.cursor - 1]

\* Whether moving up by some lines goes back to the bottom, else by how many lines.
fixup_up_count(mode, n, nav, count) ==
    IF count = 0 \/ nav.cursor >= n THEN [wraps |-> FALSE, count |-> 0]
    ELSE IF count <= nav.cursor THEN [wraps |-> FALSE, count |-> count]
    ELSE IF mode \in {"FULL_WRAP", "WRAP_TO_BOTTOM"} /\ nav.cursor <= 1
    THEN [wraps |-> TRUE, count |-> n]
    ELSE [wraps |-> FALSE, count |-> nav.cursor]

\* Mutant: the item moved to is always shown in the first line.
down_to_first_line(mode, n, nav, count) ==
    LET move == fixup_down_count(mode, n, nav, count)
    IN  IF move.wraps THEN set_cursor_by_line_number(n, 0)
        ELSE IF move.count = 0 THEN nav
        ELSE recover_first_displayed_item(nav.cursor + move.count, 0)

\* The state after moving down, with the display following the cursor.
down(mode, n, nav, count) ==
    LET move == fixup_down_count(mode, n, nav, count)
    IN  IF move.wraps THEN set_cursor_by_line_number(n, 0)
        ELSE IF move.count = 0 THEN nav
        ELSE recover_first_displayed_item(nav.cursor + move.count,
                                          Smaller(nav.selected + move.count, max_lines - 1))

\* The state after moving up.
up(mode, n, nav, count) ==
    LET move == fixup_up_count(mode, n, nav, count)
    IN  IF move.wraps THEN set_cursor_by_line_number(n, n - 1)
        ELSE IF move.count = 0 THEN nav
        ELSE recover_first_displayed_item(nav.cursor - move.count,
                                          nav.selected - Smaller(move.count, nav.selected))

\* Moving by several lines goes to the last line of the display first.
move_down_multi(mode, n, nav, lines) ==
    down(mode, n, nav, IF lines = 1 \/ distance_to_bottom(n, nav) = 0 THEN lines
                       ELSE distance_to_bottom(n, nav))

move_up_multi(mode, n, nav, lines) ==
    up(mode, n, nav, IF lines = 1 \/ distance_to_top(n, nav) = 0 THEN lines
                     ELSE distance_to_top(n, nav))

(***************************************************************************)
(* Browsing through a list                                                 *)
(***************************************************************************)
VARIABLES
    wrap_mode_,
    number_of_items,
    nav

nav_vars == <<wrap_mode_, number_of_items, nav>>

NavInit ==
    /\ wrap_mode_ \in WrapModes
    /\ number_of_items = 0
    /\ nav = recover_cursor_and_selection

\* A list was entered: its line is selected, or its last one if there is no such line.
EnterList(n, line) ==
    /\ number_of_items' = n
    /\ nav' = set_cursor_by_line_number(n, IF n = 0 THEN 0 ELSE Smaller(line, n - 1))
    /\ UNCHANGED wrap_mode_

\* A line was found by searching for it.
GoToLine(line) ==
    /\ line < number_of_items
    /\ nav' = set_cursor_by_line_number(number_of_items, line)
    /\ UNCHANGED <<wrap_mode_, number_of_items>>

MoveDown(lines) ==
    /\ nav' = move_down_multi(wrap_mode_, number_of_items, nav, lines)
    /\ UNCHANGED <<wrap_mode_, number_of_items>>

MoveUp(lines) ==
    /\ nav' = move_up_multi(wrap_mode_, number_of_items, nav, lines)
    /\ UNCHANGED <<wrap_mode_, number_of_items>>

-----------------------------------------------------------------------------
NavState == [cursor : Nat, selected : Nat, first : Nat]

NavTypeOK ==
    /\ wrap_mode_ \in WrapModes
    /\ number_of_items \in Nat
    /\ nav \in NavState

\* The selected line of the display is the one the cursor is shown in, and the display is
\* never scrolled beyond an end of the list, so that no line of it is left empty as long
\* as there are items to be shown.
CursorIsShown ==
    IF number_of_items = 0 THEN nav = recover_cursor_and_selection
    ELSE /\ nav.cursor < number_of_items
         /\ nav.cursor = nav.first + nav.selected
         /\ nav.selected < Smaller(max_lines, number_of_items)
         /\ nav.first + Smaller(max_lines, number_of_items) <= number_of_items

\* Scrolling by pages shows all items: unless the cursor wraps around at the last item, no
\* item between the ones shown before and those shown after is skipped.
NoItemSkipped ==
    [][\A lines \in 1 .. max_lines :
          MoveDown(lines) /\ nav.cursor # number_of_items - 1 =>
              /\ nav'.first <= nav.first + max_lines
              /\ nav'.cursor > nav.cursor \/ number_of_items = 0]_nav_vars

\* Moving up goes to the end of the list only from its first item: it "snaps to top", then
\* "always wraps around exactly one line" (tests/test_listnav.cc).
WrapsFromEndOnly ==
    \A count \in 1 .. MaxCount :
        up(wrap_mode_, number_of_items, nav, count).cursor > nav.cursor => nav.cursor = 0
=============================================================================
