--------------------------- MODULE UserInput_proofs ---------------------------
(***************************************************************************)
(* The cursor of a browser is on the display, and paging through a list    *)
(* shows all of it, for lists of any length, for any number of lines to    *)
(* move by, and wherever the search ends.                                  *)
(*                                                                         *)
(* The search finds the first item with a prefix of the string that no     *)
(* item has a longer prefix of, for sorted lists and strings of any        *)
(* length.                                                                 *)
(*                                                                         *)
(* What is heard of the stream player is what it does, however long the    *)
(* queue of its signals gets, and what is known of it is shown.            *)
(***************************************************************************)
EXTENDS UserInput, SequenceTheorems, TLAPS

-----------------------------------------------------------------------------
(* Moving around: each operation leaves the cursor on the display.         *)

\* What CursorIsShown says of a navigation state s and a list of n items.
Shown(n, s) ==
    IF n = 0 THEN s = recover_cursor_and_selection
    ELSE /\ s.cursor < n
         /\ s.cursor = s.first + s.selected
         /\ s.selected < Smaller(max_lines, n)
         /\ s.first + Smaller(max_lines, n) <= n

\* The display is scrolled so that the cursor is in the selected line of it.
LEMMA RecoverShows ==
    ASSUME NEW n \in Nat, NEW c \in Nat, NEW line \in Nat,
           c < n, line <= c, line < Smaller(max_lines, n),
           c - line + Smaller(max_lines, n) <= n
    PROVE  /\ recover_first_displayed_item(c, line) \in NavState
           /\ Shown(n, recover_first_displayed_item(c, line))
BY NavAssumption DEF recover_first_displayed_item, Smaller, Shown, NavState

LEMMA RecoverFields ==
    ASSUME NEW c \in Nat, NEW line \in Nat, line <= c
    PROVE  /\ recover_first_displayed_item(c, line).cursor = c
           /\ recover_first_displayed_item(c, line).first = c - line
BY DEF recover_first_displayed_item, Smaller

\* Going to a line, or to the top if there is no such line (set_cursor_by_line_number()).
LEMMA SetCursorShows ==
    ASSUME NEW n \in Nat, NEW line \in Nat
    PROVE  /\ set_cursor_by_line_number(n, line) \in NavState
           /\ Shown(n, set_cursor_by_line_number(n, line))
BY NavAssumption, SMTT(30)
   DEF set_cursor_by_line_number, recover_cursor_and_selection, recover_first_displayed_item,
       centered, Smaller, Shown, NavState

\* Moving down by one line or several (down()).
LEMMA DownShows ==
    ASSUME NEW mode, NEW n \in Nat, NEW s \in NavState, NEW count \in Nat, Shown(n, s)
    PROVE  /\ down(mode, n, s, count) \in NavState
           /\ Shown(n, down(mode, n, s, count))
<1> DEFINE move == fixup_down_count(mode, n, s, count)
<1>1. /\ move.wraps \in BOOLEAN /\ move.count \in Nat
      /\ ~move.wraps /\ move.count # 0 => s.cursor + move.count < n
  BY SMTT(30) DEF fixup_down_count, Shown, NavState
<1>2. CASE move.wraps
  BY <1>1, <1>2, SetCursorShows DEF down
<1>3. CASE ~move.wraps /\ move.count = 0
  BY <1>3 DEF down
<1>4. CASE ~move.wraps /\ move.count # 0
  <2>1. down(mode, n, s, count) =
          recover_first_displayed_item(s.cursor + move.count,
                                       Smaller(s.selected + move.count, max_lines - 1))
    BY <1>4 DEF down
  <2> DEFINE c == s.cursor + move.count
             line == Smaller(s.selected + move.count, max_lines - 1)
  <2>2. /\ s.cursor \in Nat /\ s.selected \in Nat /\ s.first \in Nat /\ n # 0
        /\ s.cursor < n /\ s.cursor = s.first + s.selected
        /\ s.selected < Smaller(max_lines, n) /\ s.first + Smaller(max_lines, n) <= n
    BY <1>1, <1>4 DEF Shown, NavState
  <2>3. move.count \in Nat /\ c < n
    BY <1>1, <1>4
  <2> HIDE DEF move
  <2>4. /\ c \in Nat /\ line \in Nat /\ line <= c /\ line < Smaller(max_lines, n)
        /\ c - line + Smaller(max_lines, n) <= n
    BY <2>2, <2>3, NavAssumption, SMTT(30) DEF Smaller
  <2> QED
    BY <2>1, <2>3, <2>4, RecoverShows
<1> QED BY <1>1, <1>2, <1>3, <1>4

\* Moving up by one line or several (up()).
LEMMA UpShows ==
    ASSUME NEW mode, NEW n \in Nat, NEW s \in NavState, NEW count \in Nat, Shown(n, s)
    PROVE  /\ up(mode, n, s, count) \in NavState
           /\ Shown(n, up(mode, n, s, count))
<1> DEFINE move == fixup_up_count(mode, n, s, count)
<1>1. /\ move.wraps \in BOOLEAN /\ move.count \in Nat
      /\ move.wraps => n # 0
      /\ ~move.wraps /\ move.count # 0 => move.count <= s.cursor /\ n # 0
  BY SMTT(30) DEF fixup_up_count, Shown, NavState
<1>2. CASE move.wraps
  BY <1>1, <1>2, SetCursorShows DEF up
<1>3. CASE ~move.wraps /\ move.count = 0
  BY <1>3 DEF up
<1>4. CASE ~move.wraps /\ move.count # 0
  <2>1. up(mode, n, s, count) =
          recover_first_displayed_item(s.cursor - move.count,
                                       s.selected - Smaller(move.count, s.selected))
    BY <1>4 DEF up
  <2> DEFINE c == s.cursor - move.count
             line == s.selected - Smaller(move.count, s.selected)
  <2>2. /\ s.cursor \in Nat /\ s.selected \in Nat /\ s.first \in Nat /\ n # 0
        /\ s.cursor < n /\ s.cursor = s.first + s.selected
        /\ s.selected < Smaller(max_lines, n) /\ s.first + Smaller(max_lines, n) <= n
    BY <1>1, <1>4 DEF Shown, NavState
  <2>3. move.count \in Nat /\ move.count <= s.cursor
    BY <1>1, <1>4
  <2> HIDE DEF move
  <2>4. CASE move.count <= s.selected
    <3>1. line = s.selected - move.count
      BY <2>2, <2>3, <2>4 DEF Smaller
    <3>2. c \in Nat /\ c < n /\ line \in Nat /\ line <= c /\ c - line = s.first
          /\ line <= s.selected
      BY <2>2, <2>3, <2>4, <3>1
    <3> QED
      BY <2>1, <2>2, <3>2, RecoverShows, NavAssumption DEF Smaller
  <2>5. CASE move.count > s.selected
    <3>1. line = 0
      BY <2>2, <2>3, <2>5 DEF Smaller
    <3>2. c \in Nat /\ c < n /\ c - line <= s.first /\ c - line \in Nat
          /\ line < Smaller(max_lines, n)
      BY <2>2, <2>3, <2>5, <3>1, NavAssumption DEF Smaller
    <3> QED
      BY <2>1, <2>2, <3>1, <3>2, RecoverShows, NavAssumption DEF Smaller
  <2> QED
    BY <2>2, <2>3, <2>4, <2>5
<1> QED BY <1>1, <1>2, <1>3, <1>4

\* A page is moved by going to the end of the display first.
LEMMA MovesShow ==
    ASSUME NEW mode, NEW n \in Nat, NEW s \in NavState, NEW lines \in Nat, Shown(n, s)
    PROVE  /\ move_down_multi(mode, n, s, lines) \in NavState
           /\ Shown(n, move_down_multi(mode, n, s, lines))
           /\ move_up_multi(mode, n, s, lines) \in NavState
           /\ Shown(n, move_up_multi(mode, n, s, lines))
<1>1. distance_to_top(n, s) \in Nat
  BY DEF distance_to_top, NavState
<1>2. distance_to_bottom(n, s) \in Nat
  BY NavAssumption DEF distance_to_bottom, Shown, NavState, Smaller
<1> DEFINE below == IF lines = 1 \/ distance_to_bottom(n, s) = 0 THEN lines
                    ELSE distance_to_bottom(n, s)
           above == IF lines = 1 \/ distance_to_top(n, s) = 0 THEN lines
                    ELSE distance_to_top(n, s)
<1>3. below \in Nat /\ above \in Nat
  BY <1>1, <1>2
<1>4. /\ move_down_multi(mode, n, s, lines) = down(mode, n, s, below)
      /\ move_up_multi(mode, n, s, lines) = up(mode, n, s, above)
  BY DEF move_down_multi, move_up_multi
<1> HIDE DEF below, above
<1> QED BY <1>3, <1>4, DownShows, UpShows

\* Paging down goes on by no more lines than there are on the display.
LEMMA PageDown ==
    ASSUME NEW mode, NEW n \in Nat, NEW s \in NavState, NEW lines \in 1 .. max_lines,
           Shown(n, s), s.cursor # n - 1
    PROVE  LET t == move_down_multi(mode, n, s, lines)
           IN  t.first <= s.first + max_lines /\ (t.cursor > s.cursor \/ n = 0)
<1>1. CASE n = 0
  BY <1>1, NavAssumption
     DEF move_down_multi, down, fixup_down_count, distance_to_bottom, Shown, NavState,
         recover_cursor_and_selection
<1>2. CASE n # 0
  <2> DEFINE d == distance_to_bottom(n, s)
             count == IF lines = 1 \/ distance_to_bottom(n, s) = 0 THEN lines
                      ELSE distance_to_bottom(n, s)
             k == IF s.cursor + count < n THEN count ELSE n - s.cursor - 1
             line == Smaller(s.selected + k, max_lines - 1)
  <2>1. /\ s.cursor \in Nat /\ s.selected \in Nat /\ s.first \in Nat
        /\ s.cursor < n - 1 /\ s.cursor = s.first + s.selected
        /\ s.selected < Smaller(max_lines, n)
        /\ max_lines \in Nat /\ lines \in Nat /\ 0 < lines /\ lines <= max_lines
    BY <1>2, NavAssumption DEF Shown, NavState
  <2>2. distance_to_bottom(n, s) \in Nat /\ distance_to_bottom(n, s) < max_lines
    BY <1>2, <2>1 DEF distance_to_bottom, Smaller
  <2>3. count \in Nat /\ 0 < count /\ count <= max_lines
    <3>1. d \in Nat /\ d < max_lines
      BY <2>2
    <3> HIDE DEF d
    <3>2. count = IF lines = 1 \/ d = 0 THEN lines ELSE d
      BY DEF d
    <3> HIDE DEF count
    <3> QED
      BY <2>1, <3>1, <3>2
  <2>4. move_down_multi(mode, n, s, lines) = down(mode, n, s, count)
    BY DEF move_down_multi
  <2> HIDE DEF count
  <2>5. fixup_down_count(mode, n, s, count) = [wraps |-> FALSE, count |-> k]
    <3>1. ~(count = 0 \/ s.cursor >= n) /\ s.cursor # n - 1
      BY <2>1, <2>3
    <3> QED
      BY <3>1, Zenon DEF fixup_down_count
  <2>6. k \in Nat /\ 0 < k /\ k <= max_lines /\ s.cursor + k \in Nat
    <3>1. k = IF s.cursor + count < n THEN count ELSE n - s.cursor - 1
      OBVIOUS
    <3> HIDE DEF k
    <3> QED
      BY <2>1, <2>3, <3>1
  <2>7. down(mode, n, s, count) = recover_first_displayed_item(s.cursor + k, line)
    BY <2>5, <2>6 DEF down
  <2> HIDE DEF k
  <2>8. /\ line \in Nat /\ line <= s.cursor + k
        /\ s.cursor + k - line <= s.first + max_lines
    BY <2>1, <2>6 DEF Smaller
  <2> HIDE DEF line
  <2>9. /\ down(mode, n, s, count).first = s.cursor + k - line
        /\ down(mode, n, s, count).cursor = s.cursor + k
    <3> DEFINE c == s.cursor + k
    <3>1. c \in Nat /\ line \in Nat /\ line <= c
      BY <2>6, <2>8
    <3>2. down(mode, n, s, count) = recover_first_displayed_item(c, line)
      BY <2>7
    <3>3. (down(mode, n, s, count).first = c - line) /\ (down(mode, n, s, count).cursor = c)
      <4> HIDE DEF c
      <4> QED BY <3>1, <3>2, RecoverFields
    <3> QED
      BY <2>1, <2>6, <2>8, <3>3
  <2>10. /\ down(mode, n, s, count).first <= s.first + max_lines
         /\ down(mode, n, s, count).cursor > s.cursor
    BY <2>1, <2>6, <2>8, <2>9
  <2> QED
    BY <2>4, <2>10
<1> QED BY <1>1, <1>2

-----------------------------------------------------------------------------
(* Searching: whatever is found is a line, whether it is the right one or  *)
(* not.                                                                    *)

Part == [top : Nat, bottom : Nat, center : Nat]

SearchTypeOK ==
    /\ upper_ \in Part /\ lower_ \in Part
    /\ bottom_candidate_ \in Nat \cup {NoCandidate}

LEMMA PartitionType ==
    ASSUME NEW top \in Nat, NEW bottom \in Nat
    PROVE  Partition(top, bottom) \in Part
BY DEF Partition, compute_center, Part

LEMMA PartsType ==
    ASSUME NEW p \in Part
    PROVE  /\ pick_top_half(p) \in Part /\ pick_bottom_half(p) \in Part
           /\ step_center_down(p) \in Part /\ lock_at_center(p) \in Part
<1>1. p.top \in Nat /\ p.bottom \in Nat /\ p.center \in Nat
  BY DEF Part
<1>2. step_center_down(p) \in Part
  BY DEF step_center_down, Part
<1> QED
  BY <1>1, <1>2, PartitionType DEF pick_top_half, pick_bottom_half, lock_at_center

\* Nothing the search does makes a partition of anything but lines.
LEMMA FoundType ==
    ASSUME SearchTypeOK, NEW p \in Part, Found(p) \/ FoundApproximate(p) \/ Continue(p)
    PROVE  SearchTypeOK'
<1>1. upper_.top \in Nat /\ p.bottom \in Nat
  BY DEF SearchTypeOK, Part
<1>2. Partition(upper_.top, p.bottom) \in Part
  BY <1>1, PartitionType
<1>3. CASE Found(p)
  BY <1>2, <1>3 DEF Found, prepare_next_iteration, SearchTypeOK
<1>4. CASE FoundApproximate(p)
  BY <1>4 DEF FoundApproximate, SearchTypeOK
<1>5. CASE Continue(p)
  BY <1>5 DEF Continue, SearchTypeOK
<1> QED BY <1>3, <1>4, <1>5

LEMMA SearchTypeStep == SearchTypeOK /\ SearchNext => SearchTypeOK'
<1> SUFFICES ASSUME SearchTypeOK, SearchNext PROVE SearchTypeOK'
  OBVIOUS
<1>1. current \in Part /\ current.center \in Nat
  BY DEF SearchTypeOK, current, Part
<1>2. /\ pick_top_half(current) \in Part /\ pick_bottom_half(current) \in Part
      /\ step_center_down(current) \in Part /\ lock_at_center(current) \in Part
  BY <1>1, PartsType
<1>3. CASE CheckShortItem
  BY <1>2, <1>3, FoundType DEF CheckShortItem, state_vars, SearchTypeOK
<1>4. CASE CheckLast
  BY <1>1, <1>4, FoundType DEF CheckLast
<1>5. CASE CheckTwo
  <2>1. bottom_candidate_ # NoCandidate =>
          Partition(bottom_candidate_, bottom_candidate_) \in Part
    BY PartitionType DEF SearchTypeOK
  <2>2. \/ Found(lock_at_center(current))
        \/ /\ bottom_candidate_' = current.center
           /\ lower_' = step_center_down(current)
           /\ UNCHANGED upper_
        \/ Continue(step_center_down(current))
        \/ Continue(lock_at_center(current))
        \/ FoundApproximate(lock_at_center(current))
        \/ /\ bottom_candidate_ # NoCandidate
           /\ Found(Partition(bottom_candidate_, bottom_candidate_))
        \/ UNCHANGED state_vars
    BY <1>5 DEF CheckTwo
  <2>3. CASE /\ bottom_candidate_' = current.center
             /\ lower_' = step_center_down(current)
             /\ UNCHANGED upper_
    BY <1>1, <1>2, <2>3 DEF SearchTypeOK
  <2>4. CASE UNCHANGED state_vars
    BY <2>4 DEF state_vars, SearchTypeOK
  <2> QED
    BY <1>2, <2>1, <2>2, <2>3, <2>4, FoundType
<1>6. CASE CheckCenter
  <2>1. lower_ \in Part
    BY DEF SearchTypeOK
  <2>2. narrowed_lower \in Part
    BY <2>1, PartsType DEF narrowed_lower
  <2> QED
    BY <1>2, <1>6, <2>2 DEF CheckCenter, SearchTypeOK
<1> QED BY <1>3, <1>4, <1>5, <1>6 DEF SearchNext

-----------------------------------------------------------------------------
(* The main loop.                                                          *)

BrowseInv ==
    /\ number_of_items \in Nat /\ nav \in NavState
    /\ SearchTypeOK
    /\ Shown(number_of_items, nav)

LEMMA BrowseInit == Init => BrowseInv
<1> SUFFICES ASSUME Init PROVE BrowseInv
  OBVIOUS
<1>1. /\ recover_cursor_and_selection \in NavState
      /\ \A n \in Nat : Shown(n, recover_cursor_and_selection)
  BY NavAssumption DEF recover_cursor_and_selection, NavState, Shown, Smaller
<1>2. CASE task = "search"
  <2>1. SearchInit /\ number_of_items = Len(list) /\ nav = recover_cursor_and_selection
    BY <1>2 DEF Init
  <2>2. PICK n \in 1 .. MaxListItems : list \in [1 .. n -> Strings]
    BY <2>1 DEF SearchInit, SortedLists
  <2>3. Len(list) = n /\ n \in Nat /\ n - 1 \in Nat
    BY <2>2, SearchAssumption
  <2>4. Partition(0, Len(list) - 1) \in Part
    BY <2>3, PartitionType
  <2> QED
    BY <1>1, <2>1, <2>3, <2>4 DEF SearchInit, BrowseInv, SearchTypeOK
<1>3. CASE task # "search"
  <2>1. NavInit /\ SearchIdle
    BY <1>3 DEF Init
  <2>2. Partition(0, 0) \in Part
    BY PartitionType
  <2> QED
    BY <1>1, <2>1, <2>2 DEF NavInit, SearchIdle, BrowseInv, SearchTypeOK
<1> QED BY <1>2, <1>3

LEMMA BrowseStep == BrowseInv /\ [Next]_vars => BrowseInv'
<1> SUFFICES ASSUME BrowseInv, [Next]_vars PROVE BrowseInv'
  OBVIOUS
<1> USE DEF BrowseInv
<1>1. ASSUME NEW line \in Nat, GoToLine(line), UNCHANGED search_vars PROVE BrowseInv'
  BY <1>1, SetCursorShows DEF GoToLine, search_vars, state_vars, SearchTypeOK
<1>2. ASSUME NEW n \in Nat, NEW line \in Nat, EnterList(n, line), UNCHANGED search_vars
      PROVE  BrowseInv'
  <2>1. (IF n = 0 THEN 0 ELSE Smaller(line, n - 1)) \in Nat
    BY DEF Smaller
  <2> QED
    BY <1>2, <2>1, SetCursorShows DEF EnterList, search_vars, state_vars, SearchTypeOK
<1>3. ASSUME NEW lines \in Nat, MoveDown(lines) \/ MoveUp(lines), UNCHANGED search_vars
      PROVE  BrowseInv'
  BY <1>3, MovesShow DEF MoveDown, MoveUp, search_vars, state_vars, SearchTypeOK
<1>4. ASSUME UNCHANGED <<nav_vars, search_vars>> PROVE BrowseInv'
  BY <1>4 DEF nav_vars, search_vars, state_vars, SearchTypeOK
<1>5. CASE SearchStep
  BY <1>5, SearchTypeStep DEF SearchStep, nav_vars
<1>6. CASE point_to_item
  <2>1. upper_.top \in Nat
    BY DEF SearchTypeOK, Part
  <2> QED
    BY <1>1, <1>4, <1>6, <2>1 DEF point_to_item
<1>7. CASE Aborted
  BY <1>4, <1>7 DEF Aborted, vars
<1>8. ASSUME NEW sig \in DOMAIN ListNavigationEvent, ScrollInBrowser(sig) PROVE BrowseInv'
  <2>1. PICK count \in 1 .. MaxCount :
           LET lines == IF ListNavigationEvent[sig] = "NAV_SCROLL_PAGES"
                        THEN count * max_lines ELSE count
           IN  MoveDown(lines) \/ MoveUp(lines)
    BY <1>8 DEF ScrollInBrowser
  <2>2. count \in Nat /\ count * max_lines \in Nat
    BY NavAssumption
  <2> QED
    BY <1>3, <1>8, <2>1, <2>2 DEF ScrollInBrowser
<1>9. ASSUME NEW sig \in DOMAIN ListNavigationEvent, NavigateInPlayer(sig) PROVE BrowseInv'
  BY <1>4, <1>9 DEF NavigateInPlayer
<1>10. CASE BrowserChangesList
  <2>1. \A n \in 0 .. MaxItems : n \in Nat
    BY NavAssumption
  <2> QED
    BY <1>1, <1>2, <1>10, <2>1 DEF BrowserChangesList
<1>11. CASE Listen
  BY <1>4, <1>11 DEF Listen
<1>12. CASE UNCHANGED vars
  BY <1>4, <1>12 DEF vars
<1> QED
  BY <1>5, <1>6, <1>7, <1>8, <1>9, <1>10, <1>11, <1>12 DEF Next

\* The cursor is on the display, and the display within the list, wherever the user goes,
\* whatever is entered, and whatever is found (List::Nav).
THEOREM CursorIsAlwaysShown == Spec => []CursorIsShown
<1>1. BrowseInv => CursorIsShown
  BY DEF BrowseInv, Shown, CursorIsShown
<1> QED BY <1>1, BrowseInit, BrowseStep, PTL DEF Spec

\* Paging down through a list skips none of its items (View::input() of the browsers,
\* with move_down_multi()).
THEOREM PagingSkipsNothing == Spec => NoItemSkipped
<1> DEFINE Paging == \A lines \in 1 .. max_lines :
                        MoveDown(lines) /\ nav.cursor # number_of_items - 1 =>
                            /\ nav'.first <= nav.first + max_lines
                            /\ nav'.cursor > nav.cursor \/ number_of_items = 0
<1>1. BrowseInv => Paging
  BY PageDown DEF BrowseInv, MoveDown
<1>2. BrowseInv => [Paging]_nav_vars
  BY <1>1
<1> QED BY <1>2, BrowseInit, BrowseStep, PTL DEF Spec, NoItemSkipped

-----------------------------------------------------------------------------
(* Bisecting.  What is left of the list are the items from lo to hi; r     *)
(* tells for each of them whether it is before (0), at (1) or behind (2)   *)
(* the character being searched for.                                       *)

Ascending(r, lo, hi) ==
    /\ r \in [lo .. hi -> 0 .. 2]
    /\ \A i, j \in lo .. hi : i <= j => r[i] <= r[j]

\* The center of two items is the first one until that has been looked at.
Within(p, lo, hi) ==
    /\ p \in Part
    /\ lo <= p.top /\ p.top <= p.bottom /\ p.bottom <= hi
    /\ \/ p.center = compute_center(p.top, p.bottom)
       \/ (p.bottom = p.top + 1 /\ p.center = p.bottom)

\* If there is an item with the character at all, then the first one is in the partition.
FirstIsIn(p, r, lo, hi) ==
    /\ Within(p, lo, hi)
    /\ \A i \in lo .. hi : i < p.top => r[i] = 0
    /\ p.top > lo => r[p.top] = 0
    /\ p.bottom < hi => r[p.bottom] # 0
    /\ p.top < p.bottom /\ p.center = p.bottom => r[p.top] = 0

\* The same of the last one.
LastIsIn(p, r, lo, hi) ==
    /\ Within(p, lo, hi)
    /\ p.top > lo => r[p.top] # 2
    /\ p.bottom < hi => r[p.bottom] = 2

IsFirst(i, r, lo, hi) == i \in lo .. hi /\ r[i] = 1 /\ \A j \in lo .. hi : j < i => r[j] = 0

IsLast(i, r, lo, hi) == i \in lo .. hi /\ r[i] = 1 /\ \A j \in lo .. hi : i < j => r[j] = 2

NoneIsIn(r, lo, hi) == \A i \in lo .. hi : r[i] # 1

LEMMA CenterIsWithin ==
    ASSUME NEW top \in Nat, NEW bottom \in Nat, top <= bottom
    PROVE  /\ compute_center(top, bottom) \in top .. bottom
           /\ bottom - top <= 1 => compute_center(top, bottom) = top
           /\ bottom - top > 1 =>
                  top < compute_center(top, bottom) /\ compute_center(top, bottom) < bottom
<1> DEFINE d == bottom - top
           h == d \div 2
<1>1. d \in Nat /\ compute_center(top, bottom) = top + h
  BY DEF compute_center
<1>2. \A n \in Nat : /\ n \div 2 \in Nat /\ n \div 2 <= n
                     /\ n <= 1 => n \div 2 = 0
                     /\ n > 1 => 0 < n \div 2 /\ n \div 2 < n
  OBVIOUS
<1>3. h \in Nat /\ h <= d /\ (d <= 1 => h = 0) /\ (d > 1 => 0 < h /\ h < d)
  BY <1>1, <1>2
<1>4. d = bottom - top
  OBVIOUS
<1> HIDE DEF d, h
<1> QED
  BY <1>1, <1>3, <1>4

LEMMA PartitionIsWithin ==
    ASSUME NEW lo \in Nat, NEW hi \in Nat, NEW top \in lo .. hi, NEW bottom \in lo .. hi,
           top <= bottom
    PROVE  /\ Within(Partition(top, bottom), lo, hi)
           /\ Partition(top, bottom).top = top /\ Partition(top, bottom).bottom = bottom
           /\ Partition(top, bottom).center = compute_center(top, bottom)
BY PartitionType DEF Partition, Within

\* One item is left: it is the first one, or there is none.
LEMMA FirstOfOne ==
    ASSUME NEW lo \in Nat, NEW hi \in Nat, NEW r, Ascending(r, lo, hi),
           NEW p, FirstIsIn(p, r, lo, hi), is_unique(p)
    PROVE  /\ p.center \in lo .. hi /\ p.center = p.top
           /\ r[p.center] = 1 => IsFirst(p.top, r, lo, hi)
           /\ r[p.center] # 1 => NoneIsIn(r, lo, hi)
<1>1. /\ p.top \in Nat /\ p.bottom \in Nat /\ p.center \in Nat /\ p.bottom = p.top
      /\ p.top \in lo .. hi
      /\ p.center = compute_center(p.top, p.bottom) \/ p.bottom = p.top + 1
  BY DEF FirstIsIn, Within, is_unique, Part
<1>2. p.center = p.top
  BY <1>1, CenterIsWithin
<1> QED
  BY <1>1, <1>2 DEF FirstIsIn, Ascending, IsFirst, NoneIsIn

LEMMA CenterOfTwo ==
    ASSUME NEW lo \in Nat, NEW hi \in Nat, NEW p, Within(p, lo, hi), has_two(p)
    PROVE  /\ p.top \in lo .. hi /\ p.bottom \in lo .. hi /\ p.bottom = p.top + 1
           /\ p.center = p.top \/ p.center = p.bottom
           /\ p.center \in lo .. hi
<1>1. /\ p.top \in Nat /\ p.bottom \in Nat /\ p.center \in Nat /\ p.bottom = p.top + 1
      /\ p.top \in lo .. hi /\ p.bottom \in lo .. hi
      /\ p.center = compute_center(p.top, p.bottom) \/ p.center = p.bottom
  BY DEF Within, has_two, Part
<1>2. p.center = p.top \/ p.center = p.bottom
  BY <1>1, CenterIsWithin
<1> QED
  BY <1>1, <1>2

LEMMA FirstOfTwo ==
    ASSUME NEW lo \in Nat, NEW hi \in Nat, NEW r, Ascending(r, lo, hi),
           NEW p, FirstIsIn(p, r, lo, hi), has_two(p)
    PROVE  /\ r[p.center] = 1 => IsFirst(p.center, r, lo, hi)
           /\ r[p.center] = 0 /\ p.center < p.bottom =>
                  FirstIsIn(step_center_down(p), r, lo, hi)
           /\ r[p.center] = 0 /\ p.center >= p.bottom =>
                  FirstIsIn(lock_at_center(p), r, lo, hi)
           /\ r[p.center] = 2 => NoneIsIn(r, lo, hi)
<1> DEFINE t == p.top
           b == p.bottom
           c == p.center
<1>1. /\ t \in lo .. hi /\ b \in lo .. hi /\ b = t + 1 /\ (c = t \/ c = b) /\ c \in lo .. hi
      /\ p \in Part /\ t \in Nat
  BY CenterOfTwo DEF FirstIsIn, Within
<1>2. /\ \A i \in lo .. hi : i < t => r[i] = 0
      /\ t > lo => r[t] = 0
      /\ b < hi => r[b] # 0
      /\ c = b => r[t] = 0
  BY <1>1 DEF FirstIsIn
<1>3. ASSUME r[c] = 1 PROVE IsFirst(c, r, lo, hi)
  <2>1. ASSUME NEW j \in lo .. hi, j < c PROVE r[j] = 0
    <3>1. j < t \/ (j = t /\ c = b)
      BY <1>1, <2>1
    <3> QED
      BY <1>2, <3>1
  <2> QED
    BY <1>1, <1>3, <2>1 DEF IsFirst
<1>4. ASSUME r[c] = 0, c < b PROVE FirstIsIn(step_center_down(p), r, lo, hi)
  <2>1. /\ step_center_down(p) \in Part /\ step_center_down(p).top = t
        /\ step_center_down(p).bottom = b /\ step_center_down(p).center = b
    BY <1>1, <1>4, PartsType DEF step_center_down, Part
  <2>2. c = t
    BY <1>1, <1>4
  <2> QED
    BY <1>1, <1>2, <1>4, <2>1, <2>2 DEF FirstIsIn, Within
<1>5. ASSUME r[c] = 0, c >= b PROVE FirstIsIn(lock_at_center(p), r, lo, hi)
  <2>1. c = b /\ ~(b < hi)
    BY <1>1, <1>2, <1>5
  <2>2. /\ Within(lock_at_center(p), lo, hi) /\ lock_at_center(p).top = b
        /\ lock_at_center(p).bottom = b /\ lock_at_center(p).center = compute_center(b, b)
    BY <1>1, <2>1, PartitionIsWithin DEF lock_at_center
  <2>3. \A i \in lo .. hi : i < b => r[i] = 0
    BY <1>1, <1>2, <2>1
  <2> QED
    BY <1>5, <2>1, <2>2, <2>3 DEF FirstIsIn
<1>6. ASSUME r[c] = 2 PROVE NoneIsIn(r, lo, hi)
  <2>1. ASSUME NEW i \in lo .. hi PROVE r[i] # 1
    <3>1. i < c \/ c <= i
      BY <1>1
    <3>2. i < c => i < t \/ (i = t /\ c = b)
      BY <1>1
    <3>3. c <= i => 2 <= r[i]
      BY <1>1, <1>6 DEF Ascending
    <3> QED
      BY <1>2, <3>1, <3>2, <3>3
  <2> QED
    BY <2>1 DEF NoneIsIn
<1> QED
  BY <1>3, <1>4, <1>5, <1>6

LEMMA Halves ==
    ASSUME NEW lo \in Nat, NEW hi \in Nat, NEW p, Within(p, lo, hi), ~is_unique(p), ~has_two(p)
    PROVE  /\ p.top \in lo .. hi /\ p.bottom \in lo .. hi /\ p.center \in lo .. hi
           /\ p.top < p.center /\ p.center < p.bottom
           /\ p.center = compute_center(p.top, p.bottom)
           /\ Within(pick_top_half(p), lo, hi) /\ Within(pick_bottom_half(p), lo, hi)
           /\ pick_top_half(p).top = p.top /\ pick_top_half(p).bottom = p.center
           /\ pick_bottom_half(p).top = p.center /\ pick_bottom_half(p).bottom = p.bottom
           /\ pick_top_half(p).center = compute_center(p.top, p.center)
           /\ pick_bottom_half(p).center = compute_center(p.center, p.bottom)
<1>1. /\ p.top \in Nat /\ p.bottom \in Nat /\ p.center \in Nat
      /\ p.top \in lo .. hi /\ p.bottom \in lo .. hi /\ p.bottom - p.top > 1
      /\ p.center = compute_center(p.top, p.bottom)
  BY DEF Within, is_unique, has_two, Part
<1>2. p.top < p.center /\ p.center < p.bottom /\ p.center \in lo .. hi
  BY <1>1, CenterIsWithin
<1> QED
  BY <1>1, <1>2, PartitionIsWithin DEF pick_top_half, pick_bottom_half

LEMMA FirstOfMany ==
    ASSUME NEW lo \in Nat, NEW hi \in Nat, NEW r, Ascending(r, lo, hi),
           NEW p, FirstIsIn(p, r, lo, hi), ~is_unique(p), ~has_two(p)
    PROVE  /\ r[p.center] # 0 => FirstIsIn(pick_top_half(p), r, lo, hi)
           /\ r[p.center] = 0 => FirstIsIn(pick_bottom_half(p), r, lo, hi)
<1> DEFINE t == p.top
           b == p.bottom
           c == p.center
           u == pick_top_half(p)
           d == pick_bottom_half(p)
<1>1. Within(p, lo, hi)
  BY DEF FirstIsIn
<1>2. /\ t \in lo .. hi /\ b \in lo .. hi /\ c \in lo .. hi /\ t < c /\ c < b
      /\ Within(u, lo, hi) /\ Within(d, lo, hi)
      /\ u.top = t /\ u.bottom = c /\ d.top = c /\ d.bottom = b
      /\ u.center = compute_center(t, c) /\ d.center = compute_center(c, b)
  BY <1>1, Halves
<1>3. /\ \A i \in lo .. hi : i < t => r[i] = 0
      /\ t > lo => r[t] = 0
      /\ b < hi => r[b] # 0
  BY DEF FirstIsIn
<1>4. t \in Nat /\ c \in Nat /\ b \in Nat
  BY <1>2
<1> HIDE DEF t, b, c, u, d
<1>5. (c - t <= 1 => u.center = t) /\ (t < c => u.center < c)
  <2>1. c - t <= 1 => u.center = t
    BY <1>2, <1>4, CenterIsWithin
  <2>2. c - t > 1 => u.center < c
    BY <1>2, <1>4, CenterIsWithin
  <2> QED
    BY <1>2, <1>4, <2>1, <2>2
<1>6. d.center < b
  <2>1. b - c <= 1 => d.center = c
    BY <1>2, <1>4, CenterIsWithin
  <2>2. b - c > 1 => d.center < b
    BY <1>2, <1>4, CenterIsWithin
  <2> QED
    BY <1>2, <1>4, <2>1, <2>2
<1>7. r[c] # 0 => FirstIsIn(u, r, lo, hi)
  BY <1>2, <1>3, <1>4, <1>5 DEF FirstIsIn
<1>8. ASSUME r[c] = 0 PROVE FirstIsIn(d, r, lo, hi)
  <2>1. \A i \in lo .. hi : i < c => r[i] = 0
    BY <1>2, <1>8 DEF Ascending
  <2> QED
    BY <1>2, <1>3, <1>4, <1>6, <1>8, <2>1 DEF FirstIsIn
<1> QED
  BY <1>7, <1>8 DEF c, u, d

LEMMA LastOfMany ==
    ASSUME NEW lo \in Nat, NEW hi \in Nat, NEW r, Ascending(r, lo, hi),
           NEW p, LastIsIn(p, r, lo, hi), ~is_unique(p), ~has_two(p)
    PROVE  /\ r[p.center] = 2 => LastIsIn(pick_top_half(p), r, lo, hi)
           /\ r[p.center] # 2 => LastIsIn(pick_bottom_half(p), r, lo, hi)
<1>1. Within(p, lo, hi)
  BY DEF LastIsIn
<1> QED
  BY <1>1, Halves DEF LastIsIn

\* If it is known that there is such an item, then the one that is left is the last one.
LEMMA LastOfOne ==
    ASSUME NEW lo \in Nat, NEW hi \in Nat, NEW r, Ascending(r, lo, hi),
           NEW f, IsFirst(f, r, lo, hi),
           NEW p, LastIsIn(p, r, lo, hi), is_unique(p)
    PROVE  p.center = p.bottom /\ IsLast(p.bottom, r, lo, hi)
<1>1. /\ p.top \in Nat /\ p.bottom \in Nat /\ p.center \in Nat /\ p.bottom = p.top
      /\ p.top \in lo .. hi
      /\ p.center = compute_center(p.top, p.bottom) \/ p.bottom = p.top + 1
  BY DEF LastIsIn, Within, is_unique, Part
<1>2. p.center = p.top
  BY <1>1, CenterIsWithin
<1>3. (p.top > lo => r[p.top] # 2) /\ (p.top < hi => r[p.top] = 2)
  BY <1>1 DEF LastIsIn
<1>4. f \in lo .. hi /\ r[f] = 1
  BY DEF IsFirst
<1>5. r[p.top] \in 0 .. 2
  BY <1>1 DEF Ascending
<1>6. p.top = hi
  <2>1. ASSUME p.top < hi PROVE FALSE
    <3>1. r[p.top] = 2 /\ p.top = lo
      BY <1>1, <1>3, <2>1
    <3>2. r[p.top] <= r[f]
      BY <1>1, <1>4, <3>1 DEF Ascending
    <3> QED
      BY <1>4, <3>1, <3>2
  <2> QED
    BY <1>1, <2>1
<1>7. r[p.top] = 1
  <2>1. r[f] <= r[p.top]
    BY <1>1, <1>4, <1>6 DEF Ascending
  <2>2. f = p.top \/ p.top > lo
    BY <1>1, <1>4, <1>6
  <2> QED
    BY <1>3, <1>4, <1>5, <2>1, <2>2
<1> QED
  BY <1>1, <1>2, <1>6, <1>7 DEF IsLast

\* What is remembered of the first of two items while the second one is looked at.
Remembers(candidate, p, r) ==
    /\ p.top < p.bottom /\ p.center = p.bottom =>
           IF candidate = NoCandidate THEN r[p.top] = 0
           ELSE candidate = p.top /\ r[p.top] = 1
    /\ candidate # NoCandidate => p.top < p.bottom /\ p.center = p.bottom

LEMMA LastOfTwo ==
    ASSUME NEW lo \in Nat, NEW hi \in Nat, NEW r, Ascending(r, lo, hi),
           NEW f, IsFirst(f, r, lo, hi),
           NEW p, LastIsIn(p, r, lo, hi), has_two(p),
           NEW candidate, Remembers(candidate, p, r)
    PROVE  /\ r[p.center] = 0 => p.center < p.bottom
           /\ r[p.center] = 2 => candidate # NoCandidate /\ IsLast(candidate, r, lo, hi)
           /\ r[p.center] # 2 /\ p.center < p.bottom =>
                  LastIsIn(step_center_down(p), r, lo, hi)
           /\ r[p.center] = 0 => candidate = NoCandidate
           /\ r[p.center] = 1 /\ p.center < p.bottom =>
                  Remembers(p.center, step_center_down(p), r)
           /\ r[p.center] = 0 =>
                  Remembers(NoCandidate, step_center_down(p), r)
           /\ r[p.center] = 1 /\ p.center >= p.bottom => IsLast(p.center, r, lo, hi)
<1> DEFINE t == p.top
           b == p.bottom
           c == p.center
           s == step_center_down(p)
<1>1. /\ t \in lo .. hi /\ b \in lo .. hi /\ b = t + 1 /\ (c = t \/ c = b) /\ c \in lo .. hi
      /\ p \in Part /\ t \in Nat
  BY CenterOfTwo DEF LastIsIn, Within
<1>2. (t > lo => r[t] # 2) /\ (b < hi => r[b] = 2)
  BY <1>1 DEF LastIsIn
<1>3. /\ f \in lo .. hi /\ r[f] = 1
      /\ r[t] \in 0 .. 2 /\ r[b] \in 0 .. 2
      /\ f <= t => 1 <= r[t]
      /\ t <= f => r[t] <= 1
      /\ f <= b => 1 <= r[b]
      /\ b <= f => r[b] <= 1
  BY <1>1 DEF IsFirst, Ascending
<1>4. r[t] # 2
  <2>1. t = lo => t <= f
    BY <1>3
  <2> QED
    BY <1>1, <1>2, <1>3, <2>1
<1>5. r[b] # 0
  <2>1. b = hi => f <= b
    BY <1>3
  <2> QED
    BY <1>1, <1>2, <1>3, <2>1
<1>6. r[b] = 1 => b = hi
  BY <1>1, <1>2
<1>7. /\ c = b => IF candidate = NoCandidate THEN r[t] = 0 ELSE candidate = t /\ r[t] = 1
      /\ candidate # NoCandidate => c = b
  BY <1>1 DEF Remembers
<1>8. c = t => s \in Part /\ s.top = t /\ s.bottom = b /\ s.center = b
  BY <1>1, PartsType DEF step_center_down, Part
<1>9. r[c] = 0 => c = t
  BY <1>1, <1>5
<1>10. ASSUME r[c] = 2 PROVE candidate # NoCandidate /\ IsLast(candidate, r, lo, hi)
  <2>1. c = b /\ r[b] = 2
    BY <1>1, <1>4, <1>10
  <2>2. r[t] = 1
    <3>1. ASSUME r[t] = 0 PROVE FALSE
      <4>1. ~(f <= t) /\ ~(b <= f)
        BY <1>3, <2>1, <3>1
      <4> QED
        BY <1>1, <1>3, <4>1
    <3> QED
      BY <1>3, <1>4, <3>1
  <2>3. candidate = t /\ candidate # NoCandidate
    BY <1>7, <2>1, <2>2
  <2>4. \A j \in lo .. hi : t < j => r[j] = 2
    <3>1. \A j \in lo .. hi : t < j => b <= j
      BY <1>1
    <3>2. \A j \in lo .. hi : b <= j => r[j] \in 0 .. 2 /\ 2 <= r[j]
      BY <1>1, <2>1 DEF Ascending
    <3> QED
      BY <3>1, <3>2
  <2> QED
    BY <1>1, <2>2, <2>3, <2>4 DEF IsLast
<1>11. c = t => LastIsIn(s, r, lo, hi)
  BY <1>1, <1>2, <1>8 DEF LastIsIn, Within
<1>12. t # NoCandidate
  BY <1>1 DEF NoCandidate
<1>13. c = t /\ r[c] = 1 => Remembers(c, s, r)
  BY <1>1, <1>8, <1>12 DEF Remembers
<1>14. c = t /\ r[c] = 0 => Remembers(NoCandidate, s, r)
  BY <1>1, <1>8 DEF Remembers
<1>15. c = b /\ r[c] = 1 => IsLast(c, r, lo, hi)
  BY <1>1, <1>6 DEF IsLast
<1>16. (c < b => c = t) /\ (c >= b => c = b) /\ (c = t => c < b)
  BY <1>1
<1> QED
  BY <1>7, <1>9, <1>10, <1>11, <1>13, <1>14, <1>15, <1>16

\* The items between the first and the last one are those with the character.
LEMMA FirstToLast ==
    ASSUME NEW lo \in Nat, NEW hi \in Nat, NEW r, Ascending(r, lo, hi),
           NEW f, IsFirst(f, r, lo, hi), NEW l, IsLast(l, r, lo, hi)
    PROVE  f <= l /\ \A i \in lo .. hi : r[i] = 1 <=> i \in f .. l
<1>1. /\ f \in lo .. hi /\ r[f] = 1 /\ l \in lo .. hi /\ r[l] = 1
      /\ \A j \in lo .. hi : j < f => r[j] = 0
      /\ \A j \in lo .. hi : l < j => r[j] = 2
  BY DEF IsFirst, IsLast
<1>2. f <= l
  BY <1>1
<1>3. \A i \in lo .. hi : i \in f .. l => r[f] <= r[i] /\ r[i] <= r[l] /\ r[i] \in 0 .. 2
  BY <1>1 DEF Ascending
<1>4. \A i \in lo .. hi : i \in f .. l \/ i < f \/ l < i
  BY <1>1
<1> QED
  BY <1>1, <1>2, <1>3, <1>4

-----------------------------------------------------------------------------
(* Strings and their order.                                                *)

LEMMA StringsAre ==
    ASSUME NEW s \in Strings
    PROVE  s \in Seq(Nat) /\ Len(s) \in Nat \ {0}
<1>1. PICK n \in 1 .. MaxLength : s \in [1 .. n -> Characters]
  BY DEF Strings
<1>2. n \in Nat \ {0} /\ Characters \subseteq Nat
  BY SearchAssumption
<1>3. s \in [1 .. n -> Nat]
  BY <1>1, <1>2
<1>4. s \in Seq(Nat)
  BY <1>2, <1>3
<1>5. Len(s) = n
  BY <1>2, <1>3
<1> QED
  BY <1>2, <1>4, <1>5

LEMMA ListsAre ==
    ASSUME NEW l \in SortedLists
    PROVE  /\ Len(l) \in Nat \ {0}
           /\ \A i \in 1 .. Len(l) : l[i] \in Strings
           /\ \A i, j \in 1 .. Len(l) : i < j => NotAfter(l[i], l[j])
<1>1. PICK n \in 1 .. MaxListItems : l \in [1 .. n -> Strings]
  BY DEF SortedLists
<1>2. n \in Nat \ {0} /\ Len(l) = n
  BY <1>1, SearchAssumption
<1>3. \A i \in 1 .. Len(l) : \A j \in i + 1 .. Len(l) : NotAfter(l[i], l[j])
  BY DEF SortedLists
<1>4. \A i, j \in 1 .. Len(l) : i < j => j \in i + 1 .. Len(l)
  BY <1>2
<1> QED
  BY <1>1, <1>2, <1>3, <1>4

LEMMA StartsWithIs ==
    ASSUME NEW s \in Seq(Nat), NEW q \in Seq(Nat), NEW n \in 0 .. Len(q)
    PROVE  StartsWith(s, SubSeq(q, 1, n)) <=>
               n <= Len(s) /\ \A k \in 1 .. n : s[k] = q[k]
<1> DEFINE p == SubSeq(q, 1, n)
<1>1. Len(q) \in Nat /\ Len(s) \in Nat /\ n \in Nat
  OBVIOUS
<1>2. p \in Seq(Nat) /\ Len(p) = n /\ \A k \in 1 .. n : p[k] = q[k]
  BY <1>1, SubSeqProperties
<1>3. ASSUME n <= Len(s)
      PROVE  /\ SubSeq(s, 1, n) \in Seq(Nat) /\ Len(SubSeq(s, 1, n)) = n
             /\ \A k \in 1 .. n : SubSeq(s, 1, n)[k] = s[k]
  BY <1>1, <1>3, SubSeqProperties
<1> HIDE DEF p
<1>4. ASSUME n <= Len(s), \A k \in 1 .. n : s[k] = q[k]
      PROVE  SubSeq(s, 1, n) = p
  <2>1. \A k \in 1 .. n : SubSeq(s, 1, n)[k] = p[k]
    BY <1>2, <1>3, <1>4
  <2> QED
    BY <1>2, <1>3, <1>4, <2>1, SeqEqual
<1>5. ASSUME n <= Len(s), SubSeq(s, 1, n) = p
      PROVE  \A k \in 1 .. n : s[k] = q[k]
  BY <1>2, <1>3, <1>5
<1>6. StartsWith(s, p) <=> n <= Len(s) /\ SubSeq(s, 1, n) = p
  BY <1>2 DEF StartsWith
<1> QED
  BY <1>4, <1>5, <1>6 DEF p

LEMMA NotAfterIs ==
    ASSUME NEW s \in Seq(Nat), NEW t \in Seq(Nat), NotAfter(s, t),
           NEW d \in Nat, d <= Len(s), d <= Len(t), \A k \in 1 .. d : s[k] = t[k],
           d < Len(s)
    PROVE  d < Len(t) /\ s[d + 1] <= t[d + 1]
<1>1. /\ Len(s) \in Nat /\ Len(t) \in Nat
      /\ \A k \in 1 .. Len(s) : s[k] \in Nat
      /\ \A k \in 1 .. Len(t) : t[k] \in Nat
  OBVIOUS
<1>2. CASE StartsWith(t, s)
  <2>1. Len(s) <= Len(t) /\ SubSeq(t, 1, Len(s)) = s
    BY <1>2 DEF StartsWith
  <2>2. \A k \in 1 .. Len(s) : SubSeq(t, 1, Len(s))[k] = t[k]
    BY <1>1, <2>1, SubSeqProperties
  <2>3. d + 1 \in 1 .. Len(s) /\ d < Len(t)
    BY <1>1, <2>1
  <2>4. s[d + 1] = t[d + 1]
    BY <2>1, <2>2, <2>3
  <2> QED
    BY <1>1, <2>3, <2>4
<1>3. CASE \E i \in 1 .. Len(s) : /\ i <= Len(t) /\ s[i] < t[i]
                                  /\ SubSeq(s, 1, i - 1) = SubSeq(t, 1, i - 1)
  <2>1. PICK i \in 1 .. Len(s) : /\ i <= Len(t) /\ s[i] < t[i]
                                 /\ SubSeq(s, 1, i - 1) = SubSeq(t, 1, i - 1)
    BY <1>3
  <2>2. i - 1 \in 0 .. Len(s) /\ i - 1 \in 0 .. Len(t) /\ i \in Nat
    BY <1>1, <2>1
  <2>3. \A k \in 1 .. i - 1 : SubSeq(s, 1, i - 1)[k] = s[k] /\ SubSeq(t, 1, i - 1)[k] = t[k]
    BY <1>1, <2>2, SubSeqProperties
  <2>4. \A k \in 1 .. i - 1 : s[k] = t[k]
    BY <2>1, <2>3
  <2>5. ~(i <= d)
    <3>1. ASSUME i <= d PROVE FALSE
      <4>1. i \in 1 .. d
        BY <2>2, <3>1
      <4>2. s[i] = t[i] /\ s[i] \in Nat
        BY <1>1, <4>1
      <4> QED
        BY <2>1, <4>2
    <3> QED
      BY <3>1
  <2>6. d + 1 \in 1 .. Len(s) /\ d + 1 \in 1 .. Len(t) /\ (d + 1 = i \/ d + 1 \in 1 .. i - 1)
    BY <1>1, <2>1, <2>2, <2>5
  <2>7. s[d + 1] = t[d + 1] \/ s[d + 1] < t[d + 1]
    BY <2>1, <2>4, <2>6
  <2> QED
    BY <1>1, <2>6, <2>7
<1> QED
  BY <1>2, <1>3 DEF NotAfter

-----------------------------------------------------------------------------
(* The search.                                                             *)

\* The items of the list, counted from zero, and what is left of them.
Items == 0 .. Len(list) - 1
Rest == all_top_ .. all_bottom_

\* An item begins with the first d characters of the query.
Agrees(i, d) == d <= Len(list[i + 1]) /\ \A k \in 1 .. d : list[i + 1][k] = query[k]

\* Where an item is by its character next to the first d ones.
RankOf(l, q, d, i) ==
    IF Len(l[i + 1]) <= d THEN 0
    ELSE IF l[i + 1][d + 1] < q[d + 1] THEN 0
    ELSE IF l[i + 1][d + 1] = q[d + 1] THEN 1
    ELSE 2

ranks == [i \in Rest |-> RankOf(list, query, depth_, i)]

InputsOK == list \in SortedLists /\ query \in Strings

\* What is left are the items with the characters searched for before.
RestOK ==
    /\ all_top_ \in Items /\ all_bottom_ \in Items /\ all_top_ <= all_bottom_
    /\ depth_ \in Nat /\ depth_ < Len(query)
    /\ \A i \in Items : Agrees(i, depth_) <=> i \in Rest

LEMMA InputsAre ==
    ASSUME InputsOK
    PROVE  /\ Len(list) \in Nat \ {0}
           /\ query \in Seq(Nat) /\ Len(query) \in Nat \ {0}
           /\ \A i \in Items : i + 1 \in 1 .. Len(list) /\ list[i + 1] \in Seq(Nat)
<1>1. Len(list) \in Nat \ {0} /\ \A i \in 1 .. Len(list) : list[i] \in Strings
  BY ListsAre DEF InputsOK
<1>2. \A i \in Items : i + 1 \in 1 .. Len(list)
  BY <1>1 DEF Items
<1> QED
  BY <1>1, <1>2, StringsAre DEF InputsOK

LEMMA RestIs ==
    ASSUME InputsOK, RestOK
    PROVE  /\ all_top_ \in Nat /\ all_bottom_ \in Nat
           /\ \A i \in Rest : i \in Nat /\ i \in Items /\ Agrees(i, depth_)
<1>1. all_top_ \in Nat /\ all_bottom_ \in Nat /\ Len(list) \in Nat
  BY InputsAre DEF RestOK, Items
<1>2. \A i \in Rest : i \in Nat /\ i \in Items
  BY <1>1 DEF RestOK, Rest, Items
<1> QED
  BY <1>1, <1>2 DEF RestOK

LEMMA RankIs ==
    ASSUME InputsOK, RestOK, NEW i \in Rest
    PROVE  /\ ranks[i] \in 0 .. 2
           /\ ranks[i] = 1 <=> Agrees(i, depth_ + 1)
           /\ depth_ < Len(list[i + 1]) =>
                  /\ list[i + 1][depth_ + 1] = query[depth_ + 1] <=> ranks[i] = 1
                  /\ list[i + 1][depth_ + 1] < query[depth_ + 1] <=> ranks[i] = 0
                  /\ list[i + 1][depth_ + 1] > query[depth_ + 1] <=> ranks[i] = 2
<1> DEFINE s == list[i + 1]
<1>1. s \in Seq(Nat) /\ query \in Seq(Nat) /\ depth_ \in Nat /\ depth_ < Len(query)
      /\ Agrees(i, depth_)
  BY InputsAre, RestIs DEF RestOK
<1>2. ranks[i] = RankOf(list, query, depth_, i)
  BY DEF ranks
<1>3. query[depth_ + 1] \in Nat /\ (depth_ < Len(s) => s[depth_ + 1] \in Nat)
  BY <1>1
<1>4. Agrees(i, depth_ + 1) <=> depth_ < Len(s) /\ s[depth_ + 1] = query[depth_ + 1]
  <2>1. \A k \in 1 .. depth_ : s[k] = query[k]
    BY <1>1 DEF Agrees
  <2>2. /\ \A k \in 1 .. depth_ + 1 : k \in 1 .. depth_ \/ k = depth_ + 1
        /\ depth_ + 1 \in 1 .. depth_ + 1
        /\ depth_ + 1 <= Len(s) <=> depth_ < Len(s)
    BY <1>1
  <2> QED
    BY <2>1, <2>2 DEF Agrees
<1>5. Len(s) <= depth_ \/ depth_ < Len(s)
  BY <1>1
<1> QED
  BY <1>1, <1>2, <1>3, <1>4, <1>5 DEF RankOf

LEMMA RanksAscend ==
    ASSUME InputsOK, RestOK
    PROVE  Ascending(ranks, all_top_, all_bottom_)
<1>1. ranks \in [all_top_ .. all_bottom_ -> 0 .. 2]
  BY RankIs DEF ranks, Rest
<1>2. ASSUME NEW i \in Rest, NEW j \in Rest, i < j PROVE ranks[i] <= ranks[j]
  <2> DEFINE s == list[i + 1]
             t == list[j + 1]
  <2>1. /\ s \in Seq(Nat) /\ t \in Seq(Nat) /\ depth_ \in Nat
        /\ Agrees(i, depth_) /\ Agrees(j, depth_)
    BY InputsAre, RestIs DEF RestOK
  <2>2. NotAfter(s, t)
    BY <1>2, InputsAre, RestIs, ListsAre DEF InputsOK
  <2>3. /\ depth_ <= Len(s) /\ depth_ <= Len(t) /\ \A k \in 1 .. depth_ : s[k] = t[k]
    BY <2>1 DEF Agrees
  <2>4. CASE depth_ < Len(s)
    <3>1. depth_ < Len(t) /\ s[depth_ + 1] <= t[depth_ + 1]
      BY <2>1, <2>2, <2>3, <2>4, NotAfterIs
    <3>2. s[depth_ + 1] \in Nat /\ t[depth_ + 1] \in Nat /\ query[depth_ + 1] \in Nat
      <4>1. query \in Seq(Nat) /\ depth_ < Len(query)
        BY InputsAre DEF RestOK
      <4> HIDE DEF s, t
      <4> QED
        BY <2>1, <2>4, <3>1, <4>1
    <3>3. /\ s[depth_ + 1] = query[depth_ + 1] <=> ranks[i] = 1
          /\ s[depth_ + 1] > query[depth_ + 1] <=> ranks[i] = 2
          /\ t[depth_ + 1] < query[depth_ + 1] <=> ranks[j] = 0
          /\ t[depth_ + 1] = query[depth_ + 1] <=> ranks[j] = 1
          /\ ranks[i] \in 0 .. 2 /\ ranks[j] \in 0 .. 2
      BY <2>4, <3>1, RankIs
    <3> HIDE DEF s, t
    <3> QED
      BY <3>1, <3>2, <3>3
  <2>5. CASE ~(depth_ < Len(s))
    <3>1. ranks[i] = 0
      BY <2>1, <2>5 DEF ranks, RankOf
    <3>2. ranks[j] \in 0 .. 2
      BY RankIs
    <3> QED
      BY <3>1, <3>2
  <2> QED
    BY <2>4, <2>5
<1>3. \A i, j \in Rest : i <= j => i < j \/ i = j
  BY RestIs
<1>4. \A i \in Rest : ranks[i] \in 0 .. 2
  BY RankIs
<1>5. \A i, j \in Rest : i <= j => ranks[i] <= ranks[j]
  BY <1>2, <1>3, <1>4
<1> QED
  BY <1>1, <1>5 DEF Ascending, Rest

\* While the top-most item is searched for, both partitions are the same until they have
\* been parted at an item with the character.
TopOK ==
    /\ FirstIsIn(upper_, ranks, all_top_, all_bottom_)
    /\ LastIsIn(lower_, ranks, all_top_, all_bottom_)
    /\ lower_.center = compute_center(lower_.top, lower_.bottom)
    /\ \/ lower_.top = upper_.top /\ lower_.bottom = upper_.bottom
       \/ lower_.top >= upper_.bottom /\ ranks[lower_.top] = 1
       \/ upper_.top = upper_.bottom
    /\ bottom_candidate_ = NoCandidate

BottomOK ==
    /\ depth_ + 1 < Len(query)
    /\ IsFirst(upper_.top, ranks, all_top_, all_bottom_)
    /\ LastIsIn(lower_, ranks, all_top_, all_bottom_)
    /\ Remembers(bottom_candidate_, lower_, ranks)

MatchOK ==
    depth_ + 1 = Len(query) /\ IsFirst(upper_.top, ranks, all_top_, all_bottom_)

ApproximateOK ==
    upper_.top \in Rest /\ NoneIsIn(ranks, all_top_, all_bottom_)

SearchOK ==
    /\ InputsOK /\ RestOK
    /\ \/ searching = "top" /\ TopOK
       \/ searching = "bottom" /\ BottomOK
       \/ searching = "FOUND_MATCH" /\ MatchOK
       \/ searching = "FOUND_APPROXIMATE" /\ ApproximateOK

SearchInv == key_checked => SearchOK

LEMMA RanksStay ==
    ASSUME UNCHANGED <<inputs, all_top_, all_bottom_, depth_>>
    PROVE  /\ ranks' = ranks /\ Rest' = Rest /\ InputsOK' = InputsOK /\ RestOK' = RestOK
           /\ query' = query
<1>1. /\ list' = list /\ query' = query /\ all_top_' = all_top_ /\ all_bottom_' = all_bottom_
      /\ depth_' = depth_
  BY DEF inputs
<1>2. Rest' = Rest /\ Items' = Items
  BY <1>1 DEF Rest, Items
<1>3. ranks' = ranks
  BY <1>1, <1>2 DEF ranks
<1>4. InputsOK' = InputsOK
  BY <1>1 DEF InputsOK
<1>5. RestOK' = RestOK
  BY <1>1, <1>2 DEF RestOK, Agrees
<1> QED
  BY <1>1, <1>2, <1>3, <1>4, <1>5

LEMMA CompareIs ==
    ASSUME InputsOK, RestOK, current.center \in Rest, CanCompare
    PROVE  /\ ranks[current.center] \in 0 .. 2
           /\ key = ch <=> ranks[current.center] = 1
           /\ key > ch <=> ranks[current.center] = 0
           /\ ch <= key <=> ranks[current.center] # 2
           /\ ch > key <=> ranks[current.center] = 2
           /\ key < ch <=> ranks[current.center] = 2
           /\ key <= ch <=> ranks[current.center] # 0
<1> DEFINE c == current.center
<1>1. /\ key = query[depth_ + 1] /\ ch = list[c + 1][depth_ + 1]
      /\ depth_ < Len(list[c + 1]) /\ depth_ \in Nat /\ depth_ < Len(query)
      /\ list[c + 1] \in Seq(Nat) /\ query \in Seq(Nat)
  BY InputsAre, RestIs DEF key, ch, center_string, CanCompare, RestOK
<1>2. /\ ranks[c] \in 0 .. 2
      /\ list[c + 1][depth_ + 1] = query[depth_ + 1] <=> ranks[c] = 1
      /\ list[c + 1][depth_ + 1] < query[depth_ + 1] <=> ranks[c] = 0
      /\ list[c + 1][depth_ + 1] > query[depth_ + 1] <=> ranks[c] = 2
  BY <1>1, RankIs
<1>3. key \in Nat /\ ch \in Nat
  BY <1>1
<1> HIDE DEF c
<1>4. /\ ranks[c] \in 0 .. 2
      /\ key = ch <=> ranks[c] = 1
      /\ ch < key <=> ranks[c] = 0
      /\ ch > key <=> ranks[c] = 2
  BY <1>1, <1>2
<1> QED
  BY <1>3, <1>4 DEF c

LEMMA CurrentIs ==
    ASSUME InputsOK, RestOK,
           \/ searching = "top" /\ TopOK
           \/ searching = "bottom" /\ BottomOK
    PROVE  /\ Within(current, all_top_, all_bottom_)
           /\ all_top_ \in Nat /\ all_bottom_ \in Nat
           /\ Ascending(ranks, all_top_, all_bottom_)
           /\ current.center \in Rest /\ current.top \in Rest /\ current.center \in Nat
<1>1. Within(current, all_top_, all_bottom_)
  BY DEF current, ForTop, TopOK, BottomOK, FirstIsIn, LastIsIn
<1>2. all_top_ \in Nat /\ all_bottom_ \in Nat /\ Ascending(ranks, all_top_, all_bottom_)
  BY RestIs, RanksAscend
<1>3. current.top \in Nat /\ current.bottom \in Nat /\ current.center \in Nat
  BY <1>1 DEF Within, Part
<1>4. /\ all_top_ <= current.top /\ current.top <= current.bottom
      /\ current.bottom <= all_bottom_
      /\ current.center = compute_center(current.top, current.bottom)
            \/ current.center = current.bottom
  BY <1>1 DEF Within
<1>5. current.center \in current.top .. current.bottom
  BY <1>3, <1>4, CenterIsWithin
<1> QED
  BY <1>1, <1>2, <1>3, <1>4, <1>5 DEF Rest

\* The top-most item with the character has been found.
LEMMA TopFound ==
    ASSUME InputsOK, RestOK, searching = "top", TopOK, NEW p, Found(p),
           IsFirst(p.top, ranks, all_top_, all_bottom_)
    PROVE  SearchInv'
<1>1. depth_ \in Nat /\ Len(query) \in Nat /\ depth_ < Len(query)
  BY InputsAre DEF RestOK
<1>2. CASE depth_ + 1 < Len(query)
  <2>1. /\ upper_' = p /\ searching' = "bottom" /\ lower_' = lower_
        /\ bottom_candidate_' = bottom_candidate_ /\ depth_' = depth_
        /\ all_top_' = all_top_ /\ all_bottom_' = all_bottom_ /\ inputs' = inputs
    BY <1>2 DEF Found, ForTop
  <2>2. Remembers(NoCandidate, lower_, ranks)
    <3>1. /\ lower_.top \in Nat /\ lower_.bottom \in Nat /\ lower_.top <= lower_.bottom
          /\ lower_.center = compute_center(lower_.top, lower_.bottom)
      BY DEF TopOK, LastIsIn, Within, Part
    <3>2. lower_.top < lower_.bottom => lower_.center # lower_.bottom
      <4>1. lower_.bottom - lower_.top <= 1 => lower_.center = lower_.top
        BY <3>1, CenterIsWithin
      <4>2. lower_.bottom - lower_.top > 1 => lower_.center < lower_.bottom
        BY <3>1, CenterIsWithin
      <4> QED
        BY <3>1, <4>1, <4>2
    <3> QED
      BY <3>2 DEF Remembers
  <2>3. BottomOK'
    BY <1>2, <2>1, <2>2, RanksStay DEF BottomOK, TopOK
  <2> QED
    BY <2>1, <2>3, RanksStay DEF SearchInv, SearchOK
<1>3. CASE ~(depth_ + 1 < Len(query))
  <2>1. /\ upper_' = p /\ searching' = "FOUND_MATCH" /\ depth_' = depth_
        /\ all_top_' = all_top_ /\ all_bottom_' = all_bottom_ /\ inputs' = inputs
    BY <1>3 DEF Found
  <2>2. depth_ + 1 = Len(query)
    BY <1>1, <1>3
  <2>3. MatchOK'
    BY <2>1, <2>2, RanksStay DEF MatchOK
  <2> QED
    BY <2>1, <2>3, RanksStay DEF SearchInv, SearchOK
<1> QED
  BY <1>2, <1>3

\* There is no item with the character.
LEMMA NoneFound ==
    ASSUME InputsOK, RestOK, searching = "top", NEW p, FoundApproximate(p), p.top \in Rest,
           NoneIsIn(ranks, all_top_, all_bottom_)
    PROVE  SearchInv'
<1>1. /\ upper_' = p /\ searching' = "FOUND_APPROXIMATE" /\ depth_' = depth_
      /\ all_top_' = all_top_ /\ all_bottom_' = all_bottom_ /\ inputs' = inputs
  BY DEF FoundApproximate, ForTop
<1>2. ApproximateOK'
  BY <1>1, RanksStay DEF ApproximateOK
<1> QED
  BY <1>1, <1>2, RanksStay DEF SearchInv, SearchOK

\* The bottom-most item with the character has been found as well: the items in between are
\* what is left for the next character.
LEMMA BottomFound ==
    ASSUME InputsOK, RestOK, searching = "bottom", BottomOK, NEW p, Found(p),
           IsLast(p.bottom, ranks, all_top_, all_bottom_)
    PROVE  SearchInv'
<1> DEFINE f == upper_.top
           l == p.bottom
<1>1. depth_ \in Nat /\ Len(query) \in Nat /\ depth_ + 1 < Len(query)
  BY InputsAre DEF RestOK, BottomOK
<1>2. /\ all_top_' = f /\ all_bottom_' = l /\ depth_' = depth_ + 1
      /\ upper_' = Partition(f, l) /\ lower_' = Partition(f, l)
      /\ bottom_candidate_' = NoCandidate /\ searching' = "top"
      /\ list' = list /\ query' = query
  BY <1>1 DEF Found, ForTop, BottomOK, prepare_next_iteration, inputs
<1>3. /\ all_top_ \in Nat /\ all_bottom_ \in Nat
      /\ \A i \in Rest : i \in Nat /\ i \in Items /\ Agrees(i, depth_)
  BY RestIs
<1>4. /\ f \in Rest /\ l \in Rest /\ f <= l
      /\ \A i \in Rest : ranks[i] = 1 <=> i \in f .. l
  <2>1. /\ IsFirst(f, ranks, all_top_, all_bottom_) /\ IsLast(l, ranks, all_top_, all_bottom_)
        /\ Ascending(ranks, all_top_, all_bottom_)
    BY RanksAscend DEF BottomOK
  <2>2. /\ f <= l
        /\ \A i \in all_top_ .. all_bottom_ : ranks[i] = 1 <=> i \in f .. l
    BY <1>3, <2>1, FirstToLast
  <2>3. f \in Rest /\ l \in Rest
    BY <2>1 DEF IsFirst, IsLast, Rest
  <2> QED
    BY <2>2, <2>3 DEF Rest
<1>5. f \in Nat /\ l \in Nat /\ f \in Items /\ l \in Items
  BY <1>3, <1>4
<1> HIDE DEF f, l
<1>6. InputsOK'
  BY <1>2 DEF InputsOK
<1>7. \A i \in Items : Agrees(i, depth_ + 1) <=> i \in f .. l
  <2>1. \A i \in Items : Agrees(i, depth_ + 1) => Agrees(i, depth_)
    <3>1. \A k \in 1 .. depth_ : k \in 1 .. depth_ + 1
      BY <1>1
    <3>2. \A i \in Items : Len(list[i + 1]) \in Nat
      BY InputsAre
    <3>3. \A n \in Nat : depth_ + 1 <= n => depth_ <= n
      BY <1>1
    <3> QED
      BY <3>1, <3>2, <3>3 DEF Agrees
  <2>2. \A i \in Items : Agrees(i, depth_ + 1) => i \in Rest
    BY <2>1 DEF RestOK
  <2>3. \A i \in f .. l : i \in Rest
    BY <1>3, <1>4, <1>5 DEF Rest
  <2>4. \A i \in Rest : Agrees(i, depth_ + 1) <=> i \in f .. l
    BY <1>4, RankIs
  <2> QED
    BY <2>2, <2>3, <2>4
<1>8. RestOK'
  <2>1. Items' = Items /\ Rest' = f .. l
    BY <1>2 DEF Items, Rest
  <2>2. depth_ + 1 \in Nat
    BY <1>1
  <2>3. \A i \in Items' : Agrees(i, depth_)' <=> i \in Rest'
    BY <1>2, <1>7, <2>1 DEF Agrees
  <2> QED
    BY <1>1, <1>2, <1>4, <1>5, <2>1, <2>2, <2>3 DEF RestOK
<1>9. TopOK'
  <2>1. /\ Within(Partition(f, l), f, l)
        /\ Partition(f, l).top = f /\ Partition(f, l).bottom = l
        /\ Partition(f, l).center = compute_center(f, l)
    BY <1>4, <1>5, PartitionIsWithin
  <2>2. f < l => compute_center(f, l) # l
    <3>1. l - f <= 1 => compute_center(f, l) = f
      BY <1>4, <1>5, CenterIsWithin
    <3>2. l - f > 1 => compute_center(f, l) < l
      BY <1>4, <1>5, CenterIsWithin
    <3> QED
      BY <1>5, <3>1, <3>2
  <2>3. FirstIsIn(Partition(f, l), ranks', f, l)
    <3>1. \A i \in f .. l : ~(i < f)
      BY <1>5
    <3>2. ~(f > f) /\ ~(l < l)
      BY <1>5
    <3> QED
      BY <2>1, <2>2, <3>1, <3>2 DEF FirstIsIn
  <2>4. LastIsIn(Partition(f, l), ranks', f, l)
    <3>1. ~(f > f) /\ ~(l < l)
      BY <1>5
    <3> QED
      BY <2>1, <3>1 DEF LastIsIn
  <2> QED
    BY <1>2, <2>1, <2>3, <2>4 DEF TopOK
<1> QED
  BY <1>2, <1>6, <1>8, <1>9 DEF SearchInv, SearchOK

\* The partition being searched becomes a smaller one.
LEMMA TopContinues ==
    ASSUME InputsOK, RestOK, searching = "top", TopOK, NEW p, Continue(p),
           FirstIsIn(p, ranks, all_top_, all_bottom_),
           \/ lower_.top = p.top /\ lower_.bottom = p.bottom
           \/ lower_.top >= p.bottom /\ ranks[lower_.top] = 1
           \/ p.top = p.bottom
    PROVE  SearchInv'
<1>1. /\ upper_' = p /\ lower_' = lower_ /\ searching' = "top" /\ depth_' = depth_
      /\ bottom_candidate_' = bottom_candidate_
      /\ all_top_' = all_top_ /\ all_bottom_' = all_bottom_ /\ inputs' = inputs
  BY DEF Continue, ForTop
<1>2. TopOK'
  BY <1>1, RanksStay DEF TopOK
<1> QED
  BY <1>1, <1>2, RanksStay DEF SearchInv, SearchOK

LEMMA BottomContinues ==
    ASSUME InputsOK, RestOK, searching = "bottom", BottomOK, NEW p,
           lower_' = p, UNCHANGED <<inputs, upper_, all_top_, all_bottom_, depth_, searching>>,
           LastIsIn(p, ranks, all_top_, all_bottom_), Remembers(bottom_candidate_', p, ranks)
    PROVE  SearchInv'
<1>1. BottomOK'
  BY RanksStay DEF BottomOK
<1> QED
  BY <1>1, RanksStay DEF SearchInv, SearchOK

LEMMA ShortItemOK ==
    ASSUME SearchOK, CheckShortItem
    PROVE  SearchInv'
<1>1. InputsOK /\ RestOK /\ current.center \in Rest
  BY CurrentIs DEF SearchOK, CheckShortItem, IsOver
<1>2. depth_ <= Len(center_string) /\ Len(center_string) \in Nat /\ depth_ \in Nat
  BY <1>1, InputsAre, RestIs DEF Agrees, center_string, RestOK
<1>3. ~(Len(center_string) < depth_)
  BY <1>2
<1>4. key_checked' = FALSE
  BY <1>3 DEF CheckShortItem
<1> QED
  BY <1>4 DEF SearchInv

LEMMA LastItemOK ==
    ASSUME SearchOK, CheckLast
    PROVE  SearchInv'
<1>1. /\ InputsOK /\ RestOK /\ CanCompare /\ is_unique(current)
      /\ (searching = "top" /\ TopOK) \/ (searching = "bottom" /\ BottomOK)
  BY DEF SearchOK, CheckLast, CanCompare, IsOver
<1>2. /\ all_top_ \in Nat /\ all_bottom_ \in Nat
      /\ Ascending(ranks, all_top_, all_bottom_)
      /\ current.center \in Rest /\ current.top \in Rest
      /\ key = ch <=> ranks[current.center] = 1
  BY <1>1, CurrentIs, CompareIs
<1>3. CASE searching = "top" /\ TopOK
  <2>1. FirstIsIn(current, ranks, all_top_, all_bottom_)
    BY <1>3 DEF TopOK, current, ForTop
  <2>2. /\ ranks[current.center] = 1 => IsFirst(current.top, ranks, all_top_, all_bottom_)
        /\ ranks[current.center] # 1 => NoneIsIn(ranks, all_top_, all_bottom_)
    BY <1>1, <1>2, <2>1, FirstOfOne
  <2>3. IF key = ch THEN Found(current) ELSE FoundApproximate(current)
    BY DEF CheckLast
  <2> QED
    BY <1>1, <1>2, <1>3, <2>2, <2>3, TopFound, NoneFound
<1>4. CASE searching = "bottom" /\ BottomOK
  <2>1. current = lower_
    BY <1>4 DEF current, ForTop
  <2>2. current.center = current.bottom /\ IsLast(current.bottom, ranks, all_top_, all_bottom_)
    BY <1>1, <1>2, <1>4, <2>1, LastOfOne DEF BottomOK
  <2>3. ranks[current.center] = 1
    BY <2>2 DEF IsLast
  <2>4. Found(current)
    BY <1>2, <2>3 DEF CheckLast
  <2> QED
    BY <1>1, <1>4, <2>2, <2>4, BottomFound
<1> QED
  BY <1>1, <1>3, <1>4

LEMMA TwoItemsOK ==
    ASSUME SearchOK, CheckTwo
    PROVE  SearchInv'
<1> DEFINE c == current.center
           lo == all_top_
           hi == all_bottom_
<1>1. /\ InputsOK /\ RestOK /\ CanCompare /\ has_two(current)
      /\ (searching = "top" /\ TopOK) \/ (searching = "bottom" /\ BottomOK)
  BY DEF SearchOK, CheckTwo, CanCompare, IsOver
<1>2. /\ lo \in Nat /\ hi \in Nat
      /\ Ascending(ranks, lo, hi)
      /\ c \in Rest /\ c \in Nat /\ Within(current, lo, hi)
      /\ ranks[c] \in 0 .. 2
      /\ key = ch <=> ranks[c] = 1
      /\ key > ch <=> ranks[c] = 0
      /\ key < ch <=> ranks[c] = 2
  BY <1>1, CurrentIs, CompareIs
<1>3. /\ lock_at_center(current).top = c /\ lock_at_center(current).bottom = c
      /\ current.bottom \in Nat /\ current.top \in Nat
      /\ current.bottom = current.top + 1 /\ (c = current.top \/ c = current.bottom)
  BY <1>2 DEF lock_at_center, Partition, Within, Part, CheckTwo, has_two, compute_center
<1>4. \/ c < current.bottom /\ ~(c >= current.bottom)
      \/ ~(c < current.bottom) /\ c >= current.bottom
  BY <1>2, <1>3
<1>5. CASE searching = "top" /\ TopOK
  <2>1. current = upper_ /\ FirstIsIn(current, ranks, lo, hi)
    BY <1>5 DEF TopOK, current, ForTop
  <2>2. /\ ranks[c] = 1 => IsFirst(c, ranks, lo, hi)
        /\ ranks[c] = 0 /\ c < current.bottom =>
               FirstIsIn(step_center_down(current), ranks, lo, hi)
        /\ ranks[c] = 0 /\ c >= current.bottom =>
               FirstIsIn(lock_at_center(current), ranks, lo, hi)
        /\ ranks[c] = 2 => NoneIsIn(ranks, lo, hi)
    BY <1>1, <1>2, <2>1, FirstOfTwo
  <2>3. /\ ranks[c] = 1 => Found(lock_at_center(current))
        /\ ranks[c] = 0 /\ c < current.bottom => Continue(step_center_down(current))
        /\ ranks[c] = 0 /\ c >= current.bottom => Continue(lock_at_center(current))
        /\ ranks[c] = 2 => FoundApproximate(lock_at_center(current))
    BY <1>2, <1>4, <1>5 DEF CheckTwo, ForTop
  <2>4. /\ step_center_down(current).top = upper_.top
        /\ step_center_down(current).bottom = upper_.bottom
    BY <1>2, <2>1 DEF step_center_down, Within, Part
  <2>5. CASE ranks[c] = 1
    BY <1>1, <1>3, <1>5, <2>2, <2>3, <2>5, TopFound
  <2>6. CASE ranks[c] = 0 /\ c < current.bottom
    BY <1>1, <1>5, <2>2, <2>3, <2>4, <2>6, TopContinues DEF TopOK
  <2>7. CASE ranks[c] = 0 /\ c >= current.bottom
    BY <1>1, <1>3, <1>5, <2>2, <2>3, <2>7, TopContinues
  <2>8. CASE ranks[c] = 2
    BY <1>1, <1>2, <1>3, <1>5, <2>2, <2>3, <2>8, NoneFound
  <2> QED
    BY <1>2, <1>4, <2>5, <2>6, <2>7, <2>8
<1>6. CASE searching = "bottom" /\ BottomOK
  <2>1. /\ current = lower_ /\ LastIsIn(current, ranks, lo, hi)
        /\ IsFirst(upper_.top, ranks, lo, hi)
        /\ Remembers(bottom_candidate_, current, ranks)
    BY <1>6 DEF BottomOK, current, ForTop
  <2>2. /\ ranks[c] = 0 => c < current.bottom
        /\ ranks[c] = 2 =>
               bottom_candidate_ # NoCandidate /\ IsLast(bottom_candidate_, ranks, lo, hi)
        /\ ranks[c] # 2 /\ c < current.bottom =>
               LastIsIn(step_center_down(current), ranks, lo, hi)
        /\ ranks[c] = 0 => bottom_candidate_ = NoCandidate
        /\ ranks[c] = 1 /\ c < current.bottom => Remembers(c, step_center_down(current), ranks)
        /\ ranks[c] = 0 => Remembers(NoCandidate, step_center_down(current), ranks)
        /\ ranks[c] = 1 /\ c >= current.bottom => IsLast(c, ranks, lo, hi)
    BY <1>1, <1>2, <2>1, LastOfTwo
  <2>3. CASE ranks[c] = 1 /\ c >= current.bottom
    <3>1. Found(lock_at_center(current))
      BY <1>2, <1>4, <1>6, <2>3 DEF CheckTwo, ForTop
    <3> QED
      BY <1>1, <1>3, <1>6, <2>2, <2>3, <3>1, BottomFound
  <2>4. CASE ranks[c] = 1 /\ c < current.bottom
    <3>1. /\ bottom_candidate_' = c /\ lower_' = step_center_down(current)
          /\ UNCHANGED <<inputs, upper_, all_top_, all_bottom_, depth_, searching>>
      BY <1>2, <1>4, <1>6, <2>4 DEF CheckTwo, ForTop
    <3> QED
      BY <1>1, <1>6, <2>2, <2>4, <3>1, BottomContinues
  <2>5. CASE ranks[c] = 0
    <3>1. Continue(step_center_down(current))
      BY <1>2, <1>4, <1>6, <2>2, <2>5 DEF CheckTwo
    <3>2. /\ lower_' = step_center_down(current) /\ bottom_candidate_' = NoCandidate
          /\ UNCHANGED <<inputs, upper_, all_top_, all_bottom_, depth_, searching>>
      BY <1>6, <2>2, <2>5, <3>1 DEF Continue, ForTop
    <3> QED
      BY <1>1, <1>6, <2>2, <2>5, <3>2, BottomContinues
  <2>6. CASE ranks[c] = 2
    <3>1. Found(Partition(bottom_candidate_, bottom_candidate_))
      BY <1>2, <1>6, <2>2, <2>6 DEF CheckTwo, ForTop
    <3>2. Partition(bottom_candidate_, bottom_candidate_).bottom = bottom_candidate_
      BY DEF Partition
    <3> QED
      BY <1>1, <1>6, <2>2, <2>6, <3>1, <3>2, BottomFound
  <2> QED
    BY <1>2, <1>4, <2>3, <2>4, <2>5, <2>6
<1> QED
  BY <1>1, <1>5, <1>6

LEMMA CenterOK ==
    ASSUME SearchOK, CheckCenter
    PROVE  SearchInv'
<1> DEFINE c == current.center
           lo == all_top_
           hi == all_bottom_
           p == IF is_utf8_character_greater THEN pick_top_half(current)
                ELSE pick_bottom_half(current)
<1>1. /\ InputsOK /\ RestOK /\ CanCompare /\ ~is_unique(current) /\ ~has_two(current)
      /\ (searching = "top" /\ TopOK) \/ (searching = "bottom" /\ BottomOK)
      /\ IF searching = "top" THEN upper_' = p /\ lower_' = narrowed_lower
         ELSE lower_' = p /\ UNCHANGED upper_
      /\ UNCHANGED <<inputs, all_top_, all_bottom_, bottom_candidate_, depth_, searching>>
  BY DEF SearchOK, CheckCenter, CanCompare, IsOver, ForTop
<1>2. /\ lo \in Nat /\ hi \in Nat
      /\ Ascending(ranks, lo, hi)
      /\ c \in Rest /\ c \in Nat /\ Within(current, lo, hi)
      /\ ranks[c] \in 0 .. 2
      /\ ch <= key <=> ranks[c] # 2
      /\ ch > key <=> ranks[c] = 2
      /\ key < ch <=> ranks[c] = 2
      /\ key <= ch <=> ranks[c] # 0
  BY <1>1, CurrentIs, CompareIs
<1>3. /\ current.top \in Nat /\ current.bottom \in Nat
      /\ current.top < c /\ c < current.bottom
      /\ c = compute_center(current.top, current.bottom)
      /\ pick_top_half(current).top = current.top /\ pick_top_half(current).bottom = c
      /\ pick_bottom_half(current).top = c
      /\ pick_bottom_half(current).bottom = current.bottom
      /\ pick_top_half(current).center = compute_center(current.top, c)
      /\ pick_bottom_half(current).center = compute_center(c, current.bottom)
  BY <1>1, <1>2, Halves DEF Rest
<1>4. CASE searching = "top" /\ TopOK
  <2>1. current = upper_ /\ FirstIsIn(upper_, ranks, lo, hi) /\ LastIsIn(lower_, ranks, lo, hi)
    BY <1>4 DEF TopOK, current, ForTop
  <2>2. p = IF ranks[c] # 0 THEN pick_top_half(upper_) ELSE pick_bottom_half(upper_)
    BY <1>2, <1>4, <2>1 DEF is_utf8_character_greater, ForTop
  <2>3. FirstIsIn(p, ranks, lo, hi)
    BY <1>1, <1>2, <2>1, <2>2, FirstOfMany
  <2>4. /\ LastIsIn(narrowed_lower, ranks, lo, hi)
        /\ narrowed_lower.center = compute_center(narrowed_lower.top, narrowed_lower.bottom)
        /\ \/ narrowed_lower.top = p.top /\ narrowed_lower.bottom = p.bottom
           \/ narrowed_lower.top >= p.bottom /\ ranks[narrowed_lower.top] = 1
    <3>1. CASE lower_.top = upper_.top /\ lower_.bottom = upper_.bottom
      <4>1. lower_.center = c /\ lower_.top < c /\ c < lower_.bottom
        BY <1>3, <1>4, <2>1, <3>1 DEF TopOK
      <4>2. narrowed_lower = IF ranks[c] # 2 THEN pick_bottom_half(lower_)
                             ELSE pick_top_half(lower_)
        BY <1>2, <1>3, <2>1, <4>1 DEF narrowed_lower
      <4>3. pick_bottom_half(lower_) = pick_bottom_half(upper_)
            /\ pick_top_half(lower_) = pick_top_half(upper_)
        BY <2>1, <3>1, <4>1 DEF pick_bottom_half, pick_top_half
      <4>4. ~is_unique(lower_) /\ ~has_two(lower_)
        BY <1>1, <2>1, <3>1 DEF is_unique, has_two
      <4>5. LastIsIn(narrowed_lower, ranks, lo, hi)
        BY <1>2, <2>1, <4>1, <4>2, <4>4, LastOfMany
      <4>6. CASE ranks[c] = 1
        BY <1>2, <1>3, <2>1, <2>2, <4>2, <4>3, <4>5, <4>6
      <4>7. CASE ranks[c] # 1
        BY <1>2, <1>3, <2>1, <2>2, <4>2, <4>3, <4>5, <4>7
      <4> QED
        BY <4>6, <4>7
    <3>2. CASE lower_.top >= upper_.bottom /\ ranks[lower_.top] = 1
      <4>1. lower_.top \in lo .. hi /\ c < lower_.top /\ lower_.top \in Nat
            /\ lower_.bottom \in Nat
        BY <1>2, <1>3, <2>1, <3>2 DEF LastIsIn, Within, Part
      <4>2. ranks[c] <= 1
        BY <1>2, <3>2, <4>1 DEF Ascending, Rest
      <4>3. ~(lower_.top < c) /\ ~(ch > key)
        BY <1>2, <4>1, <4>2
      <4>4. narrowed_lower = lower_
        BY <2>1, <4>3 DEF narrowed_lower
      <4>5. p.bottom \in Nat /\ p.bottom <= upper_.bottom
        BY <1>2, <1>3, <2>1, <2>2
      <4>6. lower_.top >= p.bottom
        BY <1>3, <2>1, <3>2, <4>1, <4>5
      <4> QED
        BY <1>4, <2>1, <3>2, <4>4, <4>6 DEF TopOK
    <3>3. upper_.top # upper_.bottom
      BY <1>2, <1>3, <2>1
    <3> QED
      BY <1>4, <3>1, <3>2, <3>3 DEF TopOK
  <2>5. upper_' = p /\ lower_' = narrowed_lower
    BY <1>1, <1>4
  <2> HIDE DEF p
  <2>6. TopOK'
    BY <1>1, <1>4, <2>3, <2>4, <2>5, RanksStay DEF TopOK
  <2> QED
    BY <1>1, <1>4, <2>6, RanksStay DEF SearchInv, SearchOK
<1>5. CASE searching = "bottom" /\ BottomOK
  <2>1. current = lower_ /\ LastIsIn(lower_, ranks, lo, hi)
        /\ Remembers(bottom_candidate_, lower_, ranks)
    BY <1>5 DEF BottomOK, current, ForTop
  <2>2. p = IF ranks[c] = 2 THEN pick_top_half(lower_) ELSE pick_bottom_half(lower_)
    BY <1>2, <1>5, <2>1 DEF is_utf8_character_greater, ForTop
  <2>3. LastIsIn(p, ranks, lo, hi)
    BY <1>1, <1>2, <2>1, <2>2, LastOfMany
  <2>4. bottom_candidate_ = NoCandidate
    BY <1>3, <2>1 DEF Remembers
  <2>5. p.top < p.bottom => p.center # p.bottom
    <3>1. \A t, b \in Nat : t < b => compute_center(t, b) # b
      <4> SUFFICES ASSUME NEW t \in Nat, NEW b \in Nat, t < b PROVE compute_center(t, b) # b
        OBVIOUS
      <4>1. b - t <= 1 => compute_center(t, b) = t
        BY CenterIsWithin
      <4>2. b - t > 1 => compute_center(t, b) < b
        BY CenterIsWithin
      <4> QED
        BY <4>1, <4>2
    <3> QED
      BY <1>2, <1>3, <2>1, <2>2, <3>1
  <2>6. Remembers(bottom_candidate_', p, ranks)
    BY <1>1, <2>4, <2>5 DEF Remembers
  <2>7. lower_' = p /\ UNCHANGED <<inputs, upper_, all_top_, all_bottom_, depth_, searching>>
    BY <1>1, <1>5
  <2> HIDE DEF p
  <2> QED
    BY <1>1, <1>5, <2>3, <2>6, <2>7, BottomContinues
<1> QED
  BY <1>1, <1>4, <1>5

LEMMA SearchStepOK == SearchInv /\ SearchNext => SearchInv'
<1> SUFFICES ASSUME SearchInv, SearchNext PROVE SearchInv'
  OBVIOUS
<1>1. CASE key_checked
  <2>1. SearchOK
    BY <1>1 DEF SearchInv
  <2> QED
    BY <2>1, ShortItemOK, LastItemOK, TwoItemsOK, CenterOK DEF SearchNext
<1>2. CASE ~key_checked
  <2>1. key_checked' = key_checked \/ key_checked' = FALSE
    BY DEF SearchNext, CheckShortItem, CheckLast, CheckTwo, CheckCenter, Continue, Found,
           FoundApproximate
  <2> QED
    BY <1>2, <2>1 DEF SearchInv
<1> QED
  BY <1>1, <1>2

LEMMA SearchStarts == SearchInit => SearchInv
<1> SUFFICES ASSUME SearchInit PROVE SearchOK
  BY DEF SearchInv
<1>1. /\ InputsOK /\ searching = "top" /\ bottom_candidate_ = NoCandidate /\ depth_ = 0
      /\ all_top_ = 0 /\ all_bottom_ = Len(list) - 1
      /\ upper_ = Partition(0, Len(list) - 1) /\ lower_ = Partition(0, Len(list) - 1)
  BY DEF SearchInit, InputsOK
<1>2. Len(list) \in Nat \ {0} /\ Len(query) \in Nat \ {0}
      /\ \A i \in Items : list[i + 1] \in Seq(Nat)
  BY <1>1, InputsAre
<1>3. RestOK
  <2>1. /\ all_top_ \in Items /\ all_bottom_ \in Items /\ all_top_ <= all_bottom_
        /\ depth_ \in Nat /\ depth_ < Len(query) /\ Rest = Items
    BY <1>1, <1>2 DEF Items, Rest
  <2>2. \A i \in Items : Agrees(i, 0)
    <3>1. \A i \in Items : Len(list[i + 1]) \in Nat
      BY <1>2
    <3>2. \A n \in Nat : 0 <= n
      OBVIOUS
    <3>3. \A k \in 1 .. 0 : FALSE
      OBVIOUS
    <3> QED
      BY <3>1, <3>2, <3>3 DEF Agrees
  <2> QED
    BY <1>1, <2>1, <2>2 DEF RestOK
<1>4. TopOK
  <2> DEFINE l == Len(list) - 1
  <2>1. l \in Nat
    BY <1>2
  <2> HIDE DEF l
  <2>2. /\ Within(Partition(0, l), 0, l)
        /\ Partition(0, l).top = 0 /\ Partition(0, l).bottom = l
        /\ Partition(0, l).center = compute_center(0, l)
    BY <2>1, PartitionIsWithin
  <2>3. 0 < l => compute_center(0, l) # l
    <3>1. l - 0 <= 1 => compute_center(0, l) = 0
      BY <2>1, CenterIsWithin
    <3>2. l - 0 > 1 => compute_center(0, l) < l
      BY <2>1, CenterIsWithin
    <3> QED
      BY <2>1, <3>1, <3>2
  <2>4. ~(0 > 0) /\ ~(l < l) /\ \A i \in 0 .. l : ~(i < 0)
    BY <2>1
  <2>5. FirstIsIn(Partition(0, l), ranks, 0, l) /\ LastIsIn(Partition(0, l), ranks, 0, l)
    BY <2>2, <2>3, <2>4 DEF FirstIsIn, LastIsIn
  <2>6. all_bottom_ = l /\ upper_ = Partition(0, l) /\ lower_ = Partition(0, l)
    BY <1>1 DEF l
  <2> QED
    BY <1>1, <2>2, <2>5, <2>6 DEF TopOK
<1> QED
  BY <1>1, <1>3, <1>4 DEF SearchOK

\* What has been found is what was searched for.
LEMMA FoundIsFirst ==
    ASSUME SearchInv PROVE FindsFirstMatch
<1> SUFFICES ASSUME IsOver, key_checked
             PROVE  IF Matches # {}
                    THEN /\ searching = "FOUND_MATCH"
                         /\ upper_.top + 1 \in Matches
                         /\ \A i \in Matches : upper_.top + 1 <= i
                    ELSE /\ searching = "FOUND_APPROXIMATE"
                         /\ StartsWith(list[upper_.top + 1], SubSeq(query, 1, LongestPrefix))
  BY DEF FindsFirstMatch
<1>1. /\ InputsOK /\ RestOK
      /\ \/ searching = "FOUND_MATCH" /\ MatchOK
         \/ searching = "FOUND_APPROXIMATE" /\ ApproximateOK
  BY DEF SearchInv, SearchOK, IsOver
<1>2. /\ Len(list) \in Nat \ {0}
      /\ query \in Seq(Nat) /\ Len(query) \in Nat \ {0}
      /\ \A i \in Items : i + 1 \in 1 .. Len(list) /\ list[i + 1] \in Seq(Nat)
      /\ \A i \in Rest : i \in Nat /\ i \in Items
      /\ depth_ \in Nat /\ depth_ < Len(query)
      /\ \A i \in 1 .. Len(list) : i - 1 \in Items
  BY <1>1, InputsAre, RestIs DEF RestOK, Items
<1>3. \A i \in Items, n \in 0 .. Len(query) :
          StartsWith(list[i + 1], SubSeq(query, 1, n)) <=> Agrees(i, n)
  BY <1>2, StartsWithIs DEF Agrees
<1>4. \A i \in Items : StartsWith(list[i + 1], query) <=> Agrees(i, Len(query))
  <2>1. SubSeq(query, 1, Len(query)) = query /\ Len(query) \in 0 .. Len(query)
    BY <1>2
  <2> QED
    BY <1>3, <2>1
<1>5. \A i \in Items, m \in Nat, n \in Nat : m <= n /\ Agrees(i, n) => Agrees(i, m)
  <2>1. \A i \in Items : Len(list[i + 1]) \in Nat
    BY <1>2
  <2>2. \A l \in Nat, m \in Nat, n \in Nat : m <= n /\ n <= l => m <= l
    OBVIOUS
  <2>3. \A m \in Nat, n \in Nat : m <= n => \A k \in 1 .. m : k \in 1 .. n
    OBVIOUS
  <2> QED
    BY <2>1, <2>2, <2>3 DEF Agrees
<1>6. \A i \in Items : Agrees(i, depth_ + 1) => i \in Rest /\ ranks[i] = 1
  <2>1. \A i \in Items : Agrees(i, depth_ + 1) => Agrees(i, depth_)
    BY <1>2, <1>5
  <2>2. \A i \in Items : Agrees(i, depth_ + 1) => i \in Rest
    BY <1>1, <2>1 DEF RestOK
  <2> QED
    BY <1>1, <2>2, RankIs
<1>7. CASE searching = "FOUND_MATCH" /\ MatchOK
  <2> DEFINE f == upper_.top
  <2>1. /\ depth_ + 1 = Len(query) /\ f \in Rest /\ ranks[f] = 1
        /\ \A j \in Rest : j < f => ranks[j] = 0
    BY <1>7 DEF MatchOK, IsFirst, Rest
  <2> HIDE DEF f
  <2>2. f \in Items /\ f \in Nat /\ f + 1 \in 1 .. Len(list) /\ Agrees(f, Len(query))
    BY <1>1, <1>2, <2>1, RankIs
  <2>3. f + 1 \in Matches
    BY <1>4, <2>2 DEF Matches
  <2>4. ASSUME NEW i \in Matches PROVE f + 1 <= i
    <3> DEFINE j == i - 1
    <3>1. i \in 1 .. Len(list) /\ StartsWith(list[i], query)
      BY DEF Matches
    <3>2. j \in Items /\ i = j + 1 /\ j \in Int
      BY <1>2, <3>1
    <3> HIDE DEF j
    <3>3. j \in Rest /\ ranks[j] = 1
      BY <1>4, <1>6, <2>1, <3>1, <3>2
    <3>4. ~(j < f)
      BY <2>1, <3>3
    <3> QED
      BY <2>2, <3>2, <3>4
  <2> QED
    BY <1>7, <2>3, <2>4 DEF f
<1>8. CASE searching = "FOUND_APPROXIMATE" /\ ApproximateOK
  <2>1. upper_.top \in Rest /\ \A i \in Rest : ranks[i] # 1
    BY <1>8 DEF ApproximateOK, NoneIsIn, Rest
  <2>2. \A i \in Items : ~Agrees(i, depth_ + 1)
    BY <1>6, <2>1
  <2>3. upper_.top \in Items /\ Agrees(upper_.top, depth_)
    BY <1>1, <1>2, <2>1, RestIs
  <2>4. Matches = {}
    <3>1. \A i \in Items : ~Agrees(i, Len(query))
      <4>1. depth_ + 1 \in Nat /\ Len(query) \in Nat /\ depth_ + 1 <= Len(query)
        BY <1>2
      <4> QED
        BY <1>5, <2>2, <4>1
    <3>2. \A i \in 1 .. Len(list) : i - 1 \in Items /\ i = (i - 1) + 1
      BY <1>2
    <3> QED
      BY <1>4, <3>1, <3>2 DEF Matches
  <2>5. LongestPrefix = depth_
    <3> DEFINE P(n) ==
            /\ \E i \in 1 .. Len(list) : StartsWith(list[i], SubSeq(query, 1, n))
            /\ \A i \in 1 .. Len(list) :
                  n < Len(query) => ~StartsWith(list[i], SubSeq(query, 1, n + 1))
    <3>1. \A n \in 0 .. Len(query) :
              (\E i \in 1 .. Len(list) : StartsWith(list[i], SubSeq(query, 1, n)))
                  <=> (\E i \in Items : Agrees(i, n))
      <4>1. \A i \in 1 .. Len(list) : i - 1 \in Items /\ i = (i - 1) + 1
        BY <1>2
      <4> QED
        BY <1>2, <1>3, <4>1
    <3>2. \A n \in 0 .. Len(query) : n < Len(query) => n + 1 \in 0 .. Len(query)
      BY <1>2
    <3>3. \A n \in 0 .. Len(query) :
              P(n) <=> /\ \E i \in Items : Agrees(i, n)
                       /\ n < Len(query) => \A i \in Items : ~Agrees(i, n + 1)
      BY <3>1, <3>2
    <3>4. depth_ \in 0 .. Len(query) /\ P(depth_)
      <4>1. depth_ \in 0 .. Len(query)
        BY <1>2
      <4>2. P(depth_) <=> /\ \E i \in Items : Agrees(i, depth_)
                          /\ depth_ < Len(query) => \A i \in Items : ~Agrees(i, depth_ + 1)
        BY <3>3, <4>1
      <4> HIDE DEF P
      <4> QED
        BY <2>2, <2>3, <4>1, <4>2
    <3>5. ASSUME NEW n \in 0 .. Len(query), P(n) PROVE n = depth_
      <4>1. n \in Nat /\ n + 1 \in Nat /\ depth_ + 1 \in Nat
        BY <1>2
      <4>2. PICK i \in Items : Agrees(i, n)
        BY <3>3, <3>5
      <4>3. ~(depth_ + 1 <= n)
        BY <1>5, <2>2, <4>1, <4>2
      <4>4. ~(n + 1 <= depth_)
        <5>1. ASSUME n + 1 <= depth_ PROVE FALSE
          <6>1. n < Len(query)
            BY <1>2, <4>1, <5>1
          <6>2. ~Agrees(upper_.top, n + 1)
            BY <2>3, <3>3, <3>5, <6>1
          <6> QED
            BY <1>2, <1>5, <2>3, <4>1, <5>1, <6>2
        <5> QED
          BY <5>1
      <4> QED
        BY <1>2, <4>1, <4>3, <4>4
    <3>6. LongestPrefix = CHOOSE n \in 0 .. Len(query) : P(n)
      BY DEF LongestPrefix
    <3> HIDE DEF P
    <3> QED
      BY <3>4, <3>5, <3>6
  <2>6. StartsWith(list[upper_.top + 1], SubSeq(query, 1, LongestPrefix))
    <3>1. depth_ \in 0 .. Len(query)
      BY <1>2
    <3> QED
      BY <1>3, <2>3, <2>5, <3>1
  <2> QED
    BY <1>8, <2>4, <2>6
<1> QED
  BY <1>1, <1>7, <1>8

\* Searching is done for one task of the main loop, and stops everything else.
LEMMA SearchedInit == Init => (task = "search" => SearchInv)
BY SearchStarts DEF Init

LEMMA SearchedStep ==
    (task = "search" => SearchInv) /\ [Next]_vars => (task = "search" => SearchInv)'
<1> SUFFICES ASSUME task = "search" => SearchInv, [Next]_vars
             PROVE  (task = "search" => SearchInv)'
  OBVIOUS
<1>1. ASSUME UNCHANGED <<search_vars, task>> PROVE (task = "search" => SearchInv)'
  <2>1. UNCHANGED <<inputs, all_top_, all_bottom_, depth_>> /\ UNCHANGED <<upper_, lower_>>
        /\ UNCHANGED <<bottom_candidate_, searching, key_checked, task>>
    BY <1>1 DEF search_vars, state_vars
  <2>2. SearchOK => SearchOK'
    BY <2>1, RanksStay DEF SearchOK, TopOK, BottomOK, MatchOK, ApproximateOK
  <2> QED
    BY <2>1, <2>2 DEF SearchInv
<1>2. CASE SearchStep
  BY <1>2, SearchStepOK DEF SearchStep, SearchRuns
<1>3. CASE point_to_item \/ Aborted \/ BrowserChangesList \/ Listen \/ UNCHANGED vars
  BY <1>1, <1>3 DEF point_to_item, Aborted, BrowserChangesList, Listen, vars
<1>4. CASE \E s \in DOMAIN ListNavigationEvent : ScrollInBrowser(s) \/ NavigateInPlayer(s)
  BY <1>1, <1>4 DEF ScrollInBrowser, NavigateInPlayer
<1> QED
  BY <1>2, <1>3, <1>4 DEF Next

\* A search in a sorted list finds the first of the items that begin with the query, or one
\* that agrees with it as far as any item does, for lists and strings of any length
\* (Search::binary_search_utf8()).
THEOREM SearchFindsFirst == Spec => []FindsFirstMatch
<1>1. Init => (task # "search" => ~IsOver)
  BY DEF Init, SearchIdle, IsOver
<1>2. (task # "search" => ~IsOver) /\ [Next]_vars => (task # "search" => ~IsOver)'
  <2> SUFFICES ASSUME task # "search" => ~IsOver, [Next]_vars
               PROVE  (task # "search" => ~IsOver)'
    OBVIOUS
  <2>1. task' = task
    BY DEF Next, SearchStep, point_to_item, Aborted, BrowserChangesList, Listen,
           ScrollInBrowser, NavigateInPlayer, vars
  <2>2. task # "search" => searching' = searching
    BY DEF Next, SearchStep, SearchRuns, point_to_item, Aborted, BrowserChangesList, Listen,
           ScrollInBrowser, NavigateInPlayer, vars, search_vars
  <2> QED
    BY <2>1, <2>2 DEF IsOver
<1>3. (task # "search" => ~IsOver) /\ (task = "search" => SearchInv) => FindsFirstMatch
  BY FoundIsFirst DEF FindsFirstMatch
<1> QED
  BY <1>1, <1>2, <1>3, SearchedInit, SearchedStep, PTL DEF Spec

-----------------------------------------------------------------------------
(* What is known of the stream player.  The events in the queue are what   *)
(* the player did since the event that was taken out last.                 *)

PlayerEvents ==
    [name : {"NOTIFY_NOW_PLAYING", "STORE_STREAM_META_DATA"}, id : Streams, value : Titles]
    \cup [name : {"NOTIFY_STREAM_STOPPED", "NOTIFY_STREAM_PAUSED", "NOTIFY_STREAM_UNPAUSED"},
          id : Streams, value : {None}]
    \cup [name : {"NOTIFY_STREAM_POSITION"}, id : Streams, value : Positions \cup {NoPosition}]
    \cup [name : {"NOTIFY_SPEED_CHANGED"}, id : Streams, value : Speeds]
    \cup [name : {"NOTIFY_PLAYBACK_MODE_CHANGED"}, id : {None}, value : RepeatModes]
    \cup [name : {"VIEWMAN_NOW_PLAYING"}, id : {None}, value : {None}]

\* Events that tell which stream is played, and the stream they leave.
TellsStream(e) ==
    e.name \in {"NOTIFY_NOW_PLAYING", "NOTIFY_STREAM_STOPPED", "STORE_STREAM_META_DATA"}
StreamIn(e) == IF e.name = "NOTIFY_STREAM_STOPPED" THEN None ELSE e.id

\* Events that tell how it is played.
TellsState(e) ==
    e.name \in {"NOTIFY_STREAM_STOPPED", "NOTIFY_STREAM_PAUSED", "NOTIFY_STREAM_UNPAUSED"}
StateIn(e) ==
    IF e.name = "NOTIFY_STREAM_STOPPED" THEN "STOPPED"
    ELSE IF e.name = "NOTIFY_STREAM_PAUSED" THEN "PAUSED" ELSE "PLAYING"

LastToTell(es, j, i) == TellsStream(es[j]) /\ \A k \in j + 1 .. i - 1 : ~TellsStream(es[k])
NobodyTells(es, i) == \A k \in 1 .. i - 1 : ~TellsStream(es[k])

\* The stream that is known when all events before the i-th one have been dispatched.
StreamBefore(es, d, i, id) ==
    /\ \A j \in 1 .. i - 1 : LastToTell(es, j, i) => StreamIn(es[j]) = id
    /\ NobodyTells(es, i) => d.stream = id

\* If it is the given one, then its title is known as well.
TitleBefore(es, d, i, id, title) ==
    /\ \A j \in 1 .. i - 1 :
          LastToTell(es, j, i) /\ StreamIn(es[j]) = id => es[j].value = title
    /\ NobodyTells(es, i) /\ d.stream = id => d.title = title

LastToTellState(es, j, i) == TellsState(es[j]) /\ \A k \in j + 1 .. i - 1 : ~TellsState(es[k])
NobodyTellsState(es, i) == \A k \in 1 .. i - 1 : ~TellsState(es[k])

StateBefore(es, d, i, state) ==
    /\ \A j \in 1 .. i - 1 : LastToTellState(es, j, i) => StateIn(es[j]) = state
    /\ NobodyTellsState(es, i) => d.state = state

\* From what is known (d), the events es lead to what the player does (p).
IsHistory(es, d, p) ==
    /\ es \in Seq(PlayerEvents)
    /\ \A i \in 1 .. Len(es) :
          es[i].name = "STORE_STREAM_META_DATA" => StreamBefore(es, d, i, es[i].id)
    /\ StreamBefore(es, d, Len(es) + 1, p.stream)
    /\ StateBefore(es, d, Len(es) + 1, p.state)

\* A stream is announced again only with the title it had.
TitlesStay(es, d, p) ==
    /\ \A i \in 1 .. Len(es) :
          es[i].name = "NOTIFY_NOW_PLAYING" => TitleBefore(es, d, i, es[i].id, es[i].value)
    /\ p.stream # None => TitleBefore(es, d, Len(es) + 1, p.stream, p.title)

LEMMA EventIs ==
    ASSUME NEW e \in PlayerEvents
    PROVE  /\ e.name \in {"NOTIFY_NOW_PLAYING", "STORE_STREAM_META_DATA"} =>
                  e.id \in Streams /\ e.value \in Titles
           /\ e.name = "NOTIFY_STREAM_POSITION" => e.value \in Positions \cup {NoPosition}
           /\ e.name = "NOTIFY_SPEED_CHANGED" => e.value \in Speeds
           /\ e.name = "NOTIFY_PLAYBACK_MODE_CHANGED" => e.value \in RepeatModes
           /\ e.name \in {"NOTIFY_STREAM_POSITION", "NOTIFY_SPEED_CHANGED"} => e.id \in Streams
           /\ e.name \in {"NOTIFY_NOW_PLAYING", "STORE_STREAM_META_DATA",
                          "NOTIFY_STREAM_STOPPED", "NOTIFY_STREAM_PAUSED",
                          "NOTIFY_STREAM_UNPAUSED", "NOTIFY_STREAM_POSITION",
                          "NOTIFY_SPEED_CHANGED", "NOTIFY_PLAYBACK_MODE_CHANGED",
                          "VIEWMAN_NOW_PLAYING"}
BY DEF PlayerEvents

LEMMA EventsAre ==
    /\ \A id \in Streams, t \in Titles :
          /\ Event("NOTIFY_NOW_PLAYING", id, t) \in PlayerEvents
          /\ Event("STORE_STREAM_META_DATA", id, t) \in PlayerEvents
    /\ \A id \in Streams :
          /\ Event("NOTIFY_STREAM_STOPPED", id, None) \in PlayerEvents
          /\ Event("NOTIFY_STREAM_PAUSED", id, None) \in PlayerEvents
          /\ Event("NOTIFY_STREAM_UNPAUSED", id, None) \in PlayerEvents
          /\ \A p \in Positions \cup {NoPosition} :
                Event("NOTIFY_STREAM_POSITION", id, p) \in PlayerEvents
          /\ \A s \in Speeds : Event("NOTIFY_SPEED_CHANGED", id, s) \in PlayerEvents
    /\ \A r \in RepeatModes : Event("NOTIFY_PLAYBACK_MODE_CHANGED", None, r) \in PlayerEvents
    /\ Event("VIEWMAN_NOW_PLAYING", None, None) \in PlayerEvents
BY DEF Event, PlayerEvents

\* What comes before the i-th event does not depend on what follows.
LEMMA BeforeIsLocal ==
    ASSUME NEW es, NEW fs, NEW d, NEW i \in Nat, \A k \in 1 .. i - 1 : es[k] = fs[k]
    PROVE  /\ \A id : StreamBefore(es, d, i, id) => StreamBefore(fs, d, i, id)
           /\ \A id, t : TitleBefore(es, d, i, id, t) => TitleBefore(fs, d, i, id, t)
           /\ \A s : StateBefore(es, d, i, s) => StateBefore(fs, d, i, s)
<1>1. \A j \in 1 .. i - 1 : \A k \in j + 1 .. i - 1 : k \in 1 .. i - 1
  OBVIOUS
<1>2. \A j \in 1 .. i - 1 : LastToTell(fs, j, i) => LastToTell(es, j, i)
  BY <1>1 DEF LastToTell
<1>3. \A j \in 1 .. i - 1 : LastToTellState(fs, j, i) => LastToTellState(es, j, i)
  BY <1>1 DEF LastToTellState
<1>4. NobodyTells(fs, i) => NobodyTells(es, i)
  BY DEF NobodyTells
<1>5. NobodyTellsState(fs, i) => NobodyTellsState(es, i)
  BY DEF NobodyTellsState
<1>6. \A id : StreamBefore(es, d, i, id) => StreamBefore(fs, d, i, id)
  BY <1>2, <1>4 DEF StreamBefore
<1>7. \A id, t : TitleBefore(es, d, i, id, t) => TitleBefore(fs, d, i, id, t)
  BY <1>2, <1>4 DEF TitleBefore
<1>8. \A s : StateBefore(es, d, i, s) => StateBefore(fs, d, i, s)
  BY <1>3, <1>5 DEF StateBefore
<1> QED
  BY <1>6, <1>7, <1>8

\* What one more event tells.
LEMMA BeforeNext ==
    ASSUME NEW es, NEW d, NEW i \in Nat \ {0}
    PROVE  /\ TellsStream(es[i]) =>
                  /\ StreamBefore(es, d, i + 1, StreamIn(es[i]))
                  /\ \A id : TitleBefore(es, d, i + 1, id, es[i].value)
           /\ ~TellsStream(es[i]) =>
                  /\ \A id : StreamBefore(es, d, i, id) => StreamBefore(es, d, i + 1, id)
                  /\ \A id, t : TitleBefore(es, d, i, id, t) => TitleBefore(es, d, i + 1, id, t)
           /\ TellsState(es[i]) => StateBefore(es, d, i + 1, StateIn(es[i]))
           /\ ~TellsState(es[i]) =>
                  \A s : StateBefore(es, d, i, s) => StateBefore(es, d, i + 1, s)
<1>1. /\ (i + 1) - 1 = i /\ i \in 1 .. i
      /\ \A j \in 1 .. i : j # i => j \in 1 .. i - 1 /\ i \in j + 1 .. i
      /\ \A j \in 1 .. i - 1 : j \in 1 .. i /\ \A k \in j + 1 .. i - 1 : k \in j + 1 .. i
      /\ \A j \in 1 .. i : \A k \in j + 1 .. i : k \in j + 1 .. i - 1 \/ k = i
  OBVIOUS
<1>2. ASSUME TellsStream(es[i])
      PROVE  ~NobodyTells(es, i + 1) /\ \A j \in 1 .. i : LastToTell(es, j, i + 1) => j = i
  BY <1>1, <1>2 DEF NobodyTells, LastToTell
<1>3. ASSUME ~TellsStream(es[i])
      PROVE  /\ NobodyTells(es, i + 1) => NobodyTells(es, i)
             /\ \A j \in 1 .. i : LastToTell(es, j, i + 1) =>
                    j \in 1 .. i - 1 /\ LastToTell(es, j, i)
  BY <1>1, <1>3 DEF NobodyTells, LastToTell
<1>4. ASSUME TellsState(es[i])
      PROVE  ~NobodyTellsState(es, i + 1)
             /\ \A j \in 1 .. i : LastToTellState(es, j, i + 1) => j = i
  BY <1>1, <1>4 DEF NobodyTellsState, LastToTellState
<1>5. ASSUME ~TellsState(es[i])
      PROVE  /\ NobodyTellsState(es, i + 1) => NobodyTellsState(es, i)
             /\ \A j \in 1 .. i : LastToTellState(es, j, i + 1) =>
                    j \in 1 .. i - 1 /\ LastToTellState(es, j, i)
  BY <1>1, <1>5 DEF NobodyTellsState, LastToTellState
<1>6. TellsStream(es[i]) =>
          /\ StreamBefore(es, d, i + 1, StreamIn(es[i]))
          /\ \A id : TitleBefore(es, d, i + 1, id, es[i].value)
  BY <1>1, <1>2 DEF StreamBefore, TitleBefore
<1>7. ~TellsStream(es[i]) =>
          \A id : StreamBefore(es, d, i, id) => StreamBefore(es, d, i + 1, id)
  BY <1>1, <1>3 DEF StreamBefore
<1>8. ~TellsStream(es[i]) =>
          \A id, t : TitleBefore(es, d, i, id, t) => TitleBefore(es, d, i + 1, id, t)
  BY <1>1, <1>3 DEF TitleBefore
<1>9. TellsState(es[i]) => StateBefore(es, d, i + 1, StateIn(es[i]))
  BY <1>1, <1>4 DEF StateBefore
<1>10. ~TellsState(es[i]) =>
           \A s : StateBefore(es, d, i, s) => StateBefore(es, d, i + 1, s)
  BY <1>1, <1>5 DEF StateBefore
<1> QED
  BY <1>6, <1>7, <1>8, <1>9, <1>10

\* The player does something and says so.
LEMMA HistoryGoesOn ==
    ASSUME NEW es, NEW d, NEW p, IsHistory(es, d, p), NEW e \in PlayerEvents, NEW q,
           e.name = "STORE_STREAM_META_DATA" => e.id = p.stream,
           q.stream = IF TellsStream(e) THEN StreamIn(e) ELSE p.stream,
           q.state = IF TellsState(e) THEN StateIn(e) ELSE p.state
    PROVE  IsHistory(Append(es, e), d, q)
<1> DEFINE fs == Append(es, e)
           n == Len(es) + 1
<1>1. /\ es \in Seq(PlayerEvents) /\ n \in Nat \ {0} /\ Len(es) = n - 1
      /\ fs \in Seq(PlayerEvents) /\ Len(fs) = n /\ fs[n] = e
      /\ \A k \in 1 .. Len(es) : fs[k] = es[k]
  BY DEF IsHistory
<1> HIDE DEF fs, n
<1>2. /\ \A i \in 1 .. n : i \in Nat /\ \A k \in 1 .. i - 1 : es[k] = fs[k]
      /\ \A i \in 1 .. n : i = n \/ (i \in 1 .. Len(es) /\ fs[i] = es[i])
      /\ n \in 1 .. n
  BY <1>1
<1>3. StreamBefore(fs, d, n, p.stream) /\ StateBefore(fs, d, n, p.state)
  BY <1>1, <1>2, BeforeIsLocal DEF IsHistory, n
<1>4. \A i \in 1 .. Len(fs) :
          fs[i].name = "STORE_STREAM_META_DATA" => StreamBefore(fs, d, i, fs[i].id)
  BY <1>1, <1>2, <1>3, BeforeIsLocal DEF IsHistory
<1>5. StreamBefore(fs, d, n + 1, q.stream) /\ StateBefore(fs, d, n + 1, q.state)
  BY <1>1, <1>3, BeforeNext
<1> QED
  BY <1>1, <1>4, <1>5 DEF IsHistory, fs

LEMMA TitlesGoOn ==
    ASSUME NEW es, NEW d, NEW p, IsHistory(es, d, p), TitlesStay(es, d, p),
           NEW e \in PlayerEvents, NEW q,
           e.name = "NOTIFY_NOW_PLAYING" => e.id # p.stream \/ e.value = p.title,
           q.stream = IF TellsStream(e) THEN StreamIn(e) ELSE p.stream,
           q.stream # None => q.title = IF TellsStream(e) THEN e.value ELSE p.title,
           None \notin Streams
    PROVE  TitlesStay(Append(es, e), d, q)
<1> DEFINE fs == Append(es, e)
           n == Len(es) + 1
<1>1. /\ es \in Seq(PlayerEvents) /\ n \in Nat \ {0} /\ Len(es) = n - 1
      /\ fs \in Seq(PlayerEvents) /\ Len(fs) = n /\ fs[n] = e
      /\ \A k \in 1 .. Len(es) : fs[k] = es[k]
  BY DEF IsHistory
<1> HIDE DEF fs, n
<1>2. /\ \A i \in 1 .. n : i \in Nat /\ \A k \in 1 .. i - 1 : es[k] = fs[k]
      /\ \A i \in 1 .. n : i = n \/ (i \in 1 .. Len(es) /\ fs[i] = es[i])
      /\ n \in 1 .. n
  BY <1>1
<1>3. /\ StreamBefore(fs, d, n, p.stream)
      /\ p.stream # None => TitleBefore(fs, d, n, p.stream, p.title)
  BY <1>1, <1>2, BeforeIsLocal DEF IsHistory, TitlesStay, n
<1>4. e.name = "NOTIFY_NOW_PLAYING" => TitleBefore(fs, d, n, e.id, e.value)
  <2>1. CASE e.name = "NOTIFY_NOW_PLAYING" /\ e.id = p.stream
    BY <1>3, <2>1, EventIs
  <2>2. CASE e.name = "NOTIFY_NOW_PLAYING" /\ e.id # p.stream
    BY <1>3, <2>2 DEF StreamBefore, TitleBefore
  <2> QED
    BY <2>1, <2>2
<1>5. \A i \in 1 .. Len(fs) :
          fs[i].name = "NOTIFY_NOW_PLAYING" => TitleBefore(fs, d, i, fs[i].id, fs[i].value)
  BY <1>1, <1>2, <1>4, BeforeIsLocal DEF TitlesStay
<1>6. q.stream # None => TitleBefore(fs, d, n + 1, q.stream, q.title)
  BY <1>1, <1>3, BeforeNext
<1> QED
  BY <1>1, <1>5, <1>6 DEF TitlesStay, fs

\* The first event is dispatched: what it tells becomes known.
LEMMA BeforeIsShifted ==
    ASSUME NEW es, NEW fs, NEW d, NEW c, NEW i \in Nat \ {0},
           \A k \in 1 .. i - 1 : fs[k] = es[k + 1],
           c.stream = IF TellsStream(es[1]) THEN StreamIn(es[1]) ELSE d.stream,
           c.state = IF TellsState(es[1]) THEN StateIn(es[1]) ELSE d.state
    PROVE  /\ \A id : StreamBefore(es, d, i + 1, id) => StreamBefore(fs, c, i, id)
           /\ \A id, t : TitleBefore(es, d, i + 1, id, t)
                         /\ (c.stream # None =>
                                c.title = IF TellsStream(es[1]) THEN es[1].value ELSE d.title)
                         /\ id # None => TitleBefore(fs, c, i, id, t)
           /\ \A s : StateBefore(es, d, i + 1, s) => StateBefore(fs, c, i, s)
<1>1. /\ (i + 1) - 1 = i /\ 1 \in 1 .. i
      /\ \A j \in 1 .. i - 1 : j + 1 \in 1 .. i
      /\ \A j \in 1 .. i - 1 : \A k \in (j + 1) + 1 .. i :
            k - 1 \in j + 1 .. i - 1 /\ k - 1 \in 1 .. i - 1 /\ (k - 1) + 1 = k
      /\ \A k \in 1 + 1 .. i : k - 1 \in 1 .. i - 1 /\ (k - 1) + 1 = k
      /\ \A k \in 1 .. i : k = 1 \/ (k - 1 \in 1 .. i - 1 /\ (k - 1) + 1 = k)
  OBVIOUS
<1>2. \A j \in 1 .. i - 1 : /\ LastToTell(fs, j, i) => LastToTell(es, j + 1, i + 1)
                            /\ LastToTellState(fs, j, i) => LastToTellState(es, j + 1, i + 1)
  BY <1>1 DEF LastToTell, LastToTellState
<1>3. NobodyTells(fs, i) => IF TellsStream(es[1]) THEN LastToTell(es, 1, i + 1)
                            ELSE NobodyTells(es, i + 1)
  BY <1>1 DEF NobodyTells, LastToTell
<1>4. NobodyTellsState(fs, i) => IF TellsState(es[1]) THEN LastToTellState(es, 1, i + 1)
                                 ELSE NobodyTellsState(es, i + 1)
  BY <1>1 DEF NobodyTellsState, LastToTellState
<1>5. ASSUME NEW id, StreamBefore(es, d, i + 1, id) PROVE StreamBefore(fs, c, i, id)
  BY <1>1, <1>2, <1>3, <1>5 DEF StreamBefore
<1>6. ASSUME NEW id, NEW t, TitleBefore(es, d, i + 1, id, t), id # None,
             c.stream # None => c.title = IF TellsStream(es[1]) THEN es[1].value ELSE d.title
      PROVE  TitleBefore(fs, c, i, id, t)
  BY <1>1, <1>2, <1>3, <1>6 DEF TitleBefore
<1>7. ASSUME NEW s, StateBefore(es, d, i + 1, s) PROVE StateBefore(fs, c, i, s)
  BY <1>1, <1>2, <1>4, <1>7 DEF StateBefore
<1> QED
  BY <1>5, <1>6, <1>7

LEMMA HistoryIsTold ==
    ASSUME NEW es, NEW d, NEW p, IsHistory(es, d, p), es # <<>>, NEW c,
           c.stream = IF TellsStream(es[1]) THEN StreamIn(es[1]) ELSE d.stream,
           c.state = IF TellsState(es[1]) THEN StateIn(es[1]) ELSE d.state
    PROVE  IsHistory(Tail(es), c, p)
<1> DEFINE fs == Tail(es)
           n == Len(fs)
<1>1. /\ es \in Seq(PlayerEvents) /\ fs \in Seq(PlayerEvents) /\ n \in Nat /\ Len(es) = n + 1
      /\ \A k \in 1 .. n : fs[k] = es[k + 1]
  BY DEF IsHistory
<1> HIDE DEF fs, n
<1>2. \A i \in 1 .. n + 1 : i \in Nat \ {0} /\ \A k \in 1 .. i - 1 : fs[k] = es[k + 1]
  <2>1. \A i \in 1 .. n + 1 : i \in Nat \ {0} /\ \A k \in 1 .. i - 1 : k \in 1 .. n
    BY <1>1
  <2> QED
    BY <1>1, <2>1
<1>6. n + 1 \in 1 .. n + 1 /\ \A i \in 1 .. n : i \in 1 .. n + 1 /\ i + 1 \in 1 .. Len(es)
  BY <1>1
<1>3. \A i \in 1 .. n : fs[i].name = "STORE_STREAM_META_DATA" => StreamBefore(fs, c, i, fs[i].id)
  <2> SUFFICES ASSUME NEW i \in 1 .. n, fs[i].name = "STORE_STREAM_META_DATA"
               PROVE  StreamBefore(fs, c, i, fs[i].id)
    OBVIOUS
  <2>1. i + 1 \in 1 .. Len(es) /\ es[i + 1] = fs[i] /\ i \in Nat \ {0}
    BY <1>1, <1>6
  <2>2. StreamBefore(es, d, i + 1, fs[i].id)
    BY <2>1 DEF IsHistory
  <2> QED
    BY <1>2, <1>6, <2>1, <2>2, BeforeIsShifted
<1>4. StreamBefore(fs, c, n + 1, p.stream) /\ StateBefore(fs, c, n + 1, p.state)
  BY <1>1, <1>2, <1>6, BeforeIsShifted DEF IsHistory
<1>5. Len(fs) = n
  BY DEF n
<1> QED
  BY <1>1, <1>3, <1>4, <1>5 DEF IsHistory, fs

LEMMA TitlesAreTold ==
    ASSUME NEW es, NEW d, NEW p, IsHistory(es, d, p), TitlesStay(es, d, p), es # <<>>, NEW c,
           c.stream = IF TellsStream(es[1]) THEN StreamIn(es[1]) ELSE d.stream,
           c.state = IF TellsState(es[1]) THEN StateIn(es[1]) ELSE d.state,
           c.stream # None => c.title = IF TellsStream(es[1]) THEN es[1].value ELSE d.title,
           None \notin Streams
    PROVE  TitlesStay(Tail(es), c, p)
<1> DEFINE fs == Tail(es)
           n == Len(fs)
<1>1. /\ es \in Seq(PlayerEvents) /\ fs \in Seq(PlayerEvents) /\ n \in Nat /\ Len(es) = n + 1
      /\ \A k \in 1 .. n : fs[k] = es[k + 1]
  BY DEF IsHistory
<1> HIDE DEF fs, n
<1>2. \A i \in 1 .. n + 1 : i \in Nat \ {0} /\ \A k \in 1 .. i - 1 : fs[k] = es[k + 1]
  <2>1. \A i \in 1 .. n + 1 : i \in Nat \ {0} /\ \A k \in 1 .. i - 1 : k \in 1 .. n
    BY <1>1
  <2> QED
    BY <1>1, <2>1
<1>7. /\ n + 1 \in 1 .. n + 1
      /\ \A i \in 1 .. n : i \in 1 .. n + 1 /\ i + 1 \in 1 .. Len(es) /\ fs[i] \in PlayerEvents
  BY <1>1
<1>3. \A i \in 1 .. n : fs[i].name = "NOTIFY_NOW_PLAYING" => fs[i].id # None
  BY <1>7, EventIs
<1>4. \A i \in 1 .. n : fs[i].name = "NOTIFY_NOW_PLAYING" =>
                            TitleBefore(fs, c, i, fs[i].id, fs[i].value)
  <2> SUFFICES ASSUME NEW i \in 1 .. n, fs[i].name = "NOTIFY_NOW_PLAYING"
               PROVE  TitleBefore(fs, c, i, fs[i].id, fs[i].value)
    OBVIOUS
  <2>1. i + 1 \in 1 .. Len(es) /\ es[i + 1] = fs[i] /\ i \in Nat \ {0}
    BY <1>1, <1>7
  <2> DEFINE id == fs[i].id
             title == fs[i].value
  <2>2. TitleBefore(es, d, i + 1, id, title) /\ id # None
    BY <1>3, <2>1 DEF TitlesStay
  <2>3. \A k \in 1 .. i - 1 : fs[k] = es[k + 1]
    BY <1>2, <1>7
  <2> HIDE DEF id, title
  <2>4. TitleBefore(fs, c, i, id, title)
    BY <2>1, <2>2, <2>3, BeforeIsShifted
  <2> QED
    BY <2>4 DEF id, title
<1>5. p.stream # None => TitleBefore(fs, c, n + 1, p.stream, p.title)
  BY <1>1, <1>2, <1>7, BeforeIsShifted DEF TitlesStay
<1>6. Len(fs) = n
  BY DEF n
<1> QED
  BY <1>4, <1>5, <1>6 DEF TitlesStay, fs

-----------------------------------------------------------------------------
\* What has to be written, and what is shown.
IsUpToDate(f) ==
    CASE f = "PLAYBACK_STATE" -> display[f] = VisibleState(known.state, known.speed)
      [] f = "STREAM_POSITION" -> known.position # NoPosition => display[f] = known.position
      [] f = "PLAYBACK_MODES" -> known.repeat # "unknown" => display[f] = known.repeat
      [] f = "META_DATA" -> display[f] = known.title

\* With the play view active, all of the screen or each part of it will be written, unless
\* it agrees with what is known.
ScreenOK ==
    active = "player" /\ known.stream # None =>
        \/ pending # None /\ pending.full
        \/ /\ display # NoScreen
           /\ \A f \in PlayerFlags : (pending # None /\ f \in pending.flags) \/ IsUpToDate(f)

PlayerOK ==
    /\ player \in [stream : Streams \cup {None}, state : {"STOPPED", "PLAYING", "PAUSED"},
                   repeat : RepeatModes, title : Titles]
    /\ player.stream = None => player.state = "STOPPED"

LEMMA EventsAreAppended ==
    ASSUME NEW a \in PlayerEvents, NEW b \in PlayerEvents, NEW c \in PlayerEvents,
           NEW es \in Seq(PlayerEvents)
    PROVE  /\ es \o <<a>> = Append(es, a)
           /\ es \o <<a, b>> = Append(Append(es, a), b)
           /\ es \o <<a, b, c>> = Append(Append(Append(es, a), b), c)
           /\ <<a, b>> \o <<c>> = <<a, b, c>>
<1>1. es \o <<a>> = Append(es, a)
  OBVIOUS
<1>2. es \o <<a, b>> = Append(Append(es, a), b)
  <2>1. /\ es \o <<a, b>> \in Seq(PlayerEvents) /\ Append(Append(es, a), b) \in Seq(PlayerEvents)
        /\ Len(es \o <<a, b>>) = Len(Append(Append(es, a), b))
        /\ \A i \in 1 .. Len(es) + 2 : (es \o <<a, b>>)[i] = Append(Append(es, a), b)[i]
    OBVIOUS
  <2> QED
    BY <2>1, SeqEqual
<1>3. es \o <<a, b, c>> = Append(Append(Append(es, a), b), c)
  <2>1. /\ es \o <<a, b, c>> \in Seq(PlayerEvents)
        /\ Append(Append(Append(es, a), b), c) \in Seq(PlayerEvents)
        /\ Len(es \o <<a, b, c>>) = Len(Append(Append(Append(es, a), b), c))
        /\ \A i \in 1 .. Len(es) + 3 :
              (es \o <<a, b, c>>)[i] = Append(Append(Append(es, a), b), c)[i]
    OBVIOUS
  <2> QED
    BY <2>1, SeqEqual
<1>4. <<a, b>> \o <<c>> = <<a, b, c>>
  <2>1. /\ <<a, b>> \o <<c>> \in Seq(PlayerEvents) /\ <<a, b, c>> \in Seq(PlayerEvents)
        /\ Len(<<a, b>> \o <<c>>) = 3 /\ Len(<<a, b, c>>) = 3
        /\ (<<a, b>> \o <<c>>)[1] = a /\ (<<a, b>> \o <<c>>)[2] = b
        /\ (<<a, b>> \o <<c>>)[3] = c
    OBVIOUS
  <2>2. \A i \in 1 .. 3 : i = 1 \/ i = 2 \/ i = 3
    OBVIOUS
  <2>3. \A i \in 1 .. 3 : (<<a, b>> \o <<c>>)[i] = <<a, b, c>>[i]
    BY <2>1, <2>2
  <2> QED
    BY <2>1, <2>3, SeqEqual
<1> QED
  BY <1>1, <1>2, <1>3, <1>4

\* Signals of the player.
LEMMA SignalsAreHistory ==
    ASSUME PlayerOK, IsHistory(events, known, player),
           RenewsMetaData \/ TitlesStay(events, known, player), PlayerSignals
    PROVE  /\ PlayerOK' /\ IsHistory(events', known', player')
           /\ RenewsMetaData \/ TitlesStay(events', known', player')
           /\ UNCHANGED <<known, is_attached_, screen>>
<1> USE PlayAssumption
<1>1. /\ events \in Seq(PlayerEvents) /\ known' = known /\ None \notin Streams
      /\ UNCHANGED <<known, is_attached_, screen>>
  BY DEF IsHistory, PlayerSignals, PlayerStarts, PlayerStops, PlayerPauses, PlayerResumes,
         PlayerReports, PlayerSetsMode, PlayerSetsTitle, PlayerRenews, Says
<1>2. ASSUME NEW e \in PlayerEvents, events' = events \o <<e>>, PlayerOK',
             e.name = "STORE_STREAM_META_DATA" => e.id = player.stream,
             e.name = "NOTIFY_NOW_PLAYING" => e.id # player.stream \/ e.value = player.title,
             player'.stream = IF TellsStream(e) THEN StreamIn(e) ELSE player.stream,
             player'.stream # None =>
                 player'.title = IF TellsStream(e) THEN e.value ELSE player.title,
             player'.state = IF TellsState(e) THEN StateIn(e) ELSE player.state
      PROVE  /\ IsHistory(events', known', player')
             /\ RenewsMetaData \/ TitlesStay(events', known', player')
  <2>1. events' = Append(events, e)
    BY <1>1, <1>2, EventsAreAppended
  <2>2. IsHistory(events', known, player')
    BY <1>2, <2>1, HistoryGoesOn
  <2>3. RenewsMetaData \/ TitlesStay(events', known, player')
    BY <1>1, <1>2, <2>1, TitlesGoOn
  <2> QED
    BY <1>1, <2>2, <2>3
<1>3. ASSUME NEW id \in Streams, NEW title \in Titles, NEW q,
             q = [player EXCEPT !.stream = id, !.title = title],
             RenewsMetaData \/ id # player.stream \/ title = player.title
      PROVE  LET a == Event("NOTIFY_NOW_PLAYING", id, title)
                 b == Event("VIEWMAN_NOW_PLAYING", None, None)
                 fs == Append(Append(events, a), b)
             IN  /\ a \in PlayerEvents /\ b \in PlayerEvents
                 /\ IsHistory(fs, known, q) /\ (RenewsMetaData \/ TitlesStay(fs, known, q))
  <2> DEFINE a == Event("NOTIFY_NOW_PLAYING", id, title)
             b == Event("VIEWMAN_NOW_PLAYING", None, None)
  <2>1. /\ a \in PlayerEvents /\ b \in PlayerEvents
        /\ a.name = "NOTIFY_NOW_PLAYING" /\ a.id = id /\ a.value = title
        /\ b.name = "VIEWMAN_NOW_PLAYING"
    BY EventsAre DEF Event
  <2>2. q.stream = id /\ q.title = title /\ q.state = player.state
    BY <1>3 DEF PlayerOK
  <2> HIDE DEF a, b
  <2>3. /\ TellsStream(a) /\ StreamIn(a) = id /\ ~TellsState(a)
        /\ ~TellsStream(b) /\ ~TellsState(b)
    BY <2>1 DEF TellsStream, StreamIn, TellsState
  <2>4. IsHistory(Append(events, a), known, q)
    BY <2>1, <2>2, <2>3, HistoryGoesOn
  <2>5. RenewsMetaData \/ TitlesStay(Append(events, a), known, q)
    BY <1>1, <1>3, <2>1, <2>2, <2>3, TitlesGoOn
  <2>6. IsHistory(Append(Append(events, a), b), known, q)
    BY <2>1, <2>3, <2>4, HistoryGoesOn
  <2>7. RenewsMetaData \/ TitlesStay(Append(Append(events, a), b), known, q)
    BY <1>1, <2>1, <2>3, <2>4, <2>5, TitlesGoOn
  <2> QED
    BY <2>1, <2>6, <2>7 DEF a, b
<1>4. ASSUME NEW id \in Streams, PlayerStarts(id)
      PROVE  /\ PlayerOK' /\ IsHistory(events', known', player')
             /\ RenewsMetaData \/ TitlesStay(events', known', player')
  <2> DEFINE a == Event("NOTIFY_NOW_PLAYING", id, "one")
             b == Event("VIEWMAN_NOW_PLAYING", None, None)
             c == Event("NOTIFY_STREAM_UNPAUSED", id, None)
             fs == Append(Append(events, a), b)
             q == [player EXCEPT !.stream = id, !.title = "one"]
  <2>1. "one" \in Titles /\ c \in PlayerEvents /\ c.name = "NOTIFY_STREAM_UNPAUSED"
    BY EventsAre DEF Titles, Event
  <2>2. /\ a \in PlayerEvents /\ b \in PlayerEvents
        /\ IsHistory(fs, known, q) /\ (RenewsMetaData \/ TitlesStay(fs, known, q))
    BY <1>3, <1>4, <2>1 DEF PlayerStarts
  <2>3. events' = events \o (<<a, b>> \o <<c>>)
    BY <1>4 DEF PlayerStarts, Says, Announced
  <2>4. /\ player' = [player EXCEPT !.stream = id, !.state = "PLAYING", !.title = "one"]
        /\ PlayerOK' /\ q.stream = id /\ q.title = "one"
        /\ player'.stream = id /\ player'.state = "PLAYING" /\ player'.title = "one"
    BY <1>4, <2>1 DEF PlayerStarts, PlayerOK
  <2> HIDE DEF a, b, c, q
  <2>5. events' = Append(fs, c)
    BY <1>1, <2>1, <2>2, <2>3, EventsAreAppended
  <2> HIDE DEF fs
  <2>6. ~TellsStream(c) /\ TellsState(c) /\ StateIn(c) = "PLAYING"
    BY <2>1 DEF TellsStream, TellsState, StateIn
  <2>7. IsHistory(events', known, player')
    BY <2>1, <2>2, <2>4, <2>5, <2>6, HistoryGoesOn
  <2>8. RenewsMetaData \/ TitlesStay(events', known, player')
    BY <1>1, <2>1, <2>2, <2>4, <2>5, <2>6, TitlesGoOn
  <2> QED
    BY <1>1, <2>4, <2>7, <2>8
<1>5. ASSUME NEW title \in Titles, PlayerRenews(title)
      PROVE  /\ PlayerOK' /\ IsHistory(events', known', player')
             /\ RenewsMetaData \/ TitlesStay(events', known', player')
  <2> DEFINE a == Event("NOTIFY_NOW_PLAYING", player.stream, title)
             b == Event("VIEWMAN_NOW_PLAYING", None, None)
  <2>1. /\ player.stream \in Streams /\ (RenewsMetaData \/ title = player.title)
        /\ player' = [player EXCEPT !.title = title] /\ events' = events \o <<a, b>>
    BY <1>5 DEF PlayerRenews, PlayerOK, Says, Announced
  <2>2. player' = [player EXCEPT !.stream = player.stream, !.title = title] /\ PlayerOK'
    BY <2>1 DEF PlayerOK
  <2>3. /\ a \in PlayerEvents /\ b \in PlayerEvents
        /\ IsHistory(Append(Append(events, a), b), known, player')
        /\ RenewsMetaData \/ TitlesStay(Append(Append(events, a), b), known, player')
    BY <1>3, <2>1, <2>2
  <2> HIDE DEF a, b
  <2>4. events' = Append(Append(events, a), b)
    BY <1>1, <2>1, <2>3, EventsAreAppended
  <2> QED
    BY <1>1, <2>2, <2>3, <2>4
<1>6. ASSUME PlayerStops
      PROVE  /\ PlayerOK' /\ IsHistory(events', known', player')
             /\ RenewsMetaData \/ TitlesStay(events', known', player')
  <2> DEFINE e == Event("NOTIFY_STREAM_STOPPED", player.stream, None)
  <2>1. /\ player.stream \in Streams /\ events' = events \o <<e>>
        /\ player' = [player EXCEPT !.stream = None, !.state = "STOPPED"]
    BY <1>6 DEF PlayerStops, PlayerOK, Says
  <2>2. e \in PlayerEvents /\ e.name = "NOTIFY_STREAM_STOPPED"
    BY <2>1, EventsAre DEF Event
  <2>3. PlayerOK' /\ player'.stream = None /\ player'.state = "STOPPED"
    BY <2>1 DEF PlayerOK
  <2> HIDE DEF e
  <2>4. /\ TellsStream(e) /\ StreamIn(e) = None /\ TellsState(e) /\ StateIn(e) = "STOPPED"
    BY <2>2 DEF TellsStream, StreamIn, TellsState, StateIn
  <2> QED
    BY <1>2, <2>1, <2>2, <2>3, <2>4
<1>7. ASSUME NEW name \in {"NOTIFY_STREAM_PAUSED", "NOTIFY_STREAM_UNPAUSED"},
             NEW state \in {"PLAYING", "PAUSED"}, player.stream # None,
             state = IF name = "NOTIFY_STREAM_PAUSED" THEN "PAUSED" ELSE "PLAYING",
             player' = [player EXCEPT !.state = state],
             events' = events \o <<Event(name, player.stream, None)>>
      PROVE  /\ PlayerOK' /\ IsHistory(events', known', player')
             /\ RenewsMetaData \/ TitlesStay(events', known', player')
  <2> DEFINE e == Event(name, player.stream, None)
  <2>1. player.stream \in Streams /\ events' = events \o <<e>>
    BY <1>7 DEF PlayerOK
  <2>2. e \in PlayerEvents /\ e.name = name
    BY <2>1, EventsAre DEF Event
  <2>3. /\ PlayerOK' /\ player'.stream = player.stream /\ player'.state = state
        /\ player'.title = player.title
    BY <1>7 DEF PlayerOK
  <2> HIDE DEF e
  <2>4. ~TellsStream(e) /\ TellsState(e) /\ StateIn(e) = state
    BY <1>7, <2>2 DEF TellsStream, TellsState, StateIn
  <2> QED
    BY <1>2, <2>1, <2>2, <2>3, <2>4
<1>8. ASSUME NEW e \in PlayerEvents, events' = events \o <<e>>, PlayerOK',
             e.name \in {"NOTIFY_STREAM_POSITION", "NOTIFY_SPEED_CHANGED",
                         "NOTIFY_PLAYBACK_MODE_CHANGED"},
             player'.stream = player.stream, player'.state = player.state,
             player'.title = player.title
      PROVE  /\ IsHistory(events', known', player')
             /\ RenewsMetaData \/ TitlesStay(events', known', player')
  <2>1. /\ ~TellsStream(e) /\ ~TellsState(e)
        /\ e.name \notin {"STORE_STREAM_META_DATA", "NOTIFY_NOW_PLAYING"}
    BY <1>8 DEF TellsStream, TellsState
  <2> QED
    BY <1>2, <1>8, <2>1
<1>9. ASSUME NEW name, NEW value, PlayerReports(name, value),
             \/ name = "NOTIFY_STREAM_POSITION" /\ value \in Positions \cup {NoPosition}
             \/ name = "NOTIFY_SPEED_CHANGED" /\ value \in Speeds
      PROVE  /\ PlayerOK' /\ IsHistory(events', known', player')
             /\ RenewsMetaData \/ TitlesStay(events', known', player')
  <2> DEFINE e == Event(name, player.stream, value)
  <2>1. player.stream \in Streams /\ events' = events \o <<e>> /\ player' = player /\ PlayerOK'
    BY <1>9 DEF PlayerReports, PlayerOK, Says
  <2>2. e \in PlayerEvents /\ e.name = name
    BY <1>9, <2>1, EventsAre DEF Event
  <2> HIDE DEF e
  <2> QED
    BY <1>8, <1>9, <2>1, <2>2
<1>10. ASSUME NEW r \in RepeatModes, PlayerSetsMode(r)
       PROVE  /\ PlayerOK' /\ IsHistory(events', known', player')
              /\ RenewsMetaData \/ TitlesStay(events', known', player')
  <2> DEFINE e == Event("NOTIFY_PLAYBACK_MODE_CHANGED", None, r)
  <2>1. events' = events \o <<e>> /\ player' = [player EXCEPT !.repeat = r]
    BY <1>10 DEF PlayerSetsMode, Says
  <2>2. /\ PlayerOK' /\ player'.stream = player.stream /\ player'.state = player.state
        /\ player'.title = player.title
    BY <2>1 DEF PlayerOK
  <2>3. e \in PlayerEvents /\ e.name = "NOTIFY_PLAYBACK_MODE_CHANGED"
    BY EventsAre DEF Event
  <2> HIDE DEF e
  <2> QED
    BY <1>8, <2>1, <2>2, <2>3
<1>11. ASSUME NEW title \in Titles, PlayerSetsTitle(title)
       PROVE  /\ PlayerOK' /\ IsHistory(events', known', player')
              /\ RenewsMetaData \/ TitlesStay(events', known', player')
  <2> DEFINE e == Event("STORE_STREAM_META_DATA", player.stream, title)
  <2>1. /\ player.stream \in Streams /\ events' = events \o <<e>>
        /\ player' = [player EXCEPT !.title = title]
    BY <1>11 DEF PlayerSetsTitle, PlayerOK, Says
  <2>2. /\ e \in PlayerEvents /\ e.name = "STORE_STREAM_META_DATA" /\ e.id = player.stream
        /\ e.value = title
    BY <2>1, EventsAre DEF Event
  <2>3. /\ PlayerOK' /\ player'.stream = player.stream /\ player'.state = player.state
        /\ player'.title = title
    BY <2>1 DEF PlayerOK
  <2> HIDE DEF e
  <2>4. TellsStream(e) /\ StreamIn(e) = player.stream /\ ~TellsState(e)
    BY <2>2 DEF TellsStream, StreamIn, TellsState
  <2> QED
    BY <1>2, <2>1, <2>2, <2>3, <2>4
<1>12. ASSUME PlayerPauses \/ PlayerResumes, player.stream # None
       PROVE  /\ PlayerOK' /\ IsHistory(events', known', player')
              /\ RenewsMetaData \/ TitlesStay(events', known', player')
  BY <1>7, <1>12 DEF PlayerPauses, PlayerResumes, Says
<1>13. PlayerPauses \/ PlayerResumes => player.stream # None
  BY DEF PlayerPauses, PlayerResumes, PlayerOK
<1> QED
  BY <1>1, <1>4, <1>5, <1>6, <1>9, <1>10, <1>11, <1>12, <1>13 DEF PlayerSignals

\* Only the stream, its title and its state matter of what is known.
LEMMA HistoryOfKnown ==
    ASSUME NEW es, NEW d, NEW p, IsHistory(es, d, p), NEW c,
           c.stream = d.stream, c.state = d.state
    PROVE  /\ IsHistory(es, c, p)
           /\ c.title = d.title /\ TitlesStay(es, d, p) => TitlesStay(es, c, p)
BY DEF IsHistory, TitlesStay, StreamBefore, StateBefore, TitleBefore

PlayInv ==
    /\ PlayTypeOK /\ PlayerOK
    /\ IsHistory(events, known, player)
    /\ RenewsMetaData \/ (TitlesStay(events, known, player) /\ ScreenOK)

\* What is to be written.
LEMMA EntryIs ==
    ASSUME NEW full \in BOOLEAN, NEW flags \in SUBSET PlayerFlags
    PROVE  /\ Entry(full, flags) \in Entries /\ Entry(full, flags) # None
           /\ Entry(full, flags).full = full /\ Entry(full, flags).flags = flags
BY PlayAssumption DEF Entry, Entries

LEMMA AddedIs ==
    ASSUME NEW e \in {None} \cup Entries, NEW full \in BOOLEAN, NEW flags \in SUBSET PlayerFlags
    PROVE  LET a == AddedTo(e, full, flags)
           IN  /\ a \in Entries /\ a # None /\ (full => a.full) /\ flags \subseteq a.flags
               /\ e # None => (e.full => a.full) /\ e.flags \subseteq a.flags
<1>1. CASE e = None
  <2>1. AddedTo(e, full, flags) = Entry(full, flags)
    BY <1>1 DEF AddedTo
  <2> QED
    BY <1>1, <2>1, EntryIs
<1>2. CASE e # None
  <2>1. e.full \in BOOLEAN /\ e.flags \subseteq PlayerFlags
    BY <1>2 DEF Entries
  <2>2. (e.full \/ full) \in BOOLEAN /\ e.flags \cup flags \subseteq PlayerFlags
    BY <2>1
  <2>3. AddedTo(e, full, flags) = Entry(e.full \/ full, e.flags \cup flags)
    BY <1>2 DEF AddedTo
  <2> QED
    BY <2>2, <2>3, EntryIs
<1> QED
  BY <1>1, <1>2

LEMMA UpdateAdds ==
    ASSUME PlayTypeOK, NEW flags \in SUBSET PlayerFlags, UpdateIfActive(flags)
    PROVE  /\ update_flags_' \subseteq PlayerFlags /\ pending' \in {None} \cup Entries
           /\ active' = active /\ display' = display
           /\ active = "player" => /\ pending' # None /\ flags \subseteq pending'.flags
                                   /\ pending # None => /\ pending.full => pending'.full
                                                        /\ pending.flags \subseteq pending'.flags
<1>1. CASE active = "player"
  <2>1. pending' = AddedTo(pending, FALSE, update_flags_ \cup flags) /\ update_flags_' = {}
    BY <1>1 DEF UpdateIfActive
  <2>2. /\ pending \in {None} \cup Entries /\ update_flags_ \cup flags \in SUBSET PlayerFlags
        /\ active' = active /\ display' = display
    BY DEF PlayTypeOK, UpdateIfActive
  <2> QED
    BY <2>1, <2>2, AddedIs
<1>2. CASE active # "player"
  BY <1>2 DEF UpdateIfActive, PlayTypeOK
<1> QED
  BY <1>1, <1>2

LEMMA SerializeAdds ==
    ASSUME PlayTypeOK, ActivatePlayer \/ (SerializeIfActive /\ active = "player")
    PROVE  /\ update_flags_' \subseteq PlayerFlags /\ pending' \in Entries
           /\ active' = "player" /\ pending' # None /\ pending'.full
<1>1. /\ pending' = AddedTo(pending, TRUE, update_flags_) /\ update_flags_' = {}
      /\ active' = "player"
  BY DEF ActivatePlayer, SerializeIfActive
<1>2. pending \in {None} \cup Entries /\ update_flags_ \in SUBSET PlayerFlags
  BY DEF PlayTypeOK
<1> QED
  BY <1>1, <1>2, AddedIs

\* An update of what has changed.
LEMMA UpdateIsEnough ==
    ASSUME PlayTypeOK, NEW flags \in SUBSET PlayerFlags, UpdateIfActive(flags), ScreenOK,
           known'.stream = known.stream,
           \A f \in PlayerFlags \ flags : IsUpToDate(f) => IsUpToDate(f)'
    PROVE  ScreenOK'
<1> SUFFICES ASSUME active' = "player", known'.stream # None,
                    ~(pending' # None /\ pending'.full)
             PROVE  /\ display' # NoScreen
                    /\ \A f \in PlayerFlags :
                          (pending' # None /\ f \in pending'.flags) \/ IsUpToDate(f)'
  BY DEF ScreenOK
<1>1. /\ active = "player" /\ display' = display /\ pending' # None
      /\ flags \subseteq pending'.flags
      /\ pending # None => ~pending.full /\ pending.flags \subseteq pending'.flags
  BY UpdateAdds
<1>2. /\ display # NoScreen
      /\ \A f \in PlayerFlags : (pending # None /\ f \in pending.flags) \/ IsUpToDate(f)
  BY <1>1 DEF ScreenOK
<1> QED
  BY <1>1, <1>2

\* What an event taken out of the queue tells becomes known.
LEMMA ToldIsKnown ==
    ASSUME PlayInv, events # <<>>, events' = Tail(events), player' = player,
           known'.stream = IF TellsStream(event) THEN StreamIn(event) ELSE known.stream,
           known'.state = IF TellsState(event) THEN StateIn(event) ELSE known.state,
           known'.stream # None =>
               known'.title = IF TellsStream(event) THEN event.value ELSE known.title
    PROVE  /\ PlayerOK' /\ IsHistory(events', known', player')
           /\ RenewsMetaData \/ TitlesStay(events', known', player')
<1>1. event = events[1]
  BY DEF event
<1>2. PlayerOK'
  BY DEF PlayInv, PlayerOK
<1>3. IsHistory(events', known', player)
  BY <1>1, HistoryIsTold DEF PlayInv
<1>4. RenewsMetaData \/ TitlesStay(events', known', player)
  BY <1>1, PlayAssumption, TitlesAreTold DEF PlayInv
<1> QED
  BY <1>2, <1>3, <1>4

\* An event changes one field of what is known.
LEMMA KnownState ==
    ASSUME NEW k \in Data, NEW s \in {"STOPPED", "PLAYING", "PAUSED"},
           NEW q, q = [k EXCEPT !.state = s]
    PROVE  /\ q \in Data /\ q.stream = k.stream /\ q.title = k.title /\ q.state = s
           /\ q.repeat = k.repeat /\ q.position = k.position
BY DEF Data

LEMMA StoppedIs ==
    ASSUME NEW k \in Data, NEW r \in ReportedPlaybackState
    PROVE  /\ Stopped(k) \in Data /\ Stopped(k).stream = None /\ Stopped(k).state = "STOPPED"
           /\ LET q == [Stopped(k) EXCEPT !.speed = "regular", !.repeat = r]
              IN  q \in Data /\ q.stream = None /\ q.state = "STOPPED"
<1>1. NoPosition \in Positions \cup {NoPosition} /\ "regular" \in Speeds
  BY DEF Speeds
<1>2. /\ Stopped(k) \in Data /\ Stopped(k).stream = None /\ Stopped(k).state = "STOPPED"
  BY <1>1 DEF Data, Stopped, NothingPlaying
<1> DEFINE q == [Stopped(k) EXCEPT !.speed = "regular", !.repeat = r]
<1>3. q \in Data /\ q.stream = None /\ q.state = "STOPPED"
  <2> DEFINE t == Stopped(k)
  <2>1. t \in Data /\ t.stream = None /\ t.state = "STOPPED"
    BY <1>2
  <2> HIDE DEF t
  <2>2. q = [t EXCEPT !.speed = "regular", !.repeat = r]
    BY DEF t
  <2> HIDE DEF q
  <2> QED
    BY <1>1, <2>1, <2>2 DEF Data
<1> QED
  BY <1>2, <1>3

\* An event is taken out of the queue.
LEMMA EventIsTaken ==
    ASSUME PlayInv, events # <<>>, events' = Tail(events), player' = player,
           known' \in Data, is_attached_' \in BOOLEAN, active' \in {"player", "browser"},
           update_flags_' \subseteq PlayerFlags, pending' \in {None} \cup Entries,
           known'.stream = IF TellsStream(event) THEN StreamIn(event) ELSE known.stream,
           known'.state = IF TellsState(event) THEN StateIn(event) ELSE known.state,
           known'.stream # None =>
               known'.title = IF TellsStream(event) THEN event.value ELSE known.title,
           RenewsMetaData \/ ScreenOK'
    PROVE  PlayInv'
<1>1. /\ PlayerOK' /\ IsHistory(events', known', player')
      /\ RenewsMetaData \/ TitlesStay(events', known', player')
  BY ToldIsKnown
<1>2. PlayTypeOK'
  BY DEF PlayInv, PlayTypeOK
<1> QED
  BY <1>1, <1>2 DEF PlayInv

\* The same if the flags of what is to be updated are added, or nothing is to be updated.
LEMMA EventIsShown ==
    ASSUME PlayInv, events # <<>>, events' = Tail(events), player' = player,
           known' \in Data, is_attached_' \in BOOLEAN,
           known'.stream = IF TellsStream(event) THEN StreamIn(event) ELSE known.stream,
           known'.state = IF TellsState(event) THEN StateIn(event) ELSE known.state,
           known'.stream # None =>
               known'.title = IF TellsStream(event) THEN event.value ELSE known.title,
           NEW flags \in SUBSET PlayerFlags,
           UpdateIfActive(flags) \/ (UNCHANGED screen /\ flags = {}),
           known'.stream # None => known'.stream = known.stream,
           ASSUME RenewsMetaData = FALSE, known'.stream = known.stream,
                  NEW f \in PlayerFlags \ flags,
                  IsUpToDate(f), display' = display
           PROVE  IsUpToDate(f)'
    PROVE  PlayInv'
<1>1. PlayTypeOK /\ (RenewsMetaData \/ ScreenOK)
  BY DEF PlayInv
<1>2. /\ active' = active /\ display' = display
      /\ update_flags_' \subseteq PlayerFlags /\ pending' \in {None} \cup Entries
  <2>1. CASE UpdateIfActive(flags)
    BY <1>1, <2>1, UpdateAdds
  <2>2. CASE UNCHANGED screen
    BY <1>1, <2>2 DEF screen, PlayTypeOK
  <2> QED
    BY <2>1, <2>2
<1>3. ASSUME ScreenOK, RenewsMetaData = FALSE PROVE ScreenOK'
  <2>1. CASE known'.stream = None
    BY <2>1 DEF ScreenOK
  <2>2. CASE known'.stream = known.stream
    <3>1. \A f \in PlayerFlags \ flags : IsUpToDate(f) => IsUpToDate(f)'
      BY <1>2, <1>3, <2>2
    <3>2. CASE UpdateIfActive(flags)
      BY <1>1, <1>3, <2>2, <3>1, <3>2, UpdateIsEnough
    <3>3. CASE UNCHANGED screen /\ flags = {}
      BY <1>3, <2>2, <3>1, <3>3 DEF screen, ScreenOK
    <3> QED
      BY <3>2, <3>3
  <2> QED
    BY <2>1, <2>2
<1>4. active' \in {"player", "browser"}
  BY <1>1, <1>2 DEF PlayTypeOK
<1>5. RenewsMetaData \/ ScreenOK'
  BY <1>1, <1>3, PlayAssumption
<1> QED
  BY <1>2, <1>4, <1>5, EventIsTaken

LEMMA DispatchOK ==
    ASSUME PlayInv, DispatchToPlayer
    PROVE  PlayInv'
<1>1. /\ events # <<>> /\ events' = Tail(events) /\ player' = player
  BY DEF DispatchToPlayer, NowPlaying, StoppedGoingOn, StoppedFinally, PausedOrUnpaused,
         Position, SpeedChanged, PlaybackModeChanged, StoreMetaData, ForPlayer, Take
<1>2. /\ events \in Seq(PlayerEvents) /\ known \in Data /\ is_attached_ \in BOOLEAN
      /\ active \in {"player", "browser"}
      /\ update_flags_ \subseteq PlayerFlags /\ pending \in {None} \cup Entries
  BY DEF PlayInv, IsHistory, PlayTypeOK
<1>3. event \in PlayerEvents /\ event = events[1] /\ 1 \in 1 .. Len(events)
  BY <1>1, <1>2 DEF event
<1>4. CASE NowPlaying
  <2>1. event.name = "NOTIFY_NOW_PLAYING"
    BY <1>4 DEF NowPlaying, ForPlayer, Take, event
  <2>2. /\ TellsStream(event) /\ StreamIn(event) = event.id /\ ~TellsState(event)
        /\ event.id \in Streams /\ event.value \in Titles
    BY <1>3, <2>1, EventIs DEF TellsStream, StreamIn, TellsState
  <2>3. known' = [known EXCEPT !.stream = event.id, !.title = event.value]
    BY <1>4 DEF NowPlaying
  <2>4. /\ known' \in Data /\ known'.stream = event.id /\ known'.title = event.value
        /\ known'.state = known.state
        /\ known.stream = event.id /\ known.title = event.value => known' = known
    <3> DEFINE id == event.id
               t == event.value
    <3>1. id \in Streams \cup {None} /\ t \in Titles \cup {None}
      BY <2>2
    <3>2. known' = [known EXCEPT !.stream = id, !.title = t]
      BY <2>3
    <3> HIDE DEF id, t
    <3>3. known \in Data
      BY <1>2
    <3> DEFINE q == known'
    <3>4. q = [known EXCEPT !.stream = id, !.title = t]
      BY <3>2
    <3> HIDE DEF q
    <3>5. /\ q \in Data /\ q.stream = id /\ q.title = t /\ q.state = known.state
          /\ known.stream = id /\ known.title = t => q = known
      BY <3>1, <3>3, <3>4 DEF Data
    <3> QED
      BY <3>5 DEF id, t, q
  <2>5. is_attached_' \in BOOLEAN
    BY <1>2, <1>4 DEF NowPlaying
  <2>6. CASE event.id # known.stream
    <3>1. SerializeIfActive
      BY <1>4, <2>6 DEF NowPlaying
    <3>2. CASE active = "player"
      <4>1. /\ update_flags_' \subseteq PlayerFlags /\ pending' \in Entries
            /\ active' = "player" /\ pending' # None /\ pending'.full
        BY <3>1, <3>2, SerializeAdds DEF PlayInv
      <4>2. ScreenOK'
        BY <4>1 DEF ScreenOK
      <4> QED
        BY <1>1, <2>2, <2>4, <2>5, <4>1, <4>2, EventIsTaken
    <3>3. CASE active # "player"
      <4>1. active' = active /\ pending' = pending /\ update_flags_' = update_flags_
        BY <3>1, <3>3 DEF SerializeIfActive
      <4>2. ScreenOK'
        BY <3>3, <4>1 DEF ScreenOK
      <4> QED
        BY <1>1, <1>2, <2>2, <2>4, <2>5, <4>1, <4>2, EventIsTaken
    <3> QED
      BY <3>2, <3>3
  <2>7. CASE event.id = known.stream
    <3>1. UpdateIfActive({"PLAYBACK_STATE"}) /\ {"PLAYBACK_STATE"} \in SUBSET PlayerFlags
      BY <1>4, <2>7 DEF NowPlaying, PlayerFlags
    <3>2. RenewsMetaData = FALSE => known.title = event.value
      <4>1. RenewsMetaData = FALSE => TitleBefore(events, known, 1, event.id, event.value)
        BY <1>3, <2>1 DEF PlayInv, TitlesStay
      <4> QED
        BY <2>7, <4>1 DEF TitleBefore, NobodyTells
    <3>3. ASSUME RenewsMetaData = FALSE, NEW f \in PlayerFlags \ {"PLAYBACK_STATE"},
                 IsUpToDate(f), display' = display
          PROVE  IsUpToDate(f)'
      BY <2>4, <2>7, <3>2, <3>3 DEF IsUpToDate
    <3> QED
      BY <1>1, <2>2, <2>4, <2>5, <2>7, <3>1, <3>3, EventIsShown
  <2> QED
    BY <2>6, <2>7
<1>5. ASSUME StoppedGoingOn \/ StoppedFinally PROVE PlayInv'
  <2>1. event.name = "NOTIFY_STREAM_STOPPED"
    BY <1>5 DEF StoppedGoingOn, StoppedFinally, ForPlayer, Take, event
  <2>2. /\ TellsStream(event) /\ StreamIn(event) = None
        /\ TellsState(event) /\ StateIn(event) = "STOPPED"
    BY <2>1 DEF TellsStream, StreamIn, TellsState, StateIn
  <2>3. known.repeat \in ReportedPlaybackState /\ "unknown" \in ReportedPlaybackState
    BY <1>2 DEF Data, ReportedPlaybackState
  <2>4. known' \in Data /\ known'.stream = None /\ known'.state = "STOPPED"
    <3>1. CASE StoppedGoingOn
      BY <1>2, <2>3, <3>1, StoppedIs DEF StoppedGoingOn
    <3>2. CASE StoppedFinally
      <4>1. Stopped(known).repeat = known.repeat
        BY <1>2 DEF Stopped, NothingPlaying, Data
      <4>2. PICK unplugs \in BOOLEAN :
               known' = [Stopped(known) EXCEPT !.speed = "regular",
                                               !.repeat = IF unplugs THEN "unknown" ELSE @]
        BY <3>2 DEF StoppedFinally
      <4> DEFINE r == IF unplugs THEN "unknown" ELSE known.repeat
      <4>3. r \in ReportedPlaybackState
        BY <2>3
      <4>4. known' = [Stopped(known) EXCEPT !.speed = "regular", !.repeat = r]
        BY <4>1, <4>2
      <4> HIDE DEF r
      <4> QED
        BY <1>2, <4>3, <4>4, StoppedIs
    <3> QED
      BY <1>5, <3>1, <3>2
  <2>5. is_attached_' \in BOOLEAN
    BY <1>2, <1>5 DEF StoppedGoingOn, StoppedFinally
  <2>6. /\ active' \in {"player", "browser"}
        /\ update_flags_' \subseteq PlayerFlags /\ pending' \in {None} \cup Entries
    <3>1. CASE StoppedGoingOn
      BY <1>2, <3>1 DEF StoppedGoingOn, screen
    <3>2. CASE StoppedFinally /\ active = "player"
      <4>1. /\ pending' = AddedTo(pending, FALSE, update_flags_ \cup {"PLAYBACK_STATE"})
            /\ update_flags_' = {} /\ active' = "browser"
        BY <3>2 DEF StoppedFinally
      <4>2. update_flags_ \cup {"PLAYBACK_STATE"} \in SUBSET PlayerFlags
        BY <1>2 DEF PlayerFlags
      <4> QED
        BY <1>2, <4>1, <4>2, AddedIs
    <3>3. CASE StoppedFinally /\ active # "player"
      <4>1. UpdateIfActive({"PLAYBACK_STATE"}) /\ {"PLAYBACK_STATE"} \in SUBSET PlayerFlags
        BY <3>3 DEF StoppedFinally, PlayerFlags
      <4> QED
        BY <1>2, <4>1, UpdateAdds DEF PlayInv
    <3> QED
      BY <1>5, <3>1, <3>2, <3>3
  <2>7. ScreenOK'
    BY <2>4 DEF ScreenOK
  <2> QED
    BY <1>1, <2>2, <2>4, <2>5, <2>6, <2>7, EventIsTaken
<1>6. CASE PausedOrUnpaused
  <2>1. PICK e \in {<<"NOTIFY_STREAM_PAUSED", "PAUSED">>,
                    <<"NOTIFY_STREAM_UNPAUSED", "PLAYING">>} :
           /\ event.name = e[1] /\ known' = [known EXCEPT !.state = e[2]]
           /\ UpdateIfActive({"PLAYBACK_STATE"}) /\ is_attached_' = is_attached_
    BY <1>6 DEF PausedOrUnpaused, ForPlayer, Take, event
  <2>2. /\ ~TellsStream(event) /\ TellsState(event) /\ StateIn(event) = e[2]
        /\ e[2] \in {"STOPPED", "PLAYING", "PAUSED"}
    BY <2>1 DEF TellsStream, TellsState, StateIn
  <2>3. /\ known' \in Data /\ known'.stream = known.stream /\ known'.title = known.title
        /\ known'.state = e[2] /\ known'.repeat = known.repeat
        /\ known'.position = known.position
    <3> DEFINE state == e[2]
    <3>1. known' = [known EXCEPT !.state = state] /\ state \in {"STOPPED", "PLAYING", "PAUSED"}
      BY <2>1, <2>2
    <3> HIDE DEF state
    <3>2. /\ known' \in Data /\ known'.stream = known.stream /\ known'.title = known.title
          /\ known'.state = state /\ known'.repeat = known.repeat
          /\ known'.position = known.position
      BY <1>2, <3>1, KnownState
    <3> QED
      BY <3>2 DEF state
  <2>4. {"PLAYBACK_STATE"} \in SUBSET PlayerFlags
    BY DEF PlayerFlags
  <2>5. ASSUME NEW f \in PlayerFlags \ {"PLAYBACK_STATE"}, IsUpToDate(f), display' = display
        PROVE  IsUpToDate(f)'
    BY <2>3, <2>5 DEF IsUpToDate, PlayerFlags
  <2> QED
    BY <1>1, <1>2, <2>1, <2>2, <2>3, <2>4, <2>5, EventIsShown
<1>7. ASSUME NEW new \in Data, NEW flag \in PlayerFlags, Learns(new, flag),
             ~TellsStream(event), ~TellsState(event),
             new.stream = known.stream, new.title = known.title, new.state = known.state,
             flag # "PLAYBACK_STATE" => new.speed = known.speed,
             flag # "STREAM_POSITION" => new.position = known.position,
             flag # "PLAYBACK_MODES" => new.repeat = known.repeat
      PROVE  PlayInv'
  <2>1. known' = new /\ is_attached_' \in BOOLEAN
    BY <1>2, <1>7 DEF Learns
  <2>2. CASE new # known
    <3>1. UpdateIfActive({flag}) /\ {flag} \in SUBSET PlayerFlags
      BY <1>7, <2>2 DEF Learns
    <3>2. ASSUME NEW f \in PlayerFlags \ {flag}, IsUpToDate(f), display' = display
          PROVE  IsUpToDate(f)'
      BY <1>7, <2>1, <3>2 DEF IsUpToDate, PlayerFlags
    <3> QED
      BY <1>1, <1>7, <2>1, <3>1, <3>2, EventIsShown
  <2>3. CASE new = known
    <3>1. UNCHANGED screen
      BY <1>7, <2>3 DEF Learns
    <3> DEFINE none == {}
    <3>2. none \in SUBSET PlayerFlags /\ none = {}
      OBVIOUS
    <3> HIDE DEF none
    <3>3. ASSUME NEW f \in PlayerFlags \ none, IsUpToDate(f), display' = display
          PROVE  IsUpToDate(f)'
      BY <2>1, <2>3, <3>3 DEF IsUpToDate
    <3> QED
      BY <1>1, <1>7, <2>1, <3>1, <3>2, <3>3, EventIsShown
  <2> QED
    BY <2>2, <2>3
<1>8. CASE Position
  <2>1. event.name = "NOTIFY_STREAM_POSITION" /\ event.value \in Positions \cup {NoPosition}
    BY <1>3, <1>8, EventIs DEF Position, ForPlayer, Take, event
  <2>2. ~TellsStream(event) /\ ~TellsState(event) /\ "STREAM_POSITION" \in PlayerFlags
    BY <2>1 DEF TellsStream, TellsState, PlayerFlags
  <2> DEFINE new == OfStream([known EXCEPT !.position = event.value])
  <2>3. /\ new \in Data /\ new.stream = known.stream /\ new.title = known.title
        /\ new.state = known.state /\ new.speed = known.speed /\ new.repeat = known.repeat
    BY <1>2, <2>1 DEF OfStream, Data
  <2>4. Learns(new, "STREAM_POSITION")
    BY <1>8 DEF Position
  <2> HIDE DEF new
  <2> QED
    BY <1>7, <2>2, <2>3, <2>4
<1>9. CASE SpeedChanged
  <2>1. event.name = "NOTIFY_SPEED_CHANGED" /\ event.value \in Speeds
    BY <1>3, <1>9, EventIs DEF SpeedChanged, ForPlayer, Take, event
  <2>2. ~TellsStream(event) /\ ~TellsState(event) /\ "PLAYBACK_STATE" \in PlayerFlags
    BY <2>1 DEF TellsStream, TellsState, PlayerFlags
  <2> DEFINE new == OfStream([known EXCEPT !.speed = event.value])
  <2>3. /\ new \in Data /\ new.stream = known.stream /\ new.title = known.title
        /\ new.state = known.state /\ new.position = known.position
        /\ new.repeat = known.repeat
    BY <1>2, <2>1 DEF OfStream, Data
  <2>4. Learns(new, "PLAYBACK_STATE")
    BY <1>9 DEF SpeedChanged
  <2> HIDE DEF new
  <2> QED
    BY <1>7, <2>2, <2>3, <2>4
<1>10. CASE PlaybackModeChanged
  <2>1. /\ event.name = "NOTIFY_PLAYBACK_MODE_CHANGED"
        /\ event.value \in ReportedPlaybackState
    BY <1>3, <1>10, EventIs
       DEF PlaybackModeChanged, ForPlayer, Take, event, ReportedPlaybackState
  <2>2. ~TellsStream(event) /\ ~TellsState(event) /\ "PLAYBACK_MODES" \in PlayerFlags
    BY <2>1 DEF TellsStream, TellsState, PlayerFlags
  <2> DEFINE new == IF is_attached_ THEN [known EXCEPT !.repeat = event.value] ELSE known
  <2>3. /\ new \in Data /\ new.stream = known.stream /\ new.title = known.title
        /\ new.state = known.state /\ new.position = known.position
        /\ new.speed = known.speed
    BY <1>2, <2>1 DEF Data
  <2>4. Learns(new, "PLAYBACK_MODES")
    BY <1>10 DEF PlaybackModeChanged
  <2> HIDE DEF new
  <2> QED
    BY <1>7, <2>2, <2>3, <2>4
<1>11. CASE StoreMetaData
  <2>1. /\ event.name = "STORE_STREAM_META_DATA"
        /\ event.id \in Streams /\ event.value \in Titles
    BY <1>3, <1>11, EventIs DEF StoreMetaData, ForPlayer, Take, event
  <2>2. /\ TellsStream(event) /\ StreamIn(event) = event.id /\ ~TellsState(event)
    BY <2>1 DEF TellsStream, StreamIn, TellsState
  <2>3. event.id = known.stream
    <3>1. StreamBefore(events, known, 1, event.id)
      BY <1>3, <2>1 DEF PlayInv, IsHistory
    <3> QED
      BY <3>1 DEF StreamBefore, NobodyTells
  <2>4. /\ known' = [known EXCEPT !.title = event.value] /\ is_attached_' \in BOOLEAN
        /\ UpdateIfActive({"META_DATA"}) /\ {"META_DATA"} \in SUBSET PlayerFlags
    BY <1>2, <1>11, <2>3 DEF StoreMetaData, OfStream, PlayerFlags
  <2>5. /\ known' \in Data /\ known'.stream = known.stream /\ known'.title = event.value
        /\ known'.state = known.state /\ known'.position = known.position
        /\ known'.speed = known.speed /\ known'.repeat = known.repeat
    BY <1>2, <2>1, <2>4 DEF Data
  <2>6. ASSUME NEW f \in PlayerFlags \ {"META_DATA"}, IsUpToDate(f), display' = display
        PROVE  IsUpToDate(f)'
    BY <2>5, <2>6 DEF IsUpToDate, PlayerFlags
  <2> QED
    BY <1>1, <2>2, <2>3, <2>4, <2>5, <2>6, EventIsShown
<1> QED
  BY <1>4, <1>5, <1>6, <1>8, <1>9, <1>10, <1>11 DEF DispatchToPlayer

LEMMA DropOK ==
    ASSUME PlayInv, Drop
    PROVE  PlayInv'
<1>1. /\ events # <<>> /\ events' = Tail(events) /\ player' = player /\ known' = known
      /\ is_attached_' = is_attached_ /\ UNCHANGED screen
      /\ event.name # "VIEWMAN_NOW_PLAYING" /\ ~Bounced(event.name)
  BY DEF Drop
<1>2. events \in Seq(PlayerEvents) /\ PlayTypeOK
  BY DEF PlayInv, IsHistory
<1>3. event \in PlayerEvents
  BY <1>1, <1>2 DEF event
<1>4. event.name = "NOTIFY_SPEED_CHANGED"
  BY <1>1, <1>3, EventIs DEF Bounced
<1>5. ~TellsStream(event) /\ ~TellsState(event)
  BY <1>4 DEF TellsStream, TellsState
<1>6. RenewsMetaData \/ ScreenOK'
  BY <1>1 DEF PlayInv, ScreenOK, IsUpToDate, screen
<1> QED
  BY <1>1, <1>2, <1>5, <1>6, EventIsTaken DEF PlayTypeOK, screen

LEMMA ActivateOK ==
    ASSUME PlayInv, ActivateOnNowPlaying
    PROVE  PlayInv'
<1>1. /\ events # <<>> /\ events' = Tail(events) /\ player' = player /\ known' = known
      /\ is_attached_' = is_attached_ /\ event.name = "VIEWMAN_NOW_PLAYING"
  BY DEF ActivateOnNowPlaying, Take, event
<1>2. ~TellsStream(event) /\ ~TellsState(event) /\ PlayTypeOK
  BY <1>1 DEF TellsStream, TellsState, PlayInv
<1>3. CASE active = "player"
  <2>1. UNCHANGED screen
    BY <1>3 DEF ActivateOnNowPlaying
  <2>2. RenewsMetaData \/ ScreenOK'
    BY <1>1, <2>1 DEF PlayInv, ScreenOK, IsUpToDate, screen
  <2> QED
    BY <1>1, <1>2, <2>1, <2>2, EventIsTaken DEF PlayTypeOK, screen
<1>4. CASE active # "player"
  <2>1. ActivatePlayer
    BY <1>4 DEF ActivateOnNowPlaying
  <2>2. /\ update_flags_' \subseteq PlayerFlags /\ pending' \in Entries
        /\ active' = "player" /\ pending' # None /\ pending'.full
    BY <1>2, <2>1, SerializeAdds
  <2>3. ScreenOK'
    BY <2>2 DEF ScreenOK
  <2> QED
    BY <1>1, <1>2, <2>2, <2>3, EventIsTaken DEF PlayTypeOK
<1> QED
  BY <1>3, <1>4

\* Nothing is dispatched.
LEMMA RestOfPlayOK ==
    ASSUME PlayInv, UNCHANGED <<player, events>>, PlayTypeOK',
           known'.stream = known.stream, known'.state = known.state, known'.title = known.title,
           RenewsMetaData \/ ScreenOK'
    PROVE  PlayInv'
<1>1. PlayerOK'
  BY DEF PlayInv, PlayerOK
<1>2. IsHistory(events, known', player) /\ (RenewsMetaData \/ TitlesStay(events, known', player))
  BY HistoryOfKnown DEF PlayInv
<1> QED
  BY <1>1, <1>2 DEF PlayInv

LEMMA PlugOK ==
    ASSUME PlayInv, Plug \/ Unplug
    PROVE  PlayInv'
<1>1. /\ known' = [known EXCEPT !.repeat = "unknown"] /\ is_attached_' \in BOOLEAN
      /\ UNCHANGED <<player, events>> /\ UNCHANGED screen
  BY DEF Plug, Unplug
<1>2. known \in Data /\ "unknown" \in ReportedPlaybackState /\ PlayTypeOK
  BY DEF PlayInv, PlayTypeOK, ReportedPlaybackState
<1>3. /\ known' \in Data /\ known'.stream = known.stream /\ known'.title = known.title
      /\ known'.state = known.state /\ known'.position = known.position
      /\ known'.speed = known.speed /\ known'.repeat = "unknown"
  BY <1>1, <1>2 DEF Data
<1>4. \A f \in PlayerFlags : IsUpToDate(f) => IsUpToDate(f)'
  BY <1>1, <1>3 DEF IsUpToDate, screen, PlayerFlags
<1>5. RenewsMetaData \/ ScreenOK'
  BY <1>1, <1>3, <1>4 DEF PlayInv, ScreenOK, screen
<1>6. PlayTypeOK'
  BY <1>1, <1>2, <1>3 DEF PlayTypeOK, screen
<1> QED
  BY <1>1, <1>3, <1>5, <1>6, RestOfPlayOK

\* What is written is what is known.
LEMMA FieldsAre ==
    ASSUME PlayTypeOK, NEW e \in Entries, NEW f \in PlayerFlags, e.full \/ f \in e.flags,
           NEW old, display' = Overwritten(Fields(e), old), known' = known
    PROVE  IsUpToDate(f)'
<1>1. display'[f] = IF f \in DOMAIN Fields(e) THEN Fields(e)[f] ELSE old[f]
  BY DEF Overwritten
<1>2. DOMAIN Fields(e) = {g \in PlayerFlags : e.full \/ g \in e.flags} \
                             (IF known.position = NoPosition THEN {"STREAM_POSITION"} ELSE {})
  BY DEF Fields
<1>3. CASE f = "STREAM_POSITION" /\ known.position = NoPosition
  BY <1>3 DEF IsUpToDate
<1>4. CASE f # "STREAM_POSITION" \/ known.position # NoPosition
  <2>1. f \in DOMAIN Fields(e)
    BY <1>2, <1>4
  <2>2. Fields(e)[f] = CASE f = "PLAYBACK_STATE"  -> VisibleState(known.state, known.speed)
                         [] f = "STREAM_POSITION" -> known.position
                         [] f = "PLAYBACK_MODES"  -> known.repeat
                         [] f = "META_DATA"       -> known.title
    BY <1>2, <2>1 DEF Fields
  <2>3. display'[f] = Fields(e)[f]
    BY <1>1, <2>1
  <2> QED
    BY <2>2, <2>3 DEF IsUpToDate, PlayerFlags
<1> QED
  BY <1>3, <1>4

LEMMA WriteOK ==
    ASSUME PlayInv, WritePlayer
    PROVE  PlayInv'
<1>1. /\ pending \in Entries /\ pending' = None /\ known' = known /\ active' = active
      /\ UNCHANGED <<player, events>>
  BY DEF PlayInv, PlayTypeOK, WritePlayer
<1>2. PlayTypeOK'
  BY <1>1 DEF PlayInv, PlayTypeOK, WritePlayer
<1>3. ASSUME ScreenOK PROVE ScreenOK'
  <2> SUFFICES ASSUME active = "player", known.stream # None
               PROVE  display' # NoScreen /\ \A f \in PlayerFlags : IsUpToDate(f)'
    BY <1>1 DEF ScreenOK
  <2>1. \A fields, old : Overwritten(fields, old) # NoScreen
    <3>1. \A fields, old : DOMAIN Overwritten(fields, old) = PlayerFlags
      BY DEF Overwritten
    <3>2. DOMAIN NoScreen = {} /\ PlayerFlags # {}
      BY DEF NoScreen, PlayerFlags
    <3> QED
      BY <3>1, <3>2
  <2>2. CASE pending.full
    <3>1. display' = Overwritten(Fields(pending), Blank)
      BY <2>2 DEF WritePlayer
    <3> QED
      BY <1>1, <2>1, <2>2, <3>1, FieldsAre DEF PlayInv
  <2>3. CASE ~pending.full
    <3>1. /\ display # NoScreen
          /\ \A f \in PlayerFlags : f \in pending.flags \/ IsUpToDate(f)
      BY <1>3, <2>3 DEF ScreenOK
    <3>2. display' = Overwritten(Fields(pending), display)
      BY <2>3, <3>1 DEF WritePlayer
    <3>3. ASSUME NEW f \in PlayerFlags, f \notin pending.flags PROVE IsUpToDate(f)'
      <4>1. IsUpToDate(f) /\ f \notin DOMAIN Fields(pending)
        BY <2>3, <3>1, <3>3 DEF Fields
      <4>2. display'[f] = display[f]
        BY <3>2, <4>1 DEF Overwritten
      <4> QED
        BY <1>1, <4>1, <4>2 DEF IsUpToDate
    <3> QED
      BY <1>1, <2>1, <3>2, <3>3, FieldsAre DEF PlayInv
  <2> QED
    BY <2>2, <2>3
<1>4. RenewsMetaData \/ ScreenOK'
  BY <1>3 DEF PlayInv
<1> QED
  BY <1>1, <1>2, <1>4, RestOfPlayOK

LEMMA PlayStepOK ==
    ASSUME PlayInv, PlayNext
    PROVE  PlayInv'
<1>1. CASE PlayerSignals
  <2>1. /\ PlayerOK' /\ IsHistory(events', known', player')
        /\ RenewsMetaData \/ TitlesStay(events', known', player')
        /\ UNCHANGED <<known, is_attached_, screen>>
    BY <1>1, SignalsAreHistory DEF PlayInv
  <2>2. PlayTypeOK'
    BY <2>1 DEF PlayInv, PlayTypeOK, PlayerOK, screen
  <2>3. RenewsMetaData \/ ScreenOK'
    BY <2>1 DEF PlayInv, ScreenOK, IsUpToDate, screen
  <2> QED
    BY <2>1, <2>2, <2>3 DEF PlayInv
<1>2. CASE OpenPlayer
  <2>1. /\ ActivatePlayer /\ UNCHANGED <<player, events>> /\ known' = known
        /\ is_attached_' = is_attached_
    BY <1>2 DEF OpenPlayer
  <2>2. /\ update_flags_' \subseteq PlayerFlags /\ pending' \in Entries
        /\ active' = "player" /\ pending' # None /\ pending'.full
    BY <2>1, SerializeAdds DEF PlayInv
  <2>3. ScreenOK' /\ PlayTypeOK'
    BY <2>1, <2>2 DEF ScreenOK, PlayInv, PlayTypeOK
  <2> QED
    BY <2>1, <2>3, RestOfPlayOK
<1>3. CASE OpenBrowser
  <2>1. PlayTypeOK' /\ ScreenOK' /\ UNCHANGED <<player, events>> /\ known' = known
    BY <1>3 DEF OpenBrowser, ScreenOK, PlayInv, PlayTypeOK
  <2> QED
    BY <2>1, RestOfPlayOK
<1>4. CASE WriteBrowser
  <2>1. PlayTypeOK' /\ UNCHANGED <<player, events>> /\ known' = known
    BY <1>4 DEF WriteBrowser, PlayInv, PlayTypeOK
  <2>2. active = "player" => display' = display
    BY <1>4 DEF WriteBrowser
  <2>3. RenewsMetaData \/ ScreenOK'
    BY <1>4, <2>2 DEF WriteBrowser, ScreenOK, IsUpToDate, PlayInv
  <2> QED
    BY <2>1, <2>3, RestOfPlayOK
<1> QED
  BY <1>1, <1>2, <1>3, <1>4, DispatchOK, ActivateOK, DropOK, PlugOK, WriteOK DEF PlayNext

LEMMA PlayStarts ==
    ASSUME PlayInit
    PROVE  PlayInv
<1>1. /\ known = NothingKnown /\ events = <<>> /\ known.stream = None
      /\ known.state = "STOPPED"
  BY DEF PlayInit, NothingKnown
<1>2. /\ player = [stream |-> None, state |-> "STOPPED", repeat |-> "off", title |-> "one"]
      /\ player.stream = None /\ player.state = "STOPPED"
  BY DEF PlayInit
<1>3. PlayTypeOK
  <2>1. known \in Data
    <3>1. NoPosition \in Positions \cup {NoPosition}
      OBVIOUS
    <3> QED
      BY <1>1, <3>1 DEF NothingKnown, Data, Speeds, ReportedPlaybackState
  <2>2. /\ update_flags_ \subseteq PlayerFlags /\ is_attached_ \in BOOLEAN
        /\ active \in {"player", "browser"} /\ pending \in {None} \cup Entries
    BY DEF PlayInit
  <2>3. player \in [stream : Streams \cup {None}, state : {"STOPPED", "PLAYING", "PAUSED"},
                    repeat : RepeatModes, title : Titles]
    BY <1>2 DEF Titles, RepeatModes
  <2> QED
    BY <2>1, <2>2, <2>3 DEF PlayTypeOK
<1>4. PlayerOK
  BY <1>2 DEF PlayerOK, Titles, RepeatModes
<1>5. events \in Seq(PlayerEvents) /\ Len(events) = 0
  BY <1>1
<1>6. IsHistory(events, known, player)
  BY <1>1, <1>2, <1>5 DEF IsHistory, StreamBefore, StateBefore
<1>7. TitlesStay(events, known, player)
  BY <1>1, <1>2, <1>5 DEF TitlesStay
<1>8. ScreenOK
  BY <1>1 DEF ScreenOK
<1> QED
  BY <1>3, <1>4, <1>6, <1>7, <1>8 DEF PlayInv

\* The signals are dispatched, and the screen is written, whichever view is active.
LEMMA PlayInvariant == Spec => []PlayInv
<1>1. Init => PlayInv
  BY PlayStarts DEF Init
<1>2. PlayInv /\ UNCHANGED play_vars => PlayInv'
  <2> SUFFICES ASSUME PlayInv, UNCHANGED play_vars PROVE PlayInv'
    OBVIOUS
  <2>1. /\ UNCHANGED <<player, events>> /\ known' = known /\ PlayTypeOK'
        /\ RenewsMetaData \/ ScreenOK'
    BY DEF play_vars, PlayInv, PlayTypeOK, ScreenOK, IsUpToDate
  <2> QED
    BY <2>1, RestOfPlayOK
<1>3. PlayInv /\ [Next]_vars => PlayInv'
  <2> SUFFICES ASSUME PlayInv, [Next]_vars PROVE PlayInv'
    OBVIOUS
  <2>1. CASE SearchStep \/ point_to_item \/ Aborted \/ BrowserChangesList \/ UNCHANGED vars
    BY <1>2, <2>1 DEF SearchStep, point_to_item, Aborted, BrowserChangesList, vars
  <2>2. CASE \E s \in DOMAIN ListNavigationEvent : ScrollInBrowser(s)
    BY <1>2, <2>2 DEF ScrollInBrowser
  <2>3. CASE \E s \in DOMAIN ListNavigationEvent : NavigateInPlayer(s)
    BY <2>3, PlayStepOK DEF NavigateInPlayer, PlayNext
  <2>4. CASE Listen
    BY <2>4, PlayStepOK DEF Listen
  <2> QED
    BY <2>1, <2>2, <2>3, <2>4 DEF Next
<1> QED
  BY <1>1, <1>3, PTL DEF Spec

\* However many signals of the player are waiting: the stream it plays, and how, is what is
\* known when all of them have been dispatched (UI::EventQueue, ViewPlay::View).
THEOREM StreamIsKnown == Spec => []KnowsStream
<1>1. PlayInv => KnowsStream
  BY DEF PlayInv, IsHistory, KnowsStream, AllDispatched, StreamBefore, StateBefore,
         NobodyTells, NobodyTellsState
<1> QED
  BY <1>1, PlayInvariant, PTL

\* What is known is shown when everything has been written, whichever views were shown
\* meanwhile, provided that the player does not announce a stream a second time with other
\* meta data (ViewPlay::View, with ViewManager::Manager).
THEOREM WhatIsKnownIsShown ==
    ASSUME ~RenewsMetaData
    PROVE  Spec => []KnownAndShown
<1> DEFINE ModeOK == wrap_mode_ \in WrapModes
<1>1. Init => ModeOK
  BY DEF Init, NavInit, WrapModes
<1>2. ModeOK /\ [Next]_vars => ModeOK'
  BY DEF Next, SearchStep, point_to_item, Aborted, BrowserChangesList, Listen, ScrollInBrowser,
         NavigateInPlayer, vars, nav_vars, GoToLine, EnterList, MoveDown, MoveUp
<1>3. PlayInv => ShowsWhatIsKnown
  <2> SUFFICES ASSUME PlayInv, active = "player", AllWritten, known.stream # None
               PROVE  /\ display # NoScreen
                      /\ display["PLAYBACK_STATE"] = VisibleState(known.state, known.speed)
                      /\ known.position # NoPosition =>
                             display["STREAM_POSITION"] = known.position
                      /\ known.repeat # "unknown" =>
                             display["PLAYBACK_MODES"] = known.repeat
                      /\ display["META_DATA"] = known.title
    BY DEF ShowsWhatIsKnown
  <2>1. display # NoScreen /\ \A f \in PlayerFlags : IsUpToDate(f)
    BY DEF PlayInv, ScreenOK, AllWritten
  <2> QED
    BY <2>1 DEF IsUpToDate, PlayerFlags
<1>4. BrowseInv /\ PlayInv /\ ModeOK => TypeOK
  BY DEF BrowseInv, PlayInv, TypeOK, NavTypeOK
<1>5. BrowseInv /\ PlayInv /\ KnowsStream /\ ModeOK => KnownAndShown
  BY <1>3, <1>4 DEF KnownAndShown
<1> HIDE DEF ModeOK
<1>6. Spec => []BrowseInv
  BY BrowseInit, BrowseStep, PTL DEF Spec
<1>7. Spec => []ModeOK
  BY <1>1, <1>2, PTL DEF Spec
<1> QED
  BY <1>5, <1>6, <1>7, PlayInvariant, StreamIsKnown, PTL
=============================================================================
