------------------------------ MODULE SearchAlgo ------------------------------
(***************************************************************************)
(* The binary search for the first item of a sorted list which begins with *)
(* some string (Search::binary_search_utf8()).  It goes through the string *)
(* character by character; for each of them, the part of the list that     *)
(* matches so far is narrowed down by searching for its top-most and then  *)
(* for its bottom-most item with that character.                           *)
(*                                                                         *)
(* Strings are sequences of characters, which are numbers.  Comparisons    *)
(* are made after case folding, which is done already here.                *)
(***************************************************************************)
EXTENDS Integers, Sequences

CONSTANTS
    Characters,     \* a set of numbers
    MaxLength,      \* bound: length of a string
    MaxListItems        \* bound: length of the list

ASSUME SearchAssumption ==
    /\ Characters \subseteq Nat
    /\ MaxLength \in Nat \ {0}
    /\ MaxListItems \in Nat \ {0}

NoCandidate == -1

VARIABLES
    list,               \* the items of the list
    query,
    upper_, lower_,     \* partitions: top_, bottom_ and center_
    all_top_, all_bottom_,
    bottom_candidate_,
    depth_,             \* index of the character of the query being searched for
    searching,          \* "top" or "bottom", or the result when the search is over
    key_checked         \* whether get_char_at() has always been given a valid index

inputs == <<list, query>>
state_vars == <<upper_, lower_, all_top_, all_bottom_, bottom_candidate_, depth_>>
search_vars == <<inputs, state_vars, searching, key_checked>>

(***************************************************************************)
(* Partitions                                                              *)
(***************************************************************************)
compute_center(top, bottom) == top + (bottom - top) \div 2

Partition(top, bottom) ==
    [top |-> top, bottom |-> bottom, center |-> compute_center(top, bottom)]

pick_top_half(p) == Partition(p.top, p.center)

pick_bottom_half(p) == Partition(p.center, p.bottom)

is_unique(p) == p.top = p.bottom

\* Mutant: two items are bisected like any others.
has_two_never(p) == FALSE

has_two(p) == p.bottom - p.top = 1

step_center_down(p) == [p EXCEPT !.center = @ + 1]

lock_at_center(p) == Partition(p.center, p.center)

(***************************************************************************)
(* Inputs                                                                  *)
(***************************************************************************)
Strings == UNION {[1 .. n -> Characters] : n \in 1 .. MaxLength}

StartsWith(s, prefix) ==
    Len(prefix) <= Len(s) /\ SubSeq(s, 1, Len(prefix)) = prefix

\* Lexicographic order, in which a prefix of a string precedes it.
NotAfter(s, t) ==
    \/ StartsWith(t, s)
    \/ \E i \in 1 .. Len(s) :
          i <= Len(t) /\ s[i] < t[i] /\ SubSeq(s, 1, i - 1) = SubSeq(t, 1, i - 1)

SortedLists ==
    {l \in UNION {[1 .. n -> Strings] : n \in 1 .. MaxListItems} :
        \A i \in 1 .. Len(l) : \A j \in i + 1 .. Len(l) : NotAfter(l[i], l[j])}

\* All partitions are set to what is left of the list for the next character.
prepare_next_iteration(top, bottom, depth) ==
    /\ all_top_' = top
    /\ all_bottom_' = bottom
    /\ upper_' = Partition(top, bottom)
    /\ lower_' = Partition(top, bottom)
    /\ bottom_candidate_' = NoCandidate
    /\ depth_' = depth

SearchInit ==
    /\ list \in SortedLists
    /\ query \in Strings
    /\ all_top_ = 0
    /\ all_bottom_ = Len(list) - 1
    /\ upper_ = Partition(0, Len(list) - 1)
    /\ lower_ = Partition(0, Len(list) - 1)
    /\ bottom_candidate_ = NoCandidate
    /\ depth_ = 0
    /\ searching = "top"
    /\ key_checked = TRUE

(***************************************************************************)
(* Steps of the search for a boundary: bsearch_boundary()                  *)
(***************************************************************************)
IsOver == searching \notin {"top", "bottom"}
ForTop == searching = "top"

current == IF ForTop THEN upper_ ELSE lower_

key == query[depth_ + 1]
center_string == list[current.center + 1]

\* Nothing but the partition being searched changes.
Continue(p) ==
    /\ upper_' = IF ForTop THEN p ELSE upper_
    /\ lower_' = IF ForTop THEN lower_ ELSE p
    /\ UNCHANGED <<inputs, all_top_, all_bottom_, bottom_candidate_, depth_, searching,
                   key_checked>>

\* The boundary was found at an item.
Found(p) ==
    /\ IF depth_ + 1 < Len(query)
       THEN IF ForTop
            THEN /\ upper_' = p
                 /\ searching' = "bottom"
                 /\ UNCHANGED <<lower_, all_top_, all_bottom_, bottom_candidate_, depth_>>
            ELSE /\ prepare_next_iteration(upper_.top, p.bottom, depth_ + 1)
                 /\ searching' = "top"
       ELSE /\ upper_' = p
            /\ searching' = "FOUND_MATCH"
            /\ UNCHANGED <<lower_, all_top_, all_bottom_, bottom_candidate_, depth_>>
    /\ UNCHANGED <<inputs, key_checked>>

FoundApproximate(p) ==
    /\ upper_' = p
    /\ searching' = IF ForTop THEN "FOUND_APPROXIMATE" ELSE "INTERNAL_FAILURE"
    /\ UNCHANGED <<inputs, lower_, all_top_, all_bottom_, bottom_candidate_, depth_, key_checked>>

\* The item in the center has no more characters than have been looked at before.
CheckShortItem ==
    /\ ~IsOver
    /\ Len(center_string) <= depth_
    /\ IF Len(center_string) < depth_
       THEN Continue(pick_top_half(current))
       ELSE /\ key_checked' = FALSE
            /\ searching' = "INTERNAL_FAILURE"
            /\ UNCHANGED <<inputs, state_vars>>

CanCompare == ~IsOver /\ Len(center_string) > depth_
ch == center_string[depth_ + 1]

CheckLast ==
    /\ CanCompare
    /\ is_unique(current)
    /\ IF key = ch THEN Found(current) ELSE FoundApproximate(current)

\* Two items are left: both are looked at, one after the other.
CheckTwo ==
    /\ CanCompare
    /\ has_two(current)
    /\ CASE key = ch /\ (ForTop \/ current.center >= current.bottom) ->
              Found(lock_at_center(current))
         [] key = ch /\ ~ForTop /\ current.center < current.bottom ->
              /\ bottom_candidate_' = current.center
              /\ lower_' = step_center_down(current)
              /\ UNCHANGED <<inputs, upper_, all_top_, all_bottom_, depth_, searching, key_checked>>
         [] key > ch /\ current.center < current.bottom -> Continue(step_center_down(current))
         [] key > ch /\ current.center >= current.bottom -> Continue(lock_at_center(current))
         [] key < ch /\ ForTop -> FoundApproximate(lock_at_center(current))
         [] key < ch /\ ~ForTop /\ bottom_candidate_ # NoCandidate ->
              Found(Partition(bottom_candidate_, bottom_candidate_))
         [] OTHER -> /\ searching' = "UNSORTED"
                     /\ UNCHANGED <<inputs, state_vars, key_checked>>

\* While the top-most item is searched for, the other partition is narrowed as well.
narrowed_lower ==
    CASE ch <= key /\ lower_.top < current.center -> pick_bottom_half(lower_)
      [] ch > key /\ lower_.bottom > current.center -> pick_top_half(lower_)
      [] OTHER -> lower_

\* Mutant: items equal to the key are taken to be above the top-most one.
is_utf8_character_greater_strict == key < ch

is_utf8_character_greater == IF ForTop THEN key <= ch ELSE key < ch

CheckCenter ==
    /\ CanCompare
    /\ ~is_unique(current)
    /\ ~has_two(current)
    /\ LET p == IF is_utf8_character_greater THEN pick_top_half(current)
                ELSE pick_bottom_half(current)
       IN  IF ForTop THEN upper_' = p /\ lower_' = narrowed_lower
           ELSE lower_' = p /\ UNCHANGED upper_
    /\ UNCHANGED <<inputs, all_top_, all_bottom_, bottom_candidate_, depth_, searching,
                   key_checked>>

SearchNext == CheckShortItem \/ CheckLast \/ CheckTwo \/ CheckCenter

-----------------------------------------------------------------------------
Matches == {i \in 1 .. Len(list) : StartsWith(list[i], query)}

LongestPrefix ==
    CHOOSE n \in 0 .. Len(query) :
        /\ \E i \in 1 .. Len(list) : StartsWith(list[i], SubSeq(query, 1, n))
        /\ \A i \in 1 .. Len(list) : n < Len(query) => ~StartsWith(list[i], SubSeq(query, 1, n + 1))

\* The search finds the first of the items that begin with the query.  If there are none,
\* then it ends at an item that begins with as much of the query as any item does.  This
\* is about searches that are not stopped by an assertion (see KeyIsValid).
FindsFirstMatch ==
    IsOver /\ key_checked =>
        IF Matches # {}
        THEN /\ searching = "FOUND_MATCH"
             /\ upper_.top + 1 \in Matches
             /\ \A i \in Matches : upper_.top + 1 <= i
        ELSE /\ searching = "FOUND_APPROXIMATE"
             /\ StartsWith(list[upper_.top + 1], SubSeq(query, 1, LongestPrefix))

\* A character is only ever taken from an item which is long enough, as asserted by
\* ComparedString::get_char_at().
KeyIsValid == key_checked
=============================================================================
