----------------------------- MODULE CacheSegment -----------------------------
(***************************************************************************)
(* Segments of lists (List::Segment): a start line and a number of lines,  *)
(* and how two of them overlap.  The view of a list and the part of it     *)
(* which is held in RAM are segments; what is loaded from the list broker  *)
(* is computed from their intersection.                                    *)
(***************************************************************************)
EXTENDS Integers

Segment(line, count) == [line |-> line, count |-> count]

SegmentIntersection == {"DISJOINT", "EQUAL", "TOP_REMAINS", "BOTTOM_REMAINS",
                        "CENTER_REMAINS", "INCLUDED_IN_OTHER"}

beyond(s) == s.line + s.count

\* The lines a segment stands for.
Lines(s) == s.line .. beyond(s) - 1

contains_line(s, n) == n >= s.line /\ n < beyond(s)

\* An empty segment is a mark at its line.
empty_intersection(s, t) ==
    [kind |-> IF s.count = 0 /\ t.count = 0
              THEN IF s.line = t.line THEN "EQUAL" ELSE "DISJOINT"
              ELSE IF s.count = 0
              THEN IF contains_line(t, s.line) THEN "INCLUDED_IN_OTHER" ELSE "DISJOINT"
              ELSE IF contains_line(s, t.line) THEN "CENTER_REMAINS" ELSE "DISJOINT",
     size |-> 0]

same_start_intersection(s, t) ==
    IF s.count < t.count THEN [kind |-> "INCLUDED_IN_OTHER", size |-> s.count]
    ELSE IF s.count > t.count THEN [kind |-> "TOP_REMAINS", size |-> t.count]
    ELSE [kind |-> "EQUAL", size |-> s.count]

\* Segment s starts before segment t.
earlier_start_intersection(s, t) ==
    IF beyond(s) <= t.line THEN [kind |-> "DISJOINT", size |-> 0]
    ELSE IF beyond(s) <= beyond(t)
    THEN [kind |-> "BOTTOM_REMAINS", size |-> beyond(s) - t.line]
    ELSE [kind |-> "CENTER_REMAINS", size |-> t.count]

\* Segment s starts after segment t.
later_start_intersection(s, t) ==
    IF beyond(t) <= s.line THEN [kind |-> "DISJOINT", size |-> 0]
    ELSE IF beyond(t) < beyond(s)
    THEN [kind |-> "TOP_REMAINS", size |-> beyond(t) - s.line]
    ELSE [kind |-> "INCLUDED_IN_OTHER", size |-> s.count]

\* What remains of segment s if it is intersected with segment t.
intersection(s, t) ==
    IF s.count = 0 \/ t.count = 0 THEN empty_intersection(s, t)
    ELSE IF s.line = t.line THEN same_start_intersection(s, t)
    ELSE IF s.line < t.line THEN earlier_start_intersection(s, t)
    ELSE later_start_intersection(s, t)

=============================================================================
