------------------------------ MODULE MCDBusList ------------------------------
EXTENDS DBusList, TLC

CONSTANTS A, C, main_view

SizeDef == (A :> 3 @@ C :> 2)
ViewSizeDef == main_view :> 2
ReplacementsDef == {<<A, C>>}
Symmetry == Permutations(Fetches) \cup Permutations(Queries)

\* The state without what has no effect any more: which list a query was for that has been
\* reported, and which lines a fetcher loads that is not the one of its viewport.
LiveQueries ==
    [q \in Queries |->
        IF enter[q] # None /\ enter[q].reported
        THEN [enter[q] EXCEPT !.list = NoList, !.line = 0] ELSE enter[q]]
LiveFetches ==
    [f \in Fetches |->
        IF fetch[f] # None /\ ~IsCurrent(f)
        THEN [fetch[f] EXCEPT !.list = NoList, !.segment = Segment(0, 0),
                              !.state = IF fetch[f].deferred THEN None ELSE @,
                              !.was_aborted_after_done = FALSE]
        ELSE fetch[f]]
LiveState == <<list_vars, viewport, fetcher, LiveFetches, query_, LiveQueries, reload, history>>
=============================================================================
