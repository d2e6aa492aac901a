---------------------------- MODULE Lists_proofs ----------------------------
(***************************************************************************)
(* What is held of a list in RAM is the list, for lists, viewports and     *)
(* numbers of calls of any size, and the query for the list to be entered  *)
(* is always going to be answered.                                         *)
(*                                                                         *)
(* The first step of a jump of a file browser to a list context is left    *)
(* when its call is answered or canceled, and only then, for any number of *)
(* contexts and whatever gets in the way of the jump.                      *)
(***************************************************************************)
EXTENDS DBusList, BrowserNavigation, SequenceTheorems, WellFoundedInduction, TLAPS

(***************************************************************************)
(* Queries, if no list is replaced while it is being entered: a query is   *)
(* told of its own call, and those which wait for an answer are canceled,  *)
(* except for the current one.                                             *)
(***************************************************************************)
ReloadOK == reload \in Lists \cup {NoList}

QueriesOK ==
    /\ query_ \in Queries \cup {None}
    /\ enter \in [Queries -> {None} \cup QueryRecords]
    /\ query_ # None => /\ enter[query_] \in QueryRecords
                        /\ enter[query_].in_glib /\ ~enter[query_].reported
                        /\ enter[query_].has_call /\ enter[query_].callback_for = query_
    /\ \A c \in Queries : enter[c] # None =>
          /\ enter[c].callback_for = c
          /\ enter[c].in_glib /\ ~enter[c].reported => c = query_ \/ enter[c].cancelled

(***************************************************************************)
(* Items in RAM                                                            *)
(***************************************************************************)
Items == [list : Lists, line : Nat] \cup {NoItem}
ViewportRecords == [view_segment : Segments, items_segment : Segments, items : Seq(Items)]

\* The number of lines a viewport shows.
Shown(v) == IF number_of_items_ < ViewSize[v] THEN number_of_items_ ELSE ViewSize[v]

\* The items of n lines are in RAM or none are, and each is the item of its line.
IsRight(vp, n, owners) ==
    /\ vp.items_segment.count \in {0, n}
    /\ Len(vp.items) = vp.items_segment.count
    /\ \A i \in 1 .. Len(vp.items) :
          vp.items[i] \in [list : owners, line : {vp.items_segment.line + i - 1}]

\* A view of n lines, none of them beyond the end of the list, some of which are missing.
IsMissed(vp, n, total) ==
    /\ n > 0 /\ vp.view_segment.count = n /\ beyond(vp.view_segment) <= total
    /\ compute_overlap(vp, vp.view_segment) # "CACHED"

\* Whatever is still going to be reported for a call, there are no lines to be used.
IsDoomed(call) ==
    \/ call.was_aborted_after_done
    \/ call.state \in {"ABORTED_BY_LIST_BROKER", "FAILED"}
    \/ call.state \in {"ABORTING", "READY_TO_FETCH"} /\ ~call.has_cookie

CallIsConsistent(call) ==
    /\ call.state = "ABORTING" => ~call.has_cookie
    /\ call.state \in {"ABORTED_BY_LIST_BROKER", "FAILED", "RESULT_FETCHED"} => call.signalled

CacheTypes ==
    /\ list_id_ \in Lists \cup {NoList} /\ number_of_items_ \in Nat
    /\ kin \in SUBSET Lists
    /\ list_id_ # NoList => list_id_ \in kin /\ number_of_items_ < UINT_MAX
    /\ viewport \in [Viewports -> ViewportRecords]
    /\ fetcher \in [Viewports -> Fetches \cup {Unknown, None, Dead}]
    /\ fetch \in [Fetches -> FetchRecords \cup {None}]

CallsOK ==
    /\ \A f \in Fetches : fetch[f] # None => CallIsConsistent(fetch[f])
    /\ \A v \in Viewports : Loading(v) => /\ fetch[fetcher[v]] \in FetchRecords
                                          /\ fetch[fetcher[v]].viewport = v

ItemsOK ==
    list_id_ # NoList =>
        \A v \in Viewports \ spoiled :
            fetcher[v] # Unknown => IsRight(viewport[v], Shown(v), kin)

\* The lines being loaded are those which the view misses, unless it has been moved away or
\* another list was entered; if the list is removed meanwhile, there are no others.
LoadingOK ==
    \A v \in Viewports \ (strayed \cup spoiled) : Loading(v) /\ ~IsDoomed(fetch[fetcher[v]]) =>
        IF list_id_ = NoList THEN viewport[v].items = <<>>
        ELSE /\ fetch[fetcher[v]].list \in kin
             /\ Size[fetch[fetcher[v]].list] = number_of_items_
             /\ fetch[fetcher[v]].segment = get_missing_segment(viewport[v])
             /\ IsMissed(viewport[v], Shown(v), number_of_items_)

CacheInv == CacheTypes /\ CallsOK /\ ItemsOK /\ LoadingOK

-----------------------------------------------------------------------------
(***************************************************************************)
(* Queries                                                                 *)
(***************************************************************************)
(* No object is deleted that GLib knows, and none is changed.              *)
LEMMA ReapedDoes ==
    ASSUME NEW E \in [Queries -> {None} \cup QueryRecords], NEW current
    PROVE  /\ Reaped(E, current) \in [Queries -> {None} \cup QueryRecords]
           /\ \A c \in Queries :
                  /\ Reaped(E, current)[c] # None => Reaped(E, current)[c] = E[c]
                  /\ E[c] # None /\ (c = current \/ E[c].in_glib) => Reaped(E, current)[c] = E[c]
                  /\ E[c] = None => Reaped(E, current)[c] = None
                  /\ \A p \in Queries :
                         E[p] # None /\ (p = current \/ E[p].in_glib) /\ E[p].callback_for = c =>
                             Reaped(E, current)[c] = E[c]
<1> DEFINE R == Reaped(E, current)
           InUse(q) == E[q] # None /\ (E[q].in_glib \/ q = current)
<1>1. \A c \in Queries :
          R[c] = IF InUse(c) \/ \E p \in Queries : InUse(p) /\ E[p].callback_for = c
                 THEN E[c] ELSE None
  BY DEF Reaped
<1>2. R = [c \in Queries |-> R[c]]
  BY DEF Reaped
<1> HIDE DEF R
<1>3. \A c \in Queries : R[c] \in {E[c], None}
  BY <1>1
<1> QED
  BY <1>1, <1>2, <1>3 DEF R

(* One query is changed, the others are not.                               *)
LEMMA QueryUpdate ==
    ASSUME NEW E \in [Queries -> {None} \cup QueryRecords], NEW q \in Queries,
           NEW k \in QueryRecords, NEW F, F = [E EXCEPT ![q] = k]
    PROVE  /\ F \in [Queries -> {None} \cup QueryRecords] /\ F[q] = k
           /\ \A c \in Queries : c # q => F[c] = E[c]
OBVIOUS

(* Canceling the current query: nothing but that query changes, which has  *)
(* been canceled then.                                                     *)
LEMMA CanceledDoes ==
    ASSUME QueriesOK
    PROVE  LET E == canceled_sync(enter, query_)
           IN  /\ E \in [Queries -> {None} \cup QueryRecords]
               /\ \A c \in Queries : c # query_ => E[c] = enter[c]
               /\ query_ # None => /\ E[query_].cancelled /\ E[query_].callback_for = query_
                                   /\ E[query_].in_glib
<1> DEFINE E == canceled_sync(enter, query_)
<1>1. CASE query_ = None
  <2>1. E = enter
    BY <1>1 DEF canceled_sync
  <2> QED
    BY <1>1, <2>1 DEF QueriesOK
<1>2. CASE query_ # None /\ enter[query_].cancelled
  <2>1. E = enter
    BY <1>2 DEF canceled_sync
  <2> QED
    BY <1>2, <2>1 DEF QueriesOK
<1>3. CASE query_ # None /\ ~enter[query_].cancelled
  <2>1. /\ query_ \in Queries /\ enter[query_] \in QueryRecords /\ enter[query_].has_call
        /\ enter[query_].in_glib /\ enter[query_].callback_for = query_
        /\ enter \in [Queries -> {None} \cup QueryRecords]
    BY <1>3 DEF QueriesOK
  <2>2. E = [enter EXCEPT ![query_].state = "CANCELED", ![query_].cancelled = TRUE,
                          ![query_].has_call = FALSE, ![query_].reported = TRUE]
    BY <1>3, <2>1 DEF canceled_sync
  <2> DEFINE r == enter[query_]
             k == [r EXCEPT !.state = "CANCELED", !.cancelled = TRUE, !.has_call = FALSE,
                            !.reported = TRUE]
  <2>3. k \in QueryRecords /\ k.cancelled /\ k.in_glib /\ k.callback_for = query_
    BY <2>1 DEF QueryRecords
  <2>4. E = [enter EXCEPT ![query_] = k]
    BY <2>2
  <2> HIDE DEF E, k
  <2>5. /\ E \in [Queries -> {None} \cup QueryRecords] /\ E[query_] = k
        /\ \A c \in Queries : c # query_ => E[c] = enter[c]
    BY <2>1, <2>3, <2>4, QueryUpdate
  <2> QED
    BY <2>3, <2>5 DEF E
<1> QED
  BY <1>1, <1>2, <1>3

LEMMA QueriesAfterEntering ==
    ASSUME QueriesOK, NEW l \in Lists, NEW line \in Nat, NEW v \in Viewports, NEW q \in Queries,
           EnterListAsync(l, line, v, q)
    PROVE  QueriesOK'
<1> DEFINE E == canceled_sync(enter, query_)
           k == new_query(l, line, v, q)
           F == [E EXCEPT ![q] = k]
<1>1. enter[q] = None /\ query_' = q /\ enter' = Reaped(F, q)
  BY DEF EnterListAsync
<1>2. /\ E \in [Queries -> {None} \cup QueryRecords]
      /\ \A c \in Queries : c # query_ => E[c] = enter[c]
      /\ query_ # None => E[query_].cancelled /\ E[query_].callback_for = query_
  BY CanceledDoes
<1>3. /\ k \in QueryRecords /\ k.in_glib /\ ~k.reported /\ k.has_call /\ k.callback_for = q
  BY DEF new_query, QueryRecords
<1> HIDE DEF E, k
<1>4. /\ F \in [Queries -> {None} \cup QueryRecords] /\ F[q] = k
      /\ \A c \in Queries : c # q => F[c] = E[c]
  BY <1>2, <1>3
<1> HIDE DEF F
<1>5. /\ enter' \in [Queries -> {None} \cup QueryRecords]
      /\ \A c \in Queries : /\ enter'[c] # None => enter'[c] = F[c]
                            /\ F[c] # None /\ (c = q \/ F[c].in_glib) => enter'[c] = F[c]
                            /\ F[c] = None => enter'[c] = None
  BY <1>1, <1>4, ReapedDoes
<1>6. enter'[q] = k
  BY <1>4, <1>5
<1>7. ASSUME NEW c \in Queries, enter'[c] # None
      PROVE  /\ enter'[c].callback_for = c
             /\ enter'[c].in_glib /\ ~enter'[c].reported => c = q \/ enter'[c].cancelled
  <2>1. CASE c = q
    BY <1>3, <1>6, <2>1
  <2>2. CASE c # q /\ c = query_
    <3>1. c # None
      BY ListAssumption
    <3> QED
      BY <1>2, <1>4, <1>5, <1>7, <2>2, <3>1
  <2>3. CASE c # q /\ c # query_
    <3>1. enter'[c] = enter[c]
      BY <1>2, <1>4, <1>5, <1>7, <2>3
    <3> QED
      BY <1>7, <2>3, <3>1 DEF QueriesOK
  <2> QED
    BY <2>1, <2>2, <2>3
<1> QED
  BY <1>1, <1>3, <1>5, <1>6, <1>7 DEF QueriesOK

LEMMA QueriesAfterAnswer ==
    ASSUME QueriesOK, NEW c \in Queries, NEW answer \in Answers, EnterReady(c, answer)
    PROVE  QueriesOK'
<1> DEFINE state == IF ~enter[c].cancelled THEN answer
                    ELSE IF enter[c].restart THEN "RESTARTED" ELSE "CANCELED"
           E == [enter EXCEPT ![c].state = state, ![c].in_glib = FALSE, ![c].reported = TRUE]
           F == [E EXCEPT ![c].has_call = @ /\ E[c].state = "READY"]
<1>1. /\ enter[c] # None /\ enter[c] \in QueryRecords /\ enter[c].callback_for = c
      /\ enter \in [Queries -> {None} \cup QueryRecords]
  BY DEF EnterReady, QueriesOK
<1>2. \/ enter[c].reported /\ enter' = Reaped(E, query_) /\ query_' = query_
      \/ ~enter[c].reported /\ query_' = query_left(c) /\ enter' = Reaped(F, query_')
  BY <1>1 DEF EnterReady
<1>3. state \in {"READY", "FAILED", "CANCELED", "RESTARTED"}
  BY DEF Answers
<1> HIDE DEF state
<1>4. /\ E \in [Queries -> {None} \cup QueryRecords] /\ E[c] \in QueryRecords
      /\ ~E[c].in_glib /\ E[c].callback_for = c
      /\ \A d \in Queries : d # c => E[d] = enter[d]
  <2> DEFINE r == enter[c]
             k == [r EXCEPT !.state = state, !.in_glib = FALSE, !.reported = TRUE]
  <2>1. k \in QueryRecords /\ ~k.in_glib /\ k.callback_for = c
    BY <1>1, <1>3 DEF QueryRecords
  <2>2. E = [enter EXCEPT ![c] = k]
    OBVIOUS
  <2> HIDE DEF E, k
  <2> QED
    BY <1>1, <2>1, <2>2, QueryUpdate
<1> HIDE DEF E
<1>5. /\ F \in [Queries -> {None} \cup QueryRecords]
      /\ ~F[c].in_glib /\ F[c].callback_for = c
      /\ \A d \in Queries : d # c => F[d] = enter[d]
  <2> DEFINE r == E[c]
             b == r.has_call /\ r.state = "READY"
             k == [r EXCEPT !.has_call = b]
  <2>1. k \in QueryRecords /\ ~k.in_glib /\ k.callback_for = c
    BY <1>4 DEF QueryRecords
  <2>2. F = [E EXCEPT ![c] = k]
    OBVIOUS
  <2> HIDE DEF F, k
  <2> QED
    BY <1>4, <2>1, <2>2, QueryUpdate
<1> HIDE DEF F
<1>6. PICK G \in {E, F} : enter' = Reaped(G, query_')
  BY <1>2
<1>7. /\ G \in [Queries -> {None} \cup QueryRecords]
      /\ ~G[c].in_glib /\ G[c].callback_for = c
      /\ \A d \in Queries : d # c => G[d] = enter[d]
  BY <1>4, <1>5
<1>8. /\ enter' \in [Queries -> {None} \cup QueryRecords]
      /\ \A d \in Queries :
             /\ enter'[d] # None => enter'[d] = G[d]
             /\ G[d] # None /\ (d = query_' \/ G[d].in_glib) => enter'[d] = G[d]
             /\ G[d] = None => enter'[d] = None
  BY <1>6, <1>7, ReapedDoes
<1>9. query_' \in {query_, None} /\ query_' # c
  <2>1. CASE enter[c].reported /\ query_' = query_
    BY <1>1, <2>1, ListAssumption DEF QueriesOK
  <2>2. CASE query_' = query_left(c)
    BY <2>2, ListAssumption DEF query_left
  <2> QED
    BY <1>2, <2>1, <2>2
<1>10. ASSUME query_' # None
       PROVE  enter'[query_'] = enter[query_'] /\ query_' = query_ /\ query_ \in Queries
  BY <1>7, <1>8, <1>9, <1>10 DEF QueriesOK
<1>11. ASSUME NEW d \in Queries, enter'[d] # None
       PROVE  /\ enter'[d].callback_for = d
              /\ enter'[d].in_glib /\ ~enter'[d].reported => d = query_' \/ enter'[d].cancelled
  <2>1. CASE d = c
    BY <1>7, <1>8, <1>11, <2>1
  <2>2. CASE d # c
    <3>1. enter'[d] = enter[d] /\ enter[d] # None
      BY <1>7, <1>8, <1>11, <2>2
    <3>2. query_' = query_left(c) \/ query_' = query_
      BY <1>2
    <3>3. d = query_ => d = query_'
      BY <2>2, <3>2 DEF query_left
    <3> QED
      BY <1>11, <3>1, <3>3 DEF QueriesOK
  <2> QED
    BY <2>1, <2>2
<1> QED
  <2>1. query_' \in Queries \cup {None}
    BY <1>9 DEF QueriesOK
  <2>2. query_' # None =>
            /\ enter'[query_'] \in QueryRecords
            /\ enter'[query_'].in_glib /\ ~enter'[query_'].reported
            /\ enter'[query_'].has_call /\ enter'[query_'].callback_for = query_'
    BY <1>10 DEF QueriesOK
  <2> QED
    BY <1>8, <1>11, <2>1, <2>2 DEF QueriesOK

LEMMA QueriesAfterInvalidation ==
    ASSUME ~EnteredListsChange, QueriesOK, NEW l \in Lists, NEW r \in Lists \cup {NoList},
           NEW q \in Queries, restart_if_necessary(l, r, q)
    PROVE  QueriesOK'
<1>1. CASE UNCHANGED enter_vars
  BY <1>1 DEF enter_vars, QueriesOK
<1>2. CASE query_ # None /\ query_' = query_ /\ enter[query_].list = l
           /\ enter' = [enter EXCEPT ![query_].cancelled = TRUE,
                                     ![query_].restart = IF enter[query_].cancelled THEN @
                                                         ELSE r # NoList]
  <2> DEFINE k == enter[query_]
             b == IF k.cancelled THEN k.restart ELSE r # NoList
             m == [k EXCEPT !.cancelled = TRUE, !.restart = b]
  <2>1. /\ query_ \in Queries /\ k \in QueryRecords /\ k.in_glib /\ ~k.reported /\ k.has_call
        /\ k.callback_for = query_ /\ enter \in [Queries -> {None} \cup QueryRecords]
    BY <1>2 DEF QueriesOK
  <2>2. b \in BOOLEAN
    BY <2>1 DEF QueryRecords
  <2>3. enter' = [enter EXCEPT ![query_] = m]
    BY <1>2
  <2> HIDE DEF b
  <2>4. /\ m \in QueryRecords /\ m.in_glib /\ ~m.reported /\ m.has_call /\ m.cancelled
        /\ m.callback_for = query_
    BY <2>1, <2>2 DEF QueryRecords
  <2> HIDE DEF k, m
  <2>5. /\ enter' \in [Queries -> {None} \cup QueryRecords] /\ enter'[query_] = m
        /\ \A c \in Queries : c # query_ => enter'[c] = enter[c]
    BY <2>1, <2>3, <2>4
  <2> QED
    BY <1>2, <2>1, <2>4, <2>5 DEF QueriesOK
<1> QED
  BY <1>1, <1>2 DEF restart_if_necessary

LEMMA QueriesAfterCancelAll ==
    ASSUME QueriesOK, CancelAll
    PROVE  QueriesOK'
<1> DEFINE E == canceled_sync(enter, query_)
<1>1. /\ enter' = Reaped(E, query_')
      /\ query_' = IF query_ = None \/ ~enter[query_].has_call \/ enter[query_].cancelled
                   THEN query_ ELSE None
  BY DEF CancelAll
<1>2. /\ E \in [Queries -> {None} \cup QueryRecords]
      /\ \A c \in Queries : c # query_ => E[c] = enter[c]
      /\ query_ # None => /\ E[query_].cancelled /\ E[query_].callback_for = query_
                          /\ E[query_].in_glib
  BY CanceledDoes
<1>3. query_ # None /\ enter[query_].cancelled => E = enter
  BY DEF canceled_sync
<1> HIDE DEF E
<1>4. /\ enter' \in [Queries -> {None} \cup QueryRecords]
      /\ \A c \in Queries :
             /\ enter'[c] # None => enter'[c] = E[c]
             /\ E[c] # None /\ (c = query_' \/ E[c].in_glib) => enter'[c] = E[c]
             /\ E[c] = None => enter'[c] = None
  BY <1>1, <1>2, ReapedDoes
<1>5. ASSUME NEW c \in Queries, enter'[c] # None
      PROVE  /\ enter'[c].callback_for = c
             /\ enter'[c].in_glib /\ ~enter'[c].reported => enter'[c].cancelled
  <2>1. CASE c = query_
    <3>1. query_ # None
      BY <2>1, ListAssumption
    <3> QED
      BY <1>2, <1>4, <1>5, <2>1, <3>1
  <2>2. CASE c # query_
    BY <1>2, <1>4, <1>5, <2>2 DEF QueriesOK
  <2> QED
    BY <2>1, <2>2
<1>6. ASSUME query_' # None
      PROVE  query_' = query_ /\ query_ \in Queries /\ enter'[query_] = enter[query_]
  <2>1. /\ query_' = query_ /\ query_ # None /\ enter[query_].has_call
        /\ query_ \in Queries /\ enter[query_].in_glib
    BY <1>1, <1>6 DEF QueriesOK
  <2>2. E = enter
    BY <1>1, <1>3, <1>6, <2>1
  <2> QED
    BY <1>4, <2>1, <2>2
<1> QED
  BY <1>4, <1>5, <1>6 DEF QueriesOK

LEMMA QueriesStep ==
    ASSUME ~EnteredListsChange, ReloadOK, QueriesOK, [ListNext]_vars
    PROVE  ReloadOK' /\ QueriesOK'
<1>1. ASSUME NEW l \in Lists, NEW v \in Viewports, NEW q \in Queries, EnterList(l, 1, v, q)
      PROVE  ReloadOK' /\ QueriesOK'
  <2>1. EnterListAsync(l, 1, v, q) /\ reload' = reload
    BY <1>1, Zenon DEF EnterList
  <2> QED
    BY <2>1, QueriesAfterEntering DEF ReloadOK
<1>2. ASSUME NEW v \in Viewports, NEW q \in Queries, ReloadList(0, v, q)
      PROVE  ReloadOK' /\ QueriesOK'
  <2>1. EnterListAsync(reload, 0, v, q) /\ reload # NoList /\ reload' = NoList
    BY <1>2, Zenon DEF ReloadList
  <2>2. reload \in Lists
    BY <2>1 DEF ReloadOK
  <2> QED
    BY <2>1, <2>2, QueriesAfterEntering DEF ReloadOK
<1>3. ASSUME NEW c \in Queries, NEW answer \in Answers, EnterReady(c, answer)
      PROVE  ReloadOK' /\ QueriesOK'
  <2>1. reload' = reload
    BY <1>3, Zenon DEF EnterReady
  <2> QED
    BY <1>3, <2>1, QueriesAfterAnswer DEF ReloadOK
<1>4. ASSUME NEW l \in Lists, NEW r \in Lists \cup {NoList}, NEW q \in Queries,
             ListInvalidate(l, r, q)
      PROVE  ReloadOK' /\ QueriesOK'
  <2>1. restart_if_necessary(l, r, q) /\ reload' \in {reload, r}
    BY <1>4 DEF ListInvalidate
  <2> QED
    BY <2>1, QueriesAfterInvalidation DEF ReloadOK
<1>5. CASE CancelAll
  <2>1. reload' = reload
    BY <1>5, Zenon DEF CancelAll
  <2> QED
    BY <1>5, <2>1, QueriesAfterCancelAll DEF ReloadOK
<1>6. ASSUME UNCHANGED enter_vars, reload' = reload
      PROVE  ReloadOK' /\ QueriesOK'
  BY <1>6 DEF enter_vars, QueriesOK, ReloadOK
<1>7. ASSUME NEW v \in Viewports, NEW line \in AllLines, NEW f \in Fetches,
             NEW r \in {"WAIT_FOR_NOTIFICATION", "RESULT_FETCHED", "FAILED"},
             Hint(v, line, f, r)
      PROVE  ReloadOK' /\ QueriesOK'
  <2>1. UNCHANGED enter_vars /\ reload' = reload
    BY <1>7, Zenon DEF Hint
  <2> QED
    BY <1>6, <2>1
<1>8. ASSUME NEW v \in Viewports, NEW line \in AllLines, GetItem(v, line)
      PROVE  ReloadOK' /\ QueriesOK'
  BY <1>6, <1>8, Zenon DEF GetItem
<1>9. ASSUME NEW f \in Fetches, NEW a \in BOOLEAN, Signal(f, a)
      PROVE  ReloadOK' /\ QueriesOK'
  BY <1>6, <1>9, Zenon DEF Signal
<1>10. ASSUME NEW f \in Fetches, NEW e \in {"RESULT_FETCHED", "FAILED"}, Fetch(f, e)
       PROVE  ReloadOK' /\ QueriesOK'
  BY <1>6, <1>10, Zenon DEF Fetch
<1>11. ASSUME NEW f \in Fetches, Done(f)
       PROVE  ReloadOK' /\ QueriesOK'
  <2>1. UNCHANGED enter_vars /\ reload' = reload
    BY <1>11, Zenon DEF Done
  <2> QED
    BY <1>6, <2>1
<1>12. CASE UNCHANGED vars
  BY <1>6, <1>12 DEF vars
<1> QED
  BY <1>1, <1>2, <1>3, <1>4, <1>5, <1>7, <1>8, <1>9, <1>10, <1>11, <1>12 DEF ListNext

THEOREM QueriesHold ==
    ASSUME ~EnteredListsChange
    PROVE  Spec => [](ReloadOK /\ QueriesOK)
<1>1. ListInit => ReloadOK /\ QueriesOK
  BY DEF ListInit, QueriesOK, ReloadOK
<1>2. ReloadOK /\ QueriesOK /\ [ListNext]_vars => ReloadOK' /\ QueriesOK'
  BY QueriesStep
<1> QED
  BY <1>1, <1>2, PTL DEF Spec

(***************************************************************************)
(* While there is a query for the list to be entered, its answer is still  *)
(* to come and will be reported to it: List::DBusList::enter_list_async(), *)
(* for any number of queries, canceled, answered and replaced by others in *)
(* any order, if no list is replaced while it is being entered.            *)
(***************************************************************************)
THEOREM EveryQueryIsAnswered ==
    ASSUME ~EnteredListsChange
    PROVE  Spec => []AnswerForCurrentQuery
<1>1. QueriesOK => AnswerForCurrentQuery
  BY DEF QueriesOK, AnswerForCurrentQuery
<1> QED
  BY <1>1, QueriesHold, PTL

-----------------------------------------------------------------------------
(***************************************************************************)
(* What holds of the queries even if lists are replaced while they are     *)
(* being entered.                                                          *)
(***************************************************************************)
QueryTypes ==
    /\ reload \in Lists \cup {NoList}
    /\ query_ \in Queries \cup {None}
    /\ enter \in [Queries -> {None} \cup QueryRecords]
    /\ query_ # None => enter[query_] # None
    /\ \A c \in Queries : enter[c] # None /\ (enter[c].in_glib \/ c = query_) =>
           enter[enter[c].callback_for] # None

\* The queries in F are those in E, some of which may have been answered or canceled.
Refines(F, E) ==
    /\ F \in [Queries -> {None} \cup QueryRecords]
    /\ \A c \in Queries :
          /\ F[c] = None <=> E[c] = None
          /\ F[c] # None /\ F[c].in_glib => E[c].in_glib
          /\ F[c] # None => F[c].callback_for = E[c].callback_for

(* Whoever is told of an answer that is still to come is kept.             *)
LEMMA TypesOfReaped ==
    ASSUME NEW E \in [Queries -> {None} \cup QueryRecords],
           query_' \in Queries \cup {None}, query_' # None => E[query_'] # None,
           \A c \in Queries : E[c] # None /\ (E[c].in_glib \/ c = query_') =>
               E[E[c].callback_for] # None,
           enter' = Reaped(E, query_'), reload' \in Lists \cup {NoList}
    PROVE  QueryTypes'
<1>1. /\ enter' \in [Queries -> {None} \cup QueryRecords]
      /\ \A c \in Queries :
             /\ enter'[c] # None => enter'[c] = E[c]
             /\ E[c] # None /\ (c = query_' \/ E[c].in_glib) => enter'[c] = E[c]
             /\ \A p \in Queries :
                    E[p] # None /\ (p = query_' \/ E[p].in_glib) /\ E[p].callback_for = c =>
                        enter'[c] = E[c]
  BY ReapedDoes
<1>2. ASSUME NEW c \in Queries, enter'[c] # None, enter'[c].in_glib \/ c = query_'
      PROVE  enter'[enter'[c].callback_for] # None
  <2>1. enter'[c] = E[c] /\ E[c] \in QueryRecords
    BY <1>1, <1>2
  <2>2. E[c].callback_for \in Queries
    BY <2>1 DEF QueryRecords
  <2>3. E[E[c].callback_for] # None
    BY <1>2, <2>1
  <2> QED
    BY <1>1, <1>2, <2>1, <2>2, <2>3
<1> QED
  BY <1>1, <1>2 DEF QueryTypes

(* Changing the flags of a query, but neither whom it tells nor that it is *)
(* with GLib.                                                              *)
LEMMA RefinesUpdate ==
    ASSUME NEW E \in [Queries -> {None} \cup QueryRecords], NEW q \in Queries, E[q] # None,
           NEW k \in QueryRecords, k.callback_for = E[q].callback_for,
           k.in_glib => E[q].in_glib
    PROVE  Refines([E EXCEPT ![q] = k], E)
<1> DEFINE F == [E EXCEPT ![q] = k]
<1>1. /\ F \in [Queries -> {None} \cup QueryRecords] /\ F[q] = k
      /\ \A c \in Queries : c # q => F[c] = E[c]
  BY QueryUpdate
<1> HIDE DEF F
<1>2. k # None
  BY ListAssumption
<1>3. \A c \in Queries :
          /\ F[c] = None <=> E[c] = None
          /\ F[c] # None /\ F[c].in_glib => E[c].in_glib
          /\ F[c] # None => F[c].callback_for = E[c].callback_for
  BY <1>1, <1>2
<1>4. Refines(F, E)
  BY <1>1, <1>3 DEF Refines
<1> QED
  BY <1>4 DEF F

(* Canceling the current query changes its flags.                          *)
LEMMA CanceledRefines ==
    ASSUME QueryTypes
    PROVE  Refines(canceled_sync(enter, query_), enter)
<1> DEFINE E == canceled_sync(enter, query_)
<1>1. CASE query_ = None \/ ~enter[query_].has_call \/ enter[query_].cancelled
  <2>1. E = enter
    BY <1>1 DEF canceled_sync
  <2> QED
    BY <2>1 DEF QueryTypes, Refines
<1>2. CASE query_ # None /\ enter[query_].has_call /\ ~enter[query_].cancelled
  <2> DEFINE r == enter[query_]
             k == [r EXCEPT !.state = "CANCELED", !.cancelled = TRUE, !.has_call = FALSE,
                            !.reported = TRUE]
  <2>1. query_ \in Queries /\ r \in QueryRecords /\ r # None
        /\ enter \in [Queries -> {None} \cup QueryRecords]
    BY <1>2 DEF QueryTypes
  <2>2. E = [enter EXCEPT ![query_].state = "CANCELED", ![query_].cancelled = TRUE,
                          ![query_].has_call = FALSE, ![query_].reported = TRUE]
    BY <1>2 DEF canceled_sync
  <2>3. E = [enter EXCEPT ![query_] = k]
    BY <2>2
  <2>4. k \in QueryRecords /\ k.in_glib = r.in_glib /\ k.callback_for = r.callback_for
    BY <2>1 DEF QueryRecords
  <2> HIDE DEF E, k
  <2> QED
    BY <2>1, <2>3, <2>4, RefinesUpdate DEF E
<1> QED
  BY <1>1, <1>2

(* A new query.                                                            *)
LEMMA TypesAfterEntering ==
    ASSUME QueryTypes, NEW l \in Lists, NEW line \in Nat, NEW v \in Viewports, NEW q \in Queries,
           EnterListAsync(l, line, v, q), reload' \in Lists \cup {NoList}
    PROVE  QueryTypes'
<1> DEFINE E == canceled_sync(enter, query_)
           k == new_query(l, line, v, q)
           F == [E EXCEPT ![q] = k]
<1>1. enter[q] = None /\ query_' = q /\ enter' = Reaped(F, q)
  BY DEF EnterListAsync
<1>2. Refines(E, enter)
  BY CanceledRefines
<1>3. k \in QueryRecords /\ k # None /\ k.callback_for = q
  <2>1. k \in QueryRecords /\ k.callback_for = q
    BY DEF new_query, QueryRecords
  <2> QED
    BY <2>1, ListAssumption
<1> HIDE DEF E, k
<1>4. /\ F \in [Queries -> {None} \cup QueryRecords] /\ F[q] = k
      /\ \A c \in Queries : c # q => F[c] = E[c]
  BY <1>2, <1>3, QueryUpdate DEF Refines
<1> HIDE DEF F
<1>5. ASSUME NEW c \in Queries, F[c] # None, F[c].in_glib \/ c = q
      PROVE  F[F[c].callback_for] # None
  <2>1. CASE c = q
    BY <1>3, <1>4, <2>1
  <2>2. CASE c # q
    <3>1. /\ enter[c] # None /\ enter[c].in_glib /\ F[c] = E[c]
          /\ F[c].callback_for = enter[c].callback_for
      BY <1>2, <1>4, <1>5, <2>2 DEF Refines
    <3>2. enter[enter[c].callback_for] # None /\ enter[c] \in QueryRecords
      BY <3>1 DEF QueryTypes
    <3>3. enter[c].callback_for \in Queries
      BY <3>2 DEF QueryRecords
    <3>4. E[enter[c].callback_for] # None /\ enter[c].callback_for # q
      BY <1>1, <1>2, <3>2, <3>3 DEF Refines
    <3> QED
      BY <1>4, <3>1, <3>3, <3>4
  <2> QED
    BY <2>1, <2>2
<1> QED
  BY <1>1, <1>3, <1>4, <1>5, TypesOfReaped

(* A query whose call is done is left; the one that is told of it may be   *)
(* another one.                                                            *)
LEMMA TypesAfterAnswer ==
    ASSUME QueryTypes, NEW c \in Queries, NEW answer \in Answers, EnterReady(c, answer)
    PROVE  /\ QueryTypes'
           /\ \/ UNCHANGED <<list_vars, viewport, history>>
              \/ \E l \in Lists, line \in Nat, v \in Viewports :
                    /\ number_of_items_' = Size[l] /\ list_id_' = l /\ kin' = {l}
                    /\ viewport' = cleared_for(v, line)
                    /\ strayed' = {w \in Viewports : Loading(w)}
                    /\ spoiled' = unspoiled
<1> DEFINE r == enter[c]
           state == IF ~r.cancelled THEN answer ELSE IF r.restart THEN "RESTARTED" ELSE "CANCELED"
           k == [r EXCEPT !.state = state, !.in_glib = FALSE, !.reported = TRUE]
           q == r.callback_for
           E == [enter EXCEPT ![c].state = state, ![c].in_glib = FALSE, ![c].reported = TRUE]
           e == E[q]
           b == e.has_call /\ e.state = "READY"
           F == [E EXCEPT ![q].has_call = @ /\ E[q].state = "READY"]
<1>1. /\ r # None /\ r \in QueryRecords /\ r.in_glib /\ q \in Queries /\ enter[q] # None
      /\ enter \in [Queries -> {None} \cup QueryRecords]
      /\ query_ \in Queries \cup {None} /\ (query_ # None => enter[query_] # None)
      /\ reload \in Lists \cup {NoList}
  <2>1. /\ r # None /\ r \in QueryRecords /\ r.in_glib
        /\ enter \in [Queries -> {None} \cup QueryRecords]
    BY DEF QueryTypes, EnterReady
  <2>2. q \in Queries
    BY <2>1 DEF QueryRecords
  <2> QED
    BY <2>1, <2>2 DEF QueryTypes
<1>2. reload' = reload
  BY Zenon DEF EnterReady
<1>3. \/ /\ enter' = Reaped(E, query_) /\ query_' = query_
         /\ UNCHANGED <<list_vars, viewport, history>>
      \/ query_' = query_left(q) /\ handle_done(E, q) /\ enter' = Reaped(F, query_')
  BY DEF EnterReady
<1>4. state \in {"READY", "FAILED", "CANCELED", "RESTARTED"}
  BY DEF Answers
<1> HIDE DEF state
<1>5. k \in QueryRecords /\ ~k.in_glib /\ k.callback_for = q
  BY <1>1, <1>4 DEF QueryRecords
<1>6. E = [enter EXCEPT ![c] = k]
  OBVIOUS
<1> HIDE DEF E, k
<1>7. Refines(E, enter)
  BY <1>1, <1>5, <1>6, RefinesUpdate DEF r, q
<1>8. e \in QueryRecords /\ e # None /\ e.callback_for = enter[q].callback_for
      /\ E \in [Queries -> {None} \cup QueryRecords]
  BY <1>1, <1>7 DEF Refines
<1> DEFINE m == [e EXCEPT !.has_call = b]
<1>9. Refines(F, E)
  <2>1. b \in BOOLEAN
    BY <1>8 DEF QueryRecords
  <2>2. F = [E EXCEPT ![q] = m]
    OBVIOUS
  <2> HIDE DEF b, F, e
  <2>3. m \in QueryRecords /\ m.in_glib = e.in_glib /\ m.callback_for = e.callback_for
    BY <1>8, <2>1 DEF QueryRecords
  <2> HIDE DEF m, q
  <2> QED
    BY <1>1, <1>8, <2>2, <2>3, RefinesUpdate DEF e
<1> HIDE DEF F
<1>10. ASSUME NEW G \in {E, F}, NEW d \in Queries, G[d] # None, G[d].in_glib \/ d = query_
       PROVE  G[G[d].callback_for] # None
  <2>1. /\ enter[d] # None /\ (enter[d].in_glib \/ d = query_)
        /\ G[d].callback_for = enter[d].callback_for
        /\ \A p \in Queries : enter[p] # None => G[p] # None
    BY <1>7, <1>9, <1>10 DEF Refines
  <2>2. enter[enter[d].callback_for] # None /\ enter[d] \in QueryRecords
    BY <2>1 DEF QueryTypes
  <2>3. enter[d].callback_for \in Queries
    BY <2>2 DEF QueryRecords
  <2> QED
    BY <2>1, <2>2, <2>3
<1>11. ASSUME NEW G \in {E, F}, enter' = Reaped(G, query_'), query_' \in {query_, None}
       PROVE  QueryTypes'
  <2>1. /\ G \in [Queries -> {None} \cup QueryRecords]
        /\ query_' \in Queries \cup {None} /\ (query_' # None => G[query_'] # None)
    BY <1>1, <1>7, <1>9, <1>11 DEF Refines
  <2>2. \A d \in Queries : G[d] # None /\ (G[d].in_glib \/ d = query_') =>
            G[G[d].callback_for] # None
    <3>1. \A d \in Queries : d # None
      BY ListAssumption
    <3> QED
      BY <1>10, <1>11, <3>1
  <2> QED
    BY <1>1, <1>2, <1>11, <2>1, <2>2, TypesOfReaped
<1>12. CASE /\ enter' = Reaped(E, query_) /\ query_' = query_
            /\ UNCHANGED <<list_vars, viewport, history>>
  BY <1>11, <1>12
<1>13. CASE query_' = query_left(q) /\ handle_done(E, q) /\ enter' = Reaped(F, query_')
  <2>1. QueryTypes'
    BY <1>11, <1>13 DEF query_left
  <2>2. CASE b
    <3>1. e.list \in Lists /\ e.line \in Nat /\ e.viewport \in Viewports
      BY <1>8 DEF QueryRecords
    <3>2. /\ number_of_items_' = Size[e.list] /\ list_id_' = e.list /\ kin' = {e.list}
          /\ viewport' = cleared_for(e.viewport, e.line)
          /\ strayed' = {w \in Viewports : Loading(w)} /\ spoiled' = unspoiled
      BY <1>13, <2>2 DEF handle_done
    <3> HIDE DEF e
    <3> QED
      BY <2>1, <3>1, <3>2
  <2>3. CASE ~b
    <3>1. UNCHANGED <<list_vars, viewport, history>>
      BY <1>13, <2>3 DEF handle_done
    <3> QED
      BY <2>1, <3>1
  <2> QED
    BY <2>2, <2>3
<1> QED
  BY <1>3, <1>12, <1>13

(* A list being entered that is removed or replaced.                       *)
LEMMA TypesAfterInvalidation ==
    ASSUME QueryTypes, NEW l \in Lists, NEW r \in Lists \cup {NoList}, NEW q \in Queries,
           restart_if_necessary(l, r, q), reload' \in Lists \cup {NoList}
    PROVE  QueryTypes'
<1>1. CASE UNCHANGED enter_vars
  BY <1>1 DEF enter_vars, QueryTypes
<1>2. CASE ~(query_ = None \/ ~enter[query_].has_call \/ enter[query_].list # l)
  <2> DEFINE o == enter[query_]
             b == IF o.cancelled THEN o.restart ELSE r # NoList
             m == [o EXCEPT !.cancelled = TRUE, !.restart = b]
             E == [enter EXCEPT ![query_].cancelled = TRUE,
                                ![query_].restart = IF o.cancelled THEN @ ELSE r # NoList]
             k == new_query(r, o.line, o.viewport, o.callback_for)
  <2>1. \/ enter' = E /\ query_' = query_
        \/ r # NoList /\ enter[q] = None /\ query_' = q /\ enter' = [E EXCEPT ![q] = k]
    BY <1>2 DEF restart_if_necessary
  <2>2. /\ query_ \in Queries /\ o # None /\ o \in QueryRecords
        /\ enter \in [Queries -> {None} \cup QueryRecords]
    BY <1>2 DEF QueryTypes
  <2>3. b \in BOOLEAN
    BY <2>2 DEF QueryRecords
  <2>4. E = [enter EXCEPT ![query_] = m]
    OBVIOUS
  <2> HIDE DEF b, E
  <2>5. m \in QueryRecords /\ m.in_glib = o.in_glib /\ m.callback_for = o.callback_for
    BY <2>2, <2>3 DEF QueryRecords
  <2> HIDE DEF m
  <2>6. Refines(E, enter)
    BY <2>2, <2>4, <2>5, RefinesUpdate
  <2>7. ASSUME NEW c \in Queries, E[c] # None, E[c].in_glib \/ c = query_
        PROVE  E[c].callback_for \in Queries /\ E[E[c].callback_for] # None
    <3>1. /\ enter[c] # None /\ (enter[c].in_glib \/ c = query_)
          /\ E[c].callback_for = enter[c].callback_for
      BY <2>6, <2>7 DEF Refines
    <3>2. enter[enter[c].callback_for] # None /\ enter[c] \in QueryRecords
      BY <3>1 DEF QueryTypes
    <3>3. enter[c].callback_for \in Queries
      BY <3>2 DEF QueryRecords
    <3> QED
      BY <2>6, <3>1, <3>2, <3>3 DEF Refines
  <2>8. CASE enter' = E /\ query_' = query_
    BY <2>2, <2>6, <2>7, <2>8 DEF QueryTypes, Refines
  <2>9. CASE r # NoList /\ enter[q] = None /\ query_' = q /\ enter' = [E EXCEPT ![q] = k]
    <3>1. k \in QueryRecords /\ k # None /\ k.callback_for = o.callback_for
      <4>1. r \in Lists
        BY <2>9
      <4>2. k \in QueryRecords /\ k.callback_for = o.callback_for
        BY <2>2, <4>1 DEF new_query, QueryRecords
      <4> QED
        BY <4>2, ListAssumption
    <3> HIDE DEF k
    <3>2. /\ enter' \in [Queries -> {None} \cup QueryRecords] /\ enter'[q] = k
          /\ \A c \in Queries : c # q => enter'[c] = E[c]
      BY <2>6, <2>9, <3>1, QueryUpdate DEF Refines
    <3>3. o.callback_for \in Queries
      BY <2>2 DEF QueryRecords
    <3>4. E[o.callback_for] # None /\ o.callback_for # q
      <4>1. enter[o.callback_for] # None
        BY <2>2 DEF QueryTypes
      <4> QED
        BY <2>6, <2>9, <3>3, <4>1 DEF Refines
    <3>5. ASSUME NEW c \in Queries, enter'[c] # None, enter'[c].in_glib \/ c = q
          PROVE  enter'[enter'[c].callback_for] # None
      <4>1. CASE c = q
        BY <3>1, <3>2, <3>3, <3>4, <4>1
      <4>2. CASE c # q
        <5>1. E[c] # None /\ E[c].in_glib /\ enter'[c] = E[c]
          BY <3>2, <3>5, <4>2
        <5>2. E[c].callback_for \in Queries /\ E[E[c].callback_for] # None
          BY <2>7, <5>1
        <5>3. E[q] = None
          BY <2>6, <2>9 DEF Refines
        <5> QED
          BY <3>2, <5>1, <5>2, <5>3
      <4> QED
        BY <4>1, <4>2
    <3> QED
      BY <2>9, <3>1, <3>2, <3>5 DEF QueryTypes
  <2> QED
    BY <2>1, <2>8, <2>9
<1> QED
  BY <1>1, <1>2 DEF restart_if_necessary

(* Nobody waits for the list to be entered any more.                       *)
LEMMA TypesAfterCancelAll ==
    ASSUME QueryTypes, CancelAll
    PROVE  QueryTypes'
<1> DEFINE E == canceled_sync(enter, query_)
<1>1. enter' = Reaped(E, query_') /\ query_' \in {query_, None} /\ reload' = reload
  BY DEF CancelAll
<1>2. Refines(E, enter)
  BY CanceledRefines
<1> HIDE DEF E
<1>3. ASSUME NEW c \in Queries, E[c] # None, E[c].in_glib \/ c = query_'
      PROVE  E[E[c].callback_for] # None
  <2>1. enter[c] # None /\ (enter[c].in_glib \/ c = query_)
        /\ E[c].callback_for = enter[c].callback_for
    BY <1>1, <1>2, <1>3, ListAssumption DEF Refines
  <2>2. enter[enter[c].callback_for] # None /\ enter[c] \in QueryRecords
    BY <2>1 DEF QueryTypes
  <2>3. enter[c].callback_for \in Queries
    BY <2>2 DEF QueryRecords
  <2> QED
    BY <1>2, <2>1, <2>2, <2>3 DEF Refines
<1>4. /\ E \in [Queries -> {None} \cup QueryRecords]
      /\ query_' \in Queries \cup {None} /\ (query_' # None => E[query_'] # None)
      /\ reload' \in Lists \cup {NoList}
  BY <1>1, <1>2 DEF QueryTypes, Refines
<1> QED
  BY <1>1, <1>3, <1>4, TypesOfReaped

LEMMA TypesStep ==
    ASSUME QueryTypes, [ListNext]_vars
    PROVE  QueryTypes'
<1>1. ASSUME NEW l \in Lists, NEW v \in Viewports, NEW q \in Queries, EnterList(l, 1, v, q)
      PROVE  QueryTypes'
  <2>1. EnterListAsync(l, 1, v, q) /\ reload' = reload
    BY <1>1, Zenon DEF EnterList
  <2> QED
    BY <2>1, TypesAfterEntering DEF QueryTypes
<1>2. ASSUME NEW v \in Viewports, NEW q \in Queries, ReloadList(0, v, q)
      PROVE  QueryTypes'
  <2>1. EnterListAsync(reload, 0, v, q) /\ reload # NoList /\ reload' = NoList
    BY <1>2, Zenon DEF ReloadList
  <2>2. reload \in Lists
    BY <2>1 DEF QueryTypes
  <2> QED
    BY <2>1, <2>2, TypesAfterEntering
<1>3. ASSUME NEW c \in Queries, NEW answer \in Answers, EnterReady(c, answer)
      PROVE  QueryTypes'
  BY <1>3, TypesAfterAnswer
<1>4. ASSUME NEW l \in Lists, NEW r \in Lists \cup {NoList}, NEW q \in Queries,
             ListInvalidate(l, r, q)
      PROVE  QueryTypes'
  <2>1. restart_if_necessary(l, r, q) /\ reload' \in {reload, r}
    BY <1>4 DEF ListInvalidate
  <2> QED
    BY <2>1, TypesAfterInvalidation DEF QueryTypes
<1>5. CASE CancelAll
  BY <1>5, TypesAfterCancelAll
<1>6. ASSUME UNCHANGED enter_vars, reload' = reload
      PROVE  QueryTypes'
  BY <1>6 DEF enter_vars, QueryTypes
<1>7. ASSUME NEW v \in Viewports, NEW line \in AllLines, NEW f \in Fetches,
             NEW r \in {"WAIT_FOR_NOTIFICATION", "RESULT_FETCHED", "FAILED"},
             Hint(v, line, f, r)
      PROVE  QueryTypes'
  <2>1. UNCHANGED enter_vars /\ reload' = reload
    BY <1>7, Zenon DEF Hint
  <2> QED
    BY <1>6, <2>1
<1>8. ASSUME NEW v \in Viewports, NEW line \in AllLines, GetItem(v, line)
      PROVE  QueryTypes'
  BY <1>6, <1>8, Zenon DEF GetItem
<1>9. ASSUME NEW f \in Fetches, NEW a \in BOOLEAN, Signal(f, a)
      PROVE  QueryTypes'
  BY <1>6, <1>9, Zenon DEF Signal
<1>10. ASSUME NEW f \in Fetches, NEW e \in {"RESULT_FETCHED", "FAILED"}, Fetch(f, e)
       PROVE  QueryTypes'
  BY <1>6, <1>10, Zenon DEF Fetch
<1>11. ASSUME NEW f \in Fetches, Done(f)
       PROVE  QueryTypes'
  <2>1. UNCHANGED enter_vars /\ reload' = reload
    BY <1>11, Zenon DEF Done
  <2> QED
    BY <1>6, <2>1
<1>12. CASE UNCHANGED vars
  BY <1>6, <1>12 DEF vars
<1> QED
  BY <1>1, <1>2, <1>3, <1>4, <1>5, <1>7, <1>8, <1>9, <1>10, <1>11, <1>12 DEF ListNext

-----------------------------------------------------------------------------
(***************************************************************************)
(* Viewports                                                               *)
(***************************************************************************)
(* The view is as long as it is meant to be, and within the list.          *)
LEMMA ViewForDoes ==
    ASSUME NEW line \in Nat, NEW count \in Nat, NEW total \in Nat,
           count <= total, line < total, total < UINT_MAX
    PROVE  /\ view_for(line, count, total) \in Segments
           /\ view_for(line, count, total).count = count
           /\ beyond(view_for(line, count, total)) <= total
<1> DEFINE first == IF line > UINT_MAX - count THEN UINT_MAX - count ELSE line
           s == view_for(line, count, total)
<1>1. UINT_MAX \in Nat
  BY ListAssumption
<1>2. first \in Nat
  BY <1>1
<1>3. s \in {Segment(first, count), Segment(total - count, count)}
      /\ (s = Segment(first, count) => first + count <= total)
  <2>1. CASE first + count <= total
    BY <2>1 DEF view_for
  <2>2. CASE ~(first + count <= total)
    <3>1. s = Segment(total - count, count)
      BY <2>2 DEF view_for
    <3>2. s = Segment(first, count) => first = total - count
      BY <3>1 DEF Segment
    <3> HIDE DEF s, first
    <3> QED
      BY <1>2, <3>1, <3>2
  <2> QED
    BY <2>1, <2>2
<1> HIDE DEF s, first
<1>4. CASE s = Segment(first, count)
  BY <1>2, <1>3, <1>4 DEF Segment, Segments, beyond, s
<1>5. CASE s = Segment(total - count, count)
  BY <1>5 DEF Segment, Segments, beyond, s
<1> QED
  BY <1>3, <1>4, <1>5

(* What the list broker has for lines which are in the list.               *)
LEMMA ContentsDoes ==
    ASSUME NEW l \in Lists, NEW s \in Segments, beyond(s) <= Size[l]
    PROVE  /\ Contents(l, s) \in Seq(Items) /\ Len(Contents(l, s)) = s.count
           /\ \A i \in 1 .. s.count :
                  /\ Contents(l, s)[i] = Line(l, s.line + i - 1)
                  /\ Line(l, s.line + i - 1) \in Items
<1>1. Size[l] \in Nat /\ s.line \in Nat /\ s.count \in Nat
  BY ListAssumption DEF Segments
<1>2. \A i \in 1 .. s.count : Line(l, s.line + i - 1) \in Items
  BY <1>1 DEF Line, Items
<1>3. Contents(l, s) = [i \in 1 .. s.count |-> Line(l, s.line + i - 1)]
  <2>1. (IF s.line >= Size[l] THEN 0
         ELSE IF beyond(s) <= Size[l] THEN s.count ELSE Size[l] - s.line) = s.count
    BY <1>1 DEF beyond
  <2> QED
    BY <2>1 DEF Contents
<1> QED
  BY <1>1, <1>2, <1>3

(* How the view and the items overlap, if some lines are missing.          *)
LEMMA MissingDoes ==
    ASSUME NEW vp \in ViewportRecords, NEW n \in Nat, NEW total \in Nat,
           vp.items_segment.count \in {0, n}, IsMissed(vp, n, total)
    PROVE  LET x == intersection(vp.view_segment, vp.items_segment)
               s == vp.view_segment
               t == vp.items_segment
           IN  /\ get_missing_segment(vp) \in Segments /\ beyond(get_missing_segment(vp)) <= total
               /\ get_missing_segment(vp).count > 0
               /\ \/ x.kind \in {"DISJOINT", "CENTER_REMAINS"} /\ get_missing_segment(vp) = s
                  \/ /\ x.kind = "TOP_REMAINS" /\ t.count = n
                     /\ t.line < s.line /\ s.line < t.line + n
                     /\ x.size = t.line + n - s.line
                     /\ get_missing_segment(vp) = Segment(s.line + x.size, n - x.size)
                  \/ /\ x.kind = "BOTTOM_REMAINS" /\ t.count = n
                     /\ s.line < t.line /\ t.line < s.line + n
                     /\ x.size = s.line + n - t.line
                     /\ get_missing_segment(vp) = Segment(s.line, n - x.size)
<1> DEFINE s == vp.view_segment
           t == vp.items_segment
           x == intersection(s, t)
           m == get_missing_segment(vp)
<1>1. /\ s \in Segments /\ t \in Segments /\ s.line \in Nat /\ s.count \in Nat
      /\ t.line \in Nat /\ t.count \in Nat /\ t.count \in {0, n}
      /\ n > 0 /\ s.count = n /\ s.line + n <= total
  BY DEF ViewportRecords, Segments, IsMissed, beyond
<1>2. x.size # 0 => x.kind \notin {"EQUAL", "INCLUDED_IN_OTHER"}
  BY DEF IsMissed, compute_overlap
<1>3. m = CASE x.kind \in {"DISJOINT", "CENTER_REMAINS"} -> s
            [] x.kind \in {"EQUAL", "INCLUDED_IN_OTHER"} -> Segment(s.line, 0)
            [] x.kind = "TOP_REMAINS" -> Segment(s.line + x.size, s.count - x.size)
            [] x.kind = "BOTTOM_REMAINS" -> Segment(s.line, s.count - x.size)
  BY DEF get_missing_segment
<1> HIDE DEF s, t, m
<1>4. \/ x.kind \in {"DISJOINT", "CENTER_REMAINS"}
      \/ /\ x.kind = "TOP_REMAINS" /\ t.count = n
         /\ t.line < s.line /\ s.line < t.line + n /\ x.size = t.line + n - s.line
      \/ /\ x.kind = "BOTTOM_REMAINS" /\ t.count = n
         /\ s.line < t.line /\ t.line < s.line + n /\ x.size = s.line + n - t.line
  <2>1. CASE t.count = 0
    BY <1>1, <2>1 DEF intersection, empty_intersection
  <2>2. CASE t.count = n /\ s.line = t.line
    BY <1>1, <1>2, <2>2 DEF intersection, same_start_intersection
  <2>3. CASE t.count = n /\ s.line < t.line
    BY <1>1, <2>3 DEF intersection, earlier_start_intersection, beyond
  <2>4. CASE t.count = n /\ s.line > t.line
    BY <1>1, <1>2, <2>4 DEF intersection, later_start_intersection, beyond
  <2> QED
    BY <1>1, <2>1, <2>2, <2>3, <2>4
<1> HIDE DEF x
<1>5. /\ m \in Segments /\ m.line + m.count <= total /\ m.count > 0
      /\ \/ x.kind \in {"DISJOINT", "CENTER_REMAINS"} /\ m = s
         \/ x.kind = "TOP_REMAINS" /\ m = Segment(s.line + x.size, n - x.size)
         \/ x.kind = "BOTTOM_REMAINS" /\ m = Segment(s.line, n - x.size)
  <2>1. CASE x.kind \in {"DISJOINT", "CENTER_REMAINS"}
    <3>1. m = s
      BY <1>3, <2>1
    <3> QED
      BY <1>1, <2>1, <3>1
  <2>2. CASE /\ x.kind = "TOP_REMAINS" /\ t.line < s.line /\ s.line < t.line + n
             /\ x.size = t.line + n - s.line
    <3>1. m = Segment(s.line + x.size, n - x.size)
      BY <1>1, <1>3, <2>2
    <3> QED
      BY <1>1, <2>2, <3>1 DEF Segment, Segments
  <2>3. CASE /\ x.kind = "BOTTOM_REMAINS" /\ s.line < t.line /\ t.line < s.line + n
             /\ x.size = s.line + n - t.line
    <3>1. m = Segment(s.line, n - x.size)
      BY <1>1, <1>3, <2>3
    <3> QED
      BY <1>1, <2>3, <3>1 DEF Segment, Segments
  <2> QED
    BY <1>4, <2>1, <2>2, <2>3
<1> QED
  BY <1>4, <1>5 DEF s, t, x, m, beyond

(* The missing lines fit, and make the items those of the view.            *)
LEMMA UpdateIsRight ==
    ASSUME NEW vp \in ViewportRecords, NEW n \in Nat, NEW total \in Nat,
           NEW owners \in SUBSET Lists, IsRight(vp, n, owners), IsMissed(vp, n, total),
           NEW l \in owners, Size[l] = total
    PROVE  LET new == Contents(l, get_missing_segment(vp))
           IN  /\ UpdateFits(vp, new)
               /\ update_cache_region(vp, new) \in ViewportRecords
               /\ IsRight(update_cache_region(vp, new), n, owners)
<1> DEFINE s == vp.view_segment
           t == vp.items_segment
           x == intersection(s, t)
           m == get_missing_segment(vp)
           new == Contents(l, m)
           room == prepare_update(vp)
           gap == beginning_of_gap(vp)
           r == update_cache_region(vp, new)
<1>1. /\ s \in Segments /\ t \in Segments /\ s.line \in Nat /\ s.count = n /\ n > 0
      /\ t.line \in Nat /\ t.count \in {0, n} /\ Len(vp.items) = t.count
      /\ vp.items \in Seq(Items)
      /\ \A i \in 1 .. t.count : vp.items[i] \in [list : owners, line : {t.line + i - 1}]
  BY DEF ViewportRecords, Segments, IsMissed, IsRight
<1>2. /\ m \in Segments /\ beyond(m) <= total /\ m.count > 0
      /\ \/ x.kind \in {"DISJOINT", "CENTER_REMAINS"} /\ m = s
         \/ /\ x.kind = "TOP_REMAINS" /\ t.count = n
            /\ t.line < s.line /\ s.line < t.line + n
            /\ x.size = t.line + n - s.line
            /\ m = Segment(s.line + x.size, n - x.size)
         \/ /\ x.kind = "BOTTOM_REMAINS" /\ t.count = n
            /\ s.line < t.line /\ t.line < s.line + n
            /\ x.size = s.line + n - t.line
            /\ m = Segment(s.line, n - x.size)
  BY <1>1, MissingDoes
<1>3. /\ new \in Seq(Items) /\ Len(new) = m.count
      /\ \A i \in 1 .. m.count : new[i] = Line(l, m.line + i - 1)
  BY <1>2, ContentsDoes
<1>4. /\ room = CASE x.kind \in {"DISJOINT", "CENTER_REMAINS"} -> <<>>
                  [] x.kind \in {"EQUAL", "INCLUDED_IN_OTHER"} -> vp.items
                  [] x.kind = "TOP_REMAINS" -> shift_up(vp.items, Len(vp.items) - x.size)
                  [] x.kind = "BOTTOM_REMAINS" -> shift_down(vp.items, Len(vp.items) - x.size)
      /\ gap = IF x.kind = "TOP_REMAINS" THEN x.size ELSE 0
  BY DEF prepare_update, beginning_of_gap
<1>5. new # <<>>
  BY <1>2, <1>3 DEF Segments
<1>6. /\ r = [view_segment |-> s, items_segment |-> s,
              items |-> IF room = <<>> THEN new
                        ELSE [i \in 1 .. Len(room) |->
                                IF i > gap /\ i <= gap + Len(new) THEN new[i - gap] ELSE room[i]]]
      /\ (room = <<>> \/ gap + Len(new) <= Len(room)) => UpdateFits(vp, new)
  BY <1>5 DEF update_cache_region, UpdateFits
<1> HIDE DEF s, t, x, m, new, room, gap, r
<1>7. ASSUME NEW items \in Seq(Items), Len(items) = n,
             r = [view_segment |-> s, items_segment |-> s, items |-> items],
             \A i \in 1 .. n : items[i] \in [list : owners, line : {s.line + i - 1}]
      PROVE  r \in ViewportRecords /\ IsRight(r, n, owners)
  BY <1>1, <1>7 DEF ViewportRecords, IsRight
<1>8. ASSUME NEW i \in Nat, NEW k \in owners
      PROVE  Line(k, i) \in [list : owners, line : {i}] /\ Line(k, i) \in Items
  BY DEF Line, Items
<1>9. CASE x.kind \in {"DISJOINT", "CENTER_REMAINS"} /\ m = s
  <2>1. room = <<>>
    BY <1>4, <1>9
  <2>2. r = [view_segment |-> s, items_segment |-> s, items |-> new]
    BY <1>6, <2>1
  <2>3. \A i \in 1 .. n : new[i] \in [list : owners, line : {s.line + i - 1}]
    <3> SUFFICES ASSUME NEW i \in 1 .. n
                 PROVE  new[i] \in [list : owners, line : {s.line + i - 1}]
      OBVIOUS
    <3>1. i \in 1 .. m.count /\ s.line + i - 1 \in Nat
      BY <1>1, <1>9
    <3>2. new[i] = Line(l, s.line + i - 1)
      BY <1>3, <1>9, <3>1
    <3> QED
      BY <1>8, <3>1, <3>2
  <2> QED
    BY <1>1, <1>3, <1>6, <1>7, <1>9, <2>1, <2>2, <2>3 DEF r, new, m
<1>10. CASE /\ x.kind = "TOP_REMAINS" /\ t.count = n
            /\ t.line < s.line /\ s.line < t.line + n
            /\ x.size = t.line + n - s.line
            /\ m = Segment(s.line + x.size, n - x.size)
  <2>1. room = [i \in 1 .. n |-> IF i + (n - x.size) <= n THEN vp.items[i + (n - x.size)]
                                 ELSE NoItem]
        /\ gap = x.size
    BY <1>1, <1>4, <1>10 DEF shift_up
  <2>2. /\ Len(room) = n /\ room # <<>> /\ x.size \in Nat /\ x.size < n
        /\ m.count = n - x.size /\ m.line = s.line + x.size
    <3>1. x.size \in Nat /\ x.size < n
      BY <1>1, <1>10
    <3>2. DOMAIN room = 1 .. n /\ n \in Nat /\ n > 0
      BY <1>1, <2>1 DEF Segments
    <3>3. Len(room) = n
      BY <2>1, <3>2
    <3>4. room # <<>>
      BY <3>2, <3>3
    <3> QED
      BY <1>10, <3>1, <3>3, <3>4 DEF Segment
  <2> DEFINE items == [i \in 1 .. n |-> IF i > gap THEN new[i - gap] ELSE room[i]]
  <2>3. r = [view_segment |-> s, items_segment |-> s, items |-> items]
    <3>1. gap + Len(new) = n
      BY <1>1, <1>3, <2>1, <2>2
    <3>2. r.items = [i \in 1 .. n |-> IF i > gap /\ i <= n THEN new[i - gap] ELSE room[i]]
          /\ r = [view_segment |-> s, items_segment |-> s, items |-> r.items]
      BY <1>6, <2>2, <3>1
    <3>3. r.items = items
      BY <1>1, <3>2
    <3> QED
      BY <3>2, <3>3
  <2>4. ASSUME NEW i \in 1 .. n
        PROVE  items[i] \in [list : owners, line : {s.line + i - 1}]
    <3>1. CASE i > x.size
      <4>1. i - x.size \in 1 .. m.count /\ m.line + (i - x.size) - 1 = s.line + i - 1
        BY <1>1, <2>2, <3>1
      <4>2. items[i] = Line(l, s.line + i - 1)
        BY <1>3, <2>1, <3>1, <4>1
      <4> QED
        BY <1>1, <1>8, <4>2
    <3>2. CASE i <= x.size
      <4>1. /\ i + (n - x.size) \in 1 .. n
            /\ t.line + (i + (n - x.size)) - 1 = s.line + i - 1
        <5>1. s.line \in Nat /\ t.line \in Nat /\ x.size = t.line + n - s.line
          BY <1>1, <1>10
        <5>2. \A p, q, z \in Nat, j \in 1 .. n : z < n /\ z = q + n - p /\ j <= z =>
                  j + (n - z) \in 1 .. n /\ q + (j + (n - z)) - 1 = p + j - 1
          OBVIOUS
        <5>3. x.size \in Nat /\ x.size < n
          BY <2>2
        <5> HIDE DEF items
        <5> QED
          BY <3>2, <5>1, <5>2, <5>3
      <4>2. items[i] = vp.items[i + (n - x.size)]
        BY <2>1, <2>2, <3>2, <4>1
      <4> QED
        BY <1>1, <1>10, <4>1, <4>2
    <3> QED
      BY <1>1, <2>2, <3>1, <3>2
  <2>5. \A i \in 1 .. n : items[i] \in Items
    BY <1>1, <2>4 DEF Items
  <2>6. items \in Seq(Items) /\ Len(items) = n
    BY <1>1, <2>5
  <2>7. gap + Len(new) <= Len(room)
    BY <1>1, <1>3, <2>1, <2>2
  <2> HIDE DEF items
  <2> QED
    BY <1>6, <1>7, <2>3, <2>4, <2>6, <2>7 DEF r, new, m
<1>11. CASE /\ x.kind = "BOTTOM_REMAINS" /\ t.count = n
            /\ s.line < t.line /\ t.line < s.line + n
            /\ x.size = s.line + n - t.line
            /\ m = Segment(s.line, n - x.size)
  <2>1. room = [i \in 1 .. n |-> IF i > n - x.size THEN vp.items[i - (n - x.size)] ELSE NoItem]
        /\ gap = 0
    BY <1>1, <1>4, <1>11 DEF shift_down
  <2>2. /\ Len(room) = n /\ room # <<>> /\ x.size \in Nat /\ x.size < n
        /\ m.count = n - x.size /\ m.line = s.line
    <3>1. x.size \in Nat /\ x.size < n
      BY <1>1, <1>11
    <3>2. DOMAIN room = 1 .. n /\ n \in Nat /\ n > 0
      BY <1>1, <2>1 DEF Segments
    <3>3. Len(room) = n
      BY <2>1, <3>2
    <3>4. room # <<>>
      BY <3>2, <3>3
    <3> QED
      BY <1>11, <3>1, <3>3, <3>4 DEF Segment
  <2> DEFINE items == [i \in 1 .. n |-> IF i <= n - x.size THEN new[i] ELSE room[i]]
  <2>3. r = [view_segment |-> s, items_segment |-> s, items |-> items]
    <3>1. gap + Len(new) = n - x.size
      BY <1>1, <1>3, <2>1, <2>2
    <3>2. r.items = [i \in 1 .. n |-> IF i > 0 /\ i <= n - x.size THEN new[i - 0] ELSE room[i]]
          /\ r = [view_segment |-> s, items_segment |-> s, items |-> r.items]
      BY <1>6, <2>1, <2>2, <3>1
    <3>3. r.items = items
      BY <1>1, <2>2, <3>2
    <3> QED
      BY <3>2, <3>3
  <2>4. ASSUME NEW i \in 1 .. n
        PROVE  items[i] \in [list : owners, line : {s.line + i - 1}]
    <3>1. CASE i <= n - x.size
      <4>1. i \in 1 .. m.count /\ m.line + i - 1 = s.line + i - 1
        BY <1>1, <2>2, <3>1
      <4>2. items[i] = Line(l, s.line + i - 1)
        BY <1>3, <3>1, <4>1
      <4> QED
        BY <1>1, <1>8, <4>2
    <3>2. CASE i > n - x.size
      <4>1. /\ i - (n - x.size) \in 1 .. n
            /\ t.line + (i - (n - x.size)) - 1 = s.line + i - 1
        <5>1. s.line \in Nat /\ t.line \in Nat /\ x.size = s.line + n - t.line
          BY <1>1, <1>11
        <5>2. \A p, q, z \in Nat, j \in 1 .. n : z < n /\ z = p + n - q /\ j > n - z =>
                  j - (n - z) \in 1 .. n /\ q + (j - (n - z)) - 1 = p + j - 1
          OBVIOUS
        <5>3. x.size \in Nat /\ x.size < n
          BY <2>2
        <5> HIDE DEF items
        <5> QED
          BY <3>2, <5>1, <5>2, <5>3
      <4>2. items[i] = vp.items[i - (n - x.size)]
        BY <1>1, <2>1, <2>2, <3>2
      <4> QED
        BY <1>1, <1>11, <4>1, <4>2
    <3> QED
      BY <1>1, <2>2, <3>1, <3>2
  <2>5. \A i \in 1 .. n : items[i] \in Items
    BY <1>1, <2>4 DEF Items
  <2>6. items \in Seq(Items) /\ Len(items) = n
    BY <1>1, <2>5
  <2>7. gap + Len(new) <= Len(room)
    BY <1>1, <1>3, <2>1, <2>2
  <2> HIDE DEF items
  <2> QED
    BY <1>6, <1>7, <2>3, <2>4, <2>6, <2>7 DEF r, new, m
<1> QED
  BY <1>2, <1>9, <1>10, <1>11

(* Nothing is moved if there is nothing in RAM.                            *)
LEMMA EmptyRoom ==
    ASSUME NEW vp \in ViewportRecords, vp.items = <<>>
    PROVE  prepare_update(vp) = <<>>
<1> DEFINE x == intersection(vp.view_segment, vp.items_segment)
<1>1. x.kind \in SegmentIntersection
  BY DEF intersection, empty_intersection, same_start_intersection, earlier_start_intersection,
         later_start_intersection, SegmentIntersection
<1>2. \A n : shift_up(<<>>, n) = <<>> /\ shift_down(<<>>, n) = <<>>
  BY DEF shift_up, shift_down
<1>3. prepare_update(vp) = CASE x.kind \in {"DISJOINT", "CENTER_REMAINS"} -> <<>>
                             [] x.kind \in {"EQUAL", "INCLUDED_IN_OTHER"} -> <<>>
                             [] x.kind = "TOP_REMAINS" -> <<>>
                             [] x.kind = "BOTTOM_REMAINS" -> <<>>
  BY <1>2 DEF prepare_update
<1> HIDE DEF x
<1> QED
  BY <1>1, <1>3 DEF SegmentIntersection

(* What the list broker has is items.                                      *)
LEMMA ContentsType ==
    ASSUME NEW l \in Lists, NEW s \in Segments
    PROVE  Contents(l, s) \in Seq(Items)
<1> DEFINE n == IF s.line >= Size[l] THEN 0
                ELSE IF beyond(s) <= Size[l] THEN s.count ELSE Size[l] - s.line
<1>1. Size[l] \in Nat /\ s.line \in Nat /\ s.count \in Nat
  BY ListAssumption DEF Segments
<1>2. n \in Nat
  BY <1>1 DEF beyond
<1>3. Contents(l, s) = [i \in 1 .. n |-> Line(l, s.line + i - 1)]
  BY DEF Contents
<1> HIDE DEF n
<1>4. \A i \in 1 .. n : Line(l, s.line + i - 1) \in Items
  BY <1>1, <1>2 DEF Line, Items
<1> QED
  BY <1>2, <1>3, <1>4

(* Two segments have no more in common than is in each of them.            *)
LEMMA IntersectionDoes ==
    ASSUME NEW s \in Segments, NEW t \in Segments
    PROVE  /\ intersection(s, t).size \in Nat
           /\ intersection(s, t).size <= s.count
           /\ intersection(s, t).kind \in SegmentIntersection
<1>1. s.line \in Nat /\ s.count \in Nat /\ t.line \in Nat /\ t.count \in Nat
  BY DEF Segments
<1>2. CASE s.count = 0 \/ t.count = 0
  BY <1>1, <1>2 DEF intersection, empty_intersection, SegmentIntersection
<1>3. CASE s.count # 0 /\ t.count # 0 /\ s.line = t.line
  BY <1>1, <1>3 DEF intersection, same_start_intersection, SegmentIntersection
<1>4. CASE s.count # 0 /\ t.count # 0 /\ s.line < t.line
  BY <1>1, <1>4 DEF intersection, earlier_start_intersection, SegmentIntersection, beyond
<1>5. CASE s.count # 0 /\ t.count # 0 /\ s.line > t.line
  BY <1>1, <1>5 DEF intersection, later_start_intersection, SegmentIntersection, beyond
<1> QED
  BY <1>1, <1>2, <1>3, <1>4, <1>5

(* What is loaded is a segment, whatever is in RAM.                        *)
LEMMA MissingType ==
    ASSUME NEW vp \in ViewportRecords
    PROVE  get_missing_segment(vp) \in Segments
<1> DEFINE s == vp.view_segment
           x == intersection(s, vp.items_segment)
<1>1. s \in Segments /\ s.line \in Nat /\ s.count \in Nat /\ vp.items_segment \in Segments
  BY DEF ViewportRecords, Segments
<1>2. x.size \in Nat /\ x.size <= s.count /\ x.kind \in SegmentIntersection
  BY <1>1, IntersectionDoes
<1>3. get_missing_segment(vp) \in
          {s, Segment(s.line, 0), Segment(s.line + x.size, s.count - x.size),
           Segment(s.line, s.count - x.size)}
  BY <1>2 DEF get_missing_segment, SegmentIntersection
<1> HIDE DEF s, x
<1> QED
  BY <1>1, <1>2, <1>3 DEF Segment, Segments

(* Writing items leaves a viewport, whatever has been in RAM.              *)
LEMMA UpdateType ==
    ASSUME NEW vp \in ViewportRecords, NEW new \in Seq(Items)
    PROVE  update_cache_region(vp, new) \in ViewportRecords
<1> DEFINE x == intersection(vp.view_segment, vp.items_segment)
           room == prepare_update(vp)
           gap == beginning_of_gap(vp)
           count == Len(vp.items) - x.size
           items == IF room = <<>> THEN new
                    ELSE [i \in 1 .. Len(room) |->
                            IF i > gap /\ i <= gap + Len(new) THEN new[i - gap] ELSE room[i]]
<1>1. /\ vp.view_segment \in Segments /\ vp.items_segment \in Segments
      /\ vp.items \in Seq(Items)
  BY DEF ViewportRecords
<1>2. x.size \in Nat /\ x.kind \in SegmentIntersection
  BY <1>1, IntersectionDoes
<1>3. gap \in Nat
  BY <1>2 DEF beginning_of_gap
<1>4. NoItem \in Items /\ count \in Int
  BY <1>1, <1>2 DEF Items
<1>5. room \in {<<>>, vp.items, shift_up(vp.items, count), shift_down(vp.items, count)}
  BY <1>2 DEF prepare_update, SegmentIntersection
<1> HIDE DEF x, gap, room, count
<1>6. /\ shift_up(vp.items, count) \in Seq(Items)
      /\ shift_down(vp.items, count) \in Seq(Items)
  BY <1>1, <1>4 DEF shift_up, shift_down
<1>7. room \in Seq(Items)
  <2>1. <<>> \in Seq(Items)
    OBVIOUS
  <2> QED
    BY <1>1, <1>5, <1>6, <2>1, Zenon
<1>8. items \in Seq(Items)
  <2>1. CASE room = <<>>
    BY <2>1
  <2>2. CASE room # <<>>
    <3>1. ASSUME NEW i \in 1 .. Len(room)
          PROVE  (IF i > gap /\ i <= gap + Len(new) THEN new[i - gap] ELSE room[i]) \in Items
      BY <1>3, <1>7
    <3> QED
      BY <1>7, <2>2, <3>1
  <2> QED
    BY <2>1, <2>2
<1>9. CASE new = <<>>
  <2>1. update_cache_region(vp, new) = [vp EXCEPT !.items = room]
    BY <1>9 DEF update_cache_region, room
  <2> QED
    BY <1>7, <2>1 DEF ViewportRecords
<1>10. CASE new # <<>>
  <2>1. update_cache_region(vp, new) = [view_segment |-> vp.view_segment,
                                        items_segment |-> vp.view_segment, items |-> items]
    BY <1>10 DEF update_cache_region, room, gap
  <2> HIDE DEF items
  <2> QED
    BY <1>1, <1>8, <2>1 DEF ViewportRecords
<1> QED
  BY <1>9, <1>10

(* A viewport is cleared.                                                  *)
LEMMA ClearedIsRight ==
    ASSUME NEW vp \in ViewportRecords, NEW line \in Nat
    PROVE  /\ clear_for_line(vp, line) \in ViewportRecords
           /\ clear_for_line(vp, line).items = <<>>
           /\ \A n, owners : IsRight(clear_for_line(vp, line), n, owners)
<1> DEFINE r == clear_for_line(vp, line)
<1>1. Segment(line, 0) \in Segments /\ Segment(line, 0).count = 0
  BY DEF Segment, Segments
<1>2. <<>> \in Seq(Items)
  OBVIOUS
<1> DEFINE s == Segment(line, 0)
<1> HIDE DEF s
<1>3. r \in ViewportRecords /\ r.items = <<>> /\ r.items_segment.count = 0
  <2>1. r = [vp EXCEPT !.items = <<>>, !.items_segment = s]
    BY DEF clear_for_line, s
  <2> HIDE DEF r
  <2> QED
    BY <1>1, <1>2, <2>1 DEF ViewportRecords, s
<1> HIDE DEF r
<1>4. \A n, owners : IsRight(r, n, owners)
  BY <1>3 DEF IsRight
<1> QED
  BY <1>3, <1>4 DEF r

(***************************************************************************)
(* Calls                                                                   *)
(***************************************************************************)
(* Calls that are canceled will have no lines.                             *)
LEMMA CancelDooms ==
    ASSUME CacheTypes, CallsOK, NEW F, cancel_op(F)
    PROVE  /\ fetch' \in [Fetches -> FetchRecords \cup {None}]
           /\ \A f \in Fetches :
                 /\ fetch[f] = None => fetch'[f] = None
                 /\ fetch[f] # None =>
                        /\ fetch'[f] \in FetchRecords
                        /\ fetch'[f].viewport = fetch[f].viewport
                        /\ CallIsConsistent(fetch'[f])
                        /\ f \in F => IsDoomed(fetch'[f])
                        /\ f \notin F => fetch'[f] = fetch[f]
<1>1. fetch \in [Fetches -> FetchRecords \cup {None}]
  BY DEF CacheTypes
<1>2. \A f \in Fetches :
         fetch'[f] = IF f \notin F \/ fetch[f] = None THEN fetch[f]
                     ELSE CASE fetch[f].state \in {"WAIT_FOR_NOTIFICATION", "READY_TO_FETCH"} ->
                                  [fetch[f] EXCEPT !.state = "ABORTING", !.has_cookie = FALSE]
                            [] fetch[f].state \in {"RESULT_FETCHED", "FAILED"} ->
                                  [fetch[f] EXCEPT !.was_aborted_after_done = TRUE]
                            [] OTHER -> fetch[f]
  BY DEF cancel_op
<1>3. ASSUME NEW f \in Fetches, fetch[f] # None
      PROVE  /\ fetch'[f] \in FetchRecords
             /\ fetch'[f].viewport = fetch[f].viewport
             /\ CallIsConsistent(fetch'[f])
             /\ f \in F => IsDoomed(fetch'[f])
             /\ f \notin F => fetch'[f] = fetch[f]
  <2> DEFINE r == fetch[f]
  <2>1. r \in FetchRecords /\ CallIsConsistent(r) /\ r.state \in CallStates
    BY <1>1, <1>3 DEF CallsOK, FetchRecords
  <2>2. CASE f \notin F
    BY <1>2, <2>1, <2>2
  <2>3. CASE f \in F /\ r.state \in {"WAIT_FOR_NOTIFICATION", "READY_TO_FETCH"}
    <3>1. fetch'[f] = [r EXCEPT !.state = "ABORTING", !.has_cookie = FALSE]
      BY <1>2, <1>3, <2>3
    <3> HIDE DEF r
    <3> QED
      BY <2>1, <2>3, <3>1 DEF FetchRecords, CallStates, CallIsConsistent, IsDoomed, r
  <2>4. CASE f \in F /\ r.state \in {"RESULT_FETCHED", "FAILED"}
    <3>1. fetch'[f] = [r EXCEPT !.was_aborted_after_done = TRUE]
      BY <1>2, <1>3, <2>4
    <3> HIDE DEF r
    <3> QED
      BY <2>1, <2>4, <3>1 DEF FetchRecords, CallStates, CallIsConsistent, IsDoomed, r
  <2>5. CASE f \in F /\ r.state \in {"ABORTING", "ABORTED_BY_LIST_BROKER"}
    <3>1. fetch'[f] = r
      BY <1>2, <1>3, <2>5
    <3> HIDE DEF r
    <3> QED
      BY <2>1, <2>5, <3>1 DEF CallIsConsistent, IsDoomed, r
  <2> QED
    BY <2>1, <2>2, <2>3, <2>4, <2>5 DEF CallStates
<1>4. fetch' \in [Fetches -> FetchRecords \cup {None}]
  <2>1. \A f \in Fetches : fetch'[f] \in FetchRecords \cup {None}
    BY <1>2, <1>3
  <2>2. fetch' = [f \in Fetches |-> fetch'[f]]
    BY DEF cancel_op
  <2> QED
    BY <2>1, <2>2
<1> QED
  BY <1>2, <1>3, <1>4

(* A call that is signalled or fetched gets no lines if there were none to *)
(* come.                                                                   *)
LEMMA SignalDoes ==
    ASSUME CacheTypes, CallsOK, NEW f \in Fetches, NEW available \in BOOLEAN,
           Signal(f, available)
    PROVE  /\ fetch[f] # None /\ fetch' = [fetch EXCEPT ![f] = fetch'[f]]
           /\ fetch'[f] \in FetchRecords /\ CallIsConsistent(fetch'[f])
           /\ fetch'[f].viewport = fetch[f].viewport /\ fetch'[f].list = fetch[f].list
           /\ fetch'[f].segment = fetch[f].segment
           /\ IsDoomed(fetch[f]) => IsDoomed(fetch'[f])
<1> DEFINE r == fetch[f]
           k == [r EXCEPT !.signalled = TRUE,
                          !.state = IF available THEN "READY_TO_FETCH"
                                    ELSE "ABORTED_BY_LIST_BROKER"]
<1>1. /\ r # None /\ r \in FetchRecords /\ CallIsConsistent(r) /\ ~r.signalled
      /\ fetch \in [Fetches -> FetchRecords \cup {None}]
  BY DEF Signal, CacheTypes, CallsOK
<1>2. fetch' = [fetch EXCEPT ![f] = k]
  BY DEF Signal
<1>3. /\ k \in FetchRecords /\ CallIsConsistent(k) /\ k.viewport = r.viewport /\ k.list = r.list
      /\ k.segment = r.segment /\ (IsDoomed(r) => IsDoomed(k))
  BY <1>1 DEF FetchRecords, CallStates, CallIsConsistent, IsDoomed
<1> HIDE DEF r, k
<1>4. fetch'[f] = k
  BY <1>1, <1>2
<1> QED
  BY <1>1, <1>2, <1>3, <1>4 DEF r

LEMMA FetchDoes ==
    ASSUME CacheTypes, CallsOK, NEW f \in Fetches, NEW ending \in {"RESULT_FETCHED", "FAILED"},
           Fetch(f, ending)
    PROVE  /\ fetch[f] # None /\ fetch' = [fetch EXCEPT ![f] = fetch'[f]]
           /\ fetch'[f] \in FetchRecords /\ CallIsConsistent(fetch'[f])
           /\ fetch'[f].viewport = fetch[f].viewport /\ fetch'[f].list = fetch[f].list
           /\ fetch'[f].segment = fetch[f].segment
           /\ IsDoomed(fetch[f]) => IsDoomed(fetch'[f])
<1> DEFINE r == fetch[f]
           k == [r EXCEPT !.deferred = TRUE,
                          !.state = IF r.state = "READY_TO_FETCH" THEN ending ELSE r.state,
                          !.has_cookie = FALSE]
<1>1. /\ r # None /\ r \in FetchRecords /\ CallIsConsistent(r) /\ r.signalled
      /\ r.has_cookie \/ ending = "FAILED"
      /\ fetch \in [Fetches -> FetchRecords \cup {None}]
  BY DEF Fetch, CacheTypes, CallsOK
<1>2. fetch' = [fetch EXCEPT ![f] = k]
  BY DEF Fetch
<1>3. /\ k \in FetchRecords /\ CallIsConsistent(k) /\ k.viewport = r.viewport /\ k.list = r.list
      /\ k.segment = r.segment /\ (IsDoomed(r) => IsDoomed(k))
  BY <1>1 DEF FetchRecords, CallStates, CallIsConsistent, IsDoomed
<1> HIDE DEF r, k
<1>4. fetch'[f] = k
  BY <1>1, <1>2
<1> QED
  BY <1>1, <1>2, <1>3, <1>4 DEF r

-----------------------------------------------------------------------------
(***************************************************************************)
(* Steps                                                                   *)
(***************************************************************************)
(* Nothing has changed that is about what is in RAM.                       *)
LEMMA CacheUnchanged ==
    ASSUME CacheInv, UNCHANGED <<list_vars, viewport, fetch_vars, history>>
    PROVE  CacheInv'
<1>1. /\ list_id_' = list_id_ /\ number_of_items_' = number_of_items_ /\ kin' = kin
      /\ viewport' = viewport /\ fetcher' = fetcher /\ fetch' = fetch
      /\ strayed' = strayed /\ spoiled' = spoiled
  BY DEF list_vars, fetch_vars, history
<1> QED
  BY <1>1 DEF CacheInv, CacheTypes, CallsOK, ItemsOK, LoadingOK, Loading, Shown

(* The viewports are cleared.                                              *)
LEMMA ClearedFor ==
    ASSUME viewport \in [Viewports -> ViewportRecords], NEW v, NEW line \in Nat
    PROVE  /\ cleared_for(v, line) \in [Viewports -> ViewportRecords]
           /\ \A w \in Viewports : fetcher[w] # Unknown =>
                 /\ cleared_for(v, line)[w].items = <<>>
                 /\ \A n, owners : IsRight(cleared_for(v, line)[w], n, owners)
           /\ \A w \in Viewports : fetcher[w] = Unknown => cleared_for(v, line)[w] = viewport[w]
<1> DEFINE C == cleared_for(v, line)
<1>1. \A w \in Viewports :
         /\ fetcher[w] # Unknown => \E n \in Nat : C[w] = clear_for_line(viewport[w], n)
         /\ fetcher[w] = Unknown => C[w] = viewport[w]
  BY DEF cleared_for
<1>2. C = [w \in Viewports |-> C[w]]
  BY DEF cleared_for
<1> HIDE DEF C
<1>3. \A w \in Viewports :
          /\ C[w] \in ViewportRecords
          /\ fetcher[w] # Unknown => C[w].items = <<>> /\ \A n, owners : IsRight(C[w], n, owners)
  BY <1>1, ClearedIsRight
<1> QED
  BY <1>1, <1>2, <1>3 DEF C

(* A list is entered: nothing of it is in RAM yet, and everything that was *)
(* asked for earlier has gone astray.                                      *)
LEMMA CacheAfterAnswer ==
    ASSUME CacheInv, QueryTypes, NEW c \in Queries, NEW answer \in Answers,
           EnterReady(c, answer)
    PROVE  CacheInv'
<1>1. fetcher' = fetcher /\ fetch' = fetch
  BY Zenon DEF EnterReady, fetch_vars
<1>2. CASE UNCHANGED <<list_vars, viewport, history>>
  BY <1>1, <1>2, CacheUnchanged DEF fetch_vars
<1>3. ASSUME NEW l \in Lists, NEW line \in Nat, NEW v \in Viewports,
             number_of_items_' = Size[l], list_id_' = l, kin' = {l},
             viewport' = cleared_for(v, line),
             strayed' = {w \in Viewports : Loading(w)}, spoiled' = unspoiled
      PROVE  CacheInv'
  <2>1. viewport \in [Viewports -> ViewportRecords]
    BY DEF CacheInv, CacheTypes
  <2>2. /\ viewport' \in [Viewports -> ViewportRecords]
        /\ \A w \in Viewports : fetcher[w] # Unknown =>
              \A n, owners : IsRight(viewport'[w], n, owners)
    BY <1>3, <2>1, ClearedFor
  <2>3. CacheTypes'
    <3>1. Size[l] \in Nat /\ Size[l] < UINT_MAX /\ {l} \in SUBSET Lists
      BY ListAssumption
    <3> QED
      BY <1>1, <1>3, <2>2, <3>1 DEF CacheInv, CacheTypes
  <2>4. CallsOK'
    BY <1>1 DEF CacheInv, CallsOK, Loading
  <2>5. ItemsOK'
    BY <1>1, <2>2 DEF ItemsOK
  <2>6. LoadingOK'
    BY <1>1, <1>3 DEF LoadingOK, Loading
  <2> QED
    BY <2>3, <2>4, <2>5, <2>6 DEF CacheInv
<1> QED
  BY <1>2, <1>3, TypesAfterAnswer

(* Only calls have changed, and none that may have lines to come.          *)
LEMMA CacheWithCalls ==
    ASSUME CacheInv, UNCHANGED <<list_id_, number_of_items_, kin, viewport, fetcher, strayed, spoiled>>,
           fetch' \in [Fetches -> FetchRecords \cup {None}],
           \A f \in Fetches :
              /\ fetch[f] = None => fetch'[f] = None
              /\ fetch[f] # None =>
                     /\ fetch'[f] \in FetchRecords
                     /\ fetch'[f].viewport = fetch[f].viewport
                     /\ CallIsConsistent(fetch'[f])
                     /\ IsDoomed(fetch[f]) => IsDoomed(fetch'[f])
                     /\ \/ IsDoomed(fetch'[f])
                        \/ /\ fetch'[f].list = fetch[f].list
                           /\ fetch'[f].segment = fetch[f].segment
    PROVE  CacheInv'
<1>1. \A v \in Viewports : Loading(v)' <=> Loading(v)
  BY DEF Loading
<1>2. \A v \in Viewports : Loading(v) =>
          /\ fetch[fetcher[v]] \in FetchRecords /\ fetch[fetcher[v]] # None
          /\ fetch[fetcher[v]].viewport = v /\ fetcher[v] \in Fetches
  BY ListAssumption DEF CacheInv, CallsOK, Loading
<1>3. CacheTypes' /\ ItemsOK'
  BY DEF CacheInv, CacheTypes, ItemsOK, Shown
<1>4. CallsOK'
  <2>1. \A f \in Fetches : fetch'[f] # None => CallIsConsistent(fetch'[f])
    OBVIOUS
  <2>2. \A v \in Viewports : Loading(v) => /\ fetch'[fetcher[v]] \in FetchRecords
                                           /\ fetch'[fetcher[v]].viewport = v
    BY <1>2
  <2> QED
    BY <1>1, <2>1, <2>2 DEF CallsOK
<1>5. LoadingOK'
  <2> SUFFICES ASSUME NEW v \in Viewports \ (strayed \cup spoiled), Loading(v),
                      ~IsDoomed(fetch'[fetcher[v]])
               PROVE  IF list_id_ = NoList THEN viewport[v].items = <<>>
                      ELSE /\ fetch'[fetcher[v]].list \in kin
                           /\ Size[fetch'[fetcher[v]].list] = number_of_items_
                           /\ fetch'[fetcher[v]].segment = get_missing_segment(viewport[v])
                           /\ IsMissed(viewport[v], Shown(v), number_of_items_)
    BY <1>1 DEF LoadingOK, Shown
  <2>1. /\ ~IsDoomed(fetch[fetcher[v]]) /\ fetch'[fetcher[v]].list = fetch[fetcher[v]].list
        /\ fetch'[fetcher[v]].segment = fetch[fetcher[v]].segment
    BY <1>2
  <2> QED
    BY <2>1 DEF CacheInv, LoadingOK
<1> QED
  BY <1>3, <1>4, <1>5 DEF CacheInv

LEMMA CacheAfterCallStep ==
    ASSUME CacheInv, NEW f \in Fetches,
           \/ \E a \in BOOLEAN : Signal(f, a)
           \/ \E e \in {"RESULT_FETCHED", "FAILED"} : Fetch(f, e)
    PROVE  CacheInv'
<1>1. CacheTypes /\ CallsOK
  BY DEF CacheInv
<1>2. /\ fetch[f] # None /\ fetch' = [fetch EXCEPT ![f] = fetch'[f]]
      /\ fetch'[f] \in FetchRecords /\ CallIsConsistent(fetch'[f])
      /\ fetch'[f].viewport = fetch[f].viewport /\ fetch'[f].list = fetch[f].list
      /\ fetch'[f].segment = fetch[f].segment
      /\ IsDoomed(fetch[f]) => IsDoomed(fetch'[f])
  BY <1>1, SignalDoes, FetchDoes
<1>3. UNCHANGED <<list_id_, number_of_items_, kin, viewport, fetcher, strayed, spoiled>>
  BY DEF Signal, Fetch, list_vars, history
<1>4. fetch \in [Fetches -> FetchRecords \cup {None}]
      /\ \A g \in Fetches : fetch[g] # None => CallIsConsistent(fetch[g])
  BY <1>1 DEF CacheTypes, CallsOK
<1>5. \A g \in Fetches : g # f => fetch'[g] = fetch[g]
  BY <1>2, <1>4
<1>6. fetch' \in [Fetches -> FetchRecords \cup {None}]
  BY <1>2, <1>4
<1>7. \A g \in Fetches :
          /\ fetch[g] = None => fetch'[g] = None
          /\ fetch[g] # None =>
                 /\ fetch'[g] \in FetchRecords
                 /\ fetch'[g].viewport = fetch[g].viewport
                 /\ CallIsConsistent(fetch'[g])
                 /\ IsDoomed(fetch[g]) => IsDoomed(fetch'[g])
                 /\ fetch'[g].list = fetch[g].list
                 /\ fetch'[g].segment = fetch[g].segment
  BY <1>2, <1>4, <1>5
<1> QED
  BY <1>3, <1>6, <1>7, CacheWithCalls

(* A list is removed, or replaced.                                         *)
LEMMA CacheAfterInvalidation ==
    ASSUME CacheInv, NEW l \in Lists, NEW r \in Lists \cup {NoList}, NEW q \in Queries,
           ListInvalidate(l, r, q)
    PROVE  CacheInv'
<1>1. /\ fetcher' = fetcher /\ strayed' = strayed
      /\ r = NoList \/ <<l, r>> \in Replacements
  BY DEF ListInvalidate
<1>3. CASE l # list_id_
  <2>1. UNCHANGED <<list_id_, number_of_items_, kin, viewport, fetch, spoiled>>
    BY <1>3 DEF ListInvalidate, list_vars
  <2>2. \A f \in Fetches :
            fetch[f] # None => fetch[f] \in FetchRecords /\ CallIsConsistent(fetch[f])
    BY DEF CacheInv, CacheTypes, CallsOK
  <2>3. fetch' \in [Fetches -> FetchRecords \cup {None}]
    BY <2>1 DEF CacheInv, CacheTypes
  <2> QED
    BY <1>1, <2>1, <2>2, <2>3, CacheWithCalls
<1>4. CASE l = list_id_ /\ r # NoList
  <2> DEFINE F == {fetcher[v] : v \in Viewports}
  <2>1. /\ list_id_' = r /\ number_of_items_' = number_of_items_ /\ spoiled' = spoiled
        /\ kin' = kin \cup {r} /\ cancel_op(F) /\ viewport' = viewport
    BY <1>4 DEF ListInvalidate
  <2>2. r \in Lists /\ l # NoList
    BY <1>4, ListAssumption
  <2>3. /\ fetch' \in [Fetches -> FetchRecords \cup {None}]
        /\ \A f \in Fetches :
              /\ fetch[f] = None => fetch'[f] = None
              /\ fetch[f] # None => /\ fetch'[f] \in FetchRecords
                                    /\ fetch'[f].viewport = fetch[f].viewport
                                    /\ CallIsConsistent(fetch'[f])
                                    /\ f \in F => IsDoomed(fetch'[f])
    BY <2>1, CancelDooms DEF CacheInv
  <2>4. \A v \in Viewports : fetcher[v] \in F
    OBVIOUS
  <2> HIDE DEF F
  <2>5. \A v \in Viewports : Loading(v) => /\ fetcher[v] \in Fetches /\ fetch[fetcher[v]] # None
                                           /\ fetch[fetcher[v]].viewport = v
    BY ListAssumption DEF CacheInv, CallsOK, Loading
  <2>6. \A v \in Viewports : Loading(v) => /\ fetch'[fetcher[v]] \in FetchRecords
                                           /\ fetch'[fetcher[v]].viewport = v
                                           /\ IsDoomed(fetch'[fetcher[v]])
    BY <2>3, <2>4, <2>5
  <2>7. \A v \in Viewports : Loading(v)' <=> Loading(v)
    BY <1>1 DEF Loading
  <2>8. CacheTypes'
    BY <1>1, <1>4, <2>1, <2>2, <2>3 DEF CacheInv, CacheTypes
  <2>9. CallsOK'
    BY <1>1, <2>3, <2>6, <2>7 DEF CallsOK
  <2>10. LoadingOK'
    BY <1>1, <2>6, <2>7 DEF LoadingOK
  <2>11. ItemsOK'
    <3>1. \A v \in Viewports \ spoiled :
             fetcher[v] # Unknown => IsRight(viewport[v], Shown(v), kin)
      BY <1>4, <2>2 DEF CacheInv, ItemsOK
    <3>2. \A v \in Viewports \ spoiled :
             fetcher[v] # Unknown => IsRight(viewport[v], Shown(v), kin \cup {r})
      BY <3>1 DEF IsRight
    <3> QED
      BY <1>1, <2>1, <3>2 DEF ItemsOK, Shown
  <2> QED
    BY <2>8, <2>9, <2>10, <2>11 DEF CacheInv
<1>5. CASE l = list_id_ /\ r = NoList
  <2>1. /\ list_id_' = NoList /\ number_of_items_' = number_of_items_
        /\ kin' = {} /\ viewport' = cleared_for(None, 0) /\ fetch' = fetch
    BY <1>5 DEF ListInvalidate
  <2>2. viewport \in [Viewports -> ViewportRecords]
    BY DEF CacheInv, CacheTypes
  <2>3. /\ viewport' \in [Viewports -> ViewportRecords]
        /\ \A v \in Viewports : fetcher[v] # Unknown => viewport'[v].items = <<>>
    BY <2>1, <2>2, ClearedFor
  <2>4. CacheTypes' /\ CallsOK' /\ ItemsOK'
    BY <1>1, <2>1, <2>3 DEF CacheInv, CacheTypes, CallsOK, Loading, ItemsOK
  <2>5. LoadingOK'
    BY <1>1, <2>1, <2>3, ListAssumption DEF LoadingOK, Loading
  <2> QED
    BY <2>4, <2>5 DEF CacheInv
<1> QED
  BY <1>3, <1>4, <1>5

LEMMA CacheAfterCancelAll ==
    ASSUME CacheInv, CancelAll
    PROVE  CacheInv'
<1> DEFINE F == {fetcher[v] : v \in Viewports}
<1>1. /\ cancel_op(F)
      /\ UNCHANGED <<list_id_, number_of_items_, kin, viewport, fetcher, strayed, spoiled>>
  BY DEF CancelAll, list_vars, history
<1>2. /\ fetch' \in [Fetches -> FetchRecords \cup {None}]
      /\ \A f \in Fetches :
            /\ fetch[f] = None => fetch'[f] = None
            /\ fetch[f] # None => /\ fetch'[f] \in FetchRecords
                                  /\ fetch'[f].viewport = fetch[f].viewport
                                  /\ CallIsConsistent(fetch'[f])
                                  /\ f \in F => IsDoomed(fetch'[f])
                                  /\ f \notin F => fetch'[f] = fetch[f]
  BY <1>1, CancelDooms DEF CacheInv
<1> HIDE DEF F
<1> QED
  BY <1>1, <1>2, CacheWithCalls

(* The lines the user wants to see are asked for, in a list in which no    *)
(* line is missing any more that has been asked for.                       *)
LEMMA CacheAfterHint ==
    ASSUME CacheInv, NEW v \in Viewports, NEW line \in Nat,
           NEW f \in Fetches, NEW reply \in {"WAIT_FOR_NOTIFICATION", "RESULT_FETCHED", "FAILED"},
           Hint(v, line, f, reply)
    PROVE  CacheInv'
<1> DEFINE n == Shown(v)
           old == announced(v, line)
           vp == set_view(old, line, n, number_of_items_)
<1>1. /\ list_id_ # NoList /\ line < number_of_items_
      /\ viewport' = [viewport EXCEPT ![v] = vp]
      /\ spoiled' = IF fetcher[v] = Unknown THEN spoiled \ {v} ELSE spoiled
      /\ IF compute_overlap(vp, vp.view_segment) = "CACHED"
         THEN /\ fetcher' = [fetcher EXCEPT ![v] = IF IsOutdated(v, line) THEN Unknown
                                                   ELSE IF @ = Unknown THEN None ELSE @]
              /\ strayed' = IF Loading(v) /\ ~IsOutdated(v, line) THEN strayed \cup {v}
                            ELSE strayed \ {v}
              /\ fetch' = fetch
         ELSE /\ StartFetch(v, f, vp, reply)
              /\ strayed' = IF number_of_items_ = Size[list_id_] THEN strayed \ {v}
                            ELSE strayed \cup {v}
      /\ UNCHANGED <<list_id_, number_of_items_, kin>>
  BY DEF Hint, Shown, list_vars
<1>2. /\ list_id_ \in kin /\ kin \in SUBSET Lists /\ list_id_ \in Lists
      /\ number_of_items_ < UINT_MAX /\ number_of_items_ \in Nat
      /\ viewport \in [Viewports -> ViewportRecords]
      /\ fetcher \in [Viewports -> Fetches \cup {Unknown, None, Dead}]
      /\ fetch \in [Fetches -> FetchRecords \cup {None}]
  BY <1>1 DEF CacheInv, CacheTypes
<1>3. /\ number_of_items_ < UINT_MAX /\ ViewSize[v] \in Nat \ {0} /\ n \in Nat
      /\ n <= number_of_items_ /\ n > 0
  BY <1>1, <1>2, ListAssumption DEF Shown
<1>4. {None, Unknown, Dead} \cap Fetches = {} /\ None \notin FetchRecords
  BY ListAssumption
<1> HIDE DEF n, vp
<1>5. old \in ViewportRecords /\ (v \notin spoiled' => IsRight(old, n, kin))
  <2>1. CASE fetcher[v] = Unknown
    BY <1>2, <2>1, ClearedIsRight DEF announced
  <2>2. CASE fetcher[v] # Unknown
    <3>1. old = viewport[v]
      BY <2>2 DEF announced
    <3>2. v \notin spoiled' => IsRight(viewport[v], n, kin)
      BY <1>1, <2>2 DEF CacheInv, ItemsOK, n
    <3> QED
      BY <1>2, <3>1, <3>2
  <2> QED
    BY <2>1, <2>2
<1> HIDE DEF old
<1>6. /\ vp \in ViewportRecords /\ (v \notin spoiled' => IsRight(vp, n, kin))
      /\ vp.view_segment.count = n /\ beyond(vp.view_segment) <= number_of_items_
  <2> DEFINE s == view_for(line, n, number_of_items_)
  <2>1. s \in Segments /\ s.count = n /\ beyond(s) <= number_of_items_
    BY <1>1, <1>2, <1>3, ViewForDoes
  <2> HIDE DEF s
  <2>2. vp = [old EXCEPT !.view_segment = s]
    BY DEF vp, set_view, s
  <2>3. /\ vp \in ViewportRecords /\ vp.view_segment = s
        /\ vp.items_segment = old.items_segment /\ vp.items = old.items
    BY <1>5, <2>1, <2>2 DEF ViewportRecords
  <2> QED
    BY <1>5, <2>1, <2>3 DEF IsRight
<1>7. viewport' \in [Viewports -> ViewportRecords] /\ viewport'[v] = vp
      /\ \A w \in Viewports : w # v => viewport'[w] = viewport[w]
  BY <1>1, <1>2, <1>6
<1>8. \A w \in Viewports : w # v =>
          /\ w \in spoiled' <=> w \in spoiled
          /\ w \in strayed' <=> w \in strayed
  BY <1>1
<1>9. ItemsOK'
  <2> SUFFICES ASSUME NEW w \in Viewports \ spoiled', fetcher'[w] # Unknown
               PROVE  IsRight(viewport'[w], Shown(w), kin)
    BY <1>1 DEF ItemsOK, Shown
  <2>1. CASE w = v
    BY <1>6, <1>7, <2>1 DEF n
  <2>2. CASE w # v
    <3>1. fetcher'[w] = fetcher[w]
      BY <1>1, <1>2, <2>2 DEF StartFetch
    <3> QED
      BY <1>1, <1>7, <1>8, <2>2, <3>1 DEF CacheInv, ItemsOK
  <2> QED
    BY <2>1, <2>2
<1>10. ASSUME NEW w \in Viewports, w # v, Loading(w)', fetcher'[w] = fetcher[w],
              fetch'[fetcher[w]] = fetch[fetcher[w]]
       PROVE  /\ fetch'[fetcher'[w]] \in FetchRecords /\ fetch'[fetcher'[w]].viewport = w
              /\ w \notin strayed' \cup spoiled' /\ ~IsDoomed(fetch'[fetcher'[w]]) =>
                     /\ fetch'[fetcher'[w]].list \in kin
                     /\ Size[fetch'[fetcher'[w]].list] = number_of_items_
                     /\ fetch'[fetcher'[w]].segment = get_missing_segment(viewport'[w])
                     /\ IsMissed(viewport'[w], Shown(w), number_of_items_)
  <2>1. Loading(w)
    BY <1>10 DEF Loading
  <2> QED
    BY <1>1, <1>7, <1>8, <1>10, <2>1 DEF CacheInv, CallsOK, LoadingOK
<1>11. ASSUME NEW w \in Viewports, w # v, Loading(w)', fetch' = fetch,
              \A u \in Viewports : u # v => fetcher'[u] = fetcher[u]
       PROVE  fetcher'[w] = fetcher[w] /\ fetch'[fetcher[w]] = fetch[fetcher[w]]
  BY <1>11 DEF Loading
<1>12. CASE fetch' = fetch
            /\ (fetcher'[v] \notin Fetches \/ (fetcher'[v] = fetcher[v] /\ v \in strayed'))
            /\ fetcher' \in [Viewports -> Fetches \cup {Unknown, None, Dead}]
            /\ \A u \in Viewports : u # v => fetcher'[u] = fetcher[u]
  <2>1. CacheTypes'
    BY <1>1, <1>2, <1>7, <1>12 DEF CacheTypes
  <2>2. CallsOK'
    <3>1. \A g \in Fetches : fetch[g] # None => CallIsConsistent(fetch[g])
      BY DEF CacheInv, CallsOK
    <3>2. Loading(v)' => fetch'[fetcher'[v]] \in FetchRecords /\ fetch'[fetcher'[v]].viewport = v
      BY <1>12 DEF Loading, CacheInv, CallsOK
    <3> QED
      BY <1>10, <1>11, <1>12, <3>1, <3>2 DEF CallsOK
  <2>3. LoadingOK'
    <3>1. Loading(v)' => v \in strayed'
      BY <1>12 DEF Loading
    <3> QED
      BY <1>1, <1>10, <1>11, <1>12, <3>1 DEF LoadingOK, Shown
  <2> QED
    BY <1>9, <2>1, <2>2, <2>3 DEF CacheInv
<1>13. CASE compute_overlap(vp, vp.view_segment) = "CACHED"
  <2>1. /\ fetcher' = [fetcher EXCEPT ![v] = IF IsOutdated(v, line) THEN Unknown
                                             ELSE IF @ = Unknown THEN None ELSE @]
        /\ strayed' = IF Loading(v) /\ ~IsOutdated(v, line) THEN strayed \cup {v}
                      ELSE strayed \ {v}
        /\ fetch' = fetch
    BY <1>1, <1>13
  <2>2. fetcher'[v] \notin Fetches \/ (fetcher'[v] = fetcher[v] /\ v \in strayed')
    BY <1>2, <1>4, <2>1 DEF Loading
  <2>3. fetcher' \in [Viewports -> Fetches \cup {Unknown, None, Dead}]
        /\ \A u \in Viewports : u # v => fetcher'[u] = fetcher[u]
    BY <1>2, <2>1
  <2> QED
    BY <1>12, <2>1, <2>2, <2>3
<1>14. CASE compute_overlap(vp, vp.view_segment) # "CACHED" /\ reply = "FAILED"
  <2>1. fetcher' = [fetcher EXCEPT ![v] = Dead] /\ fetch' = fetch
    BY <1>1, <1>14 DEF StartFetch
  <2>2. fetcher'[v] \notin Fetches
        /\ fetcher' \in [Viewports -> Fetches \cup {Unknown, None, Dead}]
        /\ \A u \in Viewports : u # v => fetcher'[u] = fetcher[u]
    BY <1>2, <1>4, <2>1
  <2> QED
    BY <1>12, <2>1, <2>2
<1>15. CASE compute_overlap(vp, vp.view_segment) # "CACHED" /\ reply # "FAILED"
  <2> DEFINE k == new_call(v, vp, reply)
  <2>1. /\ fetch[f] = None /\ fetcher' = [fetcher EXCEPT ![v] = f]
        /\ fetch' = [fetch EXCEPT ![f] = k]
    BY <1>1, <1>15 DEF StartFetch
  <2>2. IsMissed(vp, n, number_of_items_)
    BY <1>3, <1>6, <1>15 DEF IsMissed
  <2>3. get_missing_segment(vp) \in Segments
    BY <1>6, MissingType
  <2>4. /\ k \in FetchRecords /\ CallIsConsistent(k) /\ k.viewport = v /\ k.list = list_id_
        /\ k.segment = get_missing_segment(vp)
    BY <1>2, <1>15, <2>3 DEF new_call, FetchRecords, CallStates, CallIsConsistent
  <2> HIDE DEF k
  <2>5. /\ fetch' \in [Fetches -> FetchRecords \cup {None}] /\ fetch'[f] = k
        /\ \A g \in Fetches : g # f => fetch'[g] = fetch[g]
        /\ fetcher' \in [Viewports -> Fetches \cup {Unknown, None, Dead}] /\ fetcher'[v] = f
        /\ \A u \in Viewports : u # v => fetcher'[u] = fetcher[u]
    BY <1>2, <2>1, <2>4
  <2>6. ASSUME NEW w \in Viewports, w # v, Loading(w)'
        PROVE  fetcher'[w] = fetcher[w] /\ fetch'[fetcher[w]] = fetch[fetcher[w]]
    <3>1. fetcher'[w] = fetcher[w] /\ Loading(w) /\ fetcher[w] \in Fetches
      BY <2>5, <2>6 DEF Loading
    <3>2. fetcher[w] # f
      BY <1>4, <2>1, <3>1 DEF CacheInv, CallsOK
    <3> QED
      BY <2>5, <3>1, <3>2
  <2>7. CacheTypes'
    BY <1>1, <1>2, <1>7, <2>5 DEF CacheTypes
  <2>8. CallsOK'
    <3>1. \A g \in Fetches : fetch'[g] # None => CallIsConsistent(fetch'[g])
      BY <2>4, <2>5 DEF CacheInv, CallsOK
    <3>2. \A w \in Viewports : Loading(w)' => /\ fetch'[fetcher'[w]] \in FetchRecords
                                              /\ fetch'[fetcher'[w]].viewport = w
      BY <1>10, <2>4, <2>5, <2>6
    <3> QED
      BY <3>1, <3>2 DEF CallsOK
  <2>9. LoadingOK'
    <3> SUFFICES ASSUME NEW w \in Viewports \ (strayed' \cup spoiled'), Loading(w)',
                        ~IsDoomed(fetch'[fetcher'[w]])
                 PROVE  /\ fetch'[fetcher'[w]].list \in kin
                        /\ Size[fetch'[fetcher'[w]].list] = number_of_items_
                        /\ fetch'[fetcher'[w]].segment = get_missing_segment(viewport'[w])
                        /\ IsMissed(viewport'[w], Shown(w), number_of_items_)
      BY <1>1 DEF LoadingOK, Shown
    <3>1. CASE w = v
      <4>1. number_of_items_ = Size[list_id_]
        BY <1>1, <1>15, <3>1
      <4> QED
        BY <1>2, <1>7, <2>2, <2>4, <2>5, <3>1, <4>1 DEF n
    <3>2. CASE w # v
      BY <1>10, <2>6, <3>2
    <3> QED
      BY <3>1, <3>2
  <2> QED
    BY <1>9, <2>7, <2>8, <2>9 DEF CacheInv
<1> QED
  BY <1>13, <1>14, <1>15

(* A viewport becomes known, with nothing in RAM.                          *)
LEMMA CacheAfterGetItem ==
    ASSUME CacheInv, NEW v \in Viewports, NEW line \in Nat, GetItem(v, line)
    PROVE  CacheInv'
<1>1. /\ fetcher[v] = Unknown /\ spoiled' = spoiled \ {v} /\ strayed' = strayed
      /\ viewport' = [viewport EXCEPT ![v] = clear_for_line(viewport[v], line)]
      /\ fetcher' = [fetcher EXCEPT ![v] = None]
      /\ UNCHANGED <<list_id_, number_of_items_, kin, fetch>>
  BY DEF GetItem, announced, list_vars
<1>2. /\ viewport \in [Viewports -> ViewportRecords]
      /\ fetcher \in [Viewports -> Fetches \cup {Unknown, None, Dead}]
  BY DEF CacheInv, CacheTypes
<1>3. /\ viewport' \in [Viewports -> ViewportRecords]
      /\ \A m, owners : IsRight(viewport'[v], m, owners)
      /\ \A w \in Viewports : w # v => viewport'[w] = viewport[w]
  BY <1>1, <1>2, ClearedIsRight
<1>4. /\ fetcher' \in [Viewports -> Fetches \cup {Unknown, None, Dead}] /\ fetcher'[v] = None
      /\ \A w \in Viewports : w # v => fetcher'[w] = fetcher[w]
  BY <1>1, <1>2
<1>5. \A w \in Viewports : Loading(w)' => w # v /\ Loading(w)
  BY <1>4, ListAssumption DEF Loading
<1>6. CacheTypes'
  BY <1>1, <1>3, <1>4 DEF CacheInv, CacheTypes
<1>7. CallsOK'
  BY <1>1, <1>4, <1>5 DEF CacheInv, CallsOK
<1>8. ItemsOK'
  BY <1>1, <1>3, <1>4 DEF CacheInv, ItemsOK, Shown
<1>9. LoadingOK'
  BY <1>1, <1>3, <1>4, <1>5 DEF CacheInv, LoadingOK, Shown
<1> QED
  BY <1>6, <1>7, <1>8, <1>9 DEF CacheInv

(* Lines are written only if they are those which are missing.             *)
LEMMA UpdateDoes ==
    ASSUME CacheInv, NEW f \in Fetches, fetch[f] # None, HasLines(f), IsCurrent(f)
    PROVE  LET v == fetch[f].viewport
               new == Contents(fetch[f].list, fetch[f].segment)
           IN  /\ update_cache_region(viewport[v], new) \in ViewportRecords
               /\ v \notin strayed \cup spoiled =>
                      /\ UpdateFits(viewport[v], new)
                      /\ list_id_ # NoList =>
                             IsRight(update_cache_region(viewport[v], new), Shown(v), kin)
<1> DEFINE v == fetch[f].viewport
           new == Contents(fetch[f].list, fetch[f].segment)
           vp == viewport[v]
<1>1. /\ fetch[f] \in FetchRecords /\ v \in Viewports /\ fetch[f].list \in Lists
      /\ fetch[f].segment \in Segments /\ vp \in ViewportRecords /\ kin \in SUBSET Lists
      /\ number_of_items_ \in Nat
  BY DEF CacheInv, CacheTypes, FetchRecords
<1>2. fetcher[v] = f /\ Loading(v) /\ ~IsDoomed(fetch[f])
  BY DEF IsCurrent, Loading, HasLines, IsDoomed
<1>3. update_cache_region(vp, new) \in ViewportRecords
  <2>1. new \in Seq(Items)
    BY <1>1, ContentsType
  <2> QED
    BY <1>1, <2>1, UpdateType
<1>4. CASE list_id_ = NoList /\ v \notin strayed \cup spoiled
  <2>1. vp.items = <<>>
    BY <1>1, <1>2, <1>4 DEF CacheInv, LoadingOK
  <2>2. prepare_update(vp) = <<>>
    BY <1>1, <2>1, EmptyRoom
  <2> QED
    BY <1>3, <1>4, <2>2 DEF UpdateFits
<1>5. CASE list_id_ # NoList /\ v \notin strayed \cup spoiled
  <2>1. /\ fetch[f].list \in kin /\ Size[fetch[f].list] = number_of_items_
        /\ fetch[f].segment = get_missing_segment(vp)
        /\ IsMissed(vp, Shown(v), number_of_items_)
    BY <1>1, <1>2, <1>5 DEF CacheInv, LoadingOK
  <2>2. IsRight(vp, Shown(v), kin)
    BY <1>1, <1>2, <1>5, ListAssumption DEF CacheInv, ItemsOK, Loading
  <2>3. Shown(v) \in Nat
    BY <1>1, ListAssumption DEF Shown
  <2> QED
    BY <1>1, <2>1, <2>2, <2>3, UpdateIsRight
<1> QED
  BY <1>3, <1>4, <1>5

LEMMA CacheAfterDone ==
    ASSUME CacheInv, NEW f \in Fetches, Done(f)
    PROVE  CacheInv'
<1> DEFINE v == fetch[f].viewport
           new == Contents(fetch[f].list, fetch[f].segment)
<1>1. /\ fetch[f] # None /\ fetch' = [fetch EXCEPT ![f] = None]
      /\ UNCHANGED <<list_id_, number_of_items_, kin>>
      /\ strayed' = IF IsCurrent(f) THEN strayed \ {v} ELSE strayed
      /\ spoiled' = IF IsCurrent(f) /\ HasLines(f) /\ v \in strayed THEN spoiled \cup {v}
                    ELSE spoiled
      /\ IF IsCurrent(f)
         THEN /\ fetcher' = [fetcher EXCEPT ![v] = None]
              /\ viewport' = IF HasLines(f)
                             THEN [viewport EXCEPT ![v] = update_cache_region(@, new)]
                             ELSE viewport
         ELSE fetcher' = fetcher /\ viewport' = viewport
  BY DEF Done, list_vars
<1>2. /\ fetch[f] \in FetchRecords /\ v \in Viewports
      /\ viewport \in [Viewports -> ViewportRecords]
      /\ fetcher \in [Viewports -> Fetches \cup {Unknown, None, Dead}]
      /\ fetch \in [Fetches -> FetchRecords \cup {None}]
  BY <1>1 DEF CacheInv, CacheTypes, FetchRecords
<1>3. \A w \in Viewports : fetcher[w] = f => w = v
  BY DEF CacheInv, CallsOK, Loading
<1>4. /\ fetcher' \in [Viewports -> Fetches \cup {Unknown, None, Dead}]
      /\ \A w \in Viewports : fetcher'[w] = fetcher[w] \/ (fetcher'[w] = None /\ fetcher[w] = f)
      /\ \A w \in Viewports : fetcher'[w] # f
  <2>1. f # None
    BY ListAssumption
  <2>2. fetcher[v] = f <=> IsCurrent(f)
    BY DEF IsCurrent
  <2>3. /\ v \in Viewports
        /\ fetcher \in [Viewports -> Fetches \cup {Unknown, None, Dead}]
    BY <1>2
  <2>4. fetcher' = IF IsCurrent(f) THEN [fetcher EXCEPT ![v] = None] ELSE fetcher
    BY <1>1
  <2> HIDE DEF v
  <2>5. CASE IsCurrent(f)
    <3>1. fetcher' = [fetcher EXCEPT ![v] = None]
      BY <2>4, <2>5
    <3>2. fetcher' \in [Viewports -> Fetches \cup {Unknown, None, Dead}]
      BY <2>3, <3>1
    <3>3. \A w \in Viewports : fetcher'[w] = IF w = v THEN None ELSE fetcher[w]
      BY <2>3, <3>1
    <3> QED
      BY <1>3, <2>1, <2>2, <2>5, <3>2, <3>3
  <2>6. CASE ~IsCurrent(f)
    <3>1. fetcher' = fetcher
      BY <2>4, <2>6
    <3> QED
      BY <1>3, <2>2, <2>3, <2>6, <3>1
  <2> QED
    BY <2>5, <2>6
<1>5. /\ viewport' \in [Viewports -> ViewportRecords]
      /\ \A w \in Viewports : (w = v /\ IsCurrent(f)) \/ viewport'[w] = viewport[w]
      /\ list_id_ # NoList =>
             \A w \in Viewports \ spoiled' :
                 fetcher[w] # Unknown => IsRight(viewport'[w], Shown(w), kin)
  <2>1. list_id_ # NoList =>
            \A w \in Viewports \ spoiled' :
                fetcher[w] # Unknown => IsRight(viewport[w], Shown(w), kin)
    BY <1>1 DEF CacheInv, ItemsOK
  <2>2. CASE viewport' = viewport
    BY <1>2, <2>1, <2>2
  <2>3. CASE IsCurrent(f) /\ HasLines(f)
    <3> DEFINE r == update_cache_region(viewport[v], new)
    <3>1. viewport' = [viewport EXCEPT ![v] = r]
      BY <1>1, <2>3
    <3>2. /\ r \in ViewportRecords
          /\ list_id_ # NoList /\ v \notin spoiled' => IsRight(r, Shown(v), kin)
      BY <1>1, <2>3, UpdateDoes
    <3> HIDE DEF r, v
    <3> QED
      BY <1>2, <2>1, <2>3, <3>1, <3>2
  <2> QED
    BY <1>1, <2>2, <2>3
<1>6. \A g \in Fetches : g # f => fetch'[g] = fetch[g]
  BY <1>1, <1>2
<1>7. fetch' \in [Fetches -> FetchRecords \cup {None}] /\ fetch'[f] = None
  BY <1>1, <1>2
<1>8. \A w \in Viewports : Loading(w)' =>
          /\ Loading(w) /\ fetcher'[w] = fetcher[w] /\ fetch'[fetcher'[w]] = fetch[fetcher[w]]
          /\ viewport'[w] = viewport[w]
  <2> SUFFICES ASSUME NEW w \in Viewports, Loading(w)'
               PROVE  /\ Loading(w) /\ fetcher'[w] = fetcher[w]
                      /\ fetch'[fetcher'[w]] = fetch[fetcher[w]] /\ viewport'[w] = viewport[w]
    OBVIOUS
  <2>1. fetcher'[w] \in Fetches /\ fetcher'[w] = fetcher[w] /\ fetcher[w] # f
    BY <1>4, ListAssumption DEF Loading
  <2>2. ~(w = v /\ IsCurrent(f))
    BY <2>1 DEF IsCurrent
  <2> HIDE DEF v
  <2> QED
    BY <1>5, <1>6, <2>1, <2>2 DEF Loading
<1>9. CacheTypes'
  <2> HIDE DEF v, new
  <2> QED
    BY <1>1, <1>4, <1>5, <1>7 DEF CacheInv, CacheTypes
<1>10. CallsOK'
  <2>1. \A g \in Fetches : fetch'[g] # None => CallIsConsistent(fetch'[g])
    BY <1>6, <1>7 DEF CacheInv, CallsOK
  <2> QED
    BY <1>8, <2>1 DEF CacheInv, CallsOK
<1>11. ItemsOK'
  <2>1. \A w \in Viewports : fetcher'[w] # Unknown => fetcher[w] # Unknown
    BY <1>4, ListAssumption
  <2> QED
    BY <1>1, <1>5, <2>1 DEF ItemsOK, Shown
<1>12. LoadingOK'
  <2> SUFFICES ASSUME NEW w \in Viewports \ (strayed' \cup spoiled'), Loading(w)',
                      ~IsDoomed(fetch'[fetcher'[w]])
               PROVE  IF list_id_ = NoList THEN viewport'[w].items = <<>>
                      ELSE /\ fetch'[fetcher'[w]].list \in kin
                           /\ Size[fetch'[fetcher'[w]].list] = number_of_items_
                           /\ fetch'[fetcher'[w]].segment = get_missing_segment(viewport'[w])
                           /\ IsMissed(viewport'[w], Shown(w), number_of_items_)
    BY <1>1 DEF LoadingOK, Shown
  <2>1. w \notin strayed \cup spoiled
    <3>1. fetcher'[w] # None /\ (IsCurrent(f) => fetcher'[v] = None)
      BY <1>1, <1>2, ListAssumption DEF Loading
    <3> QED
      BY <1>1, <3>1
  <2> QED
    BY <1>8, <2>1 DEF CacheInv, LoadingOK
<1> QED
  BY <1>9, <1>10, <1>11, <1>12 DEF CacheInv

LEMMA CacheInit == ListInit => CacheInv
<1> SUFFICES ASSUME ListInit
             PROVE  CacheInv
  OBVIOUS
<1>1. EmptyViewport \in ViewportRecords
  BY DEF EmptyViewport, ViewportRecords, Segment, Segments
<1>2. CacheTypes
  BY <1>1 DEF ListInit, CacheTypes
<1>3. \A v \in Viewports : ~Loading(v)
  BY ListAssumption DEF ListInit, Loading
<1> QED
  BY <1>2, <1>3 DEF ListInit, CacheInv, CallsOK, ItemsOK, LoadingOK

LEMMA CacheStep ==
    ASSUME QueryTypes, CacheInv, [ListNext]_vars
    PROVE  CacheInv'
<1>1. ASSUME NEW l \in Lists, NEW v \in Viewports, NEW q \in Queries, EnterList(l, 1, v, q)
      PROVE  CacheInv'
  <2>1. UNCHANGED <<list_vars, viewport, fetch_vars, history>>
    BY <1>1, Zenon DEF EnterList
  <2> QED
    BY <2>1, CacheUnchanged
<1>2. ASSUME NEW v \in Viewports, NEW q \in Queries, ReloadList(0, v, q)
      PROVE  CacheInv'
  <2>1. UNCHANGED <<list_vars, viewport, fetch_vars, history>>
    BY <1>2, Zenon DEF ReloadList
  <2> QED
    BY <2>1, CacheUnchanged
<1>3. ASSUME NEW c \in Queries, NEW answer \in Answers, EnterReady(c, answer)
      PROVE  CacheInv'
  BY <1>3, CacheAfterAnswer
<1>4. ASSUME NEW l \in Lists, NEW r \in Lists \cup {NoList}, NEW q \in Queries,
             ListInvalidate(l, r, q)
      PROVE  CacheInv'
  BY <1>4, CacheAfterInvalidation
<1>5. ASSUME NEW v \in Viewports, NEW line \in AllLines, NEW f \in Fetches,
             NEW r \in {"WAIT_FOR_NOTIFICATION", "RESULT_FETCHED", "FAILED"},
             Hint(v, line, f, r)
      PROVE  CacheInv'
  <2>1. line \in Nat
    BY DEF AllLines
  <2> QED
    BY <1>5, <2>1, CacheAfterHint
<1>6. ASSUME NEW v \in Viewports, NEW line \in AllLines, GetItem(v, line)
      PROVE  CacheInv'
  <2>1. line \in Nat
    BY DEF AllLines
  <2> QED
    BY <1>6, <2>1, CacheAfterGetItem
<1>7. CASE CancelAll
  BY <1>7, CacheAfterCancelAll
<1>8. ASSUME NEW f \in Fetches, \/ \E a \in BOOLEAN : Signal(f, a)
                                \/ \E e \in {"RESULT_FETCHED", "FAILED"} : Fetch(f, e)
      PROVE  CacheInv'
  BY <1>8, CacheAfterCallStep
<1>9. ASSUME NEW f \in Fetches, Done(f)
      PROVE  CacheInv'
  BY <1>9, CacheAfterDone
<1>10. CASE UNCHANGED vars
  <2>1. UNCHANGED <<list_vars, viewport, fetch_vars, history>>
    BY <1>10 DEF vars
  <2> QED
    BY <2>1, CacheUnchanged
<1> QED
  BY <1>1, <1>2, <1>3, <1>4, <1>5, <1>6, <1>7, <1>8, <1>9, <1>10 DEF ListNext

THEOREM CacheInvHolds == Spec => [](QueryTypes /\ CacheInv)
<1>1. ListInit => QueryTypes
  BY ListAssumption DEF ListInit, QueryTypes
<1>2. QueryTypes /\ CacheInv /\ [ListNext]_vars => QueryTypes' /\ CacheInv'
  BY TypesStep, CacheStep
<1> QED
  BY <1>1, <1>2, CacheInit, PTL DEF Spec

(***************************************************************************)
(* What is in RAM is all there and where it belongs: List::DBusList, for   *)
(* any lists, viewports and calls, however the view moves and whatever is  *)
(* entered, replaced or canceled while lines are being loaded.  Only lines *)
(* that arrive after their view has gone on to others, or to another list, *)
(* spoil it, until the viewport is cleared.                                *)
(***************************************************************************)
THEOREM ItemsAreThoseOfTheList == Spec => []CacheIsRight
<1>1. CacheInv => CacheIsRight
  <2> SUFFICES ASSUME CacheInv
               PROVE  CacheIsRight
    OBVIOUS
  <2> SUFFICES ASSUME NEW v \in Viewports \ spoiled, list_id_ # NoList, fetcher[v] # Unknown
               PROVE  /\ \A i \in 1 .. Len(viewport[v].items) :
                            \/ viewport[v].items[i] = NoItem
                            \/ /\ viewport[v].items[i].line
                                      = viewport[v].items_segment.line + i - 1
                               /\ viewport[v].items[i].list \in kin
                      /\ \A n \in Lines(viewport[v].items_segment) :
                            item_at(viewport[v], n) # NoItem
    BY DEF CacheIsRight, CacheHoldsItems, SegmentIsCached
  <2> DEFINE vp == viewport[v]
             s == vp.items_segment
  <2>1. IsRight(vp, Shown(v), kin)
    BY DEF CacheInv, ItemsOK
  <2>2. vp \in ViewportRecords /\ s.line \in Nat /\ s.count \in Nat /\ kin \in SUBSET Lists
    BY DEF CacheInv, CacheTypes, ViewportRecords, Segments
  <2> HIDE DEF vp
  <2>3. /\ Len(vp.items) = s.count
        /\ \A i \in 1 .. Len(vp.items) : vp.items[i] \in [list : kin, line : {s.line + i - 1}]
    BY <2>1 DEF IsRight
  <2>4. ASSUME NEW n \in Lines(s)
        PROVE  item_at(vp, n) # NoItem
    <3>1. contains_line(s, n) /\ n - s.line + 1 \in 1 .. Len(vp.items)
      BY <2>2, <2>3 DEF Lines, contains_line, beyond
    <3>2. item_at(vp, n) = vp.items[n - s.line + 1]
      BY <3>1 DEF item_at
    <3>3. item_at(vp, n) \in [list : Lists, line : Nat]
      <4>1. s.line + (n - s.line + 1) - 1 \in Nat
        BY <2>2 DEF Lines, beyond
      <4> QED
        BY <2>2, <2>3, <3>1, <3>2, <4>1
    <3> QED
      BY <3>3, ListAssumption
  <2> QED
    BY <2>3, <2>4 DEF vp
<1> QED
  BY <1>1, CacheInvHolds, PTL

(***************************************************************************)
(* Lines that have been loaded fit into the room made for them: RamList    *)
(* and List::DBusListViewport::update_cache_region(), with the same        *)
(* exception.                                                              *)
(***************************************************************************)
THEOREM LoadedLinesFit == Spec => []UpdatesFit
<1>1. ASSUME CacheInv
      PROVE  UpdatesFit
  <2> SUFFICES ASSUME NEW v \in Viewports, v \notin strayed \cup spoiled, Loading(v),
                      HasLines(fetcher[v])
               PROVE  UpdateFits(viewport[v], Contents(fetch[fetcher[v]].list,
                                                       fetch[fetcher[v]].segment))
    BY DEF UpdatesFit
  <2>1. /\ fetcher[v] \in Fetches /\ fetch[fetcher[v]] # None
        /\ fetch[fetcher[v]].viewport = v /\ IsCurrent(fetcher[v])
    BY <1>1, ListAssumption DEF CacheInv, CallsOK, Loading, IsCurrent
  <2> QED
    BY <1>1, <2>1, UpdateDoes
<1> QED
  BY <1>1, CacheInvHolds, PTL

-----------------------------------------------------------------------------
(***************************************************************************)
(* The first step of a jump of a browser "b" to a context, whatever gets   *)
(* in the way of it: there is nothing in the slot for list IDs that could  *)
(* be answered instead.                                                    *)
(***************************************************************************)
Fields == DOMAIN InitialView

Jumps(b) ==
    /\ DOMAIN b = Fields /\ DOMAIN b.jump = DOMAIN NotJumping
    /\ b.jump.state = "GET_CONTEXT_PARENT_ID" <=> b.get_context_root = "invoked"
    /\ b.jump.state = "GET_CONTEXT_PARENT_ID" => b.slot = Null
    /\ b.slot = Null \/ b.slot.chain \in Chains

\* A browser in some other step.
JumpsLater(b) == Jumps(b) /\ b.jump.state # "GET_CONTEXT_PARENT_ID"

LEMMA NullIsNoCall == Null \notin {"invoked", "not invoked"}
  BY NullAssumption

LEMMA JumpsAfterDelete ==
    ASSUME NEW b, Jumps(b)
    PROVE  /\ Jumps(delete_get_list_id(b)) /\ Jumps(delete_all(b))
           /\ delete_get_list_id(b).slot = Null
           /\ delete_get_list_id(b).jump = b.jump /\ delete_all(b).jump = b.jump
           /\ delete_all(b).slot = Null
  BY DEF Jumps, delete_get_list_id, delete_all, Fields, InitialView

LEMMA JumpsAfterCancel ==
    ASSUME NEW b, Jumps(b)
    PROVE  JumpsLater(cancel_and_delete_all(b)) /\ cancel_and_delete_all(b).slot = Null
  <1> DEFINE d == [delete_get_list_id(b) EXCEPT !.get_parent_id = Null]
  <1>1. Jumps(d) /\ d.slot = Null
    BY JumpsAfterDelete DEF Jumps, Fields, InitialView
  <1>2. cancel_and_delete_all(b) = cancel_get_context_root(d)
    BY DEF cancel_and_delete_all
  <1> HIDE DEF d
  <1> DEFINE r == [d EXCEPT !.get_context_root = Null, !.jump = NotJumping,
                            !.asserted = @ /\ d.get_context_root = "invoked"]
  <1>3. CASE d.get_context_root = Null
    BY <1>1, <1>2, <1>3, NullIsNoCall DEF Jumps, JumpsLater, cancel_get_context_root
  <1>4. CASE d.get_context_root # Null
    <2>1. cancel_and_delete_all(b) = r
      BY <1>2, <1>4 DEF cancel_get_context_root
    <2>2. /\ DOMAIN r = DOMAIN d /\ r.get_context_root = Null /\ r.jump = NotJumping
          /\ r.slot = Null
      BY <1>1 DEF Jumps, Fields, InitialView
    <2>3. NotJumping.state = "NOT_JUMPING"
      BY DEF NotJumping
    <2> HIDE DEF r
    <2>4. JumpsLater(r) /\ r.slot = Null
      BY <1>1, <2>2, <2>3, NullIsNoCall DEF Jumps, JumpsLater
    <2> QED BY <2>1, <2>4
  <1> QED BY <1>3, <1>4

LEMMA JumpsAfterSetCall ==
    ASSUME NEW b, JumpsLater(b), NEW chain \in Chains, NEW list, NEW item, NEW context
    PROVE  JumpsLater(set_call(b, chain, list, item, context))
  <1> DEFINE d == delete_get_list_id(b)
  <1>1. JumpsLater(d)
    BY JumpsAfterDelete DEF JumpsLater
  <1> HIDE DEF d
  <1> QED BY <1>1 DEF d, Jumps, JumpsLater, set_call, Fields, InitialView

LEMMA JumpsAfterContextRoot ==
    ASSUME NEW b, JumpsLater(b), b.slot = Null, NEW c
    PROVE  Jumps(do_point_to_context_root_directory(b, c))
  BY NullIsNoCall DEF Jumps, JumpsLater, do_point_to_context_root_directory, is_jumping,
                      NotJumping, Fields, InitialView

LEMMA JumpsAfterRoot ==
    ASSUME NEW b, Jumps(b)
    PROVE  Jumps(point_to_root_directory(b))
  <1>1. JumpsLater(cancel_and_delete_all(b)) /\ cancel_and_delete_all(b).slot = Null
    BY JumpsAfterCancel
  <1> QED BY <1>1, JumpsAfterSetCall, JumpsAfterContextRoot
        DEF point_to_root_directory, do_point_to_real_root_directory, JumpsLater, Chains

LEMMA JumpsAfterChild ==
    ASSUME NEW b, Jumps(b), NEW item
    PROVE  JumpsLater(point_to_child_directory(b, item))
  <1> DEFINE d == cancel_and_delete_all(b)
             e == [d EXCEPT !.from_root = IF is_root_list(b, b.current) THEN item ELSE Null]
  <1>1. JumpsLater(d)
    BY JumpsAfterCancel
  <1> HIDE DEF d
  <1>2. JumpsLater(e)
    BY <1>1 DEF JumpsLater, Jumps, Fields, InitialView
  <1>3. point_to_child_directory(b, item) = set_call(e, "child", b.current, item, Null)
    BY DEF point_to_child_directory, d
  <1> HIDE DEF e
  <1> QED BY <1>2, <1>3, JumpsAfterSetCall DEF Chains

LEMMA JumpsAfterParentLink ==
    ASSUME NEW b, Jumps(b)
    PROVE  Jumps(point_to_parent_link(b))
  <1>1. Jumps(cancel_and_delete_all(b))
    BY JumpsAfterCancel DEF JumpsLater
  <1> QED BY <1>1 DEF point_to_parent_link, Jumps, Fields, InitialView

LEMMA JumpsAfterForm ==
    ASSUME NEW b, Jumps(b)
    PROVE  Jumps(search_form_found(b))
  BY DEF search_form_found, Jumps, Fields, InitialView

LEMMA JumpsAfterStep ==
    ASSUME NEW b, Jumps(b)
    PROVE  Jumps(next_jump_step(b))
  <1>1. CASE b.jump.state = "ENTER_CONTEXT_PARENT"
    <2> DEFINE d == [b EXCEPT !.jump.state = "GET_CONTEXT_LIST_ID"]
    <2>1. Jumps(d)
      BY <1>1 DEF Jumps, Fields, InitialView, NotJumping
    <2>2. next_jump_step(b) = point_to_child_directory(d, Service(b.jump.destination))
      BY <1>1 DEF next_jump_step
    <2> HIDE DEF d
    <2> QED BY <2>1, <2>2, JumpsAfterChild DEF JumpsLater
  <1>2. CASE b.jump.state = "ENTER_CONTEXT_LIST"
    <2> DEFINE r == [b EXCEPT !.restriction = set_boundary(@, b.jump.context_list_id),
                              !.asserted = @ /\ b.jump.context_list_id = b.current,
                              !.jump = NotJumping]
    <2>1. next_jump_step(b) = r
      BY <1>2 DEF next_jump_step
    <2>2. Jumps(r)
      BY <1>2 DEF Jumps, Fields, InitialView, NotJumping
    <2> QED BY <2>1, <2>2
  <1>3. CASE b.jump.state \notin {"ENTER_CONTEXT_PARENT", "ENTER_CONTEXT_LIST"}
    <2> DEFINE r == [b EXCEPT !.asserted = @ /\ is_jumping(b)]
    <2>1. next_jump_step(b) = r
      BY <1>3 DEF next_jump_step
    <2>2. Jumps(r)
      BY DEF Jumps, Fields, InitialView
    <2> QED BY <2>1, <2>2
  <1> QED BY <1>1, <1>2, <1>3

LEMMA JumpsAfterUpdate ==
    ASSUME NEW b, Jumps(b), NEW q, NEW result
    PROVE  Jumps(update_after_finish(b, q, result))
  <1>1. Jumps(jumped_anywhere(b))
    BY DEF jumped_anywhere, Jumps, Fields, InitialView
  <1> QED BY <1>1, JumpsAfterStep, JumpsAfterRoot DEF update_after_finish

LEMMA JumpsAfterEvent ==
    ASSUME NEW b, Jumps(b), NEW q, NEW result
    PROVE  Jumps(handle_enter_list_event(b, q, result))
  <1> DEFINE done == finished(b, q, result)
             rooted == IF q.caller = "ENTER_ROOT" THEN [done EXCEPT !.root = done.current]
                       ELSE done
             found == IF q.caller \in {"ENTER_CHILD", "ENTER_CONTEXT_ROOT"}
                      THEN search_form_found(rooted) ELSE rooted
  <1>1. Jumps(done)
    BY JumpsAfterDelete DEF finished, Jumps, Fields, InitialView
  <1> HIDE DEF done
  <1>2. Jumps(rooted)
    BY <1>1 DEF Jumps, Fields, InitialView
  <1> HIDE DEF rooted
  <1>3. Jumps(found)
    BY <1>2, JumpsAfterForm
  <1>4. handle_enter_list_event(b, q, result) = update_after_finish(found, q, result)
    BY DEF handle_enter_list_event, done, rooted
  <1> HIDE DEF found
  <1> QED BY <1>3, <1>4, JumpsAfterUpdate

LEMMA JumpsAfterEnter ==
    ASSUME NEW b, Jumps(b), NEW l, NEW caller
    PROVE  Jumps(enter_list_async(b, l, caller))
  <1> DEFINE n == [b EXCEPT !.query = Null]
             h == handle_enter_list_event(n, b.query, "CANCELED")
             o == [b EXCEPT !.outdated = b.query]
             c == IF b.query = Null THEN b ELSE IF b.query.canceled THEN o ELSE h
  <1>1. Jumps(n) /\ Jumps(o)
    BY DEF Jumps, Fields, InitialView
  <1>2. Jumps(h)
    <2> HIDE DEF n
    <2> QED BY <1>1, JumpsAfterEvent
  <1>3. enter_list_async(b, l, caller)
           = [c EXCEPT !.query = [caller |-> caller, list |-> l, canceled |-> FALSE]]
    BY DEF enter_list_async
  <1>4. Jumps(c)
    <2> HIDE DEF h, o
    <2> QED BY <1>1, <1>2
  <1> HIDE DEF c
  <1> QED BY <1>3, <1>4 DEF Jumps, Fields, InitialView

LEMMA JumpsAfterAnywhere ==
    ASSUME NEW b, Jumps(b), NEW l, NEW boundary
    PROVE  Jumps(point_to_any_location(b, l, boundary))
  <1> DEFINE d == [b EXCEPT !.boundary = boundary]
  <1>1. Jumps(d)
    BY DEF Jumps, Fields, InitialView
  <1>2. point_to_any_location(b, l, boundary) = enter_list_async(d, l, "ENTER_ANYWHERE")
    BY DEF point_to_any_location
  <1> HIDE DEF d
  <1> QED BY <1>1, <1>2, JumpsAfterEnter

(***************************************************************************)
(* Answers                                                                 *)
(***************************************************************************)
LEMMA JumpsAfterListID ==
    ASSUME NEW b, JumpsLater(b), NEW call, call.chain \in Chains, NEW l
    PROVE  Jumps(got_list_id(b, call, l))
  <1>1. \A chain \in Chains : \A list, item, context :
           Jumps(set_call(b, chain, list, item, context))
    BY JumpsAfterSetCall DEF JumpsLater
  <1>2. Jumps(b)
    BY DEF JumpsLater
  <1>3. \A x : Jumps(point_to_search_form__got_root_list_id(b, l, x))
    BY <1>1, <1>2, JumpsAfterRoot DEF point_to_search_form__got_root_list_id, Chains
  <1>4. Jumps(point_to_search_form__got_service_list_id(b, l))
    BY <1>2, JumpsAfterRoot, JumpsAfterAnywhere DEF point_to_search_form__got_service_list_id
  <1>5. Jumps(point_to_root_directory__got_list_id(b, l))
    BY <1>2, JumpsAfterEnter, JumpsAfterDelete DEF point_to_root_directory__got_list_id
  <1>6. Jumps(point_to_child_directory__got_list_id(b, l))
    <2> DEFINE p == put_context_list_id(b, l)
               c == [b EXCEPT !.jump = NotJumping]
    <2>1. Jumps(p)
      BY DEF put_context_list_id, JumpsLater, Jumps, Fields, InitialView, NotJumping
    <2>2. Jumps(c)
      BY DEF JumpsLater, Jumps, Fields, InitialView, NotJumping
    <2>3. /\ Jumps(delete_get_list_id(enter_list_async(p, l, "ENTER_CONTEXT_ROOT")))
          /\ Jumps(delete_get_list_id(enter_list_async(b, l, "ENTER_CHILD")))
      <3> HIDE DEF p
      <3> QED BY <1>2, <2>1, JumpsAfterEnter, JumpsAfterDelete
    <2> QED BY <2>2, <2>3 DEF point_to_child_directory__got_list_id
  <1> QED BY <1>3, <1>4, <1>5, <1>6 DEF got_list_id, Chains

LEMMA JumpsAfterContextParent ==
    ASSUME NEW b, Jumps(b), b.get_context_root = "invoked", NEW l
    PROVE  Jumps(point_to_list_context_root__got_parent_link(b, l))
  <1> DEFINE c == [b EXCEPT !.get_context_root = Null, !.jump = NotJumping]
             p == [b EXCEPT !.get_context_root = Null, !.jump.state = "ENTER_CONTEXT_PARENT"]
  <1>1. NotJumping.state = "NOT_JUMPING"
    BY DEF NotJumping
  <1>2. Jumps(c)
    BY <1>1, NullIsNoCall DEF Jumps, Fields, InitialView
  <1>3. Jumps(p)
    BY NullIsNoCall DEF Jumps, Fields, InitialView, NotJumping
  <1>4. Jumps(enter_list_async(p, l, "ENTER_CONTEXT_ROOT"))
    <2> HIDE DEF p
    <2> QED BY <1>3, JumpsAfterEnter
  <1> QED BY <1>2, <1>4 DEF point_to_list_context_root__got_parent_link

LEMMA JumpsAfterParent ==
    ASSUME NEW b, Jumps(b), NEW l
    PROVE  Jumps(point_to_parent_link__got_parent_link(b, l))
  <1> DEFINE p == [b EXCEPT !.get_parent_id = Null]
  <1>1. Jumps(p)
    BY DEF Jumps, Fields, InitialView
  <1>2. point_to_parent_link__got_parent_link(b, l)
           = IF l = Null THEN p ELSE enter_list_async(p, l, "ENTER_PARENT")
    BY DEF point_to_parent_link__got_parent_link
  <1> HIDE DEF p
  <1> QED BY <1>1, <1>2, JumpsAfterEnter

LEMMA JumpsAfterInvalidate ==
    ASSUME NEW b, Jumps(b), NEW l, NEW replacement
    PROVE  Jumps(list_invalidate(b, l, replacement))
  <1> DEFINE f == [b EXCEPT !.search_forms =
                               IF is_root_list(b, l) THEN [c \in Contexts |-> Null] ELSE @,
                            !.root = IF is_root_list(b, l) THEN replacement ELSE @,
                            !.restriction = restriction_list_invalidate(@, l, replacement)]
             n == file_list_invalidate(f, l, replacement)
             u == [n EXCEPT !.current = Null]
             r == [n EXCEPT !.current = replacement]
  <1>1. Jumps(f)
    BY DEF Jumps, Fields, InitialView
  <1>2. Jumps(n)
    <2> HIDE DEF f
    <2> QED BY <1>1 DEF file_list_invalidate, Jumps, Fields, InitialView
  <1>3. list_invalidate(b, l, replacement)
           = IF l = b.restriction.root_list_id /\ replacement = Null THEN u
             ELSE IF l # b.current
             THEN IF b.current = Null THEN point_to_root_directory(n) ELSE n
             ELSE IF replacement # Null THEN reload_list(r)
             ELSE point_to_root_directory(n)
    BY DEF list_invalidate
  <1> HIDE DEF n
  <1>4. Jumps(u) /\ Jumps(r)
    BY <1>2 DEF Jumps, Fields, InitialView
  <1> HIDE DEF u, r
  <1> QED BY <1>2, <1>3, <1>4, JumpsAfterRoot, JumpsAfterEnter DEF reload_list

(***************************************************************************)
(* A jump is in its first step while the call for the root of its context  *)
(* is on its way, and in no other: do_point_to_context_root_directory(),   *)
(* put_parent_list_id() and the callback of a canceled call, for any       *)
(* number of contexts, whatever gets in the way of navigation.             *)
(***************************************************************************)
THEOREM FirstStepEnds == BrowserSpec => []FirstStepIsDriven
<1>1. Init => Jumps(browser)
  <2> SUFFICES ASSUME Init
               PROVE  Jumps(browser)
    OBVIOUS
  <2>1. JumpsLater(InitialView)
    BY NullIsNoCall DEF Jumps, JumpsLater, InitialView, NotJumping, Fields
  <2> QED BY <2>1, JumpsAfterSetCall DEF Init, do_point_to_real_root_directory, JumpsLater, Chains
<1>2. Jumps(browser) /\ [Next]_browser_vars => Jumps(browser)'
  <2> SUFFICES ASSUME Jumps(browser), [Next]_browser_vars
               PROVE  Jumps(browser')
    OBVIOUS
  <2> DEFINE root == point_to_root_directory(browser)
             canceled == cancel_and_delete_all(browser)
  <2>1. Jumps(root) /\ JumpsLater(canceled)
    BY JumpsAfterRoot, JumpsAfterCancel
  <2>2. ASSUME browser' \in {browser, root}
        PROVE  Jumps(browser')
    BY <2>1, <2>2
  <2> HIDE DEF root, canceled
  <2>3. CASE ReloadOnInput \/ Focus \/ OAuthTimerExpires \/ \E c \in Contexts : LoggedIn(c)
    BY <2>2, <2>3 DEF root, ReloadOnInput, Focus, OAuthTimerExpires, LoggedIn
  <2>4. CASE Defocus \/ SourceDeselected \/ \E c \in Contexts : OAuthRequested(c)
    BY <2>2, <2>4 DEF Defocus, SourceDeselected, OAuthRequested
  <2>5. ASSUME NEW l, NEW replaced, BrokerChangesList(l, replaced)
        PROVE  Jumps(browser')
    BY <2>2, <2>5 DEF BrokerChangesList
  <2>6. ASSUME NEW item, SelectItem(item)
        PROVE  Jumps(browser')
    BY <2>6, JumpsAfterChild DEF SelectItem, JumpsLater
  <2>7. CASE GoBackOneLevel
    BY <2>7, JumpsAfterParentLink DEF GoBackOneLevel
  <2>8. CASE GoToSearchForm
    BY <2>1, <2>8, JumpsAfterSetCall DEF GoToSearchForm, canceled, JumpsLater, Chains
  <2>9. ASSUME NEW s, SourceSelected(s)
        PROVE  Jumps(browser')
    <3> DEFINE set == [browser EXCEPT !.restriction =
                                     IF s = "own" THEN Released ELSE set_context_id(s)]
               pos == stash[s]
    <3>1. Jumps(set)
      BY DEF Jumps, Fields, InitialView
    <3>2. browser' \in {point_to_any_location(set, pos.list_id, pos.context_root),
                        point_to_root_directory(set)}
      BY <2>9 DEF SourceSelected
    <3> HIDE DEF set, pos
    <3> QED BY <3>1, <3>2, JumpsAfterRoot, JumpsAfterAnywhere
  <2>10. ASSUME NEW c \in Contexts, LoggedOut(c)
         PROVE  Jumps(browser')
    <3>1. PICK n \in {browser, root} : browser' = [n EXCEPT !.search_forms[c] = Null]
      BY <2>10 DEF LoggedOut, root
    <3> QED BY <2>1, <3>1 DEF Jumps, Fields, InitialView
  <2>11. CASE LinesFailed \/ HandleListInvalidate
    BY <2>11, JumpsAfterInvalidate DEF LinesFailed, HandleListInvalidate
  <2>12. ASSUME NEW which \in {"slot", "deleted"}, NEW l, GetListIDAnswered(which, l)
         PROVE  Jumps(browser')
    <3> DEFINE answered == [browser EXCEPT ![which] = Null]
    <3>1. Jumps(answered)
      BY DEF Jumps, Fields, InitialView
    <3>2. browser[which] # Null
          /\ browser' = IF is_current(which) THEN got_list_id(answered, browser[which], l)
                        ELSE answered
      BY <2>12 DEF GetListIDAnswered
    <3>3. CASE which = "slot"
      <4>1. JumpsLater(answered) /\ browser[which].chain \in Chains
        BY <3>1, <3>2, <3>3 DEF JumpsLater, Jumps, Fields, InitialView
      <4> HIDE DEF answered
      <4>2. Jumps(got_list_id(answered, browser[which], l))
        BY <4>1, JumpsAfterListID
      <4> QED BY <3>1, <3>2, <4>2
    <3>4. CASE which = "deleted"
      BY <3>1, <3>2, <3>4 DEF is_current
    <3> QED BY <3>3, <3>4
  <2>13. ASSUME NEW l, GetContextRootAnswered(l)
         PROVE  Jumps(browser')
    BY <2>13, JumpsAfterContextParent DEF GetContextRootAnswered
  <2>14. ASSUME NEW l, GetParentIdAnswered(l)
         PROVE  Jumps(browser')
    BY <2>14, JumpsAfterParent DEF GetParentIdAnswered
  <2>15. ASSUME NEW which \in {"query", "outdated"}, NEW result, EnterListDone(which, result)
         PROVE  Jumps(browser')
    <3> DEFINE done == [browser EXCEPT
                           ![which] = Null,
                           !.file_list = IF result = "SUCCEEDED" THEN browser[which].list ELSE @]
    <3>1. Jumps(done)
      BY DEF Jumps, Fields, InitialView
    <3>2. browser' = handle_enter_list_event(done, browser[which], result)
      BY <2>15 DEF EnterListDone
    <3> HIDE DEF done
    <3> QED BY <3>1, <3>2, JumpsAfterEvent
  <2>16. CASE Next
    BY <2>3, <2>4, <2>5, <2>6, <2>7, <2>8, <2>9, <2>10, <2>11, <2>12, <2>13, <2>14, <2>15, <2>16
       DEF Next, Answer
  <2>17. CASE UNCHANGED browser_vars
    BY <2>17 DEF browser_vars
  <2> QED BY <2>16, <2>17
<1>3. Jumps(browser) => FirstStepIsDriven
  BY DEF Jumps, FirstStepIsDriven
<1> HIDE DEF Jumps
<1> QED BY <1>1, <1>2, <1>3, PTL DEF BrowserSpec

=============================================================================
