-------------------------- MODULE BrowserNavigation --------------------------
(***************************************************************************)
(* How a file browser view (ViewFileBrowser::View, and its extension for   *)
(* list contexts, AirableView) moves through the lists of a list broker.   *)
(* Entering a list takes two or three answers of the broker: the ID of the *)
(* list (a GetListID call, of which there is one at a time, in a slot), or *)
(* a link to a parent or to the place a context starts at, and then the    *)
(* size of the list (the query of List::DBusList).  A jump to a context    *)
(* does all this twice, for the parent of the context and for the context. *)
(* Meanwhile the user navigates on, audio sources are switched, and lists  *)
(* are removed or replaced by the broker.                                  *)
(*                                                                         *)
(* A list ID names the place of a list (the root list, that of a context,  *)
(* a directory in it) and its version: the broker replaces IDs.  Items of  *)
(* lists are the places they lead to.  The state of a browser is a record, *)
(* so that handlers which call each other are functions.                   *)
(***************************************************************************)
EXTENDS Integers, Sequences

CONSTANTS
    Contexts,     \* list contexts, the external services
    Null,         \* no list, no call, no context
    MaxVersion,   \* bound on the list IDs: the broker changes MaxVersion - 1 of them
    Interruptions \* what may get in the way of navigation that is under way

ASSUME BrowserAssumption ==
    /\ Null \notin Contexts /\ "own" \notin Contexts
    /\ MaxVersion \in Nat \ {0}
    /\ Interruptions \subseteq {"by_user", "by_user_early", "by_source", "by_reload",
                                "by_failure", "by_broker", "by_free_search"}

Root == <<"root", Null>>
Service(c) == <<"service", c>>
Dir(c) == <<"dir", c>>
Places == {Root} \cup {Service(c) : c \in Contexts} \cup {Dir(c) : c \in Contexts}

ListID == [at : Places, n : 1 .. MaxVersion]

\* DBUS_LISTS_CONTEXT_GET()
context_of(l) == l.at[2]

ItemsOf(l) == CASE l.at = Root -> {Service(c) : c \in Contexts}
                [] l.at[1] = "service" -> {Dir(context_of(l))}
                [] OTHER -> {}

FirstItem == Service(CHOOSE c \in Contexts : TRUE)

ParentOf(l) == IF l.at[1] = "dir" THEN Service(context_of(l)) ELSE Root

VARIABLES
    browser,  \* the state of the view
    source,   \* the selected audio source: a context, or Null for the broker's own one
    stash,    \* audio_source_navigation_stash_: where each source was when it was deselected
    oauth,    \* context_id_ of the active OAuthRequest
    version,  \* the IDs known to the list broker
    signals   \* ListInvalidate signals on their way, in order, as <<list, replacement>>

broker_vars == <<version, signals>>
browser_vars == <<browser, source, stash, oauth, broker_vars>>

ID(place) == [at |-> place, n |-> version[place]]
IsAlive(l) == l.n = version[l.at]

(***************************************************************************)
(* JumpToContext and ContextRestriction                                    *)
(***************************************************************************)
NotJumping == [state |-> "NOT_JUMPING", destination |-> Null, context_list_id |-> Null]

is_jumping(b) == b.jump.state # "NOT_JUMPING"

set_context_id(c) == [root_list_id |-> Null, context_id |-> c, is_blocked |-> TRUE]

Released == [root_list_id |-> Null, context_id |-> Null, is_blocked |-> FALSE]

set_boundary(r, l) == [r EXCEPT !.root_list_id = l, !.is_blocked = FALSE]

is_boundary(r, l) == (r.root_list_id # Null /\ r.root_list_id = l) \/ r.is_blocked

restriction_list_invalidate(r, l, replacement) ==
    IF l # r.root_list_id THEN r
    ELSE [r EXCEPT !.root_list_id = replacement,
                   !.is_blocked = @ \/ (replacement = Null /\ r.context_id # Null)]

(***************************************************************************)
(* Calls in progress                                                       *)
(***************************************************************************)
\* delete_get_list_id(): the call is answered nevertheless.  The last such call is kept.
delete_get_list_id(b) ==
    [b EXCEPT !.slot = Null, !.deleted = IF b.slot = Null THEN @ ELSE b.slot]

\* set_call()
set_call(b, chain, list, item, context) ==
    [delete_get_list_id(b) EXCEPT
        !.slot = [chain |-> chain, list |-> list, item |-> item, context |-> context]]

\* The callback of a canceled call for the root of a context ends the jump.  It must have
\* been invoked to be canceled.
cancel_get_context_root(b) ==
    IF b.get_context_root = Null THEN b
    ELSE [b EXCEPT !.get_context_root = Null, !.jump = NotJumping,
                   !.asserted = @ /\ b.get_context_root = "invoked"]

cancel_and_delete_all(b) ==
    cancel_get_context_root([delete_get_list_id(b) EXCEPT !.get_parent_id = Null])

delete_all(b) == [delete_get_list_id(b) EXCEPT !.get_parent_id = Null]

(***************************************************************************)
(* Going to some list                                                      *)
(***************************************************************************)
do_point_to_real_root_directory(b) == set_call(b, "root", Null, Root, Null)

\* The call replaces the one there is before it is checked that there is no jump.
do_point_to_context_root_directory(b, c) ==
    IF is_jumping(b) /\ b.jump.destination = c
    THEN [b EXCEPT !.get_context_root = "not invoked"]
    ELSE IF is_jumping(b) THEN [b EXCEPT !.get_context_root = Null]
    ELSE [b EXCEPT !.get_context_root = "invoked",
                   !.jump = [state |-> "GET_CONTEXT_PARENT_ID", destination |-> c,
                             context_list_id |-> Null]]

point_to_root_directory(b) ==
    LET canceled == cancel_and_delete_all(b)
        ctx_id == b.restriction.context_id
    IN  IF ctx_id = Null THEN do_point_to_real_root_directory(canceled)
        ELSE do_point_to_context_root_directory(canceled, ctx_id)

is_root_list(b, l) == l # Null /\ l = b.root

\* The item selected in the root list is remembered to find the search form of its context.
point_to_child_directory(b, item) ==
    set_call([cancel_and_delete_all(b) EXCEPT
                 !.from_root = IF is_root_list(b, b.current) THEN item ELSE Null],
             "child", b.current, item, Null)

point_to_parent_link(b) ==
    IF is_boundary(b.restriction, b.current) THEN b
    ELSE [cancel_and_delete_all(b) EXCEPT !.get_parent_id = b.current]

\* finish_async_point_to_child_directory(): the form is remembered once for a context.
search_form_found(b) ==
    IF b.current = Null THEN b
    ELSE LET c == context_of(b.current)
         IN  [b EXCEPT !.from_root = Null,
                       !.search_forms =
                           IF b.from_root = Null \/ is_root_list(b, b.current) THEN @
                           ELSE IF c = Null \/ @[c] # Null THEN @
                           ELSE [@ EXCEPT ![c] = b.from_root]]

(***************************************************************************)
(* Entering a list                                                         *)
(***************************************************************************)
\* The next step of a jump when one of its lists has been entered.
next_jump_step(b) ==
    CASE b.jump.state = "ENTER_CONTEXT_PARENT" ->
            point_to_child_directory([b EXCEPT !.jump.state = "GET_CONTEXT_LIST_ID"],
                                     Service(b.jump.destination))
      [] b.jump.state = "ENTER_CONTEXT_LIST" ->
            [b EXCEPT !.restriction = set_boundary(@, b.jump.context_list_id),
                      !.asserted = @ /\ b.jump.context_list_id = b.current,
                      !.jump = NotJumping]
      [] OTHER -> [b EXCEPT !.asserted = @ /\ is_jumping(b)]

jumped_anywhere(b) ==
    [b EXCEPT !.restriction = IF b.boundary # Null THEN set_boundary(@, b.boundary)
                              ELSE Released,
              !.boundary = Null]

\* Mutant: the view does not go back to the root list when a list cannot be entered.
update_after_finish_stays(b, q, result) ==
    CASE result # "SUCCEEDED" -> b
      [] q.caller = "ENTER_CONTEXT_ROOT" -> next_jump_step(b)
      [] q.caller = "ENTER_ANYWHERE" -> jumped_anywhere(b)
      [] OTHER -> b

update_after_finish(b, q, result) ==
    CASE result = "SUCCEEDED" /\ q.caller = "ENTER_CONTEXT_ROOT" -> next_jump_step(b)
      [] result = "SUCCEEDED" /\ q.caller = "ENTER_ANYWHERE" -> jumped_anywhere(b)
      [] OTHER -> IF /\ q.caller \notin {"ENTER_ROOT", "ENTER_CONTEXT_ROOT"}
                     /\ ~is_jumping(b)
                     /\ b.current = Null
                  THEN point_to_root_directory(b) ELSE b

\* finish_async_enter_dir_op()
finished(b, q, result) ==
    [delete_all(b) EXCEPT !.current = CASE result = "SUCCEEDED" -> q.list
                                        [] result = "FAILED" -> Null
                                        [] OTHER -> @]

\* Mutant: the list that was reloaded is taken for the root list.
handle_enter_list_event_reloads_root(b, q, result) ==
    LET done == finished(b, q, result)
        rooted == IF q.caller \in {"ENTER_ROOT", "RELOAD_LIST"}
                  THEN [done EXCEPT !.root = done.current] ELSE done
    IN  update_after_finish(rooted, q, result)

handle_enter_list_event(b, q, result) ==
    LET done == finished(b, q, result)
        rooted == IF q.caller = "ENTER_ROOT" THEN [done EXCEPT !.root = done.current] ELSE done
    IN  update_after_finish(IF q.caller \in {"ENTER_CHILD", "ENTER_CONTEXT_ROOT"}
                            THEN search_form_found(rooted) ELSE rooted, q, result)

\* enter_list_async(): the query there is gets canceled, which is reported at once unless
\* it has been canceled before.
enter_list_async(b, l, caller) ==
    LET old == b.query
        canceled == IF old = Null THEN b
                    ELSE IF old.canceled THEN [b EXCEPT !.outdated = old]
                    ELSE handle_enter_list_event([b EXCEPT !.query = Null], old, "CANCELED")
    IN  [canceled EXCEPT !.query = [caller |-> caller, list |-> l, canceled |-> FALSE]]

point_to_any_location(b, l, context_boundary) ==
    enter_list_async([b EXCEPT !.boundary = context_boundary], l, "ENTER_ANYWHERE")

(***************************************************************************)
(* Answers of the list broker: a list, or Null in case of an error.  The   *)
(* call that was answered has been taken out of the slot.                  *)
(***************************************************************************)
point_to_root_directory__got_list_id(b, l) ==
    IF l = Null THEN b ELSE delete_get_list_id(enter_list_async(b, l, "ENTER_ROOT"))

\* put_context_list_id() expects a jump to be at its second step.
put_context_list_id(b, l) ==
    [b EXCEPT !.jump.state = "ENTER_CONTEXT_LIST", !.jump.context_list_id = l,
              !.asserted = @ /\ b.jump.state = "GET_CONTEXT_LIST_ID"]

\* Mutant: the list of a context is entered like any other list.
got_list_id_enter_child(b, l) ==
    IF l = Null THEN [b EXCEPT !.jump = NotJumping]
    ELSE delete_get_list_id(enter_list_async(b, l, "ENTER_CHILD"))

point_to_child_directory__got_list_id(b, l) ==
    IF l = Null THEN [b EXCEPT !.jump = NotJumping]
    ELSE delete_get_list_id(
            IF is_jumping(b)
            THEN enter_list_async(put_context_list_id(b, l), l, "ENTER_CONTEXT_ROOT")
            ELSE enter_list_async(b, l, "ENTER_CHILD"))

\* The form of a context that has been forgotten meanwhile is the first item of the list.
point_to_search_form__got_root_list_id(b, l, c) ==
    IF l = Null THEN point_to_root_directory(b)
    ELSE set_call(b, "search_service", l,
                  IF b.search_forms[c] = Null THEN FirstItem ELSE b.search_forms[c], c)

point_to_search_form__got_service_list_id(b, l) ==
    IF l = Null THEN point_to_root_directory(b) ELSE point_to_any_location(b, l, l)

got_list_id(b, call, l) ==
    CASE call.chain = "root" -> point_to_root_directory__got_list_id(b, l)
      [] call.chain = "child" -> point_to_child_directory__got_list_id(b, l)
      [] call.chain = "search_root" -> point_to_search_form__got_root_list_id(b, l, call.context)
      [] call.chain = "search_service" -> point_to_search_form__got_service_list_id(b, l)

point_to_list_context_root__got_parent_link(b, l) ==
    IF l = Null THEN [b EXCEPT !.get_context_root = Null, !.jump = NotJumping]
    ELSE enter_list_async([b EXCEPT !.get_context_root = Null,
                                    !.jump.state = "ENTER_CONTEXT_PARENT"],
                          l, "ENTER_CONTEXT_ROOT")

point_to_parent_link__got_parent_link(b, l) ==
    IF l = Null THEN [b EXCEPT !.get_parent_id = Null]
    ELSE enter_list_async([b EXCEPT !.get_parent_id = Null], l, "ENTER_PARENT")

(***************************************************************************)
(* Lists removed or replaced                                               *)
(***************************************************************************)
\* list_invalidate() of the list object; the query of a list that was removed is canceled.
file_list_invalidate(b, l, replacement) ==
    [b EXCEPT !.file_list = IF @ = l THEN replacement ELSE @,
              !.query = IF @ # Null /\ @.list = l THEN [@ EXCEPT !.canceled = TRUE] ELSE @]

reload_list(b) == enter_list_async(b, b.current, "RELOAD_LIST")

\* Mutant: the boundary is not looked at.
list_invalidate_keeps_boundary(b, l, replacement) ==
    LET next == file_list_invalidate(
                   [b EXCEPT !.root = IF is_root_list(b, l) THEN replacement ELSE @],
                   l, replacement)
    IN  IF l # b.current
        THEN IF b.current = Null THEN point_to_root_directory(next) ELSE next
        ELSE IF replacement # Null THEN reload_list([next EXCEPT !.current = replacement])
        ELSE point_to_root_directory(next)

list_invalidate(b, l, replacement) ==
    LET next == file_list_invalidate(
                   [b EXCEPT !.search_forms =
                                IF is_root_list(b, l) THEN [c \in Contexts |-> Null] ELSE @,
                             !.root = IF is_root_list(b, l) THEN replacement ELSE @,
                             !.restriction = restriction_list_invalidate(@, l, replacement)],
                   l, replacement)
    IN  IF l = b.restriction.root_list_id /\ replacement = Null
        THEN [next EXCEPT !.current = Null]
        ELSE IF l # b.current
        THEN IF b.current = Null THEN point_to_root_directory(next) ELSE next
        ELSE IF replacement # Null THEN reload_list([next EXCEPT !.current = replacement])
        ELSE point_to_root_directory(next)

NotStored == [list_id |-> Null, context_root |-> Null]

\* A position without a boundary is not set, and not gone back to: is_set().
stored(l, context_root) ==
    IF context_root = Null THEN NotStored ELSE [list_id |-> l, context_root |-> context_root]

\* StoredPosition::list_invalidate()
stash_list_invalidate(pos, l, replacement) ==
    IF l \notin {pos.list_id, pos.context_root} THEN pos
    ELSE IF replacement = Null THEN NotStored
    ELSE [list_id |-> IF l = pos.list_id THEN replacement ELSE pos.list_id,
          context_root |-> IF l = pos.context_root THEN replacement ELSE pos.context_root]

(***************************************************************************)
(* The view                                                                *)
(***************************************************************************)
Sources == Contexts \cup {"own"}

\* A view is created without lists, before the list broker is asked for its root.
InitialView ==
    [current |-> Null, root |-> Null, file_list |-> Null, restriction |-> Released,
     jump |-> NotJumping, boundary |-> Null, slot |-> Null, deleted |-> Null,
     get_parent_id |-> Null, get_context_root |-> Null, query |-> Null,
     outdated |-> Null, from_root |-> Null,
     search_forms |-> [c \in Contexts |-> Null], asserted |-> TRUE]

Init ==
    /\ version = [p \in Places |-> 1]
    /\ signals = <<>>
    /\ source = Null
    /\ stash = [s \in Sources |-> NotStored]
    /\ oauth = Null
    /\ browser = do_point_to_real_root_directory(InitialView)

IsAtRest(b) ==
    /\ b.slot = Null /\ b.get_parent_id = Null /\ b.get_context_root = Null
    /\ b.query = Null /\ b.outdated = Null /\ b.deleted = Null

\* The view waits for nothing but an ID, in a list that is still there.
IsAskingForID ==
    /\ browser.query = Null /\ browser.outdated = Null
    /\ browser.get_context_root = Null /\ ~is_jumping(browser)
    /\ browser.current # Null /\ browser.file_list = browser.current
    /\ signals = <<>>

\* Whether something may happen while navigation is under way.
May(interruption) ==
    \/ IsAtRest(browser) /\ signals = <<>>
    \/ interruption \in Interruptions
    \/ interruption = "by_user" /\ "by_user_early" \in Interruptions /\ IsAskingForID

\* determine_ctx_id(); the root list is in a context of its own.
current_context ==
    IF browser.restriction.context_id # Null THEN browser.restriction.context_id
    ELSE IF browser.current = Null THEN Null
    ELSE IF browser.current.at = Root THEN "own" ELSE context_of(browser.current)

\* OAuthRequest::is_active() for a context, true also if there is neither.
oauth_is_active(c) == oauth = c

\* Input while an OAuth request is active: the page is reloaded.
ReloadOnInput ==
    /\ May("by_user")
    /\ oauth_is_active(current_context)
    /\ oauth' = Null
    /\ browser' = point_to_root_directory(browser)
    /\ UNCHANGED <<source, stash, broker_vars>>

SelectItem(item) ==
    /\ May("by_user")
    /\ ~oauth_is_active(current_context)
    /\ browser.current # Null /\ browser.file_list # Null
    /\ item \in ItemsOf(browser.current)
    /\ browser' = point_to_child_directory(browser, item)
    /\ UNCHANGED <<source, stash, oauth, broker_vars>>

GoBackOneLevel ==
    /\ May("by_user")
    /\ ~oauth_is_active(current_context)
    /\ browser.current # Null
    /\ browser' = point_to_parent_link(browser)
    /\ UNCHANGED <<source, stash, oauth, broker_vars>>

\* point_to_search_form() of the context of the list.
GoToSearchForm ==
    /\ May("by_user")
    /\ browser.file_list # Null
    /\ LET c == context_of(browser.file_list)
       IN  /\ c # Null
           /\ browser.restriction.context_id = c \/ "by_free_search" \in Interruptions
           /\ browser' = IF browser.search_forms[c] = Null THEN cancel_and_delete_all(browser)
                         ELSE set_call(cancel_and_delete_all(browser),
                                       "search_root", Null, Root, c)
    /\ UNCHANGED <<source, stash, oauth, broker_vars>>

Focus ==
    /\ browser.current = Null
    /\ browser.slot = Null
    /\ ~is_jumping(browser)
    /\ browser' = point_to_root_directory(browser)
    /\ UNCHANGED <<source, stash, oauth, broker_vars>>

Defocus ==
    /\ oauth # Null
    /\ oauth' = Null
    /\ UNCHANGED <<browser, source, stash, broker_vars>>

SourceDeselected ==
    /\ May("by_source")
    /\ source # Null
    /\ source' = Null
    /\ stash' = IF browser.current = Null THEN stash
                ELSE [stash EXCEPT ![source] =
                         stored(browser.current, browser.restriction.root_list_id)]
    /\ UNCHANGED <<browser, oauth, broker_vars>>

SourceSelected(s) ==
    /\ May("by_source")
    /\ source = Null
    /\ source' = s
    /\ LET pos == stash[s]
           set == [browser EXCEPT !.restriction =
                                     IF s = "own" THEN Released ELSE set_context_id(s)]
       IN  browser' = IF pos.list_id # Null /\ pos.context_root # Null
                      THEN point_to_any_location(set, pos.list_id, pos.context_root)
                      ELSE point_to_root_directory(set)
    /\ UNCHANGED <<stash, oauth, broker_vars>>

\* The service of the context the user is in asks for a login by OAuth; the page is
\* reloaded after some time.
OAuthRequested(c) ==
    /\ oauth = Null
    /\ c = current_context
    /\ oauth' = c
    /\ UNCHANGED <<browser, source, stash, broker_vars>>

OAuthTimerExpires ==
    /\ May("by_reload")
    /\ oauth # Null
    /\ oauth' = Null
    /\ browser' = point_to_root_directory(browser)
    /\ UNCHANGED <<source, stash, broker_vars>>

LoggedIn(c) ==
    /\ May("by_reload")
    /\ c = browser.restriction.context_id
    /\ browser' = point_to_root_directory(browser)
    /\ UNCHANGED <<source, stash, oauth, broker_vars>>

LoggedOut(c) ==
    /\ May("by_reload")
    /\ browser' =
         LET next == IF browser.current # Null /\ context_of(browser.current) = c
                     THEN point_to_root_directory(browser) ELSE browser
         IN  [next EXCEPT !.search_forms[c] = Null]
    /\ UNCHANGED <<source, stash, oauth, broker_vars>>

\* serialized_item_state_changed(): lines of the current list could not be loaded.
LinesFailed ==
    /\ May("by_failure")
    /\ browser.current # Null
    /\ browser' = list_invalidate(browser, browser.current, Null)
    /\ stash' = [s \in Sources |-> stash_list_invalidate(stash[s], browser.current, Null)]
    /\ UNCHANGED <<source, oauth, broker_vars>>

HandleListInvalidate ==
    /\ IsAtRest(browser) \/ "by_broker" \in Interruptions
    /\ signals # <<>>
    /\ signals' = Tail(signals)
    /\ LET l == Head(signals)[1]
           replacement == Head(signals)[2]
       IN  /\ browser' = list_invalidate(browser, l, replacement)
           /\ stash' = [s \in Sources |-> stash_list_invalidate(stash[s], l, replacement)]
    /\ UNCHANGED <<source, oauth, version>>

(***************************************************************************)
(* The list broker                                                         *)
(***************************************************************************)
\* What the view refers to.
References ==
    {browser.current, browser.root, browser.file_list, browser.restriction.root_list_id,
     browser.boundary, browser.jump.context_list_id}
    \cup {stash[s].list_id : s \in Sources} \cup {stash[s].context_root : s \in Sources}
    \cup (IF browser.query = Null THEN {} ELSE {browser.query.list})

\* IDs are never used again.
NewestVersion == CHOOSE n \in {version[p] : p \in Places} : \A p \in Places : version[p] <= n

\* A list is removed, or gets another ID, which is signalled.  Lists being entered are
\* not replaced.
BrokerChangesList(l, replaced) ==
    /\ ~is_jumping(browser) \/ "by_broker" \in Interruptions
    /\ IsAlive(l)
    /\ NewestVersion < MaxVersion
    /\ browser.query # Null => l # browser.query.list
    /\ version' = [version EXCEPT ![l.at] = NewestVersion + 1]
    /\ signals' = Append(signals, <<l, IF replaced THEN [l EXCEPT !.n = NewestVersion + 1]
                                       ELSE Null>>)
    /\ UNCHANGED <<browser, source, stash, oauth>>

\* Answers to requests on lists that are gone are errors.  Going to the root list and to a
\* context fails on demand only.
IsAnswer(call, l) ==
    IF call.list # Null /\ ~IsAlive(call.list) THEN l = Null
    ELSE \/ l = ID(call.item)
         \/ l = Null /\ ((call.chain = "child" /\ ~is_jumping(browser))
                         \/ "by_failure" \in Interruptions)

\* The answer is for the call in the slot.
is_current(call) == call = "slot"

GetListIDAnswered(which, l) ==
    /\ browser[which] # Null
    /\ IsAnswer(browser[which], l)
    /\ browser' =
         LET answered == [browser EXCEPT ![which] = Null]
         IN  IF is_current(which) THEN got_list_id(answered, browser[which], l) ELSE answered
    /\ UNCHANGED <<source, stash, oauth, broker_vars>>

GetContextRootAnswered(l) ==
    /\ browser.get_context_root = "invoked"
    /\ l = ID(Root) \/ (l = Null /\ "by_failure" \in Interruptions)
    /\ browser' = point_to_list_context_root__got_parent_link(browser, l)
    /\ UNCHANGED <<source, stash, oauth, broker_vars>>

GetParentIdAnswered(l) ==
    /\ browser.get_parent_id # Null
    /\ IF IsAlive(browser.get_parent_id) /\ browser.get_parent_id.at # Root
       THEN l \in {Null, ID(ParentOf(browser.get_parent_id))}
       ELSE l = Null
    /\ browser' = point_to_parent_link__got_parent_link(browser, l)
    /\ UNCHANGED <<source, stash, oauth, broker_vars>>

\* The size of the list was determined, or not.  A canceled query may have been replaced by
\* another one before it comes to its end.
EnterListDone(which, result) ==
    LET q == browser[which]
    IN  /\ q # Null
        /\ IF q.canceled THEN result = "CANCELED"
           ELSE IF ~IsAlive(q.list) THEN result = "FAILED"
           ELSE \/ result = "SUCCEEDED"
                \/ /\ result = "FAILED"
                   /\ \/ q.caller \notin {"ENTER_ROOT", "ENTER_CONTEXT_ROOT"}
                      \/ "by_failure" \in Interruptions
        /\ browser' = handle_enter_list_event(
               [browser EXCEPT ![which] = Null,
                               !.file_list = IF result = "SUCCEEDED" THEN q.list ELSE @],
               q, result)
        /\ UNCHANGED <<source, stash, oauth, broker_vars>>

Answer ==
    \/ \E l \in ListID \cup {Null} :
          \/ \E which \in {"slot", "deleted"} : GetListIDAnswered(which, l)
          \/ GetContextRootAnswered(l)
          \/ GetParentIdAnswered(l)
    \/ \E which \in {"query", "outdated"}, result \in {"SUCCEEDED", "FAILED", "CANCELED"} :
          EnterListDone(which, result)

Next ==
    \/ ReloadOnInput \/ GoBackOneLevel \/ GoToSearchForm \/ Focus \/ Defocus
    \/ \E item \in Places : SelectItem(item)
    \/ SourceDeselected
    \/ \E s \in Sources : SourceSelected(s)
    \/ \E c \in Contexts : OAuthRequested(c) \/ LoggedIn(c) \/ LoggedOut(c)
    \/ OAuthTimerExpires
    \/ LinesFailed
    \/ HandleListInvalidate
    \/ \E l \in References \ {Null}, replaced \in BOOLEAN : BrokerChangesList(l, replaced)
    \/ Answer

BrowserSpec == Init /\ [][Next]_browser_vars
-----------------------------------------------------------------------------
Maybe(S) == S \cup {Null}

Chains == {"root", "child", "search_root", "search_service"}
Callers == {"ENTER_ROOT", "ENTER_CHILD", "ENTER_PARENT", "ENTER_CONTEXT_ROOT",
            "ENTER_ANYWHERE", "RELOAD_LIST"}
JumpStates == {"NOT_JUMPING", "GET_CONTEXT_PARENT_ID", "ENTER_CONTEXT_PARENT",
               "GET_CONTEXT_LIST_ID", "ENTER_CONTEXT_LIST"}
Call == [chain : Chains, list : Maybe(ListID), item : Maybe(Places), context : Maybe(Contexts)]
Query == [caller : Callers, list : ListID, canceled : BOOLEAN]

ASSUME NullAssumption ==
    Null \notin ListID \cup Places \cup Call \cup Query \cup {"own", "invoked", "not invoked"}

TypeOK ==
    /\ version \in [Places -> 1 .. MaxVersion]
    /\ signals \in Seq(ListID \X Maybe(ListID))
    /\ source \in Maybe(Sources)
    /\ stash \in [Sources -> [list_id : Maybe(ListID), context_root : Maybe(ListID)]]
    /\ oauth \in Maybe(Contexts)
    /\ \A f \in {"current", "root", "file_list", "boundary", "get_parent_id"} :
          browser[f] \in Maybe(ListID)
    /\ browser.restriction \in [root_list_id : Maybe(ListID), context_id : Maybe(Contexts),
                                is_blocked : BOOLEAN]
    /\ browser.jump \in [state : JumpStates, destination : Maybe(Contexts),
                         context_list_id : Maybe(ListID)]
    /\ \A f \in {"slot", "deleted"} : browser[f] \in Maybe(Call)
    /\ browser.get_context_root \in {Null, "invoked", "not invoked"}
    /\ \A f \in {"query", "outdated"} : browser[f] \in Maybe(Query)
    /\ browser.from_root \in Maybe(Places)
    /\ browser.search_forms \in [Contexts -> Maybe(Places)]
    /\ browser.asserted \in BOOLEAN

\* A jump is in its first step just while the call for the root of its context is on its
\* way: it gets on, and the answer finds it in that step (put_parent_list_id()).
FirstStepIsDriven ==
    browser.jump.state = "GET_CONTEXT_PARENT_ID" <=> browser.get_context_root = "invoked"

\* A jump to a context has an answer to wait for that takes it further; without one the
\* display would show "Loading" for good.  The assertions in the code hold: a list ID is put
\* into a jump only when it waits for one, the list that ends a jump is the boundary, and
\* only invoked calls are canceled.
JumpIsDriven ==
    /\ browser.asserted
    /\ FirstStepIsDriven
    /\ CASE browser.jump.state \in {"NOT_JUMPING", "GET_CONTEXT_PARENT_ID"} -> TRUE
         [] browser.jump.state = "GET_CONTEXT_LIST_ID" ->
               browser.slot # Null /\ browser.slot.chain = "child"
         [] OTHER -> browser.query # Null /\ browser.query.caller = "ENTER_CONTEXT_ROOT"

\* When everything has been answered, the view is in a list the broker still has, unless
\* the boundary was removed, in which case it is blocked until it gets the focus.
RestsInLivingList ==
    IsAtRest(browser) /\ signals = <<>> =>
        \/ browser.current # Null /\ IsAlive(browser.current)
        \/ browser.current = Null /\ browser.restriction.is_blocked

\* A list that may be shown is in the context the view is restricted to.
ShownInContext ==
    /\ ~is_jumping(browser)
    /\ ~browser.restriction.is_blocked
    /\ browser.restriction.context_id # Null
    /\ browser.file_list # Null
    /\ browser.current # Null
    => context_of(browser.file_list) = browser.restriction.context_id

\* The lists remembered are what they are taken for: the root list is one, a boundary is
\* in the context the view is restricted to (the documentation of ContextRestriction), and
\* search forms are found by the items of their contexts in the root list.
ListsAreWhatTheySeem ==
    /\ browser.root # Null => browser.root.at = Root
    /\ browser.restriction.root_list_id # Null =>
          /\ browser.restriction.context_id # Null
          /\ context_of(browser.restriction.root_list_id) = browser.restriction.context_id
    /\ \A c \in Contexts : browser.search_forms[c] \in {Null, Service(c)}

\* A jump always goes on, and the view comes to rest in a list which exists.
JumpEndsInLivingList == TypeOK /\ JumpIsDriven /\ RestsInLivingList

\* The lists the view knows, and the one it shows, fit the context it is restricted to.
ListsFitContext == ShownInContext /\ ListsAreWhatTheySeem
=============================================================================
