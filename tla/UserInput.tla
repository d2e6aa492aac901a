------------------------------ MODULE UserInput ------------------------------
(***************************************************************************)
(* What the main loop does with the events it takes out of the UI event    *)
(* queue: the user's go to the active view, those of the stream player to  *)
(* the play view.  The active view is a browser or the play view; in a     *)
(* browser the user moves through the list, enters other lists, or has an  *)
(* item searched for by its name.                                          *)
(*                                                                         *)
(* A user's event is dispatched as soon as it is posted: an event of the   *)
(* player which is still in the queue might as well be posted afterwards.  *)
(***************************************************************************)
EXTENDS ListNavigation, SearchAlgo, PlayView

CONSTANTS Tasks     \* bound: what a behavior is about, "scroll", "search" or "listen"

VARIABLES task, found_applied

vars == <<nav_vars, search_vars, play_vars, task, found_applied>>

SearchIdle ==
    /\ list = <<>> /\ query = <<>>
    /\ all_top_ = 0 /\ all_bottom_ = 0
    /\ upper_ = Partition(0, 0) /\ lower_ = Partition(0, 0)
    /\ bottom_candidate_ = NoCandidate /\ depth_ = 0
    /\ searching = "top" /\ key_checked = TRUE

Init ==
    /\ task \in Tasks
    /\ found_applied = FALSE
    /\ IF task = "search"
       THEN /\ SearchInit
            /\ wrap_mode_ = "FULL_WRAP" /\ number_of_items = Len(list)
            /\ nav = recover_cursor_and_selection
       ELSE NavInit /\ SearchIdle /\ (task = "listen" => wrap_mode_ = "FULL_WRAP")
    /\ PlayInit /\ (task # "listen" => aspect = "state")

\* The search stops the main thread, and with it everything else.
SearchRuns == task = "search" /\ ~found_applied

SearchStep == SearchRuns /\ SearchNext /\ UNCHANGED <<nav_vars, play_vars, task, found_applied>>

\* point_to_item(): the item found is selected, even if it is none of those searched for.
point_to_item ==
    /\ SearchRuns /\ IsOver /\ key_checked
    /\ IF searching \in {"FOUND_MATCH", "FOUND_APPROXIMATE"} THEN GoToLine(upper_.top)
       ELSE UNCHANGED nav_vars
    /\ found_applied' = TRUE
    /\ UNCHANGED <<search_vars, play_vars, task>>

\* A failed assertion ends the program.
Aborted == SearchRuns /\ ~key_checked /\ UNCHANGED vars

\* The events the user's signals for moving around become.
ListNavigationEvent ==
    [LevelUp |-> "NAV_GO_BACK_ONE_LEVEL", LevelDown |-> "NAV_SELECT_ITEM",
     MoveLines |-> "NAV_SCROLL_LINES", MovePages |-> "NAV_SCROLL_PAGES"]

\* A page has as many lines as the display.
ScrollInBrowser(signal) ==
    /\ ~SearchRuns /\ active = "browser"
    /\ \E count \in 1 .. MaxCount :
          LET lines == IF ListNavigationEvent[signal] = "NAV_SCROLL_PAGES"
                       THEN count * max_lines ELSE count
          IN  /\ ListNavigationEvent[signal] \in {"NAV_SCROLL_LINES", "NAV_SCROLL_PAGES"}
              /\ MoveDown(lines) \/ MoveUp(lines)
    /\ UNCHANGED <<search_vars, play_vars, task, found_applied>>

\* Moving around in the play view hides it, unless its audio source locks it; there are no
\* items to be selected.
NavigateInPlayer(signal) ==
    /\ task = "listen" /\ active = "player"
    /\ ListNavigationEvent[signal] # "NAV_SELECT_ITEM"
    /\ OpenBrowser
    /\ UNCHANGED <<nav_vars, search_vars, task, found_applied>>

BrowserChangesList ==
    /\ task = "scroll"
    /\ \/ \E line \in 0 .. MaxItems : GoToLine(line)
       \/ \E n \in 0 .. MaxItems, line \in 0 .. MaxItems : EnterList(n, line)
    /\ UNCHANGED <<search_vars, play_vars, task, found_applied>>

Listen ==
    /\ task = "listen"
    /\ PlayNext
    /\ UNCHANGED <<nav_vars, search_vars, task, found_applied>>

Next ==
    \/ SearchStep \/ point_to_item \/ Aborted
    \/ \E s \in DOMAIN ListNavigationEvent : ScrollInBrowser(s) \/ NavigateInPlayer(s)
    \/ BrowserChangesList \/ Listen

\* The search is a loop of the main thread.
Spec == Init /\ [][Next]_vars /\ WF_vars(SearchStep) /\ WF_vars(point_to_item)

TypeOK == NavTypeOK /\ PlayTypeOK

\* A search ends, and an item is selected: no part of the list is searched over and over
\* (unless an assertion fails, see KeyIsValid).
SearchEnds == task = "search" ~> found_applied \/ ~key_checked

\* What is played is known once all signals have been dispatched, and what is known is
\* shown once all updates have been written.
KnownAndShown == TypeOK /\ KnowsStream /\ ShowsWhatIsKnown
=============================================================================
