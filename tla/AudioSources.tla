----------------------------- MODULE AudioSources -----------------------------
(***************************************************************************)
(* Which audio source is selected, and which one the player control is     *)
(* plugged to.  The program asks the audio path manager, another process,  *)
(* for the sources it plays from; the manager tells it by D-Bus which of   *)
(* its own sources are selected and deselected, and which audio path is    *)
(* active.  What it says arrives later, in the order in which it was said, *)
(* while the user goes on playing from one browser or the other.           *)
(* Source: audiosource.hh, view_play.cc, the plugging part of              *)
(* player_control.cc, the resuming part of view_filebrowser.cc,            *)
(* player_resumer.hh, dbus_handlers.cc.                                    *)
(***************************************************************************)
EXTENDS Sequences, SequencesExt, Naturals, FiniteSets

CONSTANTS
    Own,            \* the sources of this program, one for each browser
    External,       \* sources of other programs, one for each external view
    DropIn,         \* those with DROP_IN_FOR_INACTIVE_VIEW
    Commands,       \* what the user may want, a subset of UserIntention
    MaxEvents,      \* bound of the event queue
    MaxRequests,    \* bound of the requests on the way to the manager
    MaxRefused,     \* bound of the sources refused at a time
    None

VARIABLES
    state,          \* AudioSource::state_
    plugged,        \* Player::Control::audio_source_; player_data_ is set with it
    permissions,    \* permissions_ is not null
    handle,         \* the browser whose crawler crawler_handle_ has, or None
    saved,          \* the source for which audio_source_selected_find_op_ was made
    intention,      \* Player::Data::intention_
    queued,         \* the source from which streams are searched or queued
    active,         \* the active view
    locked,         \* ViewPlay::View::is_navigation_locked_
    hold,           \* busy with WAITING_FOR_APPLIANCE_AUDIO
    resumer,        \* the browser with a Resumer waiting for its source, or None
    resume,         \* the sources with data to resume from
    stored,         \* the sources with a URL in the file to resume from
    dead,           \* an exception or assertion has ended the program
    events,         \* events for the main thread
    requests,       \* calls of RequestSource on their way to the manager
    path,           \* manager: the source of the audio path, or None
    deferred,       \* manager: the path waits for the appliance
    refused         \* history: the sources whose request was refused after
                    \* they have last had the path

control == <<plugged, permissions, handle, saved, intention, queued>>
resuming == <<resumer, resume, stored>>
manager == <<path, deferred, refused>>
vars == <<state, control, active, locked, hold, resuming, dead, events, requests,
          manager>>

Sources == Own \cup External
AudioSourceState == {"DESELECTED", "REQUESTED", "SELECTED"}
UserIntention == {"NOTHING", "STOPPING", "PAUSING", "LISTENING"}
Views == Sources \cup {"player", "inactive"}

(* A source is ours or another program's, and is never mistaken for one of *)
(* the other views.                                                        *)
ASSUME SourcesAssumption ==
    /\ Own \cap External = {} /\ None \notin Sources
    /\ {"player", "inactive"} \cap Sources = {}
    /\ DropIn \subseteq Sources
    /\ Commands \subseteq UserIntention

Event(type, s) == [type |-> type, source |-> s]
EventTypes == {"SELECTED", "SELECTED_ON_HOLD", "DESELECTED", "PATH_HALF_CHANGED",
               "PATH_CHANGED"}

TypeOK ==
    /\ state \in [Sources -> AudioSourceState]
    /\ plugged \in Sources \cup {None} /\ permissions \in BOOLEAN
    /\ {handle, saved, queued, resumer} \subseteq Own \cup {None}
    /\ intention \in UserIntention
    /\ active \in Views
    /\ {locked, hold, dead, deferred} \subseteq BOOLEAN
    /\ resume \subseteq Own /\ stored \subseteq Own
    /\ events \in Seq([type : EventTypes, source : Sources \cup {None}])
    /\ requests \in Seq(Sources)
    /\ path \in Sources \cup {None}
    /\ refused \subseteq Own

Init ==
    /\ state = [s \in Sources |-> "DESELECTED"]
    /\ plugged = None /\ permissions = FALSE /\ handle = None
    /\ saved = None /\ intention = "NOTHING" /\ queued = None
    /\ active = "inactive" /\ locked = FALSE /\ hold = FALSE
    /\ resumer = None /\ resume = {} /\ stored \in SUBSET Own
    /\ dead = FALSE
    /\ events = <<>> /\ requests = <<>>
    /\ path = None /\ deferred = FALSE /\ refused = {}

-----------------------------------------------------------------------------
(* The control: a record, on which the functions of the code work one      *)
(* after the other.                                                        *)

Control == [st |-> state, plugged |-> plugged, permissions |-> permissions,
            handle |-> handle, saved |-> saved, intention |-> intention,
            queued |-> queued, requests |-> requests, dead |-> dead]

Becomes(c) ==
    /\ state' = c.st /\ plugged' = c.plugged /\ permissions' = c.permissions
    /\ handle' = c.handle /\ saved' = c.saved /\ intention' = c.intention
    /\ queued' = c.queued /\ requests' = c.requests /\ dead' = c.dead
    /\ Len(requests') <= MaxRequests

Dies(c) == [c EXCEPT !.dead = TRUE]

\* Mutant: the handle of the crawler survives.
unplug_keeps_handle(c, complete) ==
    LET forgotten == [c EXCEPT !.intention = IF c.plugged = None THEN @ ELSE "NOTHING",
                               !.queued = None]
    IN  IF complete
        THEN [forgotten EXCEPT !.plugged = None, !.permissions = FALSE]
        ELSE forgotten

(* Detaching forgets all streams and what the user wanted.                 *)
unplug(c, complete) ==
    LET forgotten == [c EXCEPT !.intention = IF c.plugged = None THEN @ ELSE "NOTHING",
                               !.queued = None]
    IN  IF complete
        THEN [forgotten EXCEPT !.plugged = None, !.permissions = FALSE, !.handle = None]
        ELSE forgotten

(* A source that is not selected is requested from the manager.            *)
plug(c, s) ==
    IF c.plugged # None \/ c.handle # None \/ c.permissions
    THEN Dies(c)
    ELSE IF c.st[s] = "SELECTED"
    THEN [c EXCEPT !.plugged = s]
    ELSE [c EXCEPT !.plugged = s, !.st[s] = "REQUESTED", !.requests = Append(@, s)]

select_now(c, s) == [c EXCEPT !.st[s] = "SELECTED"]

(* Only a requested source can become selected.                            *)
selected_notification(c, s) ==
    [c EXCEPT !.st[s] = IF @ = "REQUESTED" THEN "SELECTED" ELSE @]

(* The crawler of a browser gives out one handle at a time; the player     *)
(* control gives back the one it has before it asks for another.           *)
plug_crawler(c, s) ==
    IF resumer = s THEN Dies([c EXCEPT !.permissions = TRUE, !.handle = None])
    ELSE [c EXCEPT !.permissions = TRUE, !.handle = s]

\* Mutant: the first operation is kept, not the last.
play_request_keeps_first(c, op) ==
    IF c.plugged = None \/ c.st[c.plugged] = "DESELECTED" THEN c
    ELSE IF c.st[c.plugged] = "REQUESTED"
    THEN [c EXCEPT !.intention = "LISTENING", !.saved = IF @ = None THEN op ELSE @]
    ELSE IF op = None THEN [c EXCEPT !.intention = "LISTENING"]
    ELSE IF c.handle = None THEN Dies(c)
    ELSE [c EXCEPT !.intention = "LISTENING", !.queued = op]

(* While the source is still requested the operation is kept for later; a  *)
(* request without an operation (op = None) takes its place, too.          *)
play_request(c, op) ==
    IF c.plugged = None \/ c.st[c.plugged] = "DESELECTED" THEN c
    ELSE IF c.st[c.plugged] = "REQUESTED"
    THEN [c EXCEPT !.intention = "LISTENING", !.saved = op]
    ELSE IF op = None THEN [c EXCEPT !.intention = "LISTENING"]
    ELSE IF c.handle = None THEN Dies(c)
    ELSE [c EXCEPT !.intention = "LISTENING", !.queued = op]

(* Stopping and pausing only tell the intention.                           *)
intend(c, i) ==
    IF c.plugged = None \/ c.st[c.plugged] = "DESELECTED" THEN c
    ELSE [c EXCEPT !.intention = i]

\* Mutant: the operation kept for the source survives it.
do_deselect_audio_source_keeps_op(c) == [c EXCEPT !.st[c.plugged] = "DESELECTED"]

do_deselect_audio_source(c) ==
    [c EXCEPT !.saved = None, !.st[c.plugged] = "DESELECTED"]

(* The source plugged has become available: what the user wanted in the    *)
(* meantime is done now.                                                   *)
source_selected_notification(c, s, is_on_hold) ==
    LET n == selected_notification(c, s)
    IN  IF ~is_on_hold /\ n.intention = "LISTENING"
        THEN play_request([n EXCEPT !.saved = None], n.saved)
        ELSE n

-----------------------------------------------------------------------------
(* Views.                                                                  *)

\* Mutant: a browser keeps its resumer when it loses the focus.
activate_view_keeps_resumer(v, enforce) ==
    IF v = active /\ ~enforce THEN UNCHANGED <<active, resuming>>
    ELSE /\ active' = v
         /\ UNCHANGED <<resumer, resume>>
         /\ IF v = "inactive"
            THEN \E flat \in SUBSET resume : stored' = flat
            ELSE UNCHANGED stored

(* A browser gives up its resumer when it loses the focus; the view for no *)
(* source at all stores where to resume from.  The place of a stream found *)
(* in a subdirectory is asked for by a call that is not held by a shared   *)
(* pointer, as calls have to be, and which throws.                         *)
activate_view(v, enforce) ==
    IF v = active /\ ~enforce THEN UNCHANGED <<active, resuming>>
    ELSE /\ active' = v
         /\ resumer' = IF active \in Own THEN None ELSE resumer
         /\ UNCHANGED resume
         /\ IF v = "inactive"
            THEN \E flat \in SUBSET resume : stored' = flat
            ELSE UNCHANGED stored

StaysActive == UNCHANGED <<active, resuming>>

Alive == ~dead

OpenView(v) ==
    /\ Alive
    /\ activate_view(v, TRUE)
    /\ UNCHANGED <<state, control, locked, hold, dead, events, requests, manager>>

-----------------------------------------------------------------------------
(* Playing.                                                                *)

prepare_for_playing(c, s) ==
    LET owner == IF c.plugged = s THEN c ELSE plug(unplug(c, TRUE), s)
        ready == plug_crawler(owner, s)
    IN  IF ready.dead THEN ready ELSE play_request(ready, s)

(* The user plays something in a browser.                                  *)
PlayItem(s) ==
    /\ Alive /\ active = s
    /\ Becomes(prepare_for_playing(Control, s))
    /\ IF dead' THEN StaysActive ELSE activate_view("player", TRUE)
    /\ UNCHANGED <<locked, hold, events, manager>>

(* The user starts, stops or pauses without choosing anything.             *)
Command(i) ==
    /\ Alive
    /\ i = "LISTENING" => active = "player"
    /\ Becomes(IF i = "LISTENING" THEN play_request(Control, None) ELSE intend(Control, i))
    /\ StaysActive
    /\ UNCHANGED <<locked, hold, events, manager>>

(* A stream starts playing: it is where to resume from.                    *)
StreamStarts ==
    /\ Alive /\ queued # None /\ plugged # None
    /\ Becomes([Control EXCEPT !.intention = "LISTENING"])
    /\ resume' = resume \cup ({plugged} \cap Own)
    /\ UNCHANGED <<active, locked, hold, resumer, stored, events, manager>>

(* It has ended, and there is nothing more: the player view is left.       *)
StreamsEnd(cleared) ==
    /\ Alive /\ plugged # None
    /\ Becomes(unplug(Control, FALSE))
    /\ resume' = IF cleared THEN resume \ {plugged} ELSE resume
    /\ IF active = "player" THEN \E v \in Sources : active' = v ELSE UNCHANGED active
    /\ UNCHANGED <<locked, hold, resumer, stored, events, manager>>

(* The list from which a browser plays is gone.                            *)
stop_playing(s) ==
    /\ Alive /\ plugged = s
    /\ Becomes(unplug(Control, FALSE))
    /\ StaysActive
    /\ UNCHANGED <<locked, hold, events, manager>>

(* PLAYBACK_TRY_RESUME.  The crawler is activated for the resumer; a       *)
(* source that is selected makes the resumer ask for the location at once, *)
(* by a call that is a member of the resumer, not held by a shared pointer *)
(* as calls have to be, which throws.  The URL stays in the file:          *)
(* move_resume_url_by_audio_source_id() removes the entry named like the   *)
(* section, not the one it has found.                                      *)
resume_request(s) ==
    /\ Alive /\ active = s /\ resumer # s
    /\ IF s \in resume
       THEN Becomes(prepare_for_playing(Control, s)) /\ StaysActive
       ELSE /\ IF s \notin stored THEN Becomes(Control) /\ UNCHANGED resumer
               ELSE /\ Becomes(IF handle = s \/ state[s] = "SELECTED"
                               THEN Dies(Control) ELSE Control)
                    /\ resumer' = IF state[s] = "REQUESTED" /\ handle # s
                                  THEN s ELSE resumer
            /\ UNCHANGED <<active, resume, stored>>
    /\ UNCHANGED <<locked, hold, events, manager>>

-----------------------------------------------------------------------------
(* What the manager tells.                                                 *)

Take(type) ==
    /\ Alive /\ events # <<>> /\ Head(events).type = type
    /\ events' = Tail(events)

Said == Head(events).source

\* Mutant: the view changes, but the control stays with the other source.
plug_selected_beside(c, s) == select_now(c, s)

(* Another source than the one plugged is selected, or none is plugged.    *)
plug_selected(c, s) ==
    LET free == IF c.plugged = None THEN c
                ELSE unplug(do_deselect_audio_source(c), TRUE)
    IN  plug(select_now(free, s), s)

AudioSourceSelected(type, is_on_hold) ==
    /\ Take(type)
    /\ hold' = is_on_hold
    /\ IF plugged = Said
       THEN /\ Becomes(source_selected_notification(Control, Said, is_on_hold))
            /\ StaysActive
       ELSE /\ Becomes(plug_selected(Control, Said))
            /\ IF dead' THEN StaysActive ELSE activate_view(Said, TRUE)
    /\ UNCHANGED <<locked, manager>>

AudioSourceDeselected ==
    /\ Take("DESELECTED")
    /\ hold' = FALSE
    /\ Becomes(IF plugged = Said THEN do_deselect_audio_source(Control)
               ELSE [Control EXCEPT !.st[Said] = "DESELECTED"])
    /\ StaysActive
    /\ UNCHANGED <<locked, manager>>

leave_source(c) ==
    IF c.plugged = None THEN unplug(c, TRUE)
    ELSE unplug(do_deselect_audio_source(c), TRUE)

plug_external(c, s) ==
    LET p == plug(select_now(c, s), s)
    IN  IF p.dead THEN p ELSE [p EXCEPT !.permissions = TRUE]

(* There is nothing to call while the view of an external source is        *)
(* prepared if the path is not complete yet; only the second of two places *)
(* checks that.                                                            *)
AudioPathChanged(type) ==
    /\ Take(type)
    /\ hold' = (type = "PATH_HALF_CHANGED")
    /\ locked' = (Said \in External)
    /\ IF Said # None /\ plugged = Said
       THEN /\ Becomes(IF Said \in External /\ type = "PATH_HALF_CHANGED"
                       THEN Dies(Control) ELSE Control)
            /\ StaysActive
       ELSE IF Said \in External
       THEN /\ Becomes(plug_external(leave_source(Control), Said))
            /\ IF dead' THEN StaysActive ELSE activate_view(Said, TRUE)
       ELSE /\ Becomes(leave_source(Control))
            /\ activate_view(IF plugged \in DropIn THEN plugged ELSE "inactive", FALSE)
    /\ UNCHANGED manager

-----------------------------------------------------------------------------
(* The audio path manager.                                                 *)

Deselected(s) == IF s \in Own THEN <<Event("DESELECTED", s)>> ELSE <<>>
Selected(s, is_on_hold) ==
    IF s \in Own
    THEN <<Event(IF is_on_hold THEN "SELECTED_ON_HOLD" ELSE "SELECTED", s)>>
    ELSE <<>>
PathActivated(s, is_on_hold) ==
    <<Event(IF is_on_hold THEN "PATH_HALF_CHANGED" ELSE "PATH_CHANGED", s)>>

Tell(evs) == events' = events \o evs /\ Len(events') <= MaxEvents

(* The owner of the previous source is told, then the owner of the next    *)
(* one, then everybody.  A path already there is only announced again.     *)
ActivatePath(s, is_on_hold) ==
    /\ path' = s /\ deferred' = is_on_hold /\ refused' = refused \ {s}
    /\ IF s = path
       THEN is_on_hold = deferred /\ Tell(PathActivated(s, is_on_hold))
       ELSE Tell(Deselected(path) \o Selected(s, is_on_hold)
                 \o PathActivated(s, is_on_hold))

(* A request of this program.                                              *)
HandleRequest(is_on_hold) ==
    /\ requests # <<>>
    /\ requests' = Tail(requests)
    /\ ActivatePath(Head(requests), is_on_hold)
    /\ UNCHANGED <<state, control, active, locked, hold, resuming, dead>>

(* It is refused, or the call fails: the error is logged, and the source   *)
(* stays requested, and plugged if it still is.                            *)
RequestFails ==
    /\ requests # <<>>
    /\ requests' = Tail(requests)
    /\ refused' = refused \cup {Head(requests)} /\ Cardinality(refused') <= MaxRefused
    /\ UNCHANGED <<state, control, active, locked, hold, resuming, dead, events, path,
                   deferred>>

(* Another program, or the user by means of it, selects a source or none.  *)
Reroute(s, is_on_hold) ==
    /\ s = None => ~is_on_hold /\ path # None
    /\ ActivatePath(s, is_on_hold)
    /\ UNCHANGED <<state, control, active, locked, hold, resuming, dead, requests>>

(* The appliance is ready.                                                 *)
ApplianceReady ==
    /\ deferred
    /\ deferred' = FALSE
    /\ Tell(Selected(path, FALSE) \o PathActivated(path, FALSE))
    /\ UNCHANGED <<state, control, active, locked, hold, resuming, dead, requests, path,
                   refused>>

-----------------------------------------------------------------------------
Program ==
    \/ AudioSourceSelected("SELECTED", FALSE)
    \/ AudioSourceSelected("SELECTED_ON_HOLD", TRUE)
    \/ AudioSourceDeselected
    \/ AudioPathChanged("PATH_HALF_CHANGED") \/ AudioPathChanged("PATH_CHANGED")

User ==
    \/ \E v \in Own \cup {"player"} : OpenView(v)
    \/ \E s \in Own : PlayItem(s) \/ stop_playing(s) \/ resume_request(s)
    \/ \E i \in Commands : Command(i)
    \/ StreamStarts \/ \E c \in BOOLEAN : StreamsEnd(c)

Manager ==
    /\ Alive
    /\ \/ \E h \in BOOLEAN : HandleRequest(h)
       \/ RequestFails
       \/ \E s \in Sources \cup {None}, h \in BOOLEAN : Reroute(s, h)
       \/ ApplianceReady

Terminated == dead /\ UNCHANGED vars

Next == Program \/ User \/ Manager \/ Terminated
Spec == Init /\ [][Next]_vars

-----------------------------------------------------------------------------
(* All that was said has been heard.                                       *)
Settled == ~dead /\ events = <<>> /\ requests = <<>>

(* The assertions of plug(): nothing of the previous source is left when   *)
(* the control is not plugged, and a crawler serves one master.            *)
NothingLeftUnplugged ==
    ~dead =>
        /\ plugged = None =>
               ~permissions /\ handle = None /\ queued = None /\ saved = None
        /\ handle # None => plugged = handle /\ handle # resumer

(* The operation kept until the source is selected is one for that source. *)
SavedFitsSource ==
    ~dead /\ saved # None /\ state[plugged] = "REQUESTED" => saved = plugged

(* In the end the control is plugged to the source of the audio path, or   *)
(* to one whose request was refused, or, if the path was announced again   *)
(* while that request was on its way, to none; of this program's sources   *)
(* just that of the path is selected, and what is still requested was      *)
(* refused; the program is busy just while the path waits for the          *)
(* appliance, and navigation is blocked just while an external source has  *)
(* the path: whatever the user has played while the manager was at it.     *)
SettlesOnPath ==
    Settled =>
        /\ \/ plugged = path
           \/ plugged \in refused /\ state[plugged] = "REQUESTED"
           \/ plugged = None /\ path \in Own /\ \E s \in refused : state[s] = "DESELECTED"
        /\ \A s \in Own : /\ state[s] = "SELECTED" <=> s = path
                          /\ state[s] = "REQUESTED" => s \in refused
        /\ hold = deferred
        /\ locked = (path \in External)

(* A resumer waits in the view that is active.                             *)
ResumerHasFocus == resumer # None => resumer = active

-----------------------------------------------------------------------------
(* The control, its crawler handle, the operation it has saved and the     *)
(* resumer always fit each other and the source plugged.                   *)
PlugIsConsistent == TypeOK /\ NothingLeftUnplugged /\ SavedFitsSource /\ ResumerHasFocus

-----------------------------------------------------------------------------
(* What the code does not keep.                                            *)

(* play_request(): "save this one for later when audio source selection is *)
(* done".  Starting again while the source is requested replaces it by     *)
(* nothing.                                                                *)
SavedForLater ==
    [][plugged # None /\ state[plugged] = "REQUESTED" /\ plugged' = plugged
       /\ state' = state /\ saved # None /\ ~dead' => saved' # None]_vars

(* handle_audio_path_changed(): "this must be an audio source not owned by *)
(* us (or empty string), otherwise we would already be controlling it".    *)
OnlyForeignPaths ==
    [][\A s \in Own :
           events # <<>> /\ Head(events) = Event("PATH_CHANGED", s) /\ plugged # s
               => events' # Tail(events)]_vars

(* select_now(): a requested source is not selected directly ("Bogus       *)
(* direct switch to selected state from requested state").                 *)
NoBogusSwitch ==
    [][\A s \in Own : state[s] = "REQUESTED" /\ state'[s] = "SELECTED" =>
           plugged = s]_vars

(* source_request_done(): "leave state switching to the                    *)
(* de.tahifi.AudioPath.Source() methods".  A source whose request failed   *)
(* stays plugged, and playing from it again does not request it again.     *)
PlayingRequests ==
    [][\A s \in Own : PlayItem(s) /\ state'[s] = "REQUESTED" =>
           \E i \in DOMAIN requests' : requests'[i] = s]_vars

(* What is played belongs to the source that is plugged.                   *)
PlaysPluggedSource == ~dead /\ queued # None => queued = plugged

(* player_resumer.hh: "Synchronization of realizing a list location and    *)
(* audio source selection."                                                *)
Survives == ~dead
=============================================================================
