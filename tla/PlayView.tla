------------------------------- MODULE PlayView -------------------------------
(***************************************************************************)
(* What the stream player says about the stream it plays, and what the     *)
(* display shows of it.  The signals of the player become events, which    *)
(* are taken out of the UI event queue by the main loop; most of them are  *)
(* bounced to the play view, whichever view is active, and some are not.   *)
(* The play view updates the player data and asks for parts of the screen  *)
(* to be written, which are filled in when they are written.               *)
(*                                                                         *)
(* Which streams are played is the subject of PlayerControl, the queue of  *)
(* screens to be written that of DisplayPipeline; here an entry of the     *)
(* queue is written and shown at any time.                                 *)
(***************************************************************************)
EXTENDS Integers, Sequences

CONSTANTS
    Streams,        \* stream IDs
    MaxPosition,    \* bound: the last position in a stream
    MaxEvents,      \* bound: events in the UI event queue
    RenewsMetaData, \* whether a stream may be announced again with other meta data
    None

PlayerFlags == {"STREAM_POSITION", "PLAYBACK_STATE", "PLAYBACK_MODES", "META_DATA"}
Titles == {"one", "other"}
Speeds == {"regular", "forward", "rewind"}
RepeatModes == {"off", "all"}
Positions == 0 .. MaxPosition
NoPosition == -1

\* No part of the play view is shown.
NoScreen == [f \in {} |-> None]

Entries == [full : BOOLEAN, flags : SUBSET PlayerFlags]

ASSUME PlayAssumption ==
    /\ MaxPosition \in Nat
    /\ RenewsMetaData \in BOOLEAN
    /\ None \notin Streams \cup Entries

VARIABLES
    player,         \* the stream player: what it plays, and how
    aspect,         \* bound: what it may change about a stream in this behavior
    events,         \* UI::EventQueue
    known,          \* Player::Data: what has been heard of the player
    is_attached_,
    active,         \* the active view, "player" or "browser"
    update_flags_,  \* of the play view
    pending,        \* the entry of the play view in the queue of transactions
    browser_pending,
    display         \* what is shown of the stream, NoScreen while a browser is shown

play_vars == <<player, aspect, events, known, is_attached_, active, update_flags_, pending,
               browser_pending, display>>
screen == <<active, update_flags_, pending, browser_pending, display>>

Entry(full, flags) == [full |-> full, flags |-> flags]

\* What is known of the player.
ReportedPlaybackState == RepeatModes \cup {"unknown"}
Data == [stream : Streams \cup {None}, state : {"STOPPED", "PLAYING", "PAUSED"},
         speed : Speeds, position : Positions \cup {NoPosition},
         repeat : ReportedPlaybackState, title : Titles \cup {None}]

PlayTypeOK ==
    /\ player \in [stream : Streams \cup {None}, state : {"STOPPED", "PLAYING", "PAUSED"},
                   repeat : RepeatModes, title : Titles]
    /\ known \in Data
    /\ is_attached_ \in BOOLEAN
    /\ active \in {"player", "browser"}
    /\ update_flags_ \subseteq PlayerFlags
    /\ pending \in {None} \cup Entries

\* NowPlayingInfo: what is known of the stream.
NothingPlaying(k) == [k EXCEPT !.stream = None, !.position = NoPosition, !.title = None]

NothingKnown ==
    [stream |-> None, state |-> "STOPPED", speed |-> "regular", position |-> NoPosition,
     repeat |-> "unknown", title |-> None]

PlayInit ==
    /\ player = [stream |-> None, state |-> "STOPPED", repeat |-> "off", title |-> "one"]
    /\ aspect \in {"state", "position", "modes", "meta data"}
    /\ events = <<>>
    /\ known = NothingKnown
    /\ is_attached_ = FALSE
    /\ active = "browser" /\ update_flags_ = {}
    /\ pending = None /\ browser_pending = FALSE
    /\ display = NoScreen

(***************************************************************************)
(* Signals of the stream player, as D-Bus delivers them                    *)
(***************************************************************************)
Event(name, id, value) == [name |-> name, id |-> id, value |-> value]

Says(new_events) ==
    /\ Len(events) + Len(new_events) <= MaxEvents
    /\ events' = events \o new_events
    /\ UNCHANGED <<aspect, known, is_attached_, screen>>

Announced(id, title) ==
    <<Event("NOTIFY_NOW_PLAYING", id, title), Event("VIEWMAN_NOW_PLAYING", None, None)>>

\* The next stream, or the first one.
PlayerStarts(id) ==
    /\ id # player.stream
    /\ player' = [player EXCEPT !.stream = id, !.state = "PLAYING", !.title = "one"]
    /\ Says(Announced(id, "one") \o <<Event("NOTIFY_STREAM_UNPAUSED", id, None)>>)

\* The same stream is announced again.
PlayerRenews(title) ==
    /\ player.stream # None
    /\ RenewsMetaData \/ title = player.title
    /\ player' = [player EXCEPT !.title = title]
    /\ Says(Announced(player.stream, title))

PlayerStops ==
    /\ player.stream # None
    /\ player' = [player EXCEPT !.stream = None, !.state = "STOPPED"]
    /\ Says(<<Event("NOTIFY_STREAM_STOPPED", player.stream, None)>>)

PlayerPauses ==
    /\ player.state = "PLAYING"
    /\ player' = [player EXCEPT !.state = "PAUSED"]
    /\ Says(<<Event("NOTIFY_STREAM_PAUSED", player.stream, None)>>)

PlayerResumes ==
    /\ player.state = "PAUSED"
    /\ player' = [player EXCEPT !.state = "PLAYING"]
    /\ Says(<<Event("NOTIFY_STREAM_UNPAUSED", player.stream, None)>>)

PlayerReports(name, value) ==
    /\ player.stream # None
    /\ UNCHANGED player
    /\ Says(<<Event(name, player.stream, value)>>)

PlayerSetsTitle(title) ==
    /\ player.stream # None
    /\ player' = [player EXCEPT !.title = title]
    /\ Says(<<Event("STORE_STREAM_META_DATA", player.stream, title)>>)

PlayerSetsMode(repeat) ==
    /\ repeat # player.repeat
    /\ player' = [player EXCEPT !.repeat = repeat]
    /\ Says(<<Event("NOTIFY_PLAYBACK_MODE_CHANGED", None, repeat)>>)

PlayerSignals ==
    \/ \E id \in Streams : PlayerStarts(id)
    \/ PlayerStops
    \/ aspect = "state" /\ (PlayerPauses \/ PlayerResumes)
    \/ aspect = "state" /\ \E s \in Speeds : PlayerReports("NOTIFY_SPEED_CHANGED", s)
    \/ aspect = "position" /\ \E p \in Positions \cup {NoPosition} :
                                  PlayerReports("NOTIFY_STREAM_POSITION", p)
    \/ aspect = "modes" /\ \E r \in RepeatModes : PlayerSetsMode(r)
    \/ aspect = "meta data" /\ \E t \in Titles : PlayerSetsTitle(t) \/ PlayerRenews(t)

(***************************************************************************)
(* Writing the screen                                                      *)
(***************************************************************************)
AddedTo(entry, full, flags) ==
    IF entry = None THEN Entry(full, flags)
    ELSE Entry(entry.full \/ full, entry.flags \cup flags)

\* update_view_if_active(): the flags wait until the view is active.
UpdateIfActive(flags) ==
    /\ IF active = "player"
       THEN pending' = AddedTo(pending, FALSE, update_flags_ \cup flags) /\ update_flags_' = {}
       ELSE update_flags_' = update_flags_ \cup flags /\ UNCHANGED pending
    /\ UNCHANGED <<active, browser_pending, display>>

SerializeIfActive ==
    /\ IF active = "player"
       THEN pending' = AddedTo(pending, TRUE, update_flags_) /\ update_flags_' = {}
       ELSE UNCHANGED <<pending, update_flags_>>
    /\ UNCHANGED <<active, browser_pending, display>>

ActivatePlayer ==
    /\ active' = "player"
    /\ pending' = AddedTo(pending, TRUE, update_flags_) /\ update_flags_' = {}
    /\ UNCHANGED <<browser_pending, display>>

\* get_current_visible_stream_state()
VisibleState(state, speed) == IF state = "PLAYING" /\ speed # "regular" THEN speed ELSE state

\* The fields of the screen an entry stands for, with what is known now.
Fields(entry) ==
    [f \in {g \in PlayerFlags : entry.full \/ g \in entry.flags} \
               (IF known.position = NoPosition THEN {"STREAM_POSITION"} ELSE {}) |->
        CASE f = "PLAYBACK_STATE"  -> VisibleState(known.state, known.speed)
          [] f = "STREAM_POSITION" -> known.position
          [] f = "PLAYBACK_MODES"  -> known.repeat
          [] f = "META_DATA"       -> known.title]

Blank == [f \in PlayerFlags |-> None]

Overwritten(fields, old) ==
    [f \in PlayerFlags |-> IF f \in DOMAIN fields THEN fields[f] ELSE old[f]]

\* The play view is written whether or not it is active.  A partial update is for the
\* screen which is shown.
WritePlayer ==
    /\ pending # None
    /\ pending' = None
    /\ display' = IF pending.full THEN Overwritten(Fields(pending), Blank)
                  ELSE IF display = NoScreen THEN NoScreen
                  ELSE Overwritten(Fields(pending), display)
    /\ UNCHANGED <<player, aspect, events, known, is_attached_, active, update_flags_,
                   browser_pending>>

WriteBrowser ==
    /\ browser_pending
    /\ browser_pending' = FALSE
    /\ display' = IF active = "browser" THEN NoScreen ELSE display
    /\ UNCHANGED <<player, aspect, events, known, is_attached_, active, update_flags_, pending>>

(***************************************************************************)
(* Dispatching events                                                      *)
(***************************************************************************)
\* Mutant: that a stream is paused or goes on is told to the active view only.
Bounced_not_pause(name) ==
    name \in {"NOTIFY_NOW_PLAYING", "NOTIFY_STREAM_STOPPED",
              "NOTIFY_STREAM_POSITION",
              "NOTIFY_PLAYBACK_MODE_CHANGED", "STORE_STREAM_META_DATA"}

\* The table of events which are bounced to the play view.
Bounced(name) ==
    name \in {"NOTIFY_NOW_PLAYING", "NOTIFY_STREAM_STOPPED", "NOTIFY_STREAM_PAUSED",
              "NOTIFY_STREAM_UNPAUSED", "NOTIFY_STREAM_POSITION",
              "NOTIFY_PLAYBACK_MODE_CHANGED", "STORE_STREAM_META_DATA"}

Take(name) ==
    /\ events # <<>> /\ Head(events).name = name
    /\ events' = Tail(events)
    /\ UNCHANGED <<player, aspect>>

event == Head(events)

\* Other views take no interest in what they are told about streams.
Drop ==
    /\ events # <<>> /\ event.name # "VIEWMAN_NOW_PLAYING"
    /\ ~Bounced(event.name) /\ active # "player"
    /\ events' = Tail(events)
    /\ UNCHANGED <<player, aspect, known, is_attached_, screen>>

ForPlayer(name) == Take(name) /\ (Bounced(name) \/ active = "player")

\* Position and speed are still those of the stream before; the state is told by another
\* signal.  Only another stream has the whole screen written.
NowPlaying ==
    /\ ForPlayer("NOTIFY_NOW_PLAYING")
    /\ known' = [known EXCEPT !.stream = event.id, !.title = event.value]
    /\ IF event.id # known.stream THEN SerializeIfActive ELSE UpdateIfActive({"PLAYBACK_STATE"})
    /\ UNCHANGED is_attached_

ActivateOnNowPlaying ==
    /\ Take("VIEWMAN_NOW_PLAYING")
    /\ IF active = "player" THEN UNCHANGED screen ELSE ActivatePlayer
    /\ UNCHANGED <<known, is_attached_>>

\* set_player_state(): nothing changes if the player has stopped before.
Stopped(k) == [NothingPlaying(k) EXCEPT
                  !.state = "STOPPED", !.speed = IF k.state = "STOPPED" THEN @ ELSE "regular"]

\* The player control goes on with another stream; nothing is shown of that.
StoppedGoingOn ==
    /\ ForPlayer("NOTIFY_STREAM_STOPPED")
    /\ known' = Stopped(known)
    /\ UNCHANGED <<is_attached_, screen>>

\* player_finished(): the play view is updated, and hidden in favour of the browser.
StoppedFinally ==
    /\ ForPlayer("NOTIFY_STREAM_STOPPED")
    /\ \E unplugs \in BOOLEAN :
          /\ known' = [Stopped(known) EXCEPT !.speed = "regular",
                                             !.repeat = IF unplugs THEN "unknown" ELSE @]
          /\ is_attached_' = (is_attached_ /\ ~unplugs)
    /\ IF active = "player"
       THEN /\ pending' = AddedTo(pending, FALSE, update_flags_ \cup {"PLAYBACK_STATE"})
            /\ update_flags_' = {}
            /\ active' = "browser" /\ browser_pending' = TRUE
            /\ UNCHANGED display
       ELSE UpdateIfActive({"PLAYBACK_STATE"})

\* Mutant: the screen is not updated when a stream is paused.
PausedOrUnpaused_unflagged ==
    \E e \in {<<"NOTIFY_STREAM_PAUSED", "PAUSED">>, <<"NOTIFY_STREAM_UNPAUSED", "PLAYING">>} :
        /\ ForPlayer(e[1])
        /\ known' = [known EXCEPT !.state = e[2]]
        /\ UNCHANGED <<is_attached_, screen>>

PausedOrUnpaused ==
    \E e \in {<<"NOTIFY_STREAM_PAUSED", "PAUSED">>, <<"NOTIFY_STREAM_UNPAUSED", "PLAYING">>} :
        /\ ForPlayer(e[1])
        /\ known' = [known EXCEPT !.state = e[2]]
        /\ UpdateIfActive({"PLAYBACK_STATE"})
        /\ UNCHANGED is_attached_

\* A field of what is known changes; the screen is updated if it did.
Learns(new, flag) ==
    /\ known' = new
    /\ IF new # known THEN UpdateIfActive({flag}) ELSE UNCHANGED screen
    /\ UNCHANGED is_attached_

OfStream(new) == IF event.id = known.stream THEN new ELSE known

Position ==
    /\ ForPlayer("NOTIFY_STREAM_POSITION")
    /\ Learns(OfStream([known EXCEPT !.position = event.value]), "STREAM_POSITION")

SpeedChanged ==
    /\ ForPlayer("NOTIFY_SPEED_CHANGED")
    /\ Learns(OfStream([known EXCEPT !.speed = event.value]), "PLAYBACK_STATE")

PlaybackModeChanged ==
    /\ ForPlayer("NOTIFY_PLAYBACK_MODE_CHANGED")
    /\ Learns(IF is_attached_ THEN [known EXCEPT !.repeat = event.value] ELSE known,
              "PLAYBACK_MODES")

\* Meta data of the current stream are shown even if they are the same as before.
StoreMetaData ==
    /\ ForPlayer("STORE_STREAM_META_DATA")
    /\ known' = OfStream([known EXCEPT !.title = event.value])
    /\ IF event.id = known.stream THEN UpdateIfActive({"META_DATA"}) ELSE UNCHANGED screen
    /\ UNCHANGED is_attached_

DispatchToPlayer ==
    \/ NowPlaying \/ StoppedGoingOn \/ StoppedFinally \/ PausedOrUnpaused \/ Position
    \/ SpeedChanged \/ PlaybackModeChanged \/ StoreMetaData

\* The player control is plugged to the player data, or to those of another audio source.
Plug ==
    /\ aspect = "modes"
    /\ is_attached_' = TRUE
    /\ known' = [known EXCEPT !.repeat = "unknown"]
    /\ UNCHANGED <<player, aspect, events, screen>>

Unplug ==
    /\ is_attached_
    /\ is_attached_' = FALSE
    /\ known' = [known EXCEPT !.repeat = "unknown"]
    /\ UNCHANGED <<player, aspect, events, screen>>

(***************************************************************************)
(* The user                                                                *)
(***************************************************************************)
OpenBrowser ==
    /\ active' = "browser" /\ browser_pending' = TRUE
    /\ UNCHANGED <<player, aspect, events, known, is_attached_, update_flags_, pending, display>>

OpenPlayer ==
    /\ ActivatePlayer
    /\ UNCHANGED <<player, aspect, events, known, is_attached_>>

PlayNext ==
    \/ PlayerSignals \/ DispatchToPlayer \/ ActivateOnNowPlaying \/ Drop
    \/ Plug \/ Unplug \/ OpenPlayer \/ OpenBrowser
    \/ WritePlayer \/ WriteBrowser

-----------------------------------------------------------------------------
AllDispatched == events = <<>>
AllWritten == pending = None /\ ~browser_pending

\* However many signals were under way, and whichever views were shown meanwhile: with all
\* events dispatched, the stream is known that is being played, and whether it is paused.
KnowsStream ==
    AllDispatched => known.stream = player.stream /\ known.state = player.state

\* With the play view shown and nothing left to be written, the display agrees with what is
\* known of the stream: its state, position, mode and title.  A position or a mode which is
\* not known leaves the last one on the display.
ShowsWhatIsKnown ==
    active = "player" /\ AllWritten /\ known.stream # None =>
        /\ display # NoScreen
        /\ display["PLAYBACK_STATE"] = VisibleState(known.state, known.speed)
        /\ known.position # NoPosition => display["STREAM_POSITION"] = known.position
        /\ known.repeat # "unknown" => display["PLAYBACK_MODES"] = known.repeat
        /\ display["META_DATA"] = known.title

=============================================================================
