------------------------ MODULE AudioSources_proofs ------------------------
(***************************************************************************)
(* What is plugged into the audio path is consistent with the states of    *)
(* the audio sources, and the sources settle on the path taken last, for   *)
(* any number of sources, whatever is selected, plugged or requested in    *)
(* between: the messages between the audio path manager and the control    *)
(* come in order, and each source the control takes for selected has been  *)
(* announced after all others, or its removal is announced.                *)
(***************************************************************************)
EXTENDS AudioSources, TLAPS

(***************************************************************************)
(* The operators on the control.  "c" is a control, "s" a source.          *)
(***************************************************************************)
Controls == [st : [Sources -> AudioSourceState], plugged : Sources \cup {None},
             permissions : BOOLEAN, handle : Own \cup {None}, saved : Own \cup {None},
             intention : UserIntention, queued : Own \cup {None},
             requests : Seq(Own), dead : BOOLEAN]

\* Nothing is left of a source when the control is not plugged, and the
\* operation saved while a source is requested is one for that source.
Tidy(c) ==
    /\ c.plugged = None => ~c.permissions /\ c.handle = None /\ c.queued = None
                           /\ c.saved = None
    /\ c.handle # None => c.plugged = c.handle
    /\ c.saved # None /\ c.st[c.plugged] = "REQUESTED" => c.saved = c.plugged

LEMMA UnplugCompletely ==
    ASSUME NEW c \in Controls
    PROVE  LET r == unplug(c, TRUE)
           IN  /\ r \in Controls
               /\ r.plugged = None /\ ~r.permissions /\ r.handle = None /\ r.queued = None
               /\ r.st = c.st /\ r.saved = c.saved /\ r.requests = c.requests
               /\ r.dead = c.dead
  BY DEF unplug, Controls, UserIntention

LEMMA UnplugPartly ==
    ASSUME NEW c \in Controls
    PROVE  LET r == unplug(c, FALSE)
           IN  /\ r \in Controls /\ r.queued = None
               /\ r.plugged = c.plugged /\ r.permissions = c.permissions
               /\ r.handle = c.handle
               /\ r.st = c.st /\ r.saved = c.saved /\ r.requests = c.requests
               /\ r.dead = c.dead
  BY DEF unplug, Controls, UserIntention

LEMMA PlugProperties ==
    ASSUME NEW c \in Controls, NEW s \in Sources,
           c.plugged = None, c.handle = None, ~c.permissions,
           s \in Own \/ c.st[s] = "SELECTED"
    PROVE  LET r == plug(c, s)
           IN  /\ r \in Controls /\ r.plugged = s
               /\ r.handle = None /\ ~r.permissions /\ r.saved = c.saved
               /\ r.queued = c.queued /\ r.dead = c.dead
               /\ \/ /\ c.st[s] = "SELECTED"
                     /\ r.st = c.st /\ r.requests = c.requests
                  \/ /\ s \in Own /\ c.st[s] # "SELECTED"
                     /\ r.st = [c.st EXCEPT ![s] = "REQUESTED"]
                     /\ r.requests = Append(c.requests, s)
<1>1. CASE c.st[s] = "SELECTED"
  BY <1>1 DEF plug, Controls, AudioSourceState
<1>2. CASE c.st[s] # "SELECTED"
  <2>1. s \in Own /\ Append(c.requests, s) \in Seq(Own)
    BY <1>2 DEF Controls
  <2>2. plug(c, s) = [c EXCEPT !.plugged = s, !.st[s] = "REQUESTED", !.requests = Append(@, s)]
    BY <1>2 DEF plug
  <2>3. [c.st EXCEPT ![s] = "REQUESTED"] \in [Sources -> AudioSourceState]
    BY DEF Controls, AudioSourceState
  <2> QED
    BY <1>2, <2>1, <2>2, <2>3 DEF Controls
<1> QED
  BY <1>1, <1>2

LEMMA SelectNow ==
    ASSUME NEW c \in Controls, NEW s \in Sources
    PROVE  LET r == select_now(c, s)
           IN  /\ r \in Controls /\ r.st = [c.st EXCEPT ![s] = "SELECTED"]
               /\ r.plugged = c.plugged /\ r.permissions = c.permissions
               /\ r.handle = c.handle /\ r.saved = c.saved /\ r.queued = c.queued
               /\ r.requests = c.requests /\ r.dead = c.dead
  BY DEF select_now, Controls, AudioSourceState

LEMMA PlayRequest ==
    ASSUME NEW c \in Controls, NEW op \in Own \cup {None}
    PROVE  LET r == play_request(c, op)
           IN  /\ r \in Controls
               /\ r.plugged = c.plugged /\ r.permissions = c.permissions
               /\ r.handle = c.handle /\ r.st = c.st /\ r.requests = c.requests
               /\ c.plugged = None => r.queued = c.queued
               /\ r.saved = IF c.plugged # None /\ c.st[c.plugged] = "REQUESTED"
                            THEN op ELSE c.saved
               /\ c.dead => r.dead
  BY DEF play_request, Dies, Controls, UserIntention

LEMMA Deselect ==
    ASSUME NEW c \in Controls, c.plugged # None
    PROVE  LET r == do_deselect_audio_source(c)
           IN  /\ r \in Controls /\ r.st = [c.st EXCEPT ![c.plugged] = "DESELECTED"]
               /\ r.plugged = c.plugged /\ r.permissions = c.permissions
               /\ r.handle = c.handle /\ r.saved = None /\ r.queued = c.queued
               /\ r.requests = c.requests /\ r.dead = c.dead
  BY DEF do_deselect_audio_source, Controls, AudioSourceState

\* What playing does to the states and to the requests of the sources.
Requests(c, r, s) ==
    \/ /\ c.plugged = s \/ c.st[s] = "SELECTED"
       /\ r.st = c.st /\ r.requests = c.requests
    \/ /\ c.plugged # s /\ c.st[s] # "SELECTED"
       /\ r.st = [c.st EXCEPT ![s] = "REQUESTED"]
       /\ r.requests = Append(c.requests, s)

LEMMA PlugCrawler ==
    ASSUME NEW c \in Controls, NEW s \in Own
    PROVE  LET r == plug_crawler(c, s)
           IN  /\ r \in Controls
               /\ r.plugged = c.plugged /\ r.st = c.st /\ r.saved = c.saved
               /\ r.requests = c.requests /\ r.queued = c.queued
               /\ ~r.dead => r.handle = s /\ resumer # s
  BY DEF plug_crawler, Dies, Controls

LEMMA PrepareForPlaying ==
    ASSUME NEW c \in Controls, NEW s \in Own, Tidy(c)
    PROVE  LET r == prepare_for_playing(c, s)
           IN  /\ r \in Controls
               /\ ~r.dead => /\ Tidy(r) /\ Requests(c, r, s)
                             /\ r.plugged = s /\ r.handle # resumer
<1> DEFINE owner == IF c.plugged = s THEN c ELSE plug(unplug(c, TRUE), s)
           ready == plug_crawler(owner, s)
           r == prepare_for_playing(c, s)
<1>1. /\ owner \in Controls /\ owner.plugged = s /\ owner.saved = c.saved
      /\ Requests(c, owner, s)
  <2>1. CASE c.plugged = s
    BY <2>1 DEF Requests
  <2>2. CASE c.plugged # s
    <3> DEFINE u == unplug(c, TRUE)
    <3>1. /\ u \in Controls /\ u.plugged = None /\ ~u.permissions /\ u.handle = None
          /\ u.st = c.st /\ u.saved = c.saved /\ u.requests = c.requests
      BY UnplugCompletely
    <3>2. owner = plug(u, s) /\ s \in Sources
      BY <2>2 DEF Sources
    <3> HIDE DEF u, owner
    <3>3. s \in Own \/ u.st[s] = "SELECTED"
      OBVIOUS
    <3>4. /\ owner \in Controls /\ owner.plugged = s /\ owner.saved = u.saved
          /\ \/ /\ u.st[s] = "SELECTED"
                /\ owner.st = u.st /\ owner.requests = u.requests
             \/ /\ u.st[s] # "SELECTED"
                /\ owner.st = [u.st EXCEPT ![s] = "REQUESTED"]
                /\ owner.requests = Append(u.requests, s)
      BY <3>1, <3>2, <3>3, PlugProperties
    <3> QED
      BY <2>2, <3>1, <3>4 DEF Requests
  <2> QED
    BY <2>1, <2>2
<1>2. /\ r = IF ready.dead THEN ready ELSE play_request(ready, s)
  BY DEF prepare_for_playing
<1> HIDE DEF owner, r
<1>3. /\ ready \in Controls /\ ready.plugged = s /\ ready.saved = c.saved
      /\ Requests(c, ready, s)
      /\ ~ready.dead => ready.handle = s /\ resumer # s
  BY <1>1, PlugCrawler DEF Requests
<1> HIDE DEF ready
<1>4. CASE ready.dead
  BY <1>2, <1>3, <1>4 DEF r
<1>5. CASE ~ready.dead
  <2>1. r = play_request(ready, s) /\ s \in Own \cup {None} /\ s # None
    BY <1>2, <1>5, SourcesAssumption DEF Sources
  <2>2. /\ r \in Controls /\ r.plugged = s /\ r.handle = s /\ r.st = ready.st
        /\ r.requests = ready.requests
        /\ r.saved = IF ready.st[s] = "REQUESTED" THEN s ELSE ready.saved
    BY <1>3, <1>5, <2>1, PlayRequest
  <2>3. Requests(c, r, s) /\ r.handle # resumer
    BY <1>3, <1>5, <2>2 DEF Requests
  <2>4. Tidy(r)
    BY <2>1, <2>2 DEF Tidy
  <2> QED
    BY <2>2, <2>3, <2>4 DEF r
<1> QED
  BY <1>4, <1>5

LEMMA LeaveSource ==
    ASSUME NEW c \in Controls, Tidy(c)
    PROVE  LET r == leave_source(c)
           IN  /\ r \in Controls /\ Tidy(r)
               /\ r.plugged = None /\ r.handle = None /\ r.requests = c.requests
               /\ ~r.permissions /\ r.queued = None /\ r.saved = None /\ r.dead = c.dead
               /\ r.st = [t \in Sources |->
                            IF t = c.plugged THEN "DESELECTED" ELSE c.st[t]]
<1> DEFINE r == leave_source(c)
<1>1. CASE c.plugged = None
  <2>1. r = unplug(c, TRUE) /\ c.saved = None
    BY <1>1 DEF leave_source, Tidy
  <2>2. /\ r \in Controls
        /\ r.plugged = None /\ r.handle = None /\ r.requests = c.requests
        /\ ~r.permissions /\ r.queued = None /\ r.saved = None /\ r.dead = c.dead
        /\ r.st = c.st
    BY <2>1, UnplugCompletely
  <2>3. r.st = [t \in Sources |-> IF t = c.plugged THEN "DESELECTED" ELSE c.st[t]]
    BY <1>1, <2>2, SourcesAssumption DEF Controls
  <2> QED
    BY <2>2, <2>3 DEF Tidy
<1>2. CASE c.plugged # None
  <2> DEFINE d == do_deselect_audio_source(c)
  <2>1. /\ d \in Controls /\ d.st = [c.st EXCEPT ![c.plugged] = "DESELECTED"]
        /\ d.saved = None /\ d.requests = c.requests /\ d.dead = c.dead
    BY <1>2, Deselect
  <2>2. r = unplug(d, TRUE)
    BY <1>2 DEF leave_source
  <2> HIDE DEF d
  <2>3. /\ r \in Controls
        /\ r.plugged = None /\ r.handle = None /\ r.requests = c.requests
        /\ ~r.permissions /\ r.queued = None /\ r.saved = None /\ r.dead = c.dead
        /\ r.st = d.st
    BY <2>1, <2>2, UnplugCompletely
  <2>4. r.st = [t \in Sources |-> IF t = c.plugged THEN "DESELECTED" ELSE c.st[t]]
    BY <1>2, <2>1, <2>3 DEF Controls
  <2> QED
    BY <2>3, <2>4 DEF Tidy
<1> QED
  BY <1>1, <1>2

\* The source is selected, and nothing but the source that was plugged before
\* is affected.
LEMMA PlugSelected ==
    ASSUME NEW c \in Controls, NEW s \in Sources, Tidy(c), c.plugged # s
    PROVE  LET r == plug_selected(c, s)
           IN  /\ r \in Controls /\ Tidy(r)
               /\ r.plugged = s /\ r.handle = None /\ r.requests = c.requests
               /\ r.dead = c.dead
               /\ r.st = [t \in Sources |->
                            IF t = s THEN "SELECTED"
                            ELSE IF t = c.plugged THEN "DESELECTED" ELSE c.st[t]]
<1> DEFINE free == IF c.plugged = None THEN c
                   ELSE unplug(do_deselect_audio_source(c), TRUE)
           n == select_now(free, s)
           r == plug_selected(c, s)
<1>1. /\ free \in Controls /\ free.plugged = None /\ free.handle = None
      /\ ~free.permissions /\ free.saved = None /\ free.queued = None
      /\ free.requests = c.requests /\ free.dead = c.dead
      /\ free.st = [t \in Sources |-> IF t = c.plugged THEN "DESELECTED" ELSE c.st[t]]
  <2>1. CASE c.plugged = None
    BY <2>1, SourcesAssumption DEF Tidy, Controls
  <2>2. CASE c.plugged # None
    <3>1. free = leave_source(c)
      BY <2>2 DEF leave_source
    <3> HIDE DEF free
    <3> QED
      BY <3>1, LeaveSource
  <2> QED
    BY <2>1, <2>2
<1> HIDE DEF free
<1>2. /\ n \in Controls /\ n.plugged = None /\ n.handle = None /\ ~n.permissions
      /\ n.saved = None /\ n.queued = None
      /\ n.requests = c.requests /\ n.dead = c.dead
      /\ n.st = [free.st EXCEPT ![s] = "SELECTED"]
  BY <1>1, SelectNow
<1>3. n.st = [t \in Sources |-> IF t = s THEN "SELECTED"
                               ELSE IF t = c.plugged THEN "DESELECTED" ELSE c.st[t]]
  BY <1>1, <1>2
<1>4. r = plug(n, s) /\ n.st[s] = "SELECTED"
  BY <1>3 DEF plug_selected, free
<1> HIDE DEF n, r
<1>5. /\ r \in Controls /\ r.plugged = s /\ r.handle = None /\ ~r.permissions
      /\ r.saved = None /\ r.queued = None /\ r.dead = n.dead
      /\ r.st = n.st /\ r.requests = n.requests
  BY <1>2, <1>4, PlugProperties
<1>6. Tidy(r)
  BY <1>2, <1>5, SourcesAssumption DEF Tidy, Sources
<1> QED
  BY <1>2, <1>3, <1>5, <1>6 DEF r

LEMMA PlugExternal ==
    ASSUME NEW c \in Controls, NEW s \in Sources, Tidy(c), c.plugged # s, ~c.dead
    PROVE  LET r == plug_external(leave_source(c), s)
           IN  /\ r \in Controls /\ Tidy(r)
               /\ r.plugged = s /\ r.handle = None /\ r.requests = c.requests
               /\ r.st = [t \in Sources |->
                            IF t = s THEN "SELECTED"
                            ELSE IF t = c.plugged THEN "DESELECTED" ELSE c.st[t]]
<1> DEFINE free == leave_source(c)
           n == select_now(free, s)
           p == plug(n, s)
           r == plug_external(free, s)
<1>1. /\ free \in Controls /\ free.plugged = None /\ free.handle = None
      /\ ~free.permissions /\ free.saved = None
      /\ free.requests = c.requests /\ ~free.dead
      /\ free.st = [t \in Sources |-> IF t = c.plugged THEN "DESELECTED" ELSE c.st[t]]
  BY LeaveSource
<1>2. r = IF p.dead THEN p ELSE [p EXCEPT !.permissions = TRUE]
  BY DEF plug_external
<1> HIDE DEF free
<1>3. /\ n \in Controls /\ n.plugged = None /\ n.handle = None /\ ~n.permissions
      /\ n.saved = None
      /\ n.requests = c.requests /\ ~n.dead
      /\ n.st = [free.st EXCEPT ![s] = "SELECTED"]
  BY <1>1, SelectNow
<1>4. n.st = [t \in Sources |-> IF t = s THEN "SELECTED"
                               ELSE IF t = c.plugged THEN "DESELECTED" ELSE c.st[t]]
  BY <1>1, <1>3
<1>5. n.st[s] = "SELECTED" /\ p = plug(n, s)
  BY <1>4
<1> HIDE DEF n, p
<1>6. /\ p \in Controls /\ p.plugged = s /\ p.handle = None
      /\ p.saved = None /\ p.dead = n.dead
      /\ p.st = n.st /\ p.requests = n.requests
  BY <1>3, <1>5, PlugProperties
<1> HIDE DEF r
<1>7. /\ r \in Controls /\ r.plugged = s /\ r.handle = None
      /\ r.saved = None
      /\ r.st = n.st /\ r.requests = n.requests
  BY <1>2, <1>6 DEF Controls
<1>8. Tidy(r)
  BY <1>7, SourcesAssumption DEF Tidy
<1> QED
  BY <1>3, <1>4, <1>7, <1>8 DEF r, free

LEMMA SelectedNotification ==
    ASSUME NEW c \in Controls, NEW s \in Sources, NEW h, Tidy(c), c.plugged = s
    PROVE  LET r == source_selected_notification(c, s, h)
           IN  /\ r \in Controls /\ Tidy(r)
               /\ r.plugged = s /\ r.handle = c.handle /\ r.requests = c.requests
               /\ r.st = [t \in Sources |->
                            IF t = s /\ c.st[t] = "REQUESTED" THEN "SELECTED"
                            ELSE c.st[t]]
<1> DEFINE n == selected_notification(c, s)
           m == [n EXCEPT !.saved = None]
           r == source_selected_notification(c, s, h)
<1>1. /\ n \in Controls /\ n.plugged = s /\ n.handle = c.handle
      /\ n.requests = c.requests
      /\ n.st = [c.st EXCEPT ![s] = IF @ = "REQUESTED" THEN "SELECTED" ELSE @]
  BY DEF selected_notification, Controls, AudioSourceState
<1>2. n.st = [t \in Sources |-> IF t = s /\ c.st[t] = "REQUESTED" THEN "SELECTED"
                               ELSE c.st[t]]
  BY <1>1 DEF Controls
<1>3. n.st[s] # "REQUESTED" /\ s # None
  BY <1>2, SourcesAssumption
<1>4. \/ r = n
      \/ r = play_request(m, n.saved)
  BY DEF source_selected_notification
<1> HIDE DEF n
<1>5. /\ m \in Controls /\ m.plugged = s /\ m.handle = c.handle
      /\ m.requests = c.requests /\ m.st = n.st
      /\ n.saved \in Own \cup {None}
  BY <1>1 DEF Controls
<1> HIDE DEF m, r
<1>6. /\ r \in Controls /\ r.plugged = s /\ r.handle = c.handle
      /\ r.requests = c.requests /\ r.st = n.st
  BY <1>1, <1>4, <1>5, PlayRequest
<1>7. Tidy(r)
  BY <1>3, <1>6 DEF Tidy
<1> QED
  BY <1>2, <1>6, <1>7 DEF r

\* What stopping, pausing and starting without choosing do.
LEMMA OnlyIntends ==
    ASSUME NEW c \in Controls, Tidy(c), NEW i \in UserIntention
    PROVE  \A r \in {play_request(c, None), intend(c, i)} :
               /\ r \in Controls /\ (~r.dead => Tidy(r))
               /\ r.plugged = c.plugged /\ r.handle = c.handle
               /\ r.st = c.st /\ r.requests = c.requests
<1>1. /\ play_request(c, None) \in Controls
      /\ play_request(c, None).plugged = c.plugged
      /\ play_request(c, None).permissions = c.permissions
      /\ play_request(c, None).handle = c.handle
      /\ play_request(c, None).st = c.st
      /\ play_request(c, None).requests = c.requests
      /\ c.plugged = None => play_request(c, None).queued = c.queued
      /\ play_request(c, None).saved \in {None, c.saved}
  BY PlayRequest
<1>2. Tidy(play_request(c, None))
  BY <1>1 DEF Tidy
<1>3. /\ intend(c, i) \in Controls /\ intend(c, i).plugged = c.plugged
      /\ intend(c, i).handle = c.handle /\ intend(c, i).st = c.st
      /\ intend(c, i).requests = c.requests
      /\ intend(c, i).permissions = c.permissions
      /\ intend(c, i).queued = c.queued /\ intend(c, i).saved = c.saved
  BY DEF intend, Controls
<1>4. Tidy(intend(c, i))
  BY <1>3 DEF Tidy
<1> QED
  BY <1>1, <1>2, <1>3, <1>4

(***************************************************************************)
(* The control is consistent                                               *)
(***************************************************************************)
\* What is told about a single source is told about one of this program's.
OwnSaid == \A i \in DOMAIN events :
    events[i].type \in {"SELECTED", "SELECTED_ON_HOLD", "DESELECTED"} =>
        events[i].source \in Own

PlugInv ==
    /\ TypeOK /\ requests \in Seq(Own) /\ OwnSaid
    /\ ResumerHasFocus
    /\ ~dead => Tidy(Control) /\ (handle # None => handle # resumer)

LEMMA ControlTyped ==
    ASSUME TypeOK, requests \in Seq(Own)
    PROVE  /\ Control \in Controls
           /\ Control.st = state /\ Control.plugged = plugged
           /\ Control.handle = handle /\ Control.requests = requests
           /\ Control.dead = dead
  BY DEF TypeOK, Control, Controls

\* The variables of the control take the values of a record.
LEMMA BecomesTyped ==
    ASSUME NEW r \in Controls, Becomes(r)
    PROVE  /\ Control' = r
           /\ state' = r.st /\ plugged' = r.plugged /\ handle' = r.handle
           /\ requests' = r.requests /\ dead' = r.dead
           /\ state' \in [Sources -> AudioSourceState]
           /\ plugged' \in Sources \cup {None} /\ permissions' \in BOOLEAN
           /\ {handle', saved', queued'} \subseteq Own \cup {None}
           /\ intention' \in UserIntention
           /\ requests' \in Seq(Own) /\ dead' \in BOOLEAN
<1>1. /\ state' = r.st /\ plugged' = r.plugged /\ permissions' = r.permissions
      /\ handle' = r.handle /\ saved' = r.saved /\ intention' = r.intention
      /\ queued' = r.queued /\ requests' = r.requests /\ dead' = r.dead
  BY DEF Becomes
<1>2. r = [st |-> r.st, plugged |-> r.plugged, permissions |-> r.permissions,
           handle |-> r.handle, saved |-> r.saved, intention |-> r.intention,
           queued |-> r.queued, requests |-> r.requests, dead |-> r.dead]
  BY DEF Controls
<1>3. Control' = r
  BY <1>1, <1>2 DEF Control
<1> QED
  BY <1>1, <1>3 DEF Controls

LEMMA ActivateView ==
    ASSUME TypeOK, ResumerHasFocus, NEW v \in Views, NEW e, activate_view(v, e)
    PROVE  /\ active' \in Views /\ resumer' \in {None, resumer}
           /\ resume' \subseteq Own /\ stored' \subseteq Own
           /\ ResumerHasFocus'
  BY SourcesAssumption DEF TypeOK, ResumerHasFocus, activate_view, resuming, Sources

LEMMA SequencesOfSources ==
    ASSUME NEW q \in Seq(Own)
    PROVE  q \in Seq(Sources)
  BY DEF Sources

\* What a step changes of what the manager and the sources have to agree on.
Quiet == UNCHANGED <<state, plugged, requests, events, hold, locked, path, deferred, refused>>

Played(s) ==
    /\ plugged' = s
    /\ \/ /\ plugged = s \/ state[s] = "SELECTED"
          /\ state' = state /\ requests' = requests
       \/ /\ plugged # s /\ state[s] # "SELECTED"
          /\ state' = [state EXCEPT ![s] = "REQUESTED"]
          /\ requests' = Append(requests, s)
    /\ UNCHANGED <<events, hold, locked, path, deferred, refused>>

LEMMA OpenViewStep ==
    ASSUME PlugInv, NEW v \in Own \cup {"player"}, OpenView(v)
    PROVE  PlugInv' /\ Quiet
<1>1. v \in Views
  BY DEF Views, Sources
<1>2. /\ active' \in Views /\ resumer' \in {None, resumer}
      /\ resume' \subseteq Own /\ stored' \subseteq Own /\ ResumerHasFocus'
  BY <1>1, ActivateView DEF OpenView, PlugInv
<1>3. UNCHANGED <<state, control, locked, hold, dead, events, requests, manager>>
  BY DEF OpenView
<1>4. TypeOK' /\ requests' \in Seq(Own) /\ OwnSaid'
  BY <1>2, <1>3 DEF PlugInv, TypeOK, OwnSaid, control, manager
<1>5. ~dead' => Tidy(Control') /\ (handle' # None => handle' # resumer')
  BY <1>2, <1>3 DEF PlugInv, Control, control
<1> QED
  BY <1>2, <1>3, <1>4, <1>5 DEF PlugInv, Quiet, control, manager

LEMMA PlayItemStep ==
    ASSUME PlugInv, NEW s \in Own, PlayItem(s)
    PROVE  PlugInv' /\ (~dead' => Played(s))
<1> DEFINE r == prepare_for_playing(Control, s)
<1>1. /\ Control \in Controls /\ Control.st = state /\ Control.plugged = plugged
      /\ Control.requests = requests /\ Tidy(Control) /\ ~dead
  BY ControlTyped DEF PlugInv, PlayItem, Alive
<1>2. /\ r \in Controls
      /\ ~r.dead => /\ Tidy(r) /\ Requests(Control, r, s)
                    /\ r.plugged = s /\ r.handle # resumer
  BY <1>1, PrepareForPlaying
<1>3. Becomes(r)
  BY DEF PlayItem
<1> HIDE DEF r
<1>4. /\ Control' = r
      /\ state' = r.st /\ plugged' = r.plugged /\ handle' = r.handle
      /\ requests' = r.requests /\ dead' = r.dead
      /\ state' \in [Sources -> AudioSourceState]
      /\ plugged' \in Sources \cup {None} /\ permissions' \in BOOLEAN
      /\ {handle', saved', queued'} \subseteq Own \cup {None}
      /\ intention' \in UserIntention
      /\ requests' \in Seq(Own) /\ dead' \in BOOLEAN
  BY <1>2, <1>3, BecomesTyped
<1>5. /\ active' \in Views /\ resumer' \in {None, resumer}
      /\ resume' \subseteq Own /\ stored' \subseteq Own /\ ResumerHasFocus'
  <2>1. CASE dead'
    BY <2>1 DEF PlayItem, StaysActive, PlugInv, TypeOK, ResumerHasFocus, resuming
  <2>2. CASE ~dead'
    <3>1. "player" \in Views /\ activate_view("player", TRUE)
      BY <2>2 DEF PlayItem, Views
    <3> QED
      BY <3>1, ActivateView DEF PlugInv
  <2> QED
    BY <2>1, <2>2
<1>6. UNCHANGED <<locked, hold, events, manager>>
  BY DEF PlayItem
<1>7. TypeOK' /\ OwnSaid'
  BY <1>4, <1>5, <1>6, SequencesOfSources DEF PlugInv, TypeOK, OwnSaid, manager
<1>8. ~dead' => Tidy(Control') /\ (handle' # None => handle' # resumer')
  BY <1>2, <1>4, <1>5
<1>9. ~dead' => Played(s)
  BY <1>1, <1>2, <1>4, <1>6 DEF Played, Requests, manager
<1> QED
  BY <1>4, <1>5, <1>7, <1>8, <1>9 DEF PlugInv

\* The steps that change no source.
LEMMA IntendingStep ==
    ASSUME PlugInv, NEW r \in Controls, Becomes(r), ~r.dead => Tidy(r),
           r.plugged = plugged, r.handle = handle, r.st = state, r.requests = requests,
           UNCHANGED <<locked, hold, events, manager>>, resumer' = resumer,
           active' \in Views, resume' \subseteq Own, stored' \subseteq Own,
           ResumerHasFocus', ~dead
    PROVE  PlugInv' /\ Quiet
<1>1. /\ Control' = r
      /\ state' = r.st /\ plugged' = r.plugged /\ handle' = r.handle
      /\ requests' = r.requests /\ dead' = r.dead
      /\ state' \in [Sources -> AudioSourceState]
      /\ plugged' \in Sources \cup {None} /\ permissions' \in BOOLEAN
      /\ {handle', saved', queued'} \subseteq Own \cup {None}
      /\ intention' \in UserIntention
      /\ requests' \in Seq(Own) /\ dead' \in BOOLEAN
  BY BecomesTyped
<1>2. TypeOK' /\ OwnSaid'
  BY <1>1, SequencesOfSources DEF PlugInv, TypeOK, OwnSaid, manager
<1>3. ~dead' => Tidy(Control') /\ (handle' # None => handle' # resumer')
  BY <1>1 DEF PlugInv
<1> QED
  BY <1>1, <1>2, <1>3 DEF PlugInv, Quiet, manager

\* What the steps of the user find.
LEMMA ControlFound ==
    ASSUME PlugInv, ~dead
    PROVE  /\ Control \in Controls /\ Tidy(Control)
           /\ Control.st = state /\ Control.plugged = plugged
           /\ Control.handle = handle /\ Control.requests = requests
           /\ Control.dead = dead
           /\ active \in Views /\ resume \subseteq Own /\ stored \subseteq Own
  BY ControlTyped DEF PlugInv, TypeOK

LEMMA CommandStep ==
    ASSUME PlugInv, NEW i \in Commands, Command(i)
    PROVE  PlugInv' /\ Quiet
<1> DEFINE r == IF i = "LISTENING" THEN play_request(Control, None) ELSE intend(Control, i)
<1>1. ~dead /\ Becomes(r) /\ StaysActive /\ UNCHANGED <<locked, hold, events, manager>>
  BY DEF Command, Alive
<1>2. /\ Control \in Controls /\ Tidy(Control)
      /\ Control.st = state /\ Control.plugged = plugged
      /\ Control.handle = handle /\ Control.requests = requests
      /\ active \in Views /\ resume \subseteq Own /\ stored \subseteq Own
  BY <1>1, ControlFound
<1>3. i \in UserIntention
  BY SourcesAssumption
<1>4. r \in {play_request(Control, None), intend(Control, i)}
  OBVIOUS
<1> HIDE DEF r
<1>5. /\ r \in Controls /\ (~r.dead => Tidy(r))
      /\ r.plugged = plugged /\ r.handle = handle /\ r.st = state
      /\ r.requests = requests
  BY <1>2, <1>3, <1>4, OnlyIntends
<1>6. /\ resumer' = resumer /\ active' \in Views /\ resume' \subseteq Own
      /\ stored' \subseteq Own /\ ResumerHasFocus'
  BY <1>1, <1>2 DEF StaysActive, resuming, PlugInv, ResumerHasFocus
<1> QED
  BY <1>1, <1>5, <1>6, IntendingStep

LEMMA StreamStartsStep ==
    ASSUME PlugInv, StreamStarts
    PROVE  PlugInv' /\ Quiet
<1> DEFINE r == [Control EXCEPT !.intention = "LISTENING"]
<1>1. /\ ~dead /\ Becomes(r) /\ UNCHANGED <<locked, hold, events, manager>>
      /\ resume' = resume \cup ({plugged} \cap Own)
      /\ UNCHANGED <<active, resumer, stored>>
  BY DEF StreamStarts, Alive
<1>2. /\ Control \in Controls /\ Tidy(Control)
      /\ Control.st = state /\ Control.plugged = plugged
      /\ Control.handle = handle /\ Control.requests = requests
      /\ active \in Views /\ resume \subseteq Own /\ stored \subseteq Own
  BY <1>1, ControlFound
<1>3. /\ r \in Controls /\ Tidy(r)
      /\ r.plugged = plugged /\ r.handle = handle /\ r.st = state
      /\ r.requests = requests
  BY <1>2 DEF Controls, Tidy, UserIntention
<1> HIDE DEF r
<1>4. /\ resumer' = resumer /\ active' \in Views /\ resume' \subseteq Own
      /\ stored' \subseteq Own /\ ResumerHasFocus'
  BY <1>1, <1>2 DEF PlugInv, ResumerHasFocus
<1> QED
  BY <1>1, <1>3, <1>4, IntendingStep

LEMMA UnpluggedPartly ==
    ASSUME PlugInv, ~dead
    PROVE  LET r == unplug(Control, FALSE)
           IN  /\ r \in Controls /\ Tidy(r)
               /\ r.plugged = plugged /\ r.handle = handle /\ r.st = state
               /\ r.requests = requests
<1> DEFINE r == unplug(Control, FALSE)
<1>1. /\ Control \in Controls /\ Tidy(Control)
      /\ Control.st = state /\ Control.plugged = plugged
      /\ Control.handle = handle /\ Control.requests = requests
  BY ControlFound
<1>2. /\ r \in Controls /\ r.queued = None
      /\ r.plugged = Control.plugged /\ r.permissions = Control.permissions
      /\ r.handle = Control.handle
      /\ r.st = Control.st /\ r.saved = Control.saved /\ r.requests = Control.requests
  BY <1>1, UnplugPartly
<1> HIDE DEF r
<1>3. Tidy(r)
  BY <1>1, <1>2 DEF Tidy
<1> QED
  BY <1>1, <1>2, <1>3 DEF r

LEMMA StreamsEndStep ==
    ASSUME PlugInv, NEW cleared, StreamsEnd(cleared)
    PROVE  PlugInv' /\ Quiet
<1> DEFINE r == unplug(Control, FALSE)
<1>1. /\ ~dead /\ Becomes(r) /\ UNCHANGED <<locked, hold, events, manager>>
      /\ resume' \subseteq resume
      /\ IF active = "player" THEN \E v \in Sources : active' = v ELSE UNCHANGED active
      /\ UNCHANGED <<resumer, stored>>
  BY DEF StreamsEnd, Alive
<1>2. active \in Views /\ resume \subseteq Own /\ stored \subseteq Own
  BY <1>1, ControlFound
<1>3. /\ r \in Controls /\ Tidy(r)
      /\ r.plugged = plugged /\ r.handle = handle /\ r.st = state
      /\ r.requests = requests
  BY <1>1, UnpluggedPartly
<1> HIDE DEF r
<1>4. /\ resumer' = resumer /\ active' \in Views /\ resume' \subseteq Own
      /\ stored' \subseteq Own
  BY <1>1, <1>2 DEF Views
<1>5. ResumerHasFocus'
  BY <1>1, SourcesAssumption DEF PlugInv, TypeOK, ResumerHasFocus, Sources
<1> QED
  BY <1>1, <1>3, <1>4, <1>5, IntendingStep

LEMMA StopPlayingStep ==
    ASSUME PlugInv, NEW s \in Own, stop_playing(s)
    PROVE  PlugInv' /\ Quiet
<1> DEFINE r == unplug(Control, FALSE)
<1>1. ~dead /\ Becomes(r) /\ StaysActive /\ UNCHANGED <<locked, hold, events, manager>>
  BY DEF stop_playing, Alive
<1>2. active \in Views /\ resume \subseteq Own /\ stored \subseteq Own
  BY <1>1, ControlFound
<1>3. /\ r \in Controls /\ Tidy(r)
      /\ r.plugged = plugged /\ r.handle = handle /\ r.st = state
      /\ r.requests = requests
  BY <1>1, UnpluggedPartly
<1> HIDE DEF r
<1>4. /\ resumer' = resumer /\ active' \in Views /\ resume' \subseteq Own
      /\ stored' \subseteq Own /\ ResumerHasFocus'
  BY <1>1, <1>2 DEF StaysActive, resuming, PlugInv, ResumerHasFocus
<1> QED
  BY <1>1, <1>3, <1>4, IntendingStep

LEMMA ResumeRequestStep ==
    ASSUME PlugInv, NEW s \in Own, resume_request(s)
    PROVE  PlugInv' /\ (~dead' => Quiet \/ Played(s))
<1>1. /\ ~dead /\ active = s /\ resumer # s
      /\ UNCHANGED <<locked, hold, events, manager>>
  BY DEF resume_request, Alive
<1>2. /\ Control \in Controls /\ Tidy(Control)
      /\ Control.st = state /\ Control.plugged = plugged
      /\ Control.handle = handle /\ Control.requests = requests /\ Control.dead = dead
      /\ active \in Views /\ resume \subseteq Own /\ stored \subseteq Own
  BY <1>1, ControlFound
<1>3. CASE s \in resume
  <2> DEFINE r == prepare_for_playing(Control, s)
  <2>1. Becomes(r) /\ StaysActive
    BY <1>3 DEF resume_request
  <2>2. /\ r \in Controls
        /\ ~r.dead => /\ Tidy(r) /\ Requests(Control, r, s)
                      /\ r.plugged = s /\ r.handle # resumer
    BY <1>2, PrepareForPlaying
  <2> HIDE DEF r
  <2>3. /\ Control' = r
        /\ state' = r.st /\ plugged' = r.plugged /\ handle' = r.handle
        /\ requests' = r.requests /\ dead' = r.dead
        /\ state' \in [Sources -> AudioSourceState]
        /\ plugged' \in Sources \cup {None} /\ permissions' \in BOOLEAN
        /\ {handle', saved', queued'} \subseteq Own \cup {None}
        /\ intention' \in UserIntention
        /\ requests' \in Seq(Own) /\ dead' \in BOOLEAN
    BY <2>1, <2>2, BecomesTyped
  <2>4. TypeOK' /\ OwnSaid' /\ ResumerHasFocus' /\ resumer' = resumer
    BY <1>1, <2>1, <2>3, SequencesOfSources
    DEF PlugInv, TypeOK, OwnSaid, manager, StaysActive, resuming, ResumerHasFocus
  <2>5. ~dead' => Tidy(Control') /\ (handle' # None => handle' # resumer')
    BY <2>2, <2>3, <2>4
  <2>6. ~dead' => Played(s)
    BY <1>1, <1>2, <2>2, <2>3 DEF Played, Requests, manager
  <2> QED
    BY <2>3, <2>4, <2>5, <2>6 DEF PlugInv
<1>4. CASE s \notin resume /\ s \notin stored
  <2>1. /\ Becomes(Control) /\ resumer' = resumer
        /\ UNCHANGED <<active, resume, stored>>
    BY <1>4 DEF resume_request
  <2>2. ResumerHasFocus'
    BY <2>1 DEF PlugInv, ResumerHasFocus
  <2> QED
    BY <1>1, <1>2, <2>1, <2>2, IntendingStep
<1>5. CASE s \notin resume /\ s \in stored
  <2> DEFINE r == IF handle = s \/ state[s] = "SELECTED" THEN Dies(Control) ELSE Control
  <2>1. /\ Becomes(r)
        /\ resumer' = IF state[s] = "REQUESTED" /\ handle # s THEN s ELSE resumer
        /\ UNCHANGED <<active, resume, stored>>
    BY <1>5 DEF resume_request
  <2>2. /\ r \in Controls /\ (~r.dead => Tidy(r))
        /\ r.plugged = plugged /\ r.handle = handle /\ r.st = state
        /\ r.requests = requests
    BY <1>2 DEF Dies, Controls
  <2> HIDE DEF r
  <2>3. /\ Control' = r
        /\ state' = r.st /\ plugged' = r.plugged /\ handle' = r.handle
        /\ requests' = r.requests /\ dead' = r.dead
        /\ state' \in [Sources -> AudioSourceState]
        /\ plugged' \in Sources \cup {None} /\ permissions' \in BOOLEAN
        /\ {handle', saved', queued'} \subseteq Own \cup {None}
        /\ intention' \in UserIntention
        /\ requests' \in Seq(Own) /\ dead' \in BOOLEAN
    BY <2>1, <2>2, BecomesTyped
  <2>4. TypeOK' /\ OwnSaid' /\ ResumerHasFocus'
    BY <1>1, <2>1, <2>3, SequencesOfSources
    DEF PlugInv, TypeOK, OwnSaid, manager, ResumerHasFocus
  <2>5. ~dead' => Tidy(Control') /\ (handle' # None => handle' # resumer')
    BY <1>1, <2>1, <2>2, <2>3 DEF PlugInv
  <2>6. Quiet
    BY <1>1, <2>2, <2>3 DEF Quiet, manager
  <2> QED
    BY <2>3, <2>4, <2>5, <2>6 DEF PlugInv
<1> QED
  BY <1>3, <1>4, <1>5

\* What the next event says has been heard.
Took(type) ==
    /\ events # <<>> /\ Head(events).type = type
    /\ events' = Tail(events)
    /\ UNCHANGED <<requests, path, deferred, refused>>

SelectionHeard(type, h) ==
    /\ Took(type) /\ hold' = h /\ locked' = locked
    /\ plugged' = Said
    /\ state' = [t \in Sources |->
                   IF t = Said
                   THEN IF plugged = Said /\ state[t] = "DESELECTED" THEN "DESELECTED"
                        ELSE "SELECTED"
                   ELSE IF t = plugged THEN "DESELECTED" ELSE state[t]]

DeselectionHeard ==
    /\ Took("DESELECTED") /\ locked' = locked
    /\ plugged' = plugged
    /\ state' = [state EXCEPT ![Said] = "DESELECTED"]

PathHeard(type) ==
    /\ Took(type)
    /\ hold' = (type = "PATH_HALF_CHANGED") /\ locked' = (Said \in External)
    /\ \/ Said # None /\ plugged = Said /\ plugged' = plugged /\ state' = state
       \/ /\ plugged # Said \/ Said = None
          /\ plugged' = IF Said \in External THEN Said ELSE None
          /\ state' = [t \in Sources |->
                         IF t = Said /\ Said \in External THEN "SELECTED"
                         ELSE IF t = plugged THEN "DESELECTED" ELSE state[t]]

LEMMA TailElements ==
    ASSUME NEW S, NEW q \in Seq(S), q # <<>>
    PROVE  /\ Head(q) \in S /\ Head(q) = q[1] /\ 1 \in DOMAIN q
           /\ Tail(q) \in Seq(S) /\ Len(Tail(q)) = Len(q) - 1
           /\ Len(q) \in Nat \ {0} /\ DOMAIN q = 1 .. Len(q)
           /\ DOMAIN Tail(q) = 1 .. (Len(q) - 1)
           /\ \A i \in DOMAIN Tail(q) : Tail(q)[i] = q[i + 1] /\ i + 1 \in DOMAIN q
  OBVIOUS

\* An event taken leaves the queue well-typed.
LEMMA Taken ==
    ASSUME PlugInv, NEW type, Take(type)
    PROVE  /\ events # <<>> /\ Head(events).type = type /\ events' = Tail(events)
           /\ events' \in Seq([type : EventTypes, source : Sources \cup {None}])
           /\ OwnSaid' /\ Said \in Sources \cup {None}
           /\ type \in {"SELECTED", "SELECTED_ON_HOLD", "DESELECTED"} => Said \in Own
           /\ ~dead
<1> DEFINE S == [type : EventTypes, source : Sources \cup {None}]
<1>1. /\ events # <<>> /\ Head(events).type = type /\ events' = Tail(events)
      /\ events \in Seq(S) /\ ~dead
  BY DEF Take, PlugInv, TypeOK, Alive
<1>2. /\ Head(events) \in S /\ Head(events) = events[1] /\ 1 \in DOMAIN events
      /\ Tail(events) \in Seq(S)
      /\ \A i \in DOMAIN Tail(events) :
             Tail(events)[i] = events[i + 1] /\ i + 1 \in DOMAIN events
  BY <1>1, TailElements
<1>3. OwnSaid'
  BY <1>1, <1>2 DEF PlugInv, OwnSaid
<1>4. type \in {"SELECTED", "SELECTED_ON_HOLD", "DESELECTED"} => Said \in Own
  BY <1>1, <1>2 DEF PlugInv, OwnSaid, Said
<1>5. Said \in Sources \cup {None}
  BY <1>2 DEF Said
<1> QED
  BY <1>1, <1>2, <1>3, <1>4, <1>5

\* The typed part of a step by which the control becomes r.
LEMMA ControlStep ==
    ASSUME PlugInv, NEW r \in Controls, Becomes(r), r.requests = requests,
           ~r.dead => Tidy(r) /\ (r.handle # None => r.handle # resumer'),
           events' \in Seq([type : EventTypes, source : Sources \cup {None}]),
           OwnSaid', hold' \in BOOLEAN, locked' \in BOOLEAN, UNCHANGED manager,
           active' \in Views, resumer' \in Own \cup {None},
           resume' \subseteq Own, stored' \subseteq Own, ResumerHasFocus'
    PROVE  /\ PlugInv' /\ state' = r.st /\ plugged' = r.plugged /\ requests' = requests
<1>1. /\ Control' = r
      /\ state' = r.st /\ plugged' = r.plugged /\ handle' = r.handle
      /\ requests' = r.requests /\ dead' = r.dead
      /\ state' \in [Sources -> AudioSourceState]
      /\ plugged' \in Sources \cup {None} /\ permissions' \in BOOLEAN
      /\ {handle', saved', queued'} \subseteq Own \cup {None}
      /\ intention' \in UserIntention
      /\ requests' \in Seq(Own) /\ dead' \in BOOLEAN
  BY BecomesTyped
<1>2. TypeOK'
  BY <1>1, SequencesOfSources DEF PlugInv, TypeOK, manager
<1> QED
  BY <1>1, <1>2 DEF PlugInv

LEMMA AudioSourceSelectedStep ==
    ASSUME PlugInv, NEW type \in {"SELECTED", "SELECTED_ON_HOLD"}, NEW h \in BOOLEAN,
           AudioSourceSelected(type, h)
    PROVE  PlugInv' /\ SelectionHeard(type, h)
<1>1. /\ events # <<>> /\ Head(events).type = type /\ events' = Tail(events)
      /\ events' \in Seq([type : EventTypes, source : Sources \cup {None}])
      /\ OwnSaid' /\ Said \in Own /\ ~dead
  BY Taken DEF AudioSourceSelected
<1>2. /\ Control \in Controls /\ Tidy(Control)
      /\ Control.st = state /\ Control.plugged = plugged
      /\ Control.handle = handle /\ Control.requests = requests
      /\ Control.dead = dead
      /\ active \in Views /\ resume \subseteq Own /\ stored \subseteq Own
      /\ resumer \in Own \cup {None} /\ locked \in BOOLEAN
      /\ (handle # None => handle # resumer)
      /\ state \in [Sources -> AudioSourceState]
  BY <1>1, ControlFound DEF PlugInv, TypeOK
<1>3. /\ hold' = h /\ UNCHANGED <<locked, manager>>
  BY DEF AudioSourceSelected
<1>4. Said \in Sources /\ Said \in Views
  BY <1>1 DEF Sources, Views
<1>5. CASE plugged = Said
  <2> DEFINE r == source_selected_notification(Control, Said, h)
  <2>1. Becomes(r) /\ StaysActive
    BY <1>5 DEF AudioSourceSelected
  <2>2. /\ r \in Controls /\ Tidy(r)
        /\ r.plugged = Said /\ r.handle = handle /\ r.requests = requests
        /\ r.st = [t \in Sources |->
                     IF t = Said /\ state[t] = "REQUESTED" THEN "SELECTED" ELSE state[t]]
    BY <1>2, <1>4, <1>5, SelectedNotification
  <2> HIDE DEF r
  <2>3. /\ active' \in Views /\ resumer' = resumer
        /\ resume' \subseteq Own /\ stored' \subseteq Own /\ ResumerHasFocus'
    BY <1>2, <2>1 DEF StaysActive, resuming, PlugInv, ResumerHasFocus
  <2>4. PlugInv' /\ state' = r.st /\ plugged' = Said /\ requests' = requests
    BY <1>1, <1>2, <1>3, <2>1, <2>2, <2>3, ControlStep
  <2>5. state' = [t \in Sources |->
                   IF t = Said
                   THEN IF plugged = Said /\ state[t] = "DESELECTED" THEN "DESELECTED"
                        ELSE "SELECTED"
                   ELSE IF t = plugged THEN "DESELECTED" ELSE state[t]]
    BY <1>2, <1>5, <2>2, <2>4 DEF AudioSourceState
  <2> QED
    BY <1>1, <1>3, <2>4, <2>5 DEF SelectionHeard, Took, manager
<1>6. CASE plugged # Said
  <2> DEFINE r == plug_selected(Control, Said)
  <2>1. /\ Becomes(r)
        /\ IF dead' THEN StaysActive ELSE activate_view(Said, TRUE)
    BY <1>6 DEF AudioSourceSelected
  <2>2. /\ r \in Controls /\ Tidy(r)
        /\ r.plugged = Said /\ r.handle = None /\ r.requests = requests
        /\ r.dead = dead
        /\ r.st = [t \in Sources |->
                     IF t = Said THEN "SELECTED"
                     ELSE IF t = plugged THEN "DESELECTED" ELSE state[t]]
    BY <1>2, <1>4, <1>6, PlugSelected
  <2> HIDE DEF r
  <2>3. activate_view(Said, TRUE)
    BY <1>1, <2>1, <2>2 DEF Becomes
  <2>4. /\ active' \in Views /\ resumer' \in Own \cup {None}
        /\ resume' \subseteq Own /\ stored' \subseteq Own /\ ResumerHasFocus'
    BY <1>2, <1>4, <2>3, ActivateView DEF PlugInv
  <2>5. PlugInv' /\ state' = r.st /\ plugged' = Said /\ requests' = requests
    BY <1>1, <1>2, <1>3, <2>1, <2>2, <2>4, ControlStep
  <2>6. state' = [t \in Sources |->
                   IF t = Said
                   THEN IF plugged = Said /\ state[t] = "DESELECTED" THEN "DESELECTED"
                        ELSE "SELECTED"
                   ELSE IF t = plugged THEN "DESELECTED" ELSE state[t]]
    BY <1>6, <2>2, <2>5
  <2> QED
    BY <1>1, <1>3, <2>5, <2>6 DEF SelectionHeard, Took, manager
<1> QED
  BY <1>5, <1>6

LEMMA AudioSourceDeselectedStep ==
    ASSUME PlugInv, AudioSourceDeselected
    PROVE  PlugInv' /\ DeselectionHeard
<1>1. /\ events # <<>> /\ Head(events).type = "DESELECTED" /\ events' = Tail(events)
      /\ events' \in Seq([type : EventTypes, source : Sources \cup {None}])
      /\ OwnSaid' /\ Said \in Own /\ ~dead
  BY Taken DEF AudioSourceDeselected
<1>2. /\ Control \in Controls /\ Tidy(Control)
      /\ Control.st = state /\ Control.plugged = plugged
      /\ Control.handle = handle /\ Control.requests = requests
      /\ active \in Views /\ resume \subseteq Own /\ stored \subseteq Own
      /\ resumer \in Own \cup {None} /\ locked \in BOOLEAN
      /\ (handle # None => handle # resumer)
  BY <1>1, ControlFound DEF PlugInv, TypeOK
<1> DEFINE r == IF plugged = Said THEN do_deselect_audio_source(Control)
                ELSE [Control EXCEPT !.st[Said] = "DESELECTED"]
<1>3. /\ hold' = FALSE /\ UNCHANGED <<locked, manager>> /\ Becomes(r) /\ StaysActive
  BY DEF AudioSourceDeselected
<1>4. Said \in Sources /\ Said # None
  BY <1>1, SourcesAssumption DEF Sources
<1>5. /\ r \in Controls /\ Tidy(r)
      /\ r.plugged = plugged /\ r.handle = handle /\ r.requests = requests
      /\ r.st = [state EXCEPT ![Said] = "DESELECTED"]
  <2>1. CASE plugged = Said
    <3>1. /\ r \in Controls /\ r.st = [state EXCEPT ![Said] = "DESELECTED"]
          /\ r.plugged = plugged /\ r.permissions = Control.permissions
          /\ r.handle = handle /\ r.saved = None /\ r.queued = Control.queued
          /\ r.requests = requests
      BY <1>2, <1>4, <2>1, Deselect
    <3> QED
      BY <1>2, <3>1 DEF Tidy
  <2>2. CASE plugged # Said
    BY <1>2, <1>4, <2>2 DEF Tidy, Controls, AudioSourceState
  <2> QED
    BY <2>1, <2>2
<1> HIDE DEF r
<1>6. /\ active' \in Views /\ resumer' = resumer /\ hold' \in BOOLEAN
      /\ resume' \subseteq Own /\ stored' \subseteq Own /\ ResumerHasFocus'
  BY <1>2, <1>3 DEF StaysActive, resuming, PlugInv, ResumerHasFocus
<1>7. PlugInv' /\ state' = r.st /\ plugged' = plugged /\ requests' = requests
  BY <1>1, <1>2, <1>3, <1>5, <1>6, ControlStep
<1> QED
  BY <1>1, <1>3, <1>5, <1>7 DEF DeselectionHeard, Took, manager

LEMMA AudioPathChangedStep ==
    ASSUME PlugInv, NEW type \in {"PATH_HALF_CHANGED", "PATH_CHANGED"},
           AudioPathChanged(type)
    PROVE  PlugInv' /\ PathHeard(type)
<1>1. /\ events # <<>> /\ Head(events).type = type /\ events' = Tail(events)
      /\ events' \in Seq([type : EventTypes, source : Sources \cup {None}])
      /\ OwnSaid' /\ Said \in Sources \cup {None} /\ ~dead
  BY Taken DEF AudioPathChanged
<1>2. /\ Control \in Controls /\ Tidy(Control)
      /\ Control.st = state /\ Control.plugged = plugged
      /\ Control.handle = handle /\ Control.requests = requests
      /\ Control.dead = dead
      /\ active \in Views /\ resume \subseteq Own /\ stored \subseteq Own
      /\ resumer \in Own \cup {None}
      /\ (handle # None => handle # resumer)
      /\ state \in [Sources -> AudioSourceState] /\ plugged \in Sources \cup {None}
  BY <1>1, ControlFound DEF PlugInv, TypeOK
<1>3. /\ hold' = (type = "PATH_HALF_CHANGED") /\ locked' = (Said \in External)
      /\ UNCHANGED manager
  BY DEF AudioPathChanged
<1>4. hold' \in BOOLEAN /\ locked' \in BOOLEAN
  BY <1>3
<1>5. CASE Said # None /\ plugged = Said
  <2> DEFINE r == IF Said \in External /\ type = "PATH_HALF_CHANGED"
                  THEN Dies(Control) ELSE Control
  <2>1. Becomes(r) /\ StaysActive
    BY <1>5 DEF AudioPathChanged
  <2>2. /\ r \in Controls /\ (~r.dead => Tidy(r))
        /\ r.plugged = plugged /\ r.handle = handle /\ r.st = state
        /\ r.requests = requests
    BY <1>2 DEF Dies, Controls
  <2> HIDE DEF r
  <2>3. /\ active' \in Views /\ resumer' = resumer
        /\ resume' \subseteq Own /\ stored' \subseteq Own /\ ResumerHasFocus'
    BY <1>2, <2>1 DEF StaysActive, resuming, PlugInv, ResumerHasFocus
  <2>4. PlugInv' /\ state' = r.st /\ plugged' = plugged /\ requests' = requests
    BY <1>1, <1>2, <1>3, <1>4, <2>1, <2>2, <2>3, ControlStep
  <2> QED
    BY <1>1, <1>3, <1>5, <2>2, <2>4 DEF PathHeard, Took, manager
<1>6. CASE ~(Said # None /\ plugged = Said) /\ Said \in External
  <2> DEFINE r == plug_external(leave_source(Control), Said)
  <2>1. /\ Becomes(r)
        /\ IF dead' THEN StaysActive ELSE activate_view(Said, TRUE)
    BY <1>6 DEF AudioPathChanged
  <2>2. Said \in Sources /\ Said # None /\ plugged # Said /\ Said \in Views
    BY <1>6, SourcesAssumption DEF Sources, Views
  <2>3. /\ r \in Controls /\ Tidy(r)
        /\ r.plugged = Said /\ r.handle = None /\ r.requests = requests
        /\ r.st = [t \in Sources |->
                     IF t = Said THEN "SELECTED"
                     ELSE IF t = plugged THEN "DESELECTED" ELSE state[t]]
    BY <1>1, <1>2, <2>2, PlugExternal
  <2> HIDE DEF r
  <2>4. /\ active' \in Views /\ resumer' \in Own \cup {None}
        /\ resume' \subseteq Own /\ stored' \subseteq Own /\ ResumerHasFocus'
    <3>1. CASE dead'
      BY <1>2, <2>1, <3>1 DEF StaysActive, resuming, PlugInv, ResumerHasFocus
    <3>2. CASE ~dead'
      <4>1. activate_view(Said, TRUE)
        BY <2>1, <3>2
      <4> QED
        BY <1>2, <2>2, <4>1, ActivateView DEF PlugInv
    <3> QED
      BY <3>1, <3>2
  <2>5. PlugInv' /\ state' = r.st /\ plugged' = Said /\ requests' = requests
    BY <1>1, <1>2, <1>3, <1>4, <2>1, <2>3, <2>4, ControlStep
  <2>6. state' = [t \in Sources |->
                   IF t = Said /\ Said \in External THEN "SELECTED"
                   ELSE IF t = plugged THEN "DESELECTED" ELSE state[t]]
    BY <1>6, <2>3, <2>5
  <2> QED
    BY <1>1, <1>3, <1>6, <2>2, <2>5, <2>6 DEF PathHeard, Took, manager
<1>7. CASE ~(Said # None /\ plugged = Said) /\ Said \notin External
  <2> DEFINE r == leave_source(Control)
             v == IF plugged \in DropIn THEN plugged ELSE "inactive"
  <2>1. Becomes(r) /\ activate_view(v, FALSE)
    BY <1>7 DEF AudioPathChanged
  <2>2. /\ r \in Controls /\ Tidy(r)
        /\ r.plugged = None /\ r.handle = None /\ r.requests = requests
        /\ r.st = [t \in Sources |-> IF t = plugged THEN "DESELECTED" ELSE state[t]]
    BY <1>2, LeaveSource
  <2>3. v \in Views
    BY SourcesAssumption DEF Views
  <2> HIDE DEF r, v
  <2>4. /\ active' \in Views /\ resumer' \in Own \cup {None}
        /\ resume' \subseteq Own /\ stored' \subseteq Own /\ ResumerHasFocus'
    BY <1>2, <2>1, <2>3, ActivateView DEF PlugInv
  <2>5. PlugInv' /\ state' = r.st /\ plugged' = None /\ requests' = requests
    BY <1>1, <1>2, <1>3, <1>4, <2>1, <2>2, <2>4, ControlStep
  <2>6. state' = [t \in Sources |->
                   IF t = Said /\ Said \in External THEN "SELECTED"
                   ELSE IF t = plugged THEN "DESELECTED" ELSE state[t]]
    BY <1>7, <2>2, <2>5
  <2> QED
    BY <1>1, <1>3, <1>7, <2>5, <2>6 DEF PathHeard, Took, manager
<1> QED
  BY <1>5, <1>6, <1>7

\* What the manager says when it switches from source p to source s, and what
\* it says when the appliance is ready.
SwitchTo(p, s, h) ==
    IF s = p THEN PathActivated(s, h)
    ELSE Deselected(p) \o Selected(s, h) \o PathActivated(s, h)

Completes(s) == Selected(s, FALSE) \o PathActivated(s, FALSE)

\* What a step of the manager changes.
Switched(s, h) ==
    /\ events' = events \o SwitchTo(path, s, h)
    /\ path' = s /\ deferred' = h
    /\ (s = path => h = deferred)
    /\ refused' = refused \ {s}
    /\ UNCHANGED <<state, plugged, hold, locked>>

Completed ==
    /\ deferred /\ ~deferred'
    /\ events' = events \o Completes(path)
    /\ UNCHANGED <<path, state, plugged, hold, locked, requests, refused>>

Refused ==
    /\ requests # <<>> /\ requests' = Tail(requests) /\ Head(requests) \in Own
    /\ refused' = refused \cup {Head(requests)}
    /\ UNCHANGED <<state, plugged, events, hold, locked, path, deferred>>

EventSet == [type : EventTypes, source : Sources \cup {None}]

LEMMA Joined ==
    ASSUME NEW a, NEW b, NEW c
    PROVE  /\ <<a>> \o <<b>> = <<a, b>> /\ <<a, b>> \o <<c>> = <<a, b, c>>
           /\ <<>> \o <<a>> = <<a>> /\ <<a>> \o <<>> = <<a>> /\ <<>> \o <<>> = <<>>
<1> DEFINE S == {a, b, c}
<1>1. \A q, r \in Seq(S) : Len(q) = Len(r) /\ (\A i \in 1 .. Len(q) : q[i] = r[i]) => q = r
  OBVIOUS
<1>2. <<a>> \o <<b>> = <<a, b>>
  <2> DEFINE q == <<a>> \o <<b>>
             r == <<a, b>>
  <2>1. q \in Seq(S) /\ r \in Seq(S) /\ Len(q) = 2 /\ Len(r) = 2
    OBVIOUS
  <2>2. q[1] = a /\ q[2] = b /\ r[1] = a /\ r[2] = b
    OBVIOUS
  <2> HIDE DEF q, r
  <2>3. \A i \in 1 .. Len(q) : q[i] = r[i]
    BY <2>1, <2>2
  <2>4. q = r
    BY <1>1, <2>1, <2>3
  <2> QED
    BY <2>4 DEF q, r
<1>3. <<a, b>> \o <<c>> = <<a, b, c>>
  <2> DEFINE q == <<a, b>> \o <<c>>
             r == <<a, b, c>>
  <2>1. q \in Seq(S) /\ r \in Seq(S) /\ Len(q) = 3 /\ Len(r) = 3
    OBVIOUS
  <2>2. q[1] = a /\ q[2] = b /\ q[3] = c /\ r[1] = a /\ r[2] = b /\ r[3] = c
    OBVIOUS
  <2> HIDE DEF q, r
  <2>3. \A i \in 1 .. Len(q) : q[i] = r[i]
    BY <2>1, <2>2
  <2>4. q = r
    BY <1>1, <2>1, <2>3
  <2> QED
    BY <2>4 DEF q, r
<1>4. \A q \in Seq(S) : <<>> \o q = q /\ q \o <<>> = q
  OBVIOUS
<1>5. <<a>> \in Seq(S) /\ <<>> \in Seq(S)
  OBVIOUS
<1> QED
  BY <1>2, <1>3, <1>4, <1>5

LEMMA SwitchShapes ==
    ASSUME NEW p, NEW s, NEW h
    PROVE  LET d == Event("DESELECTED", p)
               x == Event(IF h THEN "SELECTED_ON_HOLD" ELSE "SELECTED", s)
               a == Event(IF h THEN "PATH_HALF_CHANGED" ELSE "PATH_CHANGED", s)
           IN  /\ (s = p \/ (p \notin Own /\ s \notin Own)) => SwitchTo(p, s, h) = <<a>>
               /\ s # p /\ p \in Own /\ s \in Own => SwitchTo(p, s, h) = <<d, x, a>>
               /\ s # p /\ p \in Own /\ s \notin Own => SwitchTo(p, s, h) = <<d, a>>
               /\ s # p /\ p \notin Own /\ s \in Own => SwitchTo(p, s, h) = <<x, a>>
<1> DEFINE d == Event("DESELECTED", p)
           x == Event(IF h THEN "SELECTED_ON_HOLD" ELSE "SELECTED", s)
           a == Event(IF h THEN "PATH_HALF_CHANGED" ELSE "PATH_CHANGED", s)
<1>1. PathActivated(s, h) = <<a>>
  BY DEF PathActivated
<1>2. Deselected(p) = IF p \in Own THEN <<d>> ELSE <<>>
  BY DEF Deselected
<1>3. Selected(s, h) = IF s \in Own THEN <<x>> ELSE <<>>
  BY DEF Selected
<1> HIDE DEF d, x, a
<1>4. SwitchTo(p, s, h) = IF s = p THEN <<a>>
                          ELSE (IF p \in Own THEN <<d>> ELSE <<>>)
                               \o (IF s \in Own THEN <<x>> ELSE <<>>) \o <<a>>
  BY <1>1, <1>2, <1>3 DEF SwitchTo
<1>5. s # p /\ p \notin Own /\ s \notin Own => SwitchTo(p, s, h) = <<a>>
  BY <1>4, Joined
<1>6. s # p /\ p \in Own /\ s \in Own => SwitchTo(p, s, h) = <<d, x, a>>
  BY <1>4, Joined
<1>7. s # p /\ p \in Own /\ s \notin Own => SwitchTo(p, s, h) = <<d, a>>
  BY <1>4, Joined
<1>8. s # p /\ p \notin Own /\ s \in Own => SwitchTo(p, s, h) = <<x, a>>
  BY <1>4, Joined
<1> QED
  BY <1>4, <1>5, <1>6, <1>7, <1>8 DEF d, x, a

LEMMA CompletesShape ==
    ASSUME NEW s
    PROVE  Completes(s) = IF s \in Own
                          THEN <<Event("SELECTED", s), Event("PATH_CHANGED", s)>>
                          ELSE <<Event("PATH_CHANGED", s)>>
<1>1. Selected(s, FALSE) = IF s \in Own THEN <<Event("SELECTED", s)>> ELSE <<>>
  BY DEF Selected
<1>2. PathActivated(s, FALSE) = <<Event("PATH_CHANGED", s)>>
  BY DEF PathActivated
<1> QED
  BY <1>1, <1>2, Joined DEF Completes

(***************************************************************************)
(* What is said arrives in order                                           *)
(***************************************************************************)
SelectedType(x) == x.type \in {"SELECTED", "SELECTED_ON_HOLD"}
PathType(x) == x.type \in {"PATH_HALF_CHANGED", "PATH_CHANGED"}
PathEvent(s, h) == Event(IF h THEN "PATH_HALF_CHANGED" ELSE "PATH_CHANGED", s)

\* After event i, source s is said to be deselected.
DeselectedAfter(e, i, s) == \E j \in DOMAIN e : j > i /\ e[j] = Event("DESELECTED", s)

\* A deselected source is followed at once by what takes its place.
WellSaid(e) ==
    \A i \in DOMAIN e :
        /\ ~PathType(e[i]) => e[i].source \in Own
        /\ e[i].type = "DESELECTED" =>
              /\ i < Len(e) /\ e[i + 1].type # "DESELECTED"
              /\ e[i + 1].source # e[i].source

\* A source that was selected, but has not got the path, is deselected later.
Superseded(e, p) ==
    \A i \in DOMAIN e : SelectedType(e[i]) /\ e[i].source # p =>
                            DeselectedAfter(e, i, e[i].source)

\* The source of the path is still to be selected, and nothing else then.
Coming(e, p) ==
    \E i \in DOMAIN e :
        /\ SelectedType(e[i])
        /\ \A j \in DOMAIN e : j >= i => e[j].source = p /\ e[j].type # "DESELECTED"

OnlyPath(e, p) == \A i \in DOMAIN e : PathType(e[i]) /\ e[i].source = p

\* What is on its way tells of path p in the end.
Announced(e, p, h) ==
    /\ WellSaid(e) /\ Superseded(e, p)
    /\ e # <<>> => e[Len(e)] = PathEvent(p, h)
    /\ p \in Own => Coming(e, p) \/ OnlyPath(e, p)

\* What is said at once when source p gives way to source s.
Told(q, p, s, h) ==
    /\ q \in Seq(EventSet) /\ q # <<>>
    /\ WellSaid(q)
    /\ q[Len(q)] = PathEvent(s, h)
    /\ \A i \in DOMAIN q : SelectedType(q[i]) => q[i].source = s
    /\ p # s /\ p \in Own => DeselectedAfter(q, 0, p)
    /\ p = s => \A i \in DOMAIN q : q[i].source = s /\ q[i].type # "DESELECTED"
    /\ s \in Own => Coming(q, s) \/ (p = s /\ OnlyPath(q, s))

LEMMA Tuples ==
    ASSUME NEW S, NEW a \in S, NEW b \in S, NEW c \in S
    PROVE  /\ <<a>> \in Seq(S) /\ Len(<<a>>) = 1 /\ DOMAIN <<a>> = 1 .. 1 /\ <<a>>[1] = a
           /\ <<a, b>> \in Seq(S) /\ Len(<<a, b>>) = 2 /\ DOMAIN <<a, b>> = 1 .. 2
           /\ <<a, b>>[1] = a /\ <<a, b>>[2] = b
           /\ <<a, b, c>> \in Seq(S) /\ Len(<<a, b, c>>) = 3 /\ DOMAIN <<a, b, c>> = 1 .. 3
           /\ <<a, b, c>>[1] = a /\ <<a, b, c>>[2] = b /\ <<a, b, c>>[3] = c
           /\ <<a>> # <<>> /\ <<a, b>> # <<>> /\ <<a, b, c>> # <<>>
  OBVIOUS

LEMMA EventKinds ==
    ASSUME NEW s \in Sources \cup {None}, NEW h \in BOOLEAN
    PROVE  /\ PathEvent(s, h) \in EventSet /\ PathType(PathEvent(s, h))
           /\ ~SelectedType(PathEvent(s, h)) /\ PathEvent(s, h).type # "DESELECTED"
           /\ PathEvent(s, h).source = s
           /\ LET d == Event("DESELECTED", s)
              IN  d \in EventSet /\ d.type = "DESELECTED" /\ d.source = s
                  /\ ~SelectedType(d) /\ ~PathType(d)
           /\ LET x == Event(IF h THEN "SELECTED_ON_HOLD" ELSE "SELECTED", s)
              IN  x \in EventSet /\ x.type # "DESELECTED" /\ x.source = s
                  /\ SelectedType(x) /\ ~PathType(x)
  BY DEF PathEvent, Event, EventSet, EventTypes, PathType, SelectedType

LEMMA ToldAlone ==
    ASSUME NEW a \in EventSet, NEW p, NEW s \in Sources \cup {None}, NEW h \in BOOLEAN,
           a = PathEvent(s, h), p = s \/ (p \notin Own /\ s \notin Own)
    PROVE  Told(<<a>>, p, s, h)
<1> DEFINE q == <<a>>
<1>1. q \in Seq(EventSet) /\ Len(q) = 1 /\ DOMAIN q = 1 .. 1 /\ q[1] = a /\ q # <<>>
  BY Tuples
<1>2. PathType(a) /\ ~SelectedType(a) /\ a.type # "DESELECTED" /\ a.source = s
  BY EventKinds
<1> HIDE DEF q
<1>3. \A i \in DOMAIN q : q[i] = a
  BY <1>1
<1>4. WellSaid(q)
  BY <1>2, <1>3 DEF WellSaid
<1>5. OnlyPath(q, s)
  BY <1>2, <1>3 DEF OnlyPath
<1>6. Told(q, p, s, h)
  BY <1>1, <1>2, <1>3, <1>4, <1>5 DEF Told
<1> QED
  BY <1>6 DEF q

LEMMA ToldLeaving ==
    ASSUME NEW d, NEW a, NEW p \in Own, NEW s \in Sources \cup {None}, NEW h \in BOOLEAN,
           d = Event("DESELECTED", p), a = PathEvent(s, h), s \notin Own
    PROVE  Told(<<d, a>>, p, s, h)
<1> DEFINE q == <<d, a>>
<1>1. /\ a \in EventSet /\ PathType(a) /\ ~SelectedType(a) /\ a.type # "DESELECTED"
      /\ a.source = s
  BY EventKinds
<1>2. /\ d \in EventSet /\ d.type = "DESELECTED" /\ d.source = p
      /\ ~SelectedType(d) /\ ~PathType(d)
  BY EventKinds DEF Sources
<1>3. /\ q \in Seq(EventSet) /\ Len(q) = 2 /\ DOMAIN q = 1 .. 2 /\ q[1] = d /\ q[2] = a
      /\ q # <<>>
  BY <1>1, <1>2, Tuples
<1> HIDE DEF q
<1>4. WellSaid(q)
  BY <1>1, <1>2, <1>3 DEF WellSaid
<1>5. DeselectedAfter(q, 0, p)
  BY <1>3 DEF DeselectedAfter
<1>6. \A i \in DOMAIN q : ~SelectedType(q[i])
  BY <1>1, <1>2, <1>3
<1>7. Told(q, p, s, h)
  BY <1>1, <1>3, <1>4, <1>5, <1>6 DEF Told
<1> QED
  BY <1>7 DEF q

LEMMA ToldArriving ==
    ASSUME NEW x, NEW a, NEW p, NEW s \in Own, NEW h \in BOOLEAN,
           x = Event(IF h THEN "SELECTED_ON_HOLD" ELSE "SELECTED", s),
           a = PathEvent(s, h), p \notin Own \/ p = s
    PROVE  Told(<<x, a>>, p, s, h)
<1> DEFINE q == <<x, a>>
<1>0. s \in Sources \cup {None}
  BY DEF Sources
<1>1. /\ a \in EventSet /\ PathType(a) /\ ~SelectedType(a) /\ a.type # "DESELECTED"
      /\ a.source = s
  BY <1>0, EventKinds
<1>2. /\ x \in EventSet /\ x.type # "DESELECTED" /\ x.source = s
      /\ SelectedType(x) /\ ~PathType(x)
  BY <1>0, EventKinds
<1>3. /\ q \in Seq(EventSet) /\ Len(q) = 2 /\ DOMAIN q = 1 .. 2 /\ q[1] = x /\ q[2] = a
      /\ q # <<>>
  BY <1>1, <1>2, Tuples
<1> HIDE DEF q
<1>4. \A i \in DOMAIN q : q[i].source = s /\ q[i].type # "DESELECTED"
  BY <1>1, <1>2, <1>3
<1>5. WellSaid(q)
  BY <1>4 DEF WellSaid
<1>6. Coming(q, s)
  BY <1>2, <1>3, <1>4 DEF Coming
<1>7. Told(q, p, s, h)
  BY <1>3, <1>4, <1>5, <1>6 DEF Told
<1> QED
  BY <1>7 DEF q

LEMMA ToldSwitching ==
    ASSUME NEW d, NEW x, NEW a, NEW p \in Own, NEW s \in Own, NEW h \in BOOLEAN, p # s,
           d = Event("DESELECTED", p),
           x = Event(IF h THEN "SELECTED_ON_HOLD" ELSE "SELECTED", s),
           a = PathEvent(s, h)
    PROVE  Told(<<d, x, a>>, p, s, h)
<1> DEFINE q == <<d, x, a>>
<1>0. s \in Sources \cup {None} /\ p \in Sources \cup {None}
  BY DEF Sources
<1>1. /\ a \in EventSet /\ PathType(a) /\ ~SelectedType(a) /\ a.type # "DESELECTED"
      /\ a.source = s
  BY <1>0, EventKinds
<1>2. /\ x \in EventSet /\ x.type # "DESELECTED" /\ x.source = s
      /\ SelectedType(x) /\ ~PathType(x)
  BY <1>0, EventKinds
<1>3. /\ d \in EventSet /\ d.type = "DESELECTED" /\ d.source = p
      /\ ~SelectedType(d) /\ ~PathType(d)
  BY <1>0, EventKinds
<1>4. /\ q \in Seq(EventSet) /\ Len(q) = 3 /\ DOMAIN q = 1 .. 3
      /\ q[1] = d /\ q[2] = x /\ q[3] = a /\ q # <<>>
  BY <1>1, <1>2, <1>3, Tuples
<1> HIDE DEF q
<1>5. WellSaid(q)
  BY <1>1, <1>2, <1>3, <1>4 DEF WellSaid
<1>6. Coming(q, s)
  <2>1. \A j \in DOMAIN q : j >= 2 => q[j].source = s /\ q[j].type # "DESELECTED"
    BY <1>1, <1>2, <1>4
  <2> QED
    BY <1>2, <1>4, <2>1 DEF Coming
<1>7. DeselectedAfter(q, 0, p)
  BY <1>4 DEF DeselectedAfter
<1>8. \A i \in DOMAIN q : SelectedType(q[i]) => q[i].source = s
  BY <1>1, <1>2, <1>3, <1>4
<1>9. Told(q, p, s, h)
  BY <1>4, <1>5, <1>6, <1>7, <1>8 DEF Told
<1> QED
  BY <1>9 DEF q

LEMMA SwitchTold ==
    ASSUME NEW p \in Sources \cup {None}, NEW s \in Sources \cup {None}, NEW h \in BOOLEAN
    PROVE  Told(SwitchTo(p, s, h), p, s, h)
<1> DEFINE d == Event("DESELECTED", p)
           x == Event(IF h THEN "SELECTED_ON_HOLD" ELSE "SELECTED", s)
           a == PathEvent(s, h)
<1>1. /\ (s = p \/ (p \notin Own /\ s \notin Own)) => SwitchTo(p, s, h) = <<a>>
      /\ (s # p /\ p \in Own /\ s \in Own => SwitchTo(p, s, h) = <<d, x, a>>)
      /\ (s # p /\ p \in Own /\ s \notin Own => SwitchTo(p, s, h) = <<d, a>>)
      /\ (s # p /\ p \notin Own /\ s \in Own => SwitchTo(p, s, h) = <<x, a>>)
  BY SwitchShapes DEF PathEvent
<1>2. a \in EventSet
  BY EventKinds
<1> QED
  BY <1>1, <1>2, ToldAlone, ToldLeaving, ToldArriving, ToldSwitching

LEMMA CompletesTold ==
    ASSUME NEW s \in Sources \cup {None}
    PROVE  Told(Completes(s), s, s, FALSE)
<1> DEFINE x == Event("SELECTED", s)
           a == Event("PATH_CHANGED", s)
<1>1. a = PathEvent(s, FALSE) /\ a \in EventSet
  BY EventKinds DEF PathEvent
<1>2. x = Event(IF FALSE THEN "SELECTED_ON_HOLD" ELSE "SELECTED", s)
  OBVIOUS
<1> HIDE DEF x, a
<1>3. CASE s \in Own
  BY <1>1, <1>2, <1>3, CompletesShape, ToldArriving DEF x, a
<1>4. CASE s \notin Own
  BY <1>1, <1>4, CompletesShape, ToldAlone DEF a
<1> QED
  BY <1>3, <1>4

LEMMA AppendElements ==
    ASSUME NEW S, NEW e \in Seq(S), NEW q \in Seq(S)
    PROVE  LET r == e \o q
           IN  /\ r \in Seq(S) /\ Len(r) = Len(e) + Len(q) /\ DOMAIN r = 1 .. (Len(e) + Len(q))
               /\ Len(e) \in Nat /\ Len(q) \in Nat
               /\ DOMAIN e = 1 .. Len(e) /\ DOMAIN q = 1 .. Len(q)
               /\ \A i \in DOMAIN e : i \in DOMAIN r /\ r[i] = e[i]
               /\ \A i \in DOMAIN q : Len(e) + i \in DOMAIN r /\ r[Len(e) + i] = q[i]
               /\ \A i \in DOMAIN r : i \in DOMAIN e \/ i - Len(e) \in DOMAIN q
               /\ \A i \in DOMAIN r : i - Len(e) \in DOMAIN q => r[i] = q[i - Len(e)]
               /\ q # <<>> => r # <<>>
               /\ e # <<>> => r # <<>> /\ Head(r) = Head(e)
  OBVIOUS

\* What was said before still arrives, and before what is said now.
LEMMA AnnouncedAppend ==
    ASSUME NEW e \in Seq(EventSet), NEW q, NEW p, NEW s, NEW h0, NEW h,
           Announced(e, p, h0), Told(q, p, s, h)
    PROVE  LET r == e \o q
           IN  /\ Announced(r, s, h)
               /\ \A t : DeselectedAfter(e, 0, t) => DeselectedAfter(r, 0, t)
               /\ p # s /\ p \in Own => DeselectedAfter(r, 0, p)
               /\ s \in Own /\ ~Coming(r, s) => p = s /\ ~Coming(e, p)
<1> DEFINE r == e \o q
<1>1. q \in Seq(EventSet) /\ q # <<>>
  BY DEF Told
<1>2. /\ r \in Seq(EventSet) /\ Len(r) = Len(e) + Len(q) /\ DOMAIN r = 1 .. (Len(e) + Len(q))
      /\ Len(e) \in Nat /\ Len(q) \in Nat
      /\ DOMAIN e = 1 .. Len(e) /\ DOMAIN q = 1 .. Len(q)
      /\ \A i \in DOMAIN e : i \in DOMAIN r /\ r[i] = e[i]
      /\ \A i \in DOMAIN q : Len(e) + i \in DOMAIN r /\ r[Len(e) + i] = q[i]
      /\ \A i \in DOMAIN r : i \in DOMAIN e \/ i - Len(e) \in DOMAIN q
      /\ \A i \in DOMAIN r : i - Len(e) \in DOMAIN q => r[i] = q[i - Len(e)]
      /\ r # <<>>
  BY <1>1, AppendElements
<1> HIDE DEF r
<1>3. WellSaid(r)
  <2> SUFFICES ASSUME NEW i \in DOMAIN r
               PROVE  /\ ~PathType(r[i]) => r[i].source \in Own
                      /\ r[i].type = "DESELECTED" =>
                            /\ i < Len(r) /\ r[i + 1].type # "DESELECTED"
                            /\ r[i + 1].source # r[i].source
    BY DEF WellSaid
  <2>1. CASE i \in DOMAIN e
    <3>1. /\ ~PathType(e[i]) => e[i].source \in Own
          /\ e[i].type = "DESELECTED" =>
                /\ i < Len(e) /\ e[i + 1].type # "DESELECTED"
                /\ e[i + 1].source # e[i].source
      BY <2>1 DEF Announced, WellSaid
    <3>2. r[i] = e[i]
      BY <1>2, <2>1
    <3>3. i < Len(e) => i < Len(r) /\ r[i + 1] = e[i + 1]
      BY <1>2, <2>1
    <3> QED
      BY <3>1, <3>2, <3>3
  <2>2. CASE i - Len(e) \in DOMAIN q
    <3> DEFINE k == i - Len(e)
    <3>1. /\ ~PathType(q[k]) => q[k].source \in Own
          /\ q[k].type = "DESELECTED" =>
                /\ k < Len(q) /\ q[k + 1].type # "DESELECTED"
                /\ q[k + 1].source # q[k].source
      BY <2>2 DEF Told, WellSaid
    <3>2. r[i] = q[k]
      BY <1>2, <2>2
    <3>3. k < Len(q) => i < Len(r) /\ k + 1 \in DOMAIN q /\ Len(e) + (k + 1) = i + 1
      BY <1>2, <2>2
    <3>4. k < Len(q) => r[i + 1] = q[k + 1]
      BY <1>2, <3>3
    <3> QED
      BY <3>1, <3>2, <3>3, <3>4
  <2> QED
    BY <1>2, <2>1, <2>2
<1>4. \A i, t : i \in Nat /\ DeselectedAfter(e, i, t) => DeselectedAfter(r, i, t)
  BY <1>2 DEF DeselectedAfter
<1>5. \A i \in 0 .. Len(e) : \A t : DeselectedAfter(q, 0, t) => DeselectedAfter(r, i, t)
  <2> SUFFICES ASSUME NEW i \in 0 .. Len(e), NEW t, DeselectedAfter(q, 0, t)
               PROVE  DeselectedAfter(r, i, t)
    OBVIOUS
  <2>1. PICK j \in DOMAIN q : j > 0 /\ q[j] = Event("DESELECTED", t)
    BY DEF DeselectedAfter
  <2>2. Len(e) + j \in DOMAIN r /\ r[Len(e) + j] = q[j] /\ Len(e) + j > i
    BY <1>2, <2>1
  <2> QED
    BY <2>1, <2>2 DEF DeselectedAfter
<1>6. Superseded(r, s)
  <2> SUFFICES ASSUME NEW i \in DOMAIN r, SelectedType(r[i]), r[i].source # s
               PROVE  DeselectedAfter(r, i, r[i].source)
    BY DEF Superseded
  <2>1. i \in DOMAIN e /\ r[i] = e[i]
    <3>1. CASE i - Len(e) \in DOMAIN q
      BY <1>2, <3>1 DEF Told
    <3> QED
      BY <1>2, <3>1
  <2>2. CASE e[i].source # p
    <3>1. DeselectedAfter(e, i, e[i].source)
      BY <2>1, <2>2 DEF Announced, Superseded
    <3> QED
      BY <1>2, <1>4, <2>1, <3>1
  <2>3. CASE e[i].source = p
    <3>1. p # s /\ p \in Own
      BY <2>1, <2>3 DEF Announced, WellSaid, SelectedType, PathType
    <3>2. DeselectedAfter(q, 0, p)
      BY <3>1 DEF Told
    <3> QED
      BY <1>2, <1>5, <2>1, <2>3, <3>2
  <2> QED
    BY <2>2, <2>3
<1>7. r[Len(r)] = PathEvent(s, h)
  <2>1. Len(q) \in DOMAIN q
    BY <1>1, <1>2
  <2> QED
    BY <1>2, <2>1 DEF Told
<1>8. Coming(q, s) => Coming(r, s)
  <2> SUFFICES ASSUME Coming(q, s) PROVE Coming(r, s)
    OBVIOUS
  <2>1. PICK i \in DOMAIN q :
            /\ SelectedType(q[i])
            /\ \A j \in DOMAIN q : j >= i => q[j].source = s /\ q[j].type # "DESELECTED"
    BY DEF Coming
  <2>2. Len(e) + i \in DOMAIN r /\ SelectedType(r[Len(e) + i])
    BY <1>2, <2>1
  <2>3. ASSUME NEW j \in DOMAIN r, j >= Len(e) + i
        PROVE  r[j].source = s /\ r[j].type # "DESELECTED"
    <3>1. j - Len(e) \in DOMAIN q /\ j - Len(e) >= i
      BY <1>2, <2>3
    <3> QED
      BY <1>2, <2>1, <3>1
  <2> QED
    BY <2>2, <2>3 DEF Coming
<1>9. p = s /\ Coming(e, s) => Coming(r, s)
  <2> SUFFICES ASSUME p = s, Coming(e, s) PROVE Coming(r, s)
    OBVIOUS
  <2>1. PICK i \in DOMAIN e :
            /\ SelectedType(e[i])
            /\ \A j \in DOMAIN e : j >= i => e[j].source = s /\ e[j].type # "DESELECTED"
    BY DEF Coming
  <2>2. i \in DOMAIN r /\ SelectedType(r[i])
    BY <1>2, <2>1
  <2>3. \A j \in DOMAIN q : q[j].source = s /\ q[j].type # "DESELECTED"
    BY DEF Told
  <2>4. ASSUME NEW j \in DOMAIN r, j >= i
        PROVE  r[j].source = s /\ r[j].type # "DESELECTED"
    <3>1. CASE j \in DOMAIN e
      BY <1>2, <2>1, <2>4, <3>1
    <3>2. CASE j - Len(e) \in DOMAIN q
      BY <1>2, <2>3, <3>2
    <3> QED
      BY <1>2, <3>1, <3>2
  <2> QED
    BY <2>2, <2>4 DEF Coming
<1>10. p = s /\ OnlyPath(e, s) /\ OnlyPath(q, s) => OnlyPath(r, s)
  <2> SUFFICES ASSUME OnlyPath(e, s), OnlyPath(q, s), NEW i \in DOMAIN r
               PROVE  PathType(r[i]) /\ r[i].source = s
    BY DEF OnlyPath
  <2>1. CASE i \in DOMAIN e
    BY <1>2, <2>1 DEF OnlyPath
  <2>2. CASE i - Len(e) \in DOMAIN q
    BY <1>2, <2>2 DEF OnlyPath
  <2> QED
    BY <1>2, <2>1, <2>2
<1>11. s \in Own => Coming(q, s) \/ (p = s /\ OnlyPath(q, s))
  BY DEF Told
<1>12. s \in Own => Coming(r, s) \/ (p = s /\ ~Coming(e, p) /\ OnlyPath(r, s))
  BY <1>8, <1>9, <1>10, <1>11 DEF Announced
<1>13. Announced(r, s, h)
  BY <1>3, <1>6, <1>7, <1>12 DEF Announced
<1>14. p # s /\ p \in Own => DeselectedAfter(r, 0, p)
  BY <1>2, <1>5 DEF Told
<1>15. \A t : DeselectedAfter(e, 0, t) => DeselectedAfter(r, 0, t)
  BY <1>4
<1> QED
  BY <1>12, <1>13, <1>14, <1>15 DEF r

\* What is left to hear when the next event is heard.
LEMMA AnnouncedTail ==
    ASSUME NEW e \in Seq(EventSet), e # <<>>, NEW p, NEW h, Announced(e, p, h)
    PROVE  LET r == Tail(e)
               x == Head(e)
           IN  /\ Announced(r, p, h)
               /\ r = <<>> => x = PathEvent(p, h)
               /\ x.type = "DESELECTED" =>
                      r # <<>> /\ Head(r).type # "DESELECTED" /\ Head(r).source # x.source
               /\ SelectedType(x) /\ x.source # p => DeselectedAfter(r, 0, x.source)
               /\ \A t : DeselectedAfter(e, 0, t) =>
                            x = Event("DESELECTED", t) \/ DeselectedAfter(r, 0, t)
               /\ p \in Own /\ ~Coming(r, p) =>
                      /\ x.source = p
                      /\ SelectedType(x) \/ (~Coming(e, p) /\ PathType(x))
<1> DEFINE r == Tail(e)
           x == Head(e)
<1>1. /\ x \in EventSet /\ x = e[1] /\ 1 \in DOMAIN e
      /\ r \in Seq(EventSet) /\ Len(r) = Len(e) - 1
      /\ Len(e) \in Nat \ {0} /\ DOMAIN e = 1 .. Len(e)
      /\ DOMAIN r = 1 .. (Len(e) - 1)
      /\ \A i \in DOMAIN r : r[i] = e[i + 1] /\ i + 1 \in DOMAIN e
  BY TailElements
<1>2. r # <<>> => Head(r) = r[1] /\ 1 \in DOMAIN r
  BY <1>1, TailElements
<1> HIDE DEF r, x
<1>3. r = <<>> => Len(r) = 0
  OBVIOUS
<1>4. \A i \in DOMAIN e : i = 1 \/ (i - 1 \in DOMAIN r /\ r[i - 1] = e[i])
  BY <1>1
<1>5. r = <<>> => x = PathEvent(p, h)
  BY <1>1, <1>3 DEF Announced
<1>6. r # <<>> => r[Len(r)] = PathEvent(p, h)
  <2>1. r # <<>> => Len(r) \in DOMAIN r /\ Len(r) + 1 = Len(e)
    BY <1>1, <1>2
  <2> QED
    BY <1>1, <2>1 DEF Announced
<1>7. WellSaid(r)
  <2> SUFFICES ASSUME NEW i \in DOMAIN r
               PROVE  /\ ~PathType(r[i]) => r[i].source \in Own
                      /\ r[i].type = "DESELECTED" =>
                            /\ i < Len(r) /\ r[i + 1].type # "DESELECTED"
                            /\ r[i + 1].source # r[i].source
    BY DEF WellSaid
  <2>1. r[i] = e[i + 1] /\ i + 1 \in DOMAIN e
    BY <1>1
  <2>2. /\ ~PathType(e[i + 1]) => e[i + 1].source \in Own
        /\ e[i + 1].type = "DESELECTED" =>
              /\ i + 1 < Len(e) /\ e[(i + 1) + 1].type # "DESELECTED"
              /\ e[(i + 1) + 1].source # e[i + 1].source
    BY <2>1 DEF Announced, WellSaid
  <2>3. i + 1 < Len(e) => i < Len(r) /\ r[i + 1] = e[(i + 1) + 1]
    BY <1>1
  <2> QED
    BY <2>1, <2>2, <2>3
<1>8. \A i \in DOMAIN r \cup {0} : \A t :
          DeselectedAfter(e, i + 1, t) => DeselectedAfter(r, i, t)
  <2> SUFFICES ASSUME NEW i \in DOMAIN r \cup {0}, NEW t, DeselectedAfter(e, i + 1, t)
               PROVE  DeselectedAfter(r, i, t)
    OBVIOUS
  <2>1. PICK j \in DOMAIN e : j > i + 1 /\ e[j] = Event("DESELECTED", t)
    BY DEF DeselectedAfter
  <2>2. j - 1 \in DOMAIN r /\ r[j - 1] = e[j] /\ j - 1 > i
    BY <1>1, <2>1
  <2> QED
    BY <2>1, <2>2 DEF DeselectedAfter
<1>9. Superseded(r, p)
  <2> SUFFICES ASSUME NEW i \in DOMAIN r, SelectedType(r[i]), r[i].source # p
               PROVE  DeselectedAfter(r, i, r[i].source)
    BY DEF Superseded
  <2>1. r[i] = e[i + 1] /\ i + 1 \in DOMAIN e
    BY <1>1
  <2>2. DeselectedAfter(e, i + 1, r[i].source)
    BY <2>1 DEF Announced, Superseded
  <2> QED
    BY <1>8, <2>2
<1>10. ASSUME p \in Own, OnlyPath(e, p)
       PROVE  OnlyPath(r, p) /\ x.source = p /\ PathType(x)
  BY <1>1, <1>10 DEF OnlyPath
<1>11. ASSUME p \in Own, Coming(e, p)
       PROVE  Coming(r, p) \/ (OnlyPath(r, p) /\ x.source = p /\ SelectedType(x))
  <2>1. PICK i \in DOMAIN e :
            /\ SelectedType(e[i])
            /\ \A j \in DOMAIN e : j >= i => e[j].source = p /\ e[j].type # "DESELECTED"
    BY <1>11 DEF Coming
  <2>2. CASE i # 1
    <3>1. i - 1 \in DOMAIN r /\ SelectedType(r[i - 1])
      BY <1>4, <2>1, <2>2
    <3>2. \A j \in DOMAIN r : j >= i - 1 => r[j].source = p /\ r[j].type # "DESELECTED"
      BY <1>1, <2>1
    <3> QED
      BY <3>1, <3>2 DEF Coming
  <2>3. CASE i = 1
    <3>1. \A j \in DOMAIN r : r[j].source = p /\ r[j].type # "DESELECTED"
      BY <1>1, <2>1, <2>3
    <3>2. (\E j \in DOMAIN r : SelectedType(r[j])) => Coming(r, p)
      BY <3>1 DEF Coming
    <3>3. \A j \in DOMAIN r : r[j] \in EventSet
      BY <1>1
    <3>4. (\A j \in DOMAIN r : ~SelectedType(r[j])) => OnlyPath(r, p)
      BY <3>1, <3>3 DEF OnlyPath, SelectedType, PathType, EventSet, EventTypes
    <3>5. x.source = p /\ SelectedType(x)
      BY <1>1, <2>1, <2>3
    <3> QED
      BY <3>2, <3>4, <3>5
  <2> QED
    BY <2>2, <2>3
<1>12. p \in Own => Coming(r, p) \/ OnlyPath(r, p)
  BY <1>10, <1>11 DEF Announced
<1>13. p \in Own /\ ~Coming(r, p) =>
           /\ x.source = p
           /\ SelectedType(x) \/ (~Coming(e, p) /\ PathType(x))
  BY <1>10, <1>11 DEF Announced
<1>14. Announced(r, p, h)
  BY <1>6, <1>7, <1>9, <1>12 DEF Announced
<1>15. x.type = "DESELECTED" =>
           r # <<>> /\ Head(r).type # "DESELECTED" /\ Head(r).source # x.source
  <2>1. x.type = "DESELECTED" =>
            1 < Len(e) /\ e[1 + 1].type # "DESELECTED" /\ e[1 + 1].source # x.source
    BY <1>1 DEF Announced, WellSaid
  <2>2. 1 < Len(e) => r # <<>> /\ Head(r) = e[1 + 1]
    BY <1>1, <1>2, <1>3
  <2> QED
    BY <2>1, <2>2
<1>16. SelectedType(x) /\ x.source # p => DeselectedAfter(r, 0, x.source)
  <2>1. SelectedType(x) /\ x.source # p => DeselectedAfter(e, 0 + 1, x.source)
    BY <1>1 DEF Announced, Superseded
  <2> QED
    BY <1>8, <2>1
<1>17. \A t : DeselectedAfter(e, 0, t) =>
                 x = Event("DESELECTED", t) \/ DeselectedAfter(r, 0, t)
  <2> SUFFICES ASSUME NEW t, DeselectedAfter(e, 0, t)
               PROVE  x = Event("DESELECTED", t) \/ DeselectedAfter(r, 0, t)
    OBVIOUS
  <2>1. PICK j \in DOMAIN e : j > 0 /\ e[j] = Event("DESELECTED", t)
    BY DEF DeselectedAfter
  <2>2. CASE j = 1
    BY <1>1, <2>1, <2>2
  <2>3. CASE j # 1
    BY <1>1, <1>4, <2>1, <2>3 DEF DeselectedAfter
  <2> QED
    BY <2>2, <2>3
<1> QED
  BY <1>5, <1>13, <1>14, <1>15, <1>16, <1>17 DEF r, x

(***************************************************************************)
(* The manager's steps                                                     *)
(***************************************************************************)
LEMMA ActivatedPath ==
    ASSUME NEW s, NEW h, ActivatePath(s, h)
    PROVE  /\ events' = events \o SwitchTo(path, s, h)
           /\ path' = s /\ deferred' = h /\ (s = path => h = deferred)
           /\ refused' = refused \ {s}
  BY DEF ActivatePath, SwitchTo, Tell

\* What the manager says is well-typed.
LEMMA MoreSaid ==
    ASSUME PlugInv, NEW q, NEW p, NEW s, NEW h, Told(q, p, s, h), events' = events \o q,
           path' \in Sources \cup {None}, deferred' \in BOOLEAN, requests' \in Seq(Own),
           refused' \subseteq refused,
           UNCHANGED <<state, control, active, locked, hold, resuming, dead>>
    PROVE  PlugInv'
<1>1. q \in Seq(EventSet) /\ events \in Seq(EventSet) /\ WellSaid(q)
  BY DEF PlugInv, TypeOK, Told, EventSet
<1>2. /\ events' \in Seq(EventSet)
      /\ \A i \in DOMAIN events' :
             \/ i \in DOMAIN events /\ events'[i] = events[i]
             \/ i - Len(events) \in DOMAIN q /\ events'[i] = q[i - Len(events)]
  BY <1>1, AppendElements
<1>3. OwnSaid'
  BY <1>1, <1>2 DEF PlugInv, OwnSaid, WellSaid, PathType
<1>4. TypeOK'
  BY <1>2, SequencesOfSources DEF PlugInv, TypeOK, EventSet, control, resuming
<1>5. Tidy(Control) => Tidy(Control')
  BY DEF Tidy, Control, control
<1>6. ResumerHasFocus' /\ dead' = dead /\ handle' = handle /\ resumer' = resumer
  BY DEF PlugInv, ResumerHasFocus, control, resuming
<1> QED
  BY <1>3, <1>4, <1>5, <1>6 DEF PlugInv

LEMMA HandleRequestStep ==
    ASSUME PlugInv, NEW h \in BOOLEAN, HandleRequest(h)
    PROVE  /\ PlugInv' /\ requests # <<>> /\ requests' = Tail(requests)
           /\ Head(requests) \in Own /\ Switched(Head(requests), h)
<1> DEFINE s == Head(requests)
<1>1. /\ requests # <<>> /\ requests' = Tail(requests)
      /\ events' = events \o SwitchTo(path, s, h)
      /\ path' = s /\ deferred' = h /\ (s = path => h = deferred)
      /\ refused' = refused \ {s}
      /\ UNCHANGED <<state, control, active, locked, hold, resuming, dead>>
  BY ActivatedPath DEF HandleRequest
<1>2. s \in Own /\ requests' \in Seq(Own)
  BY <1>1, TailElements DEF PlugInv
<1>3. Told(SwitchTo(path, s, h), path, s, h)
  BY <1>2, SwitchTold DEF PlugInv, TypeOK, Sources
<1>4. PlugInv'
  BY <1>1, <1>2, <1>3, MoreSaid DEF Sources
<1> QED
  BY <1>1, <1>2, <1>4 DEF Switched, control

LEMMA RequestFailsStep ==
    ASSUME PlugInv, RequestFails
    PROVE  PlugInv' /\ Refused
<1>1. /\ requests # <<>> /\ requests' = Tail(requests)
      /\ refused' = refused \cup {Head(requests)}
      /\ UNCHANGED <<state, control, active, locked, hold, resuming, dead, events, path,
                     deferred>>
  BY DEF RequestFails
<1>2. Head(requests) \in Own /\ requests' \in Seq(Own)
  BY <1>1, TailElements DEF PlugInv
<1>3. TypeOK' /\ OwnSaid'
  BY <1>1, <1>2, SequencesOfSources DEF PlugInv, TypeOK, OwnSaid, control, resuming
<1>4. Tidy(Control) => Tidy(Control')
  BY <1>1 DEF Tidy, Control, control
<1>5. ResumerHasFocus' /\ dead' = dead /\ handle' = handle /\ resumer' = resumer
  BY <1>1 DEF PlugInv, ResumerHasFocus, control, resuming
<1>6. PlugInv'
  BY <1>2, <1>3, <1>4, <1>5 DEF PlugInv
<1> QED
  BY <1>1, <1>2, <1>6 DEF Refused, control

LEMMA RerouteStep ==
    ASSUME PlugInv, NEW s \in Sources \cup {None}, NEW h \in BOOLEAN, Reroute(s, h)
    PROVE  PlugInv' /\ requests' = requests /\ Switched(s, h)
<1>1. /\ events' = events \o SwitchTo(path, s, h)
      /\ path' = s /\ deferred' = h /\ (s = path => h = deferred)
      /\ refused' = refused \ {s}
      /\ UNCHANGED <<state, control, active, locked, hold, resuming, dead, requests>>
  BY ActivatedPath DEF Reroute
<1>2. Told(SwitchTo(path, s, h), path, s, h)
  BY SwitchTold DEF PlugInv, TypeOK
<1>3. requests' \in Seq(Own)
  BY <1>1 DEF PlugInv
<1>4. PlugInv'
  BY <1>1, <1>2, <1>3, MoreSaid
<1> QED
  BY <1>1, <1>4 DEF Switched, control

LEMMA ApplianceReadyStep ==
    ASSUME PlugInv, ApplianceReady
    PROVE  PlugInv' /\ Completed
<1>1. /\ deferred /\ ~deferred' /\ deferred' \in BOOLEAN
      /\ events' = events \o Completes(path)
      /\ UNCHANGED <<state, control, active, locked, hold, resuming, dead, requests, path,
                     refused>>
  BY DEF ApplianceReady, Tell, Completes
<1>2. Told(Completes(path), path, path, FALSE)
  BY CompletesTold DEF PlugInv, TypeOK
<1>3. requests' \in Seq(Own) /\ path' \in Sources \cup {None}
  BY <1>1 DEF PlugInv, TypeOK
<1>4. PlugInv'
  BY <1>1, <1>2, <1>3, MoreSaid
<1> QED
  BY <1>1, <1>4 DEF Completed, control

\* One step keeps the control consistent, and changes the sources in one of
\* these ways.
SourceStep ==
    \/ Quiet
    \/ \E s \in Own : Played(s)
    \/ \E type \in {"SELECTED", "SELECTED_ON_HOLD"}, h \in BOOLEAN : SelectionHeard(type, h)
    \/ DeselectionHeard
    \/ \E type \in {"PATH_HALF_CHANGED", "PATH_CHANGED"} : PathHeard(type)
    \/ \E h \in BOOLEAN :
          /\ requests # <<>> /\ requests' = Tail(requests)
          /\ Head(requests) \in Own /\ Switched(Head(requests), h)
    \/ Refused
    \/ \E s \in Sources \cup {None}, h \in BOOLEAN : requests' = requests /\ Switched(s, h)
    \/ Completed

LEMMA PlugStep ==
    ASSUME PlugInv, [Next]_vars
    PROVE  PlugInv' /\ (dead' \/ SourceStep)
<1>1. CASE UNCHANGED vars
  <2>1. PlugInv'
    BY <1>1 DEF PlugInv, TypeOK, OwnSaid, ResumerHasFocus, Control, vars, control, resuming,
                manager
  <2>2. Quiet
    BY <1>1 DEF Quiet, vars, control, manager
  <2> QED
    BY <2>1, <2>2 DEF SourceStep
<1>2. CASE \E v \in Own \cup {"player"} : OpenView(v)
  BY <1>2, OpenViewStep DEF SourceStep
<1>3. CASE \E s \in Own : PlayItem(s)
  BY <1>3, PlayItemStep DEF SourceStep
<1>4. CASE \E s \in Own : stop_playing(s)
  BY <1>4, StopPlayingStep DEF SourceStep
<1>5. CASE \E s \in Own : resume_request(s)
  BY <1>5, ResumeRequestStep DEF SourceStep
<1>6. CASE \E i \in Commands : Command(i)
  BY <1>6, CommandStep DEF SourceStep
<1>7. CASE StreamStarts
  BY <1>7, StreamStartsStep DEF SourceStep
<1>8. CASE \E c \in BOOLEAN : StreamsEnd(c)
  BY <1>8, StreamsEndStep DEF SourceStep
<1>9. CASE AudioSourceSelected("SELECTED", FALSE)
  BY <1>9, AudioSourceSelectedStep DEF SourceStep
<1>10. CASE AudioSourceSelected("SELECTED_ON_HOLD", TRUE)
  BY <1>10, AudioSourceSelectedStep DEF SourceStep
<1>11. CASE AudioSourceDeselected
  BY <1>11, AudioSourceDeselectedStep DEF SourceStep
<1>12. CASE \E type \in {"PATH_HALF_CHANGED", "PATH_CHANGED"} : AudioPathChanged(type)
  BY <1>12, AudioPathChangedStep DEF SourceStep
<1>13. CASE \E h \in BOOLEAN : HandleRequest(h)
  BY <1>13, HandleRequestStep DEF SourceStep
<1>14. CASE \E s \in Sources \cup {None}, h \in BOOLEAN : Reroute(s, h)
  BY <1>14, RerouteStep DEF SourceStep
<1>15. CASE ApplianceReady
  BY <1>15, ApplianceReadyStep DEF SourceStep
<1>16. CASE RequestFails
  BY <1>16, RequestFailsStep DEF SourceStep
<1> QED
  BY <1>1, <1>2, <1>3, <1>4, <1>5, <1>6, <1>7, <1>8, <1>9, <1>10, <1>11, <1>12, <1>13, <1>14,
     <1>15, <1>16 DEF Next, Program, User, Manager, Terminated

LEMMA PlugInit ==
    ASSUME Init
    PROVE  PlugInv
<1>1. TypeOK
  <2>1. state \in [Sources -> AudioSourceState]
    BY DEF Init, AudioSourceState
  <2>2. events \in Seq([type : EventTypes, source : Sources \cup {None}])
        /\ requests \in Seq(Sources)
    BY DEF Init
  <2>3. /\ permissions \in BOOLEAN /\ locked \in BOOLEAN /\ hold \in BOOLEAN
        /\ dead \in BOOLEAN /\ deferred \in BOOLEAN
    BY DEF Init
  <2> QED
    BY <2>1, <2>2, <2>3 DEF Init, TypeOK, UserIntention, Views
<1>2. requests \in Seq(Own) /\ OwnSaid /\ ResumerHasFocus
  BY DEF Init, OwnSaid, ResumerHasFocus
<1>3. Tidy(Control) /\ handle = None
  BY DEF Init, Tidy, Control
<1> QED
  BY <1>1, <1>2, <1>3 DEF PlugInv

(* The control, its crawler handle, the operation it has saved and the     *)
(* resumer always fit each other and the source plugged, in whatever order *)
(* the manager's events and the user's commands arrive, for any number of  *)
(* sources and of events on their way.                                     *)
THEOREM ControlIsConsistent == Spec => []PlugIsConsistent
<1>1. Init => PlugInv
  BY PlugInit
<1>2. PlugInv /\ [Next]_vars => PlugInv'
  BY PlugStep
<1>3. PlugInv => PlugIsConsistent
  BY DEF PlugInv, PlugIsConsistent, NothingLeftUnplugged, SavedFitsSource, Tidy, Control
<1> QED
  BY <1>1, <1>2, <1>3, PTL DEF Spec

(***************************************************************************)
(* All sources agree in the end                                            *)
(***************************************************************************)
Requested(q, s) == \E i \in DOMAIN q : q[i] = s

\* The manager has been asked for a source which it has not given yet.
Asked(s) == Requested(requests, s) \/ s \in refused

\* A plugged source that is deselected hears next of another one.
NotDeaf ==
    plugged \in Own /\ state[plugged] = "DESELECTED" =>
        events # <<>> /\ Head(events).type # "DESELECTED" /\ Head(events).source # plugged

\* A source without the path will be deselected, or is still requested.
WillLeave ==
    \A s \in Own : s # path /\ state[s] # "DESELECTED" =>
        \/ state[s] = "REQUESTED" /\ Asked(s)
        \/ DeselectedAfter(events, 0, s)

\* The source plugged is still requested, or it was when the path was
\* announced again, which has unplugged it.
Waits == plugged \in Own /\ state[plugged] = "REQUESTED"
LeftAlone == plugged = None /\ \E s \in Own : state[s] = "DESELECTED" /\ Asked(s)

\* The source of the path is or will be selected and plugged, unless another
\* one is requested.
WillArrive ==
    /\ path \in Own /\ ~Coming(events, path) =>
           state[path] = "SELECTED" /\ (plugged = path \/ Waits \/ LeftAlone)
    /\ path \notin Own /\ events = <<>> => plugged = path \/ Waits

Heard == events = <<>> => hold = deferred /\ locked = (path \in External)

SettleInv == ~dead => Announced(events, path, deferred) /\ Heard /\ NotDeaf /\ WillLeave
                      /\ WillArrive

LEMMA RequestsAppend ==
    ASSUME NEW S, NEW q \in Seq(S), NEW s \in S
    PROVE  LET r == Append(q, s)
           IN  /\ r # <<>> /\ \E i \in DOMAIN r : r[i] = s
               /\ \A i \in DOMAIN q : i \in DOMAIN r /\ r[i] = q[i]
<1> DEFINE r == Append(q, s)
<1>1. /\ Len(q) \in Nat /\ DOMAIN q = 1 .. Len(q) /\ DOMAIN r = 1 .. (Len(q) + 1)
      /\ r[Len(q) + 1] = s /\ \A i \in 1 .. Len(q) : r[i] = q[i]
  OBVIOUS
<1> HIDE DEF r
<1>2. Len(q) + 1 \in DOMAIN r /\ r # <<>>
  BY <1>1
<1> QED
  BY <1>1, <1>2 DEF r

LEMMA RequestsTail ==
    ASSUME NEW S, NEW q \in Seq(S), q # <<>>
    PROVE  /\ \A i \in DOMAIN q : q[i] = Head(q) \/ \E j \in DOMAIN Tail(q) : Tail(q)[j] = q[i]
<1>1. /\ Head(q) = q[1]
      /\ DOMAIN q = 1 .. Len(q) /\ Len(q) \in Nat
      /\ DOMAIN Tail(q) = 1 .. (Len(q) - 1)
      /\ \A i \in DOMAIN Tail(q) : Tail(q)[i] = q[i + 1]
  BY TailElements
<1> SUFFICES ASSUME NEW i \in DOMAIN q, q[i] # Head(q)
             PROVE  \E j \in DOMAIN Tail(q) : Tail(q)[j] = q[i]
  OBVIOUS
<1>2. i - 1 \in DOMAIN Tail(q) /\ Tail(q)[i - 1] = q[i]
  BY <1>1
<1> QED
  BY <1>2

LEMMA OnlyPathDeselectsNobody ==
    ASSUME NEW e, NEW p, OnlyPath(e, p), NEW t, DeselectedAfter(e, 0, t)
    PROVE  FALSE
  BY DEF OnlyPath, DeselectedAfter, PathType, Event

LEMMA QuietSettles ==
    ASSUME SettleInv, ~dead, Quiet
    PROVE  SettleInv'
  BY DEF SettleInv, Quiet, Heard, NotDeaf, WillLeave, WillArrive, Waits, LeftAlone, Asked

LEMMA PlayedSettles ==
    ASSUME PlugInv, SettleInv, ~dead, NEW s \in Own, Played(s)
    PROVE  SettleInv'
<1>1. /\ Announced(events, path, deferred) /\ Heard /\ NotDeaf /\ WillLeave /\ WillArrive
  BY DEF SettleInv
<1>2. /\ plugged' = s
      /\ UNCHANGED <<events, hold, locked, path, deferred, refused>>
  BY DEF Played
<1>3. state \in [Sources -> AudioSourceState] /\ requests \in Seq(Own) /\ s \in Sources
  BY DEF PlugInv, TypeOK, Sources
<1>4. /\ \A i \in DOMAIN requests : i \in DOMAIN requests' /\ requests'[i] = requests[i]
      /\ requests # <<>> => requests' # <<>>
      /\ \A t \in Sources \ {s} : state'[t] = state[t]
      /\ state[s] = "SELECTED" => state'[s] = state[s]
      /\ \/ state'[s] = state[s] /\ (plugged = s \/ state[s] = "SELECTED")
         \/ state'[s] = "REQUESTED" /\ Requested(requests', s)
  <2>1. CASE (plugged = s \/ state[s] = "SELECTED") /\ state' = state /\ requests' = requests
    BY <2>1
  <2>2. CASE /\ plugged # s /\ state[s] # "SELECTED"
             /\ state' = [state EXCEPT ![s] = "REQUESTED"]
             /\ requests' = Append(requests, s)
    BY <1>3, <2>2, RequestsAppend DEF Requested
  <2> QED
    BY <2>1, <2>2 DEF Played
<1>5. NotDeaf'
  BY <1>1, <1>2, <1>4 DEF NotDeaf
<1>6. WillLeave'
  <2> SUFFICES ASSUME NEW t \in Own, t # path, state'[t] # "DESELECTED"
               PROVE  \/ state'[t] = "REQUESTED" /\ Asked(t)'
                      \/ DeselectedAfter(events, 0, t)
    BY <1>2 DEF WillLeave
  <2>1. Asked(t) => Asked(t)'
    BY <1>2, <1>4 DEF Requested, Asked
  <2>2. state'[t] = state[t] \/ (state'[t] = "REQUESTED" /\ Asked(t)')
    BY <1>4 DEF Sources, Asked
  <2> QED
    BY <1>1, <2>1, <2>2 DEF WillLeave
<1>7. path \in Own /\ ~Coming(events, path) =>
          state'[path] = "SELECTED" /\ (s = path \/ state'[s] = "REQUESTED")
  <2> SUFFICES ASSUME path \in Own, ~Coming(events, path)
               PROVE  state'[path] = "SELECTED" /\ (s = path \/ state'[s] = "REQUESTED")
    OBVIOUS
  <2>1. /\ state[path] = "SELECTED" /\ OnlyPath(events, path)
        /\ plugged = path \/ Waits \/ LeftAlone
    BY <1>1 DEF WillArrive, Announced
  <2>2. state'[path] = "SELECTED"
    BY <1>4, <2>1 DEF Sources
  <2>3. CASE s # path /\ plugged = s /\ state'[s] = state[s]
    <3>1. Waits
      BY <2>1, <2>3, SourcesAssumption DEF LeftAlone, Sources
    <3> QED
      BY <2>2, <2>3, <3>1 DEF Waits
  <2>4. CASE s # path /\ state[s] = "SELECTED"
    BY <1>1, <2>1, <2>4, OnlyPathDeselectsNobody DEF WillLeave
  <2> QED
    BY <1>4, <2>2, <2>3, <2>4
<1>8. path \notin Own /\ events = <<>> => state'[s] = "REQUESTED"
  <2> SUFFICES ASSUME path \notin Own, events = <<>>
               PROVE  state'[s] = "REQUESTED"
    OBVIOUS
  <2>1. plugged = path \/ Waits
    BY <1>1 DEF WillArrive
  <2>2. ~DeselectedAfter(events, 0, s)
    BY DEF DeselectedAfter
  <2>3. state[s] = "SELECTED" => FALSE
    BY <1>1, <2>2 DEF WillLeave
  <2> QED
    BY <1>4, <2>1, <2>3 DEF Waits
<1>9. WillArrive'
  BY <1>2, <1>7, <1>8 DEF WillArrive, Waits
<1>10. Heard' /\ Announced(events', path', deferred')
  BY <1>1, <1>2 DEF Heard
<1> QED
  BY <1>5, <1>6, <1>9, <1>10 DEF SettleInv

\* What taking an event does to what is still to be heard.
LEMMA EventTaken ==
    ASSUME PlugInv, SettleInv, ~dead, NEW type, Took(type)
    PROVE  LET r == events'
               x == Head(events)
           IN  /\ x.type = type /\ x.source = Said
               /\ UNCHANGED <<requests, path, deferred, refused>>
               /\ Announced(r, path, deferred)
               /\ r = <<>> => x = PathEvent(path, deferred)
               /\ type = "DESELECTED" =>
                      r # <<>> /\ Head(r).type # "DESELECTED" /\ Head(r).source # Said
               /\ SelectedType(x) /\ Said # path => DeselectedAfter(r, 0, Said)
               /\ \A t : DeselectedAfter(events, 0, t) =>
                            x = Event("DESELECTED", t) \/ DeselectedAfter(r, 0, t)
               /\ path \in Own /\ ~Coming(r, path) =>
                      /\ Said = path
                      /\ SelectedType(x) \/ (~Coming(events, path) /\ PathType(x))
<1>1. /\ events # <<>> /\ Head(events).type = type
      /\ events' = Tail(events)
      /\ UNCHANGED <<requests, path, deferred, refused>>
  BY DEF Took
<1>2. events \in Seq(EventSet) /\ Announced(events, path, deferred)
  BY DEF PlugInv, TypeOK, EventSet, SettleInv
<1> QED
  BY <1>1, <1>2, AnnouncedTail DEF Said

LEMMA SelectionSettles ==
    ASSUME PlugInv, SettleInv, ~dead, NEW type \in {"SELECTED", "SELECTED_ON_HOLD"},
           NEW h \in BOOLEAN, SelectionHeard(type, h)
    PROVE  SettleInv'
<1> DEFINE x == Head(events)
<1>1. /\ NotDeaf /\ WillLeave /\ WillArrive
  BY DEF SettleInv
<1>2. /\ plugged' = Said /\ events # <<>>
      /\ state' = [t \in Sources |->
                     IF t = Said
                     THEN IF plugged = Said /\ state[t] = "DESELECTED" THEN "DESELECTED"
                          ELSE "SELECTED"
                     ELSE IF t = plugged THEN "DESELECTED" ELSE state[t]]
  BY DEF SelectionHeard, Took
<1>3. /\ x.type = type /\ x.source = Said
      /\ UNCHANGED <<requests, path, deferred, refused>>
      /\ Announced(events', path, deferred)
      /\ events' = <<>> => x = PathEvent(path, deferred)
      /\ SelectedType(x) /\ Said # path => DeselectedAfter(events', 0, Said)
      /\ \A t : DeselectedAfter(events, 0, t) =>
                   x = Event("DESELECTED", t) \/ DeselectedAfter(events', 0, t)
      /\ path \in Own /\ ~Coming(events', path) => Said = path
  BY EventTaken DEF SelectionHeard
<1>4. SelectedType(x) /\ ~PathType(x) /\ x.type # "DESELECTED"
  BY <1>3 DEF SelectedType, PathType
<1>5. Said \in Own /\ Said \in Sources
  <2>1. 1 \in DOMAIN events /\ x = events[1]
    BY <1>2, TailElements DEF PlugInv, TypeOK
  <2> QED
    BY <1>3, <2>1 DEF PlugInv, OwnSaid, Sources
<1> HIDE DEF x
<1>6. events' # <<>>
  BY <1>3, <1>4 DEF PathEvent, Event, PathType
<1>7. state'[Said] = "SELECTED"
  BY <1>1, <1>2, <1>3, <1>5 DEF NotDeaf, x
<1>8. WillLeave'
  <2> SUFFICES ASSUME NEW t \in Own, t # path, state'[t] # "DESELECTED"
               PROVE  \/ state'[t] = "REQUESTED" /\ Asked(t)'
                      \/ DeselectedAfter(events', 0, t)
    BY <1>3 DEF WillLeave
  <2>1. CASE t = Said
    BY <1>3, <1>4, <2>1
  <2>2. CASE t # Said
    <3>1. state'[t] = state[t]
      BY <1>2, <2>2 DEF Sources
    <3>2. x # Event("DESELECTED", t)
      BY <1>4 DEF Event
    <3> QED
      BY <1>1, <1>3, <3>1, <3>2 DEF WillLeave, Asked
  <2> QED
    BY <2>1, <2>2
<1>9. WillArrive'
  BY <1>2, <1>3, <1>6, <1>7 DEF WillArrive
<1>10. NotDeaf' /\ Heard'
  BY <1>2, <1>6, <1>7 DEF NotDeaf, Heard
<1>11. Announced(events', path', deferred')
  BY <1>3
<1> QED
  BY <1>8, <1>9, <1>10, <1>11 DEF SettleInv

LEMMA DeselectionSettles ==
    ASSUME PlugInv, SettleInv, ~dead, DeselectionHeard
    PROVE  SettleInv'
<1> DEFINE x == Head(events)
<1>1. /\ NotDeaf /\ WillLeave /\ WillArrive
  BY DEF SettleInv
<1>2. /\ plugged' = plugged /\ events # <<>> /\ state' = [state EXCEPT ![Said] = "DESELECTED"]
  BY DEF DeselectionHeard, Took
<1>3. /\ x.type = "DESELECTED" /\ x.source = Said
      /\ UNCHANGED <<requests, path, deferred, refused>>
      /\ Announced(events', path, deferred)
      /\ events' # <<>> /\ Head(events').type # "DESELECTED" /\ Head(events').source # Said
      /\ \A t : DeselectedAfter(events, 0, t) =>
                   x = Event("DESELECTED", t) \/ DeselectedAfter(events', 0, t)
      /\ path \in Own /\ ~Coming(events', path) => SelectedType(x) \/ PathType(x)
  BY EventTaken DEF DeselectionHeard
<1>4. ~SelectedType(x) /\ ~PathType(x)
  BY <1>3 DEF SelectedType, PathType
<1>5. state \in [Sources -> AudioSourceState] /\ plugged \in Sources \cup {None}
  BY DEF PlugInv, TypeOK
<1> HIDE DEF x
<1>6. NotDeaf'
  <2>1. CASE plugged = Said
    BY <1>2, <1>3, <2>1 DEF NotDeaf
  <2>2. CASE plugged # Said
    <3>1. plugged \in Own => state'[plugged] = state[plugged]
      BY <1>2, <1>5, <2>2 DEF Sources
    <3>2. plugged \in Own => state[plugged] # "DESELECTED"
      BY <1>1, <1>3 DEF NotDeaf, x
    <3> QED
      BY <1>2, <3>1, <3>2 DEF NotDeaf
  <2> QED
    BY <2>1, <2>2
<1>7. WillLeave'
  <2> SUFFICES ASSUME NEW t \in Own, t # path, state'[t] # "DESELECTED"
               PROVE  \/ state'[t] = "REQUESTED" /\ Asked(t)'
                      \/ DeselectedAfter(events', 0, t)
    BY <1>3 DEF WillLeave
  <2>1. t # Said /\ state'[t] = state[t]
    BY <1>2, <1>5 DEF Sources
  <2>2. x # Event("DESELECTED", t)
    BY <1>3, <2>1 DEF Event
  <2> QED
    BY <1>1, <1>3, <2>1, <2>2 DEF WillLeave, Asked
<1>8. WillArrive' /\ Heard'
  BY <1>3, <1>4 DEF WillArrive, Heard
<1>9. Announced(events', path', deferred')
  BY <1>3
<1> QED
  BY <1>6, <1>7, <1>8, <1>9 DEF SettleInv

LEMMA PathSettles ==
    ASSUME PlugInv, SettleInv, ~dead, NEW type \in {"PATH_HALF_CHANGED", "PATH_CHANGED"},
           PathHeard(type)
    PROVE  SettleInv'
<1> DEFINE x == Head(events)
<1>1. /\ NotDeaf /\ WillLeave /\ WillArrive
  BY DEF SettleInv
<1>2. /\ hold' = (type = "PATH_HALF_CHANGED") /\ locked' = (Said \in External)
      /\ \/ Said # None /\ plugged = Said /\ plugged' = plugged /\ state' = state
         \/ /\ plugged # Said \/ Said = None
            /\ plugged' = IF Said \in External THEN Said ELSE None
            /\ state' = [t \in Sources |->
                           IF t = Said /\ Said \in External THEN "SELECTED"
                           ELSE IF t = plugged THEN "DESELECTED" ELSE state[t]]
  BY DEF PathHeard
<1>3. /\ x.type = type /\ x.source = Said
      /\ UNCHANGED <<requests, path, deferred, refused>>
      /\ Announced(events', path, deferred)
      /\ events' = <<>> => x = PathEvent(path, deferred)
      /\ \A t : DeselectedAfter(events, 0, t) =>
                   x = Event("DESELECTED", t) \/ DeselectedAfter(events', 0, t)
      /\ path \in Own /\ ~Coming(events', path) =>
             Said = path /\ (SelectedType(x) \/ ~Coming(events, path))
  BY EventTaken DEF PathHeard
<1>4. ~SelectedType(x) /\ x.type # "DESELECTED"
  BY <1>3 DEF SelectedType
<1>5. state \in [Sources -> AudioSourceState] /\ path \in Sources \cup {None}
      /\ deferred \in BOOLEAN
  BY DEF PlugInv, TypeOK
<1>6. NotDeaf'
  <2>1. CASE Said # None /\ plugged = Said /\ plugged' = plugged /\ state' = state
    BY <1>1, <1>3, <2>1 DEF NotDeaf
  <2>2. CASE plugged' = IF Said \in External THEN Said ELSE None
    BY <2>2, SourcesAssumption DEF NotDeaf, Sources
  <2> QED
    BY <1>2, <2>1, <2>2
<1> HIDE DEF x
<1>7. \A t \in Own : state'[t] = state[t] \/ (t = plugged /\ state'[t] = "DESELECTED"
                                             /\ Said # plugged)
  BY <1>2, SourcesAssumption DEF Sources
<1>8. WillLeave'
  <2> SUFFICES ASSUME NEW t \in Own, t # path, state'[t] # "DESELECTED"
               PROVE  \/ state'[t] = "REQUESTED" /\ Asked(t)'
                      \/ DeselectedAfter(events', 0, t)
    BY <1>3 DEF WillLeave
  <2>1. state'[t] = state[t]
    BY <1>7
  <2>2. x # Event("DESELECTED", t)
    BY <1>4 DEF Event
  <2> QED
    BY <1>1, <1>3, <2>1, <2>2 DEF WillLeave, Asked
<1>9. ASSUME path \in Own, ~Coming(events', path)
      PROVE  state'[path] = "SELECTED" /\ (plugged' = path \/ Waits' \/ LeftAlone')
  <2>1. /\ Said = path /\ state[path] = "SELECTED" /\ path # None /\ path \notin External
        /\ plugged = path \/ Waits \/ LeftAlone
        /\ ~Coming(events, path)
    BY <1>1, <1>3, <1>4, <1>9, SourcesAssumption DEF WillArrive, Sources
  <2>2. state'[path] = "SELECTED"
    BY <1>7, <1>9, <2>1
  <2>3. \A t : Asked(t) => Asked(t)'
    BY <1>3 DEF Asked
  <2>4. CASE plugged = path
    BY <1>2, <2>1, <2>2, <2>4
  <2>5. CASE plugged # path /\ Waits
    <3>1. plugged \in Own /\ Asked(plugged)
      <4>1. OnlyPath(events, path)
        BY <1>9, <2>1 DEF SettleInv, Announced
      <4> QED
        BY <1>1, <2>5, <4>1, OnlyPathDeselectsNobody DEF WillLeave, Waits
    <3>2. plugged' = None /\ state'[plugged] = "DESELECTED"
      BY <1>2, <2>1, <2>5, <3>1 DEF Sources
    <3>3. LeftAlone'
      BY <2>3, <3>1, <3>2 DEF LeftAlone
    <3> QED
      BY <2>2, <3>3
  <2>6. CASE LeftAlone
    <3>1. plugged' = None
      BY <1>2, <2>1, <2>6 DEF LeftAlone
    <3>2. PICK t \in Own : state[t] = "DESELECTED" /\ Asked(t)
      BY <2>6 DEF LeftAlone
    <3>3. state'[t] = "DESELECTED"
      BY <1>7, <3>2
    <3>4. LeftAlone'
      BY <2>3, <3>1, <3>2, <3>3 DEF LeftAlone
    <3> QED
      BY <2>2, <3>4
  <2> QED
    BY <2>1, <2>4, <2>5, <2>6
<1>10. ASSUME path \notin Own, events' = <<>>
       PROVE  plugged' = path
  <2>1. Said = path
    BY <1>3, <1>10 DEF PathEvent, Event
  <2> QED
    BY <1>2, <1>5, <1>10, <2>1 DEF Sources
<1>11. WillArrive'
  BY <1>3, <1>9, <1>10 DEF WillArrive
<1>12. ASSUME events' = <<>>
       PROVE  hold' = deferred /\ locked' = (path \in External)
  <2>1. x = PathEvent(path, deferred)
    BY <1>3, <1>12
  <2>2. Said = path /\ type = IF deferred THEN "PATH_HALF_CHANGED" ELSE "PATH_CHANGED"
    BY <1>3, <2>1 DEF PathEvent, Event
  <2>3. hold' = deferred
    BY <1>2, <1>5, <2>2
  <2> QED
    BY <1>2, <2>2, <2>3
<1>13. Heard'
  BY <1>3, <1>12 DEF Heard
<1>14. Announced(events', path', deferred')
  BY <1>3
<1> QED
  BY <1>6, <1>8, <1>11, <1>13, <1>14 DEF SettleInv

\* The manager says q while the source of the path gives way to s.
LEMMA SaidSettles ==
    ASSUME PlugInv, SettleInv, ~dead, NEW q, NEW s, NEW h,
           Told(q, path, s, h), events' = events \o q, path' = s, deferred' = h,
           UNCHANGED <<state, plugged, hold, locked>>,
           \A t \in Own : Asked(t) => t = s \/ Asked(t)'
    PROVE  SettleInv'
<1>1. /\ NotDeaf /\ WillLeave /\ WillArrive /\ Announced(events, path, deferred)
  BY DEF SettleInv
<1>2. events \in Seq(EventSet) /\ q \in Seq(EventSet) /\ q # <<>>
  BY DEF PlugInv, TypeOK, EventSet, Told
<1>3. /\ Announced(events', s, h)
      /\ \A t : DeselectedAfter(events, 0, t) => DeselectedAfter(events', 0, t)
      /\ path # s /\ path \in Own => DeselectedAfter(events', 0, path)
      /\ s \in Own /\ ~Coming(events', s) => path = s /\ ~Coming(events, path)
  BY <1>1, <1>2, AnnouncedAppend
<1>4. events' # <<>> /\ (events # <<>> => Head(events') = Head(events))
  BY <1>2, AppendElements
<1>5. NotDeaf' /\ Heard'
  BY <1>1, <1>4 DEF NotDeaf, Heard
<1>6. WillLeave'
  <2> SUFFICES ASSUME NEW t \in Own, t # s, state[t] # "DESELECTED"
               PROVE  \/ state[t] = "REQUESTED" /\ Asked(t)'
                      \/ DeselectedAfter(events', 0, t)
    BY DEF WillLeave
  <2>1. CASE t = path
    BY <1>3, <2>1
  <2>2. CASE t # path
    BY <1>1, <1>3, <2>2 DEF WillLeave
  <2> QED
    BY <2>1, <2>2
<1>7. ASSUME s \in Own, ~Coming(events', s)
      PROVE  state'[s] = "SELECTED" /\ (plugged' = s \/ Waits' \/ LeftAlone')
  <2>1. state[s] = "SELECTED" /\ (plugged = s \/ Waits \/ LeftAlone)
    BY <1>1, <1>3, <1>7 DEF WillArrive
  <2>2. CASE LeftAlone
    <3>1. PICK t \in Own : state[t] = "DESELECTED" /\ Asked(t)
      BY <2>2 DEF LeftAlone
    <3>2. t # s /\ Asked(t)'
      BY <2>1, <3>1
    <3> QED
      BY <2>1, <2>2, <3>1, <3>2 DEF LeftAlone
  <2> QED
    BY <2>1, <2>2 DEF Waits
<1>8. WillArrive'
  BY <1>4, <1>7 DEF WillArrive
<1> QED
  BY <1>3, <1>5, <1>6, <1>8 DEF SettleInv

\* A request that fails leaves all as it is.
LEMMA RefusedSettles ==
    ASSUME PlugInv, SettleInv, ~dead, Refused
    PROVE  SettleInv'
<1>1. \A t : Asked(t) => Asked(t)'
  <2>1. \A t : Requested(requests, t) => t = Head(requests) \/ Requested(requests', t)
    BY RequestsTail DEF Requested, Refused, PlugInv
  <2> QED
    BY <2>1 DEF Asked, Refused
<1>2. UNCHANGED <<state, plugged, events, hold, locked, path, deferred>>
  BY DEF Refused
<1>3. /\ Announced(events, path, deferred) /\ Heard /\ NotDeaf /\ WillLeave /\ WillArrive
  BY DEF SettleInv
<1>4. Heard' /\ NotDeaf'
  BY <1>2, <1>3 DEF Heard, NotDeaf
<1>5. WillLeave'
  BY <1>1, <1>2, <1>3 DEF WillLeave
<1>6. (Waits => Waits') /\ (LeftAlone => LeftAlone')
  BY <1>1, <1>2 DEF Waits, LeftAlone
<1>7. WillArrive'
  BY <1>2, <1>3, <1>6 DEF WillArrive
<1> QED
  BY <1>2, <1>3, <1>4, <1>5, <1>7 DEF SettleInv

LEMMA SourceStepSettles ==
    ASSUME PlugInv, PlugInv', SettleInv, ~dead, SourceStep
    PROVE  SettleInv'
<1>1. path \in Sources \cup {None} /\ requests \in Seq(Own)
  BY DEF PlugInv, TypeOK
<1>2. CASE Quiet
  BY <1>2, QuietSettles
<1>3. CASE \E s \in Own : Played(s)
  BY <1>3, PlayedSettles
<1>4. CASE \E type \in {"SELECTED", "SELECTED_ON_HOLD"}, h \in BOOLEAN :
               SelectionHeard(type, h)
  BY <1>4, SelectionSettles
<1>5. CASE DeselectionHeard
  BY <1>5, DeselectionSettles
<1>6. CASE \E type \in {"PATH_HALF_CHANGED", "PATH_CHANGED"} : PathHeard(type)
  BY <1>6, PathSettles
<1>7. ASSUME NEW h \in BOOLEAN, requests # <<>>, requests' = Tail(requests),
             Head(requests) \in Own, Switched(Head(requests), h)
      PROVE  SettleInv'
  <2>1. Told(SwitchTo(path, Head(requests), h), path, Head(requests), h)
    BY <1>1, <1>7, SwitchTold DEF Sources
  <2>2. \A t : Requested(requests, t) => t = Head(requests) \/ Requested(requests', t)
    BY <1>1, <1>7, RequestsTail DEF Requested
  <2>3. \A t \in Own : Asked(t) => t = Head(requests) \/ Asked(t)'
    BY <1>7, <2>2 DEF Asked, Switched
  <2> QED
    BY <1>7, <2>1, <2>3, SaidSettles DEF Switched
<1>8. ASSUME NEW s \in Sources \cup {None}, NEW h \in BOOLEAN, requests' = requests,
             Switched(s, h)
      PROVE  SettleInv'
  <2>1. Told(SwitchTo(path, s, h), path, s, h)
    BY <1>1, SwitchTold
  <2>2. \A t \in Own : Asked(t) => t = s \/ Asked(t)'
    BY <1>8 DEF Asked, Switched
  <2> QED
    BY <1>8, <2>1, <2>2, SaidSettles DEF Switched
<1>9. CASE Completed
  <2>1. Told(Completes(path), path, path, FALSE)
    BY <1>1, CompletesTold
  <2>2. deferred' = FALSE
    BY <1>9 DEF Completed, PlugInv, TypeOK
  <2>3. \A t \in Own : Asked(t) => t = path \/ Asked(t)'
    BY <1>9 DEF Asked, Completed
  <2> QED
    BY <1>9, <2>1, <2>2, <2>3, SaidSettles DEF Completed
<1>10. CASE Refused
  BY <1>10, RefusedSettles
<1> QED
  BY <1>2, <1>3, <1>4, <1>5, <1>6, <1>7, <1>8, <1>9, <1>10 DEF SourceStep

LEMMA SettleInit ==
    ASSUME Init
    PROVE  SettleInv
<1>1. /\ events = <<>> /\ path = None /\ plugged = None /\ hold = FALSE
      /\ deferred = FALSE /\ locked = FALSE
      /\ \A s \in Sources : state[s] = "DESELECTED"
  BY DEF Init
<1>2. None \notin External /\ None \notin Own
  BY SourcesAssumption DEF Sources
<1>3. DOMAIN events = {}
  BY <1>1
<1>4. Announced(events, path, deferred)
  BY <1>1, <1>2, <1>3 DEF Announced, WellSaid, Superseded
<1>5. Heard
  <2>1. hold = deferred
    BY <1>1
  <2>2. ~locked /\ locked \in BOOLEAN /\ path \notin External
    BY <1>1, <1>2
  <2>3. locked = (path \in External)
    BY <2>2
  <2> QED
    BY <2>1, <2>3 DEF Heard
<1>6. NotDeaf /\ WillLeave /\ WillArrive
  BY <1>1, <1>2 DEF NotDeaf, WillLeave, WillArrive, Sources
<1> QED
  BY <1>4, <1>5, <1>6 DEF SettleInv

LEMMA SettledOnPath ==
    ASSUME PlugInv, SettleInv
    PROVE  SettlesOnPath
<1> SUFFICES ASSUME ~dead, events = <<>>, requests = <<>>
             PROVE  /\ \/ plugged = path
                       \/ plugged \in refused /\ state[plugged] = "REQUESTED"
                       \/ /\ plugged = None /\ path \in Own
                          /\ \E s \in refused : state[s] = "DESELECTED"
                    /\ \A s \in Own : /\ state[s] = "SELECTED" <=> s = path
                                      /\ state[s] = "REQUESTED" => s \in refused
                    /\ hold = deferred
                    /\ locked = (path \in External)
  BY DEF SettlesOnPath, Settled
<1>1. Heard /\ WillLeave /\ WillArrive
  BY DEF SettleInv
<1>2. DOMAIN events = {} /\ DOMAIN requests = {}
  OBVIOUS
<1>3. ~Coming(events, path) /\ \A s : ~DeselectedAfter(events, 0, s) /\ ~Requested(requests, s)
  BY <1>2 DEF Coming, DeselectedAfter, Requested
<1>4. \A s : Asked(s) => s \in refused
  BY <1>3 DEF Asked
<1>5. /\ path \in Own => state[path] = "SELECTED" /\ (plugged = path \/ Waits \/ LeftAlone)
      /\ path \notin Own => plugged = path \/ Waits
  BY <1>1, <1>3 DEF WillArrive
<1>7. \A s \in Own : s # path /\ state[s] # "DESELECTED" =>
          state[s] = "REQUESTED" /\ s \in refused
  BY <1>1, <1>3, <1>4 DEF WillLeave
<1>8. Waits /\ plugged # path => plugged \in refused /\ state[plugged] = "REQUESTED"
  BY <1>7 DEF Waits
<1>9. LeftAlone => plugged = None /\ \E s \in refused : state[s] = "DESELECTED"
  BY <1>4 DEF LeftAlone
<1>10. \/ plugged = path
       \/ plugged \in refused /\ state[plugged] = "REQUESTED"
       \/ plugged = None /\ path \in Own /\ \E s \in refused : state[s] = "DESELECTED"
  BY <1>5, <1>8, <1>9
<1>11. \A s \in Own : /\ state[s] = "SELECTED" <=> s = path
                      /\ state[s] = "REQUESTED" => s \in refused
  BY <1>5, <1>7
<1>6. hold = deferred /\ locked = (path \in External)
  BY <1>1 DEF Heard
<1> QED
  BY <1>6, <1>10, <1>11

(* When all that was said has been heard, the control is plugged to the    *)
(* source of the audio path unless a request was refused, and of this      *)
(* program's sources just that of the path is selected, whatever the user  *)
(* has played and whoever has switched the path in the meantime, for any   *)
(* number of sources, requests and events.                                 *)
THEOREM SourcesSettleOnPath == Spec => []SettlesOnPath
<1>1. Init => PlugInv /\ SettleInv
  BY PlugInit, SettleInit
<1>2. ASSUME PlugInv, SettleInv, [Next]_vars
      PROVE  PlugInv' /\ SettleInv'
  <2>1. PlugInv' /\ (dead' \/ SourceStep)
    BY <1>2, PlugStep
  <2>2. CASE dead'
    BY <2>1, <2>2 DEF SettleInv
  <2>3. CASE ~dead' /\ dead
    <3>1. UNCHANGED vars
      BY <1>2, <2>3 DEF Next, Program, User, Manager, Terminated, OpenView, PlayItem,
         stop_playing, resume_request, Command, StreamStarts, StreamsEnd,
         AudioSourceSelected, AudioSourceDeselected, AudioPathChanged, Take, Alive
    <3> QED
      BY <2>3, <3>1 DEF vars
  <2>4. CASE ~dead' /\ ~dead
    BY <1>2, <2>1, <2>4, SourceStepSettles
  <2> QED
    BY <2>1, <2>2, <2>3, <2>4
<1>3. PlugInv /\ SettleInv => SettlesOnPath
  BY SettledOnPath
<1>4. PlugInv /\ SettleInv /\ [Next]_vars => (PlugInv /\ SettleInv)'
  BY <1>2
<1> QED
  BY <1>1, <1>3, <1>4, PTL DEF Spec
=============================================================================
