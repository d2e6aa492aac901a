----------------------------- MODULE PlayerData -----------------------------
(***************************************************************************)
(* Player::Data with its Player::QueuedStreams: our mirror of the stream   *)
(* player's queue, as operators on a record.  Every operator is a method,  *)
(* called with the player data locked.                                     *)
(*                                                                         *)
(* A stream is described by its position in the list it came from; the     *)
(* order of the mirror queue is in "queue", the stream that was handed to  *)
(* the player's playback engine, as far as we know, is "inflight".         *)
(***************************************************************************)
EXTENDS Naturals, Sequences, FiniteSets

CONSTANTS
    StreamIds,  \* IDs of our own streams
    Positions,  \* positions in the list being played
    None        \* invalid ID, no position

ASSUME StreamIdsAssumption == IsFiniteSet(StreamIds)
ASSUME NoneAssumption == None \notin StreamIds /\ None \notin Positions

Intentions   == {"NOTHING", "STOPPING", "PAUSING", "LISTENING",
                 "SKIPPING_PAUSED", "SKIPPING_LIVE"}
PlayerStates == {"stopped", "playing", "paused"}

\* A stream in the mirror: where it came from, and whether it has been sent to
\* the player.  Nothing makes it CURRENT, and what is ABOUT_TO_DIE is gone.
QueuedStreams == [pos : Positions, state : {"FLOATING", "QUEUED"}]

PlayerDatas ==
    [queue     : Seq(StreamIds),             \* QueuedStreams::queue_
     inflight  : StreamIds \cup {None},      \* QueuedStreams::stream_in_flight_
     streams   : UNION {[S -> QueuedStreams] : S \in SUBSET StreamIds},
     refs      : Nat,                        \* the list's count in referenced_lists_
     intention : Intentions,
     state     : PlayerStates,               \* player_state_
     now       : StreamIds \cup {None}]      \* NowPlayingInfo::stream_id_

IdleData == [queue |-> <<>>, inflight |-> None, streams |-> [i \in {} |-> None],
             refs |-> 0, intention |-> "NOTHING", state |-> "stopped", now |-> None]

Elements(s)   == {s[i] : i \in DOMAIN s}
OnlyId(id)    == {id} \ {None}
front(d)      == IF d.queue = <<>> THEN None ELSE Head(d.queue)
Without(f, S) == [i \in DOMAIN f \ S |-> f[i]]

\* Mutant: a list may be given up once too often.
UnrefUnchecked(n, k) == n - k

Unref(n, k)   == IF n > k THEN n - k ELSE 0

\* A sequence less its k-th element.
WithoutNth(s, k) == [i \in 1 .. Len(s) - 1 |-> IF i < k THEN s[i] ELSE s[i + 1]]

(***************************************************************************)
(* Adding streams                                                          *)
(***************************************************************************)
Floating(pos) == [pos |-> pos, state |-> "FLOATING"]

\* Mutant: the new stream goes first.
queued_stream_prepend(d, id, pos) ==
    [d EXCEPT !.queue   = <<id>> \o @,
              !.streams = [i \in DOMAIN @ \cup {id} |-> IF i = id THEN Floating(pos) ELSE @[i]],
              !.refs    = @ + 1]

queued_stream_append(d, id, pos) ==
    [d EXCEPT !.queue   = Append(@, id),
              !.streams = [i \in DOMAIN @ \cup {id} |-> IF i = id THEN Floating(pos) ELSE @[i]],
              !.refs    = @ + 1]

IsFloating(d, id) == id \in DOMAIN d.streams => d.streams[id].state = "FLOATING"

queued_stream_sent_to_player(d, id) ==
    IF id \notin DOMAIN d.streams THEN d ELSE [d EXCEPT !.streams[id].state = "QUEUED"]

\* prepare_stream_for_recovery() for some streams
prepare_for_recovery(d, ids) ==
    [d EXCEPT !.streams = [i \in DOMAIN @ |-> IF i \in ids THEN Floating(@[i].pos) ELSE @[i]]]

(***************************************************************************)
(* Removing streams.  The callback on_remove_cb_ gives up the reference to *)
(* the stream's list.                                                      *)
(***************************************************************************)
\* Mutant: the callback is not called.
clear_keeping_lists(d) ==
    [d EXCEPT !.queue = <<>>, !.inflight = None, !.streams = [i \in {} |-> None]]

clear(d) ==
    [d EXCEPT !.queue = <<>>, !.inflight = None, !.streams = [i \in {} |-> None],
              !.refs = Unref(@, Cardinality(DOMAIN d.streams))]

remove_all_queued_streams(d) == clear(d)
player_failed(d)             == clear(d)
player_finished_and_idle(d)  == [clear(d) EXCEPT !.refs = 0, !.now = None]

\* The position of an element which is in the sequence.
IndexOf(s, e) == CHOOSE i \in DOMAIN s : s[i] = e

\* clear_if() for a single stream, whether queued or in flight.
queued_stream_remove(d, id) ==
    IF id \notin DOMAIN d.streams THEN d
    ELSE [d EXCEPT !.queue    = IF id \in Elements(@) THEN WithoutNth(@, IndexOf(@, id)) ELSE @,
                   !.inflight = IF @ = id THEN None ELSE @,
                   !.streams  = Without(@, {id}),
                   !.refs     = Unref(@, 1)]

\* Mutant: a rejected stream stays in the queue.
player_rejected_ignored(d, id) == d

\* The caller of remove_anywhere() gives up the list a second time.
player_rejected_unplayed_stream(d, id) ==
    IF id \notin Elements(d.queue) THEN d
    ELSE [d EXCEPT !.queue   = WithoutNth(@, IndexOf(@, id)),
                   !.streams = Without(@, {id}),
                   !.refs    = Unref(@, 2)]

\* How often remove_front() can take the front of the queue.
DroppedPrefix(s, ids) ==
    Cardinality({k \in DOMAIN s : \A i \in 1 .. k : s[i] \in ids})

\* The loop over remove_front(): streams at the front of the queue go first,
\* and only while there are queued streams the one in flight is considered.
\* Streams from the middle of the queue are an error.
player_dropped_from_queue(d, ids) ==
    LET k    == DroppedPrefix(d.queue, ids)
        gone == {d.queue[i] : i \in 1 .. k}
        left == ids \ gone
        cut  == [d EXCEPT !.queue   = SubSeq(@, k + 1, Len(@)),
                          !.streams = Without(@, gone),
                          !.refs    = Unref(@, 2 * k)]
        fly  == [cut EXCEPT !.inflight = None,
                            !.streams  = Without(@, OnlyId(d.inflight)),
                            !.refs     = Unref(@, 2)]
    IN  CASE left = {} \/ cut.queue = <<>>  -> cut
          [] left # {} /\ cut.queue # <<>> /\ left = OnlyId(d.inflight) -> fly
          [] OTHER -> player_failed(IF d.inflight \in left THEN fly ELSE cut)

(***************************************************************************)
(* What the player told us                                                 *)
(***************************************************************************)
\* shift_if_not_flying() without an expected ID.
queued_stream_playing_next(d) ==
    IF d.inflight # None \/ d.queue = <<>> THEN d
    ELSE [d EXCEPT !.inflight = Head(d.queue), !.queue = Tail(@)]

in_sync(d, id) == id = front(d) \/ id = d.inflight

\* Mutants: the stream that has been played is kept; an unknown stream is
\* taken for one of ours.
stream_has_changed_keeping(d, id) ==
    IF ~in_sync(d, id) THEN player_failed(d)
    ELSE IF id = d.inflight THEN d
    ELSE [d EXCEPT !.inflight = Head(d.queue), !.queue = Tail(@)]
stream_has_changed_unknown(d, id) ==
    IF ~in_sync(d, id) THEN [player_failed(d) EXCEPT !.inflight = id]
    ELSE IF id = d.inflight THEN d
    ELSE [d EXCEPT !.inflight = Head(d.queue),
                   !.queue    = Tail(@),
                   !.streams  = Without(@, OnlyId(d.inflight)),
                   !.refs     = IF d.inflight = None THEN @ ELSE Unref(@, 1)]

stream_has_changed(d, id) ==
    IF ~in_sync(d, id) THEN player_failed(d)
    ELSE IF id = d.inflight THEN d
    ELSE [d EXCEPT !.inflight = Head(d.queue),
                   !.queue    = Tail(@),
                   !.streams  = Without(@, OnlyId(d.inflight)),
                   !.refs     = IF d.inflight = None THEN @ ELSE Unref(@, 1)]

player_now_playing_stream(d, id) == [stream_has_changed(d, id) EXCEPT !.now = id]
player_has_stopped(d) == [d EXCEPT !.state = "stopped", !.now = None]
set_intention(d, i)   == [d EXCEPT !.intention = i]

\* set_intention_after_skipping()
set_intention_after_skipping(d) ==
    [d EXCEPT !.intention = CASE @ = "SKIPPING_PAUSED" -> "PAUSING"
                              [] @ = "SKIPPING_LIVE"   -> "LISTENING"
                              [] OTHER                 -> @]

(***************************************************************************)
(* The consistency check of QueuedStreams::log(): there is exactly one     *)
(* description for each stream that is queued or in flight, and no stream  *)
(* is there twice.                                                         *)
(***************************************************************************)
Consistent(d) ==
    /\ \A i, j \in DOMAIN d.queue : d.queue[i] = d.queue[j] => i = j
    /\ d.inflight \notin Elements(d.queue)
    /\ DOMAIN d.streams = Elements(d.queue) \cup OnlyId(d.inflight)
=============================================================================
