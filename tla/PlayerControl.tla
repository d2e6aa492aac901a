---------------------------- MODULE PlayerControl ----------------------------
(***************************************************************************)
(* Player::Control with its Skipper and its Retry counter, together with   *)
(* the events of ViewPlay::View that drive it: commands of the user,       *)
(* selection of audio sources, signals of the stream player, and completed *)
(* operations of the list crawler.                                         *)
(*                                                                         *)
(* Each event is handled by the main thread with player control and player *)
(* data locked, so that a handler is a single step: an operator that takes *)
(* the world it finds to the world it leaves behind.  What makes it hard   *)
(* is that events from the three sources cross each other.                 *)
(*                                                                         *)
(* There is one audio source of our own whose list has the positions       *)
(* 1 .. Last, and there are external sources which have no crawler.        *)
(***************************************************************************)
EXTENDS StreamPlayer

CONSTANTS
    Last,           \* the list has items 1 .. Last
    OpIds,          \* identities of crawler operations
    Commands,       \* what the user does
    Faults,         \* what goes wrong outside
    can_skip_on_error, can_prefetch_for_gapless, can_fast_wind_backward,
    maximum_number_of_prefetched_streams,
    MaxCommands,    \* bound: number of commands
    MaxFaults,      \* bound: number of faults
    MaxSignals      \* bound: signals the player has not delivered while it goes on

MAX_RETRIES == 2

Kinds   == {"play", "playuris", "prefetch", "prefetchuris", "skip", "revert"}
Marks   == {"ABOUT_TO_PLAY", "CURRENTLY_PLAYING", "PREFETCH_CURSOR", "SKIP_CURSOR"}
OpStates == {"delayed", "running", "done"}
OpResults == {"none", "found", "start", "end", "ok", "no_uris", "failed"}
Bugs    == {"null", "assertion", "assertion: stream has been sent", "Queues out of sync", "Out of sync"}

ASSUME ListAssumption == Last \in Nat \ {0} /\ Positions = 1 .. Last
ASSUME OpIdsAssumption == None \notin OpIds
ASSUME PermissionsAssumption ==
    /\ can_skip_on_error \in BOOLEAN /\ can_prefetch_for_gapless \in BOOLEAN
    /\ can_fast_wind_backward \in BOOLEAN
    /\ maximum_number_of_prefetched_streams \in Nat \ {0}
ASSUME EnvironmentAssumption ==
    /\ Commands \subseteq {"play", "start", "stop", "pause", "next", "previous", "wind"}
    /\ Faults \subseteq {"stream", "early", "find", "uris", "lost", "taken", "shutdown",
                         "select", "deselect", "hold"}
    /\ MaxCommands \in Nat /\ MaxFaults \in Nat /\ MaxSignals \in Nat \ {0}

NoOp == [kind |-> "none"]
Ops  == [kind : Kinds, pos : Positions, dir : {"FORWARD", "BACKWARD", "NONE"},
         force : BOOLEAN, prev : Intentions, st : OpStates, canceled : BOOLEAN,
         res : OpResults]

Controls ==
    [plugged : {"none", "own", "external"},  \* audio_source_
     source  : {"DESELECTED", "REQUESTED", "SELECTED"},  \* state of our source
     handle  : BOOLEAN,                      \* crawler_handle_ # nullptr
     marks   : [Marks -> Positions \cup {None}],
     next    : OpIds \cup {None},            \* prefetch_next_item_op_
     uris    : OpIds \cup {None},            \* prefetch_uris_op_
     skip    : OpIds \cup {None},            \* Skipper::find_next_op_
     saved   : Positions \cup {None},        \* audio_source_selected_find_op_
     dir     : {"FORWARD", "BACKWARD"},      \* prefetch_direction_after_failure_
     retry   : [count : 0 .. MAX_RETRIES, id : StreamIds \cup {None}],
     ops     : [OpIds -> Ops \cup {NoOp}],   \* Crawler::Iface::ops_, less those in dead
     done    : Seq(OpIds),                   \* events of completed operations
     dead    : SUBSET {"delayed", "running"}, \* canceled operations still in ops_
     hold    : BOOLEAN,                      \* our source is selected, but on hold
     bugs    : SUBSET Bugs]

VARIABLES
    data,       \* Player::Data
    ctl,        \* Player::Control, the audio source, and the crawler
    player,     \* the stream player
    budget,     \* [commands, faults] left
    goal        \* ghost: what the user asked for last

vars == <<data, ctl, player, budget, goal>>

IdleControl ==
    [plugged |-> "none", source |-> "DESELECTED", handle |-> FALSE,
     marks |-> [m \in Marks |-> None], next |-> None, uris |-> None, skip |-> None,
     saved |-> None, dir |-> "FORWARD", retry |-> [count |-> 0, id |-> None],
     ops |-> [o \in OpIds |-> NoOp], done |-> <<>>, dead |-> {}, hold |-> FALSE, bugs |-> {}]

(***************************************************************************)
(* The world of a handler: player data, player control, stream player.     *)
(***************************************************************************)
World == [d |-> data, c |-> [ctl EXCEPT !.bugs = {}], p |-> player]

WithData(w, d)    == [d |-> d, c |-> w.c, p |-> w.p]
WithControl(w, c) == [d |-> w.d, c |-> c, p |-> w.p]
WithPlayer(w, p)  == [d |-> w.d, c |-> w.c, p |-> p]

Bug(w, b)         == WithControl(w, [w.c EXCEPT !.bugs = @ \cup {b}])
BugIf(w, cond, b) == IF cond THEN Bug(w, b) ELSE w
Mark(w, m, pos)   == WithControl(w, [w.c EXCEPT !.marks[m] = pos])
Intend(w, i)      == WithData(w, set_intention(w.d, i))

attached(w)   == w.c.plugged # "none"                           \* player_data_ # nullptr
own(w)        == w.c.plugged = "own"
selected(w)   == own(w) => w.c.source = "SELECTED"
has_proxy(w)  == own(w) /\ w.c.source = "SELECTED"              \* URL FIFO and playback proxies

\* send_play_command() and the like; nothing is sent without a proxy.
send_play_command(w)  == IF has_proxy(w) THEN WithPlayer(w, Start(w.p)) ELSE w
send_pause_command(w) == IF has_proxy(w) THEN WithPlayer(w, Pause(w.p)) ELSE w
send_stop_command(w)  == IF has_proxy(w) THEN WithPlayer(w, Stop(w.p)) ELSE w

(***************************************************************************)
(* Crawler operations                                                      *)
(***************************************************************************)
FreeOp(c) == CHOOSE o \in OpIds : c.ops[o] = NoOp

Op(kind, pos, dir) ==
    [kind |-> kind, pos |-> pos, dir |-> dir, force |-> FALSE, prev |-> "NOTHING",
     st |-> "running", canceled |-> FALSE, res |-> "none"]

\* cancel(): a completed operation is still reported to its owner, any other
\* one only leaves the set of operations, sooner or later.
cancel(c, o) ==
    IF o = None THEN c
    ELSE IF c.ops[o] = NoOp THEN c
    ELSE IF c.ops[o].st = "done" THEN [c EXCEPT !.ops[o].canceled = TRUE]
    ELSE [c EXCEPT !.ops[o] = NoOp, !.dead = @ \cup {c.ops[o].st}]

\* There is one delayed operation; a new one cancels it and takes its place.
drop_delayed(c) ==
    [c EXCEPT !.ops  = [o \in OpIds |-> IF @[o] # NoOp /\ @[o].st = "delayed" THEN NoOp ELSE @[o]],
              !.dead = @ \ {"delayed"}]

\* Start operation op, owned by the member variable "slot".
run(w, slot, op) ==
    LET c == IF op.st = "delayed" THEN drop_delayed(w.c) ELSE w.c
        o == FreeOp(c)
    IN  WithControl(w, [c EXCEPT !.ops[o] = op, ![slot] = o])

\* Mutant: the operations survive the crawler.
deactivate_marks_only(c) ==
    [c EXCEPT !.marks = [m \in Marks |-> None], !.handle = FALSE]

deactivate(c) ==
    [c EXCEPT !.ops = [o \in OpIds |-> NoOp], !.done = <<>>, !.dead = {},
              !.marks = [m \in Marks |-> None], !.handle = FALSE]

\* Crawler::Iface::is_busy()
is_busy(c) == c.dead # {} \/ \E o \in OpIds : c.ops[o] # NoOp

skipper_reset(w) == WithControl(w, [cancel(w.c, w.c.skip) EXCEPT !.skip = None])

\* Mutant: URIs may still be fetched.
cancel_prefetch_next_only(w) ==
    WithControl(w, [cancel(w.c, w.c.next) EXCEPT !.next = None, !.marks["PREFETCH_CURSOR"] = None])

cancel_prefetch_ops(w) ==
    WithControl(w, [cancel(cancel(w.c, w.c.next), w.c.uris)
                        EXCEPT !.next = None, !.uris = None,
                               !.marks["PREFETCH_CURSOR"] = None])

(***************************************************************************)
(* Attaching and detaching                                                 *)
(***************************************************************************)
reset_retry(w) == WithControl(w, [w.c EXCEPT !.retry = [count |-> 0, id |-> None]])

invalidate_prefetched_uris(w) ==
    IF ~has_proxy(w) THEN w
    ELSE LET r == Clear(w.p)
         IN  WithData(WithPlayer(w, r.player), player_dropped_from_queue(w.d, r.dropped))

\* Mutant: the stream in flight is kept.
forget_prefetched(w) == reset_retry(invalidate_prefetched_uris(w))

forget_queued_and_playing(w) ==
    reset_retry(
        IF ~attached(w) THEN w
        ELSE LET v == invalidate_prefetched_uris(w)
             IN  BugIf(WithData(v, remove_all_queued_streams(v.d)),
                       v.d.queue # <<>>, "Queues out of sync"))

\* A complete unplug forgets about the audio source first, so that nobody
\* clears the stream player's FIFO.
unplug(w, complete) ==
    LET v == IF complete
             THEN LET f == BugIf(WithData(w, IF attached(w) THEN remove_all_queued_streams(w.d) ELSE w.d),
                                 attached(w) /\ w.d.queue # <<>>, "Queues out of sync")
                  IN  reset_retry(f)
             ELSE forget_queued_and_playing(w)
        u == cancel_prefetch_ops(skipper_reset(IF attached(w) THEN Intend(v, "NOTHING") ELSE v))
        x == WithControl(u, [u.c EXCEPT !.dir = "FORWARD"])
    IN  IF complete THEN WithControl(x, [deactivate(x.c) EXCEPT !.plugged = "none"]) ELSE x

\* plug() for an audio source
plug(w, who) ==
    WithControl(w, [w.c EXCEPT !.plugged = who,
                               !.source  = IF who = "own" /\ @ = "DESELECTED" THEN "REQUESTED" ELSE @])

\* Mutant: forgets about the operations, but not about those it owned.
plug_crawler_keeping(w, with_handle) ==
    WithControl(w, [deactivate(w.c) EXCEPT !.handle = with_handle])

\* plug() for a crawler handle or for permissions only
plug_crawler(w, with_handle) ==
    LET c == deactivate(w.c)
    IN  WithControl(w, [c EXCEPT !.handle = with_handle, !.skip = None, !.next = None,
                                 !.uris = None, !.retry = [count |-> 0, id |-> None]])

\* ViewPlay::View::player_finished()
player_finished(w, what, is_active_controller) ==
    IF what = "PREFETCHING" /\ w.d.state # "stopped" THEN w
    ELSE LET v == IF is_active_controller THEN unplug(w, FALSE) ELSE w
         IN  WithData(v, player_finished_and_idle(v.d))

(***************************************************************************)
(* Pushing streams                                                         *)
(***************************************************************************)
\* IDs which nobody refers to.
SignalIds(p)   == {p.sig[i].id : i \in DOMAIN p.sig} \cup UNION {p.sig[i].dropped : i \in DOMAIN p.sig}
FreeIds(w)     == StreamIds \ (DOMAIN w.d.streams \cup {w.d.now, w.p.cur, w.p.said, w.c.retry.id}
                                  \cup Elements(w.p.queue) \cup SignalIds(w.p))
next_stream_id(w) == CHOOSE i \in FreeIds(w) : TRUE

\* send_selected_file_uri_to_streamplayer(), including queue_stream_or_forget()
\* for a stream the mirror knows.  Without a proxy nothing is sent.
send_selected_file_uri_to_streamplayer(w, id, insert_mode, play_new_mode) ==
    LET r == IF insert_mode = "APPEND" THEN PushBack(w.p, id) ELSE PushReplacing(w.p, id)
        u == IF has_proxy(w)
             THEN WithData(WithPlayer(w, r.player), player_dropped_from_queue(w.d, r.dropped))
             ELSE w
        v == BugIf(WithData(u, queued_stream_sent_to_player(u.d, id)),
                   ~IsFloating(u.d, id), "assertion: stream has been sent")
    IN  CASE has_proxy(w) /\ r.is_playing -> v
          [] ~(has_proxy(w) /\ r.is_playing) /\ play_new_mode = "PLAY_IF_IDLE"  -> send_play_command(v)
          [] ~(has_proxy(w) /\ r.is_playing) /\ play_new_mode = "PAUSE_IF_IDLE" -> send_pause_command(v)
          [] OTHER -> v

queue_item_from_op(w, pos, insert_mode, play_new_mode) ==
    LET id == next_stream_id(w)
        v  == IF insert_mode = "REPLACE_ALL" THEN Mark(w, "ABOUT_TO_PLAY", pos) ELSE w
    IN  send_selected_file_uri_to_streamplayer(
            WithData(v, queued_stream_append(v.d, id, pos)), id, insert_mode, play_new_mode)

(***************************************************************************)
(* Prefetching                                                             *)
(***************************************************************************)
FirstMark(c, ms) ==
    IF \E i \in DOMAIN ms : c.marks[ms[i]] # None
    THEN c.marks[ms[CHOOSE i \in DOMAIN ms : /\ c.marks[ms[i]] # None
                                             /\ \A j \in 1 .. i - 1 : c.marks[ms[j]] = None]]
    ELSE None

\* The other marks are considered only if the caller starts from the
\* prefetch cursor.
start_prefetch_next_item(w, from_where, dir, force, execution) ==
    LET pos == IF from_where = "PREFETCH_CURSOR"
               THEN FirstMark(w.c, <<"PREFETCH_CURSOR", "CURRENTLY_PLAYING", "ABOUT_TO_PLAY">>)
               ELSE w.c.marks["PREFETCH_CURSOR"]
    IN  IF \/ ~attached(w) \/ ~w.c.handle
           \/ w.c.next # None \/ w.c.skip # None
           \/ Len(w.d.queue) >= maximum_number_of_prefetched_streams
           \/ pos = None
        THEN w
        ELSE run(Mark(w, "PREFETCH_CURSOR", pos), "next",
                 [Op("prefetch", pos, dir) EXCEPT !.force = force, !.st = execution])

(***************************************************************************)
(* Skipping                                                                *)
(***************************************************************************)
\* Where skipping starts from.
skip_reference(w) ==
    IF w.d.intention \in {"SKIPPING_PAUSED", "SKIPPING_LIVE"} THEN w.c.marks["SKIP_CURSOR"]
    ELSE FirstMark(w.c, <<"ABOUT_TO_PLAY", "CURRENTLY_PLAYING">>)

\* skip_request_prepare(), and the function it makes for the skipper
may_skip(w) == w.d.intention \notin {"NOTHING", "STOPPING"} /\ selected(w)

run_new_find_next(w, pos, dir, previous) ==
    run(Mark(cancel_prefetch_ops(w), "SKIP_CURSOR", pos),
        "skip", [Op("skip", pos, dir) EXCEPT !.prev = previous])

set_intention_for_skipping(w) ==
    Intend(w, CASE w.d.intention = "PAUSING"   -> "SKIPPING_PAUSED"
                [] w.d.intention = "LISTENING" -> "SKIPPING_LIVE"
                [] OTHER                       -> w.d.intention)

should_reject_skip_request(d) == d.state = "stopped" /\ d.intention \in {"NOTHING", "STOPPING"}

\* Skipper::forward_request() and Skipper::backward_request(); requests are
\* not accumulated since MAX_PENDING_SKIP_REQUESTS is 0.
forward_request(w, pos) ==
    IF pos = None \/ should_reject_skip_request(w.d) \/ w.c.skip # None THEN w
    ELSE run_new_find_next(set_intention_for_skipping(w), pos, "FORWARD", w.d.intention)

backward_request(w, pos) ==
    IF pos = None \/ should_reject_skip_request(w.d) \/ w.c.skip # None THEN w
    ELSE run_new_find_next(set_intention_for_skipping(w), pos, "BACKWARD", w.d.intention)

\* Going back without a crawler is up to the player, which does not tell.
send_simple_skip_forward_command(w) == IF has_proxy(w) THEN WithPlayer(w, SkipToNext(w.p)) ELSE w

skip_forward_request(w) ==
    CASE ~attached(w) \/ ~w.c.handle                -> send_simple_skip_forward_command(w)
      [] attached(w) /\ w.c.handle /\ ~may_skip(w) -> w
      [] OTHER -> forward_request(WithControl(w, [w.c EXCEPT !.dir = "FORWARD"]), skip_reference(w))

skip_backward_request(w) ==
    IF ~attached(w) \/ ~w.c.handle \/ ~may_skip(w) THEN w
    ELSE backward_request(WithControl(w, [w.c EXCEPT !.dir = "BACKWARD"]), skip_reference(w))

skip_request(w, dir) ==
    IF dir = "FORWARD" THEN skip_forward_request(w) ELSE skip_backward_request(w)

\* Where streams cannot be wound back, rewinding goes to the stream before.
rewind_request(w) ==
    IF attached(w) /\ selected(w) /\ ~can_fast_wind_backward THEN skip_backward_request(w) ELSE w

\* The speed is passed on without a look at whether there is an audio source.
fast_wind_set_speed_request(w) == BugIf(w, ~attached(w), "null")

(***************************************************************************)
(* Requests                                                                *)
(***************************************************************************)
\* pos is None for a request without a find operation.
play_request(w, pos) ==
    LET v == Intend(w, "LISTENING")
    IN  CASE ~attached(w) \/ (own(w) /\ w.c.source = "DESELECTED") -> w
          [] own(w) /\ w.c.source = "REQUESTED" -> WithControl(v, [v.c EXCEPT !.saved = pos])
          [] OTHER -> IF pos # None THEN run(v, "next", Op("play", pos, "FORWARD"))
                      ELSE IF w.d.state \in {"stopped", "paused"} THEN send_play_command(v) ELSE v

stop_request(w) ==
    IF ~attached(w) \/ (own(w) /\ w.c.source = "DESELECTED") THEN w
    ELSE send_stop_command(Intend(w, "STOPPING"))

pause_request(w) ==
    IF ~attached(w) \/ (own(w) /\ w.c.source = "DESELECTED") THEN w
    ELSE send_pause_command(Intend(w, "PAUSING"))

prepare_for_playing(w, pos) ==
    LET v == IF own(w) THEN w ELSE plug(unplug(stop_request(w), TRUE), "own")
    IN  play_request(plug_crawler(v, TRUE), pos)

enforce_intention(w, known) ==
    LET i == w.d.intention
    IN  CASE ~attached(w) \/ ~selected(w) -> w
          [] attached(w) /\ selected(w) /\ i = "STOPPING" /\ known # "stopped" -> send_stop_command(w)
          [] attached(w) /\ selected(w) /\ i \in {"PAUSING", "SKIPPING_PAUSED"} /\ known # "paused" ->
                 send_pause_command(w)
          [] attached(w) /\ selected(w) /\ i \in {"LISTENING", "SKIPPING_LIVE"} /\ known # "playing" ->
                 send_play_command(w)
          [] OTHER -> w

(***************************************************************************)
(* Completed crawler operations; op is what was found.                     *)
(***************************************************************************)
Found(op) == CASE op.kind = "play" -> op.pos
               [] op.kind # "play" /\ op.dir = "FORWARD"  -> op.pos + 1
               [] op.kind # "play" /\ op.dir = "BACKWARD" -> op.pos - 1

found_item_for_playing(w0, o, op) ==
    LET u == BugIf(w0, w0.c.next \notin {None, o}, "assertion")
        w == WithControl(u, [u.c EXCEPT !.next = None])
        pos == Found(op)
    IN  CASE op.canceled -> w
          [] ~op.canceled /\ op.res # "found" ->
                 LET v == skipper_reset(w)
                 IN  player_finished(WithData(v, set_intention_after_skipping(v.d)), "PLAYING", TRUE)
          [] OTHER -> run(Mark(w, "ABOUT_TO_PLAY", pos), "uris", Op("playuris", pos, op.dir))

found_item_uris_for_playing(w0, o, op) ==
    LET w == IF w0.c.uris = o THEN WithControl(w0, [w0.c EXCEPT !.uris = None]) ELSE w0
        i == w.d.intention
    IN  CASE op.canceled -> w0
          [] ~op.canceled /\ op.res # "ok" -> IF can_skip_on_error THEN skip_request(w, op.dir) ELSE w
          [] ~op.canceled /\ op.res = "ok" /\ i \in {"PAUSING", "SKIPPING_PAUSED"} ->
                 start_prefetch_next_item(queue_item_from_op(w, op.pos, "REPLACE_ALL", "PAUSE_IF_IDLE"),
                                          "ABOUT_TO_PLAY", "FORWARD", FALSE, "running")
          [] ~op.canceled /\ op.res = "ok" /\ i \in {"LISTENING", "SKIPPING_LIVE"} ->
                 queue_item_from_op(w, op.pos, "REPLACE_ALL", "PLAY_IF_IDLE")
          [] OTHER -> w

found_prefetched_item(w0, o, op) ==
    LET u == BugIf(w0, w0.c.next # o, "assertion")
        w == WithControl(u, [u.c EXCEPT !.next = None])
        pos == Found(op)
    IN  CASE op.canceled -> w0
          [] ~op.canceled /\ op.res = "found" /\ can_prefetch_for_gapless ->
                 run(Mark(w, "PREFETCH_CURSOR", pos), "uris",
                     [Op("prefetchuris", pos, op.dir) EXCEPT !.force = op.force])
          [] ~op.canceled /\ op.res = "start" /\ w.c.dir = "BACKWARD" ->
                 start_prefetch_next_item(WithControl(w, [w.c EXCEPT !.dir = "FORWARD"]),
                                          "PREFETCH_CURSOR", "FORWARD", FALSE, "delayed")
          [] ~op.canceled /\ op.res = "end" /\ w.c.dir = "FORWARD" ->
                 player_finished(w, "PREFETCHING", TRUE)
          [] OTHER -> w

found_prefetched_item_uris(w0, o, op) ==
    LET w == IF w0.c.uris = o THEN WithControl(w0, [w0.c EXCEPT !.uris = None]) ELSE w0
        i == w.d.intention
        play == IF op.force \/ i = "LISTENING" THEN "PLAY_IF_IDLE" ELSE "PAUSE_IF_IDLE"
    IN  CASE op.canceled -> w0
          [] ~op.canceled /\ op.res # "ok" ->
                 start_prefetch_next_item(w, "PREFETCH_CURSOR", op.dir, op.force, "delayed")
          [] ~op.canceled /\ op.res = "ok" /\ i \notin {"NOTHING", "STOPPING"} ->
                 start_prefetch_next_item(queue_item_from_op(w, op.pos, "APPEND", play),
                                          "PREFETCH_CURSOR", w.c.dir, FALSE,
                                          IF i = "LISTENING" THEN "delayed" ELSE "running")
          [] OTHER -> w

\* Skipper::found_or_failed() and the function it calls when it is done.  It
\* expects the operation to be the one it started; after a reset it goes on
\* with a null pointer.
found_or_failed(w0, o, op) ==
    LET w == WithControl(w0, [w0.c EXCEPT !.skip = None])
        v == Intend(w, op.prev)
        at_end == (op.res = "start" /\ op.dir = "BACKWARD") \/ (op.res = "end" /\ op.dir = "FORWARD")
        playing == v.c.marks["CURRENTLY_PLAYING"]
    IN  CASE w0.c.skip # o -> Bug(w, "null")
          [] w0.c.skip = o /\ (~attached(w) \/ ~w.c.handle) -> w
          [] w0.c.skip = o /\ attached(w) /\ w.c.handle /\ ~at_end ->
                 found_item_for_playing(WithControl(v, [cancel(v.c, v.c.next) EXCEPT !.next = None]), o, op)
          [] OTHER -> IF playing = None THEN Bug(v, "null")
                      ELSE run(v, "skip", Op("revert", playing, "NONE"))

completed(w, o, op) ==
    CASE op.kind = "play"         -> found_item_for_playing(w, o, op)
      [] op.kind = "playuris"     -> found_item_uris_for_playing(w, o, op)
      [] op.kind = "prefetch"     -> found_prefetched_item(w, o, op)
      [] op.kind = "prefetchuris" -> found_prefetched_item_uris(w, o, op)
      [] op.kind = "skip"         -> found_or_failed(w, o, op)
      [] OTHER                    -> skipper_reset(w)        \* "revert"

(***************************************************************************)
(* The stream has stopped.  What is to be done about it is returned along  *)
(* with the world.                                                         *)
(***************************************************************************)
Reaction(w, r) == [w |-> w, r |-> r]

\* is_stream_expected_playing()
is_stream_expected_playing(d, id) ==
    CASE id = None                                            -> "NONE"
      [] id # None /\ id = d.inflight                         -> "OURS_AS_EXPECTED"
      [] id # None /\ id # d.inflight /\ id = front(d)        -> "OURS_QUEUED"
      [] id \notin {None, d.inflight, front(d)} /\ d.inflight = None -> "UNEXPECTEDLY_OURS"
      [] OTHER                                                -> "OURS_WRONG_ID"

stop_notification_ok(w, id) ==
    LET expected == is_stream_expected_playing(w.d, id)
        v        == reset_retry(WithData(w, player_has_stopped(w.d)))
    IN  CASE ~attached(w) \/ ~w.c.handle -> Reaction(w, "NOT_ATTACHED")
          [] attached(w) /\ w.c.handle /\ expected = "NONE" -> Reaction(w, "STREAM_IGNORED")
          [] attached(w) /\ w.c.handle /\ expected # "NONE" /\ w.d.intention \in {"STOPPING", "NOTHING"} ->
                 Reaction(w, "STOPPED")
          [] OTHER ->
                 IF v.c.next = None /\ v.c.uris = None
                    /\ (v.d.queue = <<>> \/ expected # "OURS_WRONG_ID")
                 THEN Reaction(v, "STOPPED")
                 ELSE Reaction(send_play_command(v), "QUEUED")

\* Retry::retry()
retry(w, id) ==
    LET count == w.c.retry.count
    IN  WithControl(w, [w.c EXCEPT !.retry = [id |-> id, count |-> IF count < MAX_RETRIES THEN count + 1 ELSE count]])

\* copy_all_queued_streams_for_recovery() without the stream being replayed
OtherQueued(d, id) ==
    (IF d.inflight \in {None, id} THEN <<>> ELSE <<d.inflight>>)
    \o (IF id \in Elements(d.queue) THEN WithoutNth(d.queue, IndexOf(d.queue, id)) ELSE d.queue)

\* All of them have been taken back; the one being replayed is not sent again.
requeued(d, id) ==
    LET back == prepare_for_recovery(d, DOMAIN d.streams)
    IN  [back EXCEPT !.streams = [i \in DOMAIN @ |->
            IF i \in Elements(OtherQueued(d, id)) THEN [@[i] EXCEPT !.state = "QUEUED"] ELSE @[i]]]

\* The streams which have been taken back follow the one being replayed.
send_others_again(w, id) ==
    LET v == WithData(w, requeued(w.d, id))
    IN  IF has_proxy(w) THEN WithPlayer(v, [w.p EXCEPT !.queue = @ \o OtherQueued(w.d, id)]) ELSE v

replayed(w, id) ==
    IF w.d.inflight = None /\ w.d.queue = <<>> THEN Reaction(w, "EMPTY_QUEUE")
    ELSE Reaction(send_others_again(w, id), "OK")

\* Player::Control::replay(), called only if the stream may be tried again
replay(w, id, mode) ==
    IF id \notin DOMAIN w.d.streams THEN Reaction(w, "RETRY_FAILED_HARD")
    ELSE replayed(send_selected_file_uri_to_streamplayer(
                      WithData(w, prepare_for_recovery(w.d, {id})), id, "REPLACE_ALL", mode), id)

\* The stream is beyond repair, go on with the next one.
skip_failed_stream(w0, s, pausing) ==
    LET w == reset_retry(WithData(w0, queued_stream_remove(w0.d, s.id)))
        next == WithControl(w, [w.c EXCEPT !.marks["ABOUT_TO_PLAY"] =
                                    IF front(w.d) \in DOMAIN w.d.streams THEN w.d.streams[front(w.d)].pos ELSE @])
    IN  CASE ~can_skip_on_error -> Reaction(w, "STOPPED")
          [] can_skip_on_error /\ s.empty /\ (w.d.queue # <<>> \/ is_busy(w.c)) -> Reaction(w, "QUEUED")
          [] can_skip_on_error /\ s.empty /\ w.d.queue = <<>> /\ ~is_busy(w.c) ->
                 Reaction(start_prefetch_next_item(w, "PREFETCH_CURSOR", w.c.dir, TRUE, "running"), "TAKE_NEXT")
          [] can_skip_on_error /\ ~s.empty /\ w.d.queue = <<>> -> Reaction(Bug(w, "Out of sync"), "STOPPED")
          [] OTHER -> Reaction(IF pausing THEN send_pause_command(next) ELSE send_play_command(next), "TAKE_NEXT")

\* What has become of another try.
retried(again, s, pausing) ==
    CASE again.r = "OK"                -> Reaction(again.w, "RETRY")
      [] again.r = "RETRY_FAILED_HARD" -> Reaction(again.w, "STOPPED")
      [] OTHER                         -> skip_failed_stream(again.w, s, pausing)

\* Another try for a stream with network trouble, if there is one left.
retry_or_skip(w, s, pausing) ==
    LET tracked   == WithControl(w, [w.c EXCEPT !.retry.id = s.id])
        mode      == IF pausing THEN "PAUSE_IF_IDLE" ELSE "PLAY_IF_IDLE"
        exhausted == w.c.retry.count >= MAX_RETRIES
    IN  CASE s.err # "io.net"              -> skip_failed_stream(w, s, pausing)
          [] s.err = "io.net" /\ exhausted -> skip_failed_stream(tracked, s, pausing)
          [] OTHER                         -> retried(replay(retry(w, s.id), s.id, mode), s, pausing)

stop_notification_with_error(w, s) ==
    LET expected == IF s.err \in {"flow.nourl", "flow.stopped"} THEN "OURS_AS_EXPECTED"
                    ELSE is_stream_expected_playing(w.d, s.id)
        intention == IF expected \in {"UNEXPECTEDLY_OURS", "OURS_WRONG_ID"} THEN "STOPPING"
                     ELSE w.d.intention
    IN  CASE ~attached(w) \/ ~w.c.handle -> Reaction(w, "NOT_ATTACHED")
          [] attached(w) /\ w.c.handle /\ expected = "NONE" -> Reaction(w, "STREAM_IGNORED")
          [] attached(w) /\ w.c.handle /\ expected # "NONE" /\ intention \in {"STOPPING", "NOTHING"} ->
                 Reaction(w, "STOPPED")
          [] OTHER ->
                 IF s.err = "flow.stopped" THEN Reaction(w, "QUEUED")
                 ELSE retry_or_skip(w, s, intention \in {"PAUSING", "SKIPPING_PAUSED"})

\* What the play view makes of a reaction.
react(reaction) ==
    LET w == reaction.w
    IN  CASE reaction.r \in {"NOT_ATTACHED", "STREAM_IGNORED", "STOPPED"} ->
                 player_finished(w, "PLAYING", reaction.r = "STOPPED")
          [] reaction.r = "TAKE_NEXT" -> WithData(w, queued_stream_playing_next(w.d))
          [] OTHER -> w

(***************************************************************************)
(* Other signals of the player                                             *)
(***************************************************************************)
play_notification(w0, id, is_new_stream) ==
    LET w == WithControl(w0, [w0.c EXCEPT !.retry.id = id])
        backward == w.c.handle /\ is_new_stream /\ w.c.dir = "BACKWARD"
        v == IF backward
             THEN invalidate_prefetched_uris(WithControl(w, [w.c EXCEPT !.dir = "FORWARD"]))
             ELSE w
        moved == CASE ~(w.c.handle /\ id \in DOMAIN v.d.streams) -> {}
                   [] w.c.handle /\ id \in DOMAIN v.d.streams ->
                          (IF backward /\ has_proxy(w) THEN {"PREFETCH_CURSOR"} ELSE {})
                          \cup (IF is_new_stream THEN {"CURRENTLY_PLAYING", "ABOUT_TO_PLAY"} ELSE {})
        x == WithControl(v, [v.c EXCEPT !.marks =
                 [m \in Marks |-> IF m \in moved THEN v.d.streams[id].pos ELSE @[m]]])
    IN  IF attached(w) THEN enforce_intention(x, "playing") ELSE w

\* NOTIFY_NOW_PLAYING; the player's queue is never full.
now_playing(w, s) ==
    LET switched == w.d.now # s.id
        d == player_dropped_from_queue(w.d, s.dropped)
        v == IF switched THEN WithData(w, set_intention(player_now_playing_stream(d, s.id), "LISTENING"))
             ELSE WithData(w, d)
        x == play_notification(v, s.id, switched)
    IN  IF switched THEN start_prefetch_next_item(x, "PREFETCH_CURSOR", "FORWARD", FALSE, "delayed")
        ELSE x

\* NOTIFY_STREAM_STOPPED
stream_stopped(w, s) ==
    LET v == WithData(w, player_has_stopped(player_dropped_from_queue(w.d, s.dropped)))
    IN  react(IF s.err = "" THEN stop_notification_ok(v, s.id) ELSE stop_notification_with_error(v, s))

\* NOTIFY_STREAM_PAUSED
stream_paused(w, s) ==
    LET v == WithControl(WithData(w, [w.d EXCEPT !.state = "paused"]), [w.c EXCEPT !.retry.id = s.id])
    IN  IF attached(v) THEN enforce_intention(v, "paused") ELSE v

\* NOTIFY_STREAM_UNPAUSED
stream_unpaused(w, s) == play_notification(WithData(w, [w.d EXCEPT !.state = "playing"]), s.id, FALSE)

handle_signal(w, s) ==
    CASE s.name = "NowPlaying" -> IF s.id = None THEN w ELSE now_playing(w, s)
      [] s.name = "Stopped"    -> stream_stopped(w, s)
      [] s.name = "Paused"     -> stream_paused(w, s)
      [] s.name = "Unpaused"   -> stream_unpaused(w, s)
      [] OTHER                 -> WithData(w, player_rejected_unplayed_stream(w.d, s.id))  \* "Dropped"

(***************************************************************************)
(* Selection of audio sources                                              *)
(***************************************************************************)
\* source_selected_notification() for our source, which is plugged
source_selected(w0, on_hold) ==
    LET w == WithControl(w0, [w0.c EXCEPT !.source = IF @ = "REQUESTED" THEN "SELECTED" ELSE @,
                                          !.hold = on_hold])
        i == w.d.intention
        v == WithControl(w, [w.c EXCEPT !.saved = None])
    IN  CASE ~on_hold /\ i = "LISTENING" -> play_request(v, w.c.saved)
          [] ~on_hold /\ i = "STOPPING"  -> stop_request(w)
          [] ~on_hold /\ i = "PAUSING"   -> pause_request(w)
          [] OTHER -> w

\* AUDIO_SOURCE_SELECTED while our source is not plugged
fresh_activation(w0) ==
    LET w == IF attached(w0) THEN unplug(w0, TRUE) ELSE w0
    IN  source_selected(plug(WithControl(w, [w.c EXCEPT !.source = "SELECTED"]), "own"), FALSE)

\* do_deselect_audio_source() for our source
do_deselect(w, send_stop) ==
    LET v == IF send_stop THEN send_stop_command(w) ELSE w
    IN  WithControl(v, [v.c EXCEPT !.saved = None, !.source = "DESELECTED", !.hold = FALSE])

\* handle_audio_path_changed() for another audio source, or for none at all
audio_path_changed(w0, who) ==
    LET w == unplug(IF own(w0) THEN do_deselect(w0, FALSE) ELSE w0, TRUE)
    IN  IF who = "none" THEN w ELSE plug_crawler(plug(w, who), FALSE)

-----------------------------------------------------------------------------
(***************************************************************************)
(* Steps                                                                   *)
(***************************************************************************)
\* The program dies from the use of a null pointer.  A failed assertion ends
\* the behavior as well: the code is not meant to go on from there.
Alive == ctl.bugs \cap {"null", "assertion", "assertion: stream has been sent"} = {}

\* Bounds: there are IDs and identities for what a handler may need.
Room == FreeIds(World) # {} /\ Cardinality({o \in OpIds : ctl.ops[o] = NoOp}) >= 2

Become(w) == data' = w.d /\ ctl' = w.c /\ player' = w.p

Command(c) ==
    /\ Alive /\ Room
    /\ c \in Commands /\ budget.commands > 0
    /\ budget' = [budget EXCEPT !.commands = @ - 1]

Wanted(i) == goal' = IF data'.intention = i THEN i ELSE goal

Play(pos) ==
    /\ Command("play")
    /\ Become(prepare_for_playing(World, pos))
    /\ Wanted("LISTENING")

StartCommand ==
    /\ Command("start")
    /\ \/ /\ data.state = "playing"
          /\ Become(pause_request(World))
          /\ Wanted("PAUSING")
       \/ /\ data.state # "playing"
          /\ Become(play_request(World, None))
          /\ Wanted("LISTENING")

StopCommand ==
    /\ Command("stop")
    /\ Become(stop_request(World))
    /\ Wanted("STOPPING")

PauseCommand ==
    /\ Command("pause")
    /\ Become(pause_request(World))
    /\ Wanted("PAUSING")

NextCommand ==
    /\ Command("next")
    /\ Become(skip_forward_request(World))
    /\ UNCHANGED goal

\* The player goes back within the stream if that has been playing for a while.
PreviousCommand ==
    /\ Command("previous")
    /\ \/ Become(skip_backward_request(World))
       \/ /\ data.intention \in {"PAUSING", "LISTENING"}
          /\ Become(rewind_request(World))
    /\ UNCHANGED goal

WindCommand ==
    /\ Command("wind")
    /\ Become(fast_wind_set_speed_request(World))
    /\ UNCHANGED goal

Deliver ==
    /\ Alive /\ Room
    /\ player.sig # <<>>
    /\ Become(handle_signal(WithPlayer(World, [player EXCEPT !.sig = Tail(@)]), Head(player.sig)))
    /\ UNCHANGED <<budget, goal>>

Faulty(f) == f \in Faults /\ budget.faults > 0 /\ budget' = [budget EXCEPT !.faults = @ - 1]

\* The three seconds of a delayed operation have passed; no signal takes that
\* long to arrive.
OpStart(o) ==
    /\ Alive /\ player.sig = <<>>
    /\ ctl.ops[o] # NoOp /\ ctl.ops[o].st = "delayed"
    /\ ctl' = [World.c EXCEPT !.ops[o].st = "running"]
    /\ UNCHANGED <<data, player, budget, goal>>

Outcome(op) ==
    CASE op.kind \in {"playuris", "prefetchuris"} -> "ok"
      [] op.kind \in {"play", "revert"}           -> "found"
      [] op.kind \in {"prefetch", "skip"} /\ op.dir = "FORWARD"  -> IF op.pos = Last THEN "end" ELSE "found"
      [] op.kind \in {"prefetch", "skip"} /\ op.dir = "BACKWARD" -> IF op.pos = 1 THEN "start" ELSE "found"

OpFinish(o) ==
    /\ Alive
    /\ ctl.ops[o] # NoOp /\ ctl.ops[o].st = "running"
    /\ \E res \in OpResults :
          /\ ctl' = [World.c EXCEPT !.ops[o].st = "done", !.ops[o].res = res, !.done = Append(@, o)]
          /\ \/ res = Outcome(ctl.ops[o]) /\ UNCHANGED budget
             \/ res = "failed" /\ ctl.ops[o].kind \in {"play", "prefetch", "skip"} /\ Faulty("find")
             \/ res = "no_uris" /\ ctl.ops[o].kind \in {"playuris", "prefetchuris"} /\ Faulty("uris")
    /\ UNCHANGED <<data, player, goal>>

\* VIEWMAN_CRAWLER_OP_COMPLETED
OpCompleted ==
    /\ Alive /\ Room
    /\ ctl.done # <<>>
    /\ LET o == Head(ctl.done)
       IN  Become(completed(WithControl(World, [World.c EXCEPT !.ops[o] = NoOp, !.done = Tail(@)]),
                            o, ctl.ops[o]))
    /\ UNCHANGED <<budget, goal>>

CanceledOpLeaves ==
    /\ Alive
    /\ \E st \in ctl.dead : ctl' = [World.c EXCEPT !.dead = @ \ {st}]
    /\ UNCHANGED <<data, player, budget, goal>>

SourceSelected ==
    /\ Alive /\ Room
    /\ ctl.plugged = "own" /\ (ctl.source = "REQUESTED" \/ ctl.hold)
    /\ \E on_hold \in {FALSE} \cup (IF "hold" \in Faults THEN {~ctl.hold} ELSE {}) :
          Become(source_selected(World, on_hold))
    /\ UNCHANGED <<budget, goal>>

FreshActivation ==
    /\ Alive /\ Room
    /\ ctl.plugged # "own" /\ Faulty("select")
    /\ Become(fresh_activation(World))
    /\ UNCHANGED goal

SourceDeselected ==
    /\ Alive /\ Room
    /\ ctl.plugged = "own" /\ ctl.source # "DESELECTED" /\ Faulty("deselect")
    /\ Become(do_deselect(World, TRUE))
    /\ UNCHANGED goal

AudioPathChanged ==
    /\ Alive /\ Room
    /\ \E who \in {"external", "none"} :
          /\ ctl.plugged # who
          /\ Faulty(IF who = "none" THEN "shutdown" ELSE "taken")
          /\ Become(audio_path_changed(World, who))
    /\ UNCHANGED goal

ListLost ==
    /\ Alive /\ Room
    /\ ctl.plugged = "own" /\ Faulty("lost")
    /\ Become(unplug(World, FALSE))
    /\ UNCHANGED goal

PlayerStep ==
    /\ Alive /\ Len(player.sig) < MaxSignals
    /\ \/ CanAnnounce(player) /\ player' = Announce(player) /\ UNCHANGED budget
       \/ CanEnd(player) /\ player' = EndOfStream(player) /\ UNCHANGED budget
       \/ /\ CanFail(player) /\ Faulty("stream")
          /\ \E err \in {"io.net", "io.media"} : player' = Fail(player, err)
       \/ /\ Faulty("early")
          /\ \E id \in Elements(player.queue) : player' = DropEarly(player, id)
    /\ ctl' = World.c
    /\ UNCHANGED <<data, goal>>

Init ==
    /\ data = IdleData /\ ctl = IdleControl /\ player = IdlePlayer
    /\ budget = [commands |-> MaxCommands, faults |-> MaxFaults]
    /\ goal = "NOTHING"

Next ==
    \/ \E pos \in Positions : Play(pos)
    \/ StartCommand \/ StopCommand \/ PauseCommand
    \/ NextCommand \/ PreviousCommand \/ WindCommand
    \/ Deliver
    \/ \E o \in OpIds : OpStart(o) \/ OpFinish(o)
    \/ OpCompleted \/ CanceledOpLeaves
    \/ SourceSelected \/ FreshActivation \/ SourceDeselected \/ AudioPathChanged \/ ListLost
    \/ PlayerStep

Spec == Init /\ [][Next]_vars

-----------------------------------------------------------------------------
(* All parts of the state have their types. *)
TypeOK ==
    /\ data \in PlayerDatas /\ ctl \in Controls /\ player \in StreamPlayers
    /\ budget \in [commands : 0 .. MaxCommands, faults : 0 .. MaxFaults]
    /\ goal \in {"NOTHING", "LISTENING", "PAUSING", "STOPPING"}

(* The queue's own consistency check never fails: the mirror has exactly    *)
(* one description for each stream that is queued or in flight, and no      *)
(* stream is there twice (QueuedStreams::log()).                            *)
QueueConsistent == Consistent(data)

(* The mirror has no phantoms in its queue: the stream player knows of each *)
(* queued stream, or it has already told what became of it by a signal that *)
(* is still under way.  A phantom would never be removed from the mirror,   *)
(* and keep streams from being prefetched.                                  *)
NoPhantoms ==
    has_proxy(World) =>
        Elements(data.queue) \subseteq Elements(player.queue) \cup {player.cur, player.said}
                                          \cup SignalIds(player)

(* While the skipper looks for an item, no other operation tries to put a   *)
(* stream into the queue, neither by finding an item nor by fetching URIs.  *)
SkipAlone == ctl.skip # None => ctl.next = None /\ ctl.uris = None

(* A pointer to an operation is to an operation which the crawler still     *)
(* has, of a kind whose completion function knows about that pointer.       *)
OwnedOperations ==
    /\ ctl.skip # None => ctl.ops[ctl.skip] # NoOp /\ ctl.ops[ctl.skip].kind \in {"skip", "revert"}
    /\ ctl.next # None => ctl.ops[ctl.next] # NoOp /\ ctl.ops[ctl.next].kind \in {"play", "prefetch"}
    /\ ctl.uris # None => ctl.ops[ctl.uris] # NoOp /\ ctl.ops[ctl.uris].kind \in {"playuris", "prefetchuris"}

(* When another source has taken over, or nothing is plugged, there are no  *)
(* streams of ours in the mirror, and there is no crawler operation whose   *)
(* completion could push a stream into the other source's playback.         *)
NothingLeftBehind ==
    ctl.plugged # "own" => DOMAIN data.streams = {} /\ ctl.ops = [o \in OpIds |-> NoOp]

(* The operations of the crawler are all accounted for: one skips alone, a  *)
(* pointer knows its operation, and none outlives the control's being       *)
(* plugged.                                                                 *)
OperationsAccounted == SkipAlone /\ OwnedOperations /\ NothingLeftBehind

(* When control has been given up, by the user, by the end of the list, or  *)
(* by the loss of it, the mirror is empty, whatever the stream player still *)
(* does and reports.                                                        *)
NoStreamsWithoutIntention == data.intention = "NOTHING" => DOMAIN data.streams = {}

(* No list is kept for streams that are gone: there are at most as many     *)
(* references to the list as there are streams from it.                     *)
NoListLeak == data.refs <= Cardinality(DOMAIN data.streams)

(* The streams in the mirror are all accounted for: the player has or has   *)
(* had each one queued, none is sent twice unless it is to be recovered,    *)
(* they exist only while the user wants something, and no list outlives     *)
(* them.                                                                    *)
StreamsAccounted ==
    /\ TypeOK /\ NoPhantoms /\ NoStreamsWithoutIntention /\ NoListLeak
    /\ "assertion: stream has been sent" \notin ctl.bugs

(* Streams never overtake each other in the mirror: when some stream stays  *)
(* in the queue, those before it have been before it already.               *)
QueueOrder ==
    [][\A i, j \in DOMAIN data'.queue :
           i < j /\ data'.queue[j] \in Elements(data.queue) =>
               /\ data'.queue[i] \in Elements(data.queue)
               /\ IndexOf(data.queue, data'.queue[i]) < IndexOf(data.queue, data'.queue[j])]_vars

(* A stream is in flight only if it has been queued, whatever IDs are in    *)
(* the signals from the player.                                             *)
PlayedFromQueue ==
    [][data'.inflight \notin {None, data.inflight} => data'.inflight \in Elements(data.queue)]_vars

-----------------------------------------------------------------------------
\* Nothing is under way that could still change what the player does.
Quiet ==
    /\ ctl.ops = [o \in OpIds |-> NoOp] /\ ctl.dead = {}
    /\ player.sig = <<>> /\ Announced(player)
    /\ ~(ctl.plugged = "own" /\ (ctl.source = "REQUESTED" \/ ctl.hold))

(* When the last thing the user asked for, and which was accepted, was a    *)
(* pause, then the player does not play when everything has come to rest    *)
(* (UserIntention: the stream state should follow the user's intention).    *)
PauseHolds == Quiet /\ goal = "PAUSING" => player.st # "playing"
=============================================================================
