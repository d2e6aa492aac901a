---------------------------- MODULE StreamPlayer ----------------------------
(***************************************************************************)
(* The stream player as seen over D-Bus: a process of its own with a URL   *)
(* FIFO.  Its methods are called synchronously and return what the caller  *)
(* looks at; what it plays, it announces by signals, which arrive later    *)
(* and in order.  None of this is code of the repository: it is derived    *)
(* from the calls made by Player::Control and from the signal handlers.    *)
(*                                                                         *)
(* "cur" is the stream the player has taken out of its FIFO, "said" the    *)
(* last one announced by NowPlaying.                                       *)
(***************************************************************************)
EXTENDS PlayerData

Errors == {"io.net", "io.media", "flow.nourl", "flow.stopped"}

\* A signal.  "Stopped" with an error is the signal StoppedWithError.
Signals ==
    [name    : {"NowPlaying", "Unpaused", "Paused", "Stopped", "Dropped"},
     id      : StreamIds \cup {None},
     dropped : SUBSET StreamIds,
     err     : Errors \cup {""},
     empty   : BOOLEAN]

StreamPlayers ==
    [st : PlayerStates, cur : StreamIds \cup {None}, said : StreamIds \cup {None},
     queue : Seq(StreamIds), sig : Seq(Signals)]

IdlePlayer == [st |-> "stopped", cur |-> None, said |-> None, queue |-> <<>>, sig |-> <<>>]

Signal(name, id) ==
    [name |-> name, id |-> id, dropped |-> {}, err |-> "", empty |-> TRUE]
StopSignal(id, dropped) == [Signal("Stopped", id) EXCEPT !.dropped = dropped]
ErrorSignal(id, err, empty) == [Signal("Stopped", id) EXCEPT !.err = err, !.empty = empty]

Emit(p, s)   == [p EXCEPT !.sig = Append(@, s)]
Announced(p) == p.cur = p.said
Unheard(p)   == IF Announced(p) THEN {} ELSE OnlyId(p.cur)

\* The next stream from the FIFO, which has not been announced yet.
TakeNext(p, st) == [p EXCEPT !.st = st, !.cur = Head(p.queue), !.queue = Tail(@)]

(***************************************************************************)
(* Methods                                                                 *)
(***************************************************************************)
Start(p) ==
    CASE p.st = "stopped" /\ p.queue = <<>>  -> Emit(p, ErrorSignal(None, "flow.nourl", TRUE))
      [] p.st = "stopped" /\ p.queue # <<>>  -> TakeNext(p, "playing")
      [] p.st = "paused" /\ Announced(p)     -> Emit([p EXCEPT !.st = "playing"], Signal("Unpaused", p.cur))
      [] p.st = "paused" /\ ~Announced(p)    -> [p EXCEPT !.st = "playing"]
      [] p.st = "playing"                    -> p

Pause(p) ==
    CASE p.st = "stopped" /\ p.queue # <<>>  -> TakeNext(p, "paused")
      [] p.st = "playing" /\ Announced(p)    -> Emit([p EXCEPT !.st = "paused"], Signal("Paused", p.cur))
      [] p.st = "playing" /\ ~Announced(p)   -> [p EXCEPT !.st = "paused"]
      [] OTHER                               -> p

Stop(p) ==
    IF p.st = "stopped" THEN Emit(p, ErrorSignal(None, "flow.stopped", p.queue = <<>>))
    ELSE Emit([p EXCEPT !.st = "stopped", !.cur = None, !.said = None, !.queue = <<>>],
              StopSignal(p.said, Elements(p.queue) \cup Unheard(p)))

SkipToNext(p) == IF p.st # "stopped" /\ p.queue # <<>> THEN TakeNext(p, p.st) ELSE p

\* Clear(keep_first_n = 0): the returned IDs are those of the dropped streams.
Clear(p) == [player |-> [p EXCEPT !.queue = <<>>], dropped |-> Elements(p.queue)]

\* Push(keep_first_n = -1)
PushBack(p, id) ==
    [player |-> [p EXCEPT !.queue = Append(@, id)], dropped |-> {}, is_playing |-> p.st = "playing"]

\* Push(keep_first_n = -2): whatever is played is replaced as well.
PushReplacing(p, id) ==
    [player     |-> IF p.st = "stopped" THEN [p EXCEPT !.queue = <<id>>]
                    ELSE [p EXCEPT !.cur = id, !.queue = <<>>],
     dropped    |-> Elements(p.queue) \cup Unheard(p),
     is_playing |-> p.st = "playing"]

(***************************************************************************)
(* What it does of its own accord                                          *)
(***************************************************************************)
CanAnnounce(p) == p.st # "stopped" /\ ~Announced(p)
Announce(p) ==
    Emit(Emit([p EXCEPT !.said = p.cur], Signal("NowPlaying", p.cur)),
         Signal(IF p.st = "playing" THEN "Unpaused" ELSE "Paused", p.cur))

CanEnd(p) == p.st = "playing" /\ Announced(p)
EndOfStream(p) ==
    IF p.queue # <<>> THEN TakeNext(p, "playing")
    ELSE Emit([p EXCEPT !.st = "stopped", !.cur = None, !.said = None], StopSignal(p.cur, {}))

CanFail(p) == p.st # "stopped"
Fail(p, err) ==
    Emit([p EXCEPT !.st = "stopped", !.cur = None, !.said = None],
         ErrorSignal(p.cur, err, p.queue = <<>>))

\* A queued stream turns out to be unplayable before its turn.
DropEarly(p, id) ==
    Emit([p EXCEPT !.queue = WithoutNth(@, IndexOf(@, id))], Signal("Dropped", id))
=============================================================================
