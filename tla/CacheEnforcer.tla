---------------------------- MODULE CacheEnforcer ----------------------------
(***************************************************************************)
(* Keeping the list a playlist started in alive.  While a crawler is       *)
(* active, its enforcer object asks the list broker again and again to     *)
(* keep the list of the reference point in its cache.  The object is the   *)
(* user data of a timer and of an asynchronous D-Bus call, so that it must *)
(* outlive whichever is outstanding when the crawler lets go of it: it     *)
(* then owns itself, and the callback still to come destroys it.           *)
(*                                                                         *)
(* Everything runs on the main thread.  The list broker handles messages   *)
(* in the order they have been sent and may drop a list at any time, with  *)
(* or without a replacement.  An enforcer is a member of Enforcers; the    *)
(* name of a destroyed one is free for a new object.                       *)
(***************************************************************************)
EXTENDS Integers, Sequences

CONSTANTS
    Enforcers,
    Lists,
    Null,
    Expiries,    \* ms until the broker drops a list unless asked again
    MaxMessages  \* bound: messages to the broker not yet handled

ASSUME EnforcerNames  == Null \notin Enforcers /\ Null \notin Lists
ASSUME NumbersAssumption == Expiries \subseteq Nat \ {0} /\ MaxMessages \in Nat \ {0}

VARIABLES
    phase,      \* per enforcer: state_, "NONE" (no object), "CREATED", "STARTED", "STOPPED"
    list,       \* per enforcer: list_id_
    self,       \* per enforcer: pointer_to_self_ # nullptr
    timer,      \* per enforcer: seconds its timer has been set to, 0 if none is
    call,       \* per enforcer: its D-Bus call, "none", "sent", "failed", or the expiry granted
    granted,    \* per enforcer: what the broker granted last, in ms
    owner,      \* DirectoryCrawler::cache_enforcer_
    reference,  \* the list of reference_point_, Null if there is none or its list is gone
    messages,   \* to the list broker, in order
    alive,      \* lists the list broker knows
    forced      \* lists it keeps in its cache because it has been asked to

objects == <<phase, list, self, timer, call, granted>>
enforcer_vars    == <<objects, owner, reference, messages, alive, forced>>

ForceInCache(l, e) == [list |-> l, keep |-> TRUE, from |-> e]
Forget(l)   == [list |-> l, keep |-> FALSE, from |-> Null]

EnforcerTypeOK ==
    /\ phase \in [Enforcers -> {"NONE", "CREATED", "STARTED", "STOPPED"}]
    /\ list \in [Enforcers -> Lists \cup {Null}]
    /\ self \in [Enforcers -> BOOLEAN]
    /\ timer \in [Enforcers -> Nat]
    /\ call \in [Enforcers -> {"none", "sent", "failed", "granted"}]
    /\ granted \in [Enforcers -> Nat]
    /\ owner \in Enforcers \cup {Null}
    /\ reference \in Lists \cup {Null}
    /\ alive \subseteq Lists /\ forced \subseteq Lists
    /\ messages \in Seq([list: Lists, keep: BOOLEAN, from: Enforcers \cup {Null}])

EnforcerInit ==
    /\ phase = [e \in Enforcers |-> "NONE"]
    /\ list = [e \in Enforcers |-> Null]
    /\ self = [e \in Enforcers |-> FALSE]
    /\ timer = [e \in Enforcers |-> 0]
    /\ call = [e \in Enforcers |-> "none"]
    /\ granted = [e \in Enforcers |-> 0]
    /\ owner = Null /\ reference = Null
    /\ messages = <<>> /\ forced = {} /\ alive = Lists

-----------------------------------------------------------------------------
(* The enforcer. *)

\* compute_enforcer_refresh_seconds(), with its constants
MaximumSeconds    == 30 * 60
MaximumDifference == 42 * 1000

RefreshSeconds_ignores_margin(timeout_ms) == timeout_ms \div 1000

RefreshSeconds(timeout_ms) ==
    LET t_ms    == (timeout_ms * 80) \div 100
        seconds == t_ms \div 1000
    IN  IF seconds > 0 /\ seconds <= MaximumSeconds
        THEN IF t_ms + MaximumDifference >= timeout_ms
             THEN seconds
             ELSE IF (timeout_ms - MaximumDifference) \div 1000 = 0
                  THEN 1 ELSE MaximumSeconds
        ELSE IF seconds = 0 THEN 1 ELSE MaximumSeconds

\* An object after its callback has returned in state STOPPED: it is gone if
\* it owned itself, and else the crawler still has it.
Released_never(e) == "STOPPED"
Released(e) == IF self[e] THEN "NONE" ELSE "STOPPED"

\* stop(): what becomes of the object the crawler hands over
AfterStop_destroyed(e)   == "NONE"
AfterStop(e)    == IF phase[e] = "STARTED" THEN "STOPPED" ELSE "NONE"
KeepsItself_never(e)     == FALSE
KeepsItself(e)  == phase[e] = "STARTED"

\* The messages sent by stop(), and by start() of a new enforcer
StopMessages_none(remove_override) == <<>>
StopMessages(remove_override) ==
    IF owner # Null /\ remove_override THEN <<Forget(list[owner])>> ELSE <<>>

\* start_cache_enforcer(), which stops the old enforcer with the given flag
\* before a new one sends its first request from process_timer().
Replace(e, l, remove_override) ==
    /\ phase[e] = "NONE"
    /\ phase' = [x \in Enforcers |-> IF x = e THEN "STARTED"
                                     ELSE IF x = owner THEN AfterStop(x) ELSE phase[x]]
    /\ self' = [x \in Enforcers |-> IF x = e THEN FALSE
                                    ELSE IF x = owner THEN KeepsItself(x) ELSE self[x]]
    /\ list' = [list EXCEPT ![e] = l]
    /\ timer' = [timer EXCEPT ![e] = 0]
    /\ call' = [call EXCEPT ![e] = "sent"]
    /\ granted' = [granted EXCEPT ![e] = 0]
    /\ owner' = e
    /\ messages' = messages \o StopMessages(remove_override) \o <<ForceInCache(l, e)>>

\* stop_cache_enforcer()
Stop(remove_override) ==
    /\ owner # Null
    /\ phase' = [phase EXCEPT ![owner] = AfterStop(owner)]
    /\ self' = [self EXCEPT ![owner] = KeepsItself(owner)]
    /\ messages' = messages \o StopMessages(remove_override)
    /\ owner' = Null
    /\ UNCHANGED <<list, timer, call, granted>>

\* process_timer(), a refresh; there always is a D-Bus proxy
TimerExpires(e) ==
    /\ timer[e] > 0
    /\ timer' = [timer EXCEPT ![e] = 0]
    /\ \/ /\ phase[e] = "STARTED"
          /\ call' = [call EXCEPT ![e] = "sent"]
          /\ messages' = Append(messages, ForceInCache(list[e], e))
          /\ UNCHANGED <<phase, self>>
       \/ /\ phase[e] = "STOPPED"
          /\ phase' = [phase EXCEPT ![e] = Released(e)]
          /\ self' = [self EXCEPT ![e] = FALSE]
          /\ UNCHANGED <<call, messages>>
    /\ UNCHANGED <<list, granted, owner, reference, alive, forced>>

\* process_dbus(): the answer to the enforcer's request
AnswerArrives(e) ==
    /\ call[e] \in {"granted", "failed"}
    /\ call' = [call EXCEPT ![e] = "none"]
    /\ \/ /\ call[e] = "granted" /\ phase[e] = "STARTED"
          /\ timer' = [timer EXCEPT ![e] = RefreshSeconds(granted[e])]
          /\ UNCHANGED <<phase, self>>
       \/ /\ call[e] = "failed" \/ phase[e] = "STOPPED"
          /\ phase' = [phase EXCEPT ![e] = Released(e)]
          /\ self' = [self EXCEPT ![e] = FALSE]
          /\ UNCHANGED timer
    /\ UNCHANGED <<list, granted, owner, reference, messages, alive, forced>>

-----------------------------------------------------------------------------
(* The crawler. *)

\* activate() or set_reference_point(), on a crawler without reference point
ActivateEnforced(e, l) ==
    /\ reference = Null /\ Len(messages) < MaxMessages
    /\ l \in alive
    /\ reference' = l
    /\ Replace(e, l, TRUE)
    /\ UNCHANGED <<alive, forced>>

\* deactivate() and deactivated()
DeactivateEnforced ==
    /\ reference # Null /\ Len(messages) < MaxMessages
    /\ reference' = Null
    /\ \/ Stop(TRUE)
       \/ owner = Null /\ UNCHANGED <<objects, owner, messages>>
    /\ UNCHANGED <<alive, forced>>

\* DirectoryCrawler::list_invalidate(), on the broker's signal that the list
\* of the reference point is gone.  There is an enforcer for the new list
\* unless the old one has given up before.  A reference point whose list is
\* gone for good is given up by the player.
Restarts(replacement) == phase[owner] # "STOPPED" /\ replacement # Null
ListInvalidate_reference_only(e, l, replacement) ==
    /\ l = reference /\ l \in alive /\ replacement \in (alive \ {l}) \cup {Null}
    /\ alive' = alive \ {l}
    /\ forced' = forced \ {l}
    /\ reference' = replacement
    /\ UNCHANGED <<objects, owner, messages>>
ListInvalidate(e, l, replacement) ==
    /\ l = reference /\ Len(messages) < MaxMessages
    /\ l \in alive /\ replacement \in (alive \ {l}) \cup {Null}
    /\ alive' = alive \ {l}
    /\ forced' = forced \ {l}
    /\ reference' = replacement
    /\ \/ /\ owner # Null /\ Restarts(replacement)
          /\ Replace(e, replacement, FALSE)
       \/ /\ owner # Null /\ ~Restarts(replacement)
          /\ Stop(FALSE)
       \/ owner = Null /\ UNCHANGED <<objects, owner, messages>>

-----------------------------------------------------------------------------
(* The list broker. *)

\* A list may come back under its ID, after the program has let go of it.
Revive(l) ==
    /\ l \notin alive
    /\ \A e \in Enforcers : list[e] = l => phase[e] = "NONE"
    /\ \A i \in DOMAIN messages : messages[i].list # l
    /\ alive' = alive \cup {l}
    /\ UNCHANGED <<objects, owner, reference, messages, forced>>

\* Requests and the answers to them; nobody waits for the answer to a Forget.
HandleMessage ==
    /\ messages # <<>>
    /\ messages' = Tail(messages)
    /\ LET m == Head(messages) IN
       \/ /\ m.keep /\ m.list \in alive
          /\ forced' = forced \cup {m.list}
          /\ \E ms \in Expiries : granted' = [granted EXCEPT ![m.from] = ms]
          /\ call' = [call EXCEPT ![m.from] = "granted"]
       \/ /\ m.keep
          /\ call' = [call EXCEPT ![m.from] = "failed"]
          /\ UNCHANGED <<forced, granted>>
       \/ /\ ~m.keep
          /\ forced' = forced \ {m.list}
          /\ UNCHANGED <<call, granted>>
    /\ UNCHANGED <<phase, list, self, timer, owner, reference, alive>>

EnforcerNext ==
    \/ \E e \in Enforcers, l \in Lists : ActivateEnforced(e, l)
    \/ DeactivateEnforced
    \/ \E e \in Enforcers, l \in Lists, r \in Lists \cup {Null} : ListInvalidate(e, l, r)
    \/ \E l \in Lists : Revive(l)
    \/ HandleMessage
    \/ \E e \in Enforcers : AnswerArrives(e)
    \/ \E e \in Enforcers : TimerExpires(e)

EnforcerSpec == EnforcerInit /\ [][EnforcerNext]_enforcer_vars

\* The broker answers every call, or the D-Bus library does in its stead
\* after a timeout, and the main loop runs timers and callbacks.
Fairness ==
    /\ WF_enforcer_vars(HandleMessage)
    /\ \A e \in Enforcers : WF_enforcer_vars(AnswerArrives(e)) /\ WF_enforcer_vars(TimerExpires(e))

FairSpec == EnforcerSpec /\ Fairness

-----------------------------------------------------------------------------
(* Properties. *)

Outstanding(e) == timer[e] > 0 \/ call[e] # "none"

\* A timer or a D-Bus call whose callback will use an enforcer is never left
\* behind by the enforcer (cacheenforcer.cc, stop()), and there is only one of
\* them at a time.
CallbackHasObject ==
    \A e \in Enforcers :
        /\ Outstanding(e) => phase[e] # "NONE"
        /\ ~(timer[e] > 0 /\ call[e] # "none")

\* An object which the crawler has let go of owns itself, and there is a
\* callback under way which will release it; an object the crawler still has
\* does not own itself, and is working unless it has given up.
OrphansAreReachable ==
    \A e \in Enforcers : phase[e] # "NONE" =>
        IF e = owner
        THEN ~self[e] /\ (Outstanding(e) <=> phase[e] = "STARTED")
        ELSE self[e] /\ Outstanding(e) /\ phase[e] = "STOPPED"

\* The crawler has the list broker keep the list its reference point is in,
\* and no other; it has an enforcer only while it has a reference point.
EnforcesReference == owner # Null => list[owner] = reference /\ reference # Null

Asked(l) == \E i \in DOMAIN messages :
                /\ messages[i].list = l /\ messages[i].keep
                /\ \A j \in DOMAIN messages : j > i /\ messages[j].list = l => messages[j].keep
LetGo(l) == \E i \in DOMAIN messages :
                /\ messages[i].list = l /\ ~messages[i].keep
                /\ \A j \in DOMAIN messages : j > i /\ messages[j].list = l => ~messages[j].keep

\* As long as the enforcer has not been told otherwise the list is kept, or
\* about to be; a list nobody enforces is not kept, or about to be let go.  A
\* request for an old enforcer that is overtaken by its successor's for the
\* same list must not undo it.
KeptIffEnforced ==
    \A l \in Lists :
        /\ (owner # Null /\ list[owner] = l /\ l \in alive /\ phase[owner] = "STARTED"
            /\ call[owner] # "failed") => Asked(l) \/ (l \in forced /\ ~LetGo(l))
        /\ (l \in forced /\ (owner = Null \/ list[owner] # l)) => LetGo(l)

\* Enforcers are all accounted for, with their callbacks and the lists they keep.
EnforcersAccounted ==
    EnforcerTypeOK /\ CallbackHasObject /\ OrphansAreReachable /\ EnforcesReference /\ KeptIffEnforced

\* The broker is asked again before it drops the list.  That is what the
\* difference of at most 42 seconds to the timeout is for.
RefreshBeforeExpiry ==
    \A e \in Enforcers : timer[e] > 0 => timer[e] * 1000 < granted[e]

\* An enforcer which has been stopped is destroyed in the end.
OrphansEnd == \A e \in Enforcers : (phase[e] # "NONE" /\ owner # e) ~> phase[e] = "NONE"
=============================================================================
