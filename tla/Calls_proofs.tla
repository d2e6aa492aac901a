---------------------------- MODULE Calls_proofs ----------------------------
(***************************************************************************)
(* Calls to list brokers are told, fetched, and destroyed in the end, for  *)
(* any number of calls of each kind, and any number of them under way.     *)
(*                                                                         *)
(* The argument follows the cookie of a call: it is at the list broker, in *)
(* a signal, with the D-Bus thread, or in the queue of UI events, and it   *)
(* is in one of these places only.  The tables of pending cookies hold a   *)
(* call just as long as its cookie is on its way, so that no call is       *)
(* destroyed before, no signal finds the tables empty, and no signal for   *)
(* one call is taken for that of its successor by the same name.           *)
(***************************************************************************)
EXTENDS CookieCalls, AsyncCalls, FiniteSetTheorems, SequenceTheorems, TLAPS

Live == {c \in Calls : state[c] # "NONE"}

-----------------------------------------------------------------------------
(* Where the cookie of a call is.                                          *)

InSignals(c) == \E i \in DOMAIN signals : signals[i].call = c
InQueue(c)   == \E i \in DOMAIN queue_ : queue_[i] = c
AtDBus(c)    == dbus.at \in {"notify", "post"} /\ dbus.call = c

\* The D-Bus thread has not been told yet, or it has.
OnItsWay(c)  == broker[c] = "pending" \/ InSignals(c)
Told(c)      == AtDBus(c) \/ InQueue(c)

Requesting(c) == MainAt("requesting") /\ main.call = c

\* A call has one signal at a time, and one event.
OneSignal == \A i, j \in DOMAIN signals : signals[i].call = signals[j].call => i = j
OneEvent  == \A i, j \in DOMAIN queue_ : queue_[i] = queue_[j] /\ queue_[i] # User => i = j

-----------------------------------------------------------------------------
(* The inductive invariant.                                                *)

\* What the main thread is doing, it does with a call that exists, or does not exist yet.
MainOK ==
    /\ main.at = "idle" => main.call = None /\ main.then = "idle"
    /\ main.at \in {"events", "input"} => main.call = None /\ main.then = "events"
    /\ main.at \in {"cancel", "abort"} /\ main.call # None =>
          main.call \in Root \cup Child /\ main.call \notin Live
    /\ main.at = "abort" => slot # None /\ cleared[slot]
    /\ main.at = "request" => /\ main.call \in Calls /\ main.call \notin Live
                              /\ main.call \notin Blocking => slot = None
    /\ main.at \in {"requesting", "waiting", "finish", "drop"} =>
          main.call \in Calls /\ main.call \in Live
    /\ main.at = "requesting" => /\ state[main.call] = "INITIALIZED"
                                 /\ main.call \notin Blocking => slot = main.call
    /\ main.at = "waiting" => main.call \in Blocking
    /\ main.at = "finish" => state[main.call] # "WAIT_FOR_NOTIFICATION"
    /\ main.at = "drop" => state[main.call] \notin Active
    /\ main.at \in {"finish", "drop"} /\ main.call \notin Blocking =>
          main.call \notin fetch_functions

\* Calls exist as long as somebody has them.
OwnedOK ==
    /\ slot # None => slot \in Live
    /\ zombies \subseteq Live
    /\ \A c \in Live : \/ c = slot \/ c \in zombies \cup fetch_functions
                       \/ main.at \in {"requesting", "waiting", "finish", "drop"} /\ main.call = c

\* The list broker knows the calls which exist, and those it has replied to by a cookie.
BrokerOK ==
    \A c \in Calls :
        /\ broker[c] = "none" <=> c \notin Live
        /\ broker[c] = "asked" => Requesting(c)
        /\ c \in fetch_functions \/ has_cookie[c] \/ cleared[c] =>
              broker[c] \in {"pending", "signalled"}
        /\ Requesting(c) /\ broker[c] = "signalled" => InSignals(c)

\* A cookie is in one place, and in the tables until it has got there.
SignalsOK ==
    /\ \A c \in Calls :
          /\ InSignals(c) => broker[c] = "signalled" /\ ~Told(c)
          /\ AtDBus(c) => ~InQueue(c)
          /\ Told(c) => broker[c] = "signalled" /\ c \in fetch_functions
          /\ c \in notification_functions <=> OnItsWay(c) /\ ~Requesting(c)
          /\ c \in notification_functions => c \in fetch_functions
          /\ c \in fetch_functions => ~Requesting(c)
    /\ OneSignal /\ OneEvent
    /\ dbus.at = "notify" => dbus.call \in Calls
    /\ dbus.at = "post" => dbus.call # None

\* A call that has not been told waits for that, or for the end of its abortion.
StatesOK ==
    /\ WaitingIsReachable
    /\ \A c \in Calls : CanBeNotified(c) =>
          /\ has_cookie[c] \/ cleared[c]
          /\ state[c] \in {"WAIT_FOR_NOTIFICATION", "ABORTING"}
    /\ slot # None /\ ~MainAt("abort") /\ state[slot] \in Active => has_cookie[slot]
    /\ \A c \in (Blocking \cup {slot}) \ {None} : state[c] # "ABORTING"

\* The call in the slot is the latest, unless the main thread is about to cancel it, and one
\* for a child has its answer still to come.
SlotOK ==
    /\ main.at \notin {"cancel", "abort"} => slot \in {None, latest}
    /\ main.at \in {"cancel", "abort", "request"} /\ main.call \notin Blocking \cup {None} =>
          latest = main.call
    /\ slot \in Child => \/ slot \in fetch_functions
                         \/ main.at \in {"requesting", "finish"} /\ main.call = slot

BusyOK == busy_count <= Cardinality(Live)

IInv ==
    /\ TypeOK /\ MainOK /\ OwnedOK /\ BrokerOK /\ SignalsOK /\ StatesOK /\ SlotOK /\ BusyOK
    /\ NoLostWakeup

-----------------------------------------------------------------------------
(* Facts about signals and events.                                         *)

Signal == [call : Calls, error : BOOLEAN]

LEMMA SequenceKept ==
    /\ UNCHANGED signals => (OneSignal <=> OneSignal') /\ \A c : InSignals(c)' <=> InSignals(c)
    /\ UNCHANGED queue_ => (OneEvent <=> OneEvent') /\ \A c : InQueue(c)' <=> InQueue(c)
BY DEF OneSignal, InSignals, OneEvent, InQueue

LEMMA AppendFacts ==
    ASSUME NEW S, NEW s \in Seq(S), NEW m \in S
    PROVE  /\ Append(s, m) \in Seq(S)
           /\ DOMAIN s = 1 .. Len(s) /\ Len(s) \in Nat
           /\ DOMAIN Append(s, m) = 1 .. Len(s) + 1
           /\ \A i \in 1 .. Len(s) : Append(s, m)[i] = s[i]
           /\ Append(s, m)[Len(s) + 1] = m
OBVIOUS

LEMMA TailFacts ==
    ASSUME NEW S, NEW s \in Seq(S), s # <<>>
    PROVE  /\ Tail(s) \in Seq(S) /\ Head(s) = s[1] /\ Head(s) \in S
           /\ DOMAIN s = 1 .. Len(s) /\ Len(s) \in Nat /\ 1 \in DOMAIN s
           /\ DOMAIN Tail(s) = 1 .. Len(s) - 1
           /\ \A i \in DOMAIN Tail(s) : i + 1 \in DOMAIN s /\ Tail(s)[i] = s[i + 1]
           /\ \A i \in DOMAIN s : i # 1 => i - 1 \in DOMAIN Tail(s) /\ Tail(s)[i - 1] = s[i]
<1>1. /\ Tail(s) \in Seq(S) /\ Head(s) = s[1] /\ Head(s) \in S
      /\ DOMAIN s = 1 .. Len(s) /\ Len(s) \in Nat /\ Len(s) > 0
      /\ Len(Tail(s)) = Len(s) - 1
      /\ \A i \in 1 .. Len(Tail(s)) : Tail(s)[i] = s[i + 1]
  OBVIOUS
<1>2. DOMAIN Tail(s) = 1 .. Len(s) - 1
  BY <1>1
<1> QED BY <1>1, <1>2

LEMMA SignalSent ==
    ASSUME TypeOK, NEW m \in Signal, signals' = Append(signals, m)
    PROVE  /\ signals' \in Seq(Signal)
           /\ \A c : InSignals(c)' <=> InSignals(c) \/ c = m.call
           /\ OneSignal /\ ~InSignals(m.call) => OneSignal'
<1>1. signals \in Seq(Signal)
  BY DEF TypeOK, Signal
<1>2. /\ signals' \in Seq(Signal)
      /\ DOMAIN signals = 1 .. Len(signals) /\ Len(signals) \in Nat
      /\ DOMAIN signals' = 1 .. Len(signals) + 1
      /\ \A i \in 1 .. Len(signals) : signals'[i] = signals[i]
      /\ signals'[Len(signals) + 1] = m
  BY <1>1, AppendFacts
<1>3. \A c : InSignals(c)' <=> InSignals(c) \/ c = m.call
  BY <1>2 DEF InSignals
<1>4. ASSUME OneSignal, ~InSignals(m.call) PROVE OneSignal'
  BY <1>2, <1>4 DEF OneSignal, InSignals
<1> QED BY <1>2, <1>3, <1>4

LEMMA SignalTaken ==
    ASSUME TypeOK, signals # <<>>, signals' = Tail(signals)
    PROVE  /\ Head(signals) \in Signal /\ InSignals(Head(signals).call)
           /\ signals' \in Seq(Signal)
           /\ \A c : InSignals(c)' => InSignals(c)
           /\ \A c : InSignals(c) /\ c # Head(signals).call => InSignals(c)'
           /\ OneSignal => OneSignal' /\ \A c : c = Head(signals).call => ~InSignals(c)'
<1>1. signals \in Seq(Signal)
  BY DEF TypeOK, Signal
<1> DEFINE t == Tail(signals)
<1>2. /\ t \in Seq(Signal) /\ Head(signals) = signals[1] /\ Head(signals) \in Signal
      /\ DOMAIN signals = 1 .. Len(signals) /\ Len(signals) \in Nat /\ 1 \in DOMAIN signals
      /\ DOMAIN t = 1 .. Len(signals) - 1
      /\ \A i \in DOMAIN t : i + 1 \in DOMAIN signals /\ t[i] = signals[i + 1]
      /\ \A i \in DOMAIN signals : i # 1 => i - 1 \in DOMAIN t /\ t[i - 1] = signals[i]
  BY <1>1, TailFacts
<1>3. signals' = t
  OBVIOUS
<1> HIDE DEF t
<1>4. \A c : InSignals(c)' => InSignals(c)
  BY <1>2, <1>3 DEF InSignals
<1>5. \A c : InSignals(c) /\ c # Head(signals).call => InSignals(c)'
  BY <1>2, <1>3 DEF InSignals
<1>6. InSignals(Head(signals).call)
  BY <1>2 DEF InSignals
<1>7. ASSUME OneSignal PROVE OneSignal'
  BY <1>2, <1>3, <1>7 DEF OneSignal
<1>8. ASSUME OneSignal, NEW c, c = Head(signals).call PROVE ~InSignals(c)'
  <2>1. ASSUME NEW i \in DOMAIN t PROVE t[i].call # signals[1].call
    BY <1>2, <1>8, <2>1 DEF OneSignal
  <2> QED BY <1>2, <1>3, <1>8, <2>1 DEF InSignals
<1> QED BY <1>2, <1>3, <1>4, <1>5, <1>6, <1>7, <1>8

LEMMA EventPosted ==
    ASSUME TypeOK, NEW e \in Calls \cup {User}, queue_' = Append(queue_, e)
    PROVE  /\ queue_' \in Seq(Calls \cup {User})
           /\ \A c : InQueue(c)' <=> InQueue(c) \/ c = e
           /\ OneEvent /\ (e = User \/ ~InQueue(e)) => OneEvent'
<1>1. queue_ \in Seq(Calls \cup {User})
  BY DEF TypeOK
<1>2. /\ queue_' \in Seq(Calls \cup {User})
      /\ DOMAIN queue_ = 1 .. Len(queue_) /\ Len(queue_) \in Nat
      /\ DOMAIN queue_' = 1 .. Len(queue_) + 1
      /\ \A i \in 1 .. Len(queue_) : queue_'[i] = queue_[i]
      /\ queue_'[Len(queue_) + 1] = e
  BY <1>1, AppendFacts
<1>3. \A c : InQueue(c)' <=> InQueue(c) \/ c = e
  BY <1>2 DEF InQueue
<1>4. ASSUME OneEvent, e = User \/ ~InQueue(e) PROVE OneEvent'
  BY <1>2, <1>4 DEF OneEvent, InQueue
<1> QED BY <1>2, <1>3, <1>4

LEMMA EventTaken ==
    ASSUME TypeOK, queue_ # <<>>, queue_' = Tail(queue_)
    PROVE  /\ Head(queue_) \in Calls \cup {User} /\ InQueue(Head(queue_))
           /\ queue_' \in Seq(Calls \cup {User})
           /\ \A c : InQueue(c)' => InQueue(c)
           /\ \A c : InQueue(c) /\ c # Head(queue_) => InQueue(c)'
           /\ OneEvent => /\ OneEvent'
                          /\ \A c : c = Head(queue_) /\ c # User => ~InQueue(c)'
<1>1. queue_ \in Seq(Calls \cup {User})
  BY DEF TypeOK
<1> DEFINE t == Tail(queue_)
<1>2. /\ t \in Seq(Calls \cup {User})
      /\ Head(queue_) = queue_[1] /\ Head(queue_) \in Calls \cup {User}
      /\ DOMAIN queue_ = 1 .. Len(queue_) /\ Len(queue_) \in Nat /\ 1 \in DOMAIN queue_
      /\ DOMAIN t = 1 .. Len(queue_) - 1
      /\ \A i \in DOMAIN t : i + 1 \in DOMAIN queue_ /\ t[i] = queue_[i + 1]
      /\ \A i \in DOMAIN queue_ : i # 1 => i - 1 \in DOMAIN t /\ t[i - 1] = queue_[i]
  BY <1>1, TailFacts
<1>3. queue_' = t
  OBVIOUS
<1> HIDE DEF t
<1>4. \A c : InQueue(c)' => InQueue(c)
  BY <1>2, <1>3 DEF InQueue
<1>5. \A c : InQueue(c) /\ c # Head(queue_) => InQueue(c)'
  BY <1>2, <1>3 DEF InQueue
<1>6. InQueue(Head(queue_))
  BY <1>2 DEF InQueue
<1>7. ASSUME OneEvent PROVE OneEvent'
  BY <1>2, <1>3, <1>7 DEF OneEvent
<1>8. ASSUME OneEvent, NEW c, c = Head(queue_), c # User PROVE ~InQueue(c)'
  <2>1. ASSUME NEW i \in DOMAIN t PROVE t[i] # queue_[1]
    BY <1>2, <1>8, <2>1 DEF OneEvent
  <2> QED BY <1>2, <1>3, <1>8, <2>1 DEF InQueue
<1> QED BY <1>2, <1>3, <1>4, <1>5, <1>6, <1>7, <1>8

-----------------------------------------------------------------------------
(* What the parts of actions do.                                           *)

LEMMA LiveFacts ==
    ASSUME NEW D \in SUBSET Live
    PROVE  /\ IsFiniteSet(Live) /\ IsFiniteSet(D)
           /\ Cardinality(Live) \in Nat /\ Cardinality(D) \in Nat
           /\ Cardinality(Live \ D) \in Nat
           /\ Cardinality(Live \ D) = Cardinality(Live) - Cardinality(D)
<1>1. IsFiniteSet(Live)
  BY FS_Subset, CallsAssumption DEF Live
<1>2. IsFiniteSet(D) /\ IsFiniteSet(Live \ D)
  BY <1>1, FS_Subset
<1>3. /\ Cardinality(Live) \in Nat /\ Cardinality(D) \in Nat
      /\ Cardinality(Live \ D) \in Nat
  BY <1>1, <1>2, FS_CardinalityType
<1>4. Live = D \cup (Live \ D) /\ D \cap (Live \ D) = {}
  OBVIOUS
<1>5. Cardinality(Live) = Cardinality(D) + Cardinality(Live \ D) - 0
  BY <1>2, <1>4, FS_Union, FS_EmptySet
<1> QED BY <1>1, <1>2, <1>3, <1>5

\* The view lets go of calls, and never takes one.
LEMMA GotListID ==
    ASSUME TypeOK, NEW c \in Calls, NEW r \in Results \cup {None}, got_list_id(c, r)
    PROVE  /\ slot' \in {slot, None}
           /\ (slot \in Child => slot' = IF c = slot THEN None ELSE slot)
           /\ zombies' \subseteq Root \cup Child
           /\ \A d : d \in zombies' <=> d \in zombies \/ (d = slot /\ slot' # slot)
           /\ busy_count' \in Nat /\ busy_count' <= busy_count
           /\ latest' = latest
           /\ entering' \in Root \cup Child \cup {None} /\ entered' \in {entered, slot}
BY CallsAssumption DEF TypeOK, got_list_id, child_got_list_id, root_got_list_id, clear,
   sink_point_to_child_error, enter_list_async, delete_get_list_id, list_vars, owner_vars

\* The list broker has aborted a call, which it signals once, or it has not.
LEMMA AbortReplied ==
    ASSUME TypeOK, slot \in Calls, AbortReply
    PROVE  /\ state' \in [Calls -> CallStates \cup {"NONE"}]
           /\ broker' \in [Calls -> {"none", "asked", "pending", "signalled"} \cup Results]
           /\ signals' \in Seq(Signal)
           /\ \/ UNCHANGED <<state, broker, signals>>
              \/ /\ state'[slot] = "ABORTING" /\ broker'[slot] = "signalled"
                 /\ \A c \in Calls \ {slot} : state'[c] = state[c] /\ broker'[c] = broker[c]
                 /\ IF broker[slot] = "pending"
                    THEN signals' = Append(signals, [call |-> slot, error |-> TRUE])
                    ELSE signals' = signals
<1>1. [call |-> slot, error |-> TRUE] \in Signal /\ signals \in Seq(Signal)
  BY DEF TypeOK, Signal
<1>2. CASE UNCHANGED <<state, broker_vars>>
  BY <1>1, <1>2 DEF TypeOK, broker_vars
<1>3. CASE /\ set_state(slot, "ABORTING")
           /\ broker' = [broker EXCEPT ![slot] = "signalled"]
           /\ signals' = IF broker[slot] = "pending"
                         THEN Append(signals, [call |-> slot, error |-> TRUE])
                         ELSE signals
  <2>1. /\ state' \in [Calls -> CallStates \cup {"NONE"}]
        /\ broker' \in [Calls -> {"none", "asked", "pending", "signalled"} \cup Results]
        /\ state'[slot] = "ABORTING" /\ broker'[slot] = "signalled"
        /\ \A c \in Calls \ {slot} : state'[c] = state[c] /\ broker'[c] = broker[c]
    BY <1>3 DEF TypeOK, set_state, CallStates
  <2>2. signals' \in Seq(Signal)
    <3>1. CASE signals' = signals
      BY <1>1, <3>1
    <3>2. CASE signals' = Append(signals, [call |-> slot, error |-> TRUE])
      BY <1>1, <3>2, AppendFacts
    <3> QED BY <1>3, <3>1, <3>2
  <2> QED BY <1>3, <2>1, <2>2
<1> QED BY <1>2, <1>3, Zenon DEF AbortReply

\* Whatever is fetched, it is a result.
LEMMA Fetched ==
    ASSUME FinishFetch
    PROVE  \E r \in Results :
              /\ result' = [result EXCEPT ![main.call] = r]
              /\ state' = [state EXCEPT ![main.call] = IF r = "exception" THEN "FAILED"
                                                       ELSE "RESULT_FETCHED"]
              /\ got_list_id(main.call, r)
<1> DEFINE replies == IF has_cookie[main.call] THEN Fetches ELSE Results \ {"data"}
<1>1. replies \subseteq Results
  BY BrokerAssumption
<1>2. \E r \in replies :
         /\ result' = [result EXCEPT ![main.call] = r]
         /\ state' = [state EXCEPT ![main.call] = IF r = "exception" THEN "FAILED"
                                                  ELSE "RESULT_FETCHED"]
         /\ got_list_id(main.call, r)
  BY Zenon DEF FinishFetch, set_state
<1> QED BY <1>1, <1>2

LEMMA SlotLeft ==
    ASSUME TypeOK, delete_get_list_id
    PROVE  /\ slot' = None /\ zombies' \subseteq Root \cup Child
           /\ \A d : d \in zombies' <=> d \in zombies \/ (d = slot /\ d # None)
BY DEF TypeOK, delete_get_list_id

LEMMA Destroyed ==
    ASSUME TypeOK, NEW D \in SUBSET Live, destroy(D)
    PROVE  /\ state' \in [Calls -> CallStates \cup {"NONE"}] /\ Live' = Live \ D
           /\ \A c \in Calls \ D :
                 /\ state'[c] = state[c] /\ broker'[c] = broker[c]
                 /\ has_cookie'[c] = has_cookie[c] /\ cleared'[c] = cleared[c]
           /\ \A c \in D : /\ state'[c] = "NONE" /\ broker'[c] = "none"
                           /\ ~has_cookie'[c] /\ ~cleared'[c]
           /\ has_cookie' \in [Calls -> BOOLEAN] /\ cleared' \in [Calls -> BOOLEAN]
           /\ was_aborted_after_done' \in [Calls -> BOOLEAN]
           /\ result' \in [Calls -> Results \cup {None}]
           /\ broker' \in [Calls -> {"none", "asked", "pending", "signalled"} \cup Results]
           /\ busy_count' \in Nat
           /\ BusyOK => BusyOK'
<1>1. D \subseteq Calls /\ Cardinality(D) \in Nat /\ Cardinality(Live) \in Nat
  BY LiveFacts DEF Live
<1>2. /\ state' \in [Calls -> CallStates \cup {"NONE"}]
      /\ has_cookie' \in [Calls -> BOOLEAN] /\ cleared' \in [Calls -> BOOLEAN]
      /\ was_aborted_after_done' \in [Calls -> BOOLEAN]
      /\ result' \in [Calls -> Results \cup {None}]
      /\ broker' \in [Calls -> {"none", "asked", "pending", "signalled"} \cup Results]
  BY <1>1 DEF TypeOK, destroy
<1>3. /\ \A c \in Calls \ D :
            /\ state'[c] = state[c] /\ broker'[c] = broker[c]
            /\ has_cookie'[c] = has_cookie[c] /\ cleared'[c] = cleared[c]
      /\ \A c \in D : /\ state'[c] = "NONE" /\ broker'[c] = "none"
                      /\ ~has_cookie'[c] /\ ~cleared'[c]
  BY <1>1 DEF TypeOK, destroy
<1>4. Live' = Live \ D
  BY <1>1, <1>3 DEF Live
<1>5. /\ busy_count' \in Nat
      /\ busy_count <= Cardinality(Live) => busy_count' <= Cardinality(Live) - Cardinality(D)
  <2>1. /\ busy_count \in Nat /\ clear_for(D)
        /\ Cardinality(Live \ D) \in Nat
        /\ Cardinality(Live \ D) = Cardinality(Live) - Cardinality(D)
    BY LiveFacts DEF TypeOK, destroy
  <2> QED BY <1>1, <2>1 DEF clear_for
<1>6. BusyOK => BusyOK'
  BY <1>4, <1>5, LiveFacts DEF BusyOK
<1> QED BY <1>2, <1>3, <1>4, <1>5, <1>6

\* The threads move on.
MainRecords == [at : Places, call : Calls \cup {None}, then : {"idle", "events"}]
DBusRecords == [at : {"idle", "notify", "post", "trigger"},
                call : Calls \cup {User, None}, error : BOOLEAN]

LEMMA Moved ==
    ASSUME TypeOK, NEW where \in Places, Proceed(where)
    PROVE  /\ main' \in MainRecords
           /\ main'.at = where /\ main'.call = main.call /\ main'.then = main.then
BY DEF TypeOK, MainRecords, Proceed, Places

LEMMA Went ==
    ASSUME NEW where \in Places, NEW c \in Calls \cup {None}, NEW then \in {"idle", "events"},
           Goto(where, c, then)
    PROVE  /\ main' \in MainRecords
           /\ main'.at = where /\ main'.call = c /\ main'.then = then
BY DEF MainRecords, Goto, Places

LEMMA Canceled ==
    ASSUME TypeOK, AfterCancel
    PROVE  /\ main' \in MainRecords /\ main'.call = main.call /\ main'.then = main.then
           /\ main.call = None => main'.at = main.then
           /\ main.call # None => main'.at = "request"
<1> DEFINE where == IF main.call = None THEN main.then ELSE "request"
<1>1. main.then \in {"idle", "events"}
  BY DEF TypeOK
<1>2. where \in Places /\ Proceed(where)
  BY <1>1 DEF AfterCancel, Places
<1> HIDE DEF where
<1>3. /\ main' \in MainRecords
      /\ main'.at = where /\ main'.call = main.call /\ main'.then = main.then
  BY <1>2, Moved
<1> QED BY <1>3 DEF where

-----------------------------------------------------------------------------
(* Each step keeps the types.                                              *)

LEMMA TypeKept ==
    ASSUME IInv, Next
    PROVE  TypeOK'
<1> USE CallsAssumption DEF IInv, TypeOK, call_vars, owner_vars, cookie_vars, event_vars,
    broker_vars, list_vars, MainAt, DBusGoto, set_state, CallStates, Results, MainRecords
<1>1. CASE PointToParent
  BY <1>1, Moved, Went, Canceled DEF PointToParent, Places
<1>2. ASSUME NEW c \in Calls, PointTo(c) PROVE TypeOK'
  BY <1>2, Moved, Went, Canceled DEF PointTo, Places
<1>3. ASSUME NEW c \in Calls, GetChildItem(c) PROVE TypeOK'
  BY <1>3, Moved, Went, Canceled DEF GetChildItem, Places
<1>4. CASE CancelNothing
  BY <1>4, Moved, Went, Canceled DEF CancelNothing, Places
<1>5. CASE CancelLocally
  BY <1>5, Moved, Went, Canceled DEF CancelLocally, Places, delete_get_list_id
<1>6. CASE CancelByCookie
  BY <1>6, Moved, Went, Canceled DEF CancelByCookie, Places, clear_cookie
<1>7. CASE AbortReply
  <2>1. slot \in Calls /\ main' \in MainRecords
    BY <1>7, Canceled DEF AbortReply, MainOK
  <2>2. slot' = None /\ zombies' \subseteq Root \cup Child
    BY <1>7, SlotLeft DEF AbortReply
  <2> QED BY <1>7, <2>1, <2>2, AbortReplied DEF AbortReply, Signal
<1>8. CASE Request
  BY <1>8, Moved, Went, Canceled DEF Request, Places, MainOK
<1>9. CASE RequestCookie
  <2>1. main' \in MainRecords
    BY <1>9, Moved, Went DEF RequestCookie, set_pending_cookie, Places
  <2>2. /\ has_cookie' \in [Calls -> BOOLEAN]
        /\ state' \in [Calls -> CallStates \cup {"NONE"}]
    BY <1>9 DEF RequestCookie, set_pending_cookie
  <2>3. notification_functions' \subseteq Calls /\ fetch_functions' \subseteq Calls
    BY <1>9 DEF RequestCookie, set_pending_cookie, MainOK
  <2> QED BY <1>9, <2>1, <2>2, <2>3 DEF RequestCookie, set_pending_cookie
<1>10. CASE RequestFastPath
  <2>1. main.call \in Calls /\ main' \in MainRecords
    BY <1>10, Moved DEF RequestFastPath, MainOK, Places
  <2>2. /\ state' \in [Calls -> CallStates \cup {"NONE"}]
        /\ result' \in [Calls -> Results \cup {None}]
        /\ broker[main.call] \in Results \cup {None} /\ got_list_id(main.call, broker[main.call])
    BY <1>10, <2>1 DEF RequestFastPath
  <2>3. /\ slot' \in {slot, None} /\ zombies' \subseteq Root \cup Child
        /\ busy_count' \in Nat /\ latest' = latest
        /\ entering' \in Root \cup Child \cup {None} /\ entered' \in {entered, slot}
    BY <2>1, <2>2, GotListID
  <2> QED BY <1>10, <2>1, <2>2, <2>3 DEF RequestFastPath
<1>11. CASE RequestFailed
  <2>1. main.call \in Calls /\ main' \in MainRecords
    BY <1>11, Moved DEF RequestFailed, MainOK, Places
  <2>2. /\ state' \in [Calls -> CallStates \cup {"NONE"}]
        /\ result' \in [Calls -> Results \cup {None}]
    BY <1>11 DEF RequestFailed
  <2>3. slot' \in {slot, None} /\ zombies' \subseteq Root \cup Child
    BY <1>11, SlotLeft DEF RequestFailed
  <2> QED BY <1>11, <2>1, <2>2, <2>3 DEF RequestFailed
<1>12. CASE FetchBlocking
  BY <1>12, Moved, Went, Canceled DEF FetchBlocking, Places
<1>13. CASE NoMoreEvents
  BY <1>13, Moved, Went, Canceled DEF NoMoreEvents, Places
<1>14. CASE TakeUserEvent
  BY <1>14, Moved, Went, Canceled DEF TakeUserEvent, Places
<1>15. CASE TakeCookieEvent
  BY <1>15, Moved, Went, Canceled DEF TakeCookieEvent, Places
<1>16. CASE FinishFetch
  <2>1. main.call \in Calls /\ main' \in MainRecords
    BY <1>16, Moved DEF FinishFetch, MainOK, Places
  <2>2. PICK r \in Results :
           /\ result' = [result EXCEPT ![main.call] = r]
           /\ state' = [state EXCEPT ![main.call] = IF r = "exception" THEN "FAILED"
                                                    ELSE "RESULT_FETCHED"]
           /\ got_list_id(main.call, r)
    BY <1>16, Fetched
  <2>3. /\ state' \in [Calls -> CallStates \cup {"NONE"}]
        /\ result' \in [Calls -> Results \cup {None}]
        /\ has_cookie' \in [Calls -> BOOLEAN] /\ cleared' \in [Calls -> BOOLEAN]
    BY <1>16, <2>1, <2>2 DEF FinishFetch, clear_cookie
  <2>4. /\ slot' \in {slot, None} /\ zombies' \subseteq Root \cup Child
        /\ busy_count' \in Nat /\ latest' = latest
        /\ entering' \in Root \cup Child \cup {None} /\ entered' \in {entered, slot}
    BY <2>1, <2>2, GotListID
  <2> QED BY <1>16, <2>1, <2>3, <2>4 DEF FinishFetch
<1>17. CASE FinishDone
  <2>1. main.call \in Calls /\ main' \in MainRecords /\ result[main.call] \in Results \cup {None}
    BY <1>17, Moved DEF FinishDone, MainOK, Places
  <2>2. got_list_id(main.call, result[main.call])
    BY <1>17 DEF FinishDone, MainOK
  <2>3. /\ slot' \in {slot, None} /\ zombies' \subseteq Root \cup Child
        /\ busy_count' \in Nat /\ latest' = latest
        /\ entering' \in Root \cup Child \cup {None} /\ entered' \in {entered, slot}
    BY <2>1, <2>2, GotListID
  <2> QED BY <1>17, <2>1, <2>3 DEF FinishDone
<1>18. CASE Drop
  <2>1. {main.call} \in SUBSET Live /\ main' \in MainRecords
    BY <1>18, Went DEF Drop, MainOK, Live, Places
  <2>2. CASE UNCHANGED <<call_vars, broker, busy_count>>
    BY <1>18, <2>1, <2>2 DEF Drop
  <2>3. CASE destroy({main.call})
    BY <1>18, <2>1, <2>3, Destroyed DEF Drop
  <2> QED BY <1>18, <2>2, <2>3 DEF Drop
<1>19. CASE process_pending_events
  BY <1>19, Moved, Went, Canceled DEF process_pending_events, Places
<1>20. CASE execute
  <2>1. {c \in zombies : ~Referenced(c)} \in SUBSET Live
    BY DEF OwnedOK
  <2>2. destroy({c \in zombies : ~Referenced(c)})
    BY <1>20 DEF execute
  <2> QED BY <1>20, <2>1, <2>2, Destroyed DEF execute
<1>21. CASE handle_enter_list_event
  BY <1>21, Moved, Went, Canceled DEF handle_enter_list_event, Places, delete_get_list_id
<1>22. CASE InputEvent
  BY <1>22, Moved, Went, Canceled DEF InputEvent, Places
<1>23. CASE available
  <2>1. signals' \in Seq(Signal) /\ Head(signals) \in Signal
    BY <1>23, SignalTaken DEF available
  <2>2. dbus' \in DBusRecords
    BY <1>23, <2>1 DEF available, Signal, DBusRecords
  <2> QED BY <1>23, <2>1, <2>2 DEF available, Signal, DBusRecords
<1>24. CASE notification
  <2>1. dbus' \in DBusRecords
    BY <1>24 DEF notification, DBusRecords
  <2>2. state' \in [Calls -> CallStates \cup {"NONE"}]
    BY <1>24 DEF notification
  <2> QED BY <1>24, <2>1, <2>2 DEF notification, DBusRecords
<1>25. CASE post
  <2>1. dbus.call \in Calls \cup {User} /\ dbus' \in DBusRecords
    BY <1>25 DEF post, DBusRecords, SignalsOK
  <2>2. queue_' \in Seq(Calls \cup {User})
    BY <1>25, <2>1 DEF post
  <2> QED BY <1>25, <2>1, <2>2 DEF post, DBusRecords
<1>26. CASE trigger_processing
  BY <1>26, Moved, Went, Canceled DEF trigger_processing, Places
<1>27. ASSUME NEW c \in Calls, BrokerReplies(c) PROVE TypeOK'
  <2>1. broker' \in [Calls -> {"none", "asked", "pending", "signalled"} \cup Results]
    BY <1>27, BrokerAssumption DEF BrokerReplies
  <2> QED BY <1>27, <2>1 DEF BrokerReplies
<1>28. ASSUME NEW c \in Calls, BrokerSignals(c) PROVE TypeOK'
  BY <1>28, Moved, Went, Canceled DEF BrokerSignals, Places
<1> QED
  BY <1>1, <1>2, <1>3, <1>4, <1>5, <1>6, <1>7, <1>8, <1>9, <1>10, <1>11, <1>12, <1>13, <1>14,
     <1>15, <1>16, <1>17, <1>18, <1>19, <1>20, <1>21, <1>22, <1>23, <1>24, <1>25, <1>26, <1>27,
     <1>28 DEF Next, MainStep, MainLoop, DBusStep, Broker, Navigate

\* The main thread knows what it is doing.
LEMMA MainKept ==
    ASSUME IInv, Next
    PROVE  MainOK'
<1> USE CallsAssumption DEF IInv, Live, call_vars, owner_vars, cookie_vars, event_vars, broker_vars,
    list_vars, MainAt, set_state
<1>1. CASE PointToParent
    BY <1>1, Moved, Went, Canceled DEF TypeOK, MainOK, PointToParent, Places
<1>2. ASSUME NEW c \in Calls, PointTo(c) PROVE MainOK'
    BY <1>2, Moved, Went, Canceled DEF TypeOK, MainOK, PointTo, Places, IsNew
<1>3. ASSUME NEW c \in Calls, GetChildItem(c) PROVE MainOK'
    BY <1>3, Moved, Went, Canceled DEF TypeOK, MainOK, GetChildItem, Places, IsNew
<1>4. CASE CancelNothing
    BY <1>4, Moved, Went, Canceled DEF TypeOK, MainOK, CancelNothing, Places
<1>5. CASE CancelLocally
    BY <1>5, Moved, Went, Canceled, SlotLeft DEF TypeOK, MainOK, CancelLocally, Places, OwnedOK
<1>6. CASE CancelByCookie
    BY <1>6, Moved, Went, Canceled DEF TypeOK, MainOK, CancelByCookie, Places, clear_cookie
<1>7. CASE AbortReply
    BY <1>7, Moved, Went, Canceled, AbortReplied, SlotLeft DEF TypeOK, MainOK, AbortReply,
     Places, OwnedOK
<1>8. CASE Request
    BY <1>8, Moved, Went, Canceled DEF TypeOK, MainOK, Request, Places
<1>9. CASE RequestCookie
    BY <1>9, Moved, Went, Canceled DEF TypeOK, MainOK, RequestCookie, set_pending_cookie, Places
<1>10. CASE RequestFastPath
  <2>1. /\ main'.at = "drop" /\ main'.call = main.call /\ main.call \in Calls
        /\ broker[main.call] \in Results \cup {None} /\ got_list_id(main.call, broker[main.call])
    BY <1>10, Moved DEF TypeOK, MainOK, RequestFastPath, Places, Results
  <2>2. fetch_functions' = fetch_functions /\ main.call \notin fetch_functions
    BY <1>10, <2>1 DEF RequestFastPath, SignalsOK, Requesting
  <2>3. state' = [state EXCEPT ![main.call] = "RESULT_FETCHED"]
    BY <1>10 DEF RequestFastPath
  <2> QED BY <2>1, <2>2, <2>3 DEF TypeOK, MainOK, Active
<1>11. CASE RequestFailed
  <2>1. main'.at = "drop" /\ main'.call = main.call /\ main.call \in Calls
    BY <1>11, Moved DEF TypeOK, MainOK, RequestFailed, Places
  <2>2. fetch_functions' = fetch_functions /\ main.call \notin fetch_functions
    BY <1>11, <2>1 DEF RequestFailed, SignalsOK, Requesting
  <2>3. state' = [state EXCEPT ![main.call] = "FAILED"]
    BY <1>11 DEF RequestFailed
  <2> QED BY <2>1, <2>2, <2>3 DEF TypeOK, MainOK, Active
<1>12. CASE FetchBlocking
    BY <1>12, Moved, Went, Canceled DEF TypeOK, MainOK, FetchBlocking, Places
<1>13. CASE NoMoreEvents
    BY <1>13, Moved, Went, Canceled DEF TypeOK, MainOK, NoMoreEvents, Places
<1>14. CASE TakeUserEvent
    BY <1>14, Moved, Went, Canceled DEF TypeOK, MainOK, TakeUserEvent, Places
<1>15. CASE TakeCookieEvent
  <2> DEFINE c == Head(queue_)
  <2>1. c \in Calls /\ InQueue(c) /\ Told(c)
    BY <1>15, EventTaken DEF TakeCookieEvent, Told
  <2>2. c \in fetch_functions /\ c \in Live /\ c \notin fetch_functions'
    BY <1>15, <2>1 DEF TakeCookieEvent, SignalsOK, BrokerOK
  <2>3. state[c] # "WAIT_FOR_NOTIFICATION" /\ state' = state
    BY <1>15, <2>1 DEF TakeCookieEvent, SignalsOK, StatesOK, WaitingIsReachable, CanBeNotified,
       AtDBus,
       OnItsWay
  <2>4. main'.at = "finish" /\ main'.call = c
    BY <1>15, <2>1, <2>2, Went DEF TakeCookieEvent, Places
  <2> HIDE DEF c
  <2> QED BY <2>1, <2>2, <2>3, <2>4 DEF MainOK
<1>16. CASE FinishFetch
  <2>1. main'.at = "drop" /\ main'.call = main.call /\ main.call \in Calls
    BY <1>16, Moved DEF TypeOK, MainOK, FinishFetch, Places
  <2>2. PICK r \in Results :
           state' = [state EXCEPT ![main.call] = IF r = "exception" THEN "FAILED"
                                                 ELSE "RESULT_FETCHED"]
    BY <1>16, Fetched
  <2>3. fetch_functions' = fetch_functions
    BY <1>16 DEF FinishFetch
  <2> QED BY <1>16, <2>1, <2>2, <2>3 DEF TypeOK, MainOK, FinishFetch, Active
<1>17. CASE FinishDone
  <2>1. main'.at = "drop" /\ main'.call = main.call /\ main.call \in Calls
    BY <1>17, Moved DEF TypeOK, MainOK, FinishDone, Places
  <2>2. state' = state /\ fetch_functions' = fetch_functions
    BY <1>17 DEF FinishDone
  <2> QED BY <1>17, <2>1, <2>2 DEF TypeOK, MainOK, FinishDone, Active
<1>18. CASE Drop
    BY <1>18, Moved, Went, Canceled, Destroyed DEF TypeOK, MainOK, Drop, Places
<1>19. CASE process_pending_events
    BY <1>19, Moved, Went, Canceled DEF TypeOK, MainOK, process_pending_events, Places
<1>20. CASE execute
    BY <1>20, Moved, Went, Canceled, Destroyed DEF TypeOK, MainOK, execute, Places
<1>21. CASE handle_enter_list_event
    BY <1>21, Moved, Went, Canceled, SlotLeft DEF TypeOK, MainOK, handle_enter_list_event, Places
<1>22. CASE InputEvent
    BY <1>22, Moved, Went, Canceled DEF TypeOK, MainOK, InputEvent, Places
<1>23. CASE available
    BY <1>23, Moved, Went, Canceled DEF TypeOK, MainOK, available, Places
<1>24. CASE notification
  <2> DEFINE c == dbus.call
  <2>1. /\ main' = main /\ slot' = slot /\ cleared' = cleared
        /\ fetch_functions' = fetch_functions
        /\ c \in Calls /\ c \in fetch_functions
        /\ \E st \in {"ABORTED_BY_LIST_BROKER", "READY_TO_FETCH"} :
              state' = [state EXCEPT ![c] = st]
    BY <1>24 DEF notification, SignalsOK, StatesOK, CanBeNotified, Expected, AtDBus, Told
  <2>2. c \in Live /\ state[c] \in {"WAIT_FOR_NOTIFICATION", "ABORTING"} /\ ~Requesting(c)
    BY <1>24, <2>1 DEF notification, StatesOK, CanBeNotified, SignalsOK
  <2>3. main.at = "drop" => c # main.call
    BY <2>1, <2>2 DEF MainOK, StatesOK, Active
  <2> HIDE DEF c
  <2> QED BY <2>1, <2>2, <2>3 DEF TypeOK, MainOK, Requesting
<1>25. CASE post
    BY <1>25, Moved, Went, Canceled DEF TypeOK, MainOK, post, Places
<1>26. CASE trigger_processing
    BY <1>26, Moved, Went, Canceled DEF TypeOK, MainOK, trigger_processing, Places
<1>27. ASSUME NEW c \in Calls, BrokerReplies(c) PROVE MainOK'
    BY <1>27, Moved, Went, Canceled DEF TypeOK, MainOK, BrokerReplies, Places
<1>28. ASSUME NEW c \in Calls, BrokerSignals(c) PROVE MainOK'
    BY <1>28, Moved, Went, Canceled DEF TypeOK, MainOK, BrokerSignals, Places
<1> QED
  BY <1>1, <1>2, <1>3, <1>4, <1>5, <1>6, <1>7, <1>8, <1>9, <1>10, <1>11, <1>12, <1>13, <1>14,
     <1>15, <1>16, <1>17, <1>18, <1>19, <1>20, <1>21, <1>22, <1>23, <1>24, <1>25, <1>26, <1>27,
     <1>28 DEF Next, MainStep, MainLoop, DBusStep, Broker, Navigate

\* A call that somebody has exists, and vice versa.
LEMMA OwnedKept ==
    ASSUME IInv, Next
    PROVE  OwnedOK'
<1> USE CallsAssumption DEF IInv, Live, call_vars, owner_vars, cookie_vars, event_vars, broker_vars,
    list_vars, MainAt, set_state
<1>1. CASE PointToParent
    BY <1>1, Moved, Went, Canceled DEF TypeOK, MainOK, OwnedOK, PointToParent, Places
<1>2. ASSUME NEW c \in Calls, PointTo(c) PROVE OwnedOK'
    BY <1>2, Moved, Went, Canceled DEF TypeOK, MainOK, OwnedOK, PointTo, Places, IsNew
<1>3. ASSUME NEW c \in Calls, GetChildItem(c) PROVE OwnedOK'
    BY <1>3, Moved, Went, Canceled DEF TypeOK, MainOK, OwnedOK, GetChildItem, Places, IsNew
<1>4. CASE CancelNothing
    BY <1>4, Moved, Went, Canceled DEF TypeOK, MainOK, OwnedOK, CancelNothing, Places
<1>5. CASE CancelLocally
    BY <1>5, Moved, Went, Canceled, SlotLeft DEF TypeOK, MainOK, OwnedOK, CancelLocally, Places
<1>6. CASE CancelByCookie
    BY <1>6, Moved, Went, Canceled DEF TypeOK, MainOK, OwnedOK, CancelByCookie, Places,
     clear_cookie
<1>7. CASE AbortReply
    BY <1>7, Moved, Went, Canceled, AbortReplied, SlotLeft DEF TypeOK, MainOK, OwnedOK,
     AbortReply, Places
<1>8. CASE Request
    BY <1>8, Moved, Went, Canceled DEF TypeOK, MainOK, OwnedOK, Request, Places
<1>9. CASE RequestCookie
    BY <1>9, Moved, Went, Canceled DEF TypeOK, MainOK, OwnedOK,
     RequestCookie, set_pending_cookie, Places
<1>10. CASE RequestFastPath
    BY <1>10, Moved, Went, Canceled, GotListID DEF TypeOK, MainOK, OwnedOK, RequestFastPath,
     Places
<1>11. CASE RequestFailed
    BY <1>11, Moved, Went, Canceled, SlotLeft DEF TypeOK, MainOK, OwnedOK, RequestFailed, Places
<1>12. CASE FetchBlocking
    BY <1>12, Moved, Went, Canceled DEF TypeOK, MainOK, OwnedOK, FetchBlocking, Places
<1>13. CASE NoMoreEvents
    BY <1>13, Moved, Went, Canceled DEF TypeOK, MainOK, OwnedOK, NoMoreEvents, Places
<1>14. CASE TakeUserEvent
    BY <1>14, Moved, Went, Canceled DEF TypeOK, MainOK, OwnedOK, TakeUserEvent, Places
<1>15. CASE TakeCookieEvent
    BY <1>15, Moved, Went, Canceled DEF TypeOK, MainOK, OwnedOK, TakeCookieEvent, Places
<1>16. CASE FinishFetch
  <2>1. main'.at = "drop" /\ main'.call = main.call /\ main.call \in Calls
    BY <1>16, Moved DEF TypeOK, MainOK, FinishFetch, Places
  <2>2. PICK r \in Results :
           /\ state' = [state EXCEPT ![main.call] = IF r = "exception" THEN "FAILED"
                                                    ELSE "RESULT_FETCHED"]
           /\ got_list_id(main.call, r)
    BY <1>16, Fetched
  <2>3. fetch_functions' = fetch_functions
    BY <1>16 DEF FinishFetch
  <2>4. /\ slot' \in {slot, None}
        /\ \A d : d \in zombies' <=> d \in zombies \/ (d = slot /\ slot' # slot)
    BY <2>1, <2>2, GotListID
  <2> QED BY <1>16, <2>1, <2>2, <2>3, <2>4 DEF TypeOK, OwnedOK, FinishFetch
<1>17. CASE FinishDone
    BY <1>17, Moved, Went, Canceled, GotListID DEF TypeOK, MainOK, OwnedOK, FinishDone, Places
<1>18. CASE Drop
  <2>1. /\ main.call \in Calls /\ main.at = "drop" /\ main.call \in Live
        /\ slot' = slot /\ zombies' = zombies /\ fetch_functions' = fetch_functions
    BY <1>18 DEF Drop, MainOK
  <2>2. ASSUME Referenced(main.call) \/ main.call \in zombies
        PROVE  main.call = slot \/ main.call \in zombies \cup fetch_functions
    BY <2>1, <2>2 DEF Referenced, SignalsOK, Told, AtDBus
  <2>3. CASE Referenced(main.call) \/ main.call \in zombies
    BY <1>18, <2>1, <2>2, <2>3 DEF Drop, OwnedOK
  <2>4. CASE ~(Referenced(main.call) \/ main.call \in zombies)
    <3>1. {main.call} \in SUBSET Live /\ destroy({main.call})
      BY <1>18, <2>1, <2>4 DEF Drop
    <3>2. Live' = Live \ {main.call}
      BY <3>1, Destroyed
    <3>3. main.call # slot /\ main.call \notin zombies
      BY <2>4 DEF Referenced
    <3> HIDE DEF Live
    <3> QED BY <2>1, <3>2, <3>3 DEF OwnedOK, Live
  <2> QED BY <2>3, <2>4
<1>19. CASE process_pending_events
    BY <1>19, Moved, Went, Canceled DEF TypeOK, MainOK, OwnedOK, process_pending_events, Places
<1>20. CASE execute
  <2> DEFINE D == {c \in zombies : ~Referenced(c)}
  <2>1. D \in SUBSET Live /\ destroy(D)
    BY <1>20 DEF OwnedOK, execute
  <2>2. Live' = Live \ D
    BY <2>1, Destroyed
  <2>3. /\ slot' = slot /\ zombies' = {} /\ fetch_functions' = fetch_functions /\ main' = main
        /\ MainAt("idle")
    BY <1>20 DEF execute
  <2>4. slot \notin D
    BY DEF Referenced
  <2>5. \A c \in zombies \ D : c = slot \/ c \in fetch_functions
    BY DEF TypeOK, Referenced, SignalsOK, Told, AtDBus
  <2> HIDE DEF D, Live
  <2> QED BY <2>2, <2>3, <2>4, <2>5 DEF OwnedOK
<1>21. CASE handle_enter_list_event
    BY <1>21, Moved, Went, Canceled, SlotLeft DEF TypeOK, MainOK, OwnedOK,
     handle_enter_list_event, Places
<1>22. CASE InputEvent
    BY <1>22, Moved, Went, Canceled DEF TypeOK, MainOK, OwnedOK, InputEvent, Places
<1>23. CASE available
    BY <1>23, Moved, Went, Canceled DEF TypeOK, MainOK, OwnedOK, available, Places
<1>24. CASE notification
    BY <1>24, Moved, Went, Canceled DEF TypeOK, MainOK, OwnedOK, notification, Places, Expected
<1>25. CASE post
    BY <1>25, Moved, Went, Canceled DEF TypeOK, MainOK, OwnedOK, post, Places
<1>26. CASE trigger_processing
    BY <1>26, Moved, Went, Canceled DEF TypeOK, MainOK, OwnedOK, trigger_processing, Places
<1>27. ASSUME NEW c \in Calls, BrokerReplies(c) PROVE OwnedOK'
    BY <1>27, Moved, Went, Canceled DEF TypeOK, MainOK, OwnedOK, BrokerReplies, Places
<1>28. ASSUME NEW c \in Calls, BrokerSignals(c) PROVE OwnedOK'
    BY <1>28, Moved, Went, Canceled DEF TypeOK, MainOK, OwnedOK, BrokerSignals, Places
<1> QED
  BY <1>1, <1>2, <1>3, <1>4, <1>5, <1>6, <1>7, <1>8, <1>9, <1>10, <1>11, <1>12, <1>13, <1>14,
     <1>15, <1>16, <1>17, <1>18, <1>19, <1>20, <1>21, <1>22, <1>23, <1>24, <1>25, <1>26, <1>27,
     <1>28 DEF Next, MainStep, MainLoop, DBusStep, Broker, Navigate

\* Each event in the queue is going to be processed.
LEMMA WakeupKept ==
    ASSUME IInv, Next
    PROVE  NoLostWakeup'
<1> USE CallsAssumption DEF IInv, call_vars, owner_vars, cookie_vars, event_vars, broker_vars,
    list_vars, MainAt, set_state
<1>1. CASE PointToParent
    BY <1>1, Moved, Went, Canceled DEF TypeOK, MainOK, NoLostWakeup, DBusGoto, PointToParent,
     Places
<1>2. ASSUME NEW c \in Calls, PointTo(c) PROVE NoLostWakeup'
    BY <1>2, Moved, Went, Canceled DEF TypeOK, MainOK, NoLostWakeup, DBusGoto, PointTo, Places
<1>3. ASSUME NEW c \in Calls, GetChildItem(c) PROVE NoLostWakeup'
    BY <1>3, Moved, Went, Canceled DEF TypeOK, MainOK, NoLostWakeup, DBusGoto, GetChildItem,
     Places
<1>4. CASE CancelNothing
    BY <1>4, Moved, Went, Canceled DEF TypeOK, MainOK, NoLostWakeup, DBusGoto, CancelNothing,
     Places
<1>5. CASE CancelLocally
    BY <1>5, Moved, Went, Canceled DEF TypeOK, MainOK, NoLostWakeup, DBusGoto, CancelLocally,
     Places
<1>6. CASE CancelByCookie
    BY <1>6, Moved, Went, Canceled DEF TypeOK, MainOK, NoLostWakeup, DBusGoto, CancelByCookie,
     Places
<1>7. CASE AbortReply
    BY <1>7, Moved, Went, Canceled DEF TypeOK, MainOK, NoLostWakeup, DBusGoto, AbortReply, Places
<1>8. CASE Request
    BY <1>8, Moved, Went, Canceled DEF TypeOK, MainOK, NoLostWakeup, DBusGoto, Request, Places
<1>9. CASE RequestCookie
    BY <1>9, Moved, Went, Canceled DEF TypeOK, MainOK, NoLostWakeup, DBusGoto,
     RequestCookie, set_pending_cookie,
     Places
<1>10. CASE RequestFastPath
    BY <1>10, Moved, Went, Canceled DEF TypeOK, MainOK, NoLostWakeup, DBusGoto, RequestFastPath,
     Places
<1>11. CASE RequestFailed
    BY <1>11, Moved, Went, Canceled DEF TypeOK, MainOK, NoLostWakeup, DBusGoto, RequestFailed,
     Places
<1>12. CASE FetchBlocking
    BY <1>12, Moved, Went, Canceled DEF TypeOK, MainOK, NoLostWakeup, DBusGoto, FetchBlocking,
     Places
<1>13. CASE NoMoreEvents
    BY <1>13, Moved, Went, Canceled DEF TypeOK, MainOK, NoLostWakeup, DBusGoto, NoMoreEvents,
     Places
<1>14. CASE TakeUserEvent
    BY <1>14, Moved, Went, Canceled DEF TypeOK, MainOK, NoLostWakeup, DBusGoto, TakeUserEvent,
     Places
<1>15. CASE TakeCookieEvent
    BY <1>15, Moved, Went, Canceled DEF TypeOK, MainOK, NoLostWakeup, DBusGoto, TakeCookieEvent,
     Places
<1>16. CASE FinishFetch
    BY <1>16, Moved, Went, Canceled DEF TypeOK, MainOK, NoLostWakeup, DBusGoto, FinishFetch,
     Places
<1>17. CASE FinishDone
    BY <1>17, Moved, Went, Canceled DEF TypeOK, MainOK, NoLostWakeup, DBusGoto, FinishDone,
     Places
<1>18. CASE Drop
    BY <1>18, Moved, Went, Canceled DEF TypeOK, MainOK, NoLostWakeup, DBusGoto, Drop, Places
<1>19. CASE process_pending_events
    BY <1>19, Moved, Went, Canceled DEF TypeOK, MainOK, NoLostWakeup, DBusGoto,
     process_pending_events, Places
<1>20. CASE execute
    BY <1>20, Moved, Went, Canceled DEF TypeOK, MainOK, NoLostWakeup, DBusGoto, execute, Places
<1>21. CASE handle_enter_list_event
    BY <1>21, Moved, Went, Canceled DEF TypeOK, MainOK, NoLostWakeup, DBusGoto,
     handle_enter_list_event, Places
<1>22. CASE InputEvent
    BY <1>22, Moved, Went, Canceled DEF TypeOK, MainOK, NoLostWakeup, DBusGoto, InputEvent,
     Places
<1>23. CASE available
    BY <1>23, Moved, Went, Canceled DEF TypeOK, MainOK, NoLostWakeup, DBusGoto, available, Places
<1>24. CASE notification
    BY <1>24, Moved, Went, Canceled DEF TypeOK, MainOK, NoLostWakeup, DBusGoto, notification,
     Places
<1>25. CASE post
    BY <1>25, Moved, Went, Canceled DEF TypeOK, MainOK, NoLostWakeup, DBusGoto, post, Places
<1>26. CASE trigger_processing
    BY <1>26, Moved, Went, Canceled DEF TypeOK, MainOK, NoLostWakeup, DBusGoto,
     trigger_processing, Places
<1>27. ASSUME NEW c \in Calls, BrokerReplies(c) PROVE NoLostWakeup'
    BY <1>27, Moved, Went, Canceled DEF TypeOK, MainOK, NoLostWakeup, DBusGoto, BrokerReplies,
     Places
<1>28. ASSUME NEW c \in Calls, BrokerSignals(c) PROVE NoLostWakeup'
    BY <1>28, Moved, Went, Canceled DEF TypeOK, MainOK, NoLostWakeup, DBusGoto, BrokerSignals,
     Places
<1> QED
  BY <1>1, <1>2, <1>3, <1>4, <1>5, <1>6, <1>7, <1>8, <1>9, <1>10, <1>11, <1>12, <1>13, <1>14,
     <1>15, <1>16, <1>17, <1>18, <1>19, <1>20, <1>21, <1>22, <1>23, <1>24, <1>25, <1>26, <1>27,
     <1>28 DEF Next, MainStep, MainLoop, DBusStep, Broker, Navigate

\* The slot is for the latest list, and a child leaves it with its answer.
LEMMA SlotKept ==
    ASSUME IInv, Next
    PROVE  SlotOK'
<1> USE CallsAssumption DEF IInv, call_vars, owner_vars, cookie_vars, event_vars, broker_vars,
    list_vars, MainAt, set_state
<1>1. CASE PointToParent
    BY <1>1, Moved, Went, Canceled DEF TypeOK, MainOK, SlotOK, PointToParent, Places
<1>2. ASSUME NEW c \in Calls, PointTo(c) PROVE SlotOK'
    BY <1>2, Moved, Went, Canceled DEF TypeOK, MainOK, SlotOK, PointTo, Places
<1>3. ASSUME NEW c \in Calls, GetChildItem(c) PROVE SlotOK'
    BY <1>3, Moved, Went, Canceled DEF TypeOK, MainOK, SlotOK, GetChildItem, Places
<1>4. CASE CancelNothing
    BY <1>4, Moved, Went, Canceled DEF TypeOK, MainOK, SlotOK, CancelNothing, Places
<1>5. CASE CancelLocally
    BY <1>5, Moved, Went, Canceled, SlotLeft DEF TypeOK, MainOK, SlotOK, CancelLocally, Places
<1>6. CASE CancelByCookie
    BY <1>6, Moved, Went, Canceled DEF TypeOK, MainOK, SlotOK, CancelByCookie, Places
<1>7. CASE AbortReply
    BY <1>7, Moved, Went, Canceled, AbortReplied, SlotLeft DEF TypeOK, MainOK, SlotOK,
     AbortReply, Places
<1>8. CASE Request
    BY <1>8, Moved, Went, Canceled DEF TypeOK, MainOK, SlotOK, Request, Places
<1>9. CASE RequestCookie
    BY <1>9, Moved, Went, Canceled DEF TypeOK, MainOK, SlotOK,
     RequestCookie, set_pending_cookie, Places
<1>10. CASE RequestFastPath
    BY <1>10, Moved, Went, Canceled, GotListID DEF TypeOK, MainOK, SlotOK, RequestFastPath,
     Places
<1>11. CASE RequestFailed
    BY <1>11, Moved, Went, Canceled, SlotLeft DEF TypeOK, MainOK, SlotOK, RequestFailed, Places
<1>12. CASE FetchBlocking
    BY <1>12, Moved, Went, Canceled DEF TypeOK, MainOK, SlotOK, FetchBlocking, Places
<1>13. CASE NoMoreEvents
    BY <1>13, Moved, Went, Canceled DEF TypeOK, MainOK, SlotOK, NoMoreEvents, Places
<1>14. CASE TakeUserEvent
    BY <1>14, Moved, Went, Canceled DEF TypeOK, MainOK, SlotOK, TakeUserEvent, Places
<1>15. CASE TakeCookieEvent
    BY <1>15, Moved, Went, Canceled DEF TypeOK, MainOK, SlotOK, TakeCookieEvent, Places
<1>16. CASE FinishFetch
  <2>1. main'.at = "drop" /\ main'.call = main.call /\ main.call \in Calls
    BY <1>16, Moved DEF TypeOK, MainOK, FinishFetch, Places
  <2>2. PICK r \in Results : got_list_id(main.call, r)
    BY <1>16, Fetched
  <2>3. fetch_functions' = fetch_functions
    BY <1>16 DEF FinishFetch
  <2>4. /\ slot' \in {slot, None} /\ latest' = latest
        /\ slot \in Child => slot' = IF main.call = slot THEN None ELSE slot
    BY <2>1, <2>2, GotListID
  <2> QED BY <1>16, <2>1, <2>3, <2>4 DEF TypeOK, SlotOK, FinishFetch
<1>17. CASE FinishDone
    BY <1>17, Moved, Went, Canceled, GotListID DEF TypeOK, MainOK, SlotOK, FinishDone, Places
<1>18. CASE Drop
    BY <1>18, Moved, Went, Canceled, Destroyed DEF TypeOK, MainOK, SlotOK, Drop, Places
<1>19. CASE process_pending_events
    BY <1>19, Moved, Went, Canceled DEF TypeOK, MainOK, SlotOK, process_pending_events, Places
<1>20. CASE execute
    BY <1>20, Moved, Went, Canceled, Destroyed DEF TypeOK, MainOK, SlotOK, execute, Places
<1>21. CASE handle_enter_list_event
    BY <1>21, Moved, Went, Canceled, SlotLeft DEF TypeOK, MainOK, SlotOK,
     handle_enter_list_event, Places
<1>22. CASE InputEvent
    BY <1>22, Moved, Went, Canceled DEF TypeOK, MainOK, SlotOK, InputEvent, Places
<1>23. CASE available
    BY <1>23, Moved, Went, Canceled DEF TypeOK, MainOK, SlotOK, available, Places
<1>24. CASE notification
    BY <1>24, Moved, Went, Canceled DEF TypeOK, MainOK, SlotOK, notification, Places
<1>25. CASE post
    BY <1>25, Moved, Went, Canceled DEF TypeOK, MainOK, SlotOK, post, Places
<1>26. CASE trigger_processing
    BY <1>26, Moved, Went, Canceled DEF TypeOK, MainOK, SlotOK, trigger_processing, Places
<1>27. ASSUME NEW c \in Calls, BrokerReplies(c) PROVE SlotOK'
    BY <1>27, Moved, Went, Canceled DEF TypeOK, MainOK, SlotOK, BrokerReplies, Places
<1>28. ASSUME NEW c \in Calls, BrokerSignals(c) PROVE SlotOK'
    BY <1>28, Moved, Went, Canceled DEF TypeOK, MainOK, SlotOK, BrokerSignals, Places
<1> QED
  BY <1>1, <1>2, <1>3, <1>4, <1>5, <1>6, <1>7, <1>8, <1>9, <1>10, <1>11, <1>12, <1>13, <1>14,
     <1>15, <1>16, <1>17, <1>18, <1>19, <1>20, <1>21, <1>22, <1>23, <1>24, <1>25, <1>26, <1>27,
     <1>28 DEF Next, MainStep, MainLoop, DBusStep, Broker, Navigate

\* Calls come and go one by one, but for those on the death row.
LEMMA BusyGrows ==
    ASSUME TypeOK, BusyOK, NEW c \in Calls \ Live, Live' = Live \cup {c},
           busy_count' = busy_count + 1
    PROVE  BusyOK'
<1>1. IsFiniteSet(Live) /\ Cardinality(Live) \in Nat /\ {} \in SUBSET Live
  BY LiveFacts
<1>2. Cardinality(Live \cup {c}) = Cardinality(Live) + 1
  BY <1>1, FS_AddElement
<1> QED BY <1>1, <1>2 DEF TypeOK, BusyOK

LEMMA BusyFalls ==
    ASSUME TypeOK, BusyOK, Live' = Live, busy_count' \in Nat, busy_count' <= busy_count
    PROVE  BusyOK'
<1>1. Cardinality(Live) \in Nat
  BY LiveFacts, {} \in SUBSET Live
<1> QED BY <1>1 DEF TypeOK, BusyOK

\* The busy flag is up for calls that exist.
LEMMA BusyKept ==
    ASSUME IInv, Next
    PROVE  BusyOK'
<1> USE CallsAssumption DEF IInv, call_vars, owner_vars, cookie_vars, event_vars, broker_vars,
    list_vars, MainAt, set_state
<1>1. CASE PointToParent
    BY <1>1, BusyFalls DEF TypeOK, PointToParent, Live
<1>2. ASSUME NEW c \in Calls, PointTo(c) PROVE BusyOK'
    BY <1>2, BusyFalls DEF TypeOK, PointTo, Live
<1>3. ASSUME NEW c \in Calls, GetChildItem(c) PROVE BusyOK'
    BY <1>3, BusyFalls DEF TypeOK, GetChildItem, Live
<1>4. CASE CancelNothing
    BY <1>4, BusyFalls DEF TypeOK, CancelNothing, Live
<1>5. CASE CancelLocally
  <2>1. slot \in Live /\ Live' = Live
    BY <1>5 DEF CancelLocally, OwnedOK, TypeOK, Live
  <2> QED BY <1>5, <2>1, BusyFalls DEF CancelLocally, TypeOK
<1>6. CASE CancelByCookie
    BY <1>6, BusyFalls DEF TypeOK, CancelByCookie, Live
<1>7. CASE AbortReply
  <2>1. slot \in Calls /\ slot \in Live
    BY <1>7 DEF AbortReply, MainOK, OwnedOK, Live
  <2>2. Live' = Live
    BY <1>7, <2>1, AbortReplied DEF TypeOK, Live
  <2> QED BY <1>7, <2>2, BusyFalls DEF AbortReply, TypeOK
<1>8. CASE Request
  <2>1. main.call \in Calls \ Live
    BY <1>8 DEF MainOK, Request
  <2>2. Live' = Live \cup {main.call}
    BY <1>8, <2>1 DEF Request, TypeOK, Live
  <2>3. busy_count' = busy_count + 1
    BY <1>8 DEF Request
  <2> QED BY <2>1, <2>2, <2>3, BusyGrows
<1>9. CASE RequestCookie
  <2>1. main.call \in Calls /\ main.call \in Live
    BY <1>9 DEF MainOK, RequestCookie, set_pending_cookie
  <2>2. state' = [state EXCEPT ![main.call] = "WAIT_FOR_NOTIFICATION"]
    BY <1>9 DEF RequestCookie, set_pending_cookie
  <2>3. Live' = Live
    BY <2>1, <2>2 DEF TypeOK, Live
  <2> QED BY <1>9, <2>3, BusyFalls DEF RequestCookie, set_pending_cookie, TypeOK
<1>10. CASE RequestFastPath
  <2>1. main.call \in Calls /\ main.call \in Live
    BY <1>10 DEF MainOK, RequestFastPath
  <2>2. state' = [state EXCEPT ![main.call] = "RESULT_FETCHED"]
    BY <1>10 DEF RequestFastPath
  <2>3. Live' = Live
    BY <2>1, <2>2 DEF TypeOK, Live
  <2>4. broker[main.call] \in Results \cup {None} /\ got_list_id(main.call, broker[main.call])
    BY <1>10 DEF RequestFastPath, Results
  <2> QED BY <2>1, <2>3, <2>4, GotListID, BusyFalls
<1>11. CASE RequestFailed
  <2>1. main.call \in Calls /\ main.call \in Live
    BY <1>11 DEF MainOK, RequestFailed
  <2>2. state' = [state EXCEPT ![main.call] = "FAILED"]
    BY <1>11 DEF RequestFailed
  <2>3. Live' = Live
    BY <2>1, <2>2 DEF TypeOK, Live
  <2> QED BY <1>11, <2>3, BusyFalls DEF RequestFailed, TypeOK
<1>12. CASE FetchBlocking
    BY <1>12, BusyFalls DEF TypeOK, FetchBlocking, Live
<1>13. CASE NoMoreEvents
    BY <1>13, BusyFalls DEF TypeOK, NoMoreEvents, Live
<1>14. CASE TakeUserEvent
    BY <1>14, BusyFalls DEF TypeOK, TakeUserEvent, Live
<1>15. CASE TakeCookieEvent
    BY <1>15, BusyFalls DEF TypeOK, TakeCookieEvent, Live
<1>16. CASE FinishFetch
  <2>1. main.call \in Calls /\ main.call \in Live
    BY <1>16 DEF MainOK, FinishFetch
  <2>2. PICK r \in Results :
           /\ state' = [state EXCEPT ![main.call] = IF r = "exception" THEN "FAILED"
                                                    ELSE "RESULT_FETCHED"]
           /\ got_list_id(main.call, r)
    BY <1>16, Fetched
  <2>3. Live' = Live
    BY <2>1, <2>2 DEF TypeOK, Live
  <2> QED BY <2>1, <2>2, <2>3, GotListID, BusyFalls
<1>17. CASE FinishDone
  <2>1. main.call \in Calls /\ result[main.call] \in Results \cup {None} /\ Live' = Live
    BY <1>17 DEF TypeOK, MainOK, FinishDone, Live
  <2>2. CASE state[main.call] = "WAIT_FOR_NOTIFICATION"
    BY <1>17, <2>1, <2>2, BusyFalls DEF FinishDone, TypeOK
  <2>3. CASE got_list_id(main.call, result[main.call])
    BY <2>1, <2>3, GotListID, BusyFalls
  <2> QED BY <1>17, <2>2, <2>3 DEF FinishDone
<1>18. CASE Drop
  <2>1. {main.call} \in SUBSET Live
    BY <1>18 DEF MainOK, Drop
  <2>2. CASE destroy({main.call})
    BY <2>1, <2>2, Destroyed
  <2>3. CASE UNCHANGED <<call_vars, broker, busy_count>>
    BY <2>3, BusyFalls DEF TypeOK, Live
  <2> QED BY <1>18, <2>2, <2>3 DEF Drop
<1>19. CASE process_pending_events
    BY <1>19, BusyFalls DEF TypeOK, process_pending_events, Live
<1>20. CASE execute
  <2>1. {c \in zombies : ~Referenced(c)} \in SUBSET Live
    BY DEF OwnedOK
  <2> QED BY <1>20, <2>1, Destroyed DEF execute
<1>21. CASE handle_enter_list_event
    BY <1>21, BusyFalls DEF TypeOK, handle_enter_list_event, Live
<1>22. CASE InputEvent
    BY <1>22, BusyFalls DEF TypeOK, InputEvent, Live
<1>23. CASE available
    BY <1>23, BusyFalls DEF TypeOK, available, Live
<1>24. CASE notification
  <2>1. Live' = Live
    BY <1>24 DEF notification, Expected, TypeOK, Live
  <2> QED BY <1>24, <2>1, BusyFalls DEF notification, TypeOK
<1>25. CASE post
    BY <1>25, BusyFalls DEF TypeOK, post, Live
<1>26. CASE trigger_processing
    BY <1>26, BusyFalls DEF TypeOK, trigger_processing, Live
<1>27. ASSUME NEW c \in Calls, BrokerReplies(c) PROVE BusyOK'
    BY <1>27, BusyFalls DEF TypeOK, BrokerReplies, Live
<1>28. ASSUME NEW c \in Calls, BrokerSignals(c) PROVE BusyOK'
    BY <1>28, BusyFalls DEF TypeOK, BrokerSignals, Live
<1> QED
  BY <1>1, <1>2, <1>3, <1>4, <1>5, <1>6, <1>7, <1>8, <1>9, <1>10, <1>11, <1>12, <1>13, <1>14,
     <1>15, <1>16, <1>17, <1>18, <1>19, <1>20, <1>21, <1>22, <1>23, <1>24, <1>25, <1>26, <1>27,
     <1>28 DEF Next, MainStep, MainLoop, DBusStep, Broker, Navigate

\* The list broker knows which calls exist, and which of them have cookies.
LEMMA BrokerKept ==
    ASSUME IInv, Next
    PROVE  BrokerOK'
<1> USE CallsAssumption DEF IInv, call_vars, owner_vars, cookie_vars, event_vars, broker_vars,
    list_vars, MainAt, set_state
<1>1. CASE PointToParent
    BY <1>1, SequenceKept, Moved, Went, Canceled DEF TypeOK, MainOK, BrokerOK, Requesting,
     PointToParent, Live, Places
<1>2. ASSUME NEW c \in Calls, PointTo(c) PROVE BrokerOK'
    BY <1>2, SequenceKept, Moved, Went, Canceled DEF TypeOK, MainOK, BrokerOK, Requesting,
     PointTo, Live, Places, IsNew
<1>3. ASSUME NEW c \in Calls, GetChildItem(c) PROVE BrokerOK'
    BY <1>3, SequenceKept, Moved, Went, Canceled DEF TypeOK, MainOK, BrokerOK, Requesting,
     GetChildItem, Live, Places, IsNew
<1>4. CASE CancelNothing
    BY <1>4, SequenceKept, Moved, Went, Canceled DEF TypeOK, MainOK, BrokerOK, Requesting,
     CancelNothing, Live, Places
<1>5. CASE CancelLocally
    BY <1>5, SequenceKept, Moved, Went, Canceled DEF TypeOK, MainOK, BrokerOK, Requesting,
     CancelLocally, Live, Places, OwnedOK
<1>6. CASE CancelByCookie
    BY <1>6, SequenceKept, Moved, Went, Canceled DEF TypeOK, MainOK, BrokerOK, Requesting,
     CancelByCookie, Live, Places, clear_cookie
<1>7. CASE AbortReply
  <2>1. slot \in Calls /\ slot \in Live /\ broker[slot] \in {"pending", "signalled"}
    BY <1>7 DEF AbortReply, MainOK, OwnedOK, BrokerOK, Live
  <2>2. /\ Live' = Live
        /\ \A c \in Calls : broker'[c] = broker[c] \/ (c = slot /\ broker'[c] = "signalled")
    BY <1>7, <2>1, AbortReplied DEF TypeOK, Live
  <2>3. main'.at # "requesting" /\ ~MainAt("requesting")
    BY <1>7, Canceled DEF AbortReply, TypeOK
  <2>4. UNCHANGED <<fetch_functions, has_cookie, cleared>>
    BY <1>7 DEF AbortReply
  <2> QED BY <2>1, <2>2, <2>3, <2>4 DEF BrokerOK, Requesting
<1>8. CASE Request
    BY <1>8, SequenceKept, Moved, Went, Canceled DEF TypeOK, MainOK, BrokerOK, Requesting,
     Request, Live, Places
<1>9. CASE RequestCookie
    BY <1>9, SequenceKept, Moved, Went, Canceled DEF TypeOK, MainOK, BrokerOK, Requesting,
     RequestCookie, set_pending_cookie, Live, Places
<1>10. CASE RequestFastPath
  <2>1. main'.at = "drop" /\ main.call \in Calls
    BY <1>10, Moved DEF MainOK, RequestFastPath, Places
  <2>2. /\ state' = [state EXCEPT ![main.call] = "RESULT_FETCHED"]
        /\ UNCHANGED <<has_cookie, cleared, fetch_functions, broker, signals>>
        /\ broker[main.call] \in {"data", "refused"}
    BY <1>10 DEF RequestFastPath
  <2> QED BY <1>10, <2>1, <2>2 DEF TypeOK, MainOK, BrokerOK, Requesting, Live, RequestFastPath
<1>11. CASE RequestFailed
  <2>1. main'.at = "drop" /\ main.call \in Calls
    BY <1>11, Moved DEF MainOK, RequestFailed, Places
  <2>2. /\ state' = [state EXCEPT ![main.call] = "FAILED"]
        /\ UNCHANGED <<has_cookie, cleared, fetch_functions, broker, signals>>
        /\ broker[main.call] = "exception"
    BY <1>11 DEF RequestFailed
  <2> QED BY <1>11, <2>1, <2>2 DEF TypeOK, MainOK, BrokerOK, Requesting, Live, RequestFailed
<1>12. CASE FetchBlocking
    BY <1>12, SequenceKept, Moved, Went, Canceled DEF TypeOK, MainOK, BrokerOK, Requesting,
     FetchBlocking, Live, Places
<1>13. CASE NoMoreEvents
    BY <1>13, SequenceKept, Moved, Went, Canceled DEF TypeOK, MainOK, BrokerOK, Requesting,
     NoMoreEvents, Live, Places
<1>14. CASE TakeUserEvent
    BY <1>14, SequenceKept, Moved, Went, Canceled DEF TypeOK, MainOK, BrokerOK, Requesting,
     TakeUserEvent, Live, Places
<1>15. CASE TakeCookieEvent
    BY <1>15, SequenceKept, Moved, Went, Canceled DEF TypeOK, MainOK, BrokerOK, Requesting,
     TakeCookieEvent, Live, Places
<1>16. CASE FinishFetch
  <2>1. main'.at = "drop" /\ main.call \in Calls /\ main.call \in Live
    BY <1>16, Moved DEF MainOK, FinishFetch, Places
  <2>2. PICK r \in Results :
           state' = [state EXCEPT ![main.call] = IF r = "exception" THEN "FAILED"
                                                 ELSE "RESULT_FETCHED"]
    BY <1>16, Fetched
  <2>3. /\ UNCHANGED <<fetch_functions, broker, signals>> /\ clear_cookie(main.call)
    BY <1>16 DEF FinishFetch
  <2>4. Live' = Live
    BY <2>1, <2>2 DEF TypeOK, Live
  <2>5. \A c \in Calls : has_cookie'[c] \/ cleared'[c] => has_cookie[c] \/ cleared[c]
    BY <2>1, <2>3 DEF TypeOK, clear_cookie
  <2> QED BY <1>16, <2>1, <2>3, <2>4, <2>5 DEF BrokerOK, Requesting, FinishFetch
<1>17. CASE FinishDone
    BY <1>17, SequenceKept, Moved, Went, Canceled DEF TypeOK, MainOK, BrokerOK, Requesting,
     FinishDone, Live, Places
<1>18. CASE Drop
  <2>1. main'.at # "requesting" /\ main.call \in Live /\ ~MainAt("requesting")
    BY <1>18, Went DEF TypeOK, MainOK, Drop, Places
  <2>2. UNCHANGED <<fetch_functions>>
    BY <1>18 DEF Drop
  <2>3. CASE UNCHANGED <<call_vars, broker, busy_count>>
    BY <2>1, <2>2, <2>3 DEF BrokerOK, Requesting, Live
  <2>4. CASE ~Referenced(main.call) /\ destroy({main.call})
    <3>1. main.call \notin fetch_functions
      BY <2>4 DEF Referenced
    <3>2. /\ Live' = Live \ {main.call}
          /\ \A c \in Calls \ {main.call} :
                /\ broker'[c] = broker[c]
                /\ has_cookie'[c] = has_cookie[c] /\ cleared'[c] = cleared[c]
          /\ broker'[main.call] = "none" /\ ~has_cookie'[main.call] /\ ~cleared'[main.call]
      BY <2>1, <2>4, Destroyed
    <3> QED BY <2>1, <2>2, <3>1, <3>2 DEF BrokerOK, Requesting
  <2> QED BY <1>18, <2>3, <2>4 DEF Drop
<1>19. CASE process_pending_events
    BY <1>19, SequenceKept, Moved, Went, Canceled DEF TypeOK, MainOK, BrokerOK, Requesting,
     process_pending_events, Live, Places
<1>20. CASE execute
  <2> DEFINE D == {c \in zombies : ~Referenced(c)}
  <2>1. D \in SUBSET Live /\ destroy(D) /\ D \subseteq Calls
    BY <1>20 DEF OwnedOK, execute, Live
  <2>2. /\ Live' = Live \ D
        /\ \A c \in Calls \ D :
              /\ broker'[c] = broker[c]
              /\ has_cookie'[c] = has_cookie[c] /\ cleared'[c] = cleared[c]
        /\ \A c \in D : broker'[c] = "none" /\ ~has_cookie'[c] /\ ~cleared'[c]
    BY <2>1, Destroyed
  <2>3. UNCHANGED <<main, fetch_functions>> /\ ~MainAt("requesting")
    BY <1>20 DEF execute
  <2>4. \A c \in D : c \notin fetch_functions
    BY DEF Referenced
  <2> HIDE DEF D
  <2> QED BY <2>1, <2>2, <2>3, <2>4 DEF BrokerOK, Requesting
<1>21. CASE handle_enter_list_event
    BY <1>21, SequenceKept, Moved, Went, Canceled DEF TypeOK, MainOK, BrokerOK, Requesting,
     handle_enter_list_event, Live, Places
<1>22. CASE InputEvent
    BY <1>22, SequenceKept, Moved, Went, Canceled DEF TypeOK, MainOK, BrokerOK, Requesting,
     InputEvent, Live, Places
<1>23. CASE available
  <2>1. /\ UNCHANGED <<main, state, broker, fetch_functions, has_cookie, cleared>>
        /\ ~MainAt("requesting")
    BY <1>23 DEF available
  <2> QED BY <2>1 DEF BrokerOK, Requesting, Live
<1>24. CASE notification
    BY <1>24, SequenceKept, Moved, Went, Canceled DEF TypeOK, MainOK, BrokerOK, Requesting,
     notification, Live, Places, Expected
<1>25. CASE post
    BY <1>25, SequenceKept, Moved, Went, Canceled DEF TypeOK, MainOK, BrokerOK, Requesting, post,
     Live, Places
<1>26. CASE trigger_processing
    BY <1>26, SequenceKept, Moved, Went, Canceled DEF TypeOK, MainOK, BrokerOK, Requesting,
     trigger_processing, Live, Places
<1>27. ASSUME NEW c \in Calls, BrokerReplies(c) PROVE BrokerOK'
  <2>1. PICK r \in Results \cup {"cookie"} :
           broker' = [broker EXCEPT ![c] = IF r = "cookie" THEN "pending" ELSE r]
    BY <1>27, BrokerAssumption DEF BrokerReplies
  <2>2. broker'[c] \in {"pending"} \cup Results /\ \A d \in Calls \ {c} : broker'[d] = broker[d]
    BY <2>1 DEF TypeOK
  <2>3. /\ UNCHANGED <<main, state, signals, fetch_functions, has_cookie, cleared>>
        /\ broker[c] = "asked"
    BY <1>27 DEF BrokerReplies
  <2> QED BY <2>2, <2>3, SequenceKept DEF BrokerOK, Requesting, Live, Results
<1>28. ASSUME NEW c \in Calls, BrokerSignals(c) PROVE BrokerOK'
  <2>1. PICK m \in Signal : m.call = c /\ signals' = Append(signals, m)
    BY <1>28 DEF BrokerSignals, Signal
  <2>2. InSignals(c)' /\ \A d : InSignals(d) => InSignals(d)'
    BY <2>1, SignalSent
  <2> QED BY <1>28, <2>2 DEF BrokerSignals, TypeOK, BrokerOK, Requesting, Live
<1> QED
  BY <1>1, <1>2, <1>3, <1>4, <1>5, <1>6, <1>7, <1>8, <1>9, <1>10, <1>11, <1>12, <1>13, <1>14,
     <1>15, <1>16, <1>17, <1>18, <1>19, <1>20, <1>21, <1>22, <1>23, <1>24, <1>25, <1>26, <1>27,
     <1>28 DEF Next, MainStep, MainLoop, DBusStep, Broker, Navigate

\* A cookie is in one place, and in the tables until it has got there.
LEMMA SignalsKept ==
    ASSUME IInv, Next
    PROVE  SignalsOK'
<1> USE CallsAssumption DEF IInv, call_vars, owner_vars, cookie_vars, event_vars, broker_vars,
    list_vars, MainAt, set_state
<1>1. CASE PointToParent
    BY <1>1, SequenceKept, Moved, Went, Canceled DEF TypeOK, SignalsOK, Requesting, OnItsWay,
     Told, AtDBus, DBusGoto, PointToParent, Places
<1>2. ASSUME NEW c \in Calls, PointTo(c) PROVE SignalsOK'
    BY <1>2, SequenceKept, Moved, Went, Canceled DEF TypeOK, SignalsOK, Requesting, OnItsWay,
     Told, AtDBus, DBusGoto, PointTo, Places
<1>3. ASSUME NEW c \in Calls, GetChildItem(c) PROVE SignalsOK'
    BY <1>3, SequenceKept, Moved, Went, Canceled DEF TypeOK, SignalsOK, Requesting, OnItsWay,
     Told, AtDBus, DBusGoto, GetChildItem, Places
<1>4. CASE CancelNothing
    BY <1>4, SequenceKept, Moved, Went, Canceled DEF TypeOK, SignalsOK, Requesting, OnItsWay,
     Told, AtDBus, DBusGoto, CancelNothing, Places
<1>5. CASE CancelLocally
    BY <1>5, SequenceKept, Moved, Went, Canceled DEF TypeOK, SignalsOK, Requesting, OnItsWay,
     Told, AtDBus, DBusGoto, CancelLocally, Places
<1>6. CASE CancelByCookie
    BY <1>6, SequenceKept, Moved, Went, Canceled DEF TypeOK, SignalsOK, Requesting, OnItsWay,
     Told, AtDBus, DBusGoto, CancelByCookie, Places
<1>7. CASE AbortReply
  <2>1. slot \in Calls /\ slot \in Live /\ broker[slot] \in {"pending", "signalled"}
    BY <1>7 DEF AbortReply, MainOK, OwnedOK, BrokerOK, Live
  <2>2. main'.at # "requesting" /\ ~MainAt("requesting")
    BY <1>7, Canceled DEF AbortReply, TypeOK
  <2>3. UNCHANGED <<fetch_functions, notification_functions, dbus, queue_>>
    BY <1>7 DEF AbortReply
  <2>4. (OneEvent <=> OneEvent') /\ \A c \in Calls : Told(c)' <=> Told(c)
    BY <2>3, SequenceKept DEF Told, AtDBus
  <2>5. /\ OneSignal'
        /\ \A c \in Calls : OnItsWay(c)' <=> OnItsWay(c)
        /\ \A c \in Calls : InSignals(c)' => broker'[c] = "signalled" /\ ~Told(c)
    <3>1. CASE UNCHANGED <<broker, signals>>
      BY <3>1, SequenceKept DEF SignalsOK, OnItsWay
    <3>2. CASE /\ broker[slot] = "pending" /\ broker'[slot] = "signalled"
               /\ \A c \in Calls \ {slot} : broker'[c] = broker[c]
               /\ signals' = Append(signals, [call |-> slot, error |-> TRUE])
      <4>1. [call |-> slot, error |-> TRUE] \in Signal /\ ~InSignals(slot) /\ ~Told(slot)
        BY <2>1, <3>2 DEF Signal, SignalsOK
      <4>2. OneSignal' /\ \A c : InSignals(c)' <=> InSignals(c) \/ c = slot
        BY <3>2, <4>1, SignalSent DEF SignalsOK
      <4> QED BY <2>1, <3>2, <4>1, <4>2 DEF OnItsWay, SignalsOK
    <3>3. CASE /\ broker[slot] # "pending" /\ broker'[slot] = "signalled" /\ signals' = signals
               /\ \A c \in Calls \ {slot} : broker'[c] = broker[c]
      BY <2>1, <3>3, SequenceKept DEF SignalsOK, OnItsWay
    <3> QED BY <1>7, <2>1, <3>1, <3>2, <3>3, AbortReplied
  <2>6. \A c \in Calls : Told(c) => broker'[c] = "signalled"
    BY <1>7, <2>1, AbortReplied DEF SignalsOK
  <2> QED BY <2>2, <2>3, <2>4, <2>5, <2>6, SequenceKept DEF SignalsOK, Requesting, AtDBus
<1>8. CASE Request
  <2>1. /\ main.call \in Calls \ Live /\ Requesting(main.call)'
        /\ \A d \in Calls : ~Requesting(d) /\ (d # main.call => ~Requesting(d)')
    BY <1>8, Moved DEF Request, MainOK, Requesting, Live, Places
  <2>2. /\ UNCHANGED <<dbus, signals, queue_, fetch_functions, notification_functions>>
        /\ broker' = [broker EXCEPT ![main.call] = "asked"]
    BY <1>8 DEF Request
  <2>3. /\ (OneEvent <=> OneEvent') /\ (OneSignal <=> OneSignal')
        /\ \A d : /\ (InSignals(d)' <=> InSignals(d)) /\ (InQueue(d)' <=> InQueue(d))
                  /\ (Told(d)' <=> Told(d)) /\ (AtDBus(d)' <=> AtDBus(d))
    BY <2>2, SequenceKept DEF Told, AtDBus
  <2>4. /\ broker[main.call] = "none" /\ ~InSignals(main.call) /\ ~Told(main.call)
        /\ main.call \notin fetch_functions
    BY <2>1 DEF BrokerOK, SignalsOK
  <2> QED BY <2>1, <2>2, <2>3, <2>4 DEF SignalsOK, OnItsWay, TypeOK
<1>9. CASE RequestCookie
  <2> DEFINE c == main.call
  <2>1. c \in Calls /\ Requesting(c) /\ OnItsWay(c) /\ ~Told(c)
    BY <1>9, Moved, Went DEF RequestCookie, set_pending_cookie, MainOK, BrokerOK,
     SignalsOK, OnItsWay, Requesting,
       TypeOK, Places
  <2>2. /\ notification_functions' = notification_functions \cup {c}
        /\ fetch_functions' = fetch_functions \cup {c}
        /\ UNCHANGED <<signals, queue_, broker, dbus>>
    BY <1>9 DEF RequestCookie, set_pending_cookie
  <2>3. \A d \in Calls : ~Requesting(d)' /\ (d # c => ~Requesting(d))
    BY <1>9, Moved, Went DEF RequestCookie, set_pending_cookie, Requesting, TypeOK, Places
  <2>4. /\ (OneEvent <=> OneEvent') /\ (OneSignal <=> OneSignal')
        /\ \A d \in Calls : /\ (InSignals(d)' <=> InSignals(d)) /\ (InQueue(d)' <=> InQueue(d))
                            /\ (OnItsWay(d)' <=> OnItsWay(d)) /\ (Told(d)' <=> Told(d))
                            /\ (AtDBus(d)' <=> AtDBus(d))
    BY <2>2, SequenceKept DEF OnItsWay, Told, AtDBus
  <2> HIDE DEF c
  <2> QED BY <2>1, <2>2, <2>3, <2>4 DEF SignalsOK
<1>10. CASE RequestFastPath
    BY <1>10, SequenceKept, Moved, Went, Canceled DEF TypeOK, SignalsOK, Requesting, OnItsWay,
     Told, AtDBus, DBusGoto, RequestFastPath, Places
<1>11. CASE RequestFailed
    BY <1>11, SequenceKept, Moved, Went, Canceled DEF TypeOK, SignalsOK, Requesting, OnItsWay,
     Told, AtDBus, DBusGoto, RequestFailed, Places
<1>12. CASE FetchBlocking
    BY <1>12, SequenceKept, Moved, Went, Canceled DEF TypeOK, SignalsOK, Requesting, OnItsWay,
     Told, AtDBus, DBusGoto, FetchBlocking, Places
<1>13. CASE NoMoreEvents
    BY <1>13, SequenceKept, Moved, Went, Canceled DEF TypeOK, SignalsOK, Requesting, OnItsWay,
     Told, AtDBus, DBusGoto, NoMoreEvents, Places
<1>14. CASE TakeUserEvent
  <2>1. /\ OneEvent' /\ \A d : InQueue(d)' => InQueue(d)
        /\ \A d \in Calls : InQueue(d) => InQueue(d)'
    BY <1>14, EventTaken DEF TakeUserEvent, SignalsOK
  <2>2. /\ UNCHANGED <<dbus, signals, broker, fetch_functions, notification_functions>>
        /\ \A d : ~Requesting(d) /\ ~Requesting(d)'
    BY <1>14, Went DEF TakeUserEvent, Requesting, Places
  <2> QED BY <2>1, <2>2, SequenceKept DEF SignalsOK, OnItsWay, Told, AtDBus
<1>15. CASE TakeCookieEvent
  <2> DEFINE c == Head(queue_)
  <2>1. /\ c \in Calls /\ InQueue(c) /\ Told(c) /\ OneEvent'
        /\ \A d : InQueue(d)' => InQueue(d) /\ d # c
        /\ \A d : InQueue(d) /\ d # c => InQueue(d)'
    BY <1>15, EventTaken DEF TakeCookieEvent, Told, SignalsOK
  <2>2. /\ fetch_functions' = fetch_functions \ {c}
        /\ UNCHANGED <<notification_functions, signals, broker, dbus>>
        /\ \A d \in Calls : ~Requesting(d) /\ ~Requesting(d)'
    BY <1>15, <2>1, Went DEF TakeCookieEvent, Requesting, Places
  <2>3. /\ (OneSignal <=> OneSignal')
        /\ \A d \in Calls : /\ (InSignals(d)' <=> InSignals(d)) /\ (AtDBus(d)' <=> AtDBus(d))
                            /\ (OnItsWay(d)' <=> OnItsWay(d))
                            /\ Told(d)' => Told(d) /\ d # c
    <3>1. ~AtDBus(c)
      BY <2>1 DEF SignalsOK
    <3> HIDE DEF c
    <3> QED BY <2>1, <2>2, <3>1, SequenceKept DEF OnItsWay, Told, AtDBus
  <2>4. c \notin notification_functions
    BY <2>1 DEF SignalsOK, OnItsWay
  <2> HIDE DEF c
  <2> QED BY <2>1, <2>2, <2>3, <2>4 DEF SignalsOK, AtDBus
<1>16. CASE FinishFetch
    BY <1>16, SequenceKept, Moved, Went, Canceled DEF TypeOK, SignalsOK, Requesting, OnItsWay,
     Told, AtDBus, DBusGoto, FinishFetch, Places
<1>17. CASE FinishDone
    BY <1>17, SequenceKept, Moved, Went, Canceled DEF TypeOK, SignalsOK, Requesting, OnItsWay,
     Told, AtDBus, DBusGoto, FinishDone, Places
<1>18. CASE Drop
  <2>1. /\ \A c \in Calls : ~Requesting(c) /\ ~Requesting(c)'
        /\ main.call \in Live /\ main.call \in Calls
        /\ UNCHANGED <<fetch_functions, notification_functions, dbus, queue_, signals>>
    BY <1>18, Went DEF TypeOK, MainOK, Drop, Places, Requesting
  <2>2. /\ (OneEvent <=> OneEvent') /\ (OneSignal <=> OneSignal')
        /\ \A d : /\ (InSignals(d)' <=> InSignals(d)) /\ (InQueue(d)' <=> InQueue(d))
                  /\ (Told(d)' <=> Told(d)) /\ (AtDBus(d)' <=> AtDBus(d))
    BY <2>1, SequenceKept DEF Told, AtDBus
  <2>3. CASE UNCHANGED <<call_vars, broker, busy_count>>
    BY <2>1, <2>2, <2>3 DEF SignalsOK, OnItsWay
  <2>4. CASE ~Referenced(main.call) /\ destroy({main.call})
    <3>1. main.call \notin fetch_functions /\ main.call \notin notification_functions
      BY <2>4 DEF Referenced
    <3>2. /\ \A c \in Calls \ {main.call} : broker'[c] = broker[c]
          /\ broker'[main.call] = "none"
      BY <2>1, <2>4, Destroyed
    <3> QED BY <2>1, <2>2, <3>1, <3>2 DEF SignalsOK, OnItsWay
  <2> QED BY <1>18, <2>3, <2>4 DEF Drop
<1>19. CASE process_pending_events
    BY <1>19, SequenceKept, Moved, Went, Canceled DEF TypeOK, SignalsOK, Requesting, OnItsWay,
     Told, AtDBus, DBusGoto, process_pending_events, Places
<1>20. CASE execute
  <2> DEFINE D == {c \in zombies : ~Referenced(c)}
  <2>1. D \in SUBSET Live /\ destroy(D) /\ D \subseteq Calls
    BY <1>20 DEF OwnedOK, execute, Live
  <2>2. /\ \A c \in Calls \ D : broker'[c] = broker[c]
        /\ \A c \in D : broker'[c] = "none"
    BY <2>1, Destroyed
  <2>3. /\ \A c \in Calls : ~Requesting(c) /\ ~Requesting(c)'
        /\ UNCHANGED <<fetch_functions, notification_functions, dbus, queue_, signals>>
    BY <1>20 DEF execute, Requesting
  <2>4. \A c \in D : c \notin fetch_functions /\ c \notin notification_functions
    BY DEF Referenced
  <2>5. /\ (OneEvent <=> OneEvent') /\ (OneSignal <=> OneSignal')
        /\ \A d : /\ (InSignals(d)' <=> InSignals(d)) /\ (InQueue(d)' <=> InQueue(d))
                  /\ (Told(d)' <=> Told(d)) /\ (AtDBus(d)' <=> AtDBus(d))
    BY <2>3, SequenceKept DEF Told, AtDBus
  <2> HIDE DEF D
  <2> QED BY <2>1, <2>2, <2>3, <2>4, <2>5 DEF SignalsOK, OnItsWay
<1>21. CASE handle_enter_list_event
    BY <1>21, SequenceKept, Moved, Went, Canceled DEF TypeOK, SignalsOK, Requesting, OnItsWay,
     Told, AtDBus, DBusGoto, handle_enter_list_event, Places
<1>22. CASE InputEvent
    BY <1>22, SequenceKept, Moved, Went, Canceled DEF TypeOK, SignalsOK, Requesting, OnItsWay,
     Told, AtDBus, DBusGoto, InputEvent, Places
<1>23. CASE available
  <2> DEFINE c == Head(signals).call
  <2>1. /\ c \in Calls /\ InSignals(c) /\ OneSignal'
        /\ \A d : InSignals(d)' => InSignals(d) /\ d # c
        /\ \A d : InSignals(d) /\ d # c => InSignals(d)'
    BY <1>23, SignalTaken DEF available, Signal, SignalsOK
  <2>2. /\ \A d \in Calls : ~Requesting(d) /\ ~Requesting(d)' /\ ~AtDBus(d)
        /\ UNCHANGED <<fetch_functions, broker, queue_>>
        /\ notification_functions' = notification_functions \ {c}
    BY <1>23 DEF available, Requesting, AtDBus
  <2>3. c \in notification_functions
    BY <2>1, <2>2 DEF SignalsOK, OnItsWay
  <2>4. dbus'.at = "notify" /\ dbus'.call = c
    BY <1>23, <2>3 DEF available
  <2>5. /\ (OneEvent <=> OneEvent')
        /\ \A d : InQueue(d)' <=> InQueue(d)
        /\ \A d : (AtDBus(d)' <=> d = c) /\ (Told(d)' <=> InQueue(d) \/ d = c)
    BY <2>2, <2>4, SequenceKept DEF Told, AtDBus
  <2> HIDE DEF c
  <2> QED BY <2>1, <2>2, <2>3, <2>4, <2>5 DEF SignalsOK, OnItsWay, Told
<1>24. CASE notification
  <2>1. /\ UNCHANGED <<main, fetch_functions, notification_functions, broker, queue_, signals>>
        /\ dbus'.at = "post" /\ dbus'.call = dbus.call /\ dbus.at = "notify"
    BY <1>24 DEF notification, TypeOK
  <2>2. /\ (OneEvent <=> OneEvent') /\ (OneSignal <=> OneSignal')
        /\ \A d : /\ (InSignals(d)' <=> InSignals(d)) /\ (InQueue(d)' <=> InQueue(d))
                  /\ (Told(d)' <=> Told(d)) /\ (AtDBus(d)' <=> AtDBus(d))
                  /\ (Requesting(d)' <=> Requesting(d))
    BY <2>1, SequenceKept DEF Told, AtDBus, Requesting
  <2>3. dbus.call # None
    BY <2>1 DEF SignalsOK
  <2> QED BY <2>1, <2>2, <2>3 DEF SignalsOK, OnItsWay
<1>25. CASE post
  <2> DEFINE e == dbus.call
  <2>1. /\ UNCHANGED <<main, fetch_functions, notification_functions, broker, signals>>
        /\ dbus'.at \in {"trigger", "idle"} /\ dbus.at = "post" /\ queue_' = Append(queue_, e)
        /\ e \in Calls \cup {User}
    BY <1>25 DEF post, DBusGoto, TypeOK, SignalsOK
  <2>2. e # User => ~InQueue(e)
    BY <2>1 DEF SignalsOK, AtDBus
  <2>3. OneEvent' /\ \A d : InQueue(d)' <=> InQueue(d) \/ d = e
    BY <2>1, <2>2, EventPosted DEF SignalsOK
  <2>4. /\ (OneSignal <=> OneSignal')
        /\ \A d : /\ (InSignals(d)' <=> InSignals(d)) /\ (Told(d)' <=> Told(d)) /\ ~AtDBus(d)'
                  /\ (Requesting(d)' <=> Requesting(d))
    BY <2>1, <2>3, SequenceKept DEF Told, AtDBus, Requesting
  <2> HIDE DEF e
  <2> QED BY <2>1, <2>3, <2>4 DEF SignalsOK, OnItsWay
<1>26. CASE trigger_processing
    BY <1>26, SequenceKept, Moved, Went, Canceled DEF TypeOK, SignalsOK, Requesting, OnItsWay,
     Told, AtDBus, DBusGoto, trigger_processing, Places
<1>27. ASSUME NEW c \in Calls, BrokerReplies(c) PROVE SignalsOK'
  <2>1. PICK r \in Results \cup {"cookie"} :
           broker' = [broker EXCEPT ![c] = IF r = "cookie" THEN "pending" ELSE r]
    BY <1>27, BrokerAssumption DEF BrokerReplies
  <2>2. /\ UNCHANGED <<main, dbus, signals, queue_, fetch_functions, notification_functions>>
        /\ broker[c] = "asked" /\ \A d \in Calls \ {c} : broker'[d] = broker[d]
    BY <1>27, <2>1 DEF BrokerReplies, TypeOK
  <2>3. /\ (OneEvent <=> OneEvent') /\ (OneSignal <=> OneSignal')
        /\ \A d : /\ (InSignals(d)' <=> InSignals(d)) /\ (InQueue(d)' <=> InQueue(d))
                  /\ (Told(d)' <=> Told(d)) /\ (AtDBus(d)' <=> AtDBus(d))
                  /\ (Requesting(d)' <=> Requesting(d))
    BY <2>2, SequenceKept DEF Told, AtDBus, Requesting
  <2>4. Requesting(c)
    BY <2>2 DEF BrokerOK
  <2> QED BY <2>2, <2>3, <2>4 DEF SignalsOK, OnItsWay
<1>28. ASSUME NEW c \in Calls, BrokerSignals(c) PROVE SignalsOK'
  <2>1. PICK m \in Signal : m.call = c /\ signals' = Append(signals, m)
    BY <1>28 DEF BrokerSignals, Signal
  <2>2. /\ broker[c] = "pending" /\ broker'[c] = "signalled"
        /\ \A d \in Calls \ {c} : broker'[d] = broker[d]
        /\ UNCHANGED <<main, dbus, queue_, fetch_functions, notification_functions>>
    BY <1>28 DEF BrokerSignals, TypeOK
  <2>3. ~InSignals(c) /\ ~Told(c)
    BY <2>2 DEF SignalsOK
  <2>4. OneSignal' /\ \A d : InSignals(d)' <=> InSignals(d) \/ d = c
    BY <2>1, <2>3, SignalSent DEF SignalsOK
  <2>5. /\ (OneEvent <=> OneEvent')
        /\ \A d : /\ (InQueue(d)' <=> InQueue(d)) /\ (Requesting(d)' <=> Requesting(d))
                  /\ (Told(d)' <=> Told(d)) /\ (AtDBus(d)' <=> AtDBus(d))
    BY <2>2, SequenceKept DEF Told, AtDBus, Requesting
  <2> QED BY <2>2, <2>3, <2>4, <2>5 DEF SignalsOK, OnItsWay
<1> QED
  BY <1>1, <1>2, <1>3, <1>4, <1>5, <1>6, <1>7, <1>8, <1>9, <1>10, <1>11, <1>12, <1>13, <1>14,
     <1>15, <1>16, <1>17, <1>18, <1>19, <1>20, <1>21, <1>22, <1>23, <1>24, <1>25, <1>26, <1>27,
     <1>28 DEF Next, MainStep, MainLoop, DBusStep, Broker, Navigate

\* A call that has not been told waits for that.
LEMMA StatesKept ==
    ASSUME IInv, Next
    PROVE  StatesOK'
<1> USE CallsAssumption DEF IInv, call_vars, owner_vars, cookie_vars, event_vars, broker_vars,
    list_vars, MainAt, set_state
<1>1. CASE PointToParent
    BY <1>1, Moved, Went, Canceled DEF TypeOK, MainOK, StatesOK, WaitingIsReachable,
     CanBeNotified, CanBeFetched, Active, PointToParent, DBusGoto, Places
<1>2. ASSUME NEW c \in Calls, PointTo(c) PROVE StatesOK'
    BY <1>2, Moved, Went, Canceled DEF TypeOK, MainOK, StatesOK, WaitingIsReachable,
     CanBeNotified, CanBeFetched, Active, PointTo, DBusGoto, Places, IsNew
<1>3. ASSUME NEW c \in Calls, GetChildItem(c) PROVE StatesOK'
    BY <1>3, Moved, Went, Canceled DEF TypeOK, MainOK, StatesOK, WaitingIsReachable,
     CanBeNotified, CanBeFetched, Active, GetChildItem, DBusGoto, Places, IsNew
<1>4. CASE CancelNothing
    BY <1>4, Moved, Went, Canceled DEF TypeOK, MainOK, StatesOK, WaitingIsReachable,
     CanBeNotified, CanBeFetched, Active, CancelNothing, DBusGoto, Places
<1>5. CASE CancelLocally
  <2>1. slot' = None /\ slot \in Calls \ Blocking
    BY <1>5, SlotLeft DEF CancelLocally, TypeOK
  <2>2. /\ \A c \in Calls \ {slot} : state'[c] = state[c]
        /\ state'[slot] \notin Active \cup {"WAIT_FOR_NOTIFICATION"}
        /\ state[slot] \notin {"WAIT_FOR_NOTIFICATION", "ABORTING"}
    BY <1>5, <2>1 DEF CancelLocally, TypeOK, StatesOK, Active
  <2>3. /\ UNCHANGED <<has_cookie, cleared, notification_functions, fetch_functions, dbus>>
        /\ main.at # "finish"
    BY <1>5 DEF CancelLocally
  <2> QED BY <2>1, <2>2, <2>3 
       DEF TypeOK, MainOK, StatesOK, WaitingIsReachable, CanBeNotified, CanBeFetched, Active, TypeOK
<1>6. CASE CancelByCookie
    BY <1>6, Moved, Went, Canceled DEF TypeOK, MainOK, StatesOK, WaitingIsReachable,
     CanBeNotified, CanBeFetched, Active, CancelByCookie, DBusGoto, Places, clear_cookie,
     OwnedOK, Live
<1>7. CASE AbortReply
  <2>1. slot' = None /\ slot \in Calls \ Blocking /\ cleared[slot]
    BY <1>7, SlotLeft DEF AbortReply, MainOK, TypeOK
  <2>2. /\ \A c \in Calls \ {slot} : state'[c] = state[c]
        /\ state'[slot] \in {"ABORTING", state[slot]}
    BY <1>7, <2>1, AbortReplied
  <2>3. /\ UNCHANGED <<has_cookie, cleared, notification_functions, fetch_functions, dbus>>
        /\ main.at # "finish"
    BY <1>7 DEF AbortReply
  <2> QED
    <3> USE <2>1, <2>2, <2>3
    <3>1. WaitingIsReachable'
      BY DEF WaitingIsReachable, CanBeNotified, CanBeFetched, StatesOK, Active, TypeOK, MainOK
    <3>2. (\A d \in Calls : CanBeNotified(d) =>
                /\ has_cookie[d] \/ cleared[d]
                /\ state[d] \in {"WAIT_FOR_NOTIFICATION", "ABORTING"})'
      BY DEF CanBeNotified, StatesOK, TypeOK, MainOK
    <3>3. (slot # None /\ ~MainAt("abort") /\ state[slot] \in Active => has_cookie[slot])'
      BY DEF StatesOK, Active, TypeOK, MainOK
    <3>4. (\A d \in (Blocking \cup {slot}) \ {None} : state[d] # "ABORTING")'
      BY DEF StatesOK, TypeOK, MainOK
    <3> QED BY ONLY <3>1, <3>2, <3>3, <3>4 DEF StatesOK
<1>8. CASE Request
  <2>1. /\ main.call \in Calls \ Live /\ main'.at = "requesting"
        /\ state' = [state EXCEPT ![main.call] = "INITIALIZED"]
        /\ UNCHANGED <<has_cookie, cleared, notification_functions, fetch_functions, dbus>>
        /\ slot' \in {slot, main.call} /\ main.at = "request"
    BY <1>8, Moved DEF Request, MainOK, Live, Places
  <2>2. ~CanBeNotified(main.call)
    BY <2>1 DEF StatesOK, Live
  <2> QED BY <2>1, <2>2 
       DEF TypeOK, MainOK, StatesOK, WaitingIsReachable, CanBeNotified, CanBeFetched, Active
<1>9. CASE RequestCookie
  <2> DEFINE c == main.call
  <2>1. /\ c \in Calls /\ state' = [state EXCEPT ![c] = "WAIT_FOR_NOTIFICATION"]
        /\ has_cookie' = [has_cookie EXCEPT ![c] = TRUE]
        /\ notification_functions' = notification_functions \cup {c}
        /\ fetch_functions' = fetch_functions \cup {c}
        /\ UNCHANGED <<cleared, dbus, slot>>
        /\ main.at = "requesting"
    BY <1>9 DEF RequestCookie, set_pending_cookie, MainOK
  <2> HIDE DEF c
  <2> QED BY <2>1 
       DEF TypeOK, MainOK, StatesOK, WaitingIsReachable, CanBeNotified, CanBeFetched, Active
<1>10. CASE RequestFastPath
  <2>1. /\ main.call \in Calls /\ state' = [state EXCEPT ![main.call] = "RESULT_FETCHED"]
        /\ broker[main.call] \in Results \cup {None} /\ got_list_id(main.call, broker[main.call])
        /\ UNCHANGED <<has_cookie, cleared, notification_functions, fetch_functions, dbus>>
        /\ main.at = "requesting" /\ Requesting(main.call)
    BY <1>10 DEF RequestFastPath, MainOK, Results, Requesting
  <2>2. slot' \in {slot, None}
    BY <2>1, GotListID
  <2>3. ~CanBeNotified(main.call)
    BY <2>1 DEF StatesOK, MainOK
  <2> QED BY <2>1, <2>2, <2>3 
       DEF TypeOK, MainOK, StatesOK, WaitingIsReachable, CanBeNotified, CanBeFetched, Active
<1>11. CASE RequestFailed
  <2>1. /\ main.call \in Calls /\ state' = [state EXCEPT ![main.call] = "FAILED"]
        /\ UNCHANGED <<has_cookie, cleared, notification_functions, fetch_functions, dbus>>
        /\ main.at = "requesting"
    BY <1>11 DEF RequestFailed, MainOK
  <2>2. slot' \in {slot, None}
    BY <1>11, SlotLeft DEF RequestFailed
  <2>3. ~CanBeNotified(main.call)
    BY <2>1 DEF StatesOK, MainOK
  <2> QED BY <2>1, <2>2, <2>3 
       DEF TypeOK, MainOK, StatesOK, WaitingIsReachable, CanBeNotified, CanBeFetched, Active
<1>12. CASE FetchBlocking
  <2>1.
       
        /\ UNCHANGED <<state, has_cookie, cleared, notification_functions, fetch_functions, dbus, slot>>
        /\ main.at = "waiting" /\ main'.at = "finish" /\ main'.call = main.call
    BY <1>12, Moved DEF FetchBlocking, Places
  <2> QED BY <2>1 
       DEF TypeOK, MainOK, StatesOK, WaitingIsReachable, CanBeNotified, CanBeFetched, Active
<1>13. CASE NoMoreEvents
    BY <1>13, Moved, Went, Canceled DEF TypeOK, MainOK, StatesOK, WaitingIsReachable,
     CanBeNotified, CanBeFetched, Active, NoMoreEvents, DBusGoto, Places
<1>14. CASE TakeUserEvent
    BY <1>14, Moved, Went, Canceled DEF TypeOK, MainOK, StatesOK, WaitingIsReachable,
     CanBeNotified, CanBeFetched, Active, TakeUserEvent, DBusGoto, Places
<1>15. CASE TakeCookieEvent
  <2> DEFINE c == Head(queue_)
  <2>1. c \in Calls /\ Told(c)
    BY <1>15, EventTaken DEF TakeCookieEvent, Told
  <2>2. c \in fetch_functions
    BY <2>1 DEF SignalsOK
  <2>3. /\ fetch_functions' = fetch_functions \ {c} /\ main'.at = "finish" /\ main'.call = c
        /\ UNCHANGED <<state, has_cookie, cleared, notification_functions, dbus, slot>>
        /\ main.at = "events"
    BY <1>15, <2>1, <2>2, Went DEF TakeCookieEvent, Places
  <2> HIDE DEF c
  <2> QED BY <2>1, <2>3 
       DEF TypeOK, MainOK, StatesOK, WaitingIsReachable, CanBeNotified, CanBeFetched, Active
<1>16. CASE FinishFetch
  <2>1. /\ main.call \in Calls /\ state[main.call] = "READY_TO_FETCH" /\ main.at = "finish"
        /\ UNCHANGED <<notification_functions, fetch_functions, dbus>> /\ clear_cookie(main.call)
    BY <1>16 DEF FinishFetch, MainOK
  <2>2. PICK r \in Results :
           /\ state' = [state EXCEPT ![main.call] = IF r = "exception" THEN "FAILED"
                                                    ELSE "RESULT_FETCHED"]
           /\ got_list_id(main.call, r)
    BY <1>16, Fetched
  <2>3. slot' \in {slot, None}
    BY <2>1, <2>2, GotListID
  <2>4. \A c \in Calls \ {main.call} : /\ has_cookie'[c] = has_cookie[c]
                                       /\ cleared'[c] = cleared[c] /\ state'[c] = state[c]
    BY <2>1, <2>2 DEF clear_cookie, TypeOK
  <2>5. state'[main.call] \in {"FAILED", "RESULT_FETCHED"}
    BY <2>1, <2>2 DEF TypeOK
  <2>6. ~CanBeNotified(main.call)
    BY <2>1 DEF StatesOK
  <2> QED
    <3> USE <2>1, <2>3, <2>4, <2>5, <2>6
    <3>1. WaitingIsReachable'
      BY DEF WaitingIsReachable, CanBeNotified, CanBeFetched, StatesOK, Active, TypeOK, MainOK
    <3>2. (\A d \in Calls : CanBeNotified(d) =>
                /\ has_cookie[d] \/ cleared[d]
                /\ state[d] \in {"WAIT_FOR_NOTIFICATION", "ABORTING"})'
      BY DEF CanBeNotified, StatesOK, TypeOK, MainOK
    <3>3. (slot # None /\ ~MainAt("abort") /\ state[slot] \in Active => has_cookie[slot])'
      BY DEF StatesOK, Active, TypeOK, MainOK
    <3>4. (\A d \in (Blocking \cup {slot}) \ {None} : state[d] # "ABORTING")'
      BY DEF StatesOK, TypeOK, MainOK
    <3> QED BY ONLY <3>1, <3>2, <3>3, <3>4 DEF StatesOK
<1>17. CASE FinishDone
  <2>1. /\ main.call \in Calls /\ state[main.call] \notin Active /\ main.at = "finish"
        /\ result[main.call] \in Results \cup {None} /\ got_list_id(main.call, result[main.call])
        /\ UNCHANGED <<state, has_cookie, cleared, notification_functions, fetch_functions, dbus>>
    BY <1>17 DEF FinishDone, MainOK, Active, TypeOK
  <2>2. slot' \in {slot, None}
    BY <2>1, GotListID
  <2> QED BY <2>1, <2>2 
       DEF TypeOK, MainOK, StatesOK, WaitingIsReachable, CanBeNotified, CanBeFetched, Active
<1>18. CASE Drop
  <2>1. /\ UNCHANGED <<notification_functions, fetch_functions, dbus, slot>>
        /\ main.call \in Live /\ main.call \in Calls /\ main.at = "drop"
        /\ main'.at \in {"idle", "events"}
    BY <1>18, Went DEF Drop, TypeOK, MainOK, Live, Places
  <2>2. CASE UNCHANGED <<call_vars, broker, busy_count>>
    BY <2>1, <2>2 
       DEF TypeOK, MainOK, StatesOK, WaitingIsReachable, CanBeNotified, CanBeFetched, Active
  <2>3. CASE ~Referenced(main.call) /\ destroy({main.call})
    <3>1. slot # main.call /\ ~CanBeNotified(main.call)
      BY <2>3 DEF Referenced, CanBeNotified
    <3>2. /\ \A c \in Calls \ {main.call} :
                /\ state'[c] = state[c] /\ has_cookie'[c] = has_cookie[c]
                /\ cleared'[c] = cleared[c]
          /\ state'[main.call] = "NONE"
      BY <2>1, <2>3, Destroyed
    <3> QED
    <4> USE <2>1, <3>1, <3>2
    <4>1. WaitingIsReachable'
      BY DEF WaitingIsReachable, CanBeNotified, CanBeFetched, StatesOK, Active, TypeOK, MainOK
    <4>2. (\A d \in Calls : CanBeNotified(d) =>
                /\ has_cookie[d] \/ cleared[d]
                /\ state[d] \in {"WAIT_FOR_NOTIFICATION", "ABORTING"})'
      BY DEF CanBeNotified, StatesOK, TypeOK, MainOK
    <4>3. (slot # None /\ ~MainAt("abort") /\ state[slot] \in Active => has_cookie[slot])'
      BY DEF StatesOK, Active, TypeOK, MainOK
    <4>4. (\A d \in (Blocking \cup {slot}) \ {None} : state[d] # "ABORTING")'
      BY DEF StatesOK, TypeOK, MainOK
    <4> QED BY ONLY <4>1, <4>2, <4>3, <4>4 DEF StatesOK
  <2> QED BY <1>18, <2>2, <2>3 DEF Drop
<1>19. CASE process_pending_events
    BY <1>19, Moved, Went, Canceled DEF TypeOK, MainOK, StatesOK, WaitingIsReachable,
     CanBeNotified, CanBeFetched, Active, process_pending_events, DBusGoto, Places
<1>20. CASE execute
  <2> DEFINE D == {c \in zombies : ~Referenced(c)}
  <2>1. D \in SUBSET Live /\ destroy(D) /\ D \subseteq Calls
    BY <1>20 DEF OwnedOK, execute, Live
  <2>2. /\ \A c \in Calls \ D :
              /\ state'[c] = state[c] /\ has_cookie'[c] = has_cookie[c]
              /\ cleared'[c] = cleared[c]
        /\ \A c \in D : state'[c] = "NONE"
    BY <2>1, Destroyed
  <2>3. /\ UNCHANGED <<notification_functions, fetch_functions, dbus, slot, main>>
        /\ main.at = "idle"
    BY <1>20 DEF execute
  <2>4. slot \notin D /\ \A c \in D : ~CanBeNotified(c)
    BY DEF Referenced, CanBeNotified
  <2> HIDE DEF D
  <2> QED BY <2>1, <2>2, <2>3, <2>4 
       DEF TypeOK, MainOK, StatesOK, WaitingIsReachable, CanBeNotified, CanBeFetched, Active
<1>21. CASE handle_enter_list_event
    BY <1>21, Moved, Went, Canceled, SlotLeft DEF TypeOK, MainOK, StatesOK, WaitingIsReachable,
     CanBeNotified, CanBeFetched, Active, handle_enter_list_event, DBusGoto, Places
<1>22. CASE InputEvent
    BY <1>22, Moved, Went, Canceled DEF TypeOK, MainOK, StatesOK, WaitingIsReachable,
     CanBeNotified, CanBeFetched, Active, InputEvent, DBusGoto, Places
<1>23. CASE available
  <2> DEFINE c == Head(signals).call
  <2>1. c \in Calls /\ InSignals(c)
    BY <1>23, SignalTaken DEF available, Signal
  <2>2. c \in notification_functions /\ dbus.at = "idle"
    BY <1>23, <2>1 DEF available, SignalsOK, OnItsWay, Requesting
  <2>3. /\ dbus'.at = "notify" /\ dbus'.call = c
        /\ notification_functions' = notification_functions \ {c}
        /\ UNCHANGED <<state, has_cookie, cleared, fetch_functions, slot, main>>
    BY <1>23, <2>2 DEF available
  <2> HIDE DEF c
  <2> QED BY <2>1, <2>2, <2>3 
       DEF TypeOK, MainOK, StatesOK, WaitingIsReachable, CanBeNotified, CanBeFetched, Active
<1>24. CASE notification
  <2> DEFINE c == dbus.call
  <2>1. /\ UNCHANGED <<main, fetch_functions, notification_functions, has_cookie, cleared, slot>>
        /\ dbus'.at = "post" /\ dbus.at = "notify" /\ c \in Calls /\ dbus.call = c
    BY <1>24 DEF notification, TypeOK, SignalsOK
  <2>2. /\ c \in fetch_functions /\ c \notin notification_functions
        /\ state[c] \in {"WAIT_FOR_NOTIFICATION", "ABORTING"}
    BY <2>1 DEF SignalsOK, StatesOK, CanBeNotified, Told, AtDBus, OnItsWay
  <2>3. /\ \A d \in Calls \ {c} : state'[d] = state[d]
        /\ state'[c] \in {"ABORTED_BY_LIST_BROKER", "READY_TO_FETCH"}
    <3>1. Expected(c)
      BY <2>1, <2>2 DEF Expected, StatesOK, CanBeNotified
    <3> QED BY <1>24, <2>1, <3>1 DEF notification, TypeOK
  <2> HIDE DEF c
  <2> QED
    <3> USE <2>1, <2>2, <2>3
    <3>1. WaitingIsReachable'
      BY DEF WaitingIsReachable, CanBeNotified, CanBeFetched, StatesOK, Active, TypeOK, MainOK
    <3>2. (\A d \in Calls : CanBeNotified(d) =>
                /\ has_cookie[d] \/ cleared[d]
                /\ state[d] \in {"WAIT_FOR_NOTIFICATION", "ABORTING"})'
      BY DEF CanBeNotified, StatesOK, TypeOK, MainOK
    <3>3. (slot # None /\ ~MainAt("abort") /\ state[slot] \in Active => has_cookie[slot])'
      BY DEF StatesOK, Active, TypeOK, MainOK
    <3>4. (\A d \in (Blocking \cup {slot}) \ {None} : state[d] # "ABORTING")'
      BY DEF StatesOK, TypeOK, MainOK
    <3> QED BY ONLY <3>1, <3>2, <3>3, <3>4 DEF StatesOK
<1>25. CASE post
  <2>1.
       
        /\ UNCHANGED <<state, has_cookie, cleared, notification_functions, fetch_functions, slot, main>>
        /\ dbus.at = "post" /\ dbus'.at \in {"idle", "trigger"}
    BY <1>25 DEF post, DBusGoto
  <2> QED BY <2>1 
       DEF TypeOK, MainOK, StatesOK, WaitingIsReachable, CanBeNotified, CanBeFetched, Active
<1>26. CASE trigger_processing
    BY <1>26, Moved, Went, Canceled DEF TypeOK, MainOK, StatesOK, WaitingIsReachable,
     CanBeNotified, CanBeFetched, Active, trigger_processing, DBusGoto, Places
<1>27. ASSUME NEW c \in Calls, BrokerReplies(c) PROVE StatesOK'
    BY <1>27, Moved, Went, Canceled DEF TypeOK, MainOK, StatesOK, WaitingIsReachable,
     CanBeNotified, CanBeFetched, Active, BrokerReplies, DBusGoto, Places
<1>28. ASSUME NEW c \in Calls, BrokerSignals(c) PROVE StatesOK'
    BY <1>28, Moved, Went, Canceled DEF TypeOK, MainOK, StatesOK, WaitingIsReachable,
     CanBeNotified, CanBeFetched, Active, BrokerSignals, DBusGoto, Places
<1> QED
  BY <1>1, <1>2, <1>3, <1>4, <1>5, <1>6, <1>7, <1>8, <1>9, <1>10, <1>11, <1>12, <1>13, <1>14,
     <1>15, <1>16, <1>17, <1>18, <1>19, <1>20, <1>21, <1>22, <1>23, <1>24, <1>25, <1>26, <1>27,
     <1>28 DEF Next, MainStep, MainLoop, DBusStep, Broker, Navigate

-----------------------------------------------------------------------------
(* Theorems.                                                               *)

LEMMA Initially == Init => IInv
<1> SUFFICES ASSUME Init PROVE IInv
  OBVIOUS
<1>1. signals = <<>> /\ queue_ = <<>> /\ DOMAIN signals = {} /\ DOMAIN queue_ = {}
  BY DEF Init
<1>2. TypeOK /\ Live = {}
  BY <1>1 DEF Init, TypeOK, Places, Live
<1>a. /\ main.at = "idle" /\ main.call = None /\ main.then = "idle" /\ dbus.at = "idle"
      /\ slot = None /\ latest = None /\ entering = None /\ zombies = {} /\ queue_ = <<>>
      /\ entered = None
  BY DEF Init
<1>3. MainOK /\ OwnedOK /\ SlotOK /\ NoLostWakeup
  <2>1. MainOK
    BY <1>1, <1>2, <1>a DEF MainOK, MainAt
  <2>2. OwnedOK
    BY <1>1, <1>2, <1>a DEF OwnedOK
  <2>3. SlotOK
    BY <1>1, <1>2, <1>a, CallsAssumption DEF SlotOK
  <2>4. NoLostWakeup
    BY <1>1, <1>a DEF NoLostWakeup
  <2> QED BY <2>1, <2>2, <2>3, <2>4
<1>4. SignalsOK /\ BrokerOK
  BY <1>1 DEF Init, SignalsOK, BrokerOK, OneSignal, OneEvent, OnItsWay, Told, AtDBus, InQueue,
     InSignals, Requesting, MainAt, Live, CallsAssumption
<1>5. StatesOK
  <2>1. \A c \in Calls : state[c] = "NONE" /\ ~CanBeNotified(c)
    BY DEF Init, CanBeNotified
  <2>2. slot = None /\ Blocking \subseteq Calls
    BY CallsAssumption DEF Init
  <2> QED BY <2>1, <2>2 DEF StatesOK, WaitingIsReachable, Active
<1>6. BusyOK
  <2>1. busy_count = 0 /\ Cardinality(Live) = 0
    BY <1>2, FS_EmptySet DEF Init
  <2> QED BY <2>1 DEF BusyOK
<1> QED BY <1>2, <1>3, <1>4, <1>5, <1>6 DEF IInv

LEMMA Stuttering == IInv /\ UNCHANGED vars => IInv'
<1> SUFFICES ASSUME IInv, UNCHANGED vars PROVE IInv'
  OBVIOUS
<1> USE DEF IInv, vars, call_vars, owner_vars, cookie_vars, event_vars, broker_vars, list_vars
<1>1. TypeOK'
  BY DEF TypeOK
<1>2. MainOK' /\ OwnedOK' /\ SlotOK' /\ NoLostWakeup' /\ BusyOK'
  BY DEF MainOK, OwnedOK, SlotOK, NoLostWakeup, BusyOK, Live
<1>3. SignalsOK' /\ BrokerOK'
  BY SequenceKept DEF SignalsOK, BrokerOK, OnItsWay, Told, AtDBus, Requesting, MainAt, Live
<1>4. StatesOK'
  BY DEF StatesOK, WaitingIsReachable, CanBeNotified, CanBeFetched, MainAt
<1> QED BY <1>1, <1>2, <1>3, <1>4

LEMMA Invariance == Spec => []IInv
<1>1. IInv /\ Next => IInv'
  BY TypeKept, MainKept, OwnedKept, BrokerKept, SignalsKept, StatesKept, SlotKept, BusyKept,
     WakeupKept DEF IInv
<1>2. IInv /\ [Next]_vars => IInv'
  BY <1>1, Stuttering
<1> QED BY Initially, <1>2, PTL DEF Spec

\* Calls that wait can be notified and fetched, each notification finds a call that expects
\* it, and each event in the queue is going to be processed (PendingCookies, CallBase,
\* EventQueue), whatever list brokers reply and signal, and however long they take.
THEOREM EveryCallCanBeTold == Spec => []CallsAreNotified
<1>1. IInv => CallsAreNotified
  BY DEF IInv, CallsAreNotified, StatesOK, NotificationExpected, CanBeNotified, Expected,
     SignalsOK
<1> QED BY <1>1, Invariance, PTL

\* Each call that has set the busy flag exists, so that its destruction can clear the flag;
\* and when nothing is under way, only a failed call for a root list can be left in the slot
\* of the file browser (set_call(), delete_get_list_id(), DeathRow).
THEOREM NoCallIsForgotten == Spec => []BusyForCalls
<1>1. ASSUME IInv PROVE BusyForCalls
  <2>1. busy_count <= Cardinality({c \in Calls : state[c] # "NONE"})
    BY <1>1 DEF IInv, BusyOK, Live
  <2>2. ASSUME AtRest, NEW c \in Calls, state[c] # "NONE"
        PROVE  c \in Root /\ state[c] \notin Active
    <3>1. c = slot
      BY <1>1, <2>2 DEF IInv, OwnedOK, AtRest, Live
    <3>2. slot \in Root
      BY <1>1, <2>2, <3>1, CallsAssumption DEF IInv, TypeOK, SlotOK, AtRest
    <3>3. state[c] \notin Active
      BY <1>1, <2>2 DEF IInv, StatesOK, WaitingIsReachable, CanBeFetched, AtRest, MainAt
    <3> QED BY <3>1, <3>2, <3>3
  <2> QED BY <2>1, <2>2 DEF BusyForCalls
<1> QED BY <1>1, Invariance, PTL


\* Calls are destroyed by their last owner and by the death row, when nobody can fetch them.
LEMMA OnlyOverIsDestroyed ==
    ASSUME IInv, Next
    PROVE  \A c \in Calls : state'[c] = "NONE" => state[c] \notin Active
<1> DEFINE Good == \A c \in Calls : state'[c] = "NONE" => state[c] \notin Active
<1> SUFFICES Good
  OBVIOUS
<1> USE CallsAssumption DEF IInv, call_vars, MainAt, set_state
<1>1. CASE PointToParent
    BY <1>1 DEF TypeOK, Active, PointToParent
<1>2. ASSUME NEW c \in Calls, PointTo(c) PROVE Good
    BY <1>2 DEF TypeOK, Active, PointTo
<1>3. ASSUME NEW c \in Calls, GetChildItem(c) PROVE Good
    BY <1>3 DEF TypeOK, Active, GetChildItem
<1>4. CASE CancelNothing
    BY <1>4 DEF TypeOK, Active, CancelNothing
<1>5. CASE CancelLocally
    BY <1>5 DEF TypeOK, Active, CancelLocally
<1>6. CASE CancelByCookie
    BY <1>6 DEF TypeOK, Active, CancelByCookie
<1>7. CASE AbortReply
  <2>1. slot \in Calls
    BY <1>7, SlotLeft DEF AbortReply, MainOK, TypeOK
  <2> QED BY <1>7, <2>1, AbortReplied DEF TypeOK, Active
<1>8. CASE Request
    BY <1>8 DEF TypeOK, Active, Request
<1>9. CASE RequestCookie
    BY <1>9 DEF TypeOK, Active, RequestCookie, set_pending_cookie
<1>10. CASE RequestFastPath
    BY <1>10 DEF TypeOK, Active, RequestFastPath
<1>11. CASE RequestFailed
    BY <1>11 DEF TypeOK, Active, RequestFailed
<1>12. CASE FetchBlocking
    BY <1>12 DEF TypeOK, Active, FetchBlocking
<1>13. CASE NoMoreEvents
    BY <1>13 DEF TypeOK, Active, NoMoreEvents
<1>14. CASE TakeUserEvent
    BY <1>14 DEF TypeOK, Active, TakeUserEvent
<1>15. CASE TakeCookieEvent
    BY <1>15 DEF TypeOK, Active, TakeCookieEvent
<1>16. CASE FinishFetch
  <2>1. PICK r \in Results :
           state' = [state EXCEPT ![main.call] = IF r = "exception" THEN "FAILED"
                                                 ELSE "RESULT_FETCHED"]
    BY <1>16, Fetched
  <2> QED BY <2>1 DEF TypeOK, Active
<1>17. CASE FinishDone
    BY <1>17 DEF TypeOK, Active, FinishDone
<1>18. CASE Drop
  <2>1. main.call \in Live /\ main.call \in Calls /\ state[main.call] \notin Active
    BY <1>18 DEF Drop, MainOK, Live
  <2>2. CASE UNCHANGED call_vars
    BY <2>2 DEF Active
  <2>3. CASE destroy({main.call})
    <3>1. \A c \in Calls \ {main.call} : state'[c] = state[c]
      BY <2>1, <2>3, Destroyed
    <3> QED BY <2>1, <3>1 DEF Active
  <2> QED BY <1>18, <2>2, <2>3 DEF Drop
<1>19. CASE process_pending_events
    BY <1>19 DEF TypeOK, Active, process_pending_events
<1>20. CASE execute
  <2> DEFINE D == {c \in zombies : ~Referenced(c)}
  <2>1. D \in SUBSET Live /\ destroy(D) /\ D \subseteq Calls
    BY <1>20 DEF OwnedOK, execute, Live
  <2>2. \A c \in Calls \ D : state'[c] = state[c]
    BY <2>1, Destroyed
  <2>3. \A c \in D : state[c] \notin Active
    BY <1>20, <2>1 DEF Referenced, StatesOK, WaitingIsReachable, CanBeFetched, execute
  <2> HIDE DEF D
  <2> QED BY <2>2, <2>3 DEF Active
<1>21. CASE handle_enter_list_event
    BY <1>21 DEF TypeOK, Active, handle_enter_list_event
<1>22. CASE InputEvent
    BY <1>22 DEF TypeOK, Active, InputEvent
<1>23. CASE available
    BY <1>23 DEF TypeOK, Active, available
<1>24. CASE notification
    BY <1>24 DEF TypeOK, Active, notification
<1>25. CASE post
    BY <1>25 DEF TypeOK, Active, post
<1>26. CASE trigger_processing
    BY <1>26 DEF TypeOK, Active, trigger_processing
<1>27. ASSUME NEW c \in Calls, BrokerReplies(c) PROVE Good
    BY <1>27 DEF TypeOK, Active, BrokerReplies
<1>28. ASSUME NEW c \in Calls, BrokerSignals(c) PROVE Good
    BY <1>28 DEF TypeOK, Active, BrokerSignals
<1> QED
  BY <1>1, <1>2, <1>3, <1>4, <1>5, <1>6, <1>7, <1>8, <1>9, <1>10, <1>11, <1>12, <1>13, <1>14,
     <1>15, <1>16, <1>17, <1>18, <1>19, <1>20, <1>21, <1>22, <1>23, <1>24, <1>25, <1>26, <1>27,
     <1>28, Zenon DEF Next, MainStep, MainLoop, DBusStep, Broker, Navigate

\* An answer which enters a list has found its call in the slot, which holds the latest.
LEMMA OnlyLatestIsEntered ==
    ASSUME IInv, Next
    PROVE  entered' # entered /\ entered' # None => entered' = latest'
<1> USE CallsAssumption DEF IInv, list_vars, MainAt
<1>1. CASE PointToParent
    BY <1>1 DEF PointToParent
<1>2. ASSUME NEW c \in Calls, PointTo(c)
      PROVE  entered' # entered /\ entered' # None => entered' = latest'
    BY <1>2 DEF PointTo
<1>3. ASSUME NEW c \in Calls, GetChildItem(c)
      PROVE  entered' # entered /\ entered' # None => entered' = latest'
    BY <1>3 DEF GetChildItem
<1>4. CASE CancelNothing
    BY <1>4 DEF CancelNothing
<1>5. CASE CancelLocally
    BY <1>5 DEF CancelLocally
<1>6. CASE CancelByCookie
    BY <1>6 DEF CancelByCookie
<1>7. CASE AbortReply
    BY <1>7 DEF AbortReply
<1>8. CASE Request
    BY <1>8 DEF Request
<1>9. CASE RequestCookie
    BY <1>9 DEF RequestCookie, set_pending_cookie
<1>10. CASE RequestFastPath
  <2>1. CASE UNCHANGED list_vars
    BY <2>1
  <2>2. CASE got_list_id(main.call, broker[main.call])
    <3>1. main.call \in Calls /\ broker[main.call] \in Results \cup {None}
      BY <1>10 DEF RequestFastPath, MainOK, TypeOK, Results
    <3>2. entered' \in {entered, slot} /\ latest' = latest
      BY <2>2, <3>1, GotListID
    <3>3. slot \in {None, latest}
      BY <1>10 DEF RequestFastPath, SlotOK
    <3> QED BY <3>2, <3>3
  <2> QED BY <1>10, <2>1, <2>2, Zenon DEF RequestFastPath
<1>11. CASE RequestFailed
    BY <1>11 DEF RequestFailed
<1>12. CASE FetchBlocking
    BY <1>12 DEF FetchBlocking
<1>13. CASE NoMoreEvents
    BY <1>13 DEF NoMoreEvents
<1>14. CASE TakeUserEvent
    BY <1>14 DEF TakeUserEvent
<1>15. CASE TakeCookieEvent
    BY <1>15 DEF TakeCookieEvent
<1>16. CASE FinishFetch
  <2>1. PICK r \in Results : got_list_id(main.call, r)
    BY <1>16, Fetched
  <2>2. main.call \in Calls
    BY <1>16 DEF FinishFetch, MainOK
  <2>3. entered' \in {entered, slot} /\ latest' = latest
    BY <2>1, <2>2, GotListID
  <2>4. slot \in {None, latest}
    BY <1>16 DEF FinishFetch, SlotOK
  <2> QED BY <2>3, <2>4
<1>17. CASE FinishDone
  <2>1. CASE UNCHANGED list_vars
    BY <2>1
  <2>2. CASE got_list_id(main.call, result[main.call])
    <3>1. main.call \in Calls /\ result[main.call] \in Results \cup {None}
      BY <1>17 DEF FinishDone, MainOK, TypeOK, Results
    <3>2. entered' \in {entered, slot} /\ latest' = latest
      BY <2>2, <3>1, GotListID
    <3>3. slot \in {None, latest}
      BY <1>17 DEF FinishDone, SlotOK
    <3> QED BY <3>2, <3>3
  <2> QED BY <1>17, <2>1, <2>2, Zenon DEF FinishDone
<1>18. CASE Drop
    BY <1>18 DEF Drop
<1>19. CASE process_pending_events
    BY <1>19 DEF process_pending_events
<1>20. CASE execute
    BY <1>20 DEF execute
<1>21. CASE handle_enter_list_event
    BY <1>21 DEF handle_enter_list_event
<1>22. CASE InputEvent
    BY <1>22 DEF InputEvent
<1>23. CASE available
    BY <1>23 DEF available
<1>24. CASE notification
    BY <1>24 DEF notification
<1>25. CASE post
    BY <1>25 DEF post
<1>26. CASE trigger_processing
    BY <1>26 DEF trigger_processing
<1>27. ASSUME NEW c \in Calls, BrokerReplies(c)
       PROVE  entered' # entered /\ entered' # None => entered' = latest'
    BY <1>27 DEF BrokerReplies
<1>28. ASSUME NEW c \in Calls, BrokerSignals(c)
       PROVE  entered' # entered /\ entered' # None => entered' = latest'
    BY <1>28 DEF BrokerSignals
<1> QED
  BY <1>1, <1>2, <1>3, <1>4, <1>5, <1>6, <1>7, <1>8, <1>9, <1>10, <1>11, <1>12, <1>13, <1>14,
     <1>15, <1>16, <1>17, <1>18, <1>19, <1>20, <1>21, <1>22, <1>23, <1>24, <1>25, <1>26, <1>27,
     <1>28, Zenon DEF Next, MainStep, MainLoop, DBusStep, Broker, Navigate

\* No call object is destroyed while it waits for its cookie or for being fetched
\* (~CallBase()), in whatever order its owners let go of it.
THEOREM NoActiveCallIsDestroyed == Spec => NeverDestroyedActive
<1> DEFINE Good == \A c \in Calls : state'[c] = "NONE" => state[c] \notin Active
<1>1. IInv /\ Next => Good
  BY OnlyOverIsDestroyed
<1>2. IInv /\ UNCHANGED vars => Good
  BY DEF vars, call_vars, Active
<1>3. IInv /\ [Next]_vars => [Good]_vars
  BY <1>1, <1>2
<1> QED BY <1>3, Invariance, PTL DEF NeverDestroyedActive, Spec

\* Answers that come in late or in another order than they were asked for never enter a
\* list: the one entered is the one the user asked for last (set_call(), *_got_list_id()).
THEOREM AnswersEnterTheLatest == Spec => LastWins
<1> DEFINE Good == entered' # entered /\ entered' # None => entered' = latest'
<1>1. IInv /\ Next => Good
  BY OnlyLatestIsEntered
<1>2. IInv /\ [Next]_vars => [Good]_vars
  BY <1>1
<1> QED BY <1>2, Invariance, PTL DEF LastWins, Spec

(***************************************************************************)
(* Asynchronous calls.  They are kept for GLib, and the busy state is      *)
(* about calls which GLib has not called back for, for any number of       *)
(* calls.                                                                  *)
(*                                                                         *)
(* A handler is followed through the worlds it makes; what it may have     *)
(* dropped is deleted when it is done.                                     *)
(***************************************************************************)
AsyncSpec == AsyncInit /\ [][AsyncNext]_async_vars

AsyncCallRecords ==
    [source : Sources \cup {NoCall}, state : AsyncResults, cancelled : BOOLEAN,
     reported : BOOLEAN, in_glib : BOOLEAN]

BusyStates ==
    [flags : SUBSET (Sources \cup {Appliance}), counts : [Sources -> Nat],
     last_notified : BOOLEAN, told : BOOLEAN]

AsyncTypes(w) ==
    /\ {"async", "slots", "pool", "busy", "jump"} \subseteq DOMAIN w
    /\ w.async \in [AsyncCallNames -> AsyncCallRecords]
    /\ w.slots \in [Sources -> AsyncCallNames \cup {NoCall}]
    /\ w.pool \in SUBSET AsyncCallNames
    /\ w.busy \in BusyStates
    /\ w.jump \in JumpStates

\* A call GLib knows has an answer to expect, or has been canceled and reported.
IsWaiting(call) == call.state = "IN_PROGRESS" /\ ~call.cancelled /\ ~call.reported
IsGivenUp(call) == call.state = "CANCELED" /\ call.cancelled /\ call.reported
\* One for the root of a context may never have been made.
IsUnmade(call) == call.state = "INITIALIZED" /\ ~call.cancelled /\ ~call.reported

PoolOK(w) ==
    /\ \A c \in AsyncCallNames : w.async[c].in_glib <=> c \in w.pool
    /\ \A c \in w.pool :
           /\ w.async[c].source \in Sources
           /\ IsWaiting(w.async[c]) \/ IsGivenUp(w.async[c])

CallSlotOK(w, s) ==
    /\ w.async[w.slots[s]].source = s /\ ~w.async[w.slots[s]].cancelled
    /\ \/ IsWaiting(w.async[w.slots[s]]) /\ w.slots[s] \in w.pool
       \/ w.async[w.slots[s]].state = "DONE" /\ w.slots[s] \notin w.pool /\ s = ParentLink
       \/ IsUnmade(w.async[w.slots[s]]) /\ w.slots[s] \notin w.pool /\ s = ContextRoot

SlotsOK(w) == \A s \in Sources : w.slots[s] # NoCall => CallSlotOK(w, s)

\* A jump waits for the call in the slot, which is the only one for a root that has an answer
\* to expect.
JumpOK(w) ==
    /\ w.jump = "GET_CONTEXT_PARENT_ID" <=>
          w.slots[ContextRoot] # NoCall /\ w.async[w.slots[ContextRoot]].state = "IN_PROGRESS"
    /\ \A c \in w.pool :
          w.async[c].source = ContextRoot /\ w.async[c].state = "IN_PROGRESS" =>
              w.slots[ContextRoot] = c

\* The calls GLib has not called back for.
Outstanding(w, s) == {c \in w.pool : w.async[c].source = s}

ToldOK(b) == b.told = (b.flags # {}) /\ b.last_notified = b.told

CountsOK(w) ==
    \A s \in Sources :
        /\ w.busy.counts[s] <= Cardinality(Outstanding(w, s))
        /\ s \in w.busy.flags <=> w.busy.counts[s] > 0

\* The user who waits has one call of a kind under way, which keeps the view busy.
PatientOK(w) ==
    patient => \A c \in w.pool :
        /\ \A d \in w.pool : w.async[c].source = w.async[d].source => c = d
        /\ w.async[c].state = "IN_PROGRESS" => w.busy.counts[w.async[c].source] > 0

WorldOK(w) ==
    /\ AsyncTypes(w) /\ PoolOK(w) /\ SlotsOK(w) /\ JumpOK(w)
    /\ ToldOK(w.busy) /\ CountsOK(w) /\ PatientOK(w)

\* Nothing is left of an object nobody refers to.
DeletedOK == \A c \in AsyncCallNames : async[c].source # NoCall => Referenced_by(c, slots, pool)

AsyncInv == WorldOK(World) /\ DeletedOK /\ patient \in BOOLEAN

(***************************************************************************)
(* The busy state                                                          *)
(***************************************************************************)
(* The callback is told what the flags are, and only that.                 *)
LEMMA NotifyDoes ==
    ASSUME NEW b \in BusyStates, b.last_notified = b.told
    PROVE  /\ notify_if_necessary(b) \in BusyStates
           /\ notify_if_necessary(b).flags = b.flags /\ notify_if_necessary(b).counts = b.counts
           /\ ToldOK(notify_if_necessary(b))
BY DEF notify_if_necessary, BusyStates, ToldOK

(* One call more.                                                          *)
LEMMA BusySetDoes ==
    ASSUME NEW b \in BusyStates, ToldOK(b), NEW s \in Sources
    PROVE  /\ BusySet(b, s) \in BusyStates /\ ToldOK(BusySet(b, s))
           /\ BusySet(b, s).flags = b.flags \cup {s}
           /\ BusySet(b, s).counts
                  = [b.counts EXCEPT ![s] = IF @ < MaxBusyCount THEN @ + 1 ELSE @]
<1> DEFINE d == [b EXCEPT !.flags = @ \cup {s},
                          !.counts[s] = IF @ < MaxBusyCount THEN @ + 1 ELSE @]
<1>0. [b.counts EXCEPT ![s] = IF @ < MaxBusyCount THEN @ + 1 ELSE @] \in [Sources -> Nat]
  BY AsyncAssumption DEF BusyStates
<1>1. /\ d \in BusyStates /\ d.last_notified = d.told /\ d.flags = b.flags \cup {s}
      /\ d.counts = [b.counts EXCEPT ![s] = IF @ < MaxBusyCount THEN @ + 1 ELSE @]
  BY <1>0 DEF BusyStates, ToldOK
<1> HIDE DEF d
<1> QED
  BY <1>1, NotifyDoes DEF BusySet, d

(* One call less.                                                          *)
LEMMA BusyClearDoes ==
    ASSUME NEW b \in BusyStates, ToldOK(b), NEW s \in Sources
    PROVE  /\ BusyClear(b, s) \in BusyStates /\ ToldOK(BusyClear(b, s))
           /\ BusyClear(b, s).flags = IF b.counts[s] <= 1 THEN b.flags \ {s} ELSE b.flags
           /\ BusyClear(b, s).counts = [b.counts EXCEPT ![s] = IF @ > 0 THEN @ - 1 ELSE 0]
<1> DEFINE d == [b EXCEPT !.counts[s] = IF @ > 0 THEN @ - 1 ELSE 0,
                          !.flags = IF b.counts[s] <= 1 THEN @ \ {s} ELSE @]
<1>0. /\ [b.counts EXCEPT ![s] = IF @ > 0 THEN @ - 1 ELSE 0] \in [Sources -> Nat]
      /\ b.counts[s] \in Nat
  BY DEF BusyStates
<1>1. /\ d \in BusyStates /\ d.last_notified = d.told
      /\ d.flags = IF b.counts[s] <= 1 THEN b.flags \ {s} ELSE b.flags
      /\ d.counts = [b.counts EXCEPT ![s] = IF @ > 0 THEN @ - 1 ELSE 0]
  BY <1>0 DEF BusyStates, ToldOK
<1> HIDE DEF d
<1> QED
  BY <1>1, NotifyDoes DEF BusyClear, d

(* The other source has a flag only.                                       *)
LEMMA DirectDoes ==
    ASSUME NEW b \in BusyStates, ToldOK(b)
    PROVE  \A r \in {set_direct(b), clear_direct(b)} :
               /\ r \in BusyStates /\ ToldOK(r) /\ r.counts = b.counts
               /\ \A s \in Sources : s \in r.flags <=> s \in b.flags
<1> DEFINE d == [b EXCEPT !.flags = @ \cup {Appliance}]
           e == [b EXCEPT !.flags = @ \ {Appliance}]
<1>1. /\ d \in BusyStates /\ d.last_notified = d.told /\ d.counts = b.counts
      /\ e \in BusyStates /\ e.last_notified = e.told /\ e.counts = b.counts
      /\ d.flags = b.flags \cup {Appliance} /\ e.flags = b.flags \ {Appliance}
  BY DEF BusyStates, ToldOK
<1>2. Appliance \notin Sources
  BY DEF Appliance, Sources, ParentLink, ContextRoot
<1> HIDE DEF d, e
<1> QED
  BY <1>1, <1>2, NotifyDoes DEF set_direct, clear_direct, d, e

(***************************************************************************)
(* Operators on the world                                                  *)
(***************************************************************************)
LEMMA SourcesAre == Sources = {ParentLink, ContextRoot} /\ ParentLink # ContextRoot
BY DEF Sources, ParentLink, ContextRoot
(* The calls which are outstanding are finitely many.                      *)
LEMMA OutstandingFinite ==
    ASSUME NEW w, AsyncTypes(w), NEW s
    PROVE  IsFiniteSet(Outstanding(w, s)) /\ Cardinality(Outstanding(w, s)) \in Nat
<1>1. Outstanding(w, s) \subseteq AsyncCallNames
  BY DEF Outstanding, AsyncTypes
<1> QED
  BY <1>1, AsyncAssumption, FS_Subset, FS_CardinalityType

(* One call is changed, the others are not.                                *)
LEMMA UpdateCall ==
    ASSUME NEW f \in [AsyncCallNames -> AsyncCallRecords], NEW c \in AsyncCallNames, NEW g,
           \/ \E st \in AsyncResults : g = [f EXCEPT ![c].state = st]
           \/ g = [f EXCEPT ![c].cancelled = TRUE]
           \/ g = [f EXCEPT ![c].reported = TRUE]
           \/ g = [f EXCEPT ![c].in_glib = FALSE]
    PROVE  /\ g \in [AsyncCallNames -> AsyncCallRecords]
           /\ \A d \in AsyncCallNames : g[d].source = f[d].source /\ (d # c => g[d] = f[d])
<1> DEFINE r == f[c]
<1>1. r \in AsyncCallRecords
  OBVIOUS
<1>2. PICK k \in AsyncCallRecords : g = [f EXCEPT ![c] = k] /\ k.source = r.source
  <2>1. \A st \in AsyncResults :
            /\ [r EXCEPT !.state = st] \in AsyncCallRecords
            /\ [r EXCEPT !.state = st].source = r.source
    BY <1>1 DEF AsyncCallRecords
  <2>2. /\ [r EXCEPT !.cancelled = TRUE] \in AsyncCallRecords
        /\ [r EXCEPT !.cancelled = TRUE].source = r.source
    BY <1>1 DEF AsyncCallRecords
  <2>3. /\ [r EXCEPT !.reported = TRUE] \in AsyncCallRecords
        /\ [r EXCEPT !.reported = TRUE].source = r.source
    BY <1>1 DEF AsyncCallRecords
  <2>4. /\ [r EXCEPT !.in_glib = FALSE] \in AsyncCallRecords
        /\ [r EXCEPT !.in_glib = FALSE].source = r.source
    BY <1>1 DEF AsyncCallRecords
  <2> QED
    BY <2>1, <2>2, <2>3, <2>4
<1> QED
  BY <1>2

(* What becomes of the fields of that call.                                *)
LEMMA UpdateFields ==
    ASSUME NEW f \in [AsyncCallNames -> AsyncCallRecords], NEW c \in AsyncCallNames, NEW g
    PROVE  /\ \A st : g = [f EXCEPT ![c].state = st] =>
                  /\ g[c].state = st /\ g[c].cancelled = f[c].cancelled
                  /\ g[c].reported = f[c].reported /\ g[c].in_glib = f[c].in_glib
           /\ g = [f EXCEPT ![c].cancelled = TRUE] =>
                  /\ g[c].cancelled /\ g[c].state = f[c].state
                  /\ g[c].reported = f[c].reported /\ g[c].in_glib = f[c].in_glib
           /\ g = [f EXCEPT ![c].reported = TRUE] =>
                  /\ g[c].reported /\ g[c].state = f[c].state
                  /\ g[c].cancelled = f[c].cancelled /\ g[c].in_glib = f[c].in_glib
           /\ g = [f EXCEPT ![c].in_glib = FALSE] =>
                  /\ ~g[c].in_glib /\ g[c].state = f[c].state
                  /\ g[c].cancelled = f[c].cancelled /\ g[c].reported = f[c].reported
<1> DEFINE r == f[c]
<1>1. r \in AsyncCallRecords
  OBVIOUS
<1>2. /\ \A st : g = [f EXCEPT ![c].state = st] => g[c] = [r EXCEPT !.state = st]
      /\ g = [f EXCEPT ![c].cancelled = TRUE] => g[c] = [r EXCEPT !.cancelled = TRUE]
      /\ g = [f EXCEPT ![c].reported = TRUE] => g[c] = [r EXCEPT !.reported = TRUE]
      /\ g = [f EXCEPT ![c].in_glib = FALSE] => g[c] = [r EXCEPT !.in_glib = FALSE]
  OBVIOUS
<1> HIDE DEF r
<1> QED
  BY <1>1, <1>2 DEF AsyncCallRecords, r

(* A slot is emptied; a call that is waiting is reported as canceled, and  *)
(* stays with GLib, and so is one that has never been made.  No jump waits *)
(* for a call that is not in the slot any more.                            *)
LEMMA CancelDoes ==
    ASSUME NEW w, AsyncTypes(w), SlotsOK(w), JumpOK(w), NEW s \in Sources
    PROVE  LET v == cancel_and_delete(w, s)
               c == w.slots[s]
           IN  /\ v.pool = w.pool /\ DOMAIN v = DOMAIN w
               /\ v.slots = [w.slots EXCEPT ![s] = NoCall]
               /\ v.async \in [AsyncCallNames -> AsyncCallRecords]
               /\ \A d \in AsyncCallNames :
                      /\ v.async[d].source = w.async[d].source
                      /\ v.async[d].in_glib = w.async[d].in_glib
                      /\ d # c => v.async[d] = w.async[d]
               /\ \/ c \notin w.pool /\ v.busy = w.busy
                  \/ /\ c \in w.pool /\ v.busy = BusyClear(w.busy, s)
                     /\ w.async[c].source = s /\ IsGivenUp(v.async[c])
                  \/ /\ c \notin w.pool /\ v.busy = BusyClear(w.busy, s)
                     /\ c # NoCall /\ IsUnmade(w.async[c]) /\ s = ContextRoot
               /\ v.jump \in JumpStates
               /\ s = ParentLink => v.jump = w.jump
               /\ s = ContextRoot => v.jump # "GET_CONTEXT_PARENT_ID"
<1> DEFINE v == cancel_and_delete(w, s)
           c == w.slots[s]
           u == do_cancel(w, c)
           x == [u EXCEPT !.async[c].state = "CANCELING_DIRECTLY"]
           y == [x EXCEPT !.async[c].state = "CANCELED"]
           z == [y EXCEPT !.async[c].reported = TRUE]
           r == result_available(z, c, FALSE)
           Recs == [AsyncCallNames -> AsyncCallRecords]
<1>1. CASE c = NoCall
  <2>1. v = w /\ c \notin w.pool
    BY <1>1, AsyncAssumption DEF cancel_and_delete, AsyncTypes
  <2>2. w.slots = [w.slots EXCEPT ![s] = NoCall] /\ w.async \in Recs
    BY <1>1 DEF AsyncTypes
  <2>3. w.jump \in JumpStates /\ (s = ContextRoot => w.jump # "GET_CONTEXT_PARENT_ID")
    BY <1>1 DEF AsyncTypes, JumpOK
  <2> HIDE DEF v, c
  <2> QED
    BY <2>1, <2>2, <2>3 DEF v, c
<1>2. ASSUME c # NoCall
      PROVE  /\ c \in AsyncCallNames /\ w.async[c].source = s
             /\ \/ IsWaiting(w.async[c]) /\ c \in w.pool
                \/ w.async[c].state = "DONE" /\ c \notin w.pool /\ s = ParentLink
                \/ IsUnmade(w.async[c]) /\ c \notin w.pool /\ s = ContextRoot
  BY <1>2 DEF SlotsOK, CallSlotOK, AsyncTypes
<1>3. w.async \in Recs /\ {"async", "slots", "pool", "busy", "jump"} \subseteq DOMAIN w
      /\ w.jump \in JumpStates
  BY DEF AsyncTypes
<1>4. ASSUME c \in AsyncCallNames
      PROVE  /\ u.async \in Recs /\ u.slots = w.slots /\ u.pool = w.pool /\ u.busy = w.busy
             /\ DOMAIN u = DOMAIN w /\ u.jump = w.jump
             /\ \A d \in AsyncCallNames :
                    u.async[d].source = w.async[d].source /\ (d # c => u.async[d] = w.async[d])
             /\ u.async[c].cancelled /\ u.async[c].in_glib = w.async[c].in_glib
             /\ u.async[c].reported = w.async[c].reported
  <2>1. /\ u.async = [w.async EXCEPT ![c].cancelled = TRUE] /\ DOMAIN u = DOMAIN w
        /\ u.slots = w.slots /\ u.pool = w.pool /\ u.busy = w.busy /\ u.jump = w.jump
    BY <1>3 DEF do_cancel
  <2> HIDE DEF u, c
  <2>2. "DONE" \in AsyncResults
    BY DEF AsyncResults
  <2>3. /\ u.async \in Recs
        /\ \A d \in AsyncCallNames :
               /\ u.async[d].source = w.async[d].source
               /\ d # c => u.async[d] = w.async[d]
    BY <1>3, <1>4, <2>1, <2>2, UpdateCall
  <2> QED
    BY <1>3, <1>4, <2>1, <2>2, <2>3, UpdateFields
<1>5. CASE c # NoCall /\ w.async[c].state = "DONE" /\ c \notin w.pool /\ s = ParentLink
  <2>1. v = [u EXCEPT !.slots[s] = NoCall]
    BY <1>5 DEF cancel_and_delete
  <2> HIDE DEF u
  <2>2. /\ v.slots = [w.slots EXCEPT ![s] = NoCall] /\ v.async = u.async /\ v.pool = w.pool
        /\ v.busy = w.busy /\ DOMAIN v = DOMAIN w /\ v.jump = w.jump
    BY <1>2, <1>3, <1>4, <1>5, <2>1
  <2> HIDE DEF v, c
  <2>3. \A d \in AsyncCallNames : u.async[d].in_glib = w.async[d].in_glib
    BY <1>2, <1>4, <1>5
  <2> QED
    BY <1>2, <1>3, <1>4, <1>5, <2>2, <2>3, SourcesAre DEF v, c
<1>6. CASE /\ c # NoCall
           /\ \/ IsWaiting(w.async[c]) /\ c \in w.pool
              \/ IsUnmade(w.async[c]) /\ c \notin w.pool /\ s = ContextRoot
  <2>1. v = [ready_directly(u, c) EXCEPT !.slots[s] = NoCall]
    BY <1>6 DEF cancel_and_delete, IsWaiting, IsUnmade
  <2>2. c \in AsyncCallNames /\ w.async[c].source = s /\ ~w.async[c].reported
    BY <1>2, <1>6 DEF IsWaiting, IsUnmade
  <2>3. "CANCELING_DIRECTLY" \in AsyncResults /\ "CANCELED" \in AsyncResults
    BY DEF AsyncResults
  <2> HIDE DEF c, u
  <2>4. /\ x.async = [u.async EXCEPT ![c].state = "CANCELING_DIRECTLY"]
        /\ x.slots = w.slots /\ x.pool = w.pool /\ x.busy = w.busy /\ DOMAIN x = DOMAIN w
        /\ x.jump = w.jump
    BY <1>3, <1>4, <2>2
  <2>5. /\ x.async \in Recs
        /\ \A d \in AsyncCallNames :
               /\ x.async[d].source = w.async[d].source
               /\ d # c => x.async[d] = w.async[d]
    <3>1. /\ x.async \in Recs
          /\ \A d \in AsyncCallNames :
                 x.async[d].source = u.async[d].source /\ (d # c => x.async[d] = u.async[d])
      <4>1. \E st \in AsyncResults : x.async = [u.async EXCEPT ![c].state = st]
        BY <2>3, <2>4
      <4>2. u.async \in Recs /\ c \in AsyncCallNames
        BY <1>4, <2>2
      <4> QED
        BY <4>1, <4>2, UpdateCall
    <3> QED
      BY <1>4, <2>2, <2>3, <2>4, <3>1
  <2>6. /\ x.async[c].cancelled /\ x.async[c].in_glib = w.async[c].in_glib
        /\ ~x.async[c].reported
    BY <1>4, <2>2, <2>4, UpdateFields
  <2> HIDE DEF x
  <2>7. /\ y.async = [x.async EXCEPT ![c].state = "CANCELED"]
        /\ y.slots = w.slots /\ y.pool = w.pool /\ y.busy = w.busy /\ DOMAIN y = DOMAIN w
        /\ y.jump = w.jump
    BY <1>3, <2>4
  <2>8. /\ y.async \in Recs
        /\ \A d \in AsyncCallNames :
               /\ y.async[d].source = w.async[d].source
               /\ d # c => y.async[d] = w.async[d]
    <3>1. /\ y.async \in Recs
          /\ \A d \in AsyncCallNames :
                 y.async[d].source = x.async[d].source /\ (d # c => y.async[d] = x.async[d])
      <4>1. \E st \in AsyncResults : y.async = [x.async EXCEPT ![c].state = st]
        BY <2>3, <2>7
      <4> QED
        BY <4>1, <2>2, <2>5, UpdateCall
    <3> QED
      BY <2>2, <2>3, <2>5, <2>7, <3>1
  <2>9. /\ y.async[c].cancelled /\ y.async[c].in_glib = w.async[c].in_glib
        /\ ~y.async[c].reported /\ y.async[c].state = "CANCELED"
    BY <2>2, <2>5, <2>6, <2>7, UpdateFields
  <2> HIDE DEF y
  <2>10. /\ z.async = [y.async EXCEPT ![c].reported = TRUE]
         /\ z.slots = w.slots /\ z.pool = w.pool /\ z.busy = w.busy /\ DOMAIN z = DOMAIN w
         /\ z.jump = w.jump
    BY <1>3, <2>7
  <2> HIDE DEF z
  <2>11. /\ z.async \in Recs
         /\ \A d \in AsyncCallNames :
                /\ z.async[d].source = w.async[d].source
                /\ d # c => z.async[d] = w.async[d]
    <3>1. /\ z.async \in Recs
          /\ \A d \in AsyncCallNames :
                 z.async[d].source = y.async[d].source /\ (d # c => z.async[d] = y.async[d])
      <4>1. y.async \in Recs /\ c \in AsyncCallNames
        BY <2>2, <2>8
      <4> QED
        BY <2>10, <4>1, UpdateCall
    <3> QED
      BY <2>2, <2>3, <2>8, <2>10, <3>1
  <2>12. /\ z.async[c].cancelled /\ z.async[c].in_glib = w.async[c].in_glib
         /\ z.async[c].reported /\ z.async[c].state = "CANCELED" /\ z.async[c].source = s
    BY <2>2, <2>8, <2>9, <2>10, <2>11, UpdateFields
  <2>13. /\ r.async = z.async /\ r.pool = w.pool /\ r.busy = w.busy /\ DOMAIN r = DOMAIN w
         /\ r.slots = [w.slots EXCEPT ![s] = NoCall]
         /\ r.jump = IF s = ParentLink THEN w.jump ELSE "NOT_JUMPING"
    <3>1. wait_for_result(z, c) = z
      BY <2>12 DEF wait_for_result
    <3>2. z.slots[s] = c
      BY <2>10 DEF c
    <3>3. CASE s = ParentLink
      <4>1. r = [z EXCEPT !.slots[ParentLink] = NoCall]
        BY <2>12, <3>1, <3>2, <3>3 DEF result_available, got_parent_link, is_success
      <4> QED
        BY <1>3, <2>10, <3>3, <4>1
    <3>4. CASE s = ContextRoot
      <4>1. r = [z EXCEPT !.slots[ContextRoot] = NoCall, !.jump = "NOT_JUMPING"]
        BY <2>12, <3>1, <3>2, <3>4, SourcesAre DEF result_available, got_context_root, is_success
      <4> QED
        BY <1>3, <2>10, <3>4, <4>1, SourcesAre
    <3> QED
      BY <3>3, <3>4, SourcesAre
  <2>14. ready_locked(x, c, "CANCELED", FALSE) = r
    <3>1. ready_locked(x, c, "CANCELED", FALSE) = report(y, c, FALSE)
      BY <2>6 DEF ready_locked, y
    <3> QED
      BY <2>9, <3>1 DEF report, z
  <2>15. ready_directly(u, c) = [r EXCEPT !.busy = BusyClear(@, s)]
    <3>1. u.async[c].source = s
      BY <1>4, <2>2
    <3> QED
      BY <2>14, <3>1 DEF ready_directly, x
  <2> HIDE DEF r
  <2>16. v = [[r EXCEPT !.busy = BusyClear(@, s)] EXCEPT !.slots[s] = NoCall]
    BY <2>1, <2>15
  <2>17. /\ v.async = z.async /\ v.pool = w.pool /\ v.busy = BusyClear(w.busy, s)
         /\ v.slots = [w.slots EXCEPT ![s] = NoCall] /\ DOMAIN v = DOMAIN w
         /\ v.jump = IF s = ParentLink THEN w.jump ELSE "NOT_JUMPING"
    BY <1>3, <2>13, <2>16
  <2> HIDE DEF v
  <2>18. IsGivenUp(v.async[c])
    BY <2>12, <2>17 DEF IsGivenUp
  <2>19. "NOT_JUMPING" \in JumpStates /\ "NOT_JUMPING" # "GET_CONTEXT_PARENT_ID"
    BY DEF JumpStates
  <2> QED
    BY <1>3, <1>6, <2>2, <2>11, <2>12, <2>17, <2>18, <2>19, SourcesAre DEF v, c
<1> HIDE DEF v, c
<1> QED
  BY <1>1, <1>2, <1>5, <1>6 DEF v, c

(* The calls made earlier are all canceled that way.                       *)
LEMMA CancelOK ==
    ASSUME NEW w, WorldOK(w), NEW s \in Sources
    PROVE  LET v == cancel_and_delete(w, s)
           IN  /\ WorldOK(v) /\ v.pool = w.pool /\ v.slots = [w.slots EXCEPT ![s] = NoCall]
               /\ DOMAIN v = DOMAIN w
               /\ \A d \in AsyncCallNames : v.async[d].source = w.async[d].source
<1> DEFINE v == cancel_and_delete(w, s)
           c == w.slots[s]
<1>0. /\ AsyncTypes(w) /\ PoolOK(w) /\ SlotsOK(w) /\ JumpOK(w) /\ ToldOK(w.busy)
      /\ CountsOK(w) /\ PatientOK(w)
  BY DEF WorldOK
<1>1. /\ v.pool = w.pool /\ v.slots = [w.slots EXCEPT ![s] = NoCall] /\ DOMAIN v = DOMAIN w
      /\ v.async \in [AsyncCallNames -> AsyncCallRecords]
      /\ \A d \in AsyncCallNames :
             /\ v.async[d].source = w.async[d].source
             /\ v.async[d].in_glib = w.async[d].in_glib
             /\ d # c => v.async[d] = w.async[d]
      /\ \/ c \notin w.pool /\ v.busy = w.busy
         \/ /\ c \in w.pool /\ v.busy = BusyClear(w.busy, s)
            /\ w.async[c].source = s /\ IsGivenUp(v.async[c])
         \/ /\ c \notin w.pool /\ v.busy = BusyClear(w.busy, s)
            /\ c # NoCall /\ IsUnmade(w.async[c]) /\ s = ContextRoot
      /\ v.jump \in JumpStates
      /\ s = ParentLink => v.jump = w.jump
      /\ s = ContextRoot => v.jump # "GET_CONTEXT_PARENT_ID"
  BY <1>0, CancelDoes
<1>2. w.busy \in BusyStates /\ w.pool \subseteq AsyncCallNames
  BY <1>0 DEF AsyncTypes
<1> HIDE DEF v
<1>3. AsyncTypes(v) /\ ToldOK(v.busy)
  <2>1. v.busy \in BusyStates /\ ToldOK(v.busy)
    <3>1. BusyClear(w.busy, s) \in BusyStates /\ ToldOK(BusyClear(w.busy, s))
      BY <1>0, <1>2, BusyClearDoes
    <3>2. v.busy = w.busy \/ v.busy = BusyClear(w.busy, s)
      BY <1>1
    <3> QED
      BY <1>0, <1>2, <3>1, <3>2
  <2>2. v.slots \in [Sources -> AsyncCallNames \cup {NoCall}]
    BY <1>0, <1>1 DEF AsyncTypes
  <2> QED
    BY <1>0, <1>1, <1>2, <2>1, <2>2 DEF AsyncTypes
<1>4. \A t : Outstanding(v, t) = Outstanding(w, t)
  BY <1>1, <1>2 DEF Outstanding
<1>5. PoolOK(v)
  BY <1>0, <1>1, <1>2 DEF PoolOK
<1>6. SlotsOK(v)
  <2> SUFFICES ASSUME NEW t \in Sources, v.slots[t] # NoCall
               PROVE  CallSlotOK(v, t)
    BY DEF SlotsOK
  <2>1. t # s /\ v.slots[t] = w.slots[t] /\ w.slots[t] \in AsyncCallNames
    BY <1>0, <1>1 DEF AsyncTypes
  <2>2. w.async[w.slots[t]].source = t /\ (c # NoCall => w.async[c].source = s)
    BY <1>0, <2>1 DEF SlotsOK, CallSlotOK
  <2>3. w.slots[t] # c
    BY <2>1, <2>2
  <2>4. CallSlotOK(w, t)
    BY <1>0, <2>1 DEF SlotsOK
  <2> QED
    BY <1>1, <2>1, <2>3, <2>4 DEF CallSlotOK
<1>7. CountsOK(v)
  <2> SUFFICES ASSUME NEW t \in Sources
               PROVE  /\ v.busy.counts[t] <= Cardinality(Outstanding(w, t))
                      /\ t \in v.busy.flags <=> v.busy.counts[t] > 0
    BY <1>4 DEF CountsOK
  <2>1. /\ w.busy.counts[t] <= Cardinality(Outstanding(w, t)) /\ w.busy.counts[t] \in Nat
        /\ t \in w.busy.flags <=> w.busy.counts[t] > 0
        /\ w.busy.counts \in [Sources -> Nat]
    BY <1>0, <1>2 DEF CountsOK, BusyStates
  <2>2. Cardinality(Outstanding(w, t)) \in Nat
    BY <1>0, OutstandingFinite
  <2>3. CASE v.busy = w.busy
    BY <2>1, <2>3
  <2>4. CASE v.busy = BusyClear(w.busy, s)
    <3>1. /\ v.busy.flags = IF w.busy.counts[s] <= 1 THEN w.busy.flags \ {s} ELSE w.busy.flags
          /\ v.busy.counts = [w.busy.counts EXCEPT ![s] = IF @ > 0 THEN @ - 1 ELSE 0]
      BY <1>0, <1>2, <2>4, BusyClearDoes
    <3>2. CASE t = s
      BY <2>1, <2>2, <3>1, <3>2
    <3>3. CASE t # s
      BY <2>1, <3>1, <3>3
    <3> QED
      BY <3>2, <3>3
  <2> QED
    BY <1>1, <2>3, <2>4
<1>8. PatientOK(v)
  <2> SUFFICES ASSUME patient, NEW d \in w.pool
               PROVE  /\ \A e \in w.pool : v.async[d].source = v.async[e].source => d = e
                      /\ v.async[d].state = "IN_PROGRESS" => v.busy.counts[v.async[d].source] > 0
    BY <1>1 DEF PatientOK
  <2>1. /\ \A e \in w.pool : w.async[d].source = w.async[e].source => d = e
        /\ w.async[d].state = "IN_PROGRESS" => w.busy.counts[w.async[d].source] > 0
    BY <1>0 DEF PatientOK
  <2>2. d \in AsyncCallNames /\ w.async[d].source \in Sources
    BY <1>0, <1>2 DEF PoolOK
  <2>3. \A e \in w.pool : v.async[d].source = v.async[e].source => d = e
    BY <1>1, <1>2, <2>1
  <2>4. ASSUME v.async[d].state = "IN_PROGRESS"
        PROVE  v.busy.counts[v.async[d].source] > 0
    <3>1. CASE c \notin w.pool /\ v.busy = w.busy
      BY <1>1, <2>1, <2>2, <2>4, <3>1
    <3>2. CASE /\ c \in w.pool /\ v.busy = BusyClear(w.busy, s)
               /\ w.async[c].source = s /\ IsGivenUp(v.async[c])
      <4>1. d # c
        BY <2>4, <3>2 DEF IsGivenUp
      <4>2. w.async[d].source # s
        BY <2>1, <3>2, <4>1
      <4>3. v.busy.counts = [w.busy.counts EXCEPT ![s] = IF @ > 0 THEN @ - 1 ELSE 0]
        BY <1>0, <1>2, <3>2, BusyClearDoes
      <4>4. w.busy.counts \in [Sources -> Nat]
        BY <1>2 DEF BusyStates
      <4>5. v.async[d] = w.async[d]
        BY <1>1, <2>2, <4>1
      <4> HIDE DEF c
      <4> QED
        BY <2>1, <2>2, <2>4, <4>2, <4>3, <4>4, <4>5
    <3>3. CASE /\ c \notin w.pool /\ v.busy = BusyClear(w.busy, s)
               /\ c # NoCall /\ IsUnmade(w.async[c]) /\ s = ContextRoot
      <4>1. d # c /\ v.async[d] = w.async[d]
        BY <1>1, <2>2, <3>3
      <4>2. w.async[d].source # s
        BY <1>0, <2>4, <3>3, <4>1 DEF JumpOK
      <4>3. v.busy.counts = [w.busy.counts EXCEPT ![s] = IF @ > 0 THEN @ - 1 ELSE 0]
        BY <1>0, <1>2, <3>3, BusyClearDoes
      <4>4. w.busy.counts \in [Sources -> Nat]
        BY <1>2 DEF BusyStates
      <4> HIDE DEF c
      <4> QED
        BY <2>1, <2>2, <2>4, <4>1, <4>2, <4>3, <4>4
    <3> QED
      BY <1>1, <3>1, <3>2, <3>3
  <2> QED
    BY <2>3, <2>4
<1>9. JumpOK(v)
  <2>1. w.slots \in [Sources -> AsyncCallNames \cup {NoCall}] /\ ContextRoot \in Sources
    BY <1>0, SourcesAre DEF AsyncTypes
  <2>2. CASE s = ContextRoot
    <3>1. v.slots[ContextRoot] = NoCall
      BY <1>1, <2>1, <2>2
    <3>2. ASSUME NEW d \in w.pool, v.async[d].source = ContextRoot,
                 v.async[d].state = "IN_PROGRESS"
          PROVE  FALSE
      <4>1. d # c
        BY <1>1, <3>2 DEF IsGivenUp
      <4>2. d \in AsyncCallNames /\ v.async[d] = w.async[d]
        BY <1>1, <1>2, <4>1
      <4> QED
        BY <1>0, <2>2, <3>2, <4>1, <4>2 DEF JumpOK
    <3> QED
      BY <1>1, <2>2, <3>1, <3>2 DEF JumpOK
  <2>3. CASE s = ParentLink
    <3>1. v.slots[ContextRoot] = w.slots[ContextRoot] /\ v.jump = w.jump
      BY <1>1, <2>1, <2>3, SourcesAre
    <3>2. c # NoCall => w.async[c].source = ParentLink
      BY <1>0, <2>3 DEF SlotsOK, CallSlotOK
    <3>3. w.slots[ContextRoot] # NoCall =>
              v.async[w.slots[ContextRoot]] = w.async[w.slots[ContextRoot]]
      <4> HAVE w.slots[ContextRoot] # NoCall
      <4>1. w.async[w.slots[ContextRoot]].source = ContextRoot
        BY <1>0, <2>1 DEF SlotsOK, CallSlotOK
      <4>2. w.slots[ContextRoot] \in AsyncCallNames /\ w.slots[ContextRoot] # c
        BY <2>1, <3>2, <4>1, SourcesAre
      <4> QED
        BY <1>1, <4>2
    <3>4. ASSUME NEW d \in w.pool, v.async[d].source = ContextRoot,
                 v.async[d].state = "IN_PROGRESS"
          PROVE  w.slots[ContextRoot] = d
      <4>1. d # c
        BY <1>1, <3>4 DEF IsGivenUp
      <4>2. d \in AsyncCallNames /\ v.async[d] = w.async[d]
        BY <1>1, <1>2, <4>1
      <4> QED
        BY <1>0, <3>4, <4>2 DEF JumpOK
    <3> QED
      BY <1>0, <1>1, <3>1, <3>3, <3>4 DEF JumpOK
  <2> QED
    BY <2>2, <2>3, SourcesAre
<1> QED
  BY <1>1, <1>3, <1>5, <1>6, <1>7, <1>8, <1>9 DEF WorldOK, v

LEMMA CancelAllOK ==
    ASSUME NEW w, WorldOK(w)
    PROVE  LET v == cancel_and_delete_all(w)
           IN  /\ WorldOK(v) /\ v.pool = w.pool /\ DOMAIN v = DOMAIN w
               /\ \A s \in Sources : v.slots[s] = NoCall
               /\ \A d \in AsyncCallNames : v.async[d].source = w.async[d].source
<1> DEFINE u == cancel_and_delete(w, ParentLink)
           v == cancel_and_delete(u, ContextRoot)
<1>1. Sources = {ParentLink, ContextRoot} /\ ParentLink # ContextRoot
  BY SourcesAre
<1>2. /\ WorldOK(u) /\ u.pool = w.pool /\ DOMAIN u = DOMAIN w
      /\ u.slots = [w.slots EXCEPT ![ParentLink] = NoCall]
      /\ \A d \in AsyncCallNames : u.async[d].source = w.async[d].source
  BY <1>1, CancelOK
<1> HIDE DEF u
<1>3. /\ WorldOK(v) /\ v.pool = u.pool /\ DOMAIN v = DOMAIN u
      /\ v.slots = [u.slots EXCEPT ![ContextRoot] = NoCall]
      /\ \A d \in AsyncCallNames : v.async[d].source = u.async[d].source
  BY <1>1, <1>2, CancelOK
<1>4. w.slots \in [Sources -> AsyncCallNames \cup {NoCall}]
  BY DEF WorldOK, AsyncTypes
<1> HIDE DEF v
<1>5. \A s \in Sources : v.slots[s] = NoCall
  BY <1>1, <1>2, <1>3, <1>4
<1>6. v = cancel_and_delete_all(w)
  BY DEF cancel_and_delete_all, u, v
<1> QED
  BY <1>2, <1>3, <1>5, <1>6

(***************************************************************************)
(* A call is made                                                          *)
(***************************************************************************)
\* A call GLib has been given.
Made(s) ==
    [[[[NoObject EXCEPT !.source = s] EXCEPT !.state = "IN_PROGRESS"] EXCEPT !.reported = FALSE]
         EXCEPT !.in_glib = TRUE]

LEMMA InvokeDoes ==
    ASSUME NEW w, AsyncTypes(w), NEW s \in Sources, NEW c \in AsyncCallNames
    PROVE  LET v == invoke(make_shared(w, c, s), c, s)
           IN  /\ v.async = [w.async EXCEPT ![c] = Made(s)]
               /\ v.slots = [w.slots EXCEPT ![s] = c] /\ v.pool = w.pool \cup {c}
               /\ v.busy = BusySet(w.busy, s) /\ DOMAIN v = DOMAIN w /\ v.jump = w.jump
<1> DEFINE u == make_shared(w, c, s)
           o == [NoObject EXCEPT !.source = s]
           f == [w.async EXCEPT ![c] = o]
           g == [[[f EXCEPT ![c].state = "IN_PROGRESS"] EXCEPT ![c].reported = FALSE]
                     EXCEPT ![c].in_glib = TRUE]
<1>1. /\ w.async \in [AsyncCallNames -> AsyncCallRecords]
      /\ {"async", "slots", "pool", "busy", "jump"} \subseteq DOMAIN w
  BY DEF AsyncTypes
<1>2. /\ u.async = f /\ u.slots = [w.slots EXCEPT ![s] = c] /\ DOMAIN u = DOMAIN w
      /\ u.pool = w.pool /\ u.busy = w.busy /\ u.jump = w.jump
  BY <1>1 DEF make_shared
<1>3. g = [w.async EXCEPT ![c] = Made(s)]
  <2> DEFINE p == [o EXCEPT !.state = "IN_PROGRESS"]
             q == [p EXCEPT !.reported = FALSE]
             r == [q EXCEPT !.in_glib = TRUE]
  <2>1. r = Made(s)
    BY DEF Made
  <2>2. [f EXCEPT ![c].state = "IN_PROGRESS"] = [w.async EXCEPT ![c] = p]
    BY <1>1
  <2>3. [[w.async EXCEPT ![c] = p] EXCEPT ![c].reported = FALSE] = [w.async EXCEPT ![c] = q]
    BY <1>1
  <2>4. [[w.async EXCEPT ![c] = q] EXCEPT ![c].in_glib = TRUE] = [w.async EXCEPT ![c] = r]
    BY <1>1
  <2> HIDE DEF p, q, r, f, o
  <2> QED
    BY <2>1, <2>2, <2>3, <2>4
<1> HIDE DEF u, f
<1>4. LET v == invoke(u, c, s)
      IN  /\ v.async = g /\ v.slots = u.slots /\ v.pool = u.pool \cup {c}
          /\ v.busy = BusySet(u.busy, s) /\ DOMAIN v = DOMAIN u /\ v.jump = u.jump
  BY <1>1, <1>2 DEF invoke
<1> HIDE DEF g
<1> QED
  BY <1>2, <1>3, <1>4 DEF u

\* A jump begins with a call for the root of its context.
LEMMA InvokeOK ==
    ASSUME NEW w, WorldOK(w), NEW s \in Sources, NEW c \in AsyncCallNames,
           w.slots[s] = NoCall, w.async[c].source = NoCall, patient => Outstanding(w, s) = {},
           NEW v, DOMAIN v = DOMAIN w,
           v.async = [w.async EXCEPT ![c] = Made(s)], v.slots = [w.slots EXCEPT ![s] = c],
           v.pool = w.pool \cup {c}, v.busy = BusySet(w.busy, s),
           v.jump = IF s = ParentLink THEN w.jump ELSE "GET_CONTEXT_PARENT_ID"
    PROVE  WorldOK(v)
<1> DEFINE k == Made(s)
<1>0. /\ AsyncTypes(w) /\ PoolOK(w) /\ SlotsOK(w) /\ JumpOK(w) /\ ToldOK(w.busy)
      /\ CountsOK(w) /\ PatientOK(w)
  BY DEF WorldOK
<1>1. /\ w.busy \in BusyStates /\ w.pool \subseteq AsyncCallNames
      /\ w.slots \in [Sources -> AsyncCallNames \cup {NoCall}]
      /\ w.async \in [AsyncCallNames -> AsyncCallRecords]
      /\ {"async", "slots", "pool", "busy", "jump"} \subseteq DOMAIN w
      /\ w.jump \in JumpStates
  BY <1>0 DEF AsyncTypes
<1>2. /\ v.async = [w.async EXCEPT ![c] = k] /\ v.slots = [w.slots EXCEPT ![s] = c]
      /\ v.pool = w.pool \cup {c} /\ v.busy = BusySet(w.busy, s) /\ DOMAIN v = DOMAIN w
  OBVIOUS
<1>3. k \in AsyncCallRecords /\ IsWaiting(k)
  BY DEF AsyncCallRecords, AsyncResults, IsWaiting, Made, NoObject
<1>4. k.source = s /\ ~k.cancelled /\ k.in_glib
  BY DEF Made, NoObject
<1> HIDE DEF k
<1>5. NoCall \notin Sources /\ NoCall \notin AsyncCallNames
  BY AsyncAssumption
<1>6. c \notin w.pool /\ \A t \in Sources : w.slots[t] # c
  <2>1. c \notin w.pool
    BY <1>0, <1>5 DEF PoolOK
  <2>2. ASSUME NEW t \in Sources
        PROVE  w.slots[t] # c
    BY <1>0, <1>5 DEF SlotsOK, CallSlotOK
  <2> QED
    BY <2>1, <2>2
<1>7. /\ v.busy \in BusyStates /\ ToldOK(v.busy) /\ v.busy.flags = w.busy.flags \cup {s}
      /\ v.busy.counts = [w.busy.counts EXCEPT ![s] = IF @ < MaxBusyCount THEN @ + 1 ELSE @]
  <2>1. /\ BusySet(w.busy, s) \in BusyStates /\ ToldOK(BusySet(w.busy, s))
        /\ BusySet(w.busy, s).flags = w.busy.flags \cup {s}
        /\ BusySet(w.busy, s).counts
               = [w.busy.counts EXCEPT ![s] = IF @ < MaxBusyCount THEN @ + 1 ELSE @]
    BY <1>0, <1>1, BusySetDoes
  <2>2. v.busy = BusySet(w.busy, s)
    BY <1>2
  <2> QED
    BY <2>1, <2>2
<1>8. v.async[c] = k /\ \A d \in AsyncCallNames : d # c => v.async[d] = w.async[d]
  BY <1>1, <1>2
<1>9. AsyncTypes(v)
  <2>1. v.slots \in [Sources -> AsyncCallNames \cup {NoCall}]
    BY <1>1, <1>2
  <2>2. v.async \in [AsyncCallNames -> AsyncCallRecords]
    BY <1>1, <1>2, <1>3
  <2>3. v.jump \in JumpStates
    BY <1>1 DEF JumpStates
  <2> QED
    BY <1>1, <1>2, <1>7, <2>1, <2>2, <2>3 DEF AsyncTypes
<1>10. PoolOK(v)
  BY <1>0, <1>1, <1>2, <1>3, <1>4, <1>8 DEF PoolOK
<1>11. SlotsOK(v)
  <2> SUFFICES ASSUME NEW t \in Sources, v.slots[t] # NoCall
               PROVE  CallSlotOK(v, t)
    BY DEF SlotsOK
  <2>1. CASE t = s
    <3>1. v.slots[t] = c
      BY <1>1, <1>2, <2>1
    <3> QED
      BY <1>2, <1>3, <1>4, <1>8, <2>1, <3>1 DEF CallSlotOK
  <2>2. CASE t # s
    <3>1. v.slots[t] = w.slots[t] /\ w.slots[t] # NoCall /\ w.slots[t] \in AsyncCallNames
      BY <1>1, <1>2, <2>2
    <3>2. w.slots[t] # c
      BY <1>6
    <3>3. /\ v.async[w.slots[t]] = w.async[w.slots[t]]
          /\ w.slots[t] \in v.pool <=> w.slots[t] \in w.pool
      BY <1>2, <1>8, <3>1, <3>2
    <3>4. CallSlotOK(w, t)
      BY <1>0, <3>1 DEF SlotsOK
    <3> QED
      BY <3>1, <3>3, <3>4 DEF CallSlotOK
  <2> QED
    BY <2>1, <2>2
<1>12. CountsOK(v)
  <2> SUFFICES ASSUME NEW t \in Sources
               PROVE  /\ v.busy.counts[t] <= Cardinality(Outstanding(v, t))
                      /\ t \in v.busy.flags <=> v.busy.counts[t] > 0
    BY DEF CountsOK
  <2>1. /\ w.busy.counts[t] <= Cardinality(Outstanding(w, t)) /\ w.busy.counts[t] \in Nat
        /\ t \in w.busy.flags <=> w.busy.counts[t] > 0
        /\ w.busy.counts \in [Sources -> Nat]
    BY <1>0, <1>1 DEF CountsOK, BusyStates
  <2>2. IsFiniteSet(Outstanding(w, t)) /\ Cardinality(Outstanding(w, t)) \in Nat
    BY <1>0, OutstandingFinite
  <2>3. CASE t = s
    <3>1. Outstanding(v, t) = Outstanding(w, t) \cup {c}
      BY <1>1, <1>2, <1>4, <1>6, <1>8, <2>3 DEF Outstanding
    <3>2. c \notin Outstanding(w, t)
      BY <1>6 DEF Outstanding
    <3>3. Cardinality(Outstanding(v, t)) = Cardinality(Outstanding(w, t)) + 1
      BY <2>2, <3>1, <3>2, FS_AddElement
    <3> QED
      BY <1>7, <2>1, <2>2, <2>3, <3>3, AsyncAssumption
  <2>4. CASE t # s
    <3>1. Outstanding(v, t) = Outstanding(w, t)
      BY <1>1, <1>2, <1>4, <1>6, <1>8, <2>4 DEF Outstanding
    <3> QED
      BY <1>7, <2>1, <2>4, <3>1
  <2> QED
    BY <2>3, <2>4
<1>13. PatientOK(v)
  <2> SUFFICES ASSUME patient, NEW d \in v.pool
               PROVE  /\ \A e \in v.pool : v.async[d].source = v.async[e].source => d = e
                      /\ v.async[d].state = "IN_PROGRESS" => v.busy.counts[v.async[d].source] > 0
    BY DEF PatientOK
  <2>1. \A e \in w.pool : e # c /\ v.async[e] = w.async[e] /\ w.async[e].source # s
                          /\ w.async[e].source \in Sources
    BY <1>0, <1>1, <1>6, <1>8 DEF Outstanding, PoolOK
  <2>2. w.busy.counts \in [Sources -> Nat]
    BY <1>1 DEF BusyStates
  <2>3. CASE d = c
    <3>1. v.async[d].source = s
      BY <1>4, <1>8, <2>3
    <3>2. \A e \in v.pool : v.async[d].source = v.async[e].source => d = e
      BY <1>2, <2>1, <2>3, <3>1
    <3>3. v.busy.counts[s] > 0
      BY <1>7, <2>2, AsyncAssumption
    <3> QED
      BY <3>1, <3>2, <3>3
  <2>4. CASE d # c
    <3>1. d \in w.pool
      BY <1>2, <2>4
    <3>2. \A e \in w.pool : w.async[d].source = w.async[e].source => d = e
      BY <1>0, <3>1 DEF PatientOK
    <3>3. \A e \in v.pool : v.async[d].source = v.async[e].source => d = e
      BY <1>2, <1>4, <1>8, <2>1, <3>1, <3>2
    <3>4. ASSUME v.async[d].state = "IN_PROGRESS"
          PROVE  v.busy.counts[v.async[d].source] > 0
      <4>1. w.busy.counts[w.async[d].source] > 0
        BY <1>0, <2>1, <3>1, <3>4 DEF PatientOK
      <4> QED
        BY <1>7, <2>1, <2>2, <3>1, <4>1
    <3> QED
      BY <3>3, <3>4
  <2> QED
    BY <2>3, <2>4
<1>14. JumpOK(v)
  <2>1. ContextRoot \in Sources
    BY SourcesAre
  <2>2. CASE s = ContextRoot
    <3>1. v.slots[ContextRoot] = c /\ c # NoCall /\ v.jump = "GET_CONTEXT_PARENT_ID"
          /\ v.async[c].state = "IN_PROGRESS"
      BY <1>1, <1>2, <1>3, <1>5, <1>8, <2>1, <2>2, SourcesAre DEF IsWaiting
    <3>2. ASSUME NEW d \in w.pool, v.async[d].source = ContextRoot,
                 v.async[d].state = "IN_PROGRESS"
          PROVE  FALSE
      <4>1. v.async[d] = w.async[d] /\ d # NoCall
        BY <1>1, <1>5, <1>6, <1>8
      <4> QED
        BY <1>0, <2>2, <3>2, <4>1 DEF JumpOK
    <3> QED
      BY <1>2, <3>1, <3>2 DEF JumpOK
  <2>3. CASE s = ParentLink
    <3>1. v.slots[ContextRoot] = w.slots[ContextRoot] /\ v.jump = w.jump
      BY <1>1, <1>2, <2>1, <2>3, SourcesAre
    <3>2. w.slots[ContextRoot] # NoCall =>
              v.async[w.slots[ContextRoot]] = w.async[w.slots[ContextRoot]]
      BY <1>1, <1>6, <1>8, <2>1
    <3>3. v.async[c].source # ContextRoot
      BY <1>4, <1>8, <2>3, SourcesAre
    <3>4. \A d \in w.pool : v.async[d] = w.async[d]
      BY <1>1, <1>6, <1>8
    <3> QED
      BY <1>0, <1>2, <3>1, <3>2, <3>3, <3>4 DEF JumpOK
  <2> QED
    BY <2>2, <2>3, SourcesAre
<1> QED
  BY <1>7, <1>9, <1>10, <1>11, <1>12, <1>13, <1>14 DEF WorldOK

(* A call that is not made is in its slot, and nowhere else.               *)
LEMMA StoredOK ==
    ASSUME NEW w, WorldOK(w), NEW c \in AsyncCallNames,
           w.slots[ContextRoot] = NoCall, w.async[c].source = NoCall
    PROVE  WorldOK(make_shared(w, c, ContextRoot))
<1> DEFINE v == make_shared(w, c, ContextRoot)
           k == [NoObject EXCEPT !.source = ContextRoot]
<1>0. /\ AsyncTypes(w) /\ PoolOK(w) /\ SlotsOK(w) /\ JumpOK(w) /\ ToldOK(w.busy)
      /\ CountsOK(w) /\ PatientOK(w)
  BY DEF WorldOK
<1>1. /\ w.busy \in BusyStates /\ w.pool \subseteq AsyncCallNames
      /\ w.slots \in [Sources -> AsyncCallNames \cup {NoCall}]
      /\ w.async \in [AsyncCallNames -> AsyncCallRecords]
      /\ {"async", "slots", "pool", "busy", "jump"} \subseteq DOMAIN w
      /\ w.jump \in JumpStates /\ ContextRoot \in Sources
  BY <1>0, SourcesAre DEF AsyncTypes
<1>2. /\ v.async = [w.async EXCEPT ![c] = k] /\ v.slots = [w.slots EXCEPT ![ContextRoot] = c]
      /\ v.pool = w.pool /\ v.busy = w.busy /\ v.jump = w.jump /\ DOMAIN v = DOMAIN w
  BY <1>1 DEF make_shared
<1>3. /\ k \in AsyncCallRecords /\ IsUnmade(k) /\ k.source = ContextRoot /\ ~k.cancelled
      /\ ~k.in_glib /\ k.state # "IN_PROGRESS"
  BY <1>1 DEF AsyncCallRecords, AsyncResults, IsUnmade, NoObject
<1> HIDE DEF v, k
<1>4. NoCall \notin Sources /\ NoCall \notin AsyncCallNames
  BY AsyncAssumption
<1>5. c \notin w.pool /\ \A t \in Sources : w.slots[t] # c
  BY <1>0, <1>4 DEF PoolOK, SlotsOK, CallSlotOK
<1>6. v.async[c] = k /\ \A d \in AsyncCallNames : d # c => v.async[d] = w.async[d]
  BY <1>1, <1>2
<1>7. AsyncTypes(v)
  <2>1. v.slots \in [Sources -> AsyncCallNames \cup {NoCall}]
    BY <1>1, <1>2
  <2>2. v.async \in [AsyncCallNames -> AsyncCallRecords]
    BY <1>1, <1>2, <1>3
  <2> QED
    BY <1>1, <1>2, <2>1, <2>2 DEF AsyncTypes
<1>8. \A d \in w.pool : v.async[d] = w.async[d]
  BY <1>1, <1>5, <1>6
<1>9. PoolOK(v)
  BY <1>0, <1>2, <1>3, <1>5, <1>6, <1>8 DEF PoolOK
<1>10. SlotsOK(v)
  <2> SUFFICES ASSUME NEW t \in Sources, v.slots[t] # NoCall
               PROVE  CallSlotOK(v, t)
    BY DEF SlotsOK
  <2>1. CASE t = ContextRoot
    <3>1. v.slots[t] = c
      BY <1>1, <1>2, <2>1
    <3> QED
      BY <1>2, <1>3, <1>5, <1>6, <2>1, <3>1 DEF CallSlotOK
  <2>2. CASE t # ContextRoot
    <3>1. v.slots[t] = w.slots[t] /\ w.slots[t] # NoCall /\ w.slots[t] \in AsyncCallNames
      BY <1>1, <1>2, <2>2
    <3>2. v.async[w.slots[t]] = w.async[w.slots[t]] /\ CallSlotOK(w, t)
      BY <1>0, <1>5, <1>6, <3>1 DEF SlotsOK
    <3> QED
      BY <1>2, <3>1, <3>2 DEF CallSlotOK
  <2> QED
    BY <2>1, <2>2
<1>11. CountsOK(v) /\ PatientOK(v)
  <2>1. \A t : Outstanding(v, t) = Outstanding(w, t)
    BY <1>2, <1>8 DEF Outstanding
  <2> QED
    BY <1>0, <1>2, <1>8, <2>1 DEF CountsOK, PatientOK
<1>12. JumpOK(v)
  <2>1. v.slots[ContextRoot] = c /\ v.jump # "GET_CONTEXT_PARENT_ID"
    BY <1>0, <1>1, <1>2 DEF JumpOK
  <2>2. \A d \in w.pool : ~(w.async[d].source = ContextRoot /\ w.async[d].state = "IN_PROGRESS")
    BY <1>0, <1>1, <1>4 DEF JumpOK
  <2> QED
    BY <1>2, <1>3, <1>6, <1>8, <2>1, <2>2 DEF JumpOK
<1> QED
  BY <1>0, <1>2, <1>7, <1>9, <1>10, <1>11, <1>12 DEF WorldOK, v

(***************************************************************************)
(* GLib calls back                                                         *)
(***************************************************************************)
(* The call gets its result; it stays in its slot only if it has led to    *)
(* the parent of the list.                                                 *)
LEMMA ReadyDoes ==
    ASSUME NEW w, WorldOK(w), NEW c \in w.pool, NEW reply \in {"READY", "FAILED"},
           NEW valid \in BOOLEAN
    PROVE  LET u == ready_locked(w, c, reply, valid)
           IN  /\ u.pool = w.pool /\ u.busy = w.busy /\ DOMAIN u = DOMAIN w
               /\ u.async \in [AsyncCallNames -> AsyncCallRecords]
               /\ u.slots \in [Sources -> AsyncCallNames \cup {NoCall}]
               /\ \A d \in AsyncCallNames :
                      /\ u.async[d].source = w.async[d].source
                      /\ u.async[d].in_glib = w.async[d].in_glib
                      /\ d # c => u.async[d] = w.async[d]
               /\ \A t \in Sources : u.slots[t] # NoCall =>
                      /\ u.slots[t] = w.slots[t]
                      /\ w.slots[t] = c =>
                             /\ t = w.async[c].source /\ t = ParentLink
                             /\ u.async[c].state = "DONE" /\ ~u.async[c].cancelled
               /\ \A t \in Sources : w.slots[t] # c => u.slots[t] = w.slots[t]
               /\ u.jump \in JumpStates
               /\ IF w.slots[ContextRoot] = c THEN u.jump # "GET_CONTEXT_PARENT_ID"
                  ELSE u.jump = w.jump
<1> DEFINE u == ready_locked(w, c, reply, valid)
           s == w.async[c].source
           Recs == [AsyncCallNames -> AsyncCallRecords]
<1>1. AsyncTypes(w) /\ PoolOK(w) /\ SlotsOK(w)
  BY DEF WorldOK
<1>2. /\ c \in AsyncCallNames /\ s \in Sources /\ (IsWaiting(w.async[c]) \/ IsGivenUp(w.async[c]))
      /\ c # NoCall
  BY <1>1, AsyncAssumption DEF PoolOK, AsyncTypes
<1>3. /\ w.async \in Recs /\ {"async", "slots", "pool", "busy", "jump"} \subseteq DOMAIN w
      /\ w.slots \in [Sources -> AsyncCallNames \cup {NoCall}] /\ w.jump \in JumpStates
      /\ ContextRoot \in Sources
  BY <1>1, SourcesAre DEF AsyncTypes
<1>4. \A t \in Sources : w.slots[t] = c => t = s /\ ~w.async[c].cancelled
  BY <1>1, <1>2 DEF SlotsOK, CallSlotOK
<1>5. "CANCELED" \in AsyncResults /\ "DONE" \in AsyncResults /\ reply \in AsyncResults
  BY DEF AsyncResults
<1>6. CASE IsGivenUp(w.async[c])
  <2> DEFINE x == [w EXCEPT !.async[c].state = "CANCELED"]
  <2>1. /\ x.async = [w.async EXCEPT ![c].state = "CANCELED"] /\ DOMAIN x = DOMAIN w
        /\ x.slots = w.slots /\ x.pool = w.pool /\ x.busy = w.busy /\ x.jump = w.jump
    BY <1>3
  <2>2. u = report(x, c, valid)
    BY <1>6 DEF ready_locked, IsGivenUp
  <2> HIDE DEF x, u
  <2>3. \E st \in AsyncResults : x.async = [w.async EXCEPT ![c].state = st]
    BY <1>5, <2>1
  <2>4. /\ x.async \in Recs
        /\ \A d \in AsyncCallNames :
               /\ x.async[d].source = w.async[d].source
               /\ d # c => x.async[d] = w.async[d]
    BY <1>2, <1>3, <2>3, UpdateCall
  <2>5. x.async[c].in_glib = w.async[c].in_glib /\ x.async[c].reported = w.async[c].reported
    BY <1>2, <1>3, <2>1, UpdateFields
  <2>6. u = x
    BY <1>6, <2>2, <2>5 DEF report, IsGivenUp
  <2>7. \A t \in Sources : w.slots[t] # c
    BY <1>4, <1>6 DEF IsGivenUp
  <2>8. \A d \in AsyncCallNames : x.async[d].in_glib = w.async[d].in_glib
    BY <2>4, <2>5
  <2> QED
    BY <1>3, <2>1, <2>4, <2>6, <2>7, <2>8 DEF u
<1>7. CASE IsWaiting(w.async[c])
  <2> DEFINE x == [w EXCEPT !.async[c].state = reply]
             y == [x EXCEPT !.async[c].reported = TRUE]
             z == wait_for_result(y, c)
  <2>1. /\ x.async = [w.async EXCEPT ![c].state = reply] /\ DOMAIN x = DOMAIN w
        /\ x.slots = w.slots /\ x.pool = w.pool /\ x.busy = w.busy /\ x.jump = w.jump
    BY <1>3
  <2>2. u = report(x, c, valid)
    BY <1>7 DEF ready_locked, IsWaiting
  <2> HIDE DEF x, u
  <2>3. \E st \in AsyncResults : x.async = [w.async EXCEPT ![c].state = st]
    BY <1>5, <2>1
  <2>4. /\ x.async \in Recs
        /\ \A d \in AsyncCallNames :
               /\ x.async[d].source = w.async[d].source
               /\ d # c => x.async[d] = w.async[d]
    BY <1>2, <1>3, <2>3, UpdateCall
  <2>5. /\ x.async[c].in_glib = w.async[c].in_glib /\ ~x.async[c].reported
        /\ ~x.async[c].cancelled /\ x.async[c].state = reply
    BY <1>2, <1>3, <1>7, <2>1, UpdateFields DEF IsWaiting
  <2>6. u = result_available(y, c, valid)
    BY <2>2, <2>5 DEF report
  <2>7. /\ y.async = [x.async EXCEPT ![c].reported = TRUE] /\ DOMAIN y = DOMAIN w
        /\ y.slots = w.slots /\ y.pool = w.pool /\ y.busy = w.busy /\ y.jump = w.jump
    BY <1>3, <2>1
  <2> HIDE DEF y
  <2>8. /\ y.async \in Recs
        /\ \A d \in AsyncCallNames :
               /\ y.async[d].source = x.async[d].source
               /\ d # c => y.async[d] = x.async[d]
    BY <1>2, <2>4, <2>7, UpdateCall
  <2>9. /\ y.async[c].in_glib = w.async[c].in_glib /\ ~y.async[c].cancelled
        /\ y.async[c].state = reply /\ y.async[c].source = s
    BY <1>2, <2>4, <2>5, <2>7, <2>8, UpdateFields
  <2>10. /\ \/ reply = "READY" /\ z.async = [y.async EXCEPT ![c].state = "DONE"]
            \/ reply # "READY" /\ z.async = y.async
         /\ DOMAIN z = DOMAIN w
         /\ z.slots = w.slots /\ z.pool = w.pool /\ z.busy = w.busy /\ z.jump = w.jump
    BY <1>3, <2>7, <2>9 DEF wait_for_result
  <2> HIDE DEF z
  <2>11. /\ z.async \in Recs
         /\ \A d \in AsyncCallNames :
                /\ z.async[d].source = y.async[d].source
                /\ d # c => z.async[d] = y.async[d]
    <3>1. CASE reply = "READY" /\ z.async = [y.async EXCEPT ![c].state = "DONE"]
      <4>1. \E st \in AsyncResults : z.async = [y.async EXCEPT ![c].state = st]
        BY <1>5, <3>1
      <4> QED
        BY <1>2, <2>8, <4>1, UpdateCall
    <3>2. CASE z.async = y.async
      BY <2>8, <3>2
    <3> QED
      BY <2>10, <3>1, <3>2
  <2>12. /\ z.async[c].in_glib = w.async[c].in_glib /\ ~z.async[c].cancelled
         /\ z.async[c].state = IF reply = "READY" THEN "DONE" ELSE "FAILED"
    <3>1. CASE reply = "READY" /\ z.async = [y.async EXCEPT ![c].state = "DONE"]
      BY <1>2, <2>8, <2>9, <3>1, UpdateFields
    <3>2. CASE reply # "READY" /\ z.async = y.async
      BY <2>9, <3>2
    <3> QED
      BY <2>10, <3>1, <3>2
  <2>13. CASE w.slots[s] # c
    <3>1. u = y
      BY <2>6, <2>7, <2>9, <2>13 DEF result_available
    <3>2. \A t \in Sources : w.slots[t] # c
      BY <1>4, <2>13
    <3>3. \A d \in AsyncCallNames : y.async[d].in_glib = w.async[d].in_glib
      BY <2>4, <2>8, <2>9
    <3> QED
      BY <1>3, <2>4, <2>7, <2>8, <3>1, <3>2, <3>3 DEF u
  <2>14. CASE w.slots[s] = c
    <3> DEFINE k == IF is_success(z.async[c].state) /\ valid /\ s = ParentLink
                    THEN c ELSE NoCall
    <3>1. /\ u.slots = [w.slots EXCEPT ![s] = k] /\ DOMAIN u = DOMAIN w
          /\ u.async = z.async /\ u.pool = w.pool /\ u.busy = w.busy
          /\ IF s = ContextRoot THEN u.jump \in {"ENTERING", "NOT_JUMPING"} ELSE u.jump = w.jump
      <4>1. CASE s = ParentLink
        <5>1. u = IF k = c THEN z ELSE [z EXCEPT !.slots[ParentLink] = NoCall]
          BY <1>2, <2>6, <2>7, <2>9, <2>14, <4>1 DEF result_available, got_parent_link, z
        <5>2. [w.slots EXCEPT ![s] = c] = w.slots
          BY <1>3, <2>14
        <5> HIDE DEF z, u, s
        <5> QED
          BY <1>3, <2>10, <4>1, <5>1, <5>2, SourcesAre
      <4>2. CASE s = ContextRoot
        <5>1. u = [z EXCEPT !.slots[ContextRoot] = NoCall,
                            !.jump = IF is_success(z.async[c].state) /\ valid THEN "ENTERING"
                                     ELSE "NOT_JUMPING"]
          BY <2>6, <2>7, <2>9, <2>14, <4>2, SourcesAre DEF result_available, got_context_root, z
        <5>2. k = NoCall
          BY <4>2, SourcesAre
        <5> HIDE DEF z, u, k, s
        <5> QED
          BY <1>3, <2>10, <4>2, <5>1, <5>2, SourcesAre
      <4> QED
        BY <1>2, <4>1, <4>2, SourcesAre
    <3> HIDE DEF k
    <3>2. /\ u.slots = [w.slots EXCEPT ![s] = k] /\ DOMAIN u = DOMAIN w
          /\ u.async = z.async /\ u.pool = w.pool /\ u.busy = w.busy
      BY <3>1
    <3>3. k \in {c, NoCall} /\ (k = c => s = ParentLink /\ z.async[c].state = "DONE")
      BY <1>2, <2>12 DEF k, is_success
    <3>4. \A d \in AsyncCallNames : z.async[d].in_glib = w.async[d].in_glib
      BY <2>4, <2>8, <2>9, <2>11, <2>12
    <3>5. \A d \in AsyncCallNames :
              z.async[d].source = w.async[d].source /\ (d # c => z.async[d] = w.async[d])
      BY <2>4, <2>8, <2>11
    <3>6. u.slots \in [Sources -> AsyncCallNames \cup {NoCall}]
      BY <1>2, <1>3, <3>2, <3>3
    <3>7. ASSUME NEW t \in Sources, u.slots[t] # NoCall
          PROVE  /\ u.slots[t] = w.slots[t]
                 /\ w.slots[t] = c =>
                        /\ t = w.async[c].source /\ t = ParentLink
                        /\ u.async[c].state = "DONE" /\ ~u.async[c].cancelled
      <4>1. CASE t = s
        <5>1. u.slots[t] = k
          BY <1>3, <3>2, <4>1
        <5> QED
          BY <2>12, <2>14, <3>2, <3>3, <3>7, <4>1, <5>1
      <4>2. CASE t # s
        BY <1>3, <1>4, <3>2, <4>2
      <4> QED
        BY <4>1, <4>2
    <3>8. \A t \in Sources : w.slots[t] # c => u.slots[t] = w.slots[t]
      BY <1>3, <2>14, <3>2
    <3>9. /\ u.jump \in JumpStates
          /\ IF w.slots[ContextRoot] = c THEN u.jump # "GET_CONTEXT_PARENT_ID"
             ELSE u.jump = w.jump
      <4>1. w.slots[ContextRoot] = c <=> s = ContextRoot
        BY <1>3, <1>4, <2>14
      <4> HIDE DEF s, u
      <4> QED
        BY <1>3, <3>1, <4>1 DEF JumpStates
    <3> HIDE DEF s
    <3> QED
      BY <2>11, <3>2, <3>4, <3>5, <3>6, <3>7, <3>8, <3>9 DEF u
  <2> QED
    BY <2>13, <2>14
<1> QED
  BY <1>2, <1>6, <1>7

(* The call leaves the pool, and is counted no more.                       *)
LEMMA GLibReadyOK ==
    ASSUME NEW w, WorldOK(w), NEW c \in w.pool, NEW reply \in {"READY", "FAILED"},
           NEW valid \in BOOLEAN
    PROVE  WorldOK([unregister_call(ready_locked(w, c, reply, valid), c)
                        EXCEPT !.busy = BusyClear(@, w.async[c].source)])
<1> DEFINE u == ready_locked(w, c, reply, valid)
           x == unregister_call(u, c)
           s == w.async[c].source
           v == [x EXCEPT !.busy = BusyClear(@, s)]
<1>0. /\ AsyncTypes(w) /\ PoolOK(w) /\ SlotsOK(w) /\ JumpOK(w) /\ ToldOK(w.busy)
      /\ CountsOK(w) /\ PatientOK(w)
  BY DEF WorldOK
<1>1. /\ u.pool = w.pool /\ u.busy = w.busy /\ DOMAIN u = DOMAIN w
      /\ u.async \in [AsyncCallNames -> AsyncCallRecords]
      /\ u.slots \in [Sources -> AsyncCallNames \cup {NoCall}]
      /\ \A d \in AsyncCallNames :
             /\ u.async[d].source = w.async[d].source
             /\ u.async[d].in_glib = w.async[d].in_glib
             /\ d # c => u.async[d] = w.async[d]
      /\ \A t \in Sources : u.slots[t] # NoCall =>
             /\ u.slots[t] = w.slots[t]
             /\ w.slots[t] = c =>
                    /\ t = w.async[c].source /\ t = ParentLink
                    /\ u.async[c].state = "DONE" /\ ~u.async[c].cancelled
      /\ \A t \in Sources : w.slots[t] # c => u.slots[t] = w.slots[t]
      /\ u.jump \in JumpStates
      /\ IF w.slots[ContextRoot] = c THEN u.jump # "GET_CONTEXT_PARENT_ID" ELSE u.jump = w.jump
  BY ReadyDoes
<1>2. /\ w.busy \in BusyStates /\ w.pool \subseteq AsyncCallNames
      /\ w.slots \in [Sources -> AsyncCallNames \cup {NoCall}]
      /\ {"async", "slots", "pool", "busy", "jump"} \subseteq DOMAIN w
      /\ c \in AsyncCallNames /\ s \in Sources
  BY <1>0 DEF AsyncTypes, PoolOK
<1> HIDE DEF u
<1>3. /\ x.pool = w.pool \ {c} /\ x.async = [u.async EXCEPT ![c].in_glib = FALSE]
      /\ x.slots = u.slots /\ x.busy = w.busy /\ DOMAIN x = DOMAIN w /\ x.jump = u.jump
  BY <1>1, <1>2 DEF unregister_call
<1> HIDE DEF x, s
<1>4. /\ v.pool = w.pool \ {c} /\ v.async = [u.async EXCEPT ![c].in_glib = FALSE]
      /\ v.slots = u.slots /\ v.busy = BusyClear(w.busy, s) /\ DOMAIN v = DOMAIN w
      /\ v.jump = u.jump
  BY <1>2, <1>3
<1> HIDE DEF v
<1>5. /\ v.async \in [AsyncCallNames -> AsyncCallRecords]
      /\ \A d \in AsyncCallNames :
             /\ v.async[d].source = u.async[d].source
             /\ d # c => v.async[d] = u.async[d]
  <2>1. u.async \in [AsyncCallNames -> AsyncCallRecords] /\ c \in AsyncCallNames
    BY <1>1, <1>2
  <2>2. v.async = [u.async EXCEPT ![c].in_glib = FALSE]
    BY <1>4
  <2> QED
    BY <2>1, <2>2, UpdateCall
<1>6. /\ ~v.async[c].in_glib /\ v.async[c].state = u.async[c].state
      /\ v.async[c].cancelled = u.async[c].cancelled
  BY <1>1, <1>2, <1>4, UpdateFields
<1>7. \A d \in AsyncCallNames :
          v.async[d].source = w.async[d].source /\ (d # c => v.async[d] = w.async[d])
  BY <1>1, <1>5
<1>8. /\ v.busy \in BusyStates /\ ToldOK(v.busy)
      /\ v.busy.flags = IF w.busy.counts[s] <= 1 THEN w.busy.flags \ {s} ELSE w.busy.flags
      /\ v.busy.counts = [w.busy.counts EXCEPT ![s] = IF @ > 0 THEN @ - 1 ELSE 0]
  <2>1. /\ BusyClear(w.busy, s) \in BusyStates /\ ToldOK(BusyClear(w.busy, s))
        /\ BusyClear(w.busy, s).flags
               = IF w.busy.counts[s] <= 1 THEN w.busy.flags \ {s} ELSE w.busy.flags
        /\ BusyClear(w.busy, s).counts = [w.busy.counts EXCEPT ![s] = IF @ > 0 THEN @ - 1 ELSE 0]
    BY <1>0, <1>2, BusyClearDoes
  <2>2. v.busy = BusyClear(w.busy, s)
    BY <1>4
  <2> QED
    BY <2>1, <2>2
<1>9. AsyncTypes(v)
  <2>1. v.slots \in [Sources -> AsyncCallNames \cup {NoCall}]
    BY <1>1, <1>4
  <2> QED
    BY <1>1, <1>2, <1>4, <1>5, <1>8, <2>1 DEF AsyncTypes
<1>10. PoolOK(v)
  BY <1>0, <1>2, <1>4, <1>6, <1>7 DEF PoolOK
<1>11. SlotsOK(v)
  <2> SUFFICES ASSUME NEW t \in Sources, v.slots[t] # NoCall
               PROVE  CallSlotOK(v, t)
    BY DEF SlotsOK
  <2>1. /\ v.slots[t] = w.slots[t] /\ w.slots[t] # NoCall /\ w.slots[t] \in AsyncCallNames
        /\ w.slots[t] = c => /\ t = w.async[c].source /\ t = ParentLink
                             /\ u.async[c].state = "DONE" /\ ~u.async[c].cancelled
    BY <1>1, <1>2, <1>4
  <2>2. CASE w.slots[t] = c
    BY <1>2, <1>4, <1>6, <1>7, <2>1, <2>2 DEF CallSlotOK
  <2>3. CASE w.slots[t] # c
    <3>1. /\ v.async[w.slots[t]] = w.async[w.slots[t]]
          /\ w.slots[t] \in v.pool <=> w.slots[t] \in w.pool
      BY <1>4, <1>7, <2>1, <2>3
    <3>2. CallSlotOK(w, t)
      BY <1>0, <2>1 DEF SlotsOK
    <3> QED
      BY <2>1, <3>1, <3>2 DEF CallSlotOK
  <2> QED
    BY <2>2, <2>3
<1>12. CountsOK(v)
  <2> SUFFICES ASSUME NEW t \in Sources
               PROVE  /\ v.busy.counts[t] <= Cardinality(Outstanding(v, t))
                      /\ t \in v.busy.flags <=> v.busy.counts[t] > 0
    BY DEF CountsOK
  <2>1. /\ w.busy.counts[t] <= Cardinality(Outstanding(w, t)) /\ w.busy.counts[t] \in Nat
        /\ t \in w.busy.flags <=> w.busy.counts[t] > 0
        /\ w.busy.counts \in [Sources -> Nat]
    BY <1>0, <1>2 DEF CountsOK, BusyStates
  <2>2. IsFiniteSet(Outstanding(w, t)) /\ Cardinality(Outstanding(w, t)) \in Nat
    BY <1>0, OutstandingFinite
  <2>3. CASE t = s
    <3>1. Outstanding(v, t) = Outstanding(w, t) \ {c}
      BY <1>2, <1>4, <1>7 DEF Outstanding
    <3>2. c \in Outstanding(w, t)
      BY <2>3 DEF Outstanding, s
    <3>3. Cardinality(Outstanding(v, t)) = Cardinality(Outstanding(w, t)) - 1
      BY <2>2, <3>1, <3>2, FS_RemoveElement
    <3>4. Cardinality(Outstanding(w, t)) # 0
      BY <2>2, <3>2, FS_EmptySet
    <3> QED
      BY <1>8, <2>1, <2>2, <2>3, <3>3, <3>4
  <2>4. CASE t # s
    <3>1. Outstanding(v, t) = Outstanding(w, t)
      BY <1>2, <1>4, <1>7, <2>4 DEF Outstanding, s
    <3> QED
      BY <1>8, <2>1, <2>4, <3>1
  <2> QED
    BY <2>3, <2>4
<1>13. PatientOK(v)
  <2> SUFFICES ASSUME patient, NEW d \in w.pool, d # c
               PROVE  /\ \A e \in w.pool \ {c} : v.async[d].source = v.async[e].source => d = e
                      /\ v.async[d].state = "IN_PROGRESS" => v.busy.counts[v.async[d].source] > 0
    BY <1>4 DEF PatientOK
  <2>1. /\ \A e \in w.pool : w.async[d].source = w.async[e].source => d = e
        /\ w.async[d].state = "IN_PROGRESS" => w.busy.counts[w.async[d].source] > 0
    BY <1>0 DEF PatientOK
  <2>2. w.async[d].source # s /\ w.async[d].source \in Sources
    BY <1>0, <2>1 DEF s, PoolOK
  <2>3. w.busy.counts \in [Sources -> Nat]
    BY <1>2 DEF BusyStates
  <2>4. v.async[d] = w.async[d] /\ \A e \in w.pool \ {c} : v.async[e] = w.async[e]
    BY <1>2, <1>7
  <2> QED
    BY <1>8, <2>1, <2>2, <2>3, <2>4
<1>14. JumpOK(v)
  <2>1. ContextRoot \in Sources
    BY SourcesAre
  <2>2. CASE w.slots[ContextRoot] = c
    <3>1. v.slots[ContextRoot] = NoCall
      BY <1>1, <1>4, <2>1, <2>2, SourcesAre
    <3>2. \A d \in w.pool : w.async[d].source = ContextRoot /\ w.async[d].state = "IN_PROGRESS"
                                => d = c
      BY <1>0, <2>2 DEF JumpOK
    <3>3. \A d \in w.pool \ {c} : v.async[d] = w.async[d]
      BY <1>2, <1>7
    <3> QED
      BY <1>1, <1>4, <2>2, <3>1, <3>2, <3>3 DEF JumpOK
  <2>3. CASE w.slots[ContextRoot] # c
    <3>1. v.slots[ContextRoot] = w.slots[ContextRoot] /\ v.jump = w.jump
      BY <1>1, <1>4, <2>1, <2>3
    <3>2. w.slots[ContextRoot] # NoCall =>
              v.async[w.slots[ContextRoot]] = w.async[w.slots[ContextRoot]]
      BY <1>2, <1>7, <2>1, <2>3
    <3>3. \A d \in w.pool \ {c} : v.async[d] = w.async[d]
      BY <1>2, <1>7
    <3> QED
      BY <1>0, <1>4, <3>1, <3>2, <3>3 DEF JumpOK
  <2> QED
    BY <2>2, <2>3
<1> QED
  BY <1>8, <1>9, <1>10, <1>11, <1>12, <1>13, <1>14 DEF WorldOK, v, x, u, s

(***************************************************************************)
(* Steps                                                                   *)
(***************************************************************************)
(* When a step is done, the objects nobody refers to are deleted, and none *)
(* of them is one GLib has a pointer to.                                   *)
LEMMA BecomeOK ==
    ASSUME NEW w, WorldOK(w), Become(w), UNCHANGED patient, patient \in BOOLEAN
    PROVE  AsyncInv'
<1>0. /\ AsyncTypes(w) /\ PoolOK(w) /\ SlotsOK(w) /\ JumpOK(w) /\ ToldOK(w.busy)
      /\ CountsOK(w) /\ PatientOK(w)
  BY DEF WorldOK
<1>1. slots' = w.slots /\ pool' = w.pool /\ busy' = w.busy /\ jump' = w.jump
  BY DEF Become
<1>2. /\ w.busy \in BusyStates /\ w.pool \subseteq AsyncCallNames /\ w.jump \in JumpStates
      /\ w.slots \in [Sources -> AsyncCallNames \cup {NoCall}]
      /\ w.async \in [AsyncCallNames -> AsyncCallRecords]
  BY <1>0 DEF AsyncTypes
<1>3. NoObject \in AsyncCallRecords /\ NoObject.source = NoCall /\ ~NoObject.in_glib
  BY DEF NoObject, AsyncCallRecords, AsyncResults
<1>4. /\ async' \in [AsyncCallNames -> AsyncCallRecords]
      /\ \A c \in AsyncCallNames :
             /\ Referenced_by(c, w.slots, w.pool) => async'[c] = w.async[c]
             /\ ~Referenced_by(c, w.slots, w.pool) => async'[c] = NoObject
  <2>1. async' = [c \in AsyncCallNames |->
                     IF Referenced_by(c, w.slots, w.pool) THEN w.async[c]
                     ELSE IF w.async[c].in_glib THEN [NoObject EXCEPT !.in_glib = TRUE]
                     ELSE NoObject]
    BY DEF Become, Deleted
  <2>2. \A c \in AsyncCallNames : ~Referenced_by(c, w.slots, w.pool) => ~w.async[c].in_glib
    BY <1>0 DEF Referenced_by, PoolOK
  <2>3. \A c \in AsyncCallNames : async'[c] = IF Referenced_by(c, w.slots, w.pool) THEN w.async[c]
                                              ELSE NoObject
    BY <2>1, <2>2
  <2>4. async' = [c \in AsyncCallNames |-> IF Referenced_by(c, w.slots, w.pool) THEN w.async[c]
                                           ELSE NoObject]
    BY <2>1, <2>2
  <2> HIDE DEF NoObject
  <2> QED
    BY <1>2, <1>3, <2>3, <2>4
<1>5. /\ \A c \in w.pool : async'[c] = w.async[c]
      /\ \A t \in Sources : w.slots[t] # NoCall => async'[w.slots[t]] = w.async[w.slots[t]]
  BY <1>2, <1>4 DEF Referenced_by
<1>6. AsyncTypes(World)'
  BY <1>1, <1>2, <1>4 DEF AsyncTypes, World
<1>7. PoolOK(World)'
  <2>1. ASSUME NEW c \in AsyncCallNames
        PROVE  async'[c].in_glib <=> c \in w.pool
    BY <1>0, <1>3, <1>4 DEF Referenced_by, PoolOK
  <2>2. \A c \in w.pool : /\ w.async[c].source \in Sources
                          /\ IsWaiting(w.async[c]) \/ IsGivenUp(w.async[c])
    BY <1>0 DEF PoolOK
  <2>3. \A c \in w.pool : /\ async'[c].source \in Sources
                          /\ IsWaiting(async'[c]) \/ IsGivenUp(async'[c])
    BY <1>5, <2>2
  <2> QED
    BY <1>1, <2>1, <2>3 DEF PoolOK, World
<1>8. SlotsOK(World)'
  <2>1. ASSUME NEW t \in Sources, w.slots[t] # NoCall
        PROVE  CallSlotOK(World, t)'
    <3>1. CallSlotOK(w, t) /\ async'[w.slots[t]] = w.async[w.slots[t]]
      BY <1>0, <1>5, <2>1 DEF SlotsOK
    <3> QED
      BY <1>1, <3>1 DEF CallSlotOK, World
  <2> QED
    BY <1>1, <2>1 DEF SlotsOK, World
<1>9. CountsOK(World)'
  <2>1. ASSUME NEW t
        PROVE  {c \in w.pool : async'[c].source = t} = Outstanding(w, t)
    BY <1>5 DEF Outstanding
  <2>2. \A t \in Sources :
           /\ w.busy.counts[t] <= Cardinality({c \in w.pool : async'[c].source = t})
           /\ t \in w.busy.flags <=> w.busy.counts[t] > 0
    BY <1>0, <2>1 DEF CountsOK
  <2> QED
    BY <1>1, <2>2 DEF CountsOK, World, Outstanding
<1>10. PatientOK(World)'
  BY <1>0, <1>1, <1>5 DEF PatientOK, World
<1>11. ToldOK(World.busy)'
  BY <1>0, <1>1 DEF ToldOK, World
<1>12. DeletedOK'
  <2> SUFFICES ASSUME NEW c \in AsyncCallNames, async'[c].source # NoCall
               PROVE  Referenced_by(c, slots', pool')
    BY DEF DeletedOK
  <2> QED
    BY <1>1, <1>3, <1>4
<1>13. JumpOK(World)'
  <2>1. ContextRoot \in Sources
    BY SourcesAre
  <2> QED
    BY <1>0, <1>1, <1>5, <2>1 DEF JumpOK, World
<1> QED
  BY <1>6, <1>7, <1>8, <1>9, <1>10, <1>11, <1>12, <1>13 DEF AsyncInv, WorldOK

LEMMA AsyncInvInit == AsyncInit => AsyncInv
<1> SUFFICES ASSUME AsyncInit
             PROVE  AsyncInv
  OBVIOUS
<1>1. /\ async = [c \in AsyncCallNames |-> NoObject] /\ slots = [s \in Sources |-> NoCall]
      /\ pool = {} /\ busy = BusyInit /\ jump = "NOT_JUMPING" /\ patient \in BOOLEAN
  BY DEF AsyncInit
<1>2. NoObject \in AsyncCallRecords /\ NoObject.source = NoCall /\ ~NoObject.in_glib
  BY DEF NoObject, AsyncCallRecords, AsyncResults
<1>3. /\ BusyInit \in BusyStates /\ ToldOK(BusyInit) /\ BusyInit.flags = {}
      /\ BusyInit.counts = [s \in Sources |-> 0]
  BY DEF BusyInit, BusyStates, ToldOK
<1> HIDE DEF NoObject, BusyInit
<1>4. AsyncTypes(World)
  BY <1>1, <1>2, <1>3 DEF AsyncTypes, World, JumpStates
<1>5. PoolOK(World) /\ SlotsOK(World) /\ JumpOK(World) /\ PatientOK(World)
  BY <1>1, <1>2, SourcesAre DEF PoolOK, SlotsOK, JumpOK, PatientOK, World
<1>6. CountsOK(World)
  <2>1. \A s : Outstanding(World, s) = {}
    BY <1>1 DEF Outstanding, World
  <2>2. Cardinality({}) = 0
    BY FS_EmptySet
  <2>3. World.busy = BusyInit
    BY <1>1 DEF World
  <2> QED
    BY <1>3, <2>1, <2>2, <2>3 DEF CountsOK
<1>7. ToldOK(World.busy) /\ DeletedOK
  BY <1>1, <1>2, <1>3 DEF World, DeletedOK
<1> QED
  BY <1>1, <1>4, <1>5, <1>6, <1>7 DEF AsyncInv, WorldOK

LEMMA AsyncInvStep == AsyncInv /\ [AsyncNext]_async_vars => AsyncInv'
<1> SUFFICES ASSUME AsyncInv, [AsyncNext]_async_vars
             PROVE  AsyncInv'
  OBVIOUS
<1>0. /\ WorldOK(World) /\ DeletedOK /\ patient \in BOOLEAN
      /\ World.async = async /\ World.slots = slots /\ World.pool = pool /\ World.busy = busy
      /\ World.jump = jump
      /\ AsyncTypes(World) /\ PoolOK(World) /\ SlotsOK(World) /\ JumpOK(World)
      /\ ToldOK(World.busy) /\ CountsOK(World) /\ PatientOK(World)
  BY DEF AsyncInv, WorldOK, World
<1> DEFINE u == cancel_and_delete_all(World)
<1>u. /\ WorldOK(u) /\ u.pool = World.pool
      /\ \A t \in Sources : u.slots[t] = NoCall
      /\ \A d \in AsyncCallNames : u.async[d].source = World.async[d].source
  BY <1>0, CancelAllOK
<1> HIDE DEF u
<1>f. ASSUME NEW c \in AsyncCallNames, IsFreeName(c)
      PROVE  u.async[c].source = NoCall
  BY <1>0, <1>u, <1>f DEF IsFreeName
<1>p. ASSUME NEW s \in Sources, patient => InGLib(s) = {}
      PROVE  patient => Outstanding(u, s) = {}
  <2>1. Outstanding(u, s) \subseteq InGLib(s)
    BY <1>0, <1>u DEF Outstanding, InGLib, PoolOK, AsyncTypes
  <2> QED
    BY <1>p, <2>1
<1>1. CASE PointToParentLink
  <2>1. PICK c \in AsyncCallNames : IsFreeName(c) /\ Become(point_to_parent_link(World, c))
    BY <1>1, Zenon DEF PointToParentLink
  <2>2. (patient => InGLib(ParentLink) = {}) /\ UNCHANGED patient
    BY <1>1, Zenon DEF PointToParentLink
  <2> DEFINE v == invoke(make_shared(u, c, ParentLink), c, ParentLink)
  <2>3. Become(v)
    BY <2>1 DEF point_to_parent_link, u
  <2>4. ParentLink \in Sources /\ AsyncTypes(u)
    BY <1>u, SourcesAre DEF WorldOK
  <2>5. /\ v.async = [u.async EXCEPT ![c] = Made(ParentLink)]
        /\ v.slots = [u.slots EXCEPT ![ParentLink] = c] /\ v.pool = u.pool \cup {c}
        /\ v.busy = BusySet(u.busy, ParentLink) /\ DOMAIN v = DOMAIN u /\ v.jump = u.jump
    BY <2>4, InvokeDoes
  <2> HIDE DEF v
  <2>6. u.slots[ParentLink] = NoCall /\ u.async[c].source = NoCall
        /\ (patient => Outstanding(u, ParentLink) = {})
    BY <1>u, <1>f, <1>p, <2>1, <2>2, <2>4
  <2>7. WorldOK(v)
    BY <1>u, <2>4, <2>5, <2>6, InvokeOK
  <2> QED
    BY <1>0, <2>2, <2>3, <2>7, BecomeOK
<1>7. ASSUME NEW same \in BOOLEAN, PointToContextRoot(same)
      PROVE  AsyncInv'
  <2>1. PICK c \in AsyncCallNames :
            IsFreeName(c) /\ Become(do_point_to_context_root_directory(World, c, same))
    BY <1>7, Zenon DEF PointToContextRoot
  <2>2. (patient => InGLib(ContextRoot) = {}) /\ UNCHANGED patient
    BY <1>7, Zenon DEF PointToContextRoot
  <2>3. ContextRoot \in Sources /\ AsyncTypes(u)
    BY <1>u, SourcesAre DEF WorldOK
  <2>4. u.slots[ContextRoot] = NoCall /\ u.async[c].source = NoCall
        /\ (patient => Outstanding(u, ContextRoot) = {})
    BY <1>u, <1>f, <1>p, <2>1, <2>2, <2>3
  <2>5. CASE u.jump = "NOT_JUMPING"
    <3> DEFINE x == invoke(make_shared(u, c, ContextRoot), c, ContextRoot)
               v == [x EXCEPT !.jump = "GET_CONTEXT_PARENT_ID"]
    <3>1. Become(v)
      BY <2>1, <2>5 DEF do_point_to_context_root_directory, u
    <3>2. /\ x.async = [u.async EXCEPT ![c] = Made(ContextRoot)]
          /\ x.slots = [u.slots EXCEPT ![ContextRoot] = c] /\ x.pool = u.pool \cup {c}
          /\ x.busy = BusySet(u.busy, ContextRoot) /\ DOMAIN x = DOMAIN u
      BY <2>3, InvokeDoes
    <3> HIDE DEF x
    <3>3. {"async", "slots", "pool", "busy", "jump"} \subseteq DOMAIN u
      BY <2>3 DEF AsyncTypes
    <3>4. /\ v.async = x.async /\ v.slots = x.slots /\ v.pool = x.pool /\ v.busy = x.busy
          /\ DOMAIN v = DOMAIN x /\ v.jump = "GET_CONTEXT_PARENT_ID"
      BY <3>2, <3>3
    <3> HIDE DEF v
    <3>5. /\ v.async = [u.async EXCEPT ![c] = Made(ContextRoot)]
          /\ v.slots = [u.slots EXCEPT ![ContextRoot] = c] /\ v.pool = u.pool \cup {c}
          /\ v.busy = BusySet(u.busy, ContextRoot) /\ DOMAIN v = DOMAIN u
          /\ v.jump = IF ContextRoot = ParentLink THEN u.jump ELSE "GET_CONTEXT_PARENT_ID"
      BY <3>2, <3>4, SourcesAre
    <3>6. WorldOK(v)
      BY <1>u, <2>3, <2>4, <3>5, InvokeOK
    <3> QED
      BY <1>0, <2>2, <3>1, <3>6, BecomeOK
  <2>6. CASE u.jump # "NOT_JUMPING" /\ same
    <3>1. Become(make_shared(u, c, ContextRoot))
      BY <2>1, <2>6 DEF do_point_to_context_root_directory, u
    <3>2. WorldOK(make_shared(u, c, ContextRoot))
      BY <1>u, <2>4, StoredOK
    <3> QED
      BY <1>0, <2>2, <3>1, <3>2, BecomeOK
  <2>7. CASE u.jump # "NOT_JUMPING" /\ ~same
    <3>1. Become(u)
      BY <2>1, <2>7 DEF do_point_to_context_root_directory, u
    <3> QED
      BY <1>0, <1>u, <2>2, <3>1, BecomeOK
  <2> QED
    BY <2>5, <2>6, <2>7
<1>8. CASE JumpEnds
  <2>1. UNCHANGED <<async, slots, pool, busy, patient>> /\ jump = "ENTERING"
        /\ jump' = "NOT_JUMPING"
    BY <1>8 DEF JumpEnds
  <2>2. AsyncTypes(World)' /\ PoolOK(World)' /\ SlotsOK(World)' /\ JumpOK(World)'
    BY <1>0, <2>1 DEF AsyncTypes, PoolOK, SlotsOK, CallSlotOK, JumpOK, World, JumpStates
  <2>3. CountsOK(World)' /\ PatientOK(World)' /\ ToldOK(World.busy)' /\ DeletedOK'
    BY <1>0, <2>1 DEF CountsOK, Outstanding, PatientOK, ToldOK, DeletedOK, World
  <2> QED
    BY <1>0, <2>1, <2>2, <2>3 DEF AsyncInv, WorldOK
<1>2. CASE CancelAll
  <2>1. Become(u) /\ UNCHANGED patient
    BY <1>2, Zenon DEF CancelAll, u
  <2> QED
    BY <1>0, <1>u, <2>1, BecomeOK
<1>3. CASE DeleteAll
  <2> DEFINE v == [World EXCEPT !.slots[ParentLink] = NoCall]
  <2>1. Become(v) /\ UNCHANGED patient
    BY <1>3, Zenon DEF DeleteAll
  <2>2. /\ v.async = async /\ v.pool = pool /\ v.busy = busy /\ DOMAIN v = DOMAIN World
        /\ v.slots = [slots EXCEPT ![ParentLink] = NoCall] /\ v.jump = jump
    BY DEF World
  <2> HIDE DEF v
  <2>3. /\ slots \in [Sources -> AsyncCallNames \cup {NoCall}]
        /\ \A t \in Sources : v.slots[t] # NoCall => v.slots[t] = slots[t]
        /\ v.slots \in [Sources -> AsyncCallNames \cup {NoCall}]
        /\ v.slots[ContextRoot] = slots[ContextRoot]
    BY <1>0, <2>2, SourcesAre DEF AsyncTypes
  <2>4. AsyncTypes(v)
    BY <1>0, <2>2, <2>3 DEF AsyncTypes
  <2>5. PoolOK(v) /\ PatientOK(v) /\ ToldOK(v.busy)
    BY <1>0, <2>2 DEF PoolOK, PatientOK, ToldOK
  <2>6. SlotsOK(v) /\ JumpOK(v)
    BY <1>0, <2>2, <2>3 DEF SlotsOK, CallSlotOK, JumpOK
  <2>7. CountsOK(v)
    <3>1. \A t : Outstanding(v, t) = Outstanding(World, t)
      BY <1>0, <2>2 DEF Outstanding
    <3> QED
      BY <1>0, <2>2, <3>1 DEF CountsOK
  <2> QED
    BY <1>0, <2>1, <2>4, <2>5, <2>6, <2>7, BecomeOK DEF WorldOK
<1>4. ASSUME NEW c \in AsyncCallNames, NEW reply \in {"READY", "FAILED"}, NEW valid \in BOOLEAN,
             GLibReady(c, reply, valid)
      PROVE  AsyncInv'
  <2>1. c \in World.pool
    BY <1>0, <1>4 DEF GLibReady, PoolOK
  <2> DEFINE v == [unregister_call(ready_locked(World, c, reply, valid), c)
                       EXCEPT !.busy = BusyClear(@, async[c].source)]
  <2>2. Become(v) /\ UNCHANGED patient
    BY <1>4, Zenon DEF GLibReady
  <2>3. WorldOK(v)
    BY <1>0, <2>1, GLibReadyOK
  <2> HIDE DEF v
  <2> QED
    BY <1>0, <2>2, <2>3, BecomeOK
<1>5. ASSUME NEW is_busy \in BOOLEAN, ApplianceBusy(is_busy)
      PROVE  AsyncInv'
  <2>1. UNCHANGED <<async, slots, pool, jump, patient>> /\ busy' \in {set_direct(busy),
                    clear_direct(busy)}
    BY <1>5 DEF ApplianceBusy
  <2>2. busy \in BusyStates /\ ToldOK(busy)
    BY <1>0 DEF AsyncTypes
  <2>3. /\ busy' \in BusyStates /\ ToldOK(busy') /\ busy'.counts = busy.counts
        /\ \A s \in Sources : s \in busy'.flags <=> s \in busy.flags
    BY <2>1, <2>2, DirectDoes
  <2>4. AsyncTypes(World)'
    BY <1>0, <2>1, <2>3 DEF AsyncTypes, World
  <2>5. PoolOK(World)' /\ SlotsOK(World)' /\ JumpOK(World)'
    BY <1>0, <2>1 DEF PoolOK, SlotsOK, CallSlotOK, JumpOK, World
  <2>6. CountsOK(World)'
    BY <1>0, <2>1, <2>3 DEF CountsOK, Outstanding, World
  <2>7. PatientOK(World)'
    BY <1>0, <2>1, <2>3 DEF PatientOK, World
  <2>8. ToldOK(World.busy)' /\ DeletedOK'
    BY <1>0, <2>1, <2>3 DEF World, ToldOK, DeletedOK
  <2> QED
    BY <1>0, <2>1, <2>4, <2>5, <2>6, <2>7, <2>8 DEF AsyncInv, WorldOK
<1>6. CASE UNCHANGED async_vars
  <2>1. UNCHANGED <<async, slots, pool, busy, jump, patient>>
    BY <1>6 DEF async_vars
  <2>2. AsyncTypes(World)' /\ PoolOK(World)' /\ SlotsOK(World)' /\ JumpOK(World)'
    BY <1>0, <2>1 DEF AsyncTypes, PoolOK, SlotsOK, CallSlotOK, JumpOK, World
  <2>3. CountsOK(World)' /\ PatientOK(World)' /\ ToldOK(World.busy)' /\ DeletedOK'
    BY <1>0, <2>1 DEF CountsOK, Outstanding, PatientOK, ToldOK, DeletedOK, World
  <2> QED
    BY <1>0, <2>1, <2>2, <2>3 DEF AsyncInv, WorldOK
<1> QED
  BY <1>1, <1>2, <1>3, <1>4, <1>5, <1>6, <1>7, <1>8 DEF AsyncNext

THEOREM AsyncInvHolds == AsyncSpec => []AsyncInv
<1> QED
  BY AsyncInvInit, AsyncInvStep, PTL DEF AsyncSpec

(***************************************************************************)
(* GLib never calls back for an object that has been deleted; a call in a  *)
(* slot waits for its answer, or has led to the parent of the list, or is  *)
(* one for the root of a context that has never been made; a result is     *)
(* reported before GLib calls back only for a canceled call; and a jump    *)
(* never waits for a call that is not there: the registered references of  *)
(* DBus::AsyncCall and the slots of the view, for any number of calls.     *)
(***************************************************************************)
THEOREM CallsAreKeptForGLib == AsyncSpec => []CallsAreKept
<1>1. AsyncInv => CallsAreKept
  <2> SUFFICES ASSUME AsyncInv
               PROVE  CallsAreKept
    OBVIOUS
  <2>1. /\ AsyncTypes(World) /\ PoolOK(World) /\ SlotsOK(World) /\ JumpOK(World)
        /\ World.async = async /\ World.slots = slots /\ World.pool = pool
        /\ World.jump = jump
    BY DEF AsyncInv, WorldOK, World
  <2>2. \A c \in AsyncCallNames : async[c].in_glib <=> c \in pool
    BY <2>1 DEF PoolOK
  <2>3. ASSUME NEW s \in Sources, slots[s] # NoCall
        PROVE  /\ async[slots[s]].source = s /\ ~async[slots[s]].cancelled
               /\ \/ /\ async[slots[s]].state = "IN_PROGRESS" /\ async[slots[s]].in_glib
                     /\ ~async[slots[s]].reported
                  \/ async[slots[s]].state = "DONE" /\ s = ParentLink
                  \/ /\ ~is_active(async[slots[s]]) /\ ~async[slots[s]].in_glib
                     /\ s = ContextRoot
    <3>1. slots[s] \in AsyncCallNames
      BY <2>1, <2>3 DEF AsyncTypes
    <3> QED
      BY <2>1, <2>2, <2>3, <3>1 DEF SlotsOK, CallSlotOK, IsWaiting, IsUnmade, is_active
  <2>4. \A c \in AsyncCallNames :
            async[c].reported /\ async[c].in_glib => async[c].state = "CANCELED"
    BY <2>1, <2>2 DEF PoolOK, IsWaiting, IsGivenUp
  <2>5. jump = "GET_CONTEXT_PARENT_ID" <=>
            slots[ContextRoot] # NoCall /\ async[slots[ContextRoot]].state = "IN_PROGRESS"
    BY <2>1 DEF JumpOK
  <2> QED
    BY <2>2, <2>3, <2>4, <2>5 DEF CallsAreKept
<1> QED
  BY <1>1, AsyncInvHolds, PTL

(***************************************************************************)
(* The listener is told what the busy flags are, a flag is set while its   *)
(* counter is, and that counts no more calls than GLib has; a patient user *)
(* sees the busy state until the answer is there: GlobalBusyState, for any *)
(* number of calls and however early the counters stop at their limit.     *)
(***************************************************************************)
THEOREM BusyIsAboutCalls == AsyncSpec => []BusyWhileWaiting
<1>1. AsyncInv => BusyWhileWaiting
  <2> SUFFICES ASSUME AsyncInv
               PROVE  BusyWhileWaiting
    OBVIOUS
  <2>1. /\ AsyncTypes(World) /\ PoolOK(World) /\ SlotsOK(World) /\ ToldOK(World.busy)
        /\ CountsOK(World) /\ PatientOK(World)
        /\ World.async = async /\ World.slots = slots /\ World.pool = pool /\ World.busy = busy
    BY DEF AsyncInv, WorldOK, World
  <2>2. pool \subseteq AsyncCallNames
    BY <2>1 DEF AsyncTypes
  <2>3. \A s \in Sources : InGLib(s) = Outstanding(World, s)
    BY <2>1, <2>2 DEF InGLib, Outstanding, PoolOK
  <2>4. ASSUME NEW s \in Sources, patient, slots[s] # NoCall,
               async[slots[s]].state = "IN_PROGRESS"
        PROVE  s \in busy.flags
    <3>1. slots[s] \in pool /\ async[slots[s]].source = s
      BY <2>1, <2>4 DEF SlotsOK, CallSlotOK, IsWaiting, IsUnmade
    <3>2. busy.counts[s] > 0
      BY <2>1, <2>4, <3>1 DEF PatientOK
    <3> QED
      BY <2>1, <3>2 DEF CountsOK
  <2> QED
    BY <2>1, <2>3, <2>4 DEF BusyWhileWaiting, ToldOK, CountsOK
<1> QED
  BY <1>1, AsyncInvHolds, PTL
=============================================================================
