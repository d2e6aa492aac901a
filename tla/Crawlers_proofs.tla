------------------------- MODULE Crawlers_proofs --------------------------
(***************************************************************************)
(* The operations of the crawler are accounted for, the player who waits   *)
(* for one is going to be called, once, and only for operations which it   *)
(* has started since it has activated the crawler.  This is for any number *)
(* of operations and places, for any order of events and answers, with     *)
(* operations canceled and crawlers deactivated at any time.               *)
(*                                                                         *)
(* Two assumptions have to do with where operations are sent: no operation *)
(* asks for a place a registered one has asked for (ReturnsToPlaces), and  *)
(* players look for one item at a time (NobodySearches in the guards).     *)
(***************************************************************************)
EXTENDS CrawlerOps, CacheEnforcer, SequenceTheorems, TLAPS

Events    == [what: {"COMPLETED", "YIELDED"}, op: Ops]
Searching == {"NOT_STARTED", "RUNNING"}

\* The events in a queue, and that there is one at most for each operation.
Queued(q) == {q[i] : i \in DOMAIN q}
Single(q) == \A i, j \in DOMAIN q : q[i].op = q[j].op => i = j

(***************************************************************************)
(* The inductive invariant                                                 *)
(***************************************************************************)
\* Events fit the states of their operations, each finished one has an event.
EventsOK ==
    /\ Single(events)
    /\ \A e \in Queued(events) :
          IF e.what = "YIELDED" THEN e.op \in Finds /\ state[e.op] \in {"RUNNING", "CANCELING"}
          ELSE state[e.op] \in Finished
    /\ \A o \in ops : state[o] \in Finished => \E e \in Queued(events) : e.op = o

\* Who waits for the list or for the list broker is running, and waits for
\* one thing only.
WaitsOK ==
    /\ \A o \in hinted : state[o] = "RUNNING"
    /\ query # None =>
          state[query.by] = "RUNNING" /\ query.by \notin hinted /\ query.place = place[query.by]
    /\ \A o \in fetching : state[o] \in {"RUNNING", "CANCELING"}
    /\ \A e \in Queued(events) :
          e.op \notin hinted /\ e.op \notin fetching /\ (query # None => e.op # query.by)

\* A timer is running for operations which have not been started.
DelayedOK ==
    /\ dropped \subseteq Finds /\ delayed_op \in Finds \cup {None}
    /\ delayed_op \notin dropped /\ dropped \cap ops = {}
    /\ \A o \in dropped : state[o] = "CANCELING"
    /\ delayed_op # None => state[delayed_op] \in {"NOT_STARTED", "CANCELING"}
    /\ \A e \in Queued(events) : e.op # delayed_op /\ e.op \notin dropped

\* Who is looking for something is registered, and alone, and there is
\* something that leads on.
SearchersOK ==
    /\ \A o \in Ops : state[o] \in Searching => o \in ops
    /\ \A f, g \in Finds : state[f] \in Searching /\ state[g] \in Searching => f = g
    /\ \A f, g \in Finds \cap ops : place[f] = place[g] => f = g

PendingOK ==
    \A o \in ops :
        \/ o \in hinted \/ (query # None /\ query.by = o) \/ o \in fetching
        \/ \E e \in Queued(events) : e.op = o
        \/ delayed_op = o
        \/ o \in Finds /\ state[o] = "CANCELING"

\* Registered operations are the player's, who has not been called for them.
CallersOK ==
    /\ ops \subseteq mine /\ \A o \in ops : told[o] = 0
    /\ bad_calls = {} /\ CancelIsRemembered

IInv == TypeOK /\ EventsOK /\ WaitsOK /\ DelayedOK /\ SearchersOK /\ PendingOK /\ CallersOK

(***************************************************************************)
(* Queues                                                                  *)
(***************************************************************************)
(* An event appended is the only one of its operation if there has been    *)
(* none before.                                                            *)
LEMMA AppendEvents ==
    ASSUME NEW q \in Seq(Events), NEW e \in Events
    PROVE  /\ Append(q, e) \in Seq(Events) /\ Queued(Append(q, e)) = Queued(q) \cup {e}
           /\ Single(q) /\ (\A x \in Queued(q) : x.op # e.op) => Single(Append(q, e))
<1> DEFINE r == Append(q, e)
<1>1. /\ r \in Seq(Events) /\ DOMAIN r = 1 .. Len(q) + 1 /\ DOMAIN q = 1 .. Len(q) /\ Len(q) \in Nat
      /\ r[Len(q) + 1] = e /\ \A i \in 1 .. Len(q) : r[i] = q[i]
  OBVIOUS
<1> HIDE DEF r
<1>2. Queued(r) = Queued(q) \cup {e}
  <2>1. \A i \in DOMAIN r : r[i] \in Queued(q) \cup {e}
    BY <1>1 DEF Queued
  <2>2. \A i \in DOMAIN q : i \in DOMAIN r /\ r[i] = q[i]
    BY <1>1
  <2>3. Len(q) + 1 \in DOMAIN r
    BY <1>1
  <2> QED
    BY <1>1, <2>1, <2>2, <2>3 DEF Queued
<1>3. Single(q) /\ (\A x \in Queued(q) : x.op # e.op) => Single(r)
  BY <1>1 DEF Single, Queued
<1> QED
  BY <1>1, <1>2, <1>3 DEF r

(* The event taken from the queue was the only one of its operation.       *)
LEMMA TailEvents ==
    ASSUME NEW q \in Seq(Events), q # <<>>, Single(q)
    PROVE  /\ Tail(q) \in Seq(Events) /\ Single(Tail(q)) /\ Head(q) \in Events /\ Head(q) \in Queued(q)
           /\ Queued(Tail(q)) = {e \in Queued(q) : e.op # Head(q).op}
<1> DEFINE r == Tail(q)
<1>1. /\ r \in Seq(Events) /\ DOMAIN r = 1 .. Len(q) - 1 /\ DOMAIN q = 1 .. Len(q) /\ Len(q) \in Nat \ {0}
      /\ \A i \in 1 .. Len(q) - 1 : r[i] = q[i + 1]
      /\ Head(q) = q[1]
  OBVIOUS
<1> HIDE DEF r
<1>2. 1 \in DOMAIN q /\ Head(q) \in Events /\ Head(q) \in Queued(q)
  BY <1>1 DEF Queued
<1>3. Single(r)
  <2> SUFFICES ASSUME NEW i \in DOMAIN r, NEW j \in DOMAIN r, r[i].op = r[j].op
               PROVE  i = j
    BY DEF Single
  <2>1. i + 1 \in DOMAIN q /\ j + 1 \in DOMAIN q /\ q[i + 1].op = q[j + 1].op /\ i \in Nat /\ j \in Nat
    BY <1>1
  <2>2. i + 1 = j + 1
    BY <2>1 DEF Single
  <2> QED
    BY <2>1, <2>2
<1>4. ASSUME NEW i \in DOMAIN r
      PROVE  r[i] \in Queued(q) /\ r[i].op # Head(q).op
  <2>1. i + 1 \in DOMAIN q /\ i + 1 # 1 /\ r[i] = q[i + 1]
    BY <1>1
  <2> QED
    BY <1>1, <1>2, <2>1 DEF Single, Queued
<1>5. ASSUME NEW j \in DOMAIN q, q[j].op # Head(q).op
      PROVE  q[j] \in Queued(r)
  <2>1. j # 1 /\ j - 1 \in DOMAIN r /\ r[j - 1] = q[j]
    BY <1>1, <1>5
  <2> QED
    BY <2>1 DEF Queued
<1>6. Queued(r) = {e \in Queued(q) : e.op # Head(q).op}
  BY <1>4, <1>5 DEF Queued
<1> QED
  BY <1>1, <1>2, <1>3, <1>6 DEF r

(* There is an event for an operation in the queue.                        *)
LEMMA EventIsQueued ==
    \A o : HasEvent(o) <=> \E e \in Queued(events) : e.op = o
BY DEF HasEvent, Queued

(* What the parts of the state are made of.                                *)
LEMMA InvTypes ==
    ASSUME IInv
    PROVE  /\ ops \subseteq Ops /\ hinted \subseteq Finds /\ fetching \subseteq Fetches
           /\ Finds \subseteq Ops /\ Fetches \subseteq Ops /\ Finds \cap Fetches = {}
           /\ \A e \in Queued(events) : e \in Events /\ e.op \in Ops
           /\ query # None => query.by \in Finds /\ query.place \in Places
           /\ state \in [Ops -> States \cup {"NONE"}] /\ events \in Seq(Events)
           /\ place \in [Finds -> Places] /\ delayed_op \in Ops \cup {None} /\ dropped \subseteq Ops
<1>1. events \in Seq(Events)
  BY DEF IInv, TypeOK, Events
<1>2. \A e \in Queued(events) : e \in Events
  BY <1>1 DEF Queued
<1>3. query # None => query.by \in Finds /\ query.place \in Places
  BY DEF IInv, TypeOK
<1> QED
  BY <1>1, <1>2, <1>3, NamesAssumption DEF IInv, TypeOK, Ops, Events

(***************************************************************************)
(* What operations do                                                      *)
(***************************************************************************)
(* A running operation that is over reports its end, whatever it has been  *)
(* waiting for.                                                            *)
LEMMA FinishKeeps ==
    ASSUME IInv, NEW o \in Ops, state[o] \in {"RUNNING", "CANCELING"},
           NEW q \in Seq(Events), Single(q), NEW success \in BOOLEAN, Finish(o, success, q),
           Queued(q) = {e \in Queued(events) : e.op # o},
           o # delayed_op, o \notin dropped,
           hinted' = hinted \ {o}, fetching' = fetching \ {o},
           query' \in {query, None}, query' # None => query.by # o,
           query # None /\ query.by # o => query' = query,
           UNCHANGED <<is_active, ops, canceled_after_done, place, delayed_op, dropped,
                       mine, told, given_up>>
    PROVE  IInv'
<1> DEFINE c == Completed(o)
<1>1. /\ state' = [state EXCEPT ![o] = FinishedState(o, success)]
      /\ events' = Append(q, c) /\ bad_calls' = bad_calls
  BY DEF Finish, Finished
<1>2. /\ FinishedState(o, success) \in Finished
      /\ FinishedState(o, success) = IF state[o] = "RUNNING"
                                     THEN IF success THEN "DONE" ELSE "FAILED" ELSE "CANCELED"
  BY DEF FinishedState, Finished
<1>3. c \in Events /\ c.op = o /\ c.what = "COMPLETED"
  BY DEF Events, Completed
<1> HIDE DEF c
<1>4. /\ events' \in Seq(Events) /\ Queued(events') = {e \in Queued(events) : e.op # o} \cup {c}
      /\ Single(events')
  BY <1>1, <1>3, AppendEvents
<1>5. TypeOK'
  BY <1>1, <1>2, <1>4 DEF IInv, TypeOK, Finished, States, Events
<1>6. /\ state \in [Ops -> States \cup {"NONE"}] /\ state'[o] \in Finished
      /\ \A p \in Ops \ {o} : state'[p] = state[p]
      /\ Finished \cap Searching = {} /\ Finished \cap {"RUNNING", "CANCELING"} = {}
  BY <1>1, <1>2 DEF IInv, TypeOK, Finished, Searching
<1>7. /\ ops \subseteq Ops /\ hinted \subseteq Finds /\ fetching \subseteq Fetches
      /\ Finds \subseteq Ops /\ Fetches \subseteq Ops
      /\ \A e \in Queued(events) : e.op \in Ops
      /\ query # None => query.by \in Finds
  BY InvTypes
<1>8. EventsOK'
  <2> DEFINE Fits(e) == IF e.what = "YIELDED" THEN e.op \in Finds /\ state[e.op] \in {"RUNNING", "CANCELING"}
                        ELSE state[e.op] \in Finished
  <2>1. \A e \in Queued(events) : Fits(e)
    BY DEF IInv, EventsOK
  <2>2. ASSUME NEW e \in Queued(events), e.op # o
        PROVE  Fits(e)'
    <3>1. state'[e.op] = state[e.op]
      BY <1>6, <1>7, <2>2
    <3> QED
      BY <2>1, <3>1
  <2>3. Fits(c)'
    BY <1>3, <1>6
  <2>4. \A e \in Queued(events') : Fits(e)'
    BY <1>4, <2>2, <2>3
  <2>5. ASSUME NEW p \in ops', state'[p] \in Finished
        PROVE  \E e \in Queued(events') : e.op = p
    <3>1. CASE p = o
      BY <1>3, <1>4, <3>1
    <3>2. CASE p # o
      <4>1. p \in ops /\ state[p] \in Finished
        BY <1>6, <1>7, <2>5, <3>2
      <4>2. PICK e \in Queued(events) : e.op = p
        BY <4>1 DEF IInv, EventsOK
      <4> QED
        BY <1>4, <3>2, <4>2
    <3> QED
      BY <3>1, <3>2
  <2> QED
    BY <1>4, <2>4, <2>5 DEF EventsOK
<1>9. WaitsOK'
  <2>1. /\ \A p \in hinted' : p # o /\ state'[p] = "RUNNING"
        /\ \A p \in fetching' : p # o /\ state'[p] \in {"RUNNING", "CANCELING"}
    BY <1>6, <1>7 DEF IInv, WaitsOK
  <2>2. ASSUME query' # None
        PROVE  /\ query' = query /\ query.by # o /\ state'[query.by] = "RUNNING"
               /\ query.by \notin hinted' /\ query.place = place'[query.by]
    <3>1. query' = query /\ query.by # o /\ query.by \in Ops
      BY <1>7, <2>2
    <3>2. query # None /\ state'[query.by] = state[query.by]
      BY <1>6, <2>2, <3>1
    <3>3. state[query.by] = "RUNNING" /\ query.by \notin hinted /\ query.place = place[query.by]
      BY <3>2 DEF IInv, WaitsOK
    <3> QED
      BY <3>1, <3>2, <3>3
  <2>3. ASSUME NEW e \in Queued(events')
        PROVE  e.op \notin hinted' /\ e.op \notin fetching' /\ (query' # None => e.op # query'.by)
    <3>1. CASE e = c
      BY <1>3, <2>1, <2>2, <3>1
    <3>2. CASE e \in Queued(events) /\ e.op # o
      BY <2>2, <3>2 DEF IInv, WaitsOK
    <3> QED
      BY <1>4, <3>1, <3>2
  <2> QED
    BY <2>1, <2>2, <2>3 DEF WaitsOK
<1>10. DelayedOK'
  BY <1>3, <1>4, <1>6, <1>7, NamesAssumption DEF IInv, DelayedOK, Finished
<1>11. SearchersOK'
  BY <1>6, <1>7 DEF IInv, SearchersOK
<1>12. PendingOK'
  BY <1>3, <1>4, <1>6, <1>7 DEF IInv, PendingOK
<1>13. CallersOK'
  BY <1>1, <1>2, <1>6 DEF IInv, CallersOK, CancelIsRemembered, IsOpCanceled, TypeOK
<1> QED
  BY <1>5, <1>8, <1>9, <1>10, <1>11, <1>12, <1>13 DEF IInv

(* One operation at most is looking for something, so nobody else waits    *)
(* for the list.                                                           *)
LEMMA WaitsAlone ==
    ASSUME IInv, NEW o \in Finds, state[o] \in Searching
    PROVE  /\ o \in ops /\ hinted \subseteq {o} /\ (query # None => query.by = o)
           /\ o \notin dropped /\ o \notin fetching /\ (state[o] = "RUNNING" => o # delayed_op)
<1>1. \A f \in Finds : state[f] \in Searching => f = o
  BY DEF IInv, SearchersOK
<1>2. hinted \subseteq {o} /\ (query # None => query.by = o)
  <2>1. \A f \in hinted : f \in Finds /\ state[f] \in Searching
    BY InvTypes DEF IInv, WaitsOK, Searching
  <2>2. query # None => query.by \in Finds /\ state[query.by] \in Searching
    BY InvTypes DEF IInv, WaitsOK, Searching
  <2> QED
    BY <1>1, <2>1, <2>2
<1>3. o \in ops /\ o \notin fetching
  BY InvTypes DEF IInv, SearchersOK
<1>4. o \notin dropped /\ (state[o] = "RUNNING" => o # delayed_op)
  BY NamesAssumption, InvTypes DEF IInv, DelayedOK, Searching
<1> QED
  BY <1>2, <1>3, <1>4

(* A running operation goes on waiting, for an item or for a list.         *)
LEMMA WaitKeeps ==
    ASSUME ~ReturnsToPlaces, IInv, NEW o \in Finds, state[o] = "RUNNING",
           NEW q \in Seq(Events), Single(q), Queued(q) = {e \in Queued(events) : e.op # o}, events' = q,
           \/ hinted' = {o} /\ query' = None /\ UNCHANGED place
           \/ hinted' = {} /\ \E p \in PlacesFor(o) : EnterList(o, p),
           UNCHANGED <<state, bad_calls>>,
           UNCHANGED <<is_active, ops, canceled_after_done, fetching, delayed_op, dropped,
                       mine, told, given_up>>
    PROVE  IInv'
<1>1. /\ o \in ops /\ o \notin dropped /\ o \notin fetching /\ o # delayed_op
      /\ hinted \subseteq {o} /\ (query # None => query.by = o)
  BY WaitsAlone DEF Searching
<1>2. /\ ops \subseteq Ops /\ Finds \subseteq Ops /\ Fetches \subseteq Ops /\ Finds \cap Fetches = {}
      /\ fetching \subseteq Fetches /\ place \in [Finds -> Places]
      /\ \A e \in Queued(events) : e.op \in Ops
  BY InvTypes
<1>3. /\ hinted' \subseteq {o}
      /\ query' # None => /\ query' \in [place : Places, by : {o}] /\ query'.place = place'[o]
                          /\ hinted' = {}
      /\ o \in hinted' \/ (query' # None /\ query'.by = o)
      /\ place' \in [Finds -> Places] /\ \A f \in Finds \ {o} : place'[f] = place[f]
      /\ \A f \in (Finds \cap ops) \ {o} : place'[f] # place'[o]
  <2>1. CASE hinted' = {o} /\ query' = None /\ UNCHANGED place
    BY <1>1, <1>2, <2>1 DEF IInv, SearchersOK
  <2>2. CASE hinted' = {} /\ \E p \in PlacesFor(o) : EnterList(o, p)
    <3>1. PICK p \in PlacesFor(o) : EnterList(o, p)
      BY <2>2
    <3>2. p \in Places /\ \A f \in (Finds \cap ops) \ {o} : place[f] # p
      BY <3>1 DEF PlacesFor
    <3>3. place' = [place EXCEPT ![o] = p] /\ query' = [place |-> p, by |-> o]
      BY <3>1 DEF EnterList
    <3>4. query' \in [place : Places, by : {o}] /\ query'.place = p /\ query'.by = o
      BY <3>2, <3>3
    <3>5. /\ place' \in [Finds -> Places] /\ place'[o] = p
          /\ \A f \in Finds \ {o} : place'[f] = place[f]
      BY <1>2, <3>2, <3>3
    <3>6. query' # None
      BY <3>2, <3>3, NamesAssumption
    <3> QED
      BY <2>2, <3>2, <3>4, <3>5, <3>6
  <2> QED
    BY <2>1, <2>2
<1>4. TypeOK'
  <2>1. query' \in [place: Places, by: Finds] \cup {None}
    BY <1>3
  <2> QED
    BY <1>2, <1>3, <2>1 DEF IInv, TypeOK, Events
<1>5. EventsOK'
  <2>1. \A p \in ops' : state'[p] \in Finished => \E e \in Queued(events') : e.op = p
    BY DEF IInv, EventsOK, Finished
  <2> QED
    BY <2>1 DEF IInv, EventsOK
<1>6. WaitsOK'
  BY <1>2, <1>3 DEF IInv, WaitsOK
<1>7. DelayedOK'
  BY DEF IInv, DelayedOK
<1>8. SearchersOK'
  BY <1>3 DEF IInv, SearchersOK
<1>9. PendingOK'
  BY <1>1, <1>3 DEF IInv, PendingOK
<1>10. CallersOK'
  BY DEF IInv, CallersOK, CancelIsRemembered, IsOpCanceled
<1> QED
  BY <1>4, <1>5, <1>6, <1>7, <1>8, <1>9, <1>10 DEF IInv

(* A running operation, or one which is told that it has been canceled     *)
(* meanwhile, is over or goes on waiting.                                  *)
LEMMA RunKeeps ==
    ASSUME ~ReturnsToPlaces, IInv, NEW o \in Finds, state[o] = "RUNNING",
           NEW q \in Seq(Events), Single(q), Queued(q) = {e \in Queued(events) : e.op # o},
           NEW waiting, waiting = hinted \ {o}, NEW left, left = None,
           RunAsFarAsPossible(o, q, waiting, left),
           UNCHANGED <<is_active, ops, canceled_after_done, fetching, delayed_op, dropped,
                       mine, told, given_up>>
    PROVE  IInv'
<1>1. /\ o \in ops /\ o \in Ops /\ o \notin dropped /\ o \notin fetching /\ o # delayed_op
      /\ hinted \subseteq {o} /\ (query # None => query.by = o)
  BY WaitsAlone, InvTypes DEF Searching
<1>2. CASE \E success \in BOOLEAN : Finish(o, success, q) /\ hinted' = waiting /\ query' = left /\ UNCHANGED place
  <2>1. PICK success \in BOOLEAN : Finish(o, success, q)
    BY <1>2
  <2>2. /\ hinted' = hinted \ {o} /\ fetching' = fetching \ {o} /\ query' = None /\ UNCHANGED place
    BY <1>1, <1>2
  <2> QED
    BY <1>1, <2>1, <2>2, FinishKeeps
<1>3. CASE /\ hinted' = waiting \cup {o} /\ query' = left /\ events' = q
           /\ UNCHANGED <<place, state, bad_calls>>
  <2>1. hinted' = {o} /\ query' = None /\ UNCHANGED place
    BY <1>1, <1>3
  <2> QED
    BY <1>3, <2>1, WaitKeeps
<1>4. CASE /\ \E p \in PlacesFor(o) : EnterList(o, p)
           /\ hinted' = waiting /\ events' = q /\ UNCHANGED <<state, bad_calls>>
  <2>1. hinted' = {}
    BY <1>1, <1>4
  <2> QED
    BY <1>4, <2>1, WaitKeeps
<1> QED
  BY <1>2, <1>3, <1>4 DEF RunAsFarAsPossible

(***************************************************************************)
(* Steps                                                                   *)
(***************************************************************************)
(* An operation yielded some time ago is continued, or told that it has    *)
(* been canceled.                                                          *)
LEMMA YieldedKeeps ==
    ASSUME ~ReturnsToPlaces, IInv, HandleYielded
    PROVE  IInv'
<1> DEFINE o == Head(events).op
           q == Tail(events)
<1>1. /\ q \in Seq(Events) /\ Single(q) /\ Queued(q) = {e \in Queued(events) : e.op # o}
      /\ Head(events) \in Queued(events) /\ Head(events).what = "YIELDED"
  BY InvTypes, TailEvents DEF HandleYielded, IInv, EventsOK
<1>2. /\ o \in Finds /\ state[o] \in {"RUNNING", "CANCELING"} /\ o \in Ops
      /\ o \notin hinted /\ o \notin fetching /\ (query # None => query.by # o)
      /\ o # delayed_op /\ o \notin dropped
  BY <1>1, InvTypes DEF IInv, EventsOK, WaitsOK, DelayedOK
<1>3. UNCHANGED <<is_active, ops, canceled_after_done, fetching, delayed_op, dropped,
                  mine, told, given_up>>
  BY DEF HandleYielded
<1>4. CASE o \in ops /\ state[o] = "RUNNING" /\ RunAsFarAsPossible(o, q, hinted, query)
  <2>1. hinted = hinted \ {o} /\ query = None
    BY <1>2, <1>4, WaitsAlone DEF Searching
  <2> HIDE DEF o, q
  <2> QED
    BY <1>1, <1>2, <1>3, <1>4, <2>1, RunKeeps
<1>5. CASE o \in ops /\ state[o] = "CANCELING" /\ Finish(o, FALSE, q) /\ UNCHANGED <<place, list_vars>>
  <2>1. hinted' = hinted \ {o} /\ fetching' = fetching \ {o} /\ query' = query /\ UNCHANGED place
    BY <1>2, <1>3, <1>5 DEF list_vars
  <2> HIDE DEF o, q
  <2> QED
    BY <1>1, <1>2, <1>3, <1>5, <2>1, FinishKeeps
<1>6. CASE o \notin ops /\ events' = q /\ UNCHANGED <<state, place, list_vars, bad_calls>>
  <2> HIDE DEF o, q
  <2>1. Queued(events') \subseteq Queued(events) /\ Single(events') /\ events' \in Seq(Events)
    BY <1>1, <1>6
  <2>2. TypeOK'
    BY <1>3, <1>6, <2>1 DEF IInv, TypeOK, list_vars, Events
  <2>3. EventsOK'
    BY <1>1, <1>3, <1>6, <2>1 DEF IInv, EventsOK
  <2>4. WaitsOK' /\ DelayedOK'
    BY <1>3, <1>6, <2>1 DEF IInv, WaitsOK, DelayedOK, list_vars
  <2>5. SearchersOK' /\ PendingOK'
    BY <1>1, <1>3, <1>6 DEF IInv, SearchersOK, PendingOK, list_vars
  <2>6. CallersOK'
    BY <1>3, <1>6 DEF IInv, CallersOK, CancelIsRemembered, IsOpCanceled
  <2> QED
    BY <2>2, <2>3, <2>4, <2>5, <2>6 DEF IInv
<1> QED
  BY <1>4, <1>5, <1>6 DEF HandleYielded

(* The list has been entered, or could not be: the operation which has     *)
(* asked for it is the one found.                                          *)
LEMMA EnteredKeeps ==
    ASSUME ~ReturnsToPlaces, IInv, ListEntered
    PROVE  IInv'
<1> DEFINE o == query.by
<1>1. /\ query # None /\ o \in Finds /\ state[o] = "RUNNING" /\ o \notin hinted /\ query.place = place[o]
      /\ \A e \in Queued(events) : e.op # o
  BY InvTypes DEF ListEntered, IInv, WaitsOK
<1>2. o \in ops /\ o \in Ops
  BY <1>1, WaitsAlone, InvTypes DEF Searching
<1>3. \A p \in ops : Matches(p) => p = o
  BY <1>1, <1>2 DEF Matches, IInv, SearchersOK
<1>4. Matches(o)
  BY <1>1 DEF Matches
<1> HIDE DEF o
<1>5. RunAsFarAsPossible(o, events, hinted, None)
  BY <1>2, <1>3, <1>4 DEF ListEntered
<1>6. hinted = hinted \ {o} /\ Queued(events) = {e \in Queued(events) : e.op # o}
      /\ events \in Seq(Events) /\ Single(events)
  BY <1>1, InvTypes DEF IInv, EventsOK
<1>7. UNCHANGED <<is_active, ops, canceled_after_done, fetching, delayed_op, dropped,
                  mine, told, given_up>>
  BY DEF ListEntered
<1> QED
  BY <1>1, <1>5, <1>6, <1>7, RunKeeps

(* The item waited for is there, or cannot be loaded.                      *)
LEMMA ItemKeeps ==
    ASSUME ~ReturnsToPlaces, IInv, NEW o \in Finds, HintedItemArrives(o)
    PROVE  IInv'
<1>1. /\ o \in hinted /\ state[o] = "RUNNING" /\ \A e \in Queued(events) : e.op # o
  BY DEF HintedItemArrives, IInv, WaitsOK
<1>2. query = None
  BY <1>1, WaitsAlone DEF IInv, WaitsOK, Searching
<1>3. /\ Queued(events) = {e \in Queued(events) : e.op # o}
      /\ events \in Seq(Events) /\ Single(events)
  BY <1>1, InvTypes DEF IInv, EventsOK
<1>4. /\ RunAsFarAsPossible(o, events, hinted \ {o}, query)
      /\ UNCHANGED <<is_active, ops, canceled_after_done, fetching, delayed_op, dropped,
                     mine, told, given_up>>
  BY DEF HintedItemArrives
<1> QED
  BY <1>1, <1>2, <1>3, <1>4, RunKeeps

(* The list broker has answered.                                           *)
LEMMA URIsKeep ==
    ASSUME IInv, NEW o \in Fetches, URIsArrive(o)
    PROVE  IInv'
<1>1. /\ o \in fetching /\ state[o] \in {"RUNNING", "CANCELING"} /\ o \in Ops
      /\ \A e \in Queued(events) : e.op # o
      /\ o \notin hinted /\ (query # None => query.by # o) /\ o # delayed_op /\ o \notin dropped
  BY InvTypes, NamesAssumption DEF URIsArrive, IInv, WaitsOK, DelayedOK
<1>2. /\ Queued(events) = {e \in Queued(events) : e.op # o}
      /\ events \in Seq(Events) /\ Single(events)
  BY <1>1, InvTypes DEF IInv, EventsOK
<1>3. PICK success \in BOOLEAN : Finish(o, success, events)
  BY DEF URIsArrive
<1>4. /\ hinted' = hinted \ {o} /\ fetching' = fetching \ {o} /\ query' = query
      /\ UNCHANGED <<is_active, ops, canceled_after_done, place, delayed_op, dropped,
                     mine, told, given_up>>
  BY <1>1 DEF URIsArrive, list_vars
<1> QED
  BY <1>1, <1>2, <1>3, <1>4, FinishKeeps

(* A finished operation is let go, and its caller called if it wants to.   *)
LEMMA CompletedKeeps ==
    ASSUME IInv, HandleCompleted
    PROVE  IInv'
<1> DEFINE o == Head(events).op
           q == Tail(events)
<1>1. /\ q \in Seq(Events) /\ Single(q) /\ Queued(q) = {e \in Queued(events) : e.op # o}
      /\ events' = q /\ ops' = ops \ {o} /\ o \in Ops
  BY InvTypes, TailEvents DEF HandleCompleted, IInv, EventsOK, Events
<1>2. \E e \in Queued(events) : e.op = o /\ e.what = "COMPLETED"
  BY InvTypes, TailEvents DEF HandleCompleted, IInv, EventsOK
<1>3. state[o] \in Finished
  BY <1>2 DEF IInv, EventsOK
<1>4. UNCHANGED <<is_active, state, canceled_after_done, place, hinted, query,
                  fetching, delayed_op, dropped, mine, given_up, bad_calls>>
  BY DEF HandleCompleted, list_vars
<1>5. told' \in [Ops -> Nat] /\ \A p \in Ops \ {o} : told'[p] = told[p]
  <2>1. told \in [Ops -> Nat]
    BY DEF IInv, TypeOK
  <2>2. told' = [told EXCEPT ![o] = @ + 1] \/ told' = told
    BY DEF HandleCompleted
  <2> QED
    BY <2>1, <2>2
<1> HIDE DEF o, q
<1>6. TypeOK'
  BY <1>1, <1>4, <1>5 DEF IInv, TypeOK, Events
<1>7. EventsOK'
  BY <1>1, <1>4 DEF IInv, EventsOK
<1>8. WaitsOK' /\ DelayedOK'
  BY <1>1, <1>4 DEF IInv, WaitsOK, DelayedOK
<1>9. SearchersOK'
  BY <1>1, <1>3, <1>4 DEF IInv, SearchersOK, Searching, Finished
<1>10. PendingOK'
  BY <1>1, <1>4 DEF IInv, PendingOK
<1>11. CallersOK'
  BY <1>1, <1>4, <1>5, InvTypes DEF IInv, CallersOK, CancelIsRemembered, IsOpCanceled
<1> QED
  BY <1>6, <1>7, <1>8, <1>9, <1>10, <1>11 DEF IInv

(* Operations are canceled: one by the player, or all.                     *)
LEMMA CancelKeeps ==
    ASSUME IInv, NEW s \in SUBSET Ops, NEW left \in SUBSET ops,
           \A o \in ops : o \in s \/ o \in left,
           state' = Canceled(s), canceled_after_done' = CanceledAfterDone(s), CancelAllAsyncCalls(s),
           ops' = left, is_active' \in BOOLEAN, mine' \subseteq Ops, left \subseteq mine',
           \A o \in Ops \ left : o \in s \/ state[o] \notin Searching,
           given_up' \subseteq given_up \cup s,
           \A o \in given_up' \ given_up : state[o] # "NONE",
           UNCHANGED <<place, fetching, delayed_op, dropped, events, told, bad_calls>>
    PROVE  IInv'
<1>1. /\ state' \in [Ops -> States \cup {"NONE"}]
      /\ \A o \in Ops : state'[o] = IF o \in s /\ state[o] \in Searching THEN "CANCELING" ELSE state[o]
      /\ canceled_after_done' \in [Ops -> BOOLEAN]
      /\ \A o \in Ops : canceled_after_done'[o] <=> \/ canceled_after_done[o]
                                                    \/ o \in s /\ state[o] \in {"DONE", "FAILED"}
  BY DEF IInv, TypeOK, Canceled, CanceledAfterDone, Searching, States
<1>2. /\ hinted' \subseteq hinted /\ query' \in {query, None}
      /\ (\E f \in Finds \cap s : state[f] \in Searching) => hinted' = {} /\ query' = None
      /\ (\A f \in Finds \cap s : state[f] \notin Searching) => hinted' = hinted /\ query' = query
  BY DEF CancelAllAsyncCalls, CancelsList, list_vars, Searching
<1>3. /\ ops \subseteq Ops /\ hinted \subseteq Finds /\ fetching \subseteq Fetches
      /\ Finds \subseteq Ops /\ Fetches \subseteq Ops /\ Finds \cap Fetches = {}
      /\ \A e \in Queued(events) : e.op \in Ops
      /\ query # None => query.by \in Finds
      /\ delayed_op \in Ops \cup {None} /\ dropped \subseteq Ops
  BY InvTypes
<1>4. TypeOK'
  BY <1>1, <1>2, <1>3 DEF IInv, TypeOK
<1>5. EventsOK'
  BY <1>1, <1>3 DEF IInv, EventsOK, Finished, Searching
<1>6. WaitsOK'
  <2>1. \A f \in hinted' : state'[f] = "RUNNING"
    BY <1>1, <1>2, <1>3 DEF IInv, WaitsOK, Searching
  <2>2. query' # None => /\ state'[query'.by] = "RUNNING" /\ query'.by \notin hinted'
                         /\ query'.place = place'[query'.by]
    BY <1>1, <1>2, <1>3 DEF IInv, WaitsOK, Searching
  <2>3. \A f \in fetching' : state'[f] \in {"RUNNING", "CANCELING"}
    BY <1>1, <1>3 DEF IInv, WaitsOK
  <2>4. \A e \in Queued(events') : /\ e.op \notin hinted' /\ e.op \notin fetching'
                                   /\ (query' # None => e.op # query'.by)
    BY <1>2 DEF IInv, WaitsOK
  <2> QED
    BY <2>1, <2>2, <2>3, <2>4 DEF WaitsOK
<1>7. DelayedOK'
  BY <1>1, <1>3, NamesAssumption DEF IInv, DelayedOK
<1>8. SearchersOK'
  <2>1. \A o \in Ops : state'[o] \in Searching => o \notin s /\ state[o] \in Searching
    BY <1>1 DEF Searching
  <2> QED
    BY <1>3, <2>1 DEF IInv, SearchersOK
<1>9. PendingOK'
  <2> SUFFICES ASSUME NEW o \in left, ~(o \in Finds /\ state'[o] = "CANCELING")
               PROVE  \/ o \in hinted' \/ (query' # None /\ query'.by = o) \/ o \in fetching'
                      \/ \E e \in Queued(events') : e.op = o
                      \/ delayed_op' = o
    BY DEF PendingOK
  <2>1. ~(o \in Finds /\ state[o] = "CANCELING") /\ o \in Ops
    BY <1>1, <1>3
  <2>2. CASE o \in hinted \/ (query # None /\ query.by = o)
    <3>1. o \in Finds /\ state[o] = "RUNNING" /\ o \notin s
      BY <1>1, <1>3, <2>1, <2>2 DEF IInv, WaitsOK, Searching
    <3>2. \A f \in Finds : state[f] \in Searching => f = o
      BY <3>1 DEF IInv, SearchersOK, Searching
    <3> QED
      BY <1>2, <2>2, <3>1, <3>2
  <2> QED
    BY <2>1, <2>2 DEF IInv, PendingOK
<1>10. CallersOK'
  <2>1. \A o \in given_up' : IsOpCanceled(o)'
    <3> SUFFICES ASSUME NEW o \in given_up'
                 PROVE  state'[o] \in {"CANCELING", "CANCELED"} \/ canceled_after_done'[o]
      BY DEF IsOpCanceled
    <3>1. o \in Ops /\ state[o] \in States \cup {"NONE"}
      BY DEF IInv, TypeOK
    <3>2. CASE o \in given_up
      BY <1>1, <3>1, <3>2 DEF IInv, CallersOK, CancelIsRemembered, IsOpCanceled, Searching
    <3>3. CASE o \notin given_up
      BY <1>1, <3>1, <3>3 DEF States, Searching
    <3> QED
      BY <3>2, <3>3
  <2> QED
    BY <2>1 DEF IInv, CallersOK, CancelIsRemembered
<1> QED
  BY <1>4, <1>5, <1>6, <1>7, <1>8, <1>9, <1>10 DEF IInv

(* An operation is started which nobody knows yet, or whose delay is over. *)
LEMMA StartKeeps ==
    ASSUME IInv, NEW o \in Ops, Start(o, ops \cup {o}),
           \A e \in Queued(events) : e.op # o,
           o \notin hinted, o \notin fetching, o \notin dropped, query # None => query.by # o,
           o \in Finds => hinted = {} /\ query = None /\ \A f \in Finds \ {o} : state[f] \notin Searching,
           hinted' = hinted, dropped' = dropped,
           delayed_op' = IF delayed_op = o THEN None ELSE delayed_op,
           place' \in [Finds -> Places], \A f \in Finds \ {o} : place'[f] = place[f],
           o \in Finds => \A f \in (Finds \cap ops) \ {o} : place'[f] # place'[o],
           told' \in [Ops -> Nat], \A p \in Ops \ {o} : told'[p] = told[p], told'[o] = 0,
           is_active' \in BOOLEAN, mine' \subseteq Ops, ops \cup {o} \subseteq mine', bad_calls' = {},
           given_up' \subseteq given_up, canceled_after_done' \in [Ops -> BOOLEAN],
           \A p \in given_up' : canceled_after_done'[p] = canceled_after_done[p],
           o \in given_up' => canceled_after_done[o]
    PROVE  IInv'
<1>1. /\ ops \subseteq Ops /\ hinted \subseteq Finds /\ fetching \subseteq Fetches
      /\ Finds \subseteq Ops /\ Fetches \subseteq Ops /\ Finds \cap Fetches = {}
      /\ \A e \in Queued(events) : e \in Events /\ e.op \in Ops
      /\ query # None => query.by \in Finds /\ query.place \in Places
      /\ state \in [Ops -> States \cup {"NONE"}] /\ events \in Seq(Events)
      /\ delayed_op \in Ops \cup {None} /\ dropped \subseteq Ops
  BY InvTypes
<1>2. PICK st \in {"RUNNING", "DONE", "FAILED"} : state' = [state EXCEPT ![o] = st]
  BY DEF Start
<1>3. /\ state' \in [Ops -> States \cup {"NONE"}] /\ state'[o] = st
      /\ \A p \in Ops \ {o} : state'[p] = state[p]
  BY <1>1, <1>2 DEF States
\* What leads on: an event, a query, a request; or the operation is not there.
<1>4. \/ /\ o \in Finds /\ st = "RUNNING" /\ ops' = ops \cup {o}
         /\ events' = Append(events, Yielded(o)) /\ query' = query /\ fetching' = fetching
      \/ /\ o \in Finds /\ st = "RUNNING" /\ ops' = ops \cup {o}
         /\ query' = [place |-> place'[o], by |-> o] /\ events' = events /\ fetching' = fetching
      \/ /\ o \in Fetches /\ st = "RUNNING" /\ ops' = ops \cup {o}
         /\ fetching' = fetching \cup {o} /\ events' = events /\ query' = query
      \/ /\ o \in Fetches /\ st \in {"DONE", "FAILED"} /\ ops' = ops \cup {o}
         /\ events' = Append(events, Completed(o)) /\ fetching' = fetching /\ query' = query
      \/ /\ st = "FAILED" /\ ops' = ops \ {o}
         /\ events' = events /\ query' = query /\ fetching' = fetching
  BY <1>1, <1>2, <1>3 DEF Start
<1>5. \/ /\ events' \in Seq(Events) /\ Single(events')
         /\ Queued(events') = Queued(events)
         /\ \/ o \notin ops'
            \/ st = "RUNNING" /\ o \in fetching'
            \/ st = "RUNNING" /\ o \in Finds /\ query' = [place |-> place'[o], by |-> o]
      \/ \E e \in Events : /\ events' \in Seq(Events) /\ Single(events')
                           /\ Queued(events') = Queued(events) \cup {e}
                           /\ e.op = o /\ ops' = ops \cup {o} /\ hinted' = hinted
                           /\ fetching' = fetching /\ query' = query
                           /\ \/ e.what = "YIELDED" /\ o \in Finds /\ st = "RUNNING"
                              \/ e.what = "COMPLETED" /\ o \in Fetches /\ st \in {"DONE", "FAILED"}
  <2>1. events \in Seq(Events) /\ Single(events)
    BY <1>1 DEF IInv, EventsOK
  <2>2. CASE /\ events' = events
             /\ \/ o \notin ops'
                \/ st = "RUNNING" /\ o \in fetching'
                \/ st = "RUNNING" /\ o \in Finds /\ query' = [place |-> place'[o], by |-> o]
    BY <2>1, <2>2
  <2>3. CASE /\ o \in Finds /\ st = "RUNNING" /\ ops' = ops \cup {o}
             /\ events' = Append(events, Yielded(o)) /\ query' = query /\ fetching' = fetching
    <3> DEFINE e == Yielded(o)
    <3>1. e \in Events /\ e.op = o /\ e.what = "YIELDED"
      BY DEF Events, Yielded
    <3>2. events' = Append(events, e)
      BY <2>3
    <3> HIDE DEF e
    <3>3. events' \in Seq(Events) /\ Single(events') /\ Queued(events') = Queued(events) \cup {e}
      BY <2>1, <3>1, <3>2, AppendEvents
    <3> QED
      BY <2>3, <3>1, <3>3
  <2>4. CASE /\ o \in Fetches /\ st \in {"DONE", "FAILED"} /\ ops' = ops \cup {o}
             /\ events' = Append(events, Completed(o)) /\ fetching' = fetching /\ query' = query
    <3> DEFINE e == Completed(o)
    <3>1. e \in Events /\ e.op = o /\ e.what = "COMPLETED"
      BY DEF Events, Completed
    <3>2. events' = Append(events, e)
      BY <2>4
    <3> HIDE DEF e
    <3>3. events' \in Seq(Events) /\ Single(events') /\ Queued(events') = Queued(events) \cup {e}
      BY <2>1, <3>1, <3>2, AppendEvents
    <3> QED
      BY <2>4, <3>1, <3>3
  <2> QED
    BY <1>4, <2>2, <2>3, <2>4
<1>6. TypeOK'
  <2>1. fetching' \subseteq Fetches /\ ops' \subseteq Ops
    BY <1>1, <1>4
  <2>2. query' \in [place : Places, by : Finds] \cup {None}
    BY <1>4 DEF IInv, TypeOK
  <2>3. given_up' \subseteq Ops /\ delayed_op' \in Ops \cup {None}
    BY DEF IInv, TypeOK
  <2> QED
    BY <1>1, <1>3, <1>5, <2>1, <2>2, <2>3 DEF TypeOK, Events
<1>7. EventsOK'
  <2>1. \A p \in ops' : p \in ops \/ p = o
    BY <1>4
  <2>2. \A e \in Queued(events) : state'[e.op] = state[e.op]
    BY <1>1, <1>3
  <2>3. /\ Single(events')
        /\ \A e \in Queued(events') :
              IF e.what = "YIELDED" THEN e.op \in Finds /\ state'[e.op] \in {"RUNNING", "CANCELING"}
              ELSE state'[e.op] \in Finished
    BY <1>1, <1>3, <1>5, <2>2 DEF IInv, EventsOK, Finished
  <2>4. \A p \in ops' : p # o /\ state'[p] \in Finished => \E e \in Queued(events') : e.op = p
    BY <1>1, <1>3, <1>5, <2>1 DEF IInv, EventsOK
  <2>5. o \in ops' /\ state'[o] \in Finished => \E e \in Queued(events') : e.op = o
    BY <1>3, <1>4, <1>5 DEF Finished
  <2> QED
    BY <2>3, <2>4, <2>5 DEF EventsOK
<1>8. WaitsOK'
  <2>1. \A p \in hinted' : state'[p] = "RUNNING"
    BY <1>1, <1>3 DEF IInv, WaitsOK
  <2>2. query' # None =>
          state'[query'.by] = "RUNNING" /\ query'.by \notin hinted' /\ query'.place = place'[query'.by]
    <3>1. CASE query' = query
      BY <1>1, <1>3, <3>1 DEF IInv, WaitsOK
    <3>2. CASE o \in Finds /\ st = "RUNNING" /\ query' = [place |-> place'[o], by |-> o]
      BY <1>3, <3>2
    <3> QED
      BY <1>4, <3>1, <3>2
  <2>3. \A p \in fetching' : state'[p] \in {"RUNNING", "CANCELING"}
    BY <1>1, <1>3, <1>4 DEF IInv, WaitsOK
  <2>4. ASSUME NEW e \in Queued(events')
        PROVE  e.op \notin hinted' /\ e.op \notin fetching' /\ (query' # None => e.op # query'.by)
    <3>1. CASE e \in Queued(events)
      BY <1>1, <1>4, <3>1 DEF IInv, WaitsOK
    <3>2. CASE e \notin Queued(events)
      BY <1>5, <2>4, <3>2
    <3> QED
      BY <3>1, <3>2
  <2> QED
    BY <2>1, <2>2, <2>3, <2>4 DEF WaitsOK
<1>9. DelayedOK'
  <2>1. delayed_op' \in {delayed_op, None} /\ delayed_op' # o
    BY NamesAssumption DEF Ops
  <2>2. \A p \in ops' : p \in ops \/ p = o
    BY <1>4
  <2>3. \A e \in Queued(events') : e \in Queued(events) \/ e.op = o
    BY <1>5
  <2>4. /\ dropped' \subseteq Finds /\ delayed_op' \in Finds \cup {None}
        /\ delayed_op' \notin dropped' /\ dropped' \cap ops' = {}
    BY <1>1, <2>1, <2>2, NamesAssumption DEF IInv, DelayedOK, Ops
  <2>5. \A p \in dropped' : state'[p] = "CANCELING"
    BY <1>1, <1>3 DEF IInv, DelayedOK
  <2>6. delayed_op' # None => state'[delayed_op'] \in {"NOT_STARTED", "CANCELING"}
    BY <1>1, <1>3, <2>1 DEF IInv, DelayedOK
  <2>7. \A e \in Queued(events') : e.op # delayed_op' /\ e.op \notin dropped'
    BY <1>1, <2>1, <2>3, NamesAssumption DEF IInv, DelayedOK
  <2> QED
    BY <2>4, <2>5, <2>6, <2>7 DEF DelayedOK
<1>10. SearchersOK'
  <2>1. \A p \in ops : p \in ops' \/ p = o
    BY <1>4
  <2>2. st = "RUNNING" => o \in ops'
    BY <1>4
  <2>3. \A p \in ops' : p \in ops \/ p = o
    BY <1>4
  <2>4. \A p \in Ops : state'[p] \in Searching => p \in ops'
    BY <1>3, <2>1, <2>2 DEF IInv, SearchersOK, Searching
  <2>5. \A f, g \in Finds : state'[f] \in Searching /\ state'[g] \in Searching => f = g
    <3>1. CASE o \in Finds
      BY <1>1, <1>3, <3>1
    <3>2. CASE o \notin Finds
      BY <1>1, <1>3, <3>2 DEF IInv, SearchersOK
    <3> QED
      BY <3>1, <3>2
  <2>6. \A f, g \in Finds \cap ops' : place'[f] = place'[g] => f = g
    BY <2>3 DEF IInv, SearchersOK
  <2> QED
    BY <2>4, <2>5, <2>6 DEF SearchersOK
<1>11. PendingOK'
  <2> SUFFICES ASSUME NEW p \in ops'
               PROVE  \/ p \in hinted' \/ (query' # None /\ query'.by = p) \/ p \in fetching'
                      \/ \E e \in Queued(events') : e.op = p
                      \/ delayed_op' = p
                      \/ p \in Finds /\ state'[p] = "CANCELING"
    BY DEF PendingOK
  <2>1. CASE p = o
    <3>1. st = "RUNNING" /\ o \in Finds /\ query' = [place |-> place'[o], by |-> o] => query' # None
      BY NamesAssumption
    <3>2. o \in ops'
      BY <2>1
    <3> QED
      BY <1>5, <2>1, <3>1, <3>2
  <2>2. CASE p # o
    <3>1. p \in ops /\ p \in Ops /\ state'[p] = state[p]
      BY <1>1, <1>3, <1>4, <2>2
    <3>2. query # None => query' = query
      BY <1>4
    <3>3. \A e \in Queued(events) : e \in Queued(events')
      BY <1>5
    <3>4. fetching \subseteq fetching'
      BY <1>4
    <3>5. \/ p \in hinted \/ (query # None /\ query.by = p) \/ p \in fetching
          \/ \E e \in Queued(events) : e.op = p
          \/ delayed_op = p
          \/ p \in Finds /\ state[p] = "CANCELING"
      BY <3>1 DEF IInv, PendingOK
    <3> QED
      BY <2>2, <3>1, <3>2, <3>3, <3>4, <3>5
  <2> QED
    BY <2>1, <2>2
<1>12. CallersOK'
  <2>1. ops' \subseteq mine' /\ \A p \in ops' : told'[p] = 0
    BY <1>1, <1>4 DEF IInv, CallersOK
  <2>2. ASSUME NEW p \in given_up'
        PROVE  IsOpCanceled(p)'
    <3>1. p \in Ops /\ p \in given_up
      BY DEF IInv, TypeOK
    <3>2. CASE p = o
      BY <2>2, <3>2 DEF IsOpCanceled
    <3>3. CASE p # o
      BY <1>3, <2>2, <3>1, <3>3 DEF IInv, CallersOK, CancelIsRemembered, IsOpCanceled
    <3> QED
      BY <3>2, <3>3
  <2> QED
    BY <2>1, <2>2 DEF CallersOK, CancelIsRemembered
<1> QED
  BY <1>6, <1>7, <1>8, <1>9, <1>10, <1>11, <1>12 DEF IInv

(* A new operation is known to nobody; if it is to find something, nobody  *)
(* else is looking for anything.                                           *)
LEMMA NewIsUnknown ==
    ASSUME ~ReturnsToPlaces, IInv, NEW o \in Ops, New(o)
    PROVE  /\ o \notin ops /\ o \notin hinted /\ o \notin fetching /\ o \notin dropped
           /\ delayed_op # o /\ (query # None => query.by # o)
           /\ \A e \in Queued(events) : e.op # o
           /\ o \in Finds => /\ hinted = {} /\ query = None
                             /\ \A f \in Finds : state[f] \notin Searching
           /\ place' \in [Finds -> Places] /\ \A f \in Finds \ {o} : place'[f] = place[f]
           /\ o \in Finds => \A f \in (Finds \cap ops) \ {o} : place'[f] # place'[o]
           /\ told' \in [Ops -> Nat] /\ told'[o] = 0 /\ \A p \in Ops \ {o} : told'[p] = told[p]
           /\ is_active' \in BOOLEAN /\ mine' = mine \cup {o} /\ bad_calls' = {}
           /\ given_up' = given_up \ {o} /\ canceled_after_done' \in [Ops -> BOOLEAN]
           /\ \A p \in Ops \ {o} : canceled_after_done'[p] = canceled_after_done[p]
<1>1. /\ o \notin ops /\ o \notin hinted /\ o \notin fetching /\ o \notin dropped
      /\ delayed_op # o /\ (query # None => query.by # o)
      /\ \A e \in Queued(events) : e.op # o
  BY EventIsQueued DEF New, IsFree, IsPending, Waits, Enters, IsDelayed
<1>2. ASSUME o \in Finds
      PROVE  /\ hinted = {} /\ query = None
             /\ \A f \in Finds : state[f] \notin Searching
  <2>1. \A f \in Finds : state[f] \notin Searching
    BY <1>2, InvTypes DEF New, NobodySearches, IInv, SearchersOK, Searching
  <2>2. hinted = {}
    BY <2>1, InvTypes DEF IInv, WaitsOK, Searching
  <2>3. query = None
    BY <2>1, InvTypes DEF IInv, WaitsOK, Searching
  <2> QED
    BY <2>1, <2>2, <2>3
<1>3. /\ place' \in [Finds -> Places] /\ \A f \in Finds \ {o} : place'[f] = place[f]
      /\ o \in Finds => \A f \in (Finds \cap ops) \ {o} : place'[f] # place'[o]
  <2>1. place \in [Finds -> Places]
    BY InvTypes
  <2>2. CASE o \in Finds
    <3>1. PICK p \in PlacesFor(o) : place' = [place EXCEPT ![o] = p]
      BY <2>2, InvTypes DEF New
    <3>2. p \in Places /\ \A f \in (Finds \cap ops) \ {o} : place[f] # p
      BY <3>1 DEF PlacesFor
    <3> QED
      BY <2>1, <2>2, <3>1, <3>2
  <2>3. CASE o \notin Finds
    BY <2>1, <2>3 DEF New
  <2> QED
    BY <2>2, <2>3
<1>4. /\ told' \in [Ops -> Nat] /\ told'[o] = 0 /\ \A p \in Ops \ {o} : told'[p] = told[p]
      /\ is_active' \in BOOLEAN /\ mine' = mine \cup {o} /\ bad_calls' = {}
      /\ given_up' = given_up \ {o}
  BY DEF New, IInv, TypeOK, CallersOK
<1>5. /\ canceled_after_done' \in [Ops -> BOOLEAN]
      /\ \A p \in Ops \ {o} : canceled_after_done'[p] = canceled_after_done[p]
  BY DEF New, IInv, TypeOK
<1> QED
  BY <1>1, <1>2, <1>3, <1>4, <1>5

(* A new operation is started.                                             *)
LEMMA RunStarts ==
    ASSUME ~ReturnsToPlaces, IInv, NEW o \in Ops, Run(o)
    PROVE  IInv'
<1>1. /\ o \notin ops /\ o \notin hinted /\ o \notin fetching /\ o \notin dropped
      /\ delayed_op # o /\ (query # None => query.by # o)
      /\ \A e \in Queued(events) : e.op # o
      /\ o \in Finds => /\ hinted = {} /\ query = None
                        /\ \A f \in Finds : state[f] \notin Searching
      /\ place' \in [Finds -> Places] /\ \A f \in Finds \ {o} : place'[f] = place[f]
      /\ o \in Finds => \A f \in (Finds \cap ops) \ {o} : place'[f] # place'[o]
      /\ told' \in [Ops -> Nat] /\ told'[o] = 0 /\ \A p \in Ops \ {o} : told'[p] = told[p]
      /\ is_active' \in BOOLEAN /\ mine' = mine \cup {o} /\ bad_calls' = {}
      /\ given_up' = given_up \ {o} /\ canceled_after_done' \in [Ops -> BOOLEAN]
      /\ \A p \in Ops \ {o} : canceled_after_done'[p] = canceled_after_done[p]
  BY NewIsUnknown DEF Run
<1>2. /\ mine' \subseteq Ops /\ ops \cup {o} \subseteq mine'
      /\ given_up' \subseteq given_up /\ o \notin given_up' /\ given_up \subseteq Ops
  BY <1>1 DEF IInv, TypeOK, CallersOK
<1>3. /\ Start(o, ops \cup {o}) /\ hinted' = hinted /\ dropped' = dropped
      /\ delayed_op' = IF delayed_op = o THEN None ELSE delayed_op
  BY <1>1 DEF Run
<1>4. \A p \in given_up' : canceled_after_done'[p] = canceled_after_done[p]
  BY <1>1, <1>2
<1> QED
  BY <1>1, <1>2, <1>3, <1>4, StartKeeps

(* A new operation is going to be started later, and takes the place of    *)
(* the one which was.  Nobody looks for anything, so this has been         *)
(* canceled.                                                               *)
LEMMA RunDelayedKeeps ==
    ASSUME ~ReturnsToPlaces, IInv, NEW o \in Finds, RunDelayed(o)
    PROVE  IInv'
<1>1. /\ ops \subseteq Ops /\ hinted \subseteq Finds /\ fetching \subseteq Fetches
      /\ Finds \subseteq Ops /\ Fetches \subseteq Ops /\ Finds \cap Fetches = {}
      /\ \A e \in Queued(events) : e \in Events /\ e.op \in Ops
      /\ state \in [Ops -> States \cup {"NONE"}] /\ events \in Seq(Events)
      /\ delayed_op \in Ops \cup {None} /\ dropped \subseteq Ops
  BY InvTypes
<1>2. /\ o \notin ops /\ o \notin hinted /\ o \notin fetching /\ o \notin dropped
      /\ delayed_op # o /\ (query # None => query.by # o)
      /\ \A e \in Queued(events) : e.op # o
      /\ hinted = {} /\ query = None /\ \A f \in Finds : state[f] \notin Searching
      /\ place' \in [Finds -> Places] /\ \A f \in Finds \ {o} : place'[f] = place[f]
      /\ \A f \in (Finds \cap ops) \ {o} : place'[f] # place'[o]
      /\ told' \in [Ops -> Nat] /\ told'[o] = 0 /\ \A p \in Ops \ {o} : told'[p] = told[p]
      /\ is_active' \in BOOLEAN /\ mine' = mine \cup {o} /\ bad_calls' = {}
      /\ given_up' = given_up \ {o} /\ canceled_after_done' \in [Ops -> BOOLEAN]
      /\ \A p \in Ops \ {o} : canceled_after_done'[p] = canceled_after_done[p]
  BY <1>1, NewIsUnknown DEF RunDelayed
<1>3. /\ state' \in [Ops -> States \cup {"NONE"}] /\ state'[o] = "NOT_STARTED"
      /\ \A p \in Ops \ {o} : state'[p] = state[p]
  BY <1>1 DEF RunDelayed, States
<1>4. /\ hinted' = {} /\ query' = None /\ fetching' = fetching /\ events' = events
      /\ delayed_op' = o
  BY <1>2 DEF RunDelayed, list_vars
<1>5. /\ dropped' \subseteq dropped \cup ({delayed_op} \ {None}) /\ o \notin dropped'
      /\ \A p \in ops' : p \in ops \/ p = o
      /\ \A p \in ops : p \in ops' \/ p = delayed_op
      /\ \A p \in ops' : p \notin dropped'
      /\ o \in ops'
  <2>1. CASE delayed_op = None /\ dropped' = dropped /\ ops' = ops \cup {o}
    BY <1>2, <2>1 DEF IInv, DelayedOK
  <2>2. CASE /\ delayed_op # None
             /\ dropped' = dropped \cup {delayed_op}
             /\ ops' = (ops \cup {o}) \ {delayed_op}
    BY <1>2, <2>2 DEF IInv, DelayedOK
  <2> QED
    BY <2>1, <2>2 DEF RunDelayed
<1>6. TypeOK'
  BY <1>1, <1>2, <1>3, <1>4, <1>5 DEF IInv, TypeOK
<1>7. EventsOK'
  BY <1>1, <1>2, <1>3, <1>4, <1>5 DEF IInv, EventsOK, Finished
<1>8. WaitsOK'
  BY <1>1, <1>2, <1>3, <1>4 DEF IInv, WaitsOK
<1>9. DelayedOK'
  <2>1. \A p \in dropped' : p \in Finds /\ p # o /\ state[p] = "CANCELING"
    BY <1>1, <1>2, <1>5 DEF IInv, DelayedOK, Searching
  <2>2. \A p \in dropped' : state'[p] = "CANCELING"
    BY <1>1, <1>3, <2>1
  <2>3. \A e \in Queued(events') : e.op # delayed_op' /\ e.op \notin dropped'
    BY <1>2, <1>4, <1>5 DEF IInv, DelayedOK
  <2> QED
    BY <1>3, <1>4, <1>5, <2>1, <2>2, <2>3 DEF DelayedOK
<1>10. SearchersOK'
  <2>1. \A p \in Ops : state'[p] \in Searching => p \in ops'
    BY <1>1, <1>2, <1>3, <1>5, NamesAssumption DEF IInv, SearchersOK, DelayedOK, Searching
  <2>2. \A f, g \in Finds : state'[f] \in Searching /\ state'[g] \in Searching => f = g
    BY <1>1, <1>2, <1>3
  <2>3. \A f, g \in Finds \cap ops' : place'[f] = place'[g] => f = g
    BY <1>2, <1>5 DEF IInv, SearchersOK
  <2> QED
    BY <2>1, <2>2, <2>3 DEF SearchersOK
<1>11. PendingOK'
  <2> SUFFICES ASSUME NEW p \in ops', p # o
               PROVE  \/ p \in fetching \/ \E e \in Queued(events) : e.op = p
                      \/ p \in Finds /\ state'[p] = "CANCELING"
    BY <1>4 DEF PendingOK
  <2>1. p \in ops /\ p \in Ops /\ state'[p] = state[p]
    BY <1>1, <1>3, <1>5
  <2>2. CASE p = delayed_op
    BY <1>1, <1>2, <2>1, <2>2, NamesAssumption DEF IInv, DelayedOK, Searching
  <2>3. CASE p # delayed_op
    BY <1>2, <2>1, <2>3 DEF IInv, PendingOK
  <2> QED
    BY <2>2, <2>3
<1>12. CallersOK'
  BY <1>1, <1>2, <1>3, <1>5 DEF IInv, CallersOK, CancelIsRemembered, IsOpCanceled, TypeOK
<1> QED
  BY <1>6, <1>7, <1>8, <1>9, <1>10, <1>11, <1>12 DEF IInv

(* The delay is over: the operation is started unless it has been canceled *)
(* or replaced.                                                            *)
LEMMA DelayIsOverKeeps ==
    ASSUME IInv, NEW o \in Finds, DelayIsOver(o)
    PROVE  IInv'
<1>1. /\ ops \subseteq Ops /\ hinted \subseteq Finds /\ fetching \subseteq Fetches
      /\ Finds \subseteq Ops /\ Fetches \subseteq Ops /\ Finds \cap Fetches = {}
      /\ \A e \in Queued(events) : e \in Events /\ e.op \in Ops
      /\ state \in [Ops -> States \cup {"NONE"}] /\ place \in [Finds -> Places]
      /\ delayed_op \in Ops \cup {None} /\ dropped \subseteq Ops
      /\ o \in Ops /\ o # None
  BY InvTypes, NamesAssumption
<1>2. UNCHANGED <<is_active, canceled_after_done, place, hinted, mine, told, given_up, bad_calls>>
  BY DEF DelayIsOver, history
<1>3. CASE o = delayed_op /\ state[o] = "NOT_STARTED" /\ Start(o, ops) /\ delayed_op' = None /\ UNCHANGED dropped
  <2>1. /\ o \in ops /\ hinted \subseteq {o} /\ (query # None => query.by = o)
        /\ o \notin dropped /\ o \notin fetching
    BY <1>3, WaitsAlone DEF Searching
  <2>2. hinted = {} /\ query = None
    BY <1>3, <2>1 DEF IInv, WaitsOK
  <2>3. \A f \in Finds \ {o} : state[f] \notin Searching
    BY <1>3 DEF IInv, SearchersOK, Searching
  <2>4. \A e \in Queued(events) : e.op # o
    BY <1>3 DEF IInv, DelayedOK
  <2>5. \A f \in (Finds \cap ops) \ {o} : place'[f] # place'[o]
    BY <1>2, <2>1 DEF IInv, SearchersOK
  <2>6. Start(o, ops \cup {o})
    <3>1. ops \cup {o} = ops
      BY <2>1
    <3> QED
      BY <1>3, <3>1
  <2>7. /\ told' \in [Ops -> Nat] /\ told'[o] = 0 /\ \A p \in Ops \ {o} : told'[p] = told[p]
        /\ is_active' \in BOOLEAN /\ mine' \subseteq Ops /\ ops \cup {o} \subseteq mine' /\ bad_calls' = {}
        /\ given_up' \subseteq given_up /\ canceled_after_done' \in [Ops -> BOOLEAN]
    BY <1>2, <2>1 DEF IInv, TypeOK, CallersOK
  <2>8. o \in given_up' => canceled_after_done[o]
    BY <1>2, <1>3 DEF IInv, CallersOK, CancelIsRemembered, IsOpCanceled
  <2>9. delayed_op' = IF delayed_op = o THEN None ELSE delayed_op
    BY <1>3
  <2>10. \A p \in given_up' : canceled_after_done'[p] = canceled_after_done[p]
    BY <1>2
  <2>11. place' \in [Finds -> Places] /\ \A f \in Finds \ {o} : place'[f] = place[f]
    BY <1>1, <1>2
  <2> QED
    BY <1>1, <1>2, <1>3, <2>1, <2>2, <2>3, <2>4, <2>5, <2>6, <2>7, <2>8, <2>9, <2>10, <2>11, StartKeeps
<1>4. ASSUME UNCHANGED <<state, events, query, fetching>>,
             ops' \in {ops, ops \ {o}},
             dropped' \subseteq dropped, delayed_op' \in {delayed_op, None},
             ops' # ops => state[o] \notin Searching,
             \A p \in ops' : delayed_op = p => delayed_op' = p
      PROVE  IInv'
  <2>1. TypeOK' /\ EventsOK'
    BY <1>1, <1>2, <1>4 DEF IInv, TypeOK, EventsOK
  <2>2. WaitsOK'
    BY <1>2, <1>4 DEF IInv, WaitsOK
  <2>3. DelayedOK'
    <3>1. \A e \in Queued(events) : e.op # None
      BY <1>1, NamesAssumption
    <3>2. None \notin dropped'
      BY <1>1, <1>4, NamesAssumption
    <3> QED
      BY <1>1, <1>4, <3>1, <3>2 DEF IInv, DelayedOK
  <2>4. SearchersOK'
    BY <1>1, <1>2, <1>4 DEF IInv, SearchersOK
  <2>5. PendingOK'
    BY <1>2, <1>4 DEF IInv, PendingOK
  <2>6. CallersOK'
    BY <1>2, <1>4 DEF IInv, CallersOK, CancelIsRemembered, IsOpCanceled
  <2> QED
    BY <2>1, <2>2, <2>3, <2>4, <2>5, <2>6 DEF IInv
<1>5. CASE o = delayed_op /\ state[o] # "NOT_STARTED" /\ StartFails(o) /\ delayed_op' = None /\ UNCHANGED dropped
  <2>1. state[o] = "CANCELING"
    BY <1>1, <1>5 DEF IInv, DelayedOK
  <2>2. /\ UNCHANGED <<state, events, query, fetching>>
        /\ ops' = ops \ {o}
        /\ state[o] \notin Searching
    BY <1>5, <2>1 DEF StartFails, Searching
  <2> QED
    BY <1>4, <1>5, <2>2
<1>6. CASE /\ o # delayed_op /\ dropped' = dropped \ {o}
           /\ UNCHANGED <<ops, state, events, query, fetching, delayed_op>>
  BY <1>4, <1>6
<1> QED
  BY <1>3, <1>5, <1>6 DEF DelayIsOver

(* The player cancels an operation.                                        *)
LEMMA CancelOneKeeps ==
    ASSUME IInv, NEW o \in Ops, Cancel(o)
    PROVE  IInv'
<1> DEFINE s == {o}
<1>1. s \in SUBSET Ops /\ ops \in SUBSET ops /\ s \subseteq Ops
  OBVIOUS
<1>2. /\ state' = Canceled(s) /\ canceled_after_done' = CanceledAfterDone(s) /\ CancelAllAsyncCalls(s)
      /\ ops' = ops /\ given_up' \subseteq given_up \cup s
      /\ \A p \in given_up' \ given_up : state[p] # "NONE"
      /\ UNCHANGED <<is_active, place, fetching, delayed_op, dropped, events, mine, told, bad_calls>>
  BY DEF Cancel
<1>3. is_active' \in BOOLEAN /\ mine' \subseteq Ops /\ ops \subseteq mine'
  BY <1>2 DEF IInv, TypeOK, CallersOK
<1>4. /\ \A p \in ops : p \in s \/ p \in ops
      /\ \A p \in Ops \ ops : p \in s \/ state[p] \notin Searching
  BY DEF IInv, SearchersOK
<1> HIDE DEF s
<1> QED
  BY <1>1, <1>2, <1>3, <1>4, CancelKeeps

(* The crawler is deactivated.                                             *)
LEMMA DeactivateKeeps ==
    ASSUME IInv, Deactivate
    PROVE  IInv'
<1> DEFINE left == {}
<1>1. ops \in SUBSET Ops /\ left \in SUBSET ops
  BY InvTypes
<1>2. /\ state' = Canceled(ops) /\ canceled_after_done' = CanceledAfterDone(ops) /\ CancelAllAsyncCalls(ops)
      /\ ops' = left /\ is_active' \in BOOLEAN /\ mine' \subseteq Ops /\ left \subseteq mine'
      /\ given_up' \subseteq given_up \cup ops /\ \A p \in given_up' \ given_up : state[p] # "NONE"
      /\ UNCHANGED <<place, fetching, delayed_op, dropped, events, told, bad_calls>>
  BY DEF Deactivate, DeactivatedOps
<1>3. /\ \A p \in ops : p \in ops \/ p \in left
      /\ \A p \in Ops \ left : p \in ops \/ state[p] \notin Searching
  BY DEF IInv, SearchersOK
<1> HIDE DEF left
<1> QED
  BY <1>1, <1>2, <1>3, CancelKeeps

(* Nothing but the activity changes.                                       *)
LEMMA QuietKeeps ==
    ASSUME IInv, is_active' \in BOOLEAN,
           UNCHANGED <<ops, state, canceled_after_done, place, list_vars,
                       fetching, delayed_op, dropped, events, history>>
    PROVE  IInv'
<1>1. TypeOK' /\ EventsOK' /\ WaitsOK'
  BY DEF IInv, TypeOK, EventsOK, WaitsOK, list_vars, history
<1>2. DelayedOK' /\ SearchersOK' /\ PendingOK'
  BY DEF IInv, DelayedOK, SearchersOK, PendingOK, list_vars, history
<1>3. CallersOK'
  BY DEF IInv, CallersOK, CancelIsRemembered, IsOpCanceled, list_vars, history
<1> QED
  BY <1>1, <1>2, <1>3 DEF IInv

(***************************************************************************)
(* The theorems                                                            *)
(***************************************************************************)
(* In the beginning, nothing is going on.                                  *)
LEMMA InitIInv ==
    Init => IInv
<1> SUFFICES ASSUME Init
             PROVE  IInv
  OBVIOUS
<1>1. events = <<>> /\ Queued(events) = {} /\ Single(events)
  BY DEF Init, Queued, Single
<1>2. TypeOK
  <2>1. events \in Seq([what: {"COMPLETED", "YIELDED"}, op: Ops])
    BY <1>1
  <2>2. /\ state \in [Ops -> States \cup {"NONE"}] /\ canceled_after_done \in [Ops -> BOOLEAN]
        /\ told \in [Ops -> Nat] /\ place \in [Finds -> Places]
    BY DEF Init, States
  <2> QED
    BY <2>1, <2>2 DEF Init, TypeOK
<1>3. EventsOK /\ WaitsOK /\ DelayedOK
  BY <1>1 DEF Init, EventsOK, WaitsOK, DelayedOK
<1>4. SearchersOK
  <2>1. \A o \in Ops : state[o] \notin Searching
    BY DEF Init, Searching
  <2> QED
    BY <2>1, NamesAssumption DEF Init, SearchersOK, Ops
<1>5. PendingOK /\ CallersOK
  BY DEF Init, PendingOK, CallersOK, CancelIsRemembered
<1> QED
  BY <1>2, <1>3, <1>4, <1>5 DEF IInv

(* Every step keeps the invariant.                                         *)
LEMMA NextIInv ==
    ASSUME ~ReturnsToPlaces, IInv, [Next]_vars
    PROVE  IInv'
<1>1. CASE Activate
  BY <1>1, QuietKeeps DEF Activate
<1>2. CASE Deactivate
  BY <1>2, DeactivateKeeps
<1>3. CASE \E o \in Ops : Run(o)
  BY <1>3, RunStarts
<1>4. CASE \E o \in Finds : RunDelayed(o)
  BY <1>4, RunDelayedKeeps
<1>5. CASE \E o \in Ops : Cancel(o)
  BY <1>5, CancelOneKeeps
<1>6. CASE \E o \in Finds : DelayIsOver(o)
  BY <1>6, DelayIsOverKeeps
<1>7. CASE HandleCompleted
  BY <1>7, CompletedKeeps
<1>8. CASE HandleYielded
  BY <1>8, YieldedKeeps
<1>9. CASE ListEntered
  BY <1>9, EnteredKeeps
<1>10. CASE \E o \in Finds : HintedItemArrives(o)
  BY <1>10, ItemKeeps
<1>11. CASE \E o \in Fetches : URIsArrive(o)
  BY <1>11, URIsKeep
<1>12. CASE UNCHANGED vars
  <2>1. is_active' \in BOOLEAN
    BY <1>12 DEF IInv, TypeOK, vars
  <2> QED
    BY <1>12, <2>1, QuietKeeps DEF vars
<1> QED
  BY <1>1, <1>2, <1>3, <1>4, <1>5, <1>6, <1>7, <1>8, <1>9, <1>10, <1>11, <1>12 DEF Next

(* The invariant says what the runs check.                                 *)
LEMMA IInvSays ==
    ASSUME IInv
    PROVE  OperationsAccounted /\ NobodyWaitsInVain
<1>1. EventsFitStates
  <2>1. \A i \in DOMAIN events : events[i] \in Queued(events)
    BY DEF Queued
  <2>2. /\ \A i, j \in DOMAIN events : events[i].op = events[j].op => i = j
        /\ \A i \in DOMAIN events :
              IF events[i].what = "YIELDED"
              THEN state[events[i].op] \in {"RUNNING", "CANCELING"}
              ELSE state[events[i].op] \in Finished
    BY <2>1 DEF IInv, EventsOK, Single
  <2>3. \A o \in ops : state[o] \in Finished => HasEvent(o)
    BY EventIsQueued DEF IInv, EventsOK
  <2> QED
    BY <2>2, <2>3 DEF EventsFitStates
<1>2. OperationsAccounted
  BY <1>1 DEF OperationsAccounted, FinishedOnce, IInv, CallersOK
<1>3. NobodyWaitsInVain
  BY EventIsQueued DEF NobodyWaitsInVain, IInv, PendingOK, IsPending, Waits, Enters, IsDelayed
<1> QED
  BY <1>2, <1>3

(* Nothing is forgotten of what operations have to report: each has one    *)
(* event at most, which fits its state, as has each that is over and still *)
(* registered; each reports its end once; and one its player has canceled  *)
(* can be told by its state (UI events, OperationBase).                    *)
THEOREM CrawlerOpsAccounted ==
    ASSUME ~ReturnsToPlaces
    PROVE  Spec => []OperationsAccounted
<1>1. IInv /\ [Next]_vars => IInv'
  BY NextIInv
<1>2. IInv => OperationsAccounted
  BY IInvSays
<1> QED
  BY <1>1, <1>2, InitIInv, PTL DEF Spec

(* A player which waits for an operation it has not canceled does not wait *)
(* in vain: something is going to call the operation, an event, the list,  *)
(* the list broker or a timer.                                             *)
THEOREM NoPlayerWaitsInVain ==
    ASSUME ~ReturnsToPlaces
    PROVE  Spec => []NobodyWaitsInVain
<1>1. IInv /\ [Next]_vars => IInv'
  BY NextIInv
<1>2. IInv => NobodyWaitsInVain
  BY IInvSays
<1> QED
  BY <1>1, <1>2, InitIInv, PTL DEF Spec

(* Who is registered belongs to the player there is, who has not been      *)
(* called: this needs no more than itself.                                 *)
Uncalled ==
    /\ told \in [Ops -> Nat] /\ ops \subseteq Ops /\ ops \subseteq mine
    /\ \A o \in ops : told[o] = 0

LEMMA UncalledKeeps ==
    ASSUME Uncalled, [Next]_vars
    PROVE  Uncalled'
<1>1. ASSUME NEW o \in Ops, New(o), ops' \subseteq ops \cup {o}
      PROVE  Uncalled'
  BY <1>1 DEF New, Uncalled
<1>2. ASSUME ops' \subseteq ops, told' = told, mine' = mine \/ ops' = {}
      PROVE  Uncalled'
  BY <1>2 DEF Uncalled
<1>3. CASE \E o \in Ops : Run(o)
  BY <1>1, <1>3 DEF Run, Start
<1>4. CASE \E o \in Finds : RunDelayed(o)
  BY <1>1, <1>4 DEF RunDelayed, Ops
<1>5. CASE HandleCompleted
  <2> DEFINE o == Head(events).op
  <2>1. told \in [Ops -> Nat] /\ (told' = [told EXCEPT ![o] = @ + 1] \/ told' = told)
    BY <1>5 DEF HandleCompleted, Uncalled
  <2>2. ops' = ops \ {o} /\ mine' = mine
    BY <1>5 DEF HandleCompleted
  <2> HIDE DEF o
  <2>3. told' \in [Ops -> Nat] /\ \A p \in Ops \ {o} : told'[p] = told[p]
    BY <2>1
  <2>4. \A p \in ops' : told'[p] = told[p]
    BY <2>2, <2>3 DEF Uncalled
  <2> QED
    BY <2>2, <2>3, <2>4 DEF Uncalled
<1>6. CASE Deactivate
  BY <1>2, <1>6 DEF Deactivate, DeactivatedOps
<1>7. CASE \E o \in Finds : DelayIsOver(o)
  BY <1>2, <1>7 DEF DelayIsOver, Start, StartFails, history
<1>8. CASE Activate \/ \E o \in Ops : Cancel(o)
  BY <1>2, <1>8 DEF Activate, Cancel, history
<1>9. CASE HandleYielded \/ ListEntered
  BY <1>2, <1>9 DEF HandleYielded, ListEntered
<1>10. CASE (\E o \in Finds : HintedItemArrives(o)) \/ (\E o \in Fetches : URIsArrive(o))
  BY <1>2, <1>10 DEF HintedItemArrives, URIsArrive
<1>11. CASE UNCHANGED vars
  BY <1>2, <1>11 DEF vars, history
<1> QED
  BY <1>3, <1>4, <1>5, <1>6, <1>7, <1>8, <1>9, <1>10, <1>11 DEF Next

(* A player is called for an operation once, and only for one it has run   *)
(* since it has activated the crawler: what a player before it has left is *)
(* not reported to it, wherever operations are sent.                       *)
THEOREM CurrentPlayerIsNotifiedOnce ==
    Spec => NotifiedOnceByCurrentCrawler
<1> DEFINE Once == \A o \in Ops : told'[o] > told[o] => o \in mine /\ told[o] = 0
<1>1. Init => Uncalled
  BY DEF Init, Uncalled
<1>2. Uncalled /\ [Next]_vars => Uncalled'
  BY UncalledKeeps
<1>3. Uncalled /\ [Next]_vars => Once
  <2> SUFFICES ASSUME Uncalled, [Next]_vars, NEW o \in Ops, told'[o] > told[o]
               PROVE  o \in mine /\ told[o] = 0
    OBVIOUS
  <2>1. told \in [Ops -> Nat] /\ \A p \in Ops : told[p] \in Nat
    BY DEF Uncalled
  <2>2. told' # told
    <3>1. told[o] \in Nat
      BY <2>1
    <3> QED
      BY <3>1
  <2>3. ASSUME NEW p \in Ops, New(p)
        PROVE  FALSE
    <3>1. told' = [told EXCEPT ![p] = 0]
      BY <2>3 DEF New
    <3> QED
      BY <2>1, <3>1
  <2>4. HandleCompleted
    BY <2>2, <2>3 DEF Next, vars, history, Activate, Deactivate, Run, RunDelayed, Cancel,
       DelayIsOver, HandleYielded, ListEntered, HintedItemArrives, URIsArrive, Ops
  <2>5. o = Head(events).op /\ o \in ops
    BY <2>1, <2>2, <2>4 DEF HandleCompleted, IsNotified
  <2> QED
    BY <2>5 DEF Uncalled
<1> HIDE DEF Once
<1>4. Spec => [][Once]_vars
  BY <1>1, <1>2, <1>3, PTL DEF Spec
<1> QED
  BY <1>4 DEF NotifiedOnceByCurrentCrawler, Once

(***************************************************************************)
(* The second part is about cache enforcers: their life and what the list  *)
(* broker keeps, for any number of enforcers and lists, any expiry times,  *)
(* and any number of messages on their way.                                *)
(***************************************************************************)
Message == [list : Lists, keep : BOOLEAN, from : Enforcers \cup {Null}]

-----------------------------------------------------------------------------
(* The inductive invariant.                                                *)

\* An enforcer that exists has a list; the crawler's enforcer exists.
ObjectsOK ==
    /\ \A e \in Enforcers : phase[e] # "NONE" => list[e] \in Lists
    /\ owner # Null => phase[owner] # "NONE"

\* A request on its way is for the list of an enforcer which waits for the answer, and
\* no enforcer has more than one of them.
RequestsOK ==
    /\ \A i \in DOMAIN messages : messages[i].keep =>
          /\ messages[i].from \in Enforcers
          /\ call[messages[i].from] = "sent"
          /\ list[messages[i].from] = messages[i].list
    /\ \A i, j \in DOMAIN messages :
          messages[i].keep /\ messages[j].keep /\ messages[i].from = messages[j].from => i = j

IsRequested(l) == \E i \in DOMAIN messages : messages[i].keep /\ messages[i].list = l

\* A list nobody enforces is let go, also if it is not kept yet but has been asked for.
OthersLetGo ==
    \A l \in Lists :
        (owner = Null \/ list[owner] # l) /\ l \in alive /\ (l \in forced \/ IsRequested(l))
            => LetGo(l)

\* The list of the crawler's enforcer has been asked for, and has not been given up since.
OwnKept ==
    owner # Null /\ phase[owner] = "STARTED" /\ list[owner] \in alive =>
        /\ call[owner] = "sent" =>
              \E i \in DOMAIN messages :
                  /\ messages[i].keep /\ messages[i].from = owner
                  /\ \A j \in DOMAIN messages :
                        j > i /\ messages[j].list = list[owner] => messages[j].keep
        /\ call[owner] \in {"none", "granted"} =>
              /\ list[owner] \in forced
              /\ \A i \in DOMAIN messages :
                    messages[i].list = list[owner] => messages[i].keep

EnforcerIInv ==
    /\ EnforcerTypeOK /\ CallbackHasObject /\ OrphansAreReachable /\ EnforcesReference
    /\ ObjectsOK /\ RequestsOK /\ forced \subseteq alive
    /\ OthersLetGo /\ OwnKept

-----------------------------------------------------------------------------
(* Facts about sequences of messages.                                      *)

LEMMA AppendFacts ==
    ASSUME NEW s \in Seq(Message), NEW m \in Message
    PROVE  /\ Append(s, m) \in Seq(Message)
           /\ s \o <<>> \o <<m>> = Append(s, m) /\ s \o <<m>> = Append(s, m)
           /\ DOMAIN s = 1 .. Len(s) /\ Len(s) \in Nat
           /\ DOMAIN Append(s, m) = 1 .. Len(s) + 1
           /\ \A i \in 1 .. Len(s) : Append(s, m)[i] = s[i]
           /\ Append(s, m)[Len(s) + 1] = m
<1>1. s \o <<>> = s
  BY ConcatEmptySeq
<1>2. s \o <<m>> = Append(s, m)
  BY AppendIsConcat
<1> QED BY <1>1, <1>2

LEMMA TailFacts ==
    ASSUME NEW s \in Seq(Message), s # <<>>
    PROVE  /\ Tail(s) \in Seq(Message) /\ Head(s) = s[1] /\ Head(s) \in Message
           /\ DOMAIN s = 1 .. Len(s) /\ Len(s) \in Nat /\ 1 \in DOMAIN s
           /\ DOMAIN Tail(s) = 1 .. Len(s) - 1
           /\ \A i \in DOMAIN Tail(s) : i + 1 \in DOMAIN s /\ Tail(s)[i] = s[i + 1]
           /\ \A i \in DOMAIN s : i # 1 => i - 1 \in DOMAIN Tail(s) /\ Tail(s)[i - 1] = s[i]
<1>1. /\ Tail(s) \in Seq(Message) /\ Head(s) = s[1] /\ Head(s) \in Message
      /\ DOMAIN s = 1 .. Len(s) /\ Len(s) \in Nat /\ Len(s) > 0
      /\ Len(Tail(s)) = Len(s) - 1
      /\ \A i \in 1 .. Len(Tail(s)) : Tail(s)[i] = s[i + 1]
  OBVIOUS
<1>2. DOMAIN Tail(s) = 1 .. Len(s) - 1
  BY <1>1
<1> QED BY <1>1, <1>2

\* stop_cache_enforcer() and start_cache_enforcer() write at most two messages.
LEMMA StopMessagesFacts ==
    /\ StopMessages(FALSE) = <<>>
    /\ owner = Null => StopMessages(TRUE) = <<>>
    /\ owner # Null => StopMessages(TRUE) = <<Forget(list[owner])>>
BY DEF StopMessages

\* The next keep-alive is always some time ahead.
LEMMA RefreshType ==
    ASSUME NEW ms \in Nat
    PROVE  RefreshSeconds(ms) \in Nat /\ RefreshSeconds(ms) > 0
BY SMTT(30) DEF RefreshSeconds, MaximumSeconds, MaximumDifference

-----------------------------------------------------------------------------
(* What a message more or less does to what is said about messages.        *)

LEMMA MessageSent ==
    ASSUME EnforcerTypeOK, NEW m \in Message, messages' = Append(messages, m)
    PROVE  /\ messages' \in Seq(Message)
           /\ \A l : LetGo(l) /\ (m.list # l \/ ~m.keep) => LetGo(l)'
           /\ \A l : m.list = l /\ ~m.keep => LetGo(l)'
           /\ \A l : IsRequested(l)' => IsRequested(l) \/ (m.keep /\ m.list = l)
<1>1. messages \in Seq(Message)
  BY DEF EnforcerTypeOK, Message
<1>2. /\ messages' \in Seq(Message)
      /\ DOMAIN messages = 1 .. Len(messages) /\ Len(messages) \in Nat
      /\ DOMAIN messages' = 1 .. Len(messages) + 1
      /\ \A i \in 1 .. Len(messages) : messages'[i] = messages[i]
      /\ messages'[Len(messages) + 1] = m
  BY <1>1, AppendFacts
<1>3. ASSUME NEW l, LetGo(l), m.list # l \/ ~m.keep PROVE LetGo(l)'
  BY <1>2, <1>3 DEF LetGo
<1>4. ASSUME NEW l, m.list = l, ~m.keep PROVE LetGo(l)'
  <2>1. /\ Len(messages) + 1 \in DOMAIN messages'
        /\ \A j \in DOMAIN messages' : ~(j > Len(messages) + 1)
    BY <1>2
  <2> QED
    BY <1>2, <1>4, <2>1 DEF LetGo
<1>5. ASSUME NEW l, IsRequested(l)' PROVE IsRequested(l) \/ (m.keep /\ m.list = l)
  BY <1>2, <1>5 DEF IsRequested
<1> QED BY <1>2, <1>3, <1>4, <1>5

LEMMA MessageHandled ==
    ASSUME EnforcerTypeOK, messages # <<>>, messages' = Tail(messages)
    PROVE  /\ messages' \in Seq(Message)
           /\ \A l : /\ LetGo(l)
                     /\ (Head(messages).list # l \/ Head(messages).keep \/ IsRequested(l)')
                     => LetGo(l)'
           /\ \A l : IsRequested(l)' => IsRequested(l)
<1>1. messages \in Seq(Message)
  BY DEF EnforcerTypeOK, Message
<1> DEFINE t == Tail(messages)
<1>2. /\ t \in Seq(Message) /\ Head(messages) = messages[1]
      /\ DOMAIN messages = 1 .. Len(messages) /\ Len(messages) \in Nat
      /\ \A i \in DOMAIN t : i \in Nat /\ i + 1 \in DOMAIN messages /\ t[i] = messages[i + 1]
      /\ \A i \in DOMAIN messages :
            i # 1 => i \in Nat /\ i - 1 \in DOMAIN t /\ t[i - 1] = messages[i]
  BY <1>1, TailFacts
<1>3. messages' = t
  OBVIOUS
<1> HIDE DEF t
<1>4. ASSUME NEW l, IsRequested(l)' PROVE IsRequested(l)
  BY <1>2, <1>3, <1>4 DEF IsRequested
<1>5. ASSUME NEW l, LetGo(l),
             Head(messages).list # l \/ Head(messages).keep \/ IsRequested(l)'
      PROVE  LetGo(l)'
  <2>1. PICK i \in DOMAIN messages :
           /\ messages[i].list = l /\ ~messages[i].keep
           /\ \A j \in DOMAIN messages : j > i /\ messages[j].list = l => ~messages[j].keep
    BY <1>5 DEF LetGo
  <2>2. i # 1
    <3>1. CASE IsRequested(l)'
      <4>1. PICK k \in DOMAIN t : t[k].keep /\ t[k].list = l
        BY <1>3, <3>1 DEF IsRequested
      <4>2. k + 1 \in DOMAIN messages /\ messages[k + 1].keep /\ messages[k + 1].list = l /\ k \in Nat
            /\ k + 1 > 1
        BY <1>2, <4>1
      <4> QED
        BY <2>1, <4>2
    <3> QED
      BY <1>2, <1>5, <2>1, <3>1
  <2>3. /\ i - 1 \in DOMAIN t /\ t[i - 1] = messages[i] /\ i \in Nat
    BY <1>2, <2>1, <2>2
  <2>4. ASSUME NEW j \in DOMAIN t, j > i - 1, t[j].list = l PROVE ~t[j].keep
    <3>1. j + 1 \in DOMAIN messages /\ t[j] = messages[j + 1] /\ j + 1 > i
      BY <1>2, <2>3, <2>4
    <3> QED
      BY <2>1, <2>4, <3>1
  <2>5. LetGo(l)' = \E n \in DOMAIN t :
                      /\ t[n].list = l /\ ~t[n].keep
                      /\ \A j \in DOMAIN t : j > n /\ t[j].list = l => ~t[j].keep
    BY <1>3 DEF LetGo
  <2>6. t[i - 1].list = l /\ ~t[i - 1].keep
    BY <2>1, <2>3
  <2> DEFINE n == i - 1
  <2>7. n \in DOMAIN t /\ t[n].list = l /\ ~t[n].keep
    BY <2>3, <2>6
  <2>8. \A j \in DOMAIN t : j > n /\ t[j].list = l => ~t[j].keep
    BY <2>4
  <2> HIDE DEF n
  <2> QED
    BY <2>5, <2>7, <2>8
<1> QED BY <1>2, <1>3, <1>4, <1>5

-----------------------------------------------------------------------------
(* The callbacks.                                                          *)

\* A timer that sends a request says nothing new about what the broker keeps
\* for the others, and renews what has been asked for the crawler's enforcer.
LEMMA TimerKeeps ==
    ASSUME EnforcerIInv, NEW e \in Enforcers, TimerExpires(e)
    PROVE  EnforcerIInv'
<1> USE EnforcerNames
<1>1. /\ EnforcerTypeOK /\ timer[e] > 0 /\ call[e] = "none" /\ phase[e] # "NONE"
      /\ timer' = [timer EXCEPT ![e] = 0]
      /\ UNCHANGED <<list, granted, owner, reference, alive, forced>>
  BY Zenon DEF EnforcerIInv, TimerExpires, CallbackHasObject, Outstanding
<1>2. CASE /\ phase[e] = "STARTED"
           /\ call' = [call EXCEPT ![e] = "sent"]
           /\ messages' = Append(messages, ForceInCache(list[e], e))
           /\ UNCHANGED <<phase, self>>
  <2> DEFINE m == ForceInCache(list[e], e)
  <2>1. list[e] \in Lists
    BY <1>1 DEF EnforcerIInv, ObjectsOK
  <2>2. m \in Message /\ m.list = list[e] /\ m.keep /\ m.from = e /\ messages \in Seq(Message)
    BY <1>1, <2>1 DEF Message, ForceInCache, EnforcerTypeOK
  <2> HIDE DEF m
  <2>3. messages' = Append(messages, m)
    BY <1>2 DEF m
  <2>4. e = owner
    BY <1>1, <1>2 DEF EnforcerIInv, OrphansAreReachable
  <2>5. /\ messages' \in Seq(Message)
        /\ \A l : LetGo(l) /\ m.list # l => LetGo(l)'
        /\ \A l : IsRequested(l)' => IsRequested(l) \/ m.list = l
    BY <1>1, <2>2, <2>3, MessageSent
  <2>6. /\ DOMAIN messages = 1 .. Len(messages) /\ Len(messages) \in Nat
        /\ DOMAIN messages' = 1 .. Len(messages) + 1
        /\ \A i \in 1 .. Len(messages) : messages'[i] = messages[i]
        /\ messages'[Len(messages) + 1] = m
    BY <2>2, <2>3, AppendFacts
  <2>7. EnforcerTypeOK'
    BY <1>1, <1>2, <2>5 DEF EnforcerTypeOK, Message
  <2>8. CallbackHasObject' /\ OrphansAreReachable' /\ EnforcesReference' /\ ObjectsOK'
    <3>1. CallbackHasObject'
      BY <1>1, <1>2 DEF EnforcerIInv, EnforcerTypeOK, CallbackHasObject, Outstanding
    <3>2. OrphansAreReachable'
      BY <1>1, <1>2 DEF EnforcerIInv, EnforcerTypeOK, OrphansAreReachable, Outstanding
    <3>3. EnforcesReference' /\ ObjectsOK'
      BY <1>1, <1>2 DEF EnforcerIInv, EnforcesReference, ObjectsOK
    <3> QED BY <3>1, <3>2, <3>3
  <2>9. RequestsOK'
    <3>1. \A i \in DOMAIN messages : messages[i].keep => messages[i].from # e
      BY <1>1 DEF EnforcerIInv, RequestsOK
    <3>2. ASSUME NEW i \in DOMAIN messages', messages'[i].keep
          PROVE  /\ messages'[i].from \in Enforcers
                 /\ call'[messages'[i].from] = "sent"
                 /\ list'[messages'[i].from] = messages'[i].list
      <4>1. CASE i \in DOMAIN messages
        BY <1>1, <1>2, <2>6, <3>1, <3>2, <4>1 DEF EnforcerIInv, RequestsOK, EnforcerTypeOK
      <4>2. CASE i = Len(messages) + 1
        BY <1>1, <1>2, <2>2, <2>6, <4>2 DEF EnforcerTypeOK
      <4> QED BY <2>6, <4>1, <4>2
    <3>3. ASSUME NEW i \in DOMAIN messages', NEW j \in DOMAIN messages',
                 messages'[i].keep, messages'[j].keep, messages'[i].from = messages'[j].from
          PROVE  i = j
      BY <2>2, <2>6, <3>1, <3>3 DEF EnforcerIInv, RequestsOK
    <3> QED BY <3>2, <3>3 DEF RequestsOK
  <2>10. OthersLetGo'
    BY <1>1, <2>2, <2>4, <2>5 DEF EnforcerIInv, OthersLetGo
  <2>11. OwnKept'
    <3>1. call'[owner] = "sent"
      BY <1>1, <1>2, <2>4 DEF EnforcerTypeOK
    <3> DEFINE n == Len(messages) + 1
    <3>2. n \in DOMAIN messages' /\ messages'[n].keep /\ messages'[n].from = owner
          /\ \A j \in DOMAIN messages' : ~(j > n)
      BY <2>2, <2>4, <2>6
    <3> HIDE DEF n
    <3> QED BY <1>1, <3>1, <3>2 DEF OwnKept
  <2>12. forced' \subseteq alive'
    BY <1>1 DEF EnforcerIInv
  <2> QED BY <2>7, <2>8, <2>9, <2>10, <2>11, <2>12 DEF EnforcerIInv
<1>3. CASE /\ phase[e] = "STOPPED"
           /\ phase' = [phase EXCEPT ![e] = Released(e)]
           /\ self' = [self EXCEPT ![e] = FALSE]
           /\ UNCHANGED <<call, messages>>
  <2>1. e # owner /\ self[e]
    BY <1>1, <1>3 DEF EnforcerIInv, OrphansAreReachable, Outstanding
  <2>2. Released(e) = "NONE"
    BY <2>1 DEF Released
  <2>3. EnforcerTypeOK'
    BY <1>1, <1>3, <2>2 DEF EnforcerTypeOK
  <2>4. CallbackHasObject' /\ OrphansAreReachable'
    BY <1>1, <1>3, <2>1, <2>2 DEF EnforcerIInv, EnforcerTypeOK, CallbackHasObject, OrphansAreReachable, Outstanding
  <2>5. EnforcesReference' /\ ObjectsOK' /\ RequestsOK' /\ forced' \subseteq alive'
    BY <1>1, <1>3, <2>1, <2>2 DEF EnforcerIInv, EnforcerTypeOK, EnforcesReference, ObjectsOK, RequestsOK
  <2>6. OthersLetGo'
    BY <1>1, <1>3 DEF EnforcerIInv, OthersLetGo, IsRequested, LetGo
  <2>7. OwnKept'
    BY <1>1, <1>3, <2>1 DEF EnforcerIInv, EnforcerTypeOK, OwnKept
  <2> QED BY <2>3, <2>4, <2>5, <2>6, <2>7 DEF EnforcerIInv
<1> QED BY <1>2, <1>3 DEF TimerExpires

\* An answer ends a call, and sets the timer or releases the object.
LEMMA AnswerKeeps ==
    ASSUME EnforcerIInv, NEW e \in Enforcers, AnswerArrives(e)
    PROVE  EnforcerIInv'
<1>1. /\ EnforcerTypeOK /\ call[e] \in {"granted", "failed"} /\ call' = [call EXCEPT ![e] = "none"]
      /\ timer[e] = 0 /\ phase[e] # "NONE"
      /\ UNCHANGED <<list, granted, owner, reference, messages, alive, forced>>
  <2>1. /\ EnforcerTypeOK /\ call[e] \in {"granted", "failed"} /\ call' = [call EXCEPT ![e] = "none"]
        /\ UNCHANGED <<list, granted, owner, reference, messages, alive, forced>>
    BY Zenon DEF EnforcerIInv, AnswerArrives
  <2>2. timer[e] \in Nat /\ ~(timer[e] > 0) /\ phase[e] # "NONE"
    BY <2>1 DEF EnforcerIInv, EnforcerTypeOK, CallbackHasObject, Outstanding
  <2> QED BY <2>1, <2>2
<1>2. granted[e] \in Nat
  BY <1>1 DEF EnforcerTypeOK
<1>3. RequestsOK'
  BY <1>1 DEF EnforcerIInv, RequestsOK, EnforcerTypeOK
<1>4. OthersLetGo'
  BY <1>1 DEF EnforcerIInv, OthersLetGo, IsRequested, LetGo
<1>5. CASE /\ call[e] = "granted" /\ phase[e] = "STARTED"
           /\ timer' = [timer EXCEPT ![e] = RefreshSeconds(granted[e])]
           /\ UNCHANGED <<phase, self>>
  <2> DEFINE r == RefreshSeconds(granted[e])
  <2>1. r \in Nat /\ r > 0
    BY <1>2, RefreshType
  <2>2. timer' = [timer EXCEPT ![e] = r]
    BY <1>5
  <2> HIDE DEF r
  <2>3. EnforcerTypeOK'
    BY <1>1, <1>5, <2>1, <2>2 DEF EnforcerTypeOK
  <2>4. CallbackHasObject' /\ OrphansAreReachable'
    <3>1. \A x \in Enforcers : Outstanding(x)' <=> Outstanding(x)
      BY <1>1, <2>1, <2>2 DEF EnforcerTypeOK, Outstanding
    <3>2. CallbackHasObject'
      BY <1>1, <1>5, <2>1, <2>2, <3>1 DEF EnforcerIInv, EnforcerTypeOK, CallbackHasObject
    <3>3. OrphansAreReachable'
      BY <1>1, <1>5, <3>1 DEF EnforcerIInv, OrphansAreReachable
    <3> QED BY <3>2, <3>3
  <2>5. EnforcesReference' /\ ObjectsOK' /\ forced' \subseteq alive'
    BY <1>1, <1>5 DEF EnforcerIInv, EnforcesReference, ObjectsOK
  <2>6. OwnKept'
    BY <1>1, <1>5 DEF EnforcerIInv, EnforcerTypeOK, OwnKept
  <2> QED BY <1>3, <1>4, <2>3, <2>4, <2>5, <2>6 DEF EnforcerIInv
<1>6. CASE /\ call[e] = "failed" \/ phase[e] = "STOPPED"
           /\ phase' = [phase EXCEPT ![e] = Released(e)]
           /\ self' = [self EXCEPT ![e] = FALSE]
           /\ UNCHANGED timer
  <2>1. self[e] <=> e # owner
    BY <1>1 DEF EnforcerIInv, OrphansAreReachable
  <2>2. Released(e) = IF e = owner THEN "STOPPED" ELSE "NONE"
    BY <2>1 DEF Released
  <2>3. EnforcerTypeOK'
    BY <1>1, <1>6, <2>2 DEF EnforcerTypeOK
  <2>4. CallbackHasObject' /\ OrphansAreReachable'
    <3>1. \A x \in Enforcers : x # e => (Outstanding(x)' <=> Outstanding(x))
      BY <1>1, <1>6 DEF EnforcerTypeOK, Outstanding
    <3>2. ~Outstanding(e)'
      BY <1>1, <1>6 DEF EnforcerTypeOK, Outstanding
    <3>3. CallbackHasObject'
      BY <1>1, <1>6, <3>1, <3>2 DEF EnforcerIInv, EnforcerTypeOK, CallbackHasObject
    <3>4. OrphansAreReachable'
      BY <1>1, <1>6, <2>2, <3>1, <3>2 DEF EnforcerIInv, EnforcerTypeOK, OrphansAreReachable
    <3> QED BY <3>3, <3>4
  <2>5. EnforcesReference' /\ ObjectsOK' /\ forced' \subseteq alive'
    BY <1>1, <1>6, <2>2 DEF EnforcerIInv, EnforcerTypeOK, EnforcesReference, ObjectsOK
  <2>6. OwnKept'
    <3>1. CASE e = owner
      BY <1>1, <1>6, <2>2, <3>1 DEF EnforcerTypeOK, OwnKept
    <3>2. CASE e # owner
      BY <1>1, <1>6, <3>2 DEF EnforcerIInv, EnforcerTypeOK, OwnKept
    <3> QED BY <3>1, <3>2
  <2> QED BY <1>3, <1>4, <2>3, <2>4, <2>5, <2>6 DEF EnforcerIInv
<1> QED BY <1>5, <1>6 DEF AnswerArrives

-----------------------------------------------------------------------------
(* The list broker.                                                        *)

\* A request that is handled is the only one of its enforcer, so that the list is
\* kept from then on; nothing is forgotten that the crawler's enforcer has asked for.
LEMMA BrokerKeeps ==
    ASSUME EnforcerIInv, HandleMessage
    PROVE  EnforcerIInv'
<1> USE EnforcerNames
<1> DEFINE m == Head(messages)
           t == Tail(messages)
<1>1. /\ EnforcerTypeOK /\ messages # <<>> /\ messages \in Seq(Message)
      /\ UNCHANGED <<phase, list, self, timer, owner, reference, alive>>
  BY DEF EnforcerIInv, EnforcerTypeOK, Message, HandleMessage
<1>2. messages' = t
  BY DEF HandleMessage
<1>3. /\ messages' \in Seq(Message)
      /\ \A l : LetGo(l) /\ (m.list # l \/ m.keep \/ IsRequested(l)') => LetGo(l)'
      /\ \A l : IsRequested(l)' => IsRequested(l)
  BY <1>1, <1>2, MessageHandled
<1>4. /\ m = messages[1] /\ m \in Message
      /\ DOMAIN messages = 1 .. Len(messages) /\ Len(messages) \in Nat /\ 1 \in DOMAIN messages
      /\ \A i \in DOMAIN t : i + 1 \in DOMAIN messages /\ t[i] = messages[i + 1]
      /\ \A i \in DOMAIN messages : i # 1 => i - 1 \in DOMAIN t /\ t[i - 1] = messages[i]
      /\ DOMAIN t = 1 .. Len(messages) - 1
  BY <1>1, TailFacts
<1>5. \/ /\ m.keep /\ m.list \in alive
         /\ forced' = forced \cup {m.list}
         /\ \E ms \in Expiries : granted' = [granted EXCEPT ![m.from] = ms]
         /\ call' = [call EXCEPT ![m.from] = "granted"]
      \/ /\ m.keep
         /\ call' = [call EXCEPT ![m.from] = "failed"]
         /\ UNCHANGED <<forced, granted>>
      \/ /\ ~m.keep
         /\ forced' = forced \ {m.list}
         /\ UNCHANGED <<call, granted>>
  BY DEF HandleMessage
<1> HIDE DEF m, t
<1>6. /\ m.list \in Lists /\ m.keep \in BOOLEAN
      /\ m.keep => m.from \in Enforcers /\ call[m.from] = "sent" /\ list[m.from] = m.list
  BY <1>4 DEF EnforcerIInv, RequestsOK, Message
<1>7. /\ \A e \in Enforcers : ~(m.keep /\ m.from = e) => call'[e] = call[e]
      /\ m.keep => call'[m.from] \in {"granted", "failed"}
      /\ call' \in [Enforcers -> {"none", "sent", "failed", "granted"}]
  BY <1>1, <1>5, <1>6 DEF EnforcerTypeOK
<1>8. EnforcerTypeOK'
  <2>1. granted' \in [Enforcers -> Nat] /\ forced' \subseteq Lists
    BY <1>1, <1>5, <1>6, NumbersAssumption DEF EnforcerTypeOK
  <2> QED BY <1>1, <1>3, <1>7, <2>1 DEF EnforcerTypeOK, Message
<1>9. \A e \in Enforcers : Outstanding(e)' <=> Outstanding(e)
  BY <1>1, <1>6, <1>7 DEF EnforcerTypeOK, Outstanding
<1>10. CallbackHasObject'
  BY <1>1, <1>6, <1>7, <1>9 DEF EnforcerIInv, EnforcerTypeOK, CallbackHasObject, Outstanding
<1>11. OrphansAreReachable' /\ EnforcesReference' /\ ObjectsOK'
  BY <1>1, <1>9 DEF EnforcerIInv, OrphansAreReachable, EnforcesReference, ObjectsOK
<1>12. RequestsOK'
  <2>1. ASSUME NEW i \in DOMAIN t, t[i].keep
        PROVE  /\ t[i].from \in Enforcers /\ call'[t[i].from] = "sent"
               /\ list[t[i].from] = t[i].list
    <3>1. i + 1 \in DOMAIN messages /\ t[i] = messages[i + 1] /\ i + 1 # 1 /\ i \in Nat
      BY <1>4, <2>1
    <3>2. ~(m.keep /\ m.from = t[i].from)
      BY <1>4, <2>1, <3>1 DEF EnforcerIInv, RequestsOK
    <3> QED BY <1>7, <2>1, <3>1, <3>2 DEF EnforcerIInv, RequestsOK
  <2>2. ASSUME NEW i \in DOMAIN t, NEW j \in DOMAIN t, t[i].keep, t[j].keep, t[i].from = t[j].from
        PROVE  i = j
    <3>1. i + 1 \in DOMAIN messages /\ j + 1 \in DOMAIN messages
          /\ t[i] = messages[i + 1] /\ t[j] = messages[j + 1] /\ i \in Nat /\ j \in Nat
      BY <1>4, <2>2
    <3>2. i + 1 = j + 1
      BY <2>2, <3>1 DEF EnforcerIInv, RequestsOK
    <3> QED BY <3>1, <3>2
  <2> QED BY <1>1, <1>2, <2>1, <2>2 DEF RequestsOK
<1>13. forced' \subseteq alive'
  BY <1>1, <1>5 DEF EnforcerIInv
<1>14. OthersLetGo'
  <2>1. \A l : m.keep /\ m.list = l => IsRequested(l)
    BY <1>4 DEF IsRequested
  <2>2. ASSUME NEW l \in Lists, owner = Null \/ list[owner] # l, l \in alive,
               l \in forced' \/ IsRequested(l)'
        PROVE  LetGo(l)'
    <3>1. l \in forced \/ IsRequested(l)
      BY <1>3, <1>5, <2>1, <2>2
    <3>2. LetGo(l)
      BY <2>2, <3>1 DEF EnforcerIInv, OthersLetGo
    <3>3. m.list # l \/ m.keep \/ IsRequested(l)'
      BY <1>5, <2>2
    <3> QED BY <1>3, <3>2, <3>3
  <2> QED BY <1>1, <2>2 DEF OthersLetGo
<1>15. OwnKept'
  <2> SUFFICES ASSUME owner # Null, phase[owner] = "STARTED", list[owner] \in alive
               PROVE  /\ call'[owner] = "sent" =>
                            \E i \in DOMAIN t :
                               /\ t[i].keep /\ t[i].from = owner
                               /\ \A j \in DOMAIN t : j > i /\ t[j].list = list[owner] => t[j].keep
                      /\ call'[owner] \in {"none", "granted"} =>
                            /\ list[owner] \in forced'
                            /\ \A i \in DOMAIN t : t[i].list = list[owner] => t[i].keep
    BY <1>1, <1>2 DEF OwnKept
  <2>1. owner \in Enforcers
    BY <1>1 DEF EnforcerTypeOK
  <2>2. call[owner] = "sent" =>
           \E i \in DOMAIN messages :
              /\ messages[i].keep /\ messages[i].from = owner
              /\ \A j \in DOMAIN messages :
                    j > i /\ messages[j].list = list[owner] => messages[j].keep
    BY DEF EnforcerIInv, OwnKept
  <2>3. call[owner] \in {"none", "granted"} =>
           /\ list[owner] \in forced
           /\ \A i \in DOMAIN messages : messages[i].list = list[owner] => messages[i].keep
    BY DEF EnforcerIInv, OwnKept
  <2>4. CASE call'[owner] = "sent"
    <3>1. call[owner] = "sent" /\ ~(m.keep /\ m.from = owner)
      BY <1>6, <1>7, <2>1, <2>4
    <3>2. PICK i \in DOMAIN messages :
             /\ messages[i].keep /\ messages[i].from = owner
             /\ \A j \in DOMAIN messages :
                   j > i /\ messages[j].list = list[owner] => messages[j].keep
      BY <2>2, <3>1
    <3>3. i # 1 /\ i - 1 \in DOMAIN t /\ t[i - 1] = messages[i] /\ i \in Nat
      BY <1>4, <3>1, <3>2
    <3> DEFINE n == i - 1
    <3>4. \A j \in DOMAIN t : j > n /\ t[j].list = list[owner] => t[j].keep
      <4>1. \A j \in DOMAIN t : j > n => j + 1 \in DOMAIN messages /\ t[j] = messages[j + 1] /\ j + 1 > i
        BY <1>4, <3>3
      <4> QED BY <3>2, <4>1
    <3>5. n \in DOMAIN t /\ t[n].keep /\ t[n].from = owner
      BY <3>2, <3>3
    <3> HIDE DEF n
    <3> QED BY <2>4, <3>4, <3>5
  <2>5. CASE call'[owner] \in {"none", "granted"} /\ ~(m.keep /\ m.from = owner)
    <3>1. call[owner] \in {"none", "granted"}
      BY <1>7, <2>1, <2>5
    <3>2. m.list = list[owner] => m.keep
      BY <1>4, <2>3, <3>1
    <3>3. list[owner] \in forced'
      BY <1>5, <2>3, <3>1, <3>2
    <3>4. \A i \in DOMAIN t : t[i].list = list[owner] => t[i].keep
      BY <1>4, <2>3, <3>1
    <3> QED BY <2>5, <3>3, <3>4
  <2>6. CASE call'[owner] \in {"none", "granted"} /\ m.keep /\ m.from = owner
    <3>1. call[owner] = "sent" /\ list[owner] = m.list
      BY <1>6, <2>6
    <3>2. list[owner] \in forced'
      BY <1>1, <1>5, <2>1, <2>6, <3>1 DEF EnforcerTypeOK
    <3>3. PICK i \in DOMAIN messages :
             /\ messages[i].keep /\ messages[i].from = owner
             /\ \A j \in DOMAIN messages :
                   j > i /\ messages[j].list = list[owner] => messages[j].keep
      BY <2>2, <3>1
    <3>4. i = 1
      BY <1>4, <2>6, <3>3 DEF EnforcerIInv, RequestsOK
    <3>5. \A j \in DOMAIN t : j + 1 \in DOMAIN messages /\ t[j] = messages[j + 1] /\ j + 1 > 1
      BY <1>4
    <3>6. \A j \in DOMAIN t : t[j].list = list[owner] => t[j].keep
      BY <3>3, <3>4, <3>5
    <3> QED BY <2>6, <3>2, <3>6
  <2> QED BY <2>4, <2>5, <2>6
<1> QED BY <1>8, <1>10, <1>11, <1>12, <1>13, <1>14, <1>15 DEF EnforcerIInv

\* Nothing is on its way for a list that comes back, and nobody uses it.
LEMMA ReviveKeeps ==
    ASSUME EnforcerIInv, NEW l \in Lists, Revive(l)
    PROVE  EnforcerIInv'
<1>1. /\ EnforcerTypeOK /\ l \notin alive /\ alive' = alive \cup {l}
      /\ \A e \in Enforcers : list[e] = l => phase[e] = "NONE"
      /\ \A i \in DOMAIN messages : messages[i].list # l
      /\ UNCHANGED <<phase, list, self, timer, call, granted, owner, reference, messages, forced>>
  BY DEF EnforcerIInv, Revive, objects
<1>2. EnforcerTypeOK' /\ CallbackHasObject' /\ OrphansAreReachable' /\ EnforcesReference' /\ ObjectsOK'
  BY <1>1 DEF EnforcerIInv, EnforcerTypeOK, CallbackHasObject, OrphansAreReachable, Outstanding,
              EnforcesReference, ObjectsOK
<1>3. RequestsOK' /\ forced' \subseteq alive'
  BY <1>1 DEF EnforcerIInv, RequestsOK
<1>4. OthersLetGo'
  BY <1>1 DEF EnforcerIInv, OthersLetGo, IsRequested, LetGo
<1>5. OwnKept'
  <2>1. owner # Null => owner \in Enforcers /\ list[owner] # l
    BY <1>1 DEF EnforcerIInv, EnforcerTypeOK, ObjectsOK
  <2> QED BY <1>1, <2>1 DEF EnforcerIInv, OwnKept
<1> QED BY <1>2, <1>3, <1>4, <1>5 DEF EnforcerIInv

-----------------------------------------------------------------------------
(* The crawler.                                                            *)

\* What has been said about the lists of others stays true when lists only go, and
\* a message about another list, or one that lets go of its list, is sent.
LEMMA CrawlerLetsGo ==
    ASSUME EnforcerIInv, NEW r \in Lists \cup {Null}, alive' \subseteq alive, forced' \subseteq forced,
           owner # Null => list[owner] = r \/ list[owner] \notin alive',
           \A l \in Lists : l # r /\ LetGo(l) => LetGo(l)',
           \A l \in Lists : l # r /\ IsRequested(l)' => IsRequested(l)
    PROVE  \A l \in Lists :
              l # r /\ l \in alive' /\ (l \in forced' \/ IsRequested(l)') => LetGo(l)'
BY DEF EnforcerIInv, OthersLetGo

\* The crawler gets a new enforcer: for its first reference point, or when the list
\* of its reference point has been replaced.
LEMMA ReplaceKeeps ==
    ASSUME EnforcerIInv, NEW e \in Enforcers, NEW l \in Lists, NEW o \in BOOLEAN,
           Replace(e, l, o), owner = Null \/ ~o,
           reference' = l, l \in alive', alive' \subseteq alive,
           forced' \subseteq forced, forced' \subseteq alive',
           owner # Null => list[owner] \notin alive'
    PROVE  EnforcerIInv'
<1> USE EnforcerNames
<1> DEFINE m == ForceInCache(l, e)
<1>1. /\ EnforcerTypeOK /\ phase[e] = "NONE" /\ owner' = e
      /\ list' = [list EXCEPT ![e] = l] /\ timer' = [timer EXCEPT ![e] = 0]
      /\ call' = [call EXCEPT ![e] = "sent"] /\ granted' = [granted EXCEPT ![e] = 0]
  BY Zenon DEF EnforcerIInv, Replace
<1>2. /\ phase' = [x \in Enforcers |-> IF x = e THEN "STARTED"
                                       ELSE IF x = owner THEN AfterStop(x) ELSE phase[x]]
      /\ self' = [x \in Enforcers |-> IF x = e THEN FALSE
                                      ELSE IF x = owner THEN KeepsItself(x) ELSE self[x]]
  BY Zenon DEF Replace
<1>3. m \in Message /\ m.list = l /\ m.keep /\ m.from = e /\ messages \in Seq(Message)
  BY <1>1 DEF EnforcerTypeOK, Message, ForceInCache
<1>4. StopMessages(o) = <<>>
  BY StopMessagesFacts DEF StopMessages
<1>5. messages' = messages \o <<>> \o <<m>>
  BY <1>4 DEF Replace
<1> HIDE DEF m
<1>6. /\ messages' = Append(messages, m) /\ messages' \in Seq(Message)
      /\ DOMAIN messages = 1 .. Len(messages) /\ Len(messages) \in Nat
      /\ DOMAIN messages' = 1 .. Len(messages) + 1
      /\ \A i \in 1 .. Len(messages) : messages'[i] = messages[i]
      /\ messages'[Len(messages) + 1] = m
  BY <1>3, <1>5, AppendFacts
<1>7. /\ \A x : LetGo(x) /\ l # x => LetGo(x)'
      /\ \A x : IsRequested(x)' => IsRequested(x) \/ l = x
  BY <1>1, <1>3, <1>6, MessageSent
<1>8. ~Outstanding(e) /\ call[e] = "none" /\ e # owner
  BY <1>1 DEF EnforcerIInv, CallbackHasObject, ObjectsOK, EnforcerTypeOK, Outstanding
<1>9. /\ \A x \in Enforcers : x # e =>
            /\ list'[x] = list[x] /\ timer'[x] = timer[x] /\ call'[x] = call[x]
            /\ phase'[x] = IF x = owner /\ phase[x] = "STARTED" THEN "STOPPED"
                           ELSE IF x = owner THEN "NONE" ELSE phase[x]
            /\ self'[x] = IF x = owner THEN phase[x] = "STARTED" ELSE self[x]
      /\ list'[e] = l /\ timer'[e] = 0 /\ call'[e] = "sent" /\ phase'[e] = "STARTED" /\ ~self'[e]
  BY <1>1, <1>2 DEF EnforcerTypeOK, AfterStop, KeepsItself
<1>10. EnforcerTypeOK'
  <2>1. phase' \in [Enforcers -> {"NONE", "CREATED", "STARTED", "STOPPED"}]
    BY <1>1, <1>2 DEF EnforcerTypeOK, AfterStop
  <2>2. self' \in [Enforcers -> BOOLEAN]
    BY <1>1, <1>2 DEF EnforcerTypeOK, KeepsItself
  <2>3. /\ list' \in [Enforcers -> Lists \cup {Null}] /\ timer' \in [Enforcers -> Nat]
        /\ call' \in [Enforcers -> {"none", "sent", "failed", "granted"}]
        /\ granted' \in [Enforcers -> Nat]
    BY <1>1 DEF EnforcerTypeOK
  <2>4. /\ owner' \in Enforcers \cup {Null} /\ reference' \in Lists \cup {Null}
        /\ alive' \subseteq Lists /\ forced' \subseteq Lists
    BY <1>1 DEF EnforcerTypeOK
  <2> QED BY <1>6, <2>1, <2>2, <2>3, <2>4 DEF EnforcerTypeOK, Message
<1>11. \A x \in Enforcers : x # e => (Outstanding(x)' <=> Outstanding(x))
  BY <1>9 DEF Outstanding
<1>12. Outstanding(e)'
  BY <1>9 DEF Outstanding
<1>13. CallbackHasObject'
  BY <1>8, <1>9, <1>11, <1>12 DEF EnforcerIInv, CallbackHasObject, OrphansAreReachable
<1>14. OrphansAreReachable'
  BY <1>1, <1>9, <1>11, <1>12 DEF EnforcerIInv, OrphansAreReachable
<1>15. EnforcesReference' /\ ObjectsOK'
  BY <1>1, <1>9 DEF EnforcerIInv, EnforcesReference, ObjectsOK
<1>16. RequestsOK'
  <2>1. \A i \in DOMAIN messages : messages[i].keep =>
           /\ messages[i].from \in Enforcers /\ messages[i].from # e
           /\ call'[messages[i].from] = "sent"
           /\ list'[messages[i].from] = messages[i].list
    BY <1>8, <1>9 DEF EnforcerIInv, RequestsOK
  <2>2. ASSUME NEW i \in DOMAIN messages', messages'[i].keep
        PROVE  /\ messages'[i].from \in Enforcers /\ call'[messages'[i].from] = "sent"
               /\ list'[messages'[i].from] = messages'[i].list
    BY <1>3, <1>6, <1>9, <2>1, <2>2
  <2>3. ASSUME NEW i \in DOMAIN messages', NEW j \in DOMAIN messages',
               messages'[i].keep, messages'[j].keep, messages'[i].from = messages'[j].from
        PROVE  i = j
    BY <1>3, <1>6, <2>1, <2>3 DEF EnforcerIInv, RequestsOK
  <2> QED BY <2>2, <2>3 DEF RequestsOK
<1>17. OthersLetGo'
  <2>1. \A x \in Lists : x # l /\ x \in alive' /\ (x \in forced' \/ IsRequested(x)') => LetGo(x)'
    BY <1>7, CrawlerLetsGo
  <2> QED BY <1>1, <1>9, <2>1 DEF OthersLetGo
<1>18. OwnKept'
  <2> DEFINE n == Len(messages) + 1
  <2>1. n \in DOMAIN messages' /\ messages'[n].keep /\ messages'[n].from = owner'
        /\ \A j \in DOMAIN messages' : ~(j > n)
    BY <1>1, <1>3, <1>6
  <2>2. call'[owner'] = "sent"
    BY <1>1, <1>9
  <2> HIDE DEF n
  <2> QED BY <2>1, <2>2 DEF OwnKept
<1> QED BY <1>10, <1>13, <1>14, <1>15, <1>16, <1>17, <1>18 DEF EnforcerIInv

\* The crawler lets go of its enforcer, which lives on until its callback comes.
LEMMA StopKeeps ==
    ASSUME EnforcerIInv, NEW o \in BOOLEAN, Stop(o), o \/ list[owner] \notin alive',
           reference' \in Lists \cup {Null}, alive' \subseteq alive,
           forced' \subseteq forced, forced' \subseteq alive'
    PROVE  EnforcerIInv'
<1> USE EnforcerNames
<1>1. /\ EnforcerTypeOK /\ owner # Null /\ owner' = Null /\ UNCHANGED <<list, timer, call, granted>>
      /\ phase' = [phase EXCEPT ![owner] = AfterStop(owner)]
      /\ self' = [self EXCEPT ![owner] = KeepsItself(owner)]
      /\ messages' = messages \o StopMessages(o)
  BY Zenon DEF EnforcerIInv, Stop
<1>2. owner \in Enforcers /\ list[owner] \in Lists
  BY <1>1 DEF EnforcerIInv, EnforcerTypeOK, ObjectsOK
<1>3. /\ \A x \in Enforcers :
            /\ phase'[x] = IF x = owner /\ phase[x] = "STARTED" THEN "STOPPED"
                           ELSE IF x = owner THEN "NONE" ELSE phase[x]
            /\ self'[x] = IF x = owner THEN phase[x] = "STARTED" ELSE self[x]
      /\ phase' \in [Enforcers -> {"NONE", "CREATED", "STARTED", "STOPPED"}]
      /\ self' \in [Enforcers -> BOOLEAN]
  BY <1>1, <1>2 DEF EnforcerTypeOK, AfterStop, KeepsItself
<1>4. CallbackHasObject'
  BY <1>1, <1>2, <1>3 DEF EnforcerIInv, CallbackHasObject, OrphansAreReachable, Outstanding
<1>5. OrphansAreReachable'
  <2>1. \A x \in Enforcers : Outstanding(x)' <=> Outstanding(x)
    BY <1>1 DEF Outstanding
  <2> QED BY <1>1, <1>2, <1>3, <2>1 DEF EnforcerIInv, OrphansAreReachable
<1>6. EnforcesReference' /\ ObjectsOK'
  BY <1>1, <1>2, <1>3 DEF EnforcerIInv, EnforcesReference, ObjectsOK
<1>7. OwnKept'
  BY <1>1 DEF OwnKept
<1>8. CASE ~o
  <2>1. messages' = messages
    <3>1. messages \in Seq(Message) /\ messages' = messages \o <<>>
      BY <1>1, <1>8 DEF StopMessages, EnforcerTypeOK, Message
    <3> QED BY <3>1, ConcatEmptySeq
  <2>2. EnforcerTypeOK'
    BY <1>1, <1>3, <2>1 DEF EnforcerTypeOK
  <2>3. RequestsOK'
    BY <1>1, <2>1 DEF EnforcerIInv, RequestsOK
  <2>4. OthersLetGo'
    BY <1>1, <1>8, <2>1 DEF EnforcerIInv, OthersLetGo, IsRequested, LetGo
  <2> QED BY <1>4, <1>5, <1>6, <1>7, <2>2, <2>3, <2>4 DEF EnforcerIInv
<1>9. CASE o
  <2> DEFINE m == Forget(list[owner])
  <2>1. m \in Message /\ m.list = list[owner] /\ ~m.keep /\ messages \in Seq(Message)
    BY <1>1, <1>2 DEF EnforcerTypeOK, Message, Forget
  <2>2. messages' = messages \o <<m>>
    BY <1>1, <1>9 DEF StopMessages
  <2> HIDE DEF m
  <2>3. /\ messages' = Append(messages, m) /\ messages' \in Seq(Message)
        /\ DOMAIN messages = 1 .. Len(messages) /\ Len(messages) \in Nat
        /\ DOMAIN messages' = 1 .. Len(messages) + 1
        /\ \A i \in 1 .. Len(messages) : messages'[i] = messages[i]
        /\ messages'[Len(messages) + 1] = m
    BY <2>1, <2>2, AppendFacts
  <2>4. /\ \A x : LetGo(x) => LetGo(x)'
        /\ \A x : list[owner] = x => LetGo(x)'
        /\ \A x : IsRequested(x)' => IsRequested(x)
    BY <1>1, <2>1, <2>3, MessageSent
  <2>5. EnforcerTypeOK'
    BY <1>1, <1>3, <2>3 DEF EnforcerTypeOK, Message
  <2>6. RequestsOK'
    <3>1. \A i \in DOMAIN messages' : messages'[i].keep =>
             i \in DOMAIN messages /\ messages'[i] = messages[i]
      BY <2>1, <2>3
    <3> QED BY <1>1, <3>1 DEF EnforcerIInv, RequestsOK
  <2>7. OthersLetGo'
    <3>1. \A x \in Lists : x # list[owner] /\ x \in alive' /\ (x \in forced' \/ IsRequested(x)')
                              => LetGo(x)'
      BY <1>2, <2>4, CrawlerLetsGo
    <3> QED BY <1>1, <2>4, <3>1 DEF OthersLetGo
  <2> QED BY <1>4, <1>5, <1>6, <1>7, <2>5, <2>6, <2>7 DEF EnforcerIInv
<1> QED BY <1>8, <1>9

\* A crawler without enforcer changes nothing here.
LEMMA WithoutEnforcerKeeps ==
    ASSUME EnforcerIInv, owner = Null, UNCHANGED <<objects, owner, messages>>,
           reference' \in Lists \cup {Null}, alive' \subseteq alive,
           forced' \subseteq forced, forced' \subseteq alive'
    PROVE  EnforcerIInv'
<1>1. UNCHANGED <<phase, list, self, timer, call, granted>>
  BY DEF objects
<1>2. EnforcerTypeOK' /\ CallbackHasObject' /\ OrphansAreReachable' /\ EnforcesReference' /\ ObjectsOK'
  BY <1>1 DEF EnforcerIInv, EnforcerTypeOK, CallbackHasObject, OrphansAreReachable, Outstanding,
              EnforcesReference, ObjectsOK
<1>3. RequestsOK' /\ OwnKept'
  BY <1>1 DEF EnforcerIInv, RequestsOK, OwnKept
<1>4. OthersLetGo'
  BY <1>1 DEF EnforcerIInv, OthersLetGo, IsRequested, LetGo
<1> QED BY <1>2, <1>3, <1>4 DEF EnforcerIInv

LEMMA CrawlerKeeps ==
    ASSUME EnforcerIInv, \/ \E e \in Enforcers, l \in Lists : ActivateEnforced(e, l)
                 \/ DeactivateEnforced
                 \/ \E e \in Enforcers, l \in Lists, r \in Lists \cup {Null} :
                       ListInvalidate(e, l, r)
    PROVE  EnforcerIInv'
<1>1. CASE \E e \in Enforcers, l \in Lists : ActivateEnforced(e, l)
  <2>1. PICK e \in Enforcers, l \in Lists : ActivateEnforced(e, l)
    BY <1>1
  <2>2. owner = Null
    BY <2>1 DEF ActivateEnforced, EnforcerIInv, EnforcesReference
  <2>3. /\ reference' = l /\ l \in alive /\ Replace(e, l, TRUE) /\ alive' = alive
        /\ forced' = forced /\ forced \subseteq alive
    BY <2>1 DEF ActivateEnforced, EnforcerIInv
  <2> QED BY <2>2, <2>3, ReplaceKeeps
<1>2. CASE DeactivateEnforced
  <2>1. /\ reference' = Null /\ alive' = alive /\ forced' = forced /\ forced \subseteq alive
        /\ \/ Stop(TRUE)
           \/ owner = Null /\ UNCHANGED <<objects, owner, messages>>
    BY <1>2 DEF DeactivateEnforced, EnforcerIInv
  <2> QED BY <2>1, StopKeeps, WithoutEnforcerKeeps
<1>3. CASE \E e \in Enforcers, l \in Lists, r \in Lists \cup {Null} : ListInvalidate(e, l, r)
  <2>1. PICK e \in Enforcers, l \in Lists, r \in Lists \cup {Null} : ListInvalidate(e, l, r)
    BY <1>3
  <2>2. /\ l = reference /\ r \in (alive \ {l}) \cup {Null} /\ alive' = alive \ {l}
        /\ forced' = forced \ {l} /\ reference' = r /\ forced \subseteq alive
        /\ owner # Null => list[owner] = l
        /\ \/ /\ owner # Null /\ r # Null
              /\ Replace(e, r, FALSE)
           \/ owner # Null /\ Stop(FALSE)
           \/ owner = Null /\ UNCHANGED <<objects, owner, messages>>
    BY <2>1 DEF ListInvalidate, Restarts, EnforcerIInv, EnforcesReference
  <2>3. CASE owner # Null /\ r # Null /\ Replace(e, r, FALSE)
    BY <2>2, <2>3, ReplaceKeeps
  <2>4. CASE owner # Null /\ Stop(FALSE)
    BY <2>2, <2>4, StopKeeps
  <2>5. CASE owner = Null /\ UNCHANGED <<objects, owner, messages>>
    BY <2>2, <2>5, WithoutEnforcerKeeps
  <2> QED BY <2>2, <2>3, <2>4, <2>5
<1> QED BY <1>1, <1>2, <1>3

-----------------------------------------------------------------------------
(* The theorems.                                                           *)

LEMMA InvariantInit == EnforcerInit => EnforcerIInv
<1> SUFFICES ASSUME EnforcerInit PROVE EnforcerIInv
  OBVIOUS
<1>1. EnforcerTypeOK
  BY DEF EnforcerInit, EnforcerTypeOK
<1>2. CallbackHasObject /\ OrphansAreReachable /\ EnforcesReference
  BY DEF EnforcerInit, CallbackHasObject, OrphansAreReachable, EnforcesReference, Outstanding
<1>3. ObjectsOK /\ RequestsOK /\ forced \subseteq alive
  BY DEF EnforcerInit, ObjectsOK, RequestsOK
<1>4. OthersLetGo /\ OwnKept
  BY DEF EnforcerInit, OthersLetGo, IsRequested, OwnKept
<1> QED BY <1>1, <1>2, <1>3, <1>4 DEF EnforcerIInv

LEMMA InvariantStep == EnforcerIInv /\ [EnforcerNext]_enforcer_vars => EnforcerIInv'
<1> SUFFICES ASSUME EnforcerIInv, [EnforcerNext]_enforcer_vars PROVE EnforcerIInv'
  OBVIOUS
<1>1. CASE \/ \E e \in Enforcers, l \in Lists : ActivateEnforced(e, l)
           \/ DeactivateEnforced
           \/ \E e \in Enforcers, l \in Lists, r \in Lists \cup {Null} : ListInvalidate(e, l, r)
  BY <1>1, CrawlerKeeps
<1>2. CASE \E l \in Lists : Revive(l)
  BY <1>2, ReviveKeeps
<1>3. CASE HandleMessage
  BY <1>3, BrokerKeeps
<1>4. CASE \E e \in Enforcers : AnswerArrives(e)
  BY <1>4, AnswerKeeps
<1>5. CASE \E e \in Enforcers : TimerExpires(e)
  BY <1>5, TimerKeeps
<1>6. CASE UNCHANGED enforcer_vars
  <2>1. UNCHANGED <<phase, list, self, timer, call, granted, owner, reference, messages, alive, forced>>
    BY <1>6 DEF enforcer_vars, objects
  <2> QED
    BY <2>1 DEF EnforcerIInv, EnforcerTypeOK, CallbackHasObject, OrphansAreReachable, Outstanding, EnforcesReference,
                ObjectsOK, RequestsOK, OthersLetGo, IsRequested, LetGo, OwnKept
<1> QED BY <1>1, <1>2, <1>3, <1>4, <1>5, <1>6 DEF EnforcerNext

LEMMA KeptOrAskedFor == EnforcerIInv => KeptIffEnforced
<1> SUFFICES ASSUME EnforcerIInv, NEW l \in Lists
             PROVE  /\ (owner # Null /\ list[owner] = l /\ l \in alive /\ phase[owner] = "STARTED"
                        /\ call[owner] # "failed") => Asked(l) \/ (l \in forced /\ ~LetGo(l))
                    /\ (l \in forced /\ (owner = Null \/ list[owner] # l)) => LetGo(l)
  BY DEF KeptIffEnforced
<1>1. ASSUME l \in forced, owner = Null \/ list[owner] # l PROVE LetGo(l)
  BY <1>1 DEF EnforcerIInv, OthersLetGo
<1>2. ASSUME owner # Null, list[owner] = l, l \in alive, phase[owner] = "STARTED",
             call[owner] # "failed"
      PROVE  Asked(l) \/ (l \in forced /\ ~LetGo(l))
  <2>1. owner \in Enforcers /\ call[owner] \in {"none", "sent", "granted"}
    BY <1>2 DEF EnforcerIInv, EnforcerTypeOK
  <2>2. CASE call[owner] = "sent"
    <3>1. PICK i \in DOMAIN messages :
             /\ messages[i].keep /\ messages[i].from = owner
             /\ \A j \in DOMAIN messages :
                   j > i /\ messages[j].list = list[owner] => messages[j].keep
      BY <1>2, <2>2 DEF EnforcerIInv, OwnKept
    <3>2. messages[i].list = l
      BY <1>2, <3>1 DEF EnforcerIInv, RequestsOK
    <3> QED BY <1>2, <3>1, <3>2 DEF Asked
  <2>3. CASE call[owner] \in {"none", "granted"}
    BY <1>2, <2>3 DEF EnforcerIInv, OwnKept, LetGo
  <2> QED BY <2>1, <2>2, <2>3
<1> QED BY <1>1, <1>2

\* Every enforcer that a timer or a D-Bus call refers to exists, an enforcer without
\* owner is released by the callback under way, and the list broker keeps the list of
\* the reference point and no other, for any number of enforcers, lists and messages
\* (cacheenforcer.cc and DirectoryCrawler's use of it).
THEOREM EnforcersAreAccounted == EnforcerSpec => []EnforcersAccounted
<1>1. EnforcerIInv => EnforcersAccounted
  BY KeptOrAskedFor DEF EnforcersAccounted, EnforcerIInv
<1> QED BY <1>1, InvariantInit, InvariantStep, PTL DEF EnforcerSpec

-----------------------------------------------------------------------------
(* When the broker is asked again.                                         *)

\* The expiry times for which compute_enforcer_refresh_seconds() is in time: up to
\* three and a half minutes, and more than half an hour.
InTime(ms) == (ms > 1000 /\ ms <= 210000) \/ ms > 1800000

LEMMA RefreshIsInTime ==
    ASSUME NEW ms \in Nat, InTime(ms)
    PROVE  RefreshSeconds(ms) * 1000 < ms
<1> DEFINE t == (ms * 80) \div 100
           s == t \div 1000
<1>1. /\ t \in Nat /\ t * 100 <= ms * 80 /\ ms * 80 < t * 100 + 100
      /\ s \in Nat /\ s * 1000 <= t
  OBVIOUS
<1>2. RefreshSeconds(ms) = IF s > 0 /\ s <= 1800
                           THEN IF t + 42000 >= ms
                                THEN s
                                ELSE IF (ms - 42000) \div 1000 = 0 THEN 1 ELSE 1800
                           ELSE IF s = 0 THEN 1 ELSE 1800
  BY DEF RefreshSeconds, MaximumSeconds, MaximumDifference
<1> DEFINE late == (ms - 42000) \div 1000 = 0
<1>3. RefreshSeconds(ms) = IF s > 0 /\ s <= 1800
                           THEN IF t + 42000 >= ms THEN s ELSE IF late THEN 1 ELSE 1800
                           ELSE IF s = 0 THEN 1 ELSE 1800
  BY <1>2
<1> HIDE DEF t, s, late
<1>4. CASE ms > 1800000
  BY <1>1, <1>3, <1>4
<1>5. CASE ms > 1000 /\ ms <= 210000
  <2>1. t + 42000 >= ms /\ s <= 1800 /\ s * 1000 < ms
    BY <1>1, <1>5
  <2> QED BY <1>1, <1>3, <1>5, <2>1
<1> QED BY <1>4, <1>5 DEF InTime

\* What is granted is an expiry time when the answer arrives, and the timer stays below.
GrantedOK == \A e \in Enforcers : call[e] = "granted" => granted[e] \in Expiries

LEMMA RefreshStep ==
    ASSUME \A ms \in Expiries : InTime(ms),
           EnforcerIInv, GrantedOK, RefreshBeforeExpiry, [EnforcerNext]_enforcer_vars
    PROVE  GrantedOK' /\ RefreshBeforeExpiry'
<1> USE NumbersAssumption
<1>0. EnforcerTypeOK
  BY DEF EnforcerIInv
<1>1. ASSUME UNCHANGED <<timer, call, granted>> PROVE GrantedOK' /\ RefreshBeforeExpiry'
  BY <1>1 DEF GrantedOK, RefreshBeforeExpiry
<1>2. ASSUME NEW e \in Enforcers, NEW c \in {"none", "sent"}, NEW g \in Nat,
             timer' = [timer EXCEPT ![e] = 0], call' = [call EXCEPT ![e] = c],
             granted' = [granted EXCEPT ![e] = g]
      PROVE  GrantedOK' /\ RefreshBeforeExpiry'
  BY <1>0, <1>2 DEF EnforcerTypeOK, GrantedOK, RefreshBeforeExpiry
<1>3. ASSUME NEW e \in Enforcers, NEW l, NEW o, Replace(e, l, o)
      PROVE  GrantedOK' /\ RefreshBeforeExpiry'
  <2>1. timer' = [timer EXCEPT ![e] = 0] /\ call' = [call EXCEPT ![e] = "sent"]
        /\ granted' = [granted EXCEPT ![e] = 0]
    BY <1>3, Zenon DEF Replace
  <2> QED BY <1>2, <2>1
<1>4. ASSUME NEW e \in Enforcers, NEW l \in Lists, ActivateEnforced(e, l)
      PROVE  GrantedOK' /\ RefreshBeforeExpiry'
  BY <1>3, <1>4 DEF ActivateEnforced
<1>5. CASE DeactivateEnforced
  BY <1>1, <1>5 DEF DeactivateEnforced, Stop, objects
<1>6. ASSUME NEW e \in Enforcers, NEW l \in Lists, NEW r \in Lists \cup {Null},
             ListInvalidate(e, l, r)
      PROVE  GrantedOK' /\ RefreshBeforeExpiry'
  <2>1. \/ Replace(e, r, FALSE)
        \/ Stop(FALSE)
        \/ UNCHANGED objects
    BY <1>6 DEF ListInvalidate
  <2> QED BY <1>1, <1>3, <2>1 DEF Stop, objects
<1>7. ASSUME NEW l \in Lists, Revive(l) PROVE GrantedOK' /\ RefreshBeforeExpiry'
  BY <1>1, <1>7 DEF Revive, objects
<1>8. CASE HandleMessage
  <2> DEFINE m == Head(messages)
             e == m.from
  <2>1. messages \in Seq(Message) /\ messages # <<>> /\ timer' = timer
    BY <1>0, <1>8 DEF EnforcerTypeOK, Message, HandleMessage
  <2>2. m = messages[1] /\ 1 \in DOMAIN messages
    BY <2>1, TailFacts
  <2>3. m.keep => e \in Enforcers /\ call[e] = "sent" /\ timer[e] = 0
    <3>1. m.keep => e \in Enforcers /\ call[e] = "sent"
      BY <2>2 DEF EnforcerIInv, RequestsOK
    <3>2. m.keep => timer[e] \in Nat /\ ~(timer[e] > 0)
      BY <1>0, <3>1 DEF EnforcerTypeOK, EnforcerIInv, CallbackHasObject
    <3> QED BY <3>1, <3>2
  <2>4. \/ /\ m.keep
           /\ \E ms \in Expiries : granted' = [granted EXCEPT ![e] = ms]
           /\ call' = [call EXCEPT ![e] = "granted"]
        \/ /\ m.keep
           /\ call' = [call EXCEPT ![e] = "failed"]
           /\ UNCHANGED granted
        \/ UNCHANGED <<call, granted>>
    BY <1>8 DEF HandleMessage
  <2> HIDE DEF m, e
  <2>5. CASE m.keep
    <3>1. \A x \in Enforcers : x # e =>
             timer'[x] = timer[x] /\ granted'[x] = granted[x] /\ call'[x] = call[x]
      BY <1>0, <2>1, <2>3, <2>4, <2>5 DEF EnforcerTypeOK
    <3>2. ~(timer'[e] > 0) /\ (call'[e] = "granted" => granted'[e] \in Expiries)
      BY <1>0, <2>1, <2>3, <2>4, <2>5 DEF EnforcerTypeOK
    <3> QED BY <2>3, <2>5, <3>1, <3>2 DEF GrantedOK, RefreshBeforeExpiry
  <2>6. CASE ~m.keep
    BY <1>1, <2>1, <2>4, <2>6
  <2> QED BY <2>5, <2>6
<1>9. ASSUME NEW e \in Enforcers, AnswerArrives(e)
      PROVE  GrantedOK' /\ RefreshBeforeExpiry'
  <2>1. call' = [call EXCEPT ![e] = "none"] /\ granted' = granted
        /\ \/ timer' = timer
           \/ call[e] = "granted" /\ timer' = [timer EXCEPT ![e] = RefreshSeconds(granted[e])]
    BY <1>9, Zenon DEF AnswerArrives
  <2> DEFINE r == RefreshSeconds(granted[e])
  <2>2. call[e] = "granted" => r \in Nat /\ r * 1000 < granted[e]
    <3>1. call[e] = "granted" => granted[e] \in Nat /\ InTime(granted[e])
      BY DEF GrantedOK
    <3> QED BY <3>1, RefreshType, RefreshIsInTime
  <2>3. timer' = timer \/ (call[e] = "granted" /\ timer' = [timer EXCEPT ![e] = r])
    BY <2>1
  <2> HIDE DEF r
  <2>4. \A x \in Enforcers : timer'[x] > 0 => timer'[x] * 1000 < granted[x]
    BY <1>0, <2>2, <2>3 DEF EnforcerTypeOK, RefreshBeforeExpiry
  <2>5. GrantedOK'
    BY <1>0, <2>1 DEF EnforcerTypeOK, GrantedOK
  <2> QED BY <2>1, <2>4, <2>5 DEF RefreshBeforeExpiry
<1>10. ASSUME NEW e \in Enforcers, TimerExpires(e)
       PROVE  GrantedOK' /\ RefreshBeforeExpiry'
  <2>1. timer' = [timer EXCEPT ![e] = 0] /\ granted' = granted
        /\ (call' = call \/ call' = [call EXCEPT ![e] = "sent"])
    BY <1>10, Zenon DEF TimerExpires
  <2> QED BY <1>0, <2>1 DEF EnforcerTypeOK, GrantedOK, RefreshBeforeExpiry
<1>11. CASE UNCHANGED enforcer_vars
  BY <1>1, <1>11 DEF enforcer_vars, objects
<1> QED BY <1>4, <1>5, <1>6, <1>7, <1>8, <1>9, <1>10, <1>11 DEF EnforcerNext

\* The list broker is asked again before it drops the list, if it keeps lists for more
\* than a second and for three and a half minutes at most, or for more than half an hour
\* (compute_enforcer_refresh_seconds()).
THEOREM RefreshesAreInTime ==
    ASSUME \A ms \in Expiries : InTime(ms)
    PROVE  EnforcerSpec => []RefreshBeforeExpiry
<1>1. EnforcerInit => GrantedOK /\ RefreshBeforeExpiry
  BY DEF EnforcerInit, GrantedOK, RefreshBeforeExpiry
<1>2. EnforcerIInv /\ GrantedOK /\ RefreshBeforeExpiry /\ [EnforcerNext]_enforcer_vars => GrantedOK' /\ RefreshBeforeExpiry'
  BY RefreshStep
<1> QED BY <1>1, <1>2, InvariantInit, InvariantStep, PTL DEF EnforcerSpec

=============================================================================
