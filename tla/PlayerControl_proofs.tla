------------------------ MODULE PlayerControl_proofs ------------------------
(***************************************************************************)
(* The mirror of the stream player's queue stays consistent, and a handler *)
(* takes its streams from the queue in their order, whatever the order of  *)
(* commands, signals, completed lookups and source changes, and for any    *)
(* number of streams, list items and prefetched streams.                   *)
(*                                                                         *)
(* There is one lemma for each operator on the mirror, and one for each    *)
(* operator on the world of a handler.  A handler is about the mirror it   *)
(* has found: "B" are the streams that may be queued, in their order, when *)
(* it is done, "F" are the IDs that may be in flight.                      *)
(*                                                                         *)
(* The second part is about player control and the crawler's operations:   *)
(* what is steady there is kept by each operator, and by each step.        *)
(*                                                                         *)
(* The third part is about what the stream player knows of our streams: a  *)
(* world is fine up to "X" if each stream that is queued, but for those in *)
(* X, is in the player or is told about by a signal under way.             *)
(***************************************************************************)
EXTENDS PlayerControl, FiniteSetTheorems, SequenceTheorems, TLAPS

\* The elements of t are elements of s, in the same order.
InOrder(s, t) ==
    /\ Elements(t) \subseteq Elements(s)
    /\ \A i, j \in DOMAIN t : i < j =>
          \E m, n \in DOMAIN s : m < n /\ s[m] = t[i] /\ s[n] = t[j]

\* The consistency check together with what the operators on the mirror need,
\* and with what they do to the queue.
Sane(F, B, d) ==
    /\ {"queue", "inflight", "streams", "refs", "intention", "state", "now"} \subseteq DOMAIN d
    /\ d.queue \in Seq(StreamIds)
    /\ d.inflight \in StreamIds \cup {None}
    /\ Consistent(d)
    /\ d.refs \in Nat /\ d.refs <= Cardinality(DOMAIN d.streams)
    /\ None \in F /\ d.inflight \in F
    /\ InOrder(B, d.queue)

\* The same for the world of a handler; "retry" is what the choice of the next
\* stream ID depends on.
SaneWorld(F, B, w) == Sane(F, B, w.d) /\ "retry" \in DOMAIN w.c

(***************************************************************************)
(* Sequences                                                               *)
(***************************************************************************)
(* A sequence without repetitions loses exactly the element taken out.     *)
LEMMA WithoutNthProperties ==
    ASSUME NEW S, NEW s \in Seq(S), NEW k \in DOMAIN s,
           \A i, j \in DOMAIN s : s[i] = s[j] => i = j
    PROVE  /\ WithoutNth(s, k) \in Seq(S)
           /\ Elements(WithoutNth(s, k)) = Elements(s) \ {s[k]}
           /\ \A i, j \in DOMAIN WithoutNth(s, k) :
                  WithoutNth(s, k)[i] = WithoutNth(s, k)[j] => i = j
           /\ InOrder(s, WithoutNth(s, k))
<1> DEFINE t == WithoutNth(s, k)
<1>1. Len(s) \in Nat /\ DOMAIN s = 1 .. Len(s) /\ k \in 1 .. Len(s)
  OBVIOUS
<1>2. t \in [1 .. Len(s) - 1 -> S]
  BY <1>1 DEF WithoutNth
<1>3. t \in Seq(S) /\ DOMAIN t = 1 .. Len(s) - 1
  BY <1>1, <1>2
<1>4. \A i \in DOMAIN t : t[i] = IF i < k THEN s[i] ELSE s[i + 1]
  BY <1>3 DEF WithoutNth
<1>5. Elements(t) \subseteq Elements(s) \ {s[k]}
  BY <1>1, <1>3, <1>4 DEF Elements
<1>6. ASSUME NEW e \in Elements(s) \ {s[k]}
      PROVE  e \in Elements(t)
  <2>1. PICK i \in DOMAIN s : s[i] = e
    BY <1>6 DEF Elements
  <2>2. CASE i < k
    <3>1. i \in DOMAIN t /\ t[i] = e
      BY <1>1, <1>3, <1>4, <2>1, <2>2
    <3> QED
      BY <3>1 DEF Elements
  <2>3. CASE i > k
    <3>1. i - 1 \in DOMAIN t /\ t[i - 1] = e
      BY <1>1, <1>3, <1>4, <2>1, <2>3
    <3> QED
      BY <3>1 DEF Elements
  <2> QED
    BY <1>1, <1>6, <2>1, <2>2, <2>3
<1>7. \A i, j \in DOMAIN t : t[i] = t[j] => i = j
  BY <1>1, <1>3, <1>4
<1>8. ASSUME NEW i \in DOMAIN t, NEW j \in DOMAIN t, i < j
      PROVE  \E m, n \in DOMAIN s : m < n /\ s[m] = t[i] /\ s[n] = t[j]
  <2> DEFINE m == IF i < k THEN i ELSE i + 1
             n == IF j < k THEN j ELSE j + 1
  <2>1. m \in DOMAIN s /\ n \in DOMAIN s /\ m < n /\ s[m] = t[i] /\ s[n] = t[j]
    BY <1>1, <1>3, <1>4, <1>8
  <2> QED
    BY <2>1
<1>9. InOrder(s, t)
  BY <1>5, <1>8 DEF InOrder
<1> QED
  BY <1>3, <1>5, <1>6, <1>7, <1>9

(* The head and the tail of a sequence without repetitions.                *)
LEMMA TailProperties ==
    ASSUME NEW S, NEW s \in Seq(S), s # <<>>,
           \A i, j \in DOMAIN s : s[i] = s[j] => i = j
    PROVE  /\ Head(s) \in S /\ Tail(s) \in Seq(S)
           /\ Elements(s) = {Head(s)} \cup Elements(Tail(s))
           /\ Head(s) \notin Elements(Tail(s))
           /\ \A i, j \in DOMAIN Tail(s) : Tail(s)[i] = Tail(s)[j] => i = j
           /\ InOrder(s, Tail(s))
<1>1. Len(s) \in Nat \ {0} /\ DOMAIN s = 1 .. Len(s)
  OBVIOUS
<1>2. Head(s) = s[1] /\ Tail(s) \in Seq(S)
  OBVIOUS
<1>3. DOMAIN Tail(s) = 1 .. Len(s) - 1 /\ \A i \in DOMAIN Tail(s) : Tail(s)[i] = s[i + 1]
  BY <1>1
<1>4. Elements(Tail(s)) = {s[i] : i \in 2 .. Len(s)}
  <2>1. \A i \in 2 .. Len(s) : i - 1 \in DOMAIN Tail(s) /\ Tail(s)[i - 1] = s[i]
    BY <1>1, <1>3
  <2>2. \A i \in DOMAIN Tail(s) : i + 1 \in 2 .. Len(s) /\ Tail(s)[i] = s[i + 1]
    BY <1>1, <1>3
  <2>3. Elements(Tail(s)) \subseteq {s[i] : i \in 2 .. Len(s)}
    BY <2>2 DEF Elements
  <2>4. {s[i] : i \in 2 .. Len(s)} \subseteq Elements(Tail(s))
    BY <2>1 DEF Elements
  <2> QED
    BY <2>3, <2>4
<1>5. Elements(s) = {s[1]} \cup {s[i] : i \in 2 .. Len(s)}
  BY <1>1 DEF Elements
<1>6. s[1] \notin {s[i] : i \in 2 .. Len(s)}
  BY <1>1
<1>7. \A i, j \in DOMAIN Tail(s) : Tail(s)[i] = Tail(s)[j] => i = j
  BY <1>1, <1>3
<1>8. \A i, j \in DOMAIN Tail(s) : i < j =>
          /\ i + 1 \in DOMAIN s /\ j + 1 \in DOMAIN s /\ i + 1 < j + 1
          /\ s[i + 1] = Tail(s)[i] /\ s[j + 1] = Tail(s)[j]
  BY <1>1, <1>3
<1>9. InOrder(s, Tail(s))
  BY <1>4, <1>5, <1>8 DEF InOrder
<1> QED
  BY <1>1, <1>2, <1>4, <1>5, <1>6, <1>7, <1>9

(* What is left of a sequence without repetitions when its first k         *)
(* elements are gone.                                                      *)
LEMMA SuffixProperties ==
    ASSUME NEW S, NEW s \in Seq(S), NEW k \in 0 .. Len(s),
           \A i, j \in DOMAIN s : s[i] = s[j] => i = j
    PROVE  LET t == SubSeq(s, k + 1, Len(s))
           IN  /\ t \in Seq(S)
               /\ Elements(t) = Elements(s) \ {s[i] : i \in 1 .. k}
               /\ \A i, j \in DOMAIN t : t[i] = t[j] => i = j
               /\ InOrder(s, t)
<1> DEFINE t == SubSeq(s, k + 1, Len(s))
<1>1. Len(s) \in Nat /\ DOMAIN s = 1 .. Len(s) /\ \A i \in DOMAIN s : s[i] \in S
  OBVIOUS
<1>2. t \in Seq(S) /\ Len(t) = Len(s) - k /\ \A i \in 1 .. Len(s) - k : t[i] = s[i + k]
  <2> DEFINE m == k + 1
             n == Len(s)
  <2>1. m \in Int /\ n \in Int /\ \A i \in m .. n : s[i] \in S
    BY <1>1
  <2> HIDE DEF m, n
  <2>2. /\ SubSeq(s, m, n) \in Seq(S)
        /\ Len(SubSeq(s, m, n)) = IF m <= n THEN n - m + 1 ELSE 0
        /\ \A i \in 1 .. n - m + 1 : SubSeq(s, m, n)[i] = s[m + i - 1]
    BY <2>1, SubSeqProperties, SMTT(30)
  <2> USE DEF m, n
  <2>3. Len(t) = Len(s) - k
    <3>1. CASE k = Len(s)
      <4>1. ~(m <= n) /\ Len(s) - k = 0
        BY <1>1, <3>1
      <4> QED
        BY <2>2, <4>1
    <3>2. CASE k < Len(s)
      <4>1. m <= n /\ n - m + 1 = Len(s) - k
        BY <1>1, <3>2
      <4> QED
        BY <2>2, <4>1
    <3>3. \A n1 \in Nat : \A k1 \in 0 .. n1 : k1 = n1 \/ k1 < n1
      OBVIOUS
    <3> QED
      BY Zenon, <1>1, <3>1, <3>2, <3>3
  <2>4. \A i \in 1 .. Len(s) - k : i \in 1 .. n - m + 1 /\ m + i - 1 = i + k
    BY <1>1
  <2>5. \A i \in 1 .. Len(s) - k : t[i] = s[i + k]
    BY <2>2, <2>4
  <2> QED
    BY <2>2, <2>3, <2>5
<1> HIDE DEF t
<1>3. DOMAIN t = 1 .. Len(s) - k /\ \A i \in DOMAIN t : t[i] = s[i + k]
  BY <1>1, <1>2
<1>4. Elements(t) \subseteq Elements(s) \ {s[i] : i \in 1 .. k}
  BY <1>1, <1>3 DEF Elements
<1>5. ASSUME NEW e \in Elements(s) \ {s[i] : i \in 1 .. k}
      PROVE  e \in Elements(t)
  <2>1. PICK i \in DOMAIN s : s[i] = e
    BY <1>5 DEF Elements
  <2>2. i \notin 1 .. k
    BY <1>5, <2>1
  <2>3. i - k \in DOMAIN t /\ t[i - k] = e
    BY <1>1, <1>3, <2>1, <2>2
  <2> QED
    BY <2>3 DEF Elements
<1>6. \A i, j \in DOMAIN t : t[i] = t[j] => i = j
  BY <1>1, <1>3
<1>7. \A i, j \in DOMAIN t : i < j =>
          /\ i + k \in DOMAIN s /\ j + k \in DOMAIN s /\ i + k < j + k
          /\ s[i + k] = t[i] /\ s[j + k] = t[j]
  BY <1>1, <1>3
<1>8. InOrder(s, t)
  BY <1>4, <1>7 DEF InOrder
<1> QED
  BY <1>2, <1>4, <1>5, <1>6, <1>8 DEF t

(* The order is kept by whatever is taken away next.                       *)
LEMMA InOrderTransitive ==
    ASSUME NEW r, NEW s, NEW t, InOrder(r, s), InOrder(s, t)
    PROVE  InOrder(r, t)
BY DEF InOrder

(* Nothing is out of order where there is nothing.                         *)
LEMMA InOrderEmpty ==
    ASSUME NEW s
    PROVE  InOrder(s, <<>>)
BY DEF InOrder, Elements

(* A sequence is in its own order.                                         *)
LEMMA InOrderReflexive ==
    ASSUME NEW s
    PROVE  InOrder(s, s)
BY DEF InOrder

(***************************************************************************)
(* Counting the streams                                                    *)
(***************************************************************************)
(* The IDs of streams are finitely many.                                   *)
LEMMA StreamsFinite ==
    ASSUME NEW d, d.queue \in Seq(StreamIds), d.inflight \in StreamIds \cup {None}, Consistent(d)
    PROVE  /\ DOMAIN d.streams \subseteq StreamIds /\ IsFiniteSet(DOMAIN d.streams)
           /\ Cardinality(DOMAIN d.streams) \in Nat
<1>1. Elements(d.queue) \subseteq StreamIds /\ OnlyId(d.inflight) \subseteq StreamIds
  BY DEF Elements, OnlyId
<1>2. DOMAIN d.streams \subseteq StreamIds
  BY <1>1 DEF Consistent
<1> QED
  BY <1>2, StreamIdsAssumption, FS_Subset, FS_CardinalityType

(* With k elements at most taken away, there are k elements less at most.  *)
LEMMA CountLeft ==
    ASSUME NEW S, IsFiniteSet(S), NEW T, IsFiniteSet(T), NEW k \in Nat, Cardinality(T) <= k,
           NEW n \in Nat, n <= Cardinality(S)
    PROVE  Unref(n, k) \in Nat /\ Unref(n, k) <= Cardinality(S \ T)
<1>1. /\ Cardinality(S \ T) = Cardinality(S) - Cardinality(S \cap T)
      /\ IsFiniteSet(S \ T)
  BY FS_Difference
<1>2. IsFiniteSet(S \cap T) /\ Cardinality(S \cap T) <= Cardinality(T)
  <2>1. S \cap T \subseteq T
    OBVIOUS
  <2> QED
    BY <2>1, FS_Subset
<1>3. /\ Cardinality(S) \in Nat /\ Cardinality(T) \in Nat /\ Cardinality(S \cap T) \in Nat
      /\ Cardinality(S \ T) \in Nat
  BY <1>1, <1>2, FS_CardinalityType
<1> QED
  BY <1>1, <1>2, <1>3 DEF Unref

(* The same for one element at most.                                       *)
LEMMA CountOne ==
    ASSUME NEW S, IsFiniteSet(S), NEW T, T = {} \/ \E x : T = {x},
           NEW n \in Nat, n <= Cardinality(S)
    PROVE  /\ Unref(n, 1) \in Nat /\ Unref(n, 1) <= Cardinality(S \ T)
           /\ Unref(n, 2) \in Nat /\ Unref(n, 2) <= Cardinality(S \ T)
<1>1. IsFiniteSet(T) /\ Cardinality(T) \in Nat /\ Cardinality(T) <= 1
  <2>1. CASE T = {}
    BY <2>1, FS_EmptySet
  <2>2. CASE \E x : T = {x}
    BY <2>2, FS_Singleton
  <2> QED
    BY <2>1, <2>2
<1>2. 1 \in Nat /\ 2 \in Nat /\ Cardinality(T) <= 2
  BY <1>1
<1> QED
  BY <1>1, <1>2, CountLeft

(***************************************************************************)
(* Operators on the mirror                                                 *)
(***************************************************************************)
USE DEF Sane

\* The fields Consistent() depends on; any other field may change.
LEMMA SameQueue ==
    ASSUME NEW F, NEW B, NEW d, NEW e, Sane(F, B, d),
           {"queue", "inflight", "streams", "refs", "intention", "state", "now"} \subseteq DOMAIN e,
           e.queue = d.queue, e.inflight = d.inflight, DOMAIN e.streams = DOMAIN d.streams,
           e.refs \in {d.refs, 0}
    PROVE  Sane(F, B, e)
<1>1. Consistent(e)
  BY DEF Consistent
<1>2. Cardinality(DOMAIN d.streams) \in Nat
  BY StreamsFinite
<1> QED
  BY <1>1, <1>2

(* What becomes of a stream once it is queued is not about the queue.      *)
LEMMA StatesSane ==
    ASSUME NEW F, NEW B, NEW d, Sane(F, B, d)
    PROVE  /\ \A id : Sane(F, B, queued_stream_sent_to_player(d, id))
           /\ \A ids : Sane(F, B, prepare_for_recovery(d, ids))
           /\ \A id : Sane(F, B, requeued(d, id))
<1>1. \A id : Sane(F, B, queued_stream_sent_to_player(d, id))
  <2> SUFFICES ASSUME NEW id, id \in DOMAIN d.streams
               PROVE  Sane(F, B, [d EXCEPT !.streams[id].state = "QUEUED"])
    BY DEF queued_stream_sent_to_player
  <2> QED
    BY SameQueue
<1>2. \A ids : Sane(F, B, prepare_for_recovery(d, ids))
  BY SameQueue DEF prepare_for_recovery
<1>3. \A id : Sane(F, B, requeued(d, id))
  <2> SUFFICES ASSUME NEW id
               PROVE  Sane(F, B, requeued(d, id))
    OBVIOUS
  <2> DEFINE e == prepare_for_recovery(d, DOMAIN d.streams)
  <2>1. Sane(F, B, e)
    BY <1>2
  <2> HIDE DEF e
  <2> QED
    BY <2>1, SameQueue DEF requeued, e
<1> QED
  BY <1>1, <1>2, <1>3

(* A new stream is queued under an ID nobody uses.                         *)
LEMMA AppendSane ==
    ASSUME NEW F, NEW B, NEW d, Sane(F, B, d), NEW id \in StreamIds \ DOMAIN d.streams, NEW pos
    PROVE  Sane(F, Append(d.queue, id), queued_stream_append(d, id, pos))
<1> DEFINE e == queued_stream_append(d, id, pos)
<1>1. /\ e.queue = Append(d.queue, id) /\ e.inflight = d.inflight
      /\ DOMAIN e.streams = DOMAIN d.streams \cup {id}
      /\ DOMAIN e = DOMAIN d
  BY DEF queued_stream_append
<1>2. id \notin Elements(d.queue) /\ id # d.inflight
  BY NoneAssumption DEF Consistent, OnlyId
<1>3. Elements(Append(d.queue, id)) = Elements(d.queue) \cup {id}
  <2>1. /\ Len(d.queue) \in Nat /\ DOMAIN d.queue = 1 .. Len(d.queue)
        /\ DOMAIN Append(d.queue, id) = 1 .. Len(d.queue) + 1
        /\ \A i \in 1 .. Len(d.queue) : Append(d.queue, id)[i] = d.queue[i]
        /\ Append(d.queue, id)[Len(d.queue) + 1] = id
    OBVIOUS
  <2>2. Elements(Append(d.queue, id)) \subseteq Elements(d.queue) \cup {id}
    BY <2>1 DEF Elements
  <2>3. Elements(d.queue) \cup {id} \subseteq Elements(Append(d.queue, id))
    BY <2>1 DEF Elements
  <2> QED
    BY <2>2, <2>3
<1>4. \A i, j \in DOMAIN Append(d.queue, id) :
          Append(d.queue, id)[i] = Append(d.queue, id)[j] => i = j
  BY <1>2 DEF Consistent, Elements
<1>5. Append(d.queue, id) \in Seq(StreamIds)
  OBVIOUS
<1>6. OnlyId(d.inflight) \cup Elements(d.queue) = DOMAIN d.streams
  BY DEF Consistent
<1>7. e.refs \in Nat /\ e.refs <= Cardinality(DOMAIN e.streams)
  <2>1. e.refs = d.refs + 1
    BY DEF queued_stream_append
  <2>2. /\ Cardinality(DOMAIN d.streams \cup {id}) = Cardinality(DOMAIN d.streams) + 1
        /\ Cardinality(DOMAIN d.streams) \in Nat
    BY StreamsFinite, FS_AddElement
  <2> HIDE DEF e
  <2> QED
    BY <1>1, <2>1, <2>2
<1> HIDE DEF e
<1>8. Consistent(e)
  BY <1>1, <1>2, <1>3, <1>4, <1>6 DEF Consistent
<1>9. InOrder(Append(d.queue, id), e.queue)
  BY <1>1, InOrderReflexive
<1> QED
  BY <1>1, <1>5, <1>7, <1>8, <1>9 DEF e

(* All streams are forgotten.                                              *)
LEMMA ClearSane ==
    ASSUME NEW F, NEW B, NEW d, Sane(F, B, d)
    PROVE  Sane(F, B, clear(d))
<1>1. Elements(<<>>) = {} /\ DOMAIN <<>> = {}
  BY DEF Elements
<1>2. OnlyId(None) = {}
  BY DEF OnlyId
<1> DEFINE e == clear(d)
<1>3. /\ e.queue = <<>> /\ e.inflight = None /\ DOMAIN e.streams = {} /\ DOMAIN e = DOMAIN d
      /\ e.refs = Unref(d.refs, Cardinality(DOMAIN d.streams))
  BY DEF clear
<1> HIDE DEF e
<1>4. e.refs \in Nat /\ e.refs <= Cardinality({})
  <2>1. Cardinality({}) = 0 /\ Cardinality(DOMAIN d.streams) \in Nat
    BY StreamsFinite, FS_EmptySet
  <2> QED
    BY <1>3, <2>1 DEF Unref
<1>5. Consistent(e)
  BY <1>1, <1>2, <1>3 DEF Consistent
<1> QED
  BY <1>3, <1>4, <1>5, InOrderEmpty DEF e

(* All streams are forgotten, and what was played as well.                 *)
LEMMA FinishedSane ==
    ASSUME NEW F, NEW B, NEW d, Sane(F, B, d)
    PROVE  Sane(F, B, player_finished_and_idle(d))
<1>1. Sane(F, B, clear(d))
  BY ClearSane
<1> DEFINE c == clear(d)
           e == player_finished_and_idle(d)
<1>2. /\ e.queue = c.queue /\ e.inflight = c.inflight /\ e.streams = c.streams /\ e.refs = 0
      /\ DOMAIN e = DOMAIN c
  BY <1>1 DEF player_finished_and_idle
<1> HIDE DEF c, e
<1>3. Sane(F, B, c)
  BY <1>1 DEF c
<1> QED
  BY <1>2, <1>3, SameQueue DEF e

(* A queued stream is found.                                               *)
LEMMA IndexOfElement ==
    ASSUME NEW s, NEW e \in Elements(s)
    PROVE  IndexOf(s, e) \in DOMAIN s /\ s[IndexOf(s, e)] = e
BY DEF Elements, IndexOf

(* One stream is removed, wherever it is.                                  *)
LEMMA RemoveSane ==
    ASSUME NEW F, NEW B, NEW d, Sane(F, B, d), NEW id
    PROVE  Sane(F, B, queued_stream_remove(d, id))
<1> DEFINE e == queued_stream_remove(d, id)
<1>1. CASE id \notin DOMAIN d.streams
  BY <1>1 DEF queued_stream_remove
<1>2. CASE id \in Elements(d.queue)
  <2> DEFINE k == IndexOf(d.queue, id)
  <2>1. k \in DOMAIN d.queue /\ d.queue[k] = id
    BY <1>2, IndexOfElement
  <2>2. id \in DOMAIN d.streams /\ d.inflight # id
    BY <1>2 DEF Consistent
  <2>3. /\ e.queue = WithoutNth(d.queue, k) /\ e.inflight = d.inflight
        /\ DOMAIN e.streams = DOMAIN d.streams \ {id} /\ DOMAIN e = DOMAIN d
    BY <1>2, <2>2 DEF queued_stream_remove, Without
  <2> HIDE DEF e, k
  <2>4. /\ WithoutNth(d.queue, k) \in Seq(StreamIds)
        /\ Elements(WithoutNth(d.queue, k)) = Elements(d.queue) \ {id}
        /\ \A i, j \in DOMAIN WithoutNth(d.queue, k) :
               WithoutNth(d.queue, k)[i] = WithoutNth(d.queue, k)[j] => i = j
    BY <2>1, WithoutNthProperties DEF Consistent
  <2>5. id \notin OnlyId(d.inflight)
    BY <2>2 DEF OnlyId
  <2>6. Consistent(e)
    BY <2>2, <2>3, <2>4, <2>5 DEF Consistent
  <2>7. InOrder(B, e.queue)
    BY <2>1, <2>3, WithoutNthProperties, InOrderTransitive DEF Consistent
  <2>8. e.refs \in Nat /\ e.refs <= Cardinality(DOMAIN e.streams)
    <3>1. e.refs = Unref(d.refs, 1)
      BY <2>2 DEF queued_stream_remove, e
    <3>2. IsFiniteSet(DOMAIN d.streams) /\ {id} = {id}
      BY StreamsFinite
    <3>3. Unref(d.refs, 1) \in Nat /\ Unref(d.refs, 1) <= Cardinality(DOMAIN d.streams \ {id})
      BY <3>2, CountOne
    <3> QED
      BY <2>3, <3>1, <3>3
  <2> QED
    BY <2>3, <2>4, <2>6, <2>7, <2>8 DEF e
<1>3. CASE id \in DOMAIN d.streams \ Elements(d.queue)
  <2>1. id = d.inflight
    BY <1>3 DEF Consistent, OnlyId
  <2>2. /\ e.queue = d.queue /\ e.inflight = None
        /\ DOMAIN e.streams = DOMAIN d.streams \ {id} /\ DOMAIN e = DOMAIN d
    BY <1>3, <2>1 DEF queued_stream_remove, Without
  <2> HIDE DEF e
  <2>3. None \notin Elements(d.queue)
    BY NoneAssumption DEF Elements
  <2>4. Consistent(e)
    BY <1>3, <2>1, <2>2, <2>3 DEF Consistent, OnlyId
  <2>5. e.refs \in Nat /\ e.refs <= Cardinality(DOMAIN e.streams)
    <3>1. e.refs = Unref(d.refs, 1)
      BY <1>3 DEF queued_stream_remove, e
    <3>2. IsFiniteSet(DOMAIN d.streams)
      BY StreamsFinite
    <3>3. Unref(d.refs, 1) \in Nat /\ Unref(d.refs, 1) <= Cardinality(DOMAIN d.streams \ {id})
      BY <3>2, CountOne
    <3> QED
      BY <2>2, <3>1, <3>3
  <2> QED
    BY <2>2, <2>4, <2>5 DEF e
<1> QED
  BY <1>1, <1>2, <1>3

(* A queued stream is rejected.                                            *)
LEMMA RejectedSane ==
    ASSUME NEW F, NEW B, NEW d, Sane(F, B, d), NEW id
    PROVE  Sane(F, B, player_rejected_unplayed_stream(d, id))
<1> DEFINE e == player_rejected_unplayed_stream(d, id)
<1>1. CASE id \notin Elements(d.queue)
  BY <1>1 DEF player_rejected_unplayed_stream
<1>2. CASE id \in Elements(d.queue)
  <2> DEFINE k == IndexOf(d.queue, id)
  <2>1. k \in DOMAIN d.queue /\ d.queue[k] = id
    BY <1>2, IndexOfElement
  <2>2. id \notin OnlyId(d.inflight)
    BY <1>2 DEF Consistent, OnlyId
  <2>3. /\ e.queue = WithoutNth(d.queue, k) /\ e.inflight = d.inflight
        /\ DOMAIN e.streams = DOMAIN d.streams \ {id} /\ DOMAIN e = DOMAIN d
    BY <1>2 DEF player_rejected_unplayed_stream, Without
  <2> HIDE DEF e, k
  <2>4. /\ WithoutNth(d.queue, k) \in Seq(StreamIds)
        /\ Elements(WithoutNth(d.queue, k)) = Elements(d.queue) \ {id}
        /\ \A i, j \in DOMAIN WithoutNth(d.queue, k) :
               WithoutNth(d.queue, k)[i] = WithoutNth(d.queue, k)[j] => i = j
    BY <2>1, WithoutNthProperties DEF Consistent
  <2>5. Consistent(e)
    BY <2>2, <2>3, <2>4 DEF Consistent
  <2>6. InOrder(B, e.queue)
    BY <2>1, <2>3, WithoutNthProperties, InOrderTransitive DEF Consistent
  <2>7. e.refs \in Nat /\ e.refs <= Cardinality(DOMAIN e.streams)
    <3>1. e.refs = Unref(d.refs, 2)
      BY <1>2 DEF player_rejected_unplayed_stream, e
    <3>2. IsFiniteSet(DOMAIN d.streams)
      BY StreamsFinite
    <3>3. Unref(d.refs, 2) \in Nat /\ Unref(d.refs, 2) <= Cardinality(DOMAIN d.streams \ {id})
      BY <3>2, CountOne
    <3> QED
      BY <2>3, <3>1, <3>3
  <2> QED
    BY <2>3, <2>4, <2>5, <2>6, <2>7 DEF e
<1> QED
  BY <1>1, <1>2

(* The player takes the next stream from the queue.                        *)
LEMMA NextSane ==
    ASSUME NEW F, NEW B, Elements(B) \subseteq F, NEW d, Sane(F, B, d)
    PROVE  Sane(F, B, queued_stream_playing_next(d))
<1>1. CASE d.inflight # None \/ d.queue = <<>>
  BY <1>1 DEF queued_stream_playing_next
<1>2. CASE d.inflight = None /\ d.queue # <<>>
  <2> DEFINE e == queued_stream_playing_next(d)
  <2>1. /\ e.queue = Tail(d.queue) /\ e.inflight = Head(d.queue)
        /\ e.streams = d.streams /\ DOMAIN e = DOMAIN d
    BY <1>2 DEF queued_stream_playing_next
  <2> HIDE DEF e
  <2>2. /\ Head(d.queue) \in StreamIds /\ Tail(d.queue) \in Seq(StreamIds)
        /\ Elements(d.queue) = {Head(d.queue)} \cup Elements(Tail(d.queue))
        /\ Head(d.queue) \notin Elements(Tail(d.queue))
        /\ \A i, j \in DOMAIN Tail(d.queue) : Tail(d.queue)[i] = Tail(d.queue)[j] => i = j
        /\ InOrder(d.queue, Tail(d.queue))
    BY <1>2, TailProperties DEF Consistent
  <2>3. Consistent(e)
    BY <1>2, <2>1, <2>2, NoneAssumption DEF Consistent, OnlyId
  <2>4. InOrder(B, e.queue)
    BY <2>1, <2>2, InOrderTransitive
  <2>5. Head(d.queue) \in F
    BY <2>2 DEF InOrder
  <2>6. e.refs = d.refs
    BY <1>2 DEF queued_stream_playing_next, e
  <2> QED
    BY <2>1, <2>2, <2>3, <2>4, <2>5, <2>6 DEF e
<1> QED
  BY <1>1, <1>2

(* The player plays a stream; an unknown one clears the mirror.            *)
LEMMA ChangedSane ==
    ASSUME NEW F, NEW B, Elements(B) \subseteq F, NEW d, Sane(F, B, d), NEW id, id # None
    PROVE  Sane(F, B, stream_has_changed(d, id))
<1>1. CASE ~in_sync(d, id)
  BY <1>1, ClearSane DEF stream_has_changed, player_failed
<1>2. CASE id = d.inflight
  BY <1>2 DEF stream_has_changed, in_sync
<1>3. CASE in_sync(d, id) /\ id # d.inflight
  <2> DEFINE e == stream_has_changed(d, id)
  <2>1. d.queue # <<>> /\ id = Head(d.queue)
    BY <1>3 DEF in_sync, front
  <2>2. /\ e.queue = Tail(d.queue) /\ e.inflight = Head(d.queue)
        /\ DOMAIN e.streams = DOMAIN d.streams \ OnlyId(d.inflight) /\ DOMAIN e = DOMAIN d
    BY <1>3 DEF stream_has_changed, Without
  <2> HIDE DEF e
  <2>3. /\ Head(d.queue) \in StreamIds /\ Tail(d.queue) \in Seq(StreamIds)
        /\ Elements(d.queue) = {Head(d.queue)} \cup Elements(Tail(d.queue))
        /\ Head(d.queue) \notin Elements(Tail(d.queue))
        /\ \A i, j \in DOMAIN Tail(d.queue) : Tail(d.queue)[i] = Tail(d.queue)[j] => i = j
        /\ InOrder(d.queue, Tail(d.queue))
    BY <2>1, TailProperties DEF Consistent
  <2>4. Consistent(e)
    BY <2>2, <2>3, NoneAssumption DEF Consistent, OnlyId
  <2>5. InOrder(B, e.queue)
    BY <2>2, <2>3, InOrderTransitive
  <2>6. Head(d.queue) \in F
    BY <2>3 DEF InOrder
  <2>7. e.refs \in Nat /\ e.refs <= Cardinality(DOMAIN e.streams)
    <3>1. e.refs = IF d.inflight = None THEN d.refs ELSE Unref(d.refs, 1)
      BY <1>3 DEF stream_has_changed, e
    <3>2. CASE d.inflight = None
      <4>1. DOMAIN e.streams = DOMAIN d.streams
        BY <2>2, <3>2 DEF OnlyId
      <4> QED
        BY <3>1, <3>2, <4>1
    <3>3. CASE d.inflight # None
      <4>1. OnlyId(d.inflight) = {d.inflight}
        BY <3>3 DEF OnlyId
      <4>2. IsFiniteSet(DOMAIN d.streams)
        BY StreamsFinite
      <4>3. /\ Unref(d.refs, 1) \in Nat
            /\ Unref(d.refs, 1) <= Cardinality(DOMAIN d.streams \ {d.inflight})
        BY <4>2, CountOne
      <4> QED
        BY <2>2, <3>1, <3>3, <4>1, <4>3
    <3> QED
      BY <3>2, <3>3
  <2> QED
    BY <2>2, <2>3, <2>4, <2>5, <2>6, <2>7 DEF e
<1> QED
  BY <1>1, <1>2, <1>3

(* The same, and the stream is remembered as the one being played.         *)
LEMMA NowPlayingSane ==
    ASSUME NEW F, NEW B, Elements(B) \subseteq F, NEW d, Sane(F, B, d), NEW id, id # None
    PROVE  Sane(F, B, player_now_playing_stream(d, id))
<1>1. Sane(F, B, stream_has_changed(d, id))
  BY ChangedSane
<1> HIDE DEF Sane
<1> QED
  BY <1>1, SameQueue DEF player_now_playing_stream, Sane

\* The front of the queue which is dropped is not longer than the queue.
LEMMA PrefixFits ==
    ASSUME NEW S, NEW s \in Seq(S), NEW ids
    PROVE  DroppedPrefix(s, ids) \in 0 .. Len(s)
<1> DEFINE K == {j \in DOMAIN s : \A i \in 1 .. j : s[i] \in ids}
<1>1. Len(s) \in Nat /\ DOMAIN s = 1 .. Len(s)
  OBVIOUS
<1>2. IsFiniteSet(1 .. Len(s)) /\ Cardinality(1 .. Len(s)) = Len(s)
  <2> DEFINE n == Len(s)
  <2>1. 1 \in Int /\ n \in Int /\ n \in Nat
    BY <1>1
  <2> HIDE DEF n
  <2>2. IsFiniteSet(1 .. n) /\ Cardinality(1 .. n) = IF 1 > n THEN 0 ELSE n - 1 + 1
    BY <2>1, FS_Interval
  <2>3. Cardinality(1 .. n) = n
    BY <2>1, <2>2
  <2> QED
    BY <2>2, <2>3 DEF n
<1>3. K \subseteq 1 .. Len(s)
  BY <1>1
<1>4. IsFiniteSet(K) /\ Cardinality(K) <= Cardinality(1 .. Len(s))
  BY <1>2, <1>3, FS_Subset
<1>5. Cardinality(K) \in Nat
  BY <1>4, FS_CardinalityType
<1>6. DroppedPrefix(s, ids) = Cardinality(K)
  BY DEF DroppedPrefix
<1> HIDE DEF K
<1> QED
  BY <1>1, <1>2, <1>4, <1>5, <1>6

(* Streams are dropped from the front of the queue.                        *)
LEMMA DroppedSane ==
    ASSUME NEW F, NEW B, NEW d, Sane(F, B, d), NEW ids
    PROVE  Sane(F, B, player_dropped_from_queue(d, ids))
<1> DEFINE k    == DroppedPrefix(d.queue, ids)
           gone == {d.queue[i] : i \in 1 .. k}
           left == ids \ gone
           cut  == [d EXCEPT !.queue   = SubSeq(@, k + 1, Len(@)),
                             !.streams = Without(@, gone),
                             !.refs    = Unref(@, 2 * k)]
           fly  == [cut EXCEPT !.inflight = None,
                               !.streams  = Without(@, OnlyId(d.inflight)),
                               !.refs     = Unref(@, 2)]
<1>1. k \in 0 .. Len(d.queue)
  BY PrefixFits
<1> HIDE DEF k
<1>2. Sane(F, B, cut)
  <2> DEFINE rest == SubSeq(d.queue, k + 1, Len(d.queue))
  <2>1. /\ rest \in Seq(StreamIds)
        /\ Elements(rest) = Elements(d.queue) \ gone
        /\ \A i, j \in DOMAIN rest : rest[i] = rest[j] => i = j
        /\ InOrder(d.queue, rest)
    BY <1>1, SuffixProperties DEF Consistent
  <2>2. gone \subseteq Elements(d.queue)
    BY <1>1 DEF Elements
  <2>3. /\ cut.queue = rest /\ cut.inflight = d.inflight
        /\ DOMAIN cut.streams = DOMAIN d.streams \ gone /\ DOMAIN cut = DOMAIN d
        /\ cut.refs = Unref(d.refs, 2 * k)
    BY DEF Without
  <2>4. IsFiniteSet(gone) /\ Cardinality(gone) <= k
    <3>1. k \in Nat /\ 1 \in Int /\ k \in Int
      BY <1>1
    <3>2. IsFiniteSet(1 .. k) /\ Cardinality(1 .. k) = k
      <4>1. IsFiniteSet(1 .. k) /\ Cardinality(1 .. k) = IF 1 > k THEN 0 ELSE k - 1 + 1
        BY <3>1, FS_Interval
      <4> QED
        BY <3>1, <4>1
    <3> DEFINE at == [i \in 1 .. k |-> d.queue[i]]
    <3>3. at \in [1 .. k -> gone] /\ gone = {at[i] : i \in 1 .. k}
      OBVIOUS
    <3>4. at \in Surjection(1 .. k, gone)
      BY <3>3 DEF Surjection
    <3> HIDE DEF at, gone
    <3> QED
      BY <3>2, <3>4, FS_Surjection
  <2> HIDE DEF cut, rest, gone
  <2>5. Consistent(cut)
    BY <2>1, <2>2, <2>3 DEF Consistent, OnlyId
  <2>6. InOrder(B, cut.queue)
    BY <2>1, <2>3, InOrderTransitive
  <2>7. cut.refs \in Nat /\ cut.refs <= Cardinality(DOMAIN cut.streams)
    <3>1. k \in Nat /\ 2 * k \in Nat /\ Cardinality(gone) \in Nat
      BY <1>1, <2>4, FS_CardinalityType
    <3>2. Cardinality(gone) <= 2 * k
      BY <2>4, <3>1
    <3> QED
      BY <2>3, <2>4, <3>1, <3>2, StreamsFinite, CountLeft
  <2>8. cut.inflight \in F /\ cut.inflight \in StreamIds \cup {None} /\ None \in F
    BY <2>3
  <2> QED
    BY <2>1, <2>3, <2>5, <2>6, <2>7, <2>8
<1>3. Sane(F, B, fly)
  <2>1. /\ fly.queue = cut.queue /\ fly.inflight = None /\ cut.inflight = d.inflight
        /\ DOMAIN fly.streams = DOMAIN cut.streams \ OnlyId(cut.inflight)
        /\ DOMAIN fly = DOMAIN cut /\ fly.refs = Unref(cut.refs, 2)
    BY <1>2 DEF Without
  <2> HIDE DEF cut, fly
  <2>2. None \notin Elements(cut.queue)
    BY <1>2, NoneAssumption DEF Elements
  <2>3. Consistent(fly)
    BY <1>2, <2>1, <2>2 DEF Consistent, OnlyId
  <2>4. fly.refs \in Nat /\ fly.refs <= Cardinality(DOMAIN fly.streams)
    <3> DEFINE T == OnlyId(cut.inflight)
    <3>1. T = {} \/ \E x : T = {x}
      BY DEF OnlyId
    <3>2. IsFiniteSet(DOMAIN cut.streams)
      BY <1>2, StreamsFinite
    <3> HIDE DEF T
    <3>3. /\ Unref(cut.refs, 2) \in Nat
          /\ Unref(cut.refs, 2) <= Cardinality(DOMAIN cut.streams \ T)
      BY <1>2, <3>1, <3>2, CountOne
    <3> QED
      BY <2>1, <3>3 DEF T
  <2> QED
    BY <1>2, <2>1, <2>3, <2>4
<1>4. Sane(F, B, player_failed(cut)) /\ Sane(F, B, player_failed(fly))
  <2> HIDE DEF cut, fly, Sane
  <2> QED
    BY <1>2, <1>3, ClearSane DEF player_failed
<1>5. player_dropped_from_queue(d, ids) \in {cut, fly, player_failed(cut), player_failed(fly)}
  BY DEF player_dropped_from_queue, k
<1> QED
  BY <1>2, <1>3, <1>4, <1>5

HIDE DEF Sane

\* Fields which the consistency of the mirror does not depend on.
LEMMA OtherFieldsSane ==
    ASSUME NEW F, NEW B, NEW d, Sane(F, B, d), NEW i
    PROVE  /\ Sane(F, B, set_intention(d, i))
           /\ Sane(F, B, set_intention_after_skipping(d))
           /\ Sane(F, B, player_has_stopped(d))
           /\ Sane(F, B, [d EXCEPT !.state = i])
<1>1. \A x : Sane(F, B, [d EXCEPT !.intention = x]) /\ Sane(F, B, [d EXCEPT !.state = x])
  BY SameQueue DEF Sane
<1>2. ASSUME NEW x, NEW y
      PROVE  Sane(F, B, [d EXCEPT !.state = x, !.now = y])
  <2> DEFINE e == [d EXCEPT !.state = x, !.now = y]
  <2>1. /\ e.queue = d.queue /\ e.inflight = d.inflight /\ e.streams = d.streams
        /\ e.refs = d.refs /\ DOMAIN e = DOMAIN d
    BY DEF Sane
  <2> HIDE DEF e
  <2>2. Sane(F, B, e)
    BY <2>1, SameQueue DEF Sane
  <2> QED
    BY <2>2 DEF e
<1> QED
  BY Zenon, <1>1, <1>2 DEF set_intention, set_intention_after_skipping, player_has_stopped

(***************************************************************************)
(* Operators on the world                                                  *)
(***************************************************************************)
USE DEF SaneWorld, WithData, WithControl, WithPlayer

\* Commands are sent to the player only.
LEMMA SendKeeps ==
    ASSUME NEW w
    PROVE  /\ send_play_command(w).d = w.d /\ send_play_command(w).c = w.c
           /\ send_pause_command(w).d = w.d /\ send_pause_command(w).c = w.c
           /\ send_stop_command(w).d = w.d /\ send_stop_command(w).c = w.c
BY DEF send_play_command, send_pause_command, send_stop_command

\* Crawler operations leave the mirror alone.
LEMMA CrawlerKeeps ==
    ASSUME NEW c
    PROVE  /\ \A o : DOMAIN cancel(c, o) = DOMAIN c
           /\ DOMAIN drop_delayed(c) = DOMAIN c
           /\ DOMAIN deactivate(c) = DOMAIN c
BY DEF cancel, drop_delayed, deactivate

(* Neither do the operators on player control alone.                       *)
LEMMA ControlKeeps ==
    ASSUME NEW w
    PROVE  /\ \A slot, op : run(w, slot, op).d = w.d /\ DOMAIN run(w, slot, op).c = DOMAIN w.c
           /\ skipper_reset(w).d = w.d /\ DOMAIN skipper_reset(w).c = DOMAIN w.c
           /\ cancel_prefetch_ops(w).d = w.d /\ DOMAIN cancel_prefetch_ops(w).c = DOMAIN w.c
           /\ reset_retry(w).d = w.d /\ DOMAIN reset_retry(w).c = DOMAIN w.c
           /\ \A m, pos : Mark(w, m, pos).d = w.d /\ DOMAIN Mark(w, m, pos).c = DOMAIN w.c
           /\ \A b : Bug(w, b).d = w.d /\ DOMAIN Bug(w, b).c = DOMAIN w.c
           /\ \A who : plug(w, who).d = w.d /\ DOMAIN plug(w, who).c = DOMAIN w.c
           /\ \A b : plug_crawler(w, b).d = w.d /\ DOMAIN plug_crawler(w, b).c = DOMAIN w.c
           /\ \A id : retry(w, id).d = w.d /\ DOMAIN retry(w, id).c = DOMAIN w.c
<1>1. \A slot, op : run(w, slot, op).d = w.d /\ DOMAIN run(w, slot, op).c = DOMAIN w.c
  BY CrawlerKeeps DEF run
<1>2. skipper_reset(w).d = w.d /\ DOMAIN skipper_reset(w).c = DOMAIN w.c
  BY CrawlerKeeps DEF skipper_reset
<1>3. cancel_prefetch_ops(w).d = w.d /\ DOMAIN cancel_prefetch_ops(w).c = DOMAIN w.c
  BY CrawlerKeeps DEF cancel_prefetch_ops
<1>4. reset_retry(w).d = w.d /\ DOMAIN reset_retry(w).c = DOMAIN w.c
  BY DEF reset_retry
<1>5. \A m, pos : Mark(w, m, pos).d = w.d /\ DOMAIN Mark(w, m, pos).c = DOMAIN w.c
  BY DEF Mark
<1>6. \A b : Bug(w, b).d = w.d /\ DOMAIN Bug(w, b).c = DOMAIN w.c
  BY DEF Bug
<1>7. \A who : plug(w, who).d = w.d /\ DOMAIN plug(w, who).c = DOMAIN w.c
  BY DEF plug
<1>8. \A b : plug_crawler(w, b).d = w.d /\ DOMAIN plug_crawler(w, b).c = DOMAIN w.c
  BY CrawlerKeeps DEF plug_crawler
<1>9. \A id : retry(w, id).d = w.d /\ DOMAIN retry(w, id).c = DOMAIN w.c
  BY DEF retry
<1> QED
  BY <1>1, <1>2, <1>3, <1>4, <1>5, <1>6, <1>7, <1>8, <1>9

\* Hence they keep a sane world sane.
LEMMA ControlSane ==
    ASSUME NEW F, NEW B, NEW w, SaneWorld(F, B, w)
    PROVE  /\ \A slot, op : SaneWorld(F, B, run(w, slot, op))
           /\ SaneWorld(F, B, skipper_reset(w))
           /\ SaneWorld(F, B, cancel_prefetch_ops(w))
           /\ SaneWorld(F, B, reset_retry(w))
           /\ \A m, pos : SaneWorld(F, B, Mark(w, m, pos))
           /\ \A b : SaneWorld(F, B, Bug(w, b))
           /\ \A who : SaneWorld(F, B, plug(w, who))
           /\ \A b : SaneWorld(F, B, plug_crawler(w, b))
           /\ \A id : SaneWorld(F, B, retry(w, id))
           /\ SaneWorld(F, B, send_play_command(w))
           /\ SaneWorld(F, B, send_pause_command(w))
           /\ SaneWorld(F, B, send_stop_command(w))
BY ControlKeeps, SendKeeps

(* The intention changes.                                                  *)
LEMMA IntendSane ==
    ASSUME NEW F, NEW B, NEW w, SaneWorld(F, B, w), NEW i
    PROVE  SaneWorld(F, B, Intend(w, i))
BY OtherFieldsSane DEF Intend

(***************************************************************************)
(* Attaching and detaching                                                 *)
(***************************************************************************)
(* The stream player drops what it has queued.                             *)
LEMMA InvalidateSane ==
    ASSUME NEW F, NEW B, NEW w, SaneWorld(F, B, w)
    PROVE  SaneWorld(F, B, invalidate_prefetched_uris(w))
BY DroppedSane DEF invalidate_prefetched_uris

(* Everything queued and played is forgotten.                              *)
LEMMA ForgetSane ==
    ASSUME NEW F, NEW B, NEW w, SaneWorld(F, B, w)
    PROVE  SaneWorld(F, B, forget_queued_and_playing(w))
<1> DEFINE v == invalidate_prefetched_uris(w)
           x == WithData(v, remove_all_queued_streams(v.d))
           y == BugIf(x, v.d.queue # <<>>, "Queues out of sync")
<1>1. SaneWorld(F, B, v)
  BY InvalidateSane
<1>2. SaneWorld(F, B, x)
  BY <1>1, ClearSane DEF remove_all_queued_streams
<1> HIDE DEF v, x
<1>3. SaneWorld(F, B, y)
  BY Zenon, <1>2, ControlSane DEF BugIf
<1>4. forget_queued_and_playing(w) = reset_retry(IF ~attached(w) THEN w ELSE y)
  BY DEF forget_queued_and_playing, v, x
<1> HIDE DEF y
<1> QED
  BY <1>3, <1>4, ControlSane

(* Control is given up, with or without the audio source.                  *)
LEMMA UnplugSane ==
    ASSUME NEW F, NEW B, NEW w, SaneWorld(F, B, w), NEW complete
    PROVE  SaneWorld(F, B, unplug(w, complete))
<1> DEFINE e == WithData(w, IF attached(w) THEN remove_all_queued_streams(w.d) ELSE w.d)
           f == BugIf(e, attached(w) /\ w.d.queue # <<>>, "Queues out of sync")
           v == IF complete THEN reset_retry(f) ELSE forget_queued_and_playing(w)
           i == IF attached(w) THEN Intend(v, "NOTHING") ELSE v
           u == cancel_prefetch_ops(skipper_reset(i))
           x == WithControl(u, [u.c EXCEPT !.dir = "FORWARD"])
<1>1. SaneWorld(F, B, e)
  BY ClearSane DEF remove_all_queued_streams
<1> HIDE DEF e
<1>2. SaneWorld(F, B, v)
  <2>1. SaneWorld(F, B, f)
    BY Zenon, <1>1, ControlSane DEF BugIf
  <2> HIDE DEF f
  <2> QED
    BY <2>1, ForgetSane, ControlSane
<1> HIDE DEF v
<1>3. SaneWorld(F, B, i)
  BY <1>2, IntendSane
<1> HIDE DEF i
<1>4. SaneWorld(F, B, u)
  BY <1>3, ControlSane
<1> HIDE DEF u
<1>5. SaneWorld(F, B, x)
  BY <1>4
<1>6. SaneWorld(F, B, WithControl(x, [deactivate(x.c) EXCEPT !.plugged = "none"]))
  BY <1>5, CrawlerKeeps
<1>7. unplug(w, complete) = IF complete THEN WithControl(x, [deactivate(x.c) EXCEPT !.plugged = "none"]) ELSE x
  BY DEF unplug, u, i, v, e
<1> HIDE DEF x
<1> QED
  BY <1>5, <1>6, <1>7

(* The play view ends playback.                                            *)
LEMMA FinishSane ==
    ASSUME NEW F, NEW B, NEW w, SaneWorld(F, B, w), NEW what, NEW active
    PROVE  SaneWorld(F, B, player_finished(w, what, active))
BY UnplugSane, FinishedSane DEF player_finished

(***************************************************************************)
(* Pushing streams and starting operations                                 *)
(***************************************************************************)
(* A stream is pushed, and the player reports what it has dropped for it.  *)
LEMMA PushSane ==
    ASSUME NEW F, NEW B, NEW w, SaneWorld(F, B, w), NEW id, NEW insert_mode, NEW play_new_mode
    PROVE  SaneWorld(F, B, send_selected_file_uri_to_streamplayer(w, id, insert_mode, play_new_mode))
<1> DEFINE r == IF insert_mode = "APPEND" THEN PushBack(w.p, id) ELSE PushReplacing(w.p, id)
           u == IF has_proxy(w)
                THEN WithData(WithPlayer(w, r.player), player_dropped_from_queue(w.d, r.dropped))
                ELSE w
           x == WithData(u, queued_stream_sent_to_player(u.d, id))
           v == BugIf(x, ~IsFloating(u.d, id), "assertion: stream has been sent")
<1>3. SaneWorld(F, B, u)
  BY DroppedSane
<1> HIDE DEF u
<1>4. SaneWorld(F, B, x)
  BY <1>3, StatesSane
<1> HIDE DEF x
<1>1. SaneWorld(F, B, v)
  BY Zenon, <1>4, ControlSane DEF BugIf
<1>2. send_selected_file_uri_to_streamplayer(w, id, insert_mode, play_new_mode)
          \in {v, send_play_command(v), send_pause_command(v)}
  BY DEF send_selected_file_uri_to_streamplayer, x, u
<1> HIDE DEF v
<1> QED
  BY <1>1, <1>2, ControlSane

\* What is left of the queue, with one new stream at most.
SaneGrown(F, B, w, x) ==
    \/ SaneWorld(F, B, x)
    \/ \E id \in StreamIds \ DOMAIN w.d.streams : SaneWorld(F, Append(w.d.queue, id), x)

(* There is a free ID, hence the new stream has an ID of its own.          *)
LEMMA QueueItemSane ==
    ASSUME NEW F, NEW B, NEW w, SaneWorld(F, B, w), FreeIds(w) # {}, NEW pos, NEW insert_mode, NEW play_new_mode
    PROVE  \E id \in StreamIds \ DOMAIN w.d.streams :
               SaneWorld(F, Append(w.d.queue, id),
                         queue_item_from_op(w, pos, insert_mode, play_new_mode))
<1> DEFINE id == next_stream_id(w)
           v  == IF insert_mode = "REPLACE_ALL" THEN Mark(w, "ABOUT_TO_PLAY", pos) ELSE w
           x  == WithData(v, queued_stream_append(v.d, id, pos))
<1>1. id \in StreamIds \ DOMAIN w.d.streams
  <2>1. id \in FreeIds(w)
    BY DEF next_stream_id
  <2> QED
    BY <2>1 DEF FreeIds
<1> HIDE DEF id
<1>2. SaneWorld(F, B, v) /\ v.d = w.d
  BY ControlSane DEF Mark
<1> HIDE DEF v
<1> DEFINE C == Append(w.d.queue, id)
<1>3. SaneWorld(F, C, x)
  BY <1>1, <1>2, AppendSane
<1> HIDE DEF x, C
<1>4. SaneWorld(F, C, send_selected_file_uri_to_streamplayer(x, id, insert_mode, play_new_mode))
  BY <1>3, PushSane
<1>5. queue_item_from_op(w, pos, insert_mode, play_new_mode)
          = send_selected_file_uri_to_streamplayer(x, id, insert_mode, play_new_mode)
  BY DEF queue_item_from_op, x, v, id
<1> HIDE DEF SaneWorld
<1> QED
  BY <1>1, <1>4, <1>5 DEF C

(* A lookup of the next item is started or refused.                        *)
LEMMA PrefetchSane ==
    ASSUME NEW F, NEW B, NEW w, SaneWorld(F, B, w), NEW from, NEW dir, NEW force, NEW execution
    PROVE  SaneWorld(F, B, start_prefetch_next_item(w, from, dir, force, execution))
<1>1. \A m, pos, slot, op : SaneWorld(F, B, run(Mark(w, m, pos), slot, op))
  <2> HIDE DEF SaneWorld
  <2> QED
    BY ControlSane
<1> HIDE DEF SaneWorld
<1> QED
  BY <1>1 DEF start_prefetch_next_item

(* The skipper accepts a request or refuses it.                            *)
LEMMA SkipperSane ==
    ASSUME NEW F, NEW B, NEW w, SaneWorld(F, B, w), NEW pos
    PROVE  SaneWorld(F, B, forward_request(w, pos)) /\ SaneWorld(F, B, backward_request(w, pos))
<1>1. \A i, m, p, slot, op :
          SaneWorld(F, B, run(Mark(cancel_prefetch_ops(Intend(w, i)), m, p), slot, op))
  <2> SUFFICES ASSUME NEW i, NEW m, NEW p, NEW slot, NEW op
               PROVE  SaneWorld(F, B, run(Mark(cancel_prefetch_ops(Intend(w, i)), m, p), slot, op))
    OBVIOUS
  <2>1. SaneWorld(F, B, Intend(w, i))
    BY IntendSane
  <2> HIDE DEF SaneWorld
  <2>2. SaneWorld(F, B, Mark(cancel_prefetch_ops(Intend(w, i)), m, p))
    BY <2>1, ControlSane
  <2> QED
    BY <2>2, ControlSane
<1> HIDE DEF SaneWorld
<1>2. \A dir : SaneWorld(F, B, run_new_find_next(set_intention_for_skipping(w), pos, dir, w.d.intention))
  BY <1>1 DEF run_new_find_next, set_intention_for_skipping
<1> QED
  BY <1>2 DEF forward_request, backward_request

(* A skip request is accepted or refused, or made to the player.           *)
LEMMA SkipSane ==
    ASSUME NEW F, NEW B, NEW w, SaneWorld(F, B, w)
    PROVE  /\ SaneWorld(F, B, skip_forward_request(w))
           /\ SaneWorld(F, B, skip_backward_request(w))
           /\ \A dir : SaneWorld(F, B, skip_request(w, dir))
           /\ SaneWorld(F, B, rewind_request(w))
<1>1. \A dir : SaneWorld(F, B, WithControl(w, [w.c EXCEPT !.dir = dir]))
  OBVIOUS
<1>2. SaneWorld(F, B, WithPlayer(w, SkipToNext(w.p)))
  OBVIOUS
<1> HIDE DEF SaneWorld
<1>3. SaneWorld(F, B, skip_forward_request(w))
  BY <1>1, <1>2, SkipperSane DEF skip_forward_request, send_simple_skip_forward_command
<1>4. SaneWorld(F, B, skip_backward_request(w))
  BY <1>1, SkipperSane DEF skip_backward_request
<1> QED
  BY <1>3, <1>4 DEF skip_request, rewind_request

(***************************************************************************)
(* Requests                                                                *)
(***************************************************************************)
(* Requests to the stream player, made or not.                             *)
LEMMA RequestsSane ==
    ASSUME NEW F, NEW B, NEW w, SaneWorld(F, B, w)
    PROVE  /\ \A pos : SaneWorld(F, B, play_request(w, pos))
           /\ SaneWorld(F, B, stop_request(w))
           /\ SaneWorld(F, B, pause_request(w))
           /\ \A known : SaneWorld(F, B, enforce_intention(w, known))
<1>1. \A i : SaneWorld(F, B, Intend(w, i))
  BY IntendSane
<1>2. ASSUME NEW pos
      PROVE  SaneWorld(F, B, play_request(w, pos))
  <2> DEFINE v == Intend(w, "LISTENING")
  <2>1. SaneWorld(F, B, v)
    BY <1>1
  <2>2. play_request(w, pos) \in {w, v, WithControl(v, [v.c EXCEPT !.saved = pos]),
                                  run(v, "next", Op("play", pos, "FORWARD")), send_play_command(v)}
    BY DEF play_request
  <2>3. SaneWorld(F, B, WithControl(v, [v.c EXCEPT !.saved = pos]))
    BY <2>1
  <2> HIDE DEF v, SaneWorld
  <2> QED
    BY <2>1, <2>2, <2>3, ControlSane
<1>3. SaneWorld(F, B, stop_request(w)) /\ SaneWorld(F, B, pause_request(w))
  BY <1>1, ControlSane DEF stop_request, pause_request
<1>4. ASSUME NEW known
      PROVE  SaneWorld(F, B, enforce_intention(w, known))
  <2>1. enforce_intention(w, known) \in {w, send_stop_command(w), send_pause_command(w), send_play_command(w)}
    BY DEF enforce_intention
  <2> QED
    BY <2>1, ControlSane
<1> QED
  BY <1>2, <1>3, <1>4

(* An item of the list is to be played.                                    *)
LEMMA PrepareSane ==
    ASSUME NEW F, NEW B, NEW w, SaneWorld(F, B, w), NEW pos
    PROVE  SaneWorld(F, B, prepare_for_playing(w, pos))
<1>1. SaneWorld(F, B, unplug(stop_request(w), TRUE))
  BY RequestsSane, UnplugSane
<1> DEFINE v == IF own(w) THEN w ELSE plug(unplug(stop_request(w), TRUE), "own")
<1> HIDE DEF SaneWorld
<1>2. SaneWorld(F, B, v)
  BY Zenon, <1>1, ControlSane
<1> HIDE DEF v
<1>3. SaneWorld(F, B, plug_crawler(v, TRUE))
  BY Zenon, <1>2, ControlSane
<1> QED
  BY Zenon, <1>3, RequestsSane DEF prepare_for_playing, v

(***************************************************************************)
(* Completed operations                                                    *)
(***************************************************************************)
(* The item to be played has been found, or not.                           *)
LEMMA PlayItemSane ==
    ASSUME NEW F, NEW B, NEW w0, SaneWorld(F, B, w0), NEW o, NEW op
    PROVE  SaneWorld(F, B, found_item_for_playing(w0, o, op))
<1> DEFINE u == BugIf(w0, w0.c.next \notin {None, o}, "assertion")
           w == WithControl(u, [u.c EXCEPT !.next = None])
           v == skipper_reset(w)
<1>1. SaneWorld(F, B, u)
  BY ControlSane DEF BugIf
<1> HIDE DEF u
<1>2. SaneWorld(F, B, w)
  BY <1>1
<1> HIDE DEF w
<1>3. SaneWorld(F, B, v)
  BY <1>2, ControlSane
<1> HIDE DEF v
<1>4. SaneWorld(F, B, player_finished(WithData(v, set_intention_after_skipping(v.d)), "PLAYING", TRUE))
  <2>1. SaneWorld(F, B, WithData(v, set_intention_after_skipping(v.d)))
    BY <1>3, OtherFieldsSane
  <2> QED
    BY <2>1, FinishSane
<1>5. \A m, pos, slot, x : SaneWorld(F, B, run(Mark(w, m, pos), slot, x))
  <2> HIDE DEF SaneWorld
  <2> QED
    BY <1>2, ControlSane
<1> HIDE DEF SaneWorld
<1> QED
  BY Zenon, <1>2, <1>4, <1>5 DEF found_item_for_playing, v, w, u

(* The URIs of the item to be played have been found, or not.              *)
LEMMA PlayUrisSane ==
    ASSUME NEW F, NEW B, NEW w0, SaneWorld(F, B, w0), FreeIds(w0) # {}, NEW o, NEW op
    PROVE  SaneGrown(F, B, w0, found_item_uris_for_playing(w0, o, op))
<1> DEFINE w == IF w0.c.uris = o THEN WithControl(w0, [w0.c EXCEPT !.uris = None]) ELSE w0
<1>1. SaneWorld(F, B, w) /\ w.d = w0.d
  OBVIOUS
<1>2. FreeIds(w) # {}
  BY DEF FreeIds
<1> HIDE DEF w, SaneWorld
<1>3. \A pos, im, pm : SaneGrown(F, B, w0, queue_item_from_op(w, pos, im, pm))
  BY <1>1, <1>2, QueueItemSane DEF SaneGrown
<1>4. SaneGrown(F, B, w0,
          start_prefetch_next_item(queue_item_from_op(w, op.pos, "REPLACE_ALL", "PAUSE_IF_IDLE"),
                                   "ABOUT_TO_PLAY", "FORWARD", FALSE, "running"))
  BY <1>3, PrefetchSane DEF SaneGrown
<1>5. \A x : SaneWorld(F, B, x) => SaneGrown(F, B, w0, x)
  BY DEF SaneGrown
<1>6. SaneWorld(F, B, skip_request(w, op.dir))
  BY <1>1, SkipSane
<1> HIDE DEF SaneGrown
<1> QED
  BY <1>1, <1>3, <1>4, <1>5, <1>6 DEF found_item_uris_for_playing, w

(* The next item has been found, or not.                                   *)
LEMMA PrefetchedItemSane ==
    ASSUME NEW F, NEW B, NEW w0, SaneWorld(F, B, w0), NEW o, NEW op
    PROVE  SaneWorld(F, B, found_prefetched_item(w0, o, op))
<1> DEFINE u == BugIf(w0, w0.c.next # o, "assertion")
           w == WithControl(u, [u.c EXCEPT !.next = None])
           v == WithControl(w, [w.c EXCEPT !.dir = "FORWARD"])
<1>1. SaneWorld(F, B, u)
  BY ControlSane DEF BugIf
<1> HIDE DEF u
<1>2. SaneWorld(F, B, w)
  BY <1>1
<1> HIDE DEF w
<1>3. SaneWorld(F, B, v)
  BY <1>2
<1> HIDE DEF v, SaneWorld
<1>4. SaneWorld(F, B, start_prefetch_next_item(v, "PREFETCH_CURSOR", "FORWARD", FALSE, "delayed"))
  BY Zenon, <1>3, PrefetchSane
<1>5. SaneWorld(F, B, player_finished(w, "PREFETCHING", TRUE))
  BY Zenon, <1>2, FinishSane
<1>6. \A m, pos, slot, x : SaneWorld(F, B, run(Mark(w, m, pos), slot, x))
  BY <1>2, ControlSane
<1> QED
  BY <1>2, <1>4, <1>5, <1>6 DEF found_prefetched_item, v, w, u

(* The URIs of the next item have been found, or not.                      *)
LEMMA PrefetchedUrisSane ==
    ASSUME NEW F, NEW B, NEW w0, SaneWorld(F, B, w0), FreeIds(w0) # {}, NEW o, NEW op
    PROVE  SaneGrown(F, B, w0, found_prefetched_item_uris(w0, o, op))
<1> DEFINE w == IF w0.c.uris = o THEN WithControl(w0, [w0.c EXCEPT !.uris = None]) ELSE w0
<1>1. SaneWorld(F, B, w) /\ w.d = w0.d
  OBVIOUS
<1>2. FreeIds(w) # {}
  BY DEF FreeIds
<1> HIDE DEF w, SaneWorld
<1>3. \A pos, im, pm : SaneGrown(F, B, w0, queue_item_from_op(w, pos, im, pm))
  BY <1>1, <1>2, QueueItemSane DEF SaneGrown
<1>4. \A pos, im, pm, from, dir, execution :
          SaneGrown(F, B, w0, start_prefetch_next_item(queue_item_from_op(w, pos, im, pm),
                                                       from, dir, FALSE, execution))
  BY <1>3, PrefetchSane DEF SaneGrown
<1>5. \A from, dir, force, execution :
          SaneGrown(F, B, w0, start_prefetch_next_item(w, from, dir, force, execution))
  BY <1>1, PrefetchSane DEF SaneGrown
<1>6. SaneGrown(F, B, w0, w) /\ SaneGrown(F, B, w0, w0)
  BY <1>1 DEF SaneGrown
<1> HIDE DEF SaneGrown
<1> QED
  BY <1>4, <1>5, <1>6 DEF found_prefetched_item_uris, w

(* The item to skip to has been found, or not.                             *)
LEMMA SkippedSane ==
    ASSUME NEW F, NEW B, NEW w0, SaneWorld(F, B, w0), NEW o, NEW op
    PROVE  SaneWorld(F, B, found_or_failed(w0, o, op))
<1> DEFINE w == WithControl(w0, [w0.c EXCEPT !.skip = None])
           v == Intend(w, op.prev)
           x == WithControl(v, [cancel(v.c, v.c.next) EXCEPT !.next = None])
<1>1. SaneWorld(F, B, w)
  OBVIOUS
<1> HIDE DEF w
<1>2. SaneWorld(F, B, v)
  BY <1>1, IntendSane
<1> HIDE DEF v
<1>3. SaneWorld(F, B, x)
  BY <1>2, CrawlerKeeps
<1> HIDE DEF x, SaneWorld
<1>4. SaneWorld(F, B, found_item_for_playing(x, o, op))
  BY <1>3, PlayItemSane
<1>5. \A b : SaneWorld(F, B, Bug(w, b)) /\ SaneWorld(F, B, Bug(v, b))
  BY <1>1, <1>2, ControlSane
<1>6. \A slot, y : SaneWorld(F, B, run(v, slot, y))
  BY <1>2, ControlSane
<1> QED
  BY <1>1, <1>4, <1>5, <1>6 DEF found_or_failed, x, v, w

(* The completion of any operation.                                        *)
LEMMA CompletedSane ==
    ASSUME NEW F, NEW B, NEW w, SaneWorld(F, B, w), FreeIds(w) # {}, NEW o, NEW op
    PROVE  SaneGrown(F, B, w, completed(w, o, op))
<1> HIDE DEF SaneWorld
<1>1. \A x : SaneWorld(F, B, x) => SaneGrown(F, B, w, x)
  BY DEF SaneGrown
<1>2. /\ SaneWorld(F, B, found_item_for_playing(w, o, op))
      /\ SaneWorld(F, B, found_prefetched_item(w, o, op))
      /\ SaneWorld(F, B, found_or_failed(w, o, op))
      /\ SaneWorld(F, B, skipper_reset(w))
  BY PlayItemSane, PrefetchedItemSane, SkippedSane, ControlSane
<1>3. /\ SaneGrown(F, B, w, found_item_uris_for_playing(w, o, op))
      /\ SaneGrown(F, B, w, found_prefetched_item_uris(w, o, op))
  BY PlayUrisSane, PrefetchedUrisSane
<1> HIDE DEF SaneGrown
<1> QED
  BY <1>1, <1>2, <1>3 DEF completed

(***************************************************************************)
(* Signals of the player                                                   *)
(***************************************************************************)
(* A stream is pushed again.                                               *)
LEMMA ReplaySane ==
    ASSUME NEW F, NEW B, NEW w, SaneWorld(F, B, w), NEW id, NEW mode
    PROVE  SaneWorld(F, B, replay(w, id, mode).w)
<1> DEFINE x == WithData(w, prepare_for_recovery(w.d, {id}))
           u == send_selected_file_uri_to_streamplayer(x, id, "REPLACE_ALL", mode)
           y == WithData(u, requeued(u.d, id))
<1>1. SaneWorld(F, B, x)
  BY StatesSane
<1> HIDE DEF x
<1>2. SaneWorld(F, B, u)
  BY <1>1, PushSane
<1> HIDE DEF u
<1>3. SaneWorld(F, B, y)
  BY <1>2, StatesSane
<1> HIDE DEF y
<1>4. \A pp : SaneWorld(F, B, WithPlayer(y, pp))
  BY <1>3
<1> HIDE DEF SaneWorld, WithPlayer, WithData
<1>5. SaneWorld(F, B, send_others_again(u, id))
  BY <1>3, <1>4 DEF send_others_again, y
<1>6. SaneWorld(F, B, replayed(u, id).w)
  BY <1>2, <1>5 DEF replayed, Reaction
<1> QED
  BY <1>6 DEF replay, Reaction, x, u

(* A failed stream is skipped.                                             *)
LEMMA FailedStreamSane ==
    ASSUME NEW F, NEW B, NEW w0, SaneWorld(F, B, w0), NEW s, NEW pausing
    PROVE  SaneWorld(F, B, skip_failed_stream(w0, s, pausing).w)
<1> DEFINE w == reset_retry(WithData(w0, queued_stream_remove(w0.d, s.id)))
           next == WithControl(w, [w.c EXCEPT !.marks["ABOUT_TO_PLAY"] =
                                    IF front(w.d) \in DOMAIN w.d.streams THEN w.d.streams[front(w.d)].pos ELSE @])
<1>1. SaneWorld(F, B, w)
  <2>1. SaneWorld(F, B, WithData(w0, queued_stream_remove(w0.d, s.id)))
    BY RemoveSane
  <2> HIDE DEF SaneWorld
  <2> QED
    BY <2>1, ControlSane
<1> HIDE DEF w
<1>2. SaneWorld(F, B, next)
  BY <1>1
<1> HIDE DEF next, SaneWorld
<1>3. \A from, dir, force, execution : SaneWorld(F, B, start_prefetch_next_item(w, from, dir, force, execution))
  BY <1>1, PrefetchSane
<1>4. \A b : SaneWorld(F, B, Bug(w, b))
  BY <1>1, ControlSane
<1>5. SaneWorld(F, B, send_pause_command(next)) /\ SaneWorld(F, B, send_play_command(next))
  BY <1>2, ControlSane
<1> QED
  BY Zenon, <1>1, <1>3, <1>4, <1>5 DEF skip_failed_stream, Reaction, next, w

(* A failed stream is tried again, or skipped.                             *)
LEMMA RetrySane ==
    ASSUME NEW F, NEW B, NEW w, SaneWorld(F, B, w), NEW s, NEW pausing
    PROVE  SaneWorld(F, B, retry_or_skip(w, s, pausing).w)
<1> DEFINE tracked == WithControl(w, [w.c EXCEPT !.retry.id = s.id])
<1>1. SaneWorld(F, B, tracked)
  OBVIOUS
<1>2. ASSUME NEW mode
      PROVE  SaneWorld(F, B, replay(retry(w, s.id), s.id, mode).w)
  <2>1. SaneWorld(F, B, retry(w, s.id))
    BY ControlSane
  <2> HIDE DEF SaneWorld
  <2> QED
    BY <2>1, ReplaySane
<1> HIDE DEF tracked
<1>3. /\ SaneWorld(F, B, skip_failed_stream(w, s, pausing).w)
      /\ SaneWorld(F, B, skip_failed_stream(tracked, s, pausing).w)
  BY <1>1, FailedStreamSane
<1> HIDE DEF SaneWorld
<1>4. ASSUME NEW again, SaneWorld(F, B, again.w)
      PROVE  SaneWorld(F, B, retried(again, s, pausing).w)
  BY <1>4, FailedStreamSane DEF retried, Reaction
<1> QED
  BY <1>2, <1>3, <1>4 DEF retry_or_skip, tracked

(* The notifications of player control about a stopped stream.             *)
LEMMA StopSane ==
    ASSUME NEW F, NEW B, NEW w, SaneWorld(F, B, w)
    PROVE  /\ \A id : SaneWorld(F, B, stop_notification_ok(w, id).w)
           /\ \A s : SaneWorld(F, B, stop_notification_with_error(w, s).w)
<1>1. ASSUME NEW id
      PROVE  SaneWorld(F, B, stop_notification_ok(w, id).w)
  <2> DEFINE v == reset_retry(WithData(w, player_has_stopped(w.d)))
  <2>1. SaneWorld(F, B, v)
    <3>1. SaneWorld(F, B, WithData(w, player_has_stopped(w.d)))
      BY OtherFieldsSane
    <3> HIDE DEF SaneWorld
    <3> QED
      BY <3>1, ControlSane
  <2> HIDE DEF v, SaneWorld
  <2>2. SaneWorld(F, B, send_play_command(v))
    BY <2>1, ControlSane
  <2> QED
    BY <2>1, <2>2 DEF stop_notification_ok, Reaction, v
<1>2. ASSUME NEW s
      PROVE  SaneWorld(F, B, stop_notification_with_error(w, s).w)
  <2> HIDE DEF SaneWorld
  <2>1. \A pausing : SaneWorld(F, B, retry_or_skip(w, s, pausing).w)
    BY RetrySane
  <2> QED
    BY <2>1 DEF stop_notification_with_error, Reaction
<1> QED
  BY <1>1, <1>2

(* The signal for a stopped stream, and the reaction of the play view.     *)
LEMMA StoppedSane ==
    ASSUME NEW F, NEW B, Elements(B) \subseteq F, NEW w, SaneWorld(F, B, w), NEW s
    PROVE  SaneWorld(F, B, stream_stopped(w, s))
<1> DEFINE v == WithData(w, player_has_stopped(player_dropped_from_queue(w.d, s.dropped)))
           r == IF s.err = "" THEN stop_notification_ok(v, s.id) ELSE stop_notification_with_error(v, s)
<1>1. SaneWorld(F, B, v)
  BY DroppedSane, OtherFieldsSane
<1> HIDE DEF v
<1>2. SaneWorld(F, B, r.w)
  BY Zenon, <1>1, StopSane
<1> HIDE DEF r
<1>3. SaneWorld(F, B, react(r))
  <2>1. \A what, active : SaneWorld(F, B, player_finished(r.w, what, active))
    BY <1>2, FinishSane
  <2>2. SaneWorld(F, B, WithData(r.w, queued_stream_playing_next(r.w.d)))
    BY <1>2, NextSane
  <2> HIDE DEF SaneWorld
  <2> QED
    BY <1>2, <2>1, <2>2 DEF react
<1> QED
  BY Zenon, <1>3 DEF stream_stopped, r, v

(* The notification of player control about a stream being played.         *)
LEMMA NotifiedSane ==
    ASSUME NEW F, NEW B, NEW w0, SaneWorld(F, B, w0), NEW id, NEW is_new
    PROVE  SaneWorld(F, B, play_notification(w0, id, is_new))
<1> DEFINE w == WithControl(w0, [w0.c EXCEPT !.retry.id = id])
           backward == w.c.handle /\ is_new /\ w.c.dir = "BACKWARD"
           v == IF backward
                THEN invalidate_prefetched_uris(WithControl(w, [w.c EXCEPT !.dir = "FORWARD"]))
                ELSE w
<1>1. SaneWorld(F, B, w)
  OBVIOUS
<1> HIDE DEF w
<1>2. SaneWorld(F, B, v)
  <2>1. SaneWorld(F, B, WithControl(w, [w.c EXCEPT !.dir = "FORWARD"]))
    BY <1>1
  <2> QED
    BY <1>1, <2>1, InvalidateSane
<1> HIDE DEF v
<1>3. \A marks : SaneWorld(F, B, WithControl(v, [v.c EXCEPT !.marks = marks]))
  BY <1>2
<1> HIDE DEF SaneWorld
<1>4. \A marks : SaneWorld(F, B, enforce_intention(WithControl(v, [v.c EXCEPT !.marks = marks]), "playing"))
  BY <1>3, RequestsSane
<1> HIDE DEF WithControl
<1> QED
  BY Zenon, <1>1, <1>4 DEF play_notification, v, w

(* The signal for a new stream; its ID is valid.                           *)
LEMMA NowPlayingSignalSane ==
    ASSUME NEW F, NEW B, Elements(B) \subseteq F, NEW w, SaneWorld(F, B, w), NEW s, s.id # None
    PROVE  SaneWorld(F, B, now_playing(w, s))
<1> DEFINE switched == w.d.now # s.id
           d == player_dropped_from_queue(w.d, s.dropped)
           v == IF switched THEN WithData(w, set_intention(player_now_playing_stream(d, s.id), "LISTENING"))
                ELSE WithData(w, d)
           x == play_notification(v, s.id, switched)
<1>1. Sane(F, B, d)
  BY DroppedSane
<1> HIDE DEF d
<1>2. SaneWorld(F, B, v)
  BY <1>1, NowPlayingSane, OtherFieldsSane
<1> HIDE DEF v
<1>3. SaneWorld(F, B, x)
  BY <1>2, NotifiedSane
<1> HIDE DEF x
<1>4. SaneWorld(F, B, start_prefetch_next_item(x, "PREFETCH_CURSOR", "FORWARD", FALSE, "delayed"))
  BY <1>3, PrefetchSane
<1> HIDE DEF SaneWorld
<1> QED
  BY <1>3, <1>4 DEF now_playing, x, v, d

(* Any signal of the player.                                               *)
LEMMA SignalSane ==
    ASSUME NEW F, NEW B, Elements(B) \subseteq F, NEW w, SaneWorld(F, B, w), NEW s
    PROVE  SaneWorld(F, B, handle_signal(w, s))
<1>1. s.id # None => SaneWorld(F, B, now_playing(w, s))
  BY NowPlayingSignalSane
<1>2. SaneWorld(F, B, stream_stopped(w, s))
  BY StoppedSane
<1>3. SaneWorld(F, B, stream_paused(w, s))
  <2> DEFINE v == WithControl(WithData(w, [w.d EXCEPT !.state = "paused"]), [w.c EXCEPT !.retry.id = s.id])
  <2>1. SaneWorld(F, B, v)
    BY OtherFieldsSane
  <2> HIDE DEF v, SaneWorld
  <2> QED
    BY <2>1, RequestsSane DEF stream_paused, v
<1>4. SaneWorld(F, B, stream_unpaused(w, s))
  <2>1. SaneWorld(F, B, WithData(w, [w.d EXCEPT !.state = "playing"]))
    BY OtherFieldsSane
  <2> QED
    BY <2>1, NotifiedSane DEF stream_unpaused
<1>5. SaneWorld(F, B, WithData(w, player_rejected_unplayed_stream(w.d, s.id)))
  BY RejectedSane
<1> HIDE DEF SaneWorld
<1> QED
  BY <1>1, <1>2, <1>3, <1>4, <1>5 DEF handle_signal

(***************************************************************************)
(* Selection of audio sources                                              *)
(***************************************************************************)
(* Our source has been selected.                                           *)
LEMMA SelectedSane ==
    ASSUME NEW F, NEW B, NEW w0, SaneWorld(F, B, w0), NEW on_hold
    PROVE  SaneWorld(F, B, source_selected(w0, on_hold))
<1> DEFINE w == WithControl(w0, [w0.c EXCEPT !.source = IF @ = "REQUESTED" THEN "SELECTED" ELSE @,
                                             !.hold = on_hold])
           v == WithControl(w, [w.c EXCEPT !.saved = None])
<1>1. SaneWorld(F, B, w)
  OBVIOUS
<1> HIDE DEF w
<1>2. SaneWorld(F, B, v)
  BY <1>1
<1> HIDE DEF v, SaneWorld
<1> QED
  BY <1>1, <1>2, RequestsSane DEF source_selected, v, w

(* Our source has been selected although it was not plugged.               *)
LEMMA ActivationSane ==
    ASSUME NEW F, NEW B, NEW w0, SaneWorld(F, B, w0)
    PROVE  SaneWorld(F, B, fresh_activation(w0))
<1> DEFINE w == IF attached(w0) THEN unplug(w0, TRUE) ELSE w0
           v == WithControl(w, [w.c EXCEPT !.source = "SELECTED"])
<1>1. SaneWorld(F, B, w)
  BY UnplugSane
<1> HIDE DEF w
<1>2. SaneWorld(F, B, v)
  BY <1>1
<1> HIDE DEF v, SaneWorld
<1>3. SaneWorld(F, B, plug(v, "own"))
  BY <1>2, ControlSane
<1> QED
  BY <1>3, SelectedSane DEF fresh_activation, v, w

(* Our source has been deselected.                                         *)
LEMMA DeselectSane ==
    ASSUME NEW F, NEW B, NEW w, SaneWorld(F, B, w), NEW send_stop
    PROVE  SaneWorld(F, B, do_deselect(w, send_stop))
<1> DEFINE v == IF send_stop THEN send_stop_command(w) ELSE w
<1>1. SaneWorld(F, B, v)
  BY ControlSane
<1> HIDE DEF v
<1> QED
  BY <1>1 DEF do_deselect, v

(* Another source, or none, has taken over.                                *)
LEMMA PathChangedSane ==
    ASSUME NEW F, NEW B, NEW w0, SaneWorld(F, B, w0), NEW who
    PROVE  SaneWorld(F, B, audio_path_changed(w0, who))
<1> DEFINE v == IF own(w0) THEN do_deselect(w0, FALSE) ELSE w0
           w == unplug(v, TRUE)
<1>1. SaneWorld(F, B, v)
  BY DeselectSane
<1> HIDE DEF v, SaneWorld
<1>2. SaneWorld(F, B, w)
  BY Zenon, <1>1, UnplugSane
<1> HIDE DEF w
<1>3. SaneWorld(F, B, plug_crawler(plug(w, who), FALSE))
  BY Zenon, <1>2, ControlSane
<1> QED
  BY Zenon, <1>2, <1>3 DEF audio_path_changed, w, v

(***************************************************************************)
(* The specification                                                       *)
(***************************************************************************)
\* What may be in flight after a step.
Before == {None, data.inflight} \cup Elements(data.queue)

\* The invariant, and what a step leaves behind.
SaneMirror == Sane(Before, data.queue, data) /\ "retry" \in DOMAIN ctl

SaneStep ==
    /\ \/ Sane(Before, data.queue, data')
       \/ \E id \in StreamIds \ DOMAIN data.streams : Sane(Before, Append(data.queue, id), data')
    /\ "retry" \in DOMAIN ctl'

(* The order of the queue is the one to compare the next one with.         *)
LEMMA Rebase ==
    ASSUME NEW F, NEW B, NEW d, Sane(F, B, d)
    PROVE  Sane({None, d.inflight} \cup Elements(d.queue), d.queue, d)
BY InOrderReflexive DEF Sane

(* Nothing is queued in the beginning.                                     *)
LEMMA InitSane == Init => SaneMirror
<1> SUFFICES ASSUME Init
             PROVE  SaneMirror
  OBVIOUS
<1>1. Elements(<<>>) = {} /\ OnlyId(None) = {} /\ DOMAIN <<>> = {} /\ <<>> \in Seq(StreamIds)
  BY DEF Elements, OnlyId
<1>2. Consistent(IdleData)
  BY <1>1 DEF Consistent, IdleData
<1>3. 0 <= Cardinality(DOMAIN IdleData.streams)
  BY FS_EmptySet DEF IdleData
<1>4. Sane({None}, <<>>, IdleData)
  BY <1>1, <1>2, <1>3, InOrderReflexive DEF Sane, IdleData
<1>5. data = IdleData /\ "retry" \in DOMAIN ctl
  BY DEF Init, IdleControl
<1> QED
  BY <1>4, <1>5, Rebase DEF SaneMirror, Before

\* A handler that leaves a sane world behind; most steps are of this kind.
LEMMA BecomeSane ==
    ASSUME NEW w, Become(w),
           \/ SaneWorld(Before, data.queue, w)
           \/ \E id \in StreamIds \ DOMAIN data.streams :
                  SaneWorld(Before, Append(data.queue, id), w)
    PROVE  SaneStep
BY DEF Become, SaneStep

\* Steps that only change the crawler's operations.
LEMMA OperationSane ==
    ASSUME SaneMirror, UNCHANGED data, DOMAIN ctl' = DOMAIN ctl
    PROVE  SaneStep
BY DEF SaneMirror, SaneStep

(* Each step leaves a sane mirror behind, made of the one before.          *)
LEMMA StepSane == SaneMirror /\ [Next]_vars => SaneStep
<1> SUFFICES ASSUME SaneMirror, [Next]_vars
             PROVE  SaneStep
  OBVIOUS
<1>1. /\ SaneWorld(Before, data.queue, World)
      /\ World.d = data /\ World.p = player /\ DOMAIN World.c = DOMAIN ctl
  BY DEF World, SaneMirror
<1>0. Elements(data.queue) \subseteq Before
  BY DEF Before
<1> HIDE DEF SaneWorld
<1>2. ASSUME NEW pos \in Positions, Play(pos)
      PROVE  SaneStep
  BY <1>1, <1>2, PrepareSane, BecomeSane DEF Play
<1>3. CASE StartCommand
  BY <1>1, <1>3, RequestsSane, BecomeSane DEF StartCommand
<1>4. CASE StopCommand
  BY <1>1, <1>4, RequestsSane, BecomeSane DEF StopCommand
<1>5. CASE PauseCommand
  BY <1>1, <1>5, RequestsSane, BecomeSane DEF PauseCommand
<1>6. CASE NextCommand
  BY <1>1, <1>6, SkipSane, BecomeSane DEF NextCommand
<1>19. CASE PreviousCommand
  BY <1>1, <1>19, SkipSane, BecomeSane DEF PreviousCommand
<1>20. CASE WindCommand
  <2>1. SaneWorld(Before, data.queue, fast_wind_set_speed_request(World))
    BY <1>1 DEF fast_wind_set_speed_request, BugIf, Bug, SaneWorld
  <2> QED
    BY <2>1, <1>20, BecomeSane DEF WindCommand
<1>7. CASE Deliver
  <2> DEFINE w == WithPlayer(World, [player EXCEPT !.sig = Tail(@)])
  <2>1. SaneWorld(Before, data.queue, w)
    BY <1>1 DEF SaneWorld
  <2>2. Become(handle_signal(w, Head(player.sig)))
    BY <1>7 DEF Deliver
  <2> HIDE DEF w
  <2> QED
    BY <1>0, <2>1, <2>2, SignalSane, BecomeSane
<1>8. ASSUME NEW o \in OpIds, OpStart(o)
      PROVE  SaneStep
  <2>1. UNCHANGED data /\ ctl' = [World.c EXCEPT !.ops[o].st = "running"]
    BY <1>8 DEF OpStart
  <2> QED
    BY <1>1, <2>1, OperationSane
<1>9. ASSUME NEW o \in OpIds, OpFinish(o)
      PROVE  SaneStep
  <2>1. PICK res \in OpResults :
            ctl' = [World.c EXCEPT !.ops[o].st = "done", !.ops[o].res = res, !.done = Append(@, o)]
    BY Zenon, <1>9 DEF OpFinish
  <2>2. UNCHANGED data
    BY <1>9 DEF OpFinish
  <2> QED
    BY <1>1, <2>1, <2>2, OperationSane
<1>10. CASE OpCompleted
  <2> DEFINE o == Head(ctl.done)
             w == WithControl(World, [World.c EXCEPT !.ops[o] = NoOp, !.done = Tail(@)])
  <2>1. SaneWorld(Before, data.queue, w)
    BY <1>1 DEF SaneWorld
  <2>2. FreeIds(World) # {}
    BY <1>10 DEF OpCompleted, Room
  <2>3. FreeIds(w) = FreeIds(World)
    BY <1>1 DEF FreeIds, SaneWorld
  <2>4. Become(completed(w, o, ctl.ops[o]))
    BY <1>10 DEF OpCompleted
  <2>5. w.d = data
    BY <1>1
  <2> HIDE DEF w
  <2>6. SaneGrown(Before, data.queue, w, completed(w, o, ctl.ops[o]))
    BY <2>1, <2>2, <2>3, CompletedSane
  <2> QED
    BY <2>4, <2>5, <2>6, BecomeSane DEF SaneGrown
<1>11. CASE CanceledOpLeaves
  <2>1. PICK st \in ctl.dead : ctl' = [World.c EXCEPT !.dead = @ \ {st}]
    BY <1>11 DEF CanceledOpLeaves
  <2>2. UNCHANGED data
    BY <1>11 DEF CanceledOpLeaves
  <2> QED
    BY <1>1, <2>1, <2>2, OperationSane
<1>12. CASE SourceSelected
  BY <1>1, <1>12, SelectedSane, BecomeSane DEF SourceSelected
<1>13. CASE FreshActivation
  BY <1>1, <1>13, ActivationSane, BecomeSane DEF FreshActivation
<1>14. CASE SourceDeselected
  BY <1>1, <1>14, DeselectSane, BecomeSane DEF SourceDeselected
<1>15. CASE AudioPathChanged
  BY <1>1, <1>15, PathChangedSane, BecomeSane DEF AudioPathChanged
<1>16. CASE ListLost
  BY <1>1, <1>16, UnplugSane, BecomeSane DEF ListLost
<1>17. CASE PlayerStep
  <2>1. UNCHANGED data /\ ctl' = World.c
    BY <1>17 DEF PlayerStep
  <2> QED
    BY <1>1, <2>1, OperationSane
<1>18. CASE UNCHANGED vars
  BY <1>18, OperationSane DEF vars
<1> QED
  BY <1>2, <1>3, <1>4, <1>5, <1>6, <1>7, <1>8, <1>9, <1>10, <1>11, <1>12, <1>13, <1>14,
     <1>15, <1>16, <1>17, <1>18, <1>19, <1>20 DEF Next

(* What a step leaves behind is what the next one starts from.             *)
LEMMA StepKeeps == SaneStep => SaneMirror'
<1> SUFFICES ASSUME SaneStep
             PROVE  SaneMirror'
  OBVIOUS
<1>1. PICK B : Sane(Before, B, data')
  BY DEF SaneStep
<1> QED
  BY <1>1, Rebase DEF SaneStep, SaneMirror, Before

(* An element of a sequence without repetitions is at one place.           *)
LEMMA IndexIs ==
    ASSUME NEW s, NEW m \in DOMAIN s, \A i, j \in DOMAIN s : s[i] = s[j] => i = j
    PROVE  IndexOf(s, s[m]) = m
BY DEF IndexOf

(* The mirror of the stream player's queue passes its own consistency      *)
(* check (QueuedStreams::log()) after each handler: there is exactly one   *)
(* description for each stream that is queued or in flight, and no stream  *)
(* is there twice.                                                         *)
THEOREM QueueConsistentHolds == Spec => []QueueConsistent
<1>1. SaneMirror => QueueConsistent
  BY DEF SaneMirror, Sane, QueueConsistent
<1> QED
  BY <1>1, InitSane, StepSane, StepKeeps, PTL DEF Spec

(* No list is referenced more often than there are streams from it, hence  *)
(* none is kept for streams that are gone.                                 *)
THEOREM NoListIsKept == Spec => []NoListLeak
<1>1. SaneMirror => NoListLeak
  BY DEF SaneMirror, Sane, NoListLeak
<1> QED
  BY <1>1, InitSane, StepSane, StepKeeps, PTL DEF Spec

(* No handler makes a stream the one in flight unless it has been queued   *)
(* before, whatever IDs the signals of the player come with.               *)
THEOREM OnlyQueuedIsPlayed == Spec => PlayedFromQueue
<1>1. SaneStep => (data'.inflight \notin {None, data.inflight} => data'.inflight \in Elements(data.queue))
  BY DEF SaneStep, Sane, Before
<1> QED
  BY <1>1, InitSane, StepSane, StepKeeps, PTL DEF Spec, PlayedFromQueue

(* Streams do not overtake each other in the mirror.                       *)
THEOREM QueueKeepsOrder == Spec => QueueOrder
<1> DEFINE Kept == \A i, j \in DOMAIN data'.queue :
                      i < j /\ data'.queue[j] \in Elements(data.queue) =>
                          /\ data'.queue[i] \in Elements(data.queue)
                          /\ IndexOf(data.queue, data'.queue[i]) < IndexOf(data.queue, data'.queue[j])
<1>1. SaneMirror /\ SaneStep => Kept
  <2> SUFFICES ASSUME SaneMirror, SaneStep,
                      NEW i \in DOMAIN data'.queue, NEW j \in DOMAIN data'.queue,
                      i < j, data'.queue[j] \in Elements(data.queue)
               PROVE  /\ data'.queue[i] \in Elements(data.queue)
                      /\ IndexOf(data.queue, data'.queue[i]) < IndexOf(data.queue, data'.queue[j])
    OBVIOUS
  <2> DEFINE q == data.queue
  <2>1. /\ q \in Seq(StreamIds) /\ Elements(q) \subseteq DOMAIN data.streams
        /\ \A k, l \in DOMAIN q : q[k] = q[l] => k = l
    BY DEF SaneMirror, Sane, Consistent
  <2>2. PICK m \in DOMAIN q, n \in DOMAIN q :
            m < n /\ q[m] = data'.queue[i] /\ q[n] = data'.queue[j]
    <3>1. CASE Sane(Before, q, data')
      BY <3>1 DEF Sane, InOrder
    <3>2. CASE \E id \in StreamIds \ DOMAIN data.streams : Sane(Before, Append(q, id), data')
      <4>1. PICK id \in StreamIds \ DOMAIN data.streams : Sane(Before, Append(q, id), data')
        BY <3>2
      <4>2. PICK m \in DOMAIN Append(q, id), n \in DOMAIN Append(q, id) :
                m < n /\ Append(q, id)[m] = data'.queue[i] /\ Append(q, id)[n] = data'.queue[j]
        BY <4>1 DEF Sane, InOrder
      <4>3. id \notin Elements(q)
        BY <2>1
      <4>4. /\ Len(q) \in Nat /\ DOMAIN q = 1 .. Len(q) /\ DOMAIN Append(q, id) = 1 .. Len(q) + 1
            /\ Append(q, id)[Len(q) + 1] = id
            /\ \A k \in 1 .. Len(q) : Append(q, id)[k] = q[k]
        BY <2>1
      <4>5. n # Len(q) + 1
        BY <4>2, <4>3, <4>4
      <4>6. m \in DOMAIN q /\ n \in DOMAIN q
        BY <4>2, <4>4, <4>5
      <4> QED
        BY <4>2, <4>4, <4>6
    <3> QED
      BY <3>1, <3>2 DEF SaneStep
  <2>3. IndexOf(q, q[m]) = m /\ IndexOf(q, q[n]) = n
    BY <2>1, IndexIs
  <2> QED
    BY <2>2, <2>3 DEF Elements
<1>2. Spec => [][Kept]_vars
  BY <1>1, InitSane, StepSane, StepKeeps, PTL DEF Spec
<1> QED
  BY <1>2 DEF QueueOrder

(***************************************************************************)
(* The operations of the crawler                                           *)
(***************************************************************************)
HIDE DEF SaneWorld
ControlFields ==
    {"plugged", "source", "handle", "marks", "saved", "next", "uris", "skip", "ops", "done", "bugs", "hold"}

\* An operation; only those which look for the next item are ever delayed.
IsOp(op) ==
    /\ {"kind", "st", "canceled"} \subseteq DOMAIN op
    /\ op.kind \in Kinds /\ (op.st = "delayed" => op.kind = "prefetch")

\* An operation whose completion starts another one.
Finding(op) == op # NoOp /\ op.kind \in {"play", "prefetch"} /\ ~op.canceled

\* A pointer is to an operation of the right kind, never to a canceled one.
Owns(c, o, kinds) ==
    o # None => o \in OpIds /\ c.ops[o] # NoOp /\ c.ops[o].kind \in kinds /\ ~c.ops[o].canceled

IsAlive(c) == c.bugs \cap {"null", "assertion", "assertion: stream has been sent"} = {}

\* The pointers of player control, and what they own.
OpsOwned(c) ==
    /\ \A o \in OpIds : c.ops[o] # NoOp => IsOp(c.ops[o])
    /\ Owns(c, c.next, {"play", "prefetch"})
    /\ Owns(c, c.uris, {"playuris", "prefetchuris"})
    /\ Owns(c, c.skip, {"skip", "revert"})
    /\ c.skip # None => c.next = None /\ c.uris = None
    /\ IsAlive(c) => \A o \in OpIds : Finding(c.ops[o]) => c.next = o

\* Our source is not there, or not selected yet, or it has no list.
Waiting(c) == c.plugged # "own" \/ c.source = "REQUESTED" \/ ~c.handle

Idle(c) ==
    /\ c.ops = [o \in OpIds |-> NoOp]
    /\ c.next = None /\ c.uris = None /\ c.skip = None

Unmarked(c) == \A m \in Marks : c.marks[m] = None

\* There are no streams in the mirror.
Emptied(w) == SaneWorld({None}, <<>>, w)

\* A function on the identities of operations, and nothing else.
OpTable(ops) == DOMAIN ops = OpIds /\ ops = [o \in OpIds |-> ops[o]]

\* What each handler finds, and what it leaves behind.
Steady(w) ==
    /\ ControlFields \subseteq DOMAIN w.c
    /\ OpTable(w.c.ops) /\ DOMAIN w.c.marks = Marks /\ w.c.done \in Seq(OpIds)
    /\ OpsOwned(w.c)
    /\ ~w.c.hold /\ (~own(w) => ~w.c.handle) /\ (~w.c.handle => w.c.saved = None)
    /\ Waiting(w.c) => Idle(w.c) /\ Unmarked(w.c) /\ Emptied(w)

HasRoom(w) == \E o \in OpIds : w.c.ops[o] = NoOp

\* Operations of x are those of w, some of them canceled or gone, and pointers
\* of x are those of w, some of them reset.
LessOps(c, x) ==
    /\ OpTable(x.ops) /\ x.done \in Seq(OpIds) /\ c.bugs \subseteq x.bugs
    /\ \A o \in OpIds :
          \/ x.ops[o] \in {c.ops[o], NoOp}
          \/ IsOp(c.ops[o]) /\ c.ops[o] # NoOp /\ x.ops[o] = [c.ops[o] EXCEPT !.canceled = TRUE]
    /\ x.next \in {c.next, None} /\ x.uris \in {c.uris, None} /\ x.skip \in {c.skip, None}
    /\ \A o \in {x.next, x.uris, x.skip} \ {None} : x.ops[o] = c.ops[o]
    /\ IsAlive(x) => \A o \in OpIds : Finding(x.ops[o]) /\ c.next = o => x.next = o

\* The source is as before.
SameSource(c, x) ==
    /\ DOMAIN x = DOMAIN c /\ DOMAIN x.marks = Marks
    /\ x.plugged = c.plugged /\ x.source = c.source /\ x.handle = c.handle /\ x.hold = c.hold
    /\ x.saved = c.saved

(* Nothing becomes owned by canceling operations or by forgetting pointers. *)
LEMMA LessOwned ==
    ASSUME NEW c, NEW x, OpsOwned(c), LessOps(c, x)
    PROVE  OpsOwned(x)
<1>1. ASSUME NEW o \in OpIds, x.ops[o] # NoOp
      PROVE  /\ IsOp(x.ops[o]) /\ c.ops[o] # NoOp /\ x.ops[o].kind = c.ops[o].kind
             /\ c.ops[o].canceled => x.ops[o].canceled
  BY <1>1 DEF LessOps, OpsOwned, IsOp
<1>2. ASSUME NEW o \in OpIds, Finding(x.ops[o])
      PROVE  Finding(c.ops[o])
  BY <1>1, <1>2 DEF Finding
<1>3. \A kinds : /\ Owns(c, c.next, kinds) => Owns(x, x.next, kinds)
                 /\ Owns(c, c.uris, kinds) => Owns(x, x.uris, kinds)
                 /\ Owns(c, c.skip, kinds) => Owns(x, x.skip, kinds)
  BY DEF LessOps, Owns
<1>4. x.skip # None => x.next = None /\ x.uris = None
  BY DEF OpsOwned, LessOps
<1>5. IsAlive(x) => IsAlive(c)
  BY Zenon DEF IsAlive, LessOps
<1>6. IsAlive(x) => \A o \in OpIds : Finding(x.ops[o]) => x.next = o
  BY <1>2, <1>5 DEF OpsOwned, LessOps
<1> QED
  BY <1>1, <1>3, <1>4, <1>6 DEF OpsOwned

(* A handler that only cancels and forgets leaves a steady world.          *)
LEMMA LessSteady ==
    ASSUME NEW w, NEW x, Steady(w), LessOps(w.c, x.c), SameSource(w.c, x.c),
           Waiting(w.c) => Unmarked(x.c) /\ Emptied(x)
    PROVE  Steady(x) /\ (HasRoom(w) => HasRoom(x))
<1>1. OpsOwned(x.c)
  BY LessOwned DEF Steady
<1>2. Waiting(x.c) <=> Waiting(w.c)
  BY DEF Waiting, SameSource
<1>3. Idle(w.c) => Idle(x.c)
  <2> SUFFICES ASSUME Idle(w.c)
               PROVE  Idle(x.c)
    OBVIOUS
  <2>1. x.c.ops = [o \in OpIds |-> NoOp]
    BY DEF Idle, LessOps, OpTable
  <2>2. x.c.next = None /\ x.c.uris = None /\ x.c.skip = None
    BY DEF Idle, LessOps
  <2> QED
    BY <2>1, <2>2 DEF Idle
<1>4. HasRoom(w) => HasRoom(x)
  BY DEF HasRoom, LessOps
<1>5. ~x.c.hold /\ (~own(x) => ~x.c.handle) /\ (~x.c.handle => x.c.saved = None)
  BY DEF own, SameSource, Steady
<1>6. /\ ControlFields \subseteq DOMAIN x.c
      /\ OpTable(x.c.ops) /\ DOMAIN x.c.marks = Marks /\ x.c.done \in Seq(OpIds)
  BY DEF Steady, SameSource, LessOps
<1> QED
  BY <1>1, <1>2, <1>3, <1>4, <1>5, <1>6 DEF Steady

(* Operations and pointers stay as they are.                               *)
SameOps(c, x) ==
    /\ SameSource(c, x) /\ c.bugs \subseteq x.bugs
    /\ x.ops = c.ops /\ x.done = c.done
    /\ x.next = c.next /\ x.uris = c.uris /\ x.skip = c.skip

(* Handlers which leave operations and pointers alone.                     *)
LEMMA SameSteady ==
    ASSUME NEW w, NEW x, Steady(w), SameOps(w.c, x.c),
           Waiting(w.c) => Unmarked(x.c) /\ Emptied(x)
    PROVE  Steady(x) /\ (HasRoom(w) => HasRoom(x))
<1>1. LessOps(w.c, x.c)
  BY DEF LessOps, SameOps, SameSource, Steady
<1> QED
  BY <1>1, LessSteady DEF SameOps

(* Only the player data change, or not even they.                          *)
LEMMA DataSteady ==
    ASSUME NEW w, NEW x, Steady(w), x.c = w.c, Emptied(w) => Emptied(x)
    PROVE  Steady(x) /\ (HasRoom(w) => HasRoom(x))
<1>1. SameOps(w.c, x.c)
  BY DEF SameOps, SameSource, Steady
<1> QED
  BY <1>1, SameSteady DEF Steady

(* Commands to the player, a bug, retries, and changes of the intention.   *)
LEMMA SendSteady ==
    ASSUME NEW w, Steady(w)
    PROVE  \A x \in {send_play_command(w), send_pause_command(w), send_stop_command(w)} :
               Steady(x) /\ (HasRoom(w) => HasRoom(x))
<1> SUFFICES ASSUME NEW x \in {send_play_command(w), send_pause_command(w), send_stop_command(w)}
             PROVE  Steady(x) /\ (HasRoom(w) => HasRoom(x))
  OBVIOUS
<1>1. x.c = w.c /\ x.d = w.d
  BY SendKeeps
<1>2. Emptied(w) => Emptied(x)
  BY <1>1 DEF Emptied, SaneWorld
<1> QED
  BY <1>1, <1>2, DataSteady
(* Only fields that play no role for operations and sources change.        *)
LEMMA FrameSteady ==
    ASSUME NEW w, NEW x, Steady(w), DOMAIN x.c = DOMAIN w.c, w.c.bugs \subseteq x.c.bugs,
           \A f \in ControlFields \ {"bugs"} : x.c[f] = w.c[f],
           Emptied(w) => Emptied(x)
    PROVE  Steady(x) /\ (HasRoom(w) => HasRoom(x))
<1>1. SameOps(w.c, x.c) /\ x.c.marks = w.c.marks
  BY DEF SameOps, SameSource, Steady, ControlFields
<1>2. Unmarked(w.c) => Unmarked(x.c)
  BY <1>1 DEF Unmarked
<1> QED
  BY <1>1, <1>2, SameSteady DEF Steady
(* A bug, the retry counter and the intention are of that kind.            *)
LEMMA FieldSteady ==
    ASSUME NEW w, Steady(w)
    PROVE  /\ \A b : Steady(Bug(w, b)) /\ (HasRoom(w) => HasRoom(Bug(w, b)))
           /\ Steady(reset_retry(w)) /\ (HasRoom(w) => HasRoom(reset_retry(w)))
           /\ \A id : Steady(retry(w, id)) /\ (HasRoom(w) => HasRoom(retry(w, id)))
           /\ \A i : Steady(Intend(w, i)) /\ (HasRoom(w) => HasRoom(Intend(w, i)))
<1>1. ASSUME NEW b
      PROVE  Steady(Bug(w, b)) /\ (HasRoom(w) => HasRoom(Bug(w, b)))
  <2> DEFINE x == Bug(w, b)
  <2>1. /\ DOMAIN x.c = DOMAIN w.c /\ w.c.bugs \subseteq x.c.bugs
        /\ \A f \in ControlFields \ {"bugs"} : x.c[f] = w.c[f]
    BY DEF Bug, Steady, ControlFields
  <2>2. Emptied(w) => Emptied(x)
    BY ControlSane DEF Emptied
  <2> HIDE DEF x
  <2> QED
    BY <2>1, <2>2, FrameSteady DEF x
<1>2. Steady(reset_retry(w)) /\ (HasRoom(w) => HasRoom(reset_retry(w)))
  <2> DEFINE x == reset_retry(w)
  <2>1. /\ DOMAIN x.c = DOMAIN w.c /\ w.c.bugs \subseteq x.c.bugs
        /\ \A f \in ControlFields \ {"bugs"} : x.c[f] = w.c[f]
    BY DEF reset_retry, Steady, ControlFields
  <2>2. Emptied(w) => Emptied(x)
    BY ControlSane DEF Emptied
  <2> HIDE DEF x
  <2> QED
    BY <2>1, <2>2, FrameSteady DEF x
<1>3. ASSUME NEW id
      PROVE  Steady(retry(w, id)) /\ (HasRoom(w) => HasRoom(retry(w, id)))
  <2> DEFINE x == retry(w, id)
  <2>1. /\ DOMAIN x.c = DOMAIN w.c /\ w.c.bugs \subseteq x.c.bugs
        /\ \A f \in ControlFields \ {"bugs"} : x.c[f] = w.c[f]
    BY DEF retry, Steady, ControlFields
  <2>2. Emptied(w) => Emptied(x)
    BY ControlSane DEF Emptied
  <2> HIDE DEF x
  <2> QED
    BY <2>1, <2>2, FrameSteady DEF x
<1>4. ASSUME NEW i
      PROVE  Steady(Intend(w, i)) /\ (HasRoom(w) => HasRoom(Intend(w, i)))
  <2>1. Intend(w, i).c = w.c
    BY DEF Intend
  <2>2. Emptied(w) => Emptied(Intend(w, i))
    BY IntendSane DEF Emptied
  <2> QED
    BY <2>1, <2>2, DataSteady
<1> QED
  BY <1>1, <1>2, <1>3, <1>4

\* Fields which none of this is about.
LEMMA OtherSteady ==
    ASSUME NEW w, Steady(w), NEW v,
           NEW x \in {WithControl(w, [w.c EXCEPT !.dir = v]),
                      WithControl(w, [w.c EXCEPT !.retry.id = v])}
    PROVE  Steady(x) /\ (HasRoom(w) => HasRoom(x))
<1>1. /\ DOMAIN x.c = DOMAIN w.c /\ w.c.bugs \subseteq x.c.bugs
      /\ \A f \in ControlFields : x.c[f] = w.c[f]
  BY DEF Steady, ControlFields
<1>2. Emptied(w) => Emptied(x)
  BY <1>1 DEF Emptied, SaneWorld
<1> QED
  BY <1>1, <1>2, FrameSteady DEF ControlFields

(* An item to be played is remembered only while there is a list.          *)
LEMMA SavedSteady ==
    ASSUME NEW w, Steady(w), NEW v, w.c.handle \/ v = None
    PROVE  LET x == WithControl(w, [w.c EXCEPT !.saved = v])
           IN  Steady(x) /\ (HasRoom(w) => HasRoom(x))
<1> DEFINE x == WithControl(w, [w.c EXCEPT !.saved = v])
<1>1. /\ DOMAIN x.c = DOMAIN w.c /\ x.d = w.d /\ x.c.saved = v
      /\ \A f \in ControlFields \ {"saved"} : x.c[f] = w.c[f]
  BY DEF Steady, ControlFields
<1> HIDE DEF x
<1>2. /\ x.c.ops = w.c.ops /\ x.c.next = w.c.next /\ x.c.uris = w.c.uris /\ x.c.skip = w.c.skip
      /\ x.c.marks = w.c.marks /\ x.c.done = w.c.done /\ x.c.handle = w.c.handle /\ x.c.bugs = w.c.bugs
      /\ x.c.plugged = w.c.plugged /\ x.c.source = w.c.source /\ x.c.hold = w.c.hold
  BY <1>1 DEF ControlFields
<1>3. OpsOwned(x.c)
  BY Zenon, <1>2 DEF Steady, OpsOwned, Owns, IsAlive
<1>4. Waiting(x.c) => Idle(x.c) /\ Unmarked(x.c) /\ Emptied(x)
  BY <1>1, <1>2 DEF Steady, Waiting, Idle, Unmarked, Emptied, SaneWorld
<1> QED
  BY <1>1, <1>2, <1>3, <1>4 DEF Steady, own, HasRoom, x

(* A mark is set while our source is selected.                             *)
LEMMA MarkSteady ==
    ASSUME NEW w, Steady(w), ~Waiting(w.c), NEW m, NEW pos
    PROVE  /\ Steady(Mark(w, m, pos)) /\ (HasRoom(w) => HasRoom(Mark(w, m, pos)))
           /\ ~Waiting(Mark(w, m, pos).c) /\ Mark(w, m, pos).c.next = w.c.next
           /\ Mark(w, m, pos).c.uris = w.c.uris /\ Mark(w, m, pos).c.skip = w.c.skip
           /\ Mark(w, m, pos).c.bugs = w.c.bugs
<1> DEFINE x == Mark(w, m, pos)
<1>1. SameOps(w.c, x.c)
  BY DEF SameOps, SameSource, Steady, ControlFields, Mark
<1>2. x.c.bugs = w.c.bugs
  BY DEF Steady, ControlFields, Mark
<1> HIDE DEF x
<1>3. Steady(x) /\ (HasRoom(w) => HasRoom(x))
  BY <1>1, SameSteady
<1> QED
  BY <1>1, <1>2, <1>3 DEF x, SameOps, SameSource, Waiting

(* One operation is canceled, the others stay.                             *)
LEMMA CancelIs ==
    ASSUME NEW c, ControlFields \subseteq DOMAIN c, OpTable(c.ops), NEW o \in OpIds \cup {None}
    PROVE  /\ DOMAIN cancel(c, o) = DOMAIN c /\ OpTable(cancel(c, o).ops)
           /\ \A f \in ControlFields \ {"ops"} : cancel(c, o)[f] = c[f]
           /\ \A p \in OpIds \ {o} : cancel(c, o).ops[p] = c.ops[p]
           /\ o \in OpIds => \/ cancel(c, o).ops[o] = NoOp
                             \/ c.ops[o] # NoOp /\ cancel(c, o).ops[o] = [c.ops[o] EXCEPT !.canceled = TRUE]
<1>1. CASE o = None
  BY <1>1, OpIdsAssumption DEF cancel
<1>2. CASE o # None /\ c.ops[o] = NoOp
  BY <1>2 DEF cancel
<1>3. CASE o # None /\ c.ops[o] # NoOp /\ c.ops[o].st = "done"
  <2>1. cancel(c, o) = [c EXCEPT !.ops[o].canceled = TRUE] /\ o \in OpIds
    BY <1>3 DEF cancel
  <2> QED
    BY <1>3, <2>1 DEF ControlFields, OpTable
<1>4. CASE o # None /\ c.ops[o] # NoOp /\ c.ops[o].st # "done"
  <2>1. cancel(c, o) = [c EXCEPT !.ops[o] = NoOp, !.dead = @ \cup {c.ops[o].st}] /\ o \in OpIds
    BY <1>4 DEF cancel
  <2> QED
    BY Zenon, <2>1 DEF ControlFields, OpTable
<1> QED
  BY <1>1, <1>2, <1>3, <1>4

\* A pointer of a steady world, with the operation it owns.
LEMMA PointersAre ==
    ASSUME NEW w, Steady(w)
    PROVE  /\ w.c.next \in OpIds \cup {None} /\ w.c.uris \in OpIds \cup {None} /\ w.c.skip \in OpIds \cup {None}
           /\ \A o \in OpIds : w.c.ops[o] # NoOp => IsOp(w.c.ops[o])
           /\ w.c.next # None => w.c.next # w.c.uris /\ w.c.next # w.c.skip
           /\ w.c.uris # None => w.c.uris # w.c.skip
BY DEF Steady, OpsOwned, Owns

(* The skipper gives up.                                                   *)
LEMMA ResetSteady ==
    ASSUME NEW w, Steady(w)
    PROVE  LET x == skipper_reset(w)
           IN  /\ Steady(x) /\ (HasRoom(w) => HasRoom(x)) /\ x.c.skip = None
               /\ x.c.next = w.c.next /\ x.c.uris = w.c.uris /\ x.c.plugged = w.c.plugged
<1> DEFINE y == cancel(w.c, w.c.skip)
           x == skipper_reset(w)
<1>1. ControlFields \subseteq DOMAIN w.c /\ OpTable(w.c.ops) /\ DOMAIN w.c.marks = Marks
  BY DEF Steady
<1>2. /\ DOMAIN y = DOMAIN w.c /\ OpTable(y.ops)
      /\ \A f \in ControlFields \ {"ops"} : y[f] = w.c[f]
      /\ \A p \in OpIds \ {w.c.skip} : y.ops[p] = w.c.ops[p]
      /\ w.c.skip \in OpIds => \/ y.ops[w.c.skip] = NoOp
                               \/ /\ w.c.ops[w.c.skip] # NoOp
                                  /\ y.ops[w.c.skip] = [w.c.ops[w.c.skip] EXCEPT !.canceled = TRUE]
  BY <1>1, CancelIs, PointersAre
<1> HIDE DEF y
<1>3. /\ DOMAIN x.c = DOMAIN w.c /\ x.c.ops = y.ops /\ x.c.skip = None /\ x.d = w.d
      /\ \A f \in ControlFields \ {"ops", "skip"} : x.c[f] = w.c[f]
  BY <1>1, <1>2 DEF skipper_reset, y, ControlFields
<1> HIDE DEF x
<1>4. x.c.next = w.c.next /\ x.c.uris = w.c.uris
  BY <1>3 DEF ControlFields
<1>5. LessOps(w.c, x.c)
  <2>1. \A o \in OpIds :
          \/ x.c.ops[o] \in {w.c.ops[o], NoOp}
          \/ IsOp(w.c.ops[o]) /\ w.c.ops[o] # NoOp /\ x.c.ops[o] = [w.c.ops[o] EXCEPT !.canceled = TRUE]
    BY <1>2, <1>3, PointersAre
  <2>2. \A o \in {x.c.next, x.c.uris, x.c.skip} \ {None} : x.c.ops[o] = w.c.ops[o]
    BY <1>2, <1>3, <1>4, PointersAre
  <2>3. /\ OpTable(x.c.ops) /\ x.c.done \in Seq(OpIds) /\ w.c.bugs \subseteq x.c.bugs
    BY <1>2, <1>3 DEF Steady, ControlFields
  <2> QED
    BY <1>3, <1>4, <2>1, <2>2, <2>3 DEF LessOps
<1>6. SameSource(w.c, x.c) /\ x.c.marks = w.c.marks
  BY <1>1, <1>3 DEF SameSource, ControlFields
<1>7. Emptied(w) => Emptied(x)
  BY <1>3 DEF Emptied, SaneWorld
<1>8. Steady(x) /\ (HasRoom(w) => HasRoom(x))
  <2>1. Waiting(w.c) => Unmarked(w.c) /\ Emptied(w)
    BY DEF Steady
  <2>2. Unmarked(w.c) => Unmarked(x.c)
    BY <1>6 DEF Unmarked
  <2> QED
    BY Zenon, <1>5, <1>6, <1>7, <2>1, <2>2, LessSteady
<1> QED
  BY <1>3, <1>4, <1>6, <1>8 DEF x, SameSource

(* The lookup of the next item is given up.                                *)
LEMMA CancelNextSteady ==
    ASSUME NEW w, Steady(w)
    PROVE  LET x == WithControl(w, [cancel(w.c, w.c.next) EXCEPT !.next = None])
           IN  /\ Steady(x) /\ (HasRoom(w) => HasRoom(x)) /\ x.c.next = None /\ x.c.bugs = w.c.bugs
               /\ x.c.skip = w.c.skip /\ x.c.plugged = w.c.plugged /\ x.c.source = w.c.source
               /\ x.c.handle = w.c.handle
<1> DEFINE y == cancel(w.c, w.c.next)
           x == WithControl(w, [y EXCEPT !.next = None])
<1>1. ControlFields \subseteq DOMAIN w.c /\ OpTable(w.c.ops) /\ DOMAIN w.c.marks = Marks
  BY DEF Steady
<1>2. /\ DOMAIN y = DOMAIN w.c /\ OpTable(y.ops)
      /\ \A f \in ControlFields \ {"ops"} : y[f] = w.c[f]
      /\ \A p \in OpIds \ {w.c.next} : y.ops[p] = w.c.ops[p]
      /\ w.c.next \in OpIds => \/ y.ops[w.c.next] = NoOp
                               \/ /\ w.c.ops[w.c.next] # NoOp
                                  /\ y.ops[w.c.next] = [w.c.ops[w.c.next] EXCEPT !.canceled = TRUE]
  BY <1>1, CancelIs, PointersAre
<1> HIDE DEF y
<1>3. /\ DOMAIN x.c = DOMAIN w.c /\ x.c.ops = y.ops /\ x.c.next = None /\ x.d = w.d
      /\ \A f \in ControlFields \ {"ops", "next"} : x.c[f] = w.c[f]
  BY <1>1, <1>2 DEF ControlFields
<1> HIDE DEF x
<1>4. x.c.skip = w.c.skip /\ x.c.uris = w.c.uris /\ x.c.bugs = w.c.bugs
  BY <1>3 DEF ControlFields
<1>5. LessOps(w.c, x.c)
  <2>1. \A o \in OpIds :
          \/ x.c.ops[o] \in {w.c.ops[o], NoOp}
          \/ IsOp(w.c.ops[o]) /\ w.c.ops[o] # NoOp /\ x.c.ops[o] = [w.c.ops[o] EXCEPT !.canceled = TRUE]
    BY <1>2, <1>3, PointersAre
  <2>2. \A o \in {x.c.next, x.c.uris, x.c.skip} \ {None} : x.c.ops[o] = w.c.ops[o]
    BY <1>2, <1>3, <1>4, PointersAre
  <2>3. /\ OpTable(x.c.ops) /\ x.c.done \in Seq(OpIds) /\ w.c.bugs \subseteq x.c.bugs
    BY <1>2, <1>3 DEF Steady, ControlFields
  <2>4. \A o \in OpIds : w.c.next = o => ~Finding(x.c.ops[o])
    BY <1>2, <1>3, PointersAre DEF Finding, IsOp
  <2> QED
    BY <1>3, <1>4, <2>1, <2>2, <2>3, <2>4 DEF LessOps
<1>6. SameSource(w.c, x.c) /\ x.c.marks = w.c.marks
  BY <1>1, <1>3 DEF SameSource, ControlFields
<1>7. Emptied(w) => Emptied(x)
  BY <1>3 DEF Emptied, SaneWorld
<1>8. Steady(x) /\ (HasRoom(w) => HasRoom(x))
  <2>1. Waiting(w.c) => Unmarked(w.c) /\ Emptied(w)
    BY DEF Steady
  <2>2. Unmarked(w.c) => Unmarked(x.c)
    BY <1>6 DEF Unmarked
  <2> QED
    BY Zenon, <1>5, <1>6, <1>7, <2>1, <2>2, LessSteady
<1> QED
  BY <1>3, <1>4, <1>6, <1>8 DEF x, y, SameSource

(* The lookup of the next item and of its URIs are given up.               *)
LEMMA CancelSteady ==
    ASSUME NEW w, Steady(w)
    PROVE  LET x == cancel_prefetch_ops(w)
           IN  /\ Steady(x) /\ (HasRoom(w) => HasRoom(x)) /\ x.c.next = None /\ x.c.uris = None
               /\ x.c.skip = w.c.skip /\ x.c.plugged = w.c.plugged /\ x.c.source = w.c.source
               /\ x.c.handle = w.c.handle
<1> DEFINE z == cancel(w.c, w.c.next)
           y == cancel(z, w.c.uris)
           x == cancel_prefetch_ops(w)
<1>1. ControlFields \subseteq DOMAIN w.c /\ OpTable(w.c.ops) /\ DOMAIN w.c.marks = Marks
  BY DEF Steady
<1>2. /\ DOMAIN z = DOMAIN w.c /\ OpTable(z.ops)
      /\ \A f \in ControlFields \ {"ops"} : z[f] = w.c[f]
      /\ \A p \in OpIds \ {w.c.next} : z.ops[p] = w.c.ops[p]
      /\ w.c.next \in OpIds => \/ z.ops[w.c.next] = NoOp
                               \/ /\ w.c.ops[w.c.next] # NoOp
                                  /\ z.ops[w.c.next] = [w.c.ops[w.c.next] EXCEPT !.canceled = TRUE]
  BY <1>1, CancelIs, PointersAre
<1> HIDE DEF z
<1>3. /\ DOMAIN y = DOMAIN z /\ OpTable(y.ops)
      /\ \A f \in ControlFields \ {"ops"} : y[f] = z[f]
      /\ \A p \in OpIds \ {w.c.uris} : y.ops[p] = z.ops[p]
      /\ w.c.uris \in OpIds => \/ y.ops[w.c.uris] = NoOp
                               \/ /\ z.ops[w.c.uris] # NoOp
                                  /\ y.ops[w.c.uris] = [z.ops[w.c.uris] EXCEPT !.canceled = TRUE]
  BY <1>1, <1>2, CancelIs, PointersAre
<1> HIDE DEF y
<1>4. /\ DOMAIN x.c = DOMAIN w.c /\ x.c.ops = y.ops /\ x.c.next = None /\ x.c.uris = None /\ x.d = w.d
      /\ x.c.marks = [w.c.marks EXCEPT !["PREFETCH_CURSOR"] = None]
      /\ \A f \in ControlFields \ {"ops", "next", "uris", "marks"} : x.c[f] = w.c[f]
  BY Zenon, <1>1, <1>2, <1>3 DEF cancel_prefetch_ops, y, z, ControlFields
<1> HIDE DEF x
<1>5. x.c.skip = w.c.skip
  BY <1>4 DEF ControlFields
<1>6. \A o \in OpIds :
          \/ x.c.ops[o] \in {w.c.ops[o], NoOp}
          \/ IsOp(w.c.ops[o]) /\ w.c.ops[o] # NoOp /\ x.c.ops[o] = [w.c.ops[o] EXCEPT !.canceled = TRUE]
  <2> SUFFICES ASSUME NEW o \in OpIds
               PROVE  \/ x.c.ops[o] \in {w.c.ops[o], NoOp}
                      \/ IsOp(w.c.ops[o]) /\ w.c.ops[o] # NoOp
                         /\ x.c.ops[o] = [w.c.ops[o] EXCEPT !.canceled = TRUE]
    OBVIOUS
  <2>1. w.c.ops[o] # NoOp => IsOp(w.c.ops[o])
    BY PointersAre
  <2>2. CASE o = w.c.uris
    <3>1. o # w.c.next
      BY <2>2, PointersAre, OpIdsAssumption
    <3>2. z.ops[o] = w.c.ops[o]
      BY <1>2, <3>1
    <3> QED
      BY <1>3, <1>4, <2>1, <2>2, <3>2
  <2>3. CASE o # w.c.uris /\ o = w.c.next
    <3>1. y.ops[o] = z.ops[o]
      BY <1>3, <2>3
    <3> QED
      BY <1>2, <1>4, <2>1, <2>3, <3>1
  <2>4. CASE o # w.c.uris /\ o # w.c.next
    BY <1>2, <1>3, <1>4, <2>4
  <2> QED
    BY <2>2, <2>3, <2>4
<1>7. LessOps(w.c, x.c)
  <2>1. \A o \in {x.c.next, x.c.uris, x.c.skip} \ {None} : x.c.ops[o] = w.c.ops[o]
    BY <1>2, <1>3, <1>4, <1>5, PointersAre
  <2>2. OpTable(x.c.ops) /\ x.c.done \in Seq(OpIds) /\ w.c.bugs \subseteq x.c.bugs
    BY <1>3, <1>4 DEF Steady, ControlFields
  <2>3. \A o \in OpIds : w.c.next = o => x.c.ops[o] = z.ops[o]
    BY <1>3, <1>4, PointersAre, OpIdsAssumption
  <2>4. \A o \in OpIds : w.c.next = o => ~Finding(x.c.ops[o])
    BY <1>2, <2>3, PointersAre DEF Finding, IsOp
  <2> QED
    BY <1>4, <1>5, <1>6, <2>1, <2>2, <2>4 DEF LessOps
<1>8. SameSource(w.c, x.c) /\ (Unmarked(w.c) => Unmarked(x.c))
  BY <1>1, <1>4 DEF SameSource, ControlFields, Unmarked
<1>9. Emptied(w) => Emptied(x)
  BY <1>4 DEF Emptied, SaneWorld
<1>10. Steady(x) /\ (HasRoom(w) => HasRoom(x))
  BY Zenon, <1>7, <1>8, <1>9, LessSteady DEF Steady
<1> QED
  BY <1>4, <1>5, <1>8, <1>10 DEF x, SameSource

(* A delayed operation is dropped when no lookup of the next item runs.    *)
LEMMA DelayedSteady ==
    ASSUME NEW w, Steady(w), w.c.next = None
    PROVE  LET x == WithControl(w, drop_delayed(w.c))
           IN  /\ Steady(x) /\ (HasRoom(w) => HasRoom(x)) /\ x.c.next = None /\ x.c.bugs = w.c.bugs
               /\ x.c.uris = w.c.uris /\ x.c.skip = w.c.skip
               /\ x.c.plugged = w.c.plugged /\ x.c.source = w.c.source /\ x.c.handle = w.c.handle
<1> DEFINE x == WithControl(w, drop_delayed(w.c))
<1>1. /\ DOMAIN x.c = DOMAIN w.c /\ x.d = w.d /\ OpTable(x.c.ops)
      /\ \A f \in ControlFields \ {"ops"} : x.c[f] = w.c[f]
      /\ \A o \in OpIds : x.c.ops[o] = IF w.c.ops[o] # NoOp /\ w.c.ops[o].st = "delayed" THEN NoOp ELSE w.c.ops[o]
  BY Zenon DEF drop_delayed, Steady, ControlFields, OpTable
<1> HIDE DEF x
<1>2. /\ x.c.next = None /\ x.c.uris = w.c.uris /\ x.c.skip = w.c.skip /\ x.c.bugs = w.c.bugs
      /\ x.c.plugged = w.c.plugged /\ x.c.source = w.c.source /\ x.c.handle = w.c.handle
      /\ x.c.marks = w.c.marks /\ x.c.done = w.c.done /\ x.c.hold = w.c.hold
      /\ x.c.saved = w.c.saved
  BY <1>1 DEF ControlFields
<1>3. LessOps(w.c, x.c)
  <2>1. \A o \in {w.c.uris, w.c.skip} \ {None} : x.c.ops[o] = w.c.ops[o]
    BY <1>1 DEF Steady, OpsOwned, Owns, IsOp
  <2> QED
    BY <1>1, <1>2, <2>1 DEF LessOps, Steady
<1>4. SameSource(w.c, x.c)
  BY <1>1, <1>2 DEF SameSource, Steady
<1>5. Emptied(w) => Emptied(x)
  BY <1>1 DEF Emptied, SaneWorld
<1>6. Steady(x) /\ (HasRoom(w) => HasRoom(x))
  <2>1. Waiting(w.c) => Unmarked(w.c) /\ Emptied(w)
    BY DEF Steady
  <2>2. Unmarked(w.c) => Unmarked(x.c)
    BY <1>2 DEF Unmarked
  <2> QED
    BY Zenon, <1>3, <1>4, <1>5, <2>1, <2>2, LessSteady
<1> QED
  BY <1>2, <1>6 DEF x

(* The crawler is given up, and with it all operations.                    *)
LEMMA IdleSteady ==
    ASSUME NEW w, NEW x, Steady(w), DOMAIN x.c = DOMAIN w.c,
           x.c.ops = [o \in OpIds |-> NoOp], x.c.done = <<>>,
           x.c.marks = [m \in Marks |-> None],
           x.c.next = None, x.c.uris = None, x.c.skip = None,
           x.c.hold = w.c.hold, x.c.plugged # "own" => ~x.c.handle, ~x.c.handle => x.c.saved = None,
           Waiting(x.c) => Emptied(x)
    PROVE  Steady(x) /\ (HasRoom(w) => HasRoom(x))
BY DEF Steady, OpsOwned, Owns, Idle, Unmarked, Waiting, own, Finding, HasRoom, OpTable

(* A new operation has a free identity, and belongs to its pointer.        *)
LEMMA RunSteady ==
    ASSUME NEW w, Steady(w), HasRoom(w), ~Waiting(w.c), w.c.skip = None,
           NEW op, op # NoOp, IsOp(op), ~op.canceled,
           NEW slot \in {"next", "uris", "skip"},
           \/ slot = "next" /\ op.kind \in {"play", "prefetch"} /\ w.c.next = None
           \/ slot = "uris" /\ op.kind \in {"playuris", "prefetchuris"}
           \/ slot = "skip" /\ op.kind \in {"skip", "revert"} /\ w.c.next = None /\ w.c.uris = None
    PROVE  Steady(run(w, slot, op))
<1> DEFINE v == IF op.st = "delayed" THEN WithControl(w, drop_delayed(w.c)) ELSE w
           o == FreeOp(v.c)
           x == run(w, slot, op)
<1>1. /\ Steady(v) /\ HasRoom(v) /\ v.c.next = w.c.next /\ v.c.uris = w.c.uris /\ v.c.skip = w.c.skip
      /\ v.c.plugged = w.c.plugged /\ v.c.source = w.c.source /\ v.c.handle = w.c.handle
  BY DelayedSteady DEF IsOp
<1>2. x = WithControl(w, [v.c EXCEPT !.ops[o] = op, ![slot] = o])
  BY DEF run
<1> HIDE DEF v
<1>3. o \in OpIds /\ v.c.ops[o] = NoOp /\ o # None
  BY <1>1, OpIdsAssumption DEF FreeOp, HasRoom
<1> HIDE DEF o, x
<1>4. /\ DOMAIN x.c = DOMAIN v.c /\ x.c.ops = [v.c.ops EXCEPT ![o] = op] /\ x.c[slot] = o
      /\ \A f \in ControlFields \ {"ops", slot} : x.c[f] = v.c[f]
  BY <1>1, <1>2 DEF Steady, ControlFields
<1>5. \A p \in OpIds : x.c.ops[p] = IF p = o THEN op ELSE v.c.ops[p]
  BY <1>1, <1>4 DEF Steady, OpTable
<1>6. \A p, kinds : Owns(v.c, p, kinds) => Owns(x.c, p, kinds)
  BY <1>3, <1>5 DEF Owns
<1>7. OpsOwned(x.c)
  <2>1. \A p \in OpIds : x.c.ops[p] # NoOp => IsOp(x.c.ops[p])
    BY <1>1, <1>5 DEF Steady, OpsOwned
  <2>2. CASE slot = "next"
    <3>1. x.c.next = o /\ x.c.uris = v.c.uris /\ x.c.skip = v.c.skip /\ x.c.bugs = v.c.bugs
      BY <1>4, <2>2 DEF ControlFields
    <3>2. IsAlive(x.c) => \A p \in OpIds : Finding(x.c.ops[p]) => x.c.next = p
      BY Zenon, <1>1, <1>5, <2>2, <3>1, OpIdsAssumption DEF Steady, OpsOwned, IsAlive
    <3>3. Owns(x.c, x.c.next, {"play", "prefetch"})
      BY <1>3, <1>5, <2>2, <3>1 DEF Owns
    <3> QED
      BY <1>1, <1>6, <2>1, <3>1, <3>2, <3>3 DEF Steady, OpsOwned
  <2>3. CASE slot = "uris"
    <3>1. x.c.next = v.c.next /\ x.c.uris = o /\ x.c.skip = v.c.skip /\ x.c.bugs = v.c.bugs
      BY <1>4, <2>3 DEF ControlFields
    <3>2. IsAlive(x.c) => \A p \in OpIds : Finding(x.c.ops[p]) => x.c.next = p
      BY Zenon, <1>1, <1>5, <2>3, <3>1 DEF Steady, OpsOwned, IsAlive, Finding
    <3>3. Owns(x.c, x.c.uris, {"playuris", "prefetchuris"})
      BY <1>3, <1>5, <2>3, <3>1 DEF Owns
    <3> QED
      BY <1>1, <1>6, <2>1, <3>1, <3>2, <3>3 DEF Steady, OpsOwned
  <2>4. CASE slot = "skip"
    <3>1. x.c.next = v.c.next /\ x.c.uris = v.c.uris /\ x.c.skip = o /\ x.c.bugs = v.c.bugs
      BY <1>4, <2>4 DEF ControlFields
    <3>2. IsAlive(x.c) => \A p \in OpIds : Finding(x.c.ops[p]) => x.c.next = p
      BY Zenon, <1>1, <1>5, <2>4, <3>1 DEF Steady, OpsOwned, IsAlive, Finding
    <3>3. Owns(x.c, x.c.skip, {"skip", "revert"})
      BY <1>3, <1>5, <2>4, <3>1 DEF Owns
    <3> QED
      BY <1>1, <1>6, <2>1, <2>4, <3>1, <3>2, <3>3 DEF Steady, OpsOwned
  <2> QED
    BY <2>2, <2>3, <2>4
<1>8. /\ x.c.plugged = v.c.plugged /\ x.c.source = v.c.source /\ x.c.handle = v.c.handle
      /\ x.c.marks = v.c.marks /\ x.c.done = v.c.done /\ x.c.hold = v.c.hold /\ x.c.saved = v.c.saved
  BY <1>4 DEF ControlFields
<1>9. OpTable(x.c.ops) /\ ~Waiting(x.c)
  BY <1>1, <1>4, <1>8 DEF Steady, Waiting, OpTable
<1> QED
  BY <1>1, <1>4, <1>7, <1>8, <1>9 DEF Steady, own, x

(***************************************************************************)
(* Attaching and detaching                                                 *)
(***************************************************************************)
(* The player drops what it has queued, and all streams are forgotten.     *)
LEMMA ForgetSteady ==
    ASSUME NEW w, Steady(w)
    PROVE  /\ Steady(invalidate_prefetched_uris(w))
           /\ HasRoom(w) => HasRoom(invalidate_prefetched_uris(w))
           /\ Steady(forget_queued_and_playing(w))
           /\ HasRoom(w) => HasRoom(forget_queued_and_playing(w))
<1> DEFINE v == invalidate_prefetched_uris(w)
           x == WithData(v, remove_all_queued_streams(v.d))
           y == BugIf(x, v.d.queue # <<>>, "Queues out of sync")
<1>1. Steady(v) /\ (HasRoom(w) => HasRoom(v))
  <2>1. v.c = w.c
    BY DEF invalidate_prefetched_uris
  <2>2. Emptied(w) => Emptied(v)
    BY InvalidateSane DEF Emptied
  <2> HIDE DEF v
  <2> QED
    BY <2>1, <2>2, DataSteady
<1> HIDE DEF v
<1>2. Steady(x) /\ (HasRoom(v) => HasRoom(x))
  <2>1. x.c = v.c
    OBVIOUS
  <2>2. Emptied(v) => Emptied(x)
    BY ClearSane DEF Emptied, SaneWorld, remove_all_queued_streams
  <2> HIDE DEF x
  <2> QED
    BY <1>1, <2>1, <2>2, DataSteady
<1> HIDE DEF x
<1>3. Steady(y) /\ (HasRoom(x) => HasRoom(y))
  BY Zenon, <1>2, FieldSteady DEF BugIf
<1>4. forget_queued_and_playing(w) = reset_retry(IF ~attached(w) THEN w ELSE y)
  BY DEF forget_queued_and_playing, v, x
<1> HIDE DEF y
<1>5. Steady(forget_queued_and_playing(w)) /\ (HasRoom(w) => HasRoom(forget_queued_and_playing(w)))
  BY <1>1, <1>2, <1>3, <1>4, FieldSteady
<1> QED
  BY <1>1, <1>5 DEF v

(* What is remembered stays remembered when control is given up.           *)
LEMMA UnplugKeeps ==
    ASSUME NEW w, {"saved", "marks"} \subseteq DOMAIN w.c, NEW complete
    PROVE  unplug(w, complete).c.saved = w.c.saved
<1>1. \A c, o : {"saved", "marks"} \subseteq DOMAIN c =>
          cancel(c, o).saved = c.saved /\ DOMAIN cancel(c, o) = DOMAIN c
  BY DEF cancel
<1> DEFINE Kept(x) == x.c.saved = w.c.saved /\ {"saved", "marks"} \subseteq DOMAIN x.c
<1>2. ASSUME NEW x, Kept(x)
      PROVE  /\ Kept(reset_retry(x)) /\ \A b : Kept(Bug(x, b)) /\ \A i : Kept(Intend(x, i))
             /\ Kept(skipper_reset(x)) /\ \A d : Kept(WithData(x, d))
             /\ Kept(invalidate_prefetched_uris(x))
             /\ Kept(WithControl(x, [x.c EXCEPT !.dir = "FORWARD"]))
             /\ Kept(WithControl(x, [deactivate(x.c) EXCEPT !.plugged = "none"]))
  BY <1>1, <1>2 DEF reset_retry, Bug, Intend, skipper_reset, invalidate_prefetched_uris, deactivate
<1>3. ASSUME NEW x, Kept(x)
      PROVE  Kept(cancel_prefetch_ops(x))
  <2>1. cancel(cancel(x.c, x.c.next), x.c.uris).saved = x.c.saved
        /\ DOMAIN cancel(cancel(x.c, x.c.next), x.c.uris) = DOMAIN x.c
    BY <1>1, <1>3
  <2> QED
    BY <1>3, <2>1 DEF cancel_prefetch_ops
<1>4. Kept(w)
  OBVIOUS
<1> HIDE DEF Kept
<1> DEFINE e == WithData(w, IF attached(w) THEN remove_all_queued_streams(w.d) ELSE w.d)
           f == BugIf(e, attached(w) /\ w.d.queue # <<>>, "Queues out of sync")
           v == IF complete THEN reset_retry(f) ELSE forget_queued_and_playing(w)
           i == IF attached(w) THEN Intend(v, "NOTHING") ELSE v
           u == cancel_prefetch_ops(skipper_reset(i))
           x == WithControl(u, [u.c EXCEPT !.dir = "FORWARD"])
<1>5. Kept(f) /\ Kept(forget_queued_and_playing(w))
  <2> HIDE DEF WithData
  <2>1. Kept(f)
    BY Zenon, <1>2, <1>4 DEF BugIf
  <2>2. Kept(forget_queued_and_playing(w))
    BY Zenon, <1>2, <1>4 DEF forget_queued_and_playing, BugIf
  <2> QED
    BY Zenon, <2>1, <2>2
<1> HIDE DEF f, e
<1>6. Kept(u)
  BY <1>2, <1>3, <1>5
<1>7. unplug(w, complete) \in {x, WithControl(x, [deactivate(x.c) EXCEPT !.plugged = "none"])}
  BY DEF unplug, x, u, i, v, f, e
<1> HIDE DEF u
<1>8. Kept(x)
  BY <1>2, <1>6
<1> HIDE DEF x
<1>9. Kept(unplug(w, complete))
  BY <1>2, <1>7, <1>8
<1> QED
  BY <1>9 DEF Kept

(* Control is given up.  No stream is left when the source is gone.        *)
LEMMA UnplugSteady ==
    ASSUME NEW w, Steady(w), NEW complete \in BOOLEAN,
           complete => w.c.saved = None /\ \E F, B : SaneWorld(F, B, w)
    PROVE  /\ Steady(unplug(w, complete)) /\ (HasRoom(w) => HasRoom(unplug(w, complete)))
           /\ complete => unplug(w, complete).c.plugged = "none"
           /\ unplug(w, complete).c.saved = w.c.saved
<1> DEFINE e == WithData(w, IF attached(w) THEN remove_all_queued_streams(w.d) ELSE w.d)
           f == BugIf(e, attached(w) /\ w.d.queue # <<>>, "Queues out of sync")
           v == IF complete THEN reset_retry(f) ELSE forget_queued_and_playing(w)
           i == IF attached(w) THEN Intend(v, "NOTHING") ELSE v
           s == skipper_reset(i)
           u == cancel_prefetch_ops(s)
           x == WithControl(u, [u.c EXCEPT !.dir = "FORWARD"])
           y == WithControl(x, [deactivate(x.c) EXCEPT !.plugged = "none"])
<1>1. /\ Steady(e) /\ (HasRoom(w) => HasRoom(e))
      /\ complete => Emptied(e)
  <2>1. e.c = w.c
    OBVIOUS
  <2>2. Emptied(w) => Emptied(e)
    BY ClearSane DEF Emptied, SaneWorld, remove_all_queued_streams
  <2>3. ASSUME complete
        PROVE  Emptied(e)
    <3>1. PICK F, B : SaneWorld(F, B, w)
      BY <2>3
    <3>2. CASE attached(w)
      <4>1. Sane(F, B, clear(w.d))
        BY <3>1, ClearSane DEF SaneWorld
      <4>2. clear(w.d).queue = <<>> /\ clear(w.d).inflight = None
        BY <3>1 DEF clear, SaneWorld, Sane
      <4>3. Sane({None}, <<>>, clear(w.d))
        BY <4>1, <4>2, InOrderReflexive DEF Sane
      <4> QED
        BY <3>1, <3>2, <4>3 DEF Emptied, SaneWorld, remove_all_queued_streams
    <3>3. CASE ~attached(w)
      <4>1. Emptied(w)
        BY <3>3 DEF Steady, Waiting, attached
      <4> QED
        BY <2>2, <4>1
    <3> QED
      BY <3>2, <3>3
  <2> HIDE DEF e
  <2> QED
    BY <2>1, <2>2, <2>3, DataSteady
<1> HIDE DEF e
<1>2. Steady(v) /\ (HasRoom(w) => HasRoom(v)) /\ (complete => Emptied(v))
  <2>1. Steady(f) /\ (HasRoom(e) => HasRoom(f)) /\ (complete => Emptied(f))
    BY Zenon, <1>1, FieldSteady, ControlSane DEF BugIf, Emptied
  <2> HIDE DEF f
  <2>2. complete => Emptied(v)
    BY <2>1, ControlSane DEF Emptied
  <2>3. Steady(v) /\ (HasRoom(w) => HasRoom(v))
    BY <1>1, <2>1, FieldSteady, ForgetSteady
  <2> QED
    BY <2>2, <2>3
<1> HIDE DEF v
<1>3. Steady(i) /\ (HasRoom(v) => HasRoom(i)) /\ (complete => Emptied(i))
  BY <1>2, FieldSteady, IntendSane DEF Emptied
<1> HIDE DEF i
<1>4. Steady(s) /\ (HasRoom(i) => HasRoom(s)) /\ s.c.skip = None /\ (complete => Emptied(s))
  BY <1>3, ResetSteady, ControlSane DEF Emptied
<1> HIDE DEF s
<1>5. /\ Steady(u) /\ (HasRoom(s) => HasRoom(u)) /\ (complete => Emptied(u))
      /\ u.c.skip = None /\ u.c.next = None /\ u.c.uris = None
  BY <1>4, CancelSteady, ControlSane DEF Emptied
<1> HIDE DEF u
<1>6. /\ Steady(x) /\ (HasRoom(u) => HasRoom(x))
  BY <1>5, OtherSteady
<1>7. /\ x.c.skip = None /\ x.c.next = None /\ x.c.uris = None /\ (complete => Emptied(x))
  BY <1>5 DEF Emptied, SaneWorld, Steady, ControlFields
<1> HIDE DEF x
<1>8. unplug(w, complete) = IF complete THEN y ELSE x
  BY DEF unplug, x, u, s, i, v, e
<1>10. unplug(w, complete).c.saved = w.c.saved
  BY UnplugKeeps DEF Steady, ControlFields
<1>9. ASSUME complete
      PROVE  Steady(y) /\ (HasRoom(x) => HasRoom(y)) /\ y.c.plugged = "none"
  <2>1. /\ DOMAIN y.c = DOMAIN x.c
        /\ y.c.ops = [o \in OpIds |-> NoOp] /\ y.c.done = <<>>
        /\ y.c.marks = [m \in Marks |-> None]
        /\ y.c.next = None /\ y.c.uris = None /\ y.c.skip = None
        /\ y.c.plugged = "none" /\ ~y.c.handle /\ y.d = x.d
        /\ y.c.hold = x.c.hold
    BY <1>6, <1>5, <1>7 DEF Steady, ControlFields, deactivate
  <2>2. Emptied(y)
    BY <1>7, <1>9, <2>1 DEF Emptied, SaneWorld
  <2>3. y.c.saved = None
    BY <1>8, <1>9, <1>10
  <2> HIDE DEF y
  <2> QED
    BY <1>5, <1>6, <2>1, <2>2, <2>3, IdleSteady
<1> HIDE DEF y
<1> QED
  BY <1>2, <1>3, <1>4, <1>5, <1>6, <1>8, <1>9, <1>10

(* Our source is plugged while nothing is under way.                       *)
LEMMA PlugSteady ==
    ASSUME NEW w, Steady(w), w.c.plugged = "none", NEW who \in {"own", "external"}
    PROVE  LET x == plug(w, who)
           IN  Steady(x) /\ (HasRoom(w) => HasRoom(x)) /\ x.c.plugged = who
               /\ (w.c.source # "DESELECTED" => x.c.source = w.c.source) /\ Idle(x.c)
<1> DEFINE x == plug(w, who)
<1>1. /\ DOMAIN x.c = DOMAIN w.c /\ x.c.plugged = who /\ x.d = w.d
      /\ \A f \in ControlFields \ {"plugged", "source"} : x.c[f] = w.c[f]
      /\ w.c.source # "DESELECTED" => x.c.source = w.c.source
  BY DEF plug, Steady, ControlFields
<1> HIDE DEF x
<1>2. /\ x.c.ops = w.c.ops /\ x.c.next = w.c.next /\ x.c.uris = w.c.uris /\ x.c.skip = w.c.skip
      /\ x.c.marks = w.c.marks /\ x.c.done = w.c.done /\ x.c.handle = w.c.handle /\ x.c.bugs = w.c.bugs
      /\ x.c.hold = w.c.hold /\ x.c.saved = w.c.saved
  BY <1>1 DEF ControlFields
<1>3. Idle(w.c) /\ Unmarked(w.c) /\ Emptied(w) /\ ~w.c.handle
  BY DEF Steady, Waiting, own
<1>4. Idle(x.c) /\ Unmarked(x.c) /\ Emptied(x)
  BY <1>1, <1>2, <1>3 DEF Idle, Unmarked, Emptied, SaneWorld
<1>5. OpsOwned(x.c)
  BY Zenon, <1>2 DEF Steady, OpsOwned, Owns, IsAlive
<1> QED
  BY <1>1, <1>2, <1>3, <1>4, <1>5 DEF Steady, HasRoom, x

(* A crawler handle is plugged, or permissions only.                       *)
LEMMA PlugCrawlerSteady ==
    ASSUME NEW w, Steady(w), NEW with_handle \in BOOLEAN, with_handle <=> own(w)
    PROVE  LET x == plug_crawler(w, with_handle)
           IN  Steady(x) /\ (HasRoom(w) => HasRoom(x)) /\ x.c.plugged = w.c.plugged
               /\ x.c.source = w.c.source /\ x.c.handle = with_handle /\ Idle(x.c)
<1> DEFINE x == plug_crawler(w, with_handle)
<1>1. /\ DOMAIN x.c = DOMAIN w.c /\ x.d = w.d
      /\ x.c.ops = [o \in OpIds |-> NoOp] /\ x.c.done = <<>>
      /\ x.c.marks = [m \in Marks |-> None]
      /\ x.c.next = None /\ x.c.uris = None /\ x.c.skip = None
      /\ x.c.plugged = w.c.plugged /\ x.c.source = w.c.source /\ x.c.handle = with_handle
      /\ x.c.hold = w.c.hold /\ x.c.saved = w.c.saved
  BY Zenon DEF plug_crawler, deactivate, Steady, ControlFields
<1> HIDE DEF x
<1>2. Waiting(x.c) => Emptied(x)
  BY <1>1 DEF Steady, Waiting, Emptied, SaneWorld
<1>3. Steady(x) /\ (HasRoom(w) => HasRoom(x))
  BY <1>1, <1>2, IdleSteady DEF own, Steady
<1> QED
  BY <1>1, <1>3 DEF x, Idle

(* The play view ends playback.                                            *)
LEMMA FinishSteady ==
    ASSUME NEW w, Steady(w), NEW what, NEW active \in BOOLEAN
    PROVE  LET x == player_finished(w, what, active)
           IN  Steady(x) /\ (HasRoom(w) => HasRoom(x))
<1> DEFINE v == IF active THEN unplug(w, FALSE) ELSE w
           x == WithData(v, player_finished_and_idle(v.d))
<1>1. Steady(v) /\ (HasRoom(w) => HasRoom(v))
  BY UnplugSteady
<1> HIDE DEF v
<1>2. Emptied(v) => Emptied(x)
  BY FinishedSane DEF Emptied, SaneWorld
<1>3. x.c = v.c
  OBVIOUS
<1> HIDE DEF x
<1>4. Steady(x) /\ (HasRoom(v) => HasRoom(x))
  BY <1>1, <1>2, <1>3, DataSteady
<1>5. player_finished(w, what, active) \in {w, x}
  BY DEF player_finished, x, v
<1> QED
  BY <1>1, <1>4, <1>5

(***************************************************************************)
(* Pushing streams and starting operations                                 *)
(***************************************************************************)
(* A stream is pushed; operations do not change.                           *)
LEMMA PushSteady ==
    ASSUME NEW w, Steady(w), NEW id, NEW insert_mode, NEW play_new_mode
    PROVE  LET x == send_selected_file_uri_to_streamplayer(w, id, insert_mode, play_new_mode)
           IN  Steady(x) /\ (HasRoom(w) => HasRoom(x))
<1> DEFINE r == IF insert_mode = "APPEND" THEN PushBack(w.p, id) ELSE PushReplacing(w.p, id)
           u == IF has_proxy(w)
                THEN WithData(WithPlayer(w, r.player), player_dropped_from_queue(w.d, r.dropped))
                ELSE w
           y == WithData(u, queued_stream_sent_to_player(u.d, id))
           v == BugIf(y, ~IsFloating(u.d, id), "assertion: stream has been sent")
<1>1. y.c = w.c
  OBVIOUS
<1>2. Emptied(w) => Emptied(y)
  <2>1. Emptied(w) => Emptied(u)
    BY DroppedSane DEF Emptied, SaneWorld
  <2> HIDE DEF u
  <2> QED
    BY <2>1, StatesSane DEF Emptied, SaneWorld
<1>3. send_selected_file_uri_to_streamplayer(w, id, insert_mode, play_new_mode)
          \in {v, send_play_command(v), send_pause_command(v)}
  BY DEF send_selected_file_uri_to_streamplayer, y, u
<1>4. v = BugIf(y, ~IsFloating(u.d, id), "assertion: stream has been sent")
  OBVIOUS
<1> HIDE DEF y, u, v
<1>5. Steady(y) /\ (HasRoom(w) => HasRoom(y))
  BY <1>1, <1>2, DataSteady
<1>6. Steady(v) /\ (HasRoom(w) => HasRoom(v))
  BY Zenon, <1>4, <1>5, FieldSteady DEF BugIf
<1> QED
  BY <1>3, <1>6, SendSteady

(* A new stream is queued and pushed.                                      *)
LEMMA QueueItemSteady ==
    ASSUME NEW w, Steady(w), ~Waiting(w.c), NEW pos, NEW insert_mode, NEW play_new_mode
    PROVE  LET x == queue_item_from_op(w, pos, insert_mode, play_new_mode)
           IN  Steady(x) /\ (HasRoom(w) => HasRoom(x))
<1> DEFINE id == next_stream_id(w)
           v  == IF insert_mode = "REPLACE_ALL" THEN Mark(w, "ABOUT_TO_PLAY", pos) ELSE w
           x  == WithData(v, queued_stream_append(v.d, id, pos))
<1> HIDE DEF id
<1>1. Steady(v) /\ (HasRoom(w) => HasRoom(v)) /\ ~Waiting(v.c)
  BY MarkSteady
<1> HIDE DEF v
<1>2. SameOps(v.c, x.c)
  BY <1>1 DEF SameOps, SameSource, Steady
<1> HIDE DEF x
<1>3. Steady(x) /\ (HasRoom(w) => HasRoom(x))
  BY <1>1, <1>2, SameSteady
<1>4. queue_item_from_op(w, pos, insert_mode, play_new_mode)
          = send_selected_file_uri_to_streamplayer(x, id, insert_mode, play_new_mode)
  BY DEF queue_item_from_op, x, v, id
<1> QED
  BY <1>3, <1>4, PushSteady

(* The next item is looked up, unless something is under way already.      *)
LEMMA PrefetchSteady ==
    ASSUME NEW w, Steady(w), HasRoom(w), NEW from, NEW dir, NEW force, NEW execution
    PROVE  Steady(start_prefetch_next_item(w, from, dir, force, execution))
<1> DEFINE pos == IF from = "PREFETCH_CURSOR"
                  THEN FirstMark(w.c, <<"PREFETCH_CURSOR", "CURRENTLY_PLAYING", "ABOUT_TO_PLAY">>)
                  ELSE w.c.marks["PREFETCH_CURSOR"]
           v  == Mark(w, "PREFETCH_CURSOR", pos)
           op == [Op("prefetch", pos, dir) EXCEPT !.force = force, !.st = execution]
           x  == start_prefetch_next_item(w, from, dir, force, execution)
<1>1. Unmarked(w.c) => pos = None
  <2>1. "PREFETCH_CURSOR" \in Marks /\ "CURRENTLY_PLAYING" \in Marks /\ "ABOUT_TO_PLAY" \in Marks
    BY DEF Marks
  <2>2. Unmarked(w.c) => FirstMark(w.c, <<"PREFETCH_CURSOR", "CURRENTLY_PLAYING", "ABOUT_TO_PLAY">>) = None
    BY <2>1 DEF Unmarked, FirstMark
  <2> QED
    BY <2>1, <2>2 DEF Unmarked
<1>2. \/ x = w
      \/ w.c.next = None /\ w.c.skip = None /\ pos # None /\ x = run(v, "next", op)
  BY DEF start_prefetch_next_item
<1> HIDE DEF pos, x
<1>3. CASE w.c.next = None /\ w.c.skip = None /\ pos # None /\ x = run(v, "next", op)
  <2>1. ~Waiting(w.c)
    BY <1>1, <1>3 DEF Steady
  <2>2. Steady(v) /\ HasRoom(v) /\ ~Waiting(v.c) /\ v.c.next = None /\ v.c.skip = None
    BY <1>3, <2>1, MarkSteady
  <2>3. op # NoOp /\ IsOp(op) /\ ~op.canceled /\ op.kind = "prefetch"
    BY DEF Op, NoOp, IsOp, Kinds
  <2> HIDE DEF v, op
  <2>4. Steady(run(v, "next", op))
    BY <2>2, <2>3, RunSteady
  <2> QED
    BY <1>3, <2>4 DEF x
<1> QED
  BY <1>2, <1>3 DEF x

(* A skip request is accepted, refused, or left to the player.             *)
LEMMA SkipSteady ==
    ASSUME NEW w, Steady(w), HasRoom(w)
    PROVE  /\ Steady(skip_forward_request(w)) /\ Steady(skip_backward_request(w))
           /\ \A dir : Steady(skip_request(w, dir))
           /\ Steady(rewind_request(w))
<1>1. ASSUME NEW v, Steady(v), HasRoom(v), ~Waiting(v.c), v.c.skip = None, NEW pos, NEW dir, NEW prev
      PROVE  Steady(run_new_find_next(v, pos, dir, prev))
  <2> DEFINE y  == cancel_prefetch_ops(v)
             z  == Mark(y, "SKIP_CURSOR", pos)
             op == [Op("skip", pos, dir) EXCEPT !.prev = prev]
  <2>1. /\ Steady(y) /\ HasRoom(y) /\ y.c.next = None /\ y.c.uris = None /\ y.c.skip = None
        /\ y.c.plugged = v.c.plugged /\ y.c.source = v.c.source /\ y.c.handle = v.c.handle
    BY <1>1, CancelSteady
  <2> HIDE DEF y
  <2>2. ~Waiting(y.c)
    BY <1>1, <2>1 DEF Waiting
  <2>3. Steady(z) /\ HasRoom(z) /\ z.c.next = None /\ z.c.uris = None /\ z.c.skip = None /\ ~Waiting(z.c)
    BY <2>1, <2>2, MarkSteady
  <2>4. op # NoOp /\ IsOp(op) /\ ~op.canceled /\ op.kind = "skip"
    BY DEF Op, NoOp, IsOp, Kinds
  <2>5. run_new_find_next(v, pos, dir, prev) = run(z, "skip", op)
    BY DEF run_new_find_next, z, y
  <2> HIDE DEF z, op
  <2> QED
    BY <2>3, <2>4, <2>5, RunSteady
<1>2. ASSUME NEW v, Steady(v), HasRoom(v), ~Waiting(v.c), NEW pos
      PROVE  Steady(forward_request(v, pos)) /\ Steady(backward_request(v, pos))
  <2> DEFINE y == set_intention_for_skipping(v)
  <2>1. Steady(y) /\ HasRoom(y)
    BY <1>2, FieldSteady DEF set_intention_for_skipping
  <2>2. y.c = v.c
    BY DEF set_intention_for_skipping, Intend
  <2> HIDE DEF y
  <2>3. v.c.skip = None => \A dir, prev : Steady(run_new_find_next(y, pos, dir, prev))
    BY <1>1, <1>2, <2>1, <2>2
  <2> QED
    BY <1>2, <2>3 DEF forward_request, backward_request, y
<1>3. ASSUME NEW dir, attached(w), w.c.handle, may_skip(w)
      PROVE  LET v == WithControl(w, [w.c EXCEPT !.dir = dir])
             IN  Steady(v) /\ HasRoom(v) /\ ~Waiting(v.c)
  <2>1. ~Waiting(w.c)
    BY <1>3 DEF Steady, Waiting, own, may_skip, selected
  <2> DEFINE v == WithControl(w, [w.c EXCEPT !.dir = dir])
  <2>2. Steady(v) /\ HasRoom(v)
    BY OtherSteady
  <2>3. v.c.plugged = w.c.plugged /\ v.c.source = w.c.source /\ v.c.handle = w.c.handle
    BY DEF Steady, ControlFields
  <2> QED
    BY <2>1, <2>2, <2>3 DEF Waiting
<1>4. Steady(skip_forward_request(w))
  <2>1. Steady(send_simple_skip_forward_command(w))
    <3> DEFINE x == WithPlayer(w, SkipToNext(w.p))
    <3>1. x.c = w.c /\ (Emptied(w) => Emptied(x))
      BY DEF Emptied, SaneWorld
    <3> HIDE DEF x
    <3>2. Steady(x)
      BY <3>1, DataSteady
    <3> QED
      BY <3>2 DEF send_simple_skip_forward_command, x
  <2> QED
    BY <1>2, <1>3, <2>1 DEF skip_forward_request
<1>5. Steady(skip_backward_request(w))
  BY <1>2, <1>3 DEF skip_backward_request
<1> QED
  BY <1>4, <1>5 DEF skip_request, rewind_request

(***************************************************************************)
(* Requests                                                                *)
(***************************************************************************)
(* Requests that do not look anything up.                                  *)
LEMMA RequestsSteady ==
    ASSUME NEW w, Steady(w)
    PROVE  /\ Steady(play_request(w, None)) /\ (HasRoom(w) => HasRoom(play_request(w, None)))
           /\ Steady(stop_request(w)) /\ (HasRoom(w) => HasRoom(stop_request(w)))
           /\ Steady(pause_request(w)) /\ (HasRoom(w) => HasRoom(pause_request(w)))
           /\ \A known : /\ Steady(enforce_intention(w, known))
                         /\ HasRoom(w) => HasRoom(enforce_intention(w, known))
<1>1. \A i : Steady(Intend(w, i)) /\ (HasRoom(w) => HasRoom(Intend(w, i)))
  BY FieldSteady
<1>2. Steady(play_request(w, None)) /\ (HasRoom(w) => HasRoom(play_request(w, None)))
  <2> DEFINE v == Intend(w, "LISTENING")
             x == WithControl(v, [v.c EXCEPT !.saved = None])
  <2>1. play_request(w, None) \in {w, v, x, send_play_command(v)}
    BY DEF play_request
  <2>2. Steady(v) /\ (HasRoom(w) => HasRoom(v))
    BY <1>1
  <2> HIDE DEF v
  <2>3. Steady(x) /\ (HasRoom(v) => HasRoom(x))
    BY <2>2, SavedSteady
  <2> HIDE DEF x
  <2> QED
    BY <2>1, <2>2, <2>3, SendSteady
<1>3. /\ Steady(stop_request(w)) /\ (HasRoom(w) => HasRoom(stop_request(w)))
      /\ Steady(pause_request(w)) /\ (HasRoom(w) => HasRoom(pause_request(w)))
  BY <1>1, SendSteady DEF stop_request, pause_request
<1>4. ASSUME NEW known
      PROVE  /\ Steady(enforce_intention(w, known))
             /\ HasRoom(w) => HasRoom(enforce_intention(w, known))
  <2>1. enforce_intention(w, known) \in {w, send_stop_command(w), send_pause_command(w), send_play_command(w)}
    BY DEF enforce_intention
  <2> QED
    BY <2>1, SendSteady
<1> QED
  BY <1>2, <1>3, <1>4

(* Playing starts with the crawler, which is idle.                         *)
LEMMA PlaySteady ==
    ASSUME NEW w, Steady(w), HasRoom(w), own(w), Idle(w.c), NEW pos, w.c.handle \/ pos = None
    PROVE  Steady(play_request(w, pos))
<1> DEFINE v  == Intend(w, "LISTENING")
           x  == WithControl(v, [v.c EXCEPT !.saved = pos])
           op == Op("play", pos, "FORWARD")
<1>1. Steady(v) /\ HasRoom(v) /\ v.c = w.c
  BY FieldSteady DEF Intend
<1>2. \/ play_request(w, pos) \in {w, v, x, send_play_command(v)}
      \/ w.c.source # "REQUESTED" /\ pos # None /\ play_request(w, pos) = run(v, "next", op)
  BY DEF play_request, own
<1> HIDE DEF v
<1>3. Steady(x)
  BY <1>1, SavedSteady
<1> HIDE DEF x
<1>4. w.c.source # "REQUESTED" /\ pos # None => Steady(run(v, "next", op))
  <2>1. op # NoOp /\ IsOp(op) /\ ~op.canceled /\ op.kind = "play"
    BY DEF Op, NoOp, IsOp, Kinds
  <2> HIDE DEF op
  <2>2. w.c.source # "REQUESTED" /\ pos # None => ~Waiting(v.c)
    BY <1>1 DEF Waiting, own
  <2>3. v.c.next = None /\ v.c.skip = None
    BY <1>1 DEF Idle
  <2> QED
    BY <1>1, <2>1, <2>2, <2>3, RunSteady
<1> QED
  BY <1>1, <1>2, <1>3, <1>4, SendSteady

(* An item of the list is to be played.                                    *)
LEMMA PrepareSteady ==
    ASSUME NEW w, Steady(w), HasRoom(w), NEW pos
    PROVE  Steady(prepare_for_playing(w, pos))
<1> DEFINE s == stop_request(w)
           u == unplug(s, TRUE)
           v == IF own(w) THEN w ELSE plug(u, "own")
           x == plug_crawler(v, TRUE)
<1>1. ASSUME ~own(w)
      PROVE  Steady(u) /\ HasRoom(u) /\ u.c.plugged = "none"
  <2>1. Steady(s) /\ HasRoom(s)
    BY RequestsSteady
  <2>4. s.c = w.c /\ w.c.saved = None
    BY <1>1, SendKeeps DEF stop_request, Intend, Steady
  <2>2. Emptied(w)
    BY <1>1 DEF Steady, Waiting, own
  <2>3. Emptied(s)
    BY <2>2, RequestsSane DEF Emptied
  <2> HIDE DEF s
  <2> QED
    BY <2>1, <2>3, <2>4, UnplugSteady DEF Emptied
<1> HIDE DEF u
<1>2. Steady(v) /\ HasRoom(v) /\ own(v)
  BY <1>1, PlugSteady DEF own
<1> HIDE DEF v
<1>3. Steady(x) /\ HasRoom(x) /\ own(x) /\ Idle(x.c) /\ x.c.handle
  BY <1>2, PlugCrawlerSteady DEF own
<1> HIDE DEF x
<1>4. prepare_for_playing(w, pos) = play_request(x, pos)
  BY DEF prepare_for_playing, x, v, u
<1> QED
  BY <1>3, <1>4, PlaySteady

(***************************************************************************)
(* Completed operations                                                    *)
(***************************************************************************)
(* A completed operation is gone, and so are the pointers to it.           *)
LEMMA TakenSteady ==
    ASSUME NEW w, Steady(w), w.c.done # <<>>, NEW o \in OpIds, NEW x,
           SameSource(w.c, x.c), x.c.marks = w.c.marks, x.d = w.d, w.c.bugs \subseteq x.c.bugs,
           x.c.ops = [w.c.ops EXCEPT ![o] = NoOp], x.c.done = Tail(w.c.done),
           x.c.next \in {w.c.next, None}, x.c.uris \in {w.c.uris, None}, x.c.skip \in {w.c.skip, None},
           o \notin {x.c.next, x.c.uris, x.c.skip},
           IsAlive(x.c) => x.c.next = w.c.next \/ w.c.next = o
    PROVE  Steady(x) /\ HasRoom(x)
<1>1. OpTable(w.c.ops) /\ w.c.done \in Seq(OpIds)
  BY DEF Steady
<1>2. \A p \in OpIds : x.c.ops[p] = IF p = o THEN NoOp ELSE w.c.ops[p]
  BY <1>1 DEF OpTable
<1>3. x.c.done \in Seq(OpIds)
  BY <1>1
<1>4. \A p \in {x.c.next, x.c.uris, x.c.skip} \ {None} : x.c.ops[p] = w.c.ops[p]
  BY <1>2, PointersAre
<1>5. LessOps(w.c, x.c)
  BY <1>1, <1>2, <1>3, <1>4 DEF LessOps, Finding, OpTable
<1>6. Waiting(w.c) => Unmarked(x.c) /\ Emptied(x)
  BY DEF Steady, Unmarked, Emptied, SaneWorld, SameSource
<1> QED
  BY <1>2, <1>5, <1>6, LessSteady DEF HasRoom

(* The item to be played has been found, or not.                           *)
LEMMA PlayItemSteady ==
    ASSUME NEW w0, NEW o, NEW op, NEW w,
           w = WithControl(BugIf(w0, w0.c.next \notin {None, o}, "assertion"),
                           [BugIf(w0, w0.c.next \notin {None, o}, "assertion").c EXCEPT !.next = None]),
           Steady(w), HasRoom(w), ~Waiting(w.c), ~op.canceled => w.c.skip = None
    PROVE  Steady(found_item_for_playing(w0, o, op))
<1> DEFINE v == skipper_reset(w)
           y == WithData(v, set_intention_after_skipping(v.d))
           z == player_finished(y, "PLAYING", TRUE)
           m == Mark(w, "ABOUT_TO_PLAY", Found(op))
           x == Op("playuris", Found(op), op.dir)
<1>1. Steady(z)
  <2>1. Steady(v)
    BY ResetSteady
  <2> HIDE DEF v
  <2>2. y.c = v.c /\ (Emptied(v) => Emptied(y))
    BY OtherFieldsSane DEF Emptied, SaneWorld
  <2> HIDE DEF y
  <2>3. Steady(y)
    BY <2>1, <2>2, DataSteady
  <2> QED
    BY <2>3, FinishSteady
<1>2. ~op.canceled => Steady(run(m, "uris", x))
  <2>1. /\ Steady(m) /\ HasRoom(m) /\ ~Waiting(m.c) /\ m.c.skip = w.c.skip
    BY MarkSteady
  <2>2. x # NoOp /\ IsOp(x) /\ ~x.canceled /\ x.kind = "playuris"
    BY DEF Op, NoOp, IsOp, Kinds
  <2> HIDE DEF m, x
  <2> QED
    BY <2>1, <2>2, RunSteady
<1> DEFINE f == found_item_for_playing(w0, o, op)
<1> HIDE DEF f, z, m, x
<1>3. \/ f \in {w, z}
      \/ ~op.canceled /\ f = run(m, "uris", x)
  <2>1. CASE op.canceled
    <3>1. f = w
      BY <2>1 DEF found_item_for_playing, f
    <3> QED
      BY <3>1
  <2>2. CASE ~op.canceled /\ op.res # "found"
    <3>1. f = z
      BY <2>2 DEF found_item_for_playing, f, z
    <3> QED
      BY <3>1
  <2>3. CASE ~op.canceled /\ op.res = "found"
    <3>1. f = run(m, "uris", x)
      BY <2>3 DEF found_item_for_playing, f, m, x
    <3> QED
      BY <2>3, <3>1
  <2> QED
    BY <2>1, <2>2, <2>3
<1>4. Steady(f)
  BY <1>1, <1>2, <1>3
<1> QED
  BY <1>4 DEF f

(* The URIs of the item to be played have been found, or not.              *)
LEMMA PlayUrisSteady ==
    ASSUME NEW w0, NEW o, NEW op, NEW w,
           w = IF w0.c.uris = o THEN WithControl(w0, [w0.c EXCEPT !.uris = None]) ELSE w0,
           Steady(w), HasRoom(w), ~Waiting(w.c), op.canceled => Steady(w0)
    PROVE  Steady(found_item_uris_for_playing(w0, o, op))
<1> DEFINE y == queue_item_from_op(w, op.pos, "REPLACE_ALL", "PAUSE_IF_IDLE")
           z == start_prefetch_next_item(y, "ABOUT_TO_PLAY", "FORWARD", FALSE, "running")
           q == queue_item_from_op(w, op.pos, "REPLACE_ALL", "PLAY_IF_IDLE")
           s == skip_request(w, op.dir)
           f == found_item_uris_for_playing(w0, o, op)
<1>1. Steady(y) /\ HasRoom(y) /\ Steady(q)
  BY QueueItemSteady
<1> HIDE DEF y
<1>2. Steady(z)
  BY <1>1, PrefetchSteady
<1>3. Steady(s)
  BY SkipSteady
<1>4. \/ op.canceled /\ f = w0
      \/ f \in {w, z, q, s}
  BY DEF found_item_uris_for_playing, y
<1> HIDE DEF f, z, q, s
<1>5. Steady(f)
  BY <1>1, <1>2, <1>3, <1>4
<1> QED
  BY <1>5 DEF f

(* The next item has been found, or not.                                   *)
LEMMA PrefetchedItemSteady ==
    ASSUME NEW w0, NEW o, NEW op, NEW w,
           w = WithControl(BugIf(w0, w0.c.next # o, "assertion"),
                           [BugIf(w0, w0.c.next # o, "assertion").c EXCEPT !.next = None]),
           op.canceled => Steady(w0),
           ~op.canceled => Steady(w) /\ HasRoom(w) /\ ~Waiting(w.c) /\ w.c.skip = None
    PROVE  Steady(found_prefetched_item(w0, o, op))
<1> DEFINE m == Mark(w, "PREFETCH_CURSOR", Found(op))
           x == [Op("prefetchuris", Found(op), op.dir) EXCEPT !.force = op.force]
           v == WithControl(w, [w.c EXCEPT !.dir = "FORWARD"])
           y == start_prefetch_next_item(v, "PREFETCH_CURSOR", "FORWARD", FALSE, "delayed")
           z == player_finished(w, "PREFETCHING", TRUE)
           f == found_prefetched_item(w0, o, op)
<1>1. ASSUME ~op.canceled
      PROVE  Steady(run(m, "uris", x))
  <2>1. /\ Steady(m) /\ HasRoom(m) /\ ~Waiting(m.c) /\ m.c.skip = w.c.skip
    BY <1>1, MarkSteady
  <2>2. x # NoOp /\ IsOp(x) /\ ~x.canceled /\ x.kind = "prefetchuris"
    BY DEF Op, NoOp, IsOp, Kinds
  <2> HIDE DEF m, x
  <2> QED
    BY <1>1, <2>1, <2>2, RunSteady
<1>2. ASSUME ~op.canceled
      PROVE  Steady(y) /\ Steady(z)
  <2>1. Steady(v) /\ HasRoom(v)
    BY <1>2, OtherSteady
  <2> HIDE DEF v
  <2> QED
    BY <1>2, <2>1, PrefetchSteady, FinishSteady
<1> HIDE DEF f, m, x, y, z
<1>3. \/ op.canceled /\ f = w0
      \/ ~op.canceled /\ f \in {w, run(m, "uris", x), y, z}
  <2>1. CASE op.canceled
    <3>1. f = w0
      BY <2>1 DEF found_prefetched_item, f
    <3> QED
      BY <2>1, <3>1
  <2>2. CASE ~op.canceled
    <3> HIDE DEF run, Mark, Op, WithControl, BugIf
    <3>1. f \in {w, run(m, "uris", x), y, z}
      BY <2>2 DEF found_prefetched_item, f, m, x, y, z
    <3> QED
      BY <2>2, <3>1
  <2> QED
    BY <2>1, <2>2
<1>4. Steady(f)
  BY <1>1, <1>2, <1>3
<1> QED
  BY <1>4 DEF f

(* The URIs of the next item have been found, or not.                      *)
LEMMA PrefetchedUrisSteady ==
    ASSUME NEW w0, NEW o, NEW op, NEW w,
           w = IF w0.c.uris = o THEN WithControl(w0, [w0.c EXCEPT !.uris = None]) ELSE w0,
           Steady(w), HasRoom(w), ~Waiting(w.c), op.canceled => Steady(w0)
    PROVE  Steady(found_prefetched_item_uris(w0, o, op))
<1> DEFINE f == found_prefetched_item_uris(w0, o, op)
<1>1. \A im, pm, from, dir, execution :
          Steady(start_prefetch_next_item(queue_item_from_op(w, op.pos, im, pm), from, dir, FALSE, execution))
  BY QueueItemSteady, PrefetchSteady
<1>2. \A from, dir, force, execution : Steady(start_prefetch_next_item(w, from, dir, force, execution))
  BY PrefetchSteady
<1>3. \/ op.canceled /\ f = w0
      \/ f = w
      \/ \E from, dir, force, execution : f = start_prefetch_next_item(w, from, dir, force, execution)
      \/ \E im, pm, from, dir, execution :
            f = start_prefetch_next_item(queue_item_from_op(w, op.pos, im, pm), from, dir, FALSE, execution)
  BY DEF found_prefetched_item_uris
<1> HIDE DEF f
<1>4. Steady(f)
  BY <1>1, <1>2, <1>3
<1> QED
  BY <1>4 DEF f

(* The item to skip to has been found, or not.                             *)
LEMMA SkippedSteady ==
    ASSUME NEW w0, NEW o, NEW op, NEW w,
           w = WithControl(w0, [w0.c EXCEPT !.skip = None]),
           Steady(w), HasRoom(w), ~Waiting(w.c), w.c.skip = None,
           w0.c.skip = o => w.c.next = None /\ w.c.uris = None
    PROVE  Steady(found_or_failed(w0, o, op))
<1> DEFINE v == Intend(w, op.prev)
           x == WithControl(v, [cancel(v.c, v.c.next) EXCEPT !.next = None])
           r == Op("revert", v.c.marks["CURRENTLY_PLAYING"], "NONE")
           f == found_or_failed(w0, o, op)
<1>1. Steady(v) /\ HasRoom(v) /\ v.c = w.c
  BY FieldSteady DEF Intend
<1> HIDE DEF v
<1>2. Steady(x) /\ HasRoom(x) /\ ~Waiting(x.c) /\ x.c.next = None /\ x.c.skip = None
  BY <1>1, CancelNextSteady DEF Waiting
<1> HIDE DEF x
<1>3. Steady(found_item_for_playing(x, o, op))
  <2> DEFINE u == BugIf(x, x.c.next \notin {None, o}, "assertion")
             y == WithControl(u, [u.c EXCEPT !.next = None])
  <2>1. u = x
    BY <1>2 DEF BugIf
  <2>2. /\ DOMAIN y.c = DOMAIN x.c /\ y.d = x.d
        /\ \A g \in ControlFields : y.c[g] = x.c[g]
    BY <1>2, <2>1 DEF ControlFields, Steady
  <2>3. Emptied(x) => Emptied(y)
    BY <2>2 DEF Emptied, SaneWorld
  <2>4. y = WithControl(BugIf(x, x.c.next \notin {None, o}, "assertion"),
                        [BugIf(x, x.c.next \notin {None, o}, "assertion").c EXCEPT !.next = None])
    OBVIOUS
  <2> HIDE DEF y, u
  <2>5. Steady(y) /\ HasRoom(y)
    BY <1>2, <2>2, <2>3, FrameSteady DEF ControlFields
  <2>6. ~Waiting(y.c) /\ y.c.skip = None
    BY <1>2, <2>2 DEF ControlFields, Waiting
  <2> QED
    BY <2>4, <2>5, <2>6, PlayItemSteady
<1>4. Steady(Bug(w, "null")) /\ Steady(Bug(v, "null"))
  BY <1>1, FieldSteady
<1>5. w0.c.skip = o => Steady(run(v, "skip", r))
  <2>1. r # NoOp /\ IsOp(r) /\ ~r.canceled /\ r.kind = "revert"
    BY DEF Op, NoOp, IsOp, Kinds
  <2> HIDE DEF r
  <2> QED
    BY <1>1, <2>1, RunSteady
<1>6. \/ f \in {w, Bug(w, "null"), Bug(v, "null"), found_item_for_playing(x, o, op)}
      \/ w0.c.skip = o /\ f = run(v, "skip", r)
  BY DEF found_or_failed, x, v
<1> HIDE DEF f, r
<1>7. Steady(f)
  BY <1>3, <1>4, <1>5, <1>6
<1> QED
  BY <1>7 DEF f

(* The completion of any operation.                                        *)
LEMMA CompletedSteady ==
    ASSUME NEW w, Steady(w), IsAlive(w.c), w.c.done # <<>>, NEW o \in OpIds, NEW w0,
           w0 = WithControl(w, [w.c EXCEPT !.ops[o] = NoOp, !.done = Tail(@)])
    PROVE  Steady(completed(w0, o, w.c.ops[o]))
<1> DEFINE op == w.c.ops[o]
<1>1. /\ DOMAIN w0.c = DOMAIN w.c /\ w0.d = w.d
      /\ w0.c.ops = [w.c.ops EXCEPT ![o] = NoOp] /\ w0.c.done = Tail(w.c.done)
      /\ \A f \in ControlFields \ {"ops", "done"} : w0.c[f] = w.c[f]
  BY DEF Steady, ControlFields
<1>2. /\ w0.c.next = w.c.next /\ w0.c.uris = w.c.uris /\ w0.c.skip = w.c.skip
      /\ w0.c.bugs = w.c.bugs /\ w0.c.marks = w.c.marks /\ w0.c.plugged = w.c.plugged
      /\ w0.c.source = w.c.source /\ w0.c.handle = w.c.handle /\ w0.c.hold = w.c.hold
      /\ w0.c.saved = w.c.saved
  BY <1>1 DEF ControlFields
<1>3. ControlFields \subseteq DOMAIN w0.c /\ DOMAIN w.c.marks = Marks
  BY <1>1 DEF Steady
\* What becomes of the completed operation's pointers.
<1>4. ASSUME NEW x, DOMAIN x.c = DOMAIN w0.c, x.d = w0.d, w0.c.bugs \subseteq x.c.bugs,
             \A f \in ControlFields \ {"next", "uris", "skip", "bugs"} : x.c[f] = w0.c[f],
             x.c.next \in {w.c.next, None}, x.c.uris \in {w.c.uris, None}, x.c.skip \in {w.c.skip, None},
             o \notin {x.c.next, x.c.uris, x.c.skip},
             IsAlive(x.c) => x.c.next = w.c.next \/ w.c.next = o
      PROVE  Steady(x) /\ HasRoom(x)
  <2>1. /\ x.c.ops = w0.c.ops /\ x.c.done = w0.c.done /\ x.c.marks = w0.c.marks
        /\ x.c.plugged = w0.c.plugged /\ x.c.source = w0.c.source /\ x.c.handle = w0.c.handle
        /\ x.c.hold = w0.c.hold /\ x.c.saved = w0.c.saved
    BY <1>4 DEF ControlFields
  <2>2. SameSource(w.c, x.c)
    BY <1>1, <1>2, <1>3, <1>4, <2>1 DEF SameSource
  <2>3. /\ x.c.marks = w.c.marks /\ x.d = w.d /\ w.c.bugs \subseteq x.c.bugs
        /\ x.c.ops = [w.c.ops EXCEPT ![o] = NoOp] /\ x.c.done = Tail(w.c.done)
    BY <1>1, <1>2, <1>4, <2>1
  <2>4. /\ x.c.next \in {w.c.next, None} /\ x.c.uris \in {w.c.uris, None} /\ x.c.skip \in {w.c.skip, None}
        /\ o \notin {x.c.next, x.c.uris, x.c.skip}
        /\ IsAlive(x.c) => x.c.next = w.c.next \/ w.c.next = o
    BY <1>4
  <2> QED
    BY <2>2, <2>3, <2>4, TakenSteady
<1>5. /\ Owns(w.c, w.c.next, {"play", "prefetch"})
      /\ Owns(w.c, w.c.uris, {"playuris", "prefetchuris"})
      /\ Owns(w.c, w.c.skip, {"skip", "revert"})
      /\ w.c.skip # None => w.c.next = None /\ w.c.uris = None
      /\ Finding(op) => w.c.next = o
      /\ o # None
  BY OpIdsAssumption DEF Steady, OpsOwned
<1>6. op.canceled => op = NoOp \/ o \notin {w.c.next, w.c.uris, w.c.skip}
  BY <1>5 DEF Owns
<1>7. ASSUME op # NoOp
      PROVE  ~Waiting(w.c)
  BY <1>7 DEF Steady, Idle
<1> HIDE DEF op
<1>8. o \notin {w.c.next, w.c.uris, w.c.skip} => Steady(w0) /\ HasRoom(w0)
  <2> SUFFICES ASSUME o \notin {w.c.next, w.c.uris, w.c.skip}
               PROVE  Steady(w0) /\ HasRoom(w0)
    OBVIOUS
  <2> QED
    BY <1>2, <1>4
<1>9. CASE op = NoOp
  <2>1. o \notin {w.c.next, w.c.uris, w.c.skip}
    BY <1>5, <1>9 DEF Owns, op
  <2>2. completed(w0, o, op) = skipper_reset(w0)
    BY <1>9 DEF completed, NoOp
  <2> QED
    BY <1>8, <2>1, <2>2, ResetSteady DEF op
<1>10. CASE op # NoOp /\ op.kind = "play"
  <2> DEFINE u == BugIf(w0, w0.c.next \notin {None, o}, "assertion")
             x == WithControl(u, [u.c EXCEPT !.next = None])
  <2>1. /\ DOMAIN x.c = DOMAIN w0.c /\ x.d = w0.d /\ x.c.next = None
        /\ \A f \in ControlFields \ {"next", "bugs"} : x.c[f] = w0.c[f]
        /\ x.c.bugs = IF w0.c.next \notin {None, o} THEN w0.c.bugs \cup {"assertion"} ELSE w0.c.bugs
    BY <1>3 DEF BugIf, Bug, ControlFields
  <2>2. x = WithControl(BugIf(w0, w0.c.next \notin {None, o}, "assertion"),
                        [BugIf(w0, w0.c.next \notin {None, o}, "assertion").c EXCEPT !.next = None])
    OBVIOUS
  <2> HIDE DEF u, x
  <2>3. /\ x.c.uris = w.c.uris /\ x.c.skip = w.c.skip /\ x.c.plugged = w.c.plugged /\ x.c.source = w.c.source
        /\ x.c.handle = w.c.handle
    BY <1>2, <2>1 DEF ControlFields
  <2>4. o # w.c.uris /\ o # w.c.skip
    BY <1>5, <1>10 DEF Owns, op
  <2>5. Steady(x) /\ HasRoom(x)
    BY Zenon, <1>2, <1>4, <1>5, <2>1, <2>3, <2>4 DEF IsAlive
  <2>6. ~Waiting(x.c)
    BY <1>7, <1>10, <2>3 DEF Waiting
  <2>7. ~op.canceled => x.c.skip = None
    BY <1>5, <1>10, <2>3 DEF Finding
  <2>8. completed(w0, o, op) = found_item_for_playing(w0, o, op)
    BY <1>10 DEF completed
  <2> QED
    BY Zenon, <2>2, <2>5, <2>6, <2>7, <2>8, PlayItemSteady DEF op
<1>11. CASE op # NoOp /\ op.kind \in {"playuris", "prefetchuris"}
  <2> DEFINE x == IF w0.c.uris = o THEN WithControl(w0, [w0.c EXCEPT !.uris = None]) ELSE w0
  <2>1. /\ DOMAIN x.c = DOMAIN w0.c /\ x.d = w0.d /\ x.c.bugs = w0.c.bugs
        /\ \A f \in ControlFields \ {"uris"} : x.c[f] = w0.c[f]
        /\ x.c.uris = IF w0.c.uris = o THEN None ELSE w0.c.uris
    BY <1>3 DEF ControlFields
  <2>2. x = IF w0.c.uris = o THEN WithControl(w0, [w0.c EXCEPT !.uris = None]) ELSE w0
    OBVIOUS
  <2> HIDE DEF x
  <2>3. /\ x.c.next = w.c.next /\ x.c.skip = w.c.skip /\ x.c.plugged = w.c.plugged /\ x.c.source = w.c.source
        /\ x.c.handle = w.c.handle
    BY <1>2, <2>1 DEF ControlFields
  <2>4. o # w.c.next /\ o # w.c.skip
    BY <1>5, <1>11 DEF Owns, op
  <2>5. Steady(x) /\ HasRoom(x)
    BY <1>2, <1>4, <1>5, <2>1, <2>3, <2>4
  <2>6. ~Waiting(x.c)
    BY <1>7, <1>11, <2>3 DEF Waiting
  <2>7. op.canceled => Steady(w0)
    BY <1>6, <1>8, <1>11
  <2>8. completed(w0, o, op) \in {found_item_uris_for_playing(w0, o, op), found_prefetched_item_uris(w0, o, op)}
    BY <1>11 DEF completed
  <2>9. Steady(found_item_uris_for_playing(w0, o, op)) /\ Steady(found_prefetched_item_uris(w0, o, op))
    BY <2>2, <2>5, <2>6, <2>7, PlayUrisSteady, PrefetchedUrisSteady
  <2> QED
    BY <2>8, <2>9 DEF op
<1>12. CASE op # NoOp /\ op.kind = "prefetch"
  <2> DEFINE u == BugIf(w0, w0.c.next # o, "assertion")
             x == WithControl(u, [u.c EXCEPT !.next = None])
  <2>1. x = WithControl(BugIf(w0, w0.c.next # o, "assertion"),
                        [BugIf(w0, w0.c.next # o, "assertion").c EXCEPT !.next = None])
    OBVIOUS
  <2>2. ASSUME ~op.canceled
        PROVE  Steady(x) /\ HasRoom(x) /\ ~Waiting(x.c) /\ x.c.skip = None
    <3>1. w.c.next = o /\ w.c.skip = None
      BY <1>5, <1>12, <2>2 DEF Finding
    <3>2. u = w0
      BY <1>2, <3>1 DEF BugIf
    <3>3. /\ DOMAIN x.c = DOMAIN w0.c /\ x.d = w0.d /\ x.c.next = None
          /\ \A f \in ControlFields \ {"next"} : x.c[f] = w0.c[f]
      BY <1>3, <3>2 DEF ControlFields
    <3> HIDE DEF u, x
    <3>4. /\ x.c.uris = w.c.uris /\ x.c.skip = w.c.skip /\ x.c.plugged = w.c.plugged
          /\ x.c.source = w.c.source /\ x.c.bugs = w.c.bugs /\ x.c.handle = w.c.handle
      BY <1>2, <3>3 DEF ControlFields
    <3>5. o # w.c.uris /\ o # w.c.skip
      BY <1>5, <1>12 DEF Owns, op
    <3>6. Steady(x) /\ HasRoom(x)
      BY <1>2, <1>4, <1>5, <3>1, <3>3, <3>4, <3>5
    <3> QED
      BY <1>7, <1>12, <3>1, <3>4, <3>6 DEF Waiting
  <2>3. op.canceled => Steady(w0)
    BY <1>6, <1>8, <1>12
  <2>4. completed(w0, o, op) = found_prefetched_item(w0, o, op)
    BY <1>12 DEF completed
  <2> HIDE DEF u, x
  <2> QED
    BY <2>1, <2>2, <2>3, <2>4, PrefetchedItemSteady DEF op
<1>13. CASE op # NoOp /\ op.kind = "skip"
  <2> DEFINE x == WithControl(w0, [w0.c EXCEPT !.skip = None])
  <2>1. /\ DOMAIN x.c = DOMAIN w0.c /\ x.d = w0.d /\ x.c.skip = None
        /\ \A f \in ControlFields \ {"skip"} : x.c[f] = w0.c[f]
    BY <1>3 DEF ControlFields
  <2>2. x = WithControl(w0, [w0.c EXCEPT !.skip = None])
    OBVIOUS
  <2> HIDE DEF x
  <2>3. /\ x.c.uris = w.c.uris /\ x.c.next = w.c.next /\ x.c.plugged = w.c.plugged
        /\ x.c.source = w.c.source /\ x.c.bugs = w.c.bugs /\ x.c.handle = w.c.handle
    BY <1>2, <2>1 DEF ControlFields
  <2>4. o # w.c.next /\ o # w.c.uris
    BY <1>5, <1>13 DEF Owns, op
  <2>5. Steady(x) /\ HasRoom(x)
    BY <1>2, <1>4, <1>5, <2>1, <2>3, <2>4
  <2>6. ~Waiting(x.c)
    BY <1>7, <1>13, <2>3 DEF Waiting
  <2>7. w0.c.skip = o => x.c.next = None /\ x.c.uris = None
    BY <1>2, <1>5, <2>3
  <2>8. completed(w0, o, op) = found_or_failed(w0, o, op)
    BY <1>13 DEF completed
  <2>9. x.c.skip = None
    BY <2>1
  <2>10. Steady(found_or_failed(w0, o, op))
    BY <2>2, <2>5, <2>6, <2>7, <2>9, SkippedSteady
  <2> QED
    BY <2>8, <2>10 DEF op
<1>14. CASE op # NoOp /\ op.kind = "revert"
  <2> DEFINE y == skipper_reset(w0)
  <2>1. completed(w0, o, op) = y
    BY <1>14 DEF completed
  <2>2. o # w.c.next /\ o # w.c.uris
    BY <1>5, <1>14 DEF Owns, op
  <2>3. CASE w.c.skip # o
    BY <1>8, <2>1, <2>2, <2>3, ResetSteady DEF op
  <2>4. CASE w.c.skip = o
    <3>1. cancel(w0.c, w0.c.skip) = w0.c
      <4>1. DOMAIN w.c.ops = OpIds
        BY DEF Steady, OpTable
      <4>2. w0.c.ops[o] = NoOp
        BY <1>1, <4>1
      <4> QED
        BY <1>2, <2>4, <4>2 DEF cancel
    <3>2. /\ DOMAIN y.c = DOMAIN w0.c /\ y.d = w0.d /\ y.c.skip = None
          /\ \A f \in ControlFields \ {"skip"} : y.c[f] = w0.c[f]
      BY <1>3, <3>1 DEF skipper_reset, ControlFields
    <3> HIDE DEF y
    <3>3. y.c.uris = w.c.uris /\ y.c.next = w.c.next /\ y.c.bugs = w.c.bugs
      BY <1>2, <3>2 DEF ControlFields
    <3>4. Steady(y)
      BY <1>2, <1>4, <1>5, <2>2, <3>2, <3>3
    <3> QED
      BY <2>1, <3>4 DEF op
  <2> QED
    BY <2>3, <2>4
<1>15. op # NoOp => op.kind \in Kinds
  BY DEF Steady, OpsOwned, IsOp, op
<1> QED
  BY <1>9, <1>10, <1>11, <1>12, <1>13, <1>14, <1>15 DEF Kinds

(***************************************************************************)
(* Signals of the player                                                   *)
(***************************************************************************)
(* A stream is pushed again.                                               *)
LEMMA ReplaySteady ==
    ASSUME NEW w, Steady(w), HasRoom(w), NEW id, NEW mode
    PROVE  Steady(replay(w, id, mode).w) /\ HasRoom(replay(w, id, mode).w)
<1> DEFINE x == WithData(w, prepare_for_recovery(w.d, {id}))
           u == send_selected_file_uri_to_streamplayer(x, id, "REPLACE_ALL", mode)
           v == send_others_again(u, id)
<1>1. Steady(x) /\ HasRoom(x)
  <2>1. x.c = w.c /\ (Emptied(w) => Emptied(x))
    BY StatesSane DEF Emptied, SaneWorld
  <2> HIDE DEF x
  <2> QED
    BY <2>1, DataSteady
<1> HIDE DEF x
<1>2. Steady(u) /\ HasRoom(u)
  BY <1>1, PushSteady
<1> HIDE DEF u
<1>3. Steady(v) /\ HasRoom(v)
  <2>1. v.c = u.c /\ v.d = requeued(u.d, id)
    BY DEF send_others_again
  <2> HIDE DEF v
  <2>2. Emptied(u) => Emptied(v)
    BY <2>1, StatesSane DEF Emptied, SaneWorld
  <2> QED
    BY <1>2, <2>1, <2>2, DataSteady
<1>4. replay(w, id, mode).w \in {w, u, v}
  <2>1. replayed(u, id).w \in {u, v}
    BY DEF replayed, Reaction
  <2> HIDE DEF v
  <2> QED
    BY <2>1 DEF replay, Reaction, x, u
<1> HIDE DEF v
<1> QED
  BY <1>2, <1>3, <1>4

(* A failed stream is skipped.                                             *)
LEMMA FailedStreamSteady ==
    ASSUME NEW w0, Steady(w0), HasRoom(w0), NEW s, NEW pausing
    PROVE  Steady(skip_failed_stream(w0, s, pausing).w)
<1> DEFINE y == WithData(w0, queued_stream_remove(w0.d, s.id))
           w == reset_retry(y)
           next == WithControl(w, [w.c EXCEPT !.marks["ABOUT_TO_PLAY"] =
                                    IF front(w.d) \in DOMAIN w.d.streams THEN w.d.streams[front(w.d)].pos ELSE @])
<1>1. Steady(w) /\ HasRoom(w)
  <2>1. y.c = w0.c /\ (Emptied(w0) => Emptied(y))
    BY RemoveSane DEF Emptied, SaneWorld
  <2> HIDE DEF y
  <2>2. Steady(y) /\ HasRoom(y)
    BY <2>1, DataSteady
  <2> QED
    BY <2>2, FieldSteady
<1> HIDE DEF w
<1>2. Steady(next)
  <2>1. /\ SameOps(w.c, next.c) /\ next.d = w.d
        /\ front(w.d) \notin DOMAIN w.d.streams => \A m \in Marks : next.c.marks[m] = w.c.marks[m]
    BY <1>1 DEF SameOps, SameSource, Steady, ControlFields
  <2> HIDE DEF next
  <2>2. Emptied(w) => front(w.d) \notin DOMAIN w.d.streams
    BY NoneAssumption DEF Emptied, SaneWorld, Sane, Consistent, InOrder, Elements, OnlyId, front
  <2>3. Waiting(w.c) => Unmarked(next.c) /\ Emptied(next)
    BY <1>1, <2>1, <2>2 DEF Steady, Unmarked, Emptied, SaneWorld, SameOps, SameSource
  <2> QED
    BY <1>1, <2>1, <2>3, SameSteady
<1> HIDE DEF next
<1>3. \A from, dir, force, execution : Steady(start_prefetch_next_item(w, from, dir, force, execution))
  BY <1>1, PrefetchSteady
<1>4. \A b : Steady(Bug(w, b))
  BY <1>1, FieldSteady
<1>5. Steady(send_pause_command(next)) /\ Steady(send_play_command(next))
  BY <1>2, SendSteady
<1> QED
  BY Zenon, <1>1, <1>3, <1>4, <1>5 DEF skip_failed_stream, Reaction, next, w, y

(* A failed stream is tried again, or skipped.                             *)
LEMMA RetrySteady ==
    ASSUME NEW w, Steady(w), HasRoom(w), NEW s, NEW pausing
    PROVE  Steady(retry_or_skip(w, s, pausing).w)
<1> DEFINE tracked == WithControl(w, [w.c EXCEPT !.retry.id = s.id])
<1>1. Steady(tracked) /\ HasRoom(tracked)
  BY OtherSteady
<1> HIDE DEF tracked
<1>2. ASSUME NEW mode
      PROVE  /\ Steady(replay(retry(w, s.id), s.id, mode).w)
             /\ HasRoom(replay(retry(w, s.id), s.id, mode).w)
  BY FieldSteady, ReplaySteady
<1>3. /\ Steady(skip_failed_stream(w, s, pausing).w)
      /\ Steady(skip_failed_stream(tracked, s, pausing).w)
  BY <1>1, FailedStreamSteady
<1>4. ASSUME NEW again, Steady(again.w), HasRoom(again.w)
      PROVE  Steady(retried(again, s, pausing).w)
  BY <1>4, FailedStreamSteady DEF retried, Reaction
<1> QED
  BY <1>2, <1>3, <1>4 DEF retry_or_skip, tracked

(* The notifications of player control about a stopped stream.             *)
LEMMA StopSteady ==
    ASSUME NEW w, Steady(w), HasRoom(w)
    PROVE  /\ \A id : Steady(stop_notification_ok(w, id).w)
           /\ \A s : Steady(stop_notification_with_error(w, s).w)
<1>1. ASSUME NEW id
      PROVE  Steady(stop_notification_ok(w, id).w)
  <2> DEFINE y == WithData(w, player_has_stopped(w.d))
             v == reset_retry(y)
  <2>1. y.c = w.c /\ (Emptied(w) => Emptied(y))
    BY OtherFieldsSane DEF Emptied, SaneWorld
  <2> HIDE DEF y
  <2>2. Steady(v)
    BY <2>1, DataSteady, FieldSteady
  <2> HIDE DEF v
  <2>3. Steady(send_play_command(v))
    BY <2>2, SendSteady
  <2> QED
    BY <2>2, <2>3 DEF stop_notification_ok, Reaction, v, y
<1>2. ASSUME NEW s
      PROVE  Steady(stop_notification_with_error(w, s).w)
  <2>1. \A pausing : Steady(retry_or_skip(w, s, pausing).w)
    BY RetrySteady
  <2> QED
    BY <2>1 DEF stop_notification_with_error, Reaction
<1> QED
  BY <1>1, <1>2

(* The signal for a stopped stream, and the reaction of the play view.     *)
LEMMA StoppedSteady ==
    ASSUME NEW w, Steady(w), HasRoom(w), NEW s
    PROVE  Steady(stream_stopped(w, s))
<1> DEFINE v == WithData(w, player_has_stopped(player_dropped_from_queue(w.d, s.dropped)))
           r == IF s.err = "" THEN stop_notification_ok(v, s.id) ELSE stop_notification_with_error(v, s)
<1>1. Steady(v) /\ HasRoom(v)
  <2>1. v.c = w.c /\ (Emptied(w) => Emptied(v))
    BY DroppedSane, OtherFieldsSane DEF Emptied, SaneWorld
  <2> HIDE DEF v
  <2> QED
    BY <2>1, DataSteady
<1> HIDE DEF v
<1>2. Steady(r.w)
  BY Zenon, <1>1, StopSteady
<1> HIDE DEF r
<1>3. Steady(react(r))
  <2>1. \A active \in BOOLEAN : Steady(player_finished(r.w, "PLAYING", active))
    BY <1>2, FinishSteady
  <2> DEFINE y == WithData(r.w, queued_stream_playing_next(r.w.d))
  <2>2. Steady(y)
    <3>1. y.c = r.w.c
      OBVIOUS
    <3>2. Emptied(r.w) => Emptied(y)
      BY NextSane DEF Emptied, SaneWorld, Elements
    <3> HIDE DEF y
    <3> QED
      BY <1>2, <3>1, <3>2, DataSteady
  <2> HIDE DEF y
  <2>3. react(r) \in {r.w, y} \cup {player_finished(r.w, "PLAYING", active) : active \in BOOLEAN}
    BY DEF react, y
  <2> QED
    BY <1>2, <2>1, <2>2, <2>3
<1> QED
  BY Zenon, <1>3 DEF stream_stopped, r, v

(* The notification of player control about a stream being played.         *)
LEMMA NotifiedSteady ==
    ASSUME NEW w0, Steady(w0), HasRoom(w0), NEW id, NEW is_new
    PROVE  Steady(play_notification(w0, id, is_new)) /\ HasRoom(play_notification(w0, id, is_new))
<1> DEFINE w == WithControl(w0, [w0.c EXCEPT !.retry.id = id])
           backward == w.c.handle /\ is_new /\ w.c.dir = "BACKWARD"
           f == WithControl(w, [w.c EXCEPT !.dir = "FORWARD"])
           v == IF backward THEN invalidate_prefetched_uris(f) ELSE w
           moved == CASE ~(w.c.handle /\ id \in DOMAIN v.d.streams) -> {}
                      [] w.c.handle /\ id \in DOMAIN v.d.streams ->
                             (IF backward /\ has_proxy(w) THEN {"PREFETCH_CURSOR"} ELSE {})
                             \cup (IF is_new THEN {"CURRENTLY_PLAYING", "ABOUT_TO_PLAY"} ELSE {})
           x == WithControl(v, [v.c EXCEPT !.marks =
                    [m \in Marks |-> IF m \in moved THEN v.d.streams[id].pos ELSE @[m]]])
<1>1. Steady(w) /\ HasRoom(w)
  BY OtherSteady
<1> HIDE DEF w
<1>2. Steady(v) /\ HasRoom(v)
  <2>1. Steady(f) /\ HasRoom(f)
    BY <1>1, OtherSteady
  <2> HIDE DEF f
  <2> QED
    BY <1>1, <2>1, ForgetSteady
<1> HIDE DEF v
<1>3. Emptied(v) => moved = {}
  <2>1. Emptied(v) => id \notin DOMAIN v.d.streams
    BY DEF Emptied, SaneWorld, Sane, Consistent, InOrder, Elements, OnlyId
  <2> QED
    BY <2>1
<1> HIDE DEF moved
<1>4. Steady(x) /\ HasRoom(x)
  <2>1. /\ SameOps(v.c, x.c) /\ x.d = v.d
        /\ moved = {} => \A m \in Marks : x.c.marks[m] = v.c.marks[m]
    BY <1>2 DEF SameOps, SameSource, Steady, ControlFields
  <2> HIDE DEF x
  <2>2. Waiting(v.c) => Unmarked(x.c) /\ Emptied(x)
    BY <1>2, <1>3, <2>1 DEF Steady, Unmarked, Emptied, SaneWorld, SameOps, SameSource
  <2> QED
    BY <1>2, <2>1, <2>2, SameSteady
<1>5. play_notification(w0, id, is_new) = IF attached(w) THEN enforce_intention(x, "playing") ELSE w
  BY DEF play_notification, x, moved, v, f, w
<1> HIDE DEF x
<1> QED
  BY <1>1, <1>4, <1>5, RequestsSteady

(* Any signal of the player.                                               *)
LEMMA SignalSteady ==
    ASSUME NEW w, Steady(w), HasRoom(w), NEW s
    PROVE  Steady(handle_signal(w, s))
<1>1. s.id # None => Steady(now_playing(w, s))
  <2> DEFINE switched == w.d.now # s.id
             d == player_dropped_from_queue(w.d, s.dropped)
             v == IF switched THEN WithData(w, set_intention(player_now_playing_stream(d, s.id), "LISTENING"))
                  ELSE WithData(w, d)
             x == play_notification(v, s.id, switched)
  <2> SUFFICES ASSUME s.id # None
               PROVE  Steady(now_playing(w, s))
    OBVIOUS
  <2>1. Emptied(w) => Sane({None}, <<>>, d)
    BY DroppedSane DEF Emptied, SaneWorld
  <2> HIDE DEF d
  <2>2. v.c = w.c
    OBVIOUS
  <2>3. ASSUME Emptied(w)
        PROVE  Emptied(v)
    <3> DEFINE e == player_now_playing_stream(d, s.id)
    <3>1. Elements(<<>>) \subseteq {None}
      BY DEF Elements
    <3>2. Sane({None}, <<>>, e)
      BY <2>1, <2>3, <3>1, NowPlayingSane
    <3> HIDE DEF e
    <3>3. Sane({None}, <<>>, set_intention(e, "LISTENING"))
      BY <3>2, OtherFieldsSane
    <3>4. v.d \in {d, set_intention(e, "LISTENING")}
      BY DEF e
    <3>5. Sane({None}, <<>>, v.d)
      BY <2>1, <2>3, <3>3, <3>4
    <3> QED
      BY <2>2, <2>3, <3>5 DEF Emptied, SaneWorld
  <2> HIDE DEF v
  <2>4. Steady(v) /\ HasRoom(v)
    BY <2>2, <2>3, DataSteady
  <2>5. Steady(x) /\ HasRoom(x)
    BY <2>4, NotifiedSteady
  <2> HIDE DEF x
  <2>6. Steady(start_prefetch_next_item(x, "PREFETCH_CURSOR", "FORWARD", FALSE, "delayed"))
    BY <2>5, PrefetchSteady
  <2> QED
    BY <2>5, <2>6 DEF now_playing, x, v, d
<1>2. Steady(stream_stopped(w, s))
  BY StoppedSteady
<1>3. Steady(stream_paused(w, s))
  <2> DEFINE y == WithData(w, [w.d EXCEPT !.state = "paused"])
             v == WithControl(y, [y.c EXCEPT !.retry.id = s.id])
  <2>1. y.c = w.c /\ (Emptied(w) => Emptied(y))
    BY OtherFieldsSane DEF Emptied, SaneWorld
  <2>2. stream_paused(w, s) = IF attached(v) THEN enforce_intention(v, "paused") ELSE v
    BY DEF stream_paused
  <2> HIDE DEF y
  <2>3. Steady(y)
    BY <2>1, DataSteady
  <2>4. Steady(v)
    BY <2>3, OtherSteady
  <2> HIDE DEF v
  <2> QED
    BY <2>2, <2>4, RequestsSteady
<1>4. Steady(stream_unpaused(w, s))
  <2> DEFINE y == WithData(w, [w.d EXCEPT !.state = "playing"])
  <2>1. y.c = w.c /\ (Emptied(w) => Emptied(y))
    BY OtherFieldsSane DEF Emptied, SaneWorld
  <2> HIDE DEF y
  <2>2. Steady(y) /\ HasRoom(y)
    BY <2>1, DataSteady
  <2> QED
    BY <2>2, NotifiedSteady DEF stream_unpaused, y
<1>5. Steady(WithData(w, player_rejected_unplayed_stream(w.d, s.id)))
  <2> DEFINE y == WithData(w, player_rejected_unplayed_stream(w.d, s.id))
  <2>1. y.c = w.c /\ (Emptied(w) => Emptied(y))
    BY RejectedSane DEF Emptied, SaneWorld
  <2> HIDE DEF y
  <2>2. Steady(y)
    BY <2>1, DataSteady
  <2> QED
    BY <2>2 DEF y
<1> QED
  BY <1>1, <1>2, <1>3, <1>4, <1>5 DEF handle_signal

(***************************************************************************)
(* Selection of audio sources                                              *)
(***************************************************************************)
(* Only the state of our source changes, and none of its streams is left   *)
(* behind by that.                                                         *)
LEMMA SourceSteady ==
    ASSUME NEW w, NEW x, Steady(w), DOMAIN x.c = DOMAIN w.c, x.d = w.d,
           \A f \in ControlFields \ {"source", "hold", "saved"} : x.c[f] = w.c[f],
           x.c.saved \in {w.c.saved, None},
           ~x.c.hold, Waiting(x.c) => Waiting(w.c)
    PROVE  /\ Steady(x) /\ (HasRoom(w) => HasRoom(x)) /\ x.c.plugged = w.c.plugged
           /\ x.c.handle = w.c.handle /\ (Idle(w.c) => Idle(x.c))
<1>1. /\ x.c.ops = w.c.ops /\ x.c.next = w.c.next /\ x.c.uris = w.c.uris /\ x.c.skip = w.c.skip
      /\ x.c.marks = w.c.marks /\ x.c.done = w.c.done /\ x.c.handle = w.c.handle /\ x.c.bugs = w.c.bugs
      /\ x.c.plugged = w.c.plugged
  BY DEF ControlFields
<1>2. OpsOwned(x.c) /\ (Idle(w.c) => Idle(x.c)) /\ (HasRoom(w) => HasRoom(x))
  BY Zenon, <1>1 DEF Steady, OpsOwned, Owns, IsAlive, Idle, HasRoom
<1>3. Waiting(x.c) => Idle(x.c) /\ Unmarked(x.c) /\ Emptied(x)
  BY <1>1, <1>2 DEF Steady, Unmarked, Emptied, SaneWorld
<1> QED
  BY <1>1, <1>2, <1>3 DEF Steady, own

(* Our source has been selected: what was requested in the meantime is     *)
(* requested again.                                                        *)
LEMMA SelectedSteady ==
    ASSUME NEW w0, Steady(w0), HasRoom(w0), own(w0), Idle(w0.c),
           w0.c.source \in {"REQUESTED", "SELECTED"}
    PROVE  Steady(source_selected(w0, FALSE))
<1> DEFINE w == WithControl(w0, [w0.c EXCEPT !.source = IF @ = "REQUESTED" THEN "SELECTED" ELSE @,
                                             !.hold = FALSE])
           v == WithControl(w, [w.c EXCEPT !.saved = None])
<1>1. /\ DOMAIN w.c = DOMAIN w0.c /\ w.d = w0.d /\ ~w.c.hold /\ w.c.source = "SELECTED"
      /\ \A f \in ControlFields \ {"source", "hold"} : w.c[f] = w0.c[f]
      /\ w.c.saved = w0.c.saved
  BY DEF Steady, ControlFields
<1> HIDE DEF w
<1>2. Steady(w) /\ HasRoom(w) /\ own(w) /\ Idle(w.c)
  <2>1. w.c.plugged = w0.c.plugged
    BY <1>1 DEF ControlFields
  <2>2. Waiting(w.c) => Waiting(w0.c)
    BY <1>1, <2>1 DEF Waiting, own, ControlFields
  <2> QED
    BY <1>1, <2>1, <2>2, SourceSteady DEF own
<1>3. Steady(v) /\ HasRoom(v)
  BY <1>2, SavedSteady
<1>4. own(v) /\ Idle(v.c) /\ (v.c.handle \/ w.c.saved = None)
  BY <1>2 DEF own, Idle, Steady, ControlFields
<1> HIDE DEF v
<1>5. Steady(play_request(v, w.c.saved))
  BY <1>3, <1>4, PlaySteady
<1>6. Steady(stop_request(w)) /\ Steady(pause_request(w))
  BY <1>2, RequestsSteady
<1>7. source_selected(w0, FALSE) \in {play_request(v, w.c.saved), stop_request(w), pause_request(w), w}
  BY DEF source_selected, v, w
<1> QED
  BY <1>2, <1>5, <1>6, <1>7

(* Our source has been selected without having been requested.             *)
LEMMA ActivationSteady ==
    ASSUME NEW w0, Steady(w0), HasRoom(w0), ~own(w0), NEW F, NEW B, SaneWorld(F, B, w0)
    PROVE  Steady(fresh_activation(w0))
<1> DEFINE w == IF attached(w0) THEN unplug(w0, TRUE) ELSE w0
           y == WithControl(w, [w.c EXCEPT !.source = "SELECTED"])
           x == plug(y, "own")
<1>1. Steady(w) /\ HasRoom(w) /\ w.c.plugged = "none"
  BY UnplugSteady DEF attached, Steady
<1> HIDE DEF w
<1>2. Steady(y) /\ HasRoom(y) /\ y.c.plugged = "none" /\ y.c.source = "SELECTED"
  <2>1. /\ DOMAIN y.c = DOMAIN w.c /\ y.d = w.d /\ y.c.source = "SELECTED"
        /\ \A f \in ControlFields \ {"source"} : y.c[f] = w.c[f]
    BY <1>1 DEF Steady, ControlFields
  <2> HIDE DEF y
  <2>2. ~y.c.hold /\ y.c.plugged = w.c.plugged /\ y.c.saved = w.c.saved
    BY <1>1, <2>1 DEF Steady, ControlFields
  <2>3. Waiting(w.c)
    BY <1>1 DEF Waiting
  <2> QED
    BY <1>1, <2>1, <2>2, <2>3, SourceSteady
<1> HIDE DEF y
<1>3. Steady(x) /\ HasRoom(x) /\ own(x) /\ Idle(x.c) /\ x.c.source = "SELECTED"
  BY <1>2, PlugSteady DEF own
<1> HIDE DEF x
<1>4. Steady(source_selected(x, FALSE))
  BY <1>3, SelectedSteady
<1> QED
  BY <1>4 DEF fresh_activation, x, y, w

(* Our source is not selected anymore.                                     *)
LEMMA DeselectSteady ==
    ASSUME NEW w, Steady(w), NEW send_stop \in BOOLEAN
    PROVE  /\ Steady(do_deselect(w, send_stop))
           /\ do_deselect(w, send_stop).c.saved = None
           /\ \A F, B : SaneWorld(F, B, w) => SaneWorld(F, B, do_deselect(w, send_stop))
<1> DEFINE v == IF send_stop THEN send_stop_command(w) ELSE w
           x == do_deselect(w, send_stop)
<1>1. Steady(v) /\ v.d = w.d /\ v.c = w.c
  BY SendSteady DEF send_stop_command
<1>2. x = WithControl(v, [v.c EXCEPT !.saved = None, !.source = "DESELECTED", !.hold = FALSE])
  BY DEF do_deselect
<1> HIDE DEF v, x
<1>3. /\ DOMAIN x.c = DOMAIN v.c /\ x.d = v.d /\ ~x.c.hold /\ x.c.source = "DESELECTED"
      /\ x.c.saved = None
      /\ \A f \in ControlFields \ {"source", "hold", "saved"} : x.c[f] = v.c[f]
  BY <1>1, <1>2 DEF Steady, ControlFields
<1>4. Waiting(x.c) => Waiting(v.c)
  BY <1>3 DEF Waiting, ControlFields
<1>5. Steady(x)
  BY <1>1, <1>3, <1>4, SourceSteady
<1>6. \A F, B : SaneWorld(F, B, w) => SaneWorld(F, B, x)
  BY <1>1, <1>3 DEF SaneWorld
<1> QED
  BY <1>3, <1>5, <1>6 DEF x

(* Another source takes over, or none.                                     *)
LEMMA PathChangedSteady ==
    ASSUME NEW w0, Steady(w0), NEW F, NEW B, SaneWorld(F, B, w0), NEW who \in {"external", "none"}
    PROVE  Steady(audio_path_changed(w0, who))
<1> DEFINE v == IF own(w0) THEN do_deselect(w0, FALSE) ELSE w0
           w == unplug(v, TRUE)
           x == plug(w, who)
<1>1. Steady(v) /\ SaneWorld(F, B, v) /\ v.c.saved = None
  BY DeselectSteady DEF Steady
<1> HIDE DEF v
<1>2. Steady(w) /\ w.c.plugged = "none"
  BY <1>1, UnplugSteady
<1> HIDE DEF w
<1>3. who = "external" => Steady(plug_crawler(x, FALSE))
  <2>1. who = "external" => Steady(x) /\ ~own(x)
    BY <1>2, PlugSteady DEF own
  <2> HIDE DEF x
  <2> QED
    BY <2>1, PlugCrawlerSteady
<1> QED
  BY <1>2, <1>3 DEF audio_path_changed, x, w, v

(***************************************************************************)
(* Steps                                                                   *)
(***************************************************************************)
\* The state of the program as a handler's world.
Now == [d |-> data, c |-> ctl, p |-> player]

ControlSteady == Steady(Now)

(* Handlers start from a world like the state, with some room.             *)
LEMMA WorldSteady ==
    ASSUME ControlSteady, Alive
    PROVE  /\ Steady(World) /\ (Room => HasRoom(World))
           /\ World.d = data /\ World.c = [ctl EXCEPT !.bugs = {}] /\ World.p = player
           /\ \A f \in ControlFields \ {"bugs"} : World.c[f] = ctl[f]
           /\ DOMAIN World.c = DOMAIN ctl /\ IsAlive(World.c)
<1>1. /\ World.d = data /\ World.c = [ctl EXCEPT !.bugs = {}] /\ World.p = player
      /\ ControlFields \subseteq DOMAIN ctl
  BY DEF World, ControlSteady, Steady, Now
<1> HIDE DEF World
<1>2. /\ DOMAIN World.c = DOMAIN ctl /\ World.c.bugs = {}
      /\ \A f \in ControlFields \ {"bugs"} : World.c[f] = ctl[f]
  BY <1>1 DEF ControlFields
<1>3. /\ World.c.ops = ctl.ops /\ World.c.next = ctl.next /\ World.c.uris = ctl.uris
      /\ World.c.skip = ctl.skip /\ World.c.marks = ctl.marks /\ World.c.done = ctl.done
      /\ World.c.handle = ctl.handle /\ World.c.plugged = ctl.plugged
      /\ World.c.source = ctl.source /\ World.c.hold = ctl.hold /\ World.c.saved = ctl.saved
  BY <1>2 DEF ControlFields
<1>4. IsAlive(World.c) /\ IsAlive(ctl)
  BY Zenon, <1>2 DEF IsAlive, Alive
<1>5. OpsOwned(World.c)
  BY <1>3, <1>4 DEF ControlSteady, Now, Steady, OpsOwned, Owns
<1>6. Waiting(World.c) => Idle(World.c) /\ Unmarked(World.c) /\ Emptied(World)
  BY <1>1, <1>2, <1>3 DEF ControlSteady, Now, Steady, Waiting, Idle, Unmarked, Emptied, SaneWorld
<1>7. Steady(World)
  BY <1>1, <1>2, <1>3, <1>5, <1>6 DEF ControlSteady, Now, Steady, own
<1>8. Room => HasRoom(World)
  <2> DEFINE S == {o \in OpIds : ctl.ops[o] = NoOp}
  <2> SUFFICES ASSUME Cardinality(S) >= 2
               PROVE  HasRoom(World)
    BY DEF Room
  <2>1. S # {}
    BY FS_EmptySet
  <2> QED
    BY <1>3, <2>1 DEF HasRoom
<1> QED
  BY <1>1, <1>2, <1>4, <1>7, <1>8

(* What a handler leaves behind is the next state.                         *)
LEMMA BecomeSteady ==
    ASSUME NEW w, Steady(w), data' = w.d, ctl' = w.c
    PROVE  ControlSteady'
BY DEF ControlSteady, Now, Steady, own, Emptied, SaneWorld

(* An operation changes its state, not its kind and not its owner.         *)
LEMMA ProgressSteady ==
    ASSUME NEW w, Steady(w), NEW o \in OpIds, w.c.ops[o] # NoOp, NEW op, op # NoOp, IsOp(op),
           op.kind = w.c.ops[o].kind, op.canceled = w.c.ops[o].canceled, NEW x, x.d = w.d,
           DOMAIN x.c = DOMAIN w.c, x.c.ops = [w.c.ops EXCEPT ![o] = op], x.c.done \in Seq(OpIds),
           \A f \in ControlFields \ {"ops", "done"} : x.c[f] = w.c[f]
    PROVE  Steady(x)
<1>1. /\ x.c.next = w.c.next /\ x.c.uris = w.c.uris /\ x.c.skip = w.c.skip
      /\ x.c.marks = w.c.marks /\ x.c.handle = w.c.handle /\ x.c.bugs = w.c.bugs
      /\ x.c.plugged = w.c.plugged /\ x.c.source = w.c.source /\ x.c.hold = w.c.hold
      /\ x.c.saved = w.c.saved
  BY DEF ControlFields
<1>2. OpTable(x.c.ops) /\ \A p \in OpIds : x.c.ops[p] = IF p = o THEN op ELSE w.c.ops[p]
  BY DEF Steady, OpTable
<1>3. ~Waiting(w.c)
  BY DEF Steady, Idle
<1>4. \A p, kinds : Owns(w.c, p, kinds) => Owns(x.c, p, kinds)
  BY <1>2 DEF Owns
<1>5. \A p \in OpIds : /\ x.c.ops[p] # NoOp => IsOp(x.c.ops[p])
                       /\ Finding(x.c.ops[p]) => Finding(w.c.ops[p])
  BY <1>2 DEF Steady, OpsOwned, Finding
<1>6. OpsOwned(x.c)
  BY Zenon, <1>1, <1>4, <1>5 DEF Steady, OpsOwned, IsAlive
<1> QED
  BY <1>1, <1>2, <1>3, <1>6 DEF Steady, Waiting, own

(* Unless our source is put on hold, each step leaves player control with  *)
(* operations it owns, and with none when it has nothing to play.          *)
LEMMA StepSteady ==
    ASSUME "hold" \notin Faults, SaneMirror, ControlSteady, [Next]_vars
    PROVE  ControlSteady'
<1>1. Alive => /\ Steady(World) /\ (Room => HasRoom(World))
               /\ World.d = data /\ World.c = [ctl EXCEPT !.bugs = {}] /\ World.p = player
               /\ \A f \in ControlFields \ {"bugs"} : World.c[f] = ctl[f]
               /\ DOMAIN World.c = DOMAIN ctl /\ IsAlive(World.c)
  BY WorldSteady
<1>2. Alive => SaneWorld(Before, data.queue, World)
  BY <1>1 DEF SaneMirror, SaneWorld
<1>3. \A f \in ControlFields : f \in DOMAIN ctl
  BY DEF ControlSteady, Steady, Now
<1> HIDE DEF World, Alive, Room, ControlSteady
<1>4. ASSUME NEW pos \in Positions, Play(pos)
      PROVE  ControlSteady'
  BY <1>1, <1>4, PrepareSteady, BecomeSteady DEF Play, Command, Become
<1>5. CASE StartCommand
  BY <1>1, <1>5, RequestsSteady, BecomeSteady DEF StartCommand, Command, Become
<1>6. CASE StopCommand
  BY <1>1, <1>6, RequestsSteady, BecomeSteady DEF StopCommand, Command, Become
<1>7. CASE PauseCommand
  BY <1>1, <1>7, RequestsSteady, BecomeSteady DEF PauseCommand, Command, Become
<1>8. CASE NextCommand
  BY <1>1, <1>8, SkipSteady, BecomeSteady DEF NextCommand, Command, Become
<1>9. CASE PreviousCommand
  BY <1>1, <1>9, SkipSteady, BecomeSteady DEF PreviousCommand, Command, Become
<1>10. CASE WindCommand
  <2>1. Steady(World) /\ Become(fast_wind_set_speed_request(World))
    BY <1>1, <1>10 DEF WindCommand, Command
  <2>2. Steady(fast_wind_set_speed_request(World))
    BY <2>1, FieldSteady DEF fast_wind_set_speed_request, BugIf
  <2> QED
    BY <2>1, <2>2, BecomeSteady DEF Become
<1>11. CASE Deliver
  <2> DEFINE w == WithPlayer(World, [player EXCEPT !.sig = Tail(@)])
  <2>1. Steady(World) /\ HasRoom(World) /\ Become(handle_signal(w, Head(player.sig)))
    BY <1>1, <1>11 DEF Deliver
  <2>2. w.c = World.c /\ (Emptied(World) => Emptied(w))
    BY DEF Emptied, SaneWorld
  <2> HIDE DEF w
  <2>3. Steady(w) /\ HasRoom(w)
    BY <2>1, <2>2, DataSteady
  <2> QED
    BY <2>1, <2>3, SignalSteady, BecomeSteady DEF Become
<1>12. ASSUME NEW o \in OpIds, OpStart(o)
       PROVE  ControlSteady'
  <2> DEFINE op == [ctl.ops[o] EXCEPT !.st = "running"]
             x  == WithControl(World, [World.c EXCEPT !.ops[o].st = "running"])
  <2>1. /\ Steady(World) /\ ctl.ops[o] # NoOp /\ World.c.ops = ctl.ops
        /\ ctl' = x.c /\ data' = x.d /\ x.d = World.d
    BY <1>1, <1>12 DEF OpStart, ControlFields
  <2>2. IsOp(ctl.ops[o]) /\ OpTable(ctl.ops)
    BY <2>1 DEF Steady, OpsOwned
  <2>3. /\ DOMAIN x.c = DOMAIN World.c /\ x.c.ops = [World.c.ops EXCEPT ![o] = op]
        /\ \A f \in ControlFields \ {"ops"} : x.c[f] = World.c[f]
    BY <2>1 DEF Steady, ControlFields
  <2>4. x.c.done \in Seq(OpIds)
    BY <2>1, <2>3 DEF Steady, ControlFields
  <2> HIDE DEF x
  <2>5. op # NoOp /\ IsOp(op) /\ op.kind = ctl.ops[o].kind /\ op.canceled = ctl.ops[o].canceled
    BY <2>2 DEF IsOp, NoOp, Kinds
  <2> HIDE DEF op
  <2>6. Steady(x)
    BY <2>1, <2>3, <2>4, <2>5, ProgressSteady
  <2> QED
    BY <2>1, <2>6, BecomeSteady
<1>13. ASSUME NEW o \in OpIds, OpFinish(o)
       PROVE  ControlSteady'
  <2>1. PICK res \in OpResults :
            ctl' = [World.c EXCEPT !.ops[o].st = "done", !.ops[o].res = res, !.done = Append(@, o)]
    BY Zenon, <1>13 DEF OpFinish
  <2> DEFINE op == [ctl.ops[o] EXCEPT !.st = "done", !.res = res]
             x  == WithControl(World, [World.c EXCEPT !.ops[o].st = "done", !.ops[o].res = res,
                                                      !.done = Append(@, o)])
  <2>2. /\ Steady(World) /\ ctl.ops[o] # NoOp /\ World.c.ops = ctl.ops
        /\ ctl' = x.c /\ data' = x.d /\ x.d = World.d
    BY <1>1, <1>13, <2>1 DEF OpFinish, ControlFields
  <2>3. IsOp(ctl.ops[o]) /\ OpTable(ctl.ops)
    BY <2>2 DEF Steady, OpsOwned
  <2>4. /\ DOMAIN x.c = DOMAIN World.c /\ x.c.ops = [World.c.ops EXCEPT ![o] = op]
        /\ x.c.done = Append(World.c.done, o)
        /\ \A f \in ControlFields \ {"ops", "done"} : x.c[f] = World.c[f]
    BY Zenon, <2>2, <2>3 DEF Steady, ControlFields, OpTable
  <2> HIDE DEF x
  <2>5. x.c.done \in Seq(OpIds)
    <3>1. World.c.done \in Seq(OpIds)
      BY <2>2 DEF Steady
    <3> QED
      BY <2>4, <3>1
  <2>6. op # NoOp /\ IsOp(op) /\ op.kind = ctl.ops[o].kind /\ op.canceled = ctl.ops[o].canceled
    BY <2>3 DEF IsOp, NoOp, Kinds
  <2> HIDE DEF op
  <2>7. /\ Steady(World) /\ World.c.ops[o] # NoOp /\ x.d = World.d
        /\ op # NoOp /\ IsOp(op) /\ op.kind = World.c.ops[o].kind
        /\ op.canceled = World.c.ops[o].canceled
    BY <2>2, <2>6
  <2>8. Steady(x)
    <3>1. /\ DOMAIN x.c = DOMAIN World.c /\ x.c.ops = [World.c.ops EXCEPT ![o] = op]
          /\ \A f \in ControlFields \ {"ops", "done"} : x.c[f] = World.c[f]
      BY <2>4
    <3> QED
      BY <2>5, <2>7, <3>1, ProgressSteady
  <2> QED
    BY <2>2, <2>8, BecomeSteady
<1>14. CASE OpCompleted
  <2> DEFINE o == Head(ctl.done)
             w == WithControl(World, [World.c EXCEPT !.ops[o] = NoOp, !.done = Tail(@)])
  <2>1. /\ Steady(World) /\ IsAlive(World.c) /\ Become(completed(w, o, ctl.ops[o]))
        /\ World.c.ops = ctl.ops /\ World.c.done = ctl.done /\ ctl.done # <<>>
    BY <1>1, <1>14 DEF OpCompleted, ControlFields
  <2>2. o \in OpIds
    BY <2>1 DEF Steady
  <2> HIDE DEF o
  <2>3. Steady(completed(w, o, World.c.ops[o]))
    BY Zenon, <2>1, <2>2, CompletedSteady
  <2> HIDE DEF w
  <2> QED
    BY <2>1, <2>3, BecomeSteady DEF Become
<1>15. CASE CanceledOpLeaves
  <2>1. PICK st \in ctl.dead : ctl' = [World.c EXCEPT !.dead = @ \ {st}]
    BY <1>15 DEF CanceledOpLeaves
  <2> DEFINE x == WithControl(World, [World.c EXCEPT !.dead = @ \ {st}])
  <2>2. Steady(World) /\ ctl' = x.c /\ data' = x.d
    BY <1>1, <1>15, <2>1 DEF CanceledOpLeaves
  <2>3. /\ DOMAIN x.c = DOMAIN World.c /\ World.c.bugs \subseteq x.c.bugs
        /\ \A f \in ControlFields \ {"bugs"} : x.c[f] = World.c[f]
        /\ Emptied(World) => Emptied(x)
    BY <2>2 DEF Steady, ControlFields, Emptied, SaneWorld
  <2> HIDE DEF x
  <2>4. Steady(x)
    BY <2>2, <2>3, FrameSteady
  <2> QED
    BY <2>2, <2>4, BecomeSteady
<1>16. CASE SourceSelected
  <2>1. /\ Steady(World) /\ HasRoom(World) /\ Become(source_selected(World, FALSE))
        /\ World.c.plugged = "own" /\ (World.c.source = "REQUESTED" \/ World.c.hold)
    BY <1>1, <1>16 DEF SourceSelected, ControlFields
  <2>2. World.c.source = "REQUESTED" /\ Idle(World.c) /\ own(World)
    BY <2>1 DEF Steady, Waiting, own
  <2> QED
    BY <2>1, <2>2, SelectedSteady, BecomeSteady DEF Become
<1>17. CASE FreshActivation
  <2>1. Steady(World) /\ HasRoom(World) /\ Become(fresh_activation(World))
    BY <1>1, <1>17 DEF FreshActivation
  <2>2. SaneWorld(Before, data.queue, World) /\ ~own(World)
    BY <1>1, <1>2, <1>17 DEF FreshActivation, own, ControlFields
  <2> QED
    BY <2>1, <2>2, ActivationSteady, BecomeSteady DEF Become
<1>18. CASE SourceDeselected
  BY <1>1, <1>18, DeselectSteady, BecomeSteady DEF SourceDeselected, Become
<1>19. CASE AudioPathChanged
  <2>1. PICK who \in {"external", "none"} : Become(audio_path_changed(World, who))
    BY <1>19 DEF AudioPathChanged
  <2>2. Steady(World) /\ SaneWorld(Before, data.queue, World)
    BY <1>1, <1>2, <1>19 DEF AudioPathChanged
  <2> QED
    BY <2>1, <2>2, PathChangedSteady, BecomeSteady DEF Become
<1>20. CASE ListLost
  BY <1>1, <1>20, UnplugSteady, BecomeSteady DEF ListLost, Become
<1>21. CASE PlayerStep
  BY <1>1, <1>21, BecomeSteady DEF PlayerStep
<1>22. CASE UNCHANGED vars
  <2>1. Steady(Now) /\ data' = Now.d /\ ctl' = Now.c
    BY <1>22 DEF vars, ControlSteady, Now
  <2> QED
    BY <2>1, BecomeSteady
<1> QED
  BY <1>4, <1>5, <1>6, <1>7, <1>8, <1>9, <1>10, <1>11, <1>12, <1>13, <1>14,
     <1>15, <1>16, <1>17, <1>18, <1>19, <1>20, <1>21, <1>22 DEF Next

(* Nothing is under way in the beginning.                                  *)
LEMMA InitSteady == Init => ControlSteady
<1> SUFFICES ASSUME Init
             PROVE  ControlSteady
  OBVIOUS
<1>1. Now.c = IdleControl /\ Now.d = IdleData
  BY DEF Init, Now
<1>2. Emptied(Now)
  <2>1. Sane(Before, data.queue, data) /\ data = IdleData
    BY InitSane DEF SaneMirror, Init
  <2>2. Sane({None}, <<>>, IdleData)
    BY <2>1, InOrderReflexive DEF Sane, IdleData
  <2> QED
    BY <1>1, <2>2 DEF Emptied, SaneWorld, IdleControl
<1>3. /\ ControlFields \subseteq DOMAIN IdleControl /\ OpTable(IdleControl.ops)
      /\ DOMAIN IdleControl.marks = Marks /\ IdleControl.done \in Seq(OpIds)
      /\ Idle(IdleControl) /\ Unmarked(IdleControl) /\ ~IdleControl.hold /\ ~IdleControl.handle
      /\ IdleControl.saved = None
  BY DEF IdleControl, ControlFields, OpTable, Idle, Unmarked
<1>4. OpsOwned(IdleControl)
  BY DEF IdleControl, OpsOwned, Owns, Finding
<1> QED
  BY <1>1, <1>2, <1>3, <1>4 DEF ControlSteady, Steady

(* As long as our source is not put on hold while it is selected, player   *)
(* control keeps its crawler operations accounted for: its pointers are to *)
(* operations of the right kind, which the crawler still has; the skipper  *)
(* works alone; and with our source gone there is no operation left, nor   *)
(* any stream of ours in the mirror.                                       *)
THEOREM OperationsAreAccounted ==
    ASSUME "hold" \notin Faults
    PROVE  Spec => []OperationsAccounted
<1>1. Init => SaneMirror /\ ControlSteady
  BY InitSane, InitSteady
<1>2. SaneMirror /\ ControlSteady /\ [Next]_vars => SaneMirror' /\ ControlSteady'
  BY StepSane, StepKeeps, StepSteady
<1>3. ControlSteady => OperationsAccounted
  <2> SUFFICES ASSUME Steady(Now)
               PROVE  OperationsAccounted
    BY DEF ControlSteady
  <2>1. Now.c = ctl /\ Now.d = data
    BY DEF Now
  <2>2. SkipAlone /\ OwnedOperations
    BY <2>1 DEF Steady, OpsOwned, Owns, SkipAlone, OwnedOperations
  <2>3. ASSUME ctl.plugged # "own"
        PROVE  DOMAIN data.streams = {} /\ ctl.ops = [o \in OpIds |-> NoOp]
    <3>1. Idle(ctl) /\ Emptied(Now)
      BY <2>1, <2>3 DEF Steady, Waiting
    <3>2. DOMAIN data.streams = {}
      BY <2>1, <3>1 DEF Emptied, SaneWorld, Sane, Consistent, InOrder, Elements, OnlyId
    <3> QED
      BY <3>1, <3>2 DEF Idle
  <2> QED
    BY <2>2, <2>3 DEF OperationsAccounted, NothingLeftBehind
<1> QED
  BY <1>1, <1>2, <1>3, PTL DEF Spec

(***************************************************************************)
(* The streams are accounted for                                           *)
(***************************************************************************)
AnyStream    == StreamIds \cup {None}
StreamTables == UNION {[S -> QueuedStreams] : S \in SUBSET StreamIds}

\* The mirror has its type, and is consistent.
Sound(d) == d \in PlayerDatas /\ Sane(AnyStream, d.queue, d)

\* Mirror e is what is left of mirror d.
Left(d, e) ==
    /\ Sound(e)
    /\ Elements(e.queue) \subseteq Elements(d.queue)
    /\ DOMAIN e.streams \subseteq DOMAIN d.streams

\* The type of the fields whose type does not follow from consistency.
RestTyped(d) ==
    d \in [queue : {d.queue}, inflight : {d.inflight}, streams : StreamTables, refs : {d.refs},
           intention : Intentions, state : PlayerStates, now : AnyStream]

\* Tables of streams are functions.
LEMMA TableIs ==
    ASSUME NEW f
    PROVE  f \in StreamTables <=> /\ f = [i \in DOMAIN f |-> f[i]] /\ DOMAIN f \subseteq StreamIds
                                  /\ \A i \in DOMAIN f : f[i] \in QueuedStreams
<1>1. ASSUME f \in StreamTables
      PROVE  /\ f = [i \in DOMAIN f |-> f[i]] /\ DOMAIN f \subseteq StreamIds
             /\ \A i \in DOMAIN f : f[i] \in QueuedStreams
  <2>1. PICK S \in SUBSET StreamIds : f \in [S -> QueuedStreams]
    BY <1>1 DEF StreamTables
  <2> QED
    BY <2>1
<1>2. ASSUME f = [i \in DOMAIN f |-> f[i]], DOMAIN f \subseteq StreamIds,
             \A i \in DOMAIN f : f[i] \in QueuedStreams
      PROVE  f \in StreamTables
  <2>1. f \in [DOMAIN f -> QueuedStreams]
    BY <1>2
  <2> QED
    BY <1>2, <2>1 DEF StreamTables
<1> QED
  BY <1>1, <1>2

\* The type of a sound mirror, in parts.
LEMMA SoundIs ==
    ASSUME NEW d
    PROVE  Sound(d) <=> RestTyped(d) /\ Sane(AnyStream, d.queue, d)
<1>1. d \in PlayerDatas => RestTyped(d)
  BY DEF PlayerDatas, RestTyped, AnyStream, StreamTables
<1>2. RestTyped(d) /\ Sane(AnyStream, d.queue, d) => d \in PlayerDatas
  BY DEF PlayerDatas, RestTyped, AnyStream, StreamTables, Sane
<1> QED
  BY <1>1, <1>2 DEF Sound

(* What the operators of the first part make of a sound mirror is left of  *)
(* it if it has its type.                                                  *)
LEMMA LeftFrom ==
    ASSUME NEW d, Sound(d), NEW e, RestTyped(e),
           \A F, B : Elements(B) \subseteq F /\ Sane(F, B, d) => Sane(F, B, e)
    PROVE  Left(d, e)
<1> DEFINE F == {None, d.inflight} \cup Elements(d.queue)
<1>1. Sane(F, d.queue, e)
  BY Rebase DEF Sound
<1>2. Sane(AnyStream, e.queue, e)
  BY <1>1, InOrderReflexive DEF Sane, AnyStream
<1>3. Elements(e.queue) \subseteq Elements(d.queue) /\ e.inflight \in F
  BY <1>1 DEF Sane, InOrder
<1>4. DOMAIN e.streams \subseteq DOMAIN d.streams
  BY <1>1, <1>3 DEF Sound, Sane, Consistent, OnlyId
<1> QED
  BY <1>2, <1>3, <1>4, SoundIs DEF Left

(* The mirror is cleared.                                                  *)
LEMMA ClearLeft ==
    ASSUME NEW d, Sound(d)
    PROVE  /\ Left(d, clear(d)) /\ clear(d).queue = <<>> /\ DOMAIN clear(d).streams = {}
           /\ clear(d).intention = d.intention /\ clear(d).now = d.now
<1>1. RestTyped(d)
  BY SoundIs
<1>2. [i \in {} |-> None] \in StreamTables /\ DOMAIN [i \in {} |-> None] = {}
  BY TableIs
<1>3. RestTyped(clear(d))
  BY <1>1, <1>2 DEF RestTyped, clear
<1>4. clear(d).queue = <<>> /\ DOMAIN clear(d).streams = {}
      /\ clear(d).intention = d.intention /\ clear(d).now = d.now
  BY <1>1, <1>2 DEF RestTyped, clear
<1> QED
  BY <1>3, <1>4, ClearSane, LeftFrom

(* Playback has ended.                                                     *)
LEMMA FinishedLeft ==
    ASSUME NEW d, Sound(d)
    PROVE  LET e == player_finished_and_idle(d)
           IN  /\ Left(d, e) /\ e.queue = <<>> /\ DOMAIN e.streams = {}
               /\ e.intention = d.intention /\ e.now = None
<1> DEFINE e == player_finished_and_idle(d)
           c == clear(d)
<1>1. RestTyped(c) /\ c.queue = <<>> /\ DOMAIN c.streams = {} /\ c.intention = d.intention
  BY ClearLeft, SoundIs DEF Left
<1> HIDE DEF c
<1>2. e = [c EXCEPT !.refs = 0, !.now = None]
  BY DEF player_finished_and_idle, c
<1> HIDE DEF e
<1>3. RestTyped(e) /\ e.queue = c.queue /\ e.streams = c.streams /\ e.intention = c.intention /\ e.now = None
  BY <1>1, <1>2 DEF RestTyped, AnyStream
<1>4. \A F, B : Elements(B) \subseteq F /\ Sane(F, B, d) => Sane(F, B, e)
  BY FinishedSane DEF e
<1> QED
  BY <1>1, <1>3, <1>4, LeftFrom DEF e

(* Streams less some of them.                                              *)
LEMMA WithoutTable ==
    ASSUME NEW f \in StreamTables, NEW S
    PROVE  /\ Without(f, S) \in StreamTables /\ DOMAIN Without(f, S) = DOMAIN f \ S
           /\ \A i \in DOMAIN f \ S : Without(f, S)[i] = f[i]
BY TableIs DEF Without

(* One stream is removed, wherever it is.                                  *)
LEMMA RemoveLeft ==
    ASSUME NEW d, Sound(d), NEW id
    PROVE  LET e == queued_stream_remove(d, id)
           IN  /\ Left(d, e) /\ id \notin Elements(e.queue)
               /\ e.intention = d.intention /\ e.now = d.now
<1> DEFINE e == queued_stream_remove(d, id)
<1>1. RestTyped(d) /\ Consistent(d)
  BY SoundIs DEF Sane
<1>2. RestTyped(e) /\ e.intention = d.intention /\ e.now = d.now
  <2>1. d.streams \in StreamTables
    BY <1>1 DEF RestTyped
  <2>2. Without(d.streams, {id}) \in StreamTables
    BY <2>1, WithoutTable
  <2> QED
    BY <1>1, <2>2 DEF RestTyped, queued_stream_remove
<1>3. \A F, B : Elements(B) \subseteq F /\ Sane(F, B, d) => Sane(F, B, e)
  BY RemoveSane
<1>4. Left(d, e)
  BY <1>2, <1>3, LeftFrom
<1>5. id \notin Elements(e.queue)
  <2>1. CASE id \notin Elements(d.queue)
    BY <1>4, <2>1 DEF Left
  <2>2. CASE id \in Elements(d.queue)
    <3>1. id \in DOMAIN d.streams
      BY <1>1, <2>2 DEF Consistent
    <3>2. e.queue = WithoutNth(d.queue, IndexOf(d.queue, id))
      BY <1>1, <2>2, <3>1 DEF queued_stream_remove, RestTyped
    <3> QED
      BY <1>1, <2>2, <3>2, IndexOfElement, WithoutNthProperties DEF Consistent, Sound, Sane
  <2> QED
    BY <2>1, <2>2
<1> QED
  BY <1>2, <1>4, <1>5

(* A queued stream is rejected by the player.                              *)
LEMMA RejectedLeft ==
    ASSUME NEW d, Sound(d), NEW id
    PROVE  LET e == player_rejected_unplayed_stream(d, id)
           IN  /\ Left(d, e) /\ id \notin Elements(e.queue)
               /\ e.intention = d.intention /\ e.now = d.now
<1> DEFINE e == player_rejected_unplayed_stream(d, id)
<1>1. RestTyped(d) /\ Consistent(d)
  BY SoundIs DEF Sane
<1>2. RestTyped(e) /\ e.intention = d.intention /\ e.now = d.now
  <2>1. Without(d.streams, {id}) \in StreamTables
    BY <1>1, WithoutTable DEF RestTyped
  <2> QED
    BY <1>1, <2>1 DEF RestTyped, player_rejected_unplayed_stream
<1>3. \A F, B : Elements(B) \subseteq F /\ Sane(F, B, d) => Sane(F, B, e)
  BY RejectedSane
<1>4. Left(d, e)
  BY <1>2, <1>3, LeftFrom
<1>5. CASE id \notin Elements(d.queue)
  BY <1>2, <1>4, <1>5 DEF Left
<1>6. CASE id \in Elements(d.queue)
  <2>1. e.queue = WithoutNth(d.queue, IndexOf(d.queue, id))
    BY <1>1, <1>6 DEF player_rejected_unplayed_stream, RestTyped
  <2>2. id \notin Elements(e.queue)
    BY <1>1, <1>6, <2>1, IndexOfElement, WithoutNthProperties DEF Consistent, Sound, Sane
  <2> QED
    BY <1>2, <1>4, <2>2
<1> QED
  BY <1>5, <1>6

(* Streams are dropped by the player; none of them stays in the queue.     *)
LEMMA DroppedLeft ==
    ASSUME NEW d, Sound(d), NEW ids
    PROVE  LET e == player_dropped_from_queue(d, ids)
           IN  /\ Left(d, e) /\ Elements(e.queue) \cap ids = {}
               /\ \A i \in DOMAIN e.streams : e.streams[i] = d.streams[i]
               /\ e.intention = d.intention /\ e.now = d.now /\ e.state = d.state
<1> DEFINE k    == DroppedPrefix(d.queue, ids)
           gone == {d.queue[i] : i \in 1 .. k}
           left == ids \ gone
           cut  == [d EXCEPT !.queue   = SubSeq(@, k + 1, Len(@)),
                             !.streams = Without(@, gone),
                             !.refs    = Unref(@, 2 * k)]
           fly  == [cut EXCEPT !.inflight = None,
                               !.streams  = Without(@, OnlyId(d.inflight)),
                               !.refs     = Unref(@, 2)]
           e    == player_dropped_from_queue(d, ids)
           Typed(x) == /\ RestTyped(x) /\ \A i \in DOMAIN x.streams : x.streams[i] = d.streams[i]
                       /\ x.intention = d.intention /\ x.now = d.now /\ x.state = d.state
                       /\ DOMAIN x.streams \subseteq DOMAIN d.streams
<1>1. /\ RestTyped(d) /\ Consistent(d) /\ d.queue \in Seq(StreamIds)
      /\ d.inflight \notin Elements(d.queue) /\ d.streams \in StreamTables
  BY SoundIs DEF Sane, Consistent, RestTyped
<1>2. k \in 0 .. Len(d.queue)
  BY <1>1, PrefixFits
<1> HIDE DEF k
<1>3. Elements(SubSeq(d.queue, k + 1, Len(d.queue))) = Elements(d.queue) \ gone
  <2> DEFINE rest == SubSeq(d.queue, k + 1, Len(d.queue))
  <2>1. /\ rest \in Seq(StreamIds)
        /\ Elements(rest) = Elements(d.queue) \ gone
        /\ \A i, j \in DOMAIN rest : rest[i] = rest[j] => i = j
        /\ InOrder(d.queue, rest)
    BY <1>1, <1>2, SuffixProperties DEF Consistent
  <2> QED
    BY <2>1
<1> HIDE DEF gone
<1>4. Typed(cut) /\ cut.queue = SubSeq(d.queue, k + 1, Len(d.queue))
  <2>1. /\ Without(d.streams, gone) \in StreamTables
        /\ DOMAIN Without(d.streams, gone) = DOMAIN d.streams \ gone
        /\ \A i \in DOMAIN d.streams \ gone : Without(d.streams, gone)[i] = d.streams[i]
    BY <1>1, WithoutTable
  <2> QED
    BY <1>1, <2>1 DEF RestTyped
<1> HIDE DEF cut
<1>5. Typed(fly) /\ fly.queue = cut.queue
  <2>1. cut.streams \in StreamTables
    BY <1>4 DEF RestTyped
  <2>2. /\ Without(cut.streams, OnlyId(d.inflight)) \in StreamTables
        /\ DOMAIN Without(cut.streams, OnlyId(d.inflight)) = DOMAIN cut.streams \ OnlyId(d.inflight)
        /\ \A i \in DOMAIN cut.streams \ OnlyId(d.inflight) :
               Without(cut.streams, OnlyId(d.inflight))[i] = cut.streams[i]
    BY <2>1, WithoutTable
  <2> QED
    BY <1>4, <2>2 DEF RestTyped, AnyStream
<1> HIDE DEF fly
<1>6. ASSUME NEW x, Typed(x)
      PROVE  Typed(player_failed(x)) /\ player_failed(x).queue = <<>>
  <2>1. [i \in {} |-> None] \in StreamTables /\ DOMAIN [i \in {} |-> None] = {}
    BY TableIs
  <2> QED
    BY <1>6, <2>1 DEF RestTyped, clear, player_failed, AnyStream
<1>7. \/ e = cut /\ (left = {} \/ cut.queue = <<>>)
      \/ e = fly /\ left = OnlyId(d.inflight)
      \/ e \in {player_failed(fly), player_failed(cut)}
  BY DEF player_dropped_from_queue, cut, fly, gone, k
<1>8. Typed(e)
  <2> HIDE DEF Typed, e
  <2> QED
    BY <1>4, <1>5, <1>6, <1>7
<1>9. \A F, B : Elements(B) \subseteq F /\ Sane(F, B, d) => Sane(F, B, e)
  BY DroppedSane
<1>10. Left(d, e)
  BY <1>8, <1>9, LeftFrom
<1>11. Elements(<<>>) = {}
  BY DEF Elements
<1>12. CASE e = cut /\ (left = {} \/ cut.queue = <<>>)
  BY <1>3, <1>4, <1>8, <1>10, <1>11, <1>12
<1>13. CASE e = fly /\ left = OnlyId(d.inflight)
  BY <1>1, <1>3, <1>4, <1>5, <1>8, <1>10, <1>13 DEF OnlyId
<1>14. CASE e \in {player_failed(fly), player_failed(cut)}
  <2>1. e.queue = <<>>
    <3> HIDE DEF Typed, e
    <3> QED
      BY <1>4, <1>5, <1>6, <1>14
  <2> QED
    BY <1>8, <1>10, <1>11, <2>1
<1> QED
  BY <1>7, <1>12, <1>13, <1>14

(* The stream at the front of the queue is being played.                   *)
LEMMA NextLeft ==
    ASSUME NEW d, Sound(d)
    PROVE  LET e == queued_stream_playing_next(d)
           IN  Left(d, e) /\ e.intention = d.intention /\ e.now = d.now
<1> DEFINE e == queued_stream_playing_next(d)
<1>1. RestTyped(d)
  BY SoundIs
<1>2. RestTyped(e) /\ e.intention = d.intention /\ e.now = d.now
  BY <1>1 DEF RestTyped, queued_stream_playing_next
<1>3. \A F, B : Elements(B) \subseteq F /\ Sane(F, B, d) => Sane(F, B, e)
  BY NextSane
<1> QED
  BY <1>2, <1>3, LeftFrom

(* The player plays another stream, which leaves the queue.                *)
LEMMA ChangedLeft ==
    ASSUME NEW d, Sound(d), NEW id \in StreamIds
    PROVE  LET e == player_now_playing_stream(d, id)
           IN  Left(d, e) /\ id \notin Elements(e.queue) /\ e.now = id
<1> DEFINE c == stream_has_changed(d, id)
           e == player_now_playing_stream(d, id)
<1>1. RestTyped(d) /\ Consistent(d) /\ d.queue \in Seq(StreamIds) /\ id # None
  BY SoundIs, NoneAssumption DEF Sane
<1>2. RestTyped(c) /\ id \notin Elements(c.queue)
  <2>1. CASE ~in_sync(d, id)
    <3>1. c = clear(d)
      BY <2>1 DEF stream_has_changed, player_failed
    <3>2. Sound(clear(d)) /\ clear(d).queue = <<>>
      BY ClearLeft DEF Left
    <3> QED
      BY <3>1, <3>2, SoundIs DEF Elements
  <2>2. CASE id = d.inflight
    <3>1. c = d
      BY <2>2 DEF stream_has_changed, in_sync
    <3> QED
      BY <1>1, <2>2, <3>1 DEF Consistent
  <2>3. CASE in_sync(d, id) /\ id # d.inflight
    <3>1. id = Head(d.queue) /\ d.queue # <<>>
      BY <1>1, <2>3 DEF in_sync, front
    <3>2. id \notin Elements(Tail(d.queue))
      BY <1>1, <3>1, TailProperties DEF Consistent
    <3>3. Without(d.streams, OnlyId(d.inflight)) \in StreamTables
      BY <1>1, WithoutTable DEF RestTyped
    <3> QED
      BY <1>1, <2>3, <3>2, <3>3 DEF RestTyped, stream_has_changed
  <2> QED
    BY <2>1, <2>2, <2>3
<1> HIDE DEF c
<1>3. e = [c EXCEPT !.now = id]
  BY DEF player_now_playing_stream, c
<1> HIDE DEF e
<1>4. RestTyped(e) /\ e.queue = c.queue /\ e.now = id
  BY <1>2, <1>3 DEF RestTyped, AnyStream
<1>5. \A F, B : Elements(B) \subseteq F /\ Sane(F, B, d) => Sane(F, B, e)
  BY <1>1, NowPlayingSane DEF e
<1> QED
  BY <1>2, <1>4, <1>5, LeftFrom DEF e

\* Fields, and states of streams, which the queue does not depend on.
LEMMA FieldsLeft ==
    ASSUME NEW d, Sound(d)
    PROVE  /\ \A i \in Intentions : LET e == set_intention(d, i)
                                   IN  /\ Left(d, e) /\ e.intention = i /\ e.now = d.now
                                       /\ e.streams = d.streams /\ e.queue = d.queue
           /\ LET e == set_intention_after_skipping(d)
              IN  /\ Left(d, e) /\ e.now = d.now /\ e.streams = d.streams
                  /\ e.intention = "NOTHING" => d.intention = "NOTHING"
           /\ LET e == player_has_stopped(d)
              IN  /\ Left(d, e) /\ e.now = None /\ e.intention = d.intention
                  /\ e.streams = d.streams /\ e.queue = d.queue
           /\ \A s \in PlayerStates : LET e == [d EXCEPT !.state = s]
                                     IN  /\ Left(d, e) /\ e.intention = d.intention /\ e.now = d.now
                                         /\ e.streams = d.streams /\ e.queue = d.queue
<1>1. RestTyped(d)
  BY SoundIs
<1>2. ASSUME NEW i \in Intentions
      PROVE  LET e == set_intention(d, i)
             IN  /\ Left(d, e) /\ e.intention = i /\ e.now = d.now
                 /\ e.streams = d.streams /\ e.queue = d.queue
  <2> DEFINE e == set_intention(d, i)
  <2>1. RestTyped(e) /\ e.intention = i /\ e.now = d.now /\ e.streams = d.streams /\ e.queue = d.queue
    BY <1>1 DEF RestTyped, set_intention
  <2>2. \A F, B : Elements(B) \subseteq F /\ Sane(F, B, d) => Sane(F, B, e)
    BY OtherFieldsSane
  <2> QED
    BY <2>1, <2>2, LeftFrom
<1>3. LET e == set_intention_after_skipping(d)
      IN  /\ Left(d, e) /\ e.now = d.now /\ e.streams = d.streams
          /\ e.intention = "NOTHING" => d.intention = "NOTHING"
  <2> DEFINE e == set_intention_after_skipping(d)
  <2>1. /\ RestTyped(e) /\ e.now = d.now /\ e.streams = d.streams
        /\ e.intention = "NOTHING" => d.intention = "NOTHING"
    BY <1>1 DEF RestTyped, set_intention_after_skipping, Intentions
  <2>2. \A F, B : Elements(B) \subseteq F /\ Sane(F, B, d) => Sane(F, B, e)
    BY OtherFieldsSane
  <2> QED
    BY <2>1, <2>2, LeftFrom
<1>4. LET e == player_has_stopped(d)
      IN  /\ Left(d, e) /\ e.now = None /\ e.intention = d.intention
          /\ e.streams = d.streams /\ e.queue = d.queue
  <2> DEFINE e == player_has_stopped(d)
  <2>1. /\ RestTyped(e) /\ e.now = None /\ e.intention = d.intention
        /\ e.streams = d.streams /\ e.queue = d.queue
    BY <1>1 DEF RestTyped, player_has_stopped, PlayerStates, AnyStream
  <2>2. \A F, B : Elements(B) \subseteq F /\ Sane(F, B, d) => Sane(F, B, e)
    BY OtherFieldsSane
  <2> QED
    BY <2>1, <2>2, LeftFrom
<1>5. ASSUME NEW s \in PlayerStates
      PROVE  LET e == [d EXCEPT !.state = s]
             IN  /\ Left(d, e) /\ e.intention = d.intention /\ e.now = d.now
                 /\ e.streams = d.streams /\ e.queue = d.queue
  <2> DEFINE e == [d EXCEPT !.state = s]
  <2>1. /\ RestTyped(e) /\ e.intention = d.intention /\ e.now = d.now
        /\ e.streams = d.streams /\ e.queue = d.queue
    BY <1>1 DEF RestTyped
  <2>2. \A F, B : Elements(B) \subseteq F /\ Sane(F, B, d) => Sane(F, B, e)
    BY OtherFieldsSane
  <2> QED
    BY <2>1, <2>2, LeftFrom
<1> QED
  BY <1>2, <1>3, <1>4, <1>5

\* A stream in a table of streams.
LEMMA StreamIs ==
    ASSUME NEW s \in QueuedStreams
    PROVE  /\ s.pos \in Positions /\ Floating(s.pos) \in QueuedStreams
           /\ [s EXCEPT !.state = "QUEUED"] \in QueuedStreams
           /\ Floating(s.pos).state = "FLOATING"
BY DEF QueuedStreams, Floating

\* Nothing but the states of streams differs.
Alike(e, c) == /\ e.intention = c.intention /\ e.now = c.now
               /\ e.queue = c.queue /\ DOMAIN e.streams = DOMAIN c.streams

(* What has been sent to the player, and what is to be sent again.         *)
LEMMA StatesLeft ==
    ASSUME NEW d, Sound(d)
    PROVE  /\ \A id : LET e == queued_stream_sent_to_player(d, id)
                      IN  Left(d, e) /\ Alike(e, d)
           /\ \A ids : LET e == prepare_for_recovery(d, ids)
                       IN  Left(d, e) /\ Alike(e, d) /\ \A i \in ids : IsFloating(e, i)
           /\ \A id : LET e == requeued(d, id)
                      IN  Left(d, e) /\ Alike(e, d)
<1>1. RestTyped(d) /\ d.streams \in StreamTables
  BY SoundIs DEF RestTyped
<1>2. \A i \in DOMAIN d.streams : d.streams[i] \in QueuedStreams /\ i \in StreamIds
  BY <1>1, TableIs
<1>3. ASSUME NEW c, Sound(c), NEW f \in StreamTables, DOMAIN f = DOMAIN c.streams
      PROVE  RestTyped([c EXCEPT !.streams = f]) /\ Alike([c EXCEPT !.streams = f], c)
             /\ [c EXCEPT !.streams = f].streams = f
  <2>1. RestTyped(c)
    BY <1>3, SoundIs
  <2> QED
    BY <1>3, <2>1 DEF RestTyped, Alike
<1>4. ASSUME NEW id
      PROVE  LET e == queued_stream_sent_to_player(d, id)
             IN  Left(d, e) /\ Alike(e, d)
  <2> DEFINE e == queued_stream_sent_to_player(d, id)
             f == [d.streams EXCEPT ![id].state = "QUEUED"]
  <2>1. f \in StreamTables /\ DOMAIN f = DOMAIN d.streams
    <3>1. /\ f = [i \in DOMAIN f |-> f[i]] /\ DOMAIN f = DOMAIN d.streams
          /\ \A i \in DOMAIN f : f[i] = IF i = id THEN [d.streams[i] EXCEPT !.state = "QUEUED"] ELSE d.streams[i]
      OBVIOUS
    <3> HIDE DEF f
    <3>2. DOMAIN f \subseteq StreamIds /\ \A i \in DOMAIN f : f[i] \in QueuedStreams
      BY Zenon, <1>2, <3>1, StreamIs
    <3> QED
      BY <3>1, <3>2, TableIs
  <2>2. e = IF id \notin DOMAIN d.streams THEN d ELSE [d EXCEPT !.streams = f]
    BY <1>1 DEF queued_stream_sent_to_player, RestTyped
  <2> HIDE DEF f, e
  <2>3. RestTyped(e) /\ Alike(e, d)
    BY <1>1, <1>3, <2>1, <2>2 DEF Alike
  <2>4. \A F, B : Elements(B) \subseteq F /\ Sane(F, B, d) => Sane(F, B, e)
    BY StatesSane DEF e
  <2> QED
    BY <2>3, <2>4, LeftFrom DEF e
<1>5. ASSUME NEW ids
      PROVE  LET e == prepare_for_recovery(d, ids)
             IN  Left(d, e) /\ Alike(e, d) /\ \A i \in ids : IsFloating(e, i)
  <2> DEFINE e == prepare_for_recovery(d, ids)
             f == [i \in DOMAIN d.streams |-> IF i \in ids THEN Floating(d.streams[i].pos) ELSE d.streams[i]]
  <2>1. f \in StreamTables
    BY <1>2, StreamIs, TableIs
  <2>2. e = [d EXCEPT !.streams = f]
    BY DEF prepare_for_recovery
  <2>3. \A i \in ids \cap DOMAIN f : f[i].state = "FLOATING"
    BY <1>2, StreamIs
  <2>4. DOMAIN f = DOMAIN d.streams
    OBVIOUS
  <2> HIDE DEF f, e
  <2>5. RestTyped(e) /\ Alike(e, d) /\ e.streams = f
    BY <1>3, <2>1, <2>2, <2>4
  <2>6. \A F, B : Elements(B) \subseteq F /\ Sane(F, B, d) => Sane(F, B, e)
    BY StatesSane DEF e
  <2>7. Left(d, e)
    BY <2>5, <2>6, LeftFrom
  <2> QED
    BY <2>3, <2>5, <2>7 DEF e, IsFloating
<1>6. ASSUME NEW id
      PROVE  LET e == requeued(d, id)
             IN  Left(d, e) /\ Alike(e, d)
  <2> DEFINE e == requeued(d, id)
             b == prepare_for_recovery(d, DOMAIN d.streams)
             f == [i \in DOMAIN b.streams |->
                      IF i \in Elements(OtherQueued(d, id)) THEN [b.streams[i] EXCEPT !.state = "QUEUED"]
                      ELSE b.streams[i]]
  <2>1. Left(d, b) /\ Alike(b, d)
    BY <1>5
  <2>2. e = [b EXCEPT !.streams = f]
    BY DEF requeued
  <2> HIDE DEF b
  <2>3. \A i \in DOMAIN b.streams : b.streams[i] \in QueuedStreams /\ i \in StreamIds
    BY <2>1, SoundIs, TableIs DEF Left, RestTyped
  <2>4. f \in StreamTables /\ DOMAIN f = DOMAIN b.streams
    BY <2>3, StreamIs, TableIs
  <2> HIDE DEF f, e
  <2>5. RestTyped(e) /\ Alike(e, b)
    BY <1>3, <2>1, <2>2, <2>4 DEF Left
  <2>6. \A F, B : Elements(B) \subseteq F /\ Sane(F, B, d) => Sane(F, B, e)
    BY StatesSane DEF e
  <2>7. Left(d, e)
    BY <2>5, <2>6, LeftFrom
  <2> QED
    BY <2>1, <2>5, <2>7 DEF e, Alike
<1> QED
  BY <1>4, <1>5, <1>6

(* A new stream goes to the end of the queue.                              *)
LEMMA AppendSound ==
    ASSUME NEW d, Sound(d), NEW id \in StreamIds \ DOMAIN d.streams, NEW pos \in Positions
    PROVE  LET e == queued_stream_append(d, id, pos)
           IN  /\ Sound(e) /\ Elements(e.queue) = Elements(d.queue) \cup {id}
               /\ e.intention = d.intention /\ e.now = d.now /\ IsFloating(e, id)
<1> DEFINE e == queued_stream_append(d, id, pos)
           f == [i \in DOMAIN d.streams \cup {id} |-> IF i = id THEN Floating(pos) ELSE d.streams[i]]
<1>1. RestTyped(d) /\ d.streams \in StreamTables /\ d.queue \in Seq(StreamIds)
  BY SoundIs DEF RestTyped, Sane
<1>2. \A i \in DOMAIN d.streams : d.streams[i] \in QueuedStreams /\ i \in StreamIds
  BY <1>1, TableIs
<1>3. Floating(pos) \in QueuedStreams /\ Floating(pos).state = "FLOATING"
  BY DEF Floating, QueuedStreams
<1>4. f \in StreamTables
  BY <1>2, <1>3, TableIs
<1>5. f[id] = Floating(pos)
  OBVIOUS
<1>6. e = [d EXCEPT !.queue = Append(@, id), !.streams = f, !.refs = @ + 1]
  BY DEF queued_stream_append
<1> HIDE DEF f, e
<1>7. /\ RestTyped(e) /\ e.queue = Append(d.queue, id) /\ e.streams = f
      /\ e.intention = d.intention /\ e.now = d.now
  BY <1>1, <1>4, <1>6 DEF RestTyped
<1>8. Sane(AnyStream, Append(d.queue, id), e)
  BY AppendSane DEF e, Sound
<1>9. Elements(Append(d.queue, id)) = Elements(d.queue) \cup {id}
  <2>1. /\ Len(d.queue) \in Nat /\ DOMAIN d.queue = 1 .. Len(d.queue)
        /\ DOMAIN Append(d.queue, id) = 1 .. Len(d.queue) + 1
        /\ \A i \in 1 .. Len(d.queue) : Append(d.queue, id)[i] = d.queue[i]
        /\ Append(d.queue, id)[Len(d.queue) + 1] = id
    BY <1>1
  <2>2. Elements(Append(d.queue, id)) \subseteq Elements(d.queue) \cup {id}
    BY <2>1 DEF Elements
  <2>3. Elements(d.queue) \cup {id} \subseteq Elements(Append(d.queue, id))
    BY <2>1 DEF Elements
  <2> QED
    BY <2>2, <2>3
<1>10. Sound(e)
  BY <1>7, <1>8, SoundIs
<1> QED
  BY <1>3, <1>5, <1>7, <1>9, <1>10 DEF e, IsFloating

(***************************************************************************)
(* The stream player                                                       *)
(***************************************************************************)
\* The streams a signal tells the end of, or that they are being played.
ToldBy(s) ==
    CASE s.name \in {"NowPlaying", "Dropped"} -> {s.id}
      [] s.name = "Stopped" -> s.dropped \cup (IF s.err \in {"io.net", "io.media"} THEN {s.id} ELSE {})
      [] OTHER -> {}

Told(sig)    == UNION {ToldBy(s) : s \in Elements(sig)}
Heralds(sig) == {s.id : s \in {x \in Elements(sig) : x.name = "NowPlaying"}}

\* Streams which the player has, or has told about.
Known(p) == Elements(p.queue) \cup OnlyId(p.cur) \cup Told(p.sig)

\* The player knows about the streams in Q, those in X excepted, and about the
\* one it has announced we have not heard yet.
Tracks(X, Q, p) ==
    /\ Q \subseteq Known(p) \cup X
    /\ p.said \in Q => p.said \in Heralds(p.sig)

\* A player which has stopped has no stream.
Settled(p) == p.st = "stopped" => p.cur = None /\ p.said = None

\* What player p knows about, player q knows about.
Keeps(p, q) ==
    /\ q \in StreamPlayers /\ Settled(q)
    /\ \A X, Q : Q \subseteq StreamIds /\ Tracks(X, Q, p) => Tracks(X, Q, q)

\* Elements of a longer sequence, of a shorter one, and of two in a row.
LEMMA AppendElements ==
    ASSUME NEW S, NEW s \in Seq(S), NEW e \in S
    PROVE  Append(s, e) \in Seq(S) /\ Elements(Append(s, e)) = Elements(s) \cup {e}
<1>1. /\ Len(s) \in Nat /\ DOMAIN s = 1 .. Len(s)
      /\ DOMAIN Append(s, e) = 1 .. Len(s) + 1
      /\ \A i \in 1 .. Len(s) : Append(s, e)[i] = s[i]
      /\ Append(s, e)[Len(s) + 1] = e /\ Append(s, e) \in Seq(S)
  OBVIOUS
<1>2. Elements(Append(s, e)) \subseteq Elements(s) \cup {e}
  BY <1>1 DEF Elements
<1>3. Elements(s) \cup {e} \subseteq Elements(Append(s, e))
  BY <1>1 DEF Elements
<1> QED
  BY <1>1, <1>2, <1>3

\* A sequence is its head and its tail.
LEMMA HeadElements ==
    ASSUME NEW S, NEW s \in Seq(S), s # <<>>
    PROVE  /\ Head(s) \in S /\ Tail(s) \in Seq(S)
           /\ Elements(s) = {Head(s)} \cup Elements(Tail(s))
<1>1. Len(s) \in Nat \ {0} /\ DOMAIN s = 1 .. Len(s) /\ Head(s) = s[1] /\ Tail(s) \in Seq(S)
  OBVIOUS
<1>2. DOMAIN Tail(s) = 1 .. Len(s) - 1 /\ \A i \in DOMAIN Tail(s) : Tail(s)[i] = s[i + 1]
  BY <1>1
<1>3. \A i \in 2 .. Len(s) : i - 1 \in DOMAIN Tail(s) /\ Tail(s)[i - 1] = s[i]
  BY <1>1, <1>2
<1>4. Elements(s) \subseteq {Head(s)} \cup Elements(Tail(s))
  <2> SUFFICES ASSUME NEW i \in DOMAIN s, i # 1
               PROVE  s[i] \in Elements(Tail(s))
    BY <1>1 DEF Elements
  <2>1. i \in 2 .. Len(s)
    BY <1>1
  <2> QED
    BY <1>3, <2>1 DEF Elements
<1>5. {Head(s)} \cup Elements(Tail(s)) \subseteq Elements(s)
  <2>1. \A i \in DOMAIN Tail(s) : i + 1 \in DOMAIN s
    BY <1>1, <1>2
  <2> QED
    BY <1>1, <1>2, <2>1 DEF Elements
<1> QED
  BY <1>1, <1>4, <1>5

\* Nothing is lost when sequences are joined.
LEMMA ConcatElements ==
    ASSUME NEW S, NEW s \in Seq(S), NEW t \in Seq(S)
    PROVE  s \o t \in Seq(S) /\ Elements(s) \subseteq Elements(s \o t)
<1>1. /\ Len(s) \in Nat /\ Len(t) \in Nat /\ s \o t \in Seq(S) /\ DOMAIN s = 1 .. Len(s)
      /\ DOMAIN (s \o t) = 1 .. Len(s) + Len(t)
      /\ \A i \in 1 .. Len(s) : (s \o t)[i] = s[i]
  OBVIOUS
<1> QED
  BY <1>1 DEF Elements

\* Only the element at position k is lost.
LEMMA WithoutElements ==
    ASSUME NEW S, NEW s \in Seq(S), NEW k \in DOMAIN s
    PROVE  WithoutNth(s, k) \in Seq(S) /\ Elements(s) \subseteq Elements(WithoutNth(s, k)) \cup {s[k]}
<1> DEFINE t == WithoutNth(s, k)
<1>1. Len(s) \in Nat /\ DOMAIN s = 1 .. Len(s) /\ k \in 1 .. Len(s)
  OBVIOUS
<1>2. t \in [1 .. Len(s) - 1 -> S]
  BY <1>1 DEF WithoutNth
<1>3. t \in Seq(S) /\ DOMAIN t = 1 .. Len(s) - 1
  BY <1>1, <1>2
<1>4. \A i \in DOMAIN t : t[i] = IF i < k THEN s[i] ELSE s[i + 1]
  BY <1>3 DEF WithoutNth
<1> HIDE DEF t
<1>5. ASSUME NEW i \in DOMAIN s, i # k
      PROVE  s[i] \in Elements(t)
  <2>1. CASE i < k
    <3>1. i \in DOMAIN t /\ t[i] = s[i]
      BY <1>1, <1>3, <1>4, <2>1
    <3> QED
      BY <3>1 DEF Elements
  <2>2. CASE i > k
    <3>1. i - 1 \in DOMAIN t /\ t[i - 1] = s[i]
      BY <1>1, <1>3, <1>4, <2>2
    <3> QED
      BY <3>1 DEF Elements
  <2> QED
    BY <1>1, <1>5, <2>1, <2>2
<1> QED
  BY <1>3, <1>5 DEF Elements, t

\* What is announced is told.
LEMMA HeraldsTold ==
    ASSUME NEW sig
    PROVE  Heralds(sig) \subseteq Told(sig)
BY DEF Heralds, Told, ToldBy

(* The player sends a signal.                                              *)
LEMMA EmitIs ==
    ASSUME NEW p \in StreamPlayers, NEW s \in Signals
    PROVE  LET q == Emit(p, s)
           IN  /\ q \in StreamPlayers
               /\ q.st = p.st /\ q.cur = p.cur /\ q.said = p.said /\ q.queue = p.queue
               /\ Known(q) = Known(p) \cup ToldBy(s)
               /\ Heralds(q.sig) = Heralds(p.sig) \cup (IF s.name = "NowPlaying" THEN {s.id} ELSE {})
<1> DEFINE q == Emit(p, s)
<1>1. /\ q.st = p.st /\ q.cur = p.cur /\ q.said = p.said /\ q.queue = p.queue
      /\ q.sig = Append(p.sig, s) /\ p.sig \in Seq(Signals)
  BY DEF Emit, StreamPlayers
<1>2. q.sig \in Seq(Signals) /\ Elements(q.sig) = Elements(p.sig) \cup {s}
  BY <1>1, AppendElements
<1>3. q \in StreamPlayers
  BY <1>2 DEF Emit, StreamPlayers
<1> HIDE DEF q
<1>4. Told(q.sig) = Told(p.sig) \cup ToldBy(s)
  BY <1>2 DEF Told
<1>5. Heralds(q.sig) = Heralds(p.sig) \cup (IF s.name = "NowPlaying" THEN {s.id} ELSE {})
  BY <1>2 DEF Heralds
<1> QED
  BY <1>1, <1>3, <1>4, <1>5 DEF Known, q

\* Signals of the player.
LEMMA SignalIs ==
    /\ \A n \in {"NowPlaying", "Unpaused", "Paused", "Dropped"}, id \in AnyStream :
           /\ Signal(n, id) \in Signals /\ Signal(n, id).name = n /\ Signal(n, id).id = id
           /\ ToldBy(Signal(n, id)) = IF n \in {"NowPlaying", "Dropped"} THEN {id} ELSE {}
    /\ \A id \in AnyStream, ids \in SUBSET StreamIds :
           /\ StopSignal(id, ids) \in Signals /\ StopSignal(id, ids).name = "Stopped"
           /\ ToldBy(StopSignal(id, ids)) = ids
    /\ \A id \in AnyStream, err \in Errors, empty \in BOOLEAN :
           /\ ErrorSignal(id, err, empty) \in Signals /\ ErrorSignal(id, err, empty).name = "Stopped"
           /\ ToldBy(ErrorSignal(id, err, empty)) = IF err \in {"io.net", "io.media"} THEN {id} ELSE {}
<1>1. \A n \in {"NowPlaying", "Unpaused", "Paused", "Stopped", "Dropped"}, id \in AnyStream :
          Signal(n, id) \in Signals /\ Signal(n, id).name = n /\ Signal(n, id).id = id
  BY DEF Signal, Signals, AnyStream
<1>2. ASSUME NEW n \in {"NowPlaying", "Unpaused", "Paused", "Dropped"}, NEW id \in AnyStream
      PROVE  ToldBy(Signal(n, id)) = IF n \in {"NowPlaying", "Dropped"} THEN {id} ELSE {}
  <2> DEFINE s == Signal(n, id)
  <2>1. s.name = n /\ s.id = id
    BY <1>1
  <2> HIDE DEF s
  <2>2. CASE n \in {"NowPlaying", "Dropped"}
    BY <2>1, <2>2 DEF ToldBy, s
  <2>3. CASE n \in {"Unpaused", "Paused"}
    BY <2>1, <2>3 DEF ToldBy, s
  <2> QED
    BY <2>2, <2>3
<1>3. ASSUME NEW id \in AnyStream, NEW ids \in SUBSET StreamIds
      PROVE  /\ StopSignal(id, ids) \in Signals /\ StopSignal(id, ids).name = "Stopped"
             /\ ToldBy(StopSignal(id, ids)) = ids
  <2> DEFINE s == StopSignal(id, ids)
  <2>1. s \in Signals /\ s.name = "Stopped" /\ s.err = "" /\ s.dropped = ids
    BY Zenon DEF StopSignal, Signal, Signals, AnyStream
  <2> QED
    BY Zenon, <2>1 DEF ToldBy
<1>4. ASSUME NEW id \in AnyStream, NEW err \in Errors, NEW empty \in BOOLEAN
      PROVE  /\ ErrorSignal(id, err, empty) \in Signals /\ ErrorSignal(id, err, empty).name = "Stopped"
             /\ ToldBy(ErrorSignal(id, err, empty)) = IF err \in {"io.net", "io.media"} THEN {id} ELSE {}
  <2> DEFINE s == ErrorSignal(id, err, empty)
  <2>1. s \in Signals /\ s.name = "Stopped" /\ s.err = err /\ s.dropped = {} /\ s.id = id
    BY Zenon DEF ErrorSignal, Signal, Signals, AnyStream
  <2> QED
    BY <2>1 DEF ToldBy
<1> QED
  BY <1>1, <1>2, <1>3, <1>4

(* The player takes the next stream from its FIFO.                         *)
LEMMA TakeIs ==
    ASSUME NEW p \in StreamPlayers, p.queue # <<>>, NEW st \in PlayerStates \ {"stopped"}
    PROVE  LET q == TakeNext(p, st)
           IN  /\ q \in StreamPlayers /\ Settled(q) /\ q.said = p.said /\ q.sig = p.sig
               /\ Known(p) \subseteq Known(q) \cup OnlyId(p.cur)
<1> DEFINE q == TakeNext(p, st)
<1>1. p.queue \in Seq(StreamIds)
  BY DEF StreamPlayers
<1>2. Head(p.queue) \in StreamIds /\ Tail(p.queue) \in Seq(StreamIds)
      /\ Elements(p.queue) = {Head(p.queue)} \cup Elements(Tail(p.queue))
  BY <1>1, HeadElements
<1>3. /\ q \in StreamPlayers /\ q.st = st /\ q.said = p.said /\ q.sig = p.sig
      /\ q.cur = Head(p.queue) /\ q.queue = Tail(p.queue)
  BY <1>2 DEF TakeNext, StreamPlayers
<1> HIDE DEF q
<1>4. Known(p) \subseteq Known(q) \cup OnlyId(p.cur)
  BY <1>2, <1>3, NoneAssumption DEF Known, OnlyId
<1> QED
  BY <1>3, <1>4 DEF Settled, q

(* Methods of the player that do not take anything from its FIFO for good. *)
LEMMA MethodsKeep ==
    ASSUME NEW p \in StreamPlayers, Settled(p)
    PROVE  Keeps(p, p) /\ Keeps(p, Start(p)) /\ Keeps(p, Pause(p)) /\ Keeps(p, Stop(p))
<1>1. Keeps(p, p)
  BY DEF Keeps
<1>2. p.cur \in AnyStream /\ p.said \in AnyStream /\ p.st \in PlayerStates /\ p.queue \in Seq(StreamIds)
      /\ p.sig \in Seq(Signals) /\ Elements(p.queue) \subseteq StreamIds
  BY DEF StreamPlayers, AnyStream, Elements
\* A signal more, and another state; the streams are the same.
<1>3. ASSUME NEW st \in PlayerStates \ {"stopped"}, p.st # "stopped", NEW n \in {"Unpaused", "Paused"}
      PROVE  Keeps(p, [p EXCEPT !.st = st]) /\ Keeps(p, Emit([p EXCEPT !.st = st], Signal(n, p.cur)))
  <2> DEFINE q == [p EXCEPT !.st = st]
             x == Emit(q, Signal(n, p.cur))
  <2>1. /\ q \in StreamPlayers /\ q.st = st /\ q.cur = p.cur /\ q.said = p.said
        /\ q.queue = p.queue /\ q.sig = p.sig
    BY <1>3 DEF StreamPlayers
  <2> HIDE DEF q
  <2>2. Keeps(p, q)
    BY <2>1 DEF Keeps, Tracks, Known, Settled
  <2>3. /\ Signal(n, p.cur) \in Signals /\ Signal(n, p.cur).name # "NowPlaying"
        /\ ToldBy(Signal(n, p.cur)) = {}
    BY <1>2, SignalIs
  <2>5. /\ x \in StreamPlayers /\ x.st = q.st /\ x.said = q.said /\ Known(x) = Known(q)
        /\ Heralds(x.sig) = Heralds(q.sig)
    BY <2>1, <2>3, EmitIs
  <2> HIDE DEF x
  <2>4. Keeps(p, x)
    BY <2>1, <2>5 DEF Keeps, Tracks, Known, Settled
  <2> QED
    BY <2>2, <2>4 DEF x, q
<1>4. ASSUME p.st = "stopped", p.queue # <<>>, NEW st \in PlayerStates \ {"stopped"}
      PROVE  Keeps(p, TakeNext(p, st))
  <2>1. OnlyId(p.cur) = {}
    BY <1>4 DEF Settled, OnlyId
  <2> QED
    BY <1>4, <2>1, TakeIs DEF Keeps, Tracks
<1>5. ASSUME p.st = "stopped", NEW err \in Errors, NEW empty \in BOOLEAN
      PROVE  Keeps(p, Emit(p, ErrorSignal(None, err, empty)))
  <2> DEFINE x == Emit(p, ErrorSignal(None, err, empty))
  <2>3. ErrorSignal(None, err, empty) \in Signals /\ ErrorSignal(None, err, empty).name = "Stopped"
    BY SignalIs DEF AnyStream
  <2>1. /\ x \in StreamPlayers /\ x.st = p.st /\ x.cur = p.cur /\ x.said = p.said
        /\ Known(p) \subseteq Known(x) /\ Heralds(x.sig) = Heralds(p.sig)
    BY Zenon, <2>3, EmitIs
  <2> HIDE DEF x
  <2>2. Keeps(p, x)
    BY <2>1 DEF Keeps, Tracks, Settled
  <2> QED
    BY <2>2 DEF x
<1>6. Keeps(p, Start(p))
  <2>1. "flow.nourl" \in Errors /\ {"playing", "paused", "stopped"} = PlayerStates
    BY DEF Errors, PlayerStates
  <2>2. Start(p) \in {p, [p EXCEPT !.st = "playing"], Emit([p EXCEPT !.st = "playing"], Signal("Unpaused", p.cur)),
                      TakeNext(p, "playing"), Emit(p, ErrorSignal(None, "flow.nourl", TRUE))}
    BY <1>2, <2>1 DEF Start
  <2>3. CASE p.st = "stopped"
    BY <1>4, <1>5, <2>1, <2>3 DEF Start
  <2>4. CASE p.st # "stopped"
    <3>1. Start(p) \in {p, [p EXCEPT !.st = "playing"], Emit([p EXCEPT !.st = "playing"], Signal("Unpaused", p.cur))}
      BY <1>2, <2>1, <2>4 DEF Start
    <3> QED
      BY <1>1, <1>3, <2>1, <2>4, <3>1
  <2> QED
    BY <2>3, <2>4
<1>7. Keeps(p, Pause(p))
  <2>1. {"playing", "paused", "stopped"} = PlayerStates
    BY DEF PlayerStates
  <2>2. CASE p.st = "stopped"
    BY <1>1, <1>4, <2>1, <2>2 DEF Pause
  <2>3. CASE p.st # "stopped"
    <3>1. Pause(p) \in {p, [p EXCEPT !.st = "paused"], Emit([p EXCEPT !.st = "paused"], Signal("Paused", p.cur))}
      BY <2>3 DEF Pause
    <3> QED
      BY <1>1, <1>3, <2>1, <2>3, <3>1
  <2> QED
    BY <2>2, <2>3
<1>8. Keeps(p, Stop(p))
  <2>1. CASE p.st = "stopped"
    <3>1. "flow.stopped" \in Errors /\ (p.queue = <<>>) \in BOOLEAN
      BY DEF Errors
    <3> QED
      BY <1>5, <2>1, <3>1 DEF Stop
  <2>2. CASE p.st # "stopped"
    <3> DEFINE q   == [p EXCEPT !.st = "stopped", !.cur = None, !.said = None, !.queue = <<>>]
               ids == Elements(p.queue) \cup Unheard(p)
               x   == Emit(q, StopSignal(p.said, ids))
    <3>1. ids \subseteq StreamIds
      BY <1>2 DEF Unheard, OnlyId, AnyStream
    <3>2. /\ q \in StreamPlayers /\ q.st = "stopped" /\ q.cur = None /\ q.said = None
          /\ q.queue = <<>> /\ q.sig = p.sig
      <4>1. <<>> \in Seq(StreamIds)
        OBVIOUS
      <4> QED
        BY <1>2, <4>1 DEF StreamPlayers, PlayerStates
    <3> HIDE DEF q
    <3>3. Known(p) \subseteq Known(q) \cup ids \cup OnlyId(p.cur)
      BY <3>2 DEF Known
    <3>4. Known(p) \subseteq Known(q) \cup ids \cup (IF Announced(p) THEN OnlyId(p.said) ELSE {})
      BY <3>3 DEF Unheard, Announced
    <3>5. Told(q.sig) \subseteq Known(q)
      BY DEF Known
    <3> HIDE DEF ids
    <3>6. StopSignal(p.said, ids) \in Signals /\ ToldBy(StopSignal(p.said, ids)) = ids
          /\ StopSignal(p.said, ids).name = "Stopped"
      BY <1>2, <3>1, SignalIs
    <3>7. /\ x \in StreamPlayers /\ x.st = "stopped" /\ x.cur = None /\ x.said = None
          /\ Known(x) = Known(q) \cup ids
      BY <3>2, <3>6, EmitIs
    <3> HIDE DEF x
    <3>8. ASSUME NEW X, NEW Q, Q \subseteq StreamIds, Tracks(X, Q, p)
          PROVE  Tracks(X, Q, x)
      <4>1. Heralds(p.sig) \subseteq Known(q)
        BY <3>2, <3>5, HeraldsTold
      <4>2. Q \subseteq Known(x) \cup X
        BY <3>4, <3>7, <3>8, <4>1 DEF Tracks, OnlyId
      <4> QED
        BY <3>7, <3>8, <4>2, NoneAssumption DEF Tracks
    <3>9. Keeps(p, x)
      BY <3>7, <3>8 DEF Keeps, Settled
    <3> QED
      BY <2>2, <3>9 DEF Stop, x, q, ids
  <2> QED
    BY <2>1, <2>2
<1> QED
  BY <1>1, <1>6, <1>7, <1>8

(* What the player does of its own accord.                                 *)
LEMMA PlayerKeeps ==
    ASSUME NEW p \in StreamPlayers, Settled(p)
    PROVE  /\ CanAnnounce(p) => Keeps(p, Announce(p))
           /\ CanEnd(p) => Keeps(p, EndOfStream(p))
           /\ \A err \in {"io.net", "io.media"} : CanFail(p) => Keeps(p, Fail(p, err))
           /\ \A id \in Elements(p.queue) : Keeps(p, DropEarly(p, id))
<1>1. p.cur \in AnyStream /\ p.said \in AnyStream /\ p.st \in PlayerStates /\ p.queue \in Seq(StreamIds)
      /\ p.sig \in Seq(Signals) /\ Elements(p.queue) \subseteq StreamIds
  BY DEF StreamPlayers, AnyStream, Elements
<1>2. ASSUME CanAnnounce(p)
      PROVE  Keeps(p, Announce(p))
  <2> DEFINE q == [p EXCEPT !.said = p.cur]
             x == Emit(q, Signal("NowPlaying", p.cur))
             n == IF p.st = "playing" THEN "Unpaused" ELSE "Paused"
             y == Emit(x, Signal(n, p.cur))
  <2>1. /\ q \in StreamPlayers /\ q.st = p.st /\ q.cur = p.cur /\ q.said = p.cur
        /\ q.queue = p.queue /\ q.sig = p.sig
    BY DEF StreamPlayers
  <2> HIDE DEF q
  <2>7. /\ Signal("NowPlaying", p.cur) \in Signals /\ Signal("NowPlaying", p.cur).name = "NowPlaying"
        /\ Signal("NowPlaying", p.cur).id = p.cur
    BY <1>1, SignalIs
  <2>2. /\ x \in StreamPlayers /\ x.st = q.st /\ x.said = q.said
        /\ Known(q) \subseteq Known(x) /\ p.cur \in Heralds(x.sig)
    BY <2>1, <2>7, EmitIs
  <2> HIDE DEF x
  <2>3. /\ y \in StreamPlayers /\ y.st = x.st /\ y.said = x.said
        /\ Known(x) \subseteq Known(y) /\ Heralds(x.sig) \subseteq Heralds(y.sig)
    <3>1. Signal(n, p.cur) \in Signals
      BY <1>1, SignalIs
    <3> QED
      BY <2>2, <3>1, EmitIs
  <2> HIDE DEF y
  <2>4. Known(q) = Known(p)
    BY <2>1 DEF Known
  <2>5. p.st # "stopped"
    BY <1>2 DEF CanAnnounce
  <2>6. Keeps(p, y)
    BY <2>1, <2>2, <2>3, <2>4, <2>5 DEF Keeps, Tracks, Settled
  <2> QED
    BY <2>6 DEF Announce, y, x, q
<1>3. ASSUME CanEnd(p)
      PROVE  Keeps(p, EndOfStream(p))
  <2>1. p.st = "playing" /\ p.cur = p.said
    BY <1>3 DEF CanEnd, Announced
  <2>2. Heralds(p.sig) \subseteq Told(p.sig)
    BY HeraldsTold
  <2>3. CASE p.queue # <<>>
    <3> DEFINE q == TakeNext(p, "playing")
    <3>1. /\ q \in StreamPlayers /\ Settled(q) /\ q.said = p.said /\ q.sig = p.sig
          /\ Known(p) \subseteq Known(q) \cup OnlyId(p.cur)
      BY <2>3, TakeIs DEF PlayerStates
    <3> HIDE DEF q
    <3>2. Told(p.sig) \subseteq Known(q)
      BY <3>1 DEF Known
    <3>3. Keeps(p, q)
      BY <2>1, <2>2, <3>1, <3>2 DEF Keeps, Tracks, OnlyId
    <3> QED
      BY <2>3, <3>3 DEF EndOfStream, q
  <2>4. CASE p.queue = <<>>
    <3> DEFINE q == [p EXCEPT !.st = "stopped", !.cur = None, !.said = None]
               x == Emit(q, StopSignal(p.cur, {}))
    <3>1. /\ q \in StreamPlayers /\ q.st = "stopped" /\ q.cur = None /\ q.said = None
          /\ q.queue = p.queue /\ q.sig = p.sig
      BY DEF StreamPlayers, PlayerStates
    <3> HIDE DEF q
    <3>5. StopSignal(p.cur, {}) \in Signals
      BY <1>1, SignalIs
    <3>2. /\ x \in StreamPlayers /\ x.st = "stopped" /\ x.cur = None /\ x.said = None
          /\ Known(q) \subseteq Known(x)
      BY <3>1, <3>5, EmitIs
    <3> HIDE DEF x
    <3>3. Known(p) \subseteq Known(q) \cup OnlyId(p.said) /\ Told(p.sig) \subseteq Known(q)
      BY <2>1, <3>1 DEF Known
    <3>4. Keeps(p, x)
      BY <2>1, <2>2, <3>2, <3>3, NoneAssumption DEF Keeps, Tracks, OnlyId, Settled
    <3> QED
      BY <2>4, <3>4 DEF EndOfStream, x, q
  <2> QED
    BY <2>3, <2>4
<1>4. ASSUME NEW err \in {"io.net", "io.media"}, CanFail(p)
      PROVE  Keeps(p, Fail(p, err))
  <2> DEFINE q == [p EXCEPT !.st = "stopped", !.cur = None, !.said = None]
             s == ErrorSignal(p.cur, err, p.queue = <<>>)
             x == Emit(q, s)
  <2>1. /\ q \in StreamPlayers /\ q.st = "stopped" /\ q.cur = None /\ q.said = None
        /\ q.queue = p.queue /\ q.sig = p.sig
    BY DEF StreamPlayers, PlayerStates
  <2> HIDE DEF q
  <2>2. s \in Signals /\ ToldBy(s) = {p.cur}
    <3>1. err \in Errors /\ (p.queue = <<>>) \in BOOLEAN
      BY DEF Errors
    <3> QED
      BY <1>1, <3>1, SignalIs
  <2> HIDE DEF s
  <2>3. /\ x \in StreamPlayers /\ x.st = "stopped" /\ x.cur = None /\ x.said = None
        /\ Known(x) = Known(q) \cup {p.cur}
    BY <2>1, <2>2, EmitIs
  <2> HIDE DEF x
  <2>4. Known(p) \subseteq Known(q) \cup {p.cur}
    BY <2>1 DEF Known, OnlyId
  <2>5. Keeps(p, x)
    BY <2>3, <2>4, NoneAssumption DEF Keeps, Tracks, Settled
  <2> QED
    BY <2>5 DEF Fail, x, s, q
<1>5. ASSUME NEW id \in Elements(p.queue)
      PROVE  Keeps(p, DropEarly(p, id))
  <2> DEFINE k == IndexOf(p.queue, id)
             q == [p EXCEPT !.queue = WithoutNth(@, k)]
             x == Emit(q, Signal("Dropped", id))
  <2>1. k \in DOMAIN p.queue /\ p.queue[k] = id
    BY IndexOfElement
  <2> HIDE DEF k
  <2>2. WithoutNth(p.queue, k) \in Seq(StreamIds)
        /\ Elements(p.queue) \subseteq Elements(WithoutNth(p.queue, k)) \cup {id}
    BY <1>1, <2>1, WithoutElements
  <2>3. /\ q \in StreamPlayers /\ q.st = p.st /\ q.cur = p.cur /\ q.said = p.said
        /\ q.queue = WithoutNth(p.queue, k) /\ q.sig = p.sig
    BY <2>2 DEF StreamPlayers
  <2> HIDE DEF q
  <2>4. Known(p) \subseteq Known(q) \cup {id}
    BY <2>2, <2>3 DEF Known
  <2>5. Signal("Dropped", id) \in Signals /\ ToldBy(Signal("Dropped", id)) = {id}
        /\ Signal("Dropped", id).name = "Dropped"
    BY <1>1, SignalIs DEF AnyStream
  <2>6. /\ x \in StreamPlayers /\ x.st = q.st /\ x.cur = q.cur /\ x.said = q.said
        /\ Known(x) = Known(q) \cup {id} /\ Heralds(x.sig) = Heralds(q.sig)
    BY <2>3, <2>5, EmitIs
  <2> HIDE DEF x
  <2>7. Keeps(p, x)
    BY <2>3, <2>4, <2>6 DEF Keeps, Tracks, Settled
  <2> QED
    BY <2>7 DEF DropEarly, x, q, k
<1> QED
  BY <1>2, <1>3, <1>4, <1>5

(***************************************************************************)
(* Player control                                                          *)
(***************************************************************************)
Sent == "assertion: stream has been sent"

\* An operation that is where it can be, and knows where to go.
RightOp(op) ==
    /\ op.kind = "skip" => op.prev \notin {"NOTHING", "STOPPING"}
    /\ op.kind # "revert" => op.dir # "NONE"
    /\ op.kind = "play" => op.dir = "FORWARD"
    /\ op.kind \in {"play", "prefetch", "skip"} /\ op.res = "found" => Found(op) \in Positions

TypedControl(c) == c \in Controls /\ \A o \in OpIds : c.ops[o] # NoOp => RightOp(c.ops[o])

\* Something about player control changes, but not what it is attached to.
Adjusted(w, x) ==
    /\ x.d = w.d /\ x.p = w.p /\ TypedControl(x.c)
    /\ x.c.plugged = w.c.plugged /\ x.c.source = w.c.source /\ x.c.handle = w.c.handle
    /\ (HasRoom(w) => HasRoom(x)) /\ (Sent \in x.c.bugs => Sent \in w.c.bugs)

\* The types of the fields of player control.
LEMMA ControlIs ==
    ASSUME NEW c \in Controls
    PROVE  /\ c.handle \in BOOLEAN /\ c.marks \in [Marks -> Positions \cup {None}]
           /\ c.next \in OpIds \cup {None} /\ c.uris \in OpIds \cup {None} /\ c.skip \in OpIds \cup {None}
           /\ c.saved \in Positions \cup {None} /\ c.dir \in {"FORWARD", "BACKWARD"}
           /\ c.retry \in [count : 0 .. MAX_RETRIES, id : StreamIds \cup {None}]
           /\ c.ops \in [OpIds -> Ops \cup {NoOp}] /\ c.done \in Seq(OpIds)
           /\ c.dead \in SUBSET {"delayed", "running"} /\ c.bugs \in SUBSET Bugs
BY DEF Controls

\* Fields which nothing else depends on.
LEMMA FieldTyped ==
    ASSUME NEW c, TypedControl(c)
    PROVE  /\ \A b \in Bugs : TypedControl([c EXCEPT !.bugs = @ \cup {b}])
           /\ TypedControl([c EXCEPT !.bugs = {}])
           /\ \A m \in Marks, pos \in Positions \cup {None} : TypedControl([c EXCEPT !.marks[m] = pos])
           /\ \A f \in [Marks -> Positions \cup {None}] : TypedControl([c EXCEPT !.marks = f])
           /\ \A o \in OpIds \cup {None} : /\ TypedControl([c EXCEPT !.next = o])
                                           /\ TypedControl([c EXCEPT !.uris = o])
                                           /\ TypedControl([c EXCEPT !.skip = o])
           /\ \A pos \in Positions \cup {None} : TypedControl([c EXCEPT !.saved = pos])
           /\ \A dir \in {"FORWARD", "BACKWARD"} : TypedControl([c EXCEPT !.dir = dir])
           /\ \A n \in 0 .. MAX_RETRIES, id \in AnyStream : TypedControl([c EXCEPT !.retry = [count |-> n, id |-> id]])
           /\ \A id \in AnyStream : TypedControl([c EXCEPT !.retry.id = id])
           /\ \A b \in BOOLEAN : TypedControl([c EXCEPT !.handle = b])
           /\ \A s \in SUBSET {"delayed", "running"} : TypedControl([c EXCEPT !.dead = s])
           /\ \A s \in {"none", "own", "external"}, t \in {"DESELECTED", "REQUESTED", "SELECTED"} :
                  TypedControl([c EXCEPT !.plugged = s, !.source = t])
<1>1. c \in Controls /\ \A o \in OpIds : c.ops[o] # NoOp => RightOp(c.ops[o])
  BY DEF TypedControl
<1>2. ASSUME NEW b \in Bugs
      PROVE  TypedControl([c EXCEPT !.bugs = @ \cup {b}])
  <2>1. [c EXCEPT !.bugs = @ \cup {b}] \in Controls
    BY <1>1 DEF Controls
  <2> QED
    BY <1>1, <2>1 DEF TypedControl, Controls
<1>3. TypedControl([c EXCEPT !.bugs = {}])
  <2>1. [c EXCEPT !.bugs = {}] \in Controls
    BY <1>1 DEF Controls
  <2> QED
    BY <1>1, <2>1 DEF TypedControl, Controls
<1>4. ASSUME NEW f \in [Marks -> Positions \cup {None}]
      PROVE  TypedControl([c EXCEPT !.marks = f])
  <2>1. [c EXCEPT !.marks = f] \in Controls
    BY <1>1 DEF Controls
  <2> QED
    BY <1>1, <2>1 DEF TypedControl, Controls
<1>5. ASSUME NEW m \in Marks, NEW pos \in Positions \cup {None}
      PROVE  TypedControl([c EXCEPT !.marks[m] = pos])
  <2>1. [c.marks EXCEPT ![m] = pos] \in [Marks -> Positions \cup {None}]
    BY <1>1, ControlIs
  <2>2. [c EXCEPT !.marks[m] = pos] = [c EXCEPT !.marks = [c.marks EXCEPT ![m] = pos]]
    BY <1>1 DEF Controls
  <2> QED
    BY <1>4, <2>1, <2>2
<1>6. ASSUME NEW o \in OpIds \cup {None}
      PROVE  /\ TypedControl([c EXCEPT !.next = o])
             /\ TypedControl([c EXCEPT !.uris = o])
             /\ TypedControl([c EXCEPT !.skip = o])
  <2>1. [c EXCEPT !.next = o] \in Controls /\ [c EXCEPT !.uris = o] \in Controls /\ [c EXCEPT !.skip = o] \in Controls
    BY <1>1 DEF Controls
  <2> QED
    BY <1>1, <2>1 DEF TypedControl, Controls
<1>7. ASSUME NEW pos \in Positions \cup {None}
      PROVE  TypedControl([c EXCEPT !.saved = pos])
  <2>1. [c EXCEPT !.saved = pos] \in Controls
    BY <1>1 DEF Controls
  <2> QED
    BY <1>1, <2>1 DEF TypedControl, Controls
<1>8. ASSUME NEW dir \in {"FORWARD", "BACKWARD"}
      PROVE  TypedControl([c EXCEPT !.dir = dir])
  <2>1. [c EXCEPT !.dir = dir] \in Controls
    BY <1>1 DEF Controls
  <2> QED
    BY <1>1, <2>1 DEF TypedControl, Controls
<1>9. ASSUME NEW r \in [count : 0 .. MAX_RETRIES, id : AnyStream]
      PROVE  TypedControl([c EXCEPT !.retry = r])
  <2>1. [c EXCEPT !.retry = r] \in Controls
    BY <1>1 DEF Controls, AnyStream
  <2> QED
    BY <1>1, <2>1 DEF TypedControl, Controls
<1>10. \A n \in 0 .. MAX_RETRIES, id \in AnyStream : TypedControl([c EXCEPT !.retry = [count |-> n, id |-> id]])
  BY <1>9
<1>11. ASSUME NEW id \in AnyStream
       PROVE  TypedControl([c EXCEPT !.retry.id = id])
  <2>1. [c.retry EXCEPT !.id = id] \in [count : 0 .. MAX_RETRIES, id : AnyStream]
    BY <1>1, ControlIs DEF AnyStream
  <2>2. [c EXCEPT !.retry.id = id] = [c EXCEPT !.retry = [c.retry EXCEPT !.id = id]]
    BY <1>1 DEF Controls
  <2> QED
    BY <1>9, <2>1, <2>2
<1>12. ASSUME NEW b \in BOOLEAN
       PROVE  TypedControl([c EXCEPT !.handle = b])
  <2>1. [c EXCEPT !.handle = b] \in Controls
    BY <1>1 DEF Controls
  <2> QED
    BY <1>1, <2>1 DEF TypedControl, Controls
<1>13. ASSUME NEW s \in SUBSET {"delayed", "running"}
       PROVE  TypedControl([c EXCEPT !.dead = s])
  <2>1. [c EXCEPT !.dead = s] \in Controls
    BY <1>1 DEF Controls
  <2> QED
    BY <1>1, <2>1 DEF TypedControl, Controls
<1>14. ASSUME NEW s \in {"none", "own", "external"}, NEW t \in {"DESELECTED", "REQUESTED", "SELECTED"}
       PROVE  TypedControl([c EXCEPT !.plugged = s, !.source = t])
  <2>1. [c EXCEPT !.plugged = s, !.source = t] \in Controls
    BY <1>1 DEF Controls
  <2> QED
    BY <1>1, <2>1 DEF TypedControl, Controls
<1> QED
  BY <1>2, <1>3, <1>4, <1>5, <1>6, <1>7, <1>8, <1>10, <1>11, <1>12, <1>13, <1>14

\* The set of operations changes.
LEMMA OpsTyped ==
    ASSUME NEW c, TypedControl(c), NEW f \in [OpIds -> Ops \cup {NoOp}],
           \A o \in OpIds : f[o] # NoOp => RightOp(f[o]),
           NEW done \in Seq(OpIds)
    PROVE  TypedControl([c EXCEPT !.ops = f]) /\ TypedControl([c EXCEPT !.ops = f, !.done = done])
<1>1. [c EXCEPT !.ops = f] \in Controls /\ [c EXCEPT !.ops = f, !.done = done] \in Controls
  BY DEF TypedControl, Controls
<1> QED
  BY <1>1 DEF TypedControl, Controls

\* A single operation changes.
LEMMA OpTyped ==
    ASSUME NEW c, TypedControl(c), NEW o \in OpIds, NEW op \in Ops \cup {NoOp},
           op # NoOp => RightOp(op), NEW done \in Seq(OpIds)
    PROVE  /\ TypedControl([c EXCEPT !.ops[o] = op])
           /\ TypedControl([c EXCEPT !.ops[o] = op, !.done = done])
<1> DEFINE f == [c.ops EXCEPT ![o] = op]
<1>1. c.ops \in [OpIds -> Ops \cup {NoOp}] /\ \A q \in OpIds : c.ops[q] # NoOp => RightOp(c.ops[q])
  BY ControlIs DEF TypedControl
<1>2. f \in [OpIds -> Ops \cup {NoOp}] /\ \A q \in OpIds : f[q] # NoOp => RightOp(f[q])
  BY <1>1
<1>3. /\ [c EXCEPT !.ops[o] = op] = [c EXCEPT !.ops = f]
      /\ [c EXCEPT !.ops[o] = op, !.done = done] = [c EXCEPT !.ops = f, !.done = done]
  BY DEF TypedControl, Controls
<1> HIDE DEF f
<1> QED
  BY Zenon, <1>2, <1>3, OpsTyped

\* The fields of player control which operations are not kept in.
OtherFields ==
    {"plugged", "source", "handle", "marks", "next", "uris", "skip", "saved", "dir", "retry", "hold", "bugs"}

\* Operations are canceled or gone, or are forgotten as a whole.
LEMMA CancelTyped ==
    ASSUME NEW c, TypedControl(c), NEW o \in OpIds \cup {None}
    PROVE  LET x == cancel(c, o)
           IN  /\ TypedControl(x) /\ \A f \in OtherFields : x[f] = c[f]
               /\ \A q \in OpIds : c.ops[q] = NoOp => x.ops[q] = NoOp
<1> DEFINE x == cancel(c, o)
<1>1. c.ops \in [OpIds -> Ops \cup {NoOp}] /\ c.dead \in SUBSET {"delayed", "running"}
      /\ \A q \in OpIds : c.ops[q] # NoOp => RightOp(c.ops[q])
  BY ControlIs DEF TypedControl
<1>2. CASE o = None
  BY <1>2 DEF cancel
<1>3. CASE o # None /\ c.ops[o] = NoOp
  BY <1>3 DEF cancel
<1>4. CASE o # None /\ c.ops[o] # NoOp /\ c.ops[o].st = "done"
  <2> DEFINE op == [c.ops[o] EXCEPT !.canceled = TRUE]
  <2>1. o \in OpIds /\ c.ops[o] \in Ops /\ RightOp(c.ops[o])
    BY <1>1, <1>4
  <2>2. op \in Ops /\ RightOp(op)
    BY <2>1 DEF Ops, RightOp, Found
  <2>3. x = [c EXCEPT !.ops[o] = op]
    BY <1>4, <2>1 DEF cancel, TypedControl, Controls
  <2> HIDE DEF op
  <2>4. TypedControl(x)
    <3>1. c.done \in Seq(OpIds)
      BY ControlIs DEF TypedControl
    <3>2. TypedControl([c EXCEPT !.ops[o] = op])
      BY Zenon, <2>1, <2>2, <3>1, OpTyped
    <3> QED
      BY <2>3, <3>2
  <2>5. \A f \in OtherFields : x[f] = c[f]
    BY <2>3 DEF OtherFields, TypedControl, Controls
  <2>6. \A q \in OpIds : c.ops[q] = NoOp => x.ops[q] = NoOp
    BY <1>1, <1>4, <2>1, <2>3 DEF TypedControl, Controls
  <2> QED
    BY <2>4, <2>5, <2>6
<1>5. CASE o # None /\ c.ops[o] # NoOp /\ c.ops[o].st # "done"
  <2> DEFINE s == c.dead \cup {c.ops[o].st}
             y == [c EXCEPT !.ops[o] = NoOp]
  <2>1. o \in OpIds /\ c.ops[o] \in Ops
    BY <1>1, <1>5
  <2>2. s \in SUBSET {"delayed", "running"}
    BY <1>1, <1>5, <2>1 DEF Ops, OpStates
  <2>3. x = [y EXCEPT !.dead = s]
    BY <1>5, <2>1 DEF cancel, TypedControl, Controls
  <2>4. TypedControl(y)
    BY Zenon, <2>1, OpTyped, ControlIs DEF TypedControl
  <2>5. (\A f \in OtherFields : y[f] = c[f]) /\ (\A q \in OpIds : c.ops[q] = NoOp => y.ops[q] = NoOp)
    BY <1>1, <2>1 DEF OtherFields, TypedControl, Controls
  <2> HIDE DEF s, y
  <2>6. TypedControl(x)
    <3>1. TypedControl([y EXCEPT !.dead = s])
      BY Zenon, <2>2, <2>4, FieldTyped
    <3> QED
      BY <2>3, <3>1
  <2>7. (\A f \in OtherFields : x[f] = y[f]) /\ x.ops = y.ops
    BY <2>3, <2>4 DEF OtherFields, TypedControl, Controls
  <2> QED
    BY <2>5, <2>6, <2>7
<1> QED
  BY <1>2, <1>3, <1>4, <1>5

\* Operations that leave the crawler leave it well-typed.
LEMMA LessTyped ==
    ASSUME NEW c, TypedControl(c)
    PROVE  /\ LET x == drop_delayed(c)
              IN  /\ TypedControl(x) /\ \A f \in OtherFields : x[f] = c[f]
                  /\ \A q \in OpIds : c.ops[q] = NoOp => x.ops[q] = NoOp
           /\ LET x == deactivate(c)
              IN  /\ TypedControl(x) /\ \A f \in OtherFields \ {"marks", "handle"} : x[f] = c[f]
                  /\ x.handle = FALSE /\ \A q \in OpIds : x.ops[q] = NoOp
<1>1. c.ops \in [OpIds -> Ops \cup {NoOp}] /\ c.dead \in SUBSET {"delayed", "running"}
      /\ \A q \in OpIds : c.ops[q] # NoOp => RightOp(c.ops[q])
  BY ControlIs DEF TypedControl
<1>2. LET x == drop_delayed(c)
      IN  /\ TypedControl(x) /\ \A f \in OtherFields : x[f] = c[f]
          /\ \A q \in OpIds : c.ops[q] = NoOp => x.ops[q] = NoOp
  <2> DEFINE x == drop_delayed(c)
             f == [o \in OpIds |-> IF c.ops[o] # NoOp /\ c.ops[o].st = "delayed" THEN NoOp ELSE c.ops[o]]
             y == [c EXCEPT !.ops = f]
             s == c.dead \ {"delayed"}
  <2>1. /\ f \in [OpIds -> Ops \cup {NoOp}] /\ \A o \in OpIds : f[o] # NoOp => RightOp(f[o])
        /\ \A q \in OpIds : c.ops[q] = NoOp => f[q] = NoOp
    BY <1>1
  <2>2. x = [y EXCEPT !.dead = s] /\ s \in SUBSET {"delayed", "running"}
    BY <1>1 DEF drop_delayed, TypedControl, Controls
  <2> HIDE DEF f, s, x
  <2>3. TypedControl(y)
    BY Zenon, <2>1, OpsTyped, ControlIs DEF TypedControl
  <2>4. (\A g \in OtherFields : y[g] = c[g]) /\ y.ops = f
    BY DEF OtherFields, TypedControl, Controls
  <2> HIDE DEF y
  <2>5. TypedControl(x)
    BY Zenon, <2>2, <2>3, FieldTyped
  <2>6. (\A g \in OtherFields : x[g] = y[g]) /\ x.ops = y.ops
    BY <2>2, <2>3 DEF OtherFields, TypedControl, Controls
  <2> QED
    BY <2>1, <2>4, <2>5, <2>6 DEF x
<1>3. LET x == deactivate(c)
      IN  /\ TypedControl(x) /\ \A f \in OtherFields \ {"marks", "handle"} : x[f] = c[f]
          /\ x.handle = FALSE /\ \A q \in OpIds : x.ops[q] = NoOp
  <2> DEFINE x == deactivate(c)
             f == [o \in OpIds |-> NoOp]
             m == [n \in Marks |-> None]
  <2>1. f \in [OpIds -> Ops \cup {NoOp}] /\ m \in [Marks -> Positions \cup {None}] /\ <<>> \in Seq(OpIds)
    OBVIOUS
  <2>2. x = [c EXCEPT !.ops = f, !.done = <<>>, !.dead = {}, !.marks = m, !.handle = FALSE]
    BY DEF deactivate
  <2>3. \A q \in OpIds : f[q] = NoOp
    OBVIOUS
  <2> HIDE DEF f, m, x
  <2>4. x \in Controls /\ x.ops = f /\ x.handle = FALSE /\ \A g \in OtherFields \ {"marks", "handle"} : x[g] = c[g]
    BY <2>1, <2>2 DEF TypedControl, Controls, OtherFields
  <2> QED
    BY <2>3, <2>4 DEF TypedControl, x
<1> QED
  BY <1>2, <1>3

\* It is sufficient to look at player control.
LEMMA AdjustBy ==
    ASSUME NEW w, NEW c, TypedControl(c),
           c.plugged = w.c.plugged, c.source = w.c.source, c.handle = w.c.handle, c.bugs = w.c.bugs,
           \A o \in OpIds : w.c.ops[o] = NoOp => c.ops[o] = NoOp
    PROVE  Adjusted(w, WithControl(w, c))
BY DEF Adjusted, HasRoom

\* One adjustment after the other is an adjustment.
LEMMA AdjustedTwice ==
    ASSUME NEW w, NEW v, NEW x, Adjusted(w, v), Adjusted(v, x)
    PROVE  Adjusted(w, x)
BY DEF Adjusted

(* What happens to player control alone.                                   *)
LEMMA ControlAdjusts ==
    ASSUME NEW w, TypedControl(w.c)
    PROVE  /\ \A b \in Bugs \ {Sent}, cond \in BOOLEAN : Adjusted(w, BugIf(w, cond, b)) /\ Adjusted(w, Bug(w, b))
           /\ \A m \in Marks, pos \in Positions \cup {None} :
                  Adjusted(w, Mark(w, m, pos)) /\ Mark(w, m, pos).c.next = w.c.next
           /\ \A dir \in {"FORWARD", "BACKWARD"} : Adjusted(w, WithControl(w, [w.c EXCEPT !.dir = dir]))
           /\ \A id \in AnyStream : Adjusted(w, WithControl(w, [w.c EXCEPT !.retry.id = id]))
           /\ \A pos \in Positions \cup {None} : Adjusted(w, WithControl(w, [w.c EXCEPT !.saved = pos]))
           /\ Adjusted(w, WithControl(w, [w.c EXCEPT !.next = None]))
           /\ Adjusted(w, WithControl(w, [w.c EXCEPT !.uris = None]))
           /\ Adjusted(w, WithControl(w, [w.c EXCEPT !.skip = None]))
           /\ Adjusted(w, reset_retry(w))
           /\ \A id \in AnyStream : Adjusted(w, retry(w, id))
<1>1. w.c \in Controls
  BY DEF TypedControl
<1>2. ASSUME NEW b \in Bugs \ {Sent}, NEW cond \in BOOLEAN
      PROVE  Adjusted(w, BugIf(w, cond, b)) /\ Adjusted(w, Bug(w, b))
  <2> DEFINE c == [w.c EXCEPT !.bugs = @ \cup {b}]
  <2>1. TypedControl(c)
    BY Zenon, FieldTyped
  <2>2. /\ c.plugged = w.c.plugged /\ c.source = w.c.source /\ c.handle = w.c.handle /\ c.ops = w.c.ops
        /\ c.bugs = w.c.bugs \cup {b}
    BY <1>1 DEF Controls
  <2> HIDE DEF c
  <2>3. Adjusted(w, WithControl(w, c))
    BY <2>1, <2>2 DEF Adjusted, HasRoom
  <2>4. Adjusted(w, w)
    BY DEF Adjusted
  <2> QED
    BY <2>3, <2>4 DEF BugIf, Bug, c
<1>3. ASSUME NEW m \in Marks, NEW pos \in Positions \cup {None}
      PROVE  Adjusted(w, Mark(w, m, pos)) /\ Mark(w, m, pos).c.next = w.c.next
  <2> DEFINE c == [w.c EXCEPT !.marks[m] = pos]
  <2>1. TypedControl(c)
    BY Zenon, FieldTyped
  <2>2. /\ c.plugged = w.c.plugged /\ c.source = w.c.source /\ c.handle = w.c.handle /\ c.ops = w.c.ops
        /\ c.bugs = w.c.bugs /\ c.next = w.c.next
    BY <1>1 DEF Controls
  <2> HIDE DEF c
  <2> QED
    BY <2>1, <2>2, AdjustBy DEF Mark, c
<1>4. ASSUME NEW dir \in {"FORWARD", "BACKWARD"}
      PROVE  Adjusted(w, WithControl(w, [w.c EXCEPT !.dir = dir]))
  <2> DEFINE c == [w.c EXCEPT !.dir = dir]
  <2>1. TypedControl(c)
    BY Zenon, FieldTyped
  <2>2. /\ c.plugged = w.c.plugged /\ c.source = w.c.source /\ c.handle = w.c.handle /\ c.ops = w.c.ops
        /\ c.bugs = w.c.bugs
    BY <1>1 DEF Controls
  <2> HIDE DEF c
  <2> QED
    BY <2>1, <2>2, AdjustBy DEF c
<1>5. ASSUME NEW id \in AnyStream
      PROVE  Adjusted(w, WithControl(w, [w.c EXCEPT !.retry.id = id]))
  <2> DEFINE c == [w.c EXCEPT !.retry.id = id]
  <2>1. TypedControl(c)
    BY Zenon, FieldTyped
  <2>2. /\ c.plugged = w.c.plugged /\ c.source = w.c.source /\ c.handle = w.c.handle /\ c.ops = w.c.ops
        /\ c.bugs = w.c.bugs
    BY <1>1 DEF Controls
  <2> HIDE DEF c
  <2> QED
    BY <2>1, <2>2, AdjustBy DEF c
<1>6. ASSUME NEW pos \in Positions \cup {None}
      PROVE  Adjusted(w, WithControl(w, [w.c EXCEPT !.saved = pos]))
  <2> DEFINE c == [w.c EXCEPT !.saved = pos]
  <2>1. TypedControl(c)
    BY Zenon, FieldTyped
  <2>2. /\ c.plugged = w.c.plugged /\ c.source = w.c.source /\ c.handle = w.c.handle /\ c.ops = w.c.ops
        /\ c.bugs = w.c.bugs
    BY <1>1 DEF Controls
  <2> HIDE DEF c
  <2> QED
    BY <2>1, <2>2, AdjustBy DEF c
<1>7. ASSUME NEW c \in {[w.c EXCEPT !.next = None], [w.c EXCEPT !.uris = None], [w.c EXCEPT !.skip = None]}
      PROVE  Adjusted(w, WithControl(w, c))
  <2>1. TypedControl(c)
    <3>1. /\ TypedControl([w.c EXCEPT !.next = None]) /\ TypedControl([w.c EXCEPT !.uris = None])
          /\ TypedControl([w.c EXCEPT !.skip = None])
      BY Zenon, FieldTyped
    <3> QED
      BY <1>7, <3>1
  <2>2. /\ c.plugged = w.c.plugged /\ c.source = w.c.source /\ c.handle = w.c.handle /\ c.ops = w.c.ops
        /\ c.bugs = w.c.bugs
    BY <1>1 DEF Controls
  <2> QED
    BY <2>1, <2>2, AdjustBy
<1>8. ASSUME NEW n \in 0 .. MAX_RETRIES, NEW id \in AnyStream
      PROVE  Adjusted(w, WithControl(w, [w.c EXCEPT !.retry = [count |-> n, id |-> id]]))
  <2> DEFINE c == [w.c EXCEPT !.retry = [count |-> n, id |-> id]]
  <2>1. TypedControl(c)
    BY Zenon, FieldTyped
  <2>2. /\ c.plugged = w.c.plugged /\ c.source = w.c.source /\ c.handle = w.c.handle /\ c.ops = w.c.ops
        /\ c.bugs = w.c.bugs
    BY <1>1 DEF Controls
  <2> HIDE DEF c
  <2> QED
    BY <2>1, <2>2, AdjustBy DEF c
<1>9. Adjusted(w, reset_retry(w))
  BY <1>8 DEF reset_retry, MAX_RETRIES, AnyStream
<1>10. ASSUME NEW id \in AnyStream
       PROVE  Adjusted(w, retry(w, id))
  <2> DEFINE count == w.c.retry.count
             n     == IF count < MAX_RETRIES THEN count + 1 ELSE count
  <2>1. count \in 0 .. MAX_RETRIES
    BY <1>1, ControlIs
  <2>2. n \in 0 .. MAX_RETRIES
    BY <2>1 DEF MAX_RETRIES
  <2>3. retry(w, id) = WithControl(w, [w.c EXCEPT !.retry = [count |-> n, id |-> id]])
    <3>1. [id |-> id, count |-> n] = [count |-> n, id |-> id]
      OBVIOUS
    <3> QED
      BY <3>1 DEF retry
  <2> HIDE DEF n
  <2> QED
    BY <1>8, <2>2, <2>3
<1> QED
  BY <1>2, <1>3, <1>4, <1>5, <1>6, <1>7, <1>9, <1>10

(* Pointers are reset, and what they own is canceled.                      *)
LEMMA CancelAdjusts ==
    ASSUME NEW w, TypedControl(w.c)
    PROVE  /\ Adjusted(w, skipper_reset(w)) /\ Adjusted(w, cancel_prefetch_ops(w))
           /\ Adjusted(w, WithControl(w, [cancel(w.c, w.c.next) EXCEPT !.next = None]))
<1>1. w.c.next \in OpIds \cup {None} /\ w.c.uris \in OpIds \cup {None} /\ w.c.skip \in OpIds \cup {None}
  BY ControlIs DEF TypedControl
<1>2. Adjusted(w, skipper_reset(w))
  <2> DEFINE c == cancel(w.c, w.c.skip)
             v == WithControl(w, c)
  <2>1. Adjusted(w, v) /\ TypedControl(c)
    BY <1>1, CancelTyped, AdjustBy DEF OtherFields
  <2> HIDE DEF c
  <2>2. Adjusted(v, WithControl(v, [v.c EXCEPT !.skip = None]))
    BY <2>1, ControlAdjusts
  <2>3. skipper_reset(w) = WithControl(v, [v.c EXCEPT !.skip = None])
    BY DEF skipper_reset, c
  <2> HIDE DEF v
  <2> QED
    BY <2>1, <2>2, <2>3, AdjustedTwice
<1>3. Adjusted(w, WithControl(w, [cancel(w.c, w.c.next) EXCEPT !.next = None]))
  <2> DEFINE c == cancel(w.c, w.c.next)
             v == WithControl(w, c)
  <2>1. Adjusted(w, v) /\ TypedControl(c)
    BY <1>1, CancelTyped, AdjustBy DEF OtherFields
  <2> HIDE DEF c
  <2>2. Adjusted(v, WithControl(v, [v.c EXCEPT !.next = None]))
    BY <2>1, ControlAdjusts
  <2>3. WithControl(w, [c EXCEPT !.next = None]) = WithControl(v, [v.c EXCEPT !.next = None])
    OBVIOUS
  <2> HIDE DEF v
  <2> QED
    BY <2>1, <2>2, <2>3, AdjustedTwice DEF c
<1>4. Adjusted(w, cancel_prefetch_ops(w))
  <2> DEFINE b == cancel(w.c, w.c.next)
             c == cancel(b, w.c.uris)
             e == [c EXCEPT !.next = None]
             f == [e EXCEPT !.uris = None]
             g == [f EXCEPT !.marks["PREFETCH_CURSOR"] = None]
  <2>1. /\ TypedControl(b) /\ \A h \in OtherFields : b[h] = w.c[h]
        /\ \A q \in OpIds : w.c.ops[q] = NoOp => b.ops[q] = NoOp
    BY <1>1, CancelTyped
  <2> HIDE DEF b
  <2>2. /\ TypedControl(c) /\ \A h \in OtherFields : c[h] = b[h]
        /\ \A q \in OpIds : b.ops[q] = NoOp => c.ops[q] = NoOp
    BY <1>1, <2>1, CancelTyped
  <2>3. cancel_prefetch_ops(w) = WithControl(w, g)
    BY <2>2 DEF cancel_prefetch_ops, b, TypedControl, Controls
  <2> HIDE DEF c
  <2>4. TypedControl(e)
    BY Zenon, <2>2, FieldTyped
  <2>5. TypedControl(f)
    BY Zenon, <2>4, FieldTyped
  <2>6. TypedControl(g)
    BY Zenon, <2>5, FieldTyped DEF Marks
  <2>7. /\ g.plugged = c.plugged /\ g.source = c.source /\ g.handle = c.handle /\ g.bugs = c.bugs
        /\ g.ops = c.ops
    BY <2>2 DEF TypedControl, Controls
  <2> HIDE DEF g
  <2> QED
    BY <2>1, <2>2, <2>3, <2>6, <2>7, AdjustBy DEF OtherFields
<1> QED
  BY <1>2, <1>3, <1>4

(***************************************************************************)
(* The world of a handler                                                  *)
(***************************************************************************)
(* What holds of the mirror, of player control, and of the stream player,  *)
(* each taken by itself.                                                   *)
Core(w) ==
    /\ Sound(w.d) /\ TypedControl(w.c) /\ w.p \in StreamPlayers /\ Settled(w.p)
    /\ w.d.now \notin Elements(w.d.queue)
    /\ w.d.intention = "NOTHING" => DOMAIN w.d.streams = {}
    /\ Sent \notin w.c.bugs

(* While our source is selected, the player knows about all of our queued  *)
(* streams, but for those in X.                                            *)
Fine(X, w) == Core(w) /\ (has_proxy(w) => Tracks(X, Elements(w.d.queue), w.p))

\* The source and its list stay as they are, and whatever X is, the step from
\* w to x does not add to it.
Moves(w, x) ==
    /\ Core(x) /\ \A X : Fine(X, w) => Fine(X, x)
    /\ x.c.plugged = w.c.plugged /\ x.c.source = w.c.source /\ x.c.handle = w.c.handle

\* There is still room for another operation.
Leads(w, x) == Moves(w, x) /\ (HasRoom(w) => HasRoom(x))

\* Adjusting player control does no harm to the streams.
LEMMA AdjustedFine ==
    ASSUME NEW w, NEW x, Core(w), Adjusted(w, x)
    PROVE  Leads(w, x)
BY DEF Adjusted, Leads, Moves, Fine, Core, has_proxy, own

\* What leads from w to v goes on from there.
LEMMA LeadsOn ==
    ASSUME NEW w, NEW v, NEW x, Leads(w, v)
    PROVE  /\ Core(w) => Core(v)
           /\ attached(v) = attached(w) /\ own(v) = own(w) /\ selected(v) = selected(w)
           /\ has_proxy(v) = has_proxy(w) /\ v.c.handle = w.c.handle
           /\ Leads(v, x) => Leads(w, x)
           /\ Moves(v, x) => Moves(w, x)
BY DEF Leads, Moves, attached, own, selected, has_proxy

\* Doing nothing does no harm.
LEMMA LeadsHere ==
    ASSUME NEW w, Core(w)
    PROVE  Leads(w, w) /\ Moves(w, w)
BY DEF Leads, Moves

\* Fewer streams, or the same ones, are tracked.
LEMMA TracksLess ==
    ASSUME NEW X, NEW Q, NEW p, Tracks(X, Q, p), NEW R, R \subseteq Q, NEW Y, X \cap R \subseteq Y
    PROVE  Tracks(Y, R, p)
BY DEF Tracks

\* Queued streams have IDs.
LEMMA QueueIds ==
    ASSUME NEW d, Sound(d)
    PROVE  /\ d.queue \in Seq(StreamIds) /\ Elements(d.queue) \subseteq StreamIds
           /\ Elements(d.queue) \subseteq DOMAIN d.streams /\ DOMAIN d.streams \subseteq StreamIds
<1>1. d.queue \in Seq(StreamIds) /\ Consistent(d) /\ d.streams \in StreamTables
  BY SoundIs DEF Sane, RestTyped
<1> QED
  BY <1>1, TableIs DEF Elements, Consistent

(* What is left of the mirror is known, unless the stream being played is  *)
(* another one.                                                            *)
LEMMA DataFine ==
    ASSUME NEW w, Core(w), NEW e, Left(w.d, e), e.now \in {w.d.now, None},
           e.intention = "NOTHING" => w.d.intention = "NOTHING" \/ DOMAIN e.streams = {}
    PROVE  Leads(w, WithData(w, e))
<1> DEFINE x == WithData(w, e)
<1>1. x.d = e /\ x.c = w.c /\ x.p = w.p
  OBVIOUS
<1> HIDE DEF x
<1>2. Elements(e.queue) \subseteq Elements(w.d.queue) /\ Elements(w.d.queue) \subseteq StreamIds /\ Sound(e)
  BY QueueIds DEF Left, Core
<1>3. e.now \notin Elements(e.queue)
  BY <1>2, NoneAssumption DEF Core
<1>4. e.intention = "NOTHING" => DOMAIN e.streams = {}
  BY DEF Core, Left
<1>5. Core(x)
  BY <1>1, <1>2, <1>3, <1>4 DEF Core
<1>6. \A X : Tracks(X, Elements(w.d.queue), w.p) => Tracks(X, Elements(e.queue), w.p)
  BY <1>2, TracksLess
<1>7. \A X : Fine(X, w) => Fine(X, x)
  BY <1>1, <1>5, <1>6 DEF Fine, has_proxy, own
<1> QED
  BY <1>1, <1>5, <1>7 DEF Leads, Moves, HasRoom, x

(* Nothing is queued, hence nothing is to be known.                        *)
LEMMA EmptyFine ==
    ASSUME NEW w, Core(w), DOMAIN w.d.streams = {} \/ Elements(w.d.queue) = {} \/ ~has_proxy(w)
    PROVE  \A Y : Fine(Y, w)
<1>1. Elements(w.d.queue) = {} \/ ~has_proxy(w)
  BY QueueIds DEF Core
<1> QED
  BY <1>1 DEF Fine, Tracks

(* The player does not lose anything.                                      *)
LEMMA PlayerFine ==
    ASSUME NEW w, Core(w), NEW q, Keeps(w.p, q)
    PROVE  Leads(w, WithPlayer(w, q))
<1> DEFINE x == WithPlayer(w, q)
<1>1. x.d = w.d /\ x.c = w.c /\ x.p = q
  OBVIOUS
<1> HIDE DEF x
<1>2. Elements(w.d.queue) \subseteq StreamIds
  BY QueueIds DEF Core
<1> QED
  BY <1>1, <1>2 DEF Leads, Moves, Fine, Core, Keeps, has_proxy, own, HasRoom, x

\* Commands to the player: it keeps track of the streams, or tells about them.
LEMMA SendFine ==
    ASSUME NEW w, Core(w)
    PROVE  Leads(w, send_play_command(w)) /\ Leads(w, send_pause_command(w)) /\ Leads(w, send_stop_command(w))
<1>1. Keeps(w.p, Start(w.p)) /\ Keeps(w.p, Pause(w.p)) /\ Keeps(w.p, Stop(w.p))
  BY MethodsKeep DEF Core
<1>2. /\ Leads(w, WithPlayer(w, Start(w.p))) /\ Leads(w, WithPlayer(w, Pause(w.p)))
      /\ Leads(w, WithPlayer(w, Stop(w.p))) /\ Leads(w, w)
  BY <1>1, PlayerFine, LeadsHere
<1> QED
  BY <1>2 DEF send_play_command, send_pause_command, send_stop_command

(* The intention changes, and there is one or there is nothing to play.    *)
LEMMA IntendFine ==
    ASSUME NEW w, NEW i \in Intentions, Core(w), i # "NOTHING" \/ DOMAIN w.d.streams = {}
    PROVE  Leads(w, Intend(w, i)) /\ Intend(w, i).d.intention = i
<1> DEFINE e == set_intention(w.d, i)
<1>1. /\ Left(w.d, e) /\ e.intention = i /\ e.now = w.d.now /\ e.streams = w.d.streams
  BY FieldsLeft DEF Core
<1> HIDE DEF e
<1>2. Leads(w, WithData(w, e))
  BY <1>1, DataFine
<1> QED
  BY <1>1, <1>2 DEF Intend, e

(* The stream player drops what it has queued.                             *)
LEMMA InvalidateFine ==
    ASSUME NEW w, Core(w)
    PROVE  Leads(w, invalidate_prefetched_uris(w))
<1>1. CASE ~has_proxy(w)
  BY <1>1, LeadsHere DEF invalidate_prefetched_uris
<1>2. CASE has_proxy(w)
  <2> DEFINE q   == [w.p EXCEPT !.queue = <<>>]
             ids == Elements(w.p.queue)
             e   == player_dropped_from_queue(w.d, ids)
             y   == WithData(w, e)
             x   == WithData(WithPlayer(w, q), e)
  <2>1. invalidate_prefetched_uris(w) = x
    BY <1>2 DEF invalidate_prefetched_uris, Clear
  <2>2. Left(w.d, e) /\ Elements(e.queue) \cap ids = {} /\ e.intention = w.d.intention /\ e.now = w.d.now
    BY DroppedLeft DEF Core
  <2>3. /\ q \in StreamPlayers /\ q.st = w.p.st /\ q.cur = w.p.cur /\ q.said = w.p.said /\ q.sig = w.p.sig
        /\ q.queue = <<>>
    <3>1. <<>> \in Seq(StreamIds)
      OBVIOUS
    <3> QED
      BY <3>1 DEF Core, StreamPlayers
  <2>4. x.d = e /\ x.c = w.c /\ x.p = q /\ y.d = e /\ y.c = w.c /\ y.p = w.p
    OBVIOUS
  <2> HIDE DEF q, e
  <2>5. Known(w.p) \subseteq Known(q) \cup ids
    BY <2>3 DEF Known
  <2>6. Leads(w, y)
    BY <2>2, DataFine
  <2> HIDE DEF x, y
  <2>7. Core(x)
    BY <2>3, <2>4, <2>6 DEF Leads, Moves, Core, Settled
  <2>8. \A X : Tracks(X, Elements(e.queue), w.p) => Tracks(X, Elements(e.queue), q)
    BY <2>2, <2>3, <2>5 DEF Tracks
  <2>9. \A X : Fine(X, y) => Fine(X, x)
    BY <2>4, <2>7, <2>8 DEF Fine, has_proxy, own
  <2> QED
    BY <2>1, <2>4, <2>6, <2>7, <2>9 DEF Leads, Moves, HasRoom
<1> QED
  BY <1>1, <1>2

(***************************************************************************)
(* Attaching and detaching                                                 *)
(***************************************************************************)
(* The mirror is cleared.                                                  *)
LEMMA EmptiedFine ==
    ASSUME NEW w, Core(w), NEW cond \in BOOLEAN
    PROVE  LET x == BugIf(WithData(w, remove_all_queued_streams(w.d)), cond, "Queues out of sync")
           IN  Leads(w, x) /\ DOMAIN x.d.streams = {}
<1> DEFINE y == WithData(w, remove_all_queued_streams(w.d))
           x == BugIf(y, cond, "Queues out of sync")
<1>1. Leads(w, y) /\ DOMAIN y.d.streams = {}
  <2>1. /\ Left(w.d, clear(w.d)) /\ DOMAIN clear(w.d).streams = {}
        /\ clear(w.d).intention = w.d.intention /\ clear(w.d).now = w.d.now
    BY ClearLeft DEF Core
  <2> QED
    BY <2>1, DataFine DEF remove_all_queued_streams
<1>2. Core(y)
  BY <1>1 DEF Leads, Moves
<1> HIDE DEF y
<1>3. Adjusted(y, x)
  <2>1. "Queues out of sync" \in Bugs \ {Sent}
    BY DEF Sent, Bugs
  <2> QED
    BY Zenon, <1>2, <2>1, ControlAdjusts DEF Core
<1> HIDE DEF x
<1>4. Leads(y, x) /\ x.d = y.d
  BY <1>2, <1>3, AdjustedFine DEF Adjusted
<1>5. Leads(w, x) /\ DOMAIN x.d.streams = {}
  BY <1>1, <1>4, LeadsOn
<1> QED
  BY Zenon, <1>5 DEF x, y

(* Everything queued and played is forgotten.                              *)
LEMMA ForgetFine ==
    ASSUME NEW w, Core(w)
    PROVE  LET x == forget_queued_and_playing(w)
           IN  Leads(w, x) /\ (attached(w) => DOMAIN x.d.streams = {})
<1> DEFINE v == invalidate_prefetched_uris(w)
           y == BugIf(WithData(v, remove_all_queued_streams(v.d)), v.d.queue # <<>>, "Queues out of sync")
           z == IF ~attached(w) THEN w ELSE y
<1>1. Leads(w, v) /\ Core(v)
  BY InvalidateFine DEF Leads, Moves
<1> HIDE DEF v
<1>2. Leads(v, y) /\ DOMAIN y.d.streams = {}
  BY Zenon, <1>1, EmptiedFine
<1>3. forget_queued_and_playing(w) = reset_retry(z)
  BY DEF forget_queued_and_playing, v
<1> HIDE DEF y
<1>4. Leads(w, z) /\ Core(z) /\ (attached(w) => DOMAIN z.d.streams = {})
  BY <1>1, <1>2, LeadsOn, LeadsHere DEF Leads, Moves
<1> HIDE DEF z
<1>5. Adjusted(z, reset_retry(z))
  BY <1>4, ControlAdjusts DEF Core
<1>6. Leads(z, reset_retry(z)) /\ reset_retry(z).d = z.d
  BY <1>4, <1>5, AdjustedFine DEF Adjusted
<1> QED
  BY <1>3, <1>4, <1>6, LeadsOn

(* Control is given up; if there was any, then there are no streams left.  *)
LEMMA UnplugFine ==
    ASSUME NEW w, Core(w)
    PROVE  /\ LET x == unplug(w, FALSE)
              IN  Leads(w, x) /\ (attached(w) => DOMAIN x.d.streams = {}) /\ \A Y : Fine(Y, x)
           /\ LET x == unplug(w, TRUE)
              IN  /\ Core(x) /\ (HasRoom(w) => HasRoom(x)) /\ x.c.plugged = "none" /\ x.c.source = w.c.source
                  /\ (attached(w) => DOMAIN x.d.streams = {})
                  /\ (DOMAIN w.d.streams = {} => DOMAIN x.d.streams = {})
<1> DEFINE Part(v) ==
        LET i == IF attached(w) THEN Intend(v, "NOTHING") ELSE v
            u == cancel_prefetch_ops(skipper_reset(i))
        IN  WithControl(u, [u.c EXCEPT !.dir = "FORWARD"])
<1>1. ASSUME NEW v, Leads(w, v), attached(w) => DOMAIN v.d.streams = {}
      PROVE  Leads(w, Part(v)) /\ DOMAIN Part(v).d.streams = DOMAIN v.d.streams
  <2> DEFINE i == IF attached(w) THEN Intend(v, "NOTHING") ELSE v
             s == skipper_reset(i)
             u == cancel_prefetch_ops(s)
             x == WithControl(u, [u.c EXCEPT !.dir = "FORWARD"])
  <2>1. Core(v)
    BY <1>1 DEF Leads, Moves
  <2>2. Leads(w, i) /\ i.d.streams = v.d.streams
    <3>1. "NOTHING" \in Intentions
      BY DEF Intentions
    <3>2. Left(v.d, set_intention(v.d, "NOTHING")) /\ set_intention(v.d, "NOTHING").streams = v.d.streams
      BY <2>1, <3>1, FieldsLeft DEF Core
    <3>3. attached(w) => Leads(v, Intend(v, "NOTHING"))
      BY <1>1, <2>1, <3>1, IntendFine
    <3> QED
      BY <1>1, <3>2, <3>3, LeadsOn DEF Intend
  <2> HIDE DEF i
  <2>3. Adjusted(i, s) /\ Core(i)
    BY <2>2, CancelAdjusts DEF Leads, Moves, Core
  <2> HIDE DEF s
  <2>4. Adjusted(s, u)
    BY <2>3, CancelAdjusts DEF Adjusted
  <2> HIDE DEF u
  <2>5. Adjusted(u, x)
    BY <2>4, ControlAdjusts DEF Adjusted
  <2>6. Part(v) = x
    BY DEF x, u, s, i
  <2> HIDE DEF x, Part
  <2>7. Adjusted(i, x)
    BY <2>3, <2>4, <2>5, AdjustedTwice
  <2>8. Leads(w, x) /\ x.d = i.d
    BY <2>2, <2>3, <2>7, AdjustedFine, LeadsOn DEF Adjusted
  <2> QED
    BY <2>2, <2>6, <2>8
<1>2. /\ unplug(w, FALSE) = Part(forget_queued_and_playing(w))
      /\ \E f : /\ Leads(w, f) /\ (attached(w) => DOMAIN f.d.streams = {})
                /\ (~attached(w) => f.d = w.d)
                /\ LET x == Part(reset_retry(f))
                   IN  unplug(w, TRUE) = WithControl(x, [deactivate(x.c) EXCEPT !.plugged = "none"])
  <2>1. unplug(w, FALSE) = Part(forget_queued_and_playing(w))
    BY DEF unplug
  <2> DEFINE f == BugIf(WithData(w, IF attached(w) THEN remove_all_queued_streams(w.d) ELSE w.d),
                        attached(w) /\ w.d.queue # <<>>, "Queues out of sync")
             x == Part(reset_retry(f))
  <2>2. unplug(w, TRUE) = WithControl(x, [deactivate(x.c) EXCEPT !.plugged = "none"])
    BY DEF unplug
  <2>3. CASE attached(w)
    <3>1. f = BugIf(WithData(w, remove_all_queued_streams(w.d)), w.d.queue # <<>>, "Queues out of sync")
      BY <2>3
    <3> HIDE DEF f
    <3>2. Leads(w, f) /\ DOMAIN f.d.streams = {}
      BY Zenon, <3>1, EmptiedFine
    <3> QED
      BY <2>1, <2>2, <2>3, <3>2
  <2>4. CASE ~attached(w)
    <3>1. f.d = w.d /\ f.c = w.c /\ f.p = w.p
      BY <2>4 DEF BugIf
    <3> HIDE DEF f
    <3>2. Leads(w, f)
      BY <3>1 DEF Leads, Moves, Core, Fine, has_proxy, own, HasRoom
    <3> QED
      BY <2>1, <2>2, <2>4, <3>1, <3>2
  <2> QED
    BY <2>3, <2>4
<1> HIDE DEF Part
<1>3. LET x == unplug(w, FALSE)
      IN  Leads(w, x) /\ (attached(w) => DOMAIN x.d.streams = {}) /\ \A Y : Fine(Y, x)
  <2> DEFINE x == unplug(w, FALSE)
  <2>1. Leads(w, x) /\ (attached(w) => DOMAIN x.d.streams = {})
    BY <1>1, <1>2, ForgetFine
  <2> HIDE DEF x
  <2>2. Core(x) /\ (~attached(w) => ~has_proxy(x))
    BY <2>1 DEF Leads, Moves, attached, has_proxy, own
  <2> QED
    BY <2>1, <2>2, EmptyFine DEF x
<1>4. PICK f : /\ Leads(w, f) /\ (attached(w) => DOMAIN f.d.streams = {})
               /\ (~attached(w) => f.d = w.d)
               /\ LET x == Part(reset_retry(f))
                  IN  unplug(w, TRUE) = WithControl(x, [deactivate(x.c) EXCEPT !.plugged = "none"])
  BY <1>2
<1> DEFINE r == reset_retry(f)
           x == Part(r)
           a == deactivate(x.c)
           c == [a EXCEPT !.plugged = "none"]
           y == WithControl(x, c)
<1>5. Leads(w, r) /\ r.d = f.d
  <2>1. Core(f)
    BY <1>4 DEF Leads, Moves
  <2>2. Adjusted(f, r)
    BY <2>1, ControlAdjusts DEF Core
  <2> HIDE DEF r
  <2> QED
    BY <1>4, <2>1, <2>2, AdjustedFine, LeadsOn DEF Adjusted
<1> HIDE DEF r
<1>6. Leads(w, x) /\ DOMAIN x.d.streams = DOMAIN f.d.streams
  BY <1>1, <1>4, <1>5
<1> HIDE DEF x
<1>7. TypedControl(x.c) /\ TypedControl(a) /\ Core(x) /\ a.source = x.c.source /\ a.bugs = x.c.bugs
  <2>1. Core(x) /\ TypedControl(x.c)
    BY <1>6 DEF Leads, Moves, Core
  <2>2. TypedControl(a) /\ \A g \in OtherFields \ {"marks", "handle"} : a[g] = x.c[g]
    BY <2>1, LessTyped
  <2> HIDE DEF a
  <2> QED
    BY <2>1, <2>2 DEF OtherFields
<1>8. \A o \in OpIds : a.ops[o] = NoOp
  BY <1>7, LessTyped
<1> HIDE DEF a
<1>9. /\ c.plugged = "none" /\ c.source = a.source /\ c.bugs = a.bugs /\ c.ops = a.ops
      /\ c = [a EXCEPT !.plugged = "none", !.source = a.source]
      /\ a.source \in {"DESELECTED", "REQUESTED", "SELECTED"}
  BY <1>7 DEF TypedControl, Controls
<1> HIDE DEF c
<1>10. TypedControl(c)
  <2>1. TypedControl([a EXCEPT !.plugged = "none", !.source = a.source])
    BY Zenon, <1>7, <1>9, FieldTyped
  <2> QED
    BY <1>9, <2>1
<1>11. y.d = x.d /\ y.p = x.p /\ y.c = c
  OBVIOUS
<1> HIDE DEF y
<1>12. Core(y) /\ (HasRoom(w) => HasRoom(y))
  BY <1>7, <1>8, <1>9, <1>10, <1>11 DEF Core, HasRoom
<1>13. unplug(w, TRUE) = y
  BY <1>4 DEF y, c, a, x, r
<1> QED
  BY <1>3, <1>4, <1>6, <1>7, <1>9, <1>11, <1>12, <1>13 DEF Leads, Moves, attached

(* The play view ends playback.                                            *)
LEMMA FinishFine ==
    ASSUME NEW w, Core(w), NEW what, NEW active \in BOOLEAN
    PROVE  LET x == player_finished(w, what, active)
           IN  Leads(w, x) /\ (what = "PLAYING" => \A Y : Fine(Y, x))
<1> DEFINE v == IF active THEN unplug(w, FALSE) ELSE w
           e == player_finished_and_idle(v.d)
           x == WithData(v, e)
<1>1. Leads(w, v) /\ Core(v)
  BY UnplugFine, LeadsHere DEF Leads, Moves
<1> HIDE DEF v
<1>2. Left(v.d, e) /\ DOMAIN e.streams = {} /\ e.intention = v.d.intention /\ e.now = None
  BY <1>1, FinishedLeft DEF Core
<1> HIDE DEF e
<1>3. Leads(v, x)
  BY <1>1, <1>2, DataFine
<1>4. x.d = e
  OBVIOUS
<1> HIDE DEF x
<1>5. \A Y : Fine(Y, x)
  BY <1>2, <1>3, <1>4, EmptyFine DEF Leads, Moves
<1>6. Leads(w, x)
  BY <1>1, <1>3, LeadsOn
<1>7. player_finished(w, what, active) = IF what = "PREFETCHING" /\ w.d.state # "stopped" THEN w ELSE x
  BY DEF player_finished, x, e, v
<1> QED
  BY <1>5, <1>6, <1>7, LeadsHere

(***************************************************************************)
(* Pushing streams and starting operations                                 *)
(***************************************************************************)
\* What a push makes of the stream player and what it drops.
Pushed(p, id, r) ==
    /\ r.player \in StreamPlayers /\ Settled(r.player)
    /\ r.player.said = p.said /\ r.player.sig = p.sig /\ id \in Known(r.player)
    /\ \/ Known(p) \subseteq Known(r.player)
       \/ Known(p) \subseteq Known(r.player) \cup r.dropped \cup OnlyId(p.said)

(* The stream player takes a stream, and tells what it has dropped for it. *)
LEMMA PushIs ==
    ASSUME NEW p \in StreamPlayers, Settled(p), NEW id \in StreamIds
    PROVE  Pushed(p, id, PushBack(p, id)) /\ Pushed(p, id, PushReplacing(p, id))
<1>1. p.queue \in Seq(StreamIds) /\ p.cur \in AnyStream /\ p.said \in AnyStream /\ id # None
  BY NoneAssumption DEF StreamPlayers, AnyStream
<1>2. Pushed(p, id, PushBack(p, id))
  <2> DEFINE q == [p EXCEPT !.queue = Append(@, id)]
  <2>1. Append(p.queue, id) \in Seq(StreamIds) /\ Elements(Append(p.queue, id)) = Elements(p.queue) \cup {id}
    BY <1>1, AppendElements
  <2>2. /\ q \in StreamPlayers /\ q.st = p.st /\ q.cur = p.cur /\ q.said = p.said /\ q.sig = p.sig
        /\ q.queue = Append(p.queue, id)
    BY <2>1 DEF StreamPlayers
  <2>3. PushBack(p, id).player = q
    BY DEF PushBack
  <2> HIDE DEF q
  <2>4. id \in Known(q) /\ Known(p) \subseteq Known(q) /\ Settled(q)
    BY <2>1, <2>2 DEF Known, Settled
  <2> QED
    BY <2>2, <2>3, <2>4 DEF Pushed
<1>3. Pushed(p, id, PushReplacing(p, id))
  <2> DEFINE q == IF p.st = "stopped" THEN [p EXCEPT !.queue = <<id>>] ELSE [p EXCEPT !.cur = id, !.queue = <<>>]
  <2>1. <<id>> \in Seq(StreamIds) /\ Elements(<<id>>) = {id} /\ <<>> \in Seq(StreamIds)
    BY DEF Elements
  <2>2. /\ q \in StreamPlayers /\ q.st = p.st /\ q.said = p.said /\ q.sig = p.sig
        /\ IF p.st = "stopped" THEN q.queue = <<id>> /\ q.cur = p.cur ELSE q.cur = id
    BY <2>1 DEF StreamPlayers
  <2>3. PushReplacing(p, id).player = q /\ PushReplacing(p, id).dropped = Elements(p.queue) \cup Unheard(p)
    BY DEF PushReplacing
  <2> HIDE DEF q
  <2>4. id \in Known(q) /\ Settled(q)
    BY <1>1, <2>1, <2>2 DEF Known, Settled, OnlyId
  <2>5. OnlyId(p.cur) \subseteq Unheard(p) \cup OnlyId(p.said)
    BY DEF Unheard, Announced
  <2>6. Told(p.sig) \subseteq Known(q)
    BY <2>2 DEF Known
  <2>7. Known(p) \subseteq Known(q) \cup PushReplacing(p, id).dropped \cup OnlyId(p.said)
    BY <2>3, <2>5, <2>6 DEF Known
  <2> QED
    BY <2>2, <2>3, <2>4, <2>7 DEF Pushed
<1> QED
  BY <1>2, <1>3

(* A stream is pushed which is known to be sent, and the player reports    *)
(* what it has dropped for it.                                             *)
LEMMA PushFine ==
    ASSUME NEW w, Core(w), NEW id \in StreamIds, IsFloating(w.d, id),
           NEW insert_mode, NEW play_new_mode
    PROVE  LET x == send_selected_file_uri_to_streamplayer(w, id, insert_mode, play_new_mode)
           IN  Leads(w, x) /\ \A X : Fine(X, w) => Fine(X \ {id}, x)
<1> DEFINE r == IF insert_mode = "APPEND" THEN PushBack(w.p, id) ELSE PushReplacing(w.p, id)
           e == player_dropped_from_queue(w.d, r.dropped)
           u == IF has_proxy(w) THEN WithData(WithPlayer(w, r.player), e) ELSE w
           y == WithData(u, queued_stream_sent_to_player(u.d, id))
           v == BugIf(y, ~IsFloating(u.d, id), Sent)
           x == send_selected_file_uri_to_streamplayer(w, id, insert_mode, play_new_mode)
           Lets(a) == Leads(w, a) /\ \A X : Fine(X, w) => Fine(X \ {id}, a)
<1>1. Pushed(w.p, id, r)
  BY PushIs DEF Core
<1>2. x \in {v, send_play_command(v), send_pause_command(v)}
  BY DEF send_selected_file_uri_to_streamplayer, Sent
<1> HIDE DEF r, x
<1>3. Lets(u) /\ IsFloating(u.d, id)
  <2>1. CASE ~has_proxy(w)
    <3>1. \A X : Fine(X, w) => Fine(X \ {id}, w)
      BY <2>1 DEF Fine
    <3> QED
      BY <2>1, <3>1, LeadsHere
  <2>2. CASE has_proxy(w)
    <3> DEFINE q == r.player
               t == WithData(w, e)
    <3>1. /\ Left(w.d, e) /\ Elements(e.queue) \cap r.dropped = {} /\ e.intention = w.d.intention
          /\ e.now = w.d.now /\ \A i \in DOMAIN e.streams : e.streams[i] = w.d.streams[i]
      BY DroppedLeft DEF Core
    <3> HIDE DEF e
    <3>2. Leads(w, t)
      BY <3>1, DataFine
    <3>3. u.d = e /\ u.c = w.c /\ u.p = q /\ t.d = e /\ t.c = w.c /\ t.p = w.p
      BY <2>2
    <3> HIDE DEF t, u
    <3>4. Core(u)
      BY <1>1, <3>2, <3>3 DEF Leads, Moves, Core, Pushed
    <3>5. \A X : Tracks(X, Elements(w.d.queue), w.p) => Tracks(X \ {id}, Elements(e.queue), q)
      <4> SUFFICES ASSUME NEW X, Tracks(X, Elements(w.d.queue), w.p)
                   PROVE  Tracks(X \ {id}, Elements(e.queue), q)
        OBVIOUS
      <4>1. w.p.said \in Elements(e.queue) => w.p.said \in Known(q) /\ w.p.said \in Heralds(q.sig)
        BY <1>1, <3>1, HeraldsTold DEF Tracks, Left, Known, Pushed
      <4>2. Elements(e.queue) \subseteq Known(w.p) \cup X
        BY <3>1 DEF Tracks, Left
      <4>3. Elements(e.queue) \subseteq Known(q) \cup (X \ {id})
        BY <1>1, <3>1, <4>1, <4>2 DEF Pushed, OnlyId
      <4> QED
        BY <1>1, <4>1, <4>3 DEF Tracks, Pushed
    <3>6. \A X : Fine(X, w) => Fine(X \ {id}, u)
      BY <2>2, <3>3, <3>4, <3>5 DEF Fine
    <3>7. \A X, Y, Q, p : Tracks(X \ Y, Q, p) => Tracks(X, Q, p)
      BY DEF Tracks
    <3>8. \A X : Fine(X, w) => Fine(X, u)
      BY <3>6, <3>7 DEF Fine
    <3>9. Leads(w, u)
      BY <3>3, <3>4, <3>8 DEF Leads, Moves, HasRoom
    <3>10. IsFloating(u.d, id)
      BY <3>1, <3>3 DEF IsFloating, Left
    <3> QED
      BY <3>6, <3>9, <3>10
  <2> QED
    BY <2>1, <2>2
<1>4. Core(u)
  BY <1>3 DEF Leads, Moves
<1> HIDE DEF u
<1>5. Leads(u, y)
  <2>1. Left(u.d, queued_stream_sent_to_player(u.d, id)) /\ Alike(queued_stream_sent_to_player(u.d, id), u.d)
    BY <1>4, StatesLeft DEF Core
  <2> QED
    BY <1>4, <2>1, DataFine DEF Alike
<1>6. v = y
  BY <1>3 DEF BugIf
<1>7. Core(y)
  BY <1>5 DEF Leads, Moves
<1> HIDE DEF y, v
<1>8. Leads(y, x)
  BY <1>2, <1>6, <1>7, SendFine, LeadsHere
<1>9. Leads(u, x)
  BY <1>5, <1>8, LeadsOn
<1>10. Lets(x)
  BY <1>3, <1>9, LeadsOn DEF Leads, Moves
<1> QED
  BY <1>10 DEF x

(* There is a free ID, and the new stream is sent to the player.           *)
LEMMA QueueItemFine ==
    ASSUME NEW w, Core(w), Fine({}, w), FreeIds(w) # {}, w.d.intention # "NOTHING",
           NEW pos \in Positions, NEW insert_mode, NEW play_new_mode
    PROVE  LET x == queue_item_from_op(w, pos, insert_mode, play_new_mode)
           IN  /\ Core(x) /\ Fine({}, x) /\ (HasRoom(w) => HasRoom(x)) /\ x.c.handle = w.c.handle
<1> DEFINE id == next_stream_id(w)
           v  == IF insert_mode = "REPLACE_ALL" THEN Mark(w, "ABOUT_TO_PLAY", pos) ELSE w
           e  == queued_stream_append(v.d, id, pos)
           y  == WithData(v, e)
           x  == send_selected_file_uri_to_streamplayer(y, id, insert_mode, play_new_mode)
<1>1. id \in StreamIds \ DOMAIN w.d.streams /\ id \notin {w.d.now, w.p.said}
  <2>1. id \in FreeIds(w)
    BY DEF next_stream_id
  <2> QED
    BY <2>1 DEF FreeIds
<1> HIDE DEF id
<1>2. Adjusted(w, v)
  <2>1. Adjusted(w, w)
    BY DEF Adjusted, Core
  <2>2. Adjusted(w, Mark(w, "ABOUT_TO_PLAY", pos))
    BY ControlAdjusts DEF Core, Marks
  <2> QED
    BY <2>1, <2>2
<1> HIDE DEF v
<1>3. Leads(w, v) /\ Core(v) /\ v.d = w.d /\ v.p = w.p /\ Fine({}, v)
  BY <1>2, AdjustedFine DEF Adjusted, Leads, Moves
<1>4. /\ Sound(e) /\ Elements(e.queue) = Elements(w.d.queue) \cup {id}
      /\ e.intention = w.d.intention /\ e.now = w.d.now /\ IsFloating(e, id)
  BY <1>1, <1>3, AppendSound DEF Core
<1> HIDE DEF e
<1>5. y.d = e /\ y.c = v.c /\ y.p = v.p
  OBVIOUS
<1> HIDE DEF y
<1>6. Core(y)
  BY <1>1, <1>3, <1>4, <1>5 DEF Core
<1>7. Fine({id}, y)
  BY <1>1, <1>3, <1>4, <1>5, <1>6 DEF Fine, Tracks, has_proxy, own
<1>8. Leads(y, x) /\ Fine({id} \ {id}, x)
  BY <1>1, <1>4, <1>5, <1>6, <1>7, PushFine
<1>9. queue_item_from_op(w, pos, insert_mode, play_new_mode) = x
  BY DEF queue_item_from_op, x, y, e, v, id
<1> HIDE DEF x
<1>10. {id} \ {id} = {}
  OBVIOUS
<1>11. HasRoom(y) <=> HasRoom(v)
  BY <1>5 DEF HasRoom
<1> QED
  BY <1>3, <1>5, <1>8, <1>9, <1>10, <1>11 DEF Leads, Moves

(* An operation is started.                                                *)
LEMMA RunFine ==
    ASSUME NEW w, Core(w), HasRoom(w), NEW slot \in {"next", "uris", "skip"}, NEW op \in Ops, RightOp(op)
    PROVE  Moves(w, run(w, slot, op))
<1> DEFINE c == IF op.st = "delayed" THEN drop_delayed(w.c) ELSE w.c
           o == FreeOp(c)
           a == [c EXCEPT !.ops[o] = op]
           b == [a EXCEPT ![slot] = o]
           x == WithControl(w, b)
<1>1. /\ TypedControl(c) /\ \A f \in OtherFields : c[f] = w.c[f]
      /\ \A q \in OpIds : w.c.ops[q] = NoOp => c.ops[q] = NoOp
  BY LessTyped DEF Core
<1>2. run(w, slot, op) = x
  BY <1>1 DEF run, TypedControl, Controls
<1> HIDE DEF c
<1>3. o \in OpIds
  BY <1>1 DEF HasRoom, FreeOp
<1> HIDE DEF o
<1>4. TypedControl(a)
  BY Zenon, <1>1, <1>3, OpTyped, ControlIs DEF TypedControl
<1>5. a.plugged = c.plugged /\ a.source = c.source /\ a.handle = c.handle /\ a.bugs = c.bugs
  BY <1>1 DEF TypedControl, Controls
<1> HIDE DEF a
<1>6. TypedControl(b)
  <2>1. TypedControl([a EXCEPT !.next = o]) /\ TypedControl([a EXCEPT !.uris = o]) /\ TypedControl([a EXCEPT !.skip = o])
    BY Zenon, <1>3, <1>4, FieldTyped
  <2> QED
    BY <2>1
<1>7. b.plugged = a.plugged /\ b.source = a.source /\ b.handle = a.handle /\ b.bugs = a.bugs
  BY <1>4 DEF TypedControl, Controls
<1> HIDE DEF b
<1>8. x.d = w.d /\ x.p = w.p /\ x.c = b
  OBVIOUS
<1> HIDE DEF x
<1>9. x.c.plugged = w.c.plugged /\ x.c.source = w.c.source /\ x.c.handle = w.c.handle /\ x.c.bugs = w.c.bugs
  BY <1>1, <1>5, <1>7, <1>8 DEF OtherFields
<1> QED
  BY <1>2, <1>6, <1>8, <1>9 DEF Moves, Core, Fine, has_proxy, own

\* An operation that has not been completed.
LEMMA FreshOp ==
    ASSUME NEW kind \in Kinds, NEW pos \in Positions, NEW dir \in {"FORWARD", "BACKWARD", "NONE"},
           kind # "revert" => dir # "NONE", kind = "play" => dir = "FORWARD"
    PROVE  /\ Op(kind, pos, dir) \in Ops
           /\ kind # "skip" => RightOp(Op(kind, pos, dir))
           /\ \A prev \in Intentions \ {"NOTHING", "STOPPING"} :
                  [Op(kind, pos, dir) EXCEPT !.prev = prev] \in Ops
                  /\ RightOp([Op(kind, pos, dir) EXCEPT !.prev = prev])
           /\ kind # "skip" => \A force \in BOOLEAN :
                  /\ [Op(kind, pos, dir) EXCEPT !.force = force] \in Ops
                  /\ RightOp([Op(kind, pos, dir) EXCEPT !.force = force])
                  /\ \A st \in {"delayed", "running"} :
                         /\ [Op(kind, pos, dir) EXCEPT !.force = force, !.st = st] \in Ops
                         /\ RightOp([Op(kind, pos, dir) EXCEPT !.force = force, !.st = st])
<1> DEFINE op == Op(kind, pos, dir)
<1>1. /\ op \in Ops /\ op.kind = kind /\ op.dir = dir /\ op.res = "none"
  BY DEF Op, Ops, Intentions, OpStates, OpResults
<1> HIDE DEF op
<1>2. kind # "skip" => RightOp(op)
  BY <1>1 DEF RightOp
<1>3. ASSUME NEW prev \in Intentions \ {"NOTHING", "STOPPING"}
      PROVE  [op EXCEPT !.prev = prev] \in Ops /\ RightOp([op EXCEPT !.prev = prev])
  <2> DEFINE x == [op EXCEPT !.prev = prev]
  <2>1. x \in Ops /\ x.kind = kind /\ x.dir = dir /\ x.res = "none" /\ x.prev = prev
    BY <1>1 DEF Ops
  <2> HIDE DEF x
  <2>2. RightOp(x)
    BY <2>1 DEF RightOp
  <2> QED
    BY <2>1, <2>2 DEF x
<1>4. ASSUME kind # "skip", NEW force \in BOOLEAN, NEW st \in {"delayed", "running"},
             NEW x \in {[op EXCEPT !.force = force], [op EXCEPT !.force = force, !.st = st]}
      PROVE  x \in Ops /\ RightOp(x)
  <2>1. x \in Ops /\ x.kind = kind /\ x.dir = dir /\ x.res = "none"
    BY <1>1 DEF Ops, OpStates
  <2> QED
    BY <1>4, <2>1 DEF RightOp
<1> QED
  BY Zenon, <1>1, <1>2, <1>3, <1>4 DEF op

\* Marked positions.
LEMMA MarkIs ==
    ASSUME NEW w, Core(w)
    PROVE  /\ \A m \in Marks : w.c.marks[m] \in Positions \cup {None}
           /\ FirstMark(w.c, <<"PREFETCH_CURSOR", "CURRENTLY_PLAYING", "ABOUT_TO_PLAY">>) \in Positions \cup {None}
           /\ FirstMark(w.c, <<"ABOUT_TO_PLAY", "CURRENTLY_PLAYING">>) \in Positions \cup {None}
<1>1. \A m \in Marks : w.c.marks[m] \in Positions \cup {None}
  BY ControlIs DEF Core, TypedControl
<1>2. ASSUME NEW ms \in Seq(Marks), Len(ms) \in 2 .. 3
      PROVE  FirstMark(w.c, ms) \in Positions \cup {None}
  <2>1. CASE ~\E i \in DOMAIN ms : w.c.marks[ms[i]] # None
    BY <2>1 DEF FirstMark
  <2>2. CASE \E i \in DOMAIN ms : w.c.marks[ms[i]] # None
    <3> DEFINE P(i) == w.c.marks[ms[i]] # None /\ \A j \in 1 .. i - 1 : w.c.marks[ms[j]] = None
               k    == CHOOSE i \in DOMAIN ms : P(i)
    <3>1. FirstMark(w.c, ms) = w.c.marks[ms[k]]
      BY <2>2 DEF FirstMark
    <3>2. \A i \in DOMAIN ms : ms[i] \in Marks
      OBVIOUS
    <3>3. \E i \in DOMAIN ms : P(i)
      <4>1. PICK i \in DOMAIN ms : w.c.marks[ms[i]] # None
        BY <2>2
      <4>2. DOMAIN ms = 1 .. Len(ms) /\ i \in 1 .. 3 /\ 1 \in DOMAIN ms /\ 2 \in DOMAIN ms
        BY <1>2
      <4>3. CASE w.c.marks[ms[1]] # None
        BY <4>2, <4>3
      <4>4. CASE w.c.marks[ms[1]] = None /\ w.c.marks[ms[2]] # None
        <5>1. \A j \in 1 .. 2 - 1 : j = 1
          OBVIOUS
        <5> QED
          BY <4>2, <4>4, <5>1
      <4>5. CASE w.c.marks[ms[1]] = None /\ w.c.marks[ms[2]] = None
        <5>1. i = 3 /\ \A j \in 1 .. 3 - 1 : j \in {1, 2}
          BY <4>1, <4>2, <4>5
        <5> QED
          BY <4>1, <4>5, <5>1
      <4> QED
        BY <4>3, <4>4, <4>5
    <3> QED
      BY Zenon, <1>1, <3>1, <3>2, <3>3
  <2> QED
    BY <2>1, <2>2
<1>3. <<"PREFETCH_CURSOR", "CURRENTLY_PLAYING", "ABOUT_TO_PLAY">> \in Seq(Marks)
      /\ <<"ABOUT_TO_PLAY", "CURRENTLY_PLAYING">> \in Seq(Marks)
      /\ Len(<<"PREFETCH_CURSOR", "CURRENTLY_PLAYING", "ABOUT_TO_PLAY">>) = 3
      /\ Len(<<"ABOUT_TO_PLAY", "CURRENTLY_PLAYING">>) = 2
  BY DEF Marks
<1>4. FirstMark(w.c, <<"PREFETCH_CURSOR", "CURRENTLY_PLAYING", "ABOUT_TO_PLAY">>) \in Positions \cup {None}
  <2> DEFINE ms == <<"PREFETCH_CURSOR", "CURRENTLY_PLAYING", "ABOUT_TO_PLAY">>
  <2>1. ms \in Seq(Marks) /\ Len(ms) \in 2 .. 3
    BY <1>3
  <2> HIDE DEF ms
  <2>2. FirstMark(w.c, ms) \in Positions \cup {None}
    BY <1>2, <2>1
  <2> QED
    BY <2>2 DEF ms
<1>5. FirstMark(w.c, <<"ABOUT_TO_PLAY", "CURRENTLY_PLAYING">>) \in Positions \cup {None}
  <2> DEFINE ms == <<"ABOUT_TO_PLAY", "CURRENTLY_PLAYING">>
  <2>1. ms \in Seq(Marks) /\ Len(ms) \in 2 .. 3
    BY <1>3
  <2> HIDE DEF ms
  <2>2. FirstMark(w.c, ms) \in Positions \cup {None}
    BY <1>2, <2>1
  <2> QED
    BY <2>2 DEF ms
<1> QED
  BY <1>1, <1>4, <1>5

(* A lookup of the next item is started or refused.                        *)
LEMMA PrefetchFine ==
    ASSUME NEW w, Core(w), HasRoom(w), NEW from, NEW dir \in {"FORWARD", "BACKWARD"},
           NEW force \in BOOLEAN, NEW execution \in {"delayed", "running"}
    PROVE  Moves(w, start_prefetch_next_item(w, from, dir, force, execution))
<1> DEFINE pos == IF from = "PREFETCH_CURSOR"
                  THEN FirstMark(w.c, <<"PREFETCH_CURSOR", "CURRENTLY_PLAYING", "ABOUT_TO_PLAY">>)
                  ELSE w.c.marks["PREFETCH_CURSOR"]
           v   == Mark(w, "PREFETCH_CURSOR", pos)
           op  == [Op("prefetch", pos, dir) EXCEPT !.force = force, !.st = execution]
           x   == run(v, "next", op)
<1>1. pos \in Positions \cup {None}
  BY MarkIs DEF Marks
<1>2. start_prefetch_next_item(w, from, dir, force, execution) \in {w, x}
      /\ (start_prefetch_next_item(w, from, dir, force, execution) # w => pos # None)
  BY DEF start_prefetch_next_item
<1> HIDE DEF pos
<1>3. ASSUME pos # None
      PROVE  Moves(w, x)
  <2>1. pos \in Positions
    BY <1>1, <1>3
  <2>2. Adjusted(w, v)
    BY Zenon, <2>1, ControlAdjusts DEF Core, Marks
  <2>3. op \in Ops /\ RightOp(op)
    BY Zenon, <2>1, FreshOp DEF Kinds
  <2> HIDE DEF v, op
  <2>4. Leads(w, v) /\ Core(v) /\ HasRoom(v)
    BY <2>2, AdjustedFine DEF Leads, Moves
  <2>5. Moves(v, x)
    BY <2>3, <2>4, RunFine
  <2> QED
    BY <2>4, <2>5, LeadsOn
<1> HIDE DEF x
<1> QED
  BY <1>2, <1>3, LeadsHere

(***************************************************************************)
(* Skipping                                                                *)
(***************************************************************************)
(* The skipper accepts a request or refuses it.                            *)
LEMMA SkipperFine ==
    ASSUME NEW w, Core(w), HasRoom(w), NEW pos \in Positions \cup {None},
           w.d.intention \notin {"NOTHING", "STOPPING"}
    PROVE  Moves(w, forward_request(w, pos)) /\ Moves(w, backward_request(w, pos))
<1>1. ASSUME NEW dir \in {"FORWARD", "BACKWARD"}, pos # None
      PROVE  Moves(w, run_new_find_next(set_intention_for_skipping(w), pos, dir, w.d.intention))
  <2> DEFINE i == set_intention_for_skipping(w)
             c == cancel_prefetch_ops(i)
             m == Mark(c, "SKIP_CURSOR", pos)
             op == [Op("skip", pos, dir) EXCEPT !.prev = w.d.intention]
             x == run(m, "skip", op)
  <2>1. w.d.intention \in Intentions \ {"NOTHING", "STOPPING"}
    BY DEF Core, Sound, PlayerDatas
  <2>2. op \in Ops /\ RightOp(op)
    BY Zenon, <1>1, <2>1, FreshOp DEF Kinds
  <2> HIDE DEF op
  <2>3. Leads(w, i)
    <3>1. \E n \in Intentions \ {"NOTHING"} : i = Intend(w, n)
      BY <2>1 DEF set_intention_for_skipping, Intentions
    <3> QED
      BY <3>1, IntendFine
  <2>4. Core(i) /\ HasRoom(i)
    BY <2>3 DEF Leads, Moves
  <2> HIDE DEF i
  <2>5. Adjusted(i, c)
    BY <2>4, CancelAdjusts DEF Core
  <2> HIDE DEF c
  <2>6. Adjusted(c, m)
    BY Zenon, <1>1, <2>5, ControlAdjusts DEF Adjusted, Marks
  <2> HIDE DEF m
  <2>7. Leads(i, m) /\ Core(m) /\ HasRoom(m)
    BY <2>4, <2>5, <2>6, AdjustedTwice, AdjustedFine DEF Leads, Moves
  <2>8. Moves(m, x)
    BY <2>2, <2>7, RunFine
  <2>9. Moves(w, x)
    BY <2>3, <2>7, <2>8, LeadsOn
  <2> QED
    BY <2>9 DEF run_new_find_next, x, m, c, i, op
<1>2. /\ forward_request(w, pos) = w \/ (pos # None /\ forward_request(w, pos)
           = run_new_find_next(set_intention_for_skipping(w), pos, "FORWARD", w.d.intention))
      /\ backward_request(w, pos) = w \/ (pos # None /\ backward_request(w, pos)
           = run_new_find_next(set_intention_for_skipping(w), pos, "BACKWARD", w.d.intention))
  BY DEF forward_request, backward_request
<1> QED
  BY <1>1, <1>2, LeadsHere

(* The user, or a stream beyond repair, makes us skip.  The player skips by *)
(* itself only where there is no list, and then no stream of ours is queued. *)
LEMMA SkipFine ==
    ASSUME NEW w, Core(w), HasRoom(w), has_proxy(w) /\ ~w.c.handle => Elements(w.d.queue) = {}
    PROVE  Moves(w, skip_forward_request(w)) /\ Moves(w, skip_backward_request(w))
<1>1. ASSUME NEW dir \in {"FORWARD", "BACKWARD"}, may_skip(w)
      PROVE  LET v == WithControl(w, [w.c EXCEPT !.dir = dir])
             IN  /\ Moves(w, forward_request(v, skip_reference(w)))
                 /\ Moves(w, backward_request(v, skip_reference(w)))
  <2> DEFINE v == WithControl(w, [w.c EXCEPT !.dir = dir])
  <2>1. Adjusted(w, v)
    BY ControlAdjusts DEF Core
  <2> HIDE DEF v
  <2>2. Leads(w, v) /\ Core(v) /\ HasRoom(v) /\ v.d = w.d
    BY <2>1, AdjustedFine DEF Leads, Moves, Adjusted
  <2>3. skip_reference(w) \in Positions \cup {None}
    BY MarkIs DEF skip_reference, Marks
  <2>4. w.d.intention \notin {"NOTHING", "STOPPING"}
    BY <1>1 DEF may_skip
  <2>5. Moves(v, forward_request(v, skip_reference(w))) /\ Moves(v, backward_request(v, skip_reference(w)))
    BY <2>2, <2>3, <2>4, SkipperFine
  <2> QED
    BY <2>2, <2>5, LeadsOn DEF v
<1>2. Moves(w, skip_backward_request(w))
  BY <1>1, LeadsHere DEF skip_backward_request
<1>3. ASSUME has_proxy(w), ~w.c.handle
      PROVE  Moves(w, WithPlayer(w, SkipToNext(w.p)))
  <2> DEFINE q == SkipToNext(w.p)
             x == WithPlayer(w, q)
  <2>1. q \in StreamPlayers /\ Settled(q)
    <3>1. CASE w.p.st # "stopped" /\ w.p.queue # <<>>
      <4>1. w.p.st \in PlayerStates \ {"stopped"}
        BY <3>1 DEF Core, StreamPlayers
      <4> QED
        BY <3>1, <4>1, TakeIs DEF Core, SkipToNext
    <3>2. CASE ~(w.p.st # "stopped" /\ w.p.queue # <<>>)
      BY <3>2 DEF Core, SkipToNext
    <3> QED
      BY <3>1, <3>2
  <2>2. x.d = w.d /\ x.c = w.c /\ x.p = q
    OBVIOUS
  <2> HIDE DEF x, q
  <2>3. Core(x)
    BY <2>1, <2>2 DEF Core
  <2>4. \A Y : Fine(Y, x)
    BY <1>3, <2>2, <2>3, EmptyFine
  <2> QED
    BY <2>2, <2>3, <2>4 DEF Moves, x, q
<1>4. Moves(w, skip_forward_request(w))
  <2> DEFINE v == WithControl(w, [w.c EXCEPT !.dir = "FORWARD"])
             x == forward_request(v, skip_reference(w))
             y == WithPlayer(w, SkipToNext(w.p))
  <2>1. may_skip(w) => Moves(w, x)
    BY <1>1
  <2>2. has_proxy(w) => attached(w)
    BY DEF has_proxy, own, attached
  <2>3. skip_forward_request(w) =
            CASE ~attached(w) \/ ~w.c.handle                -> IF has_proxy(w) THEN y ELSE w
              [] attached(w) /\ w.c.handle /\ ~may_skip(w) -> w
              [] OTHER -> x
    BY DEF skip_forward_request, send_simple_skip_forward_command
  <2>4. has_proxy(w) /\ ~w.c.handle => Moves(w, y)
    BY <1>3
  <2> HIDE DEF x, y
  <2> QED
    BY <2>1, <2>2, <2>3, <2>4, LeadsHere
<1> QED
  BY <1>2, <1>4

(***************************************************************************)
(* Requests                                                                *)
(***************************************************************************)
(* A request to play, to stop, to pause.                                   *)
LEMMA RequestsFine ==
    ASSUME NEW w, Core(w)
    PROVE  /\ HasRoom(w) => \A pos \in Positions \cup {None} : Moves(w, play_request(w, pos))
           /\ Leads(w, stop_request(w)) /\ Leads(w, pause_request(w))
<1>1. ASSUME NEW i \in {"LISTENING", "STOPPING", "PAUSING"}
      PROVE  LET v == Intend(w, i)
             IN  Leads(w, v) /\ Core(v) /\ v.c = w.c
  BY IntendFine DEF Intentions, Leads, Moves, Intend
<1>2. ASSUME HasRoom(w), NEW pos \in Positions \cup {None}
      PROVE  Moves(w, play_request(w, pos))
  <2> DEFINE v == Intend(w, "LISTENING")
             s == WithControl(v, [v.c EXCEPT !.saved = pos])
             x == run(v, "next", Op("play", pos, "FORWARD"))
             y == send_play_command(v)
  <2>1. Leads(w, v) /\ Core(v) /\ HasRoom(v)
    BY <1>1, <1>2 DEF Leads
  <2>2. play_request(w, pos) \in {w, s, y, v} \/ (pos # None /\ play_request(w, pos) = x)
    BY DEF play_request
  <2> HIDE DEF v
  <2>3. Leads(v, s)
    <3>1. Adjusted(v, s)
      BY Zenon, <1>2, <2>1, ControlAdjusts DEF Core
    <3> HIDE DEF s
    <3> QED
      BY <2>1, <3>1, AdjustedFine
  <2>4. Leads(v, y)
    BY <2>1, SendFine
  <2>5. pos # None => Moves(v, x)
    BY Zenon, <2>1, FreshOp, RunFine DEF Kinds
  <2> HIDE DEF s, x, y
  <2> QED
    BY <2>1, <2>2, <2>3, <2>4, <2>5, LeadsOn, LeadsHere DEF Leads
<1>3. Leads(w, stop_request(w))
  <2> DEFINE v == Intend(w, "STOPPING")
  <2>1. Leads(w, v) /\ Core(v)
    BY <1>1
  <2>2. stop_request(w) \in {w, send_stop_command(v)}
    BY DEF stop_request
  <2> HIDE DEF v
  <2> QED
    BY <2>1, <2>2, SendFine, LeadsOn, LeadsHere
<1>4. Leads(w, pause_request(w))
  <2> DEFINE v == Intend(w, "PAUSING")
  <2>1. Leads(w, v) /\ Core(v)
    BY <1>1
  <2>2. pause_request(w) \in {w, send_pause_command(v)}
    BY DEF pause_request
  <2> HIDE DEF v
  <2> QED
    BY <2>1, <2>2, SendFine, LeadsOn, LeadsHere
<1> QED
  BY <1>2, <1>3, <1>4

(* The player is told what it should be doing.                             *)
LEMMA EnforceFine ==
    ASSUME NEW w, Core(w), NEW known
    PROVE  Leads(w, enforce_intention(w, known))
<1>1. enforce_intention(w, known) \in {w, send_play_command(w), send_pause_command(w), send_stop_command(w)}
  BY DEF enforce_intention
<1> QED
  BY <1>1, SendFine, LeadsHere

(* An audio source is plugged, and its crawler.                            *)
LEMMA PlugFine ==
    ASSUME NEW w, Core(w)
    PROVE  /\ \A who \in {"own", "external"} :
                  LET x == plug(w, who)
                  IN  /\ Core(x) /\ x.d = w.d /\ x.c.plugged = who /\ (HasRoom(w) => HasRoom(x))
                      /\ x.c.source # w.c.source => x.c.source = "REQUESTED"
           /\ \A h \in BOOLEAN :
                  LET x == plug_crawler(w, h)
                  IN  /\ Core(x) /\ x.d = w.d /\ x.c.plugged = w.c.plugged /\ x.c.source = w.c.source
                      /\ (HasRoom(w) => HasRoom(x)) /\ \A X : Fine(X, w) => Fine(X, x)
<1>1. TypedControl(w.c)
  BY DEF Core
<1>2. ASSUME NEW who \in {"own", "external"}
      PROVE  LET x == plug(w, who)
             IN  /\ Core(x) /\ x.d = w.d /\ x.c.plugged = who /\ (HasRoom(w) => HasRoom(x))
                 /\ x.c.source # w.c.source => x.c.source = "REQUESTED"
  <2> DEFINE s == IF who = "own" /\ w.c.source = "DESELECTED" THEN "REQUESTED" ELSE w.c.source
             c == [w.c EXCEPT !.plugged = who, !.source = s]
             x == plug(w, who)
  <2>1. s \in {"DESELECTED", "REQUESTED", "SELECTED"} /\ (s # w.c.source => s = "REQUESTED")
    BY <1>1 DEF TypedControl, Controls
  <2>2. x.d = w.d /\ x.p = w.p /\ x.c = c
    BY <1>1 DEF plug, TypedControl, Controls
  <2> HIDE DEF s
  <2>3. TypedControl(c)
    BY Zenon, <1>1, <2>1, FieldTyped
  <2>4. c.plugged = who /\ c.source = s /\ c.ops = w.c.ops /\ c.bugs = w.c.bugs
    BY <1>1 DEF TypedControl, Controls
  <2> HIDE DEF c, x
  <2> QED
    BY <2>1, <2>2, <2>3, <2>4 DEF Core, HasRoom, x
<1>3. ASSUME NEW h \in BOOLEAN
      PROVE  LET x == plug_crawler(w, h)
             IN  /\ Core(x) /\ x.d = w.d /\ x.c.plugged = w.c.plugged /\ x.c.source = w.c.source
                 /\ (HasRoom(w) => HasRoom(x)) /\ \A X : Fine(X, w) => Fine(X, x)
  <2> DEFINE a == deactivate(w.c)
             c == [a EXCEPT !.handle = h, !.skip = None, !.next = None,
                            !.uris = None, !.retry = [count |-> 0, id |-> None]]
             x == plug_crawler(w, h)
  <2>1. TypedControl(a) /\ \A f \in OtherFields \ {"marks", "handle"} : a[f] = w.c[f]
    BY <1>1, LessTyped
  <2>2. \A q \in OpIds : a.ops[q] = NoOp
    BY <1>1, LessTyped
  <2>3. x.d = w.d /\ x.p = w.p /\ x.c = c
    BY DEF plug_crawler
  <2> HIDE DEF a
  <2>4. /\ TypedControl(c) /\ c.plugged = a.plugged /\ c.source = a.source /\ c.bugs = a.bugs /\ c.ops = a.ops
    <3>1. [count |-> 0, id |-> None] \in [count : 0 .. MAX_RETRIES, id : StreamIds \cup {None}]
      BY DEF MAX_RETRIES
    <3>2. /\ c \in Controls /\ c.plugged = a.plugged /\ c.source = a.source /\ c.bugs = a.bugs
          /\ c.ops = a.ops
      BY <2>1, <3>1 DEF TypedControl, Controls
    <3> QED
      BY <2>1, <3>2 DEF TypedControl
  <2> HIDE DEF c, x
  <2>5. x.c.plugged = w.c.plugged /\ x.c.source = w.c.source /\ x.c.bugs = w.c.bugs
    BY <2>1, <2>3, <2>4 DEF OtherFields
  <2>6. Core(x) /\ (HasRoom(w) => HasRoom(x))
    BY <2>2, <2>3, <2>4, <2>5 DEF Core, HasRoom
  <2>7. \A X : Fine(X, w) => Fine(X, x)
    BY <2>3, <2>5, <2>6 DEF Fine, has_proxy, own
  <2> QED
    BY <2>3, <2>5, <2>6, <2>7 DEF x
<1> QED
  BY <1>2, <1>3

(* The user wants another item; our source is plugged if it is not, and it  *)
(* may well be selected, but then no stream of ours is left.               *)
LEMMA PrepareFine ==
    ASSUME NEW w, Fine({}, w), HasRoom(w), ~attached(w) => DOMAIN w.d.streams = {},
           NEW pos \in Positions
    PROVE  Fine({}, prepare_for_playing(w, pos))
<1> DEFINE u == unplug(stop_request(w), TRUE)
           v == IF own(w) THEN w ELSE plug(u, "own")
           x == plug_crawler(v, TRUE)
<1>1. Core(w)
  BY DEF Fine
<1>2. ASSUME ~own(w)
      PROVE  Fine({}, plug(u, "own")) /\ HasRoom(plug(u, "own"))
  <2> DEFINE s == stop_request(w)
  <2>1. Leads(w, s) /\ Core(s) /\ attached(s) = attached(w) /\ HasRoom(s)
    BY <1>1, RequestsFine, LeadsOn DEF Leads
  <2>2. ~attached(w) => s = w
    BY DEF stop_request
  <2>5. u = unplug(s, TRUE)
    OBVIOUS
  <2> HIDE DEF s, u
  <2>3. Core(u) /\ HasRoom(u) /\ DOMAIN u.d.streams = {}
    BY <2>1, <2>2, <2>5, UnplugFine
  <2> HIDE DEF u
  <2>4. Core(plug(u, "own")) /\ plug(u, "own").d = u.d /\ HasRoom(plug(u, "own"))
    BY <2>3, PlugFine
  <2> QED
    BY <2>3, <2>4, EmptyFine
<1> HIDE DEF u
<1>3. Fine({}, v) /\ HasRoom(v)
  BY <1>2
<1> HIDE DEF v
<1>4. Fine({}, x) /\ Core(x) /\ HasRoom(x)
  BY <1>3, PlugFine DEF Fine
<1>5. prepare_for_playing(w, pos) = play_request(x, pos)
  BY DEF prepare_for_playing, x, v, u
<1> HIDE DEF x
<1> QED
  BY <1>4, <1>5, RequestsFine DEF Moves

(***************************************************************************)
(* Completed crawler operations                                            *)
(***************************************************************************)
(* An item to be played has been found, or not.                            *)
LEMMA PlayItemFine ==
    ASSUME NEW w0, Core(w0), HasRoom(w0), NEW o, NEW op \in Ops, RightOp(op), op.kind \in {"play", "skip"}
    PROVE  Moves(w0, found_item_for_playing(w0, o, op))
<1> DEFINE u == BugIf(w0, w0.c.next \notin {None, o}, "assertion")
           w == WithControl(u, [u.c EXCEPT !.next = None])
           pos == Found(op)
           v == skipper_reset(w)
           e == set_intention_after_skipping(v.d)
           f == player_finished(WithData(v, e), "PLAYING", TRUE)
           m == Mark(w, "ABOUT_TO_PLAY", pos)
           x == run(m, "uris", Op("playuris", pos, op.dir))
<1>1. found_item_for_playing(w0, o, op)
          = CASE op.canceled -> w
              [] ~op.canceled /\ op.res # "found" -> f
              [] OTHER -> x
  BY DEF found_item_for_playing
<1>2. Leads(w0, w) /\ Core(w) /\ HasRoom(w)
  <2>1. Adjusted(w0, u)
    <3>1. "assertion" \in Bugs \ {Sent} /\ (w0.c.next \notin {None, o}) \in BOOLEAN
      BY DEF Bugs, Sent
    <3> QED
      BY <3>1, ControlAdjusts DEF Core
  <2> HIDE DEF u
  <2>2. Adjusted(u, w)
    BY <2>1, ControlAdjusts DEF Adjusted
  <2> HIDE DEF w
  <2> QED
    BY <2>1, <2>2, AdjustedTwice, AdjustedFine DEF Leads, Moves
<1> HIDE DEF w
<1>3. Leads(w, f)
  <2>1. Leads(w, v) /\ Core(v)
    BY <1>2, CancelAdjusts, AdjustedFine DEF Core, Leads, Moves
  <2> HIDE DEF v
  <2>2. Left(v.d, e) /\ e.now = v.d.now /\ (e.intention = "NOTHING" => v.d.intention = "NOTHING")
    BY <2>1, FieldsLeft DEF Core
  <2> HIDE DEF e
  <2>3. Leads(v, WithData(v, e)) /\ Core(WithData(v, e))
    BY <2>1, <2>2, DataFine DEF Leads, Moves
  <2>4. Leads(WithData(v, e), f)
    BY <2>3, FinishFine
  <2> HIDE DEF f
  <2> QED
    BY <2>1, <2>3, <2>4, LeadsOn
<1>4. ASSUME op.res = "found"
      PROVE  Moves(w, x)
  <2>1. pos \in Positions /\ op.dir \in {"FORWARD", "BACKWARD"}
    BY <1>4 DEF RightOp, Ops
  <2> HIDE DEF pos
  <2>2. Adjusted(w, m)
    BY <1>2, <2>1, ControlAdjusts DEF Core, Marks
  <2> HIDE DEF m
  <2>3. Leads(w, m) /\ Core(m) /\ HasRoom(m)
    BY <1>2, <2>2, AdjustedFine DEF Leads, Moves
  <2>4. Moves(m, x)
    BY Zenon, <2>1, <2>3, FreshOp, RunFine DEF Kinds
  <2> QED
    BY <2>3, <2>4, LeadsOn
<1> HIDE DEF f, x
<1> QED
  BY <1>1, <1>2, <1>3, <1>4, LeadsOn, LeadsHere DEF Leads

\* IDs in use do not depend on pointers to operations.
LEMMA FreeIdsAre ==
    ASSUME NEW w, NEW x, x.d = w.d, x.p = w.p, x.c.retry = w.c.retry
    PROVE  FreeIds(x) = FreeIds(w)
BY DEF FreeIds

\* An operation which has fetched URIs is forgotten.
LEMMA UrisTaken ==
    ASSUME NEW w0, Core(w0), NEW o
    PROVE  LET w == IF w0.c.uris = o THEN WithControl(w0, [w0.c EXCEPT !.uris = None]) ELSE w0
           IN  /\ Leads(w0, w) /\ Core(w) /\ w.d = w0.d /\ FreeIds(w) = FreeIds(w0)
<1> DEFINE w == IF w0.c.uris = o THEN WithControl(w0, [w0.c EXCEPT !.uris = None]) ELSE w0
<1> DEFINE t == WithControl(w0, [w0.c EXCEPT !.uris = None])
<1>1. Leads(w0, w) /\ w.d = w0.d
  <2>1. Adjusted(w0, t)
    BY ControlAdjusts DEF Core
  <2>2. w \in {w0, t} /\ t.d = w0.d
    OBVIOUS
  <2> HIDE DEF t, w
  <2> QED
    BY <2>1, <2>2, AdjustedFine, LeadsHere
<1>2. w.p = w0.p /\ w.c.retry = w0.c.retry
  BY DEF Core, TypedControl, Controls
<1> HIDE DEF w
<1> QED
  BY <1>1, <1>2, FreeIdsAre DEF Leads, Moves, w

(* URIs of an item to be played have been fetched, or not.                 *)
LEMMA PlayUrisFine ==
    ASSUME NEW w0, Fine({}, w0), HasRoom(w0), FreeIds(w0) # {}, w0.c.handle,
           NEW o, NEW op \in Ops, RightOp(op), op.kind = "playuris"
    PROVE  Fine({}, found_item_uris_for_playing(w0, o, op))
<1> DEFINE w == IF w0.c.uris = o THEN WithControl(w0, [w0.c EXCEPT !.uris = None]) ELSE w0
           i == w.d.intention
           q(mode) == queue_item_from_op(w, op.pos, "REPLACE_ALL", mode)
           s == skip_request(w, op.dir)
           n == start_prefetch_next_item(q("PAUSE_IF_IDLE"), "ABOUT_TO_PLAY", "FORWARD", FALSE, "running")
           x == found_item_uris_for_playing(w0, o, op)
<1>1. \/ x \in {w0, w, s}
      \/ i # "NOTHING" /\ x \in {n, q("PLAY_IF_IDLE")}
  BY DEF found_item_uris_for_playing
<1>2. Leads(w0, w) /\ Core(w) /\ FreeIds(w) = FreeIds(w0) /\ Fine({}, w) /\ HasRoom(w) /\ w.c.handle
  BY UrisTaken DEF Leads, Moves, Fine
<1> HIDE DEF x, w
<1>3. op.pos \in Positions
  BY DEF Ops
<1>4. Fine({}, s)
  BY <1>2, SkipFine DEF skip_request, Moves
<1>5. ASSUME i # "NOTHING", NEW mode
      PROVE  Core(q(mode)) /\ Fine({}, q(mode)) /\ HasRoom(q(mode))
  BY <1>2, <1>3, <1>5, QueueItemFine
<1> HIDE DEF q, s
<1>6. i # "NOTHING" => Fine({}, n)
  BY <1>5, PrefetchFine DEF Moves
<1> QED
  BY <1>1, <1>2, <1>4, <1>5, <1>6 DEF x

(* An item to be prefetched has been found, or not.                        *)
LEMMA PrefetchedItemFine ==
    ASSUME NEW w0, Core(w0), HasRoom(w0), NEW o, NEW op \in Ops, RightOp(op), op.kind = "prefetch"
    PROVE  Moves(w0, found_prefetched_item(w0, o, op))
<1> DEFINE u == BugIf(w0, w0.c.next # o, "assertion")
           w == WithControl(u, [u.c EXCEPT !.next = None])
           pos == Found(op)
           m == Mark(w, "PREFETCH_CURSOR", pos)
           x == run(m, "uris", [Op("prefetchuris", pos, op.dir) EXCEPT !.force = op.force])
           d == WithControl(w, [w.c EXCEPT !.dir = "FORWARD"])
           n == start_prefetch_next_item(d, "PREFETCH_CURSOR", "FORWARD", FALSE, "delayed")
           f == player_finished(w, "PREFETCHING", TRUE)
           y == found_prefetched_item(w0, o, op)
<1>1. y \in {w0, w, n, f} \/ (op.res = "found" /\ y = x)
  BY DEF found_prefetched_item
<1>2. Leads(w0, w) /\ Core(w) /\ HasRoom(w)
  <2>1. Adjusted(w0, u)
    <3>1. "assertion" \in Bugs \ {Sent} /\ (w0.c.next # o) \in BOOLEAN
      BY DEF Bugs, Sent
    <3> QED
      BY <3>1, ControlAdjusts DEF Core
  <2> HIDE DEF u
  <2>2. Adjusted(u, w)
    BY <2>1, ControlAdjusts DEF Adjusted
  <2> HIDE DEF w
  <2> QED
    BY <2>1, <2>2, AdjustedTwice, AdjustedFine DEF Leads, Moves
<1> HIDE DEF w, y
<1>3. Leads(w, f)
  BY <1>2, FinishFine
<1>4. Moves(w, n)
  <2>1. Adjusted(w, d)
    BY <1>2, ControlAdjusts DEF Core
  <2> HIDE DEF d
  <2>2. Leads(w, d) /\ Core(d) /\ HasRoom(d)
    BY <1>2, <2>1, AdjustedFine DEF Leads, Moves
  <2>3. Moves(d, n)
    BY <2>2, PrefetchFine
  <2> HIDE DEF n
  <2> QED
    BY <2>2, <2>3, LeadsOn
<1>5. ASSUME op.res = "found"
      PROVE  Moves(w, x)
  <2>1. pos \in Positions /\ op.dir \in {"FORWARD", "BACKWARD"} /\ op.force \in BOOLEAN
    BY <1>5 DEF RightOp, Ops
  <2> HIDE DEF pos
  <2>2. Adjusted(w, m)
    BY Zenon, <1>2, <2>1, ControlAdjusts DEF Core, Marks
  <2> HIDE DEF m
  <2>3. Leads(w, m) /\ Core(m) /\ HasRoom(m)
    BY <1>2, <2>2, AdjustedFine DEF Leads, Moves
  <2>4. Moves(m, x)
    BY Zenon, <2>1, <2>3, FreshOp, RunFine DEF Kinds
  <2> QED
    BY <2>3, <2>4, LeadsOn
<1> HIDE DEF n, f, x
<1>6. Moves(w0, w) /\ Moves(w0, f) /\ Moves(w0, n) /\ (op.res = "found" => Moves(w0, x))
  BY <1>2, <1>3, <1>4, <1>5, LeadsOn DEF Leads
<1> QED
  BY <1>1, <1>6, LeadsHere DEF y

(* URIs of an item to be prefetched have been fetched, or not.             *)
LEMMA PrefetchedUrisFine ==
    ASSUME NEW w0, Fine({}, w0), HasRoom(w0), FreeIds(w0) # {},
           NEW o, NEW op \in Ops, RightOp(op), op.kind = "prefetchuris"
    PROVE  Fine({}, found_prefetched_item_uris(w0, o, op))
<1> DEFINE w == IF w0.c.uris = o THEN WithControl(w0, [w0.c EXCEPT !.uris = None]) ELSE w0
           i == w.d.intention
           mode == IF op.force \/ i = "LISTENING" THEN "PLAY_IF_IDLE" ELSE "PAUSE_IF_IDLE"
           when == IF i = "LISTENING" THEN "delayed" ELSE "running"
           q == queue_item_from_op(w, op.pos, "APPEND", mode)
           a == start_prefetch_next_item(w, "PREFETCH_CURSOR", op.dir, op.force, "delayed")
           n == start_prefetch_next_item(q, "PREFETCH_CURSOR", w.c.dir, FALSE, when)
           x == found_prefetched_item_uris(w0, o, op)
<1>1. x \in {w0, w, a} \/ (i # "NOTHING" /\ x = n)
  BY DEF found_prefetched_item_uris
<1>2. Leads(w0, w) /\ Core(w) /\ FreeIds(w) = FreeIds(w0) /\ Fine({}, w) /\ HasRoom(w)
  BY UrisTaken DEF Leads, Moves, Fine
<1>3. op.pos \in Positions /\ op.dir \in {"FORWARD", "BACKWARD"} /\ op.force \in BOOLEAN
      /\ w.c.dir \in {"FORWARD", "BACKWARD"}
  <2>1. op.pos \in Positions /\ op.dir \in {"FORWARD", "BACKWARD"} /\ op.force \in BOOLEAN
    BY DEF Ops, RightOp
  <2> HIDE DEF w
  <2> QED
    BY <1>2, <2>1, ControlIs DEF Core, TypedControl
<1> HIDE DEF x, w
<1>4. Fine({}, a)
  BY <1>2, <1>3, PrefetchFine DEF Moves
<1>5. i # "NOTHING" => Core(q) /\ Fine({}, q) /\ HasRoom(q)
  BY <1>2, <1>3, QueueItemFine
<1> HIDE DEF q, a
<1>6. i # "NOTHING" => Fine({}, n)
  BY <1>3, <1>5, PrefetchFine DEF Moves
<1> QED
  BY <1>1, <1>2, <1>4, <1>6 DEF x

(* The skipper has found an item, or has come to an end of the list.       *)
LEMMA SkippedFine ==
    ASSUME NEW w0, Core(w0), HasRoom(w0), NEW o, NEW op \in Ops, RightOp(op), op.kind = "skip"
    PROVE  Moves(w0, found_or_failed(w0, o, op))
<1> DEFINE w == WithControl(w0, [w0.c EXCEPT !.skip = None])
           v == Intend(w, op.prev)
           playing == v.c.marks["CURRENTLY_PLAYING"]
           t == WithControl(v, [cancel(v.c, v.c.next) EXCEPT !.next = None])
           f == found_item_for_playing(t, o, op)
           r == run(v, "skip", Op("revert", playing, "NONE"))
           x == found_or_failed(w0, o, op)
<1>1. x \in {w, Bug(w, "null"), Bug(v, "null"), f} \/ (playing # None /\ x = r)
  BY DEF found_or_failed
<1>2. Leads(w0, w) /\ Core(w) /\ HasRoom(w)
  <2>1. Adjusted(w0, w)
    BY ControlAdjusts DEF Core
  <2> HIDE DEF w
  <2> QED
    BY <2>1, AdjustedFine DEF Leads, Moves
<1> HIDE DEF x, w
<1>3. op.prev \in Intentions /\ op.prev # "NOTHING"
  BY DEF Ops, RightOp
<1>4. Leads(w, v) /\ Core(v) /\ HasRoom(v)
  BY <1>2, <1>3, IntendFine DEF Leads, Moves
<1>5. playing \in Positions \cup {None}
  BY <1>4, MarkIs DEF Marks
<1> HIDE DEF v
<1>6. Leads(w, Bug(w, "null")) /\ Leads(v, Bug(v, "null"))
  <2>1. "null" \in Bugs \ {Sent} /\ TRUE \in BOOLEAN
    BY DEF Bugs, Sent
  <2>2. Adjusted(w, Bug(w, "null")) /\ Adjusted(v, Bug(v, "null"))
    BY <1>2, <1>4, <2>1, ControlAdjusts DEF Core
  <2> QED
    BY <1>2, <1>4, <2>2, AdjustedFine
<1>7. Moves(v, f)
  <2>1. Adjusted(v, t)
    BY <1>4, CancelAdjusts DEF Core
  <2> HIDE DEF t
  <2>2. Leads(v, t) /\ Core(t) /\ HasRoom(t)
    BY <1>4, <2>1, AdjustedFine DEF Leads, Moves
  <2> QED
    BY <2>2, PlayItemFine, LeadsOn
<1>8. playing # None => Moves(v, r)
  BY Zenon, <1>4, <1>5, FreshOp, RunFine DEF Kinds
<1> HIDE DEF f, r
<1>9. /\ Moves(w0, w) /\ Moves(w0, Bug(w, "null")) /\ Moves(w0, Bug(v, "null")) /\ Moves(w0, f)
      /\ (playing # None => Moves(w0, r))
  BY <1>2, <1>4, <1>6, <1>7, <1>8, LeadsOn DEF Leads
<1> QED
  BY <1>1, <1>9 DEF x

(* A completed operation of any kind.                                      *)
LEMMA CompletedFine ==
    ASSUME NEW w, Fine({}, w), HasRoom(w), FreeIds(w) # {}, w.c.handle,
           NEW o, NEW op \in Ops, RightOp(op)
    PROVE  Fine({}, completed(w, o, op))
<1>1. Core(w) /\ op.kind \in Kinds
  BY DEF Fine, Ops
<1>2. op.kind = "play" => Fine({}, found_item_for_playing(w, o, op))
  BY <1>1, PlayItemFine DEF Moves
<1>3. op.kind = "playuris" => Fine({}, found_item_uris_for_playing(w, o, op))
  BY <1>1, PlayUrisFine
<1>4. op.kind = "prefetch" => Fine({}, found_prefetched_item(w, o, op))
  BY <1>1, PrefetchedItemFine DEF Moves
<1>5. op.kind = "prefetchuris" => Fine({}, found_prefetched_item_uris(w, o, op))
  BY <1>1, PrefetchedUrisFine
<1>6. op.kind = "skip" => Fine({}, found_or_failed(w, o, op))
  BY <1>1, SkippedFine DEF Moves
<1>7. Fine({}, skipper_reset(w))
  BY <1>1, CancelAdjusts, AdjustedFine DEF Leads, Moves, Core
<1> QED
  BY <1>1, <1>2, <1>3, <1>4, <1>5, <1>6, <1>7 DEF completed

(***************************************************************************)
(* The end of a stream                                                     *)
(***************************************************************************)
\* More exceptions may be made; none is needed for what is not queued.
LEMMA FineMore ==
    ASSUME NEW w, NEW X, NEW Y, Fine(X, w), X \cap Elements(w.d.queue) \subseteq Y
    PROVE  Fine(Y, w)
<1>1. Core(w) /\ (has_proxy(w) => Tracks(X, Elements(w.d.queue), w.p))
  BY DEF Fine
<1>2. has_proxy(w) => Tracks(Y, Elements(w.d.queue), w.p)
  BY <1>1, TracksLess
<1> QED
  BY <1>1, <1>2 DEF Fine

\* Streams are added to the player's queue.
LEMMA QueuedMore ==
    ASSUME NEW p \in StreamPlayers, Settled(p), NEW t \in Seq(StreamIds)
    PROVE  Keeps(p, [p EXCEPT !.queue = @ \o t])
<1> DEFINE q == [p EXCEPT !.queue = @ \o t]
<1>1. p.queue \o t \in Seq(StreamIds) /\ Elements(p.queue) \subseteq Elements(p.queue \o t)
  BY ConcatElements DEF StreamPlayers
<1>2. /\ q \in StreamPlayers /\ q.queue = p.queue \o t
      /\ q.st = p.st /\ q.cur = p.cur /\ q.said = p.said /\ q.sig = p.sig
  BY <1>1 DEF StreamPlayers
<1> HIDE DEF q
<1>3. Settled(q) /\ Known(p) \subseteq Known(q)
  BY <1>1, <1>2 DEF Settled, Known
<1> QED
  BY <1>2, <1>3 DEF q, Keeps, Tracks

\* The streams which are recovered.
LEMMA OtherQueuedTyped ==
    ASSUME NEW d, Sound(d), NEW id
    PROVE  OtherQueued(d, id) \in Seq(StreamIds)
<1> DEFINE a == IF d.inflight \in {None, id} THEN <<>> ELSE <<d.inflight>>
           b == IF id \in Elements(d.queue) THEN WithoutNth(d.queue, IndexOf(d.queue, id)) ELSE d.queue
<1>1. d.queue \in Seq(StreamIds) /\ d.inflight \in AnyStream /\ Consistent(d)
  BY DEF Sound, Sane
<1>2. a \in Seq(StreamIds)
  BY <1>1 DEF AnyStream
<1>3. b \in Seq(StreamIds)
  <2>1. CASE id \in Elements(d.queue)
    BY <1>1, <2>1, IndexOfElement, WithoutElements DEF Consistent
  <2> QED
    BY <1>1, <2>1
<1> QED
  BY <1>2, <1>3, ConcatElements DEF OtherQueued

(* The streams which follow the one being replayed are sent again.         *)
LEMMA OthersFine ==
    ASSUME NEW w, Core(w), NEW id
    PROVE  Leads(w, send_others_again(w, id)) /\ Leads(w, replayed(w, id).w)
<1> DEFINE e == requeued(w.d, id)
           v == WithData(w, e)
           q == [w.p EXCEPT !.queue = @ \o OtherQueued(w.d, id)]
           x == send_others_again(w, id)
<1>1. Left(w.d, e) /\ Alike(e, w.d)
  BY StatesLeft DEF Core
<1>2. Keeps(v.p, q)
  BY OtherQueuedTyped, QueuedMore DEF Core
<1>3. x \in {v, WithPlayer(v, q)}
  BY DEF send_others_again
<1> HIDE DEF e, q, x
<1>4. Leads(w, v) /\ Core(v)
  BY <1>1, DataFine DEF Alike, Leads, Moves
<1> HIDE DEF v
<1>5. Leads(v, WithPlayer(v, q))
  BY <1>2, <1>4, PlayerFine
<1>6. Leads(w, x)
  BY <1>3, <1>4, <1>5, LeadsOn
<1>7. replayed(w, id).w \in {w, x}
  BY DEF replayed, Reaction, x
<1> QED
  BY <1>6, <1>7, LeadsHere DEF x

(* Another try: a stream of ours is sent again.                            *)
LEMMA ReplayFine ==
    ASSUME NEW w, Core(w), NEW id \in AnyStream, NEW mode
    PROVE  LET r == replay(w, id, mode)
           IN  Leads(w, r.w) /\ (Fine({id}, w) => Fine({}, r.w))
<1> DEFINE b == WithData(w, prepare_for_recovery(w.d, {id}))
           x == send_selected_file_uri_to_streamplayer(b, id, "REPLACE_ALL", mode)
           r == replay(w, id, mode)
<1>1. Elements(w.d.queue) \subseteq DOMAIN w.d.streams /\ DOMAIN w.d.streams \subseteq StreamIds
  BY QueueIds DEF Core
<1>2. CASE id \notin DOMAIN w.d.streams
  <2>1. r.w = w
    BY <1>2 DEF replay, Reaction
  <2>2. Fine({id}, w) => Fine({}, w)
    BY <1>1, <1>2, FineMore
  <2> QED
    BY <2>1, <2>2, LeadsHere
<1>3. CASE id \in DOMAIN w.d.streams
  <2>1. r = replayed(x, id)
    BY <1>3 DEF replay
  <2>2. Leads(w, b) /\ Core(b) /\ IsFloating(b.d, id)
    <3> DEFINE e == prepare_for_recovery(w.d, {id})
    <3>1. Left(w.d, e) /\ Alike(e, w.d) /\ IsFloating(e, id)
      BY StatesLeft DEF Core
    <3> HIDE DEF e
    <3>2. Leads(w, b)
      BY <3>1, DataFine DEF Alike, e
    <3> QED
      BY <3>1, <3>2 DEF Leads, Moves, e
  <2> HIDE DEF b, r
  <2>3. Leads(b, x) /\ Core(x) /\ (Fine({id}, b) => Fine({}, x))
    BY <1>1, <1>3, <2>2, PushFine DEF Leads, Moves
  <2> HIDE DEF x
  <2>4. Leads(x, r.w)
    BY <2>1, <2>3, OthersFine
  <2>5. Leads(w, r.w)
    BY <2>2, <2>3, <2>4, LeadsOn
  <2> QED
    BY <2>2, <2>3, <2>4, <2>5 DEF Leads, Moves, r
<1> QED
  BY <1>2, <1>3

(* The stream which is beyond repair is removed.                           *)
LEMMA SkipFailedFine ==
    ASSUME NEW w0, Core(w0), HasRoom(w0), NEW s, NEW pausing
    PROVE  LET r == skip_failed_stream(w0, s, pausing)
           IN  Moves(w0, r.w) /\ (Fine({s.id}, w0) => Fine({}, r.w))
<1> DEFINE e    == queued_stream_remove(w0.d, s.id)
           v    == WithData(w0, e)
           w    == reset_retry(v)
           pos  == w.d.streams[front(w.d)].pos
           next == WithControl(w, [w.c EXCEPT !.marks["ABOUT_TO_PLAY"] =
                                       IF front(w.d) \in DOMAIN w.d.streams THEN pos ELSE @])
           n    == start_prefetch_next_item(w, "PREFETCH_CURSOR", w.c.dir, TRUE, "running")
           x    == skip_failed_stream(w0, s, pausing).w
<1>1. x \in {w, n, Bug(w, "Out of sync"), send_pause_command(next), send_play_command(next)}
  BY DEF skip_failed_stream, Reaction
<1>2. Left(w0.d, e) /\ s.id \notin Elements(e.queue) /\ e.intention = w0.d.intention /\ e.now = w0.d.now
  BY RemoveLeft DEF Core
<1> HIDE DEF e
<1>3. Leads(w0, v) /\ Core(v)
  BY <1>2, DataFine DEF Leads, Moves
<1>4. Adjusted(v, w) /\ w.d = e
  BY <1>3, ControlAdjusts DEF Core, reset_retry
<1> HIDE DEF v, w, x
<1>5. Leads(w0, w) /\ Core(w) /\ HasRoom(w)
  BY <1>3, <1>4, AdjustedFine, LeadsOn DEF Leads, Moves
<1>6. Fine({s.id}, w) => Fine({}, w)
  BY <1>2, <1>4, FineMore
<1>7. Moves(w, n)
  <2>1. w.c.dir \in {"FORWARD", "BACKWARD"}
    BY <1>5, ControlIs DEF Core, TypedControl
  <2> QED
    BY <1>5, <2>1, PrefetchFine
<1>8. Moves(w, Bug(w, "Out of sync"))
  <2>1. "Out of sync" \in Bugs \ {Sent} /\ TRUE \in BOOLEAN
    BY DEF Bugs, Sent
  <2>2. Adjusted(w, Bug(w, "Out of sync"))
    BY Zenon, <1>5, <2>1, ControlAdjusts DEF Core
  <2> QED
    BY Zenon, <1>5, <2>2, AdjustedFine DEF Leads
<1>9. Leads(w, next) /\ Core(next)
  <2>1. CASE front(w.d) \in DOMAIN w.d.streams
    <3>1. pos \in Positions
      <4>1. w.d.streams \in StreamTables
        BY <1>5, SoundIs DEF Core, RestTyped
      <4>2. w.d.streams[front(w.d)] \in QueuedStreams
        BY <2>1, <4>1, TableIs
      <4> QED
        BY <4>2 DEF QueuedStreams
    <3>2. next = Mark(w, "ABOUT_TO_PLAY", pos)
      BY <2>1 DEF Mark
    <3> HIDE DEF pos, next
    <3>3. Adjusted(w, next)
      BY <1>5, <3>1, <3>2, ControlAdjusts DEF Core, Marks
    <3> QED
      BY <1>5, <3>3, AdjustedFine DEF Leads, Moves
  <2>2. CASE front(w.d) \notin DOMAIN w.d.streams
    <3> DEFINE m == w.c.marks["ABOUT_TO_PLAY"]
    <3>1. next = Mark(w, "ABOUT_TO_PLAY", m)
      BY <2>2 DEF Mark
    <3>2. m \in Positions \cup {None}
      BY <1>5, MarkIs DEF Marks
    <3> HIDE DEF m, next
    <3>3. Adjusted(w, next)
      BY <1>5, <3>1, <3>2, ControlAdjusts DEF Core, Marks
    <3> QED
      BY <1>5, <3>3, AdjustedFine DEF Leads, Moves
  <2> QED
    BY <2>1, <2>2
<1> HIDE DEF next, n
<1>10. Moves(w, send_pause_command(next)) /\ Moves(w, send_play_command(next))
  <2>1. Leads(next, send_pause_command(next)) /\ Leads(next, send_play_command(next))
    BY <1>9, SendFine
  <2> QED
    BY <1>9, <2>1, LeadsOn DEF Leads
<1>11. Moves(w, x)
  BY Zenon, <1>1, <1>5, <1>7, <1>8, <1>10, LeadsHere
<1>12. Moves(w0, x)
  BY <1>5, <1>11, LeadsOn
<1>13. Fine({s.id}, w0) => Fine({}, x)
  BY <1>5, <1>6, <1>11 DEF Leads, Moves
<1> QED
  BY <1>12, <1>13 DEF x

(* Another try for a stream, or none.                                      *)
LEMMA RetryFine ==
    ASSUME NEW w, Core(w), HasRoom(w), NEW s \in Signals, NEW pausing
    PROVE  LET r == retry_or_skip(w, s, pausing)
           IN  Moves(w, r.w) /\ (Fine({s.id}, w) => Fine({}, r.w))
<1> DEFINE t     == WithControl(w, [w.c EXCEPT !.retry.id = s.id])
           mode  == IF pausing THEN "PAUSE_IF_IDLE" ELSE "PLAY_IF_IDLE"
           y     == retry(w, s.id)
           again == replay(y, s.id, mode)
           r     == retry_or_skip(w, s, pausing)
<1>1. \/ r \in {skip_failed_stream(w, s, pausing), skip_failed_stream(t, s, pausing)}
      \/ r.w = again.w \/ r = skip_failed_stream(again.w, s, pausing)
  BY DEF retry_or_skip, retried, Reaction
<1>2. s.id \in AnyStream
  BY Zenon DEF Signals, AnyStream
<1>3. Adjusted(w, t) /\ Adjusted(w, y)
  BY <1>2, ControlAdjusts DEF Core
<1> HIDE DEF t, y, mode
<1>4. Leads(w, t) /\ Leads(w, y) /\ Core(t) /\ Core(y) /\ HasRoom(t) /\ HasRoom(y)
  BY <1>3, AdjustedFine DEF Leads, Moves
<1>5. Leads(y, again.w) /\ (Fine({s.id}, y) => Fine({}, again.w))
  BY <1>2, <1>4, ReplayFine
<1> HIDE DEF again, r
<1>6. Leads(w, again.w) /\ Core(again.w) /\ HasRoom(again.w) /\ (Fine({s.id}, w) => Fine({}, again.w))
  BY <1>4, <1>5, LeadsOn DEF Leads, Moves
<1>7. ASSUME NEW z, Leads(w, z), Core(z), HasRoom(z), r = skip_failed_stream(z, s, pausing)
      PROVE  Moves(w, r.w) /\ (Fine({s.id}, w) => Fine({}, r.w))
  <2>1. Moves(z, r.w) /\ (Fine({s.id}, z) => Fine({}, r.w))
    BY <1>7, SkipFailedFine
  <2> QED
    BY <1>7, <2>1, LeadsOn DEF Leads, Moves
<1>8. Moves(w, r.w) /\ (Fine({s.id}, w) => Fine({}, r.w))
  <2>1. CASE r.w = again.w
    BY <1>6, <2>1 DEF Leads
  <2>2. CASE r \in {skip_failed_stream(w, s, pausing), skip_failed_stream(t, s, pausing)}
    BY <1>4, <1>7, <2>2, LeadsHere
  <2>3. CASE r = skip_failed_stream(again.w, s, pausing)
    BY <1>6, <1>7, <2>3
  <2> QED
    BY <1>1, <2>1, <2>2, <2>3
<1> QED
  BY <1>8 DEF r

(* What is made of the news that a stream has ended.                       *)
LEMMA StoppedOkFine ==
    ASSUME NEW w, Core(w), NEW id
    PROVE  Leads(w, stop_notification_ok(w, id).w)
<1> DEFINE e == player_has_stopped(w.d)
           t == WithData(w, e)
           v == reset_retry(t)
           x == stop_notification_ok(w, id).w
<1>1. x \in {w, v, send_play_command(v)}
  BY DEF stop_notification_ok, Reaction
<1>2. Left(w.d, e) /\ e.now = None /\ e.intention = w.d.intention
  BY FieldsLeft DEF Core
<1> HIDE DEF e, x
<1>3. Leads(w, t) /\ Core(t)
  BY <1>2, DataFine DEF Leads, Moves
<1>4. Adjusted(t, v)
  BY <1>3, ControlAdjusts DEF Core
<1> HIDE DEF t, v
<1>5. Leads(t, v) /\ Core(v)
  BY <1>3, <1>4, AdjustedFine DEF Leads, Moves
<1>6. Leads(v, send_play_command(v))
  BY <1>5, SendFine
<1> QED
  BY <1>1, <1>3, <1>5, <1>6, LeadsOn, LeadsHere DEF x

\* Errors which are the end of a stream.
FailedWith(s) == IF s.err \in {"io.net", "io.media"} THEN {s.id} ELSE {}

\* Reactions after which playback is over.
Final == {"NOT_ATTACHED", "STREAM_IGNORED", "STOPPED"}

(* A stream has ended by an error: the failed stream is replayed, or it is *)
(* removed, unless playback is over anyway.                                *)
LEMMA StoppedErrorFine ==
    ASSUME NEW w, HasRoom(w), NEW s \in Signals, Fine(FailedWith(s), w)
    PROVE  LET r == stop_notification_with_error(w, s)
           IN  Core(r.w) /\ (Fine({}, r.w) \/ r.r \in Final)
<1> DEFINE expected == IF s.err \in {"flow.nourl", "flow.stopped"} THEN "OURS_AS_EXPECTED"
                       ELSE is_stream_expected_playing(w.d, s.id)
           intention == IF expected \in {"UNEXPECTEDLY_OURS", "OURS_WRONG_ID"} THEN "STOPPING"
                        ELSE w.d.intention
           pausing == intention \in {"PAUSING", "SKIPPING_PAUSED"}
           again == retry_or_skip(w, s, pausing)
           r == stop_notification_with_error(w, s)
<1>1. \/ r.w = w /\ r.r \in Final
      \/ r.w = w /\ s.err = "flow.stopped"
      \/ r = again
  BY DEF stop_notification_with_error, Reaction, Final
<1>2. Core(w)
  BY DEF Fine
<1> HIDE DEF r, pausing
<1>3. CASE r.w = w /\ r.r \in Final
  BY <1>2, <1>3 DEF r
<1>4. CASE r.w = w /\ s.err = "flow.stopped"
  <2>1. FailedWith(s) = {}
    BY <1>4 DEF FailedWith
  <2> QED
    BY <1>2, <1>4, <2>1 DEF r
<1>5. CASE r = again
  <2>1. Moves(w, r.w) /\ (Fine({s.id}, w) => Fine({}, r.w))
    BY <1>2, <1>5, RetryFine
  <2>2. Fine({s.id}, w)
    BY FineMore DEF FailedWith
  <2> QED
    BY <2>1, <2>2 DEF Moves, r
<1> QED
  BY <1>1, <1>3, <1>4, <1>5

(* What the play view makes of it.                                         *)
LEMMA ReactFine ==
    ASSUME NEW r, Core(r.w), Fine({}, r.w) \/ r.r \in Final
    PROVE  Fine({}, react(r))
<1> DEFINE f(active) == player_finished(r.w, "PLAYING", active)
           e == queued_stream_playing_next(r.w.d)
           n == WithData(r.w, e)
<1>1. \/ r.r \in Final /\ \E active \in BOOLEAN : react(r) = f(active)
      \/ r.r \notin Final /\ react(r) \in {r.w, n}
  BY DEF react, Final
<1>2. \A active \in BOOLEAN : Fine({}, f(active))
  BY FinishFine
<1>3. Left(r.w.d, e) /\ e.intention = r.w.d.intention /\ e.now = r.w.d.now
  BY NextLeft DEF Core
<1> HIDE DEF f, e
<1>4. Fine({}, r.w) => Fine({}, n)
  BY <1>3, DataFine DEF Leads, Moves
<1> QED
  BY <1>1, <1>2, <1>4

(* NOTIFY_STREAM_STOPPED, with an error or without: the streams it tells   *)
(* about have left the mirror when it has been handled.                    *)
LEMMA StoppedFine ==
    ASSUME NEW w, HasRoom(w), NEW s \in Signals, s.name = "Stopped", Fine(ToldBy(s), w)
    PROVE  Fine({}, stream_stopped(w, s))
<1> DEFINE e == player_dropped_from_queue(w.d, s.dropped)
           u == WithData(w, e)
           f == player_has_stopped(e)
           v == WithData(w, f)
           x == stop_notification_ok(v, s.id)
           y == stop_notification_with_error(v, s)
<1>1. stream_stopped(w, s) = react(IF s.err = "" THEN x ELSE y)
  BY DEF stream_stopped
<1>2. Core(w)
  BY DEF Fine
<1>3. /\ Left(w.d, e) /\ Elements(e.queue) \cap s.dropped = {}
      /\ e.intention = w.d.intention /\ e.now = w.d.now
  BY <1>2, DroppedLeft DEF Core
<1> HIDE DEF e
<1>4. Left(e, f) /\ f.now = None /\ f.intention = e.intention /\ f.queue = e.queue
  BY <1>3, FieldsLeft DEF Left
<1> HIDE DEF f
<1>5. Leads(w, u) /\ Core(u)
  BY <1>2, <1>3, DataFine DEF Leads, Moves
<1>6. Leads(u, v) /\ v.d = f
  <2>1. u.d = e /\ WithData(u, f) = v
    OBVIOUS
  <2> HIDE DEF u, v
  <2>2. Leads(u, v)
    BY <1>4, <1>5, <2>1, DataFine
  <2> QED
    BY <2>2 DEF v
<1> HIDE DEF u, v
<1>7. Fine(FailedWith(s), v) /\ Core(v) /\ HasRoom(v)
  <2>1. Fine(ToldBy(s), v) /\ Core(v) /\ HasRoom(v)
    BY <1>5, <1>6 DEF Leads, Moves
  <2>2. ToldBy(s) = s.dropped \cup FailedWith(s)
    BY DEF ToldBy, FailedWith
  <2>3. ToldBy(s) \cap Elements(v.d.queue) \subseteq FailedWith(s)
    BY <1>3, <1>4, <1>6, <2>2
  <2> QED
    BY <2>1, <2>3, FineMore
<1>8. s.err = "" => Core(x.w) /\ Fine({}, x.w)
  <2>1. Leads(v, x.w)
    BY <1>7, StoppedOkFine
  <2>2. s.err = "" => FailedWith(s) = {}
    BY Zenon DEF FailedWith
  <2> HIDE DEF x
  <2> QED
    BY Zenon, <1>7, <2>1, <2>2 DEF Leads, Moves
<1>9. Core(y.w) /\ (Fine({}, y.w) \/ y.r \in Final)
  BY <1>7, StoppedErrorFine
<1> HIDE DEF x, y
<1> QED
  BY Zenon, <1>1, <1>8, <1>9, ReactFine

(***************************************************************************)
(* The other signals                                                       *)
(***************************************************************************)
(* A stream is being played: the marks follow it.                          *)
LEMMA NotifiedFine ==
    ASSUME NEW w0, Core(w0), NEW id \in AnyStream, NEW is_new_stream
    PROVE  Leads(w0, play_notification(w0, id, is_new_stream))
<1> DEFINE w == WithControl(w0, [w0.c EXCEPT !.retry.id = id])
           backward == w.c.handle /\ is_new_stream /\ w.c.dir = "BACKWARD"
           f == WithControl(w, [w.c EXCEPT !.dir = "FORWARD"])
           v == IF backward THEN invalidate_prefetched_uris(f) ELSE w
           moved == CASE ~(w.c.handle /\ id \in DOMAIN v.d.streams) -> {}
                      [] w.c.handle /\ id \in DOMAIN v.d.streams ->
                             (IF backward /\ has_proxy(w) THEN {"PREFETCH_CURSOR"} ELSE {})
                             \cup (IF is_new_stream THEN {"CURRENTLY_PLAYING", "ABOUT_TO_PLAY"} ELSE {})
           marks == [m \in Marks |-> IF m \in moved THEN v.d.streams[id].pos ELSE v.c.marks[m]]
           x == WithControl(v, [v.c EXCEPT !.marks = marks])
           y == play_notification(w0, id, is_new_stream)
<1>1. y \in {enforce_intention(x, "playing"), w}
  BY Zenon DEF play_notification
<1>2. moved # {} => id \in DOMAIN v.d.streams
  OBVIOUS
<1> HIDE DEF y, moved
<1>3. Adjusted(w0, w)
  BY ControlAdjusts DEF Core
<1> HIDE DEF w
<1>4. Leads(w0, w) /\ Core(w)
  BY <1>3, AdjustedFine DEF Leads, Moves
<1>5. Leads(w, v) /\ Core(v)
  <2>1. Adjusted(w, f)
    BY <1>4, ControlAdjusts DEF Core
  <2> HIDE DEF f
  <2>2. Leads(w, f) /\ Core(f)
    BY <1>4, <2>1, AdjustedFine DEF Leads, Moves
  <2>3. Leads(f, invalidate_prefetched_uris(f))
    BY <2>2, InvalidateFine
  <2>4. Leads(w, v)
    BY <1>4, <2>2, <2>3, LeadsOn, LeadsHere
  <2> QED
    BY <2>4 DEF Leads, Moves
<1> HIDE DEF v
<1>6. Leads(v, x) /\ Core(x)
  <2>1. marks \in [Marks -> Positions \cup {None}]
    <3>1. \A m \in Marks : v.c.marks[m] \in Positions \cup {None}
      BY <1>5, MarkIs
    <3>2. id \in DOMAIN v.d.streams => v.d.streams[id].pos \in Positions
      <4>1. v.d.streams \in StreamTables
        BY <1>5, SoundIs DEF Core, RestTyped
      <4> QED
        BY <4>1, TableIs DEF QueuedStreams
    <3> QED
      BY <1>2, <3>1, <3>2
  <2> HIDE DEF marks
  <2> DEFINE c == [v.c EXCEPT !.marks = marks]
  <2>2. TypedControl(c)
    BY Zenon, <1>5, <2>1, FieldTyped DEF Core
  <2>3. /\ c.plugged = v.c.plugged /\ c.source = v.c.source /\ c.handle = v.c.handle
        /\ c.bugs = v.c.bugs /\ c.ops = v.c.ops
    BY <1>5 DEF Core, TypedControl, Controls
  <2> HIDE DEF c
  <2>4. Adjusted(v, WithControl(v, c))
    BY <2>2, <2>3, AdjustBy
  <2>5. x = WithControl(v, c)
    BY DEF c
  <2> HIDE DEF x
  <2> QED
    BY <1>5, <2>4, <2>5, AdjustedFine DEF Leads, Moves
<1> HIDE DEF x
<1>7. Leads(x, enforce_intention(x, "playing"))
  BY <1>6, EnforceFine
<1> QED
  BY <1>1, <1>4, <1>5, <1>6, <1>7, LeadsOn DEF y

\* What is known of our streams while a signal is being handled, which is not
\* under way anymore.
Announces(s) == IF s.name = "NowPlaying" THEN {s.id} ELSE {}
Heard(s, w) ==
    /\ Core(w)
    /\ has_proxy(w) =>
           /\ Elements(w.d.queue) \subseteq Known(w.p) \cup ToldBy(s)
           /\ w.p.said \in Elements(w.d.queue) => w.p.said \in Heralds(w.p.sig) \cup Announces(s)

\* As soon as the stream has left the queue, there is no exception to be made.
LEMMA HeardOf ==
    ASSUME NEW s, NEW w, Heard(s, w), NEW e, Core(WithData(w, e)),
           Elements(e.queue) \subseteq Elements(w.d.queue),
           Elements(e.queue) \cap (ToldBy(s) \cup Announces(s)) = {}
    PROVE  Fine({}, WithData(w, e))
BY DEF Heard, Fine, Tracks, has_proxy, own

\* Signals other than NowPlaying announce nothing.
LEMMA HeardLess ==
    ASSUME NEW s, NEW w, Heard(s, w), s.name # "NowPlaying"
    PROVE  Fine(ToldBy(s), w)
BY DEF Heard, Fine, Tracks, Announces

(* NOTIFY_NOW_PLAYING: the stream has left the queue when it has been      *)
(* handled, unless it has left it before.                                  *)
LEMMA NowPlayingFine ==
    ASSUME NEW w, HasRoom(w), NEW s \in Signals, s.name = "NowPlaying", s.id # None, Heard(s, w)
    PROVE  Fine({}, now_playing(w, s))
<1> DEFINE switched == w.d.now # s.id
           d == player_dropped_from_queue(w.d, s.dropped)
           c == player_now_playing_stream(d, s.id)
           e == IF switched THEN set_intention(c, "LISTENING") ELSE d
           v == WithData(w, e)
           x == play_notification(v, s.id, switched)
           n == start_prefetch_next_item(x, "PREFETCH_CURSOR", "FORWARD", FALSE, "delayed")
           y == now_playing(w, s)
<1>1. y \in {x, n}
  BY DEF now_playing
<1>2. Core(w) /\ s.id \in StreamIds
  BY Zenon DEF Heard, Signals
<1>3. Left(w.d, d) /\ d.intention = w.d.intention /\ d.now = w.d.now
  BY <1>2, DroppedLeft DEF Core
<1>4. ToldBy(s) \cup Announces(s) = {s.id}
  BY DEF ToldBy, Announces
<1> HIDE DEF d, y
<1>5. Fine({}, v) /\ (HasRoom(w) => HasRoom(v))
  <2>1. v.c = w.c /\ v.p = w.p /\ v.d = e
    OBVIOUS
  <2>2. CASE switched
    <3>1. Left(d, c) /\ s.id \notin Elements(c.queue) /\ c.now = s.id
      BY <1>2, <1>3, ChangedLeft DEF Left
    <3> HIDE DEF c
    <3>2. Left(c, e) /\ e.intention = "LISTENING" /\ e.now = c.now /\ e.queue = c.queue
      BY <2>2, <3>1, FieldsLeft DEF Left, Intentions
    <3> HIDE DEF e
    <3>3. Core(v)
      BY <1>2, <2>1, <3>1, <3>2 DEF Core, Left
    <3>4. Fine({}, v)
      BY <1>3, <1>4, <3>1, <3>2, <3>3, HeardOf DEF Left
    <3> QED
      BY <2>1, <3>4 DEF HasRoom
  <2>3. CASE ~switched
    <3>1. e = d /\ s.id \notin Elements(w.d.queue)
      BY <1>2, <2>3 DEF Core
    <3> HIDE DEF e
    <3>2. Leads(w, v)
      BY <1>2, <1>3, <3>1, DataFine
    <3>3. Core(v) /\ (HasRoom(w) => HasRoom(v))
      BY <3>2 DEF Leads, Moves
    <3>4. Fine({}, v)
      BY <1>3, <1>4, <3>1, <3>3, HeardOf DEF Left
    <3> QED
      BY <3>3, <3>4
  <2> QED
    BY <2>2, <2>3
<1> HIDE DEF e, v
<1>6. Leads(v, x)
  BY <1>2, <1>5, NotifiedFine DEF AnyStream, Fine
<1> HIDE DEF x
<1>7. Core(x) /\ HasRoom(x) /\ Fine({}, x)
  BY <1>5, <1>6 DEF Leads, Moves
<1>8. Moves(x, n)
  BY <1>7, PrefetchFine
<1> QED
  BY <1>1, <1>7, <1>8 DEF y, Moves

(* NOTIFY_STREAM_PAUSED, NOTIFY_STREAM_UNPAUSED                            *)
LEMMA PausedFine ==
    ASSUME NEW w, Core(w), NEW s \in Signals
    PROVE  Leads(w, stream_paused(w, s)) /\ Leads(w, stream_unpaused(w, s))
<1> DEFINE e(st) == [w.d EXCEPT !.state = st]
           v(st) == WithData(w, e(st))
           t == WithControl(v("paused"), [w.c EXCEPT !.retry.id = s.id])
           x == stream_paused(w, s)
           y == stream_unpaused(w, s)
<1>1. x \in {t, enforce_intention(t, "paused")} /\ y = play_notification(v("playing"), s.id, FALSE)
  BY DEF stream_paused, stream_unpaused
<1>2. s.id \in AnyStream
  BY Zenon DEF Signals, AnyStream
<1> HIDE DEF x, y
<1>3. ASSUME NEW st \in PlayerStates
      PROVE  Leads(w, v(st)) /\ Core(v(st)) /\ v(st).c = w.c
  <2>1. Left(w.d, e(st)) /\ e(st).intention = w.d.intention /\ e(st).now = w.d.now
    BY FieldsLeft DEF Core
  <2>2. v(st).c = w.c
    OBVIOUS
  <2> HIDE DEF e
  <2>3. Leads(w, v(st))
    BY <2>1, DataFine
  <2> QED
    BY <2>2, <2>3 DEF Leads, Moves
<1>4. /\ Leads(w, v("paused")) /\ Core(v("paused")) /\ v("paused").c = w.c
      /\ Leads(w, v("playing")) /\ Core(v("playing"))
  BY <1>3 DEF PlayerStates
<1> HIDE DEF v
<1>5. Adjusted(v("paused"), t)
  BY <1>2, <1>4, ControlAdjusts DEF Core
<1> HIDE DEF t
<1>6. Leads(w, t) /\ Core(t)
  <2>1. Leads(v("paused"), t)
    BY <1>4, <1>5, AdjustedFine
  <2> QED
    BY <1>4, <2>1, LeadsOn DEF Leads, Moves
<1>7. Leads(t, enforce_intention(t, "paused"))
  BY <1>6, EnforceFine
<1>8. Leads(v("playing"), play_notification(v("playing"), s.id, FALSE))
  BY <1>2, <1>4, NotifiedFine
<1>9. Leads(w, x)
  <2>1. Leads(w, enforce_intention(t, "paused"))
    BY <1>6, <1>7, LeadsOn
  <2> QED
    BY <1>1, <1>6, <2>1
<1>10. Leads(w, y)
  <2> DEFINE b == v("playing")
  <2>1. Leads(w, b) /\ Leads(b, y)
    BY <1>1, <1>4, <1>8
  <2> HIDE DEF b, y
  <2> QED
    BY <2>1, LeadsOn
<1> QED
  BY <1>9, <1>10 DEF x, y

(* Any signal.                                                             *)
LEMMA SignalFine ==
    ASSUME NEW w, HasRoom(w), NEW s \in Signals, Heard(s, w)
    PROVE  Fine({}, handle_signal(w, s))
<1>1. Core(w)
  BY DEF Heard
<1>2. CASE s.name = "NowPlaying" /\ s.id # None
  BY <1>2, NowPlayingFine DEF handle_signal
<1>3. CASE s.name = "NowPlaying" /\ s.id = None
  <2>1. Elements(w.d.queue) \subseteq StreamIds
    BY <1>1, QueueIds DEF Core
  <2>2. Elements(w.d.queue) \cap {None} = {} /\ ToldBy(s) = {None} /\ Announces(s) = {None}
    BY <1>3, <2>1, NoneAssumption DEF ToldBy, Announces
  <2>3. Fine({}, w)
    BY <2>2 DEF Heard, Fine, Tracks
  <2> QED
    BY <1>3, <2>3 DEF handle_signal
<1>4. CASE s.name = "Stopped"
  BY <1>4, HeardLess, StoppedFine DEF handle_signal
<1>5. CASE s.name \in {"Paused", "Unpaused"}
  <2>1. ToldBy(s) = {} /\ Fine(ToldBy(s), w)
    BY <1>5, HeardLess DEF ToldBy
  <2>2. Fine({}, stream_paused(w, s)) /\ Fine({}, stream_unpaused(w, s))
    BY <1>1, <2>1, PausedFine DEF Leads, Moves
  <2> QED
    BY <1>5, <2>2 DEF handle_signal
<1>6. CASE s.name = "Dropped"
  <2> DEFINE e == player_rejected_unplayed_stream(w.d, s.id)
  <2>1. /\ Left(w.d, e) /\ s.id \notin Elements(e.queue)
        /\ e.intention = w.d.intention /\ e.now = w.d.now
    BY <1>1, RejectedLeft DEF Core
  <2>2. ToldBy(s) \cup Announces(s) = {s.id}
    BY <1>6 DEF ToldBy, Announces
  <2>3. handle_signal(w, s) = WithData(w, e)
    BY <1>6 DEF handle_signal
  <2> HIDE DEF e
  <2>4. Core(WithData(w, e))
    BY <1>1, <2>1, DataFine DEF Leads, Moves
  <2> QED
    BY <2>1, <2>2, <2>3, <2>4, HeardOf DEF Left
<1> QED
  BY Zenon, <1>2, <1>3, <1>4, <1>5, <1>6 DEF Signals

(***************************************************************************)
(* Selection of audio sources                                              *)
(***************************************************************************)
\* The state of our source.
LEMMA SourceTyped ==
    ASSUME NEW c, TypedControl(c), NEW t \in {"DESELECTED", "REQUESTED", "SELECTED"}
    PROVE  /\ LET x == [c EXCEPT !.source = t]
              IN  TypedControl(x) /\ x.plugged = c.plugged /\ x.source = t /\ x.ops = c.ops /\ x.bugs = c.bugs
           /\ LET x == [c EXCEPT !.source = t, !.hold = FALSE]
              IN  TypedControl(x) /\ x.plugged = c.plugged /\ x.source = t /\ x.ops = c.ops /\ x.bugs = c.bugs
           /\ LET x == [c EXCEPT !.saved = None, !.source = t, !.hold = FALSE]
              IN  TypedControl(x) /\ x.plugged = c.plugged /\ x.source = t /\ x.ops = c.ops /\ x.bugs = c.bugs
<1>1. c \in Controls /\ \A o \in OpIds : c.ops[o] # NoOp => RightOp(c.ops[o])
  BY DEF TypedControl
<1>2. [c EXCEPT !.source = t] \in Controls
  BY <1>1 DEF Controls
<1>3. [c EXCEPT !.source = t, !.hold = FALSE] \in Controls
  BY <1>1 DEF Controls
<1>4. [c EXCEPT !.saved = None, !.source = t, !.hold = FALSE] \in Controls
  BY <1>1 DEF Controls
<1> QED
  BY <1>1, <1>2, <1>3, <1>4 DEF TypedControl, Controls

\* Nothing of the mirror and of the player changes.
LEMMA SourceCore ==
    ASSUME NEW w, Core(w), NEW c, TypedControl(c), c.bugs = w.c.bugs, c.ops = w.c.ops
    PROVE  Core(WithControl(w, c)) /\ (HasRoom(w) => HasRoom(WithControl(w, c)))
BY DEF Core, HasRoom

(* Our source has been selected; if it has been requested before, there    *)
(* are no streams yet.                                                     *)
LEMMA SelectedFine ==
    ASSUME NEW w0, Fine({}, w0), HasRoom(w0), own(w0), w0.c.source \in {"REQUESTED", "SELECTED"},
           w0.c.source = "REQUESTED" => DOMAIN w0.d.streams = {}
    PROVE  Fine({}, source_selected(w0, FALSE))
<1> DEFINE c == [w0.c EXCEPT !.source = "SELECTED", !.hold = FALSE]
           w == WithControl(w0, c)
           saved == w.c.saved
           v == WithControl(w, [w.c EXCEPT !.saved = None])
           x == source_selected(w0, FALSE)
<1>1. x \in {play_request(v, saved), stop_request(w), pause_request(w), w}
  <2>1. [w0.c EXCEPT !.source = IF @ = "REQUESTED" THEN "SELECTED" ELSE @, !.hold = FALSE] = c
    OBVIOUS
  <2> QED
    BY <2>1 DEF source_selected
<1>2. Core(w0)
  BY DEF Fine
<1>3. TypedControl(c) /\ c.plugged = w0.c.plugged /\ c.source = "SELECTED" /\ c.ops = w0.c.ops /\ c.bugs = w0.c.bugs
  BY Zenon, <1>2, SourceTyped DEF Core
<1> HIDE DEF x, c
<1>4. Fine({}, w) /\ Core(w) /\ HasRoom(w)
  <2>1. Core(w) /\ HasRoom(w)
    BY <1>2, <1>3, SourceCore
  <2>2. w0.c.source = "REQUESTED" => Fine({}, w)
    <3>1. w.d = w0.d
      OBVIOUS
    <3> HIDE DEF w
    <3> QED
      BY <2>1, <3>1, EmptyFine
  <2>3. w0.c.source = "SELECTED" => Fine({}, w)
    BY <1>3, <2>1 DEF Fine, has_proxy, own
  <2> QED
    BY <2>1, <2>2, <2>3
<1> HIDE DEF w
<1>5. saved \in Positions \cup {None}
  BY <1>4, ControlIs DEF Core, TypedControl
<1>6. Adjusted(w, v)
  BY <1>4, ControlAdjusts DEF Core
<1> HIDE DEF v, saved
<1>7. Fine({}, v) /\ Core(v) /\ HasRoom(v)
  BY <1>4, <1>6, AdjustedFine DEF Leads, Moves
<1>8. Fine({}, play_request(v, saved))
  BY <1>5, <1>7, RequestsFine DEF Moves
<1>9. Fine({}, stop_request(w)) /\ Fine({}, pause_request(w))
  BY <1>4, RequestsFine DEF Leads, Moves
<1> QED
  BY <1>1, <1>4, <1>8, <1>9 DEF x

(* Our source has been selected without having been requested.             *)
LEMMA ActivationFine ==
    ASSUME NEW w0, Core(w0), HasRoom(w0), DOMAIN w0.d.streams = {}
    PROVE  Fine({}, fresh_activation(w0))
<1> DEFINE w == IF attached(w0) THEN unplug(w0, TRUE) ELSE w0
           c == [w.c EXCEPT !.source = "SELECTED"]
           y == WithControl(w, c)
           x == plug(y, "own")
<1>1. Core(w) /\ HasRoom(w) /\ DOMAIN w.d.streams = {}
  BY Zenon, UnplugFine
<1> HIDE DEF w
<1>2. TypedControl(c) /\ c.source = "SELECTED" /\ c.ops = w.c.ops /\ c.bugs = w.c.bugs
  BY Zenon, <1>1, SourceTyped DEF Core
<1> HIDE DEF c
<1>3. Core(y) /\ HasRoom(y) /\ DOMAIN y.d.streams = {} /\ y.c.source = "SELECTED"
  BY <1>1, <1>2, SourceCore
<1> HIDE DEF y
<1>4. Core(x) /\ x.d = y.d /\ x.c.plugged = "own" /\ HasRoom(x) /\ x.c.source \in {"REQUESTED", "SELECTED"}
  BY <1>3, PlugFine
<1> HIDE DEF x
<1>5. Fine({}, x)
  BY <1>3, <1>4, EmptyFine
<1>6. Fine({}, source_selected(x, FALSE))
  BY <1>3, <1>4, <1>5, SelectedFine DEF own
<1> QED
  BY <1>6 DEF fresh_activation, x, y, c, w

(* Our source is not selected anymore.                                     *)
LEMMA DeselectFine ==
    ASSUME NEW w, Core(w), NEW send_stop \in BOOLEAN
    PROVE  Fine({}, do_deselect(w, send_stop))
<1> DEFINE v == IF send_stop THEN send_stop_command(w) ELSE w
           c == [v.c EXCEPT !.saved = None, !.source = "DESELECTED", !.hold = FALSE]
           x == WithControl(v, c)
<1>1. Core(v)
  BY SendFine DEF Leads, Moves
<1> HIDE DEF v
<1>2. TypedControl(c) /\ c.source = "DESELECTED" /\ c.ops = v.c.ops /\ c.bugs = v.c.bugs
  BY Zenon, <1>1, SourceTyped DEF Core
<1> HIDE DEF c
<1>3. Core(x)
  BY <1>1, <1>2, SourceCore
<1>4. ~has_proxy(x)
  BY <1>2 DEF has_proxy
<1> HIDE DEF x
<1>5. Fine({}, x)
  BY <1>3, <1>4, EmptyFine
<1> QED
  BY <1>5 DEF do_deselect, x, c, v

(* Another source takes over, or none.                                     *)
LEMMA PathChangedFine ==
    ASSUME NEW w0, Core(w0), NEW who \in {"external", "none"}
    PROVE  Fine({}, audio_path_changed(w0, who))
<1> DEFINE v == IF own(w0) THEN do_deselect(w0, FALSE) ELSE w0
           w == unplug(v, TRUE)
           x == plug(w, who)
           y == plug_crawler(x, FALSE)
<1>1. Core(v)
  BY DeselectFine DEF Fine
<1> HIDE DEF v
<1>2. Core(w) /\ w.c.plugged = "none"
  BY <1>1, UnplugFine
<1> HIDE DEF w
<1>3. Fine({}, w)
  BY <1>2, EmptyFine DEF has_proxy, own
<1>4. who = "external" => Fine({}, y)
  <2> SUFFICES ASSUME who = "external"
               PROVE  Fine({}, y)
    OBVIOUS
  <2>1. Core(x) /\ x.c.plugged = "external"
    BY <1>2, PlugFine
  <2> HIDE DEF x
  <2>2. Fine({}, x)
    BY <2>1, EmptyFine DEF has_proxy, own
  <2> QED
    BY <2>1, <2>2, PlugFine
<1> QED
  BY <1>3, <1>4 DEF audio_path_changed, y, x, w, v

(***************************************************************************)
(* Steps                                                                   *)
(***************************************************************************)
\* The state of the program is fine.
StreamsFine == Fine({}, Now)

\* Handlers start from a world like the state.
LEMMA WorldFine ==
    ASSUME ControlSteady, StreamsFine, Alive
    PROVE  /\ Fine({}, World) /\ Core(World) /\ Steady(World) /\ (Room => HasRoom(World))
           /\ World.d = data /\ World.c = [ctl EXCEPT !.bugs = {}] /\ World.p = player
           /\ World.c.plugged = ctl.plugged /\ World.c.source = ctl.source /\ World.c.handle = ctl.handle
           /\ World.c.ops = ctl.ops /\ World.c.done = ctl.done /\ World.c.dead = ctl.dead
           /\ ~ctl.hold
           /\ Waiting(World.c) => DOMAIN World.d.streams = {} /\ Elements(World.d.queue) = {}
<1>1. /\ Steady(World) /\ (Room => HasRoom(World))
      /\ World.d = data /\ World.c = [ctl EXCEPT !.bugs = {}] /\ World.p = player
      /\ \A f \in ControlFields \ {"bugs"} : World.c[f] = ctl[f]
  BY WorldSteady
<1> HIDE DEF World
<1>2. Core(Now) /\ Fine({}, Now) /\ Now.d = data /\ Now.c = ctl /\ Now.p = player
  BY DEF StreamsFine, Fine, Now
<1>3. TypedControl(ctl) /\ ctl \in Controls
  BY <1>2 DEF Core, TypedControl
<1>4. /\ World.c.plugged = ctl.plugged /\ World.c.source = ctl.source /\ World.c.handle = ctl.handle
      /\ World.c.ops = ctl.ops /\ World.c.done = ctl.done /\ World.c.dead = ctl.dead
      /\ World.c.bugs = {}
  BY <1>1, <1>3 DEF Controls
<1>5. TypedControl(World.c)
  BY Zenon, <1>1, <1>3, FieldTyped
<1>6. Core(World)
  BY <1>1, <1>2, <1>4, <1>5 DEF Core
<1>7. Fine({}, World)
  BY <1>1, <1>2, <1>4, <1>6 DEF Fine, has_proxy, own
<1>8. ~ctl.hold
  BY <1>1 DEF Steady, ControlFields
<1>9. Waiting(World.c) => DOMAIN World.d.streams = {} /\ Elements(World.d.queue) = {}
  <2> SUFFICES ASSUME Waiting(World.c)
               PROVE  DOMAIN World.d.streams = {} /\ Elements(World.d.queue) = {}
    OBVIOUS
  <2>1. Sane({None}, <<>>, World.d)
    BY <1>1 DEF Steady, Emptied, SaneWorld
  <2>2. World.d.inflight = None /\ Consistent(World.d)
    BY <2>1 DEF Sane
  <2>3. Elements(World.d.queue) \subseteq Elements(<<>>) /\ Elements(<<>>) = {}
    <3>1. Elements(<<>>) = {}
      BY DEF Elements
    <3> QED
      BY <2>1, <3>1 DEF Sane, InOrder
  <2> QED
    BY <2>2, <2>3 DEF Consistent, OnlyId
<1> QED
  BY <1>1, <1>4, <1>6, <1>7, <1>8, <1>9

\* What a handler leaves behind is the next state.
LEMMA BecomeFine ==
    ASSUME NEW w, Fine({}, w), data' = w.d, ctl' = w.c, player' = w.p
    PROVE  StreamsFine'
BY DEF StreamsFine, Now, Fine, Core, has_proxy, own

\* A completed operation that has left the crawler.
LEMMA OperationGone ==
    ASSUME NEW w, Core(w), NEW o \in OpIds, NEW done \in Seq(OpIds)
    PROVE  LET x == WithControl(w, [w.c EXCEPT !.ops[o] = NoOp, !.done = done])
           IN  Leads(w, x) /\ FreeIds(x) = FreeIds(w) /\ x.c.handle = w.c.handle
<1> DEFINE c == [w.c EXCEPT !.ops[o] = NoOp, !.done = done]
<1>1. TypedControl(c)
  BY Zenon, OpTyped DEF Core
<1>2. /\ c.plugged = w.c.plugged /\ c.source = w.c.source /\ c.handle = w.c.handle
      /\ c.bugs = w.c.bugs /\ c.retry = w.c.retry
      /\ \A q \in OpIds : w.c.ops[q] = NoOp => c.ops[q] = NoOp
  BY DEF Core, TypedControl, Controls
<1> HIDE DEF c
<1> DEFINE x == WithControl(w, c)
<1>3. Adjusted(w, x)
  BY <1>1, <1>2, AdjustBy
<1>4. x.d = w.d /\ x.p = w.p /\ x.c.retry = w.c.retry /\ x.c.handle = w.c.handle
  BY <1>2
<1> HIDE DEF x
<1>5. Leads(w, x) /\ FreeIds(x) = FreeIds(w) /\ x.c.handle = w.c.handle
  BY <1>3, <1>4, AdjustedFine, FreeIdsAre
<1> QED
  BY <1>5 DEF x, c

\* An operation goes on.
LEMMA OperationGoesOn ==
    ASSUME NEW w, Fine({}, w), NEW o \in OpIds, w.c.ops[o] # NoOp, NEW op \in Ops, RightOp(op),
           NEW done \in Seq(OpIds), NEW c, c = [w.c EXCEPT !.ops[o] = op, !.done = done]
    PROVE  Fine({}, WithControl(w, c))
<1>1. Core(w)
  BY DEF Fine
<1>2. TypedControl(c)
  BY Zenon, <1>1, OpTyped DEF Core
<1>3. /\ c.plugged = w.c.plugged /\ c.source = w.c.source /\ c.handle = w.c.handle
      /\ c.bugs = w.c.bugs /\ \A q \in OpIds : w.c.ops[q] = NoOp => c.ops[q] = NoOp
  BY <1>1 DEF Core, TypedControl, Controls
<1>4. Adjusted(w, WithControl(w, c))
  BY <1>2, <1>3, AdjustBy
<1> QED
  BY <1>1, <1>4, AdjustedFine DEF Leads, Moves

\* An operation which finds an item finds one of the list.
LEMMA OutcomeIs ==
    ASSUME NEW op \in Ops, RightOp(op), Outcome(op) = "found", op.kind \in {"play", "prefetch", "skip"}
    PROVE  Found(op) \in Positions
<1>1. op.pos \in 1 .. Last /\ Last \in Nat /\ op.dir \in {"FORWARD", "BACKWARD"}
  BY ListAssumption DEF Ops, RightOp
<1>2. op.kind = "play" => Found(op) = op.pos
  BY DEF Found
<1>3. op.kind # "play" /\ op.dir = "FORWARD" => op.pos # Last /\ Found(op) = op.pos + 1
  BY DEF Found, Outcome
<1>4. op.kind # "play" /\ op.dir = "BACKWARD" => op.pos # 1 /\ Found(op) = op.pos - 1
  BY DEF Found, Outcome
<1> QED
  BY <1>1, <1>2, <1>3, <1>4, ListAssumption

(* The head of a queue of signals is taken: its streams are still known.   *)
LEMMA SignalTaken ==
    ASSUME NEW w, Fine({}, w), w.p.sig # <<>>
    PROVE  LET x == WithPlayer(w, [w.p EXCEPT !.sig = Tail(@)])
           IN  /\ Head(w.p.sig) \in Signals /\ Heard(Head(w.p.sig), x)
               /\ (HasRoom(w) => HasRoom(x))
<1> DEFINE s == Head(w.p.sig)
           q == [w.p EXCEPT !.sig = Tail(@)]
           x == WithPlayer(w, q)
<1>1. w.p \in StreamPlayers /\ Settled(w.p) /\ Core(w)
  BY DEF Fine, Core
<1>2. w.p.sig \in Seq(Signals)
  BY <1>1 DEF StreamPlayers
<1>3. s \in Signals /\ Tail(w.p.sig) \in Seq(Signals) /\ Elements(w.p.sig) = {s} \cup Elements(Tail(w.p.sig))
  BY <1>2, HeadElements
<1>4. /\ q \in StreamPlayers /\ q.sig = Tail(w.p.sig)
      /\ q.st = w.p.st /\ q.cur = w.p.cur /\ q.said = w.p.said /\ q.queue = w.p.queue
  BY <1>1, <1>3 DEF StreamPlayers
<1> HIDE DEF s, q
<1>5. Known(w.p) \subseteq Known(q) \cup ToldBy(s) /\ Heralds(w.p.sig) \subseteq Heralds(q.sig) \cup Announces(s)
  BY <1>3, <1>4 DEF Known, Told, Heralds, Announces
<1>6. Core(x)
  BY <1>1, <1>4 DEF Core, Settled
<1>7. Heard(s, x)
  BY <1>4, <1>5, <1>6 DEF Fine, Tracks, Heard, has_proxy, own
<1>8. HasRoom(w) => HasRoom(x)
  BY DEF HasRoom
<1> QED
  BY <1>3, <1>7, <1>8 DEF s, q

(* Each step leaves the streams accounted for.                             *)
LEMMA StepFine ==
    ASSUME "hold" \notin Faults, ControlSteady, StreamsFine, [Next]_vars
    PROVE  StreamsFine'
<1>1. Alive => /\ Fine({}, World) /\ Core(World) /\ Steady(World) /\ (Room => HasRoom(World))
               /\ World.d = data /\ World.c = [ctl EXCEPT !.bugs = {}] /\ World.p = player
               /\ World.c.plugged = ctl.plugged /\ World.c.source = ctl.source /\ World.c.handle = ctl.handle
               /\ World.c.ops = ctl.ops /\ World.c.done = ctl.done /\ World.c.dead = ctl.dead
               /\ ~ctl.hold
               /\ Waiting(World.c) => DOMAIN World.d.streams = {} /\ Elements(World.d.queue) = {}
  BY WorldFine
<1>2. Room => FreeIds(World) # {}
  BY DEF Room
<1> HIDE DEF World, Alive, Room, ControlSteady, StreamsFine
<1>3. ASSUME NEW w, Fine({}, w), Become(w)
      PROVE  StreamsFine'
  BY <1>3, BecomeFine DEF Become
<1>4. ASSUME NEW pos \in Positions, Play(pos)
      PROVE  StreamsFine'
  <2>1. Alive /\ Room /\ Become(prepare_for_playing(World, pos))
    BY <1>4 DEF Play, Command
  <2>2. ~attached(World) => DOMAIN World.d.streams = {}
    BY <1>1, <2>1 DEF attached, Waiting
  <2>3. Fine({}, prepare_for_playing(World, pos))
    BY <1>1, <2>1, <2>2, PrepareFine
  <2> QED
    BY <1>3, <2>1, <2>3
<1>5. CASE StartCommand \/ StopCommand \/ PauseCommand
  <2>1. /\ Alive /\ Room
        /\ \/ Become(pause_request(World)) \/ Become(play_request(World, None))
           \/ Become(stop_request(World))
    BY <1>5 DEF StartCommand, StopCommand, PauseCommand, Command
  <2>2. /\ Moves(World, play_request(World, None))
        /\ Leads(World, stop_request(World)) /\ Leads(World, pause_request(World))
    BY <1>1, <2>1, RequestsFine
  <2>3. /\ Fine({}, play_request(World, None))
        /\ Fine({}, stop_request(World)) /\ Fine({}, pause_request(World))
    BY <1>1, <2>1, <2>2 DEF Leads, Moves
  <2> QED
    BY <1>3, <2>1, <2>3
<1>6. CASE NextCommand \/ PreviousCommand
  <2>1. /\ Alive /\ Room
        /\ \/ Become(skip_forward_request(World)) \/ Become(skip_backward_request(World))
           \/ Become(rewind_request(World))
    BY <1>6 DEF NextCommand, PreviousCommand, Command
  <2>2. has_proxy(World) /\ ~World.c.handle => Elements(World.d.queue) = {}
    BY <1>1, <2>1 DEF Waiting
  <2>3. Moves(World, skip_forward_request(World)) /\ Moves(World, skip_backward_request(World))
    BY <1>1, <2>1, <2>2, SkipFine
  <2>4. Fine({}, skip_forward_request(World)) /\ Fine({}, skip_backward_request(World))
    BY <1>1, <2>1, <2>3 DEF Moves
  <2>5. rewind_request(World) \in {skip_backward_request(World), World}
    BY DEF rewind_request
  <2>6. Fine({}, rewind_request(World))
    BY <1>1, <2>1, <2>4, <2>5
  <2> QED
    BY <1>3, <2>1, <2>4, <2>6
<1>7. CASE WindCommand
  <2>1. Alive /\ Become(fast_wind_set_speed_request(World))
    BY <1>7 DEF WindCommand, Command
  <2>2. "null" \in Bugs \ {Sent} /\ (~attached(World)) \in BOOLEAN
    BY DEF Bugs, Sent
  <2>3. Adjusted(World, fast_wind_set_speed_request(World))
    BY <1>1, <2>1, <2>2, ControlAdjusts DEF fast_wind_set_speed_request, Core
  <2>4. Fine({}, fast_wind_set_speed_request(World))
    BY <1>1, <2>1, <2>3, AdjustedFine DEF Leads, Moves
  <2> QED
    BY <1>3, <2>1, <2>4
<1>8. CASE Deliver
  <2> DEFINE w == WithPlayer(World, [World.p EXCEPT !.sig = Tail(@)])
  <2>1. Alive /\ Room /\ World.p.sig # <<>> /\ Become(handle_signal(w, Head(World.p.sig)))
    BY <1>1, <1>8 DEF Deliver
  <2>2. Head(World.p.sig) \in Signals /\ Heard(Head(World.p.sig), w) /\ HasRoom(w)
    BY <1>1, <2>1, SignalTaken
  <2> HIDE DEF w
  <2>3. Fine({}, handle_signal(w, Head(World.p.sig)))
    BY <2>2, SignalFine
  <2> QED
    BY <1>3, <2>1, <2>3
<1>9. ASSUME NEW o \in OpIds, OpStart(o)
      PROVE  StreamsFine'
  <2> DEFINE op == [ctl.ops[o] EXCEPT !.st = "running"]
             x == [World.c EXCEPT !.ops[o].st = "running"]
  <2>1. /\ Alive /\ ctl' = x /\ data' = data /\ player' = player /\ ctl.ops[o] # NoOp
    BY <1>9 DEF OpStart
  <2>2. TypedControl(World.c) /\ World.c.done \in Seq(OpIds)
    BY <1>1, <2>1, ControlIs DEF Core, TypedControl
  <2>3. ctl.ops[o] \in Ops /\ RightOp(ctl.ops[o])
    BY <1>1, <2>1, <2>2, ControlIs DEF TypedControl
  <2>4. op \in Ops /\ RightOp(op)
    BY <2>3 DEF Ops, OpStates, RightOp, Found
  <2>5. x = [World.c EXCEPT !.ops[o] = op, !.done = World.c.done]
    BY <1>1, <2>1, <2>2 DEF TypedControl, Controls
  <2> HIDE DEF op, x
  <2>6. Fine({}, WithControl(World, x))
    BY Zenon, <1>1, <2>1, <2>2, <2>4, <2>5, OperationGoesOn
  <2> QED
    BY <1>1, <2>1, <2>6, BecomeFine
<1>10. ASSUME NEW o \in OpIds, OpFinish(o)
       PROVE  StreamsFine'
  <2>1. PICK res \in OpResults :
            /\ ctl' = [World.c EXCEPT !.ops[o].st = "done", !.ops[o].res = res, !.done = Append(@, o)]
            /\ res = Outcome(ctl.ops[o]) \/ res # "found"
    BY Zenon, <1>10 DEF OpFinish
  <2> DEFINE op == [ctl.ops[o] EXCEPT !.st = "done", !.res = res]
             x == [World.c EXCEPT !.ops[o].st = "done", !.ops[o].res = res, !.done = Append(@, o)]
  <2>2. /\ Alive /\ ctl' = x /\ data' = data /\ player' = player /\ ctl.ops[o] # NoOp
    BY <1>10, <2>1 DEF OpFinish
  <2>3. TypedControl(World.c) /\ World.c.done \in Seq(OpIds) /\ Append(World.c.done, o) \in Seq(OpIds)
    BY <1>1, <2>2, ControlIs DEF Core, TypedControl
  <2>4. ctl.ops[o] \in Ops /\ RightOp(ctl.ops[o])
    BY <1>1, <2>2, <2>3, ControlIs DEF TypedControl
  <2>5. op \in Ops /\ RightOp(op)
    <3>1. /\ op \in Ops /\ op.res = res /\ op.kind = ctl.ops[o].kind /\ op.dir = ctl.ops[o].dir
          /\ op.pos = ctl.ops[o].pos /\ op.prev = ctl.ops[o].prev
      BY <2>4 DEF Ops, OpStates
    <3>2. op.kind \in {"play", "prefetch", "skip"} /\ res = "found" => Found(ctl.ops[o]) \in Positions
      BY <2>1, <2>4, <3>1, OutcomeIs
    <3> HIDE DEF op
    <3>3. Found(op) = Found(ctl.ops[o])
      BY <3>1 DEF Found
    <3> QED
      BY <2>4, <3>1, <3>2, <3>3 DEF RightOp
  <2>6. x = [World.c EXCEPT !.ops[o] = op, !.done = Append(World.c.done, o)]
    <3> DEFINE f == [World.c.ops EXCEPT ![o].st = "done", ![o].res = res]
               g == [World.c.ops EXCEPT ![o] = op]
    <3>1. World.c.ops \in [OpIds -> Ops \cup {NoOp}] /\ World.c.ops[o] = ctl.ops[o]
      BY <1>1, <2>2, <2>3, ControlIs DEF TypedControl
    <3>2. f = g
      BY <3>1, <2>4 DEF Ops
    <3>3. /\ x = [World.c EXCEPT !.ops = f, !.done = Append(World.c.done, o)]
          /\ [World.c EXCEPT !.ops[o] = op, !.done = Append(World.c.done, o)]
                 = [World.c EXCEPT !.ops = g, !.done = Append(World.c.done, o)]
      BY <2>3 DEF TypedControl, Controls
    <3> HIDE DEF f, g
    <3> QED
      BY <3>2, <3>3
  <2> HIDE DEF op, x
  <2>7. Fine({}, WithControl(World, x))
    BY Zenon, <1>1, <2>2, <2>3, <2>5, <2>6, OperationGoesOn
  <2> QED
    BY <1>1, <2>2, <2>7, BecomeFine
<1>11. CASE OpCompleted
  <2> DEFINE o  == Head(ctl.done)
             op == ctl.ops[o]
             rest == Tail(ctl.done)
             w  == WithControl(World, [World.c EXCEPT !.ops[o] = NoOp, !.done = rest])
             y  == completed(w, o, op)
  <2>1. Alive /\ Room /\ ctl.done # <<>> /\ Become(y)
    <3>1. WithControl(World, [World.c EXCEPT !.ops[o] = NoOp, !.done = Tail(@)]) = w
      BY <1>1, <1>11 DEF OpCompleted
    <3> QED
      BY <1>11, <3>1 DEF OpCompleted
  <2>2. TypedControl(World.c) /\ ctl.done \in Seq(OpIds) /\ ctl.ops \in [OpIds -> Ops \cup {NoOp}]
    BY <1>1, <2>1, ControlIs DEF Core, TypedControl
  <2>3. o \in OpIds /\ rest \in Seq(OpIds)
    BY <2>1, <2>2
  <2>4. op \in Ops \cup {NoOp} /\ (op # NoOp => op \in Ops /\ RightOp(op))
    BY <1>1, <2>1, <2>2, <2>3 DEF TypedControl
  <2>5. op # NoOp => World.c.handle
    BY <1>1, <2>1, <2>3 DEF Steady, Waiting, Idle
  <2> HIDE DEF o, op, rest
  <2>6. Leads(World, w) /\ FreeIds(w) = FreeIds(World) /\ w.c.handle = World.c.handle
    <3>1. Core(World)
      BY <1>1, <2>1
    <3> QED
      BY Zenon, <2>3, <3>1, OperationGone
  <2> HIDE DEF w
  <2>7. Core(w) /\ Fine({}, w) /\ HasRoom(w) /\ FreeIds(w) # {}
    BY <1>1, <1>2, <2>1, <2>6 DEF Leads, Moves
  <2>8. op # NoOp => Fine({}, y)
    BY <2>4, <2>5, <2>6, <2>7, CompletedFine
  <2>9. op = NoOp => Fine({}, y)
    <3>1. op = NoOp => y = skipper_reset(w)
      BY DEF completed, NoOp
    <3>2. Leads(w, skipper_reset(w))
      BY <2>7, CancelAdjusts, AdjustedFine DEF Core
    <3> HIDE DEF y
    <3> QED
      BY <2>7, <3>1, <3>2 DEF Leads, Moves
  <2> QED
    BY <1>3, <2>1, <2>8, <2>9
<1>12. CASE CanceledOpLeaves
  <2>1. PICK st \in ctl.dead : ctl' = [World.c EXCEPT !.dead = @ \ {st}]
    BY <1>12 DEF CanceledOpLeaves
  <2> DEFINE dead == ctl.dead \ {st}
             c == [World.c EXCEPT !.dead = dead]
  <2>2. Alive /\ ctl' = c /\ data' = data /\ player' = player
    BY <1>1, <1>12, <2>1 DEF CanceledOpLeaves
  <2>3. dead \in SUBSET {"delayed", "running"}
    BY <1>1, <2>2, ControlIs DEF Core, TypedControl
  <2> HIDE DEF dead
  <2>4. TypedControl(c)
    BY Zenon, <1>1, <2>2, <2>3, FieldTyped DEF Core
  <2>5. /\ c.plugged = World.c.plugged /\ c.source = World.c.source /\ c.handle = World.c.handle
        /\ c.bugs = World.c.bugs /\ c.ops = World.c.ops
    BY <1>1, <2>2 DEF Core, TypedControl, Controls
  <2> HIDE DEF c
  <2>6. Adjusted(World, WithControl(World, c))
    BY <2>4, <2>5, AdjustBy
  <2>7. Fine({}, WithControl(World, c))
    BY <1>1, <2>2, <2>6, AdjustedFine DEF Leads, Moves
  <2> QED
    BY <1>1, <2>2, <2>7, BecomeFine
<1>13. CASE SourceSelected
  <2>1. /\ Alive /\ Room /\ ctl.plugged = "own" /\ ctl.source = "REQUESTED"
        /\ Become(source_selected(World, FALSE))
    BY <1>1, <1>13 DEF SourceSelected
  <2>2. own(World) /\ World.c.source = "REQUESTED" /\ DOMAIN World.d.streams = {}
    BY <1>1, <2>1 DEF own, Waiting
  <2>3. Fine({}, source_selected(World, FALSE))
    BY <1>1, <2>1, <2>2, SelectedFine
  <2> QED
    BY <1>3, <2>1, <2>3
<1>14. CASE FreshActivation
  <2>1. Alive /\ Room /\ ctl.plugged # "own" /\ Become(fresh_activation(World))
    BY <1>14 DEF FreshActivation
  <2>2. DOMAIN World.d.streams = {}
    BY <1>1, <2>1 DEF Waiting
  <2>3. Fine({}, fresh_activation(World))
    BY <1>1, <2>1, <2>2, ActivationFine
  <2> QED
    BY <1>3, <2>1, <2>3
<1>15. CASE SourceDeselected
  <2>1. Alive /\ Become(do_deselect(World, TRUE))
    BY <1>15 DEF SourceDeselected
  <2>2. Fine({}, do_deselect(World, TRUE))
    BY <1>1, <2>1, DeselectFine
  <2> QED
    BY <1>3, <2>1, <2>2
<1>16. CASE AudioPathChanged
  <2>1. Alive /\ \E who \in {"external", "none"} : Become(audio_path_changed(World, who))
    BY <1>16 DEF AudioPathChanged
  <2>2. PICK who \in {"external", "none"} : Become(audio_path_changed(World, who))
    BY <2>1
  <2>3. Fine({}, audio_path_changed(World, who))
    BY <1>1, <2>1, PathChangedFine
  <2> QED
    BY <1>3, <2>2, <2>3
<1>17. CASE ListLost
  <2>1. Alive /\ Become(unplug(World, FALSE))
    BY <1>17 DEF ListLost
  <2>2. Fine({}, unplug(World, FALSE))
    BY <1>1, <2>1, UnplugFine
  <2> QED
    BY <1>3, <2>1, <2>2
<1>18. CASE PlayerStep
  <2>1. Alive /\ data' = data /\ ctl' = World.c
    BY <1>18 DEF PlayerStep
  <2>2. Keeps(World.p, player')
    <3>1. World.p = player /\ World.p \in StreamPlayers /\ Settled(World.p)
      BY <1>1, <2>1 DEF Core
    <3>2. \/ CanAnnounce(player) /\ player' = Announce(player)
          \/ CanEnd(player) /\ player' = EndOfStream(player)
          \/ CanFail(player) /\ \E err \in {"io.net", "io.media"} : player' = Fail(player, err)
          \/ \E id \in Elements(player.queue) : player' = DropEarly(player, id)
      BY <1>18 DEF PlayerStep
    <3> QED
      BY <3>1, <3>2, PlayerKeeps
  <2>3. Fine({}, WithPlayer(World, player'))
    BY <1>1, <2>1, <2>2, PlayerFine DEF Leads, Moves
  <2> QED
    BY <1>1, <2>1, <2>3, BecomeFine
<1>19. CASE UNCHANGED vars
  <2>1. Fine({}, Now) /\ data' = Now.d /\ ctl' = Now.c /\ player' = Now.p
    BY <1>19 DEF vars, StreamsFine, Now
  <2> QED
    BY <2>1, BecomeFine
<1> QED
  BY <1>4, <1>5, <1>6, <1>7, <1>8, <1>9, <1>10, <1>11, <1>12, <1>13, <1>14,
     <1>15, <1>16, <1>17, <1>18, <1>19 DEF Next

(* The rest of the state has its type.                                     *)
RestOK ==
    /\ budget \in [commands : 0 .. MaxCommands, faults : 0 .. MaxFaults]
    /\ goal \in {"NOTHING", "LISTENING", "PAUSING", "STOPPING"}

\* Bounds are counted down, and the goal is what has been asked for.
LEMMA StepRest == RestOK /\ [Next]_vars => RestOK'
<1> SUFFICES ASSUME RestOK, [Next]_vars
             PROVE  RestOK'
  OBVIOUS
<1>1. MaxCommands \in Nat /\ MaxFaults \in Nat
  BY EnvironmentAssumption
<1>2. ASSUME NEW c, Command(c)
      PROVE  budget' \in [commands : 0 .. MaxCommands, faults : 0 .. MaxFaults]
  BY <1>1, <1>2 DEF Command, RestOK
<1>3. ASSUME NEW f, Faulty(f)
      PROVE  budget' \in [commands : 0 .. MaxCommands, faults : 0 .. MaxFaults]
  BY <1>1, <1>3 DEF Faulty, RestOK
<1>4. ASSUME NEW i \in {"LISTENING", "PAUSING", "STOPPING"}, Wanted(i)
      PROVE  goal' \in {"NOTHING", "LISTENING", "PAUSING", "STOPPING"}
  BY <1>4 DEF Wanted, RestOK
<1>5. ASSUME NEW pos \in Positions, Play(pos)
      PROVE  RestOK'
  BY <1>2, <1>4, <1>5 DEF Play, RestOK
<1>6. CASE StartCommand \/ StopCommand \/ PauseCommand
  BY <1>2, <1>4, <1>6 DEF StartCommand, StopCommand, PauseCommand, RestOK
<1>7. CASE NextCommand \/ PreviousCommand \/ WindCommand
  BY <1>2, <1>7 DEF NextCommand, PreviousCommand, WindCommand, RestOK
<1>8. CASE Deliver \/ OpCompleted \/ CanceledOpLeaves \/ SourceSelected \/ UNCHANGED vars
  BY Zenon, <1>8 DEF Deliver, OpCompleted, CanceledOpLeaves, SourceSelected, vars, RestOK
<1>9. ASSUME NEW o \in OpIds, OpStart(o) \/ OpFinish(o)
      PROVE  RestOK'
  BY Zenon, <1>3, <1>9 DEF OpStart, OpFinish, RestOK
<1>10. CASE FreshActivation \/ SourceDeselected \/ AudioPathChanged \/ ListLost
  BY <1>3, <1>10 DEF FreshActivation, SourceDeselected, AudioPathChanged, ListLost, RestOK
<1>11. CASE PlayerStep
  BY <1>3, <1>11 DEF PlayerStep, RestOK
<1> QED
  BY <1>5, <1>6, <1>7, <1>8, <1>9, <1>10, <1>11 DEF Next

(* Nothing is played in the beginning.                                     *)
LEMMA InitFine == Init => StreamsFine /\ RestOK
<1> SUFFICES ASSUME Init
             PROVE  StreamsFine /\ RestOK
  OBVIOUS
<1>1. Now.d = IdleData /\ Now.c = IdleControl /\ Now.p = IdlePlayer
  BY DEF Init, Now
<1>2. Sound(IdleData) /\ DOMAIN IdleData.streams = {} /\ IdleData.now = None /\ IdleData.queue = <<>>
  <2>1. [i \in {} |-> None] \in StreamTables /\ DOMAIN [i \in {} |-> None] = {}
    BY TableIs
  <2>2. RestTyped(IdleData)
    BY <2>1 DEF RestTyped, IdleData, Intentions, PlayerStates, AnyStream
  <2>3. Sane(Before, data.queue, data) /\ data = IdleData
    BY InitSane DEF SaneMirror, Init
  <2>4. Sane(AnyStream, IdleData.queue, IdleData)
    BY <2>3, InOrderReflexive DEF Sane, AnyStream
  <2> QED
    BY <2>1, <2>2, <2>4, SoundIs DEF IdleData
<1>3. TypedControl(IdleControl) /\ IdleControl.bugs = {} /\ IdleControl.plugged = "none"
  <2>1. [m \in Marks |-> None] \in [Marks -> Positions \cup {None}] /\ <<>> \in Seq(OpIds)
        /\ [o \in OpIds |-> NoOp] \in [OpIds -> Ops \cup {NoOp}] /\ 0 \in 0 .. MAX_RETRIES
    BY DEF MAX_RETRIES
  <2>2. IdleControl \in Controls
    BY <2>1 DEF IdleControl, Controls
  <2> QED
    BY <2>2 DEF TypedControl, IdleControl
<1>4. IdlePlayer \in StreamPlayers /\ Settled(IdlePlayer)
  BY DEF IdlePlayer, StreamPlayers, PlayerStates, Settled
<1>5. Core(Now)
  <2>1. Elements(<<>>) = {}
    BY DEF Elements
  <2> QED
    BY <1>1, <1>2, <1>3, <1>4, <2>1 DEF Core
<1>6. StreamsFine
  BY <1>1, <1>3, <1>5, EmptyFine DEF StreamsFine, has_proxy, own
<1>7. RestOK
  BY EnvironmentAssumption DEF Init, RestOK
<1> QED
  BY <1>6, <1>7

(* As long as our source is not put on hold while it is selected, the      *)
(* streams in the mirror are accounted for: while our source is selected,  *)
(* the player has each one that is queued, or has told what became of it;  *)
(* none is pushed that has been sent before, unless it is to be recovered; *)
(* without an intention there are no streams; and no list outlives them.   *)
THEOREM StreamsAreAccounted ==
    ASSUME "hold" \notin Faults
    PROVE  Spec => []StreamsAccounted
<1>1. Init => SaneMirror /\ ControlSteady /\ StreamsFine /\ RestOK
  BY InitSane, InitSteady, InitFine
<1>2. SaneMirror /\ ControlSteady /\ StreamsFine /\ RestOK /\ [Next]_vars
          => SaneMirror' /\ ControlSteady' /\ StreamsFine' /\ RestOK'
  BY StepSane, StepKeeps, StepSteady, StepFine, StepRest
<1>3. SaneMirror /\ StreamsFine /\ RestOK => StreamsAccounted
  <2> SUFFICES ASSUME SaneMirror, StreamsFine, RestOK
               PROVE  StreamsAccounted
    OBVIOUS
  <2>1. Fine({}, Now) /\ Core(Now) /\ Now.d = data /\ Now.c = ctl /\ Now.p = player
    BY DEF StreamsFine, Fine, Now
  <2>2. TypeOK
    BY <2>1 DEF Core, Sound, TypedControl, RestOK, TypeOK
  <2>3. NoPhantoms
    <3>1. has_proxy(World) => has_proxy(Now)
      <4>1. ctl \in Controls
        BY <2>1 DEF Core, TypedControl
      <4> QED
        BY <2>1, <4>1 DEF has_proxy, own, World, Controls
    <3>2. Told(player.sig) \subseteq SignalIds(player)
      BY DEF Told, ToldBy, SignalIds, Elements
    <3>3. has_proxy(Now) => Elements(data.queue) \subseteq Known(player)
      BY <2>1 DEF Fine, Tracks
    <3> QED
      BY <3>1, <3>2, <3>3 DEF Known, OnlyId, NoPhantoms
  <2>4. NoStreamsWithoutIntention
    BY <2>1 DEF Core, NoStreamsWithoutIntention
  <2>5. NoListLeak
    BY DEF SaneMirror, Sane, NoListLeak
  <2>6. "assertion: stream has been sent" \notin ctl.bugs
    BY Zenon, <2>1 DEF Core, Sent
  <2> QED
    BY Zenon, <2>2, <2>3, <2>4, <2>5, <2>6 DEF StreamsAccounted
<1> QED
  BY <1>1, <1>2, <1>3, PTL DEF Spec
=============================================================================
