----------------------------- MODULE Views_proofs -----------------------------
(***************************************************************************)
(* Theorems about the view manager and the views it shows: the protocol    *)
(* between browsers and the search view holds together, and all there is   *)
(* to show gets to the display.  This is for any number of browsers,       *)
(* errors and texts, for queues of any length, with dcpd refusing what it  *)
(* wants, and with the two threads between two locks or not.               *)
(***************************************************************************)
EXTENDS Views, TLAPS


(***************************************************************************)
(* The inductive invariant                                                 *)
(***************************************************************************)
Written == AllViews \ {"inactive"}
Entries == [view: Written, full: BOOLEAN, flags: SUBSET Lines]

\* Views have one entry each.
Distinct(q) == \A i, j \in DOMAIN q : q[i].view = q[j].view => i = j
\* A view is in the queue; in full; with a line.
InQueue(q, v) == \E i \in DOMAIN q : q[i].view = v
FullInQueue(q, v) == \E i \in DOMAIN q : q[i].view = v /\ q[i].full
LineInQueue(q, l) == \E i \in DOMAIN q : q[i].view = "rest" /\ (q[i].full \/ l \in q[i].flags)

(* What the transaction carries fits what the main thread does with it.    *)
EntryOK ==
    /\ queue \in Seq(Entries) /\ Distinct(queue)
    /\ tx = "writing" <=> main \in {"write", "dead"}
    /\ main = "write" => entry \in Entries
    /\ tx = "answer" =>
         /\ entry.view \in Written /\ entry.full \in BOOLEAN
         /\ entry.view = "rest" => /\ DOMAIN entry.text \subseteq Lines
                                   /\ \A l \in DOMAIN entry.text : entry.text[l] \in Shown
         /\ entry.view \in Targets \ {"rest"} => DOMAIN entry.text = {}

ErrorsOK ==
    /\ errors \in Seq(Errors) /\ ErrorsAccounted
    /\ main = "write" /\ entry.view = "errors" => ~InQueue(queue, "errors")

(* The view the display will show if nothing else is written, and a line.  *)
ViewToShow ==
    IF tx = "answer" /\ entry.full /\ entry.view \in Targets THEN entry.view ELSE shown
LineToShow(l) ==
    IF tx = "answer" /\ entry.view = "rest" /\ (entry.full \/ shown = "rest")
    THEN IF l \in DOMAIN entry.text THEN entry.text[l] ELSE IF entry.full THEN Empty ELSE display[l]
    ELSE display[l]

ViewComes ==
    active # "inactive" /\ ~failed =>
        \/ FullInQueue(queue, active)
        \/ main = "write" /\ entry.view = active /\ entry.full
        \/ ViewToShow \in {active, "player"}
        \/ active \in dropped

(* The full text of the REST view on its way counts whatever was refused. *)
LinesCount ==
    ~failed \/ (tx = "answer" /\ entry.view = "rest" /\ entry.full)
LineComes(l) ==
    \/ lines[l] = Empty \/ l \in flags
    \/ LineInQueue(queue, l)
    \/ main = "write" /\ entry.view = "rest" /\ (entry.full \/ l \in entry.flags)
    \/ ViewToShow = "rest" => LineToShow(l) = lines[l]
LinesCome ==
    active = "rest" /\ LinesCount => \A l \in Lines : LineComes(l)

\* What asking for views leaves alone has its types.
OthersOK ==
    /\ return_to \in Browsers \cup {"rest", None}
    /\ waiting \subseteq Browsers
    /\ {request_view, context, query} \subseteq Browsers \cup {None}
    /\ errors \in Seq(Errors)
    /\ lines \in [Lines -> Texts \cup {Empty}]
    /\ dbus \in {"rest", "start"}
    /\ entering \subseteq Browsers /\ dropped \subseteq Browsers

IInv == TypeOK /\ SearchRequestIsOwned /\ EntryOK /\ ErrorsOK /\ ViewComes /\ LinesCome

(***************************************************************************)
(* The queue                                                               *)
(***************************************************************************)
(* A view asked to be written has one entry, which has what it had before  *)
(* and what is new.                                                        *)
LEMMA AddedIs ==
    ASSUME NEW q \in Seq(Entries), Distinct(q),
           NEW v \in Written, NEW full \in BOOLEAN, NEW fl \in SUBSET Lines
    PROVE  /\ Added(q, v, full, fl) \in Seq(Entries) /\ Distinct(Added(q, v, full, fl))
           /\ \A w : InQueue(Added(q, v, full, fl), w) <=> InQueue(q, w) \/ w = v
           /\ \A w : FullInQueue(Added(q, v, full, fl), w) <=> FullInQueue(q, w) \/ (w = v /\ full)
           /\ \A l : LineInQueue(Added(q, v, full, fl), l)
                     <=> LineInQueue(q, l) \/ (v = "rest" /\ (full \/ l \in fl))
<1> DEFINE k == SelectInSeq(q, LAMBDA e : e.view = v)
           r == Added(q, v, full, fl)
           e == EntryOf(v, full, fl)
<1>1. DOMAIN q = 1 .. Len(q) /\ Len(q) \in Nat /\ \A i \in DOMAIN q : q[i] \in Entries
  OBVIOUS
<1>2. CASE ~InQueue(q, v)
  <2>1. k = 0
    BY <1>1, <1>2 DEF SelectInSeq, InQueue
  <2>2. r = Append(q, e)
    BY <2>1 DEF Added
  <2>3. e \in Entries /\ e.view = v /\ e.full = full /\ e.flags = fl
    BY DEF EntryOf, Entries
  <2> HIDE DEF e, r
  <2>4. /\ r \in Seq(Entries) /\ DOMAIN r = 1 .. Len(q) + 1 /\ r[Len(q) + 1] = e
        /\ \A i \in DOMAIN q : r[i] = q[i]
    BY <2>2, <2>3
  <2>5. /\ Len(q) + 1 \in DOMAIN r /\ Len(q) + 1 \notin DOMAIN q
        /\ \A i \in DOMAIN r : i = Len(q) + 1 \/ i \in DOMAIN q
        /\ \A i \in DOMAIN q : i \in DOMAIN r
    BY <1>1, <2>4
  <2>6. Distinct(r)
    BY <1>2, <2>3, <2>4, <2>5 DEF Distinct, InQueue
  <2>7. \A w : InQueue(r, w) <=> InQueue(q, w) \/ w = v
    BY <2>3, <2>4, <2>5 DEF InQueue
  <2>8. \A w : FullInQueue(r, w) <=> FullInQueue(q, w) \/ (w = v /\ full)
    BY <2>3, <2>4, <2>5 DEF FullInQueue
  <2>9. \A l : LineInQueue(r, l) <=> LineInQueue(q, l) \/ (v = "rest" /\ (full \/ l \in fl))
    BY <2>3, <2>4, <2>5 DEF LineInQueue
  <2> QED
    BY <2>4, <2>6, <2>7, <2>8, <2>9 DEF r
<1>3. CASE InQueue(q, v)
  <2>1. PICK j \in DOMAIN q : q[j].view = v
    BY <1>3 DEF InQueue
  <2>2. {i \in 1 .. Len(q) : q[i].view = v} = {j}
    BY <1>1, <2>1 DEF Distinct
  <2>3. k = j
    <3>1. Min({j}) = j
      BY <1>1, <2>1 DEF Min
    <3> QED
      BY <2>2, <3>1 DEF SelectInSeq
  <2>4. r = [q EXCEPT ![j].full = @ \/ full, ![j].flags = @ \cup fl]
    <3>1. k # 0
      BY <1>1, <2>3
    <3>2. r = [q EXCEPT ![k].full = @ \/ full, ![k].flags = @ \cup fl]
      BY <3>1 DEF Added
    <3> HIDE DEF k, r
    <3> QED
      BY <2>3, <3>2
  <2> HIDE DEF r
  <2>5. q[j] \in Entries
    BY <1>1
  <2>6. /\ DOMAIN r = DOMAIN q /\ \A i \in DOMAIN q \ {j} : r[i] = q[i]
        /\ r[j] = [q[j] EXCEPT !.full = @ \/ full, !.flags = @ \cup fl]
    BY <2>4
  <2>7. /\ r[j] \in Entries /\ r[j].view = v /\ r[j].full = (q[j].full \/ full)
        /\ r[j].flags = q[j].flags \cup fl
    BY <2>1, <2>5, <2>6 DEF Entries
  <2>8. r \in Seq(Entries)
    <3>1. \A i \in 1 .. Len(q) : r[i] \in Entries
      BY <1>1, <2>6, <2>7
    <3>2. r = [i \in 1 .. Len(q) |-> r[i]]
      BY <1>1, <2>4
    <3> QED
      BY <1>1, <3>1, <3>2
  <2>9. Distinct(r)
    <3>1. \A i \in DOMAIN q : r[i].view = q[i].view
      BY <2>1, <2>6, <2>7
    <3> QED
      BY <2>6, <3>1 DEF Distinct
  <2>10. \A w : InQueue(r, w) <=> InQueue(q, w) \/ w = v
    BY <2>1, <2>6, <2>7 DEF InQueue
  <2>11. \A w : FullInQueue(r, w) <=> FullInQueue(q, w) \/ (w = v /\ full)
    BY <2>1, <2>6, <2>7 DEF FullInQueue
  <2>12. \A l : LineInQueue(r, l) <=> LineInQueue(q, l) \/ (v = "rest" /\ (full \/ l \in fl))
    <3>1. /\ DOMAIN r = DOMAIN q /\ \A i \in DOMAIN q : i # j => r[i] = q[i]
          /\ r[j].view = v /\ q[j].view = v
          /\ r[j].full <=> q[j].full \/ full
          /\ \A l : l \in r[j].flags <=> l \in q[j].flags \/ l \in fl
      BY <2>1, <2>6, <2>7
    <3>4. ASSUME NEW l, LineInQueue(r, l)
          PROVE  LineInQueue(q, l) \/ (v = "rest" /\ (full \/ l \in fl))
      <4>1. PICK i \in DOMAIN q : r[i].view = "rest" /\ (r[i].full \/ l \in r[i].flags)
        BY <3>1, <3>4 DEF LineInQueue
      <4>2. CASE i = j
        BY <3>1, <4>1, <4>2 DEF LineInQueue
      <4>3. CASE i # j
        BY <3>1, <4>1, <4>3 DEF LineInQueue
      <4> QED
        BY <4>2, <4>3
    <3>5. ASSUME NEW l, LineInQueue(q, l)
          PROVE  LineInQueue(r, l)
      <4>1. PICK i \in DOMAIN q : q[i].view = "rest" /\ (q[i].full \/ l \in q[i].flags)
        BY <3>5 DEF LineInQueue
      <4>2. r[i].view = "rest" /\ (r[i].full \/ l \in r[i].flags)
        BY <3>1, <4>1
      <4> QED
        BY <3>1, <4>2 DEF LineInQueue
    <3>6. ASSUME NEW l, v = "rest" /\ (full \/ l \in fl)
          PROVE  LineInQueue(r, l)
      <4>1. r[j].view = "rest" /\ (r[j].full \/ l \in r[j].flags)
        BY <3>1, <3>6
      <4> QED
        BY <3>1, <4>1 DEF LineInQueue
    <3> QED
      BY <3>4, <3>5, <3>6
  <2> QED
    BY <2>8, <2>9, <2>10, <2>11, <2>12 DEF r
<1> QED
  BY <1>2, <1>3

(* The error view is asked for.                                            *)
LEMMA ErrorAdded ==
    ASSUME NEW q \in Seq(Entries), Distinct(q)
    PROVE  LET r == Added(q, "errors", TRUE, {})
           IN  /\ r \in Seq(Entries) /\ Distinct(r)
               /\ \A w : InQueue(r, w) <=> InQueue(q, w) \/ w = "errors"
               /\ \A w : FullInQueue(q, w) => FullInQueue(r, w)
               /\ \A l : LineInQueue(q, l) => LineInQueue(r, l)
<1> DEFINE full == TRUE
           fl == {}
           r == Added(q, "errors", full, fl)
<1>1. full \in BOOLEAN /\ fl \in SUBSET Lines /\ "errors" \in Written
  BY ViewsAssumption DEF Written, AllViews, Targets
<1> HIDE DEF full, fl
<1>2. /\ r \in Seq(Entries) /\ Distinct(r)
      /\ \A w : InQueue(r, w) <=> InQueue(q, w) \/ w = "errors"
      /\ \A w : FullInQueue(r, w) <=> FullInQueue(q, w) \/ (w = "errors" /\ full)
      /\ \A l : LineInQueue(r, l) <=> LineInQueue(q, l) \/ ("errors" = "rest" /\ (full \/ l \in fl))
  BY <1>1, AddedIs
<1> HIDE DEF r
<1>3. /\ r \in Seq(Entries) /\ Distinct(r)
      /\ \A w : InQueue(r, w) <=> InQueue(q, w) \/ w = "errors"
      /\ \A w : FullInQueue(q, w) => FullInQueue(r, w)
      /\ \A l : LineInQueue(q, l) => LineInQueue(r, l)
  BY <1>2
<1> QED
  BY <1>3 DEF r, full, fl

(* The entry taken from the queue is the only one of its view.             *)
LEMMA TailIs ==
    ASSUME NEW q \in Seq(Entries), Distinct(q), q # <<>>
    PROVE  /\ Tail(q) \in Seq(Entries) /\ Distinct(Tail(q)) /\ Head(q) \in Entries
           /\ ~InQueue(Tail(q), Head(q).view)
           /\ \A w : InQueue(q, w) <=> InQueue(Tail(q), w) \/ Head(q).view = w
           /\ \A w : FullInQueue(q, w) <=> FullInQueue(Tail(q), w) \/ (Head(q).view = w /\ Head(q).full)
           /\ \A l : LineInQueue(q, l)
                     <=> \/ LineInQueue(Tail(q), l)
                         \/ Head(q).view = "rest" /\ (Head(q).full \/ l \in Head(q).flags)
<1> DEFINE r == Tail(q)
           h == Head(q)
<1>1. /\ r \in Seq(Entries) /\ DOMAIN r = 1 .. Len(q) - 1 /\ DOMAIN q = 1 .. Len(q) /\ Len(q) \in Nat \ {0}
      /\ \A i \in 1 .. Len(q) - 1 : r[i] = q[i + 1]
      /\ h = q[1] /\ h \in Entries
  OBVIOUS
<1> HIDE DEF r, h
<1>2. 1 \in DOMAIN q /\ \A i \in DOMAIN r : i + 1 \in DOMAIN q /\ i + 1 # 1 /\ r[i] = q[i + 1]
  BY <1>1
<1>3. \A j \in DOMAIN q : j = 1 \/ (j - 1 \in DOMAIN r /\ r[j - 1] = q[j])
  BY <1>1
<1>4. Distinct(r)
  <2> SUFFICES ASSUME NEW i \in DOMAIN r, NEW j \in DOMAIN r, r[i].view = r[j].view
               PROVE  i = j
    BY DEF Distinct
  <2>1. i + 1 = j + 1
    BY <1>2 DEF Distinct
  <2> QED
    BY <1>1, <2>1
<1>5. ~InQueue(r, h.view)
  BY <1>1, <1>2 DEF Distinct, InQueue
<1>6. \A w : InQueue(q, w) <=> InQueue(r, w) \/ h.view = w
  BY <1>1, <1>2, <1>3 DEF InQueue
<1>7. \A w : FullInQueue(q, w) <=> FullInQueue(r, w) \/ (h.view = w /\ h.full)
  BY <1>1, <1>2, <1>3 DEF FullInQueue
<1>8. \A l : LineInQueue(q, l) <=> LineInQueue(r, l) \/ (h.view = "rest" /\ (h.full \/ l \in h.flags))
  BY <1>1, <1>2, <1>3 DEF LineInQueue
<1> QED
  BY <1>1, <1>4, <1>5, <1>6, <1>7, <1>8 DEF r, h

(* What views may be asked for in one step, and which are.                 *)
Todos == {<<>>} \cup {<<t>> : t \in AllViews \X BOOLEAN}
         \cup {<<s, t>> : s \in AllViews \X BOOLEAN, t \in AllViews \X BOOLEAN}
Asked(todo) == {todo[i] : i \in DOMAIN todo}
Full(todo, v) == <<v, TRUE>> \in Asked(todo)
Asks(todo, v) == \E b \in BOOLEAN : <<v, b>> \in Asked(todo)

(* One view is asked for.                                                  *)
LEMMA AskedForIs ==
    ASSUME NEW q \in Seq(Entries), Distinct(q), NEW t \in AllViews \X BOOLEAN, NEW ctx, NEW fl \in SUBSET Lines
    PROVE  LET r == AskedFor(q, t, ctx, fl)
           IN  /\ r \in Seq(Entries) /\ Distinct(r)
               /\ \A w : InQueue(r, w) <=> InQueue(q, w) \/ (t[1] = w /\ IsSerialized(w, ctx))
               /\ \A w : FullInQueue(r, w)
                         <=> FullInQueue(q, w) \/ (t[1] = w /\ t[2] /\ IsSerialized(w, ctx))
               /\ \A l \in Lines : LineInQueue(r, l)
                         <=> LineInQueue(q, l) \/ (t[1] = "rest" /\ (t[2] \/ l \in fl))
<1> DEFINE v == t[1]
           full == t[2]
           r == AskedFor(q, t, ctx, fl)
<1>1. v \in AllViews /\ full \in BOOLEAN
  OBVIOUS
<1>2. IsSerialized("rest", ctx)
  BY DEF IsSerialized
<1>3. CASE IsSerialized(v, ctx)
  <2>1. v \in Written
    BY <1>1, <1>3 DEF IsSerialized, Written
  <2> DEFINE f == FlagsOf(v, fl)
  <2>2. f \in SUBSET Lines /\ (v = "rest" => f = fl)
    BY DEF FlagsOf
  <2>3. r = Added(q, v, full, f)
    BY <1>3 DEF AskedFor
  <2> HIDE DEF r, v, full, f
  <2>4. /\ r \in Seq(Entries) /\ Distinct(r)
        /\ \A w : InQueue(r, w) <=> InQueue(q, w) \/ w = v
        /\ \A w : FullInQueue(r, w) <=> FullInQueue(q, w) \/ (w = v /\ full)
        /\ \A l : LineInQueue(r, l) <=> LineInQueue(q, l) \/ (v = "rest" /\ (full \/ l \in f))
    BY <1>1, <2>1, <2>2, <2>3, AddedIs
  <2> QED
    BY <1>3, <2>2, <2>4 DEF v, full, r
<1>4. CASE ~IsSerialized(v, ctx)
  BY <1>2, <1>4 DEF AskedFor
<1> QED
  BY <1>3, <1>4

(* A view asked for in full.                                               *)
LEMMA PairIs ==
    ASSUME NEW p \in AllViews \X BOOLEAN
    PROVE  \A w : <<w, TRUE>> = p <=> p[1] = w /\ p[2]
<1>1. PICK a \in AllViews, b \in BOOLEAN : p = <<a, b>>
  OBVIOUS
<1>2. p[1] = a /\ (p[2] <=> b)
  BY <1>1
<1>3. CASE b = TRUE
  BY <1>1, <1>2, <1>3
<1>4. CASE b = FALSE
  BY <1>1, <1>2, <1>4
<1> QED
  BY <1>3, <1>4

(* The views asked for are in the queue, those that can be written.        *)
LEMMA SerializedIs ==
    ASSUME NEW q \in Seq(Entries), Distinct(q), NEW todo \in Todos, NEW ctx, NEW fl \in SUBSET Lines
    PROVE  LET r == Serialized(q, todo, ctx, fl)
           IN  /\ r \in Seq(Entries) /\ Distinct(r)
               /\ \A w : InQueue(r, w) <=> InQueue(q, w) \/ (Asks(todo, w) /\ IsSerialized(w, ctx))
               /\ \A w : FullInQueue(r, w)
                         <=> FullInQueue(q, w) \/ (Full(todo, w) /\ IsSerialized(w, ctx))
               /\ \A l \in Lines : LineInQueue(r, l)
                         <=> LineInQueue(q, l) \/ Full(todo, "rest") \/ (Asks(todo, "rest") /\ l \in fl)
<1> DEFINE r == Serialized(q, todo, ctx, fl)
<1>1. CASE todo = <<>>
  <2>1. r = q
    BY <1>1 DEF Serialized
  <2>2. \A w : ~Asks(todo, w) /\ ~Full(todo, w)
    BY <1>1 DEF Asks, Full, Asked
  <2> QED
    BY <2>1, <2>2
<1>2. ASSUME NEW t \in AllViews \X BOOLEAN, todo = <<t>>
      PROVE  /\ r = AskedFor(q, t, ctx, fl)
             /\ \A w : Asks(todo, w) <=> t[1] = w
             /\ \A w : Full(todo, w) <=> t[1] = w /\ t[2]
  <2>1. Len(todo) = 1 /\ todo[1] = t
    BY <1>2
  <2>2. Asked(todo) = {t}
    BY <1>2 DEF Asked
  <2>3. t = <<t[1], t[2]>> /\ t[2] \in BOOLEAN
    OBVIOUS
  <2>4. r = AskedFor(q, t, ctx, fl)
    BY <2>1 DEF Serialized
  <2>5. \A w : Asks(todo, w) <=> t[1] = w
    BY <2>2, <2>3 DEF Asks
  <2>6. \A w : Full(todo, w) <=> t[1] = w /\ t[2]
    <3>1. \A w : Full(todo, w) <=> <<w, TRUE>> = t
      BY <2>2 DEF Full
    <3> QED
      BY <3>1, PairIs
  <2> QED
    BY <2>4, <2>5, <2>6
<1>3. ASSUME NEW s \in AllViews \X BOOLEAN, NEW t \in AllViews \X BOOLEAN, todo = <<s, t>>
      PROVE  /\ r = AskedFor(AskedFor(q, s, ctx, fl), t, ctx, fl)
             /\ \A w : Asks(todo, w) <=> s[1] = w \/ t[1] = w
             /\ \A w : Full(todo, w) <=> (s[1] = w /\ s[2]) \/ (t[1] = w /\ t[2])
  <2>1. Len(todo) = 2 /\ todo[1] = s /\ todo[2] = t
    BY <1>3
  <2>2. Asked(todo) = {s, t}
    BY <1>3 DEF Asked
  <2>3. t = <<t[1], t[2]>> /\ t[2] \in BOOLEAN /\ s = <<s[1], s[2]>> /\ s[2] \in BOOLEAN
    OBVIOUS
  <2>4. r = AskedFor(AskedFor(q, s, ctx, fl), t, ctx, fl)
    BY <2>1 DEF Serialized
  <2>5. \A w : Asks(todo, w) <=> s[1] = w \/ t[1] = w
    BY <2>2, <2>3 DEF Asks
  <2>6. \A w : Full(todo, w) <=> (s[1] = w /\ s[2]) \/ (t[1] = w /\ t[2])
    <3>1. \A w : Full(todo, w) <=> <<w, TRUE>> = s \/ <<w, TRUE>> = t
      BY <2>2 DEF Full
    <3> QED
      BY <3>1, PairIs
  <2> QED
    BY <2>4, <2>5, <2>6
<1> HIDE DEF r
<1>4. CASE \E t \in AllViews \X BOOLEAN : todo = <<t>>
  <2>1. PICK t \in AllViews \X BOOLEAN : todo = <<t>>
    BY <1>4
  <2> DEFINE a == t[1]
             b == t[2]
  <2>2. /\ r \in Seq(Entries) /\ Distinct(r)
        /\ \A w : InQueue(r, w) <=> InQueue(q, w) \/ (a = w /\ IsSerialized(w, ctx))
        /\ \A w : FullInQueue(r, w) <=> FullInQueue(q, w) \/ (a = w /\ b /\ IsSerialized(w, ctx))
        /\ \A l \in Lines : LineInQueue(r, l) <=> LineInQueue(q, l) \/ (a = "rest" /\ (b \/ l \in fl))
    BY <1>2, <2>1, AskedForIs
  <2>3. \A w : (Asks(todo, w) <=> a = w) /\ (Full(todo, w) <=> a = w /\ b)
    BY <1>2, <2>1
  <2> HIDE DEF a, b
  <2> QED
    BY <2>2, <2>3 DEF r
<1>5. CASE \E s, t \in AllViews \X BOOLEAN : todo = <<s, t>>
  <2>1. PICK s \in AllViews \X BOOLEAN, t \in AllViews \X BOOLEAN : todo = <<s, t>>
    BY <1>5
  <2> DEFINE m == AskedFor(q, s, ctx, fl)
             a == s[1]
             b == s[2]
             c == t[1]
             d == t[2]
  <2>2. r = AskedFor(m, t, ctx, fl)
    BY <1>3, <2>1
  <2>3. \A w : (Asks(todo, w) <=> a = w \/ c = w) /\ (Full(todo, w) <=> (a = w /\ b) \/ (c = w /\ d))
    BY <1>3, <2>1
  <2>4. /\ m \in Seq(Entries) /\ Distinct(m)
        /\ \A w : InQueue(m, w) <=> InQueue(q, w) \/ (a = w /\ IsSerialized(w, ctx))
        /\ \A w : FullInQueue(m, w) <=> FullInQueue(q, w) \/ (a = w /\ b /\ IsSerialized(w, ctx))
        /\ \A l \in Lines : LineInQueue(m, l) <=> LineInQueue(q, l) \/ (a = "rest" /\ (b \/ l \in fl))
    BY AskedForIs
  <2> HIDE DEF m
  <2>5. /\ r \in Seq(Entries) /\ Distinct(r)
        /\ \A w : InQueue(r, w) <=> InQueue(m, w) \/ (c = w /\ IsSerialized(w, ctx))
        /\ \A w : FullInQueue(r, w) <=> FullInQueue(m, w) \/ (c = w /\ d /\ IsSerialized(w, ctx))
        /\ \A l \in Lines : LineInQueue(r, l) <=> LineInQueue(m, l) \/ (c = "rest" /\ (d \/ l \in fl))
    BY <2>2, <2>4, AskedForIs
  <2> HIDE DEF a, b, c, d
  <2>6. \A w : InQueue(r, w) <=> InQueue(q, w) \/ (Asks(todo, w) /\ IsSerialized(w, ctx))
    BY <2>3, <2>4, <2>5
  <2>7. \A w : FullInQueue(r, w) <=> FullInQueue(q, w) \/ (Full(todo, w) /\ IsSerialized(w, ctx))
    BY <2>3, <2>4, <2>5
  <2>8. \A l \in Lines : LineInQueue(r, l)
            <=> LineInQueue(q, l) \/ Full(todo, "rest") \/ (Asks(todo, "rest") /\ l \in fl)
    BY <2>3, <2>4, <2>5
  <2> QED
    BY <2>5, <2>6, <2>7, <2>8 DEF r
<1> QED
  BY <1>1, <1>4, <1>5 DEF Todos

(* What is known of the views by their names.                              *)
LEMMA Names ==
    /\ Browsers \subseteq Targets /\ Targets \subseteq AllViews
    /\ "search" \notin Targets /\ "errors" \notin Targets
    /\ "rest" \in Targets /\ "player" \in Targets /\ "inactive" \in Targets
    /\ "rest" \notin Browsers /\ "player" \notin Browsers /\ "inactive" \notin Browsers
    /\ "errors" \in Written /\ "rest" \in Written /\ "search" \in Written
    /\ None \notin AllViews
  BY ViewsAssumption DEF Targets, AllViews, Written

(* Views are asked for while the main thread is at rest: the view which is *)
(* active from then on in full, if it has not been before, and whoever has *)
(* something new to show.                                                  *)
LEMMA AskKeeps ==
    ASSUME IInv, main = "rest", NEW todo \in Todos, NEW ctx, NEW fl \in SUBSET Lines,
           flags \subseteq fl,
           queue' = Serialized(queue, todo, ctx, fl), flags' = FlagsLeft(todo, fl),
           main' \in {"rest", "enter"}, tx' = tx \/ (tx = "idle" /\ tx' = "async"),
           UNCHANGED <<entry, shown, display, failed>>,
           \A b \in dropped \ dropped' : b = active => Full(todo, b),
           active' \in Targets, active' = active \/ active' = "inactive" \/ Full(todo, active'),
           \A l \in Lines : lines'[l] = lines[l] \/ l \in fl,
           errors' # <<>> <=> errors # <<>> \/ Asks(todo, "errors"),
           OthersOK', SearchRequestIsOwned'
    PROVE  IInv'
<1>1. /\ queue' \in Seq(Entries) /\ Distinct(queue')
      /\ \A w : InQueue(queue', w) <=> InQueue(queue, w) \/ (Asks(todo, w) /\ IsSerialized(w, ctx))
      /\ \A w : FullInQueue(queue', w)
                <=> FullInQueue(queue, w) \/ (Full(todo, w) /\ IsSerialized(w, ctx))
      /\ \A l \in Lines : LineInQueue(queue', l)
                <=> LineInQueue(queue, l) \/ Full(todo, "rest") \/ (Asks(todo, "rest") /\ l \in fl)
  BY SerializedIs DEF IInv, EntryOK
<1>2. \A l \in fl : l \in flags' \/ Asks(todo, "rest")
  <2>1. CASE \E i \in DOMAIN todo : todo[i][1] = "rest"
    <3>1. PICK i \in DOMAIN todo : todo[i][1] = "rest"
      BY <2>1
    <3>2. todo[i] \in AllViews \X BOOLEAN
      BY DEF Todos
    <3>3. todo[i] = <<"rest", todo[i][2]>> /\ todo[i][2] \in BOOLEAN
      BY <3>1, <3>2
    <3> QED
      BY <3>3 DEF Asks, Asked
  <2>2. CASE ~\E i \in DOMAIN todo : todo[i][1] = "rest"
    BY <2>2 DEF FlagsLeft
  <2> QED
    BY <2>1, <2>2
<1>3. /\ tx # "writing" /\ tx' # "writing" /\ (tx' = "answer" <=> tx = "answer") /\ main' # "write"
      /\ main' # "dead"
  BY DEF IInv, EntryOK
<1>4. EntryOK'
  BY <1>1, <1>3 DEF IInv, EntryOK
<1>5. ErrorsOK'
  <2>1. IsSerialized("errors", ctx)
    BY DEF IsSerialized
  <2>2. errors' # <<>> <=> InQueue(queue', "errors")
    BY <1>1, <2>1 DEF IInv, ErrorsOK, ErrorsAccounted, InQueue
  <2> QED
    BY <1>3, <2>2 DEF ErrorsOK, ErrorsAccounted, InQueue, OthersOK
<1>6. ViewToShow' = ViewToShow /\ \A l \in Lines : LineToShow(l)' = LineToShow(l)
  BY <1>3 DEF ViewToShow, LineToShow
<1>7. ViewComes'
  <2> SUFFICES ASSUME active' # "inactive", ~failed'
               PROVE  \/ FullInQueue(queue', active') \/ ViewToShow' \in {active', "player"}
                      \/ active' \in dropped'
    BY DEF ViewComes
  <2>1. IsSerialized(active', ctx)
    BY Names DEF IsSerialized
  <2> QED
    BY <1>1, <1>6, <2>1 DEF IInv, ViewComes
<1>8. LinesCome'
  <2> SUFFICES ASSUME active' = "rest", LinesCount', NEW l \in Lines
               PROVE  LineComes(l)'
    BY DEF LinesCome
  <2>1. CASE Full(todo, "rest") \/ l \in fl
    BY <1>1, <1>2, <2>1 DEF LineComes
  <2>2. CASE ~Full(todo, "rest") /\ l \notin fl
    <3>1. active = "rest" /\ LinesCount /\ lines'[l] = lines[l] /\ l \notin flags
      BY <1>3, <2>2 DEF LinesCount
    <3>2. LineComes(l)
      BY <3>1 DEF IInv, LinesCome
    <3> QED
      BY <1>1, <1>6, <3>1, <3>2 DEF LineComes
  <2> QED
    BY <2>1, <2>2
<1>9. TypeOK'
  <2>1. \A i \in DOMAIN queue' : queue'[i].view \in AllViews /\ queue'[i].full \in BOOLEAN
    <3>1. \A i \in DOMAIN queue' : queue'[i] \in Entries
      BY <1>1
    <3> QED
      BY <3>1 DEF Entries, Written
  <2>2. flags' \subseteq Lines
    BY DEF FlagsLeft
  <2>3. tx' \in {"idle", "async", "writing", "answer"}
    BY DEF IInv, TypeOK
  <2>4. shown' \in Targets /\ failed' \in BOOLEAN /\ display' \in [Lines -> Shown]
    BY DEF IInv, TypeOK
  <2>5. \A i \in DOMAIN errors' : errors'[i] \in Errors
    BY DEF OthersOK
  <2> QED
    BY <2>1, <2>2, <2>3, <2>4, <2>5 DEF TypeOK, OthersOK
<1> QED
  BY <1>4, <1>5, <1>7, <1>8, <1>9 DEF IInv

(* Asking for nothing, for one view, and for a browser besides the form.   *)
LEMMA TodosAre ==
    ASSUME NEW v \in AllViews
    PROVE  /\ <<>> \in Todos
           /\ \A x : ~Asks(<<>>, x)
           /\ <<<<v, TRUE>>>> \in Todos /\ Full(<<<<v, TRUE>>>>, v)
           /\ \A x : Asks(<<<<v, TRUE>>>>, x) <=> x = v
           /\ <<<<v, FALSE>>>> \in Todos
           /\ \A x : Asks(<<<<v, FALSE>>>>, x) <=> x = v
           /\ <<<<"search", TRUE>>, <<v, FALSE>>>> \in Todos
           /\ \A x : Asks(<<<<"search", TRUE>>, <<v, FALSE>>>>, x) <=> x = "search" \/ x = v
<1> DEFINE t == <<v, TRUE>>
           f == <<v, FALSE>>
           s == <<"search", TRUE>>
<1>1. t \in AllViews \X BOOLEAN /\ f \in AllViews \X BOOLEAN /\ s \in AllViews \X BOOLEAN
  BY DEF AllViews
<1>2. /\ \A x : (\E b \in BOOLEAN : <<x, b>> = t) <=> x = v
      /\ \A x : (\E b \in BOOLEAN : <<x, b>> = f) <=> x = v
      /\ \A x : (\E b \in BOOLEAN : <<x, b>> = s) <=> x = "search"
  OBVIOUS
<1>3. <<v, TRUE>> = t
  OBVIOUS
<1> HIDE DEF t, f, s
<1>4. <<>> \in Todos /\ <<t>> \in Todos /\ <<f>> \in Todos /\ <<s, f>> \in Todos
  BY <1>1 DEF Todos
<1>5. Asked(<<>>) = {} /\ Asked(<<t>>) = {t} /\ Asked(<<f>>) = {f} /\ Asked(<<s, f>>) = {s, f}
  <2>1. Asked(<<>>) = {}
    BY DEF Asked
  <2>2. ASSUME NEW x PROVE Asked(<<x>>) = {x}
    BY DEF Asked
  <2>3. ASSUME NEW x, NEW y PROVE Asked(<<x, y>>) = {x, y}
    <3>1. DOMAIN <<x, y>> = {1, 2} /\ <<x, y>>[1] = x /\ <<x, y>>[2] = y
      OBVIOUS
    <3> QED
      BY <3>1 DEF Asked
  <2> QED
    BY <2>1, <2>2, <2>3
<1>6. /\ \A x : ~Asks(<<>>, x)
      /\ \A x : Asks(<<t>>, x) <=> x = v
      /\ \A x : Asks(<<f>>, x) <=> x = v
      /\ \A x : Asks(<<s, f>>, x) <=> x = "search" \/ x = v
  <2>1. \A x : ~Asks(<<>>, x)
    BY <1>5 DEF Asks
  <2>2. \A x : Asks(<<t>>, x) <=> x = v
    BY <1>2, <1>5 DEF Asks
  <2>3. \A x : Asks(<<f>>, x) <=> x = v
    BY <1>2, <1>5 DEF Asks
  <2>4. \A x : Asks(<<s, f>>, x) <=> x = "search" \/ x = v
    <3>1. \A x : Asks(<<s, f>>, x) <=> (\E b \in BOOLEAN : <<x, b>> = s) \/ (\E b \in BOOLEAN : <<x, b>> = f)
      BY <1>5 DEF Asks
    <3> QED
      BY <1>2, <3>1
  <2> QED
    BY <2>1, <2>2, <2>3, <2>4
<1>7. Full(<<t>>, v)
  BY <1>3, <1>5 DEF Full
<1> QED
  BY <1>4, <1>6, <1>7 DEF t, f, s

(* Nothing changes.                                                        *)
LEMMA QuietKeeps ==
    ASSUME IInv, UNCHANGED vars
    PROVE  IInv'
<1>1. TypeOK' /\ SearchRequestIsOwned'
  BY DEF IInv, TypeOK, SearchRequestIsOwned, vars, search, rest, client, lists
<1>2. EntryOK' /\ ErrorsOK'
  BY DEF IInv, EntryOK, ErrorsOK, ErrorsAccounted, vars, search, rest, client, lists
<1>3. ViewComes' /\ LinesCome'
  BY DEF IInv, ViewComes, LinesCome, LinesCount, LineComes, ViewToShow, LineToShow, vars, search, rest, client, lists
<1> QED
  BY <1>1, <1>2, <1>3 DEF IInv

(* A view is activated.                                                    *)
LEMMA ActivateKeeps ==
    ASSUME IInv, AtRest, NEW v \in Targets \cup {None}, NEW enforce \in BOOLEAN,
           activate_view(v, enforce), UNCHANGED <<errors, lines, entry, dbus, client>>
    PROVE  IInv'
<1>1. CASE v = None \/ (v = active /\ ~enforce)
  <2>1. UNCHANGED <<active, return_to, search, flags, queue, main, tx>>
    BY <1>1 DEF activate_view
  <2>2. UNCHANGED vars
    BY <2>1 DEF vars, rest
  <2> QED
    BY <2>2, QuietKeeps
<1>2. CASE ~(v = None \/ (v = active /\ ~enforce))
  <2> DEFINE todo == <<<<v, TRUE>>>>
  <2>1. /\ defocus(active) /\ active' = v /\ SerializeSync(todo, flags)
        /\ return_to' = IF CanReturnTo(v) THEN v ELSE return_to
    BY <1>2 DEF activate_view
  <2>2. v \in Targets /\ v \in AllViews /\ v # "errors"
    BY <1>2, Names
  <2>3. todo \in Todos /\ Full(todo, v) /\ ~Asks(todo, "errors")
    BY <2>2, TodosAre
  <2> HIDE DEF todo
  <2>4. /\ queue' = Serialized(queue, todo, context', flags) /\ flags' = FlagsLeft(todo, flags)
        /\ main' \in {"rest", "enter"} /\ tx' = tx
    BY <2>1 DEF SerializeSync
  <2>5. return_to' \in Browsers \cup {"rest", None}
    BY <2>1 DEF CanReturnTo, IInv, TypeOK
  <2>6. /\ waiting' \subseteq Browsers
        /\ {request_view', context', query'} \subseteq Browsers \cup {None}
    BY <2>1 DEF defocus, search, IInv, TypeOK
  <2>7. SearchRequestIsOwned'
    BY <2>1, Names DEF defocus, search, IInv, SearchRequestIsOwned, TypeOK
  <2>8. OthersOK' /\ UNCHANGED <<shown, display, failed, entry, lines, errors, entering, dropped>> /\ flags \in SUBSET Lines
    BY <2>5, <2>6 DEF OthersOK, IInv, TypeOK, ErrorsOK, client, lists
  <2> QED
    BY <2>1, <2>2, <2>3, <2>4, <2>7, <2>8, AskKeeps DEF AtRest
<1> QED
  BY <1>1, <1>2

(* The active view has something new to show.                              *)
LEMMA UpdateKeeps ==
    ASSUME IInv, UpdateActive
    PROVE  IInv'
<1> DEFINE todo == <<<<active, FALSE>>>>
<1>1. active \in Targets /\ active \in AllViews /\ active # "errors"
  BY Names DEF IInv, TypeOK
<1>2. todo \in Todos /\ ~Asks(todo, "errors")
  BY <1>1, TodosAre
<1>3. UNCHANGED search /\ SerializeAsync(todo, flags)
  BY DEF UpdateActive
<1> HIDE DEF todo
<1>4. /\ queue' = Serialized(queue, todo, context', flags) /\ flags' = FlagsLeft(todo, flags)
      /\ main' \in {"rest", "enter"} /\ (tx' = tx \/ (tx = "idle" /\ tx' = "async"))
  BY <1>3 DEF SerializeAsync
<1>5. /\ UNCHANGED <<active, return_to, errors, lines, entry, dbus, shown, display, failed, entering, dropped>>
      /\ UNCHANGED <<waiting, request_view, context, query>> /\ main = "rest"
  BY DEF UpdateActive, search, client, lists, AtRest
<1>6. OthersOK' /\ SearchRequestIsOwned' /\ flags \in SUBSET Lines
  BY <1>5 DEF OthersOK, SearchRequestIsOwned, IInv, TypeOK, ErrorsOK
<1> QED
  BY <1>1, <1>2, <1>4, <1>5, <1>6, AskKeeps

(* A browser handles an event, or asks for a form.                         *)
LEMMA BrowserKeeps ==
    ASSUME IInv, NEW b \in Browsers, NEW keep \in BOOLEAN, keep => b = active,
           NEW todo \in Todos, ~Asks(todo, "errors"),
           AtRest, AfterEvent(b, keep, FALSE, keep), SerializeSync(todo, flags),
           UNCHANGED <<active, return_to, errors, lines, entry, dbus, client>>
    PROVE  IInv'
<1>1. /\ queue' = Serialized(queue, todo, context', flags) /\ flags' = FlagsLeft(todo, flags)
      /\ main' \in {"rest", "enter"} /\ tx' = tx
  BY DEF SerializeSync
<1>2. UNCHANGED <<shown, display, failed, entering, dropped>> /\ active \in Targets /\ flags \in SUBSET Lines /\ main = "rest"
  BY DEF client, lists, IInv, TypeOK, AtRest
<1>3. OthersOK'
  BY <1>2 DEF OthersOK, IInv, TypeOK, ErrorsOK, AfterEvent
<1>4. SearchRequestIsOwned'
  BY Names DEF IInv, TypeOK, SearchRequestIsOwned, AfterEvent
<1> QED
  BY <1>1, <1>2, <1>3, <1>4, AskKeeps

(* A browser begins to enter a list, ...                                   *)
LEMMA EnterListKeeps ==
    ASSUME IInv, NEW b \in Browsers, EnterList(b)
    PROVE  IInv'
<1>1. /\ UNCHANGED <<active, return_to, waiting, request_view, context, query, errors, lines, flags, queue>>
      /\ UNCHANGED <<tx, entry, main, dbus, shown, display, failed, dropped>>
      /\ entering' = entering \cup {b}
  BY DEF EnterList, search, rest
<1>2. TypeOK' /\ SearchRequestIsOwned'
  BY <1>1 DEF IInv, TypeOK, SearchRequestIsOwned
<1>3. EntryOK' /\ ErrorsOK'
  BY <1>1 DEF IInv, EntryOK, ErrorsOK, ErrorsAccounted
<1>4. ViewComes' /\ LinesCome'
  BY <1>1 DEF IInv, ViewComes, LinesCome, LinesCount, LineComes, ViewToShow, LineToShow
<1> QED
  BY <1>2, <1>3, <1>4 DEF IInv

(* ... and is told what came of it: it is asked for in full if it had to   *)
(* be left out and is the active view now.                                 *)
LEMMA EnterListDoneKeeps ==
    ASSUME IInv, NEW b \in Browsers, NEW result \in EnterResults, EnterListDone(b, result)
    PROVE  IInv'
<1> DEFINE todo == IF result # "CANCELED" /\ b = active THEN <<<<b, TRUE>>>> ELSE <<>>
<1>1. b \in AllViews /\ b # "errors"
  BY Names
<1>2. todo \in Todos /\ ~Asks(todo, "errors") /\ (result # "CANCELED" /\ b = active => Full(todo, b))
  <2>1. /\ <<>> \in Todos /\ ~Asks(<<>>, "errors")
        /\ <<<<b, TRUE>>>> \in Todos /\ ~Asks(<<<<b, TRUE>>>>, "errors") /\ Full(<<<<b, TRUE>>>>, b)
    BY <1>1, TodosAre
  <2>2. CASE result # "CANCELED" /\ b = active
    <3>1. todo = <<<<b, TRUE>>>>
      BY <2>2
    <3> HIDE DEF todo
    <3> QED
      BY <2>1, <3>1
  <2>3. CASE ~(result # "CANCELED" /\ b = active)
    <3>1. todo = <<>>
      BY <2>3
    <3> HIDE DEF todo
    <3> QED
      BY <2>1, <2>3, <3>1
  <2> QED
    BY <2>2, <2>3
<1>3. UNCHANGED search /\ SerializeAsync(todo, flags)
  BY DEF EnterListDone
<1> HIDE DEF todo
<1>4. /\ queue' = Serialized(queue, todo, context', flags) /\ flags' = FlagsLeft(todo, flags)
      /\ main' \in {"rest", "enter"} /\ (tx' = tx \/ (tx = "idle" /\ tx' = "async"))
  BY <1>3 DEF SerializeAsync
<1>5. /\ UNCHANGED <<active, return_to, errors, lines, entry, dbus, shown, display, failed>>
      /\ UNCHANGED <<waiting, request_view, context, query>> /\ main = "rest"
      /\ entering' \subseteq entering /\ dropped' \subseteq dropped
      /\ \A c \in dropped \ dropped' : c = b /\ result # "CANCELED"
  BY <1>3 DEF EnterListDone, search, AtRest
<1>6. OthersOK' /\ SearchRequestIsOwned' /\ flags \in SUBSET Lines /\ active \in Targets
  BY <1>5 DEF OthersOK, SearchRequestIsOwned, IInv, TypeOK, ErrorsOK
<1>7. \A c \in dropped \ dropped' : c = active => Full(todo, c)
  BY <1>2, <1>5
<1> QED
  BY <1>2, <1>4, <1>5, <1>6, <1>7, AskKeeps

LEMMA BrowserEventKeeps ==
    ASSUME IInv, NEW b \in Browsers, NEW u \in BOOLEAN, BrowserEvent(b, u)
    PROVE  IInv'
<1> DEFINE todo == Updates(b, u)
<1>1. b \in AllViews /\ b # "errors"
  BY Names
<1>2. todo \in Todos /\ ~Asks(todo, "errors")
  <2>1. todo = <<>> \/ todo = <<<<b, FALSE>>>>
    BY DEF Updates
  <2> HIDE DEF todo
  <2>2. /\ <<>> \in Todos /\ ~Asks(<<>>, "errors")
        /\ <<<<b, FALSE>>>> \in Todos /\ ~Asks(<<<<b, FALSE>>>>, "errors")
    BY <1>1, TodosAre
  <2> QED
    BY <2>1, <2>2
<1> HIDE DEF todo
<1> QED
  BY <1>2, BrowserKeeps DEF BrowserEvent, todo

LEMMA SearchCommenceKeeps ==
    ASSUME IInv, NEW b \in Browsers, NEW possible \in BOOLEAN, NEW navigating \in BOOLEAN,
           SearchCommence(b, possible, navigating)
    PROVE  IInv'
<1> DEFINE todo == (IF possible THEN <<<<"search", TRUE>>>> ELSE <<>>) \o Updates(b, navigating)
<1>1. b \in AllViews /\ b # "errors" /\ "search" \in AllViews
  BY Names DEF Written
<1>2. \/ todo = <<>> \/ todo = <<<<"search", TRUE>>>> \/ todo = <<<<b, FALSE>>>>
      \/ todo = <<<<"search", TRUE>>, <<b, FALSE>>>>
  <2> DEFINE t == <<"search", TRUE>>
             f == <<b, FALSE>>
  <2>1. todo = (IF possible THEN <<t>> ELSE <<>>) \o (IF navigating /\ b = active THEN <<f>> ELSE <<>>)
    BY DEF Updates
  <2> HIDE DEF t, f, todo
  <2>2. /\ <<t>> \o <<f>> = <<t, f>> /\ <<t>> \o <<>> = <<t>>
        /\ <<>> \o <<f>> = <<f>> /\ <<>> \o <<>> = <<>>
    <3>1. ASSUME NEW x, NEW y PROVE <<x>> \o <<y>> = <<x, y>>
      <4> DEFINE r == <<x>> \o <<y>>
      <4>1. <<x>> \in Seq({x, y}) /\ <<y>> \in Seq({x, y}) /\ Len(<<x>>) = 1 /\ Len(<<y>>) = 1
        OBVIOUS
      <4>2. r \in Seq({x, y}) /\ Len(r) = 2
        BY <4>1
      <4>3. r[1] = x /\ r[2] = y
        BY <4>1
      <4>4. <<x, y>> \in Seq({x, y}) /\ Len(<<x, y>>) = 2 /\ <<x, y>>[1] = x /\ <<x, y>>[2] = y
        OBVIOUS
      <4> DEFINE p == <<x, y>>
      <4> HIDE DEF r, p
      <4>5. p \in Seq({x, y}) /\ Len(p) = 2 /\ p[1] = x /\ p[2] = y
        BY <4>4 DEF p
      <4>6. r = [i \in 1 .. 2 |-> r[i]] /\ p = [i \in 1 .. 2 |-> p[i]]
        BY <4>2, <4>5
      <4>7. \A i \in 1 .. 2 : r[i] = p[i]
        BY <4>3, <4>5
      <4> QED
        BY <4>6, <4>7 DEF r, p
    <3>2. ASSUME NEW x PROVE <<x>> \o <<>> = <<x>> /\ <<>> \o <<x>> = <<x>>
      <4>1. <<x>> \in Seq({x})
        OBVIOUS
      <4> QED
        BY <4>1
    <3>3. <<>> \o <<>> = <<>>
      OBVIOUS
    <3> QED
      BY <3>1, <3>2, <3>3
  <2>3. todo = <<>> \/ todo = <<t>> \/ todo = <<f>> \/ todo = <<t, f>>
    BY <2>1, <2>2
  <2> QED
    BY <2>3 DEF t, f
<1> HIDE DEF todo
<1>3. todo \in Todos /\ ~Asks(todo, "errors")
  <2> DEFINE x == <<<<"search", TRUE>>>>
             y == <<<<b, FALSE>>>>
             z == <<<<"search", TRUE>>, <<b, FALSE>>>>
  <2>1. /\ <<>> \in Todos /\ ~Asks(<<>>, "errors")
        /\ y \in Todos /\ ~Asks(y, "errors")
        /\ z \in Todos /\ ~Asks(z, "errors")
    BY <1>1, TodosAre
  <2>2. x \in Todos /\ ~Asks(x, "errors")
    BY <1>1, TodosAre
  <2> HIDE DEF x, y, z
  <2>3. todo = <<>> \/ todo = x \/ todo = y \/ todo = z
    BY <1>2 DEF x, y, z
  <2> QED
    BY <2>1, <2>2, <2>3
<1> QED
  BY <1>3, BrowserKeeps DEF SearchCommence, todo

(* The form has been filled in.                                            *)
LEMMA StoreParametersKeeps ==
    ASSUME IInv, NEW ctx \in Browsers, NEW found \in BOOLEAN, StoreParameters(ctx, found)
    PROVE  IInv'
<1>1. /\ request_view \in Browsers \cup {None} /\ active \in Targets /\ flags \in SUBSET Lines /\ main = "rest"
      /\ query = None /\ waiting = IF request_view = None THEN {} ELSE {request_view}
  BY DEF IInv, TypeOK, SearchRequestIsOwned, StoreParameters, AtRest
<1>2. UNCHANGED <<active, return_to, errors, lines, entry, dbus, shown, display, failed, entering, dropped>>
  BY DEF StoreParameters, client, lists
<1>3. ASSUME NEW todo \in Todos, ~Asks(todo, "errors"), SerializeSync(todo, flags),
             OthersOK', SearchRequestIsOwned'
      PROVE  IInv'
  <2>1. /\ queue' = Serialized(queue, todo, context', flags) /\ flags' = FlagsLeft(todo, flags)
        /\ main' \in {"rest", "enter"} /\ tx' = tx
    BY <1>3 DEF SerializeSync
  <2> QED
    BY <1>1, <1>2, <1>3, <2>1, AskKeeps
<1>4. CASE request_view = None
  <2>1. /\ query' = None /\ UNCHANGED <<waiting, request_view, context>> /\ SerializeSync(<<>>, flags)
    BY <1>4 DEF StoreParameters
  <2>2. OthersOK' /\ SearchRequestIsOwned'
    BY <1>2, <2>1 DEF OthersOK, SearchRequestIsOwned, IInv, TypeOK, ErrorsOK
  <2>3. <<>> \in Todos /\ ~Asks(<<>>, "errors")
    BY TodosAre, Names DEF Written
  <2> QED
    BY <1>3, <2>1, <2>2, <2>3
<1>5. CASE request_view # None
  <2> DEFINE todo == Updates(request_view, found)
  <2>1. /\ waiting' = {} /\ request_view' = None /\ context' = None /\ query' = None
        /\ SerializeSync(todo, flags)
    BY <1>1, <1>5 DEF StoreParameters
  <2>2. OthersOK' /\ SearchRequestIsOwned'
    BY <1>2, <2>1 DEF OthersOK, SearchRequestIsOwned, IInv, TypeOK, ErrorsOK
  <2>3. request_view \in AllViews /\ request_view # "errors"
    BY <1>1, <1>5, Names
  <2>4. todo \in Todos /\ ~Asks(todo, "errors")
    <3>1. todo = <<>> \/ todo = <<<<request_view, FALSE>>>>
      BY DEF Updates
    <3> HIDE DEF todo
    <3>2. /\ <<>> \in Todos /\ ~Asks(<<>>, "errors")
          /\ <<<<request_view, FALSE>>>> \in Todos /\ ~Asks(<<<<request_view, FALSE>>>>, "errors")
      BY <2>3, TodosAre
    <3> QED
      BY <3>1, <3>2
  <2> HIDE DEF todo
  <2> QED
    BY <1>3, <2>1, <2>2, <2>4
<1> QED
  BY <1>4, <1>5

(* An error is told by the main thread, ...                                *)
LEMMA SinkInMainKeeps ==
    ASSUME IInv, NEW e \in Errors, SinkInMain(e)
    PROVE  IInv'
<1> DEFINE todo == IF NeedsSerialize(errors) THEN <<<<"errors", TRUE>>>> ELSE <<>>
<1>1. "errors" \in AllViews
  BY DEF AllViews
<1>2. todo \in Todos /\ (Asks(todo, "errors") <=> errors = <<>>)
  <2>1. (errors = <<>> => todo = <<<<"errors", TRUE>>>>) /\ (errors # <<>> => todo = <<>>)
    BY DEF NeedsSerialize
  <2> HIDE DEF todo
  <2>2. /\ <<>> \in Todos /\ ~Asks(<<>>, "errors")
        /\ <<<<"errors", TRUE>>>> \in Todos /\ Asks(<<<<"errors", TRUE>>>>, "errors")
    BY <1>1, TodosAre
  <2> QED
    BY <2>1, <2>2
<1>3. UNCHANGED search /\ SerializeAsync(todo, flags)
  BY DEF SinkInMain
<1> HIDE DEF todo
<1>4. /\ queue' = Serialized(queue, todo, context', flags) /\ flags' = FlagsLeft(todo, flags)
      /\ main' \in {"rest", "enter"} /\ (tx' = tx \/ (tx = "idle" /\ tx' = "async"))
  BY <1>3 DEF SerializeAsync
<1>5. /\ UNCHANGED <<active, return_to, lines, entry, dbus, shown, display, failed, entering, dropped>>
      /\ UNCHANGED <<waiting, request_view, context, query>> /\ main = "rest"
  BY DEF SinkInMain, search, client, lists, AtRest
<1>6. errors' = Append(errors, e) /\ errors \in Seq(Errors)
  BY DEF SinkInMain, IInv, ErrorsOK
<1>7. errors' # <<>> /\ errors' \in Seq(Errors)
  BY <1>6
<1>8. OthersOK' /\ SearchRequestIsOwned' /\ flags \in SUBSET Lines /\ active \in Targets
  BY <1>5, <1>7 DEF OthersOK, SearchRequestIsOwned, IInv, TypeOK, ErrorsOK
<1> QED
  BY <1>2, <1>4, <1>5, <1>7, <1>8, AskKeeps

(* ... or by the D-Bus thread, which leaves everything else alone.         *)
LEMMA SinkInDBusKeeps ==
    ASSUME IInv, NEW e \in Errors, SinkInDBus(e)
    PROVE  IInv'
<1>1. errors' = Append(errors, e) /\ errors \in Seq(Errors)
  BY DEF SinkInDBus, IInv, ErrorsOK
<1>2. errors' \in Seq(Errors) /\ errors' # <<>> /\ \A i \in DOMAIN errors' : errors'[i] \in Errors
  BY <1>1
<1>3. UNCHANGED <<active, return_to, waiting, request_view, context, query, lines, flags, tx, entry, main,
                  shown, display, requests, failed, entering, dropped>>
  BY DEF SinkInDBus, search, rest, client, lists
<1>4. dbus' \in {"rest", "start"}
  BY DEF SinkInDBus
<1>5. /\ queue' \in Seq(Entries) /\ Distinct(queue')
      /\ \A w : InQueue(queue', w) <=> InQueue(queue, w) \/ (errors = <<>> /\ w = "errors")
      /\ \A w : FullInQueue(queue, w) => FullInQueue(queue', w)
      /\ \A l : LineInQueue(queue, l) => LineInQueue(queue', l)
  <2>1. CASE errors = <<>>
    <3>1. queue' = Added(queue, "errors", TRUE, {})
      BY <2>1 DEF SinkInDBus, NeedsSerialize
    <3>2. queue \in Seq(Entries) /\ Distinct(queue) /\ "errors" \in Written /\ {} \in SUBSET Lines
      BY Names DEF IInv, EntryOK
    <3> QED
      BY <2>1, <3>1, <3>2, ErrorAdded
  <2>2. CASE errors # <<>>
    BY <2>2 DEF SinkInDBus, NeedsSerialize, IInv, EntryOK
  <2> QED
    BY <2>1, <2>2
<1>6. TypeOK'
  <2>1. \A i \in DOMAIN queue' : queue'[i].view \in AllViews /\ queue'[i].full \in BOOLEAN
    <3>1. \A i \in DOMAIN queue' : queue'[i] \in Entries
      BY <1>5
    <3> QED
      BY <3>1 DEF Entries, Written
  <2> QED
    BY <1>2, <1>3, <1>4, <2>1 DEF IInv, TypeOK
<1>7. SearchRequestIsOwned' /\ EntryOK'
  BY <1>3, <1>5 DEF IInv, SearchRequestIsOwned, EntryOK
<1>8. ErrorsOK'
  <2>1. InQueue(queue', "errors") \/ (main = "write" /\ entry.view = "errors")
    BY <1>5 DEF IInv, ErrorsOK, ErrorsAccounted, InQueue
  <2>2. main = "write" /\ entry.view = "errors" => ~InQueue(queue', "errors")
    BY <1>5 DEF IInv, ErrorsOK, ErrorsAccounted, InQueue
  <2> QED
    BY <1>2, <1>3, <2>1, <2>2 DEF ErrorsOK, ErrorsAccounted, InQueue
<1>9. ViewComes'
  BY <1>3, <1>5 DEF IInv, ViewComes, ViewToShow
<1>10. LinesCome'
  BY <1>3, <1>5 DEF IInv, LinesCome, LinesCount, LineComes, ViewToShow, LineToShow
<1> QED
  BY <1>6, <1>7, <1>8, <1>9, <1>10 DEF IInv

(* A transaction is started or gone to: nothing is written yet.            *)
LEMMA StartKeeps ==
    ASSUME IInv, UNCHANGED <<active, return_to, search, errors, rest, queue, entry, client>>,
           main \notin {"write", "dead"}, main' \in {"rest", "enter"},
           tx' = tx \/ (tx = "idle" /\ tx' = "async"), dbus' \in {"rest", "start"}
    PROVE  IInv'
<1>1. /\ tx # "writing" /\ tx' # "writing" /\ (tx' = "answer" <=> tx = "answer")
      /\ tx' \in {"idle", "async", "writing", "answer"}
  BY DEF IInv, EntryOK, TypeOK
<1>2. TypeOK' /\ SearchRequestIsOwned'
  BY <1>1 DEF IInv, TypeOK, SearchRequestIsOwned, search, rest, client, lists
<1>3. EntryOK' /\ ErrorsOK'
  BY <1>1 DEF IInv, EntryOK, ErrorsOK, ErrorsAccounted
<1>4. ViewComes'
  BY <1>1 DEF IInv, ViewComes, ViewToShow, client, lists
<1>5. LinesCome'
  BY <1>1 DEF IInv, LinesCome, LinesCount, LineComes, ViewToShow, LineToShow, rest, client, lists
<1> QED
  BY <1>2, <1>3, <1>4, <1>5 DEF IInv

LEMMA StartInDBusKeeps ==
    ASSUME IInv, StartInDBus
    PROVE  IInv'
<1>1. /\ UNCHANGED <<active, return_to, search, errors, rest, queue, entry, main, client>>
      /\ main \notin {"loop", "write", "dead"} /\ dbus' = "rest"
      /\ tx' = tx \/ (tx = "idle" /\ tx' = "async")
  BY DEF StartInDBus
<1>2. main' \in {"rest", "enter"}
  BY <1>1 DEF IInv, TypeOK
<1> QED
  BY <1>1, <1>2, StartKeeps

LEMMA ProcessDeferredKeeps ==
    ASSUME IInv, ProcessDeferred
    PROVE  IInv'
<1>1. /\ UNCHANGED <<active, return_to, search, errors, rest, queue, tx, entry, dbus, client>>
      /\ main = "rest" /\ main' = "enter"
  BY DEF ProcessDeferred, AtRest
<1>2. dbus' \in {"rest", "start"}
  BY <1>1 DEF IInv, TypeOK
<1> QED
  BY <1>1, <1>2, StartKeeps

(* The client of the REST interface changes lines: a line that has changed *)
(* is flagged, and the view is asked for if it is active.                  *)
LEMMA DisplayUpdateKeeps ==
    ASSUME IInv, NEW complete \in BOOLEAN, NEW s \in SUBSET Lines, NEW text \in [s -> Texts \cup {Empty}],
           NEW title_changed \in BOOLEAN, DisplayUpdate(complete, s, text, title_changed)
    PROVE  IInv'
<1> DEFINE new == [l \in Lines |-> IF l \in s THEN text[l] ELSE IF complete THEN Empty ELSE lines[l]]
           fl == SetLine(2, new[2], SetLine(1, new[1], flags))
<1>1. new \in [Lines -> Texts \cup {Empty}]
  BY DEF IInv, TypeOK
<1>2. lines' = new
  BY DEF DisplayUpdate
<1>3. PICK todo \in {<<>>, <<<<"rest", TRUE>>>>, <<<<"rest", FALSE>>>>} : SerializeSync(todo, fl)
  BY DEF DisplayUpdate
<1> HIDE DEF new
<1>4. fl \in SUBSET Lines /\ flags \subseteq fl /\ \A l \in Lines : new[l] = lines[l] \/ l \in fl
  BY <1>1 DEF SetLine, Lines, IInv, TypeOK
<1> HIDE DEF fl
<1>5. todo \in Todos /\ ~Asks(todo, "errors")
  <2>1. /\ <<>> \in Todos /\ ~Asks(<<>>, "errors")
        /\ <<<<"rest", TRUE>>>> \in Todos /\ ~Asks(<<<<"rest", TRUE>>>>, "errors")
        /\ <<<<"rest", FALSE>>>> \in Todos /\ ~Asks(<<<<"rest", FALSE>>>>, "errors")
    BY TodosAre, Names
  <2> QED
    BY <1>3, <2>1
<1>6. /\ queue' = Serialized(queue, todo, context', fl) /\ flags' = FlagsLeft(todo, fl)
      /\ main' \in {"rest", "enter"} /\ tx' = tx
  BY <1>3 DEF SerializeSync
<1>7. /\ UNCHANGED <<active, return_to, errors, entry, dbus, shown, display, failed, entering, dropped>>
      /\ UNCHANGED <<waiting, request_view, context, query>> /\ main = "rest"
  BY DEF DisplayUpdate, search, client, lists, AtRest
<1>8. OthersOK' /\ SearchRequestIsOwned' /\ active \in Targets
  BY <1>1, <1>2, <1>7 DEF OthersOK, SearchRequestIsOwned, IInv, TypeOK, ErrorsOK
<1> QED
  BY <1>2, <1>4, <1>5, <1>6, <1>7, <1>8, AskKeeps

(* An entry is taken from the queue.                                       *)
LEMMA TakeEntryKeeps ==
    ASSUME IInv, TakeEntry
    PROVE  IInv'
<1>1. /\ UNCHANGED <<active, return_to, search, errors, rest, dbus, client>>
      /\ main \notin {"write", "dead"} /\ tx # "writing"
  BY DEF TakeEntry, IInv, EntryOK
<1>2. CASE queue = <<>> \/ tx \notin {"idle", "async"}
  <2>1. main' = "rest" /\ UNCHANGED <<queue, tx, entry>>
    BY <1>2 DEF TakeEntry
  <2>2. dbus' \in {"rest", "start"}
    BY <1>1 DEF IInv, TypeOK
  <2> QED
    BY <1>1, <2>1, <2>2, StartKeeps
<1>3. CASE queue # <<>> /\ tx \in {"idle", "async"}
  <2> DEFINE h == Head(queue)
  <2>1. main' = "write" /\ tx' = "writing" /\ entry' = h /\ queue' = Tail(queue)
    BY <1>3 DEF TakeEntry
  <2>2. /\ queue' \in Seq(Entries) /\ Distinct(queue') /\ h \in Entries
        /\ ~InQueue(queue', h.view)
        /\ \A w : InQueue(queue, w) <=> InQueue(queue', w) \/ h.view = w
        /\ \A w : FullInQueue(queue, w) <=> FullInQueue(queue', w) \/ (h.view = w /\ h.full)
        /\ \A l : LineInQueue(queue, l)
                  <=> LineInQueue(queue', l) \/ (h.view = "rest" /\ (h.full \/ l \in h.flags))
    BY <1>3, <2>1, TailIs DEF IInv, EntryOK
  <2> HIDE DEF h
  <2>3. TypeOK'
    <3>1. \A i \in DOMAIN queue' : queue'[i].view \in AllViews /\ queue'[i].full \in BOOLEAN
      <4>1. \A i \in DOMAIN queue' : queue'[i] \in Entries
        BY <2>2
      <4> QED
        BY <4>1 DEF Entries, Written
    <3> QED
      BY <1>1, <2>1, <3>1 DEF IInv, TypeOK, search, rest, client, lists
  <2>4. SearchRequestIsOwned'
    BY <1>1 DEF IInv, SearchRequestIsOwned, search
  <2>5. EntryOK'
    BY <2>1, <2>2 DEF EntryOK
  <2>6. ErrorsOK'
    <3>1. errors # <<>> <=> InQueue(queue, "errors")
      BY <1>1 DEF IInv, ErrorsOK, ErrorsAccounted, InQueue
    <3>2. errors # <<>> <=> InQueue(queue', "errors") \/ h.view = "errors"
      BY <2>2, <3>1
    <3>3. h.view = "errors" => ~InQueue(queue', "errors")
      BY <2>2
    <3> QED
      BY <1>1, <2>1, <3>2, <3>3 DEF IInv, ErrorsOK, ErrorsAccounted, InQueue
  <2>7. tx \notin {"writing", "answer"} /\ tx' \notin {"answer"}
    BY <1>3, <2>1
  <2>8. ViewComes'
    BY <1>1, <2>1, <2>2, <2>7 DEF IInv, ViewComes, ViewToShow, client, lists
  <2>9. LinesCome'
    BY <1>1, <2>1, <2>2, <2>7 DEF IInv, LinesCome, LinesCount, LineComes, ViewToShow, LineToShow, rest, client, lists
  <2> QED
    BY <2>3, <2>4, <2>5, <2>6, <2>8, <2>9 DEF IInv
<1> QED
  BY <1>2, <1>3

(* The form is written, if it has a context.                               *)
LEMMA WriteFormKeeps ==
    ASSUME IInv, WriteForm
    PROVE  IInv'
<1>1. /\ UNCHANGED <<active, return_to, waiting, request_view, query, errors, lines, flags, queue, dbus,
                     shown, display, requests, failed, entering, dropped>>
      /\ main = "write" /\ tx = "writing" /\ entry \in Entries /\ entry.view = "search" /\ context' = None
  BY DEF WriteForm, IInv, EntryOK, rest, client, lists
<1>2. \/ main' = "dead" /\ tx' = tx /\ entry' = entry
      \/ /\ tx' = "answer" /\ main' = "rest" /\ entry'.view = "search"
         /\ entry'.full \in BOOLEAN
  BY <1>1 DEF WriteForm, Committed, Entries
<1>3. "search" # "rest" /\ "search" # "errors" /\ "search" \notin Targets /\ "search" \in Written
  BY Names
<1>4. TypeOK'
  BY <1>1, <1>2 DEF IInv, TypeOK
<1>5. SearchRequestIsOwned'
  BY <1>1 DEF IInv, SearchRequestIsOwned
<1>6. EntryOK'
  BY <1>1, <1>2, <1>3 DEF IInv, EntryOK
<1>7. ErrorsOK'
  BY <1>1, <1>2, <1>3 DEF IInv, ErrorsOK, ErrorsAccounted
<1>8. ViewToShow' = ViewToShow /\ (\A l \in Lines : LineToShow(l)' = LineToShow(l)) /\ active # "search"
  BY <1>1, <1>2, <1>3 DEF ViewToShow, LineToShow, IInv, TypeOK
<1>9. ViewComes'
  BY <1>1, <1>2, <1>8 DEF IInv, ViewComes
<1>10. LinesCome'
  BY <1>1, <1>2, <1>3, <1>8 DEF IInv, LinesCome, LinesCount, LineComes
<1> QED
  BY <1>4, <1>5, <1>6, <1>7, <1>9, <1>10 DEF IInv

(* An error is written, and the next one is asked for.                     *)
LEMMA WriteErrorKeeps ==
    ASSUME IInv, WriteError
    PROVE  IInv'
<1>1. /\ UNCHANGED <<active, return_to, waiting, request_view, context, query, lines, flags, dbus,
                     shown, display, requests, failed, entering, dropped>>
      /\ main = "write" /\ tx = "writing" /\ entry \in Entries /\ entry.view = "errors"
  BY DEF WriteError, IInv, EntryOK, search, rest, client, lists
<1>2. errors # <<>> /\ ~InQueue(queue, "errors") /\ errors \in Seq(Errors)
  BY <1>1 DEF IInv, ErrorsOK, ErrorsAccounted
<1>3. /\ tx' = "answer" /\ main' = "rest" /\ entry'.view = "errors" /\ entry'.full \in BOOLEAN
      /\ errors' = Tail(errors)
      /\ queue' = IF Tail(errors) # <<>> THEN Added(queue, "errors", TRUE, {}) ELSE queue
  <2>1. Committed(<<Head(errors)>>)
    BY <1>2, Zenon DEF WriteError
  <2>2. errors' = Tail(errors)
    BY <1>2, Zenon DEF WriteError
  <2>3. queue' = IF Tail(errors) # <<>> THEN Added(queue, "errors", TRUE, {}) ELSE queue
    BY <1>2, Zenon DEF WriteError
  <2>4. tx' = "answer" /\ main' = "rest" /\ entry'.view = "errors" /\ entry'.full \in BOOLEAN
    BY <1>1, <2>1 DEF Committed, Entries
  <2> QED
    BY <2>2, <2>3, <2>4
<1>4. /\ queue' \in Seq(Entries) /\ Distinct(queue')
      /\ InQueue(queue', "errors") <=> errors' # <<>>
      /\ \A w : FullInQueue(queue, w) => FullInQueue(queue', w)
      /\ \A l : LineInQueue(queue, l) => LineInQueue(queue', l)
  <2>1. queue \in Seq(Entries) /\ Distinct(queue)
    BY DEF IInv, EntryOK
  <2>2. CASE Tail(errors) # <<>>
    BY <1>3, <2>1, <2>2, ErrorAdded
  <2>3. CASE Tail(errors) = <<>>
    BY <1>2, <1>3, <2>1, <2>3
  <2> QED
    BY <2>2, <2>3
<1>5. errors' \in Seq(Errors) /\ \A i \in DOMAIN errors' : errors'[i] \in Errors
  <2>1. errors' \in Seq(Errors)
    BY <1>2, <1>3
  <2> QED
    BY <2>1
<1>6. "errors" # "rest" /\ "errors" \notin Targets /\ "errors" \in Written
  BY Names
<1>7. TypeOK'
  <2>1. \A i \in DOMAIN queue' : queue'[i].view \in AllViews /\ queue'[i].full \in BOOLEAN
    <3>1. \A i \in DOMAIN queue' : queue'[i] \in Entries
      BY <1>4
    <3> QED
      BY <3>1 DEF Entries, Written
  <2> QED
    BY <1>1, <1>3, <1>5, <2>1 DEF IInv, TypeOK
<1>8. SearchRequestIsOwned'
  BY <1>1 DEF IInv, SearchRequestIsOwned
<1>9. EntryOK'
  BY <1>3, <1>4, <1>6 DEF EntryOK
<1>10. ErrorsOK'
  BY <1>3, <1>4, <1>5 DEF ErrorsOK, ErrorsAccounted, InQueue
<1>11. ViewToShow' = ViewToShow /\ (\A l \in Lines : LineToShow(l)' = LineToShow(l)) /\ active # "errors"
  BY <1>1, <1>3, <1>6 DEF ViewToShow, LineToShow, IInv, TypeOK
<1>12. ViewComes'
  BY <1>1, <1>3, <1>4, <1>11 DEF IInv, ViewComes
<1>13. LinesCome'
  BY <1>1, <1>3, <1>4, <1>6, <1>11 DEF IInv, LinesCome, LinesCount, LineComes
<1> QED
  BY <1>7, <1>8, <1>9, <1>10, <1>12, <1>13 DEF IInv
(* What a transaction of the REST view carries.                            *)
LEMMA LinesWrittenIs ==
    ASSUME lines \in [Lines -> Texts \cup {Empty}], NEW full \in BOOLEAN, NEW fl \in SUBSET Lines
    PROVE  LET text == LinesWritten(full, fl)
           IN  /\ DOMAIN text \subseteq Lines /\ \A l \in DOMAIN text : text[l] \in Shown
               /\ \/ \A l \in Lines : lines[l] = Empty
                  \/ /\ \A l \in DOMAIN text : text[l] = lines[l]
                     /\ \A l \in Lines : full \/ l \in fl => l \in DOMAIN text
<1> DEFINE text == LinesWritten(full, fl)
<1>1. CASE \A l \in Lines : lines[l] = Empty
  <2>1. text = [l \in {1} |-> Fallback]
    BY <1>1 DEF LinesWritten
  <2> QED
    BY <1>1, <2>1 DEF Lines, Shown
<1>2. CASE ~\A l \in Lines : lines[l] = Empty
  <2> DEFINE d == IF full THEN Lines ELSE fl
  <2>1. text = [l \in d |-> lines[l]]
    BY <1>2 DEF LinesWritten
  <2>2. d \subseteq Lines /\ \A l \in Lines : full \/ l \in fl => l \in d
    OBVIOUS
  <2> HIDE DEF d, text
  <2>3. DOMAIN text = d /\ \A l \in d : text[l] = lines[l]
    BY <2>1
  <2>4. \A l \in d : lines[l] \in Shown
    BY <2>2 DEF Shown
  <2> QED
    BY <2>2, <2>3, <2>4 DEF text
<1> QED
  BY <1>1, <1>2

(* A view is written, if it may be: only the active one, unless the player *)
(* or nothing at all is to be shown.                                       *)
LEMMA WriteViewKeeps ==
    ASSUME IInv, WriteView
    PROVE  IInv'
<1>1. /\ UNCHANGED <<active, return_to, waiting, request_view, context, query, errors, lines, flags, queue, dbus,
                     shown, display, requests, failed, entering>>
      /\ main = "write" /\ tx = "writing" /\ entry \in Entries /\ entry.view \in Targets
      /\ IsAllowed(entry.view)
      /\ dropped' \subseteq dropped /\ \A b \in dropped \ dropped' : b = entry.view /\ entry.full
  BY DEF WriteView, IInv, EntryOK, search, rest, client, lists
<1>2. entry.view # "errors" /\ entry.view # "inactive" /\ entry.view \in Written
  BY <1>1, Names DEF Entries, Written
<1>3. SearchRequestIsOwned'
  BY <1>1 DEF IInv, SearchRequestIsOwned
<1>5. IInv'
  <2> DEFINE text == IF entry.view = "rest" THEN LinesWritten(entry.full, entry.flags) ELSE <<>>
  <2>1. /\ tx' = "answer" /\ main' = "rest"
        /\ entry' = [view |-> entry.view, full |-> entry.full, text |-> text]
    BY DEF WriteView, Committed
  <2>2. /\ entry.view \in Browsers \cup {"rest"} => entry.view = active
        /\ entry.view \notin Browsers \cup {"rest"} => entry.view = "player"
    BY <1>1, <1>2 DEF IsAllowed, Targets
  <2>3. /\ entry.view # "rest" => DOMAIN text = {}
        /\ entry.view = "rest" =>
             /\ DOMAIN text \subseteq Lines /\ \A l \in DOMAIN text : text[l] \in Shown
             /\ \/ \A l \in Lines : lines[l] = Empty
                \/ /\ \A l \in DOMAIN text : text[l] = lines[l]
                   /\ \A l \in Lines : entry.full \/ l \in entry.flags => l \in DOMAIN text
    <3>1. CASE entry.view # "rest"
      BY <3>1
    <3>2. CASE entry.view = "rest"
      <4>1. text = LinesWritten(entry.full, entry.flags)
        BY <3>2
      <4>2. /\ lines \in [Lines -> Texts \cup {Empty}]
            /\ entry.full \in BOOLEAN /\ entry.flags \in SUBSET Lines
        BY <1>1 DEF IInv, TypeOK, Entries
      <4> HIDE DEF text
      <4> QED
        BY <3>2, <4>1, <4>2, LinesWrittenIs
    <3> QED
      BY <3>1, <3>2
  <2> HIDE DEF text
  <2>4. entry'.view = entry.view /\ entry'.full = entry.full /\ entry'.text = text
    BY <2>1
  <2>5. TypeOK'
    BY <1>1, <2>1 DEF IInv, TypeOK
  <2>6. EntryOK'
    <3>1. queue' \in Seq(Entries) /\ Distinct(queue')
      BY <1>1 DEF IInv, EntryOK
    <3>2. entry.full \in BOOLEAN
      BY <1>1 DEF Entries
    <3> QED
      BY <1>2, <2>1, <2>3, <2>4, <3>1, <3>2 DEF EntryOK
  <2>7. ErrorsOK'
    BY <1>1, <1>2, <2>1 DEF IInv, ErrorsOK, ErrorsAccounted
  <2>8. ViewToShow = shown /\ ViewToShow' = IF entry.full THEN entry.view ELSE shown
    BY <1>1, <2>1, <2>4 DEF ViewToShow
  <2>9. ViewComes'
    BY <1>1, <2>1, <2>2, <2>8 DEF IInv, ViewComes
  <2>10. LinesCome'
    <3>1. CASE entry.view # "rest"
      <4>1. (\A l \in Lines : LineToShow(l)' = LineToShow(l)) /\ LinesCount' = LinesCount
        BY <1>1, <2>1, <2>4, <3>1 DEF LineToShow, LinesCount
      <4>2. ViewToShow' = "rest" => ViewToShow = "rest"
        BY <2>8, <3>1
      <4>3. SUFFICES ASSUME active' = "rest", LinesCount', NEW l \in Lines
                     PROVE  LineComes(l)'
        BY DEF LinesCome
      <4>4. LineComes(l)
        BY <1>1, <4>1, <4>3 DEF IInv, LinesCome
      <4> QED
        BY <1>1, <3>1, <4>1, <4>2, <4>4 DEF LineComes
    <3>2. CASE entry.view = "rest"
      <4>1. SUFFICES ASSUME active' = "rest", LinesCount', NEW l \in Lines
                     PROVE  LineComes(l)'
        BY DEF LinesCome
      <4>2. CASE \A m \in Lines : lines[m] = Empty
        BY <1>1, <4>2 DEF LineComes
      <4>3. CASE entry.full
        <5>1. LineToShow(l)' = IF l \in DOMAIN text THEN text[l] ELSE Empty
          BY <1>1, <2>1, <2>4, <3>2, <4>3 DEF LineToShow
        <5>2. \/ \A m \in Lines : lines[m] = Empty
              \/ l \in DOMAIN text /\ text[l] = lines[l]
          BY <2>3, <3>2, <4>3
        <5> QED
          BY <1>1, <4>2, <5>1, <5>2 DEF LineComes
      <4>4. CASE ~entry.full /\ ~(\A m \in Lines : lines[m] = Empty)
        <5>1. ~failed
          BY <1>1, <2>4, <4>1, <4>4 DEF LinesCount
        <5>2. LineComes(l)
          BY <1>1, <4>1, <5>1 DEF IInv, LinesCome, LinesCount
        <5>3. \A m \in DOMAIN text : text[m] = lines[m]
          BY <2>3, <3>2, <4>4
        <5>4. l \in entry.flags => l \in DOMAIN text
          BY <2>3, <3>2, <4>4
        <5>5. /\ ViewToShow' = ViewToShow /\ ViewToShow = shown /\ LineToShow(l) = display[l]
              /\ shown = "rest" => LineToShow(l)' = IF l \in DOMAIN text THEN text[l] ELSE display[l]
          BY <1>1, <2>1, <2>4, <2>8, <3>2, <4>4 DEF LineToShow
        <5>6. l \in DOMAIN text => LineComes(l)'
          BY <1>1, <5>3, <5>5 DEF LineComes
        <5>7. l \notin DOMAIN text => LineComes(l)'
          BY <1>1, <3>2, <4>4, <5>2, <5>4, <5>5 DEF LineComes
        <5> QED
          BY <5>6, <5>7
      <4> QED
        BY <4>2, <4>3, <4>4
    <3> QED
      BY <3>1, <3>2
  <2> QED
    BY <1>3, <2>5, <2>6, <2>7, <2>9, <2>10 DEF IInv
<1> QED
  BY <1>5

(* A view that may not be written, or enters a list, is left out.          *)
LEMMA DropViewKeeps ==
    ASSUME IInv, DropView
    PROVE  IInv'
<1>1. /\ UNCHANGED <<active, return_to, waiting, request_view, context, query, errors, lines, flags, queue, dbus,
                     shown, display, requests, failed, entering>>
      /\ main = "write" /\ tx = "writing" /\ entry \in Entries /\ entry.view \in Targets
      /\ tx' = "idle" /\ main' = "loop" /\ entry' = None
  BY DEF DropView, IInv, EntryOK, search, rest
<1>2. entry.view # "errors" /\ entering \subseteq Browsers /\ dropped \subseteq Browsers
  BY <1>1, Names DEF IInv, TypeOK
<1>3. dropped \subseteq dropped' /\ dropped' \subseteq Browsers
  BY <1>2 DEF DropView
<1>4. /\ entry.view = active /\ entry.full => active \in dropped'
      /\ entry.view = "rest" => active # "rest"
  BY <1>2, Names DEF DropView, IsAllowed
<1>5. TypeOK'
  BY <1>1, <1>3 DEF IInv, TypeOK
<1>6. SearchRequestIsOwned'
  BY <1>1 DEF IInv, SearchRequestIsOwned
<1>7. EntryOK'
  BY <1>1 DEF IInv, EntryOK
<1>8. ErrorsOK'
  BY <1>1, <1>2 DEF IInv, ErrorsOK, ErrorsAccounted
<1>9. ViewComes'
  BY <1>1, <1>3, <1>4 DEF IInv, ViewComes, ViewToShow
<1>10. LinesCome'
  BY <1>1, <1>4 DEF IInv, LinesCome, LinesCount, LineComes, ViewToShow, LineToShow
<1> QED
  BY <1>5, <1>6, <1>7, <1>8, <1>9, <1>10 DEF IInv

(* dcpd has shown what was written, or has refused it.                     *)
LEMMA AnswerKeeps ==
    ASSUME IInv, NEW a \in Answers, Answer(a)
    PROVE  IInv'
<1>1. /\ UNCHANGED <<active, return_to, waiting, request_view, context, query, errors, lines, flags, queue, dbus>>
      /\ UNCHANGED <<entering, dropped>>
      /\ main = "rest" /\ tx = "answer" /\ tx' = "idle" /\ main' \in {"rest", "enter"}
  BY DEF Answer, AtRest, Shows, search, rest, lists
<1>2. /\ entry.view \in Written /\ entry.full \in BOOLEAN
      /\ entry.view = "rest" => \A l \in DOMAIN entry.text : entry.text[l] \in Shown
      /\ entry.view \in Targets \ {"rest"} => DOMAIN entry.text = {}
      /\ entry.view \in Targets \/ entry.view \in {"search", "errors"}
  BY <1>1 DEF IInv, EntryOK, Written, AllViews
<1>3. active \in Targets /\ shown \in Targets /\ display \in [Lines -> Shown] /\ failed \in BOOLEAN
      /\ "search" \notin Targets /\ "errors" \notin Targets
  BY Names DEF IInv, TypeOK
<1>4. SearchRequestIsOwned' /\ EntryOK' /\ ErrorsOK'
  <2>1. SearchRequestIsOwned'
    BY <1>1 DEF IInv, SearchRequestIsOwned
  <2>2. EntryOK'
    BY <1>1 DEF IInv, EntryOK
  <2>3. ErrorsOK'
    BY <1>1 DEF IInv, ErrorsOK, ErrorsAccounted
  <2> QED
    BY <2>1, <2>2, <2>3
<1>5. CASE a # "OK"
  <2>1. failed' = TRUE /\ UNCHANGED <<shown, display, requests, entering, dropped>>
    BY <1>1, <1>5 DEF Answer
  <2>2. TypeOK'
    BY <1>1, <2>1 DEF IInv, TypeOK
  <2>3. ViewComes' /\ LinesCome'
    BY <1>1, <2>1 DEF ViewComes, LinesCome, LinesCount
  <2> QED
    BY <1>4, <2>2, <2>3 DEF IInv
<1>6. CASE a = "OK"
  <2>1. Shows(entry)
    BY <1>6 DEF Answer
  <2>2. /\ failed' \in BOOLEAN
        /\ ~failed' => ~failed \/ (entry.view = active /\ entry.full)
    BY <1>3, <2>1 DEF Shows
  <2>3. shown' = ViewToShow /\ shown' \in Targets
    BY <1>1, <1>2, <1>3, <2>1 DEF Shows, ViewToShow
  <2>4. display' \in [Lines -> Shown]
    <3>1. CASE entry.view \in {"search", "errors"}
      BY <1>3, <2>1, <3>1 DEF Shows
    <3>2. CASE entry.view \in Targets
      <4>1. \A l \in DOMAIN entry.text : entry.text[l] \in Shown
        BY <1>2, <3>2
      <4>2. Empty \in Shown /\ \A l \in Lines : display[l] \in Shown
        BY <1>3 DEF Shown
      <4> QED
        BY <1>3, <2>1, <3>2, <4>1, <4>2 DEF Shows
    <3> QED
      BY <1>2, <3>1, <3>2
  <2>5. ASSUME shown' = "rest", NEW l \in Lines
        PROVE  display'[l] = LineToShow(l)
    <3>1. CASE entry.view \in {"search", "errors"}
      BY <2>1, <3>1 DEF Shows, LineToShow
    <3>2. CASE entry.view \in Targets /\ entry.full
      <4>1. entry.view = "rest"
        BY <1>1, <2>3, <2>5, <3>2 DEF ViewToShow
      <4> QED
        BY <1>1, <1>3, <2>1, <3>2, <4>1 DEF Shows, LineToShow
    <3>3. CASE entry.view \in Targets /\ ~entry.full
      <4>1. shown = "rest"
        BY <1>3, <2>1, <2>5, <3>3 DEF Shows
      <4> QED
        BY <1>1, <1>2, <1>3, <2>1, <3>3, <4>1 DEF Shows, LineToShow
    <3> QED
      BY <1>2, <3>1, <3>2, <3>3
  <2>6. TypeOK'
    BY <1>1, <2>2, <2>3, <2>4 DEF IInv, TypeOK
  <2>7. ViewToShow' = shown' /\ \A l \in Lines : LineToShow(l)' = display'[l]
    BY <1>1 DEF ViewToShow, LineToShow
  <2>8. ViewComes'
    <3> SUFFICES ASSUME active' # "inactive", ~failed'
                 PROVE  \/ FullInQueue(queue', active') \/ ViewToShow' \in {active', "player"}
                        \/ active' \in dropped'
      BY DEF ViewComes
    <3>1. CASE ~failed
      BY <1>1, <2>3, <2>7, <3>1 DEF IInv, ViewComes
    <3>2. CASE entry.view = active /\ entry.full
      BY <1>1, <1>3, <2>3, <2>7, <3>2 DEF ViewToShow
    <3> QED
      BY <2>2, <3>1, <3>2
  <2>9. LinesCome'
    <3> SUFFICES ASSUME active' = "rest", LinesCount', NEW l \in Lines
                 PROVE  LineComes(l)'
      BY DEF LinesCome
    <3>1. LinesCount
      BY <1>1, <2>2 DEF LinesCount
    <3>2. LineComes(l)
      BY <1>1, <3>1 DEF IInv, LinesCome
    <3> QED
      BY <1>1, <2>3, <2>5, <2>7, <3>2 DEF LineComes
  <2> QED
    BY <1>4, <2>6, <2>8, <2>9 DEF IInv
<1> QED
  BY <1>5, <1>6

(***************************************************************************)
(* The steps together                                                      *)
(***************************************************************************)
LEMMA InitIInv == Init => IInv
<1> SUFFICES ASSUME Init
             PROVE  IInv
  OBVIOUS
<1>1. TypeOK
  <2>1. display \in [Lines -> Shown] /\ lines \in [Lines -> Texts \cup {Empty}]
    BY DEF Init, Shown
  <2>2. active \in Targets /\ shown \in Targets
    BY Names DEF Init
  <2>3. waiting \subseteq Browsers /\ {request_view, context, query} \subseteq Browsers \cup {None}
    BY DEF Init
  <2>4. DOMAIN errors = {} /\ DOMAIN queue = {}
    BY DEF Init
  <2> QED
    BY <2>1, <2>2, <2>3, <2>4 DEF Init, TypeOK
<1>2. SearchRequestIsOwned
  BY DEF Init, SearchRequestIsOwned
<1>3. EntryOK
  BY DEF Init, EntryOK, Distinct
<1>4. ErrorsOK
  BY DEF Init, ErrorsOK, ErrorsAccounted
<1>5. ViewComes
  BY DEF Init, ViewComes
<1>6. LinesCome
  BY DEF Init, LinesCome, LineComes
<1> QED
  BY <1>1, <1>2, <1>3, <1>4, <1>5, <1>6 DEF IInv

LEMMA SignalsKeep ==
    ASSUME IInv, DcpdViewsSignals
    PROVE  IInv'
<1>1. ASSUME NEW v \in Targets, OpenView(v)
      PROVE  IInv'
  BY <1>1, ActivateKeeps DEF OpenView
<1>2. CASE ToggleViews("player", "rest")
  <2>1. ToggleTarget("player", "rest") \in Targets
    BY Names DEF ToggleTarget
  <2> QED
    BY <1>2, <2>1, ActivateKeeps DEF ToggleViews
<1>3. CASE ToggleViews("rest", "player")
  <2>1. ToggleTarget("rest", "player") \in Targets
    BY Names DEF ToggleTarget
  <2> QED
    BY <1>3, <2>1, ActivateKeeps DEF ToggleViews
<1>4. ASSUME NEW b \in Browsers, NEW p \in BOOLEAN, NEW n \in BOOLEAN, SearchCommence(b, p, n)
      PROVE  IInv'
  BY <1>4, SearchCommenceKeeps
<1>5. ASSUME NEW c \in Browsers, NEW f \in BOOLEAN, StoreParameters(c, f)
      PROVE  IInv'
  BY <1>5, StoreParametersKeeps
<1> QED
  BY <1>1, <1>2, <1>3, <1>4, <1>5 DEF DcpdViewsSignals

LEMMA ActivationsKeep ==
    ASSUME IInv, Activations
    PROVE  IInv'
<1>1. CASE NowPlaying
  BY <1>1, ActivateKeeps, Names DEF NowPlaying
<1>2. CASE SourceGone
  BY <1>2, ActivateKeeps, Names DEF SourceGone
<1>3. CASE HidePlayer
  <2>1. return_to \in Targets \cup {None}
    BY Names DEF IInv, TypeOK
  <2> QED
    BY <1>3, <2>1, ActivateKeeps DEF HidePlayer
<1>4. CASE UpdateActive
  BY <1>4, UpdateKeeps
<1> QED
  BY <1>1, <1>2, <1>3, <1>4 DEF Activations

LEMMA NextIInv == IInv /\ [Next]_vars => IInv'
<1> SUFFICES ASSUME IInv, [Next]_vars
             PROVE  IInv'
  OBVIOUS
<1>1. CASE DcpdViewsSignals
  BY <1>1, SignalsKeep
<1>2. CASE Activations
  BY <1>2, ActivationsKeep
<1>3. CASE Searches
  BY <1>3, BrowserEventKeeps DEF Searches
<1>11. CASE ListEntries
  BY <1>11, EnterListKeeps, EnterListDoneKeeps DEF ListEntries
<1>4. CASE ErrorMessages
  BY <1>4, SinkInMainKeeps, SinkInDBusKeeps DEF ErrorMessages
<1>5. CASE DisplayUpdates
  BY <1>5, DisplayUpdateKeeps DEF DisplayUpdates
<1>6. CASE StartInDBus
  BY <1>6, StartInDBusKeeps
<1>7. CASE ProcessDeferred
  BY <1>7, ProcessDeferredKeeps
<1>8. CASE Process
  BY <1>8, TakeEntryKeeps, WriteViewKeeps, DropViewKeeps, WriteFormKeeps, WriteErrorKeeps DEF Process
<1>9. ASSUME NEW a \in Answers, Answer(a)
      PROVE  IInv'
  BY <1>9, AnswerKeeps
<1>10. CASE Dead \/ UNCHANGED vars
  <2>1. /\ UNCHANGED <<active, return_to, waiting, request_view, context, query, errors, lines, flags, queue>>
        /\ UNCHANGED <<tx, entry, main, dbus, shown, display, failed, entering, dropped>>
    BY <1>10 DEF Dead, vars, search, rest, client, lists
  <2>2. TypeOK' /\ SearchRequestIsOwned'
    BY <2>1 DEF IInv, TypeOK, SearchRequestIsOwned
  <2>3. EntryOK' /\ ErrorsOK'
    BY <2>1 DEF IInv, EntryOK, ErrorsOK, ErrorsAccounted
  <2>4. ViewComes' /\ LinesCome'
    BY <2>1 DEF IInv, ViewComes, LinesCome, LinesCount, LineComes, ViewToShow, LineToShow
  <2> QED
    BY <2>2, <2>3, <2>4 DEF IInv
<1> QED
  BY <1>1, <1>2, <1>3, <1>4, <1>5, <1>6, <1>7, <1>8, <1>9, <1>10, <1>11 DEF Next

(* When nothing is on its way any more, what was to come has come.         *)
LEMMA WhatComesIsShown ==
    ASSUME IInv
    PROVE  AllIsShown
<1>1. TypeOK /\ ErrorsAccounted
  BY DEF IInv, ErrorsOK
<1>2. ASSUME Quiet
      PROVE  /\ main = "rest" /\ ViewToShow = shown /\ \A l \in Lines : LineToShow(l) = display[l]
             /\ \A v : ~FullInQueue(queue, v)
             /\ \A l : ~LineInQueue(queue, l)
  BY <1>2 DEF Quiet, ViewToShow, LineToShow, FullInQueue, LineInQueue
<1>3. ShowsActiveView
  BY <1>2 DEF IInv, ViewComes, ShowsActiveView
<1>4. LinesAccounted
  <2> SUFFICES ASSUME Quiet, ~failed, active = "rest", shown = "rest", NEW l \in Lines, lines[l] # Empty
               PROVE  display[l] = lines[l] \/ l \in flags
    BY DEF LinesAccounted
  <2>1. LineComes(l)
    BY DEF IInv, LinesCome, LinesCount
  <2> QED
    BY <1>2, <2>1 DEF LineComes
<1> QED
  BY <1>1, <1>3, <1>4 DEF AllIsShown

(***************************************************************************)
(* The theorems                                                            *)
(***************************************************************************)
(* ViewFileBrowser::View, ViewSearch::View: whatever happens to the views  *)
(* while the user is asked for search parameters, a browser that waits is  *)
(* the active view and the one the search view knows, and nobody is known  *)
(* to the search view that does not wait.                                  *)
THEOREM SearchRequestsAreOwned == Spec => []SearchRequestIsOwned
<1>1. IInv => SearchRequestIsOwned
  BY DEF IInv
<1> QED
  BY <1>1, InitIInv, NextIInv, PTL DEF Spec

(* ViewManager::Manager with the queue of transactions: when all is        *)
(* written, and dcpd has refused nothing, the display shows the active     *)
(* view, or the player, unless the active view is a browser that was left  *)
(* out while it entered a list, which it still does or which was canceled; *)
(* and it shows every line the REST client has set that is not flagged any *)
(* more; and while there is an error, the error view is on its way.        *)
THEOREM AllGetsShown == Spec => []AllIsShown
<1> QED
  BY WhatComesIsShown, InitIInv, NextIInv, PTL DEF Spec
=============================================================================
