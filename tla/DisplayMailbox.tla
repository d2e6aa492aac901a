--------------------------- MODULE DisplayMailbox ---------------------------
(***************************************************************************)
(* What the display pipeline promises to the views, with neither threads,  *)
(* transactions nor timers: a mailbox with one wish per view.  A view that *)
(* wants to be shown takes its turn in the line, and what it asks for      *)
(* until it gets there is added to its wish.  One message is on the wire   *)
(* at a time, and it carries the whole wish of the view whose turn it is.  *)
(***************************************************************************)
EXTENDS Sequences

CONSTANTS Views, Flags, None

VARIABLES
    turn,   \* the views that wait, each of them once
    wish,   \* what each view wants to be shown
    wire    \* the message dcpd is to acknowledge

vars == <<turn, wish, wire>>

Wishes == [full : BOOLEAN, flags : SUBSET Flags, busy : {"unknown", "yes", "no"}]

Blank == [full |-> FALSE, flags |-> {}, busy |-> "unknown"]

Waiting(line) == {line[i] : i \in DOMAIN line}

with(w, full, fl, b) ==
    [full  |-> w.full \/ full,
     flags |-> w.flags \cup fl,
     busy  |-> IF b = "unknown" THEN w.busy ELSE b]

InLine(line, v) == IF v \in Waiting(line) THEN line ELSE Append(line, v)

Message(v) == [view |-> v, full |-> wish[v].full, flags |-> wish[v].flags,
               busy |-> wish[v].busy]

Init ==
    /\ turn = <<>>
    /\ wish = [v \in Views |-> Blank]
    /\ wire = None

(* A view asks for an update.                                              *)
Post(v, full, fl, b) ==
    /\ wish' = [wish EXCEPT ![v] = with(@, full, fl, b)]
    /\ turn' = InLine(turn, v)
    /\ UNCHANGED wire

(* The first view in the line is shown.                                    *)
Deliver ==
    /\ wire = None /\ turn # <<>>
    /\ wire' = Message(Head(turn))
    /\ wish' = [wish EXCEPT ![Head(turn)] = Blank]
    /\ turn' = Tail(turn)

(* While it is shown the view starts loading, and it is busy: it asks for  *)
(* another update and goes to the end of the line.                         *)
DeliverAndPost(fl) ==
    /\ wire = None /\ turn # <<>>
    /\ wire' = Message(Head(turn))
    /\ wish' = [wish EXCEPT ![Head(turn)] = with(Blank, TRUE, fl, "yes")]
    /\ turn' = InLine(Tail(turn), Head(turn))

(* The first view in the line has nothing to show, or may not be shown.    *)
Refuse ==
    /\ wire = None /\ turn # <<>>
    /\ wish' = [wish EXCEPT ![Head(turn)] = Blank]
    /\ turn' = Tail(turn)
    /\ UNCHANGED wire

(* dcpd is done with the message, one way or the other.                    *)
Acknowledge ==
    /\ wire # None
    /\ wire' = None
    /\ UNCHANGED <<turn, wish>>

Next ==
    \/ \E v \in Views, w \in Wishes : Post(v, w.full, w.flags, w.busy)
    \/ Deliver
    \/ \E fl \in SUBSET Flags : DeliverAndPost(fl)
    \/ Refuse
    \/ Acknowledge

Spec == Init /\ [][Next]_vars

=============================================================================
