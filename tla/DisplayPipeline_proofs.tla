----------------------- MODULE DisplayPipeline_proofs -----------------------
(***************************************************************************)
(* Theorems about DisplayPipeline for any number of views, flags, sources  *)
(* and answers, and their proofs; the last part is the refinement.         *)
(***************************************************************************)
EXTENDS DisplayPipeline, TLAPS

USE DEF Threads, IDLE, STARTED_ASYNC, WAIT_FOR_COMMIT, WAIT_FOR_ANSWER

(***************************************************************************)
(* Types of the helpers                                                    *)
(***************************************************************************)
(* add() yields a queue of well-formed entries.                            *)
LEMMA AddType ==
    ASSUME NEW qq \in Seq(Data), NEW v \in Views, NEW full \in BOOLEAN,
           NEW fl \in SUBSET Flags, NEW b \in MaybeBusy
    PROVE  add(qq, v, full, fl, b) \in Seq(Data)
<1>1. CASE v \in QueuedViews(qq)
  <2>1. \A i \in DOMAIN qq : qq[i] \in Data
    OBVIOUS
  <2>2. \A i \in DOMAIN qq : merge(qq[i], full, fl, b) \in Data
    BY <2>1 DEF merge, Data, MaybeBusy
  <2>3. DOMAIN qq = 1 .. Len(qq) /\ Len(qq) \in Nat
    OBVIOUS
  <2> DEFINE r == [i \in DOMAIN qq |-> IF qq[i].view = v THEN merge(qq[i], full, fl, b)
                                                          ELSE qq[i]]
  <2>4. r \in [1 .. Len(qq) -> Data]
    BY <2>1, <2>2, <2>3
  <2>5. r \in Seq(Data)
    BY <2>3, <2>4
  <2> QED
    BY <1>1, <2>5 DEF add
<1>2. CASE v \notin QueuedViews(qq)
  <2>1. [view |-> v, full |-> full, flags |-> fl, busy |-> b] \in Data
    BY DEF Data
  <2> QED
    BY <1>2, <2>1 DEF add
<1> QED
  BY <1>1, <1>2

(* add() leaves something in the queue.                                    *)
LEMMA AddNotEmpty ==
    ASSUME NEW qq \in Seq(Data), NEW v, NEW full, NEW fl, NEW b
    PROVE  add(qq, v, full, fl, b) # <<>>
<1>1. CASE v \in QueuedViews(qq)
  <2>1. DOMAIN add(qq, v, full, fl, b) = DOMAIN qq
    BY <1>1 DEF add
  <2>2. DOMAIN qq # {}
    BY <1>1 DEF QueuedViews
  <2> QED
    BY <2>1, <2>2
<1>2. CASE v \notin QueuedViews(qq)
  BY <1>2 DEF add
<1> QED
  BY <1>1, <1>2

(* The head and the tail of a queue that is not empty.                     *)
LEMMA HeadTail ==
    ASSUME NEW S, NEW s \in Seq(S), s # <<>>
    PROVE  Head(s) \in S /\ Tail(s) \in Seq(S)
  OBVIOUS

LEMMA NoJobType == NoJob \in Jobs
  BY DEF NoJob, Jobs, MaybeBusy, Modes, Results, DcpdResults

(* A thread goes somewhere inside the call it is in.                       *)
LEMMA GotoType ==
    ASSUME ThreadsOK, NEW t \in Threads, NEW where \in PCs, Goto(t, where),
           where \in {"check", "begin", "add", "reset", "end"} => job[t].view \in Views
    PROVE  ThreadsOK'
  BY DEF ThreadsOK, Goto

(* A thread enters a call.                                                 *)
LEMMA CallType ==
    ASSUME ThreadsOK, NEW t \in Threads, NEW where \in PCs, NEW j \in Jobs, Call(t, where, j),
           where \in {"check", "begin", "add", "reset", "end"} \/ j.then = "end"
               => j.view \in Views
    PROVE  ThreadsOK'
  BY DEF ThreadsOK, Call

(* A thread returns from a call.                                           *)
LEMMA ReturnType ==
    ASSUME ThreadsOK, NEW t \in Threads, Return(t)
    PROVE  ThreadsOK'
<1>1. job[t] \in Jobs /\ job[t].then \in {"idle", "end", "rearm"} /\ job[t].then \in PCs
  BY DEF ThreadsOK, Jobs, PCs
<1>2. CASE job[t].then = "end"
  <2>1. job[t].view \in Views /\ Call(t, "end", job[t])
    BY <1>2 DEF ThreadsOK, Return
  <2> QED
    BY <1>1, <1>2, <2>1, CallType
<1>3. CASE job[t].then # "end"
  <2>1. Call(t, job[t].then, NoJob)
    BY <1>3 DEF Return
  <2>2. NoJob.then # "end"
    BY DEF NoJob
  <2> QED
    BY <1>1, <1>3, <2>1, <2>2, NoJobType, CallType
<1> QED
  BY <1>2, <1>3

(* A view serializes itself.                                               *)
LEMMA DoSerializeType ==
    ASSUME ThreadsOK, NEW t \in Threads, NEW v \in Views, NEW full \in BOOLEAN,
           NEW b \in MaybeBusy, NEW mode \in Modes, do_serialize(t, v, full, b, mode)
    PROVE  ThreadsOK'
<1> DEFINE j == [view |-> v, full |-> full, busy |-> b, mode |-> mode,
                 then |-> "end", result |-> "OK"]
<1>1. j \in Jobs /\ j.view \in Views
  BY DEF Jobs, Results, DcpdResults
<1>2. Call(t, "check", j)
  BY DEF do_serialize
<1> HIDE DEF j
<1> QED
  BY <1>1, <1>2, CallType DEF PCs

LEMMA SerializeType ==
    ASSUME ThreadsOK, NEW t \in Threads, NEW v \in Views, NEW mode \in Modes,
           serialize(t, v, mode)
    PROVE  ThreadsOK'
  BY DoSerializeType DEF serialize, MaybeBusy, ThreadsOK, thread_vars

LEMMA UpdateType ==
    ASSUME ThreadsOK, NEW t \in Threads, NEW v \in Views, NEW b \in MaybeBusy,
           NEW mode \in Modes, update(t, v, b, mode)
    PROVE  ThreadsOK'
<1>1. CASE v \in Silent
  BY <1>1 DEF update, ThreadsOK, thread_vars
<1>2. CASE v \notin Silent
  <2>1. do_serialize(t, v, v \in Browsers, b, mode)
    BY <1>2 DEF update
  <2>2. (v \in Browsers) \in BOOLEAN
    OBVIOUS
  <2> QED
    BY <2>1, <2>2, DoSerializeType
<1> QED
  BY <1>1, <1>2

(* The main loop delivers a result.                                        *)
LEMMA ResultType ==
    ASSUME ThreadsOK, NEW r \in Results, NEW then \in {"idle", "rearm"},
           serialization_result(r, then)
    PROVE  ThreadsOK'
<1> DEFINE j == [NoJob EXCEPT !.result = r, !.then = then]
<1>1. j \in Jobs /\ j.then # "end"
  BY NoJobType DEF Jobs, NoJob
<1>2. Call("main", "finish", j)
  BY DEF serialization_result
<1> HIDE DEF j
<1> QED
  BY <1>1, <1>2, CallType DEF PCs

(* The observer keeps the timer and the deferred calls in order.           *)
LEMMA ObserverType ==
    ASSUME TimerOK, NEW st \in {IDLE, STARTED_ASYNC, WAIT_FOR_ANSWER},
           transaction_observer(st), UNCHANGED fired
    PROVE  TimerOK'
  BY DEF TimerOK, transaction_observer, timer_start, timer_stop

(***************************************************************************)
(* Type correctness                                                        *)
(***************************************************************************)
(* The steps of a thread in do_serialize(), start_transaction() and        *)
(* process() preserve type correctness.                                    *)
LEMMA StepType ==
    ASSUME TypeOK, NEW t \in Threads, Step(t)
    PROVE  TypeOK'
<1> USE DEF TypeOK
<1>1. CASE CheckSerializing(t)
  <2>1. ThreadsOK'
    <3>1. CASE serializing[job[t].view]
      BY <1>1, <3>1, CallType, NoJobType DEF CheckSerializing, NoJob, PCs
    <3>2. CASE ~serializing[job[t].view]
      <4>1. job[t].view \in Views
        BY <1>1 DEF CheckSerializing, At, ThreadsOK
      <4> QED
        BY <1>1, <3>2, <4>1, GotoType DEF CheckSerializing, PCs
    <3> QED
      BY <3>1, <3>2
  <2>2. BusyOK'
    BY <1>1 DEF CheckSerializing, BusyOK
  <2> QED
    BY <1>1, <2>1, <2>2 DEF CheckSerializing, ViewsOK, QueueOK, TimerOK, DcpdOK,
       view_vars, queue_vars, timer_vars, dcpd_vars
<1>2. CASE SerializeBegin(t)
  <2>1. job[t].view \in Views
    BY <1>2 DEF SerializeBegin, At, ThreadsOK
  <2>2. ThreadsOK'
    BY <1>2, <2>1, GotoType DEF SerializeBegin, PCs
  <2> QED
    BY <1>2, <2>1, <2>2 DEF SerializeBegin, ViewsOK, QueueOK, TimerOK, DcpdOK, BusyOK,
       queue_vars, timer_vars, dcpd_vars, busy_vars
<1>3. CASE Add(t)
  <2>1. job[t].view \in Views /\ job[t].full \in BOOLEAN /\ job[t].busy \in MaybeBusy
    BY <1>3 DEF Add, At, ThreadsOK, Jobs
  <2>2. ThreadsOK'
    BY <1>3, <2>1, GotoType DEF Add, PCs
  <2>3. q' \in Seq(Data)
    BY <1>3, <2>1, AddType DEF Add, ViewsOK, QueueOK
  <2>4. lost_busy' \in BOOLEAN
    BY <1>3 DEF Add, BusyOK
  <2> QED
    BY <1>3, <2>2, <2>3, <2>4 DEF Add, ViewsOK, QueueOK, TimerOK, DcpdOK, BusyOK,
       view_vars, timer_vars, dcpd_vars
<1>4. CASE ResetFlags(t)
  <2>1. job[t].view \in Views
    BY <1>4 DEF ResetFlags, At, ThreadsOK
  <2>2. ThreadsOK'
    BY <1>4, GotoType DEF ResetFlags, PCs
  <2> QED
    BY <1>4, <2>1, <2>2 DEF ResetFlags, ViewsOK, QueueOK, TimerOK, DcpdOK, BusyOK,
       queue_vars, timer_vars, dcpd_vars, busy_vars
<1>5. CASE StartTransaction(t)
  <2>1. ThreadsOK'
    BY <1>5, ReturnType, GotoType DEF StartTransaction, PCs
  <2>2. tx' \in {IDLE, STARTED_ASYNC, WAIT_FOR_ANSWER} /\ TimerOK'
    <3>1. CASE UNCHANGED <<tx, timer_vars, deferred>>
      BY <3>1 DEF QueueOK, TimerOK, timer_vars
    <3>2. CASE tx' = start_async(tx) /\ transaction_observer(tx') /\ UNCHANGED fired
      <4>1. tx' \in {IDLE, STARTED_ASYNC, WAIT_FOR_ANSWER}
        BY <3>2 DEF start_async, QueueOK
      <4> QED
        BY <3>2, <4>1, ObserverType
    <3> QED
      BY <1>5, <3>1, <3>2 DEF StartTransaction
  <2> QED
    BY <1>5, <2>1, <2>2 DEF StartTransaction, ViewsOK, QueueOK, DcpdOK, BusyOK,
       view_vars, dcpd_vars, busy_vars
<1>6. CASE ProcessNothing(t)
  <2>1. ThreadsOK'
    BY <1>6, ReturnType DEF ProcessNothing
  <2> QED
    BY <1>6, <2>1 DEF ProcessNothing, ViewsOK, QueueOK, TimerOK, DcpdOK, BusyOK,
       view_vars, queue_vars, timer_vars, dcpd_vars, busy_vars
<1>7. CASE ProcessRefused(t)
  <2>1. ThreadsOK'
    BY <1>7, GotoType DEF ProcessRefused, PCs
  <2>2. Head(q) \in Data /\ q' \in Seq(Data)
    BY <1>7, HeadTail DEF ProcessRefused, QueueOK
  <2>3. tx' = IDLE
    BY <1>7 DEF ProcessRefused, QueueOK, start, start_ok, abort, abort_ok, done, done_ok
  <2>4. TimerOK'
    BY <1>7, <2>3, ObserverType DEF ProcessRefused
  <2>5. Head(q).view \in Views
    BY <2>2 DEF Data
  <2> QED
    BY <1>7, <2>1, <2>2, <2>3, <2>4, <2>5 DEF ProcessRefused, ViewsOK, QueueOK, DcpdOK,
       BusyOK, view_vars, dcpd_vars
<1>8. CASE ProcessWritten(t)
  <2>1. ThreadsOK'
    BY <1>8, GotoType DEF ProcessWritten, PCs
  <2>2. Head(q) \in Data /\ Tail(q) \in Seq(Data)
    BY <1>8, HeadTail DEF ProcessWritten, QueueOK
  <2>3. tx' = WAIT_FOR_ANSWER
    BY <1>8 DEF ProcessWritten, QueueOK, start, start_ok, commit, commit_ok
  <2>4. TimerOK'
    BY <1>8, <2>3, ObserverType DEF ProcessWritten
  <2>5. Head(q).view \in Views /\ Head(q).flags \in SUBSET Flags /\ Head(q).busy \in MaybeBusy
    BY <2>2 DEF Data
  <2>6. PICK loads \in BOOLEAN :
          /\ busy' = (busy \/ loads)
          /\ sent_busy' = append_busy_value(Head(q).busy, loads)
          /\ lost_busy' = IF loads THEN Head(q).busy = "yes" /\ (busy \/ serializing[Head(q).view])
                                   ELSE lost_busy
          /\ owed' = [owed EXCEPT ![Head(q).view] =
                         IF Head(q).full THEN {} ELSE @ \ Head(q).flags]
          /\ IF loads /\ ~busy /\ ~serializing[Head(q).view]
             THEN /\ q' = add(Tail(q), Head(q).view, TRUE, update_flags[Head(q).view], "yes")
                  /\ update_flags' = [update_flags EXCEPT ![Head(q).view] = {}]
             ELSE q' = Tail(q) /\ UNCHANGED update_flags
    BY <1>8 DEF ProcessWritten
  <2>7. busy' \in BOOLEAN /\ lost_busy' \in BOOLEAN
    <3>1. CASE loads
      BY <2>5, <2>6, <3>1 DEF BusyOK, ViewsOK
    <3>2. CASE ~loads
      BY <2>6, <3>2 DEF BusyOK
    <3> QED
      BY <3>1, <3>2
  <2>8. sent_busy' \in {"yes", "no"}
    BY <2>5, <2>6 DEF append_busy_value, BusyOK, MaybeBusy
  <2>9. ViewsOK'
    BY <1>8, <2>5, <2>6 DEF ProcessWritten, ViewsOK
  <2>10. q' \in Seq(Data)
    <3>1. update_flags[Head(q).view] \in SUBSET Flags /\ "yes" \in MaybeBusy
      BY <2>5 DEF ViewsOK, MaybeBusy
    <3>2. add(Tail(q), Head(q).view, TRUE, update_flags[Head(q).view], "yes") \in Seq(Data)
      BY <2>2, <2>5, <3>1, AddType
    <3> QED
      BY <2>2, <2>6, <3>2
  <2>11. DcpdOK'
    BY <1>8 DEF ProcessWritten, DcpdOK
  <2>12. QueueOK'
    BY <1>8, <2>2, <2>3, <2>10 DEF ProcessWritten, QueueOK
  <2> QED
    BY <2>1, <2>4, <2>7, <2>8, <2>9, <2>11, <2>12 DEF BusyOK
<1>9. CASE SerializeEnd(t)
  <2>1. job[t].view \in Views
    BY <1>9 DEF SerializeEnd, At, ThreadsOK
  <2>2. ThreadsOK'
    BY <1>9, CallType, NoJobType DEF SerializeEnd, NoJob, PCs
  <2> QED
    BY <1>9, <2>1, <2>2 DEF SerializeEnd, ViewsOK, QueueOK, TimerOK, DcpdOK, BusyOK,
       queue_vars, timer_vars, dcpd_vars, busy_vars
<1> QED
  BY <1>1, <1>2, <1>3, <1>4, <1>5, <1>6, <1>7, <1>8, <1>9 DEF Step

(* So do the steps of the main loop.                                       *)
LEMMA MainStepType ==
    ASSUME TypeOK, MainStep
    PROVE  TypeOK'
<1> USE DEF TypeOK
<1>1. CASE FinishIdle
  <2>1. ThreadsOK'
    BY <1>1, GotoType DEF FinishIdle, PCs
  <2> QED
    BY <1>1, <2>1 DEF FinishIdle, ViewsOK, QueueOK, TimerOK, DcpdOK, BusyOK,
       view_vars, queue_vars, timer_vars, dcpd_vars, busy_vars
<1>2. CASE FinishAborted
  <2>1. ThreadsOK'
    BY <1>2, GotoType DEF FinishAborted, PCs
  <2> QED
    BY <1>2, <2>1 DEF FinishAborted, ViewsOK, QueueOK, TimerOK, DcpdOK, BusyOK,
       view_vars, queue_vars, timer_vars, dcpd_vars, busy_vars
<1>3. CASE FinishOK
  <2>1. ThreadsOK'
    BY <1>3, GotoType, ReturnType DEF FinishOK, PCs
  <2>2. tx' = IDLE
    BY <1>3 DEF FinishOK, is_in_progress, abort, abort_ok, done, done_ok
  <2>3. TimerOK'
    BY <1>3, <2>2, ObserverType DEF FinishOK
  <2> QED
    BY <1>3, <2>1, <2>2, <2>3 DEF FinishOK, ViewsOK, QueueOK, DcpdOK, BusyOK,
       view_vars, dcpd_vars, busy_vars
<1>4. CASE FinishFailed
  <2>1. ThreadsOK'
    BY <1>4, ReturnType DEF FinishFailed
  <2>2. tx' = IDLE
    BY <1>4 DEF FinishFailed, is_in_progress, abort, abort_ok, done, done_ok
  <2>3. TimerOK'
    BY <1>4, <2>2, ObserverType DEF FinishFailed
  <2> QED
    BY <1>4, <2>1, <2>2, <2>3 DEF FinishFailed, ViewsOK, QueueOK, DcpdOK, BusyOK,
       view_vars, dcpd_vars, busy_vars
<1>5. CASE TimerDisable
  <2>1. ThreadsOK'
    BY <1>5, GotoType DEF TimerDisable, PCs
  <2> QED
    BY <1>5, <2>1 DEF TimerDisable, ViewsOK, QueueOK, TimerOK, DcpdOK, BusyOK,
       view_vars, queue_vars, dcpd_vars, busy_vars
<1>6. CASE DeferredCall
  <2>1. ThreadsOK'
    BY <1>6, GotoType DEF DeferredCall, PCs
  <2> QED
    BY <1>6, <2>1 DEF DeferredCall, ViewsOK, QueueOK, TimerOK, DcpdOK, BusyOK,
       view_vars, queue_vars, timer_vars, dcpd_vars, busy_vars
<1>7. CASE ReadAnswer
  <2>1. Head(answers) \in DcpdResults /\ answers' \in Seq(DcpdResults)
    BY <1>7, HeadTail DEF ReadAnswer, DcpdOK
  <2>2. ThreadsOK'
    BY <1>7, <2>1, ResultType DEF ReadAnswer, Results
  <2> QED
    BY <1>7, <2>1, <2>2 DEF ReadAnswer, ViewsOK, QueueOK, TimerOK, DcpdOK, BusyOK,
       view_vars, queue_vars, timer_vars, busy_vars
<1>8. CASE TimerIgnored
  BY <1>8 DEF TimerIgnored, ViewsOK, QueueOK, TimerOK, ThreadsOK, DcpdOK, BusyOK,
     view_vars, queue_vars, thread_vars, dcpd_vars, busy_vars
<1>9. CASE TimerExpired
  <2>1. ThreadsOK'
    BY <1>9, ResultType DEF TimerExpired, Results
  <2>2. TimerOK'
    BY <1>9 DEF TimerExpired, TimerOK
  <2>3. DcpdOK'
    BY <1>9 DEF TimerExpired, DcpdOK
  <2> QED
    BY <1>9, <2>1, <2>2, <2>3 DEF TimerExpired, ViewsOK, QueueOK, BusyOK,
       view_vars, queue_vars, busy_vars
<1> QED
  BY <1>1, <1>2, <1>3, <1>4, <1>5, <1>6, <1>7, <1>8, <1>9 DEF MainStep, TimerFires, Finish

(* So do the requests that make views serialize themselves.                *)
LEMMA RequestsType ==
    ASSUME TypeOK, Requests
    PROVE  TypeOK'
<1> USE DEF TypeOK
<1>1. ASSUME NEW v \in Views, NEW f \in Flags, NEW mode \in Modes, FlagsRaised(v, {f}, mode)
      PROVE  TypeOK'
  <2>1. ThreadsOK'
    <3>1. CASE v = active_view
      BY <1>1, <3>1, UpdateType DEF FlagsRaised, MaybeBusy
    <3>2. CASE v # active_view
      BY <1>1, <3>2 DEF FlagsRaised, ThreadsOK, thread_vars
    <3> QED
      BY <3>1, <3>2
  <2> QED
    BY <1>1, <2>1 DEF FlagsRaised, ViewsOK, QueueOK, TimerOK, DcpdOK, BusyOK,
       queue_vars, timer_vars, dcpd_vars, busy_vars
<1>2. ASSUME NEW v \in Views, NEW mode \in Modes, ViewForced(v, mode)
      PROVE  TypeOK'
  <2>1. ThreadsOK'
    BY <1>2, SerializeType DEF ViewForced
  <2> QED
    BY <1>2, <2>1 DEF ViewForced, ViewsOK, QueueOK, TimerOK, DcpdOK, BusyOK,
       view_vars, queue_vars, timer_vars, dcpd_vars, busy_vars
<1>3. ASSUME NEW v \in Views, ActivateView(v)
      PROVE  TypeOK'
  <2>1. ThreadsOK'
    BY <1>3, SerializeType DEF ActivateView, Modes
  <2> QED
    BY <1>3, <2>1 DEF ActivateView, ViewsOK, QueueOK, TimerOK, DcpdOK, BusyOK,
       queue_vars, timer_vars, dcpd_vars, busy_vars
<1>4. CASE BusyChanged
  <2>1. (IF busy THEN "no" ELSE "yes") \in MaybeBusy /\ "FORCE_ASYNC" \in Modes
    BY DEF MaybeBusy, Modes
  <2>2. ThreadsOK'
    BY <1>4, <2>1, UpdateType DEF BusyChanged, ViewsOK
  <2>3. BusyOK'
    BY <1>4 DEF BusyChanged, BusyOK
  <2> QED
    BY <1>4, <2>2, <2>3 DEF BusyChanged, ViewsOK, QueueOK, TimerOK, DcpdOK,
       view_vars, queue_vars, timer_vars, dcpd_vars
<1>5. CASE LanguageChanged
  <2>1. ThreadsOK'
    BY <1>5, SerializeType DEF LanguageChanged, ViewsOK, Modes
  <2> QED
    BY <1>5, <2>1 DEF LanguageChanged, ViewsOK, QueueOK, TimerOK, DcpdOK, BusyOK,
       view_vars, queue_vars, timer_vars, dcpd_vars, busy_vars
<1> QED
  BY <1>1, <1>2, <1>3, <1>4, <1>5 DEF Requests

(* So does dcpd, and a stuttering step.                                    *)
LEMMA DcpdType ==
    ASSUME TypeOK, DcpdAnswers \/ DcpdForgets \/ UNCHANGED vars
    PROVE  TypeOK'
<1> USE DEF TypeOK
<1>1. CASE DcpdAnswers
  <2>1. DcpdOK'
    BY <1>1, DcpdAssumption DEF DcpdAnswers, DcpdOK
  <2> QED
    BY <1>1, <2>1 DEF DcpdAnswers, ViewsOK, QueueOK, TimerOK, ThreadsOK, BusyOK,
       view_vars, queue_vars, timer_vars, thread_vars, busy_vars
<1>2. CASE DcpdForgets
  BY <1>2 DEF DcpdForgets, ViewsOK, QueueOK, TimerOK, ThreadsOK, DcpdOK, BusyOK,
     view_vars, queue_vars, timer_vars, thread_vars, busy_vars
<1>3. CASE UNCHANGED vars
  BY <1>3 DEF vars, ViewsOK, QueueOK, TimerOK, ThreadsOK, DcpdOK, BusyOK,
     view_vars, queue_vars, timer_vars, thread_vars, dcpd_vars, busy_vars
<1> QED
  BY <1>1, <1>2, <1>3

LEMMA InitType == Init => TypeOK
<1> SUFFICES ASSUME Init PROVE TypeOK
  OBVIOUS
<1>1. ThreadsOK
  BY NoJobType DEF Init, ThreadsOK, PCs, NoJob
<1>2. ViewsOK
  BY DEF Init, ViewsOK
<1>3. QueueOK
  BY DEF Init, QueueOK
<1>4. TimerOK
  BY DEF Init, TimerOK
<1>5. DcpdOK
  BY DEF Init, DcpdOK
<1>6. BusyOK
  BY DEF Init, BusyOK
<1> QED
  BY <1>1, <1>2, <1>3, <1>4, <1>5, <1>6 DEF TypeOK

(* Every variable has its type in every reachable state; in particular, a  *)
(* thread that serializes a view still knows its view when it comes back   *)
(* from start_transaction() to clear the view's is_serializing_ flag.      *)
THEOREM TypeCorrect == Spec => []TypeOK
<1>1. TypeOK /\ [Next]_vars => TypeOK'
  BY StepType, MainStepType, RequestsType, DcpdType DEF Next
<1> QED
  BY InitType, <1>1, PTL DEF Spec

(***************************************************************************)
(* Ownership of active_.data_                                              *)
(***************************************************************************)
(* No interleaving of the two threads, of answers in time, late answers    *)
(* and timeouts leaves data behind without a transaction, or a transaction *)
(* that waits for its answer without data.                                 *)
THEOREM ActiveDataHolds == Spec => []ActiveData
<1>1. Init => ActiveData
  BY DEF Init, ActiveData
<1>2. TypeOK /\ ActiveData /\ [Next]_vars => ActiveData'
  <2> SUFFICES ASSUME TypeOK, ActiveData, [Next]_vars
               PROVE  ActiveData'
    OBVIOUS
  <2> USE DEF ActiveData
  <2>1. CASE UNCHANGED <<tx, data>>
    BY <2>1
  <2>2. ASSUME NEW t \in Threads, StartTransaction(t)
        PROVE  ActiveData'
    BY <2>2 DEF StartTransaction, start_async, is_in_progress
  <2>3. ASSUME NEW t \in Threads, ProcessRefused(t)
        PROVE  ActiveData'
    BY <2>3 DEF ProcessRefused, TypeOK, QueueOK, start, start_ok, abort, abort_ok, done, done_ok
  <2>4. ASSUME NEW t \in Threads, ProcessWritten(t)
        PROVE  ActiveData'
    <3>1. Head(q) \in Data
      BY <2>4, HeadTail DEF ProcessWritten, TypeOK, QueueOK
    <3>2. tx' = WAIT_FOR_ANSWER /\ data' = Head(q)
      BY <2>4 DEF ProcessWritten, TypeOK, QueueOK, start, start_ok, commit, commit_ok
    <3> QED
      BY <3>1, <3>2, NoneAssumption
  <2>5. CASE FinishOK
    BY <2>5 DEF FinishOK, is_in_progress, abort, abort_ok, done, done_ok
  <2>6. CASE FinishFailed
    BY <2>6 DEF FinishFailed, is_in_progress, abort, abort_ok, done, done_ok
  <2>7. ASSUME NEW t \in Threads,
               \/ CheckSerializing(t) \/ SerializeBegin(t) \/ Add(t) \/ ResetFlags(t)
               \/ ProcessNothing(t) \/ SerializeEnd(t)
        PROVE  UNCHANGED <<tx, data>>
    BY <2>7 DEF CheckSerializing, SerializeBegin, Add, ResetFlags, ProcessNothing,
       SerializeEnd, queue_vars
  <2>8. ASSUME FinishIdle \/ FinishAborted \/ TimerDisable \/ DeferredCall \/ ReadAnswer
                   \/ TimerIgnored \/ TimerExpired
        PROVE  UNCHANGED <<tx, data>>
    BY <2>8 DEF FinishIdle, FinishAborted, TimerDisable, DeferredCall, ReadAnswer,
       TimerIgnored, TimerExpired, queue_vars
  <2>9. ASSUME Requests \/ DcpdAnswers \/ DcpdForgets \/ UNCHANGED vars
        PROVE  UNCHANGED <<tx, data>>
    BY <2>9 DEF Requests, FlagsRaised, ViewForced, ActivateView, BusyChanged,
       LanguageChanged, DcpdAnswers, DcpdForgets, vars, queue_vars
  <2> QED
    BY <2>1, <2>2, <2>3, <2>4, <2>5, <2>6, <2>7, <2>8, <2>9
       DEF Next, Step, MainStep, TimerFires, Finish
<1> QED
  BY <1>1, <1>2, TypeCorrect, PTL DEF Spec

(***************************************************************************)
(* Deferred transactions                                                   *)
(***************************************************************************)
(* Whoever defers a transaction to the main loop, and whatever happens in  *)
(* between, the main loop is going to find it and has something to send.   *)
THEOREM AsyncScheduledHolds == Spec => []AsyncScheduled
<1>1. Init => AsyncScheduled
  BY DEF Init, AsyncScheduled
<1>2. TypeOK /\ AsyncScheduled /\ [Next]_vars => AsyncScheduled'
  <2> SUFFICES ASSUME TypeOK, AsyncScheduled, [Next]_vars
               PROVE  AsyncScheduled'
    OBVIOUS
  <2> USE DEF AsyncScheduled, TypeOK
  <2>1. ASSUME NEW t \in Threads, CheckSerializing(t) \/ SerializeBegin(t) \/ ResetFlags(t)
        PROVE  AsyncScheduled'
    BY <2>1 DEF CheckSerializing, SerializeBegin, ResetFlags, At, Goto, Call, NoJob,
       ThreadsOK, queue_vars
  <2>2. ASSUME NEW t \in Threads, Add(t)
        PROVE  AsyncScheduled'
    <3>1. pc["main"] = "process" => pc'["main"] = "process"
      BY <2>2 DEF Add, At, Goto, ThreadsOK
    <3>2. q # <<>> => q' # <<>>
      BY <2>2, AddNotEmpty DEF Add, QueueOK
    <3> QED
      BY <2>2, <3>1, <3>2 DEF Add
  <2>3. ASSUME NEW t \in Threads, StartTransaction(t)
        PROVE  AsyncScheduled'
    <3>1. pc["main"] = "process" => pc'["main"] = "process"
      BY <2>3 DEF StartTransaction, At, Goto, Return, Call, ThreadsOK
    <3>2. CASE UNCHANGED <<tx, timer_vars, deferred>>
      BY <2>3, <3>1, <3>2 DEF StartTransaction
    <3>3. CASE q # <<>> /\ tx' = start_async(tx) /\ transaction_observer(tx') /\ ~is_in_progress(tx)
      <4>1. deferred' = deferred + 1
        BY <3>3 DEF start_async, is_in_progress, transaction_observer
      <4> QED
        BY <2>3, <3>3, <4>1 DEF StartTransaction, TimerOK
    <3> QED
      BY <2>3, <3>2, <3>3 DEF StartTransaction
  <2>4. ASSUME NEW t \in Threads, ProcessNothing(t)
        PROVE  AsyncScheduled'
    BY <2>4 DEF ProcessNothing, start_ok, queue_vars
  <2>5. ASSUME NEW t \in Threads, ProcessRefused(t)
        PROVE  AsyncScheduled'
    BY <2>5 DEF ProcessRefused, QueueOK, start, start_ok, abort, abort_ok, done, done_ok
  <2>6. ASSUME NEW t \in Threads, ProcessWritten(t)
        PROVE  AsyncScheduled'
    BY <2>6 DEF ProcessWritten, QueueOK, start, start_ok, commit, commit_ok
  <2>7. ASSUME NEW t \in Threads, SerializeEnd(t)
        PROVE  AsyncScheduled'
    BY <2>7 DEF SerializeEnd, At, Call, ThreadsOK, queue_vars
  <2>8. CASE FinishOK \/ FinishFailed
    BY <2>8 DEF FinishOK, FinishFailed, is_in_progress, abort, abort_ok, done, done_ok
  <2>9. CASE FinishIdle \/ FinishAborted \/ TimerDisable
    BY <2>9 DEF FinishIdle, FinishAborted, TimerDisable, At, Goto, ThreadsOK, queue_vars
  <2>10. CASE DeferredCall
    BY <2>10 DEF DeferredCall, Goto, ThreadsOK, queue_vars
  <2>11. CASE ReadAnswer \/ TimerExpired
    BY <2>11 DEF ReadAnswer, TimerExpired, Idle, At, serialization_result, Call, ThreadsOK,
       queue_vars
  <2>12. CASE TimerIgnored \/ DcpdAnswers \/ DcpdForgets \/ UNCHANGED vars
    BY <2>12 DEF TimerIgnored, DcpdAnswers, DcpdForgets, vars, queue_vars, thread_vars
  <2>13. CASE Requests
    <3>1. pc["main"] = "process" => pc'["main"] = "process"
      BY <2>13 DEF Requests, FlagsRaised, ViewForced, ActivateView, BusyChanged,
         LanguageChanged, MayCall, Idle, At, serialize, update, do_serialize, Call, ThreadsOK,
         thread_vars
    <3>2. UNCHANGED <<q, tx, deferred>>
      BY <2>13 DEF Requests, FlagsRaised, ViewForced, ActivateView, BusyChanged,
         LanguageChanged, queue_vars
    <3> QED
      BY <3>1, <3>2
  <2> QED
    BY <2>1, <2>2, <2>3, <2>4, <2>5, <2>6, <2>7, <2>8, <2>9, <2>10, <2>11, <2>12, <2>13
       DEF Next, Step, MainStep, TimerFires, Finish
<1> QED
  BY <1>1, <1>2, TypeCorrect, PTL DEF Spec

(***************************************************************************)
(* Coalescing                                                              *)
(***************************************************************************)
Distinct(qq) == \A i, k \in DOMAIN qq : qq[i].view = qq[k].view => i = k

(* add() merges into the entry there is, or appends the only one.          *)
LEMMA AddDistinct ==
    ASSUME NEW qq \in Seq(Data), Distinct(qq),
           NEW v \in Views, NEW full \in BOOLEAN, NEW fl \in SUBSET Flags, NEW b \in MaybeBusy
    PROVE  Distinct(add(qq, v, full, fl, b))
<1> DEFINE r == add(qq, v, full, fl, b)
<1>1. CASE v \in QueuedViews(qq)
  <2>1. r = [i \in DOMAIN qq |-> IF qq[i].view = v THEN merge(qq[i], full, fl, b) ELSE qq[i]]
    BY <1>1 DEF add
  <2>2. \A i \in DOMAIN qq : qq[i] \in Data
    OBVIOUS
  <2>3. \A i \in DOMAIN qq : merge(qq[i], full, fl, b).view = qq[i].view
    BY <2>2 DEF merge, Data
  <2>4. DOMAIN r = DOMAIN qq /\ \A i \in DOMAIN qq : r[i].view = qq[i].view
    BY <2>1, <2>3
  <2> QED
    BY <2>4 DEF Distinct
<1>2. CASE v \notin QueuedViews(qq)
  <2> DEFINE e == [view |-> v, full |-> full, flags |-> fl, busy |-> b]
  <2>1. r = Append(qq, e) /\ e \in Data /\ e.view = v
    BY <1>2 DEF add, Data
  <2>2. DOMAIN r = 1 .. Len(qq) + 1 /\ DOMAIN qq = 1 .. Len(qq) /\ Len(qq) \in Nat
    BY <2>1
  <2>3. /\ \A i \in DOMAIN qq : r[i] = qq[i] /\ qq[i].view # v
        /\ r[Len(qq) + 1].view = v
    BY <1>2, <2>1 DEF QueuedViews
  <2>4. \A i \in DOMAIN r : i \in DOMAIN qq \/ i = Len(qq) + 1
    BY <2>2
  <2>5. ASSUME NEW i \in DOMAIN r, NEW k \in DOMAIN r, r[i].view = r[k].view
        PROVE  i = k
    <3> HIDE DEF r
    <3>1. CASE i \in DOMAIN qq /\ k \in DOMAIN qq
      BY <2>3, <2>5, <3>1 DEF Distinct
    <3>2. CASE i = Len(qq) + 1 \/ k = Len(qq) + 1
      BY <2>3, <2>4, <2>5, <3>2
    <3> QED
      BY <2>4, <3>1, <3>2
  <2> QED
    BY <2>5 DEF Distinct
<1> QED
  BY <1>1, <1>2

LEMMA TailDistinct ==
    ASSUME NEW qq \in Seq(Data), qq # <<>>, Distinct(qq)
    PROVE  Distinct(Tail(qq))
<1>1. /\ DOMAIN Tail(qq) = 1 .. Len(qq) - 1 /\ DOMAIN qq = 1 .. Len(qq) /\ Len(qq) \in Nat
      /\ \A i \in DOMAIN Tail(qq) : Tail(qq)[i] = qq[i + 1]
  OBVIOUS
<1>2. SUFFICES ASSUME NEW i \in DOMAIN Tail(qq), NEW k \in DOMAIN Tail(qq),
                      Tail(qq)[i].view = Tail(qq)[k].view
               PROVE  i = k
  BY DEF Distinct
<1>3. i + 1 \in DOMAIN qq /\ k + 1 \in DOMAIN qq /\ qq[i + 1].view = qq[k + 1].view
  BY <1>1, <1>2
<1>4. i + 1 = k + 1
  BY <1>3 DEF Distinct
<1> QED
  BY <1>1, <1>4

(* No view waits in the queue twice, for any number of views: the queue    *)
(* cannot grow beyond the number of views, however often they ask.         *)
THEOREM OneEntryPerViewHolds == Spec => []OneEntryPerView
<1>1. Init => OneEntryPerView
  BY DEF Init, OneEntryPerView
<1>2. TypeOK /\ OneEntryPerView /\ [Next]_vars => OneEntryPerView'
  <2> SUFFICES ASSUME TypeOK, OneEntryPerView, [Next]_vars
               PROVE  Distinct(q')
    BY DEF OneEntryPerView, Distinct
  <2>1. Distinct(q) /\ q \in Seq(Data)
    BY DEF OneEntryPerView, Distinct, TypeOK, QueueOK
  <2>2. CASE UNCHANGED q
    BY <2>1, <2>2
  <2>3. ASSUME NEW t \in Threads, Add(t)
        PROVE  Distinct(q')
    <3>1. /\ job[t].view \in Views /\ job[t].full \in BOOLEAN /\ job[t].busy \in MaybeBusy
          /\ update_flags[job[t].view] \in SUBSET Flags
      BY <2>3 DEF Add, At, TypeOK, ThreadsOK, ViewsOK, Jobs
    <3> QED
      BY <2>1, <2>3, <3>1, AddDistinct DEF Add
  <2>4. ASSUME NEW t \in Threads, ProcessRefused(t)
        PROVE  Distinct(q')
    BY <2>1, <2>4, TailDistinct DEF ProcessRefused
  <2>5. ASSUME NEW t \in Threads, ProcessWritten(t)
        PROVE  Distinct(q')
    <3>1. q # <<>> /\ Tail(q) \in Seq(Data) /\ Distinct(Tail(q))
      BY <2>1, <2>5, HeadTail, TailDistinct DEF ProcessWritten
    <3>2. /\ Head(q).view \in Views /\ "yes" \in MaybeBusy
          /\ update_flags[Head(q).view] \in SUBSET Flags
      <4>1. Head(q) \in Data
        BY <2>1, <3>1, HeadTail
      <4>2. Head(q).view \in Views /\ "yes" \in MaybeBusy
        BY <4>1 DEF Data, MaybeBusy
      <4> QED
        BY <4>2 DEF TypeOK, ViewsOK
    <3>3. Distinct(add(Tail(q), Head(q).view, TRUE, update_flags[Head(q).view], "yes"))
      BY <3>1, <3>2, AddDistinct
    <3>4. \/ q' = add(Tail(q), Head(q).view, TRUE, update_flags[Head(q).view], "yes")
          \/ q' = Tail(q)
      BY <2>5 DEF ProcessWritten
    <3> QED
      BY <3>1, <3>3, <3>4
  <2>6. ASSUME NEW t \in Threads,
               \/ CheckSerializing(t) \/ SerializeBegin(t) \/ ResetFlags(t)
               \/ StartTransaction(t) \/ ProcessNothing(t) \/ SerializeEnd(t)
        PROVE  UNCHANGED q
    BY <2>6 DEF CheckSerializing, SerializeBegin, ResetFlags, StartTransaction,
       ProcessNothing, SerializeEnd, queue_vars
  <2>7. ASSUME MainStep
        PROVE  UNCHANGED q
    BY <2>7 DEF MainStep, TimerFires, Finish, FinishIdle, FinishAborted, FinishOK, FinishFailed,
       TimerDisable, DeferredCall, ReadAnswer, TimerIgnored, TimerExpired, queue_vars
  <2>8. ASSUME Requests \/ DcpdAnswers \/ DcpdForgets \/ UNCHANGED vars
        PROVE  UNCHANGED q
    BY <2>8 DEF Requests, FlagsRaised, ViewForced, ActivateView, BusyChanged,
       LanguageChanged, DcpdAnswers, DcpdForgets, vars, queue_vars
  <2> QED
    BY <2>2, <2>3, <2>4, <2>5, <2>6, <2>7, <2>8 DEF Next, Step
<1> QED
  BY <1>1, <1>2, TypeCorrect, PTL DEF Spec

(***************************************************************************)
(* Answers                                                                 *)
(***************************************************************************)
(* With a dcpd that answers each message, the transaction waiting for its  *)
(* answer has a single message or answer under way, and the others none.   *)
UnderWay == unanswered + Len(answers) + (IF pc["main"] = "finish" THEN 1 ELSE 0)

OneUnderWay == UnderWay = IF tx = WAIT_FOR_ANSWER THEN 1 ELSE 0

(* The main loop is never sent to deliver a result by a return.            *)
LEMMA ReturnNotToFinish ==
    ASSUME ThreadsOK, NEW t \in Threads, Return(t)
    PROVE  /\ pc'[t] # "finish"
           /\ \A u \in Threads \ {t} : pc'[u] = pc[u]
BY DEF ThreadsOK, Jobs, Return, Call

LEMMA OneUnderWayKept ==
    ASSUME Dcpd = "punctual", TypeOK, ActiveData, OneUnderWay, [Next]_vars
    PROVE  OneUnderWay'
<1> USE DEF TypeOK, OneUnderWay, UnderWay
<1>0. unanswered \in Nat /\ Len(answers) \in Nat
  BY DEF DcpdOK
<1>1. ASSUME UNCHANGED <<tx, unanswered, answers>>, pc'["main"] = "finish" <=> pc["main"] = "finish"
      PROVE  OneUnderWay'
  BY <1>1
<1>2. ASSUME NEW t \in Threads, CheckSerializing(t) \/ SerializeBegin(t) \/ Add(t)
                                   \/ ResetFlags(t) \/ SerializeEnd(t)
      PROVE  OneUnderWay'
  <2>1. pc'["main"] = "finish" <=> pc["main"] = "finish"
    BY <1>2 DEF CheckSerializing, SerializeBegin, Add, ResetFlags, SerializeEnd, At, Goto, Call,
       ThreadsOK
  <2>2. UNCHANGED <<tx, unanswered, answers>>
    BY <1>2 DEF CheckSerializing, SerializeBegin, Add, ResetFlags, SerializeEnd, queue_vars,
       dcpd_vars
  <2> QED BY <1>1, <2>1, <2>2
<1>3. ASSUME NEW t \in Threads, StartTransaction(t) PROVE OneUnderWay'
  <2>1. pc'["main"] = "finish" <=> pc["main"] = "finish"
    BY <1>3, ReturnNotToFinish DEF StartTransaction, At, Goto, ThreadsOK
  <2>2. UNCHANGED <<unanswered, answers>> /\ (tx' = WAIT_FOR_ANSWER <=> tx = WAIT_FOR_ANSWER)
    BY <1>3 DEF StartTransaction, start_async, is_in_progress, dcpd_vars
  <2> QED BY <2>1, <2>2
<1>4. ASSUME NEW t \in Threads, ProcessNothing(t) PROVE OneUnderWay'
  <2>1. pc'["main"] = "finish" <=> pc["main"] = "finish"
    BY <1>4, ReturnNotToFinish DEF ProcessNothing, InProcess, At
  <2> QED BY <1>1, <1>4, <2>1 DEF ProcessNothing, queue_vars, dcpd_vars
<1>5. ASSUME NEW t \in Threads, ProcessRefused(t) PROVE OneUnderWay'
  <2>1. pc'["main"] = "finish" <=> pc["main"] = "finish"
    BY <1>5 DEF ProcessRefused, InProcess, At, Goto, ThreadsOK
  <2>2. tx # WAIT_FOR_ANSWER /\ tx' = IDLE
    BY <1>5 DEF ProcessRefused, QueueOK, start, start_ok, abort, abort_ok, done, done_ok
  <2>3. UNCHANGED <<unanswered, answers>>
    BY <1>5 DEF ProcessRefused, dcpd_vars
  <2> QED BY <2>1, <2>2, <2>3
<1>6. ASSUME NEW t \in Threads, ProcessWritten(t) PROVE OneUnderWay'
  <2>1. pc'["main"] = "finish" <=> pc["main"] = "finish"
    BY <1>6 DEF ProcessWritten, InProcess, At, Goto, ThreadsOK
  <2>2. tx # WAIT_FOR_ANSWER /\ tx' = WAIT_FOR_ANSWER
    BY <1>6 DEF ProcessWritten, QueueOK, start, start_ok, commit, commit_ok
  <2>3. unanswered = 0
    BY <1>0, <2>2
  <2>4. unanswered' = 1 /\ answers' = answers
    BY <1>6, <2>3, DcpdAssumption DEF ProcessWritten
  <2> QED BY <1>0, <2>1, <2>2, <2>4
<1>7. CASE FinishIdle \/ FinishAborted
  BY <1>0, <1>7 DEF FinishIdle, FinishAborted, At, is_in_progress, ActiveData
<1>8. CASE FinishOK \/ FinishFailed
  <2>1. pc["main"] = "finish" /\ pc'["main"] # "finish"
    BY <1>8, ReturnNotToFinish DEF FinishOK, FinishFailed, At, Goto, ThreadsOK
  <2>2. tx' = IDLE /\ UNCHANGED <<unanswered, answers>>
    BY <1>8 DEF FinishOK, FinishFailed, is_in_progress, abort, abort_ok, done, done_ok, dcpd_vars
  <2> QED BY <1>0, <2>1, <2>2
<1>9. CASE TimerDisable \/ DeferredCall
  BY <1>1, <1>9 DEF TimerDisable, DeferredCall, Idle, At, Goto, ThreadsOK, queue_vars, dcpd_vars
<1>10. CASE ReadAnswer
  <2>1. pc["main"] # "finish" /\ pc'["main"] = "finish"
    BY <1>10 DEF ReadAnswer, Idle, At, serialization_result, Call, ThreadsOK
  <2>2. Len(answers') = Len(answers) - 1 /\ UNCHANGED <<tx, unanswered>>
    BY <1>10 DEF ReadAnswer, queue_vars, DcpdOK
  <2> QED BY <1>0, <2>1, <2>2
<1>11. CASE TimerIgnored
  BY <1>1, <1>11 DEF TimerIgnored, queue_vars, thread_vars, dcpd_vars
<1>12. CASE TimerExpired \/ DcpdForgets
  BY <1>12 DEF TimerExpired, DcpdForgets
<1>13. CASE Requests
  <2>1. UNCHANGED <<tx, unanswered, answers>>
    BY <1>13 DEF Requests, FlagsRaised, ViewForced, ActivateView, BusyChanged, LanguageChanged,
       queue_vars, dcpd_vars
  <2>2. pc'["main"] = "finish" <=> pc["main"] = "finish"
    BY <1>13 DEF Requests, FlagsRaised, ViewForced, ActivateView, BusyChanged, LanguageChanged,
       MayCall, Idle, At, serialize, update, do_serialize, Call, ThreadsOK, thread_vars
  <2> QED BY <1>1, <2>1, <2>2
<1>14. CASE DcpdAnswers
  <2>1. PICK r \in Answers : answers' = Append(answers, r)
    BY <1>14 DEF DcpdAnswers
  <2>2. Len(answers') = Len(answers) + 1
    BY <2>1 DEF DcpdOK
  <2> QED BY <1>0, <1>14, <2>2 DEF DcpdAnswers, queue_vars, thread_vars
<1>15. CASE UNCHANGED vars
  BY <1>1, <1>15 DEF vars, queue_vars, thread_vars, dcpd_vars
<1> QED
  BY <1>2, <1>3, <1>4, <1>5, <1>6, <1>7, <1>8, <1>9, <1>10, <1>11, <1>12, <1>13, <1>14, <1>15
     DEF Next, Step, MainStep, TimerFires, Finish

(* The assertion in finish_transaction(), and those in process(), never    *)
(* fail as long as dcpd answers each message in time, whatever it answers, *)
(* and also if the other thread serializes views in between.  They may     *)
(* fail when an answer arrives late.                                       *)
THEOREM AnswersHaveData ==
    ASSUME Dcpd = "punctual"
    PROVE  Spec => []AnswerHasData
<1>1. Init => OneUnderWay
  BY DEF Init, OneUnderWay, UnderWay
<1>2. TypeOK /\ ActiveData /\ OneUnderWay /\ [Next]_vars => OneUnderWay'
  BY OneUnderWayKept
<1>3. TypeOK /\ ActiveData /\ OneUnderWay => AnswerHasData
  BY DEF TypeOK, DcpdOK, ActiveData, OneUnderWay, UnderWay, AnswerHasData
<1> QED
  BY <1>1, <1>2, <1>3, TypeCorrect, ActiveDataHolds, PTL DEF Spec

(***************************************************************************)
(* The answer timeout                                                      *)
(***************************************************************************)
(* The only source attached to the main context is that of the timer, or   *)
(* the one being dispatched.  While it is dispatched, the other thread     *)
(* rests.                                                                  *)
TimerAccounted ==
    /\ fired = 0 =>
          /\ live = {timer_id} \ {0}
          /\ tx = WAIT_FOR_ANSWER <=> timer_id # 0
          /\ pc["main"] # "rearm" /\ job["main"].then # "rearm"
    /\ fired # 0 =>
          /\ pc["dbus"] = "idle"
          /\ \/ /\ pc["main"] = "finish" /\ job["main"].then = "rearm"
                /\ job["main"].result = "TIMEOUT"
                /\ tx = WAIT_FOR_ANSWER /\ timer_id # 0 /\ live = {timer_id}
                /\ fired = timer_id
             \/ /\ pc["main"] = "rearm" /\ job["main"].then # "rearm"
                /\ tx # WAIT_FOR_ANSWER /\ timer_id = 0 /\ live = {}

(* A thread that returns goes on in its own call, if that has not ended.   *)
LEMMA ReturnsTo ==
    ASSUME ThreadsOK, NEW t \in Threads, Return(t)
    PROVE  /\ pc'[t] = job[t].then
           /\ job'[t].then = IF job[t].then = "end" THEN "end" ELSE "idle"
           /\ \A u \in Threads \ {t} : pc'[u] = pc[u] /\ job'[u] = job[u]
BY DEF ThreadsOK, Jobs, Return, Call, NoJob

(* The timer when nothing is dispatched: it is started once, and stopped.  *)
LEMMA TimerFollows ==
    ASSUME TimerOK, fired = 0, live = {timer_id} \ {0},
           NEW st \in {IDLE, STARTED_ASYNC, WAIT_FOR_ANSWER}, transaction_observer(st)
    PROVE  /\ live' = {timer_id'} \ {0}
           /\ st = IDLE => timer_id' = 0
           /\ st = STARTED_ASYNC => timer_id' = timer_id
           /\ st = WAIT_FOR_ANSWER => timer_id' # 0
<1>1. CASE st = IDLE
  BY <1>1 DEF transaction_observer, timer_stop
<1>2. CASE st = STARTED_ASYNC
  BY <1>2 DEF transaction_observer
<1>3. CASE st = WAIT_FOR_ANSWER
  BY <1>3, SourceIdsAssumption DEF transaction_observer, timer_start
<1> QED BY <1>1, <1>2, <1>3

LEMMA TimerAccountedKept ==
    ASSUME ~RacingTimeouts, TypeOK, TimerAccounted, [Next]_vars
    PROVE  TimerAccounted'
<1> USE DEF TypeOK, TimerAccounted
<1>0. "main" \in Threads /\ "dbus" \in Threads
  OBVIOUS
<1>1. ASSUME NEW t \in Threads, CheckSerializing(t) \/ SerializeBegin(t) \/ Add(t)
                                   \/ ResetFlags(t) \/ SerializeEnd(t)
      PROVE  TimerAccounted'
  <2>1. /\ pc[t] \in {"check", "begin", "add", "reset", "end"} /\ pc'[t] \notin {"finish", "rearm"}
        /\ \A u \in Threads \ {t} : pc'[u] = pc[u] /\ job'[u] = job[u]
        /\ job'[t].then = job[t].then \/ job'[t].then = "idle"
    BY <1>1 DEF CheckSerializing, SerializeBegin, Add, ResetFlags, SerializeEnd, At, Goto, Call,
       ThreadsOK, NoJob
  <2>2. UNCHANGED <<tx, timer_id, live, fired>>
    BY <1>1 DEF CheckSerializing, SerializeBegin, Add, ResetFlags, SerializeEnd, queue_vars,
       timer_vars
  <2>3. fired = 0
    BY <1>0, <2>1
  <2> QED BY <1>0, <2>1, <2>2, <2>3
<1>2. ASSUME NEW t \in Threads, StartTransaction(t) PROVE TimerAccounted'
  <2>1. pc[t] = "start" /\ fired' = fired /\ fired = 0
    BY <1>0, <1>2 DEF StartTransaction, At, timer_vars
  <2>2. /\ pc'[t] \notin {"finish", "rearm"} \/ t = "dbus"
        /\ job'[t].then # "rearm" \/ t = "dbus"
        /\ \A u \in Threads \ {t} : pc'[u] = pc[u] /\ job'[u] = job[u]
    <3>1. CASE Goto(t, "process")
      BY <2>1, <3>1 DEF Goto, ThreadsOK
    <3>2. CASE Return(t)
      BY <2>1, <3>2, ReturnsTo DEF ThreadsOK, Jobs
    <3> QED BY <1>2, <3>1, <3>2 DEF StartTransaction
  <2>3. CASE UNCHANGED <<tx, timer_vars, deferred>>
    BY <1>0, <2>1, <2>2, <2>3 DEF timer_vars
  <2>4. CASE tx' = start_async(tx) /\ transaction_observer(tx') /\ ~is_in_progress(tx)
    <3>1. tx' = STARTED_ASYNC /\ tx = IDLE
      BY <2>4 DEF start_async, is_in_progress
    <3>2. live' = {timer_id'} \ {0} /\ timer_id' = timer_id
      BY <2>1, <2>4, <3>1, TimerFollows
    <3> QED BY <1>0, <2>1, <2>2, <3>1, <3>2
  <2> QED BY <1>2, <2>3, <2>4 DEF StartTransaction
<1>3. ASSUME NEW t \in Threads, ProcessNothing(t) PROVE TimerAccounted'
  <2>1. pc[t] \in {"process", "loop"} /\ fired = 0 /\ UNCHANGED <<tx, timer_id, live, fired>>
    BY <1>0, <1>3 DEF ProcessNothing, InProcess, At, timer_vars, queue_vars
  <2>2. /\ pc'[t] \notin {"finish", "rearm"} \/ t = "dbus"
        /\ job'[t].then # "rearm" \/ t = "dbus"
        /\ \A u \in Threads \ {t} : pc'[u] = pc[u] /\ job'[u] = job[u]
    BY <1>3, <2>1, ReturnsTo DEF ProcessNothing, ThreadsOK, Jobs
  <2> QED BY <1>0, <2>1, <2>2
<1>4. ASSUME NEW t \in Threads, ProcessRefused(t) \/ ProcessWritten(t) PROVE TimerAccounted'
  <2>1. /\ pc[t] \in {"process", "loop"} /\ fired = 0 /\ fired' = 0
        /\ pc'[t] \in {"process", "loop"} /\ job' = job
        /\ \A u \in Threads \ {t} : pc'[u] = pc[u]
    BY <1>0, <1>4 DEF ProcessRefused, ProcessWritten, InProcess, At, Goto, ThreadsOK
  <2>2. /\ tx' \in {IDLE, WAIT_FOR_ANSWER} /\ tx # WAIT_FOR_ANSWER
        /\ transaction_observer(tx')
    BY <1>4 DEF ProcessRefused, ProcessWritten, QueueOK, start, start_ok, commit, commit_ok,
       abort, abort_ok, done, done_ok
  <2>3. live' = {timer_id'} \ {0} /\ (tx' = WAIT_FOR_ANSWER <=> timer_id' # 0)
    BY <2>1, <2>2, TimerFollows
  <2> QED BY <1>0, <2>1, <2>3
<1>5. CASE FinishIdle \/ FinishAborted
  <2>1. pc["main"] = "finish" /\ fired = 0
    BY <1>5 DEF FinishIdle, FinishAborted, At, is_in_progress
  <2>2. UNCHANGED <<tx, timer_id, live, fired, job>> /\ pc'["main"] \notin {"finish", "rearm"}
    BY <1>5 DEF FinishIdle, FinishAborted, Goto, queue_vars, timer_vars, ThreadsOK
  <2> QED BY <2>1, <2>2
<1>6. CASE FinishOK
  <2>1. pc["main"] = "finish" /\ fired = 0 /\ fired' = 0 /\ tx' = IDLE
    BY <1>6 DEF FinishOK, At, is_in_progress, abort, abort_ok, done, done_ok
  <2>2. live' = {timer_id'} \ {0} /\ timer_id' = 0
    BY <1>6, <2>1, TimerFollows DEF FinishOK
  <2>3. pc'["main"] # "rearm" /\ job'["main"].then # "rearm"
    BY <1>0, <1>6, <2>1, ReturnsTo DEF FinishOK, Goto, ThreadsOK
  <2> QED BY <2>1, <2>2, <2>3
<1>7. CASE FinishFailed
  <2>1. pc["main"] = "finish" /\ fired' = fired /\ tx' = IDLE /\ transaction_observer(tx')
    BY <1>7 DEF FinishFailed, At, is_in_progress, abort, abort_ok, done, done_ok
  <2>2. /\ pc'["main"] = job["main"].then /\ job'["main"].then # "rearm"
        /\ pc'["dbus"] = pc["dbus"]
    BY <1>0, <1>7, ReturnsTo DEF FinishFailed
  <2>3. CASE fired = 0
    BY <2>1, <2>2, <2>3, TimerFollows
  <2>4. CASE fired # 0
    <3>1. timer_id' = 0 /\ live' = {}
      BY <2>1, <2>4 DEF transaction_observer, timer_stop
    <3> QED BY <2>1, <2>2, <2>4, <3>1
  <2> QED BY <2>3, <2>4
<1>8. CASE TimerDisable
  BY <1>8 DEF TimerDisable, At, Goto, queue_vars, ThreadsOK
<1>9. CASE DeferredCall
  <2>1. pc["main"] = "idle" /\ pc'["main"] = "process" /\ job' = job /\ pc'["dbus"] = pc["dbus"]
    BY <1>9 DEF DeferredCall, Idle, At, Goto, ThreadsOK
  <2> QED BY <1>9, <2>1 DEF DeferredCall, queue_vars, timer_vars
<1>10. CASE ReadAnswer
  <2>1. pc["main"] = "idle" /\ pc'["main"] = "finish" /\ job'["main"].then = "idle"
    BY <1>10 DEF ReadAnswer, Idle, At, serialization_result, Call, ThreadsOK, NoJob
  <2> QED BY <1>10, <2>1 DEF ReadAnswer, queue_vars, timer_vars
<1>11. CASE TimerIgnored
  <2>1. live = {}
    BY <1>11 DEF TimerIgnored, Idle, At
  <2> QED BY <1>11, <2>1 DEF TimerIgnored
<1>12. CASE TimerExpired
  <2>1. /\ pc["main"] = "idle" /\ pc["dbus"] = "idle"
        /\ pc'["main"] = "finish" /\ pc'["dbus"] = "idle"
        /\ job'["main"].then = "rearm" /\ job'["main"].result = "TIMEOUT"
    BY <1>12 DEF TimerExpired, Idle, At, serialization_result, Call, ThreadsOK, NoJob
  <2>2. fired = 0
    BY <2>1
  <2>3. fired' = timer_id /\ timer_id # 0 /\ UNCHANGED <<tx, timer_id, live>>
    BY <1>12, <2>2 DEF TimerExpired, queue_vars
  <2> QED BY <2>1, <2>2, <2>3
<1>13. CASE Requests
  <2>1. UNCHANGED <<tx, timer_id, live, fired>>
    BY <1>13 DEF Requests, FlagsRaised, ViewForced, ActivateView, BusyChanged, LanguageChanged,
       queue_vars, timer_vars
  <2>2. CASE LanguageChanged
    <3>1. fired = 0 /\ pc'["main"] = pc["main"] /\ job'["main"] = job["main"]
      BY <2>2 DEF LanguageChanged, serialize, do_serialize, Call, ThreadsOK, thread_vars
    <3> QED BY <2>1, <3>1
  <2>3. CASE ~LanguageChanged
    <3>1. /\ pc["main"] = "idle" /\ pc'["main"] \in {"idle", "check"}
          /\ job'["main"].then \in {job["main"].then, "end"} /\ pc'["dbus"] = pc["dbus"]
      BY <1>13, <2>3 DEF Requests, FlagsRaised, ViewForced, ActivateView, BusyChanged,
         MayCall, Idle, At, serialize, update, do_serialize, Call, ThreadsOK, thread_vars
    <3> QED BY <2>1, <3>1
  <2> QED BY <2>2, <2>3
<1>14. CASE DcpdAnswers \/ DcpdForgets \/ UNCHANGED vars
  BY <1>14 DEF DcpdAnswers, DcpdForgets, vars, queue_vars, timer_vars, thread_vars
<1> QED
  BY <1>1, <1>2, <1>3, <1>4, <1>5, <1>6, <1>7, <1>8, <1>9, <1>10, <1>11, <1>12, <1>13, <1>14
     DEF Next, Step, MainStep, TimerFires, Finish

(* A transaction that waits for its answer will be told in the end: its    *)
(* timeout is armed, and the timer can stop it.  The D-Bus thread must not *)
(* start a transaction while the timeout of another one is being handled,  *)
(* see RacingTimeouts.                                                     *)
THEOREM TimeoutIsArmed ==
    ASSUME ~RacingTimeouts
    PROVE  Spec => []TimeoutArmed
<1>1. Init => TimerAccounted
  BY DEF Init, TimerAccounted, NoJob
<1>2. TypeOK /\ TimerAccounted /\ [Next]_vars => TimerAccounted'
  BY TimerAccountedKept
<1>3. TimerAccounted => TimeoutArmed
  BY DEF TimerAccounted, TimeoutArmed
<1> QED
  BY <1>1, <1>2, <1>3, TypeCorrect, PTL DEF Spec

(***************************************************************************)
(* Update flags                                                            *)
(***************************************************************************)
(* The queue has an entry by which view v is going to write flag f.        *)
Queued(qq, v, f) == \E i \in DOMAIN qq : qq[i].view = v /\ (qq[i].full \/ f \in qq[i].flags)

(* add() keeps what was queued, and queues the flags of its view.          *)
LEMMA AddQueues ==
    ASSUME NEW qq \in Seq(Data), NEW v \in Views, NEW full \in BOOLEAN,
           NEW fl \in SUBSET Flags, NEW b \in MaybeBusy
    PROVE  LET r == add(qq, v, full, fl, b) IN
             /\ \A w \in Views, f \in Flags : Queued(qq, w, f) => Queued(r, w, f)
             /\ \A f \in Flags : full \/ f \in fl => Queued(r, v, f)
<1> DEFINE r == add(qq, v, full, fl, b)
<1>1. \A i \in DOMAIN qq : qq[i] \in Data
  OBVIOUS
<1>2. CASE v \in QueuedViews(qq)
  <2>1. DOMAIN r = DOMAIN qq
    BY <1>2 DEF add
  <2>2. \A i \in DOMAIN qq : r[i] = IF qq[i].view = v THEN merge(qq[i], full, fl, b) ELSE qq[i]
    BY <1>2 DEF add
  <2>3. \A i \in DOMAIN qq : LET m == merge(qq[i], full, fl, b) IN
           m.view = qq[i].view /\ m.full = (qq[i].full \/ full) /\ m.flags = qq[i].flags \cup fl
    BY <1>1 DEF merge, Data
  <2>4. PICK k \in DOMAIN qq : qq[k].view = v
    BY <1>2 DEF QueuedViews
  <2> HIDE DEF r
  <2>5. ASSUME NEW w \in Views, NEW f \in Flags, Queued(qq, w, f) PROVE Queued(r, w, f)
    <3>1. PICK i \in DOMAIN qq : qq[i].view = w /\ (qq[i].full \/ f \in qq[i].flags)
      BY <2>5 DEF Queued
    <3>2. r[i].view = w /\ (r[i].full \/ f \in r[i].flags)
      BY <2>2, <2>3, <3>1
    <3> QED BY <2>1, <3>2 DEF Queued
  <2>6. ASSUME NEW f \in Flags, full \/ f \in fl PROVE Queued(r, v, f)
    <3>1. r[k].view = v /\ (r[k].full \/ f \in r[k].flags)
      BY <2>2, <2>3, <2>4, <2>6
    <3> QED BY <2>1, <2>4, <3>1 DEF Queued
  <2> QED BY <2>5, <2>6 DEF r
<1>3. CASE v \notin QueuedViews(qq)
  <2> DEFINE e == [view |-> v, full |-> full, flags |-> fl, busy |-> b]
  <2>1. r = Append(qq, e) /\ e \in Data
    BY <1>3 DEF add, Data
  <2>2. /\ DOMAIN r = 1 .. Len(qq) + 1 /\ DOMAIN qq = 1 .. Len(qq) /\ Len(qq) \in Nat
        /\ \A i \in DOMAIN qq : r[i] = qq[i]
        /\ r[Len(qq) + 1] = e
    BY <2>1
  <2>3. e.view = v /\ e.full = full /\ e.flags = fl
    OBVIOUS
  <2>4. DOMAIN qq \subseteq DOMAIN r /\ Len(qq) + 1 \in DOMAIN r
    BY <2>2
  <2> HIDE DEF r, e
  <2>5. ASSUME NEW w \in Views, NEW f \in Flags, Queued(qq, w, f) PROVE Queued(r, w, f)
    BY <2>2, <2>4, <2>5 DEF Queued
  <2>6. ASSUME NEW f \in Flags, full \/ f \in fl PROVE Queued(r, v, f)
    BY <2>2, <2>3, <2>4, <2>6 DEF Queued
  <2> QED BY <2>5, <2>6 DEF r
<1> QED BY <1>2, <1>3

(* What is queued is queued still when the first entry is gone, or was     *)
(* queued by this entry.                                                   *)
LEMMA TailQueues ==
    ASSUME NEW qq \in Seq(Data), qq # <<>>, NEW v, NEW f, Queued(qq, v, f)
    PROVE  \/ Queued(Tail(qq), v, f)
           \/ Head(qq).view = v /\ (Head(qq).full \/ f \in Head(qq).flags)
<1> DEFINE t == Tail(qq)
<1>1. /\ DOMAIN t = 1 .. Len(qq) - 1 /\ DOMAIN qq = 1 .. Len(qq) /\ Len(qq) \in Nat
      /\ Head(qq) = qq[1] /\ \A i \in DOMAIN t : t[i] = qq[i + 1]
  OBVIOUS
<1>2. PICK i \in DOMAIN qq : qq[i].view = v /\ (qq[i].full \/ f \in qq[i].flags)
  BY DEF Queued
<1> HIDE DEF t
<1>3. CASE i = 1
  BY <1>1, <1>2, <1>3
<1>4. CASE i # 1
  <2>1. i - 1 \in DOMAIN t /\ t[i - 1] = qq[i]
    BY <1>1, <1>4
  <2> QED BY <1>2, <2>1 DEF Queued, t
<1> QED BY <1>3, <1>4

(* No view raises flags between add() and the reset of the flags that have *)
(* been added: only the main thread serializes views.                      *)
FlagsKept ==
    /\ pc["dbus"] = "idle"
    /\ \A v \in Views : \A f \in owed[v] : f \in update_flags[v] \/ Queued(q, v, f)
    /\ pc["main"] = "reset" =>
          \A f \in update_flags[job["main"].view] : Queued(q, job["main"].view, f)

LEMMA FlagsKeptStep ==
    ASSUME ~LanguageChanges, TypeOK, FlagsKept, [Next]_vars
    PROVE  FlagsKept'
<1> USE DEF FlagsKept
<1>0. "main" \in Threads /\ "dbus" \in Threads /\ pc \in [Threads -> PCs] /\ q \in Seq(Data)
  BY DEF TypeOK, ThreadsOK, QueueOK
<1>1. ASSUME UNCHANGED <<update_flags, q, owed>>, pc'["dbus"] = "idle",
             pc'["main"] # "reset"
      PROVE  FlagsKept'
  BY <1>1 DEF Queued
<1>2. ASSUME NEW t \in Threads, Step(t) PROVE t = "main"
  <2>1. t = "dbus" => FALSE
    BY <1>2 DEF Step, CheckSerializing, SerializeBegin, Add, ResetFlags, StartTransaction,
       ProcessNothing, ProcessRefused, ProcessWritten, SerializeEnd, InProcess, At
  <2> QED BY <2>1
<1>3. CASE CheckSerializing("main") \/ SerializeBegin("main") \/ SerializeEnd("main")
  <2>1. pc'["dbus"] = "idle" /\ pc'["main"] # "reset"
    BY <1>0, <1>3 DEF CheckSerializing, SerializeBegin, SerializeEnd, Goto, Call
  <2> QED BY <1>1, <1>3, <2>1 DEF CheckSerializing, SerializeBegin, SerializeEnd, view_vars,
     queue_vars
<1>4. CASE Add("main")
  <2> DEFINE v == job["main"].view
  <2>1. /\ v \in Views /\ job["main"].full \in BOOLEAN /\ job["main"].busy \in MaybeBusy
        /\ update_flags[v] \in SUBSET Flags /\ owed \in [Views -> SUBSET Flags]
    BY <1>4 DEF Add, At, TypeOK, ThreadsOK, ViewsOK, Jobs
  <2>2. /\ q' = add(q, v, job["main"].full, update_flags[v], job["main"].busy)
        /\ UNCHANGED <<update_flags, owed, job>> /\ pc'["dbus"] = "idle"
    BY <1>0, <1>4 DEF Add, Goto, view_vars
  <2>3. /\ \A w \in Views, f \in Flags : Queued(q, w, f) => Queued(q', w, f)
        /\ \A f \in Flags : f \in update_flags[v] => Queued(q', v, f)
    BY <1>0, <2>1, <2>2, AddQueues
  <2>4. \A w \in Views : \A f \in owed[w] : f \in Flags
    BY <2>1
  <2> HIDE DEF v
  <2>5. (\A w \in Views : \A f \in owed[w] : f \in update_flags[w] \/ Queued(q, w, f))'
    BY <2>2, <2>3, <2>4
  <2>6. (\A f \in update_flags[job["main"].view] : Queued(q, job["main"].view, f))'
    BY <2>1, <2>2, <2>3 DEF v
  <2> QED BY <2>2, <2>5, <2>6
<1>5. CASE ResetFlags("main")
  <2>1. /\ update_flags' = [update_flags EXCEPT ![job["main"].view] = {}]
        /\ UNCHANGED <<q, owed>> /\ pc'["dbus"] = "idle" /\ pc'["main"] = "start"
        /\ pc["main"] = "reset" /\ update_flags \in [Views -> SUBSET Flags]
    BY <1>0, <1>5 DEF ResetFlags, At, Goto, queue_vars, TypeOK, ViewsOK
  <2> QED BY <2>1 DEF Queued
<1>6. CASE StartTransaction("main") \/ ProcessNothing("main")
  <2>1. /\ pc'["dbus"] = "idle" /\ pc'["main"] # "reset"
    BY <1>0, <1>6, ReturnsTo DEF StartTransaction, ProcessNothing, Goto, TypeOK, ThreadsOK, Jobs
  <2> QED BY <1>1, <1>6, <2>1 DEF StartTransaction, ProcessNothing, view_vars, queue_vars
<1>7. CASE ProcessRefused("main")
  <2>1. /\ q' = Tail(q) /\ q # <<>> /\ owed' = [owed EXCEPT ![Head(q).view] = {}]
        /\ update_flags' = update_flags /\ pc'["dbus"] = "idle" /\ pc'["main"] = "loop"
        /\ owed \in [Views -> SUBSET Flags]
    BY <1>0, <1>7 DEF ProcessRefused, Goto, view_vars, TypeOK, ViewsOK
  <2>2. ASSUME NEW w \in Views, NEW f \in owed'[w] PROVE f \in update_flags'[w] \/ Queued(q', w, f)
    <3>1. w # Head(q).view /\ f \in owed[w]
      BY <2>1
    <3> QED BY <1>0, <2>1, <3>1, TailQueues
  <2> QED BY <2>1, <2>2
<1>8. CASE ProcessWritten("main")
  <2>1. /\ q # <<>> /\ pc'["dbus"] = "idle" /\ pc'["main"] = "process"
        /\ Head(q) \in Data /\ Tail(q) \in Seq(Data)
        /\ owed \in [Views -> SUBSET Flags] /\ update_flags \in [Views -> SUBSET Flags]
    BY <1>0, <1>8, HeadTail DEF ProcessWritten, Goto, TypeOK, ViewsOK
  <2> DEFINE v == Head(q).view
  <2>2. /\ v \in Views /\ TRUE \in BOOLEAN /\ update_flags[v] \in SUBSET Flags
        /\ "yes" \in MaybeBusy
    BY <2>1 DEF Data, MaybeBusy
  <2>3. /\ owed' = [owed EXCEPT ![v] = IF Head(q).full THEN {} ELSE @ \ Head(q).flags]
        /\ \/ /\ q' = add(Tail(q), v, TRUE, update_flags[v], "yes")
              /\ update_flags' = [update_flags EXCEPT ![v] = {}]
           \/ q' = Tail(q) /\ UNCHANGED update_flags
    BY <1>8 DEF ProcessWritten
  <2>4. ASSUME NEW w \in Views, NEW f \in owed'[w]
        PROVE  f \in Flags /\ (f \in update_flags[w] \/ Queued(Tail(q), w, f))
    <3>1. f \in owed[w] /\ (w = v => ~Head(q).full /\ f \notin Head(q).flags)
      BY <2>1, <2>2, <2>3
    <3> QED BY <1>0, <2>1, <3>1, TailQueues
  <2>5. ASSUME NEW w \in Views, NEW f \in owed'[w]
        PROVE  f \in update_flags'[w] \/ Queued(q', w, f)
    <3>1. CASE q' = Tail(q) /\ UNCHANGED update_flags
      BY <2>4, <2>5, <3>1
    <3>2. CASE /\ q' = add(Tail(q), v, TRUE, update_flags[v], "yes")
               /\ update_flags' = [update_flags EXCEPT ![v] = {}]
      <4>1. /\ \A u \in Views, g \in Flags : Queued(Tail(q), u, g) => Queued(q', u, g)
            /\ \A g \in Flags : Queued(q', v, g)
        BY <2>1, <2>2, <3>2, AddQueues
      <4> HIDE DEF v
      <4>2. CASE w = v
        BY <2>4, <2>5, <4>1, <4>2
      <4>3. CASE w # v
        <5>1. update_flags'[w] = update_flags[w]
          BY <2>1, <3>2, <4>3
        <5> QED BY <2>4, <2>5, <4>1, <5>1
      <4> QED BY <4>2, <4>3
    <3> QED BY <2>3, <3>1, <3>2
  <2> QED BY <2>1, <2>5
<1>9. CASE MainStep
  <2>1. UNCHANGED <<update_flags, q, owed>>
    BY <1>9 DEF MainStep, TimerFires, Finish, FinishIdle, FinishAborted, FinishOK, FinishFailed,
       TimerDisable, DeferredCall, ReadAnswer, TimerIgnored, TimerExpired, queue_vars, view_vars
  <2>2. pc'["dbus"] = "idle" /\ pc'["main"] # "reset"
    <3>1. CASE FinishIdle \/ FinishAborted \/ TimerDisable \/ DeferredCall
      BY <1>0, <3>1 DEF FinishIdle, FinishAborted, TimerDisable, DeferredCall, Goto
    <3>2. CASE FinishOK \/ FinishFailed
      BY <1>0, <3>2, ReturnsTo DEF FinishOK, FinishFailed, Goto, TypeOK, ThreadsOK, Jobs
    <3>3. CASE ReadAnswer \/ TimerExpired
      BY <1>0, <3>3 DEF ReadAnswer, TimerExpired, serialization_result, Call
    <3>4. CASE TimerIgnored
      BY <1>0, <3>4 DEF TimerIgnored, thread_vars, Idle, At
    <3> QED BY <1>9, <3>1, <3>2, <3>3, <3>4 DEF MainStep, TimerFires, Finish
  <2> QED BY <1>1, <2>1, <2>2
<1>10. CASE Requests
  <2>1. pc["main"] = "idle" /\ pc'["dbus"] = "idle" /\ pc'["main"] # "reset" /\ UNCHANGED q
    BY <1>0, <1>10 DEF Requests, FlagsRaised, ViewForced, ActivateView, BusyChanged,
       LanguageChanged, MayCall, Idle, At, serialize, update, do_serialize, Call, thread_vars,
       queue_vars
  <2>2. CASE UNCHANGED <<update_flags, owed>>
    BY <1>1, <2>1, <2>2
  <2>3. ASSUME NEW v \in Views, NEW fl, update_flags' = [update_flags EXCEPT ![v] = @ \cup fl],
               owed' = [owed EXCEPT ![v] = @ \cup fl]
        PROVE  FlagsKept'
    <3>1. update_flags \in [Views -> SUBSET Flags] /\ owed \in [Views -> SUBSET Flags]
      BY DEF TypeOK, ViewsOK
    <3> QED BY <2>1, <2>3, <3>1 DEF Queued
  <2> QED BY <1>10, <2>2, <2>3 DEF Requests, FlagsRaised, ViewForced, ActivateView, BusyChanged,
     LanguageChanged, view_vars
<1>11. CASE DcpdAnswers \/ DcpdForgets \/ UNCHANGED vars
  <2>1. UNCHANGED <<update_flags, q, owed, pc, job>>
    BY <1>11 DEF DcpdAnswers, DcpdForgets, vars, view_vars, queue_vars, thread_vars
  <2> QED BY <2>1 DEF Queued
<1> QED
  BY <1>2, <1>3, <1>4, <1>5, <1>6, <1>7, <1>8, <1>9, <1>10, <1>11 DEF Next, Step

(* No update is lost: whatever a view has asked to be updated is in its    *)
(* flags or in the queue until it is written out or refused, for any       *)
(* number of views and flags, as long as views are serialized by the main  *)
(* thread only.  (ResetFlags wipes flags raised after Add, otherwise.)     *)
THEOREM NoFlagIsLost ==
    ASSUME ~LanguageChanges
    PROVE  Spec => []FlagsAccounted
<1>1. Init => FlagsKept
  BY DEF Init, FlagsKept
<1>2. TypeOK /\ FlagsKept /\ [Next]_vars => FlagsKept'
  BY FlagsKeptStep
<1>3. FlagsKept => FlagsAccounted
  BY DEF FlagsKept, FlagsAccounted, Queued
<1> QED
  BY <1>1, <1>2, <1>3, TypeCorrect, PTL DEF Spec


(***************************************************************************)
(* DisplayPipeline implements DisplayMailbox                               *)
(***************************************************************************)
(* Every step of the pipeline is a step of the mailbox or changes nothing  *)
(* there.                                                                  *)
HIDE DEF Threads, IDLE, STARTED_ASYNC, WAIT_FOR_COMMIT, WAIT_FOR_ANSWER

Content(d) == [full |-> d.full, flags |-> d.flags, busy |-> d.busy]

(***************************************************************************)
(* The refinement mapping                                                  *)
(***************************************************************************)
(* An entry of the queue is the wish of its view.                          *)
LEMMA WishQueued ==
    ASSUME NEW qq \in Seq(Data), Distinct(qq), NEW i \in DOMAIN qq
    PROVE  qq[i].view \in Views /\ wishes(qq)[qq[i].view] = Content(qq[i])
<1> DEFINE v == qq[i].view
           k == CHOOSE j \in DOMAIN qq : qq[j].view = v
<1>1. v \in Views
  <2>1. qq[i] \in Data
    OBVIOUS
  <2> QED
    BY <2>1 DEF Data
<1>2. k \in DOMAIN qq /\ qq[k].view = v
  OBVIOUS
<1>3. k = i
  BY <1>2 DEF Distinct
<1>4. v \in QueuedViews(qq)
  BY DEF QueuedViews
<1>5. wishes(qq)[v] = Content(qq[k])
  BY <1>1, <1>4 DEF wishes, Content
<1> QED
  BY <1>1, <1>3, <1>5

LEMMA WishNotQueued ==
    ASSUME NEW qq, NEW v \in Views, v \notin QueuedViews(qq)
    PROVE  wishes(qq)[v] = Mailbox!Blank
  BY DEF wishes, Mailbox!Blank

LEMMA TurnsType ==
    ASSUME NEW qq \in Seq(Data)
    PROVE  /\ turns(qq) \in Seq(Views)
           /\ DOMAIN turns(qq) = DOMAIN qq
           /\ Mailbox!Waiting(turns(qq)) = QueuedViews(qq)
           /\ turns(qq) = <<>> <=> qq = <<>>
           /\ qq # <<>> => Head(turns(qq)) = Head(qq).view
<1>1. DOMAIN qq = 1 .. Len(qq) /\ Len(qq) \in Nat /\ \A i \in DOMAIN qq : qq[i].view \in Views
  <2>1. \A i \in DOMAIN qq : qq[i] \in Data
    OBVIOUS
  <2> QED
    BY <2>1 DEF Data
<1>2. turns(qq) \in Seq(Views) /\ DOMAIN turns(qq) = DOMAIN qq
  BY <1>1 DEF turns
<1>3. Mailbox!Waiting(turns(qq)) = QueuedViews(qq)
  BY DEF turns, Mailbox!Waiting, QueuedViews
<1>4. turns(qq) = <<>> <=> qq = <<>>
  BY <1>1, <1>2
<1>5. qq # <<>> => Head(turns(qq)) = Head(qq).view
  BY <1>1, <1>2 DEF turns
<1> QED
  BY <1>2, <1>3, <1>4, <1>5

(* The wishes of a queue are told by what they are for each of its views.  *)
LEMMA WishesEqual ==
    ASSUME NEW qq, NEW f, f = [v \in Views |-> f[v]],
           \A v \in Views : wishes(qq)[v] = f[v]
    PROVE  wishes(qq) = f
  BY DEF wishes

(***************************************************************************)
(* add() posts                                                             *)
(***************************************************************************)
LEMMA AddPosts ==
    ASSUME NEW qq \in Seq(Data), Distinct(qq),
           NEW v \in Views, NEW full \in BOOLEAN, NEW fl \in SUBSET Flags, NEW b \in MaybeBusy
    PROVE  /\ turns(add(qq, v, full, fl, b)) = Mailbox!InLine(turns(qq), v)
           /\ wishes(add(qq, v, full, fl, b)) =
                [wishes(qq) EXCEPT ![v] = Mailbox!with(@, full, fl, b)]
<1> DEFINE r == add(qq, v, full, fl, b)
           f == [wishes(qq) EXCEPT ![v] = Mailbox!with(@, full, fl, b)]
<1>1. r \in Seq(Data) /\ Distinct(r)
  BY AddType, AddDistinct
<1>2. DOMAIN qq = 1 .. Len(qq) /\ Len(qq) \in Nat /\ \A i \in DOMAIN qq : qq[i] \in Data
  OBVIOUS
<1>3. DOMAIN wishes(qq) = Views
  BY DEF wishes
<1>4. /\ f = [u \in Views |-> f[u]]
      /\ f[v] = Mailbox!with(wishes(qq)[v], full, fl, b)
      /\ \A u \in Views \ {v} : f[u] = wishes(qq)[u]
  BY <1>3
<1>5. CASE v \in QueuedViews(qq)
  <2>1. r = [i \in DOMAIN qq |-> IF qq[i].view = v THEN merge(qq[i], full, fl, b) ELSE qq[i]]
    BY <1>5 DEF add
  <2>2. \A i \in DOMAIN qq :
           /\ merge(qq[i], full, fl, b).view = qq[i].view
           /\ Content(merge(qq[i], full, fl, b)) = Mailbox!with(Content(qq[i]), full, fl, b)
    BY <1>2 DEF merge, Data, Content, Mailbox!with
  <2>3. DOMAIN r = DOMAIN qq /\ \A i \in DOMAIN qq : r[i].view = qq[i].view
    BY <2>1, <2>2
  <2>4. turns(r) = turns(qq)
    BY <2>3 DEF turns
  <2>5. Mailbox!InLine(turns(qq), v) = turns(qq)
    BY <1>5, TurnsType DEF Mailbox!InLine
  <2>6. PICK k \in DOMAIN qq : qq[k].view = v
    BY <1>5 DEF QueuedViews
  <2>7. wishes(r)[v] = f[v]
    <3>1. wishes(r)[v] = Content(r[k])
      BY <1>1, <2>3, <2>6, WishQueued
    <3>2. r[k] = merge(qq[k], full, fl, b)
      BY <2>1, <2>6
    <3>3. wishes(qq)[v] = Content(qq[k])
      BY <2>6, WishQueued
    <3> QED
      BY <1>4, <2>2, <2>6, <3>1, <3>2, <3>3
  <2>8. ASSUME NEW u \in Views \ {v} PROVE wishes(r)[u] = f[u]
    <3> HIDE DEF f, r
    <3>1. CASE u \in QueuedViews(qq)
      <4>1. PICK j \in DOMAIN qq : qq[j].view = u
        BY <3>1 DEF QueuedViews
      <4>2. r[j] = qq[j]
        BY <2>1, <4>1
      <4>3. wishes(r)[u] = Content(r[j]) /\ wishes(qq)[u] = Content(qq[j])
        BY <1>1, <2>3, <4>1, WishQueued
      <4> QED
        BY <1>4, <4>2, <4>3
    <3>2. CASE u \notin QueuedViews(qq)
      <4>1. u \notin QueuedViews(r)
        BY <2>3, <3>2 DEF QueuedViews
      <4> QED
        BY <1>4, <3>2, <4>1, WishNotQueued
    <3> QED
      BY <3>1, <3>2
  <2> HIDE DEF f, r
  <2>9. wishes(r) = f
    BY <1>4, <2>7, <2>8, WishesEqual
  <2> QED
    BY <2>4, <2>5, <2>9 DEF f, r
<1>6. CASE v \notin QueuedViews(qq)
  <2> DEFINE e == [view |-> v, full |-> full, flags |-> fl, busy |-> b]
             n == Len(qq) + 1
  <2>1. r = Append(qq, e) /\ e \in Data /\ e.view = v
    BY <1>6 DEF add, Data
  <2>2. DOMAIN r = 1 .. n /\ r[n] = e /\ n \in DOMAIN r
    BY <2>1
  <2>3. \A i \in DOMAIN qq : i \in DOMAIN r /\ r[i] = qq[i] /\ qq[i].view # v
    BY <1>6, <2>1 DEF QueuedViews
  <2>4. turns(r) = Append(turns(qq), v)
    <3>1. turns(r) \in Seq(Views) /\ turns(qq) \in Seq(Views)
      BY <1>1, TurnsType
    <3>2. DOMAIN turns(r) = 1 .. n /\ DOMAIN turns(qq) = 1 .. Len(qq)
      BY <1>1, <1>2, <2>2, TurnsType
    <3>3. Len(turns(qq)) = Len(qq)
      BY <1>2, <3>1, <3>2
    <3>4. DOMAIN Append(turns(qq), v) = 1 .. n
      BY <1>2, <3>1, <3>3
    <3>5. ASSUME NEW i \in 1 .. n PROVE turns(r)[i] = Append(turns(qq), v)[i]
      <4>1. CASE i = n
        BY <2>1, <2>2, <3>1, <3>3, <4>1 DEF turns
      <4>2. CASE i \in 1 .. Len(qq)
        BY <1>2, <2>2, <2>3, <3>1, <3>3, <4>2 DEF turns
      <4>3. i = n \/ i \in 1 .. Len(qq)
        BY <1>2
      <4> QED
        BY <4>1, <4>2, <4>3
    <3> QED
      BY <3>1, <3>2, <3>4, <3>5
  <2>5. Mailbox!InLine(turns(qq), v) = Append(turns(qq), v)
    BY <1>6, TurnsType DEF Mailbox!InLine
  <2>6. wishes(r)[v] = f[v]
    <3>1. wishes(r)[v] = Content(e)
      BY <1>1, <2>1, <2>2, WishQueued
    <3>2. wishes(qq)[v] = Mailbox!Blank
      BY <1>6, WishNotQueued
    <3>3. Content(e) = Mailbox!with(Mailbox!Blank, full, fl, b)
      BY DEF Content, Mailbox!with, Mailbox!Blank, MaybeBusy
    <3> QED
      BY <1>4, <3>1, <3>2, <3>3
  <2>7. ASSUME NEW u \in Views \ {v} PROVE wishes(r)[u] = f[u]
    <3> HIDE DEF f, r, e, n
    <3>1. CASE u \in QueuedViews(qq)
      <4>1. PICK j \in DOMAIN qq : qq[j].view = u
        BY <3>1 DEF QueuedViews
      <4>2. wishes(r)[u] = Content(r[j]) /\ wishes(qq)[u] = Content(qq[j])
        BY <1>1, <2>3, <4>1, WishQueued
      <4> QED
        BY <1>4, <2>3, <4>1, <4>2
    <3>2. CASE u \notin QueuedViews(qq)
      <4>1. \A i \in DOMAIN r : i \in DOMAIN qq \/ i = n
        BY <1>2, <2>2 DEF n
      <4>2. u \notin QueuedViews(r)
        BY <2>1, <2>2, <2>3, <3>2, <4>1 DEF QueuedViews
      <4> QED
        BY <1>4, <3>2, <4>2, WishNotQueued
    <3> QED
      BY <3>1, <3>2
  <2> HIDE DEF f, r
  <2>8. wishes(r) = f
    BY <1>4, <2>6, <2>7, WishesEqual
  <2> QED
    BY <2>4, <2>5, <2>8 DEF f, r
<1> QED
  BY <1>5, <1>6

(***************************************************************************)
(* Taking the first entry                                                  *)
(***************************************************************************)
LEMMA TailTakes ==
    ASSUME NEW qq \in Seq(Data), qq # <<>>, Distinct(qq)
    PROVE  /\ turns(Tail(qq)) = Tail(turns(qq))
           /\ wishes(Tail(qq)) = [wishes(qq) EXCEPT ![Head(qq).view] = Mailbox!Blank]
           /\ wishes(qq)[Head(qq).view] = Content(Head(qq))
           /\ Head(qq).view \in Views
<1> DEFINE r == Tail(qq)
           h == Head(qq).view
           f == [wishes(qq) EXCEPT ![h] = Mailbox!Blank]
<1>1. r \in Seq(Data) /\ Distinct(r)
  BY TailDistinct
<1>2. /\ DOMAIN r = 1 .. Len(qq) - 1 /\ DOMAIN qq = 1 .. Len(qq) /\ Len(qq) \in Nat \ {0}
      /\ \A i \in DOMAIN r : r[i] = qq[i + 1]
      /\ Head(qq) = qq[1]
  OBVIOUS
<1>3. h \in Views /\ wishes(qq)[h] = Content(Head(qq))
  BY <1>2, WishQueued
<1>4. turns(r) = Tail(turns(qq))
  <2>1. turns(r) \in Seq(Views) /\ turns(qq) \in Seq(Views) /\ turns(qq) # <<>>
    BY <1>1, TurnsType
  <2>2. DOMAIN turns(r) = 1 .. Len(qq) - 1 /\ DOMAIN turns(qq) = 1 .. Len(qq)
    BY <1>2 DEF turns
  <2>3. Len(turns(qq)) = Len(qq)
    BY <1>2, <2>1, <2>2
  <2>4. DOMAIN Tail(turns(qq)) = 1 .. Len(qq) - 1
    BY <1>2, <2>1, <2>3
  <2>5. ASSUME NEW i \in 1 .. Len(qq) - 1 PROVE turns(r)[i] = Tail(turns(qq))[i]
    BY <1>2, <2>1, <2>3 DEF turns
  <2>6. Tail(turns(qq)) \in Seq(Views)
    BY <2>1
  <2> QED
    BY <2>1, <2>2, <2>4, <2>5, <2>6
<1>5. /\ f = [u \in Views |-> f[u]]
      /\ f[h] = Mailbox!Blank
      /\ \A u \in Views \ {h} : f[u] = wishes(qq)[u]
  <2>1. DOMAIN wishes(qq) = Views
    BY DEF wishes
  <2> QED
    BY <1>3, <2>1
<1>6. ASSUME NEW u \in Views PROVE wishes(r)[u] = f[u]
  <2> HIDE DEF f, r
  <2>1. CASE u = h
    <3>1. u \notin QueuedViews(r)
      <4>1. SUFFICES ASSUME NEW i \in DOMAIN r, r[i].view = u
                     PROVE  FALSE
        BY DEF QueuedViews
      <4>2. qq[i + 1].view = qq[1].view /\ i + 1 \in DOMAIN qq /\ 1 \in DOMAIN qq /\ i + 1 # 1
        BY <1>2, <2>1, <4>1
      <4> QED
        BY <4>2 DEF Distinct
    <3> QED
      BY <1>5, <2>1, <3>1, WishNotQueued
  <2>2. CASE u # h /\ u \in QueuedViews(r)
    <3>1. PICK i \in DOMAIN r : r[i].view = u
      BY <2>2 DEF QueuedViews
    <3>2. i + 1 \in DOMAIN qq /\ r[i] = qq[i + 1]
      BY <1>2, <3>1
    <3>3. wishes(r)[u] = Content(r[i]) /\ wishes(qq)[u] = Content(qq[i + 1])
      BY <1>1, <3>1, <3>2, WishQueued
    <3> QED
      BY <1>5, <2>2, <3>2, <3>3
  <2>3. CASE u # h /\ u \notin QueuedViews(r)
    <3>1. u \notin QueuedViews(qq)
      <4>1. SUFFICES ASSUME NEW i \in DOMAIN qq, qq[i].view = u
                     PROVE  FALSE
        BY DEF QueuedViews
      <4>2. i # 1
        BY <1>2, <2>3, <4>1
      <4>3. i - 1 \in DOMAIN r /\ r[i - 1] = qq[i]
        BY <1>2, <4>2
      <4> QED
        BY <2>3, <4>1, <4>3 DEF QueuedViews
    <3> QED
      BY <1>5, <2>3, <3>1, WishNotQueued
  <2> QED
    BY <2>1, <2>2, <2>3
<1>7. wishes(r) = f
  <2> HIDE DEF f, r
  <2> QED
    BY <1>5, <1>6, WishesEqual
<1> QED
  BY <1>3, <1>4, <1>7

(***************************************************************************)
(* The steps                                                               *)
(***************************************************************************)
(* Taking the first entry clears the wish of its view, and the message     *)
(* made of it is the whole wish.                                           *)
LEMMA HeadIsMessage ==
    ASSUME q \in Seq(Data), q # <<>>, Distinct(q)
    PROVE  /\ Head(turns(q)) = Head(q).view
           /\ turns(q) # <<>>
           /\ Mailbox!Message(Head(q).view) = Head(q)
           /\ turns(Tail(q)) = Tail(turns(q))
           /\ wishes(Tail(q)) = [wishes(q) EXCEPT ![Head(q).view] = Mailbox!Blank]
<1>1. Head(q) \in Data
  BY HeadTail
<1>2. wishes(q)[Head(q).view] = Content(Head(q))
  BY TailTakes
<1>3. Mailbox!Message(Head(q).view) = Head(q)
  BY <1>1, <1>2 DEF Mailbox!Message, Content, Data
<1> QED
  BY <1>3, TurnsType, TailTakes

LEMMA PostStep ==
    ASSUME TypeOK, Distinct(q), NEW t \in Threads, Add(t)
    PROVE  \E v \in Views, w \in Mailbox!Wishes : Mailbox!Post(v, w.full, w.flags, w.busy)
<1> DEFINE v == job[t].view
           full == job[t].full
           fl == update_flags[v]
           b == job[t].busy
           w == [full |-> full, flags |-> fl, busy |-> b]
<1>1. v \in Views /\ full \in BOOLEAN /\ fl \in SUBSET Flags /\ b \in MaybeBusy
  BY DEF Add, At, TypeOK, ThreadsOK, ViewsOK, Jobs
<1>2. q' = add(q, v, full, fl, b) /\ data' = data
  BY DEF Add
<1>3. q \in Seq(Data)
  BY DEF TypeOK, QueueOK
<1> HIDE DEF v, full, fl, b
<1>4. /\ turns(add(q, v, full, fl, b)) = Mailbox!InLine(turns(q), v)
      /\ wishes(add(q, v, full, fl, b)) =
           [wishes(q) EXCEPT ![v] = Mailbox!with(@, full, fl, b)]
  BY <1>1, <1>3, AddPosts
<1>5. /\ turns(q)' = Mailbox!InLine(turns(q), v)
      /\ wishes(q)' = [wishes(q) EXCEPT ![v] = Mailbox!with(@, full, fl, b)]
  BY <1>2, <1>4
<1>6. w \in Mailbox!Wishes
  BY <1>1 DEF Mailbox!Wishes, MaybeBusy
<1>7. Mailbox!Post(v, w.full, w.flags, w.busy)
  BY <1>2, <1>5 DEF Mailbox!Post
<1> QED
  BY <1>1, <1>6, <1>7

LEMMA RefuseStep ==
    ASSUME TypeOK, ActiveData, Distinct(q), NEW t \in Threads, ProcessRefused(t)
    PROVE  Mailbox!Refuse
<1>1. q \in Seq(Data) /\ q # <<>> /\ start_ok(tx)
  BY DEF ProcessRefused, TypeOK, QueueOK
<1>2. data = None /\ data' = None
  BY <1>1 DEF ActiveData, start_ok, IDLE, STARTED_ASYNC, WAIT_FOR_ANSWER, ProcessRefused
<1>3. q' = Tail(q)
  BY DEF ProcessRefused
<1> QED
  BY <1>1, <1>2, <1>3, HeadIsMessage DEF Mailbox!Refuse

LEMMA DeliverStep ==
    ASSUME TypeOK, ActiveData, Distinct(q), NEW t \in Threads, ProcessWritten(t)
    PROVE  Mailbox!Deliver \/ \E fl \in SUBSET Flags : Mailbox!DeliverAndPost(fl)
<1> DEFINE v == Head(q).view
           fl == update_flags[v]
           r == Tail(q)
<1>1. q \in Seq(Data) /\ q # <<>> /\ start_ok(tx)
  BY DEF ProcessWritten, TypeOK, QueueOK
<1>2. data = None /\ data' = Head(q)
  BY <1>1 DEF ActiveData, start_ok, IDLE, STARTED_ASYNC, WAIT_FOR_ANSWER, ProcessWritten
<1>3. v \in Views /\ fl \in SUBSET Flags /\ "yes" \in MaybeBusy
  <2>1. v \in Views /\ "yes" \in MaybeBusy
    <3>1. Head(q) \in Data
      BY <1>1, HeadTail
    <3> QED
      BY <3>1 DEF Data, MaybeBusy
  <2> QED
    BY <2>1 DEF TypeOK, ViewsOK
<1>4. q' = r \/ q' = add(r, v, TRUE, fl, "yes")
  BY DEF ProcessWritten
<1>5. CASE q' = r
  BY <1>1, <1>2, <1>5, HeadIsMessage DEF Mailbox!Deliver
<1>6. CASE q' = add(r, v, TRUE, fl, "yes")
  <2>1. r \in Seq(Data) /\ Distinct(r)
    BY <1>1, HeadTail, TailDistinct
  <2>2. /\ turns(add(r, v, TRUE, fl, "yes")) = Mailbox!InLine(turns(r), v)
        /\ wishes(add(r, v, TRUE, fl, "yes")) =
             [wishes(r) EXCEPT ![v] = Mailbox!with(@, TRUE, fl, "yes")]
    <3> HIDE DEF v, fl, r
    <3>1. ASSUME NEW full \in BOOLEAN
          PROVE  /\ turns(add(r, v, full, fl, "yes")) = Mailbox!InLine(turns(r), v)
                 /\ wishes(add(r, v, full, fl, "yes")) =
                      [wishes(r) EXCEPT ![v] = Mailbox!with(@, full, fl, "yes")]
      BY <1>3, <2>1, AddPosts
    <3> QED
      BY <3>1
  <2>3. DOMAIN wishes(q) = Views
    BY DEF wishes
  <2>4. turns(q)' = Mailbox!InLine(Tail(turns(q)), v)
    BY <1>1, <1>6, <2>2, HeadIsMessage
  <2>5. wishes(q)' = [wishes(q) EXCEPT ![v] = Mailbox!with(Mailbox!Blank, TRUE, fl, "yes")]
    <3>1. wishes(r)[v] = Mailbox!Blank
      BY <1>1, <1>3, <2>3, HeadIsMessage
    <3>2. wishes(q)' = [wishes(r) EXCEPT ![v] = Mailbox!with(Mailbox!Blank, TRUE, fl, "yes")]
      BY <1>6, <2>2, <3>1
    <3> QED
      BY <1>1, <1>3, <2>3, <3>2, HeadIsMessage
  <2>6. Mailbox!DeliverAndPost(fl)
    BY <1>1, <1>2, <2>4, <2>5, HeadIsMessage DEF Mailbox!DeliverAndPost
  <2> QED
    BY <1>3, <2>6
<1> QED
  BY <1>4, <1>5, <1>6

(* The pipeline implements the mailbox, for any number of views, flags and *)
(* threads' interleavings: updates are coalesced per view, never reordered *)
(* between views, sent at most once, and leave the queue only by being     *)
(* written or refused, one message at a time.                              *)
THEOREM MailboxImplemented == Spec => ImplementsMailbox
<1>1. Init => Mailbox!Init
  BY DEF Init, Mailbox!Init, turns, wishes, QueuedViews, Mailbox!Blank
<1>2. TypeOK /\ ActiveData /\ OneEntryPerView /\ [Next]_vars
        => [Mailbox!Next]_(Mailbox!vars)
  <2> SUFFICES ASSUME TypeOK, ActiveData, OneEntryPerView, [Next]_vars
               PROVE  Mailbox!Next \/ UNCHANGED <<q, data>>
    BY DEF Mailbox!vars
  <2>1. Distinct(q)
    BY DEF OneEntryPerView, Distinct
  <2>2. ASSUME NEW t \in Threads, Add(t)
        PROVE  Mailbox!Next
    BY <2>1, <2>2, PostStep DEF Mailbox!Next
  <2>3. ASSUME NEW t \in Threads, ProcessRefused(t)
        PROVE  Mailbox!Next
    BY <2>1, <2>3, RefuseStep DEF Mailbox!Next
  <2>4. ASSUME NEW t \in Threads, ProcessWritten(t)
        PROVE  Mailbox!Next
    BY <2>1, <2>4, DeliverStep DEF Mailbox!Next
  <2>5. ASSUME NEW t \in Threads,
               \/ CheckSerializing(t) \/ SerializeBegin(t) \/ ResetFlags(t)
               \/ StartTransaction(t) \/ ProcessNothing(t) \/ SerializeEnd(t)
        PROVE  UNCHANGED <<q, data>>
    BY <2>5 DEF CheckSerializing, SerializeBegin, ResetFlags, StartTransaction,
       ProcessNothing, SerializeEnd, queue_vars
  <2>6. ASSUME FinishOK \/ FinishFailed
        PROVE  Mailbox!Next \/ UNCHANGED <<q, data>>
    <3>1. UNCHANGED q /\ data' = None
      BY <2>6 DEF FinishOK, FinishFailed
    <3>2. CASE data = None
      BY <3>1, <3>2
    <3>3. CASE data # None
      BY <3>1, <3>3 DEF Mailbox!Next, Mailbox!Acknowledge
    <3> QED
      BY <3>2, <3>3
  <2>7. ASSUME \/ FinishIdle \/ FinishAborted \/ TimerDisable \/ DeferredCall
               \/ ReadAnswer \/ TimerIgnored \/ TimerExpired
        PROVE  UNCHANGED <<q, data>>
    BY <2>7 DEF FinishIdle, FinishAborted, TimerDisable, DeferredCall, ReadAnswer,
       TimerIgnored, TimerExpired, queue_vars
  <2>8. ASSUME Requests \/ DcpdAnswers \/ DcpdForgets \/ UNCHANGED vars
        PROVE  UNCHANGED <<q, data>>
    BY <2>8 DEF Requests, FlagsRaised, ViewForced, ActivateView, BusyChanged,
       LanguageChanged, DcpdAnswers, DcpdForgets, vars, queue_vars
  <2> QED
    BY <2>2, <2>3, <2>4, <2>5, <2>6, <2>7, <2>8 DEF Next, Step, MainStep, TimerFires, Finish
<1> QED
  BY <1>1, <1>2, TypeCorrect, ActiveDataHolds, OneEntryPerViewHolds, PTL
     DEF Spec, ImplementsMailbox, Mailbox!Spec
=============================================================================
