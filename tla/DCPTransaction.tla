--------------------------- MODULE DCPTransaction ---------------------------
(***************************************************************************)
(* DCP::Transaction, the life cycle of a single XML transfer to dcpd       *)
(* (dcp_transaction.cc).  Each operation is an operator from the current   *)
(* state to the next one, paired with the predicate that says whether the  *)
(* member function returns true.  A state for which the C++ switch falls   *)
(* through to "return false" is mapped to itself.                          *)
(***************************************************************************)

IDLE            == "IDLE"
STARTED_ASYNC   == "STARTED_ASYNC"
WAIT_FOR_COMMIT == "WAIT_FOR_COMMIT"
WAIT_FOR_ANSWER == "WAIT_FOR_ANSWER"

TxStates == {IDLE, STARTED_ASYNC, WAIT_FOR_COMMIT, WAIT_FOR_ANSWER}

is_in_progress(st) == st # IDLE

(* Mutant: any state may be started.                                       *)
start_ok_always(st) == TRUE

(* start(false) begins the work, out of IDLE or out of a deferred start.   *)
start_ok(st) == st \in {IDLE, STARTED_ASYNC}

start(st) == IF start_ok(st) THEN WAIT_FOR_COMMIT ELSE st

(* start(true) only marks an idle transaction; it always returns false.    *)
start_async(st) == IF st = IDLE THEN STARTED_ASYNC ELSE st

commit_ok(st) == st = WAIT_FOR_COMMIT

commit(st) == IF commit_ok(st) THEN WAIT_FOR_ANSWER ELSE st

done_ok(st) == st = WAIT_FOR_ANSWER

done(st) == IF done_ok(st) THEN IDLE ELSE st

(* abort() jumps to WAIT_FOR_ANSWER behind the observer's back and closes  *)
(* the transaction with done().                                            *)
abort_ok(st) == st # IDLE

abort(st) == IF abort_ok(st) THEN done(WAIT_FOR_ANSWER) ELSE st

=============================================================================
