--------------------------- MODULE MCCookieCalls ---------------------------
(***************************************************************************)
(* Model values for the TLC runs of CookieCalls: a call to the root,       *)
(* two to a child, and one that blocks; and, as the other kind of calls a  *)
(* list broker gets, AsyncCalls.  They share nothing but the proxy, so     *)
(* that a behavior is about one of the two.                                *)
(***************************************************************************)
EXTENDS CookieCalls, AsyncCalls

CONSTANTS r1, c1, c2, b1,
          Kinds     \* bound: what a behavior may be about, "cookie" or "async"

VARIABLE kind

mc_vars == <<vars, async_vars, kind>>

MCInit == kind \in Kinds /\ Init /\ AsyncInit

CookieNext == kind = "cookie" /\ Next /\ UNCHANGED <<async_vars, kind>>
AsyncStep  == kind = "async" /\ AsyncNext /\ UNCHANGED <<vars, kind>>

MCNext == CookieNext \/ AsyncStep

MCSpec == MCInit /\ [][MCNext]_mc_vars
=============================================================================
