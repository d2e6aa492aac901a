------------------------- MODULE MCBrowserNavigation -------------------------
(* BrowserNavigation with two contexts. *)
EXTENDS BrowserNavigation, TLC

CONSTANTS c1, c2

MCContexts == {c1, c2}

Symmetry == Permutations(MCContexts)

(* Nothing reads a call that has been taken out of its slot: its answer is *)
(* ignored.  States that differ in such a call alone are the same.         *)
Live == <<[browser EXCEPT !.deleted = (@ # Null)], source, stash, oauth, broker_vars>>

=============================================================================
