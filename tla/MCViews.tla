------------------------------- MODULE MCViews -------------------------------
(* Views with model values for TLC.                                        *)
EXTENDS Views, TLC

CONSTANTS b1, b2, e1, e2

MCBrowsers == {b1, b2}
MCErrors == {e1, e2}
Sym == Permutations(MCBrowsers) \cup Permutations(MCErrors)
==============================================================================
