----------------------------- MODULE MCUserInput -----------------------------
(* UserInput with model values for TLC.                                    *)
EXTENDS UserInput

CONSTANTS s1, s2
MCStreams == {s1, s2}
=============================================================================
