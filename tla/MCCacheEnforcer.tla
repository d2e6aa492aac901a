--------------------------- MODULE MCCacheEnforcer ---------------------------
(* A small instance of CacheEnforcer: names are interchangeable. *)
EXTENDS CacheEnforcer, TLC

\* ms: below a second's worth, around one minute, and the longest for which
\* the difference of 42 seconds is not exceeded
MCExpiries  == {60000, 210000}
\* a list that expires after ten minutes
MCTenMinutes == {600000}
=============================================================================
