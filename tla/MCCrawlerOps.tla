---------------------------- MODULE MCCrawlerOps ----------------------------
(* A small instance of CrawlerOps: one operation that runs, others that have *)
(* been canceled or delayed before, and enough places for all of them.       *)
EXTENDS CrawlerOps, TLC

Symmetry == Permutations(Finds) \cup Permutations(Places)

\* Nothing reads what is left of an operation once it is free, nor the place
\* of one that is not registered.
Kept    == {o \in Ops : ~IsFree(o)}
OpsView == <<is_active, ops, list_vars, fetching, delayed_op, dropped, events, bad_calls,
             [o \in Kept |-> <<state[o], canceled_after_done[o], told[o],
                               o \in mine, o \in given_up>>],
             [o \in Finds \cap ops |-> place[o]]>>
=============================================================================
