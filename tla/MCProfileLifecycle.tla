------------------------- MODULE MCProfileLifecycle -------------------------
(* Instances of ProfileLifecycle for TLC.                                   *)
EXTENDS ProfileLifecycle, TLC

\* Callers of one kind behave alike; runs are ordered and are not permuted.
CallerSymmetry == Permutations(Starters) \cup Permutations(Stoppers)
                  \cup Permutations(Updaters)
=============================================================================
