-------------------------- MODULE MCRollingDispatch --------------------------
(* Small batteries for RollingDispatch: half the energy lost on the way out, *)
(* no loss and a tight cycle limit, and self-discharge, with which a later   *)
(* solve can be infeasible.                                                  *)
EXTENDS RollingDispatch

Small == [capacity |-> 5, maxCharge |-> 2, maxDischarge |-> 1, minSoc |-> 0,
          maxSoc |-> 5, initial |-> 3, terminal |-> 3, reserve |-> 1,
          gain |-> 1, draw |-> 2, keep |-> 100, budget |-> 4]

MCBatteries == {Small,
                [Small EXCEPT !.draw = 1, !.maxDischarge = 2, !.budget = 3],
                [Small EXCEPT !.draw = 1, !.keep = 80]}
=============================================================================
