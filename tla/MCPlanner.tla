----------------------------- MODULE MCPlanner -----------------------------
(* The planner over two pages.  In the first instance the older process has *)
(* two lanes, so that it may hold one page and ask for more; one lane of it *)
(* may ask for more than there is.  In the second each process has a lane.  *)
EXTENDS Planner

ElderLanes == <<1, 1, 2>>
ElderNeeds == <<{2}, {1, 3}, {1}>>
ElderSchedules == {[keys |-> <<0, 1>>, holds |-> {1}],
                   [keys |-> <<0, 0>>, holds |-> {2}]}

TwoLanes == <<1, 2>>
TwoNeeds == <<{1, 2}, {1, 2}>>
=============================================================================
