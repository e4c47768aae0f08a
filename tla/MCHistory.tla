------------------------------- MODULE MCHistory -------------------------------
(***************************************************************************)
(* An instance of History for TLC.  Ids 1 and 4 are single jobs, 3 is a     *)
(* batch of 2.  A run begins with the last id already given out, so that    *)
(* one job and the batch remain, or those of the batch, so that two single  *)
(* jobs do.  Keys are interchangeable.                                     *)
(***************************************************************************)
EXTENDS History, TLC

OneBatch == [j \in Jobs |-> IF j = 3 THEN {2} ELSE {}]

HistoryInit == \E ids \in {{4}, {2, 3}} : InitAt("serving", ids)

HistorySpec == HistoryInit /\ [][Next]_vars

Symmetry == Permutations(Keys)
================================================================================
