------------------------------- MODULE MCBatches -------------------------------
(* Instances of Batches for TLC: one batch, numbered after its children. *)
EXTENDS Batches

TwoChildren == (3 :> <<1, 2>>)
OneChild == (3 :> <<1>>)

Cancellations == {"cancel"} \X Jobs
Everything == {"cancel", "delete"} \X Jobs
Removals == Cancellations \cup {<<"delete", 1>>, <<"delete", 3>>}
CancelFirst == {<<"cancel", 1>>}
================================================================================
