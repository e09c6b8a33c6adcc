----------------------- MODULE MCOperationalDataset -----------------------
(* OperationalDataset for TLC. *)
EXTENDS OperationalDataset

MCMaxLength == [runs |-> 4, rows |-> 4, judged |-> 3, losses |-> 6, slots |-> 6]
=============================================================================
