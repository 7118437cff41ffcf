---------------------------- MODULE MCUploadFiles ----------------------------
(* Three batches that declare the same content, one of them the retry of     *)
(* another one's duplicate, or one batch and faults.                         *)
EXTENDS UploadFiles, TLC

CONSTANTS good, other, b1, b2, b3

MCDeclared == [b \in Batches |-> good]

MCParent == [b \in Batches |-> IF b = b3 THEN b2 ELSE None]
=============================================================================
