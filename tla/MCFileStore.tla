---------------------------- MODULE MCFileStore ----------------------------
(* Instances of FileStore. *)
EXTENDS FileStore, TLC

Others == Bounded \ {"upload"}

\* an upload and any two other things, or one of them twice
FilesUsed ==
    {[x \in Bounded |-> IF x \in {y, z} THEN (IF y = z /\ x # "drop" THEN 2 ELSE 1) ELSE IF x = "upload" THEN 1 ELSE 0] :
        y, z \in Others}
=============================================================================
