---------------------------- MODULE MCRecordForm ----------------------------
(* Instances of RecordForm. *)
EXTENDS RecordForm, TLC

Others == Bounded \ {"type", "save"}

\* forms of a new record and of record 1, encrypted or not
FormCases(may) == [encrypted: BOOLEAN, record: {0, 1},
                   may: {[x \in Bounded |-> IF x \in DOMAIN may THEN may[x] ELSE 0]}]

\* what a user does to save something, and any two other things
AnyTwo == UNION {FormCases([x \in {"type", "save", y, z} |-> 1]) : y, z \in Others}

\* he does a part of it twice, and any other thing
Twice == UNION {FormCases([x \in {"type", "save", y} |-> IF x = z THEN 2 ELSE 1]) :
                    y \in Others, z \in {"type", "save"}}

\* he types a third time, while the save waits
Thrice == FormCases([x \in {"type", "save"} |-> IF x = "type" THEN 3 ELSE 1])

FormsUsed == AnyTwo \cup Twice \cup Thrice
=============================================================================
