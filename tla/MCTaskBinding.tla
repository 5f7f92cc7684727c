---------------------------- MODULE MCTaskBinding ----------------------------
(***************************************************************************)
(* Instances of TaskBinding for TLC.                                        *)
(***************************************************************************)
EXTENDS TaskBinding

Tasks(n)     == [key |-> "l_numTasks", id |-> 0, n |-> n]
Dev(k, i, n) == [key |-> k, id |-> i, n |-> n]
Comment      == [key |-> "#", id |-> 0, n |-> 0]

Node == [k \in DevType |-> CASE k = "CPU" -> 1 [] k = "GPU" -> 2 [] k = "ACCEL" -> 2]

\* Files whose counts match: a device that is named twice, l_numTasks after the
\* devices, a misspelt type, no task, and no file.
GoodFiles == {
    << Tasks(2), Dev("GPU", 1, 1), Dev("GPU", 1, 1) >>,
    << Comment, Dev("ACCEL", 0, 1), Tasks(1) >>,
    << Tasks(2), Dev("GPU", 0, 1), Dev("other", 1, 1) >>,
    << Tasks(0), Dev("CPU", 0, 0) >>,
    NoFile }

\* These files match the node.
ASSUME GoodFilesMatch == Careful
=============================================================================
