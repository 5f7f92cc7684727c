---------------------------- MODULE MCTaskRuntime ----------------------------
(* Small programs for two tasks, on one device or on two.                    *)
EXTENDS TaskRuntime

Exec(t)    == [op |-> "exec", task |-> t, array |-> "a"]
Create     == [op |-> "create"]
WaitAll    == [op |-> "waitAll"]
WaitFor(t) == [op |-> "waitFor", task |-> t]
Read(t)    == [op |-> "read", task |-> t]
Write(t)   == [op |-> "write", task |-> t]
Copy(s, d) == [op |-> "copy", task |-> s, dst |-> d]
Set        == [op |-> "setSize", array |-> "a"]

Calls == { Exec(0), Exec(1), Create, WaitAll, WaitFor(0), Read(0), Write(1), Copy(0, 1), Set }

OneOrTwo == { [t \in {0, 1} |-> 0], [t \in {0, 1} |-> t] }

\* All programs of up to 3 calls and those of 5 that launch, wait and read.
MCPrograms ==
    UNION {[1 .. n -> Calls] : n \in 1 .. 3}
    \cup {<< Exec(0), c, WaitAll, d, Read(0) >> : c \in Calls, d \in Calls}
    \cup {<< Exec(0), c, WaitFor(0), d, Read(1) >> : c \in {Exec(1), Create, Set}, d \in {Copy(0, 1), Exec(0), Set}}
=============================================================================
