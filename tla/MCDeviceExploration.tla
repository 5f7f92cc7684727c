------------------------- MODULE MCDeviceExploration -------------------------
(* Up to three platforms with up to two devices each.                        *)
EXTENDS DeviceExploration

MCSystems ==
    LET Platform == UNION {[1 .. n -> Type] : n \in 0 .. 2}
    IN  UNION {[1 .. n -> Platform] : n \in 0 .. 2}
        \cup {<< << "gpu", "cpu" >>, p, << "gpu" >> >> : p \in Platform}
=============================================================================
