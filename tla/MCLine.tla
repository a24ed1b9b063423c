------------------------------- MODULE MCLine -------------------------------
EXTENDS Line, TLC
CONSTANTS k1, k2

On(system, ahead, flows) == [flows |-> flows, ahead |-> ahead, on |-> system]
MCSessions ==
    {On("unix", 1, {"memory"}), On("unix", 2, {"profile"}),
     On("windows", 2, {"skill"})}
=============================================================================
