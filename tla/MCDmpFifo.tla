----------------------------- MODULE MCDmpFifo -----------------------------
(* Instances of DmpFifo for TLC. *)
EXTENDS DmpFifo

CONSTANTS accel, compass, sixq

McNormal == {accel, compass}
McQuaternion == {sixq}
McSlaves == {compass}

FrameSelections == {{}, {compass}, {accel, sixq}}
=============================================================================
