---------------------------- MODULE MCHalConfig -----------------------------
(***************************************************************************)
(* HalConfig for TLC.  Each behaviour works with a few of the sensors,     *)
(* chosen at the start.                                                    *)
(***************************************************************************)
EXTENDS HalConfig

CONSTANT Groups

VARIABLE used

MCGroups ==
    { {"Gyro", GRV, "StepDetector"}, {"Accelerometer", GRV, "StepDetector"},
      {"Gyro", "Accelerometer", GRV}, {"Orientation", "MagneticField", GRV},
      {"RawGyro", GMRV, "StepCounter"}, {"Gyro", "RawGyro", "Accelerometer", "ScreenOrientation"},
      {"Accelerometer", "RawMagneticField", "SignificantMotion"},
      {"Pressure", "StepDetector", "StepCounter"}, {GRV, GMRV, "LinearAccel"},
      {"MagneticField", "StepDetector", "RotationVector"} }
MCSensors == UNION MCGroups

MCInit == used \in Groups /\ HalInit
MCNext == ConfigSteps(used) /\ UNCHANGED used
MCSpec == MCInit /\ [][MCNext]_<<hal, used>>
=============================================================================
