---------------------------- MODULE MCInvMpuCore ----------------------------
(* Constants for model checking InvMpuCore. *)
EXTENDS InvMpuCore

CONSTANTS c1, c2

OneCaller  == {c1}
TwoCallers == {c1, c2}

Switches    == {"master_enable", "buffer_enable"}
\* Every kind of handler that touches the chip's power.
PowerOps    == Switches \cup {"dmp_on", "gyro_enable", "firmware_loaded",
                 "dmp_firmware", "pedometer_steps", "offset", "motion_lpa_on",
                 "self_test", "dmp_firmware_read", "six_axes_q_value"}
\* What set_inv_enable writes to the chip, and files that use the chip between.
SettingOps  == Switches \cup {"dmp_on", "dmp_int_on", "dmp_event_int_on",
                 "batchmode_timeout", "gyro_enable", "gyro_fifo_enable",
                 "dmp_firmware", "self_test", "self_test_threshold",
                 "temperature", "accel_enable", "pedometer_steps"}
\* What suspend and resume rewrite in the DMP.
EventOps    == {"master_enable", "dmp_on", "dmp_event_int_on", "batchmode_timeout",
                 "pedometer_int_on", "display_orientation_on", "smd_enable",
                 "dmp_firmware"}
LockOps     == {"master_enable", "dmp_on", "dmp_firmware",
                 "pedometer_steps"}
=============================================================================
