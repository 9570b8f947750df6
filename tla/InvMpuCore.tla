----------------------------- MODULE InvMpuCore -----------------------------
(***************************************************************************)
(* Life cycle of the inv_mpu IIO driver: the sysfs operations that wake,   *)
(* configure, enable and disable the chip, the threaded interrupt handler, *)
(* and the system suspend/resume callbacks, together with the three locks  *)
(* they share (the IIO mutex mlock, the semaphore suspend_resume_lock and  *)
(* the chip's cached power state).                                         *)
(*                                                                         *)
(* A sysfs operation that runs under mlock from its first state access to  *)
(* its last is one action.  The two that do not (inv_attr64_store and      *)
(* inv_dmp_firmware_write) are two actions each, cut where the lock is.    *)
(* The interrupt thread and the suspend path are cut at every lock and at  *)
(* every place where the other one may observe them.                       *)
(***************************************************************************)
EXTENDS Naturals

CONSTANTS
  Callers,      \* user-space threads that use the driver's sysfs files
  Ops,          \* the sysfs files they use, a subset of AllOps
  MaxFaults,    \* bound on the I2C transfers of sysfs operations that fail
  MaxPmFaults,  \* bound on the I2C transfers of suspend/resume that fail
  MaxSuspends,  \* bound on the suspend attempts
  LateBuffer,   \* may users enable the buffer of a chip that runs already?
  Aborts,       \* may the PM core abandon a suspend after .suspend has run?
  BitfieldRace  \* may two unserialised bit-field stores overwrite each other?

DmpAttrs    == {"dmp_on", "dmp_int_on", "dmp_event_int_on", "batchmode_timeout"}
DmpMemAttrs == {"pedometer_on", "pedometer_int_on", "smd_enable",
                "display_orientation_on"}
EngineAttrs == {"gyro_enable", "gyro_fifo_enable", "accel_enable",
                "accel_fifo_enable"}

\* The cached settings the life cycle depends on, named after their files.
Settings == DmpAttrs \cup DmpMemAttrs \cup EngineAttrs
              \cup {"motion_lpa_on", "firmware_loaded"}

AllOps == Settings \cup
  {"master_enable", "buffer_enable", "dmp_firmware", "pedometer_steps",
   "self_test", "self_test_threshold", "offset", "temperature", "dmp_bias",
   "six_axes_q_value", "dmp_firmware_read"}

ASSUME ConstantsAssumption ==
  /\ Ops \subseteq AllOps
  /\ MaxFaults \in Nat /\ MaxPmFaults \in Nat /\ MaxSuspends \in Nat
  /\ LateBuffer \in BOOLEAN /\ Aborts \in BOOLEAN /\ BitfieldRace \in BOOLEAN

VARIABLES
  cfg,       \* struct inv_chip_config_s and friends: the cached settings
  drv,       \* driver flags: enable, batchOn, suspendState, smdTriggered
  buffer,    \* is the IIO buffer enabled (indio_dev->currentmode)?
  power,     \* asleep: chip_config.is_asleep; sleep: the chip's SLEEP bit
  chip,      \* the chip's other registers and its DMP memory
  mlock,     \* is indio_dev->mlock held (across actions: by the irq thread)?
  srl,       \* count of the semaphore suspend_resume_lock
  pc,        \* where each caller is
  irqLoc,    \* where the interrupt thread is
  irqWake,   \* has inv_irq_handler asked for another run of the thread?
  wakeup,    \* did an interrupt arrive while interrupts were disabled?
  pm,        \* phase of the system's power management
  pmError,   \* did the last inv_mpu_resume return an error?
  faults, pmFaults, suspends   \* counters for the three bounds

userVars == <<cfg, drv, buffer, power, chip>>
irqVars  == <<mlock, srl, irqLoc, irqWake, wakeup>>
pmVars   == <<pm, pmError, pmFaults, suspends>>
vars     == <<userVars, irqVars, pmVars, pc, faults>>

CallerLocs == {"idle", "attr64_unlocked", "firmware_checked"}
IrqLocs    == {"idle", "srl", "mlock", "dmp", "fifo", "unlock"}
PmPhases   == {"running", "suspend", "quiesced", "late", "draining", "asleep",
               "resume"}

Init ==
  /\ cfg = [a \in Settings |-> FALSE]
  /\ drv = [enable |-> FALSE, batchOn |-> FALSE, suspendState |-> FALSE,
            smdTriggered |-> FALSE]
  /\ buffer = FALSE
  /\ power = [asleep |-> TRUE, sleep |-> TRUE]
  /\ chip = [gyro |-> FALSE, accel |-> FALSE, dataInt |-> FALSE, mode |-> "off",
             gestureOnly |-> FALSE, threshold |-> "none", pedInt |-> FALSE,
             orientInt |-> FALSE, smdStatus |-> FALSE, image |-> "none"]
  /\ mlock = FALSE /\ srl = 1
  /\ pc = [c \in Callers |-> "idle"]
  /\ irqLoc = "idle" /\ irqWake = FALSE /\ wakeup = FALSE
  /\ pm = "running" /\ pmError = FALSE
  /\ faults = 0 /\ pmFaults = 0 /\ suspends = 0
-----------------------------------------------------------------------------
(* Building blocks of the sysfs operations *)

\* set_power_itg(st, true): no transfer when the cached bit says awake.
Woken(p) == IF p.asleep THEN [asleep |-> FALSE, sleep |-> FALSE] ELSE p

\* set_power_itg(st, false)
Slept(p) == IF p.asleep THEN p ELSE [asleep |-> TRUE, sleep |-> TRUE]

\* Caller c enters the locked part of operation op.
Enter(c, op) ==
  /\ op \in Ops /\ pc[c] = "idle" /\ pm = "running" /\ ~mlock

Fault == faults < MaxFaults /\ faults' = faults + 1

\* Where a transfer of an operation that wakes the chip, works and puts it
\* back may fail.  A failed wake-up changes nothing and is not listed.
Stages == {"none", "body", "sleep"}
FaultAt(s) == IF s = "none" THEN UNCHANGED faults ELSE Fault
Bracketed(s) == IF s = "sleep" THEN Woken(power) ELSE Slept(Woken(power))

Locked == UNCHANGED <<pc, irqVars, pmVars>>

\* What the configuration asks of an enabled chip.
Batching == cfg.dmp_on /\ cfg.batchmode_timeout /\ ~cfg.dmp_event_int_on
DataInt  == IF cfg.dmp_on THEN cfg.dmp_int_on
            ELSE cfg.gyro_fifo_enable \/ cfg.accel_fifo_enable \/ cfg.motion_lpa_on
Mode     == IF cfg.dmp_on THEN "dmp" ELSE "fifo"

\* inv_set_dmp_sysfs and inv_batchmode_setup
DmpSysfs(h) ==
  IF cfg.dmp_on
  THEN [h EXCEPT !.gestureOnly = cfg.dmp_event_int_on,
                 !.threshold = IF Batching THEN "counter" ELSE @]
  ELSE h
Engines(h) ==
  [h EXCEPT !.gyro = @ \/ cfg.gyro_enable, !.accel = @ \/ cfg.accel_enable]

\* inv_reset_fifo; its failure path re-enables the interrupt unless the
\* very first or an int_enable write failed.
ResetFifo(h) == [h EXCEPT !.dataInt = DataInt, !.mode = Mode]
FailedResets(h) ==
  {[h EXCEPT !.dataInt = i, !.mode = m] : i \in BOOLEAN, m \in {h.mode, "off", Mode}}

\* The registers that an enable failing half way may leave behind.
EnableLeftovers ==
  LET dmp == DmpSysfs(chip)
      gesture == [chip EXCEPT !.gestureOnly = dmp.gestureOnly]
      gyro == [dmp EXCEPT !.gyro = @ \/ cfg.gyro_enable]
  IN {chip, gesture, dmp, gyro, Engines(dmp)} \cup FailedResets(Engines(dmp))

Disabled(h) ==
  [h EXCEPT !.dataInt = FALSE, !.mode = "off", !.gyro = FALSE, !.accel = FALSE]
DisableLeftovers ==
  {chip, [chip EXCEPT !.dataInt = FALSE],
   [chip EXCEPT !.dataInt = FALSE, !.mode = "off"],
   [chip EXCEPT !.dataInt = FALSE, !.mode = "off", !.gyro = FALSE]}

\* set_inv_enable(false) then set_power_state(false); done says whether both
\* succeeded, which is what inv_predisable reports to the IIO core.
TurnOff(done) ==
  \/ /\ done
     /\ chip' = Disabled(chip) /\ drv' = [drv EXCEPT !.enable = FALSE]
     /\ power' = Slept(power)
     /\ UNCHANGED faults
  \/ /\ ~done /\ Fault
     /\ chip' = Disabled(chip) /\ drv' = [drv EXCEPT !.enable = FALSE]
     /\ UNCHANGED power
  \/ /\ ~done /\ Fault
     /\ chip' \in DisableLeftovers
     /\ UNCHANGED <<drv, power>>
-----------------------------------------------------------------------------
(* master_enable and buffer/enable *)

\* The DMP is requested without firmware: -EINVAL, the chip stays awake.
EnableRefused(c) ==
  /\ Enter(c, "master_enable") /\ ~drv.enable
  /\ cfg.dmp_on /\ ~cfg.firmware_loaded
  /\ power' = Woken(power)
  /\ UNCHANGED <<cfg, drv, buffer, chip, faults>> /\ Locked

EnableFails(c) ==
  /\ Enter(c, "master_enable") /\ ~drv.enable
  /\ cfg.dmp_on => cfg.firmware_loaded
  /\ Fault
  /\ power' = Woken(power)
  /\ chip' \in EnableLeftovers
  /\ \E b \in {FALSE, Batching} : drv' = [drv EXCEPT !.batchOn = b]
  /\ UNCHANGED <<cfg, buffer>> /\ Locked

EnableSucceeds(c) ==
  /\ Enter(c, "master_enable") /\ ~drv.enable
  /\ cfg.dmp_on => cfg.firmware_loaded
  /\ power' = Woken(power)
  /\ chip' = ResetFifo(Engines(DmpSysfs(chip)))
  /\ drv' = [drv EXCEPT !.enable = TRUE, !.batchOn = Batching]
  /\ UNCHANGED <<cfg, buffer, faults>> /\ Locked

MasterDisable(c) ==
  /\ Enter(c, "master_enable") /\ drv.enable
  /\ \E done \in BOOLEAN : TurnOff(done)
  /\ UNCHANGED <<cfg, buffer>> /\ Locked

\* inv_check_conflict_sysfs, the only place where settings are reconciled
Reconciled ==
  LET lpa == IF cfg.motion_lpa_on
             THEN [cfg EXCEPT !.dmp_on = FALSE, !.gyro_enable = FALSE,
                              !.gyro_fifo_enable = FALSE]
             ELSE cfg
  IN [lpa EXCEPT !.gyro_enable = @ \/ lpa.gyro_fifo_enable,
                 !.accel_enable = @ \/ lpa.accel_fifo_enable]

BufferEnable(c) ==
  /\ Enter(c, "buffer_enable") /\ ~buffer
  /\ drv.enable => LateBuffer
  /\ cfg' = Reconciled
  /\ buffer' = TRUE
  /\ UNCHANGED <<drv, power, chip, faults>> /\ Locked

BufferDisable(c) ==
  /\ Enter(c, "buffer_enable") /\ buffer
  /\ \/ /\ drv.enable
        /\ \E done \in BOOLEAN : TurnOff(done) /\ buffer' = ~done
     \/ /\ ~drv.enable
        /\ buffer' = FALSE
        /\ UNCHANGED <<drv, power, chip, faults>>
  /\ UNCHANGED cfg /\ Locked
-----------------------------------------------------------------------------
(* Configuration files: -EBUSY while the chip is enabled *)

\* Mutant of SettingStore: no -EBUSY while the chip is enabled.
SettingStoreUnguarded(c) ==
  /\ \E a \in DmpAttrs \cup EngineAttrs, v \in BOOLEAN :
       Enter(c, a) /\ cfg' = [cfg EXCEPT ![a] = v]
  /\ UNCHANGED <<drv, buffer, power, chip, faults>> /\ Locked

\* _dmp_attr_store and the entries of _attr_store that leave the chip asleep
SettingStore(c) ==
  /\ \E a \in DmpAttrs \cup EngineAttrs, v \in BOOLEAN :
       Enter(c, a) /\ cfg' = [cfg EXCEPT ![a] = v]
  /\ ~drv.enable
  /\ UNCHANGED <<drv, buffer, power, chip, faults>> /\ Locked

\* ATTR_SELF_TEST_THRESHOLD has no break: the value reaches gyro_enable too.
SelfTestThresholdStore(c) ==
  /\ Enter(c, "self_test_threshold") /\ ~drv.enable
  /\ \E v \in BOOLEAN : cfg' = [cfg EXCEPT !.gyro_enable = v]
  /\ UNCHANGED <<drv, buffer, power, chip, faults>> /\ Locked

FirmwareLoadedStore(c) ==
  /\ Enter(c, "firmware_loaded") /\ ~drv.enable
  /\ cfg' = [cfg EXCEPT !.firmware_loaded = FALSE]
  /\ UNCHANGED <<drv, buffer, power, chip, faults>> /\ Locked

MotionLpaStore(c) ==
  /\ Enter(c, "motion_lpa_on") /\ ~drv.enable
  /\ \E s \in Stages, v \in BOOLEAN :
       /\ FaultAt(s)
       /\ power' = Bracketed(s)
       /\ cfg' = IF s = "body" THEN cfg ELSE [cfg EXCEPT !.motion_lpa_on = v]
  /\ UNCHANGED <<drv, buffer, chip>> /\ Locked

\* An offset out of range returns -EINVAL past the label that powers off.
OffsetRejected(c) ==
  /\ Enter(c, "offset") /\ ~drv.enable
  /\ power' = Woken(power)
  /\ UNCHANGED <<cfg, drv, buffer, chip, faults>> /\ Locked

\* Mutant of BracketedAccess: it powers off even if the chip is enabled.
BracketedAccessAnyway(c) ==
  /\ \E a \in {"offset", "temperature", "dmp_bias", "six_axes_q_value",
               "dmp_firmware_read"} :
       /\ Enter(c, a)
       /\ a \in {"dmp_bias", "six_axes_q_value"} => cfg.firmware_loaded
  /\ \E s \in Stages : FaultAt(s) /\ power' = Bracketed(s)
  /\ UNCHANGED <<cfg, drv, buffer, chip>> /\ Locked

\* Files that wake a disabled chip, transfer something and put it back.
BracketedAccess(c) ==
  /\ \E a \in {"offset", "temperature", "dmp_bias", "six_axes_q_value",
               "dmp_firmware_read"} :
       /\ Enter(c, a)
       /\ a \in {"dmp_bias", "six_axes_q_value"} => cfg.firmware_loaded
  /\ ~drv.enable
  /\ \E s \in Stages : FaultAt(s) /\ power' = Bracketed(s)
  /\ UNCHANGED <<cfg, drv, buffer, chip>> /\ Locked

\* inv_dmp_firmware_read returns from its loop without powering off.
FirmwareReadFails(c) ==
  /\ Enter(c, "dmp_firmware_read") /\ ~drv.enable
  /\ Fault
  /\ power' = Woken(power)
  /\ UNCHANGED <<cfg, drv, buffer, chip>> /\ Locked

DmpMemStore(c) ==
  /\ ~drv.enable /\ cfg.firmware_loaded
  /\ \E a \in DmpMemAttrs, v \in BOOLEAN, s \in Stages :
       /\ Enter(c, a)
       /\ FaultAt(s)
       /\ power' = Bracketed(s)
       /\ IF s = "body" THEN UNCHANGED <<cfg, chip>>
          ELSE /\ cfg' = [cfg EXCEPT ![a] = v]
               /\ chip' = [chip EXCEPT
                    !.pedInt = IF a = "pedometer_int_on" THEN v ELSE @,
                    !.orientInt = IF a = "display_orientation_on" THEN v ELSE @]
  /\ UNCHANGED <<drv, buffer>> /\ Locked

\* inv_hw_self_test: the FIFO stays switched on afterwards; a failure before
\* the first measurement returns without inv_recover_setting.
SelfTest(c) ==
  /\ Enter(c, "self_test") /\ ~drv.enable
  /\ \/ \E s \in Stages, i \in {FALSE, chip.dataInt}, m \in {chip.mode, "off", "fifo"},
           a, g \in BOOLEAN :
          /\ FaultAt(s)
          /\ s # "body" => ~i /\ m = "fifo" /\ ~a /\ ~g
          /\ power' = Bracketed(s)
          /\ chip' = [chip EXCEPT !.dataInt = i, !.mode = m, !.gyro = g, !.accel = a]
     \/ \E a, g \in BOOLEAN :
          /\ Fault
          /\ power' = Woken(power)
          /\ g => a
          /\ chip' = [chip EXCEPT !.accel = a \/ @, !.gyro = g \/ @]
  /\ UNCHANGED <<cfg, drv, buffer>> /\ Locked
-----------------------------------------------------------------------------
(* The two operations that leave the lock *)

\* inv_attr64_store, up to the mutex_unlock
Attr64Store(c) ==
  /\ Enter(c, "pedometer_steps") /\ ~drv.enable /\ cfg.firmware_loaded
  /\ power' = Woken(power)
  /\ pc' = [pc EXCEPT ![c] = "attr64_unlocked"]
  /\ UNCHANGED <<cfg, drv, buffer, chip, faults, irqVars, pmVars>>

\* set_power_state(st, false) by a path that holds no lock: while the irq
\* thread writes other bits of the same word its store of is_asleep may vanish.
UnlockedSleep ==
  {Slept(power)} \cup
    (IF BitfieldRace /\ irqLoc \in {"dmp", "fifo"} /\ ~power.asleep
     THEN {[asleep |-> FALSE, sleep |-> TRUE]} ELSE {})

\* ... and its set_power_state after the unlock
Attr64PowerOff(c) ==
  /\ pc[c] = "attr64_unlocked"
  /\ \/ power' \in UnlockedSleep /\ UNCHANGED faults
     \/ Fault /\ UNCHANGED power
  /\ pc' = [pc EXCEPT ![c] = "idle"]
  /\ UNCHANGED <<cfg, drv, buffer, chip, irqVars, pmVars>>

\* Mutant of FirmwareCheck: loading over loaded firmware is not refused.
FirmwareRecheck(c) ==
  /\ "dmp_firmware" \in Ops /\ pc[c] = "idle" /\ pm = "running"
  /\ ~drv.enable
  /\ pc' = [pc EXCEPT ![c] = "firmware_checked"]
  /\ UNCHANGED <<userVars, faults, irqVars, pmVars>>

\* inv_dmp_firmware_write tests both flags before it takes the lock.
FirmwareCheck(c) ==
  /\ "dmp_firmware" \in Ops /\ pc[c] = "idle" /\ pm = "running"
  /\ ~cfg.firmware_loaded /\ ~drv.enable
  /\ pc' = [pc EXCEPT ![c] = "firmware_checked"]
  /\ UNCHANGED <<userVars, faults, irqVars, pmVars>>

\* Mutant of Reloaded: the image may be incomplete when it is accepted.
ReloadedUnverified(h) ==
  [h EXCEPT !.gestureOnly = FALSE, !.threshold = "none", !.pedInt = FALSE,
            !.orientInt = FALSE, !.image = "partial"]

\* Loading resets the DMP's memory to the image's defaults.  Only one image
\* has the right CRC, so writing part of it over itself leaves it complete.
Reloaded(h) ==
  [h EXCEPT !.gestureOnly = FALSE, !.threshold = "none", !.pedInt = FALSE,
            !.orientInt = FALSE, !.image = "complete"]
HalfLoaded(h) ==
  [h EXCEPT !.image = IF h.image = "complete" THEN @ ELSE "partial"]

FirmwareLoad(c) ==
  /\ pc[c] = "firmware_checked" /\ ~mlock
  /\ \/ \* the image's CRC is wrong: the chip is put to sleep all the same
        /\ power' = Slept(power)
        /\ UNCHANGED <<cfg, chip, faults>>
     \/ \E s \in Stages \ {"body"} :
          /\ FaultAt(s)
          /\ power' = Bracketed(s)
          /\ chip' = [Reloaded(chip) EXCEPT !.mode = "off", !.gyro = FALSE]
          /\ cfg' = [cfg EXCEPT !.firmware_loaded = TRUE]
     \/ \* load, verification, calibration or dry run fails
        /\ FaultAt("body")
        /\ power' = Bracketed("body")
        /\ chip' \in {HalfLoaded(chip), HalfLoaded([Reloaded(chip) EXCEPT !.image = chip.image]),
                      Reloaded(chip), [Reloaded(chip) EXCEPT !.mode = "dmp", !.gyro = TRUE]}
        /\ UNCHANGED cfg
  /\ pc' = [pc EXCEPT ![c] = "idle"]
  /\ UNCHANGED <<drv, buffer, irqVars, pmVars>>
-----------------------------------------------------------------------------
(* Interrupts and inv_read_fifo, the body of the interrupt thread *)

IrqsOn == pm \in {"running", "suspend", "quiesced", "late", "resume"}

\* inv_irq_handler.  The line is shared and the handler claims every
\* interrupt, so it may run at any time; while the PM core has interrupts
\* disabled the kernel only remembers that one arrived.
RaiseIrq ==
  IF IrqsOn THEN irqWake' = TRUE /\ UNCHANGED wakeup
  ELSE wakeup' = TRUE /\ UNCHANGED irqWake

Interrupt ==
  /\ RaiseIrq
  /\ UNCHANGED <<userVars, mlock, srl, irqLoc, pmVars, pc, faults>>

\* The DMP detects a significant motion, latches it and raises its interrupt.
SignificantMotion ==
  /\ chip.mode = "dmp" /\ ~power.sleep /\ cfg.smd_enable /\ ~chip.smdStatus
  /\ chip' = [chip EXCEPT !.smdStatus = TRUE]
  /\ RaiseIrq
  /\ UNCHANGED <<cfg, drv, buffer, power, mlock, srl, irqLoc, pmVars, pc, faults>>

IrqUser == UNCHANGED <<buffer, power, wakeup, pmVars, pc, faults>>

\* The thread looks at suspend_state before it takes any lock.
IrqEnter ==
  /\ irqLoc = "idle" /\ irqWake /\ (IrqsOn \/ pm = "draining")
  /\ irqWake' = FALSE
  /\ irqLoc' = IF drv.suspendState THEN "idle" ELSE "srl"
  /\ UNCHANGED <<cfg, drv, chip, mlock, srl>> /\ IrqUser

\* Mutant of IrqDown: the result of an interrupted wait is not looked at.
IrqDownInterrupted ==
  /\ irqLoc = "srl"
  /\ srl' = srl - 1
  /\ irqLoc' = "mlock"
  /\ UNCHANGED <<cfg, drv, chip, mlock, irqWake>> /\ IrqUser

IrqDown ==
  /\ irqLoc = "srl" /\ srl > 0
  /\ srl' = srl - 1
  /\ irqLoc' = "mlock"
  /\ UNCHANGED <<cfg, drv, chip, mlock, irqWake>> /\ IrqUser

IrqLock ==
  /\ irqLoc = "mlock" /\ ~mlock
  /\ mlock' = TRUE
  /\ irqLoc' = IF cfg.dmp_on THEN "dmp" ELSE "fifo"
  /\ UNCHANGED <<cfg, drv, chip, srl, irqWake>> /\ IrqUser

\* inv_process_dmp_interrupt and the tests that follow it.  early: less than
\* DMP_MIN_RUN_TIME has passed since the last run; failed: a read failed.
IrqDmp ==
  /\ irqLoc = "dmp"
  /\ \E early, failed \in BOOLEAN :
       LET asked == cfg.smd_enable \/ cfg.pedometer_int_on
           motion == asked /\ ~failed /\ chip.smdStatus
           triggered == drv.smdTriggered \/ motion
       IN /\ cfg' = IF motion THEN [cfg EXCEPT !.smd_enable = FALSE] ELSE cfg
          /\ chip' = IF motion THEN [chip EXCEPT !.smdStatus = FALSE] ELSE chip
          /\ IF (asked /\ failed) \/ cfg.dmp_event_int_on
             THEN /\ drv' = [drv EXCEPT !.smdTriggered = triggered]
                  /\ irqLoc' = "unlock"
             ELSE /\ drv' = [drv EXCEPT !.smdTriggered = FALSE]
                  /\ irqLoc' = IF triggered \/ ~early THEN "fifo" ELSE "unlock"
  /\ UNCHANGED <<mlock, srl, irqWake>> /\ IrqUser

\* The FIFO is read or not looked at; or it is found unusable and reset.
IrqFifo ==
  /\ irqLoc = "fifo"
  /\ \/ UNCHANGED <<chip, faults>>
     \/ /\ buffer /\ drv.enable /\ ~cfg.motion_lpa_on
        /\ \/ chip' = ResetFifo(chip) /\ UNCHANGED faults
           \/ Fault /\ chip' \in FailedResets(chip)
  /\ irqLoc' = "unlock"
  /\ UNCHANGED <<cfg, drv, buffer, power, mlock, srl, irqWake, wakeup, pmVars, pc>>

\* Mutants of IrqUnlock: one of the two locks stays taken.
IrqUnlockWithoutUp ==
  /\ irqLoc = "unlock"
  /\ mlock' = FALSE
  /\ irqLoc' = "idle"
  /\ UNCHANGED <<cfg, drv, chip, srl, irqWake>> /\ IrqUser
IrqUnlockKeepingMutex ==
  /\ irqLoc = "unlock"
  /\ srl' = srl + 1
  /\ irqLoc' = "idle"
  /\ UNCHANGED <<cfg, drv, chip, mlock, irqWake>> /\ IrqUser

IrqUnlock ==
  /\ irqLoc = "unlock"
  /\ mlock' = FALSE
  /\ srl' = srl + 1
  /\ irqLoc' = "idle"
  /\ UNCHANGED <<cfg, drv, chip, irqWake>> /\ IrqUser
-----------------------------------------------------------------------------
(* System suspend and resume *)

PmFault == pmFaults < MaxPmFaults /\ pmFaults' = pmFaults + 1
PmStep(from, to) == pm = from /\ pm' = to
DmpRunning == cfg.dmp_on /\ drv.enable

\* User space is frozen: no caller is inside the driver any more.
SuspendStart ==
  /\ PmStep("running", "suspend")
  /\ \A c \in Callers : pc[c] = "idle"
  /\ suspends < MaxSuspends /\ suspends' = suspends + 1
  /\ UNCHANGED <<userVars, irqVars, pmError, pmFaults, pc, faults>>

\* Mutant of Quiet: the pedometer's interrupt is forgotten.
QuietButPedometer(h) ==
  LET q == [h EXCEPT !.orientInt = IF cfg.display_orientation_on THEN FALSE ELSE @]
  IN IF cfg.dmp_event_int_on THEN q
     ELSE [q EXCEPT !.gestureOnly = TRUE, !.threshold = "max"]

\* What suspend leaves in the DMP: only gestures interrupt, no batch timeout.
Quiet(h) ==
  LET q == [h EXCEPT !.pedInt = IF cfg.pedometer_int_on THEN FALSE ELSE @,
                     !.orientInt = IF cfg.display_orientation_on THEN FALSE ELSE @]
  IN IF cfg.dmp_event_int_on THEN q
     ELSE [q EXCEPT !.gestureOnly = TRUE, !.threshold = "max"]
\* Mutant of Audible: the batch threshold is not restored.
AudibleUnbatched(h) ==
  LET a == [h EXCEPT !.pedInt = @ \/ cfg.pedometer_int_on,
                     !.orientInt = @ \/ cfg.display_orientation_on]
  IN IF cfg.dmp_event_int_on THEN a ELSE [a EXCEPT !.gestureOnly = FALSE]

Audible(h) ==
  LET a == [h EXCEPT !.pedInt = @ \/ cfg.pedometer_int_on,
                     !.orientInt = @ \/ cfg.display_orientation_on]
  IN IF cfg.dmp_event_int_on THEN a
     ELSE [a EXCEPT !.gestureOnly = FALSE, !.threshold = "counter"]

\* Every transfer of suspend and resume is tried even if another one failed.
SomeOf(g, h) ==
  {[g EXCEPT !.pedInt = p, !.orientInt = o, !.gestureOnly = e, !.threshold = t] :
     p \in {g.pedInt, h.pedInt}, o \in {g.orientInt, h.orientInt},
     e \in {g.gestureOnly, h.gestureOnly}, t \in {g.threshold, h.threshold}}

\* inv_mpu_suspend up to its last statement; it takes no lock.
KeepsRunning ==
  cfg.dmp_on /\ (drv.batchOn \/ cfg.smd_enable \/ cfg.pedometer_on)

SuspendQuiesce ==
  /\ PmStep("suspend", "quiesced")
  /\ \/ /\ chip' = IF DmpRunning THEN Quiet(chip) ELSE chip
        /\ IF drv.enable /\ ~KeepsRunning THEN power' \in UnlockedSleep
           ELSE UNCHANGED power
        /\ UNCHANGED pmFaults
     \/ /\ PmFault /\ drv.enable
        /\ chip' \in (IF DmpRunning THEN SomeOf(chip, Quiet(chip)) ELSE {chip})
        /\ IF KeepsRunning THEN UNCHANGED power ELSE power' \in {power, Slept(power)}
  /\ UNCHANGED <<cfg, drv, buffer, irqVars, pmError, suspends, pc, faults>>

\* ... and its last statement
SuspendMark ==
  /\ PmStep("quiesced", "late")
  /\ drv' = [drv EXCEPT !.suspendState = TRUE]
  /\ UNCHANGED <<cfg, buffer, power, chip, irqVars, pmError, pmFaults, suspends,
                 pc, faults>>

\* Another device refuses to suspend: the PM core resumes this one.
SuspendAbort ==
  /\ Aborts /\ PmStep("late", "resume")
  /\ UNCHANGED <<userVars, irqVars, pmError, pmFaults, suspends, pc, faults>>

\* The PM core disables interrupts and waits for running handlers.
DisableIrqs ==
  /\ PmStep("late", "draining")
  /\ UNCHANGED <<userVars, irqVars, pmError, pmFaults, suspends, pc, faults>>

\* Mutant of SuspendNoirq: the semaphore is not taken.
SuspendNoirqUnlocked ==
  /\ PmStep("draining", "asleep")
  /\ irqLoc = "idle" /\ ~irqWake
  /\ drv' = [drv EXCEPT !.suspendState = FALSE]
  /\ UNCHANGED <<cfg, buffer, power, chip, irqVars, pmError, pmFaults, suspends, pc, faults>>

\* inv_mpu_suspend_noirq
SuspendNoirq ==
  /\ PmStep("draining", "asleep")
  /\ irqLoc = "idle" /\ ~irqWake
  /\ srl > 0 /\ srl' = srl - 1
  /\ drv' = [drv EXCEPT !.suspendState = FALSE]
  /\ UNCHANGED <<cfg, buffer, power, chip, mlock, irqLoc, irqWake, wakeup, pmError,
                 pmFaults, suspends, pc, faults>>

\* The system wakes up and the kernel replays an interrupt it remembered.
Wake ==
  /\ PmStep("asleep", "resume")
  /\ irqWake' = wakeup /\ wakeup' = FALSE
  /\ UNCHANGED <<userVars, mlock, srl, irqLoc, pmError, pmFaults, suspends, pc, faults>>

\* Mutants of Resume: a disabled chip is woken too; the semaphore is not
\* given back.
ResumeDisabledToo ==
  /\ PmStep("resume", "running") /\ ~mlock
  /\ power' = Woken(power)
  /\ chip' = IF DmpRunning THEN Audible(chip) ELSE chip
  /\ pmError' = FALSE
  /\ srl' = srl + 1
  /\ UNCHANGED <<cfg, drv, buffer, mlock, irqLoc, irqWake, wakeup, pmFaults, suspends,
                 pc, faults>>
ResumeWithoutUp ==
  /\ PmStep("resume", "running") /\ ~mlock
  /\ power' = IF drv.enable THEN Woken(power) ELSE power
  /\ chip' = IF DmpRunning THEN Audible(chip) ELSE chip
  /\ pmError' = FALSE
  /\ UNCHANGED <<cfg, drv, buffer, irqVars, pmFaults, suspends, pc, faults>>

\* inv_mpu_resume
Resume ==
  /\ PmStep("resume", "running") /\ ~mlock
  /\ \/ /\ power' = IF drv.enable THEN Woken(power) ELSE power
        /\ chip' = IF DmpRunning THEN Audible(chip) ELSE chip
        /\ pmError' = FALSE /\ UNCHANGED pmFaults
     \/ /\ PmFault /\ drv.enable
        /\ power' \in {power, Woken(power)}
        /\ chip' \in (IF DmpRunning THEN SomeOf(chip, Audible(chip)) ELSE {chip})
        /\ pmError' = TRUE
  /\ srl' = srl + 1
  /\ UNCHANGED <<cfg, drv, buffer, mlock, irqLoc, irqWake, wakeup, suspends, pc, faults>>
-----------------------------------------------------------------------------
Operation(c) ==
  \/ EnableRefused(c) \/ EnableFails(c) \/ EnableSucceeds(c) \/ MasterDisable(c)
  \/ BufferEnable(c) \/ BufferDisable(c)
  \/ SettingStore(c) \/ SelfTestThresholdStore(c) \/ FirmwareLoadedStore(c)
  \/ MotionLpaStore(c) \/ OffsetRejected(c) \/ BracketedAccess(c)
  \/ FirmwareReadFails(c) \/ DmpMemStore(c) \/ SelfTest(c)
  \/ Attr64Store(c) \/ Attr64PowerOff(c) \/ FirmwareCheck(c) \/ FirmwareLoad(c)

IrqThread == IrqEnter \/ IrqDown \/ IrqLock \/ IrqDmp \/ IrqFifo \/ IrqUnlock

PmCore == SuspendStart \/ SuspendQuiesce \/ SuspendMark \/ SuspendAbort
            \/ DisableIrqs \/ SuspendNoirq \/ Wake \/ Resume

Next ==
  \/ \E c \in Callers : Operation(c)
  \/ Interrupt \/ SignificantMotion \/ IrqThread
  \/ PmCore

Spec == Init /\ [][Next]_vars

\* The kernel schedules its threads; a mutex and a semaphore hand over in
\* FIFO order, so a waiter that keeps being overtaken is served (SF).  A
\* suspend that began goes on, but nothing forces a sleeping system to wake.
Fairness ==
  /\ WF_vars(IrqEnter) /\ SF_vars(IrqDown) /\ SF_vars(IrqLock)
  /\ WF_vars(IrqDmp) /\ WF_vars(IrqFifo) /\ WF_vars(IrqUnlock)
  /\ \A c \in Callers : WF_vars(Attr64PowerOff(c)) /\ SF_vars(FirmwareLoad(c))
  /\ WF_vars(SuspendQuiesce) /\ WF_vars(SuspendMark) /\ WF_vars(DisableIrqs)
  /\ WF_vars(SuspendNoirq) /\ SF_vars(Resume)

FairSpec == Spec /\ Fairness
-----------------------------------------------------------------------------
(* Correctness *)

CfgType   == [Settings -> BOOLEAN]
DrvType   == [enable : BOOLEAN, batchOn : BOOLEAN, suspendState : BOOLEAN,
              smdTriggered : BOOLEAN]
PowerType == [asleep : BOOLEAN, sleep : BOOLEAN]
ChipType  == [gyro : BOOLEAN, accel : BOOLEAN, dataInt : BOOLEAN,
              mode : {"off", "fifo", "dmp"}, gestureOnly : BOOLEAN,
              threshold : {"none", "counter", "max"}, pedInt : BOOLEAN,
              orientInt : BOOLEAN, smdStatus : BOOLEAN,
              image : {"none", "partial", "complete"}]

\* Type invariant of the model's state.
TypeOK ==
  /\ cfg \in CfgType /\ drv \in DrvType /\ buffer \in BOOLEAN
  /\ power \in PowerType /\ chip \in ChipType
  /\ mlock \in BOOLEAN /\ srl \in Nat
  /\ pc \in [Callers -> CallerLocs]
  /\ irqLoc \in IrqLocs /\ irqWake \in BOOLEAN /\ wakeup \in BOOLEAN
  /\ pm \in PmPhases /\ pmError \in BOOLEAN
  /\ faults \in Nat /\ pmFaults \in Nat /\ suspends \in Nat

\* While the system runs, an enabled chip is awake, unless the last resume
\* reported that it failed: nothing but a disable, which also clears the
\* enable flag, may end in set_power_state(false).
AwakeWhileEnabled ==
  pm = "running" /\ drv.enable /\ ~pmError => ~power.sleep

\* The DMP never runs on anything but a completely loaded image: the flag
\* firmware_loaded gates set_inv_enable and only a whole load sets it.
DmpRunsCompleteImage == chip.mode = "dmp" => chip.image = "complete"

\* An enabled chip runs what the settings say: they cannot change under it.
ChipFollowsSettings ==
  pm = "running" /\ drv.enable =>
    /\ chip.mode = Mode /\ chip.dataInt = DataInt
    /\ chip.gyro = cfg.gyro_enable /\ chip.accel = cfg.accel_enable
    /\ drv.batchOn = Batching

\* The DMP's interrupt routing is, whenever the system runs with the DMP
\* enabled, what the settings ask for: resume undoes what suspend wrote.
ResumeRestoresEvents ==
  pm = "running" /\ DmpRunning /\ ~pmError =>
    /\ chip.gestureOnly = cfg.dmp_event_int_on
    /\ chip.pedInt = cfg.pedometer_int_on
    /\ chip.orientInt = cfg.display_orientation_on
    /\ drv.batchOn => chip.threshold = "counter"

\* A chip that keeps running while the system sleeps raises no data,
\* pedometer or orientation interrupts that would wake it needlessly.
QuietWhileAsleep ==
  pm = "asleep" /\ DmpRunning /\ ~power.sleep =>
    /\ chip.gestureOnly /\ ~chip.pedInt /\ ~chip.orientInt
    /\ ~cfg.dmp_event_int_on => chip.threshold # "counter"

\* From suspend_noirq until resume has finished the interrupt thread is kept
\* out of the driver by suspend_resume_lock.
IrqThreadShutOut ==
  pm \in {"asleep", "resume"} => irqLoc \in {"idle", "srl"} /\ ~mlock

\* DMP memory settings accepted by the driver are in the DMP's memory.  Its
\* run leaves the file firmware_loaded out: clearing it and loading again
\* resets the DMP's memory but not the cached settings.
MemorySettingsKept ==
  pm = "running" /\ cfg.firmware_loaded =>
    /\ chip.pedInt = cfg.pedometer_int_on
    /\ chip.orientInt = cfg.display_orientation_on

\* The interrupt thread, once it runs, gets back to idle, and a caller that
\* waits for the mutex in dmp_firmware finishes: no lock is left taken.
IrqThreadFinishes == irqLoc # "idle" ~> irqLoc = "idle"
CallersFinish == \A c \in Callers : pc[c] # "idle" ~> pc[c] = "idle"

\* A suspend that begins ends: with the system asleep or running again.
SuspendEnds == pm = "suspend" ~> pm \in {"asleep", "running"}

\* Nobody waits for ever: interrupt thread, callers and suspend, which take the
\* mutex and the semaphore in different orders, all get through.
EverybodyFinishes == IrqThreadFinishes /\ CallersFinish /\ SuspendEnds

\* The driver implements the power contract it has with its users.
Contract == INSTANCE MpuContract WITH
  system <- IF pm = "running" THEN "running" ELSE "suspended",
  streaming <- drv.enable, powered <- ~power.sleep, error <- pmError
KeepsContract == Contract!ContractSpec
=============================================================================
