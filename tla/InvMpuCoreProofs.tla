------------------------- MODULE InvMpuCoreProofs -------------------------
(***************************************************************************)
(* Proofs about InvMpuCore, for every set of callers, every set of sysfs   *)
(* files and every number of faults and suspends.                          *)
(***************************************************************************)
EXTENDS InvMpuCore, TLAPS

\* What set_power_itg leaves is a power state.
LEMMA PowerHelpers ==
  \A p \in PowerType : Woken(p) \in PowerType /\ Slept(p) \in PowerType
  BY DEF PowerType, Woken, Slept

\* What the configuration asks for is boolean, and a mode.
LEMMA Requests ==
  ASSUME cfg \in CfgType
  PROVE  Batching \in BOOLEAN /\ DataInt \in BOOLEAN /\ Mode \in {"dmp", "fifo"}
  BY DEF CfgType, Settings, DmpAttrs, DmpMemAttrs, EngineAttrs, Batching, DataInt, Mode

\* A failed reset of the FIFO touches one interrupt bit and the mode.
LEMMA FailedResetFacts ==
  ASSUME cfg \in CfgType, NEW h \in ChipType
  PROVE  \A r \in FailedResets(h) :
           /\ r \in ChipType /\ r.image = h.image /\ r.mode \in {h.mode, "off", Mode}
           /\ r.pedInt = h.pedInt /\ r.orientInt = h.orientInt
           /\ r.gestureOnly = h.gestureOnly /\ r.threshold = h.threshold
<1> DEFINE Reset(i, m) == [h EXCEPT !.dataInt = i, !.mode = m]
           Modes == {h.mode, "off", Mode}
<1> USE DEF ChipType
<1>1. FailedResets(h) = {Reset(i, m) : i \in BOOLEAN, m \in Modes}
  BY DEF FailedResets
<1>2. \A i \in BOOLEAN, m \in Modes :
        /\ Reset(i, m) \in ChipType /\ Reset(i, m).image = h.image /\ Reset(i, m).mode = m
        /\ Reset(i, m).pedInt = h.pedInt /\ Reset(i, m).orientInt = h.orientInt
        /\ Reset(i, m).gestureOnly = h.gestureOnly /\ Reset(i, m).threshold = h.threshold
  BY Requests
<1> HIDE DEF ChipType, Reset
<1> QED  BY <1>1, <1>2

\* Every helper on the chip's registers yields a chip state.
LEMMA ChipHelpers ==
  ASSUME cfg \in CfgType, NEW h \in ChipType
  PROVE  /\ DmpSysfs(h) \in ChipType
         /\ Engines(h) \in ChipType
         /\ ResetFifo(h) \in ChipType
         /\ FailedResets(h) \subseteq ChipType
         /\ Disabled(h) \in ChipType
         /\ Reloaded(h) \in ChipType
         /\ HalfLoaded(h) \in ChipType
         /\ Quiet(h) \in ChipType
         /\ Audible(h) \in ChipType
<1> USE DEF ChipType
<1>0. /\ \A a \in Settings : cfg[a] \in BOOLEAN
      /\ {"dmp_event_int_on", "gyro_enable", "accel_enable", "pedometer_int_on",
          "display_orientation_on"} \subseteq Settings
  BY DEF CfgType, Settings, DmpAttrs, DmpMemAttrs, EngineAttrs
<1>1. DmpSysfs(h) \in ChipType  BY ZenonT(60), <1>0 DEF DmpSysfs
<1>2. Engines(h) \in ChipType  BY <1>0 DEF Engines
<1>3. ResetFifo(h) \in ChipType  BY Requests DEF ResetFifo
<1>4. FailedResets(h) \subseteq ChipType  BY FailedResetFacts
<1>5. Disabled(h) \in ChipType  BY DEF Disabled
<1>6. Reloaded(h) \in ChipType  BY DEF Reloaded
<1>7. HalfLoaded(h) \in ChipType  BY DEF HalfLoaded
<1>8. Quiet(h) \in ChipType  BY <1>0 DEF Quiet
<1>9. Audible(h) \in ChipType  BY <1>0 DEF Audible
<1> QED  BY <1>1, <1>2, <1>3, <1>4, <1>5, <1>6, <1>7, <1>8, <1>9

\* A suspend or resume some of whose transfers fail leaves a chip state with
\* the image and the mode it found.
LEMMA SomeOfFacts ==
  ASSUME NEW g \in ChipType, NEW h \in ChipType, NEW r \in SomeOf(g, h)
  PROVE  r \in ChipType /\ r.image = g.image /\ r.mode = g.mode
<1>1. PICK p \in {g.pedInt, h.pedInt}, o \in {g.orientInt, h.orientInt},
           e \in {g.gestureOnly, h.gestureOnly}, t \in {g.threshold, h.threshold} :
        r = [g EXCEPT !.pedInt = p, !.orientInt = o, !.gestureOnly = e, !.threshold = t]
  BY DEF SomeOf
<1>2. /\ p \in BOOLEAN /\ o \in BOOLEAN /\ e \in BOOLEAN
      /\ t \in {"none", "counter", "max"}
  BY DEF ChipType
<1> QED  BY <1>1, <1>2 DEF ChipType

\* The settings stay a function from Settings to BOOLEAN.
LEMMA CfgHelpers ==
  ASSUME cfg \in CfgType
  PROVE  /\ \A a \in Settings, v \in BOOLEAN : [cfg EXCEPT ![a] = v] \in CfgType
         /\ Reconciled \in CfgType
<1> USE DEF CfgType
<1>0. /\ {"dmp_on", "gyro_enable", "gyro_fifo_enable", "accel_enable",
          "accel_fifo_enable", "motion_lpa_on"} \subseteq Settings
      /\ \A a \in Settings : cfg[a] \in BOOLEAN
  BY DEF Settings, DmpAttrs, EngineAttrs
<1>1. \A a \in Settings, v \in BOOLEAN : [cfg EXCEPT ![a] = v] \in CfgType
  OBVIOUS
<1>2. Reconciled \in CfgType
  <2> DEFINE lpa == IF cfg.motion_lpa_on
                    THEN [cfg EXCEPT !.dmp_on = FALSE, !.gyro_enable = FALSE,
                                     !.gyro_fifo_enable = FALSE]
                    ELSE cfg
  <2>1. lpa \in CfgType  BY <1>0
  <2>2. \A a \in Settings : lpa[a] \in BOOLEAN  BY <2>1
  <2> HIDE DEF lpa
  <2>3. [lpa EXCEPT !.gyro_enable = @ \/ lpa.gyro_fifo_enable] \in CfgType
    BY <1>0, <2>1, <2>2
  <2> QED  BY <1>0, <2>1, <2>2, <2>3 DEF Reconciled, lpa
<1> QED  BY <1>1, <1>2

\* The driver's flags stay flags.
LEMMA DrvHelpers ==
  ASSUME drv \in DrvType, NEW b \in BOOLEAN
  PROVE  /\ [drv EXCEPT !.enable = b] \in DrvType
         /\ [drv EXCEPT !.batchOn = b] \in DrvType
         /\ [drv EXCEPT !.suspendState = b] \in DrvType
         /\ [drv EXCEPT !.smdTriggered = b] \in DrvType
  BY DEF DrvType

\* What a half finished enable or disable leaves is a chip state.
LEMMA Leftovers ==
  ASSUME cfg \in CfgType, chip \in ChipType
  PROVE  EnableLeftovers \subseteq ChipType /\ DisableLeftovers \subseteq ChipType
<1> DEFINE dmp == DmpSysfs(chip)
<1>1. dmp \in ChipType /\ Engines(dmp) \in ChipType /\ FailedResets(Engines(dmp)) \subseteq ChipType
  BY ChipHelpers
<1>2. cfg.gyro_enable \in BOOLEAN
  BY DEF CfgType, Settings, EngineAttrs
<1>3. [chip EXCEPT !.gestureOnly = dmp.gestureOnly] \in ChipType
  BY <1>1 DEF ChipType
<1>4. [dmp EXCEPT !.gyro = @ \/ cfg.gyro_enable] \in ChipType
  BY <1>1, <1>2 DEF ChipType
<1>5. EnableLeftovers \subseteq ChipType
  BY <1>1, <1>3, <1>4 DEF EnableLeftovers
<1>6. DisableLeftovers \subseteq ChipType
  BY DEF DisableLeftovers, ChipType
<1> QED  BY <1>5, <1>6

\* An operation that keeps its locks changes nothing of the interrupt thread
\* and of the system's power management.
LEMMA LockedType ==
  ASSUME TypeOK, Locked, faults' \in Nat, buffer' \in BOOLEAN,
         cfg' \in CfgType, drv' \in DrvType, power' \in PowerType, chip' \in ChipType
  PROVE  TypeOK'
  BY DEF TypeOK, Locked, irqVars, pmVars

\* The bookkeeping of faults keeps the counter a natural number, and an
\* access that wakes and puts back yields a power state.
LEMMA FaultType ==
  ASSUME TypeOK, NEW s \in Stages
  PROVE  /\ Fault => faults' \in Nat
         /\ FaultAt(s) => faults' \in Nat
         /\ Bracketed(s) \in PowerType
<1>1. Fault => faults' \in Nat  BY DEF Fault, TypeOK
<1>2. FaultAt(s) => faults' \in Nat  BY <1>1 DEF FaultAt, TypeOK
<1>3. Bracketed(s) \in PowerType  BY PowerHelpers DEF Bracketed, TypeOK
<1> QED  BY <1>1, <1>2, <1>3

\* The operations preserve the types of everything they touch.
LEMMA OperationType ==
  ASSUME TypeOK, NEW c \in Callers, Operation(c)
  PROVE  TypeOK'
<1>0. /\ cfg \in CfgType /\ drv \in DrvType /\ buffer \in BOOLEAN /\ faults \in Nat
      /\ power \in PowerType /\ chip \in ChipType
      /\ Woken(power) \in PowerType /\ Slept(power) \in PowerType
      /\ Batching \in BOOLEAN
      /\ DisableLeftovers \subseteq ChipType /\ EnableLeftovers \subseteq ChipType
      /\ Disabled(chip) \in ChipType
      /\ "none" \in Stages /\ "body" \in Stages
  BY PowerHelpers, Requests, Leftovers, ChipHelpers DEF TypeOK, Stages
<1>1. CASE EnableRefused(c)
  BY <1>0, <1>1, LockedType DEF EnableRefused
<1>2. CASE EnableFails(c)
  BY <1>0, <1>2, LockedType, FaultType, DrvHelpers DEF EnableFails
<1>3. CASE EnableSucceeds(c)
  <2>1. chip' \in ChipType
    BY <1>0, <1>3, ChipHelpers DEF EnableSucceeds
  <2>2. drv' \in DrvType
    BY <1>0, <1>3 DEF EnableSucceeds, DrvType
  <2> QED  BY <1>0, <1>3, <2>1, <2>2, LockedType DEF EnableSucceeds
<1>4. ASSUME NEW done \in BOOLEAN, TurnOff(done)
      PROVE  /\ faults' \in Nat /\ drv' \in DrvType /\ power' \in PowerType
             /\ chip' \in ChipType
  BY <1>0, <1>4, FaultType, DrvHelpers DEF TurnOff
<1>5. CASE MasterDisable(c)
  BY <1>0, <1>4, <1>5, LockedType DEF MasterDisable
<1>6. CASE BufferEnable(c)
  BY <1>0, <1>6, LockedType, CfgHelpers DEF BufferEnable
<1>7. CASE BufferDisable(c)
  BY <1>0, <1>4, <1>7, LockedType DEF BufferDisable
<1>8. CASE SettingStore(c)
  BY <1>0, <1>8, LockedType, CfgHelpers DEF SettingStore, Settings
<1>9. CASE SelfTestThresholdStore(c)
  BY <1>0, <1>9, LockedType, CfgHelpers DEF SelfTestThresholdStore, Settings, EngineAttrs
<1>10. CASE FirmwareLoadedStore(c)
  BY <1>0, <1>10, LockedType, CfgHelpers DEF FirmwareLoadedStore, Settings
<1>11. CASE MotionLpaStore(c)
  BY <1>0, <1>11, LockedType, CfgHelpers, FaultType DEF MotionLpaStore, Settings
<1>12. CASE OffsetRejected(c)
  BY <1>0, <1>12, LockedType DEF OffsetRejected
<1>13. CASE BracketedAccess(c)
  BY <1>0, <1>13, LockedType, FaultType DEF BracketedAccess
<1>14. CASE FirmwareReadFails(c)
  BY <1>0, <1>14, LockedType, FaultType DEF FirmwareReadFails
<1>15. CASE DmpMemStore(c)
  <2>1. \A v, w \in BOOLEAN :
          [chip EXCEPT !.pedInt = v, !.orientInt = w] \in ChipType
    BY <1>0 DEF ChipType
  <2>2. chip.pedInt \in BOOLEAN /\ chip.orientInt \in BOOLEAN
    BY <1>0 DEF ChipType
  <2>3. PICK a \in DmpMemAttrs, v \in BOOLEAN, s \in Stages :
          /\ FaultAt(s) /\ power' = Bracketed(s)
          /\ IF s = "body" THEN UNCHANGED <<cfg, chip>>
             ELSE /\ cfg' = [cfg EXCEPT ![a] = v]
                  /\ chip' = [chip EXCEPT
                       !.pedInt = IF a = "pedometer_int_on" THEN v ELSE @,
                       !.orientInt = IF a = "display_orientation_on" THEN v ELSE @]
    BY <1>15 DEF DmpMemStore
  <2>4. chip' \in ChipType
    BY <1>0, <2>1, <2>2, <2>3
  <2>5. cfg' \in CfgType
    BY <1>0, <2>3, CfgHelpers DEF Settings
  <2> QED  BY <1>0, <1>15, <2>3, <2>4, <2>5, LockedType, FaultType DEF DmpMemStore
<1>16. CASE SelfTest(c)
  <2>1. /\ faults' \in Nat /\ power' \in PowerType
        /\ UNCHANGED <<cfg, drv, buffer>> /\ Locked
    BY <1>0, <1>16, FaultType DEF SelfTest
  <2>2. chip' \in ChipType
    <3>1. CASE \E i \in {FALSE, chip.dataInt}, m \in {chip.mode, "off", "fifo"},
                  a, g \in BOOLEAN :
                 chip' = [chip EXCEPT !.dataInt = i, !.mode = m, !.gyro = g, !.accel = a]
      BY <1>0, <3>1 DEF ChipType
    <3>2. CASE \E a, g \in BOOLEAN : chip' = [chip EXCEPT !.accel = a \/ @, !.gyro = g \/ @]
      BY <1>0, <3>2 DEF ChipType
    <3> QED  BY ZenonT(60), <1>16, <3>1, <3>2 DEF SelfTest
  <2> QED  BY <1>0, <2>1, <2>2, LockedType
<1>17. CASE Attr64Store(c)
  BY <1>0, <1>17 DEF Attr64Store, TypeOK, irqVars, pmVars, CallerLocs
<1>18. CASE Attr64PowerOff(c)
  <2>1. UnlockedSleep \subseteq PowerType
    <3>1. [asleep |-> FALSE, sleep |-> TRUE] \in PowerType
      BY DEF PowerType
    <3> QED  BY <1>0, <3>1 DEF UnlockedSleep
  <2>2. power' \in PowerType /\ faults' \in Nat
    BY <1>0, <1>18, <2>1, FaultType DEF Attr64PowerOff
  <2>3. pc' \in [Callers -> CallerLocs]
    BY <1>18 DEF Attr64PowerOff, TypeOK, CallerLocs
  <2> QED  BY <1>18, <2>2, <2>3 DEF Attr64PowerOff, TypeOK, irqVars, pmVars
<1>19. CASE FirmwareCheck(c)
  BY <1>19 DEF FirmwareCheck, TypeOK, irqVars, pmVars, userVars, CallerLocs
<1>20. CASE FirmwareLoad(c)
  <2> DEFINE reloaded == Reloaded(chip)
  <2>1. reloaded \in ChipType /\ HalfLoaded(chip) \in ChipType
    BY <1>0, ChipHelpers
  <2>2. \A h \in ChipType : /\ [h EXCEPT !.mode = "off", !.gyro = FALSE] \in ChipType
                            /\ [h EXCEPT !.mode = "dmp", !.gyro = TRUE] \in ChipType
                            /\ [h EXCEPT !.image = chip.image] \in ChipType
    BY ZenonT(60), <1>0 DEF ChipType
  <2>3. HalfLoaded([reloaded EXCEPT !.image = chip.image]) \in ChipType
    BY <1>0, <2>1, <2>2, ChipHelpers
  <2>4. chip' \in ChipType /\ cfg' \in CfgType /\ power' \in PowerType /\ faults' \in Nat
    BY <1>0, <1>20, <2>1, <2>2, <2>3, FaultType, CfgHelpers DEF FirmwareLoad, Settings
  <2>5. pc' \in [Callers -> CallerLocs]
    BY <1>20 DEF FirmwareLoad, TypeOK, CallerLocs
  <2> QED  BY <1>20, <2>4, <2>5 DEF FirmwareLoad, TypeOK, irqVars, pmVars
<1> QED
  BY <1>1, <1>2, <1>3, <1>5, <1>6, <1>7, <1>8, <1>9, <1>10, <1>11, <1>12, <1>13, <1>14,
     <1>15, <1>16, <1>17, <1>18, <1>19, <1>20 DEF Operation

\* Interrupts and their thread preserve the types too.
LEMMA InterruptType ==
  ASSUME TypeOK, Interrupt \/ SignificantMotion \/ IrqThread
  PROVE  TypeOK'
<1> USE DEF IrqUser, RaiseIrq, pmVars, IrqLocs
<1>1. CASE Interrupt
  BY <1>1 DEF Interrupt, userVars, TypeOK
<1>2. CASE SignificantMotion
  <2>1. chip' \in ChipType
    BY <1>2 DEF SignificantMotion, TypeOK, ChipType
  <2> QED  BY <1>2, <2>1 DEF SignificantMotion, TypeOK
<1>3. CASE IrqEnter
  BY <1>3 DEF IrqEnter, TypeOK
<1>4. CASE IrqDown
  BY <1>4 DEF IrqDown, TypeOK
<1>5. CASE IrqLock
  BY <1>5 DEF IrqLock, TypeOK
<1>6. CASE IrqDmp
  <2>1. \A t \in BOOLEAN : [drv EXCEPT !.smdTriggered = t] \in DrvType
    BY DrvHelpers DEF TypeOK
  <2>2. [cfg EXCEPT !.smd_enable = FALSE] \in CfgType
    BY CfgHelpers DEF TypeOK, Settings, DmpMemAttrs
  <2>3. [chip EXCEPT !.smdStatus = FALSE] \in ChipType /\ chip.smdStatus \in BOOLEAN
    BY DEF TypeOK, ChipType
  <2>4. drv.smdTriggered \in BOOLEAN
    BY DEF TypeOK, DrvType
  <2>5. cfg' \in CfgType /\ chip' \in ChipType /\ drv' \in DrvType /\ irqLoc' \in IrqLocs
    BY <1>6, <2>1, <2>2, <2>3, <2>4 DEF IrqDmp, TypeOK
  <2> QED  BY <1>6, <2>5 DEF IrqDmp, TypeOK
<1>7. CASE IrqFifo
  <2>1. chip' \in ChipType
    BY <1>7, ChipHelpers DEF IrqFifo, TypeOK
  <2>2. faults' \in Nat
    BY <1>7 DEF IrqFifo, Fault, TypeOK
  <2> QED  BY <1>7, <2>1, <2>2 DEF IrqFifo, TypeOK
<1>8. CASE IrqUnlock
  <2>1. srl' \in Nat
    BY <1>8 DEF IrqUnlock, TypeOK
  <2>2. mlock' \in BOOLEAN
    BY <1>8 DEF IrqUnlock
  <2> QED  BY <1>8, <2>1, <2>2 DEF IrqUnlock, TypeOK
<1> QED  BY <1>1, <1>2, <1>3, <1>4, <1>5, <1>6, <1>7, <1>8 DEF IrqThread

\* So do suspend and resume.
LEMMA PmType ==
  ASSUME TypeOK, PmCore
  PROVE  TypeOK'
<1> USE DEF PmStep, PmPhases, PmFault
<1>0. /\ power \in PowerType /\ chip \in ChipType /\ pmFaults \in Nat
      /\ Woken(power) \in PowerType /\ Slept(power) \in PowerType
      /\ Quiet(chip) \in ChipType /\ Audible(chip) \in ChipType
      /\ UnlockedSleep \subseteq PowerType
  <2>1. [asleep |-> FALSE, sleep |-> TRUE] \in PowerType
    BY DEF PowerType
  <2> QED  BY <2>1, PowerHelpers, ChipHelpers DEF TypeOK, UnlockedSleep
<1>1. CASE SuspendStart
  BY <1>1 DEF SuspendStart, TypeOK, userVars, irqVars
<1>2. CASE SuspendQuiesce
  <2>1. chip' \in ChipType /\ power' \in PowerType /\ pmFaults' \in Nat
    BY <1>0, <1>2, SomeOfFacts DEF SuspendQuiesce
  <2> QED  BY <1>2, <2>1 DEF SuspendQuiesce, TypeOK, irqVars
<1>3. CASE SuspendMark
  BY <1>3, DrvHelpers DEF SuspendMark, TypeOK, irqVars
<1>4. CASE SuspendAbort
  BY <1>4 DEF SuspendAbort, TypeOK, userVars, irqVars
<1>5. CASE DisableIrqs
  BY <1>5 DEF DisableIrqs, TypeOK, userVars, irqVars
<1>6. CASE SuspendNoirq
  <2>1. srl' \in Nat
    BY <1>6 DEF SuspendNoirq, TypeOK
  <2>2. drv' \in DrvType
    BY <1>6, DrvHelpers DEF SuspendNoirq, TypeOK
  <2> QED  BY <1>6, <2>1, <2>2 DEF SuspendNoirq, TypeOK
<1>7. CASE Wake
  BY <1>7 DEF Wake, TypeOK, userVars
<1>8. CASE Resume
  <2>1. chip' \in ChipType /\ power' \in PowerType
    BY <1>0, <1>8, SomeOfFacts DEF Resume
  <2>2. pmFaults' \in Nat /\ srl' \in Nat
    BY <1>0, <1>8 DEF Resume, TypeOK
  <2>3. pmError' \in BOOLEAN
    BY <1>8 DEF Resume
  <2> QED  BY <1>8, <2>1, <2>2, <2>3 DEF Resume, TypeOK
<1> QED  BY <1>1, <1>2, <1>3, <1>4, <1>5, <1>6, <1>7, <1>8 DEF PmCore

\* Every state the driver can reach has the types TypeOK states.
THEOREM TypeCorrect == Spec => []TypeOK
<1>1. Init => TypeOK
  <2> SUFFICES ASSUME Init PROVE TypeOK
    OBVIOUS
  <2>1. cfg \in CfgType /\ drv \in DrvType
    BY DEF Init, CfgType, DrvType
  <2>2. power \in PowerType
    BY DEF Init, PowerType
  <2>3. chip \in ChipType
    BY DEF Init, ChipType
  <2>4. pc \in [Callers -> CallerLocs] /\ irqLoc \in IrqLocs /\ pm \in PmPhases
    BY DEF Init, CallerLocs, IrqLocs, PmPhases
  <2> QED  BY <2>1, <2>2, <2>3, <2>4 DEF Init, TypeOK
<1>2. TypeOK /\ [Next]_vars => TypeOK'
  <2> SUFFICES ASSUME TypeOK, [Next]_vars PROVE TypeOK'
    OBVIOUS
  <2>1. CASE \E c \in Callers : Operation(c)
    BY <2>1, OperationType
  <2>2. CASE Interrupt \/ SignificantMotion \/ IrqThread
    BY <2>2, InterruptType
  <2>3. CASE PmCore
    BY <2>3, PmType
  <2>4. CASE UNCHANGED vars
    BY <2>4 DEF TypeOK, vars, userVars, irqVars, pmVars
  <2> QED  BY <2>1, <2>2, <2>3, <2>4 DEF Next
<1> QED  BY <1>1, <1>2, PTL DEF Spec
-----------------------------------------------------------------------------
(* The interrupt thread and the suspended system exclude each other. *)

\* Who holds the two locks: the mutex belongs to the interrupt thread between
\* its lock and unlock, the only count of the semaphore either to the thread
\* or, from suspend_noirq to resume, to the power management.
LockInv ==
  /\ mlock <=> irqLoc \in {"dmp", "fifo", "unlock"}
  /\ pm \in {"asleep", "resume"} => irqLoc \in {"idle", "srl"} /\ srl = 0
  /\ pm \notin {"asleep", "resume"} =>
       srl = IF irqLoc \in {"idle", "srl"} THEN 1 ELSE 0

\* No step of a driver whose suspends are never abandoned disturbs the locks.
LEMMA LockStep ==
  ASSUME ~Aborts, TypeOK, LockInv, [Next]_vars
  PROVE  LockInv'
<1> USE DEF LockInv
<1>1. ASSUME NEW c \in Callers, Operation(c) PROVE LockInv'
  <2>1. UNCHANGED <<irqVars, pmVars>>
    BY <1>1 DEF Operation, Locked, EnableRefused, EnableFails, EnableSucceeds,
       MasterDisable, BufferEnable, BufferDisable, SettingStore, SelfTestThresholdStore,
       FirmwareLoadedStore, MotionLpaStore, OffsetRejected, BracketedAccess,
       FirmwareReadFails, DmpMemStore, SelfTest, Attr64Store, Attr64PowerOff,
       FirmwareCheck, FirmwareLoad
  <2> QED  BY <2>1 DEF irqVars, pmVars
<1>2. CASE Interrupt \/ SignificantMotion
  BY <1>2 DEF Interrupt, SignificantMotion, pmVars
<1>3. CASE IrqThread
  <2> USE DEF IrqUser, pmVars
  <2>1. CASE IrqEnter   BY <2>1 DEF IrqEnter
  <2>2. CASE IrqDown    BY <2>2 DEF IrqDown, TypeOK
  <2>3. CASE IrqLock    BY <2>3 DEF IrqLock
  <2>4. CASE IrqDmp
    <3>1. irqLoc = "dmp" /\ irqLoc' \in {"fifo", "unlock"} /\ UNCHANGED <<mlock, srl, pm>>
      BY <2>4 DEF IrqDmp
    <3> QED  BY <3>1
  <2>5. CASE IrqFifo    BY <2>5 DEF IrqFifo
  <2>6. CASE IrqUnlock  BY <2>6 DEF IrqUnlock, TypeOK
  <2> QED  BY <1>3, <2>1, <2>2, <2>3, <2>4, <2>5, <2>6 DEF IrqThread
<1>4. CASE PmCore
  <2> USE DEF PmStep, irqVars
  <2>1. CASE SuspendStart    BY <2>1 DEF SuspendStart
  <2>2. CASE SuspendQuiesce  BY <2>2 DEF SuspendQuiesce
  <2>3. CASE SuspendMark     BY <2>3 DEF SuspendMark
  <2>4. CASE SuspendAbort    BY <2>4 DEF SuspendAbort
  <2>5. CASE DisableIrqs     BY <2>5 DEF DisableIrqs
  <2>6. CASE SuspendNoirq    BY <2>6 DEF SuspendNoirq, TypeOK
  <2>7. CASE Wake            BY <2>7 DEF Wake
  <2>8. CASE Resume          BY <2>8 DEF Resume
  <2> QED  BY <1>4, <2>1, <2>2, <2>3, <2>4, <2>5, <2>6, <2>7, <2>8 DEF PmCore
<1>5. CASE UNCHANGED vars
  BY <1>5 DEF vars, irqVars, pmVars
<1> QED  BY <1>1, <1>2, <1>3, <1>4, <1>5 DEF Next

\* While no suspend is abandoned half way, the interrupt thread stays out of
\* the driver from suspend_noirq to the end of resume.
THEOREM ShutOut == ASSUME ~Aborts PROVE Spec => []IrqThreadShutOut
<1>1. Init => LockInv
  BY DEF Init, LockInv
<1>2. TypeOK /\ LockInv /\ [Next]_vars => LockInv'
  BY LockStep
<1>3. LockInv => IrqThreadShutOut
  BY DEF LockInv, IrqThreadShutOut
<1> QED  BY <1>1, <1>2, <1>3, TypeCorrect, PTL DEF Spec
-----------------------------------------------------------------------------
(* Power *)

\* The two places where set_power_state runs outside mlock do no harm if no
\* store to the word of flags is lost and no two threads meet there.
NoLostStore == ~BitfieldRace
SerialUse ==
  \/ \A c, d \in Callers : c = d
  \/ Ops \cap {"pedometer_steps", "dmp_firmware"} = {}

\* The cached power state is the chip's, an enabled chip is awake, and a
\* thread found between the two halves of an operation knows it is disabled.
PowerInv ==
  /\ power.asleep = power.sleep
  /\ pm = "running" /\ drv.enable /\ ~pmError => ~power.sleep
  /\ \A c \in Callers : pc[c] # "idle" =>
       /\ pm = "running" /\ ~drv.enable
       /\ Ops \cap {"pedometer_steps", "dmp_firmware"} # {}

\* set_power_itg keeps the cached state equal to the chip's.
LEMMA PowerKept ==
  ASSUME NEW p \in PowerType, p.asleep = p.sleep
  PROVE  /\ Woken(p) \in PowerType /\ Slept(p) \in PowerType
         /\ Woken(p).asleep = Woken(p).sleep /\ ~Woken(p).sleep
         /\ Slept(p).asleep = Slept(p).sleep /\ Slept(p).sleep
  BY DEF PowerType, Woken, Slept

\* What an operation may do to the power state, by what it does to enable.
LEMMA OperationPower ==
  ASSUME NoLostStore, SerialUse, TypeOK, PowerInv, NEW c \in Callers, Operation(c)
  PROVE  /\ pm = "running" /\ UNCHANGED pmVars
         /\ power' \in {power, Woken(power), Slept(Woken(power)), Slept(power)}
         /\ \/ UNCHANGED power /\ drv'.enable = drv.enable
            \/ ~drv.enable /\ drv'.enable = drv.enable
            \/ ~drv.enable /\ drv'.enable /\ power' = Woken(power) /\ pc[c] = "idle"
            \/ drv.enable /\ ~drv'.enable /\ power' \in {power, Slept(power)}
         /\ \A d \in Callers \ {c} : pc'[d] = pc[d]
         /\ pc'[c] # "idle" =>
              /\ Ops \cap {"pedometer_steps", "dmp_firmware"} # {}
              /\ ~drv'.enable
<1> USE DEF Locked, Enter, pmVars, irqVars
<1>0. \A b \in BOOLEAN : /\ [drv EXCEPT !.enable = b].enable = b
                         /\ [drv EXCEPT !.batchOn = b].enable = drv.enable
  BY DEF TypeOK, DrvType
<1>1. CASE EnableRefused(c)
  BY <1>1 DEF EnableRefused
<1>2. CASE EnableFails(c)
  BY <1>0, <1>2, Requests DEF EnableFails, TypeOK
<1>3. CASE EnableSucceeds(c)
  <2>1. drv'.enable
    BY <1>3 DEF EnableSucceeds, TypeOK, DrvType
  <2> QED  BY <1>3, <2>1 DEF EnableSucceeds
<1>4. ASSUME NEW done \in BOOLEAN, TurnOff(done)
      PROVE  \/ ~drv'.enable /\ power' \in {power, Slept(power)}
             \/ UNCHANGED <<drv, power>>
  BY <1>0, <1>4 DEF TurnOff
<1>5. CASE MasterDisable(c)
  BY <1>4, <1>5 DEF MasterDisable
<1>6. CASE BufferEnable(c) \/ SettingStore(c) \/ SelfTestThresholdStore(c) \/ FirmwareLoadedStore(c)
  BY <1>6 DEF BufferEnable, SettingStore, SelfTestThresholdStore, FirmwareLoadedStore
<1>7. CASE BufferDisable(c)
  BY <1>4, <1>7 DEF BufferDisable
<1>8. CASE MotionLpaStore(c) \/ OffsetRejected(c) \/ BracketedAccess(c)
  BY <1>8 DEF MotionLpaStore, OffsetRejected, BracketedAccess, Bracketed
<1>9. CASE FirmwareReadFails(c) \/ DmpMemStore(c) \/ SelfTest(c)
  BY <1>9 DEF FirmwareReadFails, DmpMemStore, SelfTest, Bracketed
<1>10. CASE Attr64Store(c)
  BY <1>10 DEF Attr64Store, TypeOK
<1>11. CASE Attr64PowerOff(c)
  BY <1>11 DEF Attr64PowerOff, UnlockedSleep, NoLostStore, PowerInv, TypeOK
<1>12. CASE FirmwareCheck(c)
  BY <1>12 DEF FirmwareCheck, userVars, TypeOK
<1>13. CASE FirmwareLoad(c)
  BY <1>13 DEF FirmwareLoad, PowerInv, Bracketed, TypeOK
<1> QED
  BY <1>1, <1>2, <1>3, <1>5, <1>6, <1>7, <1>8, <1>9, <1>10, <1>11, <1>12, <1>13 DEF Operation

\* Interrupts and their thread leave power and enable alone.
LEMMA InterruptPower ==
  ASSUME TypeOK, Interrupt \/ SignificantMotion \/ IrqThread
  PROVE  UNCHANGED <<power, pc, pmVars>> /\ drv'.enable = drv.enable
<1>1. \A t \in BOOLEAN : [drv EXCEPT !.smdTriggered = t].enable = drv.enable
  BY DEF TypeOK, DrvType
<1>2. CASE IrqDmp
  <2>1. drv.smdTriggered \in BOOLEAN /\ chip.smdStatus \in BOOLEAN
    BY DEF TypeOK, DrvType, ChipType
  <2> QED  BY <1>1, <1>2, <2>1 DEF IrqDmp, IrqUser
<1>3. CASE Interrupt \/ SignificantMotion
  BY <1>3 DEF Interrupt, SignificantMotion, userVars
<1>4. CASE IrqEnter \/ IrqDown \/ IrqLock \/ IrqFifo \/ IrqUnlock
  BY <1>4 DEF IrqEnter, IrqDown, IrqLock, IrqFifo, IrqUnlock, IrqUser
<1> QED  BY <1>2, <1>3, <1>4 DEF IrqThread

\* Every step keeps the cached power state true and an enabled chip awake.
LEMMA PowerStep ==
  ASSUME NoLostStore, SerialUse, TypeOK, PowerInv, [Next]_vars
  PROVE  PowerInv'
<1>0. /\ power \in PowerType /\ power.asleep = power.sleep
      /\ Woken(power) \in PowerType /\ Woken(power).asleep = Woken(power).sleep
      /\ ~Woken(power).sleep
      /\ Slept(power).asleep = Slept(power).sleep /\ Slept(power).sleep
      /\ Slept(Woken(power)).asleep = Slept(Woken(power)).sleep
  <2>1. power \in PowerType /\ power.asleep = power.sleep
    BY DEF TypeOK, PowerInv
  <2>2. Woken(power) \in PowerType /\ Woken(power).asleep = Woken(power).sleep
    BY <2>1, PowerKept
  <2> QED  BY <2>1, <2>2, PowerKept
<1>1. ASSUME NEW c \in Callers, Operation(c) PROVE PowerInv'
  <2>1. power'.asleep = power'.sleep
    BY <1>0, <1>1, OperationPower
  <2>2. pm' = "running" /\ pm = "running" /\ pmError' = pmError
    BY <1>1, OperationPower DEF pmVars
  <2>3. drv'.enable /\ ~pmError' => ~power'.sleep
    BY <1>0, <1>1, <2>2, OperationPower DEF PowerInv
  <2>4. ASSUME NEW d \in Callers, pc'[d] # "idle"
        PROVE  ~drv'.enable /\ Ops \cap {"pedometer_steps", "dmp_firmware"} # {}
    <3>1. CASE d = c
      BY <1>1, <2>4, <3>1, OperationPower
    <3>2. CASE d # c
      BY <1>1, <2>4, <3>2, OperationPower DEF SerialUse, PowerInv
    <3> QED  BY <3>1, <3>2
  <2> QED  BY <2>1, <2>2, <2>3, <2>4 DEF PowerInv
<1>2. CASE Interrupt \/ SignificantMotion \/ IrqThread
  BY <1>2, InterruptPower DEF PowerInv, pmVars
<1>3. CASE PmCore
  <2> USE DEF PmStep
  <2>0. UnlockedSleep = {Slept(power)}
    BY DEF UnlockedSleep, NoLostStore
  <2>1. CASE SuspendStart
    BY <2>1 DEF SuspendStart, PowerInv, userVars
  <2>2. CASE SuspendQuiesce
    <3>1. power' \in {power, Slept(power)}
      BY <2>0, <2>2 DEF SuspendQuiesce
    <3>2. pm = "suspend" /\ pm' = "quiesced" /\ pc' = pc
      BY <2>2 DEF SuspendQuiesce
    <3> QED  BY <1>0, <3>1, <3>2 DEF PowerInv
  <2>3. CASE SuspendMark
    BY <2>3 DEF SuspendMark, PowerInv
  <2>4. CASE SuspendAbort
    BY <2>4 DEF SuspendAbort, PowerInv, userVars
  <2>5. CASE DisableIrqs
    BY <2>5 DEF DisableIrqs, PowerInv, userVars
  <2>6. CASE SuspendNoirq
    BY <2>6 DEF SuspendNoirq, PowerInv
  <2>7. CASE Wake
    BY <2>7 DEF Wake, PowerInv, userVars
  <2>8. CASE Resume
    <3>1. /\ pm = "resume" /\ pm' = "running" /\ pc' = pc /\ drv' = drv
          /\ power' \in {power, Woken(power)}
          /\ drv.enable /\ ~pmError' => power' = Woken(power)
      BY <2>8 DEF Resume
    <3> QED  BY <1>0, <3>1 DEF PowerInv
  <2> QED  BY <1>3, <2>1, <2>2, <2>3, <2>4, <2>5, <2>6, <2>7, <2>8 DEF PmCore
<1>4. CASE UNCHANGED vars
  BY <1>4 DEF vars, userVars, pmVars, PowerInv
<1> QED  BY <1>1, <1>2, <1>3, <1>4 DEF Next

\* The chip is asleep, and known to be, when the driver is bound.
LEMMA PowerInit == Init => PowerInv
  BY DEF Init, PowerInv

\* A chip that is enabled while the system runs is awake, unless the last
\* resume failed.
THEOREM EnabledIsAwake ==
  ASSUME NoLostStore, SerialUse PROVE Spec => []AwakeWhileEnabled
<1>1. TypeOK /\ PowerInv /\ [Next]_vars => PowerInv'
  BY PowerStep
<1>2. PowerInv => AwakeWhileEnabled
  BY DEF PowerInv, AwakeWhileEnabled
<1> QED  BY <1>1, <1>2, PowerInit, TypeCorrect, PTL DEF Spec

\* Every step of the driver is a step of the power contract, or none.
LEMMA ContractStep ==
  ASSUME NoLostStore, SerialUse, TypeOK, PowerInv, [Next]_vars
  PROVE  [Contract!ContractNext]_(Contract!contractVars)
<1> USE DEF Contract!ContractNext, Contract!contractVars
<1>0. /\ power \in PowerType /\ drv \in DrvType /\ pmError \in BOOLEAN
      /\ power.asleep = power.sleep
      /\ ~Woken(power).sleep /\ Slept(power).sleep
  BY PowerKept DEF TypeOK, PowerInv
<1>1. ASSUME NEW c \in Callers, Operation(c)
      PROVE  [Contract!ContractNext]_(Contract!contractVars)
  <2>1. pm = "running" /\ pm' = "running" /\ pmError' = pmError
    BY <1>1, OperationPower DEF pmVars
  <2>2. CASE UNCHANGED power /\ drv'.enable = drv.enable
    BY <2>1, <2>2
  <2>3. CASE ~drv.enable /\ drv'.enable = drv.enable
    <3>1. Contract!Maintain
      BY <2>1, <2>3 DEF Contract!Maintain
    <3> QED  BY <3>1
  <2>4. CASE ~drv.enable /\ drv'.enable /\ power' = Woken(power)
    <3>1. Contract!Start
      BY <1>0, <2>1, <2>4 DEF Contract!Start
    <3> QED  BY <3>1
  <2>5. CASE drv.enable /\ ~drv'.enable /\ power' \in {power, Slept(power)}
    <3>1. Contract!Stop
      BY <1>0, <2>1, <2>5 DEF Contract!Stop
    <3> QED  BY <3>1
  <2> QED  BY <1>1, <2>2, <2>3, <2>4, <2>5, OperationPower
<1>2. CASE Interrupt \/ SignificantMotion \/ IrqThread
  BY <1>2, InterruptPower DEF pmVars
<1>3. CASE PmCore
  <2> USE DEF PmStep
  <2>1. CASE SuspendStart
    <3>1. Contract!Suspend
      BY <2>1 DEF SuspendStart, userVars, Contract!Suspend
    <3> QED  BY <3>1
  <2>2. CASE SuspendQuiesce
    <3>1. /\ pm = "suspend" /\ pm' = "quiesced" /\ drv' = drv /\ pmError' = pmError
          /\ power' = power \/ (drv.enable /\ power' = Slept(power))
      BY <2>2 DEF SuspendQuiesce, UnlockedSleep, NoLostStore
    <3>2. CASE power' = power
      BY <3>1, <3>2
    <3>3. CASE drv.enable /\ power' = Slept(power)
      <4>1. Contract!PowerDown
        BY <1>0, <3>1, <3>3 DEF Contract!PowerDown
      <4> QED  BY <4>1
    <3> QED  BY <3>1, <3>2, <3>3
  <2>3. CASE SuspendMark
    <3>1. pm # "running" /\ pm' # "running" /\ drv'.enable = drv.enable
          /\ UNCHANGED <<power, pmError>>
      BY <1>0, <2>3 DEF SuspendMark, DrvType
    <3> QED  BY <3>1
  <2>4. CASE SuspendAbort \/ DisableIrqs \/ Wake
    BY <2>4 DEF SuspendAbort, DisableIrqs, Wake, userVars
  <2>5. CASE SuspendNoirq
    <3>1. pm # "running" /\ pm' # "running" /\ drv'.enable = drv.enable
          /\ UNCHANGED <<power, pmError>>
      BY <1>0, <2>5 DEF SuspendNoirq, DrvType
    <3> QED  BY <3>1
  <2>6. CASE Resume
    <3>1. /\ pm = "resume" /\ pm' = "running" /\ drv' = drv /\ pmError' \in BOOLEAN
          /\ power' = power \/ (drv.enable /\ power' = Woken(power))
          /\ drv.enable /\ ~pmError' => power' = Woken(power)
      BY <2>6 DEF Resume
    <3>2. Contract!ResumeSystem
      BY <1>0, <3>1 DEF Contract!ResumeSystem
    <3> QED  BY <3>2
  <2> QED  BY <1>3, <2>1, <2>2, <2>3, <2>4, <2>5, <2>6 DEF PmCore
<1>4. CASE UNCHANGED vars
  BY <1>4 DEF vars, userVars, pmVars
<1> QED  BY <1>1, <1>2, <1>3, <1>4 DEF Next

\* The driver implements the power contract.
THEOREM Refinement ==
  ASSUME NoLostStore, SerialUse PROVE Spec => KeepsContract
<1>1. Init => Contract!ContractInit
  BY DEF Init, Contract!ContractInit
<1>2. TypeOK /\ PowerInv /\ [Next]_vars => [Contract!ContractNext]_(Contract!contractVars)
  BY ContractStep
<1>3. TypeOK /\ PowerInv /\ [Next]_vars => PowerInv'
  BY PowerStep
<1> QED
  BY <1>1, <1>2, <1>3, PowerInit, TypeCorrect, PTL DEF Spec, KeepsContract, Contract!ContractSpec
-----------------------------------------------------------------------------
(* The DMP's image *)

\* The flag firmware_loaded means a complete image, and the DMP is never asked
\* to run, nor runs, without one.
ImageInv ==
  /\ cfg.firmware_loaded => chip.image = "complete"
  /\ drv.enable /\ cfg.dmp_on => cfg.firmware_loaded
  /\ chip.mode = "dmp" => chip.image = "complete"

\* Resetting the FIFO of a chip whose image is complete whenever the settings
\* ask for the DMP keeps the image and starts nothing on a partial one.
LEMMA ResetImage ==
  ASSUME NEW h \in ChipType, cfg \in CfgType,
         cfg.dmp_on => h.image = "complete",
         h.mode = "dmp" => h.image = "complete",
         NEW r \in {ResetFifo(h)} \cup FailedResets(h)
  PROVE  r.image = h.image /\ (r.mode = "dmp" => r.image = "complete")
<1>1. CASE r = ResetFifo(h)
  BY <1>1 DEF ResetFifo, Mode, ChipType
<1>2. CASE r \in FailedResets(h)
  <2>1. r.image = h.image /\ r.mode \in {h.mode, "off", Mode}
    BY <1>2, FailedResetFacts
  <2>2. Mode = "dmp" => h.image = "complete"
    BY DEF Mode
  <2> QED  BY <2>1, <2>2
<1> QED  BY <1>1, <1>2

\* Switching engines and rewriting the DMP's memory settings touches neither
\* the image nor the mode.
LEMMA SameImage ==
  ASSUME NEW h \in ChipType, cfg \in CfgType,
         NEW r \in {DmpSysfs(h), Engines(h), Quiet(h), Audible(h)}
  PROVE  r.image = h.image /\ r.mode = h.mode
<1>1. CASE r = DmpSysfs(h)  BY <1>1 DEF DmpSysfs, ChipType
<1>2. CASE r = Engines(h)   BY <1>2 DEF Engines, ChipType
<1>3. CASE r = Quiet(h)     BY <1>3 DEF Quiet, ChipType
<1>4. CASE r = Audible(h)   BY <1>4 DEF Audible, ChipType
<1> QED  BY <1>1, <1>2, <1>3, <1>4

\* No operation lets the DMP be asked to run an incomplete image.
LEMMA OperationImage ==
  ASSUME TypeOK, ImageInv, NEW c \in Callers, Operation(c)
  PROVE  ImageInv'
<1> USE DEF ImageInv
<1>0. /\ cfg \in CfgType /\ drv \in DrvType /\ chip \in ChipType
      /\ DmpSysfs(chip) \in ChipType /\ Engines(DmpSysfs(chip)) \in ChipType
      /\ Engines(DmpSysfs(chip)).image = chip.image
      /\ Engines(DmpSysfs(chip)).mode = chip.mode
      /\ DmpSysfs(chip).image = chip.image /\ DmpSysfs(chip).mode = chip.mode
  BY ChipHelpers, SameImage DEF TypeOK
<1>1. \A b \in BOOLEAN : /\ [drv EXCEPT !.enable = b].enable = b
                         /\ [drv EXCEPT !.batchOn = b].enable = drv.enable
  BY <1>0 DEF DrvType
<1>2. CASE EnableFails(c)
  <2>1. /\ cfg.dmp_on => chip.image = "complete"
        /\ UNCHANGED cfg /\ chip' \in EnableLeftovers /\ drv'.enable = drv.enable
        /\ ~drv.enable
    BY <1>1, <1>2, Requests, <1>0 DEF EnableFails
  <2>2. /\ [chip EXCEPT !.gestureOnly = DmpSysfs(chip).gestureOnly].image = chip.image
        /\ [chip EXCEPT !.gestureOnly = DmpSysfs(chip).gestureOnly].mode = chip.mode
        /\ [DmpSysfs(chip) EXCEPT !.gyro = @ \/ cfg.gyro_enable].image = chip.image
        /\ [DmpSysfs(chip) EXCEPT !.gyro = @ \/ cfg.gyro_enable].mode = chip.mode
    BY <1>0 DEF ChipType
  <2>3. \A r \in FailedResets(Engines(DmpSysfs(chip))) :
          r.image = chip.image /\ (r.mode = "dmp" => r.image = "complete")
    BY <1>0, <2>1, ResetImage
  <2>4. chip'.image = chip.image /\ (chip'.mode = "dmp" => chip'.image = "complete")
    BY <1>0, <2>1, <2>2, <2>3 DEF EnableLeftovers
  <2> QED  BY <2>1, <2>4
<1>3. CASE EnableSucceeds(c)
  <2>1. /\ cfg.dmp_on => chip.image = "complete" /\ cfg.firmware_loaded
        /\ UNCHANGED cfg /\ chip' = ResetFifo(Engines(DmpSysfs(chip)))
    BY <1>3 DEF EnableSucceeds
  <2>2. chip'.image = chip.image /\ (chip'.mode = "dmp" => chip'.image = "complete")
    BY <1>0, <2>1, ResetImage
  <2> QED  BY <2>1, <2>2
<1>4. ASSUME NEW done \in BOOLEAN, TurnOff(done)
      PROVE  /\ chip'.image = chip.image /\ chip'.mode \in {chip.mode, "off"}
             /\ drv'.enable => drv.enable
  <2>1. chip' \in {Disabled(chip)} \cup DisableLeftovers /\ (drv'.enable => drv.enable)
    BY <1>1, <1>4 DEF TurnOff
  <2> QED  BY <1>0, <2>1 DEF Disabled, DisableLeftovers, ChipType
<1>5. CASE MasterDisable(c)
  BY <1>4, <1>5 DEF MasterDisable
<1>6. CASE BufferEnable(c)
  <2>1. /\ Reconciled.firmware_loaded = cfg.firmware_loaded
        /\ Reconciled.dmp_on => cfg.dmp_on
    <3> DEFINE lpa == IF cfg.motion_lpa_on
                      THEN [cfg EXCEPT !.dmp_on = FALSE, !.gyro_enable = FALSE,
                                       !.gyro_fifo_enable = FALSE]
                      ELSE cfg
    <3>1. lpa.firmware_loaded = cfg.firmware_loaded /\ (lpa.dmp_on => cfg.dmp_on)
          /\ DOMAIN lpa = Settings
      BY <1>0 DEF CfgType, Settings, DmpAttrs
    <3> HIDE DEF lpa
    <3>2. \A v, w \in BOOLEAN :
            LET r == [lpa EXCEPT !.gyro_enable = v, !.accel_enable = w]
            IN r.firmware_loaded = lpa.firmware_loaded /\ r.dmp_on = lpa.dmp_on
      BY <3>1 DEF Settings, DmpAttrs
    <3> QED  BY <1>0, <3>1, <3>2 DEF Reconciled, lpa, CfgType, Settings, DmpAttrs, EngineAttrs
  <2> QED  BY <1>6, <2>1 DEF BufferEnable
<1>7. CASE BufferDisable(c)
  BY <1>4, <1>7 DEF BufferDisable
<1>8. ASSUME NEW a \in Settings \ {"firmware_loaded"}, NEW v \in BOOLEAN
      PROVE  [cfg EXCEPT ![a] = v].firmware_loaded = cfg.firmware_loaded
  BY <1>0 DEF CfgType, Settings
<1>9. ASSUME NEW v \in BOOLEAN PROVE [cfg EXCEPT !.firmware_loaded = v].firmware_loaded = v
  BY <1>0 DEF CfgType, Settings
<1>10. CASE SettingStore(c) \/ SelfTestThresholdStore(c)
  <2>1. UNCHANGED <<drv, chip>> /\ ~drv.enable /\ cfg'.firmware_loaded = cfg.firmware_loaded
    <3>1. DmpAttrs \cup EngineAttrs \subseteq Settings \ {"firmware_loaded"}
      BY DEF Settings, DmpAttrs, EngineAttrs
    <3>2. "gyro_enable" \in Settings \ {"firmware_loaded"}
      BY DEF Settings, EngineAttrs
    <3>3. CASE SettingStore(c)
      BY <1>8, <3>1, <3>3 DEF SettingStore
    <3>4. CASE SelfTestThresholdStore(c)
      BY <1>8, <3>2, <3>4 DEF SelfTestThresholdStore
    <3> QED  BY <1>10, <3>3, <3>4
  <2> QED  BY <2>1
<1>11. CASE FirmwareLoadedStore(c)
  BY <1>9, <1>11 DEF FirmwareLoadedStore
<1>12. CASE MotionLpaStore(c)
  <2>1. UNCHANGED <<drv, chip>> /\ ~drv.enable /\ cfg'.firmware_loaded = cfg.firmware_loaded
    BY <1>8, <1>12 DEF MotionLpaStore, Settings
  <2> QED  BY <2>1
<1>13. CASE EnableRefused(c) \/ OffsetRejected(c) \/ BracketedAccess(c) \/ FirmwareReadFails(c)
  BY <1>13 DEF EnableRefused, OffsetRejected, BracketedAccess, FirmwareReadFails
<1>14. CASE DmpMemStore(c)
  <2>1. UNCHANGED drv /\ ~drv.enable
    BY <1>14 DEF DmpMemStore
  <2>2. chip'.image = chip.image /\ chip'.mode = chip.mode
    BY <1>0, <1>14 DEF DmpMemStore, ChipType
  <2>3. cfg'.firmware_loaded = cfg.firmware_loaded
    BY ZenonT(60), <1>8, <1>14 DEF DmpMemStore, Settings, DmpMemAttrs
  <2> QED  BY <2>1, <2>2, <2>3
<1>15. CASE SelfTest(c)
  <2>1. UNCHANGED <<drv, cfg>> /\ ~drv.enable
    BY <1>15 DEF SelfTest
  <2>2. chip'.image = chip.image /\ chip'.mode \in {chip.mode, "off", "fifo"}
    BY <1>0, <1>15 DEF SelfTest, ChipType
  <2> QED  BY <2>1, <2>2
<1>16. CASE Attr64Store(c) \/ Attr64PowerOff(c) \/ FirmwareCheck(c)
  BY <1>16 DEF Attr64Store, Attr64PowerOff, FirmwareCheck, userVars
<1>17. CASE FirmwareLoad(c)
  <2> DEFINE reloaded == Reloaded(chip)
  <2>1. UNCHANGED drv /\ cfg.dmp_on = cfg'.dmp_on
    <3>1. UNCHANGED drv /\ cfg' \in {cfg, [cfg EXCEPT !.firmware_loaded = TRUE]}
      BY <1>17 DEF FirmwareLoad
    <3>2. [cfg EXCEPT !.firmware_loaded = TRUE].dmp_on = cfg.dmp_on
      BY <1>0 DEF CfgType, Settings, DmpAttrs
    <3> QED  BY <3>1, <3>2
  <2>2. reloaded.image = "complete" /\ reloaded \in ChipType /\ reloaded.mode = chip.mode
    <3>1. reloaded \in ChipType
      BY <1>0, ChipHelpers
    <3> QED  BY <1>0, <3>1 DEF Reloaded, ChipType
  <2>3. \A h \in ChipType :
          /\ HalfLoaded(h).mode = h.mode
          /\ h.image = "complete" => HalfLoaded(h).image = "complete"
    BY DEF HalfLoaded, ChipType
  <2>4. /\ [reloaded EXCEPT !.mode = "off", !.gyro = FALSE].image = "complete"
        /\ [reloaded EXCEPT !.mode = "dmp", !.gyro = TRUE].image = "complete"
        /\ [reloaded EXCEPT !.image = chip.image] \in ChipType
        /\ [reloaded EXCEPT !.image = chip.image].image = chip.image
        /\ [reloaded EXCEPT !.image = chip.image].mode = chip.mode
    BY <1>0, <2>2 DEF ChipType
  <2>5. /\ chip.image = "complete" => chip'.image = "complete"
        /\ chip'.mode = "dmp" => chip'.image = "complete"
        /\ chip'.image = "complete" \/ UNCHANGED cfg
        /\ cfg.firmware_loaded => cfg'.firmware_loaded
    BY ZenonT(60), <1>0, <1>9, <1>17, <2>2, <2>3, <2>4 DEF FirmwareLoad
  <2> QED  BY <2>1, <2>5
<1> QED
  BY <1>2, <1>3, <1>5, <1>6, <1>7, <1>10, <1>11, <1>12, <1>13, <1>14, <1>15, <1>16, <1>17
     DEF Operation

\* The DMP only ever runs a completely loaded image, whatever the callers do
\* and however many transfers fail.
THEOREM CompleteImage == Spec => []DmpRunsCompleteImage
<1>1. Init => ImageInv
  <2> SUFFICES ASSUME Init PROVE ImageInv
    OBVIOUS
  <2>1. ~cfg.firmware_loaded
    BY DEF Init, Settings
  <2>2. ~drv.enable /\ chip.mode = "off"
    BY DEF Init
  <2> QED  BY <2>1, <2>2 DEF ImageInv
<1>2. TypeOK /\ ImageInv /\ [Next]_vars => ImageInv'
  <2> SUFFICES ASSUME TypeOK, ImageInv, [Next]_vars PROVE ImageInv'
    OBVIOUS
  <2>0. cfg \in CfgType /\ drv \in DrvType /\ chip \in ChipType
    BY DEF TypeOK
  <2>1. CASE \E c \in Callers : Operation(c)
    BY <2>1, OperationImage
  <2>2. CASE IrqDmp
    <3>1. /\ [chip EXCEPT !.smdStatus = FALSE].image = chip.image
          /\ [chip EXCEPT !.smdStatus = FALSE].mode = chip.mode
          /\ [cfg EXCEPT !.smd_enable = FALSE].firmware_loaded = cfg.firmware_loaded
          /\ [cfg EXCEPT !.smd_enable = FALSE].dmp_on = cfg.dmp_on
      BY <2>0 DEF CfgType, ChipType, Settings, DmpAttrs, DmpMemAttrs
    <3>2. /\ cfg' \in {cfg, [cfg EXCEPT !.smd_enable = FALSE]}
          /\ chip' \in {chip, [chip EXCEPT !.smdStatus = FALSE]}
      BY <2>2 DEF IrqDmp
    <3>3. drv'.enable = drv.enable
      BY <2>2, InterruptPower DEF IrqThread
    <3> QED  BY <3>1, <3>2, <3>3 DEF ImageInv
  <2>3. CASE IrqFifo
    <3>1. UNCHANGED <<cfg, drv>> /\ (UNCHANGED chip \/ drv.enable)
          /\ chip' \in {chip, ResetFifo(chip)} \cup FailedResets(chip)
      BY <2>3 DEF IrqFifo
    <3> QED  BY <2>0, <3>1, ResetImage DEF ImageInv
  <2>4. CASE SignificantMotion
    BY <2>0, <2>4 DEF SignificantMotion, ImageInv, ChipType
  <2>5. CASE Interrupt \/ IrqEnter \/ IrqDown \/ IrqLock \/ IrqUnlock
    BY <2>5 DEF Interrupt, IrqEnter, IrqDown, IrqLock, IrqUnlock, userVars, ImageInv
  <2>6. CASE PmCore
    <3>1. /\ chip' \in {chip, Quiet(chip), Audible(chip)} \cup SomeOf(chip, Quiet(chip))
                    \cup SomeOf(chip, Audible(chip))
          /\ UNCHANGED cfg /\ drv'.enable = drv.enable
      BY <2>0, <2>6 DEF PmCore, SuspendStart, SuspendQuiesce, SuspendMark, SuspendAbort,
         DisableIrqs, SuspendNoirq, Wake, Resume, userVars, DrvType
    <3>2. Quiet(chip) \in ChipType /\ Audible(chip) \in ChipType
      BY <2>0, ChipHelpers
    <3>3. chip'.image = chip.image /\ chip'.mode = chip.mode
      BY <2>0, <3>1, <3>2, SameImage, SomeOfFacts
    <3> QED  BY <3>1, <3>3 DEF ImageInv
  <2>7. CASE UNCHANGED vars
    BY <2>7 DEF vars, userVars, ImageInv
  <2> QED  BY <2>1, <2>2, <2>3, <2>4, <2>5, <2>6, <2>7 DEF Next, IrqThread
<1>3. ImageInv => DmpRunsCompleteImage
  BY DEF ImageInv, DmpRunsCompleteImage
<1> QED  BY <1>1, <1>2, <1>3, TypeCorrect, PTL DEF Spec
-----------------------------------------------------------------------------
(* Operations that leave the lock *)

\* A thread found between the two halves of an operation runs while the
\* system does, on a disabled chip; dmp_firmware's found no image loaded.
CallerInv ==
  \A c \in Callers : pc[c] # "idle" =>
    /\ pm = "running" /\ ~drv.enable
    /\ Ops \cap {"pedometer_steps", "dmp_firmware"} # {}
    /\ pc[c] = "firmware_checked" => ~cfg.firmware_loaded

\* An operation runs while the system does, moves only its own caller, and
\* parks it on a disabled chip alone.
LEMMA OperationCaller ==
  ASSUME TypeOK, CallerInv, NEW c \in Callers, Operation(c)
  PROVE  /\ pm = "running" /\ UNCHANGED <<pmVars, irqVars>>
         /\ \A d \in Callers \ {c} : pc'[d] = pc[d]
         /\ pc'[c] # "idle" =>
              /\ Ops \cap {"pedometer_steps", "dmp_firmware"} # {}
              /\ ~drv'.enable /\ (pc'[c] = "firmware_checked" => ~cfg'.firmware_loaded)
<1>1. CASE UNCHANGED pc /\ Locked /\ pm = "running" /\ pc[c] = "idle"
  BY <1>1 DEF Locked, pmVars
<1>2. CASE EnableRefused(c) \/ EnableFails(c) \/ EnableSucceeds(c) \/ MasterDisable(c)
             \/ BufferEnable(c) \/ BufferDisable(c)
  BY <1>1, <1>2 DEF EnableRefused, EnableFails, EnableSucceeds, MasterDisable,
     BufferEnable, BufferDisable, Enter, Locked
<1>3. CASE SettingStore(c) \/ SelfTestThresholdStore(c) \/ FirmwareLoadedStore(c)
             \/ MotionLpaStore(c) \/ OffsetRejected(c) \/ BracketedAccess(c)
  BY <1>1, <1>3 DEF SettingStore, SelfTestThresholdStore, FirmwareLoadedStore,
     MotionLpaStore, OffsetRejected, BracketedAccess, Enter, Locked
<1>4. CASE FirmwareReadFails(c) \/ DmpMemStore(c) \/ SelfTest(c)
  BY <1>1, <1>4 DEF FirmwareReadFails, DmpMemStore, SelfTest, Enter, Locked
<1>5. CASE Attr64Store(c)
  BY <1>5 DEF Attr64Store, Enter, TypeOK
<1>6. CASE Attr64PowerOff(c)
  BY <1>6 DEF Attr64PowerOff, CallerInv, TypeOK
<1>7. CASE FirmwareCheck(c)
  BY <1>7 DEF FirmwareCheck, userVars, TypeOK
<1>8. CASE FirmwareLoad(c)
  BY <1>8 DEF FirmwareLoad, CallerInv, TypeOK
<1> QED  BY <1>2, <1>3, <1>4, <1>5, <1>6, <1>7, <1>8 DEF Operation

\* With one caller, or without the two operations that leave the lock, no
\* step disturbs a parked caller.
LEMMA CallerStep ==
  ASSUME SerialUse, TypeOK, CallerInv, [Next]_vars
  PROVE  CallerInv'
<1>1. ASSUME NEW c \in Callers, Operation(c) PROVE CallerInv'
  <2>1. \A d \in Callers \ {c} : pc'[d] = "idle"
    BY <1>1, OperationCaller DEF SerialUse, CallerInv
  <2>2. pm' = "running"
    BY <1>1, OperationCaller DEF pmVars
  <2> QED  BY <1>1, <2>1, <2>2, OperationCaller DEF CallerInv
<1>2. CASE Interrupt \/ SignificantMotion \/ IrqThread
  <2>1. UNCHANGED <<pc, pm>> /\ drv'.enable = drv.enable
    BY <1>2, InterruptPower DEF pmVars
  <2>2. cfg' = cfg \/ cfg' = [cfg EXCEPT !.smd_enable = FALSE]
    BY <1>2 DEF Interrupt, SignificantMotion, IrqThread, IrqEnter, IrqDown, IrqLock, IrqDmp,
       IrqFifo, IrqUnlock, userVars
  <2>3. cfg'.firmware_loaded = cfg.firmware_loaded
    BY <2>2 DEF TypeOK, CfgType, Settings, DmpMemAttrs
  <2> QED  BY <2>1, <2>3 DEF CallerInv
<1>3. CASE PmCore
  <2>1. CASE SuspendStart
    BY <2>1 DEF SuspendStart, CallerInv
  <2>2. CASE pm # "running" /\ UNCHANGED pc
    BY <2>2 DEF CallerInv
  <2> QED  BY <1>3, <2>1, <2>2 DEF PmCore, PmStep, SuspendQuiesce, SuspendMark, SuspendAbort,
           DisableIrqs, SuspendNoirq, Wake, Resume
<1>4. CASE UNCHANGED vars
  BY <1>4 DEF vars, userVars, pmVars, CallerInv
<1> QED  BY <1>1, <1>2, <1>3, <1>4 DEF Next

\* Nobody is inside the driver when it is bound.
LEMMA CallerInit == Init => CallerInv
  BY DEF Init, CallerInv
-----------------------------------------------------------------------------
(* A chip that follows its settings *)

\* What an enabled chip runs is what the settings ask for, and a disabled
\* one measures nothing.
FollowInv ==
  /\ drv.enable => /\ chip.mode = Mode /\ chip.dataInt = DataInt
                   /\ chip.gyro = cfg.gyro_enable /\ chip.accel = cfg.accel_enable
                   /\ drv.batchOn = Batching
  /\ ~drv.enable => ~chip.gyro /\ ~chip.accel

\* Rewriting the DMP's event routing touches none of it.
LEMMA RoutingOnly ==
  ASSUME NEW h \in ChipType, NEW g \in ChipType,
         NEW r \in {Quiet(h), Audible(h)} \cup SomeOf(h, g)
  PROVE  /\ r.mode = h.mode /\ r.dataInt = h.dataInt
         /\ r.gyro = h.gyro /\ r.accel = h.accel
<1>1. CASE r \in SomeOf(h, g)
  <2>1. PICK p \in {h.pedInt, g.pedInt}, o \in {h.orientInt, g.orientInt},
             e \in {h.gestureOnly, g.gestureOnly}, t \in {h.threshold, g.threshold} :
          r = [h EXCEPT !.pedInt = p, !.orientInt = o, !.gestureOnly = e, !.threshold = t]
    BY <1>1 DEF SomeOf
  <2> QED  BY <2>1 DEF ChipType
<1>2. CASE r = Quiet(h)
  BY <1>2 DEF Quiet, ChipType
<1>3. CASE r = Audible(h)
  BY <1>3 DEF Audible, ChipType
<1> QED  BY <1>1, <1>2, <1>3

\* A driver whose transfers never fail keeps the chip at its settings.
LEMMA OperationFollow ==
  ASSUME MaxFaults = 0, ~LateBuffer, TypeOK, CallerInv, FollowInv,
         NEW c \in Callers, Operation(c)
  PROVE  FollowInv'
<1>0. /\ cfg \in CfgType /\ drv \in DrvType /\ chip \in ChipType
      /\ ~Fault /\ (\A s \in Stages : FaultAt(s) => s = "none")
  BY DEF TypeOK, Fault, FaultAt, Stages
<1>1. \A b \in BOOLEAN : [drv EXCEPT !.enable = b].enable = b
  BY <1>0 DEF DrvType
<1>2. CASE UNCHANGED <<cfg, drv, chip>>
  BY <1>2 DEF FollowInv, Mode, DataInt, Batching
<1>3. CASE ~drv'.enable /\ ~chip'.gyro /\ ~chip'.accel
  BY <1>3 DEF FollowInv
<1>4. CASE ~drv.enable /\ UNCHANGED <<drv, chip>>
  BY <1>4 DEF FollowInv
<1>5. ASSUME NEW done \in BOOLEAN, TurnOff(done)
      PROVE  ~drv'.enable /\ ~chip'.gyro /\ ~chip'.accel
  BY <1>0, <1>1, <1>5 DEF TurnOff, Disabled, ChipType
<1>6. CASE EnableSucceeds(c)
  <2> DEFINE h == DmpSysfs(chip)
  <2>1. /\ h \in ChipType /\ h.gyro = chip.gyro /\ h.accel = chip.accel
    <3>1. h \in ChipType
      BY <1>0, ChipHelpers
    <3> QED  BY <1>0, <3>1 DEF DmpSysfs, ChipType
  <2>2. /\ Engines(h) \in ChipType
        /\ Engines(h).gyro = cfg.gyro_enable /\ Engines(h).accel = cfg.accel_enable
    <3>1. ~h.gyro /\ ~h.accel
      BY <1>6, <2>1 DEF EnableSucceeds, FollowInv
    <3>2. cfg.gyro_enable \in BOOLEAN /\ cfg.accel_enable \in BOOLEAN
      BY <1>0 DEF CfgType, Settings, EngineAttrs
    <3> QED  BY <2>1, <3>1, <3>2 DEF Engines, ChipType
  <2>3. /\ chip'.mode = Mode /\ chip'.dataInt = DataInt
        /\ chip'.gyro = cfg.gyro_enable /\ chip'.accel = cfg.accel_enable
    BY <1>6, <2>2 DEF EnableSucceeds, ResetFifo, ChipType
  <2>4. drv'.enable /\ drv'.batchOn = Batching /\ cfg' = cfg
    BY <1>0, <1>6 DEF EnableSucceeds, DrvType
  <2> QED  BY <2>3, <2>4 DEF FollowInv, Mode, DataInt, Batching
<1>7. CASE EnableRefused(c) \/ EnableFails(c) \/ MasterDisable(c) \/ BufferEnable(c)
  BY <1>0, <1>2, <1>3, <1>4, <1>5, <1>7
     DEF EnableRefused, EnableFails, MasterDisable, BufferEnable
<1>8. CASE BufferDisable(c)
  BY <1>2, <1>3, <1>5, <1>8 DEF BufferDisable
<1>9. CASE SettingStore(c) \/ SelfTestThresholdStore(c) \/ FirmwareLoadedStore(c)
             \/ MotionLpaStore(c) \/ OffsetRejected(c) \/ BracketedAccess(c)
             \/ FirmwareReadFails(c)
  BY <1>2, <1>4, <1>9 DEF SettingStore, SelfTestThresholdStore, FirmwareLoadedStore,
     MotionLpaStore, OffsetRejected, BracketedAccess, FirmwareReadFails
<1>10. CASE DmpMemStore(c)
  <2>1. ~drv.enable /\ drv' = drv
    BY <1>10 DEF DmpMemStore
  <2>2. chip'.gyro = chip.gyro /\ chip'.accel = chip.accel
    BY <1>0, <1>10 DEF DmpMemStore, ChipType
  <2> QED  BY <2>1, <2>2 DEF FollowInv
<1>11. CASE SelfTest(c)
  <2>1. ~drv.enable /\ drv' = drv
    BY <1>11 DEF SelfTest
  <2>2. ~chip'.gyro /\ ~chip'.accel
    BY <1>0, <1>11 DEF SelfTest, ChipType
  <2> QED  BY <1>3, <2>1, <2>2
<1>12. CASE Attr64Store(c) \/ Attr64PowerOff(c) \/ FirmwareCheck(c)
  BY <1>2, <1>12 DEF Attr64Store, Attr64PowerOff, FirmwareCheck, userVars
<1>13. CASE FirmwareLoad(c)
  <2>1. ~drv.enable /\ drv' = drv
    BY <1>13 DEF FirmwareLoad, CallerInv
  <2>2. \/ chip' = chip
        \/ chip' = [Reloaded(chip) EXCEPT !.mode = "off", !.gyro = FALSE]
    BY <1>0, <1>13 DEF FirmwareLoad, Stages
  <2>3. ~chip'.gyro /\ ~chip'.accel
    BY <1>0, <2>1, <2>2 DEF FollowInv, Reloaded, ChipType
  <2> QED  BY <1>3, <2>1, <2>3
<1> QED
  BY <1>6, <1>7, <1>8, <1>9, <1>10, <1>11, <1>12, <1>13 DEF Operation

\* While no transfer of an operation fails and nobody enables the buffer of a
\* chip that runs, an enabled chip runs what the settings say, whatever
\* suspend, resume and the interrupt thread's resets do in between.
THEOREM FollowsSettings ==
  ASSUME MaxFaults = 0, ~LateBuffer, SerialUse
  PROVE  Spec => []ChipFollowsSettings
<1>1. Init => FollowInv
  BY DEF Init, FollowInv
<1>2. TypeOK /\ CallerInv /\ FollowInv /\ [Next]_vars => FollowInv'
  <2> SUFFICES ASSUME TypeOK, CallerInv, FollowInv, [Next]_vars PROVE FollowInv'
    OBVIOUS
  <2>0. cfg \in CfgType /\ drv \in DrvType /\ chip \in ChipType /\ ~Fault
    BY DEF TypeOK, Fault
  <2>1. CASE \E c \in Callers : Operation(c)
    BY <2>1, OperationFollow
  <2>2. CASE UNCHANGED <<cfg, chip>> /\ drv'.enable = drv.enable /\ drv'.batchOn = drv.batchOn
    BY <2>2 DEF FollowInv, Mode, DataInt, Batching
  <2>3. CASE IrqDmp
    <3>1. drv'.enable = drv.enable /\ drv'.batchOn = drv.batchOn
      <4>1. \A t \in BOOLEAN : /\ [drv EXCEPT !.smdTriggered = t].enable = drv.enable
                               /\ [drv EXCEPT !.smdTriggered = t].batchOn = drv.batchOn
        BY <2>0 DEF DrvType
      <4>2. drv.smdTriggered \in BOOLEAN /\ chip.smdStatus \in BOOLEAN
        BY <2>0 DEF DrvType, ChipType
      <4> QED  BY <2>3, <4>1, <4>2 DEF IrqDmp
    <3>2. /\ cfg' \in {cfg, [cfg EXCEPT !.smd_enable = FALSE]}
          /\ chip' \in {chip, [chip EXCEPT !.smdStatus = FALSE]}
      BY <2>3 DEF IrqDmp
    <3>3. \A a \in Settings \ {"smd_enable"} : cfg'[a] = cfg[a]
      BY <2>0, <3>2 DEF CfgType
    <3>4. /\ chip'.mode = chip.mode /\ chip'.dataInt = chip.dataInt
          /\ chip'.gyro = chip.gyro /\ chip'.accel = chip.accel
      BY <2>0, <3>2 DEF ChipType
    <3>5. Mode' = Mode /\ DataInt' = DataInt /\ Batching' = Batching
          /\ cfg'.gyro_enable = cfg.gyro_enable /\ cfg'.accel_enable = cfg.accel_enable
      BY <3>3 DEF Mode, DataInt, Batching, Settings, DmpAttrs, EngineAttrs, DmpMemAttrs
    <3> QED  BY <3>1, <3>4, <3>5 DEF FollowInv
  <2>4. CASE IrqFifo
    <3>1. /\ cfg' = cfg /\ drv' = drv
          /\ chip' = chip \/ (drv.enable /\ chip' = ResetFifo(chip))
      BY <2>0, <2>4 DEF IrqFifo
    <3>2. /\ ResetFifo(chip).mode = Mode /\ ResetFifo(chip).dataInt = DataInt
          /\ ResetFifo(chip).gyro = chip.gyro /\ ResetFifo(chip).accel = chip.accel
      BY <2>0 DEF ResetFifo, ChipType
    <3> QED  BY <2>2, <3>1, <3>2 DEF FollowInv, Mode, DataInt, Batching
  <2>5. CASE SignificantMotion
    <3>1. UNCHANGED <<cfg, drv>> /\ chip' = [chip EXCEPT !.smdStatus = TRUE]
      BY <2>5 DEF SignificantMotion
    <3>2. /\ chip'.mode = chip.mode /\ chip'.dataInt = chip.dataInt
          /\ chip'.gyro = chip.gyro /\ chip'.accel = chip.accel
      BY <2>0, <3>1 DEF ChipType
    <3> QED  BY <3>1, <3>2 DEF FollowInv, Mode, DataInt, Batching
  <2>6. CASE Interrupt \/ IrqEnter \/ IrqDown \/ IrqLock \/ IrqUnlock
    BY <2>2, <2>6 DEF Interrupt, IrqEnter, IrqDown, IrqLock, IrqUnlock, userVars
  <2>7. CASE PmCore
    <3>1. /\ chip' \in {chip, Quiet(chip), Audible(chip)} \cup SomeOf(chip, Quiet(chip))
                    \cup SomeOf(chip, Audible(chip))
          /\ UNCHANGED cfg /\ drv'.enable = drv.enable /\ drv'.batchOn = drv.batchOn
      BY <2>0, <2>7 DEF PmCore, SuspendStart, SuspendQuiesce, SuspendMark, SuspendAbort,
         DisableIrqs, SuspendNoirq, Wake, Resume, userVars, DrvType
    <3>2. Quiet(chip) \in ChipType /\ Audible(chip) \in ChipType
      BY <2>0, ChipHelpers
    <3>3. /\ chip'.mode = chip.mode /\ chip'.dataInt = chip.dataInt
          /\ chip'.gyro = chip.gyro /\ chip'.accel = chip.accel
      BY <2>0, <3>1, <3>2, RoutingOnly
    <3> QED  BY <3>1, <3>3 DEF FollowInv, Mode, DataInt, Batching
  <2>8. CASE UNCHANGED vars
    BY <2>2, <2>8 DEF vars, userVars
  <2> QED  BY <2>1, <2>3, <2>4, <2>5, <2>6, <2>7, <2>8 DEF Next, IrqThread
<1>3. FollowInv => ChipFollowsSettings
  BY DEF FollowInv, ChipFollowsSettings
<1> QED  BY <1>1, <1>2, <1>3, CallerInit, CallerStep, TypeCorrect, PTL DEF Spec
-----------------------------------------------------------------------------
(* The DMP's interrupt routing across suspend and resume *)

\* Between inv_mpu_suspend and the end of inv_mpu_resume.
Quieted == pm \notin {"running", "suspend"}

\* The routing in the DMP's memory is the one the settings ask for, except
\* from suspend to resume, when that of a running DMP is the quiet one.
EventInv ==
  /\ ~cfg.firmware_loaded => ~cfg.pedometer_int_on /\ ~cfg.display_orientation_on
  /\ DmpRunning => cfg.firmware_loaded
  /\ cfg.firmware_loaded /\ ~(Quieted /\ DmpRunning) =>
       chip.pedInt = cfg.pedometer_int_on /\ chip.orientInt = cfg.display_orientation_on
  /\ Quieted /\ DmpRunning =>
       /\ chip.gestureOnly /\ ~chip.pedInt /\ ~chip.orientInt
       /\ ~cfg.dmp_event_int_on => chip.threshold # "counter"
  /\ ~Quieted /\ DmpRunning => chip.gestureOnly = cfg.dmp_event_int_on
  /\ DmpRunning /\ drv.batchOn =>
       ~cfg.dmp_event_int_on /\ (~Quieted => chip.threshold = "counter")

\* What EventInv speaks of: four bytes of DMP memory and five settings.
SameRouting ==
  /\ chip'.pedInt = chip.pedInt /\ chip'.orientInt = chip.orientInt
  /\ chip'.gestureOnly = chip.gestureOnly /\ chip'.threshold = chip.threshold
SameRequest ==
  /\ cfg'.firmware_loaded = cfg.firmware_loaded
  /\ cfg'.pedometer_int_on = cfg.pedometer_int_on
  /\ cfg'.display_orientation_on = cfg.display_orientation_on
  /\ cfg'.dmp_event_int_on = cfg.dmp_event_int_on
  /\ cfg'.dmp_on = cfg.dmp_on

\* Registers outside the routing may change freely.
LEMMA RoutingKept ==
  ASSUME chip \in ChipType, NEW i \in BOOLEAN, NEW m \in {"off", "fifo", "dmp"},
         NEW a \in BOOLEAN, NEW g \in BOOLEAN, NEW s \in BOOLEAN,
         \/ chip' = chip
         \/ chip' = [chip EXCEPT !.dataInt = i, !.mode = m]
         \/ chip' = [chip EXCEPT !.dataInt = i]
         \/ chip' = [chip EXCEPT !.dataInt = i, !.mode = m, !.gyro = g]
         \/ chip' = [chip EXCEPT !.dataInt = i, !.mode = m, !.gyro = g, !.accel = a]
         \/ chip' = [chip EXCEPT !.accel = a, !.gyro = g]
         \/ chip' = [chip EXCEPT !.smdStatus = s]
  PROVE  SameRouting
  BY DEF ChipType, SameRouting

\* Two resets that touch only the interrupt bit and the mode.
LEMMA ResetRouting ==
  ASSUME cfg \in CfgType, NEW h \in ChipType, NEW r \in {ResetFifo(h)} \cup FailedResets(h)
  PROVE  /\ r.pedInt = h.pedInt /\ r.orientInt = h.orientInt
         /\ r.gestureOnly = h.gestureOnly /\ r.threshold = h.threshold
<1>1. CASE r = ResetFifo(h)
  BY <1>1 DEF ResetFifo, ChipType
<1>2. CASE r \in FailedResets(h)
  BY <1>2, FailedResetFacts
<1> QED  BY <1>1, <1>2

\* Operations that change neither the request nor the routing, and start
\* nothing, keep the invariant.
LEMMA EventKept ==
  ASSUME EventInv, SameRouting, SameRequest, pm' = pm,
         \/ drv'.enable = drv.enable /\ drv'.batchOn = drv.batchOn
         \/ ~Quieted /\ ~drv'.enable
  PROVE  EventInv'
<1>1. Quieted' = Quieted
  BY DEF Quieted
<1>2. CASE drv'.enable = drv.enable /\ drv'.batchOn = drv.batchOn
  BY <1>1, <1>2 DEF EventInv, SameRouting, SameRequest, DmpRunning
<1>3. CASE ~Quieted /\ ~drv'.enable
  BY <1>1, <1>3 DEF EventInv, SameRouting, SameRequest, DmpRunning
<1> QED  BY <1>2, <1>3

\* The settings the request is made of are changed by few files.
LEMMA RequestKept ==
  ASSUME cfg \in CfgType, NEW a \in Settings \ {"firmware_loaded", "pedometer_int_on",
           "display_orientation_on", "dmp_event_int_on", "dmp_on"},
         NEW v \in BOOLEAN, cfg' = cfg \/ cfg' = [cfg EXCEPT ![a] = v]
  PROVE  SameRequest
  BY DEF CfgType, SameRequest, Settings, DmpMemAttrs, DmpAttrs

\* No operation leaves the DMP with another routing than its settings ask for.
LEMMA OperationEvents ==
  ASSUME "firmware_loaded" \notin Ops, TypeOK, CallerInv, EventInv,
         NEW c \in Callers, Operation(c)
  PROVE  EventInv'
<1>0. /\ cfg \in CfgType /\ drv \in DrvType /\ chip \in ChipType
      /\ pm = "running" /\ pm' = "running" /\ ~Quieted /\ ~Quieted'
  BY OperationCaller DEF TypeOK, pmVars, Quieted
<1>1. \A b \in BOOLEAN : /\ [drv EXCEPT !.enable = b].enable = b
                         /\ [drv EXCEPT !.batchOn = b].enable = drv.enable
  BY <1>0 DEF DrvType
<1>2. CASE UNCHANGED <<cfg, drv, chip>>
  BY <1>0, <1>2, EventKept DEF SameRouting, SameRequest
<1>3. CASE ~drv.enable /\ UNCHANGED <<drv, chip>> /\ cfg'.firmware_loaded = cfg.firmware_loaded
           /\ cfg'.pedometer_int_on = cfg.pedometer_int_on
           /\ cfg'.display_orientation_on = cfg.display_orientation_on
  BY <1>0, <1>3 DEF EventInv, DmpRunning
<1>4. ASSUME NEW done \in BOOLEAN, TurnOff(done)
      PROVE  /\ ~drv'.enable \/ drv' = drv
             /\ SameRouting
  <2>1. ~drv'.enable \/ drv' = drv
    BY <1>1, <1>4 DEF TurnOff
  <2>2. chip' \in {Disabled(chip)} \cup DisableLeftovers
    BY <1>4 DEF TurnOff
  <2>3. SameRouting
    BY <1>0, <2>2 DEF Disabled, DisableLeftovers, ChipType, SameRouting
  <2> QED  BY <2>1, <2>3
<1>5. CASE EnableFails(c)
  <2>1. ~drv.enable /\ ~drv'.enable /\ cfg' = cfg /\ chip' \in EnableLeftovers
    BY <1>1, <1>5, <1>0, Requests DEF EnableFails
  <2> DEFINE dmp == DmpSysfs(chip)
  <2>2. /\ dmp \in ChipType /\ Engines(dmp) \in ChipType
        /\ dmp.pedInt = chip.pedInt /\ dmp.orientInt = chip.orientInt
        /\ Engines(dmp).pedInt = chip.pedInt /\ Engines(dmp).orientInt = chip.orientInt
    <3>1. dmp \in ChipType /\ Engines(dmp) \in ChipType
      BY <1>0, ChipHelpers
    <3>2. dmp.pedInt = chip.pedInt /\ dmp.orientInt = chip.orientInt
      BY <1>0 DEF DmpSysfs, ChipType
    <3> HIDE DEF dmp
    <3>3. Engines(dmp).pedInt = dmp.pedInt /\ Engines(dmp).orientInt = dmp.orientInt
      BY <3>1 DEF Engines, ChipType
    <3> QED  BY <3>1, <3>2, <3>3
  <2>3. /\ [chip EXCEPT !.gestureOnly = dmp.gestureOnly].pedInt = chip.pedInt
        /\ [chip EXCEPT !.gestureOnly = dmp.gestureOnly].orientInt = chip.orientInt
        /\ [dmp EXCEPT !.gyro = @ \/ cfg.gyro_enable].pedInt = chip.pedInt
        /\ [dmp EXCEPT !.gyro = @ \/ cfg.gyro_enable].orientInt = chip.orientInt
    BY <1>0, <2>2 DEF ChipType
  <2>4. chip'.pedInt = chip.pedInt /\ chip'.orientInt = chip.orientInt
    BY <1>0, <2>1, <2>2, <2>3, ResetRouting DEF EnableLeftovers
  <2> QED  BY <1>0, <2>1, <2>4 DEF EventInv, DmpRunning
<1>6. CASE EnableSucceeds(c)
  <2> DEFINE dmp == DmpSysfs(chip)
  <2>1. /\ ~drv.enable /\ drv'.enable /\ drv'.batchOn = Batching /\ cfg' = cfg
        /\ cfg.dmp_on => cfg.firmware_loaded
        /\ chip' = ResetFifo(Engines(dmp))
    BY <1>0, <1>6 DEF EnableSucceeds, DrvType
  <2>2. dmp \in ChipType /\ Engines(dmp) \in ChipType
    BY <1>0, ChipHelpers
  <2>3. /\ dmp.pedInt = chip.pedInt /\ dmp.orientInt = chip.orientInt
        /\ cfg.dmp_on => dmp.gestureOnly = cfg.dmp_event_int_on
        /\ cfg.dmp_on /\ Batching => dmp.threshold = "counter"
    BY <1>0 DEF DmpSysfs, ChipType
  <2> HIDE DEF dmp
  <2>4. /\ chip'.pedInt = dmp.pedInt /\ chip'.orientInt = dmp.orientInt
        /\ chip'.gestureOnly = dmp.gestureOnly /\ chip'.threshold = dmp.threshold
    <3>1. /\ Engines(dmp).pedInt = dmp.pedInt /\ Engines(dmp).orientInt = dmp.orientInt
          /\ Engines(dmp).gestureOnly = dmp.gestureOnly
          /\ Engines(dmp).threshold = dmp.threshold
      BY <2>2 DEF Engines, ChipType
    <3> QED  BY <1>0, <2>1, <2>2, <3>1, ResetRouting
  <2>5. Batching => ~cfg.dmp_event_int_on
    BY DEF Batching
  <2> QED  BY <1>0, <2>1, <2>3, <2>4, <2>5 DEF EventInv, DmpRunning
<1>7. CASE MasterDisable(c) \/ BufferDisable(c)
  <2>1. cfg' = cfg
    BY <1>7 DEF MasterDisable, BufferDisable
  <2>2. SameRouting /\ (~drv'.enable \/ drv' = drv)
    BY <1>4, <1>7 DEF MasterDisable, BufferDisable, SameRouting
  <2> QED  BY <1>0, <2>1, <2>2, EventKept DEF SameRequest
<1>8. CASE BufferEnable(c)
  <2>1. UNCHANGED <<drv, chip>> /\ cfg' = Reconciled
    BY <1>8 DEF BufferEnable
  <2> DEFINE lpa == IF cfg.motion_lpa_on
                    THEN [cfg EXCEPT !.dmp_on = FALSE, !.gyro_enable = FALSE,
                                     !.gyro_fifo_enable = FALSE]
                    ELSE cfg
             kept == Settings \ {"dmp_on", "gyro_enable", "gyro_fifo_enable", "accel_enable"}
  <2>2. lpa \in CfgType /\ (lpa.dmp_on => cfg.dmp_on) /\ \A a \in kept : lpa[a] = cfg[a]
    BY <1>0 DEF CfgType, Settings, DmpAttrs, EngineAttrs
  <2> HIDE DEF lpa
  <2>3. Reconciled.dmp_on = lpa.dmp_on /\ \A a \in kept : Reconciled[a] = lpa[a]
    <3>1. Reconciled = [lpa EXCEPT !.gyro_enable = @ \/ lpa.gyro_fifo_enable,
                                   !.accel_enable = @ \/ lpa.accel_fifo_enable]
      BY DEF Reconciled, lpa
    <3> QED  BY <2>2, <3>1 DEF CfgType, Settings, DmpAttrs
  <2>4. /\ cfg'.firmware_loaded = cfg.firmware_loaded
        /\ cfg'.pedometer_int_on = cfg.pedometer_int_on
        /\ cfg'.display_orientation_on = cfg.display_orientation_on
        /\ cfg'.dmp_event_int_on = cfg.dmp_event_int_on
        /\ cfg'.dmp_on => cfg.dmp_on
    BY <2>1, <2>2, <2>3 DEF Settings, DmpAttrs, DmpMemAttrs
  <2> QED  BY <1>0, <2>1, <2>4 DEF EventInv, DmpRunning
<1>9. CASE SettingStore(c)
  <2>1. PICK a \in DmpAttrs \cup EngineAttrs, v \in BOOLEAN :
          cfg' = [cfg EXCEPT ![a] = v] /\ ~drv.enable /\ UNCHANGED <<drv, chip>>
    BY <1>9 DEF SettingStore
  <2>2. /\ cfg'.firmware_loaded = cfg.firmware_loaded
        /\ cfg'.pedometer_int_on = cfg.pedometer_int_on
        /\ cfg'.display_orientation_on = cfg.display_orientation_on
    BY <1>0, <2>1 DEF CfgType, Settings, DmpAttrs, DmpMemAttrs, EngineAttrs
  <2> QED  BY <1>3, <2>1, <2>2
<1>10. CASE SelfTestThresholdStore(c) \/ MotionLpaStore(c)
  <2>1. PICK a \in {"gyro_enable", "motion_lpa_on"}, v \in BOOLEAN :
          /\ cfg' = cfg \/ cfg' = [cfg EXCEPT ![a] = v]
          /\ ~drv.enable /\ UNCHANGED <<drv, chip>>
    BY <1>10 DEF SelfTestThresholdStore, MotionLpaStore
  <2>2. SameRequest
    BY <1>0, <2>1, RequestKept DEF Settings, EngineAttrs
  <2> QED  BY <1>3, <2>1, <2>2 DEF SameRequest
<1>11. CASE FirmwareLoadedStore(c)
  BY <1>11 DEF FirmwareLoadedStore, Enter
<1>12. CASE EnableRefused(c) \/ OffsetRejected(c) \/ BracketedAccess(c) \/ FirmwareReadFails(c)
             \/ Attr64Store(c) \/ Attr64PowerOff(c) \/ FirmwareCheck(c)
  BY <1>2, <1>12 DEF EnableRefused, OffsetRejected, BracketedAccess, FirmwareReadFails,
     Attr64Store, Attr64PowerOff, FirmwareCheck, userVars
<1>13. CASE DmpMemStore(c)
  <2>1. PICK a \in DmpMemAttrs, v \in BOOLEAN, s \in Stages :
          IF s = "body" THEN UNCHANGED <<cfg, chip>>
          ELSE /\ cfg' = [cfg EXCEPT ![a] = v]
               /\ chip' = [chip EXCEPT
                    !.pedInt = IF a = "pedometer_int_on" THEN v ELSE @,
                    !.orientInt = IF a = "display_orientation_on" THEN v ELSE @]
    BY <1>13 DEF DmpMemStore
  <2>2. ~drv.enable /\ drv' = drv /\ cfg.firmware_loaded
    BY <1>13 DEF DmpMemStore
  <2>3. CASE s = "body"
    BY <1>2, <2>1, <2>2, <2>3
  <2>4. CASE s # "body"
    <3>1. /\ cfg'.firmware_loaded = cfg.firmware_loaded
          /\ cfg'.pedometer_int_on = IF a = "pedometer_int_on" THEN v ELSE cfg.pedometer_int_on
          /\ cfg'.display_orientation_on =
               IF a = "display_orientation_on" THEN v ELSE cfg.display_orientation_on
      BY <1>0, <2>1, <2>4 DEF CfgType, Settings, DmpMemAttrs
    <3>2. /\ chip'.pedInt = IF a = "pedometer_int_on" THEN v ELSE chip.pedInt
          /\ chip'.orientInt = IF a = "display_orientation_on" THEN v ELSE chip.orientInt
      BY <1>0, <2>1, <2>4 DEF ChipType
    <3>3. chip.pedInt = cfg.pedometer_int_on /\ chip.orientInt = cfg.display_orientation_on
      BY <2>2, <1>0 DEF EventInv
    <3>4. chip'.pedInt = cfg'.pedometer_int_on /\ chip'.orientInt = cfg'.display_orientation_on
      BY <3>1, <3>2, <3>3
    <3> QED  BY <1>0, <2>2, <3>1, <3>4 DEF EventInv, DmpRunning
  <2> QED  BY <2>3, <2>4
<1>14. CASE SelfTest(c)
  <2>1. ~drv.enable /\ drv' = drv /\ cfg' = cfg
    BY <1>14 DEF SelfTest
  <2>2. SameRouting
    BY <1>0, <1>14 DEF SelfTest, ChipType, SameRouting
  <2> QED  BY <1>0, <2>1, <2>2, EventKept DEF SameRequest
<1>15. CASE FirmwareLoad(c)
  <2>1. ~drv.enable /\ drv' = drv /\ ~cfg.firmware_loaded
        /\ ~cfg.pedometer_int_on /\ ~cfg.display_orientation_on
    BY <1>15 DEF FirmwareLoad, CallerInv, EventInv
  <2>2. CASE cfg' = cfg
    BY <1>0, <2>1, <2>2 DEF EventInv, DmpRunning
  <2>3. CASE /\ chip' = [Reloaded(chip) EXCEPT !.mode = "off", !.gyro = FALSE]
             /\ cfg' = [cfg EXCEPT !.firmware_loaded = TRUE]
    <3>1. chip'.pedInt = FALSE /\ chip'.orientInt = FALSE
      BY <1>0, <2>3 DEF Reloaded, ChipType
    <3>2. /\ cfg'.pedometer_int_on = FALSE /\ cfg'.display_orientation_on = FALSE
          /\ cfg'.firmware_loaded
      BY <1>0, <2>1, <2>3 DEF CfgType, Settings, DmpMemAttrs
    <3> QED  BY <1>0, <2>1, <3>1, <3>2 DEF EventInv, DmpRunning
  <2> QED  BY <1>15, <2>2, <2>3 DEF FirmwareLoad
<1> QED
  BY <1>5, <1>6, <1>7, <1>8, <1>9, <1>10, <1>11, <1>12, <1>13, <1>14, <1>15 DEF Operation

\* Neither do the interrupt thread and the DMP.
LEMMA InterruptEvents ==
  ASSUME TypeOK, EventInv, Interrupt \/ SignificantMotion \/ IrqThread
  PROVE  EventInv'
<1>0. cfg \in CfgType /\ drv \in DrvType /\ chip \in ChipType /\ pm' = pm
  BY InterruptPower DEF TypeOK, pmVars
<1>1. CASE IrqDmp
  <2>1. /\ cfg' \in {cfg, [cfg EXCEPT !.smd_enable = FALSE]}
        /\ chip' \in {chip, [chip EXCEPT !.smdStatus = FALSE]}
    BY <1>1 DEF IrqDmp
  <2>2. SameRequest
    <3>1. "smd_enable" \in Settings \ {"firmware_loaded", "pedometer_int_on",
            "display_orientation_on", "dmp_event_int_on", "dmp_on"}
      BY DEF Settings, DmpMemAttrs
    <3> QED  BY <1>0, <2>1, <3>1, RequestKept
  <2>3. SameRouting
    BY <1>0, <2>1 DEF ChipType, SameRouting
  <2>4. drv'.enable = drv.enable /\ drv'.batchOn = drv.batchOn
    <3>1. \A t \in BOOLEAN : /\ [drv EXCEPT !.smdTriggered = t].enable = drv.enable
                             /\ [drv EXCEPT !.smdTriggered = t].batchOn = drv.batchOn
      BY <1>0 DEF DrvType
    <3>2. drv.smdTriggered \in BOOLEAN /\ chip.smdStatus \in BOOLEAN
      BY <1>0 DEF DrvType, ChipType
    <3> QED  BY <1>1, <3>1, <3>2 DEF IrqDmp
  <2> QED  BY <1>0, <2>2, <2>3, <2>4, EventKept
<1>2. CASE IrqFifo
  <2>1. cfg' = cfg /\ drv' = drv /\ chip' \in {chip, ResetFifo(chip)} \cup FailedResets(chip)
    BY <1>2 DEF IrqFifo
  <2>2. SameRouting
    BY <1>0, <2>1, ResetRouting DEF SameRouting
  <2> QED  BY <1>0, <2>1, <2>2, EventKept DEF SameRequest
<1>3. CASE SignificantMotion
  <2>1. cfg' = cfg /\ drv' = drv /\ chip' = [chip EXCEPT !.smdStatus = TRUE]
    BY <1>3 DEF SignificantMotion
  <2>2. SameRouting
    BY <1>0, <2>1 DEF ChipType, SameRouting
  <2> QED  BY <1>0, <2>1, <2>2, EventKept DEF SameRequest
<1>4. CASE Interrupt \/ IrqEnter \/ IrqDown \/ IrqLock \/ IrqUnlock
  <2>1. UNCHANGED <<cfg, drv, chip>>
    BY <1>4 DEF Interrupt, IrqEnter, IrqDown, IrqLock, IrqUnlock, userVars
  <2> QED  BY <1>0, <2>1, EventKept DEF SameRouting, SameRequest
<1> QED  BY <1>1, <1>2, <1>3, <1>4 DEF IrqThread

\* Suspend makes a running DMP quiet and resume makes it audible again.
LEMMA PmEvents ==
  ASSUME MaxPmFaults = 0, TypeOK, EventInv, PmCore
  PROVE  EventInv'
<1>0. cfg \in CfgType /\ drv \in DrvType /\ chip \in ChipType /\ ~PmFault
  BY DEF TypeOK, PmFault
<1>0a. /\ cfg.pedometer_int_on \in BOOLEAN /\ cfg.display_orientation_on \in BOOLEAN
       /\ cfg.dmp_event_int_on \in BOOLEAN
  BY <1>0 DEF CfgType, Settings, DmpAttrs, DmpMemAttrs
<1>1. CASE SuspendStart
  BY <1>1 DEF SuspendStart, PmStep, userVars, EventInv, Quieted, DmpRunning
<1>2. CASE SuspendQuiesce
  <2>1. /\ pm = "suspend" /\ pm' = "quiesced" /\ cfg' = cfg /\ drv' = drv
        /\ chip' = IF DmpRunning THEN Quiet(chip) ELSE chip
    BY <1>0, <1>2 DEF SuspendQuiesce, PmStep
  <2>2. ~Quieted /\ Quieted' /\ DmpRunning' = DmpRunning
    BY <2>1 DEF Quieted, DmpRunning
  <2>3. CASE ~DmpRunning
    BY <2>1, <2>2, <2>3 DEF EventInv
  <2>4. CASE DmpRunning
    <3>1. chip.pedInt = cfg.pedometer_int_on /\ chip.orientInt = cfg.display_orientation_on
          /\ chip.gestureOnly = cfg.dmp_event_int_on
      BY <2>2, <2>4 DEF EventInv
    <3>2. /\ ~chip'.pedInt /\ ~chip'.orientInt /\ chip'.gestureOnly
          /\ ~cfg.dmp_event_int_on => chip'.threshold = "max"
      BY <1>0, <1>0a, <2>1, <2>4, <3>1 DEF Quiet, ChipType
    <3> QED  BY <2>1, <2>2, <2>4, <3>2 DEF EventInv
  <2> QED  BY <2>3, <2>4
<1>3. CASE Resume
  <2>1. /\ pm = "resume" /\ pm' = "running" /\ cfg' = cfg /\ drv' = drv
        /\ chip' = IF DmpRunning THEN Audible(chip) ELSE chip
    BY <1>0, <1>3 DEF Resume, PmStep
  <2>2. Quieted /\ ~Quieted' /\ DmpRunning' = DmpRunning
    BY <2>1 DEF Quieted, DmpRunning
  <2>3. CASE ~DmpRunning
    BY <2>1, <2>2, <2>3 DEF EventInv
  <2>4. CASE DmpRunning
    <3>1. chip.gestureOnly /\ ~chip.pedInt /\ ~chip.orientInt
      BY <2>2, <2>4 DEF EventInv
    <3>2. /\ chip'.pedInt = cfg.pedometer_int_on
          /\ chip'.orientInt = cfg.display_orientation_on
          /\ chip'.gestureOnly = cfg.dmp_event_int_on
          /\ ~cfg.dmp_event_int_on => chip'.threshold = "counter"
      BY <1>0, <1>0a, <2>1, <2>4, <3>1 DEF Audible, ChipType
    <3> QED  BY <2>1, <2>2, <2>4, <3>2 DEF EventInv
  <2> QED  BY <2>3, <2>4
<1>4. CASE SuspendMark \/ SuspendAbort \/ DisableIrqs \/ SuspendNoirq \/ Wake
  <2>1. UNCHANGED <<cfg, chip>> /\ Quieted /\ Quieted'
    BY <1>4 DEF SuspendMark, SuspendAbort, DisableIrqs, SuspendNoirq, Wake, PmStep, userVars,
       Quieted
  <2>2. drv'.enable = drv.enable /\ drv'.batchOn = drv.batchOn
    BY <1>0, <1>4 DEF SuspendMark, SuspendAbort, DisableIrqs, SuspendNoirq, Wake, userVars, DrvType
  <2> QED  BY <2>1, <2>2 DEF EventInv, DmpRunning
<1> QED  BY <1>1, <1>2, <1>3, <1>4 DEF PmCore

\* The routing invariant holds in every state of a driver whose suspends and
\* resumes meet no failing transfer.
THEOREM EventsInvariant ==
  ASSUME MaxPmFaults = 0, "firmware_loaded" \notin Ops, SerialUse
  PROVE  Spec => []EventInv
<1>1. Init => EventInv
  <2> SUFFICES ASSUME Init PROVE EventInv
    OBVIOUS
  <2>1. ~cfg.pedometer_int_on /\ ~cfg.display_orientation_on /\ ~cfg.firmware_loaded
    BY DEF Init, Settings, DmpMemAttrs
  <2>2. ~DmpRunning
    BY DEF Init, DmpRunning
  <2> QED  BY <2>1, <2>2 DEF EventInv
<1>2. TypeOK /\ CallerInv /\ EventInv /\ [Next]_vars => EventInv'
  <2> SUFFICES ASSUME TypeOK, CallerInv, EventInv, [Next]_vars PROVE EventInv'
    OBVIOUS
  <2>1. CASE \E c \in Callers : Operation(c)
    BY <2>1, OperationEvents
  <2>2. CASE Interrupt \/ SignificantMotion \/ IrqThread
    BY <2>2, InterruptEvents
  <2>3. CASE PmCore
    BY <2>3, PmEvents
  <2>4. CASE UNCHANGED vars
    BY <2>4, EventKept DEF vars, userVars, pmVars, SameRouting, SameRequest
  <2> QED  BY <2>1, <2>2, <2>3, <2>4 DEF Next
<1> QED  BY <1>1, <1>2, CallerInit, CallerStep, TypeCorrect, PTL DEF Spec

\* Pedometer and orientation settings the driver accepted are in the DMP's
\* memory whenever the system runs.
THEOREM SettingsKept ==
  ASSUME MaxPmFaults = 0, "firmware_loaded" \notin Ops, SerialUse
  PROVE  Spec => []MemorySettingsKept
<1>1. EventInv => MemorySettingsKept
  BY DEF EventInv, MemorySettingsKept, Quieted
<1> QED  BY <1>1, EventsInvariant, PTL

\* Resume undoes what suspend wrote into the DMP's memory.
THEOREM ResumeRestores ==
  ASSUME MaxPmFaults = 0, "firmware_loaded" \notin Ops, SerialUse
  PROVE  Spec => []ResumeRestoresEvents
<1>1. EventInv => ResumeRestoresEvents
  BY DEF EventInv, ResumeRestoresEvents, Quieted
<1> QED  BY <1>1, EventsInvariant, PTL

\* A DMP that keeps running while the system sleeps stays quiet.
THEOREM StaysQuiet ==
  ASSUME MaxPmFaults = 0, "firmware_loaded" \notin Ops, SerialUse
  PROVE  Spec => []QuietWhileAsleep
<1>1. EventInv => QuietWhileAsleep
  BY DEF EventInv, QuietWhileAsleep, Quieted
<1> QED  BY <1>1, EventsInvariant, PTL
=============================================================================
