----------------------------- MODULE MCDrivers -----------------------------
(***************************************************************************)
(* The sensor drivers beside the MPU's own life cycle, and the arithmetic  *)
(* they share with the HAL, for TLC.  They do not act on each other, so a  *)
(* behaviour takes one part and leaves the others as they begin; all the   *)
(* words of the fixed-point arithmetic come before the first turn of the   *)
(* body, and a slave's behaviour ends with the first write that fails.     *)
(***************************************************************************)
EXTENDS CompassPoll, YasMath, Slaves, Attitude, DmpClock, IrqStamps

VARIABLE part
Parts == {"poll", "yas", "slaves", "math", "clock", "irq"}
MCInputs == {-300, 0, 700, 2550}
MCTurns == {-3, 1, 2}
allVars == <<part, pollVars, yasVars, slaveVars, attitudeVars, arg, clockVars, irqVars>>

MCInit ==
    /\ part \in Parts
    /\ PollInit /\ (part # "poll" => chip = "ak89xx")
    /\ YasInit /\ (part # "yas" => bit = NoBit /\ field = NoField)
    /\ SlavesInit
    /\ part # "slaves" => /\ compass = "none" /\ ~barometer
                          /\ fifoRate = Max(FifoRates) /\ slaveRate = Max(SlaveRates)
    /\ FixedInit /\ AttitudeInit /\ ClockInit
    /\ IrqInit /\ (part # "irq" => ~mpu3050 /\ truePeriod = Max(TruePeriods))

MathNext == \/ attitude = Identity /\ heading = 0 /\ FixedNext /\ UNCHANGED attitudeVars
            \/ arg = 1 /\ AttitudeNext /\ UNCHANGED arg
MCNext ==
    /\ UNCHANGED part
    /\ \/ /\ part = "poll" /\ PollNext
          /\ UNCHANGED <<yasVars, slaveVars, attitudeVars, arg, clockVars, irqVars>>
       \/ /\ part = "yas" /\ YasNext
          /\ UNCHANGED <<pollVars, slaveVars, attitudeVars, arg, clockVars, irqVars>>
       \/ /\ part = "slaves" /\ ~writeFailed /\ SlavesNext
          /\ UNCHANGED <<pollVars, yasVars, attitudeVars, arg, clockVars, irqVars>>
       \/ /\ part = "math" /\ MathNext
          /\ UNCHANGED <<pollVars, yasVars, slaveVars, clockVars, irqVars>>
       \/ /\ part = "clock" /\ ClockNext
          /\ UNCHANGED <<pollVars, yasVars, slaveVars, attitudeVars, arg, irqVars>>
       \/ /\ part = "irq" /\ IrqNext
          /\ UNCHANGED <<pollVars, yasVars, slaveVars, attitudeVars, arg, clockVars>>

(* Every part keeps its variables in their types; in particular no more
   stamps wait than the kfifo holds. *)
TypesOK == PollTypeOK /\ SlavesTypeOK /\ ClockTypeOK /\ IrqTypeOK

(* FunctionsInvert for every argument; the other parts leave arg as it is. *)
AllFunctionsInvert == part = "math" => FunctionsInvert

(* ConventionsAgree for every attitude and heading; the other parts leave the
   body at rest. *)
AllConventionsAgree == part = "math" => ConventionsAgree

MCSpec == MCInit /\ [][MCNext]_allVars /\ ClockFair
=============================================================================
