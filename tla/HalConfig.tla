------------------------------ MODULE HalConfig ------------------------------
(***************************************************************************)
(* MPLSensor.cpp, the configuration side: which sysfs attributes of the    *)
(* driver the HAL writes, and in which order, when the framework enables   *)
(* or disables a sensor, sets its period or batches it.  One record holds  *)
(* MPLSensor's members; its field sys holds the driver's attributes.  Each *)
(* function of the code is an operator from record to record.  The writes  *)
(* succeed, the chip has a DMP with its firmware loaded and the compass    *)
(* and pressure sensors are on the chip's second bus.                      *)
(***************************************************************************)
EXTENDS Integers, Sequences, FiniteSets, FiniteSetsExt, TLC

CONSTANTS Sensors,       \* the sensors the framework uses
          Periods,       \* periods it asks for
          Timeouts,      \* batch timeouts it asks for, 0 for none
          Millisecond,   \* the driver's unit, in that of the timeouts (a nanosecond)
          SlowestPeriod, \* one second
          NoTimeout,     \* a hundred seconds
          CompassMin     \* the compass's shortest period
VARIABLE hal

Gyros == {"Gyro", "RawGyro"}
Compasses == {"MagneticField", "RawMagneticField"}
Hardware == Gyros \cup Compasses \cup {"Accelerometer", "Pressure"}
NineAxes == {"Orientation", "RotationVector", "LinearAccel", "Gravity"}
GRV == "GameRotationVector"
GMRV == "GeomagneticRotationVector"
Virtual == NineAxes \cup {GRV, GMRV}
DmpSensors == {"StepDetector", "StepCounter", "SignificantMotion", "ScreenOrientation"}
ASSUME ConfigAssumption ==
    /\ Sensors \subseteq Hardware \cup Virtual \cup DmpSensors
    /\ Periods \subseteq Nat \ {0} /\ Timeouts \subseteq Nat /\ CompassMin \in Nat \ {0}
    /\ SlowestPeriod \in Nat /\ \A p \in Periods : p < SlowestPeriod
    /\ Millisecond \in Nat \ {0} /\ NoTimeout \in Nat /\ NoTimeout >= Millisecond
    /\ \A t \in Timeouts : t < NoTimeout
(* No batch is shorter than the driver can be told.  Nothing in the code
   refuses a shorter one: the driver gets 0 for it, which batch() takes for no
   change if the last timeout was 0 too, and neither enters nor leaves the
   batch mode. *)
TimeoutsOfAMillisecond == \A t \in Timeouts : t = 0 \/ t >= Millisecond
(* DMP_FEATURE_MASK: all features but the stand-alone step detector. *)
DmpFeatures == {"lpq", "orientation", "smd", "pedometer", "pedometerStep", "six", "pedQ", "batch"}

Attributes == {"master", "gyro", "gyroFifo", "accel", "accelFifo", "compass", "pressure",
               "threeQ", "sixQ", "pedQ", "stepDetector", "stepIndicator", "pedometer",
               "pedometerInt", "smd", "orientation", "dmp", "eventInt"}
Rates == {"gyroRate", "accelRate", "compassRate", "pressureRate", "quatRate"}
Files == Attributes \cup Rates \cup {"timeout"}
(* mBatchTimeoutInMs is 0 here; the constructor leaves it as it finds it, and a
   first batch of just that many milliseconds is not written. *)
HalInit ==
    hal = [enabled |-> {}, batch |-> {}, oldBatch |-> FALSE, features |-> {}, mask |-> {},
           dmpOn |-> FALSE, dmpState |-> FALSE, dataInt |-> FALSE, firstBatch |-> TRUE,
           enableCalled |-> TRUE, dmpSensors |-> {},
           delays |-> [s \in Sensors |-> SlowestPeriod],
           batchDelays |-> [s \in Sensors |-> SlowestPeriod],
           timeouts |-> [s \in Sensors |-> NoTimeout],
           timeout |-> 0, batchRates |-> <<0, 0, 0, 0>>, quatBatch |-> 0, rates |-> <<0, 0>>,
           accelBias |-> FALSE,
           sys |-> [a \in Files |-> IF a \in Rates THEN SlowestPeriod
                                    ELSE IF a = "timeout" THEN 0 ELSE FALSE]]
-----------------------------------------------------------------------------
Put(h, values) ==
    [h EXCEPT !.sys = [a \in DOMAIN @ |-> IF a \in DOMAIN values THEN values[a] ELSE @[a]]]
MasterEnable(h, en) == Put(h, [master |-> en])
EnableGyro(h, en) == Put(h, [gyro |-> en, gyroFifo |-> en])
EnableAccel(h, en) == Put(h, [accel |-> en, accelFifo |-> en])
EnableCompass(h, en) == Put(h, [compass |-> en])
EnablePressure(h, en) == Put(h, [pressure |-> en])
TurnOffGyroFifo(h) == Put(h, [gyroFifo |-> FALSE])
TurnOffAccelFifo(h) == Put(h, [accelFifo |-> FALSE])
(* setAccelBias: a bias that is waiting goes to the DMP.  (One of the gyro
   never waits: readEvents writes it as soon as it is there.) *)
SetAccelBiasIfOn(h) == IF h.dmpOn THEN [h EXCEPT !.accelBias = FALSE] ELSE h
SetAccelBias(h) == [h EXCEPT !.accelBias = FALSE]
OnDmp(h, en) ==
    LET on == [h EXCEPT !.dmpOn = en]
        put == IF h.sys.dmp = en THEN on
               ELSE Put(on, [dmp |-> en, eventInt |-> en /\ h.sys.eventInt])
    IN  IF en THEN put ELSE SetAccelBias(put)

Uses(h, what) == what \in h.mask
DmpUsed(h) == h.features \cap DmpFeatures # {}
DataInterruptInBatch(h) == "batch" \in h.features
DataInterrupt(h) == h.enabled # {} \/ "batch" \in h.features
(* The part the four quaternion and step functions share when they turn
   their output off: accel and gyro follow it if nothing else wants them. *)
IdleOffRegardless(h) == EnableGyro(EnableAccel(h, FALSE), FALSE)
IdleOff(h) ==
    LET a == IF ~DmpUsed(h) /\ ~Uses(h, "accel") THEN EnableAccel(h, FALSE) ELSE h
    IN  IF ~DmpUsed(a) /\ ~Uses(a, "gyro") THEN EnableGyro(a, FALSE) ELSE a
NothingEnabledNoDmp(h) ==
    IF h.features = {} /\ h.enabled = {} THEN OnDmp(h, FALSE) ELSE h
NoFeatureNoDmp(h) == IF h.features = {} THEN OnDmp(h, FALSE) ELSE h
Drop(h, f) == [h EXCEPT !.features = @ \ {f}]
Add(h, f) == [h EXCEPT !.features = @ \cup {f}]

SetDmpFeature(h, en) ==
    LET gyroOn == IF h.features \cap {"six", "pedQ", "lpq"} = {} THEN h
                  ELSE IF Uses(h, "gyro") THEN EnableGyro(h, TRUE)
                  ELSE TurnOffGyroFifo(EnableGyro(h, TRUE))
        accelOn == IF Uses(h, "accel") THEN EnableAccel(gyroOn, TRUE)
                   ELSE TurnOffAccelFifo(EnableAccel(gyroOn, TRUE))
        gyroOff == IF Uses(h, "gyro") THEN h ELSE EnableGyro(h, FALSE)
        accelOff == IF Uses(h, "accel") THEN gyroOff ELSE EnableAccel(gyroOff, FALSE)
    IN  Put(IF DmpUsed(h) \/ en THEN accelOn ELSE accelOff, [eventInt |-> ~DataInterrupt(h)])
(* computeDmpState: its second branch asks for the low power quaternion, which
   is a feature already. *)
DmpState(h) == h.features # {}
SetDmpState(h, on) == [OnDmp(h, on) EXCEPT !.dmpState = on]
ComputeAndSetDmpState(h) == SetDmpState(h, DmpState(h))
-----------------------------------------------------------------------------
(* ------------------ step indicator, stand-alone, quaternions ------------ *)
EnablePedIndicator(h, en) ==
    LET on == IF "pedQ" \in h.features THEN h
              ELSE LET i == EnableAccel(Put(h, [pedometerInt |-> FALSE]), TRUE)
                   IN  IF Uses(h, "accel") THEN i ELSE TurnOffAccelFifo(i)
        off == IF ~DmpUsed(h) /\ ~Uses(h, "accel") THEN EnableAccel(h, FALSE) ELSE h
    IN  Put(IF en THEN on ELSE off, [stepIndicator |-> en])
PedStandaloneData(h, en) ==
    LET put == Put(h, [stepDetector |-> en, stepIndicator |-> en])
        on == EnableAccel(put, TRUE)
    IN  IF ~en THEN IdleOff(put) ELSE IF Uses(h, "accel") THEN on ELSE TurnOffAccelFifo(on)
(* The steps' own output is gone: the pedometer interrupts again, and if it is
   alone, the event interrupt is switched as the caller has it. *)
PedometerSilent(d, event) ==
    IF d.features = {} THEN OnDmp(d, FALSE)
    ELSE IF "pedometer" \in d.features /\ d.enabled = {} THEN Put(d, [eventInt |-> event]) ELSE d
PedometerBack(d, event) ==
    LET ped == Put(d, [pedometerInt |-> TRUE])
    IN  IF d.features = {} THEN OnDmp(d, FALSE)
        ELSE IF "pedometer" \notin d.features THEN d
        ELSE IF d.enabled = {} THEN Put(ped, [eventInt |-> event]) ELSE ped
EnablePedStandalone(h, en) ==
    LET off == PedometerBack(Drop(PedStandaloneData(h, FALSE), "standalone"), TRUE)
        on == Add(OnDmp(PedStandaloneData(h, TRUE), TRUE), "standalone")
    IN  IF en THEN Put(on, [pedometerInt |-> FALSE, eventInt |-> FALSE]) ELSE off
(* What the DMP no longer folds into a quaternion goes into the buffer again. *)
MaskBack(h) ==
    [h EXCEPT !.mask = @ \cup IF GRV \in h.enabled THEN {"gyro", "accel"}
                              ELSE IF "Accelerometer" \in h.enabled THEN {"accel"}
                              ELSE IF h.enabled \cap Gyros # {} THEN {"gyro"} ELSE {}]
LpqFifos(h) ==
    IF "lpq" \in h.features THEN Put(h, [gyroFifo |-> TRUE, accelFifo |-> TRUE]) ELSE h
(* The raw data of a sensor goes into the buffer beside a quaternion only if
   the sensor itself is batched. *)
NoAccelFifo(h) == [TurnOffAccelFifo(h) EXCEPT !.mask = @ \ {"accel"}]
NoGyroFifo(h) == [TurnOffGyroFifo(h) EXCEPT !.mask = @ \ {"gyro"}]
PedQuaternionData(h, en) ==
    LET put == Put(h, [pedQ |-> en])
        on == EnableGyro(EnableAccel(put, TRUE), TRUE)
        a == IF Uses(on, "accel") /\ "Accelerometer" \in h.batch THEN on ELSE NoAccelFifo(on)
    IN  IF ~en THEN MaskBack(LpqFifos(IdleOff(put)))
        ELSE IF Uses(a, "gyro") /\ h.batch \cap Gyros # {} THEN a ELSE NoGyroFifo(a)
EnablePedQuaternion(h, en) ==
    LET off == PedometerBack(Drop(PedQuaternionData(h, FALSE), "pedQ"), FALSE)
        on == Add(OnDmp(PedQuaternionData(h, TRUE), TRUE), "pedQ")
    IN  IF en THEN Put(on, [pedometerInt |-> FALSE, eventInt |-> FALSE]) ELSE off
Batched(h, s) == s \in h.batch /\ s \in h.enabled
SixAxisData(h, en) ==
    LET put == Put(h, [sixQ |-> en])
        off == LpqFifos(IdleOff(put))
        back == MaskBack(off)
        on == EnableGyro(EnableAccel(put, TRUE), TRUE)
        a == IF Uses(on, "accel") /\ Batched(h, "Accelerometer") THEN on ELSE NoAccelFifo(on)
    IN  IF en
          THEN IF GRV \notin h.enabled THEN put
               ELSE IF (Uses(a, "gyro") /\ Batched(h, "Gyro")) \/ Batched(h, "RawGyro") THEN a
               ELSE NoGyroFifo(a)
        ELSE IF GRV \notin h.enabled THEN back
        ELSE IF "pedQ" \in h.features THEN off
        ELSE Put(back, [gyroFifo |-> TRUE, accelFifo |-> TRUE])
EnableSixAxis(h, en) ==
    IF en THEN Add(OnDmp(SixAxisData(h, TRUE), TRUE), "six")
    ELSE NoFeatureNoDmp(Drop(SixAxisData(h, FALSE), "six"))
EnableLPQ(h, en) ==
    IF en THEN Add(OnDmp(Put(h, [threeQ |-> TRUE]), TRUE), "lpq")
    ELSE NoFeatureNoDmp(Drop(Put(h, [threeQ |-> FALSE]), "lpq"))
-----------------------------------------------------------------------------
(* ------------------------------- batching ------------------------------- *)
(* computeBatchSensorMask: batching needs every enabled sensor batched. *)
AllEnabledBatched(h, batch) == (h.enabled # {} \/ batch # {}) /\ h.enabled \subseteq batch
AllBatched(h, batch) ==
    /\ h.enabled # {} \/ batch # {}
    /\ h.enabled \subseteq batch
    /\ "pedometer" \in h.features => "StepDetector" \in batch
BatchMode(h, batch) == AllBatched(h, batch) /\ batch # {}
WithBatchFeature(h, batch) == IF AllBatched(h, batch) THEN Add(h, "batch") ELSE Drop(h, "batch")
(* computeBatchDataOutput: the table above it. *)
DataOutputBoth(h) ==
    LET step == "StepDetector" \in h.batch
        grv == GRV \in h.batch
    IN  (IF step THEN {IF grv THEN "pedQ" ELSE "standalone", "indicator"} ELSE {})
        \cup (IF grv THEN {"six"} ELSE {})
DataOutput(h) ==
    LET hw == h.batch \cap Hardware # {}
        step == "StepDetector" \in h.batch
        grv == GRV \in h.batch
    IN  IF step /\ grv /\ ~hw THEN {"pedQ", "indicator"}
        ELSE IF step /\ ~grv /\ ~hw THEN {"standalone", "indicator"}
        ELSE (IF step THEN {"indicator"} ELSE {}) \cup (IF grv THEN {"six"} ELSE {})
StandaloneBatched(h) == "pedometer" \in h.features /\ "StepDetector" \in h.batch
(* calcBatchTimeout: the shortest of the timeouts of the batched sensors, in
   whole milliseconds. *)
BatchTimeout(h, en) ==
    LET of == (h.enabled \cap h.batch) \cup (IF StandaloneBatched(h) THEN {"StepDetector"} ELSE {})
    IN  IF en THEN Min({h.timeouts[s] : s \in of} \cup {NoTimeout}) \div Millisecond ELSE 0
WriteBatchTimeout(h, ms) ==
    [(IF h.timeout # ms THEN Put(h, [timeout |-> ms]) ELSE h) EXCEPT !.timeout = ms]
(* Of two sensors on the same data, the one that is batched, or the faster. *)
Pair(h, a, b) ==
    LET both == {s \in {a, b} \cap Sensors : s \in h.batch}
        of == IF both = {} THEN {a} \cap Sensors ELSE both
    IN  IF of = {} THEN SlowestPeriod ELSE Min({h.batchDelays[s] : s \in of})
Of(h, s) == IF s \in Sensors THEN h.batchDelays[s] ELSE SlowestPeriod
BatchRates(h) == <<Pair(h, "Gyro", "RawGyro"), Of(h, "Accelerometer"),
                   Pair(h, "MagneticField", "RawMagneticField"), Of(h, "Pressure")>>
QuatActive(h) == h.features \cap {"pedQ", "six"} # {}
AtLeast(a, b) == IF a < b THEN b ELSE a
(* getDmpRate: while the DMP is on, it is the quaternions that get the rate. *)
DmpRate(h, p) == IF h.dmpOn THEN Put(h, [quatRate |-> p]) ELSE h
(* setBatchDataRates: a rate of the quaternion that nobody set is 0 here. *)
SetBatchRates(h) ==
    LET r == BatchRates(h)
        quat == IF QuatActive(h) THEN Of(h, GRV) ELSE 0
        put == Put(IF QuatActive(h) THEN DmpRate(h, quat) ELSE h,
                   [gyroRate |-> r[1], accelRate |-> r[2],
                    compassRate |-> AtLeast(r[3], CompassMin), pressureRate |-> r[4]])
    IN  [put EXCEPT !.batchRates = <<r[1], r[2], AtLeast(r[3], CompassMin), r[4]>>,
                    !.quatBatch = IF QuatActive(h) /\ h.dmpOn THEN 1 ELSE quat]
(* resetDataRates: everything at the shortest period an enabled sensor wants. *)
Fastest(h) == Min({h.delays[s] : s \in h.enabled} \cup {SlowestPeriod})
ResetRates(h) ==
    IF h.enabled = {} THEN h
    ELSE LET p == Fastest(h)
             put == Put(DmpRate(h, p), [gyroRate |-> p, accelRate |-> p, pressureRate |-> p,
                                        compassRate |-> AtLeast(p, CompassMin)])
         IN  [put EXCEPT !.rates = <<p, AtLeast(p, CompassMin)>>]
(* setBatch, stage by stage. *)
SetBatch(h0, en, toggle) ==
    LET fm == DataOutput(h0)
        grv == GRV \in h0.enabled
        standalone(h) == EnablePedStandalone(h, en /\ "pedometer" \in h.features /\ "standalone" \in fm)
        pedQuaternion(h) ==
            IF en /\ "pedometer" \in h.features /\ grv /\ "pedQ" \in fm
              THEN EnablePedQuaternion(EnableLPQ(h, FALSE), TRUE)
            ELSE EnablePedQuaternion(h, FALSE)
        indicator(h) == EnablePedIndicator(h, /\ en /\ "indicator" \in fm
                                              /\ h.enabled # {} \/ "standalone" \in h.features)
        sixAxis(h) ==
            IF en /\ grv /\ "six" \in fm THEN EnableSixAxis(EnableLPQ(h, FALSE), TRUE)
            ELSE EnableSixAxis(IF "pedQ" \notin fm /\ grv THEN EnableLPQ(h, TRUE) ELSE h, FALSE)
        timeout(h) == WriteBatchTimeout(h, BatchTimeout(h, en))
        rates(h) == IF en THEN SetBatchRates(OnDmp(h, TRUE))
                    ELSE IF h.features = {} THEN ResetRates(OnDmp(h, FALSE)) ELSE h
        interrupt(h) == Put(h, [eventInt |-> ~DataInterrupt(h)])
        master(h) == IF toggle /\ (h.features # {} \/ h.enabled # {}) THEN MasterEnable(h, TRUE) ELSE h
        start == IF toggle THEN MasterEnable(h0, FALSE) ELSE h0
    IN  master(interrupt(rates(timeout(sixAxis(indicator(pedQuaternion(standalone(start))))))))
(* computeBatchSensorMask, then setBatch unless there is no need to. *)
ComputeBatch(h, toggle) ==
    LET mode == BatchMode(h, h.batch)
        f == WithBatchFeature(h, h.batch)
        r == IF h.oldBatch # mode \/ mode THEN SetBatch(f, mode, toggle) ELSE f
    IN  [r EXCEPT !.oldBatch = mode]
-----------------------------------------------------------------------------
(* ------------------------------- enabling ------------------------------- *)
(* computeLocalSensorMask: what the enabled sensors need from the chip. *)
LocalMask(h, enabled) ==
    LET on == [w \in {"gyro", "accel", "compass"} |->
                  enabled \cap (CASE w = "gyro" -> Gyros [] w = "accel" -> {"Accelerometer"}
                                  [] w = "compass" -> Compasses) # {}]
        pressure == IF "Pressure" \in enabled THEN {"pressure"} ELSE {}
        kept == h.mask \ {"pressure"}
        set(ws) == (kept \ ws) \cup {w \in ws : on[w]}
    IN  IF enabled \cap NineAxes # {} \/ {GRV, GMRV} \subseteq enabled
          THEN {"gyro", "accel", "compass"} \cup pressure
        ELSE IF GRV \in enabled
          THEN IF {"batch"} \subseteq h.features /\ GRV \in h.batch
                 THEN set({"gyro", "accel", "compass"}) \cup pressure
               ELSE set({"compass"}) \cup {"gyro", "accel"} \cup pressure
        ELSE IF GMRV \in enabled THEN set({"gyro"}) \cup {"accel", "compass"} \cup pressure
        ELSE set({"gyro", "accel", "compass"}) \cup pressure
(* enable: the sensors whose hardware is switched. *)
Changed(h, what, en, enabled) ==
    LET none(set) == h.enabled \cap set = {}
        noneLeft(set) == enabled \cap set = {}
        all == {"Gyro", "RawGyro", "Accelerometer", "MagneticField", "RawMagneticField"}
        sixes == IF what = GRV THEN {GMRV} ELSE {GRV}
        six == IF en THEN none(NineAxes)
               ELSE noneLeft(Virtual) \/ enabled \cap sixes # {}
    IN  IF what \in Gyros \cup {"Accelerometer"}
          THEN IF noneLeft(NineAxes \cup {GRV}) \/ "six" \in h.features THEN {what} ELSE {}
        ELSE IF what \in Compasses THEN IF noneLeft(NineAxes) THEN {what} ELSE {}
        ELSE IF what = "Pressure" THEN {what}
        ELSE IF what = GRV THEN IF six THEN all \ enabled ELSE {}
        ELSE IF what = GMRV THEN IF six THEN (all \ Gyros) \ enabled ELSE {}
        ELSE IF (IF en THEN none(NineAxes) ELSE noneLeft(NineAxes)) THEN all \ enabled ELSE {}
(* The chip's sensors that changed, switched by what is needed of each. *)
SwitchSensors(h0, changed) ==
    LET need == h0.mask
        gyro(h) == IF changed \cap Gyros # {} THEN EnableGyro(h, "gyro" \in need) ELSE h
        accel(h) == IF "Accelerometer" \in changed THEN EnableAccel(h, "accel" \in need) ELSE h
        compass(h) == IF changed \cap Compasses # {} THEN EnableCompass(h, "compass" \in need) ELSE h
        pressure(h) == IF "Pressure" \in changed THEN EnablePressure(h, "pressure" \in need) ELSE h
    IN  pressure(compass(accel(gyro(MasterEnable(h0, FALSE)))))
(* The low power quaternion, for the sensors fused from it. *)
SwitchQuaternion(h) ==
    IF h.enabled \cap (NineAxes \cup {GRV}) # {}
      THEN IF "lpq" \in h.features THEN h ELSE EnableLPQ(h, TRUE)
    ELSE IF "lpq" \in h.features THEN EnableLPQ(h, FALSE) ELSE h
(* The accelerometer stays on for a feature of the DMP. *)
FeedDmp(h, need) ==
    LET fed(d) == IF "accel" \in need \cup d.mask THEN d ELSE TurnOffAccelFifo(d)
    IN  IF h.features \cap DmpFeatures = {} \/ h.features \cap {"six", "standalone", "pedQ", "batch"} # {}
          THEN h
        ELSE fed(EnableAccel(OnDmp(h, TRUE), TRUE))
(* enableSensors.  The calibration file it stores is CalStore's. *)
EnableSensors(h0, changed) ==
    LET need == h0.mask
        bias(h) == IF "accel" \in need THEN h ELSE SetAccelBias(h)
        hardware(h) ==
            IF changed = {} \/ (need = {} /\ h.dmpSensors \ {"ScreenOrientation"} = {}) THEN h
            ELSE Put(FeedDmp(h, need), [eventInt |-> FALSE])
        rates(h) == IF h.oldBatch THEN h ELSE ResetRates(h)
        master(h) == IF h.features # {} \/ need # {} THEN MasterEnable(h, TRUE) ELSE h
        quaternion == SwitchQuaternion(SwitchSensors(h0, changed))
    IN  master(rates(hardware(ComputeBatch(bias(quaternion), FALSE))))
(* enable, for the sensors the HAL computes. *)
EnableHandler(h, what, en) ==
    LET called == [h EXCEPT !.enableCalled = TRUE, !.batch = IF en THEN @ ELSE @ \ {what}]
        enabled == IF en THEN h.enabled \cup {what} ELSE h.enabled \ {what}
        masked == [called EXCEPT !.enabled = enabled, !.mask = LocalMask(called, enabled)]
    IN  IF (what \in h.enabled) = en THEN called
        ELSE EnableSensors(masked, Changed(called, what, en, enabled))
(* What follows a change of the DMP's own sensors. *)
AfterDmpSensorUnlessFeatures(h, en, enabled) ==
    LET s == ComputeAndSetDmpState(SetDmpFeature(h, en))
        r == IF s.batch = {} THEN ResetRates(s) ELSE s
    IN  IF en \/ enabled # {} THEN MasterEnable(r, TRUE) ELSE r
AfterDmpSensor(h, en, enabled) ==
    LET s == ComputeAndSetDmpState(SetDmpFeature(h, en))
        r == IF s.batch = {} THEN ResetRates(s) ELSE s
    IN  IF en \/ enabled # {} \/ r.features # {} THEN MasterEnable(r, TRUE) ELSE r
EnableDmpPedometer(h0, en, interrupts) ==
    LET h == MasterEnable(h0, FALSE)
        feature == IF interrupts THEN "pedometer" ELSE "pedometerStep"
        on == Add(Put(h, [pedometer |-> TRUE,
                          pedometerInt |-> (interrupts /\ ~StandaloneBatched(h))
                                              \/ h.sys.pedometerInt]), feature)
        d == Drop(h, feature)
        off == Put(d, [pedometer |-> d.features \cap {"pedometer", "pedometerStep"} # {}
                                        /\ h.sys.pedometer,
                       pedometerInt |-> "pedometer" \in d.features /\ h.sys.pedometerInt])
    IN  AfterDmpSensor(IF en THEN on ELSE off, en, h.enabled)
EnableSmd(h0, en) ==
    LET h == Put(MasterEnable(h0, FALSE), [smd |-> en])
    IN  AfterDmpSensor(IF en THEN Add(h, "smd") ELSE Drop(h, "smd"), en, h.enabled)
(* enableDmpOrientation: this build has no display orientation, so all it is
   asked for is to turn it off. *)
EnableNoOrientation(h0) ==
    LET h == Drop(MasterEnable(h0, FALSE), "orientation")
        a == IF h.features = {} /\ ~Uses(h, "accel") THEN EnableAccel(h, FALSE) ELSE h
        s == ComputeAndSetDmpState(IF a.enabled # {} THEN Put(a, [eventInt |-> FALSE]) ELSE a)
    IN  IF s.enabled # {} \/ s.features # {} THEN MasterEnable(s, TRUE) ELSE s
(* The sensors of the DMP that enable returns early for. *)
EnableDmpSensor(h, what, en) ==
    LET called == [h EXCEPT !.enableCalled = TRUE, !.batch = IF en THEN @ ELSE @ \ {what}]
        own(r) == [r EXCEPT !.dmpSensors = IF en THEN @ \cup {what} ELSE @ \ {what}]
    IN  CASE what = "SignificantMotion" -> own(EnableSmd(called, en))
          [] what = "ScreenOrientation" -> own(EnableNoOrientation(called))
          [] what = "StepDetector" -> ComputeBatch(own(EnableDmpPedometer(called, en, TRUE)), TRUE)
          [] what = "StepCounter" -> own(EnableDmpPedometer(called, en, FALSE))
-----------------------------------------------------------------------------
(* --------------------------- periods and batch -------------------------- *)
(* update_delay: without a virtual sensor each chip sensor gets its own rate,
   but the first of some other sensors that is faster sets the period. *)
OwnPeriod(h, set) == Min({h.delays[s] : s \in h.enabled \cap set})
PeriodUnless(h, p, others) ==
    LET faster == SelectSeq(others, LAMBDA s : s \in h.enabled /\ h.delays[s] < p)
    IN  IF faster = <<>> THEN p ELSE h.delays[Head(faster)]
OwnRates(h) ==
    LET on(set) == h.enabled \cap set # {}
        accel == PeriodUnless(h, OwnPeriod(h, {"Accelerometer"}), <<"Gyro", "RawGyro">>)
        compass == PeriodUnless(h, OwnPeriod(h, Compasses), <<"Gyro", "RawGyro", "Accelerometer">>)
        g == IF on(Gyros) THEN Put(h, [gyroRate |-> OwnPeriod(h, Gyros)]) ELSE h
        a == IF on({"Accelerometer"}) THEN Put(g, [accelRate |-> accel]) ELSE g
        m == IF on(Compasses) THEN Put(a, [compassRate |-> compass]) ELSE a
    IN  IF on({"Pressure"}) THEN Put(m, [pressureRate |-> h.delays["Pressure"]]) ELSE m
UpdateDelay(h0) ==
    LET h == MasterEnable(h0, FALSE)
        fast == Fastest(h)
        all == Put(h, [gyroRate |-> fast, accelRate |-> fast,
                       compassRate |-> AtLeast(fast, CompassMin)])
        set == IF "batch" \in h.features THEN SetBatchRates(h)
               ELSE DmpRate(IF h.enabled \cap Virtual # {} THEN all ELSE OwnRates(h), fast)
    IN  IF h.enabled = {} THEN h0
        ELSE IF h.mask # {} \/ DmpUsed(h) THEN MasterEnable(set, TRUE) ELSE set
(* setDelay: a slower request than that of another enabled sensor is left
   alone, unless the sensor itself was enabled with another period. *)
SetDelay(h, what, p) ==
    LET set == [h EXCEPT !.delays[what] = p]
        rest == h.enabled \ {what}
        over == IF what \in Gyros \cup {"Accelerometer"}
                  THEN rest \cap (Gyros \cup {"Accelerometer", "MagneticField"})
                ELSE IF "batch" \in h.features THEN {}
                ELSE h.enabled \cap (Gyros \cup {"Accelerometer"})
        changed == what \in h.enabled /\ h.delays[what] # p
    IN  IF \/ what \in Virtual \cup DmpSensors \cup {"Pressure"} \/ changed
           \/ \A s \in over : p <= h.delays[s]
        THEN UpdateDelay(set) ELSE set
(* batch: first what is asked for, then, unless nothing would change, the
   driver.  A rate nobody computed is compared as if it could be anything. *)
Asked(h, what, p, t) ==
    LET f == WithBatchFeature(h, IF t > 0 THEN h.batch \cup {what} ELSE h.batch \ {what})
    IN  [f EXCEPT !.batch = IF t > 0 THEN @ \cup {what} ELSE @ \ {what}, !.delays[what] = p,
                  !.batchDelays[what] = IF t > 0 THEN p ELSE SlowestPeriod,
                  !.timeouts[what] = IF t > 0 THEN t ELSE NoTimeout,
                  !.firstBatch = FALSE, !.enableCalled = FALSE]
Differs(h, q, mode, ms) ==
    \/ h.firstBatch \/ h.enableCalled
    \/ (h.oldBatch # mode \/ mode) /\ (ms # q.timeout \/ DmpState(q) # q.dmpState)
    \/ mode /\ (BatchRates(q) # q.batchRates \/ (QuatActive(q) /\ Of(q, GRV) # q.quatBatch))
    \/ ~mode /\ q.enabled # {} /\ <<Fastest(q), Fastest(q)>> # q.rates
    \/ DataInterrupt(q) # q.dataInt
Uncomputed(q, mode) == IF mode THEN ~QuatActive(q) ELSE q.enabled = {}
(* The quaternions, steps, timeout and DMP of a changed or continued batch. *)
BatchOutputs(q, mode, ms) ==
    LET fm == DataOutput(q)
        grv == GRV \in q.enabled
        quatRate(h) == Put(h, [quatRate |-> q.batchDelays[GRV]])
        standalone(h) ==
            IF mode /\ "standalone" \in fm /\ "pedometer" \in q.features
              THEN EnablePedStandalone(EnablePedQuaternion(h, FALSE), TRUE)
            ELSE IF "pedQ" \in fm
              THEN EnablePedQuaternion(EnableLPQ(EnablePedStandalone(h, FALSE), FALSE), TRUE)
            ELSE EnablePedStandalone(h, FALSE)
        pedQuaternion(h) ==
            IF mode /\ "pedQ" \in fm /\ grv /\ "pedometer" \in h.features
              THEN quatRate(EnablePedQuaternion(EnableLPQ(h, FALSE), TRUE))
            ELSE EnablePedQuaternion(IF "standalone" \notin fm /\ grv
                                     THEN EnableLPQ(h, TRUE) ELSE h, FALSE)
        indicator(h) == EnablePedIndicator(h, mode /\ "indicator" \in fm)
        sixAxis(h) ==
            IF mode /\ "six" \in fm /\ grv THEN quatRate(EnableSixAxis(EnableLPQ(h, FALSE), TRUE))
            ELSE EnableSixAxis(IF "pedQ" \notin fm /\ grv THEN EnableLPQ(h, TRUE) ELSE h, FALSE)
        timeout(h) == WriteBatchTimeout(h, ms)
    IN  SetDmpState(timeout(sixAxis(indicator(pedQuaternion(standalone(q))))), DmpState(q))
BatchWrites(h, q, mode, ms) ==
    LET outputs(o) == IF h.oldBatch # mode \/ mode
                        THEN BatchOutputs([o EXCEPT !.oldBatch = mode], mode, ms) ELSE o
        rates(o) == IF mode THEN SetBatchRates(o) ELSE ResetRates(o)
        interrupt(o) == [Put(o, [eventInt |-> ~DataInterrupt(q)]) EXCEPT !.dataInt = DataInterrupt(q)]
        master(o) == IF h.enabled # {} \/ o.features # {} THEN MasterEnable(o, TRUE) ELSE o
    IN  master(interrupt(rates(outputs(MasterEnable(q, FALSE)))))
BatchCalls(h, what, p, t) ==
    LET calls(q, mode, ms) ==
            (IF Differs(h, q, mode, ms) \/ Uncomputed(q, mode) THEN {BatchWrites(h, q, mode, ms)} ELSE {})
            \cup (IF Differs(h, q, mode, ms) THEN {} ELSE {q})
        asked(q) == LET mode == BatchMode(h, q.batch) IN calls(q, mode, BatchTimeout(q, mode))
    IN  asked(Asked(h, what, p, t))
-----------------------------------------------------------------------------
Batchable == Hardware \cup {GRV, "StepDetector"}
Enable(s, en) ==
    hal' = IF s \in DmpSensors THEN EnableDmpSensor(hal, s, en) ELSE EnableHandler(hal, s, en)
Delay(s, p) == hal' = SetDelay(hal, s, p)
Batch(s, p, t) == (t > 0 => s \in Batchable) /\ hal' \in BatchCalls(hal, s, p, t)
(* readDmpSignificantMotionEvents: an event turns its sensor off. *)
SignificantMotion ==
    /\ "SignificantMotion" \in hal.dmpSensors /\ hal.sys.smd /\ hal.sys.master
    /\ hal' = EnableSmd(Drop([hal EXCEPT !.dmpSensors = @ \ {"SignificantMotion"}], "smd"), FALSE)
(* readEvents on a new bias: a gyro bias goes to the DMP at once, one of the
   accel when accel data is next turned off. *)
NewAccelBias == "accel" \in hal.mask /\ hal' = [hal EXCEPT !.accelBias = TRUE]
ConfigSteps(used) ==
    \/ \E s \in used : \/ \E en \in BOOLEAN : Enable(s, en)
                       \/ \E p \in Periods : Delay(s, p) \/ \E t \in Timeouts : Batch(s, p, t)
    \/ SignificantMotion \/ NewAccelBias
ConfigSpec == HalInit /\ [][ConfigSteps(Sensors)]_hal
-----------------------------------------------------------------------------
(* The chip's master switch, which nearly every call turns off and on again,
   ends up on exactly if a sensor is enabled or a feature of the DMP is active
   (enableSensors, setBatch, batch, the DMP sensors, update_delay). *)
MasterFollowsUse == hal.sys.master <=> hal.enabled \cup hal.features # {}

(* The DMP runs as long as one of its features is active, and the driver's
   switches of the quaternions, the step outputs, the pedometer and significant
   motion are what mFeatureActiveMask says (every path that adds or drops a
   feature has its own write). *)
DmpRunsForFeatures ==
    LET has(f) == f \in hal.features
    IN  /\ hal.sys.dmp = (hal.features # {})
        /\ hal.sys.threeQ = has("lpq") /\ hal.sys.sixQ = has("six") /\ hal.sys.pedQ = has("pedQ")
        /\ hal.sys.stepDetector = has("standalone") /\ hal.sys.smd = has("smd")
        /\ hal.sys.pedometer = (has("pedometer") \/ has("pedometerStep"))

(* Of the three quaternions at most one is sent, and one is if a sensor that
   the fusion computes from it is enabled, whatever is batched with it or
   leaves the batch (enableSensors, setBatch, batch). *)
OneQuaternion ==
    LET sent == {q \in {"threeQ", "sixQ", "pedQ"} : hal.sys[q]}
    IN  /\ Cardinality(sent) <= 1
        /\ hal.enabled \cap (NineAxes \cup {GRV}) # {} => sent # {}

(* The driver batches only when every enabled sensor and the step detector have
   asked for it, so no sensor is starved by another's batch, and stops when
   the HAL does (mOldBatchEnabledMask and batchmode_timeout).  For timeouts of
   a millisecond and more. *)
BatchHoldsNobodyBack ==
    IF hal.oldBatch
      THEN /\ hal.sys.timeout > 0 /\ hal.enabled \subseteq hal.batch
           /\ "StepDetector" \in hal.dmpSensors => "StepDetector" \in hal.batch
    ELSE hal.sys.timeout = 0

(* While the step detector is on, its steps have a way out: the pedometer's
   interrupt, the bit in the packets or packets of their own (setBatch moves
   them from one to the other and back). *)
StepsReported ==
    "StepDetector" \in hal.dmpSensors =>
        hal.sys.pedometer /\ (hal.sys.pedometerInt \/ hal.sys.stepIndicator \/ hal.sys.stepDetector)

(* The accel, compass and pressure sensor that an enabled sensor needs are on,
   and with nothing enabled and no feature active they and the gyro are off
   (the mask of enable, and the functions that turn accel and gyro off behind
   a quaternion or a step output).  The gyro itself can be left off. *)
SensorsPowered ==
    LET needed(set) == hal.enabled \cap set # {}
    IN  /\ needed(NineAxes \cup {GRV, GMRV, "Accelerometer"}) => hal.sys.accel
        /\ needed(NineAxes \cup {GMRV} \cup Compasses) => hal.sys.compass
        /\ hal.sys.pressure = needed({"Pressure"})
        /\ hal.enabled = {} => ~hal.sys.compass
        /\ hal.enabled \cup hal.features = {} => ~hal.sys.accel /\ ~hal.sys.gyro

(* While a sensor is enabled the driver interrupts for its samples and not only
   for events (dmp_event_int_on). *)
InterruptPerSample == hal.enabled # {} => ~hal.sys.eventInt

(* A bias the accel learned is not left behind when the last sensor is turned
   off: the DMP has it (mAccelBiasAvailable). *)
BiasReachesDmp == hal.enabled = {} => ~hal.accelBias

(* The features of the DMP work: it runs for them, and the steps they report
   have a way out. *)
FeaturesWork == DmpRunsForFeatures /\ StepsReported

(* The sensors deliver: those needed have power, and interrupt for samples. *)
SensorsDeliver == SensorsPowered /\ InterruptPerSample
=============================================================================
