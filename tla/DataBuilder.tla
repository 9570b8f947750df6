---------------------------- MODULE DataBuilder ----------------------------
(***************************************************************************)
(* The data builder of mllite (data_builder.c) with what its samples reach *)
(* in the same call: the message layer, the results holder's stores and    *)
(* the HAL outputs (hal_outputs.c), which inv_execute_on_data runs.        *)
(* A vector is one number, a calibration subtracts the bias; a status word *)
(* is the set of its bits.                                                 *)
(***************************************************************************)
EXTENDS MplTables, Integers

CONSTANTS Rates,         \* sample intervals
          Times,         \* time stamps of samples
          Raws, Biases,  \* raw readings and biases
          MaxMotion      \* bound: the no-motion counter stops here
ASSUME BuilderAssumption ==
    /\ Rates \subseteq Nat \ {0} /\ Times \subseteq Nat /\ 0 \in Biases
    /\ Raws \subseteq Int /\ Biases \subseteq Int /\ MaxMotion \in Nat

Triads == {"gyro", "accel", "compass"}
Sensors == Triads \cup {"quat", "temp", "pressure"}
QuatModes == {"3axis", "6axis", "9axis"}

VARIABLES status,        \* the status bits of each sensor
          stamp, prev,   \* timestamp and timestamp_prev
          rate,          \* sample_rate_us
          accuracy,      \* 0 to 3 for how well a triad is known
          raw, cal,      \* the last reading and its calibrated value
          mode,          \* the sensors with new data at the last execute
          save,          \* save, save_mpl and save_accel_mpl
          disturbed,     \* compass_disturbance
          softIron,      \* soft_iron.enable
          messages,      \* message layer, level 0
          hal,           \* hal_out: new-data flags, nine-axis flag, time stamp
          filter,        \* memory of the compass low pass filter: no samples,
                         \* samples since the compass came on, or also older ones
          rh             \* results holder: quaternion, motion, field states

sampleVars == <<status, stamp, prev, raw, cal, accuracy>>
outVars == <<mode, hal, filter>>
confVars == <<rate, disturbed, softIron>>
builderVars == <<sampleVars, outVars, confVars, save, messages, rh>>

On(s) == "on" \in status[s]
IsNew(s) == "new" \in status[s]
Calibrated(r, b) == r - b
BiasOf(s) == CASE s = "gyro" -> save.gyroBias
               [] s = "accel" -> save.accelBias
               [] s = "compass" -> save.compassBias
(* inv_set_message: clear, then set. *)
Message(set, clear) == messages' = (messages \ clear) \cup {set}
(* inv_set_compass_soft_iron_input_data: the transformed or the plain reading. *)
AfterSoftIron(v) == IF softIron THEN 0 - v ELSE v

(* inv_init_data_builder, inv_init_results_holder, inv_init_hal_outputs and
   the last step of inv_init_mpl, which throws the messages away. *)
EmptySave == [compassBias |-> 0, gyroBias |-> 0, accelBias |-> 0, factoryGyro |-> 0,
              factoryAccel |-> 0, tcSet |-> FALSE, acc |-> [s \in Triads |-> 0]]
SensorsZero == [status |-> [s \in Sensors |-> {}], stamp |-> [s \in Sensors |-> 0],
                raw |-> [s \in Triads |-> 0]]
HalZero == [new |-> {}, nine |-> FALSE, navStamp |-> 0, accuracyMag |-> 0]
ResultsZero == [quat |-> "identity", motion |-> "MOTION", still |-> 0,
                userField |-> "NOT_SET", mplField |-> "NOT_SET"]
BuilderInit ==
    LET z == SensorsZero
    IN  /\ status = z.status /\ stamp = z.stamp /\ prev = z.stamp
        /\ raw = z.raw /\ cal = z.raw /\ accuracy = z.raw
        /\ rate = z.stamp /\ mode = {} /\ save = EmptySave
        /\ disturbed = FALSE /\ softIron = FALSE /\ messages = {}
        /\ hal = HalZero /\ filter = "empty" /\ rh = ResultsZero
(* The process ended; the next one starts from these values. *)
BuilderEnds ==
    LET z == SensorsZero
    IN  /\ status' = z.status /\ stamp' = z.stamp /\ prev' = z.stamp
        /\ raw' = z.raw /\ cal' = z.raw /\ accuracy' = z.raw
        /\ rate' = z.stamp /\ mode' = {} /\ save' = EmptySave
        /\ disturbed' = FALSE /\ softIron' = FALSE /\ messages' = {}
        /\ hal' = HalZero /\ filter' = "empty" /\ rh' = ResultsZero
-----------------------------------------------------------------------------
(* ------------------------------- samples ------------------------------- *)
Stamped(s, t) == /\ prev' = [prev EXCEPT ![s] = stamp[s]]
                 /\ stamp' = [stamp EXCEPT ![s] = t]
Flagged(s, bits) == status' = [status EXCEPT ![s] = @ \cup {"new", "on"} \cup bits]

(* inv_build_gyro, and inv_build_accel and inv_build_compass for a raw
   reading: calibrated here with the bias in force. *)
BuildRaw(s, v, t) ==
    LET w == IF s = "compass" THEN AfterSoftIron(v) ELSE v
    IN  /\ Stamped(s, t) /\ Flagged(s, {"raw", "calibrated"})
        /\ raw' = [raw EXCEPT ![s] = w]
        /\ cal' = [cal EXCEPT ![s] = Calibrated(w, BiasOf(s))]
        /\ UNCHANGED <<accuracy, save, messages, rh>>
(* inv_build_compass (inv_build_accel, too, but the HAL gives it raw readings
   only) for a reading calibrated outside, which brings its accuracy. *)
BuildUnsaved(s, v, a, t) ==
    /\ Stamped(s, t) /\ Flagged(s, {"calibrated"})
    /\ cal' = [cal EXCEPT ![s] = v]
    /\ accuracy' = [accuracy EXCEPT ![s] = a]
    /\ UNCHANGED <<raw, save, messages, rh>>
BuildCalibrated(s, v, a, t) ==
    /\ Stamped(s, t) /\ Flagged(s, {"calibrated"})
    /\ cal' = [cal EXCEPT ![s] = v]
    /\ accuracy' = [accuracy EXCEPT ![s] = a]
    /\ save' = [save EXCEPT !.acc[s] = a]
    /\ UNCHANGED <<raw, messages, rh>>
BuildTemp(t) == /\ Stamped("temp", t) /\ Flagged("temp", {"raw"})
                /\ UNCHANGED <<raw, cal, accuracy, save, messages, rh>>
(* inv_build_quat: mode bits are added, never taken away; the results
   holder's quaternion is stored for six and nine axes. *)
BuildQuat(modes, threeElements, t) ==
    /\ Stamped("quat", t)
    /\ Flagged("quat", {"raw"} \cup modes \cup (IF threeElements THEN {"3element"} ELSE {}))
    /\ rh' = IF status'["quat"] \cap {"6axis", "9axis"} # {}
             THEN [rh EXCEPT !.quat = IF threeElements THEN "3 elements" ELSE "4 elements"]
             ELSE rh
    /\ UNCHANGED <<raw, cal, accuracy, save, messages>>
(* inv_build_pressure: no data, no time stamp, only the flag. *)
BuildPressure == /\ status' = [status EXCEPT !["pressure"] = @ \cup {"new"}]
                 /\ UNCHANGED <<stamp, prev, raw, cal, accuracy, save, messages, rh>>
LeftContiguous(s) == /\ status' = [status EXCEPT ![s] = @ \ {"on", "new"}]
                     /\ filter' = IF s = "compass" /\ filter = "current" THEN "old" ELSE filter
                     /\ UNCHANGED <<stamp, prev, raw, cal, accuracy, save, messages, rh, mode, hal>>
(* inv_gyro_was_turned_off and its four siblings *)
WasTurnedOff(s) == /\ status' = [status EXCEPT ![s] = {}]
                   /\ filter' = IF s = "compass" /\ filter = "current" THEN "old" ELSE filter
                   /\ UNCHANGED <<stamp, prev, raw, cal, accuracy, save, messages, rh, mode, hal>>
Build == \/ \E s \in Triads, v \in Raws, t \in Times : t >= stamp[s] /\ BuildRaw(s, v, t)
         \/ \E v \in Raws, a \in {0, 3}, t \in Times :
                t >= stamp["compass"] /\ BuildCalibrated("compass", v, a, t)
         \/ \E m \in QuatModes, three \in BOOLEAN, t \in Times :
                t >= stamp["quat"] /\ BuildQuat({m}, three, t)
         \/ \E t \in Times : t >= stamp["temp"] /\ BuildTemp(t)
         \/ BuildPressure
(* ------------------------------- execute ------------------------------- *)
(* inv_get_last_timestamp *)
LastStamp == LET on == {stamp[s] : s \in {s \in Sensors \ {"pressure"} : On(s)}} \cup {0}
             IN  CHOOSE t \in on : \A u \in on : u <= t
(* The sensor whose samples make the nine-axis flag: the fastest that is on,
   gyro first, quaternion last (a second or slower counts as not chosen). *)
Slowest == 1000
Fastest ==
    LET order == <<"gyro", "accel", "compass", "quat">>
        faster(acc, s) == IF On(s) /\ (s = "gyro" \/ acc.sr > rate[s])
                          THEN [sr |-> rate[s], use |-> s] ELSE acc
        pick == FoldLeft(faster, [sr |-> Slowest, use |-> "gyro"], order).use
        needed == IF On("quat") THEN {"accel", "compass"} ELSE Triads
    IN  IF \A s \in needed : On(s) THEN pick ELSE "none"
(* inv_generate_hal_outputs.  inv_get_quaternion_set's time stamp stands
   unless a sensor was picked; the filter starts over when the compass is
   not contiguous, and takes in raw readings. *)
HalOutputs ==
    LET fresh == {s \in Triads \cup {"quat"} : IsNew(s) /\ prev[s] # stamp[s]}
        starts == IsNew("compass") /\ "contiguous" \notin status["compass"]
        takesIn == IsNew("compass") /\ "raw" \in status["compass"]
    IN  /\ hal' = [new |-> fresh,
                   nine |-> Fastest # "none" /\ IsNew(Fastest),
                   navStamp |-> IF Fastest = "none" THEN LastStamp ELSE stamp[Fastest],
                   accuracyMag |-> IF disturbed THEN 0 ELSE accuracy["compass"]]
        /\ filter' = IF starts THEN "current"
                     ELSE IF takesIn /\ filter = "empty" THEN "current"
                     ELSE filter
(* inv_execute_on_data: the mode, the callbacks that want it (those of the
   closed library set biases, see below), then inv_set_contiguous. *)
Execute ==
    LET m == {s \in Sensors : IsNew(s)}
    IN  /\ mode' = m
        /\ IF "hal" \in ToSet(dataCbs) /\ Required["hal"] \cap m # {}
           THEN HalOutputs ELSE UNCHANGED <<hal, filter>>
        /\ status' = [s \in Sensors |->
                        (status[s] \ {"new"}) \cup
                        IF IsNew(s) /\ s # "pressure" THEN {"contiguous"} ELSE {}]
        /\ UNCHANGED <<stamp, prev, raw, cal, accuracy, save, messages, rh>>
(* ------------------- time stamps of the fused outputs ------------------ *)
PickFirstNegative(td1, td2) ==
    IF td1 >= 0 THEN (IF td2 >= 0 /\ td1 > td2 THEN 1 ELSE 0)
    ELSE IF td2 >= 0 \/ td1 >= td2 THEN 1 ELSE 0
(* inv_pick_best_time_difference: 0 or 1. *)
PickBest(td1, td2) ==
    IF td1 >= 0 THEN (IF td2 >= 0 /\ td1 > td2 THEN 1 ELSE 0)
    ELSE IF td2 >= 0 THEN 1
    ELSE IF td1 >= td2 THEN 0 ELSE 1
(* inv_raw_sensor_timestamp: the sensor of each number, and whether it has a
   new sample. *)
RawSensor == <<"quat", "gyro", "accel", "compass">>
RawStamp(n) == [sensor |-> RawSensor[n + 1],
                new |-> RawSensor[n + 1] \in mode /\ prev[RawSensor[n + 1]] # stamp[RawSensor[n + 1]]]
NoStamp == [sensor |-> "none", new |-> FALSE]
QuatIs(m) == {m, "on"} \subseteq status["quat"]
BestOfThree(a, b, c) == LET i == PickBest(a, b)
                        IN  IF PickBest(IF i = 0 THEN a ELSE b, c) = 1 THEN 2 ELSE i
NineAxisUnchecked(r) ==
    LET td(s) == r - rate[s]
        three(first) == BestOfThree(td(first), td("compass"), td("accel"))
    IN  IF QuatIs("9axis") THEN RawStamp(0)
        ELSE IF ~On("compass") THEN NoStamp
        ELSE IF QuatIs("6axis") THEN RawStamp(3 * PickBest(td("quat"), td("compass")))
        ELSE RawStamp(three("gyro") + 1)
(* inv_get_9_axis_timestamp *)
NineAxisStamp(r) ==
    LET td(s) == r - rate[s]
        three(first) == BestOfThree(td(first), td("compass"), td("accel"))
    IN  IF QuatIs("9axis") THEN RawStamp(0)
        ELSE IF ~On("compass") THEN NoStamp
        ELSE IF QuatIs("6axis") THEN RawStamp(3 * PickBest(td("quat"), td("compass")))
        ELSE IF ~On("accel") THEN NoStamp
        ELSE IF QuatIs("3axis") THEN RawStamp(IF three("quat") = 0 THEN 0 ELSE three("quat") + 1)
        ELSE IF ~On("gyro") THEN NoStamp
        ELSE RawStamp(three("gyro") + 1)
(* inv_get_6_axis_compass_accel_timestamp *)
GeomagStamp(r) ==
    IF ~On("compass") \/ ~On("accel") THEN NoStamp
    ELSE RawStamp(PickBest(r - rate["accel"], r - rate["compass"]) + 2)
(* inv_get_6_axis_gyro_accel_timestamp *)
SixAxisStamp(r) ==
    IF QuatIs("6axis") THEN RawStamp(0)
    ELSE IF ~On("accel") THEN NoStamp
    ELSE IF QuatIs("3axis") THEN RawStamp(PickBest(r - rate["quat"], r - rate["accel"]) * 2)
    ELSE IF ~On("gyro") THEN NoStamp
    ELSE RawStamp(PickBest(r - rate["gyro"], r - rate["accel"]) * 2 + 1)
(* ---------------------------- configuration ---------------------------- *)
(* inv_set_..._sample_rate: the interval (the bandwidth derived from it is
   not modelled). *)
SetRate(s, r) == /\ rate' = [rate EXCEPT ![s] = r]
                 /\ UNCHANGED <<sampleVars, outVars, disturbed, softIron, save, messages, rh>>
SetDisturbance(d) == /\ disturbed' = d
                     /\ UNCHANGED <<sampleVars, outVars, rate, softIron, save, messages, rh>>
(* inv_enable_..., inv_disable_compass_soft_iron_matrix *)
SetSoftIron(e) == /\ softIron' = e
                  /\ UNCHANGED <<sampleVars, outVars, rate, disturbed, save, messages, rh>>
(* ------------------------ biases and accuracies ------------------------ *)
Uncalibrated(s, b) == UNCHANGED <<cal, status>>
Recalibrated(s, b) == /\ cal' = [cal EXCEPT ![s] = Calibrated(raw[s], b)]
                      /\ status' = [status EXCEPT ![s] = @ \cup {"calibrated"}]
Known(s, a, sv) == /\ accuracy' = [accuracy EXCEPT ![s] = a]
                   /\ save' = [sv EXCEPT !.acc[s] = a]
sampleRest == <<stamp, prev, raw, outVars, confVars, rh>>
(* inv_set_compass_bias: the reading is calibrated again if the bias changed. *)
SetCompassBias(b, a) ==
    /\ IF b # save.compassBias THEN Recalibrated("compass", b) ELSE UNCHANGED <<cal, status>>
    /\ Known("compass", a, [save EXCEPT !.compassBias = b])
    /\ Message("NEW_CB", {"NEW_CB"})
    /\ UNCHANGED sampleRest
(* inv_set_mpl_gyro_bias: likewise, and tells the temperature compensation. *)
SetGyroBias(b, a) ==
    /\ IF b # save.gyroBias THEN Recalibrated("gyro", b) ELSE UNCHANGED <<cal, status>>
    /\ Known("gyro", a, [save EXCEPT !.gyroBias = b, !.tcSet = TRUE])
    /\ Message("NEW_GB", {"NEW_GB"})
    /\ UNCHANGED sampleRest
(* inv_set_accel_bias_mask with a bias, and inv_set_accel_accuracy. *)
SetAccelBias(b, a) ==
    /\ Recalibrated("accel", b) \/ (b = save.accelBias /\ UNCHANGED <<cal, status>>)
    /\ Known("accel", a, [save EXCEPT !.accelBias = b])
    /\ Message("NEW_AB", {"NEW_AB"})
    /\ UNCHANGED sampleRest
(* inv_set_gyro_bias, inv_set_accel_bias: the factory biases. *)
SetFactoryBias(field, msg, b) ==
    /\ save' = [save EXCEPT ![field] = b]
    /\ Message(msg, {msg})
    /\ UNCHANGED <<sampleVars, outVars, confVars, rh>>
(* inv_get_gyro_bias_tc_set: the flag is cleared by reading it. *)
GetTcSet == /\ save' = [save EXCEPT !.tcSet = FALSE]
            /\ UNCHANGED <<sampleVars, outVars, confVars, messages, rh>>
(* inv_get_message_level_0 with clear set *)
GetMessages == messages' = {} /\ UNCHANGED <<sampleVars, outVars, confVars, save, rh>>
SetBias == \E b \in Biases, a \in {0, 3} :
              \/ SetCompassBias(b, a) \/ SetGyroBias(b, a) \/ SetAccelBias(b, a)
              \/ a = 0 /\ SetFactoryBias("factoryGyro", "NEW_FGB", b)
              \/ a = 0 /\ SetFactoryBias("factoryAccel", "NEW_FAB", b)
(* ---------------------------- results holder --------------------------- *)
resultsRest == <<sampleVars, outVars, confVars, save>>
(* inv_set_motion_state: a change is a message that replaces the other one;
   the counter counts repeated no-motion reports. *)
SetMotion(m) ==
    /\ IF m = rh.motion
       THEN /\ rh' = [rh EXCEPT !.still = IF m # "NO_MOTION" THEN 0
                                          ELSE IF @ < MaxMotion THEN @ + 1 ELSE @]
            /\ UNCHANGED messages
       ELSE /\ rh' = [rh EXCEPT !.motion = m, !.still = 0]
            /\ Message(m, {"MOTION", "NO_MOTION"})
    /\ UNCHANGED resultsRest
(* inv_set_earth_magnetic_local_field_parameter, inv_set_local_magnetic_field *)
SetUserField == /\ rh' = [rh EXCEPT !.userField = "SET_BY_USER"]
                /\ UNCHANGED <<resultsRest, messages>>
(* inv_set_mpl_mag_field_status, called from outside the results holder *)
SetMplFieldStatus(f) == /\ rh' = [rh EXCEPT !.mplField = f]
                        /\ UNCHANGED <<resultsRest, messages>>
(* inv_set_mpl_magnetic_local_field_parameter: the state after it, close
   telling whether the intensities differ by less than 5 uT. *)
MplFieldAfter(user, mpl, close) ==
    IF user = "NOT_SET" /\ mpl = "NOT_SET" THEN "SET_BY_MPL"
    ELSE IF user = "SET_BY_USER" /\ mpl \in {"NO_MATCH", "MATCH"}
         THEN (IF close THEN "MATCH" ELSE "NO_MATCH")
    ELSE mpl
SetMplField(close) == /\ rh' = [rh EXCEPT !.mplField = MplFieldAfter(rh.userField, @, close)]
                      /\ UNCHANGED <<resultsRest, messages>>
SetResults == \/ \E m \in {"MOTION", "NO_MOTION"} : SetMotion(m)
              \/ SetUserField
              \/ \E f \in {"NO_MATCH", "MATCH"} : SetMplFieldStatus(f)
              \/ \E close \in BOOLEAN : SetMplField(close)
-----------------------------------------------------------------------------
(* Groups of actions; the callback tables change in TablesNext only. *)
Sample == Build /\ UNCHANGED <<outVars, confVars, tableVars>>
TurnOff == (\E s \in Sensors \ {"pressure"} : WasTurnedOff(s)) /\ UNCHANGED <<confVars, tableVars>>
Run == Execute /\ UNCHANGED <<confVars, tableVars>>
Configure == /\ \/ \E s \in Triads \cup {"quat"}, r \in Rates : SetRate(s, r)
                \/ \E d \in BOOLEAN : SetDisturbance(d)
                \/ \E e \in BOOLEAN : SetSoftIron(e)
             /\ UNCHANGED tableVars
Calibrate == (SetBias \/ GetTcSet \/ GetMessages) /\ UNCHANGED tableVars
Results == (SetResults \/ GetMessages) /\ UNCHANGED tableVars
Tables == TablesNext /\ UNCHANGED builderVars

BuilderNext == Sample \/ TurnOff \/ Run \/ Configure \/ Calibrate \/ Results \/ Tables
BuilderSpec == TablesInit /\ BuilderInit /\ [][BuilderNext]_<<tableVars, builderVars>>
-----------------------------------------------------------------------------
(* A compass that was off starts a new field: while its samples count as
   contiguous, the low pass filter of the HAL outputs remembers none from
   before (the turned-off calls, inv_set_contiguous, inv_generate_hal_outputs). *)
NoOldField == ~(filter = "old" /\ "contiguous" \in status["compass"])

(* What would be saved is what is in use: the accuracies in the calibration
   are those of the sensors, through every way they are set. *)
SavedAccuracyIsLive == save.acc = accuracy

(* A new bias applies to the reading already taken: what the outputs hand
   out is always the last reading less the bias in force, whichever of the
   two came last (inv_set_mpl_gyro_bias, inv_set_accel_bias_mask,
   inv_build_gyro, inv_build_accel). *)
GyroAccelFollowBias == \A s \in {"gyro", "accel"} : On(s) => cal[s] = Calibrated(raw[s], BiasOf(s))

(* The sensor a nine-axis output is tied to has the interval nearest to the
   one wanted among those no longer than it, or the shortest if all are
   longer, the first on a tie (inv_pick_best_time_difference's two rounds). *)
Wanted == UNION {{r - 1, r, r + 1} : r \in Rates}
NineAxisPicksBest ==
    \A r \in Wanted :
        LET td == <<r - rate["gyro"], r - rate["compass"], r - rate["accel"]>>
            better(i, j) == \/ td[i] >= 0 /\ (td[j] < 0 \/ td[i] < td[j])
                            \/ td[i] < 0 /\ td[j] < 0 /\ td[i] > td[j]
            best == BestOfThree(td[1], td[2], td[3]) + 1
        IN  \A j \in 1..3 : ~better(j, best) /\ (j < best => better(best, j))

(* A nine-axis or geomagnetic output is tied to a sensor that is on: one tied
   to a sensor that is off would never be reported as new
   (inv_get_9_axis_timestamp, inv_get_6_axis_compass_accel_timestamp). *)
TiedToLiveSensor ==
    \A r \in Wanted : \A s \in {NineAxisStamp(r).sensor, GeomagStamp(r).sensor} : s # "none" => On(s)

(* "1 = gyro, 3=accel": an output that is made from gyro and accel is tied to
   one of these, or to the DMP's quaternion in their place
   (inv_get_6_axis_gyro_accel_timestamp). *)
SixAxisTiedToItsSensors ==
    \A r \in Wanted : SixAxisStamp(r).sensor \in {"quat", "gyro", "accel", "none"}

(* The calibration that is saved, the one in use and the readings handed out
   agree, through every way a bias or an accuracy is set. *)
CalibrationAgrees == SavedAccuracyIsLive /\ GyroAccelFollowBias

(* The nine-axis output is tied to the best of its sensors, and the outputs of
   one sensor or of nine axes to one that is on.  What a six-axis output is
   tied to is SixAxisTiedToItsSensors. *)
TiedToBestLiveSensor == NineAxisPicksBest /\ TiedToLiveSensor
=============================================================================
