------------------------------- MODULE Slaves -------------------------------
(***************************************************************************)
(* The compass and the pressure sensor on the MPU's secondary bus          *)
(* (inv_slave_compass.c, inv_slave_pressure.c, and set_inv_enable and      *)
(* inv_set_master_delay of inv_mpu_ring.c): the MPU reads them by itself   *)
(* through four slave channels, which fill EXT_SENS_DATA one after the     *)
(* other; to set a sensor up or test it the host takes the bus over        *)
(* (bypass).  A register write may fail, and ends the operation there      *)
(* unless the code goes on.                                                *)
(***************************************************************************)
EXTENDS Integers, Sequences, FiniteSetsExt

CONSTANTS Compasses,    \* the compasses that may be fitted, of CompassIds
          FifoRates,    \* chip_config.fifo_rate when the DMP is off
          SlaveRates    \* the higher output rate of the sensors that run, at most 200 Hz

Akm == {"ak89xx", "ak09911", "ak09912"}
CompassIds == Akm \cup {"mlx90399", "none"}
ASSUME SlavesAssumption == /\ Compasses \subseteq CompassIds
                           /\ FifoRates \subseteq 4..1000 /\ SlaveRates \subseteq 1..200

VARIABLES compass,      \* plat_data.sec_slave_id
          barometer,    \* a BMP280 is fitted
          phase,        \* "probe", "compass" (set up), "ready" or "failed"
          on,           \* sensor[SENSOR_COMPASS].on and sensor[SENSOR_PRESSURE].on
          dmpOn, fifoRate, slaveRate, running,      \* chip_config
          slv,          \* the slave channels: device, first register, bytes (0: off)
          delay,        \* I2C_MST_DELAY_CTRL and I2C_SLV4_CTRL
          bypass, astc, \* BIT_BYPASS_EN; the ak compass's self test field
          writeFailed,  \* a register write failed
          unrestored    \* the last self test could not restore the registers

slaveSettings == <<on, dmpOn, fifoRate, slaveRate>>
slaveVars == <<compass, barometer, phase, slaveSettings, running, slv, delay, bypass, astc, writeFailed, unrestored>>

Channels == 0..3
Idle == [dev |-> "none", reg |-> "none", len |-> 0]
SlavesTypeOK ==
    /\ compass \in Compasses /\ barometer \in BOOLEAN
    /\ phase \in {"probe", "compass", "ready", "failed"}
    /\ on \in [compass : BOOLEAN, pressure : BOOLEAN]
    /\ dmpOn \in BOOLEAN /\ fifoRate \in 4..1000 /\ slaveRate \in 1..200 /\ running \in BOOLEAN
    /\ slv \in [Channels -> [dev : {"none", "compassR", "compassW", "auxR", "auxW"},
                             reg : {"none", "mode", "data", "dmp", "calib", "pressure", "before"}, len : 0..10]]
    /\ delay \in [slaves : SUBSET Channels, d : 0..31]
    /\ bypass \in BOOLEAN /\ astc \in BOOLEAN /\ writeFailed \in BOOLEAN /\ unrestored \in BOOLEAN

SlavesInit ==
    /\ compass \in Compasses /\ barometer \in BOOLEAN
    /\ phase = "probe" /\ on = [compass |-> FALSE, pressure |-> FALSE]
    /\ dmpOn = FALSE /\ fifoRate \in FifoRates /\ slaveRate \in SlaveRates /\ running = FALSE
    /\ slv = [k \in Channels |-> Idle] /\ delay = [slaves |-> {}, d |-> 0]
    /\ bypass = FALSE /\ astc = FALSE /\ writeFailed = FALSE /\ unrestored = FALSE

-----------------------------------------------------------------------------
(* A sequence of writes <<channel, field, value>>, the first n of which take
   effect: the last one to field f of channel k decides. *)
Written(ws, n, k, f) ==
    LET hits == { i \in 1..n : ws[i][1] = k /\ ws[i][2] = f }
    IN  IF hits = {} THEN slv[k][f] ELSE ws[Max(hits)][3]
After(ws, n) == [k \in Channels |-> [dev |-> Written(ws, n, k, "dev"), reg |-> Written(ws, n, k, "reg"),
                                     len |-> Written(ws, n, k, "len")]]
When(cond, ws) == IF cond THEN ws ELSE <<>>

(* What the compass's setup leaves in the channels: an ak is read by
   channel 0 and triggered by channel 1; an mlx takes all four. *)
SetupCompassWrites ==
    IF compass \in Akm THEN << <<1, "dev", "compassW">>, <<1, "reg", "mode">> >>
    ELSE IF compass = "mlx90399" THEN << <<0, "dev", "compassW">>, <<1, "dev", "compassR">>,
                                         <<2, "dev", "compassW">>, <<3, "dev", "compassR">> >>
    ELSE <<>>
SetupPressureWrites == << <<3, "dev", "auxW">>, <<3, "reg", "mode">> >>

(* A setup talks to the sensor in bypass mode first; any failure ends the
   probe, with the bus as it is. *)
Setup(ws, next) ==
    \/ bypass' = FALSE /\ slv' = After(ws, Len(ws)) /\ phase' = next /\ UNCHANGED writeFailed
    \/ /\ writeFailed' = TRUE /\ phase' = "failed"
       /\ \/ bypass' = TRUE /\ UNCHANGED slv
          \/ \E n \in 0..(Len(ws) - 1) : bypass' = FALSE /\ slv' = After(ws, n)
SetupCompass == /\ phase = "probe"
                /\ IF compass = "none" THEN phase' = "compass" /\ UNCHANGED <<slv, bypass, writeFailed>>
                                       ELSE Setup(SetupCompassWrites, "compass")
                /\ UNCHANGED <<compass, barometer, slaveSettings, running, delay, astc, unrestored>>
SetupPressure == /\ phase = "compass"
                 /\ IF ~barometer THEN phase' = "ready" /\ UNCHANGED <<slv, bypass, writeFailed>>
                                  ELSE Setup(SetupPressureWrites, "ready")
                 /\ UNCHANGED <<compass, barometer, slaveSettings, running, delay, astc, unrestored>>

(* compass_enable, pressure_enable, dmp_on and the rates, refused while
   chip_config.enable is set; the DMP runs at 200 Hz. *)
Set == /\ phase = "ready" /\ ~running
       /\ on' \in [compass : IF compass = "none" THEN {FALSE} ELSE BOOLEAN,
                   pressure : IF barometer THEN BOOLEAN ELSE {FALSE}]
       /\ dmpOn' \in BOOLEAN
       /\ IF dmpOn' THEN fifoRate' = 200 ELSE fifoRate' \in FifoRates
       /\ slaveRate' \in SlaveRates
       /\ UNCHANGED <<compass, barometer, phase, running, slv, delay, bypass, astc, writeFailed, unrestored>>

-----------------------------------------------------------------------------
(* inv_resume_akm, inv_suspend_akm *)
ResumeAkm ==
    LET bytes == IF compass \in {"ak09911", "ak09912"} THEN 10 ELSE 9
    IN  << <<0, "dev", "compassR">>, <<0, "reg", IF dmpOn THEN "dmp" ELSE "data">>,
           <<0, "len", IF dmpOn THEN bytes ELSE bytes - 1>>, <<1, "len", 1>> >>
SuspendAkm == << <<0, "len", 0>>, <<1, "len", 0>> >>

(* inv_resume_mlx, inv_suspend_mlx *)
ResumeMlx == << <<0, "len", 1>>, <<1, "len", 9>>, <<2, "len", 1>>, <<3, "len", 1>> >>
SuspendMlx == << <<0, "len", 0>>, <<1, "len", 0>>, <<2, "len", 0>>, <<3, "len", 0>> >>

(* inv_resume_bmp280: the DMP finds the pressure after ten bytes, so a
   shorter compass block is padded with the byte before the pressure, and a
   compass that is off with calibration bytes. *)
PaddedAlways == dmpOn /\ on.compass
Padded == dmpOn /\ on.compass /\ compass # "ak09911"
Faked == dmpOn /\ ~on.compass
ResumeBmp280 ==
    When(Faked, << <<0, "dev", "auxR">>, <<0, "reg", "calib">>, <<0, "len", 10>> >>)
    \o << <<2, "dev", "auxR">>, <<2, "reg", IF Padded THEN "before" ELSE "pressure">>,
          <<2, "len", IF Padded THEN 7 ELSE 6>>, <<3, "len", 1>> >>
SuspendBmp280KeepingFake == << <<2, "len", 0>>, <<3, "len", 0>> >>
SuspendBmp280 == When(Faked, << <<0, "len", 0>> >>) \o << <<2, "len", 0>>, <<3, "len", 0>> >>

Resume == When(on.compass, IF compass \in Akm THEN ResumeAkm ELSE ResumeMlx)
          \o When(on.pressure, ResumeBmp280)
Suspend == When(on.compass, IF compass \in Akm THEN SuspendAkm ELSE SuspendMlx)
           \o When(on.pressure, SuspendBmp280)

(* inv_set_master_delay: the channels in use are read every d + 1 samples,
   as the slower sensor asks (rate_scale, in ms) and, under the DMP, no
   faster than its rate. *)
RateScale == LET c == IF ~on.compass THEN 0 ELSE IF compass = "mlx90399" THEN 50 ELSE 10
                 p == IF on.pressure THEN 35 ELSE 0
             IN  IF c > p THEN c ELSE p
UsedButFake == (IF ~on.compass THEN {} ELSE IF compass = "mlx90399" THEN Channels ELSE {0, 1})
               \cup (IF on.pressure THEN {2, 3} ELSE {})
Used == (IF ~on.compass THEN {} ELSE IF compass = "mlx90399" THEN Channels ELSE {0, 1})
        \cup (IF on.pressure THEN {2, 3} ELSE {}) \cup (IF on.pressure /\ Faked THEN {0} ELSE {})
MasterDelay ==
    LET scaled == (RateScale * fifoRate) \div 1000
        paced == IF dmpOn /\ fifoRate \div slaveRate > scaled THEN fifoRate \div slaveRate ELSE scaled
        d == IF paced > 32 THEN 31 ELSE IF paced > 0 THEN paced - 1 ELSE 0
    IN  [slaves |-> IF d = 0 THEN {} ELSE Used, d |-> d]

(* set_inv_enable(true): a failure on the way leaves what was written. *)
Enable ==
    /\ phase = "ready" /\ ~running
    /\ delay' = IF on.compass \/ on.pressure THEN MasterDelay ELSE delay
    /\ \E n \in 0..Len(Resume), ok \in BOOLEAN :
          /\ ok => n = Len(Resume)
          /\ slv' = After(Resume, n)
          /\ running' = ok /\ writeFailed' = (writeFailed \/ ~ok)
    /\ UNCHANGED <<compass, barometer, phase, slaveSettings, bypass, astc, unrestored>>
(* The write that turns the fake read on is not looked at. *)
EnableFakeLost ==
    /\ phase = "ready" /\ ~running /\ on.pressure /\ Faked
    /\ delay' = MasterDelay
    /\ slv' = [After(Resume, Len(Resume)) EXCEPT ![0].len = slv[0].len]
    /\ running' = TRUE /\ writeFailed' = TRUE
    /\ UNCHANGED <<compass, barometer, phase, slaveSettings, bypass, astc, unrestored>>
(* set_inv_enable(false) *)
Disable ==
    /\ running
    /\ \E n \in 0..Len(Suspend), ok \in BOOLEAN :
          /\ ok => n = Len(Suspend)
          /\ slv' = After(Suspend, n)
          /\ running' = ~ok /\ writeFailed' = (writeFailed \/ ~ok)
    /\ UNCHANGED <<compass, barometer, phase, slaveSettings, delay, bypass, astc, unrestored>>

-----------------------------------------------------------------------------
(* inv_check_akm_self_test: every failure after the bus was taken goes
   through AKM_fail, which restores each register whether or not the others
   could be.  Of the steps before it, the second sets the self test field
   (not on the 99xx), and all but bypass may fail. *)
HasAstc == compass = "ak89xx"
SelfTestAkmReturning ==
    \E taken \in BOOLEAN, upto \in 0..7, told \in SUBSET {"astc", "down", "direct"} :
        LET undone == taken /\ upto = 7
        IN  /\ astc' = (HasAstc /\ (astc \/ (taken /\ upto >= 2)) /\ ~(undone /\ "astc" \in told))
            /\ bypass' = (taken /\ ~(undone /\ "direct" \in told))
            /\ unrestored' = (taken /\ told # {"astc", "down", "direct"})
SelfTestAkm ==
    \E taken \in BOOLEAN, upto \in 0..7, told \in SUBSET {"astc", "down", "direct"} :
        /\ astc' = (HasAstc /\ (astc \/ (taken /\ upto >= 2)) /\ ~(taken /\ "astc" \in told))
        /\ bypass' = ((taken /\ "direct" \notin told) \/ (~taken /\ bypass /\ "direct" \notin told))
        /\ unrestored' = IF taken THEN told # {"astc", "down", "direct"} ELSE unrestored

(* inv_check_mlx_self_test: a failure after the bus was taken returns. *)
SelfTestMlx ==
    \E taken \in BOOLEAN, upto \in 0..7 :
        /\ bypass' = (taken /\ upto < 7)
        /\ unrestored' = (taken /\ upto < 7)
        /\ UNCHANGED astc

SelfTest ==
    /\ phase = "ready" /\ ~running
    /\ \/ compass \in Akm /\ SelfTestAkm
       \/ compass = "mlx90399" /\ SelfTestMlx
    /\ UNCHANGED <<compass, barometer, phase, slaveSettings, running, slv, delay, writeFailed>>

SlavesNext == SetupCompass \/ SetupPressure \/ Set \/ Enable \/ EnableFakeLost \/ Disable \/ SelfTest
SlavesSpec == SlavesInit /\ [][SlavesNext]_slaveVars

-----------------------------------------------------------------------------
(* What a channel reads into EXT_SENS_DATA, and where the pressure (channel
   2) begins there. *)
BytesRead(k) == IF slv[k].dev \in {"compassR", "auxR"} THEN slv[k].len ELSE 0
PressureAt == BytesRead(0) + BytesRead(1) + (IF slv[2].reg = "before" THEN 1 ELSE 0)
(* Where the DMP's image, and inv_bmp280_read_data without it, take it. *)
PressureTaken == IF dmpOn THEN 10 ELSE IF ~on.compass THEN 0 ELSE IF compass = "ak09911" THEN 9 ELSE 8

(* While the sensors run and no write has failed, the pressure's first byte
   is where the DMP or inv_bmp280_read_data takes it, whichever compass runs
   beside it and whether or not it is on (not so with an AK09912, for which
   the code has no case, nor with an MLX90399, which uses the barometer's
   channels). *)
PressureInPlace ==
    running /\ on.pressure /\ ~writeFailed /\ compass \notin {"ak09912", "mlx90399"} => PressureAt = PressureTaken

(* While the sensors are disabled and no write has failed no channel runs:
   suspend turns off what resume turned on, the fake read too. *)
SlavesQuiet == ~running /\ ~writeFailed => \A k \in Channels : slv[k].len = 0

(* While they run, every channel in use is delayed if any is, and none is
   accessed twice in the time its sensor needs (rate_scale): the period is
   d + 1 samples, rounded down from it. *)
MasterPacesSlaves ==
    running /\ ~writeFailed /\ (on.compass \/ on.pressure) =>
        /\ delay.d > 0 => { k \in Channels : slv[k].len > 0 } \subseteq delay.slaves
        /\ 2 * 1000 * (delay.d + 1) > RateScale * fifoRate

(* However the self test of an ak compass fails, the bus is given back to
   the MPU and the self test field is off, unless the writes that restore
   them fail themselves (AKM_fail). *)
SelfTestRestores == compass \in Akm /\ phase = "ready" /\ ~unrestored => ~bypass /\ ~astc

(* The secondary bus: each sensor's bytes where they are read, every channel
   paced while they run and off when they do not, the bus given back. *)
ChannelsServeSensors == PressureInPlace /\ MasterPacesSlaves /\ SlavesQuiet /\ SelfTestRestores
=============================================================================
