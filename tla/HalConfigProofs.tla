-------------------------- MODULE HalConfigProofs ---------------------------
(***************************************************************************)
(* Proofs about HalConfig, for any set of sensors, any periods and any     *)
(* batch timeouts of a millisecond or more.                                *)
(***************************************************************************)
EXTENDS HalConfig, FiniteSetTheorems, WellFoundedInduction, TLAPS

-----------------------------------------------------------------------------
(* The record and its fields *)

Fields == {"enabled", "batch", "oldBatch", "features", "mask", "dmpOn", "dmpState", "dataInt",
           "firstBatch", "enableCalled", "dmpSensors", "delays", "batchDelays", "timeouts",
           "timeout", "batchRates", "quatBatch", "rates", "accelBias", "sys"}
Shape(h) == DOMAIN h = Fields /\ DOMAIN h.sys = Files
\* g is h but for some members and files.
SameBut(h, g, fs, as) ==
  /\ Shape(g)
  /\ \A f \in Fields \ {"sys"} : f \notin fs => g[f] = h[f]
  /\ \A a \in Files : a \notin as => g.sys[a] = h.sys[a]

\* What Put writes and leaves alone.
LEMMA PutDoes ==
  ASSUME NEW h, Shape(h), NEW v, DOMAIN v \subseteq Files
  PROVE  SameBut(h, Put(h, v), {}, DOMAIN v) /\ \A a \in DOMAIN v : Put(h, v).sys[a] = v[a]
BY DEF Shape, Put, SameBut, Fields

\* A member is set and nothing else.
LEMMA FieldSet ==
  ASSUME NEW h, Shape(h), NEW f \in Fields \ {"sys"}, NEW x
  PROVE  SameBut(h, [h EXCEPT ![f] = x], {f}, {}) /\ [h EXCEPT ![f] = x][f] = x
BY DEF Shape, SameBut, Fields

\* Two changes in a row.
LEMMA Chain ==
  ASSUME NEW h, NEW g, NEW k, NEW F, NEW G, NEW A, NEW B, SameBut(h, g, F, A), SameBut(g, k, G, B)
  PROVE  SameBut(h, k, F \cup G, A \cup B)
BY DEF SameBut

\* Nothing changes, and a change may be said to be larger.
LEMMA Widen ==
  ASSUME NEW h, NEW g, NEW F, NEW G, NEW A, NEW B, SameBut(h, g, F, A), F \subseteq G, A \subseteq B
  PROVE  SameBut(h, g, G, B)
BY DEF SameBut

\* Doing nothing is within any bounds.
LEMMA Itself ==
  ASSUME NEW h, Shape(h), NEW F, NEW A
  PROVE  SameBut(h, h, F, A)
BY DEF SameBut
-----------------------------------------------------------------------------
(* The writes of one file or two *)

\* The switches of the sensors.
LEMMA GyroDoes ==
  ASSUME NEW h, Shape(h), NEW en
  PROVE  /\ SameBut(h, EnableGyro(h, en), {}, {"gyro", "gyroFifo"})
         /\ EnableGyro(h, en).sys.gyro = en
BY PutDoes DEF EnableGyro, Files, Attributes
\* The accelerometer's switch and its FIFO.
LEMMA AccelDoes ==
  ASSUME NEW h, Shape(h), NEW en
  PROVE  /\ SameBut(h, EnableAccel(h, en), {}, {"accel", "accelFifo"})
         /\ EnableAccel(h, en).sys.accel = en
BY PutDoes DEF EnableAccel, Files, Attributes
\* The compass's switch.
LEMMA CompassDoes ==
  ASSUME NEW h, Shape(h), NEW en
  PROVE  /\ SameBut(h, EnableCompass(h, en), {}, {"compass"})
         /\ EnableCompass(h, en).sys.compass = en
BY PutDoes DEF EnableCompass, Files, Attributes
\* The pressure sensor's switch.
LEMMA PressureDoes ==
  ASSUME NEW h, Shape(h), NEW en
  PROVE  /\ SameBut(h, EnablePressure(h, en), {}, {"pressure"})
         /\ EnablePressure(h, en).sys.pressure = en
BY PutDoes DEF EnablePressure, Files, Attributes
\* The master switch of the chip's buffer.
LEMMA MasterDoes ==
  ASSUME NEW h, Shape(h), NEW en
  PROVE  /\ SameBut(h, MasterEnable(h, en), {}, {"master"})
         /\ MasterEnable(h, en).sys.master = en
BY PutDoes DEF MasterEnable, Files, Attributes

\* The FIFO switches, which nothing here depends on.
LEMMA FifosDo ==
  ASSUME NEW h, Shape(h), NEW x, NEW y
  PROVE  /\ SameBut(h, TurnOffGyroFifo(h), {}, {"gyroFifo"})
         /\ SameBut(h, TurnOffAccelFifo(h), {}, {"accelFifo"})
         /\ SameBut(h, Put(h, [gyroFifo |-> x, accelFifo |-> y]), {}, {"gyroFifo", "accelFifo"})
<1>1. SameBut(h, TurnOffGyroFifo(h), {}, {"gyroFifo"})
  BY PutDoes DEF TurnOffGyroFifo, Files, Attributes
<1>2. SameBut(h, TurnOffAccelFifo(h), {}, {"accelFifo"})
  BY PutDoes DEF TurnOffAccelFifo, Files, Attributes
<1>3. SameBut(h, Put(h, [gyroFifo |-> x, accelFifo |-> y]), {}, {"gyroFifo", "accelFifo"})
  BY PutDoes DEF Files, Attributes
<1> QED  BY <1>1, <1>2, <1>3

\* One file.
LEMMA EventDoes ==
  ASSUME NEW h, Shape(h), NEW x
  PROVE  LET g == Put(h, [eventInt |-> x]) IN SameBut(h, g, {}, {"eventInt"}) /\ g.sys.eventInt = x
BY PutDoes DEF Files, Attributes
\* The interrupt of each step.
LEMMA PedIntDoes ==
  ASSUME NEW h, Shape(h), NEW x
  PROVE  LET g == Put(h, [pedometerInt |-> x])
         IN  SameBut(h, g, {}, {"pedometerInt"}) /\ g.sys.pedometerInt = x
BY PutDoes DEF Files, Attributes
\* The mark of a step in the FIFO.
LEMMA IndicatorDoes ==
  ASSUME NEW h, Shape(h), NEW x
  PROVE  LET g == Put(h, [stepIndicator |-> x])
         IN  SameBut(h, g, {}, {"stepIndicator"}) /\ g.sys.stepIndicator = x
BY PutDoes DEF Files, Attributes
\* The low power quaternion's file.
LEMMA ThreeQDoes ==
  ASSUME NEW h, Shape(h), NEW x
  PROVE  LET g == Put(h, [threeQ |-> x]) IN SameBut(h, g, {}, {"threeQ"}) /\ g.sys.threeQ = x
BY PutDoes DEF Files, Attributes
\* The six axis quaternion's file.
LEMMA SixQDoes ==
  ASSUME NEW h, Shape(h), NEW x
  PROVE  LET g == Put(h, [sixQ |-> x]) IN SameBut(h, g, {}, {"sixQ"}) /\ g.sys.sixQ = x
BY PutDoes DEF Files, Attributes
\* The pedometer quaternion's file.
LEMMA PedQDoes ==
  ASSUME NEW h, Shape(h), NEW x
  PROVE  LET g == Put(h, [pedQ |-> x]) IN SameBut(h, g, {}, {"pedQ"}) /\ g.sys.pedQ = x
BY PutDoes DEF Files, Attributes
\* Significant motion's file.
LEMMA SmdDoes ==
  ASSUME NEW h, Shape(h), NEW x
  PROVE  LET g == Put(h, [smd |-> x]) IN SameBut(h, g, {}, {"smd"}) /\ g.sys.smd = x
BY PutDoes DEF Files, Attributes
\* The rate of the batched quaternion.
LEMMA QuatRateDoes ==
  ASSUME NEW h, Shape(h), NEW x
  PROVE  SameBut(h, Put(h, [quatRate |-> x]), {}, {"quatRate"})
BY PutDoes DEF Files, Rates

\* Two files.
LEMMA StepsDo ==
  ASSUME NEW h, Shape(h), NEW x, NEW y
  PROVE  LET g == Put(h, [stepDetector |-> x, stepIndicator |-> y])
         IN  /\ SameBut(h, g, {}, {"stepDetector", "stepIndicator"})
             /\ g.sys.stepDetector = x /\ g.sys.stepIndicator = y
BY PutDoes DEF Files, Attributes
\* The two interrupts written together.
LEMMA InterruptsDo ==
  ASSUME NEW h, Shape(h), NEW x, NEW y
  PROVE  LET g == Put(h, [pedometerInt |-> x, eventInt |-> y])
         IN  /\ SameBut(h, g, {}, {"pedometerInt", "eventInt"})
             /\ g.sys.pedometerInt = x /\ g.sys.eventInt = y
BY PutDoes DEF Files, Attributes
\* The pedometer and its interrupt.
LEMMA PedometerDoes ==
  ASSUME NEW h, Shape(h), NEW x, NEW y
  PROVE  LET g == Put(h, [pedometer |-> x, pedometerInt |-> y])
         IN  /\ SameBut(h, g, {}, {"pedometer", "pedometerInt"})
             /\ g.sys.pedometer = x /\ g.sys.pedometerInt = y
BY PutDoes DEF Files, Attributes
\* The DMP and the interrupt of its events.
LEMMA DmpDoes ==
  ASSUME NEW h, Shape(h), NEW x, NEW y
  PROVE  LET g == Put(h, [dmp |-> x, eventInt |-> y])
         IN  SameBut(h, g, {}, {"dmp", "eventInt"}) /\ g.sys.dmp = x /\ g.sys.eventInt = y
BY PutDoes DEF Files, Attributes
-----------------------------------------------------------------------------
(* The DMP's switch and the sensors behind it *)

\* The DMP is turned on.
LEMMA OnDmpOn ==
  ASSUME NEW h, Shape(h)
  PROVE  /\ SameBut(h, OnDmp(h, TRUE), {"dmpOn"}, {"dmp", "eventInt"})
         /\ OnDmp(h, TRUE).sys.dmp = TRUE
         /\ OnDmp(h, TRUE).sys.eventInt => h.sys.eventInt
<1> DEFINE on == [h EXCEPT !.dmpOn = TRUE]
           event == TRUE /\ h.sys.eventInt
           put == Put(on, [dmp |-> TRUE, eventInt |-> event])
<1>1. SameBut(h, on, {"dmpOn"}, {})
  BY FieldSet DEF Fields
<1>2. OnDmp(h, TRUE) = IF h.sys.dmp = TRUE THEN on ELSE put
  BY DEF OnDmp
<1>2a. event => h.sys.eventInt
  OBVIOUS
<1> HIDE DEF on, event
<1>3. /\ SameBut(on, put, {}, {"dmp", "eventInt"})
      /\ put.sys.dmp = TRUE /\ (put.sys.eventInt => h.sys.eventInt)
  <2>1. Shape(on)
    BY <1>1 DEF SameBut
  <2>2. SameBut(on, put, {}, {"dmp", "eventInt"}) /\ put.sys.dmp = TRUE /\ put.sys.eventInt = event
    BY <2>1, DmpDoes
  <2> QED  BY <1>2a, <2>2
<1> HIDE DEF put
<1> QED  BY <1>1, <1>2, <1>3 DEF SameBut, Files, Attributes

\* The DMP is turned off, and an accel bias is handed over.
LEMMA OnDmpOff ==
  ASSUME NEW h, Shape(h)
  PROVE  /\ SameBut(h, OnDmp(h, FALSE), {"dmpOn", "accelBias"}, {"dmp", "eventInt"})
         /\ OnDmp(h, FALSE).sys.dmp = FALSE
         /\ OnDmp(h, FALSE).accelBias = FALSE
         /\ OnDmp(h, FALSE).sys.eventInt => h.sys.eventInt
<1> DEFINE on == [h EXCEPT !.dmpOn = FALSE]
           event == FALSE /\ h.sys.eventInt
           put == Put(on, [dmp |-> FALSE, eventInt |-> event])
           p == IF h.sys.dmp = FALSE THEN on ELSE put
<1>1. SameBut(h, on, {"dmpOn"}, {})
  BY FieldSet DEF Fields
<1>2. OnDmp(h, FALSE) = [p EXCEPT !.accelBias = FALSE]
  BY DEF OnDmp, SetAccelBias
<1>2a. event => h.sys.eventInt
  OBVIOUS
<1> HIDE DEF on, event
<1>3. /\ SameBut(on, put, {}, {"dmp", "eventInt"})
      /\ put.sys.dmp = FALSE /\ (put.sys.eventInt => h.sys.eventInt)
  <2>1. Shape(on)
    BY <1>1 DEF SameBut
  <2>2. SameBut(on, put, {}, {"dmp", "eventInt"}) /\ put.sys.dmp = FALSE /\ put.sys.eventInt = event
    BY <2>1, DmpDoes
  <2> QED  BY <1>2a, <2>2
<1> HIDE DEF put
<1>4. /\ SameBut(h, p, {"dmpOn"}, {"dmp", "eventInt"})
      /\ p.sys.dmp = FALSE /\ (p.sys.eventInt => h.sys.eventInt)
  BY <1>1, <1>3 DEF SameBut, Files, Attributes
<1> HIDE DEF p
<1>5. /\ SameBut(p, [p EXCEPT !.accelBias = FALSE], {"accelBias"}, {})
      /\ [p EXCEPT !.accelBias = FALSE].accelBias = FALSE
  BY <1>4, FieldSet DEF SameBut, Fields
<1> QED  BY <1>2, <1>4, <1>5 DEF SameBut, Files, Attributes

\* From h to g, accel and gyro are turned off if nothing wants them.
Dimmed(h, g) ==
  /\ g.sys.accel = IF ~DmpUsed(h) /\ "accel" \notin h.mask THEN FALSE ELSE h.sys.accel
  /\ g.sys.gyro = IF ~DmpUsed(h) /\ "gyro" \notin h.mask THEN FALSE ELSE h.sys.gyro

\* That is what IdleOff does.
LEMMA IdleOffDoes ==
  ASSUME NEW h, Shape(h)
  PROVE  /\ SameBut(h, IdleOff(h), {}, {"gyro", "gyroFifo", "accel", "accelFifo"})
         /\ Dimmed(h, IdleOff(h))
<1> DEFINE a == IF ~DmpUsed(h) /\ ~Uses(h, "accel") THEN EnableAccel(h, FALSE) ELSE h
           g == IF ~DmpUsed(a) /\ ~Uses(a, "gyro") THEN EnableGyro(a, FALSE) ELSE a
<1>1. /\ SameBut(h, a, {}, {"accel", "accelFifo"})
      /\ a.sys.accel = IF ~DmpUsed(h) /\ "accel" \notin h.mask THEN FALSE ELSE h.sys.accel
  BY Itself, AccelDoes DEF Uses
<1>2. IdleOff(h) = g
  BY DEF IdleOff
<1> HIDE DEF a
<1>3. a.features = h.features /\ a.mask = h.mask /\ Shape(a)
  BY <1>1 DEF SameBut, Fields
<1>4. /\ SameBut(a, g, {}, {"gyro", "gyroFifo"})
      /\ g.sys.gyro = IF ~DmpUsed(h) /\ "gyro" \notin h.mask THEN FALSE ELSE a.sys.gyro
  BY <1>3, Itself, GyroDoes DEF Uses, DmpUsed
<1> HIDE DEF g
<1> QED  BY <1>1, <1>2, <1>4 DEF SameBut, Dimmed, Files, Attributes

\* A feature is added or dropped.
LEMMA FeatureSet ==
  ASSUME NEW h, Shape(h), NEW f
  PROVE  /\ SameBut(h, Add(h, f), {"features"}, {}) /\ Add(h, f).features = h.features \cup {f}
         /\ SameBut(h, Drop(h, f), {"features"}, {}) /\ Drop(h, f).features = h.features \ {f}
BY FieldSet DEF Add, Drop, Fields

\* The pedometer interrupts again, and the DMP stops without features.
LEMMA PedometerBackDoes ==
  ASSUME NEW d, Shape(d), NEW event
  PROVE  LET g == PedometerBack(d, event)
         IN  /\ SameBut(d, g, {"dmpOn", "accelBias"}, {"dmp", "eventInt", "pedometerInt"})
             /\ g.accelBias => d.accelBias
             /\ "pedometer" \in d.features => g.sys.pedometerInt = TRUE
             /\ g.sys.pedometerInt \in {TRUE, d.sys.pedometerInt}
             /\ g.sys.dmp = IF d.features = {} THEN FALSE ELSE d.sys.dmp
<1> DEFINE ped == Put(d, [pedometerInt |-> TRUE])
           event1 == Put(ped, [eventInt |-> event])
<1>1. SameBut(d, ped, {}, {"pedometerInt"}) /\ ped.sys.pedometerInt = TRUE
  BY PedIntDoes
<1>2. PedometerBack(d, event) = IF d.features = {} THEN OnDmp(d, FALSE)
        ELSE IF "pedometer" \notin d.features THEN d
        ELSE IF d.enabled = {} THEN event1 ELSE ped
  BY DEF PedometerBack
<1> HIDE DEF ped
<1>3. SameBut(ped, event1, {}, {"eventInt"})
  BY <1>1, EventDoes DEF SameBut
<1> HIDE DEF event1
<1>4. CASE d.features = {}
  <2> DEFINE off == OnDmp(d, FALSE)
  <2>1. /\ SameBut(d, off, {"dmpOn", "accelBias"}, {"dmp", "eventInt"})
        /\ off.sys.dmp = FALSE /\ off.accelBias = FALSE
    BY OnDmpOff
  <2> HIDE DEF off
  <2>2. off.sys.pedometerInt = d.sys.pedometerInt
    BY <2>1 DEF SameBut, Files, Attributes
  <2>3. SameBut(d, off, {"dmpOn", "accelBias"}, {"dmp", "eventInt", "pedometerInt"})
    BY <2>1, Widen
  <2> QED  BY <1>2, <1>4, <2>1, <2>2, <2>3 DEF off
<1>5. CASE d.features # {} /\ "pedometer" \notin d.features
  BY <1>2, <1>5 DEF SameBut
<1>6. CASE "pedometer" \in d.features
  BY <1>1, <1>2, <1>3, <1>6 DEF SameBut, Files, Attributes, Fields
<1> QED  BY <1>4, <1>5, <1>6
-----------------------------------------------------------------------------
(* Steps, stand-alone *)

\* The packets of the steps are turned on.
LEMMA PedDataOn ==
  ASSUME NEW h, Shape(h)
  PROVE  LET g == PedStandaloneData(h, TRUE)
         IN  /\ SameBut(h, g, {}, {"stepDetector", "stepIndicator", "accel", "accelFifo"})
             /\ g.sys.stepDetector = TRUE /\ g.sys.stepIndicator = TRUE /\ g.sys.accel = TRUE
<1> DEFINE put == Put(h, [stepDetector |-> TRUE, stepIndicator |-> TRUE])
           on == EnableAccel(put, TRUE)
           fifo == TurnOffAccelFifo(on)
<1>1. /\ SameBut(h, put, {}, {"stepDetector", "stepIndicator"})
      /\ put.sys.stepDetector = TRUE /\ put.sys.stepIndicator = TRUE
  BY StepsDo
<1>2. PedStandaloneData(h, TRUE) \in {on, fifo}
  BY DEF PedStandaloneData
<1> HIDE DEF put
<1>3. SameBut(put, on, {}, {"accel", "accelFifo"}) /\ on.sys.accel = TRUE
  BY <1>1, AccelDoes DEF SameBut
<1> HIDE DEF on
<1>4. SameBut(on, fifo, {}, {"accelFifo"})
  BY <1>3, FifosDo DEF SameBut
<1> HIDE DEF fifo
<1>5. /\ SameBut(h, on, {}, {"stepDetector", "stepIndicator", "accel", "accelFifo"})
      /\ SameBut(h, fifo, {}, {"stepDetector", "stepIndicator", "accel", "accelFifo"})
  BY <1>1, <1>3, <1>4 DEF SameBut
<1>6. \A g \in {on, fifo} :
        g.sys.stepDetector = TRUE /\ g.sys.stepIndicator = TRUE /\ g.sys.accel = TRUE
  BY <1>1, <1>3, <1>4 DEF SameBut, Files, Attributes
<1> QED  BY <1>2, <1>5, <1>6

\* They are turned off.
LEMMA PedDataOff ==
  ASSUME NEW h, Shape(h)
  PROVE  LET g == PedStandaloneData(h, FALSE)
         IN  /\ SameBut(h, g, {}, {"stepDetector", "stepIndicator", "gyro", "gyroFifo", "accel",
                                   "accelFifo"})
             /\ g.sys.stepDetector = FALSE /\ g.sys.stepIndicator = FALSE /\ Dimmed(h, g)
<1> DEFINE put == Put(h, [stepDetector |-> FALSE, stepIndicator |-> FALSE])
           off == IdleOff(put)
<1>1. /\ SameBut(h, put, {}, {"stepDetector", "stepIndicator"})
      /\ put.sys.stepDetector = FALSE /\ put.sys.stepIndicator = FALSE
  BY StepsDo
<1>2. PedStandaloneData(h, FALSE) = off
  BY DEF PedStandaloneData
<1> HIDE DEF put
<1>3. /\ SameBut(put, off, {}, {"gyro", "gyroFifo", "accel", "accelFifo"})
      /\ Dimmed(put, off)
  BY <1>1, IdleOffDoes DEF SameBut
<1> HIDE DEF off
<1>4. /\ put.features = h.features /\ put.mask = h.mask
      /\ put.sys.accel = h.sys.accel /\ put.sys.gyro = h.sys.gyro
  BY <1>1 DEF SameBut, Files, Attributes, Fields
<1>5. Dimmed(h, off)
  BY <1>3, <1>4 DEF Dimmed, DmpUsed
<1> QED  BY <1>1, <1>2, <1>3, <1>5 DEF SameBut, Files, Attributes

\* The stand-alone step output is turned on.
LEMMA StandaloneOn ==
  ASSUME NEW h, Shape(h)
  PROVE  LET g == EnablePedStandalone(h, TRUE)
         IN  /\ SameBut(h, g, {"features", "dmpOn"},
                        {"stepDetector", "stepIndicator", "accel", "accelFifo", "dmp", "eventInt",
                         "pedometerInt"})
             /\ g.features = h.features \cup {"standalone"}
             /\ g.sys.stepDetector = TRUE /\ g.sys.accel = TRUE /\ g.sys.dmp = TRUE
             /\ g.sys.stepIndicator = TRUE /\ g.sys.pedometerInt = FALSE
<1> DEFINE data == PedStandaloneData(h, TRUE)
           dmp == OnDmp(data, TRUE)
           add == Add(dmp, "standalone")
           g == Put(add, [pedometerInt |-> FALSE, eventInt |-> FALSE])
<1>1. EnablePedStandalone(h, TRUE) = g
  BY DEF EnablePedStandalone
<1>2. /\ SameBut(h, data, {}, {"stepDetector", "stepIndicator", "accel", "accelFifo"})
      /\ data.sys.stepDetector = TRUE /\ data.sys.stepIndicator = TRUE /\ data.sys.accel = TRUE
  BY PedDataOn
<1> HIDE DEF data
<1>3. SameBut(data, dmp, {"dmpOn"}, {"dmp", "eventInt"}) /\ dmp.sys.dmp = TRUE
  BY <1>2, OnDmpOn DEF SameBut
<1> HIDE DEF dmp
<1>4. SameBut(dmp, add, {"features"}, {}) /\ add.features = dmp.features \cup {"standalone"}
  BY <1>3, FeatureSet DEF SameBut
<1> HIDE DEF add
<1>5. SameBut(add, g, {}, {"pedometerInt", "eventInt"}) /\ g.sys.pedometerInt = FALSE
  BY <1>4, InterruptsDo DEF SameBut
<1> HIDE DEF g
<1>6. SameBut(h, add, {"features", "dmpOn"},
              {"stepDetector", "stepIndicator", "accel", "accelFifo", "dmp", "eventInt"})
  BY <1>2, <1>3, <1>4 DEF SameBut
<1>7. /\ add.features = h.features \cup {"standalone"} /\ add.sys.dmp = TRUE
      /\ add.sys.stepDetector = TRUE /\ add.sys.stepIndicator = TRUE /\ add.sys.accel = TRUE
  BY <1>2, <1>3, <1>4 DEF SameBut, Files, Attributes, Fields
<1> QED  BY <1>1, <1>5, <1>6, <1>7 DEF SameBut, Files, Attributes, Fields

\* What turning off a step output or a quaternion leaves of the DMP and the
\* pedometer's interrupt.
SteppedBack(d, g) ==
  /\ g.accelBias => d.accelBias
  /\ "pedometer" \in g.features => g.sys.pedometerInt = TRUE
  /\ g.sys.pedometerInt \in {TRUE, d.sys.pedometerInt}
  /\ g.sys.dmp = IF g.features = {} THEN FALSE ELSE d.sys.dmp

\* The stand-alone step output is turned off.
LEMMA StandaloneOff ==
  ASSUME NEW h, Shape(h)
  PROVE  LET g == EnablePedStandalone(h, FALSE)
         IN  /\ SameBut(h, g, {"features", "dmpOn", "accelBias"},
                        {"stepDetector", "stepIndicator", "gyro", "gyroFifo", "accel", "accelFifo",
                         "dmp", "eventInt", "pedometerInt"})
             /\ g.features = h.features \ {"standalone"}
             /\ g.sys.stepDetector = FALSE /\ Dimmed(h, g) /\ SteppedBack(h, g)
<1> DEFINE data == PedStandaloneData(h, FALSE)
           drop == Drop(data, "standalone")
           g == PedometerBack(drop, TRUE)
<1>1. EnablePedStandalone(h, FALSE) = g
  BY DEF EnablePedStandalone
<1>2. /\ SameBut(h, data, {}, {"stepDetector", "stepIndicator", "gyro", "gyroFifo", "accel", "accelFifo"})
      /\ data.sys.stepDetector = FALSE /\ Dimmed(h, data)
  BY PedDataOff
<1> HIDE DEF data
<1>3. SameBut(data, drop, {"features"}, {}) /\ drop.features = data.features \ {"standalone"}
  BY <1>2, FeatureSet DEF SameBut
<1> HIDE DEF drop
<1>4. /\ SameBut(drop, g, {"dmpOn", "accelBias"}, {"dmp", "eventInt", "pedometerInt"})
      /\ g.accelBias => drop.accelBias
      /\ "pedometer" \in drop.features => g.sys.pedometerInt = TRUE
      /\ g.sys.pedometerInt \in {TRUE, drop.sys.pedometerInt}
      /\ g.sys.dmp = IF drop.features = {} THEN FALSE ELSE drop.sys.dmp
  BY <1>3, PedometerBackDoes DEF SameBut
<1> HIDE DEF g
<1>5. SameBut(h, g, {"features", "dmpOn", "accelBias"},
              {"stepDetector", "stepIndicator", "gyro", "gyroFifo", "accel", "accelFifo",
               "dmp", "eventInt", "pedometerInt"})
  BY <1>2, <1>3, <1>4 DEF SameBut
<1>6. /\ drop.features = h.features \ {"standalone"} /\ drop.accelBias = h.accelBias
      /\ drop.sys.stepDetector = FALSE /\ drop.sys.pedometerInt = h.sys.pedometerInt
      /\ drop.sys.dmp = h.sys.dmp /\ Dimmed(h, drop)
  BY <1>2, <1>3 DEF SameBut, Files, Attributes, Fields, Dimmed
<1>7. /\ g.features = drop.features /\ g.sys.stepDetector = drop.sys.stepDetector
      /\ g.sys.accel = drop.sys.accel /\ g.sys.gyro = drop.sys.gyro
  BY <1>4 DEF SameBut, Files, Attributes, Fields
<1> QED  BY <1>1, <1>4, <1>5, <1>6, <1>7 DEF Dimmed, SteppedBack
-----------------------------------------------------------------------------
(* What every step of setBatch and batch leaves alone *)

Quats == {"lpq", "six", "pedQ"}
FusedAxes == NineAxes \cup {GRV}
Switches == {"threeQ", "sixQ", "pedQ", "stepDetector", "stepIndicator", "pedometerInt", "gyro",
             "gyroFifo", "accel", "accelFifo", "dmp", "eventInt"}
Flag(x, p) == (p => x = TRUE) /\ (~p => x = FALSE)

\* The switches of the outputs are what the features say.
Linked(h) ==
  /\ Flag(h.sys.threeQ, "lpq" \in h.features) /\ Flag(h.sys.sixQ, "six" \in h.features)
  /\ Flag(h.sys.pedQ, "pedQ" \in h.features)
  /\ Flag(h.sys.stepDetector, "standalone" \in h.features)
Steady(h) == h.features # {} => h.sys.dmp = TRUE

\* The members and files that no output changes.
Keeps(h, g) ==
  /\ Shape(g)
  /\ g.enabled = h.enabled /\ g.batch = h.batch /\ g.dmpSensors = h.dmpSensors
  /\ g.timeouts = h.timeouts /\ g.oldBatch = h.oldBatch /\ g.timeout = h.timeout
  /\ g.sys.smd = h.sys.smd /\ g.sys.pedometer = h.sys.pedometer /\ g.sys.timeout = h.sys.timeout
  /\ g.sys.compass = h.sys.compass /\ g.sys.pressure = h.sys.pressure
  /\ g.sys.master = h.sys.master
Masks(h, g) ==
  /\ g.mask \subseteq h.mask \cup {"gyro", "accel"}
  /\ \A m \in {"compass", "pressure"} : m \in g.mask <=> m \in h.mask
  /\ "gyro" \in g.mask => "gyro" \in h.mask \/ h.enabled \cap ({GRV} \cup Gyros) # {}
  /\ "accel" \in g.mask => "accel" \in h.mask \/ h.enabled \cap {GRV, "Accelerometer"} # {}
Moves(h, g) ==
  /\ Keeps(h, g) /\ Masks(h, g)
  /\ \A f \in {"batch", "orientation", "smd", "pedometer", "pedometerStep"} :
        f \in g.features <=> f \in h.features
  /\ g.accelBias => h.accelBias
  /\ Linked(h) => Linked(g)
  /\ Steady(h) => Steady(g)

\* Writing switches alone keeps what a step of the batch mode must keep.
LEMMA SwitchesKeep ==
  ASSUME NEW h, NEW g,
         SameBut(h, g, {"features", "mask", "dmpOn", "accelBias"}, Switches)
  PROVE  Keeps(h, g)
BY DEF SameBut, Keeps, Fields, Files, Attributes, Switches
\* Two moves are one.
LEMMA MovesTwice ==
  ASSUME NEW h, NEW g, NEW k, Moves(h, g), Moves(g, k)
  PROVE  Moves(h, k)
<1>1. Keeps(h, k)
  BY DEF Moves, Keeps
<1>2. Masks(h, k)
  BY DEF Moves, Masks, Keeps
<1> QED  BY <1>1, <1>2 DEF Moves, Keeps
\* Staying is a move.
LEMMA MovesNot ==
  ASSUME NEW h, Shape(h)
  PROVE  Moves(h, h)
BY DEF Moves, Keeps, Masks

\* Accel and its data are there for who needs them.
Data(h) ==
  /\ h.enabled \cap (NineAxes \cup {GMRV}) # {} => "accel" \in h.mask
  /\ h.enabled \cap {GRV, "Accelerometer"} # {} => "accel" \in h.mask \/ h.features \cap Quats # {}
  /\ h.enabled \cap Gyros # {} => {"gyro", "accel"} \cap h.mask # {} \/ h.features \cap Quats # {}
Held(h) ==
  /\ Data(h)
  /\ h.enabled \cap (NineAxes \cup {GRV, GMRV, "Accelerometer"}) # {} => h.sys.accel = TRUE

\* Gyro and accel are on only for their own data.
Lean(h) == (h.sys.gyro => "gyro" \in h.mask) /\ (h.sys.accel => "accel" \in h.mask)
\* What goes out for want of a user stays out.
LEMMA LeanDimmed ==
  ASSUME NEW h, NEW g, Dimmed(h, g), h.mask \subseteq g.mask
  PROVE  Lean(h) => Lean(g)
BY DEF Lean, Dimmed

\* Accel is turned off only when nobody needs it.
LEMMA HeldDimmed ==
  ASSUME NEW h, NEW g, Held(h), Dimmed(h, g),
         h.enabled \cap (NineAxes \cup {GRV, GMRV, "Accelerometer"}) # {}
  PROVE  g.sys.accel = TRUE
BY DEF Held, Data, Dimmed, DmpUsed, DmpFeatures, Quats
-----------------------------------------------------------------------------
(* The outputs, one by one *)

\* The stand-alone step output.
LEMMA StandaloneOnMoves ==
  ASSUME NEW h, Shape(h)
  PROVE  LET g == EnablePedStandalone(h, TRUE)
         IN  /\ Moves(h, g) /\ g.features = h.features \cup {"standalone"} /\ g.mask = h.mask
             /\ g.sys.stepDetector = TRUE /\ g.sys.dmp = TRUE
             /\ Held(h) => Held(g)
<1> DEFINE g == EnablePedStandalone(h, TRUE)
<1>1. /\ SameBut(h, g, {"features", "dmpOn"},
                 {"stepDetector", "stepIndicator", "accel", "accelFifo", "dmp", "eventInt",
                  "pedometerInt"})
      /\ g.features = h.features \cup {"standalone"}
      /\ g.sys.stepDetector = TRUE /\ g.sys.accel = TRUE /\ g.sys.dmp = TRUE
  BY StandaloneOn
<1> HIDE DEF g
<1>2. Keeps(h, g)
  <2>1. SameBut(h, g, {"features", "mask", "dmpOn", "accelBias"}, Switches)
    BY <1>1 DEF SameBut, Switches
  <2> QED  BY <2>1, SwitchesKeep
<1>3. /\ g.mask = h.mask /\ g.accelBias = h.accelBias /\ g.sys.threeQ = h.sys.threeQ
      /\ g.sys.sixQ = h.sys.sixQ /\ g.sys.pedQ = h.sys.pedQ
  BY <1>1 DEF SameBut, Fields, Files, Attributes
<1>4. Linked(h) => Linked(g)
  BY <1>1, <1>3 DEF Linked, Flag
<1>5. Moves(h, g)
  BY <1>1, <1>2, <1>3, <1>4 DEF Moves, Masks, Steady
<1>6. Held(h) => Held(g)
  BY <1>1, <1>2, <1>3 DEF Held, Data, Keeps, Quats
<1> QED  BY <1>1, <1>3, <1>5, <1>6 DEF g
\* Turning the standalone pedometer off.
LEMMA StandaloneOffMoves ==
  ASSUME NEW h, Shape(h)
  PROVE  LET g == EnablePedStandalone(h, FALSE)
         IN  /\ Moves(h, g) /\ g.features = h.features \ {"standalone"} /\ g.mask = h.mask
             /\ "pedometer" \in g.features => g.sys.pedometerInt = TRUE
             /\ (Held(h) => Held(g)) /\ (Lean(h) => Lean(g))
<1> DEFINE g == EnablePedStandalone(h, FALSE)
<1>1. /\ SameBut(h, g, {"features", "dmpOn", "accelBias"},
                 {"stepDetector", "stepIndicator", "gyro", "gyroFifo", "accel", "accelFifo",
                  "dmp", "eventInt", "pedometerInt"})
      /\ g.features = h.features \ {"standalone"}
      /\ g.sys.stepDetector = FALSE /\ Dimmed(h, g) /\ SteppedBack(h, g)
  BY StandaloneOff
<1> HIDE DEF g
<1>2. Keeps(h, g)
  <2>1. SameBut(h, g, {"features", "mask", "dmpOn", "accelBias"}, Switches)
    BY <1>1 DEF SameBut, Switches
  <2> QED  BY <2>1, SwitchesKeep
<1>3. /\ g.mask = h.mask /\ g.sys.threeQ = h.sys.threeQ
      /\ g.sys.sixQ = h.sys.sixQ /\ g.sys.pedQ = h.sys.pedQ
  BY <1>1 DEF SameBut, Fields, Files, Attributes
<1>4. Linked(h) => Linked(g)
  BY <1>1, <1>3 DEF Linked, Flag
<1>5. Moves(h, g)
  BY <1>1, <1>2, <1>3, <1>4 DEF Moves, Masks, Steady, SteppedBack
<1>6. Held(h) => Held(g)
  BY <1>1, <1>2, <1>3, HeldDimmed DEF Held, Data, Keeps, Quats
<1>7. Lean(h) => Lean(g)
  BY <1>1, <1>3, LeanDimmed
<1> QED  BY <1>1, <1>3, <1>5, <1>6, <1>7 DEF SteppedBack, g

\* What goes into the buffer again.
LEMMA MaskBackDoes ==
  ASSUME NEW h, Shape(h)
  PROVE  LET g == MaskBack(h)
         IN  /\ SameBut(h, g, {"mask"}, {}) /\ Masks(h, g) /\ h.mask \subseteq g.mask
             /\ h.enabled \cap {GRV, "Accelerometer"} # {} => "accel" \in g.mask
             /\ h.enabled \cap Gyros # {} => {"gyro", "accel"} \cap g.mask # {}
<1> DEFINE new == IF GRV \in h.enabled THEN {"gyro", "accel"}
                  ELSE IF "Accelerometer" \in h.enabled THEN {"accel"}
                  ELSE IF h.enabled \cap Gyros # {} THEN {"gyro"} ELSE {}
           m == h.mask \cup new
<1>1. MaskBack(h) = [h EXCEPT !.mask = m]
  BY DEF MaskBack
<1>2. /\ new \subseteq {"gyro", "accel"}
      /\ h.enabled \cap {GRV, "Accelerometer"} # {} => "accel" \in new
      /\ h.enabled \cap Gyros # {} => {"gyro", "accel"} \cap new # {}
      /\ "gyro" \in new => h.enabled \cap ({GRV} \cup Gyros) # {}
      /\ "accel" \in new => h.enabled \cap {GRV, "Accelerometer"} # {}
  OBVIOUS
<1> HIDE DEF new
<1>3. /\ m \subseteq h.mask \cup {"gyro", "accel"}
      /\ h.mask \subseteq m /\ \A x \in {"compass", "pressure"} : x \in m <=> x \in h.mask
      /\ h.enabled \cap {GRV, "Accelerometer"} # {} => "accel" \in m
      /\ h.enabled \cap Gyros # {} => {"gyro", "accel"} \cap m # {}
      /\ "gyro" \in m => "gyro" \in h.mask \/ h.enabled \cap ({GRV} \cup Gyros) # {}
      /\ "accel" \in m => "accel" \in h.mask \/ h.enabled \cap {GRV, "Accelerometer"} # {}
  BY <1>2
<1> HIDE DEF m
<1>4. SameBut(h, [h EXCEPT !.mask = m], {"mask"}, {}) /\ [h EXCEPT !.mask = m].mask = m
  BY FieldSet DEF Fields
<1> QED  BY <1>1, <1>3, <1>4 DEF Masks
\* The FIFOs the low power quaternion replaces.
LEMMA LpqFifosDo ==
  ASSUME NEW h, Shape(h)
  PROVE  SameBut(h, LpqFifos(h), {}, {"gyroFifo", "accelFifo"})
BY FifosDo, Itself DEF LpqFifos

\* A quaternion's output turns accel and gyro on and takes their data away.
LEMMA AccelFolded ==
  ASSUME NEW h, Shape(h)
  PROVE  LET g == NoAccelFifo(h)
         IN  SameBut(h, g, {"mask"}, {"accelFifo"}) /\ g.mask = h.mask \ {"accel"}
<1> DEFINE f == TurnOffAccelFifo(h)
           g == [f EXCEPT !.mask = f.mask \ {"accel"}]
<1>1. NoAccelFifo(h) = g
  BY DEF NoAccelFifo
<1>2. SameBut(h, f, {}, {"accelFifo"})
  BY FifosDo
<1> HIDE DEF f
<1>3. SameBut(f, g, {"mask"}, {}) /\ g.mask = f.mask \ {"accel"}
  BY <1>2, FieldSet DEF SameBut, Fields
<1> HIDE DEF g
<1> QED  BY <1>1, <1>2, <1>3 DEF SameBut, Fields
\* The gyroscope's samples leave the mask with its FIFO.
LEMMA GyroFolded ==
  ASSUME NEW h, Shape(h)
  PROVE  LET g == NoGyroFifo(h)
         IN  SameBut(h, g, {"mask"}, {"gyroFifo"}) /\ g.mask = h.mask \ {"gyro"}
<1> DEFINE f == TurnOffGyroFifo(h)
           g == [f EXCEPT !.mask = f.mask \ {"gyro"}]
<1>1. NoGyroFifo(h) = g
  BY DEF NoGyroFifo
<1>2. SameBut(h, f, {}, {"gyroFifo"})
  BY FifosDo
<1> HIDE DEF f
<1>3. SameBut(f, g, {"mask"}, {}) /\ g.mask = f.mask \ {"gyro"}
  BY <1>2, FieldSet DEF SameBut, Fields
<1> HIDE DEF g
<1> QED  BY <1>1, <1>2, <1>3 DEF SameBut, Fields
\* Both sensors a quaternion is made of.
LEMMA BothOn ==
  ASSUME NEW h, Shape(h)
  PROVE  LET g == EnableGyro(EnableAccel(h, TRUE), TRUE)
         IN  /\ SameBut(h, g, {}, {"gyro", "gyroFifo", "accel", "accelFifo"})
             /\ g.sys.accel = TRUE
<1> DEFINE accel == EnableAccel(h, TRUE)
           on == EnableGyro(accel, TRUE)
<1>1. SameBut(h, accel, {}, {"accel", "accelFifo"}) /\ accel.sys.accel = TRUE
  BY AccelDoes
<1> HIDE DEF accel
<1>2. SameBut(accel, on, {}, {"gyro", "gyroFifo"})
  <2>1. Shape(accel)
    BY <1>1 DEF SameBut
  <2> QED  BY <2>1, GyroDoes
<1> HIDE DEF on
<1>3. /\ SameBut(h, on, {}, {"gyro", "gyroFifo", "accel", "accelFifo"})
      /\ on.sys.accel = TRUE
  BY <1>1, <1>2 DEF SameBut, Files, Attributes
<1> QED  BY <1>3 DEF on, accel
\* The samples a quaternion stands for leave the FIFO.
LEMMA Folded ==
  ASSUME NEW h, Shape(h), NEW a, NEW g,
         a = h \/ a = NoAccelFifo(h), g = a \/ g = NoGyroFifo(a)
  PROVE  /\ SameBut(h, g, {"mask"}, {"gyroFifo", "accelFifo"})
         /\ g.mask \subseteq h.mask /\ h.mask \subseteq g.mask \cup {"gyro", "accel"}
<1>1. /\ SameBut(h, a, {"mask"}, {"accelFifo"})
      /\ a.mask \subseteq h.mask /\ h.mask \subseteq a.mask \cup {"gyro", "accel"}
  BY AccelFolded, Itself DEF SameBut
<1>2. /\ SameBut(a, g, {"mask"}, {"gyroFifo"})
      /\ g.mask \subseteq a.mask /\ a.mask \subseteq g.mask \cup {"gyro", "accel"}
  <2>1. Shape(a)
    BY <1>1 DEF SameBut
  <2> QED  BY <2>1, GyroFolded, Itself
<1> QED  BY <1>1, <1>2 DEF SameBut, Files, Attributes, Fields

\* And it turns them off again.
LEMMA IdledDoes ==
  ASSUME NEW h, Shape(h)
  PROVE  LET g == LpqFifos(IdleOff(h))
         IN  SameBut(h, g, {}, {"gyro", "gyroFifo", "accel", "accelFifo"}) /\ Dimmed(h, g)
<1> DEFINE i == IdleOff(h)
           g == LpqFifos(i)
<1>1. SameBut(h, i, {}, {"gyro", "gyroFifo", "accel", "accelFifo"}) /\ Dimmed(h, i)
  BY IdleOffDoes
<1> HIDE DEF i
<1>2. SameBut(i, g, {}, {"gyroFifo", "accelFifo"})
  <2>1. Shape(i)
    BY <1>1 DEF SameBut
  <2> QED  BY <2>1, LpqFifosDo
<1> HIDE DEF g
<1>3. g.sys.accel = i.sys.accel /\ g.sys.gyro = i.sys.gyro
  BY <1>2 DEF SameBut, Files, Attributes
<1>4. SameBut(h, g, {}, {"gyro", "gyroFifo", "accel", "accelFifo"})
  BY <1>1, <1>2 DEF SameBut
<1> QED  BY <1>1, <1>3, <1>4 DEF Dimmed, g, i
\* The DMP stops when the last feature does.
LEMMA NoFeatureNoDmpDoes ==
  ASSUME NEW d, Shape(d)
  PROVE  LET g == NoFeatureNoDmp(d)
         IN  /\ SameBut(d, g, {"dmpOn", "accelBias"}, {"dmp", "eventInt"})
             /\ g.accelBias => d.accelBias
             /\ g.sys.eventInt => d.sys.eventInt
             /\ g.sys.dmp = IF d.features = {} THEN FALSE ELSE d.sys.dmp
<1> DEFINE off == OnDmp(d, FALSE)
<1>1. NoFeatureNoDmp(d) = IF d.features = {} THEN off ELSE d
  BY DEF NoFeatureNoDmp
<1>2. /\ SameBut(d, off, {"dmpOn", "accelBias"}, {"dmp", "eventInt"})
      /\ off.sys.dmp = FALSE /\ off.accelBias = FALSE /\ (off.sys.eventInt => d.sys.eventInt)
  BY OnDmpOff
<1> HIDE DEF off
<1> QED  BY <1>1, <1>2, Itself

\* The quaternion of the pedometer.
LEMMA PedQuaternionOnMoves ==
  ASSUME NEW h, Shape(h)
  PROVE  LET g == EnablePedQuaternion(h, TRUE)
         IN  /\ Moves(h, g) /\ g.features = h.features \cup {"pedQ"}
             /\ g.sys.dmp = TRUE
             /\ h.enabled \cap (NineAxes \cup {GMRV}) = {} => Held(g)
<1> DEFINE put == Put(h, [pedQ |-> TRUE])
           data == PedQuaternionData(h, TRUE)
           dmp == OnDmp(data, TRUE)
           add == Add(dmp, "pedQ")
           g == Put(add, [pedometerInt |-> FALSE, eventInt |-> FALSE])
<1>1. EnablePedQuaternion(h, TRUE) = g
  BY DEF EnablePedQuaternion
<1>2. SameBut(h, put, {}, {"pedQ"}) /\ put.sys.pedQ = TRUE
  BY PedQDoes
<1>3. /\ SameBut(put, data, {"mask"}, {"gyro", "gyroFifo", "accel", "accelFifo"})
      /\ data.sys.accel = TRUE
      /\ data.mask \subseteq put.mask /\ put.mask \subseteq data.mask \cup {"gyro", "accel"}
  <2> DEFINE on == EnableGyro(EnableAccel(put, TRUE), TRUE)
             a == IF Uses(on, "accel") /\ "Accelerometer" \in h.batch THEN on ELSE NoAccelFifo(on)
  <2>1. data = a \/ data = NoGyroFifo(a)
    BY DEF PedQuaternionData
  <2>2. a = on \/ a = NoAccelFifo(on)
    OBVIOUS
  <2>3. Shape(put)
    BY <1>2 DEF SameBut
  <2> HIDE DEF put, data, a
  <2>4. SameBut(put, on, {}, {"gyro", "gyroFifo", "accel", "accelFifo"}) /\ on.sys.accel = TRUE
    BY <2>3, BothOn
  <2> HIDE DEF on
  <2>5. /\ SameBut(on, data, {"mask"}, {"gyroFifo", "accelFifo"})
        /\ data.mask \subseteq on.mask /\ on.mask \subseteq data.mask \cup {"gyro", "accel"}
    <3>1. Shape(on)
      BY <2>4 DEF SameBut
    <3> QED  BY <2>1, <2>2, <3>1, Folded
  <2> QED  BY <2>4, <2>5 DEF SameBut, Files, Attributes, Fields
<1> HIDE DEF put, data
<1>4. SameBut(data, dmp, {"dmpOn"}, {"dmp", "eventInt"}) /\ dmp.sys.dmp = TRUE
  <2>1. Shape(data)
    BY <1>3 DEF SameBut
  <2> QED  BY <2>1, OnDmpOn
<1> HIDE DEF dmp
<1>5. SameBut(dmp, add, {"features"}, {}) /\ add.features = dmp.features \cup {"pedQ"}
  <2>1. Shape(dmp)
    BY <1>4 DEF SameBut
  <2> QED  BY <2>1, FeatureSet
<1> HIDE DEF add
<1>6. SameBut(add, g, {}, {"pedometerInt", "eventInt"})
  <2>1. Shape(add)
    BY <1>5 DEF SameBut
  <2> QED  BY <2>1, InterruptsDo
<1> HIDE DEF g
<1>7. SameBut(h, data, {"mask"}, {"pedQ", "gyro", "gyroFifo", "accel", "accelFifo"})
  BY <1>2, <1>3 DEF SameBut
<1>8. SameBut(data, g, {"features", "dmpOn"}, {"dmp", "eventInt", "pedometerInt"})
  BY <1>4, <1>5, <1>6 DEF SameBut
<1>9. Keeps(h, g)
  <2>1. SameBut(h, g, {"features", "mask", "dmpOn", "accelBias"}, Switches)
    BY <1>7, <1>8 DEF SameBut, Switches
  <2> QED  BY <2>1, SwitchesKeep
<1>10. /\ data.features = h.features /\ data.sys.pedQ = TRUE
       /\ data.mask \subseteq h.mask /\ h.mask \subseteq data.mask \cup {"gyro", "accel"}
  BY <1>2, <1>3 DEF SameBut, Fields, Files, Attributes
<1>11. /\ g.features = h.features \cup {"pedQ"} /\ g.mask = data.mask /\ g.accelBias = h.accelBias
       /\ g.sys.accel = TRUE /\ g.sys.pedQ = TRUE /\ g.sys.dmp = TRUE
  BY <1>3, <1>4, <1>5, <1>6, <1>7, <1>8, <1>10 DEF SameBut, Fields, Files, Attributes
<1>12. /\ g.sys.threeQ = h.sys.threeQ /\ g.sys.sixQ = h.sys.sixQ
       /\ g.sys.stepDetector = h.sys.stepDetector
  BY <1>7, <1>8 DEF SameBut, Files, Attributes
<1>13. Linked(h) => Linked(g)
  BY <1>11, <1>12 DEF Linked, Flag
<1>14. Moves(h, g)
  BY <1>9, <1>10, <1>11, <1>13 DEF Moves, Masks, Steady
<1>15. h.enabled \cap (NineAxes \cup {GMRV}) = {} => Held(g)
  BY <1>9, <1>11 DEF Held, Data, Keeps, Quats
<1> QED  BY <1>1, <1>11, <1>14, <1>15
\* Turning the pedometer quaternion off.
LEMMA PedQuaternionOffMoves ==
  ASSUME NEW h, Shape(h)
  PROVE  LET g == EnablePedQuaternion(h, FALSE)
         IN  /\ Moves(h, g) /\ g.features = h.features \ {"pedQ"}
             /\ "pedometer" \in g.features => g.sys.pedometerInt = TRUE
             /\ h.enabled \cap (NineAxes \cup {GMRV}) = {} => Data(g)
             /\ (Held(h) => Held(g)) /\ (Lean(h) => Lean(g))
<1> DEFINE put == Put(h, [pedQ |-> FALSE])
           idle == LpqFifos(IdleOff(put))
           back == MaskBack(idle)
           drop == Drop(back, "pedQ")
           g == PedometerBack(drop, FALSE)
<1>1. EnablePedQuaternion(h, FALSE) = g
  <2>1. PedQuaternionData(h, FALSE) = back
    BY DEF PedQuaternionData
  <2> HIDE DEF back
  <2> QED  BY <2>1 DEF EnablePedQuaternion
<1>2. SameBut(h, put, {}, {"pedQ"}) /\ put.sys.pedQ = FALSE
  BY PedQDoes
<1> HIDE DEF put
<1>3. SameBut(put, idle, {}, {"gyro", "gyroFifo", "accel", "accelFifo"}) /\ Dimmed(put, idle)
  <2>1. Shape(put)
    BY <1>2 DEF SameBut
  <2> QED  BY <2>1, IdledDoes
<1> HIDE DEF idle
<1>4. /\ SameBut(idle, back, {"mask"}, {}) /\ Masks(idle, back) /\ idle.mask \subseteq back.mask
      /\ idle.enabled \cap {GRV, "Accelerometer"} # {} => "accel" \in back.mask
      /\ idle.enabled \cap Gyros # {} => {"gyro", "accel"} \cap back.mask # {}
  <2>1. Shape(idle)
    BY <1>3 DEF SameBut
  <2> QED  BY <2>1, MaskBackDoes
<1> HIDE DEF back
<1>5. SameBut(back, drop, {"features"}, {}) /\ drop.features = back.features \ {"pedQ"}
  <2>1. Shape(back)
    BY <1>4 DEF SameBut
  <2> QED  BY <2>1, FeatureSet
<1> HIDE DEF drop
<1>6. /\ SameBut(drop, g, {"dmpOn", "accelBias"}, {"dmp", "eventInt", "pedometerInt"})
      /\ g.accelBias => drop.accelBias
      /\ "pedometer" \in drop.features => g.sys.pedometerInt = TRUE
      /\ g.sys.dmp = IF drop.features = {} THEN FALSE ELSE drop.sys.dmp
  <2>1. Shape(drop)
    BY <1>5 DEF SameBut
  <2> QED  BY <2>1, PedometerBackDoes
<1> HIDE DEF g
<1>7. SameBut(h, idle, {}, {"pedQ", "gyro", "gyroFifo", "accel", "accelFifo"})
  BY <1>2, <1>3 DEF SameBut
<1>8. SameBut(idle, g, {"features", "mask", "dmpOn", "accelBias"}, {"dmp", "eventInt", "pedometerInt"})
  BY <1>4, <1>5, <1>6 DEF SameBut
<1>9. Keeps(h, g)
  <2>1. SameBut(h, g, {"features", "mask", "dmpOn", "accelBias"}, Switches)
    BY <1>7, <1>8 DEF SameBut, Switches
  <2> QED  BY <2>1, SwitchesKeep
<1>10. /\ idle.features = h.features /\ idle.sys.pedQ = FALSE /\ idle.mask = h.mask
       /\ idle.enabled = h.enabled /\ idle.sys.dmp = h.sys.dmp /\ idle.accelBias = h.accelBias
       /\ Dimmed(h, idle)
  BY <1>2, <1>3 DEF SameBut, Fields, Files, Attributes, Dimmed, DmpUsed
<1>11. /\ drop.features = idle.features \ {"pedQ"} /\ drop.mask = back.mask
       /\ drop.accelBias = idle.accelBias /\ drop.sys.dmp = idle.sys.dmp
       /\ drop.sys.accel = idle.sys.accel /\ drop.sys.pedQ = idle.sys.pedQ
       /\ drop.sys.gyro = idle.sys.gyro
  BY <1>4, <1>5 DEF SameBut, Fields, Files, Attributes
<1>12. /\ g.features = drop.features /\ g.mask = drop.mask
       /\ g.sys.accel = drop.sys.accel /\ g.sys.pedQ = drop.sys.pedQ
       /\ g.sys.gyro = drop.sys.gyro
  BY <1>6 DEF SameBut, Fields, Files, Attributes
<1>13. /\ g.sys.threeQ = h.sys.threeQ /\ g.sys.sixQ = h.sys.sixQ
       /\ g.sys.stepDetector = h.sys.stepDetector
  BY <1>7, <1>8 DEF SameBut, Files, Attributes
<1>14. Linked(h) => Linked(g)
  BY <1>10, <1>11, <1>12, <1>13 DEF Linked, Flag
<1>15. Masks(h, g)
  BY <1>4, <1>10, <1>11, <1>12 DEF Masks
<1>16. Moves(h, g)
  BY <1>6, <1>9, <1>10, <1>11, <1>12, <1>14, <1>15 DEF Moves, Steady
<1>17. Held(h) => Held(g)
  <2> SUFFICES ASSUME Held(h) PROVE Held(g)
    OBVIOUS
  <2>1. g.enabled \cap (NineAxes \cup {GRV, GMRV, "Accelerometer"}) # {} => g.sys.accel = TRUE
    BY <1>9, <1>10, <1>11, <1>12, HeldDimmed DEF Keeps
  <2>2. g.enabled \cap (NineAxes \cup {GMRV}) # {} => "accel" \in g.mask
    BY <1>4, <1>9, <1>10, <1>11, <1>12 DEF Held, Data, Keeps
  <2> QED  BY <1>4, <1>9, <1>10, <1>11, <1>12, <2>1, <2>2 DEF Held, Data, Keeps
<1>18. h.enabled \cap (NineAxes \cup {GMRV}) = {} => Data(g)
  BY <1>4, <1>9, <1>10, <1>11, <1>12 DEF Data, Keeps
<1>19. Lean(h) => Lean(g)
  <2>1. Dimmed(h, g) /\ h.mask \subseteq g.mask
    BY <1>4, <1>10, <1>11, <1>12 DEF Dimmed
  <2> QED  BY <2>1, LeanDimmed
<1> QED  BY <1>1, <1>6, <1>10, <1>11, <1>12, <1>16, <1>17, <1>18, <1>19
StepsSame(h, g) ==
  /\ g.sys.pedometerInt = h.sys.pedometerInt /\ g.sys.stepIndicator = h.sys.stepIndicator
  /\ g.sys.stepDetector = h.sys.stepDetector

\* The six-axis quaternion.
LEMMA SixAxisOnMoves ==
  ASSUME NEW h, Shape(h), GRV \in h.enabled
  PROVE  LET g == EnableSixAxis(h, TRUE)
         IN  /\ Moves(h, g) /\ g.features = h.features \cup {"six"}
             /\ g.sys.dmp = TRUE /\ StepsSame(h, g)
             /\ h.enabled \cap (NineAxes \cup {GMRV}) = {} => Held(g)
<1> DEFINE put == Put(h, [sixQ |-> TRUE])
           data == SixAxisData(h, TRUE)
           dmp == OnDmp(data, TRUE)
           g == Add(dmp, "six")
<1>1. EnableSixAxis(h, TRUE) = g
  BY DEF EnableSixAxis
<1>2. SameBut(h, put, {}, {"sixQ"}) /\ put.sys.sixQ = TRUE
  BY SixQDoes
<1>3. /\ SameBut(put, data, {"mask"}, {"gyro", "gyroFifo", "accel", "accelFifo"})
      /\ data.sys.accel = TRUE
      /\ data.mask \subseteq put.mask /\ put.mask \subseteq data.mask \cup {"gyro", "accel"}
  <2> DEFINE on == EnableGyro(EnableAccel(put, TRUE), TRUE)
             a == IF Uses(on, "accel") /\ Batched(h, "Accelerometer") THEN on ELSE NoAccelFifo(on)
  <2>1. data = a \/ data = NoGyroFifo(a)
    BY DEF SixAxisData
  <2>2. a = on \/ a = NoAccelFifo(on)
    OBVIOUS
  <2>3. Shape(put)
    BY <1>2 DEF SameBut
  <2> HIDE DEF put, data, a
  <2>4. SameBut(put, on, {}, {"gyro", "gyroFifo", "accel", "accelFifo"}) /\ on.sys.accel = TRUE
    BY <2>3, BothOn
  <2> HIDE DEF on
  <2>5. /\ SameBut(on, data, {"mask"}, {"gyroFifo", "accelFifo"})
        /\ data.mask \subseteq on.mask /\ on.mask \subseteq data.mask \cup {"gyro", "accel"}
    <3>1. Shape(on)
      BY <2>4 DEF SameBut
    <3> QED  BY <2>1, <2>2, <3>1, Folded
  <2> QED  BY <2>4, <2>5 DEF SameBut, Files, Attributes, Fields
<1> HIDE DEF put, data
<1>4. SameBut(data, dmp, {"dmpOn"}, {"dmp", "eventInt"}) /\ dmp.sys.dmp = TRUE
  <2>1. Shape(data)
    BY <1>3 DEF SameBut
  <2> QED  BY <2>1, OnDmpOn
<1> HIDE DEF dmp
<1>5. SameBut(dmp, g, {"features"}, {}) /\ g.features = dmp.features \cup {"six"}
  <2>1. Shape(dmp)
    BY <1>4 DEF SameBut
  <2> QED  BY <2>1, FeatureSet
<1> HIDE DEF g
<1>7. SameBut(h, data, {"mask"}, {"sixQ", "gyro", "gyroFifo", "accel", "accelFifo"})
  BY <1>2, <1>3 DEF SameBut
<1>8. SameBut(data, g, {"features", "dmpOn"}, {"dmp", "eventInt"})
  BY <1>4, <1>5 DEF SameBut
<1>9. Keeps(h, g)
  <2>1. SameBut(h, g, {"features", "mask", "dmpOn", "accelBias"}, Switches)
    BY <1>7, <1>8 DEF SameBut, Switches
  <2> QED  BY <2>1, SwitchesKeep
<1>10. /\ data.features = h.features /\ data.sys.sixQ = TRUE
       /\ data.mask \subseteq h.mask /\ h.mask \subseteq data.mask \cup {"gyro", "accel"}
  BY <1>2, <1>3 DEF SameBut, Fields, Files, Attributes
<1>11. /\ g.features = h.features \cup {"six"} /\ g.mask = data.mask /\ g.accelBias = h.accelBias
       /\ g.sys.accel = TRUE /\ g.sys.sixQ = TRUE /\ g.sys.dmp = TRUE
  BY <1>3, <1>4, <1>5, <1>7, <1>8, <1>10 DEF SameBut, Fields, Files, Attributes
<1>12. g.sys.threeQ = h.sys.threeQ /\ g.sys.pedQ = h.sys.pedQ /\ StepsSame(h, g)
  BY <1>7, <1>8 DEF SameBut, Files, Attributes, StepsSame
<1>13. Linked(h) => Linked(g)
  BY <1>11, <1>12 DEF Linked, Flag, StepsSame
<1>14. Moves(h, g)
  BY <1>9, <1>10, <1>11, <1>13 DEF Moves, Masks, Steady
<1>15. h.enabled \cap (NineAxes \cup {GMRV}) = {} => Held(g)
  BY <1>9, <1>11 DEF Held, Data, Keeps, Quats
<1> QED  BY <1>1, <1>11, <1>12, <1>14, <1>15
\* Turning the six axis quaternion off.
LEMMA SixAxisOffMoves ==
  ASSUME NEW h, Shape(h)
  PROVE  LET g == EnableSixAxis(h, FALSE)
         IN  /\ Moves(h, g) /\ g.features = h.features \ {"six"} /\ h.mask \subseteq g.mask
             /\ Dimmed(h, g) /\ StepsSame(h, g)
             /\ (Held(h) => Held(g)) /\ (Lean(h) => Lean(g))
<1> DEFINE put == Put(h, [sixQ |-> FALSE])
           off == LpqFifos(IdleOff(put))
           back == MaskBack(off)
           data == SixAxisData(h, FALSE)
           drop == Drop(data, "six")
           g == NoFeatureNoDmp(drop)
<1>1. EnableSixAxis(h, FALSE) = g
  BY DEF EnableSixAxis
<1>2. SameBut(h, put, {}, {"sixQ"}) /\ put.sys.sixQ = FALSE
  BY SixQDoes
<1>3. \/ data = back
      \/ data = Put(back, [gyroFifo |-> TRUE, accelFifo |-> TRUE])
      \/ data = off /\ "pedQ" \in h.features
  BY DEF SixAxisData
<1> HIDE DEF put, data
<1>4. SameBut(put, off, {}, {"gyro", "gyroFifo", "accel", "accelFifo"}) /\ Dimmed(put, off)
  <2>1. Shape(put)
    BY <1>2 DEF SameBut
  <2> QED  BY <2>1, IdledDoes
<1> HIDE DEF off
<1>5. /\ SameBut(off, back, {"mask"}, {}) /\ Masks(off, back) /\ off.mask \subseteq back.mask
      /\ off.enabled \cap {GRV, "Accelerometer"} # {} => "accel" \in back.mask
      /\ off.enabled \cap Gyros # {} => {"gyro", "accel"} \cap back.mask # {}
  <2>1. Shape(off)
    BY <1>4 DEF SameBut
  <2> QED  BY <2>1, MaskBackDoes
<1> HIDE DEF back
<1>6. /\ SameBut(off, data, {"mask"}, {"gyroFifo", "accelFifo"})
      /\ Masks(off, data) /\ off.mask \subseteq data.mask
      /\ off.enabled \cap {GRV, "Accelerometer"} # {} =>
           "accel" \in data.mask \/ "pedQ" \in h.features
      /\ off.enabled \cap Gyros # {} =>
           {"gyro", "accel"} \cap data.mask # {} \/ "pedQ" \in h.features
  <2>1. CASE data = back
    BY <1>5, <2>1 DEF SameBut
  <2>2. CASE data = Put(back, [gyroFifo |-> TRUE, accelFifo |-> TRUE])
    <3> DEFINE fifos == Put(back, [gyroFifo |-> TRUE, accelFifo |-> TRUE])
    <3>1. SameBut(back, fifos, {}, {"gyroFifo", "accelFifo"})
      <4>1. Shape(back)
        BY <1>5 DEF SameBut
      <4> QED  BY <4>1, FifosDo
    <3>2. data = fifos
      BY <2>2
    <3> HIDE DEF fifos
    <3>3. data.mask = back.mask /\ data.enabled = back.enabled
      BY <3>1, <3>2 DEF SameBut, Fields
    <3>4. Masks(off, data)
      BY <1>5, <3>3 DEF Masks
    <3>5. SameBut(off, data, {"mask"}, {"gyroFifo", "accelFifo"})
      BY <1>5, <3>1, <3>2 DEF SameBut
    <3> QED  BY <1>5, <3>3, <3>4, <3>5
  <2>3. CASE data = off /\ "pedQ" \in h.features
    BY <1>4, <2>3 DEF SameBut, Masks
  <2> QED  BY <1>3, <2>1, <2>2, <2>3
<1>7. SameBut(data, drop, {"features"}, {}) /\ drop.features = data.features \ {"six"}
  <2>1. Shape(data)
    BY <1>6 DEF SameBut
  <2> QED  BY <2>1, FeatureSet
<1> HIDE DEF drop
<1>8. /\ SameBut(drop, g, {"dmpOn", "accelBias"}, {"dmp", "eventInt"})
      /\ g.accelBias => drop.accelBias
      /\ g.sys.dmp = IF drop.features = {} THEN FALSE ELSE drop.sys.dmp
  <2>1. Shape(drop)
    BY <1>7 DEF SameBut
  <2> QED  BY <2>1, NoFeatureNoDmpDoes
<1> HIDE DEF g
<1>9. SameBut(h, off, {}, {"sixQ", "gyro", "gyroFifo", "accel", "accelFifo"})
  BY <1>2, <1>4 DEF SameBut
<1>10. SameBut(off, g, {"features", "mask", "dmpOn", "accelBias"},
               {"dmp", "eventInt", "gyroFifo", "accelFifo"})
  BY <1>6, <1>7, <1>8 DEF SameBut
<1>11. Keeps(h, g)
  <2>1. SameBut(h, g, {"features", "mask", "dmpOn", "accelBias"}, Switches)
    BY <1>9, <1>10 DEF SameBut, Switches
  <2> QED  BY <2>1, SwitchesKeep
<1>12. /\ off.features = h.features /\ off.sys.sixQ = FALSE /\ off.mask = h.mask
       /\ off.enabled = h.enabled /\ off.sys.dmp = h.sys.dmp /\ off.accelBias = h.accelBias
       /\ Dimmed(h, off)
  BY <1>2, <1>4 DEF SameBut, Fields, Files, Attributes, Dimmed, DmpUsed
<1>13. /\ drop.features = off.features \ {"six"} /\ drop.mask = data.mask
       /\ drop.accelBias = off.accelBias /\ drop.sys.dmp = off.sys.dmp
       /\ drop.sys.accel = off.sys.accel /\ drop.sys.gyro = off.sys.gyro
       /\ drop.sys.sixQ = off.sys.sixQ
  BY <1>6, <1>7 DEF SameBut, Fields, Files, Attributes
<1>14. /\ g.features = drop.features /\ g.mask = drop.mask
       /\ g.sys.accel = drop.sys.accel /\ g.sys.gyro = drop.sys.gyro
       /\ g.sys.sixQ = drop.sys.sixQ
  BY <1>8 DEF SameBut, Fields, Files, Attributes
<1>15. g.sys.threeQ = h.sys.threeQ /\ g.sys.pedQ = h.sys.pedQ /\ StepsSame(h, g)
  BY <1>9, <1>10 DEF SameBut, Files, Attributes, StepsSame
<1>16. Linked(h) => Linked(g)
  BY <1>12, <1>13, <1>14, <1>15 DEF Linked, Flag, StepsSame
<1>17. Masks(h, g) /\ h.mask \subseteq g.mask /\ Dimmed(h, g)
  BY <1>6, <1>12, <1>13, <1>14 DEF Masks, Dimmed
<1>18. Moves(h, g)
  BY <1>8, <1>11, <1>12, <1>13, <1>14, <1>16, <1>17 DEF Moves, Steady
<1>19. Held(h) => Held(g)
  <2> SUFFICES ASSUME Held(h) PROVE Held(g)
    OBVIOUS
  <2>1. g.enabled \cap (NineAxes \cup {GRV, GMRV, "Accelerometer"}) # {} => g.sys.accel = TRUE
    BY <1>11, <1>17, HeldDimmed DEF Keeps
  <2>2. g.enabled \cap (NineAxes \cup {GMRV}) # {} => "accel" \in g.mask
    BY <1>11, <1>17 DEF Held, Data, Keeps
  <2>3. "pedQ" \in h.features => "pedQ" \in g.features
    BY <1>12, <1>13, <1>14
  <2> QED  BY <1>6, <1>11, <1>12, <1>13, <1>14, <2>1, <2>2, <2>3 DEF Held, Data, Keeps, Quats
<1>20. Lean(h) => Lean(g)
  BY <1>17, LeanDimmed
<1> QED  BY <1>1, <1>12, <1>13, <1>14, <1>15, <1>17, <1>18, <1>19, <1>20

\* The low power quaternion.
LEMMA LpqOnMoves ==
  ASSUME NEW h, Shape(h)
  PROVE  LET g == EnableLPQ(h, TRUE)
         IN  /\ Moves(h, g) /\ g.features = h.features \cup {"lpq"} /\ g.mask = h.mask
             /\ g.sys.dmp = TRUE /\ StepsSame(h, g)
             /\ g.sys.accel = h.sys.accel /\ g.sys.gyro = h.sys.gyro
             /\ g.sys.eventInt => h.sys.eventInt
             /\ Held(h) => Held(g)
<1> DEFINE put == Put(h, [threeQ |-> TRUE])
           dmp == OnDmp(put, TRUE)
           g == Add(dmp, "lpq")
<1>1. EnableLPQ(h, TRUE) = g
  BY DEF EnableLPQ
<1>2. SameBut(h, put, {}, {"threeQ"}) /\ put.sys.threeQ = TRUE
  BY ThreeQDoes
<1> HIDE DEF put
<1>3. /\ SameBut(put, dmp, {"dmpOn"}, {"dmp", "eventInt"}) /\ dmp.sys.dmp = TRUE
      /\ dmp.sys.eventInt => put.sys.eventInt
  <2>1. Shape(put)
    BY <1>2 DEF SameBut
  <2> QED  BY <2>1, OnDmpOn
<1> HIDE DEF dmp
<1>4. SameBut(dmp, g, {"features"}, {}) /\ g.features = dmp.features \cup {"lpq"}
  <2>1. Shape(dmp)
    BY <1>3 DEF SameBut
  <2> QED  BY <2>1, FeatureSet
<1> HIDE DEF g
<1>5. SameBut(h, g, {"features", "dmpOn"}, {"threeQ", "dmp", "eventInt"})
  BY <1>2, <1>3, <1>4 DEF SameBut
<1>6. Keeps(h, g)
  <2>1. SameBut(h, g, {"features", "mask", "dmpOn", "accelBias"}, Switches)
    BY <1>5 DEF SameBut, Switches
  <2> QED  BY <2>1, SwitchesKeep
<1>7. /\ g.features = h.features \cup {"lpq"} /\ g.sys.threeQ = TRUE /\ g.sys.dmp = TRUE
      /\ g.sys.eventInt => h.sys.eventInt
  BY <1>2, <1>3, <1>4 DEF SameBut, Fields, Files, Attributes
<1>8. /\ g.mask = h.mask /\ g.accelBias = h.accelBias /\ g.sys.accel = h.sys.accel
      /\ g.sys.gyro = h.sys.gyro /\ g.sys.sixQ = h.sys.sixQ /\ g.sys.pedQ = h.sys.pedQ
      /\ StepsSame(h, g)
  BY <1>5 DEF SameBut, Fields, Files, Attributes, StepsSame
<1>9. Linked(h) => Linked(g)
  BY <1>7, <1>8 DEF Linked, Flag, StepsSame
<1>10. Moves(h, g)
  BY <1>6, <1>7, <1>8, <1>9 DEF Moves, Masks, Steady
<1>11. Held(h) => Held(g)
  BY <1>6, <1>7, <1>8 DEF Held, Data, Keeps, Quats
<1> QED  BY <1>1, <1>7, <1>8, <1>10, <1>11
\* Turning the low power quaternion off.
LEMMA LpqOffMoves ==
  ASSUME NEW h, Shape(h)
  PROVE  LET g == EnableLPQ(h, FALSE)
         IN  /\ Moves(h, g) /\ g.features = h.features \ {"lpq"} /\ g.mask = h.mask
             /\ g.sys.dmp = IF g.features = {} THEN FALSE ELSE h.sys.dmp
             /\ StepsSame(h, g) /\ g.sys.accel = h.sys.accel /\ g.sys.gyro = h.sys.gyro
             /\ g.sys.eventInt => h.sys.eventInt
<1> DEFINE put == Put(h, [threeQ |-> FALSE])
           drop == Drop(put, "lpq")
           g == NoFeatureNoDmp(drop)
<1>1. EnableLPQ(h, FALSE) = g
  BY DEF EnableLPQ
<1>2. SameBut(h, put, {}, {"threeQ"}) /\ put.sys.threeQ = FALSE
  BY ThreeQDoes
<1> HIDE DEF put
<1>3. SameBut(put, drop, {"features"}, {}) /\ drop.features = put.features \ {"lpq"}
  <2>1. Shape(put)
    BY <1>2 DEF SameBut
  <2> QED  BY <2>1, FeatureSet
<1> HIDE DEF drop
<1>4. /\ SameBut(drop, g, {"dmpOn", "accelBias"}, {"dmp", "eventInt"})
      /\ g.accelBias => drop.accelBias
      /\ g.sys.eventInt => drop.sys.eventInt
      /\ g.sys.dmp = IF drop.features = {} THEN FALSE ELSE drop.sys.dmp
  <2>1. Shape(drop)
    BY <1>3 DEF SameBut
  <2> QED  BY <2>1, NoFeatureNoDmpDoes
<1> HIDE DEF g
<1>5. SameBut(h, g, {"features", "dmpOn", "accelBias"}, {"threeQ", "dmp", "eventInt"})
  BY <1>2, <1>3, <1>4 DEF SameBut
<1>6. Keeps(h, g)
  <2>1. SameBut(h, g, {"features", "mask", "dmpOn", "accelBias"}, Switches)
    BY <1>5 DEF SameBut, Switches
  <2> QED  BY <2>1, SwitchesKeep
<1>7. /\ drop.features = h.features \ {"lpq"} /\ drop.sys.threeQ = FALSE
      /\ drop.accelBias = h.accelBias /\ drop.sys.dmp = h.sys.dmp
      /\ drop.sys.eventInt = h.sys.eventInt
  BY <1>2, <1>3 DEF SameBut, Fields, Files, Attributes
<1>8. g.features = drop.features /\ g.sys.threeQ = drop.sys.threeQ
  BY <1>4 DEF SameBut, Fields, Files, Attributes
<1>9. /\ g.mask = h.mask /\ g.sys.accel = h.sys.accel
      /\ g.sys.gyro = h.sys.gyro /\ g.sys.sixQ = h.sys.sixQ /\ g.sys.pedQ = h.sys.pedQ
      /\ StepsSame(h, g)
  BY <1>5 DEF SameBut, Fields, Files, Attributes, StepsSame
<1>10. Linked(h) => Linked(g)
  BY <1>7, <1>8, <1>9 DEF Linked, Flag, StepsSame
<1>11. Moves(h, g)
  BY <1>4, <1>6, <1>7, <1>8, <1>9, <1>10 DEF Moves, Masks, Steady
<1> QED  BY <1>1, <1>4, <1>7, <1>8, <1>9, <1>11

\* The step bit in the packets.
LEMMA IndicatorMoves ==
  ASSUME NEW h, Shape(h), NEW en \in BOOLEAN
  PROVE  LET g == EnablePedIndicator(h, en)
         IN  /\ Moves(h, g) /\ g.features = h.features /\ g.mask = h.mask
             /\ g.sys.stepIndicator = en /\ g.sys.dmp = h.sys.dmp
             /\ ~en => g.sys.pedometerInt = h.sys.pedometerInt
             /\ en /\ "pedQ" \notin h.features => g.sys.accel = TRUE
             /\ (Held(h) => Held(g)) /\ (~en /\ Lean(h) => Lean(g))
<1> DEFINE put == Put(h, [pedometerInt |-> FALSE])
           i == EnableAccel(put, TRUE)
           fifo == TurnOffAccelFifo(i)
           off == EnableAccel(h, FALSE)
           on1 == IF "pedQ" \in h.features THEN h ELSE IF Uses(h, "accel") THEN i ELSE fifo
           off1 == IF ~DmpUsed(h) /\ ~Uses(h, "accel") THEN off ELSE h
           r == IF en THEN on1 ELSE off1
           g == Put(r, [stepIndicator |-> en])
<1>1. EnablePedIndicator(h, en) = g
  BY DEF EnablePedIndicator
<1>2. SameBut(h, put, {}, {"pedometerInt"})
  BY PedIntDoes
<1> HIDE DEF put
<1>3. SameBut(put, i, {}, {"accel", "accelFifo"}) /\ i.sys.accel = TRUE
  <2>1. Shape(put)
    BY <1>2 DEF SameBut
  <2> QED  BY <2>1, AccelDoes
<1> HIDE DEF i
<1>4. SameBut(i, fifo, {}, {"accelFifo"})
  <2>1. Shape(i)
    BY <1>3 DEF SameBut
  <2> QED  BY <2>1, FifosDo
<1> HIDE DEF fifo
<1>5. SameBut(h, off, {}, {"accel", "accelFifo"}) /\ off.sys.accel = FALSE
  BY AccelDoes
<1> HIDE DEF off
<1>6. /\ SameBut(h, r, {}, {"pedometerInt", "accel", "accelFifo"})
      /\ ~en => r.sys.pedometerInt = h.sys.pedometerInt
      /\ en /\ "pedQ" \notin h.features => r.sys.accel = TRUE
      /\ ~en /\ r.sys.accel => h.sys.accel
      /\ Held(h) /\ h.enabled \cap (NineAxes \cup {GRV, GMRV, "Accelerometer"}) # {} =>
           r.sys.accel = TRUE
  <2>1. CASE en
    <3>1. SameBut(h, on1, {}, {"pedometerInt", "accel", "accelFifo"})
      BY <1>2, <1>3, <1>4 DEF SameBut
    <3>2. "pedQ" \notin h.features => on1.sys.accel = TRUE
      BY <1>3, <1>4 DEF SameBut, Files, Attributes
    <3>3. "pedQ" \in h.features => on1 = h
      OBVIOUS
    <3>4. r = on1
      BY <2>1
    <3> HIDE DEF on1, r
    <3> QED  BY <2>1, <3>1, <3>2, <3>3, <3>4 DEF Held
  <2>2. CASE ~en
    <3>1. SameBut(h, off1, {}, {"accel", "accelFifo"})
      BY <1>5, Itself
    <3>2. r = off1
      BY <2>2
    <3>3. off1.sys.accel = IF ~DmpUsed(h) /\ "accel" \notin h.mask THEN FALSE ELSE h.sys.accel
      BY <1>5 DEF Uses
    <3>4. off1.sys.pedometerInt = h.sys.pedometerInt
      BY <3>1 DEF SameBut, Files, Attributes
    <3> HIDE DEF off1, r
    <3>5. SameBut(h, off1, {}, {"pedometerInt", "accel", "accelFifo"})
      BY <3>1, Widen
    <3> QED  BY <2>2, <3>2, <3>3, <3>4, <3>5 DEF Held, Data, DmpUsed, DmpFeatures, Quats
  <2> QED  BY <2>1, <2>2
<1> HIDE DEF r
<1>7. SameBut(r, g, {}, {"stepIndicator"}) /\ g.sys.stepIndicator = en
  <2>1. Shape(r)
    BY <1>6 DEF SameBut
  <2> QED  BY <2>1, IndicatorDoes
<1> HIDE DEF g
<1>8. SameBut(h, g, {}, {"pedometerInt", "accel", "accelFifo", "stepIndicator"})
  BY <1>6, <1>7 DEF SameBut
<1>9. Keeps(h, g)
  <2>1. SameBut(h, g, {"features", "mask", "dmpOn", "accelBias"}, Switches)
    BY <1>8 DEF SameBut, Switches
  <2> QED  BY <2>1, SwitchesKeep
<1>10. /\ g.features = h.features /\ g.mask = h.mask /\ g.accelBias = h.accelBias
       /\ g.sys.threeQ = h.sys.threeQ /\ g.sys.sixQ = h.sys.sixQ /\ g.sys.pedQ = h.sys.pedQ
       /\ g.sys.stepDetector = h.sys.stepDetector /\ g.sys.dmp = h.sys.dmp
  BY <1>8 DEF SameBut, Fields, Files, Attributes
<1>11. g.sys.accel = r.sys.accel /\ g.sys.pedometerInt = r.sys.pedometerInt
  BY <1>7 DEF SameBut, Files, Attributes
<1>12. Linked(h) => Linked(g)
  BY <1>10 DEF Linked
<1>13. Moves(h, g)
  BY <1>9, <1>10, <1>12 DEF Moves, Masks, Steady
<1>14. Held(h) => Held(g)
  BY <1>6, <1>9, <1>10, <1>11 DEF Held, Data, Keeps
<1>15. ~en /\ Lean(h) => Lean(g)
  BY <1>6, <1>8, <1>10, <1>11 DEF Lean, SameBut, Files, Attributes
<1> QED  BY <1>1, <1>6, <1>7, <1>10, <1>11, <1>13, <1>14, <1>15
-----------------------------------------------------------------------------
(* Rates and the batch timeout *)

\* Nothing changes that the invariants look at.
Quiet(h, g) ==
  /\ Keeps(h, g) /\ StepsSame(h, g)
  /\ g.features = h.features /\ g.mask = h.mask /\ g.accelBias = h.accelBias
  /\ g.sys.threeQ = h.sys.threeQ /\ g.sys.sixQ = h.sys.sixQ /\ g.sys.pedQ = h.sys.pedQ
  /\ g.sys.gyro = h.sys.gyro /\ g.sys.accel = h.sys.accel
  /\ g.sys.dmp = h.sys.dmp /\ g.sys.eventInt = h.sys.eventInt

\* Two quiet steps are one.
LEMMA QuietTwice ==
  ASSUME NEW h, NEW g, NEW k, Quiet(h, g), Quiet(g, k)
  PROVE  Quiet(h, k)
BY DEF Quiet, Keeps, StepsSame

\* A rate is no such thing.
RateMembers == {"rates", "batchRates", "quatBatch", "delays", "batchDelays", "dmpState", "dataInt",
                "firstBatch", "enableCalled", "dmpOn"}
\* Writing rates is quiet.
LEMMA RatesQuiet ==
  ASSUME NEW h, NEW g, SameBut(h, g, RateMembers, Rates)
  PROVE  Quiet(h, g)
<1>1. Keeps(h, g) /\ StepsSame(h, g)
  BY DEF SameBut, Keeps, StepsSame, RateMembers, Rates, Fields, Files, Attributes
<1>2. g.features = h.features /\ g.mask = h.mask /\ g.accelBias = h.accelBias
  BY DEF SameBut, RateMembers, Fields
<1>3. /\ g.sys.threeQ = h.sys.threeQ /\ g.sys.sixQ = h.sys.sixQ /\ g.sys.pedQ = h.sys.pedQ
      /\ g.sys.gyro = h.sys.gyro /\ g.sys.accel = h.sys.accel
      /\ g.sys.dmp = h.sys.dmp /\ g.sys.eventInt = h.sys.eventInt
  BY DEF SameBut, Rates, Files, Attributes
<1> QED  BY <1>1, <1>2, <1>3 DEF Quiet
\* A write of rates writes nothing else.
LEMMA RatesPut ==
  ASSUME NEW h, Shape(h), NEW v, DOMAIN v \subseteq Rates
  PROVE  SameBut(h, Put(h, v), {}, Rates)
<1>1. SameBut(h, Put(h, v), {}, DOMAIN v)
  BY PutDoes DEF Files
<1> QED  BY <1>1, Widen
\* So does the rate of the DMP.
LEMMA DmpRateDoes ==
  ASSUME NEW h, Shape(h), NEW p
  PROVE  SameBut(h, DmpRate(h, p), {}, Rates)
BY RatesPut, Itself DEF DmpRate, Rates
\* The rates of a batch are quiet.
LEMMA SetBatchRatesQuiet ==
  ASSUME NEW h, Shape(h)
  PROVE  Quiet(h, SetBatchRates(h))
<1> DEFINE r == BatchRates(h)
           quat == IF QuatActive(h) THEN Of(h, GRV) ELSE 0
           at == AtLeast(r[3], CompassMin)
           d == IF QuatActive(h) THEN DmpRate(h, quat) ELSE h
           v == [gyroRate |-> r[1], accelRate |-> r[2], compassRate |-> at, pressureRate |-> r[4]]
           put == Put(d, v)
           br == <<r[1], r[2], at, r[4]>>
           q == IF QuatActive(h) /\ h.dmpOn THEN 1 ELSE quat
           b == [put EXCEPT !.batchRates = br]
           g == [b EXCEPT !.quatBatch = q]
<1>1. SetBatchRates(h) = [put EXCEPT !.batchRates = br, !.quatBatch = q]
  BY DEF SetBatchRates
<1>2. DOMAIN v \subseteq Rates
  BY DEF Rates
<1> HIDE DEF quat, r, at, v, br, q
<1>3. SetBatchRates(h) = g
  BY <1>1
<1>4. SameBut(h, d, {}, Rates)
  BY DmpRateDoes, Itself
<1> HIDE DEF d
<1>5. SameBut(d, put, {}, Rates)
  <2>1. Shape(d)
    BY <1>4 DEF SameBut
  <2> QED  BY <1>2, <2>1, RatesPut
<1> HIDE DEF put
<1>6. SameBut(put, b, {"batchRates"}, {})
  <2>1. Shape(put)
    BY <1>5 DEF SameBut
  <2> QED  BY <2>1, FieldSet DEF Fields
<1> HIDE DEF b
<1>7. SameBut(b, g, {"quatBatch"}, {})
  <2>1. Shape(b)
    BY <1>6 DEF SameBut
  <2> QED  BY <2>1, FieldSet DEF Fields
<1> HIDE DEF g
<1>8. SameBut(h, g, RateMembers, Rates)
  BY <1>4, <1>5, <1>6, <1>7 DEF SameBut, RateMembers
<1> QED  BY <1>3, <1>8, RatesQuiet
\* The rates without one are quiet.
LEMMA ResetRatesQuiet ==
  ASSUME NEW h, Shape(h)
  PROVE  Quiet(h, ResetRates(h))
<1> DEFINE p == Fastest(h)
           at == AtLeast(p, CompassMin)
           v == [gyroRate |-> p, accelRate |-> p, pressureRate |-> p, compassRate |-> at]
           d == DmpRate(h, p)
           put == Put(d, v)
           pair == <<p, at>>
           g == [put EXCEPT !.rates = pair]
<1>1. ResetRates(h) = IF h.enabled = {} THEN h ELSE g
  BY DEF ResetRates
<1>2. DOMAIN v \subseteq Rates
  BY DEF Rates
<1> HIDE DEF p, at, v, pair
<1>3. SameBut(h, d, {}, Rates)
  BY DmpRateDoes
<1> HIDE DEF d
<1>4. SameBut(d, put, {}, Rates)
  <2>1. Shape(d)
    BY <1>3 DEF SameBut
  <2> QED  BY <1>2, <2>1, RatesPut
<1> HIDE DEF put
<1>5. SameBut(put, g, {"rates"}, {})
  <2>1. Shape(put)
    BY <1>4 DEF SameBut
  <2> QED  BY <2>1, FieldSet DEF Fields
<1> HIDE DEF g
<1>6. SameBut(h, g, RateMembers, Rates)
  BY <1>3, <1>4, <1>5 DEF SameBut, RateMembers
<1> QED  BY <1>1, <1>6, Itself, RatesQuiet
-----------------------------------------------------------------------------
(* The outputs that setBatch chooses *)

Steps(h) ==
  "pedometer" \in h.features =>
    \/ h.sys.pedometerInt = TRUE \/ h.sys.stepIndicator = TRUE \/ h.sys.stepDetector = TRUE
\* One quaternion for who needs one; a batch's outputs only in a batch.
Picked(h, batching) ==
  /\ \A p, q \in h.features \cap Quats : p = q
  /\ "lpq" \in h.features => h.enabled \cap FusedAxes # {}
  /\ h.features \cap {"six", "pedQ"} # {} => GRV \in h.enabled /\ batching
  /\ h.enabled \cap FusedAxes # {} => h.features \cap Quats # {}
  /\ "standalone" \in h.features => batching /\ "pedometer" \in h.features
Wanted(h) == \/ h.features \cap {"batch", "standalone", "pedometer", "pedometerStep", "smd"} # {}
             \/ h.enabled \cap FusedAxes # {}
\* Nothing is on without reason.
Lit(h) ==
  /\ h.sys.gyro /\ "gyro" \notin h.mask => Wanted(h)
  /\ h.sys.accel /\ "accel" \notin h.mask => Wanted(h)

\* A quaternion that is folded into the packets only serves itself.
Folds(h) == h.enabled \cap (NineAxes \cup {GMRV}) = {}

\* The stages, each for itself.
LEMMA StandaloneMoves ==
  ASSUME NEW h, Shape(h), NEW b \in BOOLEAN
  PROVE  LET g == EnablePedStandalone(h, b)
         IN  /\ Moves(h, g) /\ g.mask = h.mask
             /\ g.features = IF b THEN h.features \cup {"standalone"}
                             ELSE h.features \ {"standalone"}
             /\ (Held(h) => Held(g)) /\ (~b /\ Lean(h) => Lean(g))
<1>1. CASE b = TRUE
  BY <1>1, StandaloneOnMoves
<1>2. CASE b = FALSE
  BY <1>2, StandaloneOffMoves
<1> QED  BY <1>1, <1>2
\* The pedometer quaternion takes the low power quaternion's place.
LEMMA PedFolds ==
  ASSUME NEW h, Shape(h), Folds(h)
  PROVE  LET g == EnablePedQuaternion(EnableLPQ(h, FALSE), TRUE)
         IN  /\ Moves(h, g) /\ g.features = (h.features \ {"lpq"}) \cup {"pedQ"}
             /\ g.sys.dmp = TRUE /\ Held(g)
<1> DEFINE l == EnableLPQ(h, FALSE)
           g == EnablePedQuaternion(l, TRUE)
<1>1. Moves(h, l) /\ l.features = h.features \ {"lpq"}
  BY LpqOffMoves
<1> HIDE DEF l
<1>2. Shape(l) /\ Folds(l)
  BY <1>1 DEF Moves, Keeps, Folds
<1>3. Moves(l, g) /\ g.features = l.features \cup {"pedQ"} /\ g.sys.dmp = TRUE /\ Held(g)
  BY <1>2, PedQuaternionOnMoves DEF Folds
<1> HIDE DEF g
<1>4. Moves(h, g)
  BY <1>1, <1>3, MovesTwice
<1> QED  BY <1>1, <1>3, <1>4 DEF g, l
\* The six axis quaternion takes it.
LEMMA SixFolds ==
  ASSUME NEW h, Shape(h), Folds(h), GRV \in h.enabled
  PROVE  LET g == EnableSixAxis(EnableLPQ(h, FALSE), TRUE)
         IN  /\ Moves(h, g) /\ g.features = (h.features \ {"lpq"}) \cup {"six"}
             /\ g.sys.dmp = TRUE /\ Held(g) /\ StepsSame(h, g)
<1> DEFINE l == EnableLPQ(h, FALSE)
           g == EnableSixAxis(l, TRUE)
<1>1. Moves(h, l) /\ l.features = h.features \ {"lpq"} /\ StepsSame(h, l)
  BY LpqOffMoves
<1> HIDE DEF l
<1>2. Shape(l) /\ Folds(l) /\ GRV \in l.enabled
  BY <1>1 DEF Moves, Keeps, Folds
<1>3. /\ Moves(l, g) /\ g.features = l.features \cup {"six"} /\ g.sys.dmp = TRUE /\ Held(g)
      /\ StepsSame(l, g)
  BY <1>2, SixAxisOnMoves DEF Folds
<1> HIDE DEF g
<1>4. Moves(h, g)
  BY <1>1, <1>3, MovesTwice
<1>5. StepsSame(h, g)
  BY <1>1, <1>3 DEF StepsSame
<1> QED  BY <1>1, <1>3, <1>4, <1>5 DEF g, l
\* The end of both: the six-axis quaternion is turned off.
LEMMA SixOut ==
  ASSUME NEW h, Shape(h), NEW l, l = h \/ l = EnableLPQ(h, TRUE)
  PROVE  LET g == EnableSixAxis(l, FALSE)
         IN  /\ Moves(h, g) /\ StepsSame(h, g)
             /\ g.features = l.features \ {"six"}
             /\ l.features = h.features \cup (IF l = h THEN {} ELSE {"lpq"})
             /\ (Held(h) => Held(g)) /\ (Lean(h) => Lean(g))
             /\ "orientation" \notin h.features /\ (l.features \cap Quats # {} => h.enabled \cap FusedAxes # {})
                  => Lit(g)
<1> DEFINE g == EnableSixAxis(l, FALSE)
<1>1. /\ Moves(h, l) /\ StepsSame(h, l) /\ (Held(h) => Held(l)) /\ (Lean(h) => Lean(l))
      /\ l.features = h.features \cup (IF l = h THEN {} ELSE {"lpq"})
  <2>1. l.mask = h.mask /\ l.sys.accel = h.sys.accel /\ l.sys.gyro = h.sys.gyro
    BY LpqOnMoves
  <2>2. Lean(h) => Lean(l)
    BY <2>1 DEF Lean
  <2> QED  BY <2>2, LpqOnMoves, MovesNot DEF StepsSame
<1>2. Shape(l)
  BY <1>1 DEF Moves, Keeps
<1>3. /\ Moves(l, g) /\ g.features = l.features \ {"six"} /\ l.mask \subseteq g.mask
      /\ Dimmed(l, g) /\ StepsSame(l, g) /\ (Held(l) => Held(g)) /\ (Lean(l) => Lean(g))
  BY <1>2, SixAxisOffMoves
<1> HIDE DEF g
<1>4. Moves(h, g)
  BY <1>1, <1>3, MovesTwice
<1>5. StepsSame(h, g)
  BY <1>1, <1>3 DEF StepsSame
<1>6. ASSUME "orientation" \notin h.features,
             l.features \cap Quats # {} => h.enabled \cap FusedAxes # {}
      PROVE  Lit(g)
  <2>1. g.enabled = h.enabled
    BY <1>4 DEF Moves, Keeps
  <2>2. DmpUsed(l) => Wanted(g)
    BY <1>1, <1>3, <1>6, <2>1 DEF DmpUsed, DmpFeatures, Wanted, Quats
  <2> QED  BY <1>3, <2>2 DEF Lit, Dimmed
<1> QED  BY <1>1, <1>3, <1>4, <1>5, <1>6 DEF g

\* The four stages of setBatch, with their conditions.
Stages(h, en, fm, b1, b2, b3, b4, s1, s2, s3, s4, l) ==
  /\ b1 \in BOOLEAN /\ b2 \in BOOLEAN /\ b3 \in BOOLEAN /\ b4 \in BOOLEAN
  /\ b1 <=> en /\ "pedometer" \in h.features /\ "standalone" \in fm
  /\ s1 = EnablePedStandalone(h, b1)
  /\ b2 <=> en /\ "pedometer" \in s1.features /\ GRV \in h.enabled /\ "pedQ" \in fm
  /\ s2 = IF b2 THEN EnablePedQuaternion(EnableLPQ(s1, FALSE), TRUE)
            ELSE EnablePedQuaternion(s1, FALSE)
  /\ b3 <=> en /\ "indicator" \in fm /\ (s2.enabled # {} \/ "standalone" \in s2.features)
  /\ s3 = EnablePedIndicator(s2, b3)
  /\ b4 <=> en /\ GRV \in h.enabled /\ "six" \in fm
  /\ l = IF "pedQ" \notin fm /\ GRV \in h.enabled THEN EnableLPQ(s3, TRUE) ELSE s3
  /\ s4 = IF b4 THEN EnableSixAxis(EnableLPQ(s3, FALSE), TRUE) ELSE EnableSixAxis(l, FALSE)
\* The state they start from: of the batch only what is enabled is missing.
Ready(h, en) ==
  /\ en => h.enabled \subseteq h.batch
  /\ h.batch \subseteq Batchable
  /\ "orientation" \notin h.features
  /\ Held(h) \/ (en /\ GRV \in h.enabled)
  /\ "lpq" \in h.features => h.enabled \cap FusedAxes # {}
  /\ "six" \in h.features => GRV \in h.enabled \/ en \/ Lean(h)
  /\ h.enabled \cap NineAxes # {} => "lpq" \in h.features
  /\ GRV \in h.enabled /\ "pedQ" \in DataOutput(h) /\ (~en \/ "pedometer" \notin h.features)
       => "lpq" \in h.features
\* With a choice of outputs for each case, the four stages leave a state in
\* which the sensors, the steps and the quaternions are right.
LEMMA OutputsChosen ==
  ASSUME NEW h, Shape(h), NEW en \in BOOLEAN, NEW b1, NEW b2, NEW b3, NEW b4,
         NEW s1, NEW s2, NEW s3, NEW s4, NEW l,
         Stages(h, en, DataOutput(h), b1, b2, b3, b4, s1, s2, s3, s4, l), Ready(h, en),
         en => "batch" \in h.features
  PROVE  Moves(h, s4) /\ Held(s4) /\ Steps(s4) /\ Picked(s4, en) /\ Lit(s4)
<1> DEFINE fm == DataOutput(h)
<1>a. /\ b1 \in BOOLEAN /\ b2 \in BOOLEAN /\ b3 \in BOOLEAN /\ b4 \in BOOLEAN
      /\ b1 <=> en /\ "pedometer" \in h.features /\ "standalone" \in fm
      /\ s1 = EnablePedStandalone(h, b1)
      /\ b2 <=> en /\ "pedometer" \in s1.features /\ GRV \in h.enabled /\ "pedQ" \in fm
      /\ s2 = IF b2 THEN EnablePedQuaternion(EnableLPQ(s1, FALSE), TRUE)
              ELSE EnablePedQuaternion(s1, FALSE)
      /\ b3 <=> en /\ "indicator" \in fm /\ (s2.enabled # {} \/ "standalone" \in s2.features)
      /\ s3 = EnablePedIndicator(s2, b3)
      /\ b4 <=> en /\ GRV \in h.enabled /\ "six" \in fm
      /\ l = IF "pedQ" \notin fm /\ GRV \in h.enabled THEN EnableLPQ(s3, TRUE) ELSE s3
      /\ s4 = IF b4 THEN EnableSixAxis(EnableLPQ(s3, FALSE), TRUE) ELSE EnableSixAxis(l, FALSE)
  BY DEF Stages
<1>b. /\ en => h.enabled \subseteq h.batch
      /\ h.batch \subseteq Batchable
      /\ "orientation" \notin h.features
      /\ Held(h) \/ (en /\ GRV \in h.enabled)
      /\ "lpq" \in h.features => h.enabled \cap FusedAxes # {}
      /\ "six" \in h.features => GRV \in h.enabled \/ en \/ Lean(h)
      /\ h.enabled \cap NineAxes # {} => "lpq" \in h.features
      /\ GRV \in h.enabled /\ "pedQ" \in fm /\ (~en \/ "pedometer" \notin h.features)
           => "lpq" \in h.features
  BY DEF Ready
<1>c. fm = DataOutput(h)
  OBVIOUS
<1> HIDE DEF fm
<1> USE <1>a, <1>b, <1>c
<1>1. /\ "pedQ" \in fm => "indicator" \in fm /\ "six" \notin fm
      /\ GRV \in h.batch => "pedQ" \in fm \/ "six" \in fm
      /\ "pedQ" \in fm => GRV \in h.batch
  BY DEF DataOutput
<1>2. en => Folds(h)
  BY DEF Folds, Batchable, NineAxes, GMRV, Hardware, Gyros, Compasses, GRV
<1>3. /\ Moves(h, s1) /\ s1.mask = h.mask /\ (Held(h) => Held(s1)) /\ (~b1 /\ Lean(h) => Lean(s1))
      /\ s1.features = IF b1 THEN h.features \cup {"standalone"} ELSE h.features \ {"standalone"}
  BY StandaloneMoves
<1>4. Shape(s1) /\ s1.enabled = h.enabled
  BY <1>3 DEF Moves, Keeps
<1>5. CASE b2
  <2>1. en /\ Folds(s1) /\ "pedometer" \in h.features /\ GRV \in h.enabled /\ "pedQ" \in fm
    BY <1>2, <1>3, <1>4, <1>5 DEF Folds
  <2>2. Moves(s1, s2) /\ s2.features = (s1.features \ {"lpq"}) \cup {"pedQ"} /\ Held(s2)
    BY <1>4, <1>5, <2>1, PedFolds
  <2>3. Shape(s2) /\ s2.enabled = h.enabled
    BY <1>4, <2>2 DEF Moves, Keeps
  <2>4. b3 = TRUE /\ ~b4
    BY <1>1, <2>1, <2>3
  <2>5. /\ Moves(s2, s3) /\ s3.features = s2.features /\ Held(s3) /\ s3.sys.stepIndicator = TRUE
    BY <2>2, <2>3, <2>4, IndicatorMoves
  <2>6. Shape(s3) /\ s3.enabled = h.enabled
    BY <2>3, <2>5 DEF Moves, Keeps
  <2>7. l = s3 /\ s4 = EnableSixAxis(l, FALSE)
    BY <2>1, <2>4
  <2>8. "orientation" \notin s3.features /\ (s3.features \cap Quats # {} => s3.enabled \cap FusedAxes # {})
    BY <1>3, <2>1, <2>2, <2>5, <2>6 DEF FusedAxes
  <2>9. /\ Moves(s3, s4) /\ StepsSame(s3, s4) /\ s4.features = s3.features \ {"six"} /\ Held(s4)
        /\ Lit(s4)
    BY ONLY <2>5, <2>6, <2>7, <2>8, SixOut
  <2>10. Moves(h, s4)
    BY <1>3, <2>2, <2>5, <2>9, MovesTwice
  <2>11. Steps(s4)
    BY <2>5, <2>9 DEF Steps, StepsSame
  <2>12. s4.enabled = h.enabled
    BY <2>10 DEF Moves, Keeps
  <2>13. s4.features = ((s1.features \ {"lpq"}) \cup {"pedQ"}) \ {"six"}
    BY <2>2, <2>5, <2>9
  <2>14. Picked(s4, en)
    BY <1>3, <2>1, <2>12, <2>13 DEF Picked, Quats, FusedAxes
  <2> QED  BY <2>9, <2>10, <2>11, <2>14
<1>6. CASE ~b2
  <2>1. /\ Moves(s1, s2) /\ s2.features = s1.features \ {"pedQ"} /\ (Held(s1) => Held(s2))
        /\ "pedometer" \in s2.features => s2.sys.pedometerInt = TRUE
        /\ (Folds(s1) => Data(s2)) /\ (Lean(s1) => Lean(s2))
    BY <1>4, <1>6, PedQuaternionOffMoves DEF Folds
  <2>2. Shape(s2) /\ s2.enabled = h.enabled
    BY <1>4, <2>1 DEF Moves, Keeps
  <2>3. /\ Moves(s2, s3) /\ s3.features = s2.features /\ s3.mask = s2.mask
        /\ b3 => s3.sys.stepIndicator = TRUE
        /\ ~b3 => s3.sys.pedometerInt = s2.sys.pedometerInt
        /\ b3 => s3.sys.accel = TRUE
        /\ (Held(s2) => Held(s3)) /\ (~b3 /\ Lean(s2) => Lean(s3))
    <3>1. CASE b3 = TRUE
      BY <2>1, <2>2, <3>1, IndicatorMoves
    <3>2. CASE b3 = FALSE
      <4>1. s3 = EnablePedIndicator(s2, FALSE)
        BY <3>2
      <4> QED  BY ONLY <2>2, <3>2, <4>1, IndicatorMoves
    <3> QED  BY <3>1, <3>2
  <2>4. Shape(s3) /\ s3.enabled = h.enabled
    BY <2>2, <2>3 DEF Moves, Keeps
  <2>5. Steps(s3)
    BY <2>1, <2>3 DEF Steps
  <2>6. ~b4 => Held(s3)
    <3>1. CASE Held(h)
      BY <1>3, <2>1, <2>3, <3>1
    <3>2. CASE en /\ GRV \in h.enabled /\ ~b4
      <4>1. Folds(s1) /\ "indicator" \in fm
        BY <1>1, <1>2, <1>4, <3>2 DEF Folds
      <4>2. b3 /\ Data(s2)
        BY <2>1, <2>2, <3>2, <4>1
      <4>3. Data(s3)
        BY ONLY <2>2, <2>3, <2>4, <4>2 DEF Data
      <4>4. s3.sys.accel = TRUE
        BY <2>3, <4>2
      <4> QED  BY <4>3, <4>4 DEF Held
    <3> QED  BY <3>1, <3>2
  <2>7. CASE b4
    <3>1. en /\ Folds(s3) /\ GRV \in s3.enabled
      BY <1>2, <2>4, <2>7 DEF Folds
    <3>2. /\ Moves(s3, s4) /\ s4.features = (s3.features \ {"lpq"}) \cup {"six"} /\ Held(s4)
          /\ StepsSame(s3, s4)
      BY <2>4, <2>7, <3>1, SixFolds
    <3>3. Moves(h, s4)
      BY <1>3, <2>1, <2>3, <3>2, MovesTwice
    <3>4. s4.enabled = h.enabled
      BY <3>3 DEF Moves, Keeps
    <3>5. Steps(s4)
      BY <2>5, <3>2 DEF Steps, StepsSame
    <3>6. Lit(s4)
      BY <2>4, <3>1, <3>4 DEF Lit, Wanted, FusedAxes
    <3>7. s4.features = ((s1.features \ {"pedQ"}) \ {"lpq"}) \cup {"six"}
      BY <2>1, <2>3, <3>2
    <3>8. Picked(s4, en)
      <4>1. s4.features \cap Quats = {"six"} /\ "lpq" \notin s4.features
        BY <3>7 DEF Quats
      <4>2. "standalone" \in s4.features => "pedometer" \in s4.features
        BY <1>3, <3>7
      <4>3. en /\ GRV \in s4.enabled
        BY <2>4, <3>1, <3>4
      <4> QED  BY ONLY <4>1, <4>2, <4>3 DEF Picked
    <3> QED  BY <3>2, <3>3, <3>5, <3>6, <3>8
  <2>8. CASE ~b4
    <3>1. l = s3 \/ l = EnableLPQ(s3, TRUE)
      OBVIOUS
    <3>2. /\ l.features = s3.features \cup (IF l = s3 THEN {} ELSE {"lpq"})
          /\ Moves(s3, s4) /\ StepsSame(s3, s4) /\ s4.features = l.features \ {"six"}
          /\ (Held(s3) => Held(s4)) /\ (Lean(s3) => Lean(s4))
          /\ "orientation" \notin s3.features /\ (l.features \cap Quats # {} => s3.enabled \cap FusedAxes # {})
               => Lit(s4)
      <4>1. s4 = EnableSixAxis(l, FALSE)
        BY <2>8
      <4> QED  BY ONLY <2>4, <3>1, <4>1, SixOut
    <3>3. /\ s3.features = s1.features \ {"pedQ"}
          /\ l # s3 => GRV \in h.enabled /\ h.enabled \cap FusedAxes # {}
          /\ "lpq" \in l.features => h.enabled \cap FusedAxes # {}
          /\ "six" \in l.features => "six" \in h.features
      <4>1. s3.features = s1.features \ {"pedQ"}
        BY <2>1, <2>3
      <4>2. l # s3 => GRV \in h.enabled /\ h.enabled \cap FusedAxes # {}
        BY DEF FusedAxes
      <4>3. "lpq" \in l.features => l # s3 \/ "lpq" \in h.features
        BY <1>3, <3>2, <4>1
      <4>4. "six" \in l.features => "six" \in h.features
        BY <1>3, <3>2, <4>1
      <4> QED  BY <4>1, <4>2, <4>3, <4>4
    <3>4. "orientation" \notin s3.features
      <4>1. "orientation" \notin s1.features
        BY <1>3
      <4> QED  BY <3>3, <4>1
    <3>5. Moves(h, s4)
      BY <1>3, <2>1, <2>3, <3>2, MovesTwice
    <3>6. s4.enabled = h.enabled
      BY <3>5 DEF Moves, Keeps
    <3>7. Steps(s4)
      BY <2>5, <3>2 DEF Steps, StepsSame
    <3>8. h.enabled \cap FusedAxes # {} => "lpq" \in l.features
      <4>1. CASE "pedQ" \notin fm /\ GRV \in h.enabled
        <5>1. l = EnableLPQ(s3, TRUE)
          BY <4>1
        <5>3. Shape(s3)
          BY <2>4
        <5>2. EnableLPQ(s3, TRUE).features = s3.features \cup {"lpq"}
          BY ONLY <5>3, LpqOnMoves
        <5> QED  BY <5>1, <5>2
      <4>2. CASE "pedQ" \in fm \/ GRV \notin h.enabled
        <5>1. "lpq" \in h.features \/ h.enabled \cap FusedAxes = {}
          BY <1>3, <1>6, <4>2 DEF FusedAxes
        <5> QED  BY <1>3, <3>2, <3>3, <5>1, ZenonT(60)
      <4> QED  BY <4>1, <4>2
    <3>9. Picked(s4, en)
      <4>1. s4.features \cap Quats \subseteq {"lpq"}
        BY <1>3, <3>2, <3>3 DEF Quats
      <4>2. "lpq" \in s4.features <=> "lpq" \in l.features
        BY <3>2
      <4>3. "standalone" \in s4.features => b1 /\ "pedometer" \in s4.features
        BY <1>3, <3>2, <3>3
      <4>4. "lpq" \in s4.features => h.enabled \cap FusedAxes # {}
        BY <3>3, <4>2
      <4>5. h.enabled \cap FusedAxes # {} => "lpq" \in s4.features
        BY <3>8, <4>2
      <4>6. b1 => en
        OBVIOUS
      <4> QED  BY ONLY <3>6, <4>1, <4>3, <4>4, <4>5, <4>6 DEF Picked, Quats
    <3>10. Lit(s4)
      <4>1. CASE "six" \in h.features => GRV \in h.enabled
        <5>1. l.features \cap Quats # {} => h.enabled \cap FusedAxes # {}
          <6>1. "pedQ" \notin l.features
            BY <3>2, <3>3
          <6> QED  BY <3>3, <4>1, <6>1 DEF Quats, FusedAxes
        <5> QED  BY <2>4, <3>2, <3>4, <5>1
      <4>2. CASE en
        <5>1. "batch" \in s4.features
          BY <3>5, <4>2 DEF Moves
        <5> QED  BY <5>1 DEF Lit, Wanted
      <4>3. CASE ~en /\ Lean(h)
        <5>1. Lean(s1) /\ Lean(s2) /\ Lean(s3)
          BY <1>3, <2>1, <2>3, <4>3
        <5> QED  BY <3>2, <5>1 DEF Lit, Lean
      <4> QED  BY <4>1, <4>2, <4>3
    <3> QED  BY <2>4, <2>6, <2>8, <3>2, <3>3, <3>4, <3>5, <3>7, <3>9, <3>10
  <2> QED  BY <2>7, <2>8
<1> QED  BY <1>5, <1>6
-----------------------------------------------------------------------------
(* setBatch *)

\* The accel bias, the rates and the switches of the chip as a whole apart,
\* nothing changes.
Same(h, g) ==
  /\ Shape(g)
  /\ g.enabled = h.enabled /\ g.batch = h.batch /\ g.dmpSensors = h.dmpSensors
  /\ g.timeouts = h.timeouts /\ g.features = h.features /\ g.mask = h.mask
  /\ g.sys.smd = h.sys.smd /\ g.sys.pedometer = h.sys.pedometer
  /\ g.sys.compass = h.sys.compass /\ g.sys.pressure = h.sys.pressure
  /\ g.sys.threeQ = h.sys.threeQ /\ g.sys.sixQ = h.sys.sixQ /\ g.sys.pedQ = h.sys.pedQ
  /\ g.sys.gyro = h.sys.gyro /\ g.sys.accel = h.sys.accel /\ StepsSame(h, g)
SameMembers == {"rates", "batchRates", "quatBatch", "delays", "batchDelays", "dmpState", "dataInt",
                "firstBatch", "enableCalled", "dmpOn", "timeout", "accelBias", "oldBatch"}
SameFiles == Rates \cup {"timeout", "dmp", "eventInt", "master"}
\* Writing other members and files keeps the features and the switches.
LEMMA ButSame ==
  ASSUME NEW h, NEW g, SameBut(h, g, SameMembers, SameFiles)
  PROVE  Same(h, g)
<1>1. /\ Shape(g) /\ g.enabled = h.enabled /\ g.batch = h.batch /\ g.dmpSensors = h.dmpSensors
      /\ g.timeouts = h.timeouts /\ g.features = h.features /\ g.mask = h.mask
  BY DEF SameBut, SameMembers, Fields
<1>2. /\ g.sys.smd = h.sys.smd /\ g.sys.pedometer = h.sys.pedometer
      /\ g.sys.compass = h.sys.compass /\ g.sys.pressure = h.sys.pressure
      /\ g.sys.threeQ = h.sys.threeQ /\ g.sys.sixQ = h.sys.sixQ /\ g.sys.pedQ = h.sys.pedQ
      /\ g.sys.gyro = h.sys.gyro /\ g.sys.accel = h.sys.accel /\ StepsSame(h, g)
  BY DEF SameBut, SameFiles, Rates, Files, Attributes, StepsSame
<1> QED  BY <1>1, <1>2 DEF Same
\* A quiet step keeps them.
LEMMA QuietSame ==
  ASSUME NEW h, NEW g, Quiet(h, g)
  PROVE  Same(h, g)
BY DEF Quiet, Keeps, Same
\* Two steps that keep them.
LEMMA SameTwice ==
  ASSUME NEW h, NEW g, NEW k, Same(h, g), Same(g, k)
  PROVE  Same(h, k)
BY DEF Same, StepsSame
\* What is right of the features and the switches stays right.
LEMMA SameGood ==
  ASSUME NEW h, NEW g, Same(h, g)
  PROVE  /\ Held(h) => Held(g)
         /\ Steps(h) => Steps(g)
         /\ \A b : Picked(h, b) => Picked(g, b)
         /\ Lit(h) => Lit(g)
         /\ Linked(h) => Linked(g)
<1>1. Held(h) => Held(g)
  BY DEF Same, Held, Data
<1>2. Steps(h) => Steps(g)
  BY DEF Same, Steps, StepsSame
<1>3. \A b : Picked(h, b) => Picked(g, b)
  BY DEF Same, Picked
<1>4. Lit(h) => Lit(g)
  BY DEF Same, Lit, Wanted
<1>5. Linked(h) => Linked(g)
  BY DEF Same, Linked, StepsSame
<1> QED  BY <1>1, <1>2, <1>3, <1>4, <1>5

\* What stays of a state through setBatch.
Follows(h, g) ==
  /\ Shape(g)
  /\ g.enabled = h.enabled /\ g.batch = h.batch /\ g.dmpSensors = h.dmpSensors
  /\ g.timeouts = h.timeouts
  /\ g.sys.smd = h.sys.smd /\ g.sys.pedometer = h.sys.pedometer
  /\ g.sys.compass = h.sys.compass /\ g.sys.pressure = h.sys.pressure
  /\ Masks(h, g)
  /\ \A f \in {"orientation", "smd", "pedometer", "pedometerStep"} :
        f \in g.features <=> f \in h.features
  /\ g.accelBias => h.accelBias
\* A move of the batch mode may follow in the call.
LEMMA MovesFollow ==
  ASSUME NEW h, NEW g, Moves(h, g)
  PROVE  Follows(h, g)
BY DEF Moves, Keeps, Follows
\* A step that keeps the features may.
LEMMA SameFollow ==
  ASSUME NEW h, NEW g, Same(h, g), g.accelBias => h.accelBias
  PROVE  Follows(h, g)
BY DEF Same, Follows, Masks
\* Two such steps in a row.
LEMMA FollowsTwice ==
  ASSUME NEW h, NEW g, NEW k, Follows(h, g), Follows(g, k)
  PROVE  Follows(h, k)
<1>1. Masks(h, k)
  BY DEF Follows, Masks
<1> QED  BY <1>1 DEF Follows

\* The shortest timeout.
LEMMA Least ==
  ASSUME NEW S \in SUBSET Nat, S # {}
  PROVE  Min(S) \in S
<1>1. PICK x \in S : \A y \in S : ~(<<y, x>> \in OpToRel(<, Nat))
  BY NatLessThanWellFounded, WFMin
<1>2. \A y \in S : y < x => <<y, x>> \in OpToRel(<, Nat)
  BY DEF OpToRel
<1>3. \A y \in S : y \in Nat /\ x \in Nat /\ ~(y < x)
  BY <1>1, <1>2
<1>4. \A y \in S : x =< y
  BY <1>3
<1> QED  BY <1>4 DEF Min
Timed(h) ==
  /\ h.batch \subseteq Sensors /\ h.timeouts \in [Sensors -> {n \in Nat : n >= Millisecond}]
  /\ h.timeout = h.sys.timeout
\* A timeout of a millisecond or more is not 0 in milliseconds.
LEMMA WholeMilliseconds ==
  ASSUME NEW n \in Nat, NEW d \in Nat \ {0}, n >= d
  PROVE  n \div d \in Nat /\ n \div d > 0
OBVIOUS
\* The batch timeout is positive exactly in batch mode.
LEMMA TimeoutPositive ==
  ASSUME NEW h, Timed(h), NEW en \in BOOLEAN
  PROVE  BatchTimeout(h, en) \in Nat /\ (BatchTimeout(h, en) > 0 <=> en)
<1> DEFINE of == (h.enabled \cap h.batch) \cup (IF StandaloneBatched(h) THEN {"StepDetector"} ELSE {})
           S == {h.timeouts[s] : s \in of} \cup {NoTimeout}
<1>1. of \subseteq Sensors
  BY DEF Timed, StandaloneBatched
<1>2. BatchTimeout(h, en) = IF en THEN Min(S) \div Millisecond ELSE 0
  BY DEF BatchTimeout
<1> HIDE DEF of
<1>3. S \subseteq {n \in Nat : n >= Millisecond} /\ S # {}
  BY <1>1, ConfigAssumption DEF Timed
<1> HIDE DEF S
<1> DEFINE m == Min(S)
<1>4. m \in S
  BY <1>3, Least
<1> DEFINE ms == m \div Millisecond
<1>5. BatchTimeout(h, en) = IF en THEN ms ELSE 0
  BY <1>2
<1> HIDE DEF m
<1>6. m \in Nat /\ m >= Millisecond
  BY <1>3, <1>4
<1>7. ms \in Nat /\ ms > 0
  BY <1>6, WholeMilliseconds, ConfigAssumption
<1> HIDE DEF ms
<1> QED  BY ONLY <1>5, <1>7
\* The timeout and its file stay equal.
LEMMA WriteTimeoutDoes ==
  ASSUME NEW h, Shape(h), NEW ms
  PROVE  LET g == WriteBatchTimeout(h, ms)
         IN  /\ SameBut(h, g, {"timeout"}, {"timeout"}) /\ g.timeout = ms
             /\ h.timeout = h.sys.timeout => g.sys.timeout = ms
<1> DEFINE put == Put(h, [timeout |-> ms])
           r == IF h.timeout # ms THEN put ELSE h
           g == [r EXCEPT !.timeout = ms]
<1>1. WriteBatchTimeout(h, ms) = g
  BY DEF WriteBatchTimeout
<1>2. SameBut(h, put, {}, {"timeout"}) /\ put.sys.timeout = ms
  BY PutDoes DEF Files
<1> HIDE DEF put
<1>3. SameBut(h, r, {}, {"timeout"}) /\ (h.timeout = h.sys.timeout => r.sys.timeout = ms)
  BY <1>2, Itself
<1> HIDE DEF r
<1>4. SameBut(r, g, {"timeout"}, {}) /\ g.timeout = ms
  <2>1. Shape(r)
    BY <1>3 DEF SameBut
  <2> QED  BY <2>1, FieldSet DEF Fields
<1> HIDE DEF g
<1> QED  BY <1>1, <1>3, <1>4 DEF SameBut, Files, Fields

\* What setBatch does, from a state in which the batch feature is already what
\* the mode is to be.
LEMMA SetBatchDoes ==
  ASSUME NEW h0, Shape(h0), NEW en \in BOOLEAN, NEW toggle \in BOOLEAN,
         "batch" \in h0.features <=> en, Timed(h0), Linked(h0), ~en => Steady(h0),
         Ready(h0, en)
  PROVE  LET g == SetBatch(h0, en, toggle)
         IN  /\ Follows(h0, g) /\ g.oldBatch = h0.oldBatch
             /\ Linked(g) /\ Held(g) /\ Steps(g) /\ Picked(g, en) /\ Lit(g)
             /\ "batch" \in g.features <=> en
             /\ Flag(g.sys.dmp, g.features # {})
             /\ g.timeout = g.sys.timeout /\ g.timeout \in Nat /\ (g.timeout > 0 <=> en)
             /\ g.enabled # {} => ~g.sys.eventInt
             /\ IF toggle THEN Flag(g.sys.master, g.enabled \cup g.features # {})
                ELSE g.sys.master = h0.sys.master
<1> DEFINE fm == DataOutput(h0)
           grv == GRV \in h0.enabled
           h == IF toggle THEN MasterEnable(h0, FALSE) ELSE h0
           b1 == en /\ "pedometer" \in h.features /\ "standalone" \in fm
           s1 == EnablePedStandalone(h, b1)
           b2 == en /\ "pedometer" \in s1.features /\ grv /\ "pedQ" \in fm
           s2 == IF b2 THEN EnablePedQuaternion(EnableLPQ(s1, FALSE), TRUE)
                 ELSE EnablePedQuaternion(s1, FALSE)
           b3 == en /\ "indicator" \in fm /\ (s2.enabled # {} \/ "standalone" \in s2.features)
           s3 == EnablePedIndicator(s2, b3)
           b4 == en /\ grv /\ "six" \in fm
           l == IF "pedQ" \notin fm /\ grv THEN EnableLPQ(s3, TRUE) ELSE s3
           s4 == IF b4 THEN EnableSixAxis(EnableLPQ(s3, FALSE), TRUE) ELSE EnableSixAxis(l, FALSE)
           ms == BatchTimeout(s4, en)
           t == WriteBatchTimeout(s4, ms)
           r == IF en THEN SetBatchRates(OnDmp(t, TRUE))
                ELSE IF t.features = {} THEN ResetRates(OnDmp(t, FALSE)) ELSE t
           int == ~DataInterrupt(r)
           e == Put(r, [eventInt |-> int])
           g == IF toggle /\ (e.features # {} \/ e.enabled # {}) THEN MasterEnable(e, TRUE) ELSE e
<1>1. SetBatch(h0, en, toggle) = g
  BY DEF SetBatch
<1>2. /\ SameBut(h0, h, {}, {"master"})
      /\ toggle => h.sys.master = FALSE
      /\ ~toggle => h.sys.master = h0.sys.master
  BY MasterDoes, Itself
<1>3. fm = DataOutput(h0) /\ (grv <=> GRV \in h0.enabled)
  OBVIOUS
<1> HIDE DEF h, fm, grv
<1>4. /\ Shape(h) /\ Same(h0, h) /\ h.oldBatch = h0.oldBatch /\ h.timeout = h0.timeout
      /\ h.sys.timeout = h0.sys.timeout /\ h.sys.dmp = h0.sys.dmp /\ h.accelBias = h0.accelBias
  <2>1. SameBut(h0, h, SameMembers, SameFiles)
    BY <1>2 DEF SameBut, SameMembers, SameFiles
  <2>2. Same(h0, h)
    BY <2>1, ButSame
  <2> QED  BY <1>2, <2>2 DEF SameBut, Fields, Files, Attributes
<1>5. Moves(h, s4) /\ Held(s4) /\ Steps(s4) /\ Picked(s4, en) /\ Lit(s4)
  <2>1. fm = DataOutput(h) /\ (grv <=> GRV \in h.enabled)
    BY <1>3, <1>4 DEF Same, DataOutput
  <2>2. /\ b1 <=> en /\ "pedometer" \in h.features /\ "standalone" \in fm
        /\ b2 <=> en /\ "pedometer" \in s1.features /\ GRV \in h.enabled /\ "pedQ" \in fm
        /\ b3 <=> en /\ "indicator" \in fm /\ (s2.enabled # {} \/ "standalone" \in s2.features)
        /\ b4 <=> en /\ GRV \in h.enabled /\ "six" \in fm
        /\ l = IF "pedQ" \notin fm /\ GRV \in h.enabled THEN EnableLPQ(s3, TRUE) ELSE s3
    BY <2>1
  <2>3. b1 \in BOOLEAN /\ b2 \in BOOLEAN /\ b3 \in BOOLEAN /\ b4 \in BOOLEAN
    OBVIOUS
  <2>4. /\ s1 = EnablePedStandalone(h, b1)
        /\ s2 = IF b2 THEN EnablePedQuaternion(EnableLPQ(s1, FALSE), TRUE)
                ELSE EnablePedQuaternion(s1, FALSE)
        /\ s3 = EnablePedIndicator(s2, b3)
        /\ s4 = IF b4 THEN EnableSixAxis(EnableLPQ(s3, FALSE), TRUE) ELSE EnableSixAxis(l, FALSE)
    OBVIOUS
  <2> HIDE DEF b1, b2, b3, b4, s1, s2, s3, s4, l
  <2>6. Stages(h, en, DataOutput(h), b1, b2, b3, b4, s1, s2, s3, s4, l)
    BY <2>1, <2>2, <2>3, <2>4 DEF Stages
  <2>7. Ready(h, en)
    <3>1. h.enabled = h0.enabled /\ h.batch = h0.batch /\ h.features = h0.features
      BY <1>4 DEF Same
    <3>2. DataOutput(h) = DataOutput(h0) /\ (Held(h0) => Held(h)) /\ (Lean(h0) => Lean(h))
      BY <1>4, <3>1, SameGood DEF DataOutput, Same, Lean
    <3> QED  BY <3>1, <3>2 DEF Ready
  <2>8. en => "batch" \in h.features
    BY <1>4 DEF Same
  <2> QED  BY ONLY <1>4, <2>6, <2>7, <2>8, en \in BOOLEAN, OutputsChosen
<1> HIDE DEF s4
<1>6. /\ Keeps(h, s4) /\ Shape(s4) /\ Linked(s4) /\ (Steady(h) => Steady(s4))
      /\ "batch" \in s4.features <=> en
  BY <1>4, <1>5, SameGood DEF Moves, Keeps, Same
<1>7. ms \in Nat /\ (ms > 0 <=> en)
  <2>1. Timed(s4)
    BY <1>4, <1>6 DEF Timed, Keeps, Same
  <2> QED  BY <2>1, TimeoutPositive
<1> HIDE DEF ms
<1>8. /\ SameBut(s4, t, {"timeout"}, {"timeout"}) /\ t.timeout = ms
      /\ s4.timeout = s4.sys.timeout => t.sys.timeout = ms
  BY <1>6, WriteTimeoutDoes
<1> HIDE DEF t
<1>9. Shape(t) /\ Same(s4, t) /\ t.accelBias = s4.accelBias /\ t.sys.dmp = s4.sys.dmp
      /\ t.oldBatch = s4.oldBatch /\ t.sys.master = s4.sys.master
      /\ t.timeout = ms /\ t.sys.timeout = ms
  <2>1. SameBut(s4, t, SameMembers, SameFiles)
    BY <1>8 DEF SameBut, SameMembers, SameFiles
  <2>2. Same(s4, t)
    BY <2>1, ButSame
  <2>3. s4.timeout = s4.sys.timeout
    BY <1>4, <1>6 DEF Timed, Keeps
  <2> QED  BY <1>8, <2>2, <2>3 DEF SameBut, Fields, Files, Attributes
<1>10. /\ Shape(r) /\ Same(t, r) /\ (r.accelBias => t.accelBias) /\ r.oldBatch = t.oldBatch
       /\ r.timeout = t.timeout /\ r.sys.timeout = t.sys.timeout /\ r.sys.master = t.sys.master
       /\ en => r.sys.dmp = TRUE
       /\ ~en /\ t.features = {} => r.sys.dmp = FALSE
       /\ ~en /\ t.features # {} => r.sys.dmp = t.sys.dmp
  <2>1. CASE en
    <3> DEFINE d == OnDmp(t, TRUE)
               q == SetBatchRates(d)
    <3>1. SameBut(t, d, {"dmpOn"}, {"dmp", "eventInt"}) /\ d.sys.dmp = TRUE
      BY <1>9, OnDmpOn
    <3>2. r = q
      BY <2>1
    <3> HIDE DEF d, r
    <3>3. /\ Same(t, d) /\ d.accelBias = t.accelBias /\ d.oldBatch = t.oldBatch
          /\ d.timeout = t.timeout /\ d.sys.timeout = t.sys.timeout /\ d.sys.master = t.sys.master
      <4>1. SameBut(t, d, SameMembers, SameFiles)
        BY <3>1 DEF SameBut, SameMembers, SameFiles
      <4>2. Same(t, d)
        BY <4>1, ButSame
      <4> QED  BY <3>1, <4>2 DEF SameBut, Fields, Files, Attributes
    <3>4. Quiet(d, q)
      BY <3>3, SetBatchRatesQuiet DEF Same
    <3> HIDE DEF q
    <3>5. Same(t, q)
      BY <3>3, <3>4, QuietSame, SameTwice
    <3>6. /\ q.accelBias = d.accelBias /\ q.oldBatch = d.oldBatch /\ q.timeout = d.timeout
          /\ q.sys.timeout = d.sys.timeout /\ q.sys.master = d.sys.master /\ q.sys.dmp = d.sys.dmp
      BY <3>4 DEF Quiet, Keeps
    <3>7. Shape(q)
      BY <3>5 DEF Same
    <3> QED  BY <2>1, <3>1, <3>2, <3>3, <3>5, <3>6, <3>7
  <2>2. CASE ~en /\ t.features = {}
    <3> DEFINE d == OnDmp(t, FALSE)
               q == ResetRates(d)
    <3>1. SameBut(t, d, {"dmpOn", "accelBias"}, {"dmp", "eventInt"}) /\ d.sys.dmp = FALSE
          /\ d.accelBias = FALSE
      BY <1>9, OnDmpOff
    <3>2. r = q
      BY <2>2
    <3> HIDE DEF d, r
    <3>3. /\ Same(t, d) /\ d.oldBatch = t.oldBatch
          /\ d.timeout = t.timeout /\ d.sys.timeout = t.sys.timeout /\ d.sys.master = t.sys.master
      <4>1. SameBut(t, d, SameMembers, SameFiles)
        BY <3>1 DEF SameBut, SameMembers, SameFiles
      <4>2. Same(t, d)
        BY <4>1, ButSame
      <4> QED  BY <3>1, <4>2 DEF SameBut, Fields, Files, Attributes
    <3>4. Quiet(d, q)
      BY <3>3, ResetRatesQuiet DEF Same
    <3> HIDE DEF q
    <3>5. Same(t, q)
      BY <3>3, <3>4, QuietSame, SameTwice
    <3>6. /\ q.accelBias = d.accelBias /\ q.oldBatch = d.oldBatch /\ q.timeout = d.timeout
          /\ q.sys.timeout = d.sys.timeout /\ q.sys.master = d.sys.master /\ q.sys.dmp = d.sys.dmp
      BY <3>4 DEF Quiet, Keeps
    <3>7. Shape(q)
      BY <3>5 DEF Same
    <3> QED  BY <2>2, <3>1, <3>2, <3>3, <3>5, <3>6, <3>7
  <2>3. CASE ~en /\ t.features # {}
    <3>1. r = t
      BY <2>3
    <3>2. Same(t, t)
      BY <1>9 DEF Same, StepsSame
    <3> HIDE DEF r
    <3> QED  BY <1>9, <2>3, <3>1, <3>2
  <2> QED  BY <2>1, <2>2, <2>3
<1> HIDE DEF r
<1>11. int => r.enabled = {}
  BY DEF DataInterrupt
<1> HIDE DEF int
<1>12. SameBut(r, e, {}, {"eventInt"}) /\ e.sys.eventInt = int
  BY <1>10, EventDoes
<1> HIDE DEF e
<1>13. /\ SameBut(e, g, {}, {"master"})
       /\ toggle /\ (e.features # {} \/ e.enabled # {}) => g.sys.master = TRUE
       /\ ~(toggle /\ (e.features # {} \/ e.enabled # {})) => g.sys.master = e.sys.master
  <2>1. Shape(e)
    BY <1>12 DEF SameBut
  <2> QED  BY <2>1, MasterDoes, Itself
<1> HIDE DEF g
<1>14. /\ Same(r, g) /\ g.accelBias = r.accelBias /\ g.oldBatch = r.oldBatch
       /\ g.timeout = r.timeout /\ g.sys.timeout = r.sys.timeout
       /\ g.sys.dmp = r.sys.dmp /\ g.sys.eventInt = int /\ e.sys.master = r.sys.master
       /\ e.features = g.features /\ e.enabled = g.enabled
  <2>1. SameBut(r, g, SameMembers, SameFiles)
    BY <1>12, <1>13 DEF SameBut, SameMembers, SameFiles
  <2>2. Same(r, g)
    BY <2>1, ButSame
  <2> QED  BY <1>12, <1>13, <2>2 DEF SameBut, Fields, Files, Attributes
<1>15. Same(s4, g)
  BY <1>9, <1>10, <1>14, SameTwice
<1>16. Follows(h0, g)
  <2>1. Follows(h0, h)
    BY <1>4, SameFollow
  <2>2. Follows(h, s4)
    BY <1>5, MovesFollow
  <2>3. Follows(s4, g)
    BY <1>9, <1>10, <1>14, <1>15, SameFollow
  <2> QED  BY <2>1, <2>2, <2>3, FollowsTwice
<1>17. Linked(g) /\ Held(g) /\ Steps(g) /\ Picked(g, en) /\ Lit(g)
  BY <1>5, <1>6, <1>15, SameGood
<1>18. g.oldBatch = h0.oldBatch
  BY <1>4, <1>6, <1>9, <1>10, <1>14 DEF Keeps
<1>19. g.timeout = g.sys.timeout /\ g.timeout \in Nat /\ (g.timeout > 0 <=> en)
  BY <1>7, <1>9, <1>10, <1>14
<1>20. g.enabled # {} => ~g.sys.eventInt
  BY <1>11, <1>14 DEF Same
<1>21. Flag(g.sys.dmp, g.features # {})
  <2>1. g.features = t.features /\ t.features = s4.features
    BY <1>9, <1>15 DEF Same
  <2>2. CASE en
    <3>1. g.features # {}
      BY <1>6, <2>1, <2>2
    <3> QED  BY <1>10, <1>14, <2>2, <3>1 DEF Flag
  <2>3. CASE ~en
    <3>1. Steady(h)
      BY <1>4, <2>3 DEF Steady, Same
    <3>2. s4.features # {} => s4.sys.dmp = TRUE
      BY <1>6, <3>1 DEF Steady
    <3> QED  BY <1>9, <1>10, <1>14, <2>1, <2>3, <3>2 DEF Flag
  <2> QED  BY <2>2, <2>3
<1>22. IF toggle THEN Flag(g.sys.master, g.enabled \cup g.features # {})
       ELSE g.sys.master = h0.sys.master
  <2>1. e.sys.master = h.sys.master
    BY <1>6, <1>9, <1>10, <1>14 DEF Keeps
  <2>2. CASE toggle
    BY <1>2, <1>13, <1>14, <2>1, <2>2 DEF Flag
  <2>3. CASE ~toggle
    BY <1>2, <1>13, <2>1, <2>3
  <2> QED  BY <2>2, <2>3
<1>23. "batch" \in g.features <=> en
  BY <1>6, <1>15 DEF Same
<1> QED  BY <1>1, <1>16, <1>17, <1>18, <1>19, <1>20, <1>21, <1>22, <1>23
-----------------------------------------------------------------------------
(* The batch mode follows what is enabled and batched *)

\* The state the batch mode is computed in, but for accel, which a batch of the
\* game rotation vector turns on again.
Settled(h) ==
  /\ Shape(h) /\ h.oldBatch \in BOOLEAN /\ Timed(h) /\ h.timeout \in Nat
  /\ h.batch \subseteq Batchable /\ "orientation" \notin h.features
  /\ "batch" \in h.features <=> h.oldBatch
  /\ ~h.oldBatch => h.timeout = 0
  /\ Linked(h) /\ Flag(h.sys.dmp, h.features # {})
\* A batch has all that is enabled.
Batching(h) ==
  h.oldBatch => /\ h.enabled \subseteq h.batch
                /\ "pedometer" \in h.features => "StepDetector" \in h.batch

\* Batch mode is all the enabled sensors batched, the step detector with
\* them.
LEMMA ModeIs ==
  ASSUME NEW h
  PROVE  /\ BatchMode(h, h.batch) <=> AllBatched(h, h.batch)
         /\ BatchMode(h, h.batch) \in BOOLEAN
         /\ BatchMode(h, h.batch) =>
              /\ h.enabled \subseteq h.batch
              /\ "pedometer" \in h.features => "StepDetector" \in h.batch
BY DEF BatchMode, AllBatched
\* The batch feature is in use exactly in batch mode.
LEMMA BatchFeature ==
  ASSUME NEW h, Shape(h)
  PROVE  LET f == WithBatchFeature(h, h.batch)
         IN  /\ SameBut(h, f, {"features"}, {})
             /\ f.features = IF BatchMode(h, h.batch) THEN h.features \cup {"batch"}
                             ELSE h.features \ {"batch"}
BY FeatureSet, ModeIs DEF WithBatchFeature

\* The last part of enableSensors and of the step detector's handler leaves
\* the batch mode that is asked for and everything it needs.
LEMMA ComputeBatchDoes ==
  ASSUME NEW h, Settled(h), NEW toggle \in BOOLEAN, Ready(h, BatchMode(h, h.batch)),
         ~h.oldBatch /\ ~BatchMode(h, h.batch) =>
           Held(h) /\ Steps(h) /\ Picked(h, FALSE) /\ Lit(h)
  PROVE  LET g == ComputeBatch(h, toggle)
             mode == BatchMode(h, h.batch)
         IN  /\ Settled(g) /\ Follows(h, g) /\ g.oldBatch = mode /\ Batching(g)
             /\ Held(g) /\ Steps(g) /\ Picked(g, mode) /\ Lit(g)
             /\ g.timeout > 0 <=> mode
             /\ IF h.oldBatch \/ mode THEN g.enabled # {} => ~g.sys.eventInt
                ELSE g.sys.eventInt = h.sys.eventInt
             /\ IF toggle /\ (h.oldBatch \/ mode) THEN Flag(g.sys.master, g.enabled \cup g.features # {})
                ELSE g.sys.master = h.sys.master
             /\ ~h.oldBatch /\ ~mode => Same(h, g)
<1> DEFINE mode == BatchMode(h, h.batch)
           f == WithBatchFeature(h, h.batch)
           r == IF h.oldBatch # mode \/ mode THEN SetBatch(f, mode, toggle) ELSE f
           g == [r EXCEPT !.oldBatch = mode]
<1>1. ComputeBatch(h, toggle) = g
  BY DEF ComputeBatch
<1>0. /\ mode = BatchMode(h, h.batch) /\ Ready(h, mode)
      /\ ~h.oldBatch /\ ~mode => Held(h) /\ Steps(h) /\ Picked(h, FALSE) /\ Lit(h)
  OBVIOUS
<1> HIDE DEF mode
<1> USE <1>0
<1>2. /\ SameBut(h, f, {"features"}, {})
      /\ f.features = IF mode THEN h.features \cup {"batch"} ELSE h.features \ {"batch"}
  BY BatchFeature DEF Settled
<1> HIDE DEF f
<1>3. /\ mode \in BOOLEAN
      /\ mode => /\ h.enabled \subseteq h.batch
                 /\ "pedometer" \in h.features => "StepDetector" \in h.batch
  BY ModeIs
<1>4. /\ Shape(f) /\ f.enabled = h.enabled /\ f.batch = h.batch /\ f.dmpSensors = h.dmpSensors
      /\ f.timeouts = h.timeouts /\ f.oldBatch = h.oldBatch /\ f.timeout = h.timeout
      /\ f.mask = h.mask /\ f.accelBias = h.accelBias /\ f.sys = h.sys
  <2>1. /\ Shape(f) /\ f.enabled = h.enabled /\ f.batch = h.batch /\ f.dmpSensors = h.dmpSensors
        /\ f.timeouts = h.timeouts /\ f.oldBatch = h.oldBatch /\ f.timeout = h.timeout
        /\ f.mask = h.mask /\ f.accelBias = h.accelBias
    BY <1>2 DEF SameBut, Fields
  <2>2. f.sys = h.sys
    BY DEF WithBatchFeature, Add, Drop, f, Settled, Shape, Fields
  <2> QED  BY <2>1, <2>2
<1>5. Follows(h, f)
  BY <1>2, <1>4 DEF Follows, Masks
<1>6. /\ "batch" \in f.features <=> mode
      /\ Timed(f) /\ Linked(f) /\ "orientation" \notin f.features
      /\ ~mode => Steady(f)
  BY <1>2, <1>4 DEF Settled, Timed, Linked, Flag, Steady
<1>7. Ready(f, mode)
  <2>1. DataOutput(f) = DataOutput(h)
    BY <1>4 DEF DataOutput
  <2>2. Held(h) => Held(f)
    BY <1>2, <1>4 DEF Held, Data, Quats
  <2>3. Lean(h) => Lean(f)
    BY <1>4 DEF Lean
  <2> QED  BY <1>2, <1>4, <2>1, <2>2, <2>3 DEF Ready
<1>8. CASE h.oldBatch \/ mode
  <2> DEFINE b == SetBatch(f, mode, toggle)
  <2>1. r = b
    BY <1>3, <1>8 DEF Settled
  <2>2. /\ Follows(f, b) /\ b.oldBatch = f.oldBatch
        /\ Linked(b) /\ Held(b) /\ Steps(b) /\ Picked(b, mode) /\ Lit(b)
        /\ "batch" \in b.features <=> mode
        /\ Flag(b.sys.dmp, b.features # {})
        /\ b.timeout = b.sys.timeout /\ b.timeout \in Nat /\ (b.timeout > 0 <=> mode)
        /\ b.enabled # {} => ~b.sys.eventInt
        /\ IF toggle THEN Flag(b.sys.master, b.enabled \cup b.features # {})
           ELSE b.sys.master = f.sys.master
    BY <1>3, <1>4, <1>6, <1>7, SetBatchDoes
  <2> HIDE DEF b, r
  <2>3. SameBut(b, g, {"oldBatch"}, {}) /\ g.oldBatch = mode
    <3>1. Shape(b) /\ g = [b EXCEPT !.oldBatch = mode]
      BY <2>1, <2>2 DEF Follows
    <3> HIDE DEF g
    <3> QED  BY ONLY <3>1, FieldSet DEF Fields
  <2> HIDE DEF g
  <2>4. Same(b, g)
    <3>1. SameBut(b, g, SameMembers, SameFiles)
      BY <2>3 DEF SameBut, SameMembers, SameFiles
    <3> QED  BY <3>1, ButSame
  <2>5. /\ g.accelBias = b.accelBias /\ g.timeout = b.timeout /\ g.sys.timeout = b.sys.timeout
        /\ g.sys.dmp = b.sys.dmp /\ g.sys.eventInt = b.sys.eventInt /\ g.sys.master = b.sys.master
    BY <2>3 DEF SameBut, Fields, Files, Attributes
  <2>6. Follows(h, g)
    BY <1>5, <2>2, <2>4, <2>5, SameFollow, FollowsTwice
  <2>7. Linked(g) /\ Held(g) /\ Steps(g) /\ Picked(g, mode) /\ Lit(g)
    BY <2>2, <2>4, SameGood
  <2>8. g.features = b.features /\ g.enabled = b.enabled
    BY <2>4 DEF Same
  <2>9. Timed(g) /\ g.batch \subseteq Batchable /\ "orientation" \notin g.features
    BY <2>2, <2>5, <2>6 DEF Settled, Timed, Follows
  <2>10. Settled(g)
    BY <1>3, <2>2, <2>3, <2>5, <2>6, <2>7, <2>8, <2>9 DEF Settled, Follows
  <2>11. Batching(g)
    BY <1>3, <2>3, <2>6 DEF Batching, Follows
  <2> QED  BY <1>1, <1>4, <1>8, <2>2, <2>3, <2>5, <2>6, <2>7, <2>8, <2>10, <2>11
<1>9. CASE ~h.oldBatch /\ ~mode
  <2>1. r = f
    BY <1>3, <1>9 DEF Settled
  <2> HIDE DEF r
  <2>2. f.features = h.features
    BY <1>2, <1>9 DEF Settled
  <2>3. Same(h, f)
    BY <1>4, <2>2 DEF Same, StepsSame
  <2>4. SameBut(f, g, {"oldBatch"}, {}) /\ g.oldBatch = mode
    <3>1. Shape(f) /\ g = [f EXCEPT !.oldBatch = mode]
      BY <1>4, <2>1
    <3> HIDE DEF g
    <3> QED  BY ONLY <3>1, FieldSet DEF Fields
  <2> HIDE DEF g
  <2>5. Same(f, g)
    <3>1. SameBut(f, g, SameMembers, SameFiles)
      BY <2>4 DEF SameBut, SameMembers, SameFiles
    <3> QED  BY <3>1, ButSame
  <2>6. /\ g.accelBias = f.accelBias /\ g.timeout = f.timeout /\ g.sys.timeout = f.sys.timeout
        /\ g.sys.dmp = f.sys.dmp /\ g.sys.eventInt = f.sys.eventInt /\ g.sys.master = f.sys.master
    BY <2>4 DEF SameBut, Fields, Files, Attributes
  <2>7. Same(h, g)
    BY <2>3, <2>5, SameTwice
  <2>8. Follows(h, g)
    BY <1>4, <2>6, <2>7, SameFollow
  <2>9. Linked(g) /\ Held(g) /\ Steps(g) /\ Picked(g, mode) /\ Lit(g)
    BY <1>9, <2>7, SameGood DEF Settled, Picked
  <2>10. Settled(g)
    BY <1>3, <1>4, <1>9, <2>4, <2>6, <2>7, <2>8, <2>9 DEF Settled, Timed, Same
  <2>11. Batching(g) /\ ~(g.timeout > 0)
    BY <1>4, <1>9, <2>4, <2>6 DEF Batching, Settled
  <2> QED  BY <1>1, <1>4, <1>9, <2>4, <2>6, <2>7, <2>8, <2>9, <2>10, <2>11
<1> QED  BY <1>8, <1>9 DEF mode
-----------------------------------------------------------------------------
(* The inductive invariant *)

\* What the pedometer and significant motion have of their own.
Own(h) ==
  /\ Flag(h.sys.smd, "smd" \in h.features)
  /\ Flag(h.sys.pedometer, h.features \cap {"pedometer", "pedometerStep"} # {})
  /\ "StepDetector" \in h.dmpSensors <=> "pedometer" \in h.features
\* The mask has what an enabled sensor needs; compass and pressure follow it.
SlowUsers == NineAxes \cup {GMRV} \cup Compasses
Masked(h) ==
  /\ h.mask \subseteq {"gyro", "accel", "compass", "pressure"}
  /\ "gyro" \in h.mask => h.enabled \cap (FusedAxes \cup Gyros) # {}
  /\ "accel" \in h.mask => h.enabled \cap (FusedAxes \cup {GMRV, "Accelerometer"}) # {}
  /\ "compass" \in h.mask <=> h.enabled \cap SlowUsers # {}
  /\ "pressure" \in h.mask <=> "Pressure" \in h.enabled
Slow(h) ==
  /\ Flag(h.sys.compass, "compass" \in h.mask)
  /\ Flag(h.sys.pressure, "pressure" \in h.mask)
\* What a change of the batch mode carries over.
Carried(h) ==
  /\ h.enabled \subseteq Sensors \cap (Hardware \cup Virtual)
  /\ Own(h) /\ Masked(h) /\ Slow(h)
  /\ h.enabled = {} => ~h.accelBias
\* What it establishes.
Sound(h) ==
  /\ Settled(h) /\ Batching(h)
  /\ Picked(h, h.oldBatch) /\ Steps(h) /\ Held(h) /\ Lit(h)
  /\ h.timeout > 0 <=> h.oldBatch
\* What is so between two calls.
Rested(h) ==
  /\ Flag(h.sys.master, h.enabled \cup h.features # {})
  /\ h.enabled # {} => ~h.sys.eventInt
ConfigInv(h) == Carried(h) /\ Sound(h) /\ Rested(h)

\* What may follow in a call keeps what the call carries.
LEMMA FollowsCarried ==
  ASSUME NEW h, NEW g, Carried(h), Follows(h, g)
  PROVE  Carried(g)
<1>1. Own(g) /\ Slow(g)
  <2>1. \A m \in {"compass", "pressure"} : m \in g.mask <=> m \in h.mask
    BY DEF Follows, Masks
  <2> QED  BY <2>1 DEF Carried, Follows, Own, Slow, Flag
<1>2. Masked(g)
  <2>1. /\ g.enabled = h.enabled /\ g.mask \subseteq h.mask \cup {"gyro", "accel"}
        /\ \A m \in {"compass", "pressure"} : m \in g.mask <=> m \in h.mask
        /\ "gyro" \in g.mask => "gyro" \in h.mask \/ h.enabled \cap ({GRV} \cup Gyros) # {}
        /\ "accel" \in g.mask => "accel" \in h.mask \/ h.enabled \cap {GRV, "Accelerometer"} # {}
    BY DEF Follows, Masks
  <2>2. Masked(h)
    BY DEF Carried
  <2> QED  BY ONLY <2>1, <2>2 DEF Masked, FusedAxes
<1> QED  BY <1>1, <1>2 DEF Carried, Follows
\* So does a step that keeps the features.
LEMMA SameCarried ==
  ASSUME NEW h, NEW g, Carried(h), Same(h, g), g.accelBias => h.accelBias
  PROVE  Carried(g)
BY SameFollow, FollowsCarried

\* All the DMP's own switches and features but one stay.
LEMMA ComputeBatchSound ==
  ASSUME NEW h, Settled(h), Carried(h), NEW toggle \in BOOLEAN,
         Ready(h, BatchMode(h, h.batch)),
         ~h.oldBatch /\ ~BatchMode(h, h.batch) => Held(h) /\ Steps(h) /\ Picked(h, FALSE) /\ Lit(h)
  PROVE  LET g == ComputeBatch(h, toggle)
             mode == BatchMode(h, h.batch)
         IN  /\ Sound(g) /\ Carried(g) /\ Follows(h, g)
             /\ IF h.oldBatch \/ mode THEN g.enabled # {} => ~g.sys.eventInt
                ELSE g.sys.eventInt = h.sys.eventInt
             /\ IF toggle /\ (h.oldBatch \/ mode)
                  THEN Flag(g.sys.master, g.enabled \cup g.features # {})
                ELSE g.sys.master = h.sys.master
             /\ ~h.oldBatch /\ ~mode => Same(h, g)
<1> DEFINE g == ComputeBatch(h, toggle)
           mode == BatchMode(h, h.batch)
<1>1. /\ Settled(g) /\ Follows(h, g) /\ g.oldBatch = mode /\ Batching(g)
      /\ Held(g) /\ Steps(g) /\ Picked(g, mode) /\ Lit(g)
      /\ g.timeout > 0 <=> mode
      /\ IF h.oldBatch \/ mode THEN g.enabled # {} => ~g.sys.eventInt
         ELSE g.sys.eventInt = h.sys.eventInt
      /\ IF toggle /\ (h.oldBatch \/ mode) THEN Flag(g.sys.master, g.enabled \cup g.features # {})
         ELSE g.sys.master = h.sys.master
      /\ ~h.oldBatch /\ ~mode => Same(h, g)
  BY ComputeBatchDoes
<1> HIDE DEF g, mode
<1>2. Carried(g)
  BY <1>1, FollowsCarried
<1> QED  BY <1>1, <1>2 DEF Sound, g, mode
-----------------------------------------------------------------------------
(* Enabling a sensor of the HAL *)

\* What the mask has.
LEMMA MaskDoes ==
  ASSUME NEW h, NEW E, h.mask \subseteq {"gyro", "accel", "compass", "pressure"}
  PROVE  LET m == LocalMask(h, E)
         IN  /\ m \subseteq {"gyro", "accel", "compass", "pressure"}
             /\ "gyro" \in m => E \cap (FusedAxes \cup Gyros) # {}
             /\ "accel" \in m => E \cap (FusedAxes \cup {GMRV, "Accelerometer"}) # {}
             /\ "compass" \in m <=> E \cap SlowUsers # {}
             /\ "pressure" \in m <=> "Pressure" \in E
             /\ E \cap Gyros # {} => "gyro" \in m
             /\ E \cap (NineAxes \cup {GMRV, "Accelerometer"}) # {} => "accel" \in m
             /\ GRV \in E => "accel" \in m \/ ("batch" \in h.features /\ GRV \in h.batch)
<1> DEFINE on == [w \in {"gyro", "accel", "compass"} |->
                  E \cap (CASE w = "gyro" -> Gyros [] w = "accel" -> {"Accelerometer"}
                            [] w = "compass" -> Compasses) # {}]
           pressure == IF "Pressure" \in E THEN {"pressure"} ELSE {}
           kept == h.mask \ {"pressure"}
           set(ws) == (kept \ ws) \cup {w \in ws : on[w]}
           three == {"gyro", "accel", "compass"}
           nine == E \cap NineAxes # {} \/ {GRV, GMRV} \subseteq E
           batched == {"batch"} \subseteq h.features /\ GRV \in h.batch
           m == LocalMask(h, E)
<1>1. m = IF nine THEN three \cup pressure
          ELSE IF GRV \in E
            THEN IF batched THEN set(three) \cup pressure
                 ELSE set({"compass"}) \cup {"gyro", "accel"} \cup pressure
          ELSE IF GMRV \in E THEN set({"gyro"}) \cup {"accel", "compass"} \cup pressure
          ELSE set(three) \cup pressure
  BY DEF LocalMask
<1>2. /\ on["gyro"] <=> E \cap Gyros # {}
      /\ on["accel"] <=> "Accelerometer" \in E
      /\ on["compass"] <=> E \cap Compasses # {}
  OBVIOUS
<1>3. /\ kept \subseteq three
      /\ \A w \in three : /\ w \in set(three) <=> on[w]
                          /\ w \in set({"compass"}) <=> IF w = "compass" THEN on[w] ELSE w \in kept
                          /\ w \in set({"gyro"}) <=> IF w = "gyro" THEN on[w] ELSE w \in kept
      /\ set(three) \subseteq three /\ set({"compass"}) \subseteq three /\ set({"gyro"}) \subseteq three
  OBVIOUS
<1>4. pressure \subseteq {"pressure"} /\ ("pressure" \in pressure <=> "Pressure" \in E)
  OBVIOUS
<1> DEFINE gyros == E \cap Gyros # {}
           nines == E \cap NineAxes # {}
           compasses == E \cap Compasses # {}
<1>10. /\ E \cap (FusedAxes \cup Gyros) # {} <=> nines \/ GRV \in E \/ gyros
       /\ E \cap (FusedAxes \cup {GMRV, "Accelerometer"}) # {} <=>
            nines \/ GRV \in E \/ GMRV \in E \/ "Accelerometer" \in E
       /\ E \cap SlowUsers # {} <=> nines \/ GMRV \in E \/ compasses
       /\ E \cap (NineAxes \cup {GMRV, "Accelerometer"}) # {} <=>
            nines \/ GMRV \in E \/ "Accelerometer" \in E
       /\ gyros <=> E \cap Gyros # {}
       /\ nine <=> nines \/ (GRV \in E /\ GMRV \in E)
  BY DEF FusedAxes, SlowUsers
<1>11. /\ on["gyro"] <=> gyros
       /\ on["accel"] <=> "Accelerometer" \in E
       /\ on["compass"] <=> compasses
  BY <1>2
<1>12. m = LocalMask(h, E)
  OBVIOUS
<1> HIDE DEF set, on, kept, m, pressure, nine, gyros, nines, compasses
<1>5. CASE nine
  BY <1>1, <1>4, <1>5, <1>10, <1>12
<1>6. CASE ~nine /\ GRV \in E /\ batched
  <2>1. m = set(three) \cup pressure
    BY <1>1, <1>6
  <2> QED  BY <1>3, <1>4, <1>6, <1>10, <1>11, <1>12, <2>1
<1>7. CASE ~nine /\ GRV \in E /\ ~batched
  <2>1. m = set({"compass"}) \cup {"gyro", "accel"} \cup pressure
    BY <1>1, <1>7
  <2> QED  BY <1>3, <1>4, <1>7, <1>10, <1>11, <1>12, <2>1
<1>8. CASE ~nine /\ GRV \notin E /\ GMRV \in E
  <2>1. m = set({"gyro"}) \cup {"accel", "compass"} \cup pressure
    BY <1>1, <1>8
  <2>2. /\ "gyro" \in m <=> gyros
        /\ "accel" \in m /\ "compass" \in m
        /\ "pressure" \in m <=> "Pressure" \in E
        /\ m \subseteq {"gyro", "accel", "compass", "pressure"}
    BY ONLY <1>3, <1>4, <1>11, <2>1
  <2> QED  BY ONLY <1>8, <1>10, <1>12, <2>2
<1>9. CASE ~nine /\ GRV \notin E /\ GMRV \notin E
  <2>1. m = set(three) \cup pressure
    BY <1>1, <1>9
  <2> QED  BY <1>3, <1>4, <1>9, <1>10, <1>11, <1>12, <2>1
<1> QED  BY <1>5, <1>6, <1>7, <1>8, <1>9
\* A sensor of the chip that is not switched is already as it is to be.
Toggles(h, what, en, E) ==
  /\ what \in Hardware \cup Virtual /\ en \in BOOLEAN /\ (what \in h.enabled <=> ~en)
  /\ E = IF en THEN h.enabled \cup {what} ELSE h.enabled \ {what}
AccelUsers == FusedAxes \cup {GMRV, "Accelerometer"}
\* Who uses each sensor of the chip, one sensor at a time.
LEMMA Users ==
  ASSUME NEW E
  PROVE  LET nines == E \cap NineAxes # {}
             gyros == E \cap Gyros # {}
             compasses == E \cap Compasses # {}
         IN  /\ E \cap (FusedAxes \cup Gyros) # {} <=> nines \/ GRV \in E \/ gyros
             /\ E \cap AccelUsers # {} <=>
                  nines \/ GRV \in E \/ GMRV \in E \/ "Accelerometer" \in E
             /\ E \cap SlowUsers # {} <=> nines \/ GMRV \in E \/ compasses
             /\ E \cap Virtual # {} <=> nines \/ GRV \in E \/ GMRV \in E
             /\ E \cap {GRV} # {} <=> GRV \in E
             /\ E \cap {GMRV} # {} <=> GMRV \in E
             /\ E \cap (NineAxes \cup {GRV}) # {} <=> nines \/ GRV \in E
BY DEF FusedAxes, AccelUsers, SlowUsers, Virtual
\* A sensor of the chip that is not switched has as many users as before.
LEMMA ChangedDoes ==
  ASSUME NEW h, NEW what, NEW en, NEW E, Toggles(h, what, en, E)
  PROVE  LET c == Changed(h, what, en, E)
         IN  /\ c \cap Compasses = {} => (E \cap SlowUsers # {} <=> h.enabled \cap SlowUsers # {})
             /\ "Pressure" \notin c => ("Pressure" \in E <=> "Pressure" \in h.enabled)
             /\ "Accelerometer" \notin c => (E \cap AccelUsers # {} <=> h.enabled \cap AccelUsers # {})
             /\ c \cap Gyros = {} /\ E \cap (FusedAxes \cup Gyros) = {} =>
                  h.enabled \cap (FusedAxes \cup Gyros) = {}
             /\ en /\ "Accelerometer" \in c /\ "Accelerometer" \notin E => what \in Virtual
             /\ ~en /\ what = GRV /\ E \cap Virtual = {} =>
                  /\ c \cap Gyros = {} => E \cap Gyros # {}
                  /\ "Accelerometer" \notin c => "Accelerometer" \in E
             /\ en /\ h.enabled = {} => c # {}
<1> DEFINE c == Changed(h, what, en, E)
           H == h.enabled
           all == {"Gyro", "RawGyro", "Accelerometer", "MagneticField", "RawMagneticField"}
           users(X) == X \cap (FusedAxes \cup Gyros) # {}
<1>1. /\ what \in Hardware \cup Virtual /\ en \in BOOLEAN /\ (what \in H <=> ~en)
      /\ E = IF en THEN H \cup {what} ELSE H \ {what}
  BY DEF Toggles
<1>2. \A x : x # what => (x \in E <=> x \in H)
  BY <1>1
<1>3. what \in E <=> en
  BY <1>1
<1>4. \A X : what \notin X => (E \cap X # {} <=> H \cap X # {})
  BY <1>2
<1>a. \A X : what \in X => (en => E \cap X # {}) /\ (~en => H \cap X # {})
  BY <1>1, <1>3
<1>b. /\ c = Changed(h, what, en, E) /\ H = h.enabled
      /\ Gyros \subseteq all /\ Compasses \subseteq all \ Gyros /\ "Accelerometer" \in all \ Gyros
  BY DEF Gyros, Compasses
<1>c. /\ NineAxes \cap (Gyros \cup Compasses \cup {GRV, GMRV, "Accelerometer", "Pressure"}) = {}
      /\ Gyros \cap (Compasses \cup {GRV, GMRV, "Accelerometer", "Pressure"}) = {}
      /\ Compasses \cap {GRV, GMRV, "Accelerometer", "Pressure"} = {}
      /\ GRV # GMRV /\ GRV \notin {"Accelerometer", "Pressure"} /\ GMRV \notin {"Accelerometer", "Pressure"}
      /\ "Pressure" # "Accelerometer" /\ "Pressure" \notin all
  BY DEF NineAxes, Gyros, Compasses, GRV, GMRV
<1>d. (en => E # {}) /\ (H = {} => en)
  BY <1>1
<1>5. CASE what \in Gyros
  <2>1. c = IF E \cap (NineAxes \cup {GRV}) = {} \/ "six" \in h.features THEN {what} ELSE {}
    BY <1>5 DEF Changed, Gyros, Compasses, NineAxes, GRV, GMRV
  <2>2. what \in Virtual <=> what \in NineAxes \/ what = GRV \/ what = GMRV
    BY DEF Virtual
  <2> HIDE DEF c, H, all
  <2> QED  BY ONLY <1>a, <1>b, <1>c, <1>d, <1>2, <1>3, <1>4, <1>5, <2>1, <2>2, Users
<1>6. CASE what = "Accelerometer"
  <2>1. c = IF E \cap (NineAxes \cup {GRV}) = {} \/ "six" \in h.features THEN {what} ELSE {}
    BY <1>6 DEF Changed, Gyros, Compasses, NineAxes, GRV, GMRV
  <2>2. what \in Virtual <=> what \in NineAxes \/ what = GRV \/ what = GMRV
    BY DEF Virtual
  <2> HIDE DEF c, H, all
  <2> QED  BY ONLY <1>a, <1>b, <1>c, <1>d, <1>2, <1>3, <1>4, <1>6, <2>1, <2>2, Users
<1>7. CASE what \in Compasses
  <2>1. c = IF E \cap NineAxes = {} THEN {what} ELSE {}
    BY <1>7 DEF Changed, Gyros, Compasses, NineAxes, GRV, GMRV
  <2>2. what \in Virtual <=> what \in NineAxes \/ what = GRV \/ what = GMRV
    BY DEF Virtual
  <2> HIDE DEF c, H, all
  <2> QED  BY ONLY <1>a, <1>b, <1>c, <1>d, <1>2, <1>3, <1>4, <1>7, <2>1, <2>2, Users
<1>8. CASE what = "Pressure"
  <2>1. c = {what}
    BY <1>8 DEF Changed, Gyros, Compasses
  <2>2. what \notin SlowUsers \cup AccelUsers \cup FusedAxes \cup Gyros \cup Virtual
    BY <1>8, <1>c DEF Virtual, SlowUsers, AccelUsers, FusedAxes
  <2>3. /\ E \cap SlowUsers # {} <=> H \cap SlowUsers # {}
        /\ E \cap AccelUsers # {} <=> H \cap AccelUsers # {}
        /\ E \cap (FusedAxes \cup Gyros) # {} <=> H \cap (FusedAxes \cup Gyros) # {}
    BY ONLY <1>4, <2>2
  <2> HIDE DEF c, H, all
  <2> QED  BY ONLY <1>b, <1>c, <1>8, <2>1, <2>3
<1>9. CASE what = GRV
  <2> DEFINE switched == IF en THEN H \cap NineAxes = {} ELSE E \cap Virtual = {} \/ E \cap {GMRV} # {}
  <2>1. c = IF switched THEN all \ E ELSE {}
    BY <1>9 DEF Changed, Gyros, Compasses, NineAxes, GRV, GMRV
  <2>2. /\ c \cap Compasses = {} => ~switched \/ E \cap Compasses # {}
        /\ "Accelerometer" \notin c => ~switched \/ "Accelerometer" \in E
        /\ c # {} => switched
        /\ "Pressure" \notin c
        /\ c \cap Gyros = {} => ~switched \/ E \cap Gyros # {}
        /\ switched /\ E \cap all = {} => c # {}
    <3> HIDE DEF switched, c
    <3> QED  BY ONLY <1>c, <2>1 DEF Gyros, Compasses
  <2>3. /\ E \cap Gyros # {} <=> H \cap Gyros # {}
        /\ E \cap Compasses # {} <=> H \cap Compasses # {}
        /\ E \cap NineAxes # {} <=> H \cap NineAxes # {}
        /\ GMRV \in E <=> GMRV \in H
        /\ GRV \in E <=> en
        /\ GRV \in H <=> ~en
        /\ "Accelerometer" \in E <=> "Accelerometer" \in H
        /\ "Pressure" \in E <=> "Pressure" \in H
        /\ H = {} => E \cap all = {}
    <3>1. /\ what \notin all /\ what \notin Gyros /\ what \notin Compasses /\ what # "Pressure"
          /\ what \notin NineAxes /\ what # "Accelerometer" /\ GRV # GMRV /\ "Accelerometer" \in all
      BY <1>9 DEF GRV, GMRV, NineAxes, Gyros, Compasses
    <3>2. H = {} => E = {what}
      BY <1>1
    <3> HIDE DEF H, all
    <3> QED  BY ONLY <1>1, <1>2, <1>3, <1>4, <1>9, <3>1, <3>2
  <2>4. what \in Virtual
    BY <1>9 DEF Virtual
  <2>5. /\ E \cap Virtual = {} <=> E \cap NineAxes = {} /\ GRV \notin E /\ GMRV \notin E
        /\ H = {} => H \cap NineAxes = {} /\ GRV \notin H
        /\ switched <=> IF en THEN H \cap NineAxes = {} ELSE E \cap Virtual = {} \/ E \cap {GMRV} # {}
    BY DEF Virtual
  <2> HIDE DEF c, H, all, switched
  <2> QED  BY ONLY <1>b, <1>d, <1>9, <2>2, <2>3, <2>4, <2>5, Users
<1>10. CASE what = GMRV
  <2> DEFINE switched == IF en THEN H \cap NineAxes = {} ELSE E \cap Virtual = {} \/ E \cap {GRV} # {}
  <2>1. c = IF switched THEN (all \ Gyros) \ E ELSE {}
    BY <1>10 DEF Changed, Gyros, Compasses, NineAxes, GRV, GMRV
  <2>2. /\ c \cap Compasses = {} => ~switched \/ E \cap Compasses # {}
        /\ "Accelerometer" \notin c => ~switched \/ "Accelerometer" \in E
        /\ c # {} => switched
        /\ "Pressure" \notin c
        /\ c \cap Gyros = {}
        /\ switched /\ E \cap all = {} => c # {}
    <3> HIDE DEF switched, c
    <3> QED  BY ONLY <1>c, <2>1 DEF Gyros, Compasses
  <2>3. /\ E \cap Gyros # {} <=> H \cap Gyros # {}
        /\ E \cap Compasses # {} <=> H \cap Compasses # {}
        /\ E \cap NineAxes # {} <=> H \cap NineAxes # {}
        /\ GRV \in E <=> GRV \in H
        /\ GMRV \in E <=> en
        /\ GMRV \in H <=> ~en
        /\ "Accelerometer" \in E <=> "Accelerometer" \in H
        /\ "Pressure" \in E <=> "Pressure" \in H
        /\ H = {} => E \cap all = {}
    <3>1. /\ what \notin all /\ what \notin Gyros /\ what \notin Compasses /\ what # "Pressure"
          /\ what \notin NineAxes /\ what # "Accelerometer" /\ GRV # GMRV /\ "Accelerometer" \in all
      BY <1>10 DEF GRV, GMRV, NineAxes, Gyros, Compasses
    <3>2. H = {} => E = {what}
      BY <1>1
    <3> HIDE DEF H, all
    <3> QED  BY ONLY <1>1, <1>2, <1>3, <1>4, <1>10, <3>1, <3>2
  <2>4. what \in Virtual
    BY <1>10 DEF Virtual
  <2>5. /\ E \cap Virtual = {} <=> E \cap NineAxes = {} /\ GRV \notin E /\ GMRV \notin E
        /\ H = {} => H \cap NineAxes = {} /\ GRV \notin H
        /\ switched <=> IF en THEN H \cap NineAxes = {} ELSE E \cap Virtual = {} \/ E \cap {GRV} # {}
    BY DEF Virtual
  <2> HIDE DEF c, H, all, switched
  <2> QED  BY ONLY <1>b, <1>d, <1>10, <2>2, <2>3, <2>4, <2>5, Users
<1>11. CASE what \in NineAxes
  <2> DEFINE switched == IF en THEN H \cap NineAxes = {} ELSE E \cap NineAxes = {}
  <2>1. c = IF switched THEN all \ E ELSE {}
    BY <1>11 DEF Changed, Gyros, Compasses, NineAxes, GRV, GMRV
  <2>2. /\ c \cap Compasses = {} => ~switched \/ E \cap Compasses # {}
        /\ "Accelerometer" \notin c => ~switched \/ "Accelerometer" \in E
        /\ c # {} => switched
        /\ "Pressure" \notin c
        /\ c \cap Gyros = {} => ~switched \/ E \cap Gyros # {}
        /\ switched /\ E \cap all = {} => c # {}
    <3> HIDE DEF switched, c
    <3> QED  BY ONLY <1>c, <2>1 DEF Gyros, Compasses
  <2>3. /\ E \cap Gyros # {} <=> H \cap Gyros # {}
        /\ E \cap Compasses # {} <=> H \cap Compasses # {}
        /\ GRV \in E <=> GRV \in H
        /\ GMRV \in E <=> GMRV \in H
        /\ en => E \cap NineAxes # {}
        /\ ~en => H \cap NineAxes # {}
        /\ "Accelerometer" \in E <=> "Accelerometer" \in H
        /\ "Pressure" \in E <=> "Pressure" \in H
        /\ H = {} => E \cap all = {}
    <3>1. what \notin all /\ what \notin Gyros /\ what \notin Compasses /\ what # "Pressure"
      BY <1>11 DEF GRV, GMRV, NineAxes, Gyros, Compasses
    <3>2. H = {} => E = {what}
      BY <1>1
    <3> QED  BY <1>a, <1>c, <1>2, <1>3, <1>4, <1>11, <3>1, <3>2
  <2>4. what \in Virtual
    BY <1>11 DEF Virtual
  <2>5. /\ E \cap Virtual = {} <=> E \cap NineAxes = {} /\ GRV \notin E /\ GMRV \notin E
        /\ H = {} => H \cap NineAxes = {} /\ GRV \notin H
        /\ switched <=> IF en THEN H \cap NineAxes = {} ELSE E \cap NineAxes = {}
    BY DEF Virtual
  <2> HIDE DEF c, H, all, switched
  <2> QED  BY ONLY <1>b, <1>d, <1>11, <2>2, <2>3, <2>4, <2>5, Users
<1> QED  BY <1>1, <1>5, <1>6, <1>7, <1>8, <1>9, <1>10, <1>11 DEF Virtual, Hardware
\* The switches of the chip's sensors.
LEMMA SwitchDoes ==
  ASSUME NEW h, Shape(h), NEW c
  PROVE  LET s == SwitchSensors(h, c)
         IN  /\ SameBut(h, s, {}, {"master", "gyro", "gyroFifo", "accel", "accelFifo", "compass",
                                   "pressure"})
             /\ s.sys.master = FALSE
             /\ s.sys.gyro = IF c \cap Gyros # {} THEN "gyro" \in h.mask ELSE h.sys.gyro
             /\ s.sys.accel = IF "Accelerometer" \in c THEN "accel" \in h.mask ELSE h.sys.accel
             /\ s.sys.compass = IF c \cap Compasses # {} THEN "compass" \in h.mask ELSE h.sys.compass
             /\ s.sys.pressure = IF "Pressure" \in c THEN "pressure" \in h.mask ELSE h.sys.pressure
<1> DEFINE m == MasterEnable(h, FALSE)
           gyroOn == "gyro" \in h.mask
           accelOn == "accel" \in h.mask
           compassOn == "compass" \in h.mask
           pressureOn == "pressure" \in h.mask
           g == IF c \cap Gyros # {} THEN EnableGyro(m, gyroOn) ELSE m
           a == IF "Accelerometer" \in c THEN EnableAccel(g, accelOn) ELSE g
           o == IF c \cap Compasses # {} THEN EnableCompass(a, compassOn) ELSE a
           s == IF "Pressure" \in c THEN EnablePressure(o, pressureOn) ELSE o
<1>1. SwitchSensors(h, c) = s
  BY DEF SwitchSensors
<1>2. SameBut(h, m, {}, {"master"}) /\ m.sys.master = FALSE
  BY MasterDoes
<1> HIDE DEF m, gyroOn, accelOn, compassOn, pressureOn
<1>3. /\ SameBut(m, g, {}, {"gyro", "gyroFifo"})
      /\ g.sys.gyro = IF c \cap Gyros # {} THEN gyroOn ELSE m.sys.gyro
  <2>1. Shape(m)
    BY <1>2 DEF SameBut
  <2> QED  BY <2>1, GyroDoes, Itself
<1> HIDE DEF g
<1>4. /\ SameBut(g, a, {}, {"accel", "accelFifo"})
      /\ a.sys.accel = IF "Accelerometer" \in c THEN accelOn ELSE g.sys.accel
  <2>1. Shape(g)
    BY <1>3 DEF SameBut
  <2> QED  BY <2>1, AccelDoes, Itself
<1> HIDE DEF a
<1>5. /\ SameBut(a, o, {}, {"compass"})
      /\ o.sys.compass = IF c \cap Compasses # {} THEN compassOn ELSE a.sys.compass
  <2>1. Shape(a)
    BY <1>4 DEF SameBut
  <2> QED  BY <2>1, CompassDoes, Itself
<1> HIDE DEF o
<1>6. /\ SameBut(o, s, {}, {"pressure"})
      /\ s.sys.pressure = IF "Pressure" \in c THEN pressureOn ELSE o.sys.pressure
  <2>1. Shape(o)
    BY <1>5 DEF SameBut
  <2> QED  BY <2>1, PressureDoes, Itself
<1> HIDE DEF s
<1>7. SameBut(h, s, {}, {"master", "gyro", "gyroFifo", "accel", "accelFifo", "compass", "pressure"})
  BY <1>2, <1>3, <1>4, <1>5, <1>6 DEF SameBut
<1>8. /\ s.sys.master = FALSE
      /\ s.sys.gyro = IF c \cap Gyros # {} THEN gyroOn ELSE h.sys.gyro
      /\ s.sys.accel = IF "Accelerometer" \in c THEN accelOn ELSE h.sys.accel
      /\ s.sys.compass = IF c \cap Compasses # {} THEN compassOn ELSE h.sys.compass
      /\ s.sys.pressure = IF "Pressure" \in c THEN pressureOn ELSE h.sys.pressure
  BY <1>2, <1>3, <1>4, <1>5, <1>6 DEF SameBut, Files, Attributes
<1> QED  BY <1>1, <1>7, <1>8 DEF gyroOn, accelOn, compassOn, pressureOn

\* The low power quaternion is on exactly for the sensors fused from it.
LEMMA QuaternionDoes ==
  ASSUME NEW h, Shape(h)
  PROVE  LET q == SwitchQuaternion(h)
         IN  /\ Moves(h, q) /\ q.mask = h.mask /\ StepsSame(h, q)
             /\ q.features = IF h.enabled \cap FusedAxes # {} THEN h.features \cup {"lpq"}
                             ELSE h.features \ {"lpq"}
             /\ q.sys.accel = h.sys.accel /\ q.sys.gyro = h.sys.gyro
             /\ q.sys.eventInt => h.sys.eventInt
             /\ Flag(h.sys.dmp, h.features # {}) => Flag(q.sys.dmp, q.features # {})
<1> DEFINE q == SwitchQuaternion(h)
           on == EnableLPQ(h, TRUE)
           off == EnableLPQ(h, FALSE)
<1>1. q = IF h.enabled \cap FusedAxes # {} THEN IF "lpq" \in h.features THEN h ELSE on
          ELSE IF "lpq" \in h.features THEN off ELSE h
  BY DEF SwitchQuaternion, FusedAxes
<1>2. /\ Moves(h, on) /\ on.features = h.features \cup {"lpq"} /\ on.mask = h.mask
      /\ on.sys.dmp = TRUE /\ StepsSame(h, on)
      /\ on.sys.accel = h.sys.accel /\ on.sys.gyro = h.sys.gyro
      /\ on.sys.eventInt => h.sys.eventInt
  BY LpqOnMoves
<1>3. /\ Moves(h, off) /\ off.features = h.features \ {"lpq"} /\ off.mask = h.mask
      /\ off.sys.dmp = IF off.features = {} THEN FALSE ELSE h.sys.dmp
      /\ StepsSame(h, off) /\ off.sys.accel = h.sys.accel /\ off.sys.gyro = h.sys.gyro
      /\ off.sys.eventInt => h.sys.eventInt
  BY LpqOffMoves
<1> HIDE DEF q, on, off
<1>4. CASE q = h /\ (h.enabled \cap FusedAxes # {} <=> "lpq" \in h.features)
  BY <1>4, MovesNot DEF StepsSame, q
<1>5. CASE q = on /\ h.enabled \cap FusedAxes # {}
  BY <1>2, <1>5 DEF Flag, q
<1>6. CASE q = off /\ h.enabled \cap FusedAxes = {} /\ "lpq" \in h.features
  BY <1>3, <1>6 DEF Flag, q
<1> QED  BY <1>1, <1>4, <1>5, <1>6

\* The waiting bias is gone.
LEMMA BiasDoes ==
  ASSUME NEW h, Shape(h)
  PROVE  LET g == SetAccelBias(h)
         IN  SameBut(h, g, {"accelBias"}, {}) /\ g.accelBias = FALSE
BY FieldSet DEF SetAccelBias, Fields
\* What enable computes before the batch mode.
Masking(h, what, en, E) ==
  LET called == [h EXCEPT !.enableCalled = TRUE, !.batch = IF en THEN @ ELSE @ \ {what}]
  IN  [called EXCEPT !.enabled = E, !.mask = LocalMask(called, E)]
\* The mask has what the enabled sensors need before anything is switched.
LEMMA MaskingDoes ==
  ASSUME NEW h, Shape(h), NEW what, NEW en \in BOOLEAN, NEW E,
         h.mask \subseteq {"gyro", "accel", "compass", "pressure"}
  PROVE  LET m == Masking(h, what, en, E)
         IN  /\ SameBut(h, m, {"enabled", "mask", "batch", "enableCalled"}, {})
             /\ m.enabled = E /\ m.batch = IF en THEN h.batch ELSE h.batch \ {what}
             /\ m.mask \subseteq {"gyro", "accel", "compass", "pressure"}
             /\ Masked(m)
             /\ E \cap Gyros # {} => "gyro" \in m.mask
             /\ E \cap (NineAxes \cup {GMRV, "Accelerometer"}) # {} => "accel" \in m.mask
             /\ GRV \in E => "accel" \in m.mask \/ ("batch" \in h.features /\ GRV \in m.batch)
<1> DEFINE B == IF en THEN h.batch ELSE h.batch \ {what}
           called == [h EXCEPT !.enableCalled = TRUE, !.batch = B]
           M == LocalMask(called, E)
           m == [called EXCEPT !.enabled = E, !.mask = M]
<1>1. Masking(h, what, en, E) = m
  <2>1. [h EXCEPT !.enableCalled = TRUE, !.batch = IF en THEN @ ELSE @ \ {what}] = called
    OBVIOUS
  <2> HIDE DEF called
  <2> QED  BY <2>1 DEF Masking
<1> HIDE DEF B
<1>2. /\ SameBut(h, called, {"batch", "enableCalled"}, {}) /\ called.batch = B
  BY DEF SameBut, Shape, Fields
<1> HIDE DEF called, M
<1>3. /\ SameBut(called, m, {"enabled", "mask"}, {}) /\ m.enabled = E /\ m.mask = M
  BY <1>2 DEF SameBut, Shape, Fields
<1>4. called.mask = h.mask /\ called.features = h.features /\ m.batch = B
  BY <1>2, <1>3 DEF SameBut, Fields
<1> HIDE DEF m
<1>5. /\ M \subseteq {"gyro", "accel", "compass", "pressure"}
      /\ "gyro" \in M => E \cap (FusedAxes \cup Gyros) # {}
      /\ "accel" \in M => E \cap (FusedAxes \cup {GMRV, "Accelerometer"}) # {}
      /\ "compass" \in M <=> E \cap SlowUsers # {}
      /\ "pressure" \in M <=> "Pressure" \in E
      /\ E \cap Gyros # {} => "gyro" \in M
      /\ E \cap (NineAxes \cup {GMRV, "Accelerometer"}) # {} => "accel" \in M
      /\ GRV \in E => "accel" \in M \/ ("batch" \in h.features /\ GRV \in B)
  BY <1>2, <1>4, MaskDoes DEF M
<1>6. SameBut(h, m, {"enabled", "mask", "batch", "enableCalled"}, {})
  BY <1>2, <1>3 DEF SameBut
<1> QED  BY <1>1, <1>3, <1>4, <1>5, <1>6 DEF Masked, B
\* Before the batch mode is computed: what enable has made of h, with c the
\* sensors it switched.
Prepared(h, what, en, E, c, k) ==
  /\ Shape(k) /\ k.enabled = E /\ k.batch = (IF en THEN h.batch ELSE h.batch \ {what})
  /\ k.dmpSensors = h.dmpSensors
  /\ k.timeouts = h.timeouts /\ k.oldBatch = h.oldBatch /\ k.timeout = h.timeout
  /\ k.features = IF E \cap FusedAxes # {} THEN h.features \cup {"lpq"} ELSE h.features \ {"lpq"}
  /\ k.accelBias => h.accelBias
  /\ "accel" \notin k.mask => ~k.accelBias
  /\ k.sys.smd = h.sys.smd /\ k.sys.pedometer = h.sys.pedometer
  /\ k.sys.timeout = h.sys.timeout /\ StepsSame(h, k) /\ k.sys.master = FALSE
  /\ k.sys.eventInt => h.sys.eventInt
  /\ Flag(k.sys.dmp, k.features # {}) /\ Linked(k)
  /\ Masked(k)
  /\ E \cap Gyros # {} => "gyro" \in k.mask
  /\ E \cap (NineAxes \cup {GMRV, "Accelerometer"}) # {} => "accel" \in k.mask
  /\ GRV \in E => "accel" \in k.mask \/ ("batch" \in h.features /\ GRV \in k.batch)
  /\ k.sys.gyro = IF c \cap Gyros # {} THEN "gyro" \in k.mask ELSE h.sys.gyro
  /\ k.sys.accel = IF "Accelerometer" \in c THEN "accel" \in k.mask ELSE h.sys.accel
  /\ k.sys.compass = IF c \cap Compasses # {} THEN "compass" \in k.mask ELSE h.sys.compass
  /\ k.sys.pressure = IF "Pressure" \in c THEN "pressure" \in k.mask ELSE h.sys.pressure
\* The state in which enableSensors computes the batch mode.
LEMMA EnablePrepares ==
  ASSUME NEW h, ConfigInv(h), NEW what, NEW en \in BOOLEAN, NEW E
  PROVE  LET m == Masking(h, what, en, E)
             c == Changed(h, what, en, E)
             q == SwitchQuaternion(SwitchSensors(m, c))
             k == IF "accel" \in m.mask THEN q ELSE SetAccelBias(q)
         IN  Prepared(h, what, en, E, c, k) /\ k.mask = m.mask
<1> DEFINE H == h.enabled
           m == Masking(h, what, en, E)
           c == Changed(h, what, en, E)
           s == SwitchSensors(m, c)
           q == SwitchQuaternion(s)
           k == IF "accel" \in m.mask THEN q ELSE SetAccelBias(q)
<1>0. /\ Carried(h) /\ Settled(h) /\ Batching(h) /\ Picked(h, h.oldBatch) /\ Steps(h)
      /\ Held(h) /\ Lit(h) /\ Shape(h) /\ Own(h) /\ Masked(h) /\ Slow(h) /\ Linked(h)
  BY DEF ConfigInv, Carried, Sound, Settled
<1>3. /\ SameBut(h, m, {"enabled", "mask", "batch", "enableCalled"}, {})
      /\ m.enabled = E /\ m.batch = IF en THEN h.batch ELSE h.batch \ {what}
      /\ Masked(m)
      /\ E \cap Gyros # {} => "gyro" \in m.mask
      /\ E \cap (NineAxes \cup {GMRV, "Accelerometer"}) # {} => "accel" \in m.mask
      /\ GRV \in E => "accel" \in m.mask \/ ("batch" \in h.features /\ GRV \in m.batch)
  <2>1. h.mask \subseteq {"gyro", "accel", "compass", "pressure"}
    BY <1>0 DEF Masked
  <2>2. Shape(h)
    BY <1>0
  <2>3. SameBut(h, m, {"enabled", "mask", "batch", "enableCalled"}, {})
    BY <2>1, <2>2, MaskingDoes, ZenonT(30)
  <2>4. Masked(m)
    BY <2>1, <2>2, MaskingDoes, ZenonT(30)
  <2>5. m.enabled = E
    BY <2>2 DEF Masking, Shape, Fields
  <2>6. m.batch = IF en THEN h.batch ELSE h.batch \ {what}
    BY <2>2 DEF Masking, Shape, Fields
  <2>7. E \cap Gyros # {} => "gyro" \in m.mask
    BY <2>1, <2>2, MaskingDoes, ZenonT(30)
  <2>8. E \cap (NineAxes \cup {GMRV, "Accelerometer"}) # {} => "accel" \in m.mask
    BY <2>1, <2>2, MaskingDoes, ZenonT(30)
  <2>9. GRV \in E => "accel" \in m.mask \/ ("batch" \in h.features /\ GRV \in m.batch)
    BY <2>1, <2>2, MaskingDoes, ZenonT(30)
  <2> QED  BY <2>3, <2>4, <2>5, <2>6, <2>7, <2>8, <2>9
<1> HIDE DEF m, c
<1>4. /\ SameBut(m, s, {}, {"master", "gyro", "gyroFifo", "accel", "accelFifo", "compass", "pressure"})
      /\ s.sys.master = FALSE
      /\ s.sys.gyro = IF c \cap Gyros # {} THEN "gyro" \in m.mask ELSE m.sys.gyro
      /\ s.sys.accel = IF "Accelerometer" \in c THEN "accel" \in m.mask ELSE m.sys.accel
      /\ s.sys.compass = IF c \cap Compasses # {} THEN "compass" \in m.mask ELSE m.sys.compass
      /\ s.sys.pressure = IF "Pressure" \in c THEN "pressure" \in m.mask ELSE m.sys.pressure
  <2>1. Shape(m)
    BY <1>3 DEF SameBut
  <2> QED  BY <2>1, SwitchDoes
<1> HIDE DEF s
<1>5. /\ Moves(s, q) /\ q.mask = s.mask /\ StepsSame(s, q)
      /\ q.features = IF s.enabled \cap FusedAxes # {} THEN s.features \cup {"lpq"}
                      ELSE s.features \ {"lpq"}
      /\ q.sys.accel = s.sys.accel /\ q.sys.gyro = s.sys.gyro
      /\ q.sys.eventInt => s.sys.eventInt
      /\ Flag(s.sys.dmp, s.features # {}) => Flag(q.sys.dmp, q.features # {})
  <2>1. Shape(s)
    BY <1>4 DEF SameBut
  <2> QED  BY <2>1, QuaternionDoes
<1> HIDE DEF q
<1>6. /\ SameBut(q, k, {"accelBias"}, {})
      /\ k.accelBias => q.accelBias
      /\ "accel" \notin m.mask => ~k.accelBias
  <2>1. Shape(q)
    BY <1>5 DEF Moves, Keeps
  <2> QED  BY <2>1, BiasDoes, Itself
<1> HIDE DEF k
<1>7. /\ s.enabled = E /\ s.batch = m.batch /\ s.dmpSensors = h.dmpSensors
      /\ s.timeouts = h.timeouts /\ s.oldBatch = h.oldBatch /\ s.timeout = h.timeout
      /\ s.mask = m.mask /\ s.features = h.features /\ s.accelBias = h.accelBias
      /\ s.sys.smd = h.sys.smd /\ s.sys.pedometer = h.sys.pedometer
      /\ s.sys.timeout = h.sys.timeout /\ StepsSame(h, s)
      /\ s.sys.threeQ = h.sys.threeQ /\ s.sys.sixQ = h.sys.sixQ /\ s.sys.pedQ = h.sys.pedQ
      /\ s.sys.dmp = h.sys.dmp /\ s.sys.eventInt = h.sys.eventInt
  BY <1>3, <1>4 DEF SameBut, Fields, Files, Attributes, StepsSame
<1>8. /\ Shape(k) /\ k.enabled = E /\ k.batch = m.batch /\ k.dmpSensors = h.dmpSensors
      /\ k.timeouts = h.timeouts /\ k.oldBatch = h.oldBatch /\ k.timeout = h.timeout
      /\ k.mask = m.mask
      /\ k.features = IF E \cap FusedAxes # {} THEN h.features \cup {"lpq"} ELSE h.features \ {"lpq"}
      /\ k.accelBias => h.accelBias
      /\ k.sys.smd = h.sys.smd /\ k.sys.pedometer = h.sys.pedometer
      /\ k.sys.timeout = h.sys.timeout /\ StepsSame(h, k) /\ k.sys.master = FALSE
      /\ k.sys.eventInt => h.sys.eventInt
      /\ Flag(k.sys.dmp, k.features # {}) /\ Linked(k)
  <2>1. Keeps(s, q) /\ (Linked(s) => Linked(q)) /\ (q.accelBias => s.accelBias)
    BY <1>5 DEF Moves
  <2>2. /\ Shape(k) /\ k.enabled = q.enabled /\ k.batch = q.batch /\ k.dmpSensors = q.dmpSensors
        /\ k.timeouts = q.timeouts /\ k.oldBatch = q.oldBatch /\ k.timeout = q.timeout
        /\ k.mask = q.mask /\ k.features = q.features
        /\ \A a \in Files : k.sys[a] = q.sys[a]
    BY <1>6 DEF SameBut, Fields
  <2>3. /\ k.sys.smd = q.sys.smd /\ k.sys.pedometer = q.sys.pedometer
        /\ k.sys.timeout = q.sys.timeout /\ StepsSame(q, k) /\ k.sys.master = q.sys.master
        /\ k.sys.eventInt = q.sys.eventInt /\ k.sys.dmp = q.sys.dmp
        /\ k.sys.threeQ = q.sys.threeQ /\ k.sys.sixQ = q.sys.sixQ /\ k.sys.pedQ = q.sys.pedQ
    BY <2>2 DEF StepsSame, Files, Attributes
  <2>4. Linked(s) /\ Flag(s.sys.dmp, s.features # {})
    BY <1>0, <1>7 DEF Linked, Settled, StepsSame
  <2>5. Linked(k)
    BY <2>1, <2>2, <2>3, <2>4 DEF Linked, StepsSame
  <2>6. /\ Shape(k) /\ k.enabled = E /\ k.batch = m.batch /\ k.dmpSensors = h.dmpSensors
        /\ k.timeouts = h.timeouts /\ k.oldBatch = h.oldBatch /\ k.timeout = h.timeout
    BY <1>7, <2>1, <2>2 DEF Keeps
  <2>7. /\ k.mask = m.mask
        /\ k.features = IF E \cap FusedAxes # {} THEN h.features \cup {"lpq"} ELSE h.features \ {"lpq"}
    BY <1>5, <1>7, <2>2
  <2>8. k.accelBias => h.accelBias
    BY <1>6, <1>7, <2>1
  <2>9. /\ k.sys.smd = h.sys.smd /\ k.sys.pedometer = h.sys.pedometer
        /\ k.sys.timeout = h.sys.timeout /\ k.sys.master = FALSE
    BY <1>4, <1>7, <2>1, <2>3 DEF Keeps
  <2>10. StepsSame(h, k)
    BY <1>5, <1>7, <2>3 DEF StepsSame
  <2>11. k.sys.eventInt => h.sys.eventInt
    BY <1>5, <1>7, <2>3
  <2>12. Flag(k.sys.dmp, k.features # {})
    BY <1>5, <2>2, <2>3, <2>4
  <2> QED  BY <2>5, <2>6, <2>7, <2>8, <2>9, <2>10, <2>11, <2>12
<1>9. /\ k.sys.gyro = IF c \cap Gyros # {} THEN "gyro" \in k.mask ELSE h.sys.gyro
      /\ k.sys.accel = IF "Accelerometer" \in c THEN "accel" \in k.mask ELSE h.sys.accel
      /\ k.sys.compass = IF c \cap Compasses # {} THEN "compass" \in k.mask ELSE h.sys.compass
      /\ k.sys.pressure = IF "Pressure" \in c THEN "pressure" \in k.mask ELSE h.sys.pressure
  <2>1. /\ k.sys.gyro = q.sys.gyro /\ k.sys.accel = q.sys.accel
        /\ k.sys.compass = q.sys.compass /\ k.sys.pressure = q.sys.pressure
    BY <1>6 DEF SameBut, Files, Attributes
  <2>2. q.sys.compass = s.sys.compass /\ q.sys.pressure = s.sys.pressure
    BY <1>5 DEF Moves, Keeps
  <2>3. /\ m.sys.gyro = h.sys.gyro /\ m.sys.accel = h.sys.accel
        /\ m.sys.compass = h.sys.compass /\ m.sys.pressure = h.sys.pressure
    BY <1>3 DEF SameBut, Files, Attributes
  <2> QED  BY <1>4, <1>5, <1>8, <2>1, <2>2, <2>3
<1>10. Masked(k)
  BY <1>3, <1>8 DEF Masked
<1>11. Prepared(h, what, en, E, c, k) /\ k.mask = m.mask
  <2>1. "accel" \notin k.mask => ~k.accelBias
    BY <1>6, <1>8
  <2> QED  BY <1>3, <1>8, <1>9, <1>10, <2>1 DEF Prepared
<1> QED  BY <1>11 DEF m, c, s, q, k
\* The state it is computed in is sound but for the batch mode.
LEMMA PreparedCarried ==
  ASSUME NEW h, ConfigInv(h), NEW what \in Sensors, NEW en \in BOOLEAN, NEW E,
         Toggles(h, what, en, E), NEW c, c = Changed(h, what, en, E), NEW k,
         Prepared(h, what, en, E, c, k)
  PROVE  Carried(k) /\ Settled(k)
<1>1. /\ Own(h) /\ Slow(h) /\ Masked(h) /\ h.enabled \subseteq Sensors \cap (Hardware \cup Virtual)
      /\ Settled(h) /\ Linked(h) /\ Timed(h)
  BY DEF ConfigInv, Carried, Sound, Settled
<1>2. /\ c \cap Compasses = {} => (E \cap SlowUsers # {} <=> h.enabled \cap SlowUsers # {})
      /\ "Pressure" \notin c => ("Pressure" \in E <=> "Pressure" \in h.enabled)
  BY ChangedDoes
<1>3. k.enabled \subseteq Sensors \cap (Hardware \cup Virtual)
  BY <1>1 DEF Prepared, Toggles
<1>4. Own(k)
  <2>1. \A f \in {"smd", "pedometer", "pedometerStep"} : f \in k.features <=> f \in h.features
    BY DEF Prepared
  <2> QED  BY <1>1, <2>1 DEF Prepared, Own, Flag
<1>5. Slow(k)
  <2>1. Masked(k) /\ k.enabled = E
    BY DEF Prepared
  <2>2. Flag(k.sys.compass, "compass" \in k.mask)
    <3>1. k.sys.compass = IF c \cap Compasses # {} THEN "compass" \in k.mask ELSE h.sys.compass
      BY DEF Prepared
    <3>2. CASE c \cap Compasses # {}
      <4>1. k.sys.compass = ("compass" \in k.mask)
        BY <3>1, <3>2
      <4>2. Flag("compass" \in k.mask, "compass" \in k.mask)
        BY DEF Flag
      <4> QED  BY <4>1, <4>2, Zenon
    <3>3. CASE c \cap Compasses = {}
      <4>1. "compass" \in k.mask <=> "compass" \in h.mask
        BY <1>1, <1>2, <2>1, <3>3 DEF Masked
      <4> QED  BY <1>1, <3>1, <3>3, <4>1 DEF Slow, Flag
    <3> QED  BY <3>2, <3>3
  <2>3. Flag(k.sys.pressure, "pressure" \in k.mask)
    <3>1. k.sys.pressure = IF "Pressure" \in c THEN "pressure" \in k.mask ELSE h.sys.pressure
      BY DEF Prepared
    <3>2. "Pressure" \notin c => ("pressure" \in k.mask <=> "pressure" \in h.mask)
      BY <1>1, <1>2, <2>1 DEF Masked
    <3>3. CASE "Pressure" \in c
      <4>1. k.sys.pressure = ("pressure" \in k.mask)
        BY <3>1, <3>3
      <4>2. Flag("pressure" \in k.mask, "pressure" \in k.mask)
        BY DEF Flag
      <4> QED  BY <4>1, <4>2, Zenon
    <3>4. CASE "Pressure" \notin c
      BY <1>1, <3>1, <3>2, <3>4 DEF Slow, Flag
    <3> QED  BY <3>3, <3>4
  <2> QED  BY <2>2, <2>3 DEF Slow
<1>6. k.enabled = {} => ~k.accelBias
  <2>1. Masked(k) /\ ("accel" \notin k.mask => ~k.accelBias)
    BY DEF Prepared
  <2> QED  BY <2>1 DEF Masked
<1>7. Carried(k)
  BY <1>3, <1>4, <1>5, <1>6 DEF Carried, Prepared
<1>8. Settled(k)
  <2>1. /\ Shape(k) /\ k.oldBatch = h.oldBatch /\ k.timeout = h.timeout /\ k.timeouts = h.timeouts
        /\ k.sys.timeout = h.sys.timeout /\ k.batch \subseteq h.batch
        /\ Linked(k) /\ Flag(k.sys.dmp, k.features # {})
        /\ "batch" \in k.features <=> "batch" \in h.features
        /\ "orientation" \in k.features <=> "orientation" \in h.features
    BY DEF Prepared
  <2>2. k.batch \subseteq Sensors /\ k.batch \subseteq Batchable
    BY <1>1, <2>1 DEF Settled, Timed
  <2>3. Timed(k)
    BY <1>1, <2>1, <2>2 DEF Timed
  <2> QED  BY <1>1, <2>1, <2>2, <2>3 DEF Settled
<1> QED  BY <1>7, <1>8

\* A step detector that is to be batched stays so.
LEMMA PreparedHeld ==
  ASSUME NEW h, ConfigInv(h), NEW what \in Sensors, NEW en \in BOOLEAN, NEW E,
         Toggles(h, what, en, E), NEW c, c = Changed(h, what, en, E), NEW k,
         Prepared(h, what, en, E, c, k)
  PROVE  Data(k) /\ (Held(k) \/ (BatchMode(k, k.batch) /\ GRV \in E))
<1>1. /\ Held(h) /\ Data(h) /\ Batching(h) /\ Settled(h) /\ ("batch" \in h.features <=> h.oldBatch)
  BY DEF ConfigInv, Sound, Settled, Held
<1>2. /\ "Accelerometer" \notin c => (E \cap AccelUsers # {} <=> h.enabled \cap AccelUsers # {})
      /\ en /\ "Accelerometer" \in c /\ "Accelerometer" \notin E => what \in Virtual
  BY ChangedDoes
<1>3. /\ k.enabled = E
      /\ E \cap Gyros # {} => "gyro" \in k.mask
      /\ E \cap (NineAxes \cup {GMRV, "Accelerometer"}) # {} => "accel" \in k.mask
      /\ GRV \in E => "accel" \in k.mask \/ ("batch" \in h.features /\ GRV \in k.batch)
      /\ k.features = IF E \cap FusedAxes # {} THEN h.features \cup {"lpq"} ELSE h.features \ {"lpq"}
      /\ k.sys.accel = IF "Accelerometer" \in c THEN "accel" \in k.mask ELSE h.sys.accel
      /\ k.batch = (IF en THEN h.batch ELSE h.batch \ {what})
  BY DEF Prepared
<1>4. Data(k)
  <2>1. GRV \in E => "lpq" \in k.features
    BY <1>3 DEF FusedAxes
  <2> QED  BY <1>3, <2>1 DEF Data, Quats
<1>5. CASE "Accelerometer" \notin c
  <2>1. h.enabled \cap AccelUsers # {} => h.sys.accel = TRUE
    BY <1>1 DEF Held, AccelUsers, FusedAxes
  <2>2. E \cap AccelUsers # {} => k.sys.accel = TRUE
    BY <1>2, <1>3, <1>5, <2>1
  <2> QED  BY <1>3, <1>4, <2>2 DEF Held, AccelUsers, FusedAxes
<1>6. CASE "Accelerometer" \in c /\ "accel" \in k.mask
  BY <1>3, <1>4, <1>6 DEF Held
<1>7. CASE "Accelerometer" \in c /\ "accel" \notin k.mask /\ GRV \notin E
  BY <1>3, <1>4, <1>7 DEF Held
<1>8. CASE "Accelerometer" \in c /\ "accel" \notin k.mask /\ GRV \in E
  <2>1. h.oldBatch /\ GRV \in k.batch /\ h.enabled \subseteq h.batch
        /\ ("pedometer" \in h.features => "StepDetector" \in h.batch)
    BY <1>1, <1>3, <1>8 DEF Batching
  <2>2. E \cap (NineAxes \cup {GMRV}) = {} /\ "Accelerometer" \notin E
    BY <1>3, <1>8
  <2>3. (what \in h.enabled <=> ~en) /\ E = (IF en THEN h.enabled \cup {what} ELSE h.enabled \ {what})
        /\ what \in Hardware \cup Virtual
    BY DEF Toggles
  <2>4. en => what = GRV
    BY <1>2, <1>8, <2>2, <2>3 DEF Virtual
  <2>5. E \subseteq k.batch
    BY <1>3, <2>1, <2>3, <2>4
  <2>6. what # "StepDetector"
    BY <2>3 DEF Hardware, Virtual, Gyros, Compasses, NineAxes, GRV, GMRV
  <2>7. "pedometer" \in k.features => "StepDetector" \in k.batch
    BY <1>3, <2>1, <2>6
  <2>8. E \cup k.batch # {} /\ k.batch # {}
    BY <2>1
  <2>9. k.enabled = E
    BY <1>3
  <2> QED  BY ONLY <1>4, <1>8, <2>1, <2>5, <2>7, <2>8, <2>9 DEF BatchMode, AllBatched
<1> QED  BY <1>4, <1>5, <1>6, <1>7, <1>8
\* The features agree with the batch mode about to be set.
LEMMA PreparedReady ==
  ASSUME NEW h, ConfigInv(h), NEW what \in Sensors, NEW en \in BOOLEAN, NEW E,
         Toggles(h, what, en, E), NEW c, c = Changed(h, what, en, E), NEW k,
         Prepared(h, what, en, E, c, k)
  PROVE  Ready(k, BatchMode(k, k.batch))
<1>1. /\ k.enabled = E
      /\ E \cap Gyros # {} => "gyro" \in k.mask
      /\ E \cap (NineAxes \cup {GMRV, "Accelerometer"}) # {} => "accel" \in k.mask
      /\ k.features = IF E \cap FusedAxes # {} THEN h.features \cup {"lpq"} ELSE h.features \ {"lpq"}
  BY DEF Prepared
<1>2. Settled(k) /\ (Held(k) \/ (BatchMode(k, k.batch) /\ GRV \in E))
  BY PreparedCarried, PreparedHeld
<1>3. BatchMode(k, k.batch) => k.enabled \subseteq k.batch
  BY ModeIs
<1>4. "six" \in k.features => GRV \in k.enabled \/ Lean(k)
  <2> SUFFICES ASSUME "six" \in k.features, GRV \notin E
               PROVE  Lean(k)
    BY <1>1
  <2>1. Picked(h, h.oldBatch) /\ Batching(h) /\ h.batch \subseteq Batchable
    BY DEF ConfigInv, Sound, Settled
  <2>2. GRV \in h.enabled /\ h.enabled \subseteq h.batch
    BY <1>1, <2>1 DEF Picked, Batching
  <2>3. (what \in h.enabled <=> ~en) /\ E = (IF en THEN h.enabled \cup {what} ELSE h.enabled \ {what})
    BY DEF Toggles
  <2>4. ~en /\ what = GRV /\ E \subseteq Batchable
    BY <2>1, <2>2, <2>3
  <2>5. E \cap Virtual = {}
    BY <2>4 DEF Batchable, Hardware, Virtual, Gyros, Compasses, NineAxes, GRV, GMRV
  <2>6. /\ c \cap Gyros = {} => E \cap Gyros # {}
        /\ "Accelerometer" \notin c => "Accelerometer" \in E
    BY <2>4, <2>5, ChangedDoes
  <2>7. /\ k.sys.gyro = IF c \cap Gyros # {} THEN "gyro" \in k.mask ELSE h.sys.gyro
        /\ k.sys.accel = IF "Accelerometer" \in c THEN "accel" \in k.mask ELSE h.sys.accel
    BY DEF Prepared
  <2>8. k.sys.gyro => "gyro" \in k.mask
    BY <1>1, <2>6, <2>7
  <2>9. k.sys.accel => "accel" \in k.mask
    BY <1>1, <2>6, <2>7
  <2> QED  BY <2>8, <2>9 DEF Lean
<1>5. /\ "lpq" \in k.features => k.enabled \cap FusedAxes # {}
      /\ k.enabled \cap NineAxes # {} => "lpq" \in k.features
      /\ GRV \in k.enabled => "lpq" \in k.features
  BY <1>1 DEF FusedAxes
<1> QED  BY <1>1, <1>2, <1>3, <1>4, <1>5 DEF Ready, Settled

\* Without a batch, before and after, the steps and the quaternion need no
\* change.
LEMMA PreparedQuiet ==
  ASSUME NEW h, ConfigInv(h), NEW what \in Sensors, NEW en \in BOOLEAN, NEW E,
         Toggles(h, what, en, E), NEW c, c = Changed(h, what, en, E), NEW k,
         Prepared(h, what, en, E, c, k), ~h.oldBatch
  PROVE  Steps(k) /\ Picked(k, FALSE) /\ Lit(k)
<1>1. /\ Steps(h) /\ Picked(h, FALSE) /\ Lit(h) /\ Masked(h)
  BY DEF ConfigInv, Sound, Carried, Settled, Picked
<1>2. /\ k.enabled = E
      /\ E \cap Gyros # {} => "gyro" \in k.mask
      /\ E \cap (NineAxes \cup {GMRV, "Accelerometer"}) # {} => "accel" \in k.mask
      /\ k.features = IF E \cap FusedAxes # {} THEN h.features \cup {"lpq"} ELSE h.features \ {"lpq"}
      /\ k.sys.gyro = IF c \cap Gyros # {} THEN "gyro" \in k.mask ELSE h.sys.gyro
      /\ k.sys.accel = IF "Accelerometer" \in c THEN "accel" \in k.mask ELSE h.sys.accel
      /\ StepsSame(h, k)
  BY DEF Prepared
<1>3. /\ "Accelerometer" \notin c => (E \cap AccelUsers # {} <=> h.enabled \cap AccelUsers # {})
      /\ c \cap Gyros = {} /\ E \cap (FusedAxes \cup Gyros) = {} =>
           h.enabled \cap (FusedAxes \cup Gyros) = {}
  BY ChangedDoes
<1>4. \A f : f # "lpq" => (f \in k.features <=> f \in h.features)
  BY <1>2
<1>5. Steps(k)
  BY <1>1, <1>2, <1>4 DEF Steps, StepsSame
<1>6. Picked(k, FALSE)
  BY <1>1, <1>2, <1>4 DEF Picked, Quats
<1>7. E \cap FusedAxes = {} /\ Wanted(h) /\ h.enabled \cap FusedAxes = {} => Wanted(k)
  BY <1>4 DEF Wanted
<1>8. ASSUME k.sys.gyro, "gyro" \notin k.mask, E \cap FusedAxes = {}
      PROVE  Wanted(k)
  <2>1. c \cap Gyros = {} /\ h.sys.gyro /\ E \cap Gyros = {}
    BY <1>2, <1>8
  <2>2. h.enabled \cap (FusedAxes \cup Gyros) = {}
    BY <1>3, <1>8, <2>1
  <2>3. "gyro" \notin h.mask /\ h.enabled \cap FusedAxes = {}
    BY <1>1, <2>2 DEF Masked
  <2> QED  BY <1>1, <1>7, <1>8, <2>1, <2>3 DEF Lit
<1>9. ASSUME k.sys.accel, "accel" \notin k.mask, E \cap FusedAxes = {}
      PROVE  Wanted(k)
  <2>1. "Accelerometer" \notin c /\ h.sys.accel /\ E \cap {GMRV, "Accelerometer"} = {}
    BY <1>2, <1>9
  <2>2. h.enabled \cap AccelUsers = {}
    BY <1>3, <1>9, <2>1 DEF AccelUsers
  <2>3. "accel" \notin h.mask /\ h.enabled \cap FusedAxes = {}
    BY <1>1, <2>2 DEF Masked, AccelUsers
  <2> QED  BY <1>1, <1>7, <1>9, <2>1, <2>3 DEF Lit
<1>10. E \cap FusedAxes # {} => Wanted(k)
  BY <1>2 DEF Wanted
<1> QED  BY <1>5, <1>6, <1>8, <1>9, <1>10 DEF Lit

\* The mask tells whether anything is enabled, but in a batch the game
\* rotation vector may be all the DMP's.
LEMMA PreparedNeeds ==
  ASSUME NEW h, ConfigInv(h), NEW what \in Sensors, NEW en \in BOOLEAN, NEW E,
         Toggles(h, what, en, E), NEW c, NEW k, Prepared(h, what, en, E, c, k)
  PROVE  /\ E # {} => k.mask # {} \/ (GRV \in E /\ h.oldBatch)
         /\ k.mask # {} => E # {}
<1>1. /\ Masked(k) /\ k.enabled = E
      /\ E \cap Gyros # {} => "gyro" \in k.mask
      /\ E \cap (NineAxes \cup {GMRV, "Accelerometer"}) # {} => "accel" \in k.mask
      /\ GRV \in E => "accel" \in k.mask \/ ("batch" \in h.features /\ GRV \in k.batch)
  BY DEF Prepared
<1>2. "batch" \in h.features <=> h.oldBatch
  BY DEF ConfigInv, Sound, Settled
<1>3. E \subseteq Hardware \cup Virtual
  BY DEF ConfigInv, Carried, Toggles
<1>4. ASSUME NEW x \in E, k.mask = {}
      PROVE  GRV \in E /\ h.oldBatch
  <2>1. x \notin Gyros \cup NineAxes \cup {GMRV, "Accelerometer"}
    BY <1>1, <1>4
  <2>2. x \notin Compasses \cup {"Pressure"}
    BY <1>1, <1>4 DEF Masked, SlowUsers
  <2>3. x = GRV
    BY <1>3, <2>1, <2>2 DEF Hardware, Virtual
  <2> QED  BY <1>1, <1>2, <1>4, <2>3
<1>5. k.mask # {} => E # {}
  BY <1>1 DEF Masked
<1> QED  BY <1>4, <1>5
\* The rates, the master switch, the event interrupt and the FIFOs apart, nothing
\* changes.
Alike(h, g) ==
  /\ Same(h, g)
  /\ g.oldBatch = h.oldBatch /\ g.timeout = h.timeout /\ g.sys.timeout = h.sys.timeout
  /\ g.sys.dmp = h.sys.dmp /\ (g.accelBias => h.accelBias)
\* A state like a sound one is sound.
LEMMA AlikeSound ==
  ASSUME NEW h, NEW g, Sound(h), Carried(h), Alike(h, g)
  PROVE  Sound(g) /\ Carried(g)
<1>1. Carried(g)
  BY SameCarried DEF Alike
<1>2. /\ Held(h) => Held(g)
      /\ Steps(h) => Steps(g)
      /\ \A b : Picked(h, b) => Picked(g, b)
      /\ Lit(h) => Lit(g)
      /\ Linked(h) => Linked(g)
  BY SameGood DEF Alike
<1>3. Settled(h) /\ Batching(h) /\ Picked(h, h.oldBatch) /\ Steps(h) /\ Held(h) /\ Lit(h)
      /\ (h.timeout > 0 <=> h.oldBatch)
  BY DEF Sound
<1>4. Shape(g) /\ g.oldBatch = h.oldBatch /\ g.timeout = h.timeout /\ g.sys.timeout = h.sys.timeout
      /\ g.sys.dmp = h.sys.dmp /\ g.features = h.features /\ g.batch = h.batch
      /\ g.timeouts = h.timeouts /\ g.enabled = h.enabled
  BY DEF Alike, Same
<1>5. Settled(g)
  BY <1>2, <1>3, <1>4 DEF Settled, Timed
<1>6. Batching(g)
  BY <1>3, <1>4 DEF Batching
<1> QED  BY <1>1, <1>2, <1>3, <1>4, <1>5, <1>6 DEF Sound
\* A quiet step leaves the state like it was.
LEMMA QuietAlike ==
  ASSUME NEW h, NEW g, Quiet(h, g)
  PROVE  Alike(h, g)
BY QuietSame DEF Alike, Quiet, Keeps
\* So do the master switch and the event interrupt.
LEMMA ButAlike ==
  ASSUME NEW h, NEW g, SameBut(h, g, RateMembers, Rates \cup {"master", "eventInt"})
  PROVE  Alike(h, g)
<1>1. Same(h, g)
  <2>1. RateMembers \subseteq SameMembers /\ Rates \cup {"master", "eventInt"} \subseteq SameFiles
    BY DEF RateMembers, SameMembers, SameFiles
  <2> QED  BY <2>1, Widen, ButSame
<1>2. /\ g.oldBatch = h.oldBatch /\ g.timeout = h.timeout /\ g.accelBias = h.accelBias
      /\ g.sys.timeout = h.sys.timeout /\ g.sys.dmp = h.sys.dmp
  BY DEF SameBut, RateMembers, Rates, Fields, Files, Attributes
<1> QED  BY <1>1, <1>2 DEF Alike

\* The DMP is fed by accel, if a feature of it needs that.
LEMMA FeedDoes ==
  ASSUME NEW h, Shape(h), NEW need
  PROVE  LET g == FeedDmp(h, need)
         IN  \/ g = h
             \/ /\ SameBut(h, g, {"dmpOn"}, {"dmp", "eventInt", "accel", "accelFifo"})
                /\ g.sys.dmp = TRUE /\ g.sys.accel = TRUE
                /\ h.features \cap DmpFeatures # {}
                /\ h.features \cap {"six", "standalone", "pedQ", "batch"} = {}
<1> DEFINE d == OnDmp(h, TRUE)
           on == EnableAccel(d, TRUE)
           off == TurnOffAccelFifo(on)
<1>1. SameBut(h, d, {"dmpOn"}, {"dmp", "eventInt"}) /\ d.sys.dmp = TRUE
  BY OnDmpOn
<1>2. FeedDmp(h, need) \in {h, on, off}
      /\ (FeedDmp(h, need) # h => /\ h.features \cap DmpFeatures # {}
                                  /\ h.features \cap {"six", "standalone", "pedQ", "batch"} = {})
  BY DEF FeedDmp
<1> HIDE DEF d
<1>3. SameBut(d, on, {}, {"accel", "accelFifo"}) /\ on.sys.accel = TRUE
  <2>1. Shape(d)
    BY <1>1 DEF SameBut
  <2> QED  BY <2>1, AccelDoes
<1> HIDE DEF on
<1>4. SameBut(on, off, {}, {"accelFifo"})
  <2>1. Shape(on)
    BY <1>3 DEF SameBut
  <2> QED  BY <2>1, FifosDo
<1> HIDE DEF off
<1>5. /\ SameBut(h, on, {"dmpOn"}, {"dmp", "eventInt", "accel", "accelFifo"})
      /\ SameBut(h, off, {"dmpOn"}, {"dmp", "eventInt", "accel", "accelFifo"})
  BY <1>1, <1>3, <1>4 DEF SameBut
<1>6. on.sys.dmp = TRUE /\ off.sys.dmp = TRUE /\ off.sys.accel = TRUE
  BY <1>1, <1>3, <1>4 DEF SameBut, Files, Attributes
<1> QED  BY <1>2, <1>3, <1>5, <1>6 
\* The accelerometer kept on for the DMP.
LEMMA FeedSound ==
  ASSUME NEW h, Sound(h), Carried(h), NEW need
  PROVE  LET z == Put(FeedDmp(h, need), [eventInt |-> FALSE])
         IN  /\ Sound(z) /\ Carried(z) /\ z.sys.eventInt = FALSE /\ z.sys.master = h.sys.master
             /\ z.enabled = h.enabled /\ z.features = h.features /\ z.oldBatch = h.oldBatch
<1> DEFINE g == FeedDmp(h, need)
           z == Put(g, [eventInt |-> FALSE])
<1>1. Shape(h) /\ Settled(h)
  BY DEF Sound, Settled
<1>2. \/ g = h
      \/ /\ SameBut(h, g, {"dmpOn"}, {"dmp", "eventInt", "accel", "accelFifo"})
         /\ g.sys.dmp = TRUE /\ g.sys.accel = TRUE
         /\ h.features \cap DmpFeatures # {}
         /\ h.features \cap {"six", "standalone", "pedQ", "batch"} = {}
  BY <1>1, FeedDoes
<1> HIDE DEF g
<1>3. Shape(g)
  BY <1>1, <1>2 DEF SameBut
<1>4. SameBut(g, z, {}, {"eventInt"}) /\ z.sys.eventInt = FALSE
  BY <1>3, EventDoes
<1> HIDE DEF z
<1>5. Sound(g) /\ Carried(g) /\ g.sys.master = h.sys.master
      /\ g.enabled = h.enabled /\ g.features = h.features /\ g.oldBatch = h.oldBatch
  <2>1. CASE g = h
    BY <2>1
  <2>2. CASE g # h
    <3>1. /\ Shape(g) /\ g.enabled = h.enabled /\ g.batch = h.batch /\ g.dmpSensors = h.dmpSensors
          /\ g.timeouts = h.timeouts /\ g.oldBatch = h.oldBatch /\ g.timeout = h.timeout
          /\ g.features = h.features /\ g.mask = h.mask /\ g.accelBias = h.accelBias
      BY <1>2, <2>2 DEF SameBut, Fields
    <3>2. /\ g.sys.smd = h.sys.smd /\ g.sys.pedometer = h.sys.pedometer
          /\ g.sys.timeout = h.sys.timeout /\ g.sys.compass = h.sys.compass
          /\ g.sys.pressure = h.sys.pressure /\ g.sys.master = h.sys.master
          /\ g.sys.threeQ = h.sys.threeQ /\ g.sys.sixQ = h.sys.sixQ /\ g.sys.pedQ = h.sys.pedQ
          /\ g.sys.gyro = h.sys.gyro /\ StepsSame(h, g)
      BY <1>2, <2>2 DEF SameBut, Files, Attributes, StepsSame
    <3>3. g.sys.dmp = TRUE /\ g.sys.accel = TRUE /\ h.features # {}
      BY <1>2, <2>2
    <3>4. Carried(g)
      <4>1. Follows(h, g)
        BY <3>1, <3>2 DEF Follows, Masks
      <4> QED  BY <4>1, FollowsCarried
    <3>5. Settled(g)
      <4>1. Timed(g)
        BY <1>1, <3>1, <3>2 DEF Settled, Timed
      <4>2. Linked(g)
        BY <1>1, <3>1, <3>2 DEF Settled, Linked, StepsSame
      <4>3. Flag(g.sys.dmp, g.features # {})
        BY <3>1, <3>3 DEF Flag
      <4> QED  BY <1>1, <3>1, <4>1, <4>2, <4>3 DEF Settled
    <3>6. Batching(g) /\ Picked(g, g.oldBatch) /\ Steps(g) /\ (g.timeout > 0 <=> g.oldBatch)
      BY <3>1, <3>2 DEF Sound, Batching, Picked, Steps, StepsSame
    <3>7. Held(g)
      BY <3>1, <3>3 DEF Sound, Held, Data
    <3>8. Wanted(g)
      <4>1. "orientation" \notin h.features /\ ("lpq" \in h.features => h.enabled \cap FusedAxes # {})
        BY <1>1 DEF Sound, Settled, Picked
      <4> QED  BY <1>2, <2>2, <3>1, <4>1 DEF DmpFeatures, Wanted
    <3>9. Lit(g)
      BY <3>8 DEF Lit
    <3> QED  BY <3>1, <3>2, <3>4, <3>5, <3>6, <3>7, <3>9 DEF Sound
  <2> QED  BY <2>1, <2>2
<1>6. Alike(g, z)
  <2>1. SameBut(g, z, RateMembers, Rates \cup {"master", "eventInt"})
    BY <1>4, Widen
  <2> QED  BY <2>1, ButAlike
<1>7. Sound(z) /\ Carried(z)
  BY <1>5, <1>6, AlikeSound
<1>8. z.sys.master = g.sys.master /\ z.enabled = g.enabled /\ z.features = g.features
      /\ z.oldBatch = g.oldBatch
  BY <1>4 DEF SameBut, Fields, Files, Attributes
<1>9. /\ Sound(z) /\ Carried(z) /\ z.sys.eventInt = FALSE /\ z.sys.master = h.sys.master
      /\ z.enabled = h.enabled /\ z.features = h.features /\ z.oldBatch = h.oldBatch
  BY <1>4, <1>5, <1>7, <1>8
<1> QED  BY <1>9 DEF z, g
\* The last step of most calls: the rates, and the chip's master switch.
LEMMA MasterSound ==
  ASSUME NEW h, Sound(h), Carried(h), NEW en
  PROVE  LET g == MasterEnable(h, en)
         IN  /\ Sound(g) /\ Carried(g) /\ g.sys.master = en /\ g.sys.eventInt = h.sys.eventInt
             /\ g.enabled = h.enabled /\ g.features = h.features
<1> DEFINE g == MasterEnable(h, en)
<1>1. Shape(h)
  BY DEF Sound, Settled
<1>2. SameBut(h, g, {}, {"master"}) /\ g.sys.master = en
  BY <1>1, MasterDoes
<1> HIDE DEF g
<1>3. Alike(h, g)
  <2>1. SameBut(h, g, RateMembers, Rates \cup {"master", "eventInt"})
    BY <1>2, Widen
  <2> QED  BY <2>1, ButAlike
<1>4. Sound(g) /\ Carried(g)
  BY <1>3, AlikeSound
<1>5. g.sys.eventInt = h.sys.eventInt /\ g.enabled = h.enabled /\ g.features = h.features
  BY <1>2 DEF SameBut, Fields, Files, Attributes
<1>6. /\ Sound(g) /\ Carried(g) /\ g.sys.master = en /\ g.sys.eventInt = h.sys.eventInt
      /\ g.enabled = h.enabled /\ g.features = h.features
  BY <1>2, <1>4, <1>5
<1> QED  BY <1>6 DEF g
\* A quiet step keeps what is sound.
LEMMA QuietSound ==
  ASSUME NEW h, NEW g, Sound(h), Carried(h), Quiet(h, g)
  PROVE  /\ Sound(g) /\ Carried(g) /\ g.sys.master = h.sys.master
         /\ g.sys.eventInt = h.sys.eventInt
         /\ g.enabled = h.enabled /\ g.features = h.features /\ g.oldBatch = h.oldBatch
BY QuietAlike, AlikeSound DEF Quiet, Keeps
\* A state at rest, whatever the master switch was before.
LEMMA MasterRests ==
  ASSUME NEW h, Sound(h), Carried(h), h.enabled # {} => ~h.sys.eventInt,
         NEW g, \/ h.enabled \cup h.features # {} /\ g = MasterEnable(h, TRUE)
                \/ Flag(h.sys.master, h.enabled \cup h.features # {}) /\ g = h
  PROVE  ConfigInv(g)
<1>1. CASE h.enabled \cup h.features # {} /\ g = MasterEnable(h, TRUE)
  <2>1. /\ Sound(g) /\ Carried(g) /\ g.sys.master = TRUE /\ g.sys.eventInt = h.sys.eventInt
        /\ g.enabled = h.enabled /\ g.features = h.features
    BY <1>1, MasterSound
  <2> QED  BY <1>1, <2>1 DEF ConfigInv, Rested, Flag
<1>2. CASE Flag(h.sys.master, h.enabled \cup h.features # {}) /\ g = h
  BY <1>2 DEF ConfigInv, Rested
<1> QED  BY <1>1, <1>2

\* enableSensors, from what enable has prepared.
LEMMA EnableSensorsKeeps ==
  ASSUME NEW h, ConfigInv(h), NEW what \in Sensors, NEW en \in BOOLEAN, NEW E,
         Toggles(h, what, en, E)
  PROVE  ConfigInv(EnableSensors(Masking(h, what, en, E), Changed(h, what, en, E)))
<1> DEFINE m == Masking(h, what, en, E)
           c == Changed(h, what, en, E)
           need == m.mask
           q == SwitchQuaternion(SwitchSensors(m, c))
           k == IF "accel" \in need THEN q ELSE SetAccelBias(q)
           b == ComputeBatch(k, FALSE)
           z == IF c = {} \/ (need = {} /\ b.dmpSensors \ {"ScreenOrientation"} = {}) THEN b
                ELSE Put(FeedDmp(b, need), [eventInt |-> FALSE])
           r == IF z.oldBatch THEN z ELSE ResetRates(z)
           g == EnableSensors(m, c)
           mode == BatchMode(k, k.batch)
<1>1. g = IF r.features # {} \/ need # {} THEN MasterEnable(r, TRUE) ELSE r
  BY DEF EnableSensors
<1>2. Prepared(h, what, en, E, c, k) /\ k.mask = need
  BY EnablePrepares
<1>3. c = Changed(h, what, en, E)
  OBVIOUS
<1>4. en /\ h.enabled = {} => c # {}
  BY ChangedDoes
<1> HIDE DEF g, k, c, m
<1>5. /\ Settled(k) /\ Carried(k) /\ (Held(k) \/ (mode /\ GRV \in E)) /\ Ready(k, mode)
  BY <1>2, <1>3, PreparedCarried, PreparedHeld, PreparedReady
<1>6. ~h.oldBatch => Steps(k) /\ Picked(k, FALSE) /\ Lit(k)
  BY <1>2, <1>3, PreparedQuiet
<1>7. (E # {} => need # {} \/ (GRV \in E /\ h.oldBatch)) /\ (need # {} => E # {})
  BY <1>2, PreparedNeeds
<1>8. /\ k.oldBatch = h.oldBatch /\ k.enabled = E /\ k.sys.master = FALSE
      /\ k.sys.eventInt => h.sys.eventInt
  BY <1>2 DEF Prepared
<1>9. /\ Sound(b) /\ Carried(b) /\ Follows(k, b)
      /\ IF h.oldBatch \/ mode THEN b.enabled # {} => ~b.sys.eventInt
         ELSE b.sys.eventInt = k.sys.eventInt
      /\ b.sys.master = FALSE
  BY <1>5, <1>6, <1>8, ComputeBatchSound
<1> HIDE DEF b, mode
<1>10. /\ Sound(z) /\ Carried(z) /\ z.enabled = E /\ z.sys.master = FALSE
       /\ E # {} => ~z.sys.eventInt
  <2>1. b.enabled = E
    BY <1>8, <1>9 DEF Follows
  <2>2. CASE c = {} \/ (need = {} /\ b.dmpSensors \ {"ScreenOrientation"} = {})
    <3>1. ASSUME E # {}, ~h.oldBatch, ~mode
          PROVE  ~b.sys.eventInt
      <4>1. need # {} /\ c = {}
        BY <1>7, <2>2, <3>1
      <4>2. E = IF en THEN h.enabled \cup {what} ELSE h.enabled \ {what}
        BY DEF Toggles
      <4>3. h.enabled # {}
        BY <1>4, <3>1, <4>1, <4>2
      <4>4. ~h.sys.eventInt
        BY <4>3 DEF ConfigInv, Rested
      <4> QED  BY <1>8, <1>9, <3>1, <4>4
    <3> QED  BY <1>9, <2>1, <2>2, <3>1
  <2>3. CASE ~(c = {} \/ (need = {} /\ b.dmpSensors \ {"ScreenOrientation"} = {}))
    <3>1. z = Put(FeedDmp(b, need), [eventInt |-> FALSE])
      BY <2>3
    <3> HIDE DEF z
    <3>2. /\ Sound(z) /\ Carried(z) /\ z.sys.eventInt = FALSE /\ z.sys.master = b.sys.master
          /\ z.enabled = b.enabled
      BY <1>9, <3>1, FeedSound
    <3> QED  BY <1>9, <2>1, <3>2
  <2> QED  BY <2>2, <2>3
<1> HIDE DEF z
<1>11. /\ Sound(r) /\ Carried(r) /\ r.enabled = E /\ r.sys.master = FALSE
       /\ E # {} => ~r.sys.eventInt
  <2>1. CASE z.oldBatch
    BY <1>10, <2>1
  <2>2. CASE ~z.oldBatch
    <3>1. r = ResetRates(z)
      BY <2>2
    <3> HIDE DEF r
    <3>2. Shape(z)
      BY <1>10 DEF Sound, Settled
    <3>3. Quiet(z, r)
      BY <3>1, <3>2, ResetRatesQuiet
    <3> QED  BY <1>10, <3>3, QuietSound
  <2> QED  BY <2>1, <2>2
<1> HIDE DEF r
<1>12. r.features # {} \/ need # {} <=> r.enabled \cup r.features # {}
  <2>1. GRV \in E => r.features # {}
    BY <1>11 DEF Sound, Picked, FusedAxes
  <2> QED  BY <1>7, <1>11, <2>1
<1>13. ConfigInv(g)
  <2>1. Flag(r.sys.master, FALSE)
    BY <1>11 DEF Flag
  <2>2. \/ r.enabled \cup r.features # {} /\ g = MasterEnable(r, TRUE)
        \/ Flag(r.sys.master, r.enabled \cup r.features # {}) /\ g = r
    BY <1>1, <1>11, <1>12 DEF Flag
  <2> QED  BY <1>11, <2>2, MasterRests
<1> QED  BY <1>13 DEF g, m, c
\* What enable and enableDmp do first: a sensor that is disabled leaves the batch.
LEMMA CalledKeeps ==
  ASSUME NEW h, ConfigInv(h), NEW what, NEW en \in BOOLEAN,
         ~en => what \notin h.enabled /\ what # "StepDetector"
  PROVE  ConfigInv([h EXCEPT !.enableCalled = TRUE, !.batch = IF en THEN @ ELSE @ \ {what}])
<1> DEFINE g == [h EXCEPT !.enableCalled = TRUE, !.batch = IF en THEN @ ELSE @ \ {what}]
<1>1. Carried(h) /\ Sound(h) /\ Rested(h) /\ Settled(h) /\ Shape(h) /\ Timed(h) /\ Batching(h)
  BY DEF ConfigInv, Sound, Settled
<1>2. /\ Shape(g) /\ g.batch = (IF en THEN h.batch ELSE h.batch \ {what}) /\ g.sys = h.sys
      /\ \A f \in Fields : f \notin {"batch", "enableCalled"} => g[f] = h[f]
  BY <1>1 DEF Shape, Fields
<1> HIDE DEF g
<1>3. /\ g.enabled = h.enabled /\ g.dmpSensors = h.dmpSensors
      /\ g.timeouts = h.timeouts /\ g.oldBatch = h.oldBatch /\ g.timeout = h.timeout
      /\ g.features = h.features /\ g.mask = h.mask /\ g.accelBias = h.accelBias
  BY <1>2 DEF Fields
<1>4. Carried(g)
  BY <1>1, <1>2, <1>3 DEF Carried, Own, Masked, Slow
<1>5. Batching(g)
  BY <1>1, <1>2, <1>3 DEF Batching
<1>6. Settled(g)
  <2>1. g.batch \subseteq h.batch
    BY <1>2
  <2>2. Timed(g)
    BY <1>1, <1>2, <1>3, <2>1 DEF Timed
  <2>3. Linked(g)
    BY <1>1, <1>2, <1>3 DEF Settled, Linked
  <2> QED  BY <1>1, <1>2, <1>3, <2>1, <2>2, <2>3 DEF Settled
<1>7. Picked(g, g.oldBatch) /\ Steps(g) /\ Held(g) /\ Lit(g)
  BY <1>1, <1>2, <1>3 DEF Sound, Picked, Steps, Held, Data, Lit, Wanted
<1>8. Sound(g) /\ Rested(g)
  BY <1>1, <1>2, <1>3, <1>5, <1>6, <1>7 DEF Sound, Rested
<1> QED  BY <1>4, <1>8 DEF ConfigInv, g

\* enable keeps the invariant for every sensor of the chip and every virtual
\* one.
LEMMA EnableKeeps ==
  ASSUME NEW h, ConfigInv(h), NEW what \in Sensors \ DmpSensors, NEW en \in BOOLEAN
  PROVE  ConfigInv(EnableHandler(h, what, en))
<1> DEFINE called == [h EXCEPT !.enableCalled = TRUE, !.batch = IF en THEN @ ELSE @ \ {what}]
           E == IF en THEN h.enabled \cup {what} ELSE h.enabled \ {what}
           masked == [called EXCEPT !.enabled = E, !.mask = LocalMask(called, E)]
<1>1. EnableHandler(h, what, en) =
        IF (what \in h.enabled) = en THEN called
        ELSE EnableSensors(masked, Changed(called, what, en, E))
  BY DEF EnableHandler
<1>2. CASE (what \in h.enabled) = en
  <2>1. ~en => what \notin h.enabled /\ what # "StepDetector"
    BY <1>2 DEF DmpSensors
  <2>2. ConfigInv(called)
    BY <2>1, CalledKeeps
  <2> QED  BY <1>1, <1>2, <2>2
<1>3. CASE (what \in h.enabled) # en
  <2>1. masked = Masking(h, what, en, E)
    BY DEF Masking
  <2>2. Changed(called, what, en, E) = Changed(h, what, en, E)
    <3>1. Shape(h)
      BY DEF ConfigInv, Sound, Settled
    <3>2. called.enabled = h.enabled /\ called.features = h.features
      BY <3>1 DEF Shape, Fields
    <3> HIDE DEF called
    <3> QED  BY <3>2 DEF Changed
  <2>3. Toggles(h, what, en, E)
    BY <1>3, ConfigAssumption DEF Toggles
  <2> HIDE DEF masked, called, E
  <2>4. ConfigInv(EnableSensors(Masking(h, what, en, E), Changed(h, what, en, E)))
    BY <2>3, EnableSensorsKeeps
  <2> QED  BY <1>1, <1>3, <2>1, <2>2, <2>4
<1> QED  BY <1>2, <1>3
-----------------------------------------------------------------------------
(* The sensors of the DMP itself *)

\* Accel and gyro are turned on for the DMP, or off if nothing else wants them.
LEMMA SetDmpFeatureDoes ==
  ASSUME NEW h, Shape(h), NEW en \in BOOLEAN
  PROVE  LET g == SetDmpFeature(h, en)
         IN  /\ SameBut(h, g, {}, {"gyro", "gyroFifo", "accel", "accelFifo", "eventInt"})
             /\ g.sys.eventInt = ~DataInterrupt(h)
             /\ DmpUsed(h) \/ en => g.sys.accel = TRUE
             /\ ~DmpUsed(h) /\ ~en =>
                  /\ g.sys.accel = IF "accel" \in h.mask THEN h.sys.accel ELSE FALSE
                  /\ "gyro" \notin h.mask => g.sys.gyro = FALSE
<1> DEFINE y == EnableGyro(h, TRUE)
           x == TurnOffGyroFifo(y)
           gyroOn == IF h.features \cap {"six", "pedQ", "lpq"} = {} THEN h
                     ELSE IF Uses(h, "gyro") THEN y ELSE x
           a == EnableAccel(gyroOn, TRUE)
           f == TurnOffAccelFifo(a)
           accelOn == IF Uses(h, "accel") THEN a ELSE f
           n == EnableGyro(h, FALSE)
           gyroOff == IF Uses(h, "gyro") THEN h ELSE n
           o == EnableAccel(gyroOff, FALSE)
           accelOff == IF Uses(h, "accel") THEN gyroOff ELSE o
           d == IF DmpUsed(h) \/ en THEN accelOn ELSE accelOff
           g == Put(d, [eventInt |-> ~DataInterrupt(h)])
           four == {"gyro", "gyroFifo", "accel", "accelFifo"}
<1>1. g = SetDmpFeature(h, en)
  BY DEF SetDmpFeature
<1>2. SameBut(h, y, {}, {"gyro", "gyroFifo"})
  BY GyroDoes
<1>3. SameBut(y, x, {}, {"gyroFifo"})
  <2>1. Shape(y)
    BY <1>2 DEF SameBut
  <2> HIDE DEF y
  <2> QED  BY <2>1, FifosDo
<1>4. SameBut(h, n, {}, {"gyro", "gyroFifo"}) /\ n.sys.gyro = FALSE
  BY GyroDoes
<1> HIDE DEF y, x, n
<1>5. SameBut(h, gyroOn, {}, {"gyro", "gyroFifo"})
  BY <1>2, <1>3 DEF SameBut
<1> HIDE DEF gyroOn
<1>6. SameBut(gyroOn, a, {}, {"accel", "accelFifo"}) /\ a.sys.accel = TRUE
  <2>1. Shape(gyroOn)
    BY <1>5 DEF SameBut
  <2> QED  BY <2>1, AccelDoes
<1> HIDE DEF a
<1>7. SameBut(a, f, {}, {"accelFifo"})
  <2>1. Shape(a)
    BY <1>6 DEF SameBut
  <2> QED  BY <2>1, FifosDo
<1> HIDE DEF f
<1>8. SameBut(h, accelOn, {}, four) /\ accelOn.sys.accel = TRUE
  <2>1. SameBut(h, a, {}, four) /\ SameBut(h, f, {}, four)
    BY <1>5, <1>6, <1>7 DEF SameBut
  <2>2. f.sys.accel = TRUE
    BY <1>6, <1>7 DEF SameBut, Files, Attributes
  <2> QED  BY <1>6, <2>1, <2>2
<1> HIDE DEF accelOn
<1>9. /\ SameBut(h, gyroOff, {}, {"gyro", "gyroFifo"})
      /\ "gyro" \notin h.mask => gyroOff.sys.gyro = FALSE
  BY <1>4, Itself DEF Uses
<1> HIDE DEF gyroOff
<1>10. SameBut(gyroOff, o, {}, {"accel", "accelFifo"}) /\ o.sys.accel = FALSE
  <2>1. Shape(gyroOff)
    BY <1>9 DEF SameBut
  <2> QED  BY <2>1, AccelDoes
<1> HIDE DEF o
<1>11. /\ SameBut(h, accelOff, {}, four)
       /\ accelOff.sys.accel = IF "accel" \in h.mask THEN h.sys.accel ELSE FALSE
       /\ "gyro" \notin h.mask => accelOff.sys.gyro = FALSE
  <2>1. SameBut(h, gyroOff, {}, four) /\ SameBut(h, o, {}, four)
    BY <1>9, <1>10 DEF SameBut
  <2>2. gyroOff.sys.accel = h.sys.accel /\ o.sys.gyro = gyroOff.sys.gyro
    BY <1>9, <1>10 DEF SameBut, Files, Attributes
  <2> QED  BY <1>9, <1>10, <2>1, <2>2 DEF Uses
<1> HIDE DEF accelOff
<1>12. /\ SameBut(h, d, {}, four)
       /\ DmpUsed(h) \/ en => d.sys.accel = TRUE
       /\ ~DmpUsed(h) /\ ~en =>
            /\ d.sys.accel = IF "accel" \in h.mask THEN h.sys.accel ELSE FALSE
            /\ "gyro" \notin h.mask => d.sys.gyro = FALSE
  BY <1>8, <1>11
<1> HIDE DEF d
<1>13. SameBut(d, g, {}, {"eventInt"}) /\ g.sys.eventInt = ~DataInterrupt(h)
  <2>1. Shape(d)
    BY <1>12 DEF SameBut
  <2> QED  BY <2>1, EventDoes
<1> HIDE DEF g
<1>14. SameBut(h, g, {}, {"gyro", "gyroFifo", "accel", "accelFifo", "eventInt"})
  BY <1>12, <1>13 DEF SameBut
<1>15. g.sys.accel = d.sys.accel /\ g.sys.gyro = d.sys.gyro
  BY <1>13 DEF SameBut, Files, Attributes
<1> QED  BY <1>1, <1>12, <1>13, <1>14, <1>15

\* The DMP runs exactly for its features.
LEMMA StateDoes ==
  ASSUME NEW h, Shape(h)
  PROVE  LET g == ComputeAndSetDmpState(h)
         IN  /\ SameBut(h, g, {"dmpOn", "accelBias", "dmpState"}, {"dmp", "eventInt"})
             /\ Flag(g.sys.dmp, h.features # {})
             /\ g.accelBias => h.accelBias
             /\ g.sys.eventInt => h.sys.eventInt
<1> DEFINE on == DmpState(h)
           d == OnDmp(h, on)
           g == [d EXCEPT !.dmpState = on]
<1>1. g = ComputeAndSetDmpState(h)
  BY DEF ComputeAndSetDmpState, SetDmpState
<1>2. on <=> h.features # {}
  BY DEF DmpState
<1>3. /\ SameBut(h, d, {"dmpOn", "accelBias"}, {"dmp", "eventInt"})
      /\ Flag(d.sys.dmp, h.features # {})
      /\ d.accelBias => h.accelBias
      /\ d.sys.eventInt => h.sys.eventInt
  <2>1. CASE h.features # {}
    <3>1. d = OnDmp(h, TRUE)
      BY <2>1 DEF DmpState
    <3> HIDE DEF d
    <3>2. /\ SameBut(h, d, {"dmpOn"}, {"dmp", "eventInt"}) /\ d.sys.dmp = TRUE
          /\ d.sys.eventInt => h.sys.eventInt
      BY <3>1, OnDmpOn
    <3>3. d.accelBias = h.accelBias
      BY <3>2 DEF SameBut, Fields
    <3>4. SameBut(h, d, {"dmpOn", "accelBias"}, {"dmp", "eventInt"})
      BY <3>2, Widen
    <3> QED  BY <2>1, <3>2, <3>3, <3>4 DEF Flag
  <2>2. CASE h.features = {}
    <3>1. d = OnDmp(h, FALSE)
      BY <2>2 DEF DmpState
    <3> HIDE DEF d
    <3>2. /\ SameBut(h, d, {"dmpOn", "accelBias"}, {"dmp", "eventInt"}) /\ d.sys.dmp = FALSE
          /\ d.accelBias = FALSE /\ d.sys.eventInt => h.sys.eventInt
      BY <3>1, OnDmpOff
    <3>3. d.accelBias = FALSE /\ (d.sys.eventInt => h.sys.eventInt)
      BY <3>1, OnDmpOff
    <3> QED  BY <2>2, <3>1, <3>3, OnDmpOff DEF Flag
  <2> QED  BY <2>1, <2>2
<1> HIDE DEF d, on
<1>4. SameBut(d, g, {"dmpState"}, {})
  <2>1. Shape(d)
    BY <1>3 DEF SameBut
  <2> QED  BY <2>1, FieldSet DEF Fields
<1> HIDE DEF g
<1>5. SameBut(h, g, {"dmpOn", "accelBias", "dmpState"}, {"dmp", "eventInt"})
  BY <1>3, <1>4 DEF SameBut
<1>6. g.accelBias = d.accelBias /\ g.sys.dmp = d.sys.dmp /\ g.sys.eventInt = d.sys.eventInt
  BY <1>4 DEF SameBut, Fields, Files, Attributes
<1>7. /\ SameBut(h, g, {"dmpOn", "accelBias", "dmpState"}, {"dmp", "eventInt"})
      /\ Flag(g.sys.dmp, h.features # {}) /\ (g.accelBias => h.accelBias)
      /\ g.sys.eventInt => h.sys.eventInt
  BY <1>3, <1>5, <1>6
<1> QED  BY <1>1, <1>7
\* The DMP's run switch, accel, gyro, the event interrupt, the rates and the
\* master switch apart, nothing changes.
Stays(h, g) ==
  /\ Shape(g)
  /\ g.enabled = h.enabled /\ g.batch = h.batch /\ g.dmpSensors = h.dmpSensors
  /\ g.timeouts = h.timeouts /\ g.oldBatch = h.oldBatch /\ g.timeout = h.timeout
  /\ g.features = h.features /\ g.mask = h.mask
  /\ g.sys.smd = h.sys.smd /\ g.sys.pedometer = h.sys.pedometer /\ g.sys.timeout = h.sys.timeout
  /\ g.sys.compass = h.sys.compass /\ g.sys.pressure = h.sys.pressure
  /\ g.sys.threeQ = h.sys.threeQ /\ g.sys.sixQ = h.sys.sixQ /\ g.sys.pedQ = h.sys.pedQ
  /\ StepsSame(h, g)
StayMembers == RateMembers \cup {"accelBias"}
StayFiles == Rates \cup {"gyro", "gyroFifo", "accel", "accelFifo", "dmp", "eventInt", "master"}
\* Writing other members and files keeps the sensors asked for.
LEMMA ButStays ==
  ASSUME NEW h, NEW g, SameBut(h, g, StayMembers, StayFiles)
  PROVE  Stays(h, g)
<1>1. /\ Shape(g) /\ g.enabled = h.enabled /\ g.batch = h.batch /\ g.dmpSensors = h.dmpSensors
      /\ g.timeouts = h.timeouts /\ g.oldBatch = h.oldBatch /\ g.timeout = h.timeout
      /\ g.features = h.features /\ g.mask = h.mask
  BY DEF SameBut, Fields, StayMembers, RateMembers
<1>2. /\ g.sys.smd = h.sys.smd /\ g.sys.pedometer = h.sys.pedometer
      /\ g.sys.timeout = h.sys.timeout
      /\ g.sys.compass = h.sys.compass /\ g.sys.pressure = h.sys.pressure
      /\ g.sys.threeQ = h.sys.threeQ /\ g.sys.sixQ = h.sys.sixQ /\ g.sys.pedQ = h.sys.pedQ
      /\ StepsSame(h, g)
  BY DEF SameBut, Files, Attributes, StayFiles, Rates, StepsSame
<1> QED  BY <1>1, <1>2 DEF Stays
\* Two steps that keep them.
LEMMA StaysTwice ==
  ASSUME NEW h, NEW g, NEW k, Stays(h, g), Stays(g, k)
  PROVE  Stays(h, k)
BY DEF Stays, StepsSame
\* A quiet step keeps them.
LEMMA QuietStays ==
  ASSUME NEW h, NEW g, Quiet(h, g)
  PROVE  Stays(h, g)
BY DEF Quiet, Keeps, Stays
\* Doing nothing is quiet.
LEMMA QuietNot ==
  ASSUME NEW h, Shape(h)
  PROVE  Quiet(h, h)
BY DEF Quiet, Keeps, StepsSame

\* What every handler of a DMP sensor ends with.
LEMMA AfterDmpDoes ==
  ASSUME NEW h, Shape(h), NEW en \in BOOLEAN
  PROVE  LET g == AfterDmpSensor(h, en, h.enabled)
         IN  /\ Stays(h, g) /\ (g.accelBias => h.accelBias)
             /\ Flag(g.sys.dmp, h.features # {})
             /\ h.enabled # {} => ~g.sys.eventInt
             /\ DmpUsed(h) \/ en => g.sys.accel = TRUE
             /\ ~DmpUsed(h) /\ ~en =>
                  /\ g.sys.accel = IF "accel" \in h.mask THEN h.sys.accel ELSE FALSE
                  /\ "gyro" \notin h.mask => g.sys.gyro = FALSE
             /\ g.sys.master = IF en \/ h.enabled \cup h.features # {} THEN TRUE ELSE h.sys.master
<1> DEFINE f == SetDmpFeature(h, en)
           s == ComputeAndSetDmpState(f)
           r == IF s.batch = {} THEN ResetRates(s) ELSE s
           g == IF en \/ h.enabled # {} \/ r.features # {} THEN MasterEnable(r, TRUE) ELSE r
<1>1. g = AfterDmpSensor(h, en, h.enabled)
  BY DEF AfterDmpSensor
<1>2. /\ SameBut(h, f, {}, {"gyro", "gyroFifo", "accel", "accelFifo", "eventInt"})
      /\ f.sys.eventInt = ~DataInterrupt(h)
      /\ DmpUsed(h) \/ en => f.sys.accel = TRUE
      /\ ~DmpUsed(h) /\ ~en =>
           /\ f.sys.accel = IF "accel" \in h.mask THEN h.sys.accel ELSE FALSE
           /\ "gyro" \notin h.mask => f.sys.gyro = FALSE
  BY SetDmpFeatureDoes
<1>3. h.enabled # {} => ~f.sys.eventInt
  BY <1>2 DEF DataInterrupt
<1> HIDE DEF f
<1>4. Shape(f) /\ f.accelBias = h.accelBias /\ f.sys.master = h.sys.master
  BY <1>2 DEF SameBut, Fields, Files, Attributes
<1>5. /\ SameBut(f, s, {"dmpOn", "accelBias", "dmpState"}, {"dmp", "eventInt"})
      /\ Flag(s.sys.dmp, f.features # {})
      /\ s.accelBias => f.accelBias
      /\ s.sys.eventInt => f.sys.eventInt
  BY <1>4, StateDoes
<1> HIDE DEF s
<1>6. s.sys.accel = f.sys.accel /\ s.sys.gyro = f.sys.gyro /\ s.sys.master = f.sys.master
  BY <1>5 DEF SameBut, Files, Attributes
<1>7. Stays(h, s)
  <2>1. Stays(h, f)
    <3>1. {"gyro", "gyroFifo", "accel", "accelFifo", "eventInt"} \subseteq StayFiles
          /\ {} \subseteq StayMembers
      BY DEF StayFiles
    <3>2. SameBut(h, f, StayMembers, StayFiles)
      BY <1>2, <3>1, Widen
    <3> QED  BY <3>2, ButStays
  <2>2. Stays(f, s)
    <3>1. {"dmpOn", "accelBias", "dmpState"} \subseteq StayMembers /\ {"dmp", "eventInt"} \subseteq StayFiles
      BY DEF StayFiles, StayMembers, RateMembers
    <3>2. SameBut(f, s, StayMembers, StayFiles)
      BY <1>5, <3>1, Widen
    <3> QED  BY <3>2, ButStays
  <2> QED  BY <2>1, <2>2, StaysTwice
<1>8. Quiet(s, r)
  <2>1. Shape(s)
    BY <1>5 DEF SameBut
  <2> QED  BY <2>1, ResetRatesQuiet, QuietNot
<1> HIDE DEF r
<1>9. /\ Stays(h, r) /\ r.accelBias = s.accelBias /\ r.sys.dmp = s.sys.dmp
      /\ r.sys.eventInt = s.sys.eventInt /\ r.sys.accel = s.sys.accel /\ r.sys.gyro = s.sys.gyro
      /\ r.sys.master = s.sys.master
  <2>1. Stays(s, r)
    BY <1>8, QuietStays
  <2> QED  BY <1>7, <1>8, <2>1, StaysTwice DEF Quiet, Keeps
<1>10. /\ Stays(h, g) /\ g.accelBias = r.accelBias /\ g.sys.dmp = r.sys.dmp
       /\ g.sys.eventInt = r.sys.eventInt /\ g.sys.accel = r.sys.accel /\ g.sys.gyro = r.sys.gyro
       /\ g.sys.master = IF en \/ h.enabled \cup h.features # {} THEN TRUE ELSE r.sys.master
  <2>1. r.features = h.features /\ Shape(r)
    BY <1>9 DEF Stays
  <2>2. CASE en \/ h.enabled # {} \/ r.features # {}
    <3>1. g = MasterEnable(r, TRUE)
      BY <2>2
    <3> HIDE DEF g
    <3>2. SameBut(r, g, {}, {"master"}) /\ g.sys.master = TRUE
      BY <2>1, <3>1, MasterDoes
    <3>3. Stays(r, g)
      <4>1. {} \subseteq StayMembers /\ {"master"} \subseteq StayFiles
        BY DEF StayFiles
      <4>2. SameBut(r, g, StayMembers, StayFiles)
        BY <3>2, <4>1, Widen
      <4> QED  BY <4>2, ButStays
    <3>4. /\ g.accelBias = r.accelBias /\ g.sys.dmp = r.sys.dmp
          /\ g.sys.eventInt = r.sys.eventInt /\ g.sys.accel = r.sys.accel
          /\ g.sys.gyro = r.sys.gyro
      BY <3>2 DEF SameBut, Fields, Files, Attributes
    <3>5. en \/ h.enabled \cup h.features # {}
      BY <2>1, <2>2
    <3>6. Stays(h, g)
      BY <1>9, <3>3, StaysTwice
    <3> QED  BY <3>2, <3>4, <3>5, <3>6
  <2>3. CASE ~(en \/ h.enabled # {} \/ r.features # {})
    <3>1. g = r
      BY <2>3
    <3> HIDE DEF g
    <3>2. ~(en \/ h.enabled \cup h.features # {})
      BY <2>1, <2>3
    <3> QED  BY <1>9, <3>1, <3>2
  <2> QED  BY <2>2, <2>3
<1> HIDE DEF g
<1>11. g.accelBias => h.accelBias
  BY <1>4, <1>5, <1>9, <1>10
<1>12. Flag(g.sys.dmp, h.features # {})
  <2>1. f.features = h.features
    BY <1>2 DEF SameBut, Fields
  <2> QED  BY <1>5, <1>9, <1>10, <2>1
<1>13. h.enabled # {} => ~g.sys.eventInt
  BY <1>3, <1>5, <1>9, <1>10
<1>14. /\ DmpUsed(h) \/ en => g.sys.accel = TRUE
       /\ ~DmpUsed(h) /\ ~en =>
            /\ g.sys.accel = IF "accel" \in h.mask THEN h.sys.accel ELSE FALSE
            /\ "gyro" \notin h.mask => g.sys.gyro = FALSE
  BY <1>2, <1>6, <1>9, <1>10
<1>15. g.sys.master = IF en \/ h.enabled \cup h.features # {} THEN TRUE ELSE h.sys.master
  BY <1>4, <1>6, <1>9, <1>10
<1> QED  BY <1>1, <1>10, <1>11, <1>12, <1>13, <1>14, <1>15
\* The same but for the DMP's run switch, and but for who has asked for steps.
Bare(h) ==
  /\ Shape(h) /\ h.oldBatch \in BOOLEAN /\ Timed(h) /\ h.timeout \in Nat
  /\ h.batch \subseteq Batchable /\ "orientation" \notin h.features
  /\ "batch" \in h.features <=> h.oldBatch
  /\ h.timeout > 0 <=> h.oldBatch
  /\ Linked(h)
Bears(h) ==
  /\ h.enabled \subseteq Sensors \cap (Hardware \cup Virtual)
  /\ Flag(h.sys.smd, "smd" \in h.features)
  /\ Flag(h.sys.pedometer, h.features \cap {"pedometer", "pedometerStep"} # {})
  /\ Masked(h) /\ Slow(h)
  /\ h.enabled = {} => ~h.accelBias

\* It leaves a settled state when the features are right.
LEMMA AfterDmpSettles ==
  ASSUME NEW p, Bare(p), Bears(p), Held(p), NEW en \in BOOLEAN, en => DmpUsed(p),
         p.sys.master = FALSE
  PROVE  LET g == AfterDmpSensor(p, en, p.enabled)
         IN  /\ Stays(p, g) /\ Settled(g) /\ Bears(g) /\ Held(g) /\ Rested(g)
             /\ Steps(p) => Steps(g)
             /\ \A b : Picked(p, b) => Picked(g, b) /\ Lit(g)
             /\ Batching(p) => Batching(g)
<1> DEFINE g == AfterDmpSensor(p, en, p.enabled)
<1>1. Shape(p)
  BY DEF Bare
<1>2. /\ Stays(p, g) /\ (g.accelBias => p.accelBias)
      /\ Flag(g.sys.dmp, p.features # {})
      /\ p.enabled # {} => ~g.sys.eventInt
      /\ DmpUsed(p) \/ en => g.sys.accel = TRUE
      /\ ~DmpUsed(p) /\ ~en =>
           /\ g.sys.accel = IF "accel" \in p.mask THEN p.sys.accel ELSE FALSE
           /\ "gyro" \notin p.mask => g.sys.gyro = FALSE
      /\ g.sys.master = IF en \/ p.enabled \cup p.features # {} THEN TRUE ELSE p.sys.master
  BY <1>1, AfterDmpDoes
<1> HIDE DEF g
<1>3. /\ Shape(g) /\ g.enabled = p.enabled /\ g.batch = p.batch
      /\ g.timeouts = p.timeouts /\ g.oldBatch = p.oldBatch /\ g.timeout = p.timeout
      /\ g.features = p.features /\ g.mask = p.mask /\ g.sys.timeout = p.sys.timeout
  BY <1>2 DEF Stays
<1>4. Linked(g)
  <2>1. g.features = p.features /\ g.sys.threeQ = p.sys.threeQ /\ g.sys.sixQ = p.sys.sixQ
        /\ g.sys.pedQ = p.sys.pedQ /\ g.sys.stepDetector = p.sys.stepDetector
    BY <1>2 DEF Stays, StepsSame
  <2>2. Linked(p)
    BY DEF Bare
  <2> QED  BY ONLY <2>1, <2>2 DEF Linked
<1>5. Settled(g)
  <2>1. Timed(g)
    BY <1>3 DEF Bare, Timed
  <2>2. Flag(g.sys.dmp, g.features # {})
    BY <1>2, <1>3
  <2>3. ~g.oldBatch => g.timeout = 0
    BY <1>3 DEF Bare
  <2> QED  BY <1>3, <1>4, <2>1, <2>2, <2>3 DEF Bare, Settled
<1>6. Bears(g)
  <2>1. /\ g.sys.smd = p.sys.smd /\ g.sys.pedometer = p.sys.pedometer
        /\ g.sys.compass = p.sys.compass /\ g.sys.pressure = p.sys.pressure
    BY <1>2 DEF Stays
  <2>2. Masked(g)
    BY <1>3 DEF Bears, Masked
  <2>3. Slow(g)
    BY <1>3, <2>1 DEF Bears, Slow
  <2>4. g.enabled = {} => ~g.accelBias
    BY <1>2, <1>3 DEF Bears
  <2> QED  BY <1>3, <2>1, <2>2, <2>3, <2>4 DEF Bears
<1>7. Held(g)
  <2>1. Data(g)
    BY <1>3 DEF Held, Data
  <2>2. ASSUME g.enabled \cap (NineAxes \cup {GRV, GMRV, "Accelerometer"}) # {}
        PROVE  g.sys.accel = TRUE
    <3>1. CASE DmpUsed(p) \/ en
      BY <1>2, <3>1
    <3>2. CASE ~DmpUsed(p) /\ ~en
      <4>1. p.features \cap Quats = {}
        BY <3>2 DEF DmpUsed, DmpFeatures, Quats
      <4>2. "accel" \in p.mask /\ p.sys.accel = TRUE
        BY <1>3, <2>2, <4>1 DEF Held, Data
      <4> QED  BY <1>2, <3>2, <4>2
    <3> QED  BY <3>1, <3>2
  <2> QED  BY <2>1, <2>2 DEF Held
<1>8. Steps(p) => Steps(g)
  BY <1>2 DEF Stays, Steps, StepsSame
<1>9. Batching(p) => Batching(g)
  BY <1>3 DEF Batching
<1>10. ASSUME NEW b, Picked(p, b)
       PROVE  Picked(g, b) /\ Lit(g)
  <2>1. Picked(g, b)
    BY <1>3, <1>10 DEF Picked
  <2>2. CASE DmpUsed(p)
    <3>1. Wanted(g)
      <4>1. /\ "orientation" \notin g.features
            /\ "lpq" \in g.features => g.enabled \cap FusedAxes # {}
            /\ g.features \cap {"six", "pedQ"} # {} => g.enabled \cap FusedAxes # {}
        BY <1>5, <2>1 DEF Settled, Picked, FusedAxes
      <4>2. g.features \cap DmpFeatures # {}
        BY <1>3, <2>2 DEF DmpUsed
      <4> QED  BY <4>1, <4>2 DEF Wanted, DmpFeatures
    <3> QED  BY <2>1, <3>1 DEF Lit
  <2>3. CASE ~DmpUsed(p)
    <3>1. ("gyro" \notin g.mask => g.sys.gyro = FALSE) /\ ("accel" \notin g.mask => g.sys.accel = FALSE)
      BY <1>2, <1>3, <2>3
    <3> QED  BY <2>1, <3>1 DEF Lit
  <2> QED  BY <2>2, <2>3
<1>11. Rested(g)
  <2>1. en => p.features # {}
    BY DEF DmpUsed
  <2>2. Flag(g.sys.master, g.enabled \cup g.features # {})
    BY <1>2, <1>3, <2>1 DEF Flag
  <2> QED  BY <1>2, <1>3, <2>2 DEF Rested
<1>12. /\ Stays(p, g) /\ Settled(g) /\ Bears(g) /\ Held(g) /\ Rested(g)
       /\ Steps(p) => Steps(g)
       /\ \A b : Picked(p, b) => Picked(g, b) /\ Lit(g)
       /\ Batching(p) => Batching(g)
  BY <1>2, <1>5, <1>6, <1>7, <1>8, <1>9, <1>10, <1>11
<1> QED  BY <1>12 DEF g

\* Who has asked for it is another matter.
LEMMA AskedDoes ==
  ASSUME NEW g, NEW x, SameBut(g, x, {"dmpSensors"}, {})
  PROVE  /\ Settled(g) => Settled(x)
         /\ Bears(g) => Bears(x)
         /\ Held(g) => Held(x)
         /\ Rested(g) => Rested(x)
         /\ Steps(g) => Steps(x)
         /\ \A b : Picked(g, b) => Picked(x, b)
         /\ Lit(g) => Lit(x)
         /\ Batching(g) => Batching(x)
         /\ x.enabled = g.enabled /\ x.features = g.features /\ x.batch = g.batch
         /\ x.oldBatch = g.oldBatch /\ x.timeout = g.timeout /\ Shape(x)
<1>1. /\ Shape(x) /\ x.enabled = g.enabled /\ x.batch = g.batch
      /\ x.timeouts = g.timeouts /\ x.oldBatch = g.oldBatch /\ x.timeout = g.timeout
      /\ x.features = g.features /\ x.mask = g.mask /\ x.accelBias = g.accelBias
  BY DEF SameBut, Fields
<1>2. \A a \in Files : x.sys[a] = g.sys[a]
  BY DEF SameBut
<1>3. /\ x.sys.smd = g.sys.smd /\ x.sys.pedometer = g.sys.pedometer
      /\ x.sys.timeout = g.sys.timeout
      /\ x.sys.compass = g.sys.compass /\ x.sys.pressure = g.sys.pressure
      /\ x.sys.threeQ = g.sys.threeQ /\ x.sys.sixQ = g.sys.sixQ /\ x.sys.pedQ = g.sys.pedQ
      /\ StepsSame(g, x) /\ x.sys.dmp = g.sys.dmp /\ x.sys.master = g.sys.master
      /\ x.sys.eventInt = g.sys.eventInt /\ x.sys.gyro = g.sys.gyro /\ x.sys.accel = g.sys.accel
  BY <1>2 DEF Files, Attributes, StepsSame
<1>4. Linked(g) => Linked(x)
  BY <1>1, <1>3 DEF Linked, StepsSame
<1>5. Settled(g) => Settled(x)
  BY <1>1, <1>3, <1>4 DEF Settled, Timed
<1>6. Bears(g) => Bears(x)
  BY <1>1, <1>3 DEF Bears, Masked, Slow
<1>7. /\ Held(g) => Held(x)
      /\ Rested(g) => Rested(x)
      /\ Steps(g) => Steps(x)
  BY <1>1, <1>3 DEF Held, Data, Rested, Steps, StepsSame
<1>8. /\ \A b : Picked(g, b) => Picked(x, b)
      /\ Lit(g) => Lit(x)
      /\ Batching(g) => Batching(x)
  BY <1>1, <1>3 DEF Picked, Lit, Wanted, Batching
<1> QED  BY <1>1, <1>5, <1>6, <1>7, <1>8
\* The invariant, but for who has asked for steps.
Almost(h) ==
  /\ Settled(h) /\ Bears(h) /\ Held(h) /\ Rested(h) /\ Steps(h) /\ Batching(h)
  /\ Picked(h, h.oldBatch) /\ Lit(h) /\ (h.timeout > 0 <=> h.oldBatch)
\* The invariant is that and the step detector's own feature.
LEMMA AlmostInv ==
  ASSUME NEW h, Almost(h), "StepDetector" \in h.dmpSensors <=> "pedometer" \in h.features
  PROVE  ConfigInv(h)
BY DEF Almost, Bears, ConfigInv, Carried, Own, Sound
\* The record of who asked is all that is written last.
LEMMA AlmostAsked ==
  ASSUME NEW g, NEW x, Almost(g), SameBut(g, x, {"dmpSensors"}, {})
  PROVE  Almost(x)
BY AskedDoes DEF Almost

\* A sensor of the DMP adds or drops its feature and its switches.
Stirs(h, p) ==
  /\ SameBut(h, p, {"features", "batch", "enableCalled", "dmpSensors"},
             {"smd", "pedometer", "pedometerInt", "master"})
  /\ p.batch \subseteq h.batch /\ h.enabled \cap h.batch \subseteq p.batch
  /\ \A f : f \notin {"smd", "pedometer", "pedometerStep"} => (f \in p.features <=> f \in h.features)
\* What a DMP sensor's own switches leave before the common part.
LEMMA StirsDo ==
  ASSUME NEW h, ConfigInv(h), NEW p, Stirs(h, p)
  PROVE  /\ Bare(p) /\ Held(p) /\ p.enabled = h.enabled /\ p.oldBatch = h.oldBatch
         /\ p.oldBatch => p.enabled \subseteq p.batch
         /\ /\ Flag(p.sys.smd, "smd" \in p.features)
            /\ Flag(p.sys.pedometer, p.features \cap {"pedometer", "pedometerStep"} # {})
            => Bears(p)
         /\ (p.oldBatch /\ "standalone" \in p.features => "pedometer" \in p.features)
              => Picked(p, p.oldBatch)
<1>1. /\ Carried(h) /\ Settled(h) /\ Batching(h) /\ Picked(h, h.oldBatch) /\ Held(h)
      /\ h.timeout > 0 <=> h.oldBatch
  BY DEF ConfigInv, Sound
<1>2. /\ Shape(p) /\ p.enabled = h.enabled /\ p.timeouts = h.timeouts /\ p.oldBatch = h.oldBatch
      /\ p.timeout = h.timeout /\ p.mask = h.mask /\ p.accelBias = h.accelBias
  BY DEF Stirs, SameBut, Fields
<1>3. /\ p.sys.timeout = h.sys.timeout
      /\ p.sys.compass = h.sys.compass /\ p.sys.pressure = h.sys.pressure
      /\ p.sys.threeQ = h.sys.threeQ /\ p.sys.sixQ = h.sys.sixQ /\ p.sys.pedQ = h.sys.pedQ
      /\ p.sys.stepDetector = h.sys.stepDetector /\ p.sys.accel = h.sys.accel
  BY DEF Stirs, SameBut, Files, Attributes
<1>4. /\ p.batch \subseteq h.batch /\ h.enabled \cap h.batch \subseteq p.batch
      /\ \A f \in {"batch", "orientation", "lpq", "six", "pedQ", "standalone"} :
           f \in p.features <=> f \in h.features
  BY DEF Stirs
<1>5. Linked(p)
  BY <1>1, <1>3, <1>4 DEF Settled, Linked
<1>6. Bare(p)
  <2>1. Timed(p)
    BY <1>1, <1>2, <1>3, <1>4 DEF Settled, Timed
  <2>2. p.batch \subseteq Batchable
    BY <1>1, <1>4 DEF Settled
  <2> QED  BY <1>1, <1>2, <1>4, <1>5, <2>1, <2>2 DEF Bare, Settled
<1>7. p.features \cap Quats = h.features \cap Quats
  BY <1>4 DEF Quats
<1>8. Held(p)
  BY <1>1, <1>2, <1>3, <1>7 DEF Held, Data
<1>9. p.oldBatch => p.enabled \subseteq p.batch
  BY <1>1, <1>2, <1>4 DEF Batching
<1>10. ASSUME Flag(p.sys.smd, "smd" \in p.features),
              Flag(p.sys.pedometer, p.features \cap {"pedometer", "pedometerStep"} # {})
       PROVE  Bears(p)
  BY <1>1, <1>2, <1>3, <1>10 DEF Carried, Bears, Masked, Slow
<1>11. ASSUME p.oldBatch /\ "standalone" \in p.features => "pedometer" \in p.features
       PROVE  Picked(p, p.oldBatch)
  <2>1. p.features \cap {"six", "pedQ"} # {} <=> h.features \cap {"six", "pedQ"} # {}
    BY <1>4
  <2> QED  BY <1>1, <1>2, <1>4, <1>7, <1>11, <2>1 DEF Picked
<1> QED  BY <1>2, <1>6, <1>8, <1>9, <1>10, <1>11
\* The common part then gives all but the record of who asked.
LEMMA StirsAlmost ==
  ASSUME NEW h, ConfigInv(h), NEW p, Stirs(h, p), NEW en \in BOOLEAN, en => DmpUsed(p),
         p.sys.master = FALSE, Steps(p),
         Flag(p.sys.smd, "smd" \in p.features),
         Flag(p.sys.pedometer, p.features \cap {"pedometer", "pedometerStep"} # {}),
         "pedometer" \in p.features <=> "pedometer" \in h.features,
         "StepDetector" \in h.batch => "StepDetector" \in p.batch
  PROVE  LET g == AfterDmpSensor(p, en, p.enabled)
         IN  Almost(g) /\ g.features = p.features /\ g.dmpSensors = p.dmpSensors
<1> DEFINE g == AfterDmpSensor(p, en, p.enabled)
<1>1. Picked(h, h.oldBatch) /\ Batching(h)
  BY DEF ConfigInv, Sound
<1>2. "standalone" \in p.features <=> "standalone" \in h.features
  BY DEF Stirs
<1>3. /\ Bare(p) /\ Held(p) /\ Bears(p) /\ p.oldBatch = h.oldBatch
      /\ p.oldBatch => p.enabled \subseteq p.batch
      /\ Picked(p, p.oldBatch)
  BY <1>1, <1>2, StirsDo DEF Picked
<1>4. Batching(p)
  BY <1>1, <1>3 DEF Batching
<1>5. /\ Stays(p, g) /\ Settled(g) /\ Bears(g) /\ Held(g) /\ Rested(g) /\ Steps(g) /\ Batching(g)
      /\ Picked(g, p.oldBatch) /\ Lit(g)
  BY <1>3, <1>4, AfterDmpSettles
<1> HIDE DEF g
<1>6. g.oldBatch = p.oldBatch /\ g.timeout = p.timeout /\ g.features = p.features
      /\ g.dmpSensors = p.dmpSensors
  BY <1>5 DEF Stays
<1>7. Almost(g) /\ g.features = p.features /\ g.dmpSensors = p.dmpSensors
  BY <1>3, <1>5, <1>6 DEF Almost, Bare
<1> QED  BY <1>7 DEF g
\* What enable and enableDmp do first.
Starts(h, a) ==
  /\ SameBut(h, a, {"features", "batch", "enableCalled", "dmpSensors"}, {})
  /\ a.batch \subseteq h.batch /\ h.enabled \cap h.batch \subseteq a.batch
\* Significant motion's handler.
LEMMA SmdKeeps ==
  ASSUME NEW h, ConfigInv(h), NEW a, Starts(h, a), NEW en \in BOOLEAN,
         \A f : f # "smd" => (f \in a.features <=> f \in h.features),
         "StepDetector" \in h.batch => "StepDetector" \in a.batch
  PROVE  LET g == EnableSmd(a, en)
         IN  /\ Almost(g) /\ g.dmpSensors = a.dmpSensors
             /\ "pedometer" \in g.features <=> "pedometer" \in h.features
<1> DEFINE m == MasterEnable(a, FALSE)
           w == Put(m, [smd |-> en])
           p == IF en THEN Add(w, "smd") ELSE Drop(w, "smd")
           g == AfterDmpSensor(p, en, w.enabled)
<1>1. g = EnableSmd(a, en)
  BY DEF EnableSmd
<1>2. Shape(a)
  BY DEF Starts, SameBut
<1>3. SameBut(a, m, {}, {"master"}) /\ m.sys.master = FALSE
  BY <1>2, MasterDoes
<1> HIDE DEF m
<1>4. SameBut(m, w, {}, {"smd"}) /\ w.sys.smd = en
  <2>1. Shape(m)
    BY <1>3 DEF SameBut
  <2> QED  BY <2>1, SmdDoes
<1> HIDE DEF w
<1>5. /\ SameBut(w, p, {"features"}, {})
      /\ p.features = IF en THEN w.features \cup {"smd"} ELSE w.features \ {"smd"}
  <2>1. Shape(w)
    BY <1>4 DEF SameBut
  <2> QED  BY <2>1, FeatureSet
<1> HIDE DEF p
<1>6. SameBut(h, p, {"features", "batch", "enableCalled", "dmpSensors"}, {"smd", "master"})
  BY <1>3, <1>4, <1>5 DEF Starts, SameBut
<1>7. /\ w.features = a.features /\ p.batch = a.batch /\ p.dmpSensors = a.dmpSensors
      /\ p.sys.smd = en /\ p.sys.master = FALSE /\ w.enabled = p.enabled
  BY <1>3, <1>4, <1>5 DEF SameBut, Fields, Files, Attributes
<1>8. \A f : f # "smd" => (f \in p.features <=> f \in h.features)
  BY <1>5, <1>7
<1>9. Stirs(h, p)
  <2>1. SameBut(h, p, {"features", "batch", "enableCalled", "dmpSensors"},
                {"smd", "pedometer", "pedometerInt", "master"})
    BY <1>6, Widen
  <2> QED  BY <1>7, <1>8, <2>1 DEF Stirs, Starts
<1>10. /\ Flag(p.sys.smd, "smd" \in p.features)
       /\ en => DmpUsed(p)
  BY <1>5, <1>7 DEF Flag, DmpUsed, DmpFeatures
<1>11. /\ Flag(p.sys.pedometer, p.features \cap {"pedometer", "pedometerStep"} # {})
       /\ Steps(p)
  <2>1. /\ p.sys.pedometer = h.sys.pedometer /\ StepsSame(h, p)
    BY <1>6 DEF SameBut, Files, Attributes, StepsSame
  <2>2. Flag(h.sys.pedometer, h.features \cap {"pedometer", "pedometerStep"} # {}) /\ Steps(h)
    BY DEF ConfigInv, Carried, Own, Sound
  <2> QED  BY <1>8, <2>1, <2>2 DEF Flag, Steps, StepsSame
<1>12. Almost(g) /\ g.features = p.features /\ g.dmpSensors = p.dmpSensors
  <2>1. g = AfterDmpSensor(p, en, p.enabled)
    BY <1>7
  <2>2. /\ "pedometer" \in p.features <=> "pedometer" \in h.features
        /\ "StepDetector" \in h.batch => "StepDetector" \in p.batch
    BY <1>7, <1>8
  <2> HIDE DEF g
  <2>3. p.sys.master = FALSE
    BY <1>7
  <2>4. /\ Almost(AfterDmpSensor(p, en, p.enabled))
        /\ AfterDmpSensor(p, en, p.enabled).features = p.features
        /\ AfterDmpSensor(p, en, p.enabled).dmpSensors = p.dmpSensors
    BY <1>9, <1>10, <1>11, <2>2, <2>3, StirsAlmost
  <2> QED  BY <2>1, <2>4
<1> HIDE DEF g
<1> QED  BY <1>1, <1>7, <1>8, <1>12

\* The pedometer, for the step detector or the step counter.
Pedometer(i) == IF i THEN "pedometer" ELSE "pedometerStep"
PedometerFrom(h, a, en, i, p) ==
  /\ EnableDmpPedometer(a, en, i) = AfterDmpSensor(p, en, p.enabled)
  /\ Stirs(h, p) /\ p.sys.master = FALSE /\ p.batch = a.batch /\ p.dmpSensors = a.dmpSensors
  /\ p.features = IF en THEN h.features \cup {Pedometer(i)} ELSE h.features \ {Pedometer(i)}
  /\ Steps(p)
  /\ Flag(p.sys.smd, "smd" \in p.features)
  /\ Flag(p.sys.pedometer, p.features \cap {"pedometer", "pedometerStep"} # {})
\* The pedometer's own switches.
LEMMA PedometerStirs ==
  ASSUME NEW h, ConfigInv(h), NEW a, Starts(h, a), a.features = h.features,
         NEW en \in BOOLEAN, NEW i \in BOOLEAN
  PROVE  \E p : PedometerFrom(h, a, en, i, p)
<1> DEFINE m == MasterEnable(a, FALSE)
           F == Pedometer(i)
           u == (i /\ ~StandaloneBatched(m)) \/ m.sys.pedometerInt
           w == Put(m, [pedometer |-> TRUE, pedometerInt |-> u])
           on == Add(w, F)
           d == Drop(m, F)
           v == d.features \cap {"pedometer", "pedometerStep"} # {} /\ m.sys.pedometer
           t == "pedometer" \in d.features /\ m.sys.pedometerInt
           off == Put(d, [pedometer |-> v, pedometerInt |-> t])
           p == IF en THEN on ELSE off
<1>1. EnableDmpPedometer(a, en, i) = AfterDmpSensor(p, en, m.enabled)
  BY DEF EnableDmpPedometer, Pedometer
<1>2. Shape(a)
  BY DEF Starts, SameBut
<1>3. SameBut(a, m, {}, {"master"}) /\ m.sys.master = FALSE
  BY <1>2, MasterDoes
<1>4. u = ((i /\ ~StandaloneBatched(m)) \/ m.sys.pedometerInt)
  OBVIOUS
<1> HIDE DEF m, u
<1>5. SameBut(m, w, {}, {"pedometer", "pedometerInt"}) /\ w.sys.pedometer = TRUE
      /\ w.sys.pedometerInt = u
  <2>1. Shape(m)
    BY <1>3 DEF SameBut
  <2> QED  BY <2>1, PedometerDoes
<1> HIDE DEF w
<1>6. SameBut(w, on, {"features"}, {}) /\ on.features = w.features \cup {F}
  <2>1. Shape(w)
    BY <1>5 DEF SameBut
  <2> QED  BY <2>1, FeatureSet
<1> HIDE DEF on
<1>7. SameBut(m, d, {"features"}, {}) /\ d.features = m.features \ {F}
  <2>1. Shape(m)
    BY <1>3 DEF SameBut
  <2> QED  BY <2>1, FeatureSet
<1> HIDE DEF d
<1>8. /\ v = (d.features \cap {"pedometer", "pedometerStep"} # {} /\ m.sys.pedometer)
      /\ t = ("pedometer" \in d.features /\ m.sys.pedometerInt)
  OBVIOUS
<1> HIDE DEF v, t
<1>9. SameBut(d, off, {}, {"pedometer", "pedometerInt"}) /\ off.sys.pedometer = v
      /\ off.sys.pedometerInt = t
  <2>1. Shape(d)
    BY <1>7 DEF SameBut
  <2> QED  BY <2>1, PedometerDoes
<1> HIDE DEF off
<1>10. /\ m.features = h.features /\ m.batch = a.batch /\ m.dmpSensors = a.dmpSensors
       /\ m.sys.pedometerInt = h.sys.pedometerInt /\ m.sys.pedometer = h.sys.pedometer
       /\ m.sys.smd = h.sys.smd /\ m.enabled = h.enabled
  BY <1>3 DEF Starts, SameBut, Fields, Files, Attributes
<1>11. /\ Flag(h.sys.smd, "smd" \in h.features) /\ Steps(h)
       /\ Flag(h.sys.pedometer, h.features \cap {"pedometer", "pedometerStep"} # {})
  BY DEF ConfigInv, Carried, Own, Sound
<1>12. F = "pedometer" \/ F = "pedometerStep"
  BY DEF Pedometer
<1>13. /\ SameBut(h, on, {"features", "batch", "enableCalled", "dmpSensors"},
                  {"smd", "pedometer", "pedometerInt", "master"})
       /\ SameBut(h, off, {"features", "batch", "enableCalled", "dmpSensors"},
                  {"smd", "pedometer", "pedometerInt", "master"})
  BY <1>3, <1>5, <1>6, <1>7, <1>9 DEF Starts, SameBut
<1>14. /\ on.features = h.features \cup {F} /\ on.batch = a.batch /\ on.dmpSensors = a.dmpSensors
       /\ on.sys.master = FALSE /\ on.enabled = m.enabled /\ on.sys.smd = h.sys.smd
       /\ on.sys.pedometer = TRUE /\ on.sys.pedometerInt = u
  BY <1>3, <1>5, <1>6, <1>10 DEF SameBut, Fields, Files, Attributes
<1>15. /\ off.features = h.features \ {F} /\ off.batch = a.batch /\ off.dmpSensors = a.dmpSensors
       /\ off.sys.master = FALSE /\ off.enabled = m.enabled /\ off.sys.smd = h.sys.smd
       /\ d.features = off.features
  BY <1>3, <1>7, <1>9, <1>10 DEF SameBut, Fields, Files, Attributes
<1>16. /\ on.sys.stepIndicator = h.sys.stepIndicator /\ on.sys.stepDetector = h.sys.stepDetector
       /\ off.sys.stepIndicator = h.sys.stepIndicator /\ off.sys.stepDetector = h.sys.stepDetector
  BY <1>13 DEF SameBut, Files, Attributes
<1>17. Stirs(h, on) /\ Stirs(h, off)
  BY <1>12, <1>13, <1>14, <1>15 DEF Stirs, Starts
<1>18. /\ Flag(on.sys.smd, "smd" \in on.features) /\ Flag(off.sys.smd, "smd" \in off.features)
       /\ Flag(on.sys.pedometer, on.features \cap {"pedometer", "pedometerStep"} # {})
  BY <1>11, <1>12, <1>14, <1>15 DEF Flag
<1>19. Flag(off.sys.pedometer, off.features \cap {"pedometer", "pedometerStep"} # {})
  <2>1. CASE off.features \cap {"pedometer", "pedometerStep"} # {}
    <3>1. h.sys.pedometer = TRUE
      BY <1>11, <1>15, <2>1 DEF Flag
    <3>2. off.sys.pedometer = TRUE
      BY <1>8, <1>9, <1>10, <1>15, <2>1, <3>1
    <3> QED  BY <2>1, <3>2 DEF Flag
  <2>2. CASE off.features \cap {"pedometer", "pedometerStep"} = {}
    <3>1. off.sys.pedometer = FALSE
      BY <1>8, <1>9, <1>15, <2>2
    <3> QED  BY <2>2, <3>1 DEF Flag
  <2> QED  BY <2>1, <2>2
<1>20. Steps(on)
  <2>1. h.sys.pedometerInt = TRUE => on.sys.pedometerInt = TRUE
    BY <1>4, <1>10, <1>14
  <2>2. CASE "pedometer" \in h.features
    BY <1>11, <1>16, <2>1, <2>2 DEF Steps
  <2>3. CASE "pedometer" \notin h.features
    <3>1. i => ~StandaloneBatched(m)
      BY <1>10, <2>3 DEF StandaloneBatched
    <3>2. "pedometer" \in on.features => i
      BY <1>14, <2>3 DEF Pedometer
    <3>3. i => on.sys.pedometerInt = TRUE
      BY <1>4, <1>14, <3>1
    <3> QED  BY <3>2, <3>3 DEF Steps
  <2> QED  BY <2>2, <2>3
<1>21. Steps(off)
  <2> SUFFICES ASSUME "pedometer" \in off.features
               PROVE  \/ off.sys.pedometerInt = TRUE \/ off.sys.stepIndicator = TRUE
                      \/ off.sys.stepDetector = TRUE
    BY DEF Steps
  <2>1. "pedometer" \in h.features
    BY <1>15
  <2>2. h.sys.pedometerInt = TRUE => off.sys.pedometerInt = TRUE
    BY <1>8, <1>9, <1>10, <1>15
  <2> QED  BY <1>11, <1>16, <2>1, <2>2 DEF Steps
<1>22. /\ EnableDmpPedometer(a, en, i) = AfterDmpSensor(p, en, p.enabled)
       /\ Stirs(h, p) /\ p.sys.master = FALSE /\ p.batch = a.batch
       /\ p.dmpSensors = a.dmpSensors
       /\ p.features = IF en THEN h.features \cup {F} ELSE h.features \ {F}
       /\ Steps(p)
       /\ Flag(p.sys.smd, "smd" \in p.features)
       /\ Flag(p.sys.pedometer, p.features \cap {"pedometer", "pedometerStep"} # {})
  <2>1. p.enabled = m.enabled
    BY <1>14, <1>15
  <2> QED  BY <1>1, <1>14, <1>15, <1>17, <1>18, <1>19, <1>20, <1>21, <2>1
<1> QED  BY <1>22 DEF PedometerFrom
\* A disabled sensor leaves the batch, and who has asked is noted.
CalledBy(h, what, en) ==
  [h EXCEPT !.enableCalled = TRUE, !.batch = IF en THEN @ ELSE @ \ {what}]
AskedBy(r, what, en) ==
  [r EXCEPT !.dmpSensors = IF en THEN @ \cup {what} ELSE @ \ {what}]
\* The start of a DMP sensor's handler.
LEMMA CalledDoes ==
  ASSUME NEW h, ConfigInv(h), NEW what \in DmpSensors, NEW en \in BOOLEAN
  PROVE  LET a == CalledBy(h, what, en)
         IN  /\ Starts(h, a) /\ a.features = h.features /\ a.dmpSensors = h.dmpSensors
             /\ a.batch = (IF en THEN h.batch ELSE h.batch \ {what})
             /\ what \notin h.enabled
<1> DEFINE a == CalledBy(h, what, en)
<1>1. Shape(h) /\ h.enabled \subseteq Hardware \cup Virtual
  BY DEF ConfigInv, Carried, Sound, Settled
<1>2. /\ Shape(a) /\ a.sys = h.sys /\ a.batch = (IF en THEN h.batch ELSE h.batch \ {what})
      /\ \A f \in Fields : f \notin {"batch", "enableCalled"} => a[f] = h[f]
  BY <1>1 DEF CalledBy, Shape, Fields
<1> HIDE DEF a
<1>3. what \notin h.enabled
  BY <1>1 DEF DmpSensors, Hardware, Virtual, Gyros, Compasses, NineAxes, GRV, GMRV
<1>4. Starts(h, a)
  BY <1>2, <1>3 DEF Starts, SameBut
<1>5. a.features = h.features /\ a.dmpSensors = h.dmpSensors
  BY <1>2 DEF Fields
<1> QED  BY <1>2, <1>3, <1>4, <1>5 DEF a
\* Its end.
LEMMA AskedByDoes ==
  ASSUME NEW r, Shape(r), NEW what, NEW en \in BOOLEAN
  PROVE  LET x == AskedBy(r, what, en)
         IN  /\ SameBut(r, x, {"dmpSensors"}, {})
             /\ x.dmpSensors = IF en THEN r.dmpSensors \cup {what} ELSE r.dmpSensors \ {what}
BY DEF AskedBy, Shape, SameBut, Fields

\* The end of what concerns any sensor but the step detector.
LEMMA AskedOther ==
  ASSUME NEW h, ConfigInv(h), NEW g, Almost(g), g.dmpSensors = h.dmpSensors,
         "pedometer" \in g.features <=> "pedometer" \in h.features,
         NEW what, what # "StepDetector", NEW en \in BOOLEAN
  PROVE  ConfigInv(AskedBy(g, what, en))
<1> DEFINE x == AskedBy(g, what, en)
<1>1. Shape(g)
  BY DEF Almost, Settled
<1>2. /\ SameBut(g, x, {"dmpSensors"}, {})
      /\ x.dmpSensors = IF en THEN g.dmpSensors \cup {what} ELSE g.dmpSensors \ {what}
  <2>1. Shape(g) /\ en \in BOOLEAN
    BY <1>1
  <2> QED  BY ONLY <2>1, AskedByDoes
<1> HIDE DEF x
<1>3. Almost(x) /\ x.features = g.features
  BY <1>2, AlmostAsked, AskedDoes
<1>4. "StepDetector" \in h.dmpSensors <=> "pedometer" \in h.features
  BY DEF ConfigInv, Carried, Own
<1>5. "StepDetector" \in x.dmpSensors <=> "pedometer" \in x.features
  BY <1>2, <1>3, <1>4
<1>6. ConfigInv(x)
  BY <1>3, <1>5, AlmostInv
<1> QED  BY <1>6 DEF x

\* enable keeps the invariant for the step counter.
LEMMA CounterKeeps ==
  ASSUME NEW h, ConfigInv(h), NEW en \in BOOLEAN
  PROVE  ConfigInv(AskedBy(EnableDmpPedometer(CalledBy(h, "StepCounter", en), en, FALSE),
                           "StepCounter", en))
<1> DEFINE a == CalledBy(h, "StepCounter", en)
           g == EnableDmpPedometer(a, en, FALSE)
<1>1. /\ Starts(h, a) /\ a.features = h.features /\ a.dmpSensors = h.dmpSensors
      /\ a.batch = (IF en THEN h.batch ELSE h.batch \ {"StepCounter"})
  <2>1. "StepCounter" \in DmpSensors
    BY DEF DmpSensors
  <2>2. ConfigInv(h) /\ en \in BOOLEAN
    OBVIOUS
  <2> QED  BY <2>1, <2>2, CalledDoes
<1> HIDE DEF a
<1>2. PICK p : PedometerFrom(h, a, en, FALSE, p)
  BY <1>1, PedometerStirs, Zenon
<1>3. Pedometer(FALSE) = "pedometerStep"
  BY DEF Pedometer
<1>4. en => DmpUsed(p)
  BY <1>2, <1>3 DEF PedometerFrom, DmpUsed, DmpFeatures
<1>5. /\ "pedometer" \in p.features <=> "pedometer" \in h.features
      /\ "StepDetector" \in h.batch => "StepDetector" \in p.batch
  BY <1>1, <1>2, <1>3 DEF PedometerFrom
<1>6. g = AfterDmpSensor(p, en, p.enabled)
  BY <1>2 DEF PedometerFrom
<1> HIDE DEF g
<1>7. Almost(g) /\ g.features = p.features /\ g.dmpSensors = p.dmpSensors
  BY <1>2, <1>4, <1>5, <1>6, StirsAlmost DEF PedometerFrom
<1>8. ConfigInv(AskedBy(g, "StepCounter", en))
  BY <1>1, <1>2, <1>5, <1>7, AskedOther DEF PedometerFrom
<1> QED  BY <1>8 DEF g, a

\* enableDmpOrientation, which only turns it off.
LEMMA OrientationKeeps ==
  ASSUME NEW h, ConfigInv(h), NEW a, Starts(h, a), a.features = h.features,
         "StepDetector" \in h.batch => "StepDetector" \in a.batch
  PROVE  LET g == EnableNoOrientation(a)
         IN  /\ Almost(g) /\ g.dmpSensors = a.dmpSensors
             /\ "pedometer" \in g.features <=> "pedometer" \in h.features
<1> DEFINE m == MasterEnable(a, FALSE)
           p == Drop(m, "orientation")
           o == EnableAccel(p, FALSE)
           n == IF p.features = {} /\ ~Uses(p, "accel") THEN o ELSE p
           e == Put(n, [eventInt |-> FALSE])
           i == IF n.enabled # {} THEN e ELSE n
           s == ComputeAndSetDmpState(i)
           g == IF s.enabled # {} \/ s.features # {} THEN MasterEnable(s, TRUE) ELSE s
<1>1. g = EnableNoOrientation(a)
  BY DEF EnableNoOrientation
<1>2. SameBut(a, m, {}, {"master"}) /\ m.sys.master = FALSE
  <2>1. Shape(a)
    BY DEF Starts, SameBut
  <2> QED  BY <2>1, MasterDoes
<1> HIDE DEF m
<1>3. SameBut(m, p, {"features"}, {}) /\ p.features = m.features \ {"orientation"}
  <2>1. Shape(m)
    BY <1>2 DEF SameBut
  <2> QED  BY <2>1, FeatureSet
<1> HIDE DEF p
<1>4. /\ Shape(p) /\ p.features = h.features /\ p.batch = a.batch /\ p.dmpSensors = a.dmpSensors
      /\ p.sys.master = FALSE /\ p.enabled = h.enabled /\ p.mask = h.mask
      /\ p.oldBatch = h.oldBatch /\ p.timeout = h.timeout
  <2>1. "orientation" \notin h.features
    BY DEF ConfigInv, Sound, Settled
  <2> QED  BY <1>2, <1>3, <2>1 DEF Starts, SameBut, Fields, Files, Attributes
<1>5. SameBut(h, p, {"features", "batch", "enableCalled", "dmpSensors"}, {"master"})
  BY <1>2, <1>3 DEF Starts, SameBut
<1>6. Stirs(h, p)
  <2>1. SameBut(h, p, {"features", "batch", "enableCalled", "dmpSensors"},
                {"smd", "pedometer", "pedometerInt", "master"})
    BY <1>5, Widen
  <2> QED  BY <1>4, <2>1 DEF Stirs, Starts
<1>7. /\ p.sys.smd = h.sys.smd /\ p.sys.pedometer = h.sys.pedometer /\ StepsSame(h, p)
      /\ p.sys.gyro = h.sys.gyro /\ p.sys.accel = h.sys.accel
  BY <1>5 DEF SameBut, Files, Attributes, StepsSame
<1>8. /\ Bare(p) /\ Held(p) /\ Bears(p) /\ Picked(p, p.oldBatch) /\ Steps(p) /\ Lit(p)
      /\ Batching(p)
  <2>1. /\ Flag(h.sys.smd, "smd" \in h.features) /\ Steps(h) /\ Lit(h) /\ Batching(h)
        /\ Flag(h.sys.pedometer, h.features \cap {"pedometer", "pedometerStep"} # {})
        /\ Picked(h, h.oldBatch)
    BY DEF ConfigInv, Carried, Own, Sound
  <2>2. /\ Bare(p) /\ Held(p) /\ Bears(p) /\ Picked(p, p.oldBatch)
        /\ p.oldBatch => p.enabled \subseteq p.batch
    BY <1>4, <1>6, <1>7, <2>1, StirsDo DEF Picked
  <2>3. Batching(p)
    BY <1>4, <2>1, <2>2 DEF Batching
  <2>4. Steps(p) /\ Lit(p)
    BY <1>4, <1>7, <2>1 DEF Steps, StepsSame, Lit, Wanted
  <2> QED  BY <2>2, <2>3, <2>4
<1>9. SameBut(p, o, {}, {"accel", "accelFifo"}) /\ o.sys.accel = FALSE
  BY <1>4, AccelDoes
<1> HIDE DEF o
<1>10. /\ SameBut(p, n, {}, {"accel", "accelFifo"})
       /\ \/ n.sys.accel = p.sys.accel
          \/ n.sys.accel = FALSE /\ p.features = {} /\ "accel" \notin p.mask
  BY <1>4, <1>9, Itself DEF Uses
<1> HIDE DEF n
<1>11. /\ Shape(n) /\ n.enabled = h.enabled /\ n.features = h.features /\ n.mask = h.mask
  BY <1>4, <1>10 DEF SameBut, Fields
<1>12. SameBut(n, e, {}, {"eventInt"}) /\ e.sys.eventInt = FALSE
  BY <1>11, EventDoes
<1> HIDE DEF e
<1>13. SameBut(n, i, {}, {"eventInt"}) /\ (n.enabled # {} => i.sys.eventInt = FALSE)
  BY <1>11, <1>12, Itself
<1> HIDE DEF i
<1>14. /\ SameBut(i, s, {"dmpOn", "accelBias", "dmpState"}, {"dmp", "eventInt"})
       /\ Flag(s.sys.dmp, i.features # {})
       /\ s.accelBias => i.accelBias
       /\ s.sys.eventInt => i.sys.eventInt
  <2>1. Shape(i)
    BY <1>13 DEF SameBut
  <2> QED  BY <2>1, StateDoes
<1> HIDE DEF s
<1>15. Stays(p, s)
  <2>1. /\ {"accel", "accelFifo"} \subseteq StayFiles /\ {"eventInt"} \subseteq StayFiles
        /\ {"dmp", "eventInt"} \subseteq StayFiles /\ {} \subseteq StayMembers
        /\ {"dmpOn", "accelBias", "dmpState"} \subseteq StayMembers
    BY DEF StayFiles, StayMembers, RateMembers
  <2>2. Stays(p, n) /\ Stays(n, i) /\ Stays(i, s)
    <3>1. SameBut(p, n, StayMembers, StayFiles)
      BY <1>10, <2>1, Widen
    <3>2. SameBut(n, i, StayMembers, StayFiles)
      BY <1>13, <2>1, Widen
    <3>3. SameBut(i, s, StayMembers, StayFiles)
      BY <1>14, <2>1, Widen
    <3> QED  BY <3>1, <3>2, <3>3, ButStays
  <2> QED  BY <2>2, StaysTwice
<1>16. /\ s.sys.master = FALSE /\ s.sys.accel = n.sys.accel /\ s.sys.gyro = p.sys.gyro
       /\ s.accelBias => p.accelBias
       /\ i.features = h.features
       /\ i.sys.eventInt = FALSE \/ n.enabled = {}
  <2>1. /\ s.sys.accel = i.sys.accel /\ s.sys.gyro = i.sys.gyro /\ s.sys.master = i.sys.master
    BY <1>14 DEF SameBut, Files, Attributes
  <2>2. /\ i.sys.accel = n.sys.accel /\ i.sys.gyro = n.sys.gyro /\ i.sys.master = n.sys.master
        /\ i.accelBias = n.accelBias /\ i.features = n.features
    BY <1>13 DEF SameBut, Fields, Files, Attributes
  <2>3. /\ n.sys.gyro = p.sys.gyro /\ n.sys.master = p.sys.master /\ n.accelBias = p.accelBias
    BY <1>10 DEF SameBut, Fields, Files, Attributes
  <2> QED  BY <1>4, <1>11, <1>13, <1>14, <2>1, <2>2, <2>3
<1>17. /\ Shape(s) /\ s.enabled = p.enabled /\ s.batch = p.batch
       /\ s.timeouts = p.timeouts /\ s.oldBatch = p.oldBatch /\ s.timeout = p.timeout
       /\ s.features = p.features /\ s.mask = p.mask /\ s.sys.timeout = p.sys.timeout
       /\ s.dmpSensors = p.dmpSensors
  BY <1>15 DEF Stays
<1>18. Settled(s)
  <2>1. Linked(s)
    BY <1>8, <1>15 DEF Bare, Linked, Stays, StepsSame
  <2>2. Timed(s)
    BY <1>8, <1>17 DEF Bare, Timed
  <2>3. Flag(s.sys.dmp, s.features # {})
    BY <1>4, <1>14, <1>16, <1>17
  <2> QED  BY <1>8, <1>17, <2>1, <2>2, <2>3 DEF Bare, Settled
<1>19. Bears(s)
  <2>1. /\ s.sys.smd = p.sys.smd /\ s.sys.pedometer = p.sys.pedometer
        /\ s.sys.compass = p.sys.compass /\ s.sys.pressure = p.sys.pressure
    BY <1>15 DEF Stays
  <2> QED  BY <1>8, <1>16, <1>17, <2>1 DEF Bears, Masked, Slow
<1>20. Held(s)
  BY <1>8, <1>10, <1>16, <1>17 DEF Held, Data
<1>21. Steps(s) /\ Batching(s) /\ Picked(s, s.oldBatch) /\ Lit(s)
  <2>1. StepsSame(p, s)
    BY <1>15 DEF Stays
  <2>2. Lit(s)
    BY <1>8, <1>10, <1>16, <1>17 DEF Lit, Wanted
  <2> QED  BY <1>8, <1>17, <2>1, <2>2 DEF Steps, StepsSame, Batching, Picked
<1>22. /\ Stays(s, g) /\ Alike(s, g) /\ g.sys.eventInt = s.sys.eventInt
       /\ Flag(g.sys.master, s.enabled \cup s.features # {})
  <2>1. CASE s.enabled # {} \/ s.features # {}
    <3>1. g = MasterEnable(s, TRUE)
      BY <2>1
    <3> HIDE DEF g
    <3>2. SameBut(s, g, {}, {"master"}) /\ g.sys.master = TRUE
      BY <1>17, <3>1, MasterDoes
    <3>3. SameBut(s, g, StayMembers, StayFiles) /\ SameBut(s, g, RateMembers, Rates \cup {"master", "eventInt"})
      BY <3>2, Widen DEF StayFiles
    <3>4. g.sys.eventInt = s.sys.eventInt
      BY <3>2 DEF SameBut, Files, Attributes
    <3> QED  BY <2>1, <3>2, <3>3, <3>4, ButStays, ButAlike DEF Flag
  <2>2. CASE ~(s.enabled # {} \/ s.features # {})
    <3>1. g = s
      BY <2>2
    <3> HIDE DEF g
    <3>2. SameBut(s, g, StayMembers, StayFiles) /\ SameBut(s, g, RateMembers, Rates \cup {"master", "eventInt"})
      BY <1>17, <3>1, Itself
    <3> QED  BY <1>16, <2>2, <3>1, <3>2, ButStays, ButAlike DEF Flag
  <2> QED  BY <2>1, <2>2
<1> HIDE DEF g
<1>23. Almost(g)
  <2>1. /\ Shape(g) /\ g.enabled = s.enabled /\ g.batch = s.batch
        /\ g.timeouts = s.timeouts /\ g.oldBatch = s.oldBatch /\ g.timeout = s.timeout
        /\ g.features = s.features /\ g.mask = s.mask /\ g.sys.timeout = s.sys.timeout
    BY <1>22 DEF Stays
  <2>2. g.sys.dmp = s.sys.dmp /\ (g.accelBias => s.accelBias) /\ Same(s, g)
    BY <1>22 DEF Alike
  <2>3. /\ Held(g) /\ Steps(g) /\ Picked(g, s.oldBatch) /\ Lit(g) /\ Linked(g)
    BY <1>18, <1>20, <1>21, <2>2, SameGood DEF Settled
  <2>4. Settled(g)
    BY <1>18, <2>1, <2>2, <2>3 DEF Settled, Timed
  <2>5. Bears(g)
    <3>1. /\ g.sys.smd = s.sys.smd /\ g.sys.pedometer = s.sys.pedometer
          /\ g.sys.compass = s.sys.compass /\ g.sys.pressure = s.sys.pressure
      BY <1>22 DEF Stays
    <3> QED  BY <1>19, <2>1, <2>2, <3>1 DEF Bears, Masked, Slow
  <2>6. Rested(g)
    BY <1>4, <1>11, <1>14, <1>16, <1>17, <1>22, <2>1 DEF Rested
  <2>7. g.timeout > 0 <=> g.oldBatch
    BY <1>8, <1>17, <2>1 DEF Bare
  <2>8. Batching(g)
    BY <1>21, <2>1 DEF Batching
  <2> QED  BY <2>1, <2>3, <2>4, <2>5, <2>6, <2>7, <2>8 DEF Almost
<1>24. g.dmpSensors = a.dmpSensors /\ g.features = h.features
  BY <1>4, <1>17, <1>22 DEF Stays
<1> QED  BY <1>1, <1>23, <1>24
\* The step detector's own change can end a batch or begin one.
LEMMA DetectorKeeps ==
  ASSUME NEW h, ConfigInv(h), NEW en \in BOOLEAN
  PROVE  ConfigInv(ComputeBatch(AskedBy(EnableDmpPedometer(CalledBy(h, "StepDetector", en), en, TRUE),
                                        "StepDetector", en), TRUE))
<1> DEFINE a == CalledBy(h, "StepDetector", en)
           g == EnableDmpPedometer(a, en, TRUE)
           x == AskedBy(g, "StepDetector", en)
           y == ComputeBatch(x, TRUE)
           mode == BatchMode(x, x.batch)
<1>1. /\ Starts(h, a) /\ a.features = h.features /\ a.dmpSensors = h.dmpSensors
      /\ a.batch = (IF en THEN h.batch ELSE h.batch \ {"StepDetector"})
  <2>1. "StepDetector" \in DmpSensors
    BY DEF DmpSensors
  <2>2. ConfigInv(h) /\ en \in BOOLEAN
    OBVIOUS
  <2> QED  BY ONLY <2>1, <2>2, CalledDoes
<1> HIDE DEF a
<1>2. PICK p : PedometerFrom(h, a, en, TRUE, p)
  BY <1>1, PedometerStirs, Zenon
<1>3. /\ Stirs(h, p) /\ p.sys.master = FALSE /\ p.batch = a.batch /\ p.dmpSensors = h.dmpSensors
      /\ p.features = IF en THEN h.features \cup {"pedometer"} ELSE h.features \ {"pedometer"}
      /\ Steps(p)
      /\ Flag(p.sys.smd, "smd" \in p.features)
      /\ Flag(p.sys.pedometer, p.features \cap {"pedometer", "pedometerStep"} # {})
      /\ g = AfterDmpSensor(p, en, p.enabled)
  BY <1>1, <1>2 DEF PedometerFrom, Pedometer
<1> HIDE DEF g
<1>4. /\ Carried(h) /\ Settled(h) /\ Batching(h) /\ Picked(h, h.oldBatch)
  BY DEF ConfigInv, Sound
<1>5. /\ Bare(p) /\ Held(p) /\ Bears(p) /\ p.enabled = h.enabled /\ p.oldBatch = h.oldBatch
      /\ p.oldBatch => p.enabled \subseteq p.batch
  BY <1>3, StirsDo
<1>6. ~h.oldBatch => Picked(p, FALSE)
  <2> SUFFICES ASSUME ~h.oldBatch
               PROVE  Picked(p, FALSE)
    OBVIOUS
  <2>1. ~p.oldBatch /\ p.oldBatch = FALSE
    BY <1>5 DEF Bare
  <2>2. (p.oldBatch /\ "standalone" \in p.features => "pedometer" \in p.features)
          => Picked(p, p.oldBatch)
    BY <1>3, StirsDo
  <2> QED  BY <2>1, <2>2
<1>7. en => DmpUsed(p)
  BY <1>3 DEF DmpUsed, DmpFeatures
<1>8. /\ Stays(p, g) /\ Settled(g) /\ Bears(g) /\ Held(g) /\ Rested(g) /\ Steps(g)
      /\ \A b : Picked(p, b) => Picked(g, b) /\ Lit(g)
  BY <1>3, <1>5, <1>7, AfterDmpSettles
<1>9. /\ SameBut(g, x, {"dmpSensors"}, {})
      /\ x.dmpSensors = IF en THEN g.dmpSensors \cup {"StepDetector"}
                        ELSE g.dmpSensors \ {"StepDetector"}
  <2>1. Shape(g)
    BY <1>8 DEF Settled
  <2> QED  BY <2>1, AskedByDoes
<1> HIDE DEF x
<1>10. /\ Settled(x) /\ Bears(x) /\ Held(x) /\ Rested(x) /\ Steps(x)
       /\ ~h.oldBatch => Picked(x, FALSE) /\ Lit(x)
       /\ x.enabled = g.enabled /\ x.features = g.features /\ x.batch = g.batch
       /\ x.oldBatch = g.oldBatch
  BY <1>6, <1>8, <1>9, AskedDoes
<1>11. /\ x.enabled = h.enabled /\ x.features = p.features /\ x.batch = a.batch
       /\ x.oldBatch = h.oldBatch
  BY <1>3, <1>5, <1>8, <1>10 DEF Stays
<1>12. Carried(x)
  <2>1. "StepDetector" \in x.dmpSensors <=> "pedometer" \in x.features
    BY <1>3, <1>9, <1>11
  <2> QED  BY <1>10, <2>1 DEF Bears, Carried, Own
<1>13. Ready(x, mode)
  <2>1. mode => x.enabled \subseteq x.batch
    BY ModeIs
  <2>2. \A f \in {"lpq", "six", "pedQ", "batch"} : f \in x.features <=> f \in h.features
    BY <1>3, <1>11
  <2>3. /\ "lpq" \in x.features => x.enabled \cap FusedAxes # {}
        /\ "six" \in x.features => GRV \in x.enabled
    BY <1>4, <1>11, <2>2 DEF Picked
  <2>4. ~h.oldBatch /\ x.enabled \cap FusedAxes # {} => "lpq" \in x.features
    BY <1>4, <1>11, <2>2 DEF Picked, Quats
  <2>5. x.enabled \cap NineAxes # {} => "lpq" \in x.features
    <3>1. h.oldBatch => h.enabled \subseteq Batchable
      BY <1>4 DEF Settled, Batching
    <3>2. Batchable \cap NineAxes = {}
      BY DEF Batchable, Hardware, Gyros, Compasses, NineAxes, GRV
    <3> QED  BY <1>11, <2>4, <3>1, <3>2 DEF FusedAxes
  <2>6. GRV \in x.enabled /\ "pedQ" \in DataOutput(x) /\ (~mode \/ "pedometer" \notin x.features)
          => "lpq" \in x.features
    <3> SUFFICES ASSUME GRV \in x.enabled, "pedQ" \in DataOutput(x),
                        ~mode \/ "pedometer" \notin x.features
                 PROVE  "lpq" \in x.features
      OBVIOUS
    <3>1. "StepDetector" \in x.batch
      BY DEF DataOutput
    <3>2. en /\ "pedometer" \in x.features
      BY <1>1, <1>3, <1>11, <3>1
    <3>3. ~AllBatched(x, x.batch)
      BY <3>1, <3>2 DEF BatchMode
    <3>4. ~(x.enabled \subseteq x.batch)
      BY <3>1, <3>3 DEF AllBatched
    <3>5. ~h.oldBatch
      BY <1>3, <1>5, <1>11, <3>4
    <3> QED  BY <2>4, <3>5 DEF FusedAxes
  <2> QED  BY <1>10, <2>1, <2>3, <2>5, <2>6 DEF Ready, Settled
<1>14. /\ Sound(y) /\ Carried(y) /\ Follows(x, y)
       /\ IF x.oldBatch \/ mode THEN y.enabled # {} => ~y.sys.eventInt
          ELSE y.sys.eventInt = x.sys.eventInt
       /\ IF x.oldBatch \/ mode THEN Flag(y.sys.master, y.enabled \cup y.features # {})
          ELSE y.sys.master = x.sys.master
       /\ ~x.oldBatch /\ ~mode => Same(x, y)
  BY <1>10, <1>11, <1>12, <1>13, ComputeBatchSound
<1> HIDE DEF y, mode
<1>15. Rested(y)
  <2>1. CASE x.oldBatch \/ mode
    BY <1>14, <2>1 DEF Rested
  <2>2. CASE ~(x.oldBatch \/ mode)
    <3>1. y.enabled = x.enabled /\ y.features = x.features
      BY <1>14, <2>2 DEF Same
    <3> QED  BY <1>10, <1>14, <2>2, <3>1 DEF Rested
  <2> QED  BY <2>1, <2>2
<1>16. ConfigInv(y)
  BY <1>14, <1>15 DEF ConfigInv
<1> QED  BY <1>16 DEF y, x, g, a

\* enable keeps the invariant for every sensor of the DMP.
LEMMA DmpSensorKeeps ==
  ASSUME NEW h, ConfigInv(h), NEW what \in DmpSensors, NEW en \in BOOLEAN
  PROVE  ConfigInv(EnableDmpSensor(h, what, en))
<1> DEFINE a == CalledBy(h, what, en)
<1>1. EnableDmpSensor(h, what, en) =
        CASE what = "SignificantMotion" -> AskedBy(EnableSmd(a, en), what, en)
          [] what = "ScreenOrientation" -> AskedBy(EnableNoOrientation(a), what, en)
          [] what = "StepDetector" ->
               ComputeBatch(AskedBy(EnableDmpPedometer(a, en, TRUE), what, en), TRUE)
          [] what = "StepCounter" -> AskedBy(EnableDmpPedometer(a, en, FALSE), what, en)
  BY DEF EnableDmpSensor, CalledBy, AskedBy
<1>2. /\ Starts(h, a) /\ a.features = h.features /\ a.dmpSensors = h.dmpSensors
      /\ a.batch = (IF en THEN h.batch ELSE h.batch \ {what})
  <2>1. Starts(h, a) /\ a.features = h.features /\ a.dmpSensors = h.dmpSensors
    BY CalledDoes, ZenonT(30)
  <2>2. a.batch = (IF en THEN h.batch ELSE h.batch \ {what})
    <3>1. Shape(h)
      BY DEF ConfigInv, Sound, Settled
    <3> QED  BY <3>1 DEF CalledBy, Shape, Fields
  <2> QED  BY <2>1, <2>2
<1>3. CASE what = "SignificantMotion"
  <2>1. EnableDmpSensor(h, what, en) = AskedBy(EnableSmd(a, en), what, en)
    BY <1>1, <1>3
  <2> HIDE DEF a
  <2>2. /\ "StepDetector" \in h.batch => "StepDetector" \in a.batch
        /\ \A f : f # "smd" => (f \in a.features <=> f \in h.features)
    BY <1>2, <1>3
  <2> DEFINE g == EnableSmd(a, en)
  <2>3. /\ Almost(g) /\ g.dmpSensors = a.dmpSensors
        /\ "pedometer" \in g.features <=> "pedometer" \in h.features
    BY <1>2, <2>2, SmdKeeps
  <2>4. g = EnableSmd(a, en)
    OBVIOUS
  <2> HIDE DEF g
  <2>5. ConfigInv(AskedBy(g, what, en))
    BY <1>2, <1>3, <2>3, AskedOther
  <2> QED  BY <2>1, <2>4, <2>5
<1>4. CASE what = "ScreenOrientation"
  <2>1. EnableDmpSensor(h, what, en) = AskedBy(EnableNoOrientation(a), what, en)
    BY <1>1, <1>4
  <2> HIDE DEF a
  <2>2. "StepDetector" \in h.batch => "StepDetector" \in a.batch
    BY <1>2, <1>4
  <2> DEFINE g == EnableNoOrientation(a)
  <2>3. /\ Almost(g) /\ g.dmpSensors = a.dmpSensors
        /\ "pedometer" \in g.features <=> "pedometer" \in h.features
    BY <1>2, <2>2, OrientationKeeps
  <2>4. g = EnableNoOrientation(a)
    OBVIOUS
  <2> HIDE DEF g
  <2>5. ConfigInv(AskedBy(g, what, en))
    BY <1>2, <1>4, <2>3, AskedOther
  <2> QED  BY <2>1, <2>4, <2>5
<1>5. CASE what = "StepDetector"
  BY <1>1, <1>5, DetectorKeeps
<1>6. CASE what = "StepCounter"
  BY <1>1, <1>6, CounterKeeps
<1> QED  BY <1>3, <1>4, <1>5, <1>6 DEF DmpSensors

\* An event of significant motion turns its sensor off.
LEMMA MotionKeeps ==
  ASSUME NEW h, ConfigInv(h)
  PROVE  ConfigInv(EnableSmd(Drop([h EXCEPT !.dmpSensors = @ \ {"SignificantMotion"}], "smd"), FALSE))
<1> DEFINE b == [h EXCEPT !.dmpSensors = @ \ {"SignificantMotion"}]
           a == Drop(b, "smd")
           g == EnableSmd(a, FALSE)
<1>1. Shape(h)
  BY DEF ConfigInv, Sound, Settled
<1>2. SameBut(h, b, {"dmpSensors"}, {}) /\ b.dmpSensors = h.dmpSensors \ {"SignificantMotion"}
  BY <1>1 DEF Shape, SameBut, Fields
<1> HIDE DEF b
<1>3. SameBut(b, a, {"features"}, {}) /\ a.features = b.features \ {"smd"}
  <2>1. Shape(b)
    BY <1>2 DEF SameBut
  <2> QED  BY <2>1, FeatureSet
<1> HIDE DEF a
<1>4. /\ a.batch = h.batch /\ a.dmpSensors = h.dmpSensors \ {"SignificantMotion"}
      /\ a.features = h.features \ {"smd"}
  BY <1>2, <1>3 DEF SameBut, Fields
<1>5. Starts(h, a)
  BY <1>2, <1>3, <1>4 DEF Starts, SameBut
<1>6. /\ "StepDetector" \in h.batch => "StepDetector" \in a.batch
      /\ \A f : f # "smd" => (f \in a.features <=> f \in h.features)
  BY <1>4
<1>7. FALSE \in BOOLEAN
  OBVIOUS
<1>8. /\ Almost(g) /\ g.dmpSensors = a.dmpSensors
      /\ "pedometer" \in g.features <=> "pedometer" \in h.features
  BY <1>5, <1>6, <1>7, SmdKeeps
<1> HIDE DEF g
<1>9. "StepDetector" \in h.dmpSensors <=> "pedometer" \in h.features
  BY DEF ConfigInv, Carried, Own
<1>10. ConfigInv(g)
  BY <1>4, <1>8, <1>9, AlmostInv
<1> QED  BY <1>10 DEF g, a, b

\* A new accel bias waits while accel data is read.
LEMMA BiasKeeps ==
  ASSUME NEW h, ConfigInv(h), "accel" \in h.mask
  PROVE  ConfigInv([h EXCEPT !.accelBias = TRUE])
<1> DEFINE g == [h EXCEPT !.accelBias = TRUE]
<1>1. Shape(h) /\ Carried(h) /\ Sound(h) /\ Rested(h) /\ Masked(h)
  BY DEF ConfigInv, Sound, Settled, Carried
<1>2. SameBut(h, g, {"accelBias"}, {})
  BY <1>1 DEF Shape, SameBut, Fields
<1> HIDE DEF g
<1>3. /\ Shape(g) /\ g.enabled = h.enabled /\ g.batch = h.batch
      /\ g.timeouts = h.timeouts /\ g.oldBatch = h.oldBatch /\ g.timeout = h.timeout
      /\ g.features = h.features /\ g.mask = h.mask /\ g.dmpSensors = h.dmpSensors
  BY <1>2 DEF SameBut, Fields
<1>4. /\ g.sys.smd = h.sys.smd /\ g.sys.pedometer = h.sys.pedometer
      /\ g.sys.timeout = h.sys.timeout
      /\ g.sys.compass = h.sys.compass /\ g.sys.pressure = h.sys.pressure
      /\ g.sys.threeQ = h.sys.threeQ /\ g.sys.sixQ = h.sys.sixQ /\ g.sys.pedQ = h.sys.pedQ
      /\ StepsSame(h, g) /\ g.sys.dmp = h.sys.dmp /\ g.sys.master = h.sys.master
      /\ g.sys.eventInt = h.sys.eventInt /\ g.sys.gyro = h.sys.gyro /\ g.sys.accel = h.sys.accel
  BY <1>2 DEF SameBut, Files, Attributes, StepsSame
<1>5. h.enabled # {}
  BY <1>1 DEF Masked
<1>6. Carried(g)
  BY <1>1, <1>3, <1>4, <1>5 DEF Carried, Own, Masked, Slow
<1>7. Settled(g)
  <2>1. Linked(g)
    BY <1>1, <1>3, <1>4 DEF Sound, Settled, Linked, StepsSame
  <2> QED  BY <1>1, <1>3, <1>4, <2>1 DEF Sound, Settled, Timed
<1>8. Batching(g) /\ Picked(g, g.oldBatch) /\ Steps(g) /\ Held(g) /\ Lit(g)
      /\ (g.timeout > 0 <=> g.oldBatch)
  BY <1>1, <1>3, <1>4 DEF Sound, Batching, Picked, Steps, StepsSame, Held, Data, Lit, Wanted
<1>9. Rested(g)
  BY <1>1, <1>3, <1>4 DEF Rested
<1> QED  BY <1>6, <1>7, <1>8, <1>9 DEF ConfigInv, Sound, g
-----------------------------------------------------------------------------
(* Periods *)

\* A sensor that is enabled has its data in the buffer or folded by the DMP.
LEMMA EnabledUses ==
  ASSUME NEW h, ConfigInv(h), h.enabled # {}
  PROVE  h.mask # {} \/ DmpUsed(h)
<1>1. /\ Data(h) /\ Masked(h) /\ h.enabled \subseteq Hardware \cup Virtual
  BY DEF ConfigInv, Sound, Held, Carried
<1>2. h.features \cap Quats # {} => DmpUsed(h)
  BY DEF DmpUsed, DmpFeatures, Quats
<1>3. PICK x \in h.enabled : TRUE
  OBVIOUS
<1>4. CASE x \in Gyros \cup {"Accelerometer", GRV, GMRV} \cup NineAxes
  BY <1>1, <1>2, <1>3, <1>4 DEF Data
<1>5. CASE x \in Compasses \cup {"Pressure"}
  BY <1>1, <1>3, <1>5 DEF Masked, SlowUsers
<1> QED  BY <1>1, <1>3, <1>4, <1>5 DEF Hardware, Virtual

\* Two writes of rates.
LEMMA RatesTwice ==
  ASSUME NEW h, NEW g, NEW k, SameBut(h, g, {}, Rates), SameBut(g, k, {}, Rates)
  PROVE  SameBut(h, k, {}, Rates)
BY DEF SameBut
\* Each sensor's own rate.
LEMMA OwnRatesDo ==
  ASSUME NEW h, Shape(h)
  PROVE  SameBut(h, OwnRates(h), {}, Rates)
<1> DEFINE on(set) == h.enabled \cap set # {}
           accel == PeriodUnless(h, OwnPeriod(h, {"Accelerometer"}), <<"Gyro", "RawGyro">>)
           compass == PeriodUnless(h, OwnPeriod(h, Compasses), <<"Gyro", "RawGyro", "Accelerometer">>)
           g == IF on(Gyros) THEN Put(h, [gyroRate |-> OwnPeriod(h, Gyros)]) ELSE h
           a == IF on({"Accelerometer"}) THEN Put(g, [accelRate |-> accel]) ELSE g
           m == IF on(Compasses) THEN Put(a, [compassRate |-> compass]) ELSE a
           r == IF on({"Pressure"}) THEN Put(m, [pressureRate |-> h.delays["Pressure"]]) ELSE m
<1>1. r = OwnRates(h)
  BY DEF OwnRates
<1>2. \A x : /\ SameBut(h, Put(h, [gyroRate |-> x]), {}, Rates)
  BY RatesPut DEF Rates
<1>3. SameBut(h, g, {}, Rates)
  BY <1>2, Itself
<1> HIDE DEF g
<1>4. \A x : SameBut(g, Put(g, [accelRate |-> x]), {}, Rates)
  <2>1. Shape(g)
    BY <1>3 DEF SameBut
  <2> QED  BY <2>1, RatesPut DEF Rates
<1>5. SameBut(h, a, {}, Rates)
  BY <1>3, <1>4, RatesTwice
<1> HIDE DEF a
<1>6. \A x : SameBut(a, Put(a, [compassRate |-> x]), {}, Rates)
  <2>1. Shape(a)
    BY <1>5 DEF SameBut
  <2> QED  BY <2>1, RatesPut DEF Rates
<1>7. SameBut(h, m, {}, Rates)
  BY <1>5, <1>6, RatesTwice
<1> HIDE DEF m
<1>8. \A x : SameBut(m, Put(m, [pressureRate |-> x]), {}, Rates)
  <2>1. Shape(m)
    BY <1>7 DEF SameBut
  <2> QED  BY <2>1, RatesPut DEF Rates
<1>9. SameBut(h, r, {}, Rates)
  BY <1>7, <1>8, RatesTwice
<1> QED  BY <1>1, <1>9

\* What leaves only the rates different keeps everything.
LEMMA QuietKeeps ==
  ASSUME NEW h, NEW g, ConfigInv(h), Quiet(h, g)
  PROVE  ConfigInv(g)
<1>1. /\ Sound(g) /\ Carried(g) /\ g.sys.master = h.sys.master
      /\ g.sys.eventInt = h.sys.eventInt
      /\ g.enabled = h.enabled /\ g.features = h.features
  BY QuietSound DEF ConfigInv
<1> QED  BY <1>1 DEF ConfigInv, Rested
\* update_delay keeps the invariant.
LEMMA UpdateDelayKeeps ==
  ASSUME NEW h, ConfigInv(h)
  PROVE  ConfigInv(UpdateDelay(h))
<1> DEFINE m == MasterEnable(h, FALSE)
           fast == Fastest(m)
           all == Put(m, [gyroRate |-> fast, accelRate |-> fast,
                          compassRate |-> AtLeast(fast, CompassMin)])
           d == IF m.enabled \cap Virtual # {} THEN all ELSE OwnRates(m)
           o == DmpRate(d, fast)
           s == IF "batch" \in m.features THEN SetBatchRates(m) ELSE o
           g == UpdateDelay(h)
<1>1. g = IF m.enabled = {} THEN h
          ELSE IF m.mask # {} \/ DmpUsed(m) THEN MasterEnable(s, TRUE) ELSE s
  BY DEF UpdateDelay
<1>2. /\ Sound(m) /\ Carried(m) /\ m.sys.eventInt = h.sys.eventInt
      /\ m.enabled = h.enabled /\ m.features = h.features
  BY MasterSound DEF ConfigInv
<1>3. Shape(m) /\ m.mask = h.mask
  <2>1. Shape(h)
    BY DEF ConfigInv, Sound, Settled
  <2>2. SameBut(h, m, {}, {"master"})
    BY <2>1, MasterDoes
  <2> QED  BY <2>2 DEF SameBut, Fields
<1> HIDE DEF m, g
<1>4. SameBut(m, d, {}, Rates)
  <2>1. SameBut(m, all, {}, Rates)
    BY <1>3, RatesPut DEF Rates
  <2> QED  BY <1>3, <2>1, OwnRatesDo
<1> HIDE DEF d
<1>5. SameBut(m, o, {}, Rates)
  <2>1. Shape(d)
    BY <1>4 DEF SameBut
  <2>2. SameBut(d, o, {}, Rates)
    BY <2>1, DmpRateDoes
  <2> QED  BY <1>4, <2>2, RatesTwice
<1> HIDE DEF o
<1>6. Quiet(m, s)
  <2>1. SameBut(m, o, RateMembers, Rates)
    BY <1>5, Widen
  <2> QED  BY <1>3, <2>1, RatesQuiet, SetBatchRatesQuiet
<1> HIDE DEF s
<1>7. /\ Sound(s) /\ Carried(s) /\ s.sys.eventInt = m.sys.eventInt
      /\ s.enabled = m.enabled /\ s.features = m.features
  BY <1>2, <1>6, QuietSound
<1>8. CASE h.enabled = {}
  BY <1>1, <1>2, <1>8 DEF g
<1>9. CASE h.enabled # {}
  <2>1. m.mask # {} \/ DmpUsed(m)
    BY <1>2, <1>3, <1>9, EnabledUses DEF DmpUsed
  <2>2. g = MasterEnable(s, TRUE)
    BY <1>1, <1>2, <1>9, <2>1
  <2>3. s.enabled # {} => ~s.sys.eventInt
    BY <1>2, <1>7 DEF ConfigInv, Rested
  <2>4. s.enabled \cup s.features # {}
    BY <1>2, <1>7, <1>9
  <2>5. ConfigInv(g)
    BY <1>7, <2>2, <2>3, <2>4, MasterRests
  <2> QED  BY <2>5 DEF g
<1> QED  BY <1>8, <1>9

\* setDelay keeps the invariant.
LEMMA DelayKeeps ==
  ASSUME NEW h, ConfigInv(h), NEW what, NEW p
  PROVE  ConfigInv(SetDelay(h, what, p))
<1> DEFINE s == [h EXCEPT !.delays[what] = p]
<1>1. SetDelay(h, what, p) = UpdateDelay(s) \/ SetDelay(h, what, p) = s
  BY DEF SetDelay
<1>2. ConfigInv(s)
  <2>1. Shape(h)
    BY DEF ConfigInv, Sound, Settled
  <2>2. SameBut(h, s, {"delays"}, {})
    BY <2>1 DEF Shape, SameBut, Fields
  <2> HIDE DEF s
  <2>3. SameBut(h, s, RateMembers, Rates)
    BY <2>2, Widen DEF RateMembers
  <2> QED  BY <2>3, RatesQuiet, QuietKeeps
<1> HIDE DEF s
<1> QED  BY <1>1, <1>2, UpdateDelayKeeps
-----------------------------------------------------------------------------
(* The outputs that batch chooses *)

\* A quiet step is a move that keeps the features.
LEMMA QuietMoves ==
  ASSUME NEW h, NEW g, Quiet(h, g)
  PROVE  Moves(h, g) /\ (Held(h) => Held(g)) /\ StepsSame(h, g) /\ g.features = h.features
<1>1. Same(h, g)
  BY QuietSame
<1>2. Keeps(h, g) /\ Masks(h, g)
  BY DEF Quiet, Masks
<1>3. /\ g.features = h.features /\ g.accelBias = h.accelBias /\ StepsSame(h, g)
      /\ g.sys.dmp = h.sys.dmp
  BY DEF Quiet
<1>4. (Linked(h) => Linked(g)) /\ (Held(h) => Held(g))
  BY <1>1, SameGood
<1>5. Steady(h) => Steady(g)
  BY <1>3 DEF Steady
<1> QED  BY <1>2, <1>3, <1>4, <1>5 DEF Moves
\* A quaternion is given its rate.
LEMMA QuatRated ==
  ASSUME NEW h, Shape(h), NEW x
  PROVE  LET g == Put(h, [quatRate |-> x])
         IN  Moves(h, g) /\ (Held(h) => Held(g)) /\ StepsSame(h, g) /\ g.features = h.features
<1> DEFINE g == Put(h, [quatRate |-> x])
<1>1. SameBut(h, g, {}, {"quatRate"})
  BY QuatRateDoes
<1> HIDE DEF g
<1>2. SameBut(h, g, RateMembers, Rates)
  BY <1>1, Widen DEF Rates
<1> QED  BY <1>2, RatesQuiet, QuietMoves DEF g

\* The features that are no output of a batch.
OthersStay(h, g) ==
  \A f : f \notin {"standalone", "lpq", "six", "pedQ"} => (f \in g.features <=> f \in h.features)

\* The steps of their own, or with a quaternion.
StepsOut(q, a, b) ==
  IF a THEN EnablePedStandalone(EnablePedQuaternion(q, FALSE), TRUE)
  ELSE IF b THEN EnablePedQuaternion(EnableLPQ(EnablePedStandalone(q, FALSE), FALSE), TRUE)
  ELSE EnablePedStandalone(q, FALSE)
\* The first stage of a batch's outputs: the steps by themselves.
LEMMA FirstOutput ==
  ASSUME NEW q, Shape(q), Held(q), Folds(q), NEW a \in BOOLEAN, NEW b \in BOOLEAN, NEW s,
         s = StepsOut(q, a, b)
  PROVE  /\ Moves(q, s) /\ Held(s)
         /\ "standalone" \in s.features <=> a
         /\ "lpq" \in s.features => "lpq" \in q.features
         /\ "six" \in s.features <=> "six" \in q.features
         /\ OthersStay(q, s)
<1>1. CASE a
  <2> DEFINE p == EnablePedQuaternion(q, FALSE)
  <2>1. s = EnablePedStandalone(p, TRUE)
    BY <1>1 DEF StepsOut
  <2>2. Moves(q, p) /\ p.features = q.features \ {"pedQ"} /\ Held(p)
    BY PedQuaternionOffMoves
  <2> HIDE DEF p
  <2>3. Shape(p)
    BY <2>2 DEF Moves, Keeps
  <2>4. Moves(p, s) /\ s.features = p.features \cup {"standalone"} /\ Held(s)
    BY <2>1, <2>2, <2>3, StandaloneOnMoves
  <2>5. Moves(q, s)
    BY <2>2, <2>4, MovesTwice
  <2>9. OthersStay(q, s)
    BY ONLY <2>2, <2>4 DEF OthersStay
  <2> QED  BY <2>9, <1>1, <2>2, <2>4, <2>5
<1>2. CASE ~a /\ b
  <2> DEFINE p == EnablePedStandalone(q, FALSE)
  <2>1. s = EnablePedQuaternion(EnableLPQ(p, FALSE), TRUE)
    BY <1>2 DEF StepsOut
  <2>2. Moves(q, p) /\ p.features = q.features \ {"standalone"}
    BY StandaloneOffMoves
  <2> HIDE DEF p
  <2>3. Shape(p) /\ Folds(p)
    BY <2>2 DEF Moves, Keeps, Folds
  <2>4. Moves(p, s) /\ s.features = (p.features \ {"lpq"}) \cup {"pedQ"} /\ Held(s)
    BY <2>1, <2>3, PedFolds
  <2>5. Moves(q, s)
    BY <2>2, <2>4, MovesTwice
  <2>9. OthersStay(q, s)
    BY ONLY <2>2, <2>4 DEF OthersStay
  <2> QED  BY <2>9, <1>2, <2>2, <2>4, <2>5
<1>3. CASE ~a /\ ~b
  <2>1. s = EnablePedStandalone(q, FALSE)
    BY <1>3 DEF StepsOut
  <2>2. Moves(q, s) /\ s.features = q.features \ {"standalone"} /\ Held(s)
    BY <2>1, StandaloneOffMoves
  <2>9. OthersStay(q, s)
    BY ONLY <2>2 DEF OthersStay
  <2> QED  BY <2>9, <1>3, <2>2
<1> QED  BY <1>1, <1>2, <1>3

\* The quaternion with the steps.
StepQuaternionOut(q, a, b, x) ==
  IF a THEN Put(EnablePedQuaternion(EnableLPQ(q, FALSE), TRUE), [quatRate |-> x])
  ELSE EnablePedQuaternion(IF b THEN EnableLPQ(q, TRUE) ELSE q, FALSE)
SecondSo(q, a, b, s) ==
  /\ Moves(q, s) /\ Held(s)
  /\ "pedQ" \in s.features <=> a
  /\ "lpq" \in s.features <=> ~a /\ (b \/ "lpq" \in q.features)
  /\ "six" \in s.features <=> "six" \in q.features
  /\ "standalone" \in s.features <=> "standalone" \in q.features
  /\ ~a /\ "pedometer" \in s.features => s.sys.pedometerInt = TRUE
  /\ OthersStay(q, s)
\* The second stage: the steps with the quaternion.
LEMMA SecondOutput ==
  ASSUME NEW q, Shape(q), Held(q), Folds(q), NEW a \in BOOLEAN, NEW b \in BOOLEAN, NEW s, NEW x,
         s = StepQuaternionOut(q, a, b, x)
  PROVE  SecondSo(q, a, b, s)
<1>1. CASE a
  <2> DEFINE p == EnablePedQuaternion(EnableLPQ(q, FALSE), TRUE)
  <2>1. s = Put(p, [quatRate |-> x])
    BY <1>1 DEF StepQuaternionOut
  <2>2. Moves(q, p) /\ p.features = (q.features \ {"lpq"}) \cup {"pedQ"} /\ Held(p)
    BY PedFolds
  <2> HIDE DEF p
  <2>3. Shape(p)
    BY <2>2 DEF Moves, Keeps
  <2>4. Moves(p, s) /\ s.features = p.features /\ Held(s)
    BY <2>1, <2>2, <2>3, QuatRated
  <2>5. Moves(q, s)
    BY <2>2, <2>4, MovesTwice
  <2>6. /\ "six" \in s.features <=> "six" \in q.features
        /\ "standalone" \in s.features <=> "standalone" \in q.features
        /\ "lpq" \notin s.features /\ "pedQ" \in s.features
    BY ONLY <2>2, <2>4
  <2>9. OthersStay(q, s)
    BY ONLY <2>2, <2>4 DEF OthersStay
  <2> QED  BY <2>9, <1>1, <2>4, <2>5, <2>6 DEF SecondSo
<1>2. CASE ~a
  <2> DEFINE p == IF b THEN EnableLPQ(q, TRUE) ELSE q
  <2>1. s = EnablePedQuaternion(p, FALSE)
    BY <1>2 DEF StepQuaternionOut
  <2>2. Moves(q, p) /\ p.features = q.features \cup (IF b THEN {"lpq"} ELSE {}) /\ Held(p)
    BY LpqOnMoves, MovesNot
  <2> HIDE DEF p
  <2>3. Shape(p)
    BY <2>2 DEF Moves, Keeps
  <2>4. /\ Moves(p, s) /\ s.features = p.features \ {"pedQ"} /\ (Held(p) => Held(s))
        /\ "pedometer" \in s.features => s.sys.pedometerInt = TRUE
    BY ONLY <2>1, <2>3, PedQuaternionOffMoves
  <2>5. Moves(q, s)
    BY <2>2, <2>4, MovesTwice
  <2>9. OthersStay(q, s)
    BY ONLY <2>2, <2>4 DEF OthersStay
  <2> QED  BY <2>9, <1>2, <2>2, <2>4, <2>5 DEF SecondSo
<1> QED  BY <1>1, <1>2

\* The quaternion by itself.
QuaternionOut(q, a, b, x) ==
  IF a THEN Put(EnableSixAxis(EnableLPQ(q, FALSE), TRUE), [quatRate |-> x])
  ELSE EnableSixAxis(IF b THEN EnableLPQ(q, TRUE) ELSE q, FALSE)
\* The fourth stage: the six axis quaternion or the low power one.
LEMMA FourthOutput ==
  ASSUME NEW q, Shape(q), Held(q), Folds(q), NEW a \in BOOLEAN, NEW b \in BOOLEAN, NEW s, NEW x,
         a => GRV \in q.enabled, b => GRV \in q.enabled,
         s = QuaternionOut(q, a, b, x)
  PROVE  /\ Moves(q, s) /\ Held(s) /\ StepsSame(q, s)
         /\ "pedQ" \in s.features <=> "pedQ" \in q.features
         /\ "lpq" \in s.features <=> ~a /\ (b \/ "lpq" \in q.features)
         /\ "six" \in s.features <=> a
         /\ "standalone" \in s.features <=> "standalone" \in q.features
         /\ ~a /\ "orientation" \notin q.features
              /\ (q.features \cap Quats # {} => GRV \in q.enabled) => Lit(s)
         /\ OthersStay(q, s)
<1>1. CASE a
  <2> DEFINE p == EnableSixAxis(EnableLPQ(q, FALSE), TRUE)
  <2>1. s = Put(p, [quatRate |-> x])
    BY <1>1 DEF QuaternionOut
  <2>2. /\ Moves(q, p) /\ p.features = (q.features \ {"lpq"}) \cup {"six"} /\ Held(p)
        /\ StepsSame(q, p)
    BY <1>1, SixFolds
  <2> HIDE DEF p
  <2>3. Shape(p)
    BY <2>2 DEF Moves, Keeps
  <2>4. Moves(p, s) /\ s.features = p.features /\ Held(s) /\ StepsSame(p, s)
    BY <2>1, <2>2, <2>3, QuatRated
  <2>5. Moves(q, s) /\ StepsSame(q, s)
    BY <2>2, <2>4, MovesTwice DEF StepsSame
  <2>6. /\ "pedQ" \in s.features <=> "pedQ" \in q.features
        /\ "standalone" \in s.features <=> "standalone" \in q.features
        /\ "lpq" \notin s.features /\ "six" \in s.features
    BY ONLY <2>2, <2>4
  <2>9. OthersStay(q, s)
    BY ONLY <2>2, <2>4 DEF OthersStay
  <2> QED  BY <2>9, <1>1, <2>4, <2>5, <2>6
<1>2. CASE ~a
  <2> DEFINE l == IF b THEN EnableLPQ(q, TRUE) ELSE q
  <2>1. s = EnableSixAxis(l, FALSE)
    BY <1>2 DEF QuaternionOut
  <2>2. l = q \/ l = EnableLPQ(q, TRUE)
    OBVIOUS
  <2>3. l.features = q.features \cup (IF b THEN {"lpq"} ELSE {})
    BY LpqOnMoves
  <2> HIDE DEF l
  <2>4. /\ Moves(q, s) /\ StepsSame(q, s) /\ s.features = l.features \ {"six"}
        /\ (Held(q) => Held(s))
        /\ "orientation" \notin q.features
             /\ (l.features \cap Quats # {} => q.enabled \cap FusedAxes # {}) => Lit(s)
    BY ONLY Shape(q), <2>1, <2>2, SixOut
  <2>5. ASSUME "orientation" \notin q.features, q.features \cap Quats # {} => GRV \in q.enabled
        PROVE  Lit(s)
    <3>1. l.features \cap Quats # {} => GRV \in q.enabled
      BY <2>3, <2>5 DEF Quats
    <3> QED  BY <2>4, <2>5, <3>1 DEF FusedAxes
  <2>9. OthersStay(q, s)
    BY ONLY <2>3, <2>4 DEF OthersStay
  <2> QED  BY <2>9, <1>2, <2>3, <2>4, <2>5
<1> QED  BY <1>1, <1>2

\* The state they start from: nothing but the batch feature is out of step.
Offers(q, mode) ==
  /\ Shape(q) /\ q.timeout = q.sys.timeout /\ Linked(q) /\ Held(q) /\ Folds(q)
  /\ "orientation" \notin q.features
  /\ "batch" \in q.features <=> mode
  /\ mode /\ "pedometer" \in q.features => "StepDetector" \in q.batch
  /\ q.features \cap Quats # {} <=> GRV \in q.enabled
  /\ "standalone" \in q.features => "pedometer" \in q.features
\* The four outputs of batch, with their conditions.
FourChoices(q, mode, a1, b1, a2, b2, a3, a4, b4, s1, s2, s3, s4) ==
  LET fm == DataOutput(q)
      grv == GRV \in q.enabled
      x == q.batchDelays[GRV]
  IN  /\ a1 \in BOOLEAN /\ b1 \in BOOLEAN /\ a2 \in BOOLEAN /\ b2 \in BOOLEAN
      /\ a3 \in BOOLEAN /\ a4 \in BOOLEAN /\ b4 \in BOOLEAN
      /\ a1 <=> mode /\ "standalone" \in fm /\ "pedometer" \in q.features
      /\ b1 <=> "pedQ" \in fm
      /\ s1 = StepsOut(q, a1, b1)
      /\ a2 <=> mode /\ "pedQ" \in fm /\ grv /\ "pedometer" \in s1.features
      /\ b2 <=> "standalone" \notin fm /\ grv
      /\ s2 = StepQuaternionOut(s1, a2, b2, x)
      /\ a3 <=> mode /\ "indicator" \in fm
      /\ s3 = EnablePedIndicator(s2, a3)
      /\ a4 <=> mode /\ "six" \in fm /\ grv
      /\ b4 <=> "pedQ" \notin fm /\ grv
      /\ s4 = QuaternionOut(s3, a4, b4, x)

WellChosen(q, mode, s) ==
  /\ Moves(q, s) /\ Held(s) /\ Steps(s) /\ Picked(s, mode) /\ Lit(s)
  /\ s.features = {} <=> q.features = {}
\* The choices of the four stages are right for the batch mode.
LEMMA ChoicesDo ==
  ASSUME NEW q, NEW mode \in BOOLEAN, Offers(q, mode),
         NEW a1, NEW b1, NEW a2, NEW b2, NEW a3, NEW a4, NEW b4,
         NEW s1, NEW s2, NEW s3, NEW s4,
         FourChoices(q, mode, a1, b1, a2, b2, a3, a4, b4, s1, s2, s3, s4)
  PROVE  WellChosen(q, mode, s4)
<1> DEFINE fm == DataOutput(q)
           grv == GRV \in q.enabled
<1>1. /\ "standalone" \in fm => "pedQ" \notin fm /\ "six" \notin fm
      /\ "pedQ" \in fm => "standalone" \notin fm /\ "six" \notin fm
      /\ "StepDetector" \in q.batch => "indicator" \in fm
  BY DEF DataOutput
<1>2. q.enabled \cap FusedAxes # {} <=> grv
  BY DEF Offers, Folds, FusedAxes
<1>3. /\ a1 <=> mode /\ "standalone" \in fm /\ "pedometer" \in q.features
      /\ b1 <=> "pedQ" \in fm
      /\ a2 <=> mode /\ "pedQ" \in fm /\ grv /\ "pedometer" \in s1.features
      /\ b2 <=> "standalone" \notin fm /\ grv
      /\ a3 <=> mode /\ "indicator" \in fm
      /\ a4 <=> mode /\ "six" \in fm /\ grv
      /\ b4 <=> "pedQ" \notin fm /\ grv
  BY DEF FourChoices
<1>4. /\ s1 = StepsOut(q, a1, b1)
      /\ s2 = StepQuaternionOut(s1, a2, b2, q.batchDelays[GRV])
      /\ s3 = EnablePedIndicator(s2, a3)
      /\ s4 = QuaternionOut(s3, a4, b4, q.batchDelays[GRV])
  BY DEF FourChoices
<1>24. /\ a1 \in BOOLEAN /\ b1 \in BOOLEAN /\ a2 \in BOOLEAN /\ b2 \in BOOLEAN
      /\ a3 \in BOOLEAN /\ a4 \in BOOLEAN /\ b4 \in BOOLEAN
  BY DEF FourChoices
<1> HIDE DEF fm, grv
<1>5. Shape(q) /\ Held(q) /\ Folds(q)
  BY DEF Offers
<1>6. /\ Moves(q, s1) /\ Held(s1)
      /\ "standalone" \in s1.features <=> a1
      /\ "lpq" \in s1.features => "lpq" \in q.features
      /\ "six" \in s1.features <=> "six" \in q.features
      /\ OthersStay(q, s1)
  BY ONLY <1>4, <1>5, <1>24, FirstOutput
<1>7. Shape(s1) /\ Held(s1) /\ Folds(s1) /\ s1.enabled = q.enabled
  BY <1>5, <1>6 DEF Moves, Keeps, Folds
<1>8. /\ Moves(s1, s2) /\ Held(s2)
      /\ "pedQ" \in s2.features <=> a2
      /\ "lpq" \in s2.features <=> ~a2 /\ (b2 \/ "lpq" \in s1.features)
      /\ "six" \in s2.features <=> "six" \in s1.features
      /\ "standalone" \in s2.features <=> "standalone" \in s1.features
      /\ ~a2 /\ "pedometer" \in s2.features => s2.sys.pedometerInt = TRUE
      /\ OthersStay(s1, s2)
  <2>1. s2 = StepQuaternionOut(s1, a2, b2, q.batchDelays[GRV])
    BY <1>4
  <2>2. SecondSo(s1, a2, b2, s2)
    BY ONLY <2>1, <1>7, <1>24, SecondOutput, Zenon
  <2> QED  BY <2>2 DEF SecondSo
<1>9. Shape(s2) /\ Held(s2) /\ Folds(s2) /\ s2.enabled = q.enabled
  BY <1>7, <1>8 DEF Moves, Keeps, Folds
<1>10. /\ Moves(s2, s3) /\ s3.features = s2.features /\ s3.sys.stepIndicator = a3
       /\ ~a3 => s3.sys.pedometerInt = s2.sys.pedometerInt
       /\ (Held(s2) => Held(s3))
  <2>1. Shape(s2) /\ a3 \in BOOLEAN /\ s3 = EnablePedIndicator(s2, a3)
    BY <1>4, <1>9, <1>24
  <2> QED  BY ONLY <2>1, IndicatorMoves
<1>11. Shape(s3) /\ Held(s3) /\ Folds(s3) /\ s3.enabled = q.enabled
  BY <1>9, <1>10 DEF Moves, Keeps, Folds
<1>12. (a4 => GRV \in s3.enabled) /\ (b4 => GRV \in s3.enabled)
  BY <1>3, <1>11 DEF grv
<1>13. /\ Moves(s3, s4) /\ Held(s4) /\ StepsSame(s3, s4)
       /\ "pedQ" \in s4.features <=> "pedQ" \in s3.features
       /\ "lpq" \in s4.features <=> ~a4 /\ (b4 \/ "lpq" \in s3.features)
       /\ "six" \in s4.features <=> a4
       /\ "standalone" \in s4.features <=> "standalone" \in s3.features
       /\ ~a4 /\ "orientation" \notin s3.features
            /\ (s3.features \cap Quats # {} => GRV \in s3.enabled) => Lit(s4)
       /\ OthersStay(s3, s4)
  <2>1. s4 = QuaternionOut(s3, a4, b4, q.batchDelays[GRV])
    BY <1>4
  <2> QED BY ONLY <2>1, <1>11, <1>12, <1>24, FourthOutput, SMTT(30)
<1>14. Moves(q, s4)
  BY <1>6, <1>8, <1>10, <1>13, MovesTwice
<1>15. s4.enabled = q.enabled
  BY <1>14 DEF Moves, Keeps
<1>16. OthersStay(q, s4) /\ OthersStay(q, s3) /\ OthersStay(q, s1)
  BY <1>6, <1>8, <1>10, <1>13 DEF OthersStay
<1>17. /\ "lpq" \in q.features => grv
       /\ "six" \in q.features => grv
  BY DEF Offers, Quats, grv
<1>18. /\ "lpq" \in s4.features => grv
       /\ "six" \in s4.features <=> a4
       /\ "pedQ" \in s4.features <=> a2
       /\ "lpq" \in s4.features => ~a2 /\ ~a4
       /\ a2 => ~a4
       /\ grv => a2 \/ a4 \/ "lpq" \in s4.features
       /\ "standalone" \in s4.features <=> a1
  BY <1>1, <1>3, <1>6, <1>8, <1>10, <1>13, <1>17
<1>19. "pedometer" \in s4.features <=> "pedometer" \in q.features
  BY <1>16 DEF OthersStay
<1>20. Picked(s4, mode)
  <2>1. \A p, r \in s4.features \cap Quats : p = r
    BY <1>18 DEF Quats
  <2>2. "lpq" \in s4.features => s4.enabled \cap FusedAxes # {}
    BY <1>2, <1>15, <1>18
  <2>3. s4.features \cap {"six", "pedQ"} # {} => GRV \in s4.enabled /\ mode
    BY <1>3, <1>15, <1>18 DEF grv
  <2>4. s4.enabled \cap FusedAxes # {} => s4.features \cap Quats # {}
    BY <1>2, <1>15, <1>18 DEF Quats
  <2>5. "standalone" \in s4.features => mode /\ "pedometer" \in s4.features
    BY <1>3, <1>18, <1>19
  <2> QED  BY <2>1, <2>2, <2>3, <2>4, <2>5 DEF Picked
<1>21. Steps(s4)
  <2>1. ASSUME "pedometer" \in s4.features
        PROVE  s4.sys.pedometerInt = TRUE \/ s4.sys.stepIndicator = TRUE
    <3>1. s4.sys.pedometerInt = s3.sys.pedometerInt /\ s4.sys.stepIndicator = s3.sys.stepIndicator
      BY <1>13 DEF StepsSame
    <3>2. CASE a3
      BY <1>10, <3>1, <3>2
    <3>3. CASE ~a3
      <4>1. ~mode
        BY <1>1, <1>3, <1>19, <2>1, <3>3 DEF Offers
      <4>2. ~a2
        BY <1>3, <4>1
      <4>3. "pedometer" \in s2.features
        BY <1>10, <1>16, <1>19, <2>1 DEF OthersStay
      <4> QED  BY <1>8, <1>10, <3>1, <3>3, <4>2, <4>3
    <3> QED  BY <3>2, <3>3
  <2> QED  BY <2>1 DEF Steps
<1>22. Lit(s4)
  <2>1. CASE mode
    <3>1. "batch" \in s4.features
      BY <1>16, <2>1 DEF OthersStay, Offers
    <3> QED  BY <3>1 DEF Lit, Wanted
  <2>2. CASE ~mode
    <3>1. "orientation" \notin s3.features
      BY <1>16 DEF OthersStay, Offers
    <3>2. ~a4 /\ ~a2
      BY <1>3, <2>2
    <3>3. /\ "pedQ" \notin s3.features
          /\ "lpq" \in s3.features => grv
          /\ "six" \in s3.features => grv
      BY <1>3, <1>6, <1>8, <1>10, <1>17, <3>2
    <3>4. s3.features \cap Quats # {} => GRV \in s3.enabled
      BY <1>11, <3>3 DEF Quats, grv
    <3> QED  BY <1>13, <3>1, <3>2, <3>4
  <2> QED  BY <2>1, <2>2
<1>23. s4.features = {} <=> q.features = {}
  <2>1. ASSUME NEW f \in s4.features
        PROVE  q.features # {}
    <3>1. CASE f \in {"lpq", "six", "pedQ"}
      <4>1. grv
        BY <1>3, <1>18, <3>1
      <4> QED  BY <4>1 DEF Offers, grv
    <3>2. CASE f = "standalone"
      BY <1>3, <1>18, <2>1, <3>2
    <3>3. CASE f \notin {"standalone", "lpq", "six", "pedQ"}
      BY <1>16, <2>1, <3>3 DEF OthersStay
    <3> QED  BY <3>1, <3>2, <3>3
  <2>2. ASSUME NEW f \in q.features
        PROVE  s4.features # {}
    <3>1. CASE f \in {"lpq", "six", "pedQ"}
      <4>1. grv
        BY <2>2, <3>1 DEF Offers, grv, Quats
      <4> QED  BY <1>18, <4>1
    <3>2. CASE f = "standalone"
      <4>1. "pedometer" \in q.features
        BY <2>2, <3>2 DEF Offers
      <4> QED  BY <1>19, <4>1
    <3>3. CASE f \notin {"standalone", "lpq", "six", "pedQ"}
      BY <1>16, <2>2, <3>3 DEF OthersStay
    <3> QED  BY <3>1, <3>2, <3>3
  <2> QED  BY <2>1, <2>2
<1> QED  BY <1>13, <1>14, <1>20, <1>21, <1>22, <1>23 DEF WellChosen

\* The outputs of batch, computed for the mode asked for.
LEMMA BatchOutputsDo ==
  ASSUME NEW q, NEW mode \in BOOLEAN, Offers(q, mode), NEW ms
  PROVE  LET g == BatchOutputs(q, mode, ms)
         IN  /\ Follows(q, g) /\ g.oldBatch = q.oldBatch
             /\ Linked(g) /\ Held(g) /\ Steps(g) /\ Picked(g, mode) /\ Lit(g)
             /\ "batch" \in g.features <=> mode
             /\ Flag(g.sys.dmp, g.features # {})
             /\ g.timeout = ms /\ g.sys.timeout = ms /\ g.sys.master = q.sys.master
<1> DEFINE fm == DataOutput(q)
           grv == GRV \in q.enabled
           x == q.batchDelays[GRV]
           a1 == mode /\ "standalone" \in fm /\ "pedometer" \in q.features
           b1 == "pedQ" \in fm
           s1 == StepsOut(q, a1, b1)
           a2 == mode /\ "pedQ" \in fm /\ grv /\ "pedometer" \in s1.features
           b2 == "standalone" \notin fm /\ grv
           s2 == StepQuaternionOut(s1, a2, b2, x)
           a3 == mode /\ "indicator" \in fm
           s3 == EnablePedIndicator(s2, a3)
           a4 == mode /\ "six" \in fm /\ grv
           b4 == "pedQ" \notin fm /\ grv
           s4 == QuaternionOut(s3, a4, b4, x)
           t == WriteBatchTimeout(s4, ms)
           on == DmpState(q)
           d == OnDmp(t, on)
           g == [d EXCEPT !.dmpState = on]
<1>1. BatchOutputs(q, mode, ms) = g
  BY DEF BatchOutputs, SetDmpState, StepsOut, StepQuaternionOut, QuaternionOut
<1>2. /\ Moves(q, s4) /\ Held(s4) /\ Steps(s4) /\ Picked(s4, mode) /\ Lit(s4)
      /\ s4.features = {} <=> q.features = {}
  <2>2. /\ a1 \in BOOLEAN /\ b1 \in BOOLEAN /\ a2 \in BOOLEAN /\ b2 \in BOOLEAN
        /\ a3 \in BOOLEAN /\ a4 \in BOOLEAN /\ b4 \in BOOLEAN
    OBVIOUS
  <2>1. FourChoices(q, mode, a1, b1, a2, b2, a3, a4, b4, s1, s2, s3, s4)
    BY <2>2 DEF FourChoices
  <2> HIDE DEF a1, b1, a2, b2, a3, a4, b4, s1, s2, s3, s4
  <2>3. WellChosen(q, mode, s4)
    BY ONLY <2>1, mode \in BOOLEAN, Offers(q, mode), ChoicesDo
  <2> QED  BY <2>3 DEF WellChosen
<1> HIDE DEF s4
<1>3. /\ on \in BOOLEAN /\ (on <=> q.features # {})
  BY DEF DmpState
<1> HIDE DEF on
<1>4. /\ Keeps(q, s4) /\ Shape(s4) /\ Linked(s4)
      /\ "batch" \in s4.features <=> mode
      /\ s4.timeout = s4.sys.timeout
  BY <1>2 DEF Offers, Moves, Keeps
<1>5. /\ SameBut(s4, t, {"timeout"}, {"timeout"}) /\ t.timeout = ms /\ t.sys.timeout = ms
  BY <1>4, WriteTimeoutDoes
<1> HIDE DEF t
<1>6. /\ Shape(t) /\ Same(s4, t) /\ t.accelBias = s4.accelBias /\ t.oldBatch = s4.oldBatch
      /\ t.sys.master = s4.sys.master
  <2>1. SameBut(s4, t, SameMembers, SameFiles)
    BY <1>5 DEF SameBut, SameMembers, SameFiles
  <2>2. Same(s4, t)
    BY <2>1, ButSame
  <2> QED  BY <1>5, <2>2 DEF SameBut, Fields, Files, Attributes
<1>7. /\ SameBut(t, d, {"dmpOn", "accelBias"}, {"dmp", "eventInt"})
      /\ d.sys.dmp = on /\ (d.accelBias => t.accelBias)
  <2>1. CASE on = TRUE
    <3>1. d = OnDmp(t, TRUE)
      BY <2>1
    <3> HIDE DEF d
    <3>2. SameBut(t, d, {"dmpOn"}, {"dmp", "eventInt"}) /\ d.sys.dmp = TRUE
      BY <1>6, <3>1, OnDmpOn
    <3> QED  BY <2>1, <3>2 DEF SameBut, Fields
  <2>2. CASE on = FALSE
    <3>1. d = OnDmp(t, FALSE)
      BY <2>2
    <3> HIDE DEF d
    <3>2. /\ SameBut(t, d, {"dmpOn", "accelBias"}, {"dmp", "eventInt"}) /\ d.sys.dmp = FALSE
          /\ d.accelBias = FALSE
      BY <1>6, <3>1, OnDmpOff
    <3> QED  BY <2>2, <3>2
  <2> QED  BY <1>3, <2>1, <2>2
<1> HIDE DEF d
<1>8. SameBut(d, g, {"dmpState"}, {})
  <2>1. Shape(d)
    BY <1>7 DEF SameBut
  <2> QED  BY <2>1 DEF Shape, SameBut, Fields
<1> HIDE DEF g
<1>9. /\ Same(t, g) /\ g.oldBatch = t.oldBatch /\ g.timeout = t.timeout
      /\ g.sys.timeout = t.sys.timeout /\ g.sys.master = t.sys.master
      /\ g.sys.dmp = on /\ (g.accelBias => t.accelBias)
  <2>1. SameBut(t, g, SameMembers, SameFiles)
    BY <1>7, <1>8 DEF SameBut, SameMembers, SameFiles
  <2>2. Same(t, g)
    BY <2>1, ButSame
  <2> QED  BY <1>7, <1>8, <2>2 DEF SameBut, Fields, Files, Attributes
<1>10. Same(s4, g)
  BY <1>6, <1>9, SameTwice
<1>11. Follows(q, g)
  <2>1. Follows(q, s4)
    BY <1>2, MovesFollow
  <2>2. Follows(s4, g)
    BY <1>6, <1>9, <1>10, SameFollow
  <2> QED  BY <2>1, <2>2, FollowsTwice
<1>12. Linked(g) /\ Held(g) /\ Steps(g) /\ Picked(g, mode) /\ Lit(g)
  BY <1>2, <1>4, <1>10, SameGood
<1>13. g.features = s4.features
  BY <1>10 DEF Same
<1>14. Flag(g.sys.dmp, g.features # {})
  BY <1>2, <1>3, <1>9, <1>13 DEF Flag
<1>15. g.oldBatch = q.oldBatch /\ g.sys.master = q.sys.master
  BY <1>4, <1>6, <1>9 DEF Keeps
<1> QED  BY <1>1, <1>4, <1>5, <1>9, <1>11, <1>12, <1>13, <1>14, <1>15
-----------------------------------------------------------------------------
(* What batch is asked for *)

Newly(h, what, t) == IF t > 0 THEN h.batch \cup {what} ELSE h.batch \ {what}
AskedMembers == {"features", "batch", "delays", "batchDelays", "timeouts", "firstBatch", "enableCalled"}
AskedSo(h, what, t, q) ==
  /\ SameBut(h, q, AskedMembers, {})
  /\ q.batch = Newly(h, what, t)
  /\ q.features = IF AllBatched(h, Newly(h, what, t)) THEN h.features \cup {"batch"}
                  ELSE h.features \ {"batch"}
  /\ q.timeouts = [h.timeouts EXCEPT ![what] = IF t > 0 THEN t ELSE NoTimeout]
\* What batch records of a sensor.
LEMMA AskedIs ==
  ASSUME NEW h, Shape(h), NEW what, NEW p, NEW t
  PROVE  AskedSo(h, what, t, Asked(h, what, p, t))
<1> DEFINE n == IF t > 0 THEN h.batch \cup {what} ELSE h.batch \ {what}
           f == WithBatchFeature(h, n)
           q == [f EXCEPT !.batch = IF t > 0 THEN @ \cup {what} ELSE @ \ {what}, !.delays[what] = p,
                          !.batchDelays[what] = IF t > 0 THEN p ELSE SlowestPeriod,
                          !.timeouts[what] = IF t > 0 THEN t ELSE NoTimeout,
                          !.firstBatch = FALSE, !.enableCalled = FALSE]
<1>1. Asked(h, what, p, t) = q
  BY DEF Asked
<1>2. n = Newly(h, what, t)
  BY DEF Newly
<1>3. /\ SameBut(h, f, {"features"}, {})
      /\ f.features = IF AllBatched(h, n) THEN h.features \cup {"batch"} ELSE h.features \ {"batch"}
  BY FeatureSet DEF WithBatchFeature
<1> HIDE DEF f
<1>4. f.batch = h.batch /\ f.timeouts = h.timeouts /\ DOMAIN f = Fields /\ Shape(f)
  BY <1>3 DEF SameBut, Fields, Shape
<1>5. q.batch = n
  BY <1>4 DEF Fields
<1>6. q.timeouts = [h.timeouts EXCEPT ![what] = IF t > 0 THEN t ELSE NoTimeout]
  BY <1>4 DEF Fields
<1>7. q.features = f.features /\ DOMAIN q = Fields /\ q.sys = f.sys
  BY <1>4 DEF Fields
<1>8. \A m \in Fields : m \notin AskedMembers => q[m] = f[m]
  BY <1>4 DEF Fields, AskedMembers
<1> HIDE DEF q
<1>9. SameBut(f, q, AskedMembers, {})
  BY <1>4, <1>7, <1>8 DEF SameBut, Shape
<1>10. SameBut(h, q, AskedMembers, {})
  BY <1>3, <1>9 DEF SameBut, AskedMembers
<1> HIDE DEF n
<1> QED  BY <1>1, <1>2, <1>3, <1>5, <1>6, <1>7, <1>10 DEF AskedSo

\* The mode is that of batching all that is enabled.
LEMMA NewMode ==
  ASSUME NEW h, NEW b
  PROVE  /\ BatchMode(h, b) <=> AllBatched(h, b)
         /\ BatchMode(h, b) \in BOOLEAN
         /\ BatchMode(h, b) => /\ h.enabled \subseteq b
                               /\ "pedometer" \in h.features => "StepDetector" \in b
BY DEF BatchMode, AllBatched

\* The state before the driver is told.
Pending(h, q, mode) ==
  /\ Shape(q) /\ Timed(q) /\ q.batch \subseteq Batchable
  /\ q.enabled = h.enabled /\ q.dmpSensors = h.dmpSensors /\ q.oldBatch = h.oldBatch
  /\ q.timeout = h.timeout /\ q.mask = h.mask /\ q.accelBias = h.accelBias
  /\ \A a \in Files : q.sys[a] = h.sys[a]
  /\ q.features = IF mode THEN h.features \cup {"batch"} ELSE h.features \ {"batch"}
  /\ mode => /\ q.enabled \subseteq q.batch
             /\ "pedometer" \in q.features => "StepDetector" \in q.batch
\* All of it is right but what is written for the mode.
LEMMA AskedPending ==
  ASSUME NEW h, ConfigInv(h), NEW what \in Sensors, NEW p, NEW t \in Nat, t > 0 => what \in Batchable,
         t = 0 \/ t >= Millisecond
  PROVE  LET q == Asked(h, what, p, t)
             mode == BatchMode(h, q.batch)
         IN  mode \in BOOLEAN /\ Pending(h, q, mode)
<1> DEFINE q == Asked(h, what, p, t)
           mode == BatchMode(h, q.batch)
<1>1. Shape(h) /\ Timed(h) /\ h.batch \subseteq Batchable
  BY DEF ConfigInv, Sound, Settled
<1> HIDE DEF q
<1>2. /\ SameBut(h, q, AskedMembers, {})
      /\ q.batch = Newly(h, what, t)
      /\ q.features = IF AllBatched(h, Newly(h, what, t)) THEN h.features \cup {"batch"}
                      ELSE h.features \ {"batch"}
      /\ q.timeouts = [h.timeouts EXCEPT ![what] = IF t > 0 THEN t ELSE NoTimeout]
  <2>1. AskedSo(h, what, t, q)
    BY ONLY <1>1, AskedIs, Zenon DEF q
  <2> QED  BY <2>1 DEF AskedSo
<1>3. /\ mode \in BOOLEAN /\ (mode <=> AllBatched(h, q.batch))
      /\ mode => /\ h.enabled \subseteq q.batch
                 /\ "pedometer" \in h.features => "StepDetector" \in q.batch
  BY NewMode
<1> HIDE DEF mode
<1>4. /\ Shape(q) /\ q.enabled = h.enabled /\ q.dmpSensors = h.dmpSensors
      /\ q.oldBatch = h.oldBatch /\ q.timeout = h.timeout /\ q.mask = h.mask
      /\ q.accelBias = h.accelBias /\ \A a \in Files : q.sys[a] = h.sys[a]
  BY <1>2 DEF SameBut, Fields, AskedMembers
<1>5. q.batch \subseteq Sensors /\ q.batch \subseteq Batchable
  BY <1>1, <1>2 DEF Timed, Newly
<1>6. q.timeouts \in [Sensors -> {n \in Nat : n >= Millisecond}]
  BY <1>1, <1>2, ConfigAssumption DEF Timed
<1>7. q.timeout = q.sys.timeout
  BY <1>1, <1>4 DEF Timed, Files
<1>8. q.features = IF mode THEN h.features \cup {"batch"} ELSE h.features \ {"batch"}
  BY <1>2, <1>3
<1>9. Timed(q)
  BY <1>5, <1>6, <1>7 DEF Timed
<1>10. "pedometer" \in q.features <=> "pedometer" \in h.features
  BY <1>8
<1>11. mode \in BOOLEAN /\ Pending(h, q, mode)
  BY <1>3, <1>4, <1>5, <1>8, <1>9, <1>10 DEF Pending
<1> QED  BY <1>11 DEF mode, q

\* Nothing to tell the driver: the mode stays.
LEMMA PendingCarried ==
  ASSUME NEW h, ConfigInv(h), NEW q, NEW mode \in BOOLEAN, Pending(h, q, mode)
  PROVE  Carried(q) /\ Linked(q) /\ Held(q) /\ (h.enabled # {} => ~q.sys.eventInt)
<1>1. /\ Shape(q) /\ q.enabled = h.enabled /\ q.dmpSensors = h.dmpSensors /\ q.mask = h.mask
      /\ q.accelBias = h.accelBias
      /\ q.features = IF mode THEN h.features \cup {"batch"} ELSE h.features \ {"batch"}
  BY DEF Pending
<1>2. /\ q.sys.smd = h.sys.smd /\ q.sys.pedometer = h.sys.pedometer
      /\ q.sys.compass = h.sys.compass /\ q.sys.pressure = h.sys.pressure
      /\ q.sys.threeQ = h.sys.threeQ /\ q.sys.sixQ = h.sys.sixQ /\ q.sys.pedQ = h.sys.pedQ
      /\ q.sys.stepDetector = h.sys.stepDetector /\ q.sys.accel = h.sys.accel
      /\ q.sys.eventInt = h.sys.eventInt
  <2>1. \A a \in Files : q.sys[a] = h.sys[a]
    BY DEF Pending
  <2> QED  BY <2>1 DEF Files, Attributes
<1>3. /\ Carried(h) /\ Linked(h) /\ Held(h) /\ Rested(h)
  BY DEF ConfigInv, Sound, Settled
<1>4. Own(q)
  <2>1. /\ "smd" \in q.features <=> "smd" \in h.features
        /\ "pedometer" \in q.features <=> "pedometer" \in h.features
        /\ "pedometerStep" \in q.features <=> "pedometerStep" \in h.features
    BY <1>1
  <2> QED  BY <1>1, <1>2, <1>3, <2>1 DEF Carried, Own
<1>5. Linked(q)
  <2>1. /\ "lpq" \in q.features <=> "lpq" \in h.features
        /\ "six" \in q.features <=> "six" \in h.features
        /\ "pedQ" \in q.features <=> "pedQ" \in h.features
        /\ "standalone" \in q.features <=> "standalone" \in h.features
    BY <1>1
  <2> QED  BY <1>2, <1>3, <2>1 DEF Linked
<1>6. Masked(q) /\ Slow(q)
  BY <1>1, <1>2, <1>3 DEF Carried, Masked, Slow
<1>7. Carried(q)
  BY <1>1, <1>3, <1>4, <1>6 DEF Carried
<1>8. Held(q)
  <2>1. q.features \cap Quats = h.features \cap Quats
    BY <1>1 DEF Quats
  <2> QED  BY <1>1, <1>2, <1>3, <2>1 DEF Held, Data
<1> QED  BY <1>2, <1>3, <1>5, <1>7, <1>8 DEF Rested

\* Nothing is to be written when the mode does not change.
LEMMA PendingStill ==
  ASSUME NEW h, ConfigInv(h), NEW q, NEW mode \in BOOLEAN, Pending(h, q, mode), h.oldBatch = mode
  PROVE  ConfigInv(q)
<1>1. /\ Shape(q) /\ Timed(q) /\ q.batch \subseteq Batchable
      /\ q.enabled = h.enabled /\ q.oldBatch = h.oldBatch /\ q.timeout = h.timeout
      /\ q.mask = h.mask
      /\ q.features = IF mode THEN h.features \cup {"batch"} ELSE h.features \ {"batch"}
      /\ mode => /\ q.enabled \subseteq q.batch
                 /\ "pedometer" \in q.features => "StepDetector" \in q.batch
  BY DEF Pending
<1>2. /\ StepsSame(h, q) /\ q.sys.dmp = h.sys.dmp /\ q.sys.master = h.sys.master
      /\ q.sys.gyro = h.sys.gyro /\ q.sys.accel = h.sys.accel
  <2>1. \A a \in Files : q.sys[a] = h.sys[a]
    BY DEF Pending
  <2> QED  BY <2>1 DEF Files, Attributes, StepsSame
<1>3. /\ Settled(h) /\ Picked(h, h.oldBatch) /\ Steps(h) /\ Lit(h) /\ Rested(h)
      /\ (h.timeout > 0 <=> h.oldBatch)
  BY DEF ConfigInv, Sound
<1>4. q.features = h.features
  BY <1>1, <1>3 DEF Settled
<1>5. Carried(q) /\ Linked(q) /\ Held(q) /\ (h.enabled # {} => ~q.sys.eventInt)
  BY PendingCarried
<1>6. Settled(q)
  BY <1>1, <1>2, <1>3, <1>4, <1>5 DEF Settled
<1>7. Batching(q) /\ Picked(q, q.oldBatch) /\ Steps(q) /\ Lit(q) /\ (q.timeout > 0 <=> q.oldBatch)
  BY <1>1, <1>2, <1>3, <1>4 DEF Batching, Picked, Steps, StepsSame, Lit, Wanted
<1>8. Rested(q)
  BY <1>1, <1>2, <1>3, <1>4, <1>5 DEF Rested
<1> QED  BY <1>5, <1>6, <1>7, <1>8 DEF ConfigInv, Sound

\* A change of the mode is noticed.
LEMMA DiffersIfNew ==
  ASSUME NEW h, ConfigInv(h), NEW q, NEW mode \in BOOLEAN, Pending(h, q, mode),
         ~Differs(h, q, mode, BatchTimeout(q, mode))
  PROVE  h.oldBatch = mode
<1> DEFINE ms == BatchTimeout(q, mode)
<1>1. Timed(q) /\ q.timeout = h.timeout
  BY DEF Pending
<1>2. ms \in Nat /\ (ms > 0 <=> mode)
  BY <1>1, TimeoutPositive
<1>3. h.oldBatch # mode => ms = q.timeout
  BY DEF Differs
<1> HIDE DEF ms
<1>4. h.oldBatch \in BOOLEAN /\ (h.timeout > 0 <=> h.oldBatch)
  BY DEF ConfigInv, Sound, Settled
<1> QED  BY <1>1, <1>2, <1>3, <1>4

\* A changed or continued batch.
LEMMA PendingOffers ==
  ASSUME NEW h, ConfigInv(h), NEW q, NEW mode \in BOOLEAN, Pending(h, q, mode), h.oldBatch \/ mode
  PROVE  Offers(q, mode)
<1>1. /\ Shape(q) /\ Timed(q) /\ q.batch \subseteq Batchable /\ q.enabled = h.enabled
      /\ q.features = IF mode THEN h.features \cup {"batch"} ELSE h.features \ {"batch"}
      /\ mode => /\ q.enabled \subseteq q.batch
                 /\ "pedometer" \in q.features => "StepDetector" \in q.batch
  BY DEF Pending
<1>2. Settled(h) /\ Batching(h) /\ Picked(h, h.oldBatch)
  BY DEF ConfigInv, Sound
<1>3. q.enabled \subseteq Batchable
  BY <1>1, <1>2 DEF Settled, Batching
<1>4. Folds(q)
  BY <1>3 DEF Folds, Batchable, NineAxes, GMRV, Hardware, Gyros, Compasses, GRV
<1>5. q.features \cap Quats = h.features \cap Quats
  BY <1>1 DEF Quats
<1>6. q.enabled \cap FusedAxes # {} <=> GRV \in q.enabled
  BY <1>4 DEF Folds, FusedAxes
<1>7. q.features \cap Quats # {} <=> GRV \in q.enabled
  <2>1. h.features \cap Quats # {} => h.enabled \cap FusedAxes # {}
    BY <1>2 DEF Picked, Quats, FusedAxes
  <2>2. h.enabled \cap FusedAxes # {} => h.features \cap Quats # {}
    BY <1>2 DEF Picked
  <2> QED  BY <1>1, <1>5, <1>6, <2>1, <2>2
<1>8. /\ "standalone" \in q.features => "pedometer" \in q.features
      /\ "orientation" \notin q.features
      /\ "batch" \in q.features <=> mode
  BY <1>1, <1>2 DEF Settled, Picked
<1>9. Linked(q) /\ Held(q)
  BY PendingCarried
<1> QED  BY <1>1, <1>4, <1>7, <1>8, <1>9 DEF Offers, Timed

\* The outputs written for the new mode.
LEMMA BatchOutputsKeep ==
  ASSUME NEW h, ConfigInv(h), NEW q, NEW mode \in BOOLEAN, Pending(h, q, mode), h.oldBatch \/ mode
  PROVE  LET m == MasterEnable(q, FALSE)
             o == BatchOutputs([m EXCEPT !.oldBatch = mode], mode, BatchTimeout(q, mode))
         IN  Sound(o) /\ Carried(o) /\ o.enabled = h.enabled /\ o.sys.master = FALSE
<1> DEFINE m == MasterEnable(q, FALSE)
           n == [m EXCEPT !.oldBatch = mode]
           ms == BatchTimeout(q, mode)
           o == BatchOutputs(n, mode, ms)
<1>1. /\ Shape(q) /\ Timed(q) /\ q.batch \subseteq Batchable /\ q.enabled = h.enabled
      /\ mode => /\ q.enabled \subseteq q.batch
                 /\ "pedometer" \in q.features => "StepDetector" \in q.batch
  BY DEF Pending
<1>2. Carried(q)
  BY PendingCarried
<1>3. Offers(q, mode)
  BY PendingOffers
<1>4. SameBut(q, m, {}, {"master"}) /\ m.sys.master = FALSE
  BY <1>1, MasterDoes
<1> HIDE DEF m
<1>5. SameBut(m, n, {"oldBatch"}, {}) /\ n.oldBatch = mode
  <2>1. Shape(m)
    BY <1>4 DEF SameBut
  <2> QED  BY <2>1, FieldSet DEF Fields
<1> HIDE DEF n
<1>6. /\ Shape(n) /\ n.enabled = q.enabled /\ n.batch = q.batch /\ n.timeouts = q.timeouts
      /\ n.timeout = q.timeout /\ n.features = q.features /\ n.mask = q.mask
      /\ n.accelBias = q.accelBias
  BY <1>4, <1>5 DEF SameBut, Fields
<1>7. /\ n.sys.threeQ = q.sys.threeQ /\ n.sys.sixQ = q.sys.sixQ /\ n.sys.pedQ = q.sys.pedQ
      /\ n.sys.stepDetector = q.sys.stepDetector /\ n.sys.accel = q.sys.accel
      /\ n.sys.timeout = q.sys.timeout /\ n.sys.master = FALSE
  BY <1>4, <1>5 DEF SameBut, Files, Attributes
<1>8. Offers(n, mode)
  BY <1>3, <1>6, <1>7 DEF Offers, Linked, Held, Data, Folds
<1>9. Same(q, n)
  <2>1. SameBut(q, n, SameMembers, SameFiles)
    BY <1>4, <1>5 DEF SameBut, SameMembers, SameFiles
  <2> QED  BY <2>1, ButSame
<1>10. Carried(n)
  BY <1>2, <1>6, <1>9, SameCarried
<1>11. ms \in Nat /\ (ms > 0 <=> mode)
  BY <1>1, TimeoutPositive
<1> HIDE DEF ms
<1>12. /\ Follows(n, o) /\ o.oldBatch = n.oldBatch
       /\ Linked(o) /\ Held(o) /\ Steps(o) /\ Picked(o, mode) /\ Lit(o)
       /\ "batch" \in o.features <=> mode
       /\ Flag(o.sys.dmp, o.features # {})
       /\ o.timeout = ms /\ o.sys.timeout = ms /\ o.sys.master = n.sys.master
  BY <1>8, BatchOutputsDo
<1> HIDE DEF o
<1>13. /\ Shape(o) /\ o.enabled = q.enabled /\ o.batch = q.batch /\ o.timeouts = q.timeouts
       /\ "orientation" \in o.features <=> "orientation" \in q.features
       /\ "pedometer" \in o.features <=> "pedometer" \in q.features
  BY <1>6, <1>12 DEF Follows
<1>14. Carried(o)
  BY <1>10, <1>12, FollowsCarried
<1>15. Timed(o)
  BY <1>1, <1>12, <1>13 DEF Timed
<1>16. Settled(o)
  BY <1>1, <1>3, <1>5, <1>11, <1>12, <1>13, <1>15 DEF Settled, Offers
<1>17. Batching(o)
  BY <1>1, <1>5, <1>12, <1>13 DEF Batching
<1>18. Sound(o) /\ Carried(o) /\ o.enabled = h.enabled /\ o.sys.master = FALSE
  BY <1>1, <1>5, <1>7, <1>11, <1>12, <1>13, <1>14, <1>16, <1>17 DEF Sound
<1> QED  BY <1>18 DEF o, n, m, ms

\* All that batch writes.
LEMMA BatchWritesKeep ==
  ASSUME NEW h, ConfigInv(h), NEW q, NEW mode \in BOOLEAN, Pending(h, q, mode)
  PROVE  ConfigInv(BatchWrites(h, q, mode, BatchTimeout(q, mode)))
<1> DEFINE ms == BatchTimeout(q, mode)
           m == MasterEnable(q, FALSE)
           o == IF h.oldBatch # mode \/ mode THEN BatchOutputs([m EXCEPT !.oldBatch = mode], mode, ms)
                ELSE m
           r == IF mode THEN SetBatchRates(o) ELSE ResetRates(o)
           int == ~DataInterrupt(q)
           data == DataInterrupt(q)
           e == Put(r, [eventInt |-> int])
           i == [e EXCEPT !.dataInt = data]
           g == IF h.enabled # {} \/ i.features # {} THEN MasterEnable(i, TRUE) ELSE i
<1>1. BatchWrites(h, q, mode, ms) = g
  BY DEF BatchWrites
<1>2. q.enabled = h.enabled /\ h.oldBatch \in BOOLEAN
  BY DEF Pending, ConfigInv, Sound, Settled
<1>3. Sound(o) /\ Carried(o) /\ o.enabled = h.enabled /\ o.sys.master = FALSE
  <2>1. CASE h.oldBatch \/ mode
    <3>1. o = BatchOutputs([m EXCEPT !.oldBatch = mode], mode, ms)
      BY <1>2, <2>1
    <3> HIDE DEF o
    <3> QED  BY <2>1, <3>1, BatchOutputsKeep
  <2>2. CASE ~h.oldBatch /\ ~mode
    <3>1. o = m /\ h.oldBatch = mode
      BY <1>2, <2>2
    <3>2. Sound(q) /\ Carried(q)
      BY <3>1, PendingStill DEF ConfigInv
    <3> HIDE DEF o
    <3>3. Sound(m) /\ Carried(m) /\ m.sys.master = FALSE /\ m.enabled = q.enabled
      BY <3>2, MasterSound
    <3> QED  BY <1>2, <3>1, <3>3
  <2> QED  BY <2>1, <2>2
<1> HIDE DEF o
<1>4. Quiet(o, r)
  <2>1. Shape(o)
    BY <1>3 DEF Sound, Settled
  <2> QED  BY <2>1, SetBatchRatesQuiet, ResetRatesQuiet
<1> HIDE DEF r
<1>5. /\ Sound(r) /\ Carried(r) /\ r.sys.master = FALSE /\ r.enabled = h.enabled
  BY <1>3, <1>4, QuietSound
<1>6. h.enabled # {} => int = FALSE
  BY <1>2 DEF DataInterrupt
<1> HIDE DEF int, data
<1>7. Shape(r)
  BY <1>5 DEF Sound, Settled
<1>8. SameBut(r, e, {}, {"eventInt"}) /\ e.sys.eventInt = int
  BY <1>7, EventDoes
<1> HIDE DEF e
<1>9. SameBut(e, i, {"dataInt"}, {})
  <2>1. Shape(e)
    BY <1>8 DEF SameBut
  <2> QED  BY <2>1 DEF SameBut, Shape, Fields
<1> HIDE DEF i
<1>10. SameBut(r, i, {"dataInt"}, {"eventInt"})
  BY <1>8, <1>9 DEF SameBut
<1>11. Sound(i) /\ Carried(i)
  <2>1. SameBut(r, i, RateMembers, Rates \cup {"master", "eventInt"})
    BY <1>10, Widen DEF RateMembers
  <2> QED  BY <1>5, <2>1, ButAlike, AlikeSound
<1>12. i.enabled = h.enabled /\ i.sys.master = FALSE /\ i.sys.eventInt = int
  BY <1>5, <1>8, <1>9, <1>10 DEF SameBut, Fields, Files, Attributes
<1>13. ConfigInv(g)
  <2>1. i.enabled # {} => ~i.sys.eventInt
    BY <1>6, <1>12
  <2>2. \/ i.enabled \cup i.features # {} /\ g = MasterEnable(i, TRUE)
        \/ Flag(i.sys.master, i.enabled \cup i.features # {}) /\ g = i
    BY <1>12 DEF Flag
  <2> HIDE DEF g
  <2> QED  BY <1>11, <2>1, <2>2, MasterRests
<1> HIDE DEF g
<1> QED  BY <1>1, <1>13

\* batch, whether it tells the driver or not.
LEMMA BatchKeeps ==
  ASSUME NEW h, ConfigInv(h), NEW what \in Sensors, NEW p, NEW t \in Nat,
         t > 0 => what \in Batchable, t = 0 \/ t >= Millisecond, NEW g \in BatchCalls(h, what, p, t)
  PROVE  ConfigInv(g)
<1> DEFINE q == Asked(h, what, p, t)
           mode == BatchMode(h, q.batch)
           ms == BatchTimeout(q, mode)
<1>1. \/ g = BatchWrites(h, q, mode, ms)
      \/ ~Differs(h, q, mode, ms) /\ g = q
  BY DEF BatchCalls
<1>2. mode \in BOOLEAN /\ Pending(h, q, mode)
  BY AskedPending
<1> HIDE DEF mode, q
<1>3. CASE g = BatchWrites(h, q, mode, ms)
  BY <1>2, <1>3, BatchWritesKeep
<1>4. CASE ~Differs(h, q, mode, ms) /\ g = q
  <2>1. h.oldBatch = mode
    BY <1>2, <1>4, DiffersIfNew
  <2> QED  BY <1>2, <1>4, <2>1, PendingStill
<1> QED  BY <1>1, <1>3, <1>4
-----------------------------------------------------------------------------
(* The invariant of the configuration *)

\* Nothing is enabled at first.
LEMMA ConfigStart ==
  HalInit => ConfigInv(hal)
<1> SUFFICES ASSUME HalInit PROVE ConfigInv(hal)
  OBVIOUS
<1>1. /\ DOMAIN hal = Fields
      /\ hal.enabled = {} /\ hal.batch = {} /\ hal.oldBatch = FALSE /\ hal.features = {}
      /\ hal.mask = {} /\ hal.dmpSensors = {} /\ hal.timeout = 0 /\ hal.accelBias = FALSE
      /\ hal.timeouts = [s \in Sensors |-> NoTimeout]
      /\ hal.sys = [a \in Files |-> IF a \in Rates THEN SlowestPeriod
                                    ELSE IF a = "timeout" THEN 0 ELSE FALSE]
  BY DEF HalInit, Fields
<1>2. /\ hal.sys.timeout = 0
      /\ \A a \in Attributes : hal.sys[a] = FALSE
      /\ DOMAIN hal.sys = Files
  BY <1>1 DEF Files, Rates, Attributes
<1>3. /\ hal.sys.smd = FALSE /\ hal.sys.pedometer = FALSE /\ hal.sys.compass = FALSE
      /\ hal.sys.pressure = FALSE /\ hal.sys.threeQ = FALSE /\ hal.sys.sixQ = FALSE
      /\ hal.sys.pedQ = FALSE /\ hal.sys.stepDetector = FALSE /\ hal.sys.dmp = FALSE
      /\ hal.sys.gyro = FALSE /\ hal.sys.accel = FALSE /\ hal.sys.master = FALSE
  BY <1>2 DEF Attributes
<1>4. Carried(hal)
  BY <1>1, <1>3 DEF Carried, Own, Masked, Slow, Flag
<1>5. Settled(hal)
  <2>1. hal.timeouts \in [Sensors -> {n \in Nat : n >= Millisecond}]
    BY <1>1, ConfigAssumption
  <2>2. Timed(hal)
    BY <1>1, <1>2, <2>1 DEF Timed
  <2>3. Linked(hal) /\ Flag(hal.sys.dmp, hal.features # {})
    BY <1>1, <1>3 DEF Linked, Flag
  <2>4. Shape(hal)
    BY <1>1, <1>2 DEF Shape
  <2>8. hal.oldBatch = FALSE /\ hal.timeout = 0
    BY <1>1
  <2>5. hal.oldBatch \in BOOLEAN
    BY ONLY <2>8, Zenon
  <2>9. hal.timeout \in Nat
    BY ONLY <2>8, SMT
  <2>6. hal.batch \subseteq Batchable /\ "orientation" \notin hal.features
    BY <1>1
  <2>7. ("batch" \in hal.features <=> hal.oldBatch) /\ (~hal.oldBatch => hal.timeout = 0)
    BY <1>1
  <2> QED  BY <2>2, <2>3, <2>4, <2>5, <2>6, <2>7, <2>9 DEF Settled
<1>6. Batching(hal) /\ Picked(hal, hal.oldBatch) /\ Steps(hal) /\ Held(hal) /\ Lit(hal)
  BY <1>1, <1>3 DEF Batching, Picked, Steps, Held, Data, Lit
<1>7. Rested(hal)
  BY <1>1, <1>3 DEF Rested, Flag
<1> QED  BY <1>1, <1>4, <1>5, <1>6, <1>7 DEF ConfigInv, Sound

\* Every call keeps it, if the driver can be told the timeout asked for.
LEMMA ConfigStep ==
  TimeoutsOfAMillisecond
    => (ConfigInv(hal) /\ [ConfigSteps(Sensors)]_hal => ConfigInv(hal)')
<1> SUFFICES ASSUME TimeoutsOfAMillisecond, ConfigInv(hal), [ConfigSteps(Sensors)]_hal PROVE ConfigInv(hal')
  OBVIOUS
<1>1. ASSUME NEW s \in Sensors, NEW en \in BOOLEAN, Enable(s, en)
      PROVE  ConfigInv(hal')
  <2>1. CASE s \in DmpSensors
    BY <1>1, <2>1, DmpSensorKeeps DEF Enable
  <2>2. CASE s \notin DmpSensors
    BY <1>1, <2>2, EnableKeeps DEF Enable
  <2> QED  BY <2>1, <2>2
<1>2. ASSUME NEW s \in Sensors, NEW p \in Periods, Delay(s, p)
      PROVE  ConfigInv(hal')
  BY <1>2, DelayKeeps DEF Delay
<1>3. ASSUME NEW s \in Sensors, NEW p \in Periods, NEW t \in Timeouts, Batch(s, p, t)
      PROVE  ConfigInv(hal')
  <2>1. t \in Nat /\ (t = 0 \/ t >= Millisecond)
    BY ConfigAssumption DEF TimeoutsOfAMillisecond
  <2>2. (t > 0 => s \in Batchable) /\ hal' \in BatchCalls(hal, s, p, t)
    BY <1>3 DEF Batch
  <2> QED  BY <2>1, <2>2, BatchKeeps
<1>4. CASE SignificantMotion
  BY <1>4, MotionKeeps DEF SignificantMotion
<1>5. CASE NewAccelBias
  BY <1>5, BiasKeeps DEF NewAccelBias
<1>6. CASE UNCHANGED hal
  BY <1>6
<1> QED  BY <1>1, <1>2, <1>3, <1>4, <1>5, <1>6 DEF ConfigSteps

\* In every state the HAL can reach, after any sequence of calls with batch
\* timeouts of a millisecond or more (calcBatchTimeout divides by 1000000).
THEOREM ConfigHolds ==
  TimeoutsOfAMillisecond => (ConfigSpec => []ConfigInv(hal))
<1> SUFFICES ASSUME TimeoutsOfAMillisecond PROVE ConfigSpec => []ConfigInv(hal)
  OBVIOUS
<1>1. ConfigInv(hal) /\ [ConfigSteps(Sensors)]_hal => ConfigInv(hal)'
  BY ConfigStep
<1> QED  BY ConfigStart, <1>1, PTL DEF ConfigSpec

\* The invariant says that the master switch follows the use.
LEMMA SaysMaster ==
  ConfigInv(hal) => MasterFollowsUse
BY DEF ConfigInv, Rested, Flag, MasterFollowsUse
\* A flag is the truth of what it stands for.
LEMMA FlagIs ==
  ASSUME NEW x, NEW e, NEW S, Flag(x, e \in S)
  PROVE  x = (e \in S)
<1>1. x \in BOOLEAN /\ (x <=> e \in S)
  BY DEF Flag
<1>2. CASE e \in S
  <2>1. x = TRUE
    BY <1>1, <1>2
  <2>2. (e \in S) = TRUE
    BY <1>2
  <2> QED  BY <2>1, <2>2
<1>3. CASE e \notin S
  <2>1. x = FALSE
    BY <1>1, <1>3
  <2>2. (e \in S) = FALSE
    BY <1>3
  <2> QED  BY <2>1, <2>2
<1> QED  BY <1>2, <1>3
\* It says that the features work.
LEMMA SaysFeatures ==
  ConfigInv(hal) => FeaturesWork
<1> SUFFICES ASSUME ConfigInv(hal) PROVE FeaturesWork
  OBVIOUS
<1>1. Settled(hal) /\ Own(hal) /\ Steps(hal)
  BY DEF ConfigInv, Sound, Carried
<1>2. /\ hal.sys.dmp = (hal.features # {})
      /\ hal.sys.threeQ = ("lpq" \in hal.features) /\ hal.sys.sixQ = ("six" \in hal.features)
      /\ hal.sys.pedQ = ("pedQ" \in hal.features)
      /\ hal.sys.stepDetector = ("standalone" \in hal.features)
      /\ hal.sys.smd = ("smd" \in hal.features)
  <2>1. hal.sys.dmp = (hal.features # {})
    BY <1>1 DEF Settled, Flag
  <2>2. Linked(hal)
    BY <1>1 DEF Settled
  <2>3. hal.sys.threeQ = ("lpq" \in hal.features)
    <3>1. Flag(hal.sys.threeQ, "lpq" \in hal.features)
      BY <2>2 DEF Linked
    <3> QED  BY <3>1, FlagIs
  <2>4. hal.sys.sixQ = ("six" \in hal.features)
    <3>1. Flag(hal.sys.sixQ, "six" \in hal.features)
      BY <2>2 DEF Linked
    <3> QED  BY <3>1, FlagIs
  <2>5. hal.sys.pedQ = ("pedQ" \in hal.features)
    <3>1. Flag(hal.sys.pedQ, "pedQ" \in hal.features)
      BY <2>2 DEF Linked
    <3> QED  BY <3>1, FlagIs
  <2>6. hal.sys.stepDetector = ("standalone" \in hal.features)
    <3>1. Flag(hal.sys.stepDetector, "standalone" \in hal.features)
      BY <2>2 DEF Linked
    <3> QED  BY <3>1, FlagIs
  <2>7. hal.sys.smd = ("smd" \in hal.features)
    <3>1. Flag(hal.sys.smd, "smd" \in hal.features)
      BY <1>1 DEF Own
    <3> QED  BY <3>1, FlagIs
  <2> QED  BY <2>1, <2>3, <2>4, <2>5, <2>6, <2>7
<1>3. hal.sys.pedometer = ("pedometer" \in hal.features \/ "pedometerStep" \in hal.features)
  <2>1. hal.features \cap {"pedometer", "pedometerStep"} # {}
          <=> "pedometer" \in hal.features \/ "pedometerStep" \in hal.features
    OBVIOUS
  <2> QED  BY <1>1, <2>1 DEF Own, Flag
<1>4. StepsReported
  BY <1>1, <1>3 DEF Own, Steps, StepsReported
<1> QED  BY <1>2, <1>3, <1>4 DEF FeaturesWork, DmpRunsForFeatures
\* It says that at most one quaternion is sent.
LEMMA SaysQuaternion ==
  ConfigInv(hal) => OneQuaternion
<1> SUFFICES ASSUME ConfigInv(hal) PROVE OneQuaternion
  OBVIOUS
<1> DEFINE sent == {q \in {"threeQ", "sixQ", "pedQ"} : hal.sys[q]}
<1>1. Linked(hal) /\ Picked(hal, hal.oldBatch)
  BY DEF ConfigInv, Sound, Settled
<1>2. /\ "threeQ" \in sent <=> "lpq" \in hal.features
      /\ "sixQ" \in sent <=> "six" \in hal.features
      /\ "pedQ" \in sent <=> "pedQ" \in hal.features
      /\ sent \subseteq {"threeQ", "sixQ", "pedQ"}
  BY <1>1 DEF Linked, Flag
<1> HIDE DEF sent
<1>3. \A p, q \in sent : p = q
  BY <1>1, <1>2 DEF Picked, Quats
<1>4. Cardinality(sent) <= 1
  <2>1. CASE sent = {}
    BY <2>1, FS_EmptySet
  <2>2. CASE sent # {}
    <3>2. PICK x \in sent : TRUE
      BY <2>2
    <3>1. sent = {x}
      BY <1>3, <3>2
    <3> QED  BY <3>1, FS_Singleton
  <2> QED  BY <2>1, <2>2
<1>5. hal.enabled \cap (NineAxes \cup {GRV}) # {} => sent # {}
  <2>1. hal.enabled \cap FusedAxes # {} => hal.features \cap Quats # {}
    BY <1>1 DEF Picked
  <2> QED  BY <1>2, <2>1 DEF FusedAxes, Quats
<1> QED  BY <1>4, <1>5 DEF OneQuaternion, sent
\* It says that a batch holds nobody back.
LEMMA SaysBatch ==
  ConfigInv(hal) => BatchHoldsNobodyBack
<1> SUFFICES ASSUME ConfigInv(hal) PROVE BatchHoldsNobodyBack
  OBVIOUS
<1>1. /\ Settled(hal) /\ Own(hal) /\ Batching(hal) /\ (hal.timeout > 0 <=> hal.oldBatch)
  BY DEF ConfigInv, Sound, Carried
<1>2. hal.timeout = hal.sys.timeout /\ hal.timeout \in Nat /\ hal.oldBatch \in BOOLEAN
  BY <1>1 DEF Settled, Timed
<1> QED  BY <1>1, <1>2 DEF BatchHoldsNobodyBack, Batching, Own
\* It says that the enabled sensors deliver.
LEMMA SaysDeliver ==
  ConfigInv(hal) => SensorsDeliver
<1> SUFFICES ASSUME ConfigInv(hal) PROVE SensorsDeliver
  OBVIOUS
<1>1. Masked(hal) /\ Slow(hal) /\ Held(hal) /\ Lit(hal) /\ Rested(hal)
  BY DEF ConfigInv, Sound, Carried
<1>2. hal.enabled \cap (NineAxes \cup {GRV, GMRV, "Accelerometer"}) # {} => hal.sys.accel
  BY <1>1 DEF Held
<1>3. hal.enabled \cap (NineAxes \cup {GMRV} \cup Compasses) # {} => hal.sys.compass
  BY <1>1 DEF Masked, Slow, SlowUsers, Flag
<1>4. hal.sys.pressure = (hal.enabled \cap {"Pressure"} # {})
  <2>1. Flag(hal.sys.pressure, hal.enabled \cap {"Pressure"} # {})
    BY <1>1 DEF Masked, Slow, Flag
  <2> QED  BY <2>1 DEF Flag
<1>5. hal.enabled = {} => ~hal.sys.compass
  BY <1>1 DEF Masked, Slow, SlowUsers, Flag
<1>6. hal.enabled \cup hal.features = {} => ~hal.sys.accel /\ ~hal.sys.gyro
  BY <1>1 DEF Masked, Lit, Wanted
<1>7. InterruptPerSample
  BY <1>1 DEF Rested, InterruptPerSample
<1> QED  BY <1>2, <1>3, <1>4, <1>5, <1>6, <1>7 DEF SensorsDeliver, SensorsPowered
\* It says that the bias reaches the DMP.
LEMMA SaysBias ==
  ConfigInv(hal) => BiasReachesDmp
BY DEF ConfigInv, Carried, BiasReachesDmp

\* The chip's master switch is on exactly if a sensor is enabled or the DMP has
\* a feature to run, for any sensors, periods and calls, and any batch timeouts
\* of a millisecond or more; so too the theorems below.
THEOREM MasterFollows ==
  TimeoutsOfAMillisecond => (ConfigSpec => []MasterFollowsUse)
BY ConfigHolds, SaysMaster, PTL
\* The DMP runs for its features, its switches are those of the features, and
\* the step detector's steps have a way out.
THEOREM FeaturesDoWork ==
  TimeoutsOfAMillisecond => (ConfigSpec => []FeaturesWork)
BY ConfigHolds, SaysFeatures, PTL
\* At most one quaternion is sent, and one if a fused sensor is enabled.
THEOREM OneQuaternionSent ==
  TimeoutsOfAMillisecond => (ConfigSpec => []OneQuaternion)
BY ConfigHolds, SaysQuaternion, PTL
\* The driver batches only if all that is enabled asked for it, and has a
\* timeout exactly then: no timeout of a millisecond or more is rounded to none.
THEOREM BatchStarvesNobody ==
  TimeoutsOfAMillisecond => (ConfigSpec => []BatchHoldsNobodyBack)
BY ConfigHolds, SaysBatch, PTL
\* What an enabled sensor needs has power and interrupts for its samples.
THEOREM SensorsDoDeliver ==
  TimeoutsOfAMillisecond => (ConfigSpec => []SensorsDeliver)
BY ConfigHolds, SaysDeliver, PTL
\* With the last sensor off, no accel bias is left waiting.
THEOREM BiasDoesReachDmp ==
  TimeoutsOfAMillisecond => (ConfigSpec => []BiasReachesDmp)
BY ConfigHolds, SaysBias, PTL
=============================================================================
