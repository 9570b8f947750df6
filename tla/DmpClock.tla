------------------------------ MODULE DmpClock ------------------------------
(***************************************************************************)
(* Time stamps of the samples the DMP writes (inv_mpu_ring.c).  A sample   *)
(* carries no time: each sensor's stamp advances by its nominal period for *)
(* every frame, and the length of a DMP cycle is estimated by comparing    *)
(* the DMP's cycle counter with the host's clock, no more than once a      *)
(* second.  The counter is read by inv_read_time_and_ticks at the start of *)
(* a reading of the FIFO and used by inv_adjust_sensor_ts at its end; what *)
(* comes between may fail.                                                 *)
(***************************************************************************)
EXTENDS Integers, Sequences, FiniteSetsExt, Functions, SequencesExt

CONSTANTS Period,       \* the true length of a DMP cycle
          DmpInterval,  \* DMP_INTERVAL_INIT, in the same unit
          MinAdjust,    \* DMP_INTERVAL_MIN_ADJ
          MinTime,      \* MIN_TICK_READING_TIME
          MaxDiff,      \* MAX_DIFF
          Counters,     \* the cycle counter wraps here (2^32 in the code)
          Spans,        \* cycles between two readings
          Rates,        \* rates user space asks for
          MaxFaults     \* bound on readings cut short in a behaviour
ASSUME DmpClockAssumption ==
    /\ {Period, DmpInterval, MinAdjust, MinTime, MaxDiff, Counters} \subseteq Nat \ {0}
    /\ Spans \subseteq 1..(Counters - 1) /\ Rates \subseteq 1..200 /\ MaxFaults \in Nat

VARIABLES streaming,            \* chip_config.enable, with the DMP on
          selected, rate, dur, cycles,  \* sensor[]: on, rate, dur and counter
          output, divider,      \* the DMP: what it sends, and how often
          bytesPerSec,
          interval, accum,      \* dmp_interval, dmp_interval_accum
          dmpCounter,           \* of the last reading of the counter
          sincePrev,            \* host time since prev_ts
          sinceCount,           \* cycles since dmp_counter was read
          skewed,               \* the two have been taken at different times since the enable
          woken,                \* the system woke since the last reading
          faults
outputVars == <<selected, rate, dur, cycles, output, divider, bytesPerSec>>
timeVars == <<interval, accum, dmpCounter, sincePrev, sinceCount, skewed, woken>>
clockVars == <<streaming, outputVars, timeVars, faults>>

Order == <<"accel", "quat">>        \* the sensors, in the order of sensor[]
Outputs == {"accel", "quat"}
SampleSize == [accel |-> 8, quat |-> 16]
DmpFreq == 200                      \* MPU_DEFAULT_DMP_FREQ

ClockTypeOK ==
    /\ {streaming, skewed, woken} \subseteq BOOLEAN /\ selected \in SUBSET Outputs
    /\ rate \in [Outputs -> Rates] /\ cycles \in [Outputs -> 0..DmpFreq]
    /\ output \in SUBSET Outputs /\ divider \in [Outputs -> 0..(DmpFreq - 1)]
    /\ interval \in Nat /\ dmpCounter \in 0..(Counters - 1) /\ sinceCount \in 0..(Counters - 1)

ClockInit ==
    /\ streaming = FALSE /\ selected = {} /\ skewed = FALSE /\ woken = FALSE /\ faults = 0
    /\ rate = [s \in Outputs |-> Max(Rates)]
    /\ dur = [s \in Outputs |-> (DmpFreq \div Max(Rates)) * DmpInterval]
    /\ cycles = [s \in Outputs |-> 0] /\ output = {} /\ divider = [s \in Outputs |-> 0]
    /\ bytesPerSec = 0 /\ interval = DmpInterval /\ accum = 0
    /\ dmpCounter = 0 /\ sincePrev = 0 /\ sinceCount = 0

Fault == faults < MaxFaults /\ faults' = faults + 1

-----------------------------------------------------------------------------
(* The sensors and their rates, refused while the sensors run. *)
Select == /\ ~streaming /\ \E s \in Outputs : selected' = (selected \ {s}) \cup ({s} \ selected)
          /\ UNCHANGED <<streaming, rate, dur, cycles, output, divider, bytesPerSec, timeVars, faults>>
SetRate == /\ ~streaming
           /\ \E s \in Outputs, r \in Rates :
                 /\ rate' = [rate EXCEPT ![s] = r]
                 /\ dur' = [dur EXCEPT ![s] = (DmpFreq \div r) * DmpInterval]
           /\ UNCHANGED <<streaming, selected, cycles, output, divider, bytesPerSec, timeVars, faults>>

(* inv_set_dmp_sysfs for the first n sensors: each one's data is sent or
   not, and those that are on get their divider and counter. *)
SendData(done) == output' = (output \ done) \cup (selected \cap done)
SetDividers(done) ==
    divider' = [s \in Outputs |-> IF s \in selected \cap done THEN DmpFreq \div rate[s] - 1 ELSE divider[s]]
SetOutputs(n) ==
    LET done == { Order[i] : i \in 1..n }
    IN  /\ SendData(done) /\ SetDividers(done)
        /\ cycles' = [s \in Outputs |-> IF s \in selected \cap done THEN DmpFreq \div rate[s] ELSE cycles[s]]
BytesOf(S) == FoldSet(LAMBDA s, b : b + rate[s] * SampleSize[s], 0, S)

(* set_inv_enable(true): a failure leaves the sensors before it set.
   reset_fifo_itg starts the clocks again. *)
ResetClocks == interval' = DmpInterval /\ accum' = 0 /\ sincePrev' = 0
Start ==
    /\ ~streaming /\ selected # {}
    /\ SetOutputs(Len(Order))
    /\ bytesPerSec' = BytesOf(selected)
    /\ ResetClocks /\ dmpCounter' = 0 /\ sinceCount' = 0 /\ skewed' = FALSE /\ woken' = FALSE
    /\ streaming' = TRUE
    /\ UNCHANGED <<selected, rate, dur, faults>>
StartFails ==
    /\ ~streaming /\ selected # {} /\ Fault
    /\ \E n \in 0..Len(Order) : SetOutputs(n)
    /\ UNCHANGED <<streaming, selected, rate, dur, bytesPerSec, timeVars>>
(* What the next enable sets again is not kept. *)
Stop == /\ streaming /\ streaming' = FALSE
        /\ ResetClocks /\ dmpCounter' = 0 /\ sinceCount' = 0 /\ skewed' = FALSE /\ woken' = FALSE
        /\ UNCHANGED <<outputVars, faults>>

-----------------------------------------------------------------------------
(* inv_get_shift2 *)
Shift2(count) == IF count = 1 THEN 13 ELSE IF count > 2000 THEN 2
                 ELSE 13 - (CHOOSE b \in 1..11 : 2 ^ (b - 1) <= count /\ count < 2 ^ b)

(* The cycles since the counter was last read, in unsigned arithmetic. *)
TicksUnwrapped(count) == IF count > dmpCounter THEN count - dmpCounter ELSE Counters - 1 - dmpCounter
Ticks(count) == (IF count > dmpCounter THEN count - dmpCounter
                 ELSE Counters - 1 - dmpCounter + count + 1) % Counters

(* inv_adjust_sensor_ts; the divisions are C's. *)
Sized(a) == IF a < 0 THEN -a ELSE a
SignedUpwards(a, size) == IF a < 0 THEN 0 ELSE size
Signed(a, size) == IF a < 0 THEN -size ELSE size
AdjustEveryone(elapsed, ticks) ==
    LET total == Max({1, ticks})
        diff == Max({-MaxDiff, Min({MaxDiff, elapsed - interval * total})})
        rateAdj == Sized(diff) \div total
    IN  /\ accum' = accum \div 2 + Signed(diff, Min({rateAdj \div 2 ^ Shift2(total), MinAdjust}))
        /\ interval' = interval + accum'
        /\ dur' = [s \in Outputs |-> interval' * Max({1, cycles[s]})]
Adjust(elapsed, ticks) ==
    LET total == Max({1, ticks})
        diff == Max({-MaxDiff, Min({MaxDiff, elapsed - interval * total})})
        rateAdj == Sized(diff) \div total
    IN  /\ accum' = accum \div 2 + Signed(diff, Min({rateAdj \div 2 ^ Shift2(total), MinAdjust}))
        /\ interval' = interval + accum'
        /\ dur' = [s \in Outputs |-> IF s \in selected THEN interval' * cycles[s] ELSE dur[s]]

(* What a reading n cycles later finds: the time since prev_ts, the cycles
   since the counter was read, and the counter. *)
Elapsed(n) == sincePrev + n * Period
Counted(n) == sinceCount + n
CounterAt(n) == (dmpCounter + Counted(n)) % Counters
KeepOutputs == UNCHANGED <<streaming, selected, rate, cycles, output, divider, bytesPerSec>>
Waits(n) == sincePrev' = Elapsed(n) /\ sinceCount' = Counted(n) /\ UNCHANGED <<interval, accum, dmpCounter, dur>>

(* A reading that goes through adjusts the interval if a second has passed. *)
ReadFifo ==
    /\ streaming
    /\ \E n \in Spans :
          IF Elapsed(n) < MinTime THEN Waits(n)
          ELSE /\ Adjust(Elapsed(n), Ticks(CounterAt(n)))
               /\ dmpCounter' = CounterAt(n) /\ sinceCount' = 0 /\ sincePrev' = 0
    /\ woken' = FALSE /\ UNCHANGED <<skewed, faults>> /\ KeepOutputs

(* One that ends before the adjustment (an empty FIFO, a count over the
   specification, a failing transfer) has taken the counter, not the time;
   one that cannot read the counter takes neither. *)
ReadEndsEarly ==
    /\ streaming /\ Fault
    /\ \E n \in Spans :
          \/ Waits(n) /\ UNCHANGED skewed
          \/ /\ Elapsed(n) >= MinTime
             /\ dmpCounter' = CounterAt(n) /\ sinceCount' = 0 /\ sincePrev' = Elapsed(n)
             /\ skewed' = TRUE
             /\ UNCHANGED <<interval, accum, dur>>
    /\ woken' = FALSE /\ KeepOutputs

(* An odd count resets the FIFO, which takes the time and not the counter. *)
OddFifoCount ==
    /\ streaming /\ Fault
    /\ \E n \in Spans :
          /\ IF Elapsed(n) < MinTime THEN dmpCounter' = dmpCounter /\ sinceCount' = Counted(n)
                                     ELSE dmpCounter' = CounterAt(n) /\ sinceCount' = 0
          /\ ResetClocks
          /\ skewed' = (skewed \/ sinceCount' # 0)
    /\ woken' = FALSE /\ UNCHANGED dur /\ KeepOutputs

(* A suspend stops the counter or not; the resume takes both, or, when it
   cannot read the counter, neither. *)
WakeUp ==
    /\ streaming
    /\ \E n \in Spans, ran \in {0, 1} :
          \/ /\ dmpCounter' = CounterAt(n * ran) /\ sincePrev' = 0 /\ sinceCount' = 0
             /\ UNCHANGED <<skewed, faults>>
          \/ /\ Fault
             /\ sincePrev' = Elapsed(n) /\ sinceCount' = Counted(n * ran) /\ UNCHANGED dmpCounter
             /\ skewed' = (skewed \/ ran = 0)
    /\ woken' = TRUE /\ UNCHANGED <<interval, accum, dur>> /\ KeepOutputs

ClockNext == \/ Select \/ SetRate \/ Start \/ StartFails \/ Stop
             \/ ReadFifo \/ ReadEndsEarly \/ OddFifoCount \/ WakeUp
(* While the sensors run the interrupt thread goes on reading. *)
ClockFair == WF_clockVars(ReadFifo)
ClockSpec == ClockInit /\ [][ClockNext]_clockVars /\ ClockFair

-----------------------------------------------------------------------------
(* inv_reset_ts, on a full FIFO: how far back, in us, its oldest byte is
   put; and inv_push_step_indicator: the stamps of the steps before a frame,
   relative to that of the frame before. *)
BackUncounted == (1000000 \div bytesPerSec) * 1000
Back == (1000000 \div bytesPerSec) * 1024
StepStampsUndivided(d, steps) == [i \in 1..(steps - 1) |-> i * d]
StepStamps(d, steps) == [i \in 1..(steps - 1) |-> i * (d \div steps)]

Tolerance == 2 * MinAdjust
Near(v, a, b) == v \in (Min({a, b}) - Tolerance)..(Max({a, b}) + Tolerance)

(* The estimate stays between the nominal and the true length, whenever the
   counter wraps and however long the readings are apart, unless counter
   and time have been taken at different moments. *)
IntervalBetween == streaming /\ ~skewed => Near(interval, DmpInterval, Period)

(* Whatever failed before, it settles near the true length while the sensors
   stay enabled and the system awake: the damping of dmp_interval_accum. *)
IntervalSettles == []<>(~streaming) \/ []<>woken \/ <>[](Near(interval, Period, Period))

(* The period a sensor's stamps advance by is the period of its output: the
   divider the DMP was given times a cycle length near the estimates, also
   for a sensor whose estimate is from before the last enable. *)
StampsFollowOutput ==
    streaming /\ ~skewed /\ faults = 0 =>
        /\ output = selected
        /\ \A s \in selected : Near(dur[s] \div (divider[s] + 1), DmpInterval, Period)

(* The stamps of a full FIFO begin as long before the reading as its bytes
   took, so that the newest is the reading's. *)
FullFifoEndsNow ==
    streaming => LET written == FoldSet(LAMBDA s, b : b + (DmpFreq * SampleSize[s]) \div cycles[s], 0, selected)
                 IN  Back \in ((1024 * 1000000) \div written - 1024)..((1024 * 1000000) \div written)

(* The steps counted since a frame are stamped in order between it and the
   next. *)
StepsBetweenFrames ==
    \A s \in selected, steps \in 2..7 :
        LET t == StepStamps(dur[s], steps)
        IN  \A i \in DOMAIN t : 0 < t[i] /\ t[i] < dur[s] /\ (i > 1 => t[i - 1] < t[i])

(* The stamps follow the samples: from an estimate near the truth, at the rate
   of the output, ending at the present when the FIFO was full, and with the
   steps between them. *)
StampsFollowSamples == IntervalBetween /\ StampsFollowOutput /\ FullFifoEndsNow /\ StepsBetweenFrames
=============================================================================
