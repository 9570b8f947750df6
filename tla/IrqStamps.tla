----------------------------- MODULE IrqStamps -----------------------------
(***************************************************************************)
(* Time stamps of the samples when the DMP is off (inv_mpu_ring.c): the    *)
(* interrupt handler keeps the time of each data ready interrupt in a      *)
(* kfifo, and the interrupt thread matches them with the samples it finds  *)
(* in the chip's FIFO.  The MPU3050 gives each sample a stamp; the others  *)
(* only estimate the sample period from the stamps (inv_get_timestamp).    *)
(* An interrupt may be lost, and since the line is shared and the handler  *)
(* never asks the chip, another device's interrupt leaves a stamp as well. *)
(*                                                                         *)
(* A stamp is the time since the stamp before, or, for the MPU3050, the    *)
(* number of the sample the chip wrote last.                               *)
(***************************************************************************)
EXTENDS Integers, Sequences, SequencesExt

CONSTANTS Nominal,      \* irq_dur_ns as the rate sets it
          TruePeriods,
          EstimateShift,  \* inv_get_timestamp shifts by 7
          MaxThreshold,   \* 10 ms
          KfifoSize,      \* TIMESTAMP_FIFO_SIZE
          StampTolerance, \* TIME_STAMP_TOR
          FrameBytes, FooterBytes,  \* bytes_per_datum and MPU3050_FOOTER_SIZE
          MaxWaiting,     \* FIFO_THRESHOLD, in samples
          MaxSample       \* bound: samples of an MPU3050 in a behaviour
ASSUME IrqAssumption ==
    /\ {Nominal, MaxThreshold, KfifoSize, FrameBytes, MaxWaiting} \cup TruePeriods \subseteq Nat \ {0}
    /\ {EstimateShift, StampTolerance, FooterBytes, MaxSample} \subseteq Nat

VARIABLES mpu3050,          \* chip_type
          truePeriod,
          waiting,          \* samples in the chip's FIFO
          written,          \* samples written since the last reset (MPU3050)
          gap,              \* time since the last stamp
          lost,             \* history: an interrupt was lost since the last reset
          stamps,           \* st->timestamps
          left,             \* samples this call of the thread has still to read
          footer,           \* chip_config.has_footer
          begun,            \* ts_counter # 0
          irqDur, diffAccum,    \* irq_dur_ns, diff_accumulater
          stamped           \* the last sample reported and its stamp (MPU3050)
chipSide == <<waiting, written, gap, lost>>
estimate == <<begun, irqDur, diffAccum>>
irqVars == <<mpu3050, truePeriod, chipSide, stamps, left, footer, estimate, stamped>>

IrqTypeOK ==
    /\ {mpu3050, footer, begun, lost} \subseteq BOOLEAN
    /\ waiting \in Nat /\ left \in 0..waiting /\ Len(stamps) \in 0..KfifoSize
    /\ irqDur \in Nat /\ diffAccum \in Int

IrqInit ==
    /\ mpu3050 \in BOOLEAN /\ truePeriod \in TruePeriods
    /\ waiting = 0 /\ written = 0 /\ gap = 0 /\ lost = FALSE /\ stamps = <<>> /\ left = 0 /\ footer = FALSE
    /\ begun = FALSE /\ irqDur = Nominal /\ diffAccum = 0
    /\ stamped = [sample |-> 0, stamp |-> 0]

-----------------------------------------------------------------------------
(* inv_irq_handler: a full kfifo drops the stamp. *)
StampUnbounded(time) == stamps' = Append(stamps, IF mpu3050 THEN written' ELSE time)
Stamp(time) == stamps' = IF Len(stamps) < KfifoSize THEN Append(stamps, IF mpu3050 THEN written' ELSE time)
                         ELSE stamps

(* The chip writes a sample and raises the interrupt, which may be lost. *)
Ceiling == 3 * truePeriod       \* no longer gap is told apart
Sample ==
    /\ waiting < MaxWaiting
    /\ waiting' = waiting + 1
    /\ IF mpu3050 THEN written < MaxSample /\ written' = written + 1 ELSE UNCHANGED written
    /\ LET time == gap + truePeriod
       IN  \/ Stamp(time) /\ gap' = 0 /\ lost' = (lost \/ Len(stamps) = KfifoSize)
           \/ gap' = (IF time < Ceiling THEN time ELSE Ceiling) /\ lost' = TRUE /\ UNCHANGED stamps
    /\ UNCHANGED <<mpu3050, truePeriod, left, footer, estimate, stamped>>

(* Another device on the line, half-way between two samples. *)
SharedInterrupt ==
    /\ gap = 0
    /\ UNCHANGED <<mpu3050, truePeriod, waiting, written, lost, left, footer, estimate, stamped>>
    /\ Stamp(truePeriod \div 2)
    /\ gap' = -(truePeriod \div 2)      \* with the rest of the period, half of it

(* inv_reset_fifo: set_inv_enable calls it, and so does the thread when what
   it finds does not fit; an interrupt between kfifo_reset and the write of
   int_enable leaves a stamp, unless the thread clears the kfifo again. *)
Cleared(left_) ==
    /\ waiting' = 0 /\ written' = 0 /\ gap' = 0 /\ lost' = FALSE /\ left' = 0 /\ footer' = FALSE
    /\ begun' = FALSE /\ diffAccum' = 0
    /\ stamps' = IF left_ THEN <<IF mpu3050 THEN 0 ELSE truePeriod>> ELSE <<>>
    /\ stamped' = [sample |-> 0, stamp |-> 0]
    /\ UNCHANGED <<mpu3050, truePeriod, irqDur>>
Reset == left = 0 /\ \E late \in BOOLEAN : Cleared(late)

-----------------------------------------------------------------------------
(* inv_get_timestamp, with count samples left: the stamps in excess of those
   of the samples after this one are used up; after a reset only one is. *)
DurThreshold == LET q == irqDur \div 4 IN IF q < MaxThreshold THEN q ELSE MaxThreshold
DistanceOf(d) == IF d < 0 THEN -d ELSE d
EstimateTrusting(e, diff) ==
    LET a == (e.accum \div 2) + (IF e.dur > diff THEN -((e.dur - diff) \div 2 ^ EstimateShift)
                                                 ELSE (diff - e.dur) \div 2 ^ EstimateShift)
    IN  [dur |-> e.dur + a, accum |-> a]
Estimate(e, diff) ==
    IF DistanceOf(diff - e.dur) >= DurThreshold THEN e
    ELSE LET a == (e.accum \div 2) + (IF e.dur > diff THEN -((e.dur - diff) \div 2 ^ EstimateShift)
                                                      ELSE (diff - e.dur) \div 2 ^ EstimateShift)
         IN  [dur |-> e.dur + a, accum |-> a]
ExcessAtMostOne(count) == IF Len(stamps) >= count THEN 1 ELSE 0
Excess(count) == IF Len(stamps) < count THEN 0 ELSE IF begun THEN Len(stamps) - count + 1 ELSE 1
GetTimestamp(count) ==
    LET n == Excess(count)
        used == FoldLeft(Estimate, [dur |-> irqDur, accum |-> diffAccum], SubSeq(stamps, 1, n))
    IN  /\ stamps' = SubSeq(stamps, n + 1, Len(stamps))
        /\ begun' = (begun \/ n > 0)
        /\ irqDur' = (IF begun THEN used.dur ELSE irqDur)
        /\ diffAccum' = (IF begun THEN used.accum ELSE diffAccum)

(* inv_read_fifo reads the count once, then as many samples. *)
ReadCount == /\ ~mpu3050 /\ left = 0 /\ waiting > 0
             /\ left' = waiting
             /\ UNCHANGED <<mpu3050, truePeriod, chipSide, stamps, footer, estimate, stamped>>
ReadSample ==
    /\ ~mpu3050 /\ left > 0
    /\ GetTimestamp(left)
    /\ left' = left - 1 /\ waiting' = waiting - 1
    /\ UNCHANGED <<mpu3050, truePeriod, written, gap, lost, footer, stamped>>
(* An odd count, one over the threshold, or a failing transfer. *)
Flush == /\ left > 0 \/ waiting > 0
         /\ Cleared(FALSE)

-----------------------------------------------------------------------------
(* inv_read_fifo_mpu3050.  The first sample after a reset has no footer, but
   the samples are counted as if none had one. *)
Counted3050 == IF footer THEN waiting ELSE (waiting * FrameBytes + (waiting - 1) * FooterBytes) \div FrameBytes
MatchedUnbounded == Len(stamps) >= Counted3050
Matched == Len(stamps) \in Counted3050..(Counted3050 + StampTolerance)
ReadCount3050 ==
    /\ mpu3050 /\ left = 0 /\ waiting > 0
    /\ IF Matched
       THEN left' = waiting /\ UNCHANGED <<mpu3050, truePeriod, chipSide, stamps, footer, estimate, stamped>>
       ELSE Cleared(FALSE)
ReadSample3050 ==
    /\ mpu3050 /\ left > 0
    /\ left' = left - 1 /\ waiting' = waiting - 1
    /\ stamped' = [sample |-> stamped.sample + 1, stamp |-> Head(stamps)]
    /\ stamps' = Tail(stamps)
    /\ footer' = TRUE
    /\ UNCHANGED <<mpu3050, truePeriod, written, gap, lost, estimate>>

IrqNext == \/ Sample \/ SharedInterrupt \/ Reset \/ Flush
           \/ ReadCount \/ ReadSample \/ ReadCount3050 \/ ReadSample3050
IrqSpec == IrqInit /\ [][IrqNext]_irqVars

-----------------------------------------------------------------------------
(* The estimated period stays between the nominal and the true one, up to
   what the shifts round away: an interrupt that was lost or
   was another device's does not disturb it. *)
Slack == 2 ^ EstimateShift
PeriodBetween ==
    IF truePeriod < Nominal THEN irqDur \in (truePeriod - Slack)..(Nominal + Slack)
                            ELSE irqDur \in (Nominal - Slack)..(truePeriod + Slack)

(* When the thread has read the samples it counted, no stamp is left but
   those that came meanwhile: stamps of other devices do not pile up.  (The
   first sample after a reset uses one stamp only.) *)
ExcessUsedUp == ReadSample /\ begun => Len(stamps') <= left'

(* While no interrupt is lost, a sample of the MPU3050 is stamped with its own
   interrupt or one before it: no more than TIME_STAMP_TOR, and what the
   missing footer makes the count too large by. *)
StampNearSample ==
    ~lost /\ stamped.sample > 0 =>
        stamped.sample - stamped.stamp \in 0..(StampTolerance + ((MaxWaiting - 1) * FooterBytes) \div FrameBytes)

(* Interrupts and samples are matched: none far from its own, none left over,
   and the period between them estimated from the right ones. *)
StampsMatchSamples == [][PeriodBetween' /\ StampNearSample' /\ ExcessUsedUp]_irqVars
=============================================================================
