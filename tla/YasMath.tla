------------------------------ MODULE YasMath ------------------------------
(***************************************************************************)
(* The arithmetic of the yas53x compass driver (inv_yas53x_core.c): the    *)
(* calibration and measurement bit fields, the search for the coil offset, *)
(* the conversion to axes and the two filters of an axis.  An initial      *)
(* state gives the arithmetic a bit of the calibration block or a field    *)
(* that the offset search may meet; or else samples enter the filters.     *)
(***************************************************************************)
EXTENDS Integers, Sequences, FiniteSetsExt, Functions, SequencesExt

CONSTANTS FilterLen,    \* YAS_MAG_DEFAULT_FILTER_LEN (20 in the code)
          FilterNoise, FilterThresh,
          Inputs,       \* samples that reach a filter
          MaxInputs     \* bound: samples in a behaviour
ASSUME FilterAssumption == FilterLen \in Nat \ {0} /\ FilterNoise \in Nat /\ FilterThresh \in Nat

VARIABLES bit, field,
          window,       \* num, index and sequence of the adaptive filter
          last,         \* of the threshold filter
          recent,       \* the samples that entered, the latest last
          averaged, filtered    \* what the latest sample became
yasVars == <<bit, field, window, last, recent, averaged, filtered>>

Size(a) == IF a < 0 THEN -a ELSE a
Quot(a, b) == IF a * b < 0 THEN -(Size(a) \div Size(b)) ELSE Size(a) \div Size(b)
Mean(f) == Quot(FoldFunction(+, 0, f), FilterLen)

-----------------------------------------------------------------------------
(* Bit fields of the bytes d[0], d[1]...: the low or the high n bits of one. *)
Low(b, n) == b % 2 ^ n
High(b, n) == b \div 2 ^ (8 - n)

(* get_cal_data: d2..d9, d0 and dck of the calibration block. *)
CalFieldsShort(d) ==
    << High(d[3], 6), Low(d[3], 2) * 4 + High(d[4], 2), Low(d[4], 6), High(d[5], 6),
       Low(d[5], 2) * 16 + High(d[6], 4), Low(d[6], 4) * 8 + High(d[7], 3),
       Low(d[7], 4) * 2 + High(d[8], 1), Low(d[8], 7) * 2 + High(d[9], 1),
       High(d[9], 6) % 32, Low(d[9], 2) * 2 + High(d[10], 1) >>
CalFields(d) ==
    << High(d[3], 6), Low(d[3], 2) * 4 + High(d[4], 2), Low(d[4], 6), High(d[5], 6),
       Low(d[5], 2) * 16 + High(d[6], 4), Low(d[6], 4) * 8 + High(d[7], 3),
       Low(d[7], 5) * 2 + High(d[8], 1), Low(d[8], 7) * 2 + High(d[9], 1),
       High(d[9], 6) % 32, Low(d[9], 2) * 2 + High(d[10], 1) >>

(* The coefficients they stand for: a2..a9 and k, and Cx, Cy1, Cy2. *)
Coefficients530(d) ==
    LET f == CalFields(d)
    IN  [c |-> [i \in 0..2 |-> d[i] * 6 - 768], k |-> f[9] + 10,
         a |-> <<100, f[1] - 32, f[2] - 8, f[3] - 32, f[4] + 38, f[5] - 32, f[6] - 64, f[7] - 32, f[8]>>]
Coefficients532(d) ==
    LET f == CalFields(d)
    IN  [c |-> [i \in 0..2 |-> d[i] * 10 - 1280], k |-> f[9],
         a |-> <<100, f[1] - 32, f[2] - 8, f[3] - 32, f[4] + 38, f[5] - 32, f[6] - 64, f[7] - 32, f[8]>>]

(* yas530_read_data, yas532_533_read_data: busy, the temperature and x, y1, y2. *)
Reading530(d) == << High(d[0], 1), Low(d[0], 7) * 4 + High(d[1], 2),
                    Low(d[2], 7) * 32 + High(d[3], 5), Low(d[4], 7) * 32 + High(d[5], 5),
                    Low(d[6], 7) * 32 + High(d[7], 5) >>
Reading532(d) == << High(d[0], 1), Low(d[0], 7) * 8 + High(d[1], 3),
                    Low(d[2], 7) * 64 + High(d[3], 6), Low(d[4], 7) * 64 + High(d[5], 6),
                    Low(d[6], 7) * 64 + High(d[7], 6) >>

-----------------------------------------------------------------------------
(* check_offset: on which side of the centre a reading lies. *)
Flag(reading, center) == IF reading > center THEN 1 ELSE IF reading < center THEN -1 ELSE 0

(* measure_and_set_offset, for one axis of a coil whose reading falls by one
   for each step of its offset (an external assumption about the chip). *)
OffsetSearchFromEight(h) ==
    FoldLeft(LAMBDA offset, step : offset + step * Flag(h - offset, 0), 0, <<8, 4, 2, 1, 1>>)
OffsetSearch(h) ==
    FoldLeft(LAMBDA offset, step : offset + step * Flag(h - offset, 0), 0, <<16, 8, 4, 2, 1>>)

(* coordinate_conversion *)
ConversionWithDrift(r, t, cal) ==
    LET s == [i \in 1..3 |-> r[i] + Quot(cal.c[i - 1] * t, 100)]
        v == <<s[1], s[2] - s[3], -s[2] - s[3]>>
        row(i) == cal.a[3*i - 2] * v[1] + cal.a[3*i - 1] * v[2] + cal.a[3*i] * v[3]
    IN  [i \in 1..3 |-> cal.k * Quot(row(i), 10)]
Conversion(r, t, cal) ==
    LET s == [i \in 1..3 |-> r[i] - Quot(cal.c[i - 1] * t, 100)]
        v == <<s[1], s[2] - s[3], -s[2] - s[3]>>
        row(i) == cal.a[3*i - 2] * v[1] + cal.a[3*i - 1] * v[2] + cal.a[3*i] * v[3]
    IN  [i \in 1..3 |-> cal.k * Quot(row(i), 10)]

-----------------------------------------------------------------------------
(* adaptive_filter_init and thresh_filter_init, at each enable and reset. *)
AdaptiveReset == window' = [num |-> 0, index |-> 0, sequence |-> [i \in 0..FilterLen - 1 |-> 0]]
ThreshReset == last' = 0
InitFilters == AdaptiveReset /\ ThreshReset /\ recent' = <<>> /\ averaged' = 0 /\ filtered' = 0

(* The circular window after one more sample. *)
SlideLate(w, in) ==
    IF w.num < FilterLen
    THEN [num |-> w.num + 1, index |-> w.index + 1, sequence |-> [w.sequence EXCEPT ![w.index] = Quot(in, 100)]]
    ELSE LET at == IF FilterLen < w.index THEN 0 ELSE w.index
         IN  [w EXCEPT !.index = at + 1, !.sequence = [i \in DOMAIN @ |-> IF i = at THEN Quot(in, 100) ELSE @[i]]]
Slide(w, in) ==
    IF w.num < FilterLen
    THEN [num |-> w.num + 1, index |-> w.index + 1, sequence |-> [w.sequence EXCEPT ![w.index] = Quot(in, 100)]]
    ELSE LET at == IF FilterLen <= w.index THEN 0 ELSE w.index
         IN  [w EXCEPT !.index = at + 1, !.sequence = [i \in DOMAIN @ |-> IF i = at THEN Quot(in, 100) ELSE @[i]]]

(* adaptive_filter_filter: a full window answers its average, and the more
   its spread exceeds the noise the more of the sample itself. *)
AdaptiveUnweighted(w, in) ==
    LET avg == Mean(w.sequence)
        spread == Mean([i \in DOMAIN w.sequence |-> (avg - w.sequence[i]) ^ 2])
    IN  IF spread <= FilterNoise THEN avg * 100
        ELSE (Quot((Quot(in, 100) - avg) * (spread + FilterNoise), spread) + avg) * 100
Adaptive(w, in) ==
    LET avg == Mean(w.sequence)
        spread == Mean([i \in DOMAIN w.sequence |-> (avg - w.sequence[i]) ^ 2])
    IN  IF spread <= FilterNoise THEN avg * 100
        ELSE (Quot((Quot(in, 100) - avg) * (spread - FilterNoise), spread) + avg) * 100

(* thresh_filter_filter *)
Threshold(in) == IF in < last - FilterThresh \/ last + FilterThresh < in THEN in ELSE last

(* filter_filter, for one axis. *)
Filter == \E in \in Inputs :
    /\ Len(recent) < MaxInputs
    /\ window' = Slide(window, in)
    /\ averaged' = IF window.num < FilterLen THEN in ELSE Adaptive(window', in)
    /\ last' = Threshold(averaged') /\ filtered' = last'
    /\ recent' = Append(recent, in)

-----------------------------------------------------------------------------
NoBit == 128
NoField == 41
YasInit == /\ \/ bit \in 0..(NoBit - 1) /\ field = NoField
              \/ bit = NoBit /\ field \in -40..NoField
           /\ window = [num |-> 0, index |-> 0, sequence |-> [i \in 0..FilterLen - 1 |-> 0]]
           /\ last = 0 /\ recent = <<>> /\ averaged = 0 /\ filtered = 0
YasNext == /\ bit = NoBit /\ field = NoField
           /\ Filter \/ InitFilters
           /\ UNCHANGED <<bit, field>>

(* The block of 16 bytes whose only bit is the one at bit, and its inverse. *)
OneBit == [i \in 0..15 |-> IF bit \div 8 = i THEN 2 ^ (7 - (bit % 8)) ELSE 0]
AllButOne == [i \in 0..15 |-> 255 - OneBit[i]]
(* The n bits of block d from bit p on, as one number. *)
BitsAt(d, p, n) ==
    FoldSet(+, 0, { 2 ^ (n - 1 - j) * ((d[(p + j) \div 8] \div 2 ^ (7 - ((p + j) % 8))) % 2) : j \in 0..(n - 1) })

(* The calibration fields are adjacent, from the fourth byte on: no shift
   or mask of get_cal_data loses a bit or takes a neighbour's.  The readings
   are right-aligned after the first bit of their word. *)
BitsInPlace == bit # NoBit =>
    \A d \in {OneBit, AllButOne} :
        /\ LET widths == <<6, 4, 6, 6, 6, 7, 6, 8>>
               from(i) == 24 + FoldLeft(+, 0, SubSeq(widths, 1, i - 1))
           IN  /\ \A i \in 1..8 : CalFields(d)[i] = BitsAt(d, from(i), widths[i])
               /\ CalFields(d)[9] = BitsAt(d, 73, 5) /\ CalFields(d)[10] = BitsAt(d, 78, 3)
        /\ Reading530(d) = <<BitsAt(d, 0, 1), BitsAt(d, 1, 9), BitsAt(d, 17, 12), BitsAt(d, 33, 12), BitsAt(d, 49, 12)>>
        /\ Reading532(d) = <<BitsAt(d, 0, 1), BitsAt(d, 1, 10), BitsAt(d, 17, 13), BitsAt(d, 33, 13), BitsAt(d, 49, 13)>>

(* The offset search ends next to the field, or at the end of its range on
   the field's side. *)
OffsetFound == field # NoField =>
    LET nearest == Max({-31, Min({31, field})})
    IN  Size(OffsetSearch(field) - nearest) <= 1

(* A drift by the coil's temperature coefficient does not change the axes. *)
Blocks == { [i \in 0..15 |-> 0], [i \in 0..15 |-> (37 * i) % 256], [i \in 0..15 |-> 255 - 11 * i] }
DriftCancels == field # NoField =>
    \A cal \in { Coefficients530(d) : d \in Blocks } \cup { Coefficients532(d) : d \in Blocks }, t \in {0, 100, 300} :
        LET r == <<field, 7, -3>>
            drifted == [i \in 1..3 |-> r[i] + cal.c[i - 1] * (t \div 100)]
        IN  Conversion(drifted, t, cal) = Conversion(r, 0, cal)

(* The window holds the latest FilterLen samples, whatever its index. *)
WindowIsRecent ==
    LET n == Len(recent)
        held == { window.sequence[i] : i \in 0..window.num - 1 }
        entered == { Quot(recent[i], 100) : i \in Max({1, n - FilterLen + 1})..n }
    IN  held = entered /\ window.num = Min({n, FilterLen})

(* The filters answer between the average of the latest samples and the
   sample, and stray from that by no more than the threshold. *)
FilterBetween ==
    recent # <<>> =>
        LET in == Quot(Last(recent), 100) * 100
            avg == Mean(window.sequence) * 100
        IN  /\ window.num = FilterLen /\ Len(recent) > FilterLen =>
                  averaged \in Min({in, avg})..Max({in, avg})
            /\ Size(filtered - averaged) <= FilterThresh

(* The yas53x's arithmetic gives back what was measured: fields and offset of
   the calibration, the axes without drift, and a filter that only smooths
   its recent inputs. *)
YasRecoversField ==
    BitsInPlace /\ OffsetFound /\ DriftCancels /\ WindowIsRecent /\ FilterBetween
=============================================================================
