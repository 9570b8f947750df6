------------------------------ MODULE DmpFifo ------------------------------
(***************************************************************************)
(* From the chip's FIFO to the IIO buffer: inv_process_batchmode and the   *)
(* two paths that call it, the interrupt thread (inv_read_fifo) and a      *)
(* flush (inv_flush_batch_data).  The DMP writes frames; the driver reads  *)
(* whatever is there, cuts it into frames, pushes them and keeps what is   *)
(* left of the last one for the next call.                                 *)
(*                                                                         *)
(* The contents of the FIFO is a stream of cells, numbered from the last   *)
(* reset on.  A cell is the smallest piece a reading of the FIFO count can *)
(* cut off; what the driver holds is a sequence of cell numbers, so a      *)
(* property can tell where each pushed byte came from.                     *)
(***************************************************************************)
EXTENDS Integers, Sequences, FiniteSets

CONSTANTS
  Normal,          \* sensors with frames of HEADERED_NORMAL_BYTES
  Quaternion,      \* sensors with frames of HEADERED_Q_BYTES, twice as long
  Slaves,          \* the sensors of Normal that sit on the secondary bus
  Selections,      \* the sets of sensors that users switch on
  HeaderedNormal,  \* cells of a normal frame
  Capacity,        \* cells of the chip's FIFO
  MaxRead,         \* cells of one I2C transfer (MAX_READ_SIZE)
  MaxCells,        \* bound on the cells written between two resets
  MaxFaults,       \* bound on failed transfers and implausible counts
  MaxEmpty         \* bound on the empty markers pushed between two resets

Sensors == Normal \cup Quaternion
HeaderedQ == 2 * HeaderedNormal

ASSUME ConstantsAssumption ==
  /\ Normal \cap Quaternion = {} /\ Slaves \subseteq Normal
  /\ Selections \subseteq SUBSET Sensors
  /\ Sensors \cap {"error", "payload", "END_MARKER", "EMPTY_MARKER"} = {}
  /\ HeaderedNormal \in Nat \ {0} /\ Capacity \in Nat \ {0}
  /\ MaxRead \in Nat \ {0} /\ MaxCells \in Nat /\ MaxFaults \in Nat
  /\ MaxEmpty \in Nat

VARIABLES
  enabled,    \* chip_config.enable and the IIO buffer
  on,         \* the sensors with sensor[i].on, fixed while enabled
  batchOn,    \* batch.on, fixed while enabled
  running,    \* does the DMP write into the FIFO?
  stream,     \* the cells written since the last reset: a sensor or "error"
              \* for the first of a frame, "payload" for the others
  owed,       \* cells of the current frame the DMP has still to write
  rd,         \* cells that have left the FIFO
  fifoCount,  \* st->fifo_count
  left,       \* st->left_over
  data, at,   \* fifo_data and dptr while a call is under way
  todo,       \* bytes that inv_process_batchmode has still to read
  pc, job,    \* where the call is, and who made it
  measured,   \* slaves whose first sample has been discarded
  out,        \* what was pushed since the last reset
  goal,       \* history: cells written when the current flush began
  lost,       \* history: may cells of the stream have gone unparsed?
  faults

chipVars == <<running, stream, owed>>
userVars == <<enabled, on, batchOn>>
callVars == <<data, at, todo, pc, job, goal>>
vars == <<chipVars, userVars, callVars, rd, fifoCount, left, measured, out,
          lost, faults>>

\* st->sensor[].sample_size, and the step over an error packet
SampleSize(s) == IF s \in Quaternion THEN HeaderedQ ELSE HeaderedNormal

Markers == {"END_MARKER", "EMPTY_MARKER"}
Marker(m) == [kind |-> m, cells |-> <<>>]
Available == Len(stream) - rd

Init ==
  /\ enabled = FALSE /\ on = {} /\ batchOn = FALSE
  /\ running = FALSE /\ stream = <<>> /\ owed = 0 /\ rd = 0
  /\ fifoCount = 0 /\ left = <<>> /\ data = <<>> /\ at = 0 /\ todo = 0
  /\ pc = "idle" /\ job = "irq" /\ goal = 0
  /\ measured = {} /\ out = <<>> /\ lost = FALSE /\ faults = 0

Fault == faults < MaxFaults /\ faults' = faults + 1
-----------------------------------------------------------------------------
(* The chip: the DMP writes cell after cell; a full FIFO drops its oldest *)
DmpWrites ==
  /\ running /\ Len(stream) < MaxCells
  /\ IF owed > 0
     THEN /\ stream' = Append(stream, "payload")
          /\ owed' = owed - 1
     ELSE \E s \in on \cup (IF on = {} THEN {} ELSE {"error"}) :
            /\ stream' = Append(stream, s)
            /\ owed' = SampleSize(s) - 1
  /\ IF Available = Capacity
     THEN rd' = rd + 1 /\ lost' = TRUE
     ELSE UNCHANGED <<rd, lost>>
  /\ UNCHANGED <<running, userVars, callVars, fifoCount, left, measured, out,
                 faults>>
-----------------------------------------------------------------------------
(* Enable, disable, reset: with mlock held, so never during a call *)

\* reset_fifo_itg from the write of BIT_FIFO_RST to its end
FifoReset ==
  /\ stream' = <<>> /\ owed' = 0 /\ rd' = 0 /\ running' = TRUE
  /\ left' = <<>> /\ measured' = {} /\ out' = <<>> /\ lost' = FALSE

Enable ==
  /\ pc = "idle" /\ ~enabled
  /\ enabled' = TRUE
  /\ on' \in Selections /\ batchOn' \in BOOLEAN
  /\ FifoReset
  /\ UNCHANGED <<callVars, fifoCount, faults>>

\* set_inv_enable(false); a failure after the marker leaves the chip enabled.
Disable ==
  /\ pc = "idle" /\ enabled
  /\ out' = Append(out, Marker("END_MARKER"))
  /\ \/ enabled' = FALSE /\ running' = FALSE /\ UNCHANGED faults
     \/ Fault /\ UNCHANGED <<enabled, running>>
  /\ UNCHANGED <<stream, owed, on, batchOn, callVars, rd, fifoCount, left,
                 measured, lost>>

\* inv_read_fifo met an odd count.  inv_reset_fifo succeeds, or gives up with
\* the FIFO as it was, or with the DMP stopped and the FIFO cleared or not.
OddCount ==
  /\ pc = "idle" /\ enabled /\ on # {} /\ Fault
  /\ \/ FifoReset
     \/ UNCHANGED <<chipVars, rd, left, measured, out, lost>>
     \/ /\ running' = FALSE
        /\ rd' \in {rd, Len(stream)}
        /\ lost' = (lost \/ rd' # rd)
        /\ UNCHANGED <<stream, owed, left, measured, out>>
  /\ UNCHANGED <<userVars, callVars, fifoCount>>
-----------------------------------------------------------------------------
(* A call of inv_process_batchmode: begin, read, parse, finish *)

\* Mutant of Begin: the left-over bytes are not copied in front of the data.
BeginDroppingLeft(j, n) ==
  LET kept == IF n = Capacity THEN <<>> ELSE left
  IN /\ fifoCount' = n /\ todo' = n
     /\ left' = kept /\ data' = <<>> /\ at' = 0
     /\ lost' = (lost \/ kept # left)
     /\ pc' = IF n > 0 THEN "read" ELSE "parse"
     /\ job' = j
     /\ goal' = IF j = "flush" THEN Len(stream) ELSE 0
     /\ UNCHANGED <<chipVars, userVars, rd, measured, out, faults>>

\* With a full FIFO the left-over bytes are given up.
Begin(j, n) ==
  LET kept == IF n = Capacity THEN <<>> ELSE left
  IN /\ fifoCount' = n /\ todo' = n
     /\ left' = kept /\ data' = kept /\ at' = 0
     /\ lost' = (lost \/ kept # left)
     /\ pc' = IF n > 0 THEN "read" ELSE "parse"
     /\ job' = j
     /\ goal' = IF j = "flush" THEN Len(stream) ELSE 0
     /\ UNCHANGED <<chipVars, userVars, rd, measured, out, faults>>

\* inv_read_fifo reads the count only if some sensor is on (bpm > 0).
IrqReads ==
  /\ pc = "idle" /\ enabled
  /\ \/ on # {} /\ Available > 0 /\ Begin("irq", Available)
     \/ on = {} /\ fifoCount <= Capacity /\ Begin("irq", fifoCount)

FlushReads ==
  /\ pc = "idle" /\ enabled /\ batchOn /\ Available > 0
  /\ Begin("flush", Available)

FlushEmpty ==
  /\ pc = "idle" /\ enabled
  /\ batchOn => Available = 0
  /\ Cardinality({i \in DOMAIN out : out[i].kind = "EMPTY_MARKER"}) < MaxEmpty
  /\ out' = Append(out, Marker("EMPTY_MARKER"))
  /\ fifoCount' = IF batchOn THEN 0 ELSE fifoCount
  /\ UNCHANGED <<chipVars, userVars, callVars, rd, left, measured, lost, faults>>

\* A count over the specification: nothing is read, a flush reports its end.
OverSpec ==
  /\ pc = "idle" /\ enabled /\ Fault
  /\ fifoCount' = Capacity + 1
  /\ \/ on # {} /\ UNCHANGED out
     \/ batchOn /\ out' = Append(out, Marker("END_MARKER"))
  /\ UNCHANGED <<chipVars, userVars, callVars, rd, left, measured, lost>>

LesserOf(a, b) == IF a < b THEN a ELSE b

\* What n bytes read from the FIFO hold: 0 stands for a byte it did not have.
Chunk(n) == [i \in 1..n |-> IF i <= Available THEN rd + i ELSE 0]

\* Mutant of ReadChunk: the loop ends after one transfer.
ReadOneChunk ==
  /\ pc = "read"
  /\ LET n == LesserOf(todo, MaxRead)
     IN /\ data' = data \o Chunk(n)
        /\ rd' = rd + LesserOf(n, Available)
        /\ todo' = 0
        /\ pc' = "parse"
  /\ UNCHANGED <<chipVars, userVars, at, job, goal, fifoCount, left, measured, out,
                 lost, faults>>

ReadChunk ==
  /\ pc = "read"
  /\ LET n == LesserOf(todo, MaxRead)
     IN /\ data' = data \o Chunk(n)
        /\ rd' = rd + LesserOf(n, Available)
        /\ todo' = todo - n
        /\ pc' = IF todo = n THEN "parse" ELSE "read"
  /\ UNCHANGED <<chipVars, userVars, at, job, goal, fifoCount, left, measured, out,
                 lost, faults>>

\* A transfer fails, having taken k cells from the FIFO.  The call returns;
\* what its earlier transfers read is gone, the left-over bytes stay.
ReadFails ==
  /\ pc = "read" /\ Fault
  /\ \E k \in 0..LesserOf(LesserOf(todo, MaxRead), Available) :
       /\ rd' = rd + k
       /\ lost' = (lost \/ k > 0 \/ data # left)
  /\ data' = <<>> /\ at' = 0 /\ todo' = 0
  /\ pc' = "idle" /\ job' = "irq" /\ goal' = 0
  /\ UNCHANGED <<chipVars, userVars, fifoCount, left, measured, out>>

Rest == Len(data) - at

\* What inv_parse_header may make of cell c: a payload can look like anything.
Looks(c) ==
  IF c > 0 /\ stream[c] # "payload" THEN {stream[c]} ELSE Sensors \cup {"error"}

\* The header at dptr reads as s, with sensor[s].on; "error" is never on.
Header(s) ==
  /\ pc = "parse" /\ Rest >= HeaderedNormal
  /\ s \in Looks(data[at + 1])

Parsing == UNCHANGED <<chipVars, userVars, data, todo, pc, job, goal, rd,
                       fifoCount, left, lost, faults>>

\* Mutant of SkipErrorPacket: the step is the length of a quaternion frame.
SkipLongErrorPacket ==
  /\ \E s \in Sensors \cup {"error"} : Header(s) /\ s \notin on
  /\ at' = at + HeaderedQ
  /\ UNCHANGED <<measured, out>> /\ Parsing

SkipErrorPacket ==
  /\ \E s \in Sensors \cup {"error"} : Header(s) /\ s \notin on
  /\ at' = at + HeaderedNormal
  /\ UNCHANGED <<measured, out>> /\ Parsing

Frame(s) == [kind |-> s, cells |-> SubSeq(data, at + 1, at + SampleSize(s))]

PushFrame ==
  /\ \E s \in on :
       /\ Header(s) /\ Rest >= SampleSize(s)
       /\ s \in Slaves => s \in measured
       /\ at' = at + SampleSize(s)
       /\ out' = Append(out, Frame(s))
  /\ UNCHANGED measured /\ Parsing

\* A slave's first sample after a reset is discarded, and so is one that its
\* read_data rejects.
DropSlaveSample ==
  /\ \E s \in on \cap Slaves :
       /\ Header(s) /\ Rest >= SampleSize(s)
       /\ at' = at + SampleSize(s)
       /\ measured' = measured \cup {s}
  /\ UNCHANGED out /\ Parsing

\* Mutant of Incomplete: waits for a frame of the longest kind.
IncompleteLongest == Rest <= HeaderedQ

\* Mutant of Incomplete: a last frame that ends with the data is kept back.
IncompleteOrLast ==
  \/ Rest <= HeaderedNormal
  \/ \E s \in on : Header(s) /\ Rest < SampleSize(s)

Incomplete ==
  \/ Rest < HeaderedNormal
  \/ \E s \in on : Header(s) /\ Rest < SampleSize(s)

\* Mutant of Finish: left_over is copied from the start of fifo_data.
FinishFromStart ==
  /\ pc = "parse" /\ Incomplete
  /\ left' = SubSeq(data, 1, Rest)
  /\ out' = IF job = "flush" THEN Append(out, Marker("END_MARKER")) ELSE out
  /\ data' = <<>> /\ at' = 0
  /\ pc' = "idle" /\ job' = "irq" /\ goal' = 0
  /\ UNCHANGED <<chipVars, userVars, todo, rd, fifoCount, measured, lost, faults>>

Finish ==
  /\ pc = "parse" /\ Incomplete
  /\ left' = SubSeq(data, at + 1, Len(data))
  /\ out' = IF job = "flush" THEN Append(out, Marker("END_MARKER")) ELSE out
  /\ data' = <<>> /\ at' = 0
  /\ pc' = "idle" /\ job' = "irq" /\ goal' = 0
  /\ UNCHANGED <<chipVars, userVars, todo, rd, fifoCount, measured, lost, faults>>

Next ==
  \/ DmpWrites \/ Enable \/ Disable \/ OddCount
  \/ IrqReads \/ FlushReads \/ FlushEmpty \/ OverSpec
  \/ ReadChunk \/ ReadFails
  \/ SkipErrorPacket \/ PushFrame \/ DropSlaveSample \/ Finish

Spec == Init /\ [][Next]_vars
-----------------------------------------------------------------------------
(* Properties *)

Items == [kind : Sensors \cup Markers, cells : Seq(Nat)]

FlagsOK ==
  enabled \in BOOLEAN /\ batchOn \in BOOLEAN /\ running \in BOOLEAN /\ lost \in BOOLEAN

DataOK ==
  /\ on \in SUBSET Sensors /\ measured \in SUBSET Sensors
  /\ stream \in Seq(Sensors \cup {"error", "payload"})
  /\ owed \in Nat /\ rd \in 0..Len(stream)
  /\ fifoCount \in Nat /\ todo \in Nat /\ goal \in Nat /\ faults \in 0..MaxFaults
  /\ left \in Seq(Nat) /\ data \in Seq(Nat) /\ at \in 0..Len(data)
  /\ out \in Seq(Items)
  /\ pc \in {"idle", "read", "parse"} /\ job \in {"irq", "flush"}

\* The types of the variables
TypeOK == FlagsOK /\ DataOK

\* What is left over after a call is less than a quaternion frame, so the
\* array left_over[HEADERED_Q_BYTES] holds it and the clamps that log
\* "left_over_size overflow" never cut it: inv_process_batchmode.
LeftOverFits == Len(left) < HeaderedQ

\* Frames leave in the order they were written and no byte is pushed twice,
\* whatever failed before: a cell pushed later has a higher number.
NoCellTwice ==
  \A i, j \in DOMAIN out :
    \A m \in DOMAIN out[i].cells, n \in DOMAIN out[j].cells :
      i < j \/ (i = j /\ m < n) => out[i].cells[m] < out[j].cells[n]

\* The cells that make up the frame that starts at p
FrameAt(p) == [i \in 1..SampleSize(stream[p]) |-> p + i - 1]

\* As long as no byte was lost, what is pushed under a sensor's header is a
\* whole frame of that sensor, wherever the reads cut the stream.
FramesIntact ==
  ~lost =>
    \A i \in DOMAIN out : out[i].kind \notin Markers =>
      \E p \in DOMAIN stream :
        out[i] = [kind |-> stream[p], cells |-> FrameAt(p)]

Pushed(p) == \E i \in DOMAIN out : out[i].cells = FrameAt(p)

\* Frames that must come out: a slave's sample may be discarded.
Due(p) == stream[p] \in on \ Slaves
EndOf(p) == p + SampleSize(stream[p]) - 1

\* As long as no byte was lost, a frame whose last byte has been read is
\* pushed before the call returns: nothing complete stays in left_over.
NothingHeldBack ==
  pc = "idle" /\ ~lost =>
    \A p \in DOMAIN stream : Due(p) /\ EndOf(p) <= rd => Pushed(p)

\* When a flush reports its end, every frame the FIFO held in full when the
\* flush began has been pushed: inv_flush_batch_data.
FlushDelivers ==
  [][pc = "parse" /\ pc' = "idle" /\ job = "flush" /\ ~lost =>
       \A p \in 1..goal : Due(p) /\ EndOf(p) <= goal => Pushed(p)']_vars
=============================================================================
