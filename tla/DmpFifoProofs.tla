--------------------------- MODULE DmpFifoProofs ---------------------------
(***************************************************************************)
(* Theorems about DmpFifo, for every frame length, FIFO capacity, transfer *)
(* size and selection of sensors.                                          *)
(***************************************************************************)
EXTENDS DmpFifo, SequenceTheorems, TLAPS

\* What the driver holds of the stream, and the cell it looks at next
Buf == IF pc = "idle" THEN left ELSE data
NextCell == rd - Len(Buf) + at + 1

\* A frame of the cells S starts at p, where the DMP still owes o cells of
\* the last one; past the end, the next one starts there.
StartsAt(S, o, p) ==
  /\ p \in 1..Len(S) + 1
  /\ p <= Len(S) => S[p] # "payload"
  /\ p > Len(S) => o = 0

\* The cells S are a sequence of frames, the last one perhaps incomplete.
Framed(S, o) ==
  \A p \in 1..Len(S) : S[p] # "payload" =>
    LET e == p + SampleSize(S[p]) - 1
    IN /\ \A q \in p + 1..Len(S) : q <= e => S[q] = "payload"
       /\ e <= Len(S) => StartsAt(S, o, e + 1)
       /\ e > Len(S) => o = e - Len(S)

FrameStart(p) == StartsAt(stream, owed, p)

StreamFramed ==
  /\ \A p \in 1..Len(stream) : stream[p] \in on \cup {"error", "payload"}
  /\ Framed(stream, owed)

\* The variables of a call, and what a failing one would fall back to
CallShape ==
  /\ pc = "idle" => data = <<>> /\ job = "irq"
  /\ pc # "parse" => at = 0
  /\ pc # "read" => todo = 0
  /\ pc = "read" => /\ Len(left) <= Len(data)
                    /\ \A i \in 1..Len(left) : data[i] = left[i]
                    /\ on # {} => todo <= Available
  /\ job = "flush" => goal <= rd + todo /\ goal <= Len(stream)

\* Without a sensor nothing is written, and only markers are pushed.
NothingOn ==
  on = {} => /\ stream = <<>> /\ owed = 0
            /\ \A i \in 1..Len(out) : out[i].kind \in Markers

MarkersEmpty ==
  \A i \in 1..Len(out) : out[i].kind \in Markers => out[i].cells = <<>>

\* Cells held by the driver are in order, and later than the pushed ones.
Ordered ==
  on # {} =>
    /\ \A i, j \in 1..Len(Buf) : i < j => Buf[i] < Buf[j]
    /\ \A i \in 1..Len(Buf) : 0 < Buf[i] /\ Buf[i] <= rd
    /\ \A i \in 1..Len(out) : \A m \in 1..Len(out[i].cells) :
         /\ out[i].cells[m] <= rd
         /\ \A j \in at + 1..Len(Buf) : out[i].cells[m] < Buf[j]

\* Nothing lost: the driver holds the cells just before rd, and looks at the
\* start of a frame.
Aligned ==
  ~lost /\ on # {} =>
    /\ Len(Buf) <= rd
    /\ \A i \in 1..Len(Buf) : Buf[i] = rd - Len(Buf) + i
    /\ FrameStart(NextCell)

\* Nothing lost: all frames before the one it looks at have been pushed.
Delivered ==
  ~lost => \A p \in 1..Len(stream) : Due(p) /\ p < NextCell => Pushed(p)

\* Nothing lost: what a call leaves, or would leave, is not a whole frame.
LeftShort ==
  ~lost /\ on # {} /\ pc # "parse" /\ (pc = "read" => data = left) =>
    \/ Len(left) < HeaderedNormal
    \/ /\ NextCell <= Len(stream)
       /\ Len(left) < SampleSize(stream[NextCell])

IInv ==
  /\ TypeOK /\ LeftOverFits /\ StreamFramed /\ CallShape /\ NothingOn
  /\ MarkersEmpty /\ Ordered /\ NoCellTwice /\ Aligned /\ FramesIntact
  /\ Delivered /\ LeftShort
-----------------------------------------------------------------------------
\* Frame sizes are positive numbers of cells, the quaternion's the largest.
LEMMA Sizes ==
  /\ HeaderedNormal \in Nat \ {0} /\ HeaderedQ \in Nat \ {0}
  /\ \A s : SampleSize(s) \in Nat /\ HeaderedNormal <= SampleSize(s)
             /\ SampleSize(s) <= HeaderedQ
  BY ConstantsAssumption DEF HeaderedQ, SampleSize

\* Sensors, markers and the two other cell values are told apart by name.
LEMMA Names ==
  /\ "error" \notin Sensors /\ "payload" \notin Sensors
  /\ \A s \in Sensors : s \notin Markers
  BY ConstantsAssumption DEF Markers

\* What the types say of the sequences, spelled out.
LEMMA Facts ==
  ASSUME TypeOK
  PROVE  /\ stream \in Seq(Sensors \cup {"error", "payload"}) /\ Len(stream) \in Nat
         /\ rd \in Nat /\ rd <= Len(stream) /\ owed \in Nat /\ on \subseteq Sensors
         /\ left \in Seq(Nat) /\ Len(left) \in Nat
         /\ data \in Seq(Nat) /\ Len(data) \in Nat /\ at \in Nat /\ at <= Len(data)
         /\ Buf \in Seq(Nat) /\ Len(Buf) \in Nat
         /\ out \in Seq(Items) /\ Len(out) \in Nat /\ DOMAIN out = 1..Len(out)
         /\ goal \in Nat /\ todo \in Nat
         /\ \A i \in 1..Len(left) : left[i] \in Nat
         /\ \A i \in 1..Len(data) : data[i] \in Nat
         /\ \A i \in 1..Len(Buf) : Buf[i] \in Nat
         /\ \A i \in 1..Len(out) :
              /\ out[i] \in Items /\ out[i].cells \in Seq(Nat)
              /\ Len(out[i].cells) \in Nat
              /\ DOMAIN out[i].cells = 1..Len(out[i].cells)
              /\ \A m \in 1..Len(out[i].cells) : out[i].cells[m] \in Nat
<1>1. DataOK  BY DEF TypeOK
<1>2. Buf \in Seq(Nat)  BY <1>1 DEF DataOK, Buf
<1>3. ASSUME NEW i \in 1..Len(out)
      PROVE  /\ out[i] \in Items /\ out[i].cells \in Seq(Nat)
             /\ Len(out[i].cells) \in Nat
             /\ DOMAIN out[i].cells = 1..Len(out[i].cells)
             /\ \A m \in 1..Len(out[i].cells) : out[i].cells[m] \in Nat
  <2>1. out[i] \in Items  BY <1>1, <1>3, ElementOfSeq DEF DataOK
  <2>2. out[i].cells \in Seq(Nat)  BY <2>1 DEF Items
  <2>3. \A m \in 1..Len(out[i].cells) : out[i].cells[m] \in Nat  BY <2>2, ElementOfSeq
  <2>4. Len(out[i].cells) \in Nat /\ DOMAIN out[i].cells = 1..Len(out[i].cells)  BY <2>2
  <2> QED  BY <2>1, <2>2, <2>3, <2>4, Zenon
<1>4. /\ stream \in Seq(Sensors \cup {"error", "payload"}) /\ Len(stream) \in Nat
      /\ rd \in Nat /\ rd <= Len(stream) /\ owed \in Nat /\ on \subseteq Sensors
      /\ left \in Seq(Nat) /\ Len(left) \in Nat
      /\ data \in Seq(Nat) /\ Len(data) \in Nat /\ at \in Nat /\ at <= Len(data)
      /\ Buf \in Seq(Nat) /\ Len(Buf) \in Nat
      /\ out \in Seq(Items) /\ Len(out) \in Nat /\ DOMAIN out = 1..Len(out)
      /\ goal \in Nat /\ todo \in Nat
  BY <1>1, <1>2 DEF DataOK
<1>5. /\ \A i \in 1..Len(left) : left[i] \in Nat
      /\ \A i \in 1..Len(data) : data[i] \in Nat
      /\ \A i \in 1..Len(Buf) : Buf[i] \in Nat
  BY <1>4, ElementOfSeq
<1> QED  BY <1>3, <1>4, <1>5

\* A cell that the DMP owes, or the first of a frame, continues the frames.
LEMMA AppendCell ==
  ASSUME NEW S \in Seq(Sensors \cup {"error", "payload"}), NEW o \in Nat, NEW o2 \in Nat,
         NEW c, Framed(S, o),
         \/ c = "payload" /\ o > 0 /\ o2 = o - 1
         \/ c # "payload" /\ o = 0 /\ o2 = SampleSize(c) - 1
  PROVE  Framed(Append(S, c), o2)
<1> DEFINE T == Append(S, c)
           n == Len(S)
<1>1. /\ n \in Nat /\ Len(T) = n + 1 /\ T[n + 1] = c
      /\ \A i \in 1..n : T[i] = S[i]
  OBVIOUS
<1> HIDE DEF T, n
<1> SUFFICES ASSUME NEW p \in 1..n + 1, T[p] # "payload",
                    NEW e, e = p + SampleSize(T[p]) - 1
             PROVE  /\ \A q \in p + 1..n + 1 : q <= e => T[q] = "payload"
                    /\ e <= n + 1 => StartsAt(T, o2, e + 1)
                    /\ e > n + 1 => o2 = e - (n + 1)
  BY <1>1 DEF Framed, T
<1>2. SampleSize(T[p]) \in Nat \ {0} /\ e \in Nat /\ e >= p /\ p \in Nat
  BY <1>1, Sizes
<1>3. CASE p = n + 1
  <2>1. o2 = e - (n + 1)  BY <1>3, <1>2, <1>1
  <2>2. e <= n + 1 => StartsAt(T, o2, e + 1)
    <3>1. Len(T) = n + 1 /\ n \in Nat /\ e \in Nat /\ e >= p  BY <1>1, <1>2
    <3>2. ASSUME e <= n + 1
          PROVE  e + 1 \in 1..Len(T) + 1 /\ e + 1 > Len(T) /\ o2 = 0
      BY <3>1, <3>2, <2>1, <1>3
    <3> QED  BY <3>1, <3>2 DEF StartsAt
  <2> QED  BY <2>1, <2>2, <1>1, <1>2, <1>3
<1>4. CASE p \in 1..n
  <2>1. S[p] = T[p]  BY <1>4, <1>1
  <2>2. /\ \A q \in p + 1..n : q <= e => S[q] = "payload"
        /\ e <= n => StartsAt(S, o, e + 1)
        /\ e > n => o = e - n
    BY <2>1, <1>4 DEF Framed, n
  <2>3. CASE e <= n
    <3>1. /\ e + 1 <= n => S[e + 1] # "payload"
          /\ e + 1 > n => o = 0
      BY <2>2, <2>3 DEF StartsAt, n
    <3>2. StartsAt(T, o2, e + 1)
      <4>1. e + 1 \in 1..Len(T) + 1 /\ ~(e + 1 > Len(T))  BY <2>3, <1>1, <1>2
      <4>2. T[e + 1] # "payload"
        <5>1. CASE e = n  BY <5>1, <3>1, <1>1
        <5>2. CASE e < n  BY <5>2, <3>1, <1>1, <1>2
        <5> QED  BY <5>1, <5>2, <2>3, <1>1, <1>2
      <4> QED  BY <4>1, <4>2 DEF StartsAt
    <3> QED  BY SMTT(30), <3>2, <2>2, <2>3, <1>1, <1>2
  <2>4. CASE e > n
    <3>1. o = e - n /\ c = "payload" /\ o2 = o - 1
      BY <2>2, <2>4, <1>1, <1>2
    <3>2. e <= n + 1 => StartsAt(T, o2, e + 1)
      <4>1. ASSUME e <= n + 1
            PROVE  e + 1 \in 1..Len(T) + 1 /\ e + 1 > Len(T) /\ o2 = 0
        <5>1. e = n + 1  BY <4>1, <2>4, <1>1, <1>2
        <5> QED  BY <5>1, <3>1, <1>1
      <4> QED  BY <4>1, <1>1, <1>2 DEF StartsAt
    <3>3. ASSUME NEW q \in p + 1..n + 1, q <= e
          PROVE  T[q] = "payload"
      <4>1. CASE q \in 1..n
        <5>1. q \in p + 1..n  BY <4>1, <1>1, <1>2
        <5> QED  BY <5>1, <4>1, <3>3, <2>2, <1>1
      <4>2. CASE q = n + 1  BY <4>2, <3>1, <1>1
      <4> QED  BY <4>1, <4>2, <1>1, <1>2
    <3>4. o2 = e - (n + 1)  BY <3>1, <1>1, <1>2
    <3> QED  BY <3>2, <3>3, <3>4
  <2> QED  BY <2>3, <2>4, <1>1, <1>2
<1> QED  BY <1>3, <1>4, <1>1

\* The invariant of the parser holds at the start.
LEMMA InitIInv == Init => IInv
<1> SUFFICES ASSUME Init PROVE IInv
  OBVIOUS
<1> USE DEF Init
<1>0. \A S : <<>> \in Seq(S)
  OBVIOUS
<1>1. FlagsOK  BY Zenon DEF FlagsOK
<1>2. DataOK  BY <1>0, ConstantsAssumption DEF DataOK
<1>3. LeftOverFits  BY Sizes DEF LeftOverFits
<1>4. StreamFramed /\ CallShape /\ NothingOn /\ MarkersEmpty
  BY DEF StreamFramed, Framed, CallShape, NothingOn, MarkersEmpty
<1>5. Ordered /\ NoCellTwice /\ Aligned /\ FramesIntact
  BY DEF Ordered, NoCellTwice, Aligned, FramesIntact
<1>6. Delivered /\ LeftShort
  BY DEF Delivered, LeftShort
<1> QED  BY <1>1, <1>2, <1>3, <1>4, <1>5, <1>6 DEF IInv, TypeOK

\* A reset empties everything the invariant speaks of.
LEMMA ResetStep ==
  ASSUME TypeOK, FifoReset, pc = "idle", CallShape, UNCHANGED callVars, faults' \in 0..MaxFaults,
         enabled' \in BOOLEAN, on' \in SUBSET Sensors, batchOn' \in BOOLEAN,
         fifoCount' \in Nat
  PROVE  IInv'
<1> USE DEF FifoReset, callVars
<1>0. \A S : <<>> \in Seq(S)
  OBVIOUS
<1>1. FlagsOK'  BY Zenon DEF TypeOK, FlagsOK
<1>2. DataOK'  BY <1>0 DEF TypeOK, DataOK
<1>7. LeftOverFits'  BY Sizes DEF LeftOverFits
<1>3. (StreamFramed /\ NothingOn /\ MarkersEmpty)'
  BY DEF StreamFramed, Framed, NothingOn, MarkersEmpty
<1>4. CallShape'  BY DEF CallShape
<1>5. (Ordered /\ NoCellTwice /\ FramesIntact /\ Delivered)'
  BY <1>4 DEF Ordered, NoCellTwice, FramesIntact, Delivered, Buf
<1>6. (Aligned /\ LeftShort)'
  BY <1>4, Sizes DEF Aligned, LeftShort, Buf, NextCell, FrameStart, StartsAt, CallShape
<1> QED  BY <1>1, <1>2, <1>3, <1>4, <1>5, <1>6, <1>7 DEF IInv, TypeOK

\* The DMP writes a cell: the stream stays framed, and what the driver holds
\* is what it was, unless the full FIFO loses its oldest cell.
LEMMA WriteStep ==
  ASSUME IInv, DmpWrites
  PROVE  IInv'
<1>0. /\ TypeOK /\ StreamFramed /\ CallShape /\ NothingOn /\ MarkersEmpty /\ Ordered
      /\ NoCellTwice /\ Aligned /\ FramesIntact /\ Delivered /\ LeftShort /\ LeftOverFits
  BY DEF IInv
<1>1. PICK c \in on \cup {"error", "payload"} :
        /\ stream' = Append(stream, c) /\ on # {}
        /\ \/ c = "payload" /\ owed > 0 /\ owed' = owed - 1
           \/ c # "payload" /\ owed = 0 /\ owed' = SampleSize(c) - 1
  <2>0. owed \in Nat /\ on \subseteq Sensors  BY <1>0 DEF TypeOK, DataOK
  <2>1. CASE owed > 0
    <3>1. on # {}  BY <1>0, <2>1 DEF NothingOn
    <3> QED  BY <2>1, <3>1 DEF DmpWrites
  <2>2. CASE ~(owed > 0)
    <3>1. PICK c \in on \cup (IF on = {} THEN {} ELSE {"error"}) :
            stream' = Append(stream, c) /\ owed' = SampleSize(c) - 1
      BY <2>2 DEF DmpWrites
    <3>2. on # {} /\ c # "payload"  BY <3>1, <2>0, Names
    <3> QED  BY <2>0, <2>2, <3>1, <3>2
  <2> QED  BY <2>1, <2>2
<1>2. /\ UNCHANGED <<on, enabled, batchOn, running, fifoCount, left, data, at, todo, pc,
                     job, goal, measured, out, faults>>
      /\ \/ rd' = rd /\ lost' = lost
         \/ rd' = rd + 1 /\ lost' = TRUE /\ Available = Capacity
  BY DEF DmpWrites, userVars, callVars
<1>3. /\ stream \in Seq(Sensors \cup {"error", "payload"}) /\ rd \in 0..Len(stream)
      /\ Len(stream) \in Nat /\ owed \in Nat /\ rd \in Nat /\ at \in Nat
      /\ on \subseteq Sensors /\ data \in Seq(Nat) /\ left \in Seq(Nat)
      /\ Len(data) \in Nat /\ Len(left) \in Nat /\ out \in Seq(Items) /\ goal \in Nat
      /\ todo \in Nat
  BY <1>0 DEF TypeOK, DataOK
<1>4. /\ stream' \in Seq(Sensors \cup {"error", "payload"}) /\ Len(stream') = Len(stream) + 1
      /\ \A i \in 1..Len(stream) : stream'[i] = stream[i]
      /\ stream'[Len(stream) + 1] = c
  BY <1>1, <1>3
<1>5. rd' \in rd..rd + 1 /\ rd' <= Len(stream') /\ Len(stream') - rd' >= Len(stream) - rd
  <2>1. CASE rd' = rd  BY <2>1, <1>3, <1>4
  <2>2. CASE rd' = rd + 1 /\ Available = Capacity
    BY <2>2, <1>3, <1>4, ConstantsAssumption DEF Available
  <2> QED  BY <2>1, <2>2, <1>2
<1>6. FlagsOK'
  BY <1>0, <1>2, Zenon DEF FlagsOK, TypeOK
<1>7. DataOK'
  <2>1. owed' \in Nat  BY <1>1, <1>3, Sizes
  <2> QED  BY <1>0, <1>2, <1>3, <1>4, <1>5, <2>1 DEF TypeOK, DataOK
<1>8. \A p \in 1..Len(stream) : EndOf(p)' = EndOf(p) /\ Due(p)' = Due(p) /\ FrameAt(p)' = FrameAt(p)
  BY <1>2, <1>4 DEF EndOf, Due, FrameAt
<1>9. StreamFramed'
  <2>1. Framed(stream', owed')
    <3>1. owed' \in Nat  BY <1>7 DEF DataOK
    <3>2. Framed(stream, owed)  BY <1>0 DEF StreamFramed
    <3> QED  BY <3>1, <3>2, <1>1, <1>3, AppendCell
  <2>2. ASSUME NEW p \in 1..Len(stream')
        PROVE  stream'[p] \in on' \cup {"error", "payload"}
    <3>1. CASE p = Len(stream) + 1  BY <3>1, <1>1, <1>2, <1>4
    <3>2. CASE p \in 1..Len(stream)  BY <3>2, <1>0, <1>2, <1>4 DEF StreamFramed
    <3> QED  BY <3>1, <3>2, <1>3, <1>4
  <2> QED  BY <2>1, <2>2 DEF StreamFramed
<1>10. CallShape'
  <2>1. job = "flush" => goal <= rd' + todo /\ goal <= Len(stream')
    <3>1. job = "flush" => goal <= rd + todo /\ goal <= Len(stream)
      BY <1>0 DEF CallShape
    <3> QED
      <4> SUFFICES ASSUME job = "flush"
                   PROVE  goal <= rd' + todo /\ goal <= Len(stream')
        OBVIOUS
      <4>1. goal <= rd + todo /\ goal <= Len(stream)  BY <3>1
      <4>2. goal <= Len(stream')  BY <4>1, <1>3, <1>4
      <4>3. goal <= rd' + todo
        <5>1. CASE rd' = rd  BY <5>1, <4>1
        <5>2. CASE rd' = rd + 1  BY <5>2, <4>1, <1>3
        <5> QED  BY <5>1, <5>2, <1>2
      <4> QED  BY <4>2, <4>3
  <2>2. CASE pc = "read"
    <3>1. todo <= Len(stream') - rd'
      <4>1. todo <= Len(stream) - rd  BY <2>2, <1>0, <1>1 DEF CallShape, Available
      <4> QED  BY <4>1, <1>3, <1>4, <1>5
    <3> QED  BY <3>1, <2>1, <2>2, <1>0, <1>2 DEF CallShape, Available
  <2>3. CASE pc # "read"
    BY <2>1, <2>3, <1>0, <1>2 DEF CallShape
  <2> QED  BY <2>2, <2>3
<1>11. NothingOn' /\ MarkersEmpty' /\ LeftOverFits' /\ NoCellTwice'
  BY <1>0, <1>1, <1>2 DEF NothingOn, MarkersEmpty, LeftOverFits, NoCellTwice
<1>12. Buf' = Buf /\ Len(Buf) \in Nat /\ Buf \in Seq(Nat)
  BY <1>2, <1>3 DEF Buf
<1>13. Ordered'
  <2>1. \A i \in 1..Len(out) : \A m \in 1..Len(out[i].cells) : out[i].cells[m] \in Nat
    BY <1>0, Facts
  <2>2. \A i \in 1..Len(Buf) : Buf[i] \in Nat  BY <1>0, Facts
  <2>3. Ordered /\ on # {}  BY <1>0, <1>1
  <2> SUFFICES
       /\ \A i, j \in 1..Len(Buf) : i < j => Buf[i] < Buf[j]
       /\ \A i \in 1..Len(Buf) : 0 < Buf[i] /\ Buf[i] <= rd'
       /\ \A i \in 1..Len(out) : \A m \in 1..Len(out[i].cells) :
            /\ out[i].cells[m] <= rd'
            /\ \A j \in at + 1..Len(Buf) : out[i].cells[m] < Buf[j]
    BY <1>2, <1>12 DEF Ordered
  <2>4. \A i \in 1..Len(Buf) : 0 < Buf[i] /\ Buf[i] <= rd'
    BY <2>2, <2>3, <1>3, <1>5 DEF Ordered
  <2>5. \A i \in 1..Len(out) : \A m \in 1..Len(out[i].cells) : out[i].cells[m] <= rd'
    BY SMTT(30), <2>1, <2>3, <1>3, <1>5 DEF Ordered
  <2> QED  BY <2>3, <2>4, <2>5 DEF Ordered
<1>14. ASSUME ~lost'
       PROVE  /\ rd' = rd /\ ~lost /\ NextCell' = NextCell
              /\ NextCell \in 1..Len(stream) + 1 /\ FrameStart(NextCell)
              /\ NextCell = Len(stream) + 1 => owed = 0
  <2>1. rd' = rd /\ ~lost  BY <1>2, <1>14
  <2>2. NextCell' = NextCell  BY <2>1, <1>2, <1>12 DEF NextCell
  <2>3. FrameStart(NextCell)  BY <2>1, <1>0, <1>1 DEF Aligned
  <2> QED  BY <2>1, <2>2, <2>3, <1>3 DEF FrameStart, StartsAt
<1>15. Aligned'
  <2> SUFFICES ASSUME ~lost', on' # {}
               PROVE  /\ Len(Buf)' <= rd'
                      /\ \A i \in 1..Len(Buf)' : Buf'[i] = rd' - Len(Buf)' + i
                      /\ FrameStart(NextCell)'
    BY DEF Aligned
  <2>1. FrameStart(NextCell)'
    BY <1>1, <1>3, <1>4, <1>14 DEF FrameStart, StartsAt
  <2> QED  BY <2>1, <1>0, <1>1, <1>12, <1>14 DEF Aligned
<1>16. FramesIntact'
  <2> SUFFICES ASSUME ~lost', NEW i \in DOMAIN out, out[i].kind \notin Markers
               PROVE  \E p \in DOMAIN stream' :
                        out[i] = [kind |-> stream'[p], cells |-> FrameAt(p)']
    BY <1>2 DEF FramesIntact
  <2>1. PICK p \in DOMAIN stream : out[i] = [kind |-> stream[p], cells |-> FrameAt(p)]
    BY <1>0, <1>14 DEF FramesIntact
  <2>2. p \in 1..Len(stream)  BY <2>1, <1>3
  <2> QED  BY <2>1, <2>2, <1>3, <1>4, <1>8
<1>17. Delivered'
  <2> SUFFICES ASSUME ~lost', NEW p \in 1..Len(stream'), Due(p)', p < NextCell'
               PROVE  Pushed(p)'
    BY DEF Delivered
  <2>1. p \in 1..Len(stream) /\ p < NextCell  BY <1>3, <1>4, <1>14
  <2>2. Pushed(p)  BY <2>1, <1>0, <1>8, <1>14 DEF Delivered
  <2> QED  BY <2>1, <2>2, <1>2, <1>8 DEF Pushed
<1>18. LeftShort'
  <2> SUFFICES ASSUME ~lost', pc # "parse", pc = "read" => data = left
               PROVE  \/ Len(left) < HeaderedNormal
                      \/ /\ NextCell' <= Len(stream')
                         /\ Len(left) < SampleSize(stream'[NextCell'])
    BY <1>2 DEF LeftShort
  <2> QED  BY <1>0, <1>1, <1>2, <1>3, <1>4, <1>14 DEF LeftShort
<1> QED  BY <1>6, <1>7, <1>9, <1>10, <1>11, <1>13, <1>15, <1>16, <1>17, <1>18 DEF IInv, TypeOK

\* Appending an item whose cells are in order and later than all before.
LEMMA AppendOut ==
  ASSUME TypeOK, NoCellTwice, NEW e \in Items, out' = Append(out, e),
         \A m, n \in 1..Len(e.cells) : m < n => e.cells[m] < e.cells[n],
         \A i \in 1..Len(out) : \A m \in 1..Len(out[i].cells), n \in 1..Len(e.cells) :
           out[i].cells[m] < e.cells[n]
  PROVE  /\ out' \in Seq(Items) /\ Len(out') = Len(out) + 1
         /\ \A i \in 1..Len(out) : out'[i] = out[i]
         /\ out'[Len(out) + 1] = e
         /\ NoCellTwice'
<1>1. /\ out' \in Seq(Items) /\ Len(out') = Len(out) + 1 /\ Len(out) \in Nat
      /\ \A i \in 1..Len(out) : out'[i] = out[i]
      /\ out'[Len(out) + 1] = e
      /\ DOMAIN out' = 1..Len(out) + 1 /\ DOMAIN out = 1..Len(out)
  BY Facts
<1>2. DOMAIN e.cells = 1..Len(e.cells)  BY DEF Items
<1>3. \A i \in 1..Len(out) : DOMAIN out[i].cells = 1..Len(out[i].cells)
  BY Facts
<1>4. SUFFICES ASSUME NEW i \in 1..Len(out) + 1, NEW j \in 1..Len(out) + 1,
                      NEW m \in DOMAIN out'[i].cells, NEW n \in DOMAIN out'[j].cells,
                      i < j \/ (i = j /\ m < n)
               PROVE  out'[i].cells[m] < out'[j].cells[n]
  BY <1>1 DEF NoCellTwice
<1>5. CASE i \in 1..Len(out) /\ j \in 1..Len(out)
  BY <1>1, <1>4, <1>5 DEF NoCellTwice
<1>6. CASE i \in 1..Len(out) /\ j = Len(out) + 1
  BY <1>1, <1>2, <1>3, <1>4, <1>6
<1>7. CASE i = Len(out) + 1
  BY <1>1, <1>2, <1>4, <1>7
<1> QED  BY <1>1, <1>5, <1>6, <1>7

\* A marker between two calls changes nothing that the invariant speaks of.
LEMMA MarkerStep ==
  ASSUME IInv, NEW m \in Markers, out' = Append(out, Marker(m)),
         pc = "idle", UNCHANGED <<stream, owed, on, batchOn, callVars, rd, left, measured, lost>>,
         enabled' \in BOOLEAN, running' \in BOOLEAN, fifoCount' \in Nat,
         faults' \in 0..MaxFaults
  PROVE  IInv'
<1>0. /\ TypeOK /\ StreamFramed /\ CallShape /\ NothingOn /\ MarkersEmpty /\ Ordered
      /\ NoCellTwice /\ Aligned /\ FramesIntact /\ Delivered /\ LeftShort /\ LeftOverFits
  BY DEF IInv
<1> USE DEF callVars
<1>1. Marker(m) \in Items /\ Marker(m).cells = <<>> /\ Marker(m).kind = m
  <2>1. <<>> \in Seq(Nat)  OBVIOUS
  <2> QED  BY <2>1 DEF Marker, Items
<1>2. /\ out' \in Seq(Items) /\ Len(out') = Len(out) + 1 /\ Len(out) \in Nat
      /\ \A i \in 1..Len(out) : out'[i] = out[i]
      /\ out'[Len(out) + 1] = Marker(m)
      /\ NoCellTwice'
  <2>1. \A n : n \notin 1..Len(Marker(m).cells)  BY <1>1
  <2>2. Len(out) \in Nat  BY <1>0, Facts
  <2> HIDE DEF callVars
  <2> QED  BY <2>1, <2>2, <1>0, <1>1, AppendOut
<1>3. FlagsOK'  BY <1>0, Zenon DEF TypeOK, FlagsOK
<1>4. DataOK'  BY <1>0, <1>2 DEF TypeOK, DataOK
<1>5. StreamFramed' /\ LeftOverFits'
  BY <1>0 DEF StreamFramed, LeftOverFits
<1>6. NothingOn' /\ MarkersEmpty'
  BY <1>0, <1>1, <1>2 DEF NothingOn, MarkersEmpty
<1>7. Buf' = Buf /\ NextCell' = NextCell  BY DEF Buf, NextCell
<1>8. CallShape'  BY <1>0, <1>7 DEF CallShape
<1>9. Ordered'
  <2>1. Len(out'[Len(out) + 1].cells) = 0  BY <1>1, <1>2
  <2> QED  BY <2>1, <1>0, <1>2, <1>7 DEF Ordered
<1>10. Aligned'  BY <1>0, <1>7 DEF Aligned, FrameStart
<1>11. FramesIntact'
  <2>1. DOMAIN out = 1..Len(out) /\ DOMAIN out' = 1..Len(out) + 1  BY <1>0, <1>2, Facts
  <2>2. \A i \in DOMAIN out' : out'[i].kind \notin Markers => i \in DOMAIN out /\ out'[i] = out[i]
    BY <2>1, <1>1, <1>2
  <2>3. \A p : FrameAt(p)' = FrameAt(p)  BY DEF FrameAt
  <2> QED  BY <2>2, <2>3, <1>0 DEF FramesIntact
<1>12. ASSUME NEW p, Pushed(p)
       PROVE  Pushed(p)'
  <2>1. PICK i \in DOMAIN out : out[i].cells = FrameAt(p)  BY <1>12 DEF Pushed
  <2>2. i \in DOMAIN out' /\ out'[i] = out[i]  BY <2>1, <1>0, <1>2, Facts
  <2> QED  BY <2>1, <2>2 DEF Pushed, FrameAt
<1>13. Delivered'  BY <1>0, <1>7, <1>12 DEF Delivered, Due
<1>14. LeftShort'  BY <1>0, <1>7 DEF LeftShort
<1> QED
  BY <1>2, <1>3, <1>4, <1>5, <1>6, <1>8, <1>9, <1>10, <1>11, <1>13, <1>14 DEF IInv, TypeOK

\* What depends on the stream and on what was pushed, when neither changes.
LEMMA Unpushed ==
  ASSUME IInv, UNCHANGED <<stream, owed, on, out>>, ~lost' => ~lost
  PROVE  /\ StreamFramed' /\ NothingOn' /\ MarkersEmpty' /\ NoCellTwice' /\ FramesIntact'
         /\ \A p : (Pushed(p)' <=> Pushed(p)) /\ (Due(p)' <=> Due(p))
         /\ \A p : FrameStart(p)' <=> FrameStart(p)
<1>0. StreamFramed /\ NothingOn /\ MarkersEmpty /\ NoCellTwice /\ FramesIntact
  BY DEF IInv
<1>1. StreamFramed' /\ NothingOn' /\ MarkersEmpty' /\ NoCellTwice'
  BY <1>0 DEF StreamFramed, NothingOn, MarkersEmpty, NoCellTwice
<1>2. FramesIntact'  BY <1>0 DEF FramesIntact, FrameAt
<1>3. \A p : (Pushed(p)' <=> Pushed(p)) /\ (Due(p)' <=> Due(p))
  BY DEF Pushed, Due, FrameAt
<1>4. \A p : FrameStart(p)' <=> FrameStart(p)
  BY DEF FrameStart
<1> QED  BY <1>1, <1>2, <1>3, <1>4

\* Between two calls the FIFO may lose cells, or nothing happens to it.
LEMMA IdleStep ==
  ASSUME IInv, pc = "idle", UNCHANGED <<stream, owed, userVars, callVars, left, measured, out>>,
         rd' \in {rd, Len(stream)}, lost' = (lost \/ rd' # rd),
         running' \in BOOLEAN, fifoCount' \in Nat, faults' \in 0..MaxFaults
  PROVE  IInv'
<1>0. /\ TypeOK /\ StreamFramed /\ CallShape /\ NothingOn /\ MarkersEmpty /\ Ordered
      /\ NoCellTwice /\ Aligned /\ FramesIntact /\ Delivered /\ LeftShort /\ LeftOverFits
  BY DEF IInv
<1> USE DEF callVars, userVars
<1>1. FlagsOK'
  <2>1. lost' \in BOOLEAN  OBVIOUS
  <2> QED  BY <1>0, <2>1, Zenon DEF TypeOK, FlagsOK
<1>2. DataOK'  BY <1>0 DEF TypeOK, DataOK
<1>3. LeftOverFits'  BY <1>0 DEF LeftOverFits
<1>4. StreamFramed' /\ NothingOn' /\ MarkersEmpty' /\ NoCellTwice' /\ FramesIntact'
  BY Unpushed
<1>5. Buf' = Buf /\ at' = at  BY DEF Buf
<1>6. CallShape'  BY <1>0 DEF CallShape
<1>7. rd \in Nat /\ rd' \in Nat /\ rd <= rd'
  <2>1. rd \in Nat /\ Len(stream) \in Nat /\ rd <= Len(stream)  BY <1>0, Facts
  <2>2. CASE rd' = rd  BY <2>1, <2>2
  <2>3. CASE rd' = Len(stream)  BY <2>1, <2>3
  <2> QED  BY <2>2, <2>3
<1>8. Ordered'
  <2> SUFFICES ASSUME on # {}
      PROVE
       /\ \A i, j \in 1..Len(Buf) : i < j => Buf[i] < Buf[j]
       /\ \A i \in 1..Len(Buf) : 0 < Buf[i] /\ Buf[i] <= rd'
       /\ \A i \in 1..Len(out) : \A m \in 1..Len(out[i].cells) :
            /\ out[i].cells[m] <= rd'
            /\ \A j \in at + 1..Len(Buf) : out[i].cells[m] < Buf[j]
    BY <1>5 DEF Ordered
  <2>1. \A i \in 1..Len(Buf) : Buf[i] \in Nat  BY <1>0, Facts
  <2>2. \A i \in 1..Len(out) : \A m \in 1..Len(out[i].cells) : out[i].cells[m] \in Nat
    BY <1>0, Facts
  <2>3. \A i \in 1..Len(Buf) : 0 < Buf[i] /\ Buf[i] <= rd'
    BY <1>0, <1>7, <2>1 DEF Ordered
  <2>4. \A i \in 1..Len(out) : \A m \in 1..Len(out[i].cells) : out[i].cells[m] <= rd'
    BY <1>0, <1>7, <2>2 DEF Ordered
  <2> QED  BY <1>0, <2>3, <2>4 DEF Ordered
<1>9. ~lost' => ~lost /\ rd' = rd /\ NextCell' = NextCell  BY <1>5 DEF NextCell
<1>10. Aligned'  BY <1>0, <1>5, <1>9, Unpushed DEF Aligned
<1>11. Delivered'  BY <1>0, <1>9, Unpushed DEF Delivered
<1>12. LeftShort'  BY <1>0, <1>9 DEF LeftShort
<1> QED
  BY <1>1, <1>2, <1>3, <1>4, <1>6, <1>8, <1>10, <1>11, <1>12 DEF IInv, TypeOK

\* A call begins with what was left over, or gives it up and may lose cells.
LEMMA BeginStep ==
  ASSUME IInv, pc = "idle", NEW n \in Nat, NEW j \in {"irq", "flush"}, Begin(j, n),
         on # {} => n = Available
  PROVE  IInv'
<1>0. /\ TypeOK /\ StreamFramed /\ CallShape /\ NothingOn /\ MarkersEmpty /\ Ordered
      /\ NoCellTwice /\ Aligned /\ FramesIntact /\ Delivered /\ LeftShort /\ LeftOverFits
  BY DEF IInv
<1>1. /\ UNCHANGED <<stream, owed, running, enabled, on, batchOn, rd, measured, out, faults>>
      /\ fifoCount' = n /\ todo' = n /\ at' = 0 /\ job' = j
      /\ goal' = IF j = "flush" THEN Len(stream) ELSE 0
      /\ pc' = IF n > 0 THEN "read" ELSE "parse"
      /\ data' = left'
      /\ left' \in {left, <<>>} /\ lost' = (lost \/ left' # left)
  BY DEF Begin, chipVars, userVars
<1>2. Buf = left /\ at = 0 /\ Buf' = left' /\ pc' \in {"read", "parse"}
  BY <1>0, <1>1 DEF Buf, CallShape
<1>3. /\ left' \in Seq(Nat) /\ Len(left') \in Nat
      /\ left' = left \/ (left' = <<>> /\ Len(left') = 0)
      /\ Len(left') < HeaderedQ
  <2>1. left \in Seq(Nat) /\ Len(left) \in Nat /\ Len(left) < HeaderedQ
    BY <1>0, Facts DEF LeftOverFits
  <2>2. CASE left' = left  BY <2>1, <2>2
  <2>3. CASE left' = <<>>  BY <2>3, Sizes
  <2> QED  BY <2>2, <2>3, <1>1
<1>4. ~lost' => ~lost /\ left' = left /\ NextCell' = NextCell
  BY <1>1, <1>2 DEF NextCell
<1>5. FlagsOK'
  <2>1. lost' \in BOOLEAN  BY <1>1
  <2> QED  BY <1>0, <1>1, <2>1, Zenon DEF TypeOK, FlagsOK
<1>6. DataOK'
  <2>1. goal' \in Nat  BY <1>0, <1>1, Facts
  <2>2. at' \in 0..Len(data')  BY <1>1, <1>3
  <2> QED  BY <1>0, <1>1, <1>2, <1>3, <2>1, <2>2 DEF TypeOK, DataOK
<1>7. LeftOverFits'  BY <1>3 DEF LeftOverFits
<1>8. StreamFramed' /\ NothingOn' /\ MarkersEmpty' /\ NoCellTwice' /\ FramesIntact'
  BY <1>1, <1>4, Unpushed
<1>9. CallShape'
  <2>1. rd \in Nat /\ Len(stream) \in Nat /\ rd <= Len(stream)  BY <1>0, Facts
  <2>2. job' = "flush" => goal' <= rd' + todo' /\ goal' <= Len(stream')
    <3>1. on = {} => Len(stream) = 0  BY <1>0 DEF NothingOn
    <3>2. on # {} => n = Len(stream) - rd  BY DEF Available
    <3>3. Len(stream) <= rd + n  BY <2>1, <3>1, <3>2
    <3> QED  BY <1>1, <2>1, <3>3
  <2>3. pc' = "read" => /\ Len(left') <= Len(data')
                        /\ \A i \in 1..Len(left') : data'[i] = left'[i]
                        /\ on' # {} => todo' <= Available'
    BY <1>1, <1>3, <2>1 DEF Available
  <2>4. pc' # "read" => todo' = 0  BY <1>1
  <2> QED  BY <1>1, <1>2, <2>2, <2>3, <2>4 DEF CallShape
<1>10. Ordered'
  <2> SUFFICES ASSUME on # {}
      PROVE
       /\ \A i, k \in 1..Len(left') : i < k => left'[i] < left'[k]
       /\ \A i \in 1..Len(left') : 0 < left'[i] /\ left'[i] <= rd
       /\ \A i \in 1..Len(out) : \A m \in 1..Len(out[i].cells) :
            /\ out[i].cells[m] <= rd
            /\ \A k \in 1..Len(left') : out[i].cells[m] < left'[k]
    BY <1>1, <1>2 DEF Ordered
  <2>1. CASE left' = left  BY <2>1, <1>0, <1>2 DEF Ordered
  <2>2. CASE left' = <<>>
    <3>1. \A i : i \notin 1..Len(left')  BY <2>2
    <3> QED  BY <3>1, <1>0 DEF Ordered
  <2> QED  BY <2>1, <2>2, <1>3
<1>11. Aligned'
  <2> SUFFICES ASSUME ~lost', on # {}
               PROVE  /\ Len(left) <= rd
                      /\ \A i \in 1..Len(left) : left[i] = rd - Len(left) + i
                      /\ FrameStart(NextCell)'
    BY <1>1, <1>2, <1>4 DEF Aligned
  <2>1. FrameStart(NextCell)  BY <1>0, <1>4 DEF Aligned
  <2>2. FrameStart(NextCell)'
    BY <2>1, <1>1, <1>4 DEF FrameStart
  <2> QED  BY <2>2, <1>0, <1>2, <1>4 DEF Aligned
<1>12. Delivered'  BY <1>0, <1>1, <1>4, Unpushed DEF Delivered
<1>13. LeftShort'  BY <1>0, <1>1, <1>2, <1>4 DEF LeftShort
<1> QED
  BY <1>5, <1>6, <1>7, <1>8, <1>9, <1>10, <1>11, <1>12, <1>13 DEF IInv, TypeOK

\* A failed transfer: the call falls back to what was left over before it.
LEMMA FailStep ==
  ASSUME IInv, ReadFails
  PROVE  IInv'
<1>0. /\ TypeOK /\ StreamFramed /\ CallShape /\ NothingOn /\ MarkersEmpty /\ Ordered
      /\ NoCellTwice /\ Aligned /\ FramesIntact /\ Delivered /\ LeftShort /\ LeftOverFits
  BY DEF IInv
<1>1. /\ UNCHANGED <<stream, owed, running, enabled, on, batchOn, fifoCount, left, measured, out>>
      /\ data' = <<>> /\ at' = 0 /\ todo' = 0 /\ pc' = "idle" /\ job' = "irq" /\ goal' = 0
      /\ pc = "read" /\ faults < MaxFaults /\ faults' = faults + 1
  BY DEF ReadFails, chipVars, userVars, Fault
<1>2. PICK k \in 0..LesserOf(LesserOf(todo, MaxRead), Available) :
        rd' = rd + k /\ lost' = (lost \/ k > 0 \/ data # left)
  BY DEF ReadFails
<1>3. /\ rd \in Nat /\ Len(stream) \in Nat /\ rd <= Len(stream) /\ todo \in Nat
      /\ Len(data) \in Nat /\ Len(left) \in Nat
  BY <1>0, Facts
<1>4. k \in Nat /\ rd + k <= Len(stream)
  <2>1. k \in Nat  BY <1>2
  <2>2. k <= Available
    BY <1>2, <1>3, <2>1, ConstantsAssumption DEF LesserOf, Available
  <2> QED  BY <2>1, <2>2, <1>3 DEF Available
<1>5. Buf = data /\ at = 0 /\ Buf' = left
  BY <1>0, <1>1 DEF Buf, CallShape
<1>6. ~lost' => ~lost /\ k = 0 /\ data = left /\ rd' = rd /\ NextCell' = NextCell
  <2>0. ~lost' => ~lost /\ ~(k > 0) /\ data = left  BY <1>2
  <2>1. ~lost' => ~lost /\ k = 0 /\ data = left  BY <2>0, <1>4
  <2>2. ~lost' => rd' = rd  BY <2>1, <1>2, <1>3
  <2> QED  BY <2>1, <2>2, <1>1, <1>5 DEF NextCell
<1>7. FlagsOK'
  <2>1. lost' \in BOOLEAN  BY <1>2
  <2> QED  BY <1>0, <1>1, <2>1, Zenon DEF TypeOK, FlagsOK
<1>8. DataOK'
  <2>1. rd' \in 0..Len(stream)  BY <1>2, <1>3, <1>4
  <2>2. faults' \in 0..MaxFaults  BY <1>0, <1>1, ConstantsAssumption DEF TypeOK, DataOK
  <2>3. data' \in Seq(Nat) /\ at' \in 0..Len(data')  BY <1>1
  <2> QED  BY <1>0, <1>1, <2>1, <2>2, <2>3 DEF TypeOK, DataOK
<1>9. LeftOverFits' /\ CallShape'
  BY <1>0, <1>1 DEF LeftOverFits, CallShape
<1>10. StreamFramed' /\ NothingOn' /\ MarkersEmpty' /\ NoCellTwice' /\ FramesIntact'
  BY <1>1, <1>6, Unpushed
<1>11. Ordered'
  <2> SUFFICES ASSUME on # {}
      PROVE
       /\ \A i, j \in 1..Len(left) : i < j => left[i] < left[j]
       /\ \A i \in 1..Len(left) : 0 < left[i] /\ left[i] <= rd + k
       /\ \A i \in 1..Len(out) : \A m \in 1..Len(out[i].cells) :
            /\ out[i].cells[m] <= rd + k
            /\ \A j \in 1..Len(left) : out[i].cells[m] < left[j]
    BY SMTT(30), <1>1, <1>2, <1>5 DEF Ordered
  <2>1. /\ Len(left) <= Len(data)
        /\ \A i \in 1..Len(left) : i \in 1..Len(data) /\ data[i] = left[i]
    BY <1>0, <1>1, <1>3 DEF CallShape
  <2>2. \A i \in 1..Len(data) : data[i] \in Nat  BY <1>0, Facts
  <2>3. \A i \in 1..Len(out) : \A m \in 1..Len(out[i].cells) : out[i].cells[m] \in Nat
    BY <1>0, Facts
  <2>4. \A i \in 1..Len(left) : 0 < left[i] /\ left[i] <= rd + k
    BY <1>0, <1>3, <1>4, <1>5, <2>1, <2>2 DEF Ordered
  <2>5. \A i \in 1..Len(out) : \A m \in 1..Len(out[i].cells) : out[i].cells[m] <= rd + k
    BY <1>0, <1>3, <1>4, <2>3 DEF Ordered
  <2> QED  BY <1>0, <1>5, <2>1, <2>4, <2>5 DEF Ordered
<1>12. Aligned'
  <2> SUFFICES ASSUME ~lost', on # {}
               PROVE  /\ Len(left) <= rd
                      /\ \A i \in 1..Len(left) : left[i] = rd - Len(left) + i
                      /\ FrameStart(NextCell)'
    BY <1>1, <1>5, <1>6 DEF Aligned
  <2>1. FrameStart(NextCell)  BY <1>0, <1>6 DEF Aligned
  <2>2. FrameStart(NextCell)'
    BY <2>1, <1>1, <1>6 DEF FrameStart
  <2> QED  BY <2>2, <1>0, <1>5, <1>6 DEF Aligned
<1>13. Delivered'  BY <1>0, <1>1, <1>6, Unpushed DEF Delivered
<1>14. LeftShort'  BY <1>0, <1>1, <1>6 DEF LeftShort
<1> QED
  BY <1>7, <1>8, <1>9, <1>10, <1>11, <1>12, <1>13, <1>14 DEF IInv, TypeOK

\* A transfer: while a sensor is on it takes cells that the FIFO has.
LEMMA ReadStep ==
  ASSUME IInv, ReadChunk
  PROVE  IInv'
<1>0. /\ TypeOK /\ StreamFramed /\ CallShape /\ NothingOn /\ MarkersEmpty /\ Ordered
      /\ NoCellTwice /\ Aligned /\ FramesIntact /\ Delivered /\ LeftShort /\ LeftOverFits
  BY DEF IInv
<1> DEFINE n == LesserOf(todo, MaxRead)
           d == LesserOf(n, Available)
<1>1. /\ UNCHANGED <<stream, owed, running, enabled, on, batchOn, at, job, goal, fifoCount,
                     left, measured, out, lost, faults>>
      /\ pc = "read" /\ data' = data \o Chunk(n) /\ rd' = rd + d /\ todo' = todo - n
      /\ pc' = IF todo = n THEN "parse" ELSE "read"
  BY DEF ReadChunk, chipVars, userVars
<1>2. /\ rd \in Nat /\ Len(stream) \in Nat /\ rd <= Len(stream) /\ todo \in Nat
      /\ Len(data) \in Nat /\ Len(left) \in Nat /\ data \in Seq(Nat) /\ Available \in Nat
      /\ goal \in Nat /\ Available = Len(stream) - rd
  BY <1>0, Facts DEF Available
<1>3. /\ n \in Nat /\ n <= todo /\ (todo # n => n > 0) /\ d \in Nat /\ d <= Available
      /\ rd + d <= Len(stream) /\ (n <= Available => d = n)
  BY <1>2, ConstantsAssumption DEF LesserOf
<1>4. on # {} => n <= Available /\ d = n /\ todo - n <= Available - n
  BY SMTT(30), <1>0, <1>1, <1>2, <1>3 DEF CallShape
<1> HIDE DEF n, d
<1>5. Chunk(n) \in Seq(Nat) /\ Len(Chunk(n)) = n
      /\ \A i \in 1..n : Chunk(n)[i] = IF i <= Available THEN rd + i ELSE 0
  <2>1. \A i \in 1..n : (IF i <= Available THEN rd + i ELSE 0) \in Nat  BY <1>2, <1>3
  <2> QED  BY <2>1, <1>3 DEF Chunk
<1>6. /\ data' \in Seq(Nat) /\ Len(data') = Len(data) + n
      /\ \A i \in 1..Len(data) : data'[i] = data[i]
      /\ \A i \in Len(data) + 1..Len(data) + n :
           data'[i] = IF i - Len(data) <= Available THEN rd + (i - Len(data)) ELSE 0
  <2>1. /\ data' \in Seq(Nat) /\ Len(data') = Len(data) + n
        /\ \A i \in 1..Len(data) + n :
             data'[i] = IF i <= Len(data) THEN data[i] ELSE Chunk(n)[i - Len(data)]
    <3> DEFINE c == Chunk(n)
    <3>1. c \in Seq(Nat) /\ Len(c) = n  BY <1>5
    <3> HIDE DEF c
    <3>2. /\ data \o c \in Seq(Nat) /\ Len(data \o c) = Len(data) + Len(c)
          /\ \A i \in 1..Len(data) + Len(c) :
               (data \o c)[i] = IF i <= Len(data) THEN data[i] ELSE c[i - Len(data)]
      BY <3>1, <1>2, ConcatProperties
    <3>3. data' = data \o c  BY <1>1 DEF c
    <3> QED  BY <3>1, <3>2, <3>3 DEF c
  <2>2. ASSUME NEW i \in 1..Len(data)
        PROVE  data'[i] = data[i]
    <3>1. i \in 1..Len(data) + n /\ i <= Len(data)  BY <1>2, <1>3
    <3> QED  BY <3>1, <2>1
  <2>3. ASSUME NEW i \in Len(data) + 1..Len(data) + n
        PROVE  data'[i] = IF i - Len(data) <= Available THEN rd + (i - Len(data)) ELSE 0
    <3>1. i \in 1..Len(data) + n /\ ~(i <= Len(data)) /\ i - Len(data) \in 1..n
      BY <1>2, <1>3
    <3>2. data'[i] = Chunk(n)[i - Len(data)]  BY <3>1, <2>1
    <3> QED  BY <3>1, <3>2, <1>5
  <2> QED  BY <2>1, <2>2, <2>3
<1>7. Buf = data /\ Buf' = data' /\ at = 0 /\ at' = 0
  BY <1>0, <1>1 DEF Buf, CallShape
<1>8. FlagsOK'  BY <1>0, <1>1, Zenon DEF TypeOK, FlagsOK
<1>9. DataOK'
  <2>1. todo' \in Nat  BY <1>1, <1>2, <1>3
  <2>2. rd' \in 0..Len(stream)  BY <1>1, <1>2, <1>3
  <2>3. at' \in 0..Len(data')  BY <1>2, <1>3, <1>6, <1>7
  <2>4. pc' \in {"idle", "read", "parse"}  BY <1>1
  <2> QED  BY <1>0, <1>1, <1>6, <2>1, <2>2, <2>3, <2>4 DEF TypeOK, DataOK
<1>10. LeftOverFits'  BY <1>0, <1>1 DEF LeftOverFits
<1>11. StreamFramed' /\ NothingOn' /\ MarkersEmpty' /\ NoCellTwice' /\ FramesIntact'
  BY <1>1, Unpushed
<1>12. CallShape'
  <2>1. job = "flush" => goal <= (rd + d) + (todo - n) /\ goal <= Len(stream)
    <3>1. job = "flush" => goal <= rd + todo /\ goal <= Len(stream)
      BY <1>0 DEF CallShape
    <3>2. CASE on # {}  BY <3>1, <3>2, <1>2, <1>3, <1>4
    <3>3. CASE on = {}
      <4>1. Len(stream) = 0  BY <3>3, <1>0 DEF NothingOn
      <4> QED  BY <4>1, <3>1, <1>2, <1>3
    <3> QED  BY <3>2, <3>3
  <2>2. /\ Len(left) <= Len(data) + n
        /\ \A i \in 1..Len(left) : data'[i] = left[i]
    <3>1. Len(left) <= Len(data) /\ \A i \in 1..Len(left) : data[i] = left[i]
      BY <1>0, <1>1 DEF CallShape
    <3>2. \A i \in 1..Len(left) : i \in 1..Len(data)  BY <3>1, <1>2
    <3> QED  BY <3>1, <3>2, <1>2, <1>3, <1>6
  <2>3. on # {} => todo - n <= Len(stream) - (rd + d)
    BY <1>2, <1>3, <1>4
  <2>4. pc' # "read" => todo - n = 0  BY <1>1, <1>2
  <2> QED  BY <1>1, <1>6, <1>7, <2>1, <2>2, <2>3, <2>4 DEF CallShape, Available
<1>13. ASSUME on # {}
       PROVE  \A i \in Len(data) + 1..Len(data) + n : data'[i] = rd + (i - Len(data))
  BY SMTT(30), <1>2, <1>3, <1>4, <1>6, <1>13
<1>14. Ordered'
  <2> SUFFICES ASSUME on # {}
      PROVE
       /\ \A i, j \in 1..Len(data) + n : i < j => data'[i] < data'[j]
       /\ \A i \in 1..Len(data) + n : 0 < data'[i] /\ data'[i] <= rd + d
       /\ \A i \in 1..Len(out) : \A m \in 1..Len(out[i].cells) :
            /\ out[i].cells[m] <= rd + d
            /\ \A j \in 1..Len(data) + n : out[i].cells[m] < data'[j]
    BY <1>1, <1>6, <1>7 DEF Ordered
  <2>1. /\ \A i, j \in 1..Len(data) : i < j => data[i] < data[j]
        /\ \A i \in 1..Len(data) : 0 < data[i] /\ data[i] <= rd
        /\ \A i \in 1..Len(out) : \A m \in 1..Len(out[i].cells) :
            /\ out[i].cells[m] <= rd
            /\ \A j \in 1..Len(data) : out[i].cells[m] < data[j]
    <3>1. at + 1 = 1  BY <1>7
    <3> QED  BY <3>1, <1>0, <1>7 DEF Ordered
  <2>2. \A i \in 1..Len(data) : data[i] \in Nat  BY <1>0, Facts
  <2>3. \A i \in 1..Len(out) : \A m \in 1..Len(out[i].cells) : out[i].cells[m] \in Nat
    BY <1>0, Facts
  <2>4. \A i \in 1..Len(data) + n : i \in 1..Len(data) \/ i \in Len(data) + 1..Len(data) + n
    BY <1>2, <1>3
  <2>5. \A i \in 1..Len(data) : data'[i] = data[i]  BY <1>6
  <2>6. \A i \in Len(data) + 1..Len(data) + n : data'[i] = rd + (i - Len(data))
    BY <1>13
  <2>7. ASSUME NEW i \in 1..Len(data) + n, NEW j \in 1..Len(data) + n, i < j
        PROVE  data'[i] < data'[j]
    <3>1. CASE j \in 1..Len(data)
      <4>1. i \in 1..Len(data)  BY <3>1, <2>7, <1>2
      <4> QED  BY <4>1, <3>1, <2>1, <2>5, <2>7
    <3>2. CASE i \in 1..Len(data) /\ j \in Len(data) + 1..Len(data) + n
      <4>1. data'[i] = data[i] /\ data[i] \in Nat /\ data[i] <= rd
        BY <3>2, <2>1, <2>2, <2>5
      <4>2. data'[j] = rd + (j - Len(data)) /\ j - Len(data) \in Nat /\ j - Len(data) > 0
        BY <3>2, <2>6, <1>2, <1>3
      <4> QED  BY <4>1, <4>2, <1>2, <1>3
    <3>3. CASE i \in Len(data) + 1..Len(data) + n
      <4>1. j \in Len(data) + 1..Len(data) + n  BY <3>3, <2>7, <1>2, <1>3
      <4> QED  BY <4>1, <3>3, <2>6, <2>7, <1>2, <1>3
    <3> QED  BY <3>1, <3>2, <3>3, <2>4
  <2>8. ASSUME NEW i \in 1..Len(data) + n
        PROVE  0 < data'[i] /\ data'[i] <= rd + d
    <3>1. CASE i \in 1..Len(data)  BY SMTT(30), <3>1, <2>1, <2>2, <2>5, <1>2, <1>3
    <3>2. CASE i \in Len(data) + 1..Len(data) + n
      BY <3>2, <2>6, <1>2, <1>3, <1>4
    <3> QED  BY <3>1, <3>2, <2>4
  <2>9. ASSUME NEW i \in 1..Len(out), NEW m \in 1..Len(out[i].cells)
        PROVE  /\ out[i].cells[m] <= rd + d
               /\ \A j \in 1..Len(data) + n : out[i].cells[m] < data'[j]
    <3>1. out[i].cells[m] \in Nat /\ out[i].cells[m] <= rd  BY <2>1, <2>3
    <3>2. out[i].cells[m] <= rd + d  BY SMTT(30), <3>1, <1>2, <1>3
    <3>3. ASSUME NEW j \in 1..Len(data) + n
          PROVE  out[i].cells[m] < data'[j]
      <4>1. CASE j \in 1..Len(data)  BY <4>1, <2>1, <2>5
      <4>2. CASE j \in Len(data) + 1..Len(data) + n
        <5>1. data'[j] = rd + (j - Len(data)) /\ j - Len(data) \in Nat /\ j - Len(data) > 0
          BY SMTT(30), <4>2, <2>6, <1>2, <1>3
        <5> QED  BY SMTT(30), <5>1, <3>1, <1>2
      <4> QED  BY <4>1, <4>2, <2>4
    <3> QED  BY <3>2, <3>3
  <2> QED  BY <2>7, <2>8, <2>9
<1>15. on # {} => NextCell' = NextCell
  <2> SUFFICES ASSUME on # {} PROVE NextCell' = NextCell
    OBVIOUS
  <2>1. NextCell' = (rd + n) - (Len(data) + n) + 0 + 1
    BY <1>1, <1>4, <1>6, <1>7 DEF NextCell
  <2>2. NextCell = rd - Len(data) + 0 + 1  BY <1>7 DEF NextCell
  <2> QED  BY <2>1, <2>2, <1>2, <1>3
<1>16. Aligned'
  <2> SUFFICES ASSUME ~lost, on # {}
               PROVE  /\ Len(data) + n <= rd + d
                      /\ \A i \in 1..Len(data) + n : data'[i] = (rd + d) - (Len(data) + n) + i
                      /\ FrameStart(NextCell)'
    BY <1>1, <1>6, <1>7 DEF Aligned
  <2>1. /\ Len(data) <= rd
        /\ \A i \in 1..Len(data) : data[i] = rd - Len(data) + i
        /\ FrameStart(NextCell)
    BY <1>0, <1>7 DEF Aligned
  <2>2. FrameStart(NextCell)'  BY <2>1, <1>1, <1>15 DEF FrameStart
  <2>3. ASSUME NEW i \in 1..Len(data) + n
        PROVE  data'[i] = (rd + d) - (Len(data) + n) + i
    <3>0. (rd + d) - (Len(data) + n) + i = rd - Len(data) + i  BY <1>2, <1>3, <1>4
    <3>1. CASE i \in 1..Len(data)  BY <3>0, <3>1, <2>1, <1>6
    <3>2. CASE i \in Len(data) + 1..Len(data) + n
      <4>1. data'[i] = rd + (i - Len(data))  BY <3>2, <1>13
      <4> QED  BY <4>1, <3>0, <3>2, <1>2, <1>3
    <3> QED  BY <3>1, <3>2, <1>2, <1>3
  <2>4. Len(data) + n <= rd + d  BY <2>1, <1>2, <1>3, <1>4
  <2> QED  BY <2>2, <2>3, <2>4
<1>17. Delivered'
  <2> SUFFICES ASSUME ~lost, NEW p \in 1..Len(stream), Due(p), p < NextCell'
               PROVE  Pushed(p)
    BY <1>1, Unpushed DEF Delivered
  <2>1. on # {}  BY DEF Due
  <2> QED  BY <2>1, <1>0, <1>15 DEF Delivered
<1>18. LeftShort'
  <2> SUFFICES ASSUME pc' = "read", data' = left
               PROVE  FALSE
    BY <1>1 DEF LeftShort
  <2>1. n > 0  BY <1>1, <1>3
  <2>2. Len(left) <= Len(data)  BY <1>0, <1>1 DEF CallShape
  <2> QED  BY <2>1, <2>2, <1>2, <1>3, <1>6
<1> QED
  BY <1>8, <1>9, <1>10, <1>11, <1>12, <1>14, <1>16, <1>17, <1>18 DEF IInv, TypeOK

\* Nothing lost: the header that the driver sees is the one the DMP wrote.
LEMMA HeaderSeen ==
  ASSUME IInv, ~lost, on # {}, NEW s, Header(s)
  PROVE  /\ NextCell \in Nat /\ NextCell \in 1..Len(stream) /\ NextCell <= rd
         /\ NextCell = rd - Len(data) + at + 1
         /\ stream[NextCell] # "payload" /\ s = stream[NextCell]
<1>0. TypeOK /\ Aligned  BY DEF IInv
<1>1. pc = "parse" /\ Buf = data /\ Len(data) - at >= HeaderedNormal /\ s \in Looks(data[at + 1])
  BY DEF Header, Buf, Rest
<1>2. /\ rd \in Nat /\ Len(stream) \in Nat /\ rd <= Len(stream)
      /\ Len(data) \in Nat /\ at \in Nat /\ at <= Len(data)
  BY <1>0, Facts
<1>3. at + 1 \in 1..Len(data)  BY <1>1, <1>2, Sizes
<1>4. /\ Len(data) <= rd /\ data[at + 1] = rd - Len(data) + (at + 1) /\ FrameStart(NextCell)
  BY <1>0, <1>1, <1>3 DEF Aligned
<1>5. NextCell = rd - Len(data) + at + 1  BY <1>1 DEF NextCell
<1>6. /\ NextCell \in Nat /\ NextCell \in 1..Len(stream) /\ NextCell <= rd
      /\ data[at + 1] = NextCell /\ NextCell > 0
  BY <1>2, <1>3, <1>4, <1>5
<1>7. stream[NextCell] # "payload"  BY <1>2, <1>4, <1>6 DEF FrameStart, StartsAt
<1>8. s = stream[NextCell]  BY <1>1, <1>6, <1>7 DEF Looks
<1> QED  BY <1>5, <1>6, <1>7, <1>8

\* The driver steps over k bytes, those of a frame unless cells were lost.
LEMMA ParseStep ==
  ASSUME IInv, NEW s, Header(s), NEW k \in Nat, k > 0, Rest >= k, at' = at + k, Parsing,
         ~lost /\ on # {} => k = SampleSize(s)
  PROVE  /\ at' \in 0..Len(data) /\ Buf = data /\ Buf' = data
         /\ CallShape' /\ LeftOverFits' /\ StreamFramed' /\ LeftShort' /\ Aligned'
         /\ \A q \in 1..Len(stream) :
              ~lost /\ Due(q) /\ q < NextCell' => Pushed(q) \/ (q = NextCell /\ stream[q] = s)
<1>0. /\ TypeOK /\ StreamFramed /\ CallShape /\ Aligned /\ Delivered /\ LeftOverFits
  BY DEF IInv
<1>1. /\ UNCHANGED <<stream, owed, running, enabled, on, batchOn, data, todo, pc, job, goal,
                     rd, fifoCount, left, lost, faults>>
      /\ pc = "parse" /\ Len(data) - at >= k
  BY DEF Parsing, chipVars, userVars, Header, Rest
<1>2. /\ rd \in Nat /\ Len(stream) \in Nat /\ rd <= Len(stream)
      /\ Len(data) \in Nat /\ at \in Nat /\ at <= Len(data) /\ on \subseteq Sensors
  BY <1>0, Facts
<1>3. at' \in 0..Len(data) /\ Buf = data /\ Buf' = data
  BY <1>1, <1>2 DEF Buf
<1>4. CallShape' /\ LeftOverFits' /\ StreamFramed' /\ LeftShort'
  BY <1>0, <1>1 DEF CallShape, LeftOverFits, StreamFramed, LeftShort, Available
<1>5. ASSUME ~lost, on # {}
      PROVE  /\ FrameStart(NextCell + k) /\ NextCell' = NextCell + k /\ NextCell \in Nat
             /\ NextCell \in 1..Len(stream) /\ stream[NextCell] = s
             /\ \A q \in NextCell + 1..Len(stream) : q < NextCell + k => stream[q] = "payload"
  <2>1. /\ NextCell \in Nat /\ NextCell \in 1..Len(stream) /\ NextCell <= rd
        /\ NextCell = rd - Len(data) + at + 1
        /\ stream[NextCell] # "payload" /\ s = stream[NextCell]
    BY <1>5, HeaderSeen
  <2>2. NextCell' = rd - Len(data) + (at + k) + 1  BY <1>1, <1>3 DEF NextCell
  <2>3. NextCell' = NextCell + k  BY <2>1, <2>2, <1>2
  <2> DEFINE e == NextCell + k - 1
  <2>4. e \in Nat /\ e = NextCell + k - 1 /\ e <= rd /\ e + 1 = NextCell + k
    BY <2>1, <1>1, <1>2
  <2> HIDE DEF e
  <2>5. e = NextCell + SampleSize(stream[NextCell]) - 1  BY <2>1, <2>4, <1>5
  <2>6. /\ \A q \in NextCell + 1..Len(stream) : q <= e => stream[q] = "payload"
        /\ e <= Len(stream) => StartsAt(stream, owed, e + 1)
    BY <2>1, <2>5, <1>0 DEF StreamFramed, Framed
  <2>7. FrameStart(NextCell + k)  BY <2>4, <2>6, <1>2 DEF FrameStart
  <2>8. ASSUME NEW q \in NextCell + 1..Len(stream), q < NextCell + k
        PROVE  stream[q] = "payload"
    <3>1. q <= e  BY <2>1, <2>4, <2>8, <1>2
    <3> QED  BY <3>1, <2>6
  <2> QED  BY <2>1, <2>3, <2>7, <2>8
<1>6. Aligned'
  <2> SUFFICES ASSUME ~lost, on # {}
               PROVE  /\ Len(data) <= rd
                      /\ \A i \in 1..Len(data) : data[i] = rd - Len(data) + i
                      /\ FrameStart(NextCell)'
    BY <1>1, <1>3 DEF Aligned
  <2>1. FrameStart(NextCell)'  BY <1>1, <1>5 DEF FrameStart
  <2> QED  BY <2>1, <1>0, <1>3 DEF Aligned
<1>7. ASSUME NEW q \in 1..Len(stream), ~lost, Due(q), q < NextCell'
      PROVE  Pushed(q) \/ (q = NextCell /\ stream[q] = s)
  <2>1. on # {} /\ stream[q] # "payload"  BY <1>2, <1>7, Names DEF Due
  <2>2. q \in Nat /\ NextCell \in Nat  BY <2>1, <1>2, <1>5, <1>7
  <2>3. CASE q < NextCell  BY <2>3, <1>0, <1>7 DEF Delivered
  <2>4. CASE q = NextCell  BY <2>1, <2>4, <1>5, <1>7
  <2>5. CASE q > NextCell
    <3>1. q \in NextCell + 1..Len(stream) /\ q < NextCell + k
      BY <2>1, <2>2, <2>5, <1>2, <1>5, <1>7
    <3> QED  BY <3>1, <2>1, <1>5, <1>7
  <2> QED  BY <2>2, <2>3, <2>4, <2>5
<1> QED  BY <1>3, <1>4, <1>6, <1>7

\* An error packet, or a header of a sensor that is off, is not a due frame.
LEMMA SkipStep ==
  ASSUME IInv, SkipErrorPacket
  PROVE  IInv'
<1>0. /\ TypeOK /\ StreamFramed /\ NothingOn /\ MarkersEmpty /\ Ordered
      /\ NoCellTwice /\ FramesIntact
  BY DEF IInv
<1>1. PICK s \in Sensors \cup {"error"} : Header(s) /\ s \notin on
  BY DEF SkipErrorPacket
<1>2. /\ UNCHANGED <<stream, owed, running, enabled, on, batchOn, data, todo, pc, job, goal,
                     rd, fifoCount, left, lost, faults, measured, out>>
      /\ at' = at + HeaderedNormal /\ Parsing /\ Rest >= HeaderedNormal
  BY <1>1 DEF SkipErrorPacket, Parsing, chipVars, userVars, Header
<1>3. ~lost /\ on # {} => HeaderedNormal = SampleSize(s)
  <2> SUFFICES ASSUME ~lost, on # {} PROVE HeaderedNormal = SampleSize(s)
    OBVIOUS
  <2>1. NextCell \in 1..Len(stream) /\ stream[NextCell] # "payload" /\ s = stream[NextCell]
    BY <1>1, HeaderSeen
  <2>2. s = "error"  BY <2>1, <1>0, <1>1 DEF StreamFramed
  <2> QED  BY <2>2, Names DEF SampleSize, Sensors
<1>4. /\ at' \in 0..Len(data) /\ Buf = data /\ Buf' = data
      /\ CallShape' /\ LeftOverFits' /\ StreamFramed' /\ LeftShort' /\ Aligned'
      /\ \A q \in 1..Len(stream) :
           ~lost /\ Due(q) /\ q < NextCell' => Pushed(q) \/ (q = NextCell /\ stream[q] = s)
  <2>1. HeaderedNormal \in Nat /\ HeaderedNormal > 0  BY Sizes
  <2> QED  BY <2>1, <1>1, <1>2, <1>3, ParseStep
<1>5. FlagsOK'  BY <1>0, <1>2, Zenon DEF TypeOK, FlagsOK
<1>6. DataOK'  BY <1>0, <1>2, <1>4 DEF TypeOK, DataOK
<1>7. NothingOn' /\ MarkersEmpty' /\ NoCellTwice' /\ FramesIntact'
  BY <1>2, Unpushed
<1>8. Ordered'
  <2>1. at \in Nat /\ Len(data) \in Nat  BY <1>0, Facts
  <2>2. \A j \in at' + 1..Len(data) : j \in at + 1..Len(data)  BY <2>1, <1>2, Sizes
  <2> QED  BY <2>2, <1>0, <1>2, <1>4 DEF Ordered
<1>9. Delivered'
  <2> SUFFICES ASSUME ~lost, NEW q \in 1..Len(stream), Due(q), q < NextCell'
               PROVE  Pushed(q)
    BY <1>2, Unpushed DEF Delivered
  <2>1. stream[q] # s  BY <1>1 DEF Due
  <2> QED  BY <2>1, <1>4
<1> QED  BY <1>4, <1>5, <1>6, <1>7, <1>8, <1>9 DEF IInv, TypeOK

\* A frame is pushed: its cells come before those the driver still holds.
LEMMA PushStep ==
  ASSUME IInv, PushFrame
  PROVE  IInv'
<1>0. /\ TypeOK /\ StreamFramed /\ NothingOn /\ MarkersEmpty /\ Ordered
      /\ NoCellTwice /\ FramesIntact /\ CallShape /\ Aligned
  BY DEF IInv
<1>1. PICK s \in on : /\ Header(s) /\ Rest >= SampleSize(s) /\ at' = at + SampleSize(s)
                      /\ out' = Append(out, Frame(s))
  BY DEF PushFrame
<1>2. /\ UNCHANGED <<stream, owed, running, enabled, on, batchOn, data, todo, pc, job, goal,
                     rd, fifoCount, left, lost, faults, measured>>
      /\ Parsing /\ pc = "parse" /\ on # {}
  BY <1>1 DEF PushFrame, Parsing, chipVars, userVars, Header
<1> DEFINE k == SampleSize(s)
<1>3. k \in Nat /\ k > 0  BY Sizes
<1>4. /\ at' \in 0..Len(data) /\ Buf = data /\ Buf' = data
      /\ CallShape' /\ LeftOverFits' /\ StreamFramed' /\ LeftShort' /\ Aligned'
      /\ \A q \in 1..Len(stream) :
           ~lost /\ Due(q) /\ q < NextCell' => Pushed(q) \/ (q = NextCell /\ stream[q] = s)
  BY <1>1, <1>2, <1>3, ParseStep
<1>5. /\ at \in Nat /\ Len(data) \in Nat /\ data \in Seq(Nat) /\ Len(out) \in Nat
      /\ at + k <= Len(data) /\ on \subseteq Sensors /\ s \in Sensors /\ s \notin Markers
      /\ rd \in Nat /\ DOMAIN out = 1..Len(out)
  <2>1. s \in Sensors /\ s \notin Markers  BY <1>0, Facts, Names
  <2>2. /\ at \in Nat /\ Len(data) \in Nat /\ data \in Seq(Nat) /\ Len(out) \in Nat
        /\ rd \in Nat /\ DOMAIN out = 1..Len(out) /\ on \subseteq Sensors
    BY <1>0, Facts
  <2>3. Len(data) - at >= k  BY <1>1 DEF Rest
  <2> HIDE DEF k
  <2> QED  BY <2>1, <2>2, <2>3, <1>3
<1> DEFINE e == Frame(s)
<1>6. /\ e.kind = s /\ e.cells \in Seq(Nat) /\ Len(e.cells) = k /\ e \in Items
      /\ \A m \in 1..k : e.cells[m] = data[at + m] /\ at + m \in 1..Len(data)
  <2> DEFINE c == SubSeq(data, at + 1, at + k)
  <2>1. /\ c \in Seq(Nat) /\ Len(c) = k
        /\ \A m \in 1..k : c[m] = data[at + m] /\ at + m \in 1..Len(data)
    <3>1. \A m \in at + 1..at + k : m \in 1..Len(data)  BY <1>3, <1>5
    <3>2. \A m \in 1..k : (at + 1) + m - 1 = at + m /\ at + m \in 1..Len(data)
      BY <1>3, <1>5
    <3> HIDE DEF k
    <3>3. c \in Seq(Nat) /\ Len(c) = k
      <4>1. at + 1 \in Int /\ at + k \in Int /\ at + 1 \in Nat /\ at + k \in Nat
            /\ (at + k) - (at + 1) + 1 = k /\ at + 1 <= at + k + 1
        BY <1>3, <1>5
      <4> QED  BY <4>1, <3>1, <1>3, <1>5, SubSeqProperties
    <3>4. \A m \in 1..k : c[m] = data[(at + 1) + m - 1]
      <4>1. \A m \in 1..k : m \in 1..(at + k) - (at + 1) + 1  BY <1>3, <1>5
      <4> QED  BY <4>1, <3>1, <1>3, <1>5, SubSeqProperties
    <3> QED  BY <3>2, <3>3, <3>4
  <2>2. e = [kind |-> s, cells |-> c]  BY DEF Frame
  <2> HIDE DEF c, e
  <2> QED  BY <1>5, <2>1, <2>2 DEF Items
<1> HIDE DEF e, k
<1>7. /\ \A i, j \in 1..Len(data) : i < j => data[i] < data[j]
      /\ \A i \in 1..Len(data) : 0 < data[i] /\ data[i] <= rd
      /\ \A i \in 1..Len(out) : \A m \in 1..Len(out[i].cells) :
          /\ out[i].cells[m] <= rd
          /\ \A j \in at + 1..Len(data) : out[i].cells[m] < data[j]
  BY <1>0, <1>2, <1>4 DEF Ordered
<1>8. /\ out' \in Seq(Items) /\ Len(out') = Len(out) + 1
      /\ \A i \in 1..Len(out) : out'[i] = out[i]
      /\ out'[Len(out) + 1] = e
      /\ NoCellTwice'
  <2>1. ASSUME NEW m \in 1..Len(e.cells), NEW n \in 1..Len(e.cells), m < n
        PROVE  e.cells[m] < e.cells[n]
    <3>1. m \in 1..k /\ n \in 1..k /\ at + m < at + n  BY <2>1, <1>3, <1>5, <1>6
    <3> QED  BY <3>1, <1>6, <1>7
  <2>2. ASSUME NEW i \in 1..Len(out), NEW m \in 1..Len(out[i].cells), NEW n \in 1..Len(e.cells)
        PROVE  out[i].cells[m] < e.cells[n]
    <3>1. n \in 1..k /\ at + n \in at + 1..Len(data)  BY <1>3, <1>5, <1>6
    <3> QED  BY <3>1, <1>6, <1>7
  <2>3. out' = Append(out, e)  BY <1>1 DEF e
  <2> QED  BY <2>1, <2>2, <2>3, <1>0, <1>6, AppendOut
<1>9. FlagsOK'  BY <1>0, <1>2, Zenon DEF TypeOK, FlagsOK
<1>10. DataOK'  BY <1>0, <1>2, <1>4, <1>8 DEF TypeOK, DataOK
<1>11. NothingOn'  BY <1>2 DEF NothingOn
<1>12. MarkersEmpty'
  <2>1. \A i \in 1..Len(out') : i \in 1..Len(out) \/ i = Len(out) + 1  BY <1>5, <1>8
  <2> QED  BY <2>1, <1>0, <1>5, <1>6, <1>8 DEF MarkersEmpty
<1>13. Ordered'
  <2> SUFFICES ASSUME NEW i \in 1..Len(out) + 1, NEW m \in 1..Len(out'[i].cells)
               PROVE  /\ out'[i].cells[m] <= rd
                      /\ \A j \in at' + 1..Len(data) : out'[i].cells[m] < data[j]
    BY <1>2, <1>4, <1>7, <1>8 DEF Ordered
  <2>1. \A j \in at' + 1..Len(data) : j \in at + 1..Len(data) /\ at + k < j
    BY <1>1, <1>3, <1>5 DEF k
  <2>2. CASE i \in 1..Len(out)  BY <2>1, <2>2, <1>7, <1>8
  <2>3. CASE i = Len(out) + 1
    <3>1. m \in 1..k /\ out'[i].cells[m] = data[at + m] /\ at + m \in 1..Len(data)
      BY <2>3, <1>6, <1>8
    <3>2. ASSUME NEW j \in at' + 1..Len(data)
          PROVE  data[at + m] < data[j]
      <4>1. j \in 1..Len(data) /\ at + m < j  BY SMTT(30), <2>1, <3>1, <1>3, <1>5
      <4> QED  BY <4>1, <3>1, <1>7
    <3> QED  BY <3>1, <3>2, <1>7
  <2> QED  BY <2>2, <2>3, <1>5
<1>14. ~lost => /\ NextCell \in 1..Len(stream) /\ s = stream[NextCell]
                /\ e.cells = FrameAt(NextCell)
  <2> SUFFICES ASSUME ~lost
               PROVE  /\ NextCell \in 1..Len(stream) /\ s = stream[NextCell]
                      /\ e.cells = FrameAt(NextCell)
    OBVIOUS
  <2>1. /\ NextCell \in Nat /\ NextCell \in 1..Len(stream) /\ s = stream[NextCell]
        /\ NextCell = rd - Len(data) + at + 1
    BY <1>1, <1>2, HeaderSeen
  <2>2. \A i \in 1..Len(data) : data[i] = rd - Len(data) + i
    BY <1>0, <1>2, <1>4 DEF Aligned
  <2>3. ASSUME NEW m \in 1..k
        PROVE  e.cells[m] = NextCell + m - 1
    <3>1. e.cells[m] = rd - Len(data) + (at + m)  BY <1>6, <2>2
    <3> QED  BY <3>1, <2>1, <1>3, <1>5
  <2>4. e.cells = [m \in 1..k |-> e.cells[m]]  BY <1>6
  <2>5. FrameAt(NextCell) = [m \in 1..k |-> NextCell + m - 1]  BY <2>1 DEF FrameAt, k
  <2> QED  BY <2>1, <2>3, <2>4, <2>5
<1>15. FramesIntact'
  <2> SUFFICES ASSUME ~lost, NEW i \in 1..Len(out) + 1, out'[i].kind \notin Markers
               PROVE  \E p \in DOMAIN stream : out'[i] = [kind |-> stream[p], cells |-> FrameAt(p)]
    BY <1>2, <1>8 DEF FramesIntact, FrameAt
  <2>1. CASE i \in 1..Len(out)  BY <2>1, <1>0, <1>5, <1>8 DEF FramesIntact
  <2>2. CASE i = Len(out) + 1
    <3>1. NextCell \in DOMAIN stream  BY <1>0, <1>14, Facts
    <3>2. e = [kind |-> s, cells |-> e.cells]  BY DEF e, Frame
    <3>3. out'[i] = [kind |-> stream[NextCell], cells |-> FrameAt(NextCell)]
      <4>1. out'[i] = e  BY <2>2, <1>8
      <4>2. s = stream[NextCell] /\ e.cells = FrameAt(NextCell)  BY <1>14
      <4> QED  BY <4>1, <4>2, <3>2, Zenon
    <3> WITNESS NextCell \in DOMAIN stream
    <3> QED  BY <3>3
  <2>3. i \in 1..Len(out) \/ i = Len(out) + 1  BY <1>5
  <2> QED  BY <2>1, <2>2, <2>3, Zenon
<1>16. Delivered'
  <2> SUFFICES ASSUME ~lost, NEW q \in 1..Len(stream), Due(q), q < NextCell'
               PROVE  \E i \in DOMAIN out' : out'[i].cells = FrameAt(q)
    BY <1>2 DEF Delivered, Due, Pushed, FrameAt
  <2>1. CASE Pushed(q)
    <3>1. PICK i \in DOMAIN out : out[i].cells = FrameAt(q)  BY <2>1 DEF Pushed
    <3> QED  BY <3>1, <1>5, <1>8
  <2>2. CASE q = NextCell  BY SMTT(30), <2>2, <1>5, <1>8, <1>14
  <2>3. CASE q # NextCell
    <3> QED  BY <2>1, <2>3, <1>4
  <2> QED  BY <2>1, <2>2, <2>3
<1> QED
  BY <1>4, <1>8, <1>9, <1>10, <1>11, <1>12, <1>13, <1>15, <1>16 DEF IInv, TypeOK

\* A discarded sample is a slave's, which is not due.
LEMMA DropStep ==
  ASSUME IInv, DropSlaveSample
  PROVE  IInv'
<1>0. /\ TypeOK /\ Ordered
  BY DEF IInv
<1>1. PICK s \in on \cap Slaves : /\ Header(s) /\ Rest >= SampleSize(s)
                                  /\ at' = at + SampleSize(s) /\ measured' = measured \cup {s}
  BY DEF DropSlaveSample
<1>2. /\ UNCHANGED <<stream, owed, running, enabled, on, batchOn, data, todo, pc, job, goal,
                     rd, fifoCount, left, lost, faults, out>>
      /\ Parsing
  BY DEF DropSlaveSample, Parsing, chipVars, userVars
<1>3. SampleSize(s) \in Nat /\ SampleSize(s) > 0  BY Sizes
<1>4. /\ at' \in 0..Len(data) /\ Buf = data /\ Buf' = data
      /\ CallShape' /\ LeftOverFits' /\ StreamFramed' /\ LeftShort' /\ Aligned'
      /\ \A q \in 1..Len(stream) :
           ~lost /\ Due(q) /\ q < NextCell' => Pushed(q) \/ (q = NextCell /\ stream[q] = s)
  BY <1>1, <1>2, <1>3, ParseStep
<1>5. FlagsOK'  BY <1>0, <1>2, Zenon DEF TypeOK, FlagsOK
<1>6. DataOK'
  <2>1. measured' \in SUBSET Sensors  BY <1>0, <1>1 DEF TypeOK, DataOK
  <2> QED  BY <1>0, <1>2, <1>4, <2>1 DEF TypeOK, DataOK
<1>7. NothingOn' /\ MarkersEmpty' /\ NoCellTwice' /\ FramesIntact'
  BY <1>2, Unpushed
<1>8. Ordered'
  <2>1. at \in Nat /\ Len(data) \in Nat  BY <1>0, Facts
  <2>2. \A j \in at' + 1..Len(data) : j \in at + 1..Len(data)  BY <2>1, <1>1, <1>3
  <2> QED  BY <2>2, <1>0, <1>2, <1>4 DEF Ordered
<1>9. Delivered'
  <2> SUFFICES ASSUME ~lost, NEW q \in 1..Len(stream), Due(q), q < NextCell'
               PROVE  Pushed(q)
    BY <1>2, Unpushed DEF Delivered
  <2>1. stream[q] # s  BY <1>1 DEF Due
  <2> QED  BY <2>1, <1>4
<1> QED  BY <1>4, <1>5, <1>6, <1>7, <1>8, <1>9 DEF IInv, TypeOK

\* The call ends when what is left is less than the frame it begins.
LEMMA FinishStep ==
  ASSUME IInv, Finish
  PROVE  IInv'
<1>0. /\ TypeOK /\ StreamFramed /\ CallShape /\ NothingOn /\ MarkersEmpty /\ Ordered
      /\ NoCellTwice /\ Aligned /\ FramesIntact /\ Delivered
  BY DEF IInv
<1>1. /\ UNCHANGED <<stream, owed, running, enabled, on, batchOn, todo, rd, fifoCount,
                     measured, lost, faults>>
      /\ left' = SubSeq(data, at + 1, Len(data)) /\ data' = <<>> /\ at' = 0 /\ goal' = 0
      /\ pc = "parse" /\ pc' = "idle" /\ job' = "irq" /\ Incomplete
  BY DEF Finish, chipVars, userVars
<1>2. /\ rd \in Nat /\ Len(stream) \in Nat /\ rd <= Len(stream)
      /\ Len(data) \in Nat /\ at \in Nat /\ at <= Len(data) /\ data \in Seq(Nat)
      /\ Len(out) \in Nat /\ DOMAIN out = 1..Len(out) /\ out \in Seq(Items)
      /\ on \subseteq Sensors
  BY <1>0, Facts
<1> DEFINE r == Len(data) - at
<1>3. r \in Nat /\ Rest = r  BY <1>2 DEF Rest
<1>4. /\ left' \in Seq(Nat) /\ Len(left') = r
      /\ \A i \in 1..r : left'[i] = data[at + i] /\ at + i \in 1..Len(data)
  <2>1. \A i \in at + 1..Len(data) : data[i] \in Nat  BY SMTT(30), <1>0, <1>2, Facts
  <2>2. /\ SubSeq(data, at + 1, Len(data)) \in Seq(Nat)
        /\ Len(SubSeq(data, at + 1, Len(data)))
             = IF at + 1 <= Len(data) THEN Len(data) - (at + 1) + 1 ELSE 0
        /\ \A i \in 1..Len(data) - (at + 1) + 1 :
             SubSeq(data, at + 1, Len(data))[i] = data[(at + 1) + i - 1]
    BY <2>1, <1>2, SubSeqProperties
  <2>3. Len(data) - (at + 1) + 1 = r /\ (~(at + 1 <= Len(data)) => r = 0)  BY <1>2
  <2>4. \A i \in 1..r : (at + 1) + i - 1 = at + i /\ at + i \in 1..Len(data)
    BY <1>2
  <2> QED  BY <2>2, <2>3, <2>4, <1>1
<1> HIDE DEF r
<1>5. Buf = data /\ Buf' = left'  BY <1>1 DEF Buf
<1>6. \/ out' = out
      \/ \E m \in Markers : out' = Append(out, Marker(m))
  BY DEF Finish, Markers
<1>7. /\ out' \in Seq(Items) /\ Len(out') \in Nat /\ Len(out) <= Len(out')
      /\ DOMAIN out' = 1..Len(out')
      /\ \A i \in 1..Len(out) : out'[i] = out[i] /\ i \in 1..Len(out')
      /\ \A i \in 1..Len(out') : i \in 1..Len(out) \/
           (out'[i].kind \in Markers /\ out'[i].cells = <<>>)
      /\ NoCellTwice'
  <2>1. CASE out' = out  BY <2>1, <1>0, <1>2 DEF NoCellTwice
  <2>2. CASE \E m \in Markers : out' = Append(out, Marker(m))
    <3>0. PICK m \in Markers : out' = Append(out, Marker(m))  BY <2>2
    <3>1. Marker(m) \in Items /\ Marker(m).cells = <<>> /\ Marker(m).kind = m
      <4>1. <<>> \in Seq(Nat)  OBVIOUS
      <4> QED  BY <4>1 DEF Marker, Items
    <3>2. \A n : n \notin 1..Len(Marker(m).cells)  BY <3>1
    <3>3. /\ out' \in Seq(Items) /\ Len(out') = Len(out) + 1
          /\ \A i \in 1..Len(out) : out'[i] = out[i]
          /\ out'[Len(out) + 1] = Marker(m)
          /\ NoCellTwice'
      BY <3>0, <3>1, <3>2, <1>0, AppendOut
    <3>4. DOMAIN out' = 1..Len(out') /\ Len(out') \in Nat /\ Len(out) <= Len(out')
      BY <3>3, <1>2
    <3>5. \A i \in 1..Len(out) : i \in 1..Len(out')  BY <3>3, <1>2
    <3>6. ASSUME NEW i \in 1..Len(out'), i \notin 1..Len(out)
          PROVE  out'[i].kind \in Markers /\ out'[i].cells = <<>>
      <4>1. i = Len(out) + 1  BY <3>3, <3>6, <1>2
      <4> QED  BY <4>1, <3>1, <3>3
    <3> QED  BY <3>3, <3>4, <3>5, <3>6
  <2> QED  BY <2>1, <2>2, <1>6
<1>8. FlagsOK'  BY <1>0, <1>1, Zenon DEF TypeOK, FlagsOK
<1>9. DataOK'
  <2>1. data' \in Seq(Nat) /\ at' \in 0..Len(data')  BY <1>1
  <2> QED  BY <2>1, <1>0, <1>1, <1>4, <1>7 DEF TypeOK, DataOK
<1>10. LeftOverFits'
  <2>1. CASE Rest < HeaderedNormal
    BY <2>1, <1>3, <1>4, Sizes DEF LeftOverFits, SampleSize, HeaderedQ
  <2>2. CASE \E s \in on : Header(s) /\ Rest < SampleSize(s)
    BY <2>2, <1>3, <1>4, Sizes DEF LeftOverFits
  <2> QED  BY <2>1, <2>2, <1>1 DEF Incomplete
<1>11. StreamFramed' /\ CallShape'
  BY <1>0, <1>1 DEF StreamFramed, CallShape
<1>12. NothingOn' /\ MarkersEmpty'
  BY <1>0, <1>1, <1>7 DEF NothingOn, MarkersEmpty
<1>13. Ordered'
  <2> SUFFICES ASSUME on # {}
      PROVE
       /\ \A i, j \in 1..r : i < j => left'[i] < left'[j]
       /\ \A i \in 1..r : 0 < left'[i] /\ left'[i] <= rd
       /\ \A i \in 1..Len(out') : \A m \in 1..Len(out'[i].cells) :
            /\ out'[i].cells[m] <= rd
            /\ \A j \in 1..r : out'[i].cells[m] < left'[j]
    BY SMTT(30), <1>1, <1>4, <1>5 DEF Ordered
  <2>1. /\ \A i, j \in 1..Len(data) : i < j => data[i] < data[j]
        /\ \A i \in 1..Len(data) : 0 < data[i] /\ data[i] <= rd
        /\ \A i \in 1..Len(out) : \A m \in 1..Len(out[i].cells) :
            /\ out[i].cells[m] <= rd
            /\ \A j \in at + 1..Len(data) : out[i].cells[m] < data[j]
    BY <1>0, <1>5 DEF Ordered
  <2>2. ASSUME NEW i \in 1..r, NEW j \in 1..r, i < j
        PROVE  left'[i] < left'[j]
    <3>1. at + i \in 1..Len(data) /\ at + j \in 1..Len(data) /\ at + i < at + j
      BY <2>2, <1>2, <1>3, <1>4
    <3> QED  BY <3>1, <2>1, <1>4
  <2>3. \A i \in 1..r : 0 < left'[i] /\ left'[i] <= rd  BY <2>1, <1>4
  <2>4. ASSUME NEW i \in 1..Len(out'), NEW m \in 1..Len(out'[i].cells)
        PROVE  /\ out'[i].cells[m] <= rd
               /\ \A j \in 1..r : out'[i].cells[m] < left'[j]
    <3>1. i \in 1..Len(out) /\ out'[i] = out[i]
      <4>1. CASE out'[i].cells = <<>>
        <5>1. m \in 1..0  BY <2>4, <4>1
        <5> QED  BY <5>1
      <4> QED  BY <4>1, <1>7
    <3>2. \A j \in 1..r : at + j \in at + 1..Len(data)  BY <1>2, <1>3, <1>4
    <3> QED  BY <3>1, <3>2, <2>1, <1>4
  <2> QED  BY <2>2, <2>3, <2>4
<1>14. NextCell = rd - Len(data) + at + 1 /\ NextCell' = rd - r + 0 + 1 /\ NextCell' = NextCell
  <2>1. NextCell = rd - Len(data) + at + 1 /\ NextCell' = rd - r + 0 + 1
    BY <1>1, <1>4, <1>5 DEF NextCell
  <2> QED  BY <2>1, <1>2 DEF r
<1>15. Aligned'
  <2> SUFFICES ASSUME ~lost, on # {}
               PROVE  /\ r <= rd
                      /\ \A i \in 1..r : left'[i] = rd - r + i
                      /\ FrameStart(NextCell)'
    BY <1>1, <1>4, <1>5 DEF Aligned
  <2>1. /\ Len(data) <= rd
        /\ \A i \in 1..Len(data) : data[i] = rd - Len(data) + i
        /\ FrameStart(NextCell)
    BY <1>0, <1>5 DEF Aligned
  <2>2. FrameStart(NextCell)'  BY <2>1, <1>1, <1>14 DEF FrameStart
  <2>3. ASSUME NEW i \in 1..r
        PROVE  left'[i] = rd - r + i
    <3>1. left'[i] = rd - Len(data) + (at + i)  BY <2>1, <1>4
    <3> QED  BY <3>1, <1>2 DEF r
  <2>4. r <= rd  BY <2>1, <1>2 DEF r
  <2> QED  BY <2>2, <2>3, <2>4
<1>16. FramesIntact'
  <2> SUFFICES ASSUME ~lost, NEW i \in 1..Len(out'), out'[i].kind \notin Markers
               PROVE  \E p \in DOMAIN stream : out'[i] = [kind |-> stream[p], cells |-> FrameAt(p)]
    BY <1>1, <1>7 DEF FramesIntact, FrameAt
  <2>1. i \in DOMAIN out /\ out'[i] = out[i]  BY <1>2, <1>7
  <2> QED  BY <2>1, <1>0 DEF FramesIntact
<1>17. Delivered'
  <2> SUFFICES ASSUME ~lost, NEW q \in 1..Len(stream), Due(q), q < NextCell
               PROVE  \E i \in DOMAIN out' : out'[i].cells = FrameAt(q)
    BY <1>1, <1>14 DEF Delivered, Due, Pushed, FrameAt
  <2>1. PICK i \in DOMAIN out : out[i].cells = FrameAt(q)
    BY <1>0 DEF Delivered, Pushed
  <2> QED  BY <2>1, <1>2, <1>7
<1>18. LeftShort'
  <2> SUFFICES ASSUME ~lost, on # {}, ~(r < HeaderedNormal)
               PROVE  NextCell <= Len(stream) /\ r < SampleSize(stream[NextCell])
    BY <1>1, <1>4, <1>14 DEF LeftShort
  <2>1. PICK s \in on : Header(s) /\ r < SampleSize(s)
    BY <1>1, <1>3 DEF Incomplete
  <2>2. NextCell \in 1..Len(stream) /\ s = stream[NextCell]  BY <2>1, HeaderSeen
  <2> QED  BY <2>1, <2>2, <1>2
<1> QED
  BY <1>7, <1>8, <1>9, <1>10, <1>11, <1>12, <1>13, <1>15, <1>16, <1>17, <1>18 DEF IInv, TypeOK
-----------------------------------------------------------------------------
\* IInv is an inductive invariant.
LEMMA NextIInv == IInv /\ [Next]_vars => IInv'
<1> SUFFICES ASSUME IInv, [Next]_vars PROVE IInv'
  OBVIOUS
<1>0. TypeOK /\ CallShape /\ FlagsOK /\ DataOK  BY DEF IInv, TypeOK
<1>a. Available \in Nat  BY <1>0, Facts DEF Available
<1>1. ASSUME DmpWrites PROVE IInv'
  BY <1>1, WriteStep
<1>2. ASSUME Enable PROVE IInv'
  <2>1. /\ on' \in SUBSET Sensors /\ fifoCount' \in Nat /\ faults' \in 0..MaxFaults
    BY <1>0, <1>2, ConstantsAssumption DEF Enable, DataOK
  <2>2. enabled' \in BOOLEAN /\ batchOn' \in BOOLEAN
    BY <1>2 DEF Enable
  <2> QED  BY <1>0, <1>2, <2>1, <2>2, ResetStep DEF Enable
<1>3. ASSUME Disable PROVE IInv'
  <2>1. enabled' \in BOOLEAN /\ running' \in BOOLEAN
    BY <1>0, <1>3, Zenon DEF Disable, FlagsOK
  <2>2. fifoCount' \in Nat /\ faults' \in 0..MaxFaults
    <3>1. UNCHANGED faults \/ Fault  BY <1>3, Zenon DEF Disable
    <3>2. UNCHANGED fifoCount  BY <1>3 DEF Disable
    <3> QED  BY <1>0, <3>1, <3>2, ConstantsAssumption DEF Fault, DataOK
  <2>3. pc = "idle" /\ "END_MARKER" \in Markers /\ out' = Append(out, Marker("END_MARKER"))
    BY <1>3 DEF Disable, Markers
  <2>4. UNCHANGED <<stream, owed, on, batchOn, callVars, rd, left, measured, lost>>
    BY <1>3 DEF Disable
  <2> QED  BY <2>1, <2>2, <2>3, <2>4, MarkerStep
<1>4. ASSUME OddCount PROVE IInv'
  <2>1. fifoCount' \in Nat /\ faults' \in 0..MaxFaults
    BY <1>0, <1>4, ConstantsAssumption DEF OddCount, Fault, DataOK
  <2>2. pc = "idle" /\ UNCHANGED <<userVars, callVars>>
    BY <1>4 DEF OddCount
  <2>3. CASE FifoReset
    <3>1. on' \in SUBSET Sensors  BY <1>0, <2>2 DEF DataOK, userVars
    <3>2. enabled' \in BOOLEAN /\ batchOn' \in BOOLEAN
      BY <1>0, <2>2, Zenon DEF FlagsOK, userVars
    <3> QED  BY <1>0, <2>1, <2>2, <2>3, <3>1, <3>2, ResetStep
  <2>4. CASE UNCHANGED <<chipVars, rd, left, measured, out, lost>>
    <3>1. running' \in BOOLEAN  BY <1>0, <2>4, Zenon DEF FlagsOK, chipVars
    <3>2. lost' = (lost \/ rd' # rd)  BY <1>0, <2>4 DEF FlagsOK
    <3>3. /\ UNCHANGED <<stream, owed, userVars, callVars, left, measured, out>>
          /\ rd' \in {rd, Len(stream)}
      BY <2>2, <2>4 DEF chipVars
    <3> QED  BY <2>1, <2>2, <3>1, <3>2, <3>3, IdleStep
  <2>5. CASE /\ running' = FALSE /\ rd' \in {rd, Len(stream)} /\ lost' = (lost \/ rd' # rd)
             /\ UNCHANGED <<stream, owed, left, measured, out>>
    BY <2>1, <2>2, <2>5, IdleStep
  <2> QED  BY <1>4, <2>3, <2>4, <2>5 DEF OddCount
<1>5. ASSUME IrqReads PROVE IInv'
  <2>1. CASE on # {} /\ Begin("irq", Available)
    BY <1>a, <1>5, <2>1, BeginStep DEF IrqReads
  <2>2. CASE on = {} /\ Begin("irq", fifoCount)
    <3>1. fifoCount \in Nat  BY <1>0 DEF DataOK
    <3> QED  BY <1>5, <2>2, <3>1, BeginStep DEF IrqReads
  <2> QED  BY <1>5, <2>1, <2>2 DEF IrqReads
<1>6. ASSUME FlushReads PROVE IInv'
  BY <1>a, <1>6, BeginStep DEF FlushReads
<1>7. ASSUME FlushEmpty PROVE IInv'
  <2>1. enabled' \in BOOLEAN /\ running' \in BOOLEAN
    BY <1>0, <1>7, Zenon DEF FlushEmpty, FlagsOK, chipVars, userVars
  <2>2. fifoCount' \in Nat /\ faults' \in 0..MaxFaults
    BY <1>0, <1>7 DEF FlushEmpty, DataOK
  <2>3. pc = "idle" /\ "EMPTY_MARKER" \in Markers /\ out' = Append(out, Marker("EMPTY_MARKER"))
    BY <1>7 DEF FlushEmpty, Markers
  <2>4. UNCHANGED <<stream, owed, on, batchOn, callVars, rd, left, measured, lost>>
    BY <1>7 DEF FlushEmpty, chipVars, userVars
  <2> QED  BY <2>1, <2>2, <2>3, <2>4, MarkerStep
<1>8. ASSUME OverSpec PROVE IInv'
  <2>1. enabled' \in BOOLEAN /\ running' \in BOOLEAN
    BY <1>0, <1>8, Zenon DEF OverSpec, FlagsOK, chipVars, userVars
  <2>2. fifoCount' \in Nat /\ faults' \in 0..MaxFaults
    BY <1>0, <1>8, ConstantsAssumption DEF OverSpec, Fault, DataOK
  <2>3. pc = "idle" /\ UNCHANGED <<chipVars, userVars, callVars, rd, left, measured, lost>>
    BY <1>8 DEF OverSpec
  <2>4. CASE UNCHANGED out
    <3>1. lost' = (lost \/ rd' # rd)  BY <1>0, <2>3 DEF FlagsOK
    <3>2. UNCHANGED <<stream, owed>> /\ rd' \in {rd, Len(stream)}
      BY <2>3 DEF chipVars
    <3> QED  BY <2>1, <2>2, <2>3, <2>4, <3>1, <3>2, IdleStep
  <2>5. CASE out' = Append(out, Marker("END_MARKER"))
    <3>1. UNCHANGED <<stream, owed, on, batchOn, callVars, rd, left, measured, lost>>
      BY <2>3 DEF chipVars, userVars
    <3>2. "END_MARKER" \in Markers  BY DEF Markers
    <3> QED  BY <2>1, <2>2, <2>3, <2>5, <3>1, <3>2, MarkerStep
  <2> QED  BY <1>8, <2>4, <2>5 DEF OverSpec
<1>9. CASE UNCHANGED vars
  <2>1. FlagsOK'  BY <1>0, <1>9, Zenon DEF FlagsOK, vars, chipVars, userVars
  <2>2. DataOK'  BY <1>0, <1>9 DEF DataOK, vars, chipVars, userVars, callVars
  <2>3. Buf' = Buf /\ NextCell' = NextCell /\ \A p : FrameStart(p)' = FrameStart(p)
    BY <1>9 DEF Buf, NextCell, FrameStart, vars, chipVars, userVars, callVars
  <2>4. (LeftOverFits /\ StreamFramed /\ CallShape /\ NothingOn /\ MarkersEmpty)'
    BY <1>9 DEF IInv, LeftOverFits, StreamFramed, CallShape, NothingOn, MarkersEmpty,
                Available, vars, chipVars, userVars, callVars
  <2>5. (Ordered /\ NoCellTwice /\ Aligned)'
    BY <1>9, <2>3 DEF IInv, Ordered, NoCellTwice, Aligned, vars, chipVars, userVars, callVars
  <2>6. (FramesIntact /\ Delivered /\ LeftShort)'
    BY <1>9, <2>3 DEF IInv, FramesIntact, Delivered, LeftShort, Due, Pushed, FrameAt,
                vars, chipVars, userVars, callVars
  <2> QED  BY <2>1, <2>2, <2>4, <2>5, <2>6 DEF IInv, TypeOK
<1> QED
  BY <1>1, <1>2, <1>3, <1>4, <1>5, <1>6, <1>7, <1>8, <1>9, ReadStep, FailStep,
     SkipStep, PushStep, DropStep, FinishStep DEF Next

\* After a call, a frame that has been read in full has been pushed.
LEMMA HeldBack == IInv => NothingHeldBack
<1> SUFFICES ASSUME IInv, pc = "idle", ~lost,
                    NEW p \in DOMAIN stream, Due(p), EndOf(p) <= rd
             PROVE  Pushed(p)
  BY DEF NothingHeldBack
<1>0. TypeOK /\ StreamFramed /\ CallShape /\ Aligned /\ Delivered /\ LeftShort
  BY DEF IInv
<1>1. /\ rd \in Nat /\ Len(stream) \in Nat /\ rd <= Len(stream) /\ Len(left) \in Nat
      /\ p \in 1..Len(stream) /\ p \in Nat /\ on \subseteq Sensors
  BY <1>0, Facts
<1>2. Buf = left /\ at = 0 /\ on # {} /\ stream[p] # "payload"
  BY <1>0, <1>1, Names DEF Buf, CallShape, Due
<1>3. Len(left) <= rd /\ FrameStart(NextCell) /\ NextCell = rd - Len(left) + 0 + 1
  BY <1>0, <1>2 DEF Aligned, NextCell
<1>4. NextCell \in Nat /\ NextCell \in 1..Len(stream) + 1  BY <1>1, <1>3
<1>5. CASE p < NextCell  BY <1>5, <1>0, <1>1 DEF Delivered
<1>6. CASE ~(p < NextCell)
  <2>1. NextCell \in 1..Len(stream) /\ stream[NextCell] # "payload"
    BY <1>1, <1>3, <1>4, <1>6 DEF FrameStart, StartsAt
  <2> DEFINE e == NextCell + SampleSize(stream[NextCell]) - 1
  <2>2. SampleSize(stream[NextCell]) \in Nat /\ Len(left) < SampleSize(stream[NextCell])
    <3>1. \/ Len(left) < HeaderedNormal
          \/ Len(left) < SampleSize(stream[NextCell])
      BY <1>0, <1>2 DEF LeftShort
    <3>2. /\ SampleSize(stream[NextCell]) \in Nat /\ HeaderedNormal \in Nat
          /\ HeaderedNormal <= SampleSize(stream[NextCell])
      BY Sizes
    <3> QED  BY <3>1, <3>2, <1>1
  <2>3. e \in Nat /\ e > rd  BY <2>2, <1>1, <1>3
  <2>4. \A q \in NextCell + 1..Len(stream) : q <= e => stream[q] = "payload"
    BY <2>1, <1>0 DEF StreamFramed, Framed
  <2>5. SampleSize(stream[p]) \in Nat \ {0}  BY Sizes
  <2>6. p + SampleSize(stream[p]) - 1 <= rd /\ p <= rd
    <3>1. p + SampleSize(stream[p]) - 1 <= rd  BY DEF EndOf
    <3> QED  BY <3>1, <2>5, <1>1
  <2>7. p # NextCell  BY <2>3, <2>6, <1>1
  <2>8. p \in NextCell + 1..Len(stream) /\ p <= e
    BY <2>3, <2>6, <2>7, <1>1, <1>4, <1>6
  <2> QED  BY <2>4, <2>8, <1>2
<1> QED  BY <1>5, <1>6, <1>1, <1>4

\* Every reachable state satisfies the inductive invariant.
THEOREM Invariance == Spec => []IInv
BY InitIInv, NextIInv, PTL DEF Spec

\* The variables keep their types.
THEOREM Types == Spec => []TypeOK
<1>1. IInv => TypeOK  BY DEF IInv
<1> QED  BY <1>1, Invariance, PTL

\* left_over never holds a quaternion frame, whatever is read and whenever
\* it fails: the clamp in inv_process_batchmode is never needed.
THEOREM LeftOverBound == Spec => []LeftOverFits
<1>1. IInv => LeftOverFits  BY DEF IInv
<1> QED  BY <1>1, Invariance, PTL

\* No byte of the FIFO is pushed twice, and none out of order.
THEOREM PushedOnce == Spec => []NoCellTwice
<1>1. IInv => NoCellTwice  BY DEF IInv
<1> QED  BY <1>1, Invariance, PTL

\* Frames cut by reads of any length are put together again.
THEOREM FramesPutTogether == Spec => []FramesIntact
<1>1. IInv => FramesIntact  BY DEF IInv
<1> QED  BY <1>1, Invariance, PTL

\* A call pushes every frame whose last byte it has read.
THEOREM ReadIsPushed == Spec => []NothingHeldBack
BY HeldBack, Invariance, PTL

\* A flush reports its end only after every frame that the FIFO held in full
\* when it began has been pushed.
THEOREM FlushComplete == Spec => FlushDelivers
<1>1. ASSUME IInv, [Next]_vars, IInv'
      PROVE  [pc = "parse" /\ pc' = "idle" /\ job = "flush" /\ ~lost =>
               \A p \in 1..goal : Due(p) /\ EndOf(p) <= goal => Pushed(p)']_vars
  <2> SUFFICES ASSUME Next, pc = "parse", pc' = "idle", job = "flush", ~lost,
                      NEW p \in 1..goal, Due(p), EndOf(p) <= goal
               PROVE  Pushed(p)'
    BY <1>1
  <2>1. TypeOK /\ CallShape  BY <1>1 DEF IInv
  <2>2. Finish
    BY DEF Next, DmpWrites, callVars, Enable, Disable, OddCount, IrqReads, FlushReads,
           FlushEmpty, OverSpec, ReadChunk, ReadFails, SkipErrorPacket, PushFrame,
           DropSlaveSample, Parsing
  <2>3. UNCHANGED <<stream, on, rd, lost>>
    BY <2>2 DEF Finish, chipVars, userVars
  <2>4. goal <= rd /\ goal <= Len(stream)
    <3>1. goal <= rd + todo /\ goal <= Len(stream) /\ todo = 0  BY <2>1 DEF CallShape
    <3> QED  BY <3>1, <2>1, Facts
  <2>5. p \in DOMAIN stream /\ EndOf(p) <= rd
    <3>1. /\ rd \in Nat /\ goal \in Nat /\ Len(stream) \in Nat
          /\ SampleSize(stream[p]) \in Nat
      BY <2>1, Facts, Sizes
    <3>2. DOMAIN stream = 1..Len(stream)  BY <2>1, Facts
    <3> QED  BY <3>1, <3>2, <2>4 DEF EndOf
  <2>6. NothingHeldBack'  BY <1>1, HeldBack, PTL
  <2>7. p \in DOMAIN stream' /\ Due(p)' /\ EndOf(p)' <= rd' /\ ~lost'
    BY <2>3, <2>5 DEF Due, EndOf
  <2> QED  BY <2>6, <2>7 DEF NothingHeldBack
<1> QED  BY <1>1, Invariance, PTL DEF Spec, FlushDelivers
=============================================================================
