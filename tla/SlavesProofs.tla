---------------------------- MODULE SlavesProofs ----------------------------
(***************************************************************************)
(* Proofs about Slaves, for every set of compasses that may be fitted and  *)
(* every rate.                                                             *)
(***************************************************************************)
EXTENDS Slaves, SequenceTheorems, WellFoundedInduction, TLAPS

-----------------------------------------------------------------------------
(* Sequences of register writes *)

\* How much of an ak compass channel 0 reads.
AkmBytes == (IF compass \in {"ak09911", "ak09912"} THEN 10 ELSE 9) - (IF dmpOn THEN 0 ELSE 1)

Devs == {"none", "compassR", "compassW", "auxR", "auxW"}
Regs == {"none", "mode", "data", "dmp", "calib", "pressure", "before"}
Writes == (Channels \X {"dev"} \X Devs) \cup (Channels \X {"reg"} \X Regs)
          \cup (Channels \X {"len"} \X (0..10))

\* Write w goes to field f of channel k.
Hits(w, k, f) == w[1] = k /\ w[2] = f

\* The last write of ws to field f of channel k writes v; none goes there.
Leaves(ws, k, f, v) ==
  \E i \in 1..Len(ws) : /\ Hits(ws[i], k, f) /\ ws[i][3] = v
                        /\ \A j \in 1..Len(ws) : j > i => ~Hits(ws[j], k, f)
Avoids(ws, k, f) == \A i \in 1..Len(ws) : ~Hits(ws[i], k, f)

\* A set of numbers up to n that is not empty has a greatest element.
LEMMA Greatest ==
  ASSUME NEW n \in Nat, NEW S \in SUBSET (1..n), S # {}
  PROVE  Max(S) \in S /\ \A x \in S : x <= Max(S)
<1> DEFINE Bounds == { u \in Nat : \A x \in S : x <= u }
<1>1. PICK u \in Bounds : \A v \in Bounds : u <= v
  <2>1. n \in Bounds
    OBVIOUS
  <2>2. PICK u \in Bounds : \A v \in Bounds : ~(<<v, u>> \in OpToRel(<, Nat))
    BY <2>1, NatLessThanWellFounded, WFMin
  <2>3. \A v \in Nat : v < u => <<v, u>> \in OpToRel(<, Nat)
    BY DEF OpToRel
  <2>4. \A v \in Bounds : v \in Nat /\ ~(v < u)
    BY <2>2, <2>3
  <2> QED  BY <2>4
<1>2. u \in S
  <2> SUFFICES ASSUME u \notin S PROVE FALSE
    OBVIOUS
  <2>1. \A x \in S : x \in Nat /\ x >= 1 /\ x < u
    BY <1>1
  <2>2. u \in Nat /\ u >= 1
    <3>1. PICK x : x \in S
      OBVIOUS
    <3>2. u \in Nat
      BY <1>1
    <3> QED  BY <2>1, <3>1, <3>2
  <2>3. u - 1 \in Nat /\ \A x \in S : x <= u - 1
    BY <2>1, <2>2
  <2>4. u <= u - 1
    BY <1>1, <2>3
  <2> QED  BY <2>2, <2>4
<1>3. \E x \in S : \A y \in S : x >= y
  BY <1>1, <1>2
<1> QED  BY <1>3 DEF Max

\* What a list of writes leaves in a field is what was written there last.
LEMMA LeavesWritten ==
  ASSUME NEW ws \in Seq(Writes), NEW k, NEW f, NEW v, Leaves(ws, k, f, v)
  PROVE  Written(ws, Len(ws), k, f) = v
<1> DEFINE hits == { i \in 1..Len(ws) : ws[i][1] = k /\ ws[i][2] = f }
<1>1. PICK i \in hits : ws[i][3] = v /\ \A j \in 1..Len(ws) : j > i => j \notin hits
  BY DEF Leaves, Hits
<1>2. Max(hits) = i
  <2>1. hits \in SUBSET (1..Len(ws)) /\ hits # {} /\ Len(ws) \in Nat
    BY <1>1
  <2>2. Max(hits) \in hits /\ \A x \in hits : x <= Max(hits)
    BY <2>1, Greatest
  <2> QED  BY <1>1, <2>2
<1> QED  BY <1>1, <1>2 DEF Written

\* A field that is not written keeps its value.
LEMMA AvoidsWritten ==
  ASSUME NEW ws \in Seq(Writes), NEW k, NEW f, Avoids(ws, k, f)
  PROVE  Written(ws, Len(ws), k, f) = slv[k][f]
  BY DEF Avoids, Hits, Written

\* Two lists of writes one after the other.
LEMMA ConcatWrites ==
  ASSUME NEW s \in Seq(Writes), NEW t \in Seq(Writes), NEW k, NEW f
  PROVE  /\ s \o t \in Seq(Writes)
         /\ \A v : Leaves(t, k, f, v) => Leaves(s \o t, k, f, v)
         /\ Avoids(t, k, f) => \A v : Leaves(s, k, f, v) => Leaves(s \o t, k, f, v)
         /\ Avoids(s, k, f) /\ Avoids(t, k, f) => Avoids(s \o t, k, f)
<1>1. /\ s \o t \in Seq(Writes) /\ Len(s \o t) = Len(s) + Len(t)
      /\ \A i \in 1..Len(s) : (s \o t)[i] = s[i]
      /\ \A i \in 1..Len(t) : (s \o t)[Len(s) + i] = t[i]
      /\ Len(s) \in Nat /\ Len(t) \in Nat
  OBVIOUS
<1>1a. \A i \in 1..Len(s \o t) : i \in 1..Len(s) \/ (i - Len(s) \in 1..Len(t) /\ (s \o t)[i] = t[i - Len(s)])
  BY <1>1
<1>2. ASSUME NEW v, Leaves(t, k, f, v) PROVE Leaves(s \o t, k, f, v)
  <2>1. PICK i \in 1..Len(t) : /\ Hits(t[i], k, f) /\ t[i][3] = v
                               /\ \A j \in 1..Len(t) : j > i => ~Hits(t[j], k, f)
    BY <1>2 DEF Leaves
  <2>2. ASSUME NEW j \in 1..Len(s \o t), j > Len(s) + i PROVE ~Hits((s \o t)[j], k, f)
    BY <1>1, <1>1a, <2>1, <2>2
  <2>3. Len(s) + i \in 1..Len(s \o t)
    BY <1>1, <2>1
  <2> QED  BY <1>1, <2>1, <2>2, <2>3 DEF Leaves
<1>3. ASSUME Avoids(t, k, f), NEW v, Leaves(s, k, f, v) PROVE Leaves(s \o t, k, f, v)
  <2>1. PICK i \in 1..Len(s) : /\ Hits(s[i], k, f) /\ s[i][3] = v
                               /\ \A j \in 1..Len(s) : j > i => ~Hits(s[j], k, f)
    BY <1>3 DEF Leaves
  <2>2. ASSUME NEW j \in 1..Len(s \o t), j > i PROVE ~Hits((s \o t)[j], k, f)
    BY <1>1, <1>1a, <1>3, <2>1, <2>2 DEF Avoids
  <2>3. i \in 1..Len(s \o t)
    BY <1>1, <2>1
  <2> QED  BY <1>1, <2>1, <2>2, <2>3 DEF Leaves
<1>4. ASSUME Avoids(s, k, f), Avoids(t, k, f) PROVE Avoids(s \o t, k, f)
  BY <1>1, <1>1a, <1>4 DEF Avoids
<1> QED  BY <1>1, <1>2, <1>3, <1>4

\* A list that is written only on a condition.
LEMMA WhenWrites ==
  ASSUME NEW c \in BOOLEAN, NEW s \in Seq(Writes), NEW k, NEW f
  PROVE  /\ When(c, s) \in Seq(Writes)
         /\ c => When(c, s) = s
         /\ ~c => Avoids(When(c, s), k, f)
  BY DEF When, Avoids

\* The lists the setups, resumes and suspends are made of.
LEMMA Lists ==
  /\ SetupCompassWrites \in Seq(Writes) /\ SetupPressureWrites \in Seq(Writes)
  /\ ResumeAkm \in Seq(Writes) /\ SuspendAkm \in Seq(Writes)
  /\ ResumeMlx \in Seq(Writes) /\ SuspendMlx \in Seq(Writes)
<1> USE DEF Writes, Devs, Regs, Channels
<1>1. ResumeAkm \in Seq(Writes)
  BY DEF ResumeAkm
<1>2. SuspendAkm \in Seq(Writes)
  BY DEF SuspendAkm
<1>3. ResumeMlx \in Seq(Writes) /\ SuspendMlx \in Seq(Writes)
  BY DEF ResumeMlx, SuspendMlx
<1>4. SetupPressureWrites \in Seq(Writes)
  BY DEF SetupPressureWrites
<1>5. SetupCompassWrites \in Seq(Writes)
  <2>1. /\ << <<1, "dev", "compassW">>, <<1, "reg", "mode">> >> \in Seq(Writes)
        /\ << <<0, "dev", "compassW">>, <<1, "dev", "compassR">>,
              <<2, "dev", "compassW">>, <<3, "dev", "compassR">> >> \in Seq(Writes)
        /\ <<>> \in Seq(Writes)
    OBVIOUS
  <2> QED  BY <2>1 DEF SetupCompassWrites
<1> QED  BY <1>1, <1>2, <1>3, <1>4, <1>5

\* Resume and suspend are lists of such writes.
LEMMA ListTypes ==
  ASSUME SlavesTypeOK
  PROVE  Resume \in Seq(Writes) /\ Suspend \in Seq(Writes)
<1>1. on.compass \in BOOLEAN /\ on.pressure \in BOOLEAN /\ Faked \in BOOLEAN
  BY DEF SlavesTypeOK, Faked
<1>2. /\ << <<0, "dev", "auxR">>, <<0, "reg", "calib">>, <<0, "len", 10>> >> \in Seq(Writes)
      /\ << <<2, "dev", "auxR">>, <<2, "reg", IF Padded THEN "before" ELSE "pressure">>,
            <<2, "len", IF Padded THEN 7 ELSE 6>>, <<3, "len", 1>> >> \in Seq(Writes)
      /\ << <<0, "len", 0>> >> \in Seq(Writes)
      /\ << <<2, "len", 0>>, <<3, "len", 0>> >> \in Seq(Writes)
  BY DEF Writes, Devs, Regs, Channels
<1>3. ResumeBmp280 \in Seq(Writes) /\ SuspendBmp280 \in Seq(Writes)
  BY <1>1, <1>2, WhenWrites, ConcatWrites DEF ResumeBmp280, SuspendBmp280
<1> QED  BY <1>1, <1>3, Lists, WhenWrites, ConcatWrites DEF Resume, Suspend

\* resume writes the channels in use and no other.
LEMMA ResumeWrites ==
  ASSUME SlavesTypeOK, on.compass => compass # "none"
  PROVE  /\ Resume \in Seq(Writes)
         /\ \A k \in Channels \ Used : Avoids(Resume, k, "len")
         /\ Avoids(Resume, 1, "dev")
         /\ on.compass /\ compass \in Akm =>
              /\ Leaves(Resume, 0, "dev", "compassR")
              /\ Leaves(Resume, 0, "len", AkmBytes)
         /\ on.pressure => Leaves(Resume, 2, "reg", IF Padded THEN "before" ELSE "pressure")
         /\ on.pressure /\ Faked => /\ Leaves(Resume, 0, "dev", "auxR")
                                    /\ Leaves(Resume, 0, "len", 10)
<1>0. /\ on.compass \in BOOLEAN /\ on.pressure \in BOOLEAN /\ dmpOn \in BOOLEAN
      /\ Padded \in BOOLEAN /\ Faked \in BOOLEAN
  BY DEF SlavesTypeOK, Padded, Faked
<1> DEFINE First == IF compass \in Akm THEN ResumeAkm ELSE ResumeMlx
           Fake == << <<0, "dev", "auxR">>, <<0, "reg", "calib">>, <<0, "len", 10>> >>
           Pressure == << <<2, "dev", "auxR">>, <<2, "reg", IF Padded THEN "before" ELSE "pressure">>,
                          <<2, "len", IF Padded THEN 7 ELSE 6>>, <<3, "len", 1>> >>
<1>1. /\ First \in Seq(Writes) /\ Fake \in Seq(Writes) /\ Pressure \in Seq(Writes)
  BY <1>0, Lists DEF Writes, Devs, Regs, Channels
<1>2. /\ compass \in Akm => /\ Leaves(First, 0, "dev", "compassR") /\ Leaves(First, 0, "len", AkmBytes)
                            /\ Avoids(First, 2, "len") /\ Avoids(First, 3, "len")
      /\ Avoids(First, 1, "dev")
  BY SMTT(30) DEF Leaves, Avoids, Hits, ResumeAkm, ResumeMlx, AkmBytes
<1>3. /\ Leaves(Fake, 0, "dev", "auxR") /\ Leaves(Fake, 0, "len", 10)
      /\ \A f : Avoids(Fake, 1, f) /\ Avoids(Fake, 2, f) /\ Avoids(Fake, 3, f)
  BY DEF Leaves, Avoids, Hits
<1>4. /\ Leaves(Pressure, 2, "reg", IF Padded THEN "before" ELSE "pressure")
      /\ \A f : Avoids(Pressure, 0, f) /\ Avoids(Pressure, 1, f)
  BY DEF Leaves, Avoids, Hits
<1> HIDE DEF First, Fake, Pressure
<1> DEFINE Second == When(Faked, Fake) \o Pressure
<1>5. Resume = When(on.compass, First) \o When(on.pressure, Second)
  BY DEF Resume, ResumeBmp280, First, Fake, Pressure
<1>6. /\ Second \in Seq(Writes)
      /\ \A f : Avoids(Second, 1, f)
      /\ ~Faked => \A f : Avoids(Second, 0, f)
      /\ Faked => Leaves(Second, 0, "dev", "auxR") /\ Leaves(Second, 0, "len", 10)
      /\ Leaves(Second, 2, "reg", IF Padded THEN "before" ELSE "pressure")
  BY <1>0, <1>1, <1>3, <1>4, WhenWrites, ConcatWrites
<1> HIDE DEF Second
<1>7. Faked => ~on.compass
  BY DEF Faked
<1>8. Resume \in Seq(Writes)
  BY <1>0, <1>1, <1>5, <1>6, WhenWrites, ConcatWrites
<1>9. Avoids(Resume, 1, "dev")
  BY <1>0, <1>1, <1>2, <1>5, <1>6, WhenWrites, ConcatWrites
<1>10. ASSUME on.compass, compass \in Akm
       PROVE  Leaves(Resume, 0, "dev", "compassR") /\ Leaves(Resume, 0, "len", AkmBytes)
  BY <1>0, <1>1, <1>2, <1>5, <1>6, <1>7, <1>10, WhenWrites, ConcatWrites
<1>11. ASSUME on.pressure
       PROVE  /\ Leaves(Resume, 2, "reg", IF Padded THEN "before" ELSE "pressure")
              /\ Faked => /\ Leaves(Resume, 0, "dev", "auxR") /\ Leaves(Resume, 0, "len", 10)
  BY ZenonT(60), <1>0, <1>1, <1>5, <1>6, <1>11, WhenWrites, ConcatWrites
<1>12. ASSUME NEW k \in Channels \ Used PROVE Avoids(Resume, k, "len")
  <2>1. k \in {0, 1, 2, 3}
    BY DEF Channels
  <2>2. on.compass => compass \in Akm /\ k \in {2, 3} /\ ~on.pressure
    <3>1. compass \in Akm \cup {"mlx90399", "none"}
      BY SlavesAssumption DEF SlavesTypeOK, CompassIds
    <3> QED  BY <1>12, <2>1, <3>1 DEF Used, Channels
  <2>3. Avoids(When(on.compass, First), k, "len")
    BY <1>0, <1>1, <1>2, <2>2, WhenWrites
  <2>4. on.pressure => k = 1 \/ (k = 0 /\ ~Faked)
    BY <1>12, <2>1 DEF Used
  <2>5. Avoids(When(on.pressure, Second), k, "len")
    BY <1>0, <1>6, <2>4, WhenWrites
  <2> QED  BY <1>0, <1>1, <1>5, <1>6, <2>3, <2>5, WhenWrites, ConcatWrites
<1> QED  BY <1>8, <1>9, <1>10, <1>11, <1>12

\* suspend turns off every channel in use and writes no other.
LEMMA SuspendWrites ==
  ASSUME SlavesTypeOK, on.compass => compass # "none"
  PROVE  /\ Suspend \in Seq(Writes)
         /\ \A k \in Used : Leaves(Suspend, k, "len", 0)
         /\ \A k \in Channels \ Used : Avoids(Suspend, k, "len")
         /\ \A k : Avoids(Suspend, k, "dev")
<1>0. on.compass \in BOOLEAN /\ on.pressure \in BOOLEAN /\ dmpOn \in BOOLEAN /\ Faked \in BOOLEAN
  BY DEF SlavesTypeOK, Faked
<1> DEFINE First == IF compass \in Akm THEN SuspendAkm ELSE SuspendMlx
           Fake == << <<0, "len", 0>> >>
           Pressure == << <<2, "len", 0>>, <<3, "len", 0>> >>
<1>1. First \in Seq(Writes) /\ Fake \in Seq(Writes) /\ Pressure \in Seq(Writes)
  BY <1>0, Lists DEF Writes, Channels
<1>2. /\ Leaves(First, 0, "len", 0) /\ Leaves(First, 1, "len", 0)
      /\ compass \in Akm => Avoids(First, 2, "len") /\ Avoids(First, 3, "len")
      /\ compass \notin Akm => Leaves(First, 2, "len", 0) /\ Leaves(First, 3, "len", 0)
      /\ \A k : Avoids(First, k, "dev")
  BY DEF Leaves, Avoids, Hits, SuspendAkm, SuspendMlx
<1>3. /\ Leaves(Fake, 0, "len", 0)
      /\ Avoids(Fake, 1, "len") /\ Avoids(Fake, 2, "len") /\ Avoids(Fake, 3, "len")
      /\ \A k : Avoids(Fake, k, "dev")
  BY DEF Leaves, Avoids, Hits
<1>4. /\ Leaves(Pressure, 2, "len", 0) /\ Leaves(Pressure, 3, "len", 0)
      /\ Avoids(Pressure, 0, "len") /\ Avoids(Pressure, 1, "len")
      /\ \A k : Avoids(Pressure, k, "dev")
  BY DEF Leaves, Avoids, Hits
<1> HIDE DEF First, Fake, Pressure
<1> DEFINE Second == When(Faked, Fake) \o Pressure
<1>5. Suspend = When(on.compass, First) \o When(on.pressure, Second)
  BY DEF Suspend, SuspendBmp280, First, Fake, Pressure
<1>6. /\ Second \in Seq(Writes)
      /\ Avoids(Second, 1, "len")
      /\ ~Faked => Avoids(Second, 0, "len")
      /\ Faked => Leaves(Second, 0, "len", 0)
      /\ Leaves(Second, 2, "len", 0) /\ Leaves(Second, 3, "len", 0)
      /\ \A k : Avoids(Second, k, "dev")
  BY <1>0, <1>1, <1>3, <1>4, WhenWrites, ConcatWrites
<1> HIDE DEF Second
<1>7. Suspend \in Seq(Writes)
  BY <1>0, <1>1, <1>5, <1>6, WhenWrites, ConcatWrites
<1>8. ASSUME NEW k PROVE Avoids(Suspend, k, "dev")
  BY <1>0, <1>1, <1>2, <1>5, <1>6, WhenWrites, ConcatWrites
<1>9. ASSUME NEW k \in Channels \ Used PROVE Avoids(Suspend, k, "len")
  <2>1. k \in {0, 1, 2, 3}
    BY DEF Channels
  <2>2. on.compass => compass \in Akm /\ k \in {2, 3} /\ ~on.pressure
    <3>1. compass \in Akm \cup {"mlx90399", "none"}
      BY SlavesAssumption DEF SlavesTypeOK, CompassIds
    <3> QED  BY <1>9, <2>1, <3>1 DEF Used, Channels
  <2>3. Avoids(When(on.compass, First), k, "len")
    BY <1>0, <1>1, <1>2, <2>2, WhenWrites
  <2>4. on.pressure => k = 1 \/ (k = 0 /\ ~Faked)
    BY <1>9, <2>1 DEF Used
  <2>5. Avoids(When(on.pressure, Second), k, "len")
    BY <1>0, <1>6, <2>4, WhenWrites
  <2> QED  BY <1>0, <1>1, <1>5, <1>6, <2>3, <2>5, WhenWrites, ConcatWrites
<1>10. ASSUME NEW k \in Used PROVE Leaves(Suspend, k, "len", 0)
  <2>1. \/ on.pressure /\ (k \in {2, 3} \/ (k = 0 /\ Faked))
        \/ /\ on.compass
           /\ k \in {0, 1} \/ (compass = "mlx90399" /\ k \in {2, 3} /\ ~on.pressure)
    BY <1>10 DEF Used, Channels
  <2>2. CASE on.pressure /\ (k \in {2, 3} \/ (k = 0 /\ Faked))
    <3>1. Leaves(Second, k, "len", 0)
      BY <1>6, <2>2
    <3>2. Leaves(When(on.pressure, Second), k, "len", 0)
      BY <1>6, <2>2, <3>1, WhenWrites
    <3> QED  BY <1>0, <1>1, <1>5, <1>6, <3>2, WhenWrites, ConcatWrites
  <2>3. CASE on.compass /\ k \in {0, 1}
    <3>1. Leaves(When(on.compass, First), k, "len", 0)
      BY <1>0, <1>1, <1>2, <2>3, WhenWrites
    <3>2. Avoids(When(on.pressure, Second), k, "len")
      BY <1>0, <1>6, <2>3, WhenWrites DEF Faked
    <3> QED  BY <1>0, <1>1, <1>5, <1>6, <3>1, <3>2, WhenWrites, ConcatWrites
  <2>4. CASE on.compass /\ compass = "mlx90399" /\ k \in {2, 3} /\ ~on.pressure
    <3>1. Leaves(When(on.compass, First), k, "len", 0)
      BY <1>0, <1>1, <1>2, <2>4, WhenWrites DEF Akm
    <3>2. Avoids(When(on.pressure, Second), k, "len")
      BY <1>0, <1>6, <2>4, WhenWrites
    <3> QED  BY <1>0, <1>1, <1>5, <1>6, <3>1, <3>2, WhenWrites, ConcatWrites
  <2> QED  BY <2>1, <2>2, <2>3, <2>4
<1> QED  BY <1>7, <1>8, <1>9, <1>10

-----------------------------------------------------------------------------
(* Types *)

Channel == [dev : Devs, reg : Regs, len : 0..10]

\* What part of a list of writes leaves in the channels.
LEMMA AfterType ==
  ASSUME NEW ws \in Seq(Writes), NEW n \in 0..Len(ws), slv \in [Channels -> Channel]
  PROVE  After(ws, n) \in [Channels -> Channel]
<1>1. ASSUME NEW k \in Channels, NEW f
      PROVE  \/ Written(ws, n, k, f) = slv[k][f]
             \/ \E w \in Writes : w[1] = k /\ w[2] = f /\ Written(ws, n, k, f) = w[3]
  <2> DEFINE hits == { i \in 1..n : ws[i][1] = k /\ ws[i][2] = f }
  <2>1. CASE hits = {}
    BY <2>1 DEF Written
  <2>2. CASE hits # {}
    <3>1. hits \in SUBSET (1..n) /\ n \in Nat
      OBVIOUS
    <3>2. Max(hits) \in hits
      BY <2>2, <3>1, Greatest
    <3>3. ws[Max(hits)] \in Writes
      BY <3>2
    <3> QED  BY <2>2, <3>2, <3>3 DEF Written
  <2> QED  BY <2>1, <2>2
<1>2. ASSUME NEW k \in Channels
      PROVE  /\ Written(ws, n, k, "dev") \in Devs /\ Written(ws, n, k, "reg") \in Regs
             /\ Written(ws, n, k, "len") \in 0..10
  <2>1. slv[k].dev \in Devs /\ slv[k].reg \in Regs /\ slv[k].len \in 0..10
    BY DEF Channel
  <2>2. \A w \in Writes : /\ w[2] = "dev" => w[3] \in Devs
                          /\ w[2] = "reg" => w[3] \in Regs
                          /\ w[2] = "len" => w[3] \in 0..10
    BY DEF Writes
  <2>4. Written(ws, n, k, "dev") \in Devs
    <3>1. CASE Written(ws, n, k, "dev") = slv[k]["dev"]
      BY <2>1, <3>1, Zenon
    <3>2. CASE \E w \in Writes : w[2] = "dev" /\ Written(ws, n, k, "dev") = w[3]
      BY <2>2, <3>2
    <3> QED  BY <1>1, <3>1, <3>2
  <2>5. Written(ws, n, k, "reg") \in Regs
    <3>1. CASE Written(ws, n, k, "reg") = slv[k]["reg"]
      BY <2>1, <3>1, Zenon
    <3>2. CASE \E w \in Writes : w[2] = "reg" /\ Written(ws, n, k, "reg") = w[3]
      BY <2>2, <3>2
    <3> QED  BY <1>1, <3>1, <3>2
  <2>6. Written(ws, n, k, "len") \in 0..10
    <3>1. CASE Written(ws, n, k, "len") = slv[k]["len"]
      BY <2>1, <3>1, Zenon
    <3>2. CASE \E w \in Writes : w[2] = "len" /\ Written(ws, n, k, "len") = w[3]
      BY <2>2, <3>2
    <3> QED  BY <1>1, <3>1, <3>2
  <2> QED  BY <2>4, <2>5, <2>6
<1> QED  BY <1>2 DEF After, Channel

\* The delay of the channels fits its five bits.
LEMMA DelayType ==
  ASSUME SlavesTypeOK
  PROVE  MasterDelay \in [slaves : SUBSET Channels, d : 0..31]
<1> DEFINE scaled == (RateScale * fifoRate) \div 1000
           ratio == fifoRate \div slaveRate
           paced == IF dmpOn /\ ratio > scaled THEN ratio ELSE scaled
           d == IF paced > 32 THEN 31 ELSE IF paced > 0 THEN paced - 1 ELSE 0
<1>1. fifoRate \in 4..1000 /\ slaveRate \in 1..200
  BY DEF SlavesTypeOK
<1>2. ratio \in Int
  BY <1>1
<1>3. scaled \in Int
  BY <1>1 DEF RateScale
<1> HIDE DEF scaled, ratio
<1>4. d \in 0..31
  BY <1>2, <1>3
<1>5. Used \subseteq Channels
  BY DEF Used, Channels
<1> QED  BY <1>4, <1>5 DEF MasterDelay, scaled, ratio

\* Every state of the secondary bus has the types SlavesTypeOK states.
THEOREM BusTypes == SlavesSpec => []SlavesTypeOK
<1>1. SlavesInit => SlavesTypeOK
  <2> SUFFICES ASSUME SlavesInit PROVE SlavesTypeOK
    OBVIOUS
  <2>1. fifoRate \in 4..1000 /\ slaveRate \in 1..200
    BY SlavesAssumption DEF SlavesInit
  <2>2. slv \in [Channels -> [dev : {"none", "compassR", "compassW", "auxR", "auxW"},
          reg : {"none", "mode", "data", "dmp", "calib", "pressure", "before"}, len : 0..10]]
    BY DEF SlavesInit, Idle
  <2>3. on \in [compass : BOOLEAN, pressure : BOOLEAN]
        /\ delay \in [slaves : SUBSET Channels, d : 0..31]
    BY DEF SlavesInit
  <2> QED  BY <2>1, <2>2, <2>3 DEF SlavesInit, SlavesTypeOK
<1>2. SlavesTypeOK /\ [SlavesNext]_slaveVars => SlavesTypeOK'
  <2> SUFFICES ASSUME SlavesTypeOK, [SlavesNext]_slaveVars PROVE SlavesTypeOK'
    OBVIOUS
  <2> USE DEF slaveSettings
  <2>0. /\ slv \in [Channels -> Channel] /\ writeFailed \in BOOLEAN
        /\ astc \in BOOLEAN /\ bypass \in BOOLEAN /\ unrestored \in BOOLEAN
    BY DEF SlavesTypeOK, Channel, Devs, Regs
  <2>0a. (slv' \in [Channels -> Channel]) =>
           slv' \in [Channels -> [dev : {"none", "compassR", "compassW", "auxR", "auxW"},
               reg : {"none", "mode", "data", "dmp", "calib", "pressure", "before"}, len : 0..10]]
    BY DEF Channel, Devs, Regs
  <2>1. ASSUME NEW ws \in Seq(Writes), NEW next, Setup(ws, next)
        PROVE  /\ bypass' \in BOOLEAN /\ writeFailed' \in BOOLEAN /\ phase' \in {next, "failed"}
               /\ slv' \in [Channels -> Channel]
    <3>1. Len(ws) \in 0..Len(ws) /\ \A n \in 0..(Len(ws) - 1) : n \in 0..Len(ws)
      OBVIOUS
    <3> QED  BY <2>0, <2>1, <3>1, AfterType DEF Setup
  <2>2. CASE SetupCompass
    <3>1. /\ bypass' \in BOOLEAN /\ writeFailed' \in BOOLEAN /\ phase' \in {"compass", "failed"}
          /\ slv' \in [Channels -> Channel]
      BY <2>0, <2>1, <2>2, Lists DEF SetupCompass
    <3> QED  BY <2>0a, <2>2, <3>1 DEF SetupCompass, SlavesTypeOK
  <2>3. CASE SetupPressure
    <3>1. /\ bypass' \in BOOLEAN /\ writeFailed' \in BOOLEAN /\ phase' \in {"ready", "failed"}
          /\ slv' \in [Channels -> Channel]
      BY <2>0, <2>1, <2>3, Lists DEF SetupPressure
    <3> QED  BY <2>0a, <2>3, <3>1 DEF SetupPressure, SlavesTypeOK
  <2>4. CASE Set
    <3>1. on' \in [compass : BOOLEAN, pressure : BOOLEAN]
      BY <2>4 DEF Set
    <3>2. fifoRate' \in {200} \cup FifoRates /\ slaveRate' \in SlaveRates
      BY <2>4 DEF Set
    <3>3. fifoRate' \in 4..1000 /\ slaveRate' \in 1..200
      BY <3>2, SlavesAssumption
    <3> QED  BY <2>4, <3>1, <3>3 DEF Set, SlavesTypeOK
  <2>5. Resume \in Seq(Writes) /\ Suspend \in Seq(Writes)
    BY ListTypes
  <2>6. CASE Enable
    <3>1. slv' \in [Channels -> Channel] /\ running' \in BOOLEAN /\ writeFailed' \in BOOLEAN
      BY <2>0, <2>5, <2>6, AfterType DEF Enable
    <3>2. delay' \in [slaves : SUBSET Channels, d : 0..31]
      BY <2>6, DelayType DEF Enable, SlavesTypeOK
    <3> QED  BY <2>0a, <2>6, <3>1, <3>2 DEF Enable, SlavesTypeOK
  <2>7. CASE EnableFakeLost
    <3>1. slv' \in [Channels -> Channel]
      <4>1. After(Resume, Len(Resume)) \in [Channels -> Channel]
        BY <2>0, <2>5, AfterType
      <4>2. slv[0].len \in 0..10
        BY <2>0 DEF Channel, Channels
      <4> QED  BY <2>7, <4>1, <4>2 DEF EnableFakeLost, Channel
    <3>2. delay' \in [slaves : SUBSET Channels, d : 0..31]
      BY <2>7, DelayType DEF EnableFakeLost
    <3> QED  BY <2>0a, <2>7, <3>1, <3>2 DEF EnableFakeLost, SlavesTypeOK
  <2>8. CASE Disable
    <3>1. slv' \in [Channels -> Channel] /\ running' \in BOOLEAN /\ writeFailed' \in BOOLEAN
      BY <2>0, <2>5, <2>8, AfterType DEF Disable
    <3> QED  BY <2>0a, <2>8, <3>1 DEF Disable, SlavesTypeOK
  <2>9. CASE SelfTest
    <3>1. astc' \in BOOLEAN /\ bypass' \in BOOLEAN /\ unrestored' \in BOOLEAN
      BY <2>0, <2>9 DEF SelfTest, SelfTestAkm, SelfTestMlx
    <3> QED  BY <2>9, <3>1 DEF SelfTest, SlavesTypeOK
  <2>10. CASE UNCHANGED slaveVars
    BY <2>10 DEF slaveVars, SlavesTypeOK
  <2> QED  BY <2>2, <2>3, <2>4, <2>6, <2>7, <2>8, <2>9, <2>10 DEF SlavesNext
<1> QED  BY <1>1, <1>2, PTL DEF SlavesSpec
-----------------------------------------------------------------------------
(* The sensors are served *)

\* A sensor that is on is fitted, and sensors run once they are set up.
Fitted == /\ on.compass => compass # "none"
          /\ on.pressure => barometer
          /\ running => phase = "ready"

\* Channel 1 triggers an ak compass and never reads.
Trigger == ~writeFailed /\ phase \in {"compass", "ready"} /\ compass \in Akm => slv[1].dev = "compassW"

\* What resume leaves in the channels in use, while no write failed.
Running ==
  ~writeFailed /\ running =>
    /\ \A k \in Channels \ Used : slv[k].len = 0
    /\ on.compass /\ compass \in Akm => slv[0].dev = "compassR" /\ slv[0].len = AkmBytes
    /\ on.pressure => slv[2].reg = IF Padded THEN "before" ELSE "pressure"
    /\ on.pressure /\ Faked => slv[0].dev = "auxR" /\ slv[0].len = 10
    /\ on.compass \/ on.pressure => delay = MasterDelay

\* The bus is the MPU's and no self test is on until one was run.
Untested == phase \in {"probe", "compass"} => ~astc /\ ~bypass /\ ~unrestored

BusInv == Fitted /\ Trigger /\ Running /\ SlavesQuiet /\ Untested /\ SelfTestRestores

\* The length, device and register of a channel after a whole list of writes.
LEMMA AfterAll ==
  ASSUME NEW ws \in Seq(Writes), NEW k \in Channels
  PROVE  /\ \A v : Leaves(ws, k, "len", v) => After(ws, Len(ws))[k].len = v
         /\ \A v : Leaves(ws, k, "dev", v) => After(ws, Len(ws))[k].dev = v
         /\ \A v : Leaves(ws, k, "reg", v) => After(ws, Len(ws))[k].reg = v
         /\ Avoids(ws, k, "len") => After(ws, Len(ws))[k].len = slv[k].len
         /\ Avoids(ws, k, "dev") => After(ws, Len(ws))[k].dev = slv[k].dev
  BY LeavesWritten, AvoidsWritten DEF After

\* Setting a sensor up changes no length and makes channel 1 the trigger.
LEMMA SetupLeaves ==
  /\ \A k : Avoids(SetupCompassWrites, k, "len") /\ Avoids(SetupPressureWrites, k, "len")
  /\ compass \in Akm => Leaves(SetupCompassWrites, 1, "dev", "compassW")
  /\ Avoids(SetupPressureWrites, 1, "dev")
<1>1. compass \in Akm => Leaves(SetupCompassWrites, 1, "dev", "compassW")
  BY DEF Leaves, Hits, SetupCompassWrites
<1>2. /\ \A k : Avoids(SetupPressureWrites, k, "len")
      /\ Avoids(SetupPressureWrites, 1, "dev")
  BY DEF Avoids, Hits, SetupPressureWrites
<1>3. \A k : Avoids(SetupCompassWrites, k, "len")
  <2>1. CASE compass \in Akm
    BY <2>1 DEF Avoids, Hits, SetupCompassWrites
  <2>2. CASE compass \notin Akm /\ compass = "mlx90399"
    BY <2>2 DEF Avoids, Hits, SetupCompassWrites
  <2>3. CASE compass \notin Akm /\ compass # "mlx90399"
    BY <2>3 DEF Avoids, Hits, SetupCompassWrites
  <2> QED  BY <2>1, <2>2, <2>3
<1> QED  BY <1>1, <1>2, <1>3

\* Every step keeps the bus invariant.
LEMMA BusStep ==
  ASSUME SlavesTypeOK, BusInv, [SlavesNext]_slaveVars
  PROVE  BusInv'
<1> USE DEF slaveSettings
<1>0. /\ on.compass \in BOOLEAN /\ on.pressure \in BOOLEAN /\ running \in BOOLEAN
      /\ writeFailed \in BOOLEAN /\ 1 \in Channels /\ 0 \in Channels /\ 2 \in Channels
      /\ Used \subseteq Channels
  BY DEF SlavesTypeOK, Channels, Used
<1>1. ASSUME NEW ws \in Seq(Writes), NEW next, Setup(ws, next),
             \A k : Avoids(ws, k, "len")
      PROVE  \/ writeFailed' /\ phase' = "failed"
             \/ /\ ~bypass' /\ phase' = next /\ writeFailed' = writeFailed
                /\ slv' = After(ws, Len(ws))
                /\ \A k \in Channels : slv'[k].len = slv[k].len
  BY <1>1, AfterAll DEF Setup
<1>2. CASE SetupCompass
  <2>1. /\ phase = "probe" /\ ~running /\ ~running' /\ UNCHANGED <<compass, barometer, on, astc, unrestored>>
    BY <1>2 DEF SetupCompass, BusInv, Fitted
  <2>2. CASE compass = "none"
    <3>1. phase' = "compass" /\ UNCHANGED <<slv, bypass, writeFailed>>
      BY <1>2, <2>2 DEF SetupCompass
    <3> QED  BY <2>1, <2>2, <3>1 DEF BusInv, Fitted, Trigger, Running, SlavesQuiet, Untested,
             SelfTestRestores, Akm
  <2>3. CASE compass # "none"
    <3>1. \/ writeFailed' /\ phase' = "failed"
          \/ /\ ~bypass' /\ phase' = "compass" /\ writeFailed' = writeFailed
             /\ \A k \in Channels : slv'[k].len = slv[k].len
             /\ compass \in Akm => slv'[1].dev = "compassW"
      BY <1>0, <1>1, <1>2, <2>3, Lists, SetupLeaves, AfterAll DEF SetupCompass
    <3> QED  BY <2>1, <3>1 DEF BusInv, Fitted, Trigger, Running, SlavesQuiet, Untested,
             SelfTestRestores
  <2> QED  BY <2>2, <2>3
<1>3. CASE SetupPressure
  <2>1. /\ phase = "compass" /\ ~running /\ ~running' /\ UNCHANGED <<compass, barometer, on, astc, unrestored>>
    BY <1>3 DEF SetupPressure, BusInv, Fitted
  <2>2. \/ writeFailed' /\ phase' = "failed"
        \/ /\ ~bypass' /\ phase' = "ready" /\ writeFailed' = writeFailed
           /\ \A k \in Channels : slv'[k].len = slv[k].len
           /\ slv'[1].dev = slv[1].dev
    <3>1. CASE barometer
      BY <1>0, <1>1, <1>3, <3>1, Lists, SetupLeaves, AfterAll DEF SetupPressure
    <3>2. CASE ~barometer
      BY <1>3, <2>1, <3>2 DEF SetupPressure, BusInv, Untested
    <3> QED  BY <3>1, <3>2
  <2> QED  BY <2>1, <2>2 DEF BusInv, Fitted, Trigger, Running, SlavesQuiet, Untested,
           SelfTestRestores
<1>4. CASE Set
  <2>1. (on'.compass => compass # "none") /\ (on'.pressure => barometer)
    BY <1>4 DEF Set
  <2> QED  BY <1>4, <2>1 DEF Set, BusInv, Fitted, Trigger, Running, SlavesQuiet, Untested,
           SelfTestRestores
<1>5. CASE Enable
  <2>1. /\ phase = "ready" /\ ~running /\ UNCHANGED <<compass, barometer, phase, slaveSettings, bypass, astc, unrestored>>
        /\ delay' = IF on.compass \/ on.pressure THEN MasterDelay ELSE delay
        /\ writeFailed' \/ (~writeFailed /\ running' /\ slv' = After(Resume, Len(Resume)))
    <3>1. PICK n \in 0..Len(Resume), ok \in BOOLEAN :
            /\ ok => n = Len(Resume)
            /\ slv' = After(Resume, n)
            /\ running' = ok /\ writeFailed' = (writeFailed \/ ~ok)
      BY <1>5 DEF Enable
    <3>2. writeFailed' \/ (~writeFailed /\ running' /\ slv' = After(Resume, Len(Resume)))
      BY <1>0, <3>1
    <3> QED  BY <1>5, <3>2 DEF Enable
  <2>2. CASE writeFailed'
    BY <2>1, <2>2 DEF BusInv, Fitted, Trigger, Running, SlavesQuiet, Untested, SelfTestRestores
  <2>3. CASE ~writeFailed /\ running' /\ slv' = After(Resume, Len(Resume))
    <3>1. /\ Used' = Used /\ MasterDelay' = MasterDelay /\ AkmBytes' = AkmBytes
          /\ Padded' = Padded /\ Faked' = Faked
      BY <2>1 DEF Used, MasterDelay, RateScale, AkmBytes, Padded, Faked
    <3>2. \A k \in Channels : slv[k].len = 0
      BY <2>1, <2>3 DEF BusInv, SlavesQuiet
    <3>3. on.compass => compass # "none"
      BY DEF BusInv, Fitted
    <3>4. Running'
      BY <1>0, <2>1, <2>3, <3>1, <3>2, <3>3, ResumeWrites, AfterAll DEF Running
    <3>5. Trigger'
      BY <1>0, <2>1, <2>3, <3>3, ResumeWrites, AfterAll DEF Trigger, BusInv
    <3> QED  BY <2>1, <2>3, <3>4, <3>5 DEF BusInv, Fitted, SlavesQuiet, Untested, SelfTestRestores
  <2> QED  BY <2>1, <2>2, <2>3
<1>6. CASE EnableFakeLost
  BY <1>6 DEF EnableFakeLost, BusInv, Fitted, Trigger, Running, SlavesQuiet, Untested,
     SelfTestRestores
<1>7. CASE Disable
  <2>1. /\ running /\ UNCHANGED <<compass, barometer, phase, slaveSettings, delay, bypass, astc, unrestored>>
        /\ writeFailed' \/ (~writeFailed /\ ~running' /\ slv' = After(Suspend, Len(Suspend)))
    BY <1>0, <1>7 DEF Disable
  <2>2. CASE writeFailed'
    BY <2>1, <2>2 DEF BusInv, Fitted, Trigger, Running, SlavesQuiet, Untested, SelfTestRestores
  <2>3. CASE ~writeFailed /\ ~running' /\ slv' = After(Suspend, Len(Suspend))
    <3>1. \A k \in Channels \ Used : slv[k].len = 0
      BY <2>1, <2>3 DEF BusInv, Running
    <3>2. on.compass => compass # "none"
      BY DEF BusInv, Fitted
    <3>3. SlavesQuiet'
      BY <1>0, <2>3, <3>1, <3>2, SuspendWrites, AfterAll DEF SlavesQuiet
    <3>4. Trigger'
      BY <1>0, <2>1, <2>3, <3>2, SuspendWrites, AfterAll DEF Trigger, BusInv
    <3> QED  BY <2>1, <2>3, <3>3, <3>4 DEF BusInv, Fitted, Running, Untested, SelfTestRestores
  <2> QED  BY <2>1, <2>2, <2>3
<1>8. CASE SelfTest
  <2>1. /\ phase = "ready" /\ ~running
        /\ UNCHANGED <<compass, barometer, phase, slaveSettings, running, slv, delay, writeFailed>>
    BY <1>8 DEF SelfTest
  <2>2. SelfTestRestores'
    BY <1>8, <2>1 DEF SelfTest, SelfTestAkm, SelfTestRestores, BusInv, Akm
  <2> QED  BY <2>1, <2>2 DEF BusInv, Fitted, Trigger, Running, SlavesQuiet, Untested
<1>9. CASE UNCHANGED slaveVars
  BY <1>9 DEF slaveVars, BusInv, Fitted, Trigger, Running, SlavesQuiet, Untested,
     SelfTestRestores, Used, MasterDelay, RateScale, AkmBytes, Padded, Faked
<1> QED  BY <1>2, <1>3, <1>4, <1>5, <1>6, <1>7, <1>8, <1>9 DEF SlavesNext

\* In the time a sensor needs the MPU takes less than 51 samples.
LEMMA RatedSamples ==
  ASSUME SlavesTypeOK
  PROVE  RateScale * fifoRate \in Nat /\ RateScale * fifoRate <= 50000
<1>1. fifoRate \in 4..1000
  BY DEF SlavesTypeOK
<1>2. RateScale \in {0, 10, 35, 50}
  BY DEF RateScale
<1>3. CASE RateScale = 0   BY <1>1, <1>3
<1>4. CASE RateScale = 10  BY <1>1, <1>4
<1>5. CASE RateScale = 35  BY <1>1, <1>5
<1>6. CASE RateScale = 50  BY <1>1, <1>6
<1> QED  BY <1>2, <1>3, <1>4, <1>5, <1>6, SMT

\* The pressure is where it is taken, and the master reads no sensor twice in
\* the time it needs.
LEMMA BusServes ==
  ASSUME SlavesTypeOK, BusInv
  PROVE  PressureInPlace /\ MasterPacesSlaves
<1>0. /\ on.compass \in BOOLEAN /\ on.pressure \in BOOLEAN /\ dmpOn \in BOOLEAN
      /\ \A k \in Channels : slv[k].len \in 0..10
      /\ Channels = {0, 1, 2, 3} /\ compass \in Akm \cup {"mlx90399", "none"}
      /\ fifoRate \in 4..1000 /\ slaveRate \in 1..200
  BY SlavesAssumption DEF SlavesTypeOK, Channels, CompassIds
<1>1. PressureInPlace
  <2> SUFFICES ASSUME running, on.pressure, ~writeFailed, compass \notin {"ak09912", "mlx90399"}
               PROVE  PressureAt = PressureTaken
    BY DEF PressureInPlace
  <2>1. BytesRead(1) = 0
    <3>1. CASE on.compass
      BY <1>0, <3>1 DEF BusInv, Fitted, Trigger, BytesRead
    <3>2. CASE ~on.compass
      BY <1>0, <3>2 DEF BusInv, Running, Used, BytesRead, Faked
    <3> QED  BY <1>0, <3>1, <3>2
  <2>2. slv[2].reg = IF Padded THEN "before" ELSE "pressure"
    BY DEF BusInv, Running
  <2>3. CASE on.compass
    <3>1. BytesRead(0) = AkmBytes /\ compass \in {"ak89xx", "ak09911"}
      BY <1>0, <2>3 DEF BusInv, Fitted, Running, BytesRead, Akm, AkmBytes
    <3> QED  BY <1>0, <2>1, <2>2, <2>3, <3>1 DEF PressureAt, PressureTaken, AkmBytes, Padded
  <2>4. CASE ~on.compass
    <3>1. BytesRead(0) = IF Faked THEN 10 ELSE 0
      BY <1>0, <2>4 DEF BusInv, Running, BytesRead, Used, Faked
    <3> QED  BY <1>0, <2>1, <2>2, <2>4, <3>1 DEF PressureAt, PressureTaken, Padded, Faked
  <2> QED  BY <1>0, <2>3, <2>4
<1>2. MasterPacesSlaves
  <2> SUFFICES ASSUME running, ~writeFailed, on.compass \/ on.pressure
               PROVE  /\ delay.d > 0 => { k \in Channels : slv[k].len > 0 } \subseteq delay.slaves
                      /\ 2 * 1000 * (delay.d + 1) > RateScale * fifoRate
    BY DEF MasterPacesSlaves
  <2>1. delay = MasterDelay /\ \A k \in Channels \ Used : slv[k].len = 0
    BY DEF BusInv, Running
  <2>2. delay.d > 0 => { k \in Channels : slv[k].len > 0 } \subseteq delay.slaves
    BY <2>1 DEF MasterDelay
  <2>3. 2 * 1000 * (delay.d + 1) > RateScale * fifoRate
    <3> DEFINE product == RateScale * fifoRate
               scaled == product \div 1000
               ratio == fifoRate \div slaveRate
               paced == IF dmpOn /\ ratio > scaled THEN ratio ELSE scaled
               d == IF paced > 32 THEN 31 ELSE IF paced > 0 THEN paced - 1 ELSE 0
    <3>1. delay.d = d
      BY <2>1 DEF MasterDelay
    <3>2. product \in Nat /\ product <= 50000
      BY RatedSamples, SMT
    <3>3. ratio \in Int
      BY <1>0
    <3> HIDE DEF product, ratio
    <3>4. scaled \in Int /\ product < 1000 * (scaled + 1) /\ scaled >= 0
      BY <3>2
    <3> HIDE DEF scaled
    <3>5. d \in Int /\ d >= 0 /\ (d >= 31 \/ d + 1 >= scaled)
      BY <3>3, <3>4
    <3> HIDE DEF d
    <3>6. 2 * 1000 * (d + 1) > product
      BY <3>2, <3>4, <3>5
    <3> QED  BY <3>1, <3>6 DEF product
  <2> QED  BY <2>2, <2>3
<1> QED  BY <1>1, <1>2

\* Whatever the order in which the sensors are set up, switched, started,
\* stopped and tested, each is served and the bus is given back.
THEOREM SensorsServed == SlavesSpec => []ChannelsServeSensors
<1>1. SlavesInit => BusInv
  BY DEF SlavesInit, BusInv, Fitted, Trigger, Running, SlavesQuiet, Untested, SelfTestRestores,
     Idle, Channels
<1>2. SlavesTypeOK /\ BusInv /\ [SlavesNext]_slaveVars => BusInv'
  BY BusStep
<1>3. SlavesTypeOK /\ BusInv => ChannelsServeSensors
  BY BusServes DEF ChannelsServeSensors, BusInv
<1> QED  BY <1>1, <1>2, <1>3, BusTypes, PTL DEF SlavesSpec
=============================================================================
