-------------------------- MODULE HalStreamProofs ---------------------------
(***************************************************************************)
(* Proofs about HalStream, for any number of packets and flushes.          *)
(***************************************************************************)
EXTENDS HalStream, SequenceTheorems, TLAPS

Numbers == 0..(Serials - 1)
Units == [kind : Kinds, id : Numbers, part : 1..3] \cup [kind : Markers, id : {-1}, part : {1}]

(* What the variables hold. *)
StreamTypeOK ==
  /\ pipe \in Seq(Units) /\ left \in Seq(Units) /\ Len(left) <= 2
  /\ next \in Numbers /\ last \in Numbers
  /\ flags \in [skip : BOOLEAN, batchSet : BOOLEAN, marker : BOOLEAN]
  /\ flushes \in Seq(Handles)
  /\ pc \in [poll : {"poll", "mplBuilt", "compassBuilt", "mplSent", "compassSent", "mplRead"},
             flush : {"idle", "pushed", "reading"}, sent : BOOLEAN]

-----------------------------------------------------------------------------
(* Sequences of units *)

\* The sizes and the kinds of units.
LEMMA Sizes ==
  /\ \A k : Size(k) \in 1..3 /\ (k \in Markers => Size(k) = 1)
  /\ \A k \in Kinds : k \notin Markers
  /\ "none" \notin Kinds \cup Markers
  BY StreamAssumption DEF Size, Markers

\* The units of a packet, and the marker.
LEMMA PacketUnits ==
  ASSUME NEW k \in Kinds, NEW n \in Numbers
  PROVE  /\ Packet(k, n) \in Seq(Units) /\ Len(Packet(k, n)) = Size(k)
         /\ \A i \in 1..Size(k) : Packet(k, n)[i] = [kind |-> k, id |-> n, part |-> i]
<1>1. Size(k) \in 1..3
  BY Sizes
<1>2. \A i \in 1..Size(k) : [kind |-> k, id |-> n, part |-> i] \in Units
  BY <1>1, StreamAssumption DEF Units, Numbers
<1> QED  BY <1>1, <1>2 DEF Packet

\* A marker is one unit.
LEMMA MarkerUnits ==
  ASSUME NEW m \in Markers
  PROVE  /\ MarkerUnit(m) \in Seq(Units) /\ Len(MarkerUnit(m)) = 1
         /\ MarkerUnit(m)[1] = [kind |-> m, id |-> -1, part |-> 1]
  BY DEF MarkerUnit, Units

\* Numbered, for the first n of a row of units.
Chain(x, n) ==
  \A i, j \in 1..n : /\ i < j /\ IsHeader(x[i]) /\ IsHeader(x[j])
                     /\ \A k \in (i + 1)..(j - 1) : ~IsHeader(x[k])
                     => x[j].id = (x[i].id + 1) % Serials

\* The units after the first are moved up by m places, and the header before
\* them is the last of those they replace.
LEMMA TakeChain ==
  ASSUME NEW n \in Nat, NEW m \in 1..n, NEW x, NEW y,
         \A i \in 2..(n - m + 2) : y[i].id = x[i + m].id /\ (IsHeader(y[i]) <=> IsHeader(x[i + m])),
         \A k \in 3..(m + 1) : ~IsHeader(x[k]),
         y[1].id = IF IsHeader(x[2]) THEN x[2].id ELSE x[1].id,
         IsHeader(x[1]),
         Chain(x, n + 2)
  PROVE  Chain(y, n - m + 2)
<1> SUFFICES ASSUME NEW i \in 1..(n - m + 2), NEW j \in 1..(n - m + 2), i < j,
                    IsHeader(y[i]), IsHeader(y[j]),
                    \A k \in (i + 1)..(j - 1) : ~IsHeader(y[k])
             PROVE  y[j].id = (y[i].id + 1) % Serials
  BY DEF Chain
<1>1. /\ j \in 2..(n - m + 2) /\ j + m \in 1..(n + 2)
      /\ IsHeader(x[j + m]) /\ y[j].id = x[j + m].id
  OBVIOUS
<1>2. ASSUME NEW u \in 1..(n + 2), u < j + m, IsHeader(x[u]), y[i].id = x[u].id,
             \A k \in (u + 1)..(j + m - 1) : ~IsHeader(x[k])
      PROVE  y[j].id = (y[i].id + 1) % Serials
  <2>1. x[j + m].id = (x[u].id + 1) % Serials
    BY <1>1, <1>2 DEF Chain
  <2> QED  BY <1>1, <1>2, <2>1
<1>3. \A k \in (i + m + 1)..(j + m - 1) : k >= m + 2 => ~IsHeader(x[k])
  <2> SUFFICES ASSUME NEW k \in (i + m + 1)..(j + m - 1), k >= m + 2 PROVE ~IsHeader(x[k])
    OBVIOUS
  <2>1. k - m \in (i + 1)..(j - 1) /\ k - m \in 2..(n - m + 2) /\ (k - m) + m = k
    OBVIOUS
  <2> QED  BY <2>1
<1>4. CASE i > 1
  <2>1. i \in 2..(n - m + 2) /\ i + m \in 1..(n + 2) /\ i + m < j + m
    BY <1>4
  <2>2. IsHeader(x[i + m]) /\ y[i].id = x[i + m].id
    BY <2>1
  <2>3. \A k \in (i + m + 1)..(j + m - 1) : k >= m + 2
    BY <1>4
  <2>4. \A k \in (i + m + 1)..(j + m - 1) : ~IsHeader(x[k])
    BY <1>3, <2>3
  <2> QED  BY <1>2, <2>1, <2>2, <2>4
<1>5. CASE i = 1
  <2>1. \A k \in 3..(j + m - 1) : ~IsHeader(x[k])
    <3> SUFFICES ASSUME NEW k \in 3..(j + m - 1), k \notin 3..(m + 1) PROVE ~IsHeader(x[k])
      OBVIOUS
    <3>1. k \in (i + m + 1)..(j + m - 1) /\ k >= m + 2
      BY <1>5
    <3> QED  BY <1>3, <3>1
  <2>2. CASE IsHeader(x[2])
    <3>1. 2 \in 1..(n + 2) /\ 2 < j + m /\ y[i].id = x[2].id
      BY <1>1, <1>5, <2>2
    <3>2. \A k \in (2 + 1)..(j + m - 1) : ~IsHeader(x[k])
      BY <2>1
    <3> QED  BY <1>2, <2>2, <3>1, <3>2
  <2>3. CASE ~IsHeader(x[2])
    <3>1. 1 \in 1..(n + 2) /\ 1 < j + m /\ y[i].id = x[1].id
      BY <1>1, <1>5, <2>3
    <3>2. \A k \in (1 + 1)..(j + m - 1) : ~IsHeader(x[k])
      BY <2>1, <2>3
    <3> QED  BY <1>2, <3>1, <3>2
  <2> QED  BY <2>2, <2>3
<1> QED  BY <1>4, <1>5

\* Units are added before the last: they are no headers, or the first of
\* them has the number the last had, which goes up by one.
LEMMA AddChain ==
  ASSUME NEW n \in Nat, NEW m \in Nat, m >= 1, NEW x, NEW y,
         \A i \in 1..(n + 1) : y[i].id = x[i].id /\ (IsHeader(y[i]) <=> IsHeader(x[i])),
         \A k \in (n + 3)..(n + m + 1) : ~IsHeader(y[k]),
         IsHeader(x[n + 2]),
         IF IsHeader(y[n + 2]) THEN /\ y[n + 2].id = x[n + 2].id
                                    /\ y[n + m + 2].id = (x[n + 2].id + 1) % Serials
         ELSE y[n + m + 2].id = x[n + 2].id,
         Chain(x, n + 2)
  PROVE  Chain(y, n + m + 2)
<1> SUFFICES ASSUME NEW i \in 1..(n + m + 2), NEW j \in 1..(n + m + 2), i < j,
                    IsHeader(y[i]), IsHeader(y[j]),
                    \A k \in (i + 1)..(j - 1) : ~IsHeader(y[k])
             PROVE  y[j].id = (y[i].id + 1) % Serials
  BY DEF Chain
<1>1. ASSUME NEW v \in 1..(n + 2), i \in 1..(n + 1), i < v, v <= j, IsHeader(x[v]),
             y[j].id = x[v].id
      PROVE  y[j].id = (y[i].id + 1) % Serials
  <2>1. \A k \in (i + 1)..(v - 1) : k \in 1..(n + 1) /\ k \in (i + 1)..(j - 1)
    BY <1>1
  <2>2. \A k \in (i + 1)..(v - 1) : ~IsHeader(x[k])
    BY <2>1
  <2>3. i \in 1..(n + 2) /\ IsHeader(x[i]) /\ y[i].id = x[i].id
    BY <1>1
  <2>4. x[v].id = (x[i].id + 1) % Serials
    BY <1>1, <2>2, <2>3 DEF Chain
  <2> QED  BY <1>1, <2>3, <2>4
<1>2. CASE j \in 1..(n + 1)
  <2>1. i \in 1..(n + 1) /\ j \in 1..(n + 2) /\ j <= j
    BY <1>2
  <2>2. IsHeader(x[j]) /\ y[j].id = x[j].id
    BY <1>2
  <2> QED  BY <1>1, <2>1, <2>2
<1>3. CASE j = n + 2
  <2>1. i \in 1..(n + 1) /\ n + 2 \in 1..(n + 2) /\ n + 2 <= j /\ i < n + 2
    BY <1>3
  <2>2. IsHeader(x[n + 2]) /\ y[j].id = x[n + 2].id
    BY <1>3
  <2> QED  BY <1>1, <2>1, <2>2
<1>4. CASE j > n + 2
  <2>1. j = n + m + 2
    <3>1. j \notin (n + 3)..(n + m + 1)
      OBVIOUS
    <3> QED  BY <3>1, <1>4
  <2>2. i \notin (n + 3)..(n + m + 1)
    OBVIOUS
  <2>3. i \in 1..(n + 2)
    BY <2>1, <2>2
  <2>4. CASE IsHeader(y[n + 2])
    <3>1. i = n + 2
      <4>1. n + 2 \notin (i + 1)..(j - 1)
        BY <2>4
      <4> QED  BY <4>1, <1>4, <2>3
    <3> QED  BY <3>1, <2>1, <2>4
  <2>5. CASE ~IsHeader(y[n + 2])
    <3>1. i \in 1..(n + 1)
      <4>1. i # n + 2
        BY <2>5
      <4> QED  BY <4>1, <2>3
    <3>2. n + 2 \in 1..(n + 2) /\ i < n + 2 /\ n + 2 <= j
      BY <1>4, <3>1
    <3>3. y[j].id = x[n + 2].id
      BY <2>1, <2>5
    <3> QED  BY <1>1, <3>1, <3>2, <3>3
  <2> QED  BY <2>4, <2>5
<1> QED  BY <1>2, <1>3, <1>4

\* A row of units between two numbers, as in Line.
Between(a, s, b) == Number(a) \o s \o Number(b)

\* The places of the units of such a row.
LEMMA BetweenUnits ==
  ASSUME NEW a, NEW b, NEW s \in Seq(Units)
  PROVE  /\ Len(Between(a, s, b)) = Len(s) + 2
         /\ Between(a, s, b)[1].id = a /\ IsHeader(Between(a, s, b)[1])
         /\ Between(a, s, b)[Len(s) + 2].id = b /\ IsHeader(Between(a, s, b)[Len(s) + 2])
         /\ \A i \in 1..Len(s) : Between(a, s, b)[i + 1] = s[i]
         /\ \A i \in 2..(Len(s) + 1) : Between(a, s, b)[i] = s[i - 1]
<1> DEFINE unit(n) == [kind |-> "none", id |-> n, part |-> 1]
           All == Units \cup {unit(a), unit(b)}
<1>1. s \in Seq(All) /\ <<unit(a)>> \in Seq(All) /\ <<unit(b)>> \in Seq(All)
  OBVIOUS
<1>2. /\ <<unit(a)>> \o s \in Seq(All) /\ Len(<<unit(a)>> \o s) = Len(s) + 1
      /\ (<<unit(a)>> \o s)[1] = unit(a)
      /\ \A i \in 1..Len(s) : (<<unit(a)>> \o s)[i + 1] = s[i]
  <2> HIDE DEF unit, All
  <2> QED  BY <1>1
<1>3. /\ Len(Between(a, s, b)) = Len(s) + 2
      /\ Between(a, s, b)[1] = unit(a)
      /\ Between(a, s, b)[Len(s) + 2] = unit(b)
      /\ \A i \in 1..Len(s) : Between(a, s, b)[i + 1] = s[i]
  <2>1. Between(a, s, b) = (<<unit(a)>> \o s) \o <<unit(b)>>
    BY DEF Between, Number
  <2> DEFINE p == <<unit(a)>> \o s
             q == <<unit(b)>>
  <2>2. p \in Seq(All) /\ q \in Seq(All) /\ Len(q) = 1 /\ q[1] = unit(b)
    BY <1>1, <1>2
  <2> HIDE DEF p, q, unit, All
  <2>3. /\ Len(p \o q) = Len(p) + Len(q) /\ Len(p) \in Nat
        /\ \A i \in 1..(Len(p) + Len(q)) : (p \o q)[i] = IF i <= Len(p) THEN p[i] ELSE q[i - Len(p)]
    BY <2>2, ConcatProperties, LenProperties
  <2>4. \A l \in Nat : /\ l + 1 \in 1..(l + 1) /\ ~(l + 1 <= l) /\ (l + 1) - l = 1
                       /\ \A i \in 1..l : i \in 1..(l + 1) /\ i <= l
    OBVIOUS
  <2>5. (p \o q)[Len(p) + 1] = unit(b) /\ \A i \in 1..Len(p) : (p \o q)[i] = p[i]
    BY <2>2, <2>3, <2>4
  <2> QED  BY <2>1, <2>2, <2>3, <2>5, <1>2 DEF p, q
<1>4. IsHeader(unit(a)) /\ IsHeader(unit(b))
  BY DEF IsHeader, Markers
<1>5. \A i \in 2..(Len(s) + 1) : i - 1 \in 1..Len(s) /\ i = (i - 1) + 1
  OBVIOUS
<1> QED  BY <1>3, <1>4, <1>5

\* The first m units of a row are taken.
LEMMA Taken ==
  ASSUME NEW a, NEW b, NEW c, NEW s \in Seq(Units), NEW m \in 1..Len(s),
         Whole(s), Numbered(Between(a, s, b)),
         \A i \in 2..m : ~IsHeader(s[i]),
         m < Len(s) => s[m + 1].part = 1,
         c = IF IsHeader(s[1]) THEN s[1].id ELSE a
  PROVE  LET r == SubSeq(s, m + 1, Len(s))
         IN  /\ r \in Seq(Units) /\ Len(r) = Len(s) - m
             /\ \A i \in 1..Len(r) : r[i] = s[i + m]
             /\ Whole(r) /\ Numbered(Between(c, r, b))
<1> DEFINE r == SubSeq(s, m + 1, Len(s))
           x == Between(a, s, b)
           y == Between(c, r, b)
<1>1. r \in Seq(Units) /\ Len(r) = Len(s) - m /\ \A i \in 1..Len(r) : r[i] = s[i + m]
  OBVIOUS
<1>2. PICK n \in Nat : n = Len(s) /\ m \in 1..n /\ Len(r) = n - m
  BY <1>1
<1> HIDE DEF r
<1>3. /\ Len(x) = n + 2 /\ x[1].id = a /\ IsHeader(x[1])
      /\ x[n + 2].id = b /\ IsHeader(x[n + 2])
      /\ \A i \in 2..(n + 1) : x[i] = s[i - 1]
  BY <1>2, BetweenUnits
<1>4. /\ Len(y) = n - m + 2 /\ y[1].id = c /\ IsHeader(y[1])
      /\ y[n - m + 2].id = b /\ IsHeader(y[n - m + 2])
      /\ \A i \in 2..(n - m + 1) : y[i] = r[i - 1]
  <2>1. /\ Len(y) = Len(r) + 2 /\ y[1].id = c /\ IsHeader(y[1])
        /\ y[Len(r) + 2].id = b /\ IsHeader(y[Len(r) + 2])
        /\ \A i \in 2..(Len(r) + 1) : y[i] = r[i - 1]
    <3>1. r \in Seq(Units)
      BY <1>1
    <3> QED  BY ONLY <3>1, BetweenUnits
  <2> HIDE DEF y
  <2> QED  BY <1>2, <2>1
<1> HIDE DEF x, y
<1>5. \A i \in 2..(n - m + 2) : y[i].id = x[i + m].id /\ (IsHeader(y[i]) <=> IsHeader(x[i + m]))
  <2> SUFFICES ASSUME NEW i \in 2..(n - m + 2)
               PROVE  y[i].id = x[i + m].id /\ (IsHeader(y[i]) <=> IsHeader(x[i + m]))
    OBVIOUS
  <2>1. CASE i = n - m + 2
    <3>1. i + m = n + 2
      BY <2>1
    <3> QED  BY <1>3, <1>4, <2>1, <3>1
  <2>2. CASE i # n - m + 2
    <3>1. /\ i \in 2..(n - m + 1) /\ i - 1 \in 1..(n - m) /\ i + m \in 2..(n + 1)
          /\ (i - 1) + m = (i + m) - 1
      BY <2>2
    <3>2. y[i] = r[i - 1] /\ x[i + m] = s[(i + m) - 1]
      BY <1>3, <1>4, <3>1
    <3>3. r[i - 1] = s[(i - 1) + m]
      BY <1>1, <1>2, <3>1
    <3>4. y[i] = x[i + m]
      BY <3>1, <3>2, <3>3
    <3> QED  BY <3>4
  <2> QED  BY <2>1, <2>2
<1>6. x[2] = s[1] /\ \A k \in 3..(m + 1) : ~IsHeader(x[k])
  <2>1. 2 \in 2..(n + 1) /\ 2 - 1 = 1
    BY <1>2
  <2>2. \A k \in 3..(m + 1) : k \in 2..(n + 1) /\ k - 1 \in 2..m
    BY <1>2
  <2> QED  BY <1>3, <2>1, <2>2
<1>7. Chain(x, n + 2)
  BY <1>3 DEF x, Chain, Numbered
<1>8. Chain(y, n - m + 2)
  <2>1. y[1].id = IF IsHeader(x[2]) THEN x[2].id ELSE x[1].id
    BY <1>3, <1>4, <1>6
  <2>2. IsHeader(x[1])
    BY <1>3
  <2> QED  BY <1>2, <1>5, <1>6, <1>7, <2>1, <2>2, TakeChain
<1>9. Numbered(y)
  BY <1>4, <1>8 DEF Numbered, Chain
<1>10. Whole(r)
  <2>1. /\ n # 0 => s[n].part = Size(s[n].kind)
        /\ \A i \in 1..(n - 1) : IF s[i].part = Size(s[i].kind) THEN s[i + 1].part = 1
                                 ELSE s[i + 1] = [s[i] EXCEPT !.part = @ + 1]
    BY <1>2 DEF Whole
  <2>2. ASSUME r # <<>> PROVE r[1].part = 1 /\ r[n - m].part = Size(r[n - m].kind)
    <3>1. n - m # 0
      BY <1>1, <1>2, <2>2
    <3>2. 1 \in 1..(n - m) /\ n - m \in 1..(n - m) /\ (n - m) + m = n /\ m < n /\ n # 0
      BY <1>2, <3>1
    <3>3. r[1] = s[1 + m] /\ r[n - m] = s[n]
      BY <1>1, <1>2, <3>2
    <3>4. 1 + m = m + 1
      BY <1>2
    <3> QED  BY <1>2, <2>1, <3>2, <3>3, <3>4
  <2>3. ASSUME NEW i \in 1..((n - m) - 1)
        PROVE  IF r[i].part = Size(r[i].kind) THEN r[i + 1].part = 1
               ELSE r[i + 1] = [r[i] EXCEPT !.part = @ + 1]
    <3>1. /\ i \in 1..(n - m) /\ i + 1 \in 1..(n - m) /\ i + m \in 1..(n - 1)
          /\ (i + 1) + m = (i + m) + 1
      BY <1>2
    <3>2. r[i] = s[i + m] /\ r[i + 1] = s[(i + 1) + m]
      BY <1>1, <1>2, <3>1
    <3> QED  BY <2>1, <3>1, <3>2
  <2> QED  BY <1>2, <2>2, <2>3 DEF Whole
<1> QED  BY <1>1, <1>9, <1>10 DEF y, r

\* Units are added: they are no headers, or the first is the header of the
\* next packet.
LEMMA Added ==
  ASSUME NEW a, NEW b, NEW c, NEW s \in Seq(Units), NEW p \in Seq(Units), p # <<>>,
         Whole(s), Whole(p), Numbered(Between(a, s, b)),
         \A i \in 2..Len(p) : ~IsHeader(p[i]),
         IF IsHeader(p[1]) THEN p[1].id = b /\ c = (b + 1) % Serials ELSE c = b
  PROVE  /\ s \o p \in Seq(Units) /\ Len(s \o p) = Len(s) + Len(p)
         /\ \A i \in 1..Len(s) : (s \o p)[i] = s[i]
         /\ \A i \in 1..Len(p) : (s \o p)[Len(s) + i] = p[i]
         /\ Whole(s \o p) /\ Numbered(Between(a, s \o p, c))
<1> DEFINE r == s \o p
           x == Between(a, s, b)
           y == Between(a, r, c)
<1>1. /\ r \in Seq(Units) /\ Len(r) = Len(s) + Len(p)
      /\ \A i \in 1..Len(s) : r[i] = s[i]
      /\ \A i \in 1..Len(p) : r[Len(s) + i] = p[i]
  OBVIOUS
<1>2. PICK n \in Nat, m \in Nat : n = Len(s) /\ m = Len(p) /\ m >= 1 /\ Len(r) = n + m
  BY <1>1
<1> HIDE DEF r
<1>3. /\ Len(x) = n + 2 /\ x[1].id = a /\ IsHeader(x[1])
      /\ x[n + 2].id = b /\ IsHeader(x[n + 2])
      /\ \A i \in 2..(n + 1) : x[i] = s[i - 1]
  BY <1>2, BetweenUnits
<1>4. /\ Len(y) = n + m + 2 /\ y[1].id = a /\ IsHeader(y[1])
      /\ y[n + m + 2].id = c /\ IsHeader(y[n + m + 2])
      /\ \A i \in 2..(n + m + 1) : y[i] = r[i - 1]
  <2>1. /\ Len(y) = Len(r) + 2 /\ y[1].id = a /\ IsHeader(y[1])
        /\ y[Len(r) + 2].id = c /\ IsHeader(y[Len(r) + 2])
        /\ \A i \in 2..(Len(r) + 1) : y[i] = r[i - 1]
    <3>1. r \in Seq(Units)
      BY <1>1
    <3> QED  BY ONLY <3>1, BetweenUnits
  <2> HIDE DEF y
  <2> QED  BY <1>2, <2>1
<1> HIDE DEF x, y
<1>5. \A i \in 1..(n + 1) : y[i].id = x[i].id /\ (IsHeader(y[i]) <=> IsHeader(x[i]))
  <2> SUFFICES ASSUME NEW i \in 2..(n + 1) PROVE y[i] = x[i]
    BY <1>3, <1>4
  <2>1. i - 1 \in 1..n /\ i \in 2..(n + m + 1)
    BY <1>2
  <2> QED  BY <1>1, <1>2, <1>3, <1>4, <2>1
<1>5a. \A i \in 1..m : r[n + i] = p[i]
  BY <1>1, <1>2
<1>6. \A k \in (n + 2)..(n + m + 1) : y[k] = p[(k - n) - 1] /\ (k - n) - 1 \in 1..m
  <2> SUFFICES ASSUME NEW k \in (n + 2)..(n + m + 1)
               PROVE  y[k] = p[(k - n) - 1] /\ (k - n) - 1 \in 1..m
    OBVIOUS
  <2>1. (k - n) - 1 \in 1..m /\ k - 1 = n + ((k - n) - 1) /\ k \in 2..(n + m + 1)
    BY <1>2
  <2>2. y[k] = r[k - 1]
    BY <1>4, <2>1
  <2> QED  BY <1>5a, <2>1, <2>2
<1>7. y[n + 2] = p[1] /\ \A k \in (n + 3)..(n + m + 1) : ~IsHeader(y[k])
  <2>1. n + 2 \in (n + 2)..(n + m + 1) /\ ((n + 2) - n) - 1 = 1
    BY <1>2
  <2>2. \A k \in (n + 3)..(n + m + 1) : k \in (n + 2)..(n + m + 1) /\ (k - n) - 1 \in 2..m
    BY <1>2
  <2> QED  BY <1>2, <1>6, <2>1, <2>2
<1>8. Chain(x, n + 2)
  BY <1>3 DEF x, Chain, Numbered
<1>9. Chain(y, n + m + 2)
  BY <1>2, <1>3, <1>4, <1>5, <1>7, <1>8, AddChain
<1>10. Numbered(y)
  BY <1>4, <1>9 DEF Numbered, Chain
<1>11. Whole(r)
  <2>1. /\ n # 0 => s[1].part = 1 /\ s[n].part = Size(s[n].kind)
        /\ \A i \in 1..(n - 1) : IF s[i].part = Size(s[i].kind) THEN s[i + 1].part = 1
                                 ELSE s[i + 1] = [s[i] EXCEPT !.part = @ + 1]
    BY <1>2 DEF Whole
  <2>2. /\ p[1].part = 1 /\ p[m].part = Size(p[m].kind)
        /\ \A i \in 1..(m - 1) : IF p[i].part = Size(p[i].kind) THEN p[i + 1].part = 1
                                 ELSE p[i + 1] = [p[i] EXCEPT !.part = @ + 1]
    BY <1>2 DEF Whole
  <2>3. r[1].part = 1
    <3>1. CASE n = 0
      <4>1. 1 \in 1..m /\ n + 1 = 1
        BY <1>2, <3>1
      <4> QED  BY <1>1, <1>2, <2>2, <4>1
    <3>2. CASE n # 0
      <4>1. 1 \in 1..n
        BY <3>2
      <4> QED  BY <1>1, <1>2, <2>1, <3>2, <4>1
    <3> QED  BY <3>1, <3>2
  <2>4. r[n + m] = p[m]
    <3>1. m \in 1..m
      BY <1>2
    <3> QED  BY <1>1, <1>2, <3>1
  <2>5. ASSUME NEW i \in 1..((n + m) - 1)
        PROVE  IF r[i].part = Size(r[i].kind) THEN r[i + 1].part = 1
               ELSE r[i + 1] = [r[i] EXCEPT !.part = @ + 1]
    <3>1. CASE i < n
      <4>1. i \in 1..n /\ i + 1 \in 1..n /\ i \in 1..(n - 1)
        BY <3>1
      <4>2. r[i] = s[i] /\ r[i + 1] = s[i + 1]
        BY <1>1, <1>2, <4>1
      <4> QED  BY <2>1, <4>1, <4>2
    <3>2. CASE i = n
      <4>1. n \in 1..n /\ 1 \in 1..m /\ n # 0
        BY <1>2, <3>2
      <4>2. r[n] = s[n] /\ r[n + 1] = p[1]
        BY <1>1, <1>2, <4>1
      <4> QED  BY <2>1, <2>2, <3>2, <4>1, <4>2
    <3>3. CASE i > n
      <4>1. /\ i - n \in 1..m /\ (i - n) + 1 \in 1..m /\ i - n \in 1..(m - 1)
            /\ i = n + (i - n) /\ i + 1 = n + ((i - n) + 1)
        BY <3>3
      <4>2. r[i] = p[i - n] /\ r[i + 1] = p[(i - n) + 1]
        BY <1>1, <1>2, <4>1
      <4> QED  BY <2>2, <4>1, <4>2
    <3> QED  BY <3>1, <3>2, <3>3
  <2> QED  BY <1>2, <2>2, <2>3, <2>4, <2>5 DEF Whole
<1> QED  BY <1>1, <1>2, <1>10, <1>11 DEF y, r

\* A packet and a marker are whole, with one header and none.
LEMMA PacketWhole ==
  ASSUME NEW k \in Kinds, NEW n \in Numbers
  PROVE  /\ Packet(k, n) \in Seq(Units) /\ Packet(k, n) # <<>> /\ Whole(Packet(k, n))
         /\ IsHeader(Packet(k, n)[1]) /\ Packet(k, n)[1].id = n
         /\ \A i \in 2..Len(Packet(k, n)) : ~IsHeader(Packet(k, n)[i])
<1> DEFINE p == Packet(k, n)
<1>1. /\ p \in Seq(Units) /\ Len(p) = Size(k) /\ Size(k) \in 1..3
      /\ \A i \in 1..Size(k) : p[i] = [kind |-> k, id |-> n, part |-> i]
  BY PacketUnits, Sizes
<1> HIDE DEF p
<1>2. p # <<>> /\ IsHeader(p[1]) /\ p[1].id = n
  BY <1>1, Sizes DEF IsHeader
<1>3. \A i \in 2..Size(k) : ~IsHeader(p[i])
  BY <1>1 DEF IsHeader
<1>4. Whole(p)
  <2>1. p[1].part = 1 /\ p[Size(k)].part = Size(p[Size(k)].kind)
    BY <1>1
  <2>2. ASSUME NEW i \in 1..(Size(k) - 1)
        PROVE  p[i].part # Size(p[i].kind) /\ p[i + 1] = [p[i] EXCEPT !.part = @ + 1]
    <3>1. i \in 1..Size(k) /\ i + 1 \in 1..Size(k) /\ i # Size(k)
      BY <1>1
    <3>2. /\ p[i] = [kind |-> k, id |-> n, part |-> i]
          /\ p[i + 1] = [kind |-> k, id |-> n, part |-> i + 1]
      BY <1>1, <3>1
    <3> QED  BY <3>1, <3>2
  <2> QED  BY <1>1, <2>1, <2>2 DEF Whole
<1> QED  BY <1>1, <1>2, <1>3, <1>4 DEF p

\* A marker is whole and has no header.
LEMMA MarkerWhole ==
  ASSUME NEW m \in Markers
  PROVE  /\ MarkerUnit(m) \in Seq(Units) /\ MarkerUnit(m) # <<>> /\ Whole(MarkerUnit(m))
         /\ ~IsHeader(MarkerUnit(m)[1]) /\ Len(MarkerUnit(m)) = 1
<1>1. /\ MarkerUnit(m) \in Seq(Units) /\ Len(MarkerUnit(m)) = 1
      /\ MarkerUnit(m)[1] = [kind |-> m, id |-> -1, part |-> 1] /\ Size(m) = 1
  BY MarkerUnits, Sizes
<1> DEFINE u == MarkerUnit(m)
<1> HIDE DEF u
<1>2. /\ u \in Seq(Units) /\ Len(u) = 1 /\ u[1].part = 1 /\ u[1].kind = m /\ u # <<>>
  <2>1. u \in Seq(Units) /\ Len(u) = 1 /\ u[1] = [kind |-> m, id |-> -1, part |-> 1]
    BY <1>1 DEF u
  <2>2. u[1].part = 1 /\ u[1].kind = m
    BY <2>1
  <2>3. u # <<>>
    <3>1. Len(u) # 0
      BY ONLY <2>1
    <3> QED  BY ONLY <3>1, EmptySeq
  <2> QED  BY <2>1, <2>2, <2>3
<1>3. Whole(u)
  BY <1>1, <1>2 DEF Whole
<1> QED  BY <1>2, <1>3 DEF u, IsHeader

\* The units of two rows put together.
LEMMA ConcatUnits ==
  ASSUME NEW s \in Seq(Units), NEW t \in Seq(Units)
  PROVE  /\ s \o t \in Seq(Units) /\ Len(s \o t) = Len(s) + Len(t)
         /\ \A i \in 1..Len(s) : (s \o t)[i] = s[i]
         /\ \A i \in 1..Len(t) : (s \o t)[Len(s) + i] = t[i]
  OBVIOUS

\* Taking units off the first part of a row takes them off the row.
LEMMA DropFront ==
  ASSUME NEW b \in Seq(Units), NEW q \in Seq(Units), NEW m \in 0..Len(b)
  PROVE  SubSeq(b, m + 1, Len(b)) \o q = SubSeq(b \o q, m + 1, Len(b \o q))
<1> DEFINE r == SubSeq(b, m + 1, Len(b))
           f == b \o q
           g == SubSeq(f, m + 1, Len(f))
<1>1. r \in Seq(Units) /\ Len(r) = Len(b) - m /\ \A i \in 1..Len(r) : r[i] = b[i + m]
  OBVIOUS
<1>2. /\ f \in Seq(Units) /\ Len(f) = Len(b) + Len(q)
      /\ \A i \in 1..Len(b) : f[i] = b[i]
      /\ \A i \in 1..Len(q) : f[Len(b) + i] = q[i]
  BY ConcatUnits
<1> HIDE DEF r, f
<1>3. g \in Seq(Units) /\ Len(g) = Len(f) - m /\ \A i \in 1..Len(g) : g[i] = f[i + m]
  BY <1>2
<1>4. /\ r \o q \in Seq(Units) /\ Len(r \o q) = Len(r) + Len(q)
      /\ \A i \in 1..Len(r) : (r \o q)[i] = r[i]
      /\ \A i \in 1..Len(q) : (r \o q)[Len(r) + i] = q[i]
  <2>1. r \in Seq(Units)
    BY <1>1
  <2> QED  BY ONLY <2>1, ConcatUnits, q \in Seq(Units)
<1>5. PICK n \in Nat, k \in Nat : n = Len(b) /\ k = Len(q) /\ m \in 0..n
  OBVIOUS
<1> DEFINE h == r \o q
<1> HIDE DEF g, h
<1>5a. /\ Len(r) = n - m /\ Len(g) = (n + k) - m /\ Len(h) = (n - m) + k
       /\ \A i \in 1..(n - m) : h[i] = r[i] /\ r[i] = b[i + m]
       /\ \A i \in 1..k : h[(n - m) + i] = q[i] /\ f[n + i] = q[i]
       /\ \A i \in 1..((n + k) - m) : g[i] = f[i + m]
       /\ \A i \in 1..n : f[i] = b[i]
  <2>1. /\ Len(r) = n - m /\ Len(f) = n + k /\ Len(h) = Len(r) + k /\ Len(g) = Len(f) - m
    BY <1>1, <1>2, <1>3, <1>4, <1>5 DEF h
  <2>2. Len(r) = n - m /\ Len(g) = (n + k) - m /\ Len(h) = (n - m) + k
    BY <2>1
  <2> QED  BY <1>1, <1>2, <1>3, <1>4, <1>5, <2>2 DEF h
<1>6. \A i \in 1..((n - m) + k) : h[i] = g[i]
  <2> SUFFICES ASSUME NEW i \in 1..((n - m) + k) PROVE h[i] = g[i]
    OBVIOUS
  <2>1. CASE i <= n - m
    <3>1. i \in 1..(n - m) /\ i + m \in 1..n /\ i \in 1..((n + k) - m)
      BY <1>5, <2>1
    <3> QED  BY <1>5a, <3>1
  <2>2. CASE i > n - m
    <3> DEFINE l == i - (n - m)
    <3>1. l \in 1..k /\ i = (n - m) + l /\ i + m = n + l /\ i \in 1..((n + k) - m)
      BY <1>5, <2>2
    <3> HIDE DEF l
    <3>2. h[(n - m) + l] = q[l] /\ f[n + l] = q[l] /\ g[i] = f[i + m]
      BY <1>5a, <3>1
    <3> QED  BY <3>1, <3>2
  <2> QED  BY <2>1, <2>2
<1>7. Len(h) = Len(g) /\ h \in Seq(Units) /\ g \in Seq(Units)
  <2>1. h \in Seq(Units)
    BY <1>4 DEF h
  <2> QED  BY SMTT(30), <1>3, <1>5, <1>5a, <2>1
<1>8. h = g
  BY ONLY <1>5a, <1>6, <1>7, SeqEqual
<1> QED  BY <1>8 DEF h, r, g, f

\* A row of whole units starts with a packet or a marker that is all there.
LEMMA HeadPacket ==
  ASSUME NEW s \in Seq(Units), Whole(s), s # <<>>, NEW z, z = Size(s[1].kind)
  PROVE  /\ z \in 1..3 /\ z <= Len(s)
         /\ \A i \in 1..z : s[i].kind = s[1].kind /\ s[i].part = i /\ s[i].id = s[1].id
         /\ z < Len(s) => s[z + 1].part = 1
<1>1. z \in 1..3
  BY Sizes
<1>2. PICK n \in Nat \ {0} : n = Len(s)
  BY EmptySeq
<1>3. /\ s[1].part = 1 /\ s[n].part = Size(s[n].kind)
      /\ \A i \in 1..(n - 1) : IF s[i].part = Size(s[i].kind) THEN s[i + 1].part = 1
                               ELSE s[i + 1] = [s[i] EXCEPT !.part = @ + 1]
  BY <1>2 DEF Whole
<1>3a. \A i \in 1..n : s[i] \in Units
  BY <1>2
<1>4. ASSUME NEW i \in 1..n, s[i].kind = s[1].kind, s[i].part = i, s[i].id = s[1].id
      PROVE  /\ i = z /\ i < n => s[i + 1].part = 1
             /\ i < z => /\ i < n /\ s[i + 1].kind = s[1].kind
                         /\ s[i + 1].part = i + 1 /\ s[i + 1].id = s[1].id
  <2>1. CASE i = n
    <3>1. i = z
      BY <1>3, <1>4, <2>1
    <3> QED  BY <1>1, <2>1, <3>1
  <2>2. CASE i # n
    <3>1. i \in 1..(n - 1)
      BY <2>2
    <3>2. CASE i = z
      <4>1. s[i].part = Size(s[i].kind)
        BY <1>4, <3>2
      <4>2. s[i + 1].part = 1
        BY <1>3, <3>1, <4>1
      <4> QED  BY <1>1, <3>2, <4>2
    <3>3. CASE i # z
      <4>1. s[i + 1] = [s[i] EXCEPT !.part = @ + 1]
        BY <1>3, <1>4, <3>1, <3>3
      <4>2. s[i] \in Units
        BY <1>3a
      <4>3. s[i + 1].kind = s[i].kind /\ s[i + 1].id = s[i].id /\ s[i + 1].part = s[i].part + 1
        BY <4>1, <4>2 DEF Units
      <4> QED  BY <1>4, <3>1, <3>3, <4>3
    <3> QED  BY <3>2, <3>3
  <2> QED  BY <2>1, <2>2
<1>5. 1 \in 1..n /\ s[1].part = 1
  BY <1>2, <1>3
<1>6. CASE z = 1
  BY <1>2, <1>4, <1>5, <1>6
<1>7. CASE z \in 2..3
  <2>1. 2 \in 1..n /\ s[2].kind = s[1].kind /\ s[2].part = 2 /\ s[2].id = s[1].id
    BY <1>2, <1>4, <1>5, <1>7
  <2>2. CASE z = 2
    BY <1>2, <1>4, <1>5, <2>1, <2>2
  <2>3. CASE z = 3
    <3>1. 3 \in 1..n /\ s[3].kind = s[1].kind /\ s[3].part = 3 /\ s[3].id = s[1].id
      BY <1>2, <1>4, <2>1, <2>3
    <3> QED  BY <1>2, <1>4, <1>5, <2>1, <2>3, <3>1
  <2> QED  BY <1>7, <2>2, <2>3
<1> QED  BY <1>1, <1>6, <1>7

-----------------------------------------------------------------------------
(* The steps *)

\* What an operation that takes the first m units does to what is ahead.
Takes(m) ==
  /\ Len(Ahead') = Len(Ahead) - m
  /\ \A i \in 1..Len(Ahead') : Ahead'[i] = Ahead[i + m]
  /\ (\E i \in 1..m : Ahead[i].kind = "END") => flags'.marker /\ flags'.batchSet = BatchSet

\* What is ahead is a row of units, and Line has it between its numbers.
LEMMA AheadUnits ==
  ASSUME StreamTypeOK
  PROVE  Ahead \in Seq(Units) /\ Line = Between(last, Ahead, next)
  BY ConcatUnits DEF StreamTypeOK, Ahead, Line, Between

\* StreamIntact in the next state, from what is ahead there.
LEMMA IntactNext ==
  ASSUME Whole(Ahead'), Numbered(Line')
  PROVE  StreamIntact'
  BY DEF StreamIntact, Whole, Numbered, IsHeader, Size, Markers

\* A read of the poll thread takes nothing, a marker, a packet or a packet
\* and the marker after it.
LEMMA BuildTakes ==
  ASSUME StreamTypeOK, StreamIntact, BuildMpuEvent
  PROVE  StreamTypeOK' /\ StreamIntact' /\ \E m \in 0..Len(Ahead) : Takes(m)
<1>1. PICK n \in 1..(MaxRead - Len(left)) :
         /\ n <= Len(pipe)
         /\ pipe' = SubSeq(pipe, n + 1, Len(pipe))
         /\ LET buf == left \o SubSeq(pipe, 1, n)
                r == IF Len(buf) < MaxRead THEN AfterShort(buf) ELSE AfterFull(buf)
            IN  /\ left' = r.left /\ flags' = r.flags /\ parsed' = r.packet
                /\ last' = IF r.packet = NoPacket THEN last ELSE r.packet.id
  BY DEF BuildMpuEvent
<1> DEFINE buf == left \o SubSeq(pipe, 1, n)
<1>2. /\ buf \in Seq(Units) /\ Len(buf) \in 1..3 /\ pipe' \in Seq(Units)
      /\ Ahead = buf \o pipe'
  <2>1. left \in Seq(Units) /\ pipe \in Seq(Units) /\ n \in 1..Len(pipe) /\ Len(left) + n \in 1..3
    BY <1>1 DEF StreamTypeOK, MaxRead
  <2>2. /\ SubSeq(pipe, 1, n) \in Seq(Units) /\ Len(SubSeq(pipe, 1, n)) = n
        /\ SubSeq(pipe, n + 1, Len(pipe)) \in Seq(Units)
    BY <2>1
  <2>3. SubSeq(pipe, 1, n) \o SubSeq(pipe, n + 1, Len(pipe)) = pipe
    BY <2>1, ConcatAdjacentSubSeq, SubSeqFull
  <2>4. (left \o SubSeq(pipe, 1, n)) \o SubSeq(pipe, n + 1, Len(pipe)) = left \o pipe
    <3>1. ASSUME NEW s \in Seq(Units), NEW t \in Seq(Units), NEW u \in Seq(Units)
          PROVE  (s \o t) \o u = s \o (t \o u)
      BY SMTT(30), ConcatAssociative
    <3>2. SubSeq(pipe, 1, n) \in Seq(Units) /\ SubSeq(pipe, n + 1, Len(pipe)) \in Seq(Units)
      BY <2>2
    <3>3. left \in Seq(Units)
      BY <2>1
    <3>4. (left \o SubSeq(pipe, 1, n)) \o SubSeq(pipe, n + 1, Len(pipe))
             = left \o (SubSeq(pipe, 1, n) \o SubSeq(pipe, n + 1, Len(pipe)))
      BY ONLY <3>1, <3>2, <3>3, Zenon
    <3> QED  BY <2>3, <3>4, Zenon
  <2>5. buf \in Seq(Units) /\ Len(buf) = Len(left) + n
    BY <2>1, <2>2, ConcatUnits
  <2> HIDE DEF buf
  <2>6. Ahead = buf \o pipe'
    BY <1>1, <2>4 DEF Ahead, buf
  <2> QED  BY <1>1, <2>1, <2>2, <2>5, <2>6
<1> HIDE DEF buf
<1>3. Ahead \in Seq(Units) /\ Whole(Ahead) /\ Numbered(Between(last, Ahead, next))
  BY AheadUnits DEF StreamIntact
<1>4. /\ Len(buf) <= Len(Ahead) /\ \A i \in 1..Len(buf) : Ahead[i] = buf[i] /\ buf[i] \in Units
      /\ buf # <<>> /\ Ahead # <<>> /\ Head(buf) = buf[1]
  <2>1. Len(Ahead) = Len(buf) + Len(pipe') /\ \A i \in 1..Len(buf) : Ahead[i] = buf[i]
    BY <1>2, ConcatUnits
  <2>2. Len(pipe') \in Nat
    BY <1>2
  <2>3. buf # <<>> /\ Ahead # <<>> /\ Head(buf) = buf[1]
    BY SMTT(30), <1>2, <2>1, <2>2, EmptySeq
  <2> QED  BY <1>2, <2>1, <2>2, <2>3
\* The units are those up to the first whole packet or marker.
<1>5. ASSUME NEW m \in 0..Len(buf), left' = SubSeq(buf, m + 1, Len(buf)), Len(left') <= 2,
             flags' \in [skip : BOOLEAN, batchSet : BOOLEAN, marker : BOOLEAN],
             m = 0 => last' = last,
             m > 0 => last' = IF IsHeader(Ahead[1]) THEN Ahead[1].id ELSE last,
             \A i \in 2..m : ~IsHeader(Ahead[i]),
             m > 0 /\ m < Len(Ahead) => Ahead[m + 1].part = 1,
             (\E i \in 1..m : Ahead[i].kind = "END") => flags'.marker /\ flags'.batchSet = BatchSet
      PROVE  StreamTypeOK' /\ StreamIntact' /\ \E k \in 0..Len(Ahead) : Takes(k)
  <2>1. Ahead' = SubSeq(Ahead, m + 1, Len(Ahead))
    BY <1>2, <1>5, DropFront DEF Ahead
  <2>2. /\ next' = next /\ flushes' = flushes /\ pc' = [pc EXCEPT !.poll = "mplBuilt"]
    BY DEF BuildMpuEvent
  <2>3. /\ Ahead' \in Seq(Units) /\ Len(Ahead') = Len(Ahead) - m
        /\ \A i \in 1..Len(Ahead') : Ahead'[i] = Ahead[i + m]
        /\ Whole(Ahead') /\ Numbered(Between(last', Ahead', next))
    <3>1. CASE m = 0
      <4>1. Ahead' = Ahead
        BY <1>3, <2>1, <3>1, SubSeqFull
      <4> QED  BY <1>3, <1>5, <3>1, <4>1
    <3>2. CASE m # 0
      <4>1. m \in 1..Len(Ahead) /\ m > 0
        BY <1>4, <1>5, <3>2
      <4>2. last' = IF IsHeader(Ahead[1]) THEN Ahead[1].id ELSE last
        BY <1>5, <4>1
      <4>3. m < Len(Ahead) => Ahead[m + 1].part = 1
        BY <1>5, <4>1
      <4>4. \A i \in 2..m : ~IsHeader(Ahead[i])
        BY <1>5
      <4> QED  BY ONLY <1>3, <2>1, <4>1, <4>2, <4>3, <4>4, Taken
    <3> QED  BY <3>1, <3>2
  <2>4. m \in 0..Len(Ahead) /\ Takes(m)
    BY <1>4, <1>5, <2>3 DEF Takes
  <2>5. StreamTypeOK'
    <3>1. left' \in Seq(Units)
      BY <1>2, <1>5
    <3>2. last' \in Numbers
      <4>1. Ahead[1] \in Units
        BY <1>2, <1>4
      <4>2. IsHeader(Ahead[1]) => Ahead[1].id \in Numbers
        BY <4>1 DEF IsHeader, Units
      <4> QED  BY <1>5, <4>2 DEF StreamTypeOK
    <3> QED  BY <1>2, <1>5, <2>2, <3>1, <3>2 DEF StreamTypeOK
  <2>6. StreamIntact'
    <3>1. Line' = Between(last', Ahead', next')
      BY DEF Line, Between
    <3> QED  BY <2>2, <2>3, <3>1, IntactNext
  <2> QED  BY <2>4, <2>5, <2>6
<1>6. flags \in [skip : BOOLEAN, batchSet : BOOLEAN, marker : BOOLEAN] /\ BatchSet \in BOOLEAN
  BY DEF StreamTypeOK, BatchSet
<1> DEFINE hd == Head(buf)
           z == Size(hd.kind)
<1>7. /\ z \in 1..3 /\ z <= Len(Ahead) /\ hd.part = 1 /\ (hd.kind \in Markers => z = 1)
      /\ \A i \in 1..z : Ahead[i].kind = hd.kind /\ Ahead[i].part = i /\ Ahead[i].id = hd.id
      /\ z < Len(Ahead) => Ahead[z + 1].part = 1
  <2>1. Ahead[1] = hd
    BY <1>2, <1>4
  <2> HIDE DEF hd
  <2>2. /\ z \in 1..3 /\ z <= Len(Ahead)
        /\ \A i \in 1..z : Ahead[i].kind = hd.kind /\ Ahead[i].part = i /\ Ahead[i].id = hd.id
        /\ z < Len(Ahead) => Ahead[z + 1].part = 1
    BY <1>3, <1>4, <2>1, HeadPacket
  <2>3. hd.part = 1
    BY <2>1, <2>2
  <2> QED  BY <2>2, <2>3, Sizes
<1>8. CASE Len(buf) < MaxRead
  <2>1. /\ left' = IF hd.kind \in Markers THEN Tail(buf) ELSE buf
        /\ last' = last
        /\ flags' = [flags EXCEPT !.skip = TRUE,
                                  !.batchSet = IF hd.kind \in Markers THEN BatchSet ELSE @,
                                  !.marker = @ \/ hd.kind = "END"]
    BY <1>1, <1>4, <1>8 DEF AfterShort, buf
  <2>2. /\ flags' \in [skip : BOOLEAN, batchSet : BOOLEAN, marker : BOOLEAN]
        /\ hd.kind = "END" => flags'.marker
        /\ hd.kind \in Markers => flags'.batchSet = BatchSet
    BY <1>6, <2>1
  <2>3. CASE hd.kind \in Markers
    <3>1. /\ left' = SubSeq(buf, 1 + 1, Len(buf)) /\ 1 \in 0..Len(buf) /\ Len(left') <= 2
      <4>1. Tail(buf) = SubSeq(buf, 2, Len(buf)) /\ Len(Tail(buf)) = Len(buf) - 1
        BY <1>2, <1>4, TailIsSubSeq, HeadTailProperties
      <4> QED  BY <1>2, <2>1, <2>3, <4>1
    <3>2. Ahead[1].kind = hd.kind /\ ~IsHeader(Ahead[1])
      BY <1>7, <2>3 DEF IsHeader
    <3>3. 1 < Len(Ahead) => Ahead[1 + 1].part = 1
      BY <1>7, <2>3
    <3> DEFINE m == 1
    <3>4. /\ m \in 0..Len(buf) /\ left' = SubSeq(buf, m + 1, Len(buf)) /\ m # 0 /\ m > 0
          /\ ~(\E i \in 2..m : TRUE) /\ \A i \in 1..m : i = 1
          /\ last' = IF IsHeader(Ahead[1]) THEN Ahead[1].id ELSE last
          /\ m < Len(Ahead) => Ahead[m + 1].part = 1
      BY <2>1, <3>1, <3>2, <3>3
    <3>5. (\E i \in 1..m : Ahead[i].kind = "END") => flags'.marker /\ flags'.batchSet = BatchSet
      <4> HIDE DEF hd, m
      <4> QED  BY <2>2, <2>3, <3>2, <3>4
    <3> HIDE DEF hd, m
    <3> QED  BY <1>5, <2>2, <3>1, <3>4, <3>5
  <2>4. CASE hd.kind \notin Markers
    <3>1. left' = SubSeq(buf, 0 + 1, Len(buf)) /\ 0 \in 0..Len(buf) /\ Len(left') <= 2
      <4>1. SubSeq(buf, 1, Len(buf)) = buf
        BY <1>2, SubSeqFull
      <4> QED  BY <1>2, <1>8, <2>1, <2>4, <4>1 DEF MaxRead
    <3> DEFINE m == 0
    <3>2. /\ m \in 0..Len(buf) /\ left' = SubSeq(buf, m + 1, Len(buf)) /\ m = 0 /\ ~(m > 0)
          /\ ~(\E i \in 1..m : TRUE) /\ ~(\E i \in 2..m : TRUE)
      BY <3>1
    <3> HIDE DEF hd, m
    <3> QED  BY <1>5, <2>1, <2>2, <3>1, <3>2
  <2> QED  BY <2>3, <2>4
<1>9. CASE Len(buf) >= MaxRead
  <2> DEFINE rest == SubSeq(buf, z + 1, Len(buf))
             follows == rest # <<>> /\ Head(rest).kind \in Markers
  <2>1. /\ left' = IF follows THEN Tail(rest) ELSE rest
        /\ last' = IF hd.kind \in Markers THEN last ELSE hd.id
        /\ flags' = [flags EXCEPT !.skip = hd.kind \in Markers,
                                  !.batchSet = IF hd.kind \in Markers \/ follows THEN BatchSet ELSE @,
                                  !.marker = @ \/ hd.kind = "END" \/ follows]
    <3>1. AfterFull(buf) =
            [left |-> IF follows THEN Tail(rest) ELSE rest,
             packet |-> IF hd.kind \in Markers THEN NoPacket ELSE [kind |-> hd.kind, id |-> hd.id],
             flags |-> [flags EXCEPT !.skip = hd.kind \in Markers,
                                     !.batchSet = IF hd.kind \in Markers \/ follows THEN BatchSet ELSE @,
                                     !.marker = @ \/ hd.kind = "END" \/ follows]]
      BY <1>7 DEF AfterFull
    <3> HIDE DEF rest, follows
    <3>2. /\ left' = AfterFull(buf).left /\ flags' = AfterFull(buf).flags
          /\ last' = IF AfterFull(buf).packet = NoPacket THEN last ELSE AfterFull(buf).packet.id
      <4>1. ~(Len(buf) < MaxRead)
        BY <1>2, <1>9 DEF MaxRead
      <4> QED  BY <1>1, <4>1 DEF buf
    <3>3. hd.kind \in Markers \/ [kind |-> hd.kind, id |-> hd.id] # NoPacket
      <4>1. hd \in Units
        BY <1>2, <1>4
      <4>2. hd.kind \in Markers \/ hd.kind # "none"
        BY <4>1, Sizes DEF Units
      <4> QED  BY <4>2 DEF NoPacket
    <3> HIDE DEF hd
    <3> QED  BY <3>1, <3>2, <3>3
  <2>2. /\ flags' \in [skip : BOOLEAN, batchSet : BOOLEAN, marker : BOOLEAN]
        /\ hd.kind = "END" \/ follows => flags'.marker
        /\ hd.kind \in Markers \/ follows => flags'.batchSet = BatchSet
    <3>1. follows \in BOOLEAN /\ (hd.kind \in Markers) \in BOOLEAN
      OBVIOUS
    <3> DEFINE t == IF hd.kind \in Markers \/ follows THEN BatchSet ELSE flags.batchSet
               v == flags.marker \/ hd.kind = "END" \/ follows
    <3>2. flags' = [flags EXCEPT !.skip = hd.kind \in Markers, !.batchSet = t, !.marker = v]
      BY <2>1
    <3>3. t \in BOOLEAN /\ v \in BOOLEAN
      BY <1>6
    <3>4. (hd.kind = "END" \/ follows => v) /\ (hd.kind \in Markers \/ follows => t = BatchSet)
      OBVIOUS
    <3>5. flags' \in [skip : BOOLEAN, batchSet : BOOLEAN, marker : BOOLEAN] /\ flags'.marker = v /\ flags'.batchSet = t
      <4> HIDE DEF t, v, follows, hd
      <4> QED  BY <1>6, <3>1, <3>2, <3>3
    <3> HIDE DEF t, v, follows, hd
    <3> QED  BY <3>3, <3>4, <3>5
  <2>3. /\ Len(buf) = 3 /\ Len(rest) = 3 - z /\ z + 1 \in 1..4
        /\ rest # <<>> => z < 3 /\ Head(rest) = Ahead[z + 1] /\ Tail(rest) = SubSeq(buf, z + 1 + 1, Len(buf))
                         /\ Len(Tail(rest)) = 2 - z
    <3>1. Len(buf) = 3
      BY <1>2, <1>9 DEF MaxRead
    <3> HIDE DEF z
    <3>2. rest \in Seq(Units) /\ Len(rest) = 3 - z
      <4>1. z \in Int /\ 3 \in Int /\ \A i \in (z + 1)..3 : i \in 1..Len(buf)
        BY <1>7, <3>1
      <4>2. \A i \in (z + 1)..3 : buf[i] \in Units
        BY <1>4, <4>1
      <4>3. rest \in Seq(Units) /\ Len(rest) = IF z + 1 <= 3 THEN 3 - (z + 1) + 1 ELSE 0
        BY <3>1, <4>1, <4>2, SubSeqProperties
      <4> HIDE DEF rest
      <4> QED  BY <1>7, <4>3
    <3> HIDE DEF rest
    <3>3. ASSUME rest # <<>>
          PROVE  z < 3 /\ Head(rest) = Ahead[z + 1] /\ Tail(rest) = SubSeq(buf, z + 1 + 1, Len(buf))
                 /\ Len(Tail(rest)) = 2 - z
      <4>1. Len(rest) # 0
        BY <3>2, <3>3, EmptySeq
      <4>2. z < 3 /\ z + 1 \in 1..Len(buf) /\ Len(buf) \in (z + 1)..Len(buf)
        BY <1>7, <3>1, <3>2, <4>1
      <4>3. Head(rest) = buf[z + 1] /\ Tail(rest) = SubSeq(buf, z + 1 + 1, Len(buf))
        BY <1>2, <4>2, HeadTailOfSubSeq DEF rest
      <4>4. Len(Tail(rest)) = Len(rest) - 1
        BY <3>2, <3>3, HeadTailProperties
      <4>5. Head(rest) = Ahead[z + 1]
        BY <1>4, <4>2, <4>3
      <4> QED  BY <1>7, <3>2, <4>2, <4>3, <4>4, <4>5
    <3> QED  BY <1>7, <3>1, <3>2, <3>3
  <2>4. \A i \in 2..z : ~IsHeader(Ahead[i])
    BY <1>7 DEF IsHeader
  <2>5. last' = IF IsHeader(Ahead[1]) THEN Ahead[1].id ELSE last
    BY <1>7, <2>1 DEF IsHeader
  <2>6. hd.kind = "END" => hd.kind \in Markers
    BY DEF Markers
  <2>7. CASE follows
    <3>1. /\ left' = SubSeq(buf, (z + 1) + 1, Len(buf)) /\ z + 1 \in 0..Len(buf) /\ Len(left') <= 2
      <4>1. rest # <<>>
        BY <2>7
      <4> HIDE DEF rest, z
      <4>2. left' = Tail(rest)
        BY <2>1, <2>7
      <4> QED  BY <1>7, <2>3, <4>1, <4>2
    <3>2. Ahead[z + 1].kind \in Markers
      BY <2>3, <2>7
    <3>3. \A i \in 2..(z + 1) : ~IsHeader(Ahead[i])
      <4>1. \A i \in 2..(z + 1) : i \in 2..z \/ i = z + 1
        BY <1>7
      <4> QED  BY <2>4, <3>2, <4>1 DEF IsHeader
    <3>4. z + 1 < Len(Ahead) => Ahead[(z + 1) + 1].part = 1
      <4> SUFFICES ASSUME z + 1 < Len(Ahead) PROVE Ahead[(z + 1) + 1].part = 1
        OBVIOUS
      <4>1. z + 1 \in 1..(Len(Ahead) - 1) /\ z + 1 \in 1..Len(Ahead) /\ z < Len(Ahead)
        BY <1>3, <1>7
      <4>2. Ahead[z + 1].part = Size(Ahead[z + 1].kind)
        BY <1>7, <3>2, <4>1, Sizes
      <4> QED  BY <1>3, <4>1, <4>2 DEF Whole
    <3>5. z + 1 > 0 /\ z + 1 # 0
      BY <1>7
    <3> DEFINE m == z + 1
    <3> HIDE DEF follows, z, hd, m
    <3> QED  BY <1>5, <2>2, <2>5, <2>7, <3>1, <3>3, <3>4, <3>5 DEF m
  <2>8. CASE ~follows
    <3>1. left' = SubSeq(buf, z + 1, Len(buf)) /\ z \in 0..Len(buf) /\ Len(left') <= 2
      <4>1. left' = rest
        BY <2>1, <2>8
      <4>2. z \in 0..Len(buf) /\ Len(rest) <= 2
        <5> HIDE DEF rest, z
        <5> QED  BY <1>7, <2>3
      <4> QED  BY <4>1, <4>2
    <3>2. z > 0 /\ z # 0
      BY <1>7
    <3>3. (\E i \in 1..z : Ahead[i].kind = "END") => hd.kind = "END"
      BY <1>7
    <3>4. z < Len(Ahead) => Ahead[z + 1].part = 1
      BY <1>7
    <3> HIDE DEF follows, z, hd
    <3> QED  BY <1>5, <2>2, <2>4, <2>5, <2>6, <3>1, <3>2, <3>3, <3>4
  <2> QED  BY <2>7, <2>8
<1> QED  BY <1>2, <1>8, <1>9 DEF MaxRead

\* One row of units more, or one and a marker, in the IIO buffer.
LEMMA AddPacket ==
  ASSUME StreamTypeOK, StreamIntact, NEW k \in Kinds, next' = (next + 1) % Serials,
         UNCHANGED <<left, last>>
  PROVE  /\ pipe \o Packet(k, next) \in Seq(Units) /\ next' \in Numbers
         /\ left \o (pipe \o Packet(k, next)) = Ahead \o Packet(k, next)
         /\ Ahead \o Packet(k, next) \in Seq(Units)
         /\ Whole(Ahead \o Packet(k, next)) /\ Numbered(Between(last, Ahead \o Packet(k, next), next'))
<1>1. /\ pipe \in Seq(Units) /\ left \in Seq(Units) /\ Ahead \in Seq(Units) /\ next \in Numbers
      /\ Whole(Ahead) /\ Numbered(Between(last, Ahead, next))
  BY AheadUnits DEF StreamTypeOK, StreamIntact
<1>2. next' \in Numbers
  BY <1>1, StreamAssumption DEF Numbers
<1> DEFINE p == Packet(k, next)
<1>3. /\ p \in Seq(Units) /\ p # <<>> /\ Whole(p) /\ IsHeader(p[1]) /\ p[1].id = next
      /\ \A i \in 2..Len(p) : ~IsHeader(p[i])
  BY <1>1, PacketWhole
<1> HIDE DEF p
<1>4. Ahead \o p \in Seq(Units) /\ Whole(Ahead \o p) /\ Numbered(Between(last, Ahead \o p, next'))
  BY <1>1, <1>3, Added
<1>5. left \o (pipe \o p) = Ahead \o p /\ pipe \o p \in Seq(Units)
  BY SMTT(30), <1>1, <1>3, ConcatAssociative, ConcatUnits DEF Ahead
<1> QED  BY <1>2, <1>4, <1>5 DEF p

\* A marker more in the IIO buffer.
LEMMA AddMarker ==
  ASSUME NEW q \in Seq(Units), NEW l \in Seq(Units), NEW a, NEW n, NEW m \in Markers,
         Whole(l \o q), Numbered(Between(a, l \o q, n))
  PROVE  /\ q \o MarkerUnit(m) \in Seq(Units)
         /\ l \o (q \o MarkerUnit(m)) = (l \o q) \o MarkerUnit(m)
         /\ Whole((l \o q) \o MarkerUnit(m)) /\ Numbered(Between(a, (l \o q) \o MarkerUnit(m), n))
<1> DEFINE p == MarkerUnit(m)
           s == l \o q
<1>1. p \in Seq(Units) /\ p # <<>> /\ Whole(p) /\ ~IsHeader(p[1]) /\ Len(p) = 1
  BY MarkerWhole
<1>2. s \in Seq(Units) /\ Whole(s) /\ Numbered(Between(a, s, n))
  BY ConcatUnits
<1> HIDE DEF p
<1>3. l \o (q \o p) = (l \o q) \o p /\ q \o p \in Seq(Units)
  <2>1. p \in Seq(Units)
    BY <1>1
  <2>2. q \o p \in Seq(Units)
    BY <2>1, ConcatUnits
  <2>3. l \o (q \o p) = (l \o q) \o p
    BY <2>1, ConcatAssociative
  <2> QED  BY <2>2, <2>3
<1>4. \A i \in 2..Len(p) : ~IsHeader(p[i])
  BY <1>1
<1> HIDE DEF s
<1>5. Whole(s \o p) /\ Numbered(Between(a, s \o p, n))
  BY <1>1, <1>2, <1>4, Added
<1> QED  BY <1>3, <1>5 DEF p, s

\* The driver writes a packet.
LEMMA ArriveStep ==
  ASSUME StreamTypeOK, StreamIntact, NEW k \in Kinds, Arrive(k)
  PROVE  StreamTypeOK' /\ StreamIntact' /\ Ahead' = Ahead \o Packet(k, next)
<1>1. /\ pipe' = pipe \o Packet(k, next) /\ next' = (next + 1) % Serials
      /\ UNCHANGED <<left, last, flags, flushes, pc>>
  BY DEF Arrive, driverRest
<1>2. /\ pipe' \in Seq(Units) /\ next' \in Numbers /\ Ahead' = Ahead \o Packet(k, next)
      /\ Whole(Ahead') /\ Numbered(Between(last', Ahead', next'))
  BY <1>1, AddPacket DEF Ahead
<1>3. StreamTypeOK'
  BY <1>1, <1>2 DEF StreamTypeOK
<1>4. Line' = Between(last', Ahead', next')
  BY DEF Line, Between
<1> QED  BY <1>2, <1>3, <1>4, IntactNext

\* The driver is stopped and writes a marker.
LEMMA StopStep ==
  ASSUME StreamTypeOK, StreamIntact, Stop
  PROVE  StreamTypeOK' /\ StreamIntact' /\ Ahead' = Ahead \o MarkerUnit("END")
<1>1. pipe' = pipe \o MarkerUnit("END") /\ UNCHANGED <<left, last, next, flags, flushes, pc>>
  BY DEF Stop, driverRest
<1>2. /\ pipe \in Seq(Units) /\ left \in Seq(Units) /\ Ahead \in Seq(Units) /\ Ahead = left \o pipe
      /\ Whole(Ahead) /\ Numbered(Between(last, Ahead, next)) /\ "END" \in Markers
  BY AheadUnits DEF StreamTypeOK, StreamIntact, Ahead, Markers
<1>3. /\ pipe \o MarkerUnit("END") \in Seq(Units)
      /\ left \o (pipe \o MarkerUnit("END")) = Ahead \o MarkerUnit("END")
      /\ Whole(Ahead \o MarkerUnit("END"))
      /\ Numbered(Between(last, Ahead \o MarkerUnit("END"), next))
  BY <1>2, AddMarker DEF Ahead
<1>4. /\ pipe' \in Seq(Units) /\ Ahead' = Ahead \o MarkerUnit("END")
      /\ Whole(Ahead') /\ Numbered(Between(last', Ahead', next'))
  BY <1>1, <1>3 DEF Ahead
<1>5. StreamTypeOK'
  BY <1>1, <1>4 DEF StreamTypeOK
<1>6. Line' = Between(last', Ahead', next')
  BY DEF Line, Between
<1> QED  BY <1>4, <1>5, <1>6, IntactNext

\* The driver answers a flush.
LEMMA FlushDriverStep ==
  ASSUME StreamTypeOK, StreamIntact, FlushDriver
  PROVE  /\ StreamTypeOK' /\ StreamIntact'
         /\ \/ "END" \in Answers /\ \E k \in Kinds : Ahead' = (Ahead \o Packet(k, next)) \o MarkerUnit("END")
            \/ "EMPTY" \in Answers
            \/ "fails" \in Answers
<1>1. UNCHANGED <<left, last, flags, flushes>> /\ pc' = [pc EXCEPT !.flush = "idle"]
  BY DEF FlushDriver, driverRest
<1>2. /\ pipe \in Seq(Units) /\ left \in Seq(Units) /\ Ahead \in Seq(Units) /\ Ahead = left \o pipe
      /\ Whole(Ahead) /\ Numbered(Between(last, Ahead, next)) /\ next \in Numbers
      /\ "END" \in Markers /\ "EMPTY" \in Markers
  BY AheadUnits DEF StreamTypeOK, StreamIntact, Ahead, Markers
<1>3. ASSUME pipe' \in Seq(Units), next' \in Numbers, Whole(Ahead'), Numbered(Between(last', Ahead', next'))
      PROVE  StreamTypeOK' /\ StreamIntact'
  <2>1. StreamTypeOK'
    BY <1>1, <1>3 DEF StreamTypeOK
  <2>2. Line' = Between(last', Ahead', next')
    BY DEF Line, Between
  <2> QED  BY <1>3, <2>1, <2>2, IntactNext
<1>4. CASE /\ "END" \in Answers
           /\ \E k \in Kinds : /\ pipe' = pipe \o Packet(k, next) \o MarkerUnit("END")
                               /\ next' = (next + 1) % Serials
  <2>1. PICK k \in Kinds : /\ pipe' = pipe \o Packet(k, next) \o MarkerUnit("END")
                           /\ next' = (next + 1) % Serials
    BY <1>4
  <2> DEFINE q == pipe \o Packet(k, next)
             s == Ahead \o Packet(k, next)
  <2>2. /\ q \in Seq(Units) /\ next' \in Numbers /\ s = left \o q /\ s \in Seq(Units)
        /\ Whole(s) /\ Numbered(Between(last, s, next'))
    BY <1>1, <2>1, AddPacket
  <2> HIDE DEF q, s
  <2>3. /\ q \o MarkerUnit("END") \in Seq(Units) /\ left \o (q \o MarkerUnit("END")) = s \o MarkerUnit("END")
        /\ Whole(s \o MarkerUnit("END")) /\ Numbered(Between(last, s \o MarkerUnit("END"), next'))
    BY <1>2, <2>2, AddMarker
  <2>4. pipe' = q \o MarkerUnit("END")
    BY <2>1 DEF q
  <2>5. Ahead' = s \o MarkerUnit("END")
    BY <1>1, <2>3, <2>4 DEF Ahead
  <2>6. StreamTypeOK' /\ StreamIntact'
    BY <1>1, <1>3, <2>2, <2>3, <2>4, <2>5
  <2> QED  BY <1>4, <2>5, <2>6 DEF s
<1>5. CASE "EMPTY" \in Answers /\ pipe' = pipe \o MarkerUnit("EMPTY") /\ UNCHANGED next
  <2>1. /\ pipe \o MarkerUnit("EMPTY") \in Seq(Units)
        /\ left \o (pipe \o MarkerUnit("EMPTY")) = Ahead \o MarkerUnit("EMPTY")
        /\ Whole(Ahead \o MarkerUnit("EMPTY"))
        /\ Numbered(Between(last, Ahead \o MarkerUnit("EMPTY"), next))
    BY <1>2, AddMarker DEF Ahead
  <2>2. Ahead' = Ahead \o MarkerUnit("EMPTY")
    BY <1>1, <1>5, <2>1 DEF Ahead
  <2> QED  BY <1>1, <1>2, <1>3, <1>5, <2>1, <2>2
<1>6. CASE "fails" \in Answers /\ UNCHANGED <<pipe, next>>
  <2>1. Ahead' = Ahead
    BY <1>1, <1>6 DEF Ahead
  <2> QED  BY <1>1, <1>2, <1>3, <1>6, <2>1
<1> QED  BY <1>4, <1>5, <1>6 DEF FlushDriver

\* What is ahead is left alone by the rest: the flush thread up to its call
\* of the driver, the events and the pending flush of the step counter.
StreamRest == \/ BuildCompassEvent \/ ReadEvents \/ CheckFlushes \/ FakeFlush \/ Start
              \/ FlushClear \/ FlushStepCounter \/ (\E h \in Handles : FlushPush(h))
              \/ UNCHANGED streamVars

\* The other steps keep the types and leave what is ahead alone.
LEMMA RestStep ==
  ASSUME StreamTypeOK, StreamRest
  PROVE  StreamTypeOK' /\ UNCHANGED <<pipe, left, next, last>> /\ Ahead' = Ahead
<1> USE DEF StreamTypeOK
<1>1. CASE BuildCompassEvent
  BY <1>1 DEF BuildCompassEvent, Ahead
<1>2. CASE ReadEvents
  <2>1. UNCHANGED <<pipe, left, next, last, flags>>
    BY <1>2 DEF ReadEvents
  <2>2. flushes' \in Seq(Handles)
    <3>1. Completed \in Seq(Handles)
      BY DEF Completed
    <3>2. Len(Completed) \in Nat /\ Len(flushes) \in Nat
      BY <3>1
    <3>3. flushes' = SubSeq(flushes, Len(Completed) + 1, Len(flushes))
      BY <1>2 DEF ReadEvents
    <3>4. \A i \in (Len(Completed) + 1)..Len(flushes) : flushes[i] \in Handles
      BY <3>2
    <3> QED  BY <3>2, <3>3, <3>4, SubSeqProperties
  <2>3. pc' \in [poll : {"poll", "mplBuilt", "compassBuilt", "mplSent", "compassSent", "mplRead"},
                 flush : {"idle", "pushed", "reading"}, sent : BOOLEAN]
    BY <1>2 DEF ReadEvents
  <2> QED  BY <2>1, <2>2, <2>3 DEF Ahead
<1>3. CASE CheckFlushes
  <2>1. UNCHANGED <<pipe, left, next, last, flushes>>
    BY <1>3 DEF CheckFlushes
  <2>2. flags' \in [skip : BOOLEAN, batchSet : BOOLEAN, marker : BOOLEAN]
    BY <1>3 DEF CheckFlushes
  <2>3. pc' \in [poll : {"poll", "mplBuilt", "compassBuilt", "mplSent", "compassSent", "mplRead"},
                 flush : {"idle", "pushed", "reading"}, sent : BOOLEAN]
    BY <1>3 DEF CheckFlushes
  <2> QED  BY <2>1, <2>2, <2>3 DEF Ahead
<1>4. CASE FakeFlush
  BY <1>4 DEF FakeFlush, Ahead
<1>5. CASE Start
  BY <1>5 DEF Start, driverRest, Ahead
<1>6. CASE FlushClear
  BY <1>6 DEF FlushClear, Ahead
<1>7. CASE FlushStepCounter
  BY <1>7 DEF FlushStepCounter, Ahead
<1>8. ASSUME NEW h \in Handles, FlushPush(h) PROVE StreamTypeOK' /\ UNCHANGED <<pipe, left, next, last>> /\ Ahead' = Ahead
  BY <1>8, AppendProperties DEF FlushPush, Ahead
<1>9. CASE UNCHANGED streamVars
  BY <1>9 DEF streamVars, Ahead
<1> QED  BY <1>1, <1>2, <1>3, <1>4, <1>5, <1>6, <1>7, <1>8, <1>9 DEF StreamRest

\* These are all steps.
LEMMA StreamSteps ==
  ASSUME [StreamNext]_streamVars
  PROVE  \/ BuildMpuEvent \/ (\E k \in Kinds : Arrive(k)) \/ Stop \/ FlushDriver \/ StreamRest
  BY DEF StreamNext, Poll, Driver, StreamRest

IntactInv == StreamTypeOK /\ StreamIntact

\* The invariant of the stream holds at the start.
LEMMA IntactInit ==
  StreamInit => IntactInv
<1> SUFFICES ASSUME StreamInit PROVE IntactInv
  OBVIOUS
<1>1. StreamTypeOK
  <2>1. 0 \in Numbers /\ Serials - 1 \in Numbers
    BY StreamAssumption DEF Numbers
  <2> QED  BY <2>1 DEF StreamInit, StreamTypeOK
<1>2. Ahead = <<>> /\ Ahead \in Seq(Units)
  BY DEF StreamInit, Ahead
<1>3. Whole(Ahead)
  BY <1>2 DEF Whole
<1>4. Numbered(Line)
  <2>1. Line = Between(last, Ahead, next)
    BY DEF Line, Between
  <2>2. Len(Line) = 2 /\ Line[1].id = last /\ Line[2].id = next
    <3>1. Len(Ahead) = 0
      BY <1>2, EmptySeq
    <3>2. /\ Len(Between(last, Ahead, next)) = Len(Ahead) + 2
          /\ Between(last, Ahead, next)[1].id = last
          /\ Between(last, Ahead, next)[Len(Ahead) + 2].id = next
      <4>1. Ahead \in Seq(Units)
        BY <1>2
      <4> QED  BY ONLY <4>1, BetweenUnits
    <3> QED  BY ONLY <2>1, <3>1, <3>2
  <2>3. next = (last + 1) % Serials
    BY StreamAssumption DEF StreamInit
  <2> QED  BY <2>2, <2>3 DEF Numbered
<1> QED  BY <1>1, <1>3, <1>4 DEF IntactInv, StreamIntact

\* Every step keeps the invariant of the stream.
LEMMA IntactStep ==
  ASSUME IntactInv, [StreamNext]_streamVars
  PROVE  IntactInv'
<1>1. CASE BuildMpuEvent
  BY <1>1, BuildTakes DEF IntactInv
<1>2. CASE \E k \in Kinds : Arrive(k)
  BY <1>2, ArriveStep DEF IntactInv
<1>3. CASE Stop
  BY <1>3, StopStep DEF IntactInv
<1>4. CASE FlushDriver
  BY <1>4, FlushDriverStep DEF IntactInv
<1>5. CASE StreamRest
  <2>1. StreamTypeOK' /\ UNCHANGED <<pipe, left, next, last>> /\ Ahead' = Ahead
    BY <1>5, RestStep DEF IntactInv
  <2>2. Whole(Ahead') /\ Numbered(Line')
    <3>1. Line' = Line
      BY <2>1 DEF Line
    <3> QED  BY <2>1, <3>1 DEF IntactInv, StreamIntact
  <2> QED  BY <2>1, <2>2, IntactNext DEF IntactInv
<1> QED  BY <1>1, <1>2, <1>3, <1>4, <1>5, StreamSteps

(* The variables of the poll loop keep their types. *)
THEOREM StreamTypes == StreamSpec => []StreamTypeOK
<1>1. IntactInv => StreamTypeOK
  BY DEF IntactInv
<1> QED  BY <1>1, IntactInit, IntactStep, PTL DEF StreamSpec

(* Whatever the kinds of packets, the answers to flushes and the sizes of the
   reads: no packet is lost, built twice, out of order or cut. *)
THEOREM Intact == StreamSpec => []StreamIntact
<1>1. IntactInv => StreamIntact
  BY DEF IntactInv
<1> QED  BY <1>1, IntactInit, IntactStep, PTL DEF StreamSpec

-----------------------------------------------------------------------------
(* Flushes *)

\* The driver marks the end of every flush and does nothing else to it.
Marked == Answers \subseteq {"END"}

FlushInv == /\ IntactInv /\ FlushNotForgotten
            /\ \A i \in 1..Len(Ahead) : Ahead[i].kind # "EMPTY"

\* A marker ahead stands for the flushes under way.
MarkerAhead == \E i \in 1..Len(Ahead) : Ahead[i].kind = "END"

\* FlushNotForgotten when every marker is the end of a flush.
LEMMA NotForgotten ==
  ASSUME FlushInv
  PROVE  flushes = <<>> \/ pc.flush \in {"pushed", "reading"} \/ MarkerAhead
         \/ (pc.poll \in {"mplBuilt", "compassBuilt"} /\ Completed = flushes)
<1>1. Ahead \in Seq(Units)
  BY AheadUnits DEF FlushInv, IntactInv
<1>2. DOMAIN Ahead = 1..Len(Ahead)
  BY <1>1
<1> QED  BY <1>2 DEF FlushInv, FlushNotForgotten, MarkerAhead, Markers

\* The same for the next state.
LEMMA NotForgottenNext ==
  ASSUME IntactInv',
         \/ flushes' = <<>> \/ pc'.flush \in {"pushed", "reading"}
         \/ \E i \in 1..Len(Ahead') : Ahead'[i].kind = "END"
         \/ pc'.poll \in {"mplBuilt", "compassBuilt"} /\ Completed' = flushes'
  PROVE  FlushNotForgotten'
<1>1. Ahead' \in Seq(Units)
  <2>1. pipe' \in Seq(Units) /\ left' \in Seq(Units)
    BY DEF IntactInv, StreamTypeOK
  <2> QED  BY <2>1, ConcatUnits DEF Ahead
<1>2. DOMAIN Ahead' = 1..Len(Ahead')
  BY <1>1
<1> QED  BY <1>2 DEF FlushNotForgotten, Markers

\* Units are added ahead: the markers stay.
LEMMA Grown ==
  ASSUME FlushInv, NEW p \in Seq(Units), Ahead' = Ahead \o p,
         \A i \in 1..Len(p) : p[i].kind # "EMPTY"
  PROVE  /\ MarkerAhead => \E i \in 1..Len(Ahead') : Ahead'[i].kind = "END"
         /\ (\E i \in 1..Len(p) : p[i].kind = "END") => \E i \in 1..Len(Ahead') : Ahead'[i].kind = "END"
         /\ \A i \in 1..Len(Ahead') : Ahead'[i].kind # "EMPTY"
<1>1. /\ Len(Ahead') = Len(Ahead) + Len(p) /\ Len(Ahead) \in Nat /\ Len(p) \in Nat
      /\ \A i \in 1..Len(Ahead) : Ahead'[i] = Ahead[i]
      /\ \A i \in 1..Len(p) : Ahead'[Len(Ahead) + i] = p[i]
  <2>1. Ahead \in Seq(Units)
    BY AheadUnits DEF FlushInv, IntactInv
  <2> QED  BY <2>1, ConcatUnits
<1>2. ASSUME NEW i \in 1..Len(Ahead), Ahead[i].kind = "END"
      PROVE  \E j \in 1..Len(Ahead') : Ahead'[j].kind = "END"
  <2>1. i \in 1..Len(Ahead')
    BY <1>1
  <2> QED  BY <1>1, <1>2, <2>1
<1>3. ASSUME NEW i \in 1..Len(p), p[i].kind = "END"
      PROVE  \E j \in 1..Len(Ahead') : Ahead'[j].kind = "END"
  <2>1. Len(Ahead) + i \in 1..Len(Ahead')
    BY <1>1
  <2> QED  BY <1>1, <1>3, <2>1
<1>4. ASSUME NEW i \in 1..Len(Ahead') PROVE Ahead'[i].kind # "EMPTY"
  <2>1. CASE i \in 1..Len(Ahead)
    BY <1>1, <2>1 DEF FlushInv
  <2>2. CASE i \notin 1..Len(Ahead)
    <3>1. i - Len(Ahead) \in 1..Len(p) /\ i = Len(Ahead) + (i - Len(Ahead))
      BY <1>1, <2>2
    <3>2. Ahead'[i] = p[i - Len(Ahead)]
      BY <1>1, <3>1
    <3> QED  BY <3>1, <3>2
  <2> QED  BY <2>1, <2>2
<1> QED  BY <1>2, <1>3, <1>4 DEF MarkerAhead

\* A read of the poll thread forgets no flush.
LEMMA FlushBuild ==
  ASSUME FlushInv, BuildMpuEvent
  PROVE  FlushInv'
<1>1. PICK m \in 0..Len(Ahead) : Takes(m)
  BY BuildTakes DEF FlushInv, IntactInv
<1>2. IntactInv'
  BY BuildTakes DEF FlushInv, IntactInv
<1>3. /\ Len(Ahead') = Len(Ahead) - m /\ Len(Ahead) \in Nat
      /\ \A i \in 1..Len(Ahead') : Ahead'[i] = Ahead[i + m]
      /\ (\E i \in 1..m : Ahead[i].kind = "END") => flags'.marker /\ flags'.batchSet = BatchSet
  <2>1. Ahead \in Seq(Units)
    BY AheadUnits DEF FlushInv, IntactInv
  <2> QED  BY <1>1, <2>1 DEF Takes
<1>4. /\ flushes' = flushes /\ pc.poll \in {"poll", "mplRead"}
      /\ pc'.poll = "mplBuilt" /\ pc'.flush = pc.flush
  BY DEF BuildMpuEvent, FlushInv, IntactInv, StreamTypeOK
<1>5. \A i \in 1..Len(Ahead') : Ahead'[i].kind # "EMPTY"
  BY <1>3 DEF FlushInv
<1>6. FlushNotForgotten'
  <2>1. CASE flushes = <<>> \/ pc.flush \in {"pushed", "reading"}
    BY <1>2, <1>4, <2>1, NotForgottenNext
  <2>2. CASE MarkerAhead /\ flushes # <<>>
    <3>1. PICK i \in 1..Len(Ahead) : Ahead[i].kind = "END"
      BY <2>2 DEF MarkerAhead
    <3>2. CASE i <= m
      <4>1. flags'.marker /\ flags'.batchSet
        <5>1. i \in 1..m
          BY <3>2
        <5> QED  BY <1>3, <2>2, <3>1, <5>1 DEF BatchSet
      <4>2. Completed' = flushes'
        BY <4>1 DEF Completed
      <4> QED  BY <1>2, <1>4, <4>2, NotForgottenNext
    <3>3. CASE i > m
      <4>1. i - m \in 1..Len(Ahead') /\ (i - m) + m = i
        BY <1>3, <3>3
      <4>2. Ahead'[i - m].kind = "END"
        BY <1>3, <3>1, <4>1
      <4> QED  BY <1>2, <4>1, <4>2, NotForgottenNext
    <3> QED  BY <3>2, <3>3
  <2> QED  BY <1>4, <2>1, <2>2, NotForgotten
<1> QED  BY <1>2, <1>5, <1>6 DEF FlushInv

\* Nor does what the driver writes.
LEMMA FlushDrive ==
  ASSUME FlushInv, Marked, FlushDriver \/ Stop \/ \E k \in Kinds : Arrive(k)
  PROVE  FlushInv'
<1>1. StreamTypeOK /\ StreamIntact /\ next \in Numbers /\ Ahead \in Seq(Units) /\ IntactInv
  BY AheadUnits DEF FlushInv, IntactInv, StreamTypeOK
<1>2. /\ MarkerUnit("END") \in Seq(Units) /\ Len(MarkerUnit("END")) = 1
      /\ MarkerUnit("END")[1].kind = "END"
  BY MarkerUnits DEF Markers
<1>3. ASSUME NEW k \in Kinds
      PROVE  /\ Packet(k, next) \in Seq(Units) 
             /\ \A i \in 1..Len(Packet(k, next)) : Packet(k, next)[i].kind # "EMPTY"
  <2>1. k # "EMPTY"
    BY Sizes DEF Markers
  <2> DEFINE q == Packet(k, next)
  <2>2. /\ q \in Seq(Units) /\ Len(q) = Size(k)
        /\ \A i \in 1..Size(k) : q[i] = [kind |-> k, id |-> next, part |-> i]
    BY <1>1, PacketUnits
  <2> HIDE DEF q
  <2>3. \A i \in 1..Len(q) : q[i].kind # "EMPTY"
    BY <2>1, <2>2
  <2> QED  BY <2>2, <2>3 DEF q
<1>4. CASE FlushDriver
  <2>1. /\ StreamTypeOK' /\ StreamIntact'
        /\ \E k \in Kinds : Ahead' = (Ahead \o Packet(k, next)) \o MarkerUnit("END")
    BY <1>1, <1>4, FlushDriverStep DEF Marked
  <2>2. PICK k \in Kinds : Ahead' = (Ahead \o Packet(k, next)) \o MarkerUnit("END")
    BY <2>1
  <2> DEFINE p == Packet(k, next) \o MarkerUnit("END")
  <2>3. p \in Seq(Units) /\ Ahead' = Ahead \o p
    <3> DEFINE q == Packet(k, next)
               u == MarkerUnit("END")
    <3>1. q \in Seq(Units) /\ u \in Seq(Units) /\ Ahead \in Seq(Units)
      BY <1>1, <1>2, <1>3
    <3> HIDE DEF q, u
    <3>2. q \o u \in Seq(Units)
      BY <3>1, ConcatUnits
    <3>3. (Ahead \o q) \o u = Ahead \o (q \o u)
      BY ONLY <3>1, ConcatAssociative
    <3> QED  BY <2>2, <3>2, <3>3 DEF q, u
  <2>4. (\A i \in 1..Len(p) : p[i].kind # "EMPTY") /\ \E i \in 1..Len(p) : p[i].kind = "END"
    <3> DEFINE q == Packet(k, next)
               u == MarkerUnit("END")
    <3>1. /\ q \in Seq(Units) /\ u \in Seq(Units) /\ Len(u) = 1 /\ u[1].kind = "END"
          /\ \A i \in 1..Len(q) : q[i].kind # "EMPTY"
      BY <1>2, <1>3
    <3> HIDE DEF q, u
    <3>2. /\ Len(q \o u) = Len(q) + 1 /\ Len(q) \in Nat
          /\ \A i \in 1..Len(q) : (q \o u)[i] = q[i]
          /\ (q \o u)[Len(q) + 1] = u[1]
      <4>1. /\ Len(q \o u) = Len(q) + Len(u) /\ Len(q) \in Nat
            /\ \A i \in 1..Len(q) : (q \o u)[i] = q[i]
            /\ \A i \in 1..Len(u) : (q \o u)[Len(q) + i] = u[i]
        <5>1. q \in Seq(Units) /\ u \in Seq(Units)
          BY <3>1
        <5> QED  BY ONLY <5>1, ConcatUnits
      <4>2. 1 \in 1..Len(u)
        BY <3>1
      <4> QED  BY <3>1, <4>1, <4>2
    <3>3. \A i \in 1..Len(q \o u) : i \in 1..Len(q) \/ i = Len(q) + 1
      BY <3>2
    <3>4. Len(q) + 1 \in 1..Len(q \o u)
      BY <3>2
    <3> QED  BY <3>1, <3>2, <3>3, <3>4 DEF q, u
  <2> HIDE DEF p
  <2> QED  BY <2>1, <2>3, <2>4, Grown, NotForgottenNext DEF FlushInv, IntactInv
<1>5. CASE Stop
  <2>1. StreamTypeOK' /\ StreamIntact' /\ Ahead' = Ahead \o MarkerUnit("END")
    BY <1>1, <1>5, StopStep
  <2>2. (\A i \in 1..Len(MarkerUnit("END")) : MarkerUnit("END")[i].kind # "EMPTY")
        /\ \E i \in 1..Len(MarkerUnit("END")) : MarkerUnit("END")[i].kind = "END"
    BY <1>2
  <2> QED  BY <1>2, <2>1, <2>2, Grown, NotForgottenNext DEF FlushInv, IntactInv
<1>6. CASE \E k \in Kinds : Arrive(k)
  <2>1. PICK k \in Kinds : Arrive(k)
    BY <1>6
  <2>2. StreamTypeOK' /\ StreamIntact' /\ Ahead' = Ahead \o Packet(k, next)
    BY <1>1, <2>1, ArriveStep
  <2>3. UNCHANGED <<flags, flushes, pc>> /\ Completed' = Completed
    BY <2>1 DEF Arrive, driverRest, Completed
  <2>4. /\ MarkerAhead => \E i \in 1..Len(Ahead') : Ahead'[i].kind = "END"
        /\ \A i \in 1..Len(Ahead') : Ahead'[i].kind # "EMPTY"
    BY <1>3, <2>2, Grown
  <2>5. FlushNotForgotten'
    BY <2>2, <2>3, <2>4, NotForgotten, NotForgottenNext DEF IntactInv
  <2> QED  BY <2>2, <2>4, <2>5 DEF FlushInv, IntactInv
<1> QED  BY <1>4, <1>5, <1>6

\* Nor do the other steps.
LEMMA FlushRest ==
  ASSUME FlushInv, StreamRest
  PROVE  FlushInv'
<1>1. StreamTypeOK' /\ UNCHANGED <<pipe, left, next, last>> /\ Ahead' = Ahead /\ IntactInv'
  <2>1. StreamTypeOK' /\ UNCHANGED <<pipe, left, next, last>> /\ Ahead' = Ahead
    BY RestStep DEF FlushInv, IntactInv
  <2>2. Whole(Ahead') /\ Numbered(Line')
    <3>1. Line' = Line
      BY <2>1 DEF Line
    <3> QED  BY <2>1, <3>1 DEF FlushInv, IntactInv, StreamIntact
  <2> QED  BY <2>1, <2>2, IntactNext DEF IntactInv
<1>2. (\A i \in 1..Len(Ahead') : Ahead'[i].kind # "EMPTY")
      /\ (MarkerAhead => \E i \in 1..Len(Ahead') : Ahead'[i].kind = "END")
  BY <1>1 DEF FlushInv, MarkerAhead
<1>3. StreamTypeOK
  BY DEF FlushInv, IntactInv
<1>4. FlushNotForgotten'
  <2> USE <1>3 DEF StreamTypeOK
  <2>1. CASE \/ flushes' = flushes /\ pc'.flush = pc.flush /\ pc.poll \notin {"mplBuilt", "compassBuilt"}
             \/ UNCHANGED <<flushes, pc, flags>>
    <3>1. UNCHANGED flags => Completed' = (IF flags.marker /\ flags.batchSet THEN flushes' ELSE <<>>)
      BY DEF Completed
    <3> QED  BY <1>1, <1>2, <2>1, <3>1, NotForgotten, NotForgottenNext DEF Completed
  <2>2. CASE BuildCompassEvent
    BY <2>1, <2>2 DEF BuildCompassEvent
  <2>3. CASE ReadEvents
    <3>1. pc'.flush = pc.flush /\ flushes' = SubSeq(flushes, Len(Completed) + 1, Len(flushes))
      BY <2>3 DEF ReadEvents
    <3>2. CASE Completed = flushes
      <4>1. flushes' = <<>>
        BY <3>1, <3>2, SubSeqEmpty
      <4> QED  BY <1>1, <4>1, NotForgottenNext
    <3>3. CASE Completed # flushes
      <4>1. Completed = <<>>
        BY <3>3 DEF Completed
      <4>2. flushes' = flushes
        BY <3>1, <4>1, EmptySeq, SubSeqFull
      <4> QED  BY <1>1, <1>2, <3>1, <3>3, <4>2, NotForgotten, NotForgottenNext
    <3> QED  BY <3>2, <3>3
  <2>4. CASE CheckFlushes
    BY <2>1, <2>4 DEF CheckFlushes
  <2>5. CASE FakeFlush
    BY <2>1, <2>5 DEF FakeFlush
  <2>6. CASE Start
    BY <2>1, <2>6 DEF Start, driverRest
  <2>7. CASE FlushClear
    <3>1. pc'.flush = "reading"
      BY <2>7 DEF FlushClear
    <3> QED  BY <1>1, <3>1, NotForgottenNext
  <2>8. CASE FlushStepCounter
    BY <2>1, <2>8 DEF FlushStepCounter
  <2>9. ASSUME NEW h \in Handles, FlushPush(h) PROVE FlushNotForgotten'
    <3>1. pc'.flush = "pushed"
      BY <2>9 DEF FlushPush
    <3> QED  BY <1>1, <3>1, NotForgottenNext
  <2>10. CASE UNCHANGED streamVars
    BY <2>1, <2>10 DEF streamVars
  <2> QED  BY <2>2, <2>3, <2>4, <2>5, <2>6, <2>7, <2>8, <2>9, <2>10 DEF StreamRest
<1> QED  BY <1>1, <1>2, <1>4 DEF FlushInv

(* As long as the driver answers every flush with the mark of its end, no
   flush is forgotten, whatever the reads, packets and flushes in between. *)
THEOREM FlushesKept ==
  ASSUME Marked
  PROVE  StreamSpec => []FlushNotForgotten
<1>1. StreamInit => FlushInv
  <2> SUFFICES ASSUME StreamInit PROVE FlushInv
    OBVIOUS
  <2>1. Ahead = <<>> /\ flushes = <<>>
    BY DEF StreamInit, Ahead
  <2>2. \A i \in 1..Len(Ahead) : Ahead[i].kind # "EMPTY"
    BY <2>1
  <2> QED  BY <2>1, <2>2, IntactInit DEF FlushInv, FlushNotForgotten
<1>2. FlushInv /\ [StreamNext]_streamVars => FlushInv'
  BY StreamSteps, FlushBuild, FlushDrive, FlushRest
<1>3. FlushInv => FlushNotForgotten
  BY DEF FlushInv
<1> QED  BY <1>1, <1>2, <1>3, PTL DEF StreamSpec
=============================================================================
