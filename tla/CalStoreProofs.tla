-------------------------- MODULE CalStoreProofs ---------------------------
(***************************************************************************)
(* Proofs about CalStore, for any boxes of the closed library, any sizes   *)
(* and versions, and any crash.                                            *)
(***************************************************************************)
EXTENDS CalStore, MlliteProofs

-----------------------------------------------------------------------------
(* The registered boxes *)

BoxType == [key : Keys, size : Nat \ {0}]
GoodBoxes(bs) ==
  /\ bs \in Seq(BoxType)
  /\ \A i, j \in 1..Len(bs) : bs[i].key = bs[j].key => i = j

\* A key is registered at most once.
LEMMA RegisterKeeps ==
  ASSUME NEW bs, GoodBoxes(bs), NEW k \in Keys, NEW size \in Nat \ {0}
  PROVE  GoodBoxes(RegisterBox(bs, k, size))
<1>0. PICK n \in Nat : n = Len(bs) /\ DOMAIN bs = 1..n /\ bs \in Seq(BoxType)
  BY LenProperties DEF GoodBoxes
<1>1. CASE Len(bs) >= MaxBoxes \/ \E i \in DOMAIN bs : bs[i].key = k
  BY <1>1 DEF RegisterBox
<1>2. CASE ~(Len(bs) >= MaxBoxes \/ \E i \in DOMAIN bs : bs[i].key = k)
  <2> DEFINE e == [key |-> k, size |-> size]
             new == Append(bs, e)
  <2>1. e \in BoxType /\ e.key = k
    BY DEF BoxType
  <2>2. RegisterBox(bs, k, size) = new
    BY <1>2 DEF RegisterBox
  <2> HIDE DEF e
  <2>3. /\ new \in Seq(BoxType) /\ Len(new) = n + 1
        /\ \A i \in 1..n : new[i] = bs[i]
        /\ new[n + 1] = e
    BY <1>0, <2>1, AppendProperties
  <2> HIDE DEF new
  <2>4. ASSUME NEW i \in 1..(n + 1), NEW j \in 1..(n + 1), new[i].key = new[j].key
        PROVE  i = j
    <3>1. \A x, y \in 1..n : bs[x].key = bs[y].key => x = y
      BY <1>0 DEF GoodBoxes
    <3>2. \A x \in 1..n : bs[x].key # k
      BY <1>0, <1>2
    <3>3. (i \in 1..n \/ i = n + 1) /\ (j \in 1..n \/ j = n + 1)
      OBVIOUS
    <3> QED  BY <2>1, <2>3, <2>4, <3>1, <3>2, <3>3
  <2> QED  BY <2>2, <2>3, <2>4 DEF GoodBoxes
<1> QED  BY <1>1, <1>2

\* g is what the first n keys of a list are registered as.
IsRegistered(g, keys, sizes, n) ==
  g = [kk \in 0..n |-> IF kk = 0 THEN <<>>
                       ELSE RegisterBox(g[kk - 1], keys[kk], sizes[keys[kk]])]

\* There is such a function for every number of keys.
LEMMA RegisteredExists ==
  ASSUME NEW keys, NEW sizes, NEW n \in Nat
  PROVE  \E g : IsRegistered(g, keys, sizes, n)
<1> SUFFICES ASSUME ~\E g : IsRegistered(g, keys, sizes, n) PROVE FALSE
  OBVIOUS
<1> DEFINE bad == { m \in Nat : ~\E g : IsRegistered(g, keys, sizes, m) }
<1>1. PICK m \in bad : \A y \in bad : m <= y
  <2>1. bad \in SUBSET Nat /\ bad # {}
    OBVIOUS
  <2> QED  BY <2>1, Least
<1>2. m # 0
  <2> DEFINE g == [kk \in {0} |-> <<>>]
  <2>1. 0..0 = {0}
    OBVIOUS
  <2>2. g = [kk \in 0..0 |-> IF kk = 0 THEN <<>>
                             ELSE RegisterBox(g[kk - 1], keys[kk], sizes[keys[kk]])]
    BY <2>1
  <2>3. IsRegistered(g, keys, sizes, 0)
    BY <2>2 DEF IsRegistered
  <2> QED  BY <1>1, <2>3
<1>3. m - 1 \in Nat /\ m \in Nat /\ ~(m <= m - 1)
  BY <1>1, <1>2
<1>4. PICK h : IsRegistered(h, keys, sizes, m - 1)
  BY <1>1, <1>3
<1> DEFINE last == RegisterBox(h[m - 1], keys[m], sizes[keys[m]])
           g == [kk \in 0..m |-> IF kk = m THEN last ELSE h[kk]]
<1>5. \A kk \in 0..(m - 1) : g[kk] = h[kk]
  BY <1>3
<1>6. ASSUME NEW kk \in 0..m
      PROVE  g[kk] = IF kk = 0 THEN <<>> ELSE RegisterBox(g[kk - 1], keys[kk], sizes[keys[kk]])
  <2>1. CASE kk = m
    <3>1. g[kk] = last /\ m - 1 \in 0..(m - 1)
      BY <1>3, <2>1
    <3>2. g[m - 1] = h[m - 1]
      BY <1>5, <3>1
    <3> QED  BY <1>2, <2>1, <3>1, <3>2
  <2>2. CASE kk # m
    <3>1. kk \in 0..(m - 1) /\ (kk # 0 => kk - 1 \in 0..(m - 1))
      BY <1>3, <2>2
    <3>2. h[kk] = IF kk = 0 THEN <<>> ELSE RegisterBox(h[kk - 1], keys[kk], sizes[keys[kk]])
      BY <1>4, <3>1 DEF IsRegistered
    <3> QED  BY <1>5, <3>1, <3>2
  <2> QED  BY <2>1, <2>2
<1>7. IsRegistered(g, keys, sizes, m)
  <2>1. g = [kk \in 0..m |-> g[kk]]
    OBVIOUS
  <2> HIDE DEF g
  <2> QED  BY <1>6, <2>1 DEF IsRegistered
<1> QED  BY <1>1, <1>7

\* The boxes of a start have different keys and sizes above 0.
LEMMA BoxesGood ==
  ASSUME NEW order \in Orders, NEW sizes \in Versions
  PROVE  GoodBoxes(BoxesOf(order, sizes))
<1> DEFINE first == <<"db", "mpl", "accel">>
           keys == first \o order
<1>1. keys \in Seq(Keys)
  <2>1. first \in Seq(Keys)
    BY DEF Keys
  <2>2. PICK n \in 0..Cardinality(OtherKeys) : order \in [1..n -> OtherKeys]
    BY DEF Orders
  <2>3. order \in Seq(Keys)
    <3>1. CASE n \in Nat
      BY <2>2, <3>1 DEF Keys
    <3>2. n \in Nat
      BY <2>2
    <3> QED  BY <3>1, <3>2
  <2> HIDE DEF first
  <2> QED  BY <2>1, <2>3, ConcatProperties
<1> HIDE DEF keys
<1>2. PICK n \in Nat : n = Len(keys) /\ \A i \in 1..n : keys[i] \in Keys
  BY <1>1, LenProperties, ElementOfSeq
<1>3. PICK g : IsRegistered(g, keys, sizes, n) /\ BoxesOf(order, sizes) = g[n]
  <2> DEFINE g == CHOOSE g : IsRegistered(g, keys, sizes, n)
  <2>1. IsRegistered(g, keys, sizes, n)
    BY RegisteredExists
  <2>2. BoxesOf(order, sizes) = g[n]
    BY <1>2 DEF BoxesOf, IsRegistered, keys
  <2> QED  BY <2>1, <2>2
<1>4. GoodBoxes(g[0])
  <2>1. g[0] = <<>>
    BY <1>3 DEF IsRegistered
  <2> QED  BY <2>1 DEF GoodBoxes
<1>5. ASSUME NEW m \in 1..n, GoodBoxes(g[m - 1]) PROVE GoodBoxes(g[m])
  <2>1. g[m] = RegisterBox(g[m - 1], keys[m], sizes[keys[m]])
    <3>1. m \in 0..n /\ m # 0
      OBVIOUS
    <3> QED  BY ONLY <1>3, <3>1 DEF IsRegistered
  <2>2. keys[m] \in Keys /\ sizes[keys[m]] \in Nat \ {0}
    BY <1>2, StoreAssumption
  <2> QED  BY <1>5, <2>1, <2>2, RegisterKeeps
<1>6. GoodBoxes(g[n])
  <2> SUFFICES ASSUME ~GoodBoxes(g[n]) PROVE FALSE
    OBVIOUS
  <2> DEFINE bad == { m \in 0..n : ~GoodBoxes(g[m]) }
  <2>1. bad \in SUBSET Nat /\ bad # {}
    OBVIOUS
  <2>2. PICK m \in bad : \A y \in bad : m <= y
    BY <2>1, Least
  <2>3. m \in 0..n /\ ~GoodBoxes(g[m]) /\ m # 0
    BY <1>4, <2>2
  <2>4. m \in 1..n /\ m - 1 \in 0..n /\ ~(m <= m - 1)
    BY <2>3
  <2>5. GoodBoxes(g[m - 1])
    BY <2>2, <2>4
  <2> QED  BY <1>5, <2>3, <2>4, <2>5
<1> QED  BY <1>3, <1>6
-----------------------------------------------------------------------------
(* The cells of an image *)

DataOf(b, sv) == [i \in 1..b.size |-> IF i = 1 THEN Content(b.key, sv) ELSE Pad]
HeaderOf(b, sv) == [key |-> b.key, size |-> b.size, sum |-> DataOf(b, sv)]
CellSet(sv) == { Content(k, sv) : k \in Keys } \cup { Pad } \cup { HeaderOf(b, sv) : b \in BoxType }

\* Only headers have a checksum.
LEMMA Sums ==
  ASSUME NEW sv, NEW k, NEW b
  PROVE  /\ "sum" \notin DOMAIN Content(k, sv) /\ "sum" \notin DOMAIN Pad
         /\ "sum" \in DOMAIN HeaderOf(b, sv)
         /\ HeaderOf(b, sv).key = b.key /\ HeaderOf(b, sv).size = b.size
         /\ HeaderOf(b, sv).sum = DataOf(b, sv)
BY DEF Content, Pad, HeaderOf

\* A box's cells: its header and its data.
LEMMA CellsOfBox ==
  ASSUME NEW sv, NEW b \in BoxType
  PROVE  /\ Cells(b, sv) \in Seq(CellSet(sv)) /\ Len(Cells(b, sv)) = b.size + 1
         /\ Cells(b, sv)[1] = HeaderOf(b, sv)
         /\ \A i \in 1..b.size : Cells(b, sv)[i + 1] = DataOf(b, sv)[i]
<1> DEFINE hd == <<HeaderOf(b, sv)>>
           data == DataOf(b, sv)
<1>0. PICK n \in Nat \ {0} : n = b.size
  BY DEF BoxType
<1>1. hd \in Seq(CellSet(sv)) /\ Len(hd) = 1 /\ hd[1] = HeaderOf(b, sv)
  BY DEF CellSet
<1>2. data \in Seq(CellSet(sv)) /\ Len(data) = n
  <2>1. \A i \in 1..n : (IF i = 1 THEN Content(b.key, sv) ELSE Pad) \in CellSet(sv)
    BY DEF CellSet, BoxType
  <2>2. data \in [1..n -> CellSet(sv)]
    BY <1>0, <2>1 DEF DataOf
  <2> HIDE DEF data
  <2> QED  BY <2>2
<1>3. Cells(b, sv) = hd \o data
  BY DEF Cells, HeaderOf, DataOf
<1> HIDE DEF hd, data
<1>4. /\ hd \o data \in Seq(CellSet(sv)) /\ Len(hd \o data) = Len(hd) + Len(data)
      /\ \A i \in 1..Len(hd) + Len(data) : (hd \o data)[i] = IF i <= Len(hd) THEN hd[i] ELSE data[i - Len(hd)]
  BY ONLY <1>1, <1>2, ConcatProperties
<1>5. (hd \o data)[1] = HeaderOf(b, sv)
  <2>1. 1 \in 1..Len(hd) + Len(data) /\ 1 <= Len(hd)
    BY <1>1, <1>2
  <2> QED  BY <1>1, <1>4, <2>1
<1>6. ASSUME NEW i \in 1..n PROVE (hd \o data)[i + 1] = data[i]
  <2>1. i + 1 \in 1..Len(hd) + Len(data) /\ ~(i + 1 <= Len(hd)) /\ (i + 1) - Len(hd) = i
    BY <1>1, <1>2
  <2> QED  BY <1>4, <2>1
<1>7. Len(hd \o data) = n + 1
  BY <1>1, <1>2, <1>4
<1> QED  BY <1>0, <1>3, <1>4, <1>5, <1>6, <1>7 DEF data

\* h is what inv_save_mpl_states has filled after each of the first n boxes.
IsFilled(h, bs, sv, n) ==
  h = [kk \in 0..n |-> IF kk = 0 THEN <<>> ELSE h[kk - 1] \o Cells(bs[kk], sv)]

\* There is such a function for every number of boxes.
LEMMA FilledExists ==
  ASSUME NEW bs, NEW sv, NEW n \in Nat
  PROVE  \E h : IsFilled(h, bs, sv, n)
<1> SUFFICES ASSUME ~\E h : IsFilled(h, bs, sv, n) PROVE FALSE
  OBVIOUS
<1> DEFINE bad == { m \in Nat : ~\E h : IsFilled(h, bs, sv, m) }
<1>1. PICK m \in bad : \A y \in bad : m <= y
  <2>1. bad \in SUBSET Nat /\ bad # {}
    OBVIOUS
  <2> QED  BY <2>1, Least
<1>2. m # 0
  <2> DEFINE g == [kk \in {0} |-> <<>>]
  <2>1. 0..0 = {0}
    OBVIOUS
  <2>2. g = [kk \in 0..0 |-> IF kk = 0 THEN <<>> ELSE g[kk - 1] \o Cells(bs[kk], sv)]
    BY <2>1
  <2>3. IsFilled(g, bs, sv, 0)
    BY <2>2 DEF IsFilled
  <2> QED  BY <1>1, <2>3
<1>3. m - 1 \in Nat /\ m \in Nat /\ ~(m <= m - 1)
  BY <1>1, <1>2
<1>4. PICK h : IsFilled(h, bs, sv, m - 1)
  BY <1>1, <1>3
<1> DEFINE last == h[m - 1] \o Cells(bs[m], sv)
           g == [kk \in 0..m |-> IF kk = m THEN last ELSE h[kk]]
<1>5. \A kk \in 0..(m - 1) : g[kk] = h[kk]
  BY <1>3
<1>6. ASSUME NEW kk \in 0..m
      PROVE  g[kk] = IF kk = 0 THEN <<>> ELSE g[kk - 1] \o Cells(bs[kk], sv)
  <2>1. CASE kk = m
    <3>0. m - 1 \in 0..(m - 1)
      BY <1>3
    <3> HIDE DEF last
    <3>1. g[kk] = last /\ m - 1 \in 0..(m - 1)
      BY <2>1, <3>0
    <3>2. g[m - 1] = h[m - 1]
      BY <1>5, <3>1
    <3> QED  BY <1>2, <2>1, <3>1, <3>2 DEF last
  <2>2. CASE kk # m
    <3>1. kk \in 0..(m - 1) /\ (kk # 0 => kk - 1 \in 0..(m - 1))
      BY <1>3, <2>2
    <3>2. h[kk] = IF kk = 0 THEN <<>> ELSE h[kk - 1] \o Cells(bs[kk], sv)
      BY <1>4, <3>1 DEF IsFilled
    <3> QED  BY <1>5, <3>1, <3>2
  <2> QED  BY <2>1, <2>2
<1>7. IsFilled(g, bs, sv, m)
  <2>1. g = [kk \in 0..m |-> g[kk]]
    OBVIOUS
  <2> HIDE DEF g
  <2> QED  BY <1>6, <2>1 DEF IsFilled
<1> QED  BY <1>1, <1>7

\* What the first m boxes have filled: each box's cells stand behind those of
\* the boxes before it.
FilledAs(h, bs, sv, m) ==
  /\ h[m] \in Seq(CellSet(sv))
  /\ \A i \in 1..m : /\ Len(h[i - 1]) \in Nat /\ Len(h[i]) = Len(h[i - 1]) + 1 + bs[i].size
                     /\ Len(h[i]) <= Len(h[m])
                     /\ h[m][Len(h[i - 1]) + 1] = HeaderOf(bs[i], sv)
                     /\ \A j \in 1..bs[i].size : h[m][Len(h[i - 1]) + 1 + j] = DataOf(bs[i], sv)[j]
  /\ \A p \in 1..Len(h[m]) : \E i \in 1..m : Len(h[i - 1]) < p /\ p <= Len(h[i])

\* The next box's cells are filled in behind the others.
LEMMA FilledStep ==
  ASSUME NEW bs, GoodBoxes(bs), NEW sv, NEW n \in Nat, n = Len(bs), NEW h, IsFilled(h, bs, sv, n),
         NEW m \in 1..n, FilledAs(h, bs, sv, m - 1)
  PROVE  FilledAs(h, bs, sv, m)
<1>0. bs[m] \in BoxType /\ \A i \in 1..n : bs[i].size \in Nat \ {0}
  <2>1. \A i \in 1..n : bs[i] \in BoxType
    BY ElementOfSeq DEF GoodBoxes
  <2> QED  BY <2>1 DEF BoxType
<1> DEFINE old == h[m - 1]
           new == Cells(bs[m], sv)
<1>1. h[m] = old \o new
  <2>1. m \in 0..n /\ m # 0
    OBVIOUS
  <2> QED  BY ONLY IsFilled(h, bs, sv, n), <2>1 DEF IsFilled
<1>2. old \in Seq(CellSet(sv)) /\ new \in Seq(CellSet(sv))
  BY <1>0, CellsOfBox DEF FilledAs
<1>3. PICK a \in Nat : a = Len(old)
  BY <1>2, LenProperties
<1>4. PICK z \in Nat \ {0} : z = bs[m].size
  BY <1>0
<1>5. Len(new) = z + 1 /\ new[1] = HeaderOf(bs[m], sv) /\ \A i \in 1..z : new[i + 1] = DataOf(bs[m], sv)[i]
  BY <1>0, <1>4, CellsOfBox
<1> HIDE DEF new
<1>6. /\ old \o new \in Seq(CellSet(sv)) /\ Len(old \o new) = Len(old) + Len(new)
      /\ \A i \in 1..Len(old) + Len(new) : (old \o new)[i] = IF i <= Len(old) THEN old[i] ELSE new[i - Len(old)]
  BY ONLY <1>2, ConcatProperties
<1>7. /\ h[m] \in Seq(CellSet(sv)) /\ Len(h[m]) = a + (z + 1)
      /\ \A i \in 1..a : h[m][i] = old[i]
      /\ \A i \in 1..(z + 1) : h[m][a + i] = new[i]
  <2>1. Len(h[m]) = a + (z + 1)
    BY <1>1, <1>3, <1>5, <1>6
  <2>2. ASSUME NEW i \in 1..a PROVE h[m][i] = old[i]
    <3>1. i \in 1..a + (z + 1) /\ i <= a
      OBVIOUS
    <3> QED  BY <1>1, <1>3, <1>5, <1>6, <3>1
  <2>3. ASSUME NEW i \in 1..(z + 1) PROVE h[m][a + i] = new[i]
    <3>1. a + i \in 1..a + (z + 1) /\ ~(a + i <= a) /\ (a + i) - a = i
      OBVIOUS
    <3> QED  BY <1>1, <1>3, <1>5, <1>6, <3>1
  <2> QED  BY <1>1, <1>6, <2>1, <2>2, <2>3
<1> HIDE DEF old
<1>8. ASSUME NEW i \in 1..(m - 1)
      PROVE  /\ Len(h[i - 1]) \in Nat /\ Len(h[i]) = Len(h[i - 1]) + 1 + bs[i].size
             /\ Len(h[i]) <= a /\ Len(h[i]) \in Nat
             /\ old[Len(h[i - 1]) + 1] = HeaderOf(bs[i], sv)
             /\ \A j \in 1..bs[i].size : old[Len(h[i - 1]) + 1 + j] = DataOf(bs[i], sv)[j]
  <2>1. bs[i].size \in Nat
    BY <1>0
  <2>2. /\ Len(h[i - 1]) \in Nat /\ Len(h[i]) = Len(h[i - 1]) + 1 + bs[i].size
        /\ Len(h[i]) <= Len(h[m - 1])
        /\ h[m - 1][Len(h[i - 1]) + 1] = HeaderOf(bs[i], sv)
        /\ \A j \in 1..bs[i].size : h[m - 1][Len(h[i - 1]) + 1 + j] = DataOf(bs[i], sv)[j]
    BY <1>8 DEF FilledAs
  <2>3. a = Len(h[m - 1]) /\ old = h[m - 1]
    BY <1>3 DEF old
  <2>4. Len(h[i]) \in Nat
    BY <2>1, <2>2
  <2> QED  BY <2>2, <2>3, <2>4
<1>9. ASSUME NEW i \in 1..m
      PROVE  /\ Len(h[i - 1]) \in Nat /\ Len(h[i]) = Len(h[i - 1]) + 1 + bs[i].size
             /\ Len(h[i]) <= Len(h[m])
             /\ h[m][Len(h[i - 1]) + 1] = HeaderOf(bs[i], sv)
             /\ \A j \in 1..bs[i].size : h[m][Len(h[i - 1]) + 1 + j] = DataOf(bs[i], sv)[j]
  <2>1. CASE i = m
    <3>1. Len(h[i - 1]) = a
      BY <1>3, <2>1 DEF old
    <3>2. Len(h[i]) = a + 1 + bs[i].size /\ Len(h[i]) \in Nat
      <4>1. Len(h[i]) = a + (z + 1)
        BY <1>7, <2>1
      <4>2. bs[i].size = z
        BY <1>4, <2>1
      <4>3. a + (z + 1) = a + 1 + z /\ a + (z + 1) \in Nat
        OBVIOUS
      <4> QED  BY <4>1, <4>2, <4>3
    <3>3. h[m][a + 1] = HeaderOf(bs[i], sv)
      <4>1. 1 \in 1..(z + 1)
        OBVIOUS
      <4> QED  BY <1>5, <1>7, <2>1, <4>1
    <3>4. ASSUME NEW j \in 1..z PROVE h[m][a + 1 + j] = DataOf(bs[i], sv)[j]
      <4>1. j + 1 \in 1..(z + 1) /\ a + (j + 1) = a + 1 + j
        OBVIOUS
      <4> QED  BY <1>5, <1>7, <2>1, <4>1
    <3>5. Len(h[i]) <= Len(h[m]) /\ bs[i].size = z
      BY <1>4, <2>1, <3>2
    <3> QED  BY <3>1, <3>2, <3>3, <3>4, <3>5
  <2>2. CASE i # m
    <3>1. i \in 1..(m - 1)
      BY <2>2
    <3>2. PICK o \in Nat : o = Len(h[i - 1])
      BY <1>8, <3>1
    <3>3. PICK y \in Nat \ {0} : y = bs[i].size
      BY <1>0
    <3>4. o + 1 + y <= a
      BY <1>8, <3>1, <3>2, <3>3
    <3>5. o + 1 \in 1..a /\ \A j \in 1..y : o + 1 + j \in 1..a
      BY <3>4
    <3>6. Len(h[i]) <= Len(h[m])
      BY <1>7, <1>8, <3>1
    <3> QED  BY <1>7, <1>8, <3>1, <3>2, <3>3, <3>5, <3>6
  <2> QED  BY <2>1, <2>2
<1>10. ASSUME NEW p \in 1..Len(h[m]) PROVE \E i \in 1..m : Len(h[i - 1]) < p /\ p <= Len(h[i])
  <2>1. CASE p <= a
    <3>1. p \in 1..Len(h[m - 1])
      BY <1>3, <1>7, <2>1 DEF old
    <3>2. PICK i \in 1..(m - 1) : Len(h[i - 1]) < p /\ p <= Len(h[i])
      BY <3>1 DEF FilledAs
    <3> QED  BY <3>2
  <2>2. CASE ~(p <= a)
    <3>0. Len(h[m - 1]) = a /\ Len(h[m]) = a + (z + 1)
      BY <1>3, <1>7 DEF old
    <3>1. Len(h[m - 1]) < p /\ p <= Len(h[m])
      <4>1. p \in 1..(a + (z + 1)) /\ ~(p <= a)
        BY <2>2, <3>0
      <4>2. a < p /\ p <= a + (z + 1)
        BY <4>1
      <4> QED  BY <3>0, <4>2
    <3> QED  BY <3>1
  <2> QED  BY <2>1, <2>2
<1> QED  BY <1>7, <1>9, <1>10 DEF FilledAs

\* off says how many cells stand before the end of each of n boxes of body.
Placed(off, body, bs, sv, n) ==
  /\ off[0] = 0 /\ off[n] = Len(body)
  /\ \A i \in 1..n : /\ off[i] = off[i - 1] + 1 + bs[i].size
                     /\ off[i] <= off[n]
                     /\ body[off[i - 1] + 1] = HeaderOf(bs[i], sv)
                     /\ \A j \in 1..bs[i].size : body[off[i - 1] + 1 + j] = DataOf(bs[i], sv)[j]
  /\ \A p \in 1..off[n] : \E i \in 1..n : off[i - 1] < p /\ p <= off[i]

\* The body of an image: where each box stands.
LEMMA BodyStructure ==
  ASSUME NEW bs, GoodBoxes(bs), NEW sv, NEW n \in Nat, n = Len(bs)
  PROVE  /\ Body(bs, sv) \in Seq(CellSet(sv))
         /\ \E off \in [0..n -> Nat] : Placed(off, Body(bs, sv), bs, sv, n)
<1>1. PICK h : IsFilled(h, bs, sv, n) /\ Body(bs, sv) = h[n]
  <2> DEFINE h == CHOOSE h : IsFilled(h, bs, sv, n)
  <2>1. IsFilled(h, bs, sv, n)
    BY FilledExists
  <2>2. Body(bs, sv) = h[n]
    BY DEF Body, IsFilled
  <2> QED  BY <2>1, <2>2
<1>2. h[0] = <<>>
  BY <1>1 DEF IsFilled
<1>3. FilledAs(h, bs, sv, 0)
  BY <1>2 DEF FilledAs
<1>4. \A m \in 0..n : FilledAs(h, bs, sv, m)
  <2> SUFFICES ASSUME ~\A m \in 0..n : FilledAs(h, bs, sv, m) PROVE FALSE
    OBVIOUS
  <2> DEFINE bad == { m \in 0..n : ~FilledAs(h, bs, sv, m) }
  <2>1. bad \in SUBSET Nat /\ bad # {}
    OBVIOUS
  <2>2. PICK m \in bad : \A y \in bad : m <= y
    BY <2>1, Least
  <2>3. m \in 0..n /\ ~FilledAs(h, bs, sv, m) /\ m # 0
    BY <1>3, <2>2
  <2>4. m \in 1..n /\ m - 1 \in 0..n /\ ~(m <= m - 1)
    BY <2>3
  <2>5. FilledAs(h, bs, sv, m - 1)
    BY <2>2, <2>4
  <2> QED  BY <1>1, <2>3, <2>4, <2>5, FilledStep
<1>5. FilledAs(h, bs, sv, n)
  BY <1>4
<1> DEFINE off == [i \in 0..n |-> Len(h[i])]
<1>6. off \in [0..n -> Nat]
  <2>1. \A m \in 0..n : h[m] \in Seq(CellSet(sv))
    BY <1>4 DEF FilledAs
  <2> QED  BY <2>1, LenProperties
<1>7. off[0] = 0 /\ off[n] = Len(h[n]) /\ \A i \in 1..n : off[i] = Len(h[i]) /\ off[i - 1] = Len(h[i - 1])
  BY <1>2
<1> HIDE DEF off
<1>8. /\ \A i \in 1..n :
            /\ off[i] = off[i - 1] + 1 + bs[i].size
            /\ off[i] <= off[n]
            /\ h[n][off[i - 1] + 1] = HeaderOf(bs[i], sv)
            /\ \A j \in 1..bs[i].size : h[n][off[i - 1] + 1 + j] = DataOf(bs[i], sv)[j]
      /\ \A p \in 1..off[n] : \E i \in 1..n : off[i - 1] < p /\ p <= off[i]
  BY ZenonT(60), <1>5, <1>7 DEF FilledAs
<1>9. Body(bs, sv) \in Seq(CellSet(sv))
  BY <1>1, <1>5 DEF FilledAs
<1>10. Placed(off, Body(bs, sv), bs, sv, n)
  BY <1>1, <1>7, <1>8 DEF Placed
<1> QED  BY <1>6, <1>9, <1>10
-----------------------------------------------------------------------------
(* Reading an image back *)

\* What an image of boxes bs holds, and what of it boxes now know.
Kept(bs, sv) == { <<bs[i].key, Content(bs[i].key, sv)>> : i \in 1..Len(bs) }
IsKnown(now, c) == FindEntry(now, c[1]) # {}
SizesAgree(now, bs) ==
  \A i \in 1..Len(bs), j \in DOMAIN now : now[j].key = bs[i].key => now[j].size = bs[i].size

\* g is the loop of inv_load_mpl_states from cell low of a body of n cells on.
WalkStep(now, body, n, g, p) ==
  IF p >= n THEN NoBox("SUCCESS")
  ELSE IF p + 1 + body[p].size \notin (p + 1)..(n + 1) THEN NoBox("SUCCESS")
  ELSE LoadBox(now, body[p], SubSeq(body, p + 1, (p + 1 + body[p].size) - 1), g[p + 1 + body[p].size])
IsWalk(g, now, body, n, low) == g = [p \in low..(n + 1) |-> WalkStep(now, body, n, g, p)]

\* There is such a function from every cell on.
LEMMA WalkExists ==
  ASSUME NEW now, NEW body, NEW n \in Nat
  PROVE  \E g : IsWalk(g, now, body, n, 1)
<1> DEFINE Has(d) == \E g : IsWalk(g, now, body, n, (n + 1) - d)
<1>1. Has(0)
  <2> DEFINE g == [p \in (n + 1)..(n + 1) |-> NoBox("SUCCESS")]
  <2>1. \A p \in (n + 1)..(n + 1) : p >= n
    OBVIOUS
  <2>2. g = [p \in (n + 1)..(n + 1) |-> WalkStep(now, body, n, g, p)]
    BY <2>1 DEF WalkStep
  <2>3. (n + 1) - 0 = n + 1
    OBVIOUS
  <2> QED  BY <2>2, <2>3 DEF IsWalk
<1>2. ASSUME NEW d \in 1..n, Has(d - 1) PROVE Has(d)
  <2> DEFINE low == (n + 1) - d
  <2>0. low \in 1..n /\ (n + 1) - (d - 1) = low + 1 /\ low \in Nat
    OBVIOUS
  <2>1. PICK h : IsWalk(h, now, body, n, low + 1)
    BY <1>2, <2>0
  <2> HIDE DEF low
  <2> DEFINE first == WalkStep(now, body, n, h, low)
             g == [p \in low..(n + 1) |-> IF p = low THEN first ELSE h[p]]
  <2>2. \A p \in (low + 1)..(n + 1) : g[p] = h[p] /\ p # low
    BY <2>0
  <2>3. ASSUME NEW p \in low..(n + 1)
        PROVE  g[p] = WalkStep(now, body, n, g, p)
    <3> DEFINE next == p + 1 + body[p].size
    <3>1. WalkStep(now, body, n, g, p) = WalkStep(now, body, n, h, p)
      <4>1. CASE p >= n
        BY <4>1 DEF WalkStep
      <4>2. CASE next \notin (p + 1)..(n + 1)
        BY <4>2 DEF WalkStep
      <4>3. CASE ~(p >= n) /\ next \in (p + 1)..(n + 1)
        <5>1. next \in (low + 1)..(n + 1)
          <6>1. \A q \in (p + 1)..(n + 1) : q \in (low + 1)..(n + 1)
            BY <2>0
          <6> QED  BY <4>3, <6>1
        <5> HIDE DEF g
        <5>2. g[next] = h[next]
          BY <2>2, <5>1
        <5> QED  BY <5>2 DEF WalkStep
      <4> QED  BY <4>1, <4>2, <4>3
    <3>2. CASE p = low
      <4>1. g[p] = first
        <5> HIDE DEF first
        <5> QED  BY <3>2
      <4> QED  BY <3>1, <3>2, <4>1
    <3>3. CASE p # low
      <4>1. p \in (low + 1)..(n + 1)
        BY <2>0, <3>3
      <4>2. h[p] = WalkStep(now, body, n, h, p)
        BY <2>1, <4>1 DEF IsWalk
      <4> HIDE DEF g
      <4> QED  BY <2>2, <3>1, <4>1, <4>2
    <3> QED  BY <3>2, <3>3
  <2>4. IsWalk(g, now, body, n, low)
    <3>1. g = [p \in low..(n + 1) |-> g[p]]
      OBVIOUS
    <3> HIDE DEF g
    <3> QED  BY <2>3, <3>1 DEF IsWalk
  <2> QED  BY <2>4 DEF low
<1> HIDE DEF Has
<1>3. Has(n)
  <2> SUFFICES ASSUME ~Has(n) PROVE FALSE
    OBVIOUS
  <2> DEFINE bad == { d \in 0..n : ~Has(d) }
  <2>1. bad \in SUBSET Nat /\ bad # {}
    OBVIOUS
  <2>2. PICK d \in bad : \A y \in bad : d <= y
    BY <2>1, Least
  <2>3. d \in 0..n /\ ~Has(d) /\ d # 0
    BY <1>1, <2>2
  <2>4. d \in 1..n /\ d - 1 \in 0..n /\ ~(d <= d - 1)
    BY <2>3
  <2>5. Has(d - 1)
    BY <2>2, <2>4
  <2> QED  BY <1>2, <2>3, <2>4, <2>5
<1>4. (n + 1) - n = 1
  OBVIOUS
<1> QED  BY <1>3, <1>4 DEF Has

\* Of a body that one store wrote, the loop loads boxes of that store that are
\* known now, and all of these if their sizes are the same.
LEMMA Walk ==
  ASSUME NEW bs, GoodBoxes(bs), NEW now, GoodBoxes(now), NEW sv
  PROVE  /\ LoadBoxes(now, Body(bs, sv)).got \subseteq { c \in Kept(bs, sv) : IsKnown(now, c) }
         /\ SizesAgree(now, bs) =>
               LoadBoxes(now, Body(bs, sv)).got = { c \in Kept(bs, sv) : IsKnown(now, c) }
<1> DEFINE body == Body(bs, sv)
<1>0. PICK nb \in Nat : nb = Len(bs)
  BY LenProperties DEF GoodBoxes
<1>1. body \in Seq(CellSet(sv)) /\ \E off \in [0..nb -> Nat] : Placed(off, body, bs, sv, nb)
  BY <1>0, BodyStructure
<1>1a. PICK off \in [0..nb -> Nat] : Placed(off, body, bs, sv, nb)
  BY <1>1
<1> HIDE DEF body
<1>2. /\ off[0] = 0 /\ off[nb] = Len(body)
      /\ \A i \in 1..nb : /\ off[i] = off[i - 1] + 1 + bs[i].size
                          /\ off[i] <= off[nb]
                          /\ body[off[i - 1] + 1] = HeaderOf(bs[i], sv)
                          /\ \A j \in 1..bs[i].size : body[off[i - 1] + 1 + j] = DataOf(bs[i], sv)[j]
  BY <1>1a DEF Placed
<1>3. PICK n \in Nat : n = Len(body) /\ n = off[nb]
  BY <1>1, <1>2, LenProperties
<1>4. PICK g : IsWalk(g, now, body, n, 1) /\ LoadBoxes(now, body) = g[1]
  <2> DEFINE g == CHOOSE g : IsWalk(g, now, body, n, 1)
  <2>1. IsWalk(g, now, body, n, 1)
    BY WalkExists
  <2>2. LoadBoxes(now, body) = g[1]
    BY <1>3 DEF LoadBoxes, IsWalk, WalkStep
  <2> QED  BY <2>1, <2>2
<1>5. \A i \in 1..nb : bs[i] \in BoxType /\ bs[i].size \in Nat \ {0}
  <2>1. \A i \in 1..nb : bs[i] \in BoxType
    BY <1>0, ElementOfSeq DEF GoodBoxes
  <2> QED  BY <2>1 DEF BoxType
<1> DEFINE Item(i) == <<bs[i].key, Content(bs[i].key, sv)>>
           After(i) == { Item(j) : j \in { j \in (i + 1)..nb : FindEntry(now, bs[j].key) # {} } }
           Good(i) == /\ g[off[i] + 1].got \subseteq After(i)
                      /\ SizesAgree(now, bs) => g[off[i] + 1].got = After(i)
<1>6. Good(nb)
  <2>1. n + 1 \in 1..(n + 1) /\ n + 1 >= n
    OBVIOUS
  <2>2. g[n + 1] = NoBox("SUCCESS")
    BY <1>4, <2>1 DEF IsWalk, WalkStep
  <2>3. After(nb) = {}
    OBVIOUS
  <2> QED  BY <1>3, <2>2, <2>3 DEF NoBox
<1>7. ASSUME NEW i \in 1..nb, Good(i) PROVE Good(i - 1)
  <2>0. PICK z \in Nat \ {0} : z = bs[i].size
    BY <1>5
  <2>1. PICK o \in Nat : o = off[i - 1]
    BY <1>2
  <2>2. off[i] = o + 1 + z /\ o + 1 + z <= n
    BY <1>2, <1>3, <2>0, <2>1
  <2> DEFINE p == o + 1
             hd == HeaderOf(bs[i], sv)
             data == DataOf(bs[i], sv)
             next == p + 1 + z
             rest == g[next]
  <2>3. /\ p \in 1..(n + 1) /\ ~(p >= n) /\ next \in (p + 1)..(n + 1)
        /\ next - 1 = o + 1 + z /\ next = off[i] + 1
    BY <2>2
  <2>4. body[p] = hd /\ hd.size = z /\ hd.key = bs[i].key /\ hd.sum = data
    BY <1>2, <2>0, <2>1, Sums
  <2>5. SubSeq(body, p + 1, next - 1) = data
    <3> DEFINE sub == SubSeq(body, p + 1, next - 1)
    <3>1. \A q \in (p + 1)..(next - 1) : body[q] \in CellSet(sv)
      <4>1. \A q \in (p + 1)..(next - 1) : q \in 1..n
        BY <2>2, <2>3
      <4> QED  BY <1>1, <1>3, <4>1, ElementOfSeq
    <3>2. /\ sub \in Seq(CellSet(sv))
          /\ Len(sub) = IF p + 1 <= next - 1 THEN (next - 1) - (p + 1) + 1 ELSE 0
          /\ \A q \in 1..(next - 1) - (p + 1) + 1 : sub[q] = body[(p + 1) + q - 1]
      <4>1. p + 1 \in Int /\ next - 1 \in Int
        BY <2>3
      <4> HIDE DEF p, next
      <4> QED  BY ONLY <3>1, <4>1, SubSeqProperties
    <3>3. Len(sub) = z /\ \A q \in 1..z : sub[q] = body[o + 1 + q]
      BY <2>3, <3>2
    <3>4. data = [q \in 1..z |-> data[q]]
      BY <2>0 DEF DataOf
    <3>5. \A q \in 1..z : data[q] = body[o + 1 + q]
      BY <1>2, <2>0, <2>1
    <3>6. sub = [q \in 1..z |-> sub[q]]
      <4> HIDE DEF sub
      <4> QED  BY <3>2, <3>3, LenProperties
    <3> HIDE DEF sub, data
    <3> QED  BY <3>3, <3>4, <3>5, <3>6 DEF sub
  <2>6. data[1] = Content(bs[i].key, sv)
    BY <2>0 DEF DataOf
  <2>7. g[p] = LoadBox(now, hd, data, rest)
    <3>1. g[p] = WalkStep(now, body, n, g, p)
      BY <1>4, <2>3 DEF IsWalk
    <3>2. p + 1 + body[p].size = next
      BY <2>4
    <3> HIDE DEF next, hd, data, p
    <3> QED  BY <2>3, <2>4, <2>5, <3>1, <3>2 DEF WalkStep
  <2>8. rest.got \subseteq After(i) /\ (SizesAgree(now, bs) => rest.got = After(i))
    BY <1>7, <2>3
  <2> HIDE DEF rest, hd, data
  <2>9. g[off[i - 1] + 1] = LoadBox(now, hd, data, rest)
    BY <2>1, <2>7
  <2>10. CASE FindEntry(now, bs[i].key) = {}
    <3>1. LoadBox(now, hd, data, rest) = rest
      BY <2>4, <2>10 DEF LoadBox
    <3>2. After(i - 1) = After(i)
      <4>1. \A j \in 1..nb : j \in ((i - 1) + 1)..nb <=> j = i \/ j \in (i + 1)..nb
        OBVIOUS
      <4>2. { j \in ((i - 1) + 1)..nb : FindEntry(now, bs[j].key) # {} }
            = { j \in (i + 1)..nb : FindEntry(now, bs[j].key) # {} }
        BY <2>10, <4>1
      <4> QED  BY <4>2
    <3> QED  BY <2>8, <2>9, <3>1, <3>2
  <2>11. CASE FindEntry(now, bs[i].key) # {}
    <3>1. After(i - 1) = After(i) \cup {Item(i)}
      <4>1. { j \in ((i - 1) + 1)..nb : FindEntry(now, bs[j].key) # {} }
            = { j \in (i + 1)..nb : FindEntry(now, bs[j].key) # {} } \cup {i}
        BY <2>11
      <4> QED  BY <4>1
    <3>2. CASE \E j \in FindEntry(now, hd.key) : now[j].size # hd.size
      <4>1. LoadBox(now, hd, data, rest).got = {}
        BY <2>4, <2>11, <3>2 DEF LoadBox, NoBox
      <4>2. ~SizesAgree(now, bs)
        BY <1>0, <2>0, <2>4, <3>2 DEF SizesAgree, FindEntry
      <4> QED  BY <2>9, <4>1, <4>2
    <3>3. CASE ~\E j \in FindEntry(now, hd.key) : now[j].size # hd.size
      <4>1. LoadBox(now, hd, data, rest).got = rest.got \cup {<<hd.key, data[1]>>}
        BY <2>4, <2>11, <3>3 DEF LoadBox
      <4>2. <<hd.key, data[1]>> = Item(i)
        BY <2>4, <2>6
      <4> QED  BY <2>8, <2>9, <3>1, <4>1, <4>2
    <3> QED  BY <3>2, <3>3
  <2> QED  BY <2>10, <2>11
<1> HIDE DEF Good
<1>8. Good(0)
  <2> DEFINE Down(d) == Good(nb - d)
  <2>1. Down(0)
    BY <1>6
  <2>2. ASSUME NEW d \in 1..nb, Down(d - 1) PROVE Down(d)
    <3>1. nb - (d - 1) \in 1..nb /\ (nb - (d - 1)) - 1 = nb - d
      OBVIOUS
    <3> QED  BY <1>7, <2>2, <3>1
  <2> HIDE DEF Down
  <2>3. Down(nb)
    <3> SUFFICES ASSUME ~Down(nb) PROVE FALSE
      OBVIOUS
    <3> DEFINE bad == { d \in 0..nb : ~Down(d) }
    <3>1. bad \in SUBSET Nat /\ bad # {}
      OBVIOUS
    <3>2. PICK d \in bad : \A y \in bad : d <= y
      BY <3>1, Least
    <3>3. d \in 0..nb /\ ~Down(d) /\ d # 0
      BY <2>1, <3>2
    <3>4. d \in 1..nb /\ d - 1 \in 0..nb /\ ~(d <= d - 1)
      BY <3>3
    <3>5. Down(d - 1)
      BY <3>2, <3>4
    <3> QED  BY <2>2, <3>3, <3>4, <3>5
  <2>4. nb - nb = 0
    OBVIOUS
  <2> QED  BY <2>3, <2>4 DEF Down
<1>9. After(0) = { c \in Kept(bs, sv) : IsKnown(now, c) }
  <2>1. \A j : j \in (0 + 1)..nb <=> j \in 1..Len(bs)
    BY <1>0
  <2>2. \A j : Item(j)[1] = bs[j].key
    OBVIOUS
  <2>3. Kept(bs, sv) = { Item(j) : j \in 1..Len(bs) }
    BY DEF Kept
  <2> HIDE DEF Item
  <2> QED  BY <2>1, <2>2, <2>3 DEF IsKnown
<1>10. g[1].got \subseteq After(0) /\ (SizesAgree(now, bs) => g[1].got = After(0))
  <2>1. off[0] + 1 = 1
    BY <1>2
  <2> QED  BY <1>8, <2>1 DEF Good
<1> QED  BY <1>4, <1>9, <1>10 DEF body
-----------------------------------------------------------------------------
(* The file *)

Outer(body) == [key |-> "DEFAULT", size |-> Len(body) + 1, sum |-> body]
FileCells(bs, sv) == CellSet(sv) \cup { Outer(Body(bs, sv)) }

\* An image is a header over a body.
LEMMA ImageStructure ==
  ASSUME NEW bs, GoodBoxes(bs), NEW sv
  PROVE  /\ Body(bs, sv) \in Seq(CellSet(sv)) /\ Len(Body(bs, sv)) \in Nat
         /\ Image(bs, sv) \in Seq(FileCells(bs, sv))
         /\ Len(Image(bs, sv)) = Len(Body(bs, sv)) + 1
         /\ Image(bs, sv)[1] = Outer(Body(bs, sv))
         /\ \A p \in 1..Len(Body(bs, sv)) : Image(bs, sv)[p + 1] = Body(bs, sv)[p]
         /\ Tail(Image(bs, sv)) = Body(bs, sv)
<1> DEFINE body == Body(bs, sv)
           hd == <<Outer(body)>>
           f == Image(bs, sv)
<1>1. body \in Seq(CellSet(sv))
  <2>1. Len(bs) \in Nat
    BY LenProperties DEF GoodBoxes
  <2> QED  BY <2>1, BodyStructure
<1>2. f = hd \o body
  BY DEF Image, Outer
<1>3. hd \in Seq(FileCells(bs, sv)) /\ Len(hd) = 1 /\ hd[1] = Outer(body)
  BY DEF FileCells
<1>4. body \in Seq(FileCells(bs, sv))
  <2>1. CellSet(sv) \subseteq FileCells(bs, sv)
    BY DEF FileCells
  <2> QED  BY <1>1, <2>1, SeqMonotonic
<1>5. PICK n \in Nat : n = Len(body)
  BY <1>1, LenProperties
<1> HIDE DEF body, hd
<1>6. /\ hd \o body \in Seq(FileCells(bs, sv)) /\ Len(hd \o body) = Len(hd) + Len(body)
      /\ \A i \in 1..Len(hd) + Len(body) :
            (hd \o body)[i] = IF i <= Len(hd) THEN hd[i] ELSE body[i - Len(hd)]
  BY ONLY <1>3, <1>4, ConcatProperties
<1> DEFINE c == hd \o body
<1>7. c \in Seq(FileCells(bs, sv)) /\ Len(c) = n + 1
  BY <1>3, <1>5, <1>6
<1>8. c[1] = Outer(body)
  <2>1. 1 \in 1..Len(hd) + Len(body) /\ 1 <= Len(hd)
    BY <1>3, <1>5
  <2> QED  BY <1>3, <1>6, <2>1
<1>9. ASSUME NEW p \in 1..n PROVE c[p + 1] = body[p]
  <2>1. p + 1 \in 1..Len(hd) + Len(body) /\ ~(p + 1 <= Len(hd)) /\ (p + 1) - Len(hd) = p
    BY <1>3, <1>5
  <2> QED  BY <1>6, <2>1
<1>10. f = c
  BY <1>2
<1> HIDE DEF c
<1>11. Tail(c) = body
  <2>1. c # <<>>
    BY <1>7
  <2> DEFINE t == Tail(c)
  <2>2. /\ t \in Seq(FileCells(bs, sv)) /\ Len(t) = Len(c) - 1
        /\ \A i \in 1..Len(t) : t[i] = c[i + 1]
    BY ONLY <1>7, <2>1, HeadTailProperties
  <2> HIDE DEF t
  <2>3. Len(t) = n /\ \A i \in 1..n : t[i] = body[i]
    BY <1>7, <1>9, <2>2
  <2> QED  BY <1>4, <1>5, <2>2, <2>3, SeqEqual DEF t
<1> QED  BY <1>1, <1>5, <1>7, <1>8, <1>9, <1>10, <1>11 DEF body

\* What a complete file holds is what was stored.
LEMMA ContentsOfImage ==
  ASSUME NEW bs, GoodBoxes(bs), NEW sv, NEW now
  PROVE  /\ ContentsOf(Image(bs, sv)) = Kept(bs, sv)
         /\ SameSizes(now, Image(bs, sv)) => SizesAgree(now, bs)
<1> DEFINE f == Image(bs, sv)
           body == Body(bs, sv)
<1>0. PICK nb \in Nat : nb = Len(bs)
  BY LenProperties DEF GoodBoxes
<1>1. PICK off \in [0..nb -> Nat] : Placed(off, body, bs, sv, nb)
  BY <1>0, BodyStructure
<1>2. PICK n \in Nat : n = Len(body) /\ n = off[nb]
  BY <1>1, ImageStructure DEF Placed
<1>3. Len(f) = n + 1 /\ \A p \in 1..n : f[p + 1] = body[p]
  BY <1>2, ImageStructure
<1>4. \A i \in 1..nb : bs[i].size \in Nat \ {0}
  <2>1. \A i \in 1..nb : bs[i] \in BoxType
    BY <1>0, ElementOfSeq DEF GoodBoxes
  <2> QED  BY <2>1 DEF BoxType
<1> HIDE DEF f, body
<1>5. ASSUME NEW i \in 1..nb
      PROVE  /\ off[i - 1] \in Nat /\ off[i - 1] + 2 \in 2..(n + 1)
             /\ f[off[i - 1] + 2] = HeaderOf(bs[i], sv)
             /\ f[(off[i - 1] + 2) + 1] = Content(bs[i].key, sv)
             /\ \A j \in 1..bs[i].size : f[off[i - 1] + 2 + j] = DataOf(bs[i], sv)[j]
  <2>1. PICK o \in Nat : o = off[i - 1]
    OBVIOUS
  <2>2. PICK z \in Nat \ {0} : z = bs[i].size
    BY <1>4
  <2>3. o + 1 + z <= n /\ body[o + 1] = HeaderOf(bs[i], sv)
        /\ \A j \in 1..z : body[o + 1 + j] = DataOf(bs[i], sv)[j]
    BY <1>1, <1>2, <2>1, <2>2 DEF Placed
  <2>4. o + 1 \in 1..n /\ (o + 1) + 1 = o + 2 /\ o + 2 \in 2..(n + 1)
    BY <2>3
  <2>5. f[o + 2] = HeaderOf(bs[i], sv)
    BY <1>3, <2>3, <2>4
  <2>6. ASSUME NEW j \in 1..z PROVE f[o + 2 + j] = DataOf(bs[i], sv)[j]
    <3>1. o + 1 + j \in 1..n /\ (o + 1 + j) + 1 = o + 2 + j
      BY <2>3
    <3> QED  BY <1>3, <2>3, <3>1
  <2>7. f[(o + 2) + 1] = Content(bs[i].key, sv)
    <3>1. 1 \in 1..z
      OBVIOUS
    <3>2. DataOf(bs[i], sv)[1] = Content(bs[i].key, sv)
      BY <2>2, <3>1 DEF DataOf
    <3> QED  BY <2>6, <3>1, <3>2
  <2> QED  BY <2>1, <2>2, <2>4, <2>5, <2>6, <2>7
<1>6. \A i \in 1..nb : off[i - 1] + 2 \in Headers(f)
  BY <1>3, <1>5, Sums DEF Headers
<1>7. ASSUME NEW q \in Headers(f) PROVE \E i \in 1..nb : q = off[i - 1] + 2
  <2>1. q \in 2..(n + 1) /\ "sum" \in DOMAIN f[q]
    BY <1>3 DEF Headers
  <2>2. q - 1 \in 1..off[nb]
    BY <1>2, <2>1
  <2>3. PICK i \in 1..nb : off[i - 1] < q - 1 /\ q - 1 <= off[i]
    BY <1>1, <2>2 DEF Placed
  <2>4. PICK o \in Nat : o = off[i - 1]
    OBVIOUS
  <2>5. PICK z \in Nat \ {0} : z = bs[i].size
    BY <1>4
  <2>6. off[i] = o + 1 + z
    BY <1>1, <2>4, <2>5 DEF Placed
  <2>7. SUFFICES ASSUME q # o + 2 PROVE FALSE
    BY <2>4
  <2>8. q - (o + 2) \in 1..z /\ o + 2 + (q - (o + 2)) = q
    <3>1. q \in Nat
      BY <2>1
    <3>2. o < q - 1 /\ q - 1 <= o + 1 + z
      BY <2>3, <2>4, <2>6
    <3> QED  BY <2>7, <3>1, <3>2
  <2>9. f[q] = DataOf(bs[i], sv)[q - (o + 2)]
    BY <1>5, <2>4, <2>5, <2>8
  <2>10. f[q] \in {Content(bs[i].key, sv), Pad}
    BY <2>5, <2>8, <2>9 DEF DataOf
  <2> QED  BY <2>1, <2>10, Sums
<1>8. Headers(f) = { off[i - 1] + 2 : i \in 1..nb }
  BY <1>6, <1>7
<1>9. ContentsOf(f) = Kept(bs, sv)
  <2>1. \A i \in 1..nb : <<f[off[i - 1] + 2].key, f[(off[i - 1] + 2) + 1]>>
                         = <<bs[i].key, Content(bs[i].key, sv)>>
    BY <1>5, Sums
  <2>2. ContentsOf(f) = { <<f[q].key, f[q + 1]>> : q \in Headers(f) }
    BY DEF ContentsOf
  <2>3. ContentsOf(f) = { <<f[off[i - 1] + 2].key, f[(off[i - 1] + 2) + 1]>> : i \in 1..nb }
    BY <1>8, <2>2
  <2> QED  BY <1>0, <2>1, <2>3 DEF Kept
<1>10. ASSUME SameSizes(now, f) PROVE SizesAgree(now, bs)
  <2>1. ASSUME NEW i \in 1..nb, NEW j \in DOMAIN now, now[j].key = bs[i].key
        PROVE  now[j].size = bs[i].size
    <3>1. f[off[i - 1] + 2].key = bs[i].key /\ f[off[i - 1] + 2].size = bs[i].size
      BY <1>5, Sums
    <3> QED  BY <1>6, <1>10, <2>1, <3>1 DEF SameSizes
  <2> QED  BY <1>0, <2>1 DEF SizesAgree
<1> QED  BY <1>9, <1>10 DEF f

\* Of a file that is short of its image nothing is loaded.
LEMMA ShortFile ==
  ASSUME NEW bs, GoodBoxes(bs), NEW sv, NEW m \in Nat, m < Len(Image(bs, sv)), NEW now
  PROVE  /\ ~Complete(SubSeq(Image(bs, sv), 1, m))
         /\ Load(now, SubSeq(Image(bs, sv), 1, m)).got = {}
<1> DEFINE f == Image(bs, sv)
           body == Body(bs, sv)
           part == SubSeq(f, 1, m)
<1>1. PICK n \in Nat : n = Len(body) /\ Len(f) = n + 1
  BY ImageStructure
<1>2. f \in Seq(FileCells(bs, sv)) /\ f[1] = Outer(body)
  BY ImageStructure
<1> HIDE DEF f, body
<1>3. /\ part \in Seq(FileCells(bs, sv)) /\ Len(part) = m
      /\ \A i \in 1..m : part[i] = f[i]
  <2>0. m < n + 1
    BY <1>1 DEF f
  <2>1. \A i \in 1..m : f[i] \in FileCells(bs, sv)
    BY <1>1, <1>2, <2>0, ElementOfSeq
  <2>2. /\ part \in Seq(FileCells(bs, sv))
        /\ Len(part) = IF 1 <= m THEN m - 1 + 1 ELSE 0
        /\ \A i \in 1..m - 1 + 1 : part[i] = f[1 + i - 1]
    BY <2>1, SubSeqProperties
  <2> QED  BY <2>2
<1>4. m # n + 1 /\ m - 1 # n
  BY <1>1 DEF f
<1> HIDE DEF part
<1>5. CASE m = 0
  <2>1. part = <<>>
    BY <1>3, <1>5
  <2> QED  BY <2>1 DEF Complete, Load, NoBox, part, f
<1>6. CASE m # 0
  <2>1. part # <<>> /\ part[1] = Outer(body)
    BY <1>2, <1>3, <1>6
  <2>2. part[1].size = n + 1 /\ part[1].sum = body
    BY <1>1, <2>1 DEF Outer
  <2>3. Len(Tail(part)) = m - 1
    BY <1>3, <2>1, HeadTailProperties
  <2>4. Tail(part) # part[1].sum
    BY <1>1, <1>4, <2>2, <2>3
  <2>5. Load(now, part).got = {}
    BY <2>1, <2>4 DEF Load, NoBox
  <2>6. ~Complete(part)
    BY <1>3, <1>4, <2>2 DEF Complete
  <2> QED  BY <2>5, <2>6 DEF part, f
<1> QED  BY <1>5, <1>6

\* Of a whole image the boxes known now are loaded.
LEMMA WholeFile ==
  ASSUME NEW bs, GoodBoxes(bs), NEW sv, NEW now, GoodBoxes(now), Image(bs, sv) # NoFile
  PROVE  /\ Complete(Image(bs, sv))
         /\ Load(now, Image(bs, sv)).got \subseteq { c \in Kept(bs, sv) : IsKnown(now, c) }
         /\ SameSizes(now, Image(bs, sv)) =>
               Load(now, Image(bs, sv)).got = { c \in Kept(bs, sv) : IsKnown(now, c) }
<1> DEFINE f == Image(bs, sv)
           body == Body(bs, sv)
<1>1. PICK n \in Nat : n = Len(body) /\ Len(f) = n + 1
  BY ImageStructure
<1>2. f[1] = Outer(body) /\ Tail(f) = body
  BY ImageStructure
<1>3. f # NoFile
  OBVIOUS
<1>4. f # <<>>
  BY <1>1
<1> HIDE DEF f
<1>5. f[1].size = n + 1 /\ f[1].sum = body
  <2> HIDE DEF body
  <2> QED  BY <1>1, <1>2 DEF Outer
<1>6. Complete(f)
  BY <1>1, <1>3, <1>4, <1>5 DEF Complete
<1>7. Load(now, f) = LoadBoxes(now, body)
  BY <1>2, <1>3, <1>4, <1>5 DEF Load
<1>8. SameSizes(now, f) => SizesAgree(now, bs)
  BY ContentsOfImage DEF f
<1> QED  BY <1>6, <1>7, <1>8, Walk DEF f
-----------------------------------------------------------------------------
(* Every step *)

\* The file is the first m cells of an image.
FileIs(f, bs, sv, m) ==
  GoodBoxes(bs) /\ m \in 0..Len(Image(bs, sv)) /\ f = SubSeq(Image(bs, sv), 1, m)

\* The file, if there is one, is the start of what one store wrote, and what a
\* store has still to write is the rest of the image of what is in use.
StoreInv ==
  /\ GoodBoxes(boxes) /\ synced \in Nat
  /\ ~up => toWrite = <<>>
  /\ \/ file = NoFile /\ toWrite = <<>>
     \/ \E bs, sv, m :
           /\ FileIs(file, bs, sv, m)
           /\ toWrite # <<>> =>
                 /\ bs = boxes /\ sv = save
                 /\ toWrite = SubSeq(Image(bs, sv), m + 1, Len(Image(bs, sv)))

\* What a start loads from any file that a store and its crashes leave.
LEMMA LoadFrom ==
  ASSUME StoreInv, NEW now, GoodBoxes(now)
  PROVE  /\ ~Complete(file) => Load(now, file).got = {}
         /\ Complete(file) =>
              /\ \E bs, sv : /\ GoodBoxes(bs) /\ ContentsOf(file) = Kept(bs, sv)
              /\ Load(now, file).got \subseteq { c \in ContentsOf(file) : IsKnown(now, c) }
              /\ SameSizes(now, file) =>
                    Load(now, file).got = { c \in ContentsOf(file) : IsKnown(now, c) }
<1>1. CASE file = NoFile
  BY <1>1 DEF Complete, Load, NoBox
<1>2. ASSUME file # NoFile, NEW bs, NEW sv, NEW m, FileIs(file, bs, sv, m), m # Len(Image(bs, sv))
      PROVE  ~Complete(file) /\ Load(now, file).got = {}
  <2>1. Len(Image(bs, sv)) \in Nat /\ GoodBoxes(bs)
    BY <1>2, ImageStructure DEF FileIs
  <2>2. m \in Nat /\ m < Len(Image(bs, sv)) /\ file = SubSeq(Image(bs, sv), 1, m)
    BY <1>2, <2>1 DEF FileIs
  <2> QED  BY <2>1, <2>2, ShortFile
<1>3. ASSUME file # NoFile, NEW bs, NEW sv, NEW m, FileIs(file, bs, sv, m), m = Len(Image(bs, sv))
      PROVE  /\ Complete(file) /\ GoodBoxes(bs) /\ ContentsOf(file) = Kept(bs, sv)
             /\ Load(now, file).got \subseteq { c \in ContentsOf(file) : IsKnown(now, c) }
             /\ SameSizes(now, file) =>
                   Load(now, file).got = { c \in ContentsOf(file) : IsKnown(now, c) }
  <2>1. GoodBoxes(bs) /\ file = Image(bs, sv)
    BY <1>3, ImageStructure, SubSeqFull DEF FileIs
  <2>2. ContentsOf(file) = Kept(bs, sv)
    BY <2>1, ContentsOfImage
  <2>3. /\ Complete(file)
        /\ Load(now, file).got \subseteq { c \in Kept(bs, sv) : IsKnown(now, c) }
        /\ SameSizes(now, file) => Load(now, file).got = { c \in Kept(bs, sv) : IsKnown(now, c) }
    BY <1>3, <2>1, WholeFile
  <2> QED  BY <2>1, <2>2, <2>3
<1> QED  BY <1>1, <1>2, <1>3 DEF StoreInv

\* The rest of a sequence, and a part of the rest.
LEMMA Rests ==
  ASSUME NEW S, NEW f \in Seq(S), NEW m \in 0..Len(f), NEW k \in 1..Len(f) - m
  PROVE  /\ Len(SubSeq(f, m + 1, Len(f))) = Len(f) - m
         /\ SubSeq(f, 1, m) \o SubSeq(SubSeq(f, m + 1, Len(f)), 1, k) = SubSeq(f, 1, m + k)
         /\ k < Len(f) - m => SubSeq(SubSeq(f, m + 1, Len(f)), k + 1, Len(f) - m) = SubSeq(f, m + k + 1, Len(f))
<1>0. PICK n \in Nat : n = Len(f)
  BY LenProperties
<1>1. Len(SubSeq(f, m + 1, n)) = n - m
  <2>1. \A i \in (m + 1)..n : f[i] \in S
    BY <1>0, ElementOfSeq
  <2>2. Len(SubSeq(f, m + 1, n)) = IF m + 1 <= n THEN n - (m + 1) + 1 ELSE 0
    BY <1>0, <2>1, SubSeqProperties
  <2> QED  BY <1>0, <2>2
<1>2. m + 1 \in 1..n /\ n \in 1..n /\ k \in 1..n - (m + 1) + 1 /\ 1 \in 1..n - (m + 1) + 1
  BY <1>0
<1>3. SubSeq(SubSeq(f, m + 1, n), 1, k) = SubSeq(f, m + 1, m + k)
  <2>1. SubSeq(SubSeq(f, m + 1, n), 1, k) = SubSeq(f, (m + 1) + 1 - 1, (m + 1) + k - 1)
    BY <1>0, <1>2, SubSeqOfSubSeq
  <2>2. (m + 1) + 1 - 1 = m + 1 /\ (m + 1) + k - 1 = m + k
    BY <1>0
  <2> QED  BY <2>1, <2>2
<1>4. SubSeq(f, 1, m) \o SubSeq(f, m + 1, m + k) = SubSeq(f, 1, m + k)
  <2>1. 1 \in 1..Len(f) + 1 /\ m \in (1 - 1)..Len(f) /\ m + k \in m..Len(f)
    BY <1>0
  <2> QED  BY <2>1, ConcatAdjacentSubSeq
<1>5. k < n - m => SubSeq(SubSeq(f, m + 1, n), k + 1, n - m) = SubSeq(f, m + k + 1, n)
  <2> SUFFICES ASSUME k < n - m PROVE SubSeq(SubSeq(f, m + 1, n), k + 1, n - m) = SubSeq(f, m + k + 1, n)
    OBVIOUS
  <2>1. k + 1 \in 1..n - (m + 1) + 1 /\ n - m \in 1..n - (m + 1) + 1
    BY <1>0
  <2>2. SubSeq(SubSeq(f, m + 1, n), k + 1, n - m) = SubSeq(f, (m + 1) + (k + 1) - 1, (m + 1) + (n - m) - 1)
    BY <1>0, <1>2, <2>1, SubSeqOfSubSeq
  <2>3. (m + 1) + (k + 1) - 1 = m + k + 1 /\ (m + 1) + (n - m) - 1 = n
    BY <1>0
  <2> QED  BY <2>2, <2>3
<1> QED  BY <1>0, <1>1, <1>3, <1>4, <1>5

\* A write brings the file nearer to the image.
LEMMA WriteStep ==
  ASSUME StoreInv, StoreWrite
  PROVE  /\ StoreInv'
         /\ ~Complete(file)
         /\ Complete(file') => ContentsOf(file') = Kept(boxes, save)
<1>1. PICK m : /\ FileIs(file, boxes, save, m)
               /\ toWrite = SubSeq(Image(boxes, save), m + 1, Len(Image(boxes, save)))
  BY DEF StoreInv, StoreWrite
<1> DEFINE f == Image(boxes, save)
<1>2. f \in Seq(FileCells(boxes, save)) /\ GoodBoxes(boxes)
  BY ImageStructure DEF StoreInv
<1>3. PICK n \in Nat : n = Len(f)
  BY <1>2, LenProperties
<1> HIDE DEF f
<1>4. m \in 0..n /\ file = SubSeq(f, 1, m) /\ toWrite = SubSeq(f, m + 1, n) /\ toWrite # <<>>
  BY <1>1, <1>3 DEF FileIs, StoreWrite, f
<1>5. m < n
  <2>1. ~(n < m + 1)
    BY <1>4, SubSeqEmpty
  <2> QED  BY <1>4, <2>1
<1>6. Len(toWrite) = n - m
  <2>1. 1 \in 1..Len(f) - m /\ m \in 0..Len(f)
    BY <1>3, <1>4, <1>5
  <2>2. Len(SubSeq(f, m + 1, Len(f))) = Len(f) - m
    BY ONLY <1>2, <2>1, Rests
  <2> QED  BY <1>3, <1>4, <2>2
<1>7. PICK k \in 1..n - m : /\ file' = file \o SubSeq(toWrite, 1, k)
                            /\ toWrite' = SubSeq(toWrite, k + 1, n - m)
  BY <1>6 DEF StoreWrite
<1>8. /\ file' = SubSeq(f, 1, m + k) /\ m + k \in 0..n
      /\ k < n - m => toWrite' = SubSeq(f, m + k + 1, n)
      /\ ~(k < n - m) => toWrite' = <<>>
  <2>1. m \in 0..Len(f) /\ k \in 1..Len(f) - m
    BY <1>3, <1>4
  <2>2. /\ SubSeq(f, 1, m) \o SubSeq(SubSeq(f, m + 1, Len(f)), 1, k) = SubSeq(f, 1, m + k)
        /\ k < Len(f) - m => SubSeq(SubSeq(f, m + 1, Len(f)), k + 1, Len(f) - m) = SubSeq(f, m + k + 1, Len(f))
    BY ONLY <1>2, <2>1, Rests
  <2>3. ~(k < n - m) => toWrite' = <<>>
    <3> SUFFICES ASSUME ~(k < n - m) PROVE toWrite' = <<>>
      OBVIOUS
    <3>1. n - m < k + 1 /\ n - m \in Int /\ k + 1 \in Int
      BY <1>4
    <3> QED  BY <1>7, <3>1, SubSeqEmpty
  <2>4. m + k \in 0..n
    BY <1>4
  <2> QED  BY <1>3, <1>4, <1>7, <2>2, <2>3, <2>4
<1>9. UNCHANGED <<boxes, up, save, synced>> /\ up
  BY DEF StoreWrite, storeRest, builderVars
<1>10. FileIs(file', boxes, save, m + k)
  BY <1>2, <1>3, <1>8 DEF FileIs, f
<1>11. toWrite' # <<>> => toWrite' = SubSeq(f, (m + k) + 1, Len(f))
  BY <1>3, <1>8
<1>12. StoreInv'
  <2>1. \E bs, sv, x : /\ FileIs(file', bs, sv, x)
                       /\ toWrite' # <<>> => /\ bs = boxes' /\ sv = save'
                                             /\ toWrite' = SubSeq(Image(bs, sv), x + 1, Len(Image(bs, sv)))
    <3>1. /\ FileIs(file', boxes, save, m + k)
          /\ toWrite' # <<>> => /\ boxes = boxes' /\ save = save'
                                /\ toWrite' = SubSeq(Image(boxes, save), (m + k) + 1, Len(Image(boxes, save)))
      BY <1>9, <1>10, <1>11 DEF f
    <3> QED  BY ONLY <3>1
  <2>2. GoodBoxes(boxes)' /\ synced' \in Nat /\ (~up' => toWrite' = <<>>)
    BY <1>9 DEF StoreInv, GoodBoxes, BoxType
  <2>3. \A x, y, z : FileIs(file, x, y, z)' <=> FileIs(file', x, y, z)
    BY DEF FileIs, GoodBoxes
  <2> QED  BY <2>1, <2>2 DEF StoreInv, FileIs, GoodBoxes
<1>13. ~Complete(file)
  <2>1. m \in Nat /\ m < Len(Image(boxes, save))
    BY <1>3, <1>4, <1>5 DEF f
  <2> QED  BY <1>2, <1>4, <2>1, ShortFile DEF f
<1>14. ASSUME Complete(file') PROVE ContentsOf(file') = Kept(boxes, save)
  <2>1. m + k = n
    <3> SUFFICES ASSUME m + k # n PROVE FALSE
      OBVIOUS
    <3>1. m + k \in Nat /\ m + k < Len(Image(boxes, save))
      BY <1>3, <1>8 DEF f
    <3> QED  BY <1>2, <1>8, <1>14, <3>1, ShortFile DEF f
  <2>2. file' = Image(boxes, save)
    <3>1. file' = SubSeq(f, 1, Len(f))
      BY <1>3, <1>8, <2>1
    <3> QED  BY <1>2, <3>1, SubSeqFull DEF f
  <2> QED  BY <1>2, <2>2, ContentsOfImage
<1> QED  BY <1>12, <1>13, <1>14

\* Between two stores the file may be any start of an image.
LEMMA NoStore ==
  ASSUME toWrite' = <<>>, GoodBoxes(boxes'), synced' \in Nat,
         file' = NoFile \/ \E bs, sv, m : FileIs(file', bs, sv, m)
  PROVE  StoreInv'
<1>1. GoodBoxes(boxes)'
  BY DEF GoodBoxes, BoxType
<1>2. CASE file' = NoFile
  BY <1>1, <1>2 DEF StoreInv
<1>3. CASE \E bs, sv, m : FileIs(file', bs, sv, m)
  <2>1. \E bs, sv, m : /\ FileIs(file', bs, sv, m)
                       /\ toWrite' # <<>> => /\ bs = boxes' /\ sv = save'
                                             /\ toWrite' = SubSeq(Image(bs, sv), m + 1, Len(Image(bs, sv)))
    BY <1>3
  <2> QED  BY <1>1, <2>1 DEF StoreInv, FileIs, GoodBoxes
<1> QED  BY <1>2, <1>3

\* A file there is is the start of an image.
LEMMA FileStarts ==
  ASSUME StoreInv, file # NoFile
  PROVE  \E bs, sv, m : FileIs(file, bs, sv, m)
BY DEF StoreInv

\* The length of a file, and the cut that a power failure makes.
LEMMA CutFile ==
  ASSUME NEW f, NEW bs, NEW sv, NEW m, FileIs(f, bs, sv, m)
  PROVE  /\ Len(f) = m /\ m \in Nat
         /\ \A k \in 0..m : /\ FileIs(SubSeq(f, 1, k), bs, sv, k)
                            /\ k = m => SubSeq(f, 1, k) = f
<1> DEFINE im == Image(bs, sv)
<1>1. im \in Seq(FileCells(bs, sv)) /\ GoodBoxes(bs)
  BY ImageStructure DEF FileIs
<1>2. PICK n \in Nat : n = Len(im)
  BY <1>1, LenProperties
<1> HIDE DEF im
<1>3. m \in 0..n /\ f = SubSeq(im, 1, m)
  BY <1>2 DEF FileIs, im
<1>4. f \in Seq(FileCells(bs, sv)) /\ Len(f) = m
  <2>1. \A i \in 1..m : im[i] \in FileCells(bs, sv)
    BY <1>1, <1>2, <1>3, ElementOfSeq
  <2>2. f \in Seq(FileCells(bs, sv)) /\ Len(f) = IF 1 <= m THEN m - 1 + 1 ELSE 0
    BY <1>3, <2>1, SubSeqProperties
  <2> QED  BY <1>3, <2>2
<1>5. ASSUME NEW k \in 0..m PROVE SubSeq(f, 1, k) = SubSeq(im, 1, k)
  <2>1. CASE k = 0
    BY <1>3, <2>1, SubSeqEmpty
  <2>2. CASE k # 0
    <3>1. 1 \in 1..Len(im) /\ m \in 1..Len(im) /\ 1 \in 1..m - 1 + 1 /\ k \in 1..m - 1 + 1
      BY <1>2, <1>3, <2>2
    <3>2. SubSeq(SubSeq(im, 1, m), 1, k) = SubSeq(im, 1 + 1 - 1, 1 + k - 1)
      BY <1>1, <3>1, SubSeqOfSubSeq
    <3>3. 1 + 1 - 1 = 1 /\ 1 + k - 1 = k
      OBVIOUS
    <3> QED  BY <1>3, <3>2, <3>3
  <2> QED  BY <2>1, <2>2
<1>6. ASSUME NEW k \in 0..m PROVE FileIs(SubSeq(f, 1, k), bs, sv, k)
  <2>1. k \in 0..Len(im)
    BY <1>2, <1>3
  <2> QED  BY <1>1, <1>5, <2>1 DEF FileIs, im
<1> QED  BY <1>3, <1>4, <1>5, <1>6

\* The program starts without a file.
LEMMA StoreStart == StoreInit => StoreInv
<1> SUFFICES ASSUME StoreInit PROVE StoreInv
  OBVIOUS
<1>1. boxes = <<>> /\ file = NoFile /\ synced = 0 /\ toWrite = <<>>
  BY DEF StoreInit
<1>2. GoodBoxes(<<>>)
  BY DEF GoodBoxes
<1> QED  BY <1>1, <1>2 DEF StoreInv

\* Every step keeps the file the start of an image.
LEMMA StoreStep ==
  ASSUME StoreInv, [StoreNext]_<<tableVars, builderVars, storeVars>>
  PROVE  StoreInv'
<1>1. CASE Boot
  <2>1. UNCHANGED <<file, synced, toWrite>> /\ ~up
    BY <1>1 DEF Boot
  <2>2. GoodBoxes(boxes')
    BY <1>1, BoxesGood DEF Boot
  <2>3. toWrite' = <<>> /\ synced' \in Nat
    BY <2>1 DEF StoreInv
  <2>4. file' = NoFile \/ \E bs, sv, m : FileIs(file', bs, sv, m)
    BY <2>1, FileStarts
  <2> QED  BY <2>2, <2>3, <2>4, NoStore
<1>2. CASE StoreBegin
  <2>1. UNCHANGED <<boxes, up, save>> /\ up /\ GoodBoxes(boxes)
    BY <1>2 DEF StoreBegin, storeRest, builderVars, StoreInv
  <2>2. CASE UNCHANGED <<file, synced, toWrite>>
    <3>1. toWrite' = <<>> /\ GoodBoxes(boxes') /\ synced' \in Nat
      BY <1>2, <2>1, <2>2 DEF StoreBegin, StoreInv
    <3>2. file' = NoFile \/ \E bs, sv, m : FileIs(file', bs, sv, m)
      BY <2>2, FileStarts
    <3> QED  BY <3>1, <3>2, NoStore
  <2>3. CASE file' = <<>> /\ synced' = 0 /\ toWrite' = Image(boxes, save)
    <3>1. PICK n \in Nat : n = Len(Image(boxes, save)) /\ Image(boxes, save) \in Seq(FileCells(boxes, save))
      BY <2>1, ImageStructure
    <3>2. FileIs(file', boxes, save, 0)
      <4>1. SubSeq(Image(boxes, save), 1, 0) = <<>>
        BY SubSeqEmpty
      <4> QED  BY <2>1, <2>3, <3>1, <4>1 DEF FileIs
    <3>3. toWrite' = SubSeq(Image(boxes, save), 0 + 1, Len(Image(boxes, save)))
      BY <2>3, <3>1, SubSeqFull
    <3>4. \E bs, sv, m : /\ FileIs(file', bs, sv, m)
                         /\ toWrite' # <<>> => /\ bs = boxes' /\ sv = save'
                                               /\ toWrite' = SubSeq(Image(bs, sv), m + 1, Len(Image(bs, sv)))
      <4>1. /\ FileIs(file', boxes, save, 0)
            /\ toWrite' # <<>> => /\ boxes = boxes' /\ save = save'
                                  /\ toWrite' = SubSeq(Image(boxes, save), 0 + 1, Len(Image(boxes, save)))
        BY <2>1, <3>2, <3>3
      <4> QED  BY ONLY <4>1
    <3>5. GoodBoxes(boxes)' /\ synced' \in Nat /\ (~up' => toWrite' = <<>>)
      BY <2>1, <2>3 DEF GoodBoxes, BoxType
    <3> QED  BY <3>4, <3>5 DEF StoreInv, FileIs, GoodBoxes
  <2> QED  BY <1>2, <2>2, <2>3 DEF StoreBegin
<1>3. CASE StoreWrite
  BY <1>3, WriteStep
<1>4. CASE StoreFull
  <2>1. toWrite' = <<>> /\ GoodBoxes(boxes') /\ synced' \in Nat /\ file' = file
    BY <1>4 DEF StoreFull, storeRest, StoreInv
  <2>2. file' = NoFile \/ \E bs, sv, m : FileIs(file', bs, sv, m)
    BY <2>1, FileStarts
  <2> QED  BY <2>1, <2>2, NoStore
<1>5. CASE Sync
  <2>1. PICK bs, sv, m : FileIs(file, bs, sv, m)
    BY <1>5, FileStarts DEF Sync
  <2>2. synced' \in Nat
    BY <1>5, <2>1, CutFile DEF Sync
  <2>3. UNCHANGED <<boxes, up, save, file, toWrite>>
    BY <1>5 DEF Sync, storeRest, builderVars
  <2> QED  BY <2>2, <2>3 DEF StoreInv, FileIs, GoodBoxes, BoxType
<1>6. CASE PowerLoss
  <2>1. toWrite' = <<>> /\ boxes' = <<>>
    BY <1>6 DEF PowerLoss
  <2>2. GoodBoxes(boxes')
    BY <2>1 DEF GoodBoxes
  <2>3. CASE file = NoFile
    <3>1. file' = NoFile /\ synced' \in Nat
      BY <1>6, <2>3 DEF PowerLoss, StoreInv
    <3> QED  BY <2>1, <2>2, <3>1, NoStore
  <2>4. CASE file # NoFile
    <3>1. PICK bs, sv, m : FileIs(file, bs, sv, m)
      BY <2>4, FileStarts
    <3>2. PICK k \in synced..Len(file) : file' = SubSeq(file, 1, k) /\ synced' = k
      BY <1>6, <2>4 DEF PowerLoss
    <3>3. k \in 0..m
      BY <3>1, <3>2, CutFile DEF StoreInv
    <3>4. FileIs(file', bs, sv, k) /\ synced' \in Nat
      BY <3>1, <3>2, <3>3, CutFile
    <3> QED  BY <2>1, <2>2, <3>4, NoStore
  <2> QED  BY <2>3, <2>4
<1>7. CASE Learn
  <2>1. toWrite' = <<>> /\ GoodBoxes(boxes') /\ synced' \in Nat /\ file' = file
    BY <1>7 DEF Learn, storeVars, StoreInv
  <2>2. file' = NoFile \/ \E bs, sv, m : FileIs(file', bs, sv, m)
    BY <2>1, FileStarts
  <2> QED  BY <2>1, <2>2, NoStore
<1>8. CASE UNCHANGED <<tableVars, builderVars, storeVars>>
  <2>1. UNCHANGED <<boxes, up, save, file, toWrite, synced>>
    BY <1>8 DEF storeVars, builderVars
  <2> QED  BY <2>1 DEF StoreInv, FileIs, GoodBoxes, BoxType
<1> QED  BY <1>1, <1>2, <1>3, <1>4, <1>5, <1>6, <1>7, <1>8 DEF StoreNext

\* The invariant holds in every state.
LEMMA StoreInvariance == StoreSpec => []StoreInv
<1>1. StoreInit => StoreInv
  BY StoreStart
<1>2. StoreInv /\ [StoreNext]_<<tableVars, builderVars, storeVars>> => StoreInv'
  BY StoreStep
<1> QED  BY <1>1, <1>2, PTL DEF StoreSpec
-----------------------------------------------------------------------------
(* What a start loads *)

\* Of a file that a crash or a full medium left short nothing is loaded, and
\* of a complete one every box the program still has with its size, in
\* whatever order the modules are enabled (inv_read_cal, inv_load_mpl_states).
THEOREM LoadsRight == StoreSpec => LoadsAllOrNothing
<1> DEFINE Loads == Boot => /\ ~Complete(file) => loaded' = {}
                            /\ Complete(file) /\ SameSizes(boxes', file) =>
                                 loaded' = {c \in ContentsOf(file) : FindEntry(boxes', c[1]) # {}}
<1>1. ASSUME StoreInv, StoreNext PROVE Loads
  <2> SUFFICES ASSUME Boot
               PROVE  /\ ~Complete(file) => loaded' = {}
                      /\ Complete(file) /\ SameSizes(boxes', file) =>
                           loaded' = {c \in ContentsOf(file) : FindEntry(boxes', c[1]) # {}}
    OBVIOUS
  <2>1. GoodBoxes(boxes') /\ loaded' = Load(boxes', file).got
    BY BoxesGood DEF Boot
  <2>2. /\ ~Complete(file) => Load(boxes', file).got = {}
        /\ Complete(file) /\ SameSizes(boxes', file) =>
             Load(boxes', file).got = { c \in ContentsOf(file) : IsKnown(boxes', c) }
    BY <1>1, <2>1, LoadFrom
  <2> QED  BY <2>1, <2>2 DEF IsKnown
<1>2. StoreInv /\ [StoreNext]_<<tableVars, builderVars, storeVars>> => [Loads]_storeVars
  <2>1. UNCHANGED <<tableVars, builderVars, storeVars>> => UNCHANGED storeVars
    OBVIOUS
  <2> QED  BY <1>1, <2>1
<1> QED  BY <1>2, StoreInvariance, PTL DEF StoreSpec, LoadsAllOrNothing
-----------------------------------------------------------------------------
(* The register *)

\* What is saved of what was loaded is what was loaded: the loaders put each
\* box's content where the savers take it from.
LEMMA LoadedInUse ==
  ASSUME NEW bs, GoodBoxes(bs), NEW sv, NEW got, got \subseteq Kept(bs, sv), NEW c \in got
  PROVE  c = <<c[1], Content(c[1], SaveAfter(got))>>
<1>1. PICK i \in 1..Len(bs) : c = <<bs[i].key, Content(bs[i].key, sv)>>
  BY DEF Kept
<1>2. c = <<c[1], Content(c[1], sv)>>
  BY <1>1
<1>3. \A g \in got : g[1] = c[1] => g[2] = Content(c[1], sv)
  BY DEF Kept
<1>4. ASSUME NEW default PROVE ContentOf(got, c[1], default) = Content(c[1], sv)
  <2>1. \E g \in got : g[1] = c[1]
    OBVIOUS
  <2>2. (CHOOSE g \in got : g[1] = c[1]) \in got /\ (CHOOSE g \in got : g[1] = c[1])[1] = c[1]
    BY <2>1
  <2> QED  BY <1>3, <2>1, <2>2 DEF ContentOf
<1>5. Content(c[1], SaveAfter(got)) = Content(c[1], sv)
  <2>1. CASE c[1] = "db"
    <3>1. ContentOf(got, "db", Content("db", EmptySave)) = Content("db", sv)
      BY <1>4, <2>1
    <3> QED  BY <2>1, <3>1 DEF SaveAfter, Content
  <2>2. CASE c[1] = "mpl"
    <3>1. ContentOf(got, "mpl", Content("mpl", EmptySave)) = Content("mpl", sv)
      BY <1>4, <2>2
    <3> QED  BY <2>2, <3>1 DEF SaveAfter, Content
  <2>3. CASE c[1] = "accel"
    <3>1. ContentOf(got, "accel", Content("accel", EmptySave)) = Content("accel", sv)
      BY <1>4, <2>3
    <3> QED  BY <2>3, <3>1 DEF SaveAfter, Content
  <2>4. CASE c[1] \notin {"db", "mpl", "accel"}
    BY <2>4 DEF Content
  <2> QED  BY <2>1, <2>2, <2>3, <2>4
<1> QED  BY <1>2, <1>5

\* What is kept in the file.
InFile(f) == IF Complete(f) THEN ContentsOf(f) ELSE {}

\* Every step of the store is a step of the register.
LEMMA RegisterStep ==
  ASSUME StoreInv, [StoreNext]_<<tableVars, builderVars, storeVars>>
  PROVE  [Nv!NvNext]_<<InUse, InFile(file), loaded>>
<1> USE DEF Nv!NvNext, Nv!Use, Nv!Keep, Nv!Lose, Nv!Find, Nv!Stop
<1>0. InUse = Kept(boxes, save) /\ InUse' = Kept(boxes', save')
  <2>1. GoodBoxes(boxes) /\ GoodBoxes(boxes')
    BY StoreStep DEF StoreInv, GoodBoxes, BoxType
  <2>2. DOMAIN boxes = 1..Len(boxes) /\ DOMAIN boxes' = 1..Len(boxes')
    BY <2>1, LenProperties DEF GoodBoxes
  <2> QED  BY <2>2 DEF InUse, Kept, Content
<1>1. CASE Boot
  <2>1. UNCHANGED file /\ loaded' = Load(boxes', file).got /\ save' = SaveAfter(loaded')
    BY <1>1 DEF Boot
  <2>2. GoodBoxes(boxes')
    BY <1>1, BoxesGood DEF Boot
  <2>3. loaded' \subseteq InFile(file)
    BY <2>1, <2>2, LoadFrom DEF InFile
  <2>4. ASSUME NEW c \in loaded' PROVE c \in Kept(boxes', save')
    <3>1. Complete(file)
      BY <2>3, <2>4 DEF InFile
    <3>2. PICK bs, sv : GoodBoxes(bs) /\ ContentsOf(file) = Kept(bs, sv)
      BY <2>2, <3>1, LoadFrom
    <3>3. c = <<c[1], Content(c[1], save')>>
      <4>1. loaded' \subseteq Kept(bs, sv)
        BY <2>3, <3>1, <3>2 DEF InFile
      <4> QED  BY <2>1, <2>4, <3>2, <4>1, LoadedInUse
    <3>4. IsKnown(boxes', c)
      BY <2>1, <2>2, <2>4, <3>1, LoadFrom
    <3>5. PICK i \in DOMAIN boxes' : boxes'[i].key = c[1]
      BY <3>4 DEF IsKnown, FindEntry
    <3>6. i \in 1..Len(boxes')
      BY <2>2, <3>5, LenProperties DEF GoodBoxes
    <3> QED  BY <3>3, <3>5, <3>6 DEF Kept
  <2>5. InFile(file') = InFile(file)
    BY <2>1
  <2> QED  BY <1>0, <2>3, <2>4, <2>5 DEF InFile
<1>2. CASE StoreBegin
  <2>1. UNCHANGED <<boxes, loaded, save>>
    BY <1>2 DEF StoreBegin, storeRest, builderVars
  <2>2. UNCHANGED InUse
    BY <1>0, <2>1
  <2>3. CASE file' = <<>>
    <3>1. InFile(file') = {}
      BY <2>3 DEF InFile, Complete
    <3> QED  BY <2>1, <2>2, <3>1 DEF InFile
  <2>4. CASE UNCHANGED file
    BY <2>1, <2>4 DEF InFile
  <2> QED  BY <1>2, <2>3, <2>4 DEF StoreBegin
<1>3. CASE StoreWrite
  <2>1. UNCHANGED <<boxes, loaded, save>>
    BY <1>3 DEF StoreWrite, storeRest, builderVars
  <2>2. UNCHANGED InUse
    BY <1>0, <2>1
  <2>3. InFile(file') = InUse \/ InFile(file') = {}
    BY <1>0, <1>3, WriteStep DEF InFile
  <2> QED  BY <2>1, <2>2, <2>3 DEF InFile
<1>4. CASE StoreFull
  <2>1. UNCHANGED <<file, loaded>>
    BY <1>4 DEF StoreFull, storeRest
  <2> QED  BY <2>1 DEF InFile
<1>5. CASE Sync
  <2>1. UNCHANGED <<file, loaded>>
    BY <1>5 DEF Sync, storeRest
  <2> QED  BY <2>1 DEF InFile
<1>6. CASE PowerLoss
  <2>1. boxes' = <<>> /\ loaded' = {}
    BY <1>6 DEF PowerLoss
  <2>2. InUse' = {}
    BY <1>0, <2>1 DEF Kept
  <2>3. InFile(file') \in {InFile(file), {}}
    <3>1. CASE file = NoFile
      BY <1>6, <3>1 DEF PowerLoss
    <3>2. CASE file # NoFile
      <4>1. PICK bs, sv, m : FileIs(file, bs, sv, m)
        BY <3>2, FileStarts
      <4>2. PICK k \in synced..Len(file) : file' = SubSeq(file, 1, k)
        BY <1>6, <3>2 DEF PowerLoss
      <4>3. k \in 0..m /\ m \in Nat
        BY <4>1, <4>2, CutFile DEF StoreInv
      <4>4. k = m => file' = file
        BY <4>1, <4>2, <4>3, CutFile
      <4>5. k # m => ~Complete(file')
        <5> SUFFICES ASSUME k # m PROVE ~Complete(file')
          OBVIOUS
        <5>1. FileIs(file', bs, sv, k)
          BY <4>1, <4>2, <4>3, CutFile
        <5>2. GoodBoxes(bs) /\ Len(Image(bs, sv)) \in Nat
          BY <4>1, ImageStructure DEF FileIs
        <5>3. k \in Nat /\ k < Len(Image(bs, sv)) /\ file' = SubSeq(Image(bs, sv), 1, k)
          BY <4>1, <4>3, <5>1, <5>2 DEF FileIs
        <5> QED  BY <5>2, <5>3, ShortFile
      <4> QED  BY <4>4, <4>5 DEF InFile
    <3> QED  BY <3>1, <3>2
  <2> QED  BY <2>1, <2>2, <2>3 DEF InFile
<1>7. CASE Learn
  <2>1. UNCHANGED <<file, loaded>>
    BY <1>7 DEF Learn, storeVars
  <2> QED  BY <2>1 DEF InFile
<1>8. CASE UNCHANGED <<tableVars, builderVars, storeVars>>
  <2>1. UNCHANGED <<file, loaded, boxes, save>>
    BY <1>8 DEF storeVars, builderVars
  <2> QED  BY <2>1 DEF InFile
<1> QED  BY <1>1, <1>2, <1>3, <1>4, <1>5, <1>6, <1>7, <1>8 DEF StoreNext

\* The calibration file is the register NvRegister describes, whatever the
\* power, the medium and the versions do: a start uses a part of what one store
\* saved (inv_store_calibration, inv_load_calibration).
THEOREM StoreRefines == StoreSpec => KeepsAsRegister
<1>1. StoreInit => Nv!NvInit
  BY DEF StoreInit, Nv!NvInit, Complete
<1>2. StoreInv /\ [StoreNext]_<<tableVars, builderVars, storeVars>>
        => [Nv!NvNext]_<<InUse, IF Complete(file) THEN ContentsOf(file) ELSE {}, loaded>>
  BY RegisterStep DEF InFile
<1> QED  BY <1>1, <1>2, StoreInvariance, PTL DEF StoreSpec, KeepsAsRegister, Nv!NvSpec
=============================================================================
