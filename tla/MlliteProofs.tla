---------------------------- MODULE MlliteProofs ----------------------------
(***************************************************************************)
(* Proofs about mllite: the tables of callbacks, for any features, any     *)
(* priorities and tables of any size, and the data builder, for any        *)
(* callbacks, sample intervals, time stamps, readings and biases.          *)
(***************************************************************************)
EXTENDS DataBuilder, SequenceTheorems, WellFoundedInduction, TLAPS

-----------------------------------------------------------------------------
(* Numbers and places *)

\* A set of natural numbers that is not empty has a least element.
LEMMA Least ==
  ASSUME NEW S \in SUBSET Nat, S # {}
  PROVE  \E x \in S : \A y \in S : x <= y
<1>1. PICK x \in S : \A y \in S : ~(<<y, x>> \in OpToRel(<, Nat))
  BY NatLessThanWellFounded, WFMin
<1>2. \A y \in S : y < x => <<y, x>> \in OpToRel(<, Nat)
  BY DEF OpToRel
<1>3. \A y \in S : y \in Nat /\ x \in Nat /\ ~(y < x)
  BY <1>1, <1>2
<1> QED  BY <1>3

\* Entries by rising priority.
InOrder(cbs) == \A i, j \in 1..Len(cbs) : i < j => Priority[cbs[i]] < Priority[cbs[j]]

\* The loop of inv_register_data_cb finds a place: all entries before it have
\* a lower priority, the next one has not.
LEMMA Place ==
  ASSUME NEW cbs \in Seq(DataFuncs), NEW f \in DataFuncs
  PROVE  /\ PlaceOf(cbs, f) \in 0..Len(cbs)
         /\ \A i \in 1..PlaceOf(cbs, f) : Priority[cbs[i]] < Priority[f]
         /\ \/ PlaceOf(cbs, f) = Len(cbs)
            \/ Priority[cbs[PlaceOf(cbs, f) + 1]] >= Priority[f]
<1> DEFINE Ends(k) == k = Len(cbs) \/ Priority[cbs[k + 1]] >= Priority[f]
<1> DEFINE places == { k \in 0..Len(cbs) : Ends(k) }
<1>0. Len(cbs) \in Nat /\ Priority[f] \in Nat /\ \A i \in 1..Len(cbs) : Priority[cbs[i]] \in Nat
  BY TablesAssumption, ElementOfSeq, LenProperties
<1>1. places \in SUBSET Nat /\ Len(cbs) \in places
  BY <1>0
<1>2. PICK k \in places : \A y \in places : k <= y
  BY <1>1, Least
<1>3. \A i \in 1..k : Priority[cbs[i]] < Priority[f]
  <2> SUFFICES ASSUME NEW i \in 1..k PROVE Priority[cbs[i]] < Priority[f]
    OBVIOUS
  <2>1. i - 1 \in 0..Len(cbs) /\ i \in 1..Len(cbs) /\ ~(k <= i - 1)
    BY <1>0, <1>2
  <2>2. i - 1 \notin places
    BY <1>2, <2>1
  <2>3. ~(Priority[cbs[(i - 1) + 1]] >= Priority[f])
    BY <2>1, <2>2
  <2>4. (i - 1) + 1 = i
    BY <2>1
  <2> QED  BY <1>0, <2>1, <2>3, <2>4
<1>4. \E n \in 0..Len(cbs) : /\ \A i \in 1..n : Priority[cbs[i]] < Priority[f]
                             /\ n = Len(cbs) \/ Priority[cbs[n + 1]] >= Priority[f]
  BY <1>2, <1>3
<1> QED  BY <1>4 DEF PlaceOf
-----------------------------------------------------------------------------
(* One callback comes or goes *)

\* An element put in behind the first k.
LEMMA Inserted ==
  ASSUME NEW S, NEW s \in Seq(S), NEW e \in S, NEW k \in 0..Len(s)
  PROVE  /\ InsertAt(s, k + 1, e) \in Seq(S)
         /\ Len(InsertAt(s, k + 1, e)) = Len(s) + 1
         /\ \A i \in 1..Len(s) + 1 :
                InsertAt(s, k + 1, e)[i] = IF i <= k THEN s[i] ELSE IF i = k + 1 THEN e ELSE s[i - 1]
<1> DEFINE a == SubSeq(s, 1, k)
           b == SubSeq(s, k + 1, Len(s))
           m == <<e>>
<1>0. PICK n \in Nat : n = Len(s)
  BY LenProperties
<1>1. /\ a \in Seq(S) /\ Len(a) = k
      /\ \A i \in 1..k : a[i] = s[i]
  BY <1>0, SubSeqProperties, ElementOfSeq
<1>2. /\ b \in Seq(S) /\ Len(b) = n - k
      /\ \A i \in 1..(n - k) : b[i] = s[k + i]
  <2>1. \A i \in (k + 1)..n : s[i] \in S
    BY <1>0, ElementOfSeq
  <2>2. /\ b \in Seq(S)
        /\ Len(b) = IF k + 1 <= n THEN n - (k + 1) + 1 ELSE 0
        /\ \A i \in 1..(n - (k + 1) + 1) : b[i] = s[(k + 1) + i - 1]
    BY <1>0, <2>1, SubSeqProperties
  <2> QED  BY <1>0, <2>2
<1>3. m \in Seq(S) /\ Len(m) = 1 /\ m[1] = e
  OBVIOUS
<1>4. InsertAt(s, k + 1, e) = (a \o m) \o b
  <2>1. (k + 1) - 1 = k
    BY <1>0
  <2> QED  BY <2>1 DEF InsertAt
<1> HIDE DEF a, b, m
<1>4a. a \in Seq(S) /\ m \in Seq(S) /\ b \in Seq(S)
  BY <1>1, <1>2, <1>3
<1>5. /\ a \o m \in Seq(S) /\ Len(a \o m) = k + 1
      /\ \A i \in 1..(k + 1) : (a \o m)[i] = IF i <= k THEN a[i] ELSE m[i - k]
  <2>1. /\ a \o m \in Seq(S) /\ Len(a \o m) = Len(a) + Len(m)
        /\ \A i \in 1..Len(a) + Len(m) : (a \o m)[i] = IF i <= Len(a) THEN a[i] ELSE m[i - Len(a)]
    BY ONLY <1>4a, ConcatProperties
  <2> QED  BY <1>1, <1>3, <2>1
<1>6. /\ (a \o m) \o b \in Seq(S) /\ Len((a \o m) \o b) = (k + 1) + (n - k)
      /\ \A i \in 1..((k + 1) + (n - k)) :
            ((a \o m) \o b)[i] = IF i <= k + 1 THEN (a \o m)[i] ELSE b[i - (k + 1)]
  <2> DEFINE c == a \o m
  <2>0. c \in Seq(S) /\ Len(c) = k + 1
    BY <1>5
  <2> HIDE DEF c
  <2>1. /\ c \o b \in Seq(S) /\ Len(c \o b) = Len(c) + Len(b)
        /\ \A i \in 1..Len(c) + Len(b) : (c \o b)[i] = IF i <= Len(c) THEN c[i] ELSE b[i - Len(c)]
    BY ONLY <2>0, <1>4a, ConcatProperties
  <2>2. /\ c \o b \in Seq(S) /\ Len(c \o b) = (k + 1) + (n - k)
        /\ \A i \in 1..((k + 1) + (n - k)) :
              (c \o b)[i] = IF i <= k + 1 THEN c[i] ELSE b[i - (k + 1)]
    BY <1>2, <2>0, <2>1
  <2> QED  BY <2>2 DEF c
<1>7. (k + 1) + (n - k) = n + 1
  BY <1>0
<1>8. ASSUME NEW i \in 1..(n + 1)
      PROVE  ((a \o m) \o b)[i] = IF i <= k THEN s[i] ELSE IF i = k + 1 THEN e ELSE s[i - 1]
  <2>1. CASE i <= k
    <3>1. i \in 1..k /\ i \in 1..(k + 1) /\ i <= k + 1
      BY <1>0, <2>1
    <3> QED  BY <1>1, <1>5, <1>6, <1>7, <2>1, <3>1
  <2>2. CASE i = k + 1
    <3>1. i \in 1..(k + 1) /\ i <= k + 1 /\ ~(i <= k) /\ i - k = 1
      BY <1>0, <2>2
    <3>2. ((a \o m) \o b)[i] = (a \o m)[i] /\ (a \o m)[i] = m[i - k]
      BY <1>5, <1>6, <1>7, <3>1
    <3> QED  BY <1>3, <2>2, <3>1, <3>2
  <2>3. CASE i > k + 1
    <3>1. /\ ~(i <= k + 1) /\ ~(i <= k) /\ i # k + 1 /\ i - (k + 1) \in 1..(n - k)
          /\ k + (i - (k + 1)) = i - 1
      BY <1>0, <2>3
    <3> QED  BY <1>2, <1>6, <1>7, <3>1
  <2>4. i <= k \/ i = k + 1 \/ i > k + 1
    BY <1>0
  <2> QED  BY <2>1, <2>2, <2>3, <2>4
<1> DEFINE d == (a \o m) \o b
<1>9. d \in Seq(S) /\ Len(d) = n + 1
  BY <1>6, <1>7
<1>10. \A i \in 1..(n + 1) : d[i] = IF i <= k THEN s[i] ELSE IF i = k + 1 THEN e ELSE s[i - 1]
  BY <1>8
<1>11. InsertAt(s, k + 1, e) = d
  BY <1>4
<1> HIDE DEF d
<1> QED  BY <1>0, <1>9, <1>10, <1>11

\* Registering keeps the table's order, drops nobody, and without an error
\* leaves the function in the table.
LEMMA RegisteredKeeps ==
  ASSUME NEW cbs \in Seq(DataFuncs), NEW f \in DataFuncs
  PROVE  /\ Registered(cbs, f).cbs \in Seq(DataFuncs)
         /\ Registered(cbs, f).err \in Errors
         /\ InOrder(cbs) => InOrder(Registered(cbs, f).cbs)
         /\ ToSet(cbs) \subseteq ToSet(Registered(cbs, f).cbs)
         /\ Registered(cbs, f).err = "SUCCESS" => f \in ToSet(Registered(cbs, f).cbs)
<1>0. PICK n \in Nat : n = Len(cbs) /\ DOMAIN cbs = 1..n
  BY LenProperties
<1>1. CASE (\E i \in DOMAIN cbs : cbs[i] = f \/ Priority[cbs[i]] = Priority[f]) \/ Len(cbs) >= MaxDataCb
  <2>1. Registered(cbs, f).cbs = cbs /\ Registered(cbs, f).err \in {"INVALID_PARAMETER", "MEMORY_EXAUSTED"}
    BY <1>1 DEF Registered
  <2> QED  BY <2>1 DEF Errors
<1>2. CASE ~((\E i \in DOMAIN cbs : cbs[i] = f \/ Priority[cbs[i]] = Priority[f]) \/ Len(cbs) >= MaxDataCb)
  <2>1. PICK k \in 0..n : /\ k = PlaceOf(cbs, f)
                          /\ \A i \in 1..k : Priority[cbs[i]] < Priority[f]
                          /\ k = n \/ Priority[cbs[k + 1]] >= Priority[f]
    BY <1>0, Place
  <2> DEFINE new == InsertAt(cbs, k + 1, f)
  <2>2. Registered(cbs, f).cbs = new /\ Registered(cbs, f).err = "SUCCESS"
    BY <1>2, <2>1 DEF Registered
  <2>3. /\ new \in Seq(DataFuncs) /\ Len(new) = n + 1
        /\ \A i \in 1..(n + 1) : new[i] = IF i <= k THEN cbs[i] ELSE IF i = k + 1 THEN f ELSE cbs[i - 1]
    <3>1. k \in 0..Len(cbs)
      BY <1>0, <2>1
    <3>2. /\ new \in Seq(DataFuncs) /\ Len(new) = Len(cbs) + 1
          /\ \A i \in 1..Len(cbs) + 1 :
                new[i] = IF i <= k THEN cbs[i] ELSE IF i = k + 1 THEN f ELSE cbs[i - 1]
      BY ONLY cbs \in Seq(DataFuncs), f \in DataFuncs, <3>1, Inserted
    <3> QED  BY <1>0, <3>2
  <2> HIDE DEF new
  <2>4. DOMAIN new = 1..(n + 1)
    BY <2>3, LenProperties
  <2>5. f \in ToSet(new)
    <3>1. k + 1 \in 1..(n + 1) /\ ~(k + 1 <= k)
      BY <2>1
    <3>2. new[k + 1] = f
      BY <2>3, <3>1
    <3> QED  BY <2>4, <3>1, <3>2 DEF ToSet
  <2>6. ASSUME NEW i \in 1..n PROVE cbs[i] \in ToSet(new)
    <3>1. CASE i <= k
      <4>1. i \in 1..(n + 1)
        BY <2>1
      <4> QED  BY <2>3, <2>4, <3>1, <4>1 DEF ToSet
    <3>2. CASE i > k
      <4>1. i + 1 \in 1..(n + 1) /\ ~(i + 1 <= k) /\ i + 1 # k + 1 /\ (i + 1) - 1 = i
        BY <2>1, <3>2
      <4>2. new[i + 1] = cbs[i]
        BY <2>3, <4>1
      <4> QED  BY <2>4, <4>1, <4>2 DEF ToSet
    <3> QED  BY <2>1, <3>1, <3>2
  <2>7. ASSUME InOrder(cbs) PROVE InOrder(new)
    <3>0. Priority[f] \in Nat /\ \A i \in 1..n : Priority[cbs[i]] \in Nat
      BY <1>0, TablesAssumption, ElementOfSeq
    <3>1. \A i \in 1..n : Priority[cbs[i]] # Priority[f]
      BY <1>0, <1>2
    <3>2. \A i, j \in 1..n : i < j => Priority[cbs[i]] < Priority[cbs[j]]
      BY <1>0, <2>7 DEF InOrder
    <3>3. \A j \in (k + 1)..n : Priority[f] < Priority[cbs[j]]
      <4> SUFFICES ASSUME NEW j \in (k + 1)..n PROVE Priority[f] < Priority[cbs[j]]
        OBVIOUS
      <4>1. k + 1 \in 1..n /\ j \in 1..n /\ k # n
        BY <2>1
      <4>2. Priority[f] < Priority[cbs[k + 1]]
        BY <2>1, <3>0, <3>1, <4>1
      <4>3. j = k + 1 \/ k + 1 < j
        BY <2>1
      <4> QED  BY <3>0, <3>2, <4>1, <4>2, <4>3
    <3> SUFFICES ASSUME NEW i \in 1..(n + 1), NEW j \in 1..(n + 1), i < j
                 PROVE  Priority[new[i]] < Priority[new[j]]
      BY <2>3 DEF InOrder
    <3>4. CASE j <= k
      <4>1. i \in 1..n /\ j \in 1..n /\ i <= k
        BY <2>1, <3>4
      <4>2. new[i] = cbs[i] /\ new[j] = cbs[j]
        BY <2>3, <3>4, <4>1
      <4> QED  BY <3>2, <4>1, <4>2
    <3>5. CASE j = k + 1
      <4>1. i \in 1..k /\ i <= k /\ ~(j <= k)
        BY <2>1, <3>5
      <4>2. new[i] = cbs[i] /\ new[j] = f
        BY <2>3, <3>5, <4>1
      <4> QED  BY <2>1, <4>1, <4>2
    <3>6. CASE j > k + 1
      <4>1. /\ j - 1 \in (k + 1)..n /\ j - 1 \in 1..n /\ ~(j <= k) /\ j # k + 1
        BY <2>1, <3>6
      <4>2. new[j] = cbs[j - 1]
        BY <2>3, <4>1
      <4>3. CASE i <= k
        <5>1. i \in 1..n /\ i < j - 1
          BY <2>1, <4>1, <4>3
        <5>2. new[i] = cbs[i]
          BY <2>3, <4>3
        <5> QED  BY <3>2, <4>1, <4>2, <5>1, <5>2
      <4>4. CASE i = k + 1
        <5>1. new[i] = f
          <6>1. ~(i <= k)
            BY <2>1, <4>4
          <6> QED  BY <2>3, <4>4, <6>1
        <5> QED  BY <3>3, <4>1, <4>2, <5>1
      <4>5. CASE i > k + 1
        <5>1. i - 1 \in 1..n /\ i - 1 < j - 1 /\ ~(i <= k) /\ i # k + 1
          BY <2>1, <4>5
        <5>2. new[i] = cbs[i - 1]
          BY <2>3, <5>1
        <5> QED  BY <3>2, <4>1, <4>2, <5>1, <5>2
      <4> QED  BY <2>1, <4>3, <4>4, <4>5
    <3> QED  BY <2>1, <3>4, <3>5, <3>6
  <2>8. ToSet(cbs) \subseteq ToSet(new)
    BY <1>0, <2>6 DEF ToSet
  <2> QED  BY <2>2, <2>3, <2>5, <2>7, <2>8 DEF Errors
<1> QED  BY <1>1, <1>2

\* Taking out the first of equal elements.
LEMMA Removed ==
  ASSUME NEW cbs \in Seq(DataFuncs), NEW f
  PROVE  /\ RemoveFirst(cbs, f) \in Seq(DataFuncs)
         /\ InOrder(cbs) => InOrder(RemoveFirst(cbs, f))
<1>0. PICK n \in Nat : n = Len(cbs) /\ DOMAIN cbs = 1..n
  BY LenProperties
<1> DEFINE S == { i \in 1..Len(cbs) : cbs[i] = f }
<1>1. CASE ~\E i \in 1..Len(cbs) : cbs[i] = f
  BY <1>1 DEF RemoveFirst
<1>2. CASE \E i \in 1..Len(cbs) : cbs[i] = f
  <2>1. S # {} /\ S \in SUBSET Nat
    BY <1>2
  <2>2. PICK k \in S : \A y \in S : k <= y
    BY <2>1, Least
  <2>3. Min(S) \in S
    BY <2>2 DEF Min
  <2>4. PICK m \in 1..n : m = Min(S)
    BY <1>0, <2>3
  <2> DEFINE a == SubSeq(cbs, 1, m - 1)
             b == SubSeq(cbs, m + 1, Len(cbs))
  <2>5. RemoveFirst(cbs, f) = a \o b
    BY <1>2, <2>1, <2>4 DEF RemoveFirst, RemoveAt, SelectInSeq
  <2>6. /\ a \in Seq(DataFuncs) /\ Len(a) = m - 1
        /\ \A i \in 1..(m - 1) : a[i] = cbs[i]
    <3>1. \A i \in 1..(m - 1) : cbs[i] \in DataFuncs
      BY <1>0, ElementOfSeq
    <3>2. /\ a \in Seq(DataFuncs)
          /\ Len(a) = IF 1 <= m - 1 THEN (m - 1) - 1 + 1 ELSE 0
          /\ \A i \in 1..((m - 1) - 1 + 1) : a[i] = cbs[1 + i - 1]
      BY <3>1, SubSeqProperties
    <3> QED  BY <3>2
  <2>7. /\ b \in Seq(DataFuncs) /\ Len(b) = n - m
        /\ \A i \in 1..(n - m) : b[i] = cbs[m + i]
    <3>1. \A i \in (m + 1)..n : cbs[i] \in DataFuncs
      BY <1>0, ElementOfSeq
    <3>2. /\ b \in Seq(DataFuncs)
          /\ Len(b) = IF m + 1 <= n THEN n - (m + 1) + 1 ELSE 0
          /\ \A i \in 1..(n - (m + 1) + 1) : b[i] = cbs[(m + 1) + i - 1]
      BY <1>0, <3>1, SubSeqProperties
    <3> QED  BY <1>0, <3>2
  <2> HIDE DEF a, b
  <2>8. /\ a \o b \in Seq(DataFuncs) /\ Len(a \o b) = Len(a) + Len(b)
        /\ \A i \in 1..Len(a) + Len(b) : (a \o b)[i] = IF i <= Len(a) THEN a[i] ELSE b[i - Len(a)]
    BY ONLY <2>6, <2>7, ConcatProperties
  <2>9. /\ Len(a \o b) = n - 1
        /\ \A i \in 1..(n - 1) : (a \o b)[i] = cbs[IF i < m THEN i ELSE i + 1]
    <3>1. Len(a) + Len(b) = n - 1
      BY <2>6, <2>7
    <3>2. ASSUME NEW i \in 1..(n - 1), i < m PROVE (a \o b)[i] = cbs[i]
      <4>1. i <= m - 1 /\ i \in 1..(m - 1)
        BY <3>2
      <4> QED  BY <2>6, <2>8, <3>1, <4>1
    <3>3. ASSUME NEW i \in 1..(n - 1), ~(i < m) PROVE (a \o b)[i] = cbs[i + 1]
      <4>1. ~(i <= m - 1) /\ i - (m - 1) \in 1..(n - m) /\ m + (i - (m - 1)) = i + 1
        BY <3>3
      <4> QED  BY <2>6, <2>7, <2>8, <3>1, <4>1
    <3> QED  BY <2>8, <3>1, <3>2, <3>3
  <2> DEFINE c == a \o b
  <2>10. /\ c \in Seq(DataFuncs) /\ Len(c) = n - 1
         /\ \A i \in 1..(n - 1) : c[i] = cbs[IF i < m THEN i ELSE i + 1]
    BY <2>8, <2>9
  <2>11. RemoveFirst(cbs, f) = c
    BY <2>5
  <2> HIDE DEF c
  <2>12. ASSUME InOrder(cbs) PROVE InOrder(c)
    <3>1. \A i, j \in 1..n : i < j => Priority[cbs[i]] < Priority[cbs[j]]
      BY <1>0, <2>12 DEF InOrder
    <3> SUFFICES ASSUME NEW i \in 1..(n - 1), NEW j \in 1..(n - 1), i < j
                 PROVE  Priority[c[i]] < Priority[c[j]]
      BY <2>10 DEF InOrder
    <3>2. PICK x \in 1..n : x = IF i < m THEN i ELSE i + 1
      OBVIOUS
    <3>3. PICK y \in 1..n : y = IF j < m THEN j ELSE j + 1
      OBVIOUS
    <3>4. x < y
      BY <3>2, <3>3
    <3>5. c[i] = cbs[x] /\ c[j] = cbs[y]
      BY <2>10, <3>2, <3>3
    <3> QED  BY <3>1, <3>4, <3>5
  <2> QED  BY <2>10, <2>11, <2>12
<1> QED  BY <1>1, <1>2

\* Leaving a table keeps it in order.
LEMMA UnregisteredKeeps ==
  ASSUME NEW cbs \in Seq(DataFuncs), NEW f
  PROVE  /\ Unregistered(cbs, f) \in Seq(DataFuncs)
         /\ InOrder(cbs) => InOrder(Unregistered(cbs, f))
BY Removed DEF Unregistered
-----------------------------------------------------------------------------
(* The start callbacks, one after the other *)

\* g is what the first n start callbacks make of a table of data callbacks.
IsStart(g, cbs, n) ==
  g = [kk \in 0..n |-> IF kk = 0 THEN [cbs |-> cbs, err |-> "SUCCESS"]
                       ELSE OneStarted(g[kk - 1], startCbs[kk])]

\* There is such a function for every number of start callbacks.
LEMMA StartExists ==
  ASSUME NEW cbs, NEW n \in Nat
  PROVE  \E g : IsStart(g, cbs, n)
<1> SUFFICES ASSUME ~\E g : IsStart(g, cbs, n) PROVE FALSE
  OBVIOUS
<1> DEFINE bad == { m \in Nat : ~\E g : IsStart(g, cbs, m) }
<1>1. PICK m \in bad : \A y \in bad : m <= y
  <2>1. bad \in SUBSET Nat /\ bad # {}
    OBVIOUS
  <2> QED  BY <2>1, Least
<1>2. m # 0
  <2> DEFINE g == [kk \in {0} |-> [cbs |-> cbs, err |-> "SUCCESS"]]
  <2>1. 0..0 = {0}
    OBVIOUS
  <2>2. g = [kk \in 0..0 |-> IF kk = 0 THEN [cbs |-> cbs, err |-> "SUCCESS"]
                             ELSE OneStarted(g[kk - 1], startCbs[kk])]
    BY <2>1
  <2>3. IsStart(g, cbs, 0)
    BY <2>2 DEF IsStart
  <2> QED  BY <1>1, <2>3
<1>3. m - 1 \in Nat /\ m \in Nat /\ ~(m <= m - 1)
  BY <1>1, <1>2
<1>4. PICK h : IsStart(h, cbs, m - 1)
  BY <1>1, <1>3
<1> DEFINE g == [kk \in 0..m |-> IF kk = m THEN OneStarted(h[m - 1], startCbs[m]) ELSE h[kk]]
<1>5. \A kk \in 0..(m - 1) : g[kk] = h[kk]
  BY <1>3
<1>6. ASSUME NEW kk \in 0..m
      PROVE  g[kk] = IF kk = 0 THEN [cbs |-> cbs, err |-> "SUCCESS"]
                     ELSE OneStarted(g[kk - 1], startCbs[kk])
  <2>1. CASE kk = m
    <3>1. g[kk] = OneStarted(h[m - 1], startCbs[m]) /\ m - 1 \in 0..(m - 1)
      BY <1>3, <2>1
    <3>2. g[m - 1] = h[m - 1]
      BY <1>5, <3>1
    <3> QED  BY <1>2, <2>1, <3>1, <3>2
  <2>2. CASE kk # m
    <3>1. kk \in 0..(m - 1) /\ (kk # 0 => kk - 1 \in 0..(m - 1))
      BY <1>3, <2>2
    <3>2. h[kk] = IF kk = 0 THEN [cbs |-> cbs, err |-> "SUCCESS"]
                  ELSE OneStarted(h[kk - 1], startCbs[kk])
      BY <1>4, <3>1 DEF IsStart
    <3> QED  BY <1>5, <3>1, <3>2
  <2> QED  BY <2>1, <2>2
<1>7. IsStart(g, cbs, m)
  <2>1. g = [kk \in 0..m |-> g[kk]]
    OBVIOUS
  <2> HIDE DEF g
  <2> QED  BY <1>6, <2>1 DEF IsStart
<1> QED  BY <1>1, <1>7

\* Starting keeps the order and, if it reports success, leaves every start
\* callback's function in the table, but for the results holder's.
LEMMA StartKeeps ==
  ASSUME NEW cbs \in Seq(DataFuncs), startCbs \in Seq(DataFuncs)
  PROVE  /\ StartAll(cbs).cbs \in Seq(DataFuncs)
         /\ StartAll(cbs).err \in Errors
         /\ InOrder(cbs) => InOrder(StartAll(cbs).cbs)
         /\ StartAll(cbs).err = "SUCCESS" => ToSet(startCbs) \ {"results"} \subseteq ToSet(StartAll(cbs).cbs)
<1>0. PICK n \in Nat : n = Len(startCbs) /\ DOMAIN startCbs = 1..n
  BY LenProperties
<1>1. PICK g : IsStart(g, cbs, n) /\ StartAll(cbs) = g[n]
  <2> DEFINE g == CHOOSE g : IsStart(g, cbs, n)
  <2>1. IsStart(g, cbs, n)
    BY StartExists
  <2>2. StartAll(cbs) = g[n]
    BY <1>0 DEF StartAll, IsStart
  <2> QED  BY <2>1, <2>2
<1> DEFINE Good(m) == /\ g[m].cbs \in Seq(DataFuncs) /\ g[m].err \in Errors
                      /\ InOrder(cbs) => InOrder(g[m].cbs)
                      /\ g[m].err = "SUCCESS" =>
                            \A i \in 1..m : startCbs[i] = "results" \/ startCbs[i] \in ToSet(g[m].cbs)
<1>2. Good(0)
  <2>1. g[0] = [cbs |-> cbs, err |-> "SUCCESS"]
    BY <1>1 DEF IsStart
  <2> QED  BY <2>1 DEF Errors
<1>3. ASSUME NEW m \in 1..n, Good(m - 1) PROVE Good(m)
  <2> DEFINE f == startCbs[m]
             old == g[m - 1]
             r == Registered(old.cbs, f)
  <2>1. f \in DataFuncs
    BY <1>0, ElementOfSeq
  <2>2. g[m] = [cbs |-> r.cbs, err |-> FirstError(old.err, Reported(f, r.err))]
    <3>1. g[m] = OneStarted(g[m - 1], startCbs[m])
      <4>1. m \in 0..n /\ m # 0
        OBVIOUS
      <4> QED  BY ONLY <1>1, <4>1 DEF IsStart
    <3> QED  BY <3>1 DEF OneStarted
  <2>3. /\ r.cbs \in Seq(DataFuncs) /\ r.err \in Errors
        /\ InOrder(old.cbs) => InOrder(r.cbs)
        /\ ToSet(old.cbs) \subseteq ToSet(r.cbs)
        /\ r.err = "SUCCESS" => f \in ToSet(r.cbs)
    <3>1. old.cbs \in Seq(DataFuncs)
      BY <1>3
    <3> QED  BY ONLY <2>1, <3>1, RegisteredKeeps
  <2>4. g[m].cbs = r.cbs /\ g[m].err = FirstError(old.err, Reported(f, r.err))
    BY <2>2
  <2>5. g[m].cbs \in Seq(DataFuncs) /\ (InOrder(cbs) => InOrder(g[m].cbs))
    BY <1>3, <2>3, <2>4
  <2>6. g[m].err \in Errors
    BY <1>3, <2>3, <2>4 DEF FirstError, Reported, Errors
  <2>7. ASSUME g[m].err = "SUCCESS", NEW i \in 1..m
        PROVE  startCbs[i] = "results" \/ startCbs[i] \in ToSet(g[m].cbs)
    <3>1. old.err = "SUCCESS" /\ (f = "results" \/ r.err = "SUCCESS")
      BY <1>3, <2>3, <2>4, <2>7 DEF FirstError, Reported, Errors
    <3>2. CASE i = m
      BY <2>3, <2>4, <3>1, <3>2
    <3>3. CASE i # m
      <4>1. i \in 1..(m - 1)
        BY <3>3
      <4>2. startCbs[i] = "results" \/ startCbs[i] \in ToSet(old.cbs)
        BY <1>3, <3>1, <4>1
      <4> QED  BY <2>3, <2>4, <4>2
    <3> QED  BY <3>2, <3>3
  <2> QED  BY <2>5, <2>6, <2>7
<1> HIDE DEF Good
<1>4. Good(n)
  <2> SUFFICES ASSUME ~Good(n) PROVE FALSE
    OBVIOUS
  <2> DEFINE bad == { m \in 0..n : ~Good(m) }
  <2>1. bad \in SUBSET Nat /\ bad # {}
    OBVIOUS
  <2>2. PICK m \in bad : \A y \in bad : m <= y
    BY <2>1, Least
  <2>3. m \in 0..n /\ ~Good(m) /\ m # 0
    BY <1>2, <2>2
  <2>4. m \in 1..n /\ m - 1 \in 0..n /\ ~(m <= m - 1)
    BY <2>3
  <2>5. Good(m - 1)
    BY <2>2, <2>4
  <2> QED  BY <1>3, <2>3, <2>4, <2>5
<1>5. /\ g[n].cbs \in Seq(DataFuncs) /\ g[n].err \in Errors
      /\ InOrder(cbs) => InOrder(g[n].cbs)
      /\ g[n].err = "SUCCESS" =>
            \A i \in 1..n : startCbs[i] = "results" \/ startCbs[i] \in ToSet(g[n].cbs)
  BY <1>4 DEF Good
<1>6. ToSet(startCbs) = { startCbs[i] : i \in 1..n }
  BY <1>0 DEF ToSet
<1> QED  BY <1>1, <1>5, <1>6
-----------------------------------------------------------------------------
(* The tables *)

TablesTypeOK == startCbs \in Seq(DataFuncs) /\ dataCbs \in Seq(DataFuncs) /\ result \in Errors
TablesInv == TablesTypeOK /\ InOrder(dataCbs)

\* A start of the registered callbacks leaves a table of callbacks.
LEMMA StartRegisteredType ==
  ASSUME NEW cbs \in Seq(DataFuncs), NEW f \in DataFuncs
  PROVE  /\ StartRegistered(cbs, f).cbs \in Seq(DataFuncs) /\ StartRegistered(cbs, f).err \in Errors
         /\ StartUnregistered(cbs, f).cbs \in Seq(DataFuncs) /\ StartUnregistered(cbs, f).err \in Errors
<1>1. Append(cbs, f) \in Seq(DataFuncs)
  BY AppendProperties
<1>2. RemoveFirst(cbs, f) \in Seq(DataFuncs)
  BY Removed
<1> QED  BY <1>1, <1>2 DEF StartRegistered, StartUnregistered, Errors

\* Whatever is enabled, disabled, started or stopped, the tables stay in order.
LEMMA TablesStep ==
  ASSUME TablesInv, [TablesNext]_tableVars
  PROVE  TablesInv'
<1>0. startCbs \in Seq(DataFuncs) /\ dataCbs \in Seq(DataFuncs) /\ result \in Errors /\ InOrder(dataCbs)
  BY DEF TablesInv, TablesTypeOK
<1>1. CASE StartMpl
  <2>1. /\ StartAll(dataCbs).cbs \in Seq(DataFuncs) /\ StartAll(dataCbs).err \in Errors
        /\ InOrder(StartAll(dataCbs).cbs)
    BY <1>0, StartKeeps
  <2>2. /\ startCbs' = startCbs /\ dataCbs' = StartAll(dataCbs).cbs /\ result' = StartAll(dataCbs).err
    BY <1>1 DEF StartMpl
  <2> QED  BY <1>0, <2>1, <2>2 DEF TablesInv, TablesTypeOK, InOrder
<1>2. ASSUME NEW f \in DataFuncs, Enable(f) PROVE TablesInv'
  BY <1>0, <1>2, StartRegisteredType DEF Enable, TablesInv, TablesTypeOK, InOrder
<1>3. ASSUME NEW f \in DataFuncs, Disable(f) PROVE TablesInv'
  <2>1. /\ Unregistered(dataCbs, f) \in Seq(DataFuncs) /\ InOrder(Unregistered(dataCbs, f))
        /\ StartUnregistered(startCbs, f).cbs \in Seq(DataFuncs)
        /\ StartUnregistered(startCbs, f).err \in Errors
    BY <1>0, UnregisteredKeeps, StartRegisteredType
  <2> QED  BY <1>3, <2>1 DEF Disable, TablesInv, TablesTypeOK, InOrder
<1>4. ASSUME NEW f \in DataFuncs, StartOne(f) PROVE TablesInv'
  <2>1. /\ Registered(dataCbs, f).cbs \in Seq(DataFuncs) /\ Registered(dataCbs, f).err \in Errors
        /\ InOrder(Registered(dataCbs, f).cbs)
    BY <1>0, RegisteredKeeps
  <2>2. startCbs' = startCbs /\ dataCbs' = Registered(dataCbs, f).cbs /\ result' = Registered(dataCbs, f).err
    BY <1>4 DEF StartOne
  <2> QED  BY <1>0, <2>1, <2>2 DEF TablesInv, TablesTypeOK, InOrder
<1>5. ASSUME NEW f \in DataFuncs, StopOne(f) PROVE TablesInv'
  <2>1. Unregistered(dataCbs, f) \in Seq(DataFuncs) /\ InOrder(Unregistered(dataCbs, f))
    BY <1>0, UnregisteredKeeps
  <2> QED  BY <1>0, <1>5, <2>1 DEF StopOne, TablesInv, TablesTypeOK, InOrder, Errors
<1>6. CASE UNCHANGED tableVars
  BY <1>0, <1>6 DEF tableVars, TablesInv, TablesTypeOK, InOrder
<1> QED  BY <1>1, <1>2, <1>3, <1>4, <1>5, <1>6 DEF TablesNext

\* The tables start in order.
LEMMA TablesStart == TablesInit => TablesInv
<1> SUFFICES ASSUME TablesInit PROVE TablesInv
  OBVIOUS
<1>1. startCbs \in Seq(DataFuncs) /\ dataCbs \in Seq(DataFuncs) /\ Len(dataCbs) = 0
  BY DEF TablesInit, DataFuncs
<1> QED  BY <1>1 DEF TablesInit, TablesInv, TablesTypeOK, InOrder, Errors

\* The callback tables and the last result keep their types
\* (inv_init_mpl, inv_start_mpl and what registers or unregisters).
THEOREM TablesTypes == TablesSpec => []TablesTypeOK
<1>1. TablesInv /\ [TablesNext]_tableVars => TablesInv'
  BY TablesStep
<1>2. TablesInv => TablesTypeOK
  BY DEF TablesInv
<1> QED  BY TablesStart, <1>1, <1>2, PTL DEF TablesSpec

\* After every call, whatever was enabled, disabled, started or stopped before
\* and whichever table is full, the data callbacks stand in the order of their
\* priorities, and a start that reports success has put every enabled module
\* in the table (inv_register_data_cb, inv_execute_mpl_start_notification).
THEOREM InPlace == TablesSpec => CallbacksInPlace
<1>1. TablesInv /\ [TablesNext]_tableVars => TablesInv'
  BY TablesStep
<1>2. TablesInv /\ TablesInv' /\ [TablesNext]_tableVars
      => [RunsInPriorityOrder' /\ SuccessfulStartIsComplete]_tableVars
  <2> SUFFICES ASSUME TablesInv, TablesInv'
               PROVE  RunsInPriorityOrder' /\ SuccessfulStartIsComplete
    OBVIOUS
  <2>1. RunsInPriorityOrder'
    <3>1. dataCbs' \in Seq(DataFuncs) /\ InOrder(dataCbs)'
      BY DEF TablesInv, TablesTypeOK
    <3>2. DOMAIN dataCbs' = 1..Len(dataCbs')
      BY <3>1, LenProperties
    <3> QED  BY <3>1, <3>2 DEF InOrder, RunsInPriorityOrder
  <2>2. SuccessfulStartIsComplete
    <3> SUFFICES ASSUME StartMpl, result' = "SUCCESS"
                 PROVE  ToSet(startCbs) \ {"results"} \subseteq ToSet(dataCbs')
      BY DEF SuccessfulStartIsComplete
    <3>1. dataCbs \in Seq(DataFuncs) /\ startCbs \in Seq(DataFuncs)
      BY DEF TablesInv, TablesTypeOK
    <3>2. StartAll(dataCbs).err = "SUCCESS" =>
             ToSet(startCbs) \ {"results"} \subseteq ToSet(StartAll(dataCbs).cbs)
      BY <3>1, StartKeeps
    <3>3. dataCbs' = StartAll(dataCbs).cbs /\ result' = StartAll(dataCbs).err
      BY DEF StartMpl
    <3> QED  BY <3>2, <3>3
  <2> QED  BY <2>1, <2>2
<1> QED  BY TablesStart, <1>1, <1>2, PTL DEF TablesSpec, CallbacksInPlace
-----------------------------------------------------------------------------
(* Types *)

Bits == {"on", "new", "raw", "calibrated", "contiguous", "3element"} \cup QuatModes
SaveType == [compassBias : Int, gyroBias : Int, accelBias : Int, factoryGyro : Int,
             factoryAccel : Int, tcSet : BOOLEAN, acc : [Triads -> Nat]]
BuilderTypeOK ==
  /\ status \in [Sensors -> SUBSET Bits]
  /\ stamp \in [Sensors -> Nat] /\ prev \in [Sensors -> Nat] /\ rate \in [Sensors -> Nat]
  /\ accuracy \in [Triads -> Nat] /\ raw \in [Triads -> Int] /\ cal \in [Triads -> Int]
  /\ save \in SaveType
  /\ filter \in {"empty", "current", "old"}

allBuilderVars == <<tableVars, builderVars>>

\* The sets the data builder works on.
LEMMA Constants ==
  /\ Triads \subseteq Sensors /\ "compass" \in Triads /\ "gyro" \in Triads /\ "accel" \in Triads
  /\ Sensors = {"gyro", "accel", "compass", "quat", "temp", "pressure"}
  /\ Rates \subseteq Nat /\ Times \subseteq Nat /\ Raws \subseteq Int /\ Biases \subseteq Int
BY BuilderAssumption DEF Triads, Sensors

\* The builder starts with its types.
LEMMA BuilderStartTypes == BuilderInit => BuilderTypeOK
BY DEF BuilderInit, BuilderTypeOK, SensorsZero, EmptySave, SaveType, Triads, Sensors

\* A sample keeps the types.
LEMMA BuildTypes ==
  ASSUME BuilderTypeOK, Sample
  PROVE  BuilderTypeOK'
<1> USE Constants
<1>0. UNCHANGED <<rate, filter>>
  BY DEF Sample, outVars, confVars
<1>1. ASSUME NEW s \in Sensors, NEW t \in Times, Stamped(s, t)
      PROVE  stamp' \in [Sensors -> Nat] /\ prev' \in [Sensors -> Nat]
  BY <1>1 DEF Stamped, BuilderTypeOK
<1>2. ASSUME NEW s \in Sensors, NEW bits \in SUBSET Bits, Flagged(s, bits)
      PROVE  status' \in [Sensors -> SUBSET Bits]
  BY <1>2 DEF Flagged, BuilderTypeOK, Bits
<1>3. ASSUME NEW s \in Triads, NEW v \in Raws, NEW t \in Times, BuildRaw(s, v, t)
      PROVE  BuilderTypeOK'
  <2>1. Stamped(s, t) /\ Flagged(s, {"raw", "calibrated"}) /\ UNCHANGED <<accuracy, save>>
    BY <1>3 DEF BuildRaw
  <2>2. {"raw", "calibrated"} \in SUBSET Bits
    BY DEF Bits
  <2>3. save.gyroBias \in Int /\ save.accelBias \in Int /\ save.compassBias \in Int
    BY DEF BuilderTypeOK, SaveType
  <2>4. BiasOf(s) \in Int
    BY <2>3 DEF BiasOf, Triads
  <2> DEFINE w == IF s = "compass" THEN AfterSoftIron(v) ELSE v
  <2>5. w \in Int /\ w - BiasOf(s) \in Int
    BY <2>4 DEF AfterSoftIron
  <2>6. raw' = [raw EXCEPT ![s] = w] /\ cal' = [cal EXCEPT ![s] = w - BiasOf(s)]
    BY <1>3 DEF BuildRaw, Calibrated
  <2> HIDE DEF w
  <2>7. raw' \in [Triads -> Int] /\ cal' \in [Triads -> Int]
    BY <2>5, <2>6 DEF BuilderTypeOK
  <2> QED  BY <1>0, <1>1, <1>2, <2>1, <2>2, <2>7 DEF BuilderTypeOK
<1>4. ASSUME NEW v \in Raws, NEW a \in {0, 3}, NEW t \in Times, BuildCalibrated("compass", v, a, t)
      PROVE  BuilderTypeOK'
  <2>1. /\ Stamped("compass", t) /\ Flagged("compass", {"calibrated"})
        /\ cal' = [cal EXCEPT !["compass"] = v] /\ accuracy' = [accuracy EXCEPT !["compass"] = a]
        /\ save' = [save EXCEPT !.acc["compass"] = a] /\ raw' = raw
    BY <1>4 DEF BuildCalibrated
  <2>2. cal' \in [Triads -> Int] /\ accuracy' \in [Triads -> Nat] /\ save' \in SaveType
    BY <2>1 DEF BuilderTypeOK, SaveType
  <2>3. {"calibrated"} \in SUBSET Bits
    BY DEF Bits
  <2> QED  BY <1>0, <1>1, <1>2, <2>1, <2>2, <2>3 DEF BuilderTypeOK
<1>5. ASSUME NEW m \in QuatModes, NEW three \in BOOLEAN, NEW t \in Times, BuildQuat({m}, three, t)
      PROVE  BuilderTypeOK'
  <2>1. {"raw"} \cup {m} \cup (IF three THEN {"3element"} ELSE {}) \in SUBSET Bits
    BY DEF Bits
  <2> QED  BY <1>0, <1>1, <1>2, <1>5, <2>1 DEF BuildQuat, BuilderTypeOK
<1>6. ASSUME NEW t \in Times, BuildTemp(t) PROVE BuilderTypeOK'
  <2>1. {"raw"} \in SUBSET Bits
    BY DEF Bits
  <2> QED  BY <1>0, <1>1, <1>2, <1>6, <2>1 DEF BuildTemp, BuilderTypeOK
<1>7. CASE BuildPressure
  BY <1>0, <1>7 DEF BuildPressure, BuilderTypeOK, Bits
<1>8. Build
  BY DEF Sample
<1> QED  BY <1>3, <1>4, <1>5, <1>6, <1>7, <1>8 DEF Build

\* A sensor turned off, the callbacks and the configuration keep the types.
LEMMA RestTypes ==
  ASSUME BuilderTypeOK, TurnOff \/ Run \/ Configure \/ Results \/ UNCHANGED builderVars
  PROVE  BuilderTypeOK'
<1> USE Constants
<1>1. CASE TurnOff
  <2>1. PICK s \in Sensors : WasTurnedOff(s) /\ UNCHANGED confVars
    BY <1>1 DEF TurnOff
  <2>2. status' \in [Sensors -> SUBSET Bits] /\ filter' \in {"empty", "current", "old"}
    BY <2>1 DEF WasTurnedOff, BuilderTypeOK
  <2> QED  BY <2>1, <2>2 DEF WasTurnedOff, confVars, BuilderTypeOK
<1>2. CASE Run
  <2>1. filter' \in {"empty", "current", "old"}
    BY <1>2 DEF Run, Execute, HalOutputs, BuilderTypeOK
  <2>2. status' \in [Sensors -> SUBSET Bits]
    BY <1>2 DEF Run, Execute, BuilderTypeOK, Bits
  <2> QED  BY <1>2, <2>1, <2>2 DEF Run, Execute, confVars, BuilderTypeOK
<1>3. CASE Configure
  <2>1. ASSUME NEW s \in Triads \cup {"quat"}, NEW r \in Rates, SetRate(s, r) PROVE BuilderTypeOK'
    <3>1. rate' \in [Sensors -> Nat]
      BY <2>1 DEF SetRate, BuilderTypeOK
    <3> QED  BY <2>1, <3>1 DEF SetRate, sampleVars, outVars, BuilderTypeOK
  <2>2. ASSUME NEW d, SetDisturbance(d) \/ SetSoftIron(d) PROVE BuilderTypeOK'
    BY <2>2 DEF SetDisturbance, SetSoftIron, sampleVars, outVars, BuilderTypeOK
  <2> QED  BY <1>3, <2>1, <2>2 DEF Configure
<1>4. CASE Results
  <2>1. UNCHANGED <<sampleVars, outVars, confVars, save>>
    BY <1>4 DEF Results, SetResults, SetMotion, SetUserField, SetMplFieldStatus, SetMplField,
                GetMessages, resultsRest
  <2> QED  BY <2>1 DEF sampleVars, outVars, confVars, BuilderTypeOK
<1>5. CASE UNCHANGED builderVars
  BY <1>5 DEF builderVars, sampleVars, outVars, confVars, BuilderTypeOK
<1> QED  BY <1>1, <1>2, <1>3, <1>4, <1>5

\* What the saved structure looks like after a bias and an accuracy are set.
LEMMA SaveFields ==
  ASSUME save \in SaveType, NEW b \in Int, NEW a \in Nat, NEW s \in Triads
  PROVE  /\ [save EXCEPT !.compassBias = b, !.acc[s] = a] \in SaveType
         /\ [save EXCEPT !.gyroBias = b, !.tcSet = TRUE, !.acc[s] = a] \in SaveType
         /\ [save EXCEPT !.accelBias = b, !.acc[s] = a] \in SaveType
         /\ [save EXCEPT !.factoryGyro = b] \in SaveType
         /\ [save EXCEPT !.factoryAccel = b] \in SaveType
         /\ [save EXCEPT !.tcSet = FALSE] \in SaveType
BY DEF SaveType

\* The last reading of a triad is calibrated again.
LEMMA RecalibratedTypes ==
  ASSUME BuilderTypeOK, NEW s \in Triads, NEW b \in Int, Recalibrated(s, b)
  PROVE  /\ cal' \in [Triads -> Int] /\ status' \in [Sensors -> SUBSET Bits]
         /\ cal'[s] = raw[s] - b
         /\ \A u \in Triads : u # s => cal'[u] = cal[u]
         /\ \A u \in Sensors : On(u)' <=> On(u)
<1>1. raw[s] - b \in Int
  BY DEF BuilderTypeOK
<1>2. cal' = [cal EXCEPT ![s] = raw[s] - b] /\ status' = [status EXCEPT ![s] = @ \cup {"calibrated"}]
  BY DEF Recalibrated, Calibrated
<1>3. status' \in [Sensors -> SUBSET Bits] /\ \A u \in Sensors : On(u)' <=> On(u)
  BY <1>2, Constants DEF BuilderTypeOK, Bits, On
<1> QED  BY <1>1, <1>2, <1>3 DEF BuilderTypeOK

\* The accuracies agree, and gyro and accel are handed out less their bias.
CalInv == SavedAccuracyIsLive /\ GyroAccelFollowBias
-----------------------------------------------------------------------------
(* Biases *)

\* A bias that is set applies to the reading already taken.
LEMMA CalibrateKeeps ==
  ASSUME BuilderTypeOK, CalInv, Calibrate
  PROVE  BuilderTypeOK' /\ CalInv'
<1> USE Constants
<1>0. /\ save \in SaveType /\ accuracy \in [Triads -> Nat] /\ save.acc = accuracy
      /\ \A s \in {"gyro", "accel"} : On(s) => cal[s] = raw[s] - BiasOf(s)
  BY DEF BuilderTypeOK, CalInv, SavedAccuracyIsLive, GyroAccelFollowBias, Calibrated
<1>1. ASSUME NEW b \in Biases, NEW a \in {0, 3}, SetCompassBias(b, a) PROVE BuilderTypeOK' /\ CalInv'
  <2>0. b \in Int /\ a \in Nat
    OBVIOUS
  <2>1. /\ accuracy' = [accuracy EXCEPT !["compass"] = a]
        /\ save' = [save EXCEPT !.compassBias = b, !.acc["compass"] = a]
        /\ UNCHANGED sampleRest
    BY <1>1 DEF SetCompassBias, Known
  <2>2. save' \in SaveType /\ save'.acc = accuracy' /\ accuracy' \in [Triads -> Nat]
    <3>1. save' \in SaveType
      BY <1>0, <2>0, <2>1, SaveFields
    <3>2. save'.acc = [save.acc EXCEPT !["compass"] = a]
      BY <1>0, <2>1 DEF SaveType
    <3> QED  BY <1>0, <2>0, <2>1, <3>1, <3>2
  <2>3. save'.gyroBias = save.gyroBias /\ save'.accelBias = save.accelBias
    BY <1>0, <2>1 DEF SaveType
  <2>4. /\ cal' \in [Triads -> Int] /\ status' \in [Sensors -> SUBSET Bits]
        /\ \A u \in Triads : u # "compass" => cal'[u] = cal[u]
        /\ \A u \in Sensors : On(u)' <=> On(u)
    <3>1. CASE Recalibrated("compass", b)
      BY <2>0, <3>1, RecalibratedTypes
    <3>2. CASE UNCHANGED <<cal, status>>
      BY <3>2 DEF BuilderTypeOK, On
    <3> QED  BY <1>1, <3>1, <3>2 DEF SetCompassBias
  <2>5. BuilderTypeOK'
    BY <2>1, <2>2, <2>4 DEF sampleRest, outVars, confVars, BuilderTypeOK
  <2>6. raw' = raw
    BY <2>1 DEF sampleRest
  <2>7. ASSUME NEW s \in {"gyro", "accel"}, On(s)' PROVE cal'[s] = raw'[s] - BiasOf(s)'
    <3>1. BiasOf(s)' = BiasOf(s)
      BY <2>3 DEF BiasOf
    <3>2. cal'[s] = cal[s] /\ On(s)
      BY <2>4, <2>7
    <3> QED  BY <1>0, <2>6, <3>1, <3>2
  <2> QED  BY <2>2, <2>5, <2>7 DEF CalInv, SavedAccuracyIsLive, GyroAccelFollowBias, Calibrated
<1>2. ASSUME NEW b \in Biases, NEW a \in {0, 3}, SetGyroBias(b, a) PROVE BuilderTypeOK' /\ CalInv'
  <2>0. b \in Int /\ a \in Nat
    OBVIOUS
  <2>1. /\ accuracy' = [accuracy EXCEPT !["gyro"] = a]
        /\ save' = [save EXCEPT !.gyroBias = b, !.tcSet = TRUE, !.acc["gyro"] = a]
        /\ UNCHANGED sampleRest
    BY <1>2 DEF SetGyroBias, Known
  <2>2. save' \in SaveType /\ save'.acc = accuracy' /\ accuracy' \in [Triads -> Nat]
    <3>1. save' \in SaveType
      BY <1>0, <2>0, <2>1, SaveFields
    <3>2. save'.acc = [save.acc EXCEPT !["gyro"] = a]
      BY <1>0, <2>1 DEF SaveType
    <3> QED  BY <1>0, <2>0, <2>1, <3>1, <3>2
  <2>3. save'.gyroBias = b /\ save'.accelBias = save.accelBias
    BY <1>0, <2>1 DEF SaveType
  <2>4. /\ cal' \in [Triads -> Int] /\ status' \in [Sensors -> SUBSET Bits]
        /\ cal'["accel"] = cal["accel"] /\ (On("gyro") => cal'["gyro"] = raw["gyro"] - b)
        /\ \A u \in Sensors : On(u)' <=> On(u)
    <3>1. CASE Recalibrated("gyro", b)
      BY <2>0, <3>1, RecalibratedTypes
    <3>2. CASE b = save.gyroBias /\ UNCHANGED <<cal, status>>
      BY <1>0, <3>2 DEF BuilderTypeOK, On, BiasOf
    <3> QED  BY <1>2, <3>1, <3>2 DEF SetGyroBias
  <2>5. BuilderTypeOK'
    BY <2>1, <2>2, <2>4 DEF sampleRest, outVars, confVars, BuilderTypeOK
  <2>6. raw' = raw
    BY <2>1 DEF sampleRest
  <2>7. ASSUME NEW s \in {"gyro", "accel"}, On(s)' PROVE cal'[s] = raw'[s] - BiasOf(s)'
    <3>1. CASE s = "gyro"
      BY <2>3, <2>4, <2>6, <2>7, <3>1 DEF BiasOf
    <3>2. CASE s = "accel"
      <4>1. BiasOf(s)' = BiasOf(s) /\ On(s) /\ cal'[s] = cal[s]
        BY <2>3, <2>4, <2>7, <3>2 DEF BiasOf
      <4> QED  BY <1>0, <2>6, <4>1
    <3> QED  BY <3>1, <3>2
  <2> QED  BY <2>2, <2>5, <2>7 DEF CalInv, SavedAccuracyIsLive, GyroAccelFollowBias, Calibrated
<1>3. ASSUME NEW b \in Biases, NEW a \in {0, 3}, SetAccelBias(b, a) PROVE BuilderTypeOK' /\ CalInv'
  <2>0. b \in Int /\ a \in Nat
    OBVIOUS
  <2>1. /\ accuracy' = [accuracy EXCEPT !["accel"] = a]
        /\ save' = [save EXCEPT !.accelBias = b, !.acc["accel"] = a]
        /\ UNCHANGED sampleRest
    BY <1>3 DEF SetAccelBias, Known
  <2>2. save' \in SaveType /\ save'.acc = accuracy' /\ accuracy' \in [Triads -> Nat]
    <3>1. save' \in SaveType
      BY <1>0, <2>0, <2>1, SaveFields
    <3>2. save'.acc = [save.acc EXCEPT !["accel"] = a]
      BY <1>0, <2>1 DEF SaveType
    <3> QED  BY <1>0, <2>0, <2>1, <3>1, <3>2
  <2>3. save'.gyroBias = save.gyroBias /\ save'.accelBias = b
    BY <1>0, <2>1 DEF SaveType
  <2>4. /\ cal' \in [Triads -> Int] /\ status' \in [Sensors -> SUBSET Bits]
        /\ cal'["gyro"] = cal["gyro"] /\ (On("accel") => cal'["accel"] = raw["accel"] - b)
        /\ \A u \in Sensors : On(u)' <=> On(u)
    <3>1. CASE Recalibrated("accel", b)
      BY <2>0, <3>1, RecalibratedTypes
    <3>2. CASE b = save.accelBias /\ UNCHANGED <<cal, status>>
      BY <1>0, <3>2 DEF BuilderTypeOK, On, BiasOf
    <3> QED  BY <1>3, <3>1, <3>2 DEF SetAccelBias
  <2>5. BuilderTypeOK'
    BY <2>1, <2>2, <2>4 DEF sampleRest, outVars, confVars, BuilderTypeOK
  <2>6. raw' = raw
    BY <2>1 DEF sampleRest
  <2>7. ASSUME NEW s \in {"gyro", "accel"}, On(s)' PROVE cal'[s] = raw'[s] - BiasOf(s)'
    <3>1. CASE s = "accel"
      BY <2>3, <2>4, <2>6, <2>7, <3>1 DEF BiasOf
    <3>2. CASE s = "gyro"
      <4>1. BiasOf(s)' = BiasOf(s) /\ On(s) /\ cal'[s] = cal[s]
        BY <2>3, <2>4, <2>7, <3>2 DEF BiasOf
      <4> QED  BY <1>0, <2>6, <4>1
    <3> QED  BY <3>1, <3>2
  <2> QED  BY <2>2, <2>5, <2>7 DEF CalInv, SavedAccuracyIsLive, GyroAccelFollowBias, Calibrated
<1>4. ASSUME /\ UNCHANGED <<sampleVars, outVars, confVars>>
             /\ save' \in SaveType /\ save'.acc = save.acc
             /\ save'.gyroBias = save.gyroBias /\ save'.accelBias = save.accelBias
      PROVE  BuilderTypeOK' /\ CalInv'
  <2>1. BuilderTypeOK'
    BY <1>4 DEF sampleVars, outVars, confVars, BuilderTypeOK
  <2>2. ASSUME NEW s \in {"gyro", "accel"}, On(s)' PROVE cal'[s] = raw'[s] - BiasOf(s)'
    BY <1>0, <1>4, <2>2 DEF sampleVars, BiasOf, On
  <2> QED  BY <1>0, <1>4, <2>1, <2>2 DEF sampleVars, CalInv, SavedAccuracyIsLive, GyroAccelFollowBias, Calibrated
<1>5. ASSUME NEW b \in Biases, NEW m,
             SetFactoryBias("factoryGyro", m, b) \/ SetFactoryBias("factoryAccel", m, b)
      PROVE  BuilderTypeOK' /\ CalInv'
  <2>0. b \in Int
    OBVIOUS
  <2>1. /\ save' = [save EXCEPT !.factoryGyro = b] \/ save' = [save EXCEPT !.factoryAccel = b]
        /\ UNCHANGED <<sampleVars, outVars, confVars>>
    BY <1>5 DEF SetFactoryBias
  <2>2. /\ save' \in SaveType /\ save'.acc = save.acc
        /\ save'.gyroBias = save.gyroBias /\ save'.accelBias = save.accelBias
    BY <1>0, <2>0, <2>1 DEF SaveType
  <2> QED  BY <1>4, <2>1, <2>2
<1>6. CASE GetTcSet
  <2>1. /\ save' \in SaveType /\ save'.acc = save.acc
        /\ save'.gyroBias = save.gyroBias /\ save'.accelBias = save.accelBias
    BY <1>0, <1>6 DEF GetTcSet, SaveType
  <2> QED  BY <1>4, <1>6, <2>1 DEF GetTcSet
<1>7. CASE GetMessages
  BY <1>0, <1>4, <1>7 DEF GetMessages
<1> QED  BY <1>1, <1>2, <1>3, <1>5, <1>6, <1>7 DEF Calibrate, SetBias

\* A sample is calibrated with the bias in force, and one calibrated outside
\* brings its accuracy to both places.
LEMMA SampleKeeps ==
  ASSUME BuilderTypeOK, CalInv, Sample
  PROVE  CalInv'
<1> USE Constants
<1>0. /\ save \in SaveType /\ save.acc = accuracy /\ accuracy \in [Triads -> Nat]
      /\ \A s \in {"gyro", "accel"} : On(s) => cal[s] = raw[s] - BiasOf(s)
      /\ raw \in [Triads -> Int] /\ cal \in [Triads -> Int] /\ status \in [Sensors -> SUBSET Bits]
  BY DEF BuilderTypeOK, CalInv, SavedAccuracyIsLive, GyroAccelFollowBias, Calibrated
<1>1. SUFFICES /\ save'.acc = accuracy'
               /\ \A s \in {"gyro", "accel"} : On(s)' => cal'[s] = raw'[s] - BiasOf(s)'
  BY DEF CalInv, SavedAccuracyIsLive, GyroAccelFollowBias, Calibrated
<1>2. ASSUME NEW s \in Sensors, NEW bits, Flagged(s, bits), NEW u \in Sensors, u # s
      PROVE  On(u)' <=> On(u)
  BY <1>0, <1>2 DEF Flagged, On
<1>3. ASSUME NEW s \in Triads, NEW v \in Raws, NEW t \in Times, BuildRaw(s, v, t)
      PROVE  /\ save'.acc = accuracy'
             /\ \A u \in {"gyro", "accel"} : On(u)' => cal'[u] = raw'[u] - BiasOf(u)'
  <2> DEFINE w == IF s = "compass" THEN AfterSoftIron(v) ELSE v
  <2>1. /\ Flagged(s, {"raw", "calibrated"}) /\ accuracy' = accuracy /\ save' = save
        /\ raw' = [raw EXCEPT ![s] = w] /\ cal' = [cal EXCEPT ![s] = w - BiasOf(s)]
    BY <1>3 DEF BuildRaw, Calibrated
  <2> HIDE DEF w
  <2>2. ASSUME NEW u \in {"gyro", "accel"}, On(u)' PROVE cal'[u] = raw'[u] - BiasOf(u)'
    <3>1. BiasOf(u)' = BiasOf(u)
      BY <2>1 DEF BiasOf
    <3>2. CASE u = s
      BY <1>0, <2>1, <3>1, <3>2
    <3>3. CASE u # s
      <4>1. On(u)
        BY <1>2, <2>1, <2>2, <3>3
      <4>2. cal'[u] = cal[u] /\ raw'[u] = raw[u]
        BY <1>0, <2>1, <3>3
      <4> QED  BY <1>0, <3>1, <4>1, <4>2
    <3> QED  BY <3>2, <3>3
  <2> QED  BY <1>0, <2>1, <2>2
<1>4. ASSUME NEW v \in Raws, NEW a \in {0, 3}, NEW t \in Times, BuildCalibrated("compass", v, a, t)
      PROVE  /\ save'.acc = accuracy'
             /\ \A u \in {"gyro", "accel"} : On(u)' => cal'[u] = raw'[u] - BiasOf(u)'
  <2>1. /\ Flagged("compass", {"calibrated"})
        /\ cal' = [cal EXCEPT !["compass"] = v] /\ accuracy' = [accuracy EXCEPT !["compass"] = a]
        /\ save' = [save EXCEPT !.acc["compass"] = a] /\ raw' = raw
    BY <1>4 DEF BuildCalibrated
  <2>2. /\ save'.acc = [save.acc EXCEPT !["compass"] = a]
        /\ save'.gyroBias = save.gyroBias /\ save'.accelBias = save.accelBias
    BY <1>0, <2>1 DEF SaveType
  <2>3. ASSUME NEW u \in {"gyro", "accel"}, On(u)' PROVE cal'[u] = raw'[u] - BiasOf(u)'
    <3>1. BiasOf(u)' = BiasOf(u)
      BY <2>2 DEF BiasOf
    <3>2. On(u) /\ cal'[u] = cal[u]
      BY <1>0, <1>2, <2>1, <2>3
    <3> QED  BY <1>0, <2>1, <3>1, <3>2
  <2> QED  BY <1>0, <2>1, <2>2, <2>3
<1>5. ASSUME NEW s \in {"quat", "temp", "pressure"}, UNCHANGED <<raw, cal, accuracy, save>>,
             \A u \in {"gyro", "accel"} : On(u)' => On(u)
      PROVE  /\ save'.acc = accuracy'
             /\ \A u \in {"gyro", "accel"} : On(u)' => cal'[u] = raw'[u] - BiasOf(u)'
  BY <1>0, <1>5 DEF BiasOf
<1>6. ASSUME NEW m \in QuatModes, NEW three \in BOOLEAN, NEW t \in Times, BuildQuat({m}, three, t)
      PROVE  /\ save'.acc = accuracy'
             /\ \A u \in {"gyro", "accel"} : On(u)' => cal'[u] = raw'[u] - BiasOf(u)'
  BY <1>2, <1>5, <1>6 DEF BuildQuat
<1>7. ASSUME NEW t \in Times, BuildTemp(t)
      PROVE  /\ save'.acc = accuracy'
             /\ \A u \in {"gyro", "accel"} : On(u)' => cal'[u] = raw'[u] - BiasOf(u)'
  BY <1>2, <1>5, <1>7 DEF BuildTemp
<1>8. CASE BuildPressure
  <2>1. \A u \in {"gyro", "accel"} : On(u)' => On(u)
    BY <1>0, <1>8 DEF BuildPressure, On
  <2> QED  BY <1>5, <1>8, <2>1 DEF BuildPressure
<1> QED  BY <1>3, <1>4, <1>6, <1>7, <1>8 DEF Sample, Build

\* Nothing else touches readings, biases or accuracies.
LEMMA RestKeeps ==
  ASSUME BuilderTypeOK, CalInv, TurnOff \/ Run \/ Configure \/ Results \/ UNCHANGED builderVars
  PROVE  CalInv'
<1>1. UNCHANGED <<raw, cal, accuracy, save>>
  BY DEF TurnOff, WasTurnedOff, Run, Execute, Configure, SetRate, SetDisturbance, SetSoftIron,
         Results, SetResults, SetMotion, SetUserField, SetMplFieldStatus, SetMplField, GetMessages,
         resultsRest, sampleVars, outVars, confVars, builderVars
<1>2. \A u \in {"gyro", "accel"} : On(u)' => On(u)
  <2>1. CASE TurnOff
    BY <2>1, Constants DEF TurnOff, WasTurnedOff, BuilderTypeOK, On
  <2>2. CASE Run
    BY <2>2, Constants DEF Run, Execute, BuilderTypeOK, On
  <2>3. CASE Configure \/ Results \/ UNCHANGED builderVars
    <3>1. status' = status
      BY <2>3 DEF Configure, SetRate, SetDisturbance, SetSoftIron,
         Results, SetResults, SetMotion, SetUserField, SetMplFieldStatus, SetMplField, GetMessages,
         resultsRest, sampleVars, outVars, confVars, builderVars
    <3> QED  BY <3>1 DEF On
  <2> QED  BY <2>1, <2>2, <2>3
<1> QED  BY <1>1, <1>2 DEF CalInv, SavedAccuracyIsLive, GyroAccelFollowBias, BiasOf

BuilderInv == BuilderTypeOK /\ CalInv

\* The builder starts with everything zero.
LEMMA BuilderStart == BuilderInit => BuilderInv
<1> SUFFICES ASSUME BuilderInit PROVE BuilderInv
  OBVIOUS
<1>1. save.acc = accuracy
  BY DEF BuilderInit, SensorsZero, EmptySave
<1>2. \A u \in {"gyro", "accel"} : ~On(u)
  BY Constants DEF BuilderInit, SensorsZero, On
<1> QED  BY <1>1, <1>2, BuilderStartTypes
         DEF BuilderInv, CalInv, SavedAccuracyIsLive, GyroAccelFollowBias

\* Every step keeps the invariant.
LEMMA BuilderStep ==
  ASSUME BuilderInv, [BuilderNext]_<<tableVars, builderVars>>
  PROVE  BuilderInv'
<1>1. CASE Sample
  BY <1>1, BuildTypes, SampleKeeps DEF BuilderInv
<1>2. CASE Calibrate
  BY <1>2, CalibrateKeeps DEF BuilderInv
<1>3. CASE TurnOff \/ Run \/ Configure \/ Results \/ UNCHANGED builderVars
  BY <1>3, RestTypes, RestKeeps DEF BuilderInv
<1> QED  BY <1>1, <1>2, <1>3 DEF BuilderNext, Tables

\* Whatever samples, biases and accuracies come in any order, the accuracies
\* that would be saved are the ones in use, and gyro and accel readings are
\* handed out less the bias in force (inv_build_..., inv_set_..._bias).
THEOREM CalibrationInAgreement == BuilderSpec => []CalibrationAgrees
<1>1. BuilderInv /\ [BuilderNext]_<<tableVars, builderVars>> => BuilderInv'
  BY BuilderStep
<1>2. BuilderInv => CalibrationAgrees
  BY DEF BuilderInv, CalInv, CalibrationAgrees
<1> QED  BY BuilderStart, <1>1, <1>2, PTL DEF BuilderSpec
-----------------------------------------------------------------------------
(* The sensor an output is tied to *)

\* Of three differences the two rounds pick one that no other beats, the
\* first on a tie.
LEMMA BestIsBest ==
  ASSUME NEW a \in Int, NEW b \in Int, NEW c \in Int,
         NEW i \in 1..3, NEW j \in 1..3,
         i = BestOfThree(a, b, c) + 1
  PROVE  LET td == <<a, b, c>>
             better(x, y) == \/ td[x] >= 0 /\ (td[y] < 0 \/ td[x] < td[y])
                             \/ td[x] < 0 /\ td[y] < 0 /\ td[x] > td[y]
         IN  ~better(j, i) /\ (j < i => better(i, j))
<1>1. PickBest(a, b) \in {0, 1} /\ (PickBest(a, b) = 1 <=> (a >= 0 /\ b >= 0 /\ a > b) \/ (a < 0 /\ (b >= 0 \/ a < b)))
  BY DEF PickBest
<1>2. CASE PickBest(a, b) = 0
  <2>1. PickBest(a, c) \in {0, 1} /\ (PickBest(a, c) = 1 <=> (a >= 0 /\ c >= 0 /\ a > c) \/ (a < 0 /\ (c >= 0 \/ a < c)))
    BY DEF PickBest
  <2>2. i = IF PickBest(a, c) = 1 THEN 3 ELSE 1
    BY <1>2 DEF BestOfThree
  <2>3. CASE PickBest(a, c) = 1
    <3>1. i = 3
      BY <2>2, <2>3
    <3> QED  BY <1>1, <1>2, <2>1, <2>3, <3>1
  <2>4. CASE PickBest(a, c) = 0
    <3>1. i = 1
      BY <2>2, <2>4
    <3> QED  BY <1>1, <1>2, <2>1, <2>4, <3>1
  <2> QED  BY <2>1, <2>3, <2>4
<1>3. CASE PickBest(a, b) = 1
  <2>1. PickBest(b, c) \in {0, 1} /\ (PickBest(b, c) = 1 <=> (b >= 0 /\ c >= 0 /\ b > c) \/ (b < 0 /\ (c >= 0 \/ b < c)))
    BY DEF PickBest
  <2>2. i = IF PickBest(b, c) = 1 THEN 3 ELSE 2
    BY <1>3 DEF BestOfThree
  <2>3. CASE PickBest(b, c) = 1
    <3>1. i = 3
      BY <2>2, <2>3
    <3> QED  BY <1>1, <1>3, <2>1, <2>3, <3>1
  <2>4. CASE PickBest(b, c) = 0
    <3>1. i = 2
      BY <2>2, <2>4
    <3> QED  BY <1>1, <1>3, <2>1, <2>4, <3>1
  <2> QED  BY <2>1, <2>3, <2>4
<1> QED  BY <1>1, <1>2, <1>3

\* What the best sensor's rate and stamp may be.
LEMMA PickTypes ==
  ASSUME NEW a \in Int, NEW b \in Int, NEW c \in Int
  PROVE  PickBest(a, b) \in {0, 1} /\ BestOfThree(a, b, c) \in {0, 1, 2}
BY DEF PickBest, BestOfThree

\* The wanted rates are numbers.
LEMMA WantedInt == Wanted \subseteq Int
BY Constants DEF Wanted

\* An output is tied to a sensor that is on, or to none.
LEMMA TiedToLive ==
  ASSUME BuilderTypeOK
  PROVE  TiedToLiveSensor
<1> USE Constants
<1> SUFFICES ASSUME NEW r \in Wanted
             PROVE  /\ NineAxisStamp(r).sensor # "none" => On(NineAxisStamp(r).sensor)
                    /\ GeomagStamp(r).sensor # "none" => On(GeomagStamp(r).sensor)
  BY DEF TiedToLiveSensor
<1> DEFINE td(s) == r - rate[s]
<1>0. \A s \in Sensors : td(s) \in Int
  BY WantedInt DEF BuilderTypeOK
<1>1. \A m : QuatIs(m) => On("quat")
  BY DEF QuatIs, On
<1>2. \A n : RawStamp(n).sensor = RawSensor[n + 1]
  BY DEF RawStamp
<1>3. /\ RawSensor[0 + 1] = "quat" /\ RawSensor[1 + 1] = "gyro"
      /\ RawSensor[2 + 1] = "accel" /\ RawSensor[3 + 1] = "compass"
  BY DEF RawSensor
<1>4. NoStamp.sensor = "none"
  BY DEF NoStamp
<1>5. /\ \A s, u \in Sensors : PickBest(td(s), td(u)) \in {0, 1}
      /\ \A s, u, v \in Sensors : BestOfThree(td(s), td(u), td(v)) \in {0, 1, 2}
  BY <1>0, PickTypes
<1>6. GeomagStamp(r).sensor # "none" => On(GeomagStamp(r).sensor)
  <2>1. PICK n \in {0, 1} : n = PickBest(r - rate["accel"], r - rate["compass"])
    BY <1>5
  <2>2. n + 2 = 2 \/ n + 2 = 3
    OBVIOUS
  <2> QED  BY <1>2, <1>3, <1>4, <2>1, <2>2 DEF GeomagStamp
<1>7. NineAxisStamp(r).sensor # "none" => On(NineAxisStamp(r).sensor)
  <2>1. CASE QuatIs("9axis")
    BY <1>1, <1>2, <1>3, <2>1 DEF NineAxisStamp
  <2>2. CASE ~QuatIs("9axis") /\ QuatIs("6axis") /\ On("compass")
    <3>1. PICK n \in {0, 1} : n = PickBest(td("quat"), td("compass"))
      BY <1>5
    <3>2. 3 * n = 0 \/ 3 * n = 3
      OBVIOUS
    <3>3. NineAxisStamp(r) = RawStamp(3 * n)
      BY <2>2, <3>1 DEF NineAxisStamp
    <3> QED  BY <1>1, <1>2, <1>3, <2>2, <3>2, <3>3
  <2>3. CASE /\ ~QuatIs("9axis") /\ ~QuatIs("6axis") /\ On("compass") /\ On("accel") /\ QuatIs("3axis")
    <3>1. PICK n \in {0, 1, 2} : n = BestOfThree(td("quat"), td("compass"), td("accel"))
      BY <1>5
    <3>2. NineAxisStamp(r) = RawStamp(IF n = 0 THEN 0 ELSE n + 1)
      BY <2>3, <3>1 DEF NineAxisStamp
    <3>3. (IF n = 0 THEN 0 ELSE n + 1) \in {0, 2, 3}
      OBVIOUS
    <3> QED  BY <1>1, <1>2, <1>3, <2>3, <3>2, <3>3
  <2>4. CASE /\ ~QuatIs("9axis") /\ ~QuatIs("6axis") /\ On("compass") /\ On("accel")
             /\ ~QuatIs("3axis") /\ On("gyro")
    <3>1. PICK n \in {0, 1, 2} : n = BestOfThree(td("gyro"), td("compass"), td("accel"))
      BY <1>5
    <3>2. NineAxisStamp(r) = RawStamp(n + 1)
      BY <2>4, <3>1 DEF NineAxisStamp
    <3>3. n + 1 \in {1, 2, 3}
      OBVIOUS
    <3> QED  BY <1>2, <1>3, <2>4, <3>2, <3>3
  <2>5. CASE NineAxisStamp(r) = NoStamp
    BY <1>4, <2>5
  <2> QED  BY <2>1, <2>2, <2>3, <2>4, <2>5 DEF NineAxisStamp
<1> QED  BY <1>6, <1>7

\* Outputs made of several sensors are tied to the best of those that are on,
\* whatever the intervals (inv_pick_best_time_difference,
\* inv_get_9_axis_timestamp, inv_get_6_axis_compass_accel_timestamp).
THEOREM TiedToTheBest == BuilderSpec => []TiedToBestLiveSensor
<1>1. BuilderInv /\ [BuilderNext]_<<tableVars, builderVars>> => BuilderInv'
  BY BuilderStep
<1>2. BuilderInv => TiedToBestLiveSensor
  <2> SUFFICES ASSUME BuilderTypeOK PROVE NineAxisPicksBest
    BY TiedToLive DEF BuilderInv, TiedToBestLiveSensor
  <2>1. ASSUME NEW r \in Wanted
        PROVE  r - rate["gyro"] \in Int /\ r - rate["compass"] \in Int /\ r - rate["accel"] \in Int
    BY WantedInt, Constants DEF BuilderTypeOK
  <2>2. ASSUME NEW r \in Wanted
        PROVE  BestOfThree(r - rate["gyro"], r - rate["compass"], r - rate["accel"]) + 1 \in 1..3
    BY <2>1, PickTypes
  <2> QED  BY <2>1, <2>2, BestIsBest DEF NineAxisPicksBest
<1> QED  BY BuilderStart, <1>1, <1>2, PTL DEF BuilderSpec
-----------------------------------------------------------------------------
(* The field after a pause *)

\* The HAL outputs, once registered, stay registered: nothing in the HAL
\* stops or disables them.
HalStays == [][ "hal" \in ToSet(dataCbs) => "hal" \in ToSet(dataCbs') ]_<<tableVars, builderVars>>

\* The filter has taken in samples only with the HAL outputs registered.
FieldInv == NoOldField /\ (filter # "empty" => "hal" \in ToSet(dataCbs))

\* Once registered, and wanting the compass's samples as inv_start_hal_outputs
\* asks for them, the HAL outputs never mix the samples of before and after
\* the compass was off (inv_compass_was_turned_off, inv_generate_hal_outputs).
THEOREM NoMixedField ==
  ASSUME "compass" \in Required["hal"]
  PROVE  BuilderSpec /\ HalStays => []NoOldField
<1> DEFINE Keeps == "hal" \in ToSet(dataCbs) => "hal" \in ToSet(dataCbs')
<1>1. TablesInit /\ BuilderInit => BuilderInv /\ FieldInv
  <2> SUFFICES ASSUME BuilderInit PROVE FieldInv
    BY BuilderStart
  <2> QED  BY DEF BuilderInit, FieldInv, NoOldField
<1>2. /\ BuilderInv /\ FieldInv
      /\ [BuilderNext]_<<tableVars, builderVars>> /\ [Keeps]_<<tableVars, builderVars>>
      => BuilderInv' /\ FieldInv'
  <2> SUFFICES ASSUME BuilderInv, FieldInv,
                      [BuilderNext]_<<tableVars, builderVars>>, [Keeps]_<<tableVars, builderVars>>
               PROVE  FieldInv'
    BY BuilderStep
  <2>0. status \in [Sensors -> SUBSET Bits] /\ "compass" \in Sensors
    BY Constants DEF BuilderInv, BuilderTypeOK
  <2>1. ASSUME filter' = filter, "contiguous" \in status'["compass"] => "contiguous" \in status["compass"],
               Keeps
        PROVE  FieldInv'
    BY <2>1 DEF FieldInv, NoOldField
  <2>2. CASE UNCHANGED <<tableVars, builderVars>>
    BY <2>1, <2>2 DEF tableVars, builderVars, sampleVars, outVars
  <2>3. CASE Keeps /\ BuilderNext
    <3>1. CASE Sample
      <4>1. filter' = filter
        BY <3>1 DEF Sample, outVars
      <4>2. "contiguous" \in status'["compass"] => "contiguous" \in status["compass"]
        <5>1. ASSUME NEW s \in Sensors, NEW bits, "contiguous" \notin bits, Flagged(s, bits)
              PROVE  "contiguous" \in status'["compass"] => "contiguous" \in status["compass"]
          BY <2>0, <5>1 DEF Flagged
        <5>2. ASSUME NEW m \in QuatModes, NEW three \in BOOLEAN
              PROVE  "contiguous" \notin {"raw"} \cup {m} \cup (IF three THEN {"3element"} ELSE {})
          BY DEF QuatModes
        <5>3. CASE BuildPressure
          BY <2>0, <5>3 DEF BuildPressure
        <5>4. ASSUME NEW m \in QuatModes, NEW three \in BOOLEAN, NEW t \in Times, BuildQuat({m}, three, t)
              PROVE  "contiguous" \in status'["compass"] => "contiguous" \in status["compass"]
          BY <5>1, <5>2, <5>4, Constants DEF BuildQuat
        <5>5. ASSUME NEW s \in Triads, NEW v \in Raws, NEW t \in Times, BuildRaw(s, v, t)
              PROVE  "contiguous" \in status'["compass"] => "contiguous" \in status["compass"]
          <6>1. "contiguous" \notin {"raw", "calibrated"} /\ s \in Sensors
            BY Constants
          <6> QED  BY <5>1, <5>5, <6>1 DEF BuildRaw
        <5>6. ASSUME NEW v \in Raws, NEW a \in {0, 3}, NEW t \in Times, BuildCalibrated("compass", v, a, t)
              PROVE  "contiguous" \in status'["compass"] => "contiguous" \in status["compass"]
          <6>1. "contiguous" \notin {"calibrated"} /\ "compass" \in Sensors
            BY Constants
          <6> QED  BY <5>1, <5>6, <6>1 DEF BuildCalibrated
        <5>7. ASSUME NEW t \in Times, BuildTemp(t)
              PROVE  "contiguous" \in status'["compass"] => "contiguous" \in status["compass"]
          <6>1. "contiguous" \notin {"raw"} /\ "temp" \in Sensors
            BY Constants
          <6> QED  BY <5>1, <5>7, <6>1 DEF BuildTemp
        <5> QED  BY <3>1, <5>3, <5>4, <5>5, <5>6, <5>7 DEF Sample, Build
      <4> QED  BY <2>1, <2>3, <4>1, <4>2
    <3>2. CASE TurnOff
      <4>1. PICK s \in Sensors : WasTurnedOff(s) /\ dataCbs' = dataCbs
        BY <3>2 DEF TurnOff, tableVars
      <4>2. CASE s = "compass"
        <5>1. status'["compass"] = {} /\ (filter' # "empty" => filter # "empty")
          BY <2>0, <4>1, <4>2 DEF WasTurnedOff
        <5> QED  BY <4>1, <5>1 DEF FieldInv, NoOldField
      <4>3. CASE s # "compass"
        <5>1. filter' = filter /\ status'["compass"] = status["compass"]
          BY <2>0, <4>1, <4>3 DEF WasTurnedOff
        <5> QED  BY <2>1, <2>3, <5>1
      <4> QED  BY <4>2, <4>3
    <3>3. CASE Run
      <4>1. dataCbs' = dataCbs
        BY <3>3 DEF Run, tableVars
      <4>2. "contiguous" \in status'["compass"] => "contiguous" \in status["compass"] \/ IsNew("compass")
        BY <2>0, <3>3 DEF Run, Execute
      <4>3. CASE "hal" \in ToSet(dataCbs) /\ IsNew("compass")
        <5>1. HalOutputs
          BY <2>0, <3>3, <4>3 DEF Run, Execute
        <5>2. filter' = "old" => filter = "old" /\ "contiguous" \in status["compass"]
          BY <4>3, <5>1 DEF HalOutputs
        <5> QED  BY <4>1, <4>3, <5>2 DEF FieldInv, NoOldField
      <4>4. CASE "hal" \in ToSet(dataCbs) /\ ~IsNew("compass")
        <5>1. filter' = filter
          BY <3>3, <4>4 DEF Run, Execute, HalOutputs
        <5> QED  BY <2>1, <2>3, <4>2, <4>4, <5>1
      <4>5. CASE "hal" \notin ToSet(dataCbs)
        <5>1. filter' = filter /\ filter = "empty"
          BY <3>3, <4>5 DEF Run, Execute, FieldInv
        <5> QED  BY <5>1 DEF FieldInv, NoOldField
      <4> QED  BY <4>3, <4>4, <4>5
    <3>4. CASE Configure \/ Results
      <4>1. UNCHANGED <<filter, status>>
        BY <3>4 DEF Configure, SetRate, SetDisturbance, SetSoftIron,
           Results, SetResults, SetMotion, SetUserField, SetMplFieldStatus, SetMplField, GetMessages,
           resultsRest, sampleVars, outVars, confVars
      <4> QED  BY <2>1, <2>3, <4>1
    <3>5. CASE Calibrate
      <4>1. filter' = filter
        BY <3>5 DEF Calibrate, SetBias, SetCompassBias, SetGyroBias, SetAccelBias, SetFactoryBias,
                    GetTcSet, GetMessages, sampleRest, sampleVars, outVars
      <4>2. \A s \in Triads, b \in Biases : Recalibrated(s, b) =>
              ("contiguous" \in status'["compass"] => "contiguous" \in status["compass"])
        BY <2>0, Constants DEF Recalibrated
      <4>3. status' = status \/ \E s \in Triads, b \in Biases : Recalibrated(s, b)
        BY <3>5, Constants DEF Calibrate, SetBias, SetCompassBias, SetGyroBias, SetAccelBias, SetFactoryBias,
                    GetTcSet, GetMessages, sampleVars
      <4> QED  BY <2>1, <2>3, <4>1, <4>2, <4>3
    <3>6. CASE Tables
      <4>1. UNCHANGED <<filter, status>>
        BY <3>6 DEF Tables, builderVars, sampleVars, outVars
      <4> QED  BY <2>1, <2>3, <4>1
    <3> QED  BY <2>3, <3>1, <3>2, <3>3, <3>4, <3>5, <3>6 DEF BuilderNext
  <2> QED  BY <2>2, <2>3
<1>3. FieldInv => NoOldField
  BY DEF FieldInv
<1> QED  BY <1>1, <1>2, <1>3, PTL DEF BuilderSpec, HalStays
=============================================================================
