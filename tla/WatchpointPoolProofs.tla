------------------------ MODULE WatchpointPoolProofs ------------------------
(***************************************************************************)
(* Proofs about WatchpointPool for a pool of any size.  A list is followed *)
(* as the sequence of its entries (Path); what Walk computes by recursion  *)
(* is that sequence.                                                       *)
(***************************************************************************)
EXTENDS WatchpointPool, SequenceTheorems, FiniteSetTheorems, WellFoundedInduction, TLAPS

(* Every set of naturals has a least member. *)
LEMMA NatMin ==
  ASSUME NEW S \in SUBSET Nat, S # {}
  PROVE  \E m \in S : \A k \in S : m <= k
<1> DEFINE R == OpToRel(<, Nat)
<1>1. IsWellFoundedOn(R, Nat)
  BY NatLessThanWellFounded
<1>2. PICK x \in S : \A y \in S : ~(<<y, x>> \in R)
  <2> HIDE DEF R
  <2>1. S \subseteq Nat
    OBVIOUS
  <2>2. QED
    BY <1>1, <2>1, WFMin
<1>3. \A y \in S : ~(y < x)
  BY <1>2 DEF OpToRel
<1>4. QED
  BY <1>3

-----------------------------------------------------------------------------
(* Entry i of a sequence, and NULL behind its end. *)
Entry(s, i) == IF i \in 1 .. Len(s) THEN s[i] ELSE NULL

(* From h, the members next of nx lead through s and then to NULL. *)
Path(h, nx, s) ==
  /\ h = Entry(s, 1)
  /\ \A i \in 1 .. Len(s) : nx[s[i]] = Entry(s, i + 1)
  /\ \A i, j \in 1 .. Len(s) : s[i] = s[j] => i = j

(* The recursion of Walk follows the path. *)
LEMMA WalkIsPath ==
  ASSUME NEW s \in Seq(WP), NEW h, NEW nx, Path(h, nx, s), Len(s) <= NR_WP
  PROVE  Walk(nx, h, NR_WP) = s
<1> DEFINE at == CHOOSE f : f = [i \in 0 .. NR_WP |-> IF i = 0 THEN h ELSE IF f[i - 1] = NULL THEN NULL ELSE nx[f[i - 1]]]
           g == [i \in 0 .. NR_WP |-> Entry(s, i + 1)]
<1>0. NR_WP \in Nat /\ Len(s) \in Nat /\ (\A i \in 1 .. Len(s) : s[i] \in WP /\ s[i] # NULL)
  BY NR_WPAssumption DEF WP
<1>1. g = [i \in 0 .. NR_WP |-> IF i = 0 THEN h ELSE IF g[i - 1] = NULL THEN NULL ELSE nx[g[i - 1]]]
  <2>1. ASSUME NEW i \in 0 .. NR_WP
        PROVE  g[i] = IF i = 0 THEN h ELSE IF g[i - 1] = NULL THEN NULL ELSE nx[g[i - 1]]
    <3>1. CASE i = 0
      BY <3>1 DEF Path
    <3>2. CASE i # 0
      <4>1. i - 1 \in 0 .. NR_WP /\ (i - 1) + 1 = i
        BY <1>0, <3>2
      <4>2. g[i - 1] = Entry(s, i)
        BY <4>1
      <4>3. CASE i \in 1 .. Len(s)
        BY <1>0, <3>2, <4>2, <4>3 DEF Path, Entry
      <4>4. CASE i \notin 1 .. Len(s)
        <5>1. i + 1 \notin 1 .. Len(s)
          BY <1>0, <3>2, <4>4
        <5>2. QED
          BY <3>2, <4>2, <4>4, <5>1 DEF Entry
      <4>5. QED
        BY <4>3, <4>4
    <3>3. QED
      BY <3>1, <3>2
  <2>2. QED
    BY <2>1
<1>2. at = [i \in 0 .. NR_WP |-> IF i = 0 THEN h ELSE IF at[i - 1] = NULL THEN NULL ELSE nx[at[i - 1]]]
  BY <1>1
<1> HIDE DEF at
<1>3. \A i \in 0 .. NR_WP : at[i] = g[i]
  <2> DEFINE S == {i \in 0 .. NR_WP : at[i] # g[i]}
  <2>1. SUFFICES ASSUME S # {} PROVE FALSE
    OBVIOUS
  <2>2. S \in SUBSET Nat
    BY <1>0
  <2>3. PICK m \in S : \A k \in S : m <= k
    BY <2>1, <2>2, NatMin
  <2>4. m \in 0 .. NR_WP /\ at[m] # g[m]
    BY <2>3
  <2>5. m # 0
    BY <1>1, <1>2, <2>4
  <2>6. m - 1 \in 0 .. NR_WP /\ m - 1 \notin S
    BY <1>0, <2>3, <2>4, <2>5
  <2>7. at[m - 1] = g[m - 1]
    BY <2>6
  <2> HIDE DEF g, S
  <2>8. at[m] = IF at[m - 1] = NULL THEN NULL ELSE nx[at[m - 1]]
    BY <1>2, <2>4, <2>5
  <2>9. g[m] = IF g[m - 1] = NULL THEN NULL ELSE nx[g[m - 1]]
    BY <1>1, <2>4, <2>5
  <2>10. QED
    BY <2>4, <2>7, <2>8, <2>9
<1>4. Walk(nx, h, NR_WP) = [i \in 1 .. Cardinality({j \in 0 .. NR_WP : at[j] # NULL}) |-> at[i - 1]]
  BY DEF Walk, at
<1>5. {j \in 0 .. NR_WP : at[j] # NULL} = 0 .. Len(s) - 1
  <2>1. ASSUME NEW j \in 0 .. NR_WP PROVE at[j] # NULL <=> j + 1 \in 1 .. Len(s)
    BY <1>0, <1>3 DEF Entry
  <2>2. QED
    BY <1>0, <2>1
<1>6. Cardinality(0 .. Len(s) - 1) = Len(s)
  <2> DEFINE b == Len(s) - 1
  <2>1. b \in Int /\ 0 \in Int /\ (IF 0 > b THEN 0 ELSE b - 0 + 1) = Len(s)
    BY <1>0
  <2> HIDE DEF b
  <2>2. Cardinality(0 .. b) = IF 0 > b THEN 0 ELSE b - 0 + 1
    BY <2>1, FS_Interval
  <2>3. QED
    BY <2>1, <2>2 DEF b
<1>7. Walk(nx, h, NR_WP) = [i \in 1 .. Len(s) |-> at[i - 1]]
  BY <1>4, <1>5, <1>6
<1>8. \A i \in 1 .. Len(s) : at[i - 1] = s[i]
  BY <1>0, <1>3 DEF Entry
<1>9. s = [i \in 1 .. Len(s) |-> s[i]]
  OBVIOUS
<1>10. QED
  BY <1>7, <1>8, <1>9

-----------------------------------------------------------------------------
In(w, s) == \E i \in 1 .. Len(s) : s[i] = w

(* A store into an entry that is not on the list leaves the list alone. *)
LEMMA PathElsewhere ==
  ASSUME NEW s \in Seq(WP), NEW h, NEW nx \in [WP -> Ptr], Path(h, nx, s),
         NEW w \in WP, ~In(w, s), NEW v
  PROVE  Path(h, [nx EXCEPT ![w] = v], s)
<1>1. \A i \in 1 .. Len(s) : s[i] \in WP /\ s[i] # w
  BY DEF In
<1>2. QED
  BY <1>1 DEF Path

(* An entry put in front. *)
LEMMA PathCons ==
  ASSUME NEW s \in Seq(WP), NEW h, NEW nx \in [WP -> Ptr], Path(h, nx, s),
         NEW w \in WP, ~In(w, s), nx[w] = h
  PROVE  Path(w, nx, <<w>> \o s) /\ <<w>> \o s \in Seq(WP) /\ Len(<<w>> \o s) = Len(s) + 1
         /\ \A x : In(x, <<w>> \o s) <=> x = w \/ In(x, s)
<1> DEFINE t == <<w>> \o s
<1>1. t \in Seq(WP) /\ Len(t) = Len(s) + 1 /\ Len(s) \in Nat /\ t[1] = w
  OBVIOUS
<1>2. \A i \in 1 .. Len(s) : t[i + 1] = s[i]
  OBVIOUS
<1> HIDE DEF t
<1>3. \A i \in 1 .. Len(t) : i = 1 \/ (i - 1 \in 1 .. Len(s) /\ t[i] = s[i - 1])
  <2> SUFFICES ASSUME NEW i \in 1 .. Len(t), i # 1
               PROVE  i - 1 \in 1 .. Len(s) /\ t[i] = s[i - 1]
    OBVIOUS
  <2>1. i - 1 \in 1 .. Len(s) /\ (i - 1) + 1 = i
    BY <1>1
  <2>2. QED
    BY <1>2, <2>1
<1>4. \A x : In(x, t) <=> x = w \/ In(x, s)
  <2>1. ASSUME NEW x, In(x, t) PROVE x = w \/ In(x, s)
    BY <1>1, <1>3, <2>1 DEF In
  <2>2. In(w, t)
    <3>1. 1 \in 1 .. Len(t)
      BY <1>1
    <3>2. QED
      BY <1>1, <3>1 DEF In
  <2>3. ASSUME NEW x, In(x, s) PROVE In(x, t)
    <3>1. PICK i \in 1 .. Len(s) : s[i] = x
      BY <2>3 DEF In
    <3>2. i + 1 \in 1 .. Len(t)
      BY <1>1
    <3>3. QED
      BY <1>2, <3>1, <3>2 DEF In
  <2>4. QED
    BY <2>1, <2>2, <2>3
<1>5. \A i \in 1 .. Len(t) : Entry(t, i + 1) = Entry(s, i)
  <2> SUFFICES ASSUME NEW i \in 1 .. Len(t) PROVE Entry(t, i + 1) = Entry(s, i)
    OBVIOUS
  <2>1. i \in 1 .. Len(s) <=> i + 1 \in 1 .. Len(t)
    BY <1>1
  <2>2. QED
    BY <1>2, <2>1 DEF Entry
<1>6. w = Entry(t, 1)
  BY <1>1 DEF Entry
<1>7. ASSUME NEW i \in 1 .. Len(t) PROVE nx[t[i]] = Entry(t, i + 1)
  <2>1. CASE i = 1
    BY <1>1, <1>5, <2>1 DEF Path
  <2>2. CASE i # 1
    <3>1. i - 1 \in 1 .. Len(s) /\ t[i] = s[i - 1] /\ (i - 1) + 1 = i
      BY <1>1, <1>3, <2>2
    <3>2. nx[s[i - 1]] = Entry(s, i)
      BY <3>1 DEF Path
    <3>3. QED
      BY <1>5, <3>1, <3>2
  <2>3. QED
    BY <2>1, <2>2
<1>8. ASSUME NEW i \in 1 .. Len(t), NEW j \in 1 .. Len(t), t[i] = t[j] PROVE i = j
  <2>1. \A k \in 1 .. Len(s) : s[k] # w
    BY DEF In
  <2>2. CASE i = 1 \/ j = 1
    BY <1>1, <1>3, <1>8, <2>1, <2>2
  <2>3. CASE i # 1 /\ j # 1
    <3>1. i - 1 = j - 1
      BY <1>3, <1>8, <2>3 DEF Path
    <3>2. QED
      BY <1>1, <3>1
  <2>4. QED
    BY <2>2, <2>3
<1>9. Path(w, nx, t)
  BY <1>6, <1>7, <1>8 DEF Path
<1>10. QED
  BY <1>1, <1>4, <1>9 DEF t

(* The sequence without its entry k. *)
Without(s, k) == [i \in 1 .. Len(s) - 1 |-> IF i < k THEN s[i] ELSE s[i + 1]]

(* A list without one of its nodes is one shorter.                         *)
LEMMA WithoutType ==
  ASSUME NEW s \in Seq(WP), NEW k \in 1 .. Len(s)
  PROVE  /\ Without(s, k) \in Seq(WP) /\ Len(Without(s, k)) = Len(s) - 1
         /\ \A i \in 1 .. Len(s) - 1 : Without(s, k)[i] = IF i < k THEN s[i] ELSE s[i + 1]
<1>1. \A i \in 1 .. Len(s) - 1 : (IF i < k THEN s[i] ELSE s[i + 1]) \in WP
  OBVIOUS
<1>2. QED
  BY <1>1 DEF Without

(* It is what RemoveAt returns. *)
LEMMA WithoutRemoves ==
  ASSUME NEW s \in Seq(WP), NEW k \in 1 .. Len(s)
  PROVE  RemoveAt(s, k) = Without(s, k)
<1> DEFINE b == SubSeq(s, 1, k - 1)
           c == SubSeq(s, k + 1, Len(s))
           t == Without(s, k)
<1>1. Len(s) \in Nat /\ k \in Nat /\ k >= 1 /\ k <= Len(s)
  OBVIOUS
<1>2. b \in Seq(WP) /\ Len(b) = k - 1 /\ \A i \in 1 .. k - 1 : b[i] = s[i]
  OBVIOUS
<1>3. c \in Seq(WP) /\ Len(c) = Len(s) - k /\ \A i \in 1 .. Len(s) - k : c[i] = s[k + i]
  OBVIOUS
<1>4. /\ t \in Seq(WP) /\ Len(t) = Len(s) - 1
      /\ \A i \in 1 .. Len(s) - 1 : t[i] = IF i < k THEN s[i] ELSE s[i + 1]
  BY WithoutType
<1> HIDE DEF b, c, t
<1>5. /\ b \o c \in Seq(WP) /\ Len(b \o c) = Len(b) + Len(c)
      /\ \A i \in 1 .. Len(b) : (b \o c)[i] = b[i]
      /\ \A i \in 1 .. Len(c) : (b \o c)[Len(b) + i] = c[i]
  <2>1. b \in Seq(WP) /\ c \in Seq(WP)
    BY <1>2, <1>3
  <2>2. QED
    BY ONLY <2>1
<1>6. Len(b \o c) = Len(t)
  BY <1>1, <1>2, <1>3, <1>4, <1>5
<1>7. ASSUME NEW i \in 1 .. Len(t) PROVE (b \o c)[i] = t[i]
  <2>1. CASE i < k
    <3>1. i \in 1 .. k - 1 /\ i \in 1 .. Len(b) /\ i \in 1 .. Len(s) - 1
      BY <1>1, <1>2, <1>4, <2>1
    <3>2. QED
      BY <1>2, <1>4, <1>5, <2>1, <3>1
  <2>2. CASE ~(i < k)
    <3>1. PICK j \in 1 .. Len(s) - k : i = (k - 1) + j
      <4>1. i - (k - 1) \in 1 .. Len(s) - k /\ i = (k - 1) + (i - (k - 1))
        BY <1>1, <1>4, <2>2
      <4>2. QED
        BY <4>1
    <3>2. (b \o c)[i] = s[k + j]
      BY <1>2, <1>3, <1>5, <3>1
    <3>3. t[i] = s[i + 1] /\ i + 1 = k + j
      BY <1>1, <1>4, <2>2, <3>1
    <3>4. QED
      BY <3>2, <3>3
  <2>3. QED
    BY <2>1, <2>2
<1>8. b \o c = t
  BY <1>4, <1>5, <1>6, <1>7, SeqEqual
<1>9. QED
  BY <1>8 DEF RemoveAt, b, c, t

(* unlink: the list without entry k, when the entry before it, or the head, *)
(* is made to point behind it.                                             *)
LEMMA PathWithout ==
  ASSUME NEW s \in Seq(WP), NEW h, NEW nx \in [WP -> Ptr], Path(h, nx, s),
         NEW k \in 1 .. Len(s), NEW h2, NEW nx2,
         IF k = 1 THEN h2 = nx[s[k]] /\ nx2 = nx
                  ELSE h2 = h /\ nx2 = [nx EXCEPT ![s[k - 1]] = nx[s[k]]]
  PROVE  /\ Path(h2, nx2, Without(s, k))
         /\ \A x : In(x, Without(s, k)) <=> In(x, s) /\ x # s[k]
<1> DEFINE t == Without(s, k)
<1>1. Len(s) \in Nat /\ k \in Nat /\ k >= 1 /\ k <= Len(s) /\ \A i \in 1 .. Len(s) : s[i] \in WP
  OBVIOUS
<1>2. /\ t \in Seq(WP) /\ Len(t) = Len(s) - 1
      /\ \A i \in 1 .. Len(s) - 1 : t[i] = IF i < k THEN s[i] ELSE s[i + 1]
  BY WithoutType
<1> HIDE DEF t
<1>3. \A i, j \in 1 .. Len(s) : s[i] = s[j] => i = j
  BY DEF Path
<1>4. ASSUME NEW i \in 1 .. Len(s) PROVE Entry(t, i) = IF i < k THEN Entry(s, i) ELSE Entry(s, i + 1)
  <2>1. CASE i < k
    <3>1. i \in 1 .. Len(s) - 1 /\ i \in 1 .. Len(t)
      BY <1>1, <1>2, <2>1
    <3>2. QED
      BY <1>2, <2>1, <3>1 DEF Entry
  <2>2. CASE ~(i < k)
    <3>1. i \in 1 .. Len(t) <=> i + 1 \in 1 .. Len(s)
      BY <1>1, <1>2
    <3>2. QED
      BY <1>2, <2>2, <3>1 DEF Entry
  <2>3. QED
    BY <2>1, <2>2
<1>5. ASSUME NEW x PROVE In(x, t) <=> In(x, s) /\ x # s[k]
  <2>1. ASSUME In(x, t) PROVE In(x, s) /\ x # s[k]
    <3>1. PICK i \in 1 .. Len(s) - 1 : x = IF i < k THEN s[i] ELSE s[i + 1]
      BY <1>2, <2>1 DEF In
    <3>2. PICK j \in 1 .. Len(s) : x = s[j] /\ j # k
      <4>1. i \in 1 .. Len(s) /\ i + 1 \in 1 .. Len(s) /\ (i < k => i # k) /\ (~(i < k) => i + 1 # k)
        BY <1>1
      <4>2. QED
        BY <3>1, <4>1
    <3>3. QED
      BY <1>1, <1>3, <3>2 DEF In
  <2>2. ASSUME In(x, s), x # s[k] PROVE In(x, t)
    <3>1. PICK j \in 1 .. Len(s) : x = s[j] /\ j # k
      BY <2>2 DEF In
    <3>2. CASE j < k
      <4>1. j \in 1 .. Len(s) - 1 /\ j \in 1 .. Len(t)
        BY <1>1, <1>2, <3>2
      <4>2. QED
        BY <1>2, <3>1, <3>2, <4>1 DEF In
    <3>3. CASE j > k
      <4>1. j - 1 \in 1 .. Len(s) - 1 /\ j - 1 \in 1 .. Len(t) /\ ~(j - 1 < k) /\ (j - 1) + 1 = j
        BY <1>1, <1>2, <3>3
      <4>2. QED
        BY <1>2, <3>1, <4>1 DEF In
    <3>4. QED
      BY <1>1, <3>1, <3>2, <3>3
  <2>3. QED
    BY <2>1, <2>2
<1>6. h2 = Entry(t, 1)
  <2>0. 1 \in 1 .. Len(s)
    BY <1>1
  <2>1. CASE k = 1
    <3>1. nx[s[1]] = Entry(s, 1 + 1)
      BY <2>0 DEF Path
    <3>2. QED
      BY <1>4, <2>0, <2>1, <3>1
  <2>2. CASE k # 1
    <3>1. 1 < k
      BY <1>1, <2>2
    <3>2. QED
      BY <1>4, <2>0, <2>2, <3>1 DEF Path
  <2>3. QED
    BY <2>1, <2>2
<1>7. ASSUME NEW i \in 1 .. Len(t) PROVE nx2[t[i]] = Entry(t, i + 1)
  <2>0. i \in 1 .. Len(s) - 1 /\ i \in 1 .. Len(s) /\ i + 1 \in 1 .. Len(s)
    BY <1>1, <1>2
  <2>1. CASE k = 1 \/ i >= k
    <3>1. t[i] = s[i + 1]
      BY <1>1, <1>2, <2>0, <2>1
    <3>2. nx[s[i + 1]] = Entry(s, (i + 1) + 1)
      BY <2>0 DEF Path
    <3>3. Entry(t, i + 1) = Entry(s, (i + 1) + 1)
      <4>1. ~(i + 1 < k)
        BY <1>1, <2>0, <2>1
      <4>2. QED
        BY <1>4, <2>0, <4>1
    <3>4. nx2[s[i + 1]] = nx[s[i + 1]]
      <4>1. CASE k # 1
        <5>1. k - 1 \in 1 .. Len(s) /\ k - 1 # i + 1
          BY <1>1, <2>0, <2>1, <4>1
        <5>2. s[k - 1] # s[i + 1] /\ s[i + 1] \in WP
          BY <1>1, <1>3, <2>0, <5>1
        <5>3. QED
          BY <4>1, <5>2
      <4>2. QED
        BY <4>1
    <3>5. QED
      BY <3>1, <3>2, <3>3, <3>4
  <2>2. CASE k # 1 /\ i < k - 1
    <3>1. t[i] = s[i] /\ i + 1 < k /\ k - 1 \in 1 .. Len(s) /\ k - 1 # i
      BY <1>1, <1>2, <2>0, <2>2
    <3>2. nx[s[i]] = Entry(s, i + 1) /\ Entry(t, i + 1) = Entry(s, i + 1)
      BY <1>4, <2>0, <3>1 DEF Path
    <3>3. s[k - 1] # s[i] /\ s[i] \in WP
      BY <1>1, <1>3, <2>0, <3>1
    <3>4. QED
      BY <2>2, <3>1, <3>2, <3>3
  <2>3. CASE k # 1 /\ i = k - 1
    <3>1. t[i] = s[k - 1] /\ i + 1 = k /\ s[k - 1] \in WP
      BY <1>1, <1>2, <2>0, <2>3
    <3>2. nx[s[k]] = Entry(s, k + 1) /\ Entry(t, k) = Entry(s, k + 1)
      BY <1>1, <1>4 DEF Path
    <3>3. nx2[s[k - 1]] = nx[s[k]]
      BY <2>3, <3>1
    <3>4. QED
      BY <3>1, <3>2, <3>3
  <2>4. QED
    BY <1>1, <2>0, <2>1, <2>2, <2>3
<1>8. ASSUME NEW i \in 1 .. Len(t), NEW j \in 1 .. Len(t), t[i] = t[j] PROVE i = j
  <2>0. i \in 1 .. Len(s) - 1 /\ j \in 1 .. Len(s) - 1
    BY <1>2
  <2>1. i \in 1 .. Len(s) /\ i + 1 \in 1 .. Len(s) /\ j \in 1 .. Len(s) /\ j + 1 \in 1 .. Len(s)
    BY <1>1, <2>0
  <2>2. (IF i < k THEN s[i] ELSE s[i + 1]) = (IF j < k THEN s[j] ELSE s[j + 1])
    BY <1>2, <1>8, <2>0
  <2>3. (IF i < k THEN i ELSE i + 1) = (IF j < k THEN j ELSE j + 1)
    BY <1>3, <2>1, <2>2
  <2>4. QED
    BY <1>1, <2>1, <2>3
<1>9. Path(h2, nx2, t)
  BY <1>6, <1>7, <1>8 DEF Path
<1>10. QED
  BY <1>5, <1>9 DEF t

(* Moving the head past the first node leaves the rest a list.             *)
LEMMA PathWithoutFirst ==
  ASSUME NEW s \in Seq(WP), NEW h, NEW nx \in [WP -> Ptr], Path(h, nx, s), 1 \in 1 .. Len(s)
  PROVE  /\ Path(nx[s[1]], nx, Without(s, 1))
         /\ \A x : In(x, Without(s, 1)) <=> In(x, s) /\ x # s[1]
<1>1. \A k \in 1 .. Len(s) : \A h2, nx2 :
        (IF k = 1 THEN h2 = nx[s[k]] /\ nx2 = nx
                  ELSE h2 = h /\ nx2 = [nx EXCEPT ![s[k - 1]] = nx[s[k]]])
        => /\ Path(h2, nx2, Without(s, k))
           /\ \A x : In(x, Without(s, k)) <=> In(x, s) /\ x # s[k]
  BY PathWithout
<1>2. QED
  BY <1>1

(* Unlinking a later node leaves the rest a list.                          *)
LEMMA PathWithoutLater ==
  ASSUME NEW s \in Seq(WP), NEW h, NEW nx \in [WP -> Ptr], Path(h, nx, s),
         NEW k \in 1 .. Len(s), k # 1
  PROVE  /\ Path(h, [nx EXCEPT ![s[k - 1]] = nx[s[k]]], Without(s, k))
         /\ \A x : In(x, Without(s, k)) <=> In(x, s) /\ x # s[k]
<1>1. \A i \in 1 .. Len(s) : \A h2, nx2 :
        (IF i = 1 THEN h2 = nx[s[i]] /\ nx2 = nx
                  ELSE h2 = h /\ nx2 = [nx EXCEPT ![s[i - 1]] = nx[s[i]]])
        => /\ Path(h2, nx2, Without(s, i))
           /\ \A x : In(x, Without(s, i)) <=> In(x, s) /\ x # s[i]
  BY PathWithout
<1> DEFINE n2 == [nx EXCEPT ![s[k - 1]] = nx[s[k]]]
<1>2. IF k = 1 THEN h = nx[s[k]] /\ n2 = nx
               ELSE h = h /\ n2 = [nx EXCEPT ![s[k - 1]] = nx[s[k]]]
  OBVIOUS
<1> HIDE DEF n2
<1>3. /\ Path(h, n2, Without(s, k))
      /\ \A x : In(x, Without(s, k)) <=> In(x, s) /\ x # s[k]
  BY <1>1, <1>2
<1>4. QED
  BY <1>3 DEF n2

-----------------------------------------------------------------------------
(***************************************************************************)
(* The inductive invariant: a and f are the active and the idle list.      *)
(* While delete_wp searches, wp and prev are neighbours in the active      *)
(* list; while free_wp searches for the entry that is in neither list,     *)
(* prev is in the active one, so that it is never found.                   *)
(***************************************************************************)
Threaded(a, f) == Path(head, next, a) /\ Path(free_, next, f)

Parted(a, f) ==
  /\ \A w \in WP : In(w, a) => ~In(w, f)
  /\ \A w \in WP : In(w, a) \/ In(w, f) \/ w \in InHand
  /\ \A w \in InHand : w \in WP /\ ~In(w, a) /\ ~In(w, f)
  /\ Len(a) + Len(f) = NR_WP - (IF InHand = {} THEN 0 ELSE 1)
  /\ \A w \in WP : strdup[w] <=> In(w, a) \/ w \in InHand

Searching(a) ==
  /\ pc = "search" => \E i \in 1 .. Len(a) + 1 : wp = Entry(a, i) /\ prev = Entry(a, i - 1)
  /\ pc = "find" => prev = NULL \/ In(prev, a)

Shape(a, f) == Threaded(a, f) /\ Parted(a, f) /\ Searching(a)

IInv == TypeOK /\ \E a, f \in Seq(WP) : Shape(a, f)

(* An entry of a list, or NULL behind its end, is a pointer.               *)
LEMMA EntryType ==
  ASSUME NEW s \in Seq(WP), NEW i
  PROVE  Entry(s, i) \in Ptr
BY DEF Entry, Ptr

(* new_wp moves the first idle entry to the front of the active list. *)
LEMMA AddStep ==
  ASSUME TypeOK, NEW a \in Seq(WP), NEW f \in Seq(WP), Shape(a, f), add_wp, free_ # NULL
  PROVE  /\ TypeOK' /\ Without(f, 1) \in Seq(WP)
         /\ \E w \in WP : /\ ~In(w, a) /\ <<w>> \o a \in Seq(WP)
                          /\ Shape(<<w>> \o a, Without(f, 1))'
<1>0. PICK w \in WP : w = free_
  BY DEF TypeOK, Ptr
<1> DEFINE a2 == <<w>> \o a
           f2 == Without(f, 1)
<1>1. /\ pc = "idle" /\ free_' = next[w] /\ next' = [next EXCEPT ![w] = head] /\ head' = w
      /\ strdup' = [strdup EXCEPT ![w] = TRUE] /\ UNCHANGED <<pc, wp, prev, no>>
  BY <1>0 DEF add_wp, new_wp
<1>2. next \in [WP -> Ptr] /\ w \in WP /\ head \in Ptr /\ strdup \in [WP -> BOOLEAN]
  BY DEF TypeOK, Ptr
<1>3. 1 \in 1 .. Len(f) /\ w = f[1] /\ Len(f) \in Nat /\ Len(a) \in Nat
  BY <1>0 DEF Shape, Threaded, Path, Entry
<1>4. In(w, f) /\ ~In(w, a)
  BY <1>2, <1>3 DEF In, Shape, Parted
<1>5. Path(head, next', a)
  BY <1>1, <1>2, <1>4, PathElsewhere DEF Shape, Threaded
<1>6. next' \in [WP -> Ptr] /\ next'[w] = head
  BY <1>1, <1>2
<1>7. /\ Path(w, next', a2) /\ a2 \in Seq(WP) /\ Len(a2) = Len(a) + 1
      /\ \A x : In(x, a2) <=> x = w \/ In(x, a)
  BY <1>2, <1>4, <1>5, <1>6, PathCons
<1>8. /\ Path(next[w], next, f2) /\ f2 \in Seq(WP) /\ Len(f2) = Len(f) - 1
      /\ \A x : In(x, f2) <=> In(x, f) /\ x # w
  <2>1. Path(free_, next, f) /\ next[w] = next[f[1]]
    BY <1>3 DEF Shape, Threaded
  <2>2. Path(next[w], next, f2) /\ \A x : In(x, f2) <=> In(x, f) /\ x # f[1]
    BY <1>2, <1>3, <2>1, PathWithoutFirst
  <2>3. QED
    BY <1>3, <2>2, WithoutType
<1>9. Path(next[w], next', f2)
  BY <1>1, <1>2, <1>8, PathElsewhere
<1> HIDE DEF a2, f2
<1>10. Threaded(a2, f2)'
  <2>1. Path(head', next', a2) /\ Path(free_', next', f2)
    BY <1>1, <1>7, <1>9
  <2>2. QED
    BY <2>1 DEF Threaded, Path, Entry
<1>11. InHand = {} /\ InHand' = {}
  BY <1>1 DEF InHand
<1>12. Parted(a2, f2)'
  <2>1. \A x \in WP : In(x, a2) => ~In(x, f2)
    BY <1>7, <1>8 DEF Shape, Parted
  <2>2. \A x \in WP : In(x, a2) \/ In(x, f2)
    BY <1>7, <1>8, <1>11 DEF Shape, Parted
  <2>3. Len(a2) + Len(f2) = NR_WP
    <3>1. Len(a) + Len(f) = NR_WP
      BY <1>11, NR_WPAssumption DEF Shape, Parted
    <3>2. QED
      BY <1>3, <1>7, <1>8, <3>1
  <2>4. \A x \in WP : strdup'[x] <=> In(x, a2)
    BY <1>1, <1>2, <1>7, <1>11 DEF Shape, Parted
  <2>5. QED
    BY <1>11, <2>1, <2>2, <2>3, <2>4, NR_WPAssumption DEF Parted, In
<1>13. Searching(a2)'
  BY <1>1 DEF Searching
<1>14. TypeOK'
  <2>1. free_' \in Ptr /\ head' \in Ptr
    BY <1>1, <1>2 DEF Ptr
  <2>2. strdup' \in [WP -> BOOLEAN]
    BY <1>1, <1>2
  <2>3. QED
    BY <1>1, <1>6, <2>1, <2>2 DEF TypeOK
<1>15. QED
  BY <1>2, <1>3, <1>4, <1>7, <1>8, <1>10, <1>12, <1>13, <1>14 DEF Shape, a2, f2

(* unlink takes the entry that was found off the active list. *)
LEMMA UnlinkStep ==
  ASSUME TypeOK, NEW a \in Seq(WP), NEW f \in Seq(WP), Shape(a, f), unlink
  PROVE  \E k \in 1 .. Len(a) : TypeOK' /\ Without(a, k) \in Seq(WP) /\ Shape(Without(a, k), f)'
<1>1. /\ pc = "search" /\ pc' = "free" /\ wp # NULL /\ UNCHANGED <<free_, strdup, wp, prev, no>>
      /\ IF prev = NULL THEN head' = next[wp] /\ next' = next
                        ELSE next' = [next EXCEPT ![prev] = next[wp]] /\ head' = head
  BY DEF unlink
<1>2. next \in [WP -> Ptr] /\ wp \in WP /\ NULL \notin WP
  BY <1>1, NR_WPAssumption DEF TypeOK, Ptr, WP
<1>3. PICK k \in 1 .. Len(a) + 1 : wp = Entry(a, k) /\ prev = Entry(a, k - 1)
  BY <1>1 DEF Shape, Searching
<1>4. k \in 1 .. Len(a) /\ wp = a[k]
  BY <1>1, <1>3 DEF Entry
<1>5. Len(a) \in Nat /\ Len(f) \in Nat /\ \A i \in 1 .. Len(a) : a[i] \in WP
  OBVIOUS
<1> DEFINE a2 == Without(a, k)
<1>6. IF k = 1 THEN prev = NULL ELSE k - 1 \in 1 .. Len(a) /\ prev = a[k - 1] /\ prev # NULL /\ prev \in WP
  <2>1. CASE k = 1
    BY <1>3, <2>1 DEF Entry
  <2>2. CASE k # 1
    <3>1. k - 1 \in 1 .. Len(a)
      BY <1>4, <1>5, <2>2
    <3>2. QED
      BY <1>2, <1>3, <1>5, <2>2, <3>1 DEF Entry
  <2>3. QED
    BY <2>1, <2>2
<1>7. Path(head', next', a2) /\ \A x : In(x, a2) <=> In(x, a) /\ x # wp
  <2>1. Path(head, next, a)
    BY DEF Shape, Threaded
  <2>2. CASE k = 1
    <3>1. head' = next[a[1]] /\ next' = next
      BY <1>1, <1>4, <1>6, <2>2
    <3>2. QED
      BY <1>2, <1>4, <2>1, <2>2, <3>1, PathWithoutFirst
  <2>3. CASE k # 1
    <3>1. head' = head /\ next' = [next EXCEPT ![a[k - 1]] = next[a[k]]]
      BY <1>1, <1>4, <1>6, <2>3
    <3>2. QED
      BY <1>2, <1>4, <2>1, <2>3, <3>1, PathWithoutLater
  <2>4. QED
    BY <2>2, <2>3
<1>8. a2 \in Seq(WP) /\ Len(a2) = Len(a) - 1
  BY <1>4, WithoutType
<1> HIDE DEF a2
<1>9. In(wp, a) /\ ~In(wp, f)
  BY <1>2, <1>4 DEF In, Shape, Parted
<1>10. Path(free_, next', f)
  <2>1. CASE k = 1
    BY <1>1, <1>6, <2>1 DEF Shape, Threaded
  <2>2. CASE k # 1
    <3>1. ~In(prev, f)
      BY <1>6, <2>2 DEF In, Shape, Parted
    <3>2. prev \in WP /\ next' = [next EXCEPT ![prev] = next[wp]] /\ Path(free_, next, f)
      BY <1>1, <1>6, <2>2 DEF Shape, Threaded
    <3>3. QED
      BY <1>2, <3>1, <3>2, PathElsewhere
  <2>3. QED
    BY <2>1, <2>2
<1>11. Threaded(a2, f)'
  <2>1. Path(head', next', a2) /\ Path(free_', next', f)
    BY <1>1, <1>7, <1>10
  <2>2. QED
    BY <2>1 DEF Threaded, Path, Entry
<1>12. InHand = {} /\ InHand' = {wp}
  BY <1>1 DEF InHand
<1>13. Parted(a2, f)'
  <2>1. \A x \in WP : In(x, a2) => ~In(x, f)
    BY <1>7 DEF Shape, Parted
  <2>2. \A x \in WP : In(x, a2) \/ In(x, f) \/ x = wp
    BY <1>7, <1>12 DEF Shape, Parted
  <2>3. Len(a2) + Len(f) = NR_WP - 1
    BY <1>5, <1>8, <1>12, NR_WPAssumption DEF Shape, Parted
  <2>4. \A x \in WP : strdup'[x] <=> In(x, a2) \/ x = wp
    BY <1>1, <1>7, <1>9, <1>12 DEF Shape, Parted
  <2>5. ~In(wp, a2) /\ ~In(wp, f)
    BY <1>7, <1>9
  <2>6. QED
    BY <1>2, <1>12, <2>1, <2>2, <2>3, <2>4, <2>5 DEF Parted, In
<1>14. Searching(a2)'
  BY <1>1 DEF Searching
<1>15. TypeOK'
  <2>1. next' \in [WP -> Ptr] /\ head' \in Ptr
    BY <1>1, <1>2 DEF TypeOK
  <2>2. QED
    BY <1>1, <2>1 DEF TypeOK
<1>16. QED
  BY <1>4, <1>8, <1>11, <1>13, <1>14, <1>15 DEF Shape, a2

(* push_free puts the entry in hand on the idle list. *)
LEMMA PushStep ==
  ASSUME TypeOK, NEW a \in Seq(WP), NEW f \in Seq(WP), Shape(a, f), push_free
  PROVE  TypeOK' /\ \E f2 \in Seq(WP) : Shape(a, f2)'
<1>0. PICK w \in WP : w = wp
  BY DEF push_free, Shape, Parted, InHand
<1> DEFINE f2 == <<w>> \o f
<1>1. /\ pc = "push" /\ pc' = "idle" /\ free_' = w /\ next' = [next EXCEPT ![w] = free_]
      /\ strdup' = [strdup EXCEPT ![w] = FALSE] /\ UNCHANGED <<head, wp, prev, no>>
  BY <1>0 DEF push_free
<1>2. next \in [WP -> Ptr] /\ free_ \in Ptr /\ strdup \in [WP -> BOOLEAN]
  BY DEF TypeOK
<1>3. InHand = {w} /\ InHand' = {} /\ Len(a) \in Nat /\ Len(f) \in Nat
  BY <1>0, <1>1 DEF InHand
<1>4. ~In(w, a) /\ ~In(w, f)
  BY <1>3 DEF Shape, Parted
<1>5. Path(head, next', a) /\ Path(free_, next', f)
  BY <1>1, <1>2, <1>4, PathElsewhere DEF Shape, Threaded
<1>6. next' \in [WP -> Ptr] /\ next'[w] = free_
  BY <1>1, <1>2
<1>7. /\ Path(w, next', f2) /\ f2 \in Seq(WP) /\ Len(f2) = Len(f) + 1
      /\ \A x : In(x, f2) <=> x = w \/ In(x, f)
  BY <1>4, <1>5, <1>6, PathCons
<1> HIDE DEF f2
<1>8. Threaded(a, f2)'
  <2>1. Path(head', next', a) /\ Path(free_', next', f2)
    BY <1>1, <1>5, <1>7
  <2>2. QED
    BY <2>1 DEF Threaded, Path, Entry
<1>9. Parted(a, f2)'
  <2>1. \A x \in WP : In(x, a) => ~In(x, f2)
    BY <1>4, <1>7 DEF Shape, Parted
  <2>2. \A x \in WP : In(x, a) \/ In(x, f2)
    BY <1>3, <1>7 DEF Shape, Parted
  <2>3. Len(a) + Len(f2) = NR_WP
    <3>1. Len(a) + Len(f) = NR_WP - 1
      BY <1>3 DEF Shape, Parted
    <3>2. QED
      BY <1>3, <1>7, <3>1, NR_WPAssumption
  <2>4. \A x \in WP : strdup'[x] <=> In(x, a)
    BY <1>1, <1>2, <1>3, <1>4 DEF Shape, Parted
  <2>5. QED
    BY <1>3, <2>1, <2>2, <2>3, <2>4, NR_WPAssumption DEF Parted, In
<1>10. Searching(a)'
  BY <1>1 DEF Searching
<1>11. TypeOK'
  <2>1. free_' \in Ptr
    BY <1>1 DEF Ptr
  <2>2. strdup' \in [WP -> BOOLEAN]
    BY <1>1, <1>2
  <2>3. QED
    BY <1>1, <1>6, <2>1, <2>2 DEF TypeOK
<1>12. QED
  BY <1>7, <1>8, <1>9, <1>10, <1>11 DEF Shape

(* free_wp and its search change neither list: the entry is on none. *)
LEMMA SearchStep ==
  ASSUME TypeOK, NEW a \in Seq(WP), NEW f \in Seq(WP), Shape(a, f),
         not_found \/ advance \/ free_wp \/ find_prev \/ found_prev
         \/ (add_wp /\ free_ = NULL) \/ \E k \in -1 .. NR_WP : delete_wp(k)
  PROVE  TypeOK' /\ Shape(a, f)' /\ UNCHANGED lists
<1>0. /\ head \in Ptr /\ free_ \in Ptr /\ next \in [WP -> Ptr] /\ wp \in Ptr /\ prev \in Ptr
      /\ NULL \notin WP /\ Len(a) \in Nat /\ NR_WP \in Nat
      /\ \A i \in 1 .. Len(a) : a[i] \in WP
  BY NR_WPAssumption DEF TypeOK, WP
<1>1. ASSUME UNCHANGED <<lists, strdup>>, InHand' = InHand, Searching(a)'
      PROVE  Shape(a, f)' /\ UNCHANGED lists
  BY <1>1 DEF Shape, Threaded, Parted, Path, Entry, In, lists
<1>2. CASE not_found
  <2>1. UNCHANGED <<lists, strdup, wp, prev, no>> /\ pc = "search" /\ pc' = "idle"
    BY <1>2 DEF not_found
  <2>2. InHand' = InHand /\ Searching(a)'
    BY <2>1 DEF InHand, Searching
  <2>3. TypeOK'
    BY <2>1 DEF TypeOK, lists
  <2>4. QED
    BY <1>1, <2>1, <2>2, <2>3
<1>3. CASE advance
  <2>1. /\ UNCHANGED <<lists, strdup, pc, no>> /\ pc = "search" /\ wp # NULL
        /\ prev' = wp /\ wp' = next[wp]
    BY <1>3 DEF advance
  <2>2. PICK i \in 1 .. Len(a) + 1 : wp = Entry(a, i) /\ prev = Entry(a, i - 1)
    BY <2>1 DEF Shape, Searching
  <2>3. i \in 1 .. Len(a) /\ wp = a[i]
    BY <2>1, <2>2 DEF Entry
  <2>4. next[wp] = Entry(a, i + 1)
    BY <2>3 DEF Shape, Threaded, Path
  <2>5. i + 1 \in 1 .. Len(a) + 1 /\ (i + 1) - 1 = i
    BY <1>0, <2>3
  <2>6. Searching(a)'
    BY <2>1, <2>2, <2>4, <2>5 DEF Searching, Entry
  <2>7. InHand' = InHand
    BY <2>1 DEF InHand
  <2>8. TypeOK'
    <3>1. wp' \in Ptr /\ prev' \in Ptr
      BY <1>0, <2>1, <2>4, EntryType
    <3>2. QED
      BY <2>1, <3>1 DEF TypeOK, lists
  <2>9. QED
    BY <1>1, <2>1, <2>6, <2>7, <2>8
<1>4. CASE free_wp
  <2>1. pc = "free" /\ wp \in WP /\ ~In(wp, a)
    BY <1>4 DEF free_wp, Shape, Parted, InHand
  <2>2. head # wp /\ (head = NULL \/ In(head, a))
    <3>1. head = Entry(a, 1)
      BY DEF Shape, Threaded, Path
    <3>2. QED
      BY <1>0, <2>1, <3>1 DEF Entry, In
  <2>3. UNCHANGED <<lists, strdup, wp, no>> /\ prev' = head /\ pc' = "find"
    BY <1>4, <2>2 DEF free_wp, lists
  <2>4. Searching(a)' /\ InHand' = InHand
    BY <2>1, <2>2, <2>3 DEF Searching, InHand, In, lists
  <2>5. TypeOK'
    BY <1>0, <2>3 DEF TypeOK, lists
  <2>6. QED
    BY <1>1, <2>3, <2>4, <2>5
<1>5. CASE find_prev
  <2>1. UNCHANGED <<lists, strdup, pc, wp, no>> /\ pc = "find" /\ prev # NULL /\ prev' = next[prev]
    BY <1>5 DEF find_prev
  <2>2. PICK i \in 1 .. Len(a) : a[i] = prev
    BY <2>1 DEF Shape, Searching, In
  <2>3. next[prev] = Entry(a, i + 1)
    BY <2>2 DEF Shape, Threaded, Path
  <2>4. prev' \in Ptr /\ (prev' = NULL \/ In(prev', a))
    BY <2>1, <2>3, EntryType DEF Entry, In
  <2>5. Searching(a)' /\ InHand' = InHand
    BY <2>1, <2>4 DEF Searching, InHand, In
  <2>6. TypeOK'
    BY <2>1, <2>4 DEF TypeOK, lists
  <2>7. QED
    BY <1>1, <2>1, <2>5, <2>6
<1>6. CASE found_prev
  <2>1. pc = "find" /\ wp \in WP /\ ~In(wp, a)
    BY <1>6 DEF found_prev, Shape, Parted, InHand
  <2>2. prev = NULL
    <3>1. SUFFICES ASSUME prev # NULL PROVE FALSE
      OBVIOUS
    <3>2. PICK i \in 1 .. Len(a) : a[i] = prev
      BY <2>1, <3>1 DEF Shape, Searching, In
    <3>3. next[prev] = Entry(a, i + 1)
      BY <3>2 DEF Shape, Threaded, Path
    <3>4. Entry(a, i + 1) # wp
      BY <1>0, <2>1 DEF Entry, In
    <3>5. QED
      BY <1>6, <3>1, <3>3, <3>4 DEF found_prev
  <2>3. UNCHANGED <<lists, strdup, wp, prev, no>> /\ pc' = "push"
    BY <1>6, <2>2 DEF found_prev, lists
  <2>4. Searching(a)' /\ InHand' = InHand
    BY <2>1, <2>3 DEF Searching, InHand
  <2>5. TypeOK'
    BY <2>3 DEF TypeOK, lists
  <2>6. QED
    BY <1>1, <2>3, <2>4, <2>5
<1>7. CASE add_wp /\ free_ = NULL
  <2>1. UNCHANGED <<lists, strdup, wp, prev, no>> /\ pc = "idle" /\ pc' = "dead"
    BY <1>7 DEF add_wp
  <2>2. InHand' = InHand /\ Searching(a)'
    BY <2>1 DEF InHand, Searching
  <2>3. TypeOK'
    BY <2>1 DEF TypeOK, lists
  <2>4. QED
    BY <1>1, <2>1, <2>2, <2>3
<1>8. ASSUME NEW k \in -1 .. NR_WP, delete_wp(k)
      PROVE  TypeOK' /\ Shape(a, f)' /\ UNCHANGED lists
  <2>1. UNCHANGED <<lists, strdup>> /\ pc = "idle"
    BY <1>8 DEF delete_wp
  <2>2. CASE k < NR_WP
    <3>1. pc' = "search" /\ wp' = head /\ prev' = NULL /\ no' = k
      BY <1>8, <2>2 DEF delete_wp
    <3>2. head = Entry(a, 1) /\ Entry(a, 1 - 1) = NULL /\ 1 \in 1 .. Len(a) + 1
      BY <1>0 DEF Shape, Threaded, Path, Entry
    <3>3. Searching(a)'
      BY <3>1, <3>2 DEF Searching, Entry
    <3>4. InHand' = InHand
      BY <2>1, <3>1 DEF InHand
    <3>5. TypeOK'
      BY <1>0, <2>1, <2>2, <3>1 DEF TypeOK, lists, Ptr
    <3>6. QED
      BY <1>1, <2>1, <3>3, <3>4, <3>5
  <2>3. CASE ~(k < NR_WP)
    <3>1. pc' = "dead" /\ UNCHANGED <<wp, prev, no>>
      BY <1>8, <2>3 DEF delete_wp
    <3>2. InHand' = InHand /\ Searching(a)'
      BY <2>1, <3>1 DEF InHand, Searching
    <3>3. TypeOK'
      BY <2>1, <3>1 DEF TypeOK, lists
    <3>4. QED
      BY <1>1, <2>1, <3>2, <3>3
  <2>4. QED
    BY <2>2, <2>3
<1>9. QED
  BY <1>2, <1>3, <1>4, <1>5, <1>6, <1>7, <1>8

-----------------------------------------------------------------------------
(* init_wp_pool: all entries are idle. *)
LEMMA InitShape == Init => IInv
<1> SUFFICES ASSUME Init PROVE IInv
  OBVIOUS
<1> DEFINE f == [i \in 1 .. NR_WP |-> i - 1]
<1>0. NR_WP \in Nat /\ NR_WP >= 1 /\ NULL \notin WP
  BY NR_WPAssumption DEF WP
<1>1. f \in Seq(WP) /\ Len(f) = NR_WP /\ \A i \in 1 .. NR_WP : f[i] = i - 1
  BY <1>0 DEF WP
<1>2. <<>> \in Seq(WP) /\ Len(<<>>) = 0
  OBVIOUS
<1> HIDE DEF f
<1>3. Path(head, next, <<>>)
  BY <1>2 DEF Init, init_wp_pool, Path, Entry
<1>4. Path(free_, next, f)
  <2>1. free_ = Entry(f, 1)
    BY <1>0, <1>1 DEF Init, init_wp_pool, Entry
  <2>2. ASSUME NEW i \in 1 .. Len(f) PROVE next[f[i]] = Entry(f, i + 1)
    <3>1. f[i] = i - 1 /\ i - 1 \in WP /\ (i + 1 \in 1 .. Len(f) <=> i # NR_WP)
      BY <1>0, <1>1 DEF WP
    <3>2. next[i - 1] = IF i - 1 = NR_WP - 1 THEN NULL ELSE (i - 1) + 1
      BY <3>1 DEF Init, init_wp_pool
    <3>3. CASE i = NR_WP
      BY <3>1, <3>2, <3>3 DEF Entry
    <3>4. CASE i # NR_WP
      <4>1. f[i + 1] = (i - 1) + 1 /\ i - 1 # NR_WP - 1
        BY <1>0, <1>1, <3>1, <3>4
      <4>2. QED
        BY <3>1, <3>2, <3>4, <4>1 DEF Entry
    <3>5. QED
      BY <3>3, <3>4
  <2>3. \A i, j \in 1 .. Len(f) : f[i] = f[j] => i = j
    BY <1>0, <1>1
  <2>4. QED
    BY <2>1, <2>2, <2>3 DEF Path
<1>5. InHand = {} /\ pc = "idle"
  BY DEF Init, InHand
<1>6. \A w \in WP : In(w, f)
  <2> SUFFICES ASSUME NEW w \in WP PROVE In(w, f)
    OBVIOUS
  <2>1. w + 1 \in 1 .. Len(f) /\ f[w + 1] = w
    BY <1>0, <1>1 DEF WP
  <2>2. QED
    BY <2>1 DEF In
<1>7. \A w : ~In(w, <<>>)
  BY <1>2 DEF In
<1>8. Parted(<<>>, f)
  <2>1. \A w \in WP : strdup[w] = FALSE
    BY DEF Init
  <2>2. 0 + NR_WP = NR_WP - 0
    BY <1>0
  <2>3. QED
    BY <1>1, <1>2, <1>5, <1>6, <1>7, <2>1, <2>2 DEF Parted
<1>9. Searching(<<>>)
  BY <1>5 DEF Searching
<1>10. TypeOK
  <2>1. next \in [WP -> Ptr]
    <3>1. \A w \in WP : (IF w = NR_WP - 1 THEN NULL ELSE w + 1) \in Ptr
      BY <1>0 DEF WP, Ptr
    <3>2. QED
      BY <3>1 DEF Init, init_wp_pool
  <2>2. 0 \in Ptr /\ NULL \in Ptr /\ -1 \in -1 .. NR_WP - 1
    BY <1>0 DEF WP, Ptr
  <2>3. QED
    BY <2>1, <2>2 DEF Init, init_wp_pool, TypeOK
<1>11. QED
  BY <1>1, <1>2, <1>3, <1>4, <1>8, <1>9, <1>10 DEF IInv, Shape, Threaded

(* Every step keeps the shape of the lists; only add_wp and unlink change  *)
(* the active one.                                                         *)
LEMMA StepShape ==
  ASSUME TypeOK, NEW a \in Seq(WP), NEW f \in Seq(WP), Shape(a, f), [Next]_vars
  PROVE  /\ TypeOK'
         /\ \E a2, f2 \in Seq(WP) :
              /\ Shape(a2, f2)'
              /\ \/ a2 = a
                 \/ \E w \in WP : ~In(w, a) /\ a2 = <<w>> \o a
                 \/ \E k \in 1 .. Len(a) : a2 = Without(a, k)
<1>1. CASE add_wp /\ free_ # NULL
  BY <1>1, AddStep
<1>2. CASE unlink
  BY <1>2, UnlinkStep
<1>3. CASE push_free
  BY <1>3, PushStep
<1>4. CASE \/ not_found \/ advance \/ free_wp \/ find_prev \/ found_prev
           \/ (add_wp /\ free_ = NULL) \/ \E k \in -1 .. NR_WP : delete_wp(k)
  <2>1. TypeOK' /\ Shape(a, f)'
    BY <1>4, SearchStep
  <2>2. QED
    BY <2>1
<1>5. CASE Gone \/ UNCHANGED vars
  <2>1. UNCHANGED <<head, free_, next, strdup, pc, wp, prev, no>>
    BY <1>5 DEF Gone, vars, lists, locals
  <2>2. TypeOK'
    BY <2>1 DEF TypeOK
  <2>3. Shape(a, f)'
    BY <2>1 DEF Shape, Threaded, Parted, Searching, Path, Entry, In, InHand
  <2>4. QED
    BY <2>2, <2>3
<1>6. QED
  BY <1>1, <1>2, <1>3, <1>4, <1>5 DEF Next, Deleting

(* The shape of the lists holds forever. *)
THEOREM PoolInductive == Spec => []IInv
<1>1. IInv /\ [Next]_vars => IInv'
  <2> SUFFICES ASSUME IInv, [Next]_vars PROVE IInv'
    OBVIOUS
  <2>1. PICK a \in Seq(WP), f \in Seq(WP) : Shape(a, f)
    BY DEF IInv
  <2>2. TypeOK
    BY DEF IInv
  <2>3. TypeOK' /\ \E a2, f2 \in Seq(WP) : Shape(a2, f2)'
    BY <2>1, <2>2, StepShape
  <2>4. QED
    BY <2>3 DEF IInv
<1>2. QED
  BY InitShape, <1>1, PTL DEF Spec

(* What the recursion of List finds. *)
LEMMA ListsFound ==
  ASSUME NEW a \in Seq(WP), NEW f \in Seq(WP), Shape(a, f)
  PROVE  List(head) = a /\ List(free_) = f
<1>1. Len(a) <= NR_WP /\ Len(f) <= NR_WP
  <2>1. Len(a) \in Nat /\ Len(f) \in Nat /\ NR_WP \in Nat
    BY NR_WPAssumption
  <2>2. Len(a) + Len(f) = NR_WP \/ Len(a) + Len(f) = NR_WP - 1
    BY <2>1 DEF Shape, Parted
  <2>3. QED
    BY <2>1, <2>2
<1>2. QED
  BY <1>1, WalkIsPath DEF List, Shape, Threaded

(***************************************************************************)
(* watchpoint.c, for a pool of any size and any sequence of w and d        *)
(* commands: no entry is lost, none is on two lists, and a string is owned *)
(* exactly by the entries in use.                                          *)
(***************************************************************************)
THEOREM PoolIsParted == Spec => []PoolPartition
<1>1. IInv => PoolPartition
  <2> SUFFICES ASSUME IInv PROVE PoolPartition
    OBVIOUS
  <2>1. PICK a \in Seq(WP), f \in Seq(WP) : Shape(a, f)
    BY DEF IInv
  <2>2. List(head) = a /\ List(free_) = f
    BY <2>1, ListsFound
  <2>3. ASSUME NEW s \in Seq(WP) PROVE ToSet(s) = {w \in WP : In(w, s)}
    BY DEF ToSet, In
  <2>4. ToSet(a) \cup ToSet(f) \cup InHand = WP
    BY <2>1, <2>3 DEF Shape, Parted
  <2>5. {w \in WP : strdup[w]} = ToSet(a) \cup InHand
    BY <2>1, <2>3 DEF Shape, Parted
  <2>6. Len(a) + Len(f) = NR_WP - (IF InHand = {} THEN 0 ELSE 1)
    BY <2>1 DEF Shape, Parted
  <2>7. QED
    BY <2>2, <2>4, <2>5, <2>6 DEF PoolPartition
<1>2. QED
  BY PoolInductive, <1>1, PTL

(***************************************************************************)
(* The lists implement WatchSet: what info w shows only ever gains an      *)
(* entry at the front or loses one, the others keeping their order;        *)
(* free_wp's second search for the entry that delete_wp has unlinked never *)
(* changes it.                                                             *)
(***************************************************************************)
THEOREM PoolImplementsSet == Spec => ImplementsWatchSet
<1>1. Init => Abstract!Init
  <2> SUFFICES ASSUME Init PROVE List(head) = <<>>
    BY DEF Abstract!Init
  <2>1. head = NULL /\ <<>> \in Seq(WP) /\ Len(<<>>) = 0
    BY DEF Init, init_wp_pool
  <2>2. Path(head, next, <<>>)
    BY <2>1 DEF Path, Entry
  <2>3. Len(<<>>) <= NR_WP
    BY <2>1, NR_WPAssumption
  <2>4. Walk(next, head, NR_WP) = <<>>
    BY <2>1, <2>2, <2>3, WalkIsPath
  <2>5. QED
    BY <2>4 DEF List
<1>2. IInv /\ IInv' /\ [Next]_vars => [Abstract!Next]_(List(head))
  <2> SUFFICES ASSUME IInv, [Next]_vars
               PROVE  Abstract!Next \/ List(head)' = List(head)
    OBVIOUS
  <2>1. PICK a \in Seq(WP), f \in Seq(WP) : Shape(a, f)
    BY DEF IInv
  <2>2. PICK a2 \in Seq(WP), f2 \in Seq(WP) :
          /\ Shape(a2, f2)'
          /\ \/ a2 = a
             \/ \E w \in WP : ~In(w, a) /\ a2 = <<w>> \o a
             \/ \E k \in 1 .. Len(a) : a2 = Without(a, k)
    BY <2>1, StepShape DEF IInv
  <2>3. List(head) = a
    BY <2>1, ListsFound
  <2>4. List(head)' = a2
    <3>1. Path(head', next', a2)
      BY <2>2 DEF Shape, Threaded, Path, Entry
    <3>2. Len(a2) <= NR_WP
      <4>1. Len(a2) \in Nat /\ Len(f2) \in Nat /\ NR_WP \in Nat
        BY NR_WPAssumption
      <4>2. Parted(a2, f2)'
        BY <2>2 DEF Shape
      <4>3. Len(a2) + Len(f2) = NR_WP - (IF InHand' = {} THEN 0 ELSE 1)
        BY <4>2 DEF Parted
      <4>4. QED
        BY <4>1, <4>3
    <3>3. Walk(next', head', NR_WP) = a2
      BY <3>1, <3>2, WalkIsPath
    <3>4. QED
      BY <3>3 DEF List, Walk
  <2>5. ASSUME NEW w \in WP, ~In(w, a), a2 = <<w>> \o a
        PROVE  Abstract!Next
    <3>1. w \in 0 .. NR_WP - 1
      BY DEF WP
    <3>2. ~Contains(a, w)
      BY <2>5 DEF Contains, In
    <3>3. ~Contains(List(head), w) /\ List(head)' = <<w>> \o List(head)
      BY <2>3, <2>4, <2>5, <3>2
    <3>4. Abstract!add_wp
      BY <3>1, <3>3 DEF Abstract!add_wp, Contains, Abstract!Contains
    <3>5. QED
      BY <3>4 DEF Abstract!Next
  <2>6. ASSUME NEW k \in 1 .. Len(a), a2 = Without(a, k)
        PROVE  Abstract!Next
    <3>1. k \in DOMAIN a /\ a2 = RemoveAt(a, k)
      BY <2>6, WithoutRemoves
    <3>2. k \in DOMAIN List(head) /\ List(head)' = RemoveAt(List(head), k)
      BY <2>3, <2>4, <3>1
    <3>3. Abstract!delete_wp
      BY <3>2 DEF Abstract!delete_wp, RemoveAt, Abstract!RemoveAt
    <3>4. QED
      BY <3>3 DEF Abstract!Next
  <2>7. QED
    BY <2>2, <2>3, <2>4, <2>5, <2>6
<1>3. QED
  BY <1>1, <1>2, PoolInductive, PTL DEF Spec, ImplementsWatchSet, Abstract!Spec
=============================================================================
