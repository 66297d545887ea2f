---------------------------- MODULE ActivityProofs ----------------------------
(***************************************************************************)
(* What the records of calls, the screens and the agenda promise, for any    *)
(* number of calls, contacts, rows, events and handlers that overlap: lists  *)
(* are resumed whole, the tracker adds up, a recording is filed with its     *)
(* contact, a machine's call stays one, and holds, events and reminders      *)
(* agree with the rows they are of.                                          *)
(***************************************************************************)
EXTENDS ActivityProperties, FiniteSetTheorems, SequenceTheorems, WellFoundedInduction, TLAPS

-----------------------------------------------------------------------------
(* Lists.  What holds of nothing, and of one more when it holds of some, holds  *)
(* of any number.                                                           *)

LEMMA Reaches ==
    ASSUME NEW P, 0 \in P, \A n \in Nat : n \in P => n + 1 \in P
    PROVE  \A n \in Nat : n \in P
<1> DEFINE R == OpToRel(<, Nat)
           T == Nat \ P
<1>1. \A x, y : <<x, y>> \in R <=> x \in Nat /\ y \in Nat /\ x < y  BY DEF OpToRel
<1>2. IsWellFoundedOn(R, Nat)  BY NatLessThanWellFounded
<1> HIDE DEF R
<1>3. ASSUME T # {} PROVE FALSE
  <2>1. T \subseteq Nat  OBVIOUS
  <2>2. PICK x \in T : \A y \in T : <<y, x>> \notin R
    <3> HIDE DEF T
    <3> QED BY <1>2, <1>3, <2>1, WFMin, Zenon
  <2>3. x \in Nat /\ x # 0  OBVIOUS
  <2>4. x - 1 \in Nat /\ x - 1 < x /\ (x - 1) + 1 = x  BY <2>3
  <2>5. x - 1 \in T
    <3>1. x - 1 \notin P  BY <2>2, <2>4
    <3> QED BY <2>4, <3>1
  <2> QED BY <1>1, <2>2, <2>3, <2>4, <2>5
<1> QED BY <1>3

KeptUpTo(ids, S, n, f) ==
    f = [k \in 0..n |-> IF k = 0 THEN <<>>
                        ELSE IF ids[k] \in S THEN Append(f[k - 1], ids[k]) ELSE f[k - 1]]

LEMMA KeptExists ==
    ASSUME NEW ids, NEW S
    PROVE  \A n \in Nat : \E f : KeptUpTo(ids, S, n, f)
<1> DEFINE P == {n \in Nat : \E f : KeptUpTo(ids, S, n, f)}
<1>1. 0 \in P
  <2>1. PICK f : f = [k \in 0..0 |-> <<>>]  OBVIOUS
  <2>2. KeptUpTo(ids, S, 0, f)  BY <2>1 DEF KeptUpTo
  <2> QED BY <2>2
<1>2. ASSUME NEW n \in Nat, n \in P PROVE n + 1 \in P
  <2>1. PICK f : KeptUpTo(ids, S, n, f)  BY <1>2
  <2>2. PICK z : z = IF ids[n + 1] \in S THEN Append(f[n], ids[n + 1]) ELSE f[n]  OBVIOUS
  <2>3. PICK g : g = [k \in 0..(n + 1) |-> IF k = n + 1 THEN z ELSE f[k]]  OBVIOUS
  <2>4. ASSUME NEW k \in 0..(n + 1)
        PROVE  g[k] = IF k = 0 THEN <<>>
                      ELSE IF ids[k] \in S THEN Append(g[k - 1], ids[k]) ELSE g[k - 1]
    <3>1. CASE k = n + 1
      <4>1. k # 0 /\ k - 1 = n /\ n \in 0..(n + 1) /\ n # n + 1  BY <3>1
      <4>2. g[k] = z /\ g[k - 1] = f[n]  BY <2>3, <3>1, <4>1
      <4> QED BY <2>2, <3>1, <4>1, <4>2
    <3>2. CASE k # n + 1
      <4>1. k \in 0..n /\ g[k] = f[k]  BY <2>3, <3>2
      <4>2. k # 0 => k - 1 \in 0..(n + 1) /\ k - 1 # n + 1  BY <4>1
      <4>3. k # 0 => g[k - 1] = f[k - 1]  BY <2>3, <4>2
      <4>4. f[k] = IF k = 0 THEN <<>>
                   ELSE IF ids[k] \in S THEN Append(f[k - 1], ids[k]) ELSE f[k - 1]
        BY <2>1, <4>1 DEF KeptUpTo
      <4> QED BY <4>1, <4>3, <4>4
    <3> QED BY <3>1, <3>2
  <2>5. g = [k \in 0..(n + 1) |-> g[k]]  BY <2>3
  <2>6. KeptUpTo(ids, S, n + 1, g)  BY <2>4, <2>5 DEF KeptUpTo
  <2> QED BY <2>6
<1> HIDE DEF P
<1>3. \A n \in Nat : n \in P  BY <1>1, <1>2, Reaches
<1> QED BY <1>3 DEF P

LEMMA KeptIs ==
    ASSUME NEW T, NEW ids \in Seq(T), NEW S
    PROVE  \E f : KeptUpTo(ids, S, Len(ids), f) /\ Kept(ids, S) = f[Len(ids)]
<1>1. Len(ids) \in Nat  OBVIOUS
<1>2. PICK f : KeptUpTo(ids, S, Len(ids), f)  BY <1>1, KeptExists
<1> QED BY <1>2 DEF KeptUpTo, Kept

\* What is kept of a list is what the list has of them, each as often.
LEMMA KeptWhole ==
    ASSUME NEW T, NEW ids \in Seq(T), NEW S
    PROVE  /\ Kept(ids, S) \in Seq(T) /\ Range(Kept(ids, S)) = Range(ids) \cap S
           /\ IsInjective(ids) => IsInjective(Kept(ids, S))
<1>1. PICK n \in Nat : n = Len(ids)  OBVIOUS
<1>2. PICK f : KeptUpTo(ids, S, n, f) /\ Kept(ids, S) = f[n]  BY <1>1, KeptIs
<1>3. DOMAIN ids = 1..n /\ \A k \in 1..n : ids[k] \in T  BY <1>1
<1>4. \A k \in 0..n :
        f[k] = IF k = 0 THEN <<>>
               ELSE IF ids[k] \in S THEN Append(f[k - 1], ids[k]) ELSE f[k - 1]
  BY <1>2 DEF KeptUpTo
<1> DEFINE Had(k) == {ids[j] : j \in 1..k} \cap S
           Good(k) == /\ f[k] \in Seq(T) /\ \A x : x \in Range(f[k]) <=> x \in Had(k)
                      /\ IsInjective(ids) => IsInjective(f[k])
           P == {k \in Nat : k <= n => Good(k)}
<1>5. 0 \in P
  <2>1. f[0] = <<>>  BY <1>4
  <2>2. Range(<<>>) = {} /\ IsInjective(<<>>)  BY DEF Range, IsInjective
  <2>3. Had(0) = {}  OBVIOUS
  <2>4. Good(0)  BY <2>1, <2>2, <2>3
  <2> QED BY <2>4
<1>6. ASSUME NEW k \in Nat, k \in P PROVE k + 1 \in P
  <2> SUFFICES ASSUME k + 1 <= n PROVE Good(k + 1)
    OBVIOUS
  <2>1. Good(k) /\ k \in 0..n /\ k + 1 \in 1..n /\ (k + 1) - 1 = k  BY <1>6
  <2>2. PICK x \in T : x = ids[k + 1]  BY <1>3, <2>1
  <2>3. f[k + 1] = IF x \in S THEN Append(f[k], x) ELSE f[k]
    <3>1. k + 1 \in 0..n /\ k + 1 # 0  BY <2>1
    <3> QED BY <1>4, <2>1, <2>2, <3>1
  <2>4. \A y : y \in Had(k + 1) <=> y \in Had(k) \/ (y = x /\ x \in S)
    <3>1. \A j : j \in 1..(k + 1) <=> j \in 1..k \/ j = k + 1  OBVIOUS
    <3> QED BY <2>2, <3>1
  <2>5. CASE x \notin S
    <3> HIDE DEF Had
    <3> QED BY <2>1, <2>3, <2>4, <2>5
  <2>6. CASE x \in S
    <3>1. PICK s \in Seq(T) : s = f[k]  BY <2>1
    <3>2. PICK r : r = Append(s, x)  OBVIOUS
    <3>3. /\ r \in Seq(T) /\ Len(r) = Len(s) + 1 /\ DOMAIN r = 1..(Len(s) + 1)
          /\ DOMAIN s = 1..Len(s) /\ Len(s) \in Nat
          /\ r[Len(s) + 1] = x /\ \A j \in 1..Len(s) : r[j] = s[j]
      BY <3>2
    <3>4. \A y : y \in Range(r) <=> y \in Range(s) \/ y = x
      <4>1. \A j : j \in DOMAIN r <=> j \in DOMAIN s \/ j = Len(s) + 1  BY <3>3
      <4>2. \A j \in DOMAIN s : r[j] = s[j]  BY <3>3
      <4> QED BY <3>3, <4>1, <4>2 DEF Range
    <3>5. ASSUME IsInjective(ids) PROVE IsInjective(r)
      <4>1. IsInjective(s)  BY <2>1, <3>1, <3>5
      <4>2. x \notin Range(s)
        <5>1. \A y \in Range(s) : y \in Had(k)  BY <2>1, <3>1
        <5>2. \A j \in 1..k : ids[j] # x
          <6>1. \A j \in 1..k : j \in DOMAIN ids /\ k + 1 \in DOMAIN ids /\ j # k + 1  BY <1>3, <2>1
          <6> QED BY <2>2, <3>5, <6>1 DEF IsInjective
        <5> QED BY <5>1, <5>2
      <4>3. \A j \in 1..Len(s) : r[j] # x  BY <3>3, <4>2 DEF Range
      <4>4. ASSUME NEW i \in DOMAIN r, NEW j \in DOMAIN r, r[i] = r[j] PROVE i = j
        <5>1. CASE i \in 1..Len(s) /\ j \in 1..Len(s)  BY <3>3, <4>1, <4>4, <5>1 DEF IsInjective
        <5>2. CASE i = Len(s) + 1 \/ j = Len(s) + 1  BY <3>3, <4>3, <4>4, <5>2
        <5> QED BY <3>3, <5>1, <5>2
      <4> QED BY <4>4 DEF IsInjective
    <3>6. f[k + 1] = r  BY <2>3, <2>6, <3>1, <3>2
    <3>7. \A y : y \in Range(f[k + 1]) <=> y \in Had(k + 1)
      <4> HIDE DEF Had
      <4> QED BY <2>1, <2>4, <2>6, <3>1, <3>4, <3>6
    <3> HIDE DEF Had
    <3> QED BY <3>3, <3>5, <3>6, <3>7
  <2> HIDE DEF Good
  <2> QED BY <2>5, <2>6
<1> HIDE DEF P
<1>7. n \in P  BY <1>5, <1>6, Reaches
<1>8. Good(n)  BY <1>7 DEF P
<1>9. \A x : x \in Had(n) <=> x \in Range(ids) \cap S  BY <1>3 DEF Range
<1> HIDE DEF Had
<1> QED BY <1>2, <1>8, <1>9

LEMMA Joined ==
    ASSUME NEW T, NEW s \in Seq(T), NEW t \in Seq(T), IsInjective(s), IsInjective(t),
           Range(s) \cap Range(t) = {}
    PROVE  /\ s \o t \in Seq(T) /\ IsInjective(s \o t) /\ Range(s \o t) = Range(s) \cup Range(t)
           /\ \A k \in 1..Len(s) : (s \o t)[k] = s[k]
           /\ Len(s \o t) = Len(s) + Len(t)
<1>1. PICK r : r = s \o t  OBVIOUS
<1>2. /\ r \in Seq(T) /\ Len(r) = Len(s) + Len(t) /\ DOMAIN r = 1..(Len(s) + Len(t))
      /\ DOMAIN s = 1..Len(s) /\ DOMAIN t = 1..Len(t) /\ Len(s) \in Nat /\ Len(t) \in Nat
  BY <1>1
<1>3. \A k \in 1..Len(s) : k \in DOMAIN r /\ r[k] = s[k]  BY <1>1
<1>4. \A k \in 1..Len(t) : Len(s) + k \in DOMAIN r /\ r[Len(s) + k] = t[k]  BY <1>1
<1>5. ASSUME NEW k \in DOMAIN r, k \notin 1..Len(s)
      PROVE  k - Len(s) \in 1..Len(t) /\ r[k] = t[k - Len(s)]
  <2>1. k - Len(s) \in 1..Len(t) /\ Len(s) + (k - Len(s)) = k  BY <1>2, <1>5
  <2> QED BY <1>4, <2>1
<1>6. Range(r) = Range(s) \cup Range(t)
  <2>1. \A x \in Range(r) : x \in Range(s) \cup Range(t)
    <3> SUFFICES ASSUME NEW k \in DOMAIN r PROVE r[k] \in Range(s) \cup Range(t)
      BY DEF Range
    <3>1. CASE k \in 1..Len(s)  BY <1>2, <1>3, <3>1 DEF Range
    <3>2. CASE k \notin 1..Len(s)  BY <1>2, <1>5, <3>2 DEF Range
    <3> QED BY <3>1, <3>2
  <2>2. \A x \in Range(s) : x \in Range(r)  BY <1>2, <1>3 DEF Range
  <2>3. \A x \in Range(t) : x \in Range(r)  BY <1>2, <1>4 DEF Range
  <2> QED BY <2>1, <2>2, <2>3
<1>7. ASSUME NEW i \in DOMAIN r, NEW j \in DOMAIN r, r[i] = r[j] PROVE i = j
  <2>1. CASE i \in 1..Len(s) /\ j \in 1..Len(s)  BY <1>2, <1>3, <1>7, <2>1 DEF IsInjective
  <2>2. CASE i \notin 1..Len(s) /\ j \notin 1..Len(s)
    <3>1. i - Len(s) = j - Len(s)  BY <1>2, <1>5, <1>7, <2>2 DEF IsInjective
    <3> QED BY <1>2, <3>1
  <2>3. CASE i \in 1..Len(s) /\ j \notin 1..Len(s)
    <3>1. r[i] \in Range(s) /\ r[j] \in Range(t)  BY <1>2, <1>3, <1>5, <2>3 DEF Range
    <3> QED BY <1>7, <3>1
  <2>4. CASE i \notin 1..Len(s) /\ j \in 1..Len(s)
    <3>1. r[j] \in Range(s) /\ r[i] \in Range(t)  BY <1>2, <1>3, <1>5, <2>4 DEF Range
    <3> QED BY <1>7, <3>1
  <2> QED BY <2>1, <2>2, <2>3, <2>4
<1>8. IsInjective(r)  BY <1>7 DEF IsInjective
<1> QED BY <1>1, <1>2, <1>3, <1>6, <1>8

LEMMA Part ==
    ASSUME NEW T, NEW s \in Seq(T), IsInjective(s), NEW m \in 1..(Len(s) + 1), NEW n \in 0..Len(s)
    PROVE  /\ SubSeq(s, m, n) \in Seq(T) /\ IsInjective(SubSeq(s, m, n))
           /\ \A x : x \in Range(SubSeq(s, m, n)) <=> \E j \in m..n : x = s[j]
           /\ m <= n => Len(SubSeq(s, m, n)) > 0 /\ SubSeq(s, m, n)[1] = s[m]
<1>1. PICK r : r = SubSeq(s, m, n)  OBVIOUS
<1>2. Len(s) \in Nat /\ DOMAIN s = 1..Len(s)  OBVIOUS
<1>3. PICK l \in Nat : l = IF m <= n THEN n - m + 1 ELSE 0
  <2>1. m \in Nat /\ n \in Nat  BY <1>2
  <2>2. (IF m <= n THEN n - m + 1 ELSE 0) \in Nat
    <3>1. m <= n => n - m + 1 \in Nat  BY <2>1
    <3> QED BY <3>1
  <2> QED BY <2>2
<1>4. r \in Seq(T) /\ Len(r) = l /\ DOMAIN r = 1..l /\ \A k \in 1..l : r[k] = s[m + k - 1]
  BY <1>1, <1>3
<1>5. \A k \in 1..l : m + k - 1 \in m..n /\ m + k - 1 \in DOMAIN s  BY <1>2, <1>3
<1>6. \A j \in m..n : j - m + 1 \in 1..l /\ m + (j - m + 1) - 1 = j  BY <1>2, <1>3
<1>7. \A x : x \in Range(r) <=> \E j \in m..n : x = s[j]
  <2>1. \A j \in m..n : r[j - m + 1] = s[j]  BY <1>4, <1>6
  <2>2. \A j \in m..n : s[j] \in Range(r)  BY <1>4, <1>6, <2>1 DEF Range
  <2>3. \A k \in DOMAIN r : \E j \in m..n : r[k] = s[j]  BY <1>4, <1>5
  <2>4. \A x \in Range(r) : \E k \in DOMAIN r : x = r[k]  BY DEF Range
  <2> QED BY <2>2, <2>3, <2>4
<1>8. IsInjective(r)
  <2> SUFFICES ASSUME NEW i \in DOMAIN r, NEW j \in DOMAIN r, r[i] = r[j] PROVE i = j
    BY DEF IsInjective
  <2>1. m + i - 1 = m + j - 1  BY <1>4, <1>5 DEF IsInjective
  <2> QED BY <1>4, <2>1
<1>9. ASSUME m <= n PROVE l > 0 /\ r[1] = s[m]
  <2>1. 1 \in 1..l /\ m + 1 - 1 = m  BY <1>3, <1>9
  <2> QED BY <1>4, <2>1
<1> QED BY <1>1, <1>4, <1>7, <1>8, <1>9

\* A list that is resumed is the list, and nobody dialled comes ahead of the mark.
LEMMA ResumedWhole ==
    ASSUME NEW ids \in Seq(Clients), IsInjective(ids), NEW mark \in Range(ids)
    PROVE  /\ Range(Resumed(ids, mark)) = Range(ids) /\ IsInjective(Resumed(ids, mark))
           /\ \A k \in DOMAIN Resumed(ids, mark) : Dialed(Resumed(ids, mark)[k], 0) =>
                k >= CHOOSE m \in DOMAIN Resumed(ids, mark) : Resumed(ids, mark)[m] = mark
<1>1. PICK n \in Nat : n = Len(ids) /\ DOMAIN ids = 1..n  OBVIOUS
<1>2. PICK at \in 1..n : /\ at = (CHOOSE k \in DOMAIN ids : ids[k] = mark) /\ ids[at] = mark
  BY <1>1 DEF Range
<1>3. PICK before : before = SubSeq(ids, 1, at - 1)  OBVIOUS
<1>4. PICK tail : tail = SubSeq(ids, at, n)  OBVIOUS
<1>5. /\ before \in Seq(Clients) /\ IsInjective(before)
      /\ \A x : x \in Range(before) <=> \E j \in 1..(at - 1) : x = ids[j]
  <2>1. 1 \in 1..(Len(ids) + 1) /\ at - 1 \in 0..Len(ids)  BY <1>1
  <2>2. PICK a, b : a = 1 /\ b = at - 1  OBVIOUS
  <2>3. a \in 1..(Len(ids) + 1) /\ b \in 0..Len(ids)  BY <2>1, <2>2
  <2>4. /\ SubSeq(ids, a, b) \in Seq(Clients) /\ IsInjective(SubSeq(ids, a, b))
        /\ \A x : x \in Range(SubSeq(ids, a, b)) <=> \E j \in a..b : x = ids[j]
    BY <2>3, Part
  <2> QED BY <1>3, <2>2, <2>4
<1>6. /\ tail \in Seq(Clients) /\ IsInjective(tail) /\ Len(tail) > 0 /\ tail[1] = mark
      /\ \A x : x \in Range(tail) <=> \E j \in at..n : x = ids[j]
  <2>1. at \in 1..(Len(ids) + 1) /\ n \in 0..Len(ids) /\ at <= n  BY <1>1
  <2>2. /\ SubSeq(ids, at, n) \in Seq(Clients) /\ IsInjective(SubSeq(ids, at, n))
        /\ \A x : x \in Range(SubSeq(ids, at, n)) <=> \E j \in at..n : x = ids[j]
        /\ at <= n => Len(SubSeq(ids, at, n)) > 0 /\ SubSeq(ids, at, n)[1] = ids[at]
    BY <2>1, Part
  <2> QED BY <1>2, <1>4, <2>1, <2>2
<1>7. PICK F : F = {c \in Clients : ~Dialed(c, 0)}  OBVIOUS
<1>8. PICK A : A = Kept(before, F)  OBVIOUS
<1>9. PICK B : B = Kept(before, Clients \ F)  OBVIOUS
<1>10. /\ A \in Seq(Clients) /\ Range(A) = Range(before) \cap F /\ IsInjective(A)
       /\ B \in Seq(Clients) /\ Range(B) = Range(before) \cap (Clients \ F) /\ IsInjective(B)
  BY <1>5, <1>8, <1>9, KeptWhole
<1>11. Range(before) \cap Range(tail) = {} /\ Range(before) \cup Range(tail) = Range(ids)
  <2>1. ASSUME NEW i \in 1..(at - 1), NEW j \in at..n, ids[i] = ids[j] PROVE FALSE
    <3>1. i \in DOMAIN ids /\ j \in DOMAIN ids /\ i # j  BY <1>1
    <3> QED BY <2>1, <3>1 DEF IsInjective
  <2>2. \A j : j \in 1..n <=> j \in 1..(at - 1) \/ j \in at..n  OBVIOUS
  <2>3. \A x : x \in Range(ids) <=> \E j \in 1..n : x = ids[j]  BY <1>1 DEF Range
  <2> QED BY <1>5, <1>6, <2>1, <2>2, <2>3
<1>12. Range(before) \subseteq Clients
  <2>1. \A j \in DOMAIN before : before[j] \in Clients  BY <1>5
  <2> QED BY <2>1 DEF Range
<1>13. PICK L : L = A \o tail  OBVIOUS
<1>14. /\ L \in Seq(Clients) /\ IsInjective(L) /\ Range(L) = Range(A) \cup Range(tail)
       /\ Len(L) = Len(A) + Len(tail) /\ \A k \in 1..Len(A) : L[k] = A[k]
  <2>1. Range(A) \cap Range(tail) = {}  BY <1>10, <1>11
  <2> QED BY <1>6, <1>10, <1>13, <2>1, Joined
<1>15. PICK R : R = L \o B  OBVIOUS
<1>16. /\ R \in Seq(Clients) /\ IsInjective(R) /\ Range(R) = Range(L) \cup Range(B)
       /\ Len(R) = Len(L) + Len(B) /\ \A k \in 1..Len(L) : R[k] = L[k]
  <2>1. Range(L) \cap Range(B) = {}  BY <1>10, <1>11, <1>14
  <2>2. L \in Seq(Clients) /\ IsInjective(L)  BY <1>14
  <2>3. B \in Seq(Clients) /\ IsInjective(B)  BY <1>10
  <2>4. /\ L \o B \in Seq(Clients) /\ IsInjective(L \o B) /\ Range(L \o B) = Range(L) \cup Range(B)
        /\ \A k \in 1..Len(L) : (L \o B)[k] = L[k]
        /\ Len(L \o B) = Len(L) + Len(B)
    BY <2>1, <2>2, <2>3, Joined
  <2> QED BY <1>15, <2>4
<1>17. Resumed(ids, mark) = R
  BY <1>1, <1>2, <1>3, <1>4, <1>7, <1>8, <1>9, <1>13, <1>15 DEF Resumed
<1>18. Range(R) = Range(ids)  BY <1>10, <1>11, <1>12, <1>14, <1>16
<1>19. /\ Len(A) \in Nat /\ Len(tail) \in Nat /\ Len(B) \in Nat
       /\ DOMAIN R = 1..(Len(A) + Len(tail) + Len(B)) /\ DOMAIN A = 1..Len(A)
  BY <1>6, <1>10, <1>14, <1>16
<1>20. Len(A) + 1 \in DOMAIN R /\ R[Len(A) + 1] = mark
  <2>1. Len(A) + 1 \in 1..Len(L)  BY <1>6, <1>14, <1>19
  <2>2. L[Len(A) + 1] = tail[1]
    <3>1. 1 \in 1..Len(tail)  BY <1>6, <1>19
    <3> QED BY <1>6, <1>10, <1>13, <1>19, <3>1
  <2>3. R[Len(A) + 1] = L[Len(A) + 1]  BY <1>16, <2>1
  <2> QED BY <1>6, <1>19, <2>2, <2>3
<1>21. (CHOOSE m \in DOMAIN R : R[m] = mark) = Len(A) + 1
  <2>1. \A m \in DOMAIN R : R[m] = mark <=> m = Len(A) + 1
    BY <1>16, <1>20 DEF IsInjective
  <2> QED BY <1>20, <2>1
<1>22. ASSUME NEW k \in DOMAIN R, Dialed(R[k], 0) PROVE k >= Len(A) + 1
  <2>1. CASE k \in 1..Len(A)
    <3>1. R[k] = A[k]
      <4>1. k \in 1..Len(L)  BY <1>14, <1>19, <2>1
      <4> QED BY <1>14, <1>16, <2>1, <4>1
    <3>2. A[k] \in F  BY <1>10, <1>19, <2>1 DEF Range
    <3> QED BY <1>7, <1>22, <3>1, <3>2
  <2>2. CASE k \notin 1..Len(A)  BY <1>19, <2>2
  <2> QED BY <2>1, <2>2
<1> QED BY <1>16, <1>17, <1>18, <1>21, <1>22

LEMMA AllListed ==
    /\ SetToSeq(Clients) \in Seq(Clients) /\ IsInjective(SetToSeq(Clients))
    /\ Range(SetToSeq(Clients)) = Clients
<1> USE ScreensAssumption
<1>1. PICK n \in Nat : n = Cardinality(Clients)  BY FS_CardinalityType
<1>2. \E f \in [1..n -> Clients] : IsInjective(f)
  <2>1. ExistsBijection(1..n, Clients)  BY <1>1, FS_CardinalityType
  <2> QED BY <2>1 DEF ExistsBijection, Bijection, Injection, IsInjective
<1>3. PICK ids : ids = SetToSeq(Clients)  OBVIOUS
<1>4. ids \in [1..n -> Clients] /\ IsInjective(ids)  BY <1>1, <1>2, <1>3 DEF SetToSeq
<1>5. Range(ids) = Clients
  <2>1. PICK S : S = Range(ids)  OBVIOUS
  <2>2. S \in SUBSET Clients  BY <1>4, <2>1 DEF Range
  <2>3. ids \in Bijection(1..n, S)
    BY <1>4, <2>1 DEF Bijection, Injection, Surjection, IsInjective, Range
  <2>4. Cardinality(S) = n
    <3>1. IsFiniteSet(1..n) /\ Cardinality(1..n) = n
      <4>1. 1 \in Int /\ n \in Int  OBVIOUS
      <4>2. IsFiniteSet(1..n) /\ Cardinality(1..n) = IF 1 > n THEN 0 ELSE n - 1 + 1
        BY <4>1, FS_Interval
      <4> QED BY <4>2
    <3> QED BY <2>3, <3>1, FS_Bijection DEF ExistsBijection
  <2> QED BY <1>1, <2>1, <2>2, <2>4, FS_Subset
<1>6. ids \in Seq(Clients)  BY <1>4
<1> QED BY <1>3, <1>4, <1>5, <1>6

LEMMA ListsAreWhole == ResumesWhole
<1> SUFFICES ASSUME NEW f \in [resume : {TRUE}, neverDialed : {FALSE}, since : {0},
                               neverContacted : BOOLEAN, statusChanged : BOOLEAN, created : {Clients}],
                    NEW ids, ids = SetToSeq(Clients), NEW list, list = filterDialContacts(ids, f)
             PROVE  /\ Range(list) = Eligible(f) /\ IsInjective(list)
                    /\ bookmark \in Eligible(f) =>
                         \A k \in DOMAIN list : Dialed(list[k], 0) =>
                           k >= CHOOSE m \in DOMAIN list : list[m] = bookmark
  BY DEF ResumesWhole
<1>1. ids \in Seq(Clients) /\ IsInjective(ids) /\ Range(ids) = Clients  BY AllListed
<1>2. PICK E : E = Eligible(f)  OBVIOUS
<1>3. E \subseteq Clients  BY <1>2 DEF Eligible
<1>4. PICK kept : kept = Kept(ids, E)  OBVIOUS
<1>5. kept \in Seq(Clients) /\ Range(kept) = Range(ids) \cap E /\ IsInjective(kept)
  BY <1>1, <1>4, KeptWhole
<1>6. Range(kept) = E  BY <1>1, <1>3, <1>5
<1>7. CASE bookmark \in E
  <2>1. list = Resumed(kept, bookmark)  BY <1>2, <1>4, <1>6, <1>7 DEF filterDialContacts
  <2>2. PICK mark \in Range(kept) : mark = bookmark  BY <1>6, <1>7
  <2>3. /\ Range(Resumed(kept, mark)) = Range(kept) /\ IsInjective(Resumed(kept, mark))
        /\ \A k \in DOMAIN Resumed(kept, mark) : Dialed(Resumed(kept, mark)[k], 0) =>
             k >= CHOOSE m \in DOMAIN Resumed(kept, mark) : Resumed(kept, mark)[m] = mark
    BY <1>5, ResumedWhole
  <2>4. list = Resumed(kept, mark)  BY <2>1, <2>2
  <2> QED BY <1>2, <1>6, <2>2, <2>3, <2>4
<1>8. CASE bookmark \notin E
  <2>1. list = kept  BY <1>2, <1>4, <1>6, <1>8 DEF filterDialContacts
  <2> QED BY <1>2, <1>5, <1>6, <1>8, <2>1
<1> QED BY <1>7, <1>8

-----------------------------------------------------------------------------
(* The tracker.  A sum over sets that are apart is the size of their union.  *)

Whole(S, A) == UNION {A[s] : s \in S}
Weighed(S, g) == UNION {{s} \X (1..g[s]) : s \in S}
Sized(S, A, g) ==
    /\ IsFiniteSet(S)
    /\ \A s \in S : IsFiniteSet(A[s]) /\ g[s] = Cardinality(A[s])
    /\ \A s, t \in S : s # t => A[s] \cap A[t] = {}

LEMMA SumOfSizes ==
    ASSUME NEW S, NEW A, NEW g, Sized(S, A, g)
    PROVE  IsFiniteSet(Whole(S, A)) /\ Cardinality(Weighed(S, g)) = Cardinality(Whole(S, A))
<1> USE DEF Sized
<1> DEFINE All == UNION {A[s] : s \in S}
           Pairs == UNION {{s} \X (1..g[s]) : s \in S}
           Count(s) == CHOOSE f : f \in Bijection(1..g[s], A[s])
           whose == [x \in All |-> CHOOSE s \in S : x \in A[s]]
           nth == [x \in All |-> CHOOSE i \in 1..g[whose[x]] : Count(whose[x])[i] = x]
           place == [x \in All |-> <<whose[x], nth[x]>>]
<1>1. IsFiniteSet(All)
  <2> DEFINE T == {A[s] : s \in S}
             f == [s \in S |-> A[s]]
  <2>1. f \in Surjection(S, T)  BY DEF Surjection
  <2>2. \A t \in T : IsFiniteSet(t)  OBVIOUS
  <2>3. All = UNION T  OBVIOUS
  <2> HIDE DEF T, f, All
  <2>4. IsFiniteSet(T)  BY <2>1, FS_Surjection
  <2> QED BY <2>2, <2>3, <2>4, FS_UNION
<1>2. ASSUME NEW s \in S PROVE Count(s) \in Bijection(1..g[s], A[s])
  <2>1. ExistsBijection(1..g[s], A[s])  BY FS_CardinalityType
  <2> QED BY <2>1 DEF ExistsBijection
<1>3. ASSUME NEW x \in All PROVE whose[x] \in S /\ x \in A[whose[x]]
  BY <1>3
<1>4. ASSUME NEW x \in All PROVE nth[x] \in 1..g[whose[x]] /\ Count(whose[x])[nth[x]] = x
  <2>1. \E i \in 1..g[whose[x]] : Count(whose[x])[i] = x
    <3> HIDE DEF Count, whose, All
    <3> QED BY <1>2, <1>3 DEF Bijection, Surjection
  <2>2. nth[x] = CHOOSE i \in 1..g[whose[x]] : Count(whose[x])[i] = x
    <3> HIDE DEF Count, whose, All
    <3> QED OBVIOUS
  <2> HIDE DEF nth, Count, whose, All
  <2> QED BY <2>1, <2>2
<1>5. \A s, i : <<s, i>> \in Pairs <=> s \in S /\ i \in 1..g[s]
  OBVIOUS
<1>6. \A p \in Pairs : p = <<p[1], p[2]>>
  OBVIOUS
<1>7. \A x \in All : place[x] = <<whose[x], nth[x]>>
  <2> HIDE DEF All, whose, nth
  <2> QED OBVIOUS
<1>8. place \in [All -> Pairs]
  <2>1. place = [x \in All |-> place[x]]
    <3> HIDE DEF All, whose, nth
    <3> QED OBVIOUS
  <2>2. \A x \in All : place[x] \in Pairs
    <3> HIDE DEF All, whose, nth, place, Pairs, Count
    <3> SUFFICES ASSUME NEW x \in All PROVE place[x] \in Pairs
      OBVIOUS
    <3>1. whose[x] \in S /\ nth[x] \in 1..g[whose[x]]  BY <1>3, <1>4
    <3>2. <<whose[x], nth[x]>> \in Pairs  BY <1>5, <3>1
    <3> QED BY <1>7, <3>2
  <2> HIDE DEF All, whose, nth, place, Pairs, Count
  <2> QED BY <2>1, <2>2
<1>9. ASSUME NEW s \in S, NEW i \in 1..g[s]
      PROVE  Count(s)[i] \in A[s] /\ \A j \in 1..g[s] : Count(s)[i] = Count(s)[j] => i = j
  <2> HIDE DEF Count
  <2>1. PICK f : f = Count(s)  OBVIOUS
  <2>2. f \in [1..g[s] -> A[s]] /\ IsInjective(f)
    BY <1>2, <2>1, Zenon DEF Bijection, Surjection, Injection
  <2>3. DOMAIN f = 1..g[s]  BY <2>2
  <2> QED BY <2>1, <2>2, <2>3 DEF IsInjective
<1>10. \A x \in All : \A s \in S : x \in A[s] => whose[x] = s
  <2> HIDE DEF All, whose
  <2> QED BY <1>3
<1>11. \A s \in S : \A x \in A[s] : x \in All
  OBVIOUS
<1> HIDE DEF All, whose, nth, place, Pairs, Count
<1>12. \A x, y \in All : place[x] = place[y] => x = y
  <2> SUFFICES ASSUME NEW x \in All, NEW y \in All, place[x] = place[y] PROVE x = y
    OBVIOUS
  <2>1. whose[x] = whose[y] /\ nth[x] = nth[y]  BY <1>7
  <2> QED BY <2>1, <1>4
<1>13. \A p \in Pairs : \E x \in All : place[x] = p
  <2> SUFFICES ASSUME NEW s, NEW i, <<s, i>> \in Pairs PROVE \E x \in All : place[x] = <<s, i>>
    BY <1>6
  <2>1. s \in S /\ i \in 1..g[s]  BY <1>5
  <2>2. PICK x \in A[s] : x = Count(s)[i]  BY <1>9, <2>1
  <2>3. x \in All /\ whose[x] = s  BY <1>10, <1>11, <2>1
  <2>4. nth[x] = i  BY <1>4, <1>9, <2>1, <2>2, <2>3
  <2> QED BY <1>7, <2>3, <2>4
<1>14. place \in Bijection(All, Pairs)
  BY <1>8, <1>12, <1>13 DEF Bijection, Injection, Surjection, IsInjective
<1>15. Cardinality(Pairs) = Cardinality(All)  BY <1>1, <1>14, FS_Bijection DEF ExistsBijection
<1> QED BY <1>1, <1>15 DEF All, Pairs, Whole, Weighed

LEMMA UpTo == ASSUME NEW n \in Nat PROVE IsFiniteSet(1..n) /\ Cardinality(1..n) = n
<1>1. 1 \in Int /\ n \in Int  OBVIOUS
<1>2. IsFiniteSet(1..n) /\ Cardinality(1..n) = IF 1 > n THEN 0 ELSE n - 1 + 1
  BY <1>1, FS_Interval
<1> QED BY <1>2

LEMMA Line ==
    ASSUME NEW k, NEW n \in Nat
    PROVE  IsFiniteSet({k} \X (1..n)) /\ Cardinality({k} \X (1..n)) = n
<1>1. IsFiniteSet({k}) /\ Cardinality({k}) = 1  BY FS_Singleton
<1>2. PICK Z : Z = 1..n  OBVIOUS
<1>3. IsFiniteSet(Z) /\ Cardinality(Z) = n  BY <1>2, UpTo
<1>4. IsFiniteSet({k} \X Z) /\ Cardinality({k} \X Z) = 1 * n  BY <1>1, <1>3, FS_Product
<1> QED BY <1>2, <1>4

\* What a bucket holds, one by one.
Src == Sources \cup {Untagged}
Worked(u, d, s) == {a \in dials : a.by = u /\ a.on = d /\ a.source = s /\ Lasting(a)}
Closed(u, d, s) == {e \in stages : e.by = u /\ e.on = d /\ e.source = s}
Firsts(u, d, s) == {c \in Deals : s = Untagged /\ d \in First(u, c)}
Units(e, b) == IF e.of = b THEN e.contacts ELSE 0
Entered(f, b) == UNION {{k} \X (1..Units(f[k], b)) : k \in DOMAIN f}
Counted(u, d, s) == ({0} \X Firsts(u, d, s)) \cup Entered(entries, <<u, d, s>>)

DialRow ==
    [id : Nat, by : Members, on : Dates, source : Sources,
     length : {"duration", "endTime", "lastCall", "none"}]
Stage == [by : Members, of : Deals \cup (Deals \X Nat), on : Dates, source : Src]
SaveOK(v) ==
    /\ v.id \in 1..acts /\ v.of \in Buckets /\ v.n \in Nat /\ v.row \in 0..acts
    /\ entries[v.id] = NoEntry
    /\ v.row # 0 => entries[v.row] = NoEntry \/ entries[v.row].of = v.of
    /\ \A w \in saves : v.row # w.id /\ (v.id = w.id => v = w)
RowOK(e) == e = NoEntry \/ e \in [of : Buckets, contacts : Nat]
RowsOK(f) == f = [k \in 1..MaxActs |-> f[k]] /\ \A k \in 1..MaxActs : RowOK(f[k])
EntriesOK ==
    /\ acts \in 0..MaxActs
    /\ RowsOK(entries)
    /\ \A k \in 1..MaxActs : entries[k] # NoEntry => k <= acts
    /\ \A v \in saves : SaveOK(v)
CountsOK ==
    /\ date \in Dates
    /\ \A p \in presses : p.on \in Dates
    /\ IsFiniteSet(dials) /\ dials \subseteq DialRow
    /\ IsFiniteSet(stages) /\ stages \subseteq Stage
Weight(v, b) == IF v.of = b THEN v.n ELSE 0
Waiting(S, b) == UNION {{v} \X (1..Weight(v, b)) : v \in S}
Landed(b) == told[b] - Cardinality(Waiting(saves, b))
ToldOK ==
    /\ told \in [Buckets -> Int]
    /\ \A b \in Buckets : /\ IsFiniteSet(Waiting(saves, b))
                          /\ Landed(b) = Cardinality(Entered(entries, b))

LEMMA EnteredUnits ==
    ASSUME NEW f, RowsOK(f), NEW b \in Buckets
    PROVE  /\ IsFiniteSet(Entered(f, b))
           /\ \A k, i : <<k, i>> \in Entered(f, b) <=>
                k \in 1..MaxActs /\ f[k].of = b /\ i \in 1..f[k].contacts
           /\ \A p \in Entered(f, b) : p = <<p[1], p[2]>> /\ p[1] \in 1..MaxActs
<1> USE TrackerAssumption
<1>1. \A k \in 1..MaxActs : f[k].contacts \in Nat /\ Units(f[k], b) \in Nat
  <2> SUFFICES ASSUME NEW k \in 1..MaxActs PROVE f[k].contacts \in Nat /\ Units(f[k], b) \in Nat
    OBVIOUS
  <2>1. CASE f[k] = NoEntry
    <3>1. f[k].contacts = 0  BY <2>1 DEF NoEntry
    <3> QED BY <3>1 DEF Units
  <2>2. CASE f[k] # NoEntry
    <3>1. f[k] \in [of : Buckets, contacts : Nat]  BY <2>2 DEF RowsOK, RowOK
    <3>2. f[k].contacts \in Nat  BY <3>1
    <3> QED BY <3>2 DEF Units
  <2> QED BY <2>1, <2>2
<1>2. DOMAIN f = 1..MaxActs  BY DEF RowsOK
<1>3. \A k, i : <<k, i>> \in Entered(f, b) <=> k \in 1..MaxActs /\ i \in 1..Units(f[k], b)
  BY <1>2 DEF Entered
<1>4. \A k \in 1..MaxActs : \A i : i \in 1..Units(f[k], b) <=> f[k].of = b /\ i \in 1..f[k].contacts
  BY <1>1 DEF Units
<1>5. \A p \in Entered(f, b) : p = <<p[1], p[2]>> /\ p[1] \in 1..MaxActs
  BY <1>2 DEF Entered
<1>6. IsFiniteSet(Entered(f, b))
  <2> DEFINE g == [k \in 1..MaxActs |-> Units(f[k], b)]
             A == [k \in 1..MaxActs |-> {k} \X (1..g[k])]
  <2>1. \A k \in 1..MaxActs : g[k] \in Nat  BY <1>1
  <2>2. Entered(f, b) = UNION {A[k] : k \in 1..MaxActs}  BY <1>2 DEF Entered
  <2>3. \A k \in 1..MaxActs : A[k] = {k} \X (1..g[k])  OBVIOUS
  <2>4. \A j, k \in 1..MaxActs : j # k => A[j] \cap A[k] = {}  OBVIOUS
  <2> HIDE DEF g, A
  <2>5. ASSUME NEW k \in 1..MaxActs PROVE IsFiniteSet(A[k]) /\ g[k] = Cardinality(A[k])
    <3>1. IsFiniteSet({k} \X (1..g[k])) /\ Cardinality({k} \X (1..g[k])) = g[k]  BY <2>1, Line
    <3> QED BY <2>3, <3>1
  <2>6. IsFiniteSet(1..MaxActs)
    <3>1. MaxActs \in Nat  OBVIOUS
    <3> QED BY <3>1, UpTo
  <2>7. Sized(1..MaxActs, A, g)  BY <2>4, <2>5, <2>6 DEF Sized
  <2>8. IsFiniteSet(Whole(1..MaxActs, A))  BY <2>7, SumOfSizes
  <2> QED BY <2>2, <2>8 DEF Whole
<1> QED BY <1>3, <1>4, <1>5, <1>6

LEMMA RowsAreOK == EntriesOK => RowsOK(entries)
BY DEF EntriesOK

LEMMA Apart ==
    ASSUME NEW F, IsFiniteSet(F), NEW E, IsFiniteSet(E), \A p \in E : p[1] # 0
    PROVE  /\ IsFiniteSet(({0} \X F) \cup E)
           /\ Cardinality(({0} \X F) \cup E) = Cardinality(F) + Cardinality(E)
<1>1. IsFiniteSet({0} \X F) /\ Cardinality({0} \X F) = Cardinality(F)
  <2>1. IsFiniteSet({0}) /\ Cardinality({0}) = 1  BY FS_Singleton
  <2>2. IsFiniteSet({0} \X F) /\ Cardinality({0} \X F) = 1 * Cardinality(F)
    BY <2>1, FS_Product
  <2>3. Cardinality(F) \in Nat  BY FS_CardinalityType
  <2> QED BY <2>2, <2>3
<1>2. ({0} \X F) \cap E = {}
  <2>1. \A p \in {0} \X F : p[1] = 0  OBVIOUS
  <2> QED BY <2>1
<1>3. /\ IsFiniteSet(({0} \X F) \cup E)
      /\ Cardinality(({0} \X F) \cup E) = Cardinality({0} \X F) + Cardinality(E) - Cardinality({})
  BY <1>1, <1>2, FS_Union
<1>4. Cardinality(F) \in Nat /\ Cardinality(E) \in Nat /\ Cardinality({}) = 0
  BY FS_CardinalityType, FS_EmptySet
<1> QED BY <1>1, <1>3, <1>4

\* Each figure of a row is the size of what is counted.
LEMMA RowSizes ==
    ASSUME EntriesOK, CountsOK, NEW u \in Members, NEW d \in Dates, NEW s \in Src
    PROVE  /\ IsFiniteSet(Worked(u, d, s)) /\ IsFiniteSet(Counted(u, d, s))
           /\ IsFiniteSet(Closed(u, d, s))
           /\ Row(u, d, s).hours = Cardinality(Worked(u, d, s))
           /\ Row(u, d, s).contacts = Cardinality(Counted(u, d, s))
           /\ Row(u, d, s).closed = Cardinality(Closed(u, d, s))
<1> USE TrackerAssumption
<1>1. /\ Row(u, d, s).hours = Cardinality(Worked(u, d, s))
      /\ Row(u, d, s).closed = Cardinality(Closed(u, d, s))
  <2>1. {a \in {r \in dials : r.by = u /\ r.on = d /\ r.source = s} : Lasting(a)} = Worked(u, d, s)
    BY DEF Worked
  <2>2. {r \in stages : r.by = u /\ r.on = d /\ r.source = s} = Closed(u, d, s)  BY DEF Closed
  <2> QED BY <2>1, <2>2 DEF Row
<1>2. Worked(u, d, s) \in SUBSET dials /\ Closed(u, d, s) \in SUBSET stages
  BY DEF Worked, Closed
<1>3. IsFiniteSet(Worked(u, d, s)) /\ IsFiniteSet(Closed(u, d, s))
  BY <1>2, FS_Subset DEF CountsOK
<1>4. PICK b \in Buckets : b = <<u, d, s>>  BY DEF Buckets, Src
<1>5. IsFiniteSet(Entered(entries, b)) /\ \A p \in Entered(entries, b) : p[1] \in 1..MaxActs  BY RowsAreOK, EnteredUnits
<1>6. PICK F : F = Firsts(u, d, s)  OBVIOUS
<1>7. PICK E : E = Entered(entries, b)  OBVIOUS
<1>8. Row(u, d, s).contacts = Cardinality(F) + Cardinality(E)
  <2>1. Total(LAMBDA k : IF entries[k].of = <<u, d, s>> THEN entries[k].contacts ELSE 0, DOMAIN entries)
        = Cardinality(E)
    BY <1>4, <1>7 DEF Total, Entered, Units
  <2>2. (IF s = Untagged THEN Cardinality({c \in Deals : d \in First(u, c)}) ELSE 0) = Cardinality(F)
    <3>1. CASE s = Untagged
      <4>1. F = {c \in Deals : d \in First(u, c)}  BY <1>6, <3>1 DEF Firsts
      <4> QED BY <3>1, <4>1
    <3>2. CASE s # Untagged
      <4>1. F = {}  BY <1>6, <3>2 DEF Firsts
      <4> QED BY <3>2, <4>1, FS_EmptySet
    <3> QED BY <3>1, <3>2
  <2> QED BY <2>1, <2>2 DEF Row
<1>9. IsFiniteSet(F)
  <2>1. F \in SUBSET Deals  BY <1>6 DEF Firsts
  <2> QED BY <2>1, FS_Subset
<1>10. Counted(u, d, s) = ({0} \X F) \cup E  BY <1>4, <1>6, <1>7 DEF Counted
<1>11. IsFiniteSet(E) /\ \A p \in E : p[1] # 0
  <2>1. 0 \notin 1..MaxActs  OBVIOUS
  <2> QED BY <1>5, <1>7, <2>1
<1>12. /\ IsFiniteSet(({0} \X F) \cup E)
       /\ Cardinality(({0} \X F) \cup E) = Cardinality(F) + Cardinality(E)
  BY <1>9, <1>11, Apart
<1> QED BY <1>1, <1>3, <1>8, <1>10, <1>12

\* The same of many buckets at once.
WorkedIn(u, K) == {a \in dials : a.by = u /\ <<a.on, a.source>> \in K /\ Lasting(a)}
ClosedIn(u, K) == {e \in stages : e.by = u /\ <<e.on, e.source>> \in K}
FirstsIn(u, K) == {c \in Deals : \E d \in First(u, c) : <<d, Untagged>> \in K}
EnteredIn(u, K) == UNION {Entered(entries, <<u, b[1], b[2]>>) : b \in K}
CountedIn(u, K) == ({0} \X FirstsIn(u, K)) \cup EnteredIn(u, K)

LEMMA OneFirst == \A u, c : \A d, e \in First(u, c) : d = e
BY DEF First

LEMMA CountedApart ==
    ASSUME EntriesOK, NEW u \in Members, NEW b \in Dates \X Src, NEW e \in Dates \X Src, b # e
    PROVE  Counted(u, b[1], b[2]) \cap Counted(u, e[1], e[2]) = {}
<1>1. ASSUME NEW f \in Dates \X Src
      PROVE  \A p \in Counted(u, f[1], f[2]) :
               \/ \E c \in Deals : p = <<0, c>> /\ f[2] = Untagged /\ f[1] \in First(u, c)
               \/ p[1] \in 1..MaxActs /\ entries[p[1]].of = <<u, f[1], f[2]>>
  <2>1. PICK k \in Buckets : k = <<u, f[1], f[2]>>  BY <1>1 DEF Buckets, Src
  <2>2. \A p \in Entered(entries, k) : p[1] \in 1..MaxActs /\ entries[p[1]].of = k
    <3>1. \A j, i : <<j, i>> \in Entered(entries, k) <=>
            j \in 1..MaxActs /\ entries[j].of = k /\ i \in 1..entries[j].contacts
      BY RowsAreOK, EnteredUnits
    <3>2. \A p \in Entered(entries, k) : p = <<p[1], p[2]>>  BY RowsAreOK, EnteredUnits
    <3> QED BY <3>1, <3>2
  <2>3. \A p \in {0} \X Firsts(u, f[1], f[2]) :
          \E c \in Deals : p = <<0, c>> /\ f[2] = Untagged /\ f[1] \in First(u, c)
    BY DEF Firsts
  <2> QED BY <2>1, <2>2, <2>3 DEF Counted
<1>2. b = <<b[1], b[2]>> /\ e = <<e[1], e[2]>>  OBVIOUS
<1> SUFFICES ASSUME NEW p \in Counted(u, b[1], b[2]), p \in Counted(u, e[1], e[2]) PROVE FALSE
  OBVIOUS
<1>3. CASE p[1] = 0
  <2>1. 0 \notin 1..MaxActs  OBVIOUS
  <2>2. PICK c \in Deals : p = <<0, c>> /\ b[2] = Untagged /\ b[1] \in First(u, c)
    BY <1>1, <1>3, <2>1
  <2>3. PICK g \in Deals : p = <<0, g>> /\ e[2] = Untagged /\ e[1] \in First(u, g)
    BY <1>1, <1>3, <2>1
  <2>4. c = g  BY <2>2, <2>3
  <2>5. b[1] = e[1]  BY <2>2, <2>3, <2>4, OneFirst
  <2> QED BY <1>2, <2>2, <2>3, <2>5
<1>4. CASE p[1] # 0
  <2>1. <<u, b[1], b[2]>> = <<u, e[1], e[2]>>  BY <1>1, <1>4
  <2> QED BY <1>2, <2>1
<1> QED BY <1>3, <1>4

LEMMA CountedUnits ==
    ASSUME NEW u, NEW K, K \subseteq Dates \X Src
    PROVE  \A p : p \in CountedIn(u, K) <=> \E b \in K : p \in Counted(u, b[1], b[2])
<1>1. \A p : p \in EnteredIn(u, K) <=> \E b \in K : p \in Entered(entries, <<u, b[1], b[2]>>)
  BY DEF EnteredIn
<1>2. \A p : p \in {0} \X FirstsIn(u, K) <=> \E b \in K : p \in {0} \X Firsts(u, b[1], b[2])
  <2>1. \A c \in Deals : c \in FirstsIn(u, K) <=> \E b \in K : c \in Firsts(u, b[1], b[2])
    <3>1. \A b \in K : b = <<b[1], b[2]>>  OBVIOUS
    <3> QED BY <3>1 DEF FirstsIn, Firsts
  <2>2. FirstsIn(u, K) \subseteq Deals /\ \A b : Firsts(u, b[1], b[2]) \subseteq Deals
    BY DEF FirstsIn, Firsts
  <2> QED BY <2>1, <2>2
<1> QED BY <1>1, <1>2 DEF Counted, CountedIn

LEMMA Sums ==
    ASSUME EntriesOK, CountsOK, NEW u \in Members, NEW K, K \subseteq Dates \X Src, IsFiniteSet(K),
           NEW rows, \A b \in K : rows[b] = Row(u, b[1], b[2])
    PROVE  /\ IsFiniteSet(WorkedIn(u, K)) /\ IsFiniteSet(CountedIn(u, K)) /\ IsFiniteSet(ClosedIn(u, K))
           /\ aggregateSessions(rows, K).hours = Cardinality(WorkedIn(u, K))
           /\ aggregateSessions(rows, K).contacts = Cardinality(CountedIn(u, K))
           /\ aggregateSessions(rows, K).closed = Cardinality(ClosedIn(u, K))
<1> DEFINE W == [b \in K |-> Worked(u, b[1], b[2])]
           C == [b \in K |-> Counted(u, b[1], b[2])]
           D == [b \in K |-> Closed(u, b[1], b[2])]
           w == [b \in K |-> rows[b].hours]
           c == [b \in K |-> rows[b].contacts]
           d == [b \in K |-> rows[b].closed]
<1>1. \A b \in K : b[1] \in Dates /\ b[2] \in Src /\ b = <<b[1], b[2]>>
  OBVIOUS
<1>2. ASSUME NEW b \in K
      PROVE  /\ IsFiniteSet(W[b]) /\ w[b] = Cardinality(W[b])
             /\ IsFiniteSet(C[b]) /\ c[b] = Cardinality(C[b])
             /\ IsFiniteSet(D[b]) /\ d[b] = Cardinality(D[b])
  <2>1. PICK x \in Dates : x = b[1]  BY <1>1
  <2>2. PICK y \in Src : y = b[2]  BY <1>1
  <2>3. /\ IsFiniteSet(Worked(u, x, y)) /\ IsFiniteSet(Counted(u, x, y)) /\ IsFiniteSet(Closed(u, x, y))
        /\ Row(u, x, y).hours = Cardinality(Worked(u, x, y))
        /\ Row(u, x, y).contacts = Cardinality(Counted(u, x, y))
        /\ Row(u, x, y).closed = Cardinality(Closed(u, x, y))
    BY RowSizes
  <2>4. /\ W[b] = Worked(u, x, y) /\ C[b] = Counted(u, x, y) /\ D[b] = Closed(u, x, y)
        /\ rows[b] = Row(u, x, y)
    BY <2>1, <2>2
  <2>5. w[b] = rows[b].hours /\ c[b] = rows[b].contacts /\ d[b] = rows[b].closed
    OBVIOUS
  <2> HIDE DEF W, C, D, w, c, d
  <2> QED BY <2>3, <2>4, <2>5
<1>3. ASSUME NEW b \in K, NEW e \in K, b # e
      PROVE  W[b] \cap W[e] = {} /\ D[b] \cap D[e] = {}
  <2>1. \A a \in W[b] : a.on = b[1] /\ a.source = b[2]  BY DEF Worked
  <2>2. \A a \in W[e] : a.on = e[1] /\ a.source = e[2]  BY DEF Worked
  <2>3. \A a \in D[b] : a.on = b[1] /\ a.source = b[2]  BY DEF Closed
  <2>4. \A a \in D[e] : a.on = e[1] /\ a.source = e[2]  BY DEF Closed
  <2> HIDE DEF W, D
  <2> QED BY <1>1, <1>3, <2>1, <2>2, <2>3, <2>4
<1>4. ASSUME NEW b \in K, NEW e \in K, b # e PROVE C[b] \cap C[e] = {}
  <2>1. Counted(u, b[1], b[2]) \cap Counted(u, e[1], e[2]) = {}  BY <1>4, CountedApart
  <2> QED BY <2>1
<1>6. Whole(K, W) = WorkedIn(u, K) /\ Whole(K, D) = ClosedIn(u, K)
  BY <1>1 DEF Whole, Worked, WorkedIn, Closed, ClosedIn
<1>7. Whole(K, C) = CountedIn(u, K)
  <2>1. \A p : p \in CountedIn(u, K) <=> \E b \in K : p \in Counted(u, b[1], b[2])
    BY CountedUnits
  <2>2. \A p : p \in Whole(K, C) <=> \E b \in K : p \in Counted(u, b[1], b[2])  BY DEF Whole
  <2> HIDE DEF C
  <2> QED BY <2>1, <2>2
<1>8. /\ aggregateSessions(rows, K).hours = Cardinality(Weighed(K, w))
      /\ aggregateSessions(rows, K).contacts = Cardinality(Weighed(K, c))
      /\ aggregateSessions(rows, K).closed = Cardinality(Weighed(K, d))
  <2>1. Cardinality(Weighed(K, w)) = Total(LAMBDA b : rows[b].hours, K)  BY DEF Total, Weighed
  <2>2. Cardinality(Weighed(K, c)) = Total(LAMBDA b : rows[b].contacts, K)  BY DEF Total, Weighed
  <2>3. Cardinality(Weighed(K, d)) = Total(LAMBDA b : rows[b].closed, K)  BY DEF Total, Weighed
  <2> HIDE DEF w, c, d
  <2> QED BY <2>1, <2>2, <2>3 DEF aggregateSessions
<1> HIDE DEF W, C, D, w, c, d
<1>9. Sized(K, W, w) /\ Sized(K, C, c) /\ Sized(K, D, d)  BY <1>2, <1>3, <1>4 DEF Sized
<1>10. /\ IsFiniteSet(Whole(K, W)) /\ Cardinality(Weighed(K, w)) = Cardinality(Whole(K, W))
       /\ IsFiniteSet(Whole(K, C)) /\ Cardinality(Weighed(K, c)) = Cardinality(Whole(K, C))
       /\ IsFiniteSet(Whole(K, D)) /\ Cardinality(Weighed(K, d)) = Cardinality(Whole(K, D))
  BY <1>9, SumOfSizes
<1> QED BY <1>6, <1>7, <1>8, <1>10

LEMMA DaysFinite ==
    ASSUME CountsOK, NEW x \in 0..date, NEW y \in 0..date
    PROVE  /\ x..y \subseteq Dates /\ IsFiniteSet(x..y)
           /\ IsFiniteSet(Src) /\ IsFiniteSet((x..y) \X Src)
<1> USE TrackerAssumption
<1>1. IsFiniteSet(x..y)
  <2>1. x \in Int /\ y \in Int  BY DEF CountsOK, Dates
  <2> QED BY <2>1, FS_Interval
<1>2. x..y \subseteq Dates  BY DEF CountsOK, Dates
<1>3. IsFiniteSet(Src)
  <2>1. IsFiniteSet({Untagged}) /\ IsFiniteSet(Sources)  BY FS_Singleton
  <2>2. IsFiniteSet(Sources \cup {Untagged})  BY <2>1, FS_Union
  <2> QED BY <2>2 DEF Src
<1>4. PICK D : D = x..y  OBVIOUS
<1>5. IsFiniteSet(D \X Src)  BY <1>1, <1>3, <1>4, FS_Product
<1> QED BY <1>1, <1>2, <1>3, <1>4, <1>5

LEMMA TotalsAre ==
    ASSUME EntriesOK, CountsOK, NEW u \in Members, NEW x \in 0..date, NEW y \in 0..date
    PROVE  /\ Totals(u, x, y).hours = Cardinality(WorkedIn(u, (x..y) \X Src))
           /\ Totals(u, x, y).contacts = Cardinality(CountedIn(u, (x..y) \X Src))
           /\ Totals(u, x, y).closed = Cardinality(ClosedIn(u, (x..y) \X Src))
           /\ \A s \in Src :
                getFunnel(u, x, y, s).hours = Cardinality(WorkedIn(u, (x..y) \X {s}))
<1>1. PICK K : K = (x..y) \X Src  OBVIOUS
<1>2. PICK rows : rows = getDailyRows(u, x, y)  OBVIOUS
<1>3. /\ DOMAIN rows = K
      /\ \A b \in K : rows[b] = Row(u, b[1], b[2])
  BY <1>1, <1>2 DEF getDailyRows, Src
<1>4. K \subseteq Dates \X Src /\ IsFiniteSet(K)  BY <1>1, DaysFinite
<1>5. /\ aggregateSessions(rows, K).hours = Cardinality(WorkedIn(u, K))
      /\ aggregateSessions(rows, K).contacts = Cardinality(CountedIn(u, K))
      /\ aggregateSessions(rows, K).closed = Cardinality(ClosedIn(u, K))
  BY <1>3, <1>4, Sums
<1>6. Totals(u, x, y) = aggregateSessions(rows, K)  BY <1>2, <1>3 DEF Totals
<1>7. ASSUME NEW s \in Src
      PROVE  getFunnel(u, x, y, s).hours = Cardinality(WorkedIn(u, (x..y) \X {s}))
  <2>1. PICK L : L = (x..y) \X {s}  OBVIOUS
  <2>2. L \in SUBSET K /\ {b \in DOMAIN rows : b[2] = s} = L  BY <1>1, <1>3, <2>1
  <2>3. L \subseteq Dates \X Src /\ IsFiniteSet(L)  BY <1>4, <2>2, FS_Subset
  <2>4. \A b \in L : rows[b] = Row(u, b[1], b[2])  BY <1>3, <2>2
  <2>5. aggregateSessions(rows, L).hours = Cardinality(WorkedIn(u, L))
    BY <2>3, <2>4, Sums
  <2>6. getFunnel(u, x, y, s) = aggregateSessions(rows, L)
    BY <1>2, <2>2 DEF getFunnel
  <2> QED BY <2>1, <2>5, <2>6
<1> QED BY <1>1, <1>5, <1>6, <1>7

\* The leaderboard's figures, of the same sets.
LEMMA BoardIs ==
    ASSUME EntriesOK, CountsOK, NEW u \in Members, NEW x \in 0..date, NEW y \in 0..date
    PROVE  /\ getLeaderboardTotals(x, y)[u].contacts = Cardinality(CountedIn(u, (x..y) \X Src))
           /\ getLeaderboardTotals(x, y)[u].closed = Cardinality(ClosedIn(u, (x..y) \X Src))
<1> USE TrackerAssumption
<1>1. PICK K : K = (x..y) \X Src  OBVIOUS
<1>2. \A d, s : <<d, s>> \in K <=> d \in x..y /\ s \in Src  BY <1>1
<1>3. {e \in stages : e.by = u /\ e.on \in x..y} = ClosedIn(u, K)
  <2>1. \A e \in stages : e.source \in Src  BY DEF CountsOK, Stage
  <2> QED BY <1>2, <2>1 DEF ClosedIn
<1>4. {c \in Deals : First(u, c) \cap (x..y) # {}} = FirstsIn(u, K)
  <2>1. Untagged \in Src  BY DEF Src
  <2> QED BY <1>2, <2>1 DEF FirstsIn
<1> DEFINE Here(k) == entries[k] # NoEntry /\ entries[k].of[1] = u /\ entries[k].of[2] \in x..y
           U == UNION {{k} \X (1..(IF Here(k) THEN entries[k].contacts ELSE 0)) : k \in DOMAIN entries}
<1>5. x..y \subseteq Dates  BY DaysFinite
<1>6. \A j, i : <<j, i>> \in EnteredIn(u, K) <=>
        /\ j \in 1..MaxActs /\ i \in 1..entries[j].contacts
        /\ \E b \in K : entries[j].of = <<u, b[1], b[2]>>
  <2>1. \A b \in K : <<u, b[1], b[2]>> \in Buckets  BY <1>1, <1>5 DEF Buckets, Src
  <2>2. \A b \in K : \A j, i : <<j, i>> \in Entered(entries, <<u, b[1], b[2]>>) <=>
          j \in 1..MaxActs /\ entries[j].of = <<u, b[1], b[2]>> /\ i \in 1..entries[j].contacts
    <3> SUFFICES ASSUME NEW b \in K
                 PROVE  \A j, i : <<j, i>> \in Entered(entries, <<u, b[1], b[2]>>) <=>
                          /\ j \in 1..MaxActs /\ entries[j].of = <<u, b[1], b[2]>>
                          /\ i \in 1..entries[j].contacts
      OBVIOUS
    <3>1. PICK k \in Buckets : k = <<u, b[1], b[2]>>  BY <2>1
    <3>2. \A j, i : <<j, i>> \in Entered(entries, k) <=>
            j \in 1..MaxActs /\ entries[j].of = k /\ i \in 1..entries[j].contacts
      BY RowsAreOK, EnteredUnits
    <3> QED BY <3>1, <3>2
  <2> QED BY <2>2 DEF EnteredIn
<1>7. \A p \in EnteredIn(u, K) : p = <<p[1], p[2]>> /\ p[1] \in 1..MaxActs
  <2>1. \A b \in K : <<u, b[1], b[2]>> \in Buckets  BY <1>1, <1>5 DEF Buckets, Src
  <2>2. \A b \in K : \A p \in Entered(entries, <<u, b[1], b[2]>>) : p = <<p[1], p[2]>> /\ p[1] \in 1..MaxActs
    BY <2>1, RowsAreOK, EnteredUnits
  <2> QED BY <2>2 DEF EnteredIn
<1>8. ASSUME NEW k \in 1..MaxActs
      PROVE  Here(k) <=> \E b \in K : entries[k].of = <<u, b[1], b[2]>>
  <2>1. CASE entries[k] = NoEntry
    <3>1. entries[k].of = <<>>  BY <2>1 DEF NoEntry
    <3>2. \A b : entries[k].of # <<u, b[1], b[2]>>  BY <3>1
    <3> QED BY <2>1, <3>2
  <2>2. CASE entries[k] # NoEntry
    <3>1. entries[k].of \in Buckets  BY <2>2 DEF EntriesOK, RowsOK, RowOK
    <3>2. PICK v \in Members, d \in Dates, s \in Src : entries[k].of = <<v, d, s>>
      BY <3>1 DEF Buckets, Src
    <3>3. Here(k) <=> v = u /\ d \in x..y  BY <2>2, <3>2
    <3>4. ASSUME v = u, d \in x..y PROVE \E b \in K : entries[k].of = <<u, b[1], b[2]>>
      <4>1. <<d, s>> \in K  BY <1>2, <3>4
      <4>2. PICK b \in K : b = <<d, s>>  BY <4>1
      <4>3. entries[k].of = <<u, b[1], b[2]>>  BY <3>2, <3>4, <4>2
      <4> QED BY <4>3
    <3>5. ASSUME NEW b \in K, entries[k].of = <<u, b[1], b[2]>> PROVE v = u /\ d \in x..y
      <4>1. v = u /\ d = b[1]  BY <3>2, <3>5
      <4>2. b[1] \in x..y  BY <1>1
      <4> QED BY <4>1, <4>2
    <3> HIDE DEF Here
    <3> QED BY <3>3, <3>4, <3>5
  <2> QED BY <2>1, <2>2
<1>9. U = EnteredIn(u, K)
  <2>1. \A k \in 1..MaxActs : entries[k].contacts \in Nat
    <3> SUFFICES ASSUME NEW k \in 1..MaxActs PROVE entries[k].contacts \in Nat
      OBVIOUS
    <3>1. CASE entries[k] = NoEntry  BY <3>1 DEF NoEntry
    <3>2. CASE entries[k] # NoEntry
      <4>1. entries[k] \in [of : Buckets, contacts : Nat]  BY <3>2 DEF EntriesOK, RowsOK, RowOK
      <4> QED BY <4>1
    <3> QED BY <3>1, <3>2
  <2>2. DOMAIN entries = 1..MaxActs  BY DEF EntriesOK, RowsOK
  <2> HIDE DEF Here
  <2>3. \A j, i : <<j, i>> \in U <=> j \in 1..MaxActs /\ Here(j) /\ i \in 1..entries[j].contacts
    BY <2>1, <2>2
  <2>4. \A p \in U : p = <<p[1], p[2]>>  OBVIOUS
  <2> HIDE DEF U
  <2>5. \A j, i : <<j, i>> \in U <=> <<j, i>> \in EnteredIn(u, K)
    <3> SUFFICES ASSUME NEW j, NEW i PROVE <<j, i>> \in U <=> <<j, i>> \in EnteredIn(u, K)
      OBVIOUS
    <3>1. CASE j \in 1..MaxActs
      <4>1. Here(j) <=> \E b \in K : entries[j].of = <<u, b[1], b[2]>>  BY <1>8, <3>1
      <4> QED BY <1>6, <2>3, <3>1, <4>1, Zenon
    <3>2. CASE j \notin 1..MaxActs  BY <1>6, <2>3, <3>2, Zenon
    <3> QED BY <3>1, <3>2
  <2>6. \A p \in U : p \in EnteredIn(u, K)  BY <2>4, <2>5
  <2>7. \A p \in EnteredIn(u, K) : p = <<p[1], p[2]>>  BY <1>7
  <2>8. \A p \in EnteredIn(u, K) : p \in U  BY <2>5, <2>7
  <2> QED BY <2>6, <2>8
<1>10. Cardinality(U) = Total(LAMBDA k : IF /\ entries[k] # NoEntry /\ entries[k].of[1] = u
                                            /\ entries[k].of[2] \in x..y
                                         THEN entries[k].contacts ELSE 0, DOMAIN entries)
  BY DEF Total
<1> HIDE DEF U, Here
<1>11. K \subseteq Dates \X Src /\ IsFiniteSet(K)  BY <1>1, DaysFinite
<1>12. Cardinality(CountedIn(u, K)) = Cardinality(FirstsIn(u, K)) + Cardinality(EnteredIn(u, K))
  <2>1. PICK F : F = FirstsIn(u, K)  OBVIOUS
  <2>2. PICK E : E = EnteredIn(u, K)  OBVIOUS
  <2>3. IsFiniteSet(F)
    <3>1. F \in SUBSET Deals  BY <2>1 DEF FirstsIn
    <3> QED BY <3>1, FS_Subset
  <2>4. IsFiniteSet(E)
    <3>1. PICK rows : \A b \in K : rows[b] = Row(u, b[1], b[2])
      <4>1. \A b \in K : [b2 \in K |-> Row(u, b2[1], b2[2])][b] = Row(u, b[1], b[2])  OBVIOUS
      <4> QED BY <4>1
    <3>2. IsFiniteSet(CountedIn(u, K))  BY <1>11, <3>1, Sums
    <3>3. E \in SUBSET CountedIn(u, K)  BY <2>2 DEF CountedIn
    <3> QED BY <3>2, <3>3, FS_Subset
  <2>5. \A p \in E : p[1] # 0
    <3>1. 0 \notin 1..MaxActs  OBVIOUS
    <3> QED BY <1>7, <2>2, <3>1
  <2>6. Cardinality(({0} \X F) \cup E) = Cardinality(F) + Cardinality(E)
    BY <2>3, <2>4, <2>5, Apart
  <2> QED BY <2>1, <2>2, <2>6 DEF CountedIn
<1>13. /\ getLeaderboardTotals(x, y)[u].contacts = Cardinality(FirstsIn(u, K)) + Cardinality(U)
       /\ getLeaderboardTotals(x, y)[u].closed = Cardinality(ClosedIn(u, K))
  BY <1>3, <1>4, <1>10 DEF getLeaderboardTotals
<1> QED BY <1>1, <1>9, <1>12, <1>13

\* What the screens add up is of one set, however it is split.
LEMMA TrackerSums ==
    ASSUME EntriesOK, CountsOK, ToldOK
    PROVE  TrackerWhole
<1>1. ASSUME NEW u \in Members, NEW x \in 0..date
      PROVE  /\ Totals(u, x, date).contacts = getLeaderboardTotals(x, date)[u].contacts
             /\ Totals(u, x, date).closed = getLeaderboardTotals(x, date)[u].closed
  <2>1. date \in 0..date  BY DEF CountsOK, Dates
  <2>2. /\ Totals(u, x, date).contacts = Cardinality(CountedIn(u, (x..date) \X Src))
        /\ Totals(u, x, date).closed = Cardinality(ClosedIn(u, (x..date) \X Src))
    BY <2>1, TotalsAre
  <2>3. /\ getLeaderboardTotals(x, date)[u].contacts = Cardinality(CountedIn(u, (x..date) \X Src))
        /\ getLeaderboardTotals(x, date)[u].closed = Cardinality(ClosedIn(u, (x..date) \X Src))
    BY <2>1, BoardIs
  <2> QED BY <2>2, <2>3
<1>2. ASSUME NEW u \in Members, NEW x \in 0..date, NEW channels, channels = getChannels(u, x, date)
      PROVE  Totals(u, x, date).hours = Total(LAMBDA s : channels[s].hours, DOMAIN channels)
  <2> DEFINE A == [s \in Src |-> WorkedIn(u, (x..date) \X {s})]
             h == [s \in Src |-> channels[s].hours]
  <2>1. date \in 0..date  BY DEF CountsOK, Dates
  <2>2. DOMAIN channels = Src /\ \A s \in Src : channels[s] = getFunnel(u, x, date, s)
    BY <1>2 DEF getChannels, Src
  <2>3. Total(LAMBDA s : channels[s].hours, DOMAIN channels) = Cardinality(Weighed(Src, h))
    BY <2>2 DEF Total, Weighed
  <2>4. ASSUME NEW s \in Src PROVE IsFiniteSet(A[s]) /\ h[s] = Cardinality(A[s])
    <3>1. A[s] \in SUBSET dials  BY DEF WorkedIn
    <3>2. h[s] = getFunnel(u, x, date, s).hours /\ A[s] = WorkedIn(u, (x..date) \X {s})
      BY <2>2
    <3> HIDE DEF A, h
    <3>3. getFunnel(u, x, date, s).hours = Cardinality(WorkedIn(u, (x..date) \X {s}))
      <4>1. \A t \in Src : getFunnel(u, x, date, t).hours = Cardinality(WorkedIn(u, (x..date) \X {t}))
        BY <2>1, TotalsAre
      <4> QED BY <4>1
    <3> QED BY <3>1, <3>2, <3>3, FS_Subset DEF CountsOK
  <2>5. \A s, t \in Src : s # t => A[s] \cap A[t] = {}
    <3>1. \A s \in Src : \A a \in A[s] : a.source = s  BY DEF WorkedIn
    <3> HIDE DEF A
    <3> QED BY <3>1
  <2>6. Whole(Src, A) = WorkedIn(u, (x..date) \X Src)  BY DEF Whole, WorkedIn
  <2> HIDE DEF A, h
  <2>7. Sized(Src, A, h)  BY <2>1, <2>4, <2>5, DaysFinite DEF Sized
  <2>8. Cardinality(Weighed(Src, h)) = Cardinality(Whole(Src, A))  BY <2>7, SumOfSizes
  <2>9. Totals(u, x, date).hours = Cardinality(WorkedIn(u, (x..date) \X Src))
    BY <2>1, TotalsAre
  <2> QED BY <2>3, <2>6, <2>8, <2>9
<1>3. ASSUME NEW u \in Members, NEW x \in 0..date
      PROVE  Totals(u, x, date).contacts = Total(LAMBDA d : Totals(u, d, d).contacts, x..date)
  <2> DEFINE D == x..date
             Day(d) == (d..d) \X Src
             A == [d \in D |-> CountedIn(u, Day(d))]
             h == [d \in D |-> Totals(u, d, d).contacts]
  <2>1. date \in 0..date /\ x \in Nat /\ date \in Nat /\ D \subseteq 0..date
    BY DEF CountsOK, Dates
  <2>2. Total(LAMBDA d : Totals(u, d, d).contacts, D) = Cardinality(Weighed(D, h))
    BY DEF Total, Weighed
  <2>3. ASSUME NEW d \in D
        PROVE  /\ Day(d) \subseteq Dates \X Src /\ IsFiniteSet(Day(d))
               /\ \A b : b \in Day(d) <=> b \in D \X Src /\ b[1] = d
    <3>1. d \in 0..date  BY <2>1
    <3>2. d..d \subseteq Dates /\ IsFiniteSet((d..d) \X Src)  BY <3>1, DaysFinite
    <3>3. d..d = {d}  BY <3>1, <2>1
    <3> QED BY <3>2, <3>3
  <2>4. ASSUME NEW d \in D PROVE IsFiniteSet(A[d]) /\ h[d] = Cardinality(A[d])
    <3>1. d \in 0..date  BY <2>1
    <3>2. PICK K : K = Day(d)  OBVIOUS
    <3>3. PICK rows : \A b \in K : rows[b] = Row(u, b[1], b[2])
      <4>1. \A b \in K : [b2 \in K |-> Row(u, b2[1], b2[2])][b] = Row(u, b[1], b[2])  OBVIOUS
      <4> QED BY <4>1
    <3>4. IsFiniteSet(CountedIn(u, K))  BY <2>3, <3>2, <3>3, Sums
    <3>5. Totals(u, d, d).contacts = Cardinality(CountedIn(u, K))  BY <3>1, <3>2, TotalsAre
    <3>6. A[d] = CountedIn(u, K) /\ h[d] = Totals(u, d, d).contacts  BY <3>2
    <3> QED BY <3>4, <3>5, <3>6
  <2>5. ASSUME NEW d \in D
        PROVE  \A p : p \in A[d] <=> \E b \in Day(d) : p \in Counted(u, b[1], b[2])
    <3>1. PICK K : K = Day(d)  OBVIOUS
    <3>2. K \subseteq Dates \X Src  BY <2>3, <3>1
    <3>3. \A p : p \in CountedIn(u, K) <=> \E b \in K : p \in Counted(u, b[1], b[2])
      BY <3>2, CountedUnits
    <3>4. A[d] = CountedIn(u, K)  BY <3>1
    <3> HIDE DEF A, Day
    <3> QED BY <3>1, <3>3, <3>4
  <2>6. PICK K : K = D \X Src  OBVIOUS
  <2>7. K \subseteq Dates \X Src /\ IsFiniteSet(D)  BY <2>1, <2>6, DaysFinite
  <2>8. \A p : p \in CountedIn(u, K) <=> \E b \in K : p \in Counted(u, b[1], b[2])
    BY <2>7, CountedUnits
  <2> HIDE DEF A, Day, h
  <2>9. ASSUME NEW d \in D, NEW e \in D, d # e, NEW p \in A[d], p \in A[e] PROVE FALSE
    <3>1. PICK b \in Day(d) : p \in Counted(u, b[1], b[2])  BY <2>5
    <3>2. PICK f \in Day(e) : p \in Counted(u, f[1], f[2])  BY <2>5, <2>9
    <3>3. b # f /\ b \in Dates \X Src /\ f \in Dates \X Src  BY <2>3, <2>9
    <3>4. Counted(u, b[1], b[2]) \cap Counted(u, f[1], f[2]) = {}  BY <3>3, CountedApart
    <3> QED BY <3>1, <3>2, <3>4
  <2>10. Whole(D, A) = CountedIn(u, K)
    <3>1. \A p : p \in Whole(D, A) <=> \E d \in D : p \in A[d]  BY DEF Whole
    <3>2. \A b \in K : b[1] \in D /\ b \in Day(b[1])  BY <2>3, <2>6
    <3>3. \A d \in D : \A b \in Day(d) : b \in K  BY <2>3, <2>6
    <3> HIDE DEF D
    <3> QED BY <2>5, <2>8, <3>1, <3>2, <3>3
  <2>11. Sized(D, A, h)
    <3>1. \A d \in D : IsFiniteSet(A[d]) /\ h[d] = Cardinality(A[d])  BY <2>4
    <3>2. \A d, e \in D : d # e => A[d] \cap A[e] = {}  BY <2>9
    <3> HIDE DEF D
    <3> QED BY <2>7, <3>1, <3>2 DEF Sized
  <2>12. Cardinality(Weighed(D, h)) = Cardinality(Whole(D, A))  BY <2>11, SumOfSizes
  <2>13. Totals(u, x, date).contacts = Cardinality(CountedIn(u, K))
    BY <2>1, <2>6, TotalsAre
  <2> QED BY <2>2, <2>10, <2>12, <2>13
<1>4. ASSUME NEW b \in Buckets
      PROVE  told[b] = Total(LAMBDA k : IF entries[k].of = b THEN entries[k].contacts ELSE 0, DOMAIN entries)
                       + Total(LAMBDA v : IF v.of = b THEN v.n ELSE 0, saves)
  <2>1. Total(LAMBDA k : IF entries[k].of = b THEN entries[k].contacts ELSE 0, DOMAIN entries)
          = Cardinality(Entered(entries, b))
    BY DEF Total, Entered, Units
  <2>2. Total(LAMBDA v : IF v.of = b THEN v.n ELSE 0, saves) = Cardinality(Waiting(saves, b))
    BY DEF Total, Waiting, Weight
  <2>3. told[b] \in Int /\ told[b] - Cardinality(Waiting(saves, b)) = Cardinality(Entered(entries, b))
    BY DEF ToldOK, Landed
  <2>4. Cardinality(Waiting(saves, b)) \in Nat  BY FS_CardinalityType DEF ToldOK
  <2>5. told[b] = Cardinality(Entered(entries, b)) + Cardinality(Waiting(saves, b))  BY <2>3, <2>4
  <2> QED BY <2>1, <2>2, <2>5
<1> QED BY <1>1, <1>2, <1>3, <1>4 DEF TrackerWhole

\* A row by hand that changes is told of once.
With(f, k, r) == [f EXCEPT ![k] = r]

LEMMA OneRow ==
    ASSUME NEW f, RowsOK(f), NEW k \in 1..MaxActs, NEW r, RowOK(r), NEW b \in Buckets
    PROVE  /\ RowsOK(With(f, k, r))
           /\ Cardinality(Entered(With(f, k, r), b))
                = Cardinality(Entered(f, b)) - Units(f[k], b) + Units(r, b)
<1>1. PICK g : g = With(f, k, r)  OBVIOUS
<1>2. g = [j \in 1..MaxActs |-> g[j]] /\ g[k] = r /\ \A j \in 1..MaxActs : j # k => g[j] = f[j]
  BY <1>1 DEF RowsOK, With
<1>3. RowsOK(g)
  <2>1. \A j \in 1..MaxActs : RowOK(g[j])
    <3> SUFFICES ASSUME NEW j \in 1..MaxActs PROVE RowOK(g[j])
      OBVIOUS
    <3>1. CASE j = k  BY <1>2, <3>1
    <3>2. CASE j # k
      <4>1. RowOK(f[j])  BY DEF RowsOK
      <4> QED BY <1>2, <3>2, <4>1
    <3> QED BY <3>1, <3>2
  <2> QED BY <1>2, <2>1 DEF RowsOK
<1>4. \A e : RowOK(e) => e.contacts \in Nat /\ Units(e, b) \in Nat
  <2> SUFFICES ASSUME NEW e, RowOK(e) PROVE e.contacts \in Nat /\ Units(e, b) \in Nat
    OBVIOUS
  <2>1. CASE e = NoEntry
    <3>1. e.contacts = 0  BY <2>1 DEF NoEntry
    <3> QED BY <3>1 DEF Units
  <2>2. CASE e \in [of : Buckets, contacts : Nat]
    <3>1. e.contacts \in Nat  BY <2>2
    <3> QED BY <3>1 DEF Units
  <2> QED BY <2>1, <2>2 DEF RowOK
<1>5. PICK m \in Nat : m = Units(f[k], b)
  <2>1. RowOK(f[k])  BY DEF RowsOK
  <2> QED BY <1>4, <2>1
<1>6. PICK n \in Nat : n = Units(r, b)  BY <1>4
<1>7. PICK E : E = Entered(f, b)  OBVIOUS
<1>8. PICK G : G = Entered(g, b)  OBVIOUS
<1>9. /\ IsFiniteSet(E) /\ \A p \in E : p = <<p[1], p[2]>> /\ p[1] \in 1..MaxActs
      /\ \A j, i : <<j, i>> \in E <=> j \in 1..MaxActs /\ f[j].of = b /\ i \in 1..f[j].contacts
  BY <1>7, EnteredUnits
<1>10. /\ IsFiniteSet(G) /\ \A p \in G : p = <<p[1], p[2]>> /\ p[1] \in 1..MaxActs
       /\ \A j, i : <<j, i>> \in G <=> j \in 1..MaxActs /\ g[j].of = b /\ i \in 1..g[j].contacts
  BY <1>3, <1>8, EnteredUnits
<1>11. PICK R : R = {p \in E : p[1] # k}  OBVIOUS
<1>12. \A i : <<k, i>> \in E <=> i \in 1..m
  <2>1. RowOK(f[k])  BY DEF RowsOK
  <2>2. \A i : i \in 1..m <=> f[k].of = b /\ i \in 1..f[k].contacts
    BY <1>4, <1>5, <2>1 DEF Units
  <2> QED BY <1>9, <2>2
<1>13. \A i : <<k, i>> \in G <=> i \in 1..n
  <2>1. \A i : i \in 1..n <=> r.of = b /\ i \in 1..r.contacts
    BY <1>4, <1>6 DEF Units
  <2> QED BY <1>2, <1>10, <2>1
<1>14. E = R \cup ({k} \X (1..m))
  <2>1. \A p \in {k} \X (1..m) : p = <<k, p[2]>> /\ p[2] \in 1..m  OBVIOUS
  <2>2. \A p \in {k} \X (1..m) : p \in E  BY <1>12, <2>1
  <2>3. \A p \in E : p[1] = k => p \in {k} \X (1..m)  BY <1>9, <1>12
  <2> QED BY <1>11, <2>2, <2>3
<1>15. G = R \cup ({k} \X (1..n))
  <2>1. \A p \in {k} \X (1..n) : p = <<k, p[2]>> /\ p[2] \in 1..n  OBVIOUS
  <2>2. \A p \in {k} \X (1..n) : p \in G  BY <1>13, <2>1
  <2>3. \A p \in G : p[1] = k => p \in {k} \X (1..n)  BY <1>10, <1>13
  <2>4. \A j, i : j # k => (<<j, i>> \in G <=> <<j, i>> \in E)  BY <1>2, <1>9, <1>10
  <2>5. \A p \in R : p \in G  BY <1>9, <1>11, <2>4
  <2>6. \A p \in G : p[1] # k => p \in R  BY <1>10, <1>11, <2>4
  <2> QED BY <2>2, <2>3, <2>5, <2>6
<1>16. IsFiniteSet(R)
  <2>1. R \in SUBSET E  BY <1>11
  <2> QED BY <1>9, <2>1, FS_Subset
<1>17. ASSUME NEW l \in Nat
       PROVE  Cardinality(R \cup ({k} \X (1..l))) = Cardinality(R) + l
  <2>1. PICK L : L = {k} \X (1..l)  OBVIOUS
  <2>2. IsFiniteSet(L) /\ Cardinality(L) = l  BY <2>1, Line
  <2>3. R \cap L = {}
    <3>1. \A p \in L : p[1] = k  BY <2>1
    <3> QED BY <1>11, <3>1
  <2>4. Cardinality(R \cup L) = Cardinality(R) + Cardinality(L) - Cardinality({})
    BY <1>16, <2>2, <2>3, FS_Union
  <2>5. Cardinality({}) = 0 /\ Cardinality(R) \in Nat  BY <1>16, FS_EmptySet, FS_CardinalityType
  <2> QED BY <2>1, <2>2, <2>4, <2>5
<1>18. Cardinality(E) = Cardinality(R) + m /\ Cardinality(G) = Cardinality(R) + n
  BY <1>14, <1>15, <1>17
<1>19. Cardinality(R) \in Nat  BY <1>16, FS_CardinalityType
<1>20. Cardinality(G) = Cardinality(E) - m + n  BY <1>18, <1>19
<1> QED BY <1>1, <1>3, <1>5, <1>6, <1>7, <1>8, <1>20

TrackerInv == EntriesOK /\ CountsOK /\ ToldOK

LEMMA TrackerStarts == TrackerInit => TrackerInv
<1> USE TrackerAssumption
<1> SUFFICES ASSUME TrackerInit PROVE TrackerInv
  OBVIOUS
<1> USE DEF TrackerInit
<1>1. RowsOK(entries)
  <2>1. \A k \in 1..MaxActs : entries[k] = NoEntry  OBVIOUS
  <2>2. entries = [k \in 1..MaxActs |-> entries[k]]  OBVIOUS
  <2> QED BY <2>1, <2>2 DEF RowsOK, RowOK
<1>2. EntriesOK
  <2>1. acts \in 0..MaxActs  OBVIOUS
  <2>2. \A k \in 1..MaxActs : entries[k] = NoEntry  OBVIOUS
  <2> QED BY <1>1, <2>1, <2>2 DEF EntriesOK
<1>3. CountsOK
  <2>1. date \in Dates  BY DEF Dates
  <2>2. IsFiniteSet(dials) /\ IsFiniteSet(stages)  BY FS_EmptySet
  <2> QED BY <2>1, <2>2 DEF CountsOK
<1>4. ToldOK
  <2>2. \A b : Waiting(saves, b) = {}  BY DEF Waiting
  <2>1. ASSUME NEW b \in Buckets PROVE Cardinality(Entered(entries, b)) = 0
    <3>1. \A p \in Entered(entries, b) : FALSE
      <4>1. \A k, i : <<k, i>> \in Entered(entries, b) <=>
              k \in 1..MaxActs /\ entries[k].of = b /\ i \in 1..entries[k].contacts
        BY <1>1, EnteredUnits
      <4>2. \A p \in Entered(entries, b) : p = <<p[1], p[2]>>  BY <1>1, EnteredUnits
      <4>3. \A k \in 1..MaxActs : entries[k].contacts = 0  BY DEF NoEntry
      <4>4. \A i : i \notin 1..0  OBVIOUS
      <4> QED BY <4>1, <4>2, <4>3, <4>4
    <3>2. Entered(entries, b) = {}  BY <3>1
    <3> QED BY <3>2, FS_EmptySet
  <2>3. told \in [Buckets -> Int] /\ \A b \in Buckets : told[b] = 0  OBVIOUS
  <2>4. Cardinality({}) = 0 /\ IsFiniteSet({})  BY FS_EmptySet
  <2>5. \A b \in Buckets : Landed(b) = 0  BY <2>2, <2>3, <2>4 DEF Landed
  <2> QED BY <2>1, <2>2, <2>3, <2>4, <2>5 DEF ToldOK
<1> QED BY <1>2, <1>3, <1>4 DEF TrackerInv

\* A save that comes or goes weighs in its bucket what it brings.
LEMMA OneSave ==
    ASSUME NEW S, NEW v, v \notin S, v.n \in Nat, NEW b, IsFiniteSet(Waiting(S, b))
    PROVE  /\ IsFiniteSet(Waiting(S \cup {v}, b)) /\ Weight(v, b) \in Nat
           /\ Cardinality(Waiting(S \cup {v}, b)) = Cardinality(Waiting(S, b)) + Weight(v, b)
<1>1. PICK m \in Nat : m = Weight(v, b)  BY DEF Weight
<1>2. PICK L : L = {v} \X (1..m)  OBVIOUS
<1>3. IsFiniteSet(L) /\ Cardinality(L) = m  BY <1>2, Line
<1>4. Waiting(S \cup {v}, b) = Waiting(S, b) \cup L  BY <1>1, <1>2 DEF Waiting
<1>5. Waiting(S, b) \cap L = {}
  <2>1. \A p \in Waiting(S, b) : p[1] \in S  BY DEF Waiting
  <2>2. \A p \in L : p[1] = v  BY <1>2
  <2> QED BY <2>1, <2>2
<1>6. IsFiniteSet(Waiting(S, b) \cup L)
      /\ Cardinality(Waiting(S, b) \cup L) = Cardinality(Waiting(S, b)) + Cardinality(L) - Cardinality({})
  BY <1>3, <1>5, FS_Union
<1>7. Cardinality({}) = 0  BY FS_EmptySet
<1>8. PICK n \in Nat : n = Cardinality(Waiting(S, b))  BY FS_CardinalityType
<1>9. PICK T : T = Waiting(S \cup {v}, b)  OBVIOUS
<1>10. IsFiniteSet(T) /\ Cardinality(T) = n + m
  <2>1. PICK W : W = Waiting(S, b)  OBVIOUS
  <2>2. T = W \cup L  BY <1>4, <1>9, <2>1
  <2>3. IsFiniteSet(T) /\ Cardinality(T) = Cardinality(W) + Cardinality(L) - Cardinality({})
    BY <1>6, <2>1, <2>2
  <2>4. Cardinality(W) = n  BY <1>8, <2>1
  <2> QED BY <1>3, <1>7, <2>3, <2>4
<1> QED BY <1>1, <1>8, <1>9, <1>10

LEMMA SaveEnds ==
    ASSUME EntriesOK, ToldOK, NEW v \in saves, saves' = saves \ {v}, NEW b \in Buckets
    PROVE  /\ IsFiniteSet(Waiting(saves', b)) /\ Weight(v, b) \in Nat
           /\ Cardinality(Waiting(saves', b)) = Cardinality(Waiting(saves, b)) - Weight(v, b)
           /\ Cardinality(Waiting(saves', b)) \in Nat
<1>1. PICK S : S = saves \ {v}  OBVIOUS
<1>2. v \notin S /\ saves = S \cup {v}  BY <1>1
<1>8. \A c : Waiting(saves', c) = Waiting(S, c)  BY <1>1 DEF Waiting
<1>3. v.n \in Nat  BY DEF EntriesOK, SaveOK
<1>4. Waiting(S, b) \in SUBSET Waiting(saves, b)  BY <1>2 DEF Waiting
<1>5. IsFiniteSet(Waiting(S, b))  BY <1>4, FS_Subset DEF ToldOK
<1>6. Weight(v, b) \in Nat
      /\ Cardinality(Waiting(S \cup {v}, b)) = Cardinality(Waiting(S, b)) + Weight(v, b)
  BY <1>2, <1>3, <1>5, OneSave
<1>7. PICK n \in Nat : n = Cardinality(Waiting(S, b))  BY <1>5, FS_CardinalityType
<1>9. PICK m \in Nat : m = Weight(v, b)  BY <1>6
<1>10. Cardinality(Waiting(saves, b)) = n + m  BY <1>2, <1>6, <1>7, <1>9
<1>11. Cardinality(Waiting(saves', b)) = n /\ IsFiniteSet(Waiting(saves', b))
  BY <1>5, <1>7, <1>8
<1>12. n = (n + m) - m  OBVIOUS
<1> QED BY <1>9, <1>10, <1>11, <1>12

\* What an entry that is under way brings is landed when it is over.
LEMMA SaveLands ==
    ASSUME EntriesOK, ToldOK, NEW v \in saves, saves' = saves \ {v}, UNCHANGED told
    PROVE  /\ told' \in [Buckets -> Int] /\ \A b \in Buckets : IsFiniteSet(Waiting(saves', b))
           /\ \A b \in Buckets : Landed(b)' = Landed(b) + (IF b = v.of THEN v.n ELSE 0)
<1>1. told' \in [Buckets -> Int]  BY DEF ToldOK
<1>2. \A b \in Buckets : IsFiniteSet(Waiting(saves', b))  BY SaveEnds
<1>3. ASSUME NEW b \in Buckets PROVE Landed(b)' = Landed(b) + (IF b = v.of THEN v.n ELSE 0)
  <2>1. /\ Weight(v, b) \in Nat /\ Cardinality(Waiting(saves', b)) \in Nat
        /\ Cardinality(Waiting(saves', b)) = Cardinality(Waiting(saves, b)) - Weight(v, b)
    BY SaveEnds
  <2>2. Cardinality(Waiting(saves, b)) \in Nat  BY FS_CardinalityType DEF ToldOK
  <2>3. told[b] \in Int /\ told'[b] = told[b]  BY DEF ToldOK
  <2>4. Landed(b)' = told'[b] - Cardinality(Waiting(saves', b))  BY DEF Landed
  <2>5. Landed(b) = told[b] - Cardinality(Waiting(saves, b))  BY DEF Landed
  <2>6. Landed(b)' = Landed(b) + Weight(v, b)  BY <2>1, <2>2, <2>3, <2>4, <2>5
  <2> QED BY <2>6 DEF Weight
<1> QED BY <1>1, <1>2, <1>3

LEMMA TollOfRow ==
    ASSUME EntriesOK, ToldOK, NEW k \in 1..MaxActs, NEW r, RowOK(r),
           entries' = [entries EXCEPT ![k] = r],
           NEW x \in Buckets, NEW z \in Int,
           told' \in [Buckets -> Int], \A b \in Buckets : IsFiniteSet(Waiting(saves', b)),
           \A b \in Buckets : Landed(b)' = Landed(b) + (IF b = x THEN z ELSE 0),
           \A b \in Buckets : Units(r, b) - Units(entries[k], b) = (IF b = x THEN z ELSE 0)
    PROVE  RowsOK(entries') /\ ToldOK'
<1>1. RowsOK(entries)  BY RowsAreOK
<1>2. PICK g : g = With(entries, k, r)  OBVIOUS
<1>3. ASSUME NEW b \in Buckets
      PROVE  /\ RowsOK(g)
             /\ Cardinality(Entered(g, b))
                  = Cardinality(Entered(entries, b)) - Units(entries[k], b) + Units(r, b)
  BY <1>1, <1>2, OneRow
<1>4. RowsOK(g)  BY <1>3
<1>5. ASSUME NEW b \in Buckets PROVE Units(entries[k], b) \in Nat /\ Units(r, b) \in Nat
  <2>1. \A e : RowOK(e) => Units(e, b) \in Nat
    <3> SUFFICES ASSUME NEW e, RowOK(e) PROVE Units(e, b) \in Nat
      OBVIOUS
    <3>1. CASE e = NoEntry
      <4>1. e.contacts = 0  BY <3>1 DEF NoEntry
      <4> QED BY <4>1 DEF Units
    <3>2. CASE e \in [of : Buckets, contacts : Nat]
      <4>1. e.contacts \in Nat  BY <3>2
      <4> QED BY <4>1 DEF Units
    <3> QED BY <3>1, <3>2 DEF RowOK
  <2>2. RowOK(entries[k])  BY <1>1 DEF RowsOK
  <2> QED BY <2>1, <2>2
<1>7. ASSUME NEW b \in Buckets PROVE Landed(b)' = Cardinality(Entered(g, b))
  <2>1. Landed(b)' = Landed(b) + (IF b = x THEN z ELSE 0)  OBVIOUS
  <2>2. Landed(b) = Cardinality(Entered(entries, b)) /\ Landed(b) \in Int
    <3>1. Landed(b) = Cardinality(Entered(entries, b))  BY DEF ToldOK
    <3>2. IsFiniteSet(Entered(entries, b))  BY <1>1, EnteredUnits
    <3> QED BY <3>1, <3>2, FS_CardinalityType
  <2>3. Units(r, b) - Units(entries[k], b) = IF b = x THEN z ELSE 0  OBVIOUS
  <2>4. PICK m \in Nat : m = Units(entries[k], b)  BY <1>5
  <2>5. PICK n \in Nat : n = Units(r, b)  BY <1>5
  <2>6. Cardinality(Entered(g, b)) = Landed(b) - m + n  BY <1>3, <2>2, <2>4, <2>5
  <2>7. n - m = IF b = x THEN z ELSE 0  BY <2>3, <2>4, <2>5
  <2>8. PICK l : l = Landed(b)  OBVIOUS
  <2> QED BY <2>1, <2>2, <2>6, <2>7
<1>8. entries' = g  BY <1>2 DEF With
<1>9. ToldOK'
  <2>1. \A b \in Buckets : Landed(b)' = Cardinality(Entered(entries', b))  BY <1>7, <1>8
  <2> QED BY <2>1 DEF ToldOK, Buckets, Dates
<1> QED BY <1>4, <1>8, <1>9

\* Other saves do not mind: of the row that changes, the bucket stays or goes.
LEMMA SavesStay ==
    ASSUME EntriesOK, NEW k \in 1..acts, RowsOK(entries'), acts' \in acts..MaxActs,
           \A j \in 1..MaxActs : j # k => entries'[j] = entries[j],
           saves' \subseteq saves,
           \A v \in saves' : v.id # k /\ (v.row = k => entries'[k] = NoEntry \/ entries'[k].of = v.of)
    PROVE  EntriesOK'
<1> USE TrackerAssumption
<1>1. acts' \in 0..MaxActs /\ acts \in Nat /\ acts' \in Nat /\ acts <= acts' /\ MaxActs \in Nat
      /\ acts <= MaxActs
  BY DEF EntriesOK
<1>2. \A j \in 1..MaxActs : entries'[j] # NoEntry => j <= acts'
  <2>1. \A j \in 1..MaxActs : entries[j] # NoEntry => j <= acts  BY DEF EntriesOK
  <2> QED BY <1>1, <2>1
<1>3. ASSUME NEW v \in saves' PROVE SaveOK(v)'
  <2>1. SaveOK(v) /\ \A w \in saves' : v.row # w.id /\ (v.id = w.id => v = w)
    BY DEF EntriesOK, SaveOK
  <2>2. v.id \in 1..acts' /\ v.of \in Buckets /\ v.n \in Nat /\ v.row \in 0..acts'
    BY <1>1, <2>1 DEF SaveOK
  <2>3. entries'[v.id] = NoEntry
    <3>1. v.id \in 1..MaxActs /\ v.id # k  BY <1>1, <2>1 DEF SaveOK
    <3> QED BY <2>1, <3>1 DEF SaveOK
  <2>4. ASSUME v.row # 0 PROVE entries'[v.row] = NoEntry \/ entries'[v.row].of = v.of
    <3>1. v.row \in 1..MaxActs  BY <1>1, <2>1, <2>4 DEF SaveOK
    <3>2. CASE v.row = k  BY <3>2
    <3>3. CASE v.row # k
      <4>1. entries'[v.row] = entries[v.row]  BY <3>1, <3>3
      <4> QED BY <2>1, <2>4, <4>1 DEF SaveOK
    <3> QED BY <3>2, <3>3
  <2> QED BY <2>1, <2>2, <2>3, <2>4 DEF SaveOK, Buckets, Dates
<1> QED BY <1>1, <1>2, <1>3 DEF EntriesOK

\* Where no row changes.
LEMMA EntriesStay ==
    ASSUME EntriesOK, ToldOK, UNCHANGED <<entries, told, saves>>, acts' \in acts..MaxActs
    PROVE  EntriesOK' /\ ToldOK'
<1> USE TrackerAssumption
<1>1. /\ acts \in Nat /\ acts' \in 0..MaxActs /\ acts <= acts' /\ MaxActs \in Nat
  BY DEF EntriesOK
<1>2. RowsOK(entries') /\ \A k \in 1..MaxActs : entries'[k] # NoEntry => k <= acts'
  <2>1. RowsOK(entries) /\ \A k \in 1..MaxActs : entries[k] # NoEntry => k <= acts
    BY DEF EntriesOK
  <2> QED BY <1>1, <2>1
<1>3. ASSUME NEW v \in saves' PROVE SaveOK(v)'
  <2>1. SaveOK(v)  BY DEF EntriesOK
  <2> QED BY <1>1, <2>1 DEF SaveOK, Buckets, Dates
<1>4. EntriesOK'  BY <1>1, <1>2, <1>3 DEF EntriesOK
<1>5. ToldOK'  BY DEF ToldOK, Landed, Buckets, Dates
<1> QED BY <1>4, <1>5

\* An entry that is refused brings nothing.
LEMMA SaveRefused ==
    ASSUME EntriesOK, ToldOK, NEW v \in saves, saves' = saves \ {v}, Refused(v), UNCHANGED acts
    PROVE  EntriesOK' /\ ToldOK'
<1>1. UNCHANGED entries /\ told' = [told EXCEPT ![v.of] = told[v.of] - v.n]  BY DEF Refused
<1>2. \A w \in saves : SaveOK(w)  BY DEF EntriesOK
<1>3. \A w \in saves' : w \in saves  OBVIOUS
<1>4. EntriesOK'
  <2>1. \A w \in saves' : SaveOK(w)'  BY <1>1, <1>2, <1>3 DEF SaveOK, Buckets, Dates
  <2>2. RowsOK(entries') /\ \A j \in 1..MaxActs : entries'[j] # NoEntry => j <= acts'
    BY <1>1 DEF EntriesOK
  <2>3. acts' \in 0..MaxActs  BY DEF EntriesOK
  <2> QED BY <2>1, <2>2, <2>3 DEF EntriesOK
<1>5. v.of \in Buckets /\ v.n \in Nat  BY <1>2 DEF SaveOK
<1>6. told' \in [Buckets -> Int]
  <2>1. told[v.of] - v.n \in Int  BY <1>5 DEF ToldOK
  <2> QED BY <1>1, <2>1 DEF ToldOK
<1>7. ASSUME NEW b \in Buckets
      PROVE  IsFiniteSet(Waiting(saves', b)) /\ Landed(b)' = Landed(b)
  <2>1. /\ Weight(v, b) \in Nat /\ Cardinality(Waiting(saves', b)) \in Nat
        /\ IsFiniteSet(Waiting(saves', b))
        /\ Cardinality(Waiting(saves', b)) = Cardinality(Waiting(saves, b)) - Weight(v, b)
    BY SaveEnds
  <2>2. Cardinality(Waiting(saves, b)) \in Nat  BY FS_CardinalityType DEF ToldOK
  <2>3. told[b] \in Int  BY DEF ToldOK
  <2>4. told'[b] = told[b] - Weight(v, b)  BY <1>1, <1>5, <2>3 DEF ToldOK, Weight
  <2>5. Landed(b)' = told'[b] - Cardinality(Waiting(saves', b))  BY DEF Landed
  <2>6. Landed(b) = told[b] - Cardinality(Waiting(saves, b))  BY DEF Landed
  <2> QED BY <2>1, <2>2, <2>3, <2>4, <2>5, <2>6
<1>8. \A b \in Buckets : Landed(b) = Cardinality(Entered(entries, b))  BY DEF ToldOK
<1>9. ToldOK'  BY <1>1, <1>6, <1>7, <1>8 DEF ToldOK, Buckets, Dates
<1> QED BY <1>4, <1>9

LEMMA ImageFinite ==
    ASSUME NEW S, IsFiniteSet(S), NEW f, DOMAIN f = S
    PROVE  IsFiniteSet({f[x] : x \in S})
<1>1. PICK g : g = [x \in S |-> f[x]]  OBVIOUS
<1>2. PICK T : T = {f[x] : x \in S}  OBVIOUS
<1>3. g \in Surjection(S, T)  BY <1>1, <1>2 DEF Surjection
<1>4. IsFiniteSet(T)  BY <1>3, FS_Surjection
<1> QED BY <1>2, <1>4

LEMMA DaysPass == ASSUME TrackerInv, NextDate PROVE TrackerInv'
<1> USE TrackerAssumption
<1> USE DEF TrackerInv, NextDate
<1>1. EntriesOK' /\ ToldOK'
  <2>1. acts' \in acts..MaxActs  BY DEF EntriesOK
  <2>2. UNCHANGED <<entries, told, saves>>  OBVIOUS
  <2> QED BY <2>1, <2>2, EntriesStay
<1>2. CountsOK'  BY DEF CountsOK, Dates, Stage, Src, DialRow
<1> QED BY <1>1, <1>2

LEMMA PressesCount == ASSUME TrackerInv, NEW u \in Members, NEW c \in Deals, Pressed(u, c) PROVE TrackerInv'
<1> USE TrackerAssumption
<1> USE DEF TrackerInv, Pressed, Acts
<1>1. EntriesOK' /\ ToldOK'
  <2>1. acts' \in acts..MaxActs  BY DEF EntriesOK
  <2>2. UNCHANGED <<entries, told, saves>>  OBVIOUS
  <2> QED BY <2>1, <2>2, EntriesStay
<1>2. CountsOK'  BY DEF CountsOK, Dates, Stage, Src, DialRow
<1> QED BY <1>1, <1>2

LEMMA DialsCount ==
    ASSUME TrackerInv, NEW u \in Members, NEW s \in Sources,
           NEW how \in {"duration", "lastCall", "none"}, Dialled(u, s, how)
    PROVE  TrackerInv'
<1> USE TrackerAssumption
<1> USE DEF TrackerInv, Dialled, Acts
<1>1. EntriesOK' /\ ToldOK'
  <2>1. acts' \in acts..MaxActs  BY DEF EntriesOK
  <2>2. UNCHANGED <<entries, told, saves>>  OBVIOUS
  <2> QED BY <2>1, <2>2, EntriesStay
<1>2. IsFiniteSet(dials') /\ dials' \subseteq DialRow
  <2>1. PICK a : a = [id |-> acts, by |-> u, on |-> date, source |-> s, length |-> how]  OBVIOUS
  <2>2. dials' = dials \cup {a}  BY <2>1
  <2>3. a \in DialRow  BY <2>1 DEF DialRow, CountsOK, EntriesOK
  <2>4. IsFiniteSet(dials \cup {a})  BY FS_AddElement DEF CountsOK
  <2> QED BY <2>2, <2>3, <2>4 DEF CountsOK
<1>3. CountsOK'  BY <1>2 DEF CountsOK, Dates, Stage, Src, DialRow
<1> QED BY <1>1, <1>3

LEMMA DialsShrink == ASSUME TrackerInv, NEW a \in dials, CallsDeleted(a) PROVE TrackerInv'
<1> USE DEF TrackerInv, CallsDeleted
<1>1. EntriesOK' /\ ToldOK'
  <2>1. acts' \in acts..MaxActs  BY DEF EntriesOK
  <2>2. UNCHANGED <<entries, told, saves>>  OBVIOUS
  <2> QED BY <2>1, <2>2, EntriesStay
<1>2. IsFiniteSet(dials') /\ dials' \subseteq DialRow
  <2>1. PICK D : D = dials \ {a}  OBVIOUS
  <2>2. PICK b : b = [a EXCEPT !.length = "none"] /\ dials' = D \cup {b}  BY <2>1
  <2>3. D \in SUBSET dials  BY <2>1
  <2>4. IsFiniteSet(D)  BY <2>3, FS_Subset DEF CountsOK
  <2>5. IsFiniteSet(D \cup {b})  BY <2>4, FS_AddElement
  <2>6. a \in DialRow  BY DEF CountsOK
  <2>7. b \in DialRow  BY <2>2, <2>6 DEF DialRow
  <2> QED BY <2>2, <2>3, <2>5, <2>7 DEF CountsOK
<1>3. CountsOK'  BY <1>2 DEF CountsOK, Dates, Stage, Src, DialRow
<1> QED BY <1>1, <1>3

LEMMA StagesCount ==
    ASSUME TrackerInv, NEW u \in Members, NEW c \in Deals, NEW d \in Dates, Closes(u, c, d, Untagged)
    PROVE  TrackerInv'
<1> USE TrackerAssumption
<1> USE DEF TrackerInv
<1>0. /\ acts < MaxActs /\ acts' = acts + 1
      /\ UNCHANGED <<presses, dials, entries, saves, told, date>>
  BY Zenon DEF Closes, Acts
<1>1. EntriesOK' /\ ToldOK'
  <2>1. acts' \in acts..MaxActs  BY <1>0 DEF EntriesOK
  <2>2. UNCHANGED <<entries, told, saves>>  BY <1>0
  <2> QED BY <2>1, <2>2, EntriesStay
<1>2. IsFiniteSet(stages') /\ stages' \subseteq Stage
  <2>1. CASE \E e \in stages : e.of = c
    <3> DEFINE f == [e \in stages |->
                       IF e.of = c THEN [e EXCEPT !.on = d, !.source = Untagged] ELSE e]
    <3>1. stages' = {f[e] : e \in stages}  BY <2>1 DEF Closes
    <3>2. \A e \in stages : f[e] \in Stage
      <4> SUFFICES ASSUME NEW e \in stages PROVE f[e] \in Stage
        OBVIOUS
      <4>1. e \in Stage  BY DEF CountsOK
      <4>2. [e EXCEPT !.on = d, !.source = Untagged] \in Stage  BY <4>1 DEF Stage, Src
      <4> QED BY <4>1, <4>2
    <3>3. DOMAIN f = stages  OBVIOUS
    <3> HIDE DEF f
    <3>4. IsFiniteSet({f[e] : e \in stages})  BY <3>3, ImageFinite DEF CountsOK
    <3> QED BY <3>1, <3>2, <3>4
  <2>2. CASE ~\E e \in stages : e.of = c
    <3>1. PICK e : e = [by |-> u, of |-> c, on |-> d, source |-> Untagged]  OBVIOUS
    <3>2. stages' = stages \cup {e}  BY <2>2, <3>1 DEF Closes
    <3>3. e \in Stage  BY <3>1 DEF Stage, Src
    <3>4. IsFiniteSet(stages \cup {e})  BY FS_AddElement DEF CountsOK
    <3> QED BY <3>2, <3>3, <3>4 DEF CountsOK
  <2> QED BY <2>1, <2>2
<1>3. CountsOK'  BY <1>0, <1>2 DEF CountsOK, Dates, Stage, Src, DialRow
<1> QED BY <1>1, <1>3

LEMMA StagesOutlive == ASSUME TrackerInv, NEW c \in Deals, DealDeleted(c) PROVE TrackerInv'
<1> USE TrackerAssumption
<1> USE DEF TrackerInv, DealDeleted, Acts
<1>1. EntriesOK' /\ ToldOK'
  <2>1. acts' \in acts..MaxActs  BY DEF EntriesOK
  <2>2. UNCHANGED <<entries, told, saves>>  OBVIOUS
  <2> QED BY <2>1, <2>2, EntriesStay
<1>2. IsFiniteSet(stages') /\ stages' \subseteq Stage
  <2> DEFINE f == [e \in stages |-> IF e.of = c THEN [e EXCEPT !.of = <<c, acts>>] ELSE e]
  <2>1. stages' = {f[e] : e \in stages}  OBVIOUS
  <2>2. \A e \in stages : f[e] \in Stage
    <3> SUFFICES ASSUME NEW e \in stages PROVE f[e] \in Stage
      OBVIOUS
    <3>1. e \in Stage  BY DEF CountsOK
    <3>2. <<c, acts>> \in Deals \X Nat  BY DEF EntriesOK
    <3>3. [e EXCEPT !.of = <<c, acts>>] \in Stage  BY <3>1, <3>2 DEF Stage
    <3> QED BY <3>1, <3>3
  <2>3. DOMAIN f = stages  OBVIOUS
  <2> HIDE DEF f
  <2>4. IsFiniteSet({f[e] : e \in stages})  BY <2>3, ImageFinite DEF CountsOK
  <2> QED BY <2>1, <2>2, <2>4
<1>3. CountsOK'  BY <1>2 DEF CountsOK, Dates, Stage, Src, DialRow
<1> QED BY <1>1, <1>3

LEMMA BucketNotEmpty == \A b \in Buckets : b # <<>>
<1> SUFFICES ASSUME NEW b \in Buckets PROVE b # <<>>
  OBVIOUS
<1>1. PICK u \in Members, d \in Dates, s \in Src : b = <<u, d, s>>  BY DEF Buckets, Src
<1>2. <<>> # <<u, d, s>>  OBVIOUS
<1> QED BY <1>1, <1>2

\* The row that a save found is one, and nobody else is to make it.
LEMMA SavesAsk == ASSUME TrackerInv, NEW b \in Buckets, NEW n \in Nat, SaveAsked(b, n) PROVE TrackerInv'
<1> USE TrackerAssumption
<1> USE DEF TrackerInv
<1>1. PICK k \in {0} \cup {j \in DOMAIN entries : entries[j].of = b} :
        /\ saves' = saves \cup {[id |-> acts + 1, of |-> b, n |-> n, row |-> k]}
        /\ acts < MaxActs /\ acts' = acts + 1
        /\ told' = [told EXCEPT ![b] = told[b] + n]
        /\ UNCHANGED <<presses, dials, stages, entries, date>>
  <2>1. PICK found : found = {j \in DOMAIN entries : entries[j].of = b}  OBVIOUS
  <2>2. PICK k \in IF found = {} THEN {0} ELSE found :
          saves' = saves \cup {[id |-> acts + 1, of |-> b, n |-> n, row |-> k]}
    BY <2>1 DEF SaveAsked
  <2>3. k \in {0} \cup {j \in DOMAIN entries : entries[j].of = b}  BY <2>1, <2>2
  <2> QED BY <2>2, <2>3 DEF SaveAsked, Acts
<1>2. PICK x : x = [id |-> acts + 1, of |-> b, n |-> n, row |-> k]  OBVIOUS
<1>3. saves' = saves \cup {x} /\ x.id = acts + 1 /\ x.of = b /\ x.n = n /\ x.row = k
  BY <1>1, <1>2
<1>4. /\ acts \in Nat /\ acts' \in 1..MaxActs /\ acts' = acts + 1 /\ MaxActs \in Nat
  BY <1>1 DEF EntriesOK
<1>5. DOMAIN entries = 1..MaxActs /\ RowsOK(entries)
      /\ \A j \in 1..MaxActs : entries[j] # NoEntry => j <= acts
  BY DEF EntriesOK, RowsOK
<1>6. k \in 0..acts /\ (k # 0 => entries[k] # NoEntry /\ entries[k].of = b)
  <2>1. CASE k = 0  BY <1>4, <2>1
  <2>2. CASE k # 0
    <3>1. k \in 1..MaxActs /\ entries[k].of = b  BY <1>1, <1>5, <2>2
    <3>2. b # <<>>  BY BucketNotEmpty
    <3>3. entries[k] # NoEntry  BY <3>1, <3>2 DEF NoEntry
    <3>4. k <= acts  BY <1>5, <3>1, <3>3
    <3> QED BY <1>4, <3>1, <3>3, <3>4
  <2> QED BY <2>1, <2>2
<1>7. \A v \in saves : SaveOK(v)  BY DEF EntriesOK
<1>8. ASSUME NEW v \in saves PROVE SaveOK(v)'
  <2>1. /\ v.id \in 1..acts /\ v.of \in Buckets /\ v.n \in Nat /\ v.row \in 0..acts
        /\ entries[v.id] = NoEntry
        /\ v.row # 0 => entries[v.row] = NoEntry \/ entries[v.row].of = v.of
        /\ \A w \in saves : v.row # w.id /\ (v.id = w.id => v = w)
    BY <1>7 DEF SaveOK
  <2>2. v.row # x.id /\ v.id # x.id  BY <1>3, <1>4, <2>1
  <2>3. \A w \in saves' : v.row # w.id /\ (v.id = w.id => v = w)  BY <1>3, <2>1, <2>2
  <2>4. v.id \in 1..acts' /\ v.row \in 0..acts'  BY <1>4, <2>1
  <2> QED BY <1>1, <2>1, <2>3, <2>4 DEF SaveOK, Buckets, Dates
<1>9. SaveOK(x)'
  <2>1. \A w \in saves : w.id \in 1..acts /\ entries[w.id] = NoEntry  BY <1>7 DEF SaveOK
  <2>2. \A w \in saves : x.row # w.id /\ x.id # w.id
    <3>1. \A w \in saves : w.id # 0 /\ w.id # acts + 1  BY <1>4, <2>1
    <3> QED BY <1>3, <1>6, <2>1, <3>1
  <2>3. x.row # x.id  BY <1>3, <1>4, <1>6
  <2>4. \A w \in saves' : x.row # w.id /\ (x.id = w.id => x = w)  BY <1>3, <2>2, <2>3
  <2>5. entries[x.id] = NoEntry  BY <1>3, <1>4, <1>5
  <2>6. x.id \in 1..acts' /\ x.row \in 0..acts'  BY <1>3, <1>4, <1>6
  <2> QED BY <1>1, <1>3, <1>6, <2>4, <2>5, <2>6 DEF SaveOK, Buckets, Dates
<1>10. EntriesOK'
  <2>1. \A v \in saves' : SaveOK(v)'  BY <1>3, <1>8, <1>9
  <2>2. RowsOK(entries') /\ \A j \in 1..MaxActs : entries'[j] # NoEntry => j <= acts'
    BY <1>1, <1>4, <1>5
  <2>3. acts' \in 0..MaxActs  BY <1>4
  <2> QED BY <2>1, <2>2, <2>3 DEF EntriesOK
<1>11. ToldOK'
  <2>1. x \notin saves /\ x.n \in Nat
    <3>1. \A w \in saves : w.id \in 1..acts  BY <1>7 DEF SaveOK
    <3> QED BY <1>3, <1>4, <3>1
  <2>2. told' \in [Buckets -> Int]
    <3>1. told[b] + n \in Int  BY DEF ToldOK
    <3> QED BY <1>1, <3>1 DEF ToldOK
  <2>3. ASSUME NEW c \in Buckets
        PROVE  IsFiniteSet(Waiting(saves', c)) /\ Landed(c)' = Landed(c)
    <3>1. IsFiniteSet(Waiting(saves, c))  BY DEF ToldOK
    <3>2. PICK S : S = saves  OBVIOUS
    <3>3. /\ IsFiniteSet(Waiting(S \cup {x}, c)) /\ Weight(x, c) \in Nat
          /\ Cardinality(Waiting(S \cup {x}, c)) = Cardinality(Waiting(S, c)) + Weight(x, c)
      BY <2>1, <3>1, <3>2, OneSave
    <3>4. Cardinality(Waiting(saves, c)) \in Nat  BY <3>1, FS_CardinalityType
    <3>5. told[c] \in Int  BY DEF ToldOK
    <3>6. told'[c] = told[c] + Weight(x, c)  BY <1>1, <1>3, <3>5 DEF ToldOK, Weight
    <3>7. Landed(c)' = told'[c] - Cardinality(Waiting(saves', c))  BY DEF Landed
    <3>8. Landed(c) = told[c] - Cardinality(Waiting(saves, c))  BY DEF Landed
    <3>9. saves' = S \cup {x}  BY <1>3, <3>2
    <3> QED BY <3>2, <3>3, <3>4, <3>5, <3>6, <3>7, <3>8, <3>9
  <2>4. \A c \in Buckets : Landed(c) = Cardinality(Entered(entries, c))  BY DEF ToldOK
  <2> QED BY <1>1, <2>2, <2>3, <2>4 DEF ToldOK, Buckets, Dates
<1>12. CountsOK'  BY <1>1 DEF CountsOK, Dates, Stage, Src, DialRow
<1> QED BY <1>10, <1>11, <1>12

LEMMA CountsStay == ASSUME CountsOK, UNCHANGED <<presses, dials, stages, date>> PROVE CountsOK'
BY DEF CountsOK, Dates, Stage, Src, DialRow

\* What each change of a row adds to its bucket and to no other.
LEMMA RowOfBucket ==
    ASSUME NEW e \in [of : Buckets, contacts : Nat], NEW n \in Nat
    PROVE  /\ RowOK(NoEntry) /\ RowOK([e EXCEPT !.contacts = n]) /\ e.of \in Buckets
           /\ [e EXCEPT !.contacts = n] # NoEntry /\ [e EXCEPT !.contacts = n].of = e.of
           /\ \A b \in Buckets :
                /\ Units([e EXCEPT !.contacts = n], b) - Units(e, b)
                     = (IF b = e.of THEN n - e.contacts ELSE 0)
                /\ Units(NoEntry, b) - Units(e, b) = (IF b = e.of THEN 0 - e.contacts ELSE 0)
                /\ Units(e, b) - Units(NoEntry, b) = (IF b = e.of THEN e.contacts ELSE 0)
<1>1. PICK r : r = [e EXCEPT !.contacts = n]  OBVIOUS
<1>2. r \in [of : Buckets, contacts : Nat] /\ r.of = e.of /\ r.contacts = n  BY <1>1
<1>3. e.of \in Buckets /\ e.contacts \in Nat  OBVIOUS
<1>4. \A b \in Buckets : b # <<>>  BY BucketNotEmpty
<1>5. NoEntry.of = <<>> /\ NoEntry.contacts = 0  BY DEF NoEntry
<1>6. r # NoEntry  BY <1>2, <1>3, <1>4, <1>5
<1>7. ASSUME NEW b \in Buckets
      PROVE  /\ Units(r, b) - Units(e, b) = (IF b = e.of THEN n - e.contacts ELSE 0)
             /\ Units(NoEntry, b) - Units(e, b) = (IF b = e.of THEN 0 - e.contacts ELSE 0)
             /\ Units(e, b) - Units(NoEntry, b) = (IF b = e.of THEN e.contacts ELSE 0)
  <2>1. Units(NoEntry, b) = 0  BY <1>4, <1>5 DEF Units
  <2>2. Units(r, b) = IF b = e.of THEN n ELSE 0  BY <1>2 DEF Units
  <2>3. Units(e, b) = IF b = e.of THEN e.contacts ELSE 0  BY DEF Units
  <2> QED BY <1>3, <2>1, <2>2, <2>3
<1> QED BY <1>1, <1>2, <1>3, <1>6, <1>7 DEF RowOK

LEMMA SavesAdd == ASSUME TrackerInv, NEW v \in saves, SaveAdds(v) PROVE TrackerInv'
<1> USE TrackerAssumption
<1> USE DEF TrackerInv
<1>1. SaveOK(v) /\ v.row # 0 /\ saves' = saves \ {v} /\ UNCHANGED <<presses, dials, stages, date, acts>>
  BY DEF EntriesOK, SaveAdds
<1>2. acts \in Nat /\ MaxActs \in Nat /\ acts <= MaxActs /\ acts' \in acts..MaxActs
  BY <1>1 DEF EntriesOK
<1>3. PICK k \in 1..MaxActs : k = v.row  BY <1>1, <1>2 DEF SaveOK
<1>4. CASE entries[k] = NoEntry
  <2>1. Refused(v)  BY <1>3, <1>4 DEF SaveAdds
  <2>2. EntriesOK' /\ ToldOK'  BY <1>1, <2>1, SaveRefused
  <2> QED BY <1>1, <2>2, CountsStay
<1>5. CASE entries[k] # NoEntry
  <2>1. PICK e \in [of : Buckets, contacts : Nat] : e = entries[k]
    BY <1>5 DEF EntriesOK, RowsOK, RowOK
  <2>2. v.of \in Buckets /\ v.n \in Nat /\ e.of = v.of /\ e.contacts \in Nat
    BY <1>1, <1>3, <1>5, <2>1 DEF SaveOK
  <2>3. PICK n \in Nat : n = e.contacts + v.n  BY <2>2
  <2>4. PICK r : r = [e EXCEPT !.contacts = n]  OBVIOUS
  <2>5. entries' = [entries EXCEPT ![k] = r]
    <3>1. entries' = [entries EXCEPT ![k] = [entries[k] EXCEPT !.contacts = entries[k].contacts + v.n]]
      BY <1>3, <1>5 DEF SaveAdds
    <3> QED BY <2>1, <2>3, <2>4, <3>1
  <2>12. UNCHANGED told  BY <1>3, <1>5 DEF SaveAdds
  <2>6. /\ told' \in [Buckets -> Int] /\ \A b \in Buckets : IsFiniteSet(Waiting(saves', b))
        /\ \A b \in Buckets : Landed(b)' = Landed(b) + (IF b = v.of THEN v.n ELSE 0)
    BY <1>1, <2>12, SaveLands
  <2>7. /\ RowOK(r) /\ r # NoEntry /\ r.of = e.of
        /\ \A b \in Buckets : Units(r, b) - Units(e, b) = (IF b = e.of THEN n - e.contacts ELSE 0)
    BY <2>4, RowOfBucket
  <2>8. \A b \in Buckets : Units(r, b) - Units(entries[k], b) = (IF b = v.of THEN v.n ELSE 0)
    <3>1. n - e.contacts = v.n  BY <2>2, <2>3
    <3> QED BY <2>1, <2>2, <2>7, <3>1
  <2>9. PICK x \in Buckets : x = v.of  BY <2>2
  <2>13. PICK z \in Int : z = v.n  BY <2>2
  <2>14. \A b \in Buckets : Units(r, b) - Units(entries[k], b) = (IF b = x THEN z ELSE 0)
    BY <2>8, <2>9, <2>13
  <2>15. \A b \in Buckets : Landed(b)' = Landed(b) + (IF b = x THEN z ELSE 0)
    BY <2>6, <2>9, <2>13
  <2>16. told' \in [Buckets -> Int] /\ \A b \in Buckets : IsFiniteSet(Waiting(saves', b))  BY <2>6
  <2>17. RowOK(r)  BY <2>7
  <2>10. RowsOK(entries') /\ ToldOK'  BY <2>5, <2>14, <2>15, <2>16, <2>17, TollOfRow
  <2>11. EntriesOK'
    <3>1. k \in 1..acts  BY <1>1, <1>2, <1>3 DEF SaveOK
    <3>2. DOMAIN entries = 1..MaxActs  BY DEF EntriesOK, RowsOK
    <3>3. entries'[k] = r /\ \A j \in 1..MaxActs : j # k => entries'[j] = entries[j]
      BY <2>5, <3>2
    <3>4. saves' \subseteq saves  BY <1>1
    <3>5. \A w \in saves' : w.id # k /\ (w.row = k => entries'[k] = NoEntry \/ entries'[k].of = w.of)
      <4>1. \A w \in saves : SaveOK(w)  BY DEF EntriesOK
      <4>2. \A w \in saves : v.row # w.id  BY <1>1 DEF SaveOK
      <4>3. \A w \in saves : w.row = k => entries[k] = NoEntry \/ entries[k].of = w.of
        BY <1>1, <1>3, <4>1 DEF SaveOK
      <4> QED BY <1>1, <1>3, <1>5, <2>1, <2>7, <3>3, <4>2, <4>3
    <3> QED BY <1>2, <2>10, <3>1, <3>3, <3>4, <3>5, SavesStay
  <2> QED BY <1>1, <2>10, <2>11, CountsStay
<1> QED BY <1>4, <1>5

LEMMA SavesCreate == ASSUME TrackerInv, NEW v \in saves, SaveCreates(v) PROVE TrackerInv'
<1> USE TrackerAssumption
<1> USE DEF TrackerInv
<1>1. SaveOK(v) /\ saves' = saves \ {v} /\ UNCHANGED <<presses, dials, stages, date, acts>>
  BY DEF EntriesOK, SaveCreates
<1>2. acts \in Nat /\ MaxActs \in Nat /\ acts <= MaxActs /\ acts' \in acts..MaxActs
  BY <1>1 DEF EntriesOK
<1>3. PICK k \in 1..MaxActs : k = v.id  BY <1>1, <1>2 DEF SaveOK
<1>4. entries[k] = NoEntry /\ v.of \in Buckets /\ v.n \in Nat  BY <1>1, <1>3 DEF SaveOK
<1>5. PICK r \in [of : Buckets, contacts : Nat] : r = [of |-> v.of, contacts |-> v.n]  BY <1>4
<1>12. CASE Refused(v)
  <2>1. EntriesOK' /\ ToldOK'  BY <1>1, <1>12, SaveRefused
  <2> QED BY <1>1, <2>1, CountsStay
<1> SUFFICES ASSUME ~Refused(v) PROVE TrackerInv'
  BY <1>12
<1>13. entries' = [entries EXCEPT ![k] = r] /\ UNCHANGED told
  BY <1>3, <1>5 DEF SaveCreates
<1>6. /\ told' \in [Buckets -> Int] /\ \A b \in Buckets : IsFiniteSet(Waiting(saves', b))
      /\ \A b \in Buckets : Landed(b)' = Landed(b) + (IF b = v.of THEN v.n ELSE 0)
  BY <1>1, <1>13, SaveLands
<1>7. r.of = v.of /\ r.contacts = v.n /\ RowOK(r)  BY <1>5 DEF RowOK
<1>8. \A b \in Buckets : Units(r, b) - Units(entries[k], b) = (IF b = v.of THEN v.n ELSE 0)
  <2>1. \A b \in Buckets : Units(r, b) - Units(NoEntry, b) = (IF b = r.of THEN r.contacts ELSE 0)
    BY RowOfBucket
  <2> QED BY <1>4, <1>7, <2>1
<1>9. PICK x \in Buckets : x = v.of  BY <1>4
<1>14. PICK z \in Int : z = v.n  BY <1>4
<1>15. \A b \in Buckets : Units(r, b) - Units(entries[k], b) = (IF b = x THEN z ELSE 0)
  BY <1>8, <1>9, <1>14
<1>16. \A b \in Buckets : Landed(b)' = Landed(b) + (IF b = x THEN z ELSE 0)
  BY <1>6, <1>9, <1>14
<1>17. told' \in [Buckets -> Int] /\ \A b \in Buckets : IsFiniteSet(Waiting(saves', b))  BY <1>6
<1>18. RowOK(r) /\ entries' = [entries EXCEPT ![k] = r]  BY <1>7, <1>13
<1>10. RowsOK(entries') /\ ToldOK'  BY <1>15, <1>16, <1>17, <1>18, TollOfRow
<1>11. EntriesOK'
  <2>1. k \in 1..acts  BY <1>1, <1>3 DEF SaveOK
  <2>2. DOMAIN entries = 1..MaxActs  BY DEF EntriesOK, RowsOK
  <2>3. entries'[k] = r /\ \A j \in 1..MaxActs : j # k => entries'[j] = entries[j]
    BY <1>13, <2>2
  <2>4. saves' \subseteq saves  BY <1>1
  <2>5. \A w \in saves' : w.id # k /\ (w.row = k => entries'[k] = NoEntry \/ entries'[k].of = w.of)
    <3>1. \A w \in saves : w.row # v.id  BY DEF EntriesOK, SaveOK
    <3>2. \A w \in saves : v.id = w.id => v = w  BY <1>1 DEF SaveOK
    <3> QED BY <1>1, <1>3, <3>1, <3>2
  <2> QED BY <1>2, <1>10, <2>1, <2>3, <2>4, <2>5, SavesStay
<1> QED BY <1>1, <1>10, <1>11, CountsStay

LEMMA Corrects ==
    ASSUME TrackerInv, NEW k \in DOMAIN entries, NEW n \in Nat, patchSession(k, n) \/ deleteSession(k)
    PROVE  TrackerInv'
<1> USE TrackerAssumption
<1> USE DEF TrackerInv
<1>1. /\ acts < MaxActs /\ acts' = acts + 1 /\ entries[k] # NoEntry
      /\ UNCHANGED <<presses, dials, stages, saves, date>>
  BY DEF patchSession, deleteSession, Acts
<1>2. /\ acts \in Nat /\ MaxActs \in Nat /\ acts' \in acts..MaxActs
      /\ DOMAIN entries = 1..MaxActs /\ k \in 1..acts /\ k \in 1..MaxActs
  <2>1. DOMAIN entries = 1..MaxActs /\ acts \in 0..MaxActs /\ MaxActs \in Nat
    BY DEF EntriesOK, RowsOK
  <2>2. k <= acts  BY <1>1, <2>1 DEF EntriesOK
  <2> QED BY <1>1, <2>1, <2>2
<1>3. PICK e \in [of : Buckets, contacts : Nat] : e = entries[k]
  BY <1>1, <1>2 DEF EntriesOK, RowsOK, RowOK
<1>4. e.of \in Buckets /\ e.contacts \in Nat  BY <1>3
<1>5. PICK p : p = [e EXCEPT !.contacts = n]  OBVIOUS
<1>6. /\ RowOK(NoEntry) /\ RowOK(p) /\ p # NoEntry /\ p.of = e.of
      /\ \A b \in Buckets :
           /\ Units(p, b) - Units(e, b) = (IF b = e.of THEN n - e.contacts ELSE 0)
           /\ Units(NoEntry, b) - Units(e, b) = (IF b = e.of THEN 0 - e.contacts ELSE 0)
  BY <1>5, RowOfBucket
<1> DEFINE Becomes(r, z) ==
      /\ RowOK(r) /\ (r = NoEntry \/ r.of = e.of) /\ z \in Int
      /\ entries' = [entries EXCEPT ![k] = r] /\ told' = [told EXCEPT ![e.of] = told[e.of] + z]
      /\ \A b \in Buckets : Units(r, b) - Units(e, b) = (IF b = e.of THEN z ELSE 0)
<1>7. \E r, z : Becomes(r, z)
  <2>1. CASE patchSession(k, n)
    <3>1. entries' = [entries EXCEPT ![k] = p]
      <4>1. entries' = [entries EXCEPT ![k] = [entries[k] EXCEPT !.contacts = n]]
        BY <2>1 DEF patchSession
      <4> QED BY <1>3, <1>5, <4>1
    <3>2. told' = [told EXCEPT ![e.of] = told[e.of] + (n - e.contacts)]
      <4>1. told' = [told EXCEPT ![e.of] = told[e.of] + n - e.contacts]
        BY <1>3, <2>1 DEF patchSession
      <4>2. told[e.of] \in Int  BY <1>4 DEF ToldOK
      <4>3. told[e.of] + n - e.contacts = told[e.of] + (n - e.contacts)  BY <1>4, <4>2
      <4> QED BY <4>1, <4>3
    <3>3. n - e.contacts \in Int  BY <1>4
    <3>4. Becomes(p, n - e.contacts)  BY <1>6, <3>1, <3>2, <3>3
    <3> QED BY <3>4
  <2>2. CASE deleteSession(k)
    <3>1. entries' = [entries EXCEPT ![k] = NoEntry]  BY <2>2 DEF deleteSession
    <3>2. told' = [told EXCEPT ![e.of] = told[e.of] + (0 - e.contacts)]
      <4>1. told' = [told EXCEPT ![e.of] = told[e.of] - e.contacts]
        BY <1>3, <2>2 DEF deleteSession
      <4>2. told[e.of] \in Int  BY <1>4 DEF ToldOK
      <4>3. told[e.of] - e.contacts = told[e.of] + (0 - e.contacts)  BY <1>4, <4>2
      <4> QED BY <4>1, <4>3
    <3>3. 0 - e.contacts \in Int  BY <1>4
    <3>4. Becomes(NoEntry, 0 - e.contacts)  BY <1>6, <3>1, <3>2, <3>3
    <3> QED BY <3>4
  <2> QED BY <2>1, <2>2
<1>8. PICK r, z : Becomes(r, z)  BY <1>7
<1>9. RowsOK(entries') /\ ToldOK'
  <2>1. \A b \in Buckets : Units(r, b) - Units(entries[k], b) = (IF b = e.of THEN z ELSE 0)
    BY <1>3, <1>8
  <2>2. told' \in [Buckets -> Int]
    <3>1. told[e.of] + z \in Int  BY <1>4, <1>8 DEF ToldOK
    <3> QED BY <1>8, <3>1 DEF ToldOK
  <2>3. \A b \in Buckets : IsFiniteSet(Waiting(saves', b))  BY <1>1 DEF ToldOK
  <2>4. ASSUME NEW b \in Buckets PROVE Landed(b)' = Landed(b) + (IF b = e.of THEN z ELSE 0)
    <3>1. Cardinality(Waiting(saves, b)) \in Nat  BY FS_CardinalityType DEF ToldOK
    <3>2. told[b] \in Int /\ told'[b] = told[b] + (IF b = e.of THEN z ELSE 0)  BY <1>8 DEF ToldOK
    <3>3. Landed(b)' = told'[b] - Cardinality(Waiting(saves, b))  BY <1>1 DEF Landed
    <3>4. Landed(b) = told[b] - Cardinality(Waiting(saves, b))  BY DEF Landed
    <3>5. z \in Int  BY <1>8
    <3> QED BY <3>1, <3>2, <3>3, <3>4, <3>5
  <2>5. /\ RowOK(r) /\ entries' = [entries EXCEPT ![k] = r] /\ z \in Int  BY <1>8
  <2> QED BY <1>2, <1>4, <2>1, <2>2, <2>3, <2>4, <2>5, TollOfRow
<1>10. EntriesOK'
  <2>1. entries'[k] = r /\ \A j \in 1..MaxActs : j # k => entries'[j] = entries[j]
    BY <1>2, <1>8
  <2>2. saves' \subseteq saves  BY <1>1
  <2>3. \A w \in saves' : w.id # k /\ (w.row = k => entries'[k] = NoEntry \/ entries'[k].of = w.of)
    <3>1. \A w \in saves : SaveOK(w)  BY DEF EntriesOK
    <3>2. \A w \in saves : entries[w.id] = NoEntry  BY <3>1 DEF SaveOK
    <3>3. k # 0  BY <1>2
    <3>4. \A w \in saves : w.row = k => entries[k] = NoEntry \/ entries[k].of = w.of
      BY <3>1, <3>3 DEF SaveOK
    <3> QED BY <1>1, <1>3, <1>8, <2>1, <3>2, <3>4
  <2> QED BY <1>2, <1>9, <2>1, <2>2, <2>3, SavesStay
<1> QED BY <1>1, <1>9, <1>10, CountsStay

LEMMA TrackerSteps == ASSUME TrackerInv, TrackerNext PROVE TrackerInv'
<1>1. CASE NextDate  BY <1>1, DaysPass
<1>2. CASE \E u \in Members, c \in Deals : Pressed(u, c) \/ \E d \in Dates : Closes(u, c, d, Untagged)
  <2>1. PICK u \in Members, c \in Deals : Pressed(u, c) \/ \E d \in Dates : Closes(u, c, d, Untagged)
    BY <1>2
  <2>2. CASE Pressed(u, c)  BY <2>2, PressesCount
  <2>3. CASE \E d \in Dates : Closes(u, c, d, Untagged)
    <3>1. PICK d \in Dates : Closes(u, c, d, Untagged)  BY <2>3
    <3> QED BY <3>1, StagesCount
  <2> QED BY <2>1, <2>2, <2>3
<1>3. CASE \E c \in Deals : DealDeleted(c)
  <2>1. PICK c \in Deals : DealDeleted(c)  BY <1>3
  <2> QED BY <2>1, StagesOutlive
<1>4. CASE \E u \in Members, s \in Sources, how \in {"duration", "lastCall", "none"} : Dialled(u, s, how)
  <2>1. PICK u \in Members, s \in Sources, how \in {"duration", "lastCall", "none"} : Dialled(u, s, how)
    BY <1>4
  <2> QED BY <2>1, DialsCount
<1>5. CASE \E a \in dials : CallsDeleted(a)
  <2>1. PICK a \in dials : CallsDeleted(a)  BY <1>5
  <2> QED BY <2>1, DialsShrink
<1>6. CASE \E b \in Members \X Dates \X (Sources \cup {Untagged}) : SaveAsked(b, 1)
  <2>1. PICK b \in Members \X Dates \X (Sources \cup {Untagged}) : SaveAsked(b, 1)  BY <1>6
  <2>2. b \in Buckets /\ 1 \in Nat  BY DEF Buckets
  <2>3. PICK n \in Nat : n = 1  BY <2>2
  <2>4. SaveAsked(b, n)  BY <2>1, <2>3
  <2> QED BY <2>2, <2>4, SavesAsk
<1>7. CASE \E v \in saves : SaveAdds(v) \/ SaveCreates(v)
  <2>1. PICK v \in saves : SaveAdds(v) \/ SaveCreates(v)  BY <1>7
  <2>2. CASE SaveAdds(v)  BY <2>2, SavesAdd
  <2>3. CASE SaveCreates(v)  BY <2>3, SavesCreate
  <2> QED BY <2>1, <2>2, <2>3
<1>8. CASE \E k \in DOMAIN entries : patchSession(k, 2) \/ deleteSession(k)
  <2>1. PICK k \in DOMAIN entries : patchSession(k, 2) \/ deleteSession(k)  BY <1>8
  <2>2. PICK n \in Nat : n = 2  OBVIOUS
  <2>3. patchSession(k, n) \/ deleteSession(k)  BY <2>1, <2>2
  <2> QED BY <2>3, Corrects
<1> QED BY <1>1, <1>2, <1>3, <1>4, <1>5, <1>6, <1>7, <1>8 DEF TrackerNext, Tracking

LEMMA TrackerStays == TrackerSpec => []TrackerInv
<1>1. TrackerInit => TrackerInv  BY TrackerStarts
<1>2. TrackerInv /\ [TrackerNext]_trackerVars => TrackerInv'
  <2> SUFFICES ASSUME TrackerInv, [TrackerNext]_trackerVars PROVE TrackerInv'
    OBVIOUS
  <2>1. CASE TrackerNext  BY <2>1, TrackerSteps
  <2>2. CASE UNCHANGED trackerVars
    <3> USE <2>2 DEF trackerVars, TrackerInv
    <3>1. UNCHANGED <<entries, told, saves>> /\ UNCHANGED <<presses, dials, stages, date>>
      OBVIOUS
    <3>2. acts' \in acts..MaxActs  BY DEF EntriesOK
    <3>3. EntriesOK' /\ ToldOK'  BY <3>1, <3>2, EntriesStay
    <3>4. CountsOK'  BY <3>1, CountsStay
    <3> QED BY <3>3, <3>4
  <2> QED BY <2>1, <2>2
<1> QED BY <1>1, <1>2, PTL DEF TrackerSpec

\* What the tracker shows adds up the same by each route (tracker/service.ts): the
\* dashboard's and the leaderboard's contacts and closings, the hours of the channels,
\* the contacts of the days, and what was entered by hand however entries overlap.
THEOREM TrackerAddsUp == TrackerSpec => []TrackerWhole
<1>1. TrackerInv => TrackerWhole  BY TrackerSums DEF TrackerInv
<1> QED BY <1>1, TrackerStays, PTL

-----------------------------------------------------------------------------
(* Days.  Of days, one is the first and one is the last; of any seven in a     *)
(* row, one is worked.                                                       *)

LEMMA FirstIsOne ==
    ASSUME NEW S \in SUBSET Nat, S # {}
    PROVE  \E x \in S : \A y \in S : x <= y
<1> DEFINE R == OpToRel(<, Nat)
<1>1. \A x, y : <<x, y>> \in R <=> x \in Nat /\ y \in Nat /\ x < y  BY DEF OpToRel
<1>2. IsWellFoundedOn(R, Nat)  BY NatLessThanWellFounded
<1> HIDE DEF R
<1>3. PICK x \in S : \A y \in S : <<y, x>> \notin R  BY <1>2, WFMin, Zenon
<1>4. ASSUME NEW y \in S PROVE x <= y
  <2>1. x \in Nat /\ y \in Nat  OBVIOUS
  <2>2. ~(y < x)  BY <1>1, <1>3, <2>1, Zenon
  <2> QED BY <2>1, <2>2
<1> QED BY <1>4

LEMMA LastIsOne ==
    ASSUME NEW n \in Int, NEW S, S \subseteq Int, S # {}, \A x \in S : x <= n
    PROVE  Max(S) \in S /\ \A y \in S : y <= Max(S)
<1> DEFINE T == {m \in Nat : n - m \in S}
<1>1. T \in SUBSET Nat /\ T # {}
  <2>1. PICK x \in S : x \in Int /\ x <= n  OBVIOUS
  <2>2. n - x \in Nat /\ n - (n - x) = x  BY <2>1
  <2> QED BY <2>1, <2>2
<1>2. PICK m \in T : \A k \in T : m <= k
  <2> HIDE DEF T
  <2> QED BY <1>1, FirstIsOne
<1>3. n - m \in S  OBVIOUS
<1>4. ASSUME NEW y \in S PROVE y <= n - m
  <2>1. y \in Int /\ n - y \in Nat /\ n - (n - y) = y  OBVIOUS
  <2>2. n - y \in T  BY <2>1
  <2>3. m <= n - y /\ m \in Nat  BY <1>2, <2>2
  <2> QED BY <2>1, <2>3
<1>5. \E x \in S : \A y \in S : x >= y  BY <1>3, <1>4
<1>6. Max(S) \in S /\ \A y \in S : Max(S) >= y  BY <1>5 DEF Max
<1> QED BY <1>6

LEMMA WorkdayBefore ==
    ASSUME NEW d \in Int
    PROVE  /\ previousCountedDay(d) \in (d - 7)..(d - 1) /\ ~IsWeekend(previousCountedDay(d))
           /\ \A e \in Int : previousCountedDay(d) < e /\ e < d => IsWeekend(e)
<1> USE TrackerAssumption
<1>1. PICK S : S = {e \in (d - 7)..(d - 1) : ~IsWeekend(e)}  OBVIOUS
<1>2. S # {}
  <2>1. PICK w \in 0..6 : w \notin Weekend  OBVIOUS
  <2>2. PICK x \in Int : x = d - 1 + Weekday0  OBVIOUS
  <2>3. (x - ((x - w) % 7)) % 7 = w /\ (x - w) % 7 \in 0..6  OBVIOUS
  <2>4. PICK r \in 0..6 : r = (x - w) % 7  BY <2>3
  <2>5. PICK e \in (d - 7)..(d - 1) : e = d - 1 - r  OBVIOUS
  <2>6. e + Weekday0 = x - r  BY <2>2, <2>5
  <2>7. (e + Weekday0) % 7 = w  BY <2>3, <2>4, <2>6
  <2> QED BY <1>1, <2>1, <2>5, <2>7 DEF IsWeekend
<1>3. Max(S) \in S /\ \A y \in S : y <= Max(S)
  <2>1. S \subseteq Int /\ d - 1 \in Int /\ \A x \in S : x <= d - 1  BY <1>1
  <2> QED BY <1>2, <2>1, LastIsOne
<1>4. previousCountedDay(d) = Max(S)  BY <1>1 DEF previousCountedDay
<1>5. \A e \in Int : Max(S) < e /\ e < d => IsWeekend(e)
  <2> SUFFICES ASSUME NEW e \in Int, Max(S) < e, e < d PROVE IsWeekend(e)
    OBVIOUS
  <2>1. Max(S) \in (d - 7)..(d - 1)  BY <1>1, <1>3
  <2>2. e \in (d - 7)..(d - 1)  BY <2>1
  <2>3. e \notin S  BY <1>3, <2>1
  <2> QED BY <1>1, <2>2, <2>3
<1> QED BY <1>1, <1>3, <1>4, <1>5

RunUpTo(logged, n, f) ==
    f = [d \in (-7)..n |-> IF d \in logged THEN 1 + f[previousCountedDay(d)] ELSE 0]

LEMMA RunExists ==
    ASSUME NEW logged \in SUBSET Nat
    PROVE  \A m \in Nat : \E f : RunUpTo(logged, m - 8, f)
<1> DEFINE P == {m \in Nat : \E f : RunUpTo(logged, m - 8, f)}
<1>1. 0 \in P
  <2>1. PICK f : f = [d \in (-7)..(0 - 8) |-> 0]  OBVIOUS
  <2>2. (-7)..(0 - 8) = {}  OBVIOUS
  <2>3. RunUpTo(logged, 0 - 8, f)  BY <2>1, <2>2 DEF RunUpTo
  <2> QED BY <2>3
<1>2. ASSUME NEW m \in Nat, m \in P PROVE m + 1 \in P
  <2>1. PICK f : RunUpTo(logged, m - 8, f)  BY <1>2
  <2>2. PICK n \in Int : n = m - 8  OBVIOUS
  <2>3. (m + 1) - 8 = n + 1 /\ n >= -8  BY <2>2
  <2>4. PICK z : z = IF n + 1 \in logged THEN 1 + f[previousCountedDay(n + 1)] ELSE 0  OBVIOUS
  <2>5. PICK g : g = [d \in (-7)..(n + 1) |-> IF d = n + 1 THEN z ELSE f[d]]  OBVIOUS
  <2>6. ASSUME NEW d \in (-7)..(n + 1)
        PROVE  g[d] = IF d \in logged THEN 1 + g[previousCountedDay(d)] ELSE 0
    <3>1. PICK p \in Int : p = previousCountedDay(d) /\ p \in (d - 7)..(d - 1)
      <4>1. d \in Int  BY <2>2
      <4>2. previousCountedDay(d) \in (d - 7)..(d - 1)  BY <4>1, WorkdayBefore
      <4> QED BY <4>1, <4>2
    <3>2. d \in logged => g[p] = f[p]
      <4>1. d \in logged => d >= 0 /\ p \in (-7)..(n + 1) /\ p # n + 1  BY <2>2, <2>3, <3>1
      <4> QED BY <2>5, <4>1
    <3>3. CASE d = n + 1
      <4>1. g[d] = z  BY <2>5, <3>3
      <4> QED BY <2>4, <3>1, <3>2, <3>3, <4>1
    <3>4. CASE d # n + 1
      <4>1. d \in (-7)..n /\ g[d] = f[d]  BY <2>2, <2>5, <3>4
      <4>2. f[d] = IF d \in logged THEN 1 + f[previousCountedDay(d)] ELSE 0
        BY <2>1, <2>2, <4>1 DEF RunUpTo
      <4> QED BY <3>1, <3>2, <4>1, <4>2
    <3> QED BY <3>3, <3>4
  <2>7. g = [d \in (-7)..(n + 1) |-> g[d]]  BY <2>5
  <2>8. RunUpTo(logged, n + 1, g)  BY <2>6, <2>7 DEF RunUpTo
  <2> QED BY <2>3, <2>8
<1> HIDE DEF P
<1>3. \A m \in Nat : m \in P  BY <1>1, <1>2, Reaches
<1> QED BY <1>3 DEF P

\* The days of a streak that ends with day d.
Chain(logged, d) ==
    {x \in logged : /\ x <= d /\ (x = d \/ ~IsWeekend(x))
                    /\ \A e \in x..d : e \in logged \/ IsWeekend(e)}

LEMMA ChainGrows ==
    ASSUME NEW logged \in SUBSET Nat, IsFiniteSet(logged), NEW d \in logged,
           NEW p \in Int, p = previousCountedDay(d)
    PROVE  Cardinality(Chain(logged, d))
             = 1 + (IF p \in logged THEN Cardinality(Chain(logged, p)) ELSE 0)
<1>1. d \in Nat /\ p < d /\ ~IsWeekend(p) /\ \A e \in Int : p < e /\ e < d => IsWeekend(e)
  <2>1. d \in Int  OBVIOUS
  <2>2. /\ previousCountedDay(d) \in (d - 7)..(d - 1) /\ ~IsWeekend(previousCountedDay(d))
        /\ \A e \in Int : previousCountedDay(d) < e /\ e < d => IsWeekend(e)
    BY <2>1, WorkdayBefore
  <2> QED BY <2>1, <2>2
<1>2. d \in Chain(logged, d)  BY <1>1 DEF Chain
<1>3. ASSUME NEW x \in Chain(logged, d), x # d
      PROVE  x \in Nat /\ x <= p /\ ~IsWeekend(x) /\ p \in logged
             /\ \A e \in x..d : e \in logged \/ IsWeekend(e)
  <2>1. x \in Nat /\ x < d /\ ~IsWeekend(x) /\ \A e \in x..d : e \in logged \/ IsWeekend(e)
    BY <1>1, <1>3 DEF Chain
  <2>2. x <= p
    <3>1. p < x => IsWeekend(x)  BY <1>1, <2>1
    <3> QED BY <1>1, <2>1, <3>1
  <2>3. p \in x..d  BY <1>1, <2>1, <2>2
  <2>4. p \in logged  BY <1>1, <2>1, <2>3
  <2> QED BY <2>1, <2>2, <2>4
<1>4. CASE p \in logged
  <2>1. ASSUME NEW x \in Chain(logged, d), x # d PROVE x \in Chain(logged, p)
    <3>1. x \in logged  BY DEF Chain
    <3>2. \A e \in x..p : e \in x..d  BY <1>1
    <3> QED BY <1>3, <2>1, <3>1, <3>2 DEF Chain
  <2>2. ASSUME NEW x \in Chain(logged, p) PROVE x \in Chain(logged, d) /\ x # d
    <3>1. x \in logged /\ x \in Nat /\ x <= p /\ (x = p \/ ~IsWeekend(x))
          /\ \A e \in x..p : e \in logged \/ IsWeekend(e)
      BY DEF Chain
    <3>2. x <= d /\ x # d /\ ~IsWeekend(x)  BY <1>1, <3>1
    <3>3. ASSUME NEW e \in x..d PROVE e \in logged \/ IsWeekend(e)
      <4>1. e \in Int /\ (e \in x..p \/ (p < e /\ e < d) \/ e = d)  BY <1>1, <3>1
      <4> QED BY <1>1, <3>1, <4>1
    <3> QED BY <3>1, <3>2, <3>3 DEF Chain
  <2>3. PICK C : C = Chain(logged, p)  OBVIOUS
  <2>4. Chain(logged, d) = C \cup {d} /\ d \notin C  BY <1>2, <2>1, <2>2, <2>3
  <2>5. IsFiniteSet(C)
    <3>1. C \in SUBSET logged  BY <2>3 DEF Chain
    <3> QED BY <3>1, FS_Subset
  <2>6. Cardinality(C \cup {d}) = Cardinality(C) + 1 /\ Cardinality(C) \in Nat
    BY <2>4, <2>5, FS_AddElement, FS_CardinalityType
  <2> QED BY <1>4, <2>3, <2>4, <2>6
<1>5. CASE p \notin logged
  <2>1. Chain(logged, d) = {d}  BY <1>2, <1>3, <1>5
  <2> QED BY <1>5, <2>1, FS_Singleton
<1> QED BY <1>4, <1>5

\* What computeStreak counts back from a day are the days of its streak.
LEMMA RunIsChain ==
    ASSUME NEW logged \in SUBSET Nat, IsFiniteSet(logged), NEW n \in Int, NEW f, RunUpTo(logged, n, f)
    PROVE  \A d \in logged : d <= n => f[d] = Cardinality(Chain(logged, d))
<1> DEFINE P == {m \in Nat : \A d \in logged : d < m /\ d <= n => f[d] = Cardinality(Chain(logged, d))}
<1>1. 0 \in P
  <2>1. \A d \in logged : ~(d < 0)
    <3>1. \A d \in logged : d \in Nat  OBVIOUS
    <3>2. \A d \in Nat : ~(d < 0)  OBVIOUS
    <3> QED BY <3>1, <3>2, Zenon
  <2> QED BY <2>1
<1>2. ASSUME NEW m \in Nat, m \in P PROVE m + 1 \in P
  <2> SUFFICES ASSUME NEW d \in logged, d < m + 1, d <= n PROVE f[d] = Cardinality(Chain(logged, d))
    OBVIOUS
  <2>1. d \in Nat /\ d <= m  OBVIOUS
  <2>2. PICK p \in Int : p = previousCountedDay(d) /\ p \in (d - 7)..(d - 1)
    <3>1. d \in Int  BY <2>1
    <3>2. previousCountedDay(d) \in (d - 7)..(d - 1)  BY <3>1, WorkdayBefore
    <3> QED BY <3>1, <3>2
  <2>3. d \in (-7)..n /\ p \in (-7)..n  BY <2>1, <2>2
  <2>4. f[d] = 1 + f[p]  BY <2>2, <2>3 DEF RunUpTo
  <2>5. f[p] = IF p \in logged THEN Cardinality(Chain(logged, p)) ELSE 0
    <3>1. CASE p \in logged
      <4>1. p < m /\ p <= n  BY <2>1, <2>2, <2>3
      <4> QED BY <1>2, <3>1, <4>1
    <3>2. CASE p \notin logged  BY <2>3, <3>2 DEF RunUpTo
    <3> QED BY <3>1, <3>2
  <2>6. Cardinality(Chain(logged, d)) = 1 + (IF p \in logged THEN Cardinality(Chain(logged, p)) ELSE 0)
    BY <2>2, ChainGrows
  <2> QED BY <2>4, <2>5, <2>6
<1> HIDE DEF P
<1>3. \A m \in Nat : m \in P  BY <1>1, <1>2, Reaches
<1>4. ASSUME NEW d \in logged, d <= n PROVE f[d] = Cardinality(Chain(logged, d))
  <2>0. d \in Nat  OBVIOUS
  <2>1. d \in Nat /\ d + 1 \in Nat /\ d < d + 1  BY <2>0
  <2>2. d + 1 \in P  BY <1>3, <2>1
  <2> QED BY <1>4, <2>1, <2>2 DEF P
<1> QED BY <1>4

LEMMA StreakIs ==
    ASSUME NEW logged \in SUBSET Dates, logged # {}
    PROVE  /\ IsFiniteSet(logged) /\ Max(logged) \in logged /\ \A d \in logged : d <= Max(logged)
           /\ computeStreak(logged).length = Cardinality(Chain(logged, Max(logged)))
<1> USE TrackerAssumption
<1>1. LastShown \in Nat /\ logged \in SUBSET Nat /\ \A d \in logged : d <= LastShown
  BY TrackerAssumption DEF Dates
<1>2. IsFiniteSet(logged)
  <2>1. 0 \in Int /\ LastShown \in Int  BY <1>1
  <2>2. IsFiniteSet(0..LastShown)  BY <2>1, FS_Interval
  <2> QED BY <2>2, FS_Subset DEF Dates
<1>3. Max(logged) \in logged /\ \A d \in logged : d <= Max(logged)
  <2>1. logged \subseteq Int /\ LastShown \in Int  BY <1>1
  <2> QED BY <1>1, <2>1, LastIsOne
<1>4. PICK f : RunUpTo(logged, LastShown, f)
                /\ computeStreak(logged).length = f[Max(logged)]
  <2>1. \E f : RunUpTo(logged, LastShown, f)
    <3>1. LastShown + 8 \in Nat /\ (LastShown + 8) - 8 = LastShown  BY <1>1
    <3>2. \E f : RunUpTo(logged, (LastShown + 8) - 8, f)  BY <1>1, <3>1, RunExists
    <3> QED BY <3>1, <3>2
  <2> QED BY <2>1 DEF computeStreak, RunUpTo
<1>5. Max(logged) <= LastShown  BY <1>1, <1>3
<1>6. \A d \in logged : d <= LastShown => f[d] = Cardinality(Chain(logged, d))
  <2>1. LastShown \in Int  BY <1>1
  <2> QED BY <1>1, <1>2, <1>4, <2>1, RunIsChain
<1> QED BY <1>2, <1>3, <1>4, <1>5, <1>6

\* A day with work is one of the clock's.
LEMMA LoggedAreDates ==
    ASSUME EntriesOK, CountsOK, NEW u \in Members, NEW x \in Int
    PROVE  LoggedDates(u, x, date) \in SUBSET Dates
           /\ \A d \in LoggedDates(u, x, date) : x <= d /\ d <= date
<1> SUFFICES ASSUME NEW b \in (x..date) \X Src, Row(u, b[1], b[2]).hours > 0 \/ Row(u, b[1], b[2]).contacts > 0
             PROVE  b[1] \in Dates /\ x <= b[1] /\ b[1] <= date
  <2>1. \A d \in LoggedDates(u, x, date) : \E b \in (x..date) \X Src :
          d = b[1] /\ (Row(u, b[1], b[2]).hours > 0 \/ Row(u, b[1], b[2]).contacts > 0)
    BY DEF LoggedDates, getDailyRows, Src
  <2> QED BY <2>1
<1>1. date \in Nat /\ x <= b[1] /\ b[1] <= date /\ b[2] \in Src  BY DEF CountsOK, Dates
<1>2. PICK d, s : d = b[1] /\ s = b[2]  OBVIOUS
<1>3. ASSUME d \notin Dates PROVE Row(u, d, s).hours = 0 /\ Row(u, d, s).contacts = 0
  <2>1. {a \in {r \in dials : r.by = u /\ r.on = d /\ r.source = s} : Lasting(a)} = {}
    BY <1>3 DEF CountsOK, DialRow
  <2>2. {c \in Deals : d \in First(u, c)} = {}
    <3> SUFFICES ASSUME NEW c \in Deals, d \in First(u, c) PROVE FALSE
      OBVIOUS
    <3>1. PICK on : on = {p.on : p \in {q \in presses : q.by = u /\ q.of = c /\ q.on >= Floor}}
      OBVIOUS
    <3>2. on # {} /\ d = Min(on)  BY <3>1 DEF First
    <3>3. on \subseteq Dates  BY <3>1 DEF CountsOK
    <3>4. on \in SUBSET Nat  BY <3>3 DEF Dates
    <3>5. \E y \in on : \A z \in on : y <= z  BY <3>2, <3>4, FirstIsOne
    <3>6. Min(on) \in on  BY <3>5 DEF Min
    <3> QED BY <1>3, <3>2, <3>3, <3>6
  <2>3. UNION {{k} \X (1..(IF entries[k].of = <<u, d, s>> THEN entries[k].contacts ELSE 0)) :
                 k \in DOMAIN entries} = {}
    <3>1. ASSUME NEW k \in DOMAIN entries PROVE entries[k].of # <<u, d, s>>
      <4>1. CASE entries[k] = NoEntry
        <5>1. entries[k].of = <<>>  BY <4>1 DEF NoEntry
        <5>2. <<>> # <<u, d, s>>  OBVIOUS
        <5> QED BY <5>1, <5>2
      <4>2. CASE entries[k] # NoEntry
        <5>1. DOMAIN entries = 1..MaxActs  BY DEF EntriesOK, RowsOK
        <5>2. entries[k] \in [of : Buckets, contacts : Nat]
          BY <4>2, <5>1 DEF EntriesOK, RowsOK, RowOK
        <5>3. entries[k].of \in Buckets  BY <5>2
        <5>4. PICK v \in Members, e \in Dates, t \in Src : entries[k].of = <<v, e, t>>
          BY <5>3 DEF Buckets, Src
        <5> QED BY <1>3, <5>4
      <4> QED BY <4>1, <4>2
    <3> QED BY <3>1
  <2>4. Cardinality({}) = 0  BY FS_EmptySet
  <2>5. Row(u, d, s).hours = 0  BY <2>1, <2>4 DEF Row
  <2>6. Total(LAMBDA k : IF entries[k].of = <<u, d, s>> THEN entries[k].contacts ELSE 0, DOMAIN entries) = 0
    BY <2>3, <2>4 DEF Total
  <2>7. (IF s = Untagged THEN Cardinality({c \in Deals : d \in First(u, c)}) ELSE 0) = 0
    BY <2>2, <2>4
  <2>8. Row(u, d, s).contacts = 0 + 0  BY <2>6, <2>7 DEF Row
  <2> QED BY <2>5, <2>8
<1>4. d \in Dates
  <2>1. ~(0 > 0)  OBVIOUS
  <2> QED BY <1>2, <1>3, <2>1
<1> QED BY <1>1, <1>2, <1>4

LEMMA PeriodIs ==
    ASSUME date \in Dates, NEW period \in {"today", "this_week", "this_month"}
    PROVE  LET r == resolvePeriodRange(period)
           IN /\ r.from \in Int /\ r.from <= date /\ r.to = date
              /\ r.end \in Int /\ date <= r.end
<1> USE TrackerAssumption
<1>1. date \in Nat /\ date <= LastShown /\ LastShown \in Nat /\ Weekday0 \in Nat
  BY DEF Dates
<1>2. CASE period = "today"
  <2>1. resolvePeriodRange(period) = [from |-> date, to |-> date, end |-> date]
    BY <1>2 DEF resolvePeriodRange
  <2> QED BY <1>1, <2>1
<1>3. CASE period = "this_week"
  <2>1. PICK m \in 0..6 : m = (date + Weekday0) % 7  BY <1>1
  <2>2. resolvePeriodRange(period) = [from |-> date - m, to |-> date, end |-> date - m + 6]
    BY <1>3, <2>1 DEF resolvePeriodRange
  <2>3. date - m \in Int /\ date - m <= date /\ date - m + 6 \in Int /\ date <= date - m + 6
    BY <1>1
  <2> QED BY <2>2, <2>3
<1>4. CASE period = "this_month"
  <2>1. resolvePeriodRange(period) = [from |-> 0, to |-> date, end |-> LastShown]
    BY <1>4 DEF resolvePeriodRange
  <2> QED BY <1>1, <2>1
<1> QED BY <1>2, <1>3, <1>4

\* The strip has the days of a streak that it reaches.
LEMMA StripHolds ==
    ASSUME date \in Dates, NEW logged \in SUBSET Dates, logged # {}, \A d \in logged : d <= date,
           NEW last, last = Max(logged)
    PROVE  \/ Cardinality(Chain(logged, last)) <=
                coverageWindow(logged).hits + (IF IsWeekend(last) THEN 1 ELSE 0)
           \/ \A e \in (date - Window + 1)..last : e \in logged \/ IsWeekend(e)
<1> USE TrackerAssumption
<1>1. /\ IsFiniteSet(logged) /\ last \in logged /\ \A d \in logged : d <= last
  BY StreakIs
<1>2. \A d \in logged : d \in Nat  BY DEF Dates
<1>3. date \in Nat /\ Window \in Nat /\ last \in Nat  BY <1>1, <1>2 DEF Dates
<1>4. PICK from \in Int : from = date - Window + 1  BY <1>3
<1>5. CASE \E x \in Chain(logged, last) : x < from
  <2>1. PICK x \in Chain(logged, last) : x < from  BY <1>5
  <2>2. x \in Nat /\ \A e \in x..last : e \in logged \/ IsWeekend(e)  BY <1>2 DEF Chain
  <2>3. \A e \in from..last : e \in x..last  BY <1>3, <2>1, <2>2
  <2> QED BY <1>4, <2>2, <2>3
<1>6. CASE \A x \in Chain(logged, last) : ~(x < from)
  <2>1. PICK H : H = {d \in from..date : ~IsWeekend(d)} \cap logged  OBVIOUS
  <2>2. coverageWindow(logged).hits = Cardinality(H)  BY <1>4, <2>1 DEF coverageWindow
  <2>3. IsFiniteSet(H) /\ Cardinality(H) \in Nat
    <3>1. H \in SUBSET logged  BY <2>1
    <3>2. IsFiniteSet(H)  BY <1>1, <3>1, FS_Subset
    <3> QED BY <3>2, FS_CardinalityType
  <2>4. ASSUME NEW x \in Chain(logged, last), ~IsWeekend(x) PROVE x \in H
    <3>1. x \in logged /\ x \in Nat /\ x <= date /\ ~(x < from)  BY <1>2, <1>6 DEF Chain
    <3>2. x \in from..date  BY <1>3, <3>1
    <3> QED BY <2>1, <2>4, <3>1, <3>2
  <2>5. CASE ~IsWeekend(last)
    <3>1. Chain(logged, last) \in SUBSET H
      <4>1. \A x \in Chain(logged, last) : ~IsWeekend(x)  BY <2>5 DEF Chain
      <4> QED BY <2>4, <4>1
    <3>2. Cardinality(Chain(logged, last)) <= Cardinality(H)  BY <2>3, <3>1, FS_Subset
    <3>3. Cardinality(H) + 0 = Cardinality(H)  BY <2>3
    <3> QED BY <2>2, <2>5, <3>2, <3>3
  <2>6. CASE IsWeekend(last)
    <3>1. PICK G : G = H \cup {last}  OBVIOUS
    <3>2. Chain(logged, last) \in SUBSET G
      <4>1. \A x \in Chain(logged, last) : x = last \/ ~IsWeekend(x)  BY DEF Chain
      <4> QED BY <2>4, <3>1, <4>1
    <3>3. last \notin H  BY <2>1, <2>6
    <3>4. IsFiniteSet(G) /\ Cardinality(G) = Cardinality(H) + 1
      BY <2>3, <3>1, <3>3, FS_AddElement
    <3>5. Cardinality(Chain(logged, last)) <= Cardinality(G)  BY <3>2, <3>4, FS_Subset
    <3> QED BY <2>2, <2>6, <3>4, <3>5
  <2> QED BY <2>5, <2>6
<1> QED BY <1>5, <1>6

LEMMA StreaksAreWhole ==
    ASSUME EntriesOK, CountsOK
    PROVE  StreaksWhole
<1> SUFFICES ASSUME NEW u \in Members, NEW period \in {"today", "this_week", "this_month"},
                    NEW shown, shown = getDashboard(u, period), NEW last, last = Max(shown.logged)
             PROVE  /\ shown.streak.length =
                         IF shown.logged = {} THEN 0
                         ELSE Cardinality({d \in shown.logged :
                                /\ d = last \/ ~IsWeekend(d)
                                /\ \A e \in d..last : e \in shown.logged \/ IsWeekend(e)})
                    /\ shown.logged # {} =>
                         \/ shown.streak.length <= shown.coverage.hits + (IF IsWeekend(last) THEN 1 ELSE 0)
                         \/ \A e \in (date - Window + 1)..last : e \in shown.logged \/ IsWeekend(e)
                    /\ 0 < shown.elapsed[1] /\ shown.elapsed[1] <= shown.elapsed[2]
  BY DEF StreaksWhole
<1>1. date \in Dates  BY DEF CountsOK
<1>2. PICK r : r = resolvePeriodRange(period)  OBVIOUS
<1>3. r.from \in Int /\ r.from <= date /\ r.to = date /\ r.end \in Int /\ date <= r.end
  BY <1>1, <1>2, PeriodIs
<1>4. PICK x \in Int : x = r.from  BY <1>3
<1>5. PICK logged : logged = LoggedDates(u, x, date)  OBVIOUS
<1>6. /\ shown.logged = logged /\ shown.streak = computeStreak(logged)
      /\ shown.coverage = coverageWindow(logged) /\ shown.elapsed = elapsedFractionOfPeriod(r)
  BY <1>2, <1>3, <1>4, <1>5 DEF getDashboard
<1>7. logged \in SUBSET Dates /\ \A d \in logged : x <= d /\ d <= date
  BY <1>5, LoggedAreDates
<1>8. 0 < shown.elapsed[1] /\ shown.elapsed[1] <= shown.elapsed[2]
  <2>1. date \in Nat  BY <1>1 DEF Dates
  <2>2. shown.elapsed[1] = date - x + 1 /\ shown.elapsed[2] = r.end - x + 1
    BY <1>3, <1>4, <1>6 DEF elapsedFractionOfPeriod
  <2> QED BY <1>3, <1>4, <2>1, <2>2
<1>9. CASE logged = {}
  <2>1. computeStreak(logged).length = 0  BY <1>9 DEF computeStreak
  <2> QED BY <1>6, <1>8, <1>9, <2>1
<1>10. CASE logged # {}
  <2>1. /\ last \in logged /\ \A d \in logged : d <= last
        /\ shown.streak.length = Cardinality(Chain(logged, last))
    BY <1>6, <1>7, <1>10, StreakIs
  <2>2. Chain(logged, last) = {d \in logged : /\ d = last \/ ~IsWeekend(d)
                                              /\ \A e \in d..last : e \in logged \/ IsWeekend(e)}
    BY <2>1 DEF Chain
  <2>3. \/ Cardinality(Chain(logged, last)) <=
             coverageWindow(logged).hits + (IF IsWeekend(last) THEN 1 ELSE 0)
        \/ \A e \in (date - Window + 1)..last : e \in logged \/ IsWeekend(e)
    BY <1>1, <1>6, <1>7, <1>10, StripHolds
  <2> QED BY <1>6, <1>8, <1>10, <2>1, <2>2, <2>3
<1> QED BY <1>9, <1>10

-----------------------------------------------------------------------------
USE CallAssumption, AgendaAssumption

-----------------------------------------------------------------------------
(* The latest of some numbers is one of them. *)

LEMMA LatestIsOne ==
    ASSUME NEW n \in Nat, NEW S \in SUBSET (1..n), S # {}
    PROVE  Latest(S) \in S
<1> DEFINE Above(s) == {r \in S : r > s}
           T == {Above(s) : s \in S}
<1>1. ASSUME NEW s \in S PROVE Above(s) \in FiniteSubsetsOf(1..n)
  <2>1. IsFiniteSet(1..n)  BY FS_Interval
  <2>2. Above(s) \in SUBSET (1..n)  OBVIOUS
  <2> HIDE DEF Above
  <2>3. IsFiniteSet(Above(s))  BY <2>1, <2>2, FS_Subset
  <2> QED BY <2>2, <2>3 DEF FiniteSubsetsOf
<1>2. IsWellFoundedOn(StrictSubsetOrdering(1..n), FiniteSubsetsOf(1..n))
  BY FS_StrictSubsetOrderingWellFounded
<1>3. T \subseteq FiniteSubsetsOf(1..n) /\ T # {}
  <2> HIDE DEF Above
  <2> QED BY <1>1
<1>4. PICK U \in T : \A V \in T : <<V, U>> \notin StrictSubsetOrdering(1..n)
  <2> HIDE DEF T
  <2> QED BY <1>2, <1>3, WFMin, Zenon
<1>5. PICK s \in S : U = Above(s)  BY <1>4
<1>6. ASSUME NEW r \in S, ~(r <= s) PROVE FALSE
  <2>0. s \in 1..n /\ r \in 1..n  OBVIOUS
  <2>1. r \in Above(s) /\ r \notin Above(r)  BY <1>6, <2>0
  <2>2. ASSUME NEW q \in Above(r) PROVE q \in Above(s)
    <3>1. q \in 1..n /\ q \in S /\ q > r  OBVIOUS
    <3> QED BY <1>6, <2>0, <3>1
  <2>3. Above(r) \in SUBSET (1..n) /\ Above(s) \in SUBSET (1..n)  OBVIOUS
  <2>4. Above(r) \in T  OBVIOUS
  <2> HIDE DEF Above, T
  <2>5. <<Above(r), Above(s)>> \in StrictSubsetOrdering(1..n)
    BY <2>1, <2>2, <2>3 DEF StrictSubsetOrdering
  <2> QED BY <1>4, <1>5, <2>4, <2>5
<1>7. \E m \in S : \A r \in S : r <= m  BY <1>6
<1> QED BY <1>7 DEF Latest

-----------------------------------------------------------------------------
(* The calls.  A call has the contact it was placed for from then on; whatever *)
(* is under way is of a call that was placed, and a row has its call's contact. *)

Placed(s) == s \in Calls /\ call[s].at # "new"

CallShapes ==
    /\ DOMAIN call = Calls /\ \A s \in Calls : DOMAIN call[s] = DOMAIN NoCall
    /\ DOMAIN record = Calls /\ \A s \in Calls : DOMAIN record[s] = DOMAIN NoRecord
    /\ \A s \in Calls : IF call[s].at = "new" THEN call[s] = NoCall ELSE call[s].of \in Clients

\* The row of a call is inserted once.
InsertPending(j) == call[j.sid].made /\ ~record[j.sid].there

JobSound(j) ==
    /\ DOMAIN j = DOMAIN Handler("read", Webhook(j.sid, "root", "ringing")) /\ Placed(j.sid)
    /\ j.op = "insert" => InsertPending(j)
    /\ j.op = "write" => record[j.sid].there
    /\ j.op = "attach" => /\ j.target \in Calls /\ record[j.target].there
                          /\ record[j.target].of = call[j.sid].of

RecordSound(s) ==
    IF record[s].there
    THEN /\ Placed(s) /\ call[s].made /\ record[s].of = call[s].of
         /\ record[s].url # None => Placed(record[s].url) /\ call[record[s].url].of = call[s].of
    ELSE record[s] = NoRecord

CallInv ==
    /\ CallShapes
    /\ \A p \in post : DOMAIN p = DOMAIN Webhook(p.sid, p.leg, p.status) /\ Placed(p.sid)
    /\ \A j \in work : JobSound(j)
    /\ \A j, k \in work : j.op = "insert" /\ k.op = "insert" /\ j.sid = k.sid => j = k
    /\ \A s \in Calls : RecordSound(s)

LEMMA CallInvInit == CallsNew /\ CallsQuiet => CallInv
BY DEF CallsNew, CallsQuiet, CallInv, CallShapes, RecordSound, NoCall, NoRecord

LEMMA RecordingsFit == CallInv => RecordingOfContact
BY DEF CallInv, RecordSound, RecordingOfContact, NoRecord

\* A call goes on: it is placed once and keeps its contact.
CallsMove ==
    /\ DOMAIN call' = Calls
    /\ \A s \in Calls :
         /\ DOMAIN call'[s] = DOMAIN NoCall
         /\ IF call[s].at = "new"
            THEN call'[s] = NoCall \/ (call'[s].at # "new" /\ call'[s].of \in Clients)
            ELSE /\ call'[s].at # "new" /\ call'[s].of = call[s].of
                 /\ call[s].made => call'[s].made

\* Rows are written over, but for what says whose they are.
RowsRewritten ==
    /\ DOMAIN record' = Calls
    /\ \A s \in Calls :
         /\ DOMAIN record'[s] = DOMAIN NoRecord
         /\ record'[s].there = record[s].there /\ record'[s].of = record[s].of
         /\ ~record[s].there => record'[s] = record[s]
         /\ record'[s].url \notin {None, record[s].url} =>
              /\ Placed(record'[s].url) /\ record[s].there
              /\ record[s].of = call[record'[s].url].of

PostsSound ==
    \A p \in post' :
        \/ p \in post
        \/ /\ DOMAIN p = DOMAIN Webhook(p.sid, p.leg, p.status)
           /\ Placed(p.sid)'
JobsSound ==
    /\ \A j \in work' :
        \/ j \in work
        \/ JobSound(j)' /\ (j.op = "insert" => ~call[j.sid].made)
    /\ \A j, k \in work' \ work : j.op = "insert" /\ k.op = "insert" => j = k

LEMMA CallInvKept ==
    ASSUME CallInv, CallsMove, RowsRewritten, PostsSound, JobsSound PROVE CallInv'
<1>1. \A s \in Calls : Placed(s) => /\ Placed(s)' /\ call'[s].of = call[s].of
                                    /\ call[s].made => call'[s].made
  BY DEF CallsMove, Placed
<1>2. CallShapes'
  BY DEF CallInv, CallShapes, CallsMove, RowsRewritten
<1>3. ASSUME NEW s \in Calls PROVE RecordSound(s)'
  <2>1. RecordSound(s)  BY DEF CallInv
  <2>2. CASE ~record[s].there  BY <2>1, <2>2 DEF RecordSound, RowsRewritten
  <2>3. CASE record[s].there
    <3>1. Placed(s)' /\ call'[s].made /\ record'[s].there /\ record'[s].of = call'[s].of
      BY <1>1, <2>1, <2>3 DEF RecordSound, RowsRewritten
    <3>2. ASSUME NEW u, u = record'[s].url, u # None
          PROVE  u \in Calls /\ call'[u].at # "new" /\ call'[u].of = call'[s].of
      <4>1. Placed(u) /\ call[u].of = call[s].of
        BY <2>1, <2>3, <3>2 DEF RecordSound, RowsRewritten
      <4>2. Placed(s)  BY <2>1, <2>3 DEF RecordSound
      <4> QED BY <1>1, <4>1, <4>2 DEF Placed
    <3> QED BY <3>1, <3>2 DEF RecordSound, Placed
  <2> QED BY <2>2, <2>3
<1>4. ASSUME NEW j \in work' PROVE JobSound(j)'
  <2>1. CASE j \in work
    <3>1. JobSound(j) /\ Placed(j.sid)  BY <2>1 DEF CallInv, JobSound
    <3>2. j.sid \in Calls  BY <3>1 DEF Placed
    <3> QED BY <1>1, <3>1, <3>2 DEF JobSound, InsertPending, RowsRewritten, Placed
  <2> QED BY <2>1 DEF JobsSound
<1>5. \A p \in post' : DOMAIN p = DOMAIN Webhook(p.sid, p.leg, p.status) /\ Placed(p.sid)'
  BY <1>1 DEF PostsSound, CallInv, Placed
<1>6. ASSUME NEW j \in work', NEW k \in work', j.op = "insert", k.op = "insert", j.sid = k.sid
      PROVE  j = k
  <2>1. \A i \in work : i.op = "insert" => call[i.sid].made  BY DEF CallInv, JobSound, InsertPending
  <2> QED BY <1>6, <2>1 DEF JobsSound, CallInv
<1> QED BY <1>2, <1>3, <1>4, <1>5, <1>6 DEF CallInv

LEMMA RowsStay == CallInv /\ record' = record => RowsRewritten
BY DEF CallInv, CallShapes, RowsRewritten

LEMMA CallsStay == CallInv /\ call' = call => CallsMove
BY DEF CallInv, CallShapes, CallsMove

LEMMA PostsOfPlaced ==
    ASSUME NEW s \in Calls, call'[s].at # "new",
           \A p \in post' : p \in post \/ \E leg, status : p = Webhook(s, leg, status)
    PROVE  PostsSound
BY DEF PostsSound, Placed, Webhook

\* A call is placed, answered, bridged, or ends.
LEMMA WorldKeeps ==
    ASSUME CallInv, NEW s \in Calls,
           \/ \E kind \in Kinds, c \in Clients : Place(s, kind, c)
           \/ \E machine \in BOOLEAN : Answer(s, machine)
           \/ Bridge(s) \/ AgentJoins(s) \/ End(s)
    PROVE  CallInv'
<1>0. record' = record /\ work' = work  BY DEF Place, Answer, Bridge, AgentJoins, End
<1>1. JobsSound /\ RowsRewritten  BY <1>0, RowsStay DEF JobsSound
<1>2. CallShapes  BY DEF CallInv
<1>3. CASE \E kind \in Kinds, c \in Clients : Place(s, kind, c)
  <2>1. PICK kind \in Kinds, c \in Clients : Place(s, kind, c)  BY <1>3
  <2>2. CallsMove  BY <1>2, <2>1 DEF Place, CallShapes, CallsMove, NoCall
  <2>3. call'[s].at # "new"  BY <1>2, <2>1 DEF Place, CallShapes, NoCall
  <2>4. PostsSound  BY <2>1, <2>3, PostsOfPlaced DEF Place
  <2> QED BY <1>1, <2>2, <2>4, CallInvKept
<1>4. CASE \E machine \in BOOLEAN : Answer(s, machine)
  <2>1. PICK machine \in BOOLEAN : Answer(s, machine)  BY <1>4
  <2>2. CallsMove  BY <1>2, <2>1 DEF Answer, CallShapes, CallsMove, NoCall
  <2>3. call'[s].at # "new"  BY <1>2, <2>1 DEF Answer, CallShapes, NoCall
  <2>4. PostsSound  BY <2>1, <2>3, PostsOfPlaced DEF Answer
  <2> QED BY <1>1, <2>2, <2>4, CallInvKept
<1>5. CASE Bridge(s)
  <2>0. PICK agent : call' = [call EXCEPT ![s].agent = agent] /\ call[s].at = "up"
    BY <1>5 DEF Bridge
  <2>1. CallsMove  BY <1>2, <2>0 DEF CallShapes, CallsMove, NoCall
  <2>2. PostsSound  BY <1>5 DEF Bridge, PostsSound
  <2> QED BY <1>1, <2>1, <2>2, CallInvKept
<1>6. CASE AgentJoins(s)
  <2>1. CallsMove  BY <1>2, <1>6 DEF AgentJoins, CallShapes, CallsMove, NoCall
  <2>2. call'[s].at # "new"  BY <1>2, <1>6 DEF AgentJoins, CallShapes, NoCall
  <2>3. PostsSound  BY <1>6, <2>2, PostsOfPlaced DEF AgentJoins
  <2> QED BY <1>1, <2>1, <2>3, CallInvKept
<1>7. CASE End(s)
  <2>1. CallsMove  BY <1>2, <1>7 DEF End, CallShapes, CallsMove, NoCall
  <2>2. call'[s].at # "new"  BY <1>2, <1>7 DEF End, CallShapes, NoCall
  <2>3. \A p \in AgentLegEnds(s) \cup Recordings(s) : \E leg, status : p = Webhook(s, leg, status)
    BY DEF AgentLegEnds, Recordings
  <2>4. PostsSound  BY <1>7, <2>2, <2>3, PostsOfPlaced DEF End
  <2> QED BY <1>1, <2>1, <2>4, CallInvKept
<1> QED BY <1>3, <1>4, <1>5, <1>6, <1>7

\* The row of a call is asked for once the call is made.
LEMMA CreatedKeeps ==
    ASSUME CallInv, NEW s \in Calls,
           PowerCallCreated(s) \/ ManualCallCreated(s) \/ BrowserCallCreated(s)
    PROVE  CallInv'
<1>1. PICK status : /\ call[s].kind \in Kinds /\ ~call[s].made
                    /\ call' = [call EXCEPT ![s].made = TRUE]
                    /\ work' = work \cup {Handler("insert", Webhook(s, "root", status))}
                    /\ UNCHANGED <<post, record>>
  BY DEF PowerCallCreated, ManualCallCreated, BrowserCallCreated, Kinds
<1>2. CallShapes /\ RecordSound(s)  BY DEF CallInv
<1>3. call[s].at # "new"  BY <1>1, <1>2, CallAssumption DEF CallShapes, NoCall, Kinds
<1>4. CallsMove  BY <1>1, <1>2, <1>3 DEF CallShapes, CallsMove
<1>5. RowsRewritten /\ PostsSound  BY <1>1, RowsStay DEF PostsSound
<1> DEFINE h == Handler("insert", Webhook(s, "root", status))
<1>6. ~record[s].there  BY <1>1, <1>2 DEF RecordSound
<1>7. call'[s].made /\ call'[s].at # "new"  BY <1>1, <1>2, <1>3 DEF CallShapes, NoCall
<1>8. JobSound(h)'
  BY <1>1, <1>6, <1>7 DEF JobSound, InsertPending, Placed, Handler, Webhook
<1>9. h.sid = s  BY DEF Handler, Webhook
<1> HIDE DEF h
<1>10. JobsSound
  <2>1. \A j \in work' : j \in work \/ j = h  BY <1>1 DEF h
  <2> QED BY <1>1, <1>8, <1>9, <2>1 DEF JobsSound
<1> QED BY <1>4, <1>5, <1>10, CallInvKept

-----------------------------------------------------------------------------
(* The handlers. *)

\* A handler that makes no call ends, or goes on as h.
LEMMA HandlerEnds ==
    ASSUME CallInv, RowsRewritten, call' = call, post' \subseteq post, work' \subseteq work
    PROVE  CallInv'
<1>1. JobsSound /\ PostsSound  BY DEF JobsSound, PostsSound
<1> QED BY <1>1, CallsStay, CallInvKept

LEMMA HandlerGoesOn ==
    ASSUME CallInv, RowsRewritten, call' = call, post' \subseteq post,
           NEW h, work' \subseteq work \cup {h}, JobSound(h)', h.op # "insert"
    PROVE  CallInv'
<1>1. JobsSound /\ PostsSound  BY DEF JobsSound, PostsSound
<1> QED BY <1>1, CallsStay, CallInvKept

\* A recording is matched with a row of its call's contact.
LEMMA TargetIsOfContact ==
    ASSUME CallInv, NEW p \in post, Target(p) # None
    PROVE  /\ Target(p) \in Calls /\ record[Target(p)].there
           /\ record[Target(p)].of = call[p.sid].of
<1> DEFINE ofLead == {s \in Calls : record[s].lead /\ record[s].of = LeadOf(p.sid)}
           ofContact == {s \in Calls : /\ record[s].there /\ record[s].of = call[p.sid].of
                                       /\ record[s].url = None}
<1>1. p.sid \in Calls /\ call[p.sid].of \in Clients /\ \A s \in Calls : RecordSound(s)
  BY DEF CallInv, CallShapes, Placed
<1>2. \A S \in SUBSET Calls : S # {} => Latest(S) \in S
  BY CallAssumption, LatestIsOne, FS_CardinalityType
<1>3. CASE record[p.sid].there /\ (p.leg = "root" \/ p.sid \in rooted)
  BY <1>1, <1>3 DEF Target, RecordSound
<1>4. CASE ~(record[p.sid].there /\ (p.leg = "root" \/ p.sid \in rooted)) /\ ofLead # {}
  <2>1. Target(p) = Latest(ofLead)  BY <1>4 DEF Target
  <2>2. Latest(ofLead) \in ofLead  BY <1>2, <1>4
  <2>3. ASSUME NEW s \in ofLead
        PROVE  s \in Calls /\ record[s].there /\ record[s].of = call[p.sid].of
    <3>1. s \in Calls /\ record[s].lead /\ record[s].of = LeadOf(p.sid) /\ RecordSound(s)
      BY <1>1
    <3>2. record[s].there /\ record[s].of = call[s].of /\ call[s].of \in Clients
      BY <3>1 DEF RecordSound, NoRecord, CallInv, CallShapes, Placed
    <3> QED BY <3>1, <3>2, CallAssumption DEF LeadOf
  <2> HIDE DEF ofLead
  <2> QED BY <2>1, <2>2, <2>3
<1>5. CASE ~(record[p.sid].there /\ (p.leg = "root" \/ p.sid \in rooted)) /\ ofLead = {}
  <2>1. Target(p) = Latest(ofContact)  BY <1>5 DEF Target
  <2>2. ofContact # {}  BY <2>1 DEF Latest
  <2>3. Latest(ofContact) \in ofContact  BY <1>2, <2>2
  <2> QED BY <2>1, <2>3
<1> QED BY <1>3, <1>4, <1>5

\* Up to the row: the webhook is taken, the row read, the folder action or the
\* machine's lead done with.
LEMMA ReadingKeeps ==
    ASSUME CallInv,
           \/ \E p \in post : StatusArrives(p) \/ RecordingResolved(p)
           \/ \E j \in work : \/ StatusReads(j) \/ FolderActionApplied(j) \/ AmdSkips(j)
                              \/ RecordingAnalysed(j)
           \/ \E s \in Calls : CaptionArrives(s)
    PROVE  CallInv'
<1> USE DEF Handler, Webhook
<1>0. /\ call' = call /\ record' = record /\ post' \subseteq post
      /\ CallShapes /\ \A s \in Calls : RecordSound(s)
  BY DEF StatusArrives, RecordingResolved, StatusReads, FolderActionApplied, AmdSkips,
         RecordingAnalysed, CaptionArrives, CallInv
<1>1. RowsRewritten  BY <1>0, RowsStay
<1>2. ASSUME NEW p \in post, StatusArrives(p) PROVE CallInv'
  <2>1. PICK h : h = [Handler("read", p) EXCEPT !.by = entry[p.sid]]  OBVIOUS
  <2>2. work' \subseteq work \cup {h}  BY <1>2, <2>1 DEF StatusArrives
  <2>3. JobSound(h)' /\ h.op # "insert"  BY <1>0, <2>1 DEF CallInv, JobSound, Placed
  <2> QED BY <1>0, <1>1, <2>2, <2>3, HandlerGoesOn
<1>3. ASSUME NEW j \in work, StatusReads(j) PROVE CallInv'
  <2>1. PICK h : h = [j EXCEPT !.op = "write", !.machine = IsMachine(record[j.sid])]  OBVIOUS
  <2>2. JobSound(j)  BY DEF CallInv
  <2>3. CASE record[j.sid].there
    <3>1. work' \subseteq work \cup {h}  BY <1>3, <2>3, <2>1 DEF StatusReads, Does
    <3>2. JobSound(h)' /\ h.op # "insert"  BY <1>0, <2>2, <2>3, <2>1 DEF JobSound, Placed
    <3> QED BY <1>0, <1>1, <3>1, <3>2, HandlerGoesOn
  <2>4. CASE ~record[j.sid].there
    <3>1. work' \subseteq work  BY <1>3, <2>4 DEF StatusReads, Does
    <3> QED BY <1>0, <1>1, <3>1, HandlerEnds
  <2> QED BY <2>3, <2>4
<1>4. ASSUME NEW j \in work, FolderActionApplied(j) \/ RecordingAnalysed(j) PROVE CallInv'
  <2>1. work' \subseteq work  BY <1>4 DEF FolderActionApplied, RecordingAnalysed, Does
  <2> QED BY <1>0, <1>1, <2>1, HandlerEnds
<1>5. ASSUME NEW j \in work, AmdSkips(j) PROVE CallInv'
  <2>1. PICK h : h = [j EXCEPT !.op = "hangup"]  OBVIOUS
  <2>2. JobSound(j)  BY DEF CallInv
  <2>3. work' \subseteq work \cup {h}  BY <1>5, <2>1 DEF AmdSkips, Does
  <2>4. JobSound(h)' /\ h.op # "insert"  BY <1>0, <2>2, <2>1 DEF JobSound, Placed
  <2> QED BY <1>0, <1>1, <2>3, <2>4, HandlerGoesOn
<1>6. ASSUME NEW s \in Calls, CaptionArrives(s) PROVE CallInv'
  <2>1. work' \subseteq work  BY <1>6 DEF CaptionArrives
  <2> QED BY <1>0, <1>1, <2>1, HandlerEnds
<1>7. ASSUME NEW p \in post, RecordingResolved(p) PROVE CallInv'
  <2>1. PICK h : h = [Handler("attach", p) EXCEPT !.target = Target(p)]  OBVIOUS
  <2>2. CASE Target(p) = None
    <3>1. work' \subseteq work  BY <1>7, <2>2 DEF RecordingResolved
    <3> QED BY <1>0, <1>1, <3>1, HandlerEnds
  <2>3. CASE Target(p) # None
    <3>1. work' \subseteq work \cup {h}  BY <1>7, <2>3, <2>1 DEF RecordingResolved
    <3>2. JobSound(h)' /\ h.op # "insert"
      <4>1. Target(p) \in Calls /\ record[Target(p)].there /\ record[Target(p)].of = call[p.sid].of
        BY <2>3, TargetIsOfContact
      <4>2. Placed(p.sid)'  BY <1>0 DEF CallInv, Placed
      <4> HIDE DEF Handler, Webhook
      <4>3. /\ DOMAIN h = DOMAIN Handler("attach", p) /\ h.op = "attach" /\ h.sid = p.sid
            /\ h.target = Target(p)
        BY <2>1 DEF Handler
      <4>4. DOMAIN h = DOMAIN Handler("read", Webhook(h.sid, "root", "ringing"))
        BY <4>3 DEF Handler
      <4> QED BY <1>0, <4>1, <4>2, <4>3, <4>4 DEF JobSound
    <3> QED BY <1>0, <1>1, <3>1, <3>2, HandlerGoesOn
  <2> QED BY <2>2, <2>3
<1> QED BY <1>2, <1>3, <1>4, <1>5, <1>6, <1>7

\* Into the row: by a status, a verdict, a refused hang-up, a recording.
LEMMA WritingKeeps ==
    ASSUME CallInv,
           \/ \E p \in post : AmdMarks(p)
           \/ \E j \in work : StatusWrites(j) \/ AmdHangsUp(j) \/ RecordingSaved(j)
    PROVE  CallInv'
<1>0. CallShapes /\ \A s \in Calls : RecordSound(s)  BY DEF CallInv
<1>1. ASSUME NEW p \in post, AmdMarks(p) PROVE CallInv'
  <2>1. PICK h : h = [Handler("skip", p) EXCEPT !.machine = record[p.sid].there]  OBVIOUS
  <2>2. call' = call /\ post' \subseteq post /\ work' \subseteq work \cup {h}
    BY <1>1, <2>1 DEF AmdMarks
  <2>3. JobSound(h)' /\ h.op # "insert"
    BY <2>1, <2>2 DEF CallInv, JobSound, Placed, Handler, Webhook
  <2>4. RowsRewritten  BY <1>0, <1>1 DEF AmdMarks, CallShapes, RowsRewritten, NoRecord
  <2> QED BY <2>2, <2>3, <2>4, HandlerGoesOn
<1>2. ASSUME NEW j \in work, StatusWrites(j) PROVE CallInv'
  <2>1. PICK h : h = [j EXCEPT !.op = "file", !.by = "none", !.target = None]  OBVIOUS
  <2>2. call' = call /\ post' = post /\ work' \subseteq work \cup {h}
    BY <1>2, <2>1 DEF StatusWrites, Does
  <2>3. JobSound(j) /\ j.sid \in Calls /\ record[j.sid].there
    BY <1>2 DEF CallInv, StatusWrites, JobSound, Placed
  <2>4. JobSound(h)' /\ h.op # "insert"
    BY <2>1, <2>2, <2>3 DEF JobSound, Placed, Handler, Webhook
  <2>5. RowsRewritten
    <3>1. PICK r : r = NewRow(record[j.sid], j)  OBVIOUS
    <3>2. /\ DOMAIN r = DOMAIN NoRecord /\ r.there = record[j.sid].there
          /\ r.of = record[j.sid].of /\ r.url = record[j.sid].url
      BY <1>0, <2>3, <3>1 DEF NewRow, CallShapes, NoRecord
    <3>3. record' = [record EXCEPT ![j.sid] = r]  BY <1>2, <3>1 DEF StatusWrites
    <3> QED BY <1>0, <2>3, <3>2, <3>3 DEF CallShapes, RowsRewritten
  <2> QED BY <2>2, <2>4, <2>5, HandlerGoesOn
<1>3. ASSUME NEW j \in work, AmdHangsUp(j) PROVE CallInv'
  <2>1. JobSound(j) /\ j.sid \in Calls /\ work' \subseteq work
    BY <1>3 DEF CallInv, AmdHangsUp, Does, JobSound, Placed
  <2>2. CASE UNCHANGED <<call, post>>
    <3>1. RowsRewritten
      BY <1>0, <1>3, <2>1 DEF AmdHangsUp, CallShapes, RowsRewritten, NoRecord
    <3> QED BY <2>1, <2>2, <3>1, HandlerEnds
  <2>3. CASE ~UNCHANGED <<call, post>>
    <3>1. /\ record' = record /\ call[j.sid].at = "up"
          /\ call' = [call EXCEPT ![j.sid].at = "over"]
          /\ post' = post \cup {Webhook(j.sid, "root", "completed")}
      BY <1>3, <2>3 DEF AmdHangsUp
    <3>2. CallsMove  BY <1>0, <3>1 DEF CallShapes, CallsMove, NoCall
    <3>3. call'[j.sid].at # "new"  BY <1>0, <2>1, <3>1 DEF CallShapes, NoCall
    <3>4. PostsSound  BY <2>1, <3>1, <3>3, PostsOfPlaced
    <3>5. JobsSound /\ RowsRewritten  BY <2>1, <3>1, RowsStay DEF JobsSound
    <3> QED BY <3>2, <3>4, <3>5, CallInvKept
  <2> QED BY <2>2, <2>3
<1>4. ASSUME NEW j \in work, RecordingSaved(j) PROVE CallInv'
  <2>1. PICK h : h = [j EXCEPT !.op = "analyse"]  OBVIOUS
  <2>2. call' = call /\ post' = post /\ work' \subseteq work \cup {h}
    BY <1>4, <2>1 DEF RecordingSaved, Does
  <2>3. /\ JobSound(j) /\ Placed(j.sid) /\ j.target \in Calls /\ record[j.target].there
        /\ record[j.target].of = call[j.sid].of
    BY <1>4 DEF CallInv, RecordingSaved, JobSound
  <2>4. JobSound(h)' /\ h.op # "insert"
    BY <2>1, <2>2, <2>3 DEF JobSound, Placed, Handler, Webhook
  <2>5. RowsRewritten
    BY <1>0, <1>4, <2>3 DEF RecordingSaved, CallShapes, RowsRewritten, NoRecord
  <2> QED BY <2>2, <2>4, <2>5, HandlerGoesOn
<1> QED BY <1>1, <1>2, <1>3, <1>4

\* The row of a call is inserted: there was none, and nobody else inserts it.
LEMMA InsertKeeps ==
    ASSUME CallInv, NEW j \in work, RecordInserted(j) PROVE CallInv'
<1> DEFINE s == j.sid
<1>1. CallShapes /\ RecordSound(s) /\ JobSound(j) /\ j.op = "insert"
  BY DEF CallInv, RecordInserted, JobSound, Placed
<1>2. Placed(s) /\ call[s].made /\ ~record[s].there  BY <1>1 DEF JobSound, InsertPending
<1>3. /\ call' = call /\ post' = post /\ work' = work \ {j}
      /\ \A r \in Calls \ {s} : record'[r] = record[r]
      /\ DOMAIN record' = Calls /\ DOMAIN record'[s] = DOMAIN NoRecord
      /\ record'[s].there /\ record'[s].of = call[s].of /\ record'[s].url = None
  BY <1>1, <1>2 DEF RecordInserted, Does, CallShapes, Placed, NoRecord
<1> HIDE DEF s
<1>4. CallShapes'  BY <1>1, <1>3 DEF CallShapes
<1>5. ASSUME NEW r \in Calls PROVE RecordSound(r)'
  <2>1. RecordSound(r)  BY DEF CallInv
  <2> QED BY <1>2, <1>3, <2>1 DEF RecordSound, Placed
<1>6. ASSUME NEW k \in work' PROVE JobSound(k)'
  <2>1. k \in work /\ k # j /\ JobSound(k)  BY <1>3 DEF CallInv
  <2>2. k.op = "insert" => k.sid # s  BY <1>1, <2>1 DEF CallInv, s
  <2>3. k.sid \in Calls  BY <2>1 DEF JobSound, Placed
  <2>4. record[s].there \/ record'[s].there  BY <1>3
  <2> QED BY <1>2, <1>3, <2>1, <2>2, <2>3 DEF JobSound, InsertPending, Placed
<1> QED BY <1>3, <1>4, <1>5, <1>6 DEF CallInv, Placed

LEMMA CallInvNext == CallInv /\ [CallNext]_callVars => CallInv'
<1> SUFFICES ASSUME CallInv, [CallNext]_callVars PROVE CallInv'  OBVIOUS
<1>1. CASE UNCHANGED callVars
  <2>1. RowsRewritten /\ post' \subseteq post /\ work' \subseteq work /\ call' = call
    BY <1>1, RowsStay DEF callVars
  <2> QED BY <2>1, HandlerEnds
<1>2. CASE Placing  BY <1>2, WorldKeeps, CreatedKeeps DEF Placing
<1>3. CASE Arriving(Legs) \/ Writing \/ Verdicts \/ Recorded \/ Captions
  BY <1>3, ReadingKeeps, WritingKeeps, InsertKeeps
     DEF Arriving, Writing, Verdicts, Recorded, Captions
<1> QED BY <1>1, <1>2, <1>3 DEF CallNext

\* A recording is filed with the contact it is of, though its webhook may come
\* before the row, name the other leg or be matched by lead or contact
\* (handleRecordingUpdate), for any number of calls and contacts.
THEOREM RecordingsStayWithContact == CallSpec => []RecordingOfContact
  BY CallInvInit, CallInvNext, RecordingsFit, PTL DEF CallSpec

-----------------------------------------------------------------------------
(* A machine's call. *)


\* What a step may do to a row that says machine.
KeepsMachine(s) ==
    \/ /\ record'[s].disposition = "MACHINE"
       /\ \A j \in work' \ work : j.op = "file" => j.sid # s
    \/ \E j \in work \ work' : j.sid = s /\ j.op = "write" /\ ~j.machine

LEMMA MachineStep ==
    ASSUME CallInv, CallNext, NEW s \in Calls, record[s].disposition = "MACHINE"
    PROVE  KeepsMachine(s)
<1>0. /\ CallShapes /\ RecordSound(s) /\ \A j \in work : JobSound(j)
      /\ DOMAIN record[s] = DOMAIN NoRecord
  BY DEF CallInv, CallShapes
<1>1. record[s].there /\ IsMachine(record[s])
  BY <1>0, CallAssumption DEF RecordSound, NoRecord, IsMachine
<1>2. CASE record' = record /\ \A j \in work' \ work : j.op # "file"
  BY <1>2 DEF KeepsMachine
<1>3. ASSUME NEW j \in work, RecordInserted(j) PROVE KeepsMachine(s)
  <2>1. j.sid # s  BY <1>0, <1>1, <1>3 DEF RecordInserted, JobSound, InsertPending
  <2> QED BY <1>0, <1>3, <2>1 DEF RecordInserted, Does, KeepsMachine, CallShapes
<1>4. ASSUME NEW p \in post, AmdMarks(p) PROVE KeepsMachine(s)
  <2>1. record'[s].disposition = "MACHINE"
    BY <1>0, <1>4 DEF AmdMarks, CallShapes, NoRecord
  <2>2. \A j \in work' \ work : j.op = "skip"  BY <1>4 DEF AmdMarks, Handler
  <2> QED BY <2>1, <2>2 DEF KeepsMachine
<1>5. ASSUME NEW j \in work, AmdHangsUp(j) \/ RecordingSaved(j) PROVE KeepsMachine(s)
  <2>1. record'[s].disposition = "MACHINE"
    BY <1>0, <1>5 DEF AmdHangsUp, RecordingSaved, CallShapes, NoRecord
  <2>2. \A k \in work' \ work : k.op # "file"
    BY <1>0, <1>5 DEF AmdHangsUp, RecordingSaved, Does, JobSound, Handler, Webhook
  <2> QED BY <2>1, <2>2 DEF KeepsMachine
<1>6. ASSUME NEW j \in work, StatusWrites(j) PROVE KeepsMachine(s)
  <2>1. JobSound(j) /\ j.op = "write"  BY <1>0, <1>6 DEF StatusWrites
  <2>2. PICK h : h = [j EXCEPT !.op = "file", !.by = "none", !.target = None]  OBVIOUS
  <2>3. h.op = "file" /\ h.sid = j.sid  BY <2>1, <2>2 DEF JobSound, Handler, Webhook
  <2>4. CASE j.sid # s
    <3>1. record'[s] = record[s]  BY <1>0, <1>6, <2>4 DEF StatusWrites, CallShapes
    <3>2. work' \subseteq work \cup {h}  BY <1>6, <2>2 DEF StatusWrites, Does
    <3> QED BY <2>3, <2>4, <3>1, <3>2 DEF KeepsMachine
  <2>5. CASE j.sid = s /\ j.machine
    <3>1. work' \subseteq work  BY <1>6, <2>5 DEF StatusWrites, Does
    <3>2. PICK r : r = NewRow(record[s], j)  OBVIOUS
    <3>3. r.disposition = "MACHINE"  BY <1>0, <2>5, <3>2 DEF NewRow, NoRecord
    <3>4. record'[s] = r  BY <1>0, <1>6, <2>5, <3>2 DEF StatusWrites, CallShapes
    <3> QED BY <3>1, <3>3, <3>4 DEF KeepsMachine
  <2>6. CASE j.sid = s /\ ~j.machine
    <3>1. work' \subseteq (work \ {j}) \cup {h}  BY <1>6, <2>2 DEF StatusWrites, Does
    <3>2. j \notin work'  BY <2>1, <2>3, <3>1
    <3> QED BY <2>1, <2>6, <3>2 DEF KeepsMachine
  <2> QED BY <2>4, <2>5, <2>6
<1>7. ASSUME NEW r \in Calls,
             \/ \E kind \in Kinds, c \in Clients : Place(r, kind, c)
             \/ \E machine \in BOOLEAN : Answer(r, machine)
             \/ Bridge(r) \/ AgentJoins(r) \/ End(r)
      PROVE  KeepsMachine(s)
  <2>1. record' = record /\ work' = work
    BY <1>7 DEF Place, Bridge, AgentJoins, End, Answer
  <2> QED BY <1>2, <2>1
<1>8. ASSUME NEW r \in Calls,
             PowerCallCreated(r) \/ ManualCallCreated(r) \/ BrowserCallCreated(r)
      PROVE  KeepsMachine(s)
  <2>1. PICK status : /\ record' = record
                      /\ work' = work \cup {Handler("insert", Webhook(r, "root", status))}
    BY <1>8 DEF PowerCallCreated, ManualCallCreated, BrowserCallCreated
  <2> QED BY <1>2, <2>1 DEF Handler
<1>9. ASSUME NEW p \in post, StatusArrives(p) \/ RecordingResolved(p) PROVE KeepsMachine(s)
  <2>1. record' = record /\ \A j \in work' \ work : j.op # "file"
    BY <1>9 DEF StatusArrives, RecordingResolved, Handler
  <2> QED BY <1>2, <2>1
<1>10. ASSUME NEW j \in work, StatusReads(j) PROVE KeepsMachine(s)
  <2>1. JobSound(j)  BY <1>0
  <2>2. record' = record /\ \A k \in work' \ work : k.op = "write"
    BY <1>10, <2>1 DEF StatusReads, Does, JobSound, Handler, Webhook
  <2> QED BY <1>2, <2>2
<1>11. ASSUME NEW j \in work, FolderActionApplied(j) \/ AmdSkips(j) \/ RecordingAnalysed(j)
      PROVE  KeepsMachine(s)
  <2>1. JobSound(j)  BY <1>0
  <2>2. record' = record /\ \A k \in work' \ work : k.op = "hangup"
    BY <1>11, <2>1 DEF FolderActionApplied, AmdSkips, RecordingAnalysed, Does, JobSound, Handler,
                       Webhook
  <2> QED BY <1>2, <2>2
<1>12. CASE Captions  BY <1>2, <1>12 DEF Captions, CaptionArrives
<1> QED BY <1>3, <1>4, <1>5, <1>6, <1>7, <1>8, <1>9, <1>10, <1>11, <1>12
        DEF CallNext, Placing, Arriving, Writing, Verdicts, Recorded

\* Once detection has said that a machine answered, the row says so, and no
\* folder action is started for the call, unless by a status handler that had
\* read the row before (handleAmdStatus, handleCallStatusUpdate).
THEOREM MachinesStayMachines == CallSpec => MachineKept
<1>1. CallInv /\ [CallNext]_callVars =>
        [\A s \in Calls : record[s].disposition = "MACHINE" => KeepsMachine(s)]_activityVars
  <2>1. ASSUME CallInv, CallNext
        PROVE  \A s \in Calls : record[s].disposition = "MACHINE" => KeepsMachine(s)
    BY <2>1, MachineStep
  <2>2. ASSUME UNCHANGED callVars
        PROVE  \A s \in Calls : record[s].disposition = "MACHINE" => KeepsMachine(s)
    BY <2>2 DEF callVars, KeepsMachine
  <2> QED BY <2>1, <2>2
<1> QED BY <1>1, CallInvInit, CallInvNext, PTL DEF CallSpec, MachineKept, KeepsMachine

-----------------------------------------------------------------------------
(* The inbox. *)

Texts == Seq([sent : BOOLEAN, remote : Phones, of : Clients \cup {None}])

LEMMA TextsKeep == texts \in Texts /\ [ScreensNext]_screenVars => (texts \in Texts)'
<1> SUFFICES ASSUME texts \in Texts, [ScreensNext]_screenVars PROVE texts' \in Texts  OBVIOUS
<1>1. CASE UNCHANGED texts  BY <1>1
<1>2. CASE Dialling \/ Editing
  BY <1>2 DEF Dialling, Editing, upsertDialSession, Reach, PhonesEdited
<1>3. ASSUME NEW n \in Phones, NEW c \in Clients \cup {None},
             sendSms(n, c) \/ handleIncomingSms(n, c)
      PROVE  texts' \in Texts
  <2>1. PICK sent \in BOOLEAN : texts' = Append(texts, Text(sent, n, c))
    BY <1>3 DEF sendSms, handleIncomingSms
  <2>2. PICK t : t = Text(sent, n, c)  OBVIOUS
  <2>3. t \in [sent : BOOLEAN, remote : Phones, of : Clients \cup {None}]  BY <2>2 DEF Text
  <2> QED BY <2>1, <2>2, <2>3 DEF Texts
<1> QED BY <1>1, <1>2, <1>3 DEF ScreensNext, Texting, screenVars

\* The contact of a message among several is of those that are asked about.
LEMMA LatestOfOne ==
    ASSUME texts \in Texts, NEW S, NEW M \in SUBSET DOMAIN texts, LatestOf(S, M) # None
    PROVE  LatestOf(S, M) \in S
<1> DEFINE ks == {k \in M : texts[k].of \in S}
<1>1. ks # {} /\ LatestOf(S, M) = texts[Latest(ks)].of  BY DEF LatestOf
<1>2. ks \in SUBSET (1..Len(texts)) /\ Len(texts) \in Nat  BY DEF Texts
<1>3. \A k \in ks : texts[k].of \in S  OBVIOUS
<1> HIDE DEF ks
<1>4. Latest(ks) \in ks  BY <1>1, <1>2, LatestIsOne
<1> QED BY <1>1, <1>3, <1>4

\* A thread is shown under those that have its number.
LEMMA BestIsOwner == ASSUME texts \in Texts, NEW n PROVE Best(n) \subseteq Owners(n)
<1> DEFINE with == {k \in DOMAIN texts : texts[k].remote = n}
           M == {k \in with : texts[k].sent}
           sent == LatestOf(Owners(n), M)
           last == texts[Latest(with)].of
<1>1. M \in SUBSET DOMAIN texts  OBVIOUS
<1>2. Best(n) = IF sent # None THEN {sent} ELSE IF last \in Owners(n) THEN {last} ELSE Owners(n)
  BY Zenon DEF Best
<1> HIDE DEF M, last
<1>3. sent # None => sent \in Owners(n)  BY <1>1, LatestOfOne
<1> QED BY <1>2, <1>3

LEMMA InboxFits == texts \in Texts => InboxWhole
<1> SUFFICES ASSUME texts \in Texts PROVE InboxWhole  OBVIOUS
<1> DEFINE Numbers == {texts[k].remote : k \in DOMAIN texts}
<1>1. ASSUME NEW n, NEW c \in Best(n) PROVE c \in Clients /\ n \in phones[c]
  BY <1>1, BestIsOwner DEF Owners
<1>2. ASSUME NEW t PROVE
        t \in Inbox <=>
          \/ \E n \in Numbers : \E c \in Best(n) : t = [remote |-> n, shows |-> Conversation(c)]
          \/ \E n \in Numbers : Best(n) = {} /\ t = [remote |-> n, shows |-> NumberConversation(n)]
  <2> DEFINE Pairs == {r \in Numbers \X Clients : r[2] \in Best(r[1])}
             Known == {[remote |-> s[1], shows |-> Conversation(s[2])] : s \in Pairs}
             Unknown == {[remote |-> n, shows |-> NumberConversation(n)] :
                           n \in {m \in Numbers : Best(m) = {}}}
  <2>1. \A s : s \in Pairs <=> \E n \in Numbers : \E c \in Best(n) : s = <<n, c>>
    BY <1>1
  <2>2. Inbox = Known \cup Unknown  BY Zenon DEF Inbox
  <2>3. t \in Unknown <=>
          \E n \in Numbers : Best(n) = {} /\ t = [remote |-> n, shows |-> NumberConversation(n)]
    <3> HIDE DEF Numbers
    <3> QED OBVIOUS
  <2>4. t \in Known <=>
          \E n \in Numbers : \E c \in Best(n) : t = [remote |-> n, shows |-> Conversation(c)]
    <3> HIDE DEF Pairs, Numbers
    <3>1. t \in Known <=> \E s \in Pairs : t = [remote |-> s[1], shows |-> Conversation(s[2])]
      BY Zenon
    <3>2. \A n, c : <<n, c>>[1] = n /\ <<n, c>>[2] = c  OBVIOUS
    <3>3. ASSUME NEW n \in Numbers, NEW c \in Best(n),
                 t = [remote |-> n, shows |-> Conversation(c)]
          PROVE  t \in Known
      <4>1. <<n, c>> \in Pairs  BY <2>1, <3>3
      <4> QED BY <3>1, <3>2, <3>3, <4>1
    <3>4. ASSUME NEW s \in Pairs, t = [remote |-> s[1], shows |-> Conversation(s[2])]
          PROVE  \E n \in Numbers : \E c \in Best(n) : t = [remote |-> n, shows |-> Conversation(c)]
      <4>1. PICK n \in Numbers : \E c \in Best(n) : s = <<n, c>>  BY <2>1, <3>4
      <4>2. PICK c \in Best(n) : s = <<n, c>>  BY <4>1
      <4> QED BY <3>2, <3>4, <4>2
    <3> HIDE DEF Known
    <3> QED BY <3>1, <3>3, <3>4
  <2> HIDE DEF Known, Unknown, Numbers
  <2> QED BY <2>2, <2>3, <2>4
<1>3. ASSUME NEW k \in DOMAIN texts
      PROVE  /\ \E t \in Inbox : t.remote = texts[k].remote
             /\ \A t \in Inbox : t.remote = texts[k].remote => k \in t.shows
  <2>1. PICK n : n = texts[k].remote  OBVIOUS
  <2>2. n \in Numbers  BY <2>1
  <2>3. \A c \in Best(n) : k \in Conversation(c)  BY <1>1, <2>1 DEF Conversation
  <2>4. k \in NumberConversation(n)  BY <2>1 DEF NumberConversation
  <2> HIDE DEF Numbers
  <2>5. \E t \in Inbox : t.remote = n
    <3>1. CASE Best(n) = {}
      <4>1. PICK t : t = [remote |-> n, shows |-> NumberConversation(n)]  OBVIOUS
      <4> QED BY <1>2, <2>2, <3>1, <4>1
    <3>2. ASSUME NEW c \in Best(n) PROVE \E t \in Inbox : t.remote = n
      <4>1. PICK t : t = [remote |-> n, shows |-> Conversation(c)]  OBVIOUS
      <4> QED BY <1>2, <2>2, <3>2, <4>1
    <3> QED BY <3>1, <3>2
  <2>6. ASSUME NEW t \in Inbox, t.remote = n PROVE k \in t.shows
    BY <1>2, <2>3, <2>4, <2>6
  <2> QED BY <2>1, <2>5, <2>6
<1> QED BY <1>3 DEF InboxWhole

\* Every message is shown by the thread of its number in the inbox, whoever has
\* come to have the number since, for any number of contacts, numbers and messages
\* (getSmsInbox, getSmsConversation).
THEOREM MessagesAreShown == ScreensSpec => []InboxWhole
<1>1. ScreensInit => texts \in Texts  BY DEF ScreensInit, Texts
<1> QED BY <1>1, TextsKeep, InboxFits, PTL DEF ScreensSpec

-----------------------------------------------------------------------------
(* The agenda.  Whatever is under way is of a row that was made, and an id that *)
(* anything remembers, a row or a handler, is of an event made for that row. *)

Remote == [of : Items, via : Providers, live : BOOLEAN]
OfRow(i) == i \in Items /\ item[i].kind # Unset
Held(ext, i) == ext # 0 => ext \in DOMAIN remote /\ remote[ext].of = i

Calling == {"syncing", "deleting"}
Asking == {"update", "snooze", "complete", "delete", "remove"}

CallIsSound(h) ==
    /\ DOMAIN h = DOMAIN Syncing(h.item, h.ext, TRUE) /\ DOMAIN h.got = Providers
    /\ OfRow(h.item) /\ Held(h.ext, h.item)
    /\ \A p \in Providers : /\ Held(h.got[p], h.item)
                            /\ h.got[p] # 0 => remote[h.got[p]].via = p
AskedOf(h) ==
    /\ OfRow(h.item) /\ Held(h.ext, h.item)
    /\ h.op \in {"snooze", "complete"} => item[h.item].kind = "callback"
    /\ h.op = "remove" => item[h.item].kind \in {"event", "removed"}
TickIsSound(h) ==
    /\ DOMAIN h = DOMAIN Tick(h.op, h.items, h.time)
    /\ \A i \in h.items : OfRow(i) /\ (h.op = "due" => item[i].kind = "callback")

HandlerSound(h) ==
    /\ h.op \in Calling => CallIsSound(h)
    /\ h.op \in Asking => AskedOf(h)
    /\ h.op \in {"remind", "tasks", "due"} => TickIsSound(h)
    /\ h.op = "mark" => OfRow(h.item) /\ (item[h.item].told \/ h.item \in Quiet)

ItemSound(i) ==
    /\ DOMAIN item[i] = DOMAIN NoItem
    /\ Held(item[i].ext, i) /\ (item[i].ext # 0 => remote[item[i].ext].via = item[i].via)
    /\ item[i].reminded => item[i].told \/ i \in Quiet

AgendaInv ==
    /\ DOMAIN item = Items /\ DOMAIN hold = Contacts /\ remote \in Seq(Remote)
    /\ \A i \in Items : ItemSound(i)
    /\ \A h \in busy : HandlerSound(h)
    /\ HoldBacked

LEMMA AgendaFits == AgendaInv => AgendaAgrees
BY DEF AgendaInv, ItemSound, Held, AgendaAgrees, EventOfItem, RemindedWasTold

LEMMA AgendaInvInit == AgendaInit => AgendaInv
BY DEF AgendaInit, AgendaInv, ItemSound, Held, HoldBacked, NoItem

-----------------------------------------------------------------------------
(* What a step may do. *)

\* A row stays what it is, but that an event may be removed.
RowsLast ==
    /\ DOMAIN item' = Items
    /\ \A i \in Items :
         /\ item[i].kind # Unset =>
              \/ item'[i].kind = item[i].kind
              \/ item[i].kind \in {"event", "removed"} /\ item'[i].kind = "removed"
         /\ OfRow(i) /\ item[i].told => item'[i].told

\* Events are made and end, and are of the row and the provider they were made for.
EventsLast ==
    /\ remote' \in Seq(Remote)
    /\ \A k \in DOMAIN remote : /\ k \in DOMAIN remote' /\ remote'[k].of = remote[k].of
                                /\ remote'[k].via = remote[k].via

LEMMA HeldStays == ASSUME EventsLast, NEW ext, NEW i, Held(ext, i) PROVE Held(ext, i)'
BY DEF EventsLast, Held

LEMMA HandlerStays ==
    ASSUME AgendaInv, RowsLast, EventsLast, NEW h \in busy PROVE HandlerSound(h)'
<1>0. HandlerSound(h)  BY DEF AgendaInv
<1>1. \A i : OfRow(i) => OfRow(i)'
  BY AgendaAssumption DEF OfRow, RowsLast
<1>2. ASSUME h.op \in Calling PROVE CallIsSound(h)'
  <2>1. CallIsSound(h)  BY <1>0, <1>2 DEF HandlerSound
  <2>2. Held(h.ext, h.item)' /\ \A p \in Providers : Held(h.got[p], h.item)'
    BY <2>1, HeldStays DEF CallIsSound
  <2>3. \A p \in Providers : h.got[p] # 0 => remote'[h.got[p]].via = p
    BY <2>1 DEF CallIsSound, Held, EventsLast
  <2> QED BY <1>1, <2>1, <2>2, <2>3 DEF CallIsSound
<1>3. ASSUME h.op \in Asking PROVE AskedOf(h)'
  <2>1. AskedOf(h)  BY <1>0, <1>3 DEF HandlerSound
  <2>2. Held(h.ext, h.item)' /\ OfRow(h.item)'  BY <1>1, <2>1, HeldStays DEF AskedOf
  <2> QED BY <2>1, <2>2 DEF AskedOf, RowsLast, OfRow
<1>4. ASSUME h.op \in {"remind", "tasks", "due"} PROVE TickIsSound(h)'
  BY <1>0, <1>1, <1>4 DEF HandlerSound, TickIsSound, RowsLast, OfRow
<1>5. ASSUME h.op = "mark" PROVE OfRow(h.item)' /\ (item'[h.item].told \/ h.item \in Quiet)
  BY <1>0, <1>1, <1>5 DEF HandlerSound, RowsLast, OfRow
<1> QED BY <1>2, <1>3, <1>4, <1>5 DEF HandlerSound

LEMMA AgendaInvKept ==
    ASSUME AgendaInv, RowsLast, EventsLast, DOMAIN hold' = Contacts,
           \A i \in Items : ItemSound(i)',
           \A h \in busy' : h \in busy \/ HandlerSound(h)',
           HoldBacked'
    PROVE  AgendaInv'
BY HandlerStays DEF AgendaInv, RowsLast, EventsLast

\* Steps that leave the rows alone.
LEMMA RowsAloneKeeps ==
    ASSUME AgendaInv, UNCHANGED <<item, hold>>, EventsLast,
           \A h \in busy' : h \in busy \/ HandlerSound(h)'
    PROVE  AgendaInv'
<1>1. RowsLast  BY DEF AgendaInv, RowsLast
<1>2. \A i \in Items : ItemSound(i)'
  <2>1. ASSUME NEW i \in Items PROVE ItemSound(i)'
    <3>1. ItemSound(i)  BY DEF AgendaInv
    <3>2. PICK e : e = item[i].ext  OBVIOUS
    <3>3. Held(e, i)'  BY <3>1, <3>2, HeldStays DEF ItemSound
    <3>4. e # 0 => remote'[e].via = item[i].via
      BY <3>1, <3>2 DEF ItemSound, Held, EventsLast
    <3> QED BY <3>1, <3>2, <3>3, <3>4 DEF ItemSound, Held
  <2> QED BY <2>1
<1>3. HoldBacked' /\ DOMAIN hold' = Contacts  BY DEF AgendaInv, HoldBacked
<1> QED BY <1>1, <1>2, <1>3, AgendaInvKept

LEMMA EventsAlone == AgendaInv /\ UNCHANGED remote => EventsLast
BY DEF AgendaInv, EventsLast

-----------------------------------------------------------------------------
(* Requests. *)

\* A call to the providers for a row, by an id that is the row's.
LEMMA CallsAreSound ==
    ASSUME NEW i, OfRow(i)', NEW ext, Held(ext, i)', NEW keep, 0 \notin DOMAIN remote'
    PROVE  HandlerSound(Syncing(i, ext, keep))' /\ HandlerSound(Deleting(i, ext))'
BY DEF HandlerSound, CallIsSound, Syncing, Deleting, Calling, Asking, Held

\* Of all requests that write row i: nothing but its status and time change, the
\* appointment that is cancelled apart, and at most a call to the providers is begun.
Rewrites(h, next) ==
    /\ Writes(h, next)
    /\ \A c \in next : \E ext, keep : /\ c \in {Syncing(h.item, ext, keep), Deleting(h.item, ext)}
                                      /\ Held(ext, h.item)
    /\ DOMAIN hold' = Contacts
    /\ item[h.item].kind = "appointment" /\ h.status = "CANCELLED"
         => hold' = [hold EXCEPT ![item[h.item].of] = "ACTIVE"]
    /\ hold' = hold \/ hold' = [hold EXCEPT ![item[h.item].of] = "ACTIVE"]

LEMMA RewritesKeeps ==
    ASSUME AgendaInv, NEW h \in busy, h.op \in Asking, NEW next, Rewrites(h, next)
    PROVE  AgendaInv'
<1>1. OfRow(h.item) /\ ItemSound(h.item) /\ EventsLast /\ remote' = remote
  BY EventsAlone DEF AgendaInv, HandlerSound, AskedOf, OfRow, Rewrites, Writes
<1>2. PICK r : r = Written(item[h.item], h)  OBVIOUS
<1>3. /\ DOMAIN r = DOMAIN NoItem /\ \A f \in {"kind", "of", "ext", "via", "reminded", "told"} :
                                        r[f] = item[h.item][f]
      /\ r.status \in {item[h.item].status, h.status}
  BY <1>1, <1>2 DEF Written, ItemSound, NoItem
<1>4. item' = [item EXCEPT ![h.item] = r]  BY <1>2 DEF Rewrites, Writes
<1>5. RowsLast  BY <1>1, <1>3, <1>4 DEF RowsLast, OfRow, AgendaInv
<1>6. ASSUME NEW i \in Items PROVE ItemSound(i)'
  <2>1. ItemSound(i)  BY DEF AgendaInv
  <2> QED BY <1>1, <1>3, <1>4, <2>1 DEF ItemSound, Held, AgendaInv
<1>7. ASSUME NEW c \in busy', c \notin busy PROVE HandlerSound(c)'
  <2>1. c \in next  BY <1>7 DEF Rewrites, Writes
  <2>2. PICK ext, keep : /\ c \in {Syncing(h.item, ext, keep), Deleting(h.item, ext)}
                         /\ Held(ext, h.item)
    BY <2>1 DEF Rewrites
  <2>3. PICK i : i = h.item  OBVIOUS
  <2>4. Held(ext, i)' /\ OfRow(i)' /\ 0 \notin DOMAIN remote'
    BY <1>1, <1>3, <1>4, <2>2, <2>3, HeldStays DEF OfRow, AgendaInv
  <2> QED BY <2>2, <2>3, <2>4, CallsAreSound
<1>8. HoldBacked'
  <2>1. ASSUME NEW c \in Contacts, hold'[c] = "APPOINTMENT_HOLD"
        PROVE  \E i \in Items : /\ item'[i].kind = "appointment" /\ item'[i].of = c
                                /\ item'[i].status # "CANCELLED"
    <3>1. hold[c] = "APPOINTMENT_HOLD" /\ (hold' # hold => c # item[h.item].of)
      BY <2>1 DEF Rewrites, AgendaInv
    <3>2. PICK i \in Items : /\ item[i].kind = "appointment" /\ item[i].of = c
                             /\ item[i].status # "CANCELLED"
      BY <3>1 DEF AgendaInv, HoldBacked
    <3>3. CASE i = h.item
      <4>1. h.status # "CANCELLED"
        BY <2>1, <3>1, <3>2, <3>3 DEF Rewrites, AgendaInv
      <4>2. r.status # "CANCELLED"  BY <1>3, <3>2, <3>3, <4>1
      <4> QED BY <1>1, <1>3, <1>4, <3>2, <3>3, <4>2 DEF OfRow, AgendaInv
    <3>4. CASE i # h.item  BY <1>4, <3>2, <3>4 DEF AgendaInv
    <3> QED BY <3>3, <3>4
  <2> QED BY <2>1 DEF HoldBacked
<1> QED BY <1>1, <1>5, <1>6, <1>7, <1>8, AgendaInvKept DEF Rewrites

LEMMA WritesKeeps ==
    ASSUME AgendaInv, NEW h \in busy,
           \/ updateCallback(h) \/ snoozeCallback(h) \/ completeCallback(h) \/ deleteCallback(h)
           \/ updateAppointment(h) \/ deleteAppointment(h) \/ updateTask(h) \/ deleteTask(h)
           \/ updateCalendarEvent(h)
    PROVE  AgendaInv'
<1>1. h.op \in Asking
  BY DEF updateCallback, snoozeCallback, completeCallback, deleteCallback, updateAppointment,
         deleteAppointment, updateTask, deleteTask, updateCalendarEvent, Asking
<1>2. AskedOf(h) /\ ItemSound(h.item) /\ DOMAIN hold = Contacts
  BY <1>1 DEF AgendaInv, HandlerSound, AskedOf, OfRow
<1>3. Held(h.ext, h.item) /\ Held(item[h.item].ext, h.item)  BY <1>2 DEF AskedOf, ItemSound
<1> DEFINE D == Deleting(h.item, h.ext)
           S(keep) == Syncing(h.item, item[h.item].ext, keep)
           R(keep) == Syncing(h.item, h.ext, keep)
           Known(next) == \A c \in next :
              \E ext, keep : /\ c \in {Syncing(h.item, ext, keep), Deleting(h.item, ext)}
                             /\ Held(ext, h.item)
<1>4. Known({}) /\ Known({D}) /\ \A keep : Known({S(keep)}) /\ Known({R(keep)})
  <2>1. Known({}) /\ Known({D})  BY <1>3, Zenon
  <2>2. ASSUME NEW keep, NEW e, Held(e, h.item) PROVE Known({Syncing(h.item, e, keep)})
    <3>1. ASSUME NEW c \in {Syncing(h.item, e, keep)}
          PROVE  \E ext, kept : /\ c \in {Syncing(h.item, ext, kept), Deleting(h.item, ext)}
                                /\ Held(ext, h.item)
      <4>1. c = Syncing(h.item, e, keep)  BY <3>1
      <4> QED BY <2>2, <4>1
    <3> QED BY <3>1, Zenon
  <2>3. ASSUME NEW keep PROVE Known({S(keep)}) /\ Known({R(keep)})
    <3> HIDE DEF Known
    <3> QED BY <1>3, <2>2
  <2> QED BY <2>1, <2>3
<1>5. ASSUME \/ Writes(h, {}) \/ Writes(h, {D}) \/ \E keep : Writes(h, {S(keep)})
             \/ \E keep : Writes(h, {R(keep)})
      PROVE  \E next : Writes(h, next) /\ Known(next)
  <2> HIDE DEF D, S, R, Known
  <2> QED BY <1>4, <1>5
<1>6. /\ \E next : Writes(h, next) /\ Known(next)
      /\ item[h.item].kind = "appointment" /\ h.status = "CANCELLED"
           => hold' = [hold EXCEPT ![item[h.item].of] = "ACTIVE"]
      /\ hold' = hold \/ hold' = [hold EXCEPT ![item[h.item].of] = "ACTIVE"]
  <2>1. CASE \/ updateCallback(h) \/ snoozeCallback(h) \/ completeCallback(h)
             \/ deleteCallback(h) \/ updateTask(h) \/ deleteTask(h) \/ updateCalendarEvent(h)
    <3>1. item[h.item].kind # "appointment" /\ UNCHANGED hold
      BY <1>2, <2>1 DEF updateCallback, snoozeCallback, completeCallback, deleteCallback,
                        updateTask, deleteTask, updateCalendarEvent, AskedOf
    <3>2. \/ Writes(h, {}) \/ Writes(h, {D}) \/ \E keep : Writes(h, {S(keep)})
          \/ \E keep : Writes(h, {R(keep)})
      BY <2>1, Zenon DEF updateCallback, snoozeCallback, completeCallback, deleteCallback,
                        updateTask, deleteTask, updateCalendarEvent
    <3> QED BY <1>5, <3>1, <3>2
  <2>2. CASE updateAppointment(h) \/ deleteAppointment(h)
    <3>1. Writes(h, {}) \/ Writes(h, {D}) \/ \E keep : Writes(h, {S(keep)})
      BY <2>2, Zenon DEF updateAppointment, deleteAppointment
    <3>2. /\ h.status = "CANCELLED" => hold' = [hold EXCEPT ![item[h.item].of] = "ACTIVE"]
          /\ hold' = hold \/ hold' = [hold EXCEPT ![item[h.item].of] = "ACTIVE"]
      BY <2>2 DEF updateAppointment, deleteAppointment
    <3> QED BY <1>5, <3>1, <3>2
  <2> QED BY <2>1, <2>2
<1>7. \E next : Rewrites(h, next)
  <2>1. PICK next : Writes(h, next) /\ Known(next)  BY <1>6
  <2>2. DOMAIN hold' = Contacts  BY <1>2, <1>6
  <2> QED BY <1>6, <2>1, <2>2 DEF Rewrites
<1> QED BY <1>1, <1>7, RewritesKeeps

\* A row is made, asked about, removed.
LEMMA CreateKeeps ==
    ASSUME AgendaInv, NEW i \in Items, NEW c \in Contacts, NEW tm,
           \/ createCallback(i, c, tm) \/ createAppointment(i, c, tm)
           \/ createTask(i, c, tm) \/ createCalendarEvent(i, c, tm)
    PROVE  AgendaInv'
<1>1. PICK kind, status : kind \in Types /\ Create(i, kind, status, c, tm)
  BY DEF createCallback, createAppointment, createTask, createCalendarEvent, Types
<1>2. PICK r : r = [NoItem EXCEPT !.kind = kind, !.status = status, !.of = c, !.at = tm]  OBVIOUS
<1>3. /\ DOMAIN r = DOMAIN NoItem /\ r.kind = kind /\ r.status = status /\ r.of = c /\ r.ext = 0
      /\ r.reminded = FALSE
  BY <1>2 DEF NoItem
<1>4. item[i].kind = Unset /\ item' = [item EXCEPT ![i] = r] /\ remote' = remote /\ EventsLast
      /\ kind # Unset /\ 0 \notin DOMAIN remote'
  BY <1>1, <1>2, EventsAlone, AgendaAssumption DEF Create, Types, AgendaInv
<1>5. RowsLast  BY <1>3, <1>4 DEF RowsLast, AgendaInv, OfRow
<1>6. ASSUME NEW k \in Items PROVE ItemSound(k)'
  <2>1. ItemSound(k)  BY DEF AgendaInv
  <2> QED BY <1>3, <1>4, <2>1 DEF ItemSound, Held, AgendaInv
<1>7. ASSUME NEW h \in busy', h \notin busy PROVE HandlerSound(h)'
  <2>1. h = Syncing(i, 0, TRUE)  BY <1>1, <1>7 DEF Create
  <2>2. OfRow(i)' /\ Held(0, i)'  BY <1>3, <1>4 DEF OfRow, Held, AgendaInv
  <2> QED BY <1>4, <2>1, <2>2, CallsAreSound
<1>8. HoldBacked' /\ DOMAIN hold' = Contacts
  <2>1. CASE createAppointment(i, c, tm)
    <3>1. kind = "appointment" /\ status = "SET" /\ hold' = [hold EXCEPT ![c] = "APPOINTMENT_HOLD"]
      <4>1. item'[i].kind = "appointment" /\ item'[i].status = "SET"
        BY <2>1 DEF createAppointment, Create, NoItem, AgendaInv
      <4>2. item'[i].kind = kind /\ item'[i].status = status  BY <1>3, <1>4 DEF AgendaInv
      <4> QED BY <2>1, <4>1, <4>2 DEF createAppointment
    <3> QED BY <1>3, <1>4, <3>1 DEF AgendaInv, HoldBacked
  <2>2. CASE hold' = hold \/ hold' = [hold EXCEPT ![c] = "CALLBACK_HOLD"]
    <3>1. \A d \in Contacts : hold'[d] = "APPOINTMENT_HOLD" => hold[d] = "APPOINTMENT_HOLD"
      BY <2>2 DEF AgendaInv
    <3> QED BY <1>4, <2>2, <3>1 DEF AgendaInv, HoldBacked
  <2> QED BY <2>1, <2>2 DEF createCallback, createTask, createCalendarEvent
<1> QED BY <1>4, <1>5, <1>6, <1>7, <1>8, AgendaInvKept

LEMMA AskKeeps ==
    ASSUME AgendaInv, NEW i \in Items, NEW times, Ask(i, times) PROVE AgendaInv'
<1>1. PICK op, status, tm : /\ Asks(op, i, status, tm) /\ op \in Asking /\ There(i)
                            /\ op \in {"snooze", "complete"} => item[i].kind = "callback"
                            /\ op = "remove" => item[i].kind = "event"
  BY DEF Ask, Asking
<1>2. PICK h : h = Request(op, i, status, tm)  OBVIOUS
<1>3. /\ busy' = busy \cup {h} /\ UNCHANGED <<item, hold, remote>>
      /\ h.op = op /\ h.item = i /\ h.ext = item[i].ext
  BY <1>1, <1>2 DEF Asks, Request
<1>4. OfRow(i) /\ ItemSound(i)
  BY <1>1, AgendaAssumption DEF There, Types, OfRow, AgendaInv
<1>5. HandlerSound(h)'
  BY <1>1, <1>3, <1>4 DEF HandlerSound, AskedOf, OfRow, Held, ItemSound, Asking, Calling
<1> QED BY <1>3, <1>5, RowsAloneKeeps, EventsAlone

LEMMA RemoveKeeps ==
    ASSUME AgendaInv, NEW h \in busy, deleteCalendarEvent(h) PROVE AgendaInv'
<1>1. AskedOf(h) /\ h.op = "remove" /\ ItemSound(h.item)
  BY DEF deleteCalendarEvent, AgendaInv, HandlerSound, AskedOf, Asking, OfRow
<1>2. /\ h.item \in Items /\ item[h.item].kind \in {"event", "removed"}
      /\ item' = [item EXCEPT ![h.item].kind = "removed"]
      /\ hold' = hold /\ remote' = remote /\ EventsLast
  BY <1>1, EventsAlone DEF AskedOf, OfRow, deleteCalendarEvent
<1>3. RowsLast  BY <1>1, <1>2 DEF RowsLast, AgendaInv, ItemSound, NoItem
<1>4. ASSUME NEW k \in Items PROVE ItemSound(k)'
  <2>1. ItemSound(k)  BY DEF AgendaInv
  <2> QED BY <1>2, <2>1 DEF ItemSound, Held, AgendaInv, NoItem
<1>5. ASSUME NEW c \in busy', c \notin busy PROVE HandlerSound(c)'
  <2>1. PICK i, ext : i = h.item /\ ext = h.ext  OBVIOUS
  <2>2. c = Deleting(i, ext)  BY <1>5, <2>1 DEF deleteCalendarEvent
  <2>3. OfRow(i)' /\ Held(ext, i)' /\ 0 \notin DOMAIN remote'
    BY <1>1, <1>2, <2>1, AgendaAssumption DEF AskedOf, OfRow, Held, AgendaInv, ItemSound, NoItem
  <2> QED BY <2>2, <2>3, CallsAreSound
<1>6. HoldBacked'
  BY <1>2 DEF HoldBacked, AgendaInv
<1> QED BY <1>2, <1>3, <1>4, <1>5, <1>6, AgendaInvKept DEF AgendaInv
-----------------------------------------------------------------------------
(* The providers. *)

\* Another event is made for the row of a call to p.
LEMMA EventMade ==
    ASSUME AgendaInv, NEW p \in Providers, NEW i \in Items, NEW id, id = Len(remote'),
           remote' = Append(remote, [of |-> i, via |-> p, live |-> TRUE])
    PROVE  EventsLast /\ Held(id, i)' /\ remote'[id].via = p
<1>1. PICK e : e = [of |-> i, via |-> p, live |-> TRUE]  OBVIOUS
<1>2. e \in Remote /\ e.of = i /\ e.via = p  BY <1>1 DEF Remote
<1>3. remote \in Seq(Remote) /\ remote' = Append(remote, e)  BY <1>1 DEF AgendaInv
<1>4. remote' \in Seq(Remote) /\ id = Len(remote) + 1 /\ id \in 1..Len(remote') /\ remote'[id] = e
  BY <1>2, <1>3
<1>5. \A k \in DOMAIN remote : k \in DOMAIN remote' /\ remote'[k] = remote[k]
  BY <1>2, <1>3
<1>6. id \in DOMAIN remote' /\ remote'[id].of = i /\ remote'[id].via = p  BY <1>2, <1>4
<1>7. EventsLast  BY <1>4, <1>5 DEF EventsLast
<1> QED BY <1>6, <1>7 DEF Held

\* An event that is over, by the row's agent or in the provider's calendar.
LEMMA EventOver ==
    ASSUME AgendaInv, NEW k \in DOMAIN remote, remote' = [remote EXCEPT ![k].live = FALSE]
    PROVE  EventsLast
<1>1. remote \in Seq(Remote)  BY DEF AgendaInv
<1>2. PICK e : e = [remote[k] EXCEPT !.live = FALSE]  OBVIOUS
<1>3. remote[k] \in Remote  BY <1>1
<1>4. e \in Remote /\ e.of = remote[k].of /\ e.via = remote[k].via  BY <1>2, <1>3 DEF Remote
<1>5. remote' = [remote EXCEPT ![k] = e]  BY <1>2
<1>6. remote' \in Seq(Remote)
  <2>1. k \in 1..Len(remote)  BY <1>1
  <2>2. [remote EXCEPT ![k] = e] \in Seq(Remote)  BY <1>1, <1>4, <2>1, ExceptSeq, Zenon
  <2> QED BY <1>5, <2>2
<1>7. \A m \in DOMAIN remote : /\ m \in DOMAIN remote' /\ remote'[m].of = remote[m].of
                               /\ remote'[m].via = remote[m].via
  BY <1>4, <1>5
<1> QED BY <1>6, <1>7 DEF EventsLast

\* What a provider has answered is of the row that it was asked for.
LEMMA AnswerKeeps ==
    ASSUME AgendaInv, NEW h \in busy, h.op = "syncing", NEW p \in Providers, NEW id,
           UNCHANGED <<item, hold>>, EventsLast, Answered(h, p, id),
           Held(id, h.item)', id # 0 => remote'[id].via = p
    PROVE  AgendaInv'
<1>1. PICK g : g = [h EXCEPT !.left = @ \ {p}, !.got[p] = id]  OBVIOUS
<1>2. busy' = (busy \ {h}) \cup {g}  BY <1>1 DEF Answered
<1>3. CallIsSound(h) /\ RowsLast
  BY DEF AgendaInv, HandlerSound, Calling, RowsLast
<1>4. /\ DOMAIN g = DOMAIN Syncing(g.item, g.ext, TRUE) /\ DOMAIN g.got = Providers
      /\ g.op = "syncing" /\ g.item = h.item /\ g.ext = h.ext
      /\ g.got[p] = id /\ \A q \in Providers \ {p} : g.got[q] = h.got[q]
  BY <1>1, <1>3 DEF CallIsSound, Syncing
<1>5. CallIsSound(h)'
  <2>1. HandlerSound(h)'  BY <1>3, HandlerStays
  <2> QED BY <2>1 DEF HandlerSound, Calling
<1>6. HandlerSound(g)'
  <2>1. CallIsSound(g)'  BY <1>4, <1>5 DEF CallIsSound
  <2> QED BY <1>4, <2>1 DEF HandlerSound, Asking
<1> QED BY <1>2, <1>6, RowsAloneKeeps

LEMMA SyncingKeeps ==
    ASSUME AgendaInv, NEW h \in busy, NEW p \in Providers, SyncsWith(p, h) PROVE AgendaInv'
<1>1. /\ CallIsSound(h) /\ h.op = "syncing" /\ UNCHANGED <<item, hold>> /\ h.item \in Items
  BY DEF SyncsWith, AgendaInv, HandlerSound, Calling, CallIsSound, OfRow
<1>2. CASE Live(h.ext, p) /\ Answered(h, p, h.ext) /\ UNCHANGED remote
  <2>1. PICK ext, i : ext = h.ext /\ i = h.item  OBVIOUS
  <2>2. Held(ext, i)' /\ remote'[ext].via = p
    BY <1>1, <1>2, <2>1 DEF CallIsSound, Held, Live
  <2> QED BY <1>1, <1>2, <2>1, <2>2, EventsAlone, AnswerKeeps
<1>3. CASE /\ remote' = Append(remote, [of |-> h.item, via |-> p, live |-> TRUE])
           /\ Answered(h, p, Len(remote'))
  <2>1. PICK id, i : id = Len(remote') /\ i = h.item  OBVIOUS
  <2>2. EventsLast /\ Held(id, i)' /\ remote'[id].via = p  BY <1>1, <1>3, <2>1, EventMade
  <2> QED BY <1>1, <1>3, <2>1, <2>2, AnswerKeeps
<1>4. CASE Answered(h, p, 0) /\ UNCHANGED remote
  <2>1. Held(0, h.item)'  BY DEF Held
  <2> QED BY <1>1, <1>4, <2>1, EventsAlone, AnswerKeeps
<1> QED BY <1>2, <1>3, <1>4 DEF SyncsWith

LEMMA DeletingKeeps ==
    ASSUME AgendaInv, NEW h \in busy, NEW p \in Providers, DeletesWith(p, h) PROVE AgendaInv'
<1>1. CallIsSound(h) /\ h.op = "deleting" /\ UNCHANGED <<item, hold>>
  BY DEF DeletesWith, AgendaInv, HandlerSound, Calling
<1>2. EventsLast  BY EventsAlone, EventOver DEF DeletesWith, Live
<1>3. PICK g : g = [h EXCEPT !.left = @ \ {p}]  OBVIOUS
<1>4. \A c \in busy' : c \in busy \/ c = g  BY <1>3 DEF DeletesWith
<1>5. /\ DOMAIN g = DOMAIN Syncing(g.item, g.ext, TRUE) /\ g.op = "deleting"
      /\ g.item = h.item /\ g.ext = h.ext /\ g.got = h.got
  BY <1>1, <1>3 DEF CallIsSound, Syncing
<1>6. HandlerSound(g)'
  <2>1. RowsLast  BY <1>1 DEF AgendaInv, RowsLast
  <2>2. HandlerSound(h)'  BY <1>2, <2>1, HandlerStays
  <2>3. CallIsSound(h)'  BY <1>1, <2>2 DEF HandlerSound, Calling
  <2>4. CallIsSound(g)'  BY <1>5, <2>3 DEF CallIsSound
  <2> QED BY <1>5, <2>4 DEF HandlerSound, Asking
<1> QED BY <1>1, <1>2, <1>4, <1>6, RowsAloneKeeps

\* Nothing but the fields of rows that exist changes, each of these stays sound, and no
\* appointment is touched.
LEMMA FieldsKeep ==
    ASSUME AgendaInv, UNCHANGED <<hold, remote>>, DOMAIN item' = Items,
           \A i \in Items : /\ item'[i].kind = item[i].kind /\ item'[i].of = item[i].of
                            /\ item[i].told => item'[i].told
                            /\ item'[i].status # item[i].status => item[i].kind # "appointment"
                            /\ ItemSound(i)',
           \A h \in busy' : h \in busy \/ HandlerSound(h)'
    PROVE  AgendaInv'
<1>1. RowsLast /\ EventsLast  BY EventsAlone DEF RowsLast
<1>2. HoldBacked' /\ DOMAIN hold' = Contacts  BY DEF AgendaInv, HoldBacked
<1> QED BY <1>1, <1>2, AgendaInvKept

LEMMA SettlingKeeps ==
    ASSUME AgendaInv, NEW h \in busy, SyncSettles(h) PROVE AgendaInv'
<1>1. /\ CallIsSound(h) /\ UNCHANGED <<hold, remote>> /\ busy' \subseteq busy
  BY DEF SyncSettles, AgendaInv, HandlerSound, Calling
<1>2. CASE item' = item
  BY <1>1, <1>2, EventsAlone, RowsAloneKeeps
<1>3. CASE item' # item
  <2>1. PICK m : m = Remembered(h)  OBVIOUS
  <2>2. m.ext # 0 /\ item' = [item EXCEPT ![h.item].ext = m.ext, ![h.item].via = m.via]
    BY <1>3, <2>1 DEF SyncSettles
  <2>3. Held(m.ext, h.item) /\ remote[m.ext].via = m.via
    BY <1>1, <2>1, <2>2 DEF Remembered, CallIsSound, Providers
  <2>4. PICK r : r = [item[h.item] EXCEPT !.ext = m.ext, !.via = m.via]  OBVIOUS
  <2>5. item' = [item EXCEPT ![h.item] = r] /\ h.item \in Items /\ ItemSound(h.item)
    BY <1>1, <2>2, <2>4 DEF AgendaInv, CallIsSound, OfRow
  <2>6. /\ DOMAIN r = DOMAIN NoItem /\ r.ext = m.ext /\ r.via = m.via
        /\ \A f \in {"kind", "of", "status", "reminded", "told"} : r[f] = item[h.item][f]
    BY <2>4, <2>5 DEF ItemSound, NoItem
  <2>7. ASSUME NEW i \in Items
        PROVE  /\ item'[i].kind = item[i].kind /\ item'[i].of = item[i].of
               /\ item[i].told => item'[i].told
               /\ item'[i].status # item[i].status => item[i].kind # "appointment"
               /\ ItemSound(i)'
    <3>1. ItemSound(i)  BY DEF AgendaInv
    <3>2. CASE i = h.item
      BY <1>1, <2>3, <2>5, <2>6, <3>2 DEF ItemSound, Held, AgendaInv
    <3>3. CASE i # h.item
      BY <1>1, <2>5, <3>1, <3>3 DEF ItemSound, Held, AgendaInv
    <3> QED BY <3>2, <3>3
  <2> QED BY <1>1, <2>5, <2>7, FieldsKeep DEF AgendaInv
<1> QED BY <1>2, <1>3

LEMMA MirrorsKeep == AgendaInv /\ Mirrors => AgendaInv'
<1> SUFFICES ASSUME AgendaInv, Mirrors PROVE AgendaInv'  OBVIOUS
<1>1. ASSUME NEW h \in busy, \/ GoogleSyncs(h) \/ OutlookSyncs(h)
                             \/ GoogleDeletes(h) \/ OutlookDeletes(h)
      PROVE  AgendaInv'
  BY <1>1, SyncingKeeps, DeletingKeeps
     DEF GoogleSyncs, OutlookSyncs, GoogleDeletes, OutlookDeletes, Providers
<1>2. ASSUME NEW p \in Providers, Connects(p) \/ Disconnects(p) PROVE AgendaInv'
  BY <1>2, EventsAlone, RowsAloneKeeps DEF Connects, Disconnects
<1>3. ASSUME NEW k \in DOMAIN remote, DeletedThere(k) PROVE AgendaInv'
  BY <1>3, EventOver, RowsAloneKeeps DEF DeletedThere
<1> QED BY <1>1, <1>2, <1>3, SettlingKeeps DEF Mirrors

-----------------------------------------------------------------------------
(* The jobs. *)

\* A job reads rows that were made, a callback for one that is due.
LEMMA TicksAreSound ==
    ASSUME NEW op \in {"remind", "tasks", "due", "window"}, NEW S, NEW t,
           \A i \in S : OfRow(i) /\ (op = "due" => item[i].kind = "callback")
    PROVE  HandlerSound(Tick(op, S, t))
BY DEF HandlerSound, TickIsSound, Tick, Calling, Asking

\* The rows of one handler that are still to be gone through.
LEMMA LessIsSound ==
    ASSUME NEW h, NEW i, HandlerSound(h), h.op \in {"remind", "tasks"}
    PROVE  HandlerSound([h EXCEPT !.items = @ \ {i}])
<1>1. PICK g : g = [h EXCEPT !.items = @ \ {i}]  OBVIOUS
<1>2. TickIsSound(h)  BY DEF HandlerSound
<1>3. /\ DOMAIN g = DOMAIN Tick(g.op, g.items, g.time) /\ g.op = h.op
      /\ g.items = h.items \ {i}
  BY <1>1, <1>2 DEF TickIsSound, Tick
<1>4. TickIsSound(g)  BY <1>2, <1>3 DEF TickIsSound
<1>5. HandlerSound(g)  BY <1>3, <1>4 DEF HandlerSound, Calling, Asking
<1> QED BY <1>1, <1>5

\* The steps of the jobs that read, or that end.
LEMMA ReadingTicksKeep ==
    ASSUME AgendaInv, UNCHANGED <<item, hold, remote>>,
           \/ ReminderTick \/ UNCHANGED busy
           \/ \E h \in busy : TasksRead(h) \/ TickEnds(h) \/ WindowRead(h)
    PROVE  AgendaInv'
<1>1. EventsLast /\ RowsLast  BY EventsAlone DEF AgendaInv, RowsLast
<1>2. ASSUME NEW c \in busy', c \notin busy PROVE HandlerSound(c)
  <2>1. PICK op, S, t : /\ c = Tick(op, S, t) /\ op \in {"remind", "tasks", "due", "window"}
                        /\ \A i \in S : /\ i \in Items /\ item[i].kind \in {"event", "task", "callback"}
                                        /\ op = "due" => item[i].kind = "callback"
    <3>1. CASE ReminderTick
      BY <1>2, <3>1 DEF ReminderTick, Upcoming
    <3>2. ASSUME NEW h \in busy, TasksRead(h) \/ TickEnds(h) \/ WindowRead(h)
          PROVE  \E op, S, t : /\ c = Tick(op, S, t) /\ op \in {"remind", "tasks", "due", "window"}
                               /\ \A i \in S : /\ i \in Items
                                               /\ item[i].kind \in {"event", "task", "callback"}
                                               /\ op = "due" => item[i].kind = "callback"
      <4>1. CASE TasksRead(h)  BY <1>2, <4>1 DEF TasksRead, DueTasks
      <4>2. CASE TickEnds(h)  BY <1>2, <4>2 DEF TickEnds
      <4>3. CASE WindowRead(h)  BY <1>2, <4>3 DEF WindowRead, Pending
      <4> QED BY <3>2, <4>1, <4>2, <4>3
    <3> QED BY <1>2, <3>1, <3>2
  <2>2. \A i \in S : OfRow(i)  BY <2>1, AgendaAssumption DEF OfRow
  <2> QED BY <2>1, <2>2, TicksAreSound
<1>3. \A c \in busy' : c \in busy \/ HandlerSound(c)'
  BY <1>2 DEF HandlerSound, CallIsSound, AskedOf, TickIsSound, OfRow, Held
<1> QED BY <1>1, <1>3, RowsAloneKeeps

\* An agent is told of a row, or it fails.
LEMMA RemindingKeeps ==
    ASSUME AgendaInv, NEW h \in busy, NEW i \in Items, Reminds(h, i) PROVE AgendaInv'
<1>1. /\ h.op \in {"remind", "tasks"} /\ i \in h.items /\ UNCHANGED <<hold, remote>>
      /\ HandlerSound(h) /\ OfRow(i) /\ ItemSound(i)
  BY DEF Reminds, AgendaInv, HandlerSound, TickIsSound
<1>2. PICK g : g = [h EXCEPT !.items = @ \ {i}]  OBVIOUS
<1>3. CASE item' = item /\ busy' = (busy \ {h}) \cup {g}
  <2>1. HandlerSound(g)  BY <1>1, <1>2, LessIsSound
  <2>2. HandlerSound(g)'
    BY <1>1, <1>3, <2>1 DEF HandlerSound, CallIsSound, AskedOf, TickIsSound, OfRow, Held
  <2> QED BY <1>1, <1>3, <2>2, EventsAlone, RowsAloneKeeps
<1>4. CASE /\ item' = [item EXCEPT ![i].told = (@ \/ i \notin Quiet \/ item[i].kind = "task")]
           /\ busy' = (busy \ {h}) \cup {g, [op |-> "mark", item |-> i, time |-> h.time]}
  <2>1. PICK r : r = [item[i] EXCEPT !.told = (@ \/ i \notin Quiet \/ item[i].kind = "task")]
    OBVIOUS
  <2>2. /\ DOMAIN r = DOMAIN NoItem
        /\ \A f \in {"kind", "of", "status", "ext", "via", "reminded"} : r[f] = item[i][f]
        /\ item[i].told => r.told
        /\ r.told \/ i \in Quiet
    BY <1>1, <2>1 DEF ItemSound, NoItem
  <2>3. item' = [item EXCEPT ![i] = r]  BY <1>4, <2>1
  <2>4. ASSUME NEW k \in Items
        PROVE  /\ item'[k].kind = item[k].kind /\ item'[k].of = item[k].of
               /\ item[k].told => item'[k].told
               /\ item'[k].status # item[k].status => item[k].kind # "appointment"
               /\ ItemSound(k)'
    <3>1. ItemSound(k)  BY DEF AgendaInv
    <3> QED BY <1>1, <2>2, <2>3, <3>1 DEF ItemSound, Held, AgendaInv
  <2>5. RowsLast /\ EventsLast /\ DOMAIN item' = Items
    BY <1>1, <2>3, <2>4, EventsAlone DEF AgendaInv, RowsLast
  <2>6. HandlerSound(g)'
    <3>1. HandlerSound(h)'  BY <2>5, HandlerStays
    <3>2. TickIsSound(h)'  BY <1>1, <3>1 DEF HandlerSound
    <3>3. /\ DOMAIN g = DOMAIN Tick(g.op, g.items, g.time) /\ g.op = h.op
          /\ g.items = h.items \ {i}
      BY <1>2, <3>2 DEF TickIsSound, Tick
    <3>4. TickIsSound(g)'  BY <3>2, <3>3 DEF TickIsSound
    <3> QED BY <1>1, <3>3, <3>4 DEF HandlerSound, Calling, Asking
  <2>7. ASSUME NEW m, m = [op |-> "mark", item |-> i, time |-> h.time] PROVE HandlerSound(m)'
    <3>1. m.op = "mark" /\ m.item = i  BY <2>7
    <3>2. OfRow(i)' /\ (item'[i].told \/ i \in Quiet)
      BY <1>1, <2>2, <2>3, <2>4 DEF OfRow, AgendaInv
    <3> QED BY <3>1, <3>2 DEF HandlerSound, Calling, Asking
  <2>8. \A c \in busy' : c \in busy \/ HandlerSound(c)'  BY <1>4, <2>6, <2>7
  <2> QED BY <1>1, <2>4, <2>5, <2>8, FieldsKeep
<1> QED BY <1>1, <1>2, <1>3, <1>4 DEF Reminds

LEMMA MarkingKeeps ==
    ASSUME AgendaInv, NEW h \in busy, Marks(h) PROVE AgendaInv'
<1>1. /\ h.item \in Items /\ (item[h.item].told \/ h.item \in Quiet) /\ ItemSound(h.item)
      /\ UNCHANGED <<hold, remote>> /\ busy' \subseteq busy
  BY DEF Marks, AgendaInv, HandlerSound, OfRow
<1>2. CASE item' = item  BY <1>1, <1>2, EventsAlone, RowsAloneKeeps
<1>3. CASE item' = [item EXCEPT ![h.item].reminded = TRUE]
  <2>1. PICK r : r = [item[h.item] EXCEPT !.reminded = TRUE]  OBVIOUS
  <2>2. /\ DOMAIN r = DOMAIN NoItem
        /\ \A f \in {"kind", "of", "status", "ext", "via", "told"} : r[f] = item[h.item][f]
    BY <1>1, <2>1 DEF ItemSound, NoItem
  <2>3. item' = [item EXCEPT ![h.item] = r]  BY <1>3, <2>1
  <2>4. ASSUME NEW k \in Items
        PROVE  /\ item'[k].kind = item[k].kind /\ item'[k].of = item[k].of
               /\ item[k].told => item'[k].told
               /\ item'[k].status # item[k].status => item[k].kind # "appointment"
               /\ ItemSound(k)'
    <3>1. ItemSound(k)  BY DEF AgendaInv
    <3> QED BY <1>1, <2>2, <2>3, <3>1 DEF ItemSound, Held, AgendaInv
  <2>5. DOMAIN item' = Items  BY <2>3 DEF AgendaInv
  <2> QED BY <1>1, <2>4, <2>5, FieldsKeep
<1> QED BY <1>2, <1>3 DEF Marks

LEMMA RemindersKeep == AgendaInv /\ Reminders => AgendaInv'
<1> SUFFICES ASSUME AgendaInv, Reminders PROVE AgendaInv'  OBVIOUS
<1>1. CASE ReminderTick \/ Minute
  BY <1>1, ReadingTicksKeep DEF ReminderTick, Minute
<1>2. ASSUME NEW h \in busy, TasksRead(h) \/ TickEnds(h) PROVE AgendaInv'
  BY <1>2, ReadingTicksKeep DEF TasksRead, TickEnds
<1> QED BY <1>1, <1>2, RemindingKeeps, MarkingKeeps DEF Reminders

\* The callback job writes the status of callbacks, and nothing else.
LEMMA DuesKeep == AgendaInv /\ Dues => AgendaInv'
<1> SUFFICES ASSUME AgendaInv, Dues PROVE AgendaInv'  OBVIOUS
<1>1. ASSUME NEW S \in SUBSET Items, NEW status, \A i \in S : item[i].kind = "callback",
             item' = [i \in Items |-> IF i \in S THEN [item[i] EXCEPT !.status = status]
                                      ELSE item[i]],
             UNCHANGED <<hold, remote>>,
             \A c \in busy' : c \in busy \/ HandlerSound(c)'
      PROVE  AgendaInv'
  <2>1. ASSUME NEW k \in Items
        PROVE  /\ item'[k].kind = item[k].kind /\ item'[k].of = item[k].of
               /\ item[k].told => item'[k].told
               /\ item'[k].status # item[k].status => item[k].kind # "appointment"
               /\ ItemSound(k)'
    <3>1. ItemSound(k)  BY DEF AgendaInv
    <3>2. CASE k \notin S
      <4>1. item'[k] = item[k]  BY <1>1, <3>2
      <4> QED BY <1>1, <3>1, <4>1 DEF ItemSound, Held
    <3>3. CASE k \in S
      <4>1. PICK r : r = [item[k] EXCEPT !.status = status]  OBVIOUS
      <4>2. /\ DOMAIN r = DOMAIN NoItem
            /\ \A f \in {"kind", "of", "ext", "via", "reminded", "told"} : r[f] = item[k][f]
        BY <3>1, <4>1 DEF ItemSound, NoItem
      <4>3. item'[k] = r  BY <1>1, <3>3, <4>1
      <4> QED BY <1>1, <3>1, <3>3, <4>2, <4>3 DEF ItemSound, Held
    <3> QED BY <3>2, <3>3
  <2>2. DOMAIN item' = Items  BY <1>1
  <2> QED BY <1>1, <2>1, <2>2, FieldsKeep
<1>2. CASE CallbackTick
  <2>1. PICK S : S = {i \in Items : Pending(i) /\ item[i].at < now - MissedAfter}  OBVIOUS
  <2>2. PICK c : c = Tick("window", {}, now)  OBVIOUS
  <2>3. HandlerSound(c)'
    BY <2>2 DEF HandlerSound, TickIsSound, Tick, Calling, Asking
  <2>4. \A g \in busy' : g \in busy \/ HandlerSound(g)'
    BY <1>2, <2>2, <2>3 DEF CallbackTick
  <2>5. item' = [i \in Items |-> IF i \in S THEN [item[i] EXCEPT !.status = "MISSED"] ELSE item[i]]
    BY <1>2, <2>1 DEF CallbackTick
  <2>6. UNCHANGED <<hold, remote>> /\ S \subseteq Items /\ \A i \in S : item[i].kind = "callback"
    BY <1>2, <2>1 DEF CallbackTick, Pending
  <2> QED BY <1>1, <2>4, <2>5, <2>6
<1>3. ASSUME NEW h \in busy, DueWritten(h) PROVE AgendaInv'
  <2>1. h.items \subseteq Items /\ \A i \in h.items : item[i].kind = "callback"
    BY <1>3 DEF DueWritten, AgendaInv, HandlerSound, TickIsSound, OfRow
  <2>2. \A c \in busy' : c \in busy \/ HandlerSound(c)'  BY <1>3 DEF DueWritten
  <2> QED BY <1>1, <1>3, <2>1, <2>2 DEF DueWritten
<1>4. ASSUME NEW h \in busy, WindowRead(h) \/ TickEnds(h) PROVE AgendaInv'
  BY <1>4, ReadingTicksKeep DEF WindowRead, TickEnds
<1>5. CASE Minute  BY <1>5, ReadingTicksKeep DEF Minute
<1> QED BY <1>2, <1>3, <1>4, <1>5 DEF Dues

LEMMA AgendaInvNext == AgendaInv /\ [AgendaNext]_agendaVars => AgendaInv'
<1>1. ASSUME AgendaInv, UNCHANGED agendaVars PROVE AgendaInv'
  BY <1>1, EventsAlone, RowsAloneKeeps DEF agendaVars
<1>2. ASSUME AgendaInv, Creates(Types, Items, Times) PROVE AgendaInv'
  BY <1>2, CreateKeeps DEF Creates
<1>3. ASSUME AgendaInv, Handles(Times) PROVE AgendaInv'
  BY <1>3, AskKeeps, WritesKeeps, RemoveKeeps DEF Handles
<1> QED BY <1>1, <1>2, <1>3, MirrorsKeep, RemindersKeep, DuesKeep DEF AgendaNext

\* A contact that waits for an appointment has one, the event that a row remembers
\* is its own and at the provider that it names, and nothing is marked as reminded
\* of that its agent was not told of; with any number of rows, requests, jobs and
\* calls to both providers under way (appointments, calendarSync/service.ts and
\* jobs/appointmentReminder.job.ts).
THEOREM AgendaStaysAgreed == AgendaSpec => []AgendaAgrees
  BY AgendaInvInit, AgendaInvNext, AgendaFits, PTL DEF AgendaSpec

\* Every screen is whole (CallScreens, Tracker): lists that are resumed, the
\* inbox, what the tracker adds up and its streaks.
THEOREM ScreensStayWhole == ScreensSpec /\ TrackerSpec => []ScreensWhole
<1>1. ResumesWhole  BY ListsAreWhole
<1>2. TrackerInv => TrackerWhole /\ StreaksWhole  BY TrackerSums, StreaksAreWhole DEF TrackerInv
<1>3. ScreensSpec => []InboxWhole  BY MessagesAreShown
<1>4. TrackerSpec => []TrackerInv  BY TrackerStays
<1>5. ResumesWhole /\ InboxWhole /\ TrackerWhole /\ StreaksWhole => ScreensWhole
  BY DEF ScreensWhole
<1> QED BY <1>1, <1>2, <1>3, <1>4, <1>5, PTL
=============================================================================
