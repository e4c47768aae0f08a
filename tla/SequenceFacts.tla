----------------------------- MODULE SequenceFacts -----------------------------
(***************************************************************************)
(* Facts about sequences used as queues: what appending an element, taking *)
(* the head or taking out any element does to their elements.              *)
(***************************************************************************)
EXTENDS Naturals, Sequences, SequencesExt, SequenceTheorems, TLAPS

(* The positions of a sequence from which one element has been taken out. *)
LEMMA RemoveAtProperties ==
  ASSUME NEW S, NEW s \in Seq(S), NEW k \in 1 .. Len(s)
  PROVE  /\ RemoveAt(s, k) \in Seq(S)
         /\ Len(RemoveAt(s, k)) = Len(s) - 1
         /\ \A i \in 1 .. Len(s) - 1 :
              RemoveAt(s, k)[i] = IF i < k THEN s[i] ELSE s[i + 1]
<1> DEFINE a == SubSeq(s, 1, k - 1)
           b == SubSeq(s, k + 1, Len(s))
<1>1. Len(s) \in Nat /\ \A i \in 1 .. Len(s) : s[i] \in S
  OBVIOUS
<1>2. /\ a \in Seq(S) /\ Len(a) = k - 1
      /\ \A i \in 1 .. k - 1 : a[i] = s[i]
  <2>1. \A i \in 1 .. k - 1 : s[i] \in S
    BY <1>1
  <2>2. /\ a \in Seq(S)
        /\ Len(a) = IF 1 <= k - 1 THEN k - 1 - 1 + 1 ELSE 0
        /\ \A i \in 1 .. k - 1 - 1 + 1 : a[i] = s[1 + i - 1]
    BY <1>1, <2>1, SubSeqProperties
  <2> QED
    BY <1>1, <2>2
<1>3. /\ b \in Seq(S) /\ Len(b) = Len(s) - k
      /\ \A i \in 1 .. Len(s) - k : b[i] = s[k + i]
  <2>1. \A i \in k + 1 .. Len(s) : s[i] \in S
    BY <1>1
  <2>2. /\ b \in Seq(S)
        /\ Len(b) = IF k + 1 <= Len(s) THEN Len(s) - (k + 1) + 1 ELSE 0
        /\ \A i \in 1 .. Len(s) - (k + 1) + 1 : b[i] = s[k + 1 + i - 1]
    BY <1>1, <2>1, SubSeqProperties
  <2> QED
    BY <1>1, <2>2
<1> HIDE DEF a, b
<1>4. /\ a \o b \in Seq(S)
      /\ Len(a \o b) = Len(a) + Len(b)
      /\ \A i \in 1 .. Len(a) + Len(b) :
           (a \o b)[i] = IF i <= Len(a) THEN a[i] ELSE b[i - Len(a)]
  BY <1>2, <1>3, ConcatProperties
<1>5. RemoveAt(s, k) = a \o b
  BY DEF RemoveAt, a, b
<1>6. ASSUME NEW i \in 1 .. Len(s) - 1
      PROVE  (a \o b)[i] = IF i < k THEN s[i] ELSE s[i + 1]
  <2>1. CASE i < k
    BY <2>1, <1>1, <1>2, <1>3, <1>4
  <2>2. CASE ~(i < k)
    <3>1. (a \o b)[i] = b[i - (k - 1)]
      BY <2>2, <1>1, <1>2, <1>3, <1>4
    <3>2. i - (k - 1) \in 1 .. Len(s) - k
      BY <2>2, <1>1
    <3>3. k + (i - (k - 1)) = i + 1
      BY <1>1
    <3> QED
      BY <2>2, <1>1, <1>3, <3>1, <3>2, <3>3
  <2> QED
    BY <2>1, <2>2
<1>7. /\ a \o b \in Seq(S)
      /\ Len(a \o b) = Len(s) - 1
  BY <1>1, <1>2, <1>3, <1>4
<1> QED
  BY <1>5, <1>6, <1>7

LEMMA ToSetIsRange ==
  ASSUME NEW S, NEW s \in Seq(S)
  PROVE  ToSet(s) = {s[i] : i \in 1 .. Len(s)}
BY LenProperties DEF ToSet

LEMMA RangeInSet ==
  ASSUME NEW S, NEW s \in Seq(S)
  PROVE  ToSet(s) \subseteq S
<1>1. \A i \in 1 .. Len(s) : s[i] \in S
  OBVIOUS
<1> QED
  BY <1>1, ToSetIsRange

(* Taking an element out adds none. *)
LEMMA RemoveAtRange ==
  ASSUME NEW S, NEW s \in Seq(S), NEW k \in 1 .. Len(s)
  PROVE  ToSet(RemoveAt(s, k)) \subseteq ToSet(s)
<1> DEFINE r == RemoveAt(s, k)
<1>1. /\ r \in Seq(S) /\ Len(r) = Len(s) - 1
      /\ \A i \in 1 .. Len(s) - 1 : r[i] = IF i < k THEN s[i] ELSE s[i + 1]
  BY RemoveAtProperties
<1>2. Len(s) \in Nat
  OBVIOUS
<1> HIDE DEF r
<1>3. \A i \in 1 .. Len(s) - 1 : r[i] \in {s[j] : j \in 1 .. Len(s)}
  BY <1>1, <1>2
<1>4. ToSet(r) = {r[i] : i \in 1 .. Len(s) - 1}
  BY <1>1, ToSetIsRange
<1>5. ToSet(s) = {s[j] : j \in 1 .. Len(s)}
  BY ToSetIsRange
<1>6. ToSet(r) \subseteq ToSet(s)
  BY <1>3, <1>4, <1>5
<1> QED
  BY <1>6 DEF r

LEMMA TailRange ==
  ASSUME NEW S, NEW s \in Seq(S), s # << >>
  PROVE  /\ ToSet(Tail(s)) \subseteq ToSet(s)
         /\ Head(s) \in ToSet(s)
<1>1. /\ Tail(s) \in Seq(S) /\ Len(Tail(s)) = Len(s) - 1
      /\ \A i \in 1 .. Len(Tail(s)) : Tail(s)[i] = s[i + 1]
  BY HeadTailProperties
<1>2. Head(s) = s[1] /\ Len(s) \in Nat \ {0}
  BY EmptySeq
<1> DEFINE t == Tail(s)
<1> HIDE DEF t
<1>3. {t[i] : i \in 1 .. Len(t)} \subseteq {s[i] : i \in 1 .. Len(s)}
  BY <1>1, <1>2 DEF t
<1>4. s[1] \in {s[i] : i \in 1 .. Len(s)}
  BY <1>2
<1>5. t \in Seq(S)
  BY <1>1 DEF t
<1>6. ToSet(t) = {t[i] : i \in 1 .. Len(t)}
  BY <1>5, ToSetIsRange
<1>7. ToSet(s) = {s[i] : i \in 1 .. Len(s)}
  BY ToSetIsRange
<1>8. ToSet(t) \subseteq ToSet(s)
  BY <1>3, <1>6, <1>7
<1>9. Head(s) \in ToSet(s)
  BY <1>2, <1>4, <1>7
<1> QED
  BY <1>8, <1>9 DEF t

LEMMA AppendRange ==
  ASSUME NEW S, NEW s \in Seq(S), NEW e \in S
  PROVE  ToSet(Append(s, e)) = ToSet(s) \cup {e}
<1> DEFINE t == Append(s, e)
<1>1. /\ t \in Seq(S) /\ Len(t) = Len(s) + 1
      /\ \A i \in 1 .. Len(s) : t[i] = s[i]
      /\ t[Len(s) + 1] = e
  BY AppendProperties
<1>2. Len(s) \in Nat
  OBVIOUS
<1> HIDE DEF t
<1>3. {t[i] : i \in 1 .. Len(t)} = {s[i] : i \in 1 .. Len(s)} \cup {e}
  BY <1>1, <1>2
<1>4. ToSet(t) = {t[i] : i \in 1 .. Len(t)}
  BY <1>1, ToSetIsRange
<1>5. ToSet(s) = {s[i] : i \in 1 .. Len(s)}
  BY ToSetIsRange
<1>6. ToSet(t) = ToSet(s) \cup {e}
  BY <1>3, <1>4, <1>5
<1> QED
  BY <1>6 DEF t

(* No element occurs twice. *)
Distinct(s) == \A i, k \in 1 .. Len(s) : s[i] = s[k] => i = k

LEMMA EmptyDistinct == Distinct(<< >>)
BY EmptySeq DEF Distinct

LEMMA AppendDistinct ==
  ASSUME NEW S, NEW s \in Seq(S), NEW e \in S, Distinct(s), e \notin ToSet(s)
  PROVE  Distinct(Append(s, e))
<1> DEFINE t == Append(s, e)
<1>1. /\ Len(t) = Len(s) + 1
      /\ \A i \in 1 .. Len(s) : t[i] = s[i]
      /\ t[Len(s) + 1] = e
  BY AppendProperties
<1>2. Len(s) \in Nat /\ \A i \in 1 .. Len(s) : s[i] # e
  BY ToSetIsRange
<1> HIDE DEF t
<1> QED
  BY <1>1, <1>2 DEF Distinct, t

LEMMA TailDistinct ==
  ASSUME NEW S, NEW s \in Seq(S), s # << >>, Distinct(s)
  PROVE  /\ Distinct(Tail(s))
         /\ Head(s) \notin ToSet(Tail(s))
<1> DEFINE t == Tail(s)
<1>1. /\ t \in Seq(S) /\ Len(t) = Len(s) - 1
      /\ \A i \in 1 .. Len(t) : t[i] = s[i + 1]
  BY HeadTailProperties
<1>2. Head(s) = s[1] /\ Len(s) \in Nat \ {0}
  BY EmptySeq
<1>3. ToSet(t) = {t[i] : i \in 1 .. Len(t)}
  BY <1>1, ToSetIsRange
<1> HIDE DEF t
<1>4. Distinct(t)
  BY <1>1, <1>2 DEF Distinct
<1>5. s[1] \notin ToSet(t)
  BY <1>1, <1>2, <1>3 DEF Distinct
<1> QED
  BY <1>2, <1>4, <1>5 DEF t

LEMMA RemoveAtDistinct ==
  ASSUME NEW S, NEW s \in Seq(S), NEW k \in 1 .. Len(s), Distinct(s)
  PROVE  Distinct(RemoveAt(s, k))
<1> DEFINE r == RemoveAt(s, k)
<1>1. /\ r \in Seq(S) /\ Len(r) = Len(s) - 1
      /\ \A i \in 1 .. Len(s) - 1 : r[i] = IF i < k THEN s[i] ELSE s[i + 1]
  BY RemoveAtProperties
<1>2. Len(s) \in Nat
  OBVIOUS
<1> HIDE DEF r
<1> QED
  BY <1>1, <1>2 DEF Distinct, r

(* What is taken out of such a sequence is gone from it. *)
LEMMA RemovedIsGone ==
  ASSUME NEW S, NEW s \in Seq(S), NEW k \in 1 .. Len(s), Distinct(s)
  PROVE  s[k] \notin ToSet(RemoveAt(s, k))
<1> DEFINE r == RemoveAt(s, k)
<1>1. /\ r \in Seq(S) /\ Len(r) = Len(s) - 1
      /\ \A i \in 1 .. Len(s) - 1 : r[i] = IF i < k THEN s[i] ELSE s[i + 1]
  BY RemoveAtProperties
<1>2. Len(s) \in Nat
  OBVIOUS
<1> HIDE DEF r
<1>3. \A i \in 1 .. Len(r) : r[i] # s[k]
  BY <1>1, <1>2 DEF Distinct
<1> QED
  BY <1>1, <1>3, ToSetIsRange DEF r

(* The elements of a short sequence, and of one split at its head. *)
LEMMA ShortRange ==
  /\ ToSet(<< >>) = {}
  /\ \A a : ToSet(<<a>>) = {a}
  /\ \A a, b : ToSet(<<a, b>>) = {a, b}
<1>1. ToSet(<< >>) = {}
  BY EmptySeq DEF ToSet
<1>2. ASSUME NEW a PROVE ToSet(<<a>>) = {a}
  BY DEF ToSet
<1>3. ASSUME NEW a, NEW b PROVE ToSet(<<a, b>>) = {a, b}
  <2>1. DOMAIN <<a, b>> = {1, 2}
    OBVIOUS
  <2> QED
    BY <2>1 DEF ToSet
<1> QED
  BY <1>1, <1>2, <1>3

LEMMA HeadTailRange ==
  ASSUME NEW S, NEW s \in Seq(S), s # << >>
  PROVE  /\ Head(s) \in S /\ Tail(s) \in Seq(S)
         /\ ToSet(s) = {Head(s)} \cup ToSet(Tail(s))
<1> DEFINE t == Tail(s)
<1>1. /\ t \in Seq(S) /\ Len(t) = Len(s) - 1
      /\ \A i \in 1 .. Len(t) : t[i] = s[i + 1]
  BY HeadTailProperties
<1>2. Head(s) = s[1] /\ Len(s) \in Nat \ {0} /\ s[1] \in S
  BY EmptySeq
<1> HIDE DEF t
<1>3. {s[i] : i \in 1 .. Len(s)} = {s[1]} \cup {t[i] : i \in 1 .. Len(t)}
  <2>1. ASSUME NEW i \in 1 .. Len(s) PROVE s[i] = s[1] \/ \E k \in 1 .. Len(t) : s[i] = t[k]
    <3>1. CASE i = 1
      BY <3>1
    <3>2. CASE i # 1
      <4>1. i - 1 \in 1 .. Len(t) /\ t[i - 1] = s[i]
        BY <1>1, <1>2, <3>2
      <4> QED
        BY <4>1
    <3> QED
      BY <3>1, <3>2
  <2>2. ASSUME NEW k \in 1 .. Len(t) PROVE \E i \in 1 .. Len(s) : t[k] = s[i]
    <3>1. k + 1 \in 1 .. Len(s) /\ t[k] = s[k + 1]
      BY <1>1, <1>2
    <3> QED
      BY <3>1
  <2> QED
    BY <1>2, <2>1, <2>2
<1> QED
  BY <1>1, <1>2, <1>3, ToSetIsRange DEF t
================================================================================
