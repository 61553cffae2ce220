------------------------------ MODULE Suffixes ------------------------------
(***************************************************************************)
(* Lemmas about one sequence being the end of another, for proofs.  AtEnd  *)
(* says of the elements what IsSuffix says of reversed sequences.          *)
(***************************************************************************)
EXTENDS Integers, SequencesExt, TLAPS

AtEnd(s, k) ==
    /\ Len(s) <= Len(k)
    /\ \A i \in 1..Len(s) : s[i] = k[Len(k) - Len(s) + i]

LEMMA AtEndIsSuffix ==
    ASSUME NEW S, NEW s \in Seq(S), NEW k \in Seq(S), AtEnd(s, k)
    PROVE  IsSuffix(s, k)
<1>1. /\ Reverse(s) \in Seq(S) /\ Len(Reverse(s)) = Len(s)
      /\ \A i \in 1..Len(s) : Reverse(s)[i] = s[Len(s) - i + 1]
    BY DEF Reverse
<1>2. /\ Reverse(k) \in Seq(S) /\ Len(Reverse(k)) = Len(k)
      /\ \A i \in 1..Len(k) : Reverse(k)[i] = k[Len(k) - i + 1]
    BY DEF Reverse
<1>3. \A i \in 1..Len(s) : Reverse(s)[i] = Reverse(k)[i]
    <2> SUFFICES ASSUME NEW i \in 1..Len(s)
                 PROVE  Reverse(s)[i] = Reverse(k)[i]
        OBVIOUS
    <2> DEFINE j == Len(s) - i + 1
    <2>1. j \in 1..Len(s) /\ Len(k) - Len(s) + j = Len(k) - i + 1 /\ i \in 1..Len(k)
        BY DEF AtEnd
    <2>2. s[j] = k[Len(k) - Len(s) + j]
        BY <2>1 DEF AtEnd
    <2> QED
        BY <1>1, <1>2, <2>1, <2>2
<1>4. SubSeq(Reverse(s), 1, Len(Reverse(s))) = SubSeq(Reverse(k), 1, Len(Reverse(s)))
    BY <1>1, <1>2, <1>3 DEF AtEnd
<1> QED
    BY <1>1, <1>2, <1>4 DEF IsSuffix, IsPrefix, AtEnd

LEMMA AtEndAppend ==
    ASSUME NEW S, NEW s \in Seq(S), NEW k \in Seq(S), NEW w \in S,
           AtEnd(s, k)
    PROVE  AtEnd(Append(s, w), Append(k, w))
<1> DEFINE s1 == Append(s, w)
           k1 == Append(k, w)
<1>1. /\ Len(s1) = Len(s) + 1 /\ s1[Len(s) + 1] = w
      /\ \A i \in 1..Len(s) : s1[i] = s[i]
    OBVIOUS
<1>2. /\ Len(k1) = Len(k) + 1 /\ k1[Len(k) + 1] = w
      /\ \A i \in 1..Len(k) : k1[i] = k[i]
    OBVIOUS
<1>3. Len(s) \in Nat /\ Len(k) \in Nat /\ Len(s) <= Len(k)
    BY DEF AtEnd
<1> HIDE DEF s1, k1
<1>4. ASSUME NEW i \in 1..Len(s1)
      PROVE  s1[i] = k1[Len(k1) - Len(s1) + i]
    <2>1. CASE i = Len(s) + 1
        BY <1>1, <1>2, <1>3, <2>1
    <2>2. CASE i \in 1..Len(s)
        <3>1. Len(k) - Len(s) + i \in 1..Len(k)
              /\ Len(k1) - Len(s1) + i = Len(k) - Len(s) + i
            BY <1>1, <1>2, <1>3, <2>2
        <3>2. s[i] = k[Len(k) - Len(s) + i]
            BY <2>2 DEF AtEnd
        <3> QED
            BY <1>1, <1>2, <2>2, <3>1, <3>2
    <2> QED
        BY <1>1, <1>3, <2>1, <2>2
<1>5. Len(s1) <= Len(k1)
    BY <1>1, <1>2, <1>3
<1>6. AtEnd(s1, k1)
    BY <1>4, <1>5 DEF AtEnd
<1> QED
    BY <1>6 DEF s1, k1

LEMMA FrontElements ==
    ASSUME NEW S, NEW s \in Seq(S), NEW n \in 0..Len(s)
    PROVE  Len(SubSeq(s, 1, n)) = n /\ \A i \in 1..n : SubSeq(s, 1, n)[i] = s[i]
    OBVIOUS

LEMMA AtEndFront ==
    ASSUME NEW S, NEW s \in Seq(S), NEW k \in Seq(S), s # <<>>, AtEnd(s, k)
    PROVE  AtEnd(SubSeq(s, 1, Len(s) - 1), SubSeq(k, 1, Len(k) - 1))
<1> DEFINE s1 == SubSeq(s, 1, Len(s) - 1)
           k1 == SubSeq(k, 1, Len(k) - 1)
<1>1. Len(s) \in Nat /\ Len(k) \in Nat /\ Len(s) >= 1 /\ Len(s) <= Len(k)
    BY DEF AtEnd
<1>2. Len(s1) = Len(s) - 1 /\ \A i \in 1..(Len(s) - 1) : s1[i] = s[i]
    <2>1. Len(s) - 1 \in 0..Len(s)
        BY <1>1
    <2> QED
        BY <2>1, FrontElements
<1>3. Len(k1) = Len(k) - 1 /\ \A i \in 1..(Len(k) - 1) : k1[i] = k[i]
    <2>1. Len(k) - 1 \in 0..Len(k)
        BY <1>1
    <2> QED
        BY <2>1, FrontElements
<1> HIDE DEF s1, k1
<1>4. ASSUME NEW i \in 1..Len(s1)
      PROVE  s1[i] = k1[Len(k1) - Len(s1) + i]
    <2>1. Len(k) - Len(s) + i \in 1..(Len(k) - 1)
          /\ Len(k1) - Len(s1) + i = Len(k) - Len(s) + i
          /\ i \in 1..(Len(s) - 1)
        BY <1>1, <1>2, <1>3
    <2>2. s[i] = k[Len(k) - Len(s) + i]
        BY <2>1 DEF AtEnd
    <2> QED
        BY <1>2, <1>3, <2>1, <2>2
<1>5. Len(s1) <= Len(k1)
    BY <1>1, <1>2, <1>3
<1>6. AtEnd(s1, k1)
    BY <1>4, <1>5 DEF AtEnd
<1> QED
    BY <1>6 DEF s1, k1
=============================================================================
