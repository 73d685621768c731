------------------------- MODULE KeyResolver_proofs -------------------------
(***************************************************************************)
(* What trimming, collapsing, prepending and stripping do to a text, for   *)
(* every text.                                                             *)
(***************************************************************************)
EXTENDS KeyResolver, FiniteSetTheorems, SequenceTheorems, WellFoundedInduction, TLAPS

(* Of some numbers one is the least, and of some up to n one the greatest. *)
LEMMA LeastOf ==
    ASSUME NEW U \in SUBSET Nat, U # {}
    PROVE  \E i \in U : \A j \in U : i <= j
<1> DEFINE R == OpToRel(<, Nat)
<1>1. IsWellFoundedOn(R, Nat)
  BY NatLessThanWellFounded
<1>2. \A x, y \in Nat : x < y => <<x, y>> \in R
  BY DEF OpToRel
<1> HIDE DEF R
<1>3. PICK i \in U : \A j \in U : <<j, i>> \notin R
  BY <1>1, WFMin
<1>4. ASSUME NEW j \in U PROVE i <= j
  <2>1. i \in Nat /\ j \in Nat
    OBVIOUS
  <2>2. ~(j < i)
    BY <1>2, <1>3, <2>1
  <2> QED
    BY <2>1, <2>2
<1> QED
  BY <1>3, <1>4

LEMMA GreatestOf ==
    ASSUME NEW n \in Nat, NEW U \in SUBSET (1..n), U # {}
    PROVE  \E i \in U : \A j \in U : j <= i
<1> DEFINE V == { n - j : j \in U }
<1>0. \A j \in U : j \in 1..n
  OBVIOUS
<1>1. V \in SUBSET Nat /\ V # {}
  <2>1. \A j \in U : n - j \in Nat
    BY <1>0
  <2>2. PICK j \in U : TRUE
    OBVIOUS
  <2>3. n - j \in V
    BY <2>2
  <2> QED
    BY <2>1, <2>3
<1>2. PICK v \in V : \A w \in V : v <= w
  BY <1>1, LeastOf
<1>3. PICK i \in U : v = n - i
  BY <1>2
<1>4. ASSUME NEW j \in U PROVE j <= i
  <2>1. n - i <= n - j
    BY <1>2, <1>3
  <2>2. i \in Nat /\ j \in Nat
    BY <1>0
  <2> QED
    BY <2>1, <2>2
<1> QED
  BY <1>3, <1>4

(* Of the positions kept, there is an n-th: the least with n of them up to *)
(* it.                                                                     *)
LEMMA NthKept ==
    ASSUME NEW N \in Nat, NEW kept \in SUBSET (1..N), NEW n \in 1..Cardinality(kept)
    PROVE  \E i \in kept : Cardinality({ j \in kept : j <= i }) = n
<1> DEFINE UpTo(i) == { j \in kept : j <= i }
           Enough == { i \in Nat : n <= Cardinality(UpTo(i)) }
<1>a. \A j \in kept : j \in Nat /\ 1 <= j /\ j <= N
  OBVIOUS
<1>1. IsFiniteSet(kept)
  <2>1. IsFiniteSet(1..N)
    BY FS_Interval
  <2> QED
    BY <2>1, FS_Subset
<1>2. ASSUME NEW i \in Nat PROVE IsFiniteSet(UpTo(i)) /\ Cardinality(UpTo(i)) \in Nat
  <2>1. UpTo(i) \in SUBSET kept
    OBVIOUS
  <2>2. IsFiniteSet(UpTo(i))
    BY <1>1, <2>1, FS_Subset
  <2> QED
    BY <2>2, FS_CardinalityType
<1>3. Cardinality(kept) \in Nat /\ n \in Nat /\ 1 <= n /\ n <= Cardinality(kept)
  BY <1>1, FS_CardinalityType
<1>4. N \in Enough
  <2>1. UpTo(N) = kept
    BY <1>a
  <2> QED
    BY <1>3, <2>1
<1>7. \A i \in Nat : i \in Enough <=> n <= Cardinality(UpTo(i))
  OBVIOUS
<1>8. Enough \in SUBSET Nat
  OBVIOUS
<1> HIDE DEF Enough
<1>9. PICK x \in Enough : \A y \in Enough : x <= y
  BY <1>4, <1>8, LeastOf
<1>10. x \in Nat
  BY <1>8, <1>9
<1>11. x # 0
  <2>1. UpTo(0) = {}
    <3>1. \A j \in kept : ~(j <= 0)
      BY <1>a
    <3> QED
      BY <3>1
  <2>2. Cardinality(UpTo(0)) = 0
    BY <2>1, FS_EmptySet
  <2> QED
    BY <1>3, <1>7, <1>9, <1>10, <2>2
<1>12. x - 1 \in Nat /\ x - 1 < x
  BY <1>10, <1>11
<1>13. x - 1 \notin Enough
  BY <1>9, <1>10, <1>12
<1>14. Cardinality(UpTo(x - 1)) < n /\ n <= Cardinality(UpTo(x))
  <2>1. Cardinality(UpTo(x - 1)) \in Nat
    BY <1>2, <1>12
  <2>2. ~(n <= Cardinality(UpTo(x - 1)))
    BY <1>7, <1>12, <1>13
  <2>3. n <= Cardinality(UpTo(x))
    BY <1>7, <1>9, <1>10
  <2> QED
    BY <1>3, <2>1, <2>2, <2>3
<1>15. x \in kept
  <2> SUFFICES ASSUME x \notin kept PROVE FALSE
    OBVIOUS
  <2>1. \A j \in kept : j <= x <=> j <= x - 1
    <3> SUFFICES ASSUME NEW j \in kept PROVE j <= x <=> j <= x - 1
      OBVIOUS
    <3>1. j \in Nat /\ j # x
      BY <1>a
    <3> QED
      BY <1>10, <3>1
  <2>2. UpTo(x) = UpTo(x - 1)
    BY <2>1
  <2> QED
    BY <1>2, <1>3, <1>12, <1>14, <2>2
<1>16. UpTo(x) = UpTo(x - 1) \cup {x} /\ x \notin UpTo(x - 1)
  <2>1. \A j \in kept : j <= x <=> j <= x - 1 \/ j = x
    <3> SUFFICES ASSUME NEW j \in kept PROVE j <= x <=> j <= x - 1 \/ j = x
      OBVIOUS
    <3>1. j \in Nat
      BY <1>a
    <3> QED
      BY <1>10, <3>1
  <2>2. ~(x <= x - 1)
    BY <1>10
  <2>3. UpTo(x) = UpTo(x - 1) \cup {x}
    BY <1>15, <2>1
  <2> QED
    BY <2>2, <2>3
<1>17. Cardinality(UpTo(x)) = Cardinality(UpTo(x - 1)) + 1
  BY <1>2, <1>12, <1>16, FS_AddElement
<1>18. Cardinality(UpTo(x)) = n
  <2>1. Cardinality(UpTo(x - 1)) \in Nat
    BY <1>2, <1>12
  <2> QED
    BY <1>3, <1>14, <1>17, <2>1
<1> QED
  BY <1>15, <1>18

(* The segments kept, one by one: which they are, and that the first and   *)
(* the last position, when kept, stay first and last.                      *)
LEMMA OnlyKept ==
    ASSUME NEW N \in Nat \ {0}, NEW kept \in SUBSET (1..N), 1 \in kept, N \in kept, NEW key
    PROVE  /\ Cardinality(kept) \in Nat \ {0}
           /\ DOMAIN Only(kept, key) = 1..Cardinality(kept)
           /\ Only(kept, key)[1] = key[1]
           /\ \A n \in 1..Cardinality(kept) : \E i \in kept :
                  /\ Only(kept, key)[n] = key[i]
                  /\ n \notin {1, Cardinality(kept)} => i \notin {1, N}
<1> DEFINE nth(n) == CHOOSE i \in kept : Cardinality({ j \in kept : j <= i }) = n
<1>a. \A j \in kept : j \in Nat /\ 1 <= j /\ j <= N
  OBVIOUS
<1>1. IsFiniteSet(kept)
  <2>1. IsFiniteSet(1..N)
    BY FS_Interval
  <2> QED
    BY <2>1, FS_Subset
<1>2. Cardinality({ j \in kept : j <= 1 }) = 1
  <2>1. { j \in kept : j <= 1 } = {1}
    <3>1. \A j \in kept : j <= 1 <=> j = 1
      BY <1>a
    <3> QED
      BY <3>1
  <2> QED
    BY <2>1, FS_Singleton
<1>3. Cardinality({ j \in kept : j <= N }) = Cardinality(kept)
  <2>1. { j \in kept : j <= N } = kept
    BY <1>a
  <2> QED
    BY <2>1
<1>4. Cardinality(kept) \in Nat \ {0}
  <2>1. Cardinality(kept) \in Nat
    BY <1>1, FS_CardinalityType
  <2>2. Cardinality(kept) # 0
    BY <1>1, FS_EmptySet
  <2> QED
    BY <2>1, <2>2
<1>5. ASSUME NEW n \in 1..Cardinality(kept)
      PROVE  nth(n) \in kept /\ Cardinality({ j \in kept : j <= nth(n) }) = n
  <2>1. \E i \in kept : Cardinality({ j \in kept : j <= i }) = n
    BY NthKept
  <2> QED
    BY <2>1
<1>6. 1 \in 1..Cardinality(kept)
  BY <1>4
<1>7. nth(1) = 1
  <2>1. nth(1) \in kept /\ Cardinality({ j \in kept : j <= nth(1) }) = 1
    BY <1>5, <1>6
  <2>2. 1 \in { j \in kept : j <= nth(1) } /\ nth(1) \in { j \in kept : j <= nth(1) }
    <3> HIDE DEF nth
    <3>1. nth(1) \in kept
      BY <2>1
    <3>2. nth(1) \in Nat /\ 1 <= nth(1)
      BY <1>a, <3>1, Zenon
    <3>3. nth(1) <= nth(1)
      BY <3>2
    <3> QED
      BY <3>1, <3>2, <3>3, Zenon
  <2>3. IsFiniteSet({ j \in kept : j <= nth(1) })
    BY <1>1, FS_Subset
  <2>4. \E x : { j \in kept : j <= nth(1) } = {x}
    BY <2>1, <2>3, FS_Singleton
  <2> HIDE DEF nth
  <2> QED
    BY <2>2, <2>4
<1>8. ASSUME NEW n \in 1..Cardinality(kept), n \notin {1, Cardinality(kept)}
      PROVE  nth(n) \notin {1, N}
  <2>1. Cardinality({ j \in kept : j <= nth(n) }) = n
    BY <1>5
  <2> HIDE DEF nth
  <2>2. nth(n) # 1
    BY <1>2, <1>8, <2>1
  <2>3. nth(n) # N
    BY <1>3, <1>8, <2>1
  <2> QED
    BY <2>2, <2>3
<1>9. Only(kept, key) = [n \in 1..Cardinality(kept) |-> key[nth(n)]]
  BY DEF Only
<1> HIDE DEF nth
<1> QED
  BY <1>4, <1>5, <1>6, <1>7, <1>8, <1>9

\* The positions collapse() keeps.
Kept(key) == { i \in DOMAIN key : key[i] # "" \/ i \in {1, Len(key)} }

(* Collapsing keeps a text's first segment, and of the segments inside     *)
(* those that are not empty.                                               *)
LEMMA CollapseKeeps ==
    ASSUME NEW key \in Text
    PROVE  /\ Collapse(key) \in Text
           /\ Collapse(key)[1] = key[1]
           /\ \A n \in DOMAIN Collapse(key) : \E i \in DOMAIN key :
                  /\ Collapse(key)[n] = key[i]
                  /\ n \notin {1, Len(Collapse(key))} => key[i] # ""
<1> DEFINE N == Len(key)
           M == Cardinality(Kept(key))
<1>1. key \in Seq(STRING) /\ N \in Nat \ {0} /\ DOMAIN key = 1..N
  BY EmptySeq, LenProperties DEF Text
<1>2. Kept(key) \in SUBSET (1..N) /\ 1 \in Kept(key) /\ N \in Kept(key)
  <2>1. 1 \in 1..N /\ N \in 1..N
    BY <1>1
  <2> QED
    BY <1>1, <2>1 DEF Kept
<1>3. Collapse(key) = Only(Kept(key), key)
  BY DEF Collapse, Kept
<1> HIDE DEF N, M
<1>4. /\ M \in Nat \ {0}
      /\ DOMAIN Collapse(key) = 1..M
      /\ Collapse(key)[1] = key[1]
      /\ \A n \in 1..M : \E i \in Kept(key) :
             /\ Collapse(key)[n] = key[i]
             /\ n \notin {1, M} => i \notin {1, N}
  BY <1>1, <1>2, <1>3, OnlyKept DEF M
<1>5. Collapse(key) = [n \in 1..M |-> Collapse(key)[n]]
  BY <1>3, <1>4 DEF Only
<1>6. ASSUME NEW n \in 1..M PROVE Collapse(key)[n] \in STRING
  <2>1. PICK i \in Kept(key) : Collapse(key)[n] = key[i]
    BY <1>4
  <2>2. i \in 1..Len(key)
    BY <1>2, <2>1 DEF N
  <2>3. key[i] \in STRING
    BY <1>1, <2>2, LenProperties DEF N
  <2> QED
    BY <2>1, <2>3
<1>7. Collapse(key) \in Seq(STRING) /\ Len(Collapse(key)) = M
  <2>1. Collapse(key) \in [1..M -> STRING]
    BY <1>5, <1>6
  <2> QED
    BY <1>4, <2>1, SeqDef, LenProperties
<1>8. Collapse(key) # <<>>
  BY <1>4, <1>7, EmptySeq
<1>9. \A i \in Kept(key) : i \in DOMAIN key /\ (i \notin {1, N} => key[i] # "")
  BY DEF Kept, N
<1> QED
  BY <1>4, <1>7, <1>8, <1>9 DEF Text

(* There are n numbers from 1 to n.                                        *)
LEMMA CountedUp ==
    ASSUME NEW n \in Nat
    PROVE  Cardinality(1..n) = n
<1>1. Cardinality(1..n) = IF 1 > n THEN 0 ELSE n - 1 + 1
  BY FS_Interval
<1> QED
  BY <1>1

(* Where every position is kept, nothing changes.                          *)
LEMMA AllKept ==
    ASSUME NEW S, NEW key \in Seq(S)
    PROVE  Only(1..Len(key), key) = key
<1> DEFINE N == Len(key)
<1>0. N \in Nat
  BY LenProperties
<1> HIDE DEF N
<1>1. ASSUME NEW i \in 1..N PROVE Cardinality({ j \in 1..N : j <= i }) = i
  <2>1. i \in Nat /\ i <= N
    BY <1>0
  <2>2. { j \in 1..N : j <= i } = 1..i
    <3>1. \A j \in 1..N : j <= i <=> j \in 1..i
      BY <1>0, <2>1
    <3>2. 1..i \subseteq 1..N
      BY <1>0, <2>1
    <3> QED
      BY <3>1, <3>2
  <2>3. Cardinality(1..i) = i
    BY <2>1, CountedUp
  <2> QED
    BY <2>2, <2>3
<1>2. Cardinality(1..N) = N
  BY <1>0, CountedUp
<1> DEFINE nth(n) == CHOOSE i \in 1..N : Cardinality({ j \in 1..N : j <= i }) = n
<1>3. \A n \in 1..N : nth(n) = n
  BY <1>1
<1>4. Only(1..N, key) = [n \in 1..N |-> key[n]]
  <2>1. Only(1..N, key) = [n \in 1..Cardinality(1..N) |-> key[nth(n)]]
    BY DEF Only
  <2> HIDE DEF nth
  <2> QED
    BY <1>2, <1>3, <2>1
<1>5. key \in [1..N -> S]
  BY LenProperties DEF N
<1>6. key = [n \in 1..N |-> key[n]]
  BY <1>5
<1> QED
  BY <1>4, <1>6 DEF N

(* A text without empty segments inside is left as it is.                  *)
LEMMA CollapsedStays ==
    ASSUME NEW key \in Text, \A n \in DOMAIN key : n \notin {1, Len(key)} => key[n] # ""
    PROVE  Collapse(key) = key
<1> DEFINE N == Len(key)
<1>1. key \in Seq(STRING) /\ N \in Nat /\ DOMAIN key = 1..N
  BY LenProperties DEF Text
<1>2. Kept(key) = 1..N
  BY <1>1 DEF Kept
<1>3. Collapse(key) = Only(1..N, key)
  BY <1>2 DEF Collapse, Kept
<1>4. Only(1..Len(key), key) = key
  BY <1>1, AllKept, Zenon
<1> QED
  BY <1>3, <1>4

(* Collapsing a second time changes nothing.                               *)
LEMMA CollapsedOnce ==
    ASSUME NEW key \in Text
    PROVE  Collapse(Collapse(key)) = Collapse(key)
<1>1. Collapse(key) \in Text
  BY CollapseKeeps
<1>2. \A n \in DOMAIN Collapse(key) : n \notin {1, Len(Collapse(key))} => Collapse(key)[n] # ""
  BY CollapseKeeps
<1> QED
  BY <1>1, <1>2, CollapsedStays

(* A key that is acceptable is so after it was collapsed.                  *)
LEMMA CollapsedAcceptable ==
    ASSUME NEW key \in Text, Acceptable(key)
    PROVE  Acceptable(Collapse(key))
<1>1. Collapse(key)[1] = key[1] /\ key[1] # ""
  BY CollapseKeeps DEF Acceptable
<1>2. EmptyText[1] = ""
  BY DEF EmptyText
<1>3. \A n \in DOMAIN Collapse(key) : \E i \in DOMAIN key : Collapse(key)[n] = key[i]
  BY CollapseKeeps
<1> QED
  BY <1>1, <1>2, <1>3 DEF Acceptable

(* Trimming returns a text or nothing.                                     *)
LEMMA ResolvePrefixType ==
    ASSUME NEW raw \in Text
    PROVE  ResolvePrefix(raw) \in Seq(STRING)
<1> DEFINE leading == { i \in DOMAIN raw : \A j \in 1..i : raw[j] = "" }
           trailing == { i \in DOMAIN raw : \A j \in i..Len(raw) : raw[j] = "" }
           l == Cardinality(leading)
           t == Cardinality(trailing)
<1>1. raw \in Seq(STRING) /\ Len(raw) \in Nat /\ DOMAIN raw = 1..Len(raw)
  BY LenProperties DEF Text
<1>2. l \in Nat /\ t \in Nat
  <2>1. IsFiniteSet(1..Len(raw))
    BY <1>1, FS_Interval
  <2>2. leading \in SUBSET (1..Len(raw)) /\ trailing \in SUBSET (1..Len(raw))
    BY <1>1, Zenon
  <2> HIDE DEF leading, trailing
  <2> QED
    BY <2>1, <2>2, FS_Subset, FS_CardinalityType
<1>3. ResolvePrefix(raw) = SubSeq(raw, l + 1, Len(raw) - t)
  BY DEF ResolvePrefix
<1> HIDE DEF leading, trailing, l, t
<1>4. \A i \in (l + 1)..(Len(raw) - t) : i \in 1..Len(raw)
  BY <1>1, <1>2
<1> QED
  BY <1>1, <1>2, <1>3, <1>4, SubSeqProperties

(* What was prepended is taken off again.                                  *)
LEMMA Stripped ==
    ASSUME NEW pre \in Seq(STRING), NEW text \in Text
    PROVE  StartsWith(pre \o text, pre) /\ StripPrefix(pre, pre \o text) = text
<1>1. text \in Seq(STRING) /\ Len(text) \in Nat \ {0} /\ Len(pre) \in Nat
  BY EmptySeq, LenProperties DEF Text
<1>2. /\ pre \o text \in Seq(STRING)
      /\ Len(pre \o text) = Len(pre) + Len(text)
      /\ \A i \in 1..(Len(pre) + Len(text)) :
            (pre \o text)[i] = IF i <= Len(pre) THEN pre[i] ELSE text[i - Len(pre)]
  BY <1>1, ConcatProperties
<1> DEFINE whole == pre \o text
<1> HIDE DEF whole
<1>3. SubSeq(whole, 1, Len(pre)) = pre
  <2>1. \A i \in 1..Len(pre) : i \in 1..Len(whole) /\ whole[i] = pre[i]
    BY <1>1, <1>2 DEF whole
  <2>2. /\ SubSeq(whole, 1, Len(pre)) \in Seq(STRING)
        /\ Len(SubSeq(whole, 1, Len(pre))) = Len(pre)
        /\ \A i \in 1..Len(pre) : SubSeq(whole, 1, Len(pre))[i] = whole[i]
    BY <1>1, <1>2, <2>1, SubSeqProperties DEF whole
  <2> QED
    BY <2>1, <2>2, SeqEqual
<1>4. SubSeq(whole, Len(pre) + 1, Len(whole)) = text
  <2> DEFINE rest == SubSeq(whole, Len(pre) + 1, Len(whole))
  <2>1. \A i \in (Len(pre) + 1)..Len(whole) : i \in 1..Len(whole)
    BY <1>1, <1>2 DEF whole
  <2>2. /\ rest \in Seq(STRING)
        /\ Len(rest) = Len(text)
        /\ \A i \in 1..Len(text) : rest[i] = whole[Len(pre) + i]
    <3>1. Len(whole) - (Len(pre) + 1) + 1 = Len(text)
      BY <1>1, <1>2 DEF whole
    <3> QED
      BY <1>1, <1>2, <2>1, <3>1, SubSeqProperties DEF whole
  <2>3. \A i \in 1..Len(text) : whole[Len(pre) + i] = text[i]
    BY <1>1, <1>2 DEF whole
  <2> HIDE DEF rest
  <2>4. rest = text
    BY <1>1, <2>2, <2>3, SeqEqual
  <2> QED
    BY <2>4 DEF rest
<1>5. Len(pre) < Len(whole)
  BY <1>1, <1>2 DEF whole
<1> QED
  BY <1>3, <1>4, <1>5 DEF StartsWith, StripPrefix, whole

(* What stripPrefix() returns is a text; what it took off can be put back. *)
LEMMA StripPrefixType ==
    ASSUME NEW S, NEW pre \in Seq(S), NEW text \in Seq(S)
    PROVE  StripPrefix(pre, text) \in Seq(S)
<1>1. Len(pre) \in Nat /\ Len(text) \in Nat /\ text \in [1..Len(text) -> S]
  BY LenProperties
<1>2. \A i \in (Len(pre) + 1)..Len(text) : text[i] \in S
  BY <1>1
<1>3. SubSeq(text, Len(pre) + 1, Len(text)) \in Seq(S)
  BY <1>1, <1>2, SubSeqProperties
<1> QED
  BY <1>3 DEF StripPrefix

LEMMA Restored ==
    ASSUME NEW S, NEW pre \in Seq(S), NEW text \in Seq(S), StartsWith(text, pre)
    PROVE  pre \o StripPrefix(pre, text) = text
<1> DEFINE rest == SubSeq(text, Len(pre) + 1, Len(text))
<1>1. Len(pre) \in Nat /\ Len(text) \in Nat /\ text \in [1..Len(text) -> S]
  BY LenProperties
<1>2. Len(pre) < Len(text) /\ SubSeq(text, 1, Len(pre)) = pre
  BY DEF StartsWith
<1>3. /\ rest \in Seq(S) /\ Len(rest) = Len(text) - Len(pre)
      /\ \A i \in 1..(Len(text) - Len(pre)) : rest[i] = text[Len(pre) + i]
  <2>1. \A i \in (Len(pre) + 1)..Len(text) : text[i] \in S
    BY <1>1
  <2>2. Len(text) - (Len(pre) + 1) + 1 = Len(text) - Len(pre) /\ Len(pre) + 1 <= Len(text)
    BY <1>1, <1>2
  <2>3. /\ rest \in Seq(S) /\ Len(rest) = Len(text) - (Len(pre) + 1) + 1
        /\ \A i \in 1..(Len(text) - (Len(pre) + 1) + 1) : rest[i] = text[Len(pre) + 1 + i - 1]
    BY <1>1, <2>1, <2>2, SubSeqProperties
  <2>4. \A i \in 1..(Len(text) - Len(pre)) : Len(pre) + 1 + i - 1 = Len(pre) + i
    BY <1>1
  <2> HIDE DEF rest
  <2> QED
    BY <2>2, <2>3, <2>4
<1>4. \A i \in 1..Len(pre) : pre[i] = text[i]
  <2>1. \A i \in 1..Len(pre) : text[i] \in S
    BY <1>1, <1>2
  <2>2. \A i \in 1..(Len(pre) - 1 + 1) : SubSeq(text, 1, Len(pre))[i] = text[1 + i - 1]
    BY <1>1, <2>1, SubSeqProperties
  <2>3. \A i \in 1..Len(pre) : i \in 1..(Len(pre) - 1 + 1) /\ 1 + i - 1 = i
    BY <1>1
  <2> QED
    BY <1>2, <2>2, <2>3
<1> HIDE DEF rest
<1>5. /\ pre \o rest \in Seq(S) /\ Len(pre \o rest) = Len(text)
      /\ \A i \in 1..Len(text) :
             (pre \o rest)[i] = IF i <= Len(pre) THEN pre[i] ELSE rest[i - Len(pre)]
  <2>1. Len(pre) + Len(rest) = Len(text)
    BY <1>1, <1>2, <1>3
  <2>2. rest \in Seq(S)
    BY <1>3
  <2>3. /\ pre \o rest \in Seq(S) /\ Len(pre \o rest) = Len(pre) + Len(rest)
        /\ \A i \in 1..(Len(pre) + Len(rest)) :
               (pre \o rest)[i] = IF i <= Len(pre) THEN pre[i] ELSE rest[i - Len(pre)]
    BY <2>2, ConcatProperties
  <2> QED
    BY <2>1, <2>3
<1>6. ASSUME NEW i \in 1..Len(text) PROVE (pre \o rest)[i] = text[i]
  <2>1. CASE i <= Len(pre)
    BY <1>1, <1>4, <1>5, <2>1
  <2>2. CASE i > Len(pre)
    <3>1. i - Len(pre) \in 1..(Len(text) - Len(pre)) /\ Len(pre) + (i - Len(pre)) = i /\ ~(i <= Len(pre))
      BY <1>1, <2>2
    <3>2. rest[i - Len(pre)] = text[i]
      BY <1>3, <3>1
    <3>3. (pre \o rest)[i] = IF i <= Len(pre) THEN pre[i] ELSE rest[i - Len(pre)]
      BY <1>5
    <3>4. ~(i <= Len(pre))
      BY <3>1
    <3>5. (pre \o rest)[i] = rest[i - Len(pre)]
      BY <3>3, <3>4, Zenon
    <3> QED
      BY <3>2, <3>5, Zenon
  <2>3. i <= Len(pre) \/ i > Len(pre)
    BY <1>1
  <2> QED
    BY <2>1, <2>2, <2>3, Zenon
<1>7. pre \o rest = text
  BY <1>5, <1>6, SeqEqual
<1> QED
  BY <1>7 DEF StripPrefix, rest
(* All its segments are the text.                                          *)
LEMMA WholeStart ==
    ASSUME NEW S, NEW s \in Seq(S)
    PROVE  SubSeq(s, 1, Len(s)) = s
<1>1. Len(s) \in Nat /\ s \in [1..Len(s) -> S]
  BY LenProperties
<1>2. \A i \in 1..Len(s) : s[i] \in S
  BY <1>1
<1>3. CASE Len(s) = 0
  <2>1. SubSeq(s, 1, Len(s)) \in Seq(S) /\ Len(SubSeq(s, 1, Len(s))) = 0
    BY <1>1, <1>2, <1>3, SubSeqProperties
  <2> QED
    BY <1>3, <2>1, EmptySeq
<1>4. CASE Len(s) # 0
  <2>1. 1 <= Len(s) /\ Len(s) - 1 + 1 = Len(s) /\ \A i \in 1..Len(s) : 1 + i - 1 = i
    BY <1>1, <1>4
  <2>2. /\ SubSeq(s, 1, Len(s)) \in Seq(S) /\ Len(SubSeq(s, 1, Len(s))) = Len(s) - 1 + 1
        /\ \A i \in 1..(Len(s) - 1 + 1) : SubSeq(s, 1, Len(s))[i] = s[1 + i - 1]
    BY <1>1, <1>2, <2>1, SubSeqProperties
  <2>3. /\ Len(SubSeq(s, 1, Len(s))) = Len(s)
        /\ \A i \in 1..Len(s) : SubSeq(s, 1, Len(s))[i] = s[i]
    BY <2>1, <2>2
  <2> QED
    BY <2>2, <2>3, SeqEqual
<1> QED
  BY <1>3, <1>4

(* Two texts start with the same n segments if these are equal one by one. *)
LEMMA SameStart ==
    ASSUME NEW S, NEW s \in Seq(S), NEW t \in Seq(S), NEW n \in Nat, n <= Len(s), n <= Len(t)
    PROVE  SubSeq(s, 1, n) = SubSeq(t, 1, n) <=> \A i \in 1..n : s[i] = t[i]
<1>1. ASSUME NEW u \in Seq(S), n <= Len(u)
      PROVE  /\ SubSeq(u, 1, n) \in Seq(S) /\ Len(SubSeq(u, 1, n)) = n
             /\ \A i \in 1..n : SubSeq(u, 1, n)[i] = u[i]
  <2>1. Len(u) \in Nat /\ u \in [1..Len(u) -> S]
    BY LenProperties
  <2>2. \A i \in 1..n : i \in 1..Len(u)
    BY <1>1, <2>1
  <2>3. \A i \in 1..n : u[i] \in S
    BY <2>1, <2>2
  <2>4. CASE n = 0
    <3>1. SubSeq(u, 1, n) \in Seq(S) /\ Len(SubSeq(u, 1, n)) = 0
      BY <2>3, <2>4, SubSeqProperties
    <3>2. \A i \in 1..n : FALSE
      BY <2>4
    <3> QED
      BY <2>4, <3>1, <3>2
  <2>5. CASE n # 0
    <3>1. 1 <= n /\ n - 1 + 1 = n
      BY <2>5
    <3>2. /\ SubSeq(u, 1, n) \in Seq(S) /\ Len(SubSeq(u, 1, n)) = n - 1 + 1
          /\ \A i \in 1..(n - 1 + 1) : SubSeq(u, 1, n)[i] = u[1 + i - 1]
      BY <2>3, <3>1, SubSeqProperties
    <3>3. \A i \in 1..n : 1 + i - 1 = i
      OBVIOUS
    <3> QED
      BY <3>1, <3>2, <3>3
  <2> QED
    BY <2>4, <2>5
<1>2. /\ SubSeq(s, 1, n) \in Seq(S) /\ Len(SubSeq(s, 1, n)) = n
      /\ \A i \in 1..n : SubSeq(s, 1, n)[i] = s[i]
  BY <1>1
<1>3. /\ SubSeq(t, 1, n) \in Seq(S) /\ Len(SubSeq(t, 1, n)) = n
      /\ \A i \in 1..n : SubSeq(t, 1, n)[i] = t[i]
  BY <1>1
<1>4. ASSUME SubSeq(s, 1, n) = SubSeq(t, 1, n) PROVE \A i \in 1..n : s[i] = t[i]
  BY <1>2, <1>3, <1>4
<1>5. ASSUME \A i \in 1..n : s[i] = t[i] PROVE SubSeq(s, 1, n) = SubSeq(t, 1, n)
  <2>1. \A i \in 1..n : SubSeq(s, 1, n)[i] = SubSeq(t, 1, n)[i]
    BY <1>2, <1>3, <1>5
  <2> QED
    BY <1>2, <1>3, <2>1, SeqEqual
<1> QED
  BY <1>4, <1>5

(* What a text joined of two is, segment by segment.                       *)
LEMMA Joined ==
    ASSUME NEW S, NEW pre \in Seq(S), NEW rest \in Seq(S)
    PROVE  /\ pre \o rest \in Seq(S)
           /\ Len(pre \o rest) = Len(pre) + Len(rest)
           /\ \A i \in 1..Len(pre) : (pre \o rest)[i] = pre[i]
           /\ \A i \in 1..Len(rest) : (pre \o rest)[Len(pre) + i] = rest[i]
<1>1. Len(pre) \in Nat /\ Len(rest) \in Nat
  BY LenProperties
<1>2. /\ pre \o rest \in Seq(S) /\ Len(pre \o rest) = Len(pre) + Len(rest)
      /\ \A i \in 1..(Len(pre) + Len(rest)) :
             (pre \o rest)[i] = IF i <= Len(pre) THEN pre[i] ELSE rest[i - Len(pre)]
  BY ConcatProperties
<1>3. \A i \in 1..Len(pre) : i \in 1..(Len(pre) + Len(rest)) /\ i <= Len(pre)
  BY <1>1
<1>4. \A i \in 1..Len(rest) :
          /\ Len(pre) + i \in 1..(Len(pre) + Len(rest)) /\ ~(Len(pre) + i <= Len(pre))
          /\ Len(pre) + i - Len(pre) = i
  BY <1>1
<1> QED
  BY <1>2, <1>3, <1>4

LEMMA StartsWithPoints ==
    ASSUME NEW S, NEW pre \in Seq(S), NEW text \in Seq(S)
    PROVE  StartsWith(text, pre) <=>
               Len(pre) < Len(text) /\ \A i \in 1..Len(pre) : text[i] = pre[i]
<1>1. Len(pre) \in Nat /\ Len(text) \in Nat
  BY LenProperties
<1>2. CASE Len(pre) < Len(text)
  <2>1. Len(pre) <= Len(text) /\ Len(pre) <= Len(pre)
    BY <1>1, <1>2
  <2>2. SubSeq(text, 1, Len(pre)) = SubSeq(pre, 1, Len(pre)) <=>
            \A i \in 1..Len(pre) : text[i] = pre[i]
    BY <1>1, <2>1, SameStart
  <2>3. SubSeq(pre, 1, Len(pre)) = pre
    BY Zenon, WholeStart
  <2> QED
    BY <1>2, <2>2, <2>3 DEF StartsWith
<1> QED
  BY <1>2 DEF StartsWith
=============================================================================
