-------------------------- MODULE SequenceLemmas --------------------------
(* Lemmas about vectors that the proofs about the daemon share: what push,   *)
(* insert, remove, filter and concatenation do to the elements of a sequence *)
(* and to their being distinct, and induction over the natural numbers in a  *)
(* form the provers can use, for what is defined by recursion over a         *)
(* sequence.                                                                 *)
EXTENDS Integers, Vectors, SequencesExt, SequenceTheorems, FiniteSetTheorems, TLAPS

-----------------------------------------------------------------------------
(* What is in a vector, and where                                            *)

LEMMA FunctionIsSeq ==
  ASSUME NEW S, NEW n \in Nat, NEW f \in [1 .. n -> S]
  PROVE  f \in Seq(S)
  BY SeqDef

LEMMA InToSet ==
  ASSUME NEW S, NEW s \in Seq(S), NEW x
  PROVE  x \in ToSet(s) <=> \E k \in 1 .. Len(s) : s[k] = x
<1>1. DOMAIN s = 1 .. Len(s)
  OBVIOUS
<1>2. ToSet(s) = {s[k] : k \in 1 .. Len(s)}
  BY <1>1, Zenon DEF ToSet
<1> QED
  BY <1>2, Zenon

LEMMA NoElement == ToSet(<<>>) = {} /\ IsInjective(<<>>)
BY DEF ToSet, IsInjective

LEMMA OneElement == ASSUME NEW x PROVE ToSet(<<x>>) = {x} /\ IsInjective(<<x>>)
BY DEF ToSet, IsInjective

LEMMA EmptyOrNot == ASSUME NEW S, NEW s \in Seq(S) PROVE ToSet(s) = {} <=> s = <<>>
<1>1. s # <<>> => s[1] \in ToSet(s)
  <2>1. s # <<>> => 1 \in 1 .. Len(s)
    BY EmptySeq
  <2> QED
    BY <2>1, InToSet
<1>2. s = <<>> => ToSet(s) = {}
  BY DEF ToSet
<1> QED
  BY <1>1, <1>2

LEMMA RemoveAtProperties ==
  ASSUME NEW S, NEW s \in Seq(S), NEW i \in 1 .. Len(s)
  PROVE  /\ RemoveAt(s, i) \in Seq(S)
         /\ Len(RemoveAt(s, i)) = Len(s) - 1
         /\ \A k \in 1 .. Len(s) - 1 : RemoveAt(s, i)[k] = IF k < i THEN s[k] ELSE s[k + 1]
<1> DEFINE front == SubSeq(s, 1, i - 1)
           back == SubSeq(s, i + 1, Len(s))
<1>1. /\ front \in Seq(S) /\ Len(front) = i - 1
      /\ \A k \in 1 .. i - 1 : front[k] = s[k]
  BY SubSeqProperties
<1>2. /\ back \in Seq(S) /\ Len(back) = Len(s) - i
      /\ \A k \in 1 .. Len(s) - i : back[k] = s[i + k]
  BY SubSeqProperties
<1>3. RemoveAt(s, i) = front \o back
  BY DEF RemoveAt
<1> HIDE DEF front, back
<1>4. front \o back \in Seq(S) /\ Len(front \o back) = Len(s) - 1
  BY <1>1, <1>2
<1>5. ASSUME NEW k \in 1 .. Len(s) - 1
      PROVE  (front \o back)[k] = IF k < i THEN s[k] ELSE s[k + 1]
  <2>1. CASE k < i
    <3>1. (front \o back)[k] = front[k]
      BY <1>1, <1>2, <2>1
    <3> QED
      BY <1>1, <2>1, <3>1
  <2>2. CASE ~ (k < i)
    <3>1. (front \o back)[k] = back[k - (i - 1)]
      BY <1>1, <1>2, <2>2
    <3>2. back[k - (i - 1)] = s[i + (k - (i - 1))]
      BY <1>2, <2>2
    <3> QED
      BY <2>2, <3>1, <3>2
  <2> QED
    BY <2>1, <2>2
<1> QED
  BY <1>3, <1>4, <1>5

LEMMA InsertAtProperties ==
  ASSUME NEW S, NEW s \in Seq(S), NEW i \in 1 .. Len(s) + 1, NEW e \in S
  PROVE  /\ InsertAt(s, i, e) \in Seq(S)
         /\ Len(InsertAt(s, i, e)) = Len(s) + 1
         /\ \A k \in 1 .. Len(s) + 1 :
              InsertAt(s, i, e)[k] = IF k < i THEN s[k] ELSE IF k = i THEN e ELSE s[k - 1]
<1> DEFINE front == SubSeq(s, 1, i - 1)
           back == SubSeq(s, i, Len(s))
<1>1. /\ front \in Seq(S) /\ Len(front) = i - 1
      /\ \A k \in 1 .. i - 1 : front[k] = s[k]
  BY SubSeqProperties
<1>2. /\ back \in Seq(S) /\ Len(back) = Len(s) + 1 - i
      /\ \A k \in 1 .. Len(s) + 1 - i : back[k] = s[i + k - 1]
  BY SubSeqProperties
<1>3. InsertAt(s, i, e) = (front \o <<e>>) \o back
  BY DEF InsertAt
<1> HIDE DEF front, back
<1>4. /\ front \o <<e>> \in Seq(S) /\ Len(front \o <<e>>) = i
      /\ \A k \in 1 .. i : (front \o <<e>>)[k] = IF k < i THEN s[k] ELSE e
  BY <1>1
<1> DEFINE head == front \o <<e>>
<1> HIDE DEF head
<1>5. /\ head \in Seq(S) /\ Len(head) = i
      /\ \A k \in 1 .. i : head[k] = IF k < i THEN s[k] ELSE e
  BY <1>4 DEF head
<1>6. InsertAt(s, i, e) = head \o back
  BY <1>3 DEF head
<1>7. /\ head \o back \in Seq(S) /\ Len(head \o back) = Len(s) + 1
      /\ \A k \in 1 .. Len(s) + 1 :
           (head \o back)[k] = IF k <= i THEN head[k] ELSE back[k - i]
  <2>1. Len(s) \in Nat /\ Len(head) + Len(back) = Len(s) + 1
    BY <1>2, <1>5
  <2>2. head \in Seq(S) /\ back \in Seq(S)
    BY <1>2, <1>5
  <2>3. /\ head \o back \in Seq(S) /\ Len(head \o back) = Len(head) + Len(back)
        /\ \A k \in 1 .. Len(head) + Len(back) :
             (head \o back)[k] = IF k <= Len(head) THEN head[k] ELSE back[k - Len(head)]
    BY <2>2, ConcatProperties
  <2> QED
    BY <1>5, <2>1, <2>3
<1> HIDE DEF head
<1>8. ASSUME NEW k \in 1 .. Len(s) + 1
      PROVE  (head \o back)[k] = IF k < i THEN s[k] ELSE IF k = i THEN e ELSE s[k - 1]
  <2>1. Len(s) \in Nat /\ i \in Int /\ k \in Int /\ 1 <= k /\ k <= Len(s) + 1
    OBVIOUS
  <2>2. CASE k <= i
    <3>1. k \in 1 .. i
      BY <2>1, <2>2
    <3>2. (head \o back)[k] = head[k]
      BY <1>7, <2>2
    <3>3. head[k] = IF k < i THEN s[k] ELSE e
      BY <1>5, <3>1
    <3>4. k < i \/ k = i
      BY <2>1, <2>2
    <3> QED
      BY <3>2, <3>3, <3>4
  <2>3. CASE k > i
    <3>1. k - i \in 1 .. Len(s) + 1 - i /\ i + (k - i) - 1 = k - 1
      BY <2>1, <2>3
    <3>2. (head \o back)[k] = back[k - i]
      BY <1>7, <2>1, <2>3
    <3>3. back[k - i] = s[k - 1]
      BY <1>2, <3>1
    <3>4. ~ (k < i) /\ k # i
      BY <2>1, <2>3
    <3> QED
      BY <3>2, <3>3, <3>4
  <2>4. k <= i \/ k > i
    BY <2>1
  <2> QED
    BY <2>2, <2>3, <2>4
<1> QED
  BY <1>6, <1>7, <1>8

LEMMA AppendHolds ==
  ASSUME NEW S, NEW s \in Seq(S), NEW e \in S
  PROVE  ToSet(Append(s, e)) = ToSet(s) \cup {e}
<1> DEFINE r == Append(s, e)
<1>1. /\ r \in Seq(S) /\ Len(r) = Len(s) + 1 /\ r[Len(s) + 1] = e
      /\ \A k \in 1 .. Len(s) : r[k] = s[k]
  BY AppendProperties
<1>2. Len(s) \in Nat
  OBVIOUS
<1> HIDE DEF r
<1>3. ASSUME NEW x PROVE x \in ToSet(r) <=> x \in ToSet(s) \/ x = e
  <2>1. x \in ToSet(r) <=> \E k \in 1 .. Len(s) + 1 : r[k] = x
    BY <1>1, InToSet
  <2>2. x \in ToSet(s) <=> \E k \in 1 .. Len(s) : s[k] = x
    BY InToSet
  <2> QED
    BY <1>1, <1>2, <2>1, <2>2
<1> QED
  BY <1>3 DEF r

LEMMA InsertAtHolds ==
  ASSUME NEW S, NEW s \in Seq(S), NEW i \in 1 .. Len(s) + 1, NEW e \in S
  PROVE  ToSet(InsertAt(s, i, e)) = ToSet(s) \cup {e}
<1> DEFINE r == InsertAt(s, i, e)
<1>1. /\ r \in Seq(S) /\ Len(r) = Len(s) + 1
      /\ \A k \in 1 .. Len(s) + 1 : r[k] = IF k < i THEN s[k] ELSE IF k = i THEN e ELSE s[k - 1]
  BY InsertAtProperties
<1> HIDE DEF r
<1>2. e \in ToSet(r)
  BY <1>1, InToSet
<1>3. ASSUME NEW k \in 1 .. Len(s) PROVE s[k] \in ToSet(r)
  <2>1. CASE k < i
    <3>1. r[k] = s[k] /\ k \in 1 .. Len(r)
      BY <1>1, <2>1
    <3> QED
      BY <1>1, <3>1, InToSet
  <2>2. CASE k >= i
    <3>1. r[k + 1] = s[k] /\ k + 1 \in 1 .. Len(r)
      BY <1>1, <2>2
    <3> QED
      BY <1>1, <3>1, InToSet
  <2> QED
    BY <2>1, <2>2
<1>4. ASSUME NEW k \in 1 .. Len(r) PROVE r[k] \in ToSet(s) \cup {e}
  <2>1. CASE k < i
    <3>1. r[k] = s[k] /\ k \in 1 .. Len(s)
      BY <1>1, <2>1
    <3> QED
      BY <3>1, InToSet
  <2>2. CASE k = i
    BY <1>1, <2>2
  <2>3. CASE k > i
    <3>1. r[k] = s[k - 1] /\ k - 1 \in 1 .. Len(s)
      BY <1>1, <2>3
    <3> QED
      BY <3>1, InToSet
  <2> QED
    BY <1>1, <2>1, <2>2, <2>3
<1>5. \A x : x \in ToSet(r) <=> x \in ToSet(s) \cup {e}
  BY <1>1, <1>2, <1>3, <1>4, InToSet
<1> QED
  BY <1>5 DEF r

LEMMA RemoveAtHolds ==
  ASSUME NEW S, NEW s \in Seq(S), NEW i \in 1 .. Len(s), NEW x \in ToSet(s), x # s[i]
  PROVE  x \in ToSet(RemoveAt(s, i))
<1> DEFINE r == RemoveAt(s, i)
<1>1. /\ r \in Seq(S) /\ Len(r) = Len(s) - 1
      /\ \A k \in 1 .. Len(s) - 1 : r[k] = IF k < i THEN s[k] ELSE s[k + 1]
  BY RemoveAtProperties
<1> HIDE DEF r
<1>2. PICK k \in 1 .. Len(s) : s[k] = x
  BY InToSet
<1>3. CASE k < i
  <2>1. r[k] = x /\ k \in 1 .. Len(r)
    BY <1>1, <1>2, <1>3
  <2> QED
    BY <1>1, <2>1, InToSet DEF r
<1>4. CASE k > i
  <2>1. r[k - 1] = x /\ k - 1 \in 1 .. Len(r)
    BY <1>1, <1>2, <1>4
  <2> QED
    BY <1>1, <2>1, InToSet DEF r
<1> QED
  BY <1>2, <1>3, <1>4

-----------------------------------------------------------------------------
(* Vectors without repetitions                                               *)

LEMMA DistinctPlaces ==
  ASSUME NEW S, NEW s \in Seq(S)
  PROVE  IsInjective(s) <=> \A j, k \in 1 .. Len(s) : s[j] = s[k] => j = k
<1>1. DOMAIN s = 1 .. Len(s)
  OBVIOUS
<1> QED
  BY <1>1 DEF IsInjective

LEMMA AppendDistinct ==
  ASSUME NEW S, NEW s \in Seq(S), NEW e \in S, IsInjective(s), e \notin ToSet(s)
  PROVE  IsInjective(Append(s, e))
<1> DEFINE r == Append(s, e)
<1>1. /\ r \in Seq(S) /\ Len(r) = Len(s) + 1 /\ r[Len(s) + 1] = e
      /\ \A k \in 1 .. Len(s) : r[k] = s[k]
  BY AppendProperties
<1>2. Len(s) \in Nat /\ \A k \in 1 .. Len(s) : s[k] # e
  BY InToSet
<1>3. \A j, k \in 1 .. Len(s) : s[j] = s[k] => j = k
  BY DistinctPlaces
<1> HIDE DEF r
<1>4. \A j, k \in 1 .. Len(r) : r[j] = r[k] => j = k
  BY <1>1, <1>2, <1>3
<1> QED
  BY <1>1, <1>4, DistinctPlaces DEF r

LEMMA InsertAtDistinct ==
  ASSUME NEW S, NEW s \in Seq(S), NEW i \in 1 .. Len(s) + 1, NEW e \in S,
         IsInjective(s), e \notin ToSet(s)
  PROVE  IsInjective(InsertAt(s, i, e))
<1> DEFINE r == InsertAt(s, i, e)
           back(k) == IF k < i THEN k ELSE k - 1
<1>1. /\ r \in Seq(S) /\ Len(r) = Len(s) + 1
      /\ \A k \in 1 .. Len(s) + 1 : r[k] = IF k < i THEN s[k] ELSE IF k = i THEN e ELSE s[k - 1]
  BY InsertAtProperties
<1>2. Len(s) \in Nat /\ \A k \in 1 .. Len(s) : s[k] # e
  BY InToSet
<1>3. \A j, k \in 1 .. Len(s) : s[j] = s[k] => j = k
  BY DistinctPlaces
<1> HIDE DEF r
<1>4. \A k \in 1 .. Len(r) : k # i => r[k] = s[back(k)] /\ back(k) \in 1 .. Len(s) /\ r[k] # e
  BY <1>1, <1>2
<1>5. ASSUME NEW j \in 1 .. Len(r), NEW k \in 1 .. Len(r), r[j] = r[k] PROVE j = k
  <2>1. CASE j = i \/ k = i
    BY <1>1, <1>4, <1>5, <2>1
  <2>2. CASE j # i /\ k # i
    <3>1. back(j) = back(k)
      <4> HIDE DEF back
      <4> QED BY <1>3, <1>4, <1>5, <2>2
    <3> QED
      BY <2>2, <3>1
  <2> QED
    BY <2>1, <2>2
<1> QED
  BY <1>1, <1>5, DistinctPlaces DEF r

LEMMA RemoveAtDistinct ==
  ASSUME NEW S, NEW s \in Seq(S), NEW i \in 1 .. Len(s), IsInjective(s)
  PROVE  IsInjective(RemoveAt(s, i)) /\ ToSet(RemoveAt(s, i)) = ToSet(s) \ {s[i]}
<1> DEFINE r == RemoveAt(s, i)
           from(k) == IF k < i THEN k ELSE k + 1
<1>1. /\ r \in Seq(S) /\ Len(r) = Len(s) - 1
      /\ \A k \in 1 .. Len(s) - 1 : r[k] = IF k < i THEN s[k] ELSE s[k + 1]
  BY RemoveAtProperties
<1>2. \A j, k \in 1 .. Len(s) : s[j] = s[k] => j = k
  BY DistinctPlaces
<1> HIDE DEF r
<1>3. \A k \in 1 .. Len(r) : r[k] = s[from(k)] /\ from(k) \in 1 .. Len(s) /\ from(k) # i
  BY <1>1
<1>4. \A j, k \in 1 .. Len(r) : from(j) = from(k) => j = k
  OBVIOUS
<1> HIDE DEF from
<1>5. \A j, k \in 1 .. Len(r) : r[j] = r[k] => j = k
  BY <1>2, <1>3, <1>4
<1>6. \A x \in ToSet(r) : x \in ToSet(s) /\ x # s[i]
  BY <1>1, <1>2, <1>3, InToSet
<1>7. \A x \in ToSet(s) : x # s[i] => x \in ToSet(r)
  BY RemoveAtHolds DEF r
<1>8. ToSet(r) = ToSet(s) \ {s[i]}
  BY <1>6, <1>7
<1> QED
  BY <1>1, <1>5, <1>8, DistinctPlaces DEF r

LEMMA ConcatHolds ==
  ASSUME NEW S, NEW s \in Seq(S), NEW t \in Seq(S)
  PROVE  ToSet(s \o t) = ToSet(s) \cup ToSet(t)
<1> DEFINE r == s \o t
<1>1. /\ r \in Seq(S) /\ Len(r) = Len(s) + Len(t)
      /\ \A k \in 1 .. Len(s) + Len(t) : r[k] = IF k <= Len(s) THEN s[k] ELSE t[k - Len(s)]
  BY ConcatProperties
<1>2. Len(s) \in Nat /\ Len(t) \in Nat
  OBVIOUS
<1> HIDE DEF r
<1>3. \A k \in 1 .. Len(s) : s[k] \in ToSet(r)
  <2>1. \A k \in 1 .. Len(s) : r[k] = s[k] /\ k \in 1 .. Len(r)
    BY <1>1, <1>2
  <2> QED
    BY <1>1, <2>1, InToSet
<1>4. \A k \in 1 .. Len(t) : t[k] \in ToSet(r)
  <2>1. \A k \in 1 .. Len(t) : r[Len(s) + k] = t[k] /\ Len(s) + k \in 1 .. Len(r)
    BY <1>1, <1>2, SMTT(30)
  <2> QED
    BY <1>1, <2>1, InToSet
<1>5. ASSUME NEW k \in 1 .. Len(r) PROVE r[k] \in ToSet(s) \cup ToSet(t)
  <2>1. CASE k <= Len(s)
    <3>1. r[k] = s[k] /\ k \in 1 .. Len(s)
      BY <1>1, <1>2, <2>1
    <3> QED
      BY <3>1, InToSet
  <2>2. CASE k > Len(s)
    <3>1. r[k] = t[k - Len(s)] /\ k - Len(s) \in 1 .. Len(t)
      BY <1>1, <1>2, <2>2
    <3> QED
      BY <3>1, InToSet
  <2> QED
    BY <1>1, <1>2, <2>1, <2>2
<1>6. ToSet(s) \subseteq ToSet(r) /\ ToSet(t) \subseteq ToSet(r)
  BY <1>3, <1>4, InToSet
<1>7. ToSet(r) \subseteq ToSet(s) \cup ToSet(t)
  BY <1>1, <1>5, InToSet
<1> QED
  BY <1>6, <1>7 DEF r

LEMMA ConcatDistinct ==
  ASSUME NEW S, NEW s \in Seq(S), NEW t \in Seq(S), IsInjective(s), IsInjective(t),
         ToSet(s) \cap ToSet(t) = {}
  PROVE  IsInjective(s \o t)
<1> DEFINE r == s \o t
<1>1. /\ r \in Seq(S) /\ Len(r) = Len(s) + Len(t)
      /\ \A k \in 1 .. Len(s) + Len(t) : r[k] = IF k <= Len(s) THEN s[k] ELSE t[k - Len(s)]
  BY ConcatProperties
<1>2. Len(s) \in Nat /\ Len(t) \in Nat
  OBVIOUS
<1>3. /\ \A j, k \in 1 .. Len(s) : s[j] = s[k] => j = k
      /\ \A j, k \in 1 .. Len(t) : t[j] = t[k] => j = k
  BY DistinctPlaces
<1>4. \A j \in 1 .. Len(s) : \A k \in 1 .. Len(t) : s[j] # t[k]
  <2>1. \A j \in 1 .. Len(s) : s[j] \in ToSet(s)
    BY InToSet
  <2>2. \A k \in 1 .. Len(t) : t[k] \in ToSet(t)
    BY InToSet
  <2> QED
    BY <2>1, <2>2
<1> HIDE DEF r
<1>5. ASSUME NEW j \in 1 .. Len(r), NEW k \in 1 .. Len(r), r[j] = r[k] PROVE j = k
  <2>1. CASE j <= Len(s) /\ k <= Len(s)
    BY <1>1, <1>2, <1>3, <1>5, <2>1
  <2>2. CASE j > Len(s) /\ k > Len(s)
    <3>1. /\ j - Len(s) \in 1 .. Len(t) /\ k - Len(s) \in 1 .. Len(t)
          /\ t[j - Len(s)] = t[k - Len(s)]
      BY <1>1, <1>2, <1>5, <2>2
    <3>2. j - Len(s) = k - Len(s)
      BY <1>3, <3>1
    <3> QED
      BY <1>2, <3>2
  <2>3. CASE j <= Len(s) /\ k > Len(s)
    <3>1. j \in 1 .. Len(s) /\ k - Len(s) \in 1 .. Len(t) /\ s[j] = t[k - Len(s)]
      BY <1>1, <1>2, <1>5, <2>3
    <3> QED
      BY <1>4, <3>1
  <2>4. CASE j > Len(s) /\ k <= Len(s)
    <3>1. k \in 1 .. Len(s) /\ j - Len(s) \in 1 .. Len(t) /\ s[k] = t[j - Len(s)]
      BY <1>1, <1>2, <1>5, <2>4
    <3> QED
      BY <1>4, <3>1
  <2> QED
    BY <1>1, <1>2, <2>1, <2>2, <2>3, <2>4
<1> QED
  BY <1>1, <1>5, DistinctPlaces DEF r

-----------------------------------------------------------------------------
(* Induction: the library's theorems of induction take the formula as an     *)
(* operator; stated for a set of numbers, it follows from the well-founded   *)
(* order of the finite sets of numbers.                                      *)

LEMMA LeastOfNat ==
  ASSUME NEW T, T \subseteq Nat, T # {}
  PROVE  \E x \in T : \A y \in T : x <= y
<1> DEFINE Below == {1 .. n : n \in T}
           R == StrictSubsetOrdering(Nat)
<1>1. IsWellFoundedOn(R, FiniteSubsetsOf(Nat))
  BY FS_StrictSubsetOrderingWellFounded
<1>2. Below \subseteq FiniteSubsetsOf(Nat) /\ Below # {}
  <2>1. ASSUME NEW n \in T PROVE 1 .. n \in FiniteSubsetsOf(Nat)
    <3>1. n \in Int /\ 1 \in Int
      OBVIOUS
    <3>2. IsFiniteSet(1 .. n)
      BY <3>1, FS_Interval
    <3> QED
      BY <3>1, <3>2 DEF FiniteSubsetsOf
  <2> QED
    BY <2>1
<1> HIDE DEF R
<1>3. PICK b \in Below : \A c \in Below : <<c, b>> \notin R
  <2> HIDE DEF Below
  <2> QED
    BY <1>1, <1>2, WFMin
<1>4. PICK x \in T : b = 1 .. x
  OBVIOUS
<1>5. ASSUME NEW y \in T, y < x PROVE FALSE
  <2>1. 1 .. y \in SUBSET Nat /\ 1 .. x \in SUBSET Nat
    OBVIOUS
  <2>2. 1 .. y \subseteq 1 .. x /\ x \in 1 .. x /\ x \notin 1 .. y
    BY <1>5
  <2>3. <<1 .. y, 1 .. x>> \in R
    BY <2>1, <2>2 DEF R, StrictSubsetOrdering
  <2> QED
    BY <1>3, <1>4, <2>3
<1> QED
  BY <1>5

(* Induction up to n, for the set of the numbers that have the property.     *)
LEMMA InductionUpTo ==
  ASSUME NEW n \in Nat, NEW T, 0 \in T, \A i \in 1 .. n : i - 1 \in T => i \in T
  PROVE  0 .. n \subseteq T
<1> DEFINE Rest == {i \in 0 .. n : i \notin T}
<1>1. CASE Rest = {}
  BY <1>1
<1>2. CASE Rest # {}
  <2>1. Rest \subseteq Nat
    OBVIOUS
  <2> HIDE DEF Rest
  <2>2. PICK x \in Rest : \A y \in Rest : x <= y
    BY <1>2, <2>1, LeastOfNat
  <2> USE DEF Rest
  <2>3. x \in 1 .. n /\ x - 1 \in 0 .. n /\ x - 1 \notin Rest
    BY <2>2
  <2> QED
    BY <2>2, <2>3
<1> QED
  BY <1>1, <1>2

(* A function defined by recursion from 0 to n is what it is defined to be.  *)
LEMMA RecursionUpTo ==
  ASSUME NEW D, NEW base \in D, NEW n \in Nat, NEW step \in [1 .. n -> [D -> D]]
  PROVE  \E f \in [0 .. n -> D] : f[0] = base /\ \A i \in 1 .. n : f[i] = step[i][f[i - 1]]
<1> DEFINE Good(m, f) == f[0] = base /\ \A i \in 1 .. m : f[i] = step[i][f[i - 1]]
           T == {m \in 0 .. n : \E f \in [0 .. m -> D] : Good(m, f)}
<1>1. 0 \in T
  <2> DEFINE g == [i \in 0 .. 0 |-> base]
  <2>1. g \in [0 .. 0 -> D] /\ Good(0, g) /\ 0 \in 0 .. n
    OBVIOUS
  <2> HIDE DEF g, Good
  <2> QED
    BY <2>1
<1>2. ASSUME NEW m \in 1 .. n, m - 1 \in T PROVE m \in T
  <2>1. PICK f \in [0 .. m - 1 -> D] : Good(m - 1, f)
    BY <1>2
  <2> DEFINE g == [i \in 0 .. m |-> IF i = m THEN step[m][f[m - 1]] ELSE f[i]]
  <2>2. f[m - 1] \in D /\ step[m] \in [D -> D]
    OBVIOUS
  <2>3. g \in [0 .. m -> D]
    BY <2>2
  <2>4. Good(m, g)
    <3>1. g[0] = base
      BY <2>1
    <3>2. ASSUME NEW i \in 1 .. m PROVE g[i] = step[i][g[i - 1]]
      <4>1. CASE i = m
        BY <4>1
      <4>2. CASE i # m
        BY <2>1, <4>2
      <4> QED
        BY <4>1, <4>2
    <3> HIDE DEF g
    <3> QED
      BY <3>1, <3>2
  <2> HIDE DEF g, Good
  <2> QED
    BY <2>3, <2>4
<1> HIDE DEF T
<1>3. 0 .. n \subseteq T
  BY <1>1, <1>2, InductionUpTo
<1>4. n \in T
  BY <1>3
<1> QED
  BY <1>4 DEF T

-----------------------------------------------------------------------------
(* FlattenSeq of SequencesExt, a recursive function over the places of ss    *)

SeqOfSeqs(S, ss) == ss \in Seq(Seq(S))

LEMMA SeqOfSeqsParts ==
  ASSUME NEW S, NEW ss, SeqOfSeqs(S, ss)
  PROVE  /\ Len(ss) \in Nat /\ (Len(ss) = 0 => ss = <<>>)
         /\ \A i \in 1 .. Len(ss) : ss[i] \in Seq(S)
<1>1. ASSUME NEW D, ss \in Seq(D)
      PROVE  Len(ss) \in Nat /\ (Len(ss) = 0 => ss = <<>>) /\ \A i \in 1 .. Len(ss) : ss[i] \in D
  BY <1>1, EmptySeq
<1> DEFINE D == Seq(S)
<1>2. ss \in Seq(D)
  BY DEF SeqOfSeqs
<1>3. Len(ss) \in Nat /\ (Len(ss) = 0 => ss = <<>>) /\ \A i \in 1 .. Len(ss) : ss[i] \in D
  <2> HIDE DEF D
  <2> QED
    BY <1>1, <1>2
<1> QED
  BY <1>3

(* f[i] is the concatenation of the first i sequences of ss.                 *)
JoinedUpTo(S, ss, f) ==
  /\ f \in [0 .. Len(ss) -> Seq(S)]
  /\ f[0] = <<>>
  /\ \A i \in 1 .. Len(ss) : f[i] = f[i - 1] \o ss[i]

LEMMA JoinExists ==
  ASSUME NEW S, NEW ss, SeqOfSeqs(S, ss)
  PROVE  \E f : JoinedUpTo(S, ss, f)
<1> DEFINE n == Len(ss)
           D == Seq(S)
           step == [i \in 1 .. n |-> [x \in D |-> x \o ss[i]]]
<1>1. n \in Nat /\ <<>> \in D
  BY SeqOfSeqsParts
<1>2. step \in [1 .. n -> [D -> D]]
  <2>1. \A i \in 1 .. n : ss[i] \in Seq(S)
    BY SeqOfSeqsParts
  <2>2. \A i \in 1 .. n : \A x \in D : x \o ss[i] \in D
    BY <2>1, ConcatProperties
  <2> HIDE DEF n, D
  <2> QED
    BY <2>2
<1>3. PICK f \in [0 .. n -> D] : f[0] = <<>> /\ \A i \in 1 .. n : f[i] = step[i][f[i - 1]]
  <2> HIDE DEF step, D, n
  <2> QED
    BY <1>1, <1>2, RecursionUpTo
<1>4. ASSUME NEW i \in 1 .. n PROVE f[i] = f[i - 1] \o ss[i]
  <2>1. f[i - 1] \in D
    BY <1>1
  <2> HIDE DEF D
  <2> QED
    BY <1>3, <2>1
<1> QED
  BY <1>3, <1>4 DEF JoinedUpTo

LEMMA FlattenIsJoin ==
  ASSUME NEW S, NEW ss, SeqOfSeqs(S, ss), NEW f, JoinedUpTo(S, ss, f)
  PROVE  FlattenSeq(ss) = f[Len(ss)]
<1> DEFINE n == Len(ss)
           Rec(h, i) == IF i = 1 THEN ss[i] ELSE h[i - 1] \o ss[i]
           g == CHOOSE h : h = [i \in 1 .. n |-> Rec(h, i)]
           r == [i \in 1 .. n |-> f[i]]
<1>1. n \in Nat /\ f[0] = <<>> /\ \A i \in 1 .. n : f[i] = f[i - 1] \o ss[i] /\ ss[i] \in Seq(S)
  BY SeqOfSeqsParts DEF JoinedUpTo
<1>2. CASE n = 0
  <2>1. ss = <<>>
    BY <1>2, SeqOfSeqsParts
  <2> QED
    BY <1>1, <1>2, <2>1 DEF FlattenSeq
<1>3. CASE n # 0
  <2>1. FlattenSeq(ss) = g[n]
    BY <1>3 DEF FlattenSeq
  <2>2. ASSUME NEW i \in 1 .. n PROVE r[i] = Rec(r, i)
    <3>1. CASE i = 1
      <4> HIDE DEF r, g, Rec, n
      <4>1. f[i] = f[i - 1] \o ss[i] /\ ss[i] \in Seq(S)
        BY <1>1
      <4>2. f[i - 1] = <<>>
        BY <1>1, <3>1
      <4>3. f[i] = ss[i]
        BY <4>1, <4>2
      <4> QED
        BY <3>1, <4>3 DEF r, Rec
    <3>2. CASE i # 1
      <4>1. i - 1 \in 1 .. n
        BY <1>1, <3>2
      <4> QED
        BY <1>1, <3>2, <4>1
    <3> QED
      BY <3>1, <3>2
  <2>3. r = [i \in 1 .. n |-> Rec(r, i)]
    <3> HIDE DEF Rec
    <3> QED
      BY <2>2
  <2>4. g = [i \in 1 .. n |-> Rec(g, i)]
    <3> HIDE DEF Rec, r
    <3> QED
      BY <2>3
  <2> HIDE DEF g
  <2> DEFINE T == {i \in 0 .. n : i = 0 \/ g[i] = r[i]}
  <2>5. 0 \in T
    BY <1>1
  <2>6. ASSUME NEW i \in 1 .. n, i - 1 \in T PROVE i \in T
    <3>1. i \in 0 .. n /\ i # 0
      BY <1>1
    <3>2. g[i] = Rec(g, i)
      <4> HIDE DEF Rec
      <4> QED
        BY <2>4
    <3>3. i # 1 => g[i - 1] = r[i - 1]
      <4> HIDE DEF g, r
      <4> QED
        BY <2>6, <1>1
    <3>4. g[i] = r[i]
      <4> HIDE DEF r
      <4> QED
        BY <2>2, <3>2, <3>3
    <3> HIDE DEF r
    <3> QED
      BY <3>1, <3>4
  <2> HIDE DEF T
  <2>7. 0 .. n \subseteq T
    BY <1>1, <2>5, <2>6, InductionUpTo
  <2>8. n \in 0 .. n /\ n \in 1 .. n
    BY <1>1, <1>3
  <2>9. g[n] = r[n]
    <3> HIDE DEF r, n
    <3> QED
      BY <1>3, <2>7, <2>8 DEF T
  <2> QED
    BY <2>1, <2>8, <2>9
<1> QED
  BY <1>2, <1>3

(* FlattenSeq holds what its sequences hold                                  *)
LEMMA FlattenHolds ==
  ASSUME NEW S, NEW ss, SeqOfSeqs(S, ss)
  PROVE  /\ FlattenSeq(ss) \in Seq(S)
         /\ ToSet(FlattenSeq(ss)) = UNION {ToSet(ss[k]) : k \in 1 .. Len(ss)}
<1> DEFINE n == Len(ss)
           InFront(i) == UNION {ToSet(ss[k]) : k \in 1 .. i}
<1>1. PICK f : JoinedUpTo(S, ss, f)
  BY JoinExists
<1>2. /\ f \in [0 .. n -> Seq(S)] /\ f[0] = <<>> /\ n \in Nat
      /\ \A i \in 1 .. n : f[i] = f[i - 1] \o ss[i] /\ ss[i] \in Seq(S)
  BY <1>1, SeqOfSeqsParts DEF JoinedUpTo
<1> DEFINE T == {i \in 0 .. n : ToSet(f[i]) = InFront(i)}
<1>3. 0 \in T
  BY <1>2, NoElement
<1>4. ASSUME NEW i \in 1 .. n, i - 1 \in T PROVE i \in T
  <2>1. i \in 0 .. n /\ i - 1 \in 0 .. n /\ f[i - 1] \in Seq(S)
    BY <1>2
  <2>2. ToSet(f[i]) = ToSet(f[i - 1]) \cup ToSet(ss[i])
    <3>1. f[i] = f[i - 1] \o ss[i] /\ ss[i] \in Seq(S)
      BY <1>2
    <3> QED
      BY <2>1, <3>1, ConcatHolds
  <2>3. InFront(i) = InFront(i - 1) \cup ToSet(ss[i])
    <3>1. \A k : k \in 1 .. i <=> k \in 1 .. i - 1 \/ k = i
      BY <1>2
    <3> QED
      BY <3>1
  <2> HIDE DEF InFront
  <2> QED
    BY <1>4, <2>1, <2>2, <2>3
<1> HIDE DEF T
<1>5. 0 .. n \subseteq T
  BY <1>2, <1>3, <1>4, InductionUpTo
<1>6. n \in T /\ n \in 0 .. n
  BY <1>2, <1>5
<1>7. FlattenSeq(ss) = f[n]
  BY <1>1, FlattenIsJoin
<1> QED
  BY <1>2, <1>6, <1>7 DEF T

-----------------------------------------------------------------------------
(* What a filter keeps                                                       *)

(* What Retain has kept of the first i items of s is f[i].                   *)
KeptUpTo(S, s, keep, f) ==
  /\ f \in [0 .. Len(s) -> Seq(S)]
  /\ f[0] = <<>>
  /\ \A i \in 1 .. Len(s) : f[i] = IF s[i] \in keep THEN Append(f[i - 1], s[i]) ELSE f[i - 1]

LEMMA RetainRecursion ==
  ASSUME NEW S, NEW s \in Seq(S), NEW keep
  PROVE  \E f : KeptUpTo(S, s, keep, f) /\ Retain(s, keep) = f[Len(s)]
<1> DEFINE n == Len(s)
           Rec(f, i) == IF i = 0 THEN <<>>
                        ELSE IF s[i] \in keep THEN Append(f[i - 1], s[i]) ELSE f[i - 1]
           step == [i \in 1 .. n |-> [x \in Seq(S) |-> IF s[i] \in keep THEN Append(x, s[i]) ELSE x]]
<1> DEFINE D == Seq(S)
<1>1. n \in Nat /\ <<>> \in D
  OBVIOUS
<1>2. step \in [1 .. n -> [Seq(S) -> Seq(S)]]
  OBVIOUS
<1> HIDE DEF n
<1>3. PICK f \in [0 .. n -> Seq(S)] : f[0] = <<>> /\ \A i \in 1 .. n : f[i] = step[i][f[i - 1]]
  <2> HIDE DEF step, D
  <2>1. step \in [1 .. n -> [D -> D]]
    BY <1>2 DEF D
  <2>2. \E f \in [0 .. n -> D] : f[0] = <<>> /\ \A i \in 1 .. n : f[i] = step[i][f[i - 1]]
    BY <1>1, <2>1, RecursionUpTo
  <2> QED
    BY <2>2 DEF D
<1>4. ASSUME NEW i \in 1 .. n PROVE f[i] = IF s[i] \in keep THEN Append(f[i - 1], s[i]) ELSE f[i - 1]
  <2>1. f[i - 1] \in Seq(S)
    BY <1>1
  <2> QED
    BY <1>3, <2>1
<1>5. f = [i \in 0 .. n |-> Rec(f, i)]
  <2>1. ASSUME NEW i \in 0 .. n PROVE f[i] = Rec(f, i)
    <3>1. CASE i = 0
      BY <1>3, <3>1
    <3>2. CASE i # 0
      <4>1. i \in 1 .. n
        BY <1>1, <3>2
      <4> QED
        BY <1>4, <3>2, <4>1
    <3> QED
      BY <3>1, <3>2
  <2> HIDE DEF Rec
  <2> QED
    BY <2>1
<1> DEFINE g == CHOOSE h : h = [i \in 0 .. n |-> Rec(h, i)]
<1>6. g = [i \in 0 .. n |-> Rec(g, i)]
  <2> HIDE DEF Rec
  <2> QED
    BY <1>5
<1>7. Retain(s, keep) = g[n]
  BY DEF Retain, n
<1> HIDE DEF g
<1>8. 0 .. n \subseteq {i \in 0 .. n : g[i] = f[i]}
  <2> DEFINE T == {i \in 0 .. n : g[i] = f[i]}
  <2>1. 0 \in T
    BY <1>1, <1>3, <1>6
  <2>2. ASSUME NEW i \in 1 .. n, i - 1 \in T PROVE i \in T
    <3>1. i \in 0 .. n /\ i # 0
      BY <1>1
    <3>2. g[i] = Rec(g, i)
      <4> HIDE DEF Rec
      <4> QED
        BY <1>6, <3>1
    <3>3. g[i - 1] = f[i - 1]
      BY <2>2
    <3> QED
      BY <1>4, <3>1, <3>2, <3>3
  <2> HIDE DEF T
  <2>3. 0 .. n \subseteq T
    BY <1>1, <2>1, <2>2, InductionUpTo
  <2> QED
    BY <2>3 DEF T
<1>9. g[n] = f[n]
  BY <1>1, <1>8
<1>10. KeptUpTo(S, s, keep, f)
  BY <1>3, <1>4 DEF n, KeptUpTo
<1> QED
  BY <1>7, <1>9, <1>10 DEF n

LEMMA RetainProperties ==
  ASSUME NEW S, NEW s \in Seq(S), NEW keep
  PROVE  /\ Retain(s, keep) \in Seq(S)
         /\ ToSet(Retain(s, keep)) = ToSet(s) \cap keep
         /\ IsInjective(s) => IsInjective(Retain(s, keep))
<1> DEFINE n == Len(s)
           InFront(i) == {s[k] : k \in 1 .. i}
<1>1. n \in Nat /\ DOMAIN s = 1 .. n
  OBVIOUS
<1>f. PICK f : KeptUpTo(S, s, keep, f) /\ Retain(s, keep) = f[Len(s)]
  BY RetainRecursion
<1>2. /\ f \in [0 .. n -> Seq(S)] /\ Retain(s, keep) = f[n] /\ f[0] = <<>>
      /\ \A i \in 1 .. n : f[i] = IF s[i] \in keep THEN Append(f[i - 1], s[i]) ELSE f[i - 1]
  BY <1>f DEF KeptUpTo
<1> DEFINE T == {i \in 0 .. n : /\ ToSet(f[i]) = InFront(i) \cap keep
                                /\ IsInjective(s) => IsInjective(f[i])}
<1>3. 0 \in T
  BY <1>1, <1>2, NoElement
<1>4. ASSUME NEW i \in 1 .. n, i - 1 \in T PROVE i \in T
  <2>1. /\ i \in 0 .. n /\ f[i - 1] \in Seq(S) /\ s[i] \in S
        /\ ToSet(f[i - 1]) = InFront(i - 1) \cap keep
        /\ IsInjective(s) => IsInjective(f[i - 1])
    <3>1. i \in 0 .. n /\ i - 1 \in 0 .. n /\ i \in 1 .. n
      BY <1>1
    <3>2. f[i - 1] \in Seq(S) /\ s[i] \in S
      BY <1>2, <3>1
    <3> HIDE DEF InFront
    <3>3. ToSet(f[i - 1]) = InFront(i - 1) \cap keep /\ (IsInjective(s) => IsInjective(f[i - 1]))
      BY <1>4, Zenon
    <3> QED
      BY <3>1, <3>2, <3>3
  <2>2. InFront(i) = InFront(i - 1) \cup {s[i]}
    <3>1. \A k : k \in 1 .. i <=> k \in 1 .. i - 1 \/ k = i
      BY <1>1
    <3> QED
      BY <3>1
  <2>3. IsInjective(s) => s[i] \notin InFront(i - 1)
    <3>1. \A k \in 1 .. i - 1 : k \in 1 .. n /\ k # i
      BY <1>1
    <3> QED
      BY <1>1, <3>1 DEF IsInjective
  <2>4. CASE s[i] \in keep
    <3>1. f[i] = Append(f[i - 1], s[i])
      BY <1>2, <2>4
    <3>2. ToSet(f[i]) = ToSet(f[i - 1]) \cup {s[i]}
      BY <2>1, <3>1, AppendHolds
    <3>3. IsInjective(s) => IsInjective(f[i])
      BY <2>1, <2>3, <3>1, AppendDistinct
    <3> HIDE DEF InFront
    <3> QED
      BY <2>1, <2>2, <2>4, <3>2, <3>3
  <2>5. CASE s[i] \notin keep
    <3>1. f[i] = f[i - 1]
      BY <1>2, <2>5
    <3> HIDE DEF InFront
    <3> QED
      BY <2>1, <2>2, <2>5, <3>1
  <2> QED
    BY <2>4, <2>5
<1> HIDE DEF T
<1>5. 0 .. n \subseteq T
  BY <1>1, <1>3, <1>4, InductionUpTo
<1>6. n \in T /\ InFront(n) = ToSet(s)
  BY <1>1, <1>5 DEF ToSet
<1> HIDE DEF InFront
<1> QED
  BY <1>1, <1>2, <1>6 DEF T

(* Two filters that keep the same places keep what goes together.            *)
LEMMA RetainTogether ==
  ASSUME NEW S, NEW T, NEW s \in Seq(S), NEW t \in Seq(T), NEW k, NEW l, NEW R, Len(s) = Len(t),
         \A i \in 1 .. Len(s) : <<s[i], t[i]>> \in R /\ (s[i] \in k <=> t[i] \in l)
  PROVE  /\ Len(Retain(s, k)) = Len(Retain(t, l))
         /\ \A i \in 1 .. Len(Retain(s, k)) : <<Retain(s, k)[i], Retain(t, l)[i]>> \in R
<1> DEFINE n == Len(s)
<1>1. n \in Nat
  OBVIOUS
<1>2. PICK f : KeptUpTo(S, s, k, f) /\ Retain(s, k) = f[Len(s)]
  BY RetainRecursion
<1>3. PICK g : KeptUpTo(T, t, l, g) /\ Retain(t, l) = g[Len(t)]
  BY RetainRecursion
<1>4. /\ f \in [0 .. n -> Seq(S)] /\ f[0] = <<>>
      /\ \A i \in 1 .. n : f[i] = IF s[i] \in k THEN Append(f[i - 1], s[i]) ELSE f[i - 1]
  BY <1>2 DEF KeptUpTo
<1>5. /\ g \in [0 .. n -> Seq(T)] /\ g[0] = <<>>
      /\ \A i \in 1 .. n : g[i] = IF t[i] \in l THEN Append(g[i - 1], t[i]) ELSE g[i - 1]
  BY <1>3 DEF KeptUpTo
<1> DEFINE Fit(x, y) == Len(x) = Len(y) /\ \A i \in 1 .. Len(x) : <<x[i], y[i]>> \in R
           M == {i \in 0 .. n : Fit(f[i], g[i])}
<1> HIDE DEF n
<1>6. 0 \in M
  <2>1. Fit(<<>>, <<>>)
    OBVIOUS
  <2> HIDE DEF Fit
  <2> QED
    BY <2>1, <1>1, <1>4, <1>5
<1>7. ASSUME NEW i \in 1 .. n, i - 1 \in M PROVE i \in M
  <2>1. i \in 0 .. n /\ i - 1 \in 0 .. n /\ Fit(f[i - 1], g[i - 1])
    BY <1>1, <1>7
  <2>2. PICK x \in Seq(S), y \in Seq(T), a \in S, b \in T :
          x = f[i - 1] /\ y = g[i - 1] /\ a = s[i] /\ b = t[i]
    <3>1. f[i - 1] \in Seq(S) /\ g[i - 1] \in Seq(T)
      BY <2>1, <1>4, <1>5
    <3>2. s[i] \in S /\ t[i] \in T
      BY DEF n
    <3> QED
      BY <3>1, <3>2
  <2>3. <<a, b>> \in R /\ (a \in k <=> b \in l)
    BY <2>2 DEF n
  <2>4. Fit(x, y)
    <3> HIDE DEF Fit
    <3> QED
      BY <2>1, <2>2
  <2>5. CASE a \in k
    <3>1. f[i] = Append(x, a) /\ g[i] = Append(y, b)
      BY <1>4, <1>5, <2>2, <2>3, <2>5
    <3>2. Fit(Append(x, a), Append(y, b))
      <4>1. /\ Len(Append(x, a)) = Len(x) + 1 /\ Append(x, a)[Len(x) + 1] = a
            /\ \A j \in 1 .. Len(x) : Append(x, a)[j] = x[j]
        BY AppendProperties
      <4>2. /\ Len(Append(y, b)) = Len(y) + 1 /\ Append(y, b)[Len(y) + 1] = b
            /\ \A j \in 1 .. Len(y) : Append(y, b)[j] = y[j]
        BY AppendProperties
      <4>3. Len(x) \in Nat /\ Len(y) = Len(x)
        BY <2>4
      <4>4. \A j \in 1 .. Len(x) + 1 : j \in 1 .. Len(x) \/ j = Len(x) + 1
        BY <4>3
      <4> QED
        BY <2>3, <2>4, <4>1, <4>2, <4>3, <4>4
    <3> HIDE DEF Fit
    <3> QED
      BY <2>1, <3>1, <3>2
  <2>6. CASE a \notin k
    <3>1. f[i] = x /\ g[i] = y
      BY <1>4, <1>5, <2>2, <2>3, <2>6
    <3> HIDE DEF Fit
    <3> QED
      BY <2>1, <2>4, <3>1
  <2> QED
    BY <2>5, <2>6
<1> HIDE DEF M
<1>8. 0 .. n \subseteq M
  BY <1>1, <1>6, <1>7, InductionUpTo
<1>9. n \in M
  BY <1>1, <1>8
<1>10. Fit(f[n], g[n])
  <2> HIDE DEF Fit
  <2> QED
    BY <1>9 DEF M
<1> QED
  BY <1>2, <1>3, <1>10 DEF n

(* A filter that lets everything through.                                    *)
LEMMA RetainAll ==
  ASSUME NEW S, NEW s \in Seq(S), NEW keep, ToSet(s) \subseteq keep
  PROVE  Retain(s, keep) = s
<1> DEFINE n == Len(s)
<1>1. n \in Nat /\ \A i \in 1 .. n : s[i] \in keep /\ s[i] \in S
  <2>1. \A i \in 1 .. Len(s) : s[i] \in ToSet(s)
    BY InToSet
  <2> QED
    BY <2>1
<1>2. PICK f : KeptUpTo(S, s, keep, f) /\ Retain(s, keep) = f[Len(s)]
  BY RetainRecursion
<1>3. f \in [0 .. n -> Seq(S)] /\ f[0] = <<>> /\ \A i \in 1 .. n : f[i] = Append(f[i - 1], s[i])
  BY <1>1, <1>2 DEF KeptUpTo
<1> DEFINE Fit(x, i) == Len(x) = i /\ \A j \in 1 .. i : x[j] = s[j]
           M == {i \in 0 .. n : Fit(f[i], i)}
<1> HIDE DEF n
<1>4. 0 \in M
  BY <1>1, <1>3
<1>5. ASSUME NEW i \in 1 .. n, i - 1 \in M PROVE i \in M
  <2>1. PICK x \in Seq(S), a \in S : x = f[i - 1] /\ a = s[i]
    <3>1. i - 1 \in 0 .. n
      BY <1>1
    <3> QED
      BY <1>1, <1>3, <3>1
  <2>2. Fit(x, i - 1)
    <3> HIDE DEF Fit
    <3> QED
      BY <1>5, <2>1
  <2>3. f[i] = Append(x, a)
    BY <1>3, <2>1
  <2>4. /\ Len(Append(x, a)) = Len(x) + 1 /\ Append(x, a)[Len(x) + 1] = a
        /\ \A j \in 1 .. Len(x) : Append(x, a)[j] = x[j]
    BY AppendProperties
  <2>5. Fit(Append(x, a), i)
    <3>1. \A j \in 1 .. i : j \in 1 .. i - 1 \/ j = i
      BY <1>1
    <3> QED
      BY <1>1, <2>1, <2>2, <2>4, <3>1
  <2>6. i \in 0 .. n
    BY <1>1
  <2> HIDE DEF Fit
  <2> QED
    BY <2>3, <2>5, <2>6
<1> HIDE DEF M
<1>6. 0 .. n \subseteq M
  BY <1>1, <1>4, <1>5, InductionUpTo
<1>7. n \in M
  BY <1>1, <1>6
<1>8. Fit(f[n], n) /\ f[n] \in Seq(S)
  <2>1. Fit(f[n], n)
    <3> HIDE DEF Fit
    <3> QED
      BY <1>7 DEF M
  <2> QED
    BY <1>1, <1>3, <2>1
<1> QED
  BY <1>2, <1>8, SeqEqual DEF n

(* A filter of all but one element takes out its place.                      *)
LEMMA RetainOthers ==
  ASSUME NEW S, NEW s \in Seq(S), NEW spot \in 1 .. Len(s), IsInjective(s)
  PROVE  Retain(s, ToSet(s) \ {s[spot]}) = RemoveAt(s, spot)
<1> DEFINE n == Len(s)
           keep == ToSet(s) \ {s[spot]}
<1>1. n \in Nat /\ spot \in 1 .. n /\ \A i \in 1 .. n : s[i] \in S /\ (s[i] \in keep <=> i # spot)
  <2>1. \A i \in 1 .. Len(s) : s[i] \in ToSet(s)
    BY InToSet
  <2>2. \A i \in 1 .. Len(s) : s[i] = s[spot] => i = spot
    BY DistinctPlaces
  <2> QED
    BY <2>1, <2>2
<1>2. PICK f : KeptUpTo(S, s, keep, f) /\ Retain(s, keep) = f[Len(s)]
  <2> HIDE DEF keep
  <2> QED
    BY RetainRecursion
<1> HIDE DEF keep
<1>3. f \in [0 .. n -> Seq(S)] /\ f[0] = <<>>
      /\ \A i \in 1 .. n : f[i] = IF i # spot THEN Append(f[i - 1], s[i]) ELSE f[i - 1]
  BY <1>1, <1>2 DEF KeptUpTo
<1> DEFINE Count(i) == IF i < spot THEN i ELSE i - 1
           Fit(x, i) == Len(x) = Count(i) /\ \A j \in 1 .. Count(i) : x[j] = IF j < spot THEN s[j] ELSE s[j + 1]
           M == {i \in 0 .. n : Fit(f[i], i)}
<1> HIDE DEF n
<1>4. 0 \in M
  BY <1>1, <1>3
<1>5. ASSUME NEW i \in 1 .. n, i - 1 \in M PROVE i \in M
  <2>1. PICK x \in Seq(S), a \in S : x = f[i - 1] /\ a = s[i]
    <3>1. i - 1 \in 0 .. n
      BY <1>1
    <3> QED
      BY <1>1, <1>3, <3>1
  <2>2. Fit(x, i - 1)
    <3> HIDE DEF Fit
    <3> QED
      BY <1>5, <2>1
  <2>3. CASE i = spot
    <3>1. f[i] = x
      BY <1>3, <2>1, <2>3
    <3>2. Fit(x, i)
      BY <1>1, <2>2, <2>3
    <3>3. i \in 0 .. n
      BY <1>1
    <3> HIDE DEF Fit
    <3> QED
      BY <3>1, <3>2, <3>3
  <2>4. CASE i # spot
    <3>1. f[i] = Append(x, a)
      BY <1>3, <2>1, <2>4
    <3>2. /\ Len(Append(x, a)) = Len(x) + 1 /\ Append(x, a)[Len(x) + 1] = a
          /\ \A j \in 1 .. Len(x) : Append(x, a)[j] = x[j]
      BY AppendProperties
    <3>3. Count(i) = Count(i - 1) + 1 /\ Len(x) = Count(i - 1) /\ Len(x) \in Nat
      BY <1>1, <2>2, <2>4
    <3>4. a = IF Count(i) < spot THEN s[Count(i)] ELSE s[Count(i) + 1]
      BY <1>1, <2>1, <2>4
    <3>5. Fit(Append(x, a), i)
      <4>1. \A j \in 1 .. Count(i) : j \in 1 .. Count(i - 1) \/ j = Count(i)
        BY <1>1, <3>3
      <4> HIDE DEF Count
      <4> QED
        BY <2>2, <3>2, <3>3, <3>4, <4>1
    <3>6. i \in 0 .. n
      BY <1>1
    <3> HIDE DEF Fit
    <3> QED
      BY <3>1, <3>5, <3>6
  <2> QED
    BY <2>3, <2>4
<1> HIDE DEF M
<1>6. 0 .. n \subseteq M
  BY <1>1, <1>4, <1>5, InductionUpTo
<1>7. n \in M
  BY <1>1, <1>6
<1>8. Fit(f[n], n) /\ f[n] \in Seq(S)
  <2>1. Fit(f[n], n)
    <3> HIDE DEF Fit
    <3> QED
      BY <1>7 DEF M
  <2> QED
    BY <1>1, <1>3, <2>1
<1>9. /\ RemoveAt(s, spot) \in Seq(S) /\ Len(RemoveAt(s, spot)) = n - 1
      /\ \A j \in 1 .. n - 1 : RemoveAt(s, spot)[j] = IF j < spot THEN s[j] ELSE s[j + 1]
  BY RemoveAtProperties DEF n
<1>10. f[n] = RemoveAt(s, spot)
  <2>1. Count(n) = n - 1
    BY <1>1
  <2>2. Len(f[n]) = n - 1 /\ \A j \in 1 .. n - 1 : f[n][j] = RemoveAt(s, spot)[j]
    BY <1>8, <1>9, <2>1
  <2> QED
    BY <1>8, <1>9, <2>2, SeqEqual
<1> QED
  BY <1>2, <1>10 DEF n, keep
=============================================================================
