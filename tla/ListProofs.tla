----------------------------- MODULE ListProofs -----------------------------
(***************************************************************************)
(* Facts about filtered lists, for every list.  Each is an induction over  *)
(* the length: SetInduction is the induction on natural numbers for a set, *)
(* which the provers can instantiate where they cannot a predicate.  At    *)
(* the end, what recursive functions and sets of numbers need in general.  *)
(***************************************************************************)
EXTENDS Lists, SequencesExt, NaturalsInduction, WellFoundedInduction,
        SequenceTheorems, TLAPS

LEMMA SetInduction ==
  ASSUME NEW T, 0 \in T, \A n \in Nat : n \in T => n + 1 \in T
  PROVE  \A n \in Nat : n \in T
<1> SUFFICES ASSUME NEW m \in Nat, m \notin T
             PROVE  FALSE
  OBVIOUS
<1> DEFINE Out == {n \in Nat : n \notin T}
<1>1. Out \subseteq Nat /\ Out # {}
  OBVIOUS
<1>2. PICK x \in Out : \A y \in Out : ~(<<y, x>> \in OpToRel(<, Nat))
  BY <1>1, NatLessThanWellFounded, WFMin, Zenon
<1>3. \A y \in Out : ~(y < x)
  BY <1>1, <1>2 DEF OpToRel
<1> HIDE <1>2
<1>4. x \in Nat /\ x # 0
  OBVIOUS
<1>5. x - 1 \in Nat /\ x - 1 < x /\ (x - 1) + 1 = x
  BY <1>4
<1>6. x - 1 \in T
  BY <1>3, <1>5
<1>7. QED
  BY <1>5, <1>6

-----------------------------------------------------------------------------
(* One step of the filter, from what the prefix before it left.            *)
KeptNext(list, K, f, n) ==
  IF n = 0 THEN <<>>
  ELSE IF list[n] \in K THEN Append(f[n - 1], list[n])
  ELSE f[n - 1]

(* The recursive function exists: it grows by one prefix at a time.        *)
LEMMA KeptExists ==
  ASSUME NEW list, NEW K, NEW m \in Nat
  PROVE  \E f : f = [n \in 0..m |-> KeptNext(list, K, f, n)]
<1> DEFINE Unfolds(f, k) == f = [n \in 0..k |-> KeptNext(list, K, f, n)]
           T == {k \in Nat : \E f : Unfolds(f, k)}
<1>1. 0 \in T
  <2> DEFINE f == [n \in 0..0 |-> <<>>]
  <2>1. Unfolds(f, 0)
    BY DEF KeptNext
  <2>2. QED
    BY <2>1
<1>2. ASSUME NEW k \in Nat, k \in T
      PROVE  k + 1 \in T
  <2>1. PICK f : Unfolds(f, k)
    BY <1>2
  <2> DEFINE last == KeptNext(list, K, f, k + 1)
             g == [n \in 0..(k + 1) |-> IF n = k + 1 THEN last ELSE f[n]]
  <2> HIDE DEF last
  <2>2. /\ g[k + 1] = last
        /\ \A n \in 0..k : g[n] = f[n]
    OBVIOUS
  <2>3. ASSUME NEW n \in 0..(k + 1)
        PROVE  g[n] = KeptNext(list, K, g, n)
    <3>1. CASE n = k + 1
      <4>1. n # 0 /\ n - 1 = k /\ k \in 0..k
        BY <3>1
      <4>2. QED
        BY <2>2, <3>1, <4>1 DEF last, KeptNext
    <3>2. CASE n # k + 1 /\ n # 0
      <4>1. n \in 0..k /\ n - 1 \in 0..k
        BY <3>2
      <4>2. f[n] = KeptNext(list, K, f, n)
        BY <2>1, <3>2, <4>1
      <4>3. QED
        BY <2>2, <3>2, <4>1, <4>2 DEF KeptNext
    <3>3. CASE n = 0
      <4>1. n \in 0..k /\ f[0] = <<>>
        BY <2>1, <3>3 DEF KeptNext
      <4>2. QED
        BY <2>2, <3>3, <4>1 DEF KeptNext
    <3>4. QED
      BY <3>1, <3>2, <3>3
  <2>4. g = [n \in 0..(k + 1) |-> g[n]]
    OBVIOUS
  <2> HIDE DEF g
  <2>5. Unfolds(g, k + 1)
    <3>1. [n \in 0..(k + 1) |-> g[n]] = [n \in 0..(k + 1) |-> KeptNext(list, K, g, n)]
      BY <2>3
    <3>2. QED
      BY <2>4, <3>1
  <2>6. QED
    BY <2>5
<1> HIDE DEF T
<1>3. m \in T
  BY <1>1, <1>2, SetInduction
<1>4. QED
  BY <1>3 DEF T

(* What the definition says of one prefix and the next.                    *)
LEMMA KeptUnfolds ==
  ASSUME NEW list, NEW K, Len(list) \in Nat
  PROVE  /\ KeptOfPrefix(list, K)[0] = <<>>
         /\ \A n \in 1..Len(list) :
              KeptOfPrefix(list, K)[n] =
                IF list[n] \in K THEN Append(KeptOfPrefix(list, K)[n - 1], list[n])
                ELSE KeptOfPrefix(list, K)[n - 1]
<1> DEFINE kept == KeptOfPrefix(list, K)
           Unfolds(f) == f = [n \in 0..Len(list) |-> KeptNext(list, K, f, n)]
<1>1. kept = CHOOSE f : Unfolds(f)
  BY DEF KeptOfPrefix, KeptNext
<1>2. \E f : Unfolds(f)
  BY KeptExists
<1> HIDE DEF kept
<1>3. Unfolds(kept)
  <2> HIDE DEF Unfolds
  <2>1. QED
    BY <1>1, <1>2, Zenon
<1>4. \A n \in 0..Len(list) : kept[n] = KeptNext(list, K, kept, n)
  BY <1>3
<1> HIDE DEF Unfolds
<1>5. kept[0] = <<>>
  BY <1>4 DEF KeptNext
<1>6. ASSUME NEW n \in 1..Len(list)
      PROVE  kept[n] = IF list[n] \in K THEN Append(kept[n - 1], list[n])
                       ELSE kept[n - 1]
  BY <1>4 DEF KeptNext
<1>7. QED
  BY <1>5, <1>6 DEF kept

-----------------------------------------------------------------------------
(* Induction on sequences that grow at their end.                          *)
LEMMA SeqInduction ==
  ASSUME NEW S, NEW T, <<>> \in T,
         \A s \in Seq(S), x \in S : s \in T => Append(s, x) \in T
  PROVE  \A s \in Seq(S) : s \in T
<1> DEFINE N == {n \in Nat : \A s \in Seq(S) : Len(s) = n => s \in T}
<1>1. 0 \in N
  OBVIOUS
<1>2. ASSUME NEW n \in Nat, n \in N
      PROVE  n + 1 \in N
  <2> SUFFICES ASSUME NEW s \in Seq(S), Len(s) = n + 1
               PROVE  s \in T
    OBVIOUS
  <2>1. s # <<>>
    OBVIOUS
  <2>2. PICK t \in Seq(S), x \in S : s = Append(t, x)
    BY <2>1, SequenceEmptyOrAppend
  <2>3. Len(t) = n
    BY <2>2
  <2>4. t \in T
    BY <1>2, <2>3
  <2>5. QED
    BY <2>2, <2>4
<1> HIDE DEF N
<1>3. \A n \in Nat : n \in N
  BY <1>1, <1>2, SetInduction
<1>4. QED
  BY <1>3 DEF N

-----------------------------------------------------------------------------
(* The three equations of a filter.                                        *)
LEMMA KeepingNothing ==
  ASSUME NEW K
  PROVE  Keeping(<<>>, K) = <<>>
BY KeptUnfolds DEF Keeping

LEMMA KeptLocal ==
  ASSUME NEW S, NEW s \in Seq(S), NEW x \in S, NEW K, NEW n \in 0..Len(s)
  PROVE  KeptOfPrefix(Append(s, x), K)[n] = KeptOfPrefix(s, K)[n]
<1> DEFINE t == Append(s, x)
           a == KeptOfPrefix(t, K)
           b == KeptOfPrefix(s, K)
           T == {m \in Nat : m \in 0..Len(s) => a[m] = b[m]}
<1>1. /\ Len(s) \in Nat /\ Len(t) = Len(s) + 1
      /\ \A k \in 1..Len(s) : t[k] = s[k]
  OBVIOUS
<1> HIDE DEF t
<1>2. /\ a[0] = <<>>
      /\ \A k \in 1..Len(s) : a[k] = IF t[k] \in K THEN Append(a[k - 1], t[k]) ELSE a[k - 1]
  <2>1. Len(t) \in Nat /\ \A k \in 1..Len(s) : k \in 1..Len(t)
    BY <1>1
  <2>2. QED
    BY <2>1, KeptUnfolds
<1>3. /\ b[0] = <<>>
      /\ \A k \in 1..Len(s) : b[k] = IF s[k] \in K THEN Append(b[k - 1], s[k]) ELSE b[k - 1]
  BY <1>1, KeptUnfolds
<1> HIDE DEF a, b
<1>4. 0 \in T
  BY <1>2, <1>3
<1>5. ASSUME NEW m \in Nat, m \in T
      PROVE  m + 1 \in T
  <2> SUFFICES ASSUME m + 1 \in 0..Len(s)
               PROVE  a[m + 1] = b[m + 1]
    OBVIOUS
  <2>1. m + 1 \in 1..Len(s) /\ (m + 1) - 1 = m /\ m \in 0..Len(s)
    OBVIOUS
  <2>2. a[m] = b[m]
    BY <1>5, <2>1
  <2>3. QED
    BY <1>1, <1>2, <1>3, <2>1, <2>2
<1> HIDE DEF T
<1>6. n \in T
  BY <1>4, <1>5, SetInduction
<1>7. QED
  BY <1>6 DEF T, a, b, t

LEMMA KeepingAppend ==
  ASSUME NEW S, NEW s \in Seq(S), NEW x \in S, NEW K
  PROVE  Keeping(Append(s, x), K) =
           IF x \in K THEN Append(Keeping(s, K), x) ELSE Keeping(s, K)
<1> DEFINE t == Append(s, x)
<1>1. /\ Len(s) \in Nat /\ Len(t) = Len(s) + 1
      /\ t[Len(s) + 1] = x /\ (Len(s) + 1) - 1 = Len(s)
      /\ Len(s) + 1 \in 1..(Len(s) + 1) /\ Len(s) \in 0..Len(s)
  OBVIOUS
<1>2. KeptOfPrefix(t, K)[Len(s)] = KeptOfPrefix(s, K)[Len(s)]
  BY <1>1, KeptLocal
<1> HIDE DEF t
<1>3. Keeping(t, K) = KeptOfPrefix(t, K)[Len(s) + 1]
  BY <1>1 DEF Keeping
<1>4. KeptOfPrefix(t, K)[Len(s) + 1] =
        IF x \in K THEN Append(KeptOfPrefix(t, K)[Len(s)], x)
        ELSE KeptOfPrefix(t, K)[Len(s)]
  <2>1. Len(t) \in Nat /\ Len(s) + 1 \in 1..Len(t)
    BY <1>1
  <2>2. QED
    BY <1>1, <2>1, KeptUnfolds
<1>5. QED
  BY <1>2, <1>3, <1>4 DEF Keeping, t

(* What a filter leaves are the list's own elements, those of the set.     *)
LEMMA KeepingType ==
  ASSUME NEW S, NEW s \in Seq(S), NEW K
  PROVE  Keeping(s, K) \in Seq(S \cap K)
<1> DEFINE T == {t \in Seq(S) : Keeping(t, K) \in Seq(S \cap K)}
<1>1. <<>> \in T
  <2>1. Keeping(<<>>, K) = <<>>
    BY KeepingNothing
  <2>2. <<>> \in Seq(S \cap K) /\ <<>> \in Seq(S)
    OBVIOUS
  <2>3. QED
    BY <2>1, <2>2
<1>2. ASSUME NEW t \in Seq(S), NEW x \in S, t \in T
      PROVE  Append(t, x) \in T
  <2>1. Keeping(t, K) \in Seq(S \cap K) /\ Append(t, x) \in Seq(S)
    BY <1>2
  <2>2. Keeping(Append(t, x), K) =
          IF x \in K THEN Append(Keeping(t, K), x) ELSE Keeping(t, K)
    BY KeepingAppend
  <2>3. Keeping(Append(t, x), K) \in Seq(S \cap K)
    <3>1. CASE x \in K
      <4>1. x \in S \cap K
        BY <3>1
      <4>2. QED
        BY <2>1, <2>2, <3>1, <4>1, AppendProperties
    <3>2. CASE x \notin K
      BY <2>1, <2>2, <3>2
    <3>3. QED
      BY <3>1, <3>2
  <2>4. QED
    BY <2>1, <2>3
<1> HIDE DEF T
<1>3. s \in T
  BY <1>1, <1>2, SeqInduction
<1>4. QED
  BY <1>3 DEF T

LEMMA ToSetAppend ==
  ASSUME NEW S, NEW s \in Seq(S), NEW x \in S
  PROVE  ToSet(Append(s, x)) = ToSet(s) \cup {x}
<1> DEFINE t == Append(s, x)
<1>1. /\ Len(s) \in Nat /\ DOMAIN s = 1..Len(s) /\ DOMAIN t = 1..(Len(s) + 1)
      /\ t[Len(s) + 1] = x /\ \A k \in 1..Len(s) : t[k] = s[k]
  OBVIOUS
<1> HIDE DEF t
<1>2. ASSUME NEW e \in ToSet(t)
      PROVE  e \in ToSet(s) \cup {x}
  <2>1. PICK k \in DOMAIN t : e = t[k]
    BY DEF ToSet
  <2>2. CASE k = Len(s) + 1
    BY <1>1, <2>1, <2>2
  <2>3. CASE k # Len(s) + 1
    <3>1. k \in DOMAIN s
      BY <1>1, <2>3
    <3>2. QED
      BY <1>1, <2>1, <3>1 DEF ToSet
  <2>4. QED
    BY <2>2, <2>3
<1>3. ASSUME NEW e \in ToSet(s)
      PROVE  e \in ToSet(t)
  <2>1. PICK k \in DOMAIN s : e = s[k]
    BY DEF ToSet
  <2>2. k \in DOMAIN t /\ t[k] = e
    BY <1>1, <2>1
  <2>3. QED
    BY <2>2 DEF ToSet
<1>4. x \in ToSet(t)
  <2>1. Len(s) + 1 \in DOMAIN t
    BY <1>1
  <2>2. QED
    BY <1>1, <2>1 DEF ToSet
<1>5. QED
  BY <1>2, <1>3, <1>4 DEF t

LEMMA ToSetKeeping ==
  ASSUME NEW S, NEW s \in Seq(S), NEW K
  PROVE  ToSet(Keeping(s, K)) = ToSet(s) \cap K
<1> DEFINE T == {t \in Seq(S) : ToSet(Keeping(t, K)) = ToSet(t) \cap K}
<1>1. <<>> \in T
  BY KeepingNothing DEF ToSet
<1>2. ASSUME NEW t \in Seq(S), NEW x \in S, t \in T
      PROVE  Append(t, x) \in T
  <2>1. ToSet(Keeping(t, K)) = ToSet(t) \cap K /\ Append(t, x) \in Seq(S)
    BY <1>2
  <2>2. Keeping(Append(t, x), K) =
          IF x \in K THEN Append(Keeping(t, K), x) ELSE Keeping(t, K)
    BY KeepingAppend
  <2>3. ToSet(Append(t, x)) = ToSet(t) \cup {x}
    BY ToSetAppend
  <2>4. ToSet(Keeping(Append(t, x), K)) = ToSet(Append(t, x)) \cap K
    <3>1. CASE x \in K
      <4>1. Keeping(t, K) \in Seq(S \cap K) /\ x \in S \cap K
        BY <3>1, KeepingType
      <4>2. ToSet(Append(Keeping(t, K), x)) = ToSet(Keeping(t, K)) \cup {x}
        BY <4>1, ToSetAppend
      <4>3. QED
        BY <2>1, <2>2, <2>3, <3>1, <4>2
    <3>2. CASE x \notin K
      BY <2>1, <2>2, <2>3, <3>2
    <3>3. QED
      BY <3>1, <3>2
  <2>5. QED
    BY <2>1, <2>4
<1> HIDE DEF T
<1>3. s \in T
  BY <1>1, <1>2, SeqInduction
<1>4. QED
  BY <1>3 DEF T

(* A list to which no element of its own is appended stays without twins.  *)
LEMMA InjectiveAppend ==
  ASSUME NEW S, NEW s \in Seq(S), NEW x \in S
  PROVE  IsInjective(Append(s, x)) <=> IsInjective(s) /\ x \notin ToSet(s)
<1> DEFINE t == Append(s, x)
<1>1. /\ Len(s) \in Nat /\ DOMAIN s = 1..Len(s) /\ DOMAIN t = 1..(Len(s) + 1)
      /\ t[Len(s) + 1] = x /\ \A k \in 1..Len(s) : t[k] = s[k]
      /\ Len(s) + 1 \in DOMAIN t /\ \A k \in 1..Len(s) : k \in DOMAIN t
  OBVIOUS
<1> HIDE DEF t
<1>2. ASSUME IsInjective(t)
      PROVE  IsInjective(s) /\ x \notin ToSet(s)
  <2>1. \A j, k \in DOMAIN t : t[j] = t[k] => j = k
    BY <1>2 DEF IsInjective
  <2>2. ASSUME NEW j \in DOMAIN s, NEW k \in DOMAIN s, s[j] = s[k]
        PROVE  j = k
    BY <1>1, <2>1, <2>2
  <2>3. ASSUME NEW j \in DOMAIN s PROVE s[j] # x
    <3>1. j \in DOMAIN t /\ t[j] = s[j] /\ j # Len(s) + 1
      BY <1>1
    <3>2. QED
      BY <1>1, <2>1, <3>1
  <2>4. QED
    BY <2>2, <2>3 DEF IsInjective, ToSet
<1>3. ASSUME IsInjective(s), x \notin ToSet(s)
      PROVE  IsInjective(t)
  <2>1. \A k \in DOMAIN s : s[k] # x
    BY <1>3 DEF ToSet
  <2>2. \A j, k \in DOMAIN s : s[j] = s[k] => j = k
    BY <1>3 DEF IsInjective
  <2>3. \A k \in DOMAIN t : k # Len(s) + 1 => k \in DOMAIN s
    BY <1>1
  <2>4. ASSUME NEW j \in DOMAIN t, NEW k \in DOMAIN t, t[j] = t[k]
        PROVE  j = k
    BY <1>1, <2>1, <2>2, <2>3, <2>4
  <2>5. QED
    BY <2>4 DEF IsInjective
<1>4. QED
  BY <1>2, <1>3 DEF t

LEMMA KeepingInjective ==
  ASSUME NEW S, NEW s \in Seq(S), NEW K, IsInjective(s)
  PROVE  IsInjective(Keeping(s, K))
<1> DEFINE T == {t \in Seq(S) : IsInjective(t) => IsInjective(Keeping(t, K))}
<1>1. <<>> \in T
  BY KeepingNothing DEF IsInjective
<1>2. ASSUME NEW t \in Seq(S), NEW x \in S, t \in T
      PROVE  Append(t, x) \in T
  <2>0. Append(t, x) \in Seq(S)
    OBVIOUS
  <2> SUFFICES ASSUME IsInjective(Append(t, x))
               PROVE  IsInjective(Keeping(Append(t, x), K))
    BY <2>0
  <2>1. IsInjective(t) /\ x \notin ToSet(t)
    BY InjectiveAppend
  <2>2. IsInjective(Keeping(t, K))
    BY <1>2, <2>1
  <2>3. Keeping(Append(t, x), K) =
          IF x \in K THEN Append(Keeping(t, K), x) ELSE Keeping(t, K)
    BY KeepingAppend
  <2>4. CASE x \in K
    <3>1. Keeping(t, K) \in Seq(S \cap K) /\ x \in S \cap K
      BY <2>4, KeepingType
    <3>2. x \notin ToSet(Keeping(t, K))
      BY <2>1, ToSetKeeping
    <3>3. IsInjective(Append(Keeping(t, K), x))
      BY <2>2, <3>1, <3>2, InjectiveAppend
    <3>4. QED
      BY <2>3, <2>4, <3>3
  <2>5. CASE x \notin K
    BY <2>2, <2>3, <2>5
  <2>6. QED
    BY <2>4, <2>5
<1> HIDE DEF T
<1>3. s \in T
  BY <1>1, <1>2, SeqInduction
<1>4. QED
  BY <1>3 DEF T

(* A filter that nothing fails changes nothing.                            *)
LEMMA KeepingAll ==
  ASSUME NEW S, NEW s \in Seq(S), NEW K, ToSet(s) \subseteq K
  PROVE  Keeping(s, K) = s
<1> DEFINE T == {t \in Seq(S) : ToSet(t) \subseteq K => Keeping(t, K) = t}
<1>1. <<>> \in T
  BY KeepingNothing
<1>2. ASSUME NEW t \in Seq(S), NEW x \in S, t \in T
      PROVE  Append(t, x) \in T
  <2>0. Append(t, x) \in Seq(S)
    OBVIOUS
  <2> SUFFICES ASSUME ToSet(Append(t, x)) \subseteq K
               PROVE  Keeping(Append(t, x), K) = Append(t, x)
    BY <2>0
  <2>1. ToSet(t) \subseteq K /\ x \in K
    BY ToSetAppend
  <2>2. Keeping(t, K) = t
    BY <1>2, <2>1
  <2>3. QED
    BY <2>1, <2>2, KeepingAppend
<1> HIDE DEF T
<1>3. s \in T
  BY <1>1, <1>2, SeqInduction
<1>4. QED
  BY <1>3 DEF T

(* Filtering two lists one after the other.                                *)
LEMMA KeepingConcat ==
  ASSUME NEW S, NEW s \in Seq(S), NEW r \in Seq(S), NEW K
  PROVE  Keeping(r \o s, K) = Keeping(r, K) \o Keeping(s, K)
<1> DEFINE T == {t \in Seq(S) : Keeping(r \o t, K) = Keeping(r, K) \o Keeping(t, K)}
<1>0. Keeping(r, K) \in Seq(S \cap K)
  BY KeepingType
<1>1. <<>> \in T
  <2>1. r \o <<>> = r /\ Keeping(r, K) \o <<>> = Keeping(r, K)
    BY <1>0, ConcatEmptySeq
  <2>2. Keeping(<<>>, K) = <<>> /\ <<>> \in Seq(S)
    BY KeepingNothing
  <2>3. QED
    BY <2>1, <2>2
<1>2. ASSUME NEW t \in Seq(S), NEW x \in S, t \in T
      PROVE  Append(t, x) \in T
  <2>1. Keeping(r \o t, K) = Keeping(r, K) \o Keeping(t, K) /\ Append(t, x) \in Seq(S)
    BY <1>2
  <2>2. r \o Append(t, x) = Append(r \o t, x) /\ r \o t \in Seq(S)
    OBVIOUS
  <2>3. /\ Keeping(Append(t, x), K) =
             IF x \in K THEN Append(Keeping(t, K), x) ELSE Keeping(t, K)
        /\ Keeping(Append(r \o t, x), K) =
             IF x \in K THEN Append(Keeping(r \o t, K), x) ELSE Keeping(r \o t, K)
    BY <2>2, KeepingAppend
  <2>4. Keeping(t, K) \in Seq(S \cap K)
    BY KeepingType
  <2>5. x \in K => Keeping(r, K) \o Append(Keeping(t, K), x) =
                   Append(Keeping(r, K) \o Keeping(t, K), x)
    <3> DEFINE a == Keeping(r, K)
               b == Keeping(t, K)
    <3>1. a \in Seq(S \cap K) /\ b \in Seq(S \cap K)
      BY <1>0, <2>4
    <3> HIDE DEF a, b
    <3>2. ASSUME x \in K PROVE a \o Append(b, x) = Append(a \o b, x)
      BY <3>1, <3>2
    <3>3. QED
      BY <3>2 DEF a, b
  <2>6. Keeping(r \o Append(t, x), K) = Keeping(r, K) \o Keeping(Append(t, x), K)
    BY <2>1, <2>2, <2>3, <2>5
  <2>7. QED
    BY <2>1, <2>6
<1> HIDE DEF T
<1>3. s \in T
  BY <1>1, <1>2, SeqInduction
<1>4. QED
  BY <1>3 DEF T

(* A relation between each element of a list and the later ones.           *)
Ordered(s, R) == \A j, k \in DOMAIN s : j < k => <<s[j], s[k]>> \in R

LEMMA OrderedAppend ==
  ASSUME NEW S, NEW s \in Seq(S), NEW x \in S, NEW R
  PROVE  Ordered(Append(s, x), R) <=>
           Ordered(s, R) /\ \A e \in ToSet(s) : <<e, x>> \in R
<1> DEFINE t == Append(s, x)
<1>1. /\ Len(s) \in Nat /\ DOMAIN s = 1..Len(s) /\ DOMAIN t = 1..(Len(s) + 1)
      /\ t[Len(s) + 1] = x /\ \A k \in 1..Len(s) : t[k] = s[k]
      /\ Len(s) + 1 \in DOMAIN t /\ \A k \in 1..Len(s) : k \in DOMAIN t
  OBVIOUS
<1> HIDE DEF t
<1>2. ASSUME Ordered(t, R)
      PROVE  Ordered(s, R) /\ \A e \in ToSet(s) : <<e, x>> \in R
  <2>1. \A j, k \in DOMAIN t : j < k => <<t[j], t[k]>> \in R
    BY <1>2 DEF Ordered
  <2>2. ASSUME NEW j \in DOMAIN s, NEW k \in DOMAIN s, j < k
        PROVE  <<s[j], s[k]>> \in R
    <3>1. j \in DOMAIN t /\ k \in DOMAIN t /\ t[j] = s[j] /\ t[k] = s[k]
      BY <1>1
    <3>2. QED
      BY <2>1, <2>2, <3>1
  <2>3. ASSUME NEW j \in DOMAIN s PROVE <<s[j], x>> \in R
    <3>1. j \in DOMAIN t /\ t[j] = s[j] /\ j < Len(s) + 1
      BY <1>1
    <3>2. QED
      BY <1>1, <2>1, <3>1
  <2>4. QED
    BY <2>2, <2>3 DEF Ordered, ToSet
<1>3. ASSUME Ordered(s, R), \A e \in ToSet(s) : <<e, x>> \in R
      PROVE  Ordered(t, R)
  <2>1. \A k \in DOMAIN s : <<s[k], x>> \in R
    BY <1>3 DEF ToSet
  <2>2. ASSUME NEW j \in DOMAIN t, NEW k \in DOMAIN t, j < k
        PROVE  <<t[j], t[k]>> \in R
    <3>1. j \in DOMAIN s /\ t[j] = s[j]
      BY <1>1, <2>2
    <3>2. CASE k = Len(s) + 1
      BY <1>1, <2>1, <3>1, <3>2
    <3>3. CASE k # Len(s) + 1
      <4>1. k \in DOMAIN s /\ t[k] = s[k]
        BY <1>1, <3>3
      <4>2. QED
        BY <1>3, <2>2, <3>1, <4>1 DEF Ordered
    <3>4. QED
      BY <3>2, <3>3
  <2>3. QED
    BY <2>2 DEF Ordered
<1>4. QED
  BY <1>2, <1>3 DEF t

(* A filter keeps the order.                                               *)
LEMMA KeepingOrdered ==
  ASSUME NEW S, NEW s \in Seq(S), NEW K, NEW R, Ordered(s, R)
  PROVE  Ordered(Keeping(s, K), R)
<1> DEFINE T == {t \in Seq(S) : Ordered(t, R) => Ordered(Keeping(t, K), R)}
<1>1. <<>> \in T
  <2>1. Keeping(<<>>, K) = <<>> /\ <<>> \in Seq(S)
    BY KeepingNothing
  <2>2. QED
    BY <2>1
<1>2. ASSUME NEW t \in Seq(S), NEW x \in S, t \in T
      PROVE  Append(t, x) \in T
  <2>0. Append(t, x) \in Seq(S)
    OBVIOUS
  <2> SUFFICES ASSUME Ordered(Append(t, x), R)
               PROVE  Ordered(Keeping(Append(t, x), K), R)
    BY <2>0
  <2>1. Ordered(t, R) /\ \A e \in ToSet(t) : <<e, x>> \in R
    BY OrderedAppend
  <2>2. Ordered(Keeping(t, K), R)
    BY <1>2, <2>1
  <2>3. Keeping(Append(t, x), K) =
          IF x \in K THEN Append(Keeping(t, K), x) ELSE Keeping(t, K)
    BY KeepingAppend
  <2>4. CASE x \in K
    <3>1. Keeping(t, K) \in Seq(S \cap K) /\ x \in S \cap K
      BY <2>4, KeepingType
    <3>2. \A e \in ToSet(Keeping(t, K)) : <<e, x>> \in R
      BY <2>1, ToSetKeeping
    <3>3. Ordered(Append(Keeping(t, K), x), R)
      BY <2>2, <3>1, <3>2, OrderedAppend
    <3>4. QED
      BY <2>3, <2>4, <3>3
  <2>5. CASE x \notin K
    BY <2>2, <2>3, <2>5
  <2>6. QED
    BY <2>4, <2>5
<1> HIDE DEF T
<1>3. s \in T
  BY <1>1, <1>2, SeqInduction
<1>4. QED
  BY <1>3 DEF T

(* The elements of two lists, one after the other.                         *)
LEMMA ToSetConcat ==
  ASSUME NEW S, NEW s \in Seq(S), NEW t \in Seq(S)
  PROVE  ToSet(s \o t) = ToSet(s) \cup ToSet(t)
<1>1. Range(s \o t) = Range(s) \cup Range(t)
  BY RangeConcatenation
<1>2. \A f : ToSet(f) = Range(f)
  BY DEF ToSet, Range
<1>3. QED
  BY <1>1, <1>2

(* A filter that everything fails leaves nothing.                          *)
LEMMA KeepingNone ==
  ASSUME NEW S, NEW s \in Seq(S), NEW K, ToSet(s) \cap K = {}
  PROVE  Keeping(s, K) = <<>>
<1> DEFINE t == Keeping(s, K)
<1>1. t \in Seq(S \cap K) /\ ToSet(t) = {}
  BY KeepingType, ToSetKeeping
<1> HIDE DEF t
<1>2. Len(t) \in Nat /\ DOMAIN t = 1..Len(t) /\ (t # <<>> => Len(t) # 0)
  BY <1>1
<1>3. ASSUME t # <<>> PROVE FALSE
  <2>1. 1 \in DOMAIN t
    BY <1>2, <1>3
  <2>2. t[1] \in ToSet(t)
    BY <2>1 DEF ToSet
  <2>3. QED
    BY <1>1, <2>2
<1>4. QED
  BY <1>3 DEF t

(* Sets that agree on a list filter it alike.                              *)
LEMMA KeepingSame ==
  ASSUME NEW S, NEW s \in Seq(S), NEW K, NEW L, ToSet(s) \cap K = ToSet(s) \cap L
  PROVE  Keeping(s, K) = Keeping(s, L)
<1> DEFINE T == {t \in Seq(S) : ToSet(t) \cap K = ToSet(t) \cap L
                                  => Keeping(t, K) = Keeping(t, L)}
<1>1. <<>> \in T
  <2>1. Keeping(<<>>, K) = <<>> /\ Keeping(<<>>, L) = <<>> /\ <<>> \in Seq(S)
    BY KeepingNothing
  <2>2. QED
    BY <2>1
<1>2. ASSUME NEW t \in Seq(S), NEW x \in S, t \in T
      PROVE  Append(t, x) \in T
  <2>0. Append(t, x) \in Seq(S)
    OBVIOUS
  <2> SUFFICES ASSUME ToSet(Append(t, x)) \cap K = ToSet(Append(t, x)) \cap L
               PROVE  Keeping(Append(t, x), K) = Keeping(Append(t, x), L)
    BY <2>0
  <2>1. ToSet(Append(t, x)) = ToSet(t) \cup {x}
    BY ToSetAppend
  <2>2. ToSet(t) \cap K = ToSet(t) \cap L /\ (x \in K <=> x \in L)
    BY <2>1
  <2>3. Keeping(t, K) = Keeping(t, L)
    BY <1>2, <2>2
  <2>4. /\ Keeping(Append(t, x), K) =
             IF x \in K THEN Append(Keeping(t, K), x) ELSE Keeping(t, K)
        /\ Keeping(Append(t, x), L) =
             IF x \in L THEN Append(Keeping(t, L), x) ELSE Keeping(t, L)
    BY KeepingAppend
  <2>5. QED
    BY <2>2, <2>3, <2>4
<1> HIDE DEF T
<1>3. s \in T
  BY <1>1, <1>2, SeqInduction
<1>4. QED
  BY <1>3 DEF T

(* A list of one element.                                                  *)
LEMMA KeepingOne ==
  ASSUME NEW x, NEW K
  PROVE  /\ x \in K => Keeping(<<x>>, K) = <<x>>
         /\ x \notin K => Keeping(<<x>>, K) = <<>>
<1> DEFINE e == <<>>
<1>1. e \in Seq({x}) /\ Append(e, x) = <<x>> /\ x \in {x}
  OBVIOUS
<1>2. Keeping(e, K) = e
  BY KeepingNothing
<1>3. Keeping(Append(e, x), K) = IF x \in K THEN Append(Keeping(e, K), x) ELSE Keeping(e, K)
  BY <1>1, KeepingAppend
<1>4. QED
  BY <1>1, <1>2, <1>3

(* Two filters, one after the other.                                       *)
LEMMA KeepingTwice ==
  ASSUME NEW S, NEW s \in Seq(S), NEW K, NEW L
  PROVE  Keeping(Keeping(s, K), L) = Keeping(s, K \cap L)
<1> DEFINE T == {t \in Seq(S) : Keeping(Keeping(t, K), L) = Keeping(t, K \cap L)}
<1>1. <<>> \in T
  <2>1. /\ Keeping(<<>>, K) = <<>> /\ Keeping(<<>>, L) = <<>>
        /\ Keeping(<<>>, K \cap L) = <<>> /\ <<>> \in Seq(S)
    BY KeepingNothing
  <2>2. QED
    BY <2>1
<1>2. ASSUME NEW t \in Seq(S), NEW x \in S, t \in T
      PROVE  Append(t, x) \in T
  <2> DEFINE a == Keeping(t, K)
             b == Keeping(t, K \cap L)
  <2>1. Append(t, x) \in Seq(S) /\ Keeping(a, L) = b
    BY <1>2
  <2>2. a \in Seq(S \cap K)
    BY KeepingType
  <2>3. /\ Keeping(Append(t, x), K) = IF x \in K THEN Append(a, x) ELSE a
        /\ Keeping(Append(t, x), K \cap L) = IF x \in K \cap L THEN Append(b, x) ELSE b
    BY KeepingAppend
  <2> HIDE DEF a, b
  <2>4. ASSUME x \in K
        PROVE  Keeping(Append(a, x), L) = IF x \in L THEN Append(Keeping(a, L), x)
                                          ELSE Keeping(a, L)
    <3> DEFINE W == S \cap K
    <3>1. x \in W /\ a \in Seq(W)
      BY <2>2, <2>4
    <3> HIDE DEF W
    <3>2. QED
      BY <3>1, KeepingAppend
  <2>5. Keeping(Keeping(Append(t, x), K), L) = Keeping(Append(t, x), K \cap L)
    <3>1. CASE x \notin K
      <4>1. x \notin K \cap L
        BY <3>1
      <4>2. QED
        BY <2>1, <2>3, <3>1, <4>1
    <3>2. CASE x \in K
      <4>1. x \in K \cap L <=> x \in L
        BY <3>2
      <4>2. QED
        BY <2>1, <2>3, <2>4, <3>2, <4>1
    <3>3. QED
      BY <3>1, <3>2
  <2>6. QED
    BY <2>1, <2>5
<1> HIDE DEF T
<1>3. s \in T
  BY <1>1, <1>2, SeqInduction
<1>4. QED
  BY <1>3 DEF T

-----------------------------------------------------------------------------
(* A function on 0..m that starts at base and follows step.                *)
StepFunction(S, base, m, step) ==
  m \in Nat /\ base \in S /\ step \in [(1..m) \X S -> S]

FollowsSteps(S, base, m, step, f) ==
  /\ f \in [0..m -> S]
  /\ f[0] = base
  /\ \A n \in 1..m : f[n] = step[<<n, f[n - 1]>>]

LEMMA RecursionExists ==
  ASSUME NEW S, NEW base, NEW m, NEW step, StepFunction(S, base, m, step)
  PROVE  \E f : FollowsSteps(S, base, m, step, f)
<1> USE DEF StepFunction
<1> DEFINE Solves(f, k) ==
             /\ f \in [0..k -> S]
             /\ f[0] = base
             /\ \A n \in 1..k : f[n] = step[<<n, f[n - 1]>>]
           T == {k \in Nat : k <= m => \E f : Solves(f, k)}
<1>1. 0 \in T
  <2> DEFINE f == [n \in 0..0 |-> base]
  <2>1. Solves(f, 0)
    OBVIOUS
  <2>2. QED
    BY <2>1
<1>2. ASSUME NEW k \in Nat, k \in T
      PROVE  k + 1 \in T
  <2> SUFFICES ASSUME k + 1 <= m
               PROVE  \E f : Solves(f, k + 1)
    OBVIOUS
  <2>1. k <= m /\ k \in 0..k
    OBVIOUS
  <2>2. PICK f : Solves(f, k)
    BY <1>2, <2>1
  <2>3. <<k + 1, f[k]>> \in (1..m) \X S
    BY <2>1, <2>2
  <2> DEFINE last == step[<<k + 1, f[k]>>]
             g == [n \in 0..(k + 1) |-> IF n = k + 1 THEN last ELSE f[n]]
  <2>4. last \in S
    BY <2>3
  <2> HIDE DEF last
  <2>5. /\ g[k + 1] = last
        /\ \A n \in 0..k : g[n] = f[n]
    OBVIOUS
  <2>6. g \in [0..(k + 1) -> S]
    BY <2>2, <2>4
  <2>7. g[0] = base
    BY <2>2, <2>5
  <2>8. ASSUME NEW n \in 1..(k + 1)
        PROVE  g[n] = step[<<n, g[n - 1]>>]
    <3>1. n - 1 \in 0..k /\ g[n - 1] = f[n - 1]
      BY <2>5
    <3>2. CASE n = k + 1
      <4>1. n - 1 = k
        BY <3>2
      <4>2. QED
        BY <2>5, <3>1, <3>2, <4>1 DEF last
    <3>3. CASE n # k + 1
      <4>1. n \in 1..k /\ n \in 0..k
        BY <3>3
      <4>2. QED
        BY <2>2, <2>5, <3>1, <4>1
    <3>4. QED
      BY <3>2, <3>3
  <2> HIDE DEF g
  <2>9. Solves(g, k + 1)
    BY <2>6, <2>7, <2>8
  <2>10. QED
    BY <2>9
<1> HIDE DEF T
<1>3. m \in T
  BY <1>1, <1>2, SetInduction
<1>4. PICK f : Solves(f, m)
  BY <1>3 DEF T
<1>5. QED
  BY <1>4 DEF FollowsSteps

(* The least and the greatest of some natural numbers.                     *)
LEMMA LeastNat ==
  ASSUME NEW S \in SUBSET Nat, S # {}
  PROVE  Min(S) \in S /\ \A y \in S : Min(S) <= y
<1>1. PICK x \in S : \A y \in S : ~(<<y, x>> \in OpToRel(<, Nat))
  BY NatLessThanWellFounded, WFMin, Zenon
<1>2. \A y \in S : ~(y < x)
  BY <1>1 DEF OpToRel
<1> HIDE <1>1
<1>3. \A y \in S : x <= y
  BY <1>2
<1>4. QED
  BY <1>3 DEF Min

LEMMA GreatestNat ==
  ASSUME NEW m \in Nat, NEW S \in SUBSET (0..m), S # {}
  PROVE  Max(S) \in S /\ \A y \in S : Max(S) >= y
<1> DEFINE D == {m - x : x \in S}
<1>1. D \in SUBSET Nat /\ D # {}
  <2>1. \A x \in S : m - x \in Nat
    OBVIOUS
  <2>2. QED
    BY <2>1
<1>2. PICK d \in D : \A e \in D : d <= e
  BY <1>1, LeastNat
<1>3. PICK x \in S : d = m - x
  OBVIOUS
<1>4. \A y \in S : x >= y
  <2> SUFFICES ASSUME NEW y \in S
               PROVE  x >= y
    OBVIOUS
  <2>1. m - y \in D
    OBVIOUS
  <2>2. m - x <= m - y /\ x \in Nat /\ y \in Nat
    BY <1>2, <1>3, <2>1
  <2>3. QED
    BY <2>2
<1>5. QED
  BY <1>4 DEF Max
=============================================================================
