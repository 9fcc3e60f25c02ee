-------------------------- MODULE ChatPipelineProofs --------------------------
(***************************************************************************)
(* What holds of every request on its way through the pipeline, whatever   *)
(* the model writes, however it is cut and whatever the tags are.          *)
(*                                                                         *)
(* The first part is about the filter alone.  A tag can overlap neither    *)
(* itself nor the other, so that a text can be read to the first tag that  *)
(* changes the state, and from behind it as if it began there: what the    *)
(* filter has taken out of its buffer ends at such a cut, and it is in the *)
(* state, and has released the text, that the definition of Visible gives  *)
(* for the characters before it.                                           *)
(***************************************************************************)
EXTENDS ChatPipeline, ListProofs, TLAPS

-----------------------------------------------------------------------------
(* TagOf(think) is the tag that changes the state of the filter.           *)
TagOf(think) == IF think THEN CloseTag ELSE OpenTag

LEMMA Tags ==
  ASSUME NEW think \in BOOLEAN
  PROVE  /\ TagOf(think) \in Seq(Range(OpenTag) \cup Range(CloseTag))
         /\ Len(TagOf(think)) \in Nat \ {0}
         /\ \A other \in BOOLEAN, i \in 2..Len(TagOf(think)) : TagOf(think)[i] # TagOf(other)[1]
  BY TagAssumption DEF TagOf

LEMMA TagsDiffer ==
  ASSUME NEW think \in BOOLEAN, Len(TagOf(think)) <= Len(TagOf(~think))
  PROVE  \E k \in 1..Len(TagOf(think)) : TagOf(think)[k] # TagOf(~think)[k]
<1> DEFINE a == TagOf(think)
           b == TagOf(~think)
           A == Range(OpenTag) \cup Range(CloseTag)
<1>1. a \in Seq(A) /\ b \in Seq(A)
  BY Tags
<1>2. ~IsPrefix(a, b)
  BY TagAssumption DEF TagOf
<1> HIDE DEF a, b, A
<1> SUFFICES ASSUME \A k \in 1..Len(a) : a[k] = b[k]
             PROVE  FALSE
  BY DEF a, b
<1>3. Len(a) <= Len(b)
  BY DEF a, b
<1>4. SubSeq(a, 1, Len(a)) = SubSeq(b, 1, Len(a))
  BY <1>1, <1>3
<1>5. QED
  BY <1>2, <1>3, <1>4 DEF IsPrefix

(* The tag stands in the text from s on.                                   *)
StandsAt(tag, text, s) ==
  /\ s + Len(tag) - 1 <= Len(text)
  /\ \A k \in 1..Len(tag) : text[s + k - 1] = tag[k]

LEMMA SubSeqIs ==
  ASSUME NEW C, NEW A, NEW text \in Seq(C), NEW tag \in Seq(A),
         NEW s \in 1..Len(text) + 1, s + Len(tag) - 1 <= Len(text)
  PROVE  SubSeq(text, s, s + Len(tag) - 1) = tag <=> StandsAt(tag, text, s)
<1> DEFINE part == SubSeq(text, s, s + Len(tag) - 1)
<1>1. /\ part \in Seq(C) /\ Len(part) = Len(tag)
      /\ \A k \in 1..Len(tag) : part[k] = text[s + k - 1]
  OBVIOUS
<1> HIDE DEF part
<1>2. ASSUME \A k \in 1..Len(tag) : part[k] = tag[k]
      PROVE  part = tag
  BY <1>1, <1>2
<1>3. QED
  BY <1>1, <1>2 DEF StandsAt, part

LEMMA EndsAtIs ==
  ASSUME NEW C, NEW text \in Seq(C), NEW think \in BOOLEAN, NEW i \in 1..Len(text)
  PROVE  EndsAt(TagOf(think), text, i) <=>
           /\ i >= Len(TagOf(think))
           /\ StandsAt(TagOf(think), text, i - Len(TagOf(think)) + 1)
<1> DEFINE tag == TagOf(think)
           A == Range(OpenTag) \cup Range(CloseTag)
<1>1. tag \in Seq(A) /\ Len(tag) \in Nat \ {0}
  BY Tags
<1> HIDE DEF tag, A
<1>2. CASE i >= Len(tag)
  <2> DEFINE s == i - Len(tag) + 1
  <2>1. s \in 1..Len(text) + 1 /\ s + Len(tag) - 1 = i /\ i <= Len(text)
    BY <1>1, <1>2
  <2>2. SubSeq(text, s, s + Len(tag) - 1) = tag <=> StandsAt(tag, text, s)
    <3>1. text \in Seq(C) /\ s + Len(tag) - 1 <= Len(text)
      BY <2>1
    <3> HIDE DEF s
    <3>2. QED
      BY ONLY <1>1, <2>1, <3>1, SubSeqIs
  <2>3. SubSeq(text, s, i) = tag <=> StandsAt(tag, text, s)
    BY ONLY <2>1, <2>2
  <2>4. QED
    BY <1>2, <2>3 DEF EndsAt, tag
<1>3. CASE ~(i >= Len(tag))
  BY <1>3 DEF EndsAt, tag
<1>4. QED
  BY <1>2, <1>3

LEMMA OccurrencesAre ==
  ASSUME NEW C, NEW text \in Seq(C), NEW think \in BOOLEAN
  PROVE  Occurrences(TagOf(think), text) =
           {s \in 1..Len(text) : StandsAt(TagOf(think), text, s)}
<1> DEFINE tag == TagOf(think)
           A == Range(OpenTag) \cup Range(CloseTag)
<1>1. tag \in Seq(A) /\ Len(tag) \in Nat \ {0}
  BY Tags
<1> HIDE DEF tag, A
<1>2. ASSUME NEW s \in 1..Len(text), s + Len(tag) - 1 <= Len(text)
      PROVE  SubSeq(text, s, s + Len(tag) - 1) = tag <=> StandsAt(tag, text, s)
  <2>1. text \in Seq(C) /\ s \in 1..Len(text) + 1
    OBVIOUS
  <2>2. QED
    BY ONLY <1>1, <1>2, <2>1, SubSeqIs
<1>3. \A s : s \in 1..Len(text) - Len(tag) + 1 <=>
               s \in 1..Len(text) /\ s + Len(tag) - 1 <= Len(text)
  BY <1>1
<1>4. QED
  BY <1>2, <1>3 DEF Occurrences, StandsAt, tag

LEMMA SuffixIs ==
  ASSUME NEW C, NEW A, NEW text \in Seq(C), NEW tag \in Seq(A),
         NEW n \in 0..Len(tag), n <= Len(text)
  PROVE  IsSuffix(SubSeq(tag, 1, n), text) <=>
           \A k \in 1..n : text[Len(text) - n + k] = tag[k]
<1> DEFINE part == SubSeq(tag, 1, n)
           a == Reverse(part)
           b == Reverse(text)
<1>1. /\ part \in Seq(A) /\ Len(part) = n
      /\ \A k \in 1..n : part[k] = tag[k]
  OBVIOUS
<1> HIDE DEF part
<1>2. /\ a \in Seq(A) /\ Len(a) = n
      /\ \A k \in 1..n : a[k] = part[n - k + 1]
  BY <1>1 DEF Reverse
<1>3. /\ b \in Seq(C) /\ Len(b) = Len(text)
      /\ \A k \in 1..Len(text) : b[k] = text[Len(text) - k + 1]
  BY DEF Reverse
<1> HIDE DEF a, b
<1>4. IsPrefix(a, b) <=> \A k \in 1..n : a[k] = b[k]
  <2>1. /\ SubSeq(a, 1, n) = a
        /\ SubSeq(b, 1, n) \in Seq(C) /\ Len(SubSeq(b, 1, n)) = n
        /\ \A k \in 1..n : SubSeq(b, 1, n)[k] = b[k]
    BY <1>2, <1>3
  <2>2. ASSUME \A k \in 1..n : a[k] = b[k]
        PROVE  a = SubSeq(b, 1, n)
    BY <1>2, <2>1, <2>2
  <2>3. QED
    BY <1>2, <1>3, <2>1, <2>2 DEF IsPrefix
<1>5. ASSUME \A k \in 1..n : a[k] = b[k], NEW k \in 1..n
      PROVE  text[Len(text) - n + k] = tag[k]
  <2>1. n - k + 1 \in 1..n
    OBVIOUS
  <2>2. a[n - k + 1] = tag[n - (n - k + 1) + 1] /\ n - (n - k + 1) + 1 = k
    BY <1>1, <1>2, <2>1
  <2>3. b[n - k + 1] = text[Len(text) - (n - k + 1) + 1] /\ Len(text) - (n - k + 1) + 1 = Len(text) - n + k
    <3>1. n - k + 1 \in 1..Len(text)
      OBVIOUS
    <3>2. Len(text) - (n - k + 1) + 1 = Len(text) - n + k
      BY Len(text) \in Nat, n \in Nat, k \in Nat
    <3>3. QED
      BY <1>3, <3>1, <3>2
  <2>4. QED
    BY <1>5, <2>1, <2>2, <2>3
<1>6. ASSUME \A k \in 1..n : text[Len(text) - n + k] = tag[k], NEW k \in 1..n
      PROVE  a[k] = b[k]
  <2>1. n - k + 1 \in 1..n
    OBVIOUS
  <2>2. a[k] = tag[n - k + 1]
    BY <1>1, <1>2, <2>1
  <2>3. k \in 1..Len(text) /\ Len(text) - n + (n - k + 1) = Len(text) - k + 1
    BY Len(text) \in Nat, n \in Nat, k \in Nat
  <2>4. b[k] = text[Len(text) - n + (n - k + 1)]
    BY <1>3, <2>3
  <2>5. QED
    BY <1>6, <2>1, <2>2, <2>4
<1>7. QED
  BY <1>4, <1>5, <1>6 DEF IsSuffix, a, b, part

-----------------------------------------------------------------------------
(* What the definitions of Inside and Seen say of one character.           *)
InsideNext(text, f, i) ==
  IF i = 0 THEN FALSE
  ELSE IF f[i - 1] THEN ~EndsAt(CloseTag, text, i)
  ELSE EndsAt(OpenTag, text, i)

LEMMA InsideUnfolds ==
  ASSUME NEW C, NEW text \in Seq(C)
  PROVE  /\ Inside(text) \in [0..Len(text) -> BOOLEAN]
         /\ Inside(text)[0] = FALSE
         /\ \A i \in 1..Len(text) :
              Inside(text)[i] =
                IF EndsAt(TagOf(Inside(text)[i - 1]), text, i)
                THEN ~Inside(text)[i - 1] ELSE Inside(text)[i - 1]
<1> DEFINE m == Len(text)
           step == [x \in (1..m) \X BOOLEAN |->
                      IF x[2] THEN ~EndsAt(CloseTag, text, x[1]) ELSE EndsAt(OpenTag, text, x[1])]
           Unfolds(f) == f = [i \in 0..m |-> InsideNext(text, f, i)]
           inside == Inside(text)
<1>1. m \in Nat
  OBVIOUS
<1>2. step \in [(1..m) \X BOOLEAN -> BOOLEAN]
  BY DEF EndsAt
<1> HIDE DEF m
<1>3. PICK f : FollowsSteps(BOOLEAN, FALSE, m, step, f)
  <2> DEFINE none == FALSE
             S == BOOLEAN
  <2>1. StepFunction(S, none, m, step)
    BY <1>1, <1>2 DEF StepFunction
  <2> HIDE DEF step, none, S
  <2>2. \E f : FollowsSteps(S, none, m, step, f)
    BY ONLY <2>1, RecursionExists
  <2>3. QED
    BY <2>2 DEF none, S
<1> USE DEF FollowsSteps
<1>4. ASSUME NEW n \in 0..m
      PROVE  f[n] = InsideNext(text, f, n)
  <2>1. CASE n = 0
    BY <1>3, <2>1 DEF InsideNext
  <2>2. CASE n # 0
    <3>1. n \in 1..m /\ n - 1 \in 0..m
      BY <1>1, <2>2
    <3>2. <<n, f[n - 1]>> \in (1..m) \X BOOLEAN
      BY <1>3, <3>1
    <3>3. step[<<n, f[n - 1]>>] =
            IF f[n - 1] THEN ~EndsAt(CloseTag, text, n) ELSE EndsAt(OpenTag, text, n)
      BY <3>2
    <3> HIDE DEF step
    <3>4. QED
      BY <1>3, <2>2, <3>3 DEF InsideNext
  <2>3. QED
    BY <2>1, <2>2
<1> HIDE DEF step
<1>5. Unfolds(f)
  BY <1>3, <1>4
<1>6. inside = CHOOSE g : Unfolds(g)
  BY DEF Inside, InsideNext, m
<1> HIDE DEF inside
<1>7. Unfolds(inside)
  <2> HIDE DEF Unfolds
  <2>1. QED
    BY <1>5, <1>6, Zenon
<1>8. \A i \in 0..m : inside[i] = InsideNext(text, inside, i)
  BY <1>7
<1>9. \A i \in 0..m : inside[i] \in BOOLEAN
  BY <1>8 DEF InsideNext, EndsAt
<1>10. inside \in [0..m -> BOOLEAN]
  BY <1>7, <1>9
<1> HIDE DEF Unfolds
<1>11. inside[0] = FALSE
  <2>1. 0 \in 0..m
    BY <1>1
  <2>2. inside[0] = InsideNext(text, inside, 0)
    BY <1>8, <2>1
  <2>3. QED
    BY <2>2 DEF InsideNext
<1>12. ASSUME NEW i \in 1..m
       PROVE  inside[i] = IF EndsAt(TagOf(inside[i - 1]), text, i)
                          THEN ~inside[i - 1] ELSE inside[i - 1]
  <2>1. i \in 0..m /\ i - 1 \in 0..m /\ i # 0
    BY <1>1
  <2>2. inside[i] = InsideNext(text, inside, i) /\ inside[i] \in BOOLEAN
    BY <1>8, <1>9, <2>1
  <2>3. CASE inside[i - 1] = TRUE
    BY <2>1, <2>2, <2>3 DEF InsideNext, TagOf
  <2>4. CASE inside[i - 1] = FALSE
    BY <2>1, <2>2, <2>4 DEF InsideNext, TagOf
  <2>5. QED
    BY <1>9, <2>1, <2>3, <2>4
<1>13. QED
  BY <1>10, <1>11, <1>12 DEF inside, m

SeenNext(text, f, i) ==
  IF i = 0 THEN <<>>
  ELSE IF Shows(text, i) THEN Append(f[i - 1], text[i])
  ELSE f[i - 1]

LEMMA SeenUnfolds ==
  ASSUME NEW C, NEW text \in Seq(C)
  PROVE  /\ Seen(text) \in [0..Len(text) -> Seq(C)]
         /\ Seen(text)[0] = <<>>
         /\ \A i \in 1..Len(text) :
              Seen(text)[i] = IF Shows(text, i) THEN Append(Seen(text)[i - 1], text[i])
                              ELSE Seen(text)[i - 1]
<1> DEFINE m == Len(text)
           step == [x \in (1..m) \X Seq(C) |->
                      IF Shows(text, x[1]) THEN Append(x[2], text[x[1]]) ELSE x[2]]
           Unfolds(f) == f = [i \in 0..m |-> SeenNext(text, f, i)]
           seen == Seen(text)
<1>1. m \in Nat /\ \A i \in 1..m : text[i] \in C
  OBVIOUS
<1>2. step \in [(1..m) \X Seq(C) -> Seq(C)]
  <2>1. ASSUME NEW x \in (1..m) \X Seq(C)
        PROVE  /\ x[2] \in Seq(C)
               /\ Append(x[2], text[x[1]]) \in Seq(C)
    <3>1. x[1] \in 1..m /\ x[2] \in Seq(C)
      OBVIOUS
    <3>2. text[x[1]] \in C
      BY <1>1, <3>1
    <3>3. QED
      BY <3>1, <3>2
  <2>2. QED
    BY <2>1
<1> HIDE DEF m
<1>3. PICK f : FollowsSteps(Seq(C), <<>>, m, step, f)
  <2> DEFINE none == <<>>
             S == Seq(C)
  <2>1. StepFunction(S, none, m, step)
    BY <1>1, <1>2 DEF StepFunction
  <2> HIDE DEF step, none, S
  <2>2. \E f : FollowsSteps(S, none, m, step, f)
    BY ONLY <2>1, RecursionExists
  <2>3. QED
    BY <2>2 DEF none, S
<1> USE DEF FollowsSteps
<1>4. ASSUME NEW n \in 0..m
      PROVE  f[n] = SeenNext(text, f, n) /\ f[n] \in Seq(C)
  <2>1. CASE n = 0
    BY <1>3, <2>1 DEF SeenNext
  <2>2. CASE n # 0
    <3>1. n \in 1..m /\ n - 1 \in 0..m
      BY <1>1, <2>2
    <3>2. <<n, f[n - 1]>> \in (1..m) \X Seq(C)
      BY <1>3, <3>1
    <3>3. step[<<n, f[n - 1]>>] =
            IF Shows(text, n) THEN Append(f[n - 1], text[n]) ELSE f[n - 1]
      BY <3>2
    <3>4. f[n] = step[<<n, f[n - 1]>>] /\ f[n] \in Seq(C)
      BY <1>3, <3>1
    <3> HIDE DEF step
    <3>5. QED
      BY <2>2, <3>3, <3>4 DEF SeenNext
  <2>3. QED
    BY <2>1, <2>2
<1> HIDE DEF step
<1>5. Unfolds(f)
  BY <1>3, <1>4
<1>6. seen = CHOOSE g : Unfolds(g)
  BY DEF Seen, SeenNext, m
<1> HIDE DEF seen
<1>7. Unfolds(seen)
  <2> HIDE DEF Unfolds
  <2>1. QED
    BY <1>5, <1>6, Zenon
<1>8. \A i \in 0..m : seen[i] = SeenNext(text, seen, i)
  BY <1>7
<1>9. seen = [i \in 0..m |-> seen[i]]
  BY <1>7
<1> HIDE DEF Unfolds
<1>10. seen[0] = <<>>
  <2>1. 0 \in 0..m
    BY <1>1
  <2>2. seen[0] = SeenNext(text, seen, 0)
    BY ONLY <1>8, <2>1, Zenon
  <2>3. QED
    BY ONLY <2>2 DEF SeenNext
<1>11. ASSUME NEW i \in 1..m
       PROVE  seen[i] = IF Shows(text, i) THEN Append(seen[i - 1], text[i])
                        ELSE seen[i - 1]
  <2>1. i \in 0..m /\ i # 0
    BY <1>1
  <2>2. QED
    BY <1>8, <2>1 DEF SeenNext
<1>12. \A i \in 0..m : seen[i] \in Seq(C)
  <2> DEFINE T == {n \in Nat : n <= m => seen[n] \in Seq(C)}
  <2>1. 0 \in T
    <3>1. <<>> \in Seq(C)
      OBVIOUS
    <3>2. QED
      BY <1>10, <3>1
  <2>2. ASSUME NEW n \in Nat, n \in T
        PROVE  n + 1 \in T
    <3> SUFFICES ASSUME n + 1 <= m
                 PROVE  seen[n + 1] \in Seq(C)
      OBVIOUS
    <3>1. n <= m /\ n + 1 \in 1..m /\ (n + 1) - 1 = n
      BY <1>1
    <3>2. seen[n] \in Seq(C) /\ text[n + 1] \in C
      BY <1>1, <2>2, <3>1
    <3>3. Append(seen[n], text[n + 1]) \in Seq(C)
      BY <3>2
    <3>4. QED
      BY <1>11, <3>1, <3>2, <3>3
  <2> HIDE DEF T
  <2>3. \A n \in Nat : n \in T
    BY <2>1, <2>2, SetInduction
  <2>4. QED
    BY <1>1, <2>3 DEF T
<1>13. QED
  BY <1>9, <1>10, <1>11, <1>12 DEF seen, m

-----------------------------------------------------------------------------
(* Where no tag ends that would change it, Inside stays as it is.          *)
LEMMA InsideStays ==
  ASSUME NEW C, NEW text \in Seq(C), NEW p \in 0..Len(text), NEW q \in p..Len(text),
         \A j \in (p + 1)..q : ~EndsAt(TagOf(Inside(text)[p]), text, j)
  PROVE  \A j \in p..q : Inside(text)[j] = Inside(text)[p]
<1> DEFINE inside == Inside(text)
           T == {n \in Nat : p + n <= q => inside[p + n] = inside[p]}
<1>1. \A i \in 1..Len(text) : inside[i] =
        IF EndsAt(TagOf(inside[i - 1]), text, i) THEN ~inside[i - 1] ELSE inside[i - 1]
  BY InsideUnfolds
<1> HIDE DEF inside
<1>2. 0 \in T
  OBVIOUS
<1>3. ASSUME NEW n \in Nat, n \in T
      PROVE  n + 1 \in T
  <2> SUFFICES ASSUME p + (n + 1) <= q
               PROVE  inside[p + (n + 1)] = inside[p]
    OBVIOUS
  <2> DEFINE j == p + (n + 1)
  <2>1. j - 1 = p + n /\ p + n <= q /\ j \in (p + 1)..q /\ j \in 1..Len(text)
    OBVIOUS
  <2>2. inside[j - 1] = inside[p]
    BY <1>3, <2>1
  <2>3. ~EndsAt(TagOf(inside[p]), text, j)
    BY <2>1 DEF inside
  <2> HIDE DEF j
  <2>4. inside[j] = inside[p]
    BY <1>1, <2>1, <2>2, <2>3
  <2>5. QED
    BY <2>4 DEF j
<1> HIDE DEF T
<1>4. \A n \in Nat : n \in T
  BY <1>2, <1>3, SetInduction
<1>5. ASSUME NEW j \in p..q
      PROVE  inside[j] = inside[p]
  <2>1. j - p \in Nat /\ p + (j - p) = j /\ j <= q
    OBVIOUS
  <2>2. inside[p + (j - p)] = inside[p]
    BY <1>4, <2>1 DEF T
  <2>3. QED
    BY <2>1, <2>2
<1>6. QED
  BY <1>5 DEF inside

(* A stretch of characters that all show, or none.                         *)
LEMMA SeenShown ==
  ASSUME NEW C, NEW text \in Seq(C), NEW p \in 0..Len(text), NEW q \in p..Len(text),
         \A i \in (p + 1)..q : Shows(text, i)
  PROVE  Seen(text)[q] = Seen(text)[p] \o SubSeq(text, p + 1, q)
<1> DEFINE seen == Seen(text)
           T == {n \in Nat : p + n <= q =>
                   seen[p + n] = seen[p] \o SubSeq(text, p + 1, p + n)}
<1>1. /\ \A i \in 0..Len(text) : seen[i] \in Seq(C)
      /\ \A i \in 1..Len(text) :
           seen[i] = IF Shows(text, i) THEN Append(seen[i - 1], text[i]) ELSE seen[i - 1]
  BY SeenUnfolds
<1> HIDE DEF seen
<1>2. 0 \in T
  <2>1. SubSeq(text, p + 1, p + 0) = <<>>
    OBVIOUS
  <2>2. seen[p] \in Seq(C) /\ p + 0 = p
    BY <1>1
  <2>3. seen[p] \o <<>> = seen[p]
    BY <2>2, ConcatEmptySeq
  <2>4. QED
    BY <2>1, <2>2, <2>3
<1>3. ASSUME NEW n \in Nat, n \in T
      PROVE  n + 1 \in T
  <2>0. n + 1 \in Nat
    OBVIOUS
  <2> SUFFICES ASSUME p + (n + 1) <= q
               PROVE  seen[p + (n + 1)] = seen[p] \o SubSeq(text, p + 1, p + (n + 1))
    BY <2>0, Zenon
  <2> DEFINE j == p + (n + 1)
             part == SubSeq(text, p + 1, p + n)
  <2>1. j - 1 = p + n /\ p + n <= q /\ j \in (p + 1)..q /\ j \in 1..Len(text)
    OBVIOUS
  <2>2. seen[j - 1] = seen[p] \o part
    BY <1>3, <2>1
  <2>3. SubSeq(text, p + 1, j) = Append(part, text[j])
    <3>1. /\ SubSeq(text, p + 1, j) \in Seq(C) /\ Len(SubSeq(text, p + 1, j)) = n + 1
          /\ \A k \in 1..n + 1 : SubSeq(text, p + 1, j)[k] = text[p + k]
      <4>1. text \in Seq(C) /\ p \in Nat /\ n \in Nat /\ p + (n + 1) <= Len(text)
        BY <2>1
      <4>2. QED
        BY ONLY <4>1
    <3>2. /\ part \in Seq(C) /\ Len(part) = n
          /\ \A k \in 1..n : part[k] = text[p + k]
      <4>1. text \in Seq(C) /\ p \in Nat /\ n \in Nat /\ p + n <= Len(text)
        BY <2>1
      <4>2. QED
        BY ONLY <4>1 DEF part
    <3> HIDE DEF part
    <3>3. text[j] \in C
      BY <2>1
    <3>4. /\ Append(part, text[j]) \in Seq(C) /\ Len(Append(part, text[j])) = n + 1
          /\ \A k \in 1..n + 1 : Append(part, text[j])[k] = text[p + k]
      BY <3>2, <3>3
    <3> DEFINE a == SubSeq(text, p + 1, j)
               b == Append(part, text[j])
    <3> HIDE DEF a, b
    <3>5. QED
      BY <3>1, <3>4, a = b DEF a, b
  <2>4. part \in Seq(C) /\ seen[p] \in Seq(C) /\ text[j] \in C
    BY <1>1, <2>1
  <2> HIDE DEF j, part
  <2>5. seen[j] = Append(seen[p] \o part, text[j])
    BY <1>1, <2>1, <2>2
  <2>6. Append(seen[p] \o part, text[j]) = seen[p] \o Append(part, text[j])
    <3> DEFINE a == seen[p]
             x == text[j]
    <3>1. a \in Seq(C) /\ part \in Seq(C) /\ x \in C
      BY <2>4
    <3> HIDE DEF a, x
    <3>2. Append(a \o part, x) = a \o Append(part, x)
      BY ONLY <3>1
    <3>3. QED
      BY <3>2 DEF a, x
  <2>7. QED
    BY <2>3, <2>5, <2>6 DEF j
<1> HIDE DEF T
<1>4. q - p \in T
  <2>1. q - p \in Nat
    OBVIOUS
  <2>2. QED
    BY <1>2, <1>3, <2>1, SetInduction
<1>5. p + (q - p) = q
  OBVIOUS
<1>6. seen[p + (q - p)] = seen[p] \o SubSeq(text, p + 1, p + (q - p))
  <2>1. p + (q - p) <= q
    BY <1>5
  <2>2. QED
    BY <1>4, <2>1, Zenon DEF T
<1>7. QED
  BY <1>5, <1>6 DEF seen

LEMMA SeenHidden ==
  ASSUME NEW C, NEW text \in Seq(C), NEW p \in 0..Len(text), NEW q \in p..Len(text),
         \A i \in (p + 1)..q : ~Shows(text, i)
  PROVE  Seen(text)[q] = Seen(text)[p]
<1> DEFINE seen == Seen(text)
           T == {n \in Nat : p + n <= q => seen[p + n] = seen[p]}
<1>1. \A i \in 1..Len(text) :
        seen[i] = IF Shows(text, i) THEN Append(seen[i - 1], text[i]) ELSE seen[i - 1]
  BY SeenUnfolds
<1> HIDE DEF seen
<1>2. 0 \in T
  OBVIOUS
<1>3. ASSUME NEW n \in Nat, n \in T
      PROVE  n + 1 \in T
  <2> SUFFICES ASSUME p + (n + 1) <= q
               PROVE  seen[p + (n + 1)] = seen[p]
    OBVIOUS
  <2> DEFINE j == p + (n + 1)
  <2>1. j - 1 = p + n /\ p + n <= q /\ j \in (p + 1)..q /\ j \in 1..Len(text)
    OBVIOUS
  <2>2. seen[j - 1] = seen[p]
    BY <1>3, <2>1
  <2> HIDE DEF j
  <2>3. seen[j] = seen[p]
    BY <1>1, <2>1, <2>2
  <2>4. QED
    BY <2>3 DEF j
<1> HIDE DEF T
<1>4. q - p \in T
  <2>1. q - p \in Nat
    OBVIOUS
  <2>2. QED
    BY <1>2, <1>3, <2>1, SetInduction
<1>5. p + (q - p) = q
  OBVIOUS
<1>6. QED
  BY <1>4, <1>5 DEF T, seen

-----------------------------------------------------------------------------
(* No tag that begins in the first p characters ends behind them, whatever *)
(* the text goes on with.                                                  *)
Clean(tag, text, p) ==
  \A s \in 1..p : s + Len(tag) - 1 > p =>
    \E k \in 1..Len(tag) : s + k - 1 <= Len(text) /\ text[s + k - 1] # tag[k]

LEMMA CleanLater ==
  ASSUME NEW C, NEW text \in Seq(C), NEW more \in Seq(C), NEW think \in BOOLEAN,
         NEW p \in 0..Len(text), Clean(TagOf(think), text, p)
  PROVE  Clean(TagOf(think), text \o more, p)
<1> DEFINE tag == TagOf(think)
           all == text \o more
<1>1. Len(all) >= Len(text) /\ \A i \in 1..Len(text) : all[i] = text[i]
  OBVIOUS
<1>2. Len(tag) \in Nat
  BY Tags
<1> HIDE DEF tag, all
<1>3. ASSUME NEW s \in 1..p, s + Len(tag) - 1 > p
      PROVE  \E k \in 1..Len(tag) : s + k - 1 <= Len(all) /\ all[s + k - 1] # tag[k]
  <2>1. PICK k \in 1..Len(tag) : s + k - 1 <= Len(text) /\ text[s + k - 1] # tag[k]
    BY <1>3 DEF Clean, tag
  <2>2. s + k - 1 \in 1..Len(text)
    BY <1>2, <2>1
  <2>3. all[s + k - 1] = text[s + k - 1] /\ s + k - 1 <= Len(all)
    BY <1>1, <2>2
  <2>4. QED
    BY <2>1, <2>3
<1>4. QED
  BY <1>3 DEF Clean, tag, all

(* A tag that ends behind p begins behind p.                               *)
LEMMA StandsBehind ==
  ASSUME NEW text, NEW tag, Len(tag) \in Nat, NEW p \in Nat, Clean(tag, text, p),
         NEW s \in Nat \ {0}, StandsAt(tag, text, s), s + Len(tag) - 1 > p
  PROVE  s > p
<1> SUFFICES ASSUME s <= p
             PROVE  FALSE
  OBVIOUS
<1>1. PICK k \in 1..Len(tag) : text[s + k - 1] # tag[k]
  BY DEF Clean
<1>2. QED
  BY <1>1 DEF StandsAt

(* No two tags overlap.                                                    *)
LEMMA NoOverlap ==
  ASSUME NEW text, NEW a \in BOOLEAN, NEW b \in BOOLEAN,
         NEW s \in Nat, NEW t \in Nat,
         StandsAt(TagOf(a), text, s), StandsAt(TagOf(b), text, t), s < t
  PROVE  t > s + Len(TagOf(a)) - 1
<1> SUFFICES ASSUME t <= s + Len(TagOf(a)) - 1
             PROVE  FALSE
  BY Tags
<1> DEFINE k == t - s + 1
<1>1. k \in 2..Len(TagOf(a)) /\ k \in 1..Len(TagOf(a)) /\ s + k - 1 = t
  BY Tags
<1>2. text[t] = TagOf(a)[k]
  BY <1>1 DEF StandsAt
<1>3. 1 \in 1..Len(TagOf(b)) /\ t + 1 - 1 = t
  BY Tags
<1>4. text[t] = TagOf(b)[1]
  BY <1>3 DEF StandsAt
<1>5. TagOf(a)[k] # TagOf(b)[1]
  BY <1>1, Tags
<1>6. QED
  BY <1>2, <1>4, <1>5

(* A block that opens behind a clean cut has its whole tag behind it.      *)
LEMMA OpensBehind ==
  ASSUME NEW C, NEW text \in Seq(C), NEW p \in 0..Len(text),
         Clean(TagOf(Inside(text)[p]), text, p),
         NEW j \in (p + 1)..Len(text), Opens(text, j)
  PROVE  j - Len(OpenTag) >= p
<1> DEFINE inside == Inside(text)
           L == Len(OpenTag)
           s == j - L + 1
<1>1. /\ inside \in [0..Len(text) -> BOOLEAN]
      /\ \A i \in 1..Len(text) : inside[i] =
           IF EndsAt(TagOf(inside[i - 1]), text, i) THEN ~inside[i - 1] ELSE inside[i - 1]
  BY InsideUnfolds
<1>2. TagOf(FALSE) = OpenTag /\ TagOf(TRUE) = CloseTag
  BY DEF TagOf
<1>3. L \in Nat \ {0} /\ Len(CloseTag) \in Nat \ {0}
  BY <1>2, Tags
<1>4. j \in 1..Len(text) /\ j - 1 \in 0..Len(text)
  OBVIOUS
<1>5. inside[j] = TRUE /\ inside[j - 1] = FALSE
  BY <1>1, <1>4 DEF Opens
<1> HIDE DEF inside
<1>6. EndsAt(OpenTag, text, j)
  BY <1>1, <1>2, <1>4, <1>5
<1>7. j >= L /\ StandsAt(OpenTag, text, s)
  BY <1>2, <1>4, <1>6, EndsAtIs
<1>8. s \in Nat \ {0} /\ s + L - 1 = j /\ p \in Nat /\ j > p
  BY <1>3, <1>4, <1>7
<1>9. CASE inside[p] = FALSE
  <2>1. Clean(OpenTag, text, p)
    BY <1>2, <1>9 DEF inside
  <2>2. s > p
    BY <1>3, <1>7, <1>8, <2>1, StandsBehind
  <2>3. QED
    BY <1>3, <2>2
<1>10. CASE inside[p] = TRUE
  <2>1. PICK c \in (p + 1)..(j - 1) : EndsAt(CloseTag, text, c)
    <3> SUFFICES ASSUME \A c \in (p + 1)..(j - 1) : ~EndsAt(CloseTag, text, c)
                 PROVE  FALSE
      OBVIOUS
    <3>1. j - 1 \in p..Len(text) /\ j - 1 \in p..(j - 1)
      OBVIOUS
    <3>2. \A c \in (p + 1)..(j - 1) : ~EndsAt(TagOf(inside[p]), text, c)
      BY <1>2, <1>10
    <3>3. inside[j - 1] = inside[p]
      BY <3>1, <3>2, InsideStays DEF inside
    <3>4. QED
      BY <1>5, <1>10, <3>3
  <2> DEFINE t == c - Len(CloseTag) + 1
  <2>2. c \in 1..Len(text)
    OBVIOUS
  <2>3. c >= Len(CloseTag) /\ StandsAt(CloseTag, text, t)
    BY <1>2, <2>1, <2>2, EndsAtIs
  <2>4. t \in Nat \ {0} /\ t + Len(CloseTag) - 1 = c /\ c > p /\ t <= c
    BY <1>3, <2>3
  <2>5. Clean(CloseTag, text, p)
    BY <1>2, <1>10 DEF inside
  <2>6. t > p
    BY <1>3, <1>8, <2>3, <2>4, <2>5, StandsBehind
  <2>7. s < t => t > s + L - 1
    <3> HIDE DEF s, t, L
    <3>1. s \in Nat /\ t \in Nat
      BY <1>8, <2>4
    <3>2. StandsAt(TagOf(FALSE), text, s) /\ StandsAt(TagOf(TRUE), text, t)
      BY <1>2, <1>7, <2>3
    <3>3. QED
      BY <1>2, <3>1, <3>2, NoOverlap DEF L
  <2>8. QED
    BY <1>3, <1>8, <2>4, <2>6, <2>7
<1>11. inside[p] \in BOOLEAN
  BY <1>1
<1>12. QED
  BY <1>9, <1>10, <1>11

(* Behind a tag the text is clean for the other one.                       *)
LEMMA CleanBehindTag ==
  ASSUME NEW text, NEW think \in BOOLEAN, NEW q \in Nat \ {0},
         Len(text) \in Nat, StandsAt(TagOf(think), text, q)
  PROVE  Clean(TagOf(~think), text, q + Len(TagOf(think)) - 1)
<1> DEFINE a == TagOf(think)
           b == TagOf(~think)
           e == q + Len(a) - 1
<1>1. /\ Len(a) \in Nat \ {0} /\ Len(b) \in Nat \ {0}
      /\ \A i \in 2..Len(a) : a[i] # b[1]
      /\ \A i \in 2..Len(b) : b[i] # a[1]
  BY Tags
<1>2. Len(a) <= Len(b) => \E k \in 1..Len(a) : a[k] # b[k]
  BY TagsDiffer
<1>3. e <= Len(text) /\ \A k \in 1..Len(a) : text[q + k - 1] = a[k]
  BY DEF StandsAt
<1> HIDE DEF a, b
<1>4. ASSUME NEW s \in 1..e, s + Len(b) - 1 > e
      PROVE  \E k \in 1..Len(b) : s + k - 1 <= Len(text) /\ text[s + k - 1] # b[k]
  <2>1. CASE s > q
    <3>1. s - q + 1 \in 2..Len(a) /\ s - q + 1 \in 1..Len(a) /\ q + (s - q + 1) - 1 = s
      BY <1>1, <2>1
    <3>2. text[s] = a[s - q + 1]
      BY <1>3, <3>1
    <3>3. text[s] # b[1]
      BY <1>1, <3>1, <3>2
    <3>4. 1 \in 1..Len(b) /\ s + 1 - 1 = s /\ s <= Len(text)
      BY <1>1, <1>3
    <3>5. QED
      BY <3>3, <3>4
  <2>2. CASE s = q
    <3>1. Len(a) <= Len(b)
      BY <1>1, <1>4, <2>2
    <3>2. PICK k \in 1..Len(a) : a[k] # b[k]
      BY <1>2, <3>1
    <3>3. k \in 1..Len(b) /\ s + k - 1 <= Len(text)
      BY <1>1, <1>3, <2>2, <3>1
    <3>4. QED
      BY <1>3, <2>2, <3>2, <3>3
  <2>3. CASE s < q
    <3> DEFINE k == q - s + 1
    <3>1. k \in 2..Len(b) /\ k \in 1..Len(b) /\ s + k - 1 = q /\ q <= Len(text)
      BY <1>1, <1>3, <1>4, <2>3
    <3>2. 1 \in 1..Len(a) /\ q + 1 - 1 = q
      BY <1>1
    <3>3. text[q] = a[1]
      BY <1>3, <3>2
    <3>4. b[k] # a[1]
      BY <1>1, <3>1
    <3>5. QED
      BY <3>1, <3>3, <3>4
  <2>4. QED
    BY <2>1, <2>2, <2>3
<1>5. QED
  BY <1>4 DEF Clean, a, b

-----------------------------------------------------------------------------
(* The state of a filter that has the characters after the p-th in its     *)
(* buffer, and what it has released by then.                               *)
Cut(text, p, think, buffer, released) ==
  /\ p \in 0..Len(text)
  /\ buffer = SubSeq(text, p + 1, Len(text))
  /\ think = Inside(text)[p]
  /\ released = Seen(text)[p]
  /\ Clean(TagOf(think), text, p)

(* A tag stands behind a clean cut, and none before it there.              *)
LEMMA TurnAtTag ==
  ASSUME NEW C, NEW text \in Seq(C), NEW p \in 0..Len(text),
         Clean(TagOf(Inside(text)[p]), text, p),
         NEW q \in (p + 1)..Len(text), StandsAt(TagOf(Inside(text)[p]), text, q),
         \A s \in (p + 1)..(q - 1) : ~StandsAt(TagOf(Inside(text)[p]), text, s),
         NEW e, e = q + Len(TagOf(Inside(text)[p])) - 1
  PROVE  /\ e \in q..Len(text)
         /\ Inside(text)[e] = ~Inside(text)[p]
         /\ Clean(TagOf(~Inside(text)[p]), text, e)
         /\ Seen(text)[e] = IF Inside(text)[p] THEN Seen(text)[p]
                            ELSE Seen(text)[p] \o SubSeq(text, p + 1, q - 1)
<1> DEFINE inside == Inside(text)
           think == inside[p]
           tag == TagOf(think)
<1>1. /\ \A i \in 0..Len(text) : inside[i] \in BOOLEAN
      /\ \A i \in 1..Len(text) : inside[i] =
           IF EndsAt(TagOf(inside[i - 1]), text, i) THEN ~inside[i - 1] ELSE inside[i - 1]
  BY InsideUnfolds
<1>2. think \in BOOLEAN
  BY <1>1
<1>3. Len(tag) \in Nat \ {0}
  BY <1>2, Tags
<1>4. e = q + Len(tag) - 1 /\ e \in q..Len(text)
  BY <1>3 DEF StandsAt
<1>5. Clean(tag, text, p) /\ StandsAt(tag, text, q)
      /\ \A s \in (p + 1)..(q - 1) : ~StandsAt(tag, text, s)
  OBVIOUS
<1> HIDE DEF think, tag, inside
<1>6. ASSUME NEW i \in (p + 1)..(e - 1)
      PROVE  ~EndsAt(tag, text, i)
  <2> SUFFICES ASSUME EndsAt(tag, text, i)
               PROVE  FALSE
    OBVIOUS
  <2> DEFINE s == i - Len(tag) + 1
  <2>1. i \in 1..Len(text)
    BY <1>4
  <2>2. i >= Len(tag) /\ StandsAt(tag, text, s)
    BY <1>2, <2>1, EndsAtIs DEF tag
  <2>3. s \in Nat \ {0} /\ s + Len(tag) - 1 = i /\ i > p /\ p \in Nat
    BY <1>3, <2>1, <2>2
  <2> HIDE DEF s
  <2>4. s > p
    BY <1>3, <1>5, <2>2, <2>3, StandsBehind
  <2>5. s \in (p + 1)..(q - 1)
    BY <1>3, <1>4, <2>3, <2>4
  <2>6. QED
    BY <1>5, <2>2, <2>5
<1>7. \A i \in p..(e - 1) : inside[i] = think
  <2>1. e - 1 \in p..Len(text)
    BY <1>4
  <2>2. \A i \in (p + 1)..(e - 1) : ~EndsAt(TagOf(Inside(text)[p]), text, i)
    BY <1>6 DEF tag, think, inside
  <2>3. QED
    BY <2>1, <2>2, InsideStays DEF think, inside
<1>8. inside[e] = ~think
  <2>1. e \in 1..Len(text) /\ e - 1 \in p..(e - 1)
    BY <1>3, <1>4
  <2>2. e >= Len(tag) /\ e - Len(tag) + 1 = q
    BY <1>3, <1>4
  <2>3. EndsAt(tag, text, e)
    BY <1>2, <1>5, <2>1, <2>2, EndsAtIs DEF tag
  <2>4. QED
    BY <1>1, <1>7, <2>1, <2>3 DEF tag
<1>9. Clean(TagOf(~think), text, e)
  <2>1. q \in Nat \ {0} /\ Len(text) \in Nat
    OBVIOUS
  <2>2. QED
    BY <1>2, <1>4, <1>5, <2>1, CleanBehindTag DEF tag
<1>10. CASE think = TRUE
  <2>1. ASSUME NEW i \in (p + 1)..e
        PROVE  ~Shows(text, i)
    <3>1. i - 1 \in p..(e - 1)
      BY <1>4
    <3>2. QED
      BY <1>7, <1>10, <3>1 DEF Shows, inside
  <2>2. e \in p..Len(text)
    BY <1>4
  <2>3. Seen(text)[e] = Seen(text)[p]
    BY <2>1, <2>2, SeenHidden
  <2>4. QED
    BY <1>4, <1>8, <1>9, <1>10, <2>3 DEF think, inside
<1>11. CASE think = FALSE
  <2>0. tag = OpenTag
    BY <1>11 DEF tag, TagOf
  <2>1. ASSUME NEW i \in (p + 1)..(q - 1)
        PROVE  Shows(text, i)
    <3>1. i - 1 \in p..(e - 1)
      BY <1>4
    <3>2. ~Inside(text)[i - 1]
      BY <1>7, <1>11, <3>1 DEF inside
    <3>3. ASSUME NEW j \in i..Len(text), Opens(text, j)
          PROVE  j - Len(OpenTag) >= i
      <4>1. CASE j < e
        <5>1. j \in p..(e - 1)
          BY <1>4, <4>1
        <5>2. QED
          BY <1>7, <1>11, <3>3, <5>1 DEF Opens, inside
      <4>2. CASE j = e
        BY <1>3, <1>4, <2>0, <4>2
      <4>3. CASE j > e
        <5>1. j \in (e + 1)..Len(text) /\ e \in 0..Len(text)
          BY <1>4, <4>3
        <5>2. Clean(TagOf(Inside(text)[e]), text, e)
          BY <1>8, <1>9 DEF inside
        <5>3. j - Len(OpenTag) >= e
          BY <3>3, <5>1, <5>2, OpensBehind
        <5>4. QED
          BY <1>3, <1>4, <2>0, <5>3
      <4>4. QED
        BY <1>4, <4>1, <4>2, <4>3
    <3>4. QED
      BY <3>2, <3>3 DEF Shows
  <2>2. ASSUME NEW i \in q..e
        PROVE  ~Shows(text, i)
    <3>1. e \in i..Len(text) /\ e - 1 \in p..(e - 1)
      BY <1>4
    <3>2. Opens(text, e)
      BY <1>7, <1>8, <1>11, <3>1 DEF Opens, inside
    <3>3. ~(e - Len(OpenTag) >= i)
      BY <1>3, <1>4, <2>0
    <3>4. QED
      BY <3>1, <3>2, <3>3 DEF Shows
  <2>3. Seen(text)[q - 1] = Seen(text)[p] \o SubSeq(text, p + 1, q - 1)
    <3>1. q - 1 \in p..Len(text)
      OBVIOUS
    <3>2. QED
      BY <2>1, <3>1, SeenShown
  <2>4. Seen(text)[e] = Seen(text)[q - 1]
    <3>1. q - 1 \in 0..Len(text) /\ e \in (q - 1)..Len(text) /\ (q - 1) + 1 = q
      BY <1>4
    <3>2. \A i \in ((q - 1) + 1)..e : ~Shows(text, i)
      BY <2>2, <3>1
    <3>3. QED
      BY <3>1, <3>2, SeenHidden
  <2>5. QED
    BY <1>4, <1>8, <1>9, <1>11, <2>3, <2>4 DEF think, inside
<1>12. QED
  BY <1>2, <1>10, <1>11

(* No tag stands behind a clean cut.                                       *)
LEMMA RestWithoutTag ==
  ASSUME NEW C, NEW text \in Seq(C), NEW p \in 0..Len(text),
         Clean(TagOf(Inside(text)[p]), text, p),
         \A s \in (p + 1)..Len(text) : ~StandsAt(TagOf(Inside(text)[p]), text, s),
         NEW r \in p..Len(text)
  PROVE  /\ Inside(text)[r] = Inside(text)[p]
         /\ Seen(text)[r] = IF Inside(text)[p] THEN Seen(text)[p]
                            ELSE Seen(text)[p] \o SubSeq(text, p + 1, r)
<1> DEFINE inside == Inside(text)
           think == inside[p]
           tag == TagOf(think)
<1>1. \A i \in 0..Len(text) : inside[i] \in BOOLEAN
  BY InsideUnfolds
<1>2. think \in BOOLEAN
  BY <1>1
<1>3. Len(tag) \in Nat \ {0}
  BY <1>2, Tags
<1>5. Clean(tag, text, p) /\ \A s \in (p + 1)..Len(text) : ~StandsAt(tag, text, s)
  OBVIOUS
<1> HIDE DEF think, tag, inside
<1>6. ASSUME NEW i \in (p + 1)..Len(text)
      PROVE  ~EndsAt(tag, text, i)
  <2> SUFFICES ASSUME EndsAt(tag, text, i)
               PROVE  FALSE
    OBVIOUS
  <2> DEFINE s == i - Len(tag) + 1
  <2>1. i \in 1..Len(text)
    OBVIOUS
  <2>2. i >= Len(tag) /\ StandsAt(tag, text, s)
    BY <1>2, <2>1, EndsAtIs DEF tag
  <2>3. s \in Nat \ {0} /\ s + Len(tag) - 1 = i /\ i > p /\ p \in Nat
    BY <1>3, <2>1, <2>2
  <2> HIDE DEF s
  <2>4. s > p
    BY <1>3, <1>5, <2>2, <2>3, StandsBehind
  <2>5. s \in (p + 1)..Len(text)
    BY <1>3, <2>3, <2>4
  <2>6. QED
    BY <1>5, <2>2, <2>5
<1>7. \A i \in p..Len(text) : inside[i] = think
  <2>1. Len(text) \in p..Len(text)
    OBVIOUS
  <2>2. \A i \in (p + 1)..Len(text) : ~EndsAt(TagOf(Inside(text)[p]), text, i)
    BY <1>6 DEF tag, think, inside
  <2>3. QED
    BY <2>1, <2>2, InsideStays DEF think, inside
<1>8. CASE think = TRUE
  <2>1. ASSUME NEW i \in (p + 1)..r
        PROVE  ~Shows(text, i)
    <3>1. i - 1 \in p..Len(text)
      OBVIOUS
    <3>2. QED
      BY <1>7, <1>8, <3>1 DEF Shows, inside
  <2>2. Seen(text)[r] = Seen(text)[p]
    BY <2>1, SeenHidden
  <2>3. QED
    BY <1>7, <1>8, <2>2 DEF think, inside
<1>9. CASE think = FALSE
  <2>1. ASSUME NEW i \in (p + 1)..r
        PROVE  Shows(text, i)
    <3>1. i - 1 \in p..Len(text) /\ \A j \in i..Len(text) : j \in p..Len(text)
      OBVIOUS
    <3>2. QED
      BY <1>7, <1>9, <3>1 DEF Shows, Opens, inside
  <2>2. Seen(text)[r] = Seen(text)[p] \o SubSeq(text, p + 1, r)
    BY <2>1, SeenShown
  <2>3. QED
    BY <1>7, <1>9, <2>2 DEF think, inside
<1>10. QED
  BY <1>2, <1>8, <1>9

(* n is the length of the longest end of the text that begins the tag.     *)
HeldBack(tag, text, n) ==
  /\ n \in 0..(Len(tag) - 1) /\ n <= Len(text)
  /\ \A k \in 1..n : text[Len(text) - n + k] = tag[k]
  /\ \A m \in (n + 1)..(Len(tag) - 1) : m <= Len(text) =>
       \E k \in 1..m : text[Len(text) - m + k] # tag[k]

LEMMA PartialTailIs ==
  ASSUME NEW C, NEW text \in Seq(C), NEW think \in BOOLEAN
  PROVE  HeldBack(TagOf(think), text, PartialTail(TagOf(think), text))
<1> DEFINE tag == TagOf(think)
           A == Range(OpenTag) \cup Range(CloseTag)
           S == {n \in 0..Len(tag) - 1 : n <= Len(text) /\ IsSuffix(SubSeq(tag, 1, n), text)}
           Fits(n) == \A k \in 1..n : text[Len(text) - n + k] = tag[k]
<1>1. tag \in Seq(A) /\ Len(tag) \in Nat \ {0} /\ Len(text) \in Nat
  BY Tags
<1> HIDE DEF tag, A
<1>2. ASSUME NEW n \in 0..Len(tag) - 1, n <= Len(text)
      PROVE  n \in S <=> Fits(n)
  <2>1. n \in 0..Len(tag)
    BY <1>1
  <2>2. IsSuffix(SubSeq(tag, 1, n), text) <=> Fits(n)
    BY <1>1, <1>2, <2>1, SuffixIs
  <2>3. QED
    BY <1>2, <2>2
<1>3. 0 \in S
  BY <1>1, <1>2
<1>4. Len(tag) - 1 \in Nat /\ S \in SUBSET (0..(Len(tag) - 1)) /\ S # {}
  BY <1>1, <1>3
<1>5. Max(S) \in S /\ \A y \in S : Max(S) >= y
  <2> HIDE DEF S
  <2>1. QED
    BY <1>4, GreatestNat
<1> DEFINE n == Max(S)
<1>6. n \in 0..Len(tag) - 1 /\ n <= Len(text)
  BY <1>5
<1>7. Fits(n)
  BY <1>2, <1>5, <1>6
<1>8. ASSUME NEW m \in (n + 1)..(Len(tag) - 1), m <= Len(text)
      PROVE  ~Fits(m)
  <2>1. m \in 0..Len(tag) - 1 /\ ~(n >= m)
    BY <1>1, <1>6
  <2>2. m \notin S
    BY <1>5, <2>1
  <2>3. QED
    BY <1>2, <1>8, <2>1, <2>2
<1>9. PartialTail(tag, text) = n
  BY DEF PartialTail
<1> HIDE DEF n
<1>10. QED
  BY <1>6, <1>7, <1>8, <1>9 DEF HeldBack, tag

(* What is held back keeps the cut clean.                                  *)
LEMMA CleanBeforeTail ==
  ASSUME NEW C, NEW text \in Seq(C), NEW think \in BOOLEAN, NEW p \in 0..Len(text),
         Clean(TagOf(think), text, p),
         \A s \in (p + 1)..Len(text) : ~StandsAt(TagOf(think), text, s),
         NEW buffer, buffer = SubSeq(text, p + 1, Len(text)),
         NEW n, HeldBack(TagOf(think), buffer, n)
  PROVE  /\ Len(text) - n \in p..Len(text)
         /\ Clean(TagOf(think), text, Len(text) - n)
<1> DEFINE tag == TagOf(think)
           r == Len(text) - n
<1>1. /\ Len(buffer) = Len(text) - p
      /\ \A i \in 1..Len(buffer) : buffer[i] = text[p + i]
  OBVIOUS
<1>2. Len(tag) \in Nat \ {0} /\ Len(text) \in Nat
  BY Tags
<1> HIDE DEF tag
<1>3. n \in Nat /\ n <= Len(buffer) /\ n < Len(tag)
  BY <1>2 DEF HeldBack, tag
<1>4. r \in p..Len(text)
  BY <1>1, <1>2, <1>3
<1>5. ASSUME NEW s \in 1..r, s + Len(tag) - 1 > r
      PROVE  \E k \in 1..Len(tag) : s + k - 1 <= Len(text) /\ text[s + k - 1] # tag[k]
  <2>1. CASE s <= p
    <3>1. s \in 1..p /\ s + Len(tag) - 1 > p
      BY <1>2, <1>4, <1>5, <2>1
    <3>2. QED
      BY <3>1 DEF Clean, tag
  <2>2. CASE s > p /\ s + Len(tag) - 1 <= Len(text)
    <3>1. s \in (p + 1)..Len(text)
      BY <1>4, <2>2
    <3>2. ~StandsAt(tag, text, s)
      BY <3>1 DEF tag
    <3>3. PICK k \in 1..Len(tag) : text[s + k - 1] # tag[k]
      BY <2>2, <3>2 DEF StandsAt
    <3>4. s + k - 1 <= Len(text)
      BY <1>2, <2>2
    <3>5. QED
      BY <3>3, <3>4
  <2>3. CASE s > p /\ s + Len(tag) - 1 > Len(text)
    <3> DEFINE m == Len(text) - s + 1
    <3>1. m \in (n + 1)..(Len(tag) - 1) /\ m <= Len(buffer)
      BY <1>1, <1>2, <1>3, <1>4, <2>3
    <3>2. PICK k \in 1..m : buffer[Len(buffer) - m + k] # tag[k]
      BY <3>1 DEF HeldBack, tag
    <3>3. Len(buffer) - m + k \in 1..Len(buffer) /\ p + (Len(buffer) - m + k) = s + k - 1
      BY <1>1, <1>2, <3>1
    <3>4. buffer[Len(buffer) - m + k] = text[s + k - 1]
      BY <1>1, <3>3
    <3>5. k \in 1..Len(tag) /\ s + k - 1 <= Len(text)
      BY <1>2, <3>1
    <3>6. QED
      BY <3>2, <3>4, <3>5
  <2>4. QED
    BY <1>2, <1>4, <2>1, <2>2, <2>3
<1>6. QED
  BY <1>4, <1>5 DEF Clean, tag

-----------------------------------------------------------------------------
Filters(C) == [think : BOOLEAN, buffer : Seq(C), out : Seq(C)]

(* What the filter holds back begins its tag and is not all of it.         *)
Settled(f) ==
  /\ Len(f.buffer) < Len(TagOf(f.think))
  /\ \A k \in 1..Len(f.buffer) : f.buffer[k] = TagOf(f.think)[k]

LEMMA SettledPrefix ==
  ASSUME NEW C, NEW f, f.buffer \in Seq(C), f.think \in BOOLEAN, Settled(f)
  PROVE  IsStrictPrefix(f.buffer, IF f.think THEN CloseTag ELSE OpenTag)
<1> DEFINE tag == TagOf(f.think)
           A == Range(OpenTag) \cup Range(CloseTag)
           b == f.buffer
<1>1. tag \in Seq(A) /\ b \in Seq(C)
  BY Tags
<1>2. Len(b) < Len(tag) /\ \A k \in 1..Len(b) : b[k] = tag[k]
  BY DEF Settled
<1>3. tag = IF f.think THEN CloseTag ELSE OpenTag
  BY DEF TagOf
<1> HIDE DEF tag, A, b
<1>4. SubSeq(b, 1, Len(b)) = SubSeq(tag, 1, Len(b))
  BY <1>1, <1>2
<1>5. QED
  BY <1>2, <1>3, <1>4 DEF IsStrictPrefix, IsPrefix, b

(* A round ends at a tag, or with what may be the beginning of one.        *)
LEMMA ScanIs ==
  ASSUME NEW C, NEW f \in Filters(C)
  PROVE  LET b   == f.buffer
             tag == TagOf(f.think)
         IN \/ \E i \in 1..Len(b) :
                 /\ StandsAt(tag, b, i)
                 /\ \A s \in 1..(i - 1) : ~StandsAt(tag, b, s)
                 /\ Scan(f) = [think  |-> ~f.think,
                               buffer |-> SubSeq(b, i + Len(tag), Len(b)),
                               out    |-> IF f.think THEN f.out
                                          ELSE f.out \o SubSeq(b, 1, i - 1)]
            \/ /\ \A s \in 1..Len(b) : ~StandsAt(tag, b, s)
               /\ \E n : /\ HeldBack(tag, b, n)
                         /\ Scan(f) = [think  |-> f.think,
                                       buffer |-> SubSeq(b, Len(b) - n + 1, Len(b)),
                                       out    |-> IF f.think THEN f.out
                                                  ELSE f.out \o SubSeq(b, 1, Len(b) - n)]
<1> DEFINE b == f.buffer
           tag == TagOf(f.think)
           found == Occurrences(tag, b)
<1>1. f.think \in BOOLEAN /\ b \in Seq(C) /\ Len(b) \in Nat
  BY DEF Filters
<1>2. Len(tag) \in Nat \ {0}
  BY <1>1, Tags
<1>3. found = {s \in 1..Len(b) : StandsAt(tag, b, s)}
  BY <1>1, OccurrencesAre
<1>4. tag = IF f.think THEN CloseTag ELSE OpenTag
  BY DEF TagOf
<1> HIDE DEF b, tag, found
<1>5. CASE found # {}
  <2> DEFINE i == Min(found)
  <2>1. i \in found /\ \A y \in found : i <= y
    <3>1. found \in SUBSET Nat
      BY <1>3
    <3>2. QED
      BY <1>5, <3>1, LeastNat
  <2> HIDE DEF i
  <2>2. i \in 1..Len(b) /\ StandsAt(tag, b, i)
    BY <1>3, <2>1
  <2>3. \A s \in 1..(i - 1) : ~StandsAt(tag, b, s)
    BY <1>1, <1>3, <2>1, <2>2
  <2>4. (i - 1) + Len(tag) + 1 = i + Len(tag)
    BY <1>2, <2>2
  <2>5. Scan(f) = [think  |-> ~f.think,
                   buffer |-> SubSeq(b, (i - 1) + Len(tag) + 1, Len(b)),
                   out    |-> IF f.think THEN f.out
                              ELSE f.out \o SubSeq(b, 1, i - 1)]
    BY <1>4, <1>5, Zenon DEF Scan, found, tag, b, i
  <2>6. QED
    BY <2>2, <2>3, <2>4, <2>5 DEF b, tag
<1>6. CASE found = {}
  <2> DEFINE n == PartialTail(tag, b)
  <2>1. HeldBack(tag, b, n)
    BY <1>1, PartialTailIs DEF tag
  <2>2. \A s \in 1..Len(b) : ~StandsAt(tag, b, s)
    BY <1>3, <1>6
  <2> HIDE DEF n
  <2>3. n \in Nat
    BY <1>2, <2>1 DEF HeldBack
  <2>4. Scan(f) = [think  |-> f.think,
                   buffer |-> SubSeq(b, (Len(b) - n) + 0 + 1, Len(b)),
                   out    |-> IF f.think THEN f.out
                              ELSE f.out \o SubSeq(b, 1, Len(b) - n)]
    BY <1>4, <1>6, Zenon DEF Scan, found, tag, b, n
  <2>5. (Len(b) - n) + 0 + 1 = Len(b) - n + 1
    BY <1>1, <2>3
  <2>6. QED
    BY <2>1, <2>2, <2>4, <2>5 DEF b, tag
<1>7. QED
  BY <1>5, <1>6

LEMMA PartOfRest ==
  ASSUME NEW C, NEW text \in Seq(C), NEW p \in 0..Len(text),
         NEW b, b = SubSeq(text, p + 1, Len(text)),
         NEW u \in 1..(Len(b) + 1), NEW v \in (u - 1)..Len(b)
  PROVE  SubSeq(b, u, v) = SubSeq(text, p + u, p + v)
<1> DEFINE x == SubSeq(b, u, v)
           y == SubSeq(text, p + u, p + v)
<1>1. /\ b \in Seq(C) /\ Len(b) = Len(text) - p
      /\ \A k \in 1..Len(b) : b[k] = text[p + k]
  OBVIOUS
<1>2. x \in Seq(C) /\ Len(x) = v - u + 1 /\ \A k \in 1..(v - u + 1) : x[k] = b[u + k - 1]
  BY <1>1
<1>3. y \in Seq(C) /\ Len(y) = v - u + 1 /\ \A k \in 1..(v - u + 1) : y[k] = text[p + u + k - 1]
  BY <1>1
<1> HIDE DEF x, y
<1>4. ASSUME NEW k \in 1..(v - u + 1)
      PROVE  x[k] = y[k]
  <2>1. u + k - 1 \in 1..Len(b) /\ p + (u + k - 1) = p + u + k - 1
    BY <1>1
  <2>2. QED
    BY <1>1, <1>2, <1>3, <2>1
<1>5. x = y
  BY <1>2, <1>3, <1>4
<1>6. QED
  BY <1>5 DEF x, y

LEMMA JoinParts ==
  ASSUME NEW C, NEW a \in Seq(C), NEW b \in Seq(C), NEW c \in Seq(C)
  PROVE  a \o (b \o c) = (a \o b) \o c
BY ConcatAssociative

(* A round moves the cut forward.                                          *)
LEMMA ScanCut ==
  ASSUME NEW C, NEW text \in Seq(C), NEW before \in Seq(C), NEW f \in Filters(C),
         NEW p, Cut(text, p, f.think, f.buffer, before \o f.out)
  PROVE  /\ Scan(f) \in Filters(C)
         /\ \E r : Cut(text, r, Scan(f).think, Scan(f).buffer, before \o Scan(f).out)
         /\ \/ Settled(Scan(f))
            \/ ~Settled(f) /\ Len(Scan(f).buffer) < Len(f.buffer)
<1> DEFINE b == f.buffer
           think == f.think
           tag == TagOf(think)
           g == Scan(f)
           O(v) == IF think THEN f.out ELSE f.out \o SubSeq(b, 1, v)
<1>1. /\ think \in BOOLEAN /\ b \in Seq(C) /\ f.out \in Seq(C)
      /\ p \in 0..Len(text) /\ b = SubSeq(text, p + 1, Len(text))
      /\ think = Inside(text)[p] /\ before \o f.out = Seen(text)[p]
      /\ Clean(tag, text, p)
  BY DEF Filters, Cut
<1>2. Len(tag) \in Nat \ {0}
  BY <1>1, Tags
<1>3. /\ Len(b) = Len(text) - p /\ Len(b) \in Nat
      /\ \A k \in 1..Len(b) : b[k] = text[p + k]
  BY <1>1
<1>4. ASSUME NEW v \in 0..Len(b)
      PROVE  /\ O(v) \in Seq(C)
             /\ before \o O(v) = IF think THEN Seen(text)[p]
                                 ELSE Seen(text)[p] \o SubSeq(text, p + 1, p + v)
  <2> DEFINE part == SubSeq(b, 1, v)
  <2>1. part = SubSeq(text, p + 1, p + v)
    <3>1. 1 \in 1..(Len(b) + 1) /\ v \in (1 - 1)..Len(b)
      BY <1>3
    <3>2. QED
      BY <1>1, <3>1, PartOfRest
  <2>2. part \in Seq(C) /\ f.out \in Seq(C) /\ before \in Seq(C)
    BY <1>1
  <2> HIDE DEF part
  <2>3. before \o (f.out \o part) = (before \o f.out) \o part
    <3> DEFINE o == f.out
    <3>1. before \in Seq(C) /\ o \in Seq(C) /\ part \in Seq(C)
      BY <2>2
    <3> HIDE DEF o
    <3>2. before \o (o \o part) = (before \o o) \o part
      BY ONLY <3>1, JoinParts
    <3>3. QED
      BY <3>2 DEF o
  <2>4. f.out \o part \in Seq(C)
    BY <2>2
  <2>5. CASE think
    BY <1>1, <2>5
  <2>6. CASE ~think
    BY <1>1, <2>1, <2>3, <2>4, <2>6 DEF part
  <2>7. QED
    BY <2>5, <2>6
<1>5. ASSUME NEW s \in 1..Len(b)
      PROVE  StandsAt(tag, b, s) <=> StandsAt(tag, text, p + s)
  <2>1. s + Len(tag) - 1 <= Len(b) <=> (p + s) + Len(tag) - 1 <= Len(text)
    BY <1>1, <1>2, <1>3
  <2>2. ASSUME s + Len(tag) - 1 <= Len(b), NEW k \in 1..Len(tag)
        PROVE  b[s + k - 1] = text[(p + s) + k - 1]
    <3>1. s + k - 1 \in 1..Len(b) /\ p + (s + k - 1) = (p + s) + k - 1
      BY <1>1, <1>2, <1>3, <2>2
    <3>2. QED
      BY <1>3, <3>1
  <2> HIDE DEF b, tag
  <2>3. QED
    BY <2>1, <2>2 DEF StandsAt
<1> DEFINE N == Len(b)
           M == Len(text)
           L == Len(tag)
<1>sizes. N \in Nat /\ M \in Nat /\ L \in Nat \ {0} /\ p \in Nat /\ N = M - p
  BY <1>1, <1>2, <1>3
<1>state. think = Inside(text)[p]
  BY <1>1
<1>part. ASSUME NEW u \in 1..(N + 1), NEW v \in (u - 1)..N
         PROVE  /\ SubSeq(b, u, v) = SubSeq(text, p + u, p + v)
                /\ SubSeq(b, u, v) \in Seq(C)
                /\ Len(SubSeq(b, u, v)) = v - u + 1
                /\ \A k \in 1..(v - u + 1) : SubSeq(b, u, v)[k] = b[u + k - 1]
  <2>1. SubSeq(b, u, v) = SubSeq(text, p + u, p + v)
    BY <1>1, PartOfRest
  <2>2. b \in Seq(C) /\ u \in 1..(Len(b) + 1) /\ v \in (u - 1)..Len(b)
    BY <1>1
  <2> HIDE DEF b, N
  <2>3. /\ SubSeq(b, u, v) \in Seq(C)
        /\ Len(SubSeq(b, u, v)) = v - u + 1
        /\ \A k \in 1..(v - u + 1) : SubSeq(b, u, v)[k] = b[u + k - 1]
    BY ONLY <2>2
  <2>4. QED
    BY <2>1, <2>3
<1> HIDE DEF b, think, tag, g
<1>6. ASSUME NEW i \in 1..Len(b),
             StandsAt(tag, b, i), \A s \in 1..(i - 1) : ~StandsAt(tag, b, s),
             g = [think |-> ~think, buffer |-> SubSeq(b, i + Len(tag), Len(b)),
                  out |-> O(i - 1)]
      PROVE  /\ g \in Filters(C)
             /\ \E r : Cut(text, r, g.think, g.buffer, before \o g.out)
             /\ ~Settled(f) /\ Len(g.buffer) < Len(b)
  <2> DEFINE q == p + i
             e == q + Len(tag) - 1
  <2>1. q \in (p + 1)..Len(text) /\ q - p = i
    BY <1>1, <1>3
  <2>2. StandsAt(tag, text, q)
    BY <1>5, <1>6
  <2>3. ASSUME NEW s \in (p + 1)..(q - 1)
        PROVE  ~StandsAt(tag, text, s)
    <3>1. s - p \in 1..(i - 1) /\ s - p \in 1..Len(b) /\ p + (s - p) = s
      BY <1>1, <1>3, <2>1
    <3>2. ~StandsAt(tag, b, s - p)
      BY <1>6, <3>1
    <3>3. QED
      BY <1>5, <3>1, <3>2
  <2>4. /\ e \in q..Len(text)
        /\ Inside(text)[e] = ~think
        /\ Clean(TagOf(~think), text, e)
        /\ Seen(text)[e] = IF think THEN Seen(text)[p]
                           ELSE Seen(text)[p] \o SubSeq(text, p + 1, q - 1)
    <3> HIDE DEF q, e
    <3>1. /\ text \in Seq(C) /\ p \in 0..Len(text) /\ q \in (p + 1)..Len(text)
          /\ Clean(TagOf(Inside(text)[p]), text, p)
          /\ StandsAt(TagOf(Inside(text)[p]), text, q)
          /\ \A s \in (p + 1)..(q - 1) : ~StandsAt(TagOf(Inside(text)[p]), text, s)
          /\ e = q + Len(TagOf(Inside(text)[p])) - 1
      BY <1>1, <2>1, <2>2, <2>3 DEF e, tag
    <3>2. /\ e \in q..Len(text)
          /\ Inside(text)[e] = ~Inside(text)[p]
          /\ Clean(TagOf(~Inside(text)[p]), text, e)
          /\ Seen(text)[e] = IF Inside(text)[p] THEN Seen(text)[p]
                             ELSE Seen(text)[p] \o SubSeq(text, p + 1, q - 1)
      BY ONLY <3>1, TurnAtTag
    <3>3. QED
      BY ONLY <1>state, <3>2
  <2>5. i - 1 \in 0..Len(b) /\ p + (i - 1) = q - 1
    BY ONLY <1>6, <2>1, <1>sizes
  <2>6. O(i - 1) \in Seq(C) /\ before \o O(i - 1) = Seen(text)[e]
    BY <1>4, <2>4, <2>5
  <2>room. /\ i \in Nat \ {0} /\ i + L \in 1..(N + 1) /\ N \in ((i + L) - 1)..N
    <3> HIDE DEF N, M, L
    <3>1. i + L - 1 <= N
      BY <1>6 DEF StandsAt, N, L
    <3>2. i \in 1..N
      BY <1>6 DEF N
    <3>3. QED
      BY <1>sizes, <3>1, <3>2
  <2>7. SubSeq(b, i + Len(tag), Len(b)) = SubSeq(text, e + 1, Len(text))
    <3>1. p + (i + L) = e + 1 /\ p + N = M
      BY <1>sizes, <2>1
    <3>2. SubSeq(b, i + L, N) = SubSeq(text, p + (i + L), p + N)
      BY <1>part, <2>room
    <3>3. QED
      BY <3>1, <3>2
  <2>8. /\ SubSeq(b, i + Len(tag), Len(b)) \in Seq(C)
        /\ Len(SubSeq(b, i + Len(tag), Len(b))) < Len(b)
    <3>1. SubSeq(b, i + L, N) \in Seq(C) /\ Len(SubSeq(b, i + L, N)) = N - (i + L) + 1
      BY <1>part, <2>room
    <3>2. N - (i + L) + 1 < N
      BY <1>sizes, <1>6
    <3>3. QED
      BY <3>1, <3>2
  <2>9. g \in Filters(C) /\ Len(g.buffer) < Len(b)
    BY <1>1, <1>6, <2>6, <2>8 DEF Filters
  <2>10. Cut(text, e, g.think, g.buffer, before \o g.out)
    <3>1. e \in 0..Len(text)
      BY <1>1, <2>1, <2>4
    <3>2. g.think = ~think /\ g.buffer = SubSeq(b, i + Len(tag), Len(b)) /\ g.out = O(i - 1)
      BY <1>6
    <3>3. /\ g.think = Inside(text)[e] /\ Clean(TagOf(g.think), text, e)
          /\ g.buffer = SubSeq(text, e + 1, Len(text))
          /\ before \o g.out = Seen(text)[e]
      <4> HIDE DEF e, O
      <4>1. QED
        BY ONLY <2>4, <2>6, <2>7, <3>2
    <3> HIDE DEF e
    <3>4. QED
      BY ONLY <3>1, <3>3 DEF Cut
  <2>11. ~Settled(f)
    BY ONLY <1>sizes, <1>6 DEF Settled, StandsAt, b, tag, think
  <2>12. QED
    BY <2>9, <2>10, <2>11
<1>7. ASSUME \A s \in 1..Len(b) : ~StandsAt(tag, b, s),
             NEW n, HeldBack(tag, b, n),
             g = [think |-> think, buffer |-> SubSeq(b, Len(b) - n + 1, Len(b)),
                  out |-> O(Len(b) - n)]
      PROVE  /\ g \in Filters(C)
             /\ \E r : Cut(text, r, g.think, g.buffer, before \o g.out)
             /\ Settled(g)
  <2> DEFINE r == Len(text) - n
             held == SubSeq(b, Len(b) - n + 1, Len(b))
  <2>1. /\ n \in Nat /\ n <= Len(b) /\ n < Len(tag)
        /\ \A k \in 1..n : b[Len(b) - n + k] = tag[k]
    BY <1>2, <1>3, <1>7 DEF HeldBack
  <2>2. ASSUME NEW s \in (p + 1)..Len(text)
        PROVE  ~StandsAt(tag, text, s)
    <3>1. s - p \in 1..Len(b) /\ p + (s - p) = s
      BY <1>1, <1>3
    <3>2. ~StandsAt(tag, b, s - p)
      BY <1>7, <3>1
    <3>3. QED
      BY <1>5, <3>1, <3>2
  <2>3. r \in p..Len(text) /\ Clean(tag, text, r)
    <3>1. /\ text \in Seq(C) /\ think \in BOOLEAN /\ p \in 0..Len(text)
          /\ Clean(TagOf(think), text, p)
          /\ \A s \in (p + 1)..Len(text) : ~StandsAt(TagOf(think), text, s)
          /\ b = SubSeq(text, p + 1, Len(text)) /\ HeldBack(TagOf(think), b, n)
      BY <1>1, <1>7, <2>2 DEF tag
    <3>2. QED
      BY ONLY <3>1, CleanBeforeTail DEF tag
  <2>4. /\ Inside(text)[r] = think
        /\ Seen(text)[r] = IF think THEN Seen(text)[p]
                           ELSE Seen(text)[p] \o SubSeq(text, p + 1, r)
    <3>1. r \in p..Len(text)
      BY <2>3
    <3> HIDE DEF r
    <3>2. /\ text \in Seq(C) /\ p \in 0..Len(text)
          /\ Clean(TagOf(Inside(text)[p]), text, p)
          /\ \A s \in (p + 1)..Len(text) : ~StandsAt(TagOf(Inside(text)[p]), text, s)
      BY <1>1, <2>2 DEF tag
    <3>3. /\ Inside(text)[r] = Inside(text)[p]
          /\ Seen(text)[r] = IF Inside(text)[p] THEN Seen(text)[p]
                             ELSE Seen(text)[p] \o SubSeq(text, p + 1, r)
      BY ONLY <3>1, <3>2, RestWithoutTag
    <3>4. QED
      BY ONLY <1>state, <3>3
  <2>5. Len(b) - n \in 0..Len(b) /\ p + (Len(b) - n) = r
    BY ONLY <1>sizes, <2>1
  <2>6. O(Len(b) - n) \in Seq(C) /\ before \o O(Len(b) - n) = Seen(text)[r]
    BY <1>4, <2>4, <2>5
  <2>room. N - n + 1 \in 1..(N + 1) /\ N \in ((N - n + 1) - 1)..N /\ N - (N - n + 1) + 1 = n
    <3> HIDE DEF N, M, L
    <3>1. n \in Nat /\ n <= N
      BY <2>1 DEF N
    <3>2. QED
      BY <1>sizes, <3>1
  <2>7. held = SubSeq(text, r + 1, Len(text))
    <3>1. p + (N - n + 1) = r + 1 /\ p + N = M
      BY <1>sizes, <2>1
    <3>2. SubSeq(b, N - n + 1, N) = SubSeq(text, p + (N - n + 1), p + N)
      BY <1>part, <2>room
    <3>3. QED
      BY <3>1, <3>2
  <2>8. held \in Seq(C) /\ Len(held) = n /\ \A k \in 1..n : held[k] = tag[k]
    <3>1. held \in Seq(C) /\ Len(held) = n /\ \A k \in 1..n : held[k] = b[(N - n + 1) + k - 1]
      BY <1>part, <2>room
    <3>2. \A k \in 1..n : (N - n + 1) + k - 1 = N - n + k
      BY <1>sizes, <2>1
    <3>3. QED
      BY <2>1, <3>1, <3>2
  <2>9. g.think = think /\ g.buffer = held /\ g.out = O(Len(b) - n)
    BY <1>7
  <2>10. g \in Filters(C)
    BY <1>1, <1>7, <2>6, <2>8 DEF Filters
  <2>11. Cut(text, r, g.think, g.buffer, before \o g.out)
    <3>1. r \in 0..Len(text)
      BY <1>1, <2>3
    <3> HIDE DEF r, O, held
    <3>2. /\ g.think = Inside(text)[r] /\ Clean(TagOf(g.think), text, r)
          /\ g.buffer = SubSeq(text, r + 1, Len(text))
          /\ before \o g.out = Seen(text)[r]
      BY ONLY <2>3, <2>4, <2>6, <2>7, <2>9 DEF tag
    <3>3. QED
      BY ONLY <3>1, <3>2 DEF Cut
  <2>12. Settled(g)
    <3> HIDE DEF held, O
    <3>1. TagOf(g.think) = tag /\ g.buffer = held
      BY <2>9 DEF tag
    <3>2. QED
      BY ONLY <2>1, <2>8, <3>1 DEF Settled
  <2>13. QED
    BY <2>10, <2>11, <2>12
<1>8. QED
  <2> HIDE DEF g
  <2>1. \/ \E i \in 1..Len(b) :
             /\ StandsAt(tag, b, i)
             /\ \A s \in 1..(i - 1) : ~StandsAt(tag, b, s)
             /\ g = [think  |-> ~think,
                     buffer |-> SubSeq(b, i + Len(tag), Len(b)),
                     out    |-> O(i - 1)]
        \/ /\ \A s \in 1..Len(b) : ~StandsAt(tag, b, s)
           /\ \E n : /\ HeldBack(tag, b, n)
                     /\ g = [think  |-> think,
                             buffer |-> SubSeq(b, Len(b) - n + 1, Len(b)),
                             out    |-> O(Len(b) - n)]
    BY ScanIs, Zenon DEF g, b, tag, think
  <2> HIDE DEF O, b, tag, think
  <2>2. CASE \E i \in 1..Len(b) :
             /\ StandsAt(tag, b, i)
             /\ \A s \in 1..(i - 1) : ~StandsAt(tag, b, s)
             /\ g = [think  |-> ~think,
                     buffer |-> SubSeq(b, i + Len(tag), Len(b)),
                     out    |-> O(i - 1)]
    BY <1>6, <2>2 DEF g, b
  <2>3. CASE /\ \A s \in 1..Len(b) : ~StandsAt(tag, b, s)
             /\ \E n : /\ HeldBack(tag, b, n)
                       /\ g = [think  |-> think,
                               buffer |-> SubSeq(b, Len(b) - n + 1, Len(b)),
                               out    |-> O(Len(b) - n)]
    BY <1>7, <2>3 DEF g
  <2>4. QED
    BY <2>1, <2>2, <2>3

(* A round leaves a filter. *)
LEMMA ScanKeeps ==
  ASSUME NEW C, NEW f \in Filters(C)
  PROVE  Scan(f) \in Filters(C)
<1> DEFINE b == f.buffer
           tag == TagOf(f.think)
<1>1. f.think \in BOOLEAN /\ b \in Seq(C) /\ Len(b) \in Nat /\ f.out \in Seq(C)
  BY DEF Filters
<1>2. Len(tag) \in Nat \ {0}
  BY <1>1, Tags
<1>3. ASSUME NEW u \in Int, NEW v \in Int, u >= 1, v <= Len(b)
      PROVE  SubSeq(b, u, v) \in Seq(C)
  <2> HIDE DEF b
  <2>1. QED
    BY <1>1, <1>3
<1>4. PICK think \in BOOLEAN, u \in Int, v \in Int :
        /\ u >= 1 /\ v <= Len(b)
        /\ Scan(f) = [think |-> think, buffer |-> SubSeq(b, u, Len(b)),
                      out |-> IF f.think THEN f.out ELSE f.out \o SubSeq(b, 1, v)]
  <2> DEFINE S == Scan(f)
             Out(v) == IF f.think THEN f.out ELSE f.out \o SubSeq(b, 1, v)
             Part(u) == SubSeq(b, u, Len(b))
  <2>1. \/ \E i \in 1..Len(b) : S = [think |-> ~f.think, buffer |-> Part(i + Len(tag)), out |-> Out(i - 1)]
        \/ \E n : HeldBack(tag, b, n) /\ S = [think |-> f.think, buffer |-> Part(Len(b) - n + 1), out |-> Out(Len(b) - n)]
    BY ScanIs, Zenon
  <2> SUFFICES \E think \in BOOLEAN, u \in Int, v \in Int :
                 u >= 1 /\ v <= Len(b) /\ S = [think |-> think, buffer |-> Part(u), out |-> Out(v)]
    OBVIOUS
  <2> HIDE DEF S, Out, Part, b, tag
  <2>2. CASE \E i \in 1..Len(b) : S = [think |-> ~f.think, buffer |-> Part(i + Len(tag)), out |-> Out(i - 1)]
    <3>1. PICK i \in 1..Len(b) : S = [think |-> ~f.think, buffer |-> Part(i + Len(tag)), out |-> Out(i - 1)]
      BY <2>2
    <3>2. i + Len(tag) \in Int /\ i - 1 \in Int /\ i + Len(tag) >= 1 /\ i - 1 <= Len(b)
      BY <1>1, <1>2
    <3>3. (~f.think) \in BOOLEAN
      OBVIOUS
    <3>4. QED
      BY ONLY <3>1, <3>2, <3>3, Zenon
  <2>3. CASE \E n : HeldBack(tag, b, n) /\ S = [think |-> f.think, buffer |-> Part(Len(b) - n + 1), out |-> Out(Len(b) - n)]
    <3>1. PICK n : HeldBack(tag, b, n) /\ S = [think |-> f.think, buffer |-> Part(Len(b) - n + 1), out |-> Out(Len(b) - n)]
      BY <2>3
    <3>2. Len(b) - n + 1 \in Int /\ Len(b) - n \in Int /\ Len(b) - n + 1 >= 1 /\ Len(b) - n <= Len(b)
      BY <1>1, <1>2, <3>1 DEF HeldBack
    <3>3. QED
      BY ONLY <1>1, <3>1, <3>2, Zenon
  <2>4. QED
    BY <2>1, <2>2, <2>3
<1>5. SubSeq(b, u, Len(b)) \in Seq(C) /\ SubSeq(b, 1, v) \in Seq(C)
  <2>1. u \in Int /\ Len(b) \in Int /\ u >= 1 /\ Len(b) <= Len(b) /\ 1 \in Int /\ 1 >= 1
        /\ v \in Int /\ v <= Len(b)
    BY <1>1, <1>4
  <2> HIDE DEF b
  <2>2. QED
    BY <1>3, <2>1
<1> HIDE DEF b
<1>6. f.out \o SubSeq(b, 1, v) \in Seq(C)
  BY ONLY <1>1, <1>5
<1>7. QED
  BY <1>1, <1>4, <1>5, <1>6 DEF Filters

(* What the definition of Rounds says of one round.                        *)
LEMMA RoundsUnfold ==
  ASSUME NEW C, NEW f \in Filters(C)
  PROVE  /\ Rounds(f)[0] = f
         /\ \A n \in 1..Len(f.buffer) : Rounds(f)[n] = Scan(Rounds(f)[n - 1])
<1> DEFINE m == Len(f.buffer)
           S == Filters(C)
           step == [x \in (1..m) \X S |-> Scan(x[2])]
           Unfolds(g) == g = [n \in 0..m |-> IF n = 0 THEN f ELSE Scan(g[n - 1])]
           rounds == Rounds(f)
<1>1. m \in Nat
  BY DEF Filters
<1>2. step \in [(1..m) \X S -> S]
  <2>1. \A g \in S : Scan(g) \in S
    BY ScanKeeps
  <2> HIDE DEF S
  <2>2. QED
    BY <2>1
<1>3. f \in S
  OBVIOUS
<1> HIDE DEF m, S
<1>4. PICK g : FollowsSteps(S, f, m, step, g)
  <2>1. StepFunction(S, f, m, step)
    BY <1>1, <1>2, <1>3 DEF StepFunction
  <2> HIDE DEF step
  <2>2. QED
    BY ONLY <2>1, RecursionExists
<1> USE DEF FollowsSteps
<1>5. ASSUME NEW n \in 0..m
      PROVE  g[n] = IF n = 0 THEN f ELSE Scan(g[n - 1])
  <2>1. CASE n = 0
    BY <1>4, <2>1
  <2>2. CASE n # 0
    <3>1. n \in 1..m /\ n - 1 \in 0..m
      BY <1>1, <2>2
    <3>2. <<n, g[n - 1]>> \in (1..m) \X S
      BY <1>4, <3>1
    <3>3. step[<<n, g[n - 1]>>] = Scan(g[n - 1])
      BY <3>2
    <3> HIDE DEF step
    <3>4. QED
      BY <1>4, <2>2, <3>1, <3>3
  <2>3. QED
    BY <2>1, <2>2
<1> HIDE DEF step
<1>6. Unfolds(g)
  BY <1>4, <1>5
<1>7. rounds = CHOOSE h : Unfolds(h)
  BY DEF Rounds, m
<1> HIDE DEF rounds
<1>8. Unfolds(rounds)
  <2> HIDE DEF Unfolds
  <2>1. QED
    BY <1>6, <1>7, Zenon
<1>9. \A n \in 0..m : rounds[n] = IF n = 0 THEN f ELSE Scan(rounds[n - 1])
  BY <1>8
<1> HIDE DEF Unfolds
<1>10. 0 \in 0..m /\ \A n \in 1..m : n \in 0..m /\ n # 0
  BY <1>1
<1>11. QED
  BY <1>9, <1>10 DEF rounds, m

(* All the rounds move the cut forward, and after them the filter has only *)
(* what may be the beginning of a tag in its buffer.                       *)
LEMMA RoundsCut ==
  ASSUME NEW C, NEW text \in Seq(C), NEW before \in Seq(C), NEW f \in Filters(C),
         NEW p, Cut(text, p, f.think, f.buffer, before \o f.out),
         NEW g, g = Rounds(f)[Len(f.buffer)]
  PROVE  /\ g \in Filters(C)
         /\ \E r : Cut(text, r, g.think, g.buffer, before \o g.out)
         /\ Settled(g)
<1> DEFINE m == Len(f.buffer)
           R(n) == Rounds(f)[n]
           Good(h) == /\ h \in Filters(C)
                      /\ \E r : Cut(text, r, h.think, h.buffer, before \o h.out)
           T == {n \in Nat : n <= m => /\ Good(R(n))
                                       /\ Settled(R(n)) \/ Len(R(n).buffer) <= m - n}
<1>1. m \in Nat
  BY DEF Filters
<1>2. R(0) = f /\ \A n \in 1..m : R(n) = Scan(R(n - 1))
  BY RoundsUnfold
<1>3. ASSUME NEW h, Good(h)
      PROVE  /\ Good(Scan(h))
             /\ Settled(Scan(h)) \/ (~Settled(h) /\ Len(Scan(h).buffer) < Len(h.buffer))
             /\ Len(h.buffer) \in Nat /\ Len(Scan(h).buffer) \in Nat
  <2> DEFINE k == Scan(h)
  <2>1. PICK r : Cut(text, r, h.think, h.buffer, before \o h.out)
    BY <1>3
  <2>2. h \in Filters(C)
    BY <1>3
  <2>3. /\ k \in Filters(C)
        /\ \E q : Cut(text, q, k.think, k.buffer, before \o k.out)
        /\ \/ Settled(k)
           \/ ~Settled(h) /\ Len(k.buffer) < Len(h.buffer)
    BY <2>1, <2>2, ScanCut
  <2> HIDE DEF k
  <2>4. Len(h.buffer) \in Nat /\ Len(k.buffer) \in Nat
    BY ONLY <2>2, <2>3 DEF Filters
  <2>5. QED
    BY <2>3, <2>4 DEF k
<1>4. Good(f)
  OBVIOUS
<1> HIDE DEF Good, m, R
<1>5. 0 \in T
  BY <1>1, <1>2, <1>4 DEF m
<1>6. ASSUME NEW n \in Nat, n \in T
      PROVE  n + 1 \in T
  <2> SUFFICES ASSUME n + 1 <= m
               PROVE  /\ Good(R(n + 1))
                      /\ Settled(R(n + 1)) \/ Len(R(n + 1).buffer) <= m - (n + 1)
    OBVIOUS
  <2>1. n <= m /\ n + 1 \in 1..m /\ (n + 1) - 1 = n
    BY <1>1
  <2>2. R(n + 1) = Scan(R(n))
    BY <1>2, <2>1
  <2>3. Good(R(n)) /\ (Settled(R(n)) \/ Len(R(n).buffer) <= m - n)
    BY <1>6, <2>1
  <2>4. /\ Good(R(n + 1))
        /\ Settled(R(n + 1)) \/ (~Settled(R(n)) /\ Len(R(n + 1).buffer) < Len(R(n).buffer))
        /\ Len(R(n).buffer) \in Nat /\ Len(R(n + 1).buffer) \in Nat
    BY <1>3, <2>2, <2>3
  <2>5. QED
    BY <1>1, <2>3, <2>4
<1> HIDE DEF T
<1>7. m \in T
  BY <1>1, <1>5, <1>6, SetInduction
<1>8. Good(g) /\ (Settled(g) \/ Len(g.buffer) <= m - m)
  BY <1>1, <1>7 DEF T, R, m
<1>9. g \in Filters(C)
  BY <1>8 DEF Good
<1>10. CASE Len(g.buffer) <= m - m
  <2>1. Len(g.buffer) = 0 /\ g.think \in BOOLEAN
    BY <1>1, <1>9, <1>10 DEF Filters
  <2>2. Len(TagOf(g.think)) > 0
    BY <2>1, Tags
  <2>3. Settled(g)
    BY <2>1, <2>2 DEF Settled
  <2>4. QED
    BY <1>8, <2>3 DEF Good
<1>11. QED
  BY <1>8, <1>10 DEF Good

-----------------------------------------------------------------------------
(* What was said of a text stays true when it goes on.                     *)
LEMMA EndsAtLater ==
  ASSUME NEW C, NEW text \in Seq(C), NEW more \in Seq(C), NEW think \in BOOLEAN,
         NEW i \in 1..Len(text)
  PROVE  EndsAt(TagOf(think), text \o more, i) <=> EndsAt(TagOf(think), text, i)
<1> DEFINE tag == TagOf(think)
           all == text \o more
           s == i - Len(tag) + 1
<1>1. /\ all \in Seq(C) /\ Len(all) >= Len(text) /\ i \in 1..Len(all)
      /\ \A k \in 1..Len(text) : all[k] = text[k]
  OBVIOUS
<1>2. Len(tag) \in Nat \ {0} /\ Len(text) \in Nat /\ Len(all) \in Nat
  BY <1>1, Tags
<1>3. EndsAt(tag, all, i) <=> i >= Len(tag) /\ StandsAt(tag, all, s)
  <2> HIDE DEF all
  <2>1. QED
    BY <1>1, EndsAtIs
<1>4. EndsAt(tag, text, i) <=> i >= Len(tag) /\ StandsAt(tag, text, s)
  BY EndsAtIs
<1> HIDE DEF tag, all
<1>5. ASSUME i >= Len(tag)
      PROVE  StandsAt(tag, all, s) <=> StandsAt(tag, text, s)
  <2>1. s + Len(tag) - 1 = i /\ i <= Len(text) /\ i <= Len(all)
    BY ONLY <1>1, <1>2, i \in 1..Len(text)
  <2>2. ASSUME NEW k \in 1..Len(tag)
        PROVE  all[s + k - 1] = text[s + k - 1]
    <3>1. s + k - 1 \in 1..Len(text)
      BY <1>2, <1>5, <2>1
    <3>2. QED
      BY <1>1, <3>1
  <2> HIDE DEF s
  <2>3. QED
    BY <2>1, <2>2 DEF StandsAt
<1>6. QED
  BY <1>3, <1>4, <1>5 DEF tag, all

LEMMA InsideLater ==
  ASSUME NEW C, NEW text \in Seq(C), NEW more \in Seq(C)
  PROVE  \A i \in 0..Len(text) : Inside(text \o more)[i] = Inside(text)[i]
<1> DEFINE all == text \o more
           a == Inside(all)
           b == Inside(text)
           m == Len(text)
           T == {n \in Nat : n <= m => a[n] = b[n]}
<1>1. all \in Seq(C) /\ m \in Nat /\ \A i \in 1..m : i \in 1..Len(all)
  OBVIOUS
<1>2. /\ a[0] = FALSE
      /\ \A i \in 1..Len(all) : a[i] = IF EndsAt(TagOf(a[i - 1]), all, i) THEN ~a[i - 1] ELSE a[i - 1]
  <2> HIDE DEF all
  <2>1. QED
    BY <1>1, InsideUnfolds
<1>3. /\ b[0] = FALSE
      /\ \A i \in 0..m : b[i] \in BOOLEAN
      /\ \A i \in 1..m : b[i] = IF EndsAt(TagOf(b[i - 1]), text, i) THEN ~b[i - 1] ELSE b[i - 1]
  BY InsideUnfolds
<1>4. \A think \in BOOLEAN, i \in 1..m : EndsAt(TagOf(think), all, i) <=> EndsAt(TagOf(think), text, i)
  BY EndsAtLater
<1> HIDE DEF all, a, b, m
<1>5. 0 \in T
  BY <1>2, <1>3
<1>6. ASSUME NEW n \in Nat, n \in T
      PROVE  n + 1 \in T
  <2> SUFFICES ASSUME n + 1 <= m
               PROVE  a[n + 1] = b[n + 1]
    OBVIOUS
  <2> DEFINE i == n + 1
  <2>1. i \in 1..m /\ i - 1 = n /\ n \in 0..m /\ n <= m
    BY <1>1
  <2>2. a[n] = b[n]
    BY <1>6, <2>1
  <2> HIDE DEF i
  <2>3. b[n] \in BOOLEAN
    BY <1>3, <2>1
  <2>4. EndsAt(TagOf(b[n]), all, i) <=> EndsAt(TagOf(b[n]), text, i)
    BY <1>4, <2>1, <2>3
  <2>5. a[i] = b[i]
    BY <1>1, <1>2, <1>3, <2>1, <2>2, <2>4
  <2>6. QED
    BY <2>5 DEF i
<1> HIDE DEF T
<1>7. \A n \in Nat : n \in T
  BY <1>5, <1>6, SetInduction
<1>8. \A i \in 0..m : a[i] = b[i]
  BY <1>1, <1>7 DEF T
<1>9. QED
  BY <1>8 DEF a, b, all, m

LEMMA SeenLater ==
  ASSUME NEW C, NEW text \in Seq(C), NEW more \in Seq(C), NEW p \in 0..Len(text),
         Clean(TagOf(Inside(text)[p]), text, p)
  PROVE  Seen(text \o more)[p] = Seen(text)[p]
<1> DEFINE all == text \o more
           a == Seen(all)
           b == Seen(text)
           T == {n \in Nat : n <= p => a[n] = b[n]}
           L == Len(OpenTag)
<1>1. /\ all \in Seq(C) /\ Len(text) \in Nat /\ Len(all) \in Nat /\ Len(text) <= Len(all)
      /\ \A i \in 1..Len(text) : i \in 1..Len(all) /\ all[i] = text[i]
  OBVIOUS
<1>2. \A i \in 0..Len(text) : Inside(all)[i] = Inside(text)[i]
  BY InsideLater
<1>3. L \in Nat \ {0}
  BY Tags DEF TagOf
<1>4. Clean(TagOf(Inside(all)[p]), all, p)
  <2>1. Inside(text)[p] \in BOOLEAN
    BY InsideUnfolds
  <2>2. Clean(TagOf(Inside(text)[p]), all, p)
    BY <2>1, CleanLater
  <2>3. Inside(all)[p] = Inside(text)[p]
    BY <1>2
  <2>4. QED
    BY ONLY <2>2, <2>3
<1>5. \A j \in (p + 1)..Len(text) : Opens(text, j) => j - L >= p
  BY OpensBehind
<1>6. \A j \in (p + 1)..Len(all) : Opens(all, j) => j - L >= p
  <2>1. p \in 0..Len(all)
    BY <1>1
  <2> HIDE DEF all
  <2>2. QED
    BY <1>1, <1>4, <2>1, OpensBehind
<1>7. /\ a[0] = <<>>
      /\ \A i \in 1..Len(all) : a[i] = IF Shows(all, i) THEN Append(a[i - 1], all[i]) ELSE a[i - 1]
  <2> HIDE DEF all
  <2>1. QED
    BY <1>1, SeenUnfolds
<1>8. /\ b[0] = <<>>
      /\ \A i \in 1..Len(text) : b[i] = IF Shows(text, i) THEN Append(b[i - 1], text[i]) ELSE b[i - 1]
  BY SeenUnfolds
<1> HIDE DEF all, a, b, L
<1>9. ASSUME NEW i \in 1..p
      PROVE  Shows(all, i) <=> Shows(text, i)
  <2>1. Inside(all)[i - 1] = Inside(text)[i - 1]
    BY <1>1, <1>2
  <2>2. ASSUME NEW j \in i..p
        PROVE  Opens(all, j) <=> Opens(text, j)
    <3>1. j \in 0..Len(text) /\ j - 1 \in 0..Len(text)
      BY <1>1
    <3>2. QED
      BY <1>2, <3>1 DEF Opens
  <2>3. \A j \in i..Len(all) : j \in i..p \/ j \in (p + 1)..Len(all)
    BY <1>1
  <2>4. \A j \in i..Len(text) : j \in i..p \/ j \in (p + 1)..Len(text)
    BY <1>1
  <2>5. \A j \in i..p : j \in i..Len(all) /\ j \in i..Len(text)
    BY <1>1
  <2>6. \A j \in Int : j - L >= p => j - L >= i
    BY <1>3
  <2>7. (\A j \in i..Len(all) : Opens(all, j) => j - L >= i)
          <=> (\A j \in i..p : Opens(all, j) => j - L >= i)
    BY <1>1, <1>6, <2>3, <2>5, <2>6
  <2>8. (\A j \in i..Len(text) : Opens(text, j) => j - L >= i)
          <=> (\A j \in i..p : Opens(text, j) => j - L >= i)
    BY <1>1, <1>5, <2>4, <2>5, <2>6
  <2>9. QED
    BY <2>1, <2>2, <2>7, <2>8 DEF Shows, L
<1>10. 0 \in T
  BY <1>7, <1>8
<1>11. ASSUME NEW n \in Nat, n \in T
       PROVE  n + 1 \in T
  <2> SUFFICES ASSUME n + 1 <= p
               PROVE  a[n + 1] = b[n + 1]
    OBVIOUS
  <2> DEFINE i == n + 1
  <2>1. i \in 1..p /\ i \in 1..Len(text) /\ i - 1 = n /\ n <= p
    BY <1>1
  <2>2. a[n] = b[n]
    BY <1>11, <2>1
  <2> HIDE DEF i
  <2>3. a[i] = b[i]
    BY <1>1, <1>7, <1>8, <1>9, <2>1, <2>2
  <2>4. QED
    BY <2>3 DEF i
<1> HIDE DEF T
<1>12. p \in T
  BY <1>10, <1>11, SetInduction
<1>13. QED
  BY <1>12 DEF T, a, b, all

LEMMA CutLater ==
  ASSUME NEW C, NEW text \in Seq(C), NEW more \in Seq(C), NEW think \in BOOLEAN,
         NEW p, NEW buffer, NEW released, Cut(text, p, think, buffer, released)
  PROVE  Cut(text \o more, p, think, buffer \o more, released)
<1> DEFINE all == text \o more
           rest == SubSeq(text, p + 1, Len(text))
           after == SubSeq(all, p + 1, Len(all))
<1>1. /\ p \in 0..Len(text) /\ buffer = rest /\ think = Inside(text)[p]
      /\ released = Seen(text)[p] /\ Clean(TagOf(think), text, p)
  BY DEF Cut
<1>2. /\ all \in Seq(C) /\ Len(all) = Len(text) + Len(more) /\ p \in 0..Len(all)
      /\ Len(text) \in Nat /\ Len(more) \in Nat
      /\ \A k \in 1..Len(text) : all[k] = text[k]
      /\ \A k \in 1..Len(more) : all[Len(text) + k] = more[k]
  BY <1>1
<1>3. /\ rest \in Seq(C) /\ Len(rest) = Len(text) - p
      /\ \A k \in 1..(Len(text) - p) : rest[k] = text[p + k]
  BY <1>1
<1>4. /\ after \in Seq(C) /\ Len(after) = Len(all) - p
      /\ \A k \in 1..(Len(all) - p) : after[k] = all[p + k]
  <2>1. all \in Seq(C) /\ p \in 0..Len(all)
    BY <1>2
  <2> HIDE DEF all
  <2>2. QED
    BY ONLY <2>1
<1>5. think = Inside(all)[p]
  BY <1>1, InsideLater
<1>6. released = Seen(all)[p]
  <2>1. Clean(TagOf(Inside(text)[p]), text, p) /\ p \in 0..Len(text)
    BY <1>1
  <2>2. QED
    BY <1>1, <2>1, SeenLater
<1>7. Clean(TagOf(think), all, p)
  BY <1>1, CleanLater
<1> DEFINE both == rest \o more
<1> HIDE DEF all, rest, after
<1>8. /\ both \in Seq(C) /\ Len(both) = Len(rest) + Len(more)
      /\ \A k \in 1..Len(rest) : both[k] = rest[k]
      /\ \A k \in 1..Len(more) : both[Len(rest) + k] = more[k]
  <2>1. rest \in Seq(C) /\ more \in Seq(C)
    BY <1>3
  <2>2. QED
    BY ONLY <2>1
<1> HIDE DEF both
<1>9. Len(both) = Len(after)
  BY <1>1, <1>2, <1>3, <1>4, <1>8
<1>10. ASSUME NEW k \in 1..Len(after)
       PROVE  both[k] = after[k]
  <2>1. CASE k <= Len(rest)
    <3>1. k \in 1..Len(rest) /\ p + k \in 1..Len(text) /\ k \in 1..(Len(all) - p)
      BY <1>1, <1>2, <1>3, <1>4, <2>1
    <3>2. both[k] = text[p + k] /\ all[p + k] = text[p + k]
      BY ONLY <1>2, <1>3, <1>8, <3>1
    <3>3. QED
      BY ONLY <1>4, <3>1, <3>2
  <2>2. CASE k > Len(rest)
    <3>1. k - Len(rest) \in 1..Len(more) /\ k \in 1..(Len(all) - p)
          /\ Len(text) + (k - Len(rest)) = p + k /\ Len(rest) + (k - Len(rest)) = k
      BY <1>1, <1>2, <1>3, <1>4, <2>2
    <3>2. both[k] = more[k - Len(rest)] /\ all[p + k] = more[k - Len(rest)]
      BY ONLY <1>2, <1>8, <3>1
    <3>3. QED
      BY ONLY <1>4, <3>1, <3>2
  <2>3. QED
    BY <1>1, <1>2, <1>3, <1>4, <2>1, <2>2
<1>11. both = after
  <2>1. both \in Seq(C) /\ after \in Seq(C)
    BY <1>4, <1>8
  <2>2. QED
    BY ONLY <1>9, <1>10, <2>1
<1>12. QED
  BY <1>1, <1>2, <1>5, <1>6, <1>7, <1>11 DEF Cut, both, after, all

LEMMA CutAtStart == Cut(<<>>, 0, FALSE, <<>>, <<>>)
<1>1. <<>> \in Seq({}) /\ Len(<<>>) = 0
  OBVIOUS
<1>2. Inside(<<>>)[0] = FALSE
  BY <1>1, InsideUnfolds
<1>3. Seen(<<>>)[0] = <<>>
  BY <1>1, SeenUnfolds
<1>4. <<>> = SubSeq(<<>>, 0 + 1, Len(<<>>))
  OBVIOUS
<1>5. Clean(TagOf(FALSE), <<>>, 0)
  BY DEF Clean
<1>6. 0 \in 0..Len(<<>>)
  BY <1>1
<1>7. QED
  BY <1>2, <1>3, <1>4, <1>5, <1>6, Zenon DEF Cut

(* A piece of the text goes in.                                            *)
LEMMA FeedCut ==
  ASSUME NEW C, NEW text \in Seq(C), NEW piece \in Seq(C), NEW released \in Seq(C),
         NEW f \in Filters(C), NEW p, Cut(text, p, f.think, f.buffer, released),
         NEW g, g = Feed(f, piece)
  PROVE  /\ g \in Filters(C)
         /\ \E r : Cut(text \o piece, r, g.think, g.buffer, released \o g.out)
         /\ Settled(g)
<1> DEFINE all == text \o piece
           start == [think |-> f.think, buffer |-> f.buffer \o piece, out |-> <<>>]
<1>1. f.think \in BOOLEAN /\ f.buffer \in Seq(C)
  BY DEF Filters
<1>2. all \in Seq(C) /\ f.buffer \o piece \in Seq(C) /\ <<>> \in Seq(C)
  BY <1>1
<1>3. start \in Filters(C)
  BY <1>1, <1>2 DEF Filters
<1>4. released = released \o start.out
  OBVIOUS
<1>5. Cut(all, p, start.think, start.buffer, released)
  BY <1>1, CutLater
<1>6. g = Rounds(start)[Len(start.buffer)]
  BY DEF Feed
<1> HIDE DEF start, all
<1>7. Cut(all, p, start.think, start.buffer, released \o start.out)
  BY ONLY <1>4, <1>5
<1>8. QED
  BY <1>2, <1>3, <1>6, <1>7, RoundsCut DEF all

(* What the reader sees lacks of what is visible what the filter holds     *)
(* back, and that is shorter than a tag.                                   *)
LEMMA CutShows ==
  ASSUME NEW C, NEW text \in Seq(C), NEW f \in Filters(C), NEW released, NEW p,
         Cut(text, p, f.think, f.buffer, released), Settled(f)
  PROVE  /\ Visible(text) = released \o Flush(f)
         /\ released \in Seq(C)
         /\ IsPrefix(released, Visible(text))
         /\ Len(Visible(text)) - Len(released) < Len(OpenTag)
<1> DEFINE tag == TagOf(f.think)
           b == f.buffer
           r == Len(text)
<1>1. /\ p \in 0..r /\ b = SubSeq(text, p + 1, r) /\ f.think = Inside(text)[p]
      /\ released = Seen(text)[p] /\ Clean(tag, text, p)
      /\ b \in Seq(C) /\ f.think \in BOOLEAN
  BY DEF Cut, Filters
<1>2. Len(tag) \in Nat \ {0} /\ Len(OpenTag) \in Nat \ {0} /\ r \in Nat
  <2>1. Len(TagOf(FALSE)) \in Nat \ {0} /\ TagOf(FALSE) = OpenTag
    BY Tags DEF TagOf
  <2>2. Len(tag) \in Nat \ {0}
    BY <1>1, Tags
  <2>3. r \in Nat
    OBVIOUS
  <2>4. QED
    BY ONLY <2>1, <2>2, <2>3
<1>3. Len(b) = r - p
  BY <1>1
<1>4. Len(b) < Len(tag)
  BY DEF Settled
<1>5. released \in Seq(C)
  BY <1>1, SeenUnfolds
<1> HIDE DEF b, r, tag
<1>6. ASSUME NEW s \in (p + 1)..r
      PROVE  ~StandsAt(tag, text, s)
  <2>1. s + Len(tag) - 1 > r
    BY <1>1, <1>2, <1>3, <1>4
  <2>2. QED
    BY <1>2, <2>1 DEF StandsAt, r
<1>7. Seen(text)[r] = IF f.think THEN released ELSE released \o b
  <2>1. /\ text \in Seq(C) /\ p \in 0..Len(text) /\ r \in p..Len(text)
        /\ Clean(TagOf(Inside(text)[p]), text, p)
        /\ \A s \in (p + 1)..Len(text) : ~StandsAt(TagOf(Inside(text)[p]), text, s)
    BY <1>1, <1>2, <1>6 DEF tag, r
  <2>2. Seen(text)[r] = IF Inside(text)[p] THEN Seen(text)[p]
                        ELSE Seen(text)[p] \o SubSeq(text, p + 1, r)
    BY ONLY <2>1, RestWithoutTag
  <2>3. f.think = Inside(text)[p] /\ released = Seen(text)[p] /\ b = SubSeq(text, p + 1, r)
    BY <1>1
  <2>4. QED
    BY ONLY <2>2, <2>3
<1> DEFINE held == Flush(f)
           all == released \o held
<1>8. held \in Seq(C) /\ Len(held) < Len(OpenTag)
  BY <1>1, <1>2, <1>4 DEF Flush, tag, b, TagOf
<1>9. Visible(text) = all
  <2>1. released \o <<>> = released
    BY <1>5
  <2>2. QED
    BY <1>1, <1>7, <2>1 DEF Visible, Flush, r, b
<1> HIDE DEF held
<1>10. /\ all \in Seq(C) /\ Len(all) = Len(released) + Len(held) /\ Len(held) \in Nat
       /\ Len(released) \in Nat /\ SubSeq(all, 1, Len(released)) = SubSeq(released, 1, Len(released))
  BY ONLY <1>5, <1>8
<1> HIDE DEF all
<1>11. IsPrefix(released, all) /\ Len(all) - Len(released) < Len(OpenTag)
  BY <1>2, <1>8, <1>10 DEF IsPrefix
<1>12. QED
  BY <1>5, <1>9, <1>11 DEF all, held

(* The filter, given a whole text at once, leaves what is visible of it.   *)
LEMMA FilterOfWhole ==
  ASSUME NEW C, NEW text \in Seq(C)
  PROVE  StripThinkBlocks(text) = Visible(text)
<1> DEFINE f == Feed(NewFilter, text)
<1>1. /\ <<>> \in Seq(C) /\ <<>> \o text = text
      /\ NewFilter \in Filters(C) /\ NewFilter.think = FALSE /\ NewFilter.buffer = <<>>
  BY DEF NewFilter, Filters
<1>2. Cut(<<>>, 0, NewFilter.think, NewFilter.buffer, <<>>)
  BY <1>1, CutAtStart
<1>3. /\ f \in Filters(C)
      /\ \E r : Cut(<<>> \o text, r, f.think, f.buffer, <<>> \o f.out)
      /\ Settled(f)
  <2> DEFINE none == <<>>
             new == NewFilter
  <2>1. none \in Seq(C) /\ new \in Filters(C) /\ Cut(none, 0, new.think, new.buffer, none)
    BY <1>1, <1>2
  <2> HIDE DEF none, new
  <2>2. \A g : g = Feed(new, text) =>
          /\ g \in Filters(C)
          /\ \E r : Cut(none \o text, r, g.think, g.buffer, none \o g.out)
          /\ Settled(g)
    BY <2>1, FeedCut
  <2>3. QED
    BY <2>2 DEF none, new
<1> HIDE DEF f
<1>4. <<>> \o f.out = f.out
  BY <1>3 DEF Filters
<1>5. PICK r : Cut(text, r, f.think, f.buffer, f.out)
  BY ONLY <1>1, <1>3, <1>4
<1>6. Visible(text) = f.out \o Flush(f)
  BY <1>3, <1>5, CutShows
<1>7. QED
  BY <1>6 DEF StripThinkBlocks, f

-----------------------------------------------------------------------------
(* What lets a message through. *)
Admitted ==
  \/ verdict = "passed"
  \/ verdict = "off" /\ ~guarded
  \/ verdict = "unavailable" /\ ~forbidden

(* Before the screen and after a rejection there is no text anywhere; past *)
(* the screen the message was admitted.                                    *)
Gate ==
  /\ at = "screen" \/ ended = "rejected" =>
       raw = <<>> /\ shown = <<>> /\ recorded = Nothing
  /\ at # "screen" /\ ended # "rejected" => Admitted

(* A request ends exactly at its end. *)
Ending == ended # "no" <=> at = "end"

(* Nothing is recorded before the answer stands, and nothing changes the   *)
(* answer once it is recorded.                                             *)
Standing ==
  /\ at \in {"screen", "retrieve", "generate", "check", "record"} => recorded = Nothing
  /\ at = "deliver" => recorded = answer
  /\ recorded # Nothing => recorded = answer
  /\ status = "output_rejected" => answer = RejectedMessage
  /\ at \in {"screen", "retrieve", "generate", "check"} => status = "none"
  /\ ended = "done" => recorded = delivered
  /\ ended \in {"rejected", "error", "broken"} => recorded = Nothing

IInv == Gate /\ Ending /\ Standing

LEMMA InitInv == Init => IInv
  BY DEF Init, IInv, Gate, Ending, Standing

LEMMA NextInv == IInv /\ [Next]_vars => IInv'
<1> SUFFICES ASSUME IInv, [Next]_vars PROVE IInv'
  OBVIOUS
<1> USE DEF IInv, Gate, Ending, Standing, Admitted, End, GoOn, inputVars, textVars
<1>1. CASE Screen
  BY <1>1 DEF Screen, GuardVerdicts, LocalPolicyRejects
<1>2. CASE ScreenOff
  BY <1>2 DEF ScreenOff
<1>3. CASE Retrieve
  BY <1>3 DEF Retrieve
<1>4. CASE NoContext
  BY <1>4 DEF NoContext
<1>5. ASSUME NEW piece \in Pieces, Token(piece)
      PROVE  IInv'
  BY <1>5 DEF Token
<1>6. CASE TextEnds
  BY <1>6 DEF TextEnds
<1>7. CASE GatewayFails
  BY <1>7 DEF GatewayFails
<1>8. CASE Raise
  BY <1>8 DEF Raise
<1>9. CASE CheckPasses
  BY <1>9 DEF CheckPasses
<1>10. CASE CheckRejects
  BY <1>10 DEF CheckRejects
<1>11. CASE Record
  BY <1>11 DEF Record
<1>12. CASE Deliver
  BY <1>12 DEF Deliver
<1>13. CASE Disconnect
  BY <1>13 DEF Disconnect
<1>14. CASE UNCHANGED vars
  BY <1>14 DEF vars
<1>. QED
  BY <1>1, <1>2, <1>3, <1>4, <1>5, <1>6, <1>7, <1>8, <1>9, <1>10, <1>11, <1>12, <1>13, <1>14
  DEF Next

(* The inductive invariant holds in every reachable state. *)
THEOREM Invariance == Spec => []IInv
<1>1. IInv /\ [Next]_vars => IInv'
  BY NextInv
<1>. QED
  BY InitInv, <1>1, PTL DEF Spec

(* The model answers, and the memory changes, only for a message that the  *)
(* guard or the local policy admitted (_apply_input_guard).                *)
THEOREM AnswersOnlyScreened == Spec => []OnlyScreenedAnswered
<1>1. IInv => OnlyScreenedAnswered
  BY DEF IInv, Gate, Admitted, OnlyScreenedAnswered
<1>. QED
  BY <1>1, Invariance, PTL

(* What is remembered is what was delivered: the guarded answer, and no    *)
(* part of one that broke off (chat and event_source).                     *)
THEOREM RemembersTheAnswer == Spec => []MemoryHoldsTheAnswer
<1>1. IInv => MemoryHoldsTheAnswer
  BY DEF IInv, Standing, MemoryHoldsTheAnswer
<1>. QED
  BY <1>1, Invariance, PTL

-----------------------------------------------------------------------------
(* What a stream has sent of the model's text, the filter standing where   *)
(* it has cut it; and the answer that either endpoint makes of it.         *)
StreamInv ==
  /\ TypeOK
  /\ filter \in Filters(Chars) /\ Settled(filter)
  /\ at \in {"screen", "retrieve"} => raw = <<>> /\ filter = NewFilter /\ shown = <<>>
  /\ at = "generate" /\ kind = "stream" =>
       \E p : Cut(raw, p, filter.think, filter.buffer, shown)
  /\ at = "check" =>
       /\ answer = Strip(Visible(raw))
       /\ kind = "stream" => shown = Visible(raw)

LEMMA NewFilterIs ==
  /\ NewFilter \in Filters(Chars) /\ Settled(NewFilter)
  /\ Cut(<<>>, 0, NewFilter.think, NewFilter.buffer, <<>>)
<1>1. NewFilter.think = FALSE /\ NewFilter.buffer = <<>>
  BY DEF NewFilter
<1>2. Len(TagOf(FALSE)) \in Nat \ {0}
  BY Tags
<1>3. Settled(NewFilter)
  <2> DEFINE new == NewFilter
  <2>1. new.think = FALSE /\ new.buffer = <<>>
    BY <1>1
  <2> HIDE DEF new
  <2> DEFINE n == Len(new.buffer)
             L == Len(TagOf(new.think))
  <2>2. n = 0
    BY <2>1
  <2>3. L \in Nat \ {0}
    BY <1>2, <2>1
  <2> HIDE DEF n, L
  <2>4. n < L /\ \A k \in 1..n : FALSE
    BY ONLY <2>2, <2>3
  <2>5. QED
    BY <2>4, Zenon DEF Settled, new, n, L
<1>4. NewFilter \in Filters(Chars)
  BY DEF NewFilter, Filters
<1>5. QED
  BY <1>1, <1>3, <1>4, CutAtStart

LEMMA StreamInit == Init => StreamInv
<1> SUFFICES ASSUME Init PROVE StreamInv
  OBVIOUS
<1>1. raw = <<>> /\ filter = NewFilter /\ shown = <<>> /\ at = "screen"
  BY DEF Init
<1>2. filter \in Filters(Chars) /\ Settled(filter)
  BY <1>1, NewFilterIs
<1>3. filter.think \in BOOLEAN /\ filter.buffer \in Seq(Chars)
  BY <1>2 DEF Filters
<1>4. IsStrictPrefix(filter.buffer, IF filter.think THEN CloseTag ELSE OpenTag)
  BY <1>2, <1>3, SettledPrefix
<1>5. raw \in Seq(Chars) /\ Len(raw) <= MaxText
  BY <1>1, PipelineAssumption
<1>6. TypeOK
  BY <1>3, <1>4, <1>5 DEF Init, TypeOK
<1>7. QED
  BY <1>1, <1>2, <1>6 DEF StreamInv

LEMMA PiecesAreTexts ==
  ASSUME NEW piece \in Pieces
  PROVE  piece \in Seq(Chars) /\ Len(piece) \in Nat
<1>1. PICK n \in 1..MaxPiece : piece \in [1..n -> Chars]
  BY DEF Pieces
<1>2. n \in Nat
  BY <1>1, PipelineAssumption
<1>3. QED
  BY <1>1, <1>2

(* One more piece of the text: a stream's filter takes it in.              *)
LEMMA StreamToken ==
  ASSUME StreamInv, NEW piece \in Pieces, Token(piece)
  PROVE  StreamInv'
<1>1. piece \in Seq(Chars) /\ Len(piece) \in Nat
  BY PiecesAreTexts
<1>2. /\ raw \in Seq(Chars) /\ filter \in Filters(Chars) /\ Settled(filter) /\ TypeOK
      /\ kind = "stream" => \E p : Cut(raw, p, filter.think, filter.buffer, shown)
  BY DEF StreamInv, Token, TypeOK
<1>3. /\ raw' = raw \o piece /\ Len(raw) + Len(piece) <= MaxText
      /\ at = "generate" /\ at' = at /\ kind' = kind
      /\ kind = "stream" => filter' = Feed(filter, piece) /\ shown' = shown \o filter'.out
      /\ kind # "stream" => filter' = filter /\ shown' = shown
  BY DEF Token, inputVars
<1>4. raw' \in Seq(Chars) /\ Len(raw') <= MaxText
  <2> DEFINE a == raw
             b == raw'
  <2>1. a \in Seq(Chars) /\ b = a \o piece /\ Len(a) + Len(piece) <= MaxText
    BY <1>2, <1>3
  <2> HIDE DEF a, b
  <2>2. b \in Seq(Chars) /\ Len(b) <= MaxText
    BY ONLY <1>1, <2>1
  <2>3. QED
    BY <2>2 DEF b
<1>5. /\ filter' \in Filters(Chars) /\ Settled(filter')
      /\ kind = "stream" => \E p : Cut(raw', p, filter'.think, filter'.buffer, shown')
  <2>1. CASE kind # "stream"
    BY <1>2, <1>3, <2>1
  <2>2. CASE kind = "stream"
    <3>1. PICK p : Cut(raw, p, filter.think, filter.buffer, shown)
      BY <1>2, <2>2
    <3>2. shown \in Seq(Chars)
      BY <1>2, <3>1, CutShows
    <3> DEFINE g == Feed(filter, piece)
    <3>3. /\ g \in Filters(Chars) /\ Settled(g)
          /\ \E q : Cut(raw \o piece, q, g.think, g.buffer, shown \o g.out)
      BY <1>1, <1>2, <3>1, <3>2, FeedCut
    <3>4. filter' = g /\ shown' = shown \o g.out /\ raw' = raw \o piece
      BY <1>3, <2>2
    <3> HIDE DEF g
    <3>5. QED
      BY ONLY <3>3, <3>4
  <2>3. QED
    BY <2>1, <2>2
<1>6. filter'.think \in BOOLEAN /\ filter'.buffer \in Seq(Chars)
  BY <1>5 DEF Filters
<1>7. IsStrictPrefix(filter'.buffer, IF filter'.think THEN CloseTag ELSE OpenTag)
  BY <1>5, <1>6, SettledPrefix
<1>8. TypeOK'
  BY <1>2, <1>3, <1>4, <1>6, <1>7 DEF TypeOK, Token, inputVars
<1>9. QED
  BY <1>3, <1>5, <1>8 DEF StreamInv

(* The text ends: what the filter still holds is shown, unless it stands   *)
(* inside a block.                                                         *)
LEMMA StreamTextEnds ==
  ASSUME StreamInv, TextEnds
  PROVE  StreamInv'
<1>1. /\ raw \in Seq(Chars) /\ filter \in Filters(Chars) /\ Settled(filter) /\ TypeOK
      /\ kind = "stream" => \E p : Cut(raw, p, filter.think, filter.buffer, shown)
  BY DEF StreamInv, TextEnds, TypeOK
<1>2. /\ raw' = raw /\ filter' = filter /\ kind' = kind /\ at' = "check"
      /\ kind = "stream" => shown' = shown \o Flush(filter) /\ answer' = Strip(shown')
      /\ kind # "stream" => answer' = Strip(StripThinkBlocks(raw))
  BY DEF TextEnds, inputVars, GoOn
<1>3. TypeOK'
  BY <1>1 DEF TypeOK, TextEnds, inputVars, GoOn
<1>4. /\ answer' = Strip(Visible(raw))
      /\ kind = "stream" => shown' = Visible(raw)
  <2>1. CASE kind # "stream"
    <3>1. StripThinkBlocks(raw) = Visible(raw)
      BY <1>1, FilterOfWhole
    <3>2. QED
      BY <1>2, <2>1, <3>1
  <2>2. CASE kind = "stream"
    <3>1. PICK p : Cut(raw, p, filter.think, filter.buffer, shown)
      BY <1>1, <2>2
    <3>2. Visible(raw) = shown \o Flush(filter)
      BY <1>1, <3>1, CutShows
    <3>3. QED
      BY <1>2, <2>2, <3>2
  <2>3. QED
    BY <2>1, <2>2
<1>5. QED
  BY <1>1, <1>2, <1>3, <1>4 DEF StreamInv

LEMMA StreamNext == StreamInv /\ [Next]_vars => StreamInv'
<1> SUFFICES ASSUME StreamInv, [Next]_vars PROVE StreamInv'
  OBVIOUS
<1>1. CASE Screen
  BY <1>1 DEF Screen, End, GoOn, GuardVerdicts, StreamInv, TypeOK, inputVars, textVars
<1>2. CASE ScreenOff
  BY <1>2 DEF ScreenOff, GoOn, StreamInv, TypeOK, inputVars, textVars
<1>3. CASE Retrieve
  <2>1. /\ raw = <<>> /\ filter = NewFilter /\ shown = <<>>
        /\ raw' = raw /\ filter' = filter /\ shown' = shown /\ at' = "generate"
    BY <1>3 DEF Retrieve, GoOn, StreamInv, textVars
  <2>2. Cut(raw', 0, filter'.think, filter'.buffer, shown')
    BY <2>1, NewFilterIs
  <2>3. TypeOK'
    BY <1>3 DEF Retrieve, GoOn, StreamInv, TypeOK, inputVars, textVars
  <2>4. QED
    BY <2>1, <2>2, <2>3 DEF StreamInv
<1>4. CASE NoContext
  BY <1>4 DEF NoContext, GoOn, StreamInv, TypeOK, inputVars
<1>5. ASSUME NEW piece \in Pieces, Token(piece)
      PROVE  StreamInv'
  BY <1>5, StreamToken
<1>6. CASE TextEnds
  BY <1>6, StreamTextEnds
<1>7. CASE GatewayFails
  BY <1>7 DEF GatewayFails, End, StreamInv, TypeOK, inputVars, textVars
<1>8. CASE Raise
  BY <1>8 DEF Raise, End, StreamInv, TypeOK, inputVars, textVars
<1>9. CASE CheckPasses
  BY <1>9 DEF CheckPasses, GoOn, StreamInv, TypeOK, inputVars, textVars
<1>10. CASE CheckRejects
  BY <1>10 DEF CheckRejects, GoOn, StreamInv, TypeOK, inputVars, textVars
<1>11. CASE Record
  BY <1>11 DEF Record, StreamInv, TypeOK, inputVars, textVars
<1>12. CASE Deliver
  BY <1>12 DEF Deliver, StreamInv, TypeOK, inputVars, textVars
<1>13. CASE Disconnect
  BY <1>13 DEF Disconnect, End, StreamInv, TypeOK, inputVars, textVars
<1>14. CASE UNCHANGED vars
  BY <1>14 DEF vars, StreamInv, TypeOK
<1>. QED
  BY <1>1, <1>2, <1>3, <1>4, <1>5, <1>6, <1>7, <1>8, <1>9, <1>10, <1>11, <1>12, <1>13, <1>14
  DEF Next

LEMMA StreamInvariance == Spec => []StreamInv
<1>1. StreamInv /\ [Next]_vars => StreamInv'
  BY StreamNext
<1>. QED
  BY StreamInit, <1>1, PTL DEF Spec

(* However the gateway cuts the model's text, a stream's reader sees of it *)
(* what is visible, less what is held back, which is shorter than a tag;   *)
(* and in the end all of it (ThinkBlockFilter.feed and flush).             *)
THEOREM StreamShowsWhatIsVisible == Spec => []StreamSound
<1>1. ASSUME StreamInv
      PROVE  StreamSound
  <2>1. /\ TypeOK /\ raw \in Seq(Chars) /\ filter \in Filters(Chars) /\ Settled(filter)
        /\ at = "generate" /\ kind = "stream" =>
             \E p : Cut(raw, p, filter.think, filter.buffer, shown)
        /\ at = "check" /\ kind = "stream" => shown = Visible(raw)
    BY <1>1 DEF StreamInv, TypeOK
  <2>2. ASSUME at = "generate", kind = "stream"
        PROVE  /\ IsPrefix(shown, Visible(raw))
               /\ Len(Visible(raw)) - Len(shown) < Len(OpenTag)
    <3>1. PICK p : Cut(raw, p, filter.think, filter.buffer, shown)
      BY <2>1, <2>2
    <3>2. QED
      BY <2>1, <3>1, CutShows
  <2>3. QED
    BY <2>1, <2>2 DEF StreamSound, ReasoningHidden
<1>. QED
  BY <1>1, StreamInvariance, PTL

(* /chat, which has the whole text, and /chat/stream, which has it in      *)
(* pieces, give the output guard the same answer, and it is what is        *)
(* visible of the text (_generate and run_stream).                         *)
THEOREM EitherEndpointAnswersTheSame == Spec => []SameAnswerEitherWay
<1>1. StreamInv => SameAnswerEitherWay
  BY DEF StreamInv, SameAnswerEitherWay
<1>. QED
  BY <1>1, StreamInvariance, PTL
=============================================================================
