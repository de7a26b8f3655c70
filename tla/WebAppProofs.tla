----------------------------- MODULE WebAppProofs -----------------------------
(***************************************************************************)
(* What holds of the web app's stores for any users, shows, filters, page  *)
(* size, clicks and failures.                                              *)
(***************************************************************************)
EXTENDS WebApp, Recursion, SequenceTheorems, TLAPS

-------------------------------------------------------------------------------
(* Sequences, and what is kept of them *)

\* Induction over sequences: of a set of sequences that is not empty, one is the empty sequence
\* or has a front that is not in the set.
LEMMA SeqMin ==
  ASSUME NEW S, NEW P \in SUBSET Seq(S), P # {}
  PROVE  \E s \in P : \/ s = <<>>
                      \/ \E t \in Seq(S), x \in S : s = Append(t, x) /\ t \notin P
<1> DEFINE lengths == {Len(s) : s \in P}
<1>1. lengths \in SUBSET Nat /\ lengths # {}
  <2>1. \A s \in P : Len(s) \in Nat
    BY LenProperties
  <2> QED
    BY <2>1
<1>2. PICK n \in lengths : \A m \in lengths : ~(m < n)
  <2> HIDE DEF lengths
  <2> QED
    BY <1>1, NatMin
<1>3. PICK s \in P : n = Len(s)
  BY <1>2
<1>4. CASE n = 0
  BY <1>3, <1>4
<1>5. CASE n # 0
  <2> DEFINE t == SubSeq(s, 1, n - 1)
             x == s[n]
  <2>1. s \in Seq(S) /\ n \in Nat /\ n - 1 \in Nat /\ n - 1 < n /\ n \in 1..n /\ DOMAIN s = 1..n
    BY <1>3, <1>5
  <2>2. x \in S
    BY <2>1
  <2>3. t \in Seq(S) /\ Len(t) = n - 1 /\ \A i \in 1..(n - 1) : t[i] = s[i]
    <3>1. 1 \in Int /\ n - 1 \in Int /\ \A j \in 1..(n - 1) : s[j] \in S
      BY <2>1
    <3>2. /\ t \in Seq(S) /\ Len(t) = IF 1 <= n - 1 THEN n - 1 - 1 + 1 ELSE 0
          /\ \A j \in 1..(n - 1 - 1 + 1) : t[j] = s[1 + j - 1]
      BY <3>1, SubSeqProperties
    <3> QED
      BY <2>1, <3>2
  <2> HIDE DEF t, x
  <2>4. s = Append(t, x)
    <3>1. Append(t, x) \in Seq(S) /\ Len(Append(t, x)) = n
      BY <2>1, <2>2, <2>3
    <3>2. \A i \in 1..n : Append(t, x)[i] = s[i]
      BY <2>1, <2>2, <2>3 DEF x
    <3> QED
      BY <2>1, <3>1, <3>2, SeqEqual
  <2>5. t \notin P
    BY <1>2, <2>1, <2>3
  <2> QED
    BY <2>2, <2>3, <2>4, <2>5
<1> QED
  BY <1>4, <1>5

\* What a sequence holds with one element more.
LEMMA RangeAppend ==
  ASSUME NEW S, NEW s \in Seq(S), NEW x \in S
  PROVE  Range(Append(s, x)) = Range(s) \cup {x}
<1> DEFINE n == Len(s)
           t == Append(s, x)
<1>1. /\ n \in Nat /\ DOMAIN s = 1..n /\ DOMAIN t = 1..(n + 1)
      /\ t[n + 1] = x /\ \A i \in 1..n : t[i] = s[i]
  OBVIOUS
<1> HIDE DEF n, t
<1>2. \A i \in 1..(n + 1) : i \in 1..n \/ i = n + 1
  BY <1>1
<1>3. n + 1 \in 1..(n + 1) /\ \A i \in 1..n : i \in 1..(n + 1)
  BY <1>1
<1>4. Range(t) = Range(s) \cup {x}
  BY <1>1, <1>2, <1>3 DEF Range
<1> QED
  BY <1>4 DEF t

\* The values Kept goes through.
Keeping(f, s, T) ==
  /\ f[0] = <<>>
  /\ \A i \in 0..(Len(s) - 1) :
       f[i + 1] = IF s[i + 1] \in T THEN Append(f[i], s[i + 1]) ELSE f[i]

\* Kept builds its result by keeping one element after another.
LEMMA KeptByKeeping ==
  ASSUME NEW S, NEW s \in Seq(S), NEW T
  PROVE  \E f \in [0..Len(s) -> Seq(S)] : Keeping(f, s, T) /\ Kept(s, T) = f[Len(s)]
<1> DEFINE n == Len(s)
           F == [i \in Nat |-> [kept \in Seq(S) |->
                   IF i + 1 \in 1..n /\ s[i + 1] \in T THEN Append(kept, s[i + 1]) ELSE kept]]
           Step(f) == [i \in 0..n |->
                        IF i = 0 THEN <<>>
                        ELSE IF s[i] \in T THEN Append(f[i - 1], s[i]) ELSE f[i - 1]]
<1>1. n \in Nat /\ \A i \in 1..n : s[i] \in S
  OBVIOUS
<1>2. F \in [Nat -> [Seq(S) -> Seq(S)]]
  <2>1. ASSUME NEW i \in Nat, NEW kept \in Seq(S)
        PROVE  (IF i + 1 \in 1..n /\ s[i + 1] \in T THEN Append(kept, s[i + 1]) ELSE kept)
                 \in Seq(S)
    BY <1>1
  <2> QED
    BY <2>1
<1>3. <<>> \in Seq(S)
  OBVIOUS
<1>4. PICK f : Upto(f, n, Seq(S), <<>>, F)
  <2> HIDE DEF F, n
  <2>1. ASSUME NEW first \in Seq(S)
        PROVE  \E f : Upto(f, n, Seq(S), first, F)
    BY <1>1, <1>2, UptoAny
  <2> QED
    BY <1>3, <2>1
<1>5. f \in [0..n -> Seq(S)] /\ f[0] = <<>>
  BY <1>4 DEF Upto
<1>6. ASSUME NEW i \in 0..(n - 1)
      PROVE  f[i + 1] = IF s[i + 1] \in T THEN Append(f[i], s[i + 1]) ELSE f[i]
  <2>1. f[i + 1] = F[i][f[i]]
    BY <1>4 DEF Upto
  <2>2. i \in Nat /\ i + 1 \in 1..n /\ i \in 0..n /\ f[i] \in Seq(S)
    BY <1>1, <1>5
  <2> HIDE DEF n
  <2> QED
    BY <2>1, <2>2
<1>7. f = Step(f)
  <2>1. ASSUME NEW i \in 0..n
        PROVE  f[i] = Step(f)[i]
    <3>1. CASE i = 0
      BY <1>5, <3>1
    <3>2. CASE i # 0
      <4>1. i - 1 \in 0..(n - 1) /\ (i - 1) + 1 = i
        BY <1>1, <3>2
      <4>2. f[i] = IF s[i] \in T THEN Append(f[i - 1], s[i]) ELSE f[i - 1]
        BY <1>6, <4>1
      <4> QED
        BY <3>2, <4>2
    <3> QED
      BY <3>1, <3>2
  <2> HIDE DEF n
  <2> QED
    BY <1>5, <2>1
<1> DEFINE g == CHOOSE h : h = Step(h)
<1>8. g = Step(g)
  <2> HIDE DEF Step
  <2> QED
    BY <1>7
<1>9. Kept(s, T) = g[n]
  BY Zenon DEF Kept
<1> HIDE DEF g
<1>10. \A i \in 0..n : g[i] = f[i]
  <2> DEFINE wrong == {i \in 0..n : g[i] # f[i]}
  <2>1. wrong \in SUBSET Nat /\ \A i \in 0..n : i \in wrong <=> g[i] # f[i]
    BY <1>1
  <2>2. \A i \in wrong : i \in 0..n
    OBVIOUS
  <2> HIDE DEF wrong
  <2>3. SUFFICES ASSUME wrong # {} PROVE FALSE
    BY <2>1
  <2>4. PICK i \in wrong : \A j \in wrong : ~(j < i)
    BY <2>1, <2>3, NatMin
  <2>5. i # 0
    BY <1>5, <1>8, <2>1, <2>2
  <2>6. i - 1 \in 0..(n - 1) /\ (i - 1) + 1 = i /\ i - 1 < i /\ i - 1 \in 0..n
    BY <1>1, <2>2, <2>5
  <2>7. g[i - 1] = f[i - 1]
    BY <2>1, <2>4, <2>6
  <2>8. f[i] = IF s[i] \in T THEN Append(f[i - 1], s[i]) ELSE f[i - 1]
    BY <1>6, <2>6
  <2>9. g[i] = IF s[i] \in T THEN Append(g[i - 1], s[i]) ELSE g[i - 1]
    BY <1>8, <2>2, <2>5
  <2> QED
    BY <2>1, <2>2, <2>4, <2>7, <2>8, <2>9
<1>11. Keeping(f, s, T)
  BY <1>5, <1>6 DEF Keeping
<1>12. Kept(s, T) = f[n]
  BY <1>1, <1>9, <1>10
<1> QED
  BY <1>5, <1>11, <1>12

\* Nothing is kept of nothing.
LEMMA KeptEmpty ==
  ASSUME NEW S, NEW s \in Seq(S), Len(s) = 0, NEW T
  PROVE  Kept(s, T) = <<>>
<1>1. PICK f \in [0..Len(s) -> Seq(S)] : Keeping(f, s, T) /\ Kept(s, T) = f[Len(s)]
  BY KeptByKeeping
<1> QED
  BY <1>1 DEF Keeping

\* One more element is kept or not.
LEMMA KeptAppend ==
  ASSUME NEW S, NEW s \in Seq(S), NEW x \in S, NEW T
  PROVE  /\ Kept(s, T) \in Seq(S)
         /\ Kept(Append(s, x), T) = IF x \in T THEN Append(Kept(s, T), x) ELSE Kept(s, T)
<1> DEFINE n == Len(s)
           t == Append(s, x)
<1>1. n \in Nat /\ t \in Seq(S) /\ Len(t) = n + 1 /\ t[n + 1] = x /\ \A i \in 1..n : t[i] = s[i]
  OBVIOUS
<1>2. PICK f \in [0..n -> Seq(S)] : Keeping(f, s, T) /\ Kept(s, T) = f[n]
  BY KeptByKeeping
<1>3. PICK g : Keeping(g, t, T) /\ Kept(t, T) = g[n + 1]
  <2> HIDE DEF t, n
  <2>1. PICK g \in [0..Len(t) -> Seq(S)] : Keeping(g, t, T) /\ Kept(t, T) = g[Len(t)]
    BY <1>1, KeptByKeeping
  <2> QED
    BY <1>1, <2>1
<1> HIDE DEF t, n
<1> DEFINE wrong == {i \in 0..n : g[i] # f[i]}
<1>4. wrong \in SUBSET Nat /\ \A i \in 0..n : i \in wrong <=> g[i] # f[i]
  BY <1>1
<1>5. \A i \in wrong : i \in 0..n
  OBVIOUS
<1> HIDE DEF wrong
<1>6. ASSUME NEW i \in wrong, \A j \in wrong : ~(j < i)
      PROVE  FALSE
  <2>1. i # 0
    BY <1>2, <1>3, <1>4, <1>5 DEF Keeping
  <2>2. i - 1 \in 0..(n - 1) /\ (i - 1) + 1 = i /\ i - 1 < i /\ i - 1 \in 0..n /\ i \in 1..n
        /\ i - 1 \in 0..((n + 1) - 1)
    BY <1>1, <1>5, <2>1
  <2>3. g[i - 1] = f[i - 1]
    BY <1>4, <1>6, <2>2
  <2>4. f[i] = IF s[i] \in T THEN Append(f[i - 1], s[i]) ELSE f[i - 1]
    BY <1>2, <2>2 DEF Keeping, n
  <2>5. g[i] = IF t[i] \in T THEN Append(g[i - 1], t[i]) ELSE g[i - 1]
    BY <1>1, <1>3, <2>2 DEF Keeping
  <2> QED
    BY <1>1, <1>4, <1>5, <2>2, <2>3, <2>4, <2>5
<1>7. wrong = {}
  BY <1>4, <1>6, NatMin
<1>8. g[n] = f[n] /\ f[n] \in Seq(S)
  <2>1. n \in 0..n
    BY <1>1
  <2> QED
    BY <1>2, <1>4, <1>7, <2>1
<1>9. n \in 0..((n + 1) - 1)
  BY <1>1
<1>10. g[n + 1] = IF t[n + 1] \in T THEN Append(g[n], t[n + 1]) ELSE g[n]
  BY <1>1, <1>3, <1>9 DEF Keeping
<1>11. Kept(t, T) = IF x \in T THEN Append(Kept(s, T), x) ELSE Kept(s, T)
  BY <1>1, <1>2, <1>3, <1>8, <1>10
<1> QED
  BY <1>2, <1>8, <1>11 DEF t

\* What is kept are the members that belong to T.
LEMMA KeptRange ==
  ASSUME NEW S, NEW s \in Seq(S), NEW T
  PROVE  Kept(s, T) \in Seq(S) /\ Range(Kept(s, T)) = Range(s) \cap T
<1> DEFINE P == {r \in Seq(S) : Range(Kept(r, T)) # Range(r) \cap T}
<1>1. Kept(s, T) \in Seq(S)
  <2>1. PICK f \in [0..Len(s) -> Seq(S)] : Keeping(f, s, T) /\ Kept(s, T) = f[Len(s)]
    BY KeptByKeeping
  <2>2. Len(s) \in 0..Len(s)
    BY LenProperties
  <2> QED
    BY <2>1, <2>2
<1>2. P \in SUBSET Seq(S) /\ \A r \in Seq(S) : r \in P <=> Range(Kept(r, T)) # Range(r) \cap T
  OBVIOUS
<1> HIDE DEF P
<1>3. ASSUME NEW r \in P, r = <<>>
      PROVE  FALSE
  <2>1. Range(r) = {} /\ r \in Seq(S) /\ Len(r) = 0
    BY <1>2, <1>3 DEF Range
  <2>2. Kept(r, T) = <<>>
    BY <2>1, KeptEmpty
  <2> QED
    BY <1>2, <1>3, <2>1, <2>2
<1>4. ASSUME NEW t \in Seq(S), NEW x \in S, Append(t, x) \in P, t \notin P
      PROVE  FALSE
  <2>1. Range(Append(t, x)) = Range(t) \cup {x}
    BY RangeAppend
  <2>2. Range(Append(Kept(t, T), x)) = Range(Kept(t, T)) \cup {x}
    BY KeptAppend, RangeAppend
  <2>3. Range(Kept(t, T)) = Range(t) \cap T
    BY <1>2, <1>4
  <2>4. Range(Kept(Append(t, x), T)) # Range(Append(t, x)) \cap T
    BY <1>2, <1>4
  <2>5. Kept(Append(t, x), T) = IF x \in T THEN Append(Kept(t, T), x) ELSE Kept(t, T)
    BY KeptAppend
  <2>6. CASE x \in T
    BY <2>1, <2>2, <2>3, <2>4, <2>5, <2>6
  <2>7. CASE x \notin T
    BY <2>1, <2>3, <2>4, <2>5, <2>7
  <2> QED
    BY <2>6, <2>7
<1>5. P = {}
  <2>1. SUFFICES ASSUME P # {} PROVE FALSE
    OBVIOUS
  <2>2. PICK r \in P : r = <<>> \/ \E t \in Seq(S), x \in S : r = Append(t, x) /\ t \notin P
    BY <1>2, <2>1, SeqMin
  <2> QED
    BY <1>3, <1>4, <2>2
<1> QED
  BY <1>1, <1>2, <1>5

\* What is kept of two sequences end to end is what is kept of each.
LEMMA KeptConcat ==
  ASSUME NEW S, NEW s \in Seq(S), NEW t \in Seq(S), NEW T
  PROVE  Kept(s \o t, T) = Kept(s, T) \o Kept(t, T)
<1> DEFINE P == {r \in Seq(S) : Kept(s \o r, T) # Kept(s, T) \o Kept(r, T)}
<1>1. P \in SUBSET Seq(S)
      /\ \A r \in Seq(S) : r \in P <=> Kept(s \o r, T) # Kept(s, T) \o Kept(r, T)
  OBVIOUS
<1> HIDE DEF P
<1>2. ASSUME NEW r \in P, r = <<>>
      PROVE  FALSE
  <2>1. r \in Seq(S) /\ Len(r) = 0 /\ s \o r = s /\ Kept(s, T) \in Seq(S)
    BY <1>1, <1>2, KeptRange
  <2>2. Kept(r, T) = <<>>
    BY <2>1, KeptEmpty
  <2>3. Kept(s, T) \o Kept(r, T) = Kept(s, T)
    BY <2>1, <2>2
  <2> QED
    BY <1>1, <2>1, <2>3
<1>3. ASSUME NEW r \in Seq(S), NEW x \in S, Append(r, x) \in P, r \notin P
      PROVE  FALSE
  <2>1. s \o Append(r, x) = Append(s \o r, x) /\ s \o r \in Seq(S) /\ Append(r, x) \in Seq(S)
    OBVIOUS
  <2>2. Kept(Append(s \o r, x), T) = IF x \in T THEN Append(Kept(s \o r, T), x) ELSE Kept(s \o r, T)
    <3> DEFINE q == s \o r
    <3>1. q \in Seq(S)
      BY <2>1
    <3> HIDE DEF q
    <3>2. Kept(Append(q, x), T) = IF x \in T THEN Append(Kept(q, T), x) ELSE Kept(q, T)
      BY SMTT(30), <3>1, KeptAppend
    <3> QED
      BY <3>2 DEF q
  <2>3. Kept(Append(r, x), T) = IF x \in T THEN Append(Kept(r, T), x) ELSE Kept(r, T)
    BY KeptAppend
  <2>4. Kept(s \o r, T) = Kept(s, T) \o Kept(r, T)
    BY <1>1, <1>3
  <2>5. Kept(s, T) \in Seq(S) /\ Kept(r, T) \in Seq(S)
    BY KeptAppend
  <2>6. Kept(s, T) \o Append(Kept(r, T), x) = Append(Kept(s, T) \o Kept(r, T), x)
    BY <2>5
  <2>7. Kept(s \o Append(r, x), T) = Kept(s, T) \o Kept(Append(r, x), T)
    BY <2>1, <2>2, <2>3, <2>4, <2>6
  <2> QED
    BY <1>1, <1>3, <2>1, <2>7
<1>4. P = {}
  <2>1. SUFFICES ASSUME P # {} PROVE FALSE
    OBVIOUS
  <2>2. PICK r \in P : r = <<>> \/ \E q \in Seq(S), x \in S : r = Append(q, x) /\ q \notin P
    BY <1>1, <2>1, SeqMin
  <2> QED
    BY <1>2, <1>3, <2>2
<1> QED
  BY <1>1, <1>4

\* Keeping twice keeps what belongs to both sets.
LEMMA KeptTwice ==
  ASSUME NEW S, NEW s \in Seq(S), NEW A, NEW B
  PROVE  Kept(Kept(s, A), B) = Kept(s, A \cap B)
<1> DEFINE P == {r \in Seq(S) : Kept(Kept(r, A), B) # Kept(r, A \cap B)}
<1>1. P \in SUBSET Seq(S)
      /\ \A r \in Seq(S) : r \in P <=> Kept(Kept(r, A), B) # Kept(r, A \cap B)
  OBVIOUS
<1> HIDE DEF P
<1>2. ASSUME NEW r \in P, r = <<>>
      PROVE  FALSE
  <2>1. r \in Seq(S) /\ Len(r) = 0
    BY <1>1, <1>2
  <2>2. Kept(r, A) = r /\ Kept(r, B) = r
    BY <1>2, <2>1, KeptEmpty
  <2>3. Kept(r, A \cap B) = r
    BY <1>2, <2>1, KeptEmpty
  <2> QED
    BY <1>1, <2>2, <2>3
<1>3. ASSUME NEW r \in Seq(S), NEW x \in S, Append(r, x) \in P, r \notin P
      PROVE  FALSE
  <2>1. Append(r, x) \in Seq(S) /\ Kept(r, A) \in Seq(S)
    BY KeptAppend
  <2>2. Kept(Append(r, x), A) = IF x \in A THEN Append(Kept(r, A), x) ELSE Kept(r, A)
    BY KeptAppend
  <2>3. Kept(Append(Kept(r, A), x), B)
          = IF x \in B THEN Append(Kept(Kept(r, A), B), x) ELSE Kept(Kept(r, A), B)
    BY <2>1, KeptAppend
  <2>4. Kept(Append(r, x), A \cap B)
          = IF x \in A \cap B THEN Append(Kept(r, A \cap B), x) ELSE Kept(r, A \cap B)
    <3> DEFINE C == A \cap B
    <3> HIDE DEF C
    <3>1. Kept(Append(r, x), C) = IF x \in C THEN Append(Kept(r, C), x) ELSE Kept(r, C)
      BY KeptAppend
    <3> QED
      BY <3>1 DEF C
  <2>5. Kept(Kept(r, A), B) = Kept(r, A \cap B)
    BY <1>1, <1>3
  <2>6. x \in A \cap B <=> x \in A /\ x \in B
    OBVIOUS
  <2>7. Kept(Kept(Append(r, x), A), B) = Kept(Append(r, x), A \cap B)
    <3>1. CASE x \in A
      BY <2>2, <2>3, <2>4, <2>5, <2>6, <3>1
    <3>2. CASE x \notin A
      BY <2>2, <2>4, <2>5, <2>6, <3>2
    <3> QED
      BY <3>1, <3>2
  <2> QED
    BY <1>1, <1>3, <2>1, <2>7
<1>4. P = {}
  <2>1. SUFFICES ASSUME P # {} PROVE FALSE
    OBVIOUS
  <2>2. PICK r \in P : r = <<>> \/ \E q \in Seq(S), x \in S : r = Append(q, x) /\ q \notin P
    BY <1>1, <2>1, SeqMin
  <2> QED
    BY <1>2, <1>3, <2>2
<1> QED
  BY <1>1, <1>4

\* Two sets keep the same of a sequence whose members they agree on.
LEMMA KeptAgree ==
  ASSUME NEW S, NEW s \in Seq(S), NEW A, NEW B, \A x \in Range(s) : x \in A <=> x \in B
  PROVE  Kept(s, A) = Kept(s, B)
<1> DEFINE P == {r \in Seq(S) : (\A x \in Range(r) : x \in A <=> x \in B)
                                  /\ Kept(r, A) # Kept(r, B)}
<1>1. P \in SUBSET Seq(S)
      /\ \A r \in Seq(S) : r \in P <=> (\A x \in Range(r) : x \in A <=> x \in B)
                                         /\ Kept(r, A) # Kept(r, B)
  OBVIOUS
<1> HIDE DEF P
<1>2. ASSUME NEW r \in P, r = <<>>
      PROVE  FALSE
  <2>1. r \in Seq(S) /\ Len(r) = 0
    BY <1>1, <1>2
  <2>2. Kept(r, A) = <<>> /\ Kept(r, B) = <<>>
    BY <2>1, KeptEmpty
  <2> QED
    BY <1>1, <2>2
<1>3. ASSUME NEW r \in Seq(S), NEW x \in S, Append(r, x) \in P, r \notin P
      PROVE  FALSE
  <2>1. Range(Append(r, x)) = Range(r) \cup {x} /\ Append(r, x) \in Seq(S)
    BY RangeAppend
  <2>2. Kept(Append(r, x), A) = IF x \in A THEN Append(Kept(r, A), x) ELSE Kept(r, A)
    BY KeptAppend
  <2>3. Kept(Append(r, x), B) = IF x \in B THEN Append(Kept(r, B), x) ELSE Kept(r, B)
    BY KeptAppend
  <2>4. \A y \in Range(r) \cup {x} : y \in A <=> y \in B
    BY <1>1, <1>3, <2>1
  <2>5. Kept(r, A) = Kept(r, B)
    BY <1>1, <1>3, <2>4
  <2>6. Kept(Append(r, x), A) = Kept(Append(r, x), B)
    BY <2>2, <2>3, <2>4, <2>5
  <2> QED
    BY <1>1, <1>3, <2>6
<1>4. P = {}
  <2>1. SUFFICES ASSUME P # {} PROVE FALSE
    OBVIOUS
  <2>2. PICK r \in P : r = <<>> \/ \E q \in Seq(S), x \in S : r = Append(q, x) /\ q \notin P
    BY <1>1, <2>1, SeqMin
  <2> QED
    BY <1>2, <1>3, <2>2
<1> QED
  BY <1>1, <1>4
-------------------------------------------------------------------------------
(* How the calls under way change: some end, the others stay, perhaps answered or outdated,  *)
(* and new ones are sent.                                                                    *)

\* d is what became of the call c: the same request, "answered", "old" or neither.
Heir(c, d, age) ==
  /\ d.op = c.op /\ d.user = c.user /\ d.what = c.what /\ d.on = c.on
  /\ d.cursor = c.cursor /\ d.filters = c.filters /\ d.left = c.left
  /\ c.raced \subseteq d.raced
  /\ c.op = "toggle" => d.raced = c.raced
  /\ age = "old" => d.stale
  /\ age # "old" => d.stale = c.stale
  /\ age # "answered" =>
       /\ d.at = c.at /\ d.did = c.did /\ d.items = c.items /\ d.ids = c.ids
       /\ d.hasMore = c.hasMore /\ d.version = c.version /\ d.older = c.older

\* The calls t are those of s but the ones at gone, and the new ones; was tells them apart.
Were(was, s, t, gone, age, new) ==
  /\ was \in [DOMAIN t -> Int]
  /\ \A k \in DOMAIN t :
       \/ was[k] \in DOMAIN s /\ was[k] \notin gone /\ Heir(s[was[k]], t[k], age)
       \/ -was[k] \in DOMAIN new /\ t[k] = new[-was[k]]
  /\ \A k, l \in DOMAIN t : was[k] = was[l] => k = l
  /\ \A j \in DOMAIN s : j \notin gone => \E k \in DOMAIN t : was[k] = j
  /\ \A m \in DOMAIN new : \E k \in DOMAIN t : was[k] = -m

Moves(s, t, gone, age, new) == \E was : Were(was, s, t, gone, age, new)

\* Where a call comes from.
LEMMA CameFrom ==
  ASSUME NEW s, NEW t, NEW gone, NEW age, NEW new, Moves(s, t, gone, age, new), NEW k \in DOMAIN t
  PROVE  \/ \E j \in DOMAIN s : j \notin gone /\ Heir(s[j], t[k], age)
         \/ \E m \in DOMAIN new : t[k] = new[m]
BY DEF Moves, Were

\* What becomes of a call that does not end.
LEMMA LivesOn ==
  ASSUME NEW s, NEW t, NEW gone, NEW age, NEW new \in Seq(Call), Moves(s, t, gone, age, new),
         NEW n \in Nat, DOMAIN s = 1..n, NEW j \in DOMAIN s, j \notin gone
  PROVE  \E k \in DOMAIN t : Heir(s[j], t[k], age)
<1>1. PICK was : Were(was, s, t, gone, age, new)
  BY DEF Moves
<1>2. PICK k \in DOMAIN t : was[k] = j
  BY <1>1 DEF Were
<1>3. -was[k] \notin DOMAIN new
  <2>1. j \in Int /\ j > 0 /\ DOMAIN new = 1..Len(new) /\ Len(new) \in Nat
    OBVIOUS
  <2> QED
    BY <1>2, <2>1
<1> QED
  BY <1>1, <1>2, <1>3 DEF Were

\* A new call is under way.
LEMMA Arrived ==
  ASSUME NEW s, NEW t, NEW gone, NEW age, NEW new \in Seq(Call), Moves(s, t, gone, age, new),
         NEW n \in Nat, DOMAIN s = 1..n, NEW m \in DOMAIN new
  PROVE  \E k \in DOMAIN t : t[k] = new[m]
<1>1. PICK was : Were(was, s, t, gone, age, new)
  BY DEF Moves
<1>2. PICK k \in DOMAIN t : was[k] = -m
  BY <1>1 DEF Were
<1>3. m \in Int /\ m > 0
  OBVIOUS
<1>4. was[k] \notin DOMAIN s /\ -was[k] = m
  BY <1>2, <1>3
<1> QED
  BY <1>1, <1>2, <1>4 DEF Were

\* A call that nothing happened to is its own heir.
LEMMA SameHeir ==
  ASSUME NEW c
  PROVE  Heir(c, c, "same")
BY DEF Heir

\* Calls that stay where they are, and new ones at the end.
LEMMA MovesOn ==
  ASSUME NEW s \in Seq(Call), NEW r \in Seq(Call), NEW age, NEW new \in Seq(Call),
         Len(r) = Len(s), \A k \in 1..Len(s) : Heir(s[k], r[k], age)
  PROVE  r \o new \in Seq(Call) /\ Moves(s, r \o new, {}, age, new)
<1> DEFINE n == Len(s)
           p == Len(new)
           t == r \o new
           was == [k \in 1..(n + p) |-> IF k \in 1..n THEN k ELSE n - k]
<1>1. n \in Nat /\ p \in Nat /\ DOMAIN s = 1..n /\ DOMAIN new = 1..p
  OBVIOUS
<1>2. /\ t \in Seq(Call) /\ DOMAIN t = 1..(n + p)
      /\ \A k \in 1..n : t[k] = r[k]
      /\ \A m \in 1..p : t[n + m] = new[m]
  <2>1. t \in Seq(Call) /\ Len(t) = Len(r) + Len(new)
        /\ \A k \in 1..(Len(r) + Len(new)) :
              t[k] = IF k <= Len(r) THEN r[k] ELSE new[k - Len(r)]
    BY ConcatProperties
  <2>2. DOMAIN t = 1..(n + p)
    BY <2>1
  <2>3. Len(r) = n /\ Len(new) = p
    OBVIOUS
  <2>4. \A k \in 1..(n + p) : t[k] = IF k <= n THEN r[k] ELSE new[k - n]
    BY <2>1, <2>3
  <2>5. ASSUME NEW k \in 1..n PROVE t[k] = r[k]
    <3>1. k \in 1..(n + p) /\ k <= n
      BY <1>1
    <3> QED
      BY <2>4, <3>1
  <2>6. ASSUME NEW m \in 1..p PROVE t[n + m] = new[m]
    <3>1. n + m \in 1..(n + p) /\ ~(n + m <= n) /\ (n + m) - n = m
      BY <1>1
    <3> QED
      BY <2>4, <3>1
  <2> QED
    BY <2>1, <2>2, <2>5, <2>6
<1>3. \A k \in 1..n : Heir(s[k], r[k], age)
  OBVIOUS
<1> HIDE DEF n, p, t
<1>4. was \in [1..(n + p) -> Int] /\ \A k \in 1..(n + p) : was[k] = IF k \in 1..n THEN k ELSE n - k
  BY <1>1
<1> HIDE DEF was
<1>5. ASSUME NEW k \in 1..(n + p)
      PROVE  \/ was[k] \in 1..n /\ was[k] = k /\ t[k] = r[k]
             \/ -was[k] \in 1..p /\ t[k] = new[-was[k]]
  <2>1. CASE k \in 1..n
    BY <1>2, <1>4, <2>1
  <2>2. CASE k \notin 1..n
    <3>1. k - n \in 1..p /\ n + (k - n) = k /\ -(n - k) = k - n
      BY <1>1, <2>2
    <3> QED
      BY <1>2, <1>4, <2>2, <3>1
  <2> QED
    BY <2>1, <2>2
<1>6. ASSUME NEW k \in 1..(n + p), NEW l \in 1..(n + p), was[k] = was[l] PROVE k = l
  BY <1>1, <1>4, <1>6
<1>7. ASSUME NEW j \in 1..n PROVE j \in 1..(n + p) /\ was[j] = j
  BY <1>1, <1>4
<1>8. ASSUME NEW m \in 1..p PROVE n + m \in 1..(n + p) /\ was[n + m] = -m
  BY <1>1, <1>4
<1>9. Were(was, s, t, {}, age, new)
  BY ZenonT(30), <1>1, <1>2, <1>3, <1>4, <1>5, <1>6, <1>7, <1>8 DEF Were
<1>10. Moves(s, t, {}, age, new)
  BY <1>9 DEF Moves
<1> QED
  BY <1>2, <1>10 DEF t

\* RemoveAt leaves the others in their order.
LEMMA Removed ==
  ASSUME NEW s \in Seq(Call), NEW i \in DOMAIN s
  PROVE  /\ RemoveAt(s, i) \in Seq(Call) /\ Len(RemoveAt(s, i)) = Len(s) - 1
         /\ \A k \in 1..(Len(s) - 1) : RemoveAt(s, i)[k] = s[IF k < i THEN k ELSE k + 1]
<1> DEFINE n == Len(s)
           a == SubSeq(s, 1, i - 1)
           b == SubSeq(s, i + 1, n)
<1>1. n \in Nat /\ DOMAIN s = 1..n /\ i \in 1..n /\ \A j \in 1..n : s[j] \in Call
  OBVIOUS
<1>2. a \in Seq(Call) /\ Len(a) = i - 1 /\ \A j \in 1..(i - 1) : a[j] = s[j]
  <2>1. 1 \in Int /\ i - 1 \in Int /\ \A j \in 1..(i - 1) : s[j] \in Call
    BY <1>1
  <2>2. /\ a \in Seq(Call) /\ Len(a) = IF 1 <= i - 1 THEN i - 1 - 1 + 1 ELSE 0
        /\ \A j \in 1..(i - 1 - 1 + 1) : a[j] = s[1 + j - 1]
    BY <2>1, SubSeqProperties
  <2> QED
    BY <1>1, <2>2
<1>3. b \in Seq(Call) /\ Len(b) = n - i /\ \A j \in 1..(n - i) : b[j] = s[i + j]
  <2>1. i + 1 \in Int /\ n \in Int /\ \A j \in (i + 1)..n : s[j] \in Call
    BY <1>1
  <2>2. /\ b \in Seq(Call) /\ Len(b) = IF i + 1 <= n THEN n - (i + 1) + 1 ELSE 0
        /\ \A j \in 1..(n - (i + 1) + 1) : b[j] = s[(i + 1) + j - 1]
    <3> HIDE DEF n
    <3> QED
      BY <2>1, SubSeqProperties DEF n
  <2> QED
    BY SMTT(30), <1>1, <2>2
<1>4. RemoveAt(s, i) = a \o b
  BY DEF RemoveAt
<1> HIDE DEF a, b
<1> DEFINE q == a \o b
<1>5. /\ q \in Seq(Call) /\ Len(q) = Len(a) + Len(b)
      /\ \A k \in 1..(Len(a) + Len(b)) : q[k] = IF k <= Len(a) THEN a[k] ELSE b[k - Len(a)]
  BY <1>2, <1>3, ConcatProperties
<1> HIDE DEF q, n
<1>6. Len(q) = n - 1 /\ \A k \in 1..(n - 1) : q[k] = IF k <= i - 1 THEN a[k] ELSE b[k - (i - 1)]
  BY <1>1, <1>2, <1>3, <1>5
<1>7. ASSUME NEW k \in 1..(n - 1)
      PROVE  q[k] = s[IF k < i THEN k ELSE k + 1]
  <2>1. CASE k < i
    <3>1. k \in 1..(i - 1) /\ k <= i - 1
      BY <1>1, <2>1
    <3> QED
      BY <1>2, <1>6, <2>1, <3>1
  <2>2. CASE ~(k < i)
    <3>1. k - (i - 1) \in 1..(n - i) /\ ~(k <= i - 1) /\ i + (k - (i - 1)) = k + 1
      BY <1>1, <2>2
    <3> QED
      BY <1>3, <1>6, <2>2, <3>1
  <2> QED
    BY <2>1, <2>2
<1> QED
  BY <1>4, <1>5, <1>6, <1>7 DEF q, n

\* Where calls come from when the one at i ends is different for each.
LEMMA KeptApart ==
  ASSUME NEW i \in Int, NEW n \in Int, NEW k \in Int, NEW l \in Int, k > 0, l > 0, NEW x, NEW y,
         x = IF k <= n - 1 THEN IF k < i THEN k ELSE k + 1 ELSE (n - 1) - k,
         y = IF l <= n - 1 THEN IF l < i THEN l ELSE l + 1 ELSE (n - 1) - l,
         x = y
  PROVE  k = l
<1>1. CASE k <= n - 1 /\ l <= n - 1
  BY <1>1
<1>2. CASE k <= n - 1 /\ ~(l <= n - 1)
  BY <1>2
<1>3. CASE ~(k <= n - 1)
  BY <1>3
<1> QED
  BY <1>1, <1>2, <1>3

\* One call ends, the others move up, and new ones come at the end.
LEMMA MovesUp ==
  ASSUME NEW s \in Seq(Call), NEW i \in DOMAIN s, NEW r \in Seq(Call), NEW age,
         NEW new \in Seq(Call), Len(r) = Len(s) - 1,
         \A k \in 1..(Len(s) - 1) : Heir(s[IF k < i THEN k ELSE k + 1], r[k], age)
  PROVE  r \o new \in Seq(Call) /\ Moves(s, r \o new, {i}, age, new)
<1> DEFINE n == Len(s)
           p == Len(new)
           t == r \o new
           was == [k \in 1..((n - 1) + p) |->
                     IF k \in 1..(n - 1) THEN IF k < i THEN k ELSE k + 1 ELSE (n - 1) - k]
<1>1. n \in Nat /\ p \in Nat /\ DOMAIN s = 1..n /\ DOMAIN new = 1..p /\ i \in 1..n
  OBVIOUS
<1>2. /\ t \in Seq(Call) /\ DOMAIN t = 1..((n - 1) + p)
      /\ \A k \in 1..(n - 1) : t[k] = r[k]
      /\ \A m \in 1..p : t[(n - 1) + m] = new[m]
  <2>1. t \in Seq(Call) /\ Len(t) = Len(r) + Len(new)
        /\ \A k \in 1..(Len(r) + Len(new)) :
              t[k] = IF k <= Len(r) THEN r[k] ELSE new[k - Len(r)]
    BY ConcatProperties
  <2>2. DOMAIN t = 1..((n - 1) + p)
    BY <2>1
  <2>3. Len(r) = n - 1 /\ Len(new) = p
    OBVIOUS
  <2>4. \A k \in 1..((n - 1) + p) : t[k] = IF k <= n - 1 THEN r[k] ELSE new[k - (n - 1)]
    BY <2>1, <2>3
  <2>5. ASSUME NEW k \in 1..(n - 1) PROVE t[k] = r[k]
    <3>1. k \in 1..((n - 1) + p) /\ k <= n - 1
      BY <1>1
    <3> QED
      BY <2>4, <3>1
  <2>6. ASSUME NEW m \in 1..p PROVE t[(n - 1) + m] = new[m]
    <3>1. /\ (n - 1) + m \in 1..((n - 1) + p) /\ ~((n - 1) + m <= n - 1)
          /\ ((n - 1) + m) - (n - 1) = m
      BY <1>1
    <3> QED
      BY <2>4, <3>1
  <2> QED
    BY <2>1, <2>2, <2>5, <2>6
<1>3. \A k \in 1..(n - 1) : Heir(s[IF k < i THEN k ELSE k + 1], r[k], age)
  OBVIOUS
<1> HIDE DEF n, p, t
<1>4. /\ was \in [1..((n - 1) + p) -> Int]
      /\ \A k \in 1..((n - 1) + p) :
           was[k] = IF k \in 1..(n - 1) THEN IF k < i THEN k ELSE k + 1 ELSE (n - 1) - k
  BY <1>1
<1> HIDE DEF was
<1>5. ASSUME NEW k \in 1..((n - 1) + p)
      PROVE  \/ was[k] \in 1..n /\ was[k] \notin {i} /\ Heir(s[was[k]], t[k], age)
             \/ -was[k] \in 1..p /\ t[k] = new[-was[k]]
  <2>1. CASE k \in 1..(n - 1)
    <3>1. was[k] = IF k < i THEN k ELSE k + 1
      BY <1>4, <2>1
    <3>2. was[k] \in 1..n /\ was[k] # i
      BY <1>1, <2>1, <3>1
    <3> QED
      BY <1>2, <1>3, <2>1, <3>1, <3>2
  <2>2. CASE k \notin 1..(n - 1)
    <3>1. k - (n - 1) \in 1..p /\ (n - 1) + (k - (n - 1)) = k /\ -((n - 1) - k) = k - (n - 1)
      BY <1>1, <2>2
    <3> QED
      BY <1>2, <1>4, <2>2, <3>1
  <2> QED
    BY <2>1, <2>2
<1>6. ASSUME NEW k \in 1..((n - 1) + p), NEW l \in 1..((n - 1) + p), was[k] = was[l] PROVE k = l
  <2>1. n \in Int /\ i \in Int /\ k \in Int /\ l \in Int /\ k > 0 /\ l > 0
    BY <1>1
  <2>2. (k \in 1..(n - 1) <=> k <= n - 1) /\ (l \in 1..(n - 1) <=> l <= n - 1)
    BY <2>1
  <2>3. was[k] = IF k <= n - 1 THEN IF k < i THEN k ELSE k + 1 ELSE (n - 1) - k
    BY <1>4, <2>2
  <2>4. was[l] = IF l <= n - 1 THEN IF l < i THEN l ELSE l + 1 ELSE (n - 1) - l
    BY <1>4, <2>2
  <2> DEFINE x == was[k]
             y == was[l]
  <2>5. /\ x = IF k <= n - 1 THEN IF k < i THEN k ELSE k + 1 ELSE (n - 1) - k
        /\ y = IF l <= n - 1 THEN IF l < i THEN l ELSE l + 1 ELSE (n - 1) - l
        /\ x = y
    BY <1>6, <2>3, <2>4
  <2> HIDE DEF x, y
  <2> QED
    BY ONLY <2>1, <2>5, KeptApart
<1>7. ASSUME NEW j \in 1..n, j \notin {i} PROVE \E k \in 1..((n - 1) + p) : was[k] = j
  <2>1. CASE j < i
    <3>1. j \in 1..((n - 1) + p) /\ j \in 1..(n - 1)
      BY <1>1, <2>1
    <3>2. was[j] = j
      BY <1>4, <2>1, <3>1
    <3> QED
      BY <3>1, <3>2
  <2>2. CASE ~(j < i)
    <3>1. j - 1 \in 1..((n - 1) + p) /\ j - 1 \in 1..(n - 1) /\ ~(j - 1 < i) /\ (j - 1) + 1 = j
      BY <1>1, <1>7, <2>2
    <3>2. was[j - 1] = j
      BY <1>4, <3>1
    <3> QED
      BY <3>1, <3>2
  <2> QED
    BY <2>1, <2>2
<1>8. ASSUME NEW m \in 1..p PROVE (n - 1) + m \in 1..((n - 1) + p) /\ was[(n - 1) + m] = -m
  <2>1. (n - 1) + m \in 1..((n - 1) + p) /\ (n - 1) + m \notin 1..(n - 1)
        /\ (n - 1) - ((n - 1) + m) = -m
    BY <1>1
  <2> QED
    BY <1>4, <2>1
<1>9. Were(was, s, t, {i}, age, new)
  BY <1>1, <1>2, <1>4, <1>5, <1>6, <1>7, <1>8 DEF Were
<1>10. Moves(s, t, {i}, age, new)
  BY <1>9 DEF Moves
<1> QED
  BY <1>2, <1>10 DEF t

-------------------------------------------------------------------------------
(* The calls of a page, and what each kind of step does to the calls under way *)

\* A call that has just been sent.
Sent(c) == c \in Call /\ c.at = "sent" /\ ~ c.did /\ ~ c.stale

\* The filters are sets of shows, and none is the filter of a cleared store.
LEMMA Constants ==
  /\ NoUser \notin Users /\ NoFilter \in Filters
  /\ \A f \in Filters : f \subseteq Events
  /\ \A r \in Rankings : r \in Seq(Events)
  /\ PageSize \in Nat /\ PageSize > 0 /\ WalkPages \in Nat
  /\ MaxCalls \in Nat /\ MaxClicks \in Nat /\ MaxUpsets \in Nat
BY WebAssumption DEF WebAssumption

\* What a new call says.
IsNewCall(c, op, u) ==
  Sent(c) /\ c.op = op /\ c.user = u /\ c.on = FALSE /\ c.raced = {}

\* A new call is sent, and says what it was made with.
LEMMA NewCallIs ==
  ASSUME NEW u \in Users,
         NEW op \in {"session", "login", "patch", "page", "dismiss", "load", "toggle"}
  PROVE  IsNewCall(NewCall(op, u), op, u)
BY Constants DEF NewCall, Sent, Call, IsNewCall

\* What a call for a page says.
IsPageCall(c, u, reset, at, passing) ==
  /\ Sent(c) /\ c.op = "page" /\ c.user = u /\ c.on = reset /\ c.cursor = at
  /\ c.filters = passing

\* An append starts where the store is.
LEMMA AppendIs ==
  ASSUME NEW u \in Users, NEW at \in Nat, NEW passing \in Filters, NEW left \in Nat
  PROVE  IsPageCall(PageCall(u, FALSE, at, passing, left), u, FALSE, at, passing)
<1> DEFINE b == NewCall("page", u)
           c == PageCall(u, FALSE, at, passing, left)
<1>1. Sent(b) /\ b.op = "page" /\ b.user = u
  BY NewCallIs DEF IsNewCall
<1>2. c = [b EXCEPT !.on = FALSE, !.cursor = at, !.filters = passing, !.left = left]
  BY DEF PageCall
<1> HIDE DEF b, c
<1>3. IsPageCall(c, u, FALSE, at, passing)
  BY <1>1, <1>2 DEF Sent, Call, IsPageCall
<1> QED
  BY <1>3 DEF c

\* A reset starts at the first show.
LEMMA ResetIs ==
  ASSUME NEW u \in Users, NEW at \in Nat, NEW passing \in Filters, NEW left \in Nat
  PROVE  IsPageCall(PageCall(u, TRUE, at, passing, left), u, TRUE, 0, passing)
<1> DEFINE b == NewCall("page", u)
           c == PageCall(u, TRUE, at, passing, left)
<1>1. Sent(b) /\ b.op = "page" /\ b.user = u
  BY NewCallIs DEF IsNewCall
<1>2. c = [b EXCEPT !.on = TRUE, !.cursor = 0, !.filters = passing, !.left = left]
  BY DEF PageCall
<1> HIDE DEF b, c
<1>3. IsPageCall(c, u, TRUE, 0, passing)
  BY <1>1, <1>2 DEF Sent, Call, IsPageCall
<1> QED
  BY <1>3 DEF c

\* What a load of the follows says.
LEMMA LoadCallIs ==
  ASSUME NEW u \in Users
  PROVE  /\ Sent(LoadCall(u)) /\ LoadCall(u).op = "load" /\ LoadCall(u).user = u
         /\ \A a \in Artists : a \in LoadCall(u).raced <=> Toggling(a) # {}
<1> DEFINE b == NewCall("load", u)
           c == LoadCall(u)
           R == {a \in Artists : Toggling(a) # {}}
<1>1. Sent(b) /\ b.op = "load" /\ b.user = u
  BY NewCallIs DEF IsNewCall
<1>2. c = [b EXCEPT !.raced = R]
  BY DEF LoadCall
<1>3. R \subseteq Artists /\ \A a \in Artists : a \in R <=> Toggling(a) # {}
  OBVIOUS
<1> HIDE DEF b, c, R
<1>4. Sent(c) /\ c.op = "load" /\ c.user = u /\ c.raced = R
  BY <1>1, <1>2, <1>3 DEF Sent, Call
<1> QED
  BY <1>3, <1>4 DEF c

\* What a page asks for: the first shows and the follows, for the user given.
Mounted(c, u) ==
  /\ Sent(c) /\ c.user = u
  /\ \/ c.op = "page" /\ c.on /\ c.cursor = 0
     \/ c.op = "load" /\ \A a \in Artists : a \in c.raced <=> Toggling(a) # {}

\* A page asks only with a session.
LEMMA MountCallsAre ==
  ASSUME NEW v, NEW u \in Users \cup {NoUser}, NEW passing \in Filters, cursor \in Nat
  PROVE  LET new == MountCalls(v, u, passing) IN
         /\ new \in Seq(Call)
         /\ \A m \in DOMAIN new : u \in Users /\ Mounted(new[m], u)
<1> DEFINE new == MountCalls(v, u, passing)
           left == IF v = "map" THEN WalkPages ELSE 0
<1>1. CASE u = NoUser \/ v = "settings"
  <2>1. new = <<>>
    BY <1>1 DEF MountCalls
  <2> HIDE DEF new
  <2>2. new \in Seq(Call) /\ DOMAIN new = {}
    BY <2>1
  <2> QED
    BY <2>2 DEF new
<1>2. CASE ~(u = NoUser \/ v = "settings")
  <2>1. u \in Users /\ left \in Nat
    BY <1>2, Constants
  <2> DEFINE c == PageCall(u, TRUE, cursor, passing, left)
             d == LoadCall(u)
  <2>2. new = <<c, d>>
    BY <1>2 DEF MountCalls
  <2>4. IsPageCall(c, u, TRUE, 0, passing)
    <3> HIDE DEF left
    <3> QED
      BY <2>1, ResetIs
  <2>5. Sent(d) /\ d.op = "load" /\ d.user = u
        /\ \A a \in Artists : a \in d.raced <=> Toggling(a) # {}
    BY <2>1, LoadCallIs
  <2> HIDE DEF c, d, new
  <2>6. Mounted(c, u) /\ Mounted(d, u) /\ c \in Call /\ d \in Call
    BY <2>4, <2>5 DEF Mounted, Sent, IsPageCall
  <2>7. new \in Seq(Call) /\ DOMAIN new = 1..2 /\ new[1] = c /\ new[2] = d
    BY <2>2, <2>6
  <2>8. \A m \in 1..2 : m = 1 \/ m = 2
    OBVIOUS
  <2> QED
    BY <2>1, <2>6, <2>7, <2>8 DEF new
<1> QED
  BY <1>1, <1>2

\* The one call of a session that is loaded.
LEMMA SessionCallsAre ==
  ASSUME NEW s, {s.token, s.user} \subseteq Users \cup {NoUser}, s.token = NoUser \/ s.user \in Users
  PROVE  LET new == SessionCalls(s) IN
         /\ new \in Seq(Call)
         /\ s.token = NoUser => new = <<>>
         /\ s.token # NoUser => DOMAIN new = {1}
         /\ \A m \in DOMAIN new : /\ m = 1 /\ Sent(new[m]) /\ new[m].op = "session"
                                  /\ new[m].user = s.token /\ new[m].what = s.user
<1> DEFINE new == SessionCalls(s)
<1>1. CASE s.token = NoUser
  BY <1>1 DEF SessionCalls
<1>2. CASE s.token # NoUser
  <2> DEFINE b == NewCall("session", s.token)
             c == [b EXCEPT !.what = s.user]
  <2>1. s.token \in Users /\ s.user \in Users
    BY <1>2
  <2>2. Sent(b) /\ b.op = "session" /\ b.user = s.token
    <3>1. ASSUME NEW u \in Users PROVE IsNewCall(NewCall("session", u), "session", u)
      BY NewCallIs
    <3> QED
      BY <2>1, <3>1 DEF IsNewCall
  <2>3. new = <<c>>
    BY <1>2 DEF SessionCalls
  <2> HIDE DEF b
  <2>4. Sent(c) /\ c.op = "session" /\ c.user = s.token /\ c.what = s.user
    BY <2>1, <2>2 DEF Sent, Call
  <2> HIDE DEF c, new
  <2>5. new \in Seq(Call) /\ DOMAIN new = {1} /\ new[1] = c
    BY <2>3, <2>4 DEF Sent
  <2> QED
    BY <1>2, <2>4, <2>5 DEF new
<1> QED
  BY <1>1, <1>2

\* A function on 1..n is a sequence.
LEMMA FunctionIsSeq ==
  ASSUME NEW S, NEW n \in Nat, NEW r \in [1..n -> S]
  PROVE  r \in Seq(S) /\ Len(r) = n
OBVIOUS

\* No step at all.
LEMMA UnmovedCalls ==
  ASSUME NEW s \in Seq(Call)
  PROVE  Moves(s, s, {}, "same", <<>>)
<1>1. \A k \in 1..Len(s) : Heir(s[k], s[k], "same")
  BY SameHeir
<1> DEFINE new == <<>>
<1>2. new \in Seq(Call) /\ Len(s) = Len(s) /\ s \o new = s
  OBVIOUS
<1> HIDE DEF new
<1>3. Moves(s, s \o new, {}, "same", new)
  BY <1>1, <1>2, MovesOn
<1> QED
  BY <1>2, <1>3 DEF new

\* Calls are answered, or outdated, where they stand.
LEMMA CallsInPlace ==
  ASSUME NEW s \in Seq(Call), NEW r \in Seq(Call), Len(r) = Len(s), NEW age,
         \A k \in 1..Len(s) : Heir(s[k], r[k], age)
  PROVE  Moves(s, r, {}, age, <<>>)
<1> DEFINE new == <<>>
<1>1. new \in Seq(Call) /\ r \o new = r
  OBVIOUS
<1> HIDE DEF new
<1>2. Moves(s, r \o new, {}, age, new)
  BY <1>1, MovesOn
<1> QED
  BY <1>1, <1>2 DEF new

\* Calls are sent.
LEMMA CallsSent ==
  ASSUME NEW s \in Seq(Call), NEW new \in Seq(Call)
  PROVE  s \o new \in Seq(Call) /\ Moves(s, s \o new, {}, "same", new)
<1>1. \A k \in 1..Len(s) : Heir(s[k], s[k], "same")
  BY SameHeir
<1>2. Len(s) = Len(s)
  OBVIOUS
<1> QED
  BY <1>1, <1>2, MovesOn

\* One call is sent.
LEMMA CallSent ==
  ASSUME NEW s \in Seq(Call), NEW c \in Call
  PROVE  Append(s, c) \in Seq(Call) /\ Moves(s, Append(s, c), {}, "same", <<c>>)
<1> DEFINE new == <<c>>
<1>1. new \in Seq(Call) /\ Append(s, c) = s \o new
  OBVIOUS
<1> HIDE DEF new
<1>2. s \o new \in Seq(Call) /\ Moves(s, s \o new, {}, "same", new)
  BY <1>1, CallsSent
<1> QED
  BY <1>1, <1>2 DEF new

\* A call ends, and others are sent.
LEMMA CallEnds ==
  ASSUME NEW s \in Seq(Call), NEW i \in DOMAIN s, NEW new \in Seq(Call)
  PROVE  RemoveAt(s, i) \o new \in Seq(Call) /\ Moves(s, RemoveAt(s, i) \o new, {i}, "same", new)
<1> DEFINE r == RemoveAt(s, i)
<1>1. /\ r \in Seq(Call) /\ Len(r) = Len(s) - 1
      /\ \A k \in 1..(Len(s) - 1) : r[k] = s[IF k < i THEN k ELSE k + 1]
  BY Removed
<1> HIDE DEF r
<1>2. ASSUME NEW k \in 1..(Len(s) - 1)
      PROVE  Heir(s[IF k < i THEN k ELSE k + 1], r[k], "same")
  BY <1>1, SameHeir
<1>3. r \o new \in Seq(Call) /\ Moves(s, r \o new, {i}, "same", new)
  BY <1>1, <1>2, MovesUp
<1> QED
  BY <1>3 DEF r

\* A call ends.
LEMMA CallOver ==
  ASSUME NEW s \in Seq(Call), NEW i \in DOMAIN s
  PROVE  RemoveAt(s, i) \in Seq(Call) /\ Moves(s, RemoveAt(s, i), {i}, "same", <<>>)
<1> DEFINE new == <<>>
<1>1. RemoveAt(s, i) \in Seq(Call)
  BY Removed
<1>2. new \in Seq(Call) /\ RemoveAt(s, i) \o new = RemoveAt(s, i)
  BY <1>1
<1> HIDE DEF new
<1>3. Moves(s, RemoveAt(s, i) \o new, {i}, "same", new)
  BY <1>2, CallEnds
<1> QED
  BY <1>1, <1>2, <1>3 DEF new

\* The append's button is let go.
LEMMA UnmountedIs ==
  ASSUME NEW s \in Seq(Call)
  PROVE  /\ Unmounted(s) \in Seq(Call) /\ Len(Unmounted(s)) = Len(s)
         /\ \A k \in 1..Len(s) : Heir(s[k], Unmounted(s)[k], "same")
<1> DEFINE r == Unmounted(s)
           n == Len(s)
<1>1. n \in Nat /\ DOMAIN s = 1..n /\ \A k \in 1..n : s[k] \in Call
  OBVIOUS
<1>2. r = [k \in 1..n |-> [s[k] EXCEPT !.button = FALSE]]
  BY <1>1 DEF Unmounted
<1> HIDE DEF r, n
<1>3. ASSUME NEW k \in 1..n
      PROVE  r[k] \in Call /\ Heir(s[k], r[k], "same")
  <2>1. r[k] = [s[k] EXCEPT !.button = FALSE] /\ s[k] \in Call
    BY <1>1, <1>2
  <2> DEFINE c == s[k]
             d == r[k]
  <2>2. d = [c EXCEPT !.button = FALSE] /\ c \in Call
    BY <2>1
  <2> HIDE DEF c, d
  <2>3. d \in Call /\ Heir(c, d, "same")
    BY <2>2 DEF Heir, Call
  <2> QED
    BY <2>3 DEF c, d
<1>4. r \in Seq(Call) /\ Len(r) = n
  <2>1. r \in [1..n -> Call]
    BY <1>2, <1>3
  <2> QED
    BY <1>1, <2>1, FunctionIsSeq
<1> QED
  BY <1>3, <1>4 DEF r, n

\* The session changes: what is under way is outdated.
LEMMA StaleIs ==
  ASSUME NEW s \in Seq(Call)
  PROVE  /\ Stale(Unmounted(s)) \in Seq(Call) /\ Len(Stale(Unmounted(s))) = Len(s)
         /\ \A k \in 1..Len(s) : Heir(s[k], Stale(Unmounted(s))[k], "old")
<1> DEFINE q == Unmounted(s)
           r == Stale(q)
           n == Len(s)
<1>1. n \in Nat /\ q \in Seq(Call) /\ Len(q) = n /\ \A k \in 1..n : Heir(s[k], q[k], "same")
  BY UnmountedIs
<1>2. DOMAIN q = 1..n /\ \A k \in 1..n : q[k] \in Call
  BY <1>1
<1>3. r = [k \in 1..n |-> [q[k] EXCEPT !.stale = TRUE]]
  BY <1>2 DEF Stale
<1> HIDE DEF q, r, n
<1>4. ASSUME NEW k \in 1..n
      PROVE  r[k] \in Call /\ Heir(s[k], r[k], "old")
  <2> DEFINE c == s[k]
             d == q[k]
             e == r[k]
  <2>1. e = [d EXCEPT !.stale = TRUE] /\ d \in Call /\ Heir(c, d, "same")
    BY <1>1, <1>2, <1>3
  <2> HIDE DEF c, d, e
  <2>2. e \in Call /\ Heir(c, e, "old")
    BY <2>1 DEF Heir, Call
  <2> QED
    BY <2>2 DEF c, e
<1>5. r \in Seq(Call) /\ Len(r) = n
  <2>1. r \in [1..n -> Call]
    BY <1>3, <1>4
  <2> QED
    BY <1>1, <2>1, FunctionIsSeq
<1> QED
  BY <1>4, <1>5 DEF q, r, n

\* A sign-in: a call ends, the others are outdated, and the page asks anew.
LEMMA CallsOutdated ==
  ASSUME NEW s \in Seq(Call), NEW i \in DOMAIN s, NEW new \in Seq(Call)
  PROVE  LET t == Stale(Unmounted(RemoveAt(s, i))) \o new IN
         t \in Seq(Call) /\ Moves(s, t, {i}, "old", new)
<1> DEFINE q == RemoveAt(s, i)
           r == Stale(Unmounted(q))
<1>1. /\ q \in Seq(Call) /\ Len(q) = Len(s) - 1
      /\ \A k \in 1..(Len(s) - 1) : q[k] = s[IF k < i THEN k ELSE k + 1]
  BY Removed
<1> HIDE DEF q
<1>2. r \in Seq(Call) /\ Len(r) = Len(q) /\ \A k \in 1..Len(q) : Heir(q[k], r[k], "old")
  BY <1>1, StaleIs
<1> HIDE DEF r
<1>3. ASSUME NEW k \in 1..(Len(s) - 1)
      PROVE  Heir(s[IF k < i THEN k ELSE k + 1], r[k], "old")
  BY <1>1, <1>2
<1>4. r \o new \in Seq(Call) /\ Moves(s, r \o new, {i}, "old", new)
  BY <1>1, <1>2, <1>3, MovesUp
<1> QED
  BY <1>4 DEF q, r

\* The browser loads the app again: every call ends.
LEMMA CallsDropped ==
  ASSUME NEW s \in Seq(Call), NEW new \in Seq(Call)
  PROVE  Moves(s, new, DOMAIN s, "same", new)
<1> DEFINE p == Len(new)
           was == [k \in 1..p |-> -k]
<1>1. p \in Nat /\ DOMAIN new = 1..p
  OBVIOUS
<1> HIDE DEF p
<1>2. was \in [1..p -> Int] /\ \A k \in 1..p : was[k] = -k /\ -was[k] = k
  BY <1>1
<1> HIDE DEF was
<1>3. \A k, l \in 1..p : was[k] = was[l] => k = l
  BY <1>2
<1>4. \A j \in DOMAIN s : j \in DOMAIN s
  OBVIOUS
<1>5. Were(was, s, new, DOMAIN s, "same", new)
  BY <1>1, <1>2, <1>3, <1>4 DEF Were
<1> QED
  BY <1>5 DEF Moves

-------------------------------------------------------------------------------
(* The inductive invariant, in named parts *)

\* There is more to ask for just when the cursor has moved.
CursorOK == (hasMore => cursor > 0) /\ (~ hasMore => cursor = 0)

Typed == TypeOK /\ CursorOK

\* A request of the present session is of its user.
Own(c, t) ==
  c.op \in {"page", "load", "toggle", "dismiss", "patch"} /\ ~ c.stale => c.user = t

\* What a call is about, and where a page starts.
Shape(c) ==
  /\ c.op = "dismiss" => c.what \in Events
  /\ c.op = "toggle" => c.what \in Artists /\ c.raced \subseteq {c.what}
  /\ c.op = "session" => c.what \in Users
  /\ c.op = "page" => (c.on => c.cursor = 0) /\ (~ c.on => c.cursor > 0)

\* A dismissal or a toggle that was answered was done.
Done(c) == c.op \in {"dismiss", "toggle"} /\ c.at = "done" => c.did

CallsOK == \A i \in DOMAIN calls : Shape(calls[i]) /\ Own(calls[i], token) /\ Done(calls[i])

\* A call that the session of t may send.
Fit(c, t) == Sent(c) /\ Shape(c) /\ Own(c, t)

\* What a step does to the calls under way.
Moved(gone, age, new) ==
  /\ calls' \in Seq(Call) /\ new \in Seq(Call)
  /\ Moves(calls, calls', gone, age, new)
  /\ \A m \in DOMAIN new : Fit(new[m], token')

\* The lesser of two.
LEMMA MinIs ==
  ASSUME NEW a \in Int, NEW b \in Int
  PROVE  Min({a, b}) = IF a <= b THEN a ELSE b
<1> DEFINE m == IF a <= b THEN a ELSE b
<1>1. m \in {a, b} /\ \A y \in {a, b} : m <= y
  OBVIOUS
<1>2. \A x \in {a, b} : (\A y \in {a, b} : x <= y) => x = m
  OBVIOUS
<1> HIDE DEF m
<1>3. Min({a, b}) = m
  BY <1>1, <1>2 DEF Min
<1> QED
  BY <1>3 DEF m

\* The gateway's list holds shows that pass the filters and are not dismissed.
LEMMA ListingIs ==
  ASSUME TypeOK, NEW u \in Users, NEW passing
  PROVE  /\ Listing(u, passing) \in Seq(Events)
         /\ \A e \in Range(Listing(u, passing)) : e \in passing /\ e \notin dismissed[u]
<1> DEFINE T == passing \ dismissed[u]
           r == ranked[u]
<1>1. r \in Seq(Events)
  BY Constants DEF TypeOK
<1>2. Listing(u, passing) = Kept(r, T)
  BY DEF Listing
<1>3. \A e \in T : e \in passing /\ e \notin dismissed[u]
  OBVIOUS
<1> HIDE DEF T, r
<1>4. Kept(r, T) \in Seq(Events) /\ Range(Kept(r, T)) = Range(r) \cap T
  BY <1>1, KeptRange
<1> QED
  BY <1>2, <1>3, <1>4

\* A part of a sequence holds some of its members.
LEMMA PartOf ==
  ASSUME NEW S, NEW s \in Seq(S), NEW a \in Nat \ {0}, NEW b \in Nat, b <= Len(s)
  PROVE  SubSeq(s, a, b) \in Seq(S) /\ Range(SubSeq(s, a, b)) \subseteq Range(s)
<1> DEFINE q == SubSeq(s, a, b)
           n == IF a <= b THEN b - a + 1 ELSE 0
<1>1. Len(s) \in Nat /\ DOMAIN s = 1..Len(s)
  OBVIOUS
<1>2. \A j \in a..b : s[j] \in S
  BY <1>1
<1>3. a \in Int /\ b \in Int
  OBVIOUS
<1>4. /\ q \in Seq(S) /\ Len(q) = n
      /\ \A j \in 1..(b - a + 1) : q[j] = s[a + j - 1]
  BY <1>2, <1>3, SubSeqProperties
<1>5. DOMAIN q = 1..n
  BY <1>4
<1> HIDE DEF q
<1>6. ASSUME NEW j \in 1..n PROVE q[j] \in Range(s)
  <2>1. j \in 1..(b - a + 1) /\ a + j - 1 \in 1..Len(s)
    BY <1>1, <1>3
  <2> QED
    BY <1>1, <1>4, <2>1 DEF Range
<1> QED
  BY <1>4, <1>5, <1>6 DEF Range, q

\* The calls are of their type.
LEMMA CallIs ==
  ASSUME TypeOK, NEW i \in DOMAIN calls
  PROVE  /\ calls[i] \in Call /\ calls[i].user \in Users /\ calls[i].filters \in Filters
         /\ calls[i].cursor \in Nat /\ calls[i].left \in Nat /\ calls[i].version \in Nat
         /\ calls[i].items \in Seq(Events) /\ calls[i].ids \subseteq Artists
         /\ calls[i].raced \subseteq Artists /\ calls[i].older \subseteq Events
         /\ calls[i].hasMore \in BOOLEAN /\ calls[i].on \in BOOLEAN /\ calls[i].stale \in BOOLEAN
         /\ calls[i].did \in BOOLEAN
         /\ calls \in Seq(Call)
<1>1. calls \in Seq(Call)
  BY DEF TypeOK
<1>2. calls[i] \in Call
  BY <1>1
<1> QED
  BY <1>1, <1>2 DEF Call

-------------------------------------------------------------------------------
(* What each action does to the calls *)

\* One call changes where it stands.
LEMMA ChangedAt ==
  ASSUME NEW s \in Seq(Call), NEW i \in DOMAIN s, NEW c \in Call, Heir(s[i], c, "answered")
  PROVE  LET r == [s EXCEPT ![i] = c] IN
         /\ r \in Seq(Call) /\ Len(r) = Len(s)
         /\ \A k \in 1..Len(s) : Heir(s[k], r[k], "answered")
<1> DEFINE r == [s EXCEPT ![i] = c]
           n == Len(s)
<1>1. n \in Nat /\ DOMAIN s = 1..n /\ \A k \in 1..n : s[k] \in Call
  OBVIOUS
<1>2. r = [k \in 1..n |-> IF k = i THEN c ELSE s[k]]
  BY <1>1
<1> HIDE DEF r, n
<1>3. ASSUME NEW k \in 1..n
      PROVE  r[k] \in Call /\ Heir(s[k], r[k], "answered")
  <2>1. Heir(s[k], s[k], "answered")
    BY DEF Heir
  <2> QED
    BY <1>1, <1>2, <2>1
<1>4. r \in [1..n -> Call]
  BY <1>2, <1>3
<1>5. r \in Seq(Call) /\ Len(r) = n
  BY <1>1, <1>4, FunctionIsSeq
<1> QED
  BY <1>3, <1>5 DEF r, n

\* Nothing is sent when a call is answered.
LEMMA AnsweredMoves ==
  ASSUME TypeOK, NEW r \in Seq(Call), calls' = r, Len(r) = Len(calls),
         \A k \in 1..Len(calls) : Heir(calls[k], r[k], "answered")
  PROVE  Moved({}, "answered", <<>>)
<1> DEFINE new == <<>>
<1>1. new \in Seq(Call) /\ DOMAIN new = {}
  OBVIOUS
<1> HIDE DEF new
<1>2. Moves(calls, r, {}, "answered", <<>>)
  BY CallsInPlace DEF TypeOK
<1> QED
  BY <1>1, <1>2 DEF Moved, new

\* A page is answered: the call stays, with the answer.
LEMMA AnswerPageMoves ==
  ASSUME TypeOK, NEW i \in DOMAIN calls, AnswerPage(i)
  PROVE  Moved({}, "answered", <<>>)
<1> DEFINE c == calls[i]
           all == Listing(c.user, c.filters)
           last == Min({c.cursor + PageSize, Len(all)})
           d == [c EXCEPT !.at = "done", !.version = version[c.user],
                          !.items = SubSeq(all, c.cursor + 1, last),
                          !.hasMore = last < Len(all)]
<1>1. c \in Call /\ c.user \in Users /\ c.cursor \in Nat /\ calls \in Seq(Call)
  BY CallIs
<1>2. all \in Seq(Events)
  BY <1>1, ListingIs
<1>3. version[c.user] \in Nat
  BY <1>1 DEF TypeOK
<1>4. calls' = [calls EXCEPT ![i] = d]
  BY DEF AnswerPage
<1> HIDE DEF c, all
<1>5. last \in Nat /\ last <= Len(all)
  <2>1. c.cursor + PageSize \in Int /\ Len(all) \in Int /\ Len(all) \in Nat
        /\ c.cursor + PageSize \in Nat
    BY <1>1, <1>2, Constants
  <2> QED
    BY <2>1, MinIs
<1> HIDE DEF last
<1>6. SubSeq(all, c.cursor + 1, last) \in Seq(Events)
  <2>1. c.cursor + 1 \in Nat \ {0}
    BY <1>1
  <2> QED
    BY <1>2, <1>5, <2>1, PartOf
<1>7. d \in Call /\ Heir(c, d, "answered")
  <2> DEFINE w == version[c.user]
             q == SubSeq(all, c.cursor + 1, last)
             b == last < Len(all)
  <2>1. w \in Nat /\ q \in Seq(Events) /\ b \in BOOLEAN
    BY <1>3, <1>6
  <2>2. d = [c EXCEPT !.at = "done", !.version = w, !.items = q, !.hasMore = b]
    OBVIOUS
  <2> HIDE DEF w, q, b, d
  <2> QED
    BY <1>1, <2>1, <2>2 DEF Heir, Call
<1> HIDE DEF d
<1> DEFINE r == [calls EXCEPT ![i] = d]
<1>8. r \in Seq(Call) /\ Len(r) = Len(calls)
      /\ \A k \in 1..Len(calls) : Heir(calls[k], r[k], "answered")
  BY <1>1, <1>7, ChangedAt DEF c
<1> HIDE DEF r
<1>9. calls' = r
  BY <1>4 DEF r
<1> QED
  BY <1>8, <1>9, AnsweredMoves

\* The follows are answered.
LEMMA AnswerLoadMoves ==
  ASSUME TypeOK, NEW i \in DOMAIN calls, AnswerLoad(i)
  PROVE  Moved({}, "answered", <<>>)
<1> DEFINE c == calls[i]
           d == [c EXCEPT !.at = "done", !.ids = follows[c.user]]
           r == [calls EXCEPT ![i] = d]
<1>1. c \in Call /\ calls \in Seq(Call) /\ follows[c.user] \subseteq Artists
  BY CallIs DEF TypeOK
<1>2. calls' = r
  BY <1>1 DEF AnswerLoad
<1>3. d \in Call /\ Heir(c, d, "answered")
  <2> HIDE DEF c
  <2> QED
    BY <1>1 DEF Heir, Call
<1> HIDE DEF d
<1>4. r \in Seq(Call) /\ Len(r) = Len(calls)
      /\ \A k \in 1..Len(calls) : Heir(calls[k], r[k], "answered")
  BY <1>1, <1>3, ChangedAt
<1> HIDE DEF r
<1> QED
  BY <1>2, <1>4, AnsweredMoves

\* A toggle is answered.
LEMMA AnswerToggleMoves ==
  ASSUME TypeOK, NEW i \in DOMAIN calls, NEW ranking, AnswerToggle(i, ranking)
  PROVE  Moved({}, "answered", <<>>)
<1> DEFINE c == calls[i]
           d == [c EXCEPT !.at = "done", !.did = TRUE]
           r == [calls EXCEPT ![i] = d]
<1>1. c \in Call /\ calls \in Seq(Call)
  BY CallIs
<1>2. calls' = r
  BY <1>1 DEF AnswerToggle
<1>3. d \in Call /\ Heir(c, d, "answered")
  <2> HIDE DEF c
  <2> QED
    BY <1>1 DEF Heir, Call
<1> HIDE DEF d
<1>4. r \in Seq(Call) /\ Len(r) = Len(calls)
      /\ \A k \in 1..Len(calls) : Heir(calls[k], r[k], "answered")
  BY <1>1, <1>3, ChangedAt
<1> HIDE DEF r
<1> QED
  BY <1>2, <1>4, AnsweredMoves

\* A call fails, and stays until that is known.
LEMMA FailMoves ==
  ASSUME TypeOK, NEW i \in DOMAIN calls, NEW how \in {"failed", "refused"}, Fail(i, how)
  PROVE  Moved({}, "answered", <<>>)
<1> DEFINE c == calls[i]
           d == [c EXCEPT !.at = how]
           r == [calls EXCEPT ![i] = d]
<1>1. c \in Call /\ calls \in Seq(Call)
  BY CallIs
<1>2. calls' = r
  BY <1>1 DEF Fail
<1>3. d \in Call /\ Heir(c, d, "answered")
  <2> HIDE DEF c
  <2> QED
    BY <1>1 DEF Heir, Call
<1> HIDE DEF d
<1>4. r \in Seq(Call) /\ Len(r) = Len(calls)
      /\ \A k \in 1..Len(calls) : Heir(calls[k], r[k], "answered")
  BY <1>1, <1>3, ChangedAt
<1> HIDE DEF r
<1> QED
  BY <1>2, <1>4, AnsweredMoves

\* A dismissal is answered, and pages read before remember the show.
LEMMA AnswerDismissMoves ==
  ASSUME TypeOK, CallsOK, NEW i \in DOMAIN calls, AnswerDismiss(i)
  PROVE  Moved({}, "answered", <<>>)
<1> DEFINE n == Len(calls)
<1>1. n \in Nat /\ DOMAIN calls = 1..n /\ calls \in Seq(Call) /\ \A j \in 1..n : calls[j] \in Call
  BY DEF TypeOK
<1>2. calls[i].what \in Events
  BY DEF AnswerDismiss, CallsOK, Shape
<1> DEFINE r == calls'
<1>3. r = [j \in 1..n |->
             IF j = i THEN [calls[i] EXCEPT !.at = "done", !.did = TRUE]
             ELSE IF calls[j].op = "page" /\ calls[j].at = "done"
             THEN [calls[j] EXCEPT !.older = @ \cup {calls[i].what}] ELSE calls[j]]
  BY <1>1 DEF AnswerDismiss
<1> HIDE DEF r, n
<1>4. ASSUME NEW j \in 1..n PROVE r[j] \in Call /\ Heir(calls[j], r[j], "answered")
  <2> DEFINE c == calls[j]
             d == r[j]
             e == calls[i].what
  <2>1. /\ c \in Call /\ e \in Events
        /\ \/ d = [c EXCEPT !.at = "done", !.did = TRUE]
           \/ d = [c EXCEPT !.older = @ \cup {e}]
           \/ d = c
    BY <1>1, <1>2, <1>3
  <2> HIDE DEF c, d, e
  <2>2. d \in Call /\ Heir(c, d, "answered")
    <3>1. CASE d = [c EXCEPT !.at = "done", !.did = TRUE]
      BY <2>1, <3>1 DEF Heir, Call
    <3>2. CASE d = [c EXCEPT !.older = @ \cup {e}]
      <4> DEFINE more == c.older \cup {e}
      <4>1. more \subseteq Events
        BY <2>1 DEF Call
      <4>2. d = [c EXCEPT !.older = more]
        BY <3>2
      <4> HIDE DEF more
      <4> QED
        BY <2>1, <4>1, <4>2 DEF Heir, Call
    <3>3. CASE d = c
      BY <2>1, <3>3 DEF Heir
    <3> QED
      BY <2>1, <3>1, <3>2, <3>3
  <2> QED
    BY <2>2 DEF c, d
<1>5. r \in [1..n -> Call]
  BY <1>3, <1>4
<1>6. r \in Seq(Call) /\ Len(r) = n
  BY <1>1, <1>5, FunctionIsSeq
<1>7. calls' = r
  BY DEF r
<1> QED
  BY <1>4, <1>6, <1>7, AnsweredMoves DEF n

\* Steps that leave the calls alone.
LEMMA UnchangedMoves ==
  ASSUME TypeOK, calls' = calls
  PROVE  Moved({}, "same", <<>>)
<1> DEFINE new == <<>>
<1>1. new \in Seq(Call) /\ DOMAIN new = {}
  OBVIOUS
<1> HIDE DEF new
<1>2. Moves(calls, calls, {}, "same", <<>>)
  BY UnmovedCalls DEF TypeOK
<1> QED
  BY <1>1, <1>2 DEF Moved, new, TypeOK

\* Steps that end a call and send none.
LEMMA EndMoves ==
  ASSUME TypeOK, NEW i \in DOMAIN calls, calls' = RemoveAt(calls, i)
  PROVE  Moved({i}, "same", <<>>)
<1> DEFINE new == <<>>
<1>1. new \in Seq(Call) /\ DOMAIN new = {}
  OBVIOUS
<1> HIDE DEF new
<1>2. RemoveAt(calls, i) \in Seq(Call) /\ Moves(calls, RemoveAt(calls, i), {i}, "same", <<>>)
  BY CallOver DEF TypeOK
<1> QED
  BY <1>1, <1>2 DEF Moved, new

\* Steps that end a call and send others.
LEMMA EndAndSendMoves ==
  ASSUME TypeOK, NEW i \in DOMAIN calls, NEW new \in Seq(Call), calls' = RemoveAt(calls, i) \o new,
         \A m \in DOMAIN new : Fit(new[m], token')
  PROVE  Moved({i}, "same", new)
<1>1. RemoveAt(calls, i) \o new \in Seq(Call)
      /\ Moves(calls, RemoveAt(calls, i) \o new, {i}, "same", new)
  BY CallEnds DEF TypeOK
<1> QED
  BY <1>1 DEF Moved

\* Steps that send one call.
LEMMA SendMoves ==
  ASSUME TypeOK, NEW c, Fit(c, token'), calls' = Append(calls, c)
  PROVE  Moved({}, "same", <<c>>)
<1> DEFINE new == <<c>>
<1>1. c \in Call
  BY DEF Fit, Sent
<1>2. new \in Seq(Call) /\ DOMAIN new = {1} /\ new[1] = c
  BY <1>1
<1> HIDE DEF new
<1>3. Append(calls, c) \in Seq(Call) /\ Moves(calls, Append(calls, c), {}, "same", <<c>>)
  BY <1>1, CallSent DEF TypeOK
<1>4. Moves(calls, Append(calls, c), {}, "same", new)
  BY <1>3 DEF new
<1>5. Moved({}, "same", new)
  BY <1>2, <1>3, <1>4 DEF Moved
<1> QED
  BY <1>5 DEF new

\* What a page asks for fits the session it asks for.
LEMMA MountedFits ==
  ASSUME NEW c, NEW t, Mounted(c, t)
  PROVE  Fit(c, t)
BY DEF Mounted, Fit, Shape, Own, Sent

\* A page is applied, and the map's walk may ask for the next.
LEMMA PageFulfilledMoves ==
  ASSUME Typed, CallsOK, NEW i \in DOMAIN calls, PageFulfilled(i)
  PROVE  \E new : Moved({i}, "same", new) /\ \A m \in DOMAIN new : new[m].op = "page"
<1> DEFINE c == calls[i]
           next == IF c.hasMore THEN c.cursor + PageSize ELSE 0
           w == PageCall(token, FALSE, next, filters, c.left - 1)
           new == IF c.left > 0 /\ c.hasMore /\ token # NoUser THEN <<w>> ELSE <<>>
<1>1. c \in Call /\ c.cursor \in Nat /\ c.left \in Nat
  BY CallIs DEF Typed
<1>2. calls' = RemoveAt(calls, i) \o new /\ token' = token
  BY DEF PageFulfilled, auth
<1>3. next \in Nat /\ filters \in Filters
  BY <1>1, Constants DEF Typed, TypeOK
<1>4. new \in Seq(Call) /\ \A m \in DOMAIN new : Fit(new[m], token') /\ new[m].op = "page"
  <2>1. CASE c.left > 0 /\ c.hasMore /\ token # NoUser
    <3>1. token \in Users
      BY <2>1 DEF Typed, TypeOK
    <3>2. next > 0
      BY <1>1, <2>1, Constants
    <3> DEFINE less == c.left - 1
    <3>3. less \in Nat
      BY <1>1, <2>1
    <3>4. new = <<w>>
      BY <2>1
    <3>5. w = PageCall(token, FALSE, next, filters, less)
      OBVIOUS
    <3> HIDE DEF next, less, w, new
    <3>6. IsPageCall(w, token, FALSE, next, filters)
      BY <1>3, <3>1, <3>3, <3>5, AppendIs
    <3>7. Fit(w, token) /\ w.op = "page"
      BY <1>3, <3>2, <3>6 DEF IsPageCall, Fit, Shape, Own, Sent
    <3>8. new \in Seq(Call) /\ DOMAIN new = {1} /\ new[1] = w
      BY <3>4, <3>7 DEF Fit, Sent
    <3> QED
      BY <1>2, <3>7, <3>8
  <2>2. CASE ~(c.left > 0 /\ c.hasMore /\ token # NoUser)
    <3>1. new = <<>>
      BY <2>2
    <3> HIDE DEF new
    <3>2. new \in Seq(Call) /\ DOMAIN new = {}
      BY <3>1
    <3> QED
      BY <3>2
  <2> QED
    BY <2>1, <2>2
<1> HIDE DEF new
<1>5. Moved({i}, "same", new)
  BY <1>2, <1>4, EndAndSendMoves DEF Typed
<1> QED
  BY <1>4, <1>5

\* A toggle is over, and the feed is asked for again.
LEMMA ToggleFulfilledMoves ==
  ASSUME Typed, NEW i \in DOMAIN calls, ToggleFulfilled(i)
  PROVE  \E new : /\ Moved({i}, "same", new) /\ Asked(new, status)
                  /\ \A m \in DOMAIN new : new[m].op = "page"
<1> DEFINE w == PageCall(token, TRUE, cursor, filters, 0)
           new == IF token = NoUser THEN <<>> ELSE <<w>>
<1>1. calls' = RemoveAt(calls, i) \o new /\ token' = token /\ Asked(new, status)
  BY DEF ToggleFulfilled, auth
<1>2. new \in Seq(Call) /\ \A m \in DOMAIN new : Fit(new[m], token') /\ new[m].op = "page"
  <2>1. CASE token # NoUser
    <3>1. token \in Users /\ cursor \in Nat /\ filters \in Filters /\ 0 \in Nat
      BY <2>1 DEF Typed, TypeOK
    <3>2. new = <<w>>
      BY <2>1
    <3> HIDE DEF new
    <3>3. IsPageCall(w, token, TRUE, 0, filters)
      BY <3>1, ResetIs
    <3> HIDE DEF w
    <3>4. Fit(w, token) /\ w.op = "page"
      BY <3>3 DEF IsPageCall, Fit, Shape, Own, Sent
    <3>5. new \in Seq(Call) /\ DOMAIN new = {1} /\ new[1] = w
      BY <3>2, <3>4 DEF Fit, Sent
    <3> QED
      BY <1>1, <3>4, <3>5
  <2>2. CASE token = NoUser
    <3>1. new = <<>>
      BY <2>2
    <3> HIDE DEF new
    <3>2. new \in Seq(Call) /\ DOMAIN new = {}
      BY <3>1
    <3> QED
      BY <3>2
  <2> QED
    BY <2>1, <2>2
<1> HIDE DEF new
<1>3. Moved({i}, "same", new)
  BY <1>1, <1>2, EndAndSendMoves DEF Typed
<1> QED
  BY <1>1, <1>2, <1>3

\* The first request to save settings is over, and the second is sent.
LEMMA UserUpdatedMoves ==
  ASSUME Typed, NEW i \in DOMAIN calls, UserUpdated(i)
  PROVE  \E new : /\ Moved({i}, "same", new)
                  /\ \A m \in DOMAIN new : new[m].op = "patch" /\ token # NoUser
<1> DEFINE w == NewCall("patch", token)
           new == IF calls[i].left = 1 /\ token # NoUser THEN <<w>> ELSE <<>>
<1>1. calls' = RemoveAt(calls, i) \o new /\ token' = token
  BY DEF UserUpdated
<1>2. new \in Seq(Call)
      /\ \A m \in DOMAIN new : Fit(new[m], token') /\ new[m].op = "patch" /\ token # NoUser
  <2>1. CASE calls[i].left = 1 /\ token # NoUser
    <3>1. token \in Users
      BY <2>1 DEF Typed, TypeOK
    <3>2. new = <<w>>
      BY <2>1
    <3> HIDE DEF new
    <3>3. IsNewCall(w, "patch", token)
      BY <3>1, NewCallIs
    <3> HIDE DEF w
    <3>4. Fit(w, token) /\ w.op = "patch"
      BY <3>3 DEF IsNewCall, Fit, Shape, Own, Sent
    <3>5. new \in Seq(Call) /\ DOMAIN new = {1} /\ new[1] = w
      BY <3>2, <3>4 DEF Fit, Sent
    <3> QED
      BY <1>1, <2>1, <3>4, <3>5
  <2>2. CASE ~(calls[i].left = 1 /\ token # NoUser)
    <3>1. new = <<>>
      BY <2>2
    <3> HIDE DEF new
    <3>2. new \in Seq(Call) /\ DOMAIN new = {}
      BY <3>1
    <3> QED
      BY <3>2
  <2> QED
    BY <2>1, <2>2
<1> HIDE DEF new
<1>3. Moved({i}, "same", new)
  BY <1>1, <1>2, EndAndSendMoves DEF Typed
<1> QED
  BY <1>2, <1>3

\* The feed's append, which needs a cursor.
LEMMA LoadMoreMoves ==
  ASSUME Typed, LoadMore
  PROVE  \E c : Moved({}, "same", <<c>>) /\ c.op = "page"
<1> DEFINE w == PageCall(token, FALSE, cursor, filters, 0)
           c == [w EXCEPT !.button = TRUE]
<1>1. token \in Users /\ cursor \in Nat /\ filters \in Filters /\ cursor > 0 /\ 0 \in Nat
  BY DEF Typed, TypeOK, CursorOK, LoadMore
<1>2. calls' = Append(calls, c) /\ token' = token
  BY DEF LoadMore, auth
<1>3. IsPageCall(w, token, FALSE, cursor, filters)
  BY <1>1, AppendIs
<1> HIDE DEF w
<1>4. IsPageCall(c, token, FALSE, cursor, filters)
  BY <1>3 DEF IsPageCall, Sent, Call
<1> HIDE DEF c
<1>5. Fit(c, token) /\ c.op = "page"
  BY <1>1, <1>4 DEF IsPageCall, Fit, Shape, Own, Sent
<1>6. Moved({}, "same", <<c>>)
  BY <1>2, <1>5, SendMoves DEF Typed
<1> QED
  BY <1>5, <1>6

\* A dismissal is sent.
LEMMA DismissEventMoves ==
  ASSUME Typed, NEW e \in Events, DismissEvent(e)
  PROVE  \E c : Moved({}, "same", <<c>>) /\ c.op = "dismiss"
<1> DEFINE w == NewCall("dismiss", token)
           c == [w EXCEPT !.what = e]
<1>1. token \in Users
  BY DEF Typed, TypeOK, DismissEvent
<1>2. calls' = Append(calls, c) /\ token' = token
  BY DEF DismissEvent, auth
<1>3. IsNewCall(w, "dismiss", token)
  BY <1>1, NewCallIs
<1> HIDE DEF w
<1>4. Fit(c, token) /\ c.op = "dismiss"
  BY <1>3 DEF IsNewCall, Fit, Shape, Own, Sent, Call
<1> HIDE DEF c
<1>5. Moved({}, "same", <<c>>)
  BY <1>2, <1>4, SendMoves DEF Typed
<1> QED
  BY <1>4, <1>5

\* The sign-in form sends its request.
LEMMA LoginMoves ==
  ASSUME Typed, NEW u \in Users, Login(u)
  PROVE  \E c : Moved({}, "same", <<c>>) /\ c.op = "login" /\ ~ c.on
<1> DEFINE c == NewCall("login", u)
<1>1. calls' = Append(calls, c) /\ token' = token
  BY DEF Login
<1>2. IsNewCall(c, "login", u)
  BY NewCallIs
<1> HIDE DEF c
<1>3. Fit(c, token) /\ c.op = "login" /\ ~ c.on
  BY <1>2 DEF IsNewCall, Fit, Shape, Own, Sent
<1>4. Moved({}, "same", <<c>>)
  BY <1>1, <1>3, SendMoves DEF Typed
<1> QED
  BY <1>3, <1>4

\* The settings page signs in with the token of the callback.
LEMMA AdoptTokenMoves ==
  ASSUME Typed, NEW u \in Users, AdoptToken(u)
  PROVE  \E c : Moved({}, "same", <<c>>) /\ c.op = "login"
<1> DEFINE w == NewCall("login", u)
           c == [w EXCEPT !.on = TRUE]
<1>1. calls' = Append(calls, c) /\ token' = token
  BY DEF AdoptToken, auth
<1>2. IsNewCall(w, "login", u)
  BY NewCallIs
<1> HIDE DEF w
<1>3. Fit(c, token) /\ c.op = "login"
  BY <1>2 DEF IsNewCall, Fit, Shape, Own, Sent, Call
<1> HIDE DEF c
<1>4. Moved({}, "same", <<c>>)
  BY <1>1, <1>3, SendMoves DEF Typed
<1> QED
  BY <1>3, <1>4

\* The first request to save settings is sent.
LEMMA SaveSettingsMoves ==
  ASSUME Typed, SaveSettings
  PROVE  \E c : Moved({}, "same", <<c>>) /\ c.op = "patch"
<1> DEFINE w == NewCall("patch", token)
           c == [w EXCEPT !.left = 1]
<1>1. token \in Users
  BY DEF Typed, TypeOK, SaveSettings
<1>2. calls' = Append(calls, c) /\ token' = token
  BY DEF SaveSettings, auth
<1>3. IsNewCall(w, "patch", token)
  BY <1>1, NewCallIs
<1> HIDE DEF w
<1>4. Fit(c, token) /\ c.op = "patch"
  BY <1>3 DEF IsNewCall, Fit, Shape, Own, Sent, Call
<1> HIDE DEF c
<1>5. Moved({}, "same", <<c>>)
  BY <1>2, <1>4, SendMoves DEF Typed
<1> QED
  BY <1>4, <1>5

\* A toggle is sent, and the loads under way are told of it.
LEMMA ToggleFollowMoves ==
  ASSUME Typed, NEW a \in Artists, ToggleFollow(a)
  PROVE  \E c : /\ Moved({}, "same", <<c>>) /\ c.op = "toggle" /\ c.what = a
                /\ c.on <=> a \in artistIds
                /\ c.raced = {a} \cap doubt
                /\ \A k \in DOMAIN calls' :
                     calls'[k].op = "load" => a \in calls'[k].raced
<1> DEFINE n == Len(calls)
           w == NewCall("toggle", token)
           v == a \in artistIds
           R == {a} \cap doubt
           c == [w EXCEPT !.what = a, !.on = v, !.raced = R]
           r == [k \in DOMAIN calls |->
                   IF calls[k].op = "load" THEN [calls[k] EXCEPT !.raced = @ \cup {a}]
                   ELSE calls[k]]
<1>1. token \in Users /\ n \in Nat /\ DOMAIN calls = 1..n /\ calls \in Seq(Call)
      /\ \A k \in 1..n : calls[k] \in Call
  BY DEF Typed, TypeOK, ToggleFollow
<1>2. calls' = Append(r, c) /\ token' = token
  BY DEF ToggleFollow, auth
<1>3. IsNewCall(w, "toggle", token)
  BY <1>1, NewCallIs
<1>4. v \in BOOLEAN /\ R \subseteq {a} /\ R \subseteq Artists
  OBVIOUS
<1>5. r = [k \in 1..n |->
             IF calls[k].op = "load" THEN [calls[k] EXCEPT !.raced = @ \cup {a}] ELSE calls[k]]
  BY <1>1
<1> HIDE DEF w, v, R, r, n
<1>6. Fit(c, token) /\ c.op = "toggle" /\ c.what = a /\ c.on = v /\ c.raced = R
  BY <1>3, <1>4 DEF IsNewCall, Fit, Shape, Own, Sent, Call
<1> HIDE DEF c
<1>7. ASSUME NEW k \in 1..n
      PROVE  r[k] \in Call /\ Heir(calls[k], r[k], "same") /\ (r[k].op = "load" => a \in r[k].raced)
  <2> DEFINE x == calls[k]
             y == r[k]
             more == x.raced \cup {a}
  <2>1. /\ x \in Call
        /\ y = IF x.op = "load" THEN [x EXCEPT !.raced = more] ELSE x
    BY <1>1, <1>5
  <2>2. more \subseteq Artists /\ x.raced \subseteq more /\ a \in more
    BY <2>1 DEF Call
  <2> HIDE DEF x, y, more
  <2>3. y \in Call /\ Heir(x, y, "same") /\ (y.op = "load" => a \in y.raced)
    BY <2>1, <2>2 DEF Heir, Call
  <2> QED
    BY <2>3 DEF x, y
<1>8. r \in [1..n -> Call]
  BY <1>5, <1>7
<1>9. r \in Seq(Call) /\ Len(r) = n
  BY <1>1, <1>8, FunctionIsSeq
<1> DEFINE new == <<c>>
<1>10. c \in Call
  BY <1>6 DEF Fit, Sent
<1>11. new \in Seq(Call) /\ DOMAIN new = {1} /\ new[1] = c /\ Append(r, c) = r \o new
  BY <1>9, <1>10
<1> HIDE DEF new
<1>12. r \o new \in Seq(Call) /\ Moves(calls, r \o new, {}, "same", new)
  BY <1>1, <1>7, <1>9, <1>11, MovesOn DEF n
<1>13. Moved({}, "same", new)
  BY <1>2, <1>6, <1>11, <1>12 DEF Moved
<1>14. \A k \in DOMAIN calls' : calls'[k].op = "load" => a \in calls'[k].raced
  <2>1. DOMAIN Append(r, c) = 1..(n + 1) /\ Append(r, c)[n + 1] = c
        /\ \A k \in 1..n : Append(r, c)[k] = r[k]
    BY <1>1, <1>9, <1>10
  <2>2. \A k \in 1..(n + 1) : k \in 1..n \/ k = n + 1
    BY <1>1
  <2> QED
    BY <1>2, <1>6, <1>7, <2>1, <2>2
<1> QED
  BY <1>6, <1>13, <1>14 DEF new, v, R

\* The feed and, on the map, its effect ask anew.
LEMMA FiltersChangedMoves ==
  ASSUME Typed, NEW passing \in Filters, FiltersChanged(passing)
  PROVE  \E new : /\ Moved({}, "same", new) /\ Waiting(new)
                  /\ \A m \in DOMAIN new : new[m].op = "page" \/ Mounted(new[m], token)
<1> DEFINE w == PageCall(token, TRUE, 0, passing, 0)
           rest == IF view = "map" THEN MountCalls("map", token, passing) ELSE <<>>
           new == <<w>> \o rest
<1>1. token \in Users /\ token \in Users \cup {NoUser} /\ cursor \in Nat /\ 0 \in Nat
  BY DEF Typed, TypeOK, FiltersChanged
<1>2. calls' = calls \o new /\ token' = token
  BY DEF FiltersChanged, auth
<1>3. IsPageCall(w, token, TRUE, 0, passing)
  BY <1>1, ResetIs
<1>4. rest \in Seq(Call) /\ \A m \in DOMAIN rest : Mounted(rest[m], token)
  <2>1. CASE view = "map"
    <3> DEFINE v == "map"
    <3> HIDE DEF v
    <3>1. MountCalls(v, token, passing) \in Seq(Call)
          /\ \A m \in DOMAIN MountCalls(v, token, passing) :
                Mounted(MountCalls(v, token, passing)[m], token)
      BY <1>1, MountCallsAre
    <3> QED
      BY <2>1, <3>1 DEF v
  <2>2. CASE view # "map"
    <3>1. rest = <<>>
      BY <2>2
    <3> HIDE DEF rest
    <3> QED
      BY <3>1
  <2> QED
    BY <2>1, <2>2
<1> HIDE DEF w, rest
<1>5. w \in Call /\ Fit(w, token) /\ w.op = "page" /\ w.on
  BY <1>3 DEF IsPageCall, Fit, Shape, Own, Sent
<1> DEFINE p == Len(rest)
<1>6. /\ p \in Nat /\ DOMAIN rest = 1..p /\ new \in Seq(Call) /\ DOMAIN new = 1..(p + 1)
      /\ new[1] = w /\ \A m \in 1..p : new[m + 1] = rest[m]
  <2> DEFINE one == <<w>>
  <2>1. one \in Seq(Call) /\ Len(one) = 1 /\ one[1] = w
    BY <1>5
  <2>2. p \in Nat /\ DOMAIN rest = 1..p
    BY <1>4
  <2> HIDE DEF one
  <2> DEFINE all == one \o rest
  <2>3. /\ all \in Seq(Call) /\ Len(all) = 1 + p
        /\ \A k \in 1..(1 + p) : all[k] = IF k <= 1 THEN one[k] ELSE rest[k - 1]
    BY <1>4, <2>1, ConcatProperties
  <2> HIDE DEF all, p
  <2>4. DOMAIN all = 1..(p + 1) /\ 1 + p = p + 1
    BY <2>2, <2>3
  <2>5. all[1] = w
    BY <2>1, <2>2, <2>3
  <2>6. ASSUME NEW m \in 1..p PROVE all[m + 1] = rest[m]
    <3>1. m + 1 \in 1..(1 + p) /\ ~(m + 1 <= 1) /\ (m + 1) - 1 = m
      BY <2>2
    <3> QED
      BY <2>3, <3>1
  <2> QED
    BY <2>2, <2>3, <2>4, <2>5, <2>6 DEF all, one
<1> HIDE DEF new, p
<1>7. ASSUME NEW m \in DOMAIN new
      PROVE  Fit(new[m], token) /\ (new[m].op = "page" \/ Mounted(new[m], token))
  <2>1. CASE m = 1
    BY <1>5, <1>6, <2>1
  <2>2. CASE m # 1
    <3>1. m - 1 \in 1..p /\ (m - 1) + 1 = m
      BY <1>6, <2>2
    <3>2. Mounted(new[m], token)
      BY <1>4, <1>6, <3>1
    <3> QED
      BY <3>2, MountedFits
  <2> QED
    BY <2>1, <2>2
<1>8. Waiting(new)
  <2>1. 1 \in DOMAIN new
    BY <1>6
  <2> QED
    BY <1>5, <1>6, <2>1 DEF Waiting
<1>9. calls \o new \in Seq(Call) /\ Moves(calls, calls \o new, {}, "same", new)
  BY <1>6, CallsSent DEF Typed, TypeOK
<1>10. Moved({}, "same", new)
  BY <1>2, <1>6, <1>7, <1>9 DEF Moved
<1> QED
  BY <1>7, <1>8, <1>10

\* A session begins: what a page asks for, for its user.
LEMMA SignInMoves ==
  ASSUME Typed, NEW u \in Users, NEW profile, NEW i \in DOMAIN calls, SignIn(u, profile, i)
  PROVE  \E new : /\ Moved({i}, "old", new)
                  /\ status' = IF Waiting(new) THEN "loading" ELSE status
                  /\ \A m \in DOMAIN new : Mounted(new[m], u)
<1> DEFINE new == MountCalls(view, u, filters)
           t == Stale(Unmounted(RemoveAt(calls, i))) \o new
<1>1. u \in Users \cup {NoUser} /\ filters \in Filters /\ cursor \in Nat /\ calls \in Seq(Call)
  BY DEF Typed, TypeOK
<1>2. calls' = t /\ token' = u /\ status' = IF Waiting(new) THEN "loading" ELSE status
  BY DEF SignIn
<1>3. new \in Seq(Call) /\ \A m \in DOMAIN new : Mounted(new[m], u)
  BY <1>1, MountCallsAre
<1> HIDE DEF new
<1>4. t \in Seq(Call) /\ Moves(calls, t, {i}, "old", new)
  BY <1>1, <1>3, CallsOutdated
<1>5. \A m \in DOMAIN new : Fit(new[m], u)
  BY <1>3, MountedFits
<1>6. Moved({i}, "old", new)
  BY <1>2, <1>3, <1>4, <1>5 DEF Moved
<1> QED
  BY <1>2, <1>3, <1>6

\* A session ends: nothing is cancelled.
LEMMA SignOutMoves ==
  ASSUME Typed, SignOut
  PROVE  Moved({}, "old", <<>>)
<1> DEFINE r == Stale(Unmounted(calls))
           new == <<>>
<1>1. calls \in Seq(Call) /\ calls' = r
  BY DEF Typed, TypeOK, SignOut
<1>2. r \in Seq(Call) /\ Len(r) = Len(calls)
      /\ \A k \in 1..Len(calls) : Heir(calls[k], r[k], "old")
  BY <1>1, StaleIs
<1> HIDE DEF r
<1>3. Moves(calls, r, {}, "old", <<>>)
  BY <1>1, <1>2, CallsInPlace
<1>4. new \in Seq(Call) /\ DOMAIN new = {}
  OBVIOUS
<1>5. Moves(calls, r, {}, "old", new)
  BY <1>3
<1> HIDE DEF new
<1>6. Moved({}, "old", new)
  BY <1>1, <1>2, <1>4, <1>5 DEF Moved
<1> QED
  BY <1>6 DEF new

\* Another page opens.
LEMMA OpenMoves ==
  ASSUME Typed, NEW v \in Views, Open(v)
  PROVE  \E new : /\ Moved({}, "same", new)
                  /\ status' = IF Waiting(new) THEN "loading" ELSE status
                  /\ \A m \in DOMAIN new : Mounted(new[m], token)
<1> DEFINE new == MountCalls(v, token, filters)
           r == Unmounted(calls)
<1>1. /\ token \in Users \cup {NoUser} /\ filters \in Filters /\ cursor \in Nat
      /\ calls \in Seq(Call)
  BY DEF Typed, TypeOK
<1>2. calls' = r \o new /\ token' = token /\ status' = IF Waiting(new) THEN "loading" ELSE status
  BY DEF Open, auth
<1>3. new \in Seq(Call) /\ \A m \in DOMAIN new : Mounted(new[m], token)
  BY <1>1, MountCallsAre
<1> HIDE DEF new
<1>4. r \in Seq(Call) /\ Len(r) = Len(calls)
      /\ \A k \in 1..Len(calls) : Heir(calls[k], r[k], "same")
  BY <1>1, UnmountedIs
<1> HIDE DEF r
<1>5. r \o new \in Seq(Call) /\ Moves(calls, r \o new, {}, "same", new)
  BY <1>1, <1>3, <1>4, MovesOn
<1>6. \A m \in DOMAIN new : Fit(new[m], token)
  BY <1>3, MountedFits
<1>7. Moved({}, "same", new)
  BY <1>2, <1>3, <1>5, <1>6 DEF Moved
<1> QED
  BY <1>2, <1>3, <1>7

\* What the browser keeps is nobody's or names a user.
StoredOK ==
  \/ stored.token = NoUser /\ stored = SignedOut
  \/ stored.token \in Users /\ stored.user \in Users

\* The app is loaded again: only the session call is under way.
LEMMA ReloadMoves ==
  ASSUME Typed, StoredOK, Reload
  PROVE  Moved(DOMAIN calls, "same", SessionCalls(stored))
<1> DEFINE new == SessionCalls(stored)
<1>1. {stored.token, stored.user} \subseteq Users \cup {NoUser} /\ calls \in Seq(Call)
      /\ (stored.token = NoUser \/ stored.user \in Users)
  BY DEF Typed, TypeOK, StoredOK
<1>2. /\ new \in Seq(Call)
      /\ \A m \in DOMAIN new : /\ m = 1 /\ Sent(new[m]) /\ new[m].op = "session"
                               /\ new[m].user = stored.token /\ new[m].what = stored.user
  BY <1>1, SessionCallsAre
<1>3. calls' = new
  BY DEF Reload
<1>4. stored.token # NoUser => stored.user \in Users
  BY DEF StoredOK
<1>5. stored.token = NoUser => new = <<>>
  BY DEF SessionCalls
<1> HIDE DEF new
<1>6. ASSUME NEW m \in DOMAIN new PROVE Fit(new[m], token')
  <2>1. stored.token # NoUser
    BY <1>5
  <2> QED
    BY <1>2, <1>4, <2>1 DEF Fit, Shape, Own, Sent
<1>7. Moves(calls, new, DOMAIN calls, "same", new)
  BY <1>1, <1>2, CallsDropped
<1>8. Moved(DOMAIN calls, "same", new)
  BY <1>2, <1>3, <1>6, <1>7 DEF Moved
<1> QED
  BY <1>8 DEF new

-------------------------------------------------------------------------------
(* Types, and the cursor *)

\* The variables that are not the calls.
Others ==
  /\ ranked \in [Users -> Rankings] /\ dismissed \in [Users -> SUBSET Events]
  /\ follows \in [Users -> SUBSET Artists] /\ version \in [Users -> Nat]
  /\ token \in Users \cup {NoUser} /\ user \in Users \cup {NoUser}
  /\ stored.token \in Users \cup {NoUser} /\ stored.user \in Users \cup {NoUser}
  /\ authStatus \in {"idle", "loading", "authenticated", "error"} /\ view \in Views
  /\ items \in Seq(Events) /\ cursor \in Nat /\ hasMore \in BOOLEAN
  /\ status \in {"idle", "loading", "error"} /\ filters \in Filters /\ fresh \subseteq Events
  /\ artistIds \subseteq Artists /\ pendingToggles \subseteq Artists
  /\ pushes \in Seq([what : Events, older : SUBSET Events])
  /\ lined \in Nat \cup {NotLined} /\ returned \subseteq Events
  /\ doubt \subseteq Artists /\ mixed \in BOOLEAN
  /\ clicks \in Nat /\ upsets \in Nat

\* TypeOK is the calls' type and the others'.
LEMMA TypedParts ==
  /\ TypeOK <=> Others /\ calls \in Seq(Call)
  /\ TypeOK' <=> Others' /\ calls' \in Seq(Call)
BY DEF TypeOK, Others

\* The gateway's answers.
LEMMA AnswerTyped ==
  ASSUME Typed, CallsOK, NEW i \in DOMAIN calls, Answer(i)
  PROVE  Moved({}, "answered", <<>>) /\ Typed'
<1>1. Moved({}, "answered", <<>>) /\ Others' /\ CursorOK'
  <2> USE DEF tables, auth, feed, buttons, history, bounds
  <2>1. Others /\ CursorOK /\ TypeOK
    BY TypedParts DEF Typed
  <2>2. CASE AnswerPage(i)
    <3>1. Moved({}, "answered", <<>>)
      BY <2>1, <2>2, AnswerPageMoves
    <3> QED
      BY <2>1, <2>2, <3>1 DEF AnswerPage, Others, CursorOK
  <2>3. CASE AnswerLoad(i)
    <3>1. Moved({}, "answered", <<>>)
      BY <2>1, <2>3, AnswerLoadMoves
    <3> QED
      BY <2>1, <2>3, <3>1 DEF AnswerLoad, Others, CursorOK
  <2>4. CASE AnswerDismiss(i)
    <3>1. Moved({}, "answered", <<>>)
      BY <2>1, <2>4, AnswerDismissMoves
    <3> DEFINE u == calls[i].user
               e == calls[i].what
    <3>2. u \in Users /\ e \in Events
      BY <2>1, <2>4, CallIs DEF AnswerDismiss, CallsOK, Shape
    <3>3. /\ dismissed' = [dismissed EXCEPT ![u] = @ \cup {e}]
          /\ version' = [version EXCEPT ![u] = @ + 1]
          /\ pushes' = [j \in DOMAIN pushes |-> [pushes[j] EXCEPT !.older = @ \cup {e}]]
          /\ UNCHANGED <<ranked, follows, auth, view, feed, buttons, history, bounds>>
      BY <2>4 DEF AnswerDismiss
    <3> HIDE DEF u, e
    <3>4. dismissed' \in [Users -> SUBSET Events] /\ version' \in [Users -> Nat]
      BY <2>1, <3>2, <3>3 DEF Others
    <3>5. pushes' \in Seq([what : Events, older : SUBSET Events])
      <4> DEFINE P == [what : Events, older : SUBSET Events]
                 n == Len(pushes)
                 q == pushes'
      <4>0. pushes \in Seq(P)
        BY <2>1 DEF Others
      <4>1. n \in Nat /\ DOMAIN pushes = 1..n /\ \A j \in 1..n : pushes[j] \in P
        <5> HIDE DEF P
        <5> QED
          BY <4>0
      <4>2. q = [j \in 1..n |-> [pushes[j] EXCEPT !.older = @ \cup {e}]]
        BY <3>3, <4>1
      <4> HIDE DEF q, n
      <4>3. ASSUME NEW j \in 1..n PROVE q[j] \in P
        BY <3>2, <4>1, <4>2
      <4>4. q \in [1..n -> P]
        BY <4>2, <4>3
      <4> HIDE DEF P
      <4>5. q \in Seq(P)
        BY <4>1, <4>4, FunctionIsSeq
      <4> QED
        BY <4>5 DEF P, q
    <3> QED
      BY <2>1, <3>1, <3>3, <3>4, <3>5 DEF Others, CursorOK
  <2>5. ASSUME NEW ranking \in Rankings, AnswerToggle(i, ranking)
        PROVE  Moved({}, "answered", <<>>) /\ Others' /\ CursorOK'
    <3>1. Moved({}, "answered", <<>>)
      BY <2>1, <2>5, AnswerToggleMoves
    <3> DEFINE u == calls[i].user
               a == calls[i].what
               F == IF calls[i].on THEN follows[u] \ {a} ELSE follows[u] \cup {a}
    <3>2. u \in Users /\ a \in Artists
      BY <2>1, <2>5, CallIs DEF AnswerToggle, CallsOK, Shape
    <3>3. F \subseteq Artists
      BY <2>1, <3>2 DEF Others
    <3>4. /\ follows' = [follows EXCEPT ![u] = F]
          /\ ranked' = [ranked EXCEPT ![u] = ranking]
          /\ version' = [version EXCEPT ![u] = @ + 1]
          /\ UNCHANGED <<dismissed, auth, view, pushes, feed, buttons, history, bounds>>
      BY <2>5 DEF AnswerToggle
    <3> HIDE DEF u, a, F
    <3>5. follows' \in [Users -> SUBSET Artists] /\ ranked' \in [Users -> Rankings]
          /\ version' \in [Users -> Nat]
      BY <2>1, <2>5, <3>2, <3>3, <3>4 DEF Others
    <3> QED
      BY <2>1, <3>1, <3>4, <3>5 DEF Others, CursorOK
  <2>6. ASSUME NEW how \in {"failed", "refused"}, Fail(i, how)
        PROVE  Moved({}, "answered", <<>>) /\ Others' /\ CursorOK'
    <3>1. Moved({}, "answered", <<>>)
      BY <2>1, <2>6, FailMoves
    <3> QED
      BY <2>1, <2>6, <3>1 DEF Fail, Others, CursorOK
  <2> QED
    BY <2>2, <2>3, <2>4, <2>5, <2>6 DEF Answer
<1> QED
  BY <1>1, TypedParts DEF Moved, Typed

\* The list changes and matches are pushed.
LEMMA ListTyped ==
  ASSUME Typed,
         \/ \E u \in Users, ranking \in Rankings : ListingChange(u, ranking)
         \/ \E e \in Events : PushMatch(e)
         \/ MatchReceived
  PROVE  Moved({}, "same", <<>>) /\ Typed'
<1> USE DEF tables, auth, feed, buttons, history, bounds
<1>1. Others /\ CursorOK /\ TypeOK
  BY TypedParts DEF Typed
<1>2. calls' = calls
  BY DEF ListingChange, PushMatch, MatchReceived
<1>3. Moved({}, "same", <<>>)
  BY <1>1, <1>2, UnchangedMoves
<1>4. ASSUME NEW u \in Users, NEW ranking \in Rankings, ListingChange(u, ranking)
      PROVE  Others' /\ CursorOK'
  <2>1. ranked' \in [Users -> Rankings] /\ version' \in [Users -> Nat]
    BY <1>1, <1>4 DEF Others, ListingChange
  <2> QED
    BY <1>1, <1>4, <2>1 DEF Others, ListingChange, CursorOK
<1>5. ASSUME NEW e \in Events, PushMatch(e)
      PROVE  Others' /\ CursorOK'
  <2> DEFINE p == [what |-> e, older |-> {}]
  <2>1. p \in [what : Events, older : SUBSET Events]
    OBVIOUS
  <2>2. pushes' = Append(pushes, p)
    BY <1>5 DEF PushMatch
  <2> HIDE DEF p
  <2>3. pushes' \in Seq([what : Events, older : SUBSET Events])
    BY <1>1, <2>1, <2>2 DEF Others
  <2> QED
    BY <1>1, <1>5, <2>3 DEF Others, PushMatch, CursorOK
<1>6. ASSUME MatchReceived
      PROVE  Others' /\ CursorOK'
  <2> DEFINE P == [what : Events, older : SUBSET Events]
             p == Head(pushes)
  <2>1. pushes \in Seq(P) /\ pushes # <<>>
    BY <1>1, <1>6 DEF Others, MatchReceived
  <2>2. p \in P /\ Tail(pushes) \in Seq(P)
    <3> HIDE DEF P
    <3> QED
      BY <2>1
  <2>3. p.what \in Events
    BY <2>2
  <2>4. /\ pushes' = Tail(pushes)
        /\ items' = items \/ items' = <<p.what>> \o items
        /\ fresh' = fresh \/ fresh' = fresh \cup {p.what}
        /\ \/ returned' = returned \cup {}
           \/ returned' = returned \cup ({p.what} \cap p.older)
        /\ UNCHANGED <<tables, auth, view, cursor, hasMore, status, filters, buttons, calls, lined,
                       doubt, mixed, bounds>>
    BY <1>6 DEF MatchReceived
  <2> HIDE DEF p
  <2>5. items' \in Seq(Events)
    <3> DEFINE e == p.what
               one == <<e>>
    <3>1. one \in Seq(Events)
      BY <2>3
    <3> HIDE DEF one
    <3>2. one \o items \in Seq(Events)
      BY <1>1, <3>1 DEF Others
    <3> QED
      BY <1>1, <2>4, <3>2 DEF Others, one
  <2>6. fresh' \subseteq Events /\ returned' \subseteq Events
    BY <1>1, <2>3, <2>4 DEF Others
  <2> QED
    BY <1>1, <2>2, <2>4, <2>5, <2>6 DEF Others, CursorOK
<1>7. Others' /\ CursorOK'
  BY <1>4, <1>5, <1>6
<1> QED
  BY <1>3, <1>7, TypedParts DEF Moved, Typed

\* The store after a call for new was dispatched.
LEMMA AskedTyped ==
  ASSUME NEW new, NEW otherwise \in {"idle", "loading", "error"}, Asked(new, otherwise)
  PROVE  status' \in {"idle", "loading", "error"}
BY DEF Asked

\* A page that is applied leaves the stores well typed.
LEMMA PageFulfilledTyped ==
  ASSUME Typed, CallsOK, NEW i \in DOMAIN calls, PageFulfilled(i)
  PROVE  Others' /\ CursorOK'
<1> USE DEF tables, auth, feed, buttons, history, bounds
<1> DEFINE c == calls[i]
           next == IF c.hasMore THEN c.cursor + PageSize ELSE 0
           all == items \o c.items
           older == Range(c.items) \cap (IF c.stale THEN Events ELSE c.older)
<1>1. Others /\ TypeOK
  BY TypedParts DEF Typed
<1>2. c.cursor \in Nat /\ c.hasMore \in BOOLEAN /\ c.items \in Seq(Events) /\ c.version \in Nat
      /\ c.older \subseteq Events
  BY <1>1, CallIs
<1>3. /\ cursor' = next /\ hasMore' = c.hasMore
      /\ items' = c.items \/ items' = all
      /\ fresh' = {} \/ fresh' = fresh
      /\ status' \in {"idle", "error"}
      /\ lined' \in {c.version, NotLined}
      /\ returned' = {} \cup older \/ returned' = returned \cup older
      /\ UNCHANGED <<tables, auth, view, pushes, filters, buttons, doubt, mixed, bounds>>
  BY DEF PageFulfilled
<1>4. next \in Nat /\ (c.hasMore => next > 0) /\ (~ c.hasMore => next = 0)
  BY <1>2, Constants
<1>5. all \in Seq(Events)
  BY <1>1, <1>2 DEF Others
<1>6. older \subseteq Events
  BY <1>2
<1> HIDE DEF c, next, all, older
<1>7. CursorOK'
  BY <1>3, <1>4 DEF CursorOK
<1>8. items' \in Seq(Events) /\ fresh' \subseteq Events /\ returned' \subseteq Events
      /\ lined' \in Nat \cup {NotLined}
  BY <1>1, <1>2, <1>3, <1>5, <1>6 DEF Others
<1> QED
  BY <1>1, <1>2, <1>3, <1>4, <1>7, <1>8 DEF Others

\* So does a dismissal.
LEMMA DismissFulfilledTyped ==
  ASSUME Typed, CallsOK, NEW i \in DOMAIN calls, DismissFulfilled(i)
  PROVE  Others' /\ CursorOK'
<1> USE DEF tables, auth, feed, buttons, history, bounds
<1>1. Others /\ TypeOK /\ CursorOK
  BY TypedParts DEF Typed
<1> DEFINE T == Events \ {calls[i].what}
<1>2. items' = Kept(items, T)
  BY DEF DismissFulfilled
<1> HIDE DEF T
<1>3. items' \in Seq(Events)
  BY <1>1, <1>2, KeptRange DEF Others
<1>4. lined' \in {lined, NotLined} /\ returned' \subseteq returned /\ fresh' \subseteq fresh
  BY DEF DismissFulfilled
<1> QED
  BY <1>1, <1>3, <1>4 DEF DismissFulfilled, Others, CursorOK

\* A new session.
LEMMA SignInTyped ==
  ASSUME Typed, NEW i \in DOMAIN calls, LoginFulfilled(i) \/ SessionLoaded(i), CallsOK
  PROVE  Others' /\ CursorOK'
<1> USE DEF tables, auth, feed, buttons, history, bounds
<1>1. Others /\ TypeOK /\ CursorOK
  BY TypedParts DEF Typed
<1> DEFINE c == calls[i]
<1>2. c.user \in Users /\ c.stale \in BOOLEAN
  BY <1>1, CallIs
<1>3. Account(c.user).token = c.user /\ Account(c.user).user = c.user
  BY DEF Account
<1>4. ASSUME NEW p, SignIn(c.user, p, i)
      PROVE  /\ token' = c.user /\ user' = p /\ authStatus' = "authenticated"
             /\ pushes' = <<>> /\ status' \in {"loading", status}
             /\ lined' = NotLined /\ doubt' = Artists /\ returned' = Range(items)
  BY <1>4 DEF SignIn
<1>5. \E p \in Users : SignIn(c.user, p, i)
  <2>1. c.op = "session" => c.what \in Users
    BY DEF CallsOK, Shape
  <2> QED
    BY <1>2, <2>1 DEF LoginFulfilled, SessionLoaded
<1>6. /\ stored' \in {stored, Account(c.user)} /\ mixed' \in BOOLEAN
      /\ UNCHANGED <<tables, view, items, cursor, hasMore, filters, fresh, buttons, bounds>>
  BY <1>1, <1>2 DEF LoginFulfilled, SessionLoaded, Others
<1>7. Range(items) \subseteq Events
  BY <1>1 DEF Others, Range
<1> DEFINE P == [what : Events, older : SUBSET Events]
<1>8. <<>> \in Seq(P)
  OBVIOUS
<1> HIDE DEF c
<1>9. /\ stored'.token \in Users \cup {NoUser} /\ stored'.user \in Users \cup {NoUser}
  BY <1>1, <1>2, <1>3, <1>6 DEF Others
<1>10. /\ token' \in Users /\ user' \in Users /\ authStatus' = "authenticated"
       /\ pushes' = <<>> /\ status' \in {"loading", status}
       /\ lined' = NotLined /\ doubt' = Artists /\ returned' = Range(items)
  BY <1>2, <1>4, <1>5
<1>11. CursorOK'
  BY <1>1, <1>6 DEF CursorOK
<1> QED
  BY <1>1, <1>6, <1>7, <1>8, <1>9, <1>10, <1>11 DEF Others

\* The other answers that arrive.
LEMMA SmallTyped ==
  ASSUME Typed, CallsOK, NEW i \in DOMAIN calls,
         \/ PageRejected(i) \/ DismissRejected(i) \/ LoadFulfilled(i) \/ LoadRejected(i)
         \/ ToggleRejected(i) \/ LoginRejected(i) \/ SessionRefused(i) \/ SaveFailed(i)
  PROVE  Moved({i}, "same", <<>>) /\ Others' /\ CursorOK'
<1> USE DEF tables, auth, feed, buttons, history, bounds
<1>1. Others /\ TypeOK /\ CursorOK
  BY TypedParts DEF Typed
<1>2. calls' = RemoveAt(calls, i)
  BY DEF PageRejected, DismissRejected, LoadFulfilled, LoadRejected, ToggleRejected, LoginRejected,
         SessionRefused, SaveFailed
<1>3. Moved({i}, "same", <<>>)
  BY <1>1, <1>2, EndMoves
<1> DEFINE c == calls[i]
<1>4. c.ids \subseteq Artists /\ c.raced \subseteq Artists /\ c.stale \in BOOLEAN
      /\ (c.op = "dismiss" => c.what \in Events) /\ (c.op = "toggle" => c.what \in Artists)
  BY <1>1, CallIs DEF CallsOK, Shape
<1>5. CASE PageRejected(i)
  BY <1>1, <1>3, <1>5 DEF PageRejected, Others, CursorOK
<1>6. CASE DismissRejected(i)
  BY <1>1, <1>3, <1>4, <1>6 DEF DismissRejected, Others, CursorOK
<1>7. CASE LoadFulfilled(i)
  BY <1>1, <1>3, <1>4, <1>7 DEF LoadFulfilled, Others, CursorOK
<1>8. CASE LoadRejected(i)
  BY <1>1, <1>3, <1>8 DEF LoadRejected, Others, CursorOK
<1>9. CASE ToggleRejected(i)
  BY <1>1, <1>3, <1>4, <1>9 DEF ToggleRejected, Others, CursorOK
<1>10. CASE LoginRejected(i)
  BY <1>1, <1>3, <1>10 DEF LoginRejected, Others, CursorOK
<1>11. CASE SessionRefused(i)
  BY <1>1, <1>3, <1>4, <1>11 DEF SessionRefused, Others, CursorOK, SignedOut
<1>12. CASE SaveFailed(i)
  BY <1>1, <1>3, <1>12 DEF SaveFailed, Others, CursorOK
<1> QED
  BY <1>5, <1>6, <1>7, <1>8, <1>9, <1>10, <1>11, <1>12

\* Every answer that arrives keeps the types.
LEMMA ArriveTyped ==
  ASSUME Typed, CallsOK, NEW i \in DOMAIN calls, Arrive(i)
  PROVE  Typed'
<1> USE DEF tables, auth, feed, buttons, history, bounds
<1>1. Others /\ TypeOK /\ CursorOK
  BY TypedParts DEF Typed
<1>2. CASE PageFulfilled(i)
  <2>1. calls' \in Seq(Call)
    BY <1>2, PageFulfilledMoves DEF Moved
  <2> QED
    BY <1>2, <2>1, PageFulfilledTyped, TypedParts DEF Typed
<1>3. CASE DismissFulfilled(i)
  <2>1. calls' = RemoveAt(calls, i)
    BY <1>3 DEF DismissFulfilled
  <2>2. calls' \in Seq(Call)
    BY <1>1, <2>1, EndMoves DEF Moved
  <2> QED
    BY <1>3, <2>2, DismissFulfilledTyped, TypedParts DEF Typed
<1>4. CASE ToggleFulfilled(i)
  <2>1. PICK new : Moved({i}, "same", new) /\ Asked(new, status)
    BY <1>4, ToggleFulfilledMoves
  <2>2. status' \in {"idle", "loading", "error"}
    BY <1>1, <2>1, AskedTyped DEF Others
  <2>3. pendingToggles' \subseteq Artists
    BY <1>1, <1>4 DEF ToggleFulfilled, Others
  <2>4. Others' /\ CursorOK'
    BY <1>1, <1>4, <2>2, <2>3 DEF ToggleFulfilled, Others, CursorOK
  <2> QED
    BY <2>1, <2>4, TypedParts DEF Typed, Moved
<1>5. CASE LoginFulfilled(i) \/ SessionLoaded(i)
  <2>1. \E p : SignIn(calls[i].user, p, i)
    BY <1>5 DEF LoginFulfilled, SessionLoaded
  <2>2. calls[i].user \in Users
    BY <1>1, CallIs
  <2>3. calls' \in Seq(Call)
    BY <2>1, <2>2, SignInMoves DEF Moved
  <2> QED
    BY <1>5, <2>3, SignInTyped, TypedParts DEF Typed
<1>6. CASE UserUpdated(i)
  <2>1. calls' \in Seq(Call)
    BY <1>6, UserUpdatedMoves DEF Moved
  <2>2. calls[i].user \in Users /\ calls[i].stale \in BOOLEAN
    BY <1>1, CallIs
  <2>3. user' \in Users /\ mixed' \in BOOLEAN /\ stored'.token \in Users \cup {NoUser}
        /\ stored'.user \in Users \cup {NoUser}
    BY <1>1, <1>6, <2>2 DEF UserUpdated, Others
  <2>4. Others' /\ CursorOK'
    BY <1>1, <1>6, <2>3 DEF UserUpdated, Others, CursorOK
  <2> QED
    BY <2>1, <2>4, TypedParts DEF Typed
<1>7. CASE \/ PageRejected(i) \/ DismissRejected(i) \/ LoadFulfilled(i) \/ LoadRejected(i)
           \/ ToggleRejected(i) \/ LoginRejected(i) \/ SessionRefused(i) \/ SaveFailed(i)
  BY <1>7, SmallTyped, TypedParts DEF Typed, Moved
<1> QED
  BY <1>2, <1>3, <1>4, <1>5, <1>6, <1>7 DEF Arrive

\* What the user does keeps the types.
LEMMA ClickTyped ==
  ASSUME Typed, StoredOK, Clicks
  PROVE  Typed'
<1> USE DEF tables, auth, feed, buttons, history, bounds
<1>1. Others /\ TypeOK /\ CursorOK
  BY TypedParts DEF Typed
<1>2. CASE LoadMore
  <2>1. calls' \in Seq(Call)
    BY <1>2, LoadMoreMoves DEF Moved
  <2>2. Others' /\ CursorOK'
    BY <1>1, <1>2 DEF LoadMore, Click, Others, CursorOK
  <2> QED
    BY <2>1, <2>2, TypedParts DEF Typed
<1> DEFINE P == [what : Events, older : SUBSET Events]
<1>3. <<>> \in Seq(P) /\ <<>> \in Seq(Events)
  OBVIOUS
<1>4. CASE SignOut
  <2>1. calls' \in Seq(Call)
    BY <1>4, SignOutMoves DEF Moved
  <2>2. /\ token' = NoUser /\ user' = NoUser /\ authStatus' = "idle" /\ stored' = SignedOut
        /\ items' = <<>> /\ cursor' = 0 /\ hasMore' = FALSE /\ status' = "idle"
        /\ filters' = NoFilter /\ fresh' = {} /\ artistIds' = {} /\ pendingToggles' = {}
        /\ pushes' = <<>> /\ lined' = NotLined /\ returned' = {} /\ doubt' = Artists
        /\ mixed' = FALSE /\ clicks' \in Nat /\ UNCHANGED <<tables, view, upsets>>
    BY <1>1, <1>4 DEF SignOut, Click, Others
  <2>3. filters' \in Filters /\ stored'.token = NoUser /\ stored'.user = NoUser
    BY <2>2, Constants DEF SignedOut
  <2>4. Others' /\ CursorOK'
    BY <1>1, <1>3, <2>2, <2>3 DEF Others, CursorOK
  <2> QED
    BY <2>1, <2>4, TypedParts DEF Typed
<1>5. CASE SaveSettings
  <2>1. calls' \in Seq(Call)
    BY <1>5, SaveSettingsMoves DEF Moved
  <2>2. Others' /\ CursorOK'
    BY <1>1, <1>5 DEF SaveSettings, Click, Others, CursorOK
  <2> QED
    BY <2>1, <2>2, TypedParts DEF Typed
<1>6. CASE Reload
  <2>1. calls' \in Seq(Call)
    BY <1>6, ReloadMoves DEF Moved
  <2>2. /\ token' = NoUser /\ user' = NoUser /\ authStatus' = "idle"
        /\ items' = <<>> /\ cursor' = 0 /\ hasMore' = FALSE /\ status' = "idle"
        /\ filters' = NoFilter /\ fresh' = {} /\ artistIds' = {} /\ pendingToggles' = {}
        /\ pushes' = <<>> /\ lined' = NotLined /\ returned' = {} /\ doubt' = Artists
        /\ clicks' \in Nat /\ UNCHANGED <<tables, stored, view, mixed, upsets>>
    BY <1>1, <1>6 DEF Reload, Click, Others
  <2>3. filters' \in Filters
    BY <2>2, Constants
  <2>4. Others' /\ CursorOK'
    BY <1>1, <1>3, <2>2, <2>3 DEF Others, CursorOK
  <2> QED
    BY <2>1, <2>4, TypedParts DEF Typed
<1>7. ASSUME NEW passing \in Filters, FiltersChanged(passing) PROVE Typed'
  <2>1. calls' \in Seq(Call)
    BY <1>7, FiltersChangedMoves DEF Moved
  <2>2. /\ filters' = passing /\ items' = <<>> /\ cursor' = 0 /\ hasMore' = FALSE /\ fresh' = {}
        /\ status' = "loading" /\ lined' = NotLined /\ returned' = {} /\ clicks' \in Nat
        /\ UNCHANGED <<tables, auth, view, pushes, buttons, doubt, mixed, upsets>>
    BY <1>1, <1>7 DEF FiltersChanged, Click, Others
  <2>3. Others' /\ CursorOK'
    BY <1>1, <1>3, <1>7, <2>2 DEF Others, CursorOK
  <2> QED
    BY <2>1, <2>3, TypedParts DEF Typed
<1>8. ASSUME NEW e \in Events, DismissEvent(e) PROVE Typed'
  <2>1. calls' \in Seq(Call)
    BY <1>8, DismissEventMoves DEF Moved
  <2>2. Others' /\ CursorOK'
    BY <1>1, <1>8 DEF DismissEvent, Click, Others, CursorOK
  <2> QED
    BY <2>1, <2>2, TypedParts DEF Typed
<1>9. ASSUME NEW a \in Artists, ToggleFollow(a) PROVE Typed'
  <2>1. calls' \in Seq(Call)
    BY <1>9, ToggleFollowMoves DEF Moved
  <2>2. /\ artistIds' \subseteq Artists /\ pendingToggles' \subseteq Artists
        /\ doubt' \subseteq Artists
    BY <1>1, <1>9 DEF ToggleFollow, Others, Flipped
  <2>3. clicks' \in Nat
        /\ UNCHANGED <<tables, auth, view, pushes, feed, lined, returned, mixed, upsets>>
    BY <1>1, <1>9 DEF ToggleFollow, Click, Others
  <2>4. Others' /\ CursorOK'
    BY <1>1, <2>2, <2>3 DEF Others, CursorOK
  <2> QED
    BY <2>1, <2>4, TypedParts DEF Typed
<1>10. ASSUME NEW u \in Users, Login(u) PROVE Typed'
  <2>1. calls' \in Seq(Call)
    BY <1>10, LoginMoves DEF Moved
  <2>2. Others' /\ CursorOK'
    BY <1>1, <1>10 DEF Login, Click, Others, CursorOK
  <2> QED
    BY <2>1, <2>2, TypedParts DEF Typed
<1>11. ASSUME NEW u \in Users, AdoptToken(u) PROVE Typed'
  <2>1. calls' \in Seq(Call)
    BY <1>11, AdoptTokenMoves DEF Moved
  <2>2. Others' /\ CursorOK'
    BY <1>1, <1>11 DEF AdoptToken, Click, Others, CursorOK
  <2> QED
    BY <2>1, <2>2, TypedParts DEF Typed
<1>12. ASSUME NEW v \in Views, Open(v) PROVE Typed'
  <2>1. calls' \in Seq(Call)
    BY <1>12, OpenMoves DEF Moved
  <2>2. status' \in {"loading", status} /\ pushes' = <<>> /\ view' = v /\ clicks' \in Nat
        /\ UNCHANGED <<tables, auth, items, cursor, hasMore, filters, fresh, buttons, history,
                       upsets>>
    BY <1>1, <1>12 DEF Open, Click, Others
  <2>3. Others' /\ CursorOK'
    BY <1>1, <1>3, <2>2 DEF Others, CursorOK
  <2> QED
    BY <2>1, <2>3, TypedParts DEF Typed
<1> QED
  BY <1>2, <1>4, <1>5, <1>6, <1>7, <1>8, <1>9, <1>10, <1>11, <1>12 DEF Clicks

\* The types hold at first.
LEMMA InitTyped ==
  ASSUME Init
  PROVE  Typed /\ StoredOK
<1>1. stored = SignedOut \/ \E u \in Users : stored = Account(u)
  BY DEF Init
<1>2. StoredOK
  BY <1>1, Constants DEF StoredOK, SignedOut, Account
<1>3. stored.token \in Users \cup {NoUser} /\ stored.user \in Users \cup {NoUser}
  BY <1>1 DEF SignedOut, Account
<1>4. calls \in Seq(Call)
  <2>1. {stored.token, stored.user} \subseteq Users \cup {NoUser}
        /\ (stored.token = NoUser \/ stored.user \in Users)
    BY <1>2, <1>3 DEF StoredOK
  <2> QED
    BY <2>1, SessionCallsAre DEF Init
<1> DEFINE P == [what : Events, older : SUBSET Events]
<1>5. <<>> \in Seq(P) /\ <<>> \in Seq(Events)
  OBVIOUS
<1>6. ranked \in [Users -> Rankings] /\ dismissed \in [Users -> SUBSET Events]
      /\ follows \in [Users -> SUBSET Artists] /\ version \in [Users -> Nat]
  BY DEF Init
<1>7. Others /\ CursorOK
  BY <1>3, <1>5, <1>6, Constants DEF Init, Others, CursorOK, Views
<1> QED
  BY <1>2, <1>4, <1>7, TypedParts DEF Typed

-------------------------------------------------------------------------------
(* Calls are what they say *)

\* The calls stay what they say they are, when those of an old session are outdated.
LEMMA CallsFrame ==
  ASSUME CallsOK, NEW gone, NEW age, NEW new, Moved(gone, age, new),
         age = "old" \/ token' = token \/ gone = DOMAIN calls,
         age = "answered" => \A k \in DOMAIN calls' : Done(calls'[k])
  PROVE  CallsOK'
<1> SUFFICES ASSUME NEW k \in DOMAIN calls'
             PROVE  Shape(calls'[k]) /\ Own(calls'[k], token') /\ Done(calls'[k])
  BY DEF CallsOK
<1> DEFINE d == calls'[k]
<1>1. CASE \E j \in DOMAIN calls : j \notin gone /\ Heir(calls[j], d, age)
  <2>1. PICK j \in DOMAIN calls : j \notin gone /\ Heir(calls[j], d, age)
    BY <1>1
  <2> DEFINE c == calls[j]
  <2>2. Shape(c) /\ Own(c, token) /\ Done(c) /\ Heir(c, d, age)
        /\ (age = "answered" => Done(d)) /\ (age = "old" \/ token' = token)
    BY <2>1 DEF CallsOK
  <2> HIDE DEF c, d
  <2>3. Shape(d)
    BY <2>2 DEF Shape, Heir
  <2>4. Own(d, token')
    BY <2>2 DEF Own, Heir
  <2>5. Done(d)
    BY <2>2 DEF Done, Heir
  <2> QED
    BY <2>3, <2>4, <2>5 DEF d
<1>2. CASE \E m \in DOMAIN new : d = new[m]
  BY <1>2 DEF Moved, Fit, Sent, Done
<1> QED
  BY <1>1, <1>2, CameFrom DEF Moved

\* What is answered was done.
LEMMA AnswerDone ==
  ASSUME Typed, CallsOK, NEW i \in DOMAIN calls, Answer(i), NEW k \in DOMAIN calls'
  PROVE  Done(calls'[k])
<1>1. calls \in Seq(Call) /\ DOMAIN calls = 1..Len(calls) /\ Done(calls[i]) /\ calls[i] \in Call
  BY CallIs DEF CallsOK, Typed
<1>2. /\ \A j \in DOMAIN calls : Done(calls[j])
  BY DEF CallsOK
<1>3. CASE AnswerPage(i)
  <2>1. /\ calls[i].op = "page" /\ DOMAIN calls' = DOMAIN calls
        /\ \A j \in DOMAIN calls : j # i => calls'[j] = calls[j]
        /\ calls'[i].op = calls[i].op
    BY <1>1, <1>3 DEF AnswerPage, Call
  <2> QED
    BY <1>2, <2>1 DEF Done
<1>4. CASE AnswerLoad(i)
  <2>1. /\ calls[i].op = "load" /\ DOMAIN calls' = DOMAIN calls
        /\ \A j \in DOMAIN calls : j # i => calls'[j] = calls[j]
        /\ calls'[i].op = calls[i].op
    BY <1>1, <1>4 DEF AnswerLoad, Call
  <2> QED
    BY <1>2, <2>1 DEF Done
<1>5. CASE AnswerDismiss(i)
  <2> DEFINE e == calls[i].what
  <2>1. /\ DOMAIN calls' = DOMAIN calls
        /\ calls'[i] = [calls[i] EXCEPT !.at = "done", !.did = TRUE]
        /\ \A j \in DOMAIN calls :
             j # i => \/ calls'[j] = calls[j]
                      \/ calls[j].op = "page" /\ calls'[j] = [calls[j] EXCEPT !.older = @ \cup {e}]
    BY <1>1, <1>5 DEF AnswerDismiss
  <2> HIDE DEF e
  <2>2. calls'[i].did
    BY <1>1, <2>1 DEF Call
  <2>3. ASSUME NEW j \in DOMAIN calls, j # i PROVE Done(calls'[j])
    <3>1. calls[j] \in Call
      BY <1>1
    <3>2. calls'[j] = calls[j] \/ calls'[j].op = "page"
      BY <2>1, <2>3, <3>1 DEF Call
    <3> QED
      BY <1>2, <3>2 DEF Done
  <2> QED
    BY <2>1, <2>2, <2>3 DEF Done
<1>6. ASSUME NEW ranking \in Rankings, AnswerToggle(i, ranking)
      PROVE  Done(calls'[k])
  <2>1. /\ DOMAIN calls' = DOMAIN calls
        /\ \A j \in DOMAIN calls : j # i => calls'[j] = calls[j]
        /\ calls'[i].did
    BY <1>1, <1>6 DEF AnswerToggle, Call
  <2> QED
    BY <1>2, <2>1 DEF Done
<1>7. ASSUME NEW how \in {"failed", "refused"}, Fail(i, how)
      PROVE  Done(calls'[k])
  <2>1. /\ DOMAIN calls' = DOMAIN calls
        /\ \A j \in DOMAIN calls : j # i => calls'[j] = calls[j]
        /\ calls'[i].at = how
    BY <1>1, <1>7 DEF Fail, Call
  <2> QED
    BY <1>2, <2>1 DEF Done
<1> QED
  BY <1>3, <1>4, <1>5, <1>6, <1>7 DEF Answer

\* What has been kept of the session.
Basis == Typed /\ StoredOK /\ CallsOK

\* Answers keep the calls and what the browser keeps.
LEMMA BasisAnswer ==
  ASSUME Basis, NEW i \in DOMAIN calls, Answer(i)
  PROVE  /\ Basis' /\ Moved({}, "answered", <<>>)
         /\ UNCHANGED <<auth, view, feed, buttons, history, clicks>>
<1>1. UNCHANGED <<auth, view, feed, buttons, history, clicks>>
  BY DEF Answer, AnswerPage, AnswerLoad, AnswerDismiss, AnswerToggle, Fail, bounds
<1>2. Typed' /\ Moved({}, "answered", <<>>)
  BY AnswerTyped DEF Basis
<1>3. CallsOK'
  <2>1. \A k \in DOMAIN calls' : Done(calls'[k])
    BY AnswerDone DEF Basis
  <2>2. token' = token
    BY <1>1 DEF auth
  <2> DEFINE gone == {}
             age == "answered"
             new == <<>>
  <2>3. Moved(gone, age, new) /\ (age = "answered" => \A k \in DOMAIN calls' : Done(calls'[k]))
    BY <1>2, <2>1
  <2> HIDE DEF gone, age, new
  <2> QED
    BY <2>2, <2>3, CallsFrame DEF Basis
<1> QED
  BY <1>1, <1>2, <1>3 DEF Basis, StoredOK, auth

\* Steps that neither answer a call nor change the session.
LEMMA BasisSame ==
  ASSUME Basis, Typed', NEW gone, NEW new, Moved(gone, "same", new), token' = token
  PROVE  CallsOK'
<1> DEFINE age == "same"
<1>1. Moved(gone, age, new) /\ age # "answered"
  OBVIOUS
<1> HIDE DEF age
<1> QED
  BY <1>1, CallsFrame DEF Basis

\* Steps that change the session.
LEMMA BasisOld ==
  ASSUME Basis, NEW gone, NEW new, Moved(gone, "old", new)
  PROVE  CallsOK'
<1> DEFINE age == "old"
<1>1. Moved(gone, age, new) /\ age # "answered" /\ age = "old"
  OBVIOUS
<1> HIDE DEF age
<1> QED
  BY <1>1, CallsFrame DEF Basis

\* Changes of the list and pushed matches keep the basis.
LEMMA BasisList ==
  ASSUME Basis,
         \/ \E u \in Users, ranking \in Rankings : ListingChange(u, ranking)
         \/ \E e \in Events : PushMatch(e)
         \/ MatchReceived
  PROVE  Basis' /\ Moved({}, "same", <<>>)
<1>1. Typed' /\ Moved({}, "same", <<>>)
  BY ListTyped DEF Basis
<1>2. UNCHANGED auth
  BY DEF ListingChange, PushMatch, MatchReceived
<1>3. CallsOK'
  BY <1>1, <1>2, BasisSame DEF auth
<1> QED
  BY <1>1, <1>2, <1>3 DEF Basis, StoredOK, auth

\* What the browser keeps after an answer.
LEMMA StoredArrive ==
  ASSUME Basis, NEW i \in DOMAIN calls, Arrive(i)
  PROVE  StoredOK'
<1>1. calls[i].user \in Users /\ token \in Users \cup {NoUser}
  BY CallIs DEF Basis, Typed, TypeOK
<1>2. \/ stored' = stored
      \/ stored' = Account(calls[i].user)
      \/ stored' = SignedOut
      \/ token # NoUser /\ stored' = [token |-> token, user |-> calls[i].user]
  BY DEF Arrive, auth, PageFulfilled, PageRejected, DismissFulfilled, DismissRejected,
         LoadFulfilled, LoadRejected, ToggleFulfilled, ToggleRejected, LoginFulfilled,
         LoginRejected, SessionLoaded, SessionRefused, UserUpdated, SaveFailed
<1> QED
  BY <1>1, <1>2 DEF Basis, StoredOK, Account, SignedOut

\* Answers that are applied keep the basis.
LEMMA BasisArrive ==
  ASSUME Basis, NEW i \in DOMAIN calls, Arrive(i)
  PROVE  Basis'
<1>1. Typed' /\ StoredOK'
  BY ArriveTyped, StoredArrive DEF Basis
<1>2. CASE LoginFulfilled(i) \/ SessionLoaded(i)
  <2>1. PICK p : SignIn(calls[i].user, p, i)
    BY <1>2 DEF LoginFulfilled, SessionLoaded
  <2>2. calls[i].user \in Users
    BY CallIs DEF Basis, Typed
  <2>3. \E new : Moved({i}, "old", new)
    BY <2>1, <2>2, SignInMoves DEF Basis
  <2> QED
    BY <1>1, <2>3, BasisOld DEF Basis
<1>3. CASE ~(LoginFulfilled(i) \/ SessionLoaded(i))
  <2>1. \E new : Moved({i}, "same", new)
    <3>1. CASE PageFulfilled(i)
      BY <3>1, PageFulfilledMoves DEF Basis
    <3>2. CASE ToggleFulfilled(i)
      BY <3>2, ToggleFulfilledMoves DEF Basis
    <3>3. CASE UserUpdated(i)
      BY <3>3, UserUpdatedMoves DEF Basis
    <3>4. CASE DismissFulfilled(i)
      <4>1. calls' = RemoveAt(calls, i)
        BY <3>4 DEF DismissFulfilled
      <4> QED
        BY <4>1, EndMoves DEF Basis, Typed
    <3>5. CASE \/ PageRejected(i) \/ DismissRejected(i) \/ LoadFulfilled(i) \/ LoadRejected(i)
               \/ ToggleRejected(i) \/ LoginRejected(i) \/ SessionRefused(i) \/ SaveFailed(i)
      BY <3>5, SmallTyped DEF Basis
    <3> QED
      BY <1>3, <3>1, <3>2, <3>3, <3>4, <3>5 DEF Arrive
  <2>2. token' = token
    BY <1>3 DEF Arrive, auth, PageFulfilled, PageRejected, DismissFulfilled, DismissRejected,
         LoadFulfilled, LoadRejected, ToggleFulfilled, ToggleRejected,
         LoginRejected, SessionRefused, UserUpdated, SaveFailed
  <2> QED
    BY <1>1, <2>1, <2>2, BasisSame DEF Basis
<1> QED
  BY <1>2, <1>3

\* Clicks keep the basis.
LEMMA BasisClick ==
  ASSUME Basis, Clicks
  PROVE  Basis'
<1>1. Typed'
  BY ClickTyped DEF Basis
<1>2. StoredOK'
  <2>1. stored' = stored \/ stored' = SignedOut
    BY DEF Clicks, auth, LoadMore, SignOut, SaveSettings, Reload, FiltersChanged, DismissEvent,
           ToggleFollow, Login, AdoptToken, Open
  <2> QED
    BY <2>1 DEF Basis, StoredOK, SignedOut
<1>3. CASE SignOut
  <2>1. \E new : Moved({}, "old", new)
    BY <1>3, SignOutMoves DEF Basis
  <2> QED
    BY <1>1, <1>2, <2>1, BasisOld DEF Basis
<1>4. CASE Reload
  <2> DEFINE age == "same"
             gone == DOMAIN calls
  <2>1. Moved(gone, age, SessionCalls(stored))
    BY <1>4, ReloadMoves DEF Basis
  <2>2. age # "answered" /\ gone = DOMAIN calls
    OBVIOUS
  <2> HIDE DEF age, gone
  <2> QED
    BY <1>1, <1>2, <2>1, <2>2, CallsFrame DEF Basis
<1>5. CASE ~ SignOut /\ ~ Reload
  <2>1. \E new : Moved({}, "same", new)
    <3>1. ASSUME NEW c, Moved({}, "same", <<c>>) PROVE \E new : Moved({}, "same", new)
      BY <3>1
    <3>2. CASE LoadMore
      BY <3>1, <3>2, LoadMoreMoves DEF Basis
    <3>3. CASE SaveSettings
      BY <3>1, <3>3, SaveSettingsMoves DEF Basis
    <3>4. ASSUME NEW passing \in Filters, FiltersChanged(passing)
          PROVE  \E new : Moved({}, "same", new)
      BY <3>4, FiltersChangedMoves DEF Basis
    <3>5. ASSUME NEW e \in Events, DismissEvent(e) PROVE \E new : Moved({}, "same", new)
      BY <3>1, <3>5, DismissEventMoves DEF Basis
    <3>6. ASSUME NEW a \in Artists, ToggleFollow(a) PROVE \E new : Moved({}, "same", new)
      BY <3>1, <3>6, ToggleFollowMoves DEF Basis
    <3>7. ASSUME NEW u \in Users, Login(u) PROVE \E new : Moved({}, "same", new)
      BY <3>1, <3>7, LoginMoves DEF Basis
    <3>8. ASSUME NEW u \in Users, AdoptToken(u) PROVE \E new : Moved({}, "same", new)
      BY <3>1, <3>8, AdoptTokenMoves DEF Basis
    <3>9. ASSUME NEW v \in Views, Open(v) PROVE \E new : Moved({}, "same", new)
      BY <3>9, OpenMoves DEF Basis
    <3> QED
      BY <1>5, <3>2, <3>3, <3>4, <3>5, <3>6, <3>7, <3>8, <3>9 DEF Clicks
  <2>2. token' = token
    BY <1>5 DEF Clicks, auth, LoadMore, SaveSettings, FiltersChanged, DismissEvent,
                ToggleFollow, Login, AdoptToken, Open
  <2> QED
    BY <1>1, <1>2, <2>1, <2>2, BasisSame DEF Basis
<1> QED
  BY <1>3, <1>4, <1>5

\* Every step keeps the basis.
LEMMA BasisStep ==
  ASSUME Basis, Next
  PROVE  Basis'
BY BasisAnswer, BasisArrive, BasisClick, BasisList DEF Next

\* A step that changes nothing keeps it too.
LEMMA BasisStutter ==
  ASSUME Basis, UNCHANGED vars
  PROVE  Basis'
BY DEF vars, tables, auth, feed, buttons, history, bounds, Basis, Typed, TypeOK, CursorOK, StoredOK,
       CallsOK

\* The basis holds at first.
LEMMA BasisInit ==
  ASSUME Init
  PROVE  Basis
<1>1. Typed /\ StoredOK
  BY InitTyped
<1>2. {stored.token, stored.user} \subseteq Users \cup {NoUser}
      /\ (stored.token = NoUser \/ stored.user \in Users)
  BY <1>1 DEF Typed, TypeOK, StoredOK
<1>3. calls = SessionCalls(stored)
  BY DEF Init
<1>4. \A m \in DOMAIN calls : /\ Sent(calls[m]) /\ calls[m].op = "session"
                              /\ calls[m].what = stored.user
                              /\ stored.token # NoUser
  <2>1. \A m \in DOMAIN SessionCalls(stored) :
           /\ Sent(SessionCalls(stored)[m]) /\ SessionCalls(stored)[m].op = "session"
           /\ SessionCalls(stored)[m].what = stored.user
    BY <1>2, SessionCallsAre
  <2>2. stored.token = NoUser => SessionCalls(stored) = <<>>
    BY DEF SessionCalls
  <2> QED
    BY <1>3, <2>1, <2>2
<1>5. CallsOK
  BY <1>1, <1>4 DEF CallsOK, Shape, Own, Done, StoredOK
<1> QED
  BY <1>1, <1>5 DEF Basis

-------------------------------------------------------------------------------
(* Waiting *)

\* A first page, a toggle of an artist, the sign-in form's request.
First(c) == c.op = "page" /\ c.on
OfArtist(c, a) == c.op = "toggle" /\ c.what = a
FromForm(c) == c.op = "login" /\ ~ c.on

WaitInv ==
  /\ status = "loading" => \E i \in DOMAIN calls : First(calls[i])
  /\ \A a \in pendingToggles : \E i \in DOMAIN calls : OfArtist(calls[i], a)
  /\ authStatus = "loading" => \E i \in DOMAIN calls : FromForm(calls[i])

\* Who waits goes on waiting for a call that stays, or for a new one.
LEMMA WaitFrame ==
  ASSUME Basis, WaitInv, NEW gone, NEW age, NEW new, Moved(gone, age, new),
         status' = "loading" =>
           \/ \E m \in DOMAIN new : First(new[m])
           \/ status = "loading" /\ \A i \in DOMAIN calls : i \in gone => ~ First(calls[i]),
         \A a \in pendingToggles' :
           \/ \E m \in DOMAIN new : OfArtist(new[m], a)
           \/ a \in pendingToggles /\ \A i \in DOMAIN calls : i \in gone => ~ OfArtist(calls[i], a),
         authStatus' = "loading" =>
           \/ \E m \in DOMAIN new : FromForm(new[m])
           \/ authStatus = "loading" /\ \A i \in DOMAIN calls : i \in gone => ~ FromForm(calls[i])
  PROVE  WaitInv'
<1>1. Len(calls) \in Nat /\ DOMAIN calls = 1..Len(calls) /\ new \in Seq(Call)
      /\ Moves(calls, calls', gone, age, new)
  BY DEF Basis, Typed, TypeOK, Moved
<1>2. ASSUME NEW i \in DOMAIN calls, i \notin gone
      PROVE  \E k \in DOMAIN calls' : Heir(calls[i], calls'[k], age)
  BY <1>1, <1>2, LivesOn
<1>3. ASSUME NEW m \in DOMAIN new
      PROVE  \E k \in DOMAIN calls' : calls'[k] = new[m]
  BY <1>1, Arrived
<1>4. status' = "loading" => \E k \in DOMAIN calls' : First(calls'[k])
  BY <1>2, <1>3 DEF WaitInv, First, Heir
<1>5. ASSUME NEW a \in pendingToggles'
      PROVE  \E k \in DOMAIN calls' : OfArtist(calls'[k], a)
  BY <1>2, <1>3 DEF WaitInv, OfArtist, Heir
<1>6. authStatus' = "loading" => \E k \in DOMAIN calls' : FromForm(calls'[k])
  BY <1>2, <1>3 DEF WaitInv, FromForm, Heir
<1> QED
  BY <1>4, <1>5, <1>6 DEF WaitInv

\* Steps that change nothing one waits for but the calls.
LEMMA WaitSame ==
  ASSUME Basis, WaitInv, NEW age, NEW new, Moved({}, age, new),
         UNCHANGED <<status, pendingToggles, authStatus>>
  PROVE  WaitInv'
<1> DEFINE gone == {}
<1>1. Moved(gone, age, new) /\ \A i \in DOMAIN calls : i \notin gone
  OBVIOUS
<1> HIDE DEF gone
<1> QED
  BY <1>1, WaitFrame

\* Calls that end without anybody having waited for them.
LEMMA WaitEnds ==
  ASSUME Basis, WaitInv, NEW i \in DOMAIN calls, NEW age, NEW new, Moved({i}, age, new),
         \/ status' \in {"idle", "error"}
         \/ \E m \in DOMAIN new : First(new[m])
         \/ status' = status /\ calls[i].op # "page",
         \A a \in pendingToggles' : a \in pendingToggles /\ ~ OfArtist(calls[i], a),
         \/ authStatus' \in {"idle", "authenticated", "error"}
         \/ authStatus' = authStatus /\ ~ FromForm(calls[i])
  PROVE  WaitInv'
<1> DEFINE gone == {i}
<1>1. Moved(gone, age, new) /\ \A j \in DOMAIN calls : j \in gone => j = i
  OBVIOUS
<1> HIDE DEF gone
<1>2. status' = "loading" =>
        \/ \E m \in DOMAIN new : First(new[m])
        \/ status = "loading" /\ \A j \in DOMAIN calls : j \in gone => ~ First(calls[j])
  BY <1>1 DEF First
<1>3. \A a \in pendingToggles' :
        a \in pendingToggles /\ \A j \in DOMAIN calls : j \in gone => ~ OfArtist(calls[j], a)
  BY <1>1
<1>4. authStatus' = "loading" =>
        authStatus = "loading" /\ \A j \in DOMAIN calls : j \in gone => ~ FromForm(calls[j])
  BY <1>1
<1> QED
  BY <1>1, <1>2, <1>3, <1>4, WaitFrame

\* Who waited for an answer that is applied does not wait any more.
LEMMA WaitArrive ==
  ASSUME Basis, WaitInv, NEW i \in DOMAIN calls, Arrive(i)
  PROVE  WaitInv'
<1> USE DEF auth, feed, buttons
<1>1. CASE PageFulfilled(i)
  <2>1. PICK new : Moved({i}, "same", new)
    BY <1>1, PageFulfilledMoves DEF Basis
  <2>2. calls[i].op = "page" /\ status' \in {"idle", "error"}
        /\ UNCHANGED <<pendingToggles, authStatus>>
    BY <1>1 DEF PageFulfilled
  <2> QED
    BY <2>1, <2>2, WaitEnds DEF OfArtist, FromForm
<1>2. CASE ToggleFulfilled(i)
  <2>1. PICK new : Moved({i}, "same", new) /\ Asked(new, status)
    BY <1>2, ToggleFulfilledMoves DEF Basis
  <2>2. /\ calls[i].op = "toggle" /\ pendingToggles' = pendingToggles \ {calls[i].what}
        /\ UNCHANGED authStatus
    BY <1>2 DEF ToggleFulfilled
  <2>3. \/ status' \in {"idle", "error"} \/ \E m \in DOMAIN new : First(new[m])
        \/ status' = status /\ calls[i].op # "page"
    BY <2>1, <2>2 DEF Asked, Waiting, First
  <2> QED
    BY <2>1, <2>2, <2>3, WaitEnds DEF OfArtist, FromForm
<1>3. CASE LoginFulfilled(i) \/ SessionLoaded(i)
  <2>1. PICK p : SignIn(calls[i].user, p, i)
    BY <1>3 DEF LoginFulfilled, SessionLoaded
  <2>2. calls[i].user \in Users
    BY CallIs DEF Basis, Typed
  <2>3. PICK new : /\ Moved({i}, "old", new)
                   /\ status' = IF Waiting(new) THEN "loading" ELSE status
    BY <2>1, <2>2, SignInMoves DEF Basis
  <2>4. calls[i].op \in {"login", "session"} /\ pendingToggles' = pendingToggles
        /\ authStatus' = "authenticated"
    BY <1>3, <2>1 DEF LoginFulfilled, SessionLoaded, SignIn
  <2>5. \/ \E m \in DOMAIN new : First(new[m])
        \/ status' = status /\ calls[i].op # "page"
    BY <2>3, <2>4 DEF Waiting, First
  <2> QED
    BY <2>3, <2>4, <2>5, WaitEnds DEF OfArtist
<1>4. CASE UserUpdated(i)
  <2>1. PICK new : Moved({i}, "same", new)
    BY <1>4, UserUpdatedMoves DEF Basis
  <2>2. calls[i].op = "patch" /\ UNCHANGED <<status, pendingToggles, authStatus>>
    BY <1>4 DEF UserUpdated
  <2> QED
    BY <2>1, <2>2, WaitEnds DEF OfArtist, FromForm
<1>5. CASE DismissFulfilled(i)
  <2>1. calls' = RemoveAt(calls, i)
    BY <1>5 DEF DismissFulfilled
  <2>2. Moved({i}, "same", <<>>)
    BY <2>1, EndMoves DEF Basis, Typed
  <2>3. calls[i].op = "dismiss" /\ UNCHANGED <<status, pendingToggles, authStatus>>
    BY <1>5 DEF DismissFulfilled
  <2> QED
    BY <2>2, <2>3, WaitEnds DEF OfArtist, FromForm
<1>6. CASE \/ PageRejected(i) \/ DismissRejected(i) \/ LoadFulfilled(i) \/ LoadRejected(i)
           \/ ToggleRejected(i) \/ LoginRejected(i) \/ SessionRefused(i) \/ SaveFailed(i)
  <2>1. Moved({i}, "same", <<>>)
    BY <1>6, SmallTyped DEF Basis
  <2>2. status' = "error" \/ (status' = status /\ calls[i].op # "page")
    BY <1>6 DEF PageRejected, DismissRejected, LoadFulfilled, LoadRejected,
                ToggleRejected, LoginRejected, SessionRefused, SaveFailed
  <2>3. \A a \in pendingToggles' : a \in pendingToggles /\ ~ OfArtist(calls[i], a)
    BY <1>6 DEF PageRejected, DismissRejected, LoadFulfilled, LoadRejected, OfArtist,
                ToggleRejected, LoginRejected, SessionRefused, SaveFailed
  <2>4. authStatus' = "error" \/ (authStatus' = authStatus /\ ~ FromForm(calls[i]))
    BY <1>6 DEF PageRejected, DismissRejected, LoadFulfilled, LoadRejected, FromForm,
                ToggleRejected, LoginRejected, SessionRefused, SaveFailed
  <2> QED
    BY <2>1, <2>2, <2>3, <2>4, WaitEnds
<1> QED
  BY <1>1, <1>2, <1>3, <1>4, <1>5, <1>6 DEF Arrive

\* Who waits after a click waits for what it sent.
LEMMA WaitClick ==
  ASSUME Basis, WaitInv, Clicks
  PROVE  WaitInv'
<1> USE DEF auth, feed, buttons
<1>1. ASSUME NEW c, Moved({}, "same", <<c>>), UNCHANGED <<status, pendingToggles, authStatus>>
      PROVE  WaitInv'
  BY <1>1, WaitSame
<1>2. CASE LoadMore
  BY <1>1, <1>2, LoadMoreMoves DEF Basis, LoadMore
<1>3. CASE SaveSettings
  BY <1>1, <1>3, SaveSettingsMoves DEF Basis, SaveSettings
<1>4. CASE SignOut
  <2>1. Moved({}, "old", <<>>) /\ status' = "idle" /\ pendingToggles' = {} /\ authStatus' = "idle"
    BY <1>4, SignOutMoves DEF Basis, SignOut
  <2> QED
    BY <2>1 DEF WaitInv
<1>5. CASE Reload
  BY <1>5 DEF Reload, WaitInv
<1>6. ASSUME NEW passing \in Filters, FiltersChanged(passing) PROVE WaitInv'
  <2> DEFINE gone == {}
  <2>1. PICK new : Moved(gone, "same", new) /\ Waiting(new)
    BY <1>6, FiltersChangedMoves DEF Basis
  <2>2. \A i \in DOMAIN calls : i \notin gone
    OBVIOUS
  <2>3. UNCHANGED <<pendingToggles, authStatus>>
    BY <1>6 DEF FiltersChanged
  <2>4. \E m \in DOMAIN new : First(new[m])
    BY <2>1 DEF Waiting, First
  <2> HIDE DEF gone
  <2> QED
    BY <2>1, <2>2, <2>3, <2>4, WaitFrame
<1>7. ASSUME NEW e \in Events, DismissEvent(e) PROVE WaitInv'
  BY <1>1, <1>7, DismissEventMoves DEF Basis, DismissEvent
<1>8. ASSUME NEW a \in Artists, ToggleFollow(a) PROVE WaitInv'
  <2> DEFINE gone == {}
  <2>1. PICK c : Moved(gone, "same", <<c>>) /\ c.op = "toggle" /\ c.what = a
    BY <1>8, ToggleFollowMoves DEF Basis
  <2> DEFINE new == <<c>>
  <2>2. \A i \in DOMAIN calls : i \notin gone
    OBVIOUS
  <2>3. UNCHANGED <<status, authStatus>> /\ pendingToggles' = pendingToggles \cup {a}
    BY <1>8 DEF ToggleFollow
  <2>4. \E m \in DOMAIN new : OfArtist(new[m], a)
    BY <2>1 DEF OfArtist
  <2>5. Moved(gone, "same", new)
    BY <2>1
  <2> HIDE DEF gone, new
  <2> QED
    BY <2>2, <2>3, <2>4, <2>5, WaitFrame
<1>9. ASSUME NEW u \in Users, Login(u) PROVE WaitInv'
  <2> DEFINE gone == {}
  <2>1. PICK c : Moved(gone, "same", <<c>>) /\ c.op = "login" /\ ~ c.on
    BY <1>9, LoginMoves DEF Basis
  <2> DEFINE new == <<c>>
  <2>2. \A i \in DOMAIN calls : i \notin gone
    OBVIOUS
  <2>3. UNCHANGED <<status, pendingToggles>>
    BY <1>9 DEF Login
  <2>4. \E m \in DOMAIN new : FromForm(new[m])
    BY <2>1 DEF FromForm
  <2>5. Moved(gone, "same", new)
    BY <2>1
  <2> HIDE DEF gone, new
  <2> QED
    BY <2>2, <2>3, <2>4, <2>5, WaitFrame
<1>10. ASSUME NEW u \in Users, AdoptToken(u) PROVE WaitInv'
  BY <1>1, <1>10, AdoptTokenMoves DEF Basis, AdoptToken
<1>11. ASSUME NEW v \in Views, Open(v) PROVE WaitInv'
  <2> DEFINE gone == {}
  <2>1. PICK new : Moved(gone, "same", new) /\ status' = IF Waiting(new) THEN "loading" ELSE status
    BY <1>11, OpenMoves DEF Basis
  <2>2. \A i \in DOMAIN calls : i \notin gone
    OBVIOUS
  <2>3. UNCHANGED <<pendingToggles, authStatus>>
    BY <1>11 DEF Open
  <2>4. status' = "loading" => status = "loading" \/ \E m \in DOMAIN new : First(new[m])
    BY <2>1 DEF Waiting, First
  <2> HIDE DEF gone
  <2> QED
    BY <2>1, <2>2, <2>3, <2>4, WaitFrame
<1> QED
  BY <1>2, <1>3, <1>4, <1>5, <1>6, <1>7, <1>8, <1>9, <1>10, <1>11 DEF Clicks

\* No step leaves anybody waiting for nothing.
LEMMA WaitStep ==
  ASSUME Basis, WaitInv, Next
  PROVE  WaitInv'
<1>1. ASSUME NEW i \in DOMAIN calls, Answer(i) PROVE WaitInv'
  <2>1. Moved({}, "answered", <<>>) /\ UNCHANGED <<status, pendingToggles, authStatus>>
    BY <1>1, BasisAnswer DEF auth, feed, buttons
  <2> QED
    BY <2>1, WaitSame
<1>2. CASE \/ \E u \in Users, ranking \in Rankings : ListingChange(u, ranking)
           \/ \E e \in Events : PushMatch(e)
           \/ MatchReceived
  <2>1. Moved({}, "same", <<>>) /\ UNCHANGED <<status, pendingToggles, authStatus>>
    BY <1>2, BasisList DEF auth, feed, buttons, ListingChange, PushMatch, MatchReceived
  <2> QED
    BY <2>1, WaitSame
<1> QED
  BY <1>1, <1>2, WaitArrive, WaitClick DEF Next

-------------------------------------------------------------------------------
(* The session *)

FreshSession(c) == c.op = "session" /\ ~ c.stale

\* A session that is still wanted when it is loaded finds the store signed out.
SessionInv ==
  /\ \A i, j \in DOMAIN calls : calls[i].op = "session" /\ calls[j].op = "session" => i = j
  /\ \A i \in DOMAIN calls : FreshSession(calls[i]) =>
       /\ token = NoUser /\ user = NoUser
       /\ ~ mixed => stored = Account(calls[i].user) /\ calls[i].what = calls[i].user
  /\ \A i, j \in DOMAIN calls : ~(FreshSession(calls[i]) /\ calls[j].op = "patch")
  /\ \/ mixed
     \/ user = token /\ stored = Account(token)
     \/ /\ user = NoUser /\ token = NoUser
        /\ \E i \in DOMAIN calls : FreshSession(calls[i]) /\ calls[i].user = stored.token

\* No call that is new loads a session, nor saves settings without one.
Ordinary(c) == c.op # "session" /\ (c.op = "patch" => token # NoUser)

\* Sessions stay unique while none is sent.
LEMMA SessionsUnique ==
  ASSUME SessionInv, NEW gone, NEW age, NEW new, Moved(gone, age, new),
         \A m \in DOMAIN new : new[m].op # "session"
  PROVE  \A k, l \in DOMAIN calls' : calls'[k].op = "session" /\ calls'[l].op = "session" => k = l
<1>1. PICK was : Were(was, calls, calls', gone, age, new)
  BY DEF Moved, Moves
<1> SUFFICES ASSUME NEW k \in DOMAIN calls', NEW l \in DOMAIN calls',
                    calls'[k].op = "session", calls'[l].op = "session"
             PROVE  k = l
  OBVIOUS
<1>2. was[k] \in DOMAIN calls /\ calls[was[k]].op = "session"
  BY <1>1 DEF Were, Heir
<1>3. was[l] \in DOMAIN calls /\ calls[was[l]].op = "session"
  BY <1>1 DEF Were, Heir
<1>4. was[k] = was[l]
  BY <1>2, <1>3 DEF SessionInv
<1> QED
  BY <1>1, <1>4 DEF Were

\* Steps that leave the session alone.
LEMMA SessionFrame ==
  ASSUME Basis, SessionInv, NEW gone, NEW age, NEW new, Moved(gone, age, new), age # "old",
         UNCHANGED <<token, user, stored, mixed>>,
         \A i \in DOMAIN calls : i \in gone => calls[i].op # "session",
         \A m \in DOMAIN new : Ordinary(new[m])
  PROVE  SessionInv'
<1>1. Len(calls) \in Nat /\ DOMAIN calls = 1..Len(calls) /\ new \in Seq(Call)
      /\ Moves(calls, calls', gone, age, new)
  BY DEF Basis, Typed, TypeOK, Moved
<1>2. ASSUME NEW i \in DOMAIN calls, i \notin gone
      PROVE  \E k \in DOMAIN calls' : Heir(calls[i], calls'[k], age)
  BY <1>1, <1>2, LivesOn
<1>3. ASSUME NEW k \in DOMAIN calls'
      PROVE  \/ \E j \in DOMAIN calls : Heir(calls[j], calls'[k], age)
             \/ calls'[k].op # "session" /\ (calls'[k].op = "patch" => token # NoUser)
  BY <1>1, CameFrom DEF Ordinary
<1>4. \A k, l \in DOMAIN calls' : calls'[k].op = "session" /\ calls'[l].op = "session" => k = l
  BY SessionsUnique DEF Ordinary
<1>5. ASSUME NEW k \in DOMAIN calls', FreshSession(calls'[k])
      PROVE  \E j \in DOMAIN calls : /\ FreshSession(calls[j]) /\ calls[j].user = calls'[k].user
                                     /\ calls[j].what = calls'[k].what
  BY <1>3, <1>5 DEF FreshSession, Heir
<1>6. ASSUME NEW k \in DOMAIN calls', FreshSession(calls'[k])
      PROVE  /\ token' = NoUser /\ user' = NoUser
             /\ ~ mixed' => stored' = Account(calls'[k].user) /\ calls'[k].what = calls'[k].user
  BY <1>5, <1>6 DEF SessionInv
<1>7. ASSUME NEW k \in DOMAIN calls', NEW l \in DOMAIN calls', FreshSession(calls'[k]),
             calls'[l].op = "patch"
      PROVE  FALSE
  <2>1. PICK i \in DOMAIN calls : FreshSession(calls[i])
    BY <1>5, <1>7
  <2>2. token = NoUser
    BY <2>1 DEF SessionInv
  <2>3. PICK j \in DOMAIN calls : Heir(calls[j], calls'[l], age)
    BY <1>3, <1>7, <2>2
  <2> QED
    BY <1>7, <2>1, <2>3 DEF SessionInv, Heir
<1>8. (\E i \in DOMAIN calls : FreshSession(calls[i]) /\ calls[i].user = stored.token)
        => \E k \in DOMAIN calls' : FreshSession(calls'[k]) /\ calls'[k].user = stored.token
  BY <1>2 DEF FreshSession, Heir
<1> QED
  BY <1>4, <1>6, <1>7, <1>8 DEF SessionInv

\* Steps that leave the session and the calls of its kind alone.
LEMMA SessionSame ==
  ASSUME Basis, SessionInv, NEW age, NEW new, Moved({}, age, new), age # "old",
         UNCHANGED <<token, user, stored, mixed>>,
         \A m \in DOMAIN new : Ordinary(new[m])
  PROVE  SessionInv'
<1> DEFINE gone == {}
<1>1. Moved(gone, age, new) /\ \A i \in DOMAIN calls : i \notin gone
  OBVIOUS
<1> HIDE DEF gone
<1> QED
  BY <1>1, SessionFrame

\* Steps that end a call of another kind.
LEMMA SessionEnds ==
  ASSUME Basis, SessionInv, NEW i \in DOMAIN calls, NEW new, Moved({i}, "same", new),
         UNCHANGED <<token, user, stored, mixed>>, calls[i].op # "session",
         \A m \in DOMAIN new : Ordinary(new[m])
  PROVE  SessionInv'
<1> DEFINE gone == {i}
           age == "same"
<1>1. /\ Moved(gone, age, new) /\ age # "old"
      /\ \A j \in DOMAIN calls : j \in gone => calls[j].op # "session"
  OBVIOUS
<1> HIDE DEF gone, age
<1> QED
  BY <1>1, SessionFrame

\* Sign-ins and sign-outs: nothing under way is of the new session, which is whole.
LEMMA SessionAnew ==
  ASSUME Basis, SessionInv, NEW gone, NEW new, Moved(gone, "old", new),
         \A m \in DOMAIN new : new[m].op # "session",
         mixed' \/ (user' = token' /\ stored' = Account(token'))
  PROVE  SessionInv'
<1>1. Moves(calls, calls', gone, "old", new)
  BY DEF Moved
<1>2. \A k \in DOMAIN calls' : ~ FreshSession(calls'[k])
  BY <1>1, CameFrom DEF FreshSession, Heir
<1>3. \A k, l \in DOMAIN calls' : calls'[k].op = "session" /\ calls'[l].op = "session" => k = l
  <2> DEFINE age == "old"
  <2>1. Moved(gone, age, new)
    OBVIOUS
  <2> HIDE DEF age
  <2> QED
    BY <2>1, SessionsUnique
<1> QED
  BY <1>2, <1>3 DEF SessionInv

\* Answers that are applied keep the session whole, or mark it as mixed.
LEMMA SessionArrive ==
  ASSUME Basis, SessionInv, NEW i \in DOMAIN calls, Arrive(i)
  PROVE  SessionInv'
<1> USE DEF auth, history, bounds
<1> DEFINE c == calls[i]
<1>1. c.user \in Users /\ c.stale \in BOOLEAN /\ Own(c, token) /\ mixed \in BOOLEAN
      /\ token \in Users \cup {NoUser}
  BY CallIs DEF Basis, Typed, CallsOK, TypeOK
<1>2. CASE PageFulfilled(i)
  <2>1. PICK new : Moved({i}, "same", new) /\ \A m \in DOMAIN new : new[m].op = "page"
    BY <1>2, PageFulfilledMoves DEF Basis
  <2>2. calls[i].op = "page" /\ UNCHANGED <<token, user, stored, mixed>>
    BY <1>2 DEF PageFulfilled
  <2> QED
    BY <2>1, <2>2, SessionEnds DEF Ordinary
<1>3. CASE ToggleFulfilled(i)
  <2>1. PICK new : Moved({i}, "same", new) /\ \A m \in DOMAIN new : new[m].op = "page"
    BY <1>3, ToggleFulfilledMoves DEF Basis
  <2>2. calls[i].op = "toggle" /\ UNCHANGED <<token, user, stored, mixed>>
    BY <1>3 DEF ToggleFulfilled
  <2> QED
    BY <2>1, <2>2, SessionEnds DEF Ordinary
<1>4. CASE LoginFulfilled(i) \/ SessionLoaded(i)
  <2>1. PICK p : SignIn(calls[i].user, p, i)
    BY <1>4 DEF LoginFulfilled, SessionLoaded
  <2>2. PICK new : /\ Moved({i}, "old", new)
                   /\ \A m \in DOMAIN new : Mounted(new[m], calls[i].user)
    BY <1>1, <2>1, SignInMoves DEF Basis
  <2>3. \A m \in DOMAIN new : new[m].op # "session"
    BY <2>2 DEF Mounted
  <2>4. mixed' \/ (user' = token' /\ stored' = Account(token'))
    <3>1. CASE LoginFulfilled(i)
      BY <3>1 DEF LoginFulfilled, SignIn
    <3>2. CASE SessionLoaded(i) /\ c.at = "sent"
      BY <3>2 DEF SessionLoaded, SignIn
    <3>3. CASE SessionLoaded(i) /\ c.at # "sent"
      <4>1. /\ token' = c.user /\ user' = c.what /\ stored' = stored /\ c.op = "session"
            /\ mixed' <=> mixed \/ c.stale
        BY <3>3 DEF SessionLoaded, SignIn
      <4>2. FreshSession(c) /\ ~ mixed => stored = Account(c.user) /\ c.what = c.user
        BY DEF SessionInv
      <4> QED
        BY <4>1, <4>2 DEF FreshSession
    <3> QED
      BY <1>4, <3>1, <3>2, <3>3
  <2> QED
    BY <2>2, <2>3, <2>4, SessionAnew
<1>5. CASE UserUpdated(i)
  <2>1. PICK new : /\ Moved({i}, "same", new)
                   /\ \A m \in DOMAIN new : new[m].op = "patch" /\ token # NoUser
    BY <1>5, UserUpdatedMoves DEF Basis
  <2>2. /\ c.op = "patch" /\ user' = c.user /\ (mixed' <=> c.stale) /\ token' = token
        /\ token # NoUser => stored' = [token |-> token, user |-> c.user]
    BY <1>5 DEF UserUpdated
  <2>3. \A j \in DOMAIN calls : ~ FreshSession(calls[j])
    BY <2>2 DEF SessionInv
  <2>4. \A k \in DOMAIN calls' : ~ FreshSession(calls'[k])
    <3>1. Moves(calls, calls', {i}, "same", new)
      BY <2>1 DEF Moved
    <3> QED
      BY <2>1, <2>3, <3>1, CameFrom DEF FreshSession, Heir
  <2>5. \A k, l \in DOMAIN calls' : calls'[k].op = "session" /\ calls'[l].op = "session" => k = l
    <3> DEFINE gone == {i}
               age == "same"
    <3>1. Moved(gone, age, new)
      BY <2>1
    <3> HIDE DEF gone, age
    <3> QED
      BY <2>1, <3>1, SessionsUnique
  <2>6. mixed' \/ (user' = token' /\ stored' = Account(token'))
    BY <1>1, <2>2, Constants DEF Own, Account
  <2> QED
    BY <2>4, <2>5, <2>6 DEF SessionInv
<1>6. CASE SessionRefused(i)
  <2>1. Moved({i}, "same", <<>>)
    BY <1>6, SmallTyped DEF Basis
  <2>2. /\ c.op = "session" /\ stored' = SignedOut /\ UNCHANGED <<token, user>>
        /\ mixed' <=> mixed \/ c.stale
    BY <1>6 DEF SessionRefused
  <2>3. ASSUME NEW k \in DOMAIN calls', calls'[k].op = "session"
        PROVE  FALSE
    <3>1. Moves(calls, calls', {i}, "same", <<>>)
      BY <2>1 DEF Moved
    <3>2. PICK j \in DOMAIN calls : j \notin {i} /\ Heir(calls[j], calls'[k], "same")
      <4> DEFINE new == <<>>
                 gone == {i}
                 age == "same"
      <4>1. DOMAIN new = {} /\ Moves(calls, calls', gone, age, new)
        BY <3>1
      <4> HIDE DEF new, gone, age
      <4>2. \E j \in DOMAIN calls : j \notin gone /\ Heir(calls[j], calls'[k], age)
        BY <4>1, CameFrom
      <4> QED
        BY <4>2 DEF gone, age
    <3> QED
      BY <2>2, <2>3, <3>2 DEF SessionInv, Heir
  <2>4. mixed' \/ (user' = token' /\ stored' = Account(token'))
    <3>1. FreshSession(c) => token = NoUser /\ user = NoUser
      BY DEF SessionInv
    <3> QED
      BY <2>2, <3>1 DEF FreshSession, Account, SignedOut
  <2> QED
    BY <2>3, <2>4 DEF SessionInv, FreshSession
<1>7. CASE \/ PageRejected(i) \/ DismissRejected(i) \/ LoadFulfilled(i) \/ LoadRejected(i)
           \/ ToggleRejected(i) \/ LoginRejected(i) \/ SaveFailed(i) \/ DismissFulfilled(i)
  <2>1. calls' = RemoveAt(calls, i) /\ UNCHANGED <<token, user, stored, mixed>>
    BY <1>7 DEF PageRejected, DismissRejected, LoadFulfilled, LoadRejected,
                ToggleRejected, LoginRejected, SaveFailed, DismissFulfilled
  <2>2. c.op # "session"
    BY <1>7 DEF PageRejected, DismissRejected, LoadFulfilled, LoadRejected,
                ToggleRejected, LoginRejected, SaveFailed, DismissFulfilled
  <2> DEFINE new == <<>>
  <2>3. Moved({i}, "same", new)
    BY <2>1, EndMoves DEF Basis, Typed
  <2>4. DOMAIN new = {}
    OBVIOUS
  <2> HIDE DEF new
  <2> QED
    BY <2>1, <2>2, <2>3, <2>4, SessionEnds
<1> QED
  BY <1>2, <1>3, <1>4, <1>5, <1>6, <1>7 DEF Arrive

\* So do clicks.
LEMMA SessionClick ==
  ASSUME Basis, SessionInv, Clicks
  PROVE  SessionInv'
<1> USE DEF auth, history
<1>1. ASSUME NEW c, Moved({}, "same", <<c>>), UNCHANGED <<token, user, stored, mixed>>, Ordinary(c)
      PROVE  SessionInv'
  <2> DEFINE new == <<c>>
             age == "same"
  <2>1. Moved({}, age, new) /\ age # "old" /\ \A m \in DOMAIN new : Ordinary(new[m])
    BY <1>1
  <2> HIDE DEF new, age
  <2> QED
    BY <1>1, <2>1, SessionSame
<1>2. CASE LoadMore
  BY <1>1, <1>2, LoadMoreMoves DEF Basis, LoadMore, Ordinary
<1>3. CASE SaveSettings
  BY <1>1, <1>3, SaveSettingsMoves DEF Basis, SaveSettings, Ordinary
<1>4. CASE SignOut
  <2> DEFINE new == <<>>
             gone == {}
  <2>1. Moved(gone, "old", new) /\ DOMAIN new = {}
    BY <1>4, SignOutMoves DEF Basis
  <2>2. user' = token' /\ stored' = Account(token')
    BY <1>4 DEF SignOut, Account, SignedOut
  <2> HIDE DEF new, gone
  <2> QED
    BY <2>1, <2>2, SessionAnew
<1>5. CASE Reload
  <2>1. {stored.token, stored.user} \subseteq Users \cup {NoUser}
        /\ (stored.token = NoUser \/ stored.user \in Users)
    BY DEF Basis, Typed, TypeOK, StoredOK
  <2> DEFINE new == SessionCalls(stored)
  <2>2. /\ stored.token # NoUser => DOMAIN new = {1}
        /\ \A m \in DOMAIN new : /\ m = 1 /\ Sent(new[m]) /\ new[m].op = "session"
                                 /\ new[m].user = stored.token /\ new[m].what = stored.user
    BY <2>1, SessionCallsAre
  <2>3. /\ calls' = new /\ token' = NoUser /\ user' = NoUser /\ stored' = stored
        /\ mixed' = mixed
    BY <1>5 DEF Reload
  <2> HIDE DEF new
  <2>4. ~ mixed => stored.user = stored.token /\ stored = Account(stored.token)
    BY DEF SessionInv, Account
  <2>5. stored.token = NoUser => stored = Account(NoUser)
    BY Constants DEF Basis, StoredOK, SignedOut, Account
  <2>6. stored.token # NoUser => 1 \in DOMAIN calls' /\ FreshSession(calls'[1])
                                 /\ calls'[1].user = stored.token
    BY <2>2, <2>3 DEF FreshSession, Sent
  <2>7. \A k \in DOMAIN calls' : /\ k = 1 /\ calls'[k].op = "session"
                                 /\ calls'[k].user = stored.token /\ calls'[k].what = stored.user
    BY <2>2, <2>3
  <2> QED
    BY <2>3, <2>4, <2>5, <2>6, <2>7 DEF SessionInv
<1>6. ASSUME NEW passing \in Filters, FiltersChanged(passing) PROVE SessionInv'
  <2> DEFINE age == "same"
  <2>1. PICK new : Moved({}, age, new)
                   /\ \A m \in DOMAIN new : new[m].op = "page" \/ Mounted(new[m], token)
    BY <1>6, FiltersChangedMoves DEF Basis
  <2>2. age # "old" /\ \A m \in DOMAIN new : Ordinary(new[m])
    BY <2>1 DEF Mounted, Ordinary
  <2>3. UNCHANGED <<token, user, stored, mixed>>
    BY <1>6 DEF FiltersChanged
  <2> HIDE DEF age
  <2> QED
    BY <2>1, <2>2, <2>3, SessionSame
<1>7. ASSUME NEW e \in Events, DismissEvent(e) PROVE SessionInv'
  BY <1>1, <1>7, DismissEventMoves DEF Basis, DismissEvent, Ordinary
<1>8. ASSUME NEW a \in Artists, ToggleFollow(a) PROVE SessionInv'
  BY <1>1, <1>8, ToggleFollowMoves DEF Basis, ToggleFollow, Ordinary
<1>9. ASSUME NEW u \in Users, Login(u) PROVE SessionInv'
  BY <1>1, <1>9, LoginMoves DEF Basis, Login, Ordinary
<1>10. ASSUME NEW u \in Users, AdoptToken(u) PROVE SessionInv'
  BY <1>1, <1>10, AdoptTokenMoves DEF Basis, AdoptToken, Ordinary
<1>11. ASSUME NEW v \in Views, Open(v) PROVE SessionInv'
  <2> DEFINE age == "same"
  <2>1. PICK new : Moved({}, age, new) /\ \A m \in DOMAIN new : Mounted(new[m], token)
    BY <1>11, OpenMoves DEF Basis
  <2>2. age # "old" /\ \A m \in DOMAIN new : Ordinary(new[m])
    BY <2>1 DEF Mounted, Ordinary
  <2>3. UNCHANGED <<token, user, stored, mixed>>
    BY <1>11 DEF Open
  <2> HIDE DEF age
  <2> QED
    BY <2>1, <2>2, <2>3, SessionSame
<1> QED
  BY <1>2, <1>3, <1>4, <1>5, <1>6, <1>7, <1>8, <1>9, <1>10, <1>11 DEF Clicks

\* No step takes the session apart unseen.
LEMMA SessionStep ==
  ASSUME Basis, SessionInv, Next
  PROVE  SessionInv'
<1> DEFINE new == <<>>
<1>0. \A m \in DOMAIN new : Ordinary(new[m])
  OBVIOUS
<1>1. ASSUME NEW i \in DOMAIN calls, Answer(i) PROVE SessionInv'
  <2> DEFINE age == "answered"
  <2>1. Moved({}, age, new) /\ UNCHANGED <<token, user, stored, mixed>> /\ age # "old"
    BY <1>1, BasisAnswer DEF auth, history
  <2> HIDE DEF new, age
  <2> QED
    BY <1>0, <2>1, SessionSame
<1>2. CASE \/ \E u \in Users, ranking \in Rankings : ListingChange(u, ranking)
           \/ \E e \in Events : PushMatch(e)
           \/ MatchReceived
  <2> DEFINE age == "same"
  <2>1. Moved({}, age, new) /\ UNCHANGED <<token, user, stored, mixed>> /\ age # "old"
    BY <1>2, BasisList DEF auth, history, ListingChange, PushMatch, MatchReceived
  <2> HIDE DEF new, age
  <2> QED
    BY <1>0, <2>1, SessionSame
<1> QED
  BY <1>1, <1>2, SessionArrive, SessionClick DEF Next

-------------------------------------------------------------------------------
(* What the gateway's answers say *)

\* A page is what the gateway lists at the cursor when it answers.
LEMMA AnswerPageSays ==
  ASSUME Basis, NEW i \in DOMAIN calls, AnswerPage(i)
  PROVE  LET c == calls[i]
             d == calls'[i]
             all == Listing(c.user, c.filters)
             last == Min({c.cursor + PageSize, Len(all)})
         IN /\ c.op = "page" /\ d.op = "page" /\ d.at = "done" /\ d.user = c.user
            /\ d.filters = c.filters /\ d.cursor = c.cursor /\ d.on = c.on
            /\ d.items = SubSeq(all, c.cursor + 1, last)
            /\ d.hasMore <=> last < Len(all)
            /\ d.version = version[c.user]
            /\ DOMAIN calls' = DOMAIN calls
            /\ \A j \in DOMAIN calls : j # i => calls'[j] = calls[j]
<1> DEFINE c == calls[i]
           d == calls'[i]
           all == Listing(c.user, c.filters)
           last == Min({c.cursor + PageSize, Len(all)})
           q == SubSeq(all, c.cursor + 1, last)
           b == last < Len(all)
           w == version[c.user]
<1>1. c \in Call /\ calls \in Seq(Call) /\ c.op = "page"
  BY CallIs DEF Basis, Typed, AnswerPage
<1>2. calls' = [calls EXCEPT ![i] =
                  [c EXCEPT !.at = "done", !.version = w, !.items = q, !.hasMore = b]]
  BY DEF AnswerPage
<1> HIDE DEF c, all, last, q, b, w
<1>3. /\ DOMAIN calls' = DOMAIN calls /\ \A j \in DOMAIN calls : j # i => calls'[j] = calls[j]
      /\ d = [c EXCEPT !.at = "done", !.version = w, !.items = q, !.hasMore = b]
  BY <1>1, <1>2
<1> HIDE DEF d
<1>4. /\ d.op = "page" /\ d.at = "done" /\ d.user = c.user /\ d.filters = c.filters
      /\ d.cursor = c.cursor /\ d.on = c.on /\ d.items = q /\ d.hasMore = b /\ d.version = w
  BY <1>1, <1>3 DEF Call
<1> QED
  BY <1>1, <1>3, <1>4 DEF c, d, all, last, q, b, w

\* What two sequences hold together.
LEMMA RangeConcat ==
  ASSUME NEW S, NEW s \in Seq(S), NEW t \in Seq(S)
  PROVE  s \o t \in Seq(S) /\ Range(s \o t) = Range(s) \cup Range(t)
<1> DEFINE n == Len(s)
           p == Len(t)
           r == s \o t
<1>1. /\ n \in Nat /\ p \in Nat /\ DOMAIN s = 1..n /\ DOMAIN t = 1..p
      /\ r \in Seq(S) /\ DOMAIN r = 1..(n + p)
      /\ \A k \in 1..n : r[k] = s[k]
      /\ \A m \in 1..p : r[n + m] = t[m]
  OBVIOUS
<1> HIDE DEF n, p, r
<1>2. ASSUME NEW k \in 1..(n + p) PROVE r[k] \in Range(s) \cup Range(t)
  <2>1. CASE k \in 1..n
    BY <1>1, <2>1 DEF Range
  <2>2. CASE k \notin 1..n
    <3>1. k - n \in 1..p /\ n + (k - n) = k
      BY <1>1, <2>2
    <3>2. r[n + (k - n)] = t[k - n]
      BY <1>1, <3>1
    <3> QED
      BY <1>1, <3>1, <3>2 DEF Range
  <2> QED
    BY <2>1, <2>2
<1>3. ASSUME NEW k \in 1..n PROVE s[k] \in Range(r)
  <2>1. k \in 1..(n + p)
    BY <1>1
  <2> QED
    BY <1>1, <2>1 DEF Range
<1>4. ASSUME NEW m \in 1..p PROVE t[m] \in Range(r)
  <2>1. n + m \in 1..(n + p)
    BY <1>1
  <2> QED
    BY <1>1, <2>1 DEF Range
<1>5. Range(s) \cup Range(t) \subseteq Range(r)
  BY <1>1, <1>3, <1>4 DEF Range
<1>6. Range(r) \subseteq Range(s) \cup Range(t)
  BY <1>1, <1>2 DEF Range
<1> QED
  BY <1>1, <1>5, <1>6 DEF r

-------------------------------------------------------------------------------
(* Dismissals *)

\* A page that was read before a dismissal knows the show; a dismissal that was done is seen.
ReadBefore(c) ==
  /\ c.op = "page" /\ c.at = "done" => Range(c.items) \cap dismissed[c.user] \subseteq c.older
  /\ c.op = "dismiss" /\ c.did => c.what \in dismissed[c.user]

\* The answer to the dismissal of e by u is under way, or was lost after it was done.
Hiding(c, e, u) == c.op = "dismiss" /\ c.what = e /\ c.user = u /\ c.did

DismissedInv ==
  /\ \A i \in DOMAIN calls : ReadBefore(calls[i])
  /\ pushes # <<>> => token # NoUser
  /\ \A i \in DOMAIN pushes :
       pushes[i].what \in dismissed[token] => pushes[i].what \in pushes[i].older
  /\ token # NoUser =>
       \A e \in Range(items) \cap dismissed[token] :
         e \in returned \/ \E i \in DOMAIN calls : Hiding(calls[i], e, token)

\* The invariant when no call is answered and nothing is dismissed.
LEMMA DismissedFrame ==
  ASSUME Basis, DismissedInv, NEW gone, NEW age, NEW new, Moved(gone, age, new), age # "answered",
         dismissed' = dismissed,
         pushes' = <<>> \/ (pushes' = pushes /\ token' = token),
         token' # NoUser =>
           \A e \in Range(items') \cap dismissed[token'] :
             \/ e \in returned'
             \/ \E i \in DOMAIN calls : i \notin gone /\ Hiding(calls[i], e, token')
  PROVE  DismissedInv'
<1>1. Len(calls) \in Nat /\ DOMAIN calls = 1..Len(calls) /\ new \in Seq(Call)
      /\ Moves(calls, calls', gone, age, new)
  BY DEF Basis, Typed, TypeOK, Moved
<1>2. ASSUME NEW i \in DOMAIN calls, i \notin gone
      PROVE  \E k \in DOMAIN calls' : Heir(calls[i], calls'[k], age)
  BY <1>1, <1>2, LivesOn
<1>3. ASSUME NEW k \in DOMAIN calls'
      PROVE  LET d == calls'[k] IN
             /\ d.op = "page" /\ d.at = "done" => Range(d.items) \cap dismissed[d.user] \subseteq d.older
             /\ d.op = "dismiss" /\ d.did => d.what \in dismissed[d.user]
  <2>1. CASE \E j \in DOMAIN calls : j \notin gone /\ Heir(calls[j], calls'[k], age)
    BY <2>1 DEF Heir, DismissedInv, ReadBefore
  <2>2. CASE \E m \in DOMAIN new : calls'[k] = new[m]
    BY <2>2 DEF Moved, Fit, Sent
  <2> QED
    BY <1>1, <2>1, <2>2, CameFrom
<1>4. \A k \in DOMAIN calls' : ReadBefore(calls[k])'
  BY <1>3 DEF ReadBefore
<1>5. pushes' # <<>> => token' # NoUser
  BY DEF DismissedInv
<1>6. \A k \in DOMAIN pushes' :
        pushes'[k].what \in dismissed'[token'] => pushes'[k].what \in pushes'[k].older
  <2>1. CASE pushes' = <<>>
    BY <2>1
  <2>2. CASE pushes' = pushes /\ token' = token
    BY <2>2 DEF DismissedInv
  <2> QED
    BY <2>1, <2>2
<1>7. ASSUME token' # NoUser, NEW e \in Range(items') \cap dismissed'[token']
      PROVE  e \in returned' \/ \E k \in DOMAIN calls' : Hiding(calls'[k], e, token')
  <2>1. CASE e \in returned'
    BY <2>1
  <2>2. CASE \E i \in DOMAIN calls : i \notin gone /\ Hiding(calls[i], e, token')
    BY <1>2, <2>2 DEF Hiding, Heir
  <2> QED
    BY <1>7, <2>1, <2>2
<1> QED
  BY <1>4, <1>5, <1>6, <1>7 DEF DismissedInv

\* Steps that show nothing that was not shown.
LEMMA DismissedSame ==
  ASSUME Basis, DismissedInv, NEW age, NEW new, Moved({}, age, new), age # "answered",
         UNCHANGED <<dismissed, token>>, pushes' \in {pushes, <<>>}, Range(items') \subseteq Range(items),
         Range(items') \cap returned \subseteq returned'
  PROVE  DismissedInv'
<1> DEFINE gone == {}
<1>1. Moved(gone, age, new) /\ \A i \in DOMAIN calls : i \notin gone
  OBVIOUS
<1> HIDE DEF gone
<1>2. token' # NoUser =>
        \A e \in Range(items') \cap dismissed[token'] :
          \/ e \in returned'
          \/ \E i \in DOMAIN calls : i \notin gone /\ Hiding(calls[i], e, token')
  BY <1>1 DEF DismissedInv
<1> QED
  BY <1>1, <1>2, DismissedFrame

\* Steps that end a call that hides nothing.
LEMMA DismissedEnds ==
  ASSUME Basis, DismissedInv, NEW i \in DOMAIN calls, NEW new, Moved({i}, "same", new),
         UNCHANGED <<dismissed, token, pushes, items, returned>>, calls[i].op # "dismiss"
  PROVE  DismissedInv'
<1> DEFINE gone == {i}
           age == "same"
<1>1. /\ Moved(gone, age, new) /\ age # "answered"
      /\ \A j \in DOMAIN calls : calls[j].op = "dismiss" => j \notin gone
  OBVIOUS
<1> HIDE DEF gone, age
<1>2. token' # NoUser =>
        \A e \in Range(items') \cap dismissed[token'] :
          \/ e \in returned'
          \/ \E j \in DOMAIN calls : j \notin gone /\ Hiding(calls[j], e, token')
  BY <1>1 DEF DismissedInv, Hiding
<1> QED
  BY <1>1, <1>2, DismissedFrame

\* Answers that dismiss nothing.
LEMMA DismissedAnswer ==
  ASSUME Basis, DismissedInv, UNCHANGED <<dismissed, token, pushes, items, returned>>,
         DOMAIN calls' = DOMAIN calls, NEW i \in DOMAIN calls,
         \A j \in DOMAIN calls : j # i => calls'[j] = calls[j],
         ReadBefore(calls[i])',
         \A e, u : Hiding(calls[i], e, u) => Hiding(calls'[i], e, u)
  PROVE  DismissedInv'
<1>1. \A k \in DOMAIN calls' : ReadBefore(calls[k])'
  BY DEF DismissedInv, ReadBefore
<1>2. ASSUME token # NoUser, NEW e \in Range(items) \cap dismissed[token]
      PROVE  e \in returned \/ \E k \in DOMAIN calls' : Hiding(calls'[k], e, token)
  <2>1. CASE e \in returned
    BY <2>1
  <2>2. CASE \E j \in DOMAIN calls : Hiding(calls[j], e, token)
    BY <2>2
  <2> QED
    BY <1>2, <2>1, <2>2 DEF DismissedInv
<1> QED
  BY <1>1, <1>2 DEF DismissedInv

\* The gateway hides a show: what was read before knows it.
LEMMA DismissedHides ==
  ASSUME Basis, DismissedInv, NEW i \in DOMAIN calls, AnswerDismiss(i)
  PROVE  DismissedInv'
<1> DEFINE u == calls[i].user
           e == calls[i].what
<1>1. /\ u \in Users /\ e \in Events /\ calls[i].op = "dismiss" /\ calls[i] \in Call
      /\ dismissed \in [Users -> SUBSET Events] /\ \A j \in DOMAIN calls : calls[j] \in Call
      /\ calls \in Seq(Call) /\ token \in Users \cup {NoUser}
  BY CallIs DEF Basis, Typed, TypeOK, CallsOK, Shape, AnswerDismiss
<1>2. /\ dismissed' = [dismissed EXCEPT ![u] = @ \cup {e}]
      /\ DOMAIN calls' = DOMAIN calls
      /\ calls'[i] = [calls[i] EXCEPT !.at = "done", !.did = TRUE]
      /\ \A j \in DOMAIN calls : j # i =>
           calls'[j] = IF calls[j].op = "page" /\ calls[j].at = "done"
                       THEN [calls[j] EXCEPT !.older = @ \cup {e}] ELSE calls[j]
      /\ pushes' = [j \in DOMAIN pushes |-> [pushes[j] EXCEPT !.older = @ \cup {e}]]
      /\ UNCHANGED <<token, items, returned>>
  BY <1>1 DEF AnswerDismiss, auth, feed, history
<1> HIDE DEF u, e
<1>3. \A v \in Users : dismissed[v] \subseteq dismissed'[v] /\ dismissed'[v] \subseteq dismissed[v] \cup {e}
  BY <1>1, <1>2
<1>4. e \in dismissed'[u]
  BY <1>1, <1>2
<1>5. \A v \in Users : v # u => dismissed'[v] = dismissed[v]
  BY <1>1, <1>2
<1>6. ASSUME NEW k \in DOMAIN calls'
      PROVE  ReadBefore(calls[k])'
  <2> DEFINE c == calls[k]
             d == calls'[k]
  <2>1. c \in Call /\ c.user \in Users /\ ReadBefore(c)
    BY <1>1, <1>2, CallIs DEF Basis, Typed, DismissedInv
  <2>2. CASE k = i
    <3>1. d.op = "dismiss" /\ d.what = e /\ d.user = u
      BY <1>1, <1>2, <2>2 DEF u, e, Call
    <3> QED
      BY <1>4, <3>1 DEF ReadBefore
  <2>3. CASE k # i /\ c.op = "page" /\ c.at = "done"
    <3>1. d = [c EXCEPT !.older = @ \cup {e}]
      BY <1>2, <2>3
    <3> HIDE DEF c, d
    <3>2. d.op = "page" /\ d.user = c.user /\ d.items = c.items /\ d.older = c.older \cup {e}
      BY <2>1, <2>3, <3>1 DEF Call
    <3>3. Range(c.items) \cap dismissed[c.user] \subseteq c.older
      BY <2>1, <2>3 DEF ReadBefore
    <3>4. Range(d.items) \cap dismissed'[d.user] \subseteq d.older
      BY <1>3, <2>1, <3>2, <3>3
    <3> QED
      BY <3>2, <3>4 DEF ReadBefore, d
  <2>4. CASE k # i /\ ~(c.op = "page" /\ c.at = "done")
    <3>1. d = c
      BY <1>2, <2>4
    <3>2. c.op = "dismiss" /\ c.did => c.what \in dismissed'[c.user]
      BY <1>3, <2>1 DEF ReadBefore
    <3> QED
      BY <2>4, <3>1, <3>2 DEF ReadBefore
  <2> QED
    BY <2>2, <2>3, <2>4
<1>7. pushes' # <<>> => token' # NoUser
  BY <1>2 DEF DismissedInv
<1>8. ASSUME NEW k \in DOMAIN pushes'
      PROVE  pushes'[k].what \in dismissed'[token'] => pushes'[k].what \in pushes'[k].older
  <2> DEFINE P == [what : Events, older : SUBSET Events]
  <2>0. pushes \in Seq(P)
    BY DEF Basis, Typed, TypeOK
  <2>1. k \in DOMAIN pushes /\ pushes[k] \in P
    <3> HIDE DEF P
    <3> QED
      BY <1>2, <2>0
  <2>2. pushes'[k] = [pushes[k] EXCEPT !.older = @ \cup {e}]
    BY <1>2, <2>1
  <2>3. pushes'[k].what = pushes[k].what /\ pushes'[k].older = pushes[k].older \cup {e}
    BY <2>1, <2>2
  <2>4. pushes[k].what \in dismissed[token] => pushes[k].what \in pushes[k].older
    BY <2>1 DEF DismissedInv
  <2>5. token \in Users
    BY <1>1, <2>1 DEF DismissedInv
  <2> QED
    BY <1>2, <1>3, <2>3, <2>4, <2>5
<1>9. ASSUME token' # NoUser, NEW x \in Range(items') \cap dismissed'[token']
      PROVE  x \in returned' \/ \E k \in DOMAIN calls' : Hiding(calls'[k], x, token')
  <2>1. token \in Users /\ x \in Range(items)
    BY <1>1, <1>2, <1>9
  <2>2. CASE x \in dismissed[token]
    <3>1. CASE x \in returned
      BY <1>2, <3>1
    <3>2. CASE \E j \in DOMAIN calls : Hiding(calls[j], x, token)
      <4>1. PICK j \in DOMAIN calls : Hiding(calls[j], x, token)
        BY <3>2
      <4>2. Hiding(calls'[j], x, token)
        <5>1. CASE j = i
          BY <1>1, <1>2, <4>1, <5>1 DEF Hiding, Call
        <5>2. CASE j # i
          BY <1>2, <4>1, <5>2 DEF Hiding
        <5> QED
          BY <5>1, <5>2
      <4> QED
        BY <1>2, <4>1, <4>2
    <3> QED
      BY <1>2, <1>9, <2>1, <2>2, <3>1, <3>2 DEF DismissedInv
  <2>3. CASE x \notin dismissed[token]
    <3>1. token = u /\ x = e
      BY <1>2, <1>3, <1>5, <1>9, <2>1, <2>3
    <3>2. Hiding(calls'[i], x, token)
      BY <1>1, <1>2, <3>1 DEF Hiding, Call, u, e
    <3> QED
      BY <1>2, <3>2
  <2> QED
    BY <2>2, <2>3
<1> QED
  BY <1>6, <1>7, <1>8, <1>9 DEF DismissedInv

\* The gateway's answers keep the account of what was dismissed.
LEMMA DismissedAnswers ==
  ASSUME Basis, DismissedInv, NEW i \in DOMAIN calls, Answer(i)
  PROVE  DismissedInv'
<1> USE DEF auth, feed, history
<1>1. calls[i] \in Call /\ calls \in Seq(Call) /\ calls[i].user \in Users /\ TypeOK
      /\ calls[i].cursor \in Nat
  BY CallIs DEF Basis, Typed
<1>2. CASE AnswerPage(i)
  <2> DEFINE c == calls[i]
             d == calls'[i]
             all == Listing(c.user, c.filters)
             last == Min({c.cursor + PageSize, Len(all)})
  <2>1. /\ c.op = "page" /\ d.op = "page" /\ d.at = "done" /\ d.user = c.user
        /\ d.items = SubSeq(all, c.cursor + 1, last)
        /\ DOMAIN calls' = DOMAIN calls
        /\ \A j \in DOMAIN calls : j # i => calls'[j] = calls[j]
    BY <1>2, AnswerPageSays
  <2>2. UNCHANGED <<dismissed, token, pushes, items, returned>>
    BY <1>2 DEF AnswerPage, tables
  <2>3. all \in Seq(Events) /\ \A e \in Range(all) : e \notin dismissed[c.user]
    BY <1>1, ListingIs
  <2> HIDE DEF all
  <2>4. last \in Nat /\ last <= Len(all)
    <3>1. c.cursor + PageSize \in Int /\ Len(all) \in Int /\ Len(all) \in Nat
          /\ c.cursor + PageSize \in Nat
      BY <1>1, <2>3, Constants
    <3> HIDE DEF c
    <3> QED
      BY <3>1, MinIs
  <2> HIDE DEF last
  <2>5. Range(d.items) \subseteq Range(all)
    <3>1. c.cursor + 1 \in Nat \ {0}
      BY <1>1
    <3> QED
      BY <2>1, <2>3, <2>4, <3>1, PartOf
  <2>6. ReadBefore(calls[i])'
    BY <2>1, <2>2, <2>3, <2>5 DEF ReadBefore
  <2> QED
    BY <2>1, <2>2, <2>6, DismissedAnswer DEF Hiding
<1>3. CASE AnswerLoad(i)
  <2>1. /\ calls[i].op = "load" /\ calls'[i].op = "load" /\ DOMAIN calls' = DOMAIN calls
        /\ \A j \in DOMAIN calls : j # i => calls'[j] = calls[j]
        /\ UNCHANGED <<dismissed, token, pushes, items, returned>>
    BY <1>1, <1>3 DEF AnswerLoad, Call, tables
  <2> QED
    BY <2>1, DismissedAnswer DEF Hiding, ReadBefore
<1>4. ASSUME NEW ranking \in Rankings, AnswerToggle(i, ranking) PROVE DismissedInv'
  <2>1. /\ calls[i].op = "toggle" /\ calls'[i].op = "toggle" /\ DOMAIN calls' = DOMAIN calls
        /\ \A j \in DOMAIN calls : j # i => calls'[j] = calls[j]
        /\ UNCHANGED <<dismissed, token, pushes, items, returned>>
    BY <1>1, <1>4 DEF AnswerToggle, Call
  <2> QED
    BY <2>1, DismissedAnswer DEF Hiding, ReadBefore
<1>5. ASSUME NEW how \in {"failed", "refused"}, Fail(i, how) PROVE DismissedInv'
  <2>1. calls' = [calls EXCEPT ![i].at = how]
        /\ UNCHANGED <<dismissed, token, pushes, items, returned>>
    BY <1>5 DEF Fail, tables
  <2> DEFINE c == calls[i]
             d == calls'[i]
  <2>2. /\ DOMAIN calls' = DOMAIN calls /\ d = [c EXCEPT !.at = how]
        /\ \A j \in DOMAIN calls : j # i => calls'[j] = calls[j]
    BY <1>1, <2>1
  <2>3. ReadBefore(c)
    BY DEF DismissedInv
  <2>4. d.op = c.op /\ d.at # "done" /\ d.what = c.what /\ d.user = c.user /\ d.did = c.did
    BY <1>1, <2>2 DEF Call
  <2>5. ReadBefore(calls[i])'
    BY <2>1, <2>3, <2>4 DEF ReadBefore
  <2> QED
    BY <2>1, <2>2, <2>4, <2>5, DismissedAnswer DEF Hiding
<1> QED
  BY <1>2, <1>3, <1>4, <1>5, DismissedHides DEF Answer

\* A pushed match that is dismissed before it arrives is known to be older.
LEMMA DismissedList ==
  ASSUME Basis, DismissedInv,
         \/ \E u \in Users, ranking \in Rankings : ListingChange(u, ranking)
         \/ \E e \in Events : PushMatch(e)
         \/ MatchReceived
  PROVE  DismissedInv'
<1> USE DEF tables, auth, feed, history
<1>1. calls' = calls /\ dismissed' = dismissed /\ token' = token
  BY DEF ListingChange, PushMatch, MatchReceived
<1>2. \A k \in DOMAIN calls' : ReadBefore(calls[k])'
  BY <1>1 DEF DismissedInv, ReadBefore
<1>3. TypeOK /\ Len(pushes) \in Nat /\ pushes \in Seq([what : Events, older : SUBSET Events])
      /\ items \in Seq(Events)
  BY DEF Basis, Typed, TypeOK
<1>4. ASSUME NEW u \in Users, NEW ranking \in Rankings, ListingChange(u, ranking)
      PROVE  DismissedInv'
  BY <1>1, <1>2, <1>4 DEF ListingChange, DismissedInv
<1>5. ASSUME NEW e \in Events, PushMatch(e)
      PROVE  DismissedInv'
  <2> DEFINE p == [what |-> e, older |-> {}]
             n == Len(pushes)
  <2>1. token \in Users /\ e \in Range(Listing(token, Events)) /\ pushes' = Append(pushes, p)
        /\ UNCHANGED <<items, returned>>
    BY <1>3, <1>5 DEF PushMatch, TypeOK
  <2>2. e \notin dismissed[token]
    BY <1>3, <2>1, ListingIs
  <2>3. p \in [what : Events, older : SUBSET Events] /\ p.what = e
    OBVIOUS
  <2> HIDE DEF p
  <2>4. /\ DOMAIN pushes = 1..n /\ DOMAIN pushes' = 1..(n + 1) /\ pushes'[n + 1] = p
        /\ \A k \in 1..n : pushes'[k] = pushes[k]
    BY <1>3, <2>1, <2>3
  <2>5. \A k \in 1..(n + 1) : k \in 1..n \/ k = n + 1
    BY <1>3
  <2>6. \A k \in DOMAIN pushes' :
          pushes'[k].what \in dismissed[token] => pushes'[k].what \in pushes'[k].older
    BY <2>2, <2>3, <2>4, <2>5 DEF DismissedInv
  <2>7. token # NoUser
    BY <2>1, Constants
  <2> QED
    BY <1>1, <1>2, <2>1, <2>6, <2>7 DEF DismissedInv
<1>6. ASSUME MatchReceived
      PROVE  DismissedInv'
  <2> DEFINE p == Head(pushes)
             n == Len(pushes)
             P == [what : Events, older : SUBSET Events]
  <2>1. pushes # <<>> /\ pushes' = Tail(pushes)
        /\ items' = (IF p.what \in Range(items) THEN items ELSE <<p.what>> \o items)
        /\ returned' = returned \cup (IF p.what \in Range(items) THEN {} ELSE {p.what} \cap p.older)
    BY <1>6 DEF MatchReceived
  <2>2. n \in Nat /\ n # 0 /\ DOMAIN pushes = 1..n /\ p = pushes[1] /\ p \in P /\ 1 \in 1..n
    <3>0. pushes \in Seq(P)
      BY <1>3
    <3> HIDE DEF P
    <3> QED
      BY <2>1, <3>0
  <2>3. DOMAIN pushes' = 1..(n - 1) /\ \A k \in 1..(n - 1) : pushes'[k] = pushes[k + 1]
        /\ k + 1 \in 1..n
    <3>0. pushes \in Seq(P)
      BY <1>3
    <3> HIDE DEF P
    <3> QED
      BY <2>1, <2>2, <3>0
  <2>4. p.what \in Events
    BY <2>2
  <2>5. token # NoUser /\ (p.what \in dismissed[token] => p.what \in p.older)
    BY <2>1, <2>2 DEF DismissedInv
  <2> HIDE DEF p
  <2>6. \A k \in DOMAIN pushes' :
          pushes'[k].what \in dismissed[token] => pushes'[k].what \in pushes'[k].older
    BY <2>2, <2>3 DEF DismissedInv
  <2>7. Range(items') \subseteq Range(items) \cup {p.what}
    <3> DEFINE one == <<p.what>>
    <3>1. one \in Seq(Events) /\ Range(one) = {p.what}
      BY <2>4 DEF Range
    <3> HIDE DEF one
    <3>2. Range(one \o items) = Range(one) \cup Range(items)
      BY <1>3, <3>1, RangeConcat
    <3>3. items' = items \/ items' = one \o items
      BY <2>1 DEF one
    <3> QED
      BY <3>1, <3>2, <3>3
  <2>8. p.what \in Range(items') \cap dismissed[token] => p.what \in Range(items) \/ p.what \in returned'
    BY <2>1, <2>5
  <2>9. ASSUME NEW e \in Range(items') \cap dismissed[token]
        PROVE  e \in returned' \/ \E k \in DOMAIN calls' : Hiding(calls'[k], e, token)
    <3>1. e \in Range(items) \/ e \in returned'
      BY <2>7, <2>8, <2>9
    <3>2. returned \subseteq returned'
      BY <2>1
    <3> QED
      BY <1>1, <2>5, <2>9, <3>1, <3>2 DEF DismissedInv
  <2> QED
    BY <1>1, <1>2, <2>5, <2>6, <2>9 DEF DismissedInv
<1> QED
  BY <1>4, <1>5, <1>6

\* An answer that is applied says what it shows of what was dismissed.
LEMMA DismissedArrive ==
  ASSUME Basis, DismissedInv, NEW i \in DOMAIN calls, Arrive(i)
  PROVE  DismissedInv'
<1> USE DEF auth, tables, feed, history
<1> DEFINE c == calls[i]
           gone == {i}
           age == "same"
<1>1. /\ c \in Call /\ c.items \in Seq(Events) /\ c.older \subseteq Events /\ items \in Seq(Events)
      /\ ReadBefore(c) /\ Own(c, token) /\ Shape(c) /\ i \in gone /\ age # "answered"
      /\ \A j \in DOMAIN calls : j \in gone => j = i
  BY CallIs DEF Basis, Typed, TypeOK, DismissedInv, CallsOK
<1> HIDE DEF gone, age
<1>2. CASE PageFulfilled(i)
  <2>1. PICK new : Moved(gone, age, new)
    BY <1>2, PageFulfilledMoves DEF Basis, gone, age
  <2> DEFINE older == Range(c.items) \cap (IF c.stale THEN Events ELSE c.older)
  <2>2. /\ c.op = "page" /\ c.at = "done"
        /\ UNCHANGED <<dismissed, token, pushes>>
        /\ items' = IF c.on THEN c.items ELSE items \o c.items
        /\ returned' = (IF c.on THEN {} ELSE returned) \cup older
    BY <1>2 DEF PageFulfilled
  <2>3. ASSUME token # NoUser, NEW e \in Range(c.items) \cap dismissed[token] PROVE e \in older
    <3>1. Range(c.items) \subseteq Events
      BY <1>1 DEF Range
    <3>2. CASE c.stale
      BY <3>1, <3>2, <2>3
    <3>3. CASE ~ c.stale
      BY <1>1, <2>2, <2>3, <3>3 DEF Own, ReadBefore
    <3> QED
      BY <3>2, <3>3
  <2> HIDE DEF older
  <2>4. ~ c.on => Range(items') = Range(items) \cup Range(c.items)
    BY <1>1, <2>2, RangeConcat
  <2>5. token' # NoUser =>
          \A e \in Range(items') \cap dismissed[token'] :
            e \in returned' \/ \E j \in DOMAIN calls : j \notin gone /\ Hiding(calls[j], e, token')
    BY <1>1, <2>2, <2>3, <2>4 DEF Hiding, DismissedInv
  <2> QED
    BY <1>1, <2>1, <2>2, <2>5, DismissedFrame
<1>3. CASE DismissFulfilled(i)
  <2> DEFINE new == <<>>
  <2>1. /\ c.op = "dismiss" /\ calls' = RemoveAt(calls, i)
        /\ UNCHANGED <<dismissed, token, pushes>>
        /\ items' = Kept(items, Events \ {c.what})
        /\ returned' = returned \ {c.what}
    BY <1>3 DEF DismissFulfilled
  <2>2. Moved(gone, age, new)
    BY <2>1, EndMoves DEF Basis, Typed, gone, age
  <2> HIDE DEF new
  <2>3. Range(items') = Range(items) \cap (Events \ {c.what})
    BY <1>1, <2>1, KeptRange
  <2>4. token' # NoUser =>
          \A e \in Range(items') \cap dismissed[token'] :
            e \in returned' \/ \E j \in DOMAIN calls : j \notin gone /\ Hiding(calls[j], e, token')
    BY <1>1, <2>1, <2>3 DEF Hiding, DismissedInv
  <2> QED
    BY <1>1, <2>1, <2>2, <2>4, DismissedFrame
<1>4. CASE DismissRejected(i)
  <2> DEFINE new == <<>>
  <2>1. /\ c.op = "dismiss" /\ calls' = RemoveAt(calls, i)
        /\ UNCHANGED <<dismissed, token, pushes, items>>
        /\ returned' = IF c.did THEN returned \cup {c.what} ELSE returned
    BY <1>4 DEF DismissRejected
  <2>2. Moved(gone, age, new)
    BY <2>1, EndMoves DEF Basis, Typed, gone, age
  <2> HIDE DEF new
  <2>3. token' # NoUser =>
          \A e \in Range(items') \cap dismissed[token'] :
            e \in returned' \/ \E j \in DOMAIN calls : j \notin gone /\ Hiding(calls[j], e, token')
    BY <1>1, <2>1 DEF Hiding, DismissedInv
  <2> QED
    BY <1>1, <2>1, <2>2, <2>3, DismissedFrame
<1>5. CASE LoginFulfilled(i) \/ SessionLoaded(i)
  <2>1. PICK p : SignIn(c.user, p, i)
    BY <1>5 DEF LoginFulfilled, SessionLoaded
  <2> DEFINE late == "old"
  <2>2. PICK new : Moved(gone, late, new)
    BY <1>1, <2>1, SignInMoves, CallIs DEF Basis, Typed, gone
  <2>3. /\ items' = items /\ dismissed' = dismissed /\ pushes' = <<>>
        /\ returned' = Range(items) /\ late # "answered"
    BY <1>5, <2>1 DEF LoginFulfilled, SessionLoaded, SignIn
  <2> HIDE DEF late
  <2>4. token' # NoUser =>
          \A e \in Range(items') \cap dismissed[token'] :
            e \in returned' \/ \E j \in DOMAIN calls : j \notin gone /\ Hiding(calls[j], e, token')
    BY <2>3
  <2> QED
    BY <2>2, <2>3, <2>4, DismissedFrame
<1>6. CASE ToggleFulfilled(i)
  <2>1. PICK new : Moved({i}, "same", new)
    BY <1>6, ToggleFulfilledMoves DEF Basis
  <2>2. c.op # "dismiss" /\ UNCHANGED <<dismissed, token, pushes, items, returned>>
    BY <1>6 DEF ToggleFulfilled
  <2> QED
    BY <2>1, <2>2, DismissedEnds
<1>7. CASE UserUpdated(i)
  <2>1. PICK new : Moved({i}, "same", new)
    BY <1>7, UserUpdatedMoves DEF Basis
  <2>2. c.op # "dismiss" /\ UNCHANGED <<dismissed, token, pushes, items, returned>>
    BY <1>7 DEF UserUpdated
  <2> QED
    BY <2>1, <2>2, DismissedEnds
<1>8. CASE \/ PageRejected(i) \/ LoadFulfilled(i) \/ LoadRejected(i)
           \/ ToggleRejected(i) \/ LoginRejected(i) \/ SessionRefused(i) \/ SaveFailed(i)
  <2>1. Moved({i}, "same", <<>>)
    BY <1>8, SmallTyped DEF Basis
  <2>2. c.op # "dismiss" /\ UNCHANGED <<dismissed, token, pushes, items, returned>>
    BY <1>8 DEF PageRejected, LoadFulfilled, LoadRejected,
                ToggleRejected, LoginRejected, SessionRefused, SaveFailed
  <2> QED
    BY <2>1, <2>2, DismissedEnds
<1> QED
  BY <1>2, <1>3, <1>4, <1>5, <1>6, <1>7, <1>8 DEF Arrive

\* A click shows nothing that was dismissed.
LEMMA DismissedClick ==
  ASSUME Basis, DismissedInv, Clicks
  PROVE  DismissedInv'
<1> USE DEF auth, tables, feed, history
<1>1. ASSUME NEW new, Moved({}, "same", new), UNCHANGED <<dismissed, token>>,
             pushes' \in {pushes, <<>>}, items' = <<>> \/ UNCHANGED <<items, returned>>
      PROVE  DismissedInv'
  <2> DEFINE age == "same"
  <2>1. Moved({}, age, new) /\ age # "answered"
    BY <1>1
  <2>2. Range(items') \subseteq Range(items) /\ Range(items') \cap returned \subseteq returned'
    BY <1>1 DEF Range
  <2> HIDE DEF age
  <2> QED
    BY <1>1, <2>1, <2>2, DismissedSame
<1>2. CASE LoadMore
  BY <1>1, <1>2, LoadMoreMoves DEF Basis, LoadMore
<1>3. CASE SaveSettings
  BY <1>1, <1>3, SaveSettingsMoves DEF Basis, SaveSettings
<1>4. CASE SignOut
  <2> DEFINE age == "old"
             new == <<>>
             gone == {}
  <2>1. Moved(gone, age, new) /\ age # "answered"
    BY <1>4, SignOutMoves DEF Basis
  <2>2. token' = NoUser /\ pushes' = <<>> /\ dismissed' = dismissed
    BY <1>4 DEF SignOut
  <2> HIDE DEF age, new, gone
  <2> QED
    BY <2>1, <2>2, DismissedFrame
<1>5. CASE Reload
  <2> DEFINE age == "same"
             new == SessionCalls(stored)
             gone == DOMAIN calls
  <2>1. Moved(gone, age, new) /\ age # "answered"
    BY <1>5, ReloadMoves DEF Basis
  <2>2. token' = NoUser /\ pushes' = <<>> /\ dismissed' = dismissed
    BY <1>5 DEF Reload
  <2> HIDE DEF age, new, gone
  <2> QED
    BY <2>1, <2>2, DismissedFrame
<1>6. ASSUME NEW passing \in Filters, FiltersChanged(passing) PROVE DismissedInv'
  BY <1>1, <1>6, FiltersChangedMoves DEF Basis, FiltersChanged
<1>7. ASSUME NEW e \in Events, DismissEvent(e) PROVE DismissedInv'
  BY <1>1, <1>7, DismissEventMoves DEF Basis, DismissEvent
<1>8. ASSUME NEW a \in Artists, ToggleFollow(a) PROVE DismissedInv'
  BY <1>1, <1>8, ToggleFollowMoves DEF Basis, ToggleFollow
<1>9. ASSUME NEW u \in Users, Login(u) PROVE DismissedInv'
  BY <1>1, <1>9, LoginMoves DEF Basis, Login
<1>10. ASSUME NEW u \in Users, AdoptToken(u) PROVE DismissedInv'
  BY <1>1, <1>10, AdoptTokenMoves DEF Basis, AdoptToken
<1>11. ASSUME NEW v \in Views, Open(v) PROVE DismissedInv'
  BY <1>1, <1>11, OpenMoves DEF Basis, Open
<1> QED
  BY <1>2, <1>3, <1>4, <1>5, <1>6, <1>7, <1>8, <1>9, <1>10, <1>11 DEF Clicks

\* No step shows what was dismissed.
LEMMA DismissedStep ==
  ASSUME Basis, DismissedInv, Next
  PROVE  DismissedInv'
BY DismissedAnswers, DismissedArrive, DismissedClick, DismissedList DEF Next

-------------------------------------------------------------------------------
(* Pages *)

\* A page at the cursor of the list all.
IsPage(c, all) ==
  LET last == Min({c.cursor + PageSize, Len(all)})
  IN c.items = SubSeq(all, c.cursor + 1, last) /\ (c.hasMore <=> last < Len(all))

\* What was answered is a page of the list all, unless the list changed since the version v.
PageOK(c, v, all) ==
  c.op = "page" /\ c.at = "done" => c.version <= v /\ (c.version = v => IsPage(c, all))

\* The shows its, less the fresh ones, are the first n of all.
LinedUp(its, fr, n, all) == Kept(its, Events \ fr) = Kept(SubSeq(all, 1, n), Events \ fr)

\* The shows its, less the fresh ones, are the first pages of all.
InOrder(its, fr, at, more, all) ==
  /\ more = TRUE => at < Len(all)
  /\ LinedUp(its, fr, IF more = TRUE THEN at ELSE Len(all), all)

PagesInv ==
  /\ \A i \in DOMAIN calls :
       PageOK(calls[i], version[calls[i].user], Listing(calls[i].user, calls[i].filters))
  /\ token # NoUser /\ lined # NotLined => lined <= version[token]
  /\ token # NoUser /\ lined = version[token] =>
       InOrder(items, fresh, cursor, hasMore, Listing(token, filters))

\* C is A less one.
Less(C, A, w) == C = A \ {w}

\* One show less on both sides.
LEMMA LinedWithout ==
  ASSUME NEW s \in Seq(Events), NEW t \in Seq(Events), NEW A, NEW C, NEW w, Less(C, A, w),
         Kept(s, A) = Kept(t, A)
  PROVE  Kept(s, C) = Kept(t, C)
<1> DEFINE B == Events \ {w}
<1>1. A \cap B = (A \cap Events) \ {w}
  OBVIOUS
<1> HIDE DEF B
<1>2. Kept(Kept(s, A), B) = Kept(s, A \cap B) /\ Kept(Kept(t, A), B) = Kept(t, A \cap B)
  BY KeptTwice
<1>3. Range(s) \subseteq Events /\ Range(t) \subseteq Events
  BY DEF Range
<1>4. Kept(s, A \cap B) = Kept(s, C)
  <2>1. \A x \in Range(s) : x \in A \cap B <=> x \in C
    BY <1>1, <1>3 DEF Less
  <2> QED
    BY <2>1, KeptAgree
<1>5. Kept(t, A \cap B) = Kept(t, C)
  <2>1. \A x \in Range(t) : x \in A \cap B <=> x \in C
    BY <1>1, <1>3 DEF Less
  <2> QED
    BY <2>1, KeptAgree
<1> QED
  BY <1>2, <1>4, <1>5

\* Every show but those of a set.
But(fr) == Events \ fr

\* A show that is hidden leaves the feed, and the list does not have it.
LEMMA LinedDismissed ==
  ASSUME NEW s \in Seq(Events), NEW t \in Seq(Events), NEW fr, NEW w,
         Kept(s, But(fr)) = Kept(t, But(fr)), w \notin Range(t)
  PROVE  Kept(Kept(s, But({w})), But(fr \ {w})) = Kept(t, But(fr \ {w}))
<1> DEFINE A == But({w})
           B == But(fr \ {w})
           C == But(fr \cup {w})
           D == But(fr)
<1>1. A \cap B = C /\ Less(C, D, w) /\ Kept(s, D) = Kept(t, D)
  BY DEF But, Less
<1>2. \A x \in Range(t) : x \in B <=> x \in C
  BY DEF But
<1> HIDE DEF A, B, C, D
<1>3. Kept(s, C) = Kept(t, C)
  BY <1>1, LinedWithout
<1>4. Kept(Kept(s, A), B) = Kept(s, C)
  BY <1>1, KeptTwice
<1>5. Kept(t, B) = Kept(t, C)
  BY <1>2, KeptAgree
<1>6. Kept(Kept(s, A), B) = Kept(t, B)
  BY <1>3, <1>4, <1>5
<1> QED
  BY <1>6 DEF A, B

\* A show that is pushed is on top and fresh.
LEMMA LinedPushed ==
  ASSUME NEW s \in Seq(Events), NEW t \in Seq(Events), NEW fr, NEW w \in Events,
         Kept(s, But(fr)) = Kept(t, But(fr))
  PROVE  Kept(<<w>> \o s, But(fr \cup {w})) = Kept(t, But(fr \cup {w}))
<1> DEFINE C == But(fr \cup {w})
           D == But(fr)
           one == <<w>>
<1>0. Less(C, D, w) /\ Kept(s, D) = Kept(t, D)
  BY DEF But, Less
<1>2. one \in Seq(Events) /\ Range(one) = {w} /\ w \notin C
  BY DEF Range, But
<1> HIDE DEF C, D, one
<1>1. Kept(s, C) = Kept(t, C)
  BY <1>0, LinedWithout
<1>3. Kept(one, C) \in Seq(Events) /\ Range(Kept(one, C)) = {}
  BY <1>2, KeptRange
<1>4. Kept(one, C) = <<>>
  <2> DEFINE r == Kept(one, C)
  <2>1. r \in Seq(Events) /\ Range(r) = {}
    BY <1>3
  <2> HIDE DEF r
  <2>2. DOMAIN r = {}
    BY <2>1 DEF Range
  <2>3. r = <<>>
    BY <2>1, <2>2
  <2> QED
    BY <2>3 DEF r
<1>5. Kept(one \o s, C) = Kept(one, C) \o Kept(s, C)
  BY SMTT(30), <1>2, KeptConcat
<1>6. Kept(s, C) \in Seq(Events)
  BY KeptRange
<1>7. Kept(one \o s, C) = Kept(t, C)
  BY <1>1, <1>4, <1>5, <1>6
<1> QED
  BY <1>7 DEF C, one

\* A part and the part that follows it.
LEMMA PartsJoin ==
  ASSUME NEW S, NEW s \in Seq(S), NEW a \in Nat, NEW b \in Nat, a <= b, b <= Len(s)
  PROVE  SubSeq(s, 1, a) \o SubSeq(s, a + 1, b) = SubSeq(s, 1, b)
<1> DEFINE p == SubSeq(s, 1, a)
           q == SubSeq(s, a + 1, b)
           r == SubSeq(s, 1, b)
           t == p \o q
<1>0. Len(s) \in Nat
  OBVIOUS
<1>1. p \in Seq(S) /\ Len(p) = a /\ \A k \in 1..a : p[k] = s[k]
  BY <1>0
<1>2. q \in Seq(S) /\ Len(q) = b - a /\ \A k \in 1..(b - a) : q[k] = s[a + k]
  <2>1. CASE a = b
    BY <1>0, <2>1
  <2>2. CASE a < b
    BY <1>0, <2>2
  <2> QED
    BY <2>1, <2>2
<1>3. r \in Seq(S) /\ Len(r) = b /\ \A k \in 1..b : r[k] = s[k]
  BY <1>0
<1> HIDE DEF p, q, r
<1>4. /\ t \in Seq(S) /\ Len(t) = Len(p) + Len(q)
      /\ \A k \in 1..(Len(p) + Len(q)) : t[k] = IF k <= Len(p) THEN p[k] ELSE q[k - Len(p)]
  BY ZenonT(30), <1>1, <1>2, ConcatProperties
<1> HIDE DEF t
<1>5. Len(t) = b
  BY <1>1, <1>2, <1>4
<1>6. ASSUME NEW k \in 1..b PROVE t[k] = r[k]
  <2>1. t[k] = IF k <= a THEN p[k] ELSE q[k - a]
    BY <1>1, <1>2, <1>4
  <2>2. CASE k <= a
    BY <1>1, <1>3, <2>1, <2>2
  <2>3. CASE ~(k <= a)
    <3>1. k - a \in 1..(b - a) /\ a + (k - a) = k
      BY <2>3
    <3> QED
      BY <1>2, <1>3, <2>1, <2>3, <3>1
  <2> QED
    BY <2>2, <2>3
<1>7. t = r
  BY <1>3, <1>4, <1>5, <1>6
<1> QED
  BY <1>7 DEF t, p, q, r

\* The first page.
LEMMA LinedFirst ==
  ASSUME NEW c, c.hasMore \in BOOLEAN, c.cursor = 0, NEW all \in Seq(Events), IsPage(c, all),
         NEW next, next = (IF c.hasMore THEN c.cursor + PageSize ELSE 0)
  PROVE  InOrder(c.items, {}, next, c.hasMore, all)
<1> DEFINE n == Len(all)
           last == Min({c.cursor + PageSize, n})
<1>1. n \in Nat /\ n \in Int /\ PageSize \in Nat /\ 0 + PageSize = PageSize /\ PageSize \in Int
  BY Constants
<1>2. c.items = SubSeq(all, 0 + 1, last) /\ (c.hasMore <=> last < n)
  BY DEF IsPage
<1> HIDE DEF n
<1>3. last = IF PageSize <= n THEN PageSize ELSE n
  BY <1>1, MinIs
<1> HIDE DEF last
<1>4. c.hasMore => next = last /\ next < n
  BY <1>1, <1>2, <1>3
<1>5. ~ c.hasMore => last = n
  BY <1>1, <1>2, <1>3
<1>6. c.items = SubSeq(all, 1, last)
  BY <1>2
<1> QED
  BY <1>4, <1>5, <1>6 DEF LinedUp, InOrder, n

\* A further page.
LEMMA LinedNext ==
  ASSUME NEW c, c.hasMore \in BOOLEAN, NEW at \in Nat, c.cursor = at, NEW all \in Seq(Events), at < Len(all),
         IsPage(c, all), NEW its \in Seq(Events), NEW fr, LinedUp(its, fr, at, all),
         NEW next, next = (IF c.hasMore THEN c.cursor + PageSize ELSE 0)
  PROVE  InOrder(its \o c.items, fr, next, c.hasMore, all)
<1> DEFINE n == Len(all)
           last == Min({at + PageSize, n})
           T == Events \ fr
           p == SubSeq(all, 1, at)
           q == SubSeq(all, at + 1, last)
<1>1. n \in Nat /\ n \in Int /\ at + PageSize \in Nat /\ at + PageSize \in Int /\ at < n
      /\ at <= at + PageSize
  BY Constants
<1>2. c.items = q /\ (c.hasMore <=> last < n)
  BY DEF IsPage
<1> HIDE DEF n
<1>3. last = IF at + PageSize <= n THEN at + PageSize ELSE n
  BY <1>1, MinIs
<1> HIDE DEF last
<1>4. /\ c.hasMore => next = last /\ next < n
      /\ ~ c.hasMore => last = n
      /\ last \in Nat /\ at <= last /\ last <= n
  BY <1>1, <1>2, <1>3
<1>5. p \o q = SubSeq(all, 1, last)
  BY <1>4, PartsJoin DEF n
<1>6. p \in Seq(Events) /\ q \in Seq(Events)
  <2>1. at + 1 \in Nat \ {0} /\ 1 \in Nat \ {0} /\ at <= Len(all) /\ last <= Len(all)
    BY <1>1, <1>4 DEF n
  <2> QED
    BY <1>4, <2>1, PartOf
<1>7. Kept(its, T) = Kept(p, T)
  BY DEF LinedUp
<1> HIDE DEF p, q, T
<1>8. Kept(its \o q, T) = Kept(its, T) \o Kept(q, T)
  BY <1>6, KeptConcat
<1>11. Kept(p \o q, T) = Kept(p, T) \o Kept(q, T)
  BY <1>6, KeptConcat
<1>9. Kept(its \o q, T) = Kept(SubSeq(all, 1, last), T)
  BY <1>5, <1>7, <1>8, <1>11
<1>10. LinedUp(its \o c.items, fr, last, all)
  BY <1>2, <1>9 DEF LinedUp, T
<1> QED
  BY <1>4, <1>10 DEF InOrder, n

\* The invariant when the gateway's list stays as it is and no call is answered.
LEMMA PagesFrame ==
  ASSUME Basis, PagesInv, NEW gone, NEW age, NEW new, Moved(gone, age, new), age # "answered",
         UNCHANGED <<ranked, dismissed, version>>,
         token' # NoUser /\ lined' # NotLined => lined' <= version[token'],
         token' # NoUser /\ lined' = version[token'] =>
           InOrder(items', fresh', cursor', hasMore', Listing(token, filters)')
  PROVE  PagesInv'
<1>1. Moves(calls, calls', gone, age, new)
  BY DEF Moved
<1>2. ASSUME NEW k \in DOMAIN calls'
      PROVE  LET d == calls'[k] IN
             PageOK(d, version[d.user], Kept(ranked[d.user], d.filters \ dismissed[d.user]))
  <2> DEFINE d == calls'[k]
             all == Kept(ranked[d.user], d.filters \ dismissed[d.user])
  <2> SUFFICES ASSUME d.op = "page", d.at = "done"
               PROVE  PageOK(d, version[d.user], all)
    BY DEF PageOK
  <2>1. PICK j \in DOMAIN calls : Heir(calls[j], d, age)
    BY <1>1, CameFrom DEF Moved, Fit, Sent
  <2> DEFINE c == calls[j]
  <2>2. /\ c.op = "page" /\ c.at = "done" /\ c.version = d.version /\ c.user = d.user
        /\ c.filters = d.filters /\ c.cursor = d.cursor /\ c.items = d.items
        /\ c.hasMore = d.hasMore
    BY <2>1 DEF Heir
  <2>3. PageOK(c, version[d.user], all)
    BY <2>2 DEF PagesInv, Listing
  <2> HIDE DEF c, d, all
  <2> QED
    BY <2>2, <2>3 DEF PageOK, IsPage
<1> QED
  BY <1>2 DEF PagesInv, Listing

\* Steps that leave the list, the feed and the session alone.
LEMMA PagesSame ==
  ASSUME Basis, PagesInv, NEW gone, NEW age, NEW new, Moved(gone, age, new), age # "answered",
         UNCHANGED <<ranked, dismissed, version, token, lined, items, fresh, cursor, hasMore,
                     filters>>
  PROVE  PagesInv'
<1>1. token' # NoUser /\ lined' # NotLined => lined' <= version[token']
  BY DEF PagesInv
<1>2. token' # NoUser /\ lined' = version[token'] =>
        InOrder(items', fresh', cursor', hasMore', Listing(token, filters)')
  BY DEF PagesInv, Listing
<1> QED
  BY <1>1, <1>2, PagesFrame

\* Steps after which the feed belongs to no list.
LEMMA PagesGone ==
  ASSUME Basis, PagesInv, NEW gone, NEW age, NEW new, Moved(gone, age, new), age # "answered",
         UNCHANGED <<ranked, dismissed, version>>, TypeOK',
         token' = NoUser \/ lined' = NotLined
  PROVE  PagesInv'
<1>1. token' # NoUser => lined' = NotLined /\ version[token'] \in Nat
  BY DEF Basis, Typed, TypeOK
<1>2. token' # NoUser => lined' # version[token']
  BY <1>1 DEF NotLined
<1> QED
  BY <1>1, <1>2, PagesFrame

\* The list of u changes: nothing that was read before is of it.
LEMMA PagesChange ==
  ASSUME Basis, PagesInv, NEW u \in Users, version' = [version EXCEPT ![u] = @ + 1],
         \A v \in Users : v # u => ranked'[v] = ranked[v] /\ dismissed'[v] = dismissed[v],
         UNCHANGED <<token, lined, items, fresh, cursor, hasMore, filters>>,
         DOMAIN calls' = DOMAIN calls,
         \A k \in DOMAIN calls : calls'[k].op = "page" /\ calls'[k].at = "done" =>
           /\ Heir(calls[k], calls'[k], "answered") /\ calls[k].at = "done"
           /\ calls'[k].items = calls[k].items /\ calls'[k].hasMore = calls[k].hasMore
           /\ calls'[k].version = calls[k].version
  PROVE  PagesInv'
<1>1. version \in [Users -> Nat] /\ token \in Users \cup {NoUser} /\ lined \in Nat \cup {NotLined}
      /\ TypeOK
  BY DEF Basis, Typed, TypeOK
<1>2. version'[u] = version[u] + 1 /\ \A v \in Users : v # u => version'[v] = version[v]
  BY <1>1
<1>3. \A v \in Users : version[v] \in Nat
  BY <1>1
<1>4. ASSUME NEW k \in DOMAIN calls'
      PROVE  LET d == calls'[k] IN
             PageOK(d, version'[d.user], Kept(ranked'[d.user], d.filters \ dismissed'[d.user]))
  <2> DEFINE c == calls[k]
             d == calls'[k]
             all == Kept(ranked'[d.user], d.filters \ dismissed'[d.user])
  <2> SUFFICES ASSUME d.op = "page", d.at = "done"
               PROVE  PageOK(d, version'[d.user], all)
    BY DEF PageOK
  <2>1. /\ c.op = "page" /\ c.at = "done" /\ c.version = d.version /\ c.user = d.user
        /\ c.filters = d.filters /\ c.cursor = d.cursor /\ c.items = d.items
        /\ c.hasMore = d.hasMore /\ c.user \in Users /\ c.version \in Nat
    BY <1>1, CallIs DEF Heir
  <2>2. PageOK(c, version[c.user], Listing(c.user, c.filters))
    BY DEF PagesInv
  <2>3. CASE c.user = u
    <3>1. c.version <= version[u]
      BY <2>1, <2>2, <2>3 DEF PageOK
    <3> HIDE DEF c, d, all
    <3>2. d.version <= version'[u] /\ d.version # version'[u]
      BY <1>2, <1>3, <2>1, <3>1
    <3> QED
      BY <2>1, <2>3, <3>2 DEF PageOK
  <2>4. CASE c.user # u
    <3>1. version'[d.user] = version[c.user] /\ Listing(c.user, c.filters) = all
      BY <1>2, <2>1, <2>4 DEF Listing
    <3> HIDE DEF c, d, all
    <3> QED
      BY <2>1, <2>2, <3>1 DEF PageOK, IsPage
  <2> QED
    BY <2>3, <2>4
<1>5. token' # NoUser /\ lined' # NotLined => lined' <= version'[token']
  <2> SUFFICES ASSUME token # NoUser, lined # NotLined PROVE lined <= version'[token]
    OBVIOUS
  <2>1. lined \in Nat /\ version[token] \in Nat /\ lined <= version[token]
    BY <1>1, <1>3 DEF PagesInv
  <2>2. version'[token] = version[token] \/ version'[token] = version[token] + 1
    BY <1>1, <1>2
  <2> QED
    BY <2>1, <2>2
<1>6. token' # NoUser /\ lined' = version'[token'] =>
        InOrder(items', fresh', cursor', hasMore', Listing(token, filters)')
  <2> SUFFICES ASSUME token # NoUser, lined = version'[token]
               PROVE  InOrder(items, fresh, cursor, hasMore,
                              Kept(ranked'[token], filters \ dismissed'[token]))
    BY DEF Listing
  <2>1. token # u
    <3> SUFFICES ASSUME token = u PROVE FALSE
      OBVIOUS
    <3>1. lined = version[u] + 1 /\ version[u] \in Nat
      BY <1>2, <1>3
    <3>2. lined <= version[u]
      BY <3>1 DEF PagesInv, NotLined
    <3> QED
      BY <3>1, <3>2
  <2> QED
    BY <1>1, <1>2, <2>1 DEF PagesInv, Listing
<1> QED
  BY <1>4, <1>5, <1>6 DEF PagesInv, Listing

\* An answer is of the list as it is; what changes the list outdates what was read.
LEMMA PagesAnswers ==
  ASSUME Basis, PagesInv, NEW i \in DOMAIN calls, Answer(i)
  PROVE  PagesInv'
<1> USE DEF auth, feed, history, tables
<1>1. calls[i] \in Call /\ calls \in Seq(Call) /\ calls[i].user \in Users /\ TypeOK
      /\ \A k \in DOMAIN calls : calls[k] \in Call
  BY CallIs DEF Basis, Typed
<1>2. CASE AnswerPage(i)
  <2> DEFINE c == calls[i]
             d == calls'[i]
             all == Listing(c.user, c.filters)
             last == Min({c.cursor + PageSize, Len(all)})
  <2>1. /\ d.op = "page" /\ d.user = c.user /\ d.filters = c.filters /\ d.cursor = c.cursor
        /\ d.items = SubSeq(all, c.cursor + 1, last)
        /\ d.hasMore <=> last < Len(all)
        /\ d.version = version[c.user]
        /\ DOMAIN calls' = DOMAIN calls
        /\ \A j \in DOMAIN calls : j # i => calls'[j] = calls[j]
    BY <1>2, AnswerPageSays
  <2>2. UNCHANGED <<ranked, dismissed, version, token, lined, items, fresh, cursor, hasMore,
                    filters>>
    BY <1>2 DEF AnswerPage
  <2>3. IsPage(d, all)
    BY <2>1 DEF IsPage
  <2>4. version[c.user] \in Nat
    BY <1>1 DEF TypeOK
  <2>5. PageOK(d, version[d.user], all)
    BY <2>1, <2>3, <2>4 DEF PageOK
  <2>6. all = Kept(ranked[d.user], d.filters \ dismissed[d.user])
    BY <2>1 DEF Listing
  <2>7. ASSUME NEW k \in DOMAIN calls'
        PROVE  LET e == calls'[k] IN
               PageOK(e, version[e.user], Kept(ranked[e.user], e.filters \ dismissed[e.user]))
    <3>1. CASE k = i
      BY <2>5, <2>6, <3>1
    <3>2. CASE k # i
      BY <2>1, <3>2 DEF PagesInv, Listing
    <3> QED
      BY <3>1, <3>2
  <2> QED
    BY <2>2, <2>7 DEF PagesInv, Listing
<1>3. ASSUME DOMAIN calls' = DOMAIN calls, \A j \in DOMAIN calls : j # i => calls'[j] = calls[j],
             calls'[i].op # "page" \/ calls'[i].at # "done",
             UNCHANGED <<ranked, dismissed, version, token, lined, items, fresh, cursor, hasMore,
                         filters>>
      PROVE  PagesInv'
  <2>1. ASSUME NEW k \in DOMAIN calls'
        PROVE  LET e == calls'[k] IN
               PageOK(e, version[e.user], Kept(ranked[e.user], e.filters \ dismissed[e.user]))
    <3>1. CASE k = i
      BY <1>3, <3>1 DEF PageOK
    <3>2. CASE k # i
      BY <1>3, <3>2 DEF PagesInv, Listing
    <3> QED
      BY <3>1, <3>2
  <2> QED
    BY <1>3, <2>1 DEF PagesInv, Listing
<1>4. CASE AnswerLoad(i)
  <2>1. /\ calls'[i].op = "load" /\ DOMAIN calls' = DOMAIN calls
        /\ \A j \in DOMAIN calls : j # i => calls'[j] = calls[j]
    BY <1>1, <1>4 DEF AnswerLoad, Call
  <2> QED
    BY <1>3, <1>4, <2>1 DEF AnswerLoad
<1>5. ASSUME NEW ranking \in Rankings, AnswerToggle(i, ranking) PROVE PagesInv'
  <2> DEFINE u == calls[i].user
  <2>1. /\ calls'[i].op = "toggle" /\ DOMAIN calls' = DOMAIN calls
        /\ \A j \in DOMAIN calls : j # i => calls'[j] = calls[j]
    BY <1>1, <1>5 DEF AnswerToggle, Call
  <2>2. /\ version' = [version EXCEPT ![u] = @ + 1]
        /\ ranked' = [ranked EXCEPT ![u] = ranking] /\ dismissed' = dismissed
        /\ UNCHANGED <<token, lined, items, fresh, cursor, hasMore, filters>>
    BY <1>5 DEF AnswerToggle
  <2>3. \A v \in Users : v # u => ranked'[v] = ranked[v] /\ dismissed'[v] = dismissed[v]
    BY <1>1, <2>2 DEF TypeOK
  <2>4. \A k \in DOMAIN calls : calls'[k].op = "page" /\ calls'[k].at = "done" =>
           /\ Heir(calls[k], calls'[k], "answered") /\ calls[k].at = "done"
           /\ calls'[k].items = calls[k].items /\ calls'[k].hasMore = calls[k].hasMore
           /\ calls'[k].version = calls[k].version
    BY <2>1 DEF Heir
  <2> QED
    BY <1>1, <2>1, <2>2, <2>3, <2>4, PagesChange
<1>6. CASE AnswerDismiss(i)
  <2> DEFINE u == calls[i].user
             e == calls[i].what
  <2>1. /\ version' = [version EXCEPT ![u] = @ + 1]
        /\ dismissed' = [dismissed EXCEPT ![u] = @ \cup {e}] /\ ranked' = ranked
        /\ UNCHANGED <<token, lined, items, fresh, cursor, hasMore, filters>>
        /\ DOMAIN calls' = DOMAIN calls
        /\ calls'[i] = [calls[i] EXCEPT !.at = "done", !.did = TRUE]
        /\ calls[i].op = "dismiss"
        /\ \A j \in DOMAIN calls : j # i =>
             calls'[j] = IF calls[j].op = "page" /\ calls[j].at = "done"
                         THEN [calls[j] EXCEPT !.older = @ \cup {e}] ELSE calls[j]
    BY <1>6 DEF AnswerDismiss
  <2>2. \A v \in Users : v # u => ranked'[v] = ranked[v] /\ dismissed'[v] = dismissed[v]
    BY <1>1, <2>1 DEF TypeOK
  <2>3. calls'[i].op = "dismiss"
    BY <1>1, <2>1 DEF Call
  <2> HIDE DEF e
  <2>4. ASSUME NEW k \in DOMAIN calls, calls'[k].op = "page", calls'[k].at = "done"
        PROVE  /\ Heir(calls[k], calls'[k], "answered") /\ calls[k].at = "done"
               /\ calls'[k].items = calls[k].items /\ calls'[k].hasMore = calls[k].hasMore
               /\ calls'[k].version = calls[k].version
    <3> DEFINE c == calls[k]
               d == calls'[k]
    <3>1. c \in Call /\ d = IF c.op = "page" /\ c.at = "done"
                            THEN [c EXCEPT !.older = @ \cup {e}] ELSE c
      BY <1>1, <2>1, <2>3, <2>4
    <3>2. d.op = "page" /\ d.at = "done"
      BY <2>4
    <3> HIDE DEF c, d
    <3>3. CASE c.op = "page" /\ c.at = "done"
      <4>1. d = [c EXCEPT !.older = @ \cup {e}]
        BY <3>1, <3>3
      <4>2. /\ d.op = c.op /\ d.user = c.user /\ d.what = c.what /\ d.on = c.on
            /\ d.cursor = c.cursor /\ d.filters = c.filters /\ d.left = c.left
            /\ d.raced = c.raced /\ d.stale = c.stale /\ d.items = c.items
            /\ d.hasMore = c.hasMore /\ d.version = c.version
        BY <3>1, <4>1 DEF Call
      <4> QED
        BY <3>3, <4>2 DEF Heir, c, d
    <3>4. CASE ~(c.op = "page" /\ c.at = "done")
      BY <3>1, <3>2, <3>4
    <3> QED
      BY <3>3, <3>4
  <2> HIDE DEF u
  <2>5. u \in Users
    BY <1>1 DEF u
  <2> QED
    BY <2>1, <2>2, <2>4, <2>5, PagesChange
<1>7. ASSUME NEW how \in {"failed", "refused"}, Fail(i, how) PROVE PagesInv'
  <2>1. /\ calls'[i].at = how /\ how # "done" /\ DOMAIN calls' = DOMAIN calls
        /\ \A j \in DOMAIN calls : j # i => calls'[j] = calls[j]
    BY <1>1, <1>7 DEF Fail, Call
  <2> QED
    BY <1>3, <1>7, <2>1 DEF Fail
<1> QED
  BY <1>2, <1>4, <1>5, <1>6, <1>7 DEF Answer

\* The list that is shown, and its part up to the cursor.
LEMMA PartShown ==
  ASSUME Basis, PagesInv, token # NoUser, lined = version[token]
  PROVE  LET all == Listing(token, filters)
             part == SubSeq(all, 1, IF hasMore = TRUE THEN cursor ELSE Len(all))
         IN /\ part \in Seq(Events) /\ Kept(items, Events \ fresh) = Kept(part, Events \ fresh)
            /\ \A e \in dismissed[token] : e \notin Range(part)
<1> DEFINE all == Listing(token, filters)
           n == IF hasMore = TRUE THEN cursor ELSE Len(all)
           part == SubSeq(all, 1, n)
<1>1. token \in Users /\ cursor \in Nat /\ hasMore \in BOOLEAN /\ TypeOK
  BY DEF Basis, Typed, TypeOK
<1>2. InOrder(items, fresh, cursor, hasMore, all)
  BY DEF PagesInv
<1>3. all \in Seq(Events) /\ \A e \in Range(all) : e \notin dismissed[token]
  BY <1>1, ListingIs
<1> HIDE DEF all
<1>4. n \in Nat /\ n <= Len(all)
  <2>1. Len(all) \in Nat
    BY <1>3
  <2> QED
    BY <1>1, <1>2, <2>1 DEF InOrder
<1>5. Kept(items, Events \ fresh) = Kept(part, Events \ fresh)
  BY <1>2 DEF InOrder, LinedUp
<1> HIDE DEF n
<1>6. part \in Seq(Events) /\ Range(part) \subseteq Range(all)
  <2> DEFINE one == 1
  <2>1. one \in Nat \ {0}
    OBVIOUS
  <2> HIDE DEF one
  <2>2. SubSeq(all, one, n) \in Seq(Events) /\ Range(SubSeq(all, one, n)) \subseteq Range(all)
    BY <1>3, <1>4, <2>1, PartOf
  <2> QED
    BY <2>2 DEF one
<1> QED
  BY <1>3, <1>5, <1>6 DEF n, all

\* A page that continues the list, a show that leaves it.
LEMMA PagesArrive ==
  ASSUME Basis, Basis', PagesInv, DismissedInv, NEW i \in DOMAIN calls, Arrive(i)
  PROVE  PagesInv'
<1> USE DEF auth, tables, feed, history
<1> DEFINE c == calls[i]
           gone == {i}
           age == "same"
<1>1. /\ c \in Call /\ c.items \in Seq(Events) /\ c.hasMore \in BOOLEAN /\ c.cursor \in Nat
      /\ c.on \in BOOLEAN /\ c.version \in Nat /\ c.user \in Users /\ items \in Seq(Events)
      /\ cursor \in Nat /\ hasMore \in BOOLEAN /\ filters \in Filters /\ token \in Users \cup {NoUser}
      /\ TypeOK /\ TypeOK' /\ CursorOK /\ age # "answered"
      /\ ReadBefore(c) /\ Own(c, token) /\ Shape(c) /\ Done(c)
      /\ PageOK(c, version[c.user], Listing(c.user, c.filters))
  BY CallIs DEF Basis, Typed, TypeOK, DismissedInv, CallsOK, PagesInv
<1> HIDE DEF gone, age
<1>2. CASE PageFulfilled(i)
  <2>1. PICK new : Moved(gone, age, new)
    BY <1>2, PageFulfilledMoves DEF Basis, gone, age
  <2> DEFINE next == IF c.hasMore THEN c.cursor + PageSize ELSE 0
  <2>2. /\ c.op = "page" /\ c.at = "done"
        /\ UNCHANGED <<ranked, dismissed, version, token, filters>>
        /\ items' = IF c.on THEN c.items ELSE items \o c.items
        /\ cursor' = next /\ hasMore' = c.hasMore
        /\ fresh' = IF c.on THEN {} ELSE fresh
        /\ lined' = IF Fits(c) THEN c.version ELSE NotLined
    BY <1>2 DEF PageFulfilled
  <2>3. CASE ~ Fits(c)
    BY <1>1, <2>1, <2>2, <2>3, PagesGone
  <2>4. CASE token = NoUser
    BY <1>1, <2>1, <2>2, <2>4, PagesGone
  <2>5. CASE Fits(c) /\ token # NoUser
    <3> DEFINE all == Listing(token, filters)
    <3>1. /\ ~ c.stale /\ c.filters = filters /\ c.user = token /\ token \in Users
          /\ c.on \/ (c.cursor = cursor /\ c.version = lined)
      BY <1>1, <2>2, <2>5 DEF Fits, Own
    <3>2. lined' = c.version /\ c.version <= version[token]
      BY <1>1, <2>2, <2>5, <3>1 DEF PageOK
    <3>3. c.version = version[token] => IsPage(c, all)
      BY <1>1, <2>2, <3>1 DEF PageOK
    <3>4. all \in Seq(Events) /\ Listing(token, filters)' = all
      BY <1>1, <2>2, <3>1, ListingIs DEF Listing
    <3> HIDE DEF c, next, all
    <3>5. ASSUME c.version = version[token]
          PROVE  InOrder(items', fresh', cursor', hasMore', all)
      <4>1. IsPage(c, all) /\ next = IF c.hasMore THEN c.cursor + PageSize ELSE 0
        BY <3>3, <3>5 DEF next
      <4>2. CASE c.on
        <5>1. c.cursor = 0 /\ items' = c.items /\ fresh' = {}
          BY <1>1, <2>2, <4>2 DEF Shape
        <5>2. InOrder(c.items, {}, next, c.hasMore, all)
          BY <1>1, <3>4, <4>1, <5>1, LinedFirst
        <5> QED
          BY <2>2, <5>1, <5>2
      <4>3. CASE ~ c.on
        <5>1. c.cursor = cursor /\ cursor > 0 /\ c.version = lined /\ items' = items \o c.items
              /\ fresh' = fresh
          BY <1>1, <2>2, <3>1, <4>3 DEF Shape
        <5>2. hasMore = TRUE
          BY <1>1, <5>1 DEF CursorOK
        <5>3. InOrder(items, fresh, cursor, hasMore, all)
          BY <2>5, <3>5, <5>1 DEF PagesInv, all
        <5>4. cursor < Len(all) /\ LinedUp(items, fresh, cursor, all)
          BY <5>2, <5>3 DEF InOrder
        <5>5. InOrder(items \o c.items, fresh, next, c.hasMore, all)
          BY <1>1, <3>4, <4>1, <5>1, <5>4, LinedNext
        <5> QED
          BY <2>2, <5>1, <5>5
      <4> QED
        BY <4>2, <4>3
    <3> QED
      BY <1>1, <2>1, <2>2, <3>2, <3>4, <3>5, PagesFrame
  <2> QED
    BY <2>3, <2>4, <2>5
<1>3. CASE DismissFulfilled(i)
  <2> DEFINE new == <<>>
             w == c.what
  <2>1. /\ c.op = "dismiss" /\ c.at = "done" /\ calls' = RemoveAt(calls, i)
        /\ UNCHANGED <<ranked, dismissed, version, token, filters, cursor, hasMore>>
        /\ items' = Kept(items, Events \ {w}) /\ fresh' = fresh \ {w}
        /\ lined' = IF c.stale THEN NotLined ELSE lined
    BY <1>3 DEF DismissFulfilled
  <2>2. Moved(gone, age, new)
    BY <2>1, EndMoves DEF Basis, Typed, gone, age
  <2> HIDE DEF new
  <2>3. CASE c.stale \/ token = NoUser
    BY <1>1, <2>1, <2>2, <2>3, PagesGone
  <2>4. CASE ~ c.stale /\ token # NoUser
    <3>1. w \in dismissed[token]
      BY <1>1, <2>1, <2>4 DEF Own, Done, ReadBefore
    <3>2. lined' # NotLined => lined' <= version[token']
      BY <2>1, <2>4 DEF PagesInv
    <3>3. ASSUME lined = version[token]
          PROVE  InOrder(items', fresh', cursor', hasMore', Listing(token, filters)')
      <4> DEFINE all == Listing(token, filters)
                 n == IF hasMore = TRUE THEN cursor ELSE Len(all)
                 part == SubSeq(all, 1, n)
      <4>1. /\ part \in Seq(Events) /\ Kept(items, Events \ fresh) = Kept(part, Events \ fresh)
            /\ w \notin Range(part)
        BY <2>4, <3>1, <3>3, PartShown
      <4>2. hasMore = TRUE => cursor < Len(all)
        BY <2>4, <3>3 DEF PagesInv, InOrder
      <4>3. Listing(token, filters)' = all
        BY <2>1 DEF Listing
      <4> HIDE DEF part, w
      <4>4. Kept(Kept(items, Events \ {w}), Events \ (fresh \ {w})) = Kept(part, Events \ (fresh \ {w}))
        <5>1. Kept(items, But(fresh)) = Kept(part, But(fresh))
          BY <4>1 DEF But
        <5>2. Kept(Kept(items, But({w})), But(fresh \ {w})) = Kept(part, But(fresh \ {w}))
          BY <1>1, <4>1, <5>1, LinedDismissed
        <5> QED
          BY <5>2 DEF But
      <4> QED
        BY <2>1, <4>2, <4>3, <4>4 DEF InOrder, LinedUp, part
    <3> QED
      BY <2>1, <2>2, <2>4, <3>2, <3>3, <1>1, PagesFrame
  <2> QED
    BY <2>3, <2>4
<1>4. CASE LoginFulfilled(i) \/ SessionLoaded(i)
  <2>1. PICK p : SignIn(c.user, p, i)
    BY <1>4 DEF LoginFulfilled, SessionLoaded
  <2> DEFINE late == "old"
  <2>2. PICK new : Moved(gone, late, new)
    BY <1>1, <2>1, SignInMoves DEF Basis, gone
  <2>3. lined' = NotLined /\ UNCHANGED <<ranked, dismissed, version>> /\ late # "answered"
    BY <1>4, <2>1 DEF LoginFulfilled, SessionLoaded, SignIn
  <2> HIDE DEF late
  <2> QED
    BY <1>1, <2>2, <2>3, PagesGone
<1>5. CASE ToggleFulfilled(i)
  <2>1. PICK new : Moved(gone, age, new)
    BY <1>5, ToggleFulfilledMoves DEF Basis, gone, age
  <2> QED
    BY <1>1, <1>5, <2>1, PagesSame DEF ToggleFulfilled
<1>6. CASE UserUpdated(i)
  <2>1. PICK new : Moved(gone, age, new)
    BY <1>6, UserUpdatedMoves DEF Basis, gone, age
  <2> QED
    BY <1>1, <1>6, <2>1, PagesSame DEF UserUpdated
<1>7. CASE \/ PageRejected(i) \/ DismissRejected(i) \/ LoadFulfilled(i) \/ LoadRejected(i)
           \/ ToggleRejected(i) \/ LoginRejected(i) \/ SessionRefused(i) \/ SaveFailed(i)
  <2> DEFINE new == <<>>
  <2>1. Moved(gone, age, new)
    BY <1>7, SmallTyped DEF Basis, gone, age
  <2>2. UNCHANGED <<ranked, dismissed, version, token, lined, items, fresh, cursor, hasMore,
                    filters>>
    BY <1>7 DEF PageRejected, DismissRejected, LoadFulfilled, LoadRejected,
                ToggleRejected, LoginRejected, SessionRefused, SaveFailed
  <2> HIDE DEF new
  <2> QED
    BY <1>1, <2>1, <2>2, PagesSame
<1> QED
  BY <1>2, <1>3, <1>4, <1>5, <1>6, <1>7 DEF Arrive

\* The list changes; a show that is pushed is on top of the pages, and fresh.
LEMMA PagesList ==
  ASSUME Basis, PagesInv, DismissedInv,
         \/ \E u \in Users, ranking \in Rankings : ListingChange(u, ranking)
         \/ \E e \in Events : PushMatch(e)
         \/ MatchReceived
  PROVE  PagesInv'
<1> USE DEF tables, auth, feed, history
<1> DEFINE gone == {}
           age == "same"
           new == <<>>
<1>1. Moved(gone, age, new) /\ age # "answered"
  BY BasisList
<1>2. calls' = calls /\ TypeOK /\ items \in Seq(Events)
      /\ pushes \in Seq([what : Events, older : SUBSET Events])
  <2>1. calls' = calls
    BY DEF ListingChange, PushMatch, MatchReceived
  <2> QED
    BY <2>1 DEF Basis, Typed, TypeOK
<1> HIDE DEF gone, age, new
<1>3. ASSUME NEW u \in Users, NEW ranking \in Rankings, ListingChange(u, ranking)
      PROVE  PagesInv'
  <2>1. /\ version' = [version EXCEPT ![u] = @ + 1]
        /\ ranked' = [ranked EXCEPT ![u] = ranking] /\ dismissed' = dismissed
        /\ UNCHANGED <<token, lined, items, fresh, cursor, hasMore, filters>>
    BY <1>3 DEF ListingChange
  <2>2. \A v \in Users : v # u => ranked'[v] = ranked[v] /\ dismissed'[v] = dismissed[v]
    BY <1>2, <2>1 DEF TypeOK
  <2>3. \A k \in DOMAIN calls : calls'[k].op = "page" /\ calls'[k].at = "done" =>
           /\ Heir(calls[k], calls'[k], "answered") /\ calls[k].at = "done"
           /\ calls'[k].items = calls[k].items /\ calls'[k].hasMore = calls[k].hasMore
           /\ calls'[k].version = calls[k].version
    BY <1>2 DEF Heir
  <2> QED
    BY <1>2, <2>1, <2>2, <2>3, PagesChange
<1>4. ASSUME NEW e \in Events, PushMatch(e)
      PROVE  PagesInv'
  BY <1>1, <1>4, PagesSame DEF PushMatch
<1>5. ASSUME MatchReceived
      PROVE  PagesInv'
  <2> DEFINE w == Head(pushes).what
             P == [what : Events, older : SUBSET Events]
  <2>1. /\ pushes # <<>>
        /\ items' = IF w \in Range(items) THEN items ELSE <<w>> \o items
        /\ fresh' = IF w \in Range(items) THEN fresh ELSE fresh \cup {w}
        /\ UNCHANGED <<ranked, dismissed, version, token, filters, cursor, hasMore, lined>>
    BY <1>5 DEF MatchReceived
  <2>2. w \in Events
    <3>0. pushes \in Seq(P)
      BY <1>2
    <3> HIDE DEF P
    <3>1. Head(pushes) \in P
      BY <1>2, <2>1, <3>0
    <3> QED
      BY <3>1 DEF P
  <2>3. CASE w \in Range(items)
    BY <1>1, <2>1, <2>3, PagesSame
  <2>4. CASE w \notin Range(items)
    <3>1. token' # NoUser /\ lined' # NotLined => lined' <= version[token']
      BY <2>1 DEF PagesInv
    <3>2. ASSUME token # NoUser, lined = version[token]
          PROVE  InOrder(items', fresh', cursor', hasMore', Listing(token, filters)')
      <4> DEFINE all == Listing(token, filters)
                 n == IF hasMore = TRUE THEN cursor ELSE Len(all)
                 part == SubSeq(all, 1, n)
      <4>1. part \in Seq(Events) /\ Kept(items, Events \ fresh) = Kept(part, Events \ fresh)
        BY <3>2, PartShown
      <4>2. hasMore = TRUE => cursor < Len(all)
        BY <3>2 DEF PagesInv, InOrder
      <4>3. Listing(token, filters)' = all
        BY <2>1 DEF Listing
      <4> HIDE DEF part, w
      <4>4. Kept(items', Events \ fresh') = Kept(part, Events \ fresh')
        <5>1. Kept(items, But(fresh)) = Kept(part, But(fresh))
          BY <4>1 DEF But
        <5>2. Kept(<<w>> \o items, But(fresh \cup {w})) = Kept(part, But(fresh \cup {w}))
          BY <1>2, <2>2, <4>1, <5>1, LinedPushed
        <5> QED
          BY <2>1, <2>4, <5>2 DEF But
      <4> QED
        BY <2>1, <4>2, <4>3, <4>4 DEF InOrder, LinedUp, part
    <3> QED
      BY <1>1, <2>1, <3>1, <3>2, PagesFrame
  <2> QED
    BY <2>3, <2>4
<1> QED
  BY <1>3, <1>4, <1>5

\* A click asks for pages; what begins anew is of no list.
LEMMA PagesClick ==
  ASSUME Basis, Basis', PagesInv, Clicks
  PROVE  PagesInv'
<1> USE DEF auth, tables, feed, history
<1>0. TypeOK'
  BY DEF Basis, Typed
<1>1. ASSUME NEW new, Moved({}, "same", new),
             UNCHANGED <<ranked, dismissed, version>>,
             UNCHANGED <<token, lined, items, fresh, cursor, hasMore, filters>> \/ lined' = NotLined
      PROVE  PagesInv'
  <2> DEFINE age == "same"
             gone == {}
  <2>1. Moved(gone, age, new) /\ age # "answered"
    BY <1>1
  <2> HIDE DEF age, gone
  <2> QED
    BY <1>0, <1>1, <2>1, PagesSame, PagesGone
<1>2. CASE LoadMore
  BY <1>1, <1>2, LoadMoreMoves DEF Basis, LoadMore
<1>3. CASE SaveSettings
  BY <1>1, <1>3, SaveSettingsMoves DEF Basis, SaveSettings
<1>4. CASE SignOut
  <2> DEFINE age == "old"
             new == <<>>
             gone == {}
  <2>1. Moved(gone, age, new) /\ age # "answered"
    BY <1>4, SignOutMoves DEF Basis
  <2>2. lined' = NotLined /\ UNCHANGED <<ranked, dismissed, version>>
    BY <1>4 DEF SignOut
  <2> HIDE DEF age, new, gone
  <2> QED
    BY <1>0, <2>1, <2>2, PagesGone
<1>5. CASE Reload
  <2> DEFINE age == "same"
             new == SessionCalls(stored)
             gone == DOMAIN calls
  <2>1. Moved(gone, age, new) /\ age # "answered"
    BY <1>5, ReloadMoves DEF Basis
  <2>2. lined' = NotLined /\ UNCHANGED <<ranked, dismissed, version>>
    BY <1>5 DEF Reload
  <2> HIDE DEF age, new, gone
  <2> QED
    BY <1>0, <2>1, <2>2, PagesGone
<1>6. ASSUME NEW passing \in Filters, FiltersChanged(passing) PROVE PagesInv'
  BY <1>1, <1>6, FiltersChangedMoves DEF Basis, FiltersChanged
<1>7. ASSUME NEW e \in Events, DismissEvent(e) PROVE PagesInv'
  BY <1>1, <1>7, DismissEventMoves DEF Basis, DismissEvent
<1>8. ASSUME NEW a \in Artists, ToggleFollow(a) PROVE PagesInv'
  BY <1>1, <1>8, ToggleFollowMoves DEF Basis, ToggleFollow
<1>9. ASSUME NEW u \in Users, Login(u) PROVE PagesInv'
  BY <1>1, <1>9, LoginMoves DEF Basis, Login
<1>10. ASSUME NEW u \in Users, AdoptToken(u) PROVE PagesInv'
  BY <1>1, <1>10, AdoptTokenMoves DEF Basis, AdoptToken
<1>11. ASSUME NEW v \in Views, Open(v) PROVE PagesInv'
  BY <1>1, <1>11, OpenMoves DEF Basis, Open
<1> QED
  BY <1>2, <1>3, <1>4, <1>5, <1>6, <1>7, <1>8, <1>9, <1>10, <1>11 DEF Clicks

\* No step puts the pages out of order.
LEMMA PagesStep ==
  ASSUME Basis, Basis', PagesInv, DismissedInv, Next
  PROVE  PagesInv'
BY PagesAnswers, PagesArrive, PagesClick, PagesList DEF Next

-------------------------------------------------------------------------------
(* Follow buttons *)

\* A toggle that is under way: the button shows what it asks for, and the gateway has the
\* follow or not as it was asked, before and after it is done.
ToggleOK(c, ids, mine) ==
  /\ ~ c.stale
  /\ c.what \in ids <=> ~ c.on
  /\ c.did => (c.what \in mine <=> ~ c.on)
  /\ ~ c.did /\ c.raced = {} => (c.what \in mine <=> c.on)

Toggled(s, a) == \E i \in DOMAIN s : OfArtist(s[i], a)

\* The button of a, when it is not in doubt.
ButtonOK(s, a, ids, mine) ==
  /\ ~ Toggled(s, a) => (a \in ids <=> a \in mine)
  /\ \A i, j \in DOMAIN s : OfArtist(s[i], a) /\ OfArtist(s[j], a) => i = j
  /\ \A i \in DOMAIN s : OfArtist(s[i], a) => ToggleOK(s[i], ids, mine)

\* What a load that was asked for by this session has read, or will read.
LoadOK(c, s, mine) ==
  c.op = "load" /\ ~ c.stale =>
    \A a \in Artists : a \notin c.raced =>
      /\ ~ Toggled(s, a)
      /\ c.at = "done" => (a \in c.ids <=> a \in mine)

LoadsOK(s, mine) == \A i \in DOMAIN s : LoadOK(s[i], s, mine)

ButtonsInv ==
  token # NoUser =>
    /\ \A a \in Artists : a \notin doubt => ButtonOK(calls, a, artistIds, follows[token])
    /\ LoadsOK(calls, follows[token])

\* A new call that is no toggle, and a load that knows which artists are being toggled.
Reads(c, s) ==
  /\ c.op # "toggle"
  /\ c.op = "load" => /\ c.at = "sent"
                      /\ \A a \in Artists : a \notin c.raced => ~ Toggled(s, a)

\* Nothing toggles an artist that nothing toggled, but a new toggle.
LEMMA NotToggled ==
  ASSUME NEW s, NEW t, NEW gone, NEW age, NEW new, Moves(s, t, gone, age, new), NEW a,
         ~ Toggled(s, a), \A m \in DOMAIN new : ~ OfArtist(new[m], a)
  PROVE  ~ Toggled(t, a)
<1> SUFFICES ASSUME NEW k \in DOMAIN t, OfArtist(t[k], a)
             PROVE  FALSE
  BY DEF Toggled
<1>1. CASE \E j \in DOMAIN s : j \notin gone /\ Heir(s[j], t[k], age)
  BY <1>1 DEF Heir, OfArtist, Toggled
<1>2. CASE \E m \in DOMAIN new : t[k] = new[m]
  BY <1>2
<1> QED
  BY <1>1, <1>2, CameFrom

\* A button that a step leaves alone.
LEMMA ButtonFrame ==
  ASSUME NEW s \in Seq(Call), NEW t \in Seq(Call), NEW gone, NEW age, NEW new \in Seq(Call),
         Moves(s, t, gone, age, new), age # "old", age # "answered",
         NEW a, NEW ids, NEW more, NEW mine, ButtonOK(s, a, ids, mine),
         \A i \in DOMAIN s : i \in gone => ~ OfArtist(s[i], a),
         \A m \in DOMAIN new : ~ OfArtist(new[m], a),
         a \in more <=> a \in ids
  PROVE  ButtonOK(t, a, more, mine)
<1>1. Len(s) \in Nat /\ DOMAIN s = 1..Len(s)
  OBVIOUS
<1>2. ASSUME NEW k \in DOMAIN t, OfArtist(t[k], a)
      PROVE  \E j \in DOMAIN s : OfArtist(s[j], a) /\ Heir(s[j], t[k], age)
  BY <1>2, CameFrom DEF OfArtist, Heir
<1>3. ASSUME NEW i \in DOMAIN s, OfArtist(s[i], a)
      PROVE  \E k \in DOMAIN t : OfArtist(t[k], a)
  <2>1. \E k \in DOMAIN t : Heir(s[i], t[k], age)
    BY <1>1, <1>3, LivesOn
  <2> QED
    BY <1>3, <2>1 DEF Heir, OfArtist
<1>4. Toggled(s, a) => Toggled(t, a)
  BY <1>3 DEF Toggled
<1>5. \A k, l \in DOMAIN t : OfArtist(t[k], a) /\ OfArtist(t[l], a) => k = l
  <2>1. PICK was : Were(was, s, t, gone, age, new)
    BY DEF Moves
  <2> SUFFICES ASSUME NEW k \in DOMAIN t, NEW l \in DOMAIN t, OfArtist(t[k], a), OfArtist(t[l], a)
               PROVE  k = l
    OBVIOUS
  <2>2. was[k] \in DOMAIN s /\ OfArtist(s[was[k]], a)
    BY <2>1 DEF Were, Heir, OfArtist
  <2>3. was[l] \in DOMAIN s /\ OfArtist(s[was[l]], a)
    BY <2>1 DEF Were, Heir, OfArtist
  <2>4. was[k] = was[l]
    BY <2>2, <2>3 DEF ButtonOK
  <2> QED
    BY <2>1, <2>4 DEF Were
<1>6. ASSUME NEW k \in DOMAIN t, OfArtist(t[k], a)
      PROVE  ToggleOK(t[k], more, mine)
  <2>1. PICK j \in DOMAIN s : OfArtist(s[j], a) /\ Heir(s[j], t[k], age)
    BY <1>2, <1>6
  <2>2. ToggleOK(s[j], ids, mine)
    BY <2>1 DEF ButtonOK
  <2> QED
    BY <2>1, <2>2 DEF ToggleOK, Heir, OfArtist
<1> QED
  BY <1>4, <1>5, <1>6 DEF ButtonOK

\* Loads that are under way, when none is answered.
LEMMA LoadsFrame ==
  ASSUME NEW s, NEW t, NEW gone, NEW age, NEW new, Moves(s, t, gone, age, new), age # "answered",
         NEW mine, age = "old" \/ LoadsOK(s, mine),
         \A m \in DOMAIN new : Reads(new[m], s)
  PROVE  LoadsOK(t, mine)
<1>1. ASSUME NEW a \in Artists, ~ Toggled(s, a) PROVE ~ Toggled(t, a)
  BY <1>1, NotToggled DEF Reads, OfArtist
<1> SUFFICES ASSUME NEW k \in DOMAIN t, t[k].op = "load", ~ t[k].stale,
                    NEW a \in Artists, a \notin t[k].raced
             PROVE  ~ Toggled(t, a) /\ (t[k].at = "done" => (a \in t[k].ids <=> a \in mine))
  BY DEF LoadsOK, LoadOK
<1>2. CASE \E j \in DOMAIN s : j \notin gone /\ Heir(s[j], t[k], age)
  <2>1. PICK j \in DOMAIN s : Heir(s[j], t[k], age)
    BY <1>2
  <2>2. /\ age # "old" /\ s[j].op = "load" /\ ~ s[j].stale /\ a \notin s[j].raced
        /\ s[j].at = t[k].at /\ s[j].ids = t[k].ids
    BY <2>1 DEF Heir
  <2>3. LoadOK(s[j], s, mine)
    BY <2>2 DEF LoadsOK
  <2> QED
    BY <1>1, <2>2, <2>3 DEF LoadOK
<1>3. CASE \E m \in DOMAIN new : t[k] = new[m]
  BY <1>1, <1>3 DEF Reads
<1> QED
  BY <1>2, <1>3, CameFrom

\* What is asked for when a page opens reads the follows.
LEMMA MountedReads ==
  ASSUME NEW c, NEW u, Mounted(c, u)
  PROVE  Reads(c, calls)
BY DEF Mounted, Reads, Sent, Toggled, Toggling, OfArtist

\* Steps that leave the buttons, the follows and the toggles alone.
LEMMA ButtonsFrame ==
  ASSUME Basis, ButtonsInv, NEW gone, NEW age, NEW new, Moved(gone, age, new),
         age # "old", age # "answered", UNCHANGED <<token, follows, artistIds, doubt>>,
         \A i \in DOMAIN calls : i \in gone => calls[i].op # "toggle",
         \A m \in DOMAIN new : Reads(new[m], calls)
  PROVE  ButtonsInv'
<1>1. calls \in Seq(Call) /\ calls' \in Seq(Call) /\ new \in Seq(Call)
      /\ Moves(calls, calls', gone, age, new)
  BY DEF Basis, Typed, TypeOK, Moved
<1> SUFFICES ASSUME token # NoUser
             PROVE  /\ \A a \in Artists : a \notin doubt => ButtonOK(calls', a, artistIds, follows[token])
                    /\ LoadsOK(calls', follows[token])
  BY DEF ButtonsInv
<1> DEFINE mine == follows[token]
<1>2. \A a \in Artists : a \notin doubt => ButtonOK(calls, a, artistIds, mine)
  BY DEF ButtonsInv
<1>3. LoadsOK(calls, mine)
  BY DEF ButtonsInv
<1> HIDE DEF mine
<1>4. ASSUME NEW a \in Artists, a \notin doubt PROVE ButtonOK(calls', a, artistIds, mine)
  <2>1. /\ \A i \in DOMAIN calls : i \in gone => ~ OfArtist(calls[i], a)
        /\ \A m \in DOMAIN new : ~ OfArtist(new[m], a)
    BY DEF OfArtist, Reads
  <2>2. ButtonOK(calls, a, artistIds, mine)
    BY <1>2, <1>4
  <2> QED
    BY <1>1, <2>1, <2>2, ButtonFrame
<1>5. LoadsOK(calls', mine)
  BY <1>1, <1>3, LoadsFrame
<1> QED
  BY <1>4, <1>5 DEF mine

\* Steps that end no call.
LEMMA ButtonsSame ==
  ASSUME Basis, ButtonsInv, NEW new, Moved({}, "same", new),
         UNCHANGED <<token, follows, artistIds, doubt>>,
         \A m \in DOMAIN new : Reads(new[m], calls)
  PROVE  ButtonsInv'
<1> DEFINE gone == {}
           age == "same"
<1>1. /\ Moved(gone, age, new) /\ age # "old" /\ age # "answered"
      /\ \A i \in DOMAIN calls : i \in gone => calls[i].op # "toggle"
  OBVIOUS
<1> HIDE DEF gone, age
<1> QED
  BY <1>1, ButtonsFrame

\* Steps that end a call that is no toggle.
LEMMA ButtonsEnds ==
  ASSUME Basis, ButtonsInv, NEW i \in DOMAIN calls, NEW new, Moved({i}, "same", new),
         UNCHANGED <<token, follows, artistIds, doubt>>, calls[i].op # "toggle",
         \A m \in DOMAIN new : Reads(new[m], calls)
  PROVE  ButtonsInv'
<1> DEFINE gone == {i}
           age == "same"
<1>1. /\ Moved(gone, age, new) /\ age # "old" /\ age # "answered"
      /\ \A j \in DOMAIN calls : j \in gone => calls[j].op # "toggle"
  OBVIOUS
<1> HIDE DEF gone, age
<1> QED
  BY <1>1, ButtonsFrame

\* What an answer leaves of what was asked.
SameAsked(c, d) ==
  /\ d.op = c.op /\ d.user = c.user /\ d.what = c.what /\ d.on = c.on
  /\ d.raced = c.raced /\ d.stale = c.stale

\* Answers that change no follow.
LEMMA ButtonsAnswered ==
  ASSUME Basis, ButtonsInv, UNCHANGED <<token, follows, artistIds, doubt>>,
         DOMAIN calls' = DOMAIN calls,
         \A k \in DOMAIN calls : SameAsked(calls[k], calls'[k]),
         \A k \in DOMAIN calls : calls[k].op = "toggle" => calls'[k].did = calls[k].did,
         \A k \in DOMAIN calls : calls[k].op = "load" /\ calls'[k].at = "done" =>
           \/ calls[k].at = "done" /\ calls'[k].ids = calls[k].ids
           \/ calls'[k].ids = follows[calls[k].user]
  PROVE  ButtonsInv'
<1> SUFFICES ASSUME token # NoUser
             PROVE  /\ \A a \in Artists : a \notin doubt => ButtonOK(calls', a, artistIds, follows[token])
                    /\ LoadsOK(calls', follows[token])
  BY DEF ButtonsInv
<1> DEFINE mine == follows[token]
<1>1. \A a \in Artists : a \notin doubt => ButtonOK(calls, a, artistIds, mine)
  BY DEF ButtonsInv
<1>2. \A k \in DOMAIN calls : LoadOK(calls[k], calls, mine) /\ Own(calls[k], token)
  BY DEF ButtonsInv, LoadsOK, Basis, CallsOK
<1>3. \A a : Toggled(calls', a) <=> Toggled(calls, a)
  BY DEF Toggled, SameAsked, OfArtist
<1>4. ASSUME NEW a \in Artists, a \notin doubt PROVE ButtonOK(calls', a, artistIds, mine)
  <2>1. ButtonOK(calls, a, artistIds, mine)
    BY <1>1, <1>4
  <2>2. \A k \in DOMAIN calls : OfArtist(calls'[k], a) => OfArtist(calls[k], a)
    BY DEF SameAsked, OfArtist
  <2> HIDE DEF mine
  <2>3. ASSUME NEW k \in DOMAIN calls, OfArtist(calls'[k], a) PROVE ToggleOK(calls'[k], artistIds, mine)
    <3>1. ToggleOK(calls[k], artistIds, mine) /\ calls[k].op = "toggle"
      BY <2>1, <2>2, <2>3 DEF ButtonOK, OfArtist
    <3> QED
      BY <3>1 DEF ToggleOK, SameAsked
  <2> QED
    BY <1>3, <2>1, <2>2, <2>3 DEF ButtonOK
<1>5. ASSUME NEW k \in DOMAIN calls PROVE LoadOK(calls'[k], calls', mine)
  <2> SUFFICES ASSUME calls'[k].op = "load", ~ calls'[k].stale,
                      NEW a \in Artists, a \notin calls'[k].raced
               PROVE  /\ ~ Toggled(calls', a)
                      /\ calls'[k].at = "done" => (a \in calls'[k].ids <=> a \in mine)
    BY DEF LoadOK
  <2>1. calls[k].op = "load" /\ ~ calls[k].stale /\ a \notin calls[k].raced
    BY DEF SameAsked
  <2>2. calls[k].user = token
    BY <1>2, <2>1 DEF Own
  <2> QED
    BY <1>2, <1>3, <2>1, <2>2 DEF LoadOK
<1> QED
  BY <1>4, <1>5 DEF LoadsOK

\* The gateway does what a toggle asks: its button tells the truth from now on.
LEMMA ButtonsToggle ==
  ASSUME Basis, ButtonsInv, NEW i \in DOMAIN calls, NEW ranking \in Rankings,
         AnswerToggle(i, ranking)
  PROVE  ButtonsInv'
<1> DEFINE c == calls[i]
           u == c.user
           w == c.what
<1>1. /\ c \in Call /\ u \in Users /\ c.on \in BOOLEAN /\ Own(c, token) /\ calls \in Seq(Call)
      /\ follows \in [Users -> SUBSET Artists] /\ token \in Users \cup {NoUser}
  BY CallIs DEF Basis, Typed, TypeOK, CallsOK
<1>2. /\ c.op = "toggle" /\ UNCHANGED <<token, artistIds, doubt>>
      /\ follows' = [follows EXCEPT ![u] = IF c.on THEN @ \ {w} ELSE @ \cup {w}]
      /\ calls' = [calls EXCEPT ![i].at = "done", ![i].did = TRUE]
  BY DEF AnswerToggle, auth, buttons, history
<1>3. /\ DOMAIN calls' = DOMAIN calls /\ calls'[i].did = TRUE /\ SameAsked(c, calls'[i])
      /\ \A k \in DOMAIN calls : k # i => calls'[k] = calls[k]
  BY <1>1, <1>2 DEF Call, SameAsked
<1>4. \A k \in DOMAIN calls : SameAsked(calls[k], calls'[k])
  BY <1>3 DEF SameAsked
<1>5. \A a : Toggled(calls', a) <=> Toggled(calls, a)
  BY <1>3, <1>4 DEF Toggled, SameAsked, OfArtist
<1> SUFFICES ASSUME token # NoUser
             PROVE  /\ \A a \in Artists : a \notin doubt => ButtonOK(calls', a, artistIds, follows'[token])
                    /\ LoadsOK(calls', follows'[token])
  BY <1>2 DEF ButtonsInv
<1> DEFINE mine == follows[token]
           now == follows'[token]
<1>6. /\ \A a \in Artists : a # w => (a \in now <=> a \in mine)
      /\ u # token => now = mine
      /\ u = token => (w \in now <=> ~ c.on)
  BY <1>1, <1>2
<1>7. \A a \in Artists : a \notin doubt => ButtonOK(calls, a, artistIds, mine)
  BY DEF ButtonsInv
<1>8. \A k \in DOMAIN calls : LoadOK(calls[k], calls, mine)
  BY DEF ButtonsInv, LoadsOK
<1>9. Toggled(calls, w)
  BY <1>2 DEF Toggled, OfArtist
<1> HIDE DEF mine, now
<1>10. ASSUME NEW a \in Artists, a \notin doubt PROVE ButtonOK(calls', a, artistIds, now)
  <2>1. ButtonOK(calls, a, artistIds, mine)
    BY <1>7, <1>10
  <2>2. \A k \in DOMAIN calls : OfArtist(calls'[k], a) => OfArtist(calls[k], a)
    BY <1>4 DEF SameAsked, OfArtist
  <2>3. CASE a # w
    <3>1. a \in now <=> a \in mine
      BY <1>6, <2>3
    <3>2. ASSUME NEW k \in DOMAIN calls, OfArtist(calls'[k], a)
          PROVE  ToggleOK(calls'[k], artistIds, now)
      <4>1. k # i /\ calls'[k] = calls[k] /\ ToggleOK(calls[k], artistIds, mine) /\ calls[k].what = a
        BY <1>3, <2>1, <2>2, <2>3, <3>2 DEF ButtonOK, OfArtist
      <4> QED
        BY <3>1, <4>1 DEF ToggleOK
    <3> QED
      BY <1>3, <1>5, <2>1, <2>2, <3>1, <3>2 DEF ButtonOK
  <2>4. CASE a = w
    <3>1. OfArtist(c, a)
      BY <1>2, <2>4 DEF OfArtist
    <3>2. ToggleOK(c, artistIds, mine)
      BY <2>1, <3>1 DEF ButtonOK
    <3>3. u = token
      BY <1>1, <1>2, <3>2 DEF ToggleOK, Own
    <3>4. ASSUME NEW k \in DOMAIN calls, OfArtist(calls'[k], a)
          PROVE  ToggleOK(calls'[k], artistIds, now)
      <4>1. k = i
        BY <2>1, <2>2, <3>1, <3>4 DEF ButtonOK
      <4> QED
        BY <1>3, <1>6, <3>2, <3>3, <4>1 DEF ToggleOK, SameAsked
    <3>5. Toggled(calls', a)
      BY <1>5, <1>9, <2>4
    <3> QED
      BY <1>3, <2>1, <2>2, <3>4, <3>5 DEF ButtonOK
  <2> QED
    BY <2>3, <2>4
<1>11. ASSUME NEW k \in DOMAIN calls PROVE LoadOK(calls'[k], calls', now)
  <2>1. LoadOK(calls[k], calls, mine)
    BY <1>8
  <2>2. calls'[k].op = "load" => calls'[k] = calls[k]
    BY <1>2, <1>3 DEF SameAsked
  <2> QED
    BY <1>5, <1>6, <1>9, <2>1, <2>2 DEF LoadOK
<1> QED
  BY <1>3, <1>10, <1>11 DEF LoadsOK, now

\* Answers to toggles and loads read or change the follows; others do not.
LEMMA ButtonsAnswers ==
  ASSUME Basis, ButtonsInv, NEW i \in DOMAIN calls, Answer(i)
  PROVE  ButtonsInv'
<1> USE DEF tables, auth, buttons, history
<1>1. calls[i] \in Call /\ calls \in Seq(Call) /\ \A k \in DOMAIN calls : calls[k] \in Call
  BY CallIs DEF Basis, Typed
<1>2. ASSUME UNCHANGED <<token, follows, artistIds, doubt>>,
             DOMAIN calls' = DOMAIN calls, SameAsked(calls[i], calls'[i]),
             \A k \in DOMAIN calls : k # i => calls'[k] = calls[k],
             calls[i].op = "toggle" => calls'[i].did = calls[i].did,
             calls[i].op = "load" /\ calls'[i].at = "done" =>
               calls'[i].ids = follows[calls[i].user]
      PROVE  ButtonsInv'
  <2>1. \A k \in DOMAIN calls : SameAsked(calls[k], calls'[k])
    BY <1>2 DEF SameAsked
  <2>2. \A k \in DOMAIN calls : calls[k].op = "toggle" => calls'[k].did = calls[k].did
    BY <1>2
  <2>3. \A k \in DOMAIN calls : calls[k].op = "load" /\ calls'[k].at = "done" =>
           \/ calls[k].at = "done" /\ calls'[k].ids = calls[k].ids
           \/ calls'[k].ids = follows[calls[k].user]
    BY <1>2
  <2> QED
    BY <1>2, <2>1, <2>2, <2>3, ButtonsAnswered
<1>3. CASE AnswerPage(i)
  <2> DEFINE c == calls[i]
             all == Listing(c.user, c.filters)
             last == Min({c.cursor + PageSize, Len(all)})
             q == SubSeq(all, c.cursor + 1, last)
             b == last < Len(all)
             v == version[c.user]
  <2>1. c.op = "page" /\ UNCHANGED <<token, follows, artistIds, doubt>>
        /\ calls' = [calls EXCEPT ![i] =
                       [c EXCEPT !.at = "done", !.version = v, !.items = q, !.hasMore = b]]
    BY <1>3 DEF AnswerPage
  <2> HIDE DEF all, last, q, b, v
  <2>2. DOMAIN calls' = DOMAIN calls /\ SameAsked(c, calls'[i])
        /\ \A k \in DOMAIN calls : k # i => calls'[k] = calls[k]
    BY <1>1, <2>1 DEF Call, SameAsked
  <2> QED
    BY <1>2, <2>1, <2>2
<1>4. CASE AnswerLoad(i)
  <2> DEFINE f == follows[calls[i].user]
  <2>1. calls[i].op = "load" /\ UNCHANGED <<token, follows, artistIds, doubt>>
        /\ calls' = [calls EXCEPT ![i].at = "done", ![i].ids = f]
    BY <1>4 DEF AnswerLoad
  <2> HIDE DEF f
  <2>2. DOMAIN calls' = DOMAIN calls /\ SameAsked(calls[i], calls'[i]) /\ calls'[i].ids = f
        /\ \A k \in DOMAIN calls : k # i => calls'[k] = calls[k]
    BY <1>1, <2>1 DEF Call, SameAsked
  <2> QED
    BY <1>2, <2>1, <2>2 DEF f
<1>5. CASE AnswerDismiss(i)
  <2> DEFINE e == calls[i].what
  <2>1. /\ UNCHANGED <<token, follows, artistIds, doubt>>
        /\ DOMAIN calls' = DOMAIN calls
        /\ calls'[i] = [calls[i] EXCEPT !.at = "done", !.did = TRUE]
        /\ calls[i].op = "dismiss"
        /\ \A j \in DOMAIN calls : j # i =>
             calls'[j] = IF calls[j].op = "page" /\ calls[j].at = "done"
                         THEN [calls[j] EXCEPT !.older = @ \cup {e}] ELSE calls[j]
    BY <1>5 DEF AnswerDismiss
  <2> HIDE DEF e
  <2>2. ASSUME NEW k \in DOMAIN calls
        PROVE  /\ SameAsked(calls[k], calls'[k])
               /\ calls[k].op \in {"toggle", "load"} => calls'[k] = calls[k]
    <3> DEFINE c == calls[k]
               d == calls'[k]
    <3>1. c \in Call
      BY <1>1
    <3>2. CASE k = i
      BY <1>1, <2>1, <3>2 DEF Call, SameAsked
    <3>3. CASE k # i /\ c.op = "page" /\ c.at = "done"
      <4>1. d = [c EXCEPT !.older = @ \cup {e}]
        BY <2>1, <3>3
      <4> HIDE DEF c, d
      <4> QED
        BY <3>1, <3>3, <4>1 DEF Call, SameAsked, c, d
    <3>4. CASE k # i /\ ~(c.op = "page" /\ c.at = "done")
      BY <2>1, <3>4 DEF SameAsked
    <3> QED
      BY <3>2, <3>3, <3>4
  <2> QED
    BY <2>1, <2>2, ButtonsAnswered
<1>6. ASSUME NEW how \in {"failed", "refused"}, Fail(i, how) PROVE ButtonsInv'
  <2>1. UNCHANGED <<token, follows, artistIds, doubt>> /\ calls' = [calls EXCEPT ![i].at = how]
        /\ how # "done"
    BY <1>6 DEF Fail
  <2>2. /\ DOMAIN calls' = DOMAIN calls /\ SameAsked(calls[i], calls'[i])
        /\ calls'[i].at = how /\ calls'[i].did = calls[i].did
        /\ \A k \in DOMAIN calls : k # i => calls'[k] = calls[k]
    BY <1>1, <2>1 DEF Call, SameAsked
  <2> QED
    BY <1>2, <2>1, <2>2
<1> QED
  BY <1>3, <1>4, <1>5, <1>6, ButtonsToggle DEF Answer

\* A button whose toggles are over.
LEMMA ButtonSettled ==
  ASSUME NEW s, NEW t, NEW gone, NEW age, NEW new, Moves(s, t, gone, age, new),
         NEW a, NEW ids, NEW mine, a \in ids <=> a \in mine,
         \A i \in DOMAIN s : OfArtist(s[i], a) => i \in gone,
         \A m \in DOMAIN new : ~ OfArtist(new[m], a)
  PROVE  ButtonOK(t, a, ids, mine)
<1>1. ASSUME NEW k \in DOMAIN t, OfArtist(t[k], a) PROVE FALSE
  BY <1>1, CameFrom DEF Heir, OfArtist
<1> QED
  BY <1>1 DEF ButtonOK, Toggled

\* A toggle is over: its button is as the gateway has it, or in doubt.
LEMMA ButtonsToggled ==
  ASSUME Basis, ButtonsInv, NEW i \in DOMAIN calls, calls[i].op = "toggle",
         NEW new, Moved({i}, "same", new), \A m \in DOMAIN new : new[m].op = "page",
         UNCHANGED <<token, follows>>, doubt \subseteq doubt',
         \A a \in Artists : a # calls[i].what => (a \in artistIds' <=> a \in artistIds),
         calls[i].what \notin doubt' /\ ToggleOK(calls[i], artistIds, follows[token]) =>
           (calls[i].what \in artistIds' <=> calls[i].what \in follows[token])
  PROVE  ButtonsInv'
<1> DEFINE gone == {i}
           age == "same"
           mine == follows[token]
           w == calls[i].what
<1>1. /\ calls \in Seq(Call) /\ calls' \in Seq(Call) /\ new \in Seq(Call)
      /\ Moves(calls, calls', gone, age, new) /\ age # "old" /\ age # "answered"
      /\ \A j \in DOMAIN calls : j \in gone <=> j = i
  BY DEF Basis, Typed, TypeOK, Moved
<1> SUFFICES ASSUME token # NoUser
             PROVE  /\ \A a \in Artists : a \notin doubt' => ButtonOK(calls', a, artistIds', mine)
                    /\ LoadsOK(calls', mine)
  BY DEF ButtonsInv
<1>2. /\ \A a \in Artists : a \notin doubt => ButtonOK(calls, a, artistIds, mine)
      /\ LoadsOK(calls, mine)
  BY DEF ButtonsInv
<1>3. w \notin doubt' /\ ToggleOK(calls[i], artistIds, mine) => (w \in artistIds' <=> w \in mine)
  OBVIOUS
<1> HIDE DEF gone, age, mine, w
<1>4. \A m \in DOMAIN new : Reads(new[m], calls)
  BY DEF Reads
<1>5. LoadsOK(calls', mine)
  BY <1>1, <1>2, <1>4, LoadsFrame
<1>6. ASSUME NEW a \in Artists, a \notin doubt' PROVE ButtonOK(calls', a, artistIds', mine)
  <2>1. ButtonOK(calls, a, artistIds, mine)
    BY <1>2, <1>6
  <2>2. \A m \in DOMAIN new : ~ OfArtist(new[m], a)
    BY DEF OfArtist
  <2>3. CASE a # w
    <3>1. \A j \in DOMAIN calls : j \in gone => ~ OfArtist(calls[j], a)
      BY <1>1, <2>3 DEF OfArtist, w
    <3>2. a \in artistIds' <=> a \in artistIds
      BY <2>3 DEF w
    <3> QED
      BY <1>1, <2>1, <2>2, <3>1, <3>2, ButtonFrame
  <2>4. CASE a = w
    <3>1. OfArtist(calls[i], a)
      BY <2>4 DEF OfArtist, w
    <3>2. ToggleOK(calls[i], artistIds, mine) /\ \A j \in DOMAIN calls : OfArtist(calls[j], a) => j \in gone
      BY <1>1, <2>1, <3>1 DEF ButtonOK
    <3>3. a \in artistIds' <=> a \in mine
      BY <1>3, <1>6, <2>4, <3>2
    <3> QED
      BY <1>1, <2>2, <3>2, <3>3, ButtonSettled
  <2> QED
    BY <2>3, <2>4
<1> QED
  BY <1>5, <1>6

\* A load puts what it read in place of what the buttons show.
LEMMA ButtonsLoaded ==
  ASSUME Basis, ButtonsInv, NEW i \in DOMAIN calls, LoadFulfilled(i)
  PROVE  ButtonsInv'
<1> DEFINE gone == {i}
           age == "same"
           new == <<>>
           mine == follows[token]
           c == calls[i]
<1>1. calls \in Seq(Call) /\ calls' \in Seq(Call) /\ Moves(calls, calls', gone, age, new)
      /\ DOMAIN new = {} /\ age # "answered"
  <2>1. Moved({i}, "same", <<>>)
    BY SmallTyped DEF Basis
  <2>2. Moved(gone, age, new) /\ DOMAIN new = {} /\ age # "answered"
    BY <2>1
  <2> HIDE DEF gone, age, new
  <2> QED
    BY <2>2 DEF Basis, Typed, TypeOK, Moved
<1>2. /\ c.op = "load" /\ c.at = "done" /\ artistIds' = c.ids
      /\ doubt' = (IF c.stale THEN Artists ELSE c.raced) /\ UNCHANGED <<token, follows>>
  BY DEF LoadFulfilled, auth, tables
<1> SUFFICES ASSUME token # NoUser
             PROVE  /\ \A a \in Artists : a \notin doubt' => ButtonOK(calls', a, artistIds', mine)
                    /\ LoadsOK(calls', mine)
  BY <1>2 DEF ButtonsInv
<1>3. LoadsOK(calls, mine)
  BY DEF ButtonsInv
<1> HIDE DEF gone, age, new, mine
<1>4. LoadsOK(calls', mine)
  BY <1>1, <1>3, LoadsFrame
<1>5. ASSUME NEW a \in Artists, a \notin doubt' PROVE ButtonOK(calls', a, artistIds', mine)
  <2>1. ~ c.stale /\ a \notin c.raced /\ LoadOK(c, calls, mine)
    BY <1>2, <1>3, <1>5 DEF LoadsOK
  <2>2. ~ Toggled(calls, a) /\ (a \in artistIds' <=> a \in mine)
    BY <1>2, <2>1 DEF LoadOK
  <2>3. \A j \in DOMAIN calls : OfArtist(calls[j], a) => j \in gone
    BY <2>2 DEF Toggled
  <2> QED
    BY <1>1, <2>2, <2>3, ButtonSettled
<1> QED
  BY <1>4, <1>5

\* An answer that is applied leaves every button right that is not in doubt.
LEMMA ButtonsArrive ==
  ASSUME Basis, Basis', ButtonsInv, NEW i \in DOMAIN calls, Arrive(i)
  PROVE  ButtonsInv'
<1> USE DEF auth, tables, buttons, history
<1> DEFINE c == calls[i]
<1>1. /\ c \in Call /\ c.on \in BOOLEAN /\ c.stale \in BOOLEAN /\ c.did \in BOOLEAN
      /\ c.raced \subseteq Artists /\ c.user \in Users /\ Shape(c) /\ Done(c)
  BY CallIs DEF Basis, Typed, CallsOK
<1>2. CASE PageFulfilled(i)
  <2>1. PICK new : Moved({i}, "same", new) /\ \A m \in DOMAIN new : new[m].op = "page"
    BY <1>2, PageFulfilledMoves DEF Basis
  <2>2. calls[i].op # "toggle" /\ UNCHANGED <<token, follows, artistIds, doubt>>
    BY <1>2 DEF PageFulfilled
  <2> QED
    BY <2>1, <2>2, ButtonsEnds DEF Reads
<1>3. CASE ToggleFulfilled(i)
  <2>1. PICK new : Moved({i}, "same", new) /\ \A m \in DOMAIN new : new[m].op = "page"
    BY <1>3, ToggleFulfilledMoves DEF Basis
  <2>2. c.op = "toggle" /\ c.at = "done" /\ UNCHANGED <<token, follows, artistIds, doubt>>
    BY <1>3 DEF ToggleFulfilled
  <2>3. ToggleOK(c, artistIds, follows[token]) =>
          (c.what \in artistIds' <=> c.what \in follows[token])
    BY <1>1, <2>2 DEF Done, ToggleOK
  <2> QED
    BY <2>1, <2>2, <2>3, ButtonsToggled
<1>4. CASE ToggleRejected(i)
  <2> DEFINE new == <<>>
  <2>1. Moved({i}, "same", new)
    BY <1>4, SmallTyped DEF Basis
  <2>2. /\ c.op = "toggle" /\ UNCHANGED <<token, follows>>
        /\ artistIds' = IF c.on THEN artistIds \cup {c.what} ELSE artistIds \ {c.what}
        /\ doubt' = IF c.did \/ c.stale THEN doubt \cup {c.what} ELSE doubt \cup c.raced
    BY <1>4 DEF ToggleRejected
  <2>3. c.what \notin doubt' /\ ToggleOK(c, artistIds, follows[token]) =>
          (c.what \in artistIds' <=> c.what \in follows[token])
    <3> SUFFICES ASSUME c.what \notin doubt', ToggleOK(c, artistIds, follows[token])
                 PROVE  c.what \in artistIds' <=> c.what \in follows[token]
      OBVIOUS
    <3>1. ~ c.did /\ c.raced = {}
      BY <1>1, <2>2 DEF Shape
    <3> QED
      BY <1>1, <2>2, <3>1 DEF ToggleOK
  <2>4. doubt \subseteq doubt' /\ \A a \in Artists : a # c.what => (a \in artistIds' <=> a \in artistIds)
    BY <2>2
  <2>5. \A m \in DOMAIN new : new[m].op = "page"
    OBVIOUS
  <2> HIDE DEF new
  <2> QED
    BY <2>1, <2>2, <2>3, <2>4, <2>5, ButtonsToggled
<1>5. CASE LoginFulfilled(i) \/ SessionLoaded(i)
  <2>1. PICK p : SignIn(c.user, p, i)
    BY <1>5 DEF LoginFulfilled, SessionLoaded
  <2> DEFINE late == "old"
             gone == {i}
  <2>2. PICK new : Moved(gone, late, new) /\ \A m \in DOMAIN new : Mounted(new[m], c.user)
    BY <1>1, <2>1, SignInMoves DEF Basis
  <2>3. doubt' = Artists /\ late # "answered" /\ late = "old"
    BY <2>1 DEF SignIn
  <2>4. \A m \in DOMAIN new : Reads(new[m], calls)
    BY <2>2, MountedReads
  <2> HIDE DEF late, gone
  <2>5. Moves(calls, calls', gone, late, new)
    BY <2>2 DEF Moved
  <2> DEFINE mine == follows'[token']
  <2> HIDE DEF mine
  <2>6. LoadsOK(calls', mine)
    BY <2>3, <2>4, <2>5, LoadsFrame
  <2> QED
    BY <2>3, <2>6 DEF ButtonsInv, mine
<1>6. CASE UserUpdated(i)
  <2>1. PICK new : /\ Moved({i}, "same", new)
                   /\ \A m \in DOMAIN new : new[m].op = "patch" /\ token # NoUser
    BY <1>6, UserUpdatedMoves DEF Basis
  <2>2. calls[i].op # "toggle" /\ UNCHANGED <<token, follows, artistIds, doubt>>
    BY <1>6 DEF UserUpdated
  <2> QED
    BY <2>1, <2>2, ButtonsEnds DEF Reads
<1>7. CASE \/ PageRejected(i) \/ DismissRejected(i) \/ LoadRejected(i) \/ DismissFulfilled(i)
           \/ LoginRejected(i) \/ SessionRefused(i) \/ SaveFailed(i)
  <2> DEFINE new == <<>>
  <2>1. calls' = RemoveAt(calls, i) /\ UNCHANGED <<token, follows, artistIds, doubt>>
        /\ calls[i].op # "toggle"
    BY <1>7 DEF PageRejected, DismissRejected, LoadRejected, DismissFulfilled,
                LoginRejected, SessionRefused, SaveFailed
  <2>2. Moved({i}, "same", new)
    BY <2>1, EndMoves DEF Basis, Typed
  <2>3. DOMAIN new = {}
    OBVIOUS
  <2> HIDE DEF new
  <2> QED
    BY <2>1, <2>2, <2>3, ButtonsEnds
<1> QED
  BY <1>2, <1>3, <1>4, <1>5, <1>6, <1>7, ButtonsLoaded DEF Arrive

\* A click on a button: it shows what the request asks for.
LEMMA ButtonsClicked ==
  ASSUME Basis, ButtonsInv, NEW a \in Artists, ToggleFollow(a)
  PROVE  ButtonsInv'
<1> DEFINE gone == {}
           age == "same"
           mine == follows[token]
<1>1. PICK c : /\ Moved(gone, age, <<c>>) /\ c.op = "toggle" /\ c.what = a
               /\ c.on <=> a \in artistIds
               /\ c.raced = {a} \cap doubt
               /\ \A k \in DOMAIN calls' : calls'[k].op = "load" => a \in calls'[k].raced
  BY ToggleFollowMoves DEF Basis
<1> DEFINE new == <<c>>
<1>2. DOMAIN new = {1} /\ new[1] = c /\ \A m \in DOMAIN new : m = 1
  OBVIOUS
<1>3. /\ calls \in Seq(Call) /\ calls' \in Seq(Call) /\ new \in Seq(Call)
      /\ Moves(calls, calls', gone, age, new) /\ age # "old" /\ age # "answered"
      /\ \A j \in DOMAIN calls : j \notin gone
  BY <1>1 DEF Basis, Typed, TypeOK, Moved
<1>4. ~ c.did /\ ~ c.stale
  <2>1. Fit(new[1], token')
    BY <1>1, <1>2 DEF Moved
  <2> QED
    BY <1>2, <2>1 DEF Fit, Sent
<1>5. /\ artistIds' = Flipped(a) /\ UNCHANGED <<token, follows>>
      /\ doubt' = IF Toggling(a) = {} THEN doubt \ {a} ELSE doubt \cup {a}
  BY DEF ToggleFollow, auth, tables
<1>6. Toggling(a) = {} <=> ~ Toggled(calls, a)
  BY DEF Toggling, Toggled, OfArtist
<1> SUFFICES ASSUME token # NoUser
             PROVE  /\ \A b \in Artists : b \notin doubt' => ButtonOK(calls', b, artistIds', mine)
                    /\ LoadsOK(calls', mine)
  BY <1>5 DEF ButtonsInv
<1>7. /\ \A b \in Artists : b \notin doubt => ButtonOK(calls, b, artistIds, mine)
      /\ LoadsOK(calls, mine)
  BY DEF ButtonsInv
<1> HIDE DEF gone, age, mine, new
<1>8. ASSUME NEW b \in Artists, b # a, b \notin doubt' PROVE ButtonOK(calls', b, artistIds', mine)
  <2>1. ButtonOK(calls, b, artistIds, mine)
    BY <1>5, <1>7, <1>8
  <2>2. \A m \in DOMAIN new : ~ OfArtist(new[m], b)
    BY <1>1, <1>2, <1>8 DEF OfArtist
  <2>3. b \in artistIds' <=> b \in artistIds
    BY <1>5, <1>8 DEF Flipped
  <2>4. \A j \in DOMAIN calls : j \in gone => ~ OfArtist(calls[j], b)
    BY <1>3
  <2> QED
    BY <1>3, <2>1, <2>2, <2>3, <2>4, ButtonFrame
<1>9. ASSUME a \notin doubt' PROVE ButtonOK(calls', a, artistIds', mine)
  <2>1. ~ Toggled(calls, a)
    BY <1>5, <1>6, <1>9
  <2>2. ASSUME NEW k \in DOMAIN calls', OfArtist(calls'[k], a) PROVE calls'[k] = c
    BY <1>2, <1>3, <2>1, <2>2, CameFrom DEF Heir, OfArtist, Toggled
  <2>3. \A k, l \in DOMAIN calls' : OfArtist(calls'[k], a) /\ OfArtist(calls'[l], a) => k = l
    <3>1. PICK was : Were(was, calls, calls', gone, age, new)
      BY <1>3 DEF Moves
    <3>2. ASSUME NEW k \in DOMAIN calls', OfArtist(calls'[k], a) PROVE was[k] \in Int /\ -was[k] = 1
      <4>1. was[k] \in Int
        BY <3>1 DEF Were
      <4>2. ~(was[k] \in DOMAIN calls /\ Heir(calls[was[k]], calls'[k], age))
        BY <2>1, <3>2 DEF Toggled, OfArtist, Heir
      <4>3. -was[k] \in DOMAIN new
        BY <3>1, <4>2 DEF Were
      <4> QED
        BY <1>2, <4>1, <4>3
    <3> SUFFICES ASSUME NEW k \in DOMAIN calls', NEW l \in DOMAIN calls',
                        OfArtist(calls'[k], a), OfArtist(calls'[l], a)
                 PROVE  k = l
      OBVIOUS
    <3>3. was[k] = was[l]
      BY <3>2
    <3> QED
      BY <3>1, <3>3 DEF Were
  <2>4. Toggled(calls', a)
    <3>1. Len(calls) \in Nat /\ DOMAIN calls = 1..Len(calls) /\ 1 \in DOMAIN new
      BY <1>2, <1>3
    <3> DEFINE one == 1
    <3> HIDE DEF one
    <3>2. \E k \in DOMAIN calls' : calls'[k] = new[1]
      BY <1>3, <3>1, Arrived
    <3> QED
      BY <1>1, <1>2, <3>2 DEF Toggled, OfArtist
  <2>5. a \in artistIds' <=> a \notin artistIds
    BY <1>5 DEF Flipped
  <2>6. c.raced = {} => (a \in artistIds <=> a \in mine)
    BY <1>1, <1>7, <2>1 DEF ButtonOK
  <2>7. ToggleOK(c, artistIds', mine)
    BY <1>1, <1>4, <2>5, <2>6 DEF ToggleOK
  <2> QED
    BY <2>2, <2>3, <2>4, <2>7 DEF ButtonOK
<1>10. LoadsOK(calls', mine)
  <2> SUFFICES ASSUME NEW k \in DOMAIN calls', calls'[k].op = "load", ~ calls'[k].stale,
                      NEW b \in Artists, b \notin calls'[k].raced
               PROVE  /\ ~ Toggled(calls', b)
                      /\ calls'[k].at = "done" => (b \in calls'[k].ids <=> b \in mine)
    BY DEF LoadsOK, LoadOK
  <2>1. b # a
    BY <1>1
  <2>2. PICK j \in DOMAIN calls : Heir(calls[j], calls'[k], age)
    BY <1>1, <1>2, <1>3, CameFrom
  <2>3. /\ calls[j].op = "load" /\ ~ calls[j].stale /\ b \notin calls[j].raced
        /\ calls[j].at = calls'[k].at /\ calls[j].ids = calls'[k].ids
    BY <1>3, <2>2 DEF Heir
  <2>4. LoadOK(calls[j], calls, mine)
    BY <1>7 DEF LoadsOK
  <2>5. ~ Toggled(calls, b)
    BY <2>3, <2>4 DEF LoadOK
  <2>6. ~ Toggled(calls', b)
    BY <1>1, <1>2, <1>3, <2>1, <2>5, NotToggled DEF OfArtist
  <2> QED
    BY <2>3, <2>4, <2>6 DEF LoadOK
<1> QED
  BY <1>8, <1>9, <1>10

\* No click but the button's own changes what it shows.
LEMMA ButtonsClick ==
  ASSUME Basis, ButtonsInv, Clicks
  PROVE  ButtonsInv'
<1> USE DEF auth, tables, buttons, history
<1>1. ASSUME NEW c, Moved({}, "same", <<c>>), UNCHANGED <<token, follows, artistIds, doubt>>,
             c.op \notin {"toggle", "load"}
      PROVE  ButtonsInv'
  <2> DEFINE new == <<c>>
  <2>1. Moved({}, "same", new) /\ \A m \in DOMAIN new : Reads(new[m], calls)
    BY <1>1 DEF Reads
  <2> HIDE DEF new
  <2> QED
    BY <1>1, <2>1, ButtonsSame
<1>2. CASE LoadMore
  BY <1>1, <1>2, LoadMoreMoves DEF Basis, LoadMore
<1>3. CASE SaveSettings
  BY <1>1, <1>3, SaveSettingsMoves DEF Basis, SaveSettings
<1>4. CASE SignOut
  BY <1>4 DEF SignOut, ButtonsInv
<1>5. CASE Reload
  BY <1>5 DEF Reload, ButtonsInv
<1>6. ASSUME NEW passing \in Filters, FiltersChanged(passing) PROVE ButtonsInv'
  <2>1. PICK new : Moved({}, "same", new)
                   /\ \A m \in DOMAIN new : new[m].op = "page" \/ Mounted(new[m], token)
    BY <1>6, FiltersChangedMoves DEF Basis
  <2>2. \A m \in DOMAIN new : Reads(new[m], calls)
    <3> SUFFICES ASSUME NEW m \in DOMAIN new PROVE Reads(new[m], calls)
      OBVIOUS
    <3>1. CASE new[m].op = "page"
      BY <3>1 DEF Reads
    <3> QED
      BY <2>1, <3>1, MountedReads
  <2>3. UNCHANGED <<token, follows, artistIds, doubt>>
    BY <1>6 DEF FiltersChanged
  <2> QED
    BY <2>1, <2>2, <2>3, ButtonsSame
<1>7. ASSUME NEW e \in Events, DismissEvent(e) PROVE ButtonsInv'
  BY <1>1, <1>7, DismissEventMoves DEF Basis, DismissEvent
<1>8. ASSUME NEW a \in Artists, ToggleFollow(a) PROVE ButtonsInv'
  BY <1>8, ButtonsClicked
<1>9. ASSUME NEW u \in Users, Login(u) PROVE ButtonsInv'
  BY <1>1, <1>9, LoginMoves DEF Basis, Login
<1>10. ASSUME NEW u \in Users, AdoptToken(u) PROVE ButtonsInv'
  BY <1>1, <1>10, AdoptTokenMoves DEF Basis, AdoptToken
<1>11. ASSUME NEW v \in Views, Open(v) PROVE ButtonsInv'
  <2>1. PICK new : Moved({}, "same", new) /\ \A m \in DOMAIN new : Mounted(new[m], token)
    BY <1>11, OpenMoves DEF Basis
  <2>2. UNCHANGED <<token, follows, artistIds, doubt>>
    BY <1>11 DEF Open
  <2> QED
    BY <2>1, <2>2, MountedReads, ButtonsSame
<1> QED
  BY <1>2, <1>3, <1>4, <1>5, <1>6, <1>7, <1>8, <1>9, <1>10, <1>11 DEF Clicks

\* No step makes a button lie.
LEMMA ButtonsStep ==
  ASSUME Basis, Basis', ButtonsInv, Next
  PROVE  ButtonsInv'
<1> DEFINE new == <<>>
<1>1. CASE \/ \E u \in Users, ranking \in Rankings : ListingChange(u, ranking)
           \/ \E e \in Events : PushMatch(e)
           \/ MatchReceived
  <2>1. Moved({}, "same", new) /\ \A m \in DOMAIN new : Reads(new[m], calls)
    BY <1>1, BasisList
  <2>2. UNCHANGED <<token, follows, artistIds, doubt>>
    BY <1>1 DEF ListingChange, PushMatch, MatchReceived, tables, auth, buttons, history
  <2> HIDE DEF new
  <2> QED
    BY <2>1, <2>2, ButtonsSame
<1> QED
  BY <1>1, ButtonsAnswers, ButtonsArrive, ButtonsClick DEF Next

-------------------------------------------------------------------------------
(* The whole *)

\* What holds in every state: the types and what calls are about, and what one waits for, the
\* session, the dismissals, the pages and the buttons.
IInv == Basis /\ WaitInv /\ SessionInv /\ DismissedInv /\ PagesInv /\ ButtonsInv

\* It holds at first.
LEMMA IInvInit ==
  ASSUME Init
  PROVE  IInv
<1>1. Basis
  BY BasisInit
<1>2. {stored.token, stored.user} \subseteq Users \cup {NoUser}
      /\ (stored.token = NoUser \/ stored.user \in Users)
  BY <1>1 DEF Basis, Typed, TypeOK, StoredOK
<1> DEFINE new == SessionCalls(stored)
<1>3. /\ stored.token # NoUser => DOMAIN new = {1}
      /\ \A m \in DOMAIN new : /\ m = 1 /\ Sent(new[m]) /\ new[m].op = "session"
                               /\ new[m].user = stored.token /\ new[m].what = stored.user
  BY <1>2, SessionCallsAre
<1>4. calls = new
  BY DEF Init
<1> HIDE DEF new
<1>5. /\ token = NoUser /\ user = NoUser /\ status = "idle" /\ authStatus = "idle"
      /\ pendingToggles = {} /\ pushes = <<>> /\ mixed = FALSE
      /\ stored = SignedOut \/ \E u \in Users : stored = Account(u)
  BY DEF Init
<1>6. \A k \in DOMAIN calls : /\ k = 1 /\ Sent(calls[k]) /\ calls[k].op = "session"
                              /\ calls[k].user = stored.token /\ calls[k].what = stored.user
  BY <1>3, <1>4
<1>7. WaitInv
  BY <1>5 DEF WaitInv
<1>8. SessionInv
  <2>1. stored = Account(stored.token) /\ stored.user = stored.token
    BY <1>5 DEF SignedOut, Account
  <2>2. stored.token # NoUser => 1 \in DOMAIN calls /\ FreshSession(calls[1])
                                 /\ calls[1].user = stored.token
    BY <1>3, <1>4, <1>6 DEF FreshSession, Sent
  <2>3. stored.token = NoUser => user = token /\ stored = Account(token)
    BY <1>5, <2>1
  <2> QED
    BY <1>5, <1>6, <2>1, <2>2, <2>3 DEF SessionInv, FreshSession
<1>9. DismissedInv
  BY <1>5, <1>6 DEF DismissedInv, ReadBefore
<1>10. PagesInv
  BY <1>5, <1>6 DEF PagesInv, PageOK
<1>11. ButtonsInv
  BY <1>5 DEF ButtonsInv
<1> QED
  BY <1>1, <1>7, <1>8, <1>9, <1>10, <1>11 DEF IInv

\* And after every step, and when there is none.
LEMMA IInvStep ==
  ASSUME IInv, [Next]_vars
  PROVE  IInv'
<1>1. CASE Next
  <2>1. Basis'
    BY <1>1, BasisStep DEF IInv
  <2> QED
    BY <1>1, <2>1, WaitStep, SessionStep, DismissedStep, PagesStep, ButtonsStep DEF IInv
<1>2. CASE UNCHANGED vars
  <2> USE <1>2 DEF vars, tables, auth, feed, buttons, history, bounds, IInv
  <2>1. Basis'
    BY BasisStutter
  <2>2. WaitInv'
    BY DEF WaitInv
  <2>3. SessionInv'
    BY DEF SessionInv
  <2>4. DismissedInv'
    BY DEF DismissedInv, ReadBefore
  <2>5. PagesInv'
    BY DEF PagesInv, Listing
  <2>6. ButtonsInv'
    BY DEF ButtonsInv
  <2> QED
    BY <2>1, <2>2, <2>3, <2>4, <2>5, <2>6
<1> QED
  BY <1>1, <1>2

\* The stores and the calls under way satisfy the invariant in every reachable state.
THEOREM WebInvariance == Spec => []IInv
<1>1. Init => IInv
  BY IInvInit
<1>2. IInv /\ [Next]_vars => IInv'
  BY IInvStep
<1> QED
  BY <1>1, <1>2, PTL DEF Spec

\* The tables, the stores and the calls have their types.
THEOREM WebTypeCorrect == Spec => []TypeOK
<1>1. IInv => TypeOK
  BY DEF IInv, Basis, Typed
<1> QED
  BY <1>1, WebInvariance, PTL

\* The feed is the gateway's list up to the cursor, whatever pages, filters, pushes and
\* dismissals arrive in whatever order (web/src/store/feedSlice.ts:94).
THEOREM PagesLineUpHolds == Spec => []PagesLineUp
<1>1. IInv => PagesLineUp
  <2> SUFFICES ASSUME IInv, token # NoUser, lined # NotLined, lined = version[token]
               PROVE  LET all == Listing(token, filters)
                      IN /\ hasMore => cursor < Len(all)
                         /\ NotFresh(items) = NotFresh(SubSeq(all, 1, IF hasMore THEN cursor ELSE Len(all)))
    BY DEF PagesLineUp
  <2> DEFINE all == Listing(token, filters)
  <2>1. InOrder(items, fresh, cursor, hasMore, all) /\ hasMore \in BOOLEAN
    BY DEF IInv, PagesInv, Basis, Typed, TypeOK
  <2> HIDE DEF all
  <2>2. /\ hasMore => cursor < Len(all)
        /\ NotFresh(items) = NotFresh(SubSeq(all, 1, IF hasMore THEN cursor ELSE Len(all)))
    <3>1. CASE hasMore = TRUE
      BY <2>1, <3>1 DEF InOrder, LinedUp, NotFresh
    <3>2. CASE hasMore = FALSE
      BY <2>1, <3>2 DEF InOrder, LinedUp, NotFresh
    <3> QED
      BY <2>1, <3>1, <3>2
  <2> QED
    BY <2>2 DEF all
<1> QED
  BY <1>1, WebInvariance, PTL

\* A show that was dismissed is shown only by an older answer, or until its dismissal is
\* answered (web/src/store/feedSlice.ts:107).
THEOREM DismissedStaysAwayHolds == Spec => []DismissedStaysAway
<1>1. IInv => DismissedStaysAway
  BY DEF IInv, DismissedInv, Hiding, DismissedStaysAway
<1> QED
  BY <1>1, WebInvariance, PTL

\* A follow button says whether the gateway has the follow, outside the races that the
\* property names (web/src/store/followsSlice.ts:68).
THEOREM ButtonsTellTheTruthHolds == Spec => []ButtonsTellTheTruth
<1>1. IInv => ButtonsTellTheTruth
  <2> SUFFICES ASSUME IInv, token # NoUser, NEW a \in Artists, a \notin doubt
               PROVE  \/ a \in artistIds <=> a \in follows[token]
                      \/ \E i \in Toggling(a) : calls[i].user = token
    BY DEF ButtonsTellTheTruth
  <2>1. ButtonOK(calls, a, artistIds, follows[token])
    BY DEF IInv, ButtonsInv
  <2>2. CASE ~ Toggled(calls, a)
    BY <2>1, <2>2 DEF ButtonOK
  <2>3. CASE Toggled(calls, a)
    <3>1. PICK i \in DOMAIN calls : OfArtist(calls[i], a)
      BY <2>3 DEF Toggled
    <3>2. ~ calls[i].stale /\ Own(calls[i], token)
      BY <2>1, <3>1 DEF ButtonOK, ToggleOK, IInv, Basis, CallsOK
    <3>3. calls[i].user = token /\ i \in Toggling(a)
      BY <3>1, <3>2 DEF Own, OfArtist, Toggling
    <3> QED
      BY <3>3
  <2> QED
    BY <2>2, <2>3
<1> QED
  BY <1>1, WebInvariance, PTL

\* What waits, waits for a request that is under way (web/src/store/feedSlice.ts:92).
THEOREM WaitsAreForCallsHolds == Spec => []WaitsAreForCalls
<1>1. IInv => WaitsAreForCalls
  <2> SUFFICES ASSUME WaitInv PROVE WaitsAreForCalls
    BY DEF IInv
  <2>1. status = "loading" => Waiting(calls)
    BY DEF WaitInv, First, Waiting
  <2>2. ASSUME NEW a \in pendingToggles PROVE Toggling(a) # {}
    BY DEF WaitInv, OfArtist, Toggling
  <2>3. authStatus = "loading" => \E i \in DOMAIN calls : calls[i].op = "login"
    BY DEF WaitInv, FromForm
  <2> QED
    BY <2>1, <2>2, <2>3 DEF WaitsAreForCalls
<1> QED
  BY <1>1, WebInvariance, PTL

\* The token, the profile and what the browser keeps are of one account, unless a late answer
\* was applied to another session (web/src/store/authSlice.ts:73).
THEOREM SessionAgreesHolds == Spec => []SessionAgrees
<1>1. IInv => SessionAgrees
  BY DEF IInv, SessionInv, FreshSession, SessionAgrees
<1> QED
  BY <1>1, WebInvariance, PTL
===============================================================================
