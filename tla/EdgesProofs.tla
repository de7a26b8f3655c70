------------------------------ MODULE EdgesProofs ------------------------------
(***************************************************************************)
(* What holds of the geocoder, the scraper, the enricher's lookups and     *)
(* discovery for any searches, runs, pages, artists, callers, cache sizes, *)
(* intervals, lifetimes and limits, and so of the five edges together.     *)
(***************************************************************************)
EXTENDS MCEdges, LiveFeedProofs, Recursion, FunctionTheorems, FiniteSetTheorems,
        SequenceTheorems, TLAPS

-------------------------------------------------------------------------------
(* The geocoder's cache *)

Distinct(s) == \A i, j \in DOMAIN s : s[i] = s[j] => i = j

\* An element that is taken out and put at the end.
LEMMA MovedToEnd ==
  ASSUME NEW S, NEW s \in Seq(S), NEW n \in Nat, Len(s) = n, NEW i \in 1..n, NEW k \in S
  PROVE  /\ Append(RemoveAt(s, i), k) \in Seq(S)
         /\ Len(Append(RemoveAt(s, i), k)) = n
         /\ \A j \in 1..n :
              Append(RemoveAt(s, i), k)[j] =
                IF j < i THEN s[j] ELSE IF j < n THEN s[j + 1] ELSE k
<1> DEFINE left == SubSeq(s, 1, i - 1)
           right == SubSeq(s, i + 1, n)
<1>1. \A j \in 1..n : s[j] \in S
  OBVIOUS
<1>2. /\ left \in Seq(S) /\ Len(left) = i - 1
      /\ \A j \in 1..(i - 1) : left[j] = s[j]
  <2>1. 1 \in Int /\ i - 1 \in Int /\ \A j \in 1..(i - 1) : s[j] \in S
    BY <1>1
  <2>2. /\ left \in Seq(S) /\ Len(left) = IF 1 <= i - 1 THEN i - 1 - 1 + 1 ELSE 0
        /\ \A j \in 1..(i - 1 - 1 + 1) : left[j] = s[1 + j - 1]
    BY <2>1, SubSeqProperties
  <2> QED
    BY <2>2
<1>3. /\ right \in Seq(S) /\ Len(right) = n - i
      /\ \A j \in 1..(n - i) : right[j] = s[i + j]
  <2>1. i + 1 \in Int /\ n \in Int /\ \A j \in (i + 1)..n : s[j] \in S
    BY <1>1
  <2>2. /\ right \in Seq(S) /\ Len(right) = IF i + 1 <= n THEN n - (i + 1) + 1 ELSE 0
        /\ \A j \in 1..(n - (i + 1) + 1) : right[j] = s[i + 1 + j - 1]
    BY <2>1, SubSeqProperties
  <2>3. n - (i + 1) + 1 = n - i /\ \A j \in 1..(n - i) : i + 1 + j - 1 = i + j
    OBVIOUS
  <2>4. Len(right) = n - i
    BY <2>2
  <2>5. ASSUME NEW j \in 1..(n - i)
        PROVE  right[j] = s[i + j]
    <3>1. right[j] = s[i + 1 + j - 1]
      BY <2>2, <2>3
    <3> QED
      BY <2>3, <3>1
  <2> QED
    BY <2>2, <2>4, <2>5
<1> DEFINE rest == left \o right
<1>4. /\ rest \in Seq(S) /\ Len(rest) = n - 1
      /\ \A j \in 1..(n - 1) : rest[j] = IF j < i THEN s[j] ELSE s[j + 1]
  <2> HIDE DEF left, right
  <2>1. /\ rest \in Seq(S) /\ Len(rest) = Len(left) + Len(right)
        /\ \A j \in 1..(Len(left) + Len(right)) :
             rest[j] = IF j <= Len(left) THEN left[j] ELSE right[j - Len(left)]
    BY <1>2, <1>3, ConcatProperties
  <2> HIDE DEF rest
  <2>2. Len(left) + Len(right) = n - 1
    BY <1>2, <1>3
  <2>3. ASSUME NEW j \in 1..(n - 1), j < i
        PROVE  rest[j] = s[j]
    <3>1. j <= Len(left) /\ j \in 1..(i - 1)
      BY <1>2, <2>3
    <3> QED
      BY <1>2, <2>1, <2>2, <3>1
  <2>4. ASSUME NEW j \in 1..(n - 1), ~ j < i
        PROVE  rest[j] = s[j + 1]
    <3>1. /\ ~ j <= Len(left) /\ j - Len(left) \in 1..(n - i)
          /\ i + (j - Len(left)) = j + 1
      BY <1>2, <2>4
    <3>2. rest[j] = right[j - Len(left)]
      BY <2>1, <2>2, <3>1
    <3> QED
      BY <1>3, <3>1, <3>2
  <2> QED
    BY <2>1, <2>2, <2>3, <2>4
<1>5. Append(RemoveAt(s, i), k) = Append(rest, k)
  BY DEF RemoveAt
<1> HIDE DEF rest
<1>6. /\ Append(rest, k) \in Seq(S) /\ Len(Append(rest, k)) = n
      /\ \A j \in 1..(n - 1) : Append(rest, k)[j] = rest[j]
      /\ Append(rest, k)[n] = k
  <2>1. Len(rest) + 1 = n
    BY <1>4
  <2> QED
    BY <1>4, <2>1, AppendProperties
<1>7. ASSUME NEW j \in 1..n
      PROVE  Append(rest, k)[j] = IF j < i THEN s[j] ELSE IF j < n THEN s[j + 1] ELSE k
  <2>1. CASE j < n
    <3>1. j \in 1..(n - 1)
      BY <2>1
    <3>2. Append(rest, k)[j] = rest[j] /\ rest[j] = IF j < i THEN s[j] ELSE s[j + 1]
      BY <1>4, <1>6, <3>1
    <3> QED
      BY <2>1, <3>2
  <2>2. CASE j = n
    <3>1. ~ j < i /\ ~ j < n
      BY <2>2
    <3>2. Append(rest, k)[j] = k
      BY Zenon, <1>6, <2>2
    <3> QED
      BY Zenon, <3>1, <3>2
  <2>3. j < n \/ j = n
    OBVIOUS
  <2> QED
    BY Zenon, <2>1, <2>2, <2>3
<1> QED
  BY <1>5, <1>6, <1>7

\* Moving a query to the end of the cache neither adds nor removes one.
LEMMA TouchedKeeps ==
  ASSUME cache \in Seq(Places), Distinct(cache), NEW k \in Places, Cached(k)
  PROVE  /\ Touched(k) \in Seq(Places) /\ Len(Touched(k)) = Len(cache)
         /\ Distinct(Touched(k)) /\ Range(Touched(k)) = Range(cache)
<1>1. PICK n \in Nat : Len(cache) = n /\ DOMAIN cache = 1..n
  OBVIOUS
<1>2. PICK i \in 1..n : i = (CHOOSE j \in DOMAIN cache : cache[j] = k) /\ cache[i] = k
  <2>1. \E j \in DOMAIN cache : cache[j] = k
    BY DEF Cached, Range
  <2> QED
    BY <1>1, <2>1
<1>3. \A j, m \in 1..n : cache[j] = cache[m] => j = m
  BY <1>1 DEF Distinct
<1> DEFINE t == Touched(k)
<1>4. t = Append(RemoveAt(cache, i), k)
  BY <1>2 DEF Touched
<1> HIDE DEF t
<1>7. /\ t \in Seq(Places) /\ Len(t) = n /\ DOMAIN t = 1..n
      /\ \A j \in 1..n : t[j] = IF j < i THEN cache[j] ELSE IF j < n THEN cache[j + 1] ELSE k
  <2>1. /\ t \in Seq(Places) /\ Len(t) = n
        /\ \A j \in 1..n : t[j] = IF j < i THEN cache[j] ELSE IF j < n THEN cache[j + 1] ELSE k
    BY <1>1, <1>4, MovedToEnd
  <2> QED
    BY <2>1
<1>8. Distinct(t)
  <2> SUFFICES ASSUME NEW a \in 1..n, NEW b \in 1..n, t[a] = t[b]
               PROVE  a = b
    BY <1>7 DEF Distinct
  <2> DEFINE old(j) == IF j < i THEN j ELSE IF j < n THEN j + 1 ELSE i
  <2>1. /\ old(a) \in 1..n /\ t[a] = cache[old(a)]
        /\ old(b) \in 1..n /\ t[b] = cache[old(b)]
    BY <1>2, <1>7
  <2>2. old(a) = old(b)
    BY <1>3, <2>1
  <2> QED
    BY <2>2
<1>9. Range(t) \subseteq Range(cache)
  <2>1. ASSUME NEW j \in 1..n
        PROVE  \E m \in 1..n : t[j] = cache[m]
    <3>1. CASE j < i
      BY <1>7, <3>1
    <3>2. CASE ~ j < i /\ j < n
      BY <1>7, <3>2
    <3>3. CASE ~ j < i /\ ~ j < n
      BY <1>2, <1>7, <3>3
    <3> QED
      BY <3>1, <3>2, <3>3
  <2> QED
    BY ZenonT(30), <1>1, <1>7, <2>1 DEF Range
<1>10. Range(cache) \subseteq Range(t)
  <2>1. ASSUME NEW j \in 1..n
        PROVE  \E m \in 1..n : t[m] = cache[j]
    <3>1. CASE j < i
      BY <1>7, <3>1
    <3>2. CASE j = i
      <4>1. t[n] = k /\ n \in 1..n
        BY <1>7
      <4> QED
        BY <1>2, <3>2, <4>1
    <3>3. CASE j > i
      <4>1. j - 1 \in 1..n /\ ~ (j - 1 < i) /\ j - 1 < n /\ (j - 1) + 1 = j
        BY <3>3
      <4> QED
        BY <1>7, <4>1
    <3> QED
      BY <3>1, <3>2, <3>3
  <2>2. \A x \in Range(cache) : \E j \in 1..n : x = cache[j]
    BY <1>1 DEF Range
  <2>3. \A m \in 1..n : t[m] \in Range(t)
    BY <1>7 DEF Range
  <2> QED
    BY <2>1, <2>2, <2>3
<1> QED
  BY <1>1, <1>7, <1>8, <1>9, <1>10 DEF t

\* Storing a query that is not cached adds it, and gives up the oldest when the cache is full.
LEMMA StoredAdds ==
  ASSUME cache \in Seq(Places), Distinct(cache), Len(cache) <= CacheSize,
         CacheSize \in Nat \ {0}, NEW k \in Places, ~ Cached(k)
  PROVE  /\ Stored(k) \in Seq(Places) /\ Len(Stored(k)) <= CacheSize /\ Distinct(Stored(k))
         /\ Len(cache) < CacheSize => Range(Stored(k)) = Range(cache) \cup {k}
         /\ ~ Len(cache) < CacheSize =>
              /\ Head(cache) \in Range(cache) /\ Head(cache) \in Places
              /\ Range(Stored(k)) = (Range(cache) \ {Head(cache)}) \cup {k}
<1>1. PICK n \in Nat : /\ Len(cache) = n /\ DOMAIN cache = 1..n /\ n <= CacheSize
                       /\ \A j \in 1..n : cache[j] # k
  BY DEF Cached, Range
<1>2. CASE n < CacheSize
  <2>1. Stored(k) = Append(cache, k)
    BY <1>1, <1>2 DEF Stored
  <2>2. /\ Append(cache, k) \in Seq(Places) /\ Len(Append(cache, k)) = n + 1
        /\ DOMAIN Append(cache, k) = 1..(n + 1)
        /\ \A j \in 1..(n + 1) : Append(cache, k)[j] = IF j <= n THEN cache[j] ELSE k
    BY <1>1
  <2>3. Distinct(Append(cache, k))
    BY <1>1, <2>2 DEF Distinct
  <2>4. Range(Append(cache, k)) = Range(cache) \cup {k}
    BY <1>1, <2>2 DEF Range
  <2> QED
    BY <1>1, <1>2, <2>1, <2>2, <2>3, <2>4
<1>3. CASE ~ n < CacheSize
  <2>1. Stored(k) = Append(Tail(cache), k) /\ n = CacheSize /\ n >= 1
    <3>1. Stored(k) = Append(Tail(cache), k)
      BY <1>1, <1>3 DEF Stored
    <3> QED
      BY <1>1, <1>3, <3>1
  <2>2. Head(cache) = cache[1] /\ 1 \in 1..n
    BY <1>1, <2>1
  <2>3. /\ Tail(cache) \in Seq(Places) /\ Len(Tail(cache)) = n - 1
        /\ \A j \in 1..(n - 1) : Tail(cache)[j] = cache[j + 1]
    BY <1>1, <2>1
  <2>4. /\ Stored(k) \in Seq(Places) /\ Len(Stored(k)) = n /\ DOMAIN Stored(k) = 1..n
        /\ \A j \in 1..n : Stored(k)[j] = IF j < n THEN cache[j + 1] ELSE k
    BY <1>1, <2>1, <2>3
  <2>5. Distinct(Stored(k))
    <3> SUFFICES ASSUME NEW a \in 1..n, NEW b \in 1..n, Stored(k)[a] = Stored(k)[b]
                 PROVE  a = b
      BY <2>4 DEF Distinct
    <3>1. \A j, m \in 1..n : cache[j] = cache[m] => j = m
      BY <1>1 DEF Distinct
    <3>2. CASE a < n /\ b < n
      <4>1. a + 1 \in 1..n /\ b + 1 \in 1..n /\ cache[a + 1] = cache[b + 1]
        BY <1>1, <2>4, <3>2
      <4> QED
        BY <3>1, <4>1
    <3>3. CASE ~ (a < n /\ b < n)
      BY <1>1, <2>1, <2>4, <3>3
    <3> QED
      BY <3>2, <3>3
  <2>6. Range(Stored(k)) \subseteq (Range(cache) \ {cache[1]}) \cup {k}
    BY <1>1, <2>2, <2>4 DEF Range, Distinct
  <2>7. (Range(cache) \ {cache[1]}) \cup {k} \subseteq Range(Stored(k))
    <3>1. k \in Range(Stored(k))
      BY <1>1, <2>1, <2>4 DEF Range
    <3>2. ASSUME NEW j \in 1..n, cache[j] # cache[1]
          PROVE  cache[j] \in Range(Stored(k))
      <4>1. j - 1 \in 1..n /\ j - 1 < n /\ Stored(k)[j - 1] = cache[j]
        BY <1>1, <2>4, <3>2
      <4> QED
        BY <2>4, <4>1 DEF Range
    <3> QED
      BY <1>1, <3>1, <3>2 DEF Range
  <2>8. Head(cache) \in Range(cache) /\ Head(cache) \in Places
    BY <1>1, <2>2 DEF Range
  <2> QED
    BY <1>1, <1>3, <2>1, <2>2, <2>4, <2>5, <2>6, <2>7, <2>8
<1> QED
  BY <1>2, <1>3

-------------------------------------------------------------------------------
(* The geocoder's lock, and what it keeps apart *)

Holds(p) == search[p].at \in {"sleeping", "asking"}

\* Who sleeps or asks is who has the lock; those in the queue do neither, and are in it once.
LockOK ==
  /\ \A p \in Pickers : Holds(p) <=> holder = p
  /\ \A i \in DOMAIN waiting : search[waiting[i]].at = "queued"
  /\ Distinct(waiting)

\* Between requests, the code's clock is the time since a request was under way.
ClockOK == (\A p \in Pickers : search[p].at # "asking") => quiet = since

\* The cache holds a query once, and not the one the lock was taken for.
CacheOK ==
  /\ Distinct(cache)
  /\ \A p \in Pickers : Holds(p) => ~ Cached(search[p].key)

GeoInv == GeoTypeOK /\ LockOK /\ ClockOK /\ CacheOK /\ AskedOnce

\* Nothing is cached, waited for or asked at first.
LEMMA GeoInitially == GeoInit => GeoInv
<1> SUFFICES ASSUME GeoInit PROVE GeoInv
  OBVIOUS
<1> USE GeoAssumption DEF GeoInit, Idle
<1>1. Range(cache) = {} /\ cache \in Seq(Places) /\ Len(cache) = 0 /\ waiting \in Seq(Pickers)
  BY DEF Range
<1>2. GeoTypeOK
  BY <1>1 DEF GeoTypeOK, GeoAssumption
<1>3. LockOK
  BY <1>1 DEF LockOK, Holds, Distinct, GeoAssumption
<1>4. ClockOK /\ CacheOK
  BY DEF ClockOK, CacheOK, Holds, Distinct
<1>5. AskedOnce
  BY <1>1 DEF AskedOnce, InFlight, Cached
<1> QED
  BY <1>2, <1>3, <1>4, <1>5 DEF GeoInv

\* A search that is submitted.
LEMMA SearchKeeps ==
  ASSUME GeoInv, NEW p \in Pickers, NEW k \in Places, Search(p, k)
  PROVE  GeoInv'
<1> USE DEF GeoInv
<1>1. CASE Cached(k)
  <2>1. cache' = Touched(k) /\ UNCHANGED <<search, waiting>>
    BY <1>1 DEF Search
  <2>2. /\ cache' \in Seq(Places) /\ Len(cache') = Len(cache)
        /\ Distinct(cache') /\ Range(cache') = Range(cache)
    BY <1>1, <2>1, TouchedKeeps DEF GeoTypeOK, CacheOK
  <2>3. GeoTypeOK'
    BY <2>1, <2>2, GeoAssumption DEF GeoTypeOK, GeoAssumption, Search
  <2>4. LockOK' /\ ClockOK'
    BY <2>1 DEF LockOK, ClockOK, Holds, Search, Distinct
  <2>5. CacheOK' /\ AskedOnce'
    BY <2>1, <2>2 DEF CacheOK, AskedOnce, Cached, Holds, InFlight, Search
  <2> QED
    BY <2>3, <2>4, <2>5
<1>2. CASE ~ Cached(k)
  <2> DEFINE row == [at |-> "queued", key |-> k]
  <2>1. /\ search[p].at = "idle" /\ search' = [search EXCEPT ![p] = row]
        /\ waiting' = Append(waiting, p)
        /\ UNCHANGED <<cache, holder, since, quiet, asked, failed, dropped>>
    BY <1>2 DEF Search, Idle
  <2>2. /\ search'[p] = row /\ \A q \in Pickers : q # p => search'[q] = search[q]
    BY <2>1 DEF GeoTypeOK
  <2>3. GeoTypeOK'
    BY <2>1, GeoAssumption DEF GeoTypeOK, GeoAssumption, Search
  <2>4. \A q \in Pickers : /\ Holds(q)' <=> Holds(q)
                           /\ Holds(q) => search'[q] = search[q]
                           /\ search'[q].at = "asking" <=> search[q].at = "asking"
    BY <2>1, <2>2 DEF Holds
  <2>5. LockOK'
    <3>1. \A i \in DOMAIN waiting : waiting[i] \in Pickers \ {p}
      BY <2>1 DEF GeoTypeOK, LockOK
    <3>2. /\ DOMAIN waiting' = DOMAIN waiting \cup {Len(waiting) + 1}
          /\ \A i \in DOMAIN waiting : waiting'[i] = waiting[i]
          /\ waiting'[Len(waiting) + 1] = p
      BY <2>1 DEF GeoTypeOK
    <3>3. \A i \in DOMAIN waiting' : search'[waiting'[i]].at = "queued"
      BY <2>2, <3>1, <3>2 DEF LockOK
    <3>4. Distinct(waiting')
      BY <3>1, <3>2 DEF LockOK, Distinct
    <3> QED
      BY <2>1, <2>4, <3>3, <3>4 DEF LockOK, Distinct
  <2>6. ClockOK' /\ CacheOK'
    BY <2>1, <2>4 DEF ClockOK, CacheOK, Cached
  <2>7. \A m \in Places : InFlight(m)' <=> InFlight(m)
    BY <2>2, <2>4 DEF InFlight, Holds
  <2>8. AskedOnce'
    BY <2>1, <2>7 DEF AskedOnce, Cached
  <2> QED
    BY <2>3, <2>5, <2>6, <2>8
<1> QED
  BY <1>1, <1>2

\* Whoever has the lock and asks for a query that is not cached, or sleeps first.
AskOutcome(p) ==
  /\ search' \in [Pickers -> {Idle} \cup [at : {"queued", "sleeping", "asking"}, key : Places]]
  /\ {since', quiet'} \subseteq 0..Interval /\ asked' \in [Places -> Nat]
  /\ \A q \in Pickers \ {p} : search'[q] = search[q]
  /\ \A q \in Pickers : Holds(q)' <=> q = p
  /\ ClockOK' /\ CacheOK' /\ AskedOnce'
  /\ \A q \in Pickers : search'[q].at = "asking" => since >= Interval

\* Who asks Nominatim alone, for a place that is not cached, asks for it once.
LEMMA AskKeeps ==
  ASSUME GeoInv, UNCHANGED <<since, cache, searches, failed, dropped>>
  PROVE  \A p \in Pickers, k \in Places :
           /\ Ask(p, k) /\ ~ Cached(k) /\ search[p].at # "asking"
           /\ \A q \in Pickers \ {p} : ~ Holds(q)
           => AskOutcome(p)
<1> SUFFICES ASSUME NEW p \in Pickers, NEW k \in Places, Ask(p, k), ~ Cached(k),
                    search[p].at # "asking", \A q \in Pickers \ {p} : ~ Holds(q)
             PROVE  AskOutcome(p)
  OBVIOUS
<1> USE DEF GeoInv
<1>1. PICK row \in [at : {"sleeping", "asking"}, key : Places] :
        /\ row.key = k /\ search' = [search EXCEPT ![p] = row]
        /\ row.at = "sleeping" => UNCHANGED <<asked, quiet>>
        /\ row.at = "asking" => /\ since >= Interval /\ quiet' = 0
                                /\ asked' = [asked EXCEPT ![k] = @ + 1]
  <2>1. CASE since < Interval
    <3>1. [at |-> "sleeping", key |-> k] \in [at : {"sleeping", "asking"}, key : Places]
      OBVIOUS
    <3> QED
      BY <2>1, <3>1 DEF Ask
  <2>2. CASE ~ since < Interval
    <3>1. [at |-> "asking", key |-> k] \in [at : {"sleeping", "asking"}, key : Places]
      OBVIOUS
    <3>2. since >= Interval
      BY <2>2, GeoAssumption DEF GeoTypeOK, GeoAssumption
    <3> QED
      BY <2>2, <3>1, <3>2 DEF Ask
  <2> QED
    BY <2>1, <2>2
<1>2. search'[p] = row /\ \A q \in Pickers \ {p} : search'[q] = search[q]
  BY <1>1 DEF GeoTypeOK
<1>3. /\ search' \in [Pickers -> {Idle} \cup
                                 [at : {"queued", "sleeping", "asking"}, key : Places]]
      /\ {since', quiet'} \subseteq 0..Interval /\ asked' \in [Places -> Nat]
  BY <1>1, <1>2, GeoAssumption DEF GeoTypeOK, GeoAssumption
<1>4. \A q \in Pickers : Holds(q)' <=> q = p
  BY <1>1, <1>2 DEF Holds
<1>5. ClockOK'
  <2>1. CASE row.at = "sleeping"
    <3>1. \A q \in Pickers : search[q].at # "asking"
      BY DEF Holds
    <3> QED
      BY <1>1, <2>1, <3>1 DEF ClockOK
  <2>2. CASE row.at = "asking"
    BY <1>2, <2>2 DEF ClockOK
  <2> QED
    BY <1>1, <2>1, <2>2
<1>6. CacheOK'
  BY <1>1, <1>2, <1>4 DEF CacheOK, Cached
<1>7. AskedOnce'
  <2>1. \A m \in Places : ~ InFlight(m)
    BY DEF InFlight, Holds
  <2>2. \A m \in Places : InFlight(m)' <=> row.at = "asking" /\ m = k
    BY <1>1, <1>2, <1>4 DEF InFlight, Holds
  <2>3. \A m \in Places : Cached(m)' <=> Cached(m)
    BY DEF Cached
  <2>4. \A m \in Places : asked'[m] = asked[m] + (IF row.at = "asking" /\ m = k THEN 1 ELSE 0)
    BY <1>1 DEF GeoTypeOK
  <2>5. ASSUME NEW m \in Places
        PROVE  asked'[m] = failed'[m] + dropped'[m]
                           + (IF Cached(m)' \/ InFlight(m)' THEN 1 ELSE 0)
    <3>1. asked[m] = failed[m] + dropped[m] + (IF Cached(m) THEN 1 ELSE 0)
      BY <2>1 DEF AskedOnce
    <3>2. asked[m] \in Nat /\ failed[m] \in Nat /\ dropped[m] \in Nat
      BY DEF GeoTypeOK
    <3> QED
      BY <2>2, <2>3, <2>4, <3>1, <3>2
  <2> QED
    BY <2>5 DEF AskedOnce
<1>8. \A q \in Pickers : search'[q].at = "asking" => since >= Interval
  BY <1>1, <1>2 DEF Holds
<1> QED
  BY Zenon, <1>2, <1>3, <1>4, <1>5, <1>6, <1>7, <1>8 DEF AskOutcome

\* The head of the queue takes the lock.
LEMMA EnterKeeps ==
  ASSUME GeoInv, Enter
  PROVE  /\ GeoInv'
         /\ \A q \in Pickers : search'[q].at = "asking" => since >= Interval
<1> USE DEF GeoInv
<1>1. PICK p \in Pickers, k \in Places :
        /\ p = Head(waiting) /\ k = search[p].key /\ search[p].at = "queued"
        /\ 1 \in DOMAIN waiting /\ waiting[1] = p
  BY DEF Enter, GeoTypeOK, LockOK, Idle
<1>2. /\ waiting' = Tail(waiting) /\ holder = NoPicker
      /\ UNCHANGED <<since, searches, failed, dropped>>
  BY DEF Enter
<1>3. \A q \in Pickers : ~ Holds(q)
  BY <1>2, GeoAssumption DEF LockOK, GeoAssumption
<1>4. /\ waiting' \in Seq(Pickers)
      /\ \A i \in DOMAIN waiting' : i + 1 \in DOMAIN waiting /\ waiting'[i] = waiting[i + 1]
  BY <1>1, <1>2 DEF GeoTypeOK
<1>5. \A i \in DOMAIN waiting' : waiting'[i] \in Pickers \ {p}
  <2> SUFFICES ASSUME NEW i \in DOMAIN waiting' PROVE waiting'[i] \in Pickers \ {p}
    OBVIOUS
  <2>1. i + 1 \in DOMAIN waiting /\ i + 1 # 1 /\ waiting'[i] = waiting[i + 1]
    BY <1>4
  <2>2. waiting[i + 1] # waiting[1]
    BY <1>1, <2>1 DEF LockOK, Distinct
  <2> QED
    BY <1>1, <1>4, <2>1, <2>2
<1>6. Distinct(waiting')
  <2> SUFFICES ASSUME NEW i \in DOMAIN waiting', NEW j \in DOMAIN waiting',
                      waiting'[i] = waiting'[j]
               PROVE  i = j
    BY DEF Distinct
  <2>1. i + 1 = j + 1
    BY <1>4 DEF LockOK, Distinct
  <2> QED
    BY <1>4, <2>1
<1>7. ASSUME \A q \in Pickers \ {p} : search'[q] = search[q]
      PROVE  \A i \in DOMAIN waiting' : search'[waiting'[i]].at = "queued"
  BY <1>4, <1>5, <1>7 DEF LockOK
<1>8. CASE Cached(k)
  <2>1. /\ search' = [search EXCEPT ![p] = Idle] /\ cache' = Touched(k)
        /\ UNCHANGED <<holder, asked, quiet>>
    BY <1>1, <1>8 DEF Enter
  <2>2. /\ cache' \in Seq(Places) /\ Len(cache') = Len(cache)
        /\ Distinct(cache') /\ Range(cache') = Range(cache)
    BY <1>8, <2>1, TouchedKeeps DEF GeoTypeOK, CacheOK
  <2>3. search'[p] = Idle /\ \A q \in Pickers \ {p} : search'[q] = search[q]
    BY <2>1 DEF GeoTypeOK
  <2>4. GeoTypeOK'
    BY <1>2, <1>4, <2>1, <2>2, <2>3 DEF GeoTypeOK
  <2>5. \A q \in Pickers : ~ Holds(q)' /\ search'[q].at # "asking"
    BY <1>3, <2>3 DEF Holds, Idle
  <2>6. LockOK'
    BY <1>2, <1>6, <1>7, <2>1, <2>3, <2>5, GeoAssumption DEF LockOK, GeoAssumption, Distinct
  <2>7. ClockOK' /\ CacheOK'
    <3>1. quiet = since
      BY <1>3 DEF ClockOK, Holds
    <3> QED
      BY <1>2, <2>1, <2>2, <2>5, <3>1 DEF ClockOK, CacheOK
  <2>8. \A m \in Places : ~ InFlight(m) /\ ~ InFlight(m)'
    BY <1>3, <2>5 DEF InFlight, Holds
  <2>9. AskedOnce'
    BY <1>2, <2>1, <2>2, <2>8 DEF AskedOnce, Cached
  <2> QED
    BY <2>4, <2>5, <2>6, <2>7, <2>9
<1>9. CASE ~ Cached(k)
  <2>1. holder' = p /\ Ask(p, k) /\ UNCHANGED cache
    BY <1>1, <1>9 DEF Enter
  <2>2. AskOutcome(p)
    <3>1. UNCHANGED <<since, cache, searches, failed, dropped>>
      BY <1>2, <2>1
    <3>2. search[p].at # "asking" /\ \A q \in Pickers \ {p} : ~ Holds(q)
      BY <1>1, <1>3
    <3> QED
      BY <1>9, <2>1, <3>1, <3>2, AskKeeps
  <2>3. GeoTypeOK'
    BY <1>2, <1>4, <2>1, <2>2 DEF GeoTypeOK, AskOutcome
  <2>4. LockOK'
    BY <1>6, <1>7, <2>1, <2>2 DEF LockOK, Distinct, AskOutcome
  <2> QED
    BY <2>2, <2>3, <2>4 DEF AskOutcome
<1> QED
  BY <1>8, <1>9

\* Whoever slept for the rest of the interval asks, or sleeps on.
LEMMA WakeKeeps ==
  ASSUME GeoInv, NEW p \in Pickers, Wake(p)
  PROVE  /\ GeoInv'
         /\ \A q \in Pickers : search'[q].at = "asking" => since >= Interval
<1> USE DEF GeoInv
<1>1. PICK k \in Places :
        k = search[p].key /\ search[p].at = "sleeping" /\ search[p].key = k /\ ~ Cached(k)
  BY DEF Wake, GeoTypeOK, CacheOK, Holds, Idle
<1>2. /\ Ask(p, k) /\ holder = p
      /\ UNCHANGED <<waiting, holder, since, cache, searches, failed, dropped>>
  BY <1>1 DEF Wake, LockOK, Holds
<1>3. \A q \in Pickers \ {p} : ~ Holds(q)
  BY <1>2 DEF LockOK
<1>4. AskOutcome(p)
  <2>1. UNCHANGED <<since, cache, searches, failed, dropped>> /\ search[p].at # "asking"
    BY <1>1, <1>2
  <2> QED
    BY <1>1, <1>2, <1>3, <2>1, AskKeeps
<1>5. GeoTypeOK'
  BY <1>2, <1>4 DEF GeoTypeOK, AskOutcome
<1>6. LockOK'
  <2>1. \A i \in DOMAIN waiting : waiting[i] \in Pickers \ {p}
    BY <1>1 DEF GeoTypeOK, LockOK
  <2> QED
    BY <1>2, <1>4, <2>1 DEF LockOK, AskOutcome, Distinct
<1> QED
  BY <1>4, <1>5, <1>6 DEF AskOutcome

\* What the end of a request leaves of the lock and the clock.
LEMMA LeaveKeeps ==
  ASSUME GeoInv
  PROVE  \A p \in Pickers :
           /\ search[p].at = "asking" /\ Leave(p) /\ quiet' = 0 /\ since' = 0
           /\ UNCHANGED <<waiting, searches, asked>>
           => /\ search' \in [Pickers -> {Idle} \cup
                                         [at : {"queued", "sleeping", "asking"}, key : Places]]
              /\ LockOK' /\ ClockOK' /\ \A q \in Pickers : ~ Holds(q)'
              /\ \A m \in Places : (InFlight(m) <=> m = search[p].key) /\ ~ InFlight(m)'
              /\ search[p].key \in Places /\ ~ Cached(search[p].key)
<1> USE DEF GeoInv
<1> SUFFICES ASSUME NEW p \in Pickers, search[p].at = "asking", Leave(p),
                    quiet' = 0, since' = 0, UNCHANGED <<waiting, searches, asked>>
             PROVE  /\ search' \in [Pickers -> {Idle} \cup
                                      [at : {"queued", "sleeping", "asking"}, key : Places]]
                    /\ LockOK' /\ ClockOK' /\ \A q \in Pickers : ~ Holds(q)'
                    /\ \A m \in Places : (InFlight(m) <=> m = search[p].key) /\ ~ InFlight(m)'
                    /\ search[p].key \in Places /\ ~ Cached(search[p].key)
  OBVIOUS
<1>1. /\ search' = [search EXCEPT ![p] = Idle] /\ holder' = NoPicker
      /\ search'[p] = Idle /\ \A q \in Pickers \ {p} : search'[q] = search[q]
  BY DEF Leave, GeoTypeOK
<1>2. holder = p /\ \A q \in Pickers \ {p} : ~ Holds(q)
  BY DEF LockOK, Holds
<1>3. \A q \in Pickers : ~ Holds(q)' /\ search'[q].at # "asking"
  BY <1>1, <1>2 DEF Holds, Idle
<1>4. LockOK'
  <2>1. \A i \in DOMAIN waiting : waiting[i] \in Pickers \ {p}
    BY DEF GeoTypeOK, LockOK
  <2> QED
    BY <1>1, <1>3, <2>1, GeoAssumption DEF LockOK, GeoAssumption, Distinct
<1>5. ClockOK'
  BY DEF ClockOK
<1>6. \A m \in Places : (InFlight(m) <=> m = search[p].key) /\ ~ InFlight(m)'
  BY <1>2, <1>3 DEF InFlight, Holds
<1>7. search[p].key \in Places /\ ~ Cached(search[p].key)
  BY DEF GeoTypeOK, CacheOK, Holds, Idle
<1>8. search' \in [Pickers -> {Idle} \cup [at : {"queued", "sleeping", "asking"}, key : Places]]
  BY <1>1 DEF GeoTypeOK
<1> QED
  BY <1>3, <1>4, <1>5, <1>6, <1>7, <1>8

\* An answer is cached, at the expense of the oldest, and lets the next one ask.
LEMMA AnsweredKeeps ==
  ASSUME GeoInv, NEW p \in Pickers, Answered(p)
  PROVE  GeoInv'
<1> USE DEF GeoInv
<1>1. PICK k \in Places : k = search[p].key /\ search[p].at = "asking"
  BY LeaveKeeps DEF Answered, GeoTypeOK, Idle
<1>2. /\ Leave(p) /\ since' = 0 /\ quiet' = 0 /\ cache' = Stored(k)
      /\ dropped' = IF Len(cache) < CacheSize THEN dropped
                    ELSE [dropped EXCEPT ![Head(cache)] = @ + 1]
      /\ UNCHANGED <<waiting, searches, asked, failed>>
  BY <1>1 DEF Answered
<1>3. /\ search' \in [Pickers -> {Idle} \cup
                                 [at : {"queued", "sleeping", "asking"}, key : Places]]
      /\ LockOK' /\ ClockOK' /\ \A q \in Pickers : ~ Holds(q)'
      /\ \A m \in Places : (InFlight(m) <=> m = k) /\ ~ InFlight(m)'
      /\ ~ Cached(k)
  BY <1>1, <1>2, LeaveKeeps
<1>4. /\ cache' \in Seq(Places) /\ Len(cache') <= CacheSize /\ Distinct(cache')
      /\ Len(cache) < CacheSize => Range(cache') = Range(cache) \cup {k}
      /\ ~ Len(cache) < CacheSize =>
           /\ Head(cache) \in Range(cache) /\ Head(cache) \in Places
           /\ Range(cache') = (Range(cache) \ {Head(cache)}) \cup {k}
  BY <1>2, <1>3, StoredAdds, GeoAssumption DEF GeoTypeOK, CacheOK, GeoAssumption
<1>5. /\ dropped' \in [Places -> Nat]
      /\ ~ Len(cache) < CacheSize =>
           \A m \in Places : dropped'[m] = dropped[m] + (IF m = Head(cache) THEN 1 ELSE 0)
  <2>1. dropped \in [Places -> Nat]
    BY DEF GeoTypeOK
  <2>2. CASE Len(cache) < CacheSize
    <3>1. dropped' = dropped
      BY <1>2, <2>2
    <3> QED
      BY ONLY <2>1, <2>2, <3>1
  <2>3. CASE ~ Len(cache) < CacheSize
    <3> DEFINE h == Head(cache)
    <3>1. h \in Places /\ dropped' = [dropped EXCEPT ![h] = @ + 1]
      BY <1>2, <1>4, <2>3
    <3> HIDE DEF h
    <3>2. /\ dropped' \in [Places -> Nat]
          /\ \A m \in Places : dropped'[m] = IF m = h THEN dropped[m] + 1 ELSE dropped[m]
      BY ONLY <2>1, <3>1
    <3>3. \A m \in Places : dropped[m] \in Nat
      BY ONLY <2>1
    <3>4. \A m \in Places : dropped'[m] = dropped[m] + (IF m = h THEN 1 ELSE 0)
      BY ONLY <3>2, <3>3
    <3> QED
      BY <3>2, <3>4 DEF h
  <2> QED
    BY <2>2, <2>3
<1>6. GeoTypeOK'
  BY <1>2, <1>3, <1>4, <1>5, GeoAssumption DEF GeoTypeOK, GeoAssumption, Leave
<1>7. CacheOK'
  BY <1>3, <1>4 DEF CacheOK
<1>8. ASSUME NEW m \in Places
      PROVE  asked'[m] = failed'[m] + dropped'[m]
                         + (IF Cached(m)' \/ InFlight(m)' THEN 1 ELSE 0)
  <2>1. asked[m] = failed[m] + dropped[m] + (IF Cached(m) \/ m = k THEN 1 ELSE 0)
    BY <1>3 DEF AskedOnce
  <2>2. asked[m] \in Nat /\ failed[m] \in Nat /\ dropped[m] \in Nat
    BY DEF GeoTypeOK
  <2>3. CASE Len(cache) < CacheSize
    BY <1>2, <1>3, <1>4, <2>1, <2>2, <2>3 DEF Cached
  <2>4. CASE ~ Len(cache) < CacheSize
    <3>1. Cached(m)' <=> (Cached(m) /\ m # Head(cache)) \/ m = k
      BY <1>4, <2>4 DEF Cached
    <3>2. dropped'[m] = dropped[m] + (IF m = Head(cache) THEN 1 ELSE 0)
      BY <1>5, <2>4
    <3>3. Head(cache) # k /\ (m = Head(cache) => Cached(m))
      BY <1>3, <1>4, <2>4 DEF Cached
    <3> QED
      BY <1>2, <1>3, <2>1, <2>2, <3>1, <3>2, <3>3
  <2> QED
    BY <2>3, <2>4
<1>9. AskedOnce'
  BY <1>8 DEF AskedOnce
<1> QED
  BY <1>3, <1>6, <1>7, <1>9

\* A failure caches nothing and still starts a new interval.
LEMMA UnavailableKeeps ==
  ASSUME GeoInv, NEW p \in Pickers, Unavailable(p)
  PROVE  GeoInv'
<1> USE DEF GeoInv
<1>1. PICK k \in Places : k = search[p].key /\ search[p].at = "asking"
  BY LeaveKeeps DEF Unavailable, GeoTypeOK, Idle
<1>2. /\ Leave(p) /\ since' = 0 /\ quiet' = 0
      /\ failed' = [failed EXCEPT ![k] = @ + 1]
      /\ UNCHANGED <<waiting, cache, searches, asked, dropped>>
  BY <1>1 DEF Unavailable
<1>3. /\ search' \in [Pickers -> {Idle} \cup
                                 [at : {"queued", "sleeping", "asking"}, key : Places]]
      /\ LockOK' /\ ClockOK' /\ \A q \in Pickers : ~ Holds(q)'
      /\ \A m \in Places : (InFlight(m) <=> m = k) /\ ~ InFlight(m)'
      /\ ~ Cached(k)
  BY <1>1, <1>2, LeaveKeeps
<1>4. GeoTypeOK'
  BY <1>2, <1>3, GeoAssumption DEF GeoTypeOK, GeoAssumption, Leave
<1>5. CacheOK'
  BY <1>2, <1>3 DEF CacheOK
<1>6. ASSUME NEW m \in Places
      PROVE  asked'[m] = failed'[m] + dropped'[m]
                         + (IF Cached(m)' \/ InFlight(m)' THEN 1 ELSE 0)
  <2>1. asked[m] = failed[m] + dropped[m] + (IF Cached(m) \/ m = k THEN 1 ELSE 0)
    BY <1>3 DEF AskedOnce
  <2>2. asked[m] \in Nat /\ failed[m] \in Nat /\ dropped[m] \in Nat
    BY DEF GeoTypeOK
  <2>3. failed'[m] = failed[m] + (IF m = k THEN 1 ELSE 0)
    BY <1>2 DEF GeoTypeOK
  <2>4. Cached(m)' <=> Cached(m)
    BY <1>2 DEF Cached
  <2> QED
    BY <1>2, <1>3, <2>1, <2>2, <2>3, <2>4
<1>7. AskedOnce'
  BY <1>6 DEF AskedOnce
<1> QED
  BY <1>3, <1>4, <1>5, <1>7

\* Time changes only the clocks.
LEMMA TickKeeps ==
  ASSUME GeoInv, GeoTick
  PROVE  GeoInv'
<1> USE DEF GeoInv, GeoTick
<1>1. GeoTypeOK'
  BY GeoAssumption DEF GeoTypeOK, GeoAssumption, Later
<1>2. LockOK' /\ CacheOK'
  BY DEF LockOK, CacheOK, Holds, Cached, Distinct
<1>3. ClockOK'
  BY DEF ClockOK
<1>4. AskedOnce'
  BY DEF AskedOnce, InFlight, Cached
<1> QED
  BY <1>1, <1>2, <1>3, <1>4

\* A step of another part changes nothing.
LEMMA GeoStuttering ==
  ASSUME GeoInv, UNCHANGED geoVars
  PROVE  GeoInv'
  BY DEF GeoInv, geoVars, GeoTypeOK, LockOK, ClockOK, CacheOK, AskedOnce, Holds, Cached,
         InFlight, Distinct

\* Who begins to ask does so an interval after the last request, with nobody else asking.
LEMMA SpacedStep ==
  ASSUME GeoInv, [GeoNext]_geoVars
  PROVE  /\ GeoInv'
         /\ \A p \in Pickers :
              search'[p].at = "asking" /\ search[p].at # "asking" =>
                quiet >= Interval /\ \A q \in Pickers : search[q].at # "asking"
<1> DEFINE Spaced ==
      \A p \in Pickers :
        search'[p].at = "asking" /\ search[p].at # "asking" =>
          quiet >= Interval /\ \A q \in Pickers : search[q].at # "asking"
<1>1. ASSUME NEW p \in Pickers, NEW k \in Places, Search(p, k)
      PROVE  GeoInv' /\ Spaced
  <2>1. \A q \in Pickers : search'[q].at = "asking" => search[q].at = "asking"
    <3>1. \/ search' = search
          \/ search' = [search EXCEPT ![p] = [at |-> "queued", key |-> k]]
      BY <1>1 DEF Search
    <3>2. [at |-> "queued", key |-> k].at # "asking"
      OBVIOUS
    <3> QED
      BY <3>1, <3>2 DEF GeoInv, GeoTypeOK
  <2> QED
    BY <1>1, <2>1, SearchKeeps
<1>2. CASE Enter
  <2>1. GeoInv' /\ \A q \in Pickers : search'[q].at = "asking" => since >= Interval
    BY <1>2, EnterKeeps
  <2>2. \A q \in Pickers : search[q].at # "asking"
    BY <1>2, GeoAssumption DEF Enter, GeoInv, LockOK, Holds, GeoAssumption
  <2> QED
    BY <2>1, <2>2 DEF GeoInv, ClockOK
<1>3. ASSUME NEW p \in Pickers, Wake(p)
      PROVE  GeoInv' /\ Spaced
  <2>1. GeoInv' /\ \A q \in Pickers : search'[q].at = "asking" => since >= Interval
    BY <1>3, WakeKeeps
  <2>2. \A q \in Pickers : search[q].at # "asking"
    BY <1>3 DEF Wake, GeoInv, LockOK, Holds
  <2> QED
    BY <2>1, <2>2 DEF GeoInv, ClockOK
<1>4. ASSUME NEW p \in Pickers, Answered(p)
      PROVE  GeoInv' /\ Spaced
  <2>1. \A q \in Pickers : search'[q].at = "asking" => search[q].at = "asking"
    <3>1. search' = [search EXCEPT ![p] = Idle] /\ Idle.at = "idle"
      BY <1>4 DEF Answered, Leave, Idle
    <3> QED
      BY <3>1 DEF GeoInv, GeoTypeOK
  <2> QED
    BY <1>4, <2>1, AnsweredKeeps
<1>5. ASSUME NEW p \in Pickers, Unavailable(p)
      PROVE  GeoInv' /\ Spaced
  <2>1. \A q \in Pickers : search'[q].at = "asking" => search[q].at = "asking"
    <3>1. search' = [search EXCEPT ![p] = Idle] /\ Idle.at = "idle"
      BY <1>5 DEF Unavailable, Leave, Idle
    <3> QED
      BY <3>1 DEF GeoInv, GeoTypeOK
  <2> QED
    BY <1>5, <2>1, UnavailableKeeps
<1>6. CASE GeoTick
  BY <1>6, TickKeeps DEF GeoTick
<1>7. CASE UNCHANGED geoVars
  BY <1>7, GeoStuttering DEF geoVars
<1> QED
  BY <1>1, <1>2, <1>3, <1>4, <1>5, <1>6, <1>7 DEF GeoNext

\* The geocoder's invariant (gateway/src/geocode.py:51-88): whoever sleeps or asks holds the lock,
\* and each place was asked for once more than it failed or was dropped.
THEOREM GeoInvariance == GeoSpec => []GeoInv
<1>1. GeoInv /\ [GeoNext]_geoVars => GeoInv'
  BY SpacedStep
<1> QED
  BY GeoInitially, <1>1, PTL DEF GeoSpec

\* Every variable of the geocoder keeps its type.
THEOREM GeoTypeCorrect == GeoSpec => []GeoTypeOK
<1>1. GeoInv => GeoTypeOK
  BY DEF GeoInv
<1> QED
  BY GeoInvariance, <1>1, PTL

\* A query costs one request for each time its answer was lost, and one for the answer that is
\* kept: however many pickers search for it at once.
THEOREM AskedOnceHolds == GeoSpec => []AskedOnce
<1>1. GeoInv => AskedOnce
  BY DEF GeoInv
<1> QED
  BY GeoInvariance, <1>1, PTL

\* Nominatim sees one request at a time, at least an interval apart, failures included.
THEOREM RequestsAreSpaced == GeoSpec => RequestsSpaced
<1>1. GeoInv /\ [GeoNext]_geoVars =>
        [\A p \in Pickers :
           search'[p].at = "asking" /\ search[p].at # "asking" =>
             quiet >= Interval /\ \A q \in Pickers : search[q].at # "asking"]_geoVars
  BY SpacedStep
<1> QED
  BY GeoInvariance, <1>1, PTL DEF GeoSpec, RequestsSpaced

-------------------------------------------------------------------------------
(* The scraper's runs *)

\* How far a run is, against the pages it was answered.
ProgressOK(r) ==
  /\ run[r].at = "idle" => Len(received[r]) = 0 /\ run[r].page = 0
  /\ run[r].at \in {"fetch", "done"} => Len(received[r]) = run[r].page
  /\ run[r].at \in {"upload", "publish"} => Len(received[r]) = run[r].page + 1
  /\ Running(r) => run[r].page < MaxPages
  /\ run[r].at = "upload" => run[r].events = received[r][run[r].page + 1]
  /\ run[r].at = "publish" => run[r].events \subseteq received[r][run[r].page + 1] \cap Usable
  /\ run[r].at = "done" => run[r].page >= run[r].total \/ run[r].page = MaxPages

\* What was published was on a page, and usable.
SourceOK(r) ==
  \A d \in discovered :
    d.run = r => /\ d.page + 1 \in DOMAIN received[r]
                 /\ d.event \in received[r][d.page + 1] \cap Usable

\* What was usable on a page is published, or about to be.
CompleteOK(r) ==
  run[r].at # "failed" =>
    \A p \in DOMAIN received[r] : \A e \in received[r][p] \cap Usable :
      \/ [run |-> r, page |-> p - 1, event |-> e] \in discovered
      \/ run[r].at = "upload" /\ p = run[r].page + 1
      \/ run[r].at = "publish" /\ p = run[r].page + 1 /\ e \in run[r].events

\* A page is stored as it was answered, before anything of it is published.
StoredOK(r, p) ==
  /\ <<run[r].second, p>> \in DOMAIN archived
  /\ archived[<<run[r].second, p>>] = received[r][p + 1]

OnRecordOK(r) ==
  Archiving /\ Alone(r) /\ run[r].at # "idle" =>
    /\ \A d \in discovered : d.run = r => StoredOK(r, d.page)
    /\ run[r].at = "publish" => StoredOK(r, run[r].page)

RunOK(r) == ProgressOK(r) /\ SourceOK(r) /\ CompleteOK(r) /\ OnRecordOK(r)

ScrapeInv == ScrapeTypeOK /\ \A r \in Runs : RunOK(r)

Rows ==
  [at : {"idle", "fetch", "upload", "publish", "done", "failed"},
   second : 0..MaxSecond, page : 0..MaxPages, total : Totals \cup {1},
   attempt : 1..MaxAttempts, events : SUBSET Events]

\* No run has received, archived or published anything.
LEMMA ScrapeInitially == ScrapeInit => ScrapeInv
<1> SUFFICES ASSUME ScrapeInit PROVE ScrapeInv
  OBVIOUS
<1> USE ScrapeAssumption DEF ScrapeInit
<1>1. NotStarted \in Rows /\ NotStarted.at = "idle" /\ NotStarted.page = 0
  BY DEF NotStarted, Rows, ScrapeAssumption
<1>2. ScrapeTypeOK
  <2>1. /\ run \in [Runs -> Rows] /\ received \in [Runs -> Seq(SUBSET Events)]
    BY <1>1
  <2>2. DOMAIN archived = {}
    OBVIOUS
  <2>3. archived \in [DOMAIN archived -> SUBSET Events]
    BY <2>2
  <2> QED
    BY <2>1, <2>2, <2>3 DEF ScrapeTypeOK, Rows, ScrapeAssumption
<1>3. ASSUME NEW r \in Runs
      PROVE  RunOK(r)
  <2>1. run[r] = NotStarted /\ received[r] = <<>> /\ DOMAIN received[r] = {}
    OBVIOUS
  <2> QED
    BY <1>1, <2>1 DEF RunOK, ProgressOK, SourceOK, CompleteOK, OnRecordOK, Running
<1> QED
  BY <1>2, <1>3 DEF ScrapeInv

\* A step of one run leaves the others as they were, also those with a second of their own.
LEMMA OthersKeep ==
  ASSUME ScrapeInv, NEW r \in Runs, NEW q \in Runs \ {r},
         \A x \in Runs \ {r} : run'[x] = run[x] /\ received'[x] = received[x],
         run'[r].at # "idle", run[r].at # "idle" => run'[r].second = run[r].second,
         \A d \in discovered' : d.run # r => d \in discovered,
         discovered \subseteq discovered',
         \A s \in 0..MaxSecond, p \in 0..MaxPages :
           <<s, p>> \in DOMAIN archived /\ s # run'[r].second =>
             <<s, p>> \in DOMAIN archived' /\ archived'[<<s, p>>] = archived[<<s, p>>]
  PROVE  RunOK(q)'
<1> USE DEF ScrapeInv
<1>1. RunOK(q) /\ run'[q] = run[q] /\ received'[q] = received[q]
  OBVIOUS
<1>2. ProgressOK(q)'
  BY <1>1 DEF RunOK, ProgressOK, Running
<1>3. SourceOK(q)'
  BY <1>1 DEF RunOK, SourceOK
<1>4. CompleteOK(q)'
  BY <1>1 DEF RunOK, CompleteOK
<1>5. OnRecordOK(q)'
  <2> SUFFICES ASSUME Archiving, Alone(q)', run'[q].at # "idle"
               PROVE  /\ \A d \in discovered' : d.run = q => StoredOK(q, d.page)'
                      /\ run'[q].at = "publish" => StoredOK(q, run[q].page)'
    BY <1>1 DEF OnRecordOK
  <2>1. run'[r].second # run[q].second
    BY <1>1 DEF Alone
  <2>2. Alone(q)
    BY <1>1, <2>1 DEF Alone
  <2>3. ASSUME NEW p \in 0..MaxPages, StoredOK(q, p)
        PROVE  StoredOK(q, p)'
    <3>1. run[q].second \in 0..MaxSecond
      BY DEF ScrapeTypeOK
    <3> QED
      BY <1>1, <2>1, <2>3, <3>1 DEF StoredOK
  <2>4. ASSUME NEW d \in discovered', d.run = q
        PROVE  StoredOK(q, d.page)'
    <3>1. d \in discovered /\ d.page \in 0..MaxPages
      BY <2>4 DEF ScrapeTypeOK
    <3>2. StoredOK(q, d.page)
      BY <1>1, <2>2, <2>4, <3>1 DEF RunOK, OnRecordOK
    <3>3. PICK p \in 0..MaxPages : p = d.page
      BY <3>1
    <3> QED
      BY <2>3, <3>2, <3>3
  <2>5. ASSUME run'[q].at = "publish"
        PROVE  StoredOK(q, run[q].page)'
    <3>1. PICK p \in 0..MaxPages : p = run[q].page /\ p = run'[q].page
      BY <1>1 DEF ScrapeTypeOK
    <3>2. StoredOK(q, p)
      BY <1>1, <2>2, <2>5, <3>1 DEF RunOK, OnRecordOK
    <3>3. StoredOK(q, p)'
      BY <2>3, <3>2
    <3> QED
      BY <3>1, <3>3 DEF StoredOK
  <2> QED
    BY <2>4, <2>5
<1> QED
  BY <1>2, <1>3, <1>4, <1>5 DEF RunOK

\* Whether a run is alone with its second does not change by a step that keeps it.
LEMMA AloneKeeps ==
  ASSUME NEW r \in Runs, \A x \in Runs \ {r} : run'[x] = run[x],
         run'[r].second = run[r].second
  PROVE  Alone(r)' <=> Alone(r)
  BY DEF Alone

\* What a run, and what it received, look like.
LEMMA RowType ==
  ASSUME ScrapeTypeOK, NEW r \in Runs
  PROVE  /\ run[r] \in Rows /\ run \in [Runs -> Rows]
         /\ received[r] \in Seq(SUBSET Events) /\ DOMAIN received[r] = 1..Len(received[r])
  BY DEF ScrapeTypeOK, Rows

\* A run that ends, whatever the reason, keeps what it published on record.
LEMMA FailKeeps ==
  ASSUME ScrapeInv, NEW r \in Runs, run' = [run EXCEPT ![r].at = "failed"],
         UNCHANGED <<second, archived, discovered, received>>
  PROVE  ScrapeTypeOK' /\ RunOK(r)' /\ run'[r].at = "failed"
<1> USE DEF ScrapeInv
<1>1. run[r] \in Rows /\ run \in [Runs -> Rows]
  BY RowType
<1>2. /\ run' \in [Runs -> Rows] /\ run'[r].at = "failed" /\ run'[r].second = run[r].second
      /\ \A x \in Runs \ {r} : run'[x] = run[x]
  BY <1>1 DEF Rows
<1>3. ScrapeTypeOK'
  BY <1>2 DEF ScrapeTypeOK, Rows
<1>4. ProgressOK(r)' /\ CompleteOK(r)' /\ SourceOK(r)'
  BY <1>2 DEF RunOK, ProgressOK, CompleteOK, SourceOK, Running
<1>5. OnRecordOK(r)'
  <2>1. CASE run[r].at = "idle"
    <3>1. \A d \in discovered : d.run # r
      BY <2>1, RowType DEF RunOK, SourceOK, ProgressOK
    <3> QED
      BY <1>2, <3>1 DEF OnRecordOK
  <2>2. CASE run[r].at # "idle"
    <3>1. Alone(r)' <=> Alone(r)
      BY <1>2, AloneKeeps
    <3> SUFFICES ASSUME Archiving, Alone(r), NEW d \in discovered, d.run = r
                 PROVE  StoredOK(r, d.page)'
      BY <1>2, <3>1 DEF OnRecordOK
    <3>2. StoredOK(r, d.page)
      BY <2>2 DEF RunOK, OnRecordOK
    <3> QED
      BY <1>2, <3>2 DEF StoredOK
  <2> QED
    BY <2>1, <2>2
<1> QED
  BY <1>2, <1>3, <1>4, <1>5 DEF RunOK

\* A run starts with nothing on record.
LEMMA StartKeeps ==
  ASSUME ScrapeInv, NEW r \in Runs, StartRun(r)
  PROVE  ScrapeTypeOK' /\ RunOK(r)'
<1> USE DEF ScrapeInv, StartRun
<1>1. run[r] \in Rows /\ run \in [Runs -> Rows]
  BY RowType
<1>2. /\ run' \in [Runs -> Rows] /\ run'[r].at = "fetch" /\ run'[r].page = run[r].page
  BY <1>1 DEF Rows, ScrapeTypeOK
<1>3. ScrapeTypeOK'
  BY <1>2 DEF ScrapeTypeOK, Rows
<1>4. Len(received[r]) = 0 /\ run[r].page = 0 /\ DOMAIN received[r] = {}
  BY RowType DEF RunOK, ProgressOK
<1>5. \A d \in discovered : d.run # r
  BY <1>4 DEF RunOK, SourceOK
<1>6. ProgressOK(r)' /\ CompleteOK(r)' /\ SourceOK(r)' /\ OnRecordOK(r)'
  BY <1>2, <1>4, <1>5, ScrapeAssumption
     DEF ProgressOK, CompleteOK, SourceOK, OnRecordOK, Running, ScrapeAssumption
<1> QED
  BY <1>3, <1>6 DEF RunOK

\* Another attempt at a page.
LEMMA AgainKeeps ==
  ASSUME ScrapeInv, NEW r \in Runs, run[r].at = "fetch", run[r].attempt < MaxAttempts,
         run' = [run EXCEPT ![r].attempt = run[r].attempt + 1],
         UNCHANGED <<second, archived, discovered, received>>
  PROVE  ScrapeTypeOK' /\ RunOK(r)' /\ run'[r].at = "fetch" /\ run'[r].second = run[r].second
<1> USE DEF ScrapeInv
<1>1. run[r] \in Rows /\ run \in [Runs -> Rows]
  BY RowType
<1>2. /\ run' \in [Runs -> Rows] /\ run'[r].at = "fetch" /\ run'[r].page = run[r].page
      /\ run'[r].second = run[r].second /\ \A x \in Runs \ {r} : run'[x] = run[x]
  BY <1>1, ScrapeAssumption DEF Rows, ScrapeAssumption
<1>3. ScrapeTypeOK'
  BY <1>2 DEF ScrapeTypeOK, Rows
<1>4. Alone(r)' <=> Alone(r)
  BY <1>2, AloneKeeps
<1>5. ProgressOK(r)' /\ CompleteOK(r)' /\ SourceOK(r)' /\ OnRecordOK(r)'
  BY <1>2, <1>4 DEF RunOK, ProgressOK, CompleteOK, SourceOK, OnRecordOK, Running, StoredOK
<1> QED
  BY <1>2, <1>3, <1>5 DEF RunOK

\* Parsing a page ends the run or leaves its usable events to publish.
LEMMA ParseOutcome ==
  ASSUME NEW row \in Rows, NEW page \in SUBSET Events
  PROVE  /\ Parse(row, page) \in Rows
         /\ Parse(row, page).at \in {"failed", "publish"}
         /\ Parse(row, page).second = row.second /\ Parse(row, page).page = row.page
         /\ Parse(row, page).total = row.total
         /\ Parse(row, page).at = "publish" => Parse(row, page).events = page \cap Usable
<1>1. page \cap Usable \in SUBSET Events
  OBVIOUS
<1> QED
  BY <1>1 DEF Parse, Rows

\* A page is received after all those before it are done with.
LEMMA ReceiveKeeps ==
  ASSUME ScrapeInv, NEW r \in Runs, NEW page \in SUBSET Events, NEW total \in Totals,
         Receive(r, page, total)
  PROVE  /\ ScrapeTypeOK' /\ RunOK(r)'
         /\ run'[r].at # "idle" /\ run'[r].second = run[r].second
<1> USE DEF ScrapeInv
<1> DEFINE n == run[r].page
           row == [run[r] EXCEPT !.total = total, !.attempt = 1, !.events = page]
           new == IF Archiving THEN [row EXCEPT !.at = "upload"] ELSE Parse(row, page)
<1>1. run[r] \in Rows /\ run \in [Runs -> Rows] /\ received \in [Runs -> Seq(SUBSET Events)]
  BY RowType DEF ScrapeTypeOK
<1>2. row \in Rows /\ row.page = n /\ row.second = run[r].second
  <2>1. 1 \in 1..MaxAttempts /\ total \in Totals \cup {1}
    BY ScrapeAssumption DEF ScrapeAssumption
  <2>2. row \in Rows
    BY <1>1, <2>1 DEF Rows
  <2> QED
    BY <1>1, <2>2 DEF Rows
<1>3. /\ new \in Rows /\ new.page = n /\ new.second = run[r].second
      /\ new.at \in {"upload", "publish", "failed"}
      /\ new.at = "upload" => Archiving /\ new.events = page
      /\ new.at = "publish" => ~ Archiving /\ new.events = page \cap Usable
  <2>0. row.events = page
    BY <1>1 DEF Rows
  <2>1. CASE Archiving
    <3> HIDE DEF row
    <3>1. new = [row EXCEPT !.at = "upload"]
      BY <2>1
    <3>2. new \in Rows /\ new.at = "upload" /\ new.events = page /\ new.page = row.page
          /\ new.second = row.second
      BY <1>2, <2>0, <3>1 DEF Rows
    <3> QED
      BY <1>2, <2>1, <3>2
  <2>2. CASE ~ Archiving
    <3> HIDE DEF row
    <3>1. new = Parse(row, page)
      BY <2>2
    <3> HIDE DEF new
    <3> QED
      BY <1>2, <2>2, <3>1, ParseOutcome
  <2> QED
    BY <2>1, <2>2
<1>4. /\ run[r].at = "fetch" /\ run' = [run EXCEPT ![r] = new]
      /\ received' = [received EXCEPT ![r] = Append(received[r], page)]
      /\ UNCHANGED <<second, archived, discovered>>
  BY DEF Receive
<1> HIDE DEF row, new
<1>5. /\ run' \in [Runs -> Rows] /\ run'[r] = new
      /\ \A x \in Runs \ {r} : run'[x] = run[x]
  BY <1>1, <1>3, <1>4
<1>6. Len(received[r]) = n /\ n < MaxPages /\ n \in Nat /\ DOMAIN received[r] = 1..n
  BY <1>1, <1>4, RowType DEF RunOK, ProgressOK, Running, Rows
<1>7. /\ received' \in [Runs -> Seq(SUBSET Events)]
      /\ Len(received'[r]) = n + 1 /\ received'[r][n + 1] = page
      /\ DOMAIN received'[r] = 1..(n + 1)
      /\ \A p \in 1..n : received'[r][p] = received[r][p]
  BY <1>1, <1>4, <1>6
<1>8. ScrapeTypeOK'
  BY <1>4, <1>5, <1>7 DEF ScrapeTypeOK, Rows
<1>9. ProgressOK(r)'
  BY <1>3, <1>5, <1>6, <1>7 DEF ProgressOK, Running
<1>10. SourceOK(r)'
  BY <1>4, <1>6, <1>7 DEF RunOK, SourceOK
<1>11. CompleteOK(r)'
  <2> SUFFICES ASSUME new.at # "failed", NEW p \in 1..(n + 1),
                      NEW e \in received'[r][p] \cap Usable
               PROVE  \/ [run |-> r, page |-> p - 1, event |-> e] \in discovered
                      \/ new.at = "upload" /\ p = n + 1
                      \/ new.at = "publish" /\ p = n + 1 /\ e \in new.events
    BY <1>3, <1>4, <1>5, <1>7 DEF CompleteOK
  <2>1. CASE p = n + 1
    BY <1>3, <1>7, <2>1
  <2>2. CASE p # n + 1
    <3>1. p \in DOMAIN received[r] /\ e \in received[r][p] \cap Usable
      BY <1>6, <1>7, <2>2
    <3> QED
      BY <1>4, <3>1 DEF RunOK, CompleteOK
  <2> QED
    BY <2>1, <2>2
<1>12. OnRecordOK(r)'
  <2>1. Alone(r)' <=> Alone(r)
    BY <1>3, <1>5, AloneKeeps
  <2>2. \A d \in discovered : d.run = r => d.page + 1 \in 1..n
    BY <1>6 DEF RunOK, SourceOK
  <2> SUFFICES ASSUME Archiving, Alone(r)
               PROVE  \A d \in discovered : d.run = r => StoredOK(r, d.page)'
    BY <1>3, <1>4, <1>5, <2>1 DEF OnRecordOK
  <2> SUFFICES ASSUME NEW d \in discovered, d.run = r
               PROVE  StoredOK(r, d.page)'
    OBVIOUS
  <2>3. StoredOK(r, d.page)
    BY <1>4 DEF RunOK, OnRecordOK
  <2>4. received'[r][d.page + 1] = received[r][d.page + 1]
    BY <1>7, <2>2
  <2> QED
    BY <1>3, <1>4, <1>5, <2>3, <2>4 DEF StoredOK
<1> QED
  BY <1>3, <1>5, <1>8, <1>9, <1>10, <1>11, <1>12 DEF RunOK

\* A page is archived under its run and number, and the pages of other seconds stay.
LEMMA UploadKeeps ==
  ASSUME ScrapeInv, NEW r \in Runs, Upload(r)
  PROVE  /\ ScrapeTypeOK' /\ RunOK(r)'
         /\ run'[r].at # "idle" /\ run'[r].second = run[r].second
         /\ \A s \in 0..MaxSecond, p \in 0..MaxPages :
              <<s, p>> \in DOMAIN archived /\ s # run'[r].second =>
                <<s, p>> \in DOMAIN archived' /\ archived'[<<s, p>>] = archived[<<s, p>>]
<1> USE DEF ScrapeInv
<1> DEFINE n == run[r].page
           key == <<run[r].second, n>>
           page == run[r].events
           new == Parse(run[r], page)
<1>1. run[r] \in Rows /\ run \in [Runs -> Rows] /\ received \in [Runs -> Seq(SUBSET Events)]
  BY RowType DEF ScrapeTypeOK
<1>2. /\ run[r].at = "upload" /\ run' = [run EXCEPT ![r] = new]
      /\ archived' = [k \in DOMAIN archived \cup {key} |-> IF k = key THEN page ELSE archived[k]]
      /\ UNCHANGED <<second, discovered, received>>
  BY <1>1 DEF Upload
<1>3. /\ page \in SUBSET Events /\ n \in 0..MaxPages /\ run[r].second \in 0..MaxSecond
      /\ new \in Rows /\ new.at \in {"failed", "publish"} /\ new.second = run[r].second
      /\ new.page = n /\ new.total = run[r].total
      /\ new.at = "publish" => new.events = page \cap Usable
  <2>1. page \in SUBSET Events /\ n \in 0..MaxPages /\ run[r].second \in 0..MaxSecond
    BY <1>1 DEF Rows
  <2> QED
    BY <1>1, <2>1, ParseOutcome
<1> HIDE DEF new
<1>4. /\ run' \in [Runs -> Rows] /\ run'[r] = new
      /\ \A x \in Runs \ {r} : run'[x] = run[x]
  BY <1>1, <1>2, <1>3
<1>5. /\ Len(received[r]) = n + 1 /\ n < MaxPages /\ page = received[r][n + 1]
      /\ DOMAIN received[r] = 1..(n + 1)
  BY <1>1, <1>2, RowType DEF RunOK, ProgressOK, Running
<1>6. ScrapeTypeOK'
  <2>1. /\ DOMAIN archived' = DOMAIN archived \cup {key}
        /\ \A k \in DOMAIN archived' : archived'[k] \in SUBSET Events
    BY <1>2, <1>3 DEF ScrapeTypeOK
  <2>2. archived' \in [DOMAIN archived' -> SUBSET Events]
    BY <1>2, <2>1
  <2>3. key \in (0..MaxSecond) \X (0..MaxPages)
    BY <1>3
  <2> QED
    BY <1>2, <1>4, <2>1, <2>2, <2>3 DEF ScrapeTypeOK, Rows
<1>7. ProgressOK(r)' /\ SourceOK(r)'
  BY <1>2, <1>3, <1>4, <1>5 DEF RunOK, ProgressOK, SourceOK, Running
<1>8. CompleteOK(r)'
  <2> SUFFICES ASSUME new.at = "publish", NEW p \in 1..(n + 1),
                      NEW e \in received[r][p] \cap Usable
               PROVE  \/ [run |-> r, page |-> p - 1, event |-> e] \in discovered
                      \/ p = n + 1 /\ e \in new.events
    BY <1>2, <1>3, <1>4, <1>5 DEF CompleteOK
  <2>1. CASE p = n + 1
    BY <1>3, <1>5, <2>1
  <2>2. CASE p # n + 1
    BY <1>2, <1>5, <2>2 DEF RunOK, CompleteOK
  <2> QED
    BY <2>1, <2>2
<1>9. OnRecordOK(r)'
  <2>1. Alone(r)' <=> Alone(r)
    BY <1>3, <1>4, AloneKeeps
  <2>2. key \in DOMAIN archived' /\ archived'[key] = received[r][n + 1]
    BY <1>2, <1>5
  <2> SUFFICES ASSUME Archiving, Alone(r)
               PROVE  /\ \A d \in discovered : d.run = r => StoredOK(r, d.page)'
                      /\ new.at = "publish" => StoredOK(r, run[r].page)'
    BY <1>2, <1>3, <1>4, <2>1 DEF OnRecordOK
  <2>3. ASSUME NEW d \in discovered, d.run = r
        PROVE  StoredOK(r, d.page)'
    <3>1. StoredOK(r, d.page)
      BY <1>2, <2>3 DEF RunOK, OnRecordOK
    <3>2. <<run[r].second, d.page>> = key => d.page = n
      OBVIOUS
    <3> QED
      BY <1>2, <1>3, <1>4, <2>2, <3>1, <3>2 DEF StoredOK
  <2>4. StoredOK(r, run[r].page)'
    BY <1>2, <1>3, <1>4, <2>2 DEF StoredOK
  <2> QED
    BY <2>3, <2>4
<1>10. \A s \in 0..MaxSecond, p \in 0..MaxPages :
         <<s, p>> \in DOMAIN archived /\ s # run'[r].second =>
           <<s, p>> \in DOMAIN archived' /\ archived'[<<s, p>>] = archived[<<s, p>>]
  BY <1>2, <1>3, <1>4
<1> QED
  BY <1>3, <1>4, <1>6, <1>7, <1>8, <1>9, <1>10 DEF RunOK

\* An event is published from a page that is on record.
LEMMA PublishKeeps ==
  ASSUME ScrapeInv, NEW r \in Runs, NEW e \in Events, NEW heard \in BOOLEAN,
         Publish(r, e, heard)
  PROVE  /\ ScrapeTypeOK' /\ RunOK(r)'
         /\ run'[r].at # "idle" /\ run'[r].second = run[r].second
<1> USE DEF ScrapeInv
<1> DEFINE n == run[r].page
           mark == [run |-> r, page |-> n, event |-> e]
           new == [run[r] EXCEPT !.events = @ \ {e}, !.at = IF heard THEN @ ELSE "failed"]
<1>1. run[r] \in Rows /\ run \in [Runs -> Rows] /\ received \in [Runs -> Seq(SUBSET Events)]
  BY RowType DEF ScrapeTypeOK
<1>2. /\ run[r].at = "publish" /\ e \in run[r].events
      /\ discovered' = discovered \cup {mark} /\ run' = [run EXCEPT ![r] = new]
      /\ UNCHANGED <<second, archived, received>>
  BY <1>1 DEF Publish
<1>3. /\ new \in Rows /\ new.at \in {"publish", "failed"} /\ new.second = run[r].second
      /\ new.page = n /\ new.total = run[r].total /\ new.events = run[r].events \ {e}
      /\ n \in 0..MaxPages
  BY <1>1, <1>2 DEF Rows
<1> HIDE DEF new
<1>4. /\ run' \in [Runs -> Rows] /\ run'[r] = new
      /\ \A x \in Runs \ {r} : run'[x] = run[x]
  BY <1>1, <1>2, <1>3
<1>5. /\ Len(received[r]) = n + 1 /\ n < MaxPages
      /\ run[r].events \subseteq received[r][n + 1] \cap Usable
      /\ DOMAIN received[r] = 1..(n + 1) /\ n + 1 \in DOMAIN received[r]
  BY <1>1, <1>2, <1>3, RowType DEF RunOK, ProgressOK, Running
<1>6. ScrapeTypeOK'
  <2>1. discovered' \subseteq [run : Runs, page : 0..MaxPages, event : Events]
    BY <1>2, <1>3 DEF ScrapeTypeOK
  <2> QED
    BY <1>2, <1>4, <2>1 DEF ScrapeTypeOK, Rows
<1>7. ProgressOK(r)'
  BY <1>2, <1>3, <1>4, <1>5 DEF ProgressOK, Running
<1>8. SourceOK(r)'
  <2> SUFFICES ASSUME NEW d \in discovered', d.run = r
               PROVE  /\ d.page + 1 \in DOMAIN received[r]
                      /\ d.event \in received[r][d.page + 1] \cap Usable
    BY <1>2 DEF SourceOK
  <2>1. CASE d \in discovered
    BY <2>1 DEF RunOK, SourceOK
  <2>2. CASE d = mark
    BY <1>2, <1>5, <2>2
  <2> QED
    BY <1>2, <2>1, <2>2
<1>9. CompleteOK(r)'
  <2> SUFFICES ASSUME new.at = "publish", NEW p \in 1..(n + 1),
                      NEW x \in received[r][p] \cap Usable
               PROVE  \/ [run |-> r, page |-> p - 1, event |-> x] \in discovered'
                      \/ p = n + 1 /\ x \in new.events
    BY <1>2, <1>3, <1>4, <1>5 DEF CompleteOK
  <2>1. \/ [run |-> r, page |-> p - 1, event |-> x] \in discovered
        \/ p = n + 1 /\ x \in run[r].events
    BY <1>2, <1>5 DEF RunOK, CompleteOK
  <2>2. CASE p = n + 1 /\ x = e
    <3>1. p - 1 = n
      BY <1>3, <2>2
    <3> QED
      BY <1>2, <2>2, <3>1
  <2> QED
    BY <1>2, <1>3, <2>1, <2>2
<1>10. OnRecordOK(r)'
  <2>1. Alone(r)' <=> Alone(r)
    BY <1>3, <1>4, AloneKeeps
  <2> SUFFICES ASSUME Archiving, Alone(r)
               PROVE  /\ \A d \in discovered' : d.run = r => StoredOK(r, d.page)'
                      /\ StoredOK(r, run[r].page)'
    BY <1>4, <2>1 DEF OnRecordOK
  <2>2. /\ \A d \in discovered : d.run = r => StoredOK(r, d.page)
        /\ StoredOK(r, n)
    BY <1>2 DEF RunOK, OnRecordOK
  <2>3. StoredOK(r, run[r].page)'
    BY <1>2, <1>3, <1>4, <2>2 DEF StoredOK
  <2>4. ASSUME NEW d \in discovered', d.run = r
        PROVE  StoredOK(r, d.page)'
    <3>1. StoredOK(r, d.page)
      BY <1>2, <2>2, <2>4
    <3> QED
      BY <1>2, <1>3, <1>4, <3>1 DEF StoredOK
  <2> QED
    BY <2>3, <2>4
<1> QED
  BY <1>3, <1>4, <1>6, <1>7, <1>8, <1>9, <1>10 DEF RunOK

\* A page is done with when all its usable events are published.
LEMMA PageDoneKeeps ==
  ASSUME ScrapeInv, NEW r \in Runs, PageDone(r)
  PROVE  /\ ScrapeTypeOK' /\ RunOK(r)'
         /\ run'[r].at # "idle" /\ run'[r].second = run[r].second
<1> USE DEF ScrapeInv
<1> DEFINE n == run[r].page
           more == n + 1 < run[r].total /\ n + 1 < MaxPages
           new == [run[r] EXCEPT !.page = n + 1, !.at = IF more THEN "fetch" ELSE "done"]
<1>1. /\ run[r] \in Rows /\ run \in [Runs -> Rows] /\ n \in Nat
      /\ run[r].total \in Nat /\ MaxPages \in Nat
  <2>1. run[r] \in Rows /\ run \in [Runs -> Rows]
    BY RowType
  <2>2. Totals \cup {1} \subseteq Nat /\ 0..MaxPages \subseteq Nat /\ MaxPages \in Nat
    BY ScrapeAssumption DEF ScrapeAssumption
  <2>3. run[r].total \in Totals \cup {1} /\ run[r].page \in 0..MaxPages
    BY <2>1 DEF Rows
  <2> QED
    BY <2>1, <2>2, <2>3
<1>2. /\ run[r].at = "publish" /\ run[r].events = {} /\ run' = [run EXCEPT ![r] = new]
      /\ UNCHANGED <<second, archived, discovered, received>>
  BY <1>1 DEF PageDone
<1>3. /\ Len(received[r]) = n + 1 /\ n < MaxPages /\ DOMAIN received[r] = 1..(n + 1)
  BY <1>1, <1>2, RowType DEF RunOK, ProgressOK, Running
<1>4. /\ new \in Rows /\ new.second = run[r].second /\ new.page = n + 1
      /\ new.total = run[r].total
      /\ new.at = IF more THEN "fetch" ELSE "done"
  <2>1. n + 1 \in 0..MaxPages
    BY <1>1, <1>3
  <2> HIDE DEF more
  <2> QED
    BY <1>1, <2>1 DEF Rows
<1> HIDE DEF new
<1>5. /\ run' \in [Runs -> Rows] /\ run'[r] = new
      /\ \A x \in Runs \ {r} : run'[x] = run[x]
  BY <1>1, <1>2, <1>4
<1>6. ScrapeTypeOK'
  BY <1>2, <1>5 DEF ScrapeTypeOK, Rows
<1>7. ProgressOK(r)'
  BY <1>1, <1>2, <1>3, <1>4, <1>5 DEF ProgressOK, Running
<1>8. SourceOK(r)' /\ CompleteOK(r)'
  BY <1>2, <1>3, <1>4, <1>5 DEF RunOK, SourceOK, CompleteOK
<1>9. OnRecordOK(r)'
  <2>1. Alone(r)' <=> Alone(r)
    BY <1>4, <1>5, AloneKeeps
  <2> SUFFICES ASSUME Archiving, Alone(r), NEW d \in discovered, d.run = r
               PROVE  StoredOK(r, d.page)'
    BY <1>2, <1>4, <1>5, <2>1 DEF OnRecordOK
  <2>2. StoredOK(r, d.page)
    BY <1>2 DEF RunOK, OnRecordOK
  <2> QED
    BY <1>2, <1>4, <1>5, <2>2 DEF StoredOK
<1> QED
  BY <1>4, <1>5, <1>6, <1>7, <1>8, <1>9 DEF RunOK

\* Every step of one run keeps what holds of all of them.
LEMMA StepOfRun ==
  ASSUME ScrapeInv, NEW r \in Runs, ScrapeTypeOK', RunOK(r)',
         run' = [run EXCEPT ![r] = run'[r]], received' = [received EXCEPT ![r] = received'[r]],
         run'[r].at # "idle", run[r].at # "idle" => run'[r].second = run[r].second,
         \A d \in discovered' : d.run # r => d \in discovered,
         discovered \subseteq discovered',
         \A s \in 0..MaxSecond, p \in 0..MaxPages :
           <<s, p>> \in DOMAIN archived /\ s # run'[r].second =>
             <<s, p>> \in DOMAIN archived' /\ archived'[<<s, p>>] = archived[<<s, p>>]
  PROVE  ScrapeInv'
<1>1. \A x \in Runs \ {r} : run'[x] = run[x] /\ received'[x] = received[x]
  BY DEF ScrapeInv, ScrapeTypeOK
<1>2. ASSUME NEW q \in Runs
      PROVE  RunOK(q)'
  <2>1. CASE q = r
    BY <2>1
  <2>2. CASE q # r
    BY <1>1, <2>2, OthersKeep
  <2> QED
    BY <2>1, <2>2
<1> QED
  BY <1>2 DEF ScrapeInv

\* Every step of every run keeps the invariant of all.
LEMMA ScrapeStep == ScrapeInv /\ [ScrapeNext]_scrapeVars => ScrapeInv'
<1> SUFFICES ASSUME ScrapeInv, [ScrapeNext]_scrapeVars PROVE ScrapeInv'
  OBVIOUS
<1>0. run \in [Runs -> Rows] /\ received \in [Runs -> Seq(SUBSET Events)]
  BY DEF ScrapeInv, ScrapeTypeOK, Rows
<1>1. ASSUME NEW r \in Runs, StartRun(r)
      PROVE  ScrapeInv'
  <2>1. ScrapeTypeOK' /\ RunOK(r)'
    BY <1>1, StartKeeps
  <2>2. /\ run' = [run EXCEPT ![r] = run'[r]] /\ received' = [received EXCEPT ![r] = received'[r]]
        /\ run'[r].at # "idle" /\ run[r].at = "idle"
        /\ UNCHANGED <<archived, discovered>>
    BY <1>0, <1>1 DEF StartRun, Rows
  <2> QED
    BY <2>1, <2>2, StepOfRun
<1>2. ASSUME NEW r \in Runs, run' = [run EXCEPT ![r].at = "failed"],
             UNCHANGED <<second, archived, discovered, received>>
      PROVE  ScrapeInv'
  <2>1. ScrapeTypeOK' /\ RunOK(r)' /\ run'[r].at = "failed"
    BY <1>2, FailKeeps
  <2>2. /\ run' = [run EXCEPT ![r] = run'[r]] /\ received' = [received EXCEPT ![r] = received'[r]]
        /\ run'[r].second = run[r].second
    BY <1>0, <1>2 DEF Rows
  <2> QED
    BY <1>2, <2>1, <2>2, StepOfRun
<1>3. ASSUME NEW r \in Runs, RateLimited(r)
      PROVE  ScrapeInv'
  <2>1. CASE run[r].attempt < MaxAttempts /\ run' = [run EXCEPT ![r].attempt = @ + 1]
    <3>1. /\ run[r].at = "fetch" /\ run' = [run EXCEPT ![r].attempt = run[r].attempt + 1]
          /\ UNCHANGED <<second, archived, discovered, received>>
      BY <1>3, <2>1 DEF RateLimited
    <3>2. /\ ScrapeTypeOK' /\ RunOK(r)'
          /\ run'[r].at = "fetch" /\ run'[r].second = run[r].second
      BY <2>1, <3>1, AgainKeeps
    <3>3. /\ run' = [run EXCEPT ![r] = run'[r]]
          /\ received' = [received EXCEPT ![r] = received'[r]]
      BY <1>0, <3>1
    <3> QED
      BY <3>1, <3>2, <3>3, StepOfRun
  <2>2. CASE run' = [run EXCEPT ![r].at = "failed"]
    BY <1>2, <1>3, <2>2 DEF RateLimited
  <2> QED
    BY <1>3, <2>1, <2>2 DEF RateLimited
<1>4. ASSUME NEW r \in Runs, NEW page \in SUBSET Events, NEW total \in Totals,
             Receive(r, page, total)
      PROVE  ScrapeInv'
  <2>1. /\ ScrapeTypeOK' /\ RunOK(r)'
        /\ run'[r].at # "idle" /\ run'[r].second = run[r].second
    BY <1>4, ReceiveKeeps
  <2>2. /\ run' = [run EXCEPT ![r] = run'[r]] /\ received' = [received EXCEPT ![r] = received'[r]]
        /\ UNCHANGED <<archived, discovered>>
    BY <1>0, <1>4 DEF Receive
  <2> QED
    BY <2>1, <2>2, StepOfRun
<1>5. ASSUME NEW r \in Runs, Upload(r)
      PROVE  ScrapeInv'
  <2>1. /\ ScrapeTypeOK' /\ RunOK(r)'
        /\ run'[r].at # "idle" /\ run'[r].second = run[r].second
        /\ \A s \in 0..MaxSecond, p \in 0..MaxPages :
             <<s, p>> \in DOMAIN archived /\ s # run'[r].second =>
               <<s, p>> \in DOMAIN archived' /\ archived'[<<s, p>>] = archived[<<s, p>>]
    BY <1>5, UploadKeeps
  <2>2. /\ run' = [run EXCEPT ![r] = run'[r]] /\ received' = [received EXCEPT ![r] = received'[r]]
        /\ UNCHANGED discovered
    BY <1>0, <1>5 DEF Upload
  <2> QED
    BY <2>1, <2>2, StepOfRun
<1>6. ASSUME NEW r \in Runs, NEW e \in Events, NEW heard \in BOOLEAN, Publish(r, e, heard)
      PROVE  ScrapeInv'
  <2>1. /\ ScrapeTypeOK' /\ RunOK(r)'
        /\ run'[r].at # "idle" /\ run'[r].second = run[r].second
    BY <1>6, PublishKeeps
  <2>2. /\ run' = [run EXCEPT ![r] = run'[r]] /\ received' = [received EXCEPT ![r] = received'[r]]
        /\ UNCHANGED archived
        /\ discovered \subseteq discovered'
        /\ \A d \in discovered' : d.run # r => d \in discovered
    <3>1. run' = [run EXCEPT ![r] = run'[r]]
      BY <1>0, <1>6 DEF Publish
    <3>2. /\ received' = [received EXCEPT ![r] = received'[r]] /\ UNCHANGED archived
          /\ discovered \subseteq discovered'
      BY <1>0, <1>6 DEF Publish
    <3>3. ASSUME NEW d \in discovered', d.run # r
          PROVE  d \in discovered
      BY <1>6, <3>3 DEF Publish
    <3> QED
      BY <3>1, <3>2, <3>3
  <2> QED
    BY <2>1, <2>2, StepOfRun
<1>7. ASSUME NEW r \in Runs, PageDone(r)
      PROVE  ScrapeInv'
  <2>1. /\ ScrapeTypeOK' /\ RunOK(r)'
        /\ run'[r].at # "idle" /\ run'[r].second = run[r].second
    BY <1>7, PageDoneKeeps
  <2>2. /\ run' = [run EXCEPT ![r] = run'[r]] /\ received' = [received EXCEPT ![r] = received'[r]]
        /\ UNCHANGED <<archived, discovered>>
    BY <1>0, <1>7 DEF PageDone
  <2> QED
    BY <2>1, <2>2, StepOfRun
<1>8. ASSUME UNCHANGED <<run, archived, discovered, received>>, second' \in 0..MaxSecond
      PROVE  ScrapeInv'
  BY <1>8 DEF ScrapeInv, ScrapeTypeOK, RunOK, ProgressOK, SourceOK, CompleteOK, OnRecordOK,
              StoredOK, Alone, Running
<1>9. CASE SecondPasses
  BY <1>8, <1>9, ScrapeAssumption
     DEF SecondPasses, ScrapeInv, ScrapeTypeOK, ScrapeAssumption
<1>10. CASE UNCHANGED scrapeVars
  BY <1>8, <1>10 DEF scrapeVars, ScrapeInv, ScrapeTypeOK
<1>11. ASSUME NEW r \in Runs, StartRefused(r) \/ Abort(r) \/ UploadFails(r)
       PROVE  ScrapeInv'
  BY <1>2, <1>11 DEF StartRefused, Abort, UploadFails
<1> QED
  BY <1>1, <1>3, <1>4, <1>5, <1>6, <1>7, <1>9, <1>10, <1>11 DEF ScrapeNext

\* The scraper's invariant (scraper-ticketmaster/src/main.py:41-89): what a run published and what it
\* holds are the usable events of what it received, and what it holds or published is archived.
THEOREM ScrapeInvariance == ScrapeSpec => []ScrapeInv
  BY ScrapeInitially, ScrapeStep, PTL DEF ScrapeSpec

\* Every variable of the scraper keeps its type.
THEOREM ScrapeTypeCorrect == ScrapeSpec => []ScrapeTypeOK
<1>1. ScrapeInv => ScrapeTypeOK
  BY DEF ScrapeInv
<1> QED
  BY ScrapeInvariance, <1>1, PTL

\* No event goes downstream without its raw page on record, unless another run of the same
\* second wrote over it, and a run that ends well leaves out no usable event it was answered.
THEOREM PublishedAccountedForHolds == ScrapeSpec => []PublishedAccountedFor
<1>1. ASSUME ScrapeInv, NEW r \in Runs, Archiving, Alone(r), NEW d \in discovered, d.run = r
      PROVE  /\ <<run[r].second, d.page>> \in DOMAIN archived
             /\ d.event \in archived[<<run[r].second, d.page>>]
  <2>1. d.page + 1 \in DOMAIN received[r] /\ d.event \in received[r][d.page + 1]
    BY <1>1 DEF ScrapeInv, RunOK, SourceOK
  <2>2. run[r].at # "idle"
    BY <1>1, <2>1, RowType DEF ScrapeInv, RunOK, ProgressOK
  <2>3. StoredOK(r, d.page)
    BY <1>1, <2>2 DEF ScrapeInv, RunOK, OnRecordOK
  <2> QED
    BY <2>1, <2>3 DEF StoredOK
<1>2. ASSUME ScrapeInv, NEW r \in Runs, run[r].at = "done"
      PROVE  /\ Len(received[r]) >= run[r].total \/ Len(received[r]) = MaxPages
             /\ PublishedOf(r) =
                  UNION {{p - 1} \X (received[r][p] \cap Usable) : p \in DOMAIN received[r]}
  <2>1. Len(received[r]) >= run[r].total \/ Len(received[r]) = MaxPages
    BY <1>2 DEF ScrapeInv, RunOK, ProgressOK
  <2>2. DOMAIN received[r] = 1..Len(received[r]) /\ Len(received[r]) \in Nat
    BY <1>2, RowType DEF ScrapeInv
  <2>3. ASSUME NEW d \in discovered, d.run = r
        PROVE  <<d.page, d.event>> \in
                 UNION {{p - 1} \X (received[r][p] \cap Usable) : p \in DOMAIN received[r]}
    <3>1. /\ d.page + 1 \in DOMAIN received[r]
          /\ d.event \in received[r][d.page + 1] \cap Usable
      BY <1>2, <2>3 DEF ScrapeInv, RunOK, SourceOK
    <3>2. PICK p \in DOMAIN received[r] : p = d.page + 1 /\ d.page = p - 1
      BY <1>2, <3>1 DEF ScrapeInv, ScrapeTypeOK
    <3>3. <<d.page, d.event>> \in {p - 1} \X (received[r][p] \cap Usable)
      BY <3>1, <3>2
    <3> QED
      BY <3>3
  <2>4. ASSUME NEW p \in DOMAIN received[r], NEW e \in received[r][p] \cap Usable
        PROVE  <<p - 1, e>> \in PublishedOf(r)
    <3>1. [run |-> r, page |-> p - 1, event |-> e] \in discovered
      BY <1>2 DEF ScrapeInv, RunOK, CompleteOK
    <3> QED
      BY <3>1 DEF PublishedOf
  <2>5. PublishedOf(r) \subseteq
          UNION {{p - 1} \X (received[r][p] \cap Usable) : p \in DOMAIN received[r]}
    BY <2>3 DEF PublishedOf
  <2>6. UNION {{p - 1} \X (received[r][p] \cap Usable) : p \in DOMAIN received[r]}
          \subseteq PublishedOf(r)
    BY <2>4
  <2> QED
    BY <2>1, <2>5, <2>6
<1>3. ScrapeInv => PublishedAccountedFor
  BY <1>1, <1>2 DEF PublishedAccountedFor
<1> QED
  BY ScrapeInvariance, <1>3, PTL

-------------------------------------------------------------------------------
(* The enricher's lookups *)

\* Backoff is what its recursive definition says.
LEMMA BackoffDoubles ==
  /\ \A n \in Nat : Backoff[n] \in Nat
  /\ Backoff[0] = RetryDelay
  /\ \A n \in Nat : Backoff[n + 1] = 2 * Backoff[n]
<1> DEFINE F == [n \in Nat |-> [x \in Nat |-> 2 * x]]
<1>1. RetryDelay \in Nat /\ F \in [Nat -> [Nat -> Nat]]
  BY LookAssumption DEF LookAssumption
<1>2. PICK f : Recursive(f, Nat, RetryDelay, F)
  <2> HIDE DEF F
  <2> QED
    BY <1>1, RecursionDefines
<1>3. \A n \in Nat : f[n + 1] = 2 * f[n]
  BY <1>2 DEF Recursive
<1>4. f = [n \in Nat |-> IF n = 0 THEN RetryDelay ELSE 2 * f[n - 1]]
  <2>1. ASSUME NEW n \in Nat
        PROVE  f[n] = IF n = 0 THEN RetryDelay ELSE 2 * f[n - 1]
    <3>1. CASE n = 0
      BY <3>1, <1>2 DEF Recursive
    <3>2. CASE n # 0
      <4>1. n - 1 \in Nat /\ (n - 1) + 1 = n
        BY <3>2
      <4> QED
        BY <3>2, <4>1, <1>3
    <3> QED
      BY <3>1, <3>2
  <2> QED
    BY <1>2, <2>1 DEF Recursive
<1>5. Backoff = [n \in Nat |-> IF n = 0 THEN RetryDelay ELSE 2 * Backoff[n - 1]]
  <2> HIDE DEF F
  <2> QED
    BY <1>4, Zenon DEF Backoff
<1>6. ASSUME NEW n \in Nat
      PROVE  Backoff[n + 1] = 2 * Backoff[n]
  <2>1. n + 1 \in Nat /\ n + 1 # 0 /\ (n + 1) - 1 = n
    OBVIOUS
  <2> QED
    BY <1>5, <2>1
<1>7. Backoff[0] = RetryDelay
  BY <1>5
<1>8. ASSUME NEW n \in Nat
      PROVE  Backoff[n] \in Nat
  <2> DEFINE T == {m \in Nat : Backoff[m] \notin Nat}
  <2>1. T \in SUBSET Nat /\ \A m \in Nat : m \in T <=> Backoff[m] \notin Nat
    OBVIOUS
  <2> HIDE DEF T
  <2>2. SUFFICES ASSUME T # {} PROVE FALSE
    BY <2>1
  <2>3. PICK m \in T : \A k \in T : ~(k < m)
    BY <2>1, <2>2, NatMin
  <2>4. m # 0
    BY <1>1, <1>7, <2>1
  <2>5. m - 1 \in Nat /\ m - 1 < m /\ (m - 1) + 1 = m
    BY <2>1, <2>4
  <2>6. Backoff[m - 1] \in Nat /\ Backoff[m] = 2 * Backoff[m - 1]
    BY <2>1, <2>3, <2>5, <1>6
  <2> QED
    BY <2>1, <2>6
<1> QED
  BY <1>6, <1>7, <1>8


\* The token: while it or a search is under way, its life outlasts what is left of the transit;
\* and what the client counts down ends before it does.
TokenOK ==
  /\ step \in {"token", "issued"} => expiry = 0
  /\ step = "issued" => term \in Lifetimes /\ life + took >= term
  /\ step = "search" => life + took > Transit
  /\ expiry > 0 => life + Transit >= expiry + Margin

\* The throttle and the backoff: what the client counts is what there is to count, and a sleep
\* ends when the delay it was for has passed since the 503.
PaceOK ==
  /\ restarted \/ sinceSent = sinceRequest
  /\ delay = Backoff[attempt - 1]
  /\ step = "backoff" => attempt > 1 /\ pause + calm >= Backoff[attempt - 2]
  /\ step = "throttle" /\ attempt > 1 => calm >= Backoff[attempt - 2]

LookInv == LookTypeOK /\ TokenOK /\ PaceOK

\* No token and no search is under way at first.
LEMMA LookInitially == LookInit => LookInv
<1> SUFFICES ASSUME LookInit PROVE LookInv
  OBVIOUS
<1>1. LookTypeOK
  BY LookAssumption DEF LookInit, LookAssumption, LookTypeOK
<1>2. TokenOK /\ PaceOK
  BY BackoffDoubles DEF LookInit, TokenOK, PaceOK
<1> QED
  BY <1>1, <1>2 DEF LookInv

\* Every step of a lookup keeps the two.
LEMMA LookStep == LookInv /\ [LookNext]_lookVars => LookInv'
<1> SUFFICES ASSUME LookInv, [LookNext]_lookVars
             PROVE  LookInv'
  OBVIOUS
<1> USE DEF LookInv, mbVars, spotifyVars
<1>1. /\ MinInterval \in Nat /\ RetryDelay \in Nat /\ Margin \in Nat /\ Transit \in Nat
      /\ MaxSearchAttempts \in Nat \ {0} /\ 2 * Transit <= Margin
      /\ Lifetimes \subseteq Nat /\ \A l \in Lifetimes : 2 * Transit < l
  BY LookAssumption DEF LookAssumption
<1>2. /\ delay \in Nat /\ pause \in Nat /\ calm \in Nat /\ expiry \in Nat /\ life \in Nat
      /\ lookups \in Nat /\ took \in 0..Transit /\ attempt \in 1..MaxSearchAttempts
      /\ sinceRequest \in 0..MinInterval /\ sinceSent \in 0..MinInterval
      /\ term \in Lifetimes \cup {0}
  BY DEF LookTypeOK
<1>3. CASE LookUp
  <2>1. attempt' - 1 = 0 /\ delay' = Backoff[attempt' - 1]
    BY <1>3, BackoffDoubles DEF LookUp
  <2> QED
    BY <1>1, <1>2, <1>3, <2>1 DEF LookUp, LookTypeOK, TokenOK, PaceOK
<1>4. CASE SendSearch
  <2>1. /\ sinceRequest' \in 0..MinInterval /\ sinceSent' \in 0..MinInterval
        /\ step' = "asked" /\ restarted' = FALSE
        /\ UNCHANGED <<attempt, delay, pause, expiry, term, took, lookups, life, calm>>
    BY <1>1, <1>4 DEF SendSearch
  <2>2. LookTypeOK'
    BY <2>1 DEF LookTypeOK
  <2>3. TokenOK' /\ PaceOK'
    BY <1>4 DEF SendSearch, TokenOK, PaceOK
  <2> QED
    BY <2>2, <2>3
<1>5. CASE Unready
  <2>1. /\ attempt - 1 \in Nat /\ (attempt - 1) + 1 = attempt /\ attempt' - 1 = attempt
        /\ attempt' - 2 = attempt - 1 /\ attempt' > 1 /\ attempt' \in 1..MaxSearchAttempts
    BY <1>1, <1>2, <1>5 DEF Unready
  <2>2. Backoff[attempt] = 2 * delay /\ Backoff[attempt' - 2] = delay
    BY <2>1, BackoffDoubles DEF PaceOK
  <2>3. PaceOK'
    BY <1>2, <1>5, <2>1, <2>2 DEF Unready, PaceOK
  <2>4. TokenOK'
    BY <1>5 DEF Unready, TokenOK
  <2>5. LookTypeOK'
    BY <1>2, <1>5, <2>1 DEF Unready, LookTypeOK
  <2> QED
    BY <2>3, <2>4, <2>5
<1>6. CASE TryAgain
  <2>1. attempt > 1 => calm >= Backoff[attempt - 2]
    BY <1>2, <1>6 DEF TryAgain, PaceOK
  <2> QED
    BY <1>6, <2>1 DEF TryAgain, LookTypeOK, TokenOK, PaceOK
<1>7. CASE Found
  <2>1. expiry > 0 => life + 0 > Transit
    BY <1>1, <1>2 DEF TokenOK
  <2>2. TokenOK'
    BY <1>2, <1>7, <2>1 DEF Found, TokenOK
  <2>3. LookTypeOK'
    BY <1>1, <1>7 DEF Found, LookTypeOK
  <2> QED
    BY <1>7, <2>2, <2>3 DEF Found, PaceOK
<1>8. CASE Die
  BY <1>1, <1>2, <1>8 DEF Die, LookTypeOK, TokenOK, PaceOK
<1>9. ASSUME NEW l \in Lifetimes, Issue(l)
      PROVE  LookInv'
  <2>1. l \in Nat
    BY <1>1
  <2>2. TokenOK'
    BY <1>9, <2>1 DEF Issue, TokenOK
  <2>3. LookTypeOK'
    BY <1>1, <1>9, <2>1 DEF Issue, LookTypeOK
  <2> QED
    BY <1>9, <2>2, <2>3 DEF Issue, PaceOK
<1>10. CASE TokenArrives
  <2>1. term \in Nat /\ life + took >= term /\ 2 * Transit < term
    BY <1>1, <1>10 DEF TokenArrives, TokenOK
  <2>2. life > Transit /\ life + Transit >= term
    BY <1>1, <1>2, <2>1
  <2>3. TokenOK'
    BY <1>1, <1>2, <1>10, <2>1, <2>2 DEF TokenArrives, TokenOK
  <2>4. LookTypeOK'
    BY <1>1, <1>10, <2>1 DEF TokenArrives, LookTypeOK
  <2> QED
    BY <1>10, <2>3, <2>4 DEF TokenArrives, PaceOK
<1>11. CASE SpotifyDone
  BY <1>11 DEF SpotifyDone, LookTypeOK, TokenOK, PaceOK
<1>12. CASE LookTick
  <2> USE <1>12 DEF LookTick
  <2>1. LookTypeOK'
    BY <1>1, <1>2 DEF Less, UpTo, LookTypeOK
  <2>2. TokenOK'
    <3>1. step = "issued" => 2 * Transit < term /\ term \in Nat
      BY <1>1 DEF TokenOK
    <3>2. step = "issued" => life' + took' >= term
      BY <1>1, <1>2, <3>1 DEF TokenOK, Less
    <3>3. step = "search" => life' + took' > Transit
      BY <1>1, <1>2 DEF TokenOK, Less
    <3>4. expiry' > 0 => life' + Transit >= expiry' + Margin
      BY <1>1, <1>2 DEF TokenOK, Less
    <3>5. expiry = 0 => expiry' = 0
      BY DEF Less
    <3> QED
      BY <3>2, <3>3, <3>4, <3>5 DEF TokenOK
  <2>3. PaceOK'
    <3>1. attempt > 1 => /\ Backoff[attempt - 2] \in Nat /\ delay >= Backoff[attempt - 2]
      <4>1. ASSUME attempt > 1
            PROVE  attempt - 2 \in Nat /\ (attempt - 2) + 1 = attempt - 1
        BY <1>2, <4>1
      <4>2. ASSUME attempt > 1
            PROVE  delay = 2 * Backoff[attempt - 2] /\ Backoff[attempt - 2] \in Nat
        BY <4>1, <4>2, BackoffDoubles DEF PaceOK
      <4> QED
        BY <1>2, <4>2
    <3>2. ASSUME step = "backoff"
          PROVE  attempt > 1 /\ pause' + calm' >= Backoff[attempt - 2]
      BY <1>2, <3>1, <3>2 DEF PaceOK, Less, UpTo
    <3>3. ASSUME step = "throttle", attempt > 1
          PROVE  calm' >= Backoff[attempt - 2]
      BY <1>2, <3>1, <3>3 DEF PaceOK, UpTo
    <3>4. restarted \/ sinceSent' = sinceRequest'
      BY DEF PaceOK
    <3> QED
      BY <3>2, <3>3, <3>4 DEF PaceOK
  <2> QED
    BY <2>1, <2>2, <2>3
<1>13. CASE UNCHANGED lookVars
  BY <1>13 DEF lookVars, LookTypeOK, TokenOK, PaceOK
<1> QED
  BY <1>3, <1>4, <1>5, <1>6, <1>7, <1>8, <1>9, <1>10, <1>11, <1>12, <1>13 DEF LookNext

\* The inductive invariant.
THEOREM LookInvariance == LookSpec => []LookInv
<1> QED
  BY LookInitially, LookStep, PTL DEF LookSpec

\* Every variable keeps its type in every reachable state.
THEOREM LookTypeCorrect == LookSpec => []LookTypeOK
<1>1. LookInv => LookTypeOK
  BY DEF LookInv
<1> QED
  BY <1>1, LookInvariance, PTL

\* Spotify is never asked with a token it does not honour any more.
THEOREM TokenHonouredHolds == LookSpec => []TokenHonoured
<1>1. LookInv => TokenHonoured
  <2> SUFFICES ASSUME LookInv, step = "search" PROVE life > 0
    BY DEF TokenHonoured
  <2> QED
    BY LookAssumption DEF LookInv, LookTypeOK, TokenOK, LookAssumption
<1> QED
  BY <1>1, LookInvariance, PTL

\* MusicBrainz is never asked again too soon, after an answer or after a 503.
THEOREM SearchesArePaced == LookSpec => SearchesPaced
<1>1. LookInv /\ [LookNext]_lookVars =>
        [step # "asked" /\ step' = "asked" =>
           /\ sinceSent = MinInterval \/ restarted
           /\ attempt > 1 => calm >= Backoff[attempt - 2]]_lookVars
  <2> SUFFICES ASSUME LookInv, LookNext, step # "asked", step' = "asked"
               PROVE  /\ sinceSent = MinInterval \/ restarted
                      /\ attempt > 1 => calm >= Backoff[attempt - 2]
    BY DEF lookVars
  <2>1. SendSearch
    BY DEF LookNext, LookUp, Unready, TryAgain, Found, Die, Issue, TokenArrives, SpotifyDone,
           LookTick
  <2> QED
    BY <2>1 DEF SendSearch, LookInv, PaceOK
<1> QED
  BY <1>1, LookInvariance, PTL DEF LookSpec, SearchesPaced

-------------------------------------------------------------------------------
(* Discovery *)

\* The candidates of a list: shows of as many artists, whose similarities are numbers.
Comparable(from, close) ==
  /\ from \subseteq Shows
  /\ \A s \in from : close[Headliner[s]] \in Int
  /\ \A s, t \in from : Headliner[s] = Headliner[t] => s = t

\* Closeness and the artist's id put them in a strict order.
LEMMA BetterOrders ==
  ASSUME NEW from, NEW close, Comparable(from, close),
         NEW s \in from, NEW t \in from, NEW u \in from
  PROVE  /\ ~ Better(s, s, close)
         /\ Better(s, t, close) /\ Better(t, u, close) => Better(s, u, close)
         /\ s # t => Better(s, t, close) \/ Better(t, s, close)
<1>1. /\ Headliner[s] \in Int /\ Headliner[t] \in Int /\ Headliner[u] \in Int
      /\ close[Headliner[s]] \in Int /\ close[Headliner[t]] \in Int
      /\ close[Headliner[u]] \in Int
      /\ s # t => Headliner[s] # Headliner[t]
  BY DiscoverAssumption DEF DiscoverAssumption, Comparable
<1> QED
  BY <1>1 DEF Better

\* The shows of the same genre that are closer.
Rivals(s, from, close) == {t \in from : SameGenre(s, t) /\ Better(t, s, close)}

\* Every set of candidates can be counted, and a larger one counts for no less.
LEMMA CandidatesCount ==
  ASSUME NEW from \in SUBSET Shows, NEW T \in SUBSET from, NEW U \in SUBSET T
  PROVE  /\ IsFiniteSet(T) /\ Cardinality(T) \in Nat
         /\ Cardinality(U) \in Nat /\ Cardinality(U) <= Cardinality(T)
         /\ U # T => Cardinality(U) < Cardinality(T)
<1>1. IsFiniteSet(Shows) /\ T \in SUBSET Shows
  BY DiscoverAssumption DEF DiscoverAssumption
<1>2. IsFiniteSet(T)
  BY <1>1, FS_Subset
<1>3. IsFiniteSet(U) /\ Cardinality(U) <= Cardinality(T) /\ (Cardinality(T) = Cardinality(U) => T = U)
  BY <1>2, FS_Subset
<1>4. Cardinality(T) \in Nat /\ Cardinality(U) \in Nat
  BY <1>2, <1>3, FS_CardinalityType
<1> QED
  BY <1>2, <1>3, <1>4

\* What is further behind in its genre is spare too.
LEMMA SpareOnward ==
  ASSUME NEW from, NEW close, Comparable(from, close),
         NEW s \in from, NEW t \in from, SameGenre(s, t), Better(t, s, close),
         Spare(t, from, close)
  PROVE  Spare(s, from, close)
<1>1. Rivals(t, from, close) \subseteq Rivals(s, from, close)
  <2>1. ASSUME NEW u \in from, SameGenre(t, u), Better(u, t, close)
        PROVE  SameGenre(s, u) /\ Better(u, s, close)
    BY <2>1, BetterOrders DEF SameGenre
  <2> QED
    BY <2>1 DEF Rivals
<1>2. from \in SUBSET Shows /\ Rivals(s, from, close) \in SUBSET from
  BY DEF Comparable, Rivals
<1>3. /\ Cardinality(Rivals(s, from, close)) \in Nat /\ Cardinality(Rivals(t, from, close)) \in Nat
      /\ Cardinality(Rivals(t, from, close)) <= Cardinality(Rivals(s, from, close))
  BY <1>1, <1>2, CandidatesCount
<1>4. PerGenre \in Nat /\ Cardinality(Rivals(t, from, close)) >= PerGenre
  BY DiscoverAssumption DEF DiscoverAssumption, Spare, Rivals
<1> HIDE DEF Rivals
<1>5. Cardinality(Rivals(s, from, close)) >= PerGenre
  BY <1>3, <1>4
<1> QED
  BY <1>5 DEF Spare, Rivals

\* The order of a list is strict too, and within a genre it is the one by closeness.
LEMMA BeforeOrders ==
  ASSUME NEW from, NEW close, Comparable(from, close),
         NEW s \in from, NEW t \in from, NEW u \in from
  PROVE  /\ ~ Before(s, s, from, close)
         /\ Before(s, t, from, close) /\ Before(t, u, from, close) => Before(s, u, from, close)
         /\ s # t => Before(s, t, from, close) \/ Before(t, s, from, close)
         /\ SameGenre(s, t) => (Before(s, t, from, close) <=> Better(s, t, close))
<1>1. /\ ~ Better(s, s, close)
      /\ Better(s, t, close) /\ Better(t, u, close) => Better(s, u, close)
      /\ s # t => Better(s, t, close) \/ Better(t, s, close)
      /\ Better(s, t, close) /\ Better(t, s, close) => Better(s, s, close)
  BY BetterOrders
<1>2. SameGenre(s, t) => /\ Better(s, t, close) /\ Spare(s, from, close) => Spare(t, from, close)
                         /\ Better(t, s, close) /\ Spare(t, from, close) => Spare(s, from, close)
  BY SpareOnward DEF SameGenre
<1> QED
  BY <1>1, <1>2 DEF Before

Ahead(s, from, close) == {t \in from : Before(t, s, from, close)}

\* The place of a show is a number below the number of candidates, lower for what comes before.
LEMMA PlaceOrders ==
  ASSUME NEW from, NEW close, Comparable(from, close), NEW s \in from, NEW t \in from
  PROVE  /\ Place(s, from, close) \in 0..(Cardinality(from) - 1)
         /\ Before(t, s, from, close) <=> Place(t, from, close) < Place(s, from, close)
         /\ s # t => Place(s, from, close) # Place(t, from, close)
<1>1. from \in SUBSET Shows
  BY DEF Comparable
<1>2. ASSUME NEW x \in from
      PROVE  /\ Place(x, from, close) = Cardinality(Ahead(x, from, close))
             /\ Ahead(x, from, close) \subseteq from /\ x \notin Ahead(x, from, close)
             /\ Cardinality(Ahead(x, from, close)) \in Nat
  <2>1. Ahead(x, from, close) \subseteq from /\ x \notin Ahead(x, from, close)
    BY BeforeOrders DEF Ahead
  <2> QED
    BY <1>1, <2>1, CandidatesCount DEF Place, Ahead
<1>3. ASSUME NEW x \in from, NEW y \in from, Before(y, x, from, close)
      PROVE  Cardinality(Ahead(y, from, close)) < Cardinality(Ahead(x, from, close))
  <2>1. Ahead(y, from, close) \subseteq Ahead(x, from, close) /\ y \in Ahead(x, from, close)
    BY <1>3, BeforeOrders DEF Ahead
  <2> QED
    BY <1>1, <1>2, <2>1, CandidatesCount
<1>4. Cardinality(Ahead(s, from, close)) < Cardinality(from) /\ Cardinality(from) \in Nat
  BY <1>1, <1>2, CandidatesCount
<1>5. s # t => Before(s, t, from, close) \/ Before(t, s, from, close)
  BY BeforeOrders
<1>6. s = t => ~ Before(t, s, from, close)
  BY BeforeOrders
<1>7. /\ Place(s, from, close) \in Nat /\ Place(t, from, close) \in Nat
      /\ Place(s, from, close) < Cardinality(from)
      /\ Before(t, s, from, close) => Place(t, from, close) < Place(s, from, close)
      /\ Before(s, t, from, close) => Place(s, from, close) < Place(t, from, close)
  BY <1>2, <1>3, <1>4
<1> QED
  BY <1>4, <1>5, <1>6, <1>7

\* Every place is taken.
LEMMA PlaceTaken ==
  ASSUME NEW from, NEW close, Comparable(from, close), NEW i \in 0..(Cardinality(from) - 1)
  PROVE  \E s \in from : Place(s, from, close) = i
<1> DEFINE n == Cardinality(from)
           places == [s \in from |-> Place(s, from, close)]
<1>1. IsFiniteSet(from) /\ n \in Nat
  BY CandidatesCount DEF Comparable
<1>2. places \in [from -> 0..(n - 1)]
  BY PlaceOrders
<1>3. \A s, t \in from : places[s] = places[t] => s = t
  BY PlaceOrders
<1>4. places \in Injection(from, 0..(n - 1))
  <2> HIDE DEF places, n
  <2> QED
    BY <1>2, <1>3, Fun_IsInj
<1>5. IsFiniteSet(0..(n - 1)) /\ Cardinality(0..(n - 1)) = n
  <2> HIDE DEF n
  <2>1. IsFiniteSet(0..(n - 1)) /\ Cardinality(0..(n - 1)) = IF 0 > n - 1 THEN 0 ELSE (n - 1) - 0 + 1
    BY <1>1, FS_Interval
  <2> QED
    BY <1>1, <2>1
<1>6. places \in Surjection(from, 0..(n - 1))
  <2>1. Cardinality(from) = Cardinality(0..(n - 1))
    BY <1>5
  <2> HIDE DEF places, n
  <2> QED
    BY <1>4, <1>5, <2>1, FS_Injection
<1>7. \E s \in from : places[s] = i
  <2> HIDE DEF places
  <2> QED
    BY <1>6 DEF Surjection
<1> QED
  BY <1>7

\* A spare show whose genre does not have its share among those ahead of x has a rival that is
\* not ahead of x either and is not spare.
LEMMA RivalLeft ==
  ASSUME NEW from, NEW close, Comparable(from, close), NEW s \in from, NEW x \in from,
         Spare(s, from, close), ~ Sated(s, Ahead(x, from, close))
  PROVE  \E t \in Rivals(s, from, close) :
           ~ Before(t, x, from, close) /\ ~ Spare(t, from, close)
<1> DEFINE past == Ahead(x, from, close)
           had == {t \in past : SameGenre(s, t)}
           left == Rivals(s, from, close) \ past
           places == {Place(t, from, close) : t \in left}
<1>1. from \in SUBSET Shows /\ PerGenre \in Nat
  BY DiscoverAssumption DEF DiscoverAssumption, Comparable
<1>2. had \in SUBSET from /\ Cardinality(had) \in Nat
  <2>1. had \in SUBSET from
    BY DEF Ahead
  <2> HIDE DEF had
  <2> QED
    BY <1>1, <2>1, CandidatesCount
<1>3. Cardinality(had) < PerGenre
  BY <1>1, <1>2 DEF Sated
<1>4. Rivals(s, from, close) \in SUBSET from /\ Cardinality(Rivals(s, from, close)) >= PerGenre
  BY DEF Spare, Rivals
<1>5. left # {}
  <2>1. SUFFICES ASSUME left = {} PROVE FALSE
    OBVIOUS
  <2>2. Rivals(s, from, close) \in SUBSET had
    BY <2>1 DEF Rivals
  <2>3. /\ Cardinality(Rivals(s, from, close)) <= Cardinality(had)
        /\ Cardinality(Rivals(s, from, close)) \in Nat
    <3> HIDE DEF had
    <3> QED
      BY <1>1, <1>2, <2>2, CandidatesCount
  <2> HIDE DEF had
  <2> QED
    BY <1>1, <1>2, <1>3, <1>4, <2>3
<1>6. PICK t \in left : \A u \in left : ~(Place(u, from, close) < Place(t, from, close))
  <2>1. places \in SUBSET Nat /\ places # {}
    BY <1>4, <1>5, PlaceOrders
  <2>2. PICK p \in places : \A q \in places : ~(q < p)
    <3> HIDE DEF places
    <3> QED
      BY <2>1, NatMin
  <2> QED
    BY <2>2
<1>7. /\ t \in from /\ ~ Before(t, x, from, close)
      /\ SameGenre(s, t) /\ Better(t, s, close)
  BY DEF Rivals, Ahead
<1>8. Rivals(t, from, close) \in SUBSET had
  <2> SUFFICES ASSUME NEW u \in from, SameGenre(t, u), Better(u, t, close)
               PROVE  u \in had
    BY DEF Rivals
  <2>1. SameGenre(s, u) /\ Better(u, s, close) /\ Before(u, t, from, close)
    BY <1>7, BetterOrders, BeforeOrders DEF SameGenre
  <2>2. u \notin left
    BY <1>6, <1>7, <2>1, PlaceOrders
  <2> QED
    BY <2>1, <2>2 DEF Rivals
<1>9. /\ Cardinality(Rivals(t, from, close)) <= Cardinality(had)
      /\ Cardinality(Rivals(t, from, close)) \in Nat
  <2> HIDE DEF had
  <2> QED
    BY <1>1, <1>2, <1>8, CandidatesCount
<1>10. ~(Cardinality(Rivals(t, from, close)) >= PerGenre)
  <2> HIDE DEF had
  <2> QED
    BY <1>1, <1>2, <1>3, <1>9
<1>11. ~ Spare(t, from, close)
  BY <1>10 DEF Spare, Rivals
<1> QED
  BY <1>7, <1>11

\* What comes first is what a person would pick before what comes after it.
PickedBefore(x, s, past, close) ==
  \/ ~ Sated(x, past) /\ Sated(s, past)
  \/ (Sated(x, past) <=> Sated(s, past)) /\ Better(x, s, close)

\* Of two candidates, the one the query puts first is the one to pick after those ahead of it.
LEMMA PickFirst ==
  ASSUME NEW from, NEW close, Comparable(from, close), NEW x \in from, NEW s \in from,
         Before(x, s, from, close)
  PROVE  PickedBefore(x, s, Ahead(x, from, close), close)
<1> DEFINE past == Ahead(x, from, close)
<1> SUFFICES PickedBefore(x, s, past, close)
  OBVIOUS
<1>1. from \in SUBSET Shows /\ PerGenre \in Nat
  BY DiscoverAssumption DEF DiscoverAssumption, Comparable
<1>2. Sated(x, past) <=> Spare(x, from, close)
  <2>1. {t \in past : SameGenre(x, t)} = {t \in from : SameGenre(x, t) /\ Better(t, x, close)}
    <3>1. ASSUME NEW t \in from, SameGenre(x, t)
          PROVE  Before(t, x, from, close) <=> Better(t, x, close)
      BY <3>1, BeforeOrders DEF SameGenre
    <3> QED
      BY <3>1 DEF Ahead
  <2> QED
    BY <2>1 DEF Sated, Spare
<1>3. Sated(s, past) => Spare(s, from, close)
  <2>1. {t \in past : SameGenre(s, t)} \in SUBSET Rivals(s, from, close)
    <3>1. ASSUME NEW t \in from, SameGenre(s, t), Before(t, x, from, close)
          PROVE  Better(t, s, close)
      <4>1. Before(t, s, from, close)
        BY <3>1, BeforeOrders
      <4> QED
        BY <3>1, <4>1, BeforeOrders DEF SameGenre
    <3> QED
      BY <3>1 DEF Ahead, Rivals
  <2>2. Rivals(s, from, close) \in SUBSET from
    BY DEF Rivals
  <2>3. /\ Cardinality({t \in past : SameGenre(s, t)}) <= Cardinality(Rivals(s, from, close))
        /\ Cardinality({t \in past : SameGenre(s, t)}) \in Nat
        /\ Cardinality(Rivals(s, from, close)) \in Nat
    BY <1>1, <2>1, <2>2, CandidatesCount
  <2>4. Spare(s, from, close) <=> Cardinality(Rivals(s, from, close)) >= PerGenre
    BY DEF Spare, Rivals
  <2>5. Sated(s, past) <=> Cardinality({t \in past : SameGenre(s, t)}) >= PerGenre
    BY DEF Sated
  <2> HIDE DEF past
  <2> QED
    BY <1>1, <2>3, <2>4, <2>5
<1>4. CASE Spare(s, from, close) /\ ~ Sated(s, past)
  <2>1. PICK t \in Rivals(s, from, close) :
          ~ Before(t, x, from, close) /\ ~ Spare(t, from, close)
    BY <1>4, RivalLeft
  <2>2. t \in from /\ Better(t, s, close)
    BY DEF Rivals
  <2>3. ~ Spare(x, from, close)
    BY <2>1 DEF Before
  <2>4. t = x \/ Better(x, t, close)
    BY <2>1, <2>2, <2>3, BeforeOrders DEF Before
  <2>5. Better(x, s, close)
    BY <2>2, <2>4, BetterOrders
  <2> HIDE DEF past
  <2> QED
    BY <1>2, <1>4, <2>3, <2>5 DEF PickedBefore
<1>5. CASE Spare(s, from, close) <=> Sated(s, past)
  <2> HIDE DEF past
  <2> QED
    BY <1>2, <1>5 DEF PickedBefore, Before
<1> HIDE DEF past
<1> QED
  BY <1>3, <1>4, <1>5

\* What is put on a list after past, and a list made of such picks.
Picked(x, past, from, close) ==
  /\ x \in from /\ \A s \in past : Headliner[s] # Headliner[x]
  /\ \A s \in from \ (past \cup {x}) : PickedBefore(x, s, past, close)

Diverse(list, from, close, limit) ==
  /\ DOMAIN list = 1..AtMost(limit, Cardinality(from))
  /\ \A i \in DOMAIN list : Picked(list[i], {list[j] : j \in 1..(i - 1)}, from, close)

\* The lists that are made are diverse.
LEMMA RecommendedIsDiverse ==
  ASSUME NEW from, NEW close, Comparable(from, close), NEW limit \in Nat
  PROVE  Diverse(Recommended(from, close, limit), from, close, limit)
<1> DEFINE list == Recommended(from, close, limit)
           n == AtMost(limit, Cardinality(from))
<1>1. Cardinality(from) \in Nat /\ from \in SUBSET Shows
  BY CandidatesCount DEF Comparable
<1>2. n \in Nat /\ n <= Cardinality(from)
  BY <1>1 DEF AtMost
<1>3. DOMAIN list = 1..n
  BY DEF Recommended
<1>4. ASSUME NEW i \in 1..n
      PROVE  list[i] \in from /\ Place(list[i], from, close) = i - 1
  <2>1. i - 1 \in 0..(Cardinality(from) - 1)
    BY <1>1, <1>2
  <2>2. \E s \in from : Place(s, from, close) = i - 1
    BY <2>1, PlaceTaken
  <2>3. list[i] = CHOOSE s \in from : Place(s, from, close) = i - 1
    BY DEF Recommended
  <2> HIDE DEF list
  <2> QED
    BY <2>2, <2>3
<1> HIDE DEF list, n
<1>5. ASSUME NEW i \in 1..n
      PROVE  {list[j] : j \in 1..(i - 1)} = Ahead(list[i], from, close)
  <2>1. ASSUME NEW j \in 1..(i - 1)
        PROVE  list[j] \in Ahead(list[i], from, close)
    <3>1. j \in 1..n /\ j - 1 < i - 1
      BY <1>2
    <3> QED
      BY <1>4, <3>1, PlaceOrders DEF Ahead
  <2>2. ASSUME NEW t \in Ahead(list[i], from, close)
        PROVE  \E j \in 1..(i - 1) : t = list[j]
    <3>1. t \in from /\ Before(t, list[i], from, close)
      BY DEF Ahead
    <3>2. list[i] \in from /\ Place(list[i], from, close) = i - 1
      BY <1>4
    <3>3. /\ Place(t, from, close) < Place(list[i], from, close)
          /\ Place(t, from, close) \in 0..(Cardinality(from) - 1)
      BY <3>1, <3>2, PlaceOrders
    <3>4. PICK j \in 1..(i - 1) : Place(t, from, close) = j - 1
      <4>1. Place(t, from, close) + 1 \in 1..(i - 1)
        BY <1>1, <1>2, <3>2, <3>3
      <4>2. Place(t, from, close) = (Place(t, from, close) + 1) - 1
        BY <1>1, <3>3
      <4> QED
        BY <4>1, <4>2
    <3>5. j \in 1..n
      BY <1>2
    <3>6. list[j] \in from /\ Place(list[j], from, close) = j - 1
      BY <1>4, <3>5
    <3>7. t = list[j]
      BY <3>1, <3>4, <3>6, PlaceOrders
    <3> QED
      BY <3>7
  <2> QED
    BY <2>1, <2>2
<1>6. ASSUME NEW i \in 1..n
      PROVE  Picked(list[i], Ahead(list[i], from, close), from, close)
  <2>1. list[i] \in from
    BY <1>4
  <2>2. ASSUME NEW s \in Ahead(list[i], from, close)
        PROVE  Headliner[s] # Headliner[list[i]]
    BY <2>1, BeforeOrders DEF Ahead, Comparable
  <2>3. ASSUME NEW s \in from \ (Ahead(list[i], from, close) \cup {list[i]})
        PROVE  PickedBefore(list[i], s, Ahead(list[i], from, close), close)
    <3>1. Before(list[i], s, from, close)
      BY <2>1, BeforeOrders DEF Ahead
    <3> QED
      BY <2>1, <3>1, PickFirst
  <2> QED
    BY <2>1, <2>2, <2>3 DEF Picked
<1>7. Diverse(list, from, close, limit)
  BY <1>3, <1>5, <1>6 DEF Diverse, n
<1> QED
  BY <1>7 DEF list


\* A call under way has a limit the gateway let through and, while the server stops, less time
\* left than the server has; and its list, once made, is diverse.
CallOK(c) ==
  /\ call[c].at # "idle" => call[c].limit \in 1..MaxLimit
  /\ server = "stopping" /\ Serving(c) => call[c].left < grace
  /\ call[c].at = "ranked" =>
       Diverse(call[c].list, call[c].from, call[c].close, call[c].limit)

RecInv == RecTypeOK /\ NoneCutShort /\ \A c \in Callers : CallOK(c)

\* What is assumed of the limits and of the times.
LEMMA RecConstants ==
  /\ PerGenre \in Nat \ {0} /\ DefaultLimit \in Nat \ {0} /\ MaxLimit \in Nat \ {0}
  /\ Timeout \in Nat /\ Grace \in Nat /\ Timeout < Grace
BY DiscoverAssumption DEF DiscoverAssumption

\* No call is under way at first.
LEMMA RecInitially == RecInit => RecInv
<1> SUFFICES ASSUME RecInit PROVE RecInv
  OBVIOUS
<1>1. NoCall \in RecCall /\ NoCall.at = "idle"
  <2>1. <<>> \in Seq(Shows) /\ 0 \in 0..MaxLimit /\ 0 \in 0..Timeout
    BY RecConstants
  <2> QED
    BY <2>1 DEF NoCall, RecCall
<1>2. RecTypeOK
  BY <1>1, RecConstants DEF RecInit, RecTypeOK, Likenesses
<1>3. \A c \in Callers : call[c] = NoCall
  BY DEF RecInit
<1>4. \A c \in Callers : CallOK(c)
  BY <1>1, <1>3 DEF CallOK, Serving
<1> QED
  BY <1>2, <1>4 DEF RecInit, RecInv, NoneCutShort

\* The type of a call, field by field.
LEMMA CallType ==
  ASSUME RecTypeOK, NEW c \in Callers
  PROVE  /\ call \in [Callers -> RecCall] /\ call[c] \in RecCall
         /\ call[c].limit \in 0..MaxLimit /\ call[c].left \in 0..Timeout
BY DEF RecTypeOK, RecCall

\* A list stays diverse: genres do not change.
LEMMA StaysDiverse ==
  ASSUME genre' = genre
  PROVE  \A list, from, close, limit :
           Diverse(list, from, close, limit)' <=> Diverse(list, from, close, limit)
<1>1. \A s, t : SameGenre(s, t)' <=> SameGenre(s, t)
  BY DEF SameGenre
<1>2. \A s, past : Sated(s, past)' <=> Sated(s, past)
  BY <1>1 DEF Sated
<1>3. \A x, s, past, close :
        PickedBefore(x, s, past, close)' <=> PickedBefore(x, s, past, close)
  BY <1>2 DEF PickedBefore, Better
<1>4. \A x, past, from, close : Picked(x, past, from, close)' <=> Picked(x, past, from, close)
  BY <1>3 DEF Picked
<1> QED
  BY <1>4, Zenon DEF Diverse, AtMost

\* A step that changes one call only leaves the others as they were.
LEMMA OneCallMoves ==
  ASSUME RecInv, NEW c \in Callers, NEW new \in RecCall,
         call' = [call EXCEPT ![c] = new], CallOK(c)',
         UNCHANGED <<catalogue, server, grace, turns, cut>>,
         discovers' \in Nat
  PROVE  RecInv'
<1>1. call' \in [Callers -> RecCall]
  BY DEF RecInv, RecTypeOK
<1>2. \A x \in Callers : x # c => call'[x] = call[x]
  BY DEF RecInv, RecTypeOK
<1>3. RecTypeOK' /\ NoneCutShort'
  BY <1>1 DEF RecInv, RecTypeOK, NoneCutShort, catalogue
<1>4. ASSUME NEW x \in Callers, x # c
      PROVE  CallOK(x)'
  <2>1. call'[x] = call[x] /\ genre' = genre /\ server' = server /\ grace' = grace
    BY <1>2, <1>4 DEF catalogue
  <2> QED
    BY <2>1, StaysDiverse DEF RecInv, CallOK, Serving
<1> QED
  BY <1>3, <1>4 DEF RecInv

\* NoCall is what an idle caller has, and is fine.
LEMMA CallEnds ==
  ASSUME RecInv, NEW c \in Callers, call' = [call EXCEPT ![c] = NoCall],
         UNCHANGED <<catalogue, server, grace, turns, cut>>, discovers' \in Nat
  PROVE  RecInv'
<1>1. NoCall \in RecCall /\ NoCall.at = "idle"
  <2>1. <<>> \in Seq(Shows) /\ 0 \in 0..MaxLimit /\ 0 \in 0..Timeout
    BY RecConstants
  <2> QED
    BY <2>1 DEF NoCall, RecCall
<1>2. call'[c] = NoCall
  BY DEF RecInv, RecTypeOK
<1>3. CallOK(c)'
  BY <1>1, <1>2 DEF CallOK, Serving
<1> QED
  BY <1>1, <1>3, OneCallMoves

\* A list is made of candidates that can be compared.
LEMMA RankKeeps ==
  ASSUME RecInv, NEW c \in Callers, NEW from \in SUBSET Shows, Rank(c, from)
  PROVE  RecInv'
<1> DEFINE list == Recommended(from, likeness, Served(call[c].limit))
           new == [call[c] EXCEPT !.at = "ranked", !.from = from, !.close = likeness,
                                  !.list = list]
<1> USE DEF RecInv
<1>1. call[c] \in RecCall /\ call[c].limit \in 1..MaxLimit /\ likeness \in Likenesses
  BY CallType DEF Rank, CallOK, RecTypeOK
<1>2. Served(call[c].limit) = call[c].limit /\ call[c].limit \in Nat
  BY <1>1, RecConstants DEF Served, AtMost
<1>3. Comparable(from, likeness)
  <2>1. ASSUME NEW s \in from
        PROVE  likeness[Headliner[s]] \in Int
    <3>1. Wanted(s) /\ Headliner[s] \in Artists
      BY DiscoverAssumption DEF Rank, Candidates, Soonest, DiscoverAssumption
    <3>2. likeness[Headliner[s]] \in Closeness
      BY <1>1, <3>1 DEF Wanted, Likenesses
    <3> QED
      BY <3>2, DiscoverAssumption DEF DiscoverAssumption
  <2>2. \A s, t \in from : Headliner[s] = Headliner[t] => s = t
    BY DEF Rank, Candidates
  <2> QED
    BY <2>1, <2>2 DEF Comparable
<1>4. Diverse(list, from, likeness, call[c].limit)
  BY <1>2, <1>3, RecommendedIsDiverse
<1>5. list \in Seq(Shows)
  <2>1. Cardinality(from) \in Nat
    BY CandidatesCount
  <2>2. AtMost(call[c].limit, Cardinality(from)) \in Nat
    BY <1>2, <2>1 DEF AtMost
  <2>3. \A i \in 1..AtMost(call[c].limit, Cardinality(from)) : list[i] \in Shows
    BY <1>4 DEF Diverse, Picked
  <2>4. list = [i \in 1..AtMost(call[c].limit, Cardinality(from)) |-> list[i]]
    BY <1>2 DEF Recommended
  <2> HIDE DEF list
  <2> QED
    BY <2>2, <2>3, <2>4
<1> HIDE DEF list
<1>6. /\ new \in RecCall /\ new.at = "ranked" /\ new.limit = call[c].limit
      /\ new.left = call[c].left /\ new.from = from /\ new.close = likeness /\ new.list = list
  BY <1>1, <1>5 DEF RecCall
<1>7. /\ call' = [call EXCEPT ![c] = new]
      /\ UNCHANGED <<catalogue, server, grace, discovers, turns, cut>>
      /\ call[c].at = "handled"
  BY DEF Rank, list
<1> HIDE DEF new
<1>8. call'[c] = new
  BY <1>7, CallType
<1>9. CallOK(c)'
  <2>1. genre' = genre
    BY <1>7 DEF catalogue
  <2>2. Diverse(call[c].list, call[c].from, call[c].close, call[c].limit)'
    BY <1>4, <1>6, <1>8, <2>1, StaysDiverse
  <2> QED
    BY <1>1, <1>6, <1>7, <1>8, <2>2 DEF CallOK, Serving
<1> QED
  BY <1>6, <1>7, <1>9, OneCallMoves DEF RecTypeOK

\* Steps that leave the calls as they are, or drop some of them.
LEMMA CallsDrop ==
  ASSUME RecInv, NEW D \in SUBSET Callers,
         call' = [c \in Callers |-> IF c \in D THEN NoCall ELSE call[c]],
         genre' = genre,
         \A c \in Callers \ D : server' = "stopping" /\ Serving(c) => call[c].left < grace'
  PROVE  call' \in [Callers -> RecCall] /\ \A c \in Callers : CallOK(c)'
<1>1. NoCall \in RecCall /\ NoCall.at = "idle"
  <2>1. <<>> \in Seq(Shows) /\ 0 \in 0..MaxLimit /\ 0 \in 0..Timeout
    BY RecConstants
  <2> QED
    BY <2>1 DEF NoCall, RecCall
<1>2. call' \in [Callers -> RecCall]
  BY <1>1 DEF RecInv, RecTypeOK
<1>3. ASSUME NEW c \in Callers \ D
      PROVE  CallOK(c)'
  <2>1. call'[c] = call[c] /\ CallOK(c)
    BY DEF RecInv
  <2> QED
    BY <2>1, StaysDiverse DEF CallOK, Serving
<1>4. ASSUME NEW c \in D
      PROVE  CallOK(c)'
  <2>1. call'[c] = NoCall
    OBVIOUS
  <2> QED
    BY <1>1, <2>1 DEF CallOK, Serving
<1> QED
  BY <1>2, <1>3, <1>4

\* A step that leaves calls and genres alone keeps every call as it should be.
LEMMA CallsStay ==
  ASSUME RecInv, call' = call, genre' = genre,
         \A c \in Callers : server' = "stopping" /\ Serving(c) => call[c].left < grace'
  PROVE  call' \in [Callers -> RecCall] /\ \A c \in Callers : CallOK(c)'
<1> DEFINE none == {}
<1>1. none \in SUBSET Callers /\ \A c : c \notin none
  OBVIOUS
<1> HIDE DEF none
<1>2. call' = [c \in Callers |-> IF c \in none THEN NoCall ELSE call[c]]
  BY <1>1 DEF RecInv, RecTypeOK
<1> QED
  BY <1>1, <1>2, CallsDrop

\* Every step of discovery keeps the invariant.
LEMMA RecStep == RecInv /\ [RecNext]_recVars => RecInv'
<1> SUFFICES ASSUME RecInv, [RecNext]_recVars
             PROVE  RecInv'
  OBVIOUS
<1>1. /\ discovers \in Nat /\ turns \in Nat /\ cut = {} /\ grace \in 0..Grace
      /\ \A c \in Callers : /\ call[c] \in RecCall /\ CallOK(c)
                            /\ call[c].left \in 0..Timeout /\ call[c].limit \in 0..MaxLimit
  BY CallType DEF RecInv, RecTypeOK, NoneCutShort
<1>2. ASSUME NEW c \in Callers, NEW limit \in Limits, Discover(c, limit)
      PROVE  RecInv'
  <2> DEFINE new == [NoCall EXCEPT !.at = "sent", !.limit = limit, !.left = Timeout]
  <2>1. discovers' \in Nat /\ UNCHANGED <<catalogue, server, grace, turns, cut>>
    BY <1>1, <1>2 DEF Discover
  <2>2. CASE limit \in 1..MaxLimit
    <3>1. new \in RecCall /\ new.at = "sent" /\ new.limit = limit
      <4>1. <<>> \in Seq(Shows) /\ limit \in 0..MaxLimit /\ Timeout \in 0..Timeout
        BY <2>2, RecConstants
      <4> QED
        BY <4>1 DEF NoCall, RecCall
    <3>2. call' = [call EXCEPT ![c] = new]
      BY <1>2, <2>2 DEF Discover
    <3> HIDE DEF new
    <3>3. call'[c] = new
      BY <3>2, CallType DEF RecInv
    <3>4. CallOK(c)'
      BY <2>2, <3>1, <3>3 DEF CallOK, Serving
    <3> QED
      BY <2>1, <3>1, <3>2, <3>4, OneCallMoves
  <2>3. CASE limit \notin 1..MaxLimit
    <3>1. call' = call
      BY <1>2, <2>3 DEF Discover
    <3>2. call' \in [Callers -> RecCall] /\ \A x \in Callers : CallOK(x)'
      BY <1>1, <2>1, <3>1, CallsStay DEF CallOK, catalogue
    <3> QED
      BY <2>1, <3>2 DEF RecInv, RecTypeOK, NoneCutShort, catalogue
  <2> QED
    BY <2>2, <2>3
<1>3. ASSUME NEW c \in Callers, TakeCall(c)
      PROVE  RecInv'
  <2>1. discovers' \in Nat /\ UNCHANGED <<catalogue, server, grace, turns, cut>>
    BY <1>1, <1>3 DEF TakeCall
  <2>2. CASE server = "up"
    <3> DEFINE new == [call[c] EXCEPT !.at = "handled"]
    <3>1. /\ new \in RecCall /\ new.at = "handled" /\ new.limit = call[c].limit
          /\ call[c].at = "sent"
      BY <1>1, <1>3 DEF TakeCall, RecCall
    <3>2. call' = [call EXCEPT ![c] = new]
      BY <1>3, <2>2 DEF TakeCall
    <3> HIDE DEF new
    <3>3. call'[c] = new
      BY <3>2, CallType DEF RecInv
    <3>4. CallOK(c)'
      BY <1>1, <2>1, <2>2, <3>1, <3>3 DEF CallOK, Serving
    <3> QED
      BY <2>1, <3>1, <3>2, <3>4, OneCallMoves
  <2>3. CASE server # "up"
    BY <1>3, <2>1, <2>3, CallEnds DEF TakeCall
  <2> QED
    BY <2>2, <2>3
<1>4. ASSUME NEW c \in Callers, Answer(c)
      PROVE  RecInv'
  BY <1>1, <1>4, CallEnds DEF Answer
<1>5. ASSUME NEW c \in Callers, NEW from \in SUBSET Shows, Rank(c, from)
      PROVE  RecInv'
  BY <1>5, RankKeeps
<1>6. CASE RecTick
  <2>4. grace' \in 0..Grace /\ (server = "stopping" => grace' = grace - 1)
    <3>1. /\ server = "stopping" => grace > 0
          /\ grace' = IF server = "stopping" THEN grace - 1 ELSE grace
      BY <1>6 DEF RecTick
    <3> QED
      BY <1>1, <3>1, RecConstants
  <2> USE <1>6 DEF RecTick
  <2>1. \A c \in Callers : call'[c] = IF call[c].at = "idle" THEN call[c]
                                      ELSE [call[c] EXCEPT !.left = @ - 1]
    OBVIOUS
  <2>2. ASSUME NEW c \in Callers, call[c].at # "idle"
        PROVE  /\ call'[c] \in RecCall /\ call'[c].left = call[c].left - 1
               /\ call'[c].at = call[c].at /\ call'[c].limit = call[c].limit
               /\ call'[c].list = call[c].list /\ call'[c].from = call[c].from
               /\ call'[c].close = call[c].close
    <3>1. call[c].left - 1 \in 0..Timeout
      <4>1. call[c].left > 0 /\ call[c].left \in 0..Timeout
        BY <1>1, <2>2
      <4> QED
        BY <4>1, RecConstants
    <3> QED
      BY <1>1, <2>1, <2>2, <3>1 DEF RecCall
  <2>3. \A c \in Callers : call'[c] \in RecCall
    BY <1>1, <2>1, <2>2
  <2>5. ASSUME NEW c \in Callers
        PROVE  CallOK(c)'
    <3>1. CASE call[c].at = "idle"
      BY <2>1, <3>1 DEF CallOK, Serving
    <3>2. CASE call[c].at # "idle"
      <4>1. server = "stopping" /\ Serving(c) => call[c].left - 1 < grace'
        BY <1>1, <2>4 DEF CallOK
      <4>2. call[c].at = "ranked" =>
              Diverse(call[c].list, call[c].from, call[c].close, call[c].limit)'
        BY <1>1, <2>2, <3>2, StaysDiverse DEF CallOK, catalogue
      <4> QED
        BY <1>1, <2>2, <3>2, <4>1, <4>2 DEF CallOK, Serving
    <3> QED
      BY <3>1, <3>2
  <2>6. call' \in [Callers -> RecCall]
    BY <2>3
  <2>7. RecTypeOK' /\ NoneCutShort'
    BY <2>4, <2>6 DEF RecInv, RecTypeOK, NoneCutShort, catalogue
  <2> QED
    BY <2>5, <2>7 DEF RecInv
<1>7. CASE Sigterm
  <2>1. ASSUME NEW c \in Callers
        PROVE  call[c].left < grace'
    BY <1>1, <1>7, RecConstants DEF Sigterm
  <2>2. call' \in [Callers -> RecCall] /\ \A c \in Callers : CallOK(c)'
    BY <1>7, <2>1, CallsStay DEF Sigterm, catalogue
  <2>3. grace' \in 0..Grace /\ turns' \in Nat
    BY <1>1, <1>7, RecConstants DEF Sigterm, Turn
  <2> QED
    BY <1>7, <2>2, <2>3 DEF Sigterm, RecInv, RecTypeOK, NoneCutShort, catalogue
<1>8. CASE Stopped
  <2>1. \A c \in Callers : ~ Serving(c)
    BY <1>1, <1>8 DEF Stopped, CallOK
  <2>2. cut' = {}
    BY <1>1, <1>8, <2>1 DEF Stopped
  <2>3. call' = call
    BY <1>8, <2>1 DEF Stopped, RecInv, RecTypeOK
  <2>4. call' \in [Callers -> RecCall] /\ \A c \in Callers : CallOK(c)'
    BY <1>8, <2>1, <2>3, CallsStay DEF Stopped, catalogue
  <2>5. grace' \in 0..Grace
    BY <1>8, RecConstants DEF Stopped
  <2> QED
    BY <1>8, <2>2, <2>4, <2>5 DEF Stopped, RecInv, RecTypeOK, NoneCutShort, catalogue
<1>9. CASE RecCrash
  <2>1. call' = [c \in Callers |-> IF c \in {x \in Callers : Serving(x)} THEN NoCall ELSE call[c]]
    BY <1>9 DEF RecCrash
  <2>2. call' \in [Callers -> RecCall] /\ \A c \in Callers : CallOK(c)'
    BY <1>9, <2>1, CallsDrop DEF RecCrash, catalogue
  <2>3. grace' \in 0..Grace /\ turns' \in Nat
    BY <1>1, <1>9, RecConstants DEF RecCrash, Turn
  <2> QED
    BY <1>9, <2>2, <2>3 DEF RecCrash, RecInv, RecTypeOK, NoneCutShort, catalogue
<1>10. CASE StartServer
  <2>1. call' \in [Callers -> RecCall] /\ \A c \in Callers : CallOK(c)'
    BY <1>10, CallsStay DEF StartServer, catalogue
  <2> QED
    BY <1>10, <2>1 DEF StartServer, RecInv, RecTypeOK, NoneCutShort, catalogue
<1>11. CASE /\ UNCHANGED <<genre, call, server, grace, discovers, cut>> /\ turns' \in Nat
            /\ likeness' \in Likenesses /\ located' \in BOOLEAN
            /\ open' \subseteq Shows /\ followed' \subseteq Artists /\ hidden' \subseteq Shows
  <2>1. call' \in [Callers -> RecCall] /\ \A c \in Callers : CallOK(c)'
    BY <1>1, <1>11, CallsStay DEF CallOK
  <2> QED
    BY <1>11, <2>1 DEF RecInv, RecTypeOK, NoneCutShort
<1>12. ASSUME NEW a \in Artists, NEW close \in [Artists -> Closeness \cup {Unknown}],
              NEW tasted \in BOOLEAN, Follow(a, close, tasted)
       PROVE  RecInv'
  <2>1. turns' \in Nat
    BY <1>1, <1>12 DEF Follow, Turn
  <2> QED
    BY <1>11, <1>12, <2>1 DEF Follow, Likenesses, RecInv, RecTypeOK
<1>13. ASSUME NEW s \in Shows, Dismiss(s) \/ ShowChanges(s)
       PROVE  RecInv'
  <2>1. turns' \in Nat
    BY <1>1, <1>13 DEF Dismiss, ShowChanges, Turn
  <2> QED
    BY <1>11, <1>13, <2>1 DEF Dismiss, ShowChanges, RecInv, RecTypeOK
<1>14. CASE UNCHANGED recVars
  BY <1>1, <1>11, <1>14 DEF recVars, catalogue, RecInv, RecTypeOK
<1> QED
  BY <1>2, <1>3, <1>4, <1>5, <1>6, <1>7, <1>8, <1>9, <1>10, <1>12, <1>13, <1>14 DEF RecNext

\* The inductive invariant.
THEOREM RecInvariance == RecSpec => []RecInv
<1> QED
  BY RecInitially, RecStep, PTL DEF RecSpec

\* Every variable keeps its type in every reachable state.
THEOREM RecTypeCorrect == RecSpec => []RecTypeOK
<1>1. RecInv => RecTypeOK
  BY DEF RecInv
<1> QED
  BY <1>1, RecInvariance, PTL

\* A restart cancels no call, for any number of callers and any deadline shorter than the grace.
THEOREM NoneCutShortHolds == RecSpec => []NoneCutShort
<1>1. RecInv => NoneCutShort
  BY DEF RecInv
<1> QED
  BY <1>1, RecInvariance, PTL

\* Every list is diverse, for any catalogue, tastes, share and limit.
THEOREM ListsAreDiverseHolds == RecSpec => []ListsAreDiverse
<1>1. RecInv => ListsAreDiverse
  <2> SUFFICES ASSUME RecInv, NEW c \in Callers, call[c].at = "ranked"
               PROVE  Diverse(call[c].list, call[c].from, call[c].close, call[c].limit)
    BY DEF ListsAreDiverse, Diverse, Picked, PickedBefore
  <2> QED
    BY DEF RecInv, CallOK
<1> QED
  BY <1>1, RecInvariance, PTL

-------------------------------------------------------------------------------
(* The five together *)

\* A behaviour of the edges is one of each of them: the four that are not its part stand still.
THEOREM EdgesAreTheirParts ==
  EdgesSpec => LiveSpec /\ GeoSpec /\ ScrapeSpec /\ LookSpec /\ RecSpec
<1>1. EdgesInit => LiveInit /\ GeoInit /\ ScrapeInit /\ LookInit /\ RecInit
  BY DEF EdgesInit
<1>2. [EdgesNext]_edgesVars => [LiveNext]_liveVars
  BY DEF EdgesNext, edgesVars
<1>3. [EdgesNext]_edgesVars => [GeoNext]_geoVars
  BY DEF EdgesNext, edgesVars
<1>4. [EdgesNext]_edgesVars => [ScrapeNext]_scrapeVars
  BY DEF EdgesNext, edgesVars
<1>5. [EdgesNext]_edgesVars => [LookNext]_lookVars
  BY DEF EdgesNext, edgesVars
<1>6. [EdgesNext]_edgesVars => [RecNext]_recVars
  BY DEF EdgesNext, edgesVars
<1> QED
  BY <1>1, <1>2, <1>3, <1>4, <1>5, <1>6, PTL
     DEF EdgesSpec, LiveSpec, GeoSpec, ScrapeSpec, LookSpec, RecSpec

\* Every variable of the five keeps its type.
THEOREM EdgesTypeCorrect == EdgesSpec => []EdgesTypeOK
<1>1. LiveTypeOK /\ GeoTypeOK /\ ScrapeTypeOK /\ LookTypeOK /\ RecTypeOK => EdgesTypeOK
  BY DEF EdgesTypeOK
<1> QED
  BY <1>1, EdgesAreTheirParts, LiveTypeCorrect, GeoTypeCorrect, ScrapeTypeCorrect,
     LookTypeCorrect, RecTypeCorrect, PTL
===============================================================================
