-------------------------- MODULE SchwabClientProofs --------------------------
(***************************************************************************)
(* Proofs about the Schwab client, for every chunk length, time zone,      *)
(* window, set of callers and whatever Schwab answers.                     *)
(*                                                                         *)
(*  - RateLimiter: types, and grants an interval apart.                    *)
(*  - PriceHistory: types, the chunks tile the range, every candle is      *)
(*    kept once, the other queries are made only when there is none.       *)
(*  - SchwabClient: its steps are steps of both, so what holds of either   *)
(*    holds of the client.                                                 *)
(*                                                                         *)
(* Unseen is computed by a recursive function.  That it exists and what it *)
(* returns is proved by induction, as a fact about sets of naturals, which *)
(* has no operator for a parameter: the first section.                     *)
(***************************************************************************)
EXTENDS SchwabClient, TLAPS, SequenceTheorems, FiniteSetTheorems, WellFoundedInduction

-----------------------------------------------------------------------------
(* Induction over the naturals, and functions defined by recursion.        *)

\* The part of T up to n: finite.
Upto(T, n) == {j \in T : j <= n}

\* Every set of naturals has a least element.
LEMMA LeastElement ==
    ASSUME NEW T \in SUBSET Nat, T # {}
    PROVE  \E m \in T : \A k \in T : m <= k
<1> DEFINE F == {Upto(T, n) : n \in T}
           R == StrictSubsetOrdering(Nat)
<1>1. IsWellFoundedOn(R, FiniteSubsetsOf(Nat))
  BY FS_StrictSubsetOrderingWellFounded
<1>2. ASSUME NEW n \in T PROVE Upto(T, n) \in FiniteSubsetsOf(Nat)
  <2>1. Upto(T, n) \in SUBSET Nat /\ n \in Nat /\ \A s \in Upto(T, n) : s <= n
    BY DEF Upto
  <2>2. IsFiniteSet(Upto(T, n))
    BY <2>1, FS_BoundedSetOfNaturals
  <2> QED
    BY <2>1, <2>2 DEF FiniteSubsetsOf
<1>3. F \subseteq FiniteSubsetsOf(Nat) /\ F # {}
  BY <1>2
<1>4. PICK x \in F : \A y \in F : ~ (<<y, x>> \in R)
  <2> HIDE DEF F, R
  <2> QED BY <1>1, <1>3, WFMin
<1>5. PICK m \in T : x = Upto(T, m)
  BY <1>4
<1>6. ASSUME NEW k \in T, k < m PROVE FALSE
  <2>1. m \in Nat /\ k \in Nat OBVIOUS
  <2>2. Upto(T, k) \in F OBVIOUS
  <2>3. Upto(T, k) \subseteq x
    <3>1. ASSUME NEW j \in T, j <= k PROVE j <= m
      <4>1. j \in Nat OBVIOUS
      <4> QED BY <4>1, <2>1, <1>6, <3>1
    <3> QED BY <3>1, <1>5 DEF Upto
  <2>4. m \in x /\ m \notin Upto(T, k)
    BY <2>1, <1>5, <1>6 DEF Upto
  <2>5. Upto(T, k) \in SUBSET Nat /\ x \in SUBSET Nat
    BY <1>5 DEF Upto
  <2>6. <<Upto(T, k), x>> \in R
    BY <2>3, <2>5, <2>4 DEF StrictSubsetOrdering
  <2> QED BY <2>2, <2>6, <1>4
<1>7. \A k \in T : m <= k
  <2> TAKE k \in T
  <2>1. m \in Nat /\ k \in Nat OBVIOUS
  <2> QED BY <2>1, <1>6
<1> QED BY <1>7

\* Induction, for a set instead of a predicate.
LEMMA NatSetInduction ==
    ASSUME NEW S \in SUBSET Nat, 0 \in S, \A n \in S : n + 1 \in S
    PROVE  S = Nat
<1> SUFFICES ASSUME S # Nat PROVE FALSE OBVIOUS
<1>1. PICK m \in Nat \ S : \A k \in Nat \ S : m <= k
  <2>1. Nat \ S # {} /\ Nat \ S \in SUBSET Nat OBVIOUS
  <2> QED BY <2>1, LeastElement
<1>2. m # 0 /\ m - 1 \in Nat OBVIOUS
<1>3. m - 1 \in S BY <1>1, <1>2
<1> QED BY <1>2, <1>3


\* g is the first n steps from a.
Iterates(g, X, a, n, step) ==
    /\ g \in [0..n -> X] /\ g[0] = a
    /\ \A k \in 1..n : g[k] = step[k][g[k - 1]]

LEMMA OneMore ==
    ASSUME NEW X, NEW a \in X, NEW N \in Nat, NEW step \in [1..N -> [X -> X]],
           NEW n \in Nat, n + 1 <= N, NEW g, Iterates(g, X, a, n, step)
    PROVE  \E h : Iterates(h, X, a, n + 1, step)
<1> DEFINE y == step[n + 1][g[n]]
           h == [k \in 0..n + 1 |-> IF k = n + 1 THEN y ELSE g[k]]
<1>1. g \in [0..n -> X] /\ g[0] = a /\ \A k \in 1..n : g[k] = step[k][g[k - 1]]
  BY DEF Iterates
<1>2. y \in X
  <2>1. g[n] \in X BY <1>1
  <2>2. step[n + 1] \in [X -> X] OBVIOUS
  <2> QED BY <2>1, <2>2
<1> HIDE DEF y
<1>3. \A k \in 0..n + 1 : k = n + 1 \/ (k # n + 1 /\ k \in 0..n) OBVIOUS
<1>4. h \in [0..n + 1 -> X]
  BY <1>1, <1>2, <1>3
<1>5. h[0] = a /\ h[n + 1] = y /\ h[n] = g[n]
  BY <1>1
<1>6. ASSUME NEW k \in 1..n + 1 PROVE h[k] = step[k][h[k - 1]]
  <2>1. CASE k = n + 1
    <3>1. k - 1 = n BY <2>1
    <3> QED BY <2>1, <3>1, <1>5 DEF y
  <2>2. CASE k # n + 1
    <3>1. k \in 1..n /\ k \in 0..n + 1 /\ k - 1 \in 0..n + 1 /\ k - 1 # n + 1
      BY <2>2
    <3>2. h[k] = g[k] /\ h[k - 1] = g[k - 1]
      BY <3>1, <2>2
    <3> QED BY <3>1, <3>2, <1>1
  <2> QED BY <2>1, <2>2
<1> HIDE DEF h
<1> QED BY <1>4, <1>5, <1>6 DEF Iterates

\* A function defined by recursion exists.
LEMMA Recursion ==
    ASSUME NEW X, NEW a \in X, NEW N \in Nat, NEW step \in [1..N -> [X -> X]]
    PROVE  \E g : Iterates(g, X, a, N, step)
<1> DEFINE S == {n \in Nat : n <= N => \E g : Iterates(g, X, a, n, step)}
<1>1. 0 \in S
  <2>1. Iterates([k \in 0..0 |-> a], X, a, 0, step) BY DEF Iterates
  <2> QED BY <2>1
<1>2. ASSUME NEW n \in S PROVE n + 1 \in S
  <2>1. n \in Nat /\ n + 1 \in Nat OBVIOUS
  <2>2. CASE n + 1 <= N
    <3>1. n <= N BY <2>1, <2>2
    <3>2. PICK g : Iterates(g, X, a, n, step) BY <3>1
    <3>3. \E h : Iterates(h, X, a, n + 1, step) BY <2>1, <2>2, <3>2, OneMore
    <3> QED BY <2>1, <3>3
  <2>3. CASE ~ (n + 1 <= N) BY <2>1, <2>3
  <2> QED BY <2>2, <2>3
<1>3. S = Nat
  <2>1. S \in SUBSET Nat OBVIOUS
  <2> HIDE DEF S
  <2> QED BY <2>1, <1>1, <1>2, NatSetInduction
<1>4. N \in S BY <1>3
<1> QED BY <1>4

-----------------------------------------------------------------------------
(* PriceHistory: the candles of an answer are kept once.                   *)

Candle == Stamp \cup {None}

\* No stamp occurs twice.
NoneTwice(s) == \A i, j \in 1..Len(s) : s[i] = s[j] => i = j \/ s[i] = None

\* One candle of body, after those of s.
KeepOne(s, c) == IF c \in seen \cup StampsOf(s) THEN s ELSE Append(s, c)

LEMMA StampsOfAppend ==
    ASSUME NEW s \in Seq(Candle), NEW c \in Candle
    PROVE  StampsOf(Append(s, c)) = StampsOf(s) \cup ({c} \ {None})
<1> DEFINE t == Append(s, c)
<1>1. /\ Len(s) \in Nat /\ Len(t) = Len(s) + 1
      /\ \A i \in 1..Len(s) : t[i] = s[i]
      /\ t[Len(s) + 1] = c
  OBVIOUS
<1> HIDE DEF t
<1>2. {t[i] : i \in 1..Len(t)} = {s[i] : i \in 1..Len(s)} \cup {c}
  <2>1. \A i \in 1..Len(t) : i = Len(s) + 1 \/ i \in 1..Len(s) BY <1>1
  <2>2. \A i \in 1..Len(s) : i \in 1..Len(t) BY <1>1
  <2>3. Len(s) + 1 \in 1..Len(t) BY <1>1
  <2> QED BY <2>1, <2>2, <2>3, <1>1
<1> QED BY <1>2 DEF StampsOf, t

LEMMA StampsOfConcat ==
    ASSUME NEW s \in Seq(Candle), NEW t \in Seq(Candle)
    PROVE  StampsOf(s \o t) = StampsOf(s) \cup StampsOf(t)
<1> DEFINE u == s \o t
<1>1. /\ Len(s) \in Nat /\ Len(t) \in Nat /\ Len(u) = Len(s) + Len(t)
      /\ \A i \in 1..Len(s) : u[i] = s[i]
      /\ \A i \in 1..Len(t) : u[Len(s) + i] = t[i]
  OBVIOUS
<1> HIDE DEF u
<1>2. ASSUME NEW i \in 1..Len(u) PROVE i \in 1..Len(s) \/ \E j \in 1..Len(t) : i = Len(s) + j
  <2>1. CASE i > Len(s)
    <3>1. i - Len(s) \in 1..Len(t) /\ i = Len(s) + (i - Len(s)) BY <1>1, <2>1
    <3> QED BY <3>1
  <2> QED BY <2>1, <1>1
<1>3. {u[i] : i \in 1..Len(u)} = {s[i] : i \in 1..Len(s)} \cup {t[i] : i \in 1..Len(t)}
  <2>1. \A i \in 1..Len(s) : i \in 1..Len(u) BY <1>1
  <2>2. \A i \in 1..Len(t) : Len(s) + i \in 1..Len(u) BY <1>1
  <2>3. \A i \in 1..Len(u) : u[i] \in {s[j] : j \in 1..Len(s)} \cup {t[j] : j \in 1..Len(t)}
    BY <1>1, <1>2
  <2>4. \A i \in 1..Len(s) : s[i] \in {u[j] : j \in 1..Len(u)}
    BY <1>1, <2>1
  <2>5. \A i \in 1..Len(t) : t[i] \in {u[j] : j \in 1..Len(u)}
    BY <1>1, <2>2
  <2> QED BY <2>3, <2>4, <2>5
<1> QED BY <1>3 DEF StampsOf, u

LEMMA NoneTwiceConcat ==
    ASSUME NEW s \in Seq(Candle), NEW t \in Seq(Candle), NoneTwice(s), NoneTwice(t),
           StampsOf(s) \cap StampsOf(t) = {}
    PROVE  NoneTwice(s \o t)
<1> DEFINE u == s \o t
<1>1. /\ Len(s) \in Nat /\ Len(t) \in Nat /\ Len(u) = Len(s) + Len(t)
      /\ \A i \in 1..Len(s) : u[i] = s[i]
      /\ \A i \in 1..Len(u) : i > Len(s) => i - Len(s) \in 1..Len(t) /\ u[i] = t[i - Len(s)]
  OBVIOUS
<1> HIDE DEF u
<1>2. SUFFICES ASSUME NEW i \in 1..Len(u), NEW j \in 1..Len(u), u[i] = u[j], u[i] # None
               PROVE  i = j
  BY DEF NoneTwice, u
<1>3. CASE i <= Len(s) /\ j <= Len(s)
  BY <1>1, <1>2, <1>3 DEF NoneTwice
<1>4. CASE i > Len(s) /\ j > Len(s)
  <2>1. i - Len(s) \in 1..Len(t) /\ j - Len(s) \in 1..Len(t) BY <1>1, <1>4
  <2>2. t[i - Len(s)] = t[j - Len(s)] /\ t[i - Len(s)] # None BY <1>1, <1>2, <1>4
  <2>3. i - Len(s) = j - Len(s) BY <2>1, <2>2 DEF NoneTwice
  <2> QED BY <2>3, <1>1
<1>5. ASSUME NEW k \in 1..Len(u), NEW m \in 1..Len(u), k <= Len(s), m > Len(s), u[k] = u[m], u[k] # None
      PROVE  FALSE
  <2>1. k \in 1..Len(s) /\ m - Len(s) \in 1..Len(t) BY <1>1, <1>5
  <2>2. s[k] = t[m - Len(s)] /\ s[k] # None BY <1>1, <1>5, <2>1
  <2>3. s[k] \in StampsOf(s) BY <2>1, <2>2 DEF StampsOf
  <2>4. s[k] \in StampsOf(t) BY <2>1, <2>2 DEF StampsOf
  <2> QED BY <2>3, <2>4
<1> QED BY <1>1, <1>2, <1>3, <1>4, <1>5

\* The loop over an answer, one candle after the other.
LEMMA KeptRecursion ==
    ASSUME NEW body \in Seq(Candle)
    PROVE  /\ Kept(body) \in [0..Len(body) -> Seq(Candle)]
           /\ Kept(body)[0] = <<>>
           /\ \A n \in 1..Len(body) : Kept(body)[n] = KeepOne(Kept(body)[n - 1], body[n])
<1> DEFINE N == Len(body)
           X == Seq(Candle)
           step == [n \in 1..N |-> [s \in X |-> KeepOne(s, body[n])]]
           K(g) == [n \in 0..N |->
                      IF n = 0 THEN <<>>
                      ELSE IF body[n] \in seen \cup StampsOf(g[n - 1])
                           THEN g[n - 1] ELSE Append(g[n - 1], body[n])]
<1>1. N \in Nat /\ <<>> \in X /\ \A n \in 1..N : body[n] \in Candle
  OBVIOUS
<1>2. \A n \in 1..N : \A s \in X : KeepOne(s, body[n]) \in X
  BY <1>1 DEF KeepOne
<1>3. step \in [1..N -> [X -> X]]
  BY <1>2
<1>4. PICK g : Iterates(g, X, <<>>, N, step)
  <2> HIDE DEF step, N, X
  <2> QED BY <1>1, <1>3, Recursion
<1>5. /\ g \in [0..N -> X] /\ g[0] = <<>>
      /\ \A n \in 1..N : g[n] = KeepOne(g[n - 1], body[n])
  <2>1. /\ g \in [0..N -> X] /\ g[0] = <<>>
        /\ \A n \in 1..N : g[n] = step[n][g[n - 1]]
    <3> HIDE DEF step, X
    <3> QED BY <1>4 DEF Iterates
  <2>2. \A n \in 1..N : g[n - 1] \in X
    BY <1>1, <2>1
  <2> QED BY <2>1, <2>2
<1>6. g = K(g)
  <2>1. \A n \in 0..N : n = 0 \/ (n # 0 /\ n \in 1..N) BY <1>1
  <2>2. \A n \in 0..N : g[n] = IF n = 0 THEN <<>>
                               ELSE IF body[n] \in seen \cup StampsOf(g[n - 1])
                                    THEN g[n - 1] ELSE Append(g[n - 1], body[n])
    BY <1>5, <2>1 DEF KeepOne
  <2> HIDE DEF N, X
  <2> QED BY <1>5, <2>2
<1>7. Kept(body) = K(Kept(body))
  <2>1. \E h : h = K(h) BY <1>6
  <2> QED BY <2>1, Zenon DEF Kept
<1> DEFINE h == Kept(body)
<1>8. /\ DOMAIN h = 0..N /\ h[0] = <<>>
      /\ \A n \in 1..N : h[n] = KeepOne(h[n - 1], body[n])
  <2>1. h = K(h) BY <1>7
  <2> HIDE DEF h
  <2>2. DOMAIN h = 0..N BY <2>1
  <2>3. \A n \in 0..N : h[n] = IF n = 0 THEN <<>>
                               ELSE IF body[n] \in seen \cup StampsOf(h[n - 1])
                                    THEN h[n - 1] ELSE Append(h[n - 1], body[n])
    BY <2>1
  <2>4. 0 \in 0..N /\ \A n \in 1..N : n \in 0..N /\ n # 0 BY <1>1
  <2> QED BY <2>2, <2>3, <2>4 DEF KeepOne
<1> DEFINE S == {n \in Nat : n <= N => h[n] \in X}
<1>9. 0 \in S BY <1>1, <1>8
<1>10. ASSUME NEW n \in S PROVE n + 1 \in S
  <2>1. n \in Nat /\ n + 1 \in Nat OBVIOUS
  <2>2. CASE n + 1 <= N
    <3>1. h[n] \in X BY <2>1, <2>2, <1>1
    <3>2. n + 1 \in 1..N /\ (n + 1) - 1 = n BY <2>1, <2>2, <1>1
    <3>3. h[n + 1] = KeepOne(h[n], body[n + 1]) BY <3>2, <1>8
    <3>4. h[n + 1] \in X BY <3>1, <3>2, <3>3, <1>2
    <3> QED BY <2>1, <3>4
  <2>3. CASE ~ (n + 1 <= N) BY <2>1, <2>3
  <2> QED BY <2>2, <2>3
<1>11. \A n \in 0..N : h[n] \in X
  <2>1. S \in SUBSET Nat OBVIOUS
  <2>2. S = Nat
    <3> HIDE DEF S
    <3> QED BY <2>1, <1>9, <1>10, NatSetInduction
  <2> QED BY <2>2
<1>12. h \in [0..N -> X]
  <2>1. h = [n \in 0..N |-> h[n]]
    <3>1. h = K(h) BY <1>7
    <3> QED BY <3>1, <1>8
  <2> HIDE DEF h, X
  <2> QED BY <2>1, <1>11
<1> QED BY <1>8, <1>12

\* The candles of the first n that are new, each stamp once.
KeepsNew(s, body, n) ==
    /\ NoneTwice(s)
    /\ StampsOf(s) = {body[i] : i \in 1..n} \ ({None} \cup seen)

LEMMA KeepOneKeepsNew ==
    ASSUME seen \subseteq Stamp, NEW body \in Seq(Candle), NEW n \in Nat, n + 1 <= Len(body),
           NEW s \in Seq(Candle), KeepsNew(s, body, n)
    PROVE  KeepsNew(KeepOne(s, body[n + 1]), body, n + 1)
<1> DEFINE c == body[n + 1]
<1>1. c \in Candle /\ None \notin Stamp /\ None \notin seen /\ None \notin StampsOf(s)
  BY HistoryAssumption DEF HistoryAssumption, StampsOf
<1>2. {body[i] : i \in 1..n + 1} = {body[i] : i \in 1..n} \cup {c}
  <2>1. \A i \in 1..n + 1 : i = n + 1 \/ i \in 1..n OBVIOUS
  <2>2. n + 1 \in 1..n + 1 /\ \A i \in 1..n : i \in 1..n + 1 OBVIOUS
  <2>3. \A x \in {body[i] : i \in 1..n + 1} : x \in {body[i] : i \in 1..n} \cup {c} BY <2>1
  <2>4. \A x \in {body[i] : i \in 1..n} \cup {c} : x \in {body[i] : i \in 1..n + 1} BY <2>2
  <2> QED BY <2>3, <2>4
<1> HIDE DEF c
<1>3. CASE c \in seen \cup StampsOf(s)
  <2>1. KeepOne(s, c) = s BY <1>3 DEF KeepOne
  <2>2. StampsOf(s) = {body[i] : i \in 1..n + 1} \ ({None} \cup seen)
    BY <1>1, <1>2, <1>3 DEF KeepsNew
  <2> QED BY <2>1, <2>2 DEF KeepsNew, c
<1>4. CASE c \notin seen \cup StampsOf(s)
  <2>1. KeepOne(s, c) = Append(s, c) BY <1>4 DEF KeepOne
  <2>2. StampsOf(Append(s, c)) = StampsOf(s) \cup ({c} \ {None}) BY <1>1, StampsOfAppend
  <2>3. StampsOf(Append(s, c)) = {body[i] : i \in 1..n + 1} \ ({None} \cup seen)
    BY <1>2, <1>4, <2>2 DEF KeepsNew
  <2>4. NoneTwice(Append(s, c))
    <3> DEFINE t == Append(s, c)
    <3>1. /\ Len(s) \in Nat /\ Len(t) = Len(s) + 1
          /\ \A i \in 1..Len(s) : t[i] = s[i]
          /\ t[Len(s) + 1] = c
      BY <1>1
    <3> HIDE DEF t
    <3>2. \A i \in 1..Len(s) : s[i] = c => c = None
      BY <1>4 DEF StampsOf
    <3>3. \A i \in 1..Len(t) : i = Len(s) + 1 \/ i \in 1..Len(s) BY <3>1
    <3> QED BY <3>1, <3>2, <3>3 DEF NoneTwice, KeepsNew, t
  <2> QED BY <2>1, <2>3, <2>4 DEF KeepsNew, c
<1> QED BY <1>3, <1>4

(* The candles kept of an answer: those whose stamp was not seen before,    *)
(* each stamp once.                                                        *)
LEMMA UnseenIsNew ==
    ASSUME seen \subseteq Stamp, NEW body \in Seq(Candle)
    PROVE  /\ Unseen(body) \in Seq(Candle)
           /\ NoneTwice(Unseen(body))
           /\ StampsOf(Unseen(body)) = StampsOf(body) \ seen
<1> DEFINE N == Len(body)
           h == Kept(body)
           S == {n \in Nat : n <= N => KeepsNew(h[n], body, n)}
<1>1. N \in Nat /\ h \in [0..N -> Seq(Candle)] /\ h[0] = <<>>
      /\ \A n \in 1..N : h[n] = KeepOne(h[n - 1], body[n])
  <2>1. N \in Nat OBVIOUS
  <2> QED BY <2>1, KeptRecursion
<1> HIDE DEF h
<1>2. 0 \in S
  <2>1. KeepsNew(<<>>, body, 0) BY DEF KeepsNew, NoneTwice, StampsOf
  <2> QED BY <2>1, <1>1
<1>3. ASSUME NEW n \in S PROVE n + 1 \in S
  <2>1. n \in Nat /\ n + 1 \in Nat OBVIOUS
  <2>2. CASE n + 1 <= N
    <3>1. n <= N /\ n \in 0..N /\ n + 1 \in 1..N /\ (n + 1) - 1 = n BY <2>1, <2>2, <1>1
    <3>2. KeepsNew(h[n], body, n) /\ h[n] \in Seq(Candle) BY <3>1, <1>1
    <3>3. h[n + 1] = KeepOne(h[n], body[n + 1]) BY <3>1, <1>1
    <3>4. KeepsNew(h[n + 1], body, n + 1) BY <2>1, <2>2, <3>2, <3>3, KeepOneKeepsNew
    <3> QED BY <2>1, <3>4
  <2>3. CASE ~ (n + 1 <= N) BY <2>1, <2>3
  <2> QED BY <2>2, <2>3
<1>4. S = Nat
  <2>1. S \in SUBSET Nat OBVIOUS
  <2> HIDE DEF S
  <2> QED BY <2>1, <1>2, <1>3, NatSetInduction
<1>5. KeepsNew(h[N], body, N)
  <2>1. N \in S BY <1>1, <1>4
  <2> QED BY <2>1, <1>1
<1>6. h[N] \in Seq(Candle) /\ Unseen(body) = h[N]
  BY <1>1 DEF Unseen, h
<1> QED BY <1>5, <1>6 DEF KeepsNew, StampsOf

-----------------------------------------------------------------------------
(* PriceHistory: the chunks tile the range.                                *)

Chunked == Int \X Int

\* Chunk i of a list starts where the one before it ends.
Follows(i) ==
    /\ asked[i][1] <= asked[i][2]
    /\ asked[i][2] - asked[i][1] < ChunkDays
    /\ asked[i][2] <= end
    /\ asked[i][1] = IF i = 1 THEN first ELSE asked[i - 1][2] + 1

Types ==
    /\ pc \in {"idle", "chunk", "fallback", "done", "failed"}
    /\ win \in [s : Int, e : Int]
    /\ first \in Int /\ end \in Int /\ at \in Int
    /\ asked \in Seq(Chunked)

\* chunk_start is the day after the last chunk.
Position ==
    /\ first <= end
    /\ pc = "idle" => asked = <<>>
    /\ pc = "chunk" => at = IF asked = <<>> THEN first ELSE asked[Len(asked)][2] + 1
    /\ (pc \in {"fallback", "done"} /\ asked # <<>>) => asked[Len(asked)][2] = end

Tiling == Types /\ Position /\ \A i \in 1..Len(asked) : Follows(i)

\* The last chunk ends at the end of the range or at its full length.
LEMMA ChunkEndBounds ==
    ASSUME at \in Int, end \in Int, at <= end
    PROVE  /\ ChunkEnd \in Int
           /\ at <= ChunkEnd
           /\ ChunkEnd - at < ChunkDays
           /\ ChunkEnd <= end
<1>1. ChunkDays \in Nat /\ ChunkDays >= 1
  BY HistoryAssumption DEF HistoryAssumption
<1>2. QED
  BY <1>1, SMT DEF ChunkEnd

\* New York dates are days.
LEMMA EtDateIsDay ==
    ASSUME NEW t \in Int
    PROVE  EtDate(t) \in Int
<1>1. /\ DayLength \in Nat /\ DayLength >= 1
      /\ EtLag \in Int
  BY HistoryAssumption DEF HistoryAssumption
<1>2. t - EtLag \in Int
  BY <1>1
<1>3. QED
  BY <1>1, <1>2, SMT DEF EtDate

LEMMA InitTiling == Init => Tiling
<1> SUFFICES ASSUME Init PROVE Tiling
  OBVIOUS
<1>1. Window \subseteq [s : Int, e : Int]
  BY HistoryAssumption DEF HistoryAssumption
<1>2. Types
  BY <1>1 DEF Init, Types
<1>3. Position
  BY DEF Init, Position
<1>4. \A i \in 1..Len(asked) : Follows(i)
  BY DEF Init
<1>5. QED
  BY <1>2, <1>3, <1>4 DEF Tiling

\* Steps that make no chunk keep the tiling.
LEMMA SameChunks ==
    ASSUME Tiling, UNCHANGED <<first, end, asked>>
    PROVE  \A i \in 1..Len(asked') : Follows(i)'
BY DEF Tiling, Follows

LEMMA BeginTiles ==
    ASSUME Tiling, Begin
    PROVE  Tiling'
<1>1. Types /\ Position /\ asked = <<>> /\ asked' = <<>>
  BY DEF Tiling, Begin, Position
<1>2. Lead \in Int
  BY HistoryAssumption DEF HistoryAssumption
<1>3. win.s - Lead \in Int /\ win.e \in Int
  BY <1>1, <1>2 DEF Types
<1>4. /\ EtDate(win.s - Lead) \in Int
      /\ EtDate(win.e) \in Int
  BY <1>3, EtDateIsDay
<1>5. /\ end' \in Int /\ first' \in Int
      /\ first' <= end'
      /\ at' = first'
  BY <1>4 DEF Begin
<1>6. Types'
  BY <1>1, <1>5 DEF Begin, Types
<1>7. Position'
  BY <1>1, <1>5 DEF Begin, Position
<1>8. \A i \in 1..Len(asked') : Follows(i)'
  BY <1>1
<1>9. QED
  BY <1>6, <1>7, <1>8 DEF Tiling

LEMMA ChunkTiles ==
    ASSUME Tiling, NEW body \in Body, Chunk(body)
    PROVE  Tiling'
<1> DEFINE to == ChunkEnd
           n  == Len(asked)
<1>1. /\ Types /\ Position
      /\ pc = "chunk" /\ at <= end
      /\ at \in Int /\ end \in Int /\ first \in Int
      /\ asked \in Seq(Chunked)
  BY DEF Tiling, Types, Chunk
<1>2. /\ to \in Int
      /\ at <= to /\ to - at < ChunkDays /\ to <= end
  BY <1>1, ChunkEndBounds
<1> HIDE DEF to
<1>3. /\ asked' = Append(asked, <<at, to>>)
      /\ at' = to + 1
      /\ UNCHANGED <<pc, win, first, end>>
  BY DEF Chunk, NextChunk, to
<1>4. <<at, to>> \in Chunked
  BY <1>1, <1>2 DEF Chunked
<1>5. /\ asked' \in Seq(Chunked)
      /\ n \in Nat /\ Len(asked') = n + 1
      /\ asked'[n + 1] = <<at, to>>
      /\ \A i \in 1..n : asked'[i] = asked[i]
  BY <1>1, <1>3, <1>4
<1>6. Types'
  BY <1>1, <1>2, <1>3, <1>5 DEF Types
<1>7. asked' # <<>>
  BY <1>5
<1>8. Position'
  BY <1>1, <1>3, <1>5, <1>7 DEF Position
<1>9. ASSUME NEW i \in 1..n PROVE Follows(i)'
  <2>1. Follows(i)
    BY <1>5 DEF Tiling
  <2>2. asked'[i] = asked[i] /\ (i # 1 => asked'[i - 1] = asked[i - 1])
    BY <1>5
  <2>3. QED
    BY <2>1, <2>2, <1>3 DEF Follows
<1>10. ASSUME NEW i \in 1..Len(asked'), i = n + 1 PROVE Follows(i)'
  <2>1. n = 0 => at = first
    BY <1>1, <1>5 DEF Position
  <2>2. n # 0 => at = asked[n][2] + 1 /\ asked'[n] = asked[n]
    BY <1>1, <1>5 DEF Position
  <2>3. /\ i = 1 <=> n = 0
        /\ i - 1 = n
    BY <1>5, <1>10
  <2>4. asked'[i][1] = at /\ asked'[i][2] = to
    BY <1>5, <1>10
  <2>5. at = IF i = 1 THEN first ELSE asked'[i - 1][2] + 1
    BY <2>1, <2>2, <2>3
  <2>6. first' = first /\ end' = end
    BY <1>3
  <2>7. QED
    BY <2>4, <2>5, <2>6, <1>2 DEF Follows
<1>11. ASSUME NEW i \in 1..Len(asked') PROVE Follows(i)'
  <2>1. i \in 1..n \/ i = n + 1
    BY <1>5
  <2>2. QED
    BY <2>1, <1>9, <1>10
<1>12. QED
  BY <1>6, <1>8, <1>11 DEF Tiling

LEMMA ChunksDoneTiles ==
    ASSUME Tiling, ChunksDone
    PROVE  Tiling'
<1>1. /\ Types /\ Position /\ pc = "chunk" /\ at > end
      /\ UNCHANGED <<win, first, end, at, asked>>
      /\ pc' \in {"fallback", "done"}
  BY DEF Tiling, ChunksDone
<1>2. asked # <<>>
  BY <1>1 DEF Position, Types
<1>3. Len(asked) \in 1..Len(asked) /\ asked[Len(asked)] \in Chunked
  BY <1>1, <1>2 DEF Types
<1>4. /\ asked[Len(asked)][2] <= end /\ asked[Len(asked)][2] + 1 > end
      /\ asked[Len(asked)][2] \in Int
  BY <1>1, <1>2, <1>3 DEF Tiling, Follows, Position, Chunked
<1>5. asked[Len(asked)][2] = end
  BY <1>1, <1>4 DEF Types
<1>6. Types' /\ Position'
  BY <1>1, <1>5 DEF Types, Position
<1>7. QED
  BY <1>1, <1>6, SameChunks DEF Tiling

LEMMA OthersTile ==
    ASSUME Tiling, (\E body \in Body : Fallback(body) \/ Minute(body)) \/ Fail \/ UNCHANGED vars
    PROVE  Tiling'
<1>1. /\ Types /\ Position
      /\ UNCHANGED <<win, first, end, at, asked>>
  BY DEF Tiling, Fallback, Minute, Fail, vars
<1>2. Types' /\ Position'
  <2>1. CASE \E body \in Body : Fallback(body)
    BY <1>1, <2>1 DEF Types, Position, Fallback, AfterFallback
  <2>2. CASE \E body \in Body : Minute(body)
    BY <1>1, <2>2 DEF Types, Position, Minute
  <2>3. CASE Fail
    BY <1>1, <2>3 DEF Types, Position, Fail
  <2>4. CASE UNCHANGED vars
    BY <1>1, <2>4 DEF Types, Position, vars
  <2>5. QED
    BY <2>1, <2>2, <2>3, <2>4
<1>3. QED
  BY <1>1, <1>2, SameChunks DEF Tiling

LEMMA NextTiles == Tiling /\ [Next]_vars => Tiling'
BY BeginTiles, ChunkTiles, ChunksDoneTiles, OthersTile DEF Next, Answer

(* Whatever Schwab answers, the chunks asked for follow one another from the *)
(* first day to the last, none of more than ChunkDays days.                  *)
THEOREM RangeIsTiled == Spec => []ChunksTile
<1>1. Init => Tiling
  BY InitTiling
<1>2. Tiling /\ [Next]_vars => Tiling'
  BY NextTiles
<1>3. Tiling => ChunksTile
  BY DEF Tiling, Follows, Position, ChunksTile
<1>4. QED
  BY <1>1, <1>2, <1>3, PTL DEF Spec
\* What has come and what is kept of it, from the first call to the answer.
Collected ==
    /\ pc = "idle" => candles = <<>> /\ seen = {} /\ received = {} /\ tries = 0
    /\ pc = "chunk" => /\ StampsOf(candles) = seen /\ received = seen /\ NoneTwice(candles)
                       /\ tries = 0
    /\ pc = "fallback" => candles = <<>> /\ seen = {} /\ received = {} /\ tries < Strategies
    /\ pc = "done" => /\ StampsOf(candles) = received
                      /\ (asked # <<>> /\ tries = 0) => NoneTwice(candles)
    /\ tries > 0 => seen = {}

CollectedTypes ==
    /\ seen \in SUBSET Stamp /\ received \in SUBSET Stamp
    /\ candles \in Seq(Candle) /\ tries \in 0..Strategies

HistoryInv == Tiling /\ win \in Window /\ CollectedTypes /\ Collected

LEMMA StampsAreStamps ==
    ASSUME NEW s \in Seq(Candle)
    PROVE  StampsOf(s) \in SUBSET Stamp
BY DEF StampsOf, Candle

LEMMA EmptyList == StampsOf(<<>>) = {} /\ NoneTwice(<<>>) /\ <<>> \in Seq(Candle)
BY DEF StampsOf, NoneTwice

LEMMA InitHistory == Init => HistoryInv
<1> SUFFICES ASSUME Init PROVE HistoryInv
  OBVIOUS
<1>1. Tiling BY InitTiling
<1>2. Strategies \in Nat BY HistoryAssumption DEF HistoryAssumption
<1>3. win \in Window /\ CollectedTypes /\ Collected
  BY <1>2, EmptyList DEF Init, CollectedTypes, Collected
<1> QED BY <1>1, <1>3 DEF HistoryInv

LEMMA ChunkCollects ==
    ASSUME HistoryInv, NEW body \in Body, Chunk(body)
    PROVE  CollectedTypes' /\ Collected'
<1>1. /\ pc = "chunk" /\ pc' = "chunk" /\ tries' = tries
      /\ candles' = candles \o Unseen(body)
      /\ seen' = seen \cup StampsOf(body) /\ received' = received \cup StampsOf(body)
  BY DEF Chunk
<1>2. CollectedTypes /\ StampsOf(candles) = seen /\ received = seen /\ NoneTwice(candles) /\ tries = 0
  BY <1>1 DEF HistoryInv, Collected
<1>3. body \in Seq(Candle) /\ seen \subseteq Stamp
  BY <1>2, HistoryAssumption DEF HistoryAssumption, Candle, CollectedTypes
<1>4. /\ Unseen(body) \in Seq(Candle) /\ NoneTwice(Unseen(body))
      /\ StampsOf(Unseen(body)) = StampsOf(body) \ seen
  BY <1>3, UnseenIsNew
<1>5. candles \in Seq(Candle) BY <1>2 DEF CollectedTypes
<1>6. candles' \in Seq(Candle) BY <1>1, <1>4, <1>5
<1>7. NoneTwice(candles') BY <1>1, <1>2, <1>4, <1>5, NoneTwiceConcat
<1>8. StampsOf(candles') = seen'
  <2>1. StampsOf(candles') = StampsOf(candles) \cup StampsOf(Unseen(body))
    BY <1>1, <1>4, <1>5, StampsOfConcat
  <2> QED BY <2>1, <1>1, <1>2, <1>4
<1>9. seen' \in SUBSET Stamp /\ received' = seen'
  BY <1>1, <1>2, <1>3, StampsAreStamps
<1>10. CollectedTypes'
  BY <1>1, <1>2, <1>6, <1>9 DEF CollectedTypes
<1>11. StampsOf(candles)' = seen' /\ NoneTwice(candles)'
  BY <1>7, <1>8 DEF StampsOf, NoneTwice
<1> QED BY <1>1, <1>2, <1>9, <1>10, <1>11 DEF Collected

LEMMA FallbackCollects ==
    ASSUME HistoryInv, NEW body \in Body, Fallback(body)
    PROVE  CollectedTypes' /\ Collected'
<1>1. /\ pc = "fallback" /\ pc' = AfterFallback(body) /\ tries' = tries + 1
      /\ candles' = body /\ received' = received \cup StampsOf(body) /\ seen' = seen
  BY DEF Fallback
<1>2. CollectedTypes /\ seen = {} /\ received = {} /\ tries < Strategies
  BY <1>1 DEF HistoryInv, Collected
<1>3. Strategies \in Nat /\ tries \in Nat /\ tries + 1 \in 0..Strategies
  BY <1>2, HistoryAssumption DEF HistoryAssumption, CollectedTypes
<1>4. body \in Seq(Candle) /\ StampsOf(body) \in SUBSET Stamp
  BY HistoryAssumption, StampsAreStamps DEF HistoryAssumption, Candle
<1>5. CollectedTypes'
  BY <1>1, <1>2, <1>3, <1>4 DEF CollectedTypes
<1>6. received' = StampsOf(body)
  BY <1>1, <1>2
<1>7. tries' # 0 /\ seen' = {}
  BY <1>1, <1>2, <1>3
<1>8. CASE body # <<>> \/ tries + 1 = Strategies
  <2>1. pc' = "done" BY <1>1, <1>8 DEF AfterFallback
  <2>2. StampsOf(candles)' = received' BY <1>1, <1>6 DEF StampsOf
  <2> QED BY <2>1, <2>2, <1>5, <1>7 DEF Collected
<1>9. CASE ~ (body # <<>> \/ tries + 1 = Strategies)
  <2>1. pc' = "fallback" BY <1>1, <1>9 DEF AfterFallback
  <2>2. candles' = <<>> /\ received' = {} BY <1>1, <1>6, <1>9, EmptyList
  <2>3. tries' < Strategies BY <1>1, <1>3, <1>9
  <2> QED BY <2>1, <2>2, <2>3, <1>5, <1>7 DEF Collected
<1> QED BY <1>8, <1>9

LEMMA OthersCollect ==
    ASSUME HistoryInv, Begin \/ ChunksDone \/ Fail \/ (\E body \in Body : Minute(body)) \/ UNCHANGED vars
    PROVE  CollectedTypes' /\ Collected'
<1>1. CollectedTypes /\ Collected /\ Strategies \in Nat
  BY HistoryAssumption DEF HistoryAssumption, HistoryInv
<1>2. CASE Begin
  <2>1. /\ pc = "idle" /\ pc' = "chunk" /\ UNCHANGED <<seen, candles, tries, received>>
    BY <1>2 DEF Begin
  <2>2. candles' = <<>> /\ seen' = {} /\ received' = {} /\ tries' = 0
    BY <2>1, <1>1 DEF Collected
  <2>3. StampsOf(candles)' = {} /\ NoneTwice(candles)'
    BY <2>2 DEF StampsOf, NoneTwice
  <2> QED BY <1>1, <2>1, <2>2, <2>3 DEF CollectedTypes, Collected
<1>3. CASE ChunksDone
  <2>1. /\ pc = "chunk" /\ UNCHANGED <<seen, candles, tries, received, asked>>
        /\ pc' = IF candles = <<>> /\ Strategies > 0 THEN "fallback" ELSE "done"
    BY <1>3 DEF ChunksDone
  <2>2. StampsOf(candles) = seen /\ received = seen /\ NoneTwice(candles) /\ tries = 0
    BY <2>1, <1>1 DEF Collected
  <2>3. StampsOf(candles)' = StampsOf(candles) /\ NoneTwice(candles)'
    BY <2>1, <2>2 DEF StampsOf, NoneTwice
  <2>4. CASE candles = <<>> /\ Strategies > 0
    <3>1. seen = {} BY <2>2, <2>4, EmptyList
    <3> QED BY <3>1, <2>1, <2>2, <2>4, <1>1 DEF CollectedTypes, Collected
  <2>5. CASE ~ (candles = <<>> /\ Strategies > 0)
    BY <2>1, <2>2, <2>3, <2>5, <1>1 DEF CollectedTypes, Collected
  <2> QED BY <2>4, <2>5
<1>4. CASE Fail
  <2>1. pc' = "failed" /\ candles' = <<>> /\ UNCHANGED <<seen, tries, received, asked>>
    BY <1>4 DEF Fail
  <2> QED BY <2>1, <1>1, EmptyList DEF CollectedTypes, Collected
<1>5. CASE \E body \in Body : Minute(body)
  <2>1. PICK body \in Body : Minute(body) BY <1>5
  <2>2. /\ pc = "idle" /\ pc' = "done" /\ candles' = body /\ received' = StampsOf(body)
        /\ UNCHANGED <<seen, tries, asked>>
    BY <2>1 DEF Minute
  <2>3. body \in Seq(Candle) /\ StampsOf(body) \in SUBSET Stamp
    BY HistoryAssumption, StampsAreStamps DEF HistoryAssumption, Candle
  <2>4. StampsOf(candles)' = received' BY <2>2 DEF StampsOf
  <2>5. asked' = <<>> BY <2>2 DEF HistoryInv, Tiling, Position
  <2>6. seen' = {} BY <2>2, <1>1 DEF Collected
  <2> QED BY <2>2, <2>3, <2>4, <2>5, <2>6, <1>1 DEF CollectedTypes, Collected
<1>6. CASE UNCHANGED vars
  <2>1. UNCHANGED <<pc, seen, candles, tries, received, asked>> BY <1>6 DEF vars
  <2>2. StampsOf(candles)' = StampsOf(candles) /\ (NoneTwice(candles) => NoneTwice(candles)')
    BY <2>1 DEF StampsOf, NoneTwice
  <2> QED BY <2>1, <2>2, <1>1 DEF CollectedTypes, Collected
<1> QED BY <1>2, <1>3, <1>4, <1>5, <1>6

LEMMA NextHistory == HistoryInv /\ [Next]_vars => HistoryInv'
<1> SUFFICES ASSUME HistoryInv, [Next]_vars PROVE HistoryInv'
  OBVIOUS
<1>1. Tiling' BY NextTiles DEF HistoryInv
<1>2. win' \in Window
  BY DEF HistoryInv, Next, Answer, Begin, Chunk, ChunksDone, Fallback, Minute, Fail, vars
<1>3. CollectedTypes' /\ Collected'
  BY ChunkCollects, FallbackCollects, OthersCollect DEF Next, Answer
<1> QED BY <1>1, <1>2, <1>3 DEF HistoryInv

LEMMA HistoryInvariance == Spec => []HistoryInv
BY InitHistory, NextHistory, PTL DEF Spec

LEMMA HistoryInvTypes == HistoryInv => TypeOK
BY DEF HistoryInv, Tiling, Types, CollectedTypes, TypeOK, Candle, Chunked

LEMMA HistoryInvOnce == HistoryInv => EachCandleOnce
<1> SUFFICES ASSUME HistoryInv, pc \in {"chunk", "done"}, asked # <<>>, tries = 0
             PROVE  StampsOf(candles) = received /\ NoneTwice(candles)
  BY DEF EachCandleOnce, NoneTwice
<1> QED BY DEF HistoryInv, Collected

LEMMA HistoryInvFallback == HistoryInv => FallbackOnlyWhenEmpty
BY DEF HistoryInv, Collected, FallbackOnlyWhenEmpty

(* The variables of a request for price history keep their types.           *)
THEOREM HistoryTypeCorrect == Spec => []TypeOK
BY HistoryInvariance, HistoryInvTypes, PTL

(* The answer to a daily request has every candle of every chunk exactly    *)
(* once, however much the chunks overlap in what Schwab answers             *)
(* (seen_ms of _get_price_history_1d).                                     *)
THEOREM CandlesKeptOnce == Spec => []EachCandleOnce
BY HistoryInvariance, HistoryInvOnce, PTL

(* The other queries are made only when no chunk had a candle, and stop at   *)
(* the first that has one (strategies of _get_price_history_1d).            *)
THEOREM FallbackOnEmpty == Spec => []FallbackOnlyWhenEmpty
BY HistoryInvariance, HistoryInvFallback, PTL

-----------------------------------------------------------------------------
(* RateLimiter: grants are an interval apart.                              *)

\* The clock of the code and the history agree.
ClockIsRight == since = gap

LimiterInv == LimiterTypeOK /\ ClockIsRight /\ SleepsToTheSlot

LEMMA WithoutType ==
    ASSUME NEW S, waiters \in Seq(S), NEW i \in 1..Len(waiters)
    PROVE  Without(i) \in Seq(S)
<1>1. SubSeq(waiters, 1, i - 1) \in Seq(S)
  <2>1. \A j \in 1 .. i - 1 : waiters[j] \in S OBVIOUS
  <2> QED BY <2>1, SubSeqProperties
<1>2. SubSeq(waiters, i + 1, Len(waiters)) \in Seq(S)
  <2>1. \A j \in i + 1 .. Len(waiters) : waiters[j] \in S OBVIOUS
  <2> QED BY <2>1, SubSeqProperties
<1> QED BY <1>1, <1>2, ConcatProperties DEF Without

LEMMA LimiterInitInv == LimiterInit => LimiterInv
    BY LimiterAssumption DEF LimiterAssumption, LimiterInit, LimiterInv, LimiterTypeOK, ClockIsRight, SleepsToTheSlot

LEMMA IntervalIsNat == LimiterInv => interval \in Nat
    BY LimiterAssumption DEF LimiterAssumption, LimiterInv, LimiterTypeOK

LEMMA TickInv == LimiterInv /\ Tick => LimiterInv'
<1> SUFFICES ASSUME LimiterInv, Tick PROVE LimiterInv' OBVIOUS
<1>1. interval \in Nat BY IntervalIsNat
<1> QED BY <1>1 DEF LimiterInv, LimiterTypeOK, ClockIsRight, SleepsToTheSlot, Tick, Later

LEMMA CallerInv ==
    ASSUME LimiterInv, NEW c \in Caller,
           Unlimited(c) \/ Acquire(c) \/ Serve(c) \/ CancelWaiter(c) \/ CancelSleeper(c)
    PROVE  LimiterInv'
<1>1. interval \in Nat /\ waiters \in Seq(Caller) BY IntervalIsNat DEF LimiterInv, LimiterTypeOK
<1> USE DEF LimiterInv, LimiterTypeOK, ClockIsRight, SleepsToTheSlot
<1>2. CASE Unlimited(c) BY <1>1, <1>2 DEF Unlimited
<1>3. CASE Acquire(c) BY <1>1, <1>3 DEF Acquire
<1>4. CASE Pass(c) BY <1>1, <1>4 DEF Pass, MayEnter, Restamp
<1>5. CASE Sleep(c) BY <1>1, <1>5 DEF Sleep, MayEnter, Wait
<1>6. CASE WakeUp(c) BY <1>1, <1>6 DEF WakeUp, Restamp
<1>7. CASE CancelWaiter(c)
  <2>1. PICK i \in 1..Len(waiters) : waiters' = Without(i) BY <1>7 DEF CancelWaiter
  <2>2. waiters' \in Seq(Caller) BY <1>1, <2>1, WithoutType
  <2> QED BY <1>7, <2>2 DEF CancelWaiter
<1>8. CASE CancelSleeper(c) BY <1>1, <1>8 DEF CancelSleeper, AfterCancel
<1> QED BY <1>2, <1>3, <1>4, <1>5, <1>6, <1>7, <1>8 DEF Serve

LEMMA LimiterNextInv == LimiterInv /\ [LimiterNext]_limiterVars => LimiterInv'
<1> SUFFICES ASSUME LimiterInv, [LimiterNext]_limiterVars PROVE LimiterInv' OBVIOUS
<1>1. CASE Tick BY <1>1, TickInv
<1>2. ASSUME NEW c \in Caller,
             Unlimited(c) \/ Acquire(c) \/ Serve(c) \/ CancelWaiter(c) \/ CancelSleeper(c)
      PROVE  LimiterInv'
  BY <1>2, CallerInv
<1>3. CASE UNCHANGED limiterVars
  BY <1>3 DEF limiterVars, LimiterInv, LimiterTypeOK, ClockIsRight, SleepsToTheSlot
<1> QED BY <1>1, <1>2, <1>3 DEF LimiterNext

LEMMA LimiterInvariance == LimiterSpec => []LimiterInv
    BY LimiterInitInv, LimiterNextInv, PTL DEF LimiterSpec

(* The queue, the holder and the times keep their types.                   *)
THEOREM LimiterTypeCorrect == LimiterSpec => []LimiterTypeOK
<1>1. LimiterInv => LimiterTypeOK BY DEF LimiterInv
<1> QED BY <1>1, LimiterInvariance, PTL

(* One sleeper at a time, asleep until the interval is over and no longer   *)
(* (acquire of _AsyncRateLimiter).                                         *)
THEOREM SleepIsExact == LimiterSpec => []SleepsToTheSlot
<1>1. LimiterInv => SleepsToTheSlot BY DEF LimiterInv
<1> QED BY <1>1, LimiterInvariance, PTL

\* A grant needs an interval since the last one.
LEMMA GrantStep ==
    ASSUME LimiterInv, NEW c \in Caller, Granted(c)
    PROVE  gap >= interval
<1>1. interval \in Nat /\ since = gap /\ since \in 0..interval
  BY IntervalIsNat DEF LimiterInv, LimiterTypeOK, ClockIsRight
<1>2. CASE Unlimited(c) BY <1>1, <1>2 DEF Unlimited
<1>3. CASE Pass(c) BY <1>1, <1>3 DEF Pass, Wait
<1>4. CASE WakeUp(c) BY <1>1, <1>4 DEF WakeUp, LimiterInv, SleepsToTheSlot
<1> QED BY <1>2, <1>3, <1>4 DEF Granted

(* Calls to Schwab are let through an interval apart, for every number of   *)
(* concurrent callers and any cancellations among them.                    *)
THEOREM GrantsAreSpaced == LimiterSpec => Spaced
<1>1. LimiterInv /\ [LimiterNext]_limiterVars => [\A c \in Caller : Granted(c) => gap >= interval]_limiterVars
  BY GrantStep
<1> QED BY <1>1, LimiterInvariance, PTL DEF LimiterSpec, Spaced
-----------------------------------------------------------------------------
(* SchwabClient: a step of the client is a step of the request, or leaves   *)
(* it alone, and a step of the limiter, or leaves that alone.              *)

LEMMA ClientStepsHistory == [ClientNext]_clientVars => [Next]_vars
<1> SUFFICES ASSUME [ClientNext]_clientVars PROVE [Next]_vars
  OBVIOUS
<1> USE DEF requestVars, vars
<1>1. CASE Enter BY <1>1 DEF Enter, Next
<1>2. CASE Ask BY <1>2 DEF Ask
<1>3. CASE Admitted BY <1>3 DEF Admitted
<1>4. CASE Called BY <1>4 DEF Called, Next
<1>5. CASE Cancel BY <1>5 DEF Cancel, Next
<1>6. CASE TimePasses BY <1>6 DEF TimePasses
<1>7. CASE \E c \in Caller : Other(c) BY <1>7 DEF Other
<1>8. CASE UNCHANGED clientVars BY <1>8 DEF clientVars
<1> QED BY <1>1, <1>2, <1>3, <1>4, <1>5, <1>6, <1>7, <1>8 DEF ClientNext

LEMMA ClientStepsLimiter == [ClientNext]_clientVars => [LimiterNext]_limiterVars
<1> SUFFICES ASSUME [ClientNext]_clientVars PROVE [LimiterNext]_limiterVars
  OBVIOUS
<1>1. History \in Caller BY ClientAssumption DEF ClientAssumption
<1>2. CASE Enter BY <1>2 DEF Enter
<1>3. CASE Ask BY <1>1, <1>3 DEF Ask, LimiterNext
<1>4. CASE Admitted BY <1>1, <1>4 DEF Admitted, LimiterNext, Serve
<1>5. CASE Called BY <1>5 DEF Called
<1>6. CASE Cancel BY <1>1, <1>6 DEF Cancel, LimiterNext
<1>7. CASE TimePasses BY <1>7 DEF TimePasses, LimiterNext
<1>8. CASE \E c \in Caller : Other(c) BY <1>8 DEF Other, LimiterNext
<1>9. CASE UNCHANGED clientVars BY <1>9 DEF clientVars, limiterVars
<1> QED BY <1>2, <1>3, <1>4, <1>5, <1>6, <1>7, <1>8, <1>9 DEF ClientNext

(* The request inside the client is a request: waiting for the limiter, and *)
(* being cancelled there, add nothing to what it does.                     *)
THEOREM ClientRunsHistory == ClientSpec => Spec
<1>1. ClientInit => Init BY DEF ClientInit
<1> QED BY <1>1, ClientStepsHistory, PTL DEF ClientSpec, Spec

(* The client uses its limiter only as acquire() lets it.                  *)
THEOREM ClientRunsLimiter == ClientSpec => LimiterSpec
<1>1. ClientInit => LimiterInit BY DEF ClientInit
<1> QED BY <1>1, ClientStepsLimiter, PTL DEF ClientSpec, LimiterSpec

(* What is proved of the request and of the limiter holds of the client.    *)
THEOREM ClientCorrect ==
    ClientSpec => /\ []ChunksTile /\ []EachCandleOnce /\ []FallbackOnlyWhenEmpty
                  /\ []SleepsToTheSlot /\ Spaced
BY ClientRunsHistory, ClientRunsLimiter, RangeIsTiled, CandlesKeptOnce, FallbackOnEmpty,
   SleepIsExact, GrantsAreSpaced, PTL
=============================================================================
