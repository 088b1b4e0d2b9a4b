----------------------------- MODULE ListProofs -----------------------------
(***************************************************************************)
(* Induction over the naturals as a fact about sets, which is what the     *)
(* provers can instantiate: a set that holds 0 and the successor of each   *)
(* of its members holds every natural number.  With it, a recursive        *)
(* function exists and satisfies its equation.                             *)
(***************************************************************************)
EXTENDS Lists, SequencesExt, WellFoundedInduction, TLAPS

\* A set of naturals that is not empty has a least member.
LEMMA LeastNatural ==
  ASSUME NEW T \in SUBSET Nat, T # {}
  PROVE  \E x \in T : \A y \in T : ~(y < x)
<1> DEFINE R == OpToRel(<, Nat)
<1>1. IsWellFoundedOn(R, Nat)
  BY NatLessThanWellFounded
<1>2. \A y, x \in Nat : y < x => <<y, x>> \in R
  BY DEF OpToRel
<1> HIDE DEF R
<1>3. \E x \in T : \A y \in T : ~(<<y, x>> \in R)
  BY <1>1, WFMin
<1> QED BY <1>2, <1>3

LEMMA SetInduction ==
  ASSUME NEW S, 0 \in S, \A n \in Nat : n \in S => n + 1 \in S
  PROVE  Nat \subseteq S
<1> SUFFICES ASSUME Nat \ S # {}  PROVE  FALSE
  OBVIOUS
<1>1. PICK m \in Nat \ S : \A y \in Nat \ S : ~(y < m)
  BY LeastNatural
<1>2. m # 0 /\ m - 1 \in Nat
  BY <1>1
<1>3. m - 1 \in S
  BY <1>1, <1>2
<1> QED BY <1>1, <1>2, <1>3

LEMMA SetInductionUpTo ==
  ASSUME NEW N \in Nat, NEW S, 0 \in S, \A n \in 0..N : n < N /\ n \in S => n + 1 \in S
  PROVE  0..N \subseteq S
<1> DEFINE T == {n \in Nat : n <= N => n \in S}
<1>1. 0 \in T /\ \A n \in Nat : n \in T => n + 1 \in T
  OBVIOUS
<1> HIDE DEF T
<1>2. Nat \subseteq T
  BY <1>1, SetInduction
<1> QED BY <1>2 DEF T

\* The values of a recursion up to n.
Tables(S, a, F, n) ==
  {g \in [0..n -> S] : g[0] = a /\ \A i \in 1..n : g[i] = F[<<i, g[i - 1]>>]}

LEMMA TableExists ==
  ASSUME NEW S, NEW a \in S, NEW F \in [Nat \X S -> S], NEW n \in Nat
  PROVE  Tables(S, a, F, n) # {}
<1> DEFINE T == {m \in Nat : Tables(S, a, F, m) # {}}
<1>1. 0 \in T
  <2>1. [i \in 0..0 |-> a] \in Tables(S, a, F, 0)
    BY DEF Tables
  <2> QED BY <2>1
<1>2. ASSUME NEW m \in Nat, m \in T  PROVE  m + 1 \in T
  <2>1. PICK g \in [0..m -> S] :
          g[0] = a /\ \A i \in 1..m : g[i] = F[<<i, g[i - 1]>>]
    BY <1>2 DEF Tables
  <2> DEFINE h == [i \in 0..(m + 1) |-> IF i = m + 1 THEN F[<<m + 1, g[m]>>] ELSE g[i]]
  <2>2. g[m] \in S /\ F[<<m + 1, g[m]>>] \in S
    BY <2>1
  <2>3. h \in [0..(m + 1) -> S]
    BY <2>1, <2>2
  <2>4. h[0] = a
    BY <2>1
  <2>5. ASSUME NEW i \in 1..(m + 1)  PROVE  h[i] = F[<<i, h[i - 1]>>]
    <3>1. h[i - 1] = g[i - 1] /\ i \in 0..(m + 1)
      BY <2>5
    <3>2. CASE i = m + 1
      <4>1. i - 1 = m
        BY <3>2
      <4>2. h[i] = F[<<m + 1, g[m]>>]
        BY <3>1, <3>2
      <4> QED BY <3>1, <3>2, <4>1, <4>2
    <3>3. CASE i # m + 1
      <4>1. i \in 1..m /\ h[i] = g[i]
        BY <3>1, <3>3
      <4> QED BY <2>1, <3>1, <4>1
    <3> QED BY <3>2, <3>3
  <2> HIDE DEF h
  <2>6. h \in Tables(S, a, F, m + 1)
    BY <2>3, <2>4, <2>5 DEF Tables
  <2> QED BY <2>6
<1> HIDE DEF T
<1>3. n \in T
  BY <1>1, <1>2, SetInduction
<1> QED BY <1>3 DEF T

LEMMA TableUnique ==
  ASSUME NEW S, NEW a \in S, NEW F \in [Nat \X S -> S], NEW m \in Nat, NEW n \in Nat
  PROVE  \A g \in Tables(S, a, F, m), h \in Tables(S, a, F, n) :
           \A i \in Nat : i <= m /\ i <= n => g[i] = h[i]
<1> SUFFICES ASSUME NEW g \in Tables(S, a, F, m), NEW h \in Tables(S, a, F, n)
             PROVE  \A i \in Nat : i <= m /\ i <= n => g[i] = h[i]
  OBVIOUS
<1> DEFINE T == {j \in Nat : j <= m /\ j <= n => g[j] = h[j]}
<1>1. 0 \in T
  BY DEF Tables
<1>2. ASSUME NEW j \in Nat, j \in T  PROVE  j + 1 \in T
  <2> SUFFICES ASSUME j + 1 <= m, j + 1 <= n  PROVE  g[j + 1] = h[j + 1]
    OBVIOUS
  <2>1. g[j + 1] = F[<<j + 1, g[j]>>] /\ h[j + 1] = F[<<j + 1, h[j]>>]
    <3>1. j + 1 \in 1..m /\ j + 1 \in 1..n /\ (j + 1) - 1 = j
      OBVIOUS
    <3> QED BY <3>1 DEF Tables
  <2> QED BY <1>2, <2>1
<1> HIDE DEF T
<1>3. Nat \subseteq T
  BY <1>1, <1>2, SetInduction
<1> QED BY <1>3 DEF T

\* The functions that follow the recursion from a with step F, on all naturals
\* or on those up to N.
Steps(S, index) == [index \X S -> S]
Recursion(S, a, F) ==
  {f \in [Nat -> S] : f[0] = a /\ \A n \in Nat : f[n + 1] = F[<<n + 1, f[n]>>]}
RecursionTo(S, a, F, N) ==
  {f \in [0..N -> S] : f[0] = a /\ \A n \in 1..N : f[n] = F[<<n, f[n - 1]>>]}

LEMMA RecursionExists ==
  ASSUME NEW S, NEW a \in S, NEW F \in Steps(S, Nat)
  PROVE  Recursion(S, a, F) # {}
<1> DEFINE P(n) == Tables(S, a, F, n)
<1>0. F \in [Nat \X S -> S]
  BY DEF Steps
<1>1. \A n \in Nat : P(n) # {}
  BY <1>0, TableExists
<1>2. \A m, n \in Nat : \A g \in P(m), h \in P(n) :
        \A i \in Nat : i <= m /\ i <= n => g[i] = h[i]
  BY <1>0, TableUnique
<1>3. \A n \in Nat : \A g \in P(n) : g[0] = a /\ g[n] \in S
  BY DEF Tables
<1>4. ASSUME NEW n \in Nat, NEW g \in P(n + 1)  PROVE  g[n + 1] = F[<<n + 1, g[n]>>]
  <2>1. n + 1 \in 1..(n + 1) /\ (n + 1) - 1 = n
    OBVIOUS
  <2> QED BY <1>4, <2>1 DEF Tables
<1> HIDE DEF P
<1> DEFINE c(n) == CHOOSE g \in P(n) : TRUE
           f == [n \in Nat |-> c(n)[n]]
<1>5. \A n \in Nat : c(n) \in P(n) /\ f[n] = c(n)[n]
  BY <1>1
<1>6. f \in [Nat -> S]
  BY <1>3, <1>5
<1> HIDE DEF c, f
<1>7. f[0] = a
  BY <1>3, <1>5
<1>8. ASSUME NEW n \in Nat  PROVE  f[n + 1] = F[<<n + 1, f[n]>>]
  <2>1. c(n + 1) \in P(n + 1) /\ f[n + 1] = c(n + 1)[n + 1]
    BY <1>5
  <2>2. c(n + 1)[n + 1] = F[<<n + 1, c(n + 1)[n]>>]
    BY <1>4, <2>1
  <2>3. c(n + 1)[n] = c(n)[n]
    BY <1>2, <1>5, <2>1
  <2> QED BY <1>5, <2>1, <2>2, <2>3
<1>9. f \in Recursion(S, a, F)
  BY <1>6, <1>7, <1>8 DEF Recursion
<1> QED BY <1>9

LEMMA RecursionUpTo ==
  ASSUME NEW S, NEW a \in S, NEW N \in Nat, NEW F \in Steps(S, 1..N)
  PROVE  RecursionTo(S, a, F, N) # {}
<1> DEFINE G == [x \in Nat \X S |-> IF x[1] \in 1..N THEN F[x] ELSE a]
<1>1. G \in [Nat \X S -> S]
  <2>1. ASSUME NEW x \in Nat \X S, x[1] \in 1..N  PROVE  F[x] \in S
    <3>1. x \in (1..N) \X S
      BY <2>1
    <3> QED BY <3>1 DEF Steps
  <2> QED BY <2>1
<1>2. \A n \in 1..N, s \in S : G[<<n, s>>] = F[<<n, s>>]
  OBVIOUS
<1> HIDE DEF G
<1>3. Tables(S, a, G, N) # {}
  BY <1>1, TableExists
<1>4. PICK g \in Tables(S, a, G, N) : TRUE
  BY <1>3
<1>5. g \in [0..N -> S] /\ g[0] = a /\ \A n \in 1..N : g[n] = G[<<n, g[n - 1]>>]
  BY DEF Tables
<1>6. \A n \in 1..N : g[n - 1] \in S
  BY <1>5
<1>7. g \in RecursionTo(S, a, F, N)
  BY <1>2, <1>5, <1>6 DEF RecursionTo
<1> QED BY <1>7

-----------------------------------------------------------------------------

Distinct(list) == \A i, j \in DOMAIN list : list[i] = list[j] => i = j

LEMMA AppendMembers ==
  ASSUME NEW T, NEW list \in Seq(T), NEW e \in T
  PROVE  /\ Append(list, e) \in Seq(T)
         /\ ToSet(Append(list, e)) = ToSet(list) \cup {e}
         /\ Distinct(list) /\ e \notin ToSet(list) => Distinct(Append(list, e))
<1> DEFINE long == Append(list, e)
<1>1. /\ long \in Seq(T) /\ Len(list) \in Nat /\ Len(long) = Len(list) + 1
      /\ long[Len(list) + 1] = e /\ \A i \in 1..Len(list) : long[i] = list[i]
  OBVIOUS
<1>2. DOMAIN list = 1..Len(list) /\ DOMAIN long = 1..(Len(list) + 1)
  BY <1>1
<1> HIDE DEF long
<1>3. \A i \in DOMAIN long : i \in DOMAIN list \/ i = Len(list) + 1
  BY <1>1, <1>2
<1>4. DOMAIN list \subseteq DOMAIN long /\ Len(list) + 1 \in DOMAIN long
  BY <1>1, <1>2
<1>5. ToSet(long) = ToSet(list) \cup {e}
  BY <1>1, <1>2, <1>3, <1>4 DEF ToSet
<1>6. ASSUME Distinct(list), e \notin ToSet(list)  PROVE  Distinct(long)
  BY <1>1, <1>2, <1>3, <1>6 DEF Distinct, ToSet
<1> QED BY <1>1, <1>5, <1>6 DEF long

\* Keep takes the members of the set, and no member twice.
LEMMA KeepMembers ==
  ASSUME NEW T, NEW list \in Seq(T), NEW set
  PROVE  /\ Keep(list, set) \in Seq(T)
         /\ ToSet(Keep(list, set)) = ToSet(list) \cap set
         /\ Distinct(list) => Distinct(Keep(list, set))
<1> DEFINE N == Len(list)
           kept == CHOOSE kept : kept = [n \in 0..Len(list) |->
                     IF n = 0 THEN <<>>
                     ELSE IF list[n] \in set THEN Append(kept[n - 1], list[n])
                     ELSE kept[n - 1]]
<1>0. N \in Nat /\ \A n \in 1..N : list[n] \in T
  OBVIOUS
<1>1. Keep(list, set) = kept[N]
  BY DEF Keep
<1>2. kept = [n \in 0..N |->
                IF n = 0 THEN <<>>
                ELSE IF list[n] \in set THEN Append(kept[n - 1], list[n])
                ELSE kept[n - 1]]
  <2> DEFINE F == [x \in (1..N) \X Seq(T) |->
                     IF list[x[1]] \in set THEN Append(x[2], list[x[1]]) ELSE x[2]]
  <2>1. F \in Steps(Seq(T), 1..N)
    BY <1>0 DEF Steps
  <2>2. \A n \in 1..N, s \in Seq(T) :
          F[<<n, s>>] = IF list[n] \in set THEN Append(s, list[n]) ELSE s
    OBVIOUS
  <2> HIDE DEF F
  <2>3. PICK f \in [0..N -> Seq(T)] :
          f[0] = <<>> /\ \A n \in 1..N : f[n] = F[<<n, f[n - 1]>>]
    <3>1. <<>> \in Seq(T) /\ N \in Nat
      BY <1>0
    <3> HIDE DEF N
    <3>2. RecursionTo(Seq(T), <<>>, F, N) # {}
      BY <2>1, <3>1, RecursionUpTo
    <3> QED BY <3>2 DEF RecursionTo
  <2>4. ASSUME NEW n \in 1..N  PROVE  f[n - 1] \in Seq(T)
    <3>1. n - 1 \in 0..N
      BY <1>0
    <3> QED BY <2>3, <3>1
  <2>5. ASSUME NEW n \in 0..N
        PROVE  f[n] = IF n = 0 THEN <<>>
                      ELSE IF list[n] \in set THEN Append(f[n - 1], list[n])
                      ELSE f[n - 1]
    <3>1. CASE n = 0
      BY <2>3, <3>1
    <3>2. CASE n # 0
      <4>1. n \in 1..N
        BY <1>0, <3>2
      <4> QED BY <2>2, <2>3, <2>4, <3>2, <4>1
    <3> QED BY <3>1, <3>2
  <2>6. f = [n \in 0..N |->
               IF n = 0 THEN <<>>
               ELSE IF list[n] \in set THEN Append(f[n - 1], list[n]) ELSE f[n - 1]]
    BY <2>5
  <2> QED BY <2>6
<1>3. /\ kept[0] = <<>>
      /\ \A n \in 0..N : n < N => kept[n + 1] = IF list[n + 1] \in set
                                               THEN Append(kept[n], list[n + 1]) ELSE kept[n]
  <2>1. ASSUME NEW n \in 0..N, n < N
        PROVE  kept[n + 1] = IF list[n + 1] \in set
                             THEN Append(kept[n], list[n + 1]) ELSE kept[n]
    <3>1. n + 1 \in 0..N /\ n + 1 # 0 /\ (n + 1) - 1 = n
      BY <1>0, <2>1
    <3> HIDE DEF kept, N
    <3> QED BY <1>2, <3>1
  <2>2. 0 \in 0..N
    BY <1>0
  <2> HIDE DEF kept, N
  <2>3. kept[0] = <<>>
    BY <1>2, <2>2
  <2> QED BY <2>1, <2>3
<1> HIDE DEF kept
<1> DEFINE Seen(n) == {list[i] : i \in 1..n}
           S == {n \in 0..N : /\ kept[n] \in Seq(T)
                              /\ ToSet(kept[n]) = Seen(n) \cap set
                              /\ Distinct(list) => Distinct(kept[n])}
<1>4. 0 \in S
  <2>1. Seen(0) = {} /\ 0 \in 0..N
    BY <1>0
  <2>2. ToSet(<<>>) = {} /\ Distinct(<<>>) /\ <<>> \in Seq(T)
    BY DEF ToSet, Distinct
  <2> QED BY <1>3, <2>1, <2>2
<1>5. ASSUME NEW n \in 0..N, n < N, n \in S  PROVE  n + 1 \in S
  <2>0. n + 1 \in 1..N /\ n + 1 \in 0..N /\ list[n + 1] \in T
    BY <1>0, <1>5
  <2>1. Seen(n + 1) = Seen(n) \cup {list[n + 1]}
    <3>1. \A i \in 1..(n + 1) : i \in 1..n \/ i = n + 1
      BY <2>0
    <3>2. 1..n \subseteq 1..(n + 1) /\ n + 1 \in 1..(n + 1)
      BY <2>0
    <3> QED BY <3>1, <3>2
  <2>2. Distinct(list) => list[n + 1] \notin Seen(n)
    <3>1. \A i \in 1..n : i \in DOMAIN list /\ n + 1 \in DOMAIN list /\ i # n + 1
      BY <1>0, <2>0
    <3> QED BY <3>1 DEF Distinct
  <2> HIDE DEF Seen
  <2>3. CASE list[n + 1] \in set
    <3>1. kept[n + 1] = Append(kept[n], list[n + 1])
      BY <1>3, <1>5, <2>3
    <3>2. /\ kept[n] \in Seq(T) /\ ToSet(kept[n]) = Seen(n) \cap set
          /\ Distinct(list) => Distinct(kept[n])
      BY <1>5
    <3>3. /\ kept[n + 1] \in Seq(T)
          /\ ToSet(kept[n + 1]) = ToSet(kept[n]) \cup {list[n + 1]}
          /\ Distinct(kept[n]) /\ list[n + 1] \notin ToSet(kept[n]) => Distinct(kept[n + 1])
      BY <2>0, <3>1, <3>2, AppendMembers
    <3>4. ToSet(kept[n + 1]) = Seen(n + 1) \cap set
      BY <2>1, <2>3, <3>2, <3>3
    <3>5. Distinct(list) => Distinct(kept[n + 1])
      BY <2>2, <3>2, <3>3
    <3> QED BY <2>0, <3>3, <3>4, <3>5
  <2>4. CASE list[n + 1] \notin set
    <3>1. kept[n + 1] = kept[n]
      BY <1>3, <1>5, <2>4
    <3> QED BY <1>5, <2>0, <2>1, <2>4, <3>1
  <2> QED BY <2>3, <2>4
<1> HIDE DEF S
<1>6. N \in S
  <2>1. 0..N \subseteq S
    <3> HIDE DEF N
    <3> QED BY <1>0, <1>4, <1>5, SetInductionUpTo
  <2> QED BY <1>0, <2>1
<1>7. Seen(N) = ToSet(list)
  BY <1>0 DEF ToSet
<1> QED BY <1>1, <1>6, <1>7 DEF S

LEMMA ConcatMembers ==
  ASSUME NEW T, NEW front \in Seq(T), NEW back \in Seq(T)
  PROVE  /\ front \o back \in Seq(T)
         /\ ToSet(front \o back) = ToSet(front) \cup ToSet(back)
         /\ Distinct(front) /\ Distinct(back) /\ ToSet(front) \cap ToSet(back) = {}
              => Distinct(front \o back)
<1> DEFINE all == front \o back
           m == Len(front)
           n == Len(back)
<1>1. /\ all \in Seq(T) /\ m \in Nat /\ n \in Nat /\ Len(all) = m + n
      /\ DOMAIN front = 1..m /\ DOMAIN back = 1..n /\ DOMAIN all = 1..(m + n)
      /\ \A i \in 1..(m + n) : all[i] = IF i <= m THEN front[i] ELSE back[i - m]
  OBVIOUS
<1> HIDE DEF all, m, n
<1>2. /\ \A i \in DOMAIN front : i \in DOMAIN all /\ all[i] = front[i]
      /\ \A i \in DOMAIN back : i + m \in DOMAIN all /\ all[i + m] = back[i]
  <2>1. ASSUME NEW i \in 1..m  PROVE  i \in 1..(m + n) /\ all[i] = front[i]
    <3>1. i \in 1..(m + n) /\ i <= m
      BY <1>1
    <3> QED BY <1>1, <3>1
  <2>2. ASSUME NEW i \in 1..n  PROVE  i + m \in 1..(m + n) /\ all[i + m] = back[i]
    <3>1. /\ m \in Nat /\ n \in Nat /\ i \in Nat
          /\ i + m \in 1..(m + n) /\ ~(i + m <= m) /\ (i + m) - m = i
      BY <1>1
    <3> QED BY <1>1, <3>1
  <2> QED BY <1>1, <2>1, <2>2
<1>3. \A i \in DOMAIN all : \/ i \in DOMAIN front /\ all[i] = front[i]
                            \/ i - m \in DOMAIN back /\ all[i] = back[i - m]
  <2> SUFFICES ASSUME NEW i \in 1..(m + n)
               PROVE  \/ i \in 1..m /\ all[i] = front[i]
                      \/ i - m \in 1..n /\ all[i] = back[i - m]
    BY <1>1
  <2>1. i \in 1..m \/ (i - m \in 1..n /\ ~(i <= m))
    BY <1>1
  <2> QED BY <1>1, <2>1
<1>4. ToSet(all) = ToSet(front) \cup ToSet(back)
  BY <1>2, <1>3 DEF ToSet
<1>5. ASSUME Distinct(front), Distinct(back), ToSet(front) \cap ToSet(back) = {},
             NEW i \in DOMAIN all, NEW j \in DOMAIN all, all[i] = all[j]
      PROVE  i = j
  <2>1. CASE i \in DOMAIN front /\ all[i] = front[i]
    <3>1. ~(j - m \in DOMAIN back /\ all[j] = back[j - m])
      BY <1>5, <2>1 DEF ToSet
    <3> QED BY <1>3, <1>5, <2>1, <3>1 DEF Distinct
  <2>2. CASE i - m \in DOMAIN back /\ all[i] = back[i - m]
    <3>1. ~(j \in DOMAIN front /\ all[j] = front[j])
      BY <1>5, <2>2 DEF ToSet
    <3>2. j - m \in DOMAIN back /\ all[j] = back[j - m]
      BY <1>3, <3>1
    <3>3. i - m = j - m
      BY <1>5, <2>2, <3>2 DEF Distinct
    <3> QED BY <1>1, <3>3
  <2> QED BY <1>3, <2>1, <2>2
<1>6. all \in Seq(T)
  BY <1>1
<1> QED BY <1>4, <1>5, <1>6 DEF all, Distinct

LEMMA TailMembers ==
  ASSUME NEW T, NEW list \in Seq(T), list # <<>>, Distinct(list)
  PROVE  /\ Head(list) \in T /\ Tail(list) \in Seq(T) /\ Distinct(Tail(list))
         /\ Head(list) \in ToSet(list)
         /\ ToSet(Tail(list)) = ToSet(list) \ {Head(list)}
<1> DEFINE tail == Tail(list)
           n == Len(list)
<1>1. /\ n \in Nat /\ n >= 1 /\ DOMAIN list = 1..n
      /\ tail \in Seq(T) /\ DOMAIN tail = 1..(n - 1)
      /\ \A i \in 1..(n - 1) : tail[i] = list[i + 1]
      /\ Head(list) = list[1] /\ Head(list) \in T
  OBVIOUS
<1> HIDE DEF tail, n
<1>2. 1 \in DOMAIN list /\ \A i \in DOMAIN tail : i + 1 \in DOMAIN list /\ i + 1 # 1
  BY <1>1
<1>3. \A i \in DOMAIN list : i # 1 => i - 1 \in DOMAIN tail /\ tail[i - 1] = list[i]
  BY <1>1
<1>4. Distinct(tail)
  <2> SUFFICES ASSUME NEW i \in DOMAIN tail, NEW j \in DOMAIN tail, tail[i] = tail[j]
               PROVE  i = j
    BY DEF Distinct
  <2>1. list[i + 1] = list[j + 1]
    BY <1>1
  <2>2. i + 1 = j + 1
    BY <1>2, <2>1 DEF Distinct
  <2> QED BY <1>1, <2>2
<1>5. \A i \in DOMAIN tail : tail[i] = list[i + 1] /\ tail[i] # list[1]
  BY <1>1, <1>2 DEF Distinct
<1>6. ToSet(tail) = ToSet(list) \ {Head(list)}
  BY <1>1, <1>2, <1>3, <1>5 DEF ToSet
<1>7. Head(list) \in ToSet(list)
  BY <1>1, <1>2 DEF ToSet
<1> QED BY <1>1, <1>4, <1>6, <1>7 DEF tail
=============================================================================
