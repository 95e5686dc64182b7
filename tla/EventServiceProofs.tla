-------------------------- MODULE EventServiceProofs --------------------------
(***************************************************************************)
(* Proofs about EventService, for any devices, any size of the rings, any  *)
(* number of lines, truncations, removals and restarts.                    *)
(***************************************************************************)
EXTENDS EventService, SequenceTheorems, FiniteSetTheorems, TLAPS

-----------------------------------------------------------------------------
(* Sorting. *)

\* A set of naturals has a least element: the initial segments up to its
\* members are finite sets, and strict inclusion of finite sets is well-founded.
LEMMA LeastOf ==
    ASSUME NEW T, T \subseteq Nat, T # {}
    PROVE  \E x \in T : \A y \in T : x <= y
<1> DEFINE F == {0 .. t : t \in T}
           R == StrictSubsetOrdering(Nat)
           S == FiniteSubsetsOf(Nat)
<1>1. \A t \in T : 0 .. t \in S
  BY FS_Interval DEF FiniteSubsetsOf
<1>2. F \subseteq S /\ F # {}
  BY <1>1
<1>3. IsWellFoundedOn(R, S)
  BY FS_StrictSubsetOrderingWellFounded
<1>4. PICK a \in F : \A b \in F : ~(<<b, a>> \in R)
  <2> HIDE DEF F, R, S
  <2> QED
    BY <1>2, <1>3, WFMin
<1>5. PICK x \in T : a = 0 .. x
  BY <1>4
<1>6. ASSUME NEW y \in T, y < x PROVE FALSE
  <2>1. 0 .. y \in F
    OBVIOUS
  <2>2. (0 .. y) \subseteq (0 .. x) /\ x \notin 0 .. y /\ x \in 0 .. x
    BY <1>6
  <2>3. <<0 .. y, a>> \in R
    BY <2>2, <1>5 DEF StrictSubsetOrdering
  <2> QED
    BY <2>1, <2>3, <1>4
<1> QED
  BY <1>5, <1>6

\* s lists the set S, whose members have different keys, by rising key.
Lists(s, S, key) ==
    /\ s \in [1 .. Cardinality(S) -> S]
    /\ \A i, j \in 1 .. Cardinality(S) : i < j => key[s[i]] < key[s[j]]

\* A finite set can be listed: a smallest set that cannot has a least member,
\* without which it can.
LEMMA CanList ==
    ASSUME NEW S, IsFiniteSet(S), NEW key \in [S -> Nat],
           \A x, y \in S : key[x] = key[y] => x = y
    PROVE  \E s : Lists(s, S, key)
<1> DEFINE Bad == {X \in SUBSET S : ~ \E s : Lists(s, X, key)}
           R == StrictSubsetOrdering(S)
           F == FiniteSubsetsOf(S)
<1> SUFFICES ASSUME Bad # {} PROVE FALSE
  OBVIOUS
<1>1. Bad \subseteq F
  BY FS_Subset DEF FiniteSubsetsOf
<1>2. IsWellFoundedOn(R, F)
  BY FS_StrictSubsetOrderingWellFounded
<1>3. PICK X \in Bad : \A Y \in Bad : ~(<<Y, X>> \in R)
  <2> HIDE DEF Bad, R, F
  <2> QED
    BY <1>1, <1>2, WFMin
<1>4. X \subseteq S /\ IsFiniteSet(X) /\ Cardinality(X) \in Nat
  BY FS_Subset, FS_CardinalityType
<1>5. X # {}
  <2>1. Lists(<<>>, {}, key)
    BY FS_EmptySet DEF Lists
  <2> QED
    BY <2>1
<1>6. PICK m \in X : \A x \in X : key[m] <= key[x]
  <2> DEFINE T == {key[x] : x \in X}
  <2>1. T \subseteq Nat /\ T # {}
    BY <1>4, <1>5
  <2>2. PICK t \in T : \A y \in T : t <= y
    <3> HIDE DEF T
    <3> QED
      BY <2>1, LeastOf
  <2> QED
    BY <2>2
<1> DEFINE Y == X \ {m}
           c == Cardinality(X)
<1>7. Cardinality(Y) = c - 1 /\ IsFiniteSet(Y) /\ c \in Nat /\ c >= 1
  BY <1>4, <1>5, FS_RemoveElement, FS_EmptySet
<1>8. PICK s : Lists(s, Y, key)
  <2>1. <<Y, X>> \in R
    BY <1>4 DEF StrictSubsetOrdering
  <2> QED
    BY <1>3, <1>4, <2>1
<1> DEFINE t == [k \in 1 .. c |-> IF k = 1 THEN m ELSE s[k - 1]]
<1>9. \A k \in 1 .. c : k # 1 => k - 1 \in 1 .. c - 1 /\ s[k - 1] \in Y
  <2>1. s \in [1 .. c - 1 -> Y]
    BY <1>7, <1>8 DEF Lists
  <2> HIDE DEF Y, c
  <2> QED
    BY <1>7, <2>1
<1>10. t \in [1 .. c -> X]
  BY <1>9
<1>11. ASSUME NEW i \in 1 .. c, NEW j \in 1 .. c, i < j PROVE key[t[i]] < key[t[j]]
  <2>1. j # 1 /\ t[j] = s[j - 1] /\ s[j - 1] \in Y
    BY <1>9, <1>11, <1>7
  <2>2. CASE i = 1
    <3>1. t[i] = m /\ key[m] <= key[s[j - 1]] /\ s[j - 1] # m
      BY <2>1, <2>2, <1>6
    <3>2. key[m] \in Nat /\ key[s[j - 1]] \in Nat /\ key[m] # key[s[j - 1]]
      BY <3>1, <2>1, <1>4
    <3> QED
      BY <3>1, <3>2, <2>1
  <2>3. CASE i # 1
    <3>1. i - 1 \in 1 .. c - 1 /\ j - 1 \in 1 .. c - 1 /\ i - 1 < j - 1
      BY <2>1, <2>3, <1>7, <1>9, <1>11
    <3>2. key[s[i - 1]] < key[s[j - 1]]
      BY <3>1, <1>7, <1>8 DEF Lists
    <3> QED
      BY <3>2, <2>1, <2>3
  <2> QED
    BY <2>2, <2>3
<1> QED
  BY <1>10, <1>11 DEF Lists

\* A list of a set contains each of its members.
LEMMA ListsAll ==
    ASSUME NEW S, IsFiniteSet(S), NEW key \in [S -> Nat], NEW s, Lists(s, S, key)
    PROVE  s \in Surjection(1 .. Cardinality(S), S)
<1> DEFINE n == Cardinality(S)
<1>1. n \in Nat /\ IsFiniteSet(1 .. n) /\ Cardinality(1 .. n) = n
  BY FS_CardinalityType, FS_Interval
<1>2. \A i, j \in 1 .. n : s[i] = s[j] => i = j
  <2> SUFFICES ASSUME NEW i \in 1 .. n, NEW j \in 1 .. n, s[i] = s[j], i # j PROVE FALSE
    OBVIOUS
  <2>1. key[s[i]] \in Nat /\ key[s[j]] \in Nat
    BY DEF Lists
  <2>2. i < j \/ j < i
    BY <1>1
  <2> QED
    BY <2>1, <2>2 DEF Lists
<1>3. s \in Injection(1 .. n, S)
  BY <1>2 DEF Lists, Injection, IsInjective
<1> QED
  BY <1>1, <1>3, FS_Injection

\* Ascending lists a finite set of positions, from the first to the last.
LEMMA AscendingOf ==
    ASSUME NEW S, S \subseteq Nat, IsFiniteSet(S)
    PROVE  /\ Cardinality(S) \in Nat
           /\ Ascending(S) \in [1 .. Cardinality(S) -> S]
           /\ \A i, j \in 1 .. Cardinality(S) : i < j => Ascending(S)[i] < Ascending(S)[j]
           /\ \A x \in S : \E i \in 1 .. Cardinality(S) : Ascending(S)[i] = x
<1> DEFINE Rises(s) == \A i, j \in DOMAIN s : i < j => s[i] < s[j]
<1>1. PICK key \in [S -> Nat] : \A x \in S : key[x] = x
  <2> WITNESS [x \in S |-> x] \in [S -> Nat]
  <2> QED
    OBVIOUS
<1>2. PICK s : Lists(s, S, key)
  BY <1>1, CanList
<1>3. s \in [1 .. Cardinality(S) -> S] /\ Rises(s)
  BY <1>1, <1>2 DEF Lists
<1>4. PICK a \in [1 .. Cardinality(S) -> S] : a = Ascending(S) /\ Rises(a)
  BY <1>3 DEF Ascending
<1>5. \A i, j \in 1 .. Cardinality(S) : i < j => a[i] < a[j]
  BY <1>4
<1>6. Lists(a, S, key)
  BY <1>1, <1>5 DEF Lists
<1>7. \A x \in S : \E i \in 1 .. Cardinality(S) : a[i] = x
  <2>1. a \in Surjection(1 .. Cardinality(S), S)
    BY <1>6, ListsAll
  <2> QED
    BY <2>1 DEF Surjection
<1>8. Cardinality(S) \in Nat
  BY FS_CardinalityType
<1> QED
  BY <1>4, <1>5, <1>7, <1>8

\* There is only one such list.
LEMMA AscendingIs ==
    ASSUME NEW S, S \subseteq Nat, NEW n \in Nat, NEW t \in [1 .. n -> S],
           \A i, j \in 1 .. n : i < j => t[i] < t[j],
           \A x \in S : \E i \in 1 .. n : t[i] = x
    PROVE  IsFiniteSet(S) /\ Cardinality(S) = n /\ Ascending(S) = t
<1>1. t \in Surjection(1 .. n, S)
  BY DEF Surjection
<1>2. \A i, j \in 1 .. n : t[i] = t[j] => i = j
  <2> SUFFICES ASSUME NEW i \in 1 .. n, NEW j \in 1 .. n, t[i] = t[j], i # j PROVE FALSE
    OBVIOUS
  <2>1. t[i] \in S /\ t[j] \in S
    OBVIOUS
  <2>2. t[i] \in Nat /\ t[j] \in Nat
    BY <2>1
  <2>3. i < j \/ j < i
    OBVIOUS
  <2> QED
    BY <2>2, <2>3
<1>3. t \in Injection(1 .. n, S)
  BY <1>2 DEF Injection, IsInjective
<1>4. IsFiniteSet(1 .. n) /\ Cardinality(1 .. n) = n
  BY FS_Interval
<1>5. IsFiniteSet(S) /\ Cardinality(S) = n
  BY <1>1, <1>3, <1>4, FS_Surjection
<1> DEFINE a == Ascending(S)
<1>6. /\ a \in [1 .. n -> S]
      /\ \A i, j \in 1 .. n : i < j => a[i] < a[j]
      /\ \A x \in S : \E i \in 1 .. n : a[i] = x
  BY <1>5, AscendingOf
<1> HIDE DEF a
<1> DEFINE D == {k \in 1 .. n : a[k] # t[k]}
<1>7. ASSUME D # {} PROVE FALSE
  <2>1. PICK k \in D : \A j \in D : k <= j
    <3>1. D \subseteq Nat
      OBVIOUS
    <3> HIDE DEF D
    <3> QED
      BY <1>7, <3>1, LeastOf
  <2>2. k \in 1 .. n /\ a[k] \in S /\ t[k] \in S /\ a[k] \in Nat /\ t[k] \in Nat
    BY <2>1, <1>6
  <2>3. \A j \in 1 .. n : j < k => a[j] = t[j]
    BY <2>1
  <2>4. CASE a[k] < t[k]
    <3>1. PICK j \in 1 .. n : t[j] = a[k]
      BY <2>2
    <3>2. j < k
      BY <2>2, <2>4, <3>1
    <3>3. a[j] = a[k] /\ a[j] < a[k]
      BY <2>2, <2>3, <3>1, <3>2, <1>6
    <3> QED
      BY <3>3, <2>2
  <2>5. CASE t[k] < a[k]
    <3>1. PICK j \in 1 .. n : a[j] = t[k]
      BY <2>2, <1>6
    <3>2. j < k
      <4>1. a[j] \in Nat
        BY <1>6
      <4>2. k < j => a[k] < a[j]
        BY <2>2, <1>6
      <4> QED
        BY <2>2, <2>5, <3>1, <4>1, <4>2
    <3>3. t[j] = t[k] /\ t[j] < t[k]
      BY <2>2, <2>3, <3>1, <3>2
    <3> QED
      BY <3>3, <2>2
  <2>6. a[k] # t[k]
    BY <2>1
  <2> QED
    BY <2>2, <2>4, <2>5, <2>6
<1>8. a = t
  BY <1>6, <1>7
<1> QED
  BY <1>5, <1>8 DEF a

\* A finite set that is strictly and totally ordered can be listed in that order:
\* a member is numbered by how many come before it.
LEMMA CanOrder ==
    ASSUME NEW S, IsFiniteSet(S), NEW R,
           \A x \in S : <<x, x>> \notin R,
           \A x, y, z \in S : <<x, y>> \in R /\ <<y, z>> \in R => <<x, z>> \in R,
           \A x, y \in S : x = y \/ <<x, y>> \in R \/ <<y, x>> \in R
    PROVE  \E s \in [1 .. Cardinality(S) -> S] :
             \A i, j \in 1 .. Cardinality(S) : i < j => <<s[i], s[j]>> \in R
<1> DEFINE B(x) == {y \in S : <<y, x>> \in R}
<1>1. \A x \in S : IsFiniteSet(B(x)) /\ Cardinality(B(x)) \in Nat
  <2> SUFFICES ASSUME NEW x \in S
               PROVE  IsFiniteSet(B(x)) /\ Cardinality(B(x)) \in Nat
    OBVIOUS
  <2>1. B(x) \subseteq S
    OBVIOUS
  <2> HIDE DEF B
  <2>2. IsFiniteSet(B(x))
    BY <2>1, FS_Subset
  <2> QED
    BY <2>2, FS_CardinalityType
<1>2. ASSUME NEW x \in S, NEW y \in S, <<x, y>> \in R
      PROVE  Cardinality(B(x)) < Cardinality(B(y))
  <2>1. B(x) \subseteq B(y) /\ x \in B(y) /\ x \notin B(x)
    BY <1>2
  <2>2. IsFiniteSet(B(x)) /\ IsFiniteSet(B(y)) /\ Cardinality(B(x)) \in Nat /\ Cardinality(B(y)) \in Nat
    BY <1>1
  <2>3. B(x) # B(y)
    BY <2>1
  <2> HIDE DEF B
  <2>4. Cardinality(B(x)) <= Cardinality(B(y)) /\ (Cardinality(B(x)) = Cardinality(B(y)) => B(x) = B(y))
    BY <2>1, <2>2, FS_Subset
  <2> QED
    BY <2>2, <2>3, <2>4
<1> DEFINE f == [x \in S |-> Cardinality(B(x))]
<1> HIDE DEF B
<1>0. f \in [S -> Nat] /\ \A x \in S : f[x] = Cardinality(B(x))
  BY <1>1
<1>3. PICK key \in [S -> Nat] : \A x \in S : key[x] = Cardinality(B(x))
  <2> HIDE DEF f
  <2> QED
    BY <1>0
<1>4. \A x, y \in S : <<x, y>> \in R => key[x] < key[y]
  BY <1>2, <1>3
<1>5. \A x \in S : key[x] \in Nat
  OBVIOUS
<1>6. \A x, y \in S : (key[x] = key[y] => x = y) /\ (key[x] < key[y] => <<x, y>> \in R)
  <2> SUFFICES ASSUME NEW x \in S, NEW y \in S
               PROVE  (key[x] = key[y] => x = y) /\ (key[x] < key[y] => <<x, y>> \in R)
    OBVIOUS
  <2>1. key[x] \in Nat /\ key[y] \in Nat
    BY <1>5
  <2>2. x = y \/ (key[x] < key[y] /\ <<x, y>> \in R) \/ key[y] < key[x]
    BY <1>4
  <2> QED
    BY <2>1, <2>2
<1>7. PICK s : Lists(s, S, key)
  BY <1>6, CanList
<1>8. s \in [1 .. Cardinality(S) -> S]
  BY <1>7 DEF Lists
<1>9. \A i, j \in 1 .. Cardinality(S) : i < j => <<s[i], s[j]>> \in R
  BY <1>6, <1>7, <1>8 DEF Lists
<1> QED
  BY <1>8, <1>9

\* ByTime lists a finite set of places of events.
LEMMA ByTimeOf ==
    ASSUME NEW S, S \subseteq (1 .. 2) \X Nat, IsFiniteSet(S),
           \A x \in S : EventAt(x).observed_at \in Nat
    PROVE  /\ Cardinality(S) \in Nat
           /\ ByTime(S) \in [1 .. Cardinality(S) -> S]
           /\ \A i, j \in 1 .. Cardinality(S) : i < j => Before(ByTime(S)[i], ByTime(S)[j])
<1> DEFINE Rises(s) == \A i, j \in DOMAIN s : i < j => Before(s[i], s[j])
           R == {u \in S \X S : Before(u[1], u[2])}
<1> DEFINE f == [x \in S |-> EventAt(x).observed_at]
<1>0. f \in [S -> Nat] /\ \A x \in S : f[x] = EventAt(x).observed_at
  OBVIOUS
<1>1. PICK at \in [S -> Nat] : \A x \in S : at[x] = EventAt(x).observed_at
  <2> HIDE DEF f
  <2> QED
    BY <1>0
<1>2. \A x \in S : x[1] \in Nat /\ x[2] \in Nat /\ at[x] \in Nat
  <2> SUFFICES ASSUME NEW x \in S PROVE x[1] \in Nat /\ x[2] \in Nat /\ at[x] \in Nat
    OBVIOUS
  <2>1. x \in (1 .. 2) \X Nat /\ at[x] \in Nat
    OBVIOUS
  <2> QED
    BY <2>1
<1>3. \A x, y \in S :
        Before(x, y) <=> (at[x] < at[y] \/ (at[x] = at[y] /\ Listed(x, y)))
  BY <1>1 DEF Before
<1>4. \A x, y \in S : <<x, y>> \in R <=> Before(x, y)
  OBVIOUS
<1>5. \A x \in S : <<x, x>> \notin R
  <2> SUFFICES ASSUME NEW x \in S, Before(x, x) PROVE FALSE
    BY <1>4
  <2>1. at[x] < at[x] \/ (at[x] = at[x] /\ Listed(x, x))
    BY <1>3
  <2>2. ~Listed(x, x)
    BY <1>2 DEF Listed
  <2> QED
    BY <1>2, <2>1, <2>2
<1>6. \A x, y, z \in S : <<x, y>> \in R /\ <<y, z>> \in R => <<x, z>> \in R
  <2> SUFFICES ASSUME NEW x \in S, NEW y \in S, NEW z \in S, Before(x, y), Before(y, z)
               PROVE  Before(x, z)
    BY <1>4
  <2>1. /\ at[x] < at[y] \/ (at[x] = at[y] /\ Listed(x, y))
        /\ at[y] < at[z] \/ (at[y] = at[z] /\ Listed(y, z))
    BY <1>3
  <2>2. Listed(x, y) /\ Listed(y, z) => Listed(x, z)
    <3>1. /\ x[1] \in Nat /\ y[1] \in Nat /\ z[1] \in Nat
          /\ x[2] \in Nat /\ y[2] \in Nat /\ z[2] \in Nat
      BY <1>2
    <3> QED
      BY <3>1 DEF Listed
  <2>3. at[x] < at[z] \/ (at[x] = at[z] /\ Listed(x, z))
    BY <1>2, <2>1, <2>2
  <2> QED
    BY <1>3, <2>3
<1>7. \A x, y \in S : x = y \/ <<x, y>> \in R \/ <<y, x>> \in R
  <2> SUFFICES ASSUME NEW x \in S, NEW y \in S, x # y
               PROVE  Before(x, y) \/ Before(y, x)
    BY <1>4
  <2>1. x[1] # y[1] \/ x[2] # y[2]
    <3>1. x \in (1 .. 2) \X Nat /\ y \in (1 .. 2) \X Nat
      OBVIOUS
    <3> QED
      BY <3>1
  <2>2. Listed(x, y) \/ Listed(y, x)
    <3>1. x[1] \in Nat /\ y[1] \in Nat /\ x[2] \in Nat /\ y[2] \in Nat
      BY <1>2
    <3> QED
      BY <2>1, <3>1 DEF Listed
  <2> QED
    BY <1>2, <1>3, <2>2
<1> HIDE DEF R
<1>8. PICK s \in [1 .. Cardinality(S) -> S] :
        \A i, j \in 1 .. Cardinality(S) : i < j => <<s[i], s[j]>> \in R
  BY <1>5, <1>6, <1>7, CanOrder
<1>9. Rises(s)
  BY <1>4, <1>8
<1>10. PICK b \in [1 .. Cardinality(S) -> S] : b = ByTime(S) /\ Rises(b)
  BY <1>9 DEF ByTime
<1>11. Cardinality(S) \in Nat
  BY FS_CardinalityType
<1> QED
  BY <1>10, <1>11

-----------------------------------------------------------------------------
(* Parts of sequences. *)

LEMMA FunctionIsSeq ==
    ASSUME NEW S, NEW n \in Nat, NEW f \in [1 .. n -> S]
    PROVE  f \in Seq(S) /\ Len(f) = n
OBVIOUS

\* The elements of a sequence after the m-th, up to the n-th.
LEMMA Slice ==
    ASSUME NEW S, NEW s \in Seq(S), NEW m \in 0 .. Len(s), NEW n \in m .. Len(s)
    PROVE  /\ SubSeq(s, m + 1, n) \in Seq(S)
           /\ Len(SubSeq(s, m + 1, n)) = n - m
           /\ \A i \in 1 .. n - m : SubSeq(s, m + 1, n)[i] = s[m + i]
<1>1. Len(s) \in Nat /\ m \in Int /\ n \in Int /\ m + 1 \in Int
  BY LenProperties
<1>2. \A i \in m + 1 .. n : s[i] \in S
  BY <1>1, ElementOfSeq
<1> DEFINE u == SubSeq(s, m + 1, n)
           w == m + 1
<1>3. /\ SubSeq(s, w, n) \in Seq(S)
      /\ Len(SubSeq(s, w, n)) = IF w <= n THEN n - w + 1 ELSE 0
      /\ \A i \in 1 .. n - w + 1 : SubSeq(s, w, n)[i] = s[w + i - 1]
  <2>1. w \in Int /\ \A i \in w .. n : s[i] \in S
    BY <1>1, <1>2
  <2> HIDE DEF w
  <2> QED
    BY <1>1, <2>1, SubSeqProperties
<1>4. u \in Seq(S) /\ Len(u) = n - m
  BY <1>1, <1>3
<1>5. ASSUME NEW i \in 1 .. n - m PROVE u[i] = s[m + i]
  BY <1>1, <1>3
<1> QED
  BY <1>4, <1>5

\* The last n elements of a sequence, or all.
LEMMA LastNOf ==
    ASSUME NEW S, NEW s \in Seq(S), NEW n \in Nat, NEW l \in Nat,
           l = IF Len(s) > n THEN n ELSE Len(s)
    PROVE  /\ LastN(s, n) \in Seq(S)
           /\ Len(LastN(s, n)) = l
           /\ \A i \in 1 .. l : LastN(s, n)[i] = s[Len(s) - l + i]
<1>1. Len(s) \in Nat
  BY LenProperties
<1>2. CASE Len(s) > n
  <2> DEFINE m == Len(s) - n
  <2>1. m \in 0 .. Len(s) /\ Len(s) \in m .. Len(s) /\ Len(s) - m = n /\ l = n
    BY <1>1, <1>2
  <2>2. LastN(s, n) = SubSeq(s, m + 1, Len(s))
    BY <1>2 DEF LastN
  <2>3. /\ SubSeq(s, m + 1, Len(s)) \in Seq(S)
        /\ Len(SubSeq(s, m + 1, Len(s))) = Len(s) - m
        /\ \A i \in 1 .. Len(s) - m : SubSeq(s, m + 1, Len(s))[i] = s[m + i]
    <3> HIDE DEF m
    <3> QED
      BY <2>1, Slice
  <2> QED
    BY <2>1, <2>2, <2>3
<1>3. CASE ~(Len(s) > n)
  BY <1>1, <1>3 DEF LastN
<1> QED
  BY <1>2, <1>3

\* What a ring was cut down to is enough to cut the whole down to later.
LEMMA LastNTwice ==
    ASSUME NEW S, NEW s \in Seq(S), NEW t \in Seq(S), NEW n \in Nat
    PROVE  LastN(LastN(s, n) \o t, n) = LastN(s \o t, n)
<1>1. Len(s) \in Nat /\ Len(t) \in Nat
  BY LenProperties
<1>2. PICK l \in Nat : l = IF Len(s) > n THEN n ELSE Len(s)
  BY <1>1
<1> DEFINE p == LastN(s, n)
           q == p \o t
           w == s \o t
           x == LastN(q, n)
           y == LastN(w, n)
<1>3. p \in Seq(S) /\ Len(p) = l /\ \A i \in 1 .. l : p[i] = s[Len(s) - l + i]
  BY <1>2, LastNOf
<1> HIDE DEF p
<1>4. /\ q \in Seq(S) /\ Len(q) = Len(p) + Len(t)
      /\ \A i \in 1 .. Len(p) + Len(t) : q[i] = IF i <= Len(p) THEN p[i] ELSE t[i - Len(p)]
  BY <1>3, ConcatProperties
<1>5. /\ w \in Seq(S) /\ Len(w) = Len(s) + Len(t)
      /\ \A i \in 1 .. Len(s) + Len(t) : w[i] = IF i <= Len(s) THEN s[i] ELSE t[i - Len(s)]
  BY ConcatProperties
<1> HIDE DEF q, w
<1>6. Len(q) = l + Len(t) /\ Len(w) = Len(s) + Len(t)
  BY <1>3, <1>4, <1>5
<1>7. PICK k \in Nat : k = IF Len(q) > n THEN n ELSE Len(q)
  BY <1>1, <1>6
<1>8. k = IF Len(w) > n THEN n ELSE Len(w)
  BY <1>1, <1>2, <1>6, <1>7
<1>9. x \in Seq(S) /\ Len(x) = k /\ \A i \in 1 .. k : x[i] = q[Len(q) - k + i]
  <2>1. q \in Seq(S)
    BY <1>4
  <2> QED
    BY <2>1, <1>7, LastNOf, ZenonT(40)
<1>10. y \in Seq(S) /\ Len(y) = k /\ \A i \in 1 .. k : y[i] = w[Len(w) - k + i]
  <2>1. w \in Seq(S)
    BY <1>5
  <2> QED
    BY <2>1, <1>8, LastNOf, ZenonT(40)
<1> HIDE DEF x, y
<1>11. ASSUME NEW i \in 1 .. k PROVE x[i] = y[i]
  <2> DEFINE a == Len(q) - k + i
             b == Len(w) - k + i
  <2>1. a \in 1 .. l + Len(t) /\ b \in 1 .. Len(s) + Len(t) /\ b = Len(s) - l + a
    <3>1. k <= l + Len(t) /\ k <= Len(s) + Len(t)
      BY <1>1, <1>2, <1>6, <1>7, <1>8
    <3>2. a = l + Len(t) - k + i /\ b = Len(s) + Len(t) - k + i
      BY <1>6
    <3> HIDE DEF a, b
    <3> QED
      BY <1>1, <3>1, <3>2
  <2>2. x[i] = q[a] /\ y[i] = w[b]
    BY <1>9, <1>10
  <2> HIDE DEF a, b
  <2>3. CASE a <= l
    <3>1. q[a] = p[a] /\ p[a] = s[b]
      BY <1>1, <1>3, <1>4, <2>1, <2>3
    <3>2. w[b] = s[b]
      <4>1. b <= Len(s)
        BY <1>1, <2>1, <2>3
      <4> QED
        BY <1>5, <2>1, <4>1
    <3> QED
      BY <2>2, <3>1, <3>2
  <2>4. CASE ~(a <= l)
    <3>1. q[a] = t[a - l]
      BY <1>1, <1>3, <1>4, <2>1, <2>4
    <3>2. w[b] = t[b - Len(s)] /\ b - Len(s) = a - l
      <4>1. ~(b <= Len(s)) /\ b - Len(s) = a - l
        BY <1>1, <2>1, <2>4
      <4> QED
        BY <1>5, <2>1, <4>1
    <3> QED
      BY <2>2, <3>1, <3>2
  <2> QED
    BY <2>3, <2>4
<1>12. x = y
  BY <1>9, <1>10, <1>11, SeqEqual
<1> QED
  BY <1>12 DEF x, y, q, w, p

LEMMA Prefix ==
    ASSUME NEW S, NEW s \in Seq(S), NEW n \in 0 .. Len(s)
    PROVE  /\ SubSeq(s, 1, n) \in Seq(S)
           /\ Len(SubSeq(s, 1, n)) = n
           /\ \A i \in 1 .. n : SubSeq(s, 1, n)[i] = s[i]
<1>1. Len(s) \in Nat /\ n \in Int /\ 1 \in Int
  BY LenProperties
<1>2. \A i \in 1 .. n : s[i] \in S
  BY <1>1, ElementOfSeq
<1>3. /\ SubSeq(s, 1, n) \in Seq(S)
      /\ Len(SubSeq(s, 1, n)) = IF 1 <= n THEN n - 1 + 1 ELSE 0
      /\ \A i \in 1 .. n - 1 + 1 : SubSeq(s, 1, n)[i] = s[1 + i - 1]
  BY <1>1, <1>2, SubSeqProperties
<1> QED
  BY <1>1, <1>3

-----------------------------------------------------------------------------
(* What a reader parses. *)

LEMMA HitsOf ==
    ASSUME NEW chunk \in Seq(Units), NEW kind
    PROVE  /\ Hits(chunk, kind) \subseteq 1 .. Len(chunk)
           /\ Hits(chunk, kind) \subseteq Nat
           /\ IsFiniteSet(Hits(chunk, kind))
<1>1. Len(chunk) \in Nat /\ DOMAIN chunk = 1 .. Len(chunk)
  BY LenProperties
<1>2. Hits(chunk, kind) \subseteq 1 .. Len(chunk)
  BY <1>1 DEF Hits
<1>3. IsFiniteSet(1 .. Len(chunk))
  BY <1>1, FS_Interval
<1>4. IsFiniteSet(Hits(chunk, kind))
  BY <1>2, <1>3, FS_Subset
<1> QED
  BY <1>1, <1>2, <1>4

\* t goes through the n members of S, from the first to the last.
Through(S, n, t) ==
    /\ n \in Nat
    /\ t \in [1 .. n -> S]
    /\ \A i, j \in 1 .. n : i < j => t[i] < t[j]
    /\ \A x \in S : \E i \in 1 .. n : t[i] = x

\* The n lines of the hits t.
LinesAt(chunk, n, t) == [k \in 1 .. n |-> chunk[t[k]].line]

\* Parsed goes through the hits.
LEMMA ParsedOf ==
    ASSUME NEW chunk \in Seq(Units), NEW kind
    PROVE  \E n, t : /\ Through(Hits(chunk, kind), n, t)
                     /\ Parsed(chunk, kind) = LinesAt(chunk, n, t)
<1> DEFINE H == Hits(chunk, kind)
<1>1. H \subseteq Nat /\ IsFiniteSet(H)
  BY HitsOf
<1>2. /\ Cardinality(H) \in Nat
      /\ Ascending(H) \in [1 .. Cardinality(H) -> H]
      /\ \A i, j \in 1 .. Cardinality(H) : i < j => Ascending(H)[i] < Ascending(H)[j]
      /\ \A x \in H : \E i \in 1 .. Cardinality(H) : Ascending(H)[i] = x
  <2> HIDE DEF H
  <2> QED
    BY <1>1, AscendingOf
<1>3. Parsed(chunk, kind) = LinesAt(chunk, Cardinality(H), Ascending(H))
  BY <1>2 DEF Parsed, LinesAt
<1> HIDE DEF H
<1>4. Through(H, Cardinality(H), Ascending(H))
  BY <1>2 DEF Through
<1> QED
  BY <1>3, <1>4 DEF H

LEMMA LinesAtOf ==
    ASSUME NEW chunk \in Seq(Units), NEW kind, NEW n, NEW t,
           Through(Hits(chunk, kind), n, t)
    PROVE  LinesAt(chunk, n, t) \in Seq(1 .. MaxLines) /\ Len(LinesAt(chunk, n, t)) = n
<1>1. n \in Nat /\ \A k \in 1 .. n : t[k] \in 1 .. Len(chunk)
  BY HitsOf DEF Through
<1>2. \A k \in 1 .. n : chunk[t[k]] \in Units
  BY <1>1, ElementOfSeq
<1>3. \A k \in 1 .. n : chunk[t[k]].line \in 1 .. MaxLines
  BY <1>2 DEF Units
<1>4. LinesAt(chunk, n, t) \in [1 .. n -> 1 .. MaxLines]
  BY <1>3 DEF LinesAt
<1> QED
  BY <1>1, <1>4, FunctionIsSeq

LEMMA ParsedType ==
    ASSUME NEW chunk \in Seq(Units), NEW kind
    PROVE  Parsed(chunk, kind) \in Seq(1 .. MaxLines)
BY ParsedOf, LinesAtOf

LEMMA ParsedIs ==
    ASSUME NEW chunk \in Seq(Units), NEW kind, NEW n, NEW t,
           Through(Hits(chunk, kind), n, t)
    PROVE  Parsed(chunk, kind) = LinesAt(chunk, n, t)
<1>1. Hits(chunk, kind) \subseteq Nat
  BY HitsOf
<1>2. Ascending(Hits(chunk, kind)) = t
  BY <1>1, AscendingIs DEF Through
<1> QED
  BY <1>2 DEF Parsed, Through, LinesAt

\* A log read in two pieces, the first of which ends behind a newline, is parsed
\* like a log read at once: no line is lost, split or read twice at the seam,
\* and what is behind the last newline adds nothing.
LEMMA ParsedJoin ==
    ASSUME NEW f \in Seq(Units), NEW kind, NEW o \in 0 .. Len(f), NEW e \in o .. Len(f),
           o > 0 => f[o].part = "end",
           \A i \in e + 1 .. Len(f) : f[i].part # "end"
    PROVE  Parsed(SubSeq(f, 1, e), kind)
             = Parsed(SubSeq(f, 1, o), kind) \o Parsed(SubSeq(f, o + 1, Len(f)), kind)
<1> DEFINE a == SubSeq(f, 1, o)
           b == SubSeq(f, o + 1, Len(f))
           c == SubSeq(f, 1, e)
<1>0. Len(f) \in Nat /\ o \in Nat /\ e \in Nat /\ o <= e /\ e <= Len(f)
  BY LenProperties
<1>1. a \in Seq(Units) /\ Len(a) = o /\ \A i \in 1 .. o : a[i] = f[i]
  BY Prefix
<1>2. b \in Seq(Units) /\ Len(b) = Len(f) - o /\ \A i \in 1 .. Len(f) - o : b[i] = f[o + i]
  BY <1>0, Slice
<1>3. c \in Seq(Units) /\ Len(c) = e /\ \A i \in 1 .. e : c[i] = f[i]
  <2>1. e \in 0 .. Len(f)
    BY <1>0
  <2> QED
    BY <2>1, Prefix
<1> HIDE DEF a, b, c
<1>4. DOMAIN a = 1 .. o /\ DOMAIN b = 1 .. Len(f) - o /\ DOMAIN c = 1 .. e
  BY <1>1, <1>2, <1>3, LenProperties
<1>5. /\ \A i \in 1 .. o : c[i] = a[i]
      /\ \A i \in 1 .. e - o : c[o + i] = b[i]
      /\ o > 0 => c[o].part = "end"
  <2>1. \A i \in 1 .. o : c[i] = a[i]
    BY <1>0, <1>1, <1>3
  <2>2. ASSUME NEW i \in 1 .. e - o PROVE c[o + i] = b[i]
    <3>1. o + i \in 1 .. e /\ i \in 1 .. Len(f) - o
      BY <1>0
    <3> QED
      BY <1>2, <1>3, <3>1
  <2>3. o > 0 => c[o].part = "end"
    BY <1>0, <1>3
  <2> QED
    BY <2>1, <2>2, <2>3
<1>6. ASSUME NEW i \in 1 .. o PROVE i \in Hits(c, kind) <=> i \in Hits(a, kind)
  <2>1. /\ c[i] = a[i]
        /\ i > 1 => c[i - 1] = a[i - 1]
        /\ i > 2 => c[i - 2] = a[i - 2]
    BY <1>0, <1>5
  <2>2. Complete(c, i) <=> Complete(a, i)
    BY <2>1 DEF Complete
  <2> QED
    BY <1>0, <1>4, <2>1, <2>2 DEF Hits
<1>7. ASSUME NEW i \in Hits(b, kind) PROVE i \in 1 .. e - o /\ o + i \in Hits(c, kind)
  <2>1. /\ i \in 1 .. Len(f) - o /\ b[i].part = "end" /\ i > 1 /\ b[i - 1].part = "head"
        /\ i > 2 => b[i - 2].part = "end"
        /\ line[b[i].line].kind = kind
    BY <1>4 DEF Hits, Complete
  <2>2. i \in Int /\ i <= e - o
    <3>1. f[o + i].part = "end" /\ o + i \in 1 .. Len(f)
      BY <1>0, <1>2, <2>1
    <3>2. o + i \notin e + 1 .. Len(f)
      BY <3>1
    <3> QED
      BY <1>0, <2>1, <3>1, <3>2
  <2>3. c[o + i] = b[i] /\ c[o + i - 1] = b[i - 1]
    <3>1. i \in 1 .. e - o /\ i - 1 \in 1 .. e - o /\ o + i - 1 = o + (i - 1)
      BY <1>0, <2>1, <2>2
    <3> QED
      BY <1>5, <3>1
  <2>4. o + i > 2 => c[o + i - 2].part = "end"
    <3>1. CASE i > 2
      <4>1. i - 2 \in 1 .. e - o /\ o + i - 2 = o + (i - 2)
        BY <1>0, <2>1, <2>2, <3>1
      <4> QED
        BY <1>5, <2>1, <3>1, <4>1
    <3>2. CASE ~(i > 2)
      <4>1. i = 2 /\ o + i - 2 = o
        BY <1>0, <2>1, <2>2, <3>2
      <4> QED
        BY <1>0, <1>5, <4>1
    <3> QED
      BY <3>1, <3>2
  <2>5. Complete(c, o + i)
    BY <1>0, <2>1, <2>2, <2>3, <2>4 DEF Complete
  <2> QED
    BY <1>0, <1>4, <2>1, <2>2, <2>3, <2>5 DEF Hits
<1>8. ASSUME NEW i \in Hits(c, kind), i > o PROVE i - o \in Hits(b, kind)
  <2>1. /\ i \in 1 .. e /\ c[i].part = "end" /\ i > 1 /\ c[i - 1].part = "head"
        /\ i > 2 => c[i - 2].part = "end"
        /\ line[c[i].line].kind = kind
    BY <1>4 DEF Hits, Complete
  <2> DEFINE j == i - o
  <2>2. j \in 1 .. e - o /\ i = o + j
    BY <1>0, <1>8, <2>1
  <2>3. j > 1
    <3>1. ASSUME j = 1 PROVE FALSE
      <4>1. i - 1 = o /\ o > 0
        BY <1>0, <2>1, <3>1
      <4> QED
        BY <1>5, <2>1, <4>1
    <3> QED
      BY <2>2, <3>1
  <2>4. c[i] = b[j] /\ c[i - 1] = b[j - 1] /\ (j > 2 => c[i - 2] = b[j - 2])
    <3>1. j - 1 \in 1 .. e - o /\ i - 1 = o + (j - 1)
      BY <1>0, <2>2, <2>3
    <3>2. j > 2 => j - 2 \in 1 .. e - o /\ i - 2 = o + (j - 2)
      <4> HIDE DEF j
      <4> QED
        BY <1>0, <2>1, <2>2
    <3> QED
      BY <1>5, <2>2, <3>1, <3>2
  <2>5. Complete(b, j)
    <3>1. j > 2 => i > 2
      BY <1>0, <2>2
    <3> QED
      BY <2>1, <2>3, <2>4, <3>1 DEF Complete
  <2>6. j \in 1 .. Len(f) - o
    BY <1>0, <2>2
  <2> QED
    BY <1>4, <2>1, <2>4, <2>5, <2>6 DEF Hits
<1>9. PICK n, t : /\ Through(Hits(a, kind), n, t)
                 /\ Parsed(a, kind) = LinesAt(a, n, t)
  BY <1>1, ParsedOf
<1>10. PICK m, u : /\ Through(Hits(b, kind), m, u)
                  /\ Parsed(b, kind) = LinesAt(b, m, u)
  BY <1>2, ParsedOf
<1>11. /\ n \in Nat /\ t \in [1 .. n -> Hits(a, kind)]
       /\ \A i, j \in 1 .. n : i < j => t[i] < t[j]
       /\ \A x \in Hits(a, kind) : \E i \in 1 .. n : t[i] = x
  BY <1>9 DEF Through
<1>12. /\ m \in Nat /\ u \in [1 .. m -> Hits(b, kind)]
       /\ \A i, j \in 1 .. m : i < j => u[i] < u[j]
       /\ \A x \in Hits(b, kind) : \E i \in 1 .. m : u[i] = x
  BY <1>10 DEF Through
<1> DEFINE w == [k \in 1 .. n + m |-> IF k <= n THEN t[k] ELSE o + u[k - n]]
<1>13. \A k \in 1 .. n : t[k] \in 1 .. o /\ w[k] = t[k] /\ w[k] \in Hits(c, kind)
  <2> SUFFICES ASSUME NEW k \in 1 .. n
               PROVE  t[k] \in 1 .. o /\ w[k] = t[k] /\ w[k] \in Hits(c, kind)
    OBVIOUS
  <2>1. t[k] \in Hits(a, kind) /\ t[k] \in 1 .. o
    BY <1>1, <1>11, HitsOf
  <2>2. t[k] \in Hits(c, kind)
    BY <1>6, <2>1
  <2>3. w[k] = t[k]
    BY <1>11, <1>12
  <2> QED
    BY <2>1, <2>2, <2>3
<1>14. \A k \in n + 1 .. n + m :
         /\ k - n \in 1 .. m /\ u[k - n] \in 1 .. e - o
         /\ w[k] = o + u[k - n] /\ w[k] \in Hits(c, kind)
  <2> SUFFICES ASSUME NEW k \in n + 1 .. n + m
               PROVE  /\ k - n \in 1 .. m /\ u[k - n] \in 1 .. e - o
                      /\ w[k] = o + u[k - n] /\ w[k] \in Hits(c, kind)
    OBVIOUS
  <2>1. k - n \in 1 .. m /\ k \in 1 .. n + m /\ ~(k <= n)
    BY <1>11, <1>12
  <2>2. u[k - n] \in Hits(b, kind)
    BY <1>12, <2>1
  <2>3. w[k] = o + u[k - n]
    BY <2>1
  <2> QED
    BY <1>7, <2>1, <2>2, <2>3
<1>15. w \in [1 .. n + m -> Hits(c, kind)]
  <2>1. \A k \in 1 .. n + m : w[k] \in Hits(c, kind)
    <3> SUFFICES ASSUME NEW k \in 1 .. n + m PROVE w[k] \in Hits(c, kind)
      OBVIOUS
    <3>1. k \in 1 .. n \/ k \in n + 1 .. n + m
      BY <1>11, <1>12
    <3> QED
      BY <1>13, <1>14, <3>1
  <2>2. w = [k \in 1 .. n + m |-> w[k]]
    OBVIOUS
  <2> HIDE DEF w
  <2> QED
    BY <2>1, <2>2
<1> HIDE DEF w
<1>16. ASSUME NEW i \in 1 .. n + m, NEW j \in 1 .. n + m, i < j PROVE w[i] < w[j]
  <2>1. CASE j <= n
    BY <1>11, <1>13, <1>16, <2>1, SMTT(40)
  <2>2. CASE i <= n /\ ~(j <= n)
    <3>1. i \in 1 .. n /\ j \in n + 1 .. n + m
      BY <1>11, <1>12, <2>2
    <3>2. w[i] \in 1 .. o
      BY <1>13, <3>1
    <3>3. u[j - n] \in 1 .. e - o /\ w[j] = o + u[j - n]
      BY <1>14, <3>1
    <3> QED
      BY <1>0, <3>2, <3>3
  <2>3. CASE ~(i <= n)
    <3>1. i \in n + 1 .. n + m /\ j \in n + 1 .. n + m /\ i - n < j - n
      BY <1>11, <1>12, <1>16, <2>3
    <3>2. /\ i - n \in 1 .. m /\ u[i - n] \in 1 .. e - o /\ w[i] = o + u[i - n]
          /\ j - n \in 1 .. m /\ u[j - n] \in 1 .. e - o /\ w[j] = o + u[j - n]
      BY <1>14, <3>1
    <3>3. u[i - n] < u[j - n]
      BY <1>12, <3>1, <3>2
    <3> QED
      BY <1>0, <3>2, <3>3
  <2> QED
    BY <2>1, <2>2, <2>3
<1>17. ASSUME NEW x \in Hits(c, kind) PROVE \E k \in 1 .. n + m : w[k] = x
  <2>0. x \in 1 .. e
    BY <1>3, HitsOf
  <2>1. CASE x <= o
    <3>1. x \in 1 .. o
      BY <1>0, <2>0, <2>1
    <3>2. x \in Hits(a, kind)
      BY <1>6, <3>1
    <3>3. PICK k \in 1 .. n : t[k] = x
      BY <1>11, <3>2
    <3>4. k \in 1 .. n + m /\ w[k] = x
      BY <1>11, <1>12, <1>13, <3>3
    <3> QED
      BY <3>4
  <2>2. CASE ~(x <= o)
    <3>1. x - o \in Hits(b, kind)
      BY <1>0, <1>8, <2>0, <2>2
    <3>2. PICK k \in 1 .. m : u[k] = x - o
      BY <1>12, <3>1
    <3>3. k + n \in n + 1 .. n + m /\ (k + n) - n = k /\ o + (x - o) = x
      BY <1>0, <1>11, <1>12, <2>0
    <3>4. w[k + n] = x
      BY <1>14, <3>2, <3>3
    <3>5. k + n \in 1 .. n + m
      BY <1>11, <1>12, <3>3
    <3> QED
      BY <3>4, <3>5
  <2> QED
    BY <2>1, <2>2
<1>18. Parsed(c, kind) = LinesAt(c, n + m, w)
  <2>1. Through(Hits(c, kind), n + m, w)
    BY <1>11, <1>12, <1>15, <1>16, <1>17 DEF Through
  <2>2. c \in Seq(Units)
    BY <1>3
  <2> QED
    BY <2>1, <2>2, ParsedIs
<1> DEFINE P == Parsed(a, kind)
           Q == Parsed(b, kind)
           R == Parsed(c, kind)
<1>19. /\ P \in Seq(1 .. MaxLines) /\ Len(P) = n
       /\ \A k \in 1 .. n : P[k] = a[t[k]].line
  <2>1. a \in Seq(Units)
    BY <1>1
  <2>2. LinesAt(a, n, t) \in Seq(1 .. MaxLines) /\ Len(LinesAt(a, n, t)) = n
    BY <1>9, <2>1, LinesAtOf
  <2>3. \A k \in 1 .. n : LinesAt(a, n, t)[k] = a[t[k]].line
    BY DEF LinesAt
  <2> QED
    BY <1>9, <2>2, <2>3
<1>20. /\ Q \in Seq(1 .. MaxLines) /\ Len(Q) = m
       /\ \A k \in 1 .. m : Q[k] = b[u[k]].line
  <2>1. b \in Seq(Units)
    BY <1>2
  <2>2. LinesAt(b, m, u) \in Seq(1 .. MaxLines) /\ Len(LinesAt(b, m, u)) = m
    BY <1>10, <2>1, LinesAtOf
  <2>3. \A k \in 1 .. m : LinesAt(b, m, u)[k] = b[u[k]].line
    BY DEF LinesAt
  <2> QED
    BY <1>10, <2>2, <2>3
<1>21. /\ R \in Seq(1 .. MaxLines) /\ Len(R) = n + m
       /\ \A k \in 1 .. n + m : R[k] = c[w[k]].line
  <2>1. Through(Hits(c, kind), n + m, w)
    BY <1>11, <1>12, <1>15, <1>16, <1>17 DEF Through
  <2>2. c \in Seq(Units)
    BY <1>3
  <2>3. LinesAt(c, n + m, w) \in Seq(1 .. MaxLines) /\ Len(LinesAt(c, n + m, w)) = n + m
    BY <2>1, <2>2, LinesAtOf
  <2>4. \A k \in 1 .. n + m : LinesAt(c, n + m, w)[k] = c[w[k]].line
    BY DEF LinesAt
  <2> QED
    BY <1>18, <2>3, <2>4
<1> HIDE DEF P, Q, R
<1>22. /\ P \o Q \in Seq(1 .. MaxLines) /\ Len(P \o Q) = n + m
       /\ \A k \in 1 .. n + m : (P \o Q)[k] = IF k <= n THEN P[k] ELSE Q[k - n]
  BY <1>19, <1>20, ConcatProperties, ZenonT(40)
<1>23. ASSUME NEW k \in 1 .. n + m PROVE R[k] = (P \o Q)[k]
  <2>1. CASE k <= n
    <3>1. k \in 1 .. n
      BY <1>11, <1>12, <2>1
    <3>2. w[k] = t[k] /\ c[t[k]] = a[t[k]]
      BY <1>5, <1>13, <3>1
    <3>3. R[k] = c[t[k]].line
      BY <1>21, <3>2
    <3>4. P[k] = a[t[k]].line
      BY <1>19, <3>1
    <3>5. (P \o Q)[k] = P[k]
      BY <1>22, <2>1
    <3> QED
      BY <3>2, <3>3, <3>4, <3>5
  <2>2. CASE ~(k <= n)
    <3>1. k \in n + 1 .. n + m
      BY <1>11, <1>12, <2>2
    <3>2. k - n \in 1 .. m /\ w[k] = o + u[k - n] /\ c[o + u[k - n]] = b[u[k - n]]
      BY <1>5, <1>14, <3>1
    <3>3. R[k] = c[o + u[k - n]].line
      BY <1>21, <3>2
    <3>4. Q[k - n] = b[u[k - n]].line
      BY <1>20, <3>2
    <3>5. (P \o Q)[k] = Q[k - n]
      BY <1>22, <2>2
    <3> QED
      BY <3>2, <3>3, <3>4, <3>5
  <2> QED
    BY <2>1, <2>2
<1>24. R = P \o Q
  BY <1>21, <1>22, <1>23, SeqEqual
<1> QED
  BY <1>24 DEF P, Q, R, a, b, c

-----------------------------------------------------------------------------
(* The inductive invariant. *)

Types == TypeOK /\ ring \in [1 .. 2 -> Seq(Event)]

\* Units of the log carry the numbers of lines written; numbers never fall from
\* one unit to the next and rise after each newline.
LogOrder ==
    /\ Len(line) <= MaxLines
    /\ open \in {0, Len(line)}
    /\ open # 0 => exists
    /\ ~exists => file = <<>>
    /\ \A i \in DOMAIN file : file[i].line \in 1 .. Len(line)
    /\ \A i, j \in DOMAIN file : i < j =>
         /\ file[i].line <= file[j].line
         /\ file[i].part = "end" => file[i].line < file[j].line
    /\ open # 0 => \A i \in DOMAIN file : file[i].part = "end" => file[i].line < open

\* A call in progress is at one of the two readers.
AtReader == pc.at # "idle" => pc.reader \in 1 .. 2

\* The events s of reader r, which has come to offset o: finished lines of its
\* kind, in the order of the log; and what it may still read, from the offset on
\* or from the start if the offset is past the end, is younger than all of them.
GoodRing(s, r, o) ==
    /\ \A k \in 1 .. Len(s) :
         /\ s[k].line \in 1 .. Len(line)
         /\ line[s[k].line].kind = Readers[r]
         /\ open # 0 => s[k].line < open
    /\ \A j, k \in 1 .. Len(s) : j < k => s[j].line < s[k].line
    /\ \A k \in 1 .. Len(s), i \in 1 .. Len(file) :
         i > o \/ o > Len(file) => s[k].line < file[i].line

\* The rings are so until the log is cut to a rest.
GoodRings == ~trimmed => \A r \in 1 .. 2 : GoodRing(ring[r], r, offset[r])

WholeIsUncut == whole => ~trimmed

\* An offset into a log that was only appended to is behind a newline.
AtNewline ==
    whole => \A r \in 1 .. 2 :
      /\ offset[r] <= Len(file)
      /\ offset[r] > 0 => file[offset[r]].part = "end"

\* The answer names lines that were written, and obeys ReportedOnce.
AnswerOnce ==
    ~trimmed =>
      /\ \A k \in DOMAIN events : events[k].line \in 1 .. Len(line)
      /\ \A i, j \in DOMAIN events :
           i < j => \/ events[i].line < events[j].line
                   \/ /\ events[i].line # events[j].line
                      /\ \/ line[events[i].line].kind # line[events[j].line].kind
                         \/ events[i].observed_at < events[j].observed_at

Inv ==
    /\ Types /\ LogOrder /\ AtReader
    /\ GoodRings /\ WholeIsUncut
    /\ AtNewline /\ RingIsTail
    /\ AnswerOnce

-----------------------------------------------------------------------------
(* One poll. *)

\* rfind finds the last newline.
LEMMA LastNewline ==
    ASSUME NEW chunk \in Seq(Units)
    PROVE  /\ AfterLastNewline(chunk) \in 0 .. Len(chunk)
           /\ AfterLastNewline(chunk) > 0 => chunk[AfterLastNewline(chunk)].part = "end"
           /\ \A i \in AfterLastNewline(chunk) + 1 .. Len(chunk) : chunk[i].part # "end"
<1>1. Len(chunk) \in Nat /\ DOMAIN chunk = 1 .. Len(chunk)
  BY LenProperties
<1> DEFINE E == {i \in DOMAIN chunk : chunk[i].part = "end"}
<1>2. CASE E = {}
  <2>1. AfterLastNewline(chunk) = 0
    BY <1>2 DEF AfterLastNewline
  <2> QED
    BY <1>1, <1>2, <2>1
<1>3. CASE E # {}
  <2> DEFINE T == {Len(chunk) - i : i \in E}
  <2>1. T \subseteq Nat /\ T # {}
    BY <1>1, <1>3
  <2>2. PICK x \in T : \A y \in T : x <= y
    <3> HIDE DEF T
    <3> QED
      BY <2>1, LeastOf
  <2>3. PICK m \in E : x = Len(chunk) - m
    BY <2>2
  <2>4. \A j \in E : j <= m
    <3> SUFFICES ASSUME NEW j \in E PROVE j <= m
      OBVIOUS
    <3>1. Len(chunk) - m <= Len(chunk) - j
      BY <2>2, <2>3
    <3> QED
      BY <1>1, <3>1
  <2>5. PICK a \in DOMAIN chunk : /\ a = AfterLastNewline(chunk) /\ chunk[a].part = "end"
                                  /\ \A j \in DOMAIN chunk : chunk[j].part = "end" => j <= a
    BY <2>3, <2>4 DEF AfterLastNewline
  <2> QED
    BY <1>1, <2>5
<1> QED
  BY <1>2, <1>3

\* What a poll reads.
Chunk(r) == IF exists THEN SubSeq(file, offset[r] + 1, Len(file)) ELSE <<>>

LEMMA ChunkOf ==
    ASSUME Types, LogOrder, NEW r \in 1 .. 2
    PROVE  /\ Chunk(r) \in Seq(Units)
           /\ Len(Chunk(r)) \in Nat
           /\ offset[r] <= Len(file) => /\ Chunk(r) = SubSeq(file, offset[r] + 1, Len(file))
                                        /\ Len(Chunk(r)) = Len(file) - offset[r]
           /\ ~(offset[r] <= Len(file)) => Chunk(r) = <<>> /\ Len(Chunk(r)) = 0
           /\ \A i \in 1 .. Len(Chunk(r)) :
                offset[r] + i \in 1 .. Len(file) /\ Chunk(r)[i] = file[offset[r] + i]
<1>1. file \in Seq(Units) /\ Len(file) \in Nat /\ offset[r] \in Nat
  BY LenProperties DEF Types, TypeOK
<1>2. CASE offset[r] <= Len(file)
  <2> DEFINE s == SubSeq(file, offset[r] + 1, Len(file))
  <2>1. offset[r] \in 0 .. Len(file) /\ Len(file) \in offset[r] .. Len(file)
    BY <1>1, <1>2
  <2>2. /\ s \in Seq(Units) /\ Len(s) = Len(file) - offset[r]
        /\ \A i \in 1 .. Len(file) - offset[r] : s[i] = file[offset[r] + i]
    BY <1>1, <2>1, Slice
  <2>3. Chunk(r) = s
    <3>1. CASE exists
      BY <3>1 DEF Chunk
    <3>2. CASE ~exists
      <4>1. file = <<>> /\ Len(file) = 0 /\ Chunk(r) = <<>>
        BY <3>2 DEF LogOrder, Chunk
      <4>2. s = <<>>
        BY <1>1, <4>1, SubSeqEmpty
      <4> QED
        BY <4>1, <4>2
    <3> QED
      BY <3>1, <3>2
  <2>4. \A i \in 1 .. Len(file) - offset[r] : offset[r] + i \in 1 .. Len(file)
    BY <1>1, <1>2
  <2> HIDE DEF s
  <2>5. Chunk(r) \in Seq(Units) /\ Len(Chunk(r)) = Len(file) - offset[r] /\ Len(Chunk(r)) \in Nat
    BY <1>1, <1>2, <2>2, <2>3
  <2>6. \A i \in 1 .. Len(Chunk(r)) :
          offset[r] + i \in 1 .. Len(file) /\ Chunk(r)[i] = file[offset[r] + i]
    BY <2>2, <2>3, <2>4, <2>5
  <2> QED
    BY <1>2, <2>3, <2>5, <2>6 DEF s
<1>3. CASE ~(offset[r] <= Len(file))
  <2>1. SubSeq(file, offset[r] + 1, Len(file)) = <<>>
    BY <1>1, <1>3, SubSeqEmpty
  <2>2. Chunk(r) = <<>>
    BY <2>1 DEF Chunk
  <2>3. <<>> \in Seq(Units) /\ Len(<<>>) = 0
    OBVIOUS
  <2> QED
    BY <1>3, <2>2, <2>3
<1> QED
  BY <1>2, <1>3

\* The lines ids are those that end at the positions p of the log, which rise
\* between o and e.
ReadAt(ids, p, o, e, kind) ==
    /\ p \in [1 .. Len(ids) -> 1 .. Len(file)]
    /\ \A k \in 1 .. Len(ids) :
         /\ o < p[k] /\ p[k] <= e
         /\ file[p[k]].part = "end"
         /\ line[file[p[k]].line].kind = kind
         /\ ids[k] = file[p[k]].line
    /\ \A j, k \in 1 .. Len(ids) : j < k => p[j] < p[k]

LEMMA NewLines ==
    ASSUME Types, LogOrder, NEW r \in 1 .. 2, NEW kind
    PROVE  /\ Parsed(Chunk(r), kind) \in Seq(1 .. MaxLines)
           /\ \E p : ReadAt(Parsed(Chunk(r), kind), p, offset[r],
                            offset[r] + AfterLastNewline(Chunk(r)), kind)
<1> DEFINE c == Chunk(r)
           o == offset[r]
           a == AfterLastNewline(c)
           ids == Parsed(c, kind)
<1>1. /\ c \in Seq(Units) /\ Len(c) \in Nat
      /\ \A i \in 1 .. Len(c) : o + i \in 1 .. Len(file) /\ c[i] = file[o + i]
  BY ChunkOf
<1>2. o \in Nat /\ Len(file) \in Nat
  BY LenProperties DEF Types, TypeOK
<1> HIDE DEF c
<1>3. a \in 0 .. Len(c) /\ \A i \in a + 1 .. Len(c) : c[i].part # "end"
  BY <1>1, LastNewline
<1>4. PICK n, t : Through(Hits(c, kind), n, t) /\ ids = LinesAt(c, n, t)
  BY <1>1, ParsedOf
<1>5. ids \in Seq(1 .. MaxLines) /\ Len(ids) = n
  BY <1>1, <1>4, LinesAtOf
<1>6. n \in Nat /\ t \in [1 .. n -> Hits(c, kind)] /\ \A j, k \in 1 .. n : j < k => t[j] < t[k]
  BY <1>4 DEF Through
<1>7. \A k \in 1 .. n : ids[k] = c[t[k]].line
  BY <1>4 DEF LinesAt
<1> HIDE DEF ids, o, a
<1> DEFINE p == [k \in 1 .. n |-> o + t[k]]
<1>8. ASSUME NEW k \in 1 .. n
      PROVE  /\ t[k] \in 1 .. Len(c) /\ p[k] = o + t[k] /\ p[k] \in 1 .. Len(file)
             /\ o < p[k] /\ p[k] <= o + a
             /\ file[p[k]].part = "end"
             /\ line[file[p[k]].line].kind = kind
             /\ ids[k] = file[p[k]].line
  <2>1. t[k] \in Hits(c, kind)
    BY <1>6
  <2>2. t[k] \in 1 .. Len(c) /\ c[t[k]].part = "end" /\ line[c[t[k]].line].kind = kind
    BY <1>1, <2>1, LenProperties DEF Hits, Complete
  <2>3. t[k] <= a
    <3>1. t[k] \notin a + 1 .. Len(c)
      BY <1>3, <2>2
    <3> QED
      BY <1>1, <1>3, <2>2, <3>1
  <2>4. p[k] = o + t[k] /\ p[k] \in 1 .. Len(file) /\ c[t[k]] = file[p[k]]
    BY <1>1, <2>2
  <2> QED
    BY <1>2, <1>3, <1>7, <2>2, <2>3, <2>4
<1>9. \A j, k \in 1 .. n : j < k => p[j] < p[k]
  BY <1>2, <1>6, <1>8
<1>10. p \in [1 .. n -> 1 .. Len(file)]
  BY <1>8
<1> HIDE DEF p
<1>11. ReadAt(ids, p, o, o + a, kind)
  BY <1>5, <1>8, <1>9, <1>10 DEF ReadAt
<1> QED
  BY <1>5, <1>11 DEF ids, c, a, o

LEMMA DatedOf ==
    ASSUME NEW ids \in Seq(1 .. MaxLines), NEW stamps \in [DOMAIN ids -> Times]
    PROVE  /\ Dated(ids, stamps) \in Seq(Event) /\ Len(Dated(ids, stamps)) = Len(ids)
           /\ \A k \in 1 .. Len(ids) : Dated(ids, stamps)[k].line = ids[k]
<1>1. Len(ids) \in Nat /\ DOMAIN ids = 1 .. Len(ids)
  BY LenProperties
<1> DEFINE d == [k \in 1 .. Len(ids) |-> [line |-> ids[k], observed_at |-> stamps[k]]]
<1>2. Dated(ids, stamps) = d
  BY <1>1 DEF Dated
<1>3. d \in [1 .. Len(ids) -> Event]
  <2> SUFFICES ASSUME NEW k \in 1 .. Len(ids)
               PROVE  [line |-> ids[k], observed_at |-> stamps[k]] \in Event
    OBVIOUS
  <2>1. ids[k] \in 1 .. MaxLines /\ stamps[k] \in Times
    BY <1>1, ElementOfSeq
  <2> QED
    BY <2>1 DEF Event
<1>4. \A k \in 1 .. Len(ids) : d[k].line = ids[k]
  OBVIOUS
<1> HIDE DEF d
<1>5. d \in Seq(Event) /\ Len(d) = Len(ids)
  BY <1>1, <1>3, FunctionIsSeq
<1> QED
  BY <1>2, <1>4, <1>5

\* A ring with the events of a poll, before it is cut.
LEMMA Extended ==
    ASSUME Types, LogOrder, GoodRings, ~trimmed, NEW r \in 1 .. 2,
           NEW ids \in Seq(1 .. MaxLines), NEW stamps \in [DOMAIN ids -> Times],
           NEW p, NEW e \in Nat,
           offset[r] <= e, e > Len(file) => e = offset[r],
           ReadAt(ids, p, offset[r], e, Readers[r])
    PROVE  GoodRing(ring[r] \o Dated(ids, stamps), r, e)
<1> DEFINE s == ring[r]
           d == Dated(ids, stamps)
           v == s \o d
           o == offset[r]
           l == Len(s)
           m == Len(ids)
<1>1. s \in Seq(Event) /\ o \in Nat /\ l \in Nat /\ m \in Nat
  BY LenProperties DEF Types, TypeOK
<1>2. /\ d \in Seq(Event) /\ Len(d) = m
      /\ \A k \in 1 .. m : d[k].line = ids[k]
  BY <1>1, DatedOf
<1>3. GoodRing(s, r, o)
  BY DEF GoodRings
<1> HIDE DEF s, d, m
<1>4. /\ v \in Seq(Event) /\ Len(v) = l + m
      /\ \A k \in 1 .. l + m : v[k] = IF k <= l THEN s[k] ELSE d[k - l]
  BY <1>1, <1>2, ConcatProperties
<1> HIDE DEF v, o, l
<1>5. ASSUME NEW k \in 1 .. l + m
      PROVE  (k \in 1 .. l /\ v[k] = s[k]) \/ (k - l \in 1 .. m /\ v[k] = d[k - l])
  BY <1>1, <1>4
<1>6. file \in Seq(Units) /\ Len(file) \in Nat /\ DOMAIN file = 1 .. Len(file)
  BY LenProperties DEF Types, TypeOK
\* The events added.
<1>7. ASSUME NEW k \in 1 .. m
      PROVE  /\ p[k] \in 1 .. Len(file) /\ o < p[k] /\ p[k] <= e /\ file[p[k]].part = "end"
             /\ d[k].line = file[p[k]].line
             /\ line[d[k].line].kind = Readers[r]
  BY <1>2 DEF ReadAt, m, o
<1>8. ASSUME NEW k \in 1 .. m
      PROVE  /\ d[k].line \in 1 .. Len(line) /\ d[k].line \in Int
             /\ open # 0 => d[k].line < open
  <2>1. p[k] \in DOMAIN file /\ file[p[k]].part = "end" /\ d[k].line = file[p[k]].line
    BY <1>6, <1>7
  <2>2. d[k].line \in 1 .. Len(line) /\ (open # 0 => d[k].line < open)
    BY <2>1 DEF LogOrder
  <2> QED
    BY <2>2
<1>9. ASSUME NEW j \in 1 .. m, NEW k \in 1 .. m, j < k
      PROVE  d[j].line < d[k].line
  <2>1. p[j] < p[k]
    BY <1>9 DEF ReadAt, m
  <2> QED
    <3>1. /\ p[j] \in DOMAIN file /\ p[k] \in DOMAIN file /\ file[p[j]].part = "end"
          /\ d[j].line = file[p[j]].line /\ d[k].line = file[p[k]].line
      BY <1>6, <1>7
    <3> QED
      BY <2>1, <3>1 DEF LogOrder
<1>10. ASSUME NEW k \in 1 .. m, NEW i \in 1 .. Len(file), i > e \/ e > Len(file)
       PROVE  d[k].line < file[i].line
  <2>1. e <= Len(file)
    <3>1. o < e /\ e \in Nat
      BY <1>1, <1>7
    <3> QED
      BY <1>1, <1>6, <3>1 DEF o
  <2>2. p[k] < i
    BY <1>6, <1>7, <1>10, <2>1
  <2> QED
    BY <1>6, <1>7, <2>2 DEF LogOrder
\* The events that were there.
<1>11. ASSUME NEW k \in 1 .. l
       PROVE  /\ s[k].line \in 1 .. Len(line)
              /\ line[s[k].line].kind = Readers[r]
              /\ open # 0 => s[k].line < open
  BY <1>1, <1>3 DEF GoodRing, l
<1>12. ASSUME NEW k \in 1 .. l, NEW i \in 1 .. Len(file), i > e \/ e > Len(file)
       PROVE  s[k].line < file[i].line
  <2>1. i > o \/ o > Len(file)
    BY <1>1, <1>6, <1>12 DEF o
  <2> QED
    BY <1>3, <2>1 DEF GoodRing, l
<1>13. ASSUME NEW j \in 1 .. l, NEW k \in 1 .. m
       PROVE  s[j].line < d[k].line
  <2>1. s[j].line < file[p[k]].line
    BY <1>3, <1>7 DEF GoodRing, l
  <2> QED
    BY <1>7, <2>1
<1>14. ASSUME NEW j \in 1 .. l, NEW k \in 1 .. l, j < k
       PROVE  s[j].line < s[k].line
  BY <1>3, <1>14 DEF GoodRing, l
<1>15. GoodRing(v, r, e)
  <2>1. ASSUME NEW k \in 1 .. Len(v)
        PROVE  /\ v[k].line \in 1 .. Len(line)
               /\ line[v[k].line].kind = Readers[r]
               /\ open # 0 => v[k].line < open
    BY <1>4, <1>5, <1>7, <1>8, <1>11, SMTT(40)
  <2>2. ASSUME NEW j \in 1 .. Len(v), NEW k \in 1 .. Len(v), j < k
        PROVE  v[j].line < v[k].line
    <3>0. j \in 1 .. l + m /\ k \in 1 .. l + m
      BY <1>4
    <3>1. CASE k \in 1 .. l /\ v[k] = s[k]
      <4>1. j \in 1 .. l /\ v[j] = s[j]
        BY <1>1, <1>4, <2>2, <3>0, <3>1
      <4> QED
        BY <1>14, <2>2, <3>1, <4>1
    <3>2. CASE k - l \in 1 .. m /\ v[k] = d[k - l]
      <4>1. CASE j \in 1 .. l /\ v[j] = s[j]
        BY <1>13, <3>2, <4>1
      <4>2. CASE j - l \in 1 .. m /\ v[j] = d[j - l]
        <5>1. j - l < k - l
          BY <1>1, <2>2, <3>0
        <5> QED
          BY <1>9, <3>2, <4>2, <5>1
      <4> QED
        BY <1>5, <3>0, <4>1, <4>2
    <3> QED
      BY <1>5, <3>0, <3>1, <3>2
  <2>3. ASSUME NEW k \in 1 .. Len(v), NEW i \in 1 .. Len(file), i > e \/ e > Len(file)
        PROVE  v[k].line < file[i].line
    BY <1>4, <1>5, <1>10, <1>12, <2>3
  <2> QED
    BY <2>1, <2>2, <2>3 DEF GoodRing
<1> QED
  BY <1>15 DEF v, s, d

\* Cutting a ring drops the oldest events only.
LEMMA CutRing ==
    ASSUME NEW v \in Seq(Event), NEW r, NEW o, GoodRing(v, r, o)
    PROVE  GoodRing(LastN(v, MaxEvents), r, o)
<1>1. Len(v) \in Nat /\ MaxEvents \in Nat
  BY LenProperties, EventAssumption
<1>2. PICK l \in Nat : l = IF Len(v) > MaxEvents THEN MaxEvents ELSE Len(v)
  BY <1>1
<1> DEFINE w == LastN(v, MaxEvents)
           g == Len(v) - l
<1>3. w \in Seq(Event) /\ Len(w) = l /\ \A i \in 1 .. l : w[i] = v[Len(v) - l + i]
  BY <1>1, <1>2, LastNOf
<1> HIDE DEF w
<1>4. l <= MaxEvents /\ g \in Nat /\ \A i \in 1 .. l : g + i \in 1 .. Len(v)
  BY <1>1, <1>2
<1>5. \A i \in 1 .. l : w[i] = v[g + i]
  BY <1>3
<1> HIDE DEF g
<1>6. \A j, k \in 1 .. l : j < k => g + j < g + k
  BY <1>4
<1>7. GoodRing(w, r, o)
  <2>1. ASSUME NEW k \in 1 .. l
        PROVE  /\ w[k].line \in 1 .. Len(line)
               /\ line[w[k].line].kind = Readers[r]
               /\ open # 0 => w[k].line < open
    BY <1>4, <1>5 DEF GoodRing
  <2>2. ASSUME NEW j \in 1 .. l, NEW k \in 1 .. l, j < k
        PROVE  w[j].line < w[k].line
    BY <1>4, <1>5, <1>6, <2>2 DEF GoodRing
  <2>3. ASSUME NEW k \in 1 .. l, NEW i \in 1 .. Len(file), i > o \/ o > Len(file)
        PROVE  w[k].line < file[i].line
    BY <1>4, <1>5, <2>3 DEF GoodRing
  <2> QED
    BY <1>3, <2>1, <2>2, <2>3 DEF GoodRing
<1> QED
  BY <1>7 DEF w

LEMMA CutType ==
    ASSUME NEW v \in Seq(Event)
    PROVE  LastN(v, MaxEvents) \in Seq(Event) /\ Len(LastN(v, MaxEvents)) <= MaxEvents
<1>1. Len(v) \in Nat /\ MaxEvents \in Nat
  BY LenProperties, EventAssumption
<1>2. PICK l \in Nat : l = IF Len(v) > MaxEvents THEN MaxEvents ELSE Len(v)
  BY <1>1
<1>3. LastN(v, MaxEvents) \in Seq(Event) /\ Len(LastN(v, MaxEvents)) = l
  BY <1>1, <1>2, LastNOf
<1> QED
  BY <1>1, <1>2, <1>3

LEMMA LinesOfSeq ==
    ASSUME NEW s \in Seq(Event)
    PROVE  /\ LinesOf(s) \in Seq(1 .. MaxLines) /\ Len(LinesOf(s)) = Len(s)
           /\ \A k \in 1 .. Len(s) : LinesOf(s)[k] = s[k].line
<1>1. Len(s) \in Nat /\ DOMAIN s = 1 .. Len(s)
  BY LenProperties
<1>2. \A k \in 1 .. Len(s) : s[k] \in Event
  BY ElementOfSeq
<1>3. \A k \in 1 .. Len(s) : s[k].line \in 1 .. MaxLines
  BY <1>2 DEF Event
<1>4. LinesOf(s) \in [1 .. Len(s) -> 1 .. MaxLines]
  BY <1>1, <1>3 DEF LinesOf
<1>5. LinesOf(s) \in Seq(1 .. MaxLines) /\ Len(LinesOf(s)) = Len(s)
  BY <1>1, <1>4, FunctionIsSeq
<1> QED
  BY <1>1, <1>5 DEF LinesOf

\* The lines of a ring that is extended and cut.
LEMMA LinesExtended ==
    ASSUME NEW s \in Seq(Event), NEW ids \in Seq(1 .. MaxLines),
           NEW stamps \in [DOMAIN ids -> Times]
    PROVE  LinesOf(s \o Dated(ids, stamps)) = LinesOf(s) \o ids
<1> DEFINE d == Dated(ids, stamps)
           v == s \o d
           x == LinesOf(v)
           f == LinesOf(s)
           y == f \o ids
<1>1. /\ d \in Seq(Event) /\ Len(d) = Len(ids)
      /\ \A k \in 1 .. Len(ids) : d[k].line = ids[k]
  BY DatedOf
<1> HIDE DEF d
<1>2. /\ v \in Seq(Event) /\ Len(v) = Len(s) + Len(d)
      /\ \A k \in 1 .. Len(s) + Len(d) : v[k] = IF k <= Len(s) THEN s[k] ELSE d[k - Len(s)]
  BY <1>1, ConcatProperties, ZenonT(40)
<1> HIDE DEF v
<1>3. x \in Seq(1 .. MaxLines) /\ Len(x) = Len(v) /\ \A k \in 1 .. Len(v) : x[k] = v[k].line
  BY <1>2, LinesOfSeq
<1>4. f \in Seq(1 .. MaxLines) /\ Len(f) = Len(s) /\ \A k \in 1 .. Len(s) : f[k] = s[k].line
  BY LinesOfSeq
<1> HIDE DEF f
<1>5. /\ y \in Seq(1 .. MaxLines) /\ Len(y) = Len(f) + Len(ids)
      /\ \A k \in 1 .. Len(f) + Len(ids) : y[k] = IF k <= Len(f) THEN f[k] ELSE ids[k - Len(f)]
  <2>1. f \in Seq(1 .. MaxLines)
    BY <1>4
  <2> QED
    BY <2>1, ConcatProperties
<1> HIDE DEF x, y
<1>6. Len(s) \in Nat /\ Len(ids) \in Nat
  BY LenProperties
<1>7. ASSUME NEW k \in 1 .. Len(s) + Len(ids) PROVE x[k] = y[k]
  <2>1. x[k] = v[k].line
    BY <1>1, <1>2, <1>3
  <2>2. CASE k <= Len(s)
    <3>1. v[k] = s[k] /\ y[k] = f[k] /\ k \in 1 .. Len(s)
      BY <1>1, <1>2, <1>4, <1>5, <1>6, <2>2
    <3> QED
      BY <1>4, <2>1, <3>1
  <2>3. CASE ~(k <= Len(s))
    <3>1. v[k] = d[k - Len(s)] /\ y[k] = ids[k - Len(s)] /\ k - Len(s) \in 1 .. Len(ids)
      BY <1>1, <1>2, <1>4, <1>5, <1>6, <2>3
    <3> QED
      BY <1>1, <2>1, <3>1
  <2> QED
    BY <2>2, <2>3
<1>8. Len(x) = Len(s) + Len(ids)
  BY <1>1, <1>2, <1>3
<1>9. x = y
  BY <1>3, <1>4, <1>5, <1>7, <1>8, SeqEqual
<1> QED
  BY <1>9 DEF x, y, v, d, f

LEMMA LinesCut ==
    ASSUME NEW s \in Seq(Event), NEW n \in Nat
    PROVE  LinesOf(LastN(s, n)) = LastN(LinesOf(s), n)
<1>1. Len(s) \in Nat
  BY LenProperties
<1>2. PICK l \in Nat : l = IF Len(s) > n THEN n ELSE Len(s)
  BY <1>1
<1> DEFINE c == LastN(s, n)
           x == LinesOf(c)
           f == LinesOf(s)
           y == LastN(f, n)
<1>3. c \in Seq(Event) /\ Len(c) = l /\ \A i \in 1 .. l : c[i] = s[Len(s) - l + i]
  BY <1>2, LastNOf
<1> HIDE DEF c
<1>4. x \in Seq(1 .. MaxLines) /\ Len(x) = Len(c) /\ \A k \in 1 .. Len(c) : x[k] = c[k].line
  BY <1>3, LinesOfSeq
<1>5. f \in Seq(1 .. MaxLines) /\ Len(f) = Len(s) /\ \A k \in 1 .. Len(s) : f[k] = s[k].line
  BY LinesOfSeq
<1> HIDE DEF x, f
<1>6. l = IF Len(f) > n THEN n ELSE Len(f)
  BY <1>2, <1>5
<1>7. y \in Seq(1 .. MaxLines) /\ Len(y) = l /\ \A i \in 1 .. l : y[i] = f[Len(f) - l + i]
  <2>1. f \in Seq(1 .. MaxLines)
    BY <1>5
  <2> QED
    BY <2>1, <1>6, LastNOf, ZenonT(40)
<1> HIDE DEF y
<1>8. ASSUME NEW i \in 1 .. l PROVE x[i] = y[i]
  <2> DEFINE j == Len(s) - l + i
  <2>1. j \in 1 .. Len(s)
    BY <1>1, <1>2
  <2>2. x[i] = c[i].line /\ c[i] = s[j]
    BY <1>3, <1>4
  <2>3. y[i] = f[j]
    BY <1>5, <1>7
  <2> QED
    BY <1>5, <2>1, <2>2, <2>3
<1>9. Len(x) = l
  BY <1>3, <1>4
<1>10. x = y
  BY <1>4, <1>7, <1>8, <1>9, SeqEqual
<1> QED
  BY <1>10 DEF x, y, c, f

\* A reader of a kind has come to offset o of the log f, behind a newline, and its
\* events s are the most recent ones before it.
TailAt(f, kind, o, s) ==
    /\ o \in 0 .. Len(f)
    /\ o > 0 => f[o].part = "end"
    /\ LinesOf(s) = LastN(Parsed(SubSeq(f, 1, o), kind), MaxEvents)

\* That is so again after a poll.
LEMMA TailRead ==
    ASSUME NEW f \in Seq(Units), NEW kind, NEW o, NEW s \in Seq(Event),
           TailAt(f, kind, o, s), NEW b, b = SubSeq(f, o + 1, Len(f)),
           NEW stamps \in [DOMAIN Parsed(b, kind) -> Times]
    PROVE  TailAt(f, kind, o + AfterLastNewline(b),
                  LastN(s \o Dated(Parsed(b, kind), stamps), MaxEvents))
<1>0. /\ o \in 0 .. Len(f) /\ (o > 0 => f[o].part = "end")
      /\ LinesOf(s) = LastN(Parsed(SubSeq(f, 1, o), kind), MaxEvents)
  BY DEF TailAt
<1>1. Len(f) \in Nat /\ MaxEvents \in Nat
  BY LenProperties, EventAssumption
<1>2. b \in Seq(Units) /\ Len(b) = Len(f) - o /\ \A i \in 1 .. Len(f) - o : b[i] = f[o + i]
  <2>1. Len(f) \in o .. Len(f)
    BY <1>0, <1>1
  <2> QED
    BY <1>0, <2>1, Slice
<1> DEFINE a == AfterLastNewline(b)
           e == o + a
<1>3. /\ a \in 0 .. Len(b)
      /\ a > 0 => b[a].part = "end"
      /\ \A i \in a + 1 .. Len(b) : b[i].part # "end"
  BY <1>2, LastNewline
<1> HIDE DEF a, e
<1>4. e = o + a
  BY DEF e
<1>5. e \in o .. Len(f)
  BY <1>0, <1>1, <1>2, <1>3, <1>4
<1>6. e > 0 => f[e].part = "end"
  <2>1. CASE a = 0
    BY <1>0, <1>1, <1>4, <2>1
  <2>2. CASE a # 0
    <3>1. a \in 1 .. Len(f) - o /\ a > 0
      BY <1>0, <1>1, <1>2, <1>3, <2>2
    <3> QED
      BY <1>2, <1>3, <1>4, <3>1
  <2> QED
    BY <2>1, <2>2
<1>7. ASSUME NEW i \in e + 1 .. Len(f) PROVE f[i].part # "end"
  <2>1. i - o \in a + 1 .. Len(b) /\ i - o \in 1 .. Len(f) - o /\ o + (i - o) = i
    BY <1>0, <1>1, <1>2, <1>3, <1>4
  <2> QED
    BY <1>2, <1>3, <2>1
<1> DEFINE P == Parsed(SubSeq(f, 1, o), kind)
           Q == Parsed(b, kind)
           R == Parsed(SubSeq(f, 1, e), kind)
<1>8. R = P \o Q
  BY <1>0, <1>5, <1>7, ParsedJoin
<1>9. P \in Seq(1 .. MaxLines)
  <2>1. SubSeq(f, 1, o) \in Seq(Units)
    BY <1>0, Prefix
  <2> QED
    BY <2>1, ParsedType
<1>10. Q \in Seq(1 .. MaxLines)
  BY <1>2, ParsedType
<1>0b. stamps \in [DOMAIN Q -> Times]
  OBVIOUS
<1> HIDE DEF P, Q, R
<1>11. s \o Dated(Q, stamps) \in Seq(Event)
  BY <1>0b, <1>10, DatedOf, ConcatProperties
<1>12. LinesOf(LastN(s \o Dated(Q, stamps), MaxEvents)) = LastN(LinesOf(s \o Dated(Q, stamps)), MaxEvents)
  BY <1>1, <1>11, LinesCut
<1>13. LinesOf(s \o Dated(Q, stamps)) = LastN(P, MaxEvents) \o Q
  BY <1>0, <1>0b, <1>10, LinesExtended DEF P
<1>14. LastN(LastN(P, MaxEvents) \o Q, MaxEvents) = LastN(P \o Q, MaxEvents)
  BY <1>1, <1>9, <1>10, LastNTwice
<1>15. LinesOf(LastN(s \o Dated(Q, stamps), MaxEvents)) = LastN(R, MaxEvents)
  BY <1>8, <1>12, <1>13, <1>14
<1>16. e \in 0 .. Len(f)
  BY <1>0, <1>1, <1>5
<1> QED
  BY <1>6, <1>15, <1>16 DEF TailAt, Q, R, e, a

-----------------------------------------------------------------------------
(* What is only appended to keeps what was read. *)

\* The log and the history of lines are appended to, or stay.
LogGrows ==
    /\ Len(line') \in Nat /\ Len(line) <= Len(line')
    /\ \A n \in 1 .. Len(line) : line'[n] = line[n]
    /\ file' \in Seq(Units)
    /\ Len(file) <= Len(file') /\ \A i \in 1 .. Len(file) : file'[i] = file[i]

\* Lines written later do not change what is parsed in a part of the log.
LEMMA ParsedKept ==
    ASSUME NEW c \in Seq(Units), NEW kind, Types,
           \A i \in 1 .. Len(c) : c[i].line \in 1 .. Len(line),
           \A n \in 1 .. Len(line) : line'[n] = line[n]
    PROVE  Parsed(c, kind)' = Parsed(c, kind)
<1>1. DOMAIN c = 1 .. Len(c)
  BY LenProperties
<1>2. \A i \in 1 .. Len(c) : line'[c[i].line] = line[c[i].line]
  OBVIOUS
<1>3. Hits(c, kind)' = Hits(c, kind)
  BY <1>1, <1>2 DEF Hits, Complete
<1> QED
  BY <1>3 DEF Parsed

LEMMA TailStays ==
    ASSUME Types, LogOrder, AtNewline, RingIsTail, LogGrows,
           whole' = whole, ring' = ring, offset' = offset
    PROVE  AtNewline' /\ RingIsTail'
<1> SUFFICES ASSUME whole', NEW r \in 1 .. 2
             PROVE  /\ offset'[r] <= Len(file')
                    /\ offset'[r] > 0 => file'[offset'[r]].part = "end"
                    /\ (LinesOf(ring[r]) =
                         LastN(Parsed(SubSeq(file, 1, offset[r]), Readers[r]), MaxEvents))'
  BY DEF AtNewline, RingIsTail
<1>1. /\ file \in Seq(Units) /\ offset[r] \in Nat /\ Len(file) \in Nat
      /\ DOMAIN file = 1 .. Len(file) /\ Len(file') \in Nat
  BY LenProperties DEF Types, TypeOK, LogGrows
<1>2. offset[r] \in 0 .. Len(file) /\ (offset[r] > 0 => file[offset[r]].part = "end")
  BY <1>1 DEF AtNewline
<1>3. offset'[r] <= Len(file') /\ (offset'[r] > 0 => file'[offset'[r]].part = "end")
  BY <1>1, <1>2 DEF LogGrows
<1>4. PICK c : c = SubSeq(file, 1, offset[r])
  OBVIOUS
<1>5. c \in Seq(Units) /\ Len(c) = offset[r] /\ \A i \in 1 .. offset[r] : c[i] = file[i]
  BY <1>1, <1>2, <1>4, Prefix
<1>6. c = SubSeq(file', 1, offset'[r])
  <2> DEFINE d == SubSeq(file', 1, offset[r])
  <2>1. offset[r] \in 0 .. Len(file')
    BY <1>1, <1>2 DEF LogGrows
  <2>2. d \in Seq(Units) /\ Len(d) = offset[r] /\ \A i \in 1 .. offset[r] : d[i] = file'[i]
    BY <2>1, Prefix DEF LogGrows
  <2> HIDE DEF d
  <2>3. \A i \in 1 .. offset[r] : c[i] = d[i]
    BY <1>1, <1>2, <1>5, <2>2 DEF LogGrows
  <2>4. c = d
    BY <1>5, <2>2, <2>3, SeqEqual
  <2> QED
    BY <2>4 DEF d
<1>7. \A i \in 1 .. Len(c) : c[i].line \in 1 .. Len(line)
  BY <1>1, <1>2, <1>5 DEF LogOrder
<1>8. Parsed(c, Readers[r])' = Parsed(c, Readers[r])
  BY <1>5, <1>7, ParsedKept DEF LogGrows
<1>9. LinesOf(ring[r]) = LastN(Parsed(c, Readers[r]), MaxEvents)
  BY <1>4 DEF RingIsTail
<1>10. (LinesOf(ring[r]) = LastN(Parsed(SubSeq(file, 1, offset[r]), Readers[r]), MaxEvents))'
  <2>1. Parsed(SubSeq(file, 1, offset[r]), Readers[r])' = Parsed(c, Readers[r])'
    BY <1>6 DEF Parsed, Hits
  <2> QED
    BY <1>8, <1>9, <2>1
<1> QED
  BY <1>3, <1>10

LEMMA AnswerStays ==
    ASSUME Types, AnswerOnce, LogGrows, events' = events, trimmed' = trimmed
    PROVE  AnswerOnce'
<1> SUFFICES ASSUME ~trimmed PROVE AnswerOnce'
  BY DEF AnswerOnce
<1>1. Len(line) \in Nat /\ Len(line') \in Nat /\ Len(line) <= Len(line')
  BY LenProperties DEF Types, TypeOK, LogGrows
<1>2. \A k \in DOMAIN events : /\ events[k].line \in 1 .. Len(line)
                              /\ line'[events[k].line] = line[events[k].line]
  BY DEF AnswerOnce, LogGrows
<1>3. \A k \in DOMAIN events : events[k].line \in 1 .. Len(line')
  BY <1>1, <1>2
<1>4. \A i, j \in DOMAIN events :
         i < j => \/ events[i].line < events[j].line
                 \/ /\ events[i].line # events[j].line
                    /\ \/ line'[events[i].line].kind # line'[events[j].line].kind
                       \/ events[i].observed_at < events[j].observed_at
  BY <1>2 DEF AnswerOnce
<1> QED
  BY <1>3, <1>4 DEF AnswerOnce

\* A unit u is appended to the log, and the line it belongs to may be new.
LEMMA AppendKeeps ==
    ASSUME Inv, NEW u \in Units, file' = Append(file, u), line' \in Seq([kind: Kinds, device: Devices]),
           Len(line) <= Len(line'), Len(line') <= MaxLines,
           \A n \in 1 .. Len(line) : line'[n] = line[n],
           exists', exists' \in BOOLEAN, open' \in 0 .. MaxLines, open' \in {0, Len(line')},
           u.line = Len(line'), Len(line') >= 1,
           open # 0 => line' = line,
           open = 0 => Len(line') = Len(line) + 1,
           open' # 0 => u.part = "head",
           UNCHANGED <<faultVars, readerVars, callVars>>
    PROVE  Inv'
<1>1. /\ file \in Seq(Units) /\ Len(file) \in Nat /\ DOMAIN file = 1 .. Len(file)
      /\ Len(line) \in Nat /\ Len(line') \in Nat
  BY LenProperties DEF Inv, Types, TypeOK
<1>2. /\ file' \in Seq(Units) /\ Len(file') = Len(file) + 1
      /\ \A i \in 1 .. Len(file) : file'[i] = file[i]
      /\ file'[Len(file) + 1] = u
      /\ DOMAIN file' = 1 .. Len(file) + 1
  BY <1>1, AppendProperties, LenProperties
<1>3. LogGrows
  BY <1>1, <1>2 DEF LogGrows
<1>4. Types'
  BY <1>2 DEF Inv, Types, TypeOK, faultVars, readerVars, callVars
<1>5. ASSUME NEW i \in 1 .. Len(file)
      PROVE  /\ file[i].line \in 1 .. Len(line)
             /\ file[i].part = "end" => file[i].line < u.line
             /\ file[i].line <= u.line
  <2>1. file[i].line \in 1 .. Len(line) /\ (open # 0 /\ file[i].part = "end" => file[i].line < open)
    BY <1>1 DEF Inv, LogOrder
  <2>2. open # 0 => open = Len(line) /\ Len(line') = Len(line)
    BY DEF Inv, LogOrder
  <2> QED
    BY <1>1, <2>1, <2>2
<1>6. LogOrder'
  <2>1. ASSUME NEW i \in 1 .. Len(file) + 1 PROVE file'[i].line \in 1 .. Len(line')
    <3>1. CASE i \in 1 .. Len(file)
      BY <1>1, <1>2, <1>5, <3>1
    <3>2. CASE i = Len(file) + 1
      BY <1>1, <1>2, <3>2
    <3> QED
      BY <1>1, <3>1, <3>2
  <2>2. ASSUME NEW i \in 1 .. Len(file) + 1, NEW j \in 1 .. Len(file) + 1, i < j
        PROVE  /\ file'[i].line <= file'[j].line
               /\ file'[i].part = "end" => file'[i].line < file'[j].line
    <3>1. i \in 1 .. Len(file) /\ file'[i] = file[i]
      BY <1>1, <1>2, <2>2
    <3>2. CASE j \in 1 .. Len(file)
      BY <1>1, <1>2, <2>2, <3>1, <3>2 DEF Inv, LogOrder
    <3>3. CASE j = Len(file) + 1
      BY <1>2, <1>5, <3>1, <3>3
    <3> QED
      BY <1>1, <3>2, <3>3
  <2>3. ASSUME open' # 0, NEW i \in 1 .. Len(file) + 1, file'[i].part = "end"
        PROVE  file'[i].line < open'
    <3>1. i \in 1 .. Len(file) /\ file'[i] = file[i]
      BY <1>1, <1>2, <2>3
    <3> QED
      BY <1>5, <2>3, <3>1
  <2> QED
    BY <1>2, <2>1, <2>2, <2>3 DEF LogOrder
<1>7. GoodRings'
  <2> SUFFICES ASSUME ~trimmed, NEW r \in 1 .. 2 PROVE GoodRing(ring[r], r, offset[r])'
    BY DEF GoodRings, faultVars
  <2> DEFINE s == ring[r]
  <2>2. GoodRing(s, r, offset[r]) /\ offset[r] \in Nat
    BY DEF Inv, GoodRings, Types, TypeOK
  <2> HIDE DEF s
  <2>3. ASSUME NEW k \in 1 .. Len(s)
        PROVE  /\ s[k].line \in 1 .. Len(line)
               /\ line[s[k].line].kind = Readers[r]
               /\ open # 0 => s[k].line < open
               /\ line'[s[k].line] = line[s[k].line]
               /\ s[k].line < u.line
    <3>1. /\ s[k].line \in 1 .. Len(line)
          /\ line[s[k].line].kind = Readers[r]
          /\ open # 0 => s[k].line < open
      BY <2>2 DEF GoodRing
    <3>2. open # 0 => open = Len(line) /\ Len(line') = Len(line)
      BY DEF Inv, LogOrder
    <3> QED
      BY <1>1, <3>1, <3>2
  <2>4. ASSUME NEW k \in 1 .. Len(s), NEW i \in 1 .. Len(file) + 1,
               i > offset[r] \/ offset[r] > Len(file) + 1
        PROVE  s[k].line < file'[i].line
    <3>1. CASE i \in 1 .. Len(file)
      <4>1. i > offset[r] \/ offset[r] > Len(file)
        BY <1>1, <2>2, <2>4
      <4> QED
        BY <1>2, <2>2, <3>1, <4>1 DEF GoodRing
    <3>2. CASE i = Len(file) + 1
      BY <1>2, <2>3, <3>2
    <3> QED
      BY <1>1, <3>1, <3>2
  <2>5. ASSUME NEW j \in 1 .. Len(s), NEW k \in 1 .. Len(s), j < k
        PROVE  s[j].line < s[k].line
    BY <2>2, <2>5 DEF GoodRing
  <2>6. ASSUME NEW k \in 1 .. Len(s)
        PROVE  s[k].line \in 1 .. Len(line') /\ (open' # 0 => s[k].line < open')
    BY <1>1, <2>3
  <2>7. ring'[r] = s /\ offset'[r] = offset[r]
    BY DEF s, readerVars
  <2> QED
    BY <1>2, <2>3, <2>4, <2>5, <2>6, <2>7 DEF GoodRing
<1>8. AtNewline' /\ RingIsTail' /\ AnswerOnce'
  BY <1>3, TailStays, AnswerStays DEF Inv, faultVars, readerVars, callVars
<1>9. AtReader' /\ WholeIsUncut'
  BY DEF Inv, AtReader, WholeIsUncut, faultVars, callVars
<1> QED
  BY <1>4, <1>6, <1>7, <1>8, <1>9 DEF Inv

LEMMA WriteHeadOK ==
    ASSUME Inv, NEW kind \in Kinds, NEW dev \in Devices, WriteHead(kind, dev)
    PROVE  Inv'
<1> DEFINE n == Len(line) + 1
           u == [line |-> n, part |-> "head"]
<1>1. line \in Seq([kind: Kinds, device: Devices]) /\ Len(line) \in Nat
  BY LenProperties DEF Inv, Types, TypeOK
<1>2. /\ line' \in Seq([kind: Kinds, device: Devices]) /\ Len(line') = n
      /\ \A m \in 1 .. Len(line) : line'[m] = line[m]
  BY <1>1, AppendProperties DEF WriteHead
<1>3. n \in 1 .. MaxLines /\ u \in Units /\ u.line = n /\ u.part = "head"
  BY <1>1, EventAssumption DEF WriteHead, Units
<1>4. file' = Append(file, u) /\ exists' /\ exists' \in BOOLEAN /\ open' = n /\ open = 0
  BY DEF WriteHead
<1>5. UNCHANGED <<faultVars, readerVars, callVars>>
  BY DEF WriteHead
<1> HIDE DEF n, u
<1>6. n = Len(line) + 1
  BY DEF n
<1>7. /\ Len(line) <= Len(line') /\ Len(line') <= MaxLines /\ Len(line') >= 1
      /\ open' \in 0 .. MaxLines /\ open' \in {0, Len(line')} /\ u.line = Len(line')
      /\ open # 0 => line' = line
      /\ open = 0 => Len(line') = Len(line) + 1
      /\ open' # 0 => u.part = "head"
  BY <1>1, <1>2, <1>3, <1>4, <1>6
<1> QED
  BY <1>2, <1>3, <1>4, <1>5, <1>7, AppendKeeps

LEMMA WriteEndOK ==
    ASSUME Inv, WriteEnd
    PROVE  Inv'
<1> DEFINE u == [line |-> open, part |-> "end"]
<1>1. line \in Seq([kind: Kinds, device: Devices]) /\ Len(line) \in Nat /\ line' = line
  BY LenProperties DEF Inv, Types, TypeOK, WriteEnd
<1>2. open = Len(line) /\ open # 0 /\ Len(line) <= MaxLines
  BY DEF Inv, LogOrder, WriteEnd
<1>3. u \in Units /\ u.line = Len(line) /\ Len(line) >= 1
  BY <1>1, <1>2, EventAssumption DEF Units
<1>4. file' = Append(file, u) /\ open' = 0 /\ UNCHANGED <<faultVars, readerVars, callVars>>
  BY DEF WriteEnd
<1> HIDE DEF u
<1>5. exists' /\ exists' \in BOOLEAN
  BY DEF Inv, LogOrder, WriteEnd, Types, TypeOK
<1>6. /\ Len(line) <= Len(line') /\ Len(line') <= MaxLines /\ Len(line') >= 1
      /\ open' \in 0 .. MaxLines /\ open' \in {0, Len(line')} /\ u.line = Len(line')
      /\ open # 0 => line' = line
      /\ open = 0 => Len(line') = Len(line) + 1
      /\ open' # 0 => u.part = "head"
      /\ line' \in Seq([kind: Kinds, device: Devices])
      /\ \A n \in 1 .. Len(line) : line'[n] = line[n]
  BY <1>1, <1>2, <1>3, <1>4, EventAssumption
<1> QED
  BY <1>3, <1>4, <1>5, <1>6, AppendKeeps

\* A step that leaves the log, the rings and the offsets alone.
LEMMA RingsStay ==
    ASSUME Inv, UNCHANGED <<exists, file, line, faultVars, readerVars>>, open' \in {0, open}
    PROVE  LogOrder' /\ GoodRings' /\ WholeIsUncut' /\ AtNewline' /\ RingIsTail'
<1>1. LogGrows
  BY LenProperties DEF Inv, Types, TypeOK, LogGrows
<1>2. LogOrder'
  BY DEF Inv, LogOrder
<1>3. GoodRings'
  BY SMTT(40) DEF Inv, GoodRings, GoodRing, faultVars, readerVars
<1>4. WholeIsUncut'
  BY DEF Inv, WholeIsUncut, faultVars
<1> QED
  BY <1>1, <1>2, <1>3, <1>4, TailStays DEF Inv, faultVars, readerVars

LEMMA CollectorDiesOK ==
    ASSUME Inv, CollectorDies
    PROVE  Inv'
<1>1. UNCHANGED <<exists, file, line, faultVars, readerVars, callVars>> /\ open' = 0
  BY DEF CollectorDies
<1>2. Types'
  BY <1>1, EventAssumption DEF Inv, Types, TypeOK, CollectorDies, faultVars, readerVars, callVars
<1>3. LogGrows
  BY <1>1, LenProperties DEF Inv, Types, TypeOK, LogGrows
<1>4. AnswerOnce'
  BY <1>1, <1>3, AnswerStays DEF Inv, faultVars, callVars
<1>5. AtReader'
  BY <1>1 DEF Inv, AtReader, callVars
<1>6. LogOrder' /\ GoodRings' /\ WholeIsUncut' /\ AtNewline' /\ RingIsTail'
  BY <1>1, RingsStay
<1> QED
  BY <1>2, <1>4, <1>5, <1>6 DEF Inv

\* The log is cut to nothing.
LEMMA EmptiedOK ==
    ASSUME Inv, file' = <<>>, whole' = FALSE, trimmed' = trimmed, line' = line,
           faults' \in 0 .. MaxFaults, open' \in {0, open}, open' # 0 => exists',
           exists' \in BOOLEAN, UNCHANGED <<readerVars, callVars>>
    PROVE  Inv'
<1>1. Len(file') = 0 /\ DOMAIN file' = {} /\ file' \in Seq(Units)
  OBVIOUS
<1>2. Types'
  <2>1. open' \in 0 .. MaxLines
    BY EventAssumption DEF Inv, Types, TypeOK
  <2>2. whole' \in BOOLEAN /\ trimmed' \in BOOLEAN
    BY DEF Inv, Types, TypeOK
  <2> QED
    BY <1>1, <2>1, <2>2 DEF Inv, Types, TypeOK, readerVars, callVars
<1>3. LogOrder'
  BY <1>1 DEF Inv, LogOrder
<1>4. GoodRings'
  BY <1>1, SMTT(40) DEF Inv, GoodRings, GoodRing, readerVars
<1>5. AtReader' /\ WholeIsUncut' /\ AtNewline' /\ RingIsTail' /\ AnswerOnce'
  BY <1>1 DEF Inv, AtReader, WholeIsUncut, AtNewline, RingIsTail, AnswerOnce, readerVars, callVars
<1> QED
  BY <1>2, <1>3, <1>4, <1>5 DEF Inv

LEMMA TrimOK ==
    ASSUME Inv, NEW cut \in DOMAIN file, Trim(cut)
    PROVE  Inv'
<1>1. /\ file \in Seq(Units) /\ Len(file) \in Nat /\ cut \in 1 .. Len(file)
      /\ DOMAIN file = 1 .. Len(file)
  BY LenProperties DEF Inv, Types, TypeOK
<1>2. faults' \in 0 .. MaxFaults /\ whole' = FALSE /\ trimmed' \in BOOLEAN
  BY EventAssumption DEF Inv, Types, TypeOK, Trim
<1>3. /\ exists /\ UNCHANGED <<exists, open, line, readerVars, callVars>>
      /\ file' = SubSeq(file, cut + 1, Len(file)) /\ trimmed' = (trimmed \/ cut < Len(file))
  BY DEF Trim
<1> DEFINE n == Len(file) - cut
<1>4. /\ file' \in Seq(Units) /\ Len(file') = n /\ n \in Nat
      /\ \A i \in 1 .. n : file'[i] = file[cut + i] /\ cut + i \in 1 .. Len(file)
  <2>1. cut \in 0 .. Len(file) /\ Len(file) \in cut .. Len(file)
    BY <1>1
  <2> QED
    BY <1>1, <1>3, <2>1, Slice
<1>5. CASE cut = Len(file)
  <2>1. file' = <<>> /\ trimmed' = trimmed
    <3>1. trimmed \in BOOLEAN
      BY DEF Inv, Types, TypeOK
    <3>2. Len(file') = 0
      BY <1>1, <1>4, <1>5
    <3> QED
      BY <1>1, <1>3, <1>4, <1>5, <3>1, <3>2, EmptySeq
  <2>2. (open' # 0 => exists') /\ exists' \in BOOLEAN /\ open' \in {0, open}
    BY <1>3 DEF Inv, Types, TypeOK
  <2> QED
    BY <1>2, <1>3, <2>1, <2>2, EmptiedOK
<1>6. CASE cut # Len(file)
  <2>0. cut < Len(file)
    BY <1>1, <1>6
  <2>1. trimmed'
    BY <1>3, <2>0
  <2>2. Types'
    <3>1. whole' \in BOOLEAN
      BY <1>2
    <3> QED
      BY <1>2, <1>3, <1>4, <3>1 DEF Inv, Types, TypeOK, readerVars, callVars
  <2>3. LogOrder'
    <3>1. DOMAIN file' = 1 .. n
      BY <1>4, LenProperties
    <3>2. \A i \in 1 .. n : file'[i].line \in 1 .. Len(line)
      BY <1>1, <1>4 DEF Inv, LogOrder
    <3>3. ASSUME NEW i \in 1 .. n, NEW j \in 1 .. n, i < j
          PROVE  /\ file'[i].line <= file'[j].line
                 /\ file'[i].part = "end" => file'[i].line < file'[j].line
      <4>1. cut + i < cut + j
        BY <1>1, <3>3
      <4> QED
        BY <1>1, <1>4, <4>1 DEF Inv, LogOrder
    <3>4. open # 0 => \A i \in 1 .. n : file'[i].part = "end" => file'[i].line < open
      BY <1>1, <1>4 DEF Inv, LogOrder
    <3> QED
      BY <1>3, <3>1, <3>2, <3>3, <3>4 DEF Inv, LogOrder
  <2>4. GoodRings' /\ AnswerOnce' /\ WholeIsUncut' /\ AtNewline' /\ RingIsTail'
    BY <1>2, <2>1 DEF GoodRings, AnswerOnce, WholeIsUncut, AtNewline, RingIsTail
  <2>5. AtReader'
    BY <1>3 DEF Inv, AtReader, callVars
  <2> QED
    BY <2>2, <2>3, <2>4, <2>5 DEF Inv
<1> QED
  BY <1>5, <1>6

LEMMA RemoveOK ==
    ASSUME Inv, Remove
    PROVE  Inv'
<1>1. faults' \in 0 .. MaxFaults
  BY EventAssumption DEF Inv, Types, TypeOK, Remove
<1> QED
  BY <1>1, EmptiedOK DEF Remove

LEMMA BeginOK ==
    ASSUME Inv, NEW dev \in Devices, BeginNoLog(dev) \/ Begin(dev)
    PROVE  Inv'
<1>1. /\ UNCHANGED <<logVars, faultVars, readerVars>>
      /\ device' = dev /\ events' = <<>>
      /\ pc' = pc \/ pc' = [reader |-> 1, at |-> "size"]
  BY DEF BeginNoLog, Begin
<1>2. Types'
  BY <1>1 DEF Inv, Types, TypeOK, logVars, faultVars, readerVars
<1>3. AtReader'
  BY <1>1 DEF Inv, AtReader
<1>4. AnswerOnce'
  BY <1>1 DEF AnswerOnce
<1>5. LogOrder' /\ GoodRings' /\ WholeIsUncut' /\ AtNewline' /\ RingIsTail'
  BY <1>1, RingsStay DEF logVars
<1> QED
  BY <1>2, <1>3, <1>4, <1>5 DEF Inv

LEMMA StutterOK ==
    ASSUME Inv, UNCHANGED vars
    PROVE  Inv'
<1>1. UNCHANGED <<logVars, faultVars, readerVars, callVars>>
  BY DEF vars
<1>2. Types' /\ AtReader' /\ AnswerOnce'
  BY <1>1 DEF Inv, Types, TypeOK, AtReader, AnswerOnce, logVars, faultVars, readerVars, callVars
<1>3. LogOrder' /\ GoodRings' /\ WholeIsUncut' /\ AtNewline' /\ RingIsTail'
  BY <1>1, RingsStay DEF logVars
<1> QED
  BY <1>2, <1>3 DEF Inv

\* After a reader comes the next one, or the merge.
LEMMA NextReaderOK ==
    ASSUME NEW r \in 1 .. 2, NextReader(r)
    PROVE  /\ pc' \in [reader: 0 .. 2, at: {"idle", "size", "read", "merge"}]
           /\ AtReader'
BY DEF NextReader, Readers, AtReader

LEMMA PollSizeOK ==
    ASSUME Inv, PollSize
    PROVE  Inv'
<1> DEFINE r == pc.reader
<1>1. r \in 1 .. 2 /\ UNCHANGED <<logVars, faultVars, ring, device, events>>
  BY DEF Inv, AtReader, PollSize
<1>2. LogGrows
  BY <1>1, LenProperties DEF Inv, Types, TypeOK, LogGrows, logVars
<1>3. /\ pc' \in [reader: 0 .. 2, at: {"idle", "size", "read", "merge"}]
      /\ AtReader'
  <2>1. CASE exists
    <3>1. pc' = [pc EXCEPT !.at = "read"]
      BY <2>1 DEF PollSize
    <3>2. pc \in [reader: 0 .. 2, at: {"idle", "size", "read", "merge"}]
      BY DEF Inv, Types, TypeOK
    <3> QED
      BY <1>1, <3>1, <3>2 DEF AtReader
  <2>2. CASE ~exists
    BY <1>1, <2>2, NextReaderOK DEF PollSize
  <2> QED
    BY <2>1, <2>2
<1>4. /\ Len(file) \in Nat /\ offset \in [1 .. 2 -> Nat]
      /\ offset' = offset \/ (Len(file) < offset[r] /\ offset' = [offset EXCEPT ![r] = 0])
  <2>1. Len(file) \in Nat /\ offset \in [1 .. 2 -> Nat]
    BY LenProperties DEF Inv, Types, TypeOK
  <2>2. offset' = offset \/ offset' = [offset EXCEPT ![r] = CheckedOffset(r)]
    BY DEF PollSize
  <2> QED
    BY <1>1, <2>1, <2>2 DEF CheckedOffset
<1>5. Types'
  <2>1. offset' \in [1 .. 2 -> Nat]
    BY <1>1, <1>4
  <2> QED
    BY <1>1, <1>3, <2>1 DEF Inv, Types, TypeOK, logVars, faultVars
<1>6. LogOrder' /\ WholeIsUncut' /\ AnswerOnce'
  BY <1>1, <1>2, AnswerStays DEF Inv, LogOrder, WholeIsUncut, logVars, faultVars
<1>7. AtNewline' /\ RingIsTail'
  <2>1. CASE whole
    <3>1. offset' = offset
      BY <1>1, <1>4, <2>1 DEF Inv, AtNewline
    <3> QED
      BY <1>1, <1>2, <3>1, TailStays DEF Inv, faultVars
  <2>2. CASE ~whole
    BY <1>1, <2>2 DEF AtNewline, RingIsTail, faultVars
  <2> QED
    BY <2>1, <2>2
<1>8. GoodRings'
  <2> SUFFICES ASSUME ~trimmed, NEW q \in 1 .. 2 PROVE GoodRing(ring[q], q, offset[q])'
    BY <1>1 DEF GoodRings, faultVars
  <2>1. GoodRing(ring[q], q, offset[q])
    BY DEF Inv, GoodRings
  <2>2. offset'[q] = offset[q] \/ (Len(file) < offset[q] /\ offset'[q] = 0)
    BY <1>1, <1>4
  <2>3. \A i \in 1 .. Len(file) : i > offset'[q] \/ offset'[q] > Len(file)
                                    => i > offset[q] \/ offset[q] > Len(file)
    BY <1>4, <2>2
  <2> QED
    BY <1>1, <2>1, <2>3 DEF GoodRing, logVars
<1> QED
  BY <1>3, <1>5, <1>6, <1>7, <1>8 DEF Inv

LEMMA PollReadOK ==
    ASSUME Inv, PollRead
    PROVE  Inv'
<1> DEFINE r == pc.reader
           o == offset[r]
           c == Chunk(r)
           ids == Parsed(c, Readers[r])
           e == o + AfterLastNewline(c)
<1>1. r \in 1 .. 2 /\ UNCHANGED <<logVars, faultVars, device, events>>
  BY DEF Inv, AtReader, PollRead
<1>2a. PICK stamps \in [DOMAIN ids -> Times] :
         ring' = [ring EXCEPT ![r] = LastN(ring[r] \o Dated(ids, stamps), MaxEvents)]
  BY <1>1 DEF PollRead, Chunk, Inv, Types
<1> DEFINE v == ring[r] \o Dated(ids, stamps)
           w == LastN(v, MaxEvents)
<1>2. /\ offset' = [offset EXCEPT ![r] = e]
      /\ ring' = [ring EXCEPT ![r] = w]
      /\ NextReader(r)
  BY <1>2a DEF PollRead, Chunk
<1>3. /\ offset \in [1 .. 2 -> Nat] /\ ring \in [1 .. 2 -> Seq(Event)]
      /\ file \in Seq(Units) /\ Len(file) \in Nat
  BY LenProperties DEF Inv, Types, TypeOK
<1>4. /\ c \in Seq(Units)
      /\ o <= Len(file) => c = SubSeq(file, o + 1, Len(file)) /\ Len(c) = Len(file) - o
      /\ ~(o <= Len(file)) => c = <<>> /\ Len(c) = 0
  BY <1>1, ChunkOf DEF Inv
<1>5. PICK p : ReadAt(ids, p, o, e, Readers[r])
  BY <1>1, NewLines DEF Inv
<1>6. ids \in Seq(1 .. MaxLines)
  BY <1>1, NewLines DEF Inv
<1>7. e \in Nat /\ o \in Nat /\ o <= e /\ (e > Len(file) => e = o)
  <2>1. AfterLastNewline(c) \in 0 .. Len(c)
    BY <1>4, LastNewline
  <2>2. o \in Nat
    BY <1>1, <1>3
  <2> HIDE DEF c, o
  <2>3. CASE o <= Len(file)
    BY <1>3, <1>4, <2>1, <2>2, <2>3
  <2>4. CASE ~(o <= Len(file))
    BY <1>3, <1>4, <2>1, <2>2, <2>4
  <2> QED
    BY <2>3, <2>4
<1>8. v \in Seq(Event)
  <2>1. stamps \in [DOMAIN ids -> Times] /\ ring[r] \in Seq(Event)
    BY <1>1, <1>3
  <2> HIDE DEF ids
  <2> QED
    BY <1>6, <2>1, DatedOf, ConcatProperties
<1>9. w \in Seq(Event) /\ Len(w) <= MaxEvents
  <2> HIDE DEF v
  <2> QED
    BY <1>8, CutType
<1>10. ~trimmed => GoodRing(w, r, e)
  <2> SUFFICES ASSUME ~trimmed PROVE GoodRing(w, r, e)
    OBVIOUS
  <2>0. stamps \in [DOMAIN ids -> Times]
    OBVIOUS
  <2>1. GoodRing(v, r, e)
    <3> HIDE DEF ids, e
    <3> QED
      BY <1>1, <1>5, <1>6, <1>7, <2>0, Extended DEF Inv
  <2> HIDE DEF v, e, ids
  <2> QED
    BY <1>8, <2>1, CutRing
<1> HIDE DEF ids, e, v, w, c, o
<1>11. /\ ring'[r] = w /\ offset'[r] = e
       /\ \A q \in 1 .. 2 : q # r => ring'[q] = ring[q] /\ offset'[q] = offset[q]
  BY <1>1, <1>2, <1>3
<1>12. Types' /\ AtReader'
  <2>1. /\ pc' \in [reader: 0 .. 2, at: {"idle", "size", "read", "merge"}]
        /\ AtReader'
    BY <1>1, <1>2, NextReaderOK
  <2>2. offset' \in [1 .. 2 -> Nat] /\ ring' \in [1 .. 2 -> Seq(Event)]
    BY <1>1, <1>2, <1>3, <1>7, <1>9
  <2>3. \A q \in 1 .. 2 : ring'[q] \in Seq(Event) /\ Len(ring'[q]) <= MaxEvents
    BY <1>9, <1>11 DEF Inv, Types, TypeOK
  <2> QED
    BY <1>1, <2>1, <2>2, <2>3 DEF Inv, Types, TypeOK, logVars, faultVars
<1>13. LogOrder' /\ AnswerOnce'
  <2>1. LogGrows
    BY <1>1, LenProperties DEF Inv, Types, TypeOK, LogGrows, logVars
  <2> QED
    BY <1>1, <2>1, AnswerStays DEF Inv, LogOrder, logVars, faultVars
<1>15. GoodRings'
  <2> SUFFICES ASSUME ~trimmed, NEW q \in 1 .. 2 PROVE GoodRing(ring[q], q, offset[q])'
    BY <1>1 DEF GoodRings, faultVars
  <2>1. CASE q = r
    BY <1>1, <1>2, <1>10, <1>11, <2>1, SMTT(40) DEF GoodRing, logVars
  <2>2. CASE q # r
    <3>1. GoodRing(ring[q], q, offset[q])
      BY DEF Inv, GoodRings
    <3> QED
      BY <1>1, <1>11, <2>2, <3>1 DEF GoodRing, logVars
  <2> QED
    BY <2>1, <2>2
<1>16. WholeIsUncut'
  BY <1>1 DEF Inv, WholeIsUncut, faultVars
<1>17. ASSUME whole'
       PROVE  \A q \in 1 .. 2 :
                /\ offset'[q] <= Len(file')
                /\ offset'[q] > 0 => file'[offset'[q]].part = "end"
                /\ LinesOf(ring'[q])
                     = LastN(Parsed(SubSeq(file, 1, offset'[q]), Readers[q]), MaxEvents)
  <2> SUFFICES ASSUME NEW q \in 1 .. 2
               PROVE  /\ offset'[q] <= Len(file')
                      /\ offset'[q] > 0 => file'[offset'[q]].part = "end"
                      /\ LinesOf(ring'[q])
                           = LastN(Parsed(SubSeq(file, 1, offset'[q]), Readers[q]), MaxEvents)
    OBVIOUS
  <2>1. /\ offset[q] <= Len(file)
        /\ offset[q] > 0 => file[offset[q]].part = "end"
        /\ LinesOf(ring[q]) = LastN(Parsed(SubSeq(file, 1, offset[q]), Readers[q]), MaxEvents)
    BY <1>1, <1>17 DEF Inv, AtNewline, RingIsTail, faultVars
  <2>2. CASE q # r
    BY <1>1, <1>11, <2>1, <2>2 DEF logVars
  <2>3. CASE q = r
    <3>1. o \in 0 .. Len(file) /\ (o > 0 => file[o].part = "end") /\ ring[r] \in Seq(Event)
      BY <1>3, <1>7, <2>1, <2>3 DEF o
    <3>2. TailAt(file, Readers[r], o, ring[r])
      BY <2>1, <2>3, <3>1 DEF o, TailAt
    <3>3. c = SubSeq(file, o + 1, Len(file))
      BY <1>4, <3>1
    <3>4. TailAt(file, Readers[r], e, w)
      <4>1. file \in Seq(Units) /\ stamps \in [DOMAIN Parsed(c, Readers[r]) -> Times]
        BY <1>3 DEF ids
      <4>2. TailAt(file, Readers[r], o + AfterLastNewline(c),
                   LastN(ring[r] \o Dated(Parsed(c, Readers[r]), stamps), MaxEvents))
        BY <3>1, <3>2, <3>3, <4>1, TailRead
      <4> QED
        BY <4>2 DEF e, w, v, ids
    <3> QED
      BY <1>1, <1>3, <1>7, <1>11, <2>3, <3>4 DEF logVars, TailAt
  <2> QED
    BY <2>2, <2>3
<1>18. AtNewline' /\ RingIsTail'
  <2>1. AtNewline'
    BY <1>17 DEF AtNewline
  <2>2. RingIsTail'
    BY <1>1, <1>17 DEF RingIsTail, Parsed, Hits, logVars
  <2> QED
    BY <2>1, <2>2
<1> QED
  BY <1>12, <1>13, <1>15, <1>16, <1>18 DEF Inv

LEMMA FoundIn ==
    ASSUME Inv
    PROVE  /\ IsFiniteSet(Found) /\ Found \subseteq (1 .. 2) \X Nat
           /\ \A x \in Found : /\ x[1] \in 1 .. 2 /\ x[2] \in 1 .. Len(ring[x[1]])
                               /\ EventAt(x) \in Event /\ EventAt(x).observed_at \in Nat
<1>1. \A q \in 1 .. 2 : ring[q] \in Seq(Event) /\ DOMAIN ring[q] = 1 .. Len(ring[q])
  BY LenProperties DEF Inv, Types, TypeOK
<1> DEFINE A == 1 .. 2
           B == 1 .. MaxEvents
<1>2. MaxEvents \in Nat /\ IsFiniteSet(A) /\ IsFiniteSet(B)
  <2>1. MaxEvents \in Nat
    BY EventAssumption
  <2>2. \A k \in Nat : IsFiniteSet(1 .. k)
    BY FS_Interval
  <2> QED
    BY <2>1, <2>2
<1>3. Found \subseteq A \X B /\ A \X B \subseteq (1 .. 2) \X Nat
  BY <1>2 DEF Found
<1>4. IsFiniteSet(Found)
  <2> HIDE DEF A, B
  <2> QED
    BY <1>2, <1>3, FS_Product, FS_Subset
<1>5. ASSUME NEW x \in Found
      PROVE  /\ x[1] \in 1 .. 2 /\ x[2] \in 1 .. Len(ring[x[1]])
             /\ EventAt(x) \in Event /\ EventAt(x).observed_at \in Nat
  <2>1. x[1] \in 1 .. 2 /\ x[2] \in DOMAIN ring[x[1]]
    BY DEF Found
  <2>2. x[2] \in 1 .. Len(ring[x[1]]) /\ ring[x[1]] \in Seq(Event)
    BY <1>1, <2>1
  <2>3. ring[x[1]][x[2]] \in Event
    BY <2>2, ElementOfSeq
  <2> QED
    BY <2>1, <2>2, <2>3, EventAssumption DEF EventAt, Event
<1> QED
  BY <1>3, <1>4, <1>5

LEMMA MergeOK ==
    ASSUME Inv, Merge
    PROVE  Inv'
<1> DEFINE n == Cardinality(Found)
           b == ByTime(Found)
<1>1. UNCHANGED <<logVars, faultVars, readerVars, device>> /\ pc' = NoCall
  BY DEF Merge
<1>2. /\ n \in Nat /\ b \in [1 .. n -> Found]
      /\ \A i, j \in 1 .. n : i < j => Before(b[i], b[j])
  BY FoundIn, ByTimeOf
<1>3. events' = [k \in 1 .. n |-> EventAt(b[k])]
  BY <1>2 DEF Merge
<1> HIDE DEF n, b
<1>4. \A k \in 1 .. n : b[k] \in Found /\ events'[k] = EventAt(b[k])
  BY <1>2, <1>3
<1>5. events' \in Seq(Event) /\ DOMAIN events' = 1 .. n
  <2>1. events' \in [1 .. n -> Event]
    BY <1>3, <1>4, FoundIn
  <2> QED
    BY <1>2, <2>1, FunctionIsSeq
<1>6. AnswerOnce'
  <2> SUFFICES ASSUME ~trimmed PROVE AnswerOnce'
    BY <1>1 DEF AnswerOnce, faultVars
  <2>1. ASSUME NEW x \in Found
        PROVE  EventAt(x).line \in 1 .. Len(line) /\ line[EventAt(x).line].kind = Readers[x[1]]
    BY FoundIn DEF EventAt, Inv, GoodRings, GoodRing
  <2>2. ASSUME NEW x \in Found, NEW y \in Found, x[1] = y[1]
        PROVE  /\ x[2] < y[2] => EventAt(x).line < EventAt(y).line
               /\ x[2] # y[2] => EventAt(x).line # EventAt(y).line
    <3> DEFINE q == x[1]
    <3>1. /\ q \in 1 .. 2 /\ x[2] \in 1 .. Len(ring[q]) /\ y[2] \in 1 .. Len(ring[q])
          /\ Len(ring[q]) \in Nat
      BY <2>2, FoundIn, LenProperties DEF Inv, Types
    <3>2. \A j, k \in 1 .. Len(ring[q]) : j < k => ring[q][j].line < ring[q][k].line
      BY <3>1 DEF Inv, GoodRings, GoodRing
    <3>3. ring[q][x[2]].line = EventAt(x).line /\ ring[q][y[2]].line = EventAt(y).line
      BY <2>2 DEF EventAt
    <3>4. EventAt(x).line \in Int /\ EventAt(y).line \in Int
      BY <2>1
    <3> HIDE DEF q
    <3>5. x[2] < y[2] \/ x[2] = y[2] \/ y[2] < x[2]
      BY <3>1
    <3> QED
      BY <3>1, <3>2, <3>3, <3>4, <3>5
  <2>3. ASSUME NEW x \in Found, NEW y \in Found, Before(x, y)
        PROVE  \/ EventAt(x).line < EventAt(y).line
               \/ /\ EventAt(x).line # EventAt(y).line
                  /\ \/ line[EventAt(x).line].kind # line[EventAt(y).line].kind
                     \/ EventAt(x).observed_at < EventAt(y).observed_at
    <3>1. CASE x[1] # y[1]
      <4>1. Readers[x[1]] # Readers[y[1]]
        BY <3>1, FoundIn DEF Readers
      <4> QED
        BY <2>1, <4>1
    <3>2. CASE x[1] = y[1]
      <4>1. /\ EventAt(x).observed_at \in Nat /\ EventAt(y).observed_at \in Nat
            /\ x[1] \in Int /\ x[2] \in Int /\ y[2] \in Int
        BY FoundIn
      <4>2. CASE EventAt(x).observed_at < EventAt(y).observed_at
        <5>1. x # y
          BY <4>1, <4>2
        <5>2. x = <<x[1], x[2]>> /\ y = <<y[1], y[2]>>
          BY FoundIn
        <5>3. x[2] # y[2]
          BY <3>2, <5>1, <5>2
        <5> QED
          BY <2>2, <3>2, <4>2, <5>3
      <4>3. CASE ~(EventAt(x).observed_at < EventAt(y).observed_at)
        <5>1. x[2] < y[2]
          BY <2>3, <3>2, <4>1, <4>3 DEF Before, Listed
        <5> QED
          BY <2>2, <3>2, <5>1
      <4> QED
        BY <4>2, <4>3
    <3> QED
      BY <3>1, <3>2
  <2>4. \A k \in 1 .. n : events'[k].line \in 1 .. Len(line)
    BY <1>4, <2>1
  <2>5. ASSUME NEW i \in 1 .. n, NEW j \in 1 .. n, i < j
        PROVE  \/ events'[i].line < events'[j].line
               \/ /\ events'[i].line # events'[j].line
                  /\ \/ line[events'[i].line].kind # line[events'[j].line].kind
                     \/ events'[i].observed_at < events'[j].observed_at
    <3>1. Before(b[i], b[j]) /\ b[i] \in Found /\ b[j] \in Found
      BY <1>2, <1>4, <2>5
    <3> QED
      BY <1>4, <2>3, <3>1
  <2> QED
    BY <1>1, <1>5, <2>4, <2>5 DEF AnswerOnce, logVars
<1>7. Types' /\ AtReader'
  BY <1>1, <1>5 DEF Inv, Types, TypeOK, AtReader, NoCall, logVars, faultVars, readerVars
<1>8. LogOrder' /\ GoodRings' /\ WholeIsUncut' /\ AtNewline' /\ RingIsTail'
  BY <1>1, RingsStay DEF logVars
<1> QED
  BY <1>6, <1>7, <1>8 DEF Inv

\* A reader that has read nothing.
LEMMA NothingRead ==
    ASSUME NEW f \in Seq(Units), NEW kind
    PROVE  LinesOf(<<>>) = LastN(Parsed(SubSeq(f, 1, 0), kind), MaxEvents)
<1>1. SubSeq(f, 1, 0) = <<>>
  BY SubSeqEmpty
<1>2. Through({}, 0, <<>>)
  BY DEF Through
<1>3. Hits(<<>>, kind) = {} /\ <<>> \in Seq(Units)
  BY DEF Hits
<1>4. Parsed(<<>>, kind) = LinesAt(<<>>, 0, <<>>)
  BY <1>2, <1>3, ParsedIs, ZenonT(40)
<1>5. Parsed(<<>>, kind) = <<>>
  BY <1>4 DEF LinesAt
<1>6. LastN(<<>>, MaxEvents) = <<>>
  BY EventAssumption DEF LastN
<1>7. LinesOf(<<>>) = <<>>
  BY DEF LinesOf
<1> QED
  BY <1>1, <1>5, <1>6, <1>7

LEMMA DaemonRestartOK ==
    ASSUME Inv, DaemonRestart
    PROVE  Inv'
<1>1. /\ UNCHANGED <<logVars, device>>
      /\ whole' = TRUE /\ trimmed' = FALSE /\ offset' = EmptyReaders /\ ring' = EmptyRings
      /\ pc' = NoCall /\ events' = <<>>
  BY DEF DaemonRestart
<1>2. \A r \in 1 .. 2 : offset'[r] = 0 /\ ring'[r] = <<>>
  BY <1>1 DEF EmptyReaders, EmptyRings
<1>3. offset' \in [1 .. 2 -> Nat] /\ ring' \in [1 .. 2 -> Seq(Event)]
  BY <1>1 DEF EmptyReaders, EmptyRings
<1>4. Types'
  <2>1. faults' \in 0 .. MaxFaults
    BY EventAssumption DEF Inv, Types, TypeOK, DaemonRestart
  <2>2. whole' \in BOOLEAN /\ trimmed' \in BOOLEAN
    BY <1>1
  <2>3. \A r \in 1 .. 2 : ring'[r] \in Seq(Event) /\ Len(ring'[r]) <= MaxEvents
    <3>1. <<>> \in Seq(Event) /\ Len(<<>>) <= MaxEvents
      BY EventAssumption
    <3> QED
      BY <1>2, <3>1, Zenon
  <2> QED
    BY <1>1, <1>3, <2>1, <2>2, <2>3 DEF Inv, Types, TypeOK, NoCall, logVars
<1>5. LogOrder' /\ AtReader' /\ AnswerOnce'
  BY <1>1 DEF Inv, LogOrder, AtReader, AnswerOnce, NoCall, logVars
<1>6. GoodRings' /\ WholeIsUncut'
  BY <1>1, <1>2 DEF GoodRings, GoodRing, WholeIsUncut
<1>7. AtNewline'
  BY <1>1, <1>2, LenProperties DEF AtNewline, Inv, Types, TypeOK, logVars
<1>8. RingIsTail'
  <2>1. \A r \in 1 .. 2 : LinesOf(ring'[r]) =
          LastN(Parsed(SubSeq(file, 1, offset'[r]), Readers[r]), MaxEvents)
    <3>1. file \in Seq(Units)
      BY DEF Inv, Types, TypeOK
    <3>2. ASSUME NEW r \in 1 .. 2
          PROVE  LinesOf(ring'[r]) =
                   LastN(Parsed(SubSeq(file, 1, offset'[r]), Readers[r]), MaxEvents)
      <4>1. LinesOf(<<>>) = LastN(Parsed(SubSeq(file, 1, 0), Readers[r]), MaxEvents)
        BY <3>1, NothingRead
      <4>2. offset'[r] = 0 /\ ring'[r] = <<>>
        BY <1>2
      <4> QED
        BY <4>1, <4>2, Zenon
    <3> QED
      BY <3>2, Zenon
  <2>2. \A r \in 1 .. 2 : offset'[r] <= Len(file')
    BY <1>1, <1>2, LenProperties DEF Inv, Types, TypeOK, logVars
  <2> QED
    BY <1>1, <2>1, <2>2 DEF RingIsTail, Parsed, Hits, logVars
<1> QED
  BY <1>4, <1>5, <1>6, <1>7, <1>8 DEF Inv

-----------------------------------------------------------------------------
LEMMA InitOK ==
    ASSUME Init
    PROVE  Inv
<1>1. \A r \in 1 .. 2 : offset[r] = 0 /\ ring[r] = <<>>
  BY DEF Init, EmptyReaders, EmptyRings
<1>2. Types
  <2>1. exists \in BOOLEAN /\ whole \in BOOLEAN /\ trimmed \in BOOLEAN
    BY DEF Init
  <2>2. offset \in [1 .. 2 -> Nat] /\ ring \in [1 .. 2 -> Seq(Event)]
    BY DEF Init, EmptyReaders, EmptyRings
  <2>3. \A r \in 1 .. 2 : ring[r] \in Seq(Event) /\ Len(ring[r]) <= MaxEvents
    <3>1. <<>> \in Seq(Event) /\ Len(<<>>) <= MaxEvents
      BY EventAssumption
    <3> QED
      BY <1>1, <3>1, Zenon
  <2>4. /\ file \in Seq(Units) /\ open \in 0 .. MaxLines /\ faults \in 0 .. MaxFaults
        /\ line \in Seq([kind: Kinds, device: Devices])
        /\ pc \in [reader: 0 .. 2, at: {"idle", "size", "read", "merge"}]
        /\ device \in Devices /\ events \in Seq(Event)
    BY EventAssumption DEF Init, NoCall
  <2> QED
    BY <2>1, <2>2, <2>3, <2>4 DEF Types, TypeOK
<1>3. LogOrder /\ AtReader /\ AnswerOnce
  BY EventAssumption DEF Init, LogOrder, AtReader, AnswerOnce, NoCall
<1>4. GoodRings /\ WholeIsUncut
  BY <1>1 DEF Init, GoodRings, GoodRing, WholeIsUncut
<1>5. AtNewline /\ RingIsTail
  <2>1. file \in Seq(Units) /\ Len(file) = 0
    BY DEF Init
  <2>2. \A r \in 1 .. 2 : LinesOf(ring[r]) =
          LastN(Parsed(SubSeq(file, 1, offset[r]), Readers[r]), MaxEvents)
    BY <1>1, <2>1, NothingRead
  <2> QED
    BY <1>1, <2>1, <2>2 DEF AtNewline, RingIsTail
<1> QED
  BY <1>2, <1>3, <1>4, <1>5 DEF Inv

LEMMA StepOK ==
    ASSUME Inv, [Next]_vars
    PROVE  Inv'
<1>1. CASE \E kind \in Kinds, dev \in Devices : WriteHead(kind, dev)
  BY <1>1, WriteHeadOK
<1>2. CASE WriteEnd
  BY <1>2, WriteEndOK
<1>3. CASE CollectorDies
  BY <1>3, CollectorDiesOK
<1>4. CASE (\E cut \in DOMAIN file : Trim(cut)) \/ Remove
  BY <1>4, TrimOK, RemoveOK
<1>5. CASE \E dev \in Devices : BeginNoLog(dev) \/ Begin(dev)
  BY <1>5, BeginOK
<1>6. CASE PollSize
  BY <1>6, PollSizeOK
<1>7. CASE PollRead
  BY <1>7, PollReadOK
<1>8. CASE Merge
  BY <1>8, MergeOK
<1>9. CASE DaemonRestart
  BY <1>9, DaemonRestartOK
<1>10. CASE UNCHANGED vars
  BY <1>10, StutterOK
<1> QED
  BY <1>1, <1>2, <1>3, <1>4, <1>5, <1>6, <1>7, <1>8, <1>9, <1>10 DEF Next

LEMMA Invariance == Spec => []Inv
<1>1. Init => Inv
  BY InitOK
<1>2. Inv /\ [Next]_vars => Inv'
  BY StepOK
<1> QED
  BY <1>1, <1>2, PTL DEF Spec

\* The event service is type correct and a ring never exceeds max_events
\* (TimeoutEventReader.poll, ErrorEventReader.poll), for rings and logs of any
\* size.
THEOREM EventTypes == Spec => []TypeOK
<1>1. Inv => TypeOK
  BY DEF Inv, Types
<1> QED
  BY <1>1, Invariance, PTL

\* Wherever the writes of the collector and the reads of the cursor fall, a reader
\* of a log that is only appended to neither loses nor invents an event: its ring
\* holds the most recent events before its offset (_FileCursor.read_new_lines).
THEOREM NoEventLost == Spec => []RingIsTail
<1>1. Inv => RingIsTail
  BY DEF Inv
<1> QED
  BY <1>1, Invariance, PTL

\* Through truncations, removals and restarts, unless the log is cut to a rest that
\* was read before, no event is reported twice, neither in a ring nor in an answer of
\* get_events; and whatever the clock says, two events of one kind are out of order
\* only if their dates are (_FileCursor.read_new_lines, EbpfEventService.get_events).
THEOREM EventsReportedOnce == Spec => []ReportedOnce
<1>1. Inv => ReportedOnce
  <2> SUFFICES ASSUME Inv, ~trimmed PROVE ReportedOnce
    BY DEF ReportedOnce
  <2>1. \A r \in 1 .. 2 : DOMAIN ring[r] = 1 .. Len(ring[r])
    BY LenProperties DEF Inv, Types, TypeOK
  <2>2. \A r \in 1 .. 2 : \A i, j \in DOMAIN ring[r] :
          i < j => ring[r][i].line < ring[r][j].line
    BY <2>1 DEF Inv, GoodRings, GoodRing
  <2> QED
    BY <2>2 DEF ReportedOnce, Inv, AnswerOnce
<1> QED
  BY <1>1, Invariance, PTL
===============================================================================
