---------------------------- MODULE SecDbProofs ----------------------------
(***************************************************************************)
(* Proofs about security databases, for any signatures of types with one   *)
(* size and any files of them, in databases that keep SORT (Regular):      *)
(* there is one list for each type, in order after a file was parsed, and  *)
(* the lists of lists are to their users a set of signatures.              *)
(*                                                                         *)
(* Sorting rearranges and does what the comparison says, because the       *)
(* comparison of sequences of one length orders them; adding, deleting,    *)
(* merging and realizing then have a meaning as sets.                      *)
(***************************************************************************)
EXTENDS SecDb, FiniteSetTheorems, SequenceTheorems, WellFoundedInduction, TLAPS

-----------------------------------------------------------------------------
(* Numbers                                                                 *)

Below == {mn \in Nat \X Nat : mn[1] < mn[2]}

\* A set of natural numbers has a smallest one.
LEMMA Least ==
    ASSUME NEW S \in SUBSET Nat, S # {}
    PROVE  \E n \in S : \A m \in S : n <= m
<1>1. IsWellFoundedOn(Below, Nat)
    BY NatLessThanWellFounded DEF OpToRel, Below
<1>2. PICK n \in S : \A m \in S : <<m, n>> \notin Below
    BY <1>1, WFMin
<1>3. ASSUME NEW m \in S PROVE n <= m
  <2>1. <<m, n>> \notin Below /\ m \in Nat /\ n \in Nat
    BY <1>2
  <2> QED
    BY <2>1 DEF Below
<1> QED
    BY <1>3

\* What holds for 0 and, with a number, for the next one, holds for all.
LEMMA Induction ==
    ASSUME NEW S, 0 \in S, \A n \in Nat : n \in S => n + 1 \in S
    PROVE  Nat \subseteq S
<1> SUFFICES ASSUME Nat \ S # {} PROVE FALSE
    OBVIOUS
<1>1. PICK n \in Nat \ S : \A m \in Nat \ S : n <= m
    BY Least
<1>2. n # 0 /\ n - 1 \in Nat
    BY <1>1
<1>3. n - 1 \in S
    BY <1>1, <1>2
<1> QED
    BY <1>1, <1>2, <1>3

\* The same up to a bound.
LEMMA InductionTo ==
    ASSUME NEW N \in Nat, NEW S, 0 \in S,
           \A n \in 0 .. (N - 1) : n \in S => n + 1 \in S
    PROVE  0 .. N \subseteq S
<1> DEFINE T == {n \in Nat : n <= N => n \in S}
<1>1. 0 \in T
    OBVIOUS
<1>2. ASSUME NEW n \in Nat, n \in T PROVE n + 1 \in T
    BY <1>2
<1> HIDE DEF T
<1>3. Nat \subseteq T
    BY <1>1, <1>2, Induction
<1> QED
    BY <1>3 DEF T

-----------------------------------------------------------------------------
(* Sorting                                                                 *)

\* R orders the numbers up to n.
Orders(R, n) ==
    /\ \A i, j \in 1 .. n : <<i, j>> \in R \/ <<j, i>> \in R
    /\ \A i, j \in 1 .. n : <<i, j>> \in R /\ <<j, i>> \in R => i = j
    /\ \A i, j, k \in 1 .. n : <<i, j>> \in R /\ <<j, k>> \in R => <<i, k>> \in R

Places(R, n) == [i \in 1 .. n |-> Cardinality({j \in 1 .. n : <<j, i>> \in R})]

\* p rearranges n elements.
Rearranges(p, n) ==
    /\ p \in [1 .. n -> 1 .. n]
    /\ \A i, j \in 1 .. n : p[i] = p[j] => i = j
    /\ \A k \in 1 .. n : \E i \in 1 .. n : p[i] = k

\* The elements that may not stand behind one give it its place.
LEMMA PlacesRight ==
    ASSUME NEW n \in Nat, NEW R, Orders(R, n)
    PROVE  /\ Rearranges(Places(R, n), n)
           /\ \A i, j \in 1 .. n :
                <<i, j>> \in R /\ i # j => Places(R, n)[i] < Places(R, n)[j]
<1> DEFINE B(i) == {j \in 1 .. n : <<j, i>> \in R}
           p == Places(R, n)
<1>1. IsFiniteSet(1 .. n) /\ Cardinality(1 .. n) = n
  <2>1. 1 \in Int /\ n \in Int
    OBVIOUS
  <2>2. Cardinality(1 .. n) = IF 1 > n THEN 0 ELSE n - 1 + 1
    BY <2>1, FS_Interval
  <2> QED
    BY <2>1, <2>2, FS_Interval
<1>2. ASSUME NEW i \in 1 .. n PROVE p[i] = Cardinality(B(i))
    BY DEF Places
<1>3. ASSUME NEW i \in 1 .. n PROVE p[i] \in 1 .. n /\ IsFiniteSet(B(i))
  <2>1. i \in B(i)
    BY DEF Orders
  <2>2. IsFiniteSet(B(i)) /\ Cardinality(B(i)) <= n
    BY <1>1, FS_Subset
  <2>3. Cardinality(B(i)) \in Nat /\ Cardinality(B(i)) # 0
    BY <2>1, <2>2, FS_CardinalityType, FS_EmptySet
  <2> QED
    BY <1>2, <2>2, <2>3
<1>4. ASSUME NEW i \in 1 .. n, NEW j \in 1 .. n, <<i, j>> \in R, i # j
      PROVE  p[i] < p[j]
  <2>1. B(i) \in SUBSET B(j)
    BY <1>4 DEF Orders
  <2>2. B(j) # B(i)
    BY <1>4 DEF Orders
  <2> HIDE DEF B, p
  <2>3. p[i] = Cardinality(B(i)) /\ p[j] = Cardinality(B(j)) /\ IsFiniteSet(B(j))
    BY <1>2, <1>3
  <2>4. p[i] \in Int /\ p[j] \in Int
    BY <1>3
  <2>5. p[i] <= p[j] /\ p[i] # p[j]
    BY <2>1, <2>2, <2>3, FS_Subset
  <2> QED
    BY <2>4, <2>5
<1>5. ASSUME NEW i \in 1 .. n, NEW j \in 1 .. n, p[i] = p[j] PROVE i = j
  <2> HIDE DEF p, B
  <2>1. p[i] \in Int /\ p[j] \in Int
    BY <1>3
  <2>2. <<i, j>> \in R \/ <<j, i>> \in R
    BY DEF Orders
  <2> QED
    BY <1>4, <1>5, <2>1, <2>2
<1>6. p \in [1 .. n -> 1 .. n]
    BY <1>3 DEF Places
<1>7. p \in Injection(1 .. n, 1 .. n)
    BY <1>5, <1>6 DEF Injection, IsInjective
<1>8. p \in Surjection(1 .. n, 1 .. n)
    BY <1>1, <1>7, FS_Injection
<1>9. ASSUME NEW k \in 1 .. n PROVE \E i \in 1 .. n : p[i] = k
    BY <1>8 DEF Surjection
<1> QED
    BY <1>4, <1>5, <1>6, <1>9 DEF Rearranges

\* c compares as a difference of numbers does.
Compares(c, n) ==
    /\ \A i, j \in 1 .. n : c[i][j] \in Int
    /\ \A i, j \in 1 .. n : c[i][j] < 0 <=> c[j][i] > 0
    /\ \A i, j, k \in 1 .. n : c[i][j] <= 0 /\ c[j][k] <= 0 =>
            c[i][k] <= 0 /\ (c[i][k] = 0 => c[i][j] = 0 /\ c[j][k] = 0)

\* Whether i stands before j where x is what the comparison says of them
Under(x, i, j, flags) == IF x = 0 THEN i <= j ELSE Before(x, flags)

\* Standing before goes on over a third element.
LEMMA UnderTransitive ==
    ASSUME NEW c, NEW i \in Int, NEW j \in Int, NEW k \in Int, NEW flags,
           /\ c[i][j] \in Int /\ c[j][k] \in Int /\ c[i][k] \in Int
           /\ c[j][i] \in Int /\ c[k][j] \in Int /\ c[k][i] \in Int,
           /\ c[i][j] < 0 <=> c[j][i] > 0
           /\ c[j][i] < 0 <=> c[i][j] > 0
           /\ c[j][k] < 0 <=> c[k][j] > 0
           /\ c[k][j] < 0 <=> c[j][k] > 0
           /\ c[i][k] < 0 <=> c[k][i] > 0
           /\ c[k][i] < 0 <=> c[i][k] > 0,
           /\ c[i][j] <= 0 /\ c[j][k] <= 0 =>
                c[i][k] <= 0 /\ (c[i][k] = 0 => c[i][j] = 0 /\ c[j][k] = 0)
           /\ c[k][j] <= 0 /\ c[j][i] <= 0 =>
                c[k][i] <= 0 /\ (c[k][i] = 0 => c[k][j] = 0 /\ c[j][i] = 0),
           Under(c[i][j], i, j, flags), Under(c[j][k], j, k, flags)
    PROVE  Under(c[i][k], i, k, flags)
<1> DEFINE ij == c[i][j]
           ji == c[j][i]
           jk == c[j][k]
           kj == c[k][j]
           ik == c[i][k]
           ki == c[k][i]
<1>1. /\ ij \in Int /\ jk \in Int /\ ik \in Int /\ ji \in Int /\ kj \in Int /\ ki \in Int
      /\ ij < 0 <=> ji > 0
      /\ ji < 0 <=> ij > 0
      /\ jk < 0 <=> kj > 0
      /\ kj < 0 <=> jk > 0
      /\ ik < 0 <=> ki > 0
      /\ ki < 0 <=> ik > 0
      /\ ij <= 0 /\ jk <= 0 => ik <= 0 /\ (ik = 0 => ij = 0 /\ jk = 0)
      /\ kj <= 0 /\ ji <= 0 => ki <= 0 /\ (ki = 0 => kj = 0 /\ ji = 0)
      /\ Under(ij, i, j, flags) /\ Under(jk, j, k, flags)
    OBVIOUS
<1> HIDE DEF ij, ji, jk, kj, ik, ki
<1>2. Under(ik, i, k, flags)
  <2>1. CASE "SORT_DESCENDING" \in flags
    BY <1>1, <2>1 DEF Under, Before
  <2>2. CASE "SORT_DESCENDING" \notin flags
    BY <1>1, <2>2 DEF Under, Before
  <2> QED
    BY <2>1, <2>2
<1> QED
    BY <1>2 DEF ik

\* What list_sort returns has the same elements, in the order of the comparison.
LEMMA ListSortRight ==
    ASSUME NEW s, NEW n \in Nat, DOMAIN s = 1 .. n, NEW c, Compares(c, n), NEW flags
    PROVE  \E p : /\ Rearranges(p, n)
                  /\ ListSort(s, c, flags) = [k \in 1 .. n |-> s[p[k]]]
                  /\ \A k, l \in 1 .. n : k < l => Before(c[p[k]][p[l]], flags)
<1> DEFINE under(i, j) == IF c[i][j] = 0 THEN i <= j ELSE Before(c[i][j], flags)
           R == {ij \in (1 .. n) \X (1 .. n) : under(ij[1], ij[2])}
           q == Places(R, n)
           p == [k \in DOMAIN s |-> CHOOSE i \in DOMAIN s :
                    Cardinality({j \in DOMAIN s : under(j, i)}) = k]
<1>1. ASSUME NEW i \in 1 .. n, NEW j \in 1 .. n PROVE <<i, j>> \in R <=> under(i, j)
    OBVIOUS
<1>2. Orders(R, n)
  <2>1. ASSUME NEW i \in 1 .. n, NEW j \in 1 .. n
        PROVE  /\ under(i, j) \/ under(j, i)
               /\ under(i, j) /\ under(j, i) => i = j
    BY DEF Compares, Before
  <2>2. ASSUME NEW i \in 1 .. n, NEW j \in 1 .. n, NEW k \in 1 .. n, under(i, j), under(j, k)
        PROVE  under(i, k)
    <3>1. /\ c[i][j] \in Int /\ c[j][k] \in Int /\ c[i][k] \in Int
          /\ c[j][i] \in Int /\ c[k][j] \in Int /\ c[k][i] \in Int
      BY DEF Compares
    <3>2. /\ c[i][j] < 0 <=> c[j][i] > 0
          /\ c[j][i] < 0 <=> c[i][j] > 0
          /\ c[j][k] < 0 <=> c[k][j] > 0
          /\ c[k][j] < 0 <=> c[j][k] > 0
          /\ c[i][k] < 0 <=> c[k][i] > 0
          /\ c[k][i] < 0 <=> c[i][k] > 0
      BY DEF Compares
    <3>3. /\ c[i][j] <= 0 /\ c[j][k] <= 0 =>
                c[i][k] <= 0 /\ (c[i][k] = 0 => c[i][j] = 0 /\ c[j][k] = 0)
          /\ c[k][j] <= 0 /\ c[j][i] <= 0 =>
                c[k][i] <= 0 /\ (c[k][i] = 0 => c[k][j] = 0 /\ c[j][i] = 0)
      BY DEF Compares
    <3>4. Under(c[i][j], i, j, flags) /\ Under(c[j][k], j, k, flags)
      BY <2>2 DEF Under
    <3>5. i \in Int /\ j \in Int /\ k \in Int
      OBVIOUS
    <3>6. Under(c[i][k], i, k, flags)
      BY <3>1, <3>2, <3>3, <3>4, <3>5, UnderTransitive
    <3> QED
      BY <3>6 DEF Under
  <2> HIDE DEF R, under
  <2> QED
    BY <1>1, <2>1, <2>2 DEF Orders
<1> HIDE DEF R
<1>3. Rearranges(q, n) /\ \A i, j \in 1 .. n : <<i, j>> \in R /\ i # j => q[i] < q[j]
    BY <1>2, PlacesRight
<1>4. ASSUME NEW i \in 1 .. n
      PROVE  q[i] = Cardinality({j \in DOMAIN s : under(j, i)})
  <2>1. {j \in 1 .. n : <<j, i>> \in R} = {j \in DOMAIN s : under(j, i)}
    BY <1>1
  <2> QED
    BY <2>1 DEF Places
<1>5. ASSUME NEW k \in 1 .. n PROVE p[k] \in 1 .. n /\ q[p[k]] = k
  <2>1. PICK i \in 1 .. n : q[i] = k
    BY <1>3 DEF Rearranges
  <2> HIDE DEF q, under
  <2>2. Cardinality({j \in DOMAIN s : under(j, i)}) = k
    BY <1>4, <2>1
  <2>3. p[k] = CHOOSE x \in DOMAIN s : Cardinality({j \in DOMAIN s : under(j, x)}) = k
    OBVIOUS
  <2>4. p[k] \in DOMAIN s /\ Cardinality({j \in DOMAIN s : under(j, p[k])}) = k
    BY <2>2, <2>3
  <2> QED
    BY <1>4, <2>4
<1>7. ListSort(s, c, flags) = [k \in 1 .. n |-> s[p[k]]]
    BY DEF ListSort
<1> HIDE DEF p, q
<1>8. ASSUME NEW k \in 1 .. n, NEW l \in 1 .. n, p[k] = p[l] PROVE k = l
    BY <1>5, <1>8
<1>9. ASSUME NEW k \in 1 .. n PROVE \E i \in 1 .. n : p[i] = k
  <2>1. q[k] \in 1 .. n /\ q[p[q[k]]] = q[k] /\ p[q[k]] \in 1 .. n
    BY <1>3, <1>5 DEF Rearranges
  <2> QED
    BY <1>3, <2>1 DEF Rearranges
<1>10. ASSUME NEW k \in 1 .. n, NEW l \in 1 .. n, k < l PROVE Before(c[p[k]][p[l]], flags)
  <2>1. ~(<<p[l], p[k]>> \in R)
    BY <1>3, <1>5, <1>10
  <2>2. <<p[k], p[l]>> \in R
    BY <1>2, <1>5, <2>1 DEF Orders
  <2>3. under(p[k], p[l]) /\ c[p[k]][p[l]] \in Int
    BY <1>1, <1>5, <2>2 DEF Compares
  <2> QED
    BY <2>3 DEF Before
<1>11. Rearranges(p, n)
    BY <1>5, <1>8, <1>9 DEF Rearranges, p
<1> QED
    BY <1>7, <1>10, <1>11

-----------------------------------------------------------------------------
(* Comparisons                                                             *)

\* k is the first place where a and b differ.
Differ(a, b, k) == a[k] # b[k] /\ \A j \in 1 .. k - 1 : a[j] = b[j]

\* Two sequences of one length differ by what their first difference is.
LEMMA CmpFirst ==
    ASSUME NEW m \in Nat, NEW a \in [1 .. m -> Int], NEW b \in [1 .. m -> Int],
           NEW k \in 1 .. m, Differ(a, b, k)
    PROVE  Cmp(a, b) = a[k] - b[k]
<1> DEFINE d == {i \in DOMAIN a \cap DOMAIN b : a[i] # b[i]}
           first == CHOOSE i \in d : \A j \in d : i <= j
<1>1. k \in d
    BY DEF Differ
<1>2. ASSUME NEW j \in d PROVE k <= j
    BY DEF Differ
<1>3. d \subseteq Int
    OBVIOUS
<1>4. Cmp(a, b) = IF d = {} THEN 0 ELSE a[first] - b[first]
    BY DEF Cmp
<1> HIDE DEF d
<1>5. first \in d /\ \A j \in d : first <= j
    BY <1>1, <1>2
<1> HIDE DEF first
<1>6. k <= first /\ first <= k /\ first \in Int /\ k \in Int
    BY <1>1, <1>2, <1>3, <1>5
<1>7. first = k
    BY <1>6
<1> QED
    BY <1>1, <1>4, <1>7

\* Two sequences of one length are the same or differ first somewhere.
LEMMA CmpIs ==
    ASSUME NEW m \in Nat, NEW a \in [1 .. m -> Int], NEW b \in [1 .. m -> Int]
    PROVE  \/ (\A i \in 1 .. m : a[i] = b[i]) /\ Cmp(a, b) = 0
           \/ \E k \in 1 .. m : Differ(a, b, k) /\ Cmp(a, b) = a[k] - b[k]
<1> DEFINE d == {i \in DOMAIN a \cap DOMAIN b : a[i] # b[i]}
<1>1. d \in SUBSET Nat
    OBVIOUS
<1>2. CASE d = {}
    BY <1>2 DEF Cmp
<1>3. CASE d # {}
  <2>1. PICK k \in d : \A j \in d : k <= j
    BY <1>1, <1>3, Least
  <2>2. k \in 1 .. m /\ a[k] # b[k]
    OBVIOUS
  <2>3. ASSUME NEW j \in 1 .. k - 1 PROVE a[j] = b[j]
    <3>1. j \in 1 .. m /\ ~(k <= j)
      BY <2>2
    <3> QED
      BY <2>1, <3>1
  <2>4. Differ(a, b, k)
    BY <2>2, <2>3 DEF Differ
  <2> QED
    BY <2>2, <2>4, CmpFirst
<1> QED
    BY <1>2, <1>3

\* m numbers
Vec(m) == [1 .. m -> Int]

\* A comparison the other way round has the other sign.
LEMMA CmpSign ==
    ASSUME NEW m \in Nat, NEW a \in Vec(m), NEW b \in Vec(m)
    PROVE  Cmp(a, b) \in Int /\ Cmp(b, a) = 0 - Cmp(a, b)
<1> USE DEF Vec
<1>1. CASE (\A i \in 1 .. m : a[i] = b[i]) /\ Cmp(a, b) = 0
  <2>1. a = b
    BY <1>1
  <2>2. Cmp(b, a) = 0 /\ Cmp(a, b) = 0
    BY <1>1, <2>1
  <2> QED
    BY <2>2
<1>2. CASE \E k \in 1 .. m : Differ(a, b, k) /\ Cmp(a, b) = a[k] - b[k]
  <2>1. PICK k \in 1 .. m : Differ(a, b, k) /\ Cmp(a, b) = a[k] - b[k]
    BY <1>2
  <2>2. Differ(b, a, k)
    BY <2>1 DEF Differ
  <2>3. Cmp(b, a) = b[k] - a[k] /\ a[k] \in Int /\ b[k] \in Int
    BY <2>2, CmpFirst
  <2> QED
    BY <2>1, <2>3
<1> QED
    BY <1>1, <1>2, CmpIs

\* Comparisons go on over a third sequence.
LEMMA CmpTransitive ==
    ASSUME NEW m \in Nat, NEW a \in Vec(m), NEW b \in Vec(m),
           NEW c \in Vec(m), Cmp(a, b) <= 0, Cmp(b, c) <= 0
    PROVE  Cmp(a, c) <= 0 /\ (Cmp(a, c) = 0 => Cmp(a, b) = 0 /\ Cmp(b, c) = 0)
<1> USE DEF Vec
<1>1. CASE \A i \in 1 .. m : a[i] = b[i]
  <2>1. a = b
    BY <1>1
  <2>2. Cmp(a, a) \in Int /\ Cmp(a, a) = 0 - Cmp(a, a)
    BY CmpSign
  <2>3. Cmp(b, c) \in Int
    BY CmpSign
  <2> QED
    BY <2>1, <2>2, <2>3
<1>2. CASE \A i \in 1 .. m : b[i] = c[i]
  <2>1. b = c
    BY <1>2
  <2>2. Cmp(b, b) \in Int /\ Cmp(b, b) = 0 - Cmp(b, b)
    BY CmpSign
  <2>3. Cmp(a, b) \in Int
    BY CmpSign
  <2> QED
    BY <2>1, <2>2, <2>3
<1>3. ASSUME NEW k \in 1 .. m, Differ(a, b, k), Cmp(a, b) = a[k] - b[k],
             NEW l \in 1 .. m, Differ(b, c, l), Cmp(b, c) = b[l] - c[l]
      PROVE  Cmp(a, c) <= 0 /\ Cmp(a, c) # 0
  <2>1. /\ a[k] < b[k] /\ b[l] < c[l]
        /\ a[k] \in Int /\ b[k] \in Int /\ c[k] \in Int
        /\ a[l] \in Int /\ b[l] \in Int /\ c[l] \in Int
    <3>1. /\ a[k] \in Int /\ b[k] \in Int /\ c[k] \in Int
          /\ a[l] \in Int /\ b[l] \in Int /\ c[l] \in Int
      OBVIOUS
    <3>2. a[k] # b[k] /\ b[l] # c[l]
      BY <1>3 DEF Differ
    <3>3. a[k] - b[k] <= 0 /\ b[l] - c[l] <= 0
      BY <1>3
    <3> DEFINE w == a[k]
               x == b[k]
               y == b[l]
               z == c[l]
    <3>4. /\ w \in Int /\ x \in Int /\ y \in Int /\ z \in Int
          /\ w # x /\ y # z /\ w - x <= 0 /\ y - z <= 0
      BY <3>1, <3>2, <3>3
    <3> HIDE DEF w, x, y, z
    <3>5. w < x /\ y < z
      BY <3>4
    <3> QED
      BY <3>1, <3>5 DEF w, x, y, z
  <2>2. CASE k <= l
    <3>1. a[k] < c[k]
      <4>1. k = l \/ b[k] = c[k]
        <5>1. k = l \/ k \in 1 .. l - 1
          BY <2>2
        <5> QED
          BY <1>3, <5>1 DEF Differ
      <4> QED
        BY <2>1, <4>1
    <3>2. \A j \in 1 .. k - 1 : a[j] = c[j]
      BY <1>3, <2>2 DEF Differ
    <3>3. Differ(a, c, k)
      BY <2>1, <3>1, <3>2 DEF Differ
    <3>4. Cmp(a, c) = a[k] - c[k]
      BY <3>3, CmpFirst
    <3> QED
      BY <2>1, <3>1, <3>4
  <2>3. CASE l < k
    <3>1. a[l] < c[l]
      <4>1. a[l] = b[l]
        <5>1. l \in 1 .. k - 1
          BY <2>3
        <5> QED
          BY <1>3, <5>1 DEF Differ
      <4> QED
        BY <2>1, <4>1
    <3>2. \A j \in 1 .. l - 1 : a[j] = c[j]
      BY <1>3, <2>3 DEF Differ
    <3>3. Differ(a, c, l)
      BY <2>1, <3>1, <3>2 DEF Differ
    <3>4. Cmp(a, c) = a[l] - c[l]
      BY <3>3, CmpFirst
    <3> QED
      BY <2>1, <3>1, <3>4
  <2> QED
    BY <2>2, <2>3
<1>4. (\A i \in 1 .. m : a[i] = b[i]) \/ \E k \in 1 .. m : Differ(a, b, k) /\ Cmp(a, b) = a[k] - b[k]
    BY CmpIs
<1>5. (\A i \in 1 .. m : b[i] = c[i]) \/ \E k \in 1 .. m : Differ(b, c, k) /\ Cmp(b, c) = b[k] - c[k]
    BY CmpIs
<1> QED
    BY <1>1, <1>2, <1>3, <1>4, <1>5

\* c compares the first n elements of t, each of m numbers.
CmpOf(c, t, n, m) ==
    /\ \A i \in 1 .. n : t[i] \in Vec(m)
    /\ \A i, j \in 1 .. n : c[i][j] = Cmp(t[i], t[j])

\* Sequences of one length are compared as numbers are.
LEMMA CmpCompares ==
    ASSUME NEW n \in Nat, NEW m \in Nat, NEW t, NEW c, CmpOf(c, t, n, m)
    PROVE  Compares(c, n)
<1>1. ASSUME NEW i \in 1 .. n, NEW j \in 1 .. n
      PROVE  c[i][j] \in Int /\ c[j][i] = 0 - c[i][j]
  <2>1. t[i] \in Vec(m) /\ t[j] \in Vec(m)
    BY DEF CmpOf
  <2>2. Cmp(t[i], t[j]) \in Int /\ Cmp(t[j], t[i]) = 0 - Cmp(t[i], t[j])
    BY <2>1, CmpSign
  <2> QED
    BY <2>2 DEF CmpOf
<1>2. ASSUME NEW i \in 1 .. n, NEW j \in 1 .. n, NEW k \in 1 .. n, c[i][j] <= 0, c[j][k] <= 0
      PROVE  c[i][k] <= 0 /\ (c[i][k] = 0 => c[i][j] = 0 /\ c[j][k] = 0)
  <2> DEFINE a == t[i]
             b == t[j]
             e == t[k]
  <2>1. a \in Vec(m) /\ b \in Vec(m) /\ e \in Vec(m)
    BY DEF CmpOf
  <2>2. c[i][j] = Cmp(a, b) /\ c[j][k] = Cmp(b, e) /\ c[i][k] = Cmp(a, e)
    BY DEF CmpOf
  <2> HIDE DEF a, b, e
  <2>3. Cmp(a, b) <= 0 /\ Cmp(b, e) <= 0
    BY <1>2, <2>2
  <2>4. Cmp(a, e) <= 0 /\ (Cmp(a, e) = 0 => Cmp(a, b) = 0 /\ Cmp(b, e) = 0)
    BY <2>1, <2>3, CmpTransitive
  <2> QED
    BY <2>2, <2>4
<1>3. ASSUME NEW i \in 1 .. n, NEW j \in 1 .. n PROVE c[i][j] < 0 <=> c[j][i] > 0
    BY <1>1
<1> QED
    BY <1>1, <1>2, <1>3 DEF Compares

-----------------------------------------------------------------------------
(* Databases of hashes                                                     *)

List ==
    [alg : Alg, sigsz : Nat, nsigs : Nat, listsz : Nat, flags : SUBSET Flag, entries : Seq(Entry)]

\* Entries that are n words long, each with data of its own
GoodEntries(es, n) ==
    /\ es \in Seq(Entry)
    /\ \A i \in 1 .. Len(es) : Len(es[i].data) = n
    /\ \A i, j \in 1 .. Len(es) : es[i].data = es[j].data => i = j

HashList(l) ==
    /\ l \in List /\ l.alg \in Hash /\ l.sigsz = Size[l.alg] + OwnerSize
    /\ GoodEntries(l.entries, Size[l.alg])

\* One list for each type
GoodLists(ls) ==
    /\ ls \in Seq(List)
    /\ \A i \in 1 .. Len(ls) : HashList(ls[i]) /\ ls[i].listsz # 0
    /\ \A i, j \in 1 .. Len(ls) : ls[i].alg = ls[j].alg => i = j

Good(d) == d \in [flags : SUBSET Flag, lists : Seq(List)] /\ GoodLists(d.lists)

\* The signatures of a list, and of lists
SigOf(l, e) == [alg |-> l.alg, owner |-> e.owner, data |-> e.data]
SigsOf(l) == {SigOf(l, l.entries[i]) : i \in 1 .. Len(l.entries)}
Stored(ls) == UNION {SigsOf(ls[i]) : i \in 1 .. Len(ls)}

\* The types
LEMMA AlgIs ==
    Alg = {"X509_CERT", "X509_SHA256", "SHA256", "X509_SHA512", "SHA512", "X509_SHA384",
           "SHA224", "SHA384", "SHA1", "RSA2048", "RSA2048_SHA1", "RSA2048_SHA256"}
<1>1. DOMAIN Algs = 1 .. 12
    BY DEF Algs
<1> QED
    BY <1>1 DEF Alg, ToSet, Algs

LEMMA SizeType == \A a \in Alg : Size[a] \in Nat
    BY AlgIs DEF Size

LEMMA RankType == \A a \in Alg : Rank(a) \in Int
<1>1. Len(Algs) = 12 /\ DOMAIN Algs = 1 .. 12
    BY DEF Algs
<1> SUFFICES ASSUME NEW a \in Alg PROVE Rank(a) \in Int
    OBVIOUS
<1>2. \E i \in 1 .. 12 : Algs[i] = a
    BY <1>1 DEF Alg, ToSet
<1> QED
    BY <1>1, <1>2 DEF Rank

LEMMA UnknownIs == Unknown \notin Alg
    BY AlgIs DEF Unknown

\* An element that is found in one place only
LEMMA OneFound ==
    ASSUME NEW I, NEW k \in I, I \subseteq Int, \A i \in I : i = k
    PROVE  Max(I) = k /\ Min(I) = k
<1>1. \A y \in I : k >= y /\ k <= y
    OBVIOUS
<1>2. Max(I) \in I
  <2>1. \E x \in I : \A y \in I : x >= y
    BY <1>1
  <2> QED
    BY <2>1 DEF Max
<1>3. Min(I) \in I
  <2>1. \E x \in I : \A y \in I : x <= y
    BY <1>1
  <2> QED
    BY <2>1 DEF Min
<1> QED
    BY <1>2, <1>3

\* find_secdb_entry finds the one list of a type, or there is none.
LEMMA FindIs ==
    ASSUME NEW ls, GoodLists(ls), NEW a \in Hash, NEW sz
    PROVE  \/ Find(ls, a, sz) = 0 /\ \A i \in 1 .. Len(ls) : ls[i].alg # a
           \/ Find(ls, a, sz) \in 1 .. Len(ls) /\ ls[Find(ls, a, sz)].alg = a
<1> DEFINE I == {i \in 1 .. Len(ls) :
                    \/ ls[i].listsz = 0
                    \/ ls[i].alg = a /\ ls[i].sigsz = SigSize(a, sz + OwnerSize)}
<1>1. Find(ls, a, sz) = IF I # {} THEN Max(I) ELSE 0
    BY DEF Find, SelectLastInSeq
<1>2. \A i \in 1 .. Len(ls) : i \in I <=> ls[i].alg = a
    BY DEF GoodLists, HashList, SigSize, Hash
<1>3. \A i, j \in 1 .. Len(ls) : ls[i].alg = ls[j].alg => i = j
    BY DEF GoodLists
<1>4. I \subseteq 1 .. Len(ls)
    OBVIOUS
<1> HIDE DEF I
<1>5. CASE I = {}
    BY <1>1, <1>2, <1>5
<1>6. ASSUME NEW k \in I PROVE Find(ls, a, sz) \in 1 .. Len(ls) /\ ls[Find(ls, a, sz)].alg = a
  <2>1. \A i \in I : i = k
    BY <1>2, <1>3, <1>4
  <2>2. I \subseteq Int
    BY <1>4
  <2>3. Max(I) = k
    BY <2>1, <2>2, OneFound
  <2> QED
    BY <1>1, <1>2, <1>4, <2>3
<1> QED
    BY <1>5, <1>6

-----------------------------------------------------------------------------
(* Sorting changes nothing but the order                                   *)

\* Sorting the entries of a list rearranges them.
LEMMA SortEntriesRight ==
    ASSUME NEW es, NEW n \in Nat, GoodEntries(es, n), NEW flags
    PROVE  \E p : /\ Rearranges(p, Len(es))
                  /\ SortEntries(es, flags) = [k \in 1 .. Len(es) |-> es[p[k]]]
<1> DEFINE m == n + 1
           t == [i \in 1 .. Len(es) |-> <<es[i].owner>> \o es[i].data]
           c == [i \in DOMAIN es |-> [j \in DOMAIN es |-> EntryCmp(es[i], es[j])]]
<1>1. DOMAIN es = 1 .. Len(es) /\ Len(es) \in Nat
    BY DEF GoodEntries
<1>2. ASSUME NEW i \in 1 .. Len(es) PROVE t[i] \in Vec(m)
  <2>1. es[i] \in Entry /\ Len(es[i].data) = n
    BY DEF GoodEntries
  <2>2. es[i].owner \in Int /\ es[i].data \in Seq(Int)
    BY <2>1 DEF Entry
  <2>3. <<es[i].owner>> \o es[i].data \in Seq(Int) /\ Len(<<es[i].owner>> \o es[i].data) = m
    BY <2>1, <2>2
  <2>4. t[i] = <<es[i].owner>> \o es[i].data
    OBVIOUS
  <2> HIDE DEF t, m
  <2>5. t[i] \in Seq(Int) /\ Len(t[i]) = m
    BY <2>3, <2>4
  <2> QED
    BY <2>5 DEF Vec
<1>3. \A i, j \in 1 .. Len(es) : c[i][j] = Cmp(t[i], t[j])
    BY <1>1 DEF EntryCmp
<1>4. SortEntries(es, flags) = ListSort(es, c, flags)
    BY DEF SortEntries
<1>5. m \in Nat
    OBVIOUS
<1> HIDE DEF m, t, c
<1>6. CmpOf(c, t, Len(es), m)
    BY <1>2, <1>3 DEF CmpOf
<1>7. Compares(c, Len(es))
    BY <1>1, <1>5, <1>6, CmpCompares
<1> QED
    BY <1>1, <1>4, <1>7, ListSortRight

\* r has the entries of es, in an order of its own.
Reordered(r, es, n) ==
    /\ GoodEntries(r, n)
    /\ \A i \in 1 .. Len(es) : \E j \in 1 .. Len(r) : r[j] = es[i]
    /\ \A j \in 1 .. Len(r) : \E i \in 1 .. Len(es) : r[j] = es[i]

\* Sorting the entries of a list keeps each of them, once.
LEMMA SortedEntries ==
    ASSUME NEW es, NEW n \in Nat, GoodEntries(es, n), NEW flags
    PROVE  Reordered(SortEntries(es, flags), es, n)
<1> DEFINE r == SortEntries(es, flags)
<1>1. PICK p : Rearranges(p, Len(es)) /\ r = [k \in 1 .. Len(es) |-> es[p[k]]]
    BY SortEntriesRight
<1>2. Len(es) \in Nat /\ \A i \in 1 .. Len(es) : es[i] \in Entry
    BY DEF GoodEntries
<1> HIDE DEF r
<1>3. r \in Seq(Entry) /\ Len(r) = Len(es)
  <2>1. \A k \in 1 .. Len(es) : p[k] \in 1 .. Len(es)
    BY <1>1 DEF Rearranges
  <2>2. r \in [1 .. Len(es) -> Entry]
    BY <1>1, <1>2, <2>1
  <2> QED
    BY <1>2, <2>2
<1>4. \A k \in 1 .. Len(es) : p[k] \in 1 .. Len(es) /\ r[k] = es[p[k]]
    BY <1>1 DEF Rearranges
<1>5. GoodEntries(r, n)
  <2>1. \A i \in 1 .. Len(r) : Len(r[i].data) = n
    BY <1>3, <1>4 DEF GoodEntries
  <2>2. ASSUME NEW i \in 1 .. Len(r), NEW j \in 1 .. Len(r), r[i].data = r[j].data PROVE i = j
    <3>1. p[i] = p[j]
      <4>1. /\ p[i] \in 1 .. Len(es) /\ p[j] \in 1 .. Len(es)
            /\ r[i] = es[p[i]] /\ r[j] = es[p[j]]
        BY <1>3, <1>4
      <4>2. es[p[i]].data = es[p[j]].data
        BY <2>2, <4>1
      <4> QED
        BY <4>1, <4>2 DEF GoodEntries
    <3> QED
      BY <1>1, <1>3, <3>1 DEF Rearranges
  <2> QED
    BY <1>3, <2>1, <2>2 DEF GoodEntries
<1>6. \A i \in 1 .. Len(es) : \E j \in 1 .. Len(r) : r[j] = es[i]
    BY <1>1, <1>3, <1>4 DEF Rearranges
<1>7. \A j \in 1 .. Len(r) : \E i \in 1 .. Len(es) : r[j] = es[i]
    BY <1>3, <1>4
<1> QED
    BY <1>5, <1>6, <1>7 DEF r, Reordered

\* Sorting the lists keeps every signature and leaves them in order.
LEMMA SortedLists ==
    ASSUME NEW ls, GoodLists(ls), NEW flags
    PROVE  /\ GoodLists(SortLists(ls, flags))
           /\ Stored(SortLists(ls, flags)) = Stored(ls)
           /\ \A i, j \in 1 .. Len(SortLists(ls, flags)) : i < j =>
                Before(ListCmp(SortLists(ls, flags)[i], SortLists(ls, flags)[j]), flags)
<1> DEFINE n == Len(ls)
           r == SortLists(ls, flags)
           t == [i \in 1 .. n |-> <<Rank(ls[i].alg), ls[i].sigsz, ls[i].listsz>>]
           c == [i \in DOMAIN ls |-> [j \in DOMAIN ls |-> ListCmp(ls[i], ls[j])]]
<1>1. DOMAIN ls = 1 .. n /\ n \in Nat /\ \A i \in 1 .. n : ls[i] \in List
    BY DEF GoodLists
<1>2. ASSUME NEW i \in 1 .. n PROVE t[i] \in Vec(3)
  <2>1. Rank(ls[i].alg) \in Int /\ ls[i].sigsz \in Int /\ ls[i].listsz \in Int
    BY <1>1, RankType DEF List
  <2> QED
    BY <2>1 DEF Vec
<1>3. \A i, j \in 1 .. n : c[i][j] = Cmp(t[i], t[j]) /\ c[i][j] = ListCmp(ls[i], ls[j])
    BY <1>1 DEF ListCmp
<1>4. r = ListSort(ls, c, flags)
    BY DEF SortLists
<1> HIDE DEF t, c
<1>5. Compares(c, n)
  <2>1. CmpOf(c, t, n, 3)
    BY <1>2, <1>3 DEF CmpOf
  <2> QED
    BY <1>1, <2>1, CmpCompares
<1>6. PICK p : /\ Rearranges(p, n) /\ r = [k \in 1 .. n |-> ls[p[k]]]
               /\ \A k, l \in 1 .. n : k < l => Before(c[p[k]][p[l]], flags)
    BY <1>1, <1>4, <1>5, ListSortRight
<1> HIDE DEF r
<1>7. \A k \in 1 .. n : p[k] \in 1 .. n /\ r[k] = ls[p[k]]
    BY <1>6 DEF Rearranges
<1>8. r \in Seq(List) /\ Len(r) = n
  <2>1. r \in [1 .. n -> List]
    BY <1>1, <1>6, <1>7
  <2> QED
    BY <1>1, <2>1
<1>9. GoodLists(r)
  <2>1. \A i \in 1 .. Len(r) : HashList(r[i]) /\ r[i].listsz # 0
    BY <1>7, <1>8 DEF GoodLists
  <2>2. ASSUME NEW i \in 1 .. Len(r), NEW j \in 1 .. Len(r), r[i].alg = r[j].alg PROVE i = j
    <3>1. p[i] = p[j]
      BY <1>7, <1>8, <2>2 DEF GoodLists
    <3> QED
      BY <1>6, <1>8, <3>1 DEF Rearranges
  <2> QED
    BY <1>8, <2>1, <2>2 DEF GoodLists
<1>10. \A i \in 1 .. n : \E j \in 1 .. n : r[j] = ls[i]
    BY <1>6, <1>7 DEF Rearranges
<1>11. Stored(r) = Stored(ls)
  <2>1. {SigsOf(r[i]) : i \in 1 .. Len(r)} = {SigsOf(ls[i]) : i \in 1 .. n}
    <3>1. ASSUME NEW i \in 1 .. Len(r) PROVE \E j \in 1 .. n : SigsOf(r[i]) = SigsOf(ls[j])
      BY <1>7, <1>8
    <3>2. ASSUME NEW j \in 1 .. n PROVE \E i \in 1 .. Len(r) : SigsOf(r[i]) = SigsOf(ls[j])
      BY <1>8, <1>10
    <3> HIDE DEF n
    <3> QED
      BY <3>1, <3>2
  <2> QED
    BY <2>1 DEF Stored
<1>12. ASSUME NEW i \in 1 .. Len(r), NEW j \in 1 .. Len(r), i < j
       PROVE  Before(ListCmp(r[i], r[j]), flags)
  <2>1. /\ i \in 1 .. n /\ j \in 1 .. n /\ p[i] \in 1 .. n /\ p[j] \in 1 .. n
        /\ r[i] = ls[p[i]] /\ r[j] = ls[p[j]]
    BY <1>7, <1>8
  <2>2. c[p[i]][p[j]] = ListCmp(r[i], r[j])
    BY <1>3, <2>1
  <2>3. Before(c[p[i]][p[j]], flags)
    BY <1>6, <1>12, <2>1
  <2> QED
    BY <2>2, <2>3
<1> QED
    BY <1>9, <1>11, <1>12 DEF r

-----------------------------------------------------------------------------
(* Adding and removing                                                     *)

\* The first words of data, when there are no more
LEMMA TakeAll ==
    ASSUME NEW s \in Seq(Nat)
    PROVE  Take(s, Len(s)) = s
<1>1. Take(s, Len(s)) = SubSeq(s, 1, Len(s))
    BY DEF Take
<1> QED
    BY <1>1

\* The fields of an entry
LEMMA EntryOf ==
    ASSUME NEW es, NEW n, GoodEntries(es, n), NEW i \in 1 .. Len(es)
    PROVE  /\ es[i] \in Entry /\ es[i].owner \in Nat /\ es[i].data \in Seq(Nat)
           /\ Len(es[i].data) = n /\ es[i] = [owner |-> es[i].owner, data |-> es[i].data]
<1>1. es[i] \in Entry
    BY DEF GoodEntries
<1> QED
    BY <1>1 DEF GoodEntries, Entry

\* The memcmp of the duplicate check compares all of the data.
LEMMA HasDataIs ==
    ASSUME NEW l, HashList(l), NEW s, HashSig(s), s.alg = l.alg
    PROVE  HasData(l, s) <=> \E i \in 1 .. Len(l.entries) : l.entries[i].data = s.data
<1>1. DOMAIN l.entries = 1 .. Len(l.entries)
    BY DEF HashList, GoodEntries
<1>2. ASSUME NEW i \in 1 .. Len(l.entries)
      PROVE  Take(l.entries[i].data, Len(s.data)) = l.entries[i].data
  <2>1. l.entries[i].data \in Seq(Nat) /\ Len(l.entries[i].data) = Size[l.alg]
    <3> DEFINE es == l.entries
               n == Size[l.alg]
    <3>1. GoodEntries(es, n) /\ i \in 1 .. Len(es)
      BY DEF HashList
    <3> HIDE DEF es, n
    <3>2. es[i].data \in Seq(Nat) /\ Len(es[i].data) = n
      BY <3>1, EntryOf
    <3> QED
      BY <3>2 DEF es, n
  <2>2. Len(s.data) = Size[l.alg]
    BY DEF HashSig
  <2> QED
    BY <2>1, <2>2, TakeAll
<1> QED
    BY <1>1, <1>2 DEF HasData

\* A list with a new entry
LEMMA AddDataRight ==
    ASSUME NEW l, HashList(l), NEW s, HashSig(s), s.alg = l.alg, ~HasData(l, s)
    PROVE  LET e == [owner |-> s.owner, data |-> s.data]
               m == AddData(l, s)
           IN /\ e \in Entry
              /\ m \in List /\ m.alg = l.alg /\ m.sigsz = l.sigsz /\ m.flags = l.flags
              /\ m.listsz # 0 /\ m.entries = Append(l.entries, e)
              /\ GoodEntries(m.entries, Size[l.alg])
<1> DEFINE e == [owner |-> s.owner, data |-> s.data]
           m == AddData(l, s)
           es == Append(l.entries, e)
           a == l.nsigs + 1
           z == EslSize + l.sigsz * a
<1>1. e \in Entry /\ Len(e.data) = Size[l.alg]
    BY DEF HashSig, Entry
<1>2. /\ l \in List /\ l.alg \in Alg /\ l.sigsz \in Nat /\ l.nsigs \in Nat /\ l.flags \in SUBSET Flag
      /\ l.entries \in Seq(Entry)
    BY DEF HashList, List
<1>3. es \in Seq(Entry) /\ Len(es) = Len(l.entries) + 1 /\ es[Len(es)] = e
      /\ \A i \in 1 .. Len(l.entries) : es[i] = l.entries[i]
    BY <1>1, <1>2
<1>4. m = [l EXCEPT !.entries = es, !.nsigs = a, !.listsz = z]
    BY DEF AddData
<1>5. z \in Nat \ {0}
  <2>1. l.sigsz * (l.nsigs + 1) \in Nat
    BY <1>2
  <2> QED
    BY <2>1 DEF EslSize
<1> HIDE DEF e, es, m, z
<1>6. /\ m \in List /\ m.alg = l.alg /\ m.sigsz = l.sigsz /\ m.flags = l.flags
      /\ m.listsz # 0 /\ m.entries = es
  <2>1. a \in Nat /\ z \in Nat /\ z # 0 /\ es \in Seq(Entry)
    BY <1>2, <1>3, <1>5
  <2>2. l \in List
    BY <1>2
  <2> HIDE DEF a
  <2> QED
    BY <1>4, <2>1, <2>2 DEF List
<1>7. GoodEntries(es, Size[l.alg])
  <2>1. \A i \in 1 .. Len(l.entries) : l.entries[i].data # s.data
    BY HasDataIs
  <2>2. e.data = s.data
    BY DEF e
  <2>3. \A i \in 1 .. Len(es) : i \in 1 .. Len(l.entries) \/ i = Len(es)
    BY <1>2, <1>3
  <2>4. \A i \in 1 .. Len(es) : Len(es[i].data) = Size[l.alg]
    BY <1>1, <1>3, <2>3 DEF HashList, GoodEntries
  <2>5. ASSUME NEW i \in 1 .. Len(es), NEW j \in 1 .. Len(es), es[i].data = es[j].data PROVE i = j
    BY <1>3, <2>1, <2>2, <2>3, <2>5 DEF HashList, GoodEntries
  <2> QED
    BY <1>3, <2>4, <2>5 DEF GoodEntries
<1> QED
    BY <1>1, <1>6, <1>7 DEF e, es, m

\* An entry more in a list is a signature more.
LEMMA InsertRight ==
    ASSUME NEW l, HashList(l), NEW s, HashSig(s), s.alg = l.alg, ~HasData(l, s)
    PROVE  /\ HashList(Insert(l, s)) /\ Insert(l, s).alg = l.alg /\ Insert(l, s).listsz # 0
           /\ SigsOf(Insert(l, s)) = SigsOf(l) \cup {s}
<1> DEFINE e == [owner |-> s.owner, data |-> s.data]
           m == AddData(l, s)
           r == SortEntries(m.entries, l.flags)
           x == Insert(l, s)
<1>1. /\ e \in Entry
      /\ m \in List /\ m.alg = l.alg /\ m.sigsz = l.sigsz /\ m.flags = l.flags
      /\ m.listsz # 0 /\ m.entries = Append(l.entries, e)
      /\ GoodEntries(m.entries, Size[l.alg])
    BY AddDataRight
<1>2. Size[l.alg] \in Nat /\ l.entries \in Seq(Entry)
    BY SizeType DEF HashList, List
<1>3. /\ GoodEntries(r, Size[l.alg])
      /\ \A i \in 1 .. Len(m.entries) : \E j \in 1 .. Len(r) : r[j] = m.entries[i]
      /\ \A j \in 1 .. Len(r) : \E i \in 1 .. Len(m.entries) : r[j] = m.entries[i]
  <2> DEFINE es == m.entries
             n == Size[l.alg]
  <2>1. GoodEntries(es, n) /\ n \in Nat
    BY <1>1, <1>2
  <2>2. r = SortEntries(es, l.flags)
    OBVIOUS
  <2> HIDE DEF m, es, n, r
  <2>3. Reordered(r, es, n)
    BY <2>1, <2>2, SortedEntries
  <2> QED
    BY <2>3 DEF es, n, Reordered
<1>4. x = IF "SORT_DATA" \in l.flags THEN [m EXCEPT !.entries = r] ELSE m
    BY DEF Insert
<1>5. s = SigOf(l, e)
    BY DEF HashSig, SigOf
<1>6. ASSUME NEW i \in 1 .. Len(m.entries)
      PROVE  m.entries[i] = e \/ \E j \in 1 .. Len(l.entries) : m.entries[i] = l.entries[j]
  <2> HIDE DEF m, e
  <2> QED
    BY <1>1, <1>2
<1>7. ASSUME NEW j \in 1 .. Len(l.entries)
      PROVE  \E i \in 1 .. Len(m.entries) : m.entries[i] = l.entries[j]
  <2> HIDE DEF m, e
  <2> QED
    BY <1>1, <1>2
<1>8. \E i \in 1 .. Len(m.entries) : m.entries[i] = e
  <2> HIDE DEF m, e
  <2>1. Len(l.entries) + 1 \in 1 .. Len(m.entries) /\ m.entries[Len(l.entries) + 1] = e
    BY <1>1, <1>2
  <2> QED
    BY <2>1
<1> HIDE DEF e, m, r, x
<1>9. /\ x \in List /\ x.alg = l.alg /\ x.sigsz = l.sigsz /\ x.listsz # 0
      /\ GoodEntries(x.entries, Size[l.alg])
      /\ \A i \in 1 .. Len(m.entries) : \E j \in 1 .. Len(x.entries) : x.entries[j] = m.entries[i]
      /\ \A j \in 1 .. Len(x.entries) : \E i \in 1 .. Len(m.entries) : x.entries[j] = m.entries[i]
  <2>1. CASE "SORT_DATA" \in l.flags
    <3>1. r \in Seq(Entry)
      BY <1>3 DEF GoodEntries
    <3>2. x \in List /\ x.alg = l.alg /\ x.sigsz = l.sigsz /\ x.listsz # 0 /\ x.entries = r
      BY <1>1, <1>4, <2>1, <3>1 DEF List
    <3> QED
      BY <1>3, <3>2
  <2>2. CASE "SORT_DATA" \notin l.flags
    BY <1>1, <1>4, <2>2
  <2> QED
    BY <2>1, <2>2
<1>10. HashList(x)
    BY <1>9 DEF HashList
<1>11. SigsOf(x) = SigsOf(l) \cup {s}
  <2>1. \A y : SigOf(x, y) = SigOf(l, y)
    BY <1>9 DEF SigOf
  <2>2. ASSUME NEW t \in SigsOf(x) PROVE t \in SigsOf(l) \cup {s}
    <3>1. PICK j \in 1 .. Len(x.entries) : t = SigOf(l, x.entries[j])
      BY <2>1 DEF SigsOf
    <3>2. PICK i \in 1 .. Len(m.entries) : x.entries[j] = m.entries[i]
      BY <1>9
    <3> QED
      BY <1>5, <1>6, <3>1, <3>2 DEF SigsOf
  <2>3. ASSUME NEW t \in SigsOf(l) PROVE t \in SigsOf(x)
    <3>1. PICK j \in 1 .. Len(l.entries) : t = SigOf(x, l.entries[j])
      BY <2>1 DEF SigsOf
    <3>2. PICK i \in 1 .. Len(m.entries) : l.entries[j] = m.entries[i]
      BY <1>7
    <3>3. PICK k \in 1 .. Len(x.entries) : x.entries[k] = l.entries[j]
      BY <1>9, <3>2
    <3> QED
      BY <3>1, <3>3 DEF SigsOf
  <2>4. s \in SigsOf(x)
    <3>1. PICK i \in 1 .. Len(m.entries) : e = m.entries[i]
      BY <1>8
    <3>2. PICK k \in 1 .. Len(x.entries) : x.entries[k] = e
      BY <1>9, <3>1
    <3> QED
      BY <1>5, <2>1, <3>2 DEF SigsOf
  <2> QED
    BY <2>2, <2>3, <2>4
<1> QED
    BY <1>9, <1>10, <1>11 DEF x

\* The signatures of all lists but one
StoredBut(ls, k) == UNION {SigsOf(ls[i]) : i \in (1 .. Len(ls)) \ {k}}

\* A list in the place of one of its type
LEMMA ReplaceList ==
    ASSUME NEW ls, GoodLists(ls), NEW k \in 1 .. Len(ls),
           NEW x, HashList(x), x.listsz # 0, x.alg = ls[k].alg
    PROVE  /\ GoodLists([ls EXCEPT ![k] = x])
           /\ Stored([ls EXCEPT ![k] = x])
                = StoredBut(ls, k) \cup SigsOf(x)
<1> DEFINE r == [ls EXCEPT ![k] = x]
<1>1. ls \in Seq(List) /\ x \in List
    BY DEF GoodLists, HashList
<1>2. /\ r \in Seq(List) /\ Len(r) = Len(ls) /\ r[k] = x
      /\ \A i \in 1 .. Len(ls) : i # k => r[i] = ls[i]
    BY <1>1
<1> HIDE DEF r
<1>3. \A i \in 1 .. Len(r) : r[i].alg = ls[i].alg
    BY <1>2
<1>4. GoodLists(r)
    BY <1>2, <1>3 DEF GoodLists
<1>5. Stored(r) = StoredBut(ls, k) \cup SigsOf(x)
  <2>1. ASSUME NEW t \in Stored(r)
        PROVE  t \in StoredBut(ls, k) \cup SigsOf(x)
    <3>1. PICK i \in 1 .. Len(r) : t \in SigsOf(r[i])
      BY DEF Stored
    <3> QED
      BY <1>2, <3>1 DEF StoredBut
  <2>2. ASSUME NEW t \in StoredBut(ls, k) PROVE t \in Stored(r)
    <3>1. PICK i \in (1 .. Len(ls)) \ {k} : t \in SigsOf(ls[i])
      BY DEF StoredBut
    <3>2. i \in 1 .. Len(r) /\ t \in SigsOf(r[i])
      BY <1>2, <3>1
    <3> QED
      BY <3>2 DEF Stored
  <2>3. ASSUME NEW t \in SigsOf(x) PROVE t \in Stored(r)
    <3>1. k \in 1 .. Len(r) /\ t \in SigsOf(r[k])
      BY <1>2
    <3> QED
      BY <3>1 DEF Stored
  <2> QED
    BY <2>1, <2>2, <2>3
<1> QED
    BY <1>4, <1>5 DEF r

\* One list and the others
LEMMA StoredWith ==
    ASSUME NEW ls, NEW k \in 1 .. Len(ls)
    PROVE  Stored(ls) = StoredBut(ls, k) \cup SigsOf(ls[k])
    BY DEF Stored, StoredBut

\* A list of a type that had none
LEMMA AppendList ==
    ASSUME NEW ls, GoodLists(ls), NEW x, HashList(x), x.listsz # 0,
           \A i \in 1 .. Len(ls) : ls[i].alg # x.alg
    PROVE  /\ GoodLists(Append(ls, x))
           /\ Stored(Append(ls, x)) = Stored(ls) \cup SigsOf(x)
<1> DEFINE r == Append(ls, x)
<1>1. ls \in Seq(List) /\ x \in List
    BY DEF GoodLists, HashList
<1>2. /\ r \in Seq(List) /\ Len(r) = Len(ls) + 1 /\ Len(ls) \in Nat /\ r[Len(ls) + 1] = x
      /\ \A i \in 1 .. Len(ls) : r[i] = ls[i]
    BY <1>1
<1> HIDE DEF r
<1>3. \A i \in 1 .. Len(r) : i \in 1 .. Len(ls) \/ i = Len(ls) + 1
    BY <1>2
<1>4. GoodLists(r)
  <2>1. \A i \in 1 .. Len(r) : HashList(r[i]) /\ r[i].listsz # 0
    BY <1>2, <1>3 DEF GoodLists
  <2>2. ASSUME NEW i \in 1 .. Len(r), NEW j \in 1 .. Len(r), r[i].alg = r[j].alg PROVE i = j
    BY <1>2, <1>3, <2>2 DEF GoodLists
  <2> QED
    BY <1>2, <2>1, <2>2 DEF GoodLists
<1>5. Stored(r) = Stored(ls) \cup SigsOf(x)
  <2>1. ASSUME NEW t \in Stored(r) PROVE t \in Stored(ls) \cup SigsOf(x)
    <3>1. PICK i \in 1 .. Len(r) : t \in SigsOf(r[i])
      BY DEF Stored
    <3> QED
      BY <1>2, <1>3, <3>1 DEF Stored
  <2>2. ASSUME NEW t \in Stored(ls) PROVE t \in Stored(r)
    <3>1. PICK i \in 1 .. Len(ls) : t \in SigsOf(ls[i])
      BY DEF Stored
    <3>2. i \in 1 .. Len(r) /\ t \in SigsOf(r[i])
      BY <1>2, <3>1
    <3> QED
      BY <3>2 DEF Stored
  <2>3. ASSUME NEW t \in SigsOf(x) PROVE t \in Stored(r)
    <3>1. Len(ls) + 1 \in 1 .. Len(r) /\ t \in SigsOf(r[Len(ls) + 1])
      BY <1>2
    <3> QED
      BY <3>1 DEF Stored
  <2> QED
    BY <2>1, <2>2, <2>3
<1> QED
    BY <1>4, <1>5 DEF r

\* A signature with this data is stored.
Known(ls, s) == \E t \in Stored(ls) : s.alg = t.alg /\ s.data = t.data

\* Every signature that is stored has the size of its type.
LEMMA StoredType ==
    ASSUME NEW ls, GoodLists(ls), NEW t \in Stored(ls)
    PROVE  HashSig(t)
<1>1. PICK i \in 1 .. Len(ls) : t \in SigsOf(ls[i])
    BY DEF Stored
<1>2. HashList(ls[i])
    BY DEF GoodLists
<1> DEFINE es == ls[i].entries
           n == Size[ls[i].alg]
<1>3. GoodEntries(es, n) /\ ls[i].alg \in Hash
    BY <1>2 DEF HashList
<1>4. PICK j \in 1 .. Len(es) : t = SigOf(ls[i], es[j])
    BY <1>1 DEF SigsOf
<1> HIDE DEF es
<1>5. es[j].owner \in Nat /\ es[j].data \in Seq(Nat) /\ Len(es[j].data) = n
  <2> HIDE DEF n
  <2> QED
    BY <1>3, EntryOf
<1> QED
    BY <1>3, <1>4, <1>5 DEF SigOf, HashSig

\* The duplicate check looks at all signatures of the type.
LEMMA KnownIs ==
    ASSUME NEW ls, GoodLists(ls), NEW s, HashSig(s)
    PROVE  /\ \A k \in 1 .. Len(ls) : ls[k].alg = s.alg => (Known(ls, s) <=> HasData(ls[k], s))
           /\ (\A i \in 1 .. Len(ls) : ls[i].alg # s.alg) => ~Known(ls, s)
<1>1. ASSUME Known(ls, s)
      PROVE  \E i \in 1 .. Len(ls) : \E j \in 1 .. Len(ls[i].entries) :
                ls[i].alg = s.alg /\ ls[i].entries[j].data = s.data
  <2>1. PICK t \in Stored(ls) : s.alg = t.alg /\ s.data = t.data
    BY <1>1 DEF Known
  <2>2. PICK i \in 1 .. Len(ls) : t \in SigsOf(ls[i])
    BY DEF Stored
  <2>3. PICK j \in 1 .. Len(ls[i].entries) : t = SigOf(ls[i], ls[i].entries[j])
    BY <2>2 DEF SigsOf
  <2> QED
    BY <2>1, <2>3 DEF SigOf
<1>2. ASSUME NEW k \in 1 .. Len(ls), ls[k].alg = s.alg
      PROVE  Known(ls, s) <=> HasData(ls[k], s)
  <2>1. HasData(ls[k], s) <=> \E i \in 1 .. Len(ls[k].entries) : ls[k].entries[i].data = s.data
    <3>1. HashList(ls[k])
      BY DEF GoodLists
    <3> DEFINE l == ls[k]
    <3>2. HashList(l) /\ s.alg = l.alg
      BY <1>2, <3>1
    <3> HIDE DEF l
    <3>3. HasData(l, s) <=> \E i \in 1 .. Len(l.entries) : l.entries[i].data = s.data
      BY <3>2, HasDataIs
    <3> QED
      BY <3>3 DEF l
  <2>2. ASSUME Known(ls, s) PROVE HasData(ls[k], s)
    <3>1. PICK i \in 1 .. Len(ls) : \E j \in 1 .. Len(ls[i].entries) :
                ls[i].alg = s.alg /\ ls[i].entries[j].data = s.data
      BY <1>1, <2>2
    <3>2. i = k
      BY <1>2, <3>1 DEF GoodLists
    <3> QED
      BY <2>1, <3>1, <3>2
  <2>3. ASSUME NEW j \in 1 .. Len(ls[k].entries), ls[k].entries[j].data = s.data
        PROVE  Known(ls, s)
    <3> DEFINE t == SigOf(ls[k], ls[k].entries[j])
    <3>1. t \in SigsOf(ls[k])
      BY DEF SigsOf
    <3>2. t \in Stored(ls)
      BY <3>1 DEF Stored
    <3>3. t.alg = s.alg /\ t.data = s.data
      BY <1>2, <2>3 DEF SigOf
    <3> QED
      BY <3>2, <3>3 DEF Known
  <2> QED
    BY <2>1, <2>2, <2>3
<1> QED
    BY <1>1, <1>2

\* What Add makes of the signatures
Added(S, s) ==
    IF \E t \in S : s.alg = t.alg /\ s.data = t.data THEN S ELSE S \cup {s}

\* A sequence whose last element is replaced
LEMMA ReplaceLast ==
    ASSUME NEW S, NEW ls \in Seq(S), NEW l \in S, NEW x \in S, NEW k, k = Len(Append(ls, l))
    PROVE  [Append(ls, l) EXCEPT ![k] = x] = Append(ls, x)
<1> DEFINE a == Append(ls, l)
           b == Append(ls, x)
           r == [a EXCEPT ![k] = x]
<1>1. /\ a \in Seq(S) /\ Len(a) = Len(ls) + 1 /\ Len(ls) \in Nat
      /\ \A i \in 1 .. Len(ls) : a[i] = ls[i]
    OBVIOUS
<1>2. /\ b \in Seq(S) /\ Len(b) = Len(ls) + 1 /\ b[Len(ls) + 1] = x
      /\ \A i \in 1 .. Len(ls) : b[i] = ls[i]
    OBVIOUS
<1>3. k = Len(ls) + 1
    BY <1>1
<1> HIDE DEF a, b
<1>4. DOMAIN r = 1 .. Len(ls) + 1 /\ DOMAIN b = 1 .. Len(ls) + 1
    BY <1>1, <1>2
<1>5. \A i \in 1 .. Len(ls) + 1 : r[i] = b[i]
    BY <1>1, <1>2, <1>3
<1>6. r \in [1 .. Len(ls) + 1 -> S] /\ b \in [1 .. Len(ls) + 1 -> S]
  <2>1. a \in [1 .. Len(ls) + 1 -> S] /\ b \in [1 .. Len(ls) + 1 -> S]
    BY <1>1, <1>2
  <2> QED
    BY <2>1
<1> HIDE DEF r
<1> QED
    BY <1>5, <1>6 DEF a, b, r

\* An addition to a list that is there
LEMMA AddFound ==
    ASSUME NEW d, Good(d), NEW s, HashSig(s),
           NEW k \in 1 .. Len(d.lists), k = Find(d.lists, s.alg, Len(s.data) + OwnerSize),
           d.lists[k].alg = s.alg
    PROVE  LET ls == Add(d, s, FALSE).lists
           IN /\ Add(d, s, FALSE) = [d EXCEPT !.lists = ls]
              /\ GoodLists(ls) /\ Stored(ls) = Added(Stored(d.lists), s)
<1> DEFINE ls == d.lists
           sigsz == Len(s.data) + OwnerSize
           l == ls[k]
           y == [l EXCEPT !.alg = s.alg, !.sigsz = SigSize(s.alg, sigsz)]
           all == [ls EXCEPT ![k] = IF HasData(l, s) THEN l ELSE Insert(l, s)]
           r == IF ~HasData(l, s) /\ "SORT" \in l.flags THEN SortLists(all, l.flags) ELSE all
<1>1. GoodLists(ls) /\ d \in [flags : SUBSET Flag, lists : Seq(List)] /\ ls \in Seq(List)
    BY DEF Good, GoodLists
<1>2. HashList(l) /\ l.listsz # 0 /\ s.alg = l.alg
    BY <1>1 DEF GoodLists
<1>3. s.alg \in Hash /\ s.alg # Unknown /\ k # 0
    BY UnknownIs DEF HashSig, Hash
<1>4. l = y
  <2>1. SigSize(s.alg, sigsz) = l.sigsz
    BY <1>2, <1>3 DEF HashList, SigSize, Hash
  <2>2. l \in List
    BY <1>2 DEF HashList
  <2> HIDE DEF l, sigsz
  <2> QED
    BY <1>2, <2>1, <2>2 DEF List
<1>5. Add(d, s, FALSE) = [d EXCEPT !.lists = r]
  <2>1. Add(d, s, FALSE) = AddTo(d, ls, k, y, s)
    BY <1>3 DEF Add
  <2>2. AddTo(d, ls, k, l, s) = [d EXCEPT !.lists = r]
    BY DEF AddTo
  <2> QED
    BY <1>4, <2>1, <2>2
<1>6. Known(ls, s) <=> HasData(l, s)
    BY <1>1, <1>2, KnownIs
<1>7. GoodLists(all) /\ Stored(all) = Added(Stored(ls), s)
  <2>1. CASE HasData(l, s)
    <3>1. all = ls
      BY <1>1, <2>1
    <3> HIDE DEF all, ls, l
    <3> QED
      BY <1>1, <1>6, <2>1, <3>1 DEF Known, Added
  <2>2. CASE ~HasData(l, s)
    <3> DEFINE x == Insert(l, s)
    <3>1. all = [ls EXCEPT ![k] = x]
      BY <2>2
    <3>2. HashList(x) /\ x.alg = l.alg /\ x.listsz # 0 /\ SigsOf(x) = SigsOf(l) \cup {s}
      <4> HIDE DEF l
      <4> QED
        BY <1>2, <2>2, InsertRight
    <3> HIDE DEF x, all, ls
    <3>3. GoodLists(all) /\ Stored(all) = StoredBut(ls, k) \cup SigsOf(x)
      BY <1>1, <3>1, <3>2, ReplaceList DEF ls
    <3>4. Stored(ls) = StoredBut(ls, k) \cup SigsOf(l)
      BY StoredWith DEF ls
    <3> HIDE DEF l
    <3>5. Stored(all) = Stored(ls) \cup {s}
      BY <3>2, <3>3, <3>4
    <3> QED
      BY <1>6, <2>2, <3>3, <3>5 DEF Known, Added
  <2> QED
    BY <2>1, <2>2
<1> HIDE DEF all, l
<1>8. GoodLists(r) /\ Stored(r) = Added(Stored(ls), s)
    BY <1>7, SortedLists
<1> HIDE DEF r
<1>9. Add(d, s, FALSE).lists = r
    BY <1>1, <1>5
<1> QED
    BY <1>5, <1>8, <1>9

\* An addition to a list that is made for it
LEMMA AddNew ==
    ASSUME NEW d, Good(d), NEW s, HashSig(s),
           Find(d.lists, s.alg, Len(s.data) + OwnerSize) = 0,
           \A i \in 1 .. Len(d.lists) : d.lists[i].alg # s.alg
    PROVE  LET ls == Add(d, s, FALSE).lists
           IN /\ Add(d, s, FALSE) = [d EXCEPT !.lists = ls]
              /\ GoodLists(ls) /\ Stored(ls) = Added(Stored(d.lists), s)
<1> DEFINE ls == d.lists
           sigsz == Len(s.data) + OwnerSize
           l == Alloc(d, s.alg, sigsz)
           y == [l EXCEPT !.alg = s.alg, !.sigsz = SigSize(s.alg, sigsz)]
           lists == Append(ls, l)
           x == Insert(l, s)
           all == [lists EXCEPT ![Len(lists)] = x]
           r == IF "SORT" \in l.flags THEN SortLists(all, l.flags) ELSE all
<1>1. GoodLists(ls) /\ d \in [flags : SUBSET Flag, lists : Seq(List)] /\ ls \in Seq(List)
    BY DEF Good, GoodLists
<1>2. s.alg \in Hash /\ s.alg \in Alg /\ s.alg # Unknown /\ sigsz = Size[s.alg] + OwnerSize
      /\ SigSize(s.alg, sigsz) = sigsz /\ sigsz \in Nat
    BY UnknownIs, SizeType DEF HashSig, Hash, SigSize, OwnerSize
<1>3. l = [alg |-> s.alg, sigsz |-> sigsz, nsigs |-> 0, listsz |-> 0,
           flags |-> d.flags, entries |-> <<>>]
    BY DEF Alloc
<1> HIDE DEF sigsz, l
<1>4. HashList(l) /\ s.alg = l.alg /\ l.entries = <<>>
  <2>1. l \in List
    BY <1>1, <1>2, <1>3 DEF List
  <2>2. GoodEntries(<<>>, Size[s.alg])
    BY DEF GoodEntries
  <2> QED
    BY <1>2, <1>3, <2>1, <2>2 DEF HashList
<1>5. ~HasData(l, s)
    BY <1>4 DEF HasData
<1>6. l = y
  <2>1. l \in List /\ l.alg = s.alg /\ l.sigsz = SigSize(s.alg, sigsz)
    BY <1>2, <1>3, <1>4 DEF HashList
  <2> QED
    BY <2>1 DEF List
<1>7. lists[Len(lists)] = l /\ Len(lists) = Len(ls) + 1
    BY <1>1
<1>8. Add(d, s, FALSE) = [d EXCEPT !.lists = r]
  <2>1. Add(d, s, FALSE) = AddTo(d, lists, Len(lists), y, s)
    <3>1. Add(d, s, FALSE) = AddTo(d, lists, Len(lists),
                [lists[Len(lists)] EXCEPT !.alg = s.alg, !.sigsz = SigSize(s.alg, sigsz)], s)
      BY <1>2 DEF Add, l, sigsz
    <3> HIDE DEF lists
    <3> QED
      BY <1>7, <3>1
  <2>2. AddTo(d, lists, Len(lists), l, s) = [d EXCEPT !.lists = r]
    BY <1>5 DEF AddTo
  <2> QED
    BY <1>6, <2>1, <2>2
<1>9. HashList(x) /\ x.alg = l.alg /\ x.listsz # 0 /\ SigsOf(x) = SigsOf(l) \cup {s}
    BY <1>4, <1>5, InsertRight
<1>10. SigsOf(l) = {}
    BY <1>4 DEF SigsOf
<1> HIDE DEF x
<1>11. all = Append(ls, x)
  <2>1. l \in List /\ x \in List
    BY <1>4, <1>9 DEF HashList
  <2> HIDE DEF ls
  <2> QED
    BY <1>1, <2>1, ReplaceLast
<1>12. GoodLists(all) /\ Stored(all) = Stored(ls) \cup {s}
  <2>1. \A i \in 1 .. Len(ls) : ls[i].alg # x.alg
    BY <1>4, <1>9
  <2> HIDE DEF ls, all
  <2> QED
    BY <1>1, <1>9, <1>10, <1>11, <2>1, AppendList
<1>13. ~Known(ls, s)
    BY <1>1, KnownIs
<1> HIDE DEF all
<1>14. GoodLists(r) /\ Stored(r) = Added(Stored(ls), s)
    BY <1>12, <1>13, SortedLists DEF Known, Added
<1> HIDE DEF r
<1>15. Add(d, s, FALSE).lists = r
    BY <1>1, <1>8
<1> QED
    BY <1>8, <1>14, <1>15

\* An addition adds the signature unless its data is there.
LEMMA AddRight ==
    ASSUME NEW d, Good(d), NEW s, HashSig(s)
    PROVE  /\ Good(Add(d, s, FALSE)) /\ Add(d, s, FALSE).flags = d.flags
           /\ Stored(Add(d, s, FALSE).lists) = Added(Stored(d.lists), s)
<1> DEFINE a == Add(d, s, FALSE)
           k == Find(d.lists, s.alg, Len(s.data) + OwnerSize)
<1>1. /\ a = [d EXCEPT !.lists = a.lists]
      /\ GoodLists(a.lists) /\ Stored(a.lists) = Added(Stored(d.lists), s)
  <2>1. \/ k = 0 /\ \A i \in 1 .. Len(d.lists) : d.lists[i].alg # s.alg
        \/ k \in 1 .. Len(d.lists) /\ d.lists[k].alg = s.alg
    <3>1. s.alg \in Hash /\ GoodLists(d.lists)
      BY DEF HashSig, Good
    <3> QED
      BY <3>1, FindIs
  <2> QED
    BY <2>1, AddFound, AddNew
<1> HIDE DEF a
<1>2. a.flags = d.flags /\ a \in [flags : SUBSET Flag, lists : Seq(List)]
    BY <1>1 DEF Good, GoodLists
<1> QED
    BY <1>1, <1>2 DEF Good, a

\* A sequence without one of its elements
LEMMA RemoveFacts ==
    ASSUME NEW S, NEW s \in Seq(S), NEW q \in 1 .. Len(s)
    PROVE  /\ RemoveAt(s, q) \in Seq(S) /\ Len(RemoveAt(s, q)) = Len(s) - 1
           /\ \A k \in 1 .. Len(s) - 1 : RemoveAt(s, q)[k] = IF k < q THEN s[k] ELSE s[k + 1]
<1> DEFINE a == SubSeq(s, 1, q - 1)
           b == SubSeq(s, q + 1, Len(s))
           z == a \o b
<1>1. Len(s) \in Nat /\ \A k \in 1 .. Len(s) : s[k] \in S
    BY LenProperties
<1>2. /\ a \in Seq(S) /\ Len(a) = q - 1
      /\ \A k \in 1 .. q - 1 : a[k] = s[k]
  <2>1. \A k \in 1 .. q - 1 : s[k] \in S
    BY <1>1
  <2> QED
    BY <1>1, <2>1, SubSeqProperties
<1>3. /\ b \in Seq(S) /\ Len(b) = Len(s) - q
      /\ \A k \in 1 .. Len(s) - q : b[k] = s[q + k]
  <2>1. \A k \in q + 1 .. Len(s) : s[k] \in S
    BY <1>1
  <2> QED
    BY <1>1, <2>1, SubSeqProperties
<1>4. RemoveAt(s, q) = z
    BY DEF RemoveAt
<1> HIDE DEF a, b
<1>5. /\ z \in Seq(S) /\ Len(z) = Len(s) - 1
      /\ \A k \in 1 .. Len(s) - 1 : z[k] = IF k <= q - 1 THEN a[k] ELSE b[k - (q - 1)]
    BY <1>1, <1>2, <1>3, ConcatProperties
<1> HIDE DEF z
<1>6. ASSUME NEW k \in 1 .. Len(s) - 1
      PROVE  z[k] = IF k < q THEN s[k] ELSE s[k + 1]
  <2>1. CASE k < q
    BY <1>1, <1>2, <1>5, <2>1
  <2>2. CASE k >= q
    <3>1. k - (q - 1) \in 1 .. Len(s) - q /\ q + (k - (q - 1)) = k + 1
      BY <1>1, <2>2
    <3> QED
      BY <1>1, <1>3, <1>5, <2>2, <3>1
  <2>3. k \in Int /\ q \in Int
    BY <1>1
  <2> QED
    BY <2>1, <2>2, <2>3
<1> QED
    BY <1>4, <1>5, <1>6

\* A list without one of its entries
LEMMA RemoveRight ==
    ASSUME NEW l, HashList(l), NEW h \in 1 .. Len(l.entries), NEW x,
           x = [l EXCEPT !.entries = RemoveAt(l.entries, h)]
    PROVE  /\ HashList(x) /\ x.alg = l.alg /\ x.listsz = l.listsz
           /\ SigsOf(x) = SigsOf(l) \ {SigOf(l, l.entries[h])}
<1> DEFINE es == l.entries
           r == RemoveAt(es, h)
           n == Size[l.alg]
<1>1. l \in List /\ es \in Seq(Entry) /\ GoodEntries(es, n) /\ Len(es) \in Nat
    BY DEF HashList, GoodEntries
<1>2. /\ r \in Seq(Entry) /\ Len(r) = Len(es) - 1
      /\ \A k \in 1 .. Len(es) - 1 : r[k] = IF k < h THEN es[k] ELSE es[k + 1]
  <2> HIDE DEF es
  <2>1. h \in 1 .. Len(es)
    BY DEF es
  <2> QED
    BY <1>1, <2>1, RemoveFacts
<1>3. x = [l EXCEPT !.entries = r]
    OBVIOUS
<1> DEFINE o == [k \in 1 .. Len(es) - 1 |-> IF k < h THEN k ELSE k + 1]
<1>4. ASSUME NEW k \in 1 .. Len(r)
      PROVE  o[k] \in 1 .. Len(es) /\ o[k] # h /\ r[k] = es[o[k]]
  <2> HIDE DEF r, es
  <2> QED
    BY <1>1, <1>2
<1>5. \A i, j \in 1 .. Len(r) : o[i] = o[j] => i = j
  <2> HIDE DEF r, es
  <2> QED
    BY <1>1, <1>2
<1>6. ASSUME NEW k \in 1 .. Len(es), k # h PROVE \E i \in 1 .. Len(r) : r[i] = es[k]
  <2> HIDE DEF r, es
  <2>1. CASE k < h
    <3>1. k \in 1 .. Len(r) /\ r[k] = es[k]
      BY <1>1, <1>2, <2>1 DEF es
    <3> QED
      BY <3>1
  <2>2. CASE k > h
    <3>1. k - 1 \in 1 .. Len(r) /\ r[k - 1] = es[k]
      BY <1>1, <1>2, <2>2 DEF es
    <3> QED
      BY <3>1
  <2> QED
    BY <1>6, <2>1, <2>2 DEF es
<1>7. GoodEntries(r, n)
  <2> HIDE DEF o, r, es, n
  <2>1. \A i \in 1 .. Len(r) : Len(r[i].data) = n
    BY <1>1, <1>4 DEF GoodEntries
  <2>2. ASSUME NEW i \in 1 .. Len(r), NEW j \in 1 .. Len(r), r[i].data = r[j].data PROVE i = j
    <3>1. es[o[i]].data = es[o[j]].data /\ o[i] \in 1 .. Len(es) /\ o[j] \in 1 .. Len(es)
      BY <1>4, <2>2
    <3>2. o[i] = o[j]
      BY <1>1, <3>1 DEF GoodEntries
    <3> QED
      BY <1>5, <3>2
  <2> QED
    BY <1>2, <2>1, <2>2 DEF GoodEntries
<1> HIDE DEF r
<1>8. x \in List /\ x.alg = l.alg /\ x.listsz = l.listsz /\ x.sigsz = l.sigsz /\ x.entries = r
    BY <1>1, <1>2, <1>3 DEF List
<1>9. HashList(x)
    BY <1>7, <1>8 DEF HashList
<1>10. \A e : SigOf(x, e) = SigOf(l, e)
    BY <1>8 DEF SigOf
<1>11. \A i \in 1 .. Len(es) : SigOf(l, es[i]) = SigOf(l, es[h]) => i = h
    BY <1>1 DEF SigOf, GoodEntries
<1>12. SigsOf(x) = SigsOf(l) \ {SigOf(l, es[h])}
  <2>1. ASSUME NEW t \in SigsOf(x) PROVE t \in SigsOf(l) \ {SigOf(l, es[h])}
    <3>1. PICK k \in 1 .. Len(r) : t = SigOf(l, r[k])
      BY <1>8, <1>10 DEF SigsOf
    <3>2. o[k] \in 1 .. Len(es) /\ o[k] # h /\ t = SigOf(l, es[o[k]])
      BY <1>4, <3>1
    <3> HIDE DEF o
    <3> QED
      BY <1>11, <3>2 DEF SigsOf
  <2>2. ASSUME NEW t \in SigsOf(l), t # SigOf(l, es[h]) PROVE t \in SigsOf(x)
    <3>1. PICK k \in 1 .. Len(es) : t = SigOf(l, es[k])
      BY DEF SigsOf
    <3>2. PICK i \in 1 .. Len(r) : r[i] = es[k]
      BY <1>6, <2>2, <3>1
    <3> QED
      BY <1>8, <1>10, <3>1, <3>2 DEF SigsOf
  <2> QED
    BY <2>1, <2>2
<1> QED
    BY <1>8, <1>9, <1>12

\* The entry that efi_secdb_del_entry finds
Hit(l, s) ==
    LET n == SigSize(s.alg, Len(s.data)) - OwnerSize
    IN SelectInSeq(l.entries, LAMBDA e :
            Take(e.data, n) = Take(s.data, n) /\ e.owner = s.owner)

\* efi_secdb_del_entry finds the signature if the list has it.
LEMMA HitIs ==
    ASSUME NEW l, HashList(l), NEW s, HashSig(s), s.alg = l.alg
    PROVE  \/ Hit(l, s) = 0 /\ s \notin SigsOf(l)
           \/ Hit(l, s) \in 1 .. Len(l.entries) /\ s = SigOf(l, l.entries[Hit(l, s)])
<1> DEFINE es == l.entries
           m == Size[l.alg]
           n == SigSize(s.alg, Len(s.data)) - OwnerSize
           I == {i \in 1 .. Len(es) : Take(es[i].data, n) = Take(s.data, n) /\ es[i].owner = s.owner}
           hit == IF I # {} THEN Min(I) ELSE 0
<1>1. GoodEntries(es, m) /\ m \in Nat /\ l.alg \in Hash
    BY SizeType DEF HashList, Hash
<1>2. n = m
  <2>1. n = (Size[s.alg] + OwnerSize) - OwnerSize
    BY <1>1 DEF SigSize, Hash
  <2> QED
    BY <1>1, <2>1 DEF OwnerSize
<1>3. Take(s.data, n) = s.data
  <2>1. s.data \in Seq(Nat) /\ Len(s.data) = n
    BY <1>2 DEF HashSig
  <2> HIDE DEF n
  <2> QED
    BY <2>1, TakeAll
<1>4. ASSUME NEW i \in 1 .. Len(es) PROVE Take(es[i].data, n) = es[i].data
  <2> HIDE DEF es, m, n
  <2>1. es[i].data \in Seq(Nat) /\ Len(es[i].data) = n
    BY <1>1, <1>2, EntryOf
  <2> QED
    BY <2>1, TakeAll
<1>5. Hit(l, s) = hit
    BY DEF Hit, SelectInSeq
<1>6. \A i \in 1 .. Len(es) : i \in I <=> es[i].data = s.data /\ es[i].owner = s.owner
  <2> HIDE DEF n, es
  <2> QED
    BY <1>3, <1>4
<1>7. I \subseteq 1 .. Len(es)
    OBVIOUS
<1>8. s = [alg |-> s.alg, owner |-> s.owner, data |-> s.data]
    BY DEF HashSig
<1>9. \A i \in 1 .. Len(es) : i \in I <=> s = SigOf(l, es[i])
    BY <1>6, <1>8 DEF SigOf
<1> HIDE DEF I, n
<1>10. CASE I = {}
  <2>1. s \notin SigsOf(l)
    BY <1>9, <1>10 DEF SigsOf
  <2> QED
    BY <1>5, <1>10, <2>1
<1>11. ASSUME NEW k \in I PROVE hit \in 1 .. Len(es) /\ s = SigOf(l, es[hit])
  <2>1. ASSUME NEW i \in I PROVE i = k
    <3>1. es[i].data = es[k].data /\ i \in 1 .. Len(es) /\ k \in 1 .. Len(es)
      BY <1>6, <1>7
    <3> QED
      BY <1>1, <3>1 DEF GoodEntries
  <2>2. I \subseteq Int
    BY <1>7
  <2>3. Min(I) = k
    BY <2>1, <2>2, OneFound
  <2> QED
    BY <1>7, <1>9, <2>3
<1> HIDE DEF hit
<1> QED
    BY <1>5, <1>10, <1>11

\* A deletion removes the signature and nothing else.
LEMMA DelRight ==
    ASSUME NEW d, Good(d), NEW s, HashSig(s)
    PROVE  /\ Good(Del(d, s)) /\ Del(d, s).flags = d.flags
           /\ Stored(Del(d, s).lists) = Stored(d.lists) \ {s}
           /\ DelResult(d, s) \in {0, -1}
           /\ DelResult(d, s) = -1 => s \notin Stored(d.lists)
<1> DEFINE ls == d.lists
           k == Find(ls, s.alg, Len(s.data))
           hit == Hit(ls[k], s)
<1>1. GoodLists(ls) /\ d \in [flags : SUBSET Flag, lists : Seq(List)] /\ ls \in Seq(List)
    BY DEF Good, GoodLists
<1>2. s.alg \in Hash /\ s.alg # Unknown
    BY UnknownIs DEF HashSig, Hash
<1>3. \/ k = 0 /\ \A i \in 1 .. Len(ls) : ls[i].alg # s.alg
      \/ k \in 1 .. Len(ls) /\ ls[k].alg = s.alg
    BY <1>1, <1>2, FindIs
<1>4. ASSUME NEW i \in 1 .. Len(ls), s \in SigsOf(ls[i]) PROVE ls[i].alg = s.alg
    BY <1>4 DEF SigsOf, SigOf
<1>5. CASE k = 0 /\ \A i \in 1 .. Len(ls) : ls[i].alg # s.alg
  <2>1. s \notin Stored(ls)
    BY <1>4, <1>5 DEF Stored
  <2>2. Del(d, s) = d
    BY <1>2, <1>5 DEF Del
  <2>3. DelResult(d, s) = -1
    BY <1>5 DEF DelResult
  <2> QED
    BY <2>1, <2>2, <2>3
<1>6. CASE k \in 1 .. Len(ls) /\ ls[k].alg = s.alg
  <2>1. k # 0 /\ HashList(ls[k]) /\ ls[k].listsz # 0
    BY <1>1, <1>6 DEF GoodLists
  <2>2. DelResult(d, s) = 0
    BY <1>2, <2>1 DEF DelResult
  <2> DEFINE l == ls[k]
             x == [l EXCEPT !.entries = RemoveAt(l.entries, hit)]
  <2>3. Del(d, s) = IF hit = 0 THEN d ELSE [d EXCEPT !.lists = [ls EXCEPT ![k] = x]]
    BY <1>2, <2>1 DEF Del, Hit
  <2>4. HashList(l) /\ s.alg = l.alg /\ l.listsz # 0
    BY <1>6, <2>1
  <2>5. \/ hit = 0 /\ s \notin SigsOf(l)
        \/ hit \in 1 .. Len(l.entries) /\ s = SigOf(l, l.entries[hit])
    <3>1. hit = Hit(l, s)
      OBVIOUS
    <3> HIDE DEF l, hit
    <3> QED
      BY <2>4, <3>1, HitIs
  <2>6. s \notin StoredBut(ls, k)
    <3>1. ASSUME NEW i \in (1 .. Len(ls)) \ {k} PROVE s \notin SigsOf(ls[i])
      BY <1>1, <1>4, <1>6 DEF GoodLists
    <3> HIDE DEF k
    <3> QED
      BY <3>1 DEF StoredBut
  <2> HIDE DEF k, hit
  <2>7. Stored(ls) = StoredBut(ls, k) \cup SigsOf(l)
    BY <1>6, StoredWith
  <2>8. CASE hit = 0 /\ s \notin SigsOf(l)
    BY <2>2, <2>3, <2>6, <2>7, <2>8
  <2>9. CASE hit \in 1 .. Len(l.entries) /\ s = SigOf(l, l.entries[hit])
    <3> HIDE DEF l
    <3>1. HashList(x) /\ x.alg = l.alg /\ x.listsz = l.listsz /\ SigsOf(x) = SigsOf(l) \ {s}
      BY <2>4, <2>9, RemoveRight
    <3> DEFINE r == [ls EXCEPT ![k] = x]
    <3>2. GoodLists(r) /\ Stored(r) = StoredBut(ls, k) \cup SigsOf(x)
      <4> HIDE DEF x, ls
      <4>1. x.alg = ls[k].alg /\ x.listsz # 0 /\ k \in 1 .. Len(ls)
        BY <1>6, <2>4, <3>1
      <4> QED
        BY <1>1, <3>1, <4>1, ReplaceList
    <3>3. hit # 0 /\ Del(d, s) = [d EXCEPT !.lists = r]
      BY <2>3, <2>9
    <3> HIDE DEF r, x
    <3>4. /\ Del(d, s).lists = r /\ Del(d, s).flags = d.flags
          /\ Del(d, s) \in [flags : SUBSET Flag, lists : Seq(List)]
      BY <1>1, <3>2, <3>3 DEF GoodLists
    <3>5. Stored(r) = Stored(ls) \ {s}
      BY <2>6, <2>7, <3>1, <3>2
    <3> QED
      BY <2>2, <3>2, <3>4, <3>5 DEF Good
  <2> QED
    BY <2>5, <2>8, <2>9
<1> QED
    BY <1>3, <1>5, <1>6

-----------------------------------------------------------------------------
(* Files                                                                   *)

FileItem(it) ==
    it.corrected = FALSE /\ (HashSig(it.sig) \/ it.sig.alg = Unknown)

RegularFile(f) ==
    Len(f.items) \in Nat /\ \A i \in 1 .. Len(f.items) : FileItem(f.items[i])

\* The signatures of the first n entries that have a type
SigsTo(f, n) == {f.items[i].sig : i \in {j \in 1 .. n : f.items[j].sig.alg # Unknown}}

\* g has the database after each of the first n entries of a file.
IsMerge(g, d, f, fresh, n) ==
    g = [k \in 0 .. n |->
            IF k = 0 THEN d
            ELSE Add(g[k - 1], f.items[k].sig, Forced(f.items[k], d.flags, fresh /\ k = 1))]

\* The databases after each entry of a file
LEMMA MergeExists ==
    ASSUME NEW d, NEW f, NEW fresh, NEW n \in Nat
    PROVE  \E g : IsMerge(g, d, f, fresh, n)
<1> DEFINE A(x, k) == Add(x, f.items[k].sig, Forced(f.items[k], d.flags, fresh /\ k = 1))
           M(g, m) == g = [k \in 0 .. m |-> IF k = 0 THEN d ELSE A(g[k - 1], k)]
           S == {k \in Nat : \E g : M(g, k)}
<1> HIDE DEF A
<1>1. 0 \in S
  <2>1. M([k \in 0 .. 0 |-> d], 0)
    OBVIOUS
  <2> QED
    BY <2>1
<1>2. ASSUME NEW m \in Nat, m \in S PROVE m + 1 \in S
  <2>1. PICK g : M(g, m)
    BY <1>2
  <2> DEFINE h == [k \in 0 .. (m + 1) |-> IF k = m + 1 THEN A(g[m], m + 1) ELSE g[k]]
  <2>2. ASSUME NEW k \in 0 .. (m + 1)
        PROVE  h[k] = IF k = 0 THEN d ELSE A(h[k - 1], k)
    <3>1. CASE k = m + 1
      BY <3>1
    <3>2. CASE k \in 0 .. m
      <4>1. g[k] = IF k = 0 THEN d ELSE A(g[k - 1], k)
        BY <2>1, <3>2
      <4>2. h[k] = g[k] /\ (k # 0 => h[k - 1] = g[k - 1])
        BY <3>2
      <4> QED
        BY <4>1, <4>2
    <3> QED
      BY <3>1, <3>2
  <2>3. M(h, m + 1)
    BY <2>2
  <2> HIDE DEF M, h
  <2> QED
    BY <2>3
<1> HIDE DEF S
<1>3. n \in S
    BY <1>1, <1>2, Induction
<1>4. PICK g : M(g, n)
    BY <1>3 DEF S
<1> QED
    BY <1>4 DEF A, IsMerge

\* Merge is the last of these databases.
LEMMA MergeIs ==
    ASSUME NEW d, NEW f, NEW fresh, Len(f.items) \in Nat
    PROVE  \E g : /\ Merge(d, f, fresh) = g[Len(f.items)]
                  /\ g[0] = d
                  /\ \A k \in 1 .. Len(f.items) :
                        g[k] = Add(g[k - 1], f.items[k].sig,
                                   Forced(f.items[k], d.flags, fresh /\ k = 1))
<1> DEFINE n == Len(f.items)
           g == CHOOSE x : IsMerge(x, d, f, fresh, n)
<1>1. Merge(d, f, fresh) = g[n]
    BY DEF Merge, IsMerge
<1>2. IsMerge(g, d, f, fresh, n)
  <2> HIDE DEF n
  <2>1. n \in Nat
    BY DEF n
  <2> QED
    BY <2>1, MergeExists
<1> HIDE DEF g
<1>3. g[0] = d
    BY <1>2 DEF IsMerge
<1>4. ASSUME NEW k \in 1 .. n
      PROVE  g[k] = Add(g[k - 1], f.items[k].sig, Forced(f.items[k], d.flags, fresh /\ k = 1))
    BY <1>2 DEF IsMerge
<1> QED
    BY <1>1, <1>3, <1>4

\* Two signatures with the same data under one type are one.
LEMMA StoredOnce ==
    ASSUME NEW ls, GoodLists(ls), NEW s \in Stored(ls), NEW t \in Stored(ls),
           s.alg = t.alg, s.data = t.data
    PROVE  s = t
<1>1. PICK i \in 1 .. Len(ls) : s \in SigsOf(ls[i])
    BY DEF Stored
<1>2. PICK j \in 1 .. Len(ls) : t \in SigsOf(ls[j])
    BY DEF Stored
<1>3. PICK k \in 1 .. Len(ls[i].entries) : s = SigOf(ls[i], ls[i].entries[k])
    BY <1>1 DEF SigsOf
<1>4. PICK m \in 1 .. Len(ls[j].entries) : t = SigOf(ls[j], ls[j].entries[m])
    BY <1>2 DEF SigsOf
<1>5. i = j
  <2>1. ls[i].alg = ls[j].alg
    BY <1>3, <1>4 DEF SigOf
  <2> QED
    BY <2>1 DEF GoodLists
<1>6. k = m
  <2>1. ls[i].entries[k].data = ls[i].entries[m].data
    BY <1>3, <1>4, <1>5 DEF SigOf
  <2>2. GoodEntries(ls[i].entries, Size[ls[i].alg])
    BY DEF GoodLists, HashList
  <2> QED
    BY <1>5, <2>1, <2>2 DEF GoodEntries
<1> QED
    BY <1>3, <1>4, <1>5, <1>6

\* The database m has what d has and what the first n entries of the file have.
MergedTo(m, d, f, n) ==
    /\ Good(m) /\ m.flags = d.flags
    /\ Stored(d.lists) \subseteq Stored(m.lists)
    /\ Stored(m.lists) \subseteq Stored(d.lists) \cup SigsTo(f, n)
    /\ \A s \in SigsTo(f, n) : \E t \in Stored(m.lists) : s.alg = t.alg /\ s.data = t.data

\* Parsing adds what the file has, one entry after the other.
LEMMA MergeRight ==
    ASSUME NEW d, Good(d), "SORT" \in d.flags, NEW f, RegularFile(f), NEW fresh \in BOOLEAN
    PROVE  MergedTo(Merge(d, f, fresh), d, f, Len(f.items))
<1> DEFINE N == Len(f.items)
<1>1. N \in Nat /\ \A i \in 1 .. N : FileItem(f.items[i])
    BY DEF RegularFile
<1>2. PICK g : /\ Merge(d, f, fresh) = g[N] /\ g[0] = d
               /\ \A k \in 1 .. N :
                    g[k] = Add(g[k - 1], f.items[k].sig,
                               Forced(f.items[k], d.flags, fresh /\ k = 1))
    BY <1>1, MergeIs
<1> DEFINE S == {k \in 0 .. N : MergedTo(g[k], d, f, k)}
<1> HIDE DEF N
<1>3. 0 \in S
  <2>1. SigsTo(f, 0) = {}
    BY DEF SigsTo
  <2> QED
    BY <1>1, <1>2, <2>1 DEF MergedTo
<1>4. ASSUME NEW k \in 0 .. (N - 1), k \in S PROVE k + 1 \in S
  <2> DEFINE s == f.items[k + 1].sig
             a == g[k]
             b == g[k + 1]
  <2>1. k + 1 \in 1 .. N /\ (k + 1) - 1 = k
    BY <1>1
  <2>2. FileItem(f.items[k + 1])
    BY <1>1, <2>1
  <2>3. b = Add(a, s, FALSE)
    <3>1. Forced(f.items[k + 1], d.flags, fresh /\ k + 1 = 1) = FALSE
      BY <2>2 DEF Forced, FileItem
    <3> QED
      BY <1>2, <2>1, <3>1
  <2>4. MergedTo(a, d, f, k)
    BY <1>4
  <2>5. \A i : i \in 1 .. k + 1 <=> i \in 1 .. k \/ i = k + 1
    OBVIOUS
  <2> HIDE DEF a, b
  <2>6. CASE s.alg = Unknown
    <3>1. b = a
      BY <2>3, <2>6 DEF Add
    <3>2. SigsTo(f, k + 1) = SigsTo(f, k)
      BY <2>5, <2>6 DEF SigsTo
    <3> QED
      BY <2>1, <2>4, <3>1, <3>2 DEF MergedTo, b
  <2>7. CASE HashSig(s)
    <3>1. s.alg # Unknown
      BY <2>7, UnknownIs DEF HashSig, Hash
    <3>2. SigsTo(f, k + 1) = SigsTo(f, k) \cup {s}
      BY <2>5, <3>1 DEF SigsTo
    <3> HIDE DEF s
    <3>3. Good(b) /\ b.flags = a.flags /\ Stored(b.lists) = Added(Stored(a.lists), s)
      BY <2>3, <2>4, <2>7, AddRight DEF MergedTo
    <3>4. MergedTo(b, d, f, k + 1)
      <4>1. Stored(a.lists) \subseteq Stored(b.lists) /\ Stored(b.lists) \subseteq Stored(a.lists) \cup {s}
        BY <3>3 DEF Added
      <4>2. \E t \in Stored(b.lists) : s.alg = t.alg /\ s.data = t.data
        BY <3>3 DEF Added
      <4> QED
        BY <2>4, <3>2, <3>3, <4>1, <4>2 DEF MergedTo
    <3> QED
      BY <2>1, <3>4 DEF b
  <2> QED
    BY <2>2, <2>6, <2>7 DEF FileItem
<1>5. N \in S
  <2> HIDE DEF S
  <2>1. 0 .. N \subseteq S
    BY <1>1, <1>3, <1>4, InductionTo
  <2> QED
    BY <1>1, <2>1
<1> QED
    BY <1>2, <1>5 DEF N

\* The lists stand in the order of the flags.
InOrder(d) ==
    \A i, j \in 1 .. Len(d.lists) :
        i < j => Before(ListCmp(d.lists[i], d.lists[j]), d.flags)

\* A file that is read to its end leaves the lists in order.
LEMMA ParseRight ==
    ASSUME NEW d, Good(d), "SORT" \in d.flags, NEW f, RegularFile(f), f.ok \in BOOLEAN,
           NEW fresh \in BOOLEAN
    PROVE  /\ MergedTo(Parse(d, f, fresh), d, f, Len(f.items))
           /\ f.ok => InOrder(Parse(d, f, fresh))
<1> DEFINE m == Merge(d, f, fresh)
           r == SortLists(m.lists, d.flags)
<1>1. MergedTo(m, d, f, Len(f.items))
    BY MergeRight
<1>2. Parse(d, f, fresh) = IF f.ok THEN [m EXCEPT !.lists = r] ELSE m
    BY DEF Parse
<1> HIDE DEF m
<1>3. GoodLists(m.lists) /\ m \in [flags : SUBSET Flag, lists : Seq(List)]
    BY <1>1 DEF MergedTo, Good
<1>4. /\ GoodLists(r) /\ Stored(r) = Stored(m.lists)
      /\ \A i, j \in 1 .. Len(r) : i < j => Before(ListCmp(r[i], r[j]), d.flags)
    BY <1>3, SortedLists
<1> HIDE DEF r
<1>5. CASE f.ok
  <2> DEFINE x == [m EXCEPT !.lists = r]
  <2>1. /\ x.lists = r /\ x.flags = m.flags
        /\ x \in [flags : SUBSET Flag, lists : Seq(List)]
    BY <1>3, <1>4 DEF GoodLists
  <2>2. Parse(d, f, fresh) = x
    BY <1>2, <1>5
  <2> HIDE DEF x
  <2>3. MergedTo(x, d, f, Len(f.items))
    BY <1>1, <1>4, <2>1 DEF MergedTo, Good
  <2>4. InOrder(x)
    BY <1>1, <1>4, <2>1 DEF InOrder, MergedTo
  <2> QED
    BY <2>2, <2>3, <2>4
<1>6. CASE ~f.ok
    BY <1>1, <1>2, <1>6
<1> QED
    BY <1>5, <1>6

-----------------------------------------------------------------------------
(* Realizing                                                               *)

Elements(q) == {q[i] : i \in 1 .. Len(q)}

\* The elements of two sequences behind each other
LEMMA ConcatElements ==
    ASSUME NEW S, NEW a \in Seq(S), NEW b \in Seq(S)
    PROVE  a \o b \in Seq(S) /\ Elements(a \o b) = Elements(a) \cup Elements(b)
<1> DEFINE z == a \o b
<1>1. /\ z \in Seq(S) /\ Len(z) = Len(a) + Len(b) /\ Len(a) \in Nat /\ Len(b) \in Nat
      /\ \A i \in 1 .. Len(a) + Len(b) : z[i] = IF i <= Len(a) THEN a[i] ELSE b[i - Len(a)]
    BY ConcatProperties
<1> HIDE DEF z
<1>2. ASSUME NEW i \in 1 .. Len(z) PROVE z[i] \in Elements(a) \cup Elements(b)
  <2>1. CASE i <= Len(a)
    BY <1>1, <2>1 DEF Elements
  <2>2. CASE ~(i <= Len(a))
    <3>1. i - Len(a) \in 1 .. Len(b) /\ z[i] = b[i - Len(a)]
      BY <1>1, <2>2
    <3> QED
      BY <3>1 DEF Elements
  <2> QED
    BY <2>1, <2>2
<1>3. ASSUME NEW i \in 1 .. Len(a) PROVE a[i] \in Elements(z)
  <2>1. i \in 1 .. Len(z) /\ z[i] = a[i]
    BY <1>1
  <2> QED
    BY <2>1 DEF Elements
<1>4. ASSUME NEW i \in 1 .. Len(b) PROVE b[i] \in Elements(z)
  <2>1. Len(a) + i \in 1 .. Len(z) /\ z[Len(a) + i] = b[i]
    BY <1>1
  <2> QED
    BY <2>1 DEF Elements
<1>5. Elements(z) = Elements(a) \cup Elements(b)
    BY <1>2, <1>3, <1>4 DEF Elements
<1> QED
    BY <1>1, <1>5 DEF z

IsFlat(g, seqs, n) ==
    g = [i \in 1 .. n |-> IF i = 1 THEN seqs[i] ELSE g[i - 1] \o seqs[i]]

\* The sequences that are flattened, step by step
LEMMA FlatExists ==
    ASSUME NEW seqs, NEW n \in Nat
    PROVE  \E g : IsFlat(g, seqs, n)
<1> DEFINE A(x, k) == x \o seqs[k]
           M(g, m) == g = [k \in 1 .. m |-> IF k = 1 THEN seqs[k] ELSE A(g[k - 1], k)]
           S == {k \in Nat : \E g : M(g, k)}
<1> HIDE DEF A
<1>1. 0 \in S
  <2>1. M([k \in 1 .. 0 |-> 0], 0)
    OBVIOUS
  <2> HIDE DEF M
  <2> QED
    BY <2>1
<1>2. ASSUME NEW m \in Nat, m \in S PROVE m + 1 \in S
  <2>1. PICK g : M(g, m)
    BY <1>2
  <2> DEFINE h == [k \in 1 .. (m + 1) |->
                    IF k = 1 THEN seqs[1] ELSE IF k = m + 1 THEN A(g[m], m + 1) ELSE g[k]]
  <2>2. ASSUME NEW k \in 1 .. (m + 1)
        PROVE  h[k] = IF k = 1 THEN seqs[k] ELSE A(h[k - 1], k)
    <3>1. CASE k = 1
      BY <3>1
    <3>2. ASSUME NEW i \in 1 .. m PROVE h[i] = g[i] /\ g[i] = IF i = 1 THEN seqs[i] ELSE A(g[i - 1], i)
      BY <2>1
    <3>3. CASE k # 1 /\ k = m + 1
      <4>1. k - 1 \in 1 .. m /\ k - 1 = m
        BY <3>3
      <4> QED
        BY <3>2, <3>3, <4>1
    <3>4. CASE k # 1 /\ k # m + 1
      <4>1. k \in 1 .. m /\ k - 1 \in 1 .. m
        BY <3>4
      <4> QED
        BY <3>2, <3>4, <4>1
    <3> QED
      BY <3>1, <3>3, <3>4
  <2>3. M(h, m + 1)
    BY <2>2
  <2> HIDE DEF M, h
  <2> QED
    BY <2>3
<1> HIDE DEF S
<1>3. n \in S
    BY <1>1, <1>2, Induction
<1>4. PICK g : M(g, n)
    BY <1>3 DEF S
<1> QED
    BY <1>4 DEF A, IsFlat

\* A sequence of sequences, flattened, has their elements.
LEMMA FlattenRight ==
    ASSUME NEW S, NEW seqs \in Seq(Seq(S))
    PROVE  /\ FlattenSeq(seqs) \in Seq(S)
           /\ Elements(FlattenSeq(seqs)) = UNION {Elements(seqs[i]) : i \in 1 .. Len(seqs)}
<1> DEFINE n == Len(seqs)
           U(k) == UNION {Elements(seqs[i]) : i \in 1 .. k}
<1>1. n \in Nat /\ \A i \in 1 .. n : seqs[i] \in Seq(S)
    OBVIOUS
<1>2. CASE n = 0
  <2>1. FlattenSeq(seqs) = seqs /\ seqs = <<>>
    BY <1>2 DEF FlattenSeq
  <2> QED
    BY <2>1 DEF Elements
<1>3. CASE n # 0
  <2> DEFINE g == CHOOSE x : IsFlat(x, seqs, n)
  <2>1. FlattenSeq(seqs) = g[n]
    BY <1>3 DEF FlattenSeq, IsFlat
  <2>2. IsFlat(g, seqs, n)
    <3> HIDE DEF n
    <3> QED
      BY <1>1, FlatExists
  <2> HIDE DEF g, n
  <2>3. \A i \in 1 .. n : g[i] = IF i = 1 THEN seqs[i] ELSE g[i - 1] \o seqs[i]
    BY <2>2 DEF IsFlat
  <2> DEFINE T == {k \in 0 .. n : k # 0 => g[k] \in Seq(S) /\ Elements(g[k]) = U(k)}
  <2>4. 0 \in T
    BY <1>1
  <2>5. ASSUME NEW k \in 0 .. (n - 1), k \in T PROVE k + 1 \in T
    <3>1. k + 1 \in 1 .. n /\ k + 1 \in 0 .. n /\ k + 1 # 0 /\ (k + 1) - 1 = k
      BY <1>1
    <3>2. \A i : i \in 1 .. k + 1 <=> i \in 1 .. k \/ i = k + 1
      OBVIOUS
    <3>3. U(k + 1) = U(k) \cup Elements(seqs[k + 1])
      BY <3>2
    <3>4. CASE k = 0
      <4>1. g[k + 1] = seqs[k + 1]
        BY <2>3, <3>1, <3>4
      <4>2. U(k) = {}
        BY <3>4
      <4>3. g[k + 1] \in Seq(S) /\ Elements(g[k + 1]) = U(k + 1)
        BY <1>1, <3>1, <3>3, <4>1, <4>2
      <4> HIDE DEF U
      <4> QED
        BY <3>1, <4>3
    <3>5. CASE k # 0
      <4> DEFINE a == g[k]
                 b == seqs[k + 1]
      <4>1. g[k + 1] = a \o b
        <5>1. k + 1 # 1
          BY <3>5
        <5>2. g[k + 1] = IF k + 1 = 1 THEN seqs[k + 1] ELSE g[(k + 1) - 1] \o seqs[k + 1]
          BY <2>3, <3>1, Zenon
        <5>3. g[k + 1] = g[(k + 1) - 1] \o seqs[k + 1]
          BY <5>1, <5>2, Zenon
        <5> QED
          BY <3>1, <5>3, Zenon
      <4>2. a \in Seq(S) /\ b \in Seq(S) /\ Elements(a) = U(k)
        BY <1>1, <2>5, <3>1, <3>5
      <4> HIDE DEF a
      <4>3. a \o b \in Seq(S) /\ Elements(a \o b) = Elements(a) \cup Elements(b)
        BY <4>2, ConcatElements
      <4> HIDE DEF U
      <4>4. g[k + 1] \in Seq(S) /\ Elements(g[k + 1]) = U(k + 1)
        BY <3>3, <4>1, <4>2, <4>3
      <4> QED
        BY <3>1, <4>4
    <3> QED
      BY <3>4, <3>5
  <2> HIDE DEF T, U
  <2>6. 0 .. n \subseteq T
    BY <1>1, <2>4, <2>5, InductionTo
  <2>7. n \in T
    BY <1>1, <2>6
  <2>8. g[n] \in Seq(S) /\ Elements(g[n]) = U(n)
    BY <1>3, <2>7 DEF T
  <2> QED
    BY <2>1, <2>8 DEF U, n
<1> QED
    BY <1>2, <1>3

\* A visitor sees a signature as it was added.
LEMMA VisitedIs ==
    ASSUME NEW l, HashList(l), NEW i \in 1 .. Len(l.entries)
    PROVE  Visited(l, l.entries[i]) = SigOf(l, l.entries[i])
<1> DEFINE es == l.entries
           n == Size[l.alg]
           e == es[i]
<1>1. GoodEntries(es, n) /\ n \in Nat /\ l.sigsz = n + OwnerSize
    BY SizeType DEF HashList, Hash
<1>2. e.data \in Seq(Nat) /\ Len(e.data) = n
  <2> HIDE DEF es, n
  <2>1. i \in 1 .. Len(es)
    BY DEF es
  <2> QED
    BY <1>1, <2>1, EntryOf
<1>3. l.sigsz - OwnerSize = n
    BY <1>1 DEF OwnerSize
<1> HIDE DEF n, e
<1>4. [j \in 1 .. n |-> IF j \in DOMAIN e.data THEN e.data[j] ELSE Junk] = e.data
    BY <1>2
<1> QED
    BY <1>3, <1>4 DEF Visited, SigOf, e

\* The entries of the file a list becomes
ItemsOf(l) ==
    [i \in DOMAIN l.entries |->
        [sig |-> Visited(l, l.entries[i]), first |-> i = 1, corrected |-> FALSE]]

Item(s, b) == [sig |-> s, first |-> b, corrected |-> FALSE]

Items(ls) == {Item(sb[1], sb[2]) : sb \in Stored(ls) \X BOOLEAN}

\* A list is realized with all its signatures.
LEMMA ItemsOfRight ==
    ASSUME NEW ls, GoodLists(ls), NEW k \in 1 .. Len(ls)
    PROVE  /\ ItemsOf(ls[k]) \in Seq(Items(ls))
           /\ \A s \in SigsOf(ls[k]) : \E it \in Elements(ItemsOf(ls[k])) : it.sig = s
<1> DEFINE l == ls[k]
           q == ItemsOf(l)
<1>1. HashList(l) /\ l.entries \in Seq(Entry)
    BY DEF GoodLists, HashList, GoodEntries
<1>2. DOMAIN l.entries = 1 .. Len(l.entries) /\ Len(l.entries) \in Nat
    BY <1>1
<1>3. ASSUME NEW i \in 1 .. Len(l.entries)
      PROVE  /\ q[i] = Item(SigOf(l, l.entries[i]), i = 1)
             /\ SigOf(l, l.entries[i]) \in Stored(ls)
  <2>1. SigOf(l, l.entries[i]) \in SigsOf(l)
    BY DEF SigsOf
  <2>2. Visited(l, l.entries[i]) = SigOf(l, l.entries[i])
    <3> HIDE DEF l
    <3> QED
      BY <1>1, VisitedIs
  <2> QED
    BY <1>2, <2>1, <2>2 DEF ItemsOf, Item, Stored
<1>4. \A i \in 1 .. Len(l.entries) : q[i] \in Items(ls)
  <2> SUFFICES ASSUME NEW i \in 1 .. Len(l.entries) PROVE q[i] \in Items(ls)
    OBVIOUS
  <2>1. q[i] = Item(SigOf(l, l.entries[i]), i = 1) /\ SigOf(l, l.entries[i]) \in Stored(ls)
    BY <1>3
  <2> DEFINE s == SigOf(l, l.entries[i])
             b == i = 1
  <2>2. q[i] = Item(s, b) /\ s \in Stored(ls) /\ b \in BOOLEAN
    BY <2>1
  <2> HIDE DEF s, b, q
  <2>3. <<s, b>> \in Stored(ls) \X BOOLEAN
    BY <2>2
  <2> QED
    BY <2>2, <2>3 DEF Items
<1>5. DOMAIN q = 1 .. Len(l.entries)
    BY <1>2 DEF ItemsOf
<1>6. q \in Seq(Items(ls)) /\ Len(q) = Len(l.entries)
  <2>1. q \in [1 .. Len(l.entries) -> Items(ls)]
    <3>1. q = [i \in DOMAIN q |-> q[i]]
      BY DEF ItemsOf
    <3> HIDE DEF q, l
    <3> QED
      BY <1>4, <1>5, <3>1
  <2> HIDE DEF q, l
  <2> QED
    BY <1>2, <2>1
<1>7. ASSUME NEW s \in SigsOf(l) PROVE \E it \in Elements(q) : it.sig = s
  <2>1. PICK i \in 1 .. Len(l.entries) : s = SigOf(l, l.entries[i])
    BY DEF SigsOf
  <2>2. q[i].sig = s
    <3> DEFINE b == i = 1
    <3>1. q[i] = Item(s, b)
      BY <1>3, <2>1
    <3> HIDE DEF q, b
    <3> QED
      BY <3>1 DEF Item
  <2> HIDE DEF q, l
  <2>3. q[i] \in Elements(q)
    BY <1>6 DEF Elements
  <2> QED
    BY <2>2, <2>3
<1> QED
    BY <1>6, <1>7

\* What efi_secdb_realize writes is a file with all signatures.
LEMMA RealizeRight ==
    ASSUME NEW d, Good(d)
    PROVE  LET f == Realize(d)
           IN /\ RegularFile(f) /\ f.ok = TRUE
              /\ SigsTo(f, Len(f.items)) = Stored(d.lists)
<1> DEFINE f == Realize(d)
           ls == d.lists
           qs == [k \in DOMAIN ls |-> ItemsOf(ls[k])]
           S == Items(ls)
<1>1. GoodLists(ls) /\ DOMAIN ls = 1 .. Len(ls) /\ Len(ls) \in Nat
    BY DEF Good, GoodLists
<1>2. f.items = FlattenSeq(qs) /\ f.ok = TRUE
    BY DEF Realize, ItemsOf
<1>3. qs \in Seq(Seq(S)) /\ Len(qs) = Len(ls) /\ \A k \in 1 .. Len(ls) : qs[k] = ItemsOf(ls[k])
  <2>1. \A k \in 1 .. Len(ls) : ItemsOf(ls[k]) \in Seq(S)
    <3> HIDE DEF ls
    <3> QED
      BY <1>1, ItemsOfRight
  <2> HIDE DEF S, ls
  <2>2. qs \in [1 .. Len(ls) -> Seq(S)]
    BY <1>1, <2>1
  <2> QED
    BY <1>1, <2>2
<1> DEFINE F == FlattenSeq(qs)
<1> HIDE DEF qs, S, ls
<1>4. F \in Seq(S) /\ Elements(F) = UNION {Elements(qs[i]) : i \in 1 .. Len(qs)}
    BY <1>3, FlattenRight
<1> HIDE DEF F
<1>5. ASSUME NEW it \in S
      PROVE  it.corrected = FALSE /\ it.sig \in Stored(ls) /\ HashSig(it.sig) /\ it.sig.alg # Unknown
  <2>1. PICK sb \in Stored(ls) \X BOOLEAN : it = Item(sb[1], sb[2])
    BY DEF S, Items
  <2>2. it.corrected = FALSE /\ it.sig \in Stored(ls)
    BY <2>1 DEF Item
  <2>3. HashSig(it.sig)
    BY <1>1, <2>2, StoredType
  <2> QED
    BY <2>2, <2>3, UnknownIs DEF HashSig, Hash
<1>6. Len(F) \in Nat /\ \A i \in 1 .. Len(F) : F[i] \in S
    BY <1>4
<1>7. f.items = F
    BY <1>2 DEF F
<1> HIDE DEF f
<1>8. RegularFile(f)
    BY <1>5, <1>6, <1>7 DEF RegularFile, FileItem
<1>9. ASSUME NEW s \in SigsTo(f, Len(F)) PROVE s \in Stored(ls)
    BY <1>5, <1>6, <1>7 DEF SigsTo
<1>10. ASSUME NEW s \in Stored(ls) PROVE s \in SigsTo(f, Len(F))
  <2>1. PICK k \in 1 .. Len(ls) : s \in SigsOf(ls[k])
    BY DEF Stored
  <2>2. PICK it \in Elements(ItemsOf(ls[k])) : it.sig = s
    BY <1>1, <2>1, ItemsOfRight
  <2>3. it \in Elements(F)
    <3>1. it \in Elements(qs[k]) /\ k \in 1 .. Len(qs)
      BY <1>3
    <3> QED
      BY <1>4, <3>1
  <2>4. PICK i \in 1 .. Len(F) : it = F[i]
    BY <2>3 DEF Elements
  <2>5. F[i].sig.alg # Unknown /\ s = F[i].sig
    BY <1>5, <1>6, <2>2, <2>4
  <2> QED
    BY <1>7, <2>5 DEF SigsTo
<1> QED
    BY <1>2, <1>7, <1>8, <1>9, <1>10 DEF f, ls

\* The database that is read back has the same signatures.
LEMMA RewriteRight ==
    ASSUME NEW d, Good(d), NEW fl \in SUBSET Flag, "SORT" \in fl, NEW fresh \in BOOLEAN
    PROVE  LET m == Parse(New(fl), Realize(d), fresh)
           IN Good(m) /\ m.flags = fl /\ Stored(m.lists) = Stored(d.lists) /\ InOrder(m)
<1> DEFINE e == New(fl)
           f == Realize(d)
           m == Parse(e, f, fresh)
<1>1. Good(e) /\ e.flags = fl /\ Stored(e.lists) = {}
  <2>1. GoodLists(<<>>)
    BY DEF GoodLists
  <2>2. Stored(<<>>) = {}
    BY DEF Stored
  <2> QED
    BY <2>1, <2>2 DEF New, Good, GoodLists
<1>2. RegularFile(f) /\ f.ok = TRUE /\ SigsTo(f, Len(f.items)) = Stored(d.lists)
    BY RealizeRight
<1> HIDE DEF e, f
<1>3. MergedTo(m, e, f, Len(f.items)) /\ InOrder(m)
    BY <1>1, <1>2, ParseRight
<1> HIDE DEF m
<1>4. /\ Good(m) /\ m.flags = fl
      /\ Stored(m.lists) \subseteq Stored(d.lists)
      /\ \A s \in Stored(d.lists) : \E t \in Stored(m.lists) : s.alg = t.alg /\ s.data = t.data
    BY <1>1, <1>2, <1>3 DEF MergedTo
<1>5. ASSUME NEW s \in Stored(d.lists) PROVE s \in Stored(m.lists)
  <2>1. PICK t \in Stored(m.lists) : s.alg = t.alg /\ s.data = t.data
    BY <1>4
  <2>2. t \in Stored(d.lists) /\ GoodLists(d.lists)
    BY <1>4 DEF Good
  <2>3. s = t
    BY <2>1, <2>2, StoredOnce
  <2> QED
    BY <2>3
<1> QED
    BY <1>3, <1>4, <1>5 DEF m, e, f

-----------------------------------------------------------------------------
(* The calls                                                               *)

IInv ==
    /\ Good(db) /\ "SORT" \in db.flags
    /\ last.rc \in {0, -1}
    /\ last.op \in {"parse", "rewrite"} /\ last.rc = 0 => InOrder(db)

\* What the files of callers hold
LEMMA FileRegular ==
    ASSUME Regular, NEW f \in Files
    PROVE  /\ RegularFile(f) /\ f.ok \in BOOLEAN
           /\ SigsTo(f, Len(f.items)) \subseteq {s \in Sigs : s.alg \in Alg}
<1>1. f.ok \in BOOLEAN /\ f.items \in Seq([sig : Sigs, first : BOOLEAN, corrected : {FALSE}])
    BY DEF Regular
<1>2. Len(f.items) \in Nat /\ \A i \in 1 .. Len(f.items) :
            f.items[i].corrected = FALSE /\ f.items[i].sig \in Sigs
  <2>1. Len(f.items) \in Nat /\ \A i \in 1 .. Len(f.items) :
            f.items[i] \in [sig : Sigs, first : BOOLEAN, corrected : {FALSE}]
    <3> DEFINE R == [sig : Sigs, first : BOOLEAN, corrected : {FALSE}]
    <3>1. f.items \in Seq(R)
      BY <1>1
    <3> HIDE DEF R
    <3>2. Len(f.items) \in Nat /\ \A i \in 1 .. Len(f.items) : f.items[i] \in R
      BY <3>1
    <3> QED
      BY <3>2 DEF R
  <2>2. \A it \in [sig : Sigs, first : BOOLEAN, corrected : {FALSE}] :
            it.corrected \in {FALSE} /\ it.sig \in Sigs
    OBVIOUS
  <2> QED
    BY <2>1, <2>2, Zenon
<1>3. RegularFile(f)
    BY <1>2 DEF RegularFile, FileItem, Regular
<1>4. \A s \in Sigs : s.alg # Unknown => s.alg \in Alg
    BY SigsAssumption
<1> QED
    BY <1>1, <1>2, <1>3, <1>4 DEF SigsTo

\* efi_secdb_new
LEMMA InitOK ==
    ASSUME Regular, Init
    PROVE  IInv
<1>1. PICK fl \in FlagSets : db = New(fl)
    BY DEF Init
<1>2. fl \in SUBSET Flag /\ "SORT" \in fl
    BY FlagsAssumption DEF Regular
<1>3. GoodLists(<<>>)
    BY DEF GoodLists
<1>4. Good(db) /\ db.flags = fl
    BY <1>1, <1>2, <1>3 DEF New, Good, GoodLists
<1> QED
    BY <1>2, <1>4 DEF IInv, Init

\* efi_secdb_add_entry keeps the invariant and adds one signature, or none.
LEMMA AddStep ==
    ASSUME Regular, IInv, NEW s \in Sigs, AddEntry(s)
    PROVE  /\ IInv'
           /\ \/ HashSig(s) /\ Stored(db'.lists) = Added(Stored(db.lists), s) /\ last'.rc = 0
              \/ s.alg = Unknown /\ db' = db /\ last'.rc = -1
<1>1. last' = [op |-> "add", sig |-> s, rc |-> IF s.alg = Unknown THEN -1 ELSE 0]
    BY DEF AddEntry
<1>2. last'.rc \in {0, -1} /\ last'.op = "add"
    BY <1>1
<1>3. CASE s.alg = Unknown
  <2>1. db' = db
    BY <1>3 DEF AddEntry, Add
  <2> QED
    BY <1>1, <1>2, <1>3, <2>1 DEF IInv
<1>4. CASE HashSig(s)
  <2>1. s.alg # Unknown
    BY <1>4, UnknownIs DEF HashSig, Hash
  <2>2. Good(db') /\ db'.flags = db.flags /\ Stored(db'.lists) = Added(Stored(db.lists), s)
    BY <1>4, AddRight DEF AddEntry, IInv
  <2> QED
    BY <1>1, <1>2, <1>4, <2>1, <2>2 DEF IInv
<1> QED
    BY <1>3, <1>4 DEF Regular

\* efi_secdb_del_entry keeps the invariant and removes one signature, or none.
LEMMA DelStep ==
    ASSUME Regular, IInv, NEW s \in Sigs, DelEntry(s)
    PROVE  /\ IInv'
           /\ Stored(db'.lists) = Stored(db.lists) \ {s}
           /\ last'.rc = 0 \/ (last'.rc = -1 /\ s \notin Stored(db.lists))
<1>1. db' = Del(db, s) /\ last' = [op |-> "del", sig |-> s, rc |-> DelResult(db, s)]
    BY DEF DelEntry
<1>2. last'.op = "del" /\ last'.rc = DelResult(db, s)
    BY <1>1
<1>3. CASE s.alg = Unknown
  <2>1. db' = db /\ last'.rc = -1
    BY <1>1, <1>2, <1>3 DEF Del, DelResult
  <2>2. s \notin Stored(db.lists)
    <3>1. ASSUME NEW t \in Stored(db.lists) PROVE t.alg # Unknown
      <4>1. HashSig(t)
        BY StoredType DEF IInv, Good
      <4> QED
        BY <4>1, UnknownIs DEF HashSig, Hash
    <3> QED
      BY <1>3, <3>1
  <2> QED
    BY <1>2, <2>1, <2>2 DEF IInv
<1>4. CASE HashSig(s)
  <2>1. /\ Good(db') /\ db'.flags = db.flags /\ Stored(db'.lists) = Stored(db.lists) \ {s}
        /\ last'.rc \in {0, -1} /\ (last'.rc = -1 => s \notin Stored(db.lists))
    BY <1>1, <1>2, <1>4, DelRight DEF IInv
  <2> QED
    BY <1>2, <2>1 DEF IInv
<1> QED
    BY <1>3, <1>4 DEF Regular

\* efi_secdb_set_bool keeps the invariant and the signatures.
LEMMA SetStep ==
    ASSUME Regular, IInv, NEW flag \in Settable, SetBool(flag)
    PROVE  /\ IInv'
           /\ Stored(db'.lists) = Stored(db.lists)
<1> DEFINE fl == IF flag \in db.flags THEN db.flags \ {flag} ELSE db.flags \cup {flag}
<1>1. flag # "SORT" /\ flag \in Flag
    BY FlagsAssumption DEF Regular
<1>2. db \in [flags : SUBSET Flag, lists : Seq(List)] /\ GoodLists(db.lists)
    BY DEF IInv, Good
<1>3. fl \in SUBSET Flag /\ "SORT" \in fl
    BY <1>1, <1>2 DEF IInv
<1>4. db' = [db EXCEPT !.flags = fl] /\ last' = [op |-> "set_bool", rc |-> 0]
    BY DEF SetBool
<1> HIDE DEF fl
<1>5. db'.lists = db.lists /\ db'.flags = fl /\ db' \in [flags : SUBSET Flag, lists : Seq(List)]
    BY <1>2, <1>3, <1>4
<1>6. last'.op = "set_bool" /\ last'.rc = 0
    BY <1>4
<1> QED
    BY <1>2, <1>3, <1>5, <1>6 DEF IInv, Good

\* efi_secdb_parse keeps the invariant and adds what the file has.
LEMMA ParseStep ==
    ASSUME Regular, IInv, NEW f \in Files, ParseFile(f)
    PROVE  /\ IInv'
           /\ MergedTo(db', db, f, Len(f.items))
<1>1. RegularFile(f) /\ f.ok \in BOOLEAN
    BY FileRegular
<1>2. db' = Parse(db, f, FALSE) /\ last' = [op |-> "parse", rc |-> IF f.ok THEN 0 ELSE -1]
    BY DEF ParseFile
<1>3. MergedTo(db', db, f, Len(f.items)) /\ (f.ok => InOrder(db'))
    BY <1>1, <1>2, ParseRight DEF IInv
<1>4. last'.rc \in {0, -1} /\ (last'.rc = 0 => f.ok)
    BY <1>1, <1>2
<1>5. InOrder(db)' <=> InOrder(db')
    BY DEF InOrder
<1> QED
    BY <1>3, <1>4, <1>5 DEF IInv, MergedTo

\* Realizing and parsing keep the invariant and the signatures.
LEMMA RewriteStep ==
    ASSUME Regular, IInv, Rewrite
    PROVE  /\ IInv'
           /\ Stored(db'.lists) = Stored(db.lists)
<1>1. last'.rc = 0
    BY DEF Rewrite
<1>2. \E fl \in SUBSET Flag : \E fresh \in BOOLEAN :
            "SORT" \in fl /\ db' = Parse(New(fl), Realize(db), fresh)
  <2>1. db.flags \in SUBSET Flag /\ "SORT" \in db.flags
    BY DEF IInv, Good
  <2>2. {"SORT"} \in SUBSET Flag
    BY DEF Flag
  <2>3. CASE db' = Parse(New(db.flags), Realize(db), FALSE)
    BY <2>1, <2>3
  <2>4. CASE db' = Parse(New({"SORT"}), Realize(db), TRUE)
    BY <2>2, <2>4
  <2> QED
    BY <2>3, <2>4 DEF Rewrite
<1>3. PICK fl \in SUBSET Flag : \E fresh \in BOOLEAN :
            "SORT" \in fl /\ db' = Parse(New(fl), Realize(db), fresh)
    BY <1>2
<1>4. /\ Good(db') /\ db'.flags = fl /\ "SORT" \in fl
      /\ Stored(db'.lists) = Stored(db.lists) /\ InOrder(db')
    BY <1>3, RewriteRight DEF IInv
<1>5. Good(db)' /\ InOrder(db)'
    BY <1>4
<1> QED
    BY <1>1, <1>4, <1>5 DEF IInv

\* The inductive invariant: the lists hold hashes, each list those of one type
\* with no data twice, and after a file they stand in order.
LEMMA Invariance ==
    ASSUME Regular
    PROVE  Spec => []IInv
<1>1. Init => IInv
    BY InitOK
<1>2. IInv /\ [Next]_vars => IInv'
  <2> SUFFICES ASSUME IInv, [Next]_vars PROVE IInv'
    OBVIOUS
  <2>1. CASE UNCHANGED vars
    BY <2>1 DEF vars, IInv
  <2>2. ASSUME NEW s \in Sigs, AddEntry(s) PROVE IInv'
    BY <2>2, AddStep
  <2>3. ASSUME NEW s \in Sigs, DelEntry(s) PROVE IInv'
    BY <2>3, DelStep
  <2>4. ASSUME NEW flag \in Settable, SetBool(flag) PROVE IInv'
    BY <2>4, SetStep
  <2>5. ASSUME NEW f \in Files, ParseFile(f) PROVE IInv'
    BY <2>5, ParseStep
  <2>6. CASE Rewrite
    BY <2>6, RewriteStep
  <2> QED
    BY <2>1, <2>2, <2>3, <2>4, <2>5, <2>6 DEF Next
<1> QED
    BY <1>1, <1>2, PTL DEF Spec

-----------------------------------------------------------------------------
(* Theorems                                                                *)

\* The flags and the lists of a database have their types after any calls,
\* and there is no list of a type that the library does not know (secdb.c:239).
THEOREM TypeCorrect ==
    ASSUME Regular
    PROVE  Spec => []TypeOK
<1>1. IInv => TypeOK
  <2> SUFFICES ASSUME IInv PROVE TypeOK
    OBVIOUS
  <2>1. db.flags \in SUBSET Flag /\ last.rc \in {0, -1} /\ db.lists \in Seq(List)
    BY DEF IInv, Good
  <2>2. ASSUME NEW i \in DOMAIN db.lists PROVE db.lists[i] \in List
    BY <2>1
  <2> QED
    BY <2>1, <2>2 DEF TypeOK, List
<1> QED
    BY <1>1, Invariance, PTL

\* All signatures of a type and a size are on one list, the one that
\* find_secdb_entry (secdb.c:54) finds, and after a file was parsed the lists have the order that the flags ask for
\* (secdb.c:430), whatever was added, deleted and set before.
THEOREM ListsStayRight ==
    ASSUME Regular
    PROVE  Spec => []ListsRight
<1>1. IInv => ListsRight
  <2> SUFFICES ASSUME IInv PROVE ListsRight
    OBVIOUS
  <2>1. GoodLists(db.lists) /\ DOMAIN db.lists = 1 .. Len(db.lists)
    BY DEF IInv, Good, GoodLists
  <2>2. OneListPerSize
    BY <2>1 DEF OneListPerSize, GoodLists
  <2>3. Ordered
    BY <2>1 DEF Ordered, IInv, InOrder
  <2> QED
    BY <2>2, <2>3 DEF ListsRight
<1> QED
    BY <1>1, Invariance, PTL

\* The signatures that a visitor sees
VisitedOf(l) == {Visited(l, l.entries[j]) : j \in DOMAIN l.entries}
VisitedIn(ls) == UNION {VisitedOf(ls[i]) : i \in DOMAIN ls}

\* A visitor sees what is stored.
LEMMA ContentIs ==
    ASSUME NEW ls, GoodLists(ls)
    PROVE  VisitedIn(ls) = Stored(ls)
<1>1. DOMAIN ls = 1 .. Len(ls) /\ \A i \in 1 .. Len(ls) : HashList(ls[i])
    BY DEF GoodLists
<1>2. ASSUME NEW l, HashList(l) PROVE VisitedOf(l) = SigsOf(l)
  <2>1. DOMAIN l.entries = 1 .. Len(l.entries)
    BY <1>2 DEF HashList, GoodEntries
  <2>2. \A j \in 1 .. Len(l.entries) : Visited(l, l.entries[j]) = SigOf(l, l.entries[j])
    BY <1>2, VisitedIs
  <2> QED
    BY <2>1, <2>2 DEF VisitedOf, SigsOf
<1>3. {VisitedOf(ls[i]) : i \in DOMAIN ls} = {SigsOf(ls[i]) : i \in 1 .. Len(ls)}
    BY <1>1, <1>2
<1> QED
    BY <1>3 DEF VisitedIn, Stored

\* A database of lists of lists, sorted and merged, is to its users a set of
\* signatures (SigSet): an addition ignores what is there under any owner, a
\* deletion removes one signature and nothing else, a file adds what it has,
\* and realizing and parsing changes nothing.
THEOREM Refinement ==
    ASSUME Regular
    PROVE  Spec => ActsAsSet
<1>1. Init => Set!Init
  <2> SUFFICES ASSUME Init PROVE Set!Init
    OBVIOUS
  <2>1. Content = {}
    <3>1. db.lists = <<>>
      BY DEF Init, New
    <3> QED
      BY <3>1 DEF Content
  <2> QED
    BY <2>1 DEF Init, Set!Init
<1>2. IInv /\ IInv' /\ [Next]_vars => [Set!Next]_<<Content, last>>
  <2> SUFFICES ASSUME IInv, IInv', [Next]_vars PROVE [Set!Next]_<<Content, last>>
    OBVIOUS
  <2>1. Content = Stored(db.lists)
    <3>1. Content = VisitedIn(db.lists) /\ GoodLists(db.lists)
      BY DEF Content, VisitedIn, VisitedOf, IInv, Good
    <3> QED
      BY <3>1, ContentIs
  <2>2. Content' = Stored(db'.lists)
    <3>1. Content' = VisitedIn(db'.lists)
      BY DEF Content, VisitedIn, VisitedOf
    <3>2. GoodLists(db'.lists)
      BY DEF IInv, Good
    <3> QED
      BY <3>1, <3>2, ContentIs
  <2>3. CASE UNCHANGED vars
    BY <2>1, <2>2, <2>3 DEF vars
  <2>4. ASSUME NEW s \in Sigs, AddEntry(s) PROVE Set!Next
    <3>1. last' = [op |-> "add", sig |-> s, rc |-> IF s.alg = Unknown THEN -1 ELSE 0]
      BY <2>4 DEF AddEntry
    <3>2. CASE s.alg = Unknown /\ db' = db
      <4>1. Set!Reject(s)
        BY <2>1, <2>2, <3>1, <3>2, UnknownIs DEF Set!Reject
      <4> QED
        BY <4>1 DEF Set!Next
    <3>3. CASE HashSig(s) /\ Stored(db'.lists) = Added(Stored(db.lists), s)
      <4>1. s.alg # Unknown
        BY <3>3, UnknownIs DEF HashSig, Hash
      <4>2. Set!Add(s)
        BY <2>1, <2>2, <3>1, <3>3, <4>1 DEF Set!Add, Set!Same, Added
      <4> QED
        BY <4>2 DEF Set!Next
    <3> QED
      BY <2>4, <3>2, <3>3, AddStep
  <2>5. ASSUME NEW s \in Sigs, DelEntry(s) PROVE Set!Next
    <3>1. /\ Stored(db'.lists) = Stored(db.lists) \ {s}
          /\ last'.rc = 0 \/ (last'.rc = -1 /\ s \notin Stored(db.lists))
      BY <2>5, DelStep
    <3>2. last' = [op |-> "del", sig |-> s, rc |-> last'.rc]
      BY <2>5 DEF DelEntry
    <3>3. Set!Del(s)
      BY <2>1, <2>2, <3>1, <3>2 DEF Set!Del
    <3> QED
      BY <3>3 DEF Set!Next
  <2>6. ASSUME NEW flag \in Settable, SetBool(flag) PROVE Set!Next
    <3>1. Stored(db'.lists) = Stored(db.lists)
      BY <2>6, SetStep
    <3>2. Set!Other
      BY <2>1, <2>2, <2>6, <3>1 DEF Set!Other, SetBool
    <3> QED
      BY <3>2 DEF Set!Next
  <2>7. ASSUME NEW f \in Files, ParseFile(f) PROVE Set!Next
    <3> DEFINE sigs == SigsTo(f, Len(f.items))
    <3>1. MergedTo(db', db, f, Len(f.items))
      BY <2>7, ParseStep
    <3>2. sigs \in SUBSET {s \in Sigs : s.alg \in Alg}
      BY FileRegular
    <3>3. \E rc \in {0, -1} : last' = [op |-> "parse", rc |-> rc]
      BY <2>7, FileRegular DEF ParseFile
    <3>4. /\ Stored(db.lists) \subseteq Stored(db'.lists)
          /\ Stored(db'.lists) \subseteq Stored(db.lists) \cup sigs
          /\ \A s \in sigs : \E t \in Stored(db'.lists) : s.alg = t.alg /\ s.data = t.data
      BY <3>1 DEF MergedTo
    <3>5. \A s, t \in Stored(db'.lists) : s.alg = t.alg /\ s.data = t.data => s = t
      BY <3>1, StoredOnce DEF MergedTo, Good
    <3> HIDE DEF sigs
    <3>6. Set!Load(sigs)
      BY <2>1, <2>2, <3>3, <3>4, <3>5 DEF Set!Load, Set!Same
    <3> QED
      BY <3>2, <3>6 DEF Set!Next
  <2>8. CASE Rewrite
    <3>1. Stored(db'.lists) = Stored(db.lists)
      BY <2>8, RewriteStep
    <3>2. Set!Other
      BY <2>1, <2>2, <2>8, <3>1 DEF Set!Other, Rewrite
    <3> QED
      BY <3>2 DEF Set!Next
  <2> QED
    BY <2>3, <2>4, <2>5, <2>6, <2>7, <2>8 DEF Next
<1> QED
    BY <1>1, <1>2, Invariance, PTL DEF Spec, ActsAsSet, Set!Spec
=============================================================================
