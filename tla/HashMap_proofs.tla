--------------------------- MODULE HashMap_proofs ---------------------------
(***************************************************************************)
(* Proofs about the hash map, for any keys, any hash function and any size *)
(* of the table.  What the loops of resetHashMap compute is shown by       *)
(* induction over their steps: UpTo is that principle in terms of a set,   *)
(* Iterate that a sequence of steps is a function.                         *)
(***************************************************************************)
EXTENDS HashMap, RingArithmetic, WellFoundedInduction, SequenceTheorems, FiniteSetTheorems

(* Induction over the numbers up to n, in terms of the set of those that    *)
(* have the property in question.                                           *)
LEMMA UpTo ==
  ASSUME NEW n \in Nat, NEW T, 0 \in T, \A i \in 1 .. n : i - 1 \in T => i \in T
  PROVE  \A i \in 0 .. n : i \in T
  <1> DEFINE Less == {ss \in Nat \X Nat : ss[1] < ss[2]}
             F == {i \in 0 .. n : i \notin T}
  <1>1. IsWellFoundedOn(Less, Nat)
    BY NatLessThanWellFounded DEF OpToRel
  <1>2. SUFFICES ASSUME F # {} PROVE FALSE
    OBVIOUS
  <1>3. F \subseteq Nat
    OBVIOUS
  <1> HIDE DEF Less
  <1>4. PICK i \in F : \A j \in F : <<j, i>> \notin Less
    BY <1>1, <1>2, <1>3, WFMin
  <1>5. i \in 1 .. n /\ i - 1 \notin F
    <2>1. <<i - 1, i>> \in Less \/ i = 0
      BY <1>4 DEF Less
    <2>2. QED
      BY <1>4, <2>1
  <1>6. QED
    BY <1>4, <1>5

(* A sequence of n steps from b, each a function of where it starts. *)
IsRun(S, n, b, step, g) ==
  g \in [0 .. n -> S] /\ g[0] = b /\ \A i \in 1 .. n : g[i] = step[i][g[i - 1]]

LEMMA Iterate ==
  ASSUME NEW S, NEW n \in Nat, NEW b \in S, NEW step \in [1 .. n -> [S -> S]]
  PROVE  \E g : IsRun(S, n, b, step, g)
  <1> DEFINE Run(g, m) == g[0] = b /\ \A i \in 1 .. m : g[i] = step[i][g[i - 1]]
             T == {m \in 0 .. n : \E g \in [0 .. m -> S] : Run(g, m)}
  <1>1. 0 \in T
    <2> DEFINE g == [i \in 0 .. 0 |-> b]
    <2>1. g \in [0 .. 0 -> S] /\ Run(g, 0)
      OBVIOUS
    <2> HIDE DEF g, Run
    <2>2. QED
      BY <2>1
  <1>2. ASSUME NEW m \in 1 .. n, m - 1 \in T
        PROVE  m \in T
    <2>1. PICK g \in [0 .. m - 1 -> S] : Run(g, m - 1)
      BY <1>2
    <2> DEFINE h == [i \in 0 .. m |-> IF i = m THEN step[m][g[m - 1]] ELSE g[i]]
    <2>2. h \in [0 .. m -> S]
      OBVIOUS
    <2>3. h[0] = b
      BY <2>1
    <2>4. \A i \in 1 .. m : h[i] = step[i][h[i - 1]]
      BY <2>1
    <2>5. Run(h, m)
      BY <2>3, <2>4
    <2> HIDE DEF h, Run
    <2>6. QED
      BY <2>2, <2>5
  <1>3. n \in T
    <2> HIDE DEF T
    <2>1. \A i \in 1 .. n : i - 1 \in T => i \in T
      BY <1>2
    <2>2. \A i \in 0 .. n : i \in T
      BY <1>1, <2>1, UpTo
    <2>3. QED
      BY <2>2
  <1>4. PICK g \in [0 .. n -> S] : Run(g, n)
    BY <1>3
  <1>5. IsRun(S, n, b, step, g)
    BY <1>4 DEF IsRun
  <1>6. QED
    BY <1>5

(* FlattenSeq puts one sequence after the other behind what it has. *)
Flattens(S, n, s, g) ==
  /\ g \in [0 .. n -> Seq(S)]
  /\ g[0] = << >>
  /\ \A i \in 1 .. n : g[i] = g[i - 1] \o s[i]
  /\ FlattenSeq(s) = g[n]

LEMMA FlattenSteps ==
  ASSUME NEW S, NEW n \in Nat \ {0}, NEW s \in [1 .. n -> Seq(S)]
  PROVE  \E g : Flattens(S, n, s, g)
  <1> DEFINE Lists == Seq(S)
             none == << >>
             step == [i \in 1 .. n |-> [t \in Lists |-> t \o s[i]]]
             R(f) == [i \in 1 .. n |-> IF i = 1 THEN s[i] ELSE f[i - 1] \o s[i]]
             c == CHOOSE f : f = R(f)
  <1>1. step \in [1 .. n -> [Lists -> Lists]]
    BY ConcatProperties
  <1>2. \A i \in 1 .. n : \A t \in Lists : step[i][t] = t \o s[i]
    OBVIOUS
  <1>3. none \in Lists /\ n \in Nat
    BY EmptySeq
  <1>4. FlattenSeq(s) = c[n]
    <2>1. s \in Seq(Seq(S)) /\ Len(s) = n
      OBVIOUS
    <2>2. QED
      BY <2>1 DEF FlattenSeq
  <1> HIDE DEF none, step, Lists, R, c
  <1>5. PICK g \in [0 .. n -> Lists] :
          g[0] = none /\ \A i \in 1 .. n : g[i] = step[i][g[i - 1]]
    <2>1. PICK g : IsRun(Lists, n, none, step, g)
      BY <1>1, <1>3, Iterate
    <2>2. QED
      BY <2>1 DEF IsRun
  <1>6. \A i \in 1 .. n : g[i] = g[i - 1] \o s[i]
    <2>1. \A i \in 1 .. n : g[i - 1] \in Lists
      OBVIOUS
    <2>2. QED
      BY <1>2, <1>5, <2>1
  <1>7. g[1] = s[1]
    <2>1. g[1] = g[0] \o s[1] /\ s[1] \in Seq(S)
      BY <1>6
    <2>2. QED
      BY <1>5, <2>1, ConcatEmptySeq DEF none
  <1> DEFINE h == [i \in 1 .. n |-> g[i]]
  <1>8. h = R(h)
    <2>1. ASSUME NEW i \in 1 .. n
          PROVE  g[i] = IF i = 1 THEN s[i] ELSE h[i - 1] \o s[i]
      <3>1. CASE i = 1
        BY <1>7, <3>1
      <3>2. CASE i # 1
        <4>1. h[i - 1] = g[i - 1]
          BY <3>2
        <4> HIDE DEF h
        <4>2. QED
          BY <1>6, <3>2, <4>1
      <3>3. QED
        BY <3>1, <3>2
    <2> HIDE DEF h
    <2>2. h = [i \in 1 .. n |-> IF i = 1 THEN s[i] ELSE h[i - 1] \o s[i]]
      BY <2>1 DEF h
    <2>3. QED
      BY <2>2 DEF R
  <1> HIDE DEF h
  <1>9. c = R(c)
    BY <1>8 DEF c
  <1> DEFINE T == {j \in 0 .. n : j = 0 \/ c[j] = g[j]}
  <1>10. 0 \in T
    OBVIOUS
  <1>11. ASSUME NEW i \in 1 .. n, i - 1 \in T PROVE i \in T
    <2>1. c[i] = IF i = 1 THEN s[i] ELSE c[i - 1] \o s[i]
      BY <1>9 DEF R
    <2>2. i # 1 => c[i - 1] = g[i - 1]
      BY <1>11
    <2>3. c[i] = g[i]
      BY <2>1, <2>2, <1>6, <1>7
    <2>4. QED
      BY <2>3
  <1> HIDE DEF T
  <1>12. n \in T
    <2>1. \A i \in 0 .. n : i \in T
      BY <1>10, <1>11, UpTo
    <2>2. QED
      BY <2>1
  <1>13. c[n] = g[n]
    BY <1>12 DEF T
  <1>14. Flattens(S, n, s, g)
    BY <1>4, <1>5, <1>6, <1>13 DEF Flattens, Lists, none
  <1>15. QED
    BY <1>14

----------------------------------------------------------------------------
(* Entries, and tables of n slots with a chain of entries each. *)
EntryT == [key : Keys, value : Values]
Tables(n) == [0 .. n - 1 -> Seq(EntryT)]

(* Every entry is in the slot of its key, and no key is there twice. *)
Hashed(list, n) ==
  \A i \in 0 .. n - 1 : \A j \in 1 .. Len(list[i]) : Hash[list[i][j].key] % n = i
Distinct(s) == \A i, j \in 1 .. Len(s) : s[i].key = s[j].key => i = j
WellFormed(list, n) ==
  /\ n \in Nat \ {0}
  /\ list \in Tables(n)
  /\ Hashed(list, n)
  /\ \A i \in 0 .. n - 1 : Distinct(list[i])

(* An entry is in a chain, in a table. *)
In(s, e) == \E j \in 1 .. Len(s) : s[j] = e
Holds(list, n, e) == \E i \in 0 .. n - 1 : In(list[i], e)

(* A table of n slots. *)
LEMMA SlotsAre ==
  ASSUME NEW n \in Nat, NEW list \in Tables(n)
  PROVE  DOMAIN list = 0 .. n - 1 /\ Cardinality(DOMAIN list) = n
  <1>1. DOMAIN list = 0 .. n - 1
    BY DEF Tables
  <1>2. Cardinality(0 .. n - 1) = n
    BY FS_Interval
  <1>3. QED
    BY <1>1, <1>2

(* defaultHashCode names a slot. *)
LEMMA SlotOf ==
  ASSUME NEW n \in Nat \ {0}, NEW list \in Tables(n), NEW k \in Keys
  PROVE  /\ defaultHashCode(list, k) = Hash[k] % n
         /\ defaultHashCode(list, k) \in 0 .. n - 1
  <1>1. defaultHashCode(list, k) = Hash[k] % n
    BY SlotsAre DEF defaultHashCode
  <1>2. Hash[k] \in Nat
    BY MapAssumption
  <1>3. Hash[k] % n \in 0 .. n - 1
    BY <1>2, DivMod
  <1>4. QED
    BY <1>1, <1>3

(* The entries of a table, slot after slot. *)
LEMMA EntriesSteps ==
  ASSUME NEW n \in Nat \ {0}, NEW list \in Tables(n)
  PROVE  \E g \in [0 .. n -> Seq(EntryT)] :
           /\ g[0] = << >>
           /\ \A i \in 1 .. n : g[i] = g[i - 1] \o list[i - 1]
           /\ Entries(list) = g[n]
  <1> DEFINE s == [i \in 1 .. n |-> list[i - 1]]
  <1>1. s \in [1 .. n -> Seq(EntryT)]
    BY DEF Tables
  <1>2. Entries(list) = FlattenSeq(s)
    BY SlotsAre DEF Entries
  <1>3. \A i \in 1 .. n : s[i] = list[i - 1]
    OBVIOUS
  <1> HIDE DEF s
  <1>4. PICK g : Flattens(EntryT, n, s, g)
    BY <1>1, FlattenSteps
  <1>5. g \in [0 .. n -> Seq(EntryT)] /\ g[0] = << >> /\ Entries(list) = g[n]
    BY <1>2, <1>4 DEF Flattens
  <1>6. \A i \in 1 .. n : g[i] = g[i - 1] \o list[i - 1]
    BY <1>3, <1>4 DEF Flattens
  <1>7. QED
    BY <1>5, <1>6

(* The table createHashMap and resetHashMap begin with. *)
LEMMA NoEntries ==
  ASSUME NEW n \in Nat \ {0}
  PROVE  WellFormed(Empty(n), n) /\ Entries(Empty(n)) = << >>
         /\ \A e : ~Holds(Empty(n), n, e)
  <1>1. Empty(n) \in Tables(n)
    BY EmptySeq DEF Empty, Tables
  <1>2. \A i \in 0 .. n - 1 : Empty(n)[i] = << >>
    BY DEF Empty
  <1>3. \A i \in 0 .. n - 1 : Len(Empty(n)[i]) = 0
    BY <1>2
  <1>4. WellFormed(Empty(n), n) /\ \A e : ~Holds(Empty(n), n, e)
    BY <1>1, <1>3 DEF WellFormed, Hashed, Distinct, Holds, In
  <1>5. PICK g \in [0 .. n -> Seq(EntryT)] :
          /\ g[0] = << >>
          /\ \A i \in 1 .. n : g[i] = g[i - 1] \o Empty(n)[i - 1]
          /\ Entries(Empty(n)) = g[n]
    BY <1>1, EntriesSteps
  <1> DEFINE T == {i \in 0 .. n : g[i] = << >>}
  <1>6. 0 \in T
    BY <1>5
  <1>7. ASSUME NEW i \in 1 .. n, i - 1 \in T PROVE i \in T
    <2>1. g[i] = g[i - 1] \o Empty(n)[i - 1] /\ Empty(n)[i - 1] = << >>
      <3>1. i - 1 \in 0 .. n - 1
        OBVIOUS
      <3>2. QED
        BY <1>2, <1>5, <3>1
    <2>2. g[i - 1] = << >>
      BY <1>7
    <2>3. QED
      BY <2>1, <2>2
  <1> HIDE DEF T
  <1>8. n \in T
    <2>1. \A i \in 0 .. n : i \in T
      BY <1>6, <1>7, UpTo
    <2>2. QED
      BY <2>1
  <1>9. QED
    BY <1>4, <1>5, <1>8 DEF T

(* The number of entries changes by as many as one chain grows. *)
LEMMA EntriesGrow ==
  ASSUME NEW n \in Nat \ {0}, NEW list \in Tables(n), NEW new \in Tables(n),
         NEW s \in 0 .. n - 1, NEW d \in Int, Len(new[s]) = Len(list[s]) + d,
         \A i \in 0 .. n - 1 : i # s => new[i] = list[i]
  PROVE  Len(Entries(new)) = Len(Entries(list)) + d
  <1>1. PICK g \in [0 .. n -> Seq(EntryT)] :
          /\ g[0] = << >>
          /\ \A i \in 1 .. n : g[i] = g[i - 1] \o list[i - 1]
          /\ Entries(list) = g[n]
    BY EntriesSteps
  <1>2. PICK h \in [0 .. n -> Seq(EntryT)] :
          /\ h[0] = << >>
          /\ \A i \in 1 .. n : h[i] = h[i - 1] \o new[i - 1]
          /\ Entries(new) = h[n]
    BY EntriesSteps
  <1> DEFINE T == {i \in 0 .. n : Len(h[i]) = Len(g[i]) + IF i > s THEN d ELSE 0}
  <1>3. 0 \in T
    BY <1>1, <1>2
  <1>4. ASSUME NEW i \in 1 .. n, i - 1 \in T PROVE i \in T
    <2>1. /\ g[i - 1] \in Seq(EntryT) /\ h[i - 1] \in Seq(EntryT)
          /\ list[i - 1] \in Seq(EntryT) /\ new[i - 1] \in Seq(EntryT)
      <3>1. i - 1 \in 0 .. n /\ i - 1 \in 0 .. n - 1
        OBVIOUS
      <3>2. QED
        BY <3>1 DEF Tables
    <2>2. /\ Len(g[i]) = Len(g[i - 1]) + Len(list[i - 1])
          /\ Len(h[i]) = Len(h[i - 1]) + Len(new[i - 1])
      <3>1. g[i] = g[i - 1] \o list[i - 1] /\ h[i] = h[i - 1] \o new[i - 1]
        BY <1>1, <1>2
      <3>2. Len(g[i - 1] \o list[i - 1]) = Len(g[i - 1]) + Len(list[i - 1])
        BY <2>1, ConcatProperties
      <3>3. Len(h[i - 1] \o new[i - 1]) = Len(h[i - 1]) + Len(new[i - 1])
        BY <2>1, ConcatProperties
      <3>4. QED
        BY <3>1, <3>2, <3>3
    <2>3. /\ Len(g[i - 1]) \in Nat /\ Len(list[i - 1]) \in Nat
          /\ Len(h[i - 1]) \in Nat /\ Len(new[i - 1]) \in Nat
      BY <2>1, LenProperties
    <2> DEFINE a == Len(g[i - 1])
               b == Len(h[i - 1])
               x == Len(list[i - 1])
               y == Len(new[i - 1])
    <2>4. a \in Int /\ b \in Int /\ x \in Int /\ y \in Int
      BY <2>3
    <2>5. b = a + (IF i - 1 > s THEN d ELSE 0)
      BY <1>4
    <2>6. y = IF i - 1 = s THEN x + d ELSE x
      <3>1. CASE i - 1 = s
        BY <3>1
      <3>2. CASE i - 1 # s
        <4>1. i - 1 \in 0 .. n - 1
          OBVIOUS
        <4>2. new[i - 1] = list[i - 1]
          BY <3>2, <4>1
        <4>3. QED
          BY <3>2, <4>2
      <3>3. QED
        BY <3>1, <3>2
    <2>7. Len(g[i]) = a + x /\ Len(h[i]) = b + y
      BY <2>2
    <2> HIDE DEF a, b, x, y
    <2>8. b + y = (a + x) + IF i > s THEN d ELSE 0
      BY <2>4, <2>5, <2>6
    <2>9. Len(h[i]) = Len(g[i]) + IF i > s THEN d ELSE 0
      BY <2>7, <2>8
    <2>10. i \in 0 .. n
      OBVIOUS
    <2>11. QED
      BY <2>9, <2>10, Zenon
  <1> HIDE DEF T
  <1>5. n \in T
    <2>1. \A i \in 0 .. n : i \in T
      BY <1>3, <1>4, UpTo
    <2>2. QED
      BY <2>1
  <1>6. QED
    BY <1>1, <1>2, <1>5 DEF T

(* Chains and lists of entries: what they contain. *)
LEMMA InConcat ==
  ASSUME NEW s \in Seq(EntryT), NEW t \in Seq(EntryT)
  PROVE  /\ s \o t \in Seq(EntryT)
         /\ \A e : In(s \o t, e) <=> In(s, e) \/ In(t, e)
         /\ Distinct(s) /\ Distinct(t)
            /\ (\A d, e : In(s, d) /\ In(t, e) => d.key # e.key) => Distinct(s \o t)
  <1> DEFINE u == s \o t
             m == Len(s)
             n == Len(t)
  <1>1. u \in Seq(EntryT) /\ m \in Nat /\ n \in Nat
    BY ConcatProperties, LenProperties
  <1>2. Len(u) = m + n /\ \A i \in 1 .. m + n : u[i] = IF i <= m THEN s[i] ELSE t[i - m]
    BY ConcatProperties
  <1> HIDE DEF u, m, n
  <1>3. \A i \in 1 .. m : i \in 1 .. m + n /\ u[i] = s[i]
    BY <1>1, <1>2
  <1>4. \A i \in 1 .. n : m + i \in 1 .. m + n /\ u[m + i] = t[i]
    <2>1. \A i \in 1 .. n : m + i \in 1 .. m + n /\ ~(m + i <= m) /\ (m + i) - m = i
      BY <1>1
    <2>2. QED
      BY <1>2, <2>1
  <1>5. \A i \in 1 .. m + n : i \in 1 .. m \/ i - m \in 1 .. n
    BY <1>1
  <1>6. \A i \in 1 .. m + n : /\ i \in 1 .. m => u[i] = s[i]
                              /\ i - m \in 1 .. n => u[i] = t[i - m]
    BY <1>1, <1>2
  <1>7. ASSUME NEW e PROVE In(u, e) <=> In(s, e) \/ In(t, e)
    <2>1. In(u, e) => In(s, e) \/ In(t, e)
      BY <1>2, <1>5, <1>6 DEF In, m, n
    <2>2. In(s, e) => In(u, e)
      BY <1>2, <1>3 DEF In, m, n
    <2>3. In(t, e) => In(u, e)
      BY <1>2, <1>4 DEF In, m, n
    <2>4. QED
      BY <2>1, <2>2, <2>3
  <1>8. ASSUME Distinct(s), Distinct(t), \A d, e : In(s, d) /\ In(t, e) => d.key # e.key
        PROVE  Distinct(u)
    <2>1. \A i \in 1 .. m : In(s, s[i])
      BY DEF In, m
    <2>2. \A i \in 1 .. n : In(t, t[i])
      BY DEF In, n
    <2>3. SUFFICES ASSUME NEW i \in 1 .. m + n, NEW j \in 1 .. m + n, u[i].key = u[j].key
                   PROVE  i = j
      BY <1>2 DEF Distinct
    <2>4. CASE i \in 1 .. m /\ j \in 1 .. m
      BY <1>6, <1>8, <2>3, <2>4 DEF Distinct, m
    <2>5. CASE i - m \in 1 .. n /\ j - m \in 1 .. n
      <3>1. i - m = j - m
        BY <1>6, <1>8, <2>3, <2>5 DEF Distinct, n
      <3>2. QED
        BY <1>1, <3>1
    <2>6. ~(i \in 1 .. m /\ j - m \in 1 .. n)
      BY <1>6, <1>8, <2>1, <2>2, <2>3
    <2>7. ~(j \in 1 .. m /\ i - m \in 1 .. n)
      BY <1>6, <1>8, <2>1, <2>2, <2>3
    <2>8. QED
      BY <1>5, <2>4, <2>5, <2>6, <2>7
  <1>9. QED
    BY <1>1, <1>7, <1>8 DEF u

(* The entries of a table are those in its chains, and no key comes twice. *)
LEMMA EntriesAre ==
  ASSUME NEW n, NEW list, WellFormed(list, n)
  PROVE  /\ Entries(list) \in Seq(EntryT)
         /\ Distinct(Entries(list))
         /\ \A e : In(Entries(list), e) <=> Holds(list, n, e)
  <1>1. n \in Nat \ {0} /\ list \in Tables(n)
    BY DEF WellFormed
  <1>2. PICK g \in [0 .. n -> Seq(EntryT)] :
          /\ g[0] = << >>
          /\ \A i \in 1 .. n : g[i] = g[i - 1] \o list[i - 1]
          /\ Entries(list) = g[n]
    BY <1>1, EntriesSteps
  <1> DEFINE Upper(i) == /\ Distinct(g[i])
                         /\ \A e : In(g[i], e) <=> \E s \in 0 .. i - 1 : In(list[s], e)
             T == {i \in 0 .. n : Upper(i)}
  <1>3. 0 \in T
    <2>1. Len(g[0]) = 0
      BY <1>2
    <2>2. Upper(0)
      BY <2>1 DEF Distinct, In
    <2>3. 0 \in 0 .. n
      BY <1>1
    <2> HIDE DEF Upper
    <2>4. QED
      BY <2>2, <2>3
  <1>4. ASSUME NEW i \in 1 .. n, i - 1 \in T PROVE i \in T
    <2>1. i - 1 \in 0 .. n - 1 /\ i \in 0 .. n /\ Upper(i - 1)
      BY <1>1, <1>4
    <2>2. g[i - 1] \in Seq(EntryT) /\ list[i - 1] \in Seq(EntryT)
      BY <1>1, <2>1 DEF Tables
    <2>3. g[i] = g[i - 1] \o list[i - 1]
      BY <1>2
    <2>4. ASSUME NEW e
          PROVE  In(g[i], e) <=> \E s \in 0 .. i - 1 : In(list[s], e)
      <3>1. In(g[i], e) <=> In(g[i - 1], e) \/ In(list[i - 1], e)
        BY <2>2, <2>3, InConcat
      <3>2. In(g[i - 1], e) <=> \E s \in 0 .. (i - 1) - 1 : In(list[s], e)
        BY <2>1
      <3>3. \A s : s \in 0 .. i - 1 <=> s \in 0 .. (i - 1) - 1 \/ s = i - 1
        OBVIOUS
      <3>4. QED
        BY <3>1, <3>2, <3>3
    <2>5. ASSUME NEW d, NEW e, In(g[i - 1], d), In(list[i - 1], e)
          PROVE  d.key # e.key
      <3>1. PICK s \in 0 .. (i - 1) - 1 : In(list[s], d)
        BY <2>1, <2>5
      <3>2. s \in 0 .. n - 1 /\ s # i - 1
        BY <1>1
      <3>3. Hash[d.key] % n = s
        BY <3>1, <3>2 DEF WellFormed, Hashed, In
      <3>4. Hash[e.key] % n = i - 1
        BY <2>1, <2>5 DEF WellFormed, Hashed, In
      <3>5. QED
        BY <3>2, <3>3, <3>4
    <2>6. Distinct(g[i - 1]) /\ Distinct(list[i - 1])
      BY <2>1 DEF WellFormed
    <2>7. Distinct(g[i])
      BY <2>2, <2>3, <2>5, <2>6, InConcat
    <2>8. Upper(i)
      BY <2>4, <2>7
    <2> HIDE DEF Upper
    <2>9. QED
      BY <2>1, <2>8
  <1> HIDE DEF T
  <1>5. n \in T
    <2>1. \A i \in 0 .. n : i \in T
      BY <1>1, <1>3, <1>4, UpTo
    <2>2. QED
      BY <1>1, <2>1
  <1>6. QED
    <2>1. Upper(n)
      BY <1>5 DEF T
    <2>2. g[n] \in Seq(EntryT)
      BY <1>1
    <2>3. QED
      BY <1>2, <2>1, <2>2 DEF Holds

(* A new entry behind the first one of a chain. *)
LEMMA InsertSecond ==
  ASSUME NEW s \in Seq(EntryT), NEW e \in EntryT, s # << >>
  PROVE  LET t == InsertAt(s, 2, e) IN
         /\ t \in Seq(EntryT)
         /\ Len(t) = Len(s) + 1
         /\ \A d : In(t, d) <=> In(s, d) \/ d = e
         /\ Distinct(s) /\ (\A d : In(s, d) => d.key # e.key) => Distinct(t)
  <1> DEFINE a == SubSeq(s, 1, 1)
             b == SubSeq(s, 2, Len(s))
             t == InsertAt(s, 2, e)
  <1>1. Len(s) \in Nat /\ Len(s) >= 1 /\ \A i \in 1 .. Len(s) : s[i] \in EntryT
    BY EmptySeq, ElementOfSeq
  <1>2. a \in Seq(EntryT) /\ Len(a) = 1 /\ a[1] = s[1]
    <2>1. \A i \in 1 .. 1 : s[i] \in EntryT
      BY <1>1
    <2>2. QED
      BY <2>1, SubSeqProperties
  <1>3. b \in Seq(EntryT) /\ Len(b) = Len(s) - 1 /\ \A i \in 1 .. Len(s) - 1 : b[i] = s[i + 1]
    <2>1. \A i \in 2 .. Len(s) : s[i] \in EntryT
      BY <1>1
    <2>2. /\ b \in Seq(EntryT) /\ Len(b) = IF 2 <= Len(s) THEN Len(s) - 2 + 1 ELSE 0
          /\ \A i \in 1 .. Len(s) - 2 + 1 : b[i] = s[2 + i - 1]
      BY <1>1, <2>1, SubSeqProperties
    <2>3. \A i \in 1 .. Len(s) - 1 : i \in 1 .. Len(s) - 2 + 1 /\ 2 + i - 1 = i + 1
      BY <1>1
    <2> HIDE DEF b
    <2>4. Len(b) = Len(s) - 1
      <3>1. (IF 2 <= Len(s) THEN Len(s) - 2 + 1 ELSE 0) = Len(s) - 1
        <4>1. \A l \in Nat : l >= 1 => (IF 2 <= l THEN l - 2 + 1 ELSE 0) = l - 1
          OBVIOUS
        <4>2. QED
          BY <1>1, <4>1
      <3>2. QED
        BY <2>2, <3>1
    <2>5. \A i \in 1 .. Len(s) - 1 : b[i] = s[i + 1]
      <3>1. SUFFICES ASSUME NEW i \in 1 .. Len(s) - 1 PROVE b[i] = s[i + 1]
        OBVIOUS
      <3>2. b[i] = s[2 + i - 1]
        BY <2>2, <2>3
      <3>3. QED
        BY <2>3, <3>2
    <2>6. QED
      BY <2>2, <2>4, <2>5
  <1>4. t = a \o <<e>> \o b
    BY DEF InsertAt
  <1> HIDE DEF a, b, t
  <1>5. <<e>> \in Seq(EntryT) /\ Len(<<e>>) = 1 /\ <<e>>[1] = e
    OBVIOUS
  <1> DEFINE c == a \o <<e>>
  <1>6. c \in Seq(EntryT) /\ Len(c) = 2 /\ c[1] = s[1] /\ c[2] = e
    <2> DEFINE x == <<e>>
    <2>1. x \in Seq(EntryT) /\ Len(x) = 1 /\ x[1] = e
      BY <1>5
    <2>2. c = a \o x
      OBVIOUS
    <2> HIDE DEF x, c
    <2>3. /\ c \in Seq(EntryT) /\ Len(c) = Len(a) + Len(x)
          /\ \A i \in 1 .. Len(a) + Len(x) : c[i] = IF i <= Len(a) THEN a[i] ELSE x[i - Len(a)]
      BY <1>2, <2>1, <2>2, ConcatProperties
    <2>4. QED
      BY <1>2, <2>1, <2>3
  <1>7. t = c \o b
    BY <1>4
  <1> HIDE DEF c
  <1>8. /\ t \in Seq(EntryT) /\ Len(t) = Len(s) + 1
        /\ \A i \in 1 .. Len(s) + 1 : t[i] = IF i <= 2 THEN c[i] ELSE b[i - 2]
    <2>1. /\ t \in Seq(EntryT) /\ Len(t) = Len(c) + Len(b)
          /\ \A i \in 1 .. Len(c) + Len(b) : t[i] = IF i <= Len(c) THEN c[i] ELSE b[i - Len(c)]
      BY <1>3, <1>6, <1>7, ConcatProperties
    <2>2. Len(c) + Len(b) = Len(s) + 1 /\ Len(c) = 2
      BY <1>1, <1>3, <1>6
    <2>3. QED
      BY <2>1, <2>2
  <1>9. \A i \in 1 .. Len(s) + 1 : t[i] = IF i = 2 THEN e ELSE IF i = 1 THEN s[1] ELSE s[i - 1]
    <2>1. \A i \in 3 .. Len(s) + 1 : i - 2 \in 1 .. Len(s) - 1 /\ (i - 2) + 1 = i - 1
      BY <1>1
    <2>2. \A i \in 3 .. Len(s) + 1 : t[i] = s[i - 1]
      <3>1. SUFFICES ASSUME NEW i \in 3 .. Len(s) + 1 PROVE t[i] = s[i - 1]
        OBVIOUS
      <3>2. t[i] = b[i - 2]
        BY <1>1, <1>8
      <3>3. b[i - 2] = s[(i - 2) + 1]
        BY <1>3, <2>1
      <3>4. QED
        BY <2>1, <3>2, <3>3
    <2>3. t[1] = s[1] /\ t[2] = e
      BY <1>1, <1>6, <1>8
    <2>4. \A i \in 1 .. Len(s) + 1 : i = 1 \/ i = 2 \/ i \in 3 .. Len(s) + 1
      BY <1>1
    <2>5. QED
      BY <2>2, <2>3, <2>4
  <1>10. ASSUME NEW d PROVE In(t, d) <=> In(s, d) \/ d = e
    <2>1. In(t, d) => In(s, d) \/ d = e
      <3>1. \A i \in 1 .. Len(s) + 1 : i = 2 \/ i = 1 \/ i - 1 \in 1 .. Len(s)
        BY <1>1
      <3>2. 1 \in 1 .. Len(s)
        BY <1>1
      <3>3. QED
        BY <1>8, <1>9, <3>1, <3>2 DEF In
    <2>2. d = e => In(t, d)
      <3>1. 2 \in 1 .. Len(t) /\ t[2] = e
        BY <1>1, <1>8, <1>9
      <3>2. QED
        BY <3>1 DEF In
    <2>3. ASSUME NEW i \in 1 .. Len(s), s[i] = d PROVE In(t, d)
      <3>1. CASE i = 1
        <4>1. 1 \in 1 .. Len(t) /\ t[1] = d
          BY <1>1, <1>8, <1>9, <2>3, <3>1
        <4>2. QED
          BY <4>1 DEF In
      <3>2. CASE i # 1
        <4>1. i + 1 \in 1 .. Len(s) + 1 /\ i + 1 # 2 /\ i + 1 # 1 /\ (i + 1) - 1 = i
          BY <1>1, <3>2
        <4>2. t[i + 1] = d /\ i + 1 \in 1 .. Len(t)
          BY <1>8, <1>9, <2>3, <4>1
        <4>3. QED
          BY <4>2 DEF In
      <3>3. QED
        BY <3>1, <3>2
    <2>4. QED
      BY <2>1, <2>2, <2>3 DEF In
  <1>11. ASSUME Distinct(s), \A d : In(s, d) => d.key # e.key
         PROVE  Distinct(t)
    <2>1. \A i \in 1 .. Len(s) : s[i].key # e.key
      BY <1>11 DEF In
    <2>2. SUFFICES ASSUME NEW i \in 1 .. Len(s) + 1, NEW j \in 1 .. Len(s) + 1,
                          t[i].key = t[j].key
                   PROVE  i = j
      BY <1>8 DEF Distinct
    <2> DEFINE Old(x) == IF x = 1 THEN 1 ELSE x - 1
    <2>3. \A x \in 1 .. Len(s) + 1 : x # 2 => Old(x) \in 1 .. Len(s) /\ t[x] = s[Old(x)]
      BY <1>1, <1>9
    <2>4. t[2] = e
      BY <1>1, <1>9
    <2>5. \A x, y \in 1 .. Len(s) + 1 : x # 2 /\ y # 2 /\ Old(x) = Old(y) => x = y
      BY <1>1
    <2> HIDE DEF Old
    <2>6. CASE i = 2
      BY <2>1, <2>2, <2>3, <2>4, <2>6
    <2>7. CASE j = 2
      BY <2>1, <2>2, <2>3, <2>4, <2>7
    <2>8. CASE i # 2 /\ j # 2
      <3>1. Old(i) = Old(j)
        BY <1>11, <2>2, <2>3, <2>8 DEF Distinct
      <3>2. QED
        BY <2>5, <2>8, <3>1
    <2>9. QED
      BY <2>6, <2>7, <2>8
  <1>12. QED
    BY <1>8, <1>10, <1>11 DEF t

(* A chain of one entry. *)
LEMMA OneEntry ==
  ASSUME NEW e \in EntryT
  PROVE  /\ <<e>> \in Seq(EntryT)
         /\ Len(<<e>>) = 1
         /\ \A d : In(<<e>>, d) <=> d = e
         /\ Distinct(<<e>>)
  <1>1. <<e>> \in Seq(EntryT) /\ Len(<<e>>) = 1 /\ <<e>>[1] = e
    OBVIOUS
  <1>2. QED
    BY <1>1 DEF In, Distinct

(* Another value for the key of entry p. *)
LEMMA ReplaceEntry ==
  ASSUME NEW s \in Seq(EntryT), NEW p \in 1 .. Len(s), NEW e \in EntryT, s[p].key = e.key,
         Distinct(s)
  PROVE  LET t == ReplaceAt(s, p, e) IN
         /\ t \in Seq(EntryT)
         /\ Len(t) = Len(s)
         /\ \A d : In(t, d) <=> (In(s, d) /\ d.key # e.key) \/ d = e
         /\ Distinct(t)
  <1> DEFINE t == ReplaceAt(s, p, e)
  <1>1. /\ t \in Seq(EntryT) /\ Len(t) = Len(s)
        /\ \A i \in 1 .. Len(s) : t[i] = IF i = p THEN e ELSE s[i]
    BY ExceptSeq DEF ReplaceAt
  <1> HIDE DEF t
  <1>2. \A i \in 1 .. Len(s) : t[i].key = s[i].key
    BY <1>1
  <1>3. \A i \in 1 .. Len(s) : s[i].key = e.key => i = p
    BY DEF Distinct
  <1>4. Distinct(t)
    BY <1>1, <1>2 DEF Distinct
  <1>5. ASSUME NEW d PROVE In(t, d) <=> (In(s, d) /\ d.key # e.key) \/ d = e
    BY <1>1, <1>3 DEF In
  <1>6. QED
    BY <1>1, <1>4, <1>5 DEF t

(* A chain without its entry p. *)
LEMMA RemoveEntry ==
  ASSUME NEW s \in Seq(EntryT), NEW p \in 1 .. Len(s), Distinct(s)
  PROVE  LET t == RemoveAt(s, p) IN
         /\ t \in Seq(EntryT)
         /\ Len(t) = Len(s) - 1
         /\ \A d : In(t, d) <=> In(s, d) /\ d.key # s[p].key
         /\ Distinct(t)
  <1> DEFINE a == SubSeq(s, 1, p - 1)
             b == SubSeq(s, p + 1, Len(s))
             t == RemoveAt(s, p)
  <1>1. Len(s) \in Nat /\ \A i \in 1 .. Len(s) : s[i] \in EntryT
    BY ElementOfSeq
  <1>2. a \in Seq(EntryT) /\ Len(a) = p - 1 /\ \A i \in 1 .. p - 1 : a[i] = s[i]
    <2>1. \A i \in 1 .. p - 1 : s[i] \in EntryT
      BY <1>1
    <2>2. QED
      BY <1>1, <2>1, SubSeqProperties
  <1>3. b \in Seq(EntryT) /\ Len(b) = Len(s) - p /\ \A i \in 1 .. Len(s) - p : b[i] = s[p + i]
    <2>1. \A i \in p + 1 .. Len(s) : s[i] \in EntryT
      BY <1>1
    <2>2. QED
      BY <1>1, <2>1, SubSeqProperties
  <1>4. t = a \o b
    BY DEF RemoveAt
  <1> HIDE DEF a, b, t
  <1>5. /\ t \in Seq(EntryT) /\ Len(t) = Len(s) - 1
        /\ \A i \in 1 .. Len(s) - 1 : t[i] = IF i <= p - 1 THEN a[i] ELSE b[i - (p - 1)]
    <2>1. /\ t \in Seq(EntryT) /\ Len(t) = Len(a) + Len(b)
          /\ \A i \in 1 .. Len(a) + Len(b) : t[i] = IF i <= Len(a) THEN a[i] ELSE b[i - Len(a)]
      BY <1>2, <1>3, <1>4, ConcatProperties
    <2>2. Len(a) + Len(b) = Len(s) - 1 /\ Len(a) = p - 1
      BY <1>1, <1>2, <1>3
    <2>3. QED
      BY <2>1, <2>2
  <1> DEFINE Old(i) == IF i < p THEN i ELSE i + 1
  <1>6. \A i \in 1 .. Len(s) - 1 : t[i] = s[Old(i)] /\ Old(i) \in 1 .. Len(s) /\ Old(i) # p
    <2>1. \A i \in 1 .. Len(s) - 1 :
            /\ i <= p - 1 => i \in 1 .. p - 1
            /\ ~(i <= p - 1) => i - (p - 1) \in 1 .. Len(s) - p /\ p + (i - (p - 1)) = i + 1
      BY <1>1
    <2>2. QED
      BY <1>1, <1>2, <1>3, <1>5, <2>1
  <1>7. \A i, j \in 1 .. Len(s) - 1 : Old(i) = Old(j) => i = j
    BY <1>1
  <1>8. \A j \in 1 .. Len(s) : j # p => \E i \in 1 .. Len(s) - 1 : Old(i) = j
    <2>1. SUFFICES ASSUME NEW j \in 1 .. Len(s), j # p
                   PROVE  \E i \in 1 .. Len(s) - 1 : Old(i) = j
      OBVIOUS
    <2>2. CASE j < p
      <3>1. j \in 1 .. Len(s) - 1 /\ Old(j) = j
        BY <1>1, <2>2
      <3>2. QED
        BY <3>1
    <2>3. CASE j > p
      <3>1. j - 1 \in 1 .. Len(s) - 1 /\ Old(j - 1) = j
        BY <1>1, <2>3
      <3>2. QED
        BY <3>1
    <2>4. QED
      BY <1>1, <2>1, <2>2, <2>3
  <1> HIDE DEF Old
  <1>9. \A i \in 1 .. Len(s) : s[i].key = s[p].key => i = p
    BY DEF Distinct
  <1>10. ASSUME NEW d PROVE In(t, d) <=> In(s, d) /\ d.key # s[p].key
    <2>1. In(t, d) => In(s, d) /\ d.key # s[p].key
      BY <1>5, <1>6, <1>9 DEF In
    <2>2. In(s, d) /\ d.key # s[p].key => In(t, d)
      <3>1. SUFFICES ASSUME NEW j \in 1 .. Len(s), s[j] = d, d.key # s[p].key
                     PROVE  In(t, d)
        BY DEF In
      <3>2. PICK i \in 1 .. Len(s) - 1 : Old(i) = j
        BY <1>8, <3>1
      <3>3. t[i] = d
        BY <1>6, <3>1, <3>2
      <3>4. QED
        BY <1>5, <3>3 DEF In
    <2>3. QED
      BY <2>1, <2>2
  <1>11. Distinct(t)
    BY <1>5, <1>6, <1>7 DEF Distinct
  <1>12. QED
    BY <1>5, <1>10, <1>11 DEF t

----------------------------------------------------------------------------
(* Tables: looking up a key, and a chain that is replaced by another one. *)

(* All entries with the key k are in the chain of k. *)
LEMMA ChainIs ==
  ASSUME NEW n, NEW list, WellFormed(list, n), NEW k \in Keys
  PROVE  LET i == defaultHashCode(list, k) IN
         /\ i \in 0 .. n - 1
         /\ Chain(list, k) = list[i]
         /\ Chain(list, k) \in Seq(EntryT)
         /\ Distinct(Chain(list, k))
         /\ \A e : In(Chain(list, k), e) => Holds(list, n, e)
         /\ \A e : Holds(list, n, e) /\ e.key = k => In(Chain(list, k), e)
         /\ \A j \in 0 .. n - 1 : j # i => \A e : In(list[j], e) => e.key # k
  <1> DEFINE i == defaultHashCode(list, k)
  <1>1. n \in Nat \ {0} /\ list \in Tables(n)
    BY DEF WellFormed
  <1>2. i = Hash[k] % n /\ i \in 0 .. n - 1
    BY <1>1, SlotOf
  <1>3. Chain(list, k) = list[i]
    BY DEF Chain
  <1> HIDE DEF i
  <1>4. list[i] \in Seq(EntryT) /\ Distinct(list[i])
    BY <1>1, <1>2 DEF WellFormed, Tables
  <1>5. \A e : In(list[i], e) => Holds(list, n, e)
    BY <1>2 DEF Holds
  <1>6. ASSUME NEW j \in 0 .. n - 1, j # i, NEW e, In(list[j], e) PROVE e.key # k
    <2>1. Hash[e.key] % n = j
      BY <1>6 DEF WellFormed, Hashed, In
    <2>2. QED
      BY <1>2, <1>6, <2>1
  <1>7. ASSUME NEW e, Holds(list, n, e), e.key = k PROVE In(list[i], e)
    BY <1>6, <1>7 DEF Holds
  <1>8. QED
    BY <1>2, <1>3, <1>4, <1>5, <1>6, <1>7 DEF i

(* Find is the position of the only entry with the key, if there is one. *)
LEMMA FindIs ==
  ASSUME NEW n, NEW list, WellFormed(list, n), NEW k \in Keys
  PROVE  LET s == Chain(list, k)
             p == Find(list, k) IN
         /\ p = 0 => \A e : Holds(list, n, e) => e.key # k
         /\ p # 0 => p \in 1 .. Len(s) /\ s[p].key = k /\ Holds(list, n, s[p])
         /\ \A e : Holds(list, n, e) /\ e.key = k => p # 0 /\ e = s[p]
  <1> DEFINE s == Chain(list, k)
             p == Find(list, k)
             I == {i \in 1 .. Len(s) : s[i].key = k}
  <1>1. /\ s \in Seq(EntryT) /\ Distinct(s)
        /\ \A e : In(s, e) => Holds(list, n, e)
        /\ \A e : Holds(list, n, e) /\ e.key = k => In(s, e)
    BY ChainIs
  <1>2. p = IF I # {} THEN Min(I) ELSE 0
    BY DEF Find, SelectInSeq
  <1> HIDE DEF s, p
  <1>3. Len(s) \in Nat
    BY <1>1
  <1>4. \A i, j \in I : i = j
    BY <1>1 DEF Distinct
  <1>5. ASSUME NEW i \in I PROVE p = i
    <2>1. I = {i}
      BY <1>4
    <2>2. i \in Int
      BY <1>3
    <2>3. Min({i}) = i
      BY <2>2 DEF Min
    <2> HIDE DEF I
    <2>4. QED
      BY <1>2, <2>1, <2>3
  <1>6. \A i \in 1 .. Len(s) : s[i].key = k => p = i
    BY <1>5
  <1>7. p # 0 => \E i \in 1 .. Len(s) : s[i].key = k
    BY <1>2
  <1>8. \A i \in 1 .. Len(s) : i # 0 /\ Holds(list, n, s[i])
    BY <1>1, <1>3 DEF In
  <1>9. p # 0 => p \in 1 .. Len(s) /\ s[p].key = k /\ Holds(list, n, s[p])
    BY <1>6, <1>7, <1>8
  <1>10. ASSUME NEW e, Holds(list, n, e), e.key = k PROVE p # 0 /\ e = s[p]
    <2>1. PICK i \in 1 .. Len(s) : s[i] = e
      BY <1>1, <1>10 DEF In
    <2>2. QED
      BY <1>6, <1>8, <1>10, <2>1
  <1>11. QED
    BY <1>9, <1>10 DEF s, p

(* A chain t in the place of that of k, which differs in entries of k only. *)
LEMMA ChainReplaced ==
  ASSUME NEW n, NEW list, WellFormed(list, n), NEW k \in Keys,
         NEW t \in Seq(EntryT), Distinct(t),
         \A e : In(t, e) => In(Chain(list, k), e) \/ e.key = k
  PROVE  LET new == [list EXCEPT ![defaultHashCode(list, k)] = t] IN
         /\ WellFormed(new, n)
         /\ Len(Entries(new)) = Len(Entries(list)) + (Len(t) - Len(Chain(list, k)))
         /\ \A e : Holds(new, n, e) /\ e.key = k <=> In(t, e) /\ e.key = k
         /\ (\A e : e.key # k => (In(t, e) <=> In(Chain(list, k), e)))
            => \A e : e.key # k => (Holds(new, n, e) <=> Holds(list, n, e))
  <1> DEFINE i == defaultHashCode(list, k)
             new == [list EXCEPT ![i] = t]
  <1>1. n \in Nat \ {0} /\ list \in Tables(n)
    BY DEF WellFormed
  <1>2. /\ i \in 0 .. n - 1 /\ Chain(list, k) = list[i] /\ list[i] \in Seq(EntryT)
        /\ \A j \in 0 .. n - 1 : j # i => \A e : In(list[j], e) => e.key # k
    BY ChainIs
  <1>3. i = Hash[k] % n
    BY <1>1, SlotOf
  <1> HIDE DEF i
  <1>4. new \in Tables(n)
    BY <1>1, <1>2 DEF Tables
  <1>5. new[i] = t /\ \A j \in 0 .. n - 1 : j # i => new[j] = list[j]
    BY <1>1, <1>2 DEF Tables
  <1> HIDE DEF new
  <1>6. Hashed(new, n)
    <2>1. SUFFICES ASSUME NEW j \in 0 .. n - 1, NEW e, In(new[j], e)
                   PROVE  Hash[e.key] % n = j
      BY DEF Hashed, In
    <2>2. \A x \in 0 .. n - 1 : \A y : In(list[x], y) => Hash[y.key] % n = x
      BY DEF WellFormed, Hashed, In
    <2>3. CASE j # i
      BY <1>5, <2>1, <2>2, <2>3
    <2>4. CASE j = i
      <3>1. In(list[i], e) \/ e.key = k
        BY <1>2, <1>5, <2>1, <2>4
      <3>2. QED
        BY <1>2, <1>3, <2>2, <2>4, <3>1
    <2>5. QED
      BY <2>3, <2>4
  <1>7. \A j \in 0 .. n - 1 : Distinct(new[j])
    BY <1>5 DEF WellFormed
  <1>8. WellFormed(new, n)
    BY <1>1, <1>4, <1>6, <1>7 DEF WellFormed
  <1>9. Len(Entries(new)) = Len(Entries(list)) + (Len(t) - Len(list[i]))
    <2> DEFINE d == Len(t) - Len(list[i])
    <2>1. Len(t) \in Nat /\ Len(list[i]) \in Nat
      BY <1>2, LenProperties
    <2>2. d \in Int /\ Len(new[i]) = Len(list[i]) + d
      BY <1>5, <2>1
    <2> HIDE DEF d
    <2>3. Len(Entries(new)) = Len(Entries(list)) + d
      BY <1>1, <1>2, <1>4, <1>5, <2>2, EntriesGrow
    <2>4. QED
      BY <2>3 DEF d
  <1>10. ASSUME NEW e, e.key = k PROVE Holds(new, n, e) <=> In(t, e)
    BY <1>2, <1>5, <1>10 DEF Holds
  <1>11. ASSUME \A e : e.key # k => (In(t, e) <=> In(list[i], e)), NEW e, e.key # k
         PROVE  Holds(new, n, e) <=> Holds(list, n, e)
    <2>1. \A j \in 0 .. n - 1 : In(new[j], e) <=> In(list[j], e)
      BY <1>5, <1>11
    <2>2. QED
      BY <2>1 DEF Holds
  <1>12. QED
    BY <1>2, <1>8, <1>9, <1>10, <1>11 DEF i, new

(* An entry with a new key is added to what the table holds. *)
LEMMA AddedHolds ==
  ASSUME NEW n, NEW list, WellFormed(list, n), NEW e \in EntryT,
         \A d : Holds(list, n, d) => d.key # e.key
  PROVE  /\ WellFormed(Added(list, e), n)
         /\ Len(Entries(Added(list, e))) = Len(Entries(list)) + 1
         /\ \A d : Holds(Added(list, e), n, d) <=> Holds(list, n, d) \/ d = e
  <1> DEFINE k == e.key
             i == defaultHashCode(list, k)
             s == Chain(list, k)
             t == IF s = << >> THEN <<e>> ELSE InsertAt(s, 2, e)
  <1>1. k \in Keys
    BY DEF EntryT
  <1>2. /\ i \in 0 .. n - 1 /\ s = list[i] /\ s \in Seq(EntryT) /\ Distinct(s)
        /\ \A d : In(s, d) => Holds(list, n, d)
    BY <1>1, ChainIs
  <1>3. Added(list, e) = [list EXCEPT ![i] = t]
    BY <1>2 DEF Added
  <1>4. \A d : In(s, d) => d.key # k
    BY <1>2
  <1> HIDE DEF i, s
  <1>5. /\ t \in Seq(EntryT) /\ Len(t) = Len(s) + 1 /\ Distinct(t)
        /\ \A d : In(t, d) <=> In(s, d) \/ d = e
    <2>1. CASE s = << >>
      <3>1. \A d : ~In(s, d)
        BY <2>1 DEF In
      <3>2. t = <<e>> /\ Len(s) = 0
        BY <2>1
      <3>3. QED
        BY <3>1, <3>2, OneEntry
    <2>2. CASE s # << >>
      BY <1>2, <1>4, <2>2, InsertSecond
    <2>3. QED
      BY <2>1, <2>2
  <1> HIDE DEF t
  <1> DEFINE new == [list EXCEPT ![i] = t]
  <1>6. \A d : In(t, d) => In(s, d) \/ d.key = k
    BY <1>5
  <1>7. \A d : d.key # k => (In(t, d) <=> In(s, d))
    BY <1>5
  <1> HIDE DEF k
  <1>8. /\ WellFormed(new, n)
        /\ Len(Entries(new)) = Len(Entries(list)) + (Len(t) - Len(s))
        /\ \A d : Holds(new, n, d) /\ d.key = k <=> In(t, d) /\ d.key = k
        /\ \A d : d.key # k => (Holds(new, n, d) <=> Holds(list, n, d))
    BY <1>1, <1>5, <1>6, <1>7, ChainReplaced DEF i, s
  <1>9. Len(Entries(new)) = Len(Entries(list)) + 1
    <2>1. Len(t) - Len(s) = 1
      BY <1>2, <1>5
    <2>2. QED
      BY <1>8, <2>1
  <1>10. \A d : Holds(new, n, d) <=> Holds(list, n, d) \/ d = e
    BY <1>4, <1>5, <1>8 DEF k
  <1>11. QED
    BY <1>3, <1>8, <1>9, <1>10

(* Reput puts one entry after the other, the first into an empty table. *)
LEMMA ReputSteps ==
  ASSUME NEW n \in Nat \ {0}, NEW e \in Seq(EntryT)
  PROVE  \E g \in [0 .. Len(e) -> Tables(n)] :
           /\ g[0] = Empty(n)
           /\ \A i \in 1 .. Len(e) : g[i] = Added(g[i - 1], e[i])
           /\ Reput(e, n) = g[Len(e)]
  <1> DEFINE m == Len(e)
             step == [i \in 1 .. m |-> [t \in Tables(n) |-> Added(t, e[i])]]
             R(f) == [i \in 0 .. m |-> IF i = 0 THEN Empty(n) ELSE Added(f[i - 1], e[i])]
             c == CHOOSE f : f = R(f)
  <1>1. m \in Nat /\ \A i \in 1 .. m : e[i] \in EntryT
    BY ElementOfSeq
  <1>2. ASSUME NEW t \in Tables(n), NEW d \in EntryT PROVE Added(t, d) \in Tables(n)
    <2> DEFINE j == defaultHashCode(t, d.key)
               s == t[j]
               u == IF s = << >> THEN <<d>> ELSE InsertAt(s, 2, d)
    <2>1. Added(t, d) = [t EXCEPT ![j] = u] /\ d.key \in Keys
      BY DEF Added, EntryT
    <2>2. j \in 0 .. n - 1
      BY <2>1, SlotOf
    <2> HIDE DEF j
    <2>3. s \in Seq(EntryT)
      BY <2>2 DEF Tables
    <2> HIDE DEF s
    <2>4. u \in Seq(EntryT)
      BY <2>3, OneEntry, InsertSecond
    <2> HIDE DEF u
    <2>5. QED
      BY <2>1, <2>2, <2>4 DEF Tables
  <1>3. Empty(n) \in Tables(n)
    BY NoEntries DEF WellFormed
  <1>4. Reput(e, n) = c[m]
    BY DEF Reput
  <1>5. step \in [1 .. m -> [Tables(n) -> Tables(n)]]
    BY <1>1, <1>2
  <1>6. \A i \in 1 .. m : \A t \in Tables(n) : step[i][t] = Added(t, e[i])
    OBVIOUS
  <1> DEFINE Lists == Tables(n)
             none == Empty(n)
  <1> HIDE DEF m, step, R, c, Lists, none
  <1>7. PICK g : IsRun(Lists, m, none, step, g)
    BY <1>1, <1>3, <1>5, Iterate DEF Lists, none
  <1>8. g \in [0 .. m -> Lists] /\ g[0] = none /\ \A i \in 1 .. m : g[i] = step[i][g[i - 1]]
    BY <1>7 DEF IsRun
  <1>9. \A i \in 1 .. m : g[i] = Added(g[i - 1], e[i])
    <2>1. \A i \in 1 .. m : g[i - 1] \in Lists
      BY <1>1, <1>8
    <2>2. QED
      BY <1>6, <1>8, <2>1 DEF Lists
  <1>10. g = R(g)
    <2>1. g = [i \in 0 .. m |-> g[i]]
      BY <1>8
    <2>2. \A i \in 0 .. m : g[i] = IF i = 0 THEN Empty(n) ELSE Added(g[i - 1], e[i])
      <3>1. \A i \in 0 .. m : i = 0 \/ i \in 1 .. m
        BY <1>1
      <3>2. QED
        BY <1>8, <1>9, <3>1 DEF none
    <2>3. QED
      BY <2>1, <2>2 DEF R
  <1>11. c = R(c)
    BY <1>10 DEF c
  <1>12. \A i \in 0 .. m : c[i] = IF i = 0 THEN Empty(n) ELSE Added(c[i - 1], e[i])
    BY <1>11 DEF R
  <1> DEFINE T == {i \in 0 .. m : c[i] = g[i]}
  <1>13. 0 \in T
    BY <1>1, <1>8, <1>12 DEF none
  <1>14. ASSUME NEW i \in 1 .. m, i - 1 \in T PROVE i \in T
    <2>1. i \in 0 .. m /\ i # 0
      BY <1>1
    <2>2. c[i - 1] = g[i - 1]
      BY <1>14
    <2>3. c[i] = g[i]
      BY <1>9, <1>12, <2>1, <2>2
    <2>4. QED
      BY <2>1, <2>3
  <1> HIDE DEF T
  <1>15. m \in T
    <2>1. \A i \in 0 .. m : i \in T
      BY <1>1, <1>13, <1>14, UpTo
    <2>2. QED
      BY <1>1, <2>1
  <1>16. c[m] = g[m]
    BY <1>15 DEF T
  <1>17. QED
    BY <1>4, <1>8, <1>9, <1>16 DEF m, Lists, none

(* Entries that are put into an empty table are what it holds then. *)
LEMMA ReputHolds ==
  ASSUME NEW n \in Nat \ {0}, NEW e \in Seq(EntryT), Distinct(e)
  PROVE  /\ WellFormed(Reput(e, n), n)
         /\ Len(Entries(Reput(e, n))) = Len(e)
         /\ \A d : Holds(Reput(e, n), n, d) <=> In(e, d)
  <1>1. PICK g \in [0 .. Len(e) -> Tables(n)] :
          /\ g[0] = Empty(n)
          /\ \A i \in 1 .. Len(e) : g[i] = Added(g[i - 1], e[i])
          /\ Reput(e, n) = g[Len(e)]
    BY ReputSteps
  <1>2. Len(e) \in Nat /\ \A i \in 1 .. Len(e) : e[i] \in EntryT
    BY ElementOfSeq
  <1> DEFINE Done(i) == /\ WellFormed(g[i], n)
                        /\ Len(Entries(g[i])) = i
                        /\ \A d : Holds(g[i], n, d) <=> \E j \in 1 .. i : e[j] = d
             T == {i \in 0 .. Len(e) : Done(i)}
  <1>3. 0 \in T
    <2>1. Done(0)
      BY <1>1, NoEntries
    <2>2. 0 \in 0 .. Len(e)
      BY <1>2
    <2> HIDE DEF Done
    <2>3. QED
      BY <2>1, <2>2
  <1>4. ASSUME NEW i \in 1 .. Len(e), i - 1 \in T PROVE i \in T
    <2>1. /\ i \in 0 .. Len(e) /\ i - 1 \in Int /\ i \in Int
          /\ \A j : j \in 1 .. i <=> j \in 1 .. i - 1 \/ j = i
          /\ \A j \in 1 .. i - 1 : j \in 1 .. Len(e) /\ j # i
      BY <1>2
    <2>2. Done(i - 1)
      BY <1>4
    <2>3. g[i] = Added(g[i - 1], e[i]) /\ e[i] \in EntryT
      BY <1>1, <1>2
    <2>4. \A d : Holds(g[i - 1], n, d) => d.key # e[i].key
      <3>1. SUFFICES ASSUME NEW j \in 1 .. i - 1, e[j].key = e[i].key PROVE FALSE
        BY <2>2
      <3>2. QED
        BY <2>1, <3>1 DEF Distinct
    <2>5. /\ WellFormed(g[i], n)
          /\ Len(Entries(g[i])) = (i - 1) + 1
          /\ \A d : Holds(g[i], n, d) <=> Holds(g[i - 1], n, d) \/ d = e[i]
      BY <2>2, <2>3, <2>4, AddedHolds
    <2>6. (i - 1) + 1 = i
      BY <2>1
    <2>7. \A d : Holds(g[i], n, d) <=> \E j \in 1 .. i : e[j] = d
      BY <2>1, <2>2, <2>5
    <2>8. Done(i)
      BY <2>5, <2>6, <2>7
    <2> HIDE DEF Done
    <2>9. QED
      BY <2>1, <2>8
  <1> HIDE DEF T
  <1>5. Len(e) \in T
    <2>1. \A i \in 0 .. Len(e) : i \in T
      BY <1>2, <1>3, <1>4, UpTo
    <2>2. QED
      BY <1>2, <2>1
  <1>6. Done(Len(e))
    BY <1>5 DEF T
  <1>7. QED
    BY <1>1, <1>6 DEF In

(* A resize changes the number of slots and nothing else. *)
LEMMA ResetKeeps ==
  ASSUME NEW m, NEW list, WellFormed(list, m), NEW n \in Nat
  PROVE  LET new == resetHashMap(list, n)
             slots == IF n < DEFAULT_MAP_SIZE THEN m ELSE n IN
         /\ Cardinality(DOMAIN new) = slots
         /\ WellFormed(new, slots)
         /\ Len(Entries(new)) = Len(Entries(list))
         /\ \A e : Holds(new, slots, e) <=> Holds(list, m, e)
  <1>1. CASE n < DEFAULT_MAP_SIZE
    <2>1. resetHashMap(list, n) = list
      BY <1>1 DEF resetHashMap
    <2>2. Cardinality(DOMAIN list) = m
      BY SlotsAre DEF WellFormed
    <2>3. QED
      BY <1>1, <2>1, <2>2
  <1>2. CASE ~(n < DEFAULT_MAP_SIZE)
    <2> DEFINE e == Entries(list)
               new == Reput(e, n)
    <2>1. resetHashMap(list, n) = new
      BY <1>2 DEF resetHashMap
    <2>2. n \in Nat \ {0}
      BY <1>2, MapAssumption
    <2>3. e \in Seq(EntryT) /\ Distinct(e) /\ \A d : In(e, d) <=> Holds(list, m, d)
      BY EntriesAre
    <2> HIDE DEF e
    <2>4. WellFormed(new, n) /\ Len(Entries(new)) = Len(e) /\ \A d : Holds(new, n, d) <=> In(e, d)
      BY <2>2, <2>3, ReputHolds
    <2> HIDE DEF new
    <2>5. Cardinality(DOMAIN new) = n
      BY <2>2, <2>4, SlotsAre DEF WellFormed
    <2>6. QED
      BY <1>2, <2>1, <2>3, <2>4, <2>5 DEF e
  <1>3. QED
    BY <1>1, <1>2

----------------------------------------------------------------------------
(* The inductive invariant: an entry is in the slot of its key, once, and   *)
(* size counts them.                                                        *)
MapInv ==
  /\ size \in Nat
  /\ WellFormed(hash_list, listSize)
  /\ SizeExact

InMap(e) == Holds(hash_list, listSize, e)
Entry(k, v) == [key |-> k, value |-> v]

(* After a put the map has one entry for k, after a removal none, and all   *)
(* other entries are as they were.                                          *)

(* A put of a key that is there. *)
LEMMA PutPresentStep ==
  ASSUME MapInv, NEW k \in Keys, NEW v \in Values, PutPresent(k, v)
  PROVE  /\ MapInv'
         /\ \A e : InMap(e)' <=> (InMap(e) /\ e.key # k) \/ e = Entry(k, v)
  <1> DEFINE n == listSize
             list == hash_list
             s == Chain(list, k)
             p == Find(list, k)
             t == ReplaceAt(s, p, Entry(k, v))
  <1>1. WellFormed(list, n) /\ size = Len(Entries(list)) /\ size \in Nat
    BY DEF MapInv, SizeExact
  <1>2. Entry(k, v) \in EntryT /\ Entry(k, v).key = k
    BY DEF Entry, EntryT
  <1>3. /\ s = list[defaultHashCode(list, k)] /\ s \in Seq(EntryT) /\ Distinct(s)
        /\ \A e : Holds(list, n, e) /\ e.key = k => In(s, e)
        /\ \A e : In(s, e) => Holds(list, n, e)
    BY <1>1, ChainIs
  <1>4. p \in 1 .. Len(s) /\ s[p].key = k
    BY <1>1, FindIs DEF PutPresent, defaultExists
  <1>5. /\ t \in Seq(EntryT) /\ Len(t) = Len(s) /\ Distinct(t)
        /\ \A e : In(t, e) <=> (In(s, e) /\ e.key # k) \/ e = Entry(k, v)
    BY <1>2, <1>3, <1>4, ReplaceEntry
  <1>6. /\ hash_list' = [list EXCEPT ![defaultHashCode(list, k)] = t]
        /\ listSize' = n /\ size' = size
    BY <1>3 DEF PutPresent, Entry, Chain
  <1> HIDE DEF s, p, t
  <1>7. \A e : In(t, e) => In(s, e) \/ e.key = k
    BY <1>2, <1>5
  <1>8. \A e : e.key # k => (In(t, e) <=> In(s, e))
    BY <1>2, <1>5
  <1> DEFINE new == [list EXCEPT ![defaultHashCode(list, k)] = t]
  <1>9. /\ WellFormed(new, n)
        /\ Len(Entries(new)) = Len(Entries(list)) + (Len(t) - Len(s))
        /\ \A e : Holds(new, n, e) /\ e.key = k <=> In(t, e) /\ e.key = k
        /\ \A e : e.key # k => (Holds(new, n, e) <=> Holds(list, n, e))
    BY <1>1, <1>5, <1>7, <1>8, ChainReplaced DEF s
  <1>10. Len(Entries(new)) = Len(Entries(list))
    <2>1. Len(t) - Len(s) = 0
      BY <1>3, <1>5
    <2>2. QED
      BY <1>1, <1>9, <2>1
  <1>11. \A e : Holds(new, n, e) <=> (Holds(list, n, e) /\ e.key # k) \/ e = Entry(k, v)
    BY <1>2, <1>5, <1>9
  <1> HIDE DEF new
  <1>12. hash_list' = new
    BY <1>6 DEF new
  <1>13. QED
    BY <1>1, <1>6, <1>9, <1>10, <1>11, <1>12 DEF MapInv, SizeExact, InMap

(* A put of a new key, and the doubling it may cause. *)
LEMMA PutNewStep ==
  ASSUME MapInv, NEW k \in Keys, NEW v \in Values, PutNew(k, v)
  PROVE  /\ MapInv'
         /\ \A e : InMap(e)' <=> (InMap(e) /\ e.key # k) \/ e = Entry(k, v)
         /\ size' = size + 1
         /\ listSize' = IF size + 1 >= listSize /\ 2 * listSize >= DEFAULT_MAP_SIZE
                        THEN 2 * listSize ELSE listSize
  <1> DEFINE n == listSize
             list == Added(hash_list, Entry(k, v))
             grow == size + 1 >= n
             slots == IF grow /\ 2 * n >= DEFAULT_MAP_SIZE THEN 2 * n ELSE n
  <1>1. /\ WellFormed(hash_list, n) /\ size = Len(Entries(hash_list))
        /\ size \in Nat /\ n \in Nat \ {0}
    BY DEF MapInv, SizeExact, WellFormed
  <1>2. Entry(k, v) \in EntryT /\ Entry(k, v).key = k
    BY DEF Entry, EntryT
  <1>3. \A e : Holds(hash_list, n, e) => e.key # k
    BY <1>1, FindIs DEF PutNew, defaultExists
  <1>4. /\ hash_list' = IF grow THEN resetHashMap(list, 2 * n) ELSE list
        /\ size' = size + 1
        /\ listSize' = Cardinality(DOMAIN hash_list')
    BY DEF PutNew, Entry
  <1>5. /\ WellFormed(list, n)
        /\ Len(Entries(list)) = Len(Entries(hash_list)) + 1
        /\ \A e : Holds(list, n, e) <=> Holds(hash_list, n, e) \/ e = Entry(k, v)
    BY <1>1, <1>2, <1>3, AddedHolds
  <1> HIDE DEF list
  <1>6. /\ Cardinality(DOMAIN hash_list') = slots
        /\ WellFormed(hash_list', slots)
        /\ Len(Entries(hash_list')) = Len(Entries(list))
        /\ \A e : Holds(hash_list', slots, e) <=> Holds(list, n, e)
    <2>1. CASE grow
      <3>1. 2 * n \in Nat
        BY <1>1
      <3>2. hash_list' = resetHashMap(list, 2 * n)
        BY <1>4, <2>1
      <3>3. slots = IF 2 * n < DEFAULT_MAP_SIZE THEN n ELSE 2 * n
        BY <2>1, <3>1, MapAssumption
      <3> HIDE DEF slots
      <3>4. QED
        BY <1>5, <3>1, <3>2, <3>3, ResetKeeps
    <2>2. CASE ~grow
      <3>1. hash_list' = list /\ slots = n
        BY <1>4, <2>2
      <3>2. Cardinality(DOMAIN list) = n
        BY <1>5, SlotsAre DEF WellFormed
      <3>3. QED
        BY <1>5, <3>1, <3>2
    <2>3. QED
      BY <2>1, <2>2
  <1> HIDE DEF slots
  <1>7. listSize' = slots
    BY <1>4, <1>6
  <1>8. \A e : InMap(e)' <=> Holds(hash_list', slots, e)
    BY <1>7 DEF InMap
  <1>9. \A e : InMap(e)' <=> (InMap(e) /\ e.key # k) \/ e = Entry(k, v)
    BY <1>2, <1>3, <1>5, <1>6, <1>8 DEF InMap
  <1>10. MapInv'
    BY <1>1, <1>4, <1>5, <1>6, <1>7 DEF MapInv, SizeExact
  <1>11. QED
    BY <1>4, <1>7, <1>9, <1>10 DEF slots

(* A removal, and the halving it may cause. *)
LEMMA RemoveStep ==
  ASSUME MapInv, NEW k \in Keys, defaultRemove(k)
  PROVE  /\ MapInv'
         /\ \A e : InMap(e)' <=> InMap(e) /\ e.key # k
         /\ size' = size - 1
         /\ listSize' = IF size - 1 < listSize \div 2 /\ listSize \div 2 >= DEFAULT_MAP_SIZE
                        THEN listSize \div 2 ELSE listSize
  <1> DEFINE n == listSize
             half == n \div 2
             s == Chain(hash_list, k)
             p == Find(hash_list, k)
             t == RemoveAt(s, p)
             list == [hash_list EXCEPT ![defaultHashCode(hash_list, k)] = t]
             shrink == size - 1 < half
             slots == IF shrink /\ half >= DEFAULT_MAP_SIZE THEN half ELSE n
  <1>1. /\ WellFormed(hash_list, n) /\ size = Len(Entries(hash_list))
        /\ size \in Nat /\ n \in Nat \ {0}
    BY DEF MapInv, SizeExact, WellFormed
  <1>2. half \in Nat
    BY <1>1
  <1>3. /\ s = hash_list[defaultHashCode(hash_list, k)] /\ s \in Seq(EntryT) /\ Distinct(s)
        /\ \A e : Holds(hash_list, n, e) /\ e.key = k => In(s, e)
        /\ \A e : In(s, e) => Holds(hash_list, n, e)
    BY <1>1, ChainIs
  <1>4. p \in 1 .. Len(s) /\ s[p].key = k
    BY <1>1, FindIs DEF defaultRemove, defaultExists
  <1>5. /\ t \in Seq(EntryT) /\ Len(t) = Len(s) - 1 /\ Distinct(t)
        /\ \A e : In(t, e) <=> In(s, e) /\ e.key # k
    BY <1>3, <1>4, RemoveEntry
  <1>6. /\ hash_list' = IF shrink THEN resetHashMap(list, half) ELSE list
        /\ size' = size - 1
        /\ listSize' = Cardinality(DOMAIN hash_list')
    BY <1>3 DEF defaultRemove, Chain
  <1> HIDE DEF s, p, t, half
  <1>7. \A e : In(t, e) => In(s, e) \/ e.key = k
    BY <1>5
  <1>8. \A e : e.key # k => (In(t, e) <=> In(s, e))
    BY <1>5
  <1>9. /\ WellFormed(list, n)
        /\ Len(Entries(list)) = Len(Entries(hash_list)) + (Len(t) - Len(s))
        /\ \A e : Holds(list, n, e) /\ e.key = k <=> In(t, e) /\ e.key = k
        /\ \A e : e.key # k => (Holds(list, n, e) <=> Holds(hash_list, n, e))
    <2>1. t \in Seq(EntryT) /\ Distinct(t)
      BY <1>5
    <2>2. QED
      BY <1>1, <1>7, <1>8, <2>1, ChainReplaced DEF s
  <1> HIDE DEF list
  <1>10. Len(Entries(list)) = size - 1 /\ size - 1 \in Nat
    <2>1. Len(t) - Len(s) = -1
      BY <1>3, <1>5
    <2>2. Len(Entries(list)) = size - 1
      BY <1>1, <1>9, <2>1
    <2>3. Len(Entries(list)) \in Nat
      BY <1>9, EntriesAre, LenProperties
    <2>4. QED
      BY <2>2, <2>3
  <1>11. \A e : Holds(list, n, e) <=> Holds(hash_list, n, e) /\ e.key # k
    BY <1>5, <1>9
  <1>12. /\ Cardinality(DOMAIN hash_list') = slots
         /\ WellFormed(hash_list', slots)
         /\ Len(Entries(hash_list')) = Len(Entries(list))
         /\ \A e : Holds(hash_list', slots, e) <=> Holds(list, n, e)
    <2>1. CASE shrink
      <3>1. hash_list' = resetHashMap(list, half)
        BY <1>6, <2>1
      <3>2. slots = IF half < DEFAULT_MAP_SIZE THEN n ELSE half
        BY <1>2, <2>1, MapAssumption
      <3> HIDE DEF slots
      <3>3. QED
        BY <1>2, <1>9, <3>1, <3>2, ResetKeeps
    <2>2. CASE ~shrink
      <3>1. hash_list' = list /\ slots = n
        BY <1>6, <2>2
      <3>2. Cardinality(DOMAIN list) = n
        BY <1>9, SlotsAre DEF WellFormed
      <3>3. QED
        BY <1>9, <3>1, <3>2
    <2>3. QED
      BY <2>1, <2>2
  <1> HIDE DEF slots
  <1>13. listSize' = slots
    BY <1>6, <1>12
  <1>14. \A e : InMap(e)' <=> Holds(hash_list', slots, e)
    BY <1>13 DEF InMap
  <1>15. \A e : InMap(e)' <=> InMap(e) /\ e.key # k
    BY <1>11, <1>12, <1>14 DEF InMap
  <1>16. MapInv'
    BY <1>6, <1>10, <1>12, <1>13 DEF MapInv, SizeExact
  <1>17. QED
    BY <1>6, <1>13, <1>15, <1>16 DEF slots, half

(* The invariant holds after every operation. *)
LEMMA MapInvHolds ==
  Spec => []MapInv
  <1>1. Init => MapInv
    <2>1. SUFFICES ASSUME Init PROVE MapInv
      OBVIOUS
    <2>2. ListSize \in Nat \ {0} /\ hash_list = Empty(ListSize) /\ listSize = ListSize /\ size = 0
      BY <2>1, MapAssumption DEF Init
    <2>3. WellFormed(hash_list, listSize) /\ Entries(hash_list) = << >>
      BY <2>2, NoEntries
    <2>4. size = Len(Entries(hash_list))
      BY <2>2, <2>3
    <2>5. QED
      BY <2>2, <2>3, <2>4 DEF MapInv, SizeExact
  <1>2. MapInv /\ [Next]_vars => MapInv'
    <2>1. SUFFICES ASSUME MapInv, [Next]_vars PROVE MapInv'
      OBVIOUS
    <2>2. ASSUME NEW k \in Keys, defaultRemove(k) PROVE MapInv'
      BY <2>1, <2>2, RemoveStep
    <2>3. ASSUME NEW k \in Keys, NEW v \in Values, PutPresent(k, v) PROVE MapInv'
      BY <2>1, <2>3, PutPresentStep
    <2>4. ASSUME NEW k \in Keys, NEW v \in Values, PutNew(k, v) PROVE MapInv'
      BY <2>1, <2>4, PutNewStep
    <2>5. CASE UNCHANGED vars
      BY <2>1, <2>5 DEF vars, MapInv, SizeExact
    <2>6. QED
      BY <2>1, <2>2, <2>3, <2>4, <2>5 DEF Next
  <1>3. QED
    BY <1>1, <1>2, PTL DEF Spec

(***************************************************************************)
(* The table always has listSize slots, one at least, and chains of        *)
(* entries, for any keys and any hash function (mid_hashmap.c:267-301).    *)
(***************************************************************************)
THEOREM TablesTyped ==
  Spec => []TypeOK
  <1>1. MapInv => TypeOK
    <2>1. SUFFICES ASSUME MapInv PROVE TypeOK
      OBVIOUS
    <2>2. size \in Nat /\ listSize \in Nat \ {0} /\ hash_list \in Tables(listSize)
      BY <2>1 DEF MapInv, WellFormed
    <2>3. DOMAIN hash_list = 0 .. listSize - 1
      BY <2>2 DEF Tables
    <2>4. \A i \in DOMAIN hash_list : hash_list[i] \in Seq(EntryT)
      BY <2>2, <2>3 DEF Tables
    <2>5. \A i \in DOMAIN hash_list : Range(hash_list[i]) \subseteq EntryT
      BY <2>4, RangeOfSeq
    <2>6. QED
      BY <2>2, <2>3, <2>5 DEF TypeOK, EntryT
  <1>2. QED
    BY <1>1, MapInvHolds, PTL

(***************************************************************************)
(* size is the number of entries in the chains after any puts and removals *)
(* and the resizes they cause, so tempList has room for all of them and    *)
(* old_length is how many are put back (mid_hashmap.c:273-318).            *)
(***************************************************************************)
THEOREM SizeCountsEntries ==
  Spec => []SizeExact
  <1>1. MapInv => SizeExact
    BY DEF MapInv
  <1>2. QED
    BY <1>1, MapInvHolds, PTL

(* resetHashMap does not refuse to double the first table. *)
Doubles == 2 * ListSize >= DEFAULT_MAP_SIZE

(***************************************************************************)
(* There are always more slots than entries, whatever the hash function:   *)
(* the table is doubled before it is full, and never halved to fewer slots *)
(* than it has entries or than it can be doubled from                      *)
(* (mid_hashmap.c:128-138, 208-211, 269).                                  *)
(***************************************************************************)
THEOREM LoadStaysBounded ==
  ASSUME Doubles
  PROVE  Spec => []LoadBounded
  <1> DEFINE LoadInv == 2 * listSize >= DEFAULT_MAP_SIZE /\ size < listSize
  <1>1. Init => LoadInv
    BY MapAssumption DEF Init, Doubles
  <1>2. MapInv /\ LoadInv /\ [Next]_vars => LoadInv'
    <2>1. SUFFICES ASSUME MapInv, LoadInv, [Next]_vars PROVE LoadInv'
      OBVIOUS
    <2>2. size \in Nat /\ listSize \in Nat /\ DEFAULT_MAP_SIZE \in Nat
      BY <2>1, MapAssumption DEF MapInv, WellFormed
    <2>3. ASSUME NEW k \in Keys, defaultRemove(k) PROVE LoadInv'
      <3>1. /\ size' = size - 1
            /\ listSize' = IF size - 1 < listSize \div 2 /\ listSize \div 2 >= DEFAULT_MAP_SIZE
                           THEN listSize \div 2 ELSE listSize
        BY <2>1, <2>3, RemoveStep
      <3>2. QED
        BY <2>1, <2>2, <3>1
    <2>4. ASSUME NEW k \in Keys, NEW v \in Values, PutPresent(k, v) PROVE LoadInv'
      BY <2>1, <2>4 DEF PutPresent
    <2>5. ASSUME NEW k \in Keys, NEW v \in Values, PutNew(k, v) PROVE LoadInv'
      <3>1. /\ size' = size + 1
            /\ listSize' = IF size + 1 >= listSize /\ 2 * listSize >= DEFAULT_MAP_SIZE
                           THEN 2 * listSize ELSE listSize
        BY <2>1, <2>5, PutNewStep
      <3>2. QED
        BY <2>1, <2>2, <3>1
    <2>6. CASE UNCHANGED vars
      BY <2>1, <2>6 DEF vars
    <2>7. QED
      BY <2>1, <2>3, <2>4, <2>5, <2>6 DEF Next
  <1>3. LoadInv => LoadBounded
    BY DEF LoadBounded
  <1> HIDE DEF LoadInv
  <1>4. QED
    BY <1>1, <1>2, <1>3, MapInvHolds, PTL DEF Spec

----------------------------------------------------------------------------
(* What get returns of a table. *)
Get(list, k) == IF Find(list, k) # 0 THEN Chain(list, k)[Find(list, k)].value ELSE NULL

(* get returns the value of the entry with the key, if there is one. *)
LEMMA GetIs ==
  ASSUME NEW n, NEW list, WellFormed(list, n), NEW k \in Keys
  PROVE  /\ \A e : Holds(list, n, e) /\ e.key = k => Get(list, k) = e.value
         /\ (\A e : Holds(list, n, e) => e.key # k) => Get(list, k) = NULL
  <1>1. ASSUME NEW e, Holds(list, n, e), e.key = k PROVE Get(list, k) = e.value
    BY <1>1, FindIs DEF Get
  <1>2. ASSUME \A e : Holds(list, n, e) => e.key # k PROVE Get(list, k) = NULL
    BY <1>2, FindIs DEF Get
  <1>3. QED
    BY <1>1, <1>2

(* Tables that hold the same entries for k answer the same. *)
LEMMA GetSame ==
  ASSUME NEW n, NEW list, WellFormed(list, n), NEW m, NEW new, WellFormed(new, m),
         NEW k \in Keys, \A e : e.key = k => (Holds(new, m, e) <=> Holds(list, n, e))
  PROVE  Get(new, k) = Get(list, k)
  <1>1. CASE \E e : Holds(list, n, e) /\ e.key = k
    <2>1. PICK e : Holds(list, n, e) /\ e.key = k
      BY <1>1
    <2>2. QED
      BY <2>1, GetIs
  <1>2. CASE \A e : Holds(list, n, e) => e.key # k
    <2>1. Get(list, k) = NULL
      BY <1>2, GetIs
    <2>2. \A e : Holds(new, m, e) => e.key # k
      BY <1>2
    <2>3. QED
      BY <2>1, <2>2, GetIs
  <1>3. QED
    BY <1>1, <1>2

(***************************************************************************)
(* put, get, exists and remove are those of a map, for any keys, any hash  *)
(* function however it collides, and any sizes of the table: an entry is   *)
(* neither lost nor doubled nor given another value when chains are taken  *)
(* apart and put together in a table of another size                       *)
(* (mid_hashmap.c:93-323).                                                 *)
(***************************************************************************)
THEOREM HashMapImplementsMap ==
  Spec => ImplementsMap
  <1> DEFINE map == [k \in Keys |-> defaultGet(k)]
  <1>1. \A k \in Keys : map[k] = Get(hash_list, k) /\ map'[k] = Get(hash_list', k)
    BY DEF defaultGet, defaultExists, Get
  <1>2. ASSUME MapInv, MapInv', NEW k \in Keys, NEW x,
               Get(hash_list', k) = x,
               \A e : e.key # k => (InMap(e)' <=> InMap(e))
        PROVE  map' = [map EXCEPT ![k] = x]
    <2>1. WellFormed(hash_list, listSize) /\ WellFormed(hash_list', listSize')
      BY <1>2 DEF MapInv
    <2>2. ASSUME NEW j \in Keys, j # k PROVE map'[j] = map[j]
      <3>1. \A e : e.key = j => (Holds(hash_list', listSize', e) <=> Holds(hash_list, listSize, e))
        BY <1>2, <2>2 DEF InMap
      <3>2. Get(hash_list', j) = Get(hash_list, j)
        BY <2>1, <3>1, GetSame
      <3>3. QED
        BY <1>1, <3>2
    <2>3. map'[k] = x
      BY <1>1, <1>2
    <2>4. map = [j \in Keys |-> map[j]] /\ map' = [j \in Keys |-> map'[j]]
      OBVIOUS
    <2> HIDE DEF map
    <2>5. QED
      BY <2>2, <2>3, <2>4
  <1>3. Init => Contents!Init
    <2>1. SUFFICES ASSUME Init PROVE map = [k \in Keys |-> NULL]
      BY DEF Contents!Init
    <2>2. hash_list = Empty(ListSize) /\ ListSize \in Nat \ {0}
      BY <2>1, MapAssumption DEF Init
    <2>3. \A k \in Keys : Get(hash_list, k) = NULL
      BY <2>2, NoEntries, GetIs
    <2>4. QED
      BY <1>1, <2>3
  <1>4. MapInv /\ MapInv' /\ [Next]_vars => [Contents!Next]_map
    <2>1. SUFFICES ASSUME MapInv, MapInv', [Next]_vars PROVE [Contents!Next]_map
      OBVIOUS
    <2>2. ASSUME NEW k \in Keys, defaultRemove(k) PROVE Contents!Next
      <3>1. \A e : InMap(e)' <=> InMap(e) /\ e.key # k
        BY <2>1, <2>2, RemoveStep
      <3>2. Get(hash_list', k) = NULL
        BY <2>1, <3>1, GetIs DEF MapInv, InMap
      <3>3. map' = [map EXCEPT ![k] = NULL]
        BY <1>2, <2>1, <3>1, <3>2
      <3>4. QED
        BY <3>3 DEF Contents!Next, Contents!Remove
    <2>3. ASSUME NEW k \in Keys, NEW v \in Values,
                 \A e : InMap(e)' <=> (InMap(e) /\ e.key # k) \/ e = Entry(k, v)
          PROVE  Contents!Next
      <3>1. Entry(k, v).key = k /\ Entry(k, v).value = v
        BY DEF Entry
      <3>2. Get(hash_list', k) = v
        BY <2>1, <2>3, <3>1, GetIs DEF MapInv, InMap
      <3>3. map' = [map EXCEPT ![k] = v]
        BY <1>2, <2>1, <2>3, <3>1, <3>2
      <3>4. QED
        BY <3>3 DEF Contents!Next, Contents!Put
    <2>4. ASSUME NEW k \in Keys, NEW v \in Values, PutPresent(k, v) PROVE Contents!Next
      BY <2>1, <2>3, <2>4, PutPresentStep
    <2>5. ASSUME NEW k \in Keys, NEW v \in Values, PutNew(k, v) PROVE Contents!Next
      BY <2>1, <2>3, <2>5, PutNewStep
    <2>6. CASE UNCHANGED vars
      <3>1. hash_list' = hash_list
        BY <2>6 DEF vars
      <3>2. map' = map
        BY <1>1, <3>1
      <3>3. QED
        BY <3>2
    <2>7. QED
      BY <2>1, <2>2, <2>4, <2>5, <2>6 DEF Next
  <1>5. QED
    BY <1>3, <1>4, MapInvHolds, PTL DEF Spec, ImplementsMap, Contents!Spec
=============================================================================
