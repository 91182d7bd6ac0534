--------------------------- MODULE HashTableProofs ---------------------------
(***************************************************************************)
(* What TLAPS proves about HashTable for every set of keys and values,     *)
(* every hash function and every ascending list of sizes.                  *)
(*                                                                         *)
(* An array in which no key is there twice and each entry is on the chain  *)
(* of its key stands for the set of its entries (Entries).  The lemmas say *)
(* what insertion, removal and rehashing do to that set; the theorems      *)
(* follow from them, whatever the chains look like.                        *)
(***************************************************************************)
EXTENDS HashTable, SequenceTheorems, FunctionTheorems, FiniteSetTheorems,
        WellFoundedInduction, TLAPS

\* The array has n chains, each entry is on its own, and no key is there twice.
WellPlaced(table, n) ==
  /\ table \in [0 .. n - 1 -> Seq(Entry)]
  /\ \A i \in DOMAIN table : \A p \in DOMAIN table[i] : Index(table[i][p].key, n) = i
  /\ \A pl, q \in Places(table) : EntryAt(table, pl).key = EntryAt(table, q).key => pl = q

\* The invariant.
HashTableInv ==
  /\ size \in ToSet(Primes)
  /\ WellPlaced(chains, size)
  /\ overcount \in Nat
  /\ count = Cardinality(Places(chains)) + overcount

-----------------------------------------------------------------------------
(* Sizes *)

LEMMA LeastElement ==
  ASSUME NEW S \in SUBSET Nat, S # {}
  PROVE  \E m \in S : \A n \in S : m <= n
  <1>1. PICK m \in S : \A n \in S : ~ (<<n, m>> \in OpToRel(<, Nat))
    BY NatLessThanWellFounded, WFMin
  <1>2. \A n \in S : ~ (n < m)
    BY <1>1 DEF OpToRel
  <1> QED BY <1>2

LEMMA SizesPositive == ToSet(Primes) \subseteq Nat \ {0}
  <1>1. Primes \in Seq(Nat \ {0})
    BY PrimesAssumption
  <1> QED BY <1>1, ElementOfSeq, LenProperties DEF ToSet

LEMMA SmallestIsSize == MinSize \in ToSet(Primes) /\ MaxSize \in ToSet(Primes)
  <1>1. Len(Primes) \in Nat \ {0} /\ DOMAIN Primes = 1 .. Len(Primes)
    BY PrimesAssumption, EmptySeq, LenProperties
  <1> QED BY <1>1 DEF MinSize, MaxSize, ToSet

LEMMA ClosestPrimeType ==
  ASSUME NEW n \in Int
  PROVE  ClosestPrime(n) \in ToSet(Primes)
  <1> DEFINE above == {p \in ToSet(Primes) : p > n}
  <1>1. CASE above = {}
    BY <1>1, SmallestIsSize DEF ClosestPrime
  <1>2. CASE above # {}
    <2>1. \E p \in above : \A q \in above : p <= q
      BY <1>2, SizesPositive, LeastElement
    <2> QED BY <1>2, <2>1 DEF ClosestPrime
  <1> QED BY <1>1, <1>2

LEMMA IndexType ==
  ASSUME NEW k \in Keys, NEW n \in Nat \ {0}
  PROVE  Index(k, n) \in 0 .. n - 1
  BY HashAssumption DEF Index

-----------------------------------------------------------------------------
(* Places and entries *)

LEMMA PlacesAre ==
  ASSUME NEW table, NEW pl
  PROVE  pl \in Places(table)
           <=> \E i \in DOMAIN table : \E p \in DOMAIN table[i] : pl = <<i, p>>
  BY DEF Places

LEMMA PlacesFinite ==
  ASSUME NEW n \in Nat, NEW table \in [0 .. n - 1 -> Seq(Entry)]
  PROVE  IsFiniteSet(Places(table))
  <1> DEFINE R(i) == {i} \X DOMAIN table[i]
             S == {R(i) : i \in DOMAIN table}
             f == [i \in DOMAIN table |-> R(i)]
  <1>1. IsFiniteSet(DOMAIN table)
    BY FS_Interval
  <1>2. f \in Surjection(DOMAIN table, S)
    <2> HIDE DEF R
    <2> QED BY DEF Surjection
  <1>3. IsFiniteSet(S)
    <2> HIDE DEF S, f
    <2> QED BY <1>1, <1>2, FS_Surjection
  <1>4. \A T \in S : IsFiniteSet(T)
    <2> SUFFICES ASSUME NEW i \in DOMAIN table
                 PROVE  IsFiniteSet({i} \X DOMAIN table[i])
      OBVIOUS
    <2>1. DOMAIN table[i] = 1 .. Len(table[i]) /\ Len(table[i]) \in Nat
      BY LenProperties
    <2>2. IsFiniteSet({i})
      BY FS_Singleton
    <2>3. IsFiniteSet(DOMAIN table[i])
      BY <2>1, FS_Interval
    <2> QED BY <2>2, <2>3, FS_Product
  <1>5. IsFiniteSet(UNION S)
    <2> HIDE DEF S
    <2> QED BY <1>3, <1>4, FS_UNION
  <1> QED BY <1>5 DEF Places

LEMMA EntryAtType ==
  ASSUME NEW n \in Nat, NEW table \in [0 .. n - 1 -> Seq(Entry)], NEW pl \in Places(table)
  PROVE  /\ pl = <<pl[1], pl[2]>>
         /\ pl[1] \in 0 .. n - 1 /\ pl[2] \in 1 .. Len(table[pl[1]])
         /\ EntryAt(table, pl) \in Entry
  <1>0. PICK i \in DOMAIN table : \E p \in DOMAIN table[i] : pl = <<i, p>>
    BY PlacesAre
  <1>1. PICK p \in DOMAIN table[i] : pl = <<i, p>>
    BY <1>0
  <1>2. i \in 0 .. n - 1 /\ table[i] \in Seq(Entry)
    OBVIOUS
  <1>3. p \in 1 .. Len(table[i]) /\ table[i][p] \in Entry
    BY <1>2, LenProperties, ElementOfSeq
  <1> QED BY <1>1, <1>2, <1>3 DEF EntryAt

\* Different places of an array have different entries.
LEMMA EntriesCounted ==
  ASSUME NEW n \in Nat, NEW table, WellPlaced(table, n), NEW P \in SUBSET Places(table)
  PROVE  /\ IsFiniteSet(P)
         /\ IsFiniteSet({EntryAt(table, pl) : pl \in P})
         /\ Cardinality(P) = Cardinality({EntryAt(table, pl) : pl \in P})
  <1> DEFINE E == {EntryAt(table, pl) : pl \in P}
             f == [pl \in P |-> EntryAt(table, pl)]
  <1>1. IsFiniteSet(P)
    BY PlacesFinite, FS_Subset DEF WellPlaced
  <1>2. f \in Surjection(P, E)
    BY DEF Surjection
  <1>3. f \in Injection(P, E)
    BY DEF WellPlaced, Injection, IsInjective
  <1>4. f \in Bijection(P, E)
    BY <1>2, <1>3 DEF Bijection
  <1>5. ExistsBijection(P, E)
    BY <1>4 DEF ExistsBijection
  <1> HIDE DEF E
  <1>6. IsFiniteSet(E) /\ Cardinality(E) = Cardinality(P)
    BY <1>1, <1>5, FS_Bijection
  <1> QED BY <1>1, <1>6 DEF E

LEMMA Counted ==
  ASSUME NEW n \in Nat, NEW table, WellPlaced(table, n)
  PROVE  /\ IsFiniteSet(Places(table))
         /\ IsFiniteSet(Entries(table)) /\ Entries(table) \subseteq Entry
         /\ Cardinality(Places(table)) = Cardinality(Entries(table))
         /\ \A d, e \in Entries(table) : d.key = e.key => d = e
         /\ \A v : Occurrences(table, v)
                     = Cardinality({e \in Entries(table) : e.value = v})
  <1>1. /\ IsFiniteSet(Places(table)) /\ IsFiniteSet(Entries(table))
        /\ Cardinality(Places(table)) = Cardinality(Entries(table))
    BY EntriesCounted DEF Entries
  <1>2. Entries(table) \subseteq Entry
    BY EntryAtType DEF Entries, WellPlaced
  <1>3. \A d, e \in Entries(table) : d.key = e.key => d = e
    BY DEF Entries, WellPlaced
  <1>4. ASSUME NEW v
        PROVE  Occurrences(table, v) = Cardinality({e \in Entries(table) : e.value = v})
    <2> DEFINE P == {pl \in Places(table) : EntryAt(table, pl).value = v}
    <2>1. Cardinality(P) = Cardinality({EntryAt(table, pl) : pl \in P})
      <3> P \in SUBSET Places(table)
        OBVIOUS
      <3> HIDE DEF P
      <3> QED BY EntriesCounted
    <2>2. {EntryAt(table, pl) : pl \in P} = {e \in Entries(table) : e.value = v}
      BY DEF Entries
    <2> QED BY <2>1, <2>2 DEF Occurrences
  <1> QED BY <1>1, <1>2, <1>3, <1>4

\* Where lookup() searches for the key of an entry, the entry is.
LEMMA OnItsChain ==
  ASSUME NEW n \in Nat \ {0}, NEW table, WellPlaced(table, n), NEW e \in Entries(table)
  PROVE  /\ Index(e.key, n) \in DOMAIN table
         /\ \E p \in DOMAIN table[Index(e.key, n)] : table[Index(e.key, n)][p] = e
  <1>1. PICK pl \in Places(table) : e = EntryAt(table, pl)
    BY DEF Entries
  <1>2. PICK i \in DOMAIN table : \E p \in DOMAIN table[i] : pl = <<i, p>>
    BY PlacesAre
  <1>3. PICK p \in DOMAIN table[i] : pl = <<i, p>>
    BY <1>2
  <1>4. e = table[i][p]
    BY <1>1, <1>3 DEF EntryAt
  <1>5. Index(e.key, n) = i
    BY <1>4 DEF WellPlaced
  <1> QED BY <1>4, <1>5

LEMMA IsAnEntry ==
  ASSUME NEW table, NEW i \in DOMAIN table, NEW p \in DOMAIN table[i]
  PROVE  <<i, p>> \in Places(table) /\ table[i][p] \in Entries(table)
  <1>1. <<i, p>> \in Places(table)
    BY PlacesAre
  <1> QED BY <1>1 DEF Entries, EntryAt

\* Position and ValueOf, of any array.
PositionIn(table, n, k) ==
  LET chain == table[Index(k, n)]
      found == {p \in DOMAIN chain : Hash[chain[p].key] = Hash[k] /\ chain[p].key = k}
  IN  IF found = {} THEN 0 ELSE CHOOSE p \in found : \A q \in found : p <= q

ValueIn(table, n, k) ==
  IF PositionIn(table, n, k) = 0 THEN NoValue
  ELSE table[Index(k, n)][PositionIn(table, n, k)].value

LEMMA Positions ==
  ASSUME NEW k
  PROVE  Position(k) = PositionIn(chains, size, k) /\ ValueOf(k) = ValueIn(chains, size, k)
  BY DEF Position, PositionIn, ValueOf, ValueIn

LEMMA Absent ==
  ASSUME NEW n \in Nat \ {0}, NEW table, WellPlaced(table, n), NEW k \in Keys,
         PositionIn(table, n, k) = 0
  PROVE  ValueIn(table, n, k) = NoValue /\ \A e \in Entries(table) : e.key # k
  <1> DEFINE chain == table[Index(k, n)]
             found == {p \in DOMAIN chain : Hash[chain[p].key] = Hash[k] /\ chain[p].key = k}
  <1>1. \A p \in found : p # 0
    BY IndexType, LenProperties DEF WellPlaced
  <1>2. found = {}
    <2> SUFFICES ASSUME found # {} PROVE FALSE
      OBVIOUS
    <2>1. found \subseteq Nat
      BY IndexType, LenProperties DEF WellPlaced
    <2>2. \E p \in found : \A q \in found : p <= q
      BY <2>1, LeastElement
    <2> HIDE DEF found
    <2>3. (CHOOSE p \in found : \A q \in found : p <= q) \in found
      BY <2>2
    <2> QED BY <1>1, <2>3 DEF PositionIn, found
  <1>3. ASSUME NEW e \in Entries(table), e.key = k
        PROVE  FALSE
    BY <1>2, <1>3, OnItsChain
  <1> QED BY <1>3 DEF ValueIn

LEMMA Present ==
  ASSUME NEW n \in Nat \ {0}, NEW table, WellPlaced(table, n), NEW k \in Keys,
         PositionIn(table, n, k) # 0
  PROVE  /\ Index(k, n) \in DOMAIN table
         /\ PositionIn(table, n, k) \in DOMAIN table[Index(k, n)]
         /\ [key |-> k, value |-> ValueIn(table, n, k)]
              = table[Index(k, n)][PositionIn(table, n, k)]
         /\ [key |-> k, value |-> ValueIn(table, n, k)] \in Entries(table)
         /\ ValueIn(table, n, k) \in Values
  <1> DEFINE i == Index(k, n)
             chain == table[i]
             found == {p \in DOMAIN chain : Hash[chain[p].key] = Hash[k] /\ chain[p].key = k}
             at == PositionIn(table, n, k)
  <1>1. i \in DOMAIN table /\ chain \in Seq(Entry)
    BY IndexType DEF WellPlaced
  <1>2. found # {}
    BY DEF PositionIn
  <1>3. found \subseteq Nat
    BY <1>1, LenProperties
  <1>4. \E p \in found : \A q \in found : p <= q
    BY <1>2, <1>3, LeastElement
  <1>5. at \in found
    <2> HIDE DEF found
    <2>1. (CHOOSE p \in found : \A q \in found : p <= q) \in found
      BY <1>4
    <2> QED BY <1>2, <2>1 DEF PositionIn, found
  <1>6. chain[at] \in Entry /\ chain[at].key = k
    BY <1>1, <1>5, LenProperties, ElementOfSeq
  <1>7. chain[at] = [key |-> k, value |-> ValueIn(table, n, k)]
    BY <1>6 DEF ValueIn, Entry
  <1>8. chain[at] \in Entries(table)
    BY <1>1, <1>5, IsAnEntry
  <1> QED BY <1>1, <1>5, <1>6, <1>7, <1>8 DEF Entry
-----------------------------------------------------------------------------
(* Insertion and removal *)

LEMMA SizeType ==
  ASSUME HashTableInv
  PROVE  size \in Nat \ {0} /\ WellPlaced(chains, size)
  BY SizesPositive DEF HashTableInv

LEMMA Inserted ==
  ASSUME HashTableInv, NEW k \in Keys, NEW v \in Values, Position(k) = 0
  PROVE  /\ WellPlaced(WithEntry(k, v), size)
         /\ Entries(WithEntry(k, v)) = Entries(chains) \cup {[key |-> k, value |-> v]}
  <1> DEFINE e == [key |-> k, value |-> v]
             i == Index(k, size)
             T == WithEntry(k, v)
             new == <<i, Len(chains[i]) + 1>>
  <1>1. size \in Nat \ {0} /\ WellPlaced(chains, size)
    BY SizeType
  <1>2. e \in Entry /\ e.key = k
    BY DEF Entry
  <1>3. i \in DOMAIN chains /\ chains[i] \in Seq(Entry)
    BY <1>1, IndexType DEF WellPlaced
  <1>4. \A d \in Entries(chains) : d.key # k
    BY <1>1, Absent, Positions
  <1>5. /\ DOMAIN T = DOMAIN chains
        /\ \A j \in DOMAIN chains : T[j] = IF j = i THEN Append(chains[i], e) ELSE chains[j]
    BY <1>3 DEF WithEntry
  <1>6. /\ T[i] \in Seq(Entry) /\ DOMAIN T[i] = 1 .. Len(chains[i]) + 1
        /\ DOMAIN chains[i] = 1 .. Len(chains[i]) /\ Len(chains[i]) \in Nat
        /\ \A p \in DOMAIN T[i] : T[i][p] = IF p = Len(chains[i]) + 1 THEN e ELSE chains[i][p]
    <2>1. T[i] = Append(chains[i], e)
      BY <1>3, <1>5
    <2> HIDE DEF T, e
    <2> QED BY <1>2, <1>3, <2>1, AppendProperties, LenProperties
  <1>7. T \in [0 .. size - 1 -> Seq(Entry)]
    <2>1. T \in [DOMAIN chains -> Seq(Entry)]
      <3>1. T = [j \in DOMAIN chains |-> T[j]]
        BY DEF WithEntry
      <3>2. \A j \in DOMAIN chains : T[j] \in Seq(Entry)
        BY <1>1, <1>5, <1>6 DEF WellPlaced
      <3> HIDE DEF T
      <3> QED BY <3>1, <3>2
    <2> QED BY <1>1, <2>1 DEF WellPlaced
  <1> HIDE DEF T, e
  <1>8. new \in Places(T) /\ EntryAt(T, new) = e
    BY <1>3, <1>5, <1>6, PlacesAre DEF EntryAt
  <1>9. ASSUME NEW pl \in Places(T), pl # new
        PROVE  pl \in Places(chains) /\ EntryAt(T, pl) = EntryAt(chains, pl)
    <2>1. PICK j \in DOMAIN T : \E p \in DOMAIN T[j] : pl = <<j, p>>
      BY PlacesAre
    <2>2. PICK p \in DOMAIN T[j] : pl = <<j, p>>
      BY <2>1
    <2>3. j \in DOMAIN chains /\ p \in DOMAIN chains[j] /\ T[j][p] = chains[j][p]
      BY <1>3, <1>5, <1>6, <1>9, <2>2
    <2> QED BY <2>2, <2>3, PlacesAre DEF EntryAt
  <1>10. ASSUME NEW pl \in Places(chains)
         PROVE  pl \in Places(T) /\ EntryAt(T, pl) = EntryAt(chains, pl) /\ pl # new
    <2>1. PICK j \in DOMAIN chains : \E p \in DOMAIN chains[j] : pl = <<j, p>>
      BY PlacesAre
    <2>2. PICK p \in DOMAIN chains[j] : pl = <<j, p>>
      BY <2>1
    <2>3. j \in DOMAIN T /\ p \in DOMAIN T[j] /\ T[j][p] = chains[j][p]
      BY <1>3, <1>5, <1>6, <2>2
    <2>4. pl # new
      BY <1>6, <2>2
    <2> QED BY <2>2, <2>3, <2>4, PlacesAre DEF EntryAt
  <1>11. Entries(T) = Entries(chains) \cup {e}
    BY <1>8, <1>9, <1>10 DEF Entries
  <1>12. \A j \in DOMAIN T : \A p \in DOMAIN T[j] : Index(T[j][p].key, size) = j
    <2> SUFFICES ASSUME NEW j \in DOMAIN T, NEW p \in DOMAIN T[j]
                 PROVE  Index(T[j][p].key, size) = j
      OBVIOUS
    <2>1. CASE j = i /\ p = Len(chains[i]) + 1
      BY <1>2, <1>6, <2>1
    <2>2. CASE ~ (j = i /\ p = Len(chains[i]) + 1)
      <3>1. j \in DOMAIN chains
        BY <1>5
      <3>2. p \in DOMAIN chains[j] /\ T[j][p] = chains[j][p]
        <4>1. CASE j = i
          BY <1>6, <2>2, <4>1
        <4>2. CASE j # i
          BY <1>5, <3>1, <4>2
        <4> QED BY <4>1, <4>2
      <3> QED BY <1>1, <3>1, <3>2 DEF WellPlaced
    <2> QED BY <2>1, <2>2
  <1>13. \A pl, q \in Places(T) : EntryAt(T, pl).key = EntryAt(T, q).key => pl = q
    <2> SUFFICES ASSUME NEW pl \in Places(T), NEW q \in Places(T),
                        EntryAt(T, pl).key = EntryAt(T, q).key
                 PROVE  pl = q
      OBVIOUS
    <2>1. \A d \in Places(chains) : EntryAt(chains, d).key # k
      BY <1>4 DEF Entries
    <2>2. CASE pl # new /\ q # new
      BY <1>1, <1>9, <2>2 DEF WellPlaced
    <2>3. CASE pl = new /\ q # new
      BY <1>2, <1>8, <1>9, <2>1, <2>3
    <2>4. CASE pl # new /\ q = new
      BY <1>2, <1>8, <1>9, <2>1, <2>4
    <2> QED BY <2>2, <2>3, <2>4
  <1> QED BY <1>7, <1>11, <1>12, <1>13 DEF WellPlaced, T, e

LEMMA RemoveAtProperties ==
  ASSUME NEW S, NEW s \in Seq(S), NEW at \in 1 .. Len(s)
  PROVE  /\ RemoveAt(s, at) \in Seq(S)
         /\ Len(RemoveAt(s, at)) = Len(s) - 1
         /\ \A p \in 1 .. Len(s) - 1 :
              RemoveAt(s, at)[p] = IF p < at THEN s[p] ELSE s[p + 1]
  <1> DEFINE l == SubSeq(s, 1, at - 1)
             r == SubSeq(s, at + 1, Len(s))
  <1>0. Len(s) \in Nat
    BY LenProperties
  <1>1. \A p \in 1 .. Len(s) : s[p] \in S
    BY ElementOfSeq
  <1>2. l \in Seq(S) /\ Len(l) = at - 1 /\ \A p \in 1 .. at - 1 : l[p] = s[p]
    <2>1. \A p \in 1 .. at - 1 : s[p] \in S
      BY <1>0, <1>1
    <2> QED BY <1>0, <2>1, SubSeqProperties
  <1>3. /\ r \in Seq(S) /\ Len(r) = Len(s) - at
        /\ \A p \in 1 .. Len(s) - at : r[p] = s[at + p]
    <2>1. \A p \in at + 1 .. Len(s) : s[p] \in S
      BY <1>0, <1>1
    <2>2. /\ r \in Seq(S) /\ Len(r) = IF at + 1 <= Len(s) THEN Len(s) - (at + 1) + 1 ELSE 0
          /\ \A p \in 1 .. Len(s) - (at + 1) + 1 : r[p] = s[at + 1 + p - 1]
      BY <1>0, <2>1, SubSeqProperties
    <2> QED BY <1>0, <2>2
  <1> HIDE DEF l, r
  <1>4. /\ l \o r \in Seq(S) /\ Len(l \o r) = Len(s) - 1
        /\ \A p \in 1 .. Len(s) - 1 : (l \o r)[p] = IF p <= at - 1 THEN l[p] ELSE r[p - (at - 1)]
    <2>1. /\ l \o r \in Seq(S) /\ Len(l \o r) = Len(l) + Len(r)
          /\ \A p \in 1 .. Len(l) + Len(r) :
               (l \o r)[p] = IF p <= Len(l) THEN l[p] ELSE r[p - Len(l)]
      BY <1>2, <1>3, ConcatProperties
    <2>2. Len(l) + Len(r) = Len(s) - 1
      BY <1>0, <1>2, <1>3
    <2> QED BY <1>2, <2>1, <2>2
  <1>5. \A p \in 1 .. Len(s) - 1 : (l \o r)[p] = IF p < at THEN s[p] ELSE s[p + 1]
    <2> SUFFICES ASSUME NEW p \in 1 .. Len(s) - 1
                 PROVE  (l \o r)[p] = IF p < at THEN s[p] ELSE s[p + 1]
      OBVIOUS
    <2>1. CASE p < at
      BY <1>0, <1>2, <1>4, <2>1
    <2>2. CASE ~ (p < at)
      <3>1. (l \o r)[p] = r[p - (at - 1)] /\ p - (at - 1) \in 1 .. Len(s) - at
        BY <1>0, <1>4, <2>2
      <3>2. r[p - (at - 1)] = s[at + (p - (at - 1))]
        BY <1>3, <3>1
      <3>3. at + (p - (at - 1)) = p + 1
        BY <1>0
      <3>4. (l \o r)[p] = s[p + 1]
        BY <3>1, <3>2, <3>3
      <3> QED BY <2>2, <3>4
    <2> QED BY <2>1, <2>2
  <1> QED BY <1>4, <1>5 DEF RemoveAt, l, r
LEMMA Removed ==
  ASSUME HashTableInv, NEW k \in Keys, Position(k) # 0
  PROVE  /\ WellPlaced(WithoutEntry(k), size)
         /\ [key |-> k, value |-> ValueOf(k)] \in Entries(chains)
         /\ ValueOf(k) \in Values
         /\ Entries(WithoutEntry(k)) = Entries(chains) \ {[key |-> k, value |-> ValueOf(k)]}
  <1> DEFINE e == [key |-> k, value |-> ValueOf(k)]
             i == Index(k, size)
             at == Position(k)
             T == WithoutEntry(k)
             gone == <<i, at>>
             old(j, p) == IF j = i /\ p >= at THEN <<j, p + 1>> ELSE <<j, p>>
  <1>1. size \in Nat \ {0} /\ WellPlaced(chains, size)
    BY SizeType
  <1>2. /\ i \in DOMAIN chains /\ at \in DOMAIN chains[i] /\ e = chains[i][at]
        /\ e \in Entries(chains) /\ ValueOf(k) \in Values
    BY <1>1, Positions, Present
  <1>3. chains[i] \in Seq(Entry)
    BY <1>1, <1>2 DEF WellPlaced
  <1>4. /\ DOMAIN chains[i] = 1 .. Len(chains[i]) /\ Len(chains[i]) \in Nat \ {0}
        /\ at \in 1 .. Len(chains[i])
    BY <1>2, <1>3, LenProperties
  <1>5. /\ DOMAIN T = DOMAIN chains
        /\ \A j \in DOMAIN chains : T[j] = IF j = i THEN RemoveAt(chains[i], at) ELSE chains[j]
    BY <1>2 DEF WithoutEntry
  <1>6. /\ T[i] \in Seq(Entry) /\ DOMAIN T[i] = 1 .. Len(chains[i]) - 1
        /\ \A p \in DOMAIN T[i] : T[i][p] = IF p < at THEN chains[i][p] ELSE chains[i][p + 1]
    <2>1. T[i] = RemoveAt(chains[i], at)
      BY <1>2, <1>5
    <2> HIDE DEF T, i, at
    <2>2. /\ T[i] \in Seq(Entry) /\ Len(T[i]) = Len(chains[i]) - 1
          /\ \A p \in 1 .. Len(chains[i]) - 1 :
               T[i][p] = IF p < at THEN chains[i][p] ELSE chains[i][p + 1]
      BY <1>3, <1>4, <2>1, RemoveAtProperties
    <2>3. DOMAIN T[i] = 1 .. Len(T[i])
      BY <2>2, LenProperties
    <2> QED BY <2>2, <2>3
  <1>7. T \in [0 .. size - 1 -> Seq(Entry)]
    <2>1. T \in [DOMAIN chains -> Seq(Entry)]
      <3>1. T = [j \in DOMAIN chains |-> T[j]]
        BY DEF WithoutEntry
      <3>2. \A j \in DOMAIN chains : T[j] \in Seq(Entry)
        BY <1>1, <1>5, <1>6 DEF WellPlaced
      <3> HIDE DEF T
      <3> QED BY <3>1, <3>2
    <2> QED BY <1>1, <2>1 DEF WellPlaced
  <1> HIDE DEF T, e, i, at
  \* What is still there was there, elsewhere on its chain perhaps.
  <1>8. ASSUME NEW j \in DOMAIN T, NEW p \in DOMAIN T[j]
        PROVE  /\ p \in Int /\ <<j, p>> \in Places(T)
               /\ j \in DOMAIN chains /\ old(j, p)[2] \in DOMAIN chains[j]
               /\ old(j, p) = <<j, old(j, p)[2]>> /\ old(j, p) # gone
               /\ old(j, p) \in Places(chains)
               /\ T[j][p] = chains[j][old(j, p)[2]]
               /\ EntryAt(T, <<j, p>>) = EntryAt(chains, old(j, p))
    <2>1. j \in DOMAIN chains
      BY <1>5
    <2>2. p \in Int
      BY <1>1, <1>5, <1>6, LenProperties DEF WellPlaced
    <2>3. /\ old(j, p)[2] \in DOMAIN chains[j] /\ old(j, p) # gone
          /\ T[j][p] = chains[j][old(j, p)[2]]
      <3>1. CASE j = i
        BY <1>4, <1>6, <3>1
      <3>2. CASE j # i
        BY <1>5, <2>1, <3>2
      <3> QED BY <3>1, <3>2
    <2>4. old(j, p) = <<j, old(j, p)[2]>>
      OBVIOUS
    <2> HIDE DEF old
    <2>5. old(j, p) \in Places(chains)
      BY <2>1, <2>3, <2>4, PlacesAre
    <2>6. EntryAt(chains, old(j, p)) = chains[j][old(j, p)[2]]
      BY <2>4 DEF EntryAt
    <2>7. EntryAt(T, <<j, p>>) = T[j][p]
      BY DEF EntryAt
    <2> QED BY <2>1, <2>2, <2>3, <2>4, <2>5, <2>6, <2>7, PlacesAre
  <1>9. ASSUME NEW pl \in Places(chains), pl # gone
        PROVE  \E q \in Places(T) : EntryAt(T, q) = EntryAt(chains, pl)
    <2>1. PICK j \in DOMAIN chains : \E p \in DOMAIN chains[j] : pl = <<j, p>>
      BY PlacesAre
    <2>2. PICK p \in DOMAIN chains[j] : pl = <<j, p>>
      BY <2>1
    <2>3. p \in Int
      BY <1>1, LenProperties DEF WellPlaced
    <2>4. \E t \in DOMAIN T[j] : T[j][t] = chains[j][p]
      <3>1. CASE j # i
        BY <1>5, <3>1
      <3>2. CASE j = i /\ p < at
        <4>1. p \in DOMAIN T[i] /\ T[i][p] = chains[i][p]
          BY <1>4, <1>6, <3>2
        <4> QED BY <3>2, <4>1
      <3>3. CASE j = i /\ ~ (p < at)
        <4>1. p # at
          BY <1>9, <2>2, <3>3
        <4>2. p - 1 \in DOMAIN T[i] /\ ~ (p - 1 < at) /\ p - 1 + 1 = p
          BY <1>4, <1>6, <2>3, <3>3, <4>1
        <4>3. T[i][p - 1] = chains[i][p]
          BY <1>6, <4>2
        <4> QED BY <3>3, <4>2, <4>3
      <3> QED BY <3>1, <3>2, <3>3
    <2>5. PICK t \in DOMAIN T[j] : T[j][t] = chains[j][p]
      BY <2>4
    <2>6. <<j, t>> \in Places(T)
      BY <1>5, <2>5, PlacesAre
    <2>7. EntryAt(T, <<j, t>>) = EntryAt(chains, pl)
      BY <2>2, <2>5 DEF EntryAt
    <2> QED BY <2>6, <2>7
  <1>10. gone \in Places(chains) /\ EntryAt(chains, gone) = e
    BY <1>2, PlacesAre DEF EntryAt
  <1>11. \A pl \in Places(T) :
           \E q \in Places(chains) : q # gone /\ EntryAt(T, pl) = EntryAt(chains, q)
    <2> SUFFICES ASSUME NEW pl \in Places(T)
                 PROVE  \E q \in Places(chains) :
                          q # gone /\ EntryAt(T, pl) = EntryAt(chains, q)
      OBVIOUS
    <2>1. PICK j \in DOMAIN T : \E p \in DOMAIN T[j] : pl = <<j, p>>
      BY PlacesAre
    <2>2. PICK p \in DOMAIN T[j] : pl = <<j, p>>
      BY <2>1
    <2> HIDE DEF old, gone
    <2> QED BY <1>8, <2>2
  <1>12. \A q \in Places(chains) : q # gone => EntryAt(chains, q) # e
    BY <1>1, <1>10 DEF WellPlaced
  <1>13. Entries(T) = Entries(chains) \ {e}
    <2> HIDE DEF gone
    <2> QED BY <1>9, <1>10, <1>11, <1>12 DEF Entries
  <1>14. \A j \in DOMAIN T : \A p \in DOMAIN T[j] : Index(T[j][p].key, size) = j
    <2> SUFFICES ASSUME NEW j \in DOMAIN T, NEW p \in DOMAIN T[j]
                 PROVE  Index(T[j][p].key, size) = j
      OBVIOUS
    <2> DEFINE t == old(j, p)[2]
    <2> HIDE DEF old, t
    <2>1. j \in DOMAIN chains /\ t \in DOMAIN chains[j] /\ T[j][p] = chains[j][t]
      BY <1>8 DEF t
    <2> QED BY <1>1, <2>1 DEF WellPlaced
  <1>15. \A pl, q \in Places(T) : EntryAt(T, pl).key = EntryAt(T, q).key => pl = q
    <2> SUFFICES ASSUME NEW pl \in Places(T), NEW q \in Places(T),
                        EntryAt(T, pl).key = EntryAt(T, q).key
                 PROVE  pl = q
      OBVIOUS
    <2>1. PICK j \in DOMAIN T : \E p \in DOMAIN T[j] : pl = <<j, p>>
      BY PlacesAre
    <2>2. PICK p \in DOMAIN T[j] : pl = <<j, p>>
      BY <2>1
    <2>3. PICK l \in DOMAIN T : \E r \in DOMAIN T[l] : q = <<l, r>>
      BY PlacesAre
    <2>4. PICK r \in DOMAIN T[l] : q = <<l, r>>
      BY <2>3
    <2>5. old(j, p) = old(l, r)
      <3> HIDE DEF old
      <3> QED BY <1>1, <1>8, <2>2, <2>4 DEF WellPlaced
    <2>6. p \in Int /\ r \in Int /\ at \in Int
      <3>1. p \in Int /\ r \in Int
        BY <1>8
      <3> QED BY <1>4, <3>1
    <2>7. j = l /\ p = r
      BY <2>5, <2>6
    <2> QED BY <2>2, <2>4, <2>7
  <1> QED BY <1>2, <1>7, <1>13, <1>14, <1>15 DEF WellPlaced, T, e
-----------------------------------------------------------------------------
(* Rehashing *)

After(M, pl) == {q \in M : ~ Before(q, pl)}

LEMMA BeforeOrder ==
  ASSUME NEW P, \A pl \in P : pl[1] \in Int /\ pl[2] \in Int /\ pl = <<pl[1], pl[2]>>
  PROVE  /\ \A pl \in P : ~ Before(pl, pl)
         /\ \A pl, q \in P : pl # q => Before(pl, q) \/ Before(q, pl)
         /\ \A pl, q, r \in P : Before(pl, q) /\ ~ Before(r, q) => ~ Before(r, pl)
  <1>1. \A pl \in P : ~ Before(pl, pl)
    BY DEF Before
  <1>2. ASSUME NEW pl \in P, NEW q \in P, ~ Before(pl, q), ~ Before(q, pl)
        PROVE  pl = q
    <2>1. pl[1] = q[1] /\ pl[2] = q[2]
      BY <1>2 DEF Before
    <2> QED BY <2>1
  <1>3. ASSUME NEW pl \in P, NEW q \in P, NEW r \in P, Before(pl, q), ~ Before(r, q)
        PROVE  ~ Before(r, pl)
    BY <1>3 DEF Before
  <1> QED BY <1>1, <1>2, <1>3

\* Counting from the last one, each of a set of places has a number of its own,
\* and each number up to the size of the set is one's.
LEMMA Ranked ==
  ASSUME NEW n \in Nat, NEW table \in [0 .. n - 1 -> Seq(Entry)],
         NEW M \in SUBSET Places(table)
  PROVE  /\ Cardinality(M) \in Nat
         /\ \A p \in 1 .. Cardinality(M) :
              \E pl \in M : Cardinality(After(M, pl)) = p
         /\ \A pl \in M : Cardinality(After(M, pl)) \in 1 .. Cardinality(M)
         /\ \A pl, q \in M : Cardinality(After(M, pl)) = Cardinality(After(M, q)) => pl = q
  <1>1. IsFiniteSet(M)
    BY PlacesFinite, FS_Subset
  <1>2. \A pl \in M : pl[1] \in Int /\ pl[2] \in Int /\ pl = <<pl[1], pl[2]>>
    <2> SUFFICES ASSUME NEW pl \in M
                 PROVE  pl[1] \in Int /\ pl[2] \in Int /\ pl = <<pl[1], pl[2]>>
      OBVIOUS
    <2>1. pl \in Places(table)
      OBVIOUS
    <2>2. pl[1] \in 0 .. n - 1 /\ pl[2] \in 1 .. Len(table[pl[1]]) /\ pl = <<pl[1], pl[2]>>
      BY <2>1, EntryAtType
    <2> QED BY <2>2
  <1>3. /\ \A pl \in M : ~ Before(pl, pl)
        /\ \A pl, q \in M : pl # q => Before(pl, q) \/ Before(q, pl)
        /\ \A pl, q, r \in M : Before(pl, q) /\ ~ Before(r, q) => ~ Before(r, pl)
    BY <1>2, BeforeOrder
  <1>4. \A pl \in M : /\ After(M, pl) \in SUBSET M /\ pl \in After(M, pl)
                      /\ IsFiniteSet(After(M, pl))
    BY <1>1, <1>3, FS_Subset DEF After
  <1>5. Cardinality(M) \in Nat /\ \A pl \in M : Cardinality(After(M, pl)) \in 1 .. Cardinality(M)
    <2>1. Cardinality(M) \in Nat
      BY <1>1, FS_CardinalityType
    <2>2. ASSUME NEW pl \in M
          PROVE  Cardinality(After(M, pl)) \in 1 .. Cardinality(M)
      <3>1. Cardinality(After(M, pl)) \in Nat /\ Cardinality(After(M, pl)) # 0
        BY <1>4, FS_CardinalityType, FS_EmptySet
      <3>2. Cardinality(After(M, pl)) <= Cardinality(M)
        BY <1>1, <1>4, FS_Subset
      <3> QED BY <2>1, <3>1, <3>2
    <2> QED BY <2>1, <2>2
  <1>6. ASSUME NEW pl \in M, NEW q \in M, Before(pl, q)
        PROVE  Cardinality(After(M, pl)) # Cardinality(After(M, q))
    <2>1. After(M, q) \in SUBSET After(M, pl)
      BY <1>3, <1>6 DEF After
    <2>2. After(M, q) # After(M, pl)
      BY <1>4, <1>6 DEF After
    <2> QED BY <1>4, <2>1, <2>2, FS_Subset
  <1>7. \A pl, q \in M : Cardinality(After(M, pl)) = Cardinality(After(M, q)) => pl = q
    BY <1>3, <1>6
  <1> DEFINE f == [pl \in M |-> Cardinality(After(M, pl))]
             I == 1 .. Cardinality(M)
  <1>8. IsFiniteSet(I) /\ Cardinality(I) = Cardinality(M)
    BY <1>5, FS_Interval
  <1>9. f \in Injection(M, I)
    BY <1>5, <1>7 DEF Injection, IsInjective
  <1>10. f \in Surjection(M, I)
    <2> HIDE DEF f, I
    <2> QED BY <1>8, <1>9, FS_Injection
  <1>11. \A p \in I : \E pl \in M : f[pl] = p
    <2> HIDE DEF f, I
    <2> QED BY <1>10 DEF Surjection
  <1> QED BY <1>5, <1>7, <1>11
\* Rehashing keeps each entry, puts it on its new chain, and puts none twice.
LEMMA RehashKeeps ==
  ASSUME NEW m \in Nat \ {0}, NEW table, WellPlaced(table, m), NEW n \in Nat \ {0}
  PROVE  /\ WellPlaced(Rehashed(table, n), n)
         /\ Entries(Rehashed(table, n)) = Entries(table)
  <1> DEFINE Moved(i) == {pl \in Places(table) : Index(EntryAt(table, pl).key, n) = i}
             rank(i, pl) == Cardinality(After(Moved(i), pl))
             from(i, p) == CHOOSE pl \in Moved(i) : rank(i, pl) = p
             R == Rehashed(table, n)
  <1>1. R = [i \in 0 .. n - 1 |->
               [p \in 1 .. Cardinality(Moved(i)) |-> EntryAt(table, from(i, p))]]
    BY DEF Rehashed, After
  <1>2. ASSUME NEW i \in 0 .. n - 1
        PROVE  /\ Cardinality(Moved(i)) \in Nat
               /\ \A p \in 1 .. Cardinality(Moved(i)) : \E pl \in Moved(i) : rank(i, pl) = p
               /\ \A pl \in Moved(i) : rank(i, pl) \in 1 .. Cardinality(Moved(i))
               /\ \A pl, q \in Moved(i) : rank(i, pl) = rank(i, q) => pl = q
    <2> DEFINE M == Moved(i)
    <2>1. M \in SUBSET Places(table) /\ table \in [0 .. m - 1 -> Seq(Entry)]
      BY DEF WellPlaced
    <2> HIDE DEF M
    <2>2. /\ Cardinality(M) \in Nat
          /\ \A p \in 1 .. Cardinality(M) : \E pl \in M : Cardinality(After(M, pl)) = p
          /\ \A pl \in M : Cardinality(After(M, pl)) \in 1 .. Cardinality(M)
          /\ \A pl, q \in M : Cardinality(After(M, pl)) = Cardinality(After(M, q)) => pl = q
      BY <2>1, Ranked
    <2> QED BY <2>2 DEF M
  <1> HIDE DEF R, Moved, rank
  <1>3. ASSUME NEW i \in 0 .. n - 1, NEW p \in 1 .. Cardinality(Moved(i))
        PROVE  from(i, p) \in Moved(i) /\ rank(i, from(i, p)) = p
    <2>1. \E pl \in Moved(i) : rank(i, pl) = p
      BY <1>2
    <2> QED BY <2>1
  <1>4. ASSUME NEW i \in 0 .. n - 1, NEW pl \in Moved(i)
        PROVE  rank(i, pl) \in 1 .. Cardinality(Moved(i)) /\ from(i, rank(i, pl)) = pl
    <2>1. rank(i, pl) \in 1 .. Cardinality(Moved(i))
      BY <1>2
    <2>2. from(i, rank(i, pl)) \in Moved(i) /\ rank(i, from(i, rank(i, pl))) = rank(i, pl)
      BY <1>3, <2>1
    <2> HIDE DEF from
    <2> QED BY <1>2, <2>1, <2>2
  <1> HIDE DEF from
  <1>5. /\ DOMAIN R = 0 .. n - 1
        /\ \A i \in 0 .. n - 1 :
             /\ R[i] = [p \in 1 .. Cardinality(Moved(i)) |-> EntryAt(table, from(i, p))]
             /\ DOMAIN R[i] = 1 .. Cardinality(Moved(i))
             /\ \A p \in DOMAIN R[i] : R[i][p] = EntryAt(table, from(i, p))
    BY <1>1
  <1>6. ASSUME NEW i \in 0 .. n - 1, NEW p \in DOMAIN R[i]
        PROVE  /\ from(i, p) \in Places(table) /\ R[i][p] = EntryAt(table, from(i, p))
               /\ R[i][p] \in Entry /\ Index(R[i][p].key, n) = i
               /\ rank(i, from(i, p)) = p
    <2>1. from(i, p) \in Moved(i) /\ rank(i, from(i, p)) = p
      BY <1>3, <1>5
    <2>2. from(i, p) \in Places(table) /\ Index(EntryAt(table, from(i, p)).key, n) = i
      BY <2>1 DEF Moved
    <2>3. EntryAt(table, from(i, p)) \in Entry
      BY <2>2, EntryAtType DEF WellPlaced
    <2> QED BY <1>5, <2>1, <2>2, <2>3
  <1>7. R \in [0 .. n - 1 -> Seq(Entry)]
    <2>1. \A i \in 0 .. n - 1 : R[i] \in Seq(Entry)
      <3> SUFFICES ASSUME NEW i \in 0 .. n - 1 PROVE R[i] \in Seq(Entry)
        OBVIOUS
      <3>1. Cardinality(Moved(i)) \in Nat
        BY <1>2
      <3>2. R[i] \in [1 .. Cardinality(Moved(i)) -> Entry]
        BY <1>5, <1>6
      <3> QED BY <3>1, <3>2, SeqDef
    <2>2. R = [i \in 0 .. n - 1 |-> R[i]]
      BY <1>1
    <2> QED BY <2>1, <2>2
  <1>8. \A pl, q \in Places(R) : EntryAt(R, pl).key = EntryAt(R, q).key => pl = q
    <2> SUFFICES ASSUME NEW pl \in Places(R), NEW q \in Places(R),
                        EntryAt(R, pl).key = EntryAt(R, q).key
                 PROVE  pl = q
      OBVIOUS
    <2>1. PICK i \in DOMAIN R : \E p \in DOMAIN R[i] : pl = <<i, p>>
      BY PlacesAre
    <2>2. PICK p \in DOMAIN R[i] : pl = <<i, p>>
      BY <2>1
    <2>3. PICK j \in DOMAIN R : \E r \in DOMAIN R[j] : q = <<j, r>>
      BY PlacesAre
    <2>4. PICK r \in DOMAIN R[j] : q = <<j, r>>
      BY <2>3
    <2>5. R[i][p].key = R[j][r].key
      BY <2>2, <2>4 DEF EntryAt
    <2>6. i = j
      BY <1>5, <1>6, <2>5
    <2>7. from(i, p) = from(j, r)
      <3>1. /\ from(i, p) \in Places(table) /\ R[i][p] = EntryAt(table, from(i, p))
            /\ from(j, r) \in Places(table) /\ R[j][r] = EntryAt(table, from(j, r))
        BY <1>5, <1>6
      <3> QED BY <2>5, <3>1 DEF WellPlaced
    <2>8. p = r
      BY <1>5, <1>6, <2>6, <2>7
    <2> QED BY <2>2, <2>4, <2>6, <2>8
  <1>9. Entries(R) \subseteq Entries(table)
    <2> SUFFICES ASSUME NEW pl \in Places(R) PROVE EntryAt(R, pl) \in Entries(table)
      BY DEF Entries
    <2>1. PICK i \in DOMAIN R : \E p \in DOMAIN R[i] : pl = <<i, p>>
      BY PlacesAre
    <2>2. PICK p \in DOMAIN R[i] : pl = <<i, p>>
      BY <2>1
    <2>3. EntryAt(R, pl) = R[i][p]
      BY <2>2 DEF EntryAt
    <2> QED BY <1>5, <1>6, <2>3 DEF Entries
  <1>10. Entries(table) \subseteq Entries(R)
    <2> SUFFICES ASSUME NEW pl \in Places(table) PROVE EntryAt(table, pl) \in Entries(R)
      BY DEF Entries
    <2> DEFINE i == Index(EntryAt(table, pl).key, n)
    <2>1. EntryAt(table, pl) \in Entry
      BY EntryAtType DEF WellPlaced
    <2>2. i \in 0 .. n - 1
      BY <2>1, IndexType DEF Entry
    <2>3. pl \in Moved(i)
      BY DEF Moved
    <2> HIDE DEF i
    <2>4. rank(i, pl) \in DOMAIN R[i] /\ R[i][rank(i, pl)] = EntryAt(table, pl)
      <3> DEFINE p == rank(i, pl)
      <3>1. p \in 1 .. Cardinality(Moved(i)) /\ from(i, p) = pl
        BY <1>4, <2>2, <2>3
      <3> HIDE DEF p
      <3>2. p \in DOMAIN R[i]
        BY <1>5, <2>2, <3>1
      <3>3. R[i][p] = EntryAt(table, from(i, p))
        BY <1>6, <2>2, <3>2
      <3> QED BY <3>1, <3>2, <3>3 DEF p
    <2>5. R[i][rank(i, pl)] \in Entries(R)
      BY <1>5, <2>2, <2>4, IsAnEntry
    <2> QED BY <2>4, <2>5
  <1>11. \A i \in DOMAIN R : \A p \in DOMAIN R[i] : Index(R[i][p].key, n) = i
    BY <1>5, <1>6
  <1> QED BY <1>7, <1>8, <1>9, <1>10, <1>11 DEF WellPlaced, R
-----------------------------------------------------------------------------
(* The invariant *)

LEMMA NoEntries ==
  ASSUME NEW n \in Nat \ {0}
  PROVE  WellPlaced(NoChains(n), n) /\ Places(NoChains(n)) = {} /\ Entries(NoChains(n)) = {}
  <1>1. /\ NoChains(n) \in [0 .. n - 1 -> Seq(Entry)]
        /\ \A i \in DOMAIN NoChains(n) : DOMAIN NoChains(n)[i] = {}
    <2>1. <<>> \in Seq(Entry) /\ DOMAIN <<>> = {}
      OBVIOUS
    <2> QED BY <2>1 DEF NoChains
  <1>2. Places(NoChains(n)) = {}
    BY <1>1, PlacesAre
  <1> QED BY <1>1, <1>2 DEF WellPlaced, Entries

\* The count is what the entries are and what undone insertions left.
LEMMA CountedInv ==
  HashTableInv <=> /\ size \in ToSet(Primes) /\ WellPlaced(chains, size) /\ overcount \in Nat
                   /\ count = Cardinality(Entries(chains)) + overcount
  <1>1. ASSUME size \in ToSet(Primes), WellPlaced(chains, size)
        PROVE  Cardinality(Places(chains)) = Cardinality(Entries(chains))
    BY <1>1, SizesPositive, Counted
  <1> QED BY <1>1 DEF HashTableInv

LEMMA ResizedKeeps ==
  ASSUME HashTableInv, NEW table, WellPlaced(table, size), NEW c \in Int, Resized(table, c)
  PROVE  /\ size' \in ToSet(Primes) /\ WellPlaced(chains', size')
         /\ Entries(chains') = Entries(table) /\ count' = c
  <1>1. size \in Nat \ {0}
    BY SizeType
  <1>2. ClosestPrime(c) \in ToSet(Primes) /\ ClosestPrime(c) \in Nat \ {0}
    BY ClosestPrimeType, SizesPositive
  <1>3. CASE NeedsResize(size, c)
    <2>1. size' = ClosestPrime(c) /\ chains' = Rehashed(table, ClosestPrime(c)) /\ count' = c
      BY <1>3 DEF Resized
    <2> QED BY <1>1, <1>2, <2>1, RehashKeeps
  <1>4. CASE ~ NeedsResize(size, c)
    BY <1>4 DEF Resized, HashTableInv
  <1> QED BY <1>3, <1>4

LEMMA CountType ==
  ASSUME HashTableInv
  PROVE  count \in Nat /\ IsFiniteSet(Entries(chains)) /\ Cardinality(Entries(chains)) \in Nat
  BY SizeType, Counted, CountedInv, FS_CardinalityType

LEMMA InsertNewKeeps ==
  ASSUME HashTableInv, NEW k \in Keys, NEW v \in Values, InsertNew(k, v)
  PROVE  /\ HashTableInv'
         /\ [key |-> k, value |-> v] \notin Entries(chains)
         /\ Entries(chains') = Entries(chains) \cup {[key |-> k, value |-> v]}
  <1> DEFINE e == [key |-> k, value |-> v]
  <1>1. /\ Position(k) = 0 /\ Resized(WithEntry(k, v), count + 1) /\ overcount' = overcount
    BY DEF InsertNew
  <1>2. WellPlaced(WithEntry(k, v), size) /\ Entries(WithEntry(k, v)) = Entries(chains) \cup {e}
    BY <1>1, Inserted
  <1>3. e \notin Entries(chains)
    BY <1>1, SizeType, Absent, Positions
  <1>4. /\ size' \in ToSet(Primes) /\ WellPlaced(chains', size') /\ count' = count + 1
        /\ Entries(chains') = Entries(chains) \cup {e}
    BY <1>1, <1>2, CountType, ResizedKeeps
  <1> HIDE DEF e
  <1>5. Cardinality(Entries(chains')) = Cardinality(Entries(chains)) + 1
    BY <1>3, <1>4, CountType, FS_AddElement
  <1>6. count' = Cardinality(Entries(chains')) + overcount' /\ overcount' \in Nat
    BY <1>1, <1>4, <1>5, CountType, CountedInv
  <1>7. Cardinality(Places(chains')) = Cardinality(Entries(chains'))
    BY <1>4, SizesPositive, Counted
  <1>8. HashTableInv'
    BY <1>4, <1>6, <1>7 DEF HashTableInv
  <1> QED BY <1>3, <1>4, <1>8 DEF e

LEMMA RemovalKeeps ==
  ASSUME HashTableInv, NEW k \in Keys, RemoveKey(k) \/ RemoveNotResized(k)
  PROVE  /\ HashTableInv'
         /\ overcount' = overcount /\ Discard(ValueOf(k)) /\ reply' = "ok"
         /\ [key |-> k, value |-> ValueOf(k)] \in Entries(chains) /\ ValueOf(k) \in Values
         /\ Entries(chains') = Entries(chains) \ {[key |-> k, value |-> ValueOf(k)]}
  <1> DEFINE e == [key |-> k, value |-> ValueOf(k)]
  <1>1. /\ Position(k) # 0 /\ overcount' = overcount
        /\ Discard(ValueOf(k)) /\ reply' = "ok"
    BY DEF RemoveKey, RemoveNotResized
  <1>2. /\ WellPlaced(WithoutEntry(k), size) /\ e \in Entries(chains) /\ ValueOf(k) \in Values
        /\ Entries(WithoutEntry(k)) = Entries(chains) \ {e}
    BY <1>1, Removed
  <1>3. /\ size' \in ToSet(Primes) /\ WellPlaced(chains', size') /\ count' = count - 1
        /\ Entries(chains') = Entries(chains) \ {e}
    <2>1. CASE RemoveKey(k)
      <3>1. Resized(WithoutEntry(k), count - 1)
        BY <2>1 DEF RemoveKey
      <3> QED BY <1>2, <3>1, CountType, ResizedKeeps
    <2>2. CASE RemoveNotResized(k)
      <3>1. size' = size /\ chains' = WithoutEntry(k) /\ count' = count - 1
        BY <2>2 DEF RemoveNotResized
      <3> QED BY <1>2, <3>1 DEF HashTableInv
    <2> QED BY <2>1, <2>2
  <1> HIDE DEF e
  <1>4. Cardinality(Entries(chains')) = Cardinality(Entries(chains)) - 1
    BY <1>2, <1>3, CountType, FS_RemoveElement
  <1>5. count' = Cardinality(Entries(chains')) + overcount' /\ overcount' \in Nat
    BY <1>1, <1>3, <1>4, CountType, CountedInv
  <1>6. Cardinality(Places(chains')) = Cardinality(Entries(chains'))
    BY <1>3, SizesPositive, Counted
  <1>7. HashTableInv'
    BY <1>3, <1>5, <1>6 DEF HashTableInv
  <1> QED BY <1>1, <1>2, <1>3, <1>7 DEF e

LEMMA InitInv == HashTableInit => HashTableInv
  <1> SUFFICES ASSUME HashTableInit PROVE HashTableInv
    OBVIOUS
  <1>1. MinSize \in ToSet(Primes) /\ MinSize \in Nat \ {0}
    BY SmallestIsSize, SizesPositive
  <1>2. WellPlaced(NoChains(MinSize), MinSize) /\ Cardinality(Places(NoChains(MinSize))) = 0
    BY <1>1, NoEntries, FS_EmptySet
  <1> QED BY <1>1, <1>2 DEF HashTableInit, HashTableInv

LEMMA DestroyKeeps ==
  ASSUME HashTableInv, hashtable_destroy
  PROVE  HashTableInv' /\ Entries(chains') = {}
  <1>1. MinSize \in ToSet(Primes) /\ MinSize \in Nat \ {0}
    BY SmallestIsSize, SizesPositive
  <1>2. /\ WellPlaced(NoChains(MinSize), MinSize) /\ Entries(NoChains(MinSize)) = {}
        /\ Cardinality(Places(NoChains(MinSize))) = 0
    BY <1>1, NoEntries, FS_EmptySet
  <1> QED BY <1>1, <1>2 DEF hashtable_destroy, HashTableInv

\* The calls that leave the table alone; one of them leaves its count too high.
LEMMA QuietKeeps ==
  ASSUME HashTableInv, UNCHANGED <<size, chains>>,
         \/ UNCHANGED <<count, overcount>>
         \/ count' = count + 1 /\ overcount' = overcount + 1
  PROVE  HashTableInv'
  <1>1. Cardinality(Places(chains)) \in Nat
    BY SizeType, Counted, FS_CardinalityType
  <1> QED BY <1>1 DEF HashTableInv

LEMMA NextInv == HashTableInv /\ [HashTableNext]_hashTableVars => HashTableInv'
  <1> SUFFICES ASSUME HashTableInv, [HashTableNext]_hashTableVars
               PROVE  HashTableInv'
    OBVIOUS
  <1>1. ASSUME NEW k \in Keys, hashtable_remove(k)
        PROVE  HashTableInv'
    <2>1. CASE RemoveAbsent(k)
      BY <2>1, QuietKeeps DEF RemoveAbsent
    <2>2. CASE RemoveKey(k) \/ RemoveNotResized(k)
      BY <2>2, RemovalKeeps
    <2> QED BY <1>1, <2>1, <2>2 DEF hashtable_remove
  <1>2. ASSUME NEW k \in Keys, hashtable_lookup(k)
        PROVE  HashTableInv'
    BY <1>2, QuietKeeps DEF hashtable_lookup
  <1>3. ASSUME NEW k \in Keys, NEW v \in Values, hashtable_insert(k, v)
        PROVE  HashTableInv'
    <2>1. CASE InsertNew(k, v)
      BY <2>1, InsertNewKeeps
    <2>2. CASE InsertExisting(k, v)
      BY <2>2, QuietKeeps DEF InsertExisting
    <2>3. CASE InsertNoEntry(k, v)
      BY <2>3, QuietKeeps DEF InsertNoEntry
    <2>4. CASE InsertNotResized(k, v)
      BY <2>4, QuietKeeps DEF InsertNotResized
    <2> QED BY <1>3, <2>1, <2>2, <2>3, <2>4 DEF hashtable_insert
  <1>4. CASE hashtable_destroy
    BY <1>4, DestroyKeeps
  <1>5. CASE UNCHANGED hashTableVars
    BY <1>5, QuietKeeps DEF hashTableVars
  <1> QED BY <1>1, <1>2, <1>3, <1>4, <1>5 DEF HashTableNext

LEMMA InvExact == HashTableInv => ChainsExact
  BY DEF HashTableInv, WellPlaced, ChainsExact, Visited, hashtable_size

\* Through every insertion, removal and resizing, whatever the hash function and
\* whichever allocation fails, each entry is on the chain where lookup() searches
\* it, iterating visits each key once, and the count exceeds the number of
\* entries by the insertions that were undone.
THEOREM ChainsCorrect == HashTableSpec => []ChainsExact
  <1> QED BY InitInv, NextInv, InvExact, PTL DEF HashTableSpec
-----------------------------------------------------------------------------
(* Values and their destructor *)

LEMMA MaxWithZero ==
  ASSUME NEW a \in Int
  PROVE  Max({0, a}) = IF a > 0 THEN a ELSE 0
  <1>1. CASE a > 0
    <2>1. \E x \in {0, a} : \A y \in {0, a} : x >= y
      BY <1>1
    <2>2. Max({0, a}) \in {0, a} /\ \A y \in {0, a} : Max({0, a}) >= y
      BY <2>1 DEF Max
    <2> QED BY <1>1, <2>2
  <1>2. CASE ~ (a > 0)
    <2>1. 0 \in {0, a} /\ \A y \in {0, a} : 0 >= y
      BY <1>2
    <2>2. Max({0, a}) \in {0, a} /\ \A y \in {0, a} : Max({0, a}) >= y
      BY <2>1 DEF Max
    <2> QED BY <1>2, <2>2
  <1> QED BY <1>1, <1>2

\* The entries that have a value.
Having(E, v) == {e \in E : e.value = v}

LEMMA OccurrencesAre ==
  ASSUME NEW n \in Nat \ {0}, NEW table, WellPlaced(table, n), NEW v
  PROVE  /\ Occurrences(table, v) = Cardinality(Having(Entries(table), v))
         /\ IsFiniteSet(Having(Entries(table), v))
         /\ Occurrences(table, v) \in Nat
  <1>1. /\ Occurrences(table, v) = Cardinality(Having(Entries(table), v))
        /\ IsFiniteSet(Entries(table)) /\ Having(Entries(table), v) \in SUBSET Entries(table)
    BY Counted DEF Having
  <1>2. IsFiniteSet(Having(Entries(table), v))
    BY <1>1, FS_Subset
  <1> QED BY <1>1, <1>2, FS_CardinalityType

LEMMA InvOccurrences ==
  ASSUME HashTableInv, NEW v
  PROVE  /\ Occurrences(chains, v) = Cardinality(Having(Entries(chains), v))
         /\ IsFiniteSet(Having(Entries(chains), v))
         /\ Occurrences(chains, v) \in Nat
  BY SizeType, OccurrencesAre

LEMMA InvOccurrencesNext ==
  ASSUME HashTableInv', NEW v
  PROVE  /\ Occurrences(chains', v) = Cardinality(Having(Entries(chains'), v))
         /\ IsFiniteSet(Having(Entries(chains'), v))
         /\ Occurrences(chains', v) \in Nat
  <1>1. size' \in Nat \ {0} /\ WellPlaced(chains', size')
    BY SizesPositive DEF HashTableInv
  <1> QED BY <1>1, OccurrencesAre

\* What DestroyedOnce asks of a step that undoes no insertion.
LeaversDestroyed ==
  \A v \in Values :
    destroyed'[v] = Max({0, Occurrences(chains, v) - Occurrences(chains', v)})

LEMMA NothingLeaves ==
  ASSUME HashTableInv, UNCHANGED chains, destroyed' = NoneDestroyed
  PROVE  LeaversDestroyed
  <1> SUFFICES ASSUME NEW v \in Values
               PROVE  destroyed'[v] = Max({0, Occurrences(chains, v) - Occurrences(chains', v)})
    BY DEF LeaversDestroyed
  <1>1. Occurrences(chains, v) - Occurrences(chains', v) = 0
    BY InvOccurrences
  <1> QED BY <1>1, MaxWithZero DEF NoneDestroyed

LEMMA InsertNewDestroys ==
  ASSUME HashTableInv, NEW k \in Keys, NEW u \in Values, InsertNew(k, u)
  PROVE  LeaversDestroyed
  <1> SUFFICES ASSUME NEW v \in Values
               PROVE  destroyed'[v] = Max({0, Occurrences(chains, v) - Occurrences(chains', v)})
    BY DEF LeaversDestroyed
  <1>1. HashTableInv' /\ Entries(chains) \subseteq Entries(chains')
    BY InsertNewKeeps
  <1>2. Having(Entries(chains), v) \in SUBSET Having(Entries(chains'), v)
    BY <1>1 DEF Having
  <1>3. Occurrences(chains, v) <= Occurrences(chains', v)
    BY <1>1, <1>2, InvOccurrences, InvOccurrencesNext, FS_Subset
  <1>4. /\ Occurrences(chains, v) - Occurrences(chains', v) \in Int
        /\ ~ (Occurrences(chains, v) - Occurrences(chains', v) > 0)
    BY <1>1, <1>3, InvOccurrences, InvOccurrencesNext
  <1>5. destroyed'[v] = 0
    BY DEF InsertNew, NoneDestroyed
  <1> QED BY <1>4, <1>5, MaxWithZero

LEMMA RemovalDestroys ==
  ASSUME HashTableInv, NEW k \in Keys, RemoveKey(k) \/ RemoveNotResized(k)
  PROVE  LeaversDestroyed
  <1> DEFINE e == [key |-> k, value |-> ValueOf(k)]
  <1> SUFFICES ASSUME NEW v \in Values
               PROVE  destroyed'[v] = Max({0, Occurrences(chains, v) - Occurrences(chains', v)})
    BY DEF LeaversDestroyed
  <1>1. /\ HashTableInv' /\ e \in Entries(chains) /\ Entries(chains') = Entries(chains) \ {e}
        /\ Discard(ValueOf(k)) /\ e.value = ValueOf(k)
    BY RemovalKeeps
  <1>2. destroyed'[v] = IF v = ValueOf(k) THEN 1 ELSE 0
    BY <1>1 DEF Discard, NoneDestroyed
  <1> HIDE DEF e
  <1>3. Having(Entries(chains'), v) = Having(Entries(chains), v) \ {e}
    BY <1>1 DEF Having
  <1>4. e \in Having(Entries(chains), v) <=> v = ValueOf(k)
    BY <1>1 DEF Having
  <1>5. Occurrences(chains', v) = IF v = ValueOf(k) THEN Occurrences(chains, v) - 1
                                  ELSE Occurrences(chains, v)
    <2> DEFINE H == Having(Entries(chains), v)
    <2>1. /\ Occurrences(chains, v) = Cardinality(H) /\ IsFiniteSet(H)
          /\ Occurrences(chains', v) = Cardinality(H \ {e})
      BY <1>1, <1>3, InvOccurrences, InvOccurrencesNext
    <2> HIDE DEF H
    <2>2. Cardinality(H \ {e}) = IF e \in H THEN Cardinality(H) - 1 ELSE Cardinality(H)
      BY <2>1, FS_RemoveElement
    <2> QED BY <1>4, <2>1, <2>2 DEF H
  <1>6. /\ Occurrences(chains, v) - Occurrences(chains', v)
             = IF v = ValueOf(k) THEN 1 ELSE 0
    BY <1>5, InvOccurrences
  <1> QED BY <1>2, <1>6, MaxWithZero

LEMMA DestroyDestroys ==
  ASSUME HashTableInv, hashtable_destroy
  PROVE  LeaversDestroyed
  <1> SUFFICES ASSUME NEW v \in Values
               PROVE  destroyed'[v] = Max({0, Occurrences(chains, v) - Occurrences(chains', v)})
    BY DEF LeaversDestroyed
  <1>1. HashTableInv' /\ Having(Entries(chains'), v) = {}
    BY DestroyKeeps DEF Having
  <1>2. Occurrences(chains', v) = 0
    BY <1>1, InvOccurrencesNext, FS_EmptySet
  <1>3. destroyed'[v] = Occurrences(chains, v)
    BY DEF hashtable_destroy
  <1>4. /\ Occurrences(chains, v) - Occurrences(chains', v) = Occurrences(chains, v)
        /\ Occurrences(chains, v) \in Nat
    BY <1>2, InvOccurrences
  <1> QED BY <1>3, <1>4, MaxWithZero

\* What DestroyedOnce says of a step.
DestroysOnce ==
  IF overcount' > overcount
  THEN /\ \E v \in Values : destroyed' = [NoneDestroyed EXCEPT ![v] = 1]
       /\ Entries(chains') = Entries(chains)
  ELSE LeaversDestroyed

LEMMA StepDestroys == HashTableInv /\ HashTableNext => DestroysOnce
  <1> SUFFICES ASSUME HashTableInv, HashTableNext PROVE DestroysOnce
    OBVIOUS
  <1>0. overcount \in Nat
    BY DEF HashTableInv
  <1>1. ASSUME NEW k \in Keys, hashtable_remove(k)
        PROVE  DestroysOnce
    <2>1. CASE RemoveAbsent(k)
      BY <1>0, <2>1, NothingLeaves DEF RemoveAbsent, DestroysOnce
    <2>2. CASE RemoveKey(k) \/ RemoveNotResized(k)
      <3>1. overcount' = overcount /\ LeaversDestroyed
        BY <2>2, RemovalKeeps, RemovalDestroys
      <3> QED BY <1>0, <3>1 DEF DestroysOnce
    <2> QED BY <1>1, <2>1, <2>2 DEF hashtable_remove
  <1>2. ASSUME NEW k \in Keys, hashtable_lookup(k)
        PROVE  DestroysOnce
    BY <1>0, <1>2, NothingLeaves DEF hashtable_lookup, DestroysOnce
  <1>3. ASSUME NEW k \in Keys, NEW v \in Values, hashtable_insert(k, v)
        PROVE  DestroysOnce
    <2>1. CASE InsertNew(k, v)
      <3>1. overcount' = overcount /\ LeaversDestroyed
        BY <2>1, InsertNewDestroys DEF InsertNew
      <3> QED BY <1>0, <3>1 DEF DestroysOnce
    <2>2. CASE InsertExisting(k, v)
      BY <1>0, <2>2, NothingLeaves DEF InsertExisting, DestroysOnce
    <2>3. CASE InsertNoEntry(k, v)
      BY <1>0, <2>3, NothingLeaves DEF InsertNoEntry, DestroysOnce
    <2>4. CASE InsertNotResized(k, v)
      <3>1. overcount' = overcount + 1 /\ chains' = chains /\ Discard(v)
        BY <2>4 DEF InsertNotResized
      <3>2. overcount' > overcount
        BY <1>0, <3>1
      <3>3. destroyed' = [NoneDestroyed EXCEPT ![v] = 1]
        BY <3>1 DEF Discard
      <3>4. Entries(chains') = Entries(chains)
        BY <3>1
      <3> QED BY <3>2, <3>3, <3>4 DEF DestroysOnce
    <2> QED BY <1>3, <2>1, <2>2, <2>3, <2>4 DEF hashtable_insert
  <1>4. CASE hashtable_destroy
    <2>1. overcount' = 0 /\ LeaversDestroyed
      BY <1>4, DestroyDestroys DEF hashtable_destroy
    <2> QED BY <1>0, <2>1 DEF DestroysOnce
  <1> QED BY <1>1, <1>2, <1>3, <1>4 DEF HashTableNext

\* A value is given to the destructor when it leaves the table, once, and when
\* its insertion is undone because the table could not grow; at no other call.
THEOREM DestroyedCorrect == HashTableSpec => DestroyedOnce
  <1>1. HashTableInv /\ HashTableNext => DestroysOnce
    BY StepDestroys
  <1> QED BY <1>1, InitInv, NextInv, PTL
          DEF HashTableSpec, DestroyedOnce, DestroysOnce, LeaversDestroyed
-----------------------------------------------------------------------------
(* The map that a table implements *)

\* What lookup() finds depends on the entries alone.
LEMMA ValueOfEntry ==
  ASSUME NEW n \in Nat \ {0}, NEW table, WellPlaced(table, n), NEW k \in Keys
  PROVE  /\ \A e \in Entries(table) : e.key = k => ValueIn(table, n, k) = e.value
         /\ (\A e \in Entries(table) : e.key # k) => ValueIn(table, n, k) = NoValue
  <1>1. CASE PositionIn(table, n, k) = 0
    BY <1>1, Absent
  <1>2. CASE PositionIn(table, n, k) # 0
    <2> DEFINE d == [key |-> k, value |-> ValueIn(table, n, k)]
    <2>1. d \in Entries(table) /\ d.key = k /\ d.value = ValueIn(table, n, k)
      BY <1>2, Present
    <2> HIDE DEF d
    <2>2. \A e \in Entries(table) : e.key = k => e = d
      BY <2>1, Counted
    <2> QED BY <2>1, <2>2
  <1> QED BY <1>1, <1>2

\* The map of an array, and the one of a state.
MapOf(table, n) == [k \in Keys |-> ValueIn(table, n, k)]

LEMMA MapOfState ==
  /\ [k \in Keys |-> ValueOf(k)] = MapOf(chains, size)
  /\ [k \in Keys |-> ValueOf(k)]' = MapOf(chains', size')
  BY DEF MapOf, ValueOf, ValueIn, Position, PositionIn

LEMMA SameMap ==
  ASSUME NEW m \in Nat \ {0}, NEW n \in Nat \ {0}, NEW old, NEW table,
         WellPlaced(old, m), WellPlaced(table, n), Entries(table) = Entries(old)
  PROVE  MapOf(table, n) = MapOf(old, m)
  <1> SUFFICES ASSUME NEW k \in Keys PROVE ValueIn(table, n, k) = ValueIn(old, m, k)
    BY DEF MapOf
  <1> QED BY ValueOfEntry

LEMMA MapWith ==
  ASSUME NEW m \in Nat \ {0}, NEW n \in Nat \ {0}, NEW old, NEW table,
         WellPlaced(old, m), WellPlaced(table, n), NEW k \in Keys, NEW v \in Values,
         Entries(table) = Entries(old) \cup {[key |-> k, value |-> v]}
  PROVE  MapOf(table, n) = [MapOf(old, m) EXCEPT ![k] = v]
  <1> SUFFICES ASSUME NEW j \in Keys
               PROVE  ValueIn(table, n, j) = IF j = k THEN v ELSE ValueIn(old, m, j)
    BY DEF MapOf
  <1> DEFINE e == [key |-> k, value |-> v]
  <1>1. e.key = k /\ e.value = v /\ Entries(table) = Entries(old) \cup {e}
    OBVIOUS
  <1> HIDE DEF e
  <1>2. CASE j = k
    BY <1>1, <1>2, ValueOfEntry
  <1>3. CASE j # k
    BY <1>1, <1>3, ValueOfEntry
  <1> QED BY <1>2, <1>3

LEMMA MapWithout ==
  ASSUME NEW m \in Nat \ {0}, NEW n \in Nat \ {0}, NEW old, NEW table,
         WellPlaced(old, m), WellPlaced(table, n), NEW k \in Keys, NEW v,
         [key |-> k, value |-> v] \in Entries(old),
         Entries(table) = Entries(old) \ {[key |-> k, value |-> v]}
  PROVE  MapOf(table, n) = [MapOf(old, m) EXCEPT ![k] = NoValue]
  <1> SUFFICES ASSUME NEW j \in Keys
               PROVE  ValueIn(table, n, j) = IF j = k THEN NoValue ELSE ValueIn(old, m, j)
    BY DEF MapOf
  <1> DEFINE e == [key |-> k, value |-> v]
  <1>1. e.key = k /\ e \in Entries(old) /\ Entries(table) = Entries(old) \ {e}
    OBVIOUS
  <1> HIDE DEF e
  <1>2. \A d \in Entries(old) : d.key = k => d = e
    BY <1>1, Counted
  <1>3. CASE j = k
    BY <1>1, <1>2, <1>3, ValueOfEntry
  <1>4. CASE j # k
    BY <1>1, <1>4, ValueOfEntry
  <1> QED BY <1>3, <1>4

LEMMA NoMap ==
  ASSUME NEW n \in Nat \ {0}, NEW table, WellPlaced(table, n), Entries(table) = {}
  PROVE  MapOf(table, n) = [k \in Keys |-> NoValue]
  BY ValueOfEntry DEF MapOf

\* A key has a value if it has a position.
LEMMA HasValue ==
  ASSUME HashTableInv, NEW k \in Keys
  PROVE  /\ MapOf(chains, size)[k] = ValueOf(k)
         /\ ValueOf(k) = NoValue <=> Position(k) = 0
  <1>1. MapOf(chains, size)[k] = ValueOf(k)
    BY Positions DEF MapOf
  <1>2. Position(k) = 0 => ValueOf(k) = NoValue
    BY SizeType, Positions, Absent
  <1>3. Position(k) # 0 => ValueOf(k) \in Values
    BY SizeType, Positions, Present
  <1> QED BY <1>1, <1>2, <1>3, HashBoundAssumption

LEMMA NextSizeType ==
  ASSUME HashTableInv'
  PROVE  size' \in Nat \ {0} /\ WellPlaced(chains', size')
  BY SizesPositive DEF HashTableInv

LEMMA InitMaps == HashTableInit => Lookups!MapInit
  <1> SUFFICES ASSUME HashTableInit PROVE Lookups!MapInit
    OBVIOUS
  <1>1. MinSize \in Nat \ {0}
    BY SmallestIsSize, SizesPositive
  <1>2. MapOf(NoChains(MinSize), MinSize) = [k \in Keys |-> NoValue]
    BY <1>1, NoEntries, NoMap
  <1>3. [k \in Keys |-> ValueOf(k)] = [k \in Keys |-> NoValue]
    BY <1>2, MapOfState DEF HashTableInit
  <1> QED BY <1>3 DEF HashTableInit, Lookups!MapInit, Lookups!Nothing

LEMMA StepMaps ==
  HashTableInv /\ HashTableInv' /\ [HashTableNext]_hashTableVars
    => [Lookups!MapNext]_(Lookups!mapVars)
  <1> SUFFICES ASSUME HashTableInv, HashTableInv', [HashTableNext]_hashTableVars
               PROVE  [Lookups!MapNext]_(Lookups!mapVars)
    OBVIOUS
  <1> DEFINE map == MapOf(chains, size)
             next == MapOf(chains', size')
  <1>1. /\ [k \in Keys |-> ValueOf(k)] = map /\ [k \in Keys |-> ValueOf(k)]' = next
        /\ \A k \in Keys : map[k] = ValueOf(k) /\ (map[k] = NoValue <=> Position(k) = 0)
    BY MapOfState, HasValue
  <1>2. /\ size \in Nat \ {0} /\ WellPlaced(chains, size)
        /\ size' \in Nat \ {0} /\ WellPlaced(chains', size')
    BY SizeType, NextSizeType
  <1>3. UNCHANGED <<size, chains>> => next = map
    OBVIOUS
  <1> HIDE DEF map, next
  <1>4. ASSUME NEW k \in Keys, hashtable_remove(k)
        PROVE  Lookups!MapRemove(k)
    <2>1. CASE RemoveAbsent(k)
      <3>1. map[k] = NoValue /\ next = map /\ reply' = "no_entry"
        BY <1>1, <1>3, <2>1 DEF RemoveAbsent
      <3>2. map = [map EXCEPT ![k] = NoValue]
        BY <3>1 DEF map, MapOf
      <3> QED BY <1>1, <3>1, <3>2 DEF Lookups!MapRemove
    <2>2. CASE RemoveKey(k) \/ RemoveNotResized(k)
      <3>1. /\ [key |-> k, value |-> ValueOf(k)] \in Entries(chains)
            /\ Entries(chains') = Entries(chains) \ {[key |-> k, value |-> ValueOf(k)]}
            /\ ValueOf(k) \in Values /\ reply' = "ok"
        BY <2>2, RemovalKeeps
      <3>2. next = [map EXCEPT ![k] = NoValue]
        BY <1>2, <3>1, MapWithout DEF map, next
      <3>3. map[k] # NoValue
        BY <1>1, <3>1, HashBoundAssumption
      <3> QED BY <1>1, <3>1, <3>2, <3>3 DEF Lookups!MapRemove
    <2> QED BY <1>4, <2>1, <2>2 DEF hashtable_remove
  <1>5. ASSUME NEW k \in Keys, hashtable_lookup(k)
        PROVE  Lookups!MapLookup(k)
    <2>1. next = map /\ reply' = IF Position(k) = 0 THEN "no_entry" ELSE ValueOf(k)
      BY <1>3, <1>5 DEF hashtable_lookup
    <2> QED BY <1>1, <2>1 DEF Lookups!MapLookup
  <1>6. ASSUME NEW k \in Keys, NEW v \in Values, hashtable_insert(k, v)
        PROVE  Lookups!MapInsert(k, v)
    <2>1. CASE InsertNew(k, v)
      <3>1. Entries(chains') = Entries(chains) \cup {[key |-> k, value |-> v]}
        BY <2>1, InsertNewKeeps
      <3>2. next = [map EXCEPT ![k] = v]
        BY <1>2, <3>1, MapWith DEF map, next
      <3>3. map[k] = NoValue /\ reply' = "ok"
        BY <1>1, <2>1 DEF InsertNew
      <3> QED BY <1>1, <3>2, <3>3 DEF Lookups!MapInsert
    <2>2. CASE InsertExisting(k, v)
      <3>1. map[k] # NoValue /\ next = map /\ reply' = "exists"
        BY <1>1, <1>3, <2>2 DEF InsertExisting
      <3> QED BY <1>1, <3>1 DEF Lookups!MapInsert
    <2>3. CASE InsertNoEntry(k, v) \/ InsertNotResized(k, v)
      <3>1. map[k] = NoValue /\ next = map /\ reply' = "no_memory"
        BY <1>1, <1>3, <2>3 DEF InsertNoEntry, InsertNotResized
      <3> QED BY <1>1, <3>1 DEF Lookups!MapInsert
    <2> QED BY <1>6, <2>1, <2>2, <2>3 DEF hashtable_insert
  <1>7. CASE hashtable_destroy
    <2>1. next = [k \in Keys |-> NoValue]
      BY <1>2, <1>7, DestroyKeeps, NoMap DEF next
    <2>2. reply' = "ok"
      BY <1>7 DEF hashtable_destroy
    <2> QED BY <1>1, <2>1, <2>2 DEF Lookups!MapNext, Lookups!MapClear, Lookups!Nothing
  <1>8. CASE UNCHANGED hashTableVars
    <2>1. next = map /\ reply' = reply
      BY <1>3, <1>8 DEF hashTableVars
    <2> QED BY <1>1, <2>1 DEF Lookups!mapVars
  <1> QED BY <1>4, <1>5, <1>6, <1>7, <1>8 DEF HashTableNext, Lookups!MapNext

\* A table implements a map: a key has the value it was inserted with until it
\* is removed, whatever the table does to its array, whatever the hash function
\* is, and whichever allocation fails.
THEOREM KeyMapImplemented == HashTableSpec => ImplementsKeyMap
  <1>1. HashTableInit => HashTableInv /\ Lookups!MapInit
    BY InitInv, InitMaps
  <1>2. HashTableInv /\ [HashTableNext]_hashTableVars
          => HashTableInv' /\ [Lookups!MapNext]_(Lookups!mapVars)
    BY NextInv, StepMaps
  <1> QED BY <1>1, <1>2, PTL DEF HashTableSpec, ImplementsKeyMap, Lookups!MapSpec
=============================================================================
