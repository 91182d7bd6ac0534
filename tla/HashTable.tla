----------------------------- MODULE HashTable -----------------------------
(***************************************************************************)
(* The hash table of the library (hashtable.c): chains of entries in an    *)
(* array that grows and shrinks to a prime above the number of entries.    *)
(*                                                                         *)
(* Strings are abstract keys, hash_string the function Hash.  A key is not *)
(* copied: here it stays what it was as long as its entry is there (what   *)
(* happens otherwise is the business of Registry).                         *)
(***************************************************************************)
EXTENDS Integers, SequencesExt

CONSTANTS
  Keys,        \* strings
  Values,      \* what is stored
  NoValue,     \* the value of an absent key
  Hash,        \* hash_string: the hash code of each key
  Primes,      \* primes, in ascending order
  Shortages    \* bound: allocations that fail

\* The first prime is HASHTABLE_MIN_SIZE, the last one HASHTABLE_MAX_SIZE.
MinSize == Primes[1]
MaxSize == Primes[Len(Primes)]

ASSUME HashAssumption == Hash \in [Keys -> Nat]
ASSUME PrimesAssumption ==
  /\ Primes \in Seq(Nat \ {0}) /\ Primes # <<>>
  /\ \A j, k \in DOMAIN Primes : j < k => Primes[j] < Primes[k]
ASSUME HashBoundAssumption ==
  NoValue \notin Values /\ Shortages \in Nat

VARIABLES
  size,       \* hashtable.size
  count,      \* hashtable.count
  chains,     \* hashtable.entries: the chain of each index
  destroyed,  \* how often the last call gave each value to value_dtor
  reply,      \* what the last call returned
  shortages,  \* allocations that failed so far
  overcount   \* history: insertions undone because resize() failed

hashTableVars == <<size, count, chains, destroyed, reply, shortages, overcount>>

Entry == [key : Keys, value : Values]

-----------------------------------------------------------------------------
NoChains(n) == [i \in 0 .. n - 1 |-> <<>>]

Index(k, n) == Hash[k] % n

\* lookup: the position of a key on its chain, 0 when it is not there.
Position(k) ==
  LET chain == chains[Index(k, size)]
      found == {p \in DOMAIN chain : Hash[chain[p].key] = Hash[k] /\ chain[p].key = k}
  IN  IF found = {} THEN 0 ELSE CHOOSE p \in found : \A q \in found : p <= q

ValueOf(k) == IF Position(k) = 0 THEN NoValue ELSE chains[Index(k, size)][Position(k)].value

\* The places of an array that hold an entry, <<index, position on the chain>>,
\* and the order in which a traversal meets them.
Places(table) == UNION {{i} \X DOMAIN table[i] : i \in DOMAIN table}
EntryAt(table, pl) == table[pl[1]][pl[2]]
Before(pl, q) == pl[1] < q[1] \/ (pl[1] = q[1] /\ pl[2] < q[2])

\* closest_prime
ClosestPrime(n) ==
  LET above == {p \in ToSet(Primes) : p > n}
  IN  IF above = {} THEN MaxSize ELSE CHOOSE p \in above : \A q \in above : p <= q

\* The test of resize(), on the size and count that the caller leaves.
NeedsResize(s, c) ==
  \/ s >= 3 * c /\ s > MinSize
  \/ 3 * s <= c /\ s < MaxSize

\* Mutant: entries keep the index they had.
RehashedInPlace(table, n) ==
  [i \in 0 .. n - 1 |-> IF i \in DOMAIN table THEN table[i] ELSE <<>>]

\* resize() meets the entries in the order of the array and of each chain, and
\* puts each in front of its new chain: the entry of place pl has before it on
\* the new chain those that come after it in the old array.
Rehashed(table, n) ==
  LET Moved(i) == {pl \in Places(table) : Index(EntryAt(table, pl).key, n) = i}
      Rank(i, pl) == Cardinality({q \in Moved(i) : ~ Before(q, pl)})
  IN  [i \in 0 .. n - 1 |->
         [p \in 1 .. Cardinality(Moved(i)) |->
            EntryAt(table, CHOOSE pl \in Moved(i) : Rank(i, pl) = p)]]

\* resize() on a table that has the given chains and count, when it finds the
\* memory it needs.
Resized(table, c) ==
  /\ count' = c
  /\ IF NeedsResize(size, c)
       THEN size' = ClosestPrime(c) /\ chains' = Rehashed(table, ClosestPrime(c))
       ELSE size' = size /\ chains' = table

Entries(table) == {EntryAt(table, pl) : pl \in Places(table)}

NoneDestroyed == [v \in Values |-> 0]

Discard(v) == destroyed' = [NoneDestroyed EXCEPT ![v] = 1]

\* How often a value is in a table.
Occurrences(table, v) ==
  Cardinality({pl \in Places(table) : EntryAt(table, pl).value = v})

-----------------------------------------------------------------------------
\* hashtable_create, and hashtable_set_value_destructor
HashTableInit ==
  /\ size = MinSize
  /\ count = 0
  /\ chains = NoChains(MinSize)
  /\ destroyed = NoneDestroyed
  /\ reply = "ok"
  /\ shortages = 0
  /\ overcount = 0

WithEntry(k, v) ==
  [chains EXCEPT ![Index(k, size)] = Append(@, [key |-> k, value |-> v])]

InsertNew(k, v) ==
  /\ Position(k) = 0
  /\ Resized(WithEntry(k, v), count + 1)
  /\ reply' = "ok"
  /\ destroyed' = NoneDestroyed
  /\ UNCHANGED <<shortages, overcount>>

InsertExisting(k, v) ==
  /\ Position(k) # 0
  /\ reply' = "exists"
  /\ destroyed' = NoneDestroyed
  /\ UNCHANGED <<size, count, chains, shortages, overcount>>

\* entry_new() fails.
InsertNoEntry(k, v) ==
  /\ Position(k) = 0 /\ shortages < Shortages
  /\ shortages' = shortages + 1
  /\ reply' = "no_memory"
  /\ destroyed' = NoneDestroyed
  /\ UNCHANGED <<size, count, chains, overcount>>

\* Mutant: the new entry stays, although the caller is told that it does not.
InsertStays(k, v) ==
  /\ Position(k) = 0 /\ shortages < Shortages
  /\ NeedsResize(size, count + 1)
  /\ shortages' = shortages + 1
  /\ count' = count + 1
  /\ overcount' = overcount + 1
  /\ chains' = WithEntry(k, v)
  /\ Discard(v)
  /\ reply' = "no_memory"
  /\ UNCHANGED size

\* resize() fails: the entry is destroyed again, with its value, but count
\* keeps it.
InsertNotResized(k, v) ==
  /\ Position(k) = 0 /\ shortages < Shortages
  /\ NeedsResize(size, count + 1)
  /\ shortages' = shortages + 1
  /\ count' = count + 1
  /\ overcount' = overcount + 1
  /\ Discard(v)
  /\ reply' = "no_memory"
  /\ UNCHANGED <<size, chains>>

hashtable_insert(k, v) ==
  \/ InsertNew(k, v)
  \/ InsertExisting(k, v)
  \/ InsertNoEntry(k, v)
  \/ InsertNotResized(k, v)

\* Mutant: unlinking an entry drops the rest of its chain.
WithoutRest(k) == [chains EXCEPT ![Index(k, size)] = SubSeq(@, 1, Position(k) - 1)]

WithoutEntry(k) == [chains EXCEPT ![Index(k, size)] = RemoveAt(@, Position(k))]

RemoveKey(k) ==
  /\ Position(k) # 0
  /\ Discard(ValueOf(k))
  /\ Resized(WithoutEntry(k), count - 1)
  /\ reply' = "ok"
  /\ UNCHANGED <<shortages, overcount>>

\* resize() fails, which is ignored.
RemoveNotResized(k) ==
  /\ Position(k) # 0 /\ shortages < Shortages
  /\ NeedsResize(size, count - 1)
  /\ shortages' = shortages + 1
  /\ Discard(ValueOf(k))
  /\ count' = count - 1
  /\ chains' = WithoutEntry(k)
  /\ reply' = "ok"
  /\ UNCHANGED <<size, overcount>>

RemoveAbsent(k) ==
  /\ Position(k) = 0
  /\ reply' = "no_entry"
  /\ destroyed' = NoneDestroyed
  /\ UNCHANGED <<size, count, chains, shortages, overcount>>

hashtable_remove(k) == RemoveKey(k) \/ RemoveNotResized(k) \/ RemoveAbsent(k)

hashtable_lookup(k) ==
  /\ reply' = IF Position(k) = 0 THEN "no_entry" ELSE ValueOf(k)
  /\ destroyed' = NoneDestroyed
  /\ UNCHANGED <<size, count, chains, shortages, overcount>>

\* hashtable_size; hashtable_iter visits each place of the array once.
hashtable_size == count
Visited == Places(chains)

\* hashtable_destroy, and a new table.
hashtable_destroy ==
  /\ size' = MinSize
  /\ count' = 0
  /\ chains' = NoChains(MinSize)
  /\ destroyed' = [v \in Values |-> Occurrences(chains, v)]
  /\ reply' = "ok"
  /\ overcount' = 0
  /\ UNCHANGED shortages

HashTableNext ==
  \/ \E k \in Keys : \/ hashtable_remove(k)
                    \/ hashtable_lookup(k)
                    \/ \E v \in Values : hashtable_insert(k, v)
  \/ hashtable_destroy

HashTableSpec == HashTableInit /\ [][HashTableNext]_hashTableVars

-----------------------------------------------------------------------------
(* Properties *)

\* Through every resizing, the array has a prime size, an entry is on the chain
\* where lookup() searches it and iterating visits each key once; count exceeds
\* the number of entries by the insertions that were undone, so that it is
\* positive when an entry is removed.
ChainsExact ==
  /\ size \in ToSet(Primes) /\ DOMAIN chains = 0 .. size - 1
  /\ \A i \in DOMAIN chains : \A p \in DOMAIN chains[i] :
       Index(chains[i][p].key, size) = i
  /\ \A pl, q \in Visited : EntryAt(chains, pl).key = EntryAt(chains, q).key => pl = q
  /\ hashtable_size = Cardinality(Visited) + overcount

\* A value is given to the destructor when it leaves the table, once; and when
\* its insertion is undone because the table could not grow, though not when
\* there was no memory for the entry.
DestroyedOnce ==
  [][IF overcount' > overcount
       THEN /\ \E v \in Values : destroyed' = [NoneDestroyed EXCEPT ![v] = 1]
            /\ Entries(chains') = Entries(chains)
       ELSE \A v \in Values :
              destroyed'[v] = Max({0, Occurrences(chains, v) - Occurrences(chains', v)})
    ]_hashTableVars

Lookups == INSTANCE KeyMap WITH map <- [k \in Keys |-> ValueOf(k)]

\* A table implements a map, whatever it does to its array, and whichever
\* allocation fails.
ImplementsKeyMap == Lookups!MapSpec
=============================================================================
