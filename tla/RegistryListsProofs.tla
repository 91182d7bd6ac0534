------------------------ MODULE RegistryListsProofs ------------------------
(***************************************************************************)
(* The lists of providers, for any libraries, bundles and caches: each     *)
(* port that should be found is on the list of its interface, once, and no *)
(* other is, as long as no name that was freed is compared; and the memory *)
(* of the registry is misused only after that, or after an allocation      *)
(* failed; and a query finds the ports that match.  Exact is the inductive *)
(* invariant: an interface has one list at most, which is freed with its   *)
(* last port and never used again, and whose name belongs to a port that   *)
(* is on it or was freed.                                                  *)
(***************************************************************************)
EXTENDS RegistryProofs, FunctionTheorems, FiniteSetTheorems

-----------------------------------------------------------------------------
(* Lists of ports *)

NoTwice(list) == \A j, k \in DOMAIN list : list[j] = list[k] => j = k

\* XC_CLIST_REMOVE leaves the places before the port, and moves up those after it.
LEMMA WithoutPlaces ==
  ASSUME NEW S, NEW list \in Seq(S), NEW p, p \in ToSet(list)
  PROVE  \E n \in 1 .. Len(list) :
           LET w == Without(list, p)
           IN  /\ list[n] = p /\ DOMAIN w = 1 .. Len(list) - 1
               /\ \A k \in 1 .. Len(list) - 1 : w[k] = IF k < n THEN list[k] ELSE list[k + 1]
<1> DEFINE n == CHOOSE m \in DOMAIN list : list[m] = p
           l == Len(list)
           a == SubSeq(list, 1, n - 1)
           b == SubSeq(list, n + 1, l)
           w == a \o b
<1>1. n \in 1 .. l /\ list[n] = p /\ l \in Nat /\ DOMAIN list = 1 .. l
  BY DEF ToSet
<1>2. Without(list, p) = w
  BY DEF Without, RemoveAt
<1> HIDE DEF n
<1>3. \A k \in 1 .. l : list[k] \in S
  BY ElementOfSeq
<1> HIDE DEF l
<1>4. /\ a \in Seq(S) /\ Len(a) = n - 1
      /\ \A k \in 1 .. n - 1 : a[k] = list[k]
  BY <1>1, <1>3, SubSeqProperties
<1>5. /\ b \in Seq(S) /\ Len(b) = l - n
      /\ \A k \in 1 .. l - n : b[k] = list[n + k]
  <2> DEFINE m == n + 1
  <2>1. m \in Int /\ l \in Int /\ m = n + 1 /\ n \in Int /\ n <= l /\ \A k \in m .. l : list[k] \in S
    BY <1>1, <1>3
  <2> HIDE DEF m
  <2>2. /\ SubSeq(list, m, l) \in Seq(S)
        /\ Len(SubSeq(list, m, l)) = IF m <= l THEN l - m + 1 ELSE 0
        /\ \A k \in 1 .. l - m + 1 : SubSeq(list, m, l)[k] = list[m + k - 1]
    BY <2>1, SubSeqProperties
  <2>3. b = SubSeq(list, m, l)
    BY DEF m
  <2> HIDE DEF b
  <2>4. (IF m <= l THEN l - m + 1 ELSE 0) = l - n /\ l - m + 1 = l - n
    BY <2>1
  <2>5. \A k \in 1 .. l - n : m + k - 1 = n + k
    BY <2>1
  <2> QED
    BY <2>2, <2>3, <2>4, <2>5
<1> HIDE DEF a, b
<1>6. /\ DOMAIN w = 1 .. l - 1
      /\ \A k \in 1 .. l - 1 : w[k] = IF k < n THEN list[k] ELSE list[k + 1]
  <2>1. /\ w \in Seq(S) /\ Len(w) = Len(a) + Len(b)
        /\ \A k \in 1 .. Len(a) + Len(b) :
             w[k] = IF k <= Len(a) THEN a[k] ELSE b[k - Len(a)]
    BY <1>4, <1>5, ConcatProperties
  <2>2. Len(a) + Len(b) = l - 1
    BY <1>1, <1>4, <1>5
  <2>3. DOMAIN w = 1 .. l - 1
    BY <2>1, <2>2
  <2>4. ASSUME NEW k \in 1 .. l - 1
        PROVE  w[k] = IF k < n THEN list[k] ELSE list[k + 1]
    <3>1. CASE k < n
      BY <1>1, <1>4, <2>1, <2>2, <3>1
    <3>2. CASE ~(k < n)
      <4>1. w[k] = b[k - (n - 1)]
        BY <1>1, <1>4, <2>1, <2>2, <3>2
      <4>2. k - (n - 1) \in 1 .. l - n
        BY <1>1, <3>2
      <4>3. b[k - (n - 1)] = list[n + (k - (n - 1))]
        BY <1>5, <4>2
      <4>4. n + (k - (n - 1)) = k + 1
        BY <1>1, <2>4
      <4> QED
        BY <3>2, <4>1, <4>3, <4>4
    <3> QED
      BY <3>1, <3>2
  <2> QED
    BY <2>3, <2>4
<1> HIDE DEF w
<1> QED
  BY <1>1, <1>2, <1>6 DEF l

\* It takes the port off the list and leaves the others on it.
LEMMA WithoutElements ==
  ASSUME NEW S, NEW list \in Seq(S), NEW p, NoTwice(list)
  PROVE  /\ NoTwice(Without(list, p))
         /\ ToSet(Without(list, p)) = ToSet(list) \ {p}
<1>1. CASE p \notin ToSet(list)
  BY <1>1 DEF Without
<1>2. CASE p \in ToSet(list)
  <2> DEFINE l == Len(list)
             w == Without(list, p)
  <2>1. PICK n \in 1 .. l :
          /\ list[n] = p /\ DOMAIN w = 1 .. l - 1
          /\ \A k \in 1 .. l - 1 : w[k] = IF k < n THEN list[k] ELSE list[k + 1]
    BY <1>2, WithoutPlaces
  <2>2. l \in Nat /\ DOMAIN list = 1 .. l
    OBVIOUS
  <2> HIDE DEF w, l
  <2> DEFINE f(k) == IF k < n THEN k ELSE k + 1
  <2>3. \A k \in 1 .. l - 1 : f(k) \in 1 .. l /\ f(k) # n /\ w[k] = list[f(k)]
    BY <2>1, <2>2
  <2>4. \A j, k \in 1 .. l - 1 : f(j) = f(k) => j = k
    BY <2>1, <2>2
  <2>5. \A m \in 1 .. l : m # n => \E k \in 1 .. l - 1 : f(k) = m
    <3> SUFFICES ASSUME NEW m \in 1 .. l, m # n PROVE \E k \in 1 .. l - 1 : f(k) = m
      OBVIOUS
    <3>1. CASE m < n
      <4>1. m \in 1 .. l - 1 /\ f(m) = m
        BY <2>1, <2>2, <3>1
      <4> QED
        BY <4>1
    <3>2. CASE m > n
      <4>1. m - 1 \in 1 .. l - 1 /\ f(m - 1) = m
        BY <2>1, <2>2, <3>2
      <4> QED
        BY <4>1
    <3> QED
      BY <2>1, <3>1, <3>2
  <2> HIDE DEF f
  <2>6. NoTwice(w)
    BY <2>1, <2>2, <2>3, <2>4 DEF NoTwice
  <2>7. ToSet(w) = ToSet(list) \ {p}
    <3>1. ASSUME NEW x \in ToSet(w) PROVE x \in ToSet(list) /\ x # p
      <4>1. PICK k \in 1 .. l - 1 : w[k] = x
        BY <2>1 DEF ToSet
      <4>2. f(k) \in 1 .. l /\ f(k) # n /\ x = list[f(k)]
        BY <2>3, <4>1
      <4> QED
        BY <2>1, <2>2, <4>2 DEF NoTwice, ToSet
    <3>2. ASSUME NEW x \in ToSet(list), x # p PROVE x \in ToSet(w)
      <4>1. PICK m \in 1 .. l : list[m] = x
        BY <2>2 DEF ToSet
      <4>2. m # n
        BY <2>1, <3>2, <4>1
      <4>3. PICK k \in 1 .. l - 1 : f(k) = m
        BY <2>5, <4>2
      <4>4. k \in DOMAIN w /\ w[k] = x
        BY <2>1, <2>3, <4>1, <4>3
      <4> QED
        BY <4>4 DEF ToSet
    <3> QED
      BY <3>1, <3>2
  <2> QED
    BY <2>6, <2>7 DEF w
<1> QED
  BY <1>1, <1>2

\* A list is as long as the number of its ports.
LEMMA ListLength ==
  ASSUME NEW S, NEW list \in Seq(S), NoTwice(list)
  PROVE  Cardinality(ToSet(list)) = Len(list)
<1>1. Len(list) \in Nat /\ DOMAIN list = 1 .. Len(list)
  OBVIOUS
<1>2. IsFiniteSet(1 .. Len(list)) /\ Cardinality(1 .. Len(list)) = Len(list)
  BY <1>1, FS_Interval
<1>3. list \in Bijection(1 .. Len(list), ToSet(list))
  <2>1. list \in [1 .. Len(list) -> ToSet(list)]
    BY <1>1 DEF ToSet
  <2>2. \A p \in ToSet(list) : \E k \in 1 .. Len(list) : list[k] = p
    BY <1>1 DEF ToSet
  <2>3. \A j, k \in 1 .. Len(list) : list[j] = list[k] => j = k
    BY <1>1 DEF NoTwice
  <2> QED
    BY <2>1, <2>2, <2>3, Fun_IsBij
<1>4. ExistsBijection(1 .. Len(list), ToSet(list))
  BY <1>3, Fun_ExistsBij
<1> QED
  BY <1>2, <1>4, FS_Bijection

LEMMA AppendElements ==
  ASSUME NEW S, NEW list \in Seq(S), NEW p, NoTwice(list), p \notin ToSet(list)
  PROVE  /\ NoTwice(Append(list, p)) /\ Append(list, p) # <<>>
         /\ ToSet(Append(list, p)) = ToSet(list) \cup {p}
<1> DEFINE new == Append(list, p)
<1>1. /\ Len(list) \in Nat /\ DOMAIN list = 1 .. Len(list)
      /\ DOMAIN new = 1 .. Len(list) + 1
      /\ \A k \in 1 .. Len(list) : new[k] = list[k]
      /\ new[Len(list) + 1] = p
  OBVIOUS
<1>2. \A k \in 1 .. Len(list) : list[k] # p
  BY <1>1 DEF ToSet
<1> HIDE DEF new
<1>3. NoTwice(new)
  BY <1>1, <1>2 DEF NoTwice
<1>4. ToSet(new) = ToSet(list) \cup {p}
  <2>1. \A x \in ToSet(new) : x \in ToSet(list) \cup {p}
    BY <1>1 DEF ToSet
  <2>2. \A x \in ToSet(list) \cup {p} : x \in ToSet(new)
    BY <1>1 DEF ToSet
  <2> QED
    BY <2>1, <2>2
<1>5. new # <<>>
  BY <1>1
<1> QED
  BY <1>3, <1>4, <1>5 DEF new

-----------------------------------------------------------------------------
(* The ports that should be found *)

\* The ports of component c that are offered for interface i.
Offers(c, i) ==
  {k \in DOMAIN c.ports : /\ k > c.freed
                          /\ c.ports[k].provided /\ c.ports[k].iface = i
                          /\ k \notin c.orphans \cup c.unlinked}

Offered(comps, i) ==
  {p \in Nat \X Nat : p[1] \in DOMAIN comps /\ p[2] \in Offers(comps[p[1]], i)}

LEMMA ProvidingOffered ==
  ASSUME NEW i, components \in Seq(Component)
  PROVE  Providing(i) = Offered(components, i)
<1>1. \A id \in DOMAIN components : Offers(components[id], i) \subseteq Nat /\ id \in Nat
  <2> SUFFICES ASSUME NEW id \in DOMAIN components
               PROVE  Offers(components[id], i) \subseteq Nat /\ id \in Nat
    OBVIOUS
  <2>1. components[id] \in Component /\ id \in Nat
    OBVIOUS
  <2>2. components[id].ports \in Seq(Port)
    BY <2>1, ComponentFields
  <2> QED
    BY <2>1, <2>2 DEF Offers
<1>2. Providing(i) = UNION {{id} \X Offers(components[id], i) : id \in DOMAIN components}
  BY DEF Providing, Offers
<1>3. \A p : p \in UNION {{id} \X Offers(components[id], i) : id \in DOMAIN components}
               <=> \E id \in DOMAIN components : p \in {id} \X Offers(components[id], i)
  OBVIOUS
<1>4. \A p : p \in Offered(components, i)
               <=> \E id \in DOMAIN components : p \in {id} \X Offers(components[id], i)
  <2> SUFFICES ASSUME NEW p
               PROVE  p \in Offered(components, i)
                        <=> \E id \in DOMAIN components : p \in {id} \X Offers(components[id], i)
    OBVIOUS
  <2>1. ASSUME p \in Offered(components, i)
        PROVE  \E id \in DOMAIN components : p \in {id} \X Offers(components[id], i)
    <3>1. /\ p \in Nat \X Nat /\ p[1] \in DOMAIN components
          /\ p[2] \in Offers(components[p[1]], i)
      BY <2>1 DEF Offered
    <3> QED
      BY <3>1
  <2>2. ASSUME NEW id \in DOMAIN components, p \in {id} \X Offers(components[id], i)
        PROVE  p \in Offered(components, i)
    <3>1. p[1] = id /\ p[2] \in Offers(components[id], i) /\ p \in Nat \X Nat
      BY <1>1, <2>2
    <3> QED
      BY <3>1 DEF Offered
  <2> QED
    BY <2>1, <2>2
<1> QED
  BY <1>2, <1>3, <1>4

\* A component that has no port offers none.
LEMMA OfferedAdded ==
  ASSUME NEW comps \in Seq(Component), NEW c, c.ports = <<>>, NEW i
  PROVE  Offered(Append(comps, c), i) = Offered(comps, i)
<1> DEFINE new == Append(comps, c)
<1>1. /\ Len(comps) \in Nat /\ DOMAIN comps = 1 .. Len(comps)
      /\ DOMAIN new = 1 .. Len(comps) + 1
      /\ \A id \in DOMAIN comps : new[id] = comps[id]
      /\ new[Len(comps) + 1] = c
  OBVIOUS
<1>2. Offers(c, i) = {}
  BY DEF Offers
<1> HIDE DEF new
<1>3. \A p \in Nat \X Nat : p \in Offered(new, i) <=> p \in Offered(comps, i)
  BY <1>1, <1>2 DEF Offered
<1>4. Offered(new, i) \subseteq Nat \X Nat /\ Offered(comps, i) \subseteq Nat \X Nat
  BY DEF Offered
<1>5. Offered(new, i) = Offered(comps, i)
  BY <1>3, <1>4
<1> QED
  BY <1>5 DEF new

\* One component changes.
LEMMA OfferedChanged ==
  ASSUME components \in Seq(Component), NEW id \in DOMAIN components,
         DOMAIN components' = DOMAIN components,
         \A x \in DOMAIN components : x # id => components'[x] = components[x],
         NEW i, NEW k \in Nat
  PROVE  /\ Offers(components'[id], i) = Offers(components[id], i)
              => Offered(components', i) = Offered(components, i)
         /\ Offers(components'[id], i) = Offers(components[id], i) \cup {k}
              => Offered(components', i) = Offered(components, i) \cup {<<id, k>>}
         /\ Offers(components'[id], i) = Offers(components[id], i) \ {k}
              => Offered(components', i) = Offered(components, i) \ {<<id, k>>}
<1> DEFINE C == Offers(components[id], i)
           D == Offers(components'[id], i)
           old == Offered(components, i)
           new == Offered(components', i)
<1>1. id \in Nat /\ <<id, k>> \in Nat \X Nat
  OBVIOUS
<1>2. new \subseteq Nat \X Nat /\ old \subseteq Nat \X Nat
  BY DEF Offered
<1>3. \A p \in Nat \X Nat : p = <<id, k>> <=> p[1] = id /\ p[2] = k
  OBVIOUS
<1>4. \A p \in Nat \X Nat :
        /\ p[1] # id => (p \in new <=> p \in old)
        /\ p[1] = id => (p \in new <=> p[2] \in D)
        /\ p[1] = id => (p \in old <=> p[2] \in C)
  BY DEF Offered
<1> HIDE DEF C, D, old, new
<1>5. ASSUME D = C PROVE new = old
  BY <1>2, <1>4, <1>5
<1>6. ASSUME D = C \cup {k} PROVE new = old \cup {<<id, k>>}
  <2>1. \A p \in Nat \X Nat : p \in new <=> p \in old \cup {<<id, k>>}
    BY <1>3, <1>4, <1>6
  <2> QED
    BY <1>1, <1>2, <2>1
<1>7. ASSUME D = C \ {k} PROVE new = old \ {<<id, k>>}
  <2>1. \A p \in Nat \X Nat : p \in new <=> p \in old \ {<<id, k>>}
    BY <1>3, <1>4, <1>7
  <2> QED
    BY <1>2, <2>1
<1> QED
  BY <1>5, <1>6, <1>7 DEF C, D, old, new

-----------------------------------------------------------------------------
(* The lists of an interface *)

FreedIn(comps, p) == comps[p[1]].freed >= p[2]

\* An interface has no list until a port needs one, and one from then on.
ListExact(entries, offered) ==
  /\ Len(entries) <= 1
  /\ entries = <<>> => offered = {}
  /\ entries # <<>> => /\ NoTwice(entries[1].ports)
                       /\ ToSet(entries[1].ports) = offered
                       /\ entries[1].live <=> entries[1].ports # <<>>

\* The port that created the list is on it, or freed.
KeyKept(entries, offered, comps) ==
  entries # <<>> => entries[1].key \in offered \/ FreedIn(comps, entries[1].key)

InterfaceExact(entries, comps, i) ==
  ListExact(entries, Offered(comps, i)) /\ KeyKept(entries, Offered(comps, i), comps)

Exact == Sound => \A i \in Interfaces : InterfaceExact(hash[i], components, i)

\* No freed name is compared.
Fresh(i) == hash[i] = <<>> \/ ~FreedIn(components, hash[i][1].key)

LEMMA FreshType ==
  ASSUME TypeInv, NEW i, Compared(i), ~stale'
  PROVE  ~stale /\ Fresh(i)
BY DEF Compared, Fresh, Freed, FreedIn, TypeInv, PlainOK

LEMMA HitsFresh ==
  ASSUME TypeInv, NEW i \in Interfaces, Len(hash[i]) <= 1, Fresh(i)
  PROVE  Hits(i) = IF hash[i] = <<>> THEN {0} ELSE {1}
<1> DEFINE sure == {e \in DOMAIN hash[i] : ~Freed(hash[i][e].key)}
<1>1. hash[i] \in Seq(Entry(components)) /\ DOMAIN hash[i] = 1 .. Len(hash[i]) /\ Len(hash[i]) \in Nat
  BY DEF TypeInv, HashOK
<1>2. Hits(i) = IF sure = {} THEN 0 .. Len(hash[i]) ELSE 1 .. Min(sure)
  BY DEF Hits
<1>3. CASE hash[i] = <<>>
  <2>1. Len(hash[i]) = 0 /\ sure = {}
    BY <1>3
  <2> HIDE DEF sure
  <2> QED
    BY <1>2, <1>3, <2>1
<1>4. CASE hash[i] # <<>>
  <2>1. DOMAIN hash[i] = {1}
    <3>1. Len(hash[i]) # 0
      BY <1>1, <1>4, EmptySeq
    <3> QED
      BY <1>1, <3>1
  <2>2. sure = {1}
    BY <1>4, <2>1 DEF Fresh, Freed, FreedIn
  <2>3. Min({1}) = 1
    BY DEF Min
  <2> HIDE DEF sure
  <2> QED
    BY <1>2, <1>4, <2>2, <2>3
<1> QED
  BY <1>3, <1>4

\* The lists are as they were, and so are the ports that should be on them.
LEMMA InterfaceKept ==
  ASSUME NEW entries, NEW comps, NEW new, NEW i, InterfaceExact(entries, comps, i),
         Offered(new, i) = Offered(comps, i),
         entries # <<>> => (FreedIn(comps, entries[1].key) => FreedIn(new, entries[1].key))
  PROVE  InterfaceExact(entries, new, i)
BY DEF InterfaceExact, KeyKept

\* As long as the name of a list is not freed, the list is used.
LEMMA LiveList ==
  ASSUME NEW entries, NEW comps, NEW i, InterfaceExact(entries, comps, i),
         entries # <<>>, ~FreedIn(comps, entries[1].key)
  PROVE  entries[1].live /\ entries[1].ports # <<>>
<1>1. ToSet(entries[1].ports) # {} /\ (entries[1].live <=> entries[1].ports # <<>>)
  BY DEF InterfaceExact, ListExact, KeyKept
<1>2. entries[1].ports # <<>>
  BY <1>1 DEF ToSet
<1> QED
  BY <1>1, <1>2

\* A port is registered.
LEMMA InterfaceGrows ==
  ASSUME NEW refs, NEW entries, entries = <<>> \/ entries[1].ports \in Seq(refs),
         Len(entries) \in Nat, DOMAIN entries = 1 .. Len(entries),
         entries # <<>> => entries[1] \in [key : refs, ports : Seq(refs), live : BOOLEAN],
         NEW comps, NEW i, InterfaceExact(entries, comps, i),
         entries # <<>> => ~FreedIn(comps, entries[1].key),
         NEW p, p \notin Offered(comps, i),
         NEW new, Offered(new, i) = Offered(comps, i) \cup {p},
         NEW e, e = IF entries = <<>> THEN 0 ELSE 1,
         NEW result,
         result = IF e = 0 THEN Append(entries, [key |-> p, ports |-> <<p>>, live |-> TRUE])
                           ELSE [entries EXCEPT ![e].ports = Append(@, p)]
  PROVE  InterfaceExact(result, new, i)
<1>1. CASE entries = <<>>
  <2> DEFINE x == [key |-> p, ports |-> <<p>>, live |-> TRUE]
  <2>1. result = <<x>> /\ Offered(new, i) = {p}
    BY <1>1 DEF InterfaceExact, ListExact
  <2>2. x.key = p /\ x.ports = <<p>> /\ x.live = TRUE
    OBVIOUS
  <2> HIDE DEF x
  <2>3. Len(result) = 1 /\ result[1] = x /\ result # <<>>
    BY <2>1
  <2>4. NoTwice(<<p>>) /\ ToSet(<<p>>) = {p} /\ <<p>> # <<>>
    BY DEF NoTwice, ToSet
  <2> QED
    BY <2>1, <2>2, <2>3, <2>4 DEF InterfaceExact, ListExact, KeyKept
<1>2. CASE entries # <<>>
  <2> DEFINE list == entries[1].ports
             x == [entries[1] EXCEPT !.ports = Append(list, p)]
  <2>1. /\ entries[1].live /\ Len(entries) = 1 /\ entries[1].key \in Offered(comps, i)
        /\ NoTwice(list) /\ ToSet(list) = Offered(comps, i) /\ list \in Seq(refs)
    <3>1. entries[1].live
      BY <1>2, LiveList
    <3>2. Len(entries) <= 1 /\ Len(entries) # 0
      BY <1>2 DEF InterfaceExact, ListExact
    <3> QED
      BY <1>2, <3>1, <3>2 DEF InterfaceExact, ListExact, KeyKept
  <2>2. x.key = entries[1].key /\ x.live = entries[1].live /\ x.ports = Append(list, p)
    BY <1>2
  <2>3. result = [entries EXCEPT ![1] = x]
    BY <1>2
  <2> HIDE DEF x, list
  <2>4. result[1] = x /\ result # <<>> /\ Len(result) = 1
    BY <1>2, <2>1, <2>3
  <2>5. /\ NoTwice(Append(list, p)) /\ Append(list, p) # <<>>
        /\ ToSet(Append(list, p)) = ToSet(list) \cup {p}
    BY <2>1, AppendElements
  <2> QED
    BY <2>1, <2>2, <2>4, <2>5 DEF InterfaceExact, ListExact, KeyKept
<1> QED
  BY <1>1, <1>2

\* A port leaves its list, which ends with its last port.
LEMMA InterfaceShrinks ==
  ASSUME NEW refs, NEW entries \in Seq([key : refs, ports : Seq(refs), live : BOOLEAN]),
         NEW comps, NEW i, InterfaceExact(entries, comps, i),
         entries # <<>>, ~FreedIn(comps, entries[1].key),
         NEW p, NEW new, Offered(new, i) = Offered(comps, i) \ {p}, FreedIn(new, p),
         NEW result, result = Cleared(entries, p, 1)
  PROVE  InterfaceExact(result, new, i)
<1> DEFINE list == entries[1].ports
           rest == Without(list, p)
           x == [entries[1] EXCEPT !.ports = rest, !.live = @ /\ (1 = 1 => rest # <<>>)]
<1>1. Len(entries) = 1 /\ DOMAIN entries = {1} /\ entries[1] \in [key : refs, ports : Seq(refs), live : BOOLEAN]
  <2> DEFINE S == [key : refs, ports : Seq(refs), live : BOOLEAN]
  <2>1. entries \in Seq(S) /\ Len(entries) <= 1
    BY DEF InterfaceExact, ListExact
  <2> HIDE DEF S
  <2>2. Len(entries) \in Nat /\ DOMAIN entries = 1 .. Len(entries) /\ Len(entries) # 0
    BY <2>1, EmptySeq
  <2>3. entries[1] \in S
    BY <2>1, <2>2, ElementOfSeq
  <2> QED
    BY <2>1, <2>2, <2>3 DEF S
<1>2. /\ entries[1].live /\ entries[1].key \in Offered(comps, i)
      /\ NoTwice(list) /\ ToSet(list) = Offered(comps, i) /\ list \in Seq(refs)
  <2>1. entries[1].live
    BY LiveList
  <2> QED
    BY <1>1, <2>1 DEF InterfaceExact, ListExact, KeyKept
<1>3. NoTwice(rest) /\ ToSet(rest) = Offered(new, i)
  BY <1>2, WithoutElements
<1>4. result = [y \in {1} |->
                  LET w == Without(entries[y].ports, p)
                  IN  [entries[y] EXCEPT !.ports = w, !.live = @ /\ (y = 1 => w # <<>>)]]
  BY <1>1 DEF Cleared
<1>5. result[1] = x /\ DOMAIN result = {1}
  BY <1>4
<1> HIDE DEF rest
<1>6. x.key = entries[1].key /\ x.ports = rest /\ (x.live <=> rest # <<>>)
  <2> DEFINE live == entries[1].live /\ (1 = 1 => rest # <<>>)
  <2>1. live <=> rest # <<>>
    BY <1>2
  <2> HIDE DEF live
  <2>2. x = [entries[1] EXCEPT !.ports = rest, !.live = live]
    BY <1>1 DEF live
  <2>3. x.key = entries[1].key /\ x.ports = rest /\ x.live = live
    BY <1>1, <2>2
  <2> QED
    BY <2>1, <2>3
<1> HIDE DEF x
<1>8. Len(result) <= 1 /\ result # <<>>
  <2>1. DOMAIN result = 1 .. 1
    BY <1>5
  <2>2. result = [y \in 1 .. 1 |-> x]
    BY <1>4, <1>5
  <2>3. [y \in 1 .. 1 |-> x] = <<x>>
    OBVIOUS
  <2>4. result = <<x>>
    BY <2>2, <2>3
  <2> DEFINE one == <<x>>
  <2>5. Len(one) = 1 /\ one # <<>> /\ result = one
    BY <2>4
  <2> HIDE DEF one
  <2>6. Len(result) = 1 /\ result # <<>>
    BY <2>5
  <2>7. Len(result) <= 1
    <3> DEFINE n == Len(result)
    <3>1. n = 1
      BY <2>6
    <3> HIDE DEF n
    <3>2. n <= 1
      BY <3>1
    <3> QED
      BY <3>2 DEF n
  <2> QED
    BY <2>6, <2>7, Zenon
<1>9. KeyKept(result, Offered(new, i), new)
  BY <1>2, <1>5, <1>6 DEF KeyKept
<1> QED
  BY <1>3, <1>5, <1>6, <1>8, <1>9 DEF InterfaceExact, ListExact

-----------------------------------------------------------------------------
(* Steps *)

LEMMA HashType ==
  ASSUME TypeInv, NEW i \in Interfaces
  PROVE  /\ hash \in [Interfaces -> Seq(Entry(components))] /\ hash[i] \in Seq(Entry(components))
         /\ Len(hash[i]) \in Nat /\ DOMAIN hash[i] = 1 .. Len(hash[i])
         /\ hash[i] # <<>> => hash[i][1] \in Entry(components) /\ hash[i][1].key \in Refs(components)
<1>1. hash \in [Interfaces -> Seq(Entry(components))]
  BY DEF TypeInv, HashOK
<1>2. hash[i] \in Seq(Entry(components))
  BY <1>1
<1>3. hash[i] # <<>> => hash[i][1] \in Entry(components)
  BY <1>2
<1>4. hash[i] # <<>> => hash[i][1].key \in Refs(components)
  BY <1>3 DEF Entry
<1> QED
  BY <1>1, <1>2, <1>3, <1>4

\* The hash remains, and so do the ports that should be found.
LEMMA SameExact ==
  ASSUME TypeInv, Exact, hash' = hash, Sound' => Sound,
         \A i \in Interfaces : Offered(components', i) = Offered(components, i),
         \A p \in Refs(components) : FreedIn(components, p) => FreedIn(components', p)
  PROVE  Exact'
<1> SUFFICES ASSUME Sound', NEW i \in Interfaces
             PROVE  InterfaceExact(hash[i], components', i)
  BY DEF Exact
<1>1. InterfaceExact(hash[i], components, i)
  BY DEF Exact
<1>2. hash[i] # <<>> =>
        (FreedIn(components, hash[i][1].key) => FreedIn(components', hash[i][1].key))
  BY HashType
<1> QED
  BY <1>1, <1>2, InterfaceKept

\* A component is created, without a port.
LEMMA CreatedExact ==
  ASSUME TypeInv, Exact, NEW c, c.ports = <<>>, NEW at, Created(c, at),
         UNCHANGED <<hash, fault, stale>>
  PROVE  Exact'
<1>1. components \in Seq(Component) /\ components' = Append(components, c)
  BY DEF TypeInv, ComponentsOK, Created
<1>2. \A i \in Interfaces : Offered(components', i) = Offered(components, i)
  BY <1>1, OfferedAdded
<1>3. \A id \in DOMAIN components : components'[id] = components[id]
  BY <1>1
<1>4. \A p \in Refs(components) : FreedIn(components, p) => FreedIn(components', p)
  BY <1>3 DEF Refs, FreedIn
<1>5. Sound' => Sound
  BY DEF Sound
<1> QED
  BY <1>2, <1>4, <1>5, SameExact

\* Fields of a component change that are not about its lists of ports.
LEMMA AlteredOffers ==
  ASSUME TypeInv, NEW id \in DOMAIN components, NEW from, NEW wired, NEW freed \in Nat, NEW gone,
         Altered(id, from, wired, freed, gone), NEW i
  PROVE  /\ freed = components[id].freed => Offered(components', i) = Offered(components, i)
         /\ freed = components[id].freed + 1
              => Offered(components', i) = Offered(components, i) \ {<<id, freed>>}
<1> DEFINE c == components[id]
           d == components'[id]
<1>1. /\ components \in Seq(Component) /\ DOMAIN components' = DOMAIN components
      /\ \A x \in DOMAIN components : x # id => components'[x] = components[x]
      /\ d = WithFields(c, from, wired, freed, gone)
  BY DEF TypeInv, ComponentsOK, Altered
<1>2. c \in Component /\ c.freed \in Nat /\ c.ports \in Seq(Port)
  BY <1>1, ComponentFields
<1>3. d.ports = c.ports /\ d.orphans = c.orphans /\ d.unlinked = c.unlinked /\ d.freed = freed
  BY <1>1, <1>2 DEF Component, WithFields
<1>4. /\ freed = c.freed => Offers(d, i) = Offers(c, i)
      /\ freed = c.freed + 1 => Offers(d, i) = Offers(c, i) \ {freed}
  <2> HIDE DEF c, d
  <2> QED
    BY <1>2, <1>3 DEF Offers
<1> QED
  BY <1>1, <1>4, OfferedChanged

LEMMA AlteredFreed ==
  ASSUME TypeInv, NEW id \in DOMAIN components, NEW from, NEW wired, NEW freed \in Nat, NEW gone,
         Altered(id, from, wired, freed, gone), components[id].freed <= freed
  PROVE  /\ \A p \in Refs(components) : FreedIn(components, p) => FreedIn(components', p)
         /\ \A k \in Nat : k <= freed => FreedIn(components', <<id, k>>)
<1>1. /\ components \in Seq(Component)
      /\ \A x \in DOMAIN components : x # id => components'[x] = components[x]
      /\ components'[id] = WithFields(components[id], from, wired, freed, gone)
  BY DEF TypeInv, ComponentsOK, Altered
<1>2. \A x \in DOMAIN components : components[x].freed \in Nat /\ components[x] \in Component
  BY <1>1, ComponentFields
<1>3. components'[id].freed = freed
  BY <1>1, <1>2 DEF Component, WithFields
<1>4. \A x \in DOMAIN components : components[x].freed <= components'[x].freed /\ components'[x].freed \in Nat
  BY <1>1, <1>2, <1>3
<1>5. ASSUME NEW p \in Refs(components), FreedIn(components, p) PROVE FreedIn(components', p)
  <2>1. p[1] \in DOMAIN components /\ p[2] \in Nat
    BY DEF Refs
  <2> QED
    BY <1>2, <1>4, <1>5, <2>1 DEF FreedIn
<1>6. ASSUME NEW k \in Nat, k <= freed PROVE FreedIn(components', <<id, k>>)
  BY <1>3, <1>6 DEF FreedIn
<1> QED
  BY <1>5, <1>6

\* Fields change that say nothing of the ports.
LEMMA AlteredExact ==
  ASSUME TypeInv, Exact, NEW id \in DOMAIN components, NEW from, NEW wired, NEW gone,
         Altered(id, from, wired, components[id].freed, gone),
         hash' = hash, Sound' => Sound
  PROVE  Exact'
<1> DEFINE freed == components[id].freed
<1>1. freed \in Nat /\ components[id].freed <= freed /\ freed = components[id].freed
  BY ComponentType
<1> HIDE DEF freed
<1>2. Altered(id, from, wired, freed, gone)
  BY <1>1
<1>4. \A i \in Interfaces : Offered(components', i) = Offered(components, i)
  BY <1>1, <1>2, AlteredOffers
<1>3. \A p \in Refs(components) : FreedIn(components, p) => FreedIn(components', p)
  BY <1>1, <1>2, AlteredFreed
<1> QED
  BY <1>3, <1>4, SameExact

\* Where the next port of the component that is read goes.
NextPlace == Len(components[act.id].ports) + 1

\* A port is added, and is on its list unless it is an orphan or not linked.
LEMMA FilledOffers ==
  ASSUME TypeInv, act.at \in {"parse", "declare"}, NEW port \in Port, NEW orphans, NEW unlinked,
         Marked(orphans, unlinked), Filled(port, orphans, unlinked), NEW i
  PROVE  /\ port.provided /\ port.iface = i /\ NextPlace \notin orphans \cup unlinked
              => /\ Offered(components', i) = Offered(components, i) \cup {<<act.id, NextPlace>>}
                 /\ <<act.id, NextPlace>> \notin Offered(components, i)
         /\ ~port.provided \/ port.iface # i \/ NextPlace \in orphans \cup unlinked
              => Offered(components', i) = Offered(components, i)
<1> DEFINE id == act.id
           c == components[id]
           d == components'[id]
           k == NextPlace
<1>1. /\ id \in DOMAIN components /\ components \in Seq(Component)
      /\ DOMAIN components' = DOMAIN components
      /\ \A x \in DOMAIN components : x # id => components'[x] = components[x]
      /\ d = WithPort(c, port, orphans, unlinked)
  BY FillingComponent DEF Filled
<1>2. /\ c \in Component /\ c.ports \in Seq(Port) /\ Len(c.ports) \in Nat
      /\ DOMAIN c.ports = 1 .. Len(c.ports) /\ c.freed \in 0 .. Len(c.ports)
      /\ c.orphans \subseteq DOMAIN c.ports /\ c.unlinked \subseteq DOMAIN c.ports
  BY <1>1, ComponentType DEF ComponentOK
<1>3. /\ d.ports = Append(c.ports, port) /\ d.orphans = orphans /\ d.unlinked = unlinked
      /\ d.freed = c.freed
  BY <1>1, <1>2 DEF Component, WithPort
<1>4. orphans \in {c.orphans, c.orphans \cup {k}} /\ unlinked \in {c.unlinked, c.unlinked \cup {k}}
  BY DEF Marked, NextPlace
<1>5. k = Len(c.ports) + 1
  BY DEF NextPlace
<1> HIDE DEF c, d, k
<1>6. /\ DOMAIN d.ports = 1 .. k /\ d.ports[k] = port
      /\ \A x \in DOMAIN c.ports : d.ports[x] = c.ports[x]
  BY <1>2, <1>3, <1>5, AppendProperties
<1>7. /\ k > c.freed /\ k \notin DOMAIN c.ports /\ k \in Nat
      /\ DOMAIN d.ports = DOMAIN c.ports \cup {k}
  BY <1>2, <1>5, <1>6
<1>8. \A x \in DOMAIN c.ports : x \in Offers(d, i) <=> x \in Offers(c, i)
  BY <1>3, <1>4, <1>6, <1>7 DEF Offers
<1>9. k \in Offers(d, i) <=> port.provided /\ port.iface = i /\ k \notin orphans \cup unlinked
  BY <1>3, <1>6, <1>7 DEF Offers
<1>10. Offers(d, i) \subseteq DOMAIN d.ports /\ Offers(c, i) \subseteq DOMAIN c.ports
  BY DEF Offers
<1>11. CASE port.provided /\ port.iface = i /\ k \notin orphans \cup unlinked
  <2>1. Offers(d, i) = Offers(c, i) \cup {k} /\ k \notin Offers(c, i)
    BY <1>7, <1>8, <1>9, <1>10, <1>11
  <2>2. Offered(components', i) = Offered(components, i) \cup {<<id, k>>}
    BY <1>1, <1>7, <2>1, OfferedChanged DEF c, d
  <2>3. <<id, k>> \notin Offered(components, i)
    BY <2>1 DEF Offered, c
  <2> QED
    BY <1>11, <2>2, <2>3 DEF k
<1>12. CASE ~(port.provided /\ port.iface = i /\ k \notin orphans \cup unlinked)
  <2>1. Offers(d, i) = Offers(c, i)
    BY <1>7, <1>8, <1>9, <1>10, <1>12
  <2>2. Offered(components', i) = Offered(components, i)
    BY <1>1, <1>7, <2>1, OfferedChanged DEF c, d
  <2> QED
    BY <1>12, <2>2 DEF k
<1> QED
  BY <1>11, <1>12 DEF k

LEMMA FilledFreed ==
  ASSUME TypeInv, act.at \in {"parse", "declare"}, NEW port, NEW orphans, NEW unlinked,
         Filled(port, orphans, unlinked)
  PROVE  \A p \in Refs(components) : FreedIn(components, p) => FreedIn(components', p)
<1>1. /\ act.id \in DOMAIN components /\ components \in Seq(Component)
      /\ components[act.id] \in Component
      /\ \A x \in DOMAIN components : x # act.id => components'[x] = components[x]
      /\ components'[act.id] = WithPort(components[act.id], port, orphans, unlinked)
  BY FillingComponent DEF Filled
<1>2. components'[act.id].freed = components[act.id].freed
  BY <1>1 DEF Component, WithPort
<1> QED
  BY <1>1, <1>2 DEF Refs, FreedIn

\* A port is registered, or it is not for others.
LEMMA RegisterExact ==
  ASSUME TypeInv, Exact, fault = "none", act.at \in {"parse", "declare"}, NEW port \in Port,
         Filled(port, components[act.id].orphans, components[act.id].unlinked),
         Register(port, <<act.id, NextPlace>>)
  PROVE  Exact'
<1> DEFINE c == components[act.id]
           k == NextPlace
           p == <<act.id, k>>
           i == port.iface
<1>1. /\ Marked(c.orphans, c.unlinked) 
      /\ k \notin c.orphans \cup c.unlinked
  <2>1. ComponentOK(c, version) /\ DOMAIN c.ports = 1 .. Len(c.ports) /\ Len(c.ports) \in Nat
    BY FillingComponent, ComponentType
  <2>2. Marked(c.orphans, c.unlinked)
    BY DEF Marked
  <2>3. k \notin DOMAIN c.ports
    BY <2>1 DEF NextPlace
  <2>4. c.orphans \subseteq DOMAIN c.ports /\ c.unlinked \subseteq DOMAIN c.ports
    BY <2>1 DEF ComponentOK
  <2> HIDE DEF k
  <2>5. k \notin c.orphans \cup c.unlinked
    BY <2>3, <2>4
  <2> QED
    BY <2>2, <2>5 DEF k
<1>2. Filled(port, c.orphans, c.unlinked)
  OBVIOUS
<1> HIDE DEF k
<1>3. \A p1 \in Refs(components) : FreedIn(components, p1) => FreedIn(components', p1)
  BY <1>2, FilledFreed
<1>4. \A j \in Interfaces : ~port.provided \/ port.iface # j =>
        Offered(components', j) = Offered(components, j)
  BY <1>1, <1>2, FilledOffers
<1>5. CASE ~port.provided
  <2>1. UNCHANGED <<hash, fault, stale>>
    BY <1>5 DEF Register
  <2>2. \A j \in Interfaces : Offered(components', j) = Offered(components, j)
    BY <1>4, <1>5
  <2> QED
    BY <1>3, <2>1, <2>2, SameExact DEF Sound
<1>6. CASE port.provided
  <2> SUFFICES ASSUME Sound', NEW j \in Interfaces
               PROVE  InterfaceExact(hash'[j], components', j)
    BY DEF Exact
  <2>1. i \in Interfaces
    BY DEF Port
  <2>2. PICK e \in Hits(i) :
          hash' = [hash EXCEPT ![i] =
                     IF e = 0 THEN Append(@, [key |-> p, ports |-> <<p>>, live |-> TRUE])
                              ELSE [hash[i] EXCEPT ![e].ports = Append(@, p)]]
    BY <1>6 DEF Register, provided_ports_register, k
  <2>3. ~stale /\ Fresh(i)
    <3>1. Compared(i) /\ ~stale'
      BY <1>6 DEF Register, provided_ports_register, Sound
    <3> QED
      BY <3>1, FreshType
  <2>4. \A x \in Interfaces : InterfaceExact(hash[x], components, x)
    BY <2>3 DEF Exact, Sound
  <2>5. CASE j # i
    <3>1. hash'[j] = hash[j]
      BY <2>2, <2>5, HashType
    <3>2. Offered(components', j) = Offered(components, j)
      BY <1>4, <2>5
    <3>3. hash[j] # <<>> =>
            (FreedIn(components, hash[j][1].key) => FreedIn(components', hash[j][1].key))
      BY <1>3, HashType
    <3> QED
      BY <2>4, <3>1, <3>2, <3>3, InterfaceKept
  <2>6. CASE j = i
    <3> DEFINE entries == hash[i]
               refs == Refs(components)
               result == hash'[i]
               v == IF entries = <<>> THEN 0 ELSE 1
    <3>1. /\ entries \in Seq(Entry(components)) /\ Len(entries) \in Nat
          /\ DOMAIN entries = 1 .. Len(entries)
          /\ entries # <<>> => entries[1] \in [key : refs, ports : Seq(refs), live : BOOLEAN]
      BY <2>1, HashType DEF Entry
    <3>2. InterfaceExact(entries, components, i)
      BY <2>1, <2>4
    <3>3. e = v
      <4>1. Len(entries) <= 1
        BY <3>2 DEF InterfaceExact, ListExact
      <4>2. Hits(i) = IF hash[i] = <<>> THEN {0} ELSE {1}
        BY <2>1, <2>3, <4>1, HitsFresh
      <4> QED
        BY <4>2
    <3>4. /\ Offered(components', i) = Offered(components, i) \cup {p}
          /\ p \notin Offered(components, i)
      BY <1>1, <1>2, <1>6, FilledOffers DEF k
    <3>5. result = IF e = 0 THEN Append(entries, [key |-> p, ports |-> <<p>>, live |-> TRUE])
                            ELSE [entries EXCEPT ![e].ports = Append(@, p)]
      BY <2>1, <2>2, HashType
    <3>6. entries # <<>> => ~FreedIn(components, entries[1].key)
      BY <2>3 DEF Fresh
    <3>7. entries = <<>> \/ entries[1].ports \in Seq(refs)
      BY <3>1
    <3> HIDE DEF p, i, entries, refs, result
    <3>8. InterfaceExact(result, components', i)
      BY <3>1, <3>2, <3>3, <3>4, <3>5, <3>6, <3>7, InterfaceGrows
    <3> QED
      BY <2>6, <3>8 DEF result
  <2> QED
    BY <2>5, <2>6
<1> QED
  BY <1>5, <1>6

\* An orphan, or a port that is not linked, is on no list of the hash.
LEMMA MarkedExact ==
  ASSUME TypeInv, Exact, act.at \in {"parse", "declare"}, NEW port \in Port,
         NEW orphans, NEW unlinked, Marked(orphans, unlinked), Filled(port, orphans, unlinked),
         NextPlace \in orphans \cup unlinked,
         hash' = hash, Sound' => Sound
  PROVE  Exact'
<1>1. \A i \in Interfaces : Offered(components', i) = Offered(components, i)
  BY FilledOffers
<1>2. \A p \in Refs(components) : FreedIn(components, p) => FreedIn(components', p)
  BY FilledFreed
<1> QED
  BY <1>1, <1>2, SameExact

\* A port is freed: it leaves the list of its interface.
LEMMA port_freeExact ==
  ASSUME TypeInv, Exact, fault = "none", port_free
  PROVE  Exact'
<1> DEFINE c == components[act.id]
           k == c.freed + 1
           p == <<act.id, k>>
           i == c.ports[k].iface
<1>1. act.id \in DOMAIN components /\ act.at = "free" /\ k <= Len(c.ports)
  BY DEF port_free, TypeInv, ActOK
<1>2. /\ c \in Component /\ c.freed \in Nat /\ Len(c.ports) \in Nat /\ c.ports \in Seq(Port)
      /\ k \in Nat /\ k \in 1 .. Len(c.ports) /\ c.freed <= k /\ k = components[act.id].freed + 1
  BY <1>1, ComponentType
<1>3. Altered(act.id, c.from, c.wired, k, c.gone)
  BY <1>2, FieldForms DEF port_free, Altered
<1>4. i \in Interfaces
  <2>1. c.ports[k] \in Port
    BY <1>2, ElementOfSeq
  <2> QED
    BY <2>1 DEF Port
<1> HIDE DEF k
<1>5. \A j \in Interfaces : Offered(components', j) = Offered(components, j) \ {p}
  BY <1>1, <1>2, <1>3, AlteredOffers
<1>6. /\ \A q \in Refs(components) : FreedIn(components, q) => FreedIn(components', q)
      /\ FreedIn(components', p)
  <2>1. /\ \A q \in Refs(components) : FreedIn(components, q) => FreedIn(components', q)
        /\ \A x \in Nat : x <= k => FreedIn(components', <<act.id, x>>)
    BY <1>1, <1>2, <1>3, AlteredFreed
  <2> QED
    BY <1>2, <2>1
<1>7. \A j \in Interfaces : ~c.ports[k].provided \/ i # j =>
        Offered(components', j) = Offered(components, j)
  <2>1. \A j \in Interfaces : p \in Offered(components, j) => c.ports[k].provided /\ i = j
    BY DEF Offered, Offers
  <2> QED
    BY <1>5, <2>1
<1>8. CASE ~c.ports[k].provided
  <2>1. UNCHANGED <<hash, fault, stale>>
    BY <1>8 DEF port_free, k
  <2>2. \A j \in Interfaces : Offered(components', j) = Offered(components, j)
    BY <1>7, <1>8
  <2> QED
    BY <1>6, <2>1, <2>2, SameExact DEF Sound
<1>9. CASE c.ports[k].provided
  <2> SUFFICES ASSUME Sound', NEW j \in Interfaces
               PROVE  InterfaceExact(hash'[j], components', j)
    BY DEF Exact
  <2>1. PICK e \in Hits(i) :
          hash' = IF e = 0 THEN hash ELSE [hash EXCEPT ![i] = Cleared(@, p, e)]
    BY <1>9 DEF port_free, k
  <2>2. ~stale /\ Fresh(i)
    <3>1. Compared(i) /\ ~stale'
      BY <1>9 DEF port_free, k, Sound
    <3> QED
      BY <3>1, FreshType
  <2>3. \A x \in Interfaces : InterfaceExact(hash[x], components, x)
    BY <2>2 DEF Exact, Sound
  <2>4. \A x \in Interfaces : hash[x] # <<>> =>
          (FreedIn(components, hash[x][1].key) => FreedIn(components', hash[x][1].key))
    BY <1>6, HashType
  <2>5. CASE j # i
    <3>1. hash'[j] = hash[j]
      BY <2>1, <2>5, HashType
    <3>2. Offered(components', j) = Offered(components, j)
      BY <1>7, <2>5
    <3> QED
      BY <2>3, <2>4, <3>1, <3>2, InterfaceKept
  <2>6. CASE j = i
    <3>1. e = IF hash[i] = <<>> THEN 0 ELSE 1
      <4>1. Len(hash[i]) <= 1
        BY <1>4, <2>3 DEF InterfaceExact, ListExact
      <4>2. Hits(i) = IF hash[i] = <<>> THEN {0} ELSE {1}
        BY <1>4, <2>2, <4>1, HitsFresh
      <4> QED
        BY <4>2
    <3>2. CASE hash[i] = <<>>
      <4>1. Offered(components, i) = {}
        BY <1>4, <2>3, <3>2 DEF InterfaceExact, ListExact
      <4>2. Offered(components', i) = Offered(components, i)
        BY <1>4, <1>5, <4>1
      <4>3. hash' = hash
        BY <2>1, <3>1, <3>2
      <4> QED
        BY <1>4, <2>3, <2>4, <2>6, <4>2, <4>3, InterfaceKept
    <3>3. CASE hash[i] # <<>>
      <4> DEFINE entries == hash[i]
                 refs == Refs(components)
                 result == hash'[i]
      <4>1. entries \in Seq([key : refs, ports : Seq(refs), live : BOOLEAN])
        BY <1>4, HashType DEF Entry
      <4>2. /\ InterfaceExact(entries, components, i) /\ entries # <<>>
            /\ ~FreedIn(components, entries[1].key)
        BY <1>4, <2>2, <2>3, <3>3 DEF Fresh
      <4>3. Offered(components', i) = Offered(components, i) \ {p} /\ FreedIn(components', p)
        BY <1>4, <1>5, <1>6
      <4>4. result = Cleared(entries, p, 1)
        BY <1>4, <2>1, <3>1, <3>3, HashType
      <4> HIDE DEF p, i, entries, refs, result
      <4>5. InterfaceExact(result, components', i)
        BY <4>1, <4>2, <4>3, <4>4, InterfaceShrinks
      <4> QED
        BY <2>6, <4>5 DEF result
    <3> QED
      BY <3>2, <3>3
  <2> QED
    BY <2>5, <2>6
<1> QED
  BY <1>8, <1>9

\* What is emptied is exact.
LEMMA EmptyExact ==
  ASSUME components' = <<>>, hash' = NoHash
  PROVE  Exact'
<1>1. \A i \in Interfaces : hash'[i] = <<>>
  BY DEF NoHash
<1>2. \A i \in Interfaces : Offered(components', i) = {}
  BY DEF Offered
<1>3. Len(<<>>) = 0
  OBVIOUS
<1> QED
  BY <1>1, <1>2, <1>3 DEF Exact, InterfaceExact, ListExact, KeyKept

\* Nothing happens to the components and the hash.
LEMMA StillExact ==
  ASSUME Exact, UNCHANGED <<components, hash>>, Sound' => Sound
  PROVE  Exact'
BY DEF Exact

LEMMA AddingExact ==
  ASSUME TypeInv, Exact, fault = "none",
         ParsePort \/ ParseUnlinked \/ DeclarePort \/ DeclareOrphan
  PROVE  Exact'
<1> DEFINE c == components[act.id]
           parsed == cache[act.lib].ports[act.k + 1]
           declared == Declared[c.lib][c.from][Len(c.ports) + 1]
<1>1. CASE ParsePort
  <2>1. /\ parsed \in Port /\ Filled(parsed, c.orphans, c.unlinked)
        /\ Register(parsed, <<act.id, NextPlace>>) /\ act.at \in {"parse", "declare"}
    BY <1>1, ParsedPort, ParsePortFills DEF ParsePort, NextPlace
  <2> HIDE DEF parsed
  <2> QED
    BY <2>1, RegisterExact
<1>2. CASE DeclarePort
  <2>1. /\ declared \in Port /\ Filled(declared, c.orphans, c.unlinked)
        /\ Register(declared, <<act.id, NextPlace>>) /\ act.at \in {"parse", "declare"}
    BY <1>2, DeclaredPort, DeclarePortFills DEF DeclarePort, NextPlace
  <2> HIDE DEF declared
  <2> QED
    BY <2>1, RegisterExact
<1>3. CASE ParseUnlinked
  <2> DEFINE k == Len(c.ports) + 1
  <2>1. \/ Filled(parsed, c.orphans, c.unlinked \cup {k})
        \/ Filled(parsed, c.orphans \cup {k}, c.unlinked)
    BY <1>3, ParseUnlinkedFills
  <2>2. /\ parsed \in Port /\ NextPlace = k
        /\ Marked(c.orphans, c.unlinked \cup {k}) /\ Marked(c.orphans \cup {k}, c.unlinked)
        /\ act.at \in {"parse", "declare"} /\ hash' = hash
    BY <1>3, ParsedPort DEF ParseUnlinked, NextPlace, Marked
  <2>3. Sound' => Sound
    BY <1>3 DEF ParseUnlinked, Compared, Sound
  <2> HIDE DEF parsed, k, c
  <2>4. PICK orphans, unlinked : /\ Filled(parsed, orphans, unlinked)
                                 /\ Marked(orphans, unlinked)
                                 /\ NextPlace \in orphans \cup unlinked
    BY <2>1, <2>2
  <2> QED
    BY <2>2, <2>3, <2>4, MarkedExact
<1>4. CASE DeclareOrphan
  <2> DEFINE orphans == c.orphans \cup {Len(c.ports) + 1}
  <2>1. /\ declared \in Port /\ Filled(declared, orphans, c.unlinked)
        /\ Marked(orphans, c.unlinked) /\ NextPlace \in orphans \cup c.unlinked
        /\ act.at \in {"parse", "declare"} /\ hash' = hash
    BY <1>4, DeclaredPort, DeclareOrphanFills DEF DeclareOrphan, NextPlace, Marked
  <2>2. Sound' => Sound
    BY <1>4 DEF DeclareOrphan, Compared, Sound
  <2> HIDE DEF declared, orphans
  <2> QED
    BY <2>1, <2>2, MarkedExact
<1> QED
  BY <1>1, <1>2, <1>3, <1>4

\* A component is created without ports.
LEMMA CreatingStep ==
  ASSUME CacheRead \/ Introspect \/ IntrospectNoPorts
  PROVE  \E c, at : Created(c, at) /\ c.ports = <<>> /\ c.unlinked = {}
<1>1. CASE CacheRead
  <2> DEFINE c == [NewComponent(act.lib) EXCEPT !.slots = cache[act.lib].slots,
                                                !.from = cache[act.lib].from]
  <2>1. Created(c, "parse") /\ c.ports = <<>> /\ c.unlinked = {}
    BY <1>1 DEF CacheRead, NewComponent
  <2> HIDE DEF c
  <2> QED
    BY <2>1
<1>2. CASE Introspect
  <2> DEFINE v == Opened(act.lib)
             c == [NewComponent(act.lib) EXCEPT !.from = v, !.slots = Len(Declared[act.lib][v])]
             at == IF Declared[act.lib][v] = <<>> THEN "write" ELSE "declare"
  <2>1. Created(c, at)
    BY <1>2 DEF Introspect
  <2>2. c.ports = <<>> /\ c.unlinked = {}
    BY DEF NewComponent
  <2> HIDE DEF c, at
  <2> QED
    BY <2>1, <2>2
<1>3. CASE IntrospectNoPorts
  <2> DEFINE c == NewComponent(act.lib)
  <2>1. Created(c, "write") /\ c.ports = <<>> /\ c.unlinked = {}
    BY <1>3 DEF IntrospectNoPorts, NewComponent
  <2> HIDE DEF c
  <2> QED
    BY <2>1
<1> QED
  BY <1>1, <1>2, <1>3

LEMMA CreatingExact ==
  ASSUME TypeInv, Exact, CacheRead \/ Introspect \/ IntrospectNoPorts
  PROVE  Exact'
<1>1. PICK c, at : Created(c, at) /\ c.ports = <<>>
  BY CreatingStep
<1>2. UNCHANGED <<hash, fault, stale>>
  BY DEF CacheRead, Introspect, IntrospectNoPorts
<1> QED
  BY <1>1, <1>2, CreatedExact

\* No component gets a port, or loses one.
LEMMA ChangingStep ==
  ASSUME TypeInv,
         \/ ParseSkipped \/ FreeEnds \/ Destroyed
         \/ \E id \in DOMAIN components : component_load(id) \/ component_unload(id)
  PROVE  \E id \in DOMAIN components : \E from, wired, gone :
           Altered(id, from, wired, components[id].freed, gone)
<1> DEFINE c == components[act.id]
<1>1. CASE ParseSkipped
  <2>1. act.id \in DOMAIN components /\ c \in Component
    BY <1>1, FillingComponent DEF ParseSkipped
  <2>2. Altered(act.id, 0, c.wired, c.freed, c.gone)
    BY <1>1, <2>1, FieldForms DEF ParseSkipped, Altered
  <2> QED
    BY <2>1, <2>2
<1>2. CASE FreeEnds
  <2>1. act.id \in DOMAIN components /\ c \in Component
    BY <1>2, ComponentType DEF FreeEnds, TypeInv, ActOK
  <2>2. Altered(act.id, c.from, c.wired, c.freed, TRUE)
    BY <1>2, <2>1, FieldForms DEF FreeEnds, Altered
  <2> QED
    BY <2>1, <2>2
<1>3. CASE Destroyed
  <2>1. act.id \in DOMAIN components /\ c \in Component
    BY <1>3, ComponentType DEF Destroyed, TypeInv, ActOK, port_disable
  <2>2. Altered(act.id, c.from, 0, c.freed, c.gone)
    BY <1>3, <2>1, FieldForms DEF Destroyed, Altered, port_disable
  <2> QED
    BY <2>1, <2>2
<1>4. ASSUME NEW id \in DOMAIN components, component_load(id)
      PROVE  \E from, wired, gone : Altered(id, from, wired, components[id].freed, gone)
  <2> DEFINE d == components[id]
  <2>1. d \in Component
    BY ComponentType
  <2>2. Altered(id, d.from, Opened(d.lib), d.freed, d.gone)
    BY <1>4, <2>1, FieldForms DEF component_load, Altered, port_enable
  <2> QED
    BY <2>2
<1>5. ASSUME NEW id \in DOMAIN components, component_unload(id)
      PROVE  \E from, wired, gone : Altered(id, from, wired, components[id].freed, gone)
  <2> DEFINE d == components[id]
  <2>1. d \in Component
    BY ComponentType
  <2>2. Altered(id, d.from, 0, d.freed, d.gone)
    BY <1>5, <2>1, FieldForms DEF component_unload, Altered, port_disable
  <2> QED
    BY <2>2
<1> QED
  BY <1>1, <1>2, <1>3, <1>4, <1>5

LEMMA ChangingExact ==
  ASSUME TypeInv, Exact, fault = "none",
         \/ ParseSkipped \/ FreeEnds \/ Destroyed
         \/ \E id \in DOMAIN components : component_load(id) \/ component_unload(id)
  PROVE  Exact'
<1>1. PICK id \in DOMAIN components :
        \E from, wired, gone : Altered(id, from, wired, components[id].freed, gone)
  BY ChangingStep
<1>2. hash' = hash /\ stale' = stale
  BY Zenon DEF ParseSkipped, FreeEnds, Destroyed, component_load, component_unload, port_enable, port_disable
<1>3. Sound' => Sound
  BY <1>2 DEF Sound
<1>4. PICK from, wired, gone : Altered(id, from, wired, components[id].freed, gone)
  BY <1>1
<1> QED
  BY <1>2, <1>3, <1>4, AlteredExact

LEMMA NextExact == TypeInv /\ Exact /\ [RegistryNext]_vars => Exact'
<1> SUFFICES ASSUME TypeInv, Exact, [RegistryNext]_vars PROVE Exact'
  OBVIOUS
<1>1. CASE Continue
  <2>1. fault = "none"
    BY <1>1 DEF Continue
  <2>2. ASSUME \/ \E l \in Libraries : NextFile(l)
               \/ LoadEnds \/ CacheUnread \/ ParseEnds \/ ParseFails \/ IntrospectFails
               \/ cache_create \/ CloseComponent \/ CloseBundle
        PROVE  Exact'
    <3>1. UNCHANGED <<components, hash, fault, stale>>
      BY <2>2, Zenon DEF NextFile, LoadEnds, CacheUnread, ParseEnds, ParseFails, IntrospectFails,
         cache_create, CloseComponent, CloseBundle
    <3> QED
      BY <3>1, StillExact DEF Sound
  <2>3. CASE ParsePort \/ ParseUnlinked \/ DeclarePort \/ DeclareOrphan
    BY <2>1, <2>3, AddingExact
  <2>4. CASE CacheRead \/ Introspect \/ IntrospectNoPorts
    BY <2>4, CreatingExact
  <2>5. CASE ParseSkipped \/ FreeEnds \/ Destroyed
    BY <2>1, <2>5, ChangingExact
  <2>6. CASE port_free
    BY <2>1, <2>6, port_freeExact
  <2>7. CASE CloseModules
    BY <2>7, EmptyExact DEF CloseModules
  <2> QED
    BY <1>1, <2>2, <2>3, <2>4, <2>5, <2>6, <2>7 DEF Continue
<1>2. CASE Calls
  <2>1. fault = "none"
    BY <1>2 DEF Calls
  <2>2. CASE xCOM_Init
    <3>1. CASE initialized = 0
      BY <2>2, <3>1, EmptyExact DEF xCOM_Init, Booted
    <3>2. CASE initialized # 0
      BY <2>2, <3>2, StillExact DEF xCOM_Init, Sound
    <3> QED
      BY <3>1, <3>2
  <2>3. ASSUME \/ InitCleans \/ InitDies \/ xCOM_Destroy
               \/ \E b \in Bundles, ignore \in BOOLEAN : xCOM_LoadComponentBundle(b, ignore)
        PROVE  Exact'
    <3>1. UNCHANGED <<components, hash, stale>>
      BY <2>3, Zenon DEF InitCleans, InitDies, xCOM_Destroy, xCOM_LoadComponentBundle, bundle_new
    <3> QED
      BY <2>1, <3>1, StillExact DEF Sound
  <2>4. ASSUME \E id \in DOMAIN components : component_load(id) \/ component_unload(id)
        PROVE  Exact'
    BY <2>1, <2>4, ChangingExact
  <2>5. ASSUME NEW query \in Queries, query_get_candidates(query) PROVE Exact'
    <3>1. UNCHANGED <<components, hash>> /\ Compared(query.iface)
      BY <2>5 DEF query_get_candidates
    <3>2. Sound' => Sound
      BY <2>1, <3>1 DEF Sound, Compared
    <3> QED
      BY <3>1, <3>2, StillExact
  <2> QED
    BY <1>2, <2>2, <2>3, <2>4, <2>5 DEF Calls
<1>3. ASSUME NEW l \in Libraries, Upgrade(l) PROVE Exact'
  BY <1>3, StillExact DEF Upgrade, process, Sound
<1>4. CASE Crash
  BY <1>4, EmptyExact DEF Crash
<1>5. CASE UNCHANGED vars
  BY <1>5, StillExact DEF vars, process, Sound
<1> QED
  BY <1>1, <1>2, <1>3, <1>4, <1>5 DEF RegistryNext

LEMMA ExactProviders == TypeInv /\ Exact => ProvidersExact
<1> SUFFICES ASSUME TypeInv, Exact, Sound, NEW i \in Interfaces
             PROVE  LET live == {e \in DOMAIN hash[i] : hash[i][e].live}
                    IN  /\ \A e, f \in live : e = f
                        /\ \A e \in live : /\ ToSet(hash[i][e].ports) = Providing(i)
                                           /\ Len(hash[i][e].ports) = Cardinality(Providing(i))
                        /\ live = {} => Providing(i) = {}
  BY DEF ProvidersExact
<1> DEFINE live == {e \in DOMAIN hash[i] : hash[i][e].live}
           list == hash[i][1].ports
<1>1. ListExact(hash[i], Offered(components, i))
  BY DEF Exact, InterfaceExact
<1>2. Providing(i) = Offered(components, i)
  BY ProvidingOffered DEF TypeInv, ComponentsOK
<1>3. /\ DOMAIN hash[i] = 1 .. Len(hash[i]) /\ Len(hash[i]) \in Nat /\ Len(hash[i]) <= 1
      /\ hash[i] # <<>> => hash[i][1] \in Entry(components)
      /\ hash[i] \in Seq(Entry(components))
  BY <1>1, HashType DEF ListExact
<1>4. live \subseteq {1}
  BY <1>3
<1>5. ASSUME NEW e \in live
      PROVE  /\ ToSet(hash[i][e].ports) = Providing(i)
             /\ Len(hash[i][e].ports) = Cardinality(Providing(i))
  <2>1. e = 1 /\ hash[i] # <<>>
    BY <1>3, <1>4, <1>5
  <2>2. list \in Seq(Refs(components))
    BY <1>3, <2>1 DEF Entry
  <2>3. NoTwice(list) /\ ToSet(list) = Offered(components, i)
    BY <1>1, <2>1 DEF ListExact
  <2> HIDE DEF list
  <2>4. Cardinality(ToSet(list)) = Len(list)
    BY <2>2, <2>3, ListLength
  <2> QED
    BY <1>2, <2>1, <2>3, <2>4 DEF list
<1>6. ASSUME live = {} PROVE Providing(i) = {}
  <2>1. CASE hash[i] = <<>>
    BY <1>1, <1>2, <2>1 DEF ListExact
  <2>2. CASE hash[i] # <<>>
    <3>1. 1 \in DOMAIN hash[i]
      BY <1>3, <2>2, EmptySeq
    <3>2. ~hash[i][1].live
      BY <1>6, <3>1
    <3>3. list = <<>> /\ ToSet(list) = Offered(components, i)
      BY <1>1, <2>2, <3>2 DEF ListExact
    <3> QED
      BY <1>2, <3>3 DEF ToSet
  <2> QED
    BY <2>1, <2>2
<1> QED
  BY <1>4, <1>5, <1>6

\* The invariant of the specification.
LEMMA ExactHolds == RegistrySpec => []Exact
<1>1. RegistryInit => Exact
  <2> SUFFICES ASSUME RegistryInit PROVE Exact
    OBVIOUS
  <2>1. \A i \in Interfaces : hash[i] = <<>> /\ Offered(components, i) = {}
    BY DEF RegistryInit, NoHash, Offered
  <2>2. Len(<<>>) = 0
    OBVIOUS
  <2> QED
    BY <2>1, <2>2 DEF Exact, InterfaceExact, ListExact, KeyKept
<1>2. TypeInv /\ Exact /\ [RegistryNext]_vars => Exact'
  BY NextExact
<1> QED
  BY <1>1, <1>2, TypeInvHolds, PTL DEF RegistrySpec

\* The hash holds each port that should be found, once, and no other, as long as
\* no freed name was compared: provided_ports_register and port_free keep it so
\* through torn caches, allocations that fail, and components that are freed.
THEOREM ProvidersCorrect == RegistrySpec => []ProvidersExact
BY ExactHolds, TypeInvHolds, ExactProviders, PTL

-----------------------------------------------------------------------------
(* Undefined behaviour *)

\* A name is compared after a port was freed, and ports are not linked after
\* an allocation failed.
StaleTells == stale => \E id \in DOMAIN components : components[id].freed > 0
UnlinkedTells == \A id \in DOMAIN components : components[id].unlinked # {} => shortages > 0

FaultTells ==
  /\ fault \in {"freed_list", "freed_port"} => stale
  /\ fault \in {"unlinked", "cleanup"} => shortages > 0
  /\ fault = "past_table" =>
       \E id \in DOMAIN components : components[id].wired # components[id].from

Told == StaleTells /\ UnlinkedTells /\ FaultTells

\* No component is forgotten, and none gets a port that is not linked unless an
\* allocation fails.
KeptOnes ==
  /\ \A id \in DOMAIN components : id \in DOMAIN components'
                                   /\ components[id].freed <= components'[id].freed
  /\ \A id \in DOMAIN components' : components'[id].unlinked # {} =>
       shortages' > 0 \/ (id \in DOMAIN components /\ components[id].unlinked # {})

\* A name of interface i that was freed is compared.
Touched(i) == hash[i] # <<>> /\ Freed(hash[i][1].key)

LEMMA KeptTells ==
  ASSUME TypeInv, TypeInv', StaleTells, UnlinkedTells, KeptOnes, shortages <= shortages',
         stale' => stale \/ \E i \in Interfaces : Touched(i)
  PROVE  StaleTells' /\ UnlinkedTells'
<1>1. /\ \A id \in DOMAIN components : components[id].freed \in Nat
      /\ \A id \in DOMAIN components' : components'[id].freed \in Nat
      /\ shortages \in Nat /\ shortages' \in Nat
  BY DEF TypeInv, ComponentsOK, ComponentOK, Component, InstalledOK
<1>2. ASSUME stale' PROVE \E id \in DOMAIN components : components[id].freed > 0
  <2>1. CASE stale
    BY <2>1 DEF StaleTells
  <2>2. ASSUME NEW i \in Interfaces, Touched(i)
        PROVE  \E id \in DOMAIN components : components[id].freed > 0
    <3> DEFINE p == hash[i][1].key
    <3>1. p \in Refs(components) /\ components[p[1]].freed >= p[2]
      BY <2>2, HashType DEF Touched, Freed
    <3> HIDE DEF p
    <3>2. p[1] \in DOMAIN components /\ p[2] \in DOMAIN components[p[1]].ports
      BY <3>1 DEF Refs
    <3>3. DOMAIN components[p[1]].ports = 1 .. Len(components[p[1]].ports)
      BY <3>2, ComponentType
    <3>4. components[p[1]].freed > 0
      <4>1. p[2] \in Nat /\ p[2] >= 1
        BY <3>1, <3>2, <3>3 DEF Refs
      <4> QED
        BY <1>1, <3>1, <3>2, <4>1
    <3> QED
      BY <3>2, <3>4
  <2> QED
    BY <1>2, <2>1, <2>2
<1>3. StaleTells'
  BY <1>1, <1>2 DEF StaleTells, KeptOnes
<1>4. UnlinkedTells'
  BY <1>1 DEF UnlinkedTells, KeptOnes
<1> QED
  BY <1>3, <1>4

LEMMA SameKept == ASSUME TypeInv, components' = components PROVE KeptOnes
BY ComponentType DEF KeptOnes

LEMMA CreatedKept ==
  ASSUME TypeInv, NEW c, c.unlinked = {}, NEW at, Created(c, at)
  PROVE  KeptOnes
<1>1. components \in Seq(Component) /\ components' = Append(components, c)
  BY DEF TypeInv, ComponentsOK, Created
<1>2. /\ DOMAIN components = 1 .. Len(components) /\ Len(components) \in Nat
      /\ DOMAIN components' = 1 .. Len(components) + 1
      /\ \A id \in DOMAIN components : components'[id] = components[id]
      /\ components'[Len(components) + 1] = c
  BY <1>1
<1>3. \A id \in DOMAIN components : components[id].freed \in Nat
  BY ComponentType
<1> QED
  BY <1>2, <1>3 DEF KeptOnes

LEMMA AlteredKept ==
  ASSUME TypeInv, NEW id \in DOMAIN components, NEW from, NEW wired, NEW freed \in Nat, NEW gone,
         Altered(id, from, wired, freed, gone), components[id].freed <= freed
  PROVE  /\ KeptOnes
         /\ id \in DOMAIN components' /\ components'[id].from = from /\ components'[id].wired = wired
<1>1. /\ components \in Seq(Component) /\ DOMAIN components' = DOMAIN components
      /\ \A x \in DOMAIN components : x # id => components'[x] = components[x]
      /\ components'[id] = WithFields(components[id], from, wired, freed, gone)
  BY DEF TypeInv, ComponentsOK, Altered
<1>2. \A x \in DOMAIN components : components[x].freed \in Nat /\ components[x] \in Component
  BY <1>1, ComponentFields
<1>3. /\ components'[id].freed = freed /\ components'[id].unlinked = components[id].unlinked
      /\ components'[id].from = from /\ components'[id].wired = wired
  BY <1>1, <1>2 DEF Component, WithFields
<1> QED
  BY <1>1, <1>2, <1>3 DEF KeptOnes

LEMMA FilledKept ==
  ASSUME TypeInv, act.at \in {"parse", "declare"}, NEW port, NEW orphans, NEW unlinked,
         Filled(port, orphans, unlinked),
         unlinked = components[act.id].unlinked \/ shortages' > 0
  PROVE  KeptOnes
<1>1. /\ act.id \in DOMAIN components /\ components \in Seq(Component)
      /\ components[act.id] \in Component /\ DOMAIN components' = DOMAIN components
      /\ \A x \in DOMAIN components : x # act.id => components'[x] = components[x]
      /\ components'[act.id] = WithPort(components[act.id], port, orphans, unlinked)
  BY FillingComponent DEF Filled
<1>2. /\ components'[act.id].freed = components[act.id].freed
      /\ components'[act.id].unlinked = unlinked
  BY <1>1 DEF Component, WithPort
<1>3. \A x \in DOMAIN components : components[x].freed \in Nat
  BY ComponentType
<1> QED
  BY <1>1, <1>2, <1>3 DEF KeptOnes

\* A list that is used is there, with its ports, unless a freed name was compared.
LEMMA DangerStale ==
  ASSUME TypeInv, Exact, fault = "none", NEW i \in Interfaces, NEW e \in Hits(i), Compared(i)
  PROVE  /\ Danger(i, e) \in {"none", "freed_list", "freed_port"}
         /\ Danger(i, e) # "none" => stale'
         /\ stale' => stale \/ Touched(i)
<1>1. stale' => stale \/ Touched(i)
  BY DEF Compared, Touched
<1>2. Danger(i, e) \in {"none", "freed_list", "freed_port"}
  BY DEF Danger
<1>3. ASSUME ~stale' PROVE Danger(i, e) = "none"
  <2>1. ~stale /\ Fresh(i)
    BY <1>3, FreshType
  <2>2. InterfaceExact(hash[i], components, i)
    BY <2>1 DEF Exact, Sound
  <2>3. Hits(i) = IF hash[i] = <<>> THEN {0} ELSE {1}
    <3>1. Len(hash[i]) <= 1
      BY <2>2 DEF InterfaceExact, ListExact
    <3> QED
      BY <2>1, <3>1, HitsFresh
  <2>4. CASE hash[i] = <<>>
    BY <2>3, <2>4 DEF Danger
  <2>5. CASE hash[i] # <<>>
    <3>1. e = 1 /\ hash[i][1].live
      BY <2>1, <2>2, <2>3, <2>5, LiveList DEF Fresh
    <3>2. ToSet(hash[i][1].ports) = Offered(components, i)
      BY <2>2, <2>5 DEF InterfaceExact, ListExact
    <3>3. ASSUME NEW p \in Offered(components, i) PROVE ~Freed(p)
      <4>1. p[1] \in DOMAIN components /\ p[2] > components[p[1]].freed /\ p[2] \in Nat
        BY DEF Offered, Offers
      <4>2. components[p[1]].freed \in Nat
        BY <4>1, ComponentType
      <4> QED
        BY <4>1, <4>2 DEF Freed
    <3> QED
      BY <3>1, <3>2, <3>3 DEF Danger
  <2> QED
    BY <2>4, <2>5
<1> QED
  BY <1>1, <1>2, <1>3

\* What a step that keeps the components has to show.
LEMMA ToldStep ==
  ASSUME TypeInv, TypeInv', Told, KeptOnes, shortages <= shortages',
         stale' => stale \/ \E i \in Interfaces : Touched(i), FaultTells'
  PROVE  Told'
BY KeptTells DEF Told

LEMMA RegisterTold ==
  ASSUME TypeInv, TypeInv', Exact, fault = "none", Told, NEW port \in Port, NEW p,
         Register(port, p), KeptOnes, shortages' = shortages
  PROVE  Told'
<1>1. shortages \in Nat /\ shortages <= shortages'
  BY DEF TypeInv, InstalledOK
<1>2. CASE ~port.provided
  BY <1>1, <1>2, ToldStep DEF Register, FaultTells
<1>3. CASE port.provided
  <2>1. port.iface \in Interfaces
    BY DEF Port
  <2>2. PICK e \in Hits(port.iface) : fault' = Danger(port.iface, e) /\ Compared(port.iface)
    BY <1>3 DEF Register, provided_ports_register
  <2>3. /\ fault' \in {"none", "freed_list", "freed_port"} /\ (fault' # "none" => stale')
        /\ stale' => stale \/ Touched(port.iface)
    BY <2>1, <2>2, DangerStale
  <2>4. FaultTells'
    BY <2>3 DEF FaultTells
  <2> QED
    BY <1>1, <2>1, <2>3, <2>4, ToldStep
<1> QED
  BY <1>2, <1>3

LEMMA AddingTold ==
  ASSUME TypeInv, TypeInv', Exact, fault = "none", Told,
         ParsePort \/ ParseUnlinked \/ DeclarePort \/ DeclareOrphan
  PROVE  Told'
<1> DEFINE c == components[act.id]
           parsed == cache[act.lib].ports[act.k + 1]
           declared == Declared[c.lib][c.from][Len(c.ports) + 1]
<1>1. CASE ParsePort
  <2>1. /\ parsed \in Port /\ Filled(parsed, c.orphans, c.unlinked) /\ shortages' = shortages
        /\ Register(parsed, <<act.id, Len(c.ports) + 1>>) /\ act.at \in {"parse", "declare"}
    BY <1>1, ParsedPort, ParsePortFills DEF ParsePort
  <2> HIDE DEF parsed
  <2>2. KeptOnes
    BY <2>1, FilledKept
  <2> QED
    BY <2>1, <2>2, RegisterTold
<1>2. CASE DeclarePort
  <2>1. /\ declared \in Port /\ Filled(declared, c.orphans, c.unlinked) /\ shortages' = shortages
        /\ Register(declared, <<act.id, Len(c.ports) + 1>>) /\ act.at \in {"parse", "declare"}
    BY <1>2, DeclaredPort, DeclarePortFills DEF DeclarePort
  <2> HIDE DEF declared
  <2>2. KeptOnes
    BY <2>1, FilledKept
  <2> QED
    BY <2>1, <2>2, RegisterTold
<1>3. CASE ParseUnlinked \/ DeclareOrphan
  <2>1. PICK port, orphans, unlinked : Filled(port, orphans, unlinked)
    BY <1>3, ParseUnlinkedFills, DeclareOrphanFills
  <2>2. PICK i \in Interfaces : Compared(i)
    <3>1. CASE ParseUnlinked
      <4>1. parsed \in Port /\ Compared(parsed.iface)
        BY <3>1, ParsedPort DEF ParseUnlinked
      <4> QED
        BY <4>1 DEF Port
    <3>2. CASE DeclareOrphan
      <4>1. declared \in Port /\ Compared(declared.iface)
        BY <3>2, DeclaredPort DEF DeclareOrphan
      <4> QED
        BY <4>1 DEF Port
    <3> QED
      BY <1>3, <3>1, <3>2
  <2>3. /\ shortages' = shortages + 1 /\ shortages \in Nat /\ fault' = fault
        /\ act.at \in {"parse", "declare"}
    BY <1>3 DEF ParseUnlinked, DeclareOrphan, TypeInv, InstalledOK
  <2>4. KeptOnes /\ shortages <= shortages'
    BY <2>1, <2>3, FilledKept
  <2>5. stale' => stale \/ \E x \in Interfaces : Touched(x)
    BY <2>2 DEF Compared, Touched
  <2>6. FaultTells'
    BY <2>3 DEF FaultTells
  <2> QED
    BY <2>4, <2>5, <2>6, ToldStep
<1> QED
  BY <1>1, <1>2, <1>3

LEMMA port_freeTold ==
  ASSUME TypeInv, TypeInv', Exact, fault = "none", Told, port_free
  PROVE  Told'
<1> DEFINE c == components[act.id]
           k == c.freed + 1
           i == c.ports[k].iface
<1>1. act.id \in DOMAIN components /\ k <= Len(c.ports)
  BY DEF port_free, TypeInv, ActOK
<1>2. c \in Component /\ c.freed \in Nat /\ Len(c.ports) \in Nat /\ c.ports \in Seq(Port)
  BY <1>1, ComponentType
<1>3. k \in Nat /\ components[act.id].freed <= k /\ k \in 1 .. Len(c.ports)
  BY <1>1, <1>2
<1>4. Altered(act.id, c.from, c.wired, k, c.gone)
  BY <1>2, FieldForms DEF port_free, Altered
<1>5. i \in Interfaces
  <2>1. c.ports[k] \in Port
    BY <1>2, <1>3, ElementOfSeq
  <2> QED
    BY <2>1 DEF Port
<1> HIDE DEF k
<1>6. KeptOnes
  BY <1>1, <1>3, <1>4, AlteredKept
<1>7. shortages' = shortages /\ shortages \in Nat /\ shortages <= shortages'
  <2>1. shortages' = shortages
    BY Zenon DEF port_free
  <2>2. shortages \in Nat
    BY DEF TypeInv, InstalledOK
  <2> QED
    BY <2>1, <2>2
<1>8. CASE ~c.ports[k].provided
  <2>1. UNCHANGED <<fault, stale>>
    BY <1>8 DEF port_free, k
  <2> QED
    BY <1>6, <1>7, <2>1, ToldStep DEF FaultTells
<1>9. CASE c.ports[k].provided
  <2>1. PICK e \in Hits(i) :
          fault' = IF e # 0 /\ k \in c.unlinked THEN "unlinked" ELSE Danger(i, e)
    BY <1>9 DEF port_free, k
  <2>2. Compared(i)
    BY <1>9 DEF port_free, k
  <2>3. /\ Danger(i, e) \in {"none", "freed_list", "freed_port"}
        /\ Danger(i, e) # "none" => stale'
        /\ stale' => stale \/ Touched(i)
    BY <1>5, <2>1, <2>2, DangerStale
  <2>4. k \in c.unlinked => shortages' > 0
    BY <1>1, <1>7 DEF Told, UnlinkedTells
  <2>5. FaultTells'
    BY <2>1, <2>3, <2>4 DEF FaultTells
  <2> QED
    BY <1>5, <1>6, <1>7, <2>3, <2>5, ToldStep
<1> QED
  BY <1>8, <1>9

\* A table is read past its end only if it is not the one of the component.
LEMMA component_loadTold ==
  ASSUME TypeInv, TypeInv', DataInv, fault = "none", Told,
         NEW id \in DOMAIN components, component_load(id)
  PROVE  Told'
<1> DEFINE c == components[id]
           v == Opened(c.lib)
<1>1. c \in Component /\ c.freed \in Nat /\ c.lib \in Libraries /\ c.freed <= c.freed
  BY ComponentType
<1>2. v \in DOMAIN Declared[c.lib] /\ v \in Nat
  BY <1>1, OpenedType
<1>3. Altered(id, c.from, v, c.freed, c.gone)
  BY <1>1, FieldForms DEF component_load, Altered, port_enable
<1>4. fault' = IF c.slots > Len(Declared[c.lib][v]) + 1 THEN "past_table" ELSE "none"
  BY DEF component_load, port_enable
<1>5. shortages' = shortages /\ shortages \in Nat /\ stale' = stale /\ shortages <= shortages'
  BY DEF component_load, TypeInv, InstalledOK, port_enable
<1>6. Len(Declared[c.lib][v]) \in Nat /\ v # 0
  <2>1. Declared[c.lib] \in Seq(Seq(Port))
    BY <1>1, RegistryAssumption
  <2> QED
    BY <1>2, <2>1
<1>7. c.from = v => c.slots = Len(Declared[c.lib][v])
  BY <1>6 DEF DataInv, AllFaithful, ComponentFaithful, Faithful
<1> HIDE DEF v
<1>8. KeptOnes /\ id \in DOMAIN components' /\ components'[id].from = c.from /\ components'[id].wired = v
  <2> DEFINE freed == c.freed
  <2>1. freed \in Nat /\ components[id].freed <= freed /\ Altered(id, c.from, v, freed, c.gone)
    BY <1>1, <1>3
  <2> HIDE DEF freed
  <2> QED
    BY <2>1, AlteredKept
<1>9. fault' = "past_table" => v # c.from
  BY <1>4, <1>6, <1>7
<1>10. FaultTells'
  BY <1>4, <1>8, <1>9 DEF FaultTells
<1> QED
  BY <1>5, <1>8, <1>10, ToldStep

\* Nothing happens to the components, or only to fields that are not about ports.
LEMMA StillTold ==
  ASSUME TypeInv, TypeInv', Told, components' = components \/ ParseSkipped \/ FreeEnds \/ Destroyed
           \/ \E id \in DOMAIN components : component_unload(id),
         shortages <= shortages', stale' = stale, fault' = "none" \/ UNCHANGED <<components, fault>>
  PROVE  Told'
<1>1. KeptOnes
  <2>1. CASE components' = components
    BY <2>1, SameKept
  <2>2. CASE \/ ParseSkipped \/ FreeEnds \/ Destroyed
             \/ \E id \in DOMAIN components : component_unload(id)
    <3>1. PICK id \in DOMAIN components :
            \E from, wired, gone : Altered(id, from, wired, components[id].freed, gone)
      BY <2>2, ChangingStep
    <3>2. PICK from, wired, gone : Altered(id, from, wired, components[id].freed, gone)
      BY <3>1
    <3> DEFINE freed == components[id].freed
    <3>3. freed \in Nat /\ components[id].freed <= freed /\ Altered(id, from, wired, freed, gone)
      BY <3>2, ComponentType
    <3> HIDE DEF freed
    <3> QED
      BY <3>3, AlteredKept
  <2> QED
    BY <2>1, <2>2
<1>2. shortages \in Nat /\ shortages' \in Nat
  BY DEF TypeInv, InstalledOK
<1>3. FaultTells'
  BY <1>2 DEF Told, FaultTells
<1> QED
  BY <1>1, <1>3, ToldStep

LEMMA EmptyTold ==
  ASSUME components' = <<>>, stale' = FALSE, fault' = "none"
  PROVE  Told'
BY DEF Told, StaleTells, UnlinkedTells, FaultTells

LEMMA ContinueTold ==
  ASSUME TypeInv, TypeInv', Exact, Told, Continue
  PROVE  Told'
<1>1. fault = "none" /\ shortages \in Nat
  BY DEF Continue, TypeInv, InstalledOK
<1>2. ASSUME \/ \E l \in Libraries : NextFile(l)
             \/ LoadEnds \/ CacheUnread \/ ParseEnds \/ ParseFails \/ IntrospectFails
             \/ cache_create \/ CloseComponent \/ CloseBundle
      PROVE  Told'
  <2>1. UNCHANGED <<components, fault, stale>>
    BY <1>2, Zenon DEF NextFile, LoadEnds, CacheUnread, ParseEnds, ParseFails, IntrospectFails,
       cache_create, CloseComponent, CloseBundle
  <2>2. shortages' = shortages \/ shortages' = shortages + 1
    BY <1>2, Zenon DEF NextFile, LoadEnds, CacheUnread, ParseEnds, ParseFails, IntrospectFails,
       cache_create, CloseComponent, CloseBundle
  <2>3. shortages <= shortages'
    BY <1>1, <2>2
  <2> QED
    BY <2>1, <2>3, StillTold
<1>3. CASE ParsePort \/ ParseUnlinked \/ DeclarePort \/ DeclareOrphan
  BY <1>1, <1>3, AddingTold
<1>4. CASE CacheRead \/ Introspect \/ IntrospectNoPorts
  <2>1. PICK c, at : Created(c, at) /\ c.unlinked = {}
    BY <1>4, CreatingStep
  <2>2. KeptOnes
    BY <2>1, CreatedKept
  <2>3. UNCHANGED <<fault, stale>> /\ (shortages' = shortages \/ shortages' = shortages + 1)
    BY <1>4, Zenon DEF CacheRead, Introspect, IntrospectNoPorts
  <2>4. FaultTells'
    BY <1>1, <2>3 DEF FaultTells
  <2>5. shortages <= shortages'
    BY <1>1, <2>3
  <2> QED
    BY <2>2, <2>3, <2>4, <2>5, ToldStep
<1>5. CASE ParseSkipped \/ FreeEnds \/ Destroyed
  <2>1. UNCHANGED <<fault, stale>> /\ (shortages' = shortages \/ shortages' = shortages + 1)
    BY <1>5, Zenon DEF ParseSkipped, FreeEnds, Destroyed, port_disable
  <2>2. shortages <= shortages' /\ fault' = "none" /\ stale' = stale
    BY <1>1, <2>1
  <2> QED
    BY <1>5, <2>2, StillTold
<1>6. CASE port_free
  BY <1>1, <1>6, port_freeTold
<1>7. CASE CloseModules
  <2>1. components' = <<>> /\ stale' = FALSE /\ fault' = "none"
    BY <1>1, <1>7, Zenon DEF CloseModules
  <2> QED
    BY <2>1, EmptyTold
<1> QED
  BY <1>2, <1>3, <1>4, <1>5, <1>6, <1>7 DEF Continue

LEMMA CallsTold ==
  ASSUME TypeInv, TypeInv', Exact, DataInv, fault = "none" => ModulesInv, Told, Calls
  PROVE  Told'
<1>1. fault = "none" /\ shortages \in Nat
  BY DEF Calls, TypeInv, InstalledOK
<1>2. CASE xCOM_Init
  <2>1. UNCHANGED <<fault, stale, shortages>>
    BY <1>2, Zenon DEF xCOM_Init
  <2>2. components' = components
    <3>1. CASE initialized = 0
      <4>1. components = <<>>
        BY <1>1, <1>2, <3>1 DEF xCOM_Init, ModulesInv, Rest
      <4> QED
        BY <1>2, <3>1, <4>1 DEF xCOM_Init, Booted
    <3>2. CASE initialized # 0
      BY <1>2, <3>2 DEF xCOM_Init
    <3> QED
      BY <3>1, <3>2
  <2> QED
    BY <1>1, <2>1, <2>2, StillTold
<1>3. CASE InitDies
  <2>1. /\ UNCHANGED <<components, stale>> /\ shortages' = shortages + 1 /\ fault' = "cleanup"
    BY <1>3, Zenon DEF InitDies
  <2>2. KeptOnes /\ shortages <= shortages'
    BY <1>1, <2>1, SameKept
  <2>3. FaultTells'
    BY <1>1, <2>1 DEF FaultTells
  <2> QED
    BY <2>1, <2>2, <2>3, ToldStep
<1>4. CASE \/ InitCleans \/ xCOM_Destroy
           \/ \E b \in Bundles, ignore \in BOOLEAN : xCOM_LoadComponentBundle(b, ignore)
  <2>1. /\ UNCHANGED <<components, fault, stale>>
        /\ shortages' = shortages \/ shortages' = shortages + 1
    BY <1>4, Zenon DEF InitCleans, xCOM_Destroy, xCOM_LoadComponentBundle, bundle_new
  <2>2. shortages <= shortages'
    BY <1>1, <2>1
  <2> QED
    BY <2>1, <2>2, StillTold
<1>5. ASSUME NEW id \in DOMAIN components, component_load(id) PROVE Told'
  BY <1>1, <1>5, component_loadTold
<1>6. ASSUME NEW id \in DOMAIN components, component_unload(id) PROVE Told'
  <2>1. UNCHANGED <<fault, stale, shortages>>
    BY <1>6, Zenon DEF component_unload, port_disable
  <2>2. shortages <= shortages' /\ fault' = "none" /\ stale' = stale
    BY <1>1, <2>1
  <2> QED
    BY <1>6, <2>2, StillTold
<1>7. ASSUME NEW query \in Queries, query_get_candidates(query) PROVE Told'
  <2> DEFINE i == query.iface
  <2>1. i \in Interfaces
    BY RegistryAssumption DEF Query
  <2>2. PICK e \in Hits(i) : fault' = Danger(i, e)
    BY <1>7 DEF query_get_candidates
  <2>3. /\ Compared(i) /\ components' = components
        /\ shortages' = shortages /\ shortages <= shortages'
    BY <1>1, <1>7 DEF query_get_candidates
  <2> HIDE DEF i
  <2>4. /\ fault' \in {"none", "freed_list", "freed_port"} /\ (fault' # "none" => stale')
        /\ stale' => stale \/ Touched(i)
    BY <1>1, <2>1, <2>2, <2>3, DangerStale
  <2>5. FaultTells' /\ KeptOnes
    BY <2>3, <2>4, SameKept DEF FaultTells
  <2> QED
    BY <2>1, <2>3, <2>4, <2>5, ToldStep
<1> QED
  BY <1>2, <1>3, <1>4, <1>5, <1>6, <1>7 DEF Calls

LEMMA NextTold ==
  ASSUME TypeInv, TypeInv', Exact, DataInv, fault = "none" => ModulesInv, Told, [RegistryNext]_vars
  PROVE  Told'
<1>1. shortages \in Nat
  BY DEF TypeInv, InstalledOK
<1>2. ASSUME (\E l \in Libraries : Upgrade(l)) \/ UNCHANGED vars PROVE Told'
  <2>1. UNCHANGED <<components, fault, stale, shortages>>
    BY <1>2, Zenon DEF Upgrade, vars, process
  <2> QED
    BY <1>1, <2>1, StillTold
<1>3. CASE Crash
  <2>1. components' = <<>> /\ stale' = FALSE /\ fault' = "none"
    BY <1>3, Zenon DEF Crash
  <2> QED
    BY <2>1, EmptyTold
<1>4. CASE Continue
  BY <1>4, ContinueTold
<1>5. CASE Calls
  BY <1>5, CallsTold
<1> QED
  BY <1>2, <1>3, <1>4, <1>5 DEF RegistryNext

LEMMA ToldExplained == Told => FaultExplained
BY DEF Told, StaleTells, UnlinkedTells, FaultTells, FaultExplained, ToSet

\* The memory of the registry is misused only after a port was freed or an
\* allocation failed, and a table is read past its end only if it is of another
\* version: the invariants above leave no other way.
THEOREM FaultsCorrect == RegistrySpec => []FaultExplained
<1>1. RegistryInit => Told
  BY DEF RegistryInit, Told, StaleTells, UnlinkedTells, FaultTells
<1>2. /\ TypeInv /\ TypeInv' /\ Exact /\ DataInv /\ (fault = "none" => ModulesInv)
      /\ Told /\ [RegistryNext]_vars
      => Told'
  BY NextTold
<1> QED
  BY <1>1, <1>2, TypeInvHolds, ExactHolds, DataInvHolds, ModulesInvHolds, ToldExplained, PTL
     DEF RegistrySpec
-----------------------------------------------------------------------------
(* What a query finds *)

\* The n-th positions of a finite set are its positions, in their order.
LEMMA NthOrder ==
  ASSUME NEW M \in SUBSET Nat, IsFiniteSet(M)
  PROVE  /\ Cardinality(M) \in Nat
         /\ \A n \in 1 .. Cardinality(M) : Nth(M, n) \in M
         /\ \A k \in M : \E n \in 1 .. Cardinality(M) : Nth(M, n) = k
         /\ \A m, n \in 1 .. Cardinality(M) : m < n => Nth(M, m) < Nth(M, n)
<1> DEFINE Upto(k) == {j \in M : j <= k}
           rank(k) == Cardinality(Upto(k))
           I == 1 .. Cardinality(M)
<1>1. Cardinality(M) \in Nat /\ \A k \in M : k \in Nat
  BY FS_CardinalityType
<1>2. ASSUME NEW k \in M
      PROVE  IsFiniteSet(Upto(k)) /\ rank(k) \in I /\ rank(k) \in Nat
  <2>1. Upto(k) \in SUBSET M /\ k \in Upto(k)
    OBVIOUS
  <2> HIDE DEF Upto
  <2>2. IsFiniteSet(Upto(k)) /\ rank(k) <= Cardinality(M)
    BY <2>1, FS_Subset
  <2>3. rank(k) \in Nat /\ rank(k) # 0
    BY <2>1, <2>2, FS_CardinalityType, FS_EmptySet
  <2> QED
    BY <1>1, <2>2, <2>3
<1>3. ASSUME NEW j \in M, NEW k \in M, j < k PROVE rank(j) < rank(k)
  <2>1. Upto(j) \in SUBSET Upto(k) /\ k \in Upto(k) /\ k \notin Upto(j)
    <3>1. j \in Nat /\ k \in Nat /\ ~ (k <= j) /\ k <= k
      BY <1>1, <1>3
    <3>2. \A x \in M : x <= j => x <= k
      BY <1>1, <1>3, <3>1
    <3> QED
      BY <3>1, <3>2
  <2>2. Upto(j) # Upto(k)
    BY <2>1
  <2>3. IsFiniteSet(Upto(k)) /\ IsFiniteSet(Upto(j)) /\ rank(j) \in Nat /\ rank(k) \in Nat
    BY <1>1, <1>2
  <2> HIDE DEF Upto
  <2>4. rank(j) <= rank(k) /\ rank(j) # rank(k)
    BY <2>1, <2>2, <2>3, FS_Subset
  <2> QED
    BY <2>3, <2>4
<1> HIDE DEF rank
<1>4. \A j, k \in M : rank(j) = rank(k) => j = k
  <2> SUFFICES ASSUME NEW j \in M, NEW k \in M, rank(j) = rank(k), j # k PROVE FALSE
    OBVIOUS
  <2>1. j \in Nat /\ k \in Nat /\ rank(j) \in Nat /\ rank(k) \in Nat
    BY <1>1, <1>2
  <2>2. j < k \/ k < j
    BY <2>1
  <2>3. rank(j) < rank(k) \/ rank(k) < rank(j)
    BY <1>3, <2>2
  <2> QED
    BY <2>1, <2>3
<1>5. \A n \in I : \E k \in M : rank(k) = n
  <2> DEFINE f == [k \in M |-> rank(k)]
  <2>1. IsFiniteSet(I) /\ Cardinality(I) = Cardinality(M)
    BY <1>1, FS_Interval
  <2>2. f \in Injection(M, I)
    BY <1>2, <1>4 DEF Injection, IsInjective
  <2>3. f \in Surjection(M, I)
    <3> HIDE DEF f, I
    <3> QED
      BY <2>1, <2>2, FS_Injection
  <2> QED
    BY <2>3 DEF Surjection
<1>6. \A n : Nth(M, n) = CHOOSE k \in M : rank(k) = n
  BY DEF Nth, rank
<1>7. \A n \in I : Nth(M, n) \in M /\ rank(Nth(M, n)) = n
  BY <1>5, <1>6
<1>8. \A k \in M : Nth(M, rank(k)) = k
  BY <1>2, <1>4, <1>7
<1>9. ASSUME NEW m \in I, NEW n \in I, m < n PROVE Nth(M, m) < Nth(M, n)
  <2>1. /\ Nth(M, m) \in M /\ Nth(M, n) \in M
        /\ rank(Nth(M, m)) = m /\ rank(Nth(M, n)) = n
    BY <1>7
  <2>2. Nth(M, m) \in Nat /\ Nth(M, n) \in Nat /\ m \in Int /\ n \in Int
    <3>1. Nth(M, m) \in Nat /\ Nth(M, n) \in Nat
      BY <1>1, <2>1
    <3> QED
      BY <1>1, <3>1
  <2>3. CASE Nth(M, n) < Nth(M, m)
    <3>1. n < m
      BY <1>3, <2>1, <2>3
    <3> QED
      BY <1>9, <2>2, <3>1
  <2>4. CASE Nth(M, n) = Nth(M, m)
    BY <1>9, <2>1, <2>2, <2>4
  <2> QED
    BY <2>2, <2>3, <2>4
<1> QED
  BY <1>1, <1>2, <1>7, <1>8, <1>9

\* The ports that match are those of the list, in its order.
LEMMA MatchingElements ==
  ASSUME NEW S, NEW list \in Seq(S), NEW query
  PROVE  LET chosen == Matching(query, list)
         IN  /\ ToSet(chosen) = {p \in ToSet(list) : query_match_provider(query, p)}
             /\ \A j, k \in DOMAIN chosen : j < k =>
                  \E a, b \in DOMAIN list : a < b /\ chosen[j] = list[a] /\ chosen[k] = list[b]
<1> DEFINE M == {k \in DOMAIN list : query_match_provider(query, list[k])}
           chosen == Matching(query, list)
           I == 1 .. Cardinality(M)
<1>1. chosen = [n \in I |-> list[Nth(M, n)]]
  BY DEF Matching
<1>2. DOMAIN list = 1 .. Len(list) /\ Len(list) \in Nat
  OBVIOUS
<1>3. M \in SUBSET Nat /\ IsFiniteSet(M)
  <2>1. M \in SUBSET (1 .. Len(list)) /\ IsFiniteSet(1 .. Len(list))
    BY <1>2, FS_Interval
  <2> HIDE DEF M
  <2>2. IsFiniteSet(M)
    BY <2>1, FS_Subset
  <2> QED
    BY <1>2, <2>1, <2>2
<1>4. M \subseteq DOMAIN list /\ \A k \in DOMAIN list : k \in M <=> query_match_provider(query, list[k])
  OBVIOUS
<1> HIDE DEF M, chosen
<1>5. /\ \A n \in I : Nth(M, n) \in M
      /\ \A k \in M : \E n \in I : Nth(M, n) = k
      /\ \A m, n \in I : m < n => Nth(M, m) < Nth(M, n)
  BY <1>3, NthOrder
<1> HIDE DEF I
<1>6. \A p : p \in ToSet(chosen) <=> \E k \in M : p = list[k]
  BY <1>1, <1>5 DEF ToSet
<1>7. \A p : p \in ToSet(list) /\ query_match_provider(query, p) <=> \E k \in M : p = list[k]
  BY <1>4 DEF ToSet
<1>8. ToSet(chosen) = {p \in ToSet(list) : query_match_provider(query, p)}
  BY <1>6, <1>7
<1>9. ASSUME NEW j \in DOMAIN chosen, NEW k \in DOMAIN chosen, j < k
      PROVE  \E a, b \in DOMAIN list : a < b /\ chosen[j] = list[a] /\ chosen[k] = list[b]
  <2>1. Nth(M, j) \in DOMAIN list /\ Nth(M, k) \in DOMAIN list /\ Nth(M, j) < Nth(M, k)
    BY <1>1, <1>4, <1>5, <1>9
  <2> QED
    BY <1>1, <1>9, <2>1
<1> QED
  BY <1>8, <1>9 DEF chosen

\* The lists of the hash are in the order in which their components were loaded:
\* a port that is registered is one of the component that was loaded last.
Ordered(list) == \A j, k \in DOMAIN list : j < k => list[j][1] <= list[k][1]

InOrder ==
  /\ act.at \in {"parse", "declare"} => act.id = Len(components)
  /\ \A i \in Interfaces : \A e \in DOMAIN hash[i] : Ordered(hash[i][e].ports)

LEMMA WithoutOrder ==
  ASSUME NEW S, NEW list \in Seq(S), NEW p, Ordered(list)
  PROVE  Ordered(Without(list, p))
<1>1. CASE p \notin ToSet(list)
  BY <1>1 DEF Without
<1>2. CASE p \in ToSet(list)
  <2> DEFINE l == Len(list)
             w == Without(list, p)
  <2>1. PICK n \in 1 .. l :
          /\ list[n] = p /\ DOMAIN w = 1 .. l - 1
          /\ \A k \in 1 .. l - 1 : w[k] = IF k < n THEN list[k] ELSE list[k + 1]
    BY <1>2, WithoutPlaces
  <2>2. l \in Nat /\ DOMAIN list = 1 .. l
    OBVIOUS
  <2> HIDE DEF w, l
  <2> DEFINE f(k) == IF k < n THEN k ELSE k + 1
  <2>3. \A k \in 1 .. l - 1 : f(k) \in 1 .. l /\ w[k] = list[f(k)]
    BY <2>1, <2>2
  <2>4. \A j, k \in 1 .. l - 1 : j < k => f(j) < f(k)
    BY <2>1, <2>2
  <2> HIDE DEF f
  <2>5. \A j, k \in 1 .. l - 1 : j < k => list[f(j)][1] <= list[f(k)][1]
    BY <2>2, <2>3, <2>4 DEF Ordered
  <2>6. Ordered(w)
    BY <2>1, <2>3, <2>5 DEF Ordered
  <2> QED
    BY <2>6 DEF w
<1> QED
  BY <1>1, <1>2

LEMMA AppendOrder ==
  ASSUME NEW S, NEW list \in Seq(S), Ordered(list), NEW p,
         \A k \in DOMAIN list : list[k][1] <= p[1]
  PROVE  Ordered(Append(list, p))
<1> DEFINE new == Append(list, p)
<1>1. /\ Len(list) \in Nat /\ DOMAIN list = 1 .. Len(list)
      /\ DOMAIN new = 1 .. Len(list) + 1
      /\ \A k \in 1 .. Len(list) : new[k] = list[k]
      /\ new[Len(list) + 1] = p
  OBVIOUS
<1> HIDE DEF new
<1>2. ASSUME NEW j \in DOMAIN new, NEW k \in DOMAIN new, j < k PROVE new[j][1] <= new[k][1]
  <2>1. j \in 1 .. Len(list) /\ k \in 1 .. Len(list) + 1
    BY <1>1, <1>2
  <2>2. CASE k \in 1 .. Len(list)
    BY <1>1, <1>2, <2>1, <2>2 DEF Ordered
  <2>3. CASE k = Len(list) + 1
    BY <1>1, <2>1, <2>3
  <2> QED
    BY <1>1, <2>1, <2>2, <2>3
<1> QED
  BY <1>2 DEF new, Ordered

\* The lists hold references to components that exist.
LEMMA ListsType ==
  ASSUME TypeInv, NEW i \in Interfaces, NEW e \in DOMAIN hash[i]
  PROVE  /\ hash[i][e].ports \in Seq(Refs(components))
         /\ \A k \in DOMAIN hash[i][e].ports :
              hash[i][e].ports[k][1] \in Nat /\ hash[i][e].ports[k][1] <= Len(components)
<1> DEFINE list == hash[i][e].ports
<1>1. components \in Seq(Component)
  BY DEF TypeInv, ComponentsOK
<1>2. hash[i][e] \in Entry(components)
  <2>1. hash[i] \in Seq(Entry(components))
    BY HashType
  <2> QED
    BY <2>1, ElementOfSeq
<1>3. list \in Seq(Refs(components))
  BY <1>2 DEF Entry
<1>4. \A k \in DOMAIN list : list[k] \in Refs(components)
  <2> HIDE DEF list
  <2> QED
    BY <1>3, ElementOfSeq
<1>5. \A p \in Refs(components) : p[1] \in Nat /\ p[1] <= Len(components)
  BY <1>1 DEF Refs
<1> QED
  BY <1>3, <1>4, <1>5

\* Registering a port of the last component.
LEMMA RegisterOrder ==
  ASSUME TypeInv, InOrder, NEW port \in Port, NEW k, NEW id, id = Len(components),
         Register(port, <<id, k>>), NEW i \in Interfaces, NEW e \in DOMAIN hash'[i]
  PROVE  Ordered(hash'[i][e].ports)
<1> DEFINE p == <<id, k>>
           j == port.iface
<1>1. hash \in [Interfaces -> Seq(Entry(components))] /\ DOMAIN hash[i] = 1 .. Len(hash[i])
      /\ Len(hash[i]) \in Nat /\ hash[i] \in Seq(Entry(components))
  BY HashType
<1>2. CASE hash' = hash
  BY <1>2 DEF InOrder
<1>3. CASE hash' # hash
  <2>1. PICK x \in Hits(j) :
          hash' = [hash EXCEPT ![j] =
                     IF x = 0 THEN Append(@, [key |-> p, ports |-> <<p>>, live |-> TRUE])
                              ELSE [hash[j] EXCEPT ![x].ports = Append(@, p)]]
    BY <1>3 DEF Register, provided_ports_register
  <2>2. CASE i # j
    <3>1. hash'[i] = hash[i]
      BY <1>1, <2>1, <2>2
    <3> QED
      BY <3>1 DEF InOrder
  <2>3. CASE i = j /\ x = 0
    <3> DEFINE entry == [key |-> p, ports |-> <<p>>, live |-> TRUE]
    <3>1. hash'[i] = Append(hash[i], entry)
      BY <1>1, <2>1, <2>3
    <3>2. CASE e = Len(hash[i]) + 1
      <4>1. hash'[i][e] = entry
        BY <1>1, <3>1, <3>2
      <4>2. Ordered(<<p>>)
        BY DEF Ordered
      <4> QED
        BY <4>1, <4>2
    <3>3. CASE e # Len(hash[i]) + 1
      <4> HIDE DEF entry
      <4>1. e \in DOMAIN hash[i] /\ hash'[i][e] = hash[i][e]
        BY <1>1, <3>1, <3>3
      <4> QED
        BY <4>1 DEF InOrder
    <3> QED
      BY <3>2, <3>3
  <2>4. CASE i = j /\ x # 0
    <3>1. hash'[i] = [hash[i] EXCEPT ![x].ports = Append(@, p)]
      BY <1>1, <2>1, <2>4
    <3>2. e \in DOMAIN hash[i]
      BY <1>1, <3>1
    <3>3. CASE e # x
      <4>1. hash'[i][e] = hash[i][e]
        BY <1>1, <3>1, <3>2, <3>3
      <4> QED
        BY <3>2, <4>1 DEF InOrder
    <3>4. CASE e = x
      <4> DEFINE list == hash[i][e].ports
      <4>1. /\ list \in Seq(Refs(components)) /\ Ordered(list)
            /\ \A y \in DOMAIN list : list[y][1] <= p[1]
        BY <3>2, ListsType DEF InOrder
      <4>2. hash[i][e] \in Entry(components)
        BY <1>1, <3>2, ElementOfSeq
      <4>3. hash'[i][e].ports = Append(list, p)
        BY <1>1, <3>1, <3>2, <3>4, <4>2 DEF Entry
      <4> HIDE DEF list, p
      <4>4. Ordered(Append(list, p))
        BY <4>1, AppendOrder
      <4> QED
        BY <4>3, <4>4
    <3> QED
      BY <3>3, <3>4
  <2> QED
    BY <2>2, <2>3, <2>4
<1> QED
  BY <1>2, <1>3

\* Freeing a port.
LEMMA port_freeOrder ==
  ASSUME TypeInv, InOrder, port_free, NEW i \in Interfaces, NEW e \in DOMAIN hash'[i]
  PROVE  Ordered(hash'[i][e].ports)
<1> DEFINE c == components[act.id]
           k == c.freed + 1
           p == <<act.id, k>>
           j == c.ports[k].iface
<1>1. hash \in [Interfaces -> Seq(Entry(components))] /\ hash[i] \in Seq(Entry(components))
  BY HashType
<1>2. CASE hash' = hash
  BY <1>2 DEF InOrder
<1>3. CASE hash' # hash
  <2>1. PICK x : hash' = [hash EXCEPT ![j] = Cleared(@, p, x)]
    BY <1>3 DEF port_free
  <2> HIDE DEF p, j
  <2>2. CASE i # j
    <3>1. hash'[i] = hash[i]
      BY <1>1, <2>1, <2>2
    <3> QED
      BY <3>1 DEF InOrder
  <2>3. CASE i = j
    <3> DEFINE list == hash[i][e].ports
    <3>1. hash'[i] = Cleared(hash[i], p, x)
      BY <1>1, <2>1, <2>3
    <3>2. e \in DOMAIN hash[i]
      BY <3>1 DEF Cleared
    <3>3. hash'[i][e].ports = Without(list, p)
      <4>1. hash[i][e] \in Entry(components)
        BY <1>1, <3>2, ElementOfSeq
      <4>2. hash'[i][e] = [hash[i][e] EXCEPT !.ports = Without(list, p),
                                             !.live = @ /\ (e = x => Without(list, p) # <<>>)]
        BY <3>1, <3>2 DEF Cleared
      <4> QED
        BY <4>1, <4>2 DEF Entry
    <3>4. list \in Seq(Refs(components)) /\ Ordered(list)
      BY <3>2, ListsType DEF InOrder
    <3> HIDE DEF list
    <3>5. Ordered(Without(list, p))
      BY <3>4, WithoutOrder
    <3> QED
      BY <3>3, <3>5
  <2> QED
    BY <2>2, <2>3
<1> QED
  BY <1>2, <1>3

\* The component that is read is the last one.
LEMMA LastOne ==
  ASSUME TypeInv, InOrder, RegistryNext, act'.at \in {"parse", "declare"}
  PROVE  act'.id = Len(components')
<1>1. act \in Call /\ components \in Seq(Component)
  BY DEF TypeInv, ActOK, ComponentsOK
<1>2. CASE act'.id = act.id /\ act.at \in {"parse", "declare"} /\ Len(components') = Len(components)
  BY <1>2 DEF InOrder
<1>3. CASE Continue
  <2>1. ASSUME NEW l \in Libraries, NextFile(l) PROVE FALSE
    BY <1>1, <2>1 DEF NextFile, Call
  <2>2. CASE LoadEnds \/ CloseModules
    BY <2>2 DEF LoadEnds, CloseModules, Rest
  <2>3. CASE ParseEnds \/ IntrospectFails \/ cache_create
    <3>1. act' = [act EXCEPT !.at = "scan", !.lib = NoLibrary, !.id = 0, !.k = 0]
      BY <2>3 DEF ParseEnds, IntrospectFails, cache_create, Listed
    <3> QED
      BY <1>1, <3>1 DEF Call
  <2>4. CASE FreeEnds
    <3>1. act.then \in {"introspect", "close"}
      BY <2>4 DEF TypeInv, ActOK, FreeEnds
    <3> QED
      BY <1>1, <2>4, <3>1 DEF FreeEnds, Call
  <2>5. CASE CacheUnread \/ ParseFails \/ CloseComponent \/ Destroyed
    BY <1>1, <2>5 DEF CacheUnread, ParseFails, CloseComponent, Destroyed, Call
  <2>6. CASE CloseBundle \/ port_free
    BY <2>6 DEF CloseBundle, port_free
  <2>7. CASE CacheRead \/ Introspect \/ IntrospectNoPorts
    <3>1. PICK c, at : Created(c, at)
      BY <2>7, CreatingStep
    <3>2. act'.id = Len(components) + 1 /\ components' = Append(components, c)
      BY <1>1, <3>1 DEF Created, Call
    <3> QED
      BY <1>1, <3>2
  <2>8. CASE ParsePort \/ ParseSkipped \/ ParseUnlinked
    <3>1. act'.id = act.id /\ act.at = "parse"
      BY <1>1, <2>8 DEF ParsePort, ParseSkipped, ParseUnlinked, Call
    <3>2. DOMAIN components' = DOMAIN components /\ Len(components') = Len(components)
      BY <1>1, <2>8 DEF ParsePort, ParseSkipped, ParseUnlinked
    <3> QED
      BY <1>2, <3>1, <3>2
  <2>9. CASE DeclarePort \/ DeclareOrphan
    <3>1. act'.id = act.id /\ act.at = "declare"
      BY <1>1, <2>9 DEF DeclarePort, DeclareOrphan, Call
    <3>2. Len(components') = Len(components)
      <4>1. CASE DeclarePort
        BY <1>1, <4>1, DeclarePortFills DEF Filled
      <4>2. CASE DeclareOrphan
        BY <1>1, <4>2, DeclareOrphanFills DEF Filled
      <4> QED
        BY <2>9, <4>1, <4>2
    <3> QED
      BY <1>2, <3>1, <3>2
  <2> QED
    BY <1>3, <2>1, <2>2, <2>3, <2>4, <2>5, <2>6, <2>7, <2>8, <2>9 DEF Continue
<1>4. CASE Calls
  <2>1. CASE xCOM_Init \/ InitCleans \/ InitDies \/ xCOM_Destroy
    BY <2>1 DEF xCOM_Init, InitCleans, InitDies, xCOM_Destroy, Rest
  <2>2. ASSUME NEW b \in Bundles, NEW ignore \in BOOLEAN, xCOM_LoadComponentBundle(b, ignore)
        PROVE  FALSE
    BY <2>2 DEF xCOM_LoadComponentBundle, Rest
  <2>3. ASSUME NEW id \in DOMAIN components, component_load(id) \/ component_unload(id)
        PROVE  FALSE
    BY <2>3 DEF component_load, component_unload, Rest
  <2>4. ASSUME NEW query \in Queries, query_get_candidates(query) PROVE FALSE
    BY <2>4 DEF query_get_candidates
  <2> QED
    BY <1>4, <2>1, <2>2, <2>3, <2>4 DEF Calls
<1>5. ASSUME NEW l \in Libraries, Upgrade(l) PROVE FALSE
  BY <1>5 DEF Upgrade, process, Rest
<1>6. CASE Crash
  BY <1>6 DEF Crash, Rest
<1> QED
  BY <1>3, <1>4, <1>5, <1>6 DEF RegistryNext

LEMMA ListsOrder ==
  ASSUME TypeInv, InOrder, RegistryNext, NEW i \in Interfaces, NEW e \in DOMAIN hash'[i]
  PROVE  Ordered(hash'[i][e].ports)
<1> DEFINE c == components[act.id]
<1>1. CASE hash' = hash
  BY <1>1 DEF InOrder
<1>2. CASE hash' = NoHash
  BY <1>2 DEF NoHash
<1>3. CASE ParsePort
  <2>1. /\ cache[act.lib].ports[act.k + 1] \in Port /\ act.id = Len(components)
        /\ Register(cache[act.lib].ports[act.k + 1], <<act.id, Len(c.ports) + 1>>)
    BY <1>3, ParsedPort DEF ParsePort, InOrder
  <2> QED
    BY <2>1, RegisterOrder
<1>4. CASE DeclarePort
  <2>1. /\ Declared[c.lib][c.from][Len(c.ports) + 1] \in Port /\ act.id = Len(components)
        /\ Register(Declared[c.lib][c.from][Len(c.ports) + 1], <<act.id, Len(c.ports) + 1>>)
    BY <1>4, DeclaredPort DEF DeclarePort, InOrder
  <2> QED
    BY <2>1, RegisterOrder
<1>5. CASE port_free
  BY <1>5, port_freeOrder
<1>6. CASE Continue
  <2>1. ASSUME \/ \E l \in Libraries : NextFile(l)
               \/ LoadEnds \/ CacheUnread \/ CacheRead \/ ParseSkipped \/ ParseUnlinked
               \/ ParseEnds \/ ParseFails \/ IntrospectFails \/ Introspect
               \/ IntrospectNoPorts \/ DeclareOrphan \/ cache_create
               \/ FreeEnds \/ CloseComponent \/ Destroyed \/ CloseBundle
        PROVE  hash' = hash
    BY <2>1, Zenon DEF NextFile, LoadEnds, CacheUnread, CacheRead, ParseSkipped, ParseUnlinked,
       ParseEnds, ParseFails, IntrospectFails, Introspect, IntrospectNoPorts, DeclareOrphan,
       cache_create, FreeEnds, CloseComponent, Destroyed, CloseBundle
  <2>2. CloseModules => hash' = NoHash
    BY DEF CloseModules
  <2> QED
    BY <1>1, <1>2, <1>3, <1>4, <1>5, <1>6, <2>1, <2>2 DEF Continue
<1>7. CASE Calls
  <2>1. xCOM_Init => hash' = NoHash \/ hash' = hash
    BY DEF xCOM_Init, Booted
  <2>2. ASSUME \/ InitCleans \/ InitDies \/ xCOM_Destroy
               \/ \E b \in Bundles, ignore \in BOOLEAN : xCOM_LoadComponentBundle(b, ignore)
               \/ \E id \in DOMAIN components : component_load(id) \/ component_unload(id)
               \/ \E query \in Queries : query_get_candidates(query)
        PROVE  hash' = hash
    BY <2>2, Zenon DEF InitCleans, InitDies, xCOM_Destroy, xCOM_LoadComponentBundle,
       component_load, component_unload, query_get_candidates
  <2> QED
    BY <1>1, <1>2, <1>7, <2>1, <2>2 DEF Calls
<1>8. (\E l \in Libraries : Upgrade(l)) => hash' = hash
  BY DEF Upgrade, process
<1>9. Crash => hash' = NoHash
  BY DEF Crash
<1> QED
  BY <1>1, <1>2, <1>6, <1>7, <1>8, <1>9 DEF RegistryNext

LEMMA InOrderHolds == RegistrySpec => []InOrder
<1>1. RegistryInit => InOrder
  BY DEF RegistryInit, InOrder, Rest, NoHash
<1>2. TypeInv /\ InOrder /\ [RegistryNext]_vars => InOrder'
  <2>1. TypeInv /\ InOrder /\ RegistryNext => InOrder'
    BY LastOne, ListsOrder DEF InOrder
  <2>2. InOrder /\ UNCHANGED vars => InOrder'
    BY DEF InOrder, vars, process
  <2> QED
    BY <2>1, <2>2
<1> QED
  BY <1>1, <1>2, TypeInvHolds, PTL DEF RegistrySpec

\* What query_get_candidates does to the list it finds.
LEMMA CandidatesFound ==
  ASSUME TypeInv, Exact, InOrder, NEW query \in Queries, query_get_candidates(query),
         fault = "none", fault' = "none", ~stale'
  PROVE  /\ ToSet(found') = {p \in Providing(query.iface) : query_match_provider(query, p)}
         /\ \A j, k \in DOMAIN found' : j < k => found'[j][1] <= found'[k][1]
<1> DEFINE i == query.iface
           list == hash[i][1].ports
<1>1. i \in Interfaces
  BY RegistryAssumption DEF Query
<1>2. ~stale /\ Fresh(i)
  BY FreshType DEF query_get_candidates
<1>3. ListExact(hash[i], Offered(components, i))
  BY <1>1, <1>2 DEF Exact, Sound, InterfaceExact
<1>4. Providing(i) = Offered(components, i)
  BY ProvidingOffered DEF TypeInv, ComponentsOK
<1>5. Hits(i) = IF hash[i] = <<>> THEN {0} ELSE {1}
  BY <1>1, <1>2, <1>3, HitsFresh DEF ListExact
<1>6. PICK e \in Hits(i) :
        /\ fault' = Danger(i, e)
        /\ found' = IF e = 0 \/ fault' # "none" THEN <<>> ELSE Matching(query, hash[i][e].ports)
  BY DEF query_get_candidates
<1>7. CASE hash[i] = <<>>
  <2>1. found' = <<>> /\ Providing(i) = {}
    BY <1>3, <1>4, <1>5, <1>6, <1>7 DEF ListExact
  <2>2. ToSet(<<>>) = {}
    BY DEF ToSet
  <2> QED
    BY <2>1, <2>2
<1>8. CASE hash[i] # <<>>
  <2>1. 1 \in DOMAIN hash[i]
    BY <1>1, <1>8, HashType, EmptySeq
  <2>2. found' = Matching(query, list) /\ ToSet(list) = Providing(i)
    BY <1>3, <1>4, <1>5, <1>6, <1>8 DEF ListExact
  <2>3. list \in Seq(Refs(components)) /\ Ordered(list)
        /\ \A k \in DOMAIN list : list[k][1] \in Nat
    BY <1>1, <2>1, ListsType DEF InOrder
  <2> HIDE DEF list
  <2>4. /\ ToSet(found') = {p \in ToSet(list) : query_match_provider(query, p)}
        /\ \A j, k \in DOMAIN found' : j < k =>
             \E a, b \in DOMAIN list : a < b /\ found'[j] = list[a] /\ found'[k] = list[b]
    BY <2>2, <2>3, MatchingElements
  <2>5. \A j, k \in DOMAIN found' : j < k => found'[j][1] <= found'[k][1]
    BY <2>3, <2>4 DEF Ordered
  <2> QED
    BY <2>2, <2>4, <2>5
<1> QED
  BY <1>7, <1>8

LEMMA MatchesMeant ==
  ASSUME TypeInv, NEW query \in Queries, NEW p \in Providing(query.iface)
  PROVE  query_match_provider(query, p) <=> Fits(query, p)
<1> DEFINE port == components[p[1]].ports[p[2]]
<1>1. components \in Seq(Component) /\ query \in Query
  BY RegistryAssumption DEF TypeInv, ComponentsOK
<1>2. p[1] \in DOMAIN components /\ p[2] \in DOMAIN components[p[1]].ports /\ port.iface = query.iface
  <2> DEFINE ports(id) == {k \in DOMAIN components[id].ports :
                             LET c == components[id]
                             IN  /\ k > c.freed
                                 /\ c.ports[k].provided /\ c.ports[k].iface = query.iface
                                 /\ k \notin c.orphans \cup c.unlinked}
  <2>1. PICK id \in DOMAIN components : p \in {id} \X ports(id)
    BY DEF Providing
  <2>2. p[1] = id /\ p[2] \in ports(id)
    BY <2>1
  <2> QED
    BY <2>2
<1>3. components[p[1]].ports \in Seq(Port)
  <2>1. components[p[1]] \in Component
    BY <1>1, <1>2, ElementOfSeq
  <2> QED
    BY <2>1 DEF Component
<1>4. port \in Port
  BY <1>2, <1>3, ElementOfSeq
<1>5. port.minor \in Nat /\ query.minor \in Nat
  BY <1>1, <1>4 DEF Port, Query
<1> QED
  BY <1>2, <1>5 DEF query_match_provider, interfaces_match, Fits

\* A query misses no port that provides its interface in a version that fits, from
\* the server and under the port it names if it names them, and finds none of another
\* interface, version or server, in the order in which the components were loaded,
\* as long as no freed name was compared (query_get_candidates,
\* query_match_provider, interfaces_match).
THEOREM QueryCorrect == RegistrySpec => QueryComplete
<1>1. TypeInv /\ Exact /\ InOrder /\ [RegistryNext]_vars =>
        [\A query \in Queries :
           query_get_candidates(query) /\ fault' = "none" /\ ~stale' =>
             LET fitting == {p \in Providing(query.iface) : Fits(query, p)}
             IN  /\ {p \in fitting : Targeted(query, p)} \subseteq ToSet(found')
                 /\ ToSet(found') \subseteq fitting
                 /\ \A j, k \in DOMAIN found' : j < k => found'[j][1] <= found'[k][1]]_vars
  <2> SUFFICES ASSUME TypeInv, Exact, InOrder, RegistryNext, NEW query \in Queries,
                      query_get_candidates(query), fault' = "none", ~stale'
               PROVE  /\ ToSet(found') = {p \in Providing(query.iface) : Fits(query, p)}
                      /\ \A j, k \in DOMAIN found' : j < k => found'[j][1] <= found'[k][1]
    OBVIOUS
  <2>1. UNCHANGED <<version, crashes>>
    BY DEF query_get_candidates, persistent
  <2>2. ASSUME NEW l \in Libraries, Upgrade(l) PROVE FALSE
    <3>1. version' = [version EXCEPT ![l] = @ + 1] /\ version \in [Libraries -> Nat]
      BY <2>2 DEF Upgrade, TypeInv, InstalledOK
    <3>2. version'[l] = version[l] + 1 /\ version[l] \in Nat
      BY <3>1
    <3> QED
      BY <2>1, <3>2
  <2>3. ~Crash
    BY <2>1 DEF Crash, TypeInv, InstalledOK
  <2>4. fault = "none"
    BY <2>2, <2>3 DEF RegistryNext, Continue, Calls
  <2>5. /\ ToSet(found') = {p \in Providing(query.iface) : query_match_provider(query, p)}
        /\ \A j, k \in DOMAIN found' : j < k => found'[j][1] <= found'[k][1]
    BY <2>4, CandidatesFound
  <2>6. \A p \in Providing(query.iface) : query_match_provider(query, p) <=> Fits(query, p)
    BY MatchesMeant
  <2> QED
    BY <2>5, <2>6
<1> QED
  BY <1>1, TypeInvHolds, ExactHolds, InOrderHolds, PTL DEF RegistrySpec, QueryComplete
=============================================================================
