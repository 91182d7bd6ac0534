--------------------------- MODULE HandleDirProofs ---------------------------
(***************************************************************************)
(* What TLAPS proves about HandleDir for every size of pages and directory *)
(* and every set of objects.                                               *)
(***************************************************************************)
EXTENDS HandleDir, FiniteSets, SequenceTheorems, FunctionTheorems,
        FiniteSetTheorems, TLAPS

-----------------------------------------------------------------------------
(* Arithmetic of handles *)

\* A product with a larger factor is larger by one divisor at least.
LEMMA Stride ==
  ASSUME NEW D \in Nat \ {0}, NEW s \in Nat, NEW t \in Nat, s < t
  PROVE  s * D + D <= t * D
  <1>1. PICK k \in Nat : t = s + 1 + k
    <2> t - s - 1 \in Nat
      OBVIOUS
    <2> QED BY t = s + 1 + (t - s - 1)
  <1>2. t * D = s * D + D + k * D
    BY <1>1
  <1>3. k * D \in Nat
    OBVIOUS
  <1>4. s * D \in Nat /\ t * D \in Nat
    OBVIOUS
  <1> QED BY <1>2, <1>3, <1>4

LEMMA DivideStep ==
  ASSUME NEW D \in Nat \ {0}, NEW n \in Nat
  PROVE  /\ n \div D \in Nat
         /\ n % D \in 0 .. D - 1
         /\ n = (n \div D) * D + (n % D)
  OBVIOUS

LEMMA Quotient ==
  ASSUME NEW D \in Nat \ {0}, NEW s \in Nat, NEW i \in 0 .. D - 1
  PROVE  (i + s * D) \div D = s /\ (i + s * D) % D = i
  <1> DEFINE n == i + s * D
             q == n \div D
             r == n % D
  <1>1. n \in Nat /\ s * D \in Nat
    OBVIOUS
  <1>2. q \in Nat /\ r \in 0 .. D - 1 /\ n = q * D + r
    BY <1>1, DivideStep
  <1>3. q * D \in Nat
    BY <1>2
  <1>4. CASE q < s
    <2>1. q * D + D <= s * D
      BY <1>2, <1>4, Stride
    <2> QED BY <1>1, <1>2, <1>3, <2>1
  <1>5. CASE s < q
    <2>1. s * D + D <= q * D
      BY <1>2, <1>5, Stride
    <2> QED BY <1>1, <1>2, <1>3, <2>1
  <1>6. CASE q = s
    BY <1>1, <1>2, <1>6
  <1> QED BY <1>2, <1>4, <1>5, <1>6

LEMMA Sizes ==
  /\ NumEntries \in Nat /\ NumPages \in Nat /\ PageDiv \in Nat \ {0} /\ MaxHandle \in Nat
  /\ 1 < NumEntries /\ NumEntries <= PageDiv /\ 0 < NumPages
  /\ NumPages * PageDiv <= MaxHandle
  BY HandleAssumption

LEMMA DecrementType ==
  ASSUME NEW h \in Handles
  PROVE  /\ Decrement(h) \in Nat
         /\ SlotOf(h) \in Nat /\ IndexOf(h) \in 0 .. PageDiv - 1
         /\ Decrement(h) = SlotOf(h) * PageDiv + IndexOf(h)
  <1>1. Decrement(h) \in Nat
    BY Sizes DEF Handles, Decrement
  <1> QED BY <1>1, Sizes, DivideStep DEF SlotOf, IndexOf

\* The invalid handle names no slot: unsigned arithmetic makes it the largest.
LEMMA InvalidHandle == SlotOf(0) \in Nat /\ SlotOf(0) >= NumPages
  <1>1. 0 \in Handles
    BY Sizes DEF Handles
  <1>2. /\ SlotOf(0) \in Nat /\ IndexOf(0) \in 0 .. PageDiv - 1
        /\ MaxHandle = SlotOf(0) * PageDiv + IndexOf(0)
    BY <1>1, DecrementType DEF Decrement
  <1>3. ASSUME SlotOf(0) < NumPages PROVE FALSE
    <2>1. SlotOf(0) * PageDiv + PageDiv <= NumPages * PageDiv
      BY <1>2, <1>3, Sizes, Stride
    <2>2. SlotOf(0) * PageDiv \in Nat /\ NumPages * PageDiv \in Nat
      BY <1>2, Sizes
    <2> QED BY <1>2, <2>1, <2>2, Sizes
  <1> QED BY <1>2, <1>3, Sizes

\* The handle of an entry is valid and leads back to the entry.
LEMMA HandleOfEntry ==
  ASSUME NEW s \in Slots, NEW i \in Indices
  PROVE  /\ HandleOf(s, i) \in Handles \ {0}
         /\ SlotOf(HandleOf(s, i)) = s /\ IndexOf(HandleOf(s, i)) = i
  <1>1. s \in Nat /\ s < NumPages /\ i \in 0 .. PageDiv - 1 /\ s * PageDiv \in Nat
    BY Sizes DEF Slots, Indices
  <1>2. s * PageDiv + PageDiv <= NumPages * PageDiv /\ NumPages * PageDiv \in Nat
    BY <1>1, Sizes, Stride
  <1>3. HandleOf(s, i) \in Handles \ {0}
    BY <1>1, <1>2, Sizes DEF HandleOf, Handles
  <1>4. Decrement(HandleOf(s, i)) = i + s * PageDiv
    BY <1>1, <1>3 DEF HandleOf, Decrement
  <1> QED BY <1>1, <1>3, <1>4, Sizes, Quotient DEF SlotOf, IndexOf

\* Two handles never name the same entry.
LEMMA HandleInjective ==
  ASSUME NEW g \in Handles, NEW h \in Handles,
         SlotOf(g) = SlotOf(h), IndexOf(g) = IndexOf(h)
  PROVE  g = h
  <1>1. Decrement(g) = Decrement(h)
    BY DecrementType
  <1> QED BY <1>1, Sizes DEF Decrement, Handles

-----------------------------------------------------------------------------
(* Chains and lists *)

LEMMA TailElements ==
  ASSUME NEW S, NEW s \in Seq(S), s # <<>>, NoTwice(s)
  PROVE  /\ Tail(s) \in Seq(S) /\ NoTwice(Tail(s)) /\ Len(Tail(s)) = Len(s) - 1
         /\ Head(s) \in S /\ Head(s) \in Elements(s)
         /\ Elements(Tail(s)) = Elements(s) \ {Head(s)}
  <1>1. /\ Tail(s) \in Seq(S) /\ Len(Tail(s)) = Len(s) - 1 /\ Len(s) \in Nat \ {0}
        /\ \A k \in 1 .. Len(s) - 1 : Tail(s)[k] = s[k + 1]
        /\ Head(s) = s[1] /\ DOMAIN s = 1 .. Len(s) /\ DOMAIN Tail(s) = 1 .. Len(s) - 1
    BY HeadTailProperties
  <1>2. NoTwice(Tail(s))
    <2> SUFFICES ASSUME NEW j \in 1 .. Len(s) - 1, NEW k \in 1 .. Len(s) - 1,
                        s[j + 1] = s[k + 1]
                 PROVE  j = k
      BY <1>1 DEF NoTwice
    <2> QED BY <1>1 DEF NoTwice
  <1>3. ASSUME NEW x \in Elements(Tail(s)) PROVE x \in Elements(s) \ {Head(s)}
    <2>1. PICK k \in 1 .. Len(s) - 1 : x = s[k + 1]
      BY <1>1, <1>3 DEF Elements
    <2>2. k + 1 \in DOMAIN s /\ 1 \in DOMAIN s /\ k + 1 # 1
      BY <1>1
    <2> QED BY <1>1, <2>1, <2>2 DEF Elements, NoTwice
  <1>4. ASSUME NEW x \in Elements(s), x # Head(s) PROVE x \in Elements(Tail(s))
    <2>1. PICK k \in DOMAIN s : x = s[k]
      BY <1>4 DEF Elements
    <2>2. k - 1 \in 1 .. Len(s) - 1 /\ (k - 1) + 1 = k
      BY <1>1, <1>4, <2>1
    <2> QED BY <1>1, <2>1, <2>2 DEF Elements
  <1>5. Head(s) \in S /\ Head(s) \in Elements(s)
    <2>1. 1 \in DOMAIN s
      BY <1>1
    <2> QED BY <1>1, <2>1 DEF Elements
  <1> QED BY <1>1, <1>2, <1>3, <1>4, <1>5

LEMMA ConsElements ==
  ASSUME NEW S, NEW s \in Seq(S), NEW x \in S, NoTwice(s), x \notin Elements(s)
  PROVE  /\ <<x>> \o s \in Seq(S) /\ NoTwice(<<x>> \o s) /\ Len(<<x>> \o s) = Len(s) + 1
         /\ Elements(<<x>> \o s) = Elements(s) \cup {x} /\ <<x>> \o s # <<>>
  <1> DEFINE t == <<x>> \o s
  <1>1. /\ t \in Seq(S) /\ Len(t) = Len(s) + 1 /\ Len(s) \in Nat
        /\ DOMAIN s = 1 .. Len(s) /\ DOMAIN t = 1 .. Len(s) + 1
        /\ t[1] = x /\ \A k \in 1 .. Len(s) : t[k + 1] = s[k]
    OBVIOUS
  <1>2. t # <<>>
    BY <1>1
  <1> HIDE DEF t
  <1>3. ASSUME NEW k \in 1 .. Len(s) + 1, k # 1
        PROVE  k - 1 \in DOMAIN s /\ t[k] = s[k - 1]
    <2>1. k - 1 \in 1 .. Len(s) /\ (k - 1) + 1 = k
      BY <1>1, <1>3
    <2> QED BY <1>1, <2>1
  <1>4. NoTwice(t)
    <2> SUFFICES ASSUME NEW j \in 1 .. Len(s) + 1, NEW k \in 1 .. Len(s) + 1, t[j] = t[k]
                 PROVE  j = k
      BY <1>1 DEF NoTwice
    <2>1. CASE j = 1 /\ k = 1
      BY <2>1
    <2>2. CASE j = 1 /\ k # 1
      BY <1>1, <1>3, <2>2 DEF Elements
    <2>3. CASE j # 1 /\ k = 1
      BY <1>1, <1>3, <2>3 DEF Elements
    <2>4. CASE j # 1 /\ k # 1
      <3>1. j - 1 = k - 1
        BY <1>3, <2>4 DEF NoTwice
      <3> QED BY <3>1
    <2> QED BY <2>1, <2>2, <2>3, <2>4
  <1>5. ASSUME NEW y \in Elements(t) PROVE y \in Elements(s) \cup {x}
    <2>1. PICK k \in 1 .. Len(s) + 1 : y = t[k]
      BY <1>1, <1>5 DEF Elements
    <2> QED BY <1>1, <1>3, <2>1 DEF Elements
  <1>6. ASSUME NEW y \in Elements(s) \cup {x} PROVE y \in Elements(t)
    <2>1. CASE y = x
      BY <1>1, <2>1 DEF Elements
    <2>2. CASE y # x
      <3>1. PICK k \in 1 .. Len(s) : y = s[k]
        BY <1>1, <1>6, <2>2 DEF Elements
      <3>2. k + 1 \in DOMAIN t
        BY <1>1
      <3> QED BY <1>1, <3>1, <3>2 DEF Elements
    <2> QED BY <2>1, <2>2
  <1>7. Elements(t) = Elements(s) \cup {x}
    BY <1>5, <1>6
  <1> QED BY <1>1, <1>2, <1>4, <1>7 DEF t

\* XC_CLIST_REMOVE takes one element off, and keeps the others.
LEMMA UnlinkElements ==
  ASSUME NEW S, NEW s \in Seq(S), NoTwice(s), NEW x \in Elements(s)
  PROVE  /\ Unlink(s, x) \in Seq(S) /\ NoTwice(Unlink(s, x))
         /\ Elements(Unlink(s, x)) = Elements(s) \ {x}
  <1> DEFINE at == CHOOSE k \in DOMAIN s : s[k] = x
             n == Len(s)
             t == Unlink(s, x)
  <1>1. /\ at \in 1 .. n /\ s[at] = x /\ n \in Nat \ {0} /\ DOMAIN s = 1 .. n
        /\ \A k \in 1 .. n : s[k] \in S /\ s[k] \in Elements(s)
    <2>1. DOMAIN s = 1 .. n /\ n \in Nat /\ \A k \in 1 .. n : s[k] \in S
      OBVIOUS
    <2>2. \E k \in DOMAIN s : s[k] = x
      BY DEF Elements
    <2>3. at \in DOMAIN s /\ s[at] = x
      BY <2>2
    <2>4. n # 0
      BY <2>1, <2>3
    <2> QED BY <2>1, <2>3, <2>4 DEF Elements
  <1>2. t = [k \in 1 .. n - 1 |-> IF k < at THEN s[k] ELSE s[k + 1]]
    BY DEF Unlink
  <1> HIDE DEF at, n, t
  <1>3. \A k \in 1 .. n - 1 : t[k] = s[IF k < at THEN k ELSE k + 1]
    BY <1>1, <1>2
  <1>4. t \in Seq(S) /\ DOMAIN t = 1 .. n - 1
    <2>1. \A k \in 1 .. n - 1 : (IF k < at THEN s[k] ELSE s[k + 1]) \in S
      BY <1>1
    <2>2. n - 1 \in Nat
      BY <1>1
    <2> QED BY <1>2, <2>1, <2>2
  <1>5. NoTwice(t)
    <2> SUFFICES ASSUME NEW j \in 1 .. n - 1, NEW k \in 1 .. n - 1, t[j] = t[k]
                 PROVE  j = k
      BY <1>4 DEF NoTwice
    <2> DEFINE a == IF j < at THEN j ELSE j + 1
               b == IF k < at THEN k ELSE k + 1
    <2>1. a \in DOMAIN s /\ b \in DOMAIN s /\ s[a] = s[b]
      BY <1>1, <1>3
    <2>2. a = b
      BY <2>1 DEF NoTwice
    <2> QED BY <1>1, <2>2
  <1>6. ASSUME NEW y \in Elements(t) PROVE y \in Elements(s) \ {x}
    <2>1. PICK k \in 1 .. n - 1 : y = t[k]
      BY <1>4, <1>6 DEF Elements
    <2> DEFINE a == IF k < at THEN k ELSE k + 1
    <2>2. a \in DOMAIN s /\ a # at /\ y = s[a]
      BY <1>1, <1>3, <2>1
    <2> QED BY <1>1, <2>2 DEF NoTwice, Elements
  <1>7. ASSUME NEW y \in Elements(s), y # x PROVE y \in Elements(t)
    <2>1. PICK a \in 1 .. n : y = s[a]
      BY <1>1, <1>7 DEF Elements
    <2>2. a # at
      BY <1>1, <1>7, <2>1
    <2> DEFINE k == IF a < at THEN a ELSE a - 1
    <2>3. k \in 1 .. n - 1 /\ a = IF k < at THEN k ELSE k + 1
      BY <1>1, <2>2
    <2> QED BY <1>3, <1>4, <2>1, <2>3 DEF Elements
  <1> QED BY <1>4, <1>5, <1>6, <1>7 DEF t

\* The chains that init_dir and init_page make.
LEMMA CountingChain ==
  ASSUME NEW n \in Nat \ {0}
  PROVE  LET s == [k \in 1 .. n |-> k - 1]
         IN  /\ s \in Seq(0 .. n - 1) /\ NoTwice(s) /\ Len(s) = n /\ s # <<>>
             /\ Elements(s) = 0 .. n - 1
  <1> DEFINE s == [k \in 1 .. n |-> k - 1]
  <1>1. s \in Seq(0 .. n - 1) /\ Len(s) = n /\ DOMAIN s = 1 .. n
    OBVIOUS
  <1>2. NoTwice(s)
    BY DEF NoTwice
  <1>3. ASSUME NEW i \in 0 .. n - 1 PROVE i \in Elements(s)
    <2>1. i + 1 \in DOMAIN s /\ s[i + 1] = i
      OBVIOUS
    <2> QED BY <2>1 DEF Elements
  <1>4. Elements(s) \subseteq 0 .. n - 1
    BY DEF Elements
  <1>5. s # <<>>
    BY <1>1
  <1> QED BY <1>1, <1>2, <1>3, <1>4, <1>5

-----------------------------------------------------------------------------
(* Free slots and entries *)

\* The strengthening: a directory that was destroyed has no page left.
Destroyed == ~alive => \A s \in Slots : entry[s] = NoPage

HandleDirInv == HandleDirTypeOK /\ FreeExact /\ Destroyed

\* What EntriesExact says of one page.
PageExact(page) ==
  /\ NoTwice(page.first)
  /\ Elements(page.first) = {i \in Indices : page.entry[i] = NoObject}
  /\ page.usage + Len(page.first) = NumEntries

LEMMA Ranges == Slots \subseteq Nat /\ Indices \subseteq Nat /\ Slots # {} /\ 0 \in Handles
  BY Sizes DEF Slots, Indices, Handles

LEMMA EmptyPageExact ==
  EmptyPage \in Page /\ PageExact(EmptyPage) /\ EmptyPage.first # <<>>
  <1> DEFINE s == [k \in 1 .. NumEntries |-> k - 1]
  <1>1. /\ s \in Seq(Indices) /\ NoTwice(s) /\ Len(s) = NumEntries /\ s # <<>>
        /\ Elements(s) = Indices
    BY Sizes, CountingChain DEF Indices
  <1> HIDE DEF s
  <1> DEFINE e == [i \in Indices |-> NoObject]
  <1>2. e \in [Indices -> Objects \cup {NoObject}] /\ {i \in Indices : e[i] = NoObject} = Indices
    OBVIOUS
  <1> HIDE DEF e
  <1>3. EmptyPage = [first |-> s, usage |-> 0, entry |-> e]
    BY DEF EmptyPage, s, e
  <1> QED BY <1>1, <1>2, <1>3, Sizes DEF Page, PageExact

LEMMA AllSlotsExact ==
  AllSlots \in Seq(Slots) /\ NoTwice(AllSlots) /\ Elements(AllSlots) = Slots
  BY Sizes, CountingChain DEF AllSlots, Slots

\* Taking an entry of a page that has a free one.
LEMMA TakeExact ==
  ASSUME HandleDirInv, NEW slot \in Slots, NEW page \in Page, NEW o \in Objects,
         NEW list \in Seq(Slots), PageExact(page), page.first # <<>>,
         NoTwice(list), list # <<>>, Head(list) = slot,
         Elements(list) = {slot} \cup {s \in Slots : entry[s] # NoPage /\ entry[s].first # <<>>},
         Take(slot, page, o, list)
  PROVE  /\ entry' \in [Slots -> Page \cup {NoPage}] /\ entry'[slot] # NoPage
         /\ \A s \in Slots \ {slot} : entry'[s] = entry[s]
         /\ pages' \in Seq(Slots) /\ PagesExact' /\ EntriesExact'
         /\ answer' \in Handles
  <1> DEFINE index == Head(page.first)
             taken == [first |-> Tail(page.first), usage |-> page.usage + 1,
                       entry |-> [page.entry EXCEPT ![index] = o]]
  <1>1. page.first \in Seq(Indices) /\ page.usage \in Nat
        /\ page.entry \in [Indices -> Objects \cup {NoObject}]
    BY DEF Page
  <1>2. /\ Tail(page.first) \in Seq(Indices) /\ NoTwice(Tail(page.first))
        /\ Len(Tail(page.first)) = Len(page.first) - 1
        /\ index \in Indices
        /\ Elements(Tail(page.first)) = Elements(page.first) \ {index}
    BY <1>1, TailElements DEF PageExact
  <1>3. taken.first = Tail(page.first) /\ taken.usage = page.usage + 1
        /\ taken.entry = [page.entry EXCEPT ![index] = o]
    OBVIOUS
  <1>4. taken \in Page
    BY <1>1, <1>2 DEF Page
  <1>5. taken # NoPage
    BY <1>4, PageAssumption
  <1> HIDE DEF taken
  <1>6. NoObject # o
    BY ObjectAssumption
  <1>7. Elements(taken.first) = {i \in Indices : taken.entry[i] = NoObject}
    BY <1>1, <1>2, <1>3, <1>6 DEF PageExact
  <1>8. taken.usage + Len(taken.first) = NumEntries /\ taken.usage > 0
    <2> DEFINE u == page.usage
               n == Len(page.first)
    <2>1. /\ u \in Nat /\ n \in Nat /\ u + n = NumEntries
          /\ taken.usage = u + 1 /\ Len(taken.first) = n - 1
      BY <1>1, <1>2, <1>3 DEF PageExact
    <2> HIDE DEF u, n
    <2> QED BY <2>1, Sizes
  <1>9. entry \in [Slots -> Page \cup {NoPage}] /\ entry' = [entry EXCEPT ![slot] = taken]
    BY DEF HandleDirInv, HandleDirTypeOK, Take, taken
  <1>10. entry'[slot] = taken /\ \A s \in Slots \ {slot} : entry'[s] = entry[s]
    BY <1>9
  <1>11. entry' \in [Slots -> Page \cup {NoPage}]
    BY <1>4, <1>9
  <1>12. EntriesExact'
    <2> SUFFICES ASSUME NEW s \in Slots, entry'[s] # NoPage
                 PROVE  /\ NoTwice(entry'[s].first)
                        /\ Elements(entry'[s].first)
                             = {i \in Indices : entry'[s].entry[i] = NoObject}
                        /\ entry'[s].usage + Len(entry'[s].first) = NumEntries
                        /\ entry'[s].usage > 0
      BY DEF EntriesExact, NoTwice, Elements
    <2>1. CASE s = slot
      BY <1>2, <1>3, <1>7, <1>8, <1>10, <2>1
    <2>2. CASE s # slot
      BY <1>10, <2>2 DEF HandleDirInv, FreeExact, EntriesExact
    <2> QED BY <2>1, <2>2
  <1>13. pages' \in Seq(Slots) /\ PagesExact'
    <2>1. /\ Tail(list) \in Seq(Slots) /\ NoTwice(Tail(list))
          /\ Elements(Tail(list)) = Elements(list) \ {slot}
      BY TailElements
    <2>2. CASE taken.first = <<>>
      <3>1. pages' = Tail(list)
        BY <1>3, <2>2 DEF Take
      <3> QED BY <1>10, <2>1, <2>2, <3>1 DEF PagesExact, NoTwice, Elements
    <2>3. CASE taken.first # <<>>
      <3>1. pages' = list
        BY <1>3, <2>3 DEF Take
      <3> QED BY <1>5, <1>10, <2>3, <3>1 DEF PagesExact, NoTwice, Elements
    <2> QED BY <2>2, <2>3
  <1>14. answer' \in Handles
    BY <1>2, HandleOfEntry DEF Take
  <1> QED BY <1>5, <1>10, <1>11, <1>12, <1>13, <1>14

LEMMA PushInv ==
  ASSUME HandleDirInv, NEW o \in Objects, handle_dir_push(o)
  PROVE  HandleDirInv'
  <1>1. CASE PushOnPage(o)
    <2> DEFINE slot == Head(pages)
    <2>1. alive' = alive /\ first' = first /\ alive /\ pages # <<>>
          /\ Take(slot, entry[slot], o, pages)
      BY <1>1 DEF PushOnPage
    <2>2. slot \in Slots /\ slot \in Elements(pages)
      BY <2>1, TailElements DEF HandleDirInv, HandleDirTypeOK, FreeExact, PagesExact
    <2>3. entry[slot] # NoPage /\ entry[slot].first # <<>>
      BY <2>2 DEF HandleDirInv, FreeExact, PagesExact
    <2>4. entry[slot] \in Page /\ PageExact(entry[slot])
      BY <2>2, <2>3
      DEF HandleDirInv, HandleDirTypeOK, FreeExact, EntriesExact, PageExact
    <2>5. /\ entry' \in [Slots -> Page \cup {NoPage}] /\ entry'[slot] # NoPage
          /\ \A s \in Slots \ {slot} : entry'[s] = entry[s]
          /\ pages' \in Seq(Slots) /\ PagesExact' /\ EntriesExact'
          /\ answer' \in Handles
      <3>1. /\ pages \in Seq(Slots) /\ NoTwice(pages)
            /\ Elements(pages) = {slot} \cup
                 {s \in Slots : entry[s] # NoPage /\ entry[s].first # <<>>}
        BY <2>2 DEF HandleDirInv, HandleDirTypeOK, FreeExact, PagesExact
      <3> HIDE DEF slot
      <3>2. Head(pages) = slot
        BY DEF slot
      <3> QED BY <2>1, <2>2, <2>3, <2>4, <3>1, <3>2, TakeExact
    <2>6. SlotsExact'
      BY <2>1, <2>3, <2>5 DEF HandleDirInv, FreeExact, SlotsExact, NoTwice, Elements
    <2> QED BY <2>1, <2>5, <2>6
        DEF HandleDirInv, HandleDirTypeOK, FreeExact, Destroyed
  <1>2. CASE PushOnNewPage(o)
    <2> DEFINE slot == Head(first)
               list == <<slot>>
    <2>1. alive' = alive /\ first' = Tail(first) /\ alive /\ pages = <<>> /\ first # <<>>
          /\ Take(slot, EmptyPage, o, list)
      BY <1>2 DEF PushOnNewPage
    <2>2. /\ slot \in Slots /\ slot \in Elements(first) /\ NoTwice(Tail(first))
          /\ Tail(first) \in Seq(Slots) /\ Elements(Tail(first)) = Elements(first) \ {slot}
      BY <2>1, TailElements DEF HandleDirInv, HandleDirTypeOK, FreeExact, SlotsExact
    <2>3. entry[slot] = NoPage
      BY <2>1, <2>2 DEF HandleDirInv, FreeExact, SlotsExact
    <2>4. Elements(pages) = {}
      BY <2>1 DEF Elements
    <2> HIDE DEF slot
    <2>5. /\ list \in Seq(Slots) /\ NoTwice(list) /\ list # <<>> /\ Head(list) = slot
          /\ Elements(list) = {slot}
      BY <2>2 DEF NoTwice, Elements
    <2>6. Elements(list) = {slot} \cup
            {s \in Slots : entry[s] # NoPage /\ entry[s].first # <<>>}
      BY <2>4, <2>5 DEF HandleDirInv, FreeExact, PagesExact
    <2> HIDE DEF list
    <2>7. /\ entry' \in [Slots -> Page \cup {NoPage}] /\ entry'[slot] # NoPage
          /\ \A s \in Slots \ {slot} : entry'[s] = entry[s]
          /\ pages' \in Seq(Slots) /\ PagesExact' /\ EntriesExact'
          /\ answer' \in Handles
      BY <2>1, <2>2, <2>5, <2>6, EmptyPageExact, TakeExact
    <2>8. SlotsExact'
      <3>1. Elements(first) = {s \in Slots : entry[s] = NoPage}
        BY <2>1 DEF HandleDirInv, FreeExact, SlotsExact
      <3>2. {s \in Slots : entry'[s] = NoPage} = {s \in Slots : entry[s] = NoPage} \ {slot}
        BY <2>2, <2>7
      <3>3. Elements(first') = {s \in Slots : entry'[s] = NoPage} /\ NoTwice(first')
        BY <2>1, <2>2, <3>1, <3>2
      <3> QED BY <3>3 DEF SlotsExact, NoTwice, Elements
    <2> QED BY <2>1, <2>2, <2>7, <2>8
        DEF HandleDirInv, HandleDirTypeOK, FreeExact, Destroyed
  <1>3. CASE PushOutOfMemory \/ PushNoSlot
    <2>1. /\ UNCHANGED <<alive, first, pages, entry>> /\ answer' \in Handles
      BY <1>3, Ranges DEF PushOutOfMemory, PushNoSlot
    <2> QED BY <2>1 DEF HandleDirInv, HandleDirTypeOK, FreeExact, SlotsExact, PagesExact,
                       EntriesExact, Destroyed, NoTwice, Elements
  <1> QED BY <1>1, <1>2, <1>3 DEF handle_dir_push

\* A handle that names something names an entry of a page.
LEMMA PresentEntry ==
  ASSUME HandleDirTypeOK, NEW h \in Handles, Present(h)
  PROVE  /\ SlotOf(h) \in Slots /\ IndexOf(h) \in Indices
         /\ entry[SlotOf(h)] \in Page /\ entry[SlotOf(h)] # NoPage
         /\ entry[SlotOf(h)].entry[IndexOf(h)] # NoObject
  <1>1. SlotOf(h) \in Slots /\ IndexOf(h) \in Indices
    BY DecrementType, Sizes DEF Present, Slots, Indices
  <1> QED BY <1>1 DEF Present, HandleDirTypeOK

\* The chain of a page that has an entry in use is not full.
LEMMA FreedExact ==
  ASSUME NEW page \in Page, PageExact(page), NEW i \in Indices, page.entry[i] # NoObject,
         page.usage > 1
  PROVE  LET freed == [first |-> <<i>> \o page.first, usage |-> page.usage - 1,
                       entry |-> [page.entry EXCEPT ![i] = NoObject]]
         IN  /\ freed \in Page /\ PageExact(freed) /\ freed.usage > 0
             /\ freed.first # <<>> /\ freed.usage = page.usage - 1
             /\ freed.usage = NumEntries - 1 <=> page.first = <<>>
  <1> DEFINE s == <<i>> \o page.first
             e == [page.entry EXCEPT ![i] = NoObject]
             freed == [first |-> s, usage |-> page.usage - 1, entry |-> e]
  <1>1. /\ page.first \in Seq(Indices) /\ page.usage \in Nat
        /\ page.entry \in [Indices -> Objects \cup {NoObject}]
        /\ NoTwice(page.first) /\ i \notin Elements(page.first)
        /\ Elements(page.first) = {k \in Indices : page.entry[k] = NoObject}
        /\ page.usage + Len(page.first) = NumEntries
    BY DEF Page, PageExact
  <1>2. /\ s \in Seq(Indices) /\ NoTwice(s) /\ Len(s) = Len(page.first) + 1
        /\ Elements(s) = Elements(page.first) \cup {i} /\ s # <<>>
    BY <1>1, ConsElements
  <1> HIDE DEF s
  <1>3. /\ e \in [Indices -> Objects \cup {NoObject}]
        /\ {k \in Indices : e[k] = NoObject} = {k \in Indices : page.entry[k] = NoObject} \cup {i}
    BY <1>1
  <1> HIDE DEF e
  <1>4. page.usage - 1 \in Nat /\ page.usage - 1 > 0
    BY <1>1
  <1>5. freed \in Page /\ freed.first = s /\ freed.usage = page.usage - 1 /\ freed.entry = e
    BY <1>2, <1>3, <1>4 DEF Page
  <1> HIDE DEF freed
  <1>6. Len(page.first) \in Nat /\ (page.first = <<>> <=> Len(page.first) = 0)
    BY <1>1
  <1>7. freed.usage + Len(freed.first) = NumEntries
        /\ (freed.usage = NumEntries - 1 <=> page.first = <<>>)
    <2> DEFINE u == page.usage
               n == Len(page.first)
    <2>1. /\ u \in Nat /\ n \in Nat /\ u + n = NumEntries
          /\ freed.usage = u - 1 /\ Len(freed.first) = n + 1
          /\ (page.first = <<>> <=> n = 0)
      BY <1>1, <1>2, <1>5, <1>6
    <2> HIDE DEF u, n
    <2> QED BY <2>1, Sizes
  <1>8. PageExact(freed)
    BY <1>1, <1>2, <1>3, <1>5, <1>7 DEF PageExact
  <1> QED BY <1>2, <1>4, <1>5, <1>7, <1>8 DEF freed, s, e

LEMMA RemoveInv ==
  ASSUME HandleDirInv, NEW h \in Handles, handle_dir_remove(h)
  PROVE  HandleDirInv'
  <1> DEFINE s == SlotOf(h)
             i == IndexOf(h)
             page == entry[s]
  <1>1. CASE RemoveEntry(h)
    <2> DEFINE freed == [first |-> <<i>> \o page.first, usage |-> page.usage - 1,
                         entry |-> [page.entry EXCEPT ![i] = NoObject]]
    <2>1. /\ s \in Slots /\ i \in Indices /\ page \in Page /\ page # NoPage
          /\ page.entry[i] # NoObject /\ page.usage > 1 /\ alive
      BY <1>1, PresentEntry DEF RemoveEntry, HandleDirInv
    <2>2. PageExact(page)
      BY <2>1 DEF HandleDirInv, FreeExact, EntriesExact, PageExact
    <2>3. /\ freed \in Page /\ PageExact(freed) /\ freed.usage > 0 /\ freed.first # <<>>
          /\ freed.usage = NumEntries - 1 <=> page.first = <<>>
      BY <2>1, <2>2, FreedExact
    <2>4. /\ entry' = [entry EXCEPT ![s] = freed] /\ answer' = 0
          /\ pages' = IF freed.usage = NumEntries - 1 THEN <<s>> \o pages ELSE pages
          /\ UNCHANGED <<alive, first>>
      BY <1>1 DEF RemoveEntry
    <2> HIDE DEF freed, page, s, i
    <2>5. page = entry[s] /\ freed # NoPage
      BY <2>3, PageAssumption DEF page
    <2>6. /\ entry \in [Slots -> Page \cup {NoPage}] /\ pages \in Seq(Slots)
          /\ PagesExact /\ EntriesExact /\ SlotsExact /\ first \in Seq(Slots)
      BY DEF HandleDirInv, HandleDirTypeOK, FreeExact
    <2>7. /\ entry' \in [Slots -> Page \cup {NoPage}] /\ entry'[s] = freed
          /\ \A t \in Slots \ {s} : entry'[t] = entry[t]
      BY <2>1, <2>3, <2>4, <2>6
    <2>8. EntriesExact'
      <3> SUFFICES ASSUME NEW t \in Slots, entry'[t] # NoPage
                   PROVE  /\ NoTwice(entry'[t].first)
                          /\ Elements(entry'[t].first)
                               = {k \in Indices : entry'[t].entry[k] = NoObject}
                          /\ entry'[t].usage + Len(entry'[t].first) = NumEntries
                          /\ entry'[t].usage > 0
        BY DEF EntriesExact, NoTwice, Elements
      <3>1. CASE t = s
        BY <2>3, <2>7, <3>1 DEF PageExact
      <3>2. CASE t # s
        BY <2>6, <2>7, <3>2 DEF EntriesExact
      <3> QED BY <3>1, <3>2
    <2>9. SlotsExact'
      <3>1. {t \in Slots : entry'[t] = NoPage} = {t \in Slots : entry[t] = NoPage}
        BY <2>1, <2>5, <2>7
      <3> QED BY <2>4, <2>6, <3>1 DEF SlotsExact, NoTwice, Elements
    <2>10. pages' \in Seq(Slots) /\ PagesExact'
      <3>1. CASE page.first = <<>>
        <4>1. s \notin Elements(pages) /\ NoTwice(pages)
          BY <2>1, <2>5, <2>6, <3>1 DEF PagesExact
        <4>2. /\ <<s>> \o pages \in Seq(Slots) /\ NoTwice(<<s>> \o pages)
              /\ Elements(<<s>> \o pages) = Elements(pages) \cup {s}
          BY <2>1, <2>6, <4>1, ConsElements
        <4>3. pages' = <<s>> \o pages
          BY <2>3, <2>4, <3>1
        <4>4. Elements(pages') = {t \in Slots : entry'[t] # NoPage /\ entry'[t].first # <<>>}
          BY <2>1, <2>3, <2>5, <2>6, <2>7, <4>2, <4>3 DEF PagesExact
        <4> QED BY <4>2, <4>3, <4>4 DEF PagesExact, NoTwice, Elements
      <3>2. CASE page.first # <<>>
        <4>1. pages' = pages
          BY <2>3, <2>4, <3>2
        <4>2. {t \in Slots : entry'[t] # NoPage /\ entry'[t].first # <<>>}
                = {t \in Slots : entry[t] # NoPage /\ entry[t].first # <<>>}
          BY <2>1, <2>3, <2>5, <2>7, <3>2
        <4> QED BY <2>6, <4>1, <4>2 DEF PagesExact, NoTwice, Elements
      <3> QED BY <3>1, <3>2
    <2> QED BY <2>4, <2>6, <2>7, <2>8, <2>9, <2>10, Ranges, <2>1
        DEF HandleDirInv, HandleDirTypeOK, FreeExact, Destroyed
  <1>2. CASE RemovePage(h)
    <2>1. /\ s \in Slots /\ page \in Page /\ page # NoPage /\ page.usage = 1 /\ alive
      BY <1>2, PresentEntry DEF RemovePage, HandleDirInv
    <2>2. /\ entry' = [entry EXCEPT ![s] = NoPage] /\ answer' = 0
          /\ pages' = Unlink(pages, s) /\ first' = <<s>> \o first /\ UNCHANGED alive
      BY <1>2 DEF RemovePage
    <2>3. /\ entry \in [Slots -> Page \cup {NoPage}] /\ pages \in Seq(Slots)
          /\ PagesExact /\ EntriesExact /\ SlotsExact /\ first \in Seq(Slots)
      BY DEF HandleDirInv, HandleDirTypeOK, FreeExact
    <2>4. page.first # <<>>
      <3>1. page.usage + Len(page.first) = NumEntries /\ page.first \in Seq(Indices)
        BY <2>1, <2>3 DEF EntriesExact, Page
      <3>2. CASE page.first = <<>>
        BY <2>1, <3>1, <3>2, Sizes
      <3> QED BY <3>2
    <2> HIDE DEF page, s
    <2>5. page = entry[s]
      BY DEF page
    <2>6. /\ entry' \in [Slots -> Page \cup {NoPage}] /\ entry'[s] = NoPage
          /\ \A t \in Slots \ {s} : entry'[t] = entry[t]
      BY <2>1, <2>2, <2>3
    <2>7. EntriesExact'
      <3> SUFFICES ASSUME NEW t \in Slots, entry'[t] # NoPage
                   PROVE  /\ NoTwice(entry'[t].first)
                          /\ Elements(entry'[t].first)
                               = {k \in Indices : entry'[t].entry[k] = NoObject}
                          /\ entry'[t].usage + Len(entry'[t].first) = NumEntries
                          /\ entry'[t].usage > 0
        BY DEF EntriesExact, NoTwice, Elements
      <3> QED BY <2>3, <2>6 DEF EntriesExact
    <2>8. first' \in Seq(Slots) /\ SlotsExact'
      <3>1. s \notin Elements(first) /\ NoTwice(first)
        BY <2>1, <2>3, <2>5 DEF SlotsExact
      <3>2. /\ <<s>> \o first \in Seq(Slots) /\ NoTwice(<<s>> \o first)
            /\ Elements(<<s>> \o first) = Elements(first) \cup {s}
        BY <2>1, <2>3, <3>1, ConsElements
      <3>3. Elements(first) = {t \in Slots : entry[t] = NoPage}
        BY <2>1, <2>3 DEF SlotsExact
      <3>4. {t \in Slots : entry'[t] = NoPage} = {t \in Slots : entry[t] = NoPage} \cup {s}
        BY <2>1, <2>6
      <3>5. NoTwice(first') /\ Elements(first') = {t \in Slots : entry'[t] = NoPage}
        BY <2>2, <3>2, <3>3, <3>4
      <3> QED BY <2>2, <3>2, <3>5 DEF SlotsExact, NoTwice, Elements
    <2>9. pages' \in Seq(Slots) /\ PagesExact'
      <3>1. s \in Elements(pages) /\ NoTwice(pages)
        BY <2>1, <2>3, <2>4, <2>5 DEF PagesExact
      <3>2. /\ Unlink(pages, s) \in Seq(Slots) /\ NoTwice(Unlink(pages, s))
            /\ Elements(Unlink(pages, s)) = Elements(pages) \ {s}
        BY <2>3, <3>1, UnlinkElements
      <3>3. Elements(pages') = {t \in Slots : entry'[t] # NoPage /\ entry'[t].first # <<>>}
        BY <2>1, <2>2, <2>3, <2>6, <3>2 DEF PagesExact
      <3> QED BY <2>2, <3>2, <3>3 DEF PagesExact, NoTwice, Elements
    <2> QED BY <2>1, <2>2, <2>6, <2>7, <2>8, <2>9, Ranges
        DEF HandleDirInv, HandleDirTypeOK, FreeExact, Destroyed
  <1>3. CASE RemoveUnknown(h)
    <2>1. UNCHANGED <<alive, first, pages, entry>> /\ answer' \in Handles
      BY <1>3, Ranges DEF RemoveUnknown
    <2> QED BY <2>1 DEF HandleDirInv, HandleDirTypeOK, FreeExact, SlotsExact, PagesExact,
                       EntriesExact, Destroyed, NoTwice, Elements
  <1> QED BY <1>1, <1>2, <1>3 DEF handle_dir_remove

\* What a handle names is an object, or nothing.
LEMMA ObjectType ==
  ASSUME HandleDirTypeOK, NEW h \in Handles
  PROVE  Object(h) \in Objects \cup {NoObject}
  <1>1. CASE Present(h)
    BY <1>1, PresentEntry DEF Object, Page
  <1>2. CASE ~Present(h)
    BY <1>2 DEF Object
  <1> QED BY <1>1, <1>2

LEMMA InitInv ==
  ASSUME HandleDirInit
  PROVE  HandleDirInv
  <1>1. Elements(<<>>) = {} /\ NoTwice(<<>>)
    BY DEF Elements, NoTwice
  <1> QED BY <1>1, AllSlotsExact, Ranges
      DEF HandleDirInit, HandleDirInv, HandleDirTypeOK, FreeExact, SlotsExact, PagesExact,
          EntriesExact, Destroyed

LEMMA NextInv ==
  ASSUME HandleDirInv, [HandleDirNext]_handleDirVars
  PROVE  HandleDirInv'
  <1>1. ASSUME NEW o \in Objects, handle_dir_push(o) PROVE HandleDirInv'
    BY <1>1, PushInv
  <1>2. ASSUME NEW h \in Handles, handle_dir_remove(h) PROVE HandleDirInv'
    BY <1>2, RemoveInv
  <1>3. ASSUME NEW h \in Handles, handle_dir_get(h) PROVE HandleDirInv'
    <2>1. Object(h) \in Objects \cup {NoObject}
      BY ObjectType DEF HandleDirInv
    <2>2. UNCHANGED <<alive, first, pages, entry>> /\ answer' \in Objects \cup {NoObject}
      BY <1>3, <2>1 DEF handle_dir_get
    <2> QED BY <2>2 DEF HandleDirInv, HandleDirTypeOK, FreeExact, SlotsExact, PagesExact,
                       EntriesExact, Destroyed, NoTwice, Elements
  <1>4. CASE handle_dir_destroy
    <2>1. Elements(<<>>) = {} /\ NoTwice(<<>>)
      BY DEF Elements, NoTwice
    <2>2. PagesExact'
      BY <1>4, <2>1 DEF handle_dir_destroy, PagesExact, Elements, NoTwice
    <2>3. /\ alive' = FALSE /\ pages' = <<>> /\ first' = <<>> /\ answer' = 0
          /\ \A s \in Slots : entry'[s] = NoPage
          /\ entry' \in [Slots -> Page \cup {NoPage}]
      BY <1>4 DEF handle_dir_destroy
    <2>4. SlotsExact' /\ EntriesExact' /\ Destroyed'
      BY <2>3 DEF SlotsExact, EntriesExact, Destroyed
    <2>5. HandleDirTypeOK'
      <3>1. <<>> \in Seq(Slots)
        OBVIOUS
      <3> QED BY <2>3, <3>1, Ranges DEF HandleDirTypeOK
    <2> QED BY <2>2, <2>4, <2>5 DEF HandleDirInv, FreeExact
  <1>5. CASE handle_dir_new
    <2>1. /\ ~alive /\ alive' = TRUE /\ first' = AllSlots /\ answer' = 0
          /\ UNCHANGED <<pages, entry>>
      BY <1>5 DEF handle_dir_new
    <2>2. SlotsExact'
      <3>1. {s \in Slots : entry'[s] = NoPage} = Slots
        BY <2>1 DEF HandleDirInv, Destroyed
      <3>2. NoTwice(first') /\ Elements(first') = {s \in Slots : entry'[s] = NoPage}
        BY <2>1, <3>1, AllSlotsExact
      <3> QED BY <3>2 DEF SlotsExact, NoTwice, Elements
    <2> QED BY <2>1, <2>2, AllSlotsExact, Ranges
        DEF HandleDirInv, HandleDirTypeOK, FreeExact, PagesExact, EntriesExact, Destroyed,
            NoTwice, Elements
  <1>6. CASE UNCHANGED handleDirVars
    BY <1>6 DEF handleDirVars, HandleDirInv, HandleDirTypeOK, FreeExact, SlotsExact,
                PagesExact, EntriesExact, Destroyed, NoTwice, Elements
  <1> QED BY <1>1, <1>2, <1>3, <1>4, <1>5, <1>6 DEF HandleDirNext

LEMMA SpecInv == HandleDirSpec => []HandleDirInv
  <1>1. HandleDirInit => HandleDirInv
    BY InitInv
  <1>2. HandleDirInv /\ [HandleDirNext]_handleDirVars => HandleDirInv'
    BY NextInv
  <1> QED BY <1>1, <1>2, PTL DEF HandleDirSpec

\* The chains and lists hold slots and entries of the directory (handledir.c).
THEOREM HandleDirTypeCorrect == HandleDirSpec => []HandleDirTypeOK
  <1>1. HandleDirInv => HandleDirTypeOK
    BY DEF HandleDirInv
  <1> QED BY <1>1, SpecInv, PTL

\* The free slots and entries of a directory are exactly those on its chains
\* and lists (handledir.c), whatever the size of its pages.
THEOREM FreeCorrect == HandleDirSpec => []FreeExact
  <1>1. HandleDirInv => FreeExact
    BY DEF HandleDirInv
  <1> QED BY <1>1, SpecInv, PTL

\* A chain without repetition is as long as the number of its elements.
LEMMA ChainLength ==
  ASSUME NEW S, NEW s \in Seq(S), NoTwice(s)
  PROVE  IsFiniteSet(Elements(s)) /\ Cardinality(Elements(s)) = Len(s)
  <1>1. Len(s) \in Nat /\ DOMAIN s = 1 .. Len(s)
    OBVIOUS
  <1>2. IsFiniteSet(1 .. Len(s)) /\ Cardinality(1 .. Len(s)) = Len(s)
    BY <1>1, FS_Interval
  <1>3. s \in Bijection(1 .. Len(s), Elements(s))
    <2>1. s \in [1 .. Len(s) -> Elements(s)]
      BY <1>1 DEF Elements
    <2>2. \A t \in Elements(s) : \E k \in 1 .. Len(s) : s[k] = t
      BY <1>1 DEF Elements
    <2>3. \A j, k \in 1 .. Len(s) : s[j] = s[k] => j = k
      BY <1>1 DEF NoTwice
    <2> QED BY <2>1, <2>2, <2>3, Fun_IsBij
  <1>4. ExistsBijection(1 .. Len(s), Elements(s))
    BY <1>3, Fun_ExistsBij
  <1> QED BY <1>2, <1>4, FS_Bijection

\* A page of which usage is one has one entry in use.
LEMMA OneInUse ==
  ASSUME NEW page \in Page, PageExact(page), page.usage = 1,
         NEW i \in Indices, page.entry[i] # NoObject
  PROVE  \A j \in Indices : j # i => page.entry[j] = NoObject
  <1> DEFINE Free == {k \in Indices : page.entry[k] = NoObject}
  <1>1. Free \subseteq Indices \ {i}
    OBVIOUS
  <1>2. page.first \in Seq(Indices)
    BY DEF Page
  <1>3. IsFiniteSet(Free) /\ Cardinality(Free) = NumEntries - 1
    <2>1. Free = Elements(page.first) /\ NoTwice(page.first)
          /\ 1 + Len(page.first) = NumEntries
      BY DEF PageExact
    <2>2. Len(page.first) \in Nat
      BY <1>2
    <2>3. Len(page.first) = NumEntries - 1
      BY <2>1, <2>2, Sizes
    <2> HIDE DEF Free
    <2> QED BY <1>2, <2>1, <2>3, ChainLength
  <1>4. IsFiniteSet(Indices) /\ Cardinality(Indices) = NumEntries
    BY Sizes, FS_Interval DEF Indices
  <1>5. IsFiniteSet(Indices \ {i}) /\ Cardinality(Indices \ {i}) = NumEntries - 1
    BY <1>4, FS_RemoveElement
  <1>6. Free = Indices \ {i}
    BY <1>1, <1>3, <1>5, FS_Subset
  <1> QED BY <1>6

-----------------------------------------------------------------------------
(* A directory implements a map *)

\* What a directory and its pages name.
Map == [h \in Handles |-> Object(h)]

\* What a slot and an index name, in terms of the directory.
Word(s, i) == IF s \in Slots /\ i \in Indices /\ entry[s] # NoPage
                THEN entry[s].entry[i] ELSE NoObject

LEMMA ObjectIsWord ==
  ASSUME NEW h \in Handles
  PROVE  /\ Object(h) = Word(SlotOf(h), IndexOf(h))
         /\ Object(h)' = Word(SlotOf(h), IndexOf(h))'
  BY DecrementType, Sizes DEF Object, Present, Word, Slots, Indices

\* One word changes: one handle changes its meaning.
LEMMA WordChanged ==
  ASSUME NEW s \in Slots, NEW i \in Indices, NEW x, Word(s, i)' = x,
         \A t \in Slots, j \in Indices : <<t, j>> # <<s, i>> => Word(t, j)' = Word(t, j)
  PROVE  Map' = [Map EXCEPT ![HandleOf(s, i)] = x]
  <1> DEFINE g == HandleOf(s, i)
  <1>1. g \in Handles /\ SlotOf(g) = s /\ IndexOf(g) = i
    BY HandleOfEntry
  <1> HIDE DEF g
  <1>2. ASSUME NEW h \in Handles, h # g PROVE Object(h)' = Object(h)
    <2> DEFINE t == SlotOf(h)
               j == IndexOf(h)
    <2>1. <<t, j>> # <<s, i>>
      BY <1>1, <1>2, HandleInjective
    <2>2. Object(h) = Word(t, j) /\ Object(h)' = Word(t, j)'
      BY ObjectIsWord
    <2>3. CASE t \in Slots /\ j \in Indices
      BY <2>1, <2>2, <2>3
    <2>4. CASE ~(t \in Slots /\ j \in Indices)
      BY <2>2, <2>4 DEF Word
    <2> QED BY <2>3, <2>4
  <1>3. Object(g)' = x
    BY <1>1, ObjectIsWord
  <1>4. Map' = [h \in Handles |-> Object(h)'] /\ Map = [h \in Handles |-> Object(h)]
    BY DEF Map
  <1> QED BY <1>1, <1>2, <1>3, <1>4 DEF g

LEMMA MapKept ==
  ASSUME entry' = entry
  PROVE  Map' = Map
  BY DEF Map, Object, Present

\* Without pages, no handle names anything.
LEMMA NoPagesNoNames ==
  /\ (\A s \in Slots : entry[s] = NoPage) => Map = [h \in Handles |-> NoObject]
  /\ (\A s \in Slots : entry'[s] = NoPage) => Map' = [h \in Handles |-> NoObject]
  <1>1. ASSUME \A s \in Slots : entry[s] = NoPage, NEW h \in Handles
        PROVE  Object(h) = NoObject
    BY <1>1, ObjectIsWord DEF Word
  <1>2. ASSUME \A s \in Slots : entry'[s] = NoPage, NEW h \in Handles
        PROVE  Object(h)' = NoObject
    BY <1>2, ObjectIsWord DEF Word
  <1> QED BY <1>1, <1>2 DEF Map

LEMMA TakeMaps ==
  ASSUME HandleDirInv, NEW slot \in Slots, NEW page \in Page, NEW o \in Objects,
         NEW list, PageExact(page), page.first # <<>>, Take(slot, page, o, list),
         \A i \in Indices : Word(slot, i) = page.entry[i]
  PROVE  \E h \in Handles \ {0} :
            Map[h] = NoObject /\ Map' = [Map EXCEPT ![h] = o] /\ answer' = h
  <1> DEFINE index == Head(page.first)
             h == HandleOf(slot, index)
             taken == [first |-> Tail(page.first), usage |-> page.usage + 1,
                       entry |-> [page.entry EXCEPT ![index] = o]]
  <1>1. /\ page.first \in Seq(Indices) /\ page.usage \in Nat
        /\ page.entry \in [Indices -> Objects \cup {NoObject}]
    BY DEF Page
  <1>2. index \in Indices /\ index \in Elements(page.first) /\ Tail(page.first) \in Seq(Indices)
    BY <1>1, TailElements DEF PageExact
  <1>3. page.entry[index] = NoObject
    BY <1>2 DEF PageExact
  <1>4. taken \in Page /\ taken # NoPage /\ taken.entry = [page.entry EXCEPT ![index] = o]
    <2> DEFINE e == [page.entry EXCEPT ![index] = o]
    <2>1. e \in [Indices -> Objects \cup {NoObject}] /\ page.usage + 1 \in Nat
      BY <1>1
    <2>2. taken = [first |-> Tail(page.first), usage |-> page.usage + 1, entry |-> e]
      OBVIOUS
    <2> HIDE DEF e, taken
    <2>3. taken \in Page /\ taken.entry = e
      BY <1>2, <2>1, <2>2 DEF Page
    <2> QED BY <2>3, PageAssumption DEF e
  <1>5. /\ entry \in [Slots -> Page \cup {NoPage}] /\ entry' = [entry EXCEPT ![slot] = taken]
        /\ answer' = h
    BY DEF Take, HandleDirInv, HandleDirTypeOK
  <1> HIDE DEF taken, index
  <1>6. h \in Handles \ {0} /\ SlotOf(h) = slot /\ IndexOf(h) = index
    BY <1>2, HandleOfEntry
  <1>7. Map[h] = NoObject
    BY <1>2, <1>3, <1>6, ObjectIsWord DEF Map
  <1>8. Word(slot, index)' = o
    BY <1>1, <1>2, <1>4, <1>5 DEF Word
  <1>9. ASSUME NEW t \in Slots, NEW j \in Indices, <<t, j>> # <<slot, index>>
        PROVE  Word(t, j)' = Word(t, j)
    <2>1. CASE t = slot
      BY <1>1, <1>2, <1>4, <1>5, <1>9, <2>1 DEF Word
    <2>2. CASE t # slot
      BY <1>5, <2>2 DEF Word
    <2> QED BY <2>1, <2>2
  <1>10. Map' = [Map EXCEPT ![h] = o]
    BY <1>2, <1>8, <1>9, WordChanged
  <1> QED BY <1>5, <1>6, <1>7, <1>10

LEMMA PushMaps ==
  ASSUME HandleDirInv, NEW o \in Objects, handle_dir_push(o)
  PROVE  \/ answer' = 0 /\ Map' = Map
         \/ \E h \in Handles \ {0} :
               Map[h] = NoObject /\ Map' = [Map EXCEPT ![h] = o] /\ answer' = h
  <1>1. CASE PushOnPage(o)
    <2> DEFINE slot == Head(pages)
    <2>1. pages # <<>> /\ Take(slot, entry[slot], o, pages)
      BY <1>1 DEF PushOnPage
    <2>2. slot \in Slots /\ slot \in Elements(pages)
      BY <2>1, TailElements DEF HandleDirInv, HandleDirTypeOK, FreeExact, PagesExact
    <2> HIDE DEF slot
    <2>3. entry[slot] # NoPage /\ entry[slot].first # <<>>
      BY <2>2 DEF HandleDirInv, FreeExact, PagesExact
    <2>4. entry[slot] \in Page /\ PageExact(entry[slot])
      BY <2>2, <2>3
      DEF HandleDirInv, HandleDirTypeOK, FreeExact, EntriesExact, PageExact
    <2>5. \A i \in Indices : Word(slot, i) = entry[slot].entry[i]
      BY <2>2, <2>3 DEF Word
    <2> QED BY <2>1, <2>2, <2>3, <2>4, <2>5, TakeMaps
  <1>2. CASE PushOnNewPage(o)
    <2> DEFINE slot == Head(first)
    <2>1. first # <<>> /\ alive /\ Take(slot, EmptyPage, o, <<slot>>)
      BY <1>2 DEF PushOnNewPage
    <2>2. slot \in Slots /\ slot \in Elements(first)
      BY <2>1, TailElements DEF HandleDirInv, HandleDirTypeOK, FreeExact, SlotsExact
    <2> HIDE DEF slot
    <2>3. entry[slot] = NoPage
      BY <2>1, <2>2 DEF HandleDirInv, FreeExact, SlotsExact
    <2>4. \A i \in Indices : Word(slot, i) = EmptyPage.entry[i]
      BY <2>3 DEF Word, EmptyPage
    <2> QED BY <2>1, <2>2, <2>4, EmptyPageExact, TakeMaps
  <1>3. CASE PushOutOfMemory \/ PushNoSlot
    BY <1>3, MapKept DEF PushOutOfMemory, PushNoSlot
  <1> QED BY <1>1, <1>2, <1>3 DEF handle_dir_push

LEMMA RemoveMaps ==
  ASSUME HandleDirInv, NEW h \in Handles, handle_dir_remove(h)
  PROVE  answer' = 0 /\ Map' = [Map EXCEPT ![h] = NoObject]
  <1> DEFINE s == SlotOf(h)
             i == IndexOf(h)
  <1>1. CASE ~Present(h)
    <2>1. answer' = 0 /\ entry' = entry
      BY <1>1 DEF handle_dir_remove, RemoveEntry, RemovePage, RemoveUnknown
    <2>2. Map[h] = NoObject
      BY <1>1 DEF Map, Object
    <2>3. Map = [Map EXCEPT ![h] = NoObject]
      BY <2>2 DEF Map
    <2> QED BY <2>1, <2>3, MapKept
  <1>2. CASE Present(h)
    <2>1. /\ s \in Slots /\ i \in Indices /\ entry[s] \in Page /\ entry[s] # NoPage
          /\ entry \in [Slots -> Page \cup {NoPage}] /\ entry[s].entry[i] # NoObject
      BY <1>2, PresentEntry DEF HandleDirInv, HandleDirTypeOK
    <2>2. answer' = 0 /\ (RemoveEntry(h) \/ RemovePage(h))
      BY <1>2 DEF handle_dir_remove, RemoveEntry, RemovePage, RemoveUnknown
    <2>3. h = HandleOf(s, i)
      <3>1. h # 0
        BY <2>1, InvalidHandle, Sizes DEF Slots
      <3>2. Decrement(h) = s * PageDiv + i /\ s * PageDiv \in Nat /\ i \in Nat
        BY <2>1, DecrementType, Sizes, Ranges
      <3> QED BY <3>1, <3>2 DEF HandleOf, Decrement, Handles
    <2>4. CASE RemoveEntry(h)
      <3> DEFINE freed == [first |-> <<i>> \o entry[s].first, usage |-> entry[s].usage - 1,
                           entry |-> [entry[s].entry EXCEPT ![i] = NoObject]]
      <3>1. PageExact(entry[s])
        BY <2>1 DEF HandleDirInv, FreeExact, EntriesExact, PageExact
      <3>2. entry' = [entry EXCEPT ![s] = freed] /\ entry[s].usage > 1
        BY <2>4 DEF RemoveEntry
      <3>3. freed \in Page /\ freed.entry = [entry[s].entry EXCEPT ![i] = NoObject]
        BY <2>1, <3>1, <3>2, FreedExact
      <3> HIDE DEF freed, s, i
      <3>4. freed # NoPage /\ entry[s].entry \in [Indices -> Objects \cup {NoObject}]
        BY <2>1, <3>3, PageAssumption DEF Page
      <3>5. Word(s, i)' = NoObject
        BY <2>1, <3>2, <3>3, <3>4 DEF Word
      <3>6. ASSUME NEW t \in Slots, NEW j \in Indices, <<t, j>> # <<s, i>>
            PROVE  Word(t, j)' = Word(t, j)
        <4>1. CASE t = s
          BY <2>1, <3>2, <3>3, <3>4, <3>6, <4>1 DEF Word
        <4>2. CASE t # s
          BY <2>1, <3>2, <4>2 DEF Word
        <4> QED BY <4>1, <4>2
      <3> QED BY <2>1, <2>2, <2>3, <3>5, <3>6, WordChanged
    <2>5. CASE RemovePage(h)
      <3>1. entry' = [entry EXCEPT ![s] = NoPage] /\ entry[s].usage = 1
        BY <2>5 DEF RemovePage
      <3>2. /\ NoTwice(entry[s].first) /\ entry[s].usage + Len(entry[s].first) = NumEntries
            /\ Elements(entry[s].first) = {k \in Indices : entry[s].entry[k] = NoObject}
            /\ entry[s].first \in Seq(Indices)
        BY <2>1 DEF HandleDirInv, FreeExact, EntriesExact, Page
      <3>3. \A j \in Indices : j # i => entry[s].entry[j] = NoObject
        BY <2>1, <3>1, <3>2, OneInUse DEF PageExact
      <3> HIDE DEF s, i
      <3>4. Word(s, i)' = NoObject
        BY <2>1, <3>1 DEF Word
      <3>5. ASSUME NEW t \in Slots, NEW j \in Indices, <<t, j>> # <<s, i>>
            PROVE  Word(t, j)' = Word(t, j)
        <4>1. CASE t = s
          BY <2>1, <3>1, <3>3, <3>5, <4>1 DEF Word
        <4>2. CASE t # s
          BY <2>1, <3>1, <4>2 DEF Word
        <4> QED BY <4>1, <4>2
      <3> QED BY <2>1, <2>2, <2>3, <3>4, <3>5, WordChanged
    <2> QED BY <2>2, <2>4, <2>5
  <1> QED BY <1>1, <1>2

LEMMA StepMaps ==
  ASSUME HandleDirInv, [HandleDirNext]_handleDirVars
  PROVE  [Names!MapNext]_(Names!mapVars)
  <1> SUFFICES Names!MapNext \/ UNCHANGED <<Map, answer>>
    BY DEF Names!mapVars, Map
  <1>1. ASSUME NEW o \in Objects, handle_dir_push(o) PROVE Names!MapPush(o)
    BY <1>1, PushMaps DEF Names!MapPush, Map
  <1>2. ASSUME NEW h \in Handles, handle_dir_remove(h) PROVE Names!MapRemove(h)
    BY <1>2, RemoveMaps DEF Names!MapRemove, Map
  <1>3. ASSUME NEW h \in Handles, handle_dir_get(h) PROVE Names!MapGet(h)
    <2>1. Map' = Map /\ answer' = Object(h) /\ Map[h] = Object(h)
      BY <1>3, MapKept DEF handle_dir_get, Map
    <2> QED BY <2>1 DEF Names!MapGet, Map
  <1>4. CASE handle_dir_destroy
    <2>1. \A s \in Slots : entry'[s] = NoPage
      BY <1>4 DEF handle_dir_destroy
    <2>2. Map' = [h \in Handles |-> NoObject]
      BY <2>1, NoPagesNoNames
    <2> QED BY <1>4, <2>2 DEF handle_dir_destroy, Names!MapClear, Names!MapNext, Names!Nothing, Map
  <1>5. CASE handle_dir_new
    <2>1. \A s \in Slots : entry[s] = NoPage
      BY <1>5 DEF handle_dir_new, HandleDirInv, Destroyed
    <2>2. Map' = [h \in Handles |-> NoObject]
      BY <1>5, <2>1, NoPagesNoNames, MapKept DEF handle_dir_new
    <2> QED BY <1>5, <2>2 DEF handle_dir_new, Names!MapClear, Names!MapNext, Names!Nothing, Map
  <1>6. CASE UNCHANGED handleDirVars
    BY <1>6, MapKept DEF handleDirVars
  <1> QED BY <1>1, <1>2, <1>3, <1>4, <1>5, <1>6 DEF HandleDirNext, Names!MapNext

LEMMA InitMaps ==
  ASSUME HandleDirInit
  PROVE  Names!MapInit
  <1>1. Map = [h \in Handles |-> NoObject]
    BY NoPagesNoNames DEF HandleDirInit
  <1> QED BY <1>1 DEF HandleDirInit, Names!MapInit, Names!Nothing, Map

\* A directory implements the map that handledir.h promises: handles are new
\* when they are given, name their object until they are removed, and no call
\* changes what another handle names, whatever the size of pages, directory and
\* handle numbers.
THEOREM MapImplemented == HandleDirSpec => ImplementsMap
  <1>1. HandleDirInit => HandleDirInv /\ Names!MapInit
    BY InitInv, InitMaps
  <1>2. HandleDirInv /\ [HandleDirNext]_handleDirVars
          => HandleDirInv' /\ [Names!MapNext]_(Names!mapVars)
    BY NextInv, StepMaps
  <1> QED BY <1>1, <1>2, PTL DEF HandleDirSpec, ImplementsMap, Names!MapSpec

-----------------------------------------------------------------------------
(* Room *)

LEMMA FullWhenNoSlot ==
  ASSUME HandleDirInv, alive, pages = <<>>, first = <<>>,
         NEW s \in Slots, NEW i \in Indices
  PROVE  Object(HandleOf(s, i)) # NoObject
  <1>1. Elements(<<>>) = {}
    BY DEF Elements
  <1>2. entry[s] # NoPage
    BY <1>1 DEF HandleDirInv, FreeExact, SlotsExact
  <1>3. entry[s].first = <<>>
    BY <1>1, <1>2 DEF HandleDirInv, FreeExact, PagesExact
  <1>4. entry[s].entry[i] # NoObject
    BY <1>1, <1>2, <1>3 DEF HandleDirInv, FreeExact, EntriesExact
  <1> QED BY <1>2, <1>4, HandleOfEntry, ObjectIsWord DEF Word

LEMMA PushFailsFull ==
  ASSUME HandleDirInv, NEW o \in Objects, handle_dir_push(o), answer' = 0
  PROVE  \/ PushOutOfMemory
         \/ \A s \in Slots, i \in Indices : Object(HandleOf(s, i)) # NoObject
  <1>1. CASE PushOnPage(o)
    <2> DEFINE slot == Head(pages)
    <2>1. pages # <<>> /\ Take(slot, entry[slot], o, pages)
      BY <1>1 DEF PushOnPage
    <2>2. slot \in Slots /\ slot \in Elements(pages)
      BY <2>1, TailElements DEF HandleDirInv, HandleDirTypeOK, FreeExact, PagesExact
    <2> HIDE DEF slot
    <2>3. entry[slot] # NoPage /\ entry[slot].first # <<>> /\ NoTwice(entry[slot].first)
      BY <2>2 DEF HandleDirInv, FreeExact, PagesExact, EntriesExact
    <2>4. entry[slot].first \in Seq(Indices)
      BY <2>2, <2>3 DEF HandleDirInv, HandleDirTypeOK, Page
    <2>5. Head(entry[slot].first) \in Indices
      BY <2>3, <2>4, TailElements
    <2>6. answer' # 0
      BY <2>1, <2>2, <2>5, HandleOfEntry DEF Take
    <2> QED BY <2>6
  <1>2. CASE PushOnNewPage(o)
    <2>1. first # <<>> /\ Take(Head(first), EmptyPage, o, <<Head(first)>>) /\ alive
      BY <1>2 DEF PushOnNewPage
    <2>2. Head(first) \in Slots
      BY <2>1, TailElements DEF HandleDirInv, HandleDirTypeOK, FreeExact, SlotsExact
    <2>3. EmptyPage.first \in Seq(Indices) /\ EmptyPage.first # <<>> /\ NoTwice(EmptyPage.first)
      BY EmptyPageExact DEF Page, PageExact
    <2>4. Head(EmptyPage.first) \in Indices
      BY <2>3, TailElements
    <2>5. answer' # 0
      BY <2>1, <2>2, <2>4, HandleOfEntry DEF Take
    <2> QED BY <2>5
  <1>3. CASE PushNoSlot
    BY <1>3, FullWhenNoSlot DEF PushNoSlot
  <1> QED BY <1>1, <1>2, <1>3 DEF handle_dir_push

\* A directory gives out a handle as long as one is free and there is memory.
THEOREM PushFailsCorrect == HandleDirSpec => PushFailsOnlyWhenFull
  <1>1. HandleDirInit => HandleDirInv
    BY InitInv
  <1>2. HandleDirInv /\ [HandleDirNext]_handleDirVars
          => /\ HandleDirInv'
             /\ [(\E o \in Objects : handle_dir_push(o)) /\ answer' = 0 =>
                    \/ PushOutOfMemory
                    \/ \A s \in Slots, i \in Indices :
                          Object(HandleOf(s, i)) # NoObject]_handleDirVars
    BY NextInv, PushFailsFull
  <1> QED BY <1>1, <1>2, PTL DEF HandleDirSpec, PushFailsOnlyWhenFull
=============================================================================
