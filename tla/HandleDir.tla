------------------------------ MODULE HandleDir ------------------------------
(***************************************************************************)
(* Directories of handles (handledir.c): a directory of pages of entries.  *)
(* The free slots of the directory, and the free entries of each page, are *)
(* chained through the unused words themselves; the pages that have a free *)
(* entry are on a list.  The chains and the list are sequences here.       *)
(*                                                                         *)
(* The three directories of the library (components, imports and queries)  *)
(* are used under the lock of their module, so calls do not overlap.       *)
(***************************************************************************)
EXTENDS Naturals, Sequences

CONSTANTS
  Objects,       \* what is pushed
  NoObject,      \* the NULL pointer, and a word that is not marked present
  NoPage,        \* a slot of the directory that is not marked present
  NumEntries,    \* NUM_ENTRIES: entries of a page
  NumPages,      \* NUM_PAGES: slots of a directory
  PageDiv,       \* PAGE_DIV: handles reserved for a page
  MaxHandle      \* the largest xc_handle_t

\* 508 entries, 509 pages, 512 handles per page and 2^32 - 1 in the library.
\* With one entry per page, a full page would not go back on the list.
ASSUME HandleAssumption ==
  /\ NumEntries \in Nat /\ NumPages \in Nat /\ PageDiv \in Nat /\ MaxHandle \in Nat
  /\ 1 < NumEntries /\ NumEntries <= PageDiv /\ 0 < NumPages
  /\ NumPages * PageDiv <= MaxHandle
ASSUME ObjectAssumption ==
  NoObject \notin Objects /\ Objects \cap Nat = {} /\ NoObject \notin Nat

Handles == 0 .. MaxHandle
Slots   == 0 .. NumPages - 1
Indices == 0 .. NumEntries - 1

Page == [first : Seq(Indices), usage : Nat,
         entry : [Indices -> Objects \cup {NoObject}]]

ASSUME PageAssumption == NoPage \notin Page

VARIABLES
  alive,    \* the directory is allocated
  first,    \* HandleDir.first and the chain of free slots
  pages,    \* HandleDir.pages: the slots of the pages with free entries
  entry,    \* HandleDir.entry: the page of each slot
  answer    \* what the last call returned

handleDirVars == <<alive, first, pages, entry, answer>>

-----------------------------------------------------------------------------
\* Mutant: the first slot counts as the second one.
HandleOfNextSlot(slot, index) == index + (slot + 1) * PageDiv + 1

HandleOf(slot, index) == index + slot * PageDiv + 1

\* handle --, in unsigned arithmetic.
Decrement(h) == IF h = 0 THEN MaxHandle ELSE h - 1

\* Mutant: a handle is not decremented.
IndexOfHandle(h) == h % PageDiv

SlotOf(h)  == Decrement(h) \div PageDiv
IndexOf(h) == Decrement(h) % PageDiv

\* The checks of handle_dir_get and handle_dir_remove, in their order.
Present(h) ==
  /\ SlotOf(h) < NumPages
  /\ entry[SlotOf(h)] # NoPage
  /\ IndexOf(h) < NumEntries
  /\ entry[SlotOf(h)].entry[IndexOf(h)] # NoObject

Object(h) == IF Present(h) THEN entry[SlotOf(h)].entry[IndexOf(h)] ELSE NoObject

\* init_dir
AllSlots == [k \in 1 .. NumPages |-> k - 1]

\* malloc and init_page
EmptyPage == [first |-> [k \in 1 .. NumEntries |-> k - 1], usage |-> 0,
              entry |-> [i \in Indices |-> NoObject]]

\* XC_CLIST_REMOVE
Unlink(list, x) ==
  LET at == CHOOSE k \in DOMAIN list : list[k] = x
  IN  [k \in 1 .. Len(list) - 1 |-> IF k < at THEN list[k] ELSE list[k + 1]]

-----------------------------------------------------------------------------
HandleDirInit ==
  /\ alive = TRUE
  /\ first = AllSlots
  /\ pages = <<>>
  /\ entry = [s \in Slots |-> NoPage]
  /\ answer = 0

\* Mutant: the page of which the last entry was taken stays on the list.
TakeKeepsFull(slot, page, o, list) ==
  /\ entry' = [entry EXCEPT ![slot] =
                 [first |-> Tail(page.first),
                  usage |-> page.usage + 1,
                  entry |-> [page.entry EXCEPT ![Head(page.first)] = o]]]
  /\ pages' = list
  /\ answer' = HandleOf(slot, Head(page.first))

\* The end of handle_dir_push: o takes the first free entry of page, which is
\* in slot, the head of the list.
Take(slot, page, o, list) ==
  /\ entry' = [entry EXCEPT ![slot] =
                 [first |-> Tail(page.first),
                  usage |-> page.usage + 1,
                  entry |-> [page.entry EXCEPT ![Head(page.first)] = o]]]
  /\ pages' = IF Tail(page.first) = <<>> THEN Tail(list) ELSE list
  /\ answer' = HandleOf(slot, Head(page.first))

PushOnPage(o) ==
  /\ alive /\ pages # <<>>
  /\ Take(Head(pages), entry[Head(pages)], o, pages)
  /\ UNCHANGED <<alive, first>>

PushOnNewPage(o) ==
  /\ alive /\ pages = <<>> /\ first # <<>>
  /\ Take(Head(first), EmptyPage, o, <<Head(first)>>)
  /\ first' = Tail(first)
  /\ UNCHANGED alive

PushOutOfMemory ==
  /\ alive /\ pages = <<>> /\ first # <<>>
  /\ answer' = 0
  /\ UNCHANGED <<alive, first, pages, entry>>

PushNoSlot ==
  /\ alive /\ pages = <<>> /\ first = <<>>
  /\ answer' = 0
  /\ UNCHANGED <<alive, first, pages, entry>>

handle_dir_push(o) == PushOnPage(o) \/ PushOnNewPage(o) \/ PushOutOfMemory \/ PushNoSlot

\* Mutant: a page goes back on the list only when it was not full before.
RemoveForgetsList(h) ==
  LET s == SlotOf(h)
      i == IndexOf(h)
      page == entry[s]
      freed == [first |-> <<i>> \o page.first, usage |-> page.usage - 1,
                entry |-> [page.entry EXCEPT ![i] = NoObject]]
  IN  /\ alive /\ Present(h) /\ page.usage > 1
      /\ entry' = [entry EXCEPT ![s] = freed]
      /\ pages' = pages
      /\ answer' = 0
      /\ UNCHANGED <<alive, first>>

\* The entry goes to the head of the free chain; a page that was full goes to
\* the head of the list.
RemoveEntry(h) ==
  LET s == SlotOf(h)
      i == IndexOf(h)
      page == entry[s]
      freed == [first |-> <<i>> \o page.first, usage |-> page.usage - 1,
                entry |-> [page.entry EXCEPT ![i] = NoObject]]
  IN  /\ alive /\ Present(h) /\ page.usage > 1
      /\ entry' = [entry EXCEPT ![s] = freed]
      /\ pages' = IF freed.usage = NumEntries - 1 THEN <<s>> \o pages ELSE pages
      /\ answer' = 0
      /\ UNCHANGED <<alive, first>>

\* The last entry of a page: the page is freed.
RemovePage(h) ==
  LET s == SlotOf(h)
  IN  /\ alive /\ Present(h) /\ entry[s].usage = 1
      /\ entry' = [entry EXCEPT ![s] = NoPage]
      /\ first' = <<s>> \o first
      /\ pages' = Unlink(pages, s)
      /\ answer' = 0
      /\ UNCHANGED alive

RemoveUnknown(h) ==
  /\ alive /\ ~Present(h)
  /\ answer' = 0
  /\ UNCHANGED <<alive, first, pages, entry>>

handle_dir_remove(h) == RemoveEntry(h) \/ RemovePage(h) \/ RemoveUnknown(h)

handle_dir_get(h) ==
  /\ alive
  /\ answer' = Object(h)
  /\ UNCHANGED <<alive, first, pages, entry>>

handle_dir_destroy ==
  /\ alive
  /\ alive' = FALSE
  /\ entry' = [s \in Slots |-> NoPage]
  /\ pages' = <<>>
  /\ first' = <<>>
  /\ answer' = 0

handle_dir_new ==
  /\ ~alive
  /\ alive' = TRUE
  /\ first' = AllSlots
  /\ answer' = 0
  /\ UNCHANGED <<pages, entry>>

HandleDirNext ==
  \/ \E o \in Objects : handle_dir_push(o)
  \/ \E h \in Handles : handle_dir_remove(h) \/ handle_dir_get(h)
  \/ handle_dir_destroy
  \/ handle_dir_new

HandleDirSpec == HandleDirInit /\ [][HandleDirNext]_handleDirVars

-----------------------------------------------------------------------------
(* Properties *)

\* The chains and lists are chains of slots and entries, the pages records.
HandleDirTypeOK ==
  /\ alive \in BOOLEAN
  /\ first \in Seq(Slots)
  /\ pages \in Seq(Slots)
  /\ entry \in [Slots -> Page \cup {NoPage}]
  /\ answer \in Handles \cup Objects \cup {NoObject}

NoTwice(s) == \A j, k \in DOMAIN s : s[j] = s[k] => j = k
Elements(s) == {s[k] : k \in DOMAIN s}

\* The slots without a page are those on the free chain, once each.
SlotsExact ==
  alive => /\ NoTwice(first)
           /\ Elements(first) = {s \in Slots : entry[s] = NoPage}

\* The pages with a free entry are those on the list, once each.
PagesExact ==
  /\ NoTwice(pages)
  /\ Elements(pages) = {s \in Slots : entry[s] # NoPage /\ entry[s].first # <<>>}

\* The free entries of a page are those on its chain, once each; the others
\* are counted by usage, and there is one at least.
EntriesExact ==
  \A s \in Slots : entry[s] # NoPage =>
    /\ NoTwice(entry[s].first)
    /\ Elements(entry[s].first) = {i \in Indices : entry[s].entry[i] = NoObject}
    /\ entry[s].usage + Len(entry[s].first) = NumEntries
    /\ entry[s].usage > 0

\* No handle is lost and none can be given twice: what is free is on exactly
\* one chain, through every page that fills up, empties and is freed.
FreeExact == SlotsExact /\ PagesExact /\ EntriesExact

\* Pushing fails only when the directory is full or memory ran out
\* (handledir.h: a handle number or 0 for error).
PushFailsOnlyWhenFull ==
  [][(\E o \in Objects : handle_dir_push(o)) /\ answer' = 0 =>
        \/ PushOutOfMemory
        \/ \A s \in Slots, i \in Indices : Object(HandleOf(s, i)) # NoObject]_handleDirVars

Names == INSTANCE HandleMap WITH map <- [h \in Handles |-> Object(h)]

\* A directory implements a map: a handle is new when it is given, names its
\* object until it is removed, and no operation changes what others name.
ImplementsMap == Names!MapSpec
=============================================================================
